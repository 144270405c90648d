--------------------------- MODULE MCChatManager ---------------------------
(* Instance of ChatManager for TLC. *)
EXTENDS ChatManager, TLC

Symmetry == Permutations(Rid) \cup Permutations(Channel) \cup Permutations(Name)
            \cup Permutations(Agent)
=============================================================================
