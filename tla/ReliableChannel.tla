-------------------------- MODULE ReliableChannel --------------------------
(***************************************************************************)
(* What a conversation of 3rd/src-c/kcp promises to the two programs that  *)
(* use it: whole messages, in the order they were sent, each exactly once, *)
(* in each direction.                                                      *)
(***************************************************************************)
EXTENDS Naturals, Sequences

CONSTANTS
    End,         \* the two ends of the conversation
    Peer(_),     \* the other end
    Message      \* what may be sent

VARIABLES
    sent,        \* per end: the messages it has sent
    got          \* per end: the messages it has received

Init ==
    /\ sent = [e \in End |-> <<>>]
    /\ got = [e \in End |-> <<>>]

Send(e, m) ==
    /\ sent' = [sent EXCEPT ![e] = Append(@, m)]
    /\ UNCHANGED got

\* The next message the other end sent and this end has not received.
Receive(e) ==
    /\ Len(got[e]) < Len(sent[Peer(e)])
    /\ got' = [got EXCEPT ![e] = Append(@, sent[Peer(e)][Len(@) + 1])]
    /\ UNCHANGED sent

Next == \E e \in End : Receive(e) \/ \E m \in Message : Send(e, m)

Spec == Init /\ [][Next]_<<sent, got>>
=============================================================================
