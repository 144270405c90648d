--------------------------- MODULE MCUnionManager ---------------------------
(***************************************************************************)
(* Four instances of UnionManager, one behaviour being of one of them:     *)
(* - two coroutines, so that commands and the loads and saves of their     *)
(*   unions interleave, without restarts;                                  *)
(* - one coroutine and restarts of the service at any point;               *)
(* - two coroutines, one role more than a union may hold and as many       *)
(*   applications, for the limit on members: the union is stored, as after *)
(*   an unload, so that loads, approvals and saves overlap at the limit;   *)
(*   without new unions, dismissals and vice chairmen;                     *)
(* - a role that comes online and goes, for the unload timer.              *)
(***************************************************************************)
EXTENDS UnionManager, TLC

CONSTANTS
    Alone,                     \* the one coroutine of the second and the last
    CapRid,                    \* the roles of the third instance
    OnlineRid, OnlinePlayer    \* those of the fourth, and who comes online

VARIABLE part     \* the instance

Cap == INSTANCE UnionManager WITH Rid <- CapRid, Player <- {}, MaxApply <- 2
Presence == INSTANCE UnionManager
            WITH Rid <- OnlineRid, Player <- OnlinePlayer, MaxApply <- 0

\* A union of its founder, which the unload timer removed from the cache, with
\* a pending application of every other role.
Founded(u, founder) ==
    /\ row = [v \in Union |->
                IF v = u THEN [members |-> {founder}, chairman |-> founder, vice |-> NoRid, state |-> 1]
                ELSE NoRow]
    /\ lastApply = Cardinality(CapRid) - 1
    /\ \E id \in [CapRid \ {founder} -> 1 .. lastApply] :
          /\ \A r, s \in CapRid \ {founder} : id[r] = id[s] => r = s
          /\ applies = {[union |-> u, rid |-> r, id |-> id[r], state |-> "pending"] :
                           r \in CapRid \ {founder}}
    /\ applyRow = applies
    /\ unions = [v \in Union |-> NoRow]
    /\ online_members = {} /\ applyWrites = {}
    /\ online_players = [r \in CapRid |-> Off]
    /\ unload = [v \in Union |-> Quiet]
    /\ proc = [p \in Proc |-> Idle]

AnyInit ==
    \/ part \in {"commands", "restarts"} /\ Init
    \/ part = "cap" /\ \E u \in Union, founder \in CapRid : Founded(u, founder)
    \/ part = "presence" /\ Presence!Init

OthersIdle == \A p \in Proc \ {Alone} : proc'[p].at = "idle"
NoNews == \A p \in Proc : proc'[p].at # "creating" /\ proc'[p].kind # "dismiss"
NoVice == \A c \in Copies' \ {NoRow} : c.vice = NoRid

CommandStep == part = "commands" /\ UNCHANGED part /\ Operation
RestartStep == part = "restarts" /\ UNCHANGED part /\ Next /\ OthersIdle
CapStep == part = "cap" /\ UNCHANGED part /\ Cap!Operation /\ NoNews /\ NoVice
PresenceStep == part = "presence" /\ UNCHANGED part /\ Presence!Operation /\ OthersIdle

AnySpec ==
    /\ AnyInit
    /\ [][CommandStep \/ RestartStep \/ CapStep \/ PresenceStep]_<<vars, part>>

\* The first alone, here with players who come online.
CommandSpec == part = "commands" /\ Init /\ [][CommandStep]_<<vars, part>>

Symmetry == Permutations(Proc) \cup Permutations(Rid) \cup Permutations(CapRid)
=============================================================================
