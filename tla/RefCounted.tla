---------------------------- MODULE RefCounted ----------------------------
(***************************************************************************)
(* What the reference service promises, with the messages, versions and    *)
(* timers left out: a service is up, holders come and go, and it is taken  *)
(* down only while nobody holds it.  Refd implements this specification.   *)
(***************************************************************************)
CONSTANTS Addr, Handle

VARIABLES
    up,       \* services that may be taken
    down,     \* services told to stop, for good
    holders   \* [Addr -> SUBSET Handle]

absVars == <<up, down, holders>>

AbsInit ==
    /\ up = {}
    /\ down = {}
    /\ holders = [a \in Addr |-> {}]

\* A service that was never up announces itself.
Announce(a) ==
    /\ a \notin up \cup down
    /\ up' = up \cup {a}
    /\ UNCHANGED <<down, holders>>

\* Only a service that is up can be taken.
Take(a, h) ==
    /\ a \in up
    /\ h \notin UNION {holders[b] : b \in Addr}
    /\ holders' = [holders EXCEPT ![a] = @ \cup {h}]
    /\ UNCHANGED <<up, down>>

Drop(a, h) ==
    /\ h \in holders[a]
    /\ holders' = [holders EXCEPT ![a] = @ \ {h}]
    /\ UNCHANGED <<up, down>>

\* The heart of the promise: nobody holds a service that goes down.
TakeDown(a) ==
    /\ a \in up
    /\ holders[a] = {}
    /\ up' = up \ {a}
    /\ down' = down \cup {a}
    /\ UNCHANGED holders

\* Losing the last holder and going down may be one step.
DropLast(a, h) ==
    /\ a \in up
    /\ holders[a] = {h}
    /\ holders' = [holders EXCEPT ![a] = {}]
    /\ up' = up \ {a}
    /\ down' = down \cup {a}

AbsNext ==
    \E a \in Addr :
        \/ Announce(a)
        \/ TakeDown(a)
        \/ \E h \in Handle : Take(a, h) \/ Drop(a, h) \/ DropLast(a, h)

AbsSpec == AbsInit /\ [][AbsNext]_absVars
=============================================================================
