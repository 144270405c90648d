------------------------------- MODULE Refd -------------------------------
(***************************************************************************)
(* The reference counting service service/refd.lua, its two client         *)
(* libraries lualib/reference/{client,server}.lua and the stop protocol of *)
(* lualib/base.lua that it drives.                                         *)
(*                                                                         *)
(* A service announces itself with `init`; clients take references with a  *)
(* call and give them back with a send; when the count reaches zero a      *)
(* timer is armed, and when it fires with the count still zero the service *)
(* is told to stop.  A service that exits tells refd with `release`.       *)
(* Every handler of refd runs to its end before the next message, so one   *)
(* message is one action; the messages themselves are delayed freely.      *)
(***************************************************************************)
EXTENDS Integers, FiniteSets

CONSTANTS
    Addr,      \* service addresses, each used by one service
    Handle,    \* reference handles of the client library
    Delayed,   \* services that pass a delay to init
    Hung,      \* services whose on_close_service never returns
    NoAddr,    \* the address of a handle that has none
    MaxVer     \* bound: idle periods explored per service

ASSUME RefdAssumption ==
    /\ IsFiniteSet(Handle)
    /\ Delayed \subseteq Addr
    /\ Hung \subseteq Addr
    /\ MaxVer \in Nat
    /\ NoAddr \notin Addr

VARIABLES
    REFS,      \* addresses with an entry in refd
    ref,       \* obj.ref; -1 once the service was told to stop
    ver,       \* obj.ver
    waitlist,  \* obj.waitlist: handles whose ref call sleeps in refd
    timers,    \* release timers not fired yet
    quiet,     \* history: the timers since whose start no reference was granted
    stopCalls, \* stop_service messages under way to a service
    releases,  \* release messages under way to refd
    service,   \* the life of each service
    known,     \* addresses that clients have learned
    handle     \* the life of each client handle

vars == <<REFS, ref, ver, waitlist, timers, quiet,
          stopCalls, releases, service, known, handle>>

Timer == [addr : Addr, ver : Nat]
ServiceState == {"none", "loading", "loaded", "failed", "stopping", "hung", "gone"}
HandleState == {"free", "held", "unref", "waiting", "refused"}

\* The references refd has granted and not yet been told to drop.
Counted(a) == {h \in Handle : /\ handle[h].addr = a
                              /\ handle[h].state \in {"held", "unref"}}

SetHandle(h, state, a) ==
    handle' = [handle EXCEPT ![h] = [state |-> state, addr |-> a]]

-----------------------------------------------------------------------------
Init ==
    /\ REFS = {}
    /\ ref = [a \in Addr |-> 0]
    /\ ver = [a \in Addr |-> 0]
    /\ waitlist = [a \in Addr |-> {}]
    /\ timers = {}
    /\ quiet = {}
    /\ stopCalls = {}
    /\ releases = {}
    /\ service = [a \in Addr |-> "none"]
    /\ known = {}
    /\ handle = [h \in Handle |-> [state |-> "free", addr |-> NoAddr]]

\* Mutant of release: the count is not looked at again.
releaseAnyCount(a, v) ==
    IF a \in REFS /\ v = ver[a] /\ ref[a] # -1
    THEN /\ ref' = [ref EXCEPT ![a] = -1]
         /\ stopCalls' = stopCalls \cup {a}
    ELSE UNCHANGED <<ref, stopCalls>>

\* Mutant of release: the version is not compared.
releaseAnyVersion(a, v) ==
    IF a \in REFS /\ ref[a] = 0
    THEN /\ ref' = [ref EXCEPT ![a] = -1]
         /\ stopCalls' = stopCalls \cup {a}
    ELSE UNCHANGED <<ref, stopCalls>>

\* Mutant of release: compared with the version before the increment.
releaseOldVersion(a, v) ==
    IF a \in REFS /\ v = ver[a] - 1 /\ ref[a] = 0
    THEN /\ ref' = [ref EXCEPT ![a] = -1]
         /\ stopCalls' = stopCalls \cup {a}
    ELSE UNCHANGED <<ref, stopCalls>>

\* release(obj, addr, ver): the version filters the timers of earlier idle
\* periods, the count the references taken since.
release(a, v) ==
    IF a \in REFS /\ v = ver[a] /\ ref[a] = 0
    THEN /\ ref' = [ref EXCEPT ![a] = -1]
         /\ stopCalls' = stopCalls \cup {a}
    ELSE UNCHANGED <<ref, stopCalls>>

\* check(addr), forked by init and unref when the count is zero: a new
\* version, then a timer, or the release at once for a service without delay.
check(a) ==
    /\ ver' = [ver EXCEPT ![a] = @ + 1]
    /\ IF a \in Delayed
       THEN LET t == [addr |-> a, ver |-> ver[a] + 1] IN
            /\ timers' = timers \cup {t}
            /\ quiet' = quiet \cup {t}
            /\ ref' = [ref EXCEPT ![a] = 0]
            /\ UNCHANGED stopCalls
       ELSE /\ ref' = [ref EXCEPT ![a] = -1]
            /\ stopCalls' = stopCalls \cup {a}
            /\ UNCHANGED <<timers, quiet>>

-----------------------------------------------------------------------------
(* A service's own steps. *)

\* reference.server init: the service sends its address and refd makes the
\* entry.  No client has the address yet, so the message is never overtaken.
init(a) ==
    /\ service[a] = "none"
    /\ a \notin REFS
    /\ service' = [service EXCEPT ![a] = "loading"]
    /\ REFS' = REFS \cup {a}
    /\ IF a \in Delayed
       THEN check(a)
       ELSE UNCHANGED <<ref, ver, timers, quiet, stopCalls>>
    /\ UNCHANGED <<known, waitlist, releases, handle>>

\* The load of the service answers; clients may learn the address.
Loaded(a) ==
    /\ service[a] = "loading"
    /\ service' = [service EXCEPT ![a] = "loaded"]
    /\ known' = known \cup {a}
    /\ UNCHANGED <<REFS, ref, ver, waitlist, timers, quiet, stopCalls, releases, handle>>

\* The load fails and the loader sends stop_service itself; nobody ever
\* learns the address.
LoadFailed(a) ==
    /\ service[a] = "loading"
    /\ service' = [service EXCEPT ![a] = "failed"]
    /\ stopCalls' = stopCalls \cup {a}
    /\ UNCHANGED <<known, REFS, ref, ver, waitlist, timers, quiet, releases, handle>>

\* CMD.stop_service of the service: on_close_service is called first; when it
\* returns, or fails, the answer is "wait" and a timer of 5.5 seconds leads to
\* skynet.exit.  A second call finds the first one running.
stop_service(a) ==
    /\ a \in stopCalls
    /\ service[a] \in {"loading", "loaded", "failed", "hung"}
    /\ stopCalls' = stopCalls \ {a}
    /\ service' = [service EXCEPT ![a] = IF a \in Hung THEN "hung" ELSE "stopping"]
    /\ UNCHANGED <<known, REFS, ref, ver, waitlist, timers, quiet, releases, handle>>

\* Mutant of Exit: the release is not sent.
ExitSilently(a) ==
    /\ service[a] = "stopping"
    /\ service' = [service EXCEPT ![a] = "gone"]
    /\ stopCalls' = stopCalls \ {a}
    /\ UNCHANGED <<known, REFS, ref, ver, waitlist, timers, quiet, releases, handle>>

\* The stop timer: the service exits, and the __gc of its reference library
\* sends the release.
Exit(a) ==
    /\ service[a] = "stopping"
    /\ service' = [service EXCEPT ![a] = "gone"]
    /\ releases' = releases \cup {a}
    /\ stopCalls' = stopCalls \ {a}
    /\ UNCHANGED <<known, REFS, ref, ver, waitlist, timers, quiet, handle>>

-----------------------------------------------------------------------------
(* Messages to refd. *)

\* Mutant of Ref: the -1 mark is not looked at.
RefStopped(h, a, wait) ==
    /\ handle[h].state = "free"
    /\ a \in known /\ a \in REFS /\ ver[a] < MaxVer
    /\ ref' = [ref EXCEPT ![a] = @ + 1]
    /\ quiet' = {t \in quiet : t.addr # a}
    /\ SetHandle(h, "held", a)
    /\ UNCHANGED <<waitlist, known, REFS, ver, timers, stopCalls, releases, service>>

\* CMD.ref(addr, wait), with the client's handle filled by the answer.
Ref(h, a, wait) ==
    /\ handle[h].state = "free"
    /\ a \in known
    /\ \/ /\ a \in REFS /\ ref[a] # -1
          /\ ver[a] < MaxVer
          /\ ref' = [ref EXCEPT ![a] = @ + 1]
          /\ quiet' = {t \in quiet : t.addr # a}
          /\ SetHandle(h, "held", a)
          /\ UNCHANGED waitlist
       \/ /\ a \in REFS /\ ref[a] = -1 /\ wait
          /\ waitlist' = [waitlist EXCEPT ![a] = @ \cup {h}]
          /\ SetHandle(h, "waiting", a)
          /\ UNCHANGED <<ref, quiet>>
       \/ /\ a \in REFS => (ref[a] = -1 /\ ~wait)
          /\ SetHandle(h, "refused", NoAddr)
          /\ UNCHANGED <<ref, quiet, waitlist>>
    /\ UNCHANGED <<known, REFS, ver, timers, stopCalls, releases, service>>

\* A client that got no reference looks the address up again.
Retry(h) ==
    /\ handle[h].state = "refused"
    /\ SetHandle(h, "free", NoAddr)
    /\ UNCHANGED <<known, REFS, ref, ver, waitlist, timers, quiet, stopCalls, releases, service>>

\* The __close of a client handle: the address is forgotten, the unref sent.
CloseHandle(h) ==
    /\ handle[h].state = "held"
    /\ SetHandle(h, "unref", handle[h].addr)
    /\ UNCHANGED <<known, REFS, ref, ver, waitlist, timers, quiet, stopCalls, releases, service>>

\* Mutant of unref: the new count is stored only when it is zero.
unrefKeepsCount(h) ==
    LET a == handle[h].addr IN
    /\ handle[h].state = "unref"
    /\ SetHandle(h, "free", NoAddr)
    /\ IF a \in REFS /\ ref[a] = 1
       THEN check(a)
       ELSE UNCHANGED <<ref, ver, timers, quiet, stopCalls>>
    /\ UNCHANGED <<known, REFS, waitlist, releases, service>>

\* CMD.unref(addr).  An unknown address fails the assertion and changes nothing.
unref(h) ==
    LET a == handle[h].addr IN
    /\ handle[h].state = "unref"
    /\ SetHandle(h, "free", NoAddr)
    /\ IF a \in REFS /\ ref[a] = 1
       THEN check(a)
       ELSE /\ ref' = IF a \in REFS /\ ref[a] > 1
                      THEN [ref EXCEPT ![a] = @ - 1] ELSE ref
            /\ UNCHANGED <<ver, timers, quiet, stopCalls>>
    /\ UNCHANGED <<known, REFS, waitlist, releases, service>>

\* The timer armed by check fires; Timer.runAfter runs it once.
ReleaseTimer(t) ==
    /\ t \in timers
    /\ timers' = timers \ {t}
    /\ quiet' = quiet \ {t}
    /\ release(t.addr, t.ver)
    /\ UNCHANGED <<known, REFS, ver, waitlist, releases, service, handle>>

\* Mutant of Release: the entry goes but the waitlist is not woken.
ReleaseWakesNobody(a) ==
    /\ a \in releases
    /\ a \in REFS
    /\ releases' = releases \ {a}
    /\ REFS' = REFS \ {a}
    /\ waitlist' = [waitlist EXCEPT ![a] = {}]
    /\ UNCHANGED <<known, ref, ver, timers, quiet, stopCalls, service, handle>>

\* CMD.release(addr): the entry goes, and every sleeping ref call is woken to
\* answer "quited".
Release(a) ==
    /\ a \in releases
    /\ a \in REFS
    /\ releases' = releases \ {a}
    /\ REFS' = REFS \ {a}
    /\ waitlist' = [waitlist EXCEPT ![a] = {}]
    /\ handle' = [h \in Handle |->
                    IF h \in waitlist[a]
                    THEN [state |-> "refused", addr |-> NoAddr]
                    ELSE handle[h]]
    /\ UNCHANGED <<known, ref, ver, timers, quiet, stopCalls, service>>

-----------------------------------------------------------------------------
Next ==
    \/ \E a \in Addr :
          init(a) \/ Loaded(a) \/ LoadFailed(a)
          \/ stop_service(a) \/ Exit(a) \/ Release(a)
    \/ \E h \in Handle : Retry(h) \/ CloseHandle(h) \/ unref(h)
    \/ \E h \in Handle, a \in Addr, wait \in BOOLEAN : Ref(h, a, wait)
    \/ \E t \in timers : ReleaseTimer(t)

Spec == Init /\ [][Next]_vars

\* Messages are delivered and timers fire: skynet drops neither.  Nothing is
\* assumed of the clients.
Fairness ==
    /\ \A a \in Addr : WF_vars(stop_service(a)) /\ WF_vars(Exit(a)) /\ WF_vars(Release(a))
    /\ \A h \in Handle : WF_vars(unref(h))
    /\ \A a \in Addr, v \in 1..MaxVer : WF_vars(ReleaseTimer([addr |-> a, ver |-> v]))

FairSpec == Spec /\ Fairness

-----------------------------------------------------------------------------
(* Properties. *)

TypeOK ==
    /\ REFS \in SUBSET Addr
    /\ ref \in [Addr -> Int]
    /\ ver \in [Addr -> Nat]
    /\ waitlist \in [Addr -> SUBSET Handle]
    /\ timers \in SUBSET Timer /\ \A t \in timers : t.ver <= ver[t.addr]
    /\ quiet \in SUBSET timers
    /\ stopCalls \in SUBSET Addr
    /\ releases \in SUBSET Addr
    /\ service \in [Addr -> ServiceState]
    /\ known \in SUBSET Addr
    /\ handle \in [Handle -> [state : HandleState, addr : Addr \cup {NoAddr}]]

\* A client that holds a handle can use its address: the service neither
\* stopped nor is about to receive stop_service.  This is what the count, the
\* -1 mark and the version of refd.lua are there for.
HeldIsRunning ==
    \A h \in Handle :
        handle[h].state = "held" =>
            /\ handle[h].addr \in REFS /\ ref[handle[h].addr] # -1
            /\ service[handle[h].addr] = "loaded"
            /\ handle[h].addr \notin stopCalls

\* The count of a service that was not told to stop is the number of handles
\* granted and not yet returned, whatever order the messages took.
CountIsExact ==
    \A a \in REFS : ref[a] # -1 => ref[a] = Cardinality(Counted(a))

\* A sleeping ref call is on the waitlist of an entry whose service is on its
\* way out, so the release that wakes it is still to come, unless on_close_service
\* of that service keeps it for ever.
NoLostWaiter ==
    \A h \in Handle :
        handle[h].state = "waiting" =>
            LET a == handle[h].addr IN
            /\ a \in REFS /\ ref[a] = -1 /\ h \in waitlist[a]
            /\ \/ a \in stopCalls \/ service[a] = "stopping" \/ a \in releases
               \/ a \in Hung /\ service[a] = "hung"

\* A service with a delay is stopped only by a timer since whose start nobody
\* took a reference: never by the timer of an earlier idle period.
StopAfterQuiet ==
    [][\A a \in Delayed :
          ref'[a] = -1 /\ ref[a] # -1 => \E t \in quiet : t.addr = a /\ t \in timers \ timers']_vars

\* A ref call that sleeps on a service whose on_close_service returns is answered.
WaiterAnswered ==
    \A h \in Handle :
        (handle[h].state = "waiting" /\ handle[h].addr \notin Hung)
            ~> handle[h].state # "waiting"

\* A service with a delay does not stay unreferenced for ever: it is taken
\* again, or it stops.
IdleIsStopped ==
    \A a \in Delayed :
        (a \in REFS /\ ref[a] = 0) ~> (a \notin REFS \/ ref[a] # 0)

-----------------------------------------------------------------------------
(* The refinement. *)

\* A service is up until refd or its loader decides to stop it.
Up == {a \in REFS : /\ ref[a] # -1
                    /\ a \notin stopCalls
                    /\ service[a] \in {"loading", "loaded"}}

Abs == INSTANCE RefCounted WITH
    up <- Up,
    down <- {a \in Addr : service[a] # "none"} \ Up,
    holders <- [a \in Addr |-> Counted(a)]

\* Refd implements RefCounted: with the handles counted as holders, no
\* interleaving of its messages and timers takes down a service that is held.
ImplementsRefCounted == Abs!AbsSpec

-----------------------------------------------------------------------------
(* The inductive invariant behind the theorems of RefdProofs. *)

\* A handle that refers to a service refers to one that finished loading.
HandlesKnown ==
    \A h \in Handle :
        handle[h].state \in {"held", "unref", "waiting"} => handle[h].addr \in known

\* Only sleeping ref calls are on a waitlist, each on the one it asked for.
WaitlistSleeps ==
    \A a \in Addr : \A h \in waitlist[a] : handle[h].state = "waiting" /\ handle[h].addr = a

\* What the life of a service says of its entry.
LifeAndEntry ==
    \A a \in Addr :
        /\ service[a] = "none" => a \notin REFS /\ ref[a] = 0
        /\ a \in known => service[a] \notin {"none", "loading", "failed"}
        /\ a \in known /\ ref[a] # -1 => service[a] = "loaded" /\ a \notin stopCalls
        /\ a \in stopCalls /\ service[a] = "loading" => ref[a] = -1
        /\ a \in stopCalls => service[a] # "none"
        /\ a \in releases => service[a] = "gone"
        /\ service[a] \in {"loading", "loaded", "failed", "stopping", "hung"} => a \in REFS
        /\ a \in REFS /\ ref[a] = -1 =>
              \/ a \in stopCalls \/ service[a] = "stopping" \/ a \in releases
              \/ a \in Hung /\ service[a] = "hung"

\* The one timer of the current version is quiet while the count is zero.
TimersFiltered ==
    /\ \A a \in Addr : ref[a] >= -1
    /\ \A t \in timers : t.ver = ver[t.addr] /\ ref[t.addr] = 0 => t \in quiet

IInv ==
    /\ TypeOK
    /\ HandlesKnown
    /\ WaitlistSleeps
    /\ LifeAndEntry
    /\ CountIsExact
    /\ HeldIsRunning
    /\ NoLostWaiter
    /\ TimersFiltered
=============================================================================
