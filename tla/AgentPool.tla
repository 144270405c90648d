----------------------------- MODULE AgentPool -----------------------------
(***************************************************************************)
(* The agents of many roles: agent_load, the pool of prepared agents and   *)
(* agent_exit of server/game/lualib/agent_helper.lua.                      *)
(*                                                                         *)
(* Every command of agent_manager runs in a coroutine of its own; it yields *)
(* while a service is created and while an agent loads, and the others run  *)
(* meanwhile on the same tables.  A coroutine forked or woken by a step     *)
(* runs before the next message, hence in that step.                        *)
(***************************************************************************)
EXTENDS Integers, Sequences, FiniteSets

CONSTANTS
    Rid,        \* roles
    Agent,      \* the addresses of the agent services, each used once
    Proc,       \* coroutines of agent_manager that need an agent
    NoRid, NoAgent,
    presize     \* the prepared agents wanted

ASSUME PoolAssumption ==
    /\ presize \in Nat \ {0}
    /\ NoRid \notin Rid /\ NoAgent \notin Agent

VARIABLES
    roles,      \* the agent of a role, or NoAgent
    prepool,    \* prepared agents; the last one is taken first
    in_prepare, \* services the running thread_prepareagent has still to create
    assigning,  \* roles whose agent is being loaded
    proc,       \* what each coroutine is doing, for which role, with which agent
    service,    \* the life of each agent service
    owner       \* ROLE.rid of each agent: the role it was told to load

vars == <<roles, prepool, in_prepare, assigning, proc, service, owner>>

ProcState == {"idle", "creating", "loading", "waiting"}
ServiceState == {"none", "prepared", "taken", "loaded", "failed", "gone"}

PutProc(p, at, r, a) == proc' = [proc EXCEPT ![p] = [at |-> at, rid |-> r, agent |-> a]]
Idle == [at |-> "idle", rid |-> NoRid, agent |-> NoAgent]

Init ==
    /\ roles = [r \in Rid |-> NoAgent]
    /\ prepool = <<>>
    /\ in_prepare = 0
    /\ assigning = {}
    /\ proc = [p \in Proc |-> Idle]
    /\ service = [a \in Agent |-> "none"]
    /\ owner = [a \in Agent |-> NoRid]

-----------------------------------------------------------------------------
(* thread_prepareagent *)

\* Mutant of Prepare: a second thread may start while the first one runs.
PrepareAgain(pool) ==
    in_prepare' = in_prepare + (IF Len(pool) < presize THEN presize - Len(pool) ELSE 0)

\* new_agent forks the thread unless it runs; how many services it creates is
\* fixed by the size of the pool when it starts.
Prepare(pool) ==
    in_prepare' = IF in_prepare = 0 /\ Len(pool) < presize
                  THEN presize - Len(pool)
                  ELSE in_prepare

\* skynet.newservice returns the next agent to the thread.
Prepared(a) ==
    /\ in_prepare > 0 /\ service[a] = "none"
    /\ prepool' = Append(prepool, a)
    /\ service' = [service EXCEPT ![a] = "prepared"]
    /\ in_prepare' = in_prepare - 1
    /\ UNCHANGED <<roles, assigning, proc, owner>>

\* skynet.newservice throws and ends the thread.
PrepareFails ==
    /\ in_prepare > 0
    /\ in_prepare' = 0
    /\ UNCHANGED <<roles, prepool, assigning, proc, service, owner>>

-----------------------------------------------------------------------------
(* agent_load(rid) by a coroutine p; one that finds roles[rid] changes nothing. *)

\* Another coroutine loads the role: sleep until it is done.
Wait(p, r) ==
    /\ proc[p].at = "idle" /\ roles[r] = NoAgent
    /\ r \in assigning
    /\ PutProc(p, "waiting", r, NoAgent)
    /\ UNCHANGED <<roles, prepool, in_prepare, assigning, service, owner>>

\* Mutant of LoadPrepared: the agent stays in the pool.
LoadPreparedKeeps(p, r) ==
    /\ proc[p].at = "idle" /\ roles[r] = NoAgent
    /\ r \notin assigning /\ prepool # <<>>
    /\ LET a == prepool[Len(prepool)] IN
       /\ service' = [service EXCEPT ![a] = "taken"]
       /\ owner' = [owner EXCEPT ![a] = r]
       /\ PutProc(p, "loading", r, a)
    /\ assigning' = assigning \cup {r}
    /\ Prepare(prepool)
    /\ UNCHANGED <<roles, prepool>>

\* new_agent takes the last prepared agent and calls its load, ...
LoadPrepared(p, r) ==
    /\ proc[p].at = "idle" /\ roles[r] = NoAgent
    /\ r \notin assigning /\ prepool # <<>>
    /\ LET a == prepool[Len(prepool)]
           rest == SubSeq(prepool, 1, Len(prepool) - 1) IN
       /\ prepool' = rest
       /\ service' = [service EXCEPT ![a] = "taken"]
       /\ owner' = [owner EXCEPT ![a] = r]
       /\ PutProc(p, "loading", r, a)
       /\ Prepare(rest)
    /\ assigning' = assigning \cup {r}
    /\ UNCHANGED roles

\* ... or has to create one, ...
LoadCreate(p, r) ==
    /\ proc[p].at = "idle" /\ roles[r] = NoAgent
    /\ r \notin assigning /\ prepool = <<>>
    /\ PutProc(p, "creating", r, NoAgent)
    /\ assigning' = assigning \cup {r}
    /\ UNCHANGED <<roles, prepool, in_prepare, service, owner>>

\* ... and calls its load when skynet.newservice returns.
Created(p, a) ==
    /\ proc[p].at = "creating" /\ service[a] = "none"
    /\ service' = [service EXCEPT ![a] = "taken"]
    /\ owner' = [owner EXCEPT ![a] = proc[p].rid]
    /\ PutProc(p, "loading", proc[p].rid, a)
    /\ Prepare(prepool)
    /\ UNCHANGED <<roles, prepool, assigning>>

\* Mutant of Released: only the coroutine itself goes on.
ReleasedAlone(p, r) == proc' = [proc EXCEPT ![p] = Idle]

\* The coroutines that wait for r end, with its agent or with an error.
Released(p, r) ==
    proc' = [w \in Proc |->
               IF w = p \/ (proc[w].at = "waiting" /\ proc[w].rid = r) THEN Idle ELSE proc[w]]

\* Mutant of LoadFails: the table is left as the load found it.
LoadFailsListed(p) ==
    /\ proc[p].at \in {"creating", "loading"}
    /\ service' = IF proc[p].agent = NoAgent THEN service
                  ELSE [service EXCEPT ![proc[p].agent] = "failed"]
    /\ Released(p, proc[p].rid)
    /\ UNCHANGED <<roles, prepool, in_prepare, assigning, owner>>

\* The load or the creation throws: the agent, if there is one, is stopped.
LoadFails(p) ==
    /\ proc[p].at \in {"creating", "loading"}
    /\ service' = IF proc[p].agent = NoAgent THEN service
                  ELSE [service EXCEPT ![proc[p].agent] = "failed"]
    /\ assigning' = assigning \ {proc[p].rid}
    /\ Released(p, proc[p].rid)
    /\ UNCHANGED <<roles, prepool, in_prepare, owner>>

\* The load returns: the role has its agent before a waiter looks.
LoadDone(p) ==
    /\ proc[p].at = "loading"
    /\ roles' = [roles EXCEPT ![proc[p].rid] = proc[p].agent]
    /\ service' = [service EXCEPT ![proc[p].agent] = "loaded"]
    /\ assigning' = assigning \ {proc[p].rid}
    /\ Released(p, proc[p].rid)
    /\ UNCHANGED <<prepool, in_prepare, owner>>

-----------------------------------------------------------------------------
(* The end of an agent. *)

\* The pool after the search for an agent in it.
Without(pool, a) ==
    IF \E i \in 1..Len(pool) : pool[i] = a
    THEN LET i == CHOOSE j \in 1..Len(pool) : pool[j] = a
         IN  SubSeq(pool, 1, i - 1) \o SubSeq(pool, i + 1, Len(pool))
    ELSE pool

\* agent_exit(fd, rid, addr), called by an agent that closes with the role it
\* was loaded for: the role's entry goes, whichever agent is in it.
agent_exit(a) ==
    /\ service[a] \in {"loaded", "failed"}
    /\ service' = [service EXCEPT ![a] = "gone"]
    /\ roles' = [roles EXCEPT ![owner[a]] = NoAgent]
    /\ prepool' = Without(prepool, a)
    /\ UNCHANGED <<in_prepare, assigning, proc, owner>>

\* An agent closes unheard.  With the name that agent.lua calls today every
\* exit is of this kind; what is shown below holds for either kind.
ExitUnheard(a) ==
    /\ service[a] \in {"loaded", "failed"}
    /\ service' = [service EXCEPT ![a] = "gone"]
    /\ UNCHANGED <<roles, prepool, in_prepare, assigning, proc, owner>>

Next ==
    \/ \E a \in Agent : Prepared(a) \/ agent_exit(a) \/ ExitUnheard(a)
    \/ PrepareFails
    \/ \E p \in Proc, r \in Rid : Wait(p, r) \/ LoadPrepared(p, r) \/ LoadCreate(p, r)
    \/ \E p \in Proc, a \in Agent : Created(p, a)
    \/ \E p \in Proc : LoadFails(p) \/ LoadDone(p)

Spec == Init /\ [][Next]_vars

\* skynet.newservice and the load of an agent return or throw.
Loads(p) == LoadFails(p) \/ LoadDone(p) \/ \E a \in Agent : Created(p, a)

FairSpec == Spec /\ \A p \in Proc : WF_vars(Loads(p))

-----------------------------------------------------------------------------
(* Properties. *)

TypeOK ==
    /\ roles \in [Rid -> Agent \cup {NoAgent}]
    /\ prepool \in Seq(Agent)
    /\ in_prepare \in Nat
    /\ assigning \in SUBSET Rid
    /\ proc \in [Proc -> [at : ProcState, rid : Rid \cup {NoRid}, agent : Agent \cup {NoAgent}]]
    /\ service \in [Agent -> ServiceState]
    /\ owner \in [Agent -> Rid \cup {NoRid}]

Loader(p, r) == proc[p].at \in {"creating", "loading"} /\ proc[p].rid = r

\* An agent never serves two roles, is never handed to two loads, and is not in
\* the pool while a role or a load has it, whatever runs between the steps of
\* agent_load and of thread_prepareagent.
AgentHasOnePlace ==
    /\ \A r, s \in Rid : roles[r] = roles[s] /\ roles[r] # NoAgent => r = s
    /\ \A p, o \in Proc : proc[p].agent = proc[o].agent /\ proc[p].agent # NoAgent => p = o
    /\ \A i, j \in 1..Len(prepool) : prepool[i] = prepool[j] => i = j
    /\ \A r \in Rid, p \in Proc : roles[r] # NoAgent => proc[p].agent # roles[r]
    /\ \A i \in 1..Len(prepool) :
          (\A r \in Rid : roles[r] # prepool[i]) /\ (\A p \in Proc : proc[p].agent # prepool[i])

\* The pool, with what the running thread will still add, never exceeds presize.
PoolBounded == Len(prepool) + in_prepare <= presize

\* A role is loaded by one coroutine at a time, and by none once it has an
\* agent; assigning lists exactly the roles being loaded, so every coroutine
\* that waits has one that will wake it.
OneLoader ==
    /\ \A p, o \in Proc, r \in Rid : Loader(p, r) /\ Loader(o, r) => p = o
    /\ \A r \in Rid : r \in assigning <=> \E p \in Proc : Loader(p, r)
    /\ \A r \in assigning : roles[r] = NoAgent
    /\ \A p \in Proc : proc[p].at = "waiting" => proc[p].rid \in assigning

\* Every agent_load ends, the ones that waited for another's load too.
LoadEnds == \A p \in Proc : proc[p].at # "idle" ~> proc[p].at = "idle"

-----------------------------------------------------------------------------
(* The inductive invariant behind the theorems of AgentPoolProofs. *)

\* Where an agent is follows from its life.
PlaceAndLife ==
    /\ \A r \in Rid : roles[r] # NoAgent =>
          service[roles[r]] \in {"loaded", "gone"} /\ owner[roles[r]] = r
    /\ \A p \in Proc :
          /\ proc[p].at = "loading" <=> proc[p].agent # NoAgent
          /\ proc[p].at = "loading" =>
                service[proc[p].agent] = "taken" /\ owner[proc[p].agent] = proc[p].rid
          /\ proc[p].at = "idle" <=> proc[p].rid = NoRid
    /\ \A i \in 1..Len(prepool) : service[prepool[i]] = "prepared"
    /\ \A a \in Agent : service[a] \in {"loaded", "failed"} => owner[a] \in Rid

IInv ==
    /\ TypeOK
    /\ PlaceAndLife
    /\ AgentHasOnePlace
    /\ PoolBounded
    /\ OneLoader
=============================================================================
