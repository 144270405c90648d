-------------------------- MODULE AgentPoolProofs --------------------------
(***************************************************************************)
(* Theorems about AgentPool, for any number of roles, agents and           *)
(* coroutines and any pool size: an agent is in one place at a time, a     *)
(* role has one loader, and the pool does not outgrow presize.             *)
(***************************************************************************)
EXTENDS AgentPool, TLAPS

\* A sequence without its last element.
LEMMA Front ==
    ASSUME NEW S, NEW s \in Seq(S), NEW n \in Nat, n = Len(s), n > 0
    PROVE  /\ SubSeq(s, 1, n - 1) \in Seq(S)
           /\ Len(SubSeq(s, 1, n - 1)) = n - 1
           /\ \A i \in 1..(n - 1) : SubSeq(s, 1, n - 1)[i] = s[i]
  OBVIOUS

\* skynet.newservice gives the pool an agent that was nowhere.
LEMMA PreparedStep ==
    ASSUME IInv, NEW a \in Agent, Prepared(a)
    PROVE  IInv'
<1>0. /\ Len(prepool') = Len(prepool) + 1 /\ Len(prepool) \in Nat
      /\ \A i \in 1..Len(prepool) : prepool'[i] = prepool[i]
      /\ prepool'[Len(prepool')] = a /\ prepool' \in Seq(Agent)
  BY DEF IInv, TypeOK, Prepared
<1>1. TypeOK'
  BY <1>0, PoolAssumption DEF IInv, TypeOK, ProcState, ServiceState, Prepared
<1>2. PlaceAndLife'
  BY <1>0, <1>1, PoolAssumption
     DEF IInv, TypeOK, PlaceAndLife, AgentHasOnePlace, ProcState, Prepared
<1>3. AgentHasOnePlace'
  BY <1>0, <1>1, PoolAssumption DEF IInv, TypeOK, PlaceAndLife, AgentHasOnePlace, Prepared
<1>4. PoolBounded'
  BY <1>0, PoolAssumption DEF IInv, TypeOK, PoolBounded, Prepared
<1>5. OneLoader'
  BY <1>0, <1>1, PoolAssumption DEF IInv, TypeOK, PlaceAndLife, OneLoader, Loader, Prepared
<1> QED
  BY <1>1, <1>2, <1>3, <1>4, <1>5 DEF IInv

\* The thread ends early.
LEMMA PrepareFailsStep ==
    ASSUME IInv, PrepareFails
    PROVE  IInv'
<1>1. TypeOK'
  BY PoolAssumption DEF IInv, TypeOK, ProcState, ServiceState, PrepareFails
<1>2. PlaceAndLife'
  BY <1>1, PoolAssumption
     DEF IInv, TypeOK, PlaceAndLife, AgentHasOnePlace, ProcState, PrepareFails
<1>3. AgentHasOnePlace'
  BY <1>1, PoolAssumption DEF IInv, TypeOK, PlaceAndLife, AgentHasOnePlace, PrepareFails
<1>4. PoolBounded'
  BY PoolAssumption DEF IInv, TypeOK, PoolBounded, PrepareFails
<1>5. OneLoader'
  BY <1>1, PoolAssumption DEF IInv, TypeOK, PlaceAndLife, OneLoader, Loader, PrepareFails
<1> QED
  BY <1>1, <1>2, <1>3, <1>4, <1>5 DEF IInv

\* A waiter found its role in assigning.
LEMMA WaitStep ==
    ASSUME IInv, NEW p \in Proc, NEW r \in Rid, Wait(p, r)
    PROVE  IInv'
<1>1. TypeOK'
  BY PoolAssumption DEF IInv, TypeOK, ProcState, ServiceState, Wait, PutProc
<1>2. PlaceAndLife'
  BY <1>1, PoolAssumption
     DEF IInv, TypeOK, PlaceAndLife, AgentHasOnePlace, ProcState, Wait, PutProc
<1>3. AgentHasOnePlace'
  BY <1>1, PoolAssumption DEF IInv, TypeOK, PlaceAndLife, AgentHasOnePlace, Wait, PutProc
<1>4. PoolBounded'
  BY PoolAssumption DEF IInv, TypeOK, PoolBounded, Wait, PutProc
<1>5. OneLoader'
  <2>1. \A q \in Proc, s \in Rid : Loader(q, s)' <=> Loader(q, s)
    BY <1>1, PoolAssumption DEF IInv, TypeOK, PlaceAndLife, Loader, Wait, PutProc
  <2>6. \A q, o \in Proc, s \in Rid : Loader(q, s)' /\ Loader(o, s)' => q = o
    BY <2>1 DEF IInv, OneLoader, Wait, PutProc
  <2>7. \A s \in Rid : s \in assigning' <=> \E q \in Proc : Loader(q, s)'
    BY <2>1 DEF IInv, OneLoader, Wait, PutProc
  <2>8. \A s \in assigning' : roles'[s] = NoAgent
    BY <1>1, PoolAssumption DEF IInv, TypeOK, OneLoader, Wait, PutProc
  <2>9. \A w \in Proc : proc'[w].at = "waiting" => proc'[w].rid \in assigning'
    BY <1>1, PoolAssumption DEF IInv, TypeOK, OneLoader, Wait, PutProc
  <2> QED
    BY <2>6, <2>7, <2>8, <2>9 DEF OneLoader
<1> QED
  BY <1>1, <1>2, <1>3, <1>4, <1>5 DEF IInv

\* The last agent of the pool moves to the load.
LEMMA LoadPreparedStep ==
    ASSUME IInv, NEW p \in Proc, NEW r \in Rid, LoadPrepared(p, r)
    PROVE  IInv'
<1> DEFINE n == Len(prepool)
           b == prepool[n]
<1>a. /\ n = Len(prepool) /\ b = prepool[n] /\ n \in Nat /\ n > 0
      /\ prepool \in Seq(Agent) /\ b \in Agent
  BY DEF IInv, TypeOK, LoadPrepared
<1>b. /\ prepool' = SubSeq(prepool, 1, n - 1)
      /\ service' = [service EXCEPT ![b] = "taken"] /\ owner' = [owner EXCEPT ![b] = r]
      /\ proc' = [proc EXCEPT ![p] = [at |-> "loading", rid |-> r, agent |-> b]]
      /\ in_prepare' = IF in_prepare = 0 /\ Len(prepool') < presize
                        THEN presize - Len(prepool') ELSE in_prepare
      /\ assigning' = assigning \cup {r} /\ roles' = roles
      /\ proc[p].at = "idle" /\ roles[r] = NoAgent /\ r \notin assigning
  BY DEF LoadPrepared, PutProc, Prepare
<1>0. /\ Len(prepool') = n - 1
      /\ \A i \in 1..Len(prepool') : prepool'[i] = prepool[i]
      /\ prepool' \in Seq(Agent)
  BY <1>a, <1>b, Front
<1>c. /\ service[b] = "prepared" /\ (\A s \in Rid : roles[s] # b)
      /\ (\A q \in Proc : proc[q].agent # b)
      /\ \A i \in 1..Len(prepool') : prepool'[i] # b
  BY <1>a, <1>0 DEF IInv, PlaceAndLife, AgentHasOnePlace
<1> HIDE DEF n, b
<1>1. TypeOK'
  BY <1>a, <1>b, <1>0, <1>c, PoolAssumption DEF IInv, TypeOK, ProcState, ServiceState
<1>2. PlaceAndLife'
  BY <1>a, <1>b, <1>0, <1>c, <1>1, PoolAssumption
     DEF IInv, TypeOK, PlaceAndLife, AgentHasOnePlace, ProcState
<1>3. AgentHasOnePlace'
  <2>1. \A i \in 1..Len(prepool') : i \in 1..Len(prepool)
    BY <1>a, <1>0
  <2>2. \A q \in Proc : proc'[q].agent = IF q = p THEN b ELSE proc[q].agent
    BY <1>b DEF IInv, TypeOK
  <2>3. \A q, o \in Proc : proc'[q].agent = proc'[o].agent /\ proc'[q].agent # NoAgent => q = o
    BY <2>2, <1>c DEF IInv, AgentHasOnePlace
  <2>4. \A i, j \in 1..Len(prepool') : prepool'[i] = prepool'[j] => i = j
    BY <2>1, <1>0 DEF IInv, AgentHasOnePlace
  <2>5. \A s \in Rid, q \in Proc : roles'[s] # NoAgent => proc'[q].agent # roles'[s]
    BY <2>2, <1>b, <1>c DEF IInv, AgentHasOnePlace
  <2>6. \A i \in 1..Len(prepool') :
           (\A s \in Rid : roles'[s] # prepool'[i]) /\ (\A q \in Proc : proc'[q].agent # prepool'[i])
    BY <2>1, <2>2, <1>0, <1>b, <1>c DEF IInv, AgentHasOnePlace
  <2>7. \A r1, s \in Rid : roles'[r1] = roles'[s] /\ roles'[r1] # NoAgent => r1 = s
    BY <1>b DEF IInv, AgentHasOnePlace
  <2> QED
    BY <2>3, <2>4, <2>5, <2>6, <2>7 DEF AgentHasOnePlace
<1>4. PoolBounded'
  <2>1. n + in_prepare <= presize /\ in_prepare \in Nat /\ presize \in Nat
    BY <1>a, PoolAssumption DEF IInv, TypeOK, PoolBounded
  <2>2. in_prepare' = IF in_prepare = 0 /\ n - 1 < presize THEN presize - (n - 1) ELSE in_prepare
    BY <1>b, <1>0
  <2>3. (n - 1) + in_prepare' <= presize
    BY <2>1, <2>2, <1>a
  <2> QED
    BY <2>3, <1>0 DEF PoolBounded
<1>5. OneLoader'
  <2>1. \A q \in Proc, s \in Rid : Loader(q, s)' <=> Loader(q, s) \/ (q = p /\ s = r)
    BY <1>a, <1>b, PoolAssumption DEF IInv, TypeOK, PlaceAndLife, Loader
  <2>6. \A q, o \in Proc, s \in Rid : Loader(q, s)' /\ Loader(o, s)' => q = o
    BY <1>b, <2>1 DEF IInv, OneLoader
  <2>7. \A s \in Rid : s \in assigning' <=> \E q \in Proc : Loader(q, s)'
    BY <1>b, <2>1 DEF IInv, OneLoader
  <2>8. \A s \in assigning' : roles'[s] = NoAgent
    BY <1>a, <1>b, <1>0, <1>c, <1>1, PoolAssumption DEF IInv, TypeOK, OneLoader
  <2>9. \A w \in Proc : proc'[w].at = "waiting" => proc'[w].rid \in assigning'
    BY <1>a, <1>b, PoolAssumption DEF IInv, TypeOK, OneLoader
  <2> QED
    BY <2>6, <2>7, <2>8, <2>9 DEF OneLoader
<1> QED
  BY <1>1, <1>2, <1>3, <1>4, <1>5 DEF IInv

\* The load has no agent yet.
LEMMA LoadCreateStep ==
    ASSUME IInv, NEW p \in Proc, NEW r \in Rid, LoadCreate(p, r)
    PROVE  IInv'
<1>1. TypeOK'
  BY PoolAssumption DEF IInv, TypeOK, ProcState, ServiceState, LoadCreate, PutProc
<1>2. PlaceAndLife'
  BY <1>1, PoolAssumption
     DEF IInv, TypeOK, PlaceAndLife, AgentHasOnePlace, ProcState, LoadCreate, PutProc
<1>3. AgentHasOnePlace'
  BY <1>1, PoolAssumption
     DEF IInv, TypeOK, PlaceAndLife, AgentHasOnePlace, LoadCreate, PutProc
<1>4. PoolBounded'
  BY PoolAssumption DEF IInv, TypeOK, PoolBounded, LoadCreate, PutProc
<1>5. OneLoader'
  <2>1. \A q \in Proc, s \in Rid : Loader(q, s)' <=> Loader(q, s) \/ (q = p /\ s = r)
    BY <1>1, PoolAssumption DEF IInv, TypeOK, PlaceAndLife, Loader, LoadCreate, PutProc
  <2>6. \A q, o \in Proc, s \in Rid : Loader(q, s)' /\ Loader(o, s)' => q = o
    BY <2>1 DEF IInv, OneLoader, LoadCreate, PutProc
  <2>7. \A s \in Rid : s \in assigning' <=> \E q \in Proc : Loader(q, s)'
    BY <2>1 DEF IInv, OneLoader, LoadCreate, PutProc
  <2>8. \A s \in assigning' : roles'[s] = NoAgent
    BY <1>1, PoolAssumption DEF IInv, TypeOK, OneLoader, LoadCreate, PutProc
  <2>9. \A w \in Proc : proc'[w].at = "waiting" => proc'[w].rid \in assigning'
    BY <1>1, PoolAssumption DEF IInv, TypeOK, OneLoader, LoadCreate, PutProc
  <2> QED
    BY <2>6, <2>7, <2>8, <2>9 DEF OneLoader
<1> QED
  BY <1>1, <1>2, <1>3, <1>4, <1>5 DEF IInv

\* A new agent goes to the load, past the pool.
LEMMA CreatedStep ==
    ASSUME IInv, NEW p \in Proc, NEW a \in Agent, Created(p, a)
    PROVE  IInv'
<1>1. TypeOK'
  BY PoolAssumption DEF IInv, TypeOK, ProcState, ServiceState, Created, PutProc, Prepare
<1>2. PlaceAndLife'
  BY <1>1, PoolAssumption
     DEF IInv, TypeOK, PlaceAndLife, AgentHasOnePlace, ProcState, Created, PutProc,
         Prepare
<1>3. AgentHasOnePlace'
  BY <1>1, PoolAssumption
     DEF IInv, TypeOK, PlaceAndLife, AgentHasOnePlace, Created, PutProc, Prepare
<1>4. PoolBounded'
  BY PoolAssumption DEF IInv, TypeOK, PoolBounded, Created, PutProc, Prepare
<1>5. OneLoader'
  <2>1. \A q \in Proc, s \in Rid : Loader(q, s)' <=> Loader(q, s)
    BY <1>1, PoolAssumption
       DEF IInv, TypeOK, PlaceAndLife, Loader, Created, PutProc, Prepare
  <2>6. \A q, o \in Proc, s \in Rid : Loader(q, s)' /\ Loader(o, s)' => q = o
    BY <2>1 DEF IInv, OneLoader, Created, PutProc, Prepare
  <2>7. \A s \in Rid : s \in assigning' <=> \E q \in Proc : Loader(q, s)'
    BY <2>1 DEF IInv, OneLoader, Created, PutProc, Prepare
  <2>8. \A s \in assigning' : roles'[s] = NoAgent
    BY <1>1, PoolAssumption DEF IInv, TypeOK, OneLoader, Created, PutProc, Prepare
  <2>9. \A w \in Proc : proc'[w].at = "waiting" => proc'[w].rid \in assigning'
    BY <1>1, PoolAssumption DEF IInv, TypeOK, OneLoader, Created, PutProc, Prepare
  <2> QED
    BY <2>6, <2>7, <2>8, <2>9 DEF OneLoader
<1> QED
  BY <1>1, <1>2, <1>3, <1>4, <1>5 DEF IInv

\* The agent of the load, if any, is in no place any more.
LEMMA LoadFailsStep ==
    ASSUME IInv, NEW p \in Proc, LoadFails(p)
    PROVE  IInv'
<1>1. TypeOK'
  BY PoolAssumption DEF IInv, TypeOK, ProcState, ServiceState, LoadFails, Released, Idle
<1>2. PlaceAndLife'
  BY <1>1, PoolAssumption
     DEF IInv, TypeOK, PlaceAndLife, AgentHasOnePlace, ProcState, LoadFails, Released,
         Idle
<1>3. AgentHasOnePlace'
  BY <1>1, PoolAssumption
     DEF IInv, TypeOK, PlaceAndLife, AgentHasOnePlace, LoadFails, Released, Idle
<1>4. PoolBounded'
  BY PoolAssumption DEF IInv, TypeOK, PoolBounded, LoadFails, Released, Idle
<1>5. OneLoader'
  <2>1. \A q \in Proc, s \in Rid : Loader(q, s)' <=> Loader(q, s) /\ q # p
    BY <1>1, PoolAssumption
       DEF IInv, TypeOK, PlaceAndLife, Loader, LoadFails, Released, Idle
  <2>5. \A w \in Proc : proc'[w].at = "waiting" =>
            proc[w].at = "waiting" /\ proc'[w].rid = proc[w].rid /\ proc[w].rid # proc[p].rid
    BY <1>1 DEF IInv, TypeOK, LoadFails, Released, Idle
  <2>6. \A q, o \in Proc, s \in Rid : Loader(q, s)' /\ Loader(o, s)' => q = o
    BY <2>1 DEF IInv, OneLoader, LoadFails, Released, Idle
  <2>7. \A s \in Rid : s \in assigning' <=> \E q \in Proc : Loader(q, s)'
    BY <2>1 DEF IInv, OneLoader, LoadFails, Released, Idle, TypeOK, PlaceAndLife, Loader
  <2>8. \A s \in assigning' : roles'[s] = NoAgent
    BY <1>1, PoolAssumption
       DEF IInv, TypeOK, OneLoader, LoadFails, Released, Idle, PlaceAndLife, Loader
  <2>9. \A w \in Proc : proc'[w].at = "waiting" => proc'[w].rid \in assigning'
    BY <2>5, <1>1, PoolAssumption
       DEF IInv, TypeOK, OneLoader, LoadFails, Released, Idle, PlaceAndLife, Loader
  <2> QED
    BY <2>6, <2>7, <2>8, <2>9 DEF OneLoader
<1> QED
  BY <1>1, <1>2, <1>3, <1>4, <1>5 DEF IInv

\* The agent moves from the load to the role, which had none.
LEMMA LoadDoneStep ==
    ASSUME IInv, NEW p \in Proc, LoadDone(p)
    PROVE  IInv'
<1>1. TypeOK'
  BY PoolAssumption DEF IInv, TypeOK, ProcState, ServiceState, LoadDone, Released, Idle
<1>2. PlaceAndLife'
  BY <1>1, PoolAssumption
     DEF IInv, TypeOK, PlaceAndLife, AgentHasOnePlace, ProcState, LoadDone, Released,
         Idle
<1>3. AgentHasOnePlace'
  BY <1>1, PoolAssumption
     DEF IInv, TypeOK, PlaceAndLife, AgentHasOnePlace, LoadDone, Released, Idle
<1>4. PoolBounded'
  BY PoolAssumption DEF IInv, TypeOK, PoolBounded, LoadDone, Released, Idle
<1>5. OneLoader'
  <2>1. \A q \in Proc, s \in Rid : Loader(q, s)' <=> Loader(q, s) /\ q # p
    BY <1>1, PoolAssumption DEF IInv, TypeOK, PlaceAndLife, Loader, LoadDone, Released, Idle
  <2>5. \A w \in Proc : proc'[w].at = "waiting" =>
            proc[w].at = "waiting" /\ proc'[w].rid = proc[w].rid /\ proc[w].rid # proc[p].rid
    BY <1>1 DEF IInv, TypeOK, LoadDone, Released, Idle
  <2>6. \A q, o \in Proc, s \in Rid : Loader(q, s)' /\ Loader(o, s)' => q = o
    BY <2>1 DEF IInv, OneLoader, LoadDone, Released, Idle
  <2>7. \A s \in Rid : s \in assigning' <=> \E q \in Proc : Loader(q, s)'
    BY <2>1 DEF IInv, OneLoader, LoadDone, Released, Idle, TypeOK, PlaceAndLife, Loader
  <2>8. \A s \in assigning' : roles'[s] = NoAgent
    BY <1>1, PoolAssumption
       DEF IInv, TypeOK, OneLoader, LoadDone, Released, Idle, PlaceAndLife, Loader
  <2>9. \A w \in Proc : proc'[w].at = "waiting" => proc'[w].rid \in assigning'
    BY <2>5, <1>1, PoolAssumption
       DEF IInv, TypeOK, OneLoader, LoadDone, Released, Idle, PlaceAndLife, Loader
  <2> QED
    BY <2>6, <2>7, <2>8, <2>9 DEF OneLoader
<1> QED
  BY <1>1, <1>2, <1>3, <1>4, <1>5 DEF IInv

\* The role of the agent loses its entry; the agent was not in the pool.
LEMMA AgentExitStep ==
    ASSUME IInv, NEW a \in Agent, agent_exit(a)
    PROVE  IInv'
<1>0. Without(prepool, a) = prepool
  BY DEF IInv, TypeOK, PlaceAndLife, agent_exit, Without
<1>1. TypeOK'
  BY <1>0, PoolAssumption DEF IInv, TypeOK, ProcState, ServiceState, agent_exit
<1>2. PlaceAndLife'
  BY <1>0, <1>1, PoolAssumption
     DEF IInv, TypeOK, PlaceAndLife, AgentHasOnePlace, ProcState, agent_exit
<1>3. AgentHasOnePlace'
  BY <1>0, <1>1, PoolAssumption DEF IInv, TypeOK, PlaceAndLife, AgentHasOnePlace, agent_exit
<1>4. PoolBounded'
  BY <1>0, PoolAssumption DEF IInv, TypeOK, PoolBounded, agent_exit
<1>5. OneLoader'
  BY <1>0, <1>1, PoolAssumption
     DEF IInv, TypeOK, PlaceAndLife, OneLoader, Loader, agent_exit
<1> QED
  BY <1>1, <1>2, <1>3, <1>4, <1>5 DEF IInv

\* Only the agent's life changes.
LEMMA ExitUnheardStep ==
    ASSUME IInv, NEW a \in Agent, ExitUnheard(a)
    PROVE  IInv'
<1>1. TypeOK'
  BY PoolAssumption DEF IInv, TypeOK, ProcState, ServiceState, ExitUnheard
<1>2. PlaceAndLife'
  BY <1>1, PoolAssumption
     DEF IInv, TypeOK, PlaceAndLife, AgentHasOnePlace, ProcState, ExitUnheard
<1>3. AgentHasOnePlace'
  BY <1>1, PoolAssumption DEF IInv, TypeOK, PlaceAndLife, AgentHasOnePlace, ExitUnheard
<1>4. PoolBounded'
  BY PoolAssumption DEF IInv, TypeOK, PoolBounded, ExitUnheard
<1>5. OneLoader'
  BY <1>1, PoolAssumption DEF IInv, TypeOK, PlaceAndLife, OneLoader, Loader, ExitUnheard
<1> QED
  BY <1>1, <1>2, <1>3, <1>4, <1>5 DEF IInv

\* IInv holds initially and is kept by every step.
THEOREM Invariance == Spec => []IInv
<1>1. Init => IInv
  BY PoolAssumption DEF Init, Idle, IInv, TypeOK, ProcState, ServiceState, PlaceAndLife,
     AgentHasOnePlace, PoolBounded, OneLoader, Loader
<1>2. IInv /\ [Next]_vars => IInv'
  <2> SUFFICES ASSUME IInv, [Next]_vars
               PROVE  IInv'
    OBVIOUS
  <2>1. CASE Next
    BY <2>1, PreparedStep, PrepareFailsStep, WaitStep, LoadPreparedStep, LoadCreateStep,
       CreatedStep, LoadFailsStep, LoadDoneStep, AgentExitStep, ExitUnheardStep DEF Next
  <2>2. CASE UNCHANGED vars
    BY <2>2
       DEF vars, IInv, TypeOK, PlaceAndLife, AgentHasOnePlace, PoolBounded, OneLoader,
           Loader
  <2> QED
    BY <2>1, <2>2
<1> QED
  BY <1>1, <1>2, PTL DEF Spec

\* No agent serves two roles or is handed out twice (new_agent, agent_load).
THEOREM OnePlace == Spec => []AgentHasOnePlace
<1>1. IInv => AgentHasOnePlace
  BY DEF IInv
<1> QED
  BY <1>1, Invariance, PTL

\* thread_prepareagent never fills the pool beyond presize.
THEOREM PoolStaysBounded == Spec => []PoolBounded
<1>1. IInv => PoolBounded
  BY DEF IInv
<1> QED
  BY <1>1, Invariance, PTL

\* agent_load loads a role once at a time, and whoever waits has a loader.
THEOREM LoadsOnce == Spec => []OneLoader
<1>1. IInv => OneLoader
  BY DEF IInv
<1> QED
  BY <1>1, Invariance, PTL
=============================================================================
