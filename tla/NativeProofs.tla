---------------------------- MODULE NativeProofs ----------------------------
(***************************************************************************)
(* Proofs about the modules that Native puts side by side, a part for      *)
(* each, for all values of their constants that the assumptions of Native  *)
(* allow.  Each part has the inductive invariant IInv of its module.       *)
(***************************************************************************)
EXTENDS Native, WellFoundedInduction, FiniteSetTheorems, TLAPS

-----------------------------------------------------------------------------
(* The cache of prototypes                                                 *)

(* Of a shared prototype's state and of a state that lost its race.          *)
LEMMA InitIInv == Init => IInv
<1> SUFFICES ASSUME Init PROVE IInv
  OBVIOUS
<1>1. \A s \in Service : fn[s] = [from |-> {}, env |-> "none"] /\ Used(s) = {}
  BY DEF Init, NoFunction, Used
<1>2. fn \in [Service -> [from : SUBSET State, env : {"none", "default"}]]
  BY DEF Init, NoFunction
<1>3. call \in [Service -> Request]
  BY DEF Init, Request
<1>4. TypeOK
  BY <1>2, <1>3 DEF Init, TypeOK, Labels
<1> QED BY <1>1, <1>4 DEF Init, IInv

LEMMA CallKeeps ==
  ASSUME IInv, NEW s \in Service, Call(s)
  PROVE  IInv'
  BY DEF IInv, TypeOK, Labels, Used, Call, Goto

LEMMA LookupKeeps ==
  ASSUME IInv, NEW s \in Service, Lookup(s)
  PROVE  IInv'
<1>1. TypeOK'
  BY DEF IInv, TypeOK, Labels, Lookup, Goto, Request
<1>2. /\ eL[s] = {} /\ proto[s] = {}
      /\ pc[s] = "lookup" /\ UNCHANGED <<life, cache, eL, held, fn, call>>
      /\ \A t \in Service : t # s => pc'[t] = pc[t] /\ proto'[t] = proto[t]
      /\ proto'[s] \in {{}, cache[call[s].file]}
      /\ pc'[s] \in Labels \ {"save"} /\ (pc'[s] # "clone" => proto'[s] = {})
      /\ call[s].file \in File
  BY DEF IInv, TypeOK, Labels, Lookup, Goto, Request
<1>3. \A t \in Service : \A e \in eL[t] \ proto'[t] : e \in eL[t] \ proto[t] /\ t # s
  BY <1>2
<1>4. \A t \in Service : Used(t)' = Used(t)
  BY <1>2 DEF Used
<1>5. \A t \in Service : \A e \in proto'[t] : life'[e] = "open"
  BY <1>2 DEF IInv
<1>6. ASSUME NEW r \in Service, NEW e \in eL'[r] \ proto'[r]
      PROVE  /\ \A f \in File : e \notin cache'[f]
             /\ \A t \in Service : e \notin Used(t)' /\ (t # r => e \notin proto'[t])
  <2>1. e \in eL[r] \ proto[r] /\ r # s
    BY <1>2, <1>3, <1>6
  <2> QED BY <1>2, <1>4, <2>1 DEF IInv
<1>7. \A t \in Service : pc'[t] # "clone" => proto'[t] = {}
  BY <1>2 DEF IInv
<1>8. \A t \in Service : pc'[t] \notin {"save", "clone"} => eL'[t] = {}
  BY <1>2 DEF IInv
<1>9. \A t \in Service : \A e \in Used(t)' \cup proto'[t] \cup eL'[t] : life'[e] = "open"
  BY <1>2, <1>4, <1>5 DEF IInv
<1>10. \A f \in File : \A e \in cache'[f] : life'[e] = "open"
  BY <1>2 DEF IInv
<1>11. \A r, t \in Service : r # t => eL'[r] \cap eL'[t] = {}
  BY <1>2 DEF IInv
<1> QED BY <1>1, <1>6, <1>7, <1>8, <1>9, <1>10, <1>11 DEF IInv

LEMMA DirectKeeps ==
  ASSUME IInv, NEW s \in Service, Direct(s)
  PROVE  IInv'
<1>a. /\ UNCHANGED <<life, cache, eL, proto, held, call>>
      /\ pc[s] = "direct"
      /\ pc' \in {[pc EXCEPT ![s] = "finish"], [pc EXCEPT ![s] = "sniff"]}
      /\ fn' \in {fn, [fn EXCEPT ![s] = Function({})]}
  BY DEF Direct, Goto
<1>b. fn' \in [Service -> [from : SUBSET State, env : {"none", "default"}]]
  BY <1>a DEF IInv, TypeOK, Function
<1>1. TypeOK'
  BY <1>a, <1>b DEF IInv, TypeOK, Labels, Request
<1>2. /\ \A t \in Service : fn'[t].from = fn[t].from \/ fn'[t].from = {}
      /\ UNCHANGED <<life, cache, eL, proto, held, call>>
      /\ \A t \in Service : t # s => pc'[t] = pc[t]
      /\ pc[s] = "direct" /\ pc'[s] \notin {"save", "clone"}
  BY <1>a DEF IInv, TypeOK, Labels, Function
<1>3. \A t \in Service : \A e \in Used(t)' : e \in Used(t)
  BY <1>2 DEF Used
<1>4. \A t \in Service : pc'[t] # "clone" => proto'[t] = {}
  BY <1>2 DEF IInv
<1>5. \A t \in Service : pc'[t] \notin {"save", "clone"} => eL'[t] = {}
  BY <1>2 DEF IInv
<1>6. \A f \in File : \A e \in cache'[f] : life'[e] = "open"
  BY <1>2 DEF IInv
<1>7. \A t \in Service : \A e \in Used(t)' \cup proto'[t] \cup eL'[t] : life'[e] = "open"
  BY <1>2, <1>3 DEF IInv
<1>8. \A r, t \in Service : r # t => eL'[r] \cap eL'[t] = {}
  BY <1>2 DEF IInv
<1>9. ASSUME NEW r \in Service, NEW e \in eL'[r] \ proto'[r]
      PROVE  /\ \A f \in File : e \notin cache'[f]
             /\ \A t \in Service : e \notin Used(t)' /\ (t # r => e \notin proto'[t])
  BY <1>2, <1>3, <1>9 DEF IInv
<1> QED BY <1>1, <1>4, <1>5, <1>6, <1>7, <1>8, <1>9 DEF IInv

LEMMA CompileKeeps ==
  ASSUME IInv, NEW s \in Service, Compile(s)
  PROVE  IInv'
<1>a. /\ UNCHANGED <<cache, proto, held, fn, call>>
      /\ pc' \in {[pc EXCEPT ![s] = "save"], [pc EXCEPT ![s] = "sniff"]}
      /\ \/ life' = life /\ eL' = eL
         \/ \E e \in State : /\ life' = [life EXCEPT ![e] = "open"]
                             /\ eL' = [eL EXCEPT ![s] = {e}]
  BY DEF Compile, Goto
<1>1. TypeOK'
  <2>1. pc' \in [Service -> Labels]
    BY <1>a DEF IInv, TypeOK, Labels
  <2>2. /\ life' \in [State -> {"unused", "open", "closed"}]
        /\ eL' \in [Service -> SUBSET State]
    <3>1. CASE life' = life /\ eL' = eL
      BY <3>1 DEF IInv, TypeOK
    <3>2. ASSUME NEW e \in State,
                 life' = [life EXCEPT ![e] = "open"], eL' = [eL EXCEPT ![s] = {e}]
          PROVE  /\ life' \in [State -> {"unused", "open", "closed"}]
                 /\ eL' \in [Service -> SUBSET State]
      <4>1. life \in [State -> {"unused", "open", "closed"}] /\ eL \in [Service -> SUBSET State]
        BY DEF IInv, TypeOK
      <4>2. [life EXCEPT ![e] = "open"] \in [State -> {"unused", "open", "closed"}]
        BY <4>1
      <4>3. [eL EXCEPT ![s] = {e}] \in [Service -> SUBSET State]
        BY <4>1
      <4> QED BY <3>2, <4>2, <4>3
    <3> QED BY <1>a, <3>1, <3>2
  <2> QED BY <1>a, <2>1, <2>2 DEF IInv, TypeOK
<1>2. pc[s] = "compile" /\ eL[s] = {} /\ proto[s] = {} /\ UNCHANGED <<cache, proto, held, fn, call>>
  BY DEF IInv, Compile
<1>3. CASE Compiles(s)
  <2>1. PICK e \in State : /\ life[e] = "unused"
                           /\ life' = [life EXCEPT ![e] = "open"]
                           /\ eL' = [eL EXCEPT ![s] = {e}]
                           /\ pc' = [pc EXCEPT ![s] = "save"]
    BY <1>3 DEF Compile, Goto
  <2>2. /\ \A d \in State : life[d] = "open" => life'[d] = "open" /\ d # e
        /\ life'[e] = "open" /\ eL'[s] = {e} /\ pc'[s] = "save"
        /\ \A t \in Service : t # s => eL'[t] = eL[t] /\ pc'[t] = pc[t]
    BY <2>1 DEF IInv, TypeOK
  <2>3. /\ \A f \in File : e \notin cache[f]
        /\ \A t \in Service : e \notin Used(t) \cup proto[t] \cup eL[t]
    BY <2>1 DEF IInv
  <2>4. \A t \in Service : Used(t)' = Used(t)
    BY <1>2 DEF Used
  <2>5. \A t \in Service : pc'[t] # "clone" => proto'[t] = {}
    BY <1>2, <2>2 DEF IInv
  <2>6. \A t \in Service : pc'[t] \notin {"save", "clone"} => eL'[t] = {}
    BY <2>2 DEF IInv
  <2>7. \A f \in File : \A d \in cache'[f] : life'[d] = "open"
    BY <1>2, <2>2 DEF IInv, TypeOK
  <2>8. \A t \in Service : \A d \in Used(t)' \cup proto'[t] \cup eL'[t] : life'[d] = "open"
    BY <1>2, <2>2, <2>4 DEF IInv, TypeOK, Used
  <2>9. \A r, t \in Service : r # t => eL'[r] \cap eL'[t] = {}
    BY <2>2, <2>3 DEF IInv
  <2>10. ASSUME NEW r \in Service, NEW d \in eL'[r] \ proto'[r]
         PROVE  /\ \A f \in File : d \notin cache'[f]
                /\ \A t \in Service : d \notin Used(t)' /\ (t # r => d \notin proto'[t])
    <3>1. CASE r = s
      BY <1>2, <2>2, <2>3, <2>4, <2>10, <3>1
    <3>2. CASE r # s
      <4>1. d \in eL[r] \ proto[r]
        BY <1>2, <2>2, <2>10, <3>2
      <4> QED BY <1>2, <2>4, <4>1 DEF IInv
    <3> QED BY <3>1, <3>2
  <2> QED BY <1>1, <2>5, <2>6, <2>7, <2>8, <2>9, <2>10 DEF IInv
<1>4. CASE ~Compiles(s)
  BY <1>1, <1>2, <1>4 DEF IInv, TypeOK, Used, Compile, Goto
<1> QED BY <1>3, <1>4

LEMMA SaveKeeps ==
  ASSUME IInv, NEW s \in Service, Save(s)
  PROVE  IInv'
<1>1. TypeOK'
  BY DEF IInv, TypeOK, Labels, Save, Goto, Request
<1>2. /\ UNCHANGED <<life, eL, held, fn, call>>
      /\ proto[s] = {} /\ call[s].file \in File
      /\ pc'[s] = "clone"
      /\ \A t \in Service : t # s => pc'[t] = pc[t] /\ proto'[t] = proto[t]
  BY DEF IInv, TypeOK, Labels, Save, Goto, Request
<1> DEFINE f == call[s].file
<1>3. CASE cache[f] = {}
  <2>1. /\ proto'[s] = eL[s] /\ cache'[f] = eL[s]
        /\ \A g \in File : g # f => cache'[g] = cache[g]
    BY <1>2, <1>3 DEF Save, IInv, TypeOK
  <2>2. ASSUME NEW t \in Service, NEW e \in eL[t] \ proto'[t]
        PROVE  t # s /\ e \in eL[t] \ proto[t] /\ e \notin eL[s]
    BY <1>2, <2>1, <2>2 DEF IInv
  <2> QED BY <1>1, <1>2, <2>1, <2>2 DEF IInv, Used
<1>4. CASE cache[f] # {}
  <2>1. proto'[s] = cache[f] /\ cache' = cache
    BY <1>2, <1>4 DEF Save, IInv, TypeOK
  <2>2. ASSUME NEW t \in Service, NEW e \in eL[t] \ proto'[t]
        PROVE  e \in eL[t] \ proto[t] /\ e \notin cache[f]
    BY <1>2, <2>1, <2>2 DEF IInv
  <2> QED BY <1>1, <1>2, <2>1, <2>2 DEF IInv, Used
<1> QED BY <1>3, <1>4

LEMMA CloneKeeps ==
  ASSUME IInv, NEW s \in Service, Clone(s)
  PROVE  IInv'
<1>1. TypeOK'
  BY DEF IInv, TypeOK, Labels, Clone, Goto, Push, Function
<1>2. /\ UNCHANGED <<cache, held, call>>
      /\ \A t \in Service : t # s => pc'[t] = pc[t] /\ proto'[t] = proto[t]
                                     /\ eL'[t] = eL[t] /\ fn'[t] = fn[t]
      /\ proto'[s] = {} /\ eL'[s] = {} /\ fn'[s].from = proto[s] /\ pc'[s] = "finish"
  BY DEF IInv, TypeOK, Labels, Clone, Goto, Push, Function
<1>3. \A e \in State : e \notin eL[s] \ proto[s] => life'[e] = life[e]
  BY DEF Clone, Lost
<1>4. \A f \in File : \A e \in cache[f] : e \in State /\ e \notin eL[s] \ proto[s]
  BY DEF IInv, TypeOK
<1>5. \A t \in Service : \A e \in Used(t) : e \in State /\ e \notin eL[s] \ proto[s]
  BY DEF IInv, TypeOK, Used
<1>6. \A t \in Service : t # s =>
         \A e \in proto[t] \cup eL[t] : e \in State /\ e \notin eL[s] \ proto[s]
  BY DEF IInv, TypeOK
<1>7. \A e \in proto[s] : e \in State /\ e \notin eL[s] \ proto[s]
  BY DEF IInv, TypeOK
<1>8. \A t \in Service : \A e \in Used(t)' : e \in Used(t) \/ (e \in proto[s] /\ t = s)
  BY <1>2 DEF Used
<1>9. \A f \in File : \A e \in cache'[f] : life'[e] = "open"
  BY <1>2, <1>3, <1>4 DEF IInv
<1>10. \A t \in Service : \A e \in Used(t)' \cup proto'[t] \cup eL'[t] : life'[e] = "open"
  BY <1>2, <1>3, <1>5, <1>6, <1>7, <1>8 DEF IInv
<1>11. \A r, t \in Service : r # t => eL'[r] \cap eL'[t] = {}
  BY <1>2 DEF IInv
<1>12. ASSUME NEW r \in Service, NEW e \in eL'[r] \ proto'[r]
       PROVE  /\ \A f \in File : e \notin cache'[f]
              /\ \A t \in Service : e \notin Used(t)' /\ (t # r => e \notin proto'[t])
  <2>1. r # s /\ e \in eL[r] \ proto[r]
    BY <1>2, <1>12
  <2>2. e \notin proto[s]
    BY <2>1 DEF IInv
  <2> QED BY <1>2, <1>8, <2>1, <2>2 DEF IInv
<1>13. \A t \in Service : pc'[t] # "clone" => proto'[t] = {}
  BY <1>2 DEF IInv
<1>14. \A t \in Service : pc'[t] \notin {"save", "clone"} => eL'[t] = {}
  BY <1>2 DEF IInv
<1> QED BY <1>1, <1>9, <1>10, <1>11, <1>12, <1>13, <1>14 DEF IInv

LEMMA SniffKeeps ==
  ASSUME IInv, NEW s \in Service, Sniff(s)
  PROVE  IInv'
<1>1. /\ UNCHANGED <<life, cache, eL, proto, held, call>>
      /\ pc[s] = "sniff"
      /\ pc' \in {[pc EXCEPT ![s] = "finish"], [pc EXCEPT ![s] = "idle"]}
      /\ fn' \in {fn, [fn EXCEPT ![s] = Function({})]}
  BY DEF Sniff, Goto
<1>2. TypeOK'
  <2>1. pc' \in [Service -> Labels]
    BY <1>1 DEF IInv, TypeOK, Labels
  <2>2. fn' \in [Service -> [from : SUBSET State, env : {"none", "default"}]]
    BY <1>1 DEF IInv, TypeOK, Function
  <2> QED BY <1>1, <2>1, <2>2 DEF IInv, TypeOK
<1>3. \A t \in Service : /\ fn'[t].from = fn[t].from \/ fn'[t].from = {}
                         /\ t # s => pc'[t] = pc[t]
  BY <1>1 DEF IInv, TypeOK, Function
<1>4. pc'[s] \notin {"save", "clone"}
  BY <1>1 DEF IInv, TypeOK
<1> QED BY <1>1, <1>2, <1>3, <1>4 DEF IInv, Used

LEMMA FinishKeeps ==
  ASSUME IInv, NEW s \in Service, Finish(s)
  PROVE  IInv'
<1>1. TypeOK'
  BY DEF IInv, TypeOK, Labels, Finish, Goto, NoFunction
<1>2. /\ UNCHANGED <<life, cache, eL, proto, call>>
      /\ \A t \in Service : t # s => pc'[t] = pc[t]
      /\ pc[s] = "finish" /\ pc'[s] = "idle"
      /\ \A t \in Service : Used(t)' = Used(t)
  BY DEF IInv, TypeOK, Labels, Finish, Goto, NoFunction, Used
<1> QED BY <1>1, <1>2 DEF IInv

LEMMA ClearKeeps == ASSUME IInv, clear PROVE IInv'
  BY DEF IInv, TypeOK, clear, loading, Used

LEMMA StepKeeps == IInv /\ [Next]_vars => IInv'
<1> SUFFICES ASSUME IInv, [Next]_vars PROVE IInv'
  OBVIOUS
<1>1. ASSUME NEW s \in Service, Load(s) PROVE IInv'
  <2>1. CASE SetMode(s)
    BY <2>1 DEF IInv, TypeOK, SetMode, loading, Used
  <2> QED BY <1>1, <2>1, CallKeeps, LookupKeeps, DirectKeeps, CompileKeeps, SaveKeeps,
             CloneKeeps, SniffKeeps, FinishKeeps DEF Load
<1>2. ASSUME NEW f \in File, Edit(f) PROVE IInv'
  BY <1>2 DEF IInv, TypeOK, Edit, loading, Used
<1>3. CASE UNCHANGED vars
  BY <1>3 DEF IInv, TypeOK, vars, Used
<1> QED BY <1>1, <1>2, <1>3, ClearKeeps DEF Next

THEOREM Invariance == Spec => []IInv
  BY InitIInv, StepKeeps, PTL DEF Spec

(* No service ever holds a function whose prototype lies in a closed state:  *)
(* luaL_loadfilex closes only the state that lost its race, for any number   *)
(* of services that load the same files and of calls of cache.clear.         *)
THEOREM ClonesStayAlive == Spec => []ClonesLive
<1>1. IInv => ClonesLive
  BY DEF IInv, ClonesLive, Used
<1> QED BY <1>1, Invariance, PTL

----------------------------------------------------------------------------
(* What is cached is not older than floor.                                   *)
LEMMA InitFresh == Init => FreshInv
<1> SUFFICES ASSUME Init PROVE FreshInv
  OBVIOUS
<1>1. TextOK
  BY DEF Init, TextOK
<1> QED BY <1>1 DEF Init, FreshInv, FreshAfterClear, TextOK

(* Steps that leave the texts, the cache and the loads to be saved alone.    *)
LEMMA QuietFresh ==
  ASSUME FreshInv, UNCHANGED <<disk, cache, made, floor>>,
         \A t \in Service : /\ eL'[t] \subseteq eL[t]
                            /\ pc'[t] = "save" => pc[t] = "save" /\ call'[t] = call[t]
  PROVE  FreshInv'
<1>1. TextOK'
  BY DEF FreshInv, TextOK
<1>2. FreshAfterClear'
  BY DEF FreshInv, FreshAfterClear
<1> QED BY <1>1, <1>2 DEF FreshInv

LEMMA CompileFresh ==
  ASSUME IInv, FreshInv, NEW s \in Service, Compile(s)
  PROVE  FreshInv'
<1>1. UNCHANGED <<disk, cache, call, floor>> /\ pc[s] = "compile" /\ call[s].file \in File
  BY DEF Compile, IInv, TypeOK, Request
<1>2. CASE Compiles(s)
  <2>1. PICK e \in State : /\ life[e] = "unused"
                           /\ made' = [made EXCEPT ![e] = [file |-> call[s].file,
                                                           version |-> disk[call[s].file].version]]
                           /\ eL' = [eL EXCEPT ![s] = {e}]
                           /\ pc' = [pc EXCEPT ![s] = "save"]
    BY <1>2 DEF Compile, Goto, Text
  <2>2. disk[call[s].file].version \in Nat
    BY <1>1 DEF FreshInv, TextOK
  <2>3. made' \in [State -> [file : File, version : Nat]]
    BY <1>1, <2>1, <2>2 DEF FreshInv, TextOK
  <2>4. /\ made'[e].file = call[s].file
        /\ made'[e].version = disk[call[s].file].version
        /\ \A d \in State : d # e => made'[d] = made[d]
    BY <2>1 DEF FreshInv, TextOK
  <2>5. \A f \in File : \A d \in cache[f] : d \in State /\ d # e
    BY <2>1 DEF IInv, TypeOK
  <2>6. \A t \in Service : \A d \in eL[t] : d \in State /\ d # e
    BY <2>1 DEF IInv, TypeOK
  <2>7. /\ eL'[s] = {e}
        /\ \A t \in Service : t # s => eL'[t] = eL[t] /\ pc'[t] = pc[t]
    BY <2>1 DEF IInv, TypeOK
  <2>8. TextOK'
    BY <1>1, <2>3 DEF FreshInv, TextOK
  <2>9. FreshAfterClear'
    BY <1>1, <2>4, <2>5 DEF FreshInv, FreshAfterClear
  <2>10. ASSUME NEW t \in Service, NEW d \in eL'[t], pc'[t] = "save"
         PROVE  /\ made'[d].file = call'[t].file
                /\ made'[d].version >= floor'[call'[t].file]
    <3>1. CASE t = s
      BY <1>1, <2>4, <2>7, <2>10, <3>1 DEF FreshInv
    <3>2. CASE t # s
      BY <1>1, <2>4, <2>6, <2>7, <2>10, <3>2 DEF FreshInv
    <3> QED BY <3>1, <3>2
  <2>11. \A f \in File : disk'[f].version >= floor'[f]
    BY <1>1 DEF FreshInv
  <2> QED BY <2>8, <2>9, <2>10, <2>11 DEF FreshInv
<1>3. CASE ~Compiles(s)
  <2>1. UNCHANGED <<made, eL>> /\ pc' = [pc EXCEPT ![s] = "sniff"]
    BY <1>3 DEF Compile, Goto
  <2>2. \A t \in Service : pc'[t] = "save" => pc[t] = "save"
    BY <2>1 DEF IInv, TypeOK
  <2> QED BY <1>1, <2>1, <2>2, QuietFresh
<1> QED BY <1>2, <1>3

LEMMA SaveFresh ==
  ASSUME IInv, FreshInv, NEW s \in Service, Save(s)
  PROVE  FreshInv'
<1> DEFINE f == call[s].file
<1>1. /\ UNCHANGED <<disk, made, floor, eL, call>>
      /\ pc[s] = "save" /\ f \in File
      /\ \A t \in Service : pc'[t] = "save" => pc[t] = "save"
      /\ cache'[f] \in {cache[f], eL[s]}
      /\ \A g \in File : g # f => cache'[g] = cache[g]
  BY DEF Save, Goto, IInv, TypeOK, Request
<1>2. TextOK'
  BY <1>1 DEF FreshInv, TextOK
<1>3. \A e \in eL[s] : made[e].file = f /\ made[e].version >= floor[f]
  BY <1>1 DEF FreshInv
<1>4. FreshAfterClear'
  BY <1>1, <1>3 DEF FreshInv, FreshAfterClear
<1> QED BY <1>1, <1>2, <1>4 DEF FreshInv

LEMMA ClearFresh == ASSUME IInv, FreshInv, clear PROVE FreshInv'
<1>1. /\ UNCHANGED <<disk, made, pc, eL, call>>
      /\ cache' = [f \in File |-> {}]
      /\ floor' = [f \in File |-> IF InFlight(f) THEN floor[f] ELSE disk[f].version]
  BY DEF clear, loading
<1>2. \A f \in File : floor[f] \in Nat /\ disk[f].version \in Nat
  BY DEF FreshInv, TextOK
<1>3. TextOK'
  BY <1>1, <1>2 DEF FreshInv, TextOK
<1>4. \A f \in File : disk'[f].version >= floor'[f]
  BY <1>1, <1>2 DEF FreshInv
<1>5. FreshAfterClear'
  BY <1>1 DEF FreshAfterClear
<1>6. ASSUME NEW t \in Service, NEW e \in eL[t], pc[t] = "save"
      PROVE  /\ made[e].file = call[t].file
             /\ made[e].version >= floor'[call[t].file]
  <2>1. call[t].file \in File /\ InFlight(call[t].file)
    BY <1>6 DEF IInv, TypeOK, Request, InFlight
  <2> QED BY <1>1, <1>6, <2>1 DEF FreshInv
<1> QED BY <1>1, <1>3, <1>4, <1>5, <1>6 DEF FreshInv

LEMMA EditFresh ==
  ASSUME FreshInv, NEW f \in File, Edit(f)
  PROVE  FreshInv'
<1>1. PICK k \in Kind : disk' = [disk EXCEPT ![f] = [kind |-> k, version |-> disk[f].version + 1]]
  BY DEF Edit
<1>2. UNCHANGED <<cache, made, floor, pc, eL, call>>
  BY DEF Edit, loading
<1>3. disk[f].version \in Nat /\ \A g \in File : floor[g] \in Nat
  BY DEF FreshInv, TextOK
<1>4. TextOK'
  BY <1>1, <1>2, <1>3 DEF FreshInv, TextOK
<1>5. disk'[f].version = disk[f].version + 1 /\ \A g \in File : g # f => disk'[g] = disk[g]
  BY <1>1 DEF FreshInv, TextOK
<1>6. \A g \in File : disk'[g].version >= floor'[g]
  BY <1>2, <1>3, <1>5 DEF FreshInv
<1>7. FreshAfterClear'
  BY <1>2 DEF FreshInv, FreshAfterClear
<1> QED BY <1>2, <1>4, <1>6, <1>7 DEF FreshInv

LEMMA LoadFresh ==
  ASSUME IInv, FreshInv, NEW s \in Service, Load(s)
  PROVE  FreshInv'
<1> USE DEF Goto
<1>1. CASE Call(s)
  <2>1. /\ UNCHANGED <<disk, cache, made, floor, eL>>
        /\ pc' = [pc EXCEPT ![s] = "lookup"]
        /\ \A t \in Service : t # s => call'[t] = call[t]
    BY <1>1 DEF Call, IInv, TypeOK
  <2>2. \A t \in Service : pc'[t] = "save" => pc[t] = "save" /\ call'[t] = call[t]
    BY <2>1 DEF IInv, TypeOK
  <2> QED BY <2>1, <2>2, QuietFresh
<1>2. CASE Lookup(s)
  <2>1. /\ UNCHANGED <<disk, cache, made, floor, eL, call>>
        /\ \A t \in Service : pc'[t] = "save" => pc[t] = "save"
    BY <1>2 DEF Lookup, IInv, TypeOK
  <2> QED BY <2>1, QuietFresh
<1>3. CASE Direct(s)
  <2>1. /\ UNCHANGED <<disk, cache, made, floor, eL, call>>
        /\ \A t \in Service : pc'[t] = "save" => pc[t] = "save"
    BY <1>3 DEF Direct, IInv, TypeOK
  <2> QED BY <2>1, QuietFresh
<1>4. CASE Clone(s)
  <2>1. /\ UNCHANGED <<disk, cache, made, floor, call>>
        /\ \A t \in Service : eL'[t] \subseteq eL[t]
        /\ \A t \in Service : pc'[t] = "save" => pc[t] = "save"
    BY <1>4 DEF Clone, IInv, TypeOK
  <2> QED BY <2>1, QuietFresh
<1>5. CASE Sniff(s)
  <2>1. /\ UNCHANGED <<disk, cache, made, floor, eL, call>>
        /\ pc' \in {[pc EXCEPT ![s] = "finish"], [pc EXCEPT ![s] = "idle"]}
    BY <1>5 DEF Sniff
  <2>2. \A t \in Service : pc'[t] = "save" => pc[t] = "save"
    BY <2>1 DEF IInv, TypeOK
  <2> QED BY <2>1, <2>2, QuietFresh
<1>6. CASE Finish(s)
  <2>1. /\ UNCHANGED <<disk, cache, made, floor, eL, call>>
        /\ \A t \in Service : pc'[t] = "save" => pc[t] = "save"
    BY <1>6 DEF Finish, IInv, TypeOK
  <2> QED BY <2>1, QuietFresh
<1>7. CASE SetMode(s)
  BY <1>7, QuietFresh DEF SetMode, loading
<1> QED BY <1>1, <1>2, <1>3, <1>4, <1>5, <1>6, <1>7, CompileFresh, SaveFresh DEF Load

(* Once cache.clear returned, no cached text is older than what was on disk  *)
(* then, unless a load of the file stood between compiling and saving.       *)
THEOREM ClearIsFresh == Spec => []FreshAfterClear
<1>1. IInv /\ FreshInv /\ [Next]_vars => FreshInv'
  <2> SUFFICES ASSUME IInv, FreshInv, [Next]_vars PROVE FreshInv'
    OBVIOUS
  <2>1. CASE UNCHANGED vars
    BY <2>1, QuietFresh DEF vars
  <2> QED BY <2>1, LoadFresh, ClearFresh, EditFresh DEF Next
<1>2. FreshInv => FreshAfterClear
  BY DEF FreshInv
<1> QED BY <1>1, <1>2, InitFresh, Invariance, PTL DEF Spec

-----------------------------------------------------------------------------
(* Registry: references to Lua values                                      *)

LEMMA RegistryInit == Refs!Init => Refs!IInv
  BY DEF Refs!Init, Refs!IInv, Refs!Free, Refs!Slot, Refs!OwnCallback, Refs!Nothing

(* What luaL_ref and luaL_unref do to the free slots.                        *)
LEMMA RefTakes ==
  ASSUME Refs!IInv, NEW c \in Callback, Refs!luaL_ref(c)
  PROVE  /\ slots' \in Seq(Refs!Slot)
         /\ Refs!NewRef \in 1 .. Len(slots')
         /\ Len(slots) <= Len(slots')
         /\ slots'[Refs!NewRef].value = {c}
         /\ \A i \in 1 .. Len(slots) : i # Refs!NewRef => slots'[i] = slots[i]
         /\ Refs!NewRef \notin 1 .. Len(slots) \/ Refs!NewRef \in Refs!Free
         /\ Refs!Free' = Refs!Free \ {Refs!NewRef}
         /\ freelist' \in Refs!Free' \cup {0}
         /\ \A i \in Refs!Free' : /\ slots'[i].next \in Refs!Free' \cup {0}
                                  /\ slots'[i].next # 0 => slots'[i].next # freelist'
         /\ \A i, j \in Refs!Free' : slots'[i].next = slots'[j].next /\ slots'[i].next # 0 => i = j
<1> DEFINE new == [value |-> {c}, next |-> 0]
<1>1. new \in Refs!Slot /\ new.value = {c} /\ new.value # {}
  BY DEF Refs!Slot
<1>2. slots \in Seq(Refs!Slot) /\ Len(slots) \in Nat
  BY DEF Refs!IInv
<1>3. CASE freelist # 0
  <2>1. freelist \in Refs!Free /\ freelist \in 1 .. Len(slots) /\ Refs!NewRef = freelist
    BY <1>3 DEF Refs!IInv, Refs!Free, Refs!NewRef
  <2>2. /\ slots' = [slots EXCEPT ![freelist] = new]
        /\ freelist' = slots[freelist].next
    BY <1>3 DEF Refs!luaL_ref
  <2>3. /\ slots' \in Seq(Refs!Slot) /\ Len(slots') = Len(slots)
        /\ slots'[freelist] = new
        /\ \A i \in 1 .. Len(slots) : i # freelist => slots'[i] = slots[i]
    BY <1>1, <1>2, <2>1, <2>2
  <2>4. Refs!Free' = Refs!Free \ {freelist}
    BY <1>1, <2>1, <2>3 DEF Refs!Free
  <2>5. slots[freelist].next \in Refs!Free \cup {0} /\ slots[freelist].next # freelist
    BY <2>1, <1>2, <1>3 DEF Refs!IInv, Refs!Free
  <2>6. ASSUME NEW i \in Refs!Free'
        PROVE  /\ slots'[i].next \in Refs!Free' \cup {0}
               /\ slots'[i].next # 0 => slots'[i].next # freelist'
    <3>1. i \in Refs!Free /\ i # freelist /\ slots'[i] = slots[i]
      BY <2>3, <2>4, <2>6 DEF Refs!Free
    <3>2. /\ slots[i].next \in Refs!Free \cup {0}
          /\ slots[i].next # 0 => slots[i].next # freelist
          /\ slots[i].next # 0 => slots[i].next # slots[freelist].next
      BY <2>1, <3>1 DEF Refs!IInv
    <3> QED BY <2>2, <2>4, <3>1, <3>2
  <2>7. \A i, j \in Refs!Free' : slots'[i].next = slots'[j].next /\ slots'[i].next # 0 => i = j
    BY <2>3, <2>4 DEF Refs!IInv, Refs!Free
  <2>8. freelist' \in Refs!Free' \cup {0}
    BY <2>2, <2>4, <2>5
  <2> QED BY <1>1, <1>2, <2>1, <2>3, <2>4, <2>6, <2>7, <2>8
<1>4. CASE freelist = 0
  <2>1. /\ slots' = Append(slots, new) /\ freelist' = 0 /\ Refs!NewRef = Len(slots) + 1
    BY <1>4 DEF Refs!luaL_ref, Refs!NewRef
  <2>2. /\ slots' \in Seq(Refs!Slot) /\ Len(slots') = Len(slots) + 1
        /\ slots'[Len(slots) + 1] = new
        /\ \A i \in 1 .. Len(slots) : slots'[i] = slots[i]
    BY <1>1, <1>2, <2>1
  <2>3. Refs!Free' = Refs!Free /\ Len(slots) + 1 \notin Refs!Free
    <3>1. 1 .. Len(slots') = 1 .. Len(slots) \cup {Len(slots) + 1}
      BY <1>2, <2>2
    <3>2. slots'[Len(slots) + 1].value # {}
      BY <1>1, <2>2
    <3>3. Len(slots) + 1 \notin 1 .. Len(slots)
      BY <1>2
    <3>4. \A i : i \in Refs!Free' <=> i \in Refs!Free
      BY <2>2, <3>1, <3>2 DEF Refs!Free
    <3> QED BY <3>3, <3>4 DEF Refs!Free
  <2>4. \A i \in Refs!Free : slots'[i] = slots[i]
    BY <2>2 DEF Refs!Free
  <2>5. \A i \in Refs!Free : slots[i].next \in Refs!Free \cup {0}
    BY DEF Refs!IInv
  <2>6. \A i, j \in Refs!Free : slots[i].next = slots[j].next /\ slots[i].next # 0 => i = j
    BY DEF Refs!IInv
  <2>7. /\ Refs!NewRef \in 1 .. Len(slots') /\ Len(slots) <= Len(slots')
        /\ Refs!NewRef \notin 1 .. Len(slots)
        /\ slots'[Refs!NewRef].value = {c}
    BY <1>1, <1>2, <2>1, <2>2
  <2>8. Refs!Free' = Refs!Free \ {Refs!NewRef}
    BY <2>1, <2>3
  <2>9. \A i \in Refs!Free' : /\ slots'[i].next \in Refs!Free' \cup {0}
                              /\ slots'[i].next # 0 => slots'[i].next # freelist'
    BY <2>1, <2>3, <2>4, <2>5
  <2>10. \A i, j \in Refs!Free' : slots'[i].next = slots'[j].next /\ slots'[i].next # 0 => i = j
    BY <2>3, <2>4, <2>6
  <2> QED BY <2>1, <2>2, <2>7, <2>8, <2>9, <2>10
<1> QED BY <1>3, <1>4

LEMMA UnrefGives ==
  ASSUME Refs!IInv, NEW r \in 1 .. Len(slots), r \notin Refs!Free, Refs!luaL_unref(r)
  PROVE  /\ slots' \in Seq(Refs!Slot)
         /\ Len(slots') = Len(slots)
         /\ \A i \in 1 .. Len(slots) : i # r => slots'[i] = slots[i]
         /\ Refs!Free' = Refs!Free \cup {r}
         /\ freelist' = r
         /\ \A i \in Refs!Free' : /\ slots'[i].next \in Refs!Free' \cup {0}
                                  /\ slots'[i].next # 0 => slots'[i].next # freelist'
         /\ \A i, j \in Refs!Free' : slots'[i].next = slots'[j].next /\ slots'[i].next # 0 => i = j
<1> DEFINE new == [value |-> {}, next |-> freelist]
<1>1. slots \in Seq(Refs!Slot) /\ freelist \in Refs!Free \cup {0} /\ r # 0
  BY DEF Refs!IInv
<1>2. freelist \in Nat
  BY <1>1 DEF Refs!Free
<1>3. new \in Refs!Slot /\ new.value = {} /\ new.next = freelist
  BY <1>2 DEF Refs!Slot
<1>4. /\ slots' = [slots EXCEPT ![r] = new] /\ freelist' = r
  BY DEF Refs!luaL_unref
<1>5. /\ slots' \in Seq(Refs!Slot) /\ Len(slots') = Len(slots) /\ slots'[r] = new
      /\ \A i \in 1 .. Len(slots) : i # r => slots'[i] = slots[i]
  BY <1>1, <1>3, <1>4
<1>6. Refs!Free' = Refs!Free \cup {r}
  BY <1>3, <1>5 DEF Refs!Free
<1>7. \A i \in Refs!Free : /\ slots'[i] = slots[i]
                           /\ slots[i].next \in Refs!Free \cup {0}
                           /\ slots[i].next # 0 => slots[i].next # freelist
  BY <1>5 DEF Refs!IInv, Refs!Free
<1>8. \A i \in Refs!Free' : /\ slots'[i].next \in Refs!Free' \cup {0}
                            /\ slots'[i].next # 0 => slots'[i].next # r
  BY <1>1, <1>3, <1>5, <1>6, <1>7
<1>9. \A i, j \in Refs!Free : slots[i].next = slots[j].next /\ slots[i].next # 0 => i = j
  BY DEF Refs!IInv
<1>10. \A i, j \in Refs!Free' : slots'[i].next = slots'[j].next /\ slots'[i].next # 0 => i = j
  BY <1>3, <1>5, <1>6, <1>7, <1>9
<1> QED BY <1>4, <1>5, <1>6, <1>8, <1>10

(* An object's slot is never free.                                           *)
LEMMA HeldNotFree ==
  Refs!IInv => \A o \in Object : \A r \in handle[o] : r \in 1 .. Len(slots) /\ r \notin Refs!Free
<1> SUFFICES ASSUME Refs!IInv, NEW o \in Object, NEW r \in handle[o]
             PROVE  r \in 1 .. Len(slots) /\ r \notin Refs!Free
  OBVIOUS
<1>1. r \in 1 .. Len(slots) /\ slots[r].value = {given[o]}
  BY DEF Refs!IInv, Refs!OwnCallback
<1> QED BY <1>1 DEF Refs!Free

LEMMA CreateKeeps ==
  ASSUME Refs!IInv, NEW o \in Object, NEW c \in Callback, Refs!lkcp_create(o, c)
  PROVE  Refs!IInv'
<1>1. /\ Refs!luaL_ref(c)
      /\ handle' = [handle EXCEPT ![o] = {Refs!NewRef}]
      /\ given' = [given EXCEPT ![o] = c]
      /\ called' = called
  BY DEF Refs!lkcp_create
<1>2. Refs!NewRef \in Nat
  BY <1>1, RefTakes DEF Refs!IInv
<1>3. handle' \in [Object -> SUBSET Nat] /\ given' \in [Object -> Callback]
  BY <1>1, <1>2 DEF Refs!IInv
<1>4. /\ handle'[o] = {Refs!NewRef} /\ given'[o] = c
      /\ \A p \in Object : p # o => handle'[p] = handle[p] /\ given'[p] = given[p]
  BY <1>1 DEF Refs!IInv
<1>5. \A p \in Object : \A r \in handle[p] : r \in 1 .. Len(slots) /\ r # Refs!NewRef
  BY <1>1, RefTakes, HeldNotFree
<1>6. \A p \in Object : \A r \in handle[p] : r \in 1 .. Len(slots') /\ slots'[r] = slots[r]
  BY <1>1, <1>5, RefTakes DEF Refs!IInv
<1>7. Refs!OwnCallback'
  <2>1. \A p \in Object : \A r \in handle'[p] : slots'[r].value = {given'[p]}
    BY <1>1, <1>4, <1>6, RefTakes DEF Refs!IInv, Refs!OwnCallback
  <2> QED BY <1>1, <2>1 DEF Refs!IInv, Refs!OwnCallback
<1>8. \A p \in Object : \A r \in handle'[p] : r \in 1 .. Len(slots') /\ handle'[p] = {r}
  BY <1>1, <1>4, <1>6, RefTakes DEF Refs!IInv
<1>9. \A p, q \in Object : p # q => handle'[p] \cap handle'[q] = {}
  BY <1>4, <1>5 DEF Refs!IInv
<1> QED BY <1>1, <1>3, <1>7, <1>8, <1>9, RefTakes DEF Refs!IInv

LEMMA FailKeeps ==
  ASSUME Refs!IInv, NEW c \in Callback, Refs!CreateFails(c)
  PROVE  Refs!IInv'
<1>1. Refs!luaL_ref(c) /\ UNCHANGED <<handle, given, called>>
  BY DEF Refs!CreateFails
<1>2. \A p \in Object : \A r \in handle[p] : r \in 1 .. Len(slots) /\ r # Refs!NewRef
  BY <1>1, RefTakes, HeldNotFree
<1>3. \A p \in Object : \A r \in handle[p] : r \in 1 .. Len(slots') /\ slots'[r] = slots[r]
  BY <1>1, <1>2, RefTakes DEF Refs!IInv
<1>4. Refs!OwnCallback'
  BY <1>1, <1>3 DEF Refs!IInv, Refs!OwnCallback
<1> QED BY <1>1, <1>3, <1>4, RefTakes DEF Refs!IInv

LEMMA CollectKeeps ==
  ASSUME Refs!IInv, NEW o \in Object, Refs!kcp_gc(o)
  PROVE  Refs!IInv'
<1>1. PICK r \in handle[o] : Refs!luaL_unref(r)
  BY DEF Refs!kcp_gc
<1>2. handle' = [handle EXCEPT ![o] = {}] /\ UNCHANGED <<given, called>>
  BY DEF Refs!kcp_gc
<1>3. r \in 1 .. Len(slots) /\ r \notin Refs!Free
  BY <1>1, HeldNotFree
<1>4. /\ handle'[o] = {} /\ handle' \in [Object -> SUBSET Nat]
      /\ \A p \in Object : p # o => handle'[p] = handle[p] /\ r \notin handle[p]
  BY <1>1, <1>2 DEF Refs!IInv
<1>5. \A p \in Object : \A q \in handle'[p] :
         q \in handle[p] /\ q \in 1 .. Len(slots') /\ slots'[q] = slots[q] /\ handle'[p] = {q}
  BY <1>1, <1>3, <1>4, UnrefGives DEF Refs!IInv
<1>6. Refs!OwnCallback'
  BY <1>2, <1>5 DEF Refs!IInv, Refs!OwnCallback
<1>7. \A p, q \in Object : p # q => handle'[p] \cap handle'[q] = {}
  BY <1>4 DEF Refs!IInv
<1> QED BY <1>1, <1>2, <1>3, <1>4, <1>5, <1>6, <1>7, UnrefGives DEF Refs!IInv

LEMMA OutputKeeps ==
  ASSUME Refs!IInv, NEW o \in Object, Refs!kcp_output_callback(o)
  PROVE  Refs!IInv'
<1>1. called'.callback = called'.meant
  BY DEF Refs!kcp_output_callback, Refs!IInv, Refs!OwnCallback
<1>2. UNCHANGED <<slots, freelist, handle, given>>
  BY DEF Refs!kcp_output_callback
<1> QED BY <1>1, <1>2 DEF Refs!IInv, Refs!OwnCallback, Refs!Free

LEMMA RegistryStep == Refs!IInv /\ [Refs!Next]_(Refs!vars) => Refs!IInv'
<1> SUFFICES ASSUME Refs!IInv, [Refs!Next]_(Refs!vars) PROVE Refs!IInv'
  OBVIOUS
<1>1. CASE UNCHANGED Refs!vars
  BY <1>1 DEF Refs!IInv, Refs!OwnCallback, Refs!Free, Refs!vars
<1> QED BY <1>1, CreateKeeps, FailKeeps, CollectKeeps, OutputKeeps DEF Refs!Next

(* The output of a KCP object calls the function the object was created      *)
(* with: luaL_ref never hands out a slot that is in use, for any number of   *)
(* objects and any order of creations, failures and collections.             *)
THEOREM OutputsCallTheirOwn == Refs!Spec => []OwnCallback
<1>1. Refs!IInv => OwnCallback
  BY DEF Refs!IInv, OwnCallback
<1> QED BY <1>1, RegistryInit, RegistryStep, PTL DEF Refs!Spec

-----------------------------------------------------------------------------
(* LuaBuffer: memory and boxes of a string buffer                          *)

(* What newbuffsize asks for holds what is there and what is to come.        *)
LEMMA Grown ==
  ASSUME Buffer!IInv, NEW sz \in 0 .. Buffer!MaxSize, NEW larger \in Buffer!newbuffsize(sz)
  PROVE  larger \in 0 .. Buffer!MaxSize /\ n + sz <= larger
<1> DEFINE more == ((size \div 2) * 3) % Width
<1>1. /\ Width \in Nat /\ Width > 0 /\ Buffer!MaxSize = Width - 1
      /\ n \in Nat /\ size \in Nat
  BY SizesFit DEF Buffer!IInv, Buffer!MaxSize
<1>2. more \in 0 .. Buffer!MaxSize
  <2>1. (size \div 2) * 3 \in Nat
    BY <1>1
  <2> QED BY <1>1, <2>1
<1>3. /\ ~(Buffer!MaxSize - sz < n)
      /\ larger = IF more < n + sz THEN n + sz ELSE more
  BY DEF Buffer!newbuffsize
<1> HIDE DEF more
<1> QED BY <1>1, <1>2, <1>3

(* The buffer after prepbuffsize, whatever the stack becomes: held is the    *)
(* stack with the box in it.                                                 *)
LEMMA Prepared ==
  ASSUME Buffer!IInv, open,
         NEW sz \in 0 .. Buffer!MaxSize, NEW extra \in {0, sz},
         NEW idx, Buffer!At(idx) = Buffer!Slot,
         NEW held_,
         n' = n + extra, room' = sz - extra, open' = open,
         IF size - n >= sz
         THEN held_ = luastack /\ UNCHANGED <<onbox, size, toclose, blocks>>
         ELSE /\ size' \in Buffer!newbuffsize(sz)
              /\ onbox' = TRUE
              /\ blocks' = {size'}
              /\ toclose' = toclose \cup {Buffer!At(idx)}
              /\ held_ = Buffer!Boxed(idx)
  PROVE  /\ onbox' \in BOOLEAN /\ n' \in Nat /\ room' \in Nat /\ size' \in 0 .. Buffer!MaxSize
         /\ onbox' \/ blocks' = {}
         /\ Buffer!RoomMade'
         /\ toclose' = IF onbox' THEN {Buffer!Slot} ELSE {}
         /\ held_ \in Seq(Buffer!Values) /\ Len(held_) = Len(luastack)
         /\ \A i \in 1 .. Below : held_[i] = "value"
         /\ held_[Buffer!Slot] = IF onbox' THEN "box" ELSE "placeholder"
<1> USE DEF Buffer!Slot
<1>1. /\ Width \in Nat /\ Width > 0 /\ Buffer!MaxSize = Width - 1 /\ Below \in Nat
      /\ n \in Nat /\ size \in 0 .. Buffer!MaxSize /\ onbox \in BOOLEAN
      /\ luastack \in Seq(Buffer!Values) /\ Len(luastack) >= Below + 1
      /\ \A i \in 1 .. Below : luastack[i] = "value"
      /\ luastack[Below + 1] = IF onbox THEN "box" ELSE "placeholder"
      /\ toclose = IF onbox THEN {Below + 1} ELSE {}
      /\ onbox \/ blocks = {}
      /\ IF onbox THEN blocks = {size} ELSE size = InitSize
  BY SizesFit DEF Buffer!IInv, Buffer!MaxSize, Buffer!SlotHeld, Buffer!RoomMade
<1>2. n' \in Nat /\ room' \in Nat /\ n' + room' = n + sz
  BY <1>1
<1>3. CASE size - n >= sz
  <2>1. held_ = luastack /\ UNCHANGED <<onbox, size, toclose, blocks>>
    BY <1>3
  <2>2. n' + room' <= size'
    BY <1>1, <1>2, <1>3, <2>1
  <2> QED BY <1>1, <1>2, <2>1, <2>2 DEF Buffer!RoomMade
<1>4. CASE ~(size - n >= sz)
  <2>1. /\ size' \in Buffer!newbuffsize(sz) /\ onbox' = TRUE /\ blocks' = {size'}
        /\ toclose' = toclose \cup {Below + 1}
        /\ held_ = IF onbox THEN luastack ELSE [luastack EXCEPT ![Below + 1] = "box"]
    BY <1>4 DEF Buffer!Boxed
  <2>2. size' \in 0 .. Buffer!MaxSize /\ n + sz <= size'
    BY <2>1, Grown
  <2>3. toclose' = {Below + 1}
    BY <1>1, <2>1
  <2>4. Buffer!RoomMade'
    BY <1>2, <2>1, <2>2 DEF Buffer!RoomMade
  <2>5. CASE onbox
    BY <1>1, <1>2, <2>1, <2>2, <2>3, <2>4, <2>5
  <2>6. CASE ~onbox
    <3>1. /\ held_ = [luastack EXCEPT ![Below + 1] = "box"] /\ "box" \in Buffer!Values
          /\ Below + 1 \in 1 .. Len(luastack)
      BY <1>1, <2>1, <2>6 DEF Buffer!Values
    <3>2. held_ \in Seq(Buffer!Values) /\ Len(held_) = Len(luastack)
      BY <1>1, <3>1
    <3>3. held_[Below + 1] = "box" /\ \A i \in 1 .. Below : held_[i] = luastack[i]
      BY <1>1, <3>1
    <3> QED BY <1>1, <1>2, <2>1, <2>2, <2>3, <2>4, <3>2, <3>3
  <2> QED BY <1>1, <2>5, <2>6
<1> QED BY <1>3, <1>4

LEMMA BufferInit == Buffer!Init => Buffer!IInv
<1> SUFFICES ASSUME Buffer!Init PROVE Buffer!IInv
  OBVIOUS
<1>1. luastack = [i \in 1 .. Below |-> "value"] /\ Below \in Nat /\ "value" \in Buffer!Values
  BY SizesFit DEF Buffer!Init, Buffer!Bottom, Buffer!Values
<1>2. /\ luastack \in Seq(Buffer!Values) /\ Len(luastack) = Below
      /\ \A i \in 1 .. Below : luastack[i] = "value"
  BY <1>1
<1>3. Buffer!RoomMade /\ Buffer!SlotHeld
  BY DEF Buffer!Init, Buffer!RoomMade, Buffer!SlotHeld
<1>4. 0 \in 0 .. Buffer!MaxSize /\ Below \in Below .. Buffer!Slot + 1
  BY SizesFit DEF Buffer!MaxSize, Buffer!Slot
<1> QED BY <1>2, <1>3, <1>4 DEF Buffer!Init, Buffer!IInv

(* Between two strings nothing is left of the buffer.                        *)
LEMMA Bare ==
  /\ Buffer!Bottom \in Seq(Buffer!Values) /\ Len(Buffer!Bottom) = Below
  /\ \A i \in 1 .. Below : Buffer!Bottom[i] = "value"
<1>1. Buffer!Bottom = [i \in 1 .. Below |-> "value"] /\ Below \in Nat /\ "value" \in Buffer!Values
  BY SizesFit DEF Buffer!Bottom, Buffer!Values
<1> QED BY <1>1

(* A string is made or given up: what the invariant needs then.              *)
LEMMA Ended ==
  ASSUME open' = FALSE, onbox' = FALSE, n' = 0, size' = 0, room' = 0,
         toclose' = {}, blocks' = {},
         luastack' \in Seq(Buffer!Values), Len(luastack') \in Below .. Below + 1,
         \A i \in 1 .. Below : luastack'[i] = "value"
  PROVE  Buffer!IInv'
<1>1. Buffer!RoomMade' /\ Buffer!SlotHeld'
  BY DEF Buffer!RoomMade, Buffer!SlotHeld
<1>2. 0 \in 0 .. Buffer!MaxSize /\ Len(luastack') \in Below .. Buffer!Slot + 1
  BY SizesFit DEF Buffer!MaxSize, Buffer!Slot
<1> QED BY <1>1, <1>2 DEF Buffer!IInv

LEMMA InitKeeps == ASSUME Buffer!IInv, Buffer!luaL_buffinit PROVE Buffer!IInv'
<1>1. /\ luastack = Buffer!Bottom /\ luastack' = Append(Buffer!Bottom, "placeholder")
      /\ open' = TRUE /\ onbox' = FALSE /\ n' = 0 /\ size' = InitSize /\ room' = 0
      /\ toclose' = {} /\ blocks' = {}
  BY DEF Buffer!luaL_buffinit, Buffer!IInv, Buffer!SlotHeld
<1>2. "placeholder" \in Buffer!Values /\ Below \in Nat
  BY SizesFit DEF Buffer!Values
<1>3. /\ luastack' \in Seq(Buffer!Values) /\ Len(luastack') = Below + 1
      /\ luastack'[Below + 1] = "placeholder"
      /\ \A i \in 1 .. Below : luastack'[i] = "value"
  BY <1>1, <1>2, Bare
<1>4. Buffer!RoomMade' /\ Buffer!SlotHeld'
  BY <1>1, <1>2, <1>3, SizesFit DEF Buffer!RoomMade, Buffer!SlotHeld, Buffer!Slot
<1>5. InitSize \in 0 .. Buffer!MaxSize /\ Below + 1 \in Below .. Buffer!Slot + 1
  BY SizesFit DEF Buffer!MaxSize, Buffer!Slot
<1> QED BY <1>1, <1>3, <1>4, <1>5 DEF Buffer!IInv

LEMMA RaiseKeeps == ASSUME Buffer!IInv, open, Buffer!Raise PROVE Buffer!IInv'
<1>1. /\ open' = FALSE /\ onbox' = FALSE /\ n' = 0 /\ size' = 0 /\ room' = 0
      /\ luastack' = Buffer!Bottom /\ toclose' = {}
      /\ blocks' = IF \E i \in toclose : luastack[i] = "box" THEN {} ELSE blocks
  BY DEF Buffer!Raise
<1>2. blocks' = {}
  BY <1>1 DEF Buffer!IInv, Buffer!SlotHeld
<1>3. Len(luastack') \in Below .. Below + 1
  BY <1>1, Bare, SizesFit
<1> QED BY <1>1, <1>2, <1>3, Bare, Ended

LEMMA PrepareKeeps ==
  ASSUME Buffer!IInv, NEW sz \in 0 .. Buffer!MaxSize,
         Buffer!luaL_prepbuffsize(sz) \/ Buffer!luaL_addlstring(sz)
  PROVE  Buffer!IInv'
<1>1. Buffer!Level /\ Len(luastack) = Buffer!Slot /\ Buffer!At(1) = Buffer!Slot
  BY SizesFit DEF Buffer!luaL_prepbuffsize, Buffer!luaL_addlstring, Buffer!Level, Buffer!Slot,
                  Buffer!At
<1>2. PICK extra \in {0, sz} :
         /\ open /\ n' = n + extra /\ room' = sz - extra /\ open' = open
         /\ IF size - n >= sz
            THEN luastack' = luastack /\ UNCHANGED <<onbox, size, toclose, blocks>>
            ELSE /\ size' \in Buffer!newbuffsize(sz)
                 /\ onbox' = TRUE
                 /\ blocks' = {size'}
                 /\ toclose' = toclose \cup {Buffer!At(1)}
                 /\ luastack' = Buffer!Boxed(1)
  BY DEF Buffer!luaL_prepbuffsize, Buffer!luaL_addlstring, Buffer!prepbuffsize, Buffer!Same
<1>3. /\ onbox' \in BOOLEAN /\ n' \in Nat /\ room' \in Nat /\ size' \in 0 .. Buffer!MaxSize
      /\ onbox' \/ blocks' = {}
      /\ Buffer!RoomMade'
      /\ toclose' = IF onbox' THEN {Buffer!Slot} ELSE {}
      /\ luastack' \in Seq(Buffer!Values) /\ Len(luastack') = Len(luastack)
      /\ \A i \in 1 .. Below : luastack'[i] = "value"
      /\ luastack'[Buffer!Slot] = IF onbox' THEN "box" ELSE "placeholder"
  BY <1>1, <1>2, Prepared
<1>4. Buffer!SlotHeld' /\ Len(luastack') \in Below .. Buffer!Slot + 1
  BY <1>1, <1>2, <1>3, SizesFit DEF Buffer!SlotHeld, Buffer!Slot
<1> QED BY <1>2, <1>3, <1>4 DEF Buffer!IInv

LEMMA AddValueKeeps ==
  ASSUME Buffer!IInv, NEW len \in 0 .. Buffer!MaxSize, Buffer!luaL_addvalue(len)
  PROVE  Buffer!IInv'
<1> DEFINE with == IF size - n >= len THEN luastack ELSE Buffer!Boxed(2)
<1>1. /\ open /\ luastack[Len(luastack)] = "string"
      /\ n' = n + len /\ room' = len - len /\ open' = open
      /\ luastack' = Buffer!Front(with)
      /\ IF size - n >= len
         THEN with = luastack /\ UNCHANGED <<onbox, size, toclose, blocks>>
         ELSE /\ size' \in Buffer!newbuffsize(len)
              /\ onbox' = TRUE
              /\ blocks' = {size'}
              /\ toclose' = toclose \cup {Buffer!At(2)}
              /\ with = Buffer!Boxed(2)
  BY DEF Buffer!luaL_addvalue, Buffer!prepbuffsize
<1>2. Below \in Nat /\ Buffer!Slot = Below + 1 /\ len \in Nat
  BY SizesFit DEF Buffer!Slot, Buffer!MaxSize
<1>3. Len(luastack) = Buffer!Slot + 1 /\ Buffer!At(2) = Buffer!Slot
  <2>1. Len(luastack) \in Buffer!Slot .. Buffer!Slot + 1 /\ luastack[Buffer!Slot] # "string"
    BY <1>1, <1>2 DEF Buffer!IInv, Buffer!SlotHeld
  <2> QED BY <1>1, <1>2, <2>1 DEF Buffer!At
<1> HIDE DEF with
<1>4. /\ onbox' \in BOOLEAN /\ n' \in Nat /\ room' \in Nat /\ size' \in 0 .. Buffer!MaxSize
      /\ onbox' \/ blocks' = {}
      /\ Buffer!RoomMade'
      /\ toclose' = IF onbox' THEN {Buffer!Slot} ELSE {}
      /\ with \in Seq(Buffer!Values) /\ Len(with) = Len(luastack)
      /\ \A i \in 1 .. Below : with[i] = "value"
      /\ with[Buffer!Slot] = IF onbox' THEN "box" ELSE "placeholder"
  BY <1>1, <1>3, Prepared
<1>5. /\ luastack' \in Seq(Buffer!Values) /\ Len(luastack') = Below + 1
      /\ \A i \in 1 .. Below + 1 : luastack'[i] = with[i]
  BY <1>1, <1>2, <1>3, <1>4 DEF Buffer!Front
<1> QED BY <1>1, <1>2, <1>4, <1>5 DEF Buffer!IInv, Buffer!SlotHeld

LEMMA PushKeeps == ASSUME Buffer!IInv, Buffer!Push PROVE Buffer!IInv'
<1>1. /\ Len(luastack) = Below + 1 /\ luastack' = Append(luastack, "string")
      /\ UNCHANGED <<open, onbox, n, size, room, toclose, blocks>>
      /\ luastack \in Seq(Buffer!Values) /\ "string" \in Buffer!Values /\ Below \in Nat
  BY SizesFit DEF Buffer!Push, Buffer!Level, Buffer!IInv, Buffer!Values
<1>2. /\ luastack' \in Seq(Buffer!Values) /\ Len(luastack') = Below + 2
      /\ \A i \in 1 .. Below + 1 : luastack'[i] = luastack[i]
  BY <1>1
<1> QED BY <1>1, <1>2
        DEF Buffer!IInv, Buffer!MaxSize, Buffer!RoomMade, Buffer!SlotHeld, Buffer!Slot

LEMMA SizeKeeps ==
  ASSUME Buffer!IInv, NEW k \in 0 .. Buffer!MaxSize,
         Buffer!luaL_addsize(k) \/ Buffer!luaL_buffsub(k)
  PROVE  Buffer!IInv'
<1>1. /\ open' = open /\ onbox' = onbox /\ size' = size /\ blocks' = blocks
      /\ UNCHANGED <<luastack, toclose>>
  BY DEF Buffer!luaL_addsize, Buffer!luaL_buffsub
<1>2. n' \in Nat /\ room' \in Nat /\ n' + room' <= n + room
  BY SizesFit DEF Buffer!luaL_addsize, Buffer!luaL_buffsub, Buffer!IInv, Buffer!MaxSize
<1>3. Buffer!RoomMade'
  <2>1. n \in Nat /\ room \in Nat /\ size \in Int
    BY SizesFit DEF Buffer!IInv, Buffer!MaxSize
  <2>2. /\ open => n + room <= size
        /\ open => IF onbox THEN blocks = {size} ELSE size = InitSize
    BY DEF Buffer!IInv, Buffer!RoomMade
  <2>3. open' => n' + room' <= size'
    <3>1. \A u, v, w \in Int : u <= v /\ v <= w => u <= w
      OBVIOUS
    <3>2. n + room \in Int /\ n' + room' \in Int
      BY <1>2, <2>1
    <3> QED BY <1>1, <1>2, <2>1, <2>2, <3>1, <3>2, Zenon
  <2>4. open' => IF onbox' THEN blocks' = {size'} ELSE size' = InitSize
    BY <1>1, <2>2
  <2> QED BY <2>3, <2>4 DEF Buffer!RoomMade
<1> QED BY <1>1, <1>2, <1>3 DEF Buffer!IInv, Buffer!SlotHeld, Buffer!MaxSize, Buffer!Slot

LEMMA ResultKeeps == ASSUME Buffer!IInv, Buffer!luaL_pushresult PROVE Buffer!IInv'
<1> DEFINE with == Append(luastack, "result")
<1>1. /\ Len(luastack) = Below + 1 /\ open
      /\ open' = FALSE /\ onbox' = FALSE /\ n' = 0 /\ size' = 0 /\ room' = 0
      /\ luastack' = Buffer!RemoveAt(with, Len(with) - 1)
      /\ blocks' = IF onbox /\ with[Len(with) - 1] = "box" THEN {} ELSE blocks
      /\ toclose' = toclose \ {Len(with) - 1}
      /\ luastack \in Seq(Buffer!Values) /\ "result" \in Buffer!Values /\ Below \in Nat
  BY SizesFit DEF Buffer!luaL_pushresult, Buffer!Level, Buffer!IInv, Buffer!Values
<1>2. /\ with \in Seq(Buffer!Values) /\ Len(with) = Below + 2
      /\ \A i \in 1 .. Below + 1 : with[i] = luastack[i]
  BY <1>1
<1> HIDE DEF with
<1>3. blocks' = {} /\ toclose' = {}
  BY <1>1, <1>2 DEF Buffer!IInv, Buffer!SlotHeld, Buffer!Slot
<1>4. luastack' = SubSeq(with, 1, Below) \o SubSeq(with, Below + 2, Below + 2)
  BY <1>1, <1>2 DEF Buffer!RemoveAt
<1>5. /\ SubSeq(with, 1, Below) \in Seq(Buffer!Values) /\ Len(SubSeq(with, 1, Below)) = Below
      /\ SubSeq(with, Below + 2, Below + 2) \in Seq(Buffer!Values)
      /\ Len(SubSeq(with, Below + 2, Below + 2)) = 1
      /\ \A i \in 1 .. Below : SubSeq(with, 1, Below)[i] = with[i]
  BY <1>1, <1>2
<1>6. /\ luastack' \in Seq(Buffer!Values) /\ Len(luastack') = Below + 1
      /\ \A i \in 1 .. Below : luastack'[i] = with[i]
  BY <1>1, <1>4, <1>5
<1>7. \A i \in 1 .. Below : luastack'[i] = "value"
  BY <1>1, <1>2, <1>6 DEF Buffer!IInv
<1>8. Len(luastack') \in Below .. Below + 1
  BY <1>1, <1>6
<1> QED BY <1>1, <1>3, <1>6, <1>7, <1>8, Ended

LEMMA ReturnKeeps == ASSUME Buffer!IInv, Buffer!Return PROVE Buffer!IInv'
  BY Bare, SizesFit
     DEF Buffer!Return, Buffer!IInv, Buffer!MaxSize, Buffer!RoomMade, Buffer!SlotHeld, Buffer!Slot

LEMMA BufferStep == Buffer!IInv /\ [Buffer!Next]_(Buffer!vars) => Buffer!IInv'
<1> SUFFICES ASSUME Buffer!IInv, [Buffer!Next]_(Buffer!vars) PROVE Buffer!IInv'
  OBVIOUS
<1>1. CASE UNCHANGED Buffer!vars
  BY <1>1 DEF Buffer!vars, Buffer!IInv, Buffer!RoomMade, Buffer!SlotHeld
<1>2. ASSUME NEW k \in 0 .. Buffer!MaxSize, Buffer!PrepFails(k) PROVE Buffer!IInv'
  BY <1>2, RaiseKeeps DEF Buffer!PrepFails
<1> QED BY <1>1, <1>2, InitKeeps, PushKeeps, PrepareKeeps, AddValueKeeps, SizeKeeps,
           ResultKeeps, ReturnKeeps DEF Buffer!Next

(* What a buffer hands out fits into the memory it stands for, whatever      *)
(* sizes are asked for and however they wrap: newbuffsize refuses what does  *)
(* not fit before it adds.                                                   *)
THEOREM NeverOverrun == Buffer!Spec => []RoomMade
<1>1. Buffer!IInv => RoomMade
  BY DEF Buffer!IInv, RoomMade
<1> QED BY <1>1, BufferInit, BufferStep, PTL DEF Buffer!Spec

(* The slot of a buffer is its placeholder or its box, marked to be closed,  *)
(* in every order of the calls, and no block outlives the buffer.            *)
THEOREM BoxesClosed == Buffer!Spec => []SlotHeld
<1>1. Buffer!IInv => SlotHeld
  BY DEF Buffer!IInv, SlotHeld
<1> QED BY <1>1, BufferInit, BufferStep, PTL DEF Buffer!Spec

-----------------------------------------------------------------------------
(* WebClient: the body of an answer                                        *)

LEMMA LargerFits ==
  ASSUME NEW w \in Client!Structure, NEW length \in Nat
  PROVE  Client!Larger(w, length) \in Nat /\ w.content_length + length <= Client!Larger(w, length)
<1> DEFINE a == w.content_maxlength
           b == w.content_length + length
           S == {a, b, LeastBlock}
<1>1. a \in Nat /\ b \in Nat /\ LeastBlock \in Nat
  <2>1. w.content_maxlength \in Nat /\ w.content_length \in Nat
    BY DEF Client!Structure
  <2> QED BY <2>1, FiniteBodies
<1>2. Client!Larger(w, length) = 2 * Client!Max(S)
  BY DEF Client!Larger
<1> HIDE DEF a, b
<1>3. \E x \in S : \A y \in S : x >= y
  BY <1>1
<1>4. Client!Max(S) \in S /\ \A y \in S : Client!Max(S) >= y
  BY <1>3 DEF Client!Max
<1>5. Client!Max(S) \in Nat /\ Client!Max(S) >= b
  BY <1>1, <1>4
<1>6. 2 * Client!Max(S) \in Nat /\ b <= 2 * Client!Max(S)
  BY <1>1, <1>5
<1> QED BY <1>2, <1>6 DEF b

(* What the invariant says of one structure, which write_callback keeps.     *)
Sound(w) ==
  /\ w \in Client!Structure
  /\ w.content_realloc_failed \/ Client!Whole(w)
  /\ w.content_length <= w.block

(* ... when body has the piece too.                                          *)
Delivered(w, length, memory) ==
  [Client!write_callback(w, length, memory) EXCEPT !.body = w.body + length]

LEMMA DeliveredSound ==
  ASSUME NEW w, Sound(w), NEW length \in Nat, NEW memory \in BOOLEAN
  PROVE  Sound(Delivered(w, length, memory))
<1> DEFINE more == Client!Larger(w, length)
<1>1. /\ w \in Client!Structure
      /\ w.content_length \in Nat /\ w.body \in Nat /\ w.block \in Nat
      /\ w.content_length <= w.block
      /\ w.content_realloc_failed \/ (w.content_maxlength = w.block /\ w.content_length = w.body)
  BY DEF Sound, Client!Structure, Client!Whole
<1>2. more \in Nat /\ w.content_length + length <= more
  BY <1>1, LargerFits
<1> HIDE DEF more
<1> DEFINE v == Delivered(w, length, memory)
<1>3. CASE w.content_realloc_failed
  <2>1. v = [w EXCEPT !.body = w.body + length]
    BY <1>3 DEF Delivered, Client!write_callback
  <2>2. w.body + length \in Nat
    BY <1>1
  <2>3. v \in Client!Structure
    BY <1>1, <2>1, <2>2 DEF Client!Structure
  <2>4. /\ v.content_realloc_failed = w.content_realloc_failed
        /\ v.content_length = w.content_length /\ v.block = w.block
    BY <1>1, <2>1 DEF Client!Structure
  <2> QED BY <1>1, <1>3, <2>3, <2>4 DEF Sound
<1>4. CASE ~w.content_realloc_failed /\ w.content_length + length <= w.content_maxlength
  <2>1. v = [Client!Copied(w, length) EXCEPT !.body = w.body + length]
    BY <1>4 DEF Delivered, Client!write_callback
  <2>2. w.body + length \in Nat /\ w.content_length + length \in Nat
    BY <1>1
  <2>3. v \in Client!Structure
    BY <1>1, <2>1, <2>2 DEF Client!Structure, Client!Copied
  <2>4. /\ v.content_maxlength = w.content_maxlength /\ v.block = w.block
        /\ v.content_length = w.content_length + length /\ v.body = w.body + length
    BY <1>1, <2>1 DEF Client!Structure, Client!Copied
  <2> QED BY <1>1, <1>4, <2>3, <2>4 DEF Sound, Client!Whole
<1> DEFINE grown == [w EXCEPT !.content_maxlength = more]
<1>5. CASE /\ ~w.content_realloc_failed
           /\ ~(w.content_length + length <= w.content_maxlength)
           /\ memory
  <2>1. v = [Client!Copied([grown EXCEPT !.block = more], length) EXCEPT !.body = w.body + length]
    BY <1>5 DEF Delivered, Client!write_callback, more
  <2>2. w.body + length \in Nat /\ w.content_length + length \in Nat
    BY <1>1
  <2>3. v \in Client!Structure
    BY <1>1, <1>2, <2>1, <2>2 DEF Client!Structure, Client!Copied
  <2>4. /\ v.content_maxlength = more /\ v.block = more
        /\ v.content_length = w.content_length + length /\ v.body = w.body + length
    BY <1>1, <2>1 DEF Client!Structure, Client!Copied
  <2> QED BY <1>1, <1>2, <1>5, <2>3, <2>4 DEF Sound, Client!Whole
<1>6. CASE /\ ~w.content_realloc_failed
           /\ ~(w.content_length + length <= w.content_maxlength)
           /\ ~memory
  <2>1. v = [[grown EXCEPT !.content_realloc_failed = TRUE] EXCEPT !.body = w.body + length]
    BY <1>6 DEF Delivered, Client!write_callback, more
  <2>2. w.body + length \in Nat
    BY <1>1
  <2>3. v \in Client!Structure
    BY <1>1, <1>2, <2>1, <2>2 DEF Client!Structure
  <2>4. /\ v.content_realloc_failed = TRUE
        /\ v.content_length = w.content_length /\ v.block = w.block
    BY <1>1, <2>1 DEF Client!Structure
  <2> QED BY <1>1, <2>3, <2>4 DEF Sound
<1> QED BY <1>3, <1>4, <1>5, <1>6

LEMMA AfterSound ==
  ASSUME NEW w, Sound(w), NEW e \in Client!Event
  PROVE  Sound(Client!After(w, e))
<1>1. e.piece \in Nat /\ e.memory \in BOOLEAN
  <2>1. e.piece \in Piece \cup {0} /\ e.memory \in BOOLEAN
    BY DEF Client!Event
  <2>2. Piece \cup {0} \subseteq Nat
    BY FiniteBodies
  <2> QED BY <2>1, <2>2, Zenon
<1> DEFINE written == IF e.piece = 0 THEN w ELSE Delivered(w, e.piece, e.memory)
<1>2. Sound(written)
  BY <1>1, DeliveredSound
<1>3. Client!After(w, e) =
        IF e.result = "" THEN written
        ELSE [written EXCEPT !.phase = "finished",
                             !.error = IF e.result = "failed" THEN "transfer" ELSE ""]
  BY DEF Client!After, Delivered
<1> HIDE DEF written
<1> QED BY <1>2, <1>3 DEF Sound, Client!Structure, Client!Whole

(* The invariant as what it says of each structure.                          *)
LEMMA SoundEach ==
  Client!IInv <=> /\ req \in [WebRequest -> Client!Structure]
                  /\ \A r \in WebRequest : Sound(req[r])
                  /\ Client!TruncationTold
  BY DEF Client!IInv, Client!WithinBlock, Sound

LEMMA SoundEachNext ==
  Client!IInv' <=> /\ req' \in [WebRequest -> Client!Structure]
                   /\ \A r \in WebRequest : Sound(req'[r])
                   /\ Client!TruncationTold'
  BY DEF Client!IInv, Client!WithinBlock, Sound

LEMMA ZeroedSound == Sound(Client!Zeroed)
  BY DEF Sound, Client!Zeroed, Client!Structure, Client!Whole

LEMMA ClientInit == Client!Init => Client!IInv
<1> SUFFICES ASSUME Client!Init PROVE Client!IInv
  OBVIOUS
<1>1. req = [r \in WebRequest |-> Client!Zeroed] /\ Client!TruncationTold
  BY DEF Client!Init, Client!TruncationTold, Client!NoAnswer
<1>2. Client!Zeroed \in Client!Structure
  BY ZeroedSound DEF Sound
<1> QED BY <1>1, <1>2, ZeroedSound, SoundEach

(* A step that replaces one structure by a sound one and answers as before.  *)
LEMMA OneChanges ==
  ASSUME Client!IInv, NEW r \in WebRequest, NEW w, Sound(w),
         req' = [req EXCEPT ![r] = w], Client!TruncationTold'
  PROVE  Client!IInv'
<1>1. w \in Client!Structure /\ req \in [WebRequest -> Client!Structure]
  BY SoundEach DEF Sound
<1>2. \A q \in WebRequest : req'[q] = IF q = r THEN w ELSE req[q]
  BY <1>1
<1> QED BY <1>1, <1>2, SoundEach, SoundEachNext

LEMMA QueryKeeps == ASSUME Client!IInv, Client!webclient_query PROVE Client!IInv'
<1>1. Client!TruncationTold'
  BY SoundEach DEF Client!webclient_query, Client!TruncationTold
<1>2. CASE req' = req
  BY <1>1, <1>2, SoundEach, SoundEachNext
<1>3. CASE \E events \in [Client!Running -> Client!Event] : Client!curl_multi_perform(events)
  <2>1. PICK events \in [Client!Running -> Client!Event] :
           req' = [r \in WebRequest |-> IF r \in Client!Running THEN Client!After(req[r], events[r])
                                        ELSE req[r]]
    BY <1>3 DEF Client!curl_multi_perform
  <2>2. \A r \in WebRequest : Sound(req'[r])
    <3> SUFFICES ASSUME NEW r \in WebRequest PROVE Sound(req'[r])
      OBVIOUS
    <3>1. CASE r \in Client!Running
      <4>1. events[r] \in Client!Event /\ req'[r] = Client!After(req[r], events[r])
        BY <2>1, <3>1
      <4> QED BY <4>1, AfterSound, SoundEach
    <3>2. CASE r \notin Client!Running
      BY <2>1, <3>2, SoundEach
    <3> QED BY <3>1, <3>2
  <2>3. req' \in [WebRequest -> Client!Structure]
    <3>1. \A r \in WebRequest : req'[r] \in Client!Structure
      BY <2>2 DEF Sound
    <3> QED BY <2>1, <3>1
  <2> QED BY <1>1, <2>2, <2>3, SoundEachNext
<1> QED BY <1>2, <1>3 DEF Client!webclient_query

LEMMA GetRespondKeeps ==
  ASSUME Client!IInv, NEW r \in WebRequest, Client!webclient_getrespond(r)
  PROVE  Client!IInv'
<1> DEFINE said == IF req[r].content_realloc_failed THEN "memory" ELSE req[r].error
<1>1. /\ req' = [req EXCEPT ![r].error = said]
      /\ respond' = [all |-> req[r].content_length = req[r].body, error |-> said]
  BY DEF Client!webclient_getrespond
<1>2. Sound(req[r])
  BY SoundEach
<1>3. said \in {"", "memory", "transfer"}
  BY <1>2 DEF Sound, Client!Structure
<1>4. Client!TruncationTold'
  BY <1>1, <1>2 DEF Client!TruncationTold, Sound, Client!Whole
<1> HIDE DEF said
<1>5. Sound([req[r] EXCEPT !.error = said])
  BY <1>2, <1>3 DEF Sound, Client!Structure, Client!Whole
<1> QED BY <1>1, <1>4, <1>5, OneChanges

LEMMA OtherKeeps ==
  ASSUME Client!IInv, NEW r \in WebRequest,
         \/ \E post \in BOOLEAN : Client!webclient_request(r, post)
         \/ Client!RequestFails(r)
         \/ Client!webclient_removerequest(r)
  PROVE  Client!IInv'
<1>1. Client!TruncationTold'
  BY SoundEach DEF Client!webclient_request, Client!RequestFails, Client!webclient_removerequest,
                   Client!TruncationTold
<1>2. Sound(req[r]) /\ req \in [WebRequest -> Client!Structure]
  BY SoundEach
<1>3. ASSUME NEW post \in BOOLEAN, Client!webclient_request(r, post) PROVE Client!IInv'
  <2>1. req' = [req EXCEPT ![r] = [req[r] EXCEPT !.phase = "running", !.post = post]]
    BY <1>2, <1>3 DEF Client!webclient_request, Client!Structure
  <2>2. Sound([req[r] EXCEPT !.phase = "running", !.post = post])
    BY <1>2 DEF Sound, Client!Structure, Client!Whole
  <2> QED BY <1>1, <2>1, <2>2, OneChanges
<1>4. CASE Client!RequestFails(r)
  <2>1. req' = [req EXCEPT ![r] = [req[r] EXCEPT !.phase = "freed"]]
    BY <1>4 DEF Client!RequestFails
  <2>2. Sound([req[r] EXCEPT !.phase = "freed"])
    BY <1>2 DEF Sound, Client!Structure, Client!Whole
  <2> QED BY <1>1, <2>1, <2>2, OneChanges
<1>5. CASE Client!webclient_removerequest(r)
  <2>1. req' = [req EXCEPT ![r] = [Client!Zeroed EXCEPT !.phase = "freed"]]
    BY <1>5 DEF Client!webclient_removerequest
  <2>2. Sound([Client!Zeroed EXCEPT !.phase = "freed"])
    BY ZeroedSound DEF Sound, Client!Structure, Client!Whole
  <2> QED BY <1>1, <2>1, <2>2, OneChanges
<1> QED BY <1>3, <1>4, <1>5

LEMMA ClientStep == Client!IInv /\ [Client!Next]_(Client!vars) => Client!IInv'
<1> SUFFICES ASSUME Client!IInv, [Client!Next]_(Client!vars) PROVE Client!IInv'
  OBVIOUS
<1>1. CASE UNCHANGED <<req, respond>>
  BY <1>1 DEF Client!IInv, Client!WithinBlock, Client!TruncationTold
<1> QED BY <1>1, QueryKeeps, GetRespondKeeps, OtherKeeps
        DEF Client!Next, Client!vars, Client!webclient_create, Client!webclient_destory

(* Whichever piece the memory fails for, the body that was copied lies in    *)
(* the block that content points to, and getrespond never hands out a part   *)
(* of it without an error.                                                   *)
THEOREM BodyNeverCut == Client!Spec => []BodySound
<1>1. Client!IInv => BodySound
  BY DEF Client!IInv, BodySound
<1> QED BY <1>1, ClientInit, ClientStep, PTL DEF Client!Spec

-----------------------------------------------------------------------------
(* KcpClock: the clock that wraps, flushes and timers                      *)

LEMMA Division ==
  ASSUME NEW w \in Nat, w > 0, NEW x \in Int
  PROVE  x \div w \in Int /\ x % w \in 0 .. w - 1 /\ x = w * (x \div w) + (x % w)
<1>1. x \div w \in Int
  OBVIOUS
<1>2. x % w \in 0 .. w - 1
  OBVIOUS
<1>3. x = w * (x \div w) + (x % w)
  OBVIOUS
<1> QED BY <1>1, <1>2, <1>3

LEMMA SmallMultiple ==
  ASSUME NEW w \in Nat, w > 0, NEW q \in Int, -w < w * q, w * q < w
  PROVE  q = 0
<1>1. q >= 1 => w * q >= w
  OBVIOUS
<1>2. q <= -1 => w * q <= -w
  OBVIOUS
<1> QED BY <1>1, <1>2

(* The remainder is the only number in its range that differs by a multiple. *)
LEMMA Remainder ==
  ASSUME NEW w \in Nat, w > 0, NEW x \in Int, NEW q \in Int, NEW r \in 0 .. w - 1, x = w * q + r
  PROVE  x % w = r
<1> DEFINE p == x \div w
           t == x % w
<1>1. p \in Int /\ t \in 0 .. w - 1 /\ x = w * p + t
  BY Division
<1> HIDE DEF p, t
<1>2. w * (p - q) = w * p - w * q
  BY <1>1
<1>3. w * (p - q) = r - t
  <2> DEFINE a == w * p
             b == w * q
  <2>1. a \in Int /\ b \in Int /\ x = a + t /\ x = b + r
    BY <1>1
  <2> HIDE DEF a, b
  <2>2. a - b = r - t
    BY <1>1, <2>1
  <2> QED BY <1>2, <2>2 DEF a, b
<1>4. -w < w * (p - q) /\ w * (p - q) < w
  <2>1. -w < r - t /\ r - t < w
    BY <1>1
  <2> QED BY <1>3, <2>1
<1>5. p - q = 0
  <2>1. p - q \in Int
    BY <1>1
  <2> QED BY <1>4, <2>1, SmallMultiple
<1>6. p = q
  BY <1>1, <1>5
<1>7. t = r
  <2> DEFINE b == w * q
  <2>1. b \in Int /\ x = b + t /\ x = b + r
    BY <1>1, <1>6
  <2> HIDE DEF b
  <2> QED BY <1>1, <2>1
<1> QED BY <1>7 DEF t

(* Adding to what was reduced.                                               *)
LEMMA ModSum ==
  ASSUME NEW w \in Nat, w > 0, NEW x \in Int, NEW y \in Int
  PROVE  ((x % w) + y) % w = (x + y) % w /\ (y - (x % w)) % w = (y - x) % w
<1> DEFINE p == x \div w
           t == x % w
<1>1. p \in Int /\ t \in 0 .. w - 1 /\ x = w * p + t
  BY Division
<1> HIDE DEF p, t
<1>2. ASSUME NEW z \in Int, NEW k \in Int PROVE (z + w * k) % w = z % w
  <2> DEFINE q == z \div w
             r == z % w
  <2>1. q \in Int /\ r \in 0 .. w - 1 /\ z = w * q + r
    BY Division
  <2> HIDE DEF q, r
  <2>2. w * (q + k) = w * q + w * k /\ q + k \in Int /\ w * k \in Int /\ w * q \in Int
    BY <2>1
  <2>3. z + w * k = w * (q + k) + r /\ z + w * k \in Int
    <3> DEFINE a == w * q
               b == w * k
               c == w * (q + k)
    <3>1. a \in Int /\ b \in Int /\ c = a + b /\ z = a + r /\ c \in Int
      BY <2>1, <2>2
    <3> HIDE DEF a, b, c
    <3>2. z + b = c + r /\ z + b \in Int
      BY <2>1, <3>1
    <3> QED BY <3>2 DEF b, c
  <2>4. (z + w * k) % w = r
    BY <2>1, <2>2, <2>3, Remainder
  <2> QED BY <2>4 DEF r
<1>3. (t + y + w * p) % w = (t + y) % w /\ (y - t + w * (-p)) % w = (y - t) % w
  <2>1. t + y \in Int /\ y - t \in Int /\ -p \in Int
    BY <1>1
  <2> QED BY <1>1, <1>2, <2>1
<1>4. t + y + w * p = x + y /\ y - t + w * (-p) = y - x
  <2> DEFINE a == w * p
  <2>1. a \in Int /\ w * (-p) = -a /\ x = a + t
    BY <1>1
  <2> HIDE DEF a
  <2>2. t + y + a = x + y /\ y - t + (-a) = y - x
    BY <1>1, <2>1
  <2> QED BY <2>1, <2>2 DEF a
<1> QED BY <1>3, <1>4 DEF t

LEMMA ClockFacts ==
  /\ Wrap \in Nat /\ Wrap > 0 /\ Clock!Half \in Nat /\ Clock!Half > 0 /\ Wrap = 2 * Clock!Half
  /\ Jump \in 1 .. Clock!Half /\ Clock!Time = 0 .. Wrap - 1
  /\ \A i \in Interval : i \in 1 .. Jump
<1>1. Wrap \in Nat /\ Wrap > 0 /\ Wrap \div 2 \in Nat /\ Wrap = 2 * (Wrap \div 2)
  BY ClockWraps
<1>2. Jump \in 1 .. Wrap \div 2 /\ Interval \subseteq 1 .. Jump
  BY ClockWraps
<1>3. Wrap \div 2 > 0
  BY <1>1
<1> QED BY <1>1, <1>2, <1>3 DEF Clock!Half, Clock!Time

(* Numbers that wrap to the same time: what may be added on both sides.      *)
LEMMA Congruent ==
  ASSUME NEW x \in Int, NEW y \in Int, NEW z \in Int, x % Wrap = y % Wrap
  PROVE  /\ (x + z) % Wrap = (y + z) % Wrap
         /\ (z - x) % Wrap = (z - y) % Wrap
<1>1. Wrap \in Nat /\ Wrap > 0
  BY ClockFacts
<1>2. /\ ((x % Wrap) + z) % Wrap = (x + z) % Wrap /\ (z - (x % Wrap)) % Wrap = (z - x) % Wrap
      /\ ((y % Wrap) + z) % Wrap = (y + z) % Wrap /\ (z - (y % Wrap)) % Wrap = (z - y) % Wrap
  BY <1>1, ModSum
<1> QED BY <1>2, Zenon

LEMMA Small == \A x \in Int : /\ x \in 0 .. Wrap - 1 => x % Wrap = x
                              /\ x \in -Wrap .. -1 => x % Wrap = x + Wrap
<1> SUFFICES ASSUME NEW x \in Int
             PROVE  /\ x \in 0 .. Wrap - 1 => x % Wrap = x
                    /\ x \in -Wrap .. -1 => x % Wrap = x + Wrap
  OBVIOUS
<1>1. Wrap \in Nat /\ Wrap > 0
  BY ClockFacts
<1>2. x = Wrap * 0 + x /\ x = Wrap * (-1) + (x + Wrap)
  BY <1>1
<1>3. CASE x \in 0 .. Wrap - 1
  BY <1>1, <1>2, <1>3, Remainder
<1>4. CASE x \in -Wrap .. -1
  <2>1. x + Wrap \in 0 .. Wrap - 1
    BY <1>1, <1>4
  <2>2. x % Wrap = x + Wrap
    BY <1>1, <1>2, <2>1, Remainder
  <2> QED BY <1>1, <1>4, <2>2
<1> QED BY <1>3, <1>4

LEMMA TimeOf == \A x \in Int : x % Wrap \in Clock!Time /\ (x % Wrap) % Wrap = x % Wrap
<1> SUFFICES ASSUME NEW x \in Int
             PROVE  x % Wrap \in Clock!Time /\ (x % Wrap) % Wrap = x % Wrap
  OBVIOUS
<1>1. Wrap \in Nat /\ Wrap > 0
  BY ClockFacts
<1>2. x % Wrap \in 0 .. Wrap - 1
  BY <1>1, Division
<1>3. x % Wrap \in Int
  BY <1>2
<1>4. (x % Wrap) % Wrap = x % Wrap
  BY <1>2, <1>3, Small
<1> QED BY <1>2, <1>4, ClockFacts

(* itimediff is the one number of a signed width that fits.                  *)
LEMMA Difference ==
  ASSUME NEW a \in Int, NEW b \in Int, NEW x \in -Clock!Half .. Clock!Half - 1,
         (a - b) % Wrap = x % Wrap
  PROVE  Clock!itimediff(a, b) = x
<1>1. /\ Clock!Half \in Nat /\ Wrap = 2 * Clock!Half /\ Wrap \in Nat
  BY ClockFacts
<1>2. x \in Int /\ (x \in 0 .. Wrap - 1 \/ x \in -Wrap .. -1)
  BY <1>1
<1>3. CASE x >= 0
  <2>1. x \in 0 .. Wrap - 1 /\ x \in Int /\ x < Clock!Half
    BY <1>1, <1>3
  <2>2. (a - b) % Wrap = x
    BY <2>1, Small
  <2> QED BY <2>1, <2>2 DEF Clock!itimediff
<1>4. CASE x < 0
  <2>1. x \in -Wrap .. -1 /\ x \in Int /\ ~(x + Wrap < Clock!Half) /\ x + Wrap - Wrap = x
    BY <1>1, <1>4
  <2>2. (a - b) % Wrap = x + Wrap
    BY <2>1, Small
  <2> DEFINE d == (a - b) % Wrap
  <2>3. Clock!itimediff(a, b) = IF d < Clock!Half THEN d ELSE d - Wrap
    BY DEF Clock!itimediff
  <2> HIDE DEF d
  <2>4. d = x + Wrap
    BY <2>2 DEF d
  <2> QED BY <1>1, <2>1, <2>3, <2>4
<1> QED BY <1>3, <1>4, <1>1

LEMMA DifferenceFits ==
  ASSUME NEW a \in Int, NEW b \in Int
  PROVE  /\ Clock!itimediff(a, b) \in -Clock!Half .. Clock!Half - 1
         /\ (a - b) % Wrap = Clock!itimediff(a, b) % Wrap
<1> DEFINE d == (a - b) % Wrap
<1>1. /\ Clock!Half \in Nat /\ Wrap = 2 * Clock!Half /\ Wrap \in Nat /\ Wrap > 0
  BY ClockFacts
<1>2. d \in 0 .. Wrap - 1 /\ a - b \in Int
  BY <1>1, Division
<1>3. Clock!itimediff(a, b) = IF d < Clock!Half THEN d ELSE d - Wrap
  BY DEF Clock!itimediff
<1> HIDE DEF d
<1>4. d % Wrap = d /\ (d >= Clock!Half => (d - Wrap) % Wrap = d)
  <2>1. d \in Int /\ d - Wrap \in Int /\ (d >= Clock!Half => d - Wrap \in -Wrap .. -1)
        /\ d - Wrap + Wrap = d
    BY <1>1, <1>2
  <2> QED BY <1>2, <2>1, Small
<1>5. Clock!itimediff(a, b) \in -Clock!Half .. Clock!Half - 1
  BY <1>1, <1>2, <1>3
<1>6. Clock!itimediff(a, b) % Wrap = d
  BY <1>1, <1>2, <1>3, <1>4
<1> QED BY <1>5, <1>6 DEF d

LEMMA SameTime == ASSUME NEW a \in Int PROVE Clock!itimediff(a, a) = 0
<1>1. 0 \in -Clock!Half .. Clock!Half - 1 /\ (a - a) % Wrap = 0 % Wrap
  BY ClockFacts
<1> QED BY <1>1, Difference

(* ikcp_update: after a flush the next one is due within the interval, and   *)
(* without one it stays where it was, not yet due.                           *)
LEMMA UpdatedIs ==
  ASSUME NEW k \in Clock!ControlBlock, NEW now \in Clock!Time
  PROVE  /\ Clock!Updated(k, now) = [k EXCEPT !.current = now, !.updated = TRUE,
                                              !.ts_flush = Clock!Updated(k, now).ts_flush]
         /\ Clock!Flushes(k, now) =>
               \E f \in 1 .. k.interval : Clock!Updated(k, now).ts_flush = (now + f) % Wrap
         /\ ~Clock!Flushes(k, now) =>
               /\ k.updated
               /\ Clock!Updated(k, now).ts_flush = k.ts_flush
               /\ Clock!itimediff(now, k.ts_flush) \in -Jump .. -1
<1> DEFINE slap == Clock!itimediff(now, k.ts_flush)
           due == Clock!Expected(k, now)
           next == (due + k.interval) % Wrap
           i == k.interval
           u == Clock!Updated(k, now)
<1>1. /\ now \in Int /\ k.ts_flush \in Int /\ k.ts_flush \in Clock!Time
      /\ i \in 1 .. Jump /\ i \in Int /\ Jump \in 1 .. Clock!Half
  <2>1. now \in Clock!Time /\ k.ts_flush \in Clock!Time /\ i \in Interval
    BY DEF Clock!ControlBlock
  <2> QED BY <2>1, ClockFacts
<1>2. slap \in -Clock!Half .. Clock!Half - 1 /\ (now - k.ts_flush) % Wrap = slap % Wrap
  BY <1>1, DifferenceFits
<1>3. /\ u = [k EXCEPT !.current = now, !.updated = TRUE, !.ts_flush = u.ts_flush]
      /\ u.ts_flush = IF ~Clock!Flushes(k, now) THEN due
                      ELSE IF Clock!itimediff(now, next) >= 0 THEN (now + i) % Wrap
                      ELSE next
  BY DEF Clock!Updated, Clock!ControlBlock
<1>4. due = IF ~k.updated \/ slap >= Jump \/ slap < -Jump THEN now ELSE k.ts_flush
  BY DEF Clock!Expected
<1>5. Clock!Flushes(k, now) <=> Clock!itimediff(now, due) >= 0
  BY DEF Clock!Flushes
<1>6. next \in Clock!Time /\ next % Wrap = next /\ (due = now => next = (now + i) % Wrap)
      /\ (due = k.ts_flush => next = (k.ts_flush + i) % Wrap)
  <2>1. due + i \in Int
    BY <1>1, <1>4
  <2> QED BY <2>1, TimeOf
<1> HIDE DEF slap, due, next, i, u
<1>7. next \in Int /\ Clock!Half \in Nat
  BY <1>6, ClockFacts
<1>8. CASE due = now
  <2>1. Clock!Flushes(k, now)
    BY <1>1, <1>5, <1>8, SameTime
  <2>2. u.ts_flush = (now + i) % Wrap
    BY <1>3, <1>6, <1>8, <2>1
  <2>3. i \in 1 .. i
    BY <1>1
  <2> QED BY <1>3, <2>1, <2>2, <2>3 DEF u, i
<1>9. CASE due # now
  <2>1. due = k.ts_flush /\ k.updated /\ -Jump <= slap /\ slap < Jump
    <3>1. due = k.ts_flush /\ ~(~k.updated \/ slap >= Jump \/ slap < -Jump)
      BY <1>4, <1>9
    <3> QED BY <1>1, <1>2, <3>1
  <2>2. Clock!Flushes(k, now) <=> slap >= 0
    BY <1>5, <2>1 DEF slap
  <2>3. CASE slap < 0
    <3>1. ~Clock!Flushes(k, now) /\ slap \in -Jump .. -1
      BY <1>1, <1>2, <2>1, <2>2, <2>3
    <3>2. u.ts_flush = k.ts_flush
      BY <1>3, <2>1, <3>1
    <3> QED BY <1>3, <2>1, <3>1, <3>2 DEF u, slap
  <2>4. CASE slap >= 0
    <3>1. Clock!Flushes(k, now)
      BY <2>2, <2>4
    <3>2. slap \in Int /\ i \in Int /\ slap - i \in -Clock!Half .. Clock!Half - 1
      BY <1>1, <1>2, <1>7, <2>1, <2>4
    <3>3. Clock!itimediff(now, next) = slap - i
      <4>1. (now - (k.ts_flush + i)) % Wrap = (slap - i) % Wrap
        <5>1. ((now - k.ts_flush) + (-i)) % Wrap = (slap + (-i)) % Wrap
          <6>1. now - k.ts_flush \in Int /\ -i \in Int
            BY <1>1
          <6> DEFINE x == now - k.ts_flush
          <6>2. x \in Int /\ slap \in Int /\ x % Wrap = slap % Wrap
            BY <1>2, <3>2, <6>1
          <6> HIDE DEF x
          <6>3. (x + (-i)) % Wrap = (slap + (-i)) % Wrap
            BY <6>1, <6>2, Congruent
          <6> QED BY <6>3 DEF x
        <5>2. (now - k.ts_flush) + (-i) = now - (k.ts_flush + i) /\ slap + (-i) = slap - i
          BY <1>1, <3>2
        <5> QED BY <5>1, <5>2
      <4>2. next % Wrap = (k.ts_flush + i) % Wrap
        BY <1>6, <2>1
      <4>3. (now - next) % Wrap = (now - (k.ts_flush + i)) % Wrap
        <5>1. k.ts_flush + i \in Int
          BY <1>1
        <5> QED BY <1>1, <1>7, <4>2, <5>1, Congruent
      <4> QED BY <1>1, <1>7, <3>2, <4>1, <4>3, Difference
    <3>4. CASE slap - i >= 0
      <4>1. u.ts_flush = (now + i) % Wrap /\ i \in 1 .. i
        BY <1>1, <1>3, <3>1, <3>3, <3>4
      <4> QED BY <1>3, <3>1, <4>1 DEF u, i
    <3>5. CASE slap - i < 0
      <4>1. u.ts_flush = (k.ts_flush + i) % Wrap
        BY <1>3, <1>6, <2>1, <3>1, <3>2, <3>3, <3>5
      <4>2. ((now + i) - (now - k.ts_flush)) % Wrap = ((now + i) - slap) % Wrap
        <5>1. now + i \in Int /\ now - k.ts_flush \in Int
          BY <1>1
        <5> DEFINE x == now - k.ts_flush
                   z == now + i
        <5>2. x \in Int /\ z \in Int /\ slap \in Int /\ x % Wrap = slap % Wrap
          BY <1>2, <3>2, <5>1
        <5> HIDE DEF x, z
        <5>3. (z - x) % Wrap = (z - slap) % Wrap
          BY <5>2, Congruent
        <5> QED BY <5>3 DEF x, z
      <4>3. (now + i) - (now - k.ts_flush) = k.ts_flush + i /\ (now + i) - slap = now + (i - slap)
        BY <1>1, <3>2
      <4>4. i - slap \in 1 .. i
        BY <1>1, <2>4, <3>2, <3>5
      <4>5. u.ts_flush = (now + (i - slap)) % Wrap
        BY <4>1, <4>2, <4>3, Zenon
      <4> QED BY <1>3, <3>1, <4>4, <4>5 DEF u, i
    <3> QED BY <3>2, <3>4, <3>5
  <2> QED BY <1>2, <2>3, <2>4
<1> QED BY <1>8, <1>9

(* The longest timeout after k transmissions.                                *)
Most(k) == k * RTO_MAX

LEMMA MostFits ==
  ASSUME NEW k \in 0 .. MaxXmit
  PROVE  /\ Most(k) \in Nat /\ RTO_MAX \in Nat /\ RTO_MAX \div 8 \in Nat
         /\ Most(k) + (RTO_MAX \div 8) < Clock!Half
         /\ Most(k + 1) = Most(k) + RTO_MAX
         /\ Most(1) = RTO_MAX
<1>1. /\ RTO_MAX \in Nat /\ MaxXmit \in Nat /\ k \in Nat /\ k <= MaxXmit
      /\ MaxXmit * RTO_MAX + (RTO_MAX \div 8) < Wrap \div 2
  BY TimeoutsFit
<1>2. RTO_MAX \div 8 \in Nat
  BY <1>1
<1>3. \A m, j, r \in Nat : j <= m => j * r <= m * r /\ j * r \in Nat /\ m * r \in Nat
  OBVIOUS
<1>4. k * RTO_MAX <= MaxXmit * RTO_MAX /\ k * RTO_MAX \in Nat /\ MaxXmit * RTO_MAX \in Nat
  BY <1>1, <1>3
<1>5. Clock!Half = Wrap \div 2 /\ Clock!Half \in Nat
  BY ClockFacts DEF Clock!Half
<1>6. k * RTO_MAX + (RTO_MAX \div 8) < Clock!Half
  <2> DEFINE a == k * RTO_MAX
             b == MaxXmit * RTO_MAX
             c == RTO_MAX \div 8
  <2>1. a <= b /\ a \in Nat /\ b \in Nat /\ c \in Nat /\ b + c < Clock!Half
    BY <1>1, <1>2, <1>4, <1>5
  <2> HIDE DEF a, b, c
  <2>2. a + c < Clock!Half
    BY <1>5, <2>1
  <2> QED BY <2>2 DEF a, c
<1>7. (k + 1) * RTO_MAX = k * RTO_MAX + RTO_MAX /\ 1 * RTO_MAX = RTO_MAX
  BY <1>1
<1> QED BY <1>1, <1>2, <1>4, <1>6, <1>7 DEF Most

(* A segment just sent, and the time until its timer runs out.               *)
Timed(t, total, now) ==
  /\ t \in Clock!Segment /\ t.xmit > 0
  /\ t.rto <= Most(t.xmit)
  /\ total \in Nat /\ total <= Most(t.xmit) + (RTO_MAX \div 8)
  /\ t.resendts = (now + total) % Wrap

LEMMA SentIsTimed ==
  ASSUME NEW s \in Clock!Segment, s.xmit < MaxXmit, s.xmit > 0 => s.rto <= Most(s.xmit),
         NEW k \in Clock!ControlBlock, NEW now \in Clock!Time
  PROVE  /\ \E total \in Nat : Timed(Clock!Sent(s, k, now), total, now)
         /\ Clock!Sent(s, k, now) # s
<1> DEFINE margin == IF k.nodelay THEN 0 ELSE k.rx_rto \div 8
           backoff == s.rto + (IF k.nodelay THEN k.rx_rto \div 2 ELSE k.rx_rto)
           rto == IF s.xmit = 0 THEN k.rx_rto ELSE IF Clock!TimerDue(s, now) THEN backoff ELSE s.rto
           more == IF s.xmit = 0 THEN margin ELSE 0
           total == rto + more
           t == Clock!Sent(s, k, now)
           fast == s.fast /\ Clock!TimerDue(s, now)
<1>1. t = [xmit |-> s.xmit + 1, rto |-> rto, fast |-> fast, resendts |-> (now + rto + more) % Wrap]
  BY DEF Clock!Sent
<1>2. /\ s.xmit \in 0 .. MaxXmit /\ s.rto \in Nat /\ s.fast \in BOOLEAN
      /\ k.rx_rto \in 0 .. RTO_MAX /\ MaxXmit \in Nat /\ RTO_MAX \in Nat
  BY TimeoutsFit DEF Clock!Segment, Clock!ControlBlock
<1>3. now \in Nat
  BY ClockFacts
<1>4. k.rx_rto \div 8 \in 0 .. RTO_MAX \div 8 /\ k.rx_rto \div 2 \in 0 .. RTO_MAX
  <2>1. \A u, v \in Nat : u <= v => u \div 8 <= v \div 8 /\ u \div 8 \in Nat /\ v \div 8 \in Nat
    OBVIOUS
  <2>2. \A u \in Nat : u \div 2 \in 0 .. u
    OBVIOUS
  <2>3. k.rx_rto \in Nat /\ k.rx_rto <= RTO_MAX
    BY <1>2
  <2> QED BY <1>2, <2>1, <2>2, <2>3
<1>5. margin \in 0 .. RTO_MAX \div 8 /\ RTO_MAX \div 8 \in Nat
  BY <1>2, <1>4
<1>6. backoff \in Nat /\ backoff <= s.rto + RTO_MAX
  BY <1>2, <1>4
<1>7. /\ Most(s.xmit) \in Nat /\ Most(s.xmit + 1) = Most(s.xmit) + RTO_MAX
      /\ s.xmit = 0 => Most(s.xmit + 1) = RTO_MAX
  <2>1. s.xmit = 0 => s.xmit + 1 = 1
    BY <1>2
  <2> QED BY <1>2, <2>1, MostFits
<1> HIDE DEF margin, backoff
<1>8. rto \in Nat /\ rto <= Most(s.xmit + 1)
  BY <1>2, <1>6, <1>7
<1>9. more \in 0 .. RTO_MAX \div 8
  BY <1>5
<1> HIDE DEF rto, more, fast
<1>10. /\ total \in Nat /\ total <= Most(s.xmit + 1) + (RTO_MAX \div 8)
       /\ now + rto + more = now + total
  BY <1>2, <1>3, <1>5, <1>7, <1>8, <1>9
<1>11. /\ t.xmit = s.xmit + 1 /\ t.rto = rto /\ t.resendts = (now + rto + more) % Wrap
       /\ t.fast = fast
  BY <1>1
<1>12. t \in Clock!Segment
  <2>1. s.xmit + 1 \in 0 .. MaxXmit
    BY <1>2
  <2>2. (now + rto + more) % Wrap \in Clock!Time
    <3>1. now + rto + more \in Int
      BY <1>3, <1>8, <1>9
    <3> QED BY <3>1, TimeOf
  <2>3. fast \in BOOLEAN
    BY DEF fast
  <2> QED BY <1>1, <1>8, <2>1, <2>2, <2>3 DEF Clock!Segment
<1>13. t.xmit > 0 /\ t # s
  BY <1>2, <1>11
<1> HIDE DEF total, t
<1>14. Timed(t, total, now)
  BY <1>8, <1>10, <1>11, <1>12, <1>13 DEF Timed
<1> QED BY <1>10, <1>13, <1>14 DEF t

LEMMA OneTimer ==
  ASSUME NEW now \in Clock!Time, NEW total \in Nat, total < Clock!Half, NEW d \in Clock!Time,
         (now + d) % Wrap = (now + total) % Wrap
  PROVE  d = total
<1>1. /\ now \in Int /\ d \in 0 .. Wrap - 1 /\ total \in 0 .. Wrap - 1
      /\ d \in Int /\ total \in Int
  BY ClockFacts
<1> DEFINE x == now + d
           y == now + total
<1>2. x \in Int /\ y \in Int /\ x % Wrap = y % Wrap /\ -now \in Int
  BY <1>1
<1> HIDE DEF x, y
<1>3. (x + (-now)) % Wrap = (y + (-now)) % Wrap
  BY <1>2, Congruent
<1>4. x + (-now) = d /\ y + (-now) = total
  BY <1>1 DEF x, y
<1> QED BY <1>1, <1>3, <1>4, Small

LEMMA LaterAhead ==
  ASSUME Clock!IInv, NEW gap \in Clock!Time, kcp'.current = (kcp.current + gap) % Wrap,
         left' = Clock!Later(gap), NEW s \in seg, s.xmit > 0
  PROVE  Clock!TimerAhead(s)'
<1>1. /\ Clock!TimerAhead(s) /\ s.xmit \in 0 .. MaxXmit /\ kcp.current \in Clock!Time
      /\ left \in Int
  BY DEF Clock!IInv, Clock!Segment, Clock!ControlBlock
<1>2. left' = IF left - gap > -Clock!Half THEN left - gap ELSE -Clock!Half
  BY DEF Clock!Later
<1>3. /\ gap \in Int /\ gap >= 0 /\ Clock!Half \in Nat /\ kcp.current \in Int
      /\ Most(s.xmit) \in Nat /\ RTO_MAX \div 8 \in Nat
  <2>1. gap \in Int /\ gap >= 0 /\ Clock!Half \in Nat /\ kcp.current \in Int
    BY <1>1, ClockFacts
  <2>2. Most(s.xmit) \in Nat /\ RTO_MAX \div 8 \in Nat
    BY <1>1, MostFits
  <2> QED BY <2>1, <2>2
<1>4. /\ s.rto <= Most(s.xmit)
      /\ -Clock!Half <= left /\ left <= Most(s.xmit) + (RTO_MAX \div 8)
      /\ left > -Clock!Half => s.resendts = (kcp.current + left) % Wrap
  BY <1>1 DEF Clock!TimerAhead, Most
<1>5. -Clock!Half <= left' /\ left' <= Most(s.xmit) + (RTO_MAX \div 8)
  BY <1>1, <1>2, <1>3, <1>4
<1>6. ASSUME left' > -Clock!Half PROVE s.resendts = (kcp'.current + left') % Wrap
  <2>1. left' = left - gap /\ left > -Clock!Half
    BY <1>1, <1>2, <1>3, <1>6
  <2> DEFINE x == kcp.current + gap
             y == left - gap
  <2>2. x \in Int /\ y \in Int /\ x + y = kcp.current + left
    BY <1>1, <1>3
  <2>3. kcp'.current = x % Wrap
    OBVIOUS
  <2> HIDE DEF x, y
  <2>4. ((x % Wrap) + y) % Wrap = (x + y) % Wrap
    BY <2>2, ClockFacts, ModSum
  <2> QED BY <1>4, <2>1, <2>2, <2>3, <2>4 DEF y
<1> QED BY <1>4, <1>5, <1>6 DEF Clock!TimerAhead, Most

LEMMA ClockInit == Clock!Init => Clock!IInv
<1> SUFFICES ASSUME Clock!Init PROVE Clock!IInv
  OBVIOUS
<1>1. PICK i \in Interval :
         kcp = [current |-> 0, updated |-> FALSE, ts_flush |-> i % Wrap, interval |-> i,
                nodelay |-> FALSE, rx_minrto |-> RTO_MIN, rx_rto |-> RTO_DEF]
  BY DEF Clock!Init
<1>2. /\ 0 \in Clock!Time /\ i % Wrap \in Clock!Time /\ RTO_DEF \in 0 .. RTO_MAX /\ 0 \in 0 .. Wrap
  <2>1. i \in Int
    BY ClockFacts
  <2>2. RTO_DEF \in 0 .. RTO_MAX
    BY TimeoutsFit
  <2> QED BY <2>1, <2>2, ClockFacts, TimeOf
<1>3. kcp \in Clock!ControlBlock /\ kcp.interval = i /\ ~kcp.updated
  BY <1>1, <1>2 DEF Clock!ControlBlock
<1> QED BY <1>2, <1>3 DEF Clock!Init, Clock!IInv

(* ikcp_update keeps the time of the next flush.                             *)
LEMMA FlushAhead ==
  ASSUME Clock!IInv, NEW gap \in Clock!Time, Clock!Update(gap)
  PROVE  /\ kcp' \in Clock!ControlBlock /\ kcp'.updated
         /\ kcp'.current = (kcp.current + gap) % Wrap
         /\ since' \in 0 .. Wrap /\ planned' \in Interval
         /\ Clock!FlushAhead'
<1> DEFINE now == (kcp.current + gap) % Wrap
<1>1. /\ kcp \in Clock!ControlBlock /\ kcp.current \in Clock!Time /\ kcp.ts_flush \in Clock!Time
      /\ kcp.interval \in Interval
      /\ since \in 0 .. Wrap /\ planned \in Interval
  BY DEF Clock!IInv, Clock!ControlBlock
<1>2. /\ kcp.current \in Int /\ gap \in Nat /\ Wrap \in Nat /\ kcp.interval \in 1 .. Jump
      /\ Jump \in Nat /\ Jump <= Clock!Half /\ Clock!Half \in Nat
      /\ kcp.ts_flush \in Int /\ planned \in 1 .. Jump
  BY <1>1, ClockFacts
<1>3. now \in Clock!Time /\ kcp.current + gap \in Int
  <2>1. kcp.current + gap \in Int
    BY <1>2
  <2> QED BY <2>1, TimeOf
<1>4. now \in Int
  BY <1>3, ClockFacts
<1>5. /\ kcp' = Clock!Updated(kcp, now)
      /\ IF Clock!Flushes(kcp, now)
         THEN since' = 0 /\ planned' = kcp.interval
         ELSE since + gap <= Wrap /\ since' = since + gap /\ planned' = planned
  BY DEF Clock!Update
<1>6. now = (kcp.current + gap) % Wrap
  OBVIOUS
<1> HIDE DEF now
<1>7. /\ kcp' = [kcp EXCEPT !.current = now, !.updated = TRUE, !.ts_flush = kcp'.ts_flush]
      /\ Clock!Flushes(kcp, now) => \E f \in 1 .. kcp.interval : kcp'.ts_flush = (now + f) % Wrap
      /\ ~Clock!Flushes(kcp, now) => /\ kcp.updated
                                     /\ kcp'.ts_flush = kcp.ts_flush
                                     /\ Clock!itimediff(now, kcp.ts_flush) \in -Jump .. -1
  BY <1>1, <1>3, <1>5, UpdatedIs
<1>8. kcp'.current = now /\ kcp'.updated
  BY <1>1, <1>7 DEF Clock!ControlBlock
<1>9. CASE Clock!Flushes(kcp, now)
  <2>1. PICK f \in 1 .. kcp.interval : kcp'.ts_flush = (now + f) % Wrap
    BY <1>7, <1>9
  <2>2. since' = 0 /\ planned' = kcp.interval
    BY <1>5, <1>9
  <2>3. /\ f \in Int /\ f \in 1 .. planned' /\ now + f \in Int /\ 0 - f \in Int
        /\ -f \in -Clock!Half .. Clock!Half - 1 /\ -f \in -Jump .. -1 /\ 0 - f = -f
    BY <1>2, <1>4, <2>2
  <2>4. kcp'.ts_flush \in Clock!Time /\ kcp'.ts_flush \in Int
    BY <2>1, <2>3, TimeOf, ClockFacts
  <2>5. (now - kcp'.ts_flush) % Wrap = (-f) % Wrap
    <3>1. (now - ((now + f) % Wrap)) % Wrap = (now - (now + f)) % Wrap
      BY <1>4, <2>3, ClockFacts, ModSum
    <3>2. now - (now + f) = -f
      BY <1>4, <2>3
    <3> QED BY <2>1, <3>1, <3>2
  <2>6. Clock!itimediff(now, kcp'.ts_flush) = -f
    BY <1>4, <2>3, <2>4, <2>5, Difference
  <2>7. kcp' \in Clock!ControlBlock
    BY <1>1, <1>3, <1>7, <2>4 DEF Clock!ControlBlock
  <2>8. Clock!itimediff(kcp'.current, kcp'.ts_flush) \in -Jump .. -1
    BY <1>8, <2>3, <2>6
  <2>9. (kcp'.current - kcp'.ts_flush) % Wrap = (since' - f) % Wrap
    BY <1>8, <2>2, <2>3, <2>5, Zenon
  <2>10. Clock!FlushAhead'
    BY <2>3, <2>8, <2>9 DEF Clock!FlushAhead, Clock!itimediff
  <2>11. since' \in 0 .. Wrap /\ planned' \in Interval
    BY <1>1, <1>2, <2>2
  <2> QED BY <1>6, <1>8, <2>7, <2>10, <2>11
<1>10. CASE ~Clock!Flushes(kcp, now)
  <2>1. /\ kcp.updated /\ kcp'.ts_flush = kcp.ts_flush
        /\ Clock!itimediff(now, kcp.ts_flush) \in -Jump .. -1
        /\ since + gap <= Wrap /\ since' = since + gap /\ planned' = planned
    BY <1>5, <1>7, <1>10
  <2>2. PICK d \in 1 .. planned : (kcp.current - kcp.ts_flush) % Wrap = (since - d) % Wrap
    BY <2>1 DEF Clock!IInv, Clock!FlushAhead
  <2>3. kcp' \in Clock!ControlBlock
    BY <1>1, <1>3, <1>7, <2>1 DEF Clock!ControlBlock
  <2>4. since' \in 0 .. Wrap /\ planned' \in Interval
    BY <1>1, <1>2, <2>1
  <2>5. (now - kcp.ts_flush) % Wrap = ((since + gap) - d) % Wrap
    <3> DEFINE x == kcp.current - kcp.ts_flush
               y == since - d
               c == kcp.current + gap
               z == -kcp.ts_flush
    <3>1. x \in Int /\ y \in Int /\ c \in Int /\ z \in Int /\ x % Wrap = y % Wrap
      BY <1>1, <1>2, <2>2
    <3>2. /\ c + z = x + gap /\ y + gap = (since + gap) - d
          /\ (c % Wrap) + z = (c % Wrap) - kcp.ts_flush
      <4>1. c % Wrap \in Int
        BY <1>4, <1>6
      <4> QED BY <1>1, <1>2, <4>1
    <3>3. now = c % Wrap
      BY <1>6
    <3> HIDE DEF x, y, c, z
    <3>4. (x + gap) % Wrap = (y + gap) % Wrap
      <4>1. gap \in Int
        BY <1>2
      <4> QED BY <3>1, <4>1, Congruent
    <3>5. ((c % Wrap) + z) % Wrap = (c + z) % Wrap
      BY <3>1, ClockFacts, ModSum
    <3> QED BY <3>2, <3>3, <3>4, <3>5, Zenon
  <2>6. Clock!itimediff(kcp'.current, kcp'.ts_flush) \in -Jump .. -1
    BY <1>8, <2>1
  <2>7. (kcp'.current - kcp'.ts_flush) % Wrap = (since' - d) % Wrap
    BY <1>8, <2>1, <2>5, Zenon
  <2>8. Clock!FlushAhead'
    BY <2>1, <2>6, <2>7 DEF Clock!FlushAhead, Clock!itimediff
  <2> QED BY <1>6, <1>8, <2>3, <2>4, <2>8
<1> QED BY <1>9, <1>10

(* A flush keeps the time until a segment is sent again, if it sends one.    *)
LEMMA SendKeeps ==
  ASSUME Clock!IInv, NEW now \in Clock!Time, NEW rest, Clock!ikcp_flush(now, rest),
         kcp'.current = now, kcp'.updated
  PROVE  \/ seg' = seg /\ left' = rest
         \/ /\ seg' \subseteq Clock!Segment /\ \A x, y \in seg' : x = y
            /\ left' \in Int
            /\ \A x \in seg' : x.xmit > 0 => kcp'.updated /\ Clock!TimerAhead(x)'
<1>1. /\ kcp \in Clock!ControlBlock
      /\ \A s \in seg : s \in Clock!Segment
      /\ \A s, t \in seg : s = t
  BY DEF Clock!IInv
<1>2. Clock!Half \in Int
  BY ClockFacts
<1>3. /\ \A s \in seg : Clock!MustSend(s, now) => s.xmit < MaxXmit
      /\ seg' = {IF Clock!MustSend(x, now) THEN Clock!Sent(x, kcp, now) ELSE x : x \in seg}
      /\ left' = IF \E s \in seg : Clock!MustSend(s, now)
                 THEN (CHOOSE d \in Clock!Time : \E x \in seg' : (now + d) % Wrap = x.resendts)
                 ELSE rest
  BY DEF Clock!ikcp_flush
<1>4. CASE \E s \in seg : Clock!MustSend(s, now)
  <2>1. PICK s \in seg : Clock!MustSend(s, now)
    BY <1>4
  <2>2. s.xmit < MaxXmit /\ s \in Clock!Segment
    BY <1>1, <1>3, <2>1
  <2>3. s.xmit > 0 => s.rto <= Most(s.xmit)
    BY DEF Clock!IInv, Clock!TimerAhead, Most
  <2>4. PICK t : t = Clock!Sent(s, kcp, now)
    OBVIOUS
  <2>5. PICK total \in Nat : Timed(t, total, now)
    BY <1>1, <2>2, <2>3, <2>4, SentIsTimed
  <2>6. /\ seg' = {t}
        /\ left' = CHOOSE d \in Clock!Time : \E x \in seg' : (now + d) % Wrap = x.resendts
    <3>1. \A x \in seg : x = s
      BY <1>1
    <3>2. seg' = {t}
      BY <1>3, <2>1, <2>4, <3>1
    <3> QED BY <1>3, <1>4, <3>2
  <2>7. /\ t \in Clock!Segment /\ t.xmit > 0 /\ t.xmit \in 0 .. MaxXmit
        /\ t.rto <= Most(t.xmit) /\ total <= Most(t.xmit) + (RTO_MAX \div 8)
        /\ t.resendts = (now + total) % Wrap
    BY <2>5 DEF Timed, Clock!Segment
  <2>8. total < Clock!Half /\ total \in Clock!Time
    <3>1. /\ Most(t.xmit) \in Nat /\ RTO_MAX \div 8 \in Nat
          /\ Most(t.xmit) + (RTO_MAX \div 8) < Clock!Half
      BY <2>7, MostFits
    <3> QED BY <2>7, <3>1, ClockFacts
  <2>9. left' = total
    <3>1. \A d \in Clock!Time : (\E x \in seg' : (now + d) % Wrap = x.resendts) <=> d = total
      BY <2>7, <2>8, <2>6, OneTimer
    <3> QED BY <2>8, <2>6, <3>1
  <2>10. Clock!TimerAhead(t)'
    <3>1. left' \in Int /\ -Clock!Half <= left'
      BY <1>2, <2>9, ClockFacts
    <3>2. t.resendts = (kcp'.current + left') % Wrap
      BY <2>7, <2>9
    <3> QED BY <2>7, <2>9, <3>1, <3>2 DEF Clock!TimerAhead, Most
  <2> QED BY <2>7, <2>9, <2>10, <2>6, ClockFacts
<1>5. CASE ~\E s \in seg : Clock!MustSend(s, now)
  <2>1. seg' = seg /\ left' = rest
    BY <1>3, <1>5
  <2> QED BY <2>1
<1> QED BY <1>4, <1>5

(* ... and so does ikcp_update.                                              *)
LEMMA UpdateKeeps ==
  ASSUME Clock!IInv, NEW gap \in Clock!Time, Clock!Update(gap)
  PROVE  Clock!IInv'
<1> DEFINE now == (kcp.current + gap) % Wrap
<1>1. /\ kcp' \in Clock!ControlBlock /\ kcp'.updated /\ kcp'.current = now
      /\ since' \in 0 .. Wrap /\ planned' \in Interval /\ Clock!FlushAhead'
  BY FlushAhead
<1>2. /\ left \in Int
      /\ \A s \in seg : s \in Clock!Segment
      /\ \A s, t \in seg : s = t
  BY DEF Clock!IInv
<1>3. now \in Clock!Time
  BY <1>1 DEF Clock!ControlBlock
<1>4. gap \in Int /\ Clock!Half \in Int
  BY ClockFacts
<1>5. \/ Clock!ikcp_flush(now, Clock!Later(gap))
      \/ seg' = seg /\ left' = Clock!Later(gap)
  BY DEF Clock!Update
<1>6. CASE seg' = seg /\ left' = Clock!Later(gap)
  <2> HIDE DEF now
  <2>1. left' \in Int
    BY <1>2, <1>4, <1>6 DEF Clock!Later
  <2>2. \A s \in seg : s.xmit > 0 => Clock!TimerAhead(s)'
    BY <1>1, <1>6, LaterAhead DEF now
  <2> QED BY <1>1, <1>2, <1>6, <2>1, <2>2 DEF Clock!IInv
<1>7. CASE Clock!ikcp_flush(now, Clock!Later(gap)) /\ ~(seg' = seg /\ left' = Clock!Later(gap))
  <2> HIDE DEF now
  <2>1. /\ seg' \subseteq Clock!Segment /\ \A x, y \in seg' : x = y
        /\ left' \in Int
        /\ \A x \in seg' : x.xmit > 0 => kcp'.updated /\ Clock!TimerAhead(x)'
    BY <1>1, <1>3, <1>7, SendKeeps
  <2> QED BY <1>1, <2>1 DEF Clock!IInv
<1> QED BY <1>5, <1>6, <1>7

(* lkcp_flush sends by the time there is.                                    *)
LEMMA FlushKeeps == ASSUME Clock!IInv, Clock!Flush PROVE Clock!IInv'
<1>1. /\ kcp.updated /\ Clock!ikcp_flush(kcp.current, left)
      /\ kcp' = kcp /\ since' = since /\ planned' = planned
  BY DEF Clock!Flush
<1>2. /\ kcp \in Clock!ControlBlock /\ left \in Int /\ since \in 0 .. Wrap /\ planned \in Interval
      /\ seg \subseteq Clock!Segment
      /\ \A s, t \in seg : s = t
      /\ \A x \in seg : x.xmit > 0 => kcp.updated /\ Clock!TimerAhead(x)
      /\ Clock!FlushAhead /\ kcp.current \in Clock!Time
  BY <1>1 DEF Clock!IInv, Clock!ControlBlock
<1>3. Clock!FlushAhead'
  BY <1>1, <1>2 DEF Clock!FlushAhead, Clock!itimediff
<1>4. \/ seg' = seg /\ left' = left
      \/ /\ seg' \subseteq Clock!Segment /\ \A x, y \in seg' : x = y
         /\ left' \in Int
         /\ \A x \in seg' : x.xmit > 0 => kcp'.updated /\ Clock!TimerAhead(x)'
  BY <1>1, <1>2, SendKeeps
<1>5. /\ seg' \subseteq Clock!Segment /\ \A x, y \in seg' : x = y
      /\ left' \in Int
      /\ \A x \in seg' : x.xmit > 0 => kcp'.updated /\ Clock!TimerAhead(x)'
  <2>1. CASE seg' = seg /\ left' = left
    BY <1>1, <1>2, <2>1 DEF Clock!TimerAhead
  <2> QED BY <1>4, <2>1
<1> QED BY <1>1, <1>2, <1>3, <1>5 DEF Clock!IInv

(* The other steps leave the clock alone.                                    *)
LEMMA RestKeeps ==
  ASSUME Clock!IInv,
         \/ Clock!Enqueue \/ Clock!Acknowledge
         \/ \E on \in BOOLEAN, i \in Interval : Clock!Nodelay(on, i)
  PROVE  Clock!IInv'
<1>1. /\ kcp \in Clock!ControlBlock /\ left \in Int /\ since \in 0 .. Wrap /\ planned \in Interval
      /\ \A s \in seg : s \in Clock!Segment
      /\ \A s, t \in seg : s = t
      /\ RTO_MAX \in Nat /\ kcp.rx_minrto \in Nat
  <2>1. RTO_MAX \in Nat /\ {RTO_NDL, RTO_MIN} \subseteq Nat
    BY TimeoutsFit
  <2>2. kcp.rx_minrto \in {RTO_NDL, RTO_MIN}
    BY DEF Clock!IInv, Clock!ControlBlock
  <2> QED BY <2>1, <2>2 DEF Clock!IInv
<1>2. since' = since /\ planned' = planned
  BY DEF Clock!Enqueue, Clock!Acknowledge, Clock!Nodelay
<1>3. /\ kcp' \in Clock!ControlBlock /\ kcp'.current = kcp.current
      /\ kcp'.ts_flush = kcp.ts_flush /\ kcp'.updated = kcp.updated
  <2>1. CASE Clock!Enqueue
    BY <1>1, <2>1 DEF Clock!Enqueue
  <2>2. CASE Clock!Acknowledge
    <3>1. PICK rto \in {kcp.rx_rto} \cup kcp.rx_minrto .. RTO_MAX :
             kcp' = [kcp EXCEPT !.rx_rto = rto]
      BY <2>2 DEF Clock!Acknowledge, Clock!Estimates
    <3>2. rto \in 0 .. RTO_MAX
      BY <1>1, <3>1 DEF Clock!ControlBlock
    <3> QED BY <1>1, <3>1, <3>2 DEF Clock!ControlBlock
  <2>3. ASSUME NEW on \in BOOLEAN, NEW i \in Interval, Clock!Nodelay(on, i)
        PROVE  /\ kcp' \in Clock!ControlBlock /\ kcp'.current = kcp.current
               /\ kcp'.ts_flush = kcp.ts_flush /\ kcp'.updated = kcp.updated
    BY <1>1, <2>3 DEF Clock!Nodelay, Clock!ControlBlock
  <2> QED BY <2>1, <2>2, <2>3
<1>4. kcp'.updated => Clock!FlushAhead'
  BY <1>2, <1>3 DEF Clock!IInv, Clock!FlushAhead, Clock!itimediff
<1>5. /\ seg' \subseteq Clock!Segment
      /\ \A x, y \in seg' : x = y
      /\ left' \in Int
      /\ \A x \in seg' : x.xmit > 0 => kcp'.updated /\ Clock!TimerAhead(x)'
  <2>1. CASE Clock!Enqueue
    <3> DEFINE new == [xmit |-> 0, rto |-> 0, fast |-> FALSE, resendts |-> 0]
    <3>1. seg' = {new} /\ left' = 0
      BY <2>1 DEF Clock!Enqueue
    <3>2. new \in Clock!Segment /\ ~(new.xmit > 0)
      BY TimeoutsFit, ClockFacts DEF Clock!Segment
    <3> QED BY <3>1, <3>2
  <2>2. CASE Clock!Acknowledge
    <3>0. \A x \in seg : x.xmit > 0 => kcp.updated /\ Clock!TimerAhead(x)
      BY DEF Clock!IInv
    <3>1. CASE seg' = seg /\ left' = left
      BY <1>1, <1>3, <3>0, <3>1 DEF Clock!TimerAhead
    <3>2. ASSUME NEW s \in seg, s.xmit > 0, seg' = {[s EXCEPT !.fast = TRUE]}, left' = left
          PROVE  /\ seg' \subseteq Clock!Segment /\ \A x, y \in seg' : x = y
                 /\ left' \in Int
                 /\ \A x \in seg' : x.xmit > 0 => kcp'.updated /\ Clock!TimerAhead(x)'
      <4> DEFINE t == [s EXCEPT !.fast = TRUE]
      <4>1. t \in Clock!Segment /\ t.xmit = s.xmit /\ t.rto = s.rto /\ t.resendts = s.resendts
        BY <1>1 DEF Clock!Segment
      <4>2. kcp.updated /\ Clock!TimerAhead(s)
        BY <3>0, <3>2
      <4> HIDE DEF t
      <4>3. Clock!TimerAhead(t)'
        BY <1>3, <3>2, <4>1, <4>2 DEF Clock!TimerAhead
      <4> QED BY <1>1, <1>3, <3>2, <4>1, <4>2, <4>3 DEF t
    <3>3. CASE seg' = {} /\ left' = 0
      BY <3>3
    <3> QED BY <2>2, <3>1, <3>2, <3>3 DEF Clock!Acknowledge
  <2>4. CASE \E on \in BOOLEAN, i \in Interval : Clock!Nodelay(on, i)
    <3>1. seg' = seg /\ left' = left
      BY <2>4 DEF Clock!Nodelay
    <3>2. \A x \in seg : x.xmit > 0 => kcp.updated /\ Clock!TimerAhead(x)
      BY DEF Clock!IInv
    <3> QED BY <1>1, <1>3, <3>1, <3>2 DEF Clock!TimerAhead
  <2> QED BY <2>1, <2>2, <2>4
<1> QED BY <1>1, <1>2, <1>3, <1>4, <1>5 DEF Clock!IInv

LEMMA ClockStep == Clock!IInv /\ [Clock!Next]_(Clock!vars) => Clock!IInv'
<1> SUFFICES ASSUME Clock!IInv, [Clock!Next]_(Clock!vars) PROVE Clock!IInv'
  OBVIOUS
<1>1. CASE UNCHANGED Clock!vars
  BY <1>1 DEF Clock!vars, Clock!IInv, Clock!FlushAhead, Clock!TimerAhead, Clock!itimediff
<1> QED BY <1>1, UpdateKeeps, FlushKeeps, RestKeeps DEF Clock!Next

(* A flush is never overdue.                                                 *)
LEMMA InTime == Clock!IInv => Clock!FlushInTime
<1> SUFFICES ASSUME Clock!IInv, kcp.updated
             PROVE  since < planned \/ since >= Wrap - Jump
  BY DEF Clock!FlushInTime
<1> DEFINE slap == Clock!itimediff(kcp.current, kcp.ts_flush)
<1>1. PICK d \in 1 .. planned : (kcp.current - kcp.ts_flush) % Wrap = (since - d) % Wrap
  BY DEF Clock!IInv, Clock!FlushAhead
<1>2. /\ slap \in -Jump .. -1 /\ since \in 0 .. Wrap /\ planned \in 1 .. Jump
      /\ Wrap \in Nat /\ Jump \in Nat /\ Jump <= Wrap
      /\ kcp.current \in Int /\ kcp.ts_flush \in Int
  <2>1. kcp.current \in Clock!Time /\ kcp.ts_flush \in Clock!Time /\ planned \in Interval
        /\ slap \in -Jump .. -1 /\ since \in 0 .. Wrap
    BY DEF Clock!IInv, Clock!FlushAhead, Clock!ControlBlock
  <2> QED BY <2>1, ClockFacts
<1>3. (since - d) % Wrap = slap % Wrap
  BY <1>1, <1>2, DifferenceFits
<1> HIDE DEF slap
<1>4. slap \in Int /\ slap \in -Wrap .. -1 /\ slap % Wrap = slap + Wrap
  BY <1>2, Small
<1>5. CASE since - d < 0
  BY <1>2, <1>5
<1>6. CASE since - d >= 0
  <2>1. since - d \in Int /\ since - d \in 0 .. Wrap - 1
    BY <1>2, <1>6
  <2>2. since - d = slap + Wrap
    BY <1>3, <1>4, <2>1, Small
  <2> QED BY <1>2, <2>2
<1> QED BY <1>2, <1>5, <1>6

LEMMA NotYet ==
  ASSUME NEW k, NEW now, k.updated, Clock!itimediff(now, k.ts_flush) \in -Jump .. -1
  PROVE  ~Clock!Flushes(k, now)
<1> DEFINE slap == Clock!itimediff(now, k.ts_flush)
<1>1. slap \in -Jump .. -1 /\ Jump \in Nat /\ Jump > 0
  BY ClockFacts
<1>2. Clock!Expected(k, now)
        = IF ~k.updated \/ slap >= Jump \/ slap < -Jump THEN now ELSE k.ts_flush
  BY DEF Clock!Expected
<1> HIDE DEF slap
<1>3. Clock!Expected(k, now) = k.ts_flush
  BY <1>1, <1>2
<1>4. ~(slap >= 0)
  BY <1>1
<1> QED BY <1>3, <1>4 DEF Clock!Flushes, slap

(* ikcp_check answers at most the time until the flush.                      *)
LEMMA WaitsForFlush ==
  ASSUME Clock!IInv, NEW now \in Clock!Time, NEW x \in 0 .. Clock!Wait(kcp, seg, now) - 1
  PROVE  ~Clock!Flushes(kcp, (now + x) % Wrap)
<1> DEFINE slap == Clock!itimediff(now, kcp.ts_flush)
           flush == Clock!itimediff(Clock!CheckExpected(kcp, now), now)
           flight == Clock!InFlight(seg)
           times == {Clock!itimediff(s.resendts, now) : s \in flight} \cup {flush, kcp.interval}
           wait == Clock!Wait(kcp, seg, now)
<1>1. /\ now \in Int /\ kcp.ts_flush \in Int /\ kcp.interval \in Int /\ Jump \in 1 .. Clock!Half
      /\ Clock!Half \in Nat /\ Wrap \in Nat /\ Wrap > 0
      /\ \A s \in flight : s.resendts \in Int
      /\ \A s, t \in flight : s = t
  <2>1. /\ kcp.ts_flush \in Clock!Time /\ kcp.interval \in Interval
        /\ \A s \in flight : s.resendts \in Clock!Time
        /\ \A s, t \in flight : s = t
    BY DEF Clock!IInv, Clock!ControlBlock, Clock!Segment, Clock!InFlight
  <2> QED BY <2>1, ClockFacts
<1>2. wait = IF ~kcp.updated \/ \E d \in times : d <= 0 THEN 0
             ELSE CHOOSE d \in times : \A e \in times : d <= e
  BY DEF Clock!Wait
<1>3. Clock!CheckExpected(kcp, now) = IF slap >= Jump \/ slap < -Jump THEN now ELSE kcp.ts_flush
  BY DEF Clock!CheckExpected
<1>4. flush \in Int
  <2>1. Clock!CheckExpected(kcp, now) \in Int
    BY <1>1, <1>3
  <2>2. flush \in -Clock!Half .. Clock!Half - 1
    BY <1>1, <2>1, DifferenceFits
  <2> QED BY <1>1, <2>2
<1> HIDE DEF flight
<1>5. \E d \in times : \A e \in times : d <= e
  <2>1. CASE flight = {}
    <3>1. times = {flush, kcp.interval}
      BY <2>1
    <3> HIDE DEF flush, times
    <3> QED BY <1>1, <1>4, <3>1
  <2>2. CASE flight # {}
    <3>1. PICK s \in flight : flight = {s}
      <4>1. PICK s \in flight : TRUE
        BY <2>2
      <4>2. flight = {s}
        BY <1>1, <4>1
      <4> QED BY <4>2
    <3> DEFINE r == Clock!itimediff(s.resendts, now)
    <3>2. times = {r, flush, kcp.interval}
      BY <3>1
    <3>3. r \in Int
      <4>1. r \in -Clock!Half .. Clock!Half - 1
        BY <1>1, <3>1, DifferenceFits
      <4> QED BY <1>1, <4>1
    <3> HIDE DEF flush, times, r
    <3> QED BY <1>1, <1>4, <3>2, <3>3
  <2> QED BY <2>1, <2>2
<1>6. slap \in -Clock!Half .. Clock!Half - 1 /\ (now - kcp.ts_flush) % Wrap = slap % Wrap
  BY <1>1, DifferenceFits
<1>7. x \in 0 .. wait - 1
  OBVIOUS
<1>8. flush \in times
  OBVIOUS
<1> HIDE DEF times, wait
<1>9. kcp.updated /\ flush > 0 /\ wait <= flush /\ wait \in Int /\ x \in Int
  <2>1. ~(wait = 0)
    BY <1>7
  <2>2. kcp.updated /\ ~\E d \in times : d <= 0
    BY <1>2, <2>1
  <2>3. wait \in times /\ \A e \in times : wait <= e
    BY <1>2, <1>5, <2>2
  <2>4. ~(flush <= 0) /\ wait <= flush /\ x \in Int
    BY <1>7, <1>8, <2>2, <2>3
  <2>5. wait \in Int
    <3>1. \A d \in times : d \in Int
      <4>1. \A s \in flight : Clock!itimediff(s.resendts, now) \in Int
        <5> SUFFICES ASSUME NEW s \in flight PROVE Clock!itimediff(s.resendts, now) \in Int
          OBVIOUS
        <5>1. Clock!itimediff(s.resendts, now) \in -Clock!Half .. Clock!Half - 1
          BY <1>1, DifferenceFits
        <5> QED BY <1>1, <5>1
      <4> QED BY <1>1, <1>4, <4>1 DEF times
    <3> QED BY <2>3, <3>1
  <2> QED BY <1>4, <2>2, <2>4, <2>5
<1>10. Clock!CheckExpected(kcp, now) # now
  <2>1. Clock!itimediff(now, now) = 0
    BY <1>1, SameTime
  <2> QED BY <1>9, <2>1
<1>11. /\ ~(slap >= Jump) /\ ~(slap < -Jump)
       /\ Clock!CheckExpected(kcp, now) = kcp.ts_flush
  BY <1>3, <1>10
<1>12. (kcp.ts_flush - now) % Wrap = (-slap) % Wrap
  <2> DEFINE d == now - kcp.ts_flush
  <2>1. d \in Int /\ slap \in Int /\ 0 \in Int /\ d % Wrap = slap % Wrap
    BY <1>1, <1>6
  <2>2. 0 - d = kcp.ts_flush - now /\ 0 - slap = -slap
    BY <1>1, <2>1
  <2> HIDE DEF d, slap
  <2>3. (0 - d) % Wrap = (0 - slap) % Wrap
    BY <2>1, Congruent
  <2> QED BY <2>2, <2>3, Zenon
<1> HIDE DEF slap
<1>13. slap # -Clock!Half /\ flush = -slap
  <2>1. CASE slap = -Clock!Half
    <3>1. (-slap) % Wrap = (-Clock!Half) % Wrap
      <4>1. -Clock!Half \in Int /\ -Clock!Half \in -Wrap .. -1 /\ -slap \in Int
            /\ -slap \in 0 .. Wrap - 1 /\ (-Clock!Half) + Wrap = -slap
        BY <1>1, <2>1, ClockFacts
      <4> QED BY <4>1, Small
    <3>2. -Clock!Half \in -Clock!Half .. Clock!Half - 1
      BY <1>1, ClockFacts
    <3>3. Clock!itimediff(kcp.ts_flush, now) = -Clock!Half
      BY <1>1, <1>12, <3>1, <3>2, Difference
    <3> QED BY <1>1, <1>9, <1>11, <3>3
  <2>2. CASE slap # -Clock!Half
    <3>1. -slap \in -Clock!Half .. Clock!Half - 1
      BY <1>1, <1>6, <2>2
    <3> QED BY <1>1, <1>11, <1>12, <2>2, <3>1, Difference
  <2> QED BY <2>1, <2>2
<1> HIDE DEF flush
<1>14. slap + x \in -Jump .. -1 /\ slap + x \in -Clock!Half .. Clock!Half - 1
  BY <1>1, <1>6, <1>7, <1>9, <1>11, <1>13
<1>15. Clock!itimediff((now + x) % Wrap, kcp.ts_flush) = slap + x
  <2> DEFINE d == now - kcp.ts_flush
             z == now + x
             y == -kcp.ts_flush
             m == z % Wrap
  <2>1. d \in Int /\ z \in Int /\ y \in Int /\ slap \in Int /\ d % Wrap = slap % Wrap
    BY <1>1, <1>6, <1>9
  <2>2. m \in Int
    <3>1. m \in 0 .. Wrap - 1
      BY <1>1, <2>1, Division
    <3> QED BY <1>1, <3>1
  <2>3. z + y = d + x /\ m + y = m - kcp.ts_flush
    BY <1>1, <1>9, <2>2
  <2> HIDE DEF d, z, y
  <2>4. (m + y) % Wrap = (z + y) % Wrap
    BY <1>1, <2>1, ModSum
  <2> HIDE DEF m
  <2>5. (d + x) % Wrap = (slap + x) % Wrap
    BY <1>9, <2>1, Congruent
  <2>6. (m - kcp.ts_flush) % Wrap = (slap + x) % Wrap
    BY <2>3, <2>4, <2>5, Zenon
  <2>7. Clock!itimediff(m, kcp.ts_flush) = slap + x
    BY <1>1, <1>14, <2>2, <2>6, Difference
  <2> QED BY <2>7 DEF m, z
<1> QED BY <1>9, <1>14, <1>15, NotYet

(* ikcp_update flushes within the interval after the last flush and not      *)
(* later, and ikcp_check never lets the program wait past a flush, for every *)
(* width of the clock, however it wraps and wherever it stands.              *)
THEOREM FlushesOnTime == Clock!Spec => []Punctual
<1>1. Clock!IInv => Clock!NothingMissed
  BY WaitsForFlush DEF Clock!NothingMissed
<1>2. Clock!IInv => Punctual
  BY <1>1, InTime DEF Punctual
<1> QED BY <1>2, ClockInit, ClockStep, PTL DEF Clock!Spec

(* What is left of a timer says whether it is over.                          *)
LEMMA DueIs ==
  ASSUME Clock!IInv, NEW gap \in Clock!Time, NEW s \in seg, s.xmit > 0,
         left - gap > -Clock!Half
  PROVE  Clock!TimerDue(s, (kcp.current + gap) % Wrap) <=> left - gap <= 0
<1> DEFINE now == (kcp.current + gap) % Wrap
<1>1. kcp.current \in Clock!Time
  BY DEF Clock!IInv, Clock!ControlBlock
<1>2. /\ kcp.current \in Int /\ gap \in Int /\ gap \in 0 .. Wrap - 1 /\ now \in Int
      /\ Clock!Half \in Nat /\ Wrap \in Nat /\ Wrap > 0
  <2>1. kcp.current \in Int /\ kcp.current + gap \in Int
    BY <1>1, ClockFacts
  <2>2. now \in Clock!Time
    BY <2>1, TimeOf
  <2> QED BY <1>1, <2>2, ClockFacts
<1>4. now = (kcp.current + gap) % Wrap
  OBVIOUS
<1>5. /\ Clock!TimerAhead(s) /\ s \in Clock!Segment /\ left \in Int
  BY DEF Clock!IInv
<1> HIDE DEF now
<1>7. left < Clock!Half /\ left > -Clock!Half
  <2>1. s.xmit \in 0 .. MaxXmit /\ left <= Most(s.xmit) + (RTO_MAX \div 8)
    BY <1>5 DEF Clock!TimerAhead, Clock!Segment, Most
  <2>2. /\ Most(s.xmit) \in Nat /\ RTO_MAX \div 8 \in Nat
        /\ Most(s.xmit) + (RTO_MAX \div 8) < Clock!Half
    BY <2>1, MostFits
  <2> QED BY <1>2, <1>5, <2>1, <2>2
<1>8. Clock!itimediff(now, s.resendts) = gap - left
  <2> DEFINE x == kcp.current + gap
             u == kcp.current + left
             m == u % Wrap
  <2>1. s.resendts = m
    BY <1>5, <1>7 DEF Clock!TimerAhead
  <2>2. x \in Int /\ u \in Int /\ x - u = gap - left
        /\ gap - left \in -Clock!Half .. Clock!Half - 1
    BY <1>2, <1>5, <1>7
  <2>3. m \in Int
    <3>1. m \in 0 .. Wrap - 1
      BY <1>2, <2>2, Division
    <3> QED BY <1>2, <3>1
  <2>4. now = x % Wrap
    BY <1>4
  <2> HIDE DEF x, u
  <2>5. (now - m) % Wrap = (now - u) % Wrap
    BY <1>2, <2>2, ModSum
  <2> HIDE DEF m
  <2>6. (now - u) % Wrap = (x - u) % Wrap
    <3>1. now + (-u) = now - u /\ x + (-u) = x - u /\ -u \in Int
      BY <1>2, <2>2
    <3>2. (now + (-u)) % Wrap = (x + (-u)) % Wrap
      <4> DEFINE v == -u
      <4>1. v \in Int
        BY <3>1
      <4> HIDE DEF v
      <4>2. ((x % Wrap) + v) % Wrap = (x + v) % Wrap
        BY <1>2, <2>2, <4>1, ModSum
      <4> QED BY <2>4, <4>2 DEF v
    <3> QED BY <3>1, <3>2, Zenon
  <2>7. (now - m) % Wrap = (gap - left) % Wrap
    BY <2>2, <2>5, <2>6, Zenon
  <2>8. Clock!itimediff(now, m) = gap - left
    BY <1>2, <2>2, <2>3, <2>7, Difference
  <2> QED BY <2>1, <2>8
<1>9. s.xmit \in Int
  BY <1>5 DEF Clock!Segment
<1>10. Clock!TimerDue(s, now) <=> gap - left >= 0
  BY <1>8, <1>9 DEF Clock!TimerDue
<1> QED BY <1>2, <1>5, <1>10 DEF now

(* A flush sends what is due, and only that.                                 *)
LEMMA SendsDue ==
  ASSUME Clock!IInv, NEW now \in Clock!Time, NEW rest, Clock!ikcp_flush(now, rest),
         NEW s \in seg, s.xmit > 0, ~s.fast
  PROVE  (\E t \in seg' : t.xmit > s.xmit) <=> Clock!TimerDue(s, now)
<1>1. /\ s \in Clock!Segment /\ \A t \in seg : t = s
  BY DEF Clock!IInv
<1>2. s.xmit \in Int
  BY <1>1 DEF Clock!Segment
<1>3. Clock!MustSend(s, now) <=> Clock!TimerDue(s, now)
  BY <1>2 DEF Clock!MustSend
<1>4. seg' = {IF Clock!MustSend(s, now) THEN Clock!Sent(s, kcp, now) ELSE s}
  BY <1>1 DEF Clock!ikcp_flush
<1>5. Clock!Sent(s, kcp, now).xmit = s.xmit + 1
  BY DEF Clock!Sent
<1> QED BY <1>2, <1>3, <1>4, <1>5

LEMMA UpdateInTime ==
  ASSUME Clock!IInv, NEW gap \in Clock!Time, Clock!Update(gap)
  PROVE  Clock!SentInTime
<1> DEFINE now == (kcp.current + gap) % Wrap
<1>1. kcp'.current = now /\ now \in Clock!Time
  BY FlushAhead DEF Clock!ControlBlock
<1>2. /\ kcp.current \in Int /\ gap \in Int /\ gap \in 0 .. Wrap - 1 /\ now \in Int
      /\ Clock!Half \in Nat /\ Wrap \in Nat /\ Wrap > 0
  <2>1. kcp.current \in Clock!Time
    BY DEF Clock!IInv, Clock!ControlBlock
  <2> QED BY <1>1, <2>1, ClockFacts
<1>3. (now - kcp.current) % Wrap = gap
  <2> DEFINE x == kcp.current + gap
             y == -kcp.current
             m == x % Wrap
  <2>1. x \in Int /\ y \in Int /\ x + y = gap /\ m \in Int /\ m + y = m - kcp.current
    BY <1>2
  <2>2. gap % Wrap = gap
    BY <1>2, Small
  <2> HIDE DEF x, y
  <2>3. (m + y) % Wrap = (x + y) % Wrap
    BY <1>2, <2>1, ModSum
  <2>4. (m - kcp.current) % Wrap = gap
    BY <2>1, <2>2, <2>3, Zenon
  <2> QED BY <2>4 DEF x
<1> SUFFICES ASSUME NEW s \in seg, s.xmit > 0, ~s.fast, left - gap > -Clock!Half
             PROVE  /\ (\E t \in seg' : t.xmit > s.xmit) => left - gap <= 0
                    /\ left - gap <= 0 /\ Clock!Flushes(kcp, now) => \E t \in seg' : t.xmit > s.xmit
  BY <1>1, <1>3 DEF Clock!SentInTime
<1>4. Clock!TimerDue(s, now) <=> left - gap <= 0
  BY DueIs
<1>5. CASE Clock!Flushes(kcp, now)
  <2>1. Clock!ikcp_flush(now, Clock!Later(gap))
    BY <1>5 DEF Clock!Update
  <2> HIDE DEF now
  <2> QED BY <1>1, <1>4, <2>1, SendsDue
<1>6. CASE ~Clock!Flushes(kcp, now)
  <2>1. seg' = seg /\ s.xmit \in Int /\ \A t \in seg : t = s
    BY <1>6 DEF Clock!Update, Clock!IInv, Clock!Segment
  <2> QED BY <1>6, <2>1
<1> QED BY <1>5, <1>6

(* No time passes in a step that is not ikcp_update's, and its flush is not due. *)
LEMMA IdleInTime ==
  ASSUME Clock!IInv, Clock!Next, ~\E gap \in Clock!Time : Clock!Update(gap)
  PROVE  Clock!SentInTime
<1>1. kcp'.current = kcp.current
  BY DEF Clock!Next, Clock!Flush, Clock!Enqueue, Clock!Acknowledge, Clock!Nodelay, Clock!IInv,
         Clock!ControlBlock
<1>2. kcp.current \in Clock!Time /\ kcp.current \in Int
  <2>1. kcp.current \in Clock!Time
    BY DEF Clock!IInv, Clock!ControlBlock
  <2> QED BY <2>1, ClockFacts
<1>3. (kcp'.current - kcp.current) % Wrap = 0
  <2>1. 0 \in Int /\ 0 \in 0 .. Wrap - 1 /\ kcp'.current - kcp.current = 0
    BY <1>1, <1>2, ClockFacts
  <2> QED BY <2>1, Small
<1> SUFFICES ASSUME NEW s \in seg, s.xmit > 0, ~s.fast, left - 0 > -Clock!Half
             PROVE  /\ (\E t \in seg' : t.xmit > s.xmit) => left - 0 <= 0
                    /\ ~Clock!Flushes(kcp, kcp'.current)
  BY <1>3 DEF Clock!SentInTime
<1>4. ~Clock!Flushes(kcp, kcp'.current)
  <2>1. kcp.updated /\ Clock!itimediff(kcp.current, kcp.ts_flush) \in -Jump .. -1
    BY DEF Clock!IInv, Clock!FlushAhead
  <2> QED BY <1>1, <2>1, NotYet
<1>5. s.xmit \in Int /\ s \in Clock!Segment /\ \A t \in seg : t = s
  BY DEF Clock!IInv, Clock!Segment
<1>6. CASE Clock!Flush
  <2>1. Clock!ikcp_flush(kcp.current, left)
    BY <1>6 DEF Clock!Flush
  <2>2. 0 \in Clock!Time /\ (kcp.current + 0) % Wrap = kcp.current
    <3>1. kcp.current + 0 = kcp.current /\ kcp.current \in 0 .. Wrap - 1 /\ 0 \in Clock!Time
      BY <1>2, ClockFacts
    <3> QED BY <1>2, <3>1, Small
  <2>3. Clock!TimerDue(s, kcp.current) <=> left - 0 <= 0
    BY <2>2, DueIs
  <2> QED BY <1>2, <1>4, <2>1, <2>3, SendsDue
<1>7. CASE ~Clock!Flush
  <2>1. \A t \in seg' : t.xmit = s.xmit
    <3>1. CASE Clock!Acknowledge
      <4>1. CASE seg' = seg
        BY <1>5, <4>1
      <4>2. ASSUME NEW x \in seg, seg' = {[x EXCEPT !.fast = TRUE]}
            PROVE  \A t \in seg' : t.xmit = s.xmit
        <5>1. [x EXCEPT !.fast = TRUE].xmit = x.xmit /\ x = s
          BY <1>5 DEF Clock!Segment
        <5> QED BY <4>2, <5>1
      <4>3. CASE seg' = {}
        BY <4>3
      <4> QED BY <3>1, <4>1, <4>2, <4>3 DEF Clock!Acknowledge
    <3>2. CASE ~Clock!Acknowledge
      <4>1. seg' = seg
        BY <1>7, <3>2 DEF Clock!Next, Clock!Enqueue, Clock!Nodelay
      <4> QED BY <1>5, <4>1
    <3> QED BY <3>1, <3>2
  <2> QED BY <1>4, <1>5, <2>1
<1> QED BY <1>6, <1>7

(* By the time the program gives ikcp_update, no flush sends a segment again *)
(* before its timeout, and every flush of ikcp_update does after it, for     *)
(* every width of the clock and across its wraps.                            *)
THEOREM ResentOnTime == Clock!Spec => TimersExact
<1>1. Clock!IInv /\ [Clock!Next]_(Clock!vars) => [Clock!SentInTime]_(Clock!vars)
  BY UpdateInTime, IdleInTime
<1> QED BY <1>1, ClockInit, ClockStep, PTL DEF Clock!Spec, TimersExact, Clock!TimersExact

-----------------------------------------------------------------------------
(* Aoi: references of pairs, and who is told of whom                       *)


\* Aoi counts with the operators of the library.
LEMMA AreaCounts ==
    ASSUME NEW S
    PROVE  Area!Cardinality(S) = Cardinality(S) /\ (Area!IsFiniteSet(S) <=> IsFiniteSet(S))
<1>1. Area!Cardinality(S) = Cardinality(S)
  BY DEF Area!Cardinality, Cardinality, Area!IsFiniteSet, IsFiniteSet
<1>2. Area!IsFiniteSet(S) <=> IsFiniteSet(S)
  BY DEF Area!IsFiniteSet, IsFiniteSet
<1> QED  BY <1>1, <1>2

\* Each pair of a finite set mentions its two objects.
LEMMA MentionsCount ==
    ASSUME NEW S, IsFiniteSet(S), NEW i
    PROVE  /\ Area!Mentions(S, i) \in Nat
           /\ \A p \in S : i \in {p.watcher, p.marker} => Area!Mentions(S, i) > 0
           /\ (\A p \in S : i \notin {p.watcher, p.marker}) => Area!Mentions(S, i) = 0
<1> DEFINE W == {p \in S : p.watcher = i}
           M == {p \in S : p.marker = i}
<1>1. IsFiniteSet(W) /\ IsFiniteSet(M)
  BY FS_Subset, W \in SUBSET S, M \in SUBSET S
<1>2. Cardinality(W) \in Nat /\ Cardinality(M) \in Nat
  BY <1>1, FS_CardinalityType
<1>3. (Cardinality(W) = 0 <=> W = {}) /\ (Cardinality(M) = 0 <=> M = {})
  BY <1>1, FS_EmptySet
<1>4. Area!Mentions(S, i) = Cardinality(W) + Cardinality(M)
  BY AreaCounts DEF Area!Mentions
<1>5. \A p \in S : i \in {p.watcher, p.marker} => W # {} \/ M # {}
  OBVIOUS
<1>6. (\A p \in S : i \notin {p.watcher, p.marker}) => W = {} /\ M = {}
  OBVIOUS
<1> HIDE DEF W, M
<1>7. PICK a, b \in Nat : a = Cardinality(W) /\ b = Cardinality(M)
  BY <1>2
<1>8. Area!Mentions(S, i) = a + b /\ (a = 0 <=> W = {}) /\ (b = 0 <=> M = {})
  BY <1>3, <1>4, <1>7
<1>9. Area!Mentions(S, i) \in Nat /\ (W = {} /\ M = {} => Area!Mentions(S, i) = 0)
      /\ (W # {} \/ M # {} => Area!Mentions(S, i) > 0)
  BY <1>8, SMT
<1> QED  BY <1>9, <1>5, <1>6

\* What two sets without a common pair mention adds up.
LEMMA MentionsAdd ==
    ASSUME NEW S, NEW T, IsFiniteSet(S), IsFiniteSet(T), S \cap T = {}, NEW i
    PROVE  Area!Mentions(S \cup T, i) = Area!Mentions(S, i) + Area!Mentions(T, i)
<1> DEFINE W(R) == {p \in R : p.watcher = i}
           M(R) == {p \in R : p.marker = i}
<1>1. /\ IsFiniteSet(W(S)) /\ IsFiniteSet(W(T)) /\ IsFiniteSet(M(S)) /\ IsFiniteSet(M(T))
  BY FS_Subset, W(S) \in SUBSET S, W(T) \in SUBSET T, M(S) \in SUBSET S, M(T) \in SUBSET T
<1>2. /\ W(S \cup T) = W(S) \cup W(T) /\ W(S) \cap W(T) = {}
      /\ M(S \cup T) = M(S) \cup M(T) /\ M(S) \cap M(T) = {}
  OBVIOUS
<1>3. \A R : Area!Mentions(R, i) = Cardinality(W(R)) + Cardinality(M(R))
  BY AreaCounts DEF Area!Mentions
<1> HIDE DEF W, M
<1>4. \A A, B : IsFiniteSet(A) /\ IsFiniteSet(B) /\ A \cap B = {}
                => /\ Cardinality(A \cup B) = Cardinality(A) + Cardinality(B)
                   /\ Cardinality(A) \in Nat /\ Cardinality(B) \in Nat
  <2> TAKE A, B
  <2> HAVE IsFiniteSet(A) /\ IsFiniteSet(B) /\ A \cap B = {}
  <2>1. Cardinality(A \cup B) = Cardinality(A) + Cardinality(B) - Cardinality(A \cap B)
    BY FS_Union
  <2>2. Cardinality(A) \in Nat /\ Cardinality(B) \in Nat /\ Cardinality({}) = 0
    BY FS_CardinalityType, FS_EmptySet
  <2>3. Cardinality(A \cap B) = 0
    BY <2>2, Zenon
  <2> QED  BY <2>1, <2>2, <2>3
<1>5. /\ Cardinality(W(S \cup T)) = Cardinality(W(S)) + Cardinality(W(T))
      /\ Cardinality(W(S)) \in Nat /\ Cardinality(W(T)) \in Nat
  BY <1>1, <1>2, <1>4
<1>6. /\ Cardinality(M(S \cup T)) = Cardinality(M(S)) + Cardinality(M(T))
      /\ Cardinality(M(S)) \in Nat /\ Cardinality(M(T)) \in Nat
  BY <1>1, <1>2, <1>4
<1> QED  BY <1>3, <1>5, <1>6

LEMMA MentionsRest ==
    ASSUME NEW S, IsFiniteSet(S), NEW T, T \subseteq S, NEW i
    PROVE  /\ IsFiniteSet(S \ T) /\ IsFiniteSet(T)
           /\ Area!Mentions(S, i) = Area!Mentions(S \ T, i) + Area!Mentions(T, i)
<1>1. IsFiniteSet(S \ T) /\ IsFiniteSet(T)
  BY FS_Subset, S \ T \in SUBSET S, T \in SUBSET S
<1>2. S = (S \ T) \cup T /\ (S \ T) \cap T = {}
  OBVIOUS
<1> QED  BY <1>1, <1>2, MentionsAdd

\* On one axis: two that did not get far from where they were last flagged, more
\* than two radii apart there, are not within a radius.
LEMMA SquareOrder ==
    ASSUME NEW x \in Int, NEW y \in Nat
    PROVE  /\ x * x < y * y => -y < x /\ x < y
           /\ -y <= x /\ x <= y => x * x <= y * y
  OBVIOUS

LEMMA NearStays ==
    ASSUME NEW a \in Place, NEW la \in Place, a # la => Area!Near(a, la),
           NEW b \in Place, NEW lb \in Place, b # lb => Area!Near(b, lb),
           Area!Within(Area!Square(a, b))
    PROVE  ~Area!Beyond(Area!Square(la, lb))
<1>1. /\ a \in Int /\ la \in Int /\ b \in Int /\ lb \in Int /\ Radius \in Nat
  BY FiniteArea
<1>2. \A u, v \in Int : (u # v => Area!Near(u, v))
                        => -Radius <= 2 * (u - v) /\ 2 * (u - v) <= Radius
  <2> TAKE u, v \in Int
  <2> HAVE u # v => Area!Near(u, v)
  <2>1. CASE u = v
    BY <2>1, <1>1
  <2>2. CASE u # v
    <3>1. 4 * ((u - v) * (u - v)) < Radius * Radius
      BY <2>2 DEF Area!Near, Area!Square
    <3>2. (2 * (u - v)) * (2 * (u - v)) < Radius * Radius
      BY <3>1, <1>1
    <3>3. 2 * (u - v) \in Int
      OBVIOUS
    <3> HIDE <3>1
    <3> QED  BY <3>2, <3>3, <1>1, SquareOrder
  <2> QED  BY <2>1, <2>2
<1>3. -Radius <= 2 * (a - la) /\ 2 * (a - la) <= Radius
  BY <1>1, <1>2
<1>4. -Radius <= 2 * (b - lb) /\ 2 * (b - lb) <= Radius
  BY <1>1, <1>2
<1>5. -Radius < a - b /\ a - b < Radius
  <2>1. (a - b) * (a - b) < Radius * Radius
    BY DEF Area!Within, Area!Square
  <2>2. a - b \in Int
    BY <1>1
  <2> QED  BY <1>1, <2>1, <2>2, SquareOrder
<1>6. -(2 * Radius) <= la - lb /\ la - lb <= 2 * Radius
  BY <1>1, <1>3, <1>4, <1>5
<1>7. (la - lb) * (la - lb) <= (2 * Radius) * (2 * Radius)
  <2>1. la - lb \in Int /\ 2 * Radius \in Nat
    BY <1>1
  <2> QED  BY <2>1, <1>6, SquareOrder
<1>8. (la - lb) * (la - lb) <= 4 * Radius * Radius /\ (la - lb) * (la - lb) \in Int
      /\ 4 * Radius * Radius \in Int
  BY <1>1, <1>7
<1>9. Area!Square(la, lb) <= 4 * Radius * Radius /\ Area!Square(la, lb) \in Int
  BY <1>8 DEF Area!Square
<1> QED  BY <1>8, <1>9 DEF Area!Beyond

-----------------------------------------------------------------------------
\* What aoi_message makes on its way: the objects that outlive the settled pairs,
\* the pairs it compares, and what becomes of them.
Resting == hot \ Area!Settled
Outlived == Area!Release([i \in DOMAIN object |->
                [object[i] EXCEPT !.ref = @ - Area!Mentions(Area!Settled, i)]])
Candidates == Area!Compared(Outlived)
Met == {p \in Candidates : Area!Within(Area!Distance2(Outlived, p))}
Parted == {p \in Candidates : Area!Beyond(Area!Distance2(Outlived, p))}
Kept == {[watcher |-> p.watcher, marker |-> p.marker,
          watcher_version |-> Outlived[p.watcher].version,
          marker_version |-> Outlived[p.marker].version]
         : p \in Candidates \ (Met \cup Parted)}
GivenUp == {p \in hot : ~Area!Stale(p) /\ Area!Beyond(Area!Distance2(object, p))}
Names(ps) == {<<p.watcher, p.marker>> : p \in ps}

LEMMA AfterMessage ==
    ASSUME Area!aoi_message
    PROVE  /\ object' = [i \in DOMAIN Outlived |->
                 [Outlived[i] EXCEPT
                    !.ref = @ + Area!Mentions(Kept, i),
                    !.mode = IF @ \cap {"watcher", "marker"} # {} THEN @ \ {"move"} ELSE @]]
           /\ hot' = Resting \cup Kept
           /\ told' = told \cup Names(Area!Arrived) \cup Names(Met)
           /\ adrift' = adrift
                \cup Names({p \in Parted : \/ Area!Away(Outlived[p.watcher])
                                           \/ Area!Away(Outlived[p.marker])})
                \cup Names({p \in GivenUp : \/ Area!Away(object[p.watcher])
                                         \/ Area!Away(object[p.marker])})
  BY Zenon DEF Area!aoi_message, Resting, Outlived, Candidates, Met, Parted, Kept, GivenUp, Names

LEMMA AreaTyped ==
    ASSUME Area!IInv
    PROVE  /\ IsFiniteSet(hot) /\ hot \subseteq Area!PairRecord
           /\ DOMAIN object \subseteq Walker
           /\ object \in [DOMAIN object -> Area!ObjectRecord]
           /\ \A i \in DOMAIN object :
                 /\ object[i] \in Area!ObjectRecord
                 /\ object[i].ref = Area!Mentions(hot, i)
                                    + (IF "drop" \in object[i].mode THEN 0 ELSE 1)
                 /\ object[i].ref > 0
           /\ \A p \in hot :
                 /\ p.watcher \in DOMAIN object /\ p.marker \in DOMAIN object
                 /\ Area!Known(p.watcher, p.watcher_version)
                 /\ Area!Known(p.marker, p.marker_version)
<1>1. IsFiniteSet(hot)
  BY AreaCounts DEF Area!IInv
<1>2. /\ hot \subseteq Area!PairRecord
      /\ DOMAIN object \subseteq Walker
      /\ object \in [DOMAIN object -> Area!ObjectRecord]
  BY DEF Area!IInv
<1>3. \A i \in DOMAIN object : object[i] \in Area!ObjectRecord
  BY <1>2
<1> QED  BY <1>1, <1>2, <1>3 DEF Area!IInv, Area!RefsExact

\* The objects left when the settled pairs have given their references back.
LEMMA Outlives ==
    ASSUME Area!IInv
    PROVE  /\ DOMAIN Outlived \subseteq DOMAIN object
           /\ IsFiniteSet(Resting)
           /\ \A i \in DOMAIN Outlived :
                 /\ Outlived[i] \in Area!ObjectRecord
                 /\ Outlived[i].ref = Area!Mentions(Resting, i)
                                      + (IF "drop" \in object[i].mode THEN 0 ELSE 1)
                 /\ Outlived[i].ref > 0
                 /\ Outlived[i].version = object[i].version
                 /\ Outlived[i].mode = object[i].mode
                 /\ Outlived[i].last = object[i].last
                 /\ Outlived[i].position = object[i].position
           /\ \A p \in Resting : {p.watcher, p.marker} \subseteq DOMAIN Outlived
           /\ \A i \in DOMAIN object : "drop" \notin object[i].mode => i \in DOMAIN Outlived
<1> DEFINE f == [i \in DOMAIN object |->
                   [object[i] EXCEPT !.ref = @ - Area!Mentions(Area!Settled, i)]]
<1>1. Area!Settled \subseteq hot /\ Resting \subseteq hot
  BY DEF Area!Settled, Resting
<1>2. IsFiniteSet(Resting)
  BY <1>1, AreaTyped, MentionsRest DEF Resting
<1>3. \A i : /\ Area!Mentions(hot, i) = Area!Mentions(Resting, i) + Area!Mentions(Area!Settled, i)
             /\ Area!Mentions(Resting, i) \in Nat /\ Area!Mentions(Area!Settled, i) \in Nat
  <2> TAKE i
  <2>1. /\ Area!Mentions(hot, i) = Area!Mentions(Resting, i) + Area!Mentions(Area!Settled, i)
        /\ IsFiniteSet(Area!Settled)
    <3>1. IsFiniteSet(hot)
      BY AreaTyped
    <3> QED  BY <1>1, <3>1, MentionsRest DEF Resting
  <2>2. Area!Mentions(Resting, i) \in Nat /\ Area!Mentions(Area!Settled, i) \in Nat
    BY <1>2, <2>1, MentionsCount
  <2> QED  BY <2>1, <2>2
<1>4. \A i \in DOMAIN object :
         /\ f[i].ref = Area!Mentions(Resting, i) + (IF "drop" \in object[i].mode THEN 0 ELSE 1)
         /\ f[i].ref \in Nat
         /\ f[i] \in Area!ObjectRecord
         /\ f[i].version = object[i].version
         /\ f[i].mode = object[i].mode
         /\ f[i].last = object[i].last
         /\ f[i].position = object[i].position
  <2> TAKE i \in DOMAIN object
  <2>1. object[i] \in Area!ObjectRecord
    BY AreaTyped
  <2>2. /\ f[i].ref = object[i].ref - Area!Mentions(Area!Settled, i)
        /\ f[i].version = object[i].version
        /\ f[i].mode = object[i].mode
        /\ f[i].last = object[i].last
        /\ f[i].position = object[i].position
    BY <2>1 DEF Area!ObjectRecord
  <2>3. f[i].ref = Area!Mentions(Resting, i) + (IF "drop" \in object[i].mode THEN 0 ELSE 1)
    <3>1. object[i].ref = Area!Mentions(hot, i) + (IF "drop" \in object[i].mode THEN 0 ELSE 1)
      BY AreaTyped
    <3> HIDE DEF f
    <3> QED  BY <1>3, <2>2, <3>1
  <2>4. f[i].ref \in Nat
    BY <1>3, <2>3
  <2>5. f[i] \in Area!ObjectRecord
    BY <2>1, <2>2, <2>4 DEF Area!ObjectRecord
  <2> QED  BY <2>2, <2>3, <2>4, <2>5
<1>5. /\ DOMAIN Outlived = {i \in DOMAIN object : f[i].ref > 0}
      /\ \A i \in DOMAIN Outlived : Outlived[i] = f[i]
  BY DEF Outlived, Area!Release
<1> HIDE DEF f
<1>6. \A p \in Resting : {p.watcher, p.marker} \subseteq DOMAIN Outlived
  <2> TAKE p \in Resting
  <2>1. Area!Mentions(Resting, p.watcher) > 0 /\ Area!Mentions(Resting, p.marker) > 0
    BY <1>2, MentionsCount
  <2>2. p.watcher \in DOMAIN object /\ p.marker \in DOMAIN object
    BY <1>1, AreaTyped
  <2> QED  BY <1>3, <1>4, <1>5, <2>1, <2>2
<1>7. \A i \in DOMAIN object : "drop" \notin object[i].mode => i \in DOMAIN Outlived
  BY <1>3, <1>4, <1>5
<1> QED  BY <1>2, <1>4, <1>5, <1>6, <1>7

\* The pairs to look at again are of objects with a role, at their versions, and
\* none of them was there before, because one of the two moved.
LEMMA KeptPairs ==
    ASSUME Area!IInv
    PROVE  /\ IsFiniteSet(Kept)
           /\ \A p \in Kept :
                 /\ p \in Area!PairRecord
                 /\ p.watcher \in DOMAIN Outlived /\ p.marker \in DOMAIN Outlived
                 /\ "watcher" \in object[p.watcher].mode /\ "marker" \in object[p.marker].mode
                 /\ p.watcher_version = object[p.watcher].version
                 /\ p.marker_version = object[p.marker].version
           /\ Kept \cap Resting = {}
<1>1. \A p \in Candidates :
         /\ p.watcher \in DOMAIN Outlived /\ p.marker \in DOMAIN Outlived
         /\ "watcher" \in Outlived[p.watcher].mode /\ "marker" \in Outlived[p.marker].mode
         /\ "move" \in Outlived[p.watcher].mode \cup Outlived[p.marker].mode
  BY DEF Candidates, Area!Compared
<1>2. \A i \in DOMAIN Outlived :
         /\ i \in DOMAIN object /\ i \in Walker
         /\ Outlived[i].version = object[i].version /\ Outlived[i].version \in Nat
         /\ Outlived[i].mode = object[i].mode
  BY Outlives, AreaTyped DEF Area!ObjectRecord
<1>3. \A p \in Kept :
         /\ p = [watcher |-> p.watcher, marker |-> p.marker,
                 watcher_version |-> Outlived[p.watcher].version,
                 marker_version |-> Outlived[p.marker].version]
         /\ p.watcher \in DOMAIN Outlived /\ p.marker \in DOMAIN Outlived
         /\ "watcher" \in Outlived[p.watcher].mode /\ "marker" \in Outlived[p.marker].mode
         /\ "move" \in Outlived[p.watcher].mode \cup Outlived[p.marker].mode
  <2> TAKE p \in Kept
  <2>1. PICK c \in Candidates :
           p = [watcher |-> c.watcher, marker |-> c.marker,
                watcher_version |-> Outlived[c.watcher].version,
                marker_version |-> Outlived[c.marker].version]
    BY DEF Kept
  <2>2. p.watcher = c.watcher /\ p.marker = c.marker
    BY <2>1
  <2> QED  BY <1>1, <2>1, <2>2
<1>4. \A p \in Kept :
         /\ p.watcher_version = object[p.watcher].version
         /\ p.marker_version = object[p.marker].version
         /\ p \in Area!PairRecord
  <2> TAKE p \in Kept
  <2>1. /\ p.watcher_version = Outlived[p.watcher].version
        /\ p.marker_version = Outlived[p.marker].version
    BY <1>3
  <2>2. p \in Area!PairRecord
    BY <1>2, <1>3 DEF Area!PairRecord
  <2> QED  BY <1>2, <1>3, <2>1, <2>2
<1>5. IsFiniteSet(Kept)
  <2> DEFINE g == [p \in Kept |-> <<p.watcher, p.marker>>]
  <2>1. g \in [Kept -> Walker \X Walker]
    BY <1>2, <1>3
  <2>2. ASSUME NEW p \in Kept, NEW q \in Kept, g[p] = g[q]
        PROVE  p = q
    <3>1. p.watcher = q.watcher /\ p.marker = q.marker
      BY <2>2
    <3> QED  BY <1>3, <3>1
  <2>3. g \in Injection(Kept, Walker \X Walker)
    BY <2>1, <2>2 DEF Injection, IsInjective
  <2>4. IsFiniteSet(Walker \X Walker)
    BY FiniteArea, FS_Product
  <2> HIDE DEF g
  <2> QED  BY <2>3, <2>4, FS_Injection
<1>6. Kept \cap Resting = {}
  <2> SUFFICES ASSUME NEW p \in Kept, p \in hot
               PROVE  FALSE
    BY DEF Resting
  <2>1. Area!Known(p.watcher, p.watcher_version) /\ Area!Known(p.marker, p.marker_version)
    BY AreaTyped
  <2>2. "move" \in object[p.watcher].mode \/ "move" \in object[p.marker].mode
    BY <1>2, <1>3
  <2>3. object[p.watcher].version \in Nat /\ object[p.marker].version \in Nat
    BY <1>2, <1>3
  <2> QED  BY <1>4, <2>1, <2>2, <2>3 DEF Area!Known
<1> QED  BY <1>2, <1>3, <1>4, <1>5, <1>6

LEMMA MessageObjects ==
    ASSUME Area!IInv, Area!aoi_message
    PROVE  /\ DOMAIN object' = DOMAIN Outlived
           /\ DOMAIN object' \subseteq DOMAIN object
           /\ object' \in [DOMAIN object' -> Area!ObjectRecord]
           /\ \A i \in DOMAIN object' :
                 /\ object'[i].ref = Outlived[i].ref + Area!Mentions(Kept, i)
                 /\ object'[i].version = object[i].version
                 /\ object'[i].last = object[i].last
                 /\ object'[i].position = object[i].position
                 /\ object'[i].mode = IF object[i].mode \cap {"watcher", "marker"} # {}
                                      THEN object[i].mode \ {"move"} ELSE object[i].mode
<1>1. object' = [i \in DOMAIN Outlived |->
                   [Outlived[i] EXCEPT
                      !.ref = @ + Area!Mentions(Kept, i),
                      !.mode = IF @ \cap {"watcher", "marker"} # {} THEN @ \ {"move"} ELSE @]]
  BY AfterMessage
<1>2. DOMAIN object' = DOMAIN Outlived /\ DOMAIN object' \subseteq DOMAIN object
  BY <1>1, Outlives
<1>3. ASSUME NEW i \in DOMAIN object'
      PROVE  /\ object'[i].ref = Outlived[i].ref + Area!Mentions(Kept, i)
             /\ object'[i].version = object[i].version
             /\ object'[i].last = object[i].last
             /\ object'[i].position = object[i].position
             /\ object'[i].mode = IF object[i].mode \cap {"watcher", "marker"} # {}
                                  THEN object[i].mode \ {"move"} ELSE object[i].mode
             /\ object'[i] \in Area!ObjectRecord
  <2>1. /\ i \in DOMAIN Outlived
        /\ Outlived[i] \in Area!ObjectRecord
        /\ Outlived[i].version = object[i].version
        /\ Outlived[i].mode = object[i].mode
        /\ Outlived[i].last = object[i].last
        /\ Outlived[i].position = object[i].position
    BY <1>2, Outlives
  <2>2. object'[i] = [Outlived[i] EXCEPT
                        !.ref = Outlived[i].ref + Area!Mentions(Kept, i),
                        !.mode = IF Outlived[i].mode \cap {"watcher", "marker"} # {}
                                 THEN Outlived[i].mode \ {"move"} ELSE Outlived[i].mode]
    BY <1>1, <2>1
  <2>3. PICK o \in Area!ObjectRecord : o = Outlived[i]
    BY <2>1
  <2>4. PICK k \in Nat : k = Area!Mentions(Kept, i)
    BY KeptPairs, MentionsCount
  <2>5. object'[i] = [o EXCEPT !.ref = o.ref + k,
                               !.mode = IF o.mode \cap {"watcher", "marker"} # {}
                                        THEN o.mode \ {"move"} ELSE o.mode]
    BY <2>2, <2>3, <2>4, Zenon
  <2>6. /\ object'[i].ref = o.ref + k
        /\ object'[i].version = o.version
        /\ object'[i].last = o.last
        /\ object'[i].position = o.position
        /\ object'[i].mode = IF o.mode \cap {"watcher", "marker"} # {}
                             THEN o.mode \ {"move"} ELSE o.mode
        /\ object'[i] \in Area!ObjectRecord
    <3> DEFINE r == o.ref + k
               d == IF o.mode \cap {"watcher", "marker"} # {} THEN o.mode \ {"move"} ELSE o.mode
    <3>1. r \in Nat /\ d \in SUBSET {"watcher", "marker", "move", "drop"}
      BY DEF Area!ObjectRecord
    <3>2. object'[i] = [o EXCEPT !.ref = r, !.mode = d]
      BY <2>5
    <3> HIDE DEF r, d
    <3>3. /\ object'[i].ref = r /\ object'[i].version = o.version
          /\ object'[i].last = o.last /\ object'[i].position = o.position
          /\ object'[i].mode = d /\ object'[i] \in Area!ObjectRecord
      BY <3>1, <3>2 DEF Area!ObjectRecord
    <3> QED  BY <3>3 DEF r, d
  <2> QED  BY <2>1, <2>3, <2>4, <2>6, Zenon
<1>4. object' \in [DOMAIN object' -> Area!ObjectRecord]
  BY <1>1, <1>3
<1> QED  BY <1>2, <1>3, <1>4, Zenon

\* After a message, two objects with a role are told of each other, are looked at
\* again or were given up; and the ones within the radius are not looked at again.
LEMMA Looked ==
    ASSUME Area!IInv, Area!aoi_message, NEW w \in DOMAIN object', NEW m \in DOMAIN object', w # m,
           "watcher" \in object'[w].mode, "marker" \in object'[m].mode
    PROVE  /\ \/ <<w, m>> \in told' \cup adrift'
              \/ [watcher |-> w, marker |-> m, watcher_version |-> object[w].version,
                  marker_version |-> object[m].version] \in hot'
              \/ Area!Beyond(Area!Square(object[w].last, object[m].last))
           /\ Area!Within(Area!Square(object[w].position, object[m].position))
              => <<w, m>> \in told' \cup adrift'
<1>1. /\ w \in DOMAIN Outlived /\ m \in DOMAIN Outlived
      /\ w \in DOMAIN object /\ m \in DOMAIN object
      /\ "watcher" \in object[w].mode /\ "marker" \in object[m].mode
  BY MessageObjects
<1>2. \A i \in {w, m} : /\ object[i].position \in Place /\ object[i].last \in Place
                        /\ Area!Away(object[i]) => Area!Near(object[i].position, object[i].last)
                        /\ "drop" \notin object[i].mode
  <2>1. \A i \in DOMAIN object :
           /\ object[i].position \in Place /\ object[i].last \in Place
           /\ Area!Away(object[i]) => Area!Near(object[i].position, object[i].last)
           /\ "drop" \in object[i].mode => object[i].mode = {"drop"}
    BY AreaTyped DEF Area!IInv, Area!ObjectRecord
  <2> QED  BY <1>1, <2>1
<1>3. /\ Outlived[w].version = object[w].version /\ Outlived[m].version = object[m].version
      /\ Outlived[w].mode = object[w].mode /\ Outlived[m].mode = object[m].mode
      /\ Outlived[w].position = object[w].position /\ Outlived[m].position = object[m].position
      /\ Outlived[w].last = object[w].last /\ Outlived[m].last = object[m].last
  BY <1>1, Outlives
<1> DEFINE apart == Area!Square(object[w].position, object[m].position)
<1>4. \/ Area!Away(object[w]) \/ Area!Away(object[m])
      \/ apart = Area!Square(object[w].last, object[m].last)
  BY DEF Area!Away
<1>5. apart \in Int /\ ~(Area!Within(apart) /\ Area!Beyond(apart))
  <2>1. apart \in Int /\ apart >= 0
    <3>1. object[w].position \in Int /\ object[m].position \in Int
      BY <1>2, FiniteArea
    <3>2. \A u, v \in Int : (u - v) * (u - v) \in Int /\ (u - v) * (u - v) >= 0
      <4>1. \A x \in Int : x * x \in Int /\ x * x >= 0
        OBVIOUS
      <4>2. \A u, v \in Int : u - v \in Int
        OBVIOUS
      <4> QED  BY <4>1, <4>2
    <3>3. \A u, v \in Int : Area!Square(u, v) \in Int /\ Area!Square(u, v) >= 0
      BY <3>2 DEF Area!Square
    <3> QED  BY <3>1, <3>3
  <2>2. Radius * Radius <= 4 * Radius * Radius /\ Radius * Radius \in Int
        /\ 4 * Radius * Radius \in Int
    <3>1. \A r \in Nat : r * r <= 4 * r * r /\ r * r \in Int /\ 4 * r * r \in Int
      OBVIOUS
    <3> QED  BY <3>1, FiniteArea
  <2> HIDE DEF apart
  <2> QED  BY <2>1, <2>2 DEF Area!Within, Area!Beyond
<1>6. CASE "move" \in object[w].mode \cup object[m].mode
  <2> DEFINE p == [watcher |-> w, marker |-> m]
  <2>1. p \in Candidates
    BY <1>1, <1>3, <1>6 DEF Candidates, Area!Compared
  <2>2. Area!Distance2(Outlived, p) = apart
    BY <1>3 DEF Area!Distance2
  <2>3. CASE Area!Within(apart)
    <3>1. p \in Met
      BY <2>1, <2>2, <2>3 DEF Met
    <3>2. <<w, m>> \in Names(Met)
      BY <3>1 DEF Names
    <3> QED  BY <3>2, AfterMessage
  <2>4. CASE Area!Beyond(apart)
    <3>1. p \in Parted
      BY <2>1, <2>2, <2>4 DEF Parted
    <3>2. CASE Area!Away(object[w]) \/ Area!Away(object[m])
      <4>1. Area!Away(Outlived[p.watcher]) \/ Area!Away(Outlived[p.marker])
        BY <1>3, <3>2 DEF Area!Away
      <4>2. <<w, m>> \in Names({c \in Parted : \/ Area!Away(Outlived[c.watcher])
                                               \/ Area!Away(Outlived[c.marker])})
        BY <3>1, <4>1 DEF Names
      <4> QED  BY <4>2, AfterMessage
    <3>3. CASE apart = Area!Square(object[w].last, object[m].last)
      BY <2>4, <3>3, <1>5
    <3> QED  BY <1>4, <3>2, <3>3
  <2>5. CASE ~Area!Within(apart) /\ ~Area!Beyond(apart)
    <3>1. p \in Candidates \ (Met \cup Parted)
      BY <2>1, <2>2, <2>5 DEF Met, Parted
    <3>2. [watcher |-> p.watcher, marker |-> p.marker,
           watcher_version |-> Outlived[p.watcher].version,
           marker_version |-> Outlived[p.marker].version] \in Kept
      BY <3>1 DEF Kept
    <3>3. [watcher |-> w, marker |-> m, watcher_version |-> object[w].version,
           marker_version |-> object[m].version] \in Kept
      BY <1>3, <3>2
    <3> QED  BY <2>5, <3>3, AfterMessage
  <2> QED  BY <2>3, <2>4, <2>5
<1>7. CASE "move" \notin object[w].mode \cup object[m].mode
  <2>1. Area!Accounted(w, m)
    BY <1>1, <1>7 DEF Area!IInv
  <2>2. CASE <<w, m>> \in told \cup adrift
    BY <2>2, AfterMessage
  <2>3. CASE [watcher |-> w, marker |-> m, watcher_version |-> object[w].version,
              marker_version |-> object[m].version] \in hot
    <3> DEFINE p == [watcher |-> w, marker |-> m, watcher_version |-> object[w].version,
                     marker_version |-> object[m].version]
    <3>1. p \in hot /\ ~Area!Stale(p) /\ Area!Distance2(object, p) = apart
      BY <1>2, <2>3 DEF Area!Stale, Area!Distance2
    <3>2. CASE Area!Within(apart)
      <4>1. p \in Area!Arrived
        BY <3>1, <3>2 DEF Area!Arrived
      <4>2. <<w, m>> \in Names(Area!Arrived)
        BY <4>1 DEF Names
      <4> QED  BY <4>2, AfterMessage
    <3>3. CASE Area!Beyond(apart)
      <4>1. p \in GivenUp
        BY <3>1, <3>3 DEF GivenUp
      <4>2. CASE Area!Away(object[w]) \/ Area!Away(object[m])
        <5>1. <<w, m>> \in Names({c \in GivenUp : \/ Area!Away(object[c.watcher])
                                               \/ Area!Away(object[c.marker])})
          BY <4>1, <4>2 DEF Names
        <5> QED  BY <5>1, AfterMessage
      <4>3. CASE apart = Area!Square(object[w].last, object[m].last)
        BY <3>3, <4>3, <1>5
      <4> QED  BY <1>4, <4>2, <4>3
    <3>4. CASE ~Area!Within(apart) /\ ~Area!Beyond(apart)
      <4>1. p \in Resting
        BY <3>1, <3>4 DEF Resting, Area!Settled
      <4> QED  BY <3>4, <4>1, AfterMessage
    <3> QED  BY <3>2, <3>3, <3>4
  <2>4. CASE Area!Beyond(Area!Square(object[w].last, object[m].last))
    <3>1. ~Area!Within(apart)
      BY <1>2, <2>4, NearStays DEF Area!Away
    <3> QED  BY <2>4, <3>1
  <2> QED  BY <2>1, <2>2, <2>3, <2>4 DEF Area!Accounted
<1> QED  BY <1>6, <1>7

LEMMA MessageTells ==
    ASSUME Area!IInv
    PROVE  Area!NeighboursTold
<1> SUFFICES ASSUME Area!aoi_message, NEW w \in DOMAIN object', NEW m \in DOMAIN object', w # m,
                    "watcher" \in object'[w].mode, "marker" \in object'[m].mode,
                    Area!Within(Area!Square(object'[w].position, object'[m].position))
             PROVE  <<w, m>> \in told' \cup adrift'
  BY DEF Area!NeighboursTold
<1>1. Area!Within(Area!Square(object[w].position, object[m].position))
  BY MessageObjects
<1> QED  BY <1>1, Looked

LEMMA MessageKeeps ==
    ASSUME Area!IInv, Area!aoi_message
    PROVE  Area!IInv'
<1>1. hot' = Resting \cup Kept /\ Resting \subseteq hot
  BY AfterMessage DEF Resting
<1>2. /\ IsFiniteSet(Resting) /\ IsFiniteSet(Kept) /\ Resting \cap Kept = {}
      /\ IsFiniteSet(hot')
  BY <1>1, Outlives, KeptPairs, FS_Union
<1>3. hot' \subseteq Area!PairRecord
  BY <1>1, AreaTyped, KeptPairs
<1>4. \A p \in hot' : p.watcher \in DOMAIN object' /\ p.marker \in DOMAIN object'
  BY <1>1, Outlives, KeptPairs, MessageObjects
<1>5. ASSUME NEW i \in DOMAIN object'
      PROVE  /\ object'[i].ref = Area!Mentions(hot', i)
                                 + (IF "drop" \in object'[i].mode THEN 0 ELSE 1)
             /\ object'[i].ref > 0
  <2>1. Area!Mentions(hot', i) = Area!Mentions(Resting, i) + Area!Mentions(Kept, i)
    BY <1>1, <1>2, MentionsAdd
  <2>2. /\ Outlived[i].ref = Area!Mentions(Resting, i)
                             + (IF "drop" \in object[i].mode THEN 0 ELSE 1)
        /\ Outlived[i].ref > 0
    BY Outlives, MessageObjects
  <2>3. /\ object'[i].ref = Outlived[i].ref + Area!Mentions(Kept, i)
        /\ "drop" \in object[i].mode <=> "drop" \in object'[i].mode
    BY MessageObjects
  <2>4. Area!Mentions(Resting, i) \in Nat /\ Area!Mentions(Kept, i) \in Nat
    BY <1>2, MentionsCount
  <2>5. PICK d \in {0, 1} : d = IF "drop" \in object[i].mode THEN 0 ELSE 1
    OBVIOUS
  <2>6. d = IF "drop" \in object'[i].mode THEN 0 ELSE 1
    BY <2>3, <2>5
  <2>7. Outlived[i].ref = Area!Mentions(Resting, i) + d
    BY <2>2, <2>5
  <2>8. /\ object'[i].ref = Area!Mentions(hot', i) + d
        /\ object'[i].ref > 0
    BY <2>1, <2>2, <2>3, <2>4, <2>7
  <2> QED  BY <2>6, <2>8
<1>6. \A p \in hot' : /\ Area!Known(p.watcher, p.watcher_version)'
                      /\ Area!Known(p.marker, p.marker_version)'
  <2>1. \A i \in DOMAIN object' :
           /\ object'[i].version = object[i].version
           /\ "move" \in object'[i].mode => "move" \in object[i].mode
           /\ object[i].mode \cap {"watcher", "marker"} # {} => "move" \notin object'[i].mode
           /\ object[i].version \in Nat
    BY MessageObjects, AreaTyped DEF Area!ObjectRecord
  <2>2. ASSUME NEW p \in Resting
        PROVE  /\ Area!Known(p.watcher, p.watcher_version)'
               /\ Area!Known(p.marker, p.marker_version)'
    BY <1>1, <1>4, <2>1, AreaTyped DEF Area!Known
  <2>3. ASSUME NEW p \in Kept
        PROVE  /\ Area!Known(p.watcher, p.watcher_version)'
               /\ Area!Known(p.marker, p.marker_version)'
    BY <1>1, <1>4, <2>1, KeptPairs DEF Area!Known
  <2> QED  BY <1>1, <2>2, <2>3
<1>7. \A i \in DOMAIN object' :
         /\ "drop" \in object'[i].mode => object'[i].mode = {"drop"}
         /\ Area!Away(object'[i]) => Area!Near(object'[i].position, object'[i].last)
  <2> TAKE i \in DOMAIN object'
  <2>1. /\ i \in DOMAIN object
        /\ object'[i].last = object[i].last /\ object'[i].position = object[i].position
        /\ "drop" \in object'[i].mode => "drop" \in object[i].mode
        /\ object[i].mode = {"drop"} => object'[i].mode = object[i].mode
    BY MessageObjects
  <2>2. /\ "drop" \in object[i].mode => object[i].mode = {"drop"}
        /\ Area!Away(object[i]) => Area!Near(object[i].position, object[i].last)
    BY <2>1 DEF Area!IInv
  <2> QED  BY <2>1, <2>2 DEF Area!Away
<1>8. ASSUME NEW w \in DOMAIN object', NEW m \in DOMAIN object', w # m,
             "watcher" \in object'[w].mode, "marker" \in object'[m].mode
      PROVE  Area!Accounted(w, m)'
  <2>1. /\ object'[w].version = object[w].version /\ object'[m].version = object[m].version
        /\ object'[w].last = object[w].last /\ object'[m].last = object[m].last
    BY MessageObjects
  <2> QED  BY <1>8, <2>1, Looked DEF Area!Accounted
<1>9. /\ DOMAIN object' \subseteq Walker
      /\ object' \in [DOMAIN object' -> Area!ObjectRecord]
      /\ Area!IsFiniteSet(hot)'
  <2>1. \A S : Area!IsFiniteSet(S) <=> IsFiniteSet(S)
    BY AreaCounts
  <2> QED  BY <1>2, <2>1, AreaTyped, MessageObjects
<1> QED  BY <1>3, <1>4, <1>5, <1>6, <1>7, <1>8, <1>9 DEF Area!IInv, Area!RefsExact

\* The object that aoi_update changes, and what it makes of it.
LEMMA Moved ==
    ASSUME Area!IInv, NEW id \in Walker, NEW set \in Area!Modes, NEW pos \in Place,
           Area!aoi_update(id, set, pos)
    PROVE  \E o \in Area!ObjectRecord, flagged \in BOOLEAN :
              /\ id \in DOMAIN object => o = object[id]
              /\ o.version = 0 \/ id \in DOMAIN object
              /\ id \notin DOMAIN object => flagged
              /\ ~flagged => /\ "drop" \notin o.mode
                             /\ o.mode \ {"move"} = set
                             /\ Area!Near(pos, o.last)
              /\ object'[id] = [ref |-> Area!Mentions(hot, id) + 1,
                                version |-> IF flagged THEN o.version + 1 ELSE o.version,
                                mode |-> IF flagged THEN set \cup {"move"} ELSE o.mode,
                                last |-> IF flagged THEN pos ELSE o.last,
                                position |-> pos]
              /\ told' = IF flagged THEN Area!Forget(told, id) ELSE told
              /\ adrift' = IF flagged THEN Area!Forget(adrift, id) ELSE adrift
              /\ DOMAIN object' = DOMAIN object \cup {id}
              /\ \A i \in DOMAIN object : i # id => object'[i] = object[i]
              /\ object' \in [DOMAIN object' -> Area!ObjectRecord]
              /\ hot' = hot
<1> DEFINE os == Area!Query(id, pos)
           o == os[id]
           mode == o.mode \ {"drop"}
           flagged == mode = {} \/ mode \ {"move"} # set \/ ~Area!Near(pos, o.last)
           new == [ref |-> Area!Grabbed(o),
                   version |-> IF flagged THEN o.version + 1 ELSE o.version,
                   mode |-> set \cup (IF flagged THEN {"move"} ELSE mode \cap {"move"}),
                   last |-> IF flagged THEN pos ELSE o.last,
                   position |-> pos]
<1>1. /\ object' = [os EXCEPT ![id] = new]
      /\ told' = IF flagged THEN Area!Forget(told, id) ELSE told
      /\ adrift' = IF flagged THEN Area!Forget(adrift, id) ELSE adrift
      /\ hot' = hot
  BY Zenon DEF Area!aoi_update
<1>2. /\ DOMAIN os = DOMAIN object \cup {id}
      /\ \A i \in DOMAIN object : os[i] = object[i]
      /\ id \notin DOMAIN object =>
            o = [ref |-> 1, version |-> 0, mode |-> {}, last |-> pos, position |-> pos]
  BY DEF Area!Query
<1>3. \A i \in DOMAIN object : os[i] \in Area!ObjectRecord
  BY <1>2, AreaTyped
<1>4. o \in Area!ObjectRecord
  <2>1. CASE id \in DOMAIN object
    BY <1>3, <2>1
  <2>2. CASE id \notin DOMAIN object
    <3>1. o = [ref |-> 1, version |-> 0, mode |-> {}, last |-> pos, position |-> pos]
      BY <1>2, <2>2
    <3> HIDE DEF os
    <3> QED  BY <3>1 DEF Area!ObjectRecord
  <2> QED  BY <2>1, <2>2
<1> HIDE DEF os
<1>5. /\ id \notin DOMAIN object => flagged /\ o.version = 0
      /\ ~flagged => /\ "drop" \notin o.mode
                     /\ o.mode \ {"move"} = set
                     /\ Area!Near(pos, o.last)
  <2>1. id \notin DOMAIN object => o.mode = {} /\ o.version = 0
    BY <1>2
  <2>2. id \in DOMAIN object /\ "drop" \in o.mode => o.mode = {"drop"}
    BY <1>2 DEF Area!IInv
  <2> QED  BY <2>1, <2>2
<1>6. Area!Grabbed(o) = Area!Mentions(hot, id) + 1 /\ Area!Mentions(hot, id) \in Nat
  <2>1. Area!Mentions(hot, id) \in Nat
    BY AreaTyped, MentionsCount
  <2>2. CASE id \in DOMAIN object
    <3>1. o = object[id]
      BY <1>2, <2>2
    <3>2. object[id].ref = Area!Mentions(hot, id) + (IF "drop" \in object[id].mode THEN 0 ELSE 1)
      BY <2>2, AreaTyped
    <3> QED  BY <2>1, <3>1, <3>2 DEF Area!Grabbed
  <2>3. CASE id \notin DOMAIN object
    <3>1. o.ref = 1 /\ o.mode = {}
      BY <1>2, <2>3
    <3>2. IsFiniteSet(hot) /\ \A p \in hot : id \notin {p.watcher, p.marker}
      BY <2>3, AreaTyped
    <3>3. Area!Mentions(hot, id) = 0
      BY <3>2, MentionsCount
    <3> QED  BY <3>1, <3>3 DEF Area!Grabbed
  <2> QED  BY <2>1, <2>2, <2>3
<1>7. /\ o.version \in Nat /\ o.last \in Place
      /\ o.mode \subseteq {"watcher", "marker", "move", "drop"}
  BY <1>4 DEF Area!ObjectRecord
<1>8. set \cup (IF flagged THEN {"move"} ELSE mode \cap {"move"})
        = IF flagged THEN set \cup {"move"} ELSE o.mode
  BY <1>5
<1>9. new = [ref |-> Area!Mentions(hot, id) + 1,
             version |-> IF flagged THEN o.version + 1 ELSE o.version,
             mode |-> IF flagged THEN set \cup {"move"} ELSE o.mode,
             last |-> IF flagged THEN pos ELSE o.last,
             position |-> pos]
  BY <1>6, <1>8, Zenon
<1>10. new \in Area!ObjectRecord
  <2>1. (IF flagged THEN set \cup {"move"} ELSE o.mode)
          \in SUBSET {"watcher", "marker", "move", "drop"}
    BY <1>7 DEF Area!Modes
  <2>2. (IF flagged THEN o.version + 1 ELSE o.version) \in Nat
    BY <1>7
  <2>3. (IF flagged THEN pos ELSE o.last) \in Place
    BY <1>7
  <2>4. Area!Mentions(hot, id) + 1 \in Nat
    BY <1>6
  <2> HIDE DEF flagged, new, o
  <2> QED  BY <1>9, <2>1, <2>2, <2>3, <2>4 DEF Area!ObjectRecord
<1> HIDE DEF new
<1>11. /\ DOMAIN object' = DOMAIN object \cup {id}
       /\ object'[id] = new
       /\ \A i \in DOMAIN object : i # id => object'[i] = object[i]
       /\ object' \in [DOMAIN object' -> Area!ObjectRecord]
  <2>1. DOMAIN object' = DOMAIN object \cup {id} /\ object'[id] = new
        /\ \A i \in DOMAIN object : i # id => object'[i] = object[i]
    BY <1>1, <1>2
  <2>2. \A i \in DOMAIN object' : object'[i] \in Area!ObjectRecord
    BY <1>2, <1>3, <1>10, <2>1
  <2>3. object' = [i \in DOMAIN object' |-> object'[i]]
    BY <1>1
  <2> QED  BY <2>1, <2>2, <2>3
<1>12. id \in DOMAIN object => o = object[id]
  BY <1>2
<1>13. PICK oo, ff : oo = o /\ ff = flagged
  OBVIOUS
<1>14. oo \in Area!ObjectRecord /\ ff \in BOOLEAN
  BY <1>4, <1>13
<1> HIDE DEF o, flagged
<1> QED  BY <1>1, <1>5, <1>9, <1>11, <1>12, <1>13, <1>14, Zenon

LEMMA MovedKeeps ==
    ASSUME Area!IInv, NEW id \in Walker, NEW set \in Area!Modes, NEW pos \in Place,
           Area!aoi_update(id, set, pos)
    PROVE  Area!IInv'
<1>1. PICK o \in Area!ObjectRecord, flagged \in BOOLEAN :
         /\ id \in DOMAIN object => o = object[id]
         /\ o.version = 0 \/ id \in DOMAIN object
         /\ id \notin DOMAIN object => flagged
         /\ ~flagged => /\ "drop" \notin o.mode
                        /\ o.mode \ {"move"} = set
                        /\ Area!Near(pos, o.last)
         /\ object'[id] = [ref |-> Area!Mentions(hot, id) + 1,
                           version |-> IF flagged THEN o.version + 1 ELSE o.version,
                           mode |-> IF flagged THEN set \cup {"move"} ELSE o.mode,
                           last |-> IF flagged THEN pos ELSE o.last,
                           position |-> pos]
         /\ told' = IF flagged THEN Area!Forget(told, id) ELSE told
         /\ adrift' = IF flagged THEN Area!Forget(adrift, id) ELSE adrift
         /\ DOMAIN object' = DOMAIN object \cup {id}
         /\ \A i \in DOMAIN object : i # id => object'[i] = object[i]
         /\ object' \in [DOMAIN object' -> Area!ObjectRecord]
         /\ hot' = hot
  BY Moved
<1>2. /\ object'[id].ref = Area!Mentions(hot, id) + 1
      /\ object'[id].version = IF flagged THEN o.version + 1 ELSE o.version
      /\ object'[id].mode = IF flagged THEN set \cup {"move"} ELSE o.mode
      /\ object'[id].last = IF flagged THEN pos ELSE o.last
      /\ object'[id].position = pos
  BY <1>1
<1>3. o.version \in Nat /\ "drop" \notin set
  BY DEF Area!ObjectRecord, Area!Modes
<1>4. "drop" \notin object'[id].mode
  BY <1>1, <1>2, <1>3
<1>5. \A i \in DOMAIN object' :
         /\ object'[i].ref = Area!Mentions(hot', i) + (IF "drop" \in object'[i].mode THEN 0 ELSE 1)
         /\ object'[i].ref > 0
  <2>1. Area!Mentions(hot, id) \in Nat
    BY AreaTyped, MentionsCount
  <2>2. /\ object'[id].ref = Area!Mentions(hot', id)
                             + (IF "drop" \in object'[id].mode THEN 0 ELSE 1)
        /\ object'[id].ref > 0
    BY <1>1, <1>2, <1>4, <2>1
  <2> QED  BY <1>1, <2>2, AreaTyped
<1>6. \A p \in hot' :
         /\ p.watcher \in DOMAIN object' /\ p.marker \in DOMAIN object'
         /\ Area!Known(p.watcher, p.watcher_version)'
         /\ Area!Known(p.marker, p.marker_version)'
  <2>1. \A v \in Nat, i \in DOMAIN object :
           Area!Known(i, v) => i \in DOMAIN object' /\ Area!Known(i, v)'
    <3> TAKE v \in Nat, i \in DOMAIN object
    <3> HAVE Area!Known(i, v)
    <3>1. CASE i # id
      BY <1>1, <3>1 DEF Area!Known
    <3>2. CASE i = id /\ flagged
      BY <1>1, <1>2, <1>3, <3>2 DEF Area!Known
    <3>3. CASE i = id /\ ~flagged
      BY <1>1, <1>2, <1>3, <3>3 DEF Area!Known
    <3> QED  BY <3>1, <3>2, <3>3
  <2>2. \A p \in hot : p.watcher_version \in Nat /\ p.marker_version \in Nat
    BY AreaTyped DEF Area!PairRecord
  <2> QED  BY <1>1, <2>1, <2>2, AreaTyped
<1>7. \A i \in DOMAIN object' :
         /\ "drop" \in object'[i].mode => object'[i].mode = {"drop"}
         /\ Area!Away(object'[i]) => Area!Near(object'[i].position, object'[i].last)
  <2>1. Area!Away(object'[id]) => Area!Near(object'[id].position, object'[id].last)
    BY <1>1, <1>2 DEF Area!Away
  <2>2. \A i \in DOMAIN object :
           /\ "drop" \in object[i].mode => object[i].mode = {"drop"}
           /\ Area!Away(object[i]) => Area!Near(object[i].position, object[i].last)
    BY DEF Area!IInv
  <2> QED  BY <1>1, <1>4, <2>1, <2>2
<1>8. ASSUME NEW w \in DOMAIN object', NEW m \in DOMAIN object', w # m,
             "watcher" \in object'[w].mode, "marker" \in object'[m].mode,
             "move" \notin object'[w].mode \cup object'[m].mode
      PROVE  Area!Accounted(w, m)'
  <2>1. id \in {w, m} => ~flagged
    BY <1>2, <1>8
  <2>2. w \in DOMAIN object /\ m \in DOMAIN object
    BY <1>1, <2>1
  <2>3. \A i \in {w, m} : /\ object'[i].mode = object[i].mode
                          /\ object'[i].version = object[i].version
                          /\ object'[i].last = object[i].last
    BY <1>1, <1>2, <2>1, <2>2
  <2>4. Area!Accounted(w, m)
    BY <1>8, <2>2, <2>3 DEF Area!IInv
  <2>5. <<w, m>> \in told \cup adrift => <<w, m>> \in told' \cup adrift'
    BY <1>1, <2>1 DEF Area!Forget
  <2> QED  BY <1>1, <2>3, <2>4, <2>5 DEF Area!Accounted
<1>9. /\ DOMAIN object' \subseteq Walker
      /\ hot' \subseteq Area!PairRecord
      /\ Area!IsFiniteSet(hot)'
  BY <1>1, AreaTyped, AreaCounts
<1> QED  BY <1>1, <1>5, <1>6, <1>7, <1>8, <1>9 DEF Area!IInv, Area!RefsExact

\* A drop takes the reference of the map, and the object when it was the last.
LEMMA DropKeeps ==
    ASSUME Area!IInv, NEW id \in Walker, Area!Drop(id)
    PROVE  Area!IInv'
<1> DEFINE f == [object EXCEPT ![id].mode = {"drop"}, ![id].ref = @ - 1]
<1>1. /\ id \in DOMAIN object /\ "drop" \notin object[id].mode
      /\ object' = Area!Release(f)
      /\ told' = Area!Forget(told, id) /\ adrift' = Area!Forget(adrift, id)
      /\ hot' = hot
  BY DEF Area!Drop
<1>2. /\ object[id] \in Area!ObjectRecord
      /\ object[id].ref = Area!Mentions(hot, id) + 1
      /\ Area!Mentions(hot, id) \in Nat
  BY <1>1, AreaTyped, MentionsCount
<1>3. /\ DOMAIN f = DOMAIN object
      /\ \A i \in DOMAIN object : i # id => f[i] = object[i]
      /\ f[id] = [object[id] EXCEPT !.mode = {"drop"}, !.ref = object[id].ref - 1]
  BY <1>1
<1> HIDE DEF f
<1>4. /\ f[id] \in Area!ObjectRecord
      /\ f[id].mode = {"drop"}
      /\ f[id].ref = Area!Mentions(hot, id)
      /\ f[id].version = object[id].version
      /\ f[id].last = object[id].last /\ f[id].position = object[id].position
  <2>1. PICK r \in Nat : r = Area!Mentions(hot, id)
    BY <1>2
  <2>2. object[id].ref - 1 = r
    BY <1>2, <2>1
  <2>3. f[id] = [object[id] EXCEPT !.mode = {"drop"}, !.ref = r]
    BY <1>3, <2>2
  <2> QED  BY <1>2, <2>1, <2>3 DEF Area!ObjectRecord
<1>5. /\ DOMAIN object' = {i \in DOMAIN object : f[i].ref > 0}
      /\ \A i \in DOMAIN object' : object'[i] = f[i]
      /\ object' = [i \in DOMAIN object' |-> object'[i]]
  BY <1>1, <1>3 DEF Area!Release
<1>6. \A i \in DOMAIN object : i # id => i \in DOMAIN object' /\ object'[i] = object[i]
  BY <1>3, <1>5, AreaTyped
<1>7. id \in DOMAIN object' => object'[id] = f[id] /\ f[id].ref > 0
  BY <1>5
<1>8. DOMAIN object' \subseteq DOMAIN object
  BY <1>5
<1>9. object' \in [DOMAIN object' -> Area!ObjectRecord]
  <2>1. \A i \in DOMAIN object' : object'[i] \in Area!ObjectRecord
    BY <1>4, <1>6, <1>7, <1>8, AreaTyped
  <2> QED  BY <1>5, <2>1
<1>10. \A i \in DOMAIN object' :
          /\ object'[i].ref = Area!Mentions(hot', i) + (IF "drop" \in object'[i].mode THEN 0 ELSE 1)
          /\ object'[i].ref > 0
  <2>1. id \in DOMAIN object' =>
           /\ object'[id].ref = Area!Mentions(hot', id)
                                + (IF "drop" \in object'[id].mode THEN 0 ELSE 1)
           /\ object'[id].ref > 0
    BY <1>1, <1>2, <1>4, <1>7
  <2> QED  BY <1>1, <1>6, <1>8, <2>1, AreaTyped
<1>11. \A p \in hot' : p.watcher \in DOMAIN object' /\ p.marker \in DOMAIN object'
  <2> TAKE p \in hot'
  <2>1. p \in hot /\ p.watcher \in DOMAIN object /\ p.marker \in DOMAIN object
    BY <1>1, AreaTyped
  <2>2. id \in {p.watcher, p.marker} => Area!Mentions(hot, id) > 0
    BY <2>1, AreaTyped, MentionsCount
  <2>3. id \in {p.watcher, p.marker} => id \in DOMAIN object'
    BY <1>1, <1>4, <1>5, <2>2
  <2> QED  BY <1>6, <2>1, <2>3
<1>12. \A p \in hot' : /\ Area!Known(p.watcher, p.watcher_version)'
                       /\ Area!Known(p.marker, p.marker_version)'
  <2>1. \A v, i : i \in DOMAIN object' /\ Area!Known(i, v) => Area!Known(i, v)'
    BY <1>4, <1>6, <1>7, <1>8 DEF Area!Known
  <2> QED  BY <1>1, <1>11, <2>1, AreaTyped
<1>13. \A i \in DOMAIN object' :
          /\ "drop" \in object'[i].mode => object'[i].mode = {"drop"}
          /\ Area!Away(object'[i]) => Area!Near(object'[i].position, object'[i].last)
  <2>1. \A i \in DOMAIN object :
           /\ "drop" \in object[i].mode => object[i].mode = {"drop"}
           /\ Area!Away(object[i]) => Area!Near(object[i].position, object[i].last)
    BY DEF Area!IInv
  <2> QED  BY <1>1, <1>4, <1>6, <1>7, <1>8, <2>1 DEF Area!Away
<1>14. ASSUME NEW w \in DOMAIN object', NEW m \in DOMAIN object', w # m,
              "watcher" \in object'[w].mode, "marker" \in object'[m].mode,
              "move" \notin object'[w].mode \cup object'[m].mode
       PROVE  Area!Accounted(w, m)'
  <2>1. w # id /\ m # id
    BY <1>4, <1>7, <1>14
  <2>2. /\ object'[w] = object[w] /\ object'[m] = object[m]
        /\ w \in DOMAIN object /\ m \in DOMAIN object
    BY <1>6, <1>8, <2>1
  <2>3. Area!Accounted(w, m)
    BY <1>14, <2>2 DEF Area!IInv
  <2>4. <<w, m>> \in told \cup adrift => <<w, m>> \in told' \cup adrift'
    BY <1>1, <2>1 DEF Area!Forget
  <2> QED  BY <1>1, <2>2, <2>3, <2>4 DEF Area!Accounted
<1>15. /\ DOMAIN object' \subseteq Walker
       /\ hot' \subseteq Area!PairRecord
       /\ Area!IsFiniteSet(hot)'
  BY <1>1, <1>8, AreaTyped, AreaCounts
<1> QED  BY <1>9, <1>10, <1>11, <1>12, <1>13, <1>14, <1>15 DEF Area!IInv, Area!RefsExact

LEMMA AreaInit == Area!Init => Area!IInv
<1> SUFFICES ASSUME Area!Init
             PROVE  Area!IInv
  OBVIOUS
<1>1. DOMAIN object = {} /\ hot = {}
  BY DEF Area!Init
<1>2. Area!IsFiniteSet(hot)
  BY <1>1, AreaCounts, FS_EmptySet
<1>3. object \in [DOMAIN object -> Area!ObjectRecord]
  BY DEF Area!Init
<1> QED  BY <1>1, <1>2, <1>3 DEF Area!IInv, Area!RefsExact

LEMMA AreaStep == Area!IInv /\ [Area!Next]_(Area!vars) => Area!IInv'
<1> SUFFICES ASSUME Area!IInv, [Area!Next]_(Area!vars)
             PROVE  Area!IInv'
  OBVIOUS
<1>1. CASE UNCHANGED Area!vars
  BY <1>1 DEF Area!vars, Area!IInv, Area!RefsExact, Area!Known, Area!Accounted, Area!Away
<1>2. CASE Area!aoi_message
  BY <1>2, MessageKeeps
<1> QED  BY <1>1, <1>2, MovedKeeps, DropKeeps DEF Area!Next

\* In every behaviour of Aoi, with any objects and places: the references of an
\* object are one of the map, unless it was dropped, and one for each mention of it
\* in a hot pair, so that no hot pair holds a freed object (drop_object).
THEOREM ReferencesExact == Area!Spec => []RefsExact
<1>1. Area!IInv => RefsExact
  BY DEF Area!IInv, RefsExact
<1> QED  BY <1>1, AreaInit, AreaStep, PTL DEF Area!Spec

\* After every aoi_message, with any radius and moves: a watcher was told of each
\* marker within the radius, except where the two were given up while one was away
\* from where it was last flagged (gen_pair, flush_pair).
THEOREM NeighboursHeard == Area!Spec => NoSilentNeighbour
<1>1. Area!IInv => [Area!NeighboursTold]_(Area!vars)
  BY MessageTells
<1> QED  BY <1>1, AreaInit, AreaStep, PTL DEF Area!Spec, NoSilentNeighbour, Area!NoSilentNeighbour

-----------------------------------------------------------------------------
(* Induction over sets.                                                    *)

LEMMA LessWF == IsWellFoundedOn({ss \in Nat \X Nat : ss[1] < ss[2]}, Nat)
BY NatLessThanWellFounded DEF OpToRel

\* Every non-empty set of natural numbers has a least element.
LEMMA LeastNat ==
    ASSUME NEW T, T \subseteq Nat, T # {}
    PROVE  \E k \in T : \A j \in T : k <= j
<1> DEFINE R == {ss \in Nat \X Nat : ss[1] < ss[2]}
<1>1. PICK k \in T : \A j \in T : <<j, k>> \notin R
  <2> HIDE DEF R
  <2>1. IsWellFoundedOn(R, Nat)
    BY LessWF DEF R
  <2> QED  BY <2>1, WFMin
<1>2. \A j \in T : ~(j < k)
  BY <1>1
<1> QED  BY <1>2

\* Induction: a set with 0 that is closed under the successor has all numbers.
LEMMA NatInd ==
    ASSUME NEW S, 0 \in S, \A i \in Nat : i \in S => i + 1 \in S
    PROVE  Nat \subseteq S
<1> DEFINE T == {i \in Nat : i \notin S}
<1>1. SUFFICES ASSUME T # {} PROVE FALSE
  OBVIOUS
<1>2. PICK m \in T : \A i \in T : m <= i
  <2>1. T \subseteq Nat  OBVIOUS
  <2> HIDE DEF T
  <2> QED  BY <1>1, <2>1, LeastNat
<1>3. m \in Nat /\ m # 0  BY <1>2
<1>4. m - 1 \in Nat /\ m - 1 \notin T  BY <1>2, <1>3
<1>5. (m - 1) + 1 \in S  BY <1>4
<1> QED  BY <1>3, <1>5

\* The bounded form: what holds at 0 and is kept by every step up to top.
LEMMA BoundedInd ==
    ASSUME NEW top \in Nat, NEW S, 0 \in S,
           \A i \in 1 .. top : i - 1 \in S => i \in S
    PROVE  0 .. top \subseteq S
<1> DEFINE T == {i \in Nat : i <= top => i \in S}
<1>1. 0 \in T  OBVIOUS
<1>2. \A i \in Nat : i \in T => i + 1 \in T
  <2> SUFFICES ASSUME NEW i \in Nat, i \in T, i + 1 <= top PROVE i + 1 \in S
    OBVIOUS
  <2>1. i + 1 \in 1 .. top /\ (i + 1) - 1 = i /\ i \in S  OBVIOUS
  <2> QED  BY <2>1
<1>3. Nat \subseteq T
  <2> HIDE DEF T
  <2> QED  BY <1>1, <1>2, NatInd
<1> QED  BY <1>3

-----------------------------------------------------------------------------
(* Skiplist: a list that is a ranking                                      *)

-----------------------------------------------------------------------------
(* What Made gives.                                                         *)

\* What Made says of the nodes one by one.
LEMMA NodeFacts ==
    ASSUME NEW list, NEW rk, List!Made(list, rk)
    PROVE  /\ List!Header \in DOMAIN list.node
           /\ list.level \in 1 .. MaxLevel /\ list.length \in Nat /\ MaxLevel \in Nat
           /\ List!Elements(list) \subseteq Member
           /\ \A x \in DOMAIN list.node :
                 /\ x \in Nat /\ x # List!NULL
                 /\ x \in List!Elements(list) <=> x # List!Header
                 /\ rk[x] \in 0 .. list.length
                 /\ rk[x] = 0 <=> x = List!Header
                 /\ list.node[x].score \in Int
                 /\ x \in List!Reach(list, 1)
                 /\ \E h \in 1 .. MaxLevel : list.node[x] \in List!Node(h)
           /\ \A x, y \in DOMAIN list.node : rk[x] = rk[y] => x = y
           /\ DOMAIN list.node[List!Header].forward = 1 .. MaxLevel
<1>1. /\ List!Shaped(list) /\ List!Numbered(list, rk)
  BY DEF List!Made
<1>2. MaxLevel \in Nat \ {0} /\ Member \subseteq Nat \ {0}
  BY RanksFit
<1>3. \A x \in DOMAIN list.node : \E h \in 1 .. MaxLevel : list.node[x] \in List!Node(h)
  BY <1>1 DEF List!Shaped
<1>4. \A x \in DOMAIN list.node : list.node[x].score \in Int /\ 1 \in DOMAIN list.node[x].forward
  <2> TAKE x \in DOMAIN list.node
  <2>1. PICK h \in 1 .. MaxLevel : list.node[x] \in List!Node(h)
    BY <1>3
  <2>2. list.node[x].score \in Int /\ list.node[x].forward \in [1 .. h -> Member \cup {List!NULL}]
    BY <2>1 DEF List!Node
  <2>3. 1 \in 1 .. h
    OBVIOUS
  <2> QED  BY <2>2, <2>3
<1>5. \A x \in DOMAIN list.node : x \in List!Elements(list) <=> x # List!Header
  BY DEF List!Elements
<1>7. /\ \A x, y \in DOMAIN list.node : rk[x] = rk[y] => x = y
      /\ rk[List!Header] = 0
      /\ \A x \in DOMAIN list.node : rk[x] \in 0 .. list.length
  BY <1>1 DEF List!Numbered
<1>8. /\ List!Header \in DOMAIN list.node
      /\ list.level \in 1 .. MaxLevel /\ list.length \in Nat
      /\ List!Elements(list) \subseteq Member
      /\ DOMAIN list.node[List!Header].forward = 1 .. MaxLevel
  BY <1>1 DEF List!Shaped
<1>6. \A x \in DOMAIN list.node : x \in Nat /\ x # List!NULL
  <2> TAKE x \in DOMAIN list.node
  <2>1. CASE x = List!Header
    BY <2>1 DEF List!NULL, List!Header
  <2>2. CASE x # List!Header
    <3>1. x \in Member
      BY <1>5, <1>8, <2>2
    <3>2. x \in Nat
      BY <1>2, <3>1
    <3>3. x # List!NULL
      BY <3>2 DEF List!NULL
    <3> QED  BY <3>2, <3>3
  <2> QED  BY <2>1, <2>2
<1> QED  BY <1>2, <1>3, <1>4, <1>5, <1>6, <1>7, <1>8 DEF List!Reach

\* The nodes on a level, and what follows each.
LEMMA LevelFacts ==
    ASSUME NEW list, NEW rk, List!Made(list, rk), NEW i \in 1 .. MaxLevel
    PROVE  /\ List!Reach(list, i) \subseteq DOMAIN list.node
           /\ List!Header \in List!Reach(list, i)
           /\ \A x \in List!Reach(list, i) :
                 List!Follows(list, rk, i, x, List!Forward(list, x, i))
           /\ i <= list.level => \A x \in List!Reach(list, i) :
                 list.node[x].span[i] =
                    (IF List!Forward(list, x, i) = List!NULL THEN list.length
                     ELSE rk[List!Forward(list, x, i)]) - rk[x]
           /\ i > list.level => List!Reach(list, i) = {List!Header}
                                /\ List!Forward(list, List!Header, i) = List!NULL
<1>1. List!Reach(list, i) \subseteq DOMAIN list.node
  BY DEF List!Reach
<1>2. List!Header \in List!Reach(list, i)
  BY NodeFacts DEF List!Reach
<1>3. \A x \in List!Reach(list, i) : List!Follows(list, rk, i, x, List!Forward(list, x, i))
  BY DEF List!Made, List!Joined
<1>4. i <= list.level => \A x \in List!Reach(list, i) :
                 list.node[x].span[i] =
                    (IF List!Forward(list, x, i) = List!NULL THEN list.length
                     ELSE rk[List!Forward(list, x, i)]) - rk[x]
  <2>1. i <= list.level => i \in 1 .. list.level
    BY NodeFacts
  <2> QED  BY <2>1 DEF List!Made, List!Joined
<1>5. ASSUME i > list.level
      PROVE  /\ List!Reach(list, i) = {List!Header}
             /\ List!Forward(list, List!Header, i) = List!NULL
  <2>1. i \in list.level + 1 .. MaxLevel
    BY <1>5, NodeFacts
  <2>2. List!Forward(list, List!Header, i) = List!NULL
    BY <2>1 DEF List!Made, List!Joined
  <2>3. {z \in List!Reach(list, i) : rk[z] > rk[List!Header]} = {}
    BY <1>2, <1>3, <2>2, <1>1, NodeFacts DEF List!Follows
  <2>4. \A z \in List!Reach(list, i) : z = List!Header
    BY <2>3, <1>1, NodeFacts
  <2> QED  BY <1>2, <2>2, <2>4
<1> QED  BY <1>1, <1>2, <1>3, <1>4, <1>5

\* The order of the elements.
LEMMA SortedFacts ==
    ASSUME NEW list, NEW rk, List!Made(list, rk)
    PROVE  \A x, y \in List!Elements(list) :
              rk[x] < rk[y] <=> List!Precedes(list.node[x].score, x, list.node[y].score, y)
BY DEF List!Made, List!Numbered

\* The node numbered r.
LEMMA AtFacts ==
    ASSUME NEW list, NEW rk, List!Made(list, rk)
    PROVE  /\ \A r \in 1 .. list.length :
                 /\ List!at(list, rk, r) \in List!Elements(list)
                 /\ List!at(list, rk, r) # List!NULL
                 /\ rk[List!at(list, rk, r)] = r
           /\ \A x \in List!Elements(list) : rk[x] \in 1 .. list.length
                                             /\ List!at(list, rk, rk[x]) = x
           /\ \A r : r \notin 1 .. list.length => List!at(list, rk, r) = List!NULL
<1>1. ASSUME NEW r \in 1 .. list.length
      PROVE  /\ List!at(list, rk, r) \in List!Elements(list)
             /\ rk[List!at(list, rk, r)] = r
  <2>1. PICK x \in DOMAIN list.node : rk[x] = r
    <3>1. r \in 0 .. list.length
      OBVIOUS
    <3> QED  BY <3>1 DEF List!Made, List!Numbered
  <2>2. x \in List!Elements(list)
    BY <2>1, NodeFacts
  <2>3. List!at(list, rk, r) = CHOOSE y \in List!Elements(list) : rk[y] = r
    BY DEF List!at
  <2> QED  BY <2>1, <2>2, <2>3
<1>2. ASSUME NEW x \in List!Elements(list)
      PROVE  rk[x] \in 1 .. list.length /\ List!at(list, rk, rk[x]) = x
  <2>1. x \in DOMAIN list.node /\ x # List!Header
    BY DEF List!Elements
  <2>2. rk[x] \in 0 .. list.length /\ rk[x] # 0
    BY <2>1, NodeFacts
  <2>3. rk[x] \in 1 .. list.length
    BY <2>2, NodeFacts
  <2>4. /\ List!at(list, rk, rk[x]) \in DOMAIN list.node
        /\ rk[List!at(list, rk, rk[x])] = rk[x]
    BY <1>1, <2>3 DEF List!Elements
  <2> QED  BY <2>1, <2>3, <2>4, NodeFacts
<1>3. \A x \in List!Elements(list) : x # List!NULL
  BY NodeFacts DEF List!Elements
<1> QED  BY <1>1, <1>2, <1>3 DEF List!at

-----------------------------------------------------------------------------
(* Where a search ends.                                                     *)

\* The last node on level i whose number is at most k.
Last(list, rk, i, k) ==
    CHOOSE y \in List!Reach(list, i) :
        rk[y] <= k /\ \A z \in List!Reach(list, i) : rk[z] <= k => rk[z] <= rk[y]

Pos(rk, x) == [at |-> x, rank |-> rk[x]]

\* The search passes the first k elements.
PassesUpTo(list, rk, k, passes) ==
    \A x \in List!Elements(list) : Pos(rk, x) \in passes <=> rk[x] <= k

\* Every bounded non-empty set of numbers has a greatest element.
LEMMA GreatestNat ==
    ASSUME NEW T, T \subseteq Nat, T # {}, NEW top \in Nat, \A j \in T : j <= top
    PROVE  \E k \in T : \A j \in T : j <= k
<1> DEFINE U == {top - j : j \in T}
<1>1. U \subseteq Nat
  <2>1. \A j \in T : top - j \in Nat
    OBVIOUS
  <2> QED  BY <2>1
<1>9. U # {}
  <2>1. PICK j \in T : TRUE
    OBVIOUS
  <2>2. top - j \in U
    OBVIOUS
  <2> QED  BY <2>2
<1>2. PICK u \in U : \A v \in U : u <= v
  <2> HIDE DEF U
  <2> QED  BY <1>1, <1>9, LeastNat
<1>3. PICK k \in T : u = top - k
  OBVIOUS
<1>4. \A j \in T : top - k <= top - j
  BY <1>2, <1>3
<1>5. \A j \in T : j <= k
  BY <1>4
<1> QED  BY <1>5

LEMMA LastFacts ==
    ASSUME NEW list, NEW rk, List!Made(list, rk), NEW i \in 1 .. MaxLevel, NEW k \in Nat
    PROVE  /\ Last(list, rk, i, k) \in List!Reach(list, i)
           /\ Last(list, rk, i, k) \in DOMAIN list.node
           /\ rk[Last(list, rk, i, k)] <= k
           /\ \A z \in List!Reach(list, i) : rk[z] <= k => rk[z] <= rk[Last(list, rk, i, k)]
<1> DEFINE T == {rk[y] : y \in {z \in List!Reach(list, i) : rk[z] <= k}}
<1>1. T \subseteq Nat /\ \A j \in T : j <= k
  BY LevelFacts, NodeFacts
<1>2. T # {}
  <2>1. List!Header \in List!Reach(list, i) /\ rk[List!Header] <= k
    BY LevelFacts, NodeFacts
  <2>2. rk[List!Header] \in T
    BY <2>1
  <2> QED  BY <2>2
<1>3. PICK t \in T : \A j \in T : j <= t
  <2> HIDE DEF T
  <2> QED  BY <1>1, <1>2, GreatestNat
<1>4. PICK y \in List!Reach(list, i) : rk[y] <= k /\ t = rk[y]
  OBVIOUS
<1>5. \A z \in List!Reach(list, i) : rk[z] <= k => rk[z] <= rk[y]
  BY <1>3, <1>4
<1> HIDE DEF T
<1> QED  BY <1>4, <1>5, LevelFacts DEF Last

\* It is the only one, and the node after it is past k.
LEMMA LastIs ==
    ASSUME NEW list, NEW rk, List!Made(list, rk), NEW i \in 1 .. MaxLevel, NEW k \in Nat,
           NEW y \in List!Reach(list, i), rk[y] <= k,
           \A z \in List!Reach(list, i) : rk[z] <= k => rk[z] <= rk[y]
    PROVE  Last(list, rk, i, k) = y
<1> DEFINE l == Last(list, rk, i, k)
<1>1. /\ l \in List!Reach(list, i) /\ l \in DOMAIN list.node /\ rk[l] <= k
      /\ \A z \in List!Reach(list, i) : rk[z] <= k => rk[z] <= rk[l]
  BY LastFacts
<1> HIDE DEF l
<1>2. y \in DOMAIN list.node
  BY LevelFacts
<1>3. rk[l] <= rk[y] /\ rk[y] <= rk[l] /\ rk[l] \in Int /\ rk[y] \in Int
  BY <1>1, <1>2, NodeFacts
<1>4. rk[l] = rk[y]
  BY <1>3
<1> QED  BY <1>1, <1>2, <1>4, NodeFacts DEF l

\* What follows a node, in terms of its number.
LEMMA NextFacts ==
    ASSUME NEW list, NEW rk, List!Made(list, rk), NEW i \in 1 .. MaxLevel,
           NEW x \in List!Reach(list, i)
    PROVE  LET next == List!Forward(list, x, i)
           IN  /\ next = List!NULL => \A z \in List!Reach(list, i) : rk[z] <= rk[x]
               /\ next # List!NULL => /\ next \in List!Reach(list, i)
                                      /\ next \in List!Elements(list)
                                      /\ rk[next] > rk[x]
                                      /\ \A z \in List!Reach(list, i) :
                                            rk[z] > rk[x] => rk[next] <= rk[z]
<1> DEFINE next == List!Forward(list, x, i)
<1>1. List!Follows(list, rk, i, x, next) /\ List!Reach(list, i) \subseteq DOMAIN list.node
  BY LevelFacts
<1> HIDE DEF next
<1>2. \A z \in DOMAIN list.node : rk[z] \in Int /\ z # List!NULL /\ rk[z] >= 0
                                  /\ (rk[z] # 0 => z \in List!Elements(list))
  BY NodeFacts
<1>3. CASE next = List!NULL
  <2>1. {z \in List!Reach(list, i) : rk[z] > rk[x]} = {}
    BY <1>1, <1>2, <1>3 DEF List!Follows
  <2>2. \A z \in List!Reach(list, i) : ~(rk[z] > rk[x])
    BY <2>1
  <2>3. \A z \in List!Reach(list, i) : rk[z] <= rk[x]
    BY <2>2, <1>1, <1>2
  <2> QED  BY <1>3, <2>3 DEF next
<1>4. CASE next # List!NULL
  <2>1. /\ next \in List!Reach(list, i) /\ rk[next] > rk[x]
        /\ \A z \in List!Reach(list, i) : rk[z] > rk[x] => rk[next] <= rk[z]
    BY <1>1, <1>4 DEF List!Follows
  <2>2. next \in List!Elements(list)
    BY <1>1, <1>2, <2>1
  <2> QED  BY <1>4, <2>1, <2>2 DEF next
<1> QED  BY <1>3, <1>4

\* The walk along a level, from any position: the position that has moved on from p
\* to node y, the nodes up to which all are passed, and the last of them.
StepFrom(list, i, p) ==
    [at |-> List!Forward(list, p.at, i), rank |-> p.rank + list.node[p.at].span[i]]
MovedOn(rk, p, y) == [at |-> y, rank |-> p.rank + (rk[y] - rk[p.at])]
Passed(list, rk, i, passes, p) ==
    {y \in List!Reach(list, i) :
        /\ rk[p.at] <= rk[y]
        /\ \A z \in List!Reach(list, i) :
              rk[p.at] < rk[z] /\ rk[z] <= rk[y] => MovedOn(rk, p, z) \in passes}
FarEnd(list, rk, i, passes, p) ==
    CHOOSE y \in Passed(list, rk, i, passes, p) :
        \A z \in Passed(list, rk, i, passes, p) : rk[z] <= rk[y]

LEMMA FarEndFacts ==
    ASSUME NEW list, NEW rk, List!Made(list, rk), NEW i \in 1 .. MaxLevel, NEW passes,
           NEW p \in [at : List!Reach(list, i), rank : Nat]
    PROVE  /\ p.at \in Passed(list, rk, i, passes, p)
           /\ FarEnd(list, rk, i, passes, p) \in Passed(list, rk, i, passes, p)
           /\ \A z \in Passed(list, rk, i, passes, p) :
                 rk[z] <= rk[FarEnd(list, rk, i, passes, p)]
           /\ \A y \in Passed(list, rk, i, passes, p) :
                 (\A z \in Passed(list, rk, i, passes, p) : rk[z] <= rk[y])
                    => FarEnd(list, rk, i, passes, p) = y
<1> DEFINE P == Passed(list, rk, i, passes, p)
           T == {rk[y] : y \in P}
<1>1. p.at \in List!Reach(list, i) /\ P \subseteq DOMAIN list.node
  BY LevelFacts DEF Passed
<1>2. \A z \in DOMAIN list.node : rk[z] \in Nat /\ rk[z] <= list.length
  BY NodeFacts
<1>3. \A x, y \in DOMAIN list.node : rk[x] = rk[y] => x = y
  BY NodeFacts
<1>4. p.at \in P
  BY <1>1, <1>2, LevelFacts DEF Passed
<1> HIDE DEF P
<1>5. PICK t \in T : \A j \in T : j <= t
  <2>1. T \subseteq Nat
    BY <1>1, <1>2
  <2>2. T # {}
    <3>1. rk[p.at] \in T
      BY <1>4
    <3> QED  BY <3>1
  <2>3. \A j \in T : j <= list.length
    BY <1>1, <1>2
  <2>4. list.length \in Nat
    BY NodeFacts
  <2> HIDE DEF T
  <2> QED  BY <2>1, <2>2, <2>3, <2>4, GreatestNat
<1>6. PICK y \in P : t = rk[y]
  OBVIOUS
<1>7. \A z \in P : rk[z] <= rk[y]
  BY <1>5, <1>6
<1> HIDE DEF T
<1>8. /\ FarEnd(list, rk, i, passes, p) \in P
      /\ \A z \in P : rk[z] <= rk[FarEnd(list, rk, i, passes, p)]
  BY <1>7 DEF FarEnd, P
<1>9. ASSUME NEW u \in P, \A z \in P : rk[z] <= rk[u]
      PROVE  FarEnd(list, rk, i, passes, p) = u
  <2> DEFINE e == FarEnd(list, rk, i, passes, p)
  <2>1. e \in P /\ rk[e] <= rk[u] /\ rk[u] <= rk[e]
    BY <1>8, <1>9
  <2> HIDE DEF e
  <2>2. rk[e] = rk[u]
    BY <2>1, <1>1, <1>2
  <2>3. e = u
    BY <2>1, <2>2, <1>1, <1>3
  <2> QED  BY <2>3 DEF e
<1> QED  BY <1>4, <1>8, <1>9 DEF P

LEMMA WalkStep ==
    ASSUME NEW list, NEW rk, List!Made(list, rk), NEW i \in 1 .. list.level, NEW passes,
           NEW p \in [at : List!Reach(list, i), rank : Nat]
    PROVE  LET next == StepFrom(list, i, p)
           IN  IF next.at # List!NULL /\ next \in passes
               THEN /\ next \in [at : List!Reach(list, i), rank : Nat]
                    /\ rk[next.at] > rk[p.at]
                    /\ MovedOn(rk, next, FarEnd(list, rk, i, passes, next))
                          = MovedOn(rk, p, FarEnd(list, rk, i, passes, p))
               ELSE MovedOn(rk, p, FarEnd(list, rk, i, passes, p)) = p
<1> DEFINE next == StepFrom(list, i, p)
           R == List!Reach(list, i)
           v == List!Forward(list, p.at, i)
<1>0. i \in 1 .. MaxLevel /\ i <= list.level
  BY NodeFacts
<1>1. p.at \in R /\ R \subseteq DOMAIN list.node /\ p.rank \in Nat /\ p = [at |-> p.at, rank |-> p.rank]
  BY <1>0, LevelFacts
<1>2. \A z \in R : rk[z] \in Nat
  BY <1>1, NodeFacts
<1>3. \A x, y \in R : rk[x] = rk[y] => x = y
  BY <1>1, NodeFacts
<1>4. /\ v = List!NULL => \A z \in R : rk[z] <= rk[p.at]
      /\ v # List!NULL => /\ v \in R /\ rk[v] > rk[p.at]
                          /\ \A z \in R : rk[z] > rk[p.at] => rk[v] <= rk[z]
  BY <1>0, <1>1, NextFacts
<1>5. /\ next = [at |-> v, rank |-> p.rank + list.node[p.at].span[i]]
      /\ v # List!NULL => list.node[p.at].span[i] = rk[v] - rk[p.at]
  BY <1>0, <1>1, LevelFacts DEF StepFrom
<1>6. v # List!NULL => next = MovedOn(rk, p, v)
  BY <1>5 DEF MovedOn
<1>7. CASE v # List!NULL /\ next \in passes
  <2>1. next \in [at : R, rank : Nat] /\ next.at = v /\ next.rank = p.rank + (rk[v] - rk[p.at])
    <3>1. v \in R /\ p.rank + (rk[v] - rk[p.at]) \in Nat
      BY <1>1, <1>2, <1>4, <1>7
    <3> QED  BY <3>1, <1>5, <1>7
  <2>2. \A z \in R : MovedOn(rk, next, z) = MovedOn(rk, p, z)
    BY <1>1, <1>2, <1>4, <1>7, <2>1 DEF MovedOn
  <2>3. \A y \in R : rk[y] >= rk[v] =>
           (y \in Passed(list, rk, i, passes, p) <=> y \in Passed(list, rk, i, passes, next))
    <3> SUFFICES ASSUME NEW y \in R, rk[y] >= rk[v]
                 PROVE  y \in Passed(list, rk, i, passes, p) <=> y \in Passed(list, rk, i, passes, next)
      OBVIOUS
    <3>1. rk[p.at] <= rk[y] /\ rk[next.at] <= rk[y]
      BY <1>1, <1>2, <1>4, <1>7, <2>1
    <3>2. ASSUME NEW z \in R
          PROVE  (rk[p.at] < rk[z] /\ rk[z] <= rk[y] => MovedOn(rk, p, z) \in passes)
                 <=> (rk[next.at] < rk[z] /\ rk[z] <= rk[y] => MovedOn(rk, next, z) \in passes)
      <4>1. CASE z = v
        BY <4>1, <1>6, <1>7, <2>1, <1>2
      <4>2. CASE z # v
        <5>1. rk[p.at] < rk[z] <=> rk[next.at] < rk[z]
          BY <4>2, <1>1, <1>2, <1>3, <1>4, <1>7, <2>1
        <5> QED  BY <5>1, <2>2
      <4> QED  BY <4>1, <4>2
    <3> QED  BY <3>1, <3>2 DEF Passed
  <2> DEFINE e == FarEnd(list, rk, i, passes, next)
  <2>4. /\ e \in Passed(list, rk, i, passes, next)
        /\ \A z \in Passed(list, rk, i, passes, next) : rk[z] <= rk[e]
    BY <1>0, <2>1, FarEndFacts
  <2>5. e \in R /\ rk[e] >= rk[v]
    BY <2>1, <2>4 DEF Passed
  <2>6. e \in Passed(list, rk, i, passes, p)
    BY <2>3, <2>4, <2>5
  <2>7. \A z \in Passed(list, rk, i, passes, p) : rk[z] <= rk[e]
    <3> TAKE z \in Passed(list, rk, i, passes, p)
    <3>1. z \in R
      BY DEF Passed
    <3>2. CASE rk[z] >= rk[v]
      BY <3>1, <3>2, <2>3, <2>4
    <3>3. CASE ~(rk[z] >= rk[v])
      <4> HIDE DEF e
      <4> QED  BY <3>1, <3>3, <2>5, <1>2, <1>4, <1>7
    <3> QED  BY <3>2, <3>3
  <2>8. FarEnd(list, rk, i, passes, p) = e
    BY <1>0, <2>6, <2>7, FarEndFacts
  <2> QED  BY <1>7, <1>4, <2>1, <2>2, <2>5, <2>8
<1>8. CASE ~(v # List!NULL /\ next \in passes)
  <2>1. \A z \in Passed(list, rk, i, passes, p) : rk[z] <= rk[p.at]
    <3> SUFFICES ASSUME NEW z \in Passed(list, rk, i, passes, p), rk[z] > rk[p.at]
                 PROVE  FALSE
      BY <1>1, <1>2 DEF Passed
    <3>1. z \in R
      BY DEF Passed
    <3>2. v # List!NULL /\ v \in R /\ rk[p.at] < rk[v] /\ rk[v] <= rk[z]
      BY <1>1, <1>2, <1>4, <3>1
    <3>3. MovedOn(rk, p, v) \in passes
      BY <3>2 DEF Passed
    <3> QED  BY <1>6, <1>8, <3>2, <3>3
  <2>2. FarEnd(list, rk, i, passes, p) = p.at
    BY <1>0, <2>1, FarEndFacts
  <2>3. MovedOn(rk, p, p.at) = p
    BY <1>1, <1>2 DEF MovedOn
  <2> QED  BY <1>5, <1>8, <2>2, <2>3
<1> QED  BY <1>5, <1>7, <1>8

\* The recursive walk is that function: the numbers grow, so it ends.
LEMMA WalkIs ==
    ASSUME NEW list, NEW rk, List!Made(list, rk), NEW i \in 1 .. list.level, NEW passes,
           NEW p \in [at : List!Reach(list, i), rank : Nat]
    PROVE  List!Along(list, p, i, passes) = MovedOn(rk, p, FarEnd(list, rk, i, passes, p))
<1> DEFINE D == [at : List!Reach(list, i), rank : Nat]
           Goes(q) == StepFrom(list, i, q).at # List!NULL /\ StepFrom(list, i, q) \in passes
           End(q) == MovedOn(rk, q, FarEnd(list, rk, i, passes, q))
           Is(f) == f = [q \in D |-> IF Goes(q) THEN f[StepFrom(list, i, q)] ELSE q]
           walk == CHOOSE f : Is(f)
           g == [q \in D |-> End(q)]
<1>1. List!Along(list, p, i, passes) = walk[p]
  BY DEF List!Along, StepFrom
<1>2. ASSUME NEW q \in D
      PROVE  /\ Goes(q) => /\ StepFrom(list, i, q) \in D
                           /\ rk[StepFrom(list, i, q).at] > rk[q.at]
                           /\ End(StepFrom(list, i, q)) = End(q)
             /\ ~Goes(q) => End(q) = q
  BY WalkStep
<1> HIDE DEF Goes, End
<1>3. Is(g)
  <2>1. \A q \in D : g[q] = IF Goes(q) THEN g[StepFrom(list, i, q)] ELSE q
    BY <1>2
  <2> HIDE DEF D
  <2> QED  BY <2>1
<1>4. Is(walk)
  <2> HIDE DEF Is, g
  <2> QED  BY <1>3
<1>5. \A q \in D : walk[q] = IF Goes(q) THEN walk[StepFrom(list, i, q)] ELSE q
  <2> HIDE DEF walk, D
  <2> QED  BY <1>4
<1> HIDE DEF walk, Is
<1>6. \A q \in D : q.at \in DOMAIN list.node /\ rk[q.at] \in Nat /\ rk[q.at] <= list.length
  <2>1. i \in 1 .. MaxLevel
    BY NodeFacts
  <2> QED  BY <2>1, LevelFacts, NodeFacts
<1>7. \A q \in D : walk[q] = End(q)
  <2> DEFINE Odd == {q \in D : walk[q] # End(q)}
             T == {rk[q.at] : q \in Odd}
  <2> SUFFICES ASSUME Odd # {} PROVE FALSE
    OBVIOUS
  <2> HIDE DEF D
  <2>1. T \subseteq Nat /\ T # {} /\ \A j \in T : j <= list.length
    BY <1>6
  <2>2. list.length \in Nat
    BY NodeFacts
  <2>3. PICK t \in T : \A j \in T : j <= t
    <3> HIDE DEF T
    <3> QED  BY <2>1, <2>2, GreatestNat
  <2>4. PICK q \in Odd : t = rk[q.at]
    OBVIOUS
  <2>5. Goes(q) /\ StepFrom(list, i, q) \in D
    BY <1>2, <1>5, <2>4
  <2>6. StepFrom(list, i, q) \in Odd
    BY <1>2, <1>5, <2>4, <2>5
  <2>7. rk[StepFrom(list, i, q).at] \in T /\ rk[StepFrom(list, i, q).at] > rk[q.at]
    BY <1>2, <2>4, <2>5, <2>6
  <2>8. rk[StepFrom(list, i, q).at] <= rk[q.at]
    BY <2>3, <2>4, <2>7
  <2> HIDE DEF T, Odd
  <2> QED  BY <1>6, <2>4, <2>5, <2>7, <2>8 DEF Odd
<1> QED  BY <1>1, <1>7 DEF End

\* A node on a level is on every level below.
LEMMA Nested ==
    ASSUME NEW list, NEW rk, List!Made(list, rk), NEW i \in 1 .. MaxLevel,
           NEW x \in List!Reach(list, i), NEW j \in 1 .. i
    PROVE  x \in List!Reach(list, j)
<1>1. x \in DOMAIN list.node /\ i \in DOMAIN list.node[x].forward
  BY DEF List!Reach
<1>2. PICK h \in 1 .. MaxLevel : list.node[x] \in List!Node(h)
  BY <1>1, NodeFacts
<1>3. DOMAIN list.node[x].forward = 1 .. h
  BY <1>2 DEF List!Node
<1>4. j \in 1 .. h
  BY <1>1, <1>3
<1> QED  BY <1>1, <1>3, <1>4 DEF List!Reach

\* A search that passes the first k elements leaves a level at the last of them.
LEMMA AlongIs ==
    ASSUME NEW list, NEW rk, List!Made(list, rk), NEW i \in 1 .. list.level, NEW k \in Nat,
           NEW passes, PassesUpTo(list, rk, k, passes),
           NEW x \in List!Reach(list, i), rk[x] <= k
    PROVE  List!Along(list, Pos(rk, x), i, passes) = Pos(rk, Last(list, rk, i, k))
<1> DEFINE p == Pos(rk, x)
           l == Last(list, rk, i, k)
           R == List!Reach(list, i)
<1>0. i \in 1 .. MaxLevel
  BY NodeFacts
<1>1. R \subseteq DOMAIN list.node
  BY <1>0, LevelFacts
<1>2. \A z \in R : rk[z] \in Nat /\ (rk[z] # 0 => z \in List!Elements(list))
  BY <1>1, NodeFacts
<1>3. p \in [at : R, rank : Nat] /\ p.at = x /\ p.rank = rk[x]
  BY <1>2 DEF Pos
<1>4. \A z \in R : MovedOn(rk, p, z) = Pos(rk, z)
  BY <1>2, <1>3 DEF MovedOn, Pos
<1>5. l \in R /\ rk[l] <= k /\ \A z \in R : rk[z] <= k => rk[z] <= rk[l]
  BY <1>0, LastFacts
<1> HIDE DEF l, p
<1>6. \A z \in R : rk[x] < rk[z] => (Pos(rk, z) \in passes <=> rk[z] <= k)
  BY <1>2 DEF PassesUpTo
<1>7. l \in Passed(list, rk, i, passes, p)
  <2>1. rk[x] <= rk[l]
    BY <1>5
  <2>2. ASSUME NEW z \in R, rk[x] < rk[z], rk[z] <= rk[l]
        PROVE  MovedOn(rk, p, z) \in passes
    <3>1. rk[z] <= k
      BY <2>2, <1>2, <1>5
    <3> QED  BY <3>1, <2>2, <1>4, <1>6
  <2> QED  BY <2>1, <2>2, <1>3, <1>5 DEF Passed
<1>8. \A z \in Passed(list, rk, i, passes, p) : rk[z] <= rk[l]
  <2> TAKE z \in Passed(list, rk, i, passes, p)
  <2>1. z \in R /\ rk[x] <= rk[z] /\ (rk[x] < rk[z] => MovedOn(rk, p, z) \in passes)
    BY <1>2, <1>3 DEF Passed
  <2>2. CASE rk[x] < rk[z]
    BY <2>1, <2>2, <1>4, <1>5, <1>6
  <2>3. CASE ~(rk[x] < rk[z])
    BY <2>1, <2>3, <1>2, <1>5
  <2> QED  BY <2>2, <2>3
<1>9. FarEnd(list, rk, i, passes, p) = l
  BY <1>0, <1>3, <1>7, <1>8, FarEndFacts
<1>10. List!Along(list, p, i, passes) = MovedOn(rk, p, l)
  BY <1>3, <1>9, WalkIs
<1> QED  BY <1>4, <1>5, <1>10 DEF l, p

LEMMA DescendIs ==
    ASSUME NEW list, NEW rk, List!Made(list, rk), NEW k \in Nat,
           NEW passes, PassesUpTo(list, rk, k, passes)
    PROVE  List!Descend(list, passes) = [i \in 1 .. list.level |-> Pos(rk, Last(list, rk, i, k))]
<1> DEFINE L == 1 .. list.level
           from(i, f) == IF i = list.level THEN List!Top ELSE f[i + 1]
           Is(f) == f = [i \in L |-> List!Along(list, from(i, f), i, passes)]
           pos == CHOOSE f : Is(f)
           g == [i \in L |-> Pos(rk, Last(list, rk, i, k))]
<1>1. List!Descend(list, passes) = pos
  BY DEF List!Descend
<1>2. list.level \in 1 .. MaxLevel /\ MaxLevel \in Nat
  BY NodeFacts
<1>3. List!Top = Pos(rk, List!Header) /\ rk[List!Header] = 0
      /\ \A i \in L : List!Header \in List!Reach(list, i)
  <2>1. rk[List!Header] = 0
    BY NodeFacts
  <2> QED  BY <2>1, <1>2, LevelFacts DEF List!Top, Pos
<1>4. ASSUME NEW i \in L, i # list.level
      PROVE  /\ Last(list, rk, i + 1, k) \in List!Reach(list, i)
             /\ rk[Last(list, rk, i + 1, k)] <= k
             /\ i + 1 \in L
  <2>1. i + 1 \in L /\ i + 1 \in 1 .. MaxLevel /\ i \in 1 .. i + 1
    BY <1>2, <1>4
  <2> QED  BY <2>1, LastFacts, Nested
<1>5. \A i \in L : List!Along(list, List!Top, i, passes) = Pos(rk, Last(list, rk, i, k))
  BY <1>3, AlongIs
<1>6. \A i \in L : i # list.level =>
         List!Along(list, Pos(rk, Last(list, rk, i + 1, k)), i, passes) = Pos(rk, Last(list, rk, i, k))
  BY <1>4, AlongIs
<1>7. Is(g)
  <2>1. \A i \in L : g[i] = List!Along(list, from(i, g), i, passes)
    BY <1>4, <1>5, <1>6
  <2> HIDE DEF L
  <2> QED  BY <2>1
<1>8. Is(pos)
  <2> HIDE DEF Is, g
  <2> QED  BY <1>7
<1>9. /\ pos = [i \in L |-> pos[i]]
      /\ \A i \in L : pos[i] = List!Along(list, from(i, pos), i, passes)
  <2> HIDE DEF pos, L
  <2> QED  BY <1>8
<1> HIDE DEF pos, Is
<1>10. \A i \in L : pos[i] = g[i]
  <2> DEFINE S == {d \in Nat : d < list.level => pos[list.level - d] = g[list.level - d]}
  <2>1. 0 \in S
    <3>1. list.level \in L
      BY <1>2
    <3>2. pos[list.level] = List!Along(list, List!Top, list.level, passes)
      BY <1>9, <3>1
    <3> QED  BY <1>5, <3>1, <3>2
  <2>2. \A d \in Nat : d \in S => d + 1 \in S
    <3> SUFFICES ASSUME NEW d \in Nat, d \in S, d + 1 < list.level
                 PROVE  pos[list.level - (d + 1)] = g[list.level - (d + 1)]
      OBVIOUS
    <3> DEFINE i == list.level - (d + 1)
    <3>1. i \in L /\ i # list.level /\ i + 1 = list.level - d /\ i + 1 \in L /\ d < list.level
      BY <1>2
    <3> HIDE DEF i
    <3>2. pos[i + 1] = Pos(rk, Last(list, rk, i + 1, k))
      BY <3>1
    <3>3. pos[i] = List!Along(list, pos[i + 1], i, passes)
      BY <1>9, <3>1
    <3>4. pos[i] = g[i]
      BY <1>6, <3>1, <3>2, <3>3
    <3> QED  BY <3>4 DEF i
  <2>3. Nat \subseteq S
    <3> HIDE DEF S
    <3> QED  BY <2>1, <2>2, NatInd
  <2> TAKE i \in L
  <2>4. list.level - i \in Nat /\ list.level - i < list.level /\ list.level - (list.level - i) = i
    BY <1>2
  <2>5. list.level - i \in S
    BY <2>3, <2>4
  <2> HIDE DEF g
  <2> QED  BY <2>4, <2>5
<1>11. pos = g
  BY <1>9, <1>10
<1> QED  BY <1>1, <1>11

\* On the lowest level the last of the first k elements is number k.
LEMMA LastFirst ==
    ASSUME NEW list, NEW rk, List!Made(list, rk), NEW k \in 0 .. list.length
    PROVE  /\ rk[Last(list, rk, 1, k)] = k
           /\ Last(list, rk, 1, k) = IF k = 0 THEN List!Header ELSE List!at(list, rk, k)
<1> DEFINE l == Last(list, rk, 1, k)
<1>0. 1 \in 1 .. MaxLevel /\ k \in Nat
  BY NodeFacts
<1>1. PICK x \in DOMAIN list.node : rk[x] = k
  BY DEF List!Made, List!Numbered
<1>2. x \in List!Reach(list, 1)
  BY <1>1, NodeFacts
<1>3. l \in DOMAIN list.node /\ rk[l] <= k /\ rk[x] <= rk[l]
  BY <1>0, <1>1, <1>2, LastFacts
<1> HIDE DEF l
<1>4. rk[l] = k
  BY <1>0, <1>1, <1>3, NodeFacts
<1>5. CASE k = 0
  BY <1>3, <1>4, <1>5, NodeFacts DEF l
<1>6. CASE k # 0
  <2>1. l \in List!Elements(list)
    BY <1>3, <1>4, <1>6, NodeFacts
  <2> QED  BY <2>1, <1>4, <1>6, AtFacts DEF l
<1> QED  BY <1>4, <1>5, <1>6 DEF l

\* What holds of the first elements only holds of the first k for some k.
LEMMA Threshold ==
    ASSUME NEW list, NEW rk, List!Made(list, rk), NEW S,
           \A x, y \in List!Elements(list) : x \in S /\ rk[y] < rk[x] => y \in S
    PROVE  \E k \in 0 .. list.length : \A x \in List!Elements(list) : x \in S <=> rk[x] <= k
<1> DEFINE T == {0} \cup {rk[x] : x \in S \cap List!Elements(list)}
<1>0. list.length \in Nat /\ \A x \in List!Elements(list) : rk[x] \in 1 .. list.length
  BY NodeFacts, AtFacts
<1>1. T \subseteq Nat /\ T # {} /\ \A j \in T : j <= list.length
  BY <1>0
<1>2. PICK k \in T : \A j \in T : j <= k
  <2> HIDE DEF T
  <2> QED  BY <1>0, <1>1, GreatestNat
<1>3. k \in 0 .. list.length
  BY <1>0, <1>1, <1>2
<1>4. ASSUME NEW x \in List!Elements(list) PROVE x \in S <=> rk[x] <= k
  <2>1. x \in S => rk[x] <= k
    BY <1>2
  <2>2. ASSUME rk[x] <= k PROVE x \in S
    <3>1. PICK y \in S \cap List!Elements(list) : k = rk[y]
      BY <1>0, <1>2, <2>2
    <3>2. x \in DOMAIN list.node /\ y \in DOMAIN list.node
      BY <3>1 DEF List!Elements
    <3>3. CASE rk[x] = rk[y]
      BY <3>1, <3>2, <3>3, NodeFacts
    <3>4. CASE rk[x] < rk[y]
      BY <3>1, <3>4
    <3> QED  BY <3>1, <3>3, <3>4, <2>2, <1>0
  <2> QED  BY <2>1, <2>2
<1> QED  BY <1>3, <1>4

\* The search for the place of a score and a member.
LEMMA BeforeIs ==
    ASSUME NEW list, NEW rk, List!Made(list, rk), NEW score \in Int, NEW m \in Nat
    PROVE  \E k \in 0 .. list.length :
              /\ \A x \in List!Elements(list) :
                    List!Precedes(list.node[x].score, x, score, m) <=> rk[x] <= k
              /\ List!Before(list, score, m)
                    = [i \in 1 .. list.level |-> Pos(rk, Last(list, rk, i, k))]
<1> DEFINE S == {x \in List!Elements(list) : List!Precedes(list.node[x].score, x, score, m)}
           passes == {p \in List!Positions(list) :
                        List!Precedes(list.node[p.at].score, p.at, score, m)}
<1>1. \A x \in List!Elements(list) : x \in DOMAIN list.node /\ x \in Nat
                                     /\ list.node[x].score \in Int /\ rk[x] \in Nat
  BY NodeFacts DEF List!Elements
<1>2. \A x, y \in List!Elements(list) : x \in S /\ rk[y] < rk[x] => y \in S
  <2> SUFFICES ASSUME NEW x \in List!Elements(list), NEW y \in List!Elements(list),
                      x \in S, rk[y] < rk[x]
               PROVE  y \in S
    OBVIOUS
  <2>1. List!Precedes(list.node[y].score, y, list.node[x].score, x)
    BY SortedFacts
  <2> QED  BY <2>1, <1>1 DEF List!Precedes
<1>3. PICK k \in 0 .. list.length : \A x \in List!Elements(list) : x \in S <=> rk[x] <= k
  <2> HIDE DEF S
  <2> QED  BY <1>2, Threshold
<1>4. PassesUpTo(list, rk, k, passes)
  <2>1. \A x \in List!Elements(list) : Pos(rk, x) \in List!Positions(list)
    BY <1>1 DEF Pos, List!Positions
  <2> QED  BY <1>3, <2>1 DEF PassesUpTo, Pos
<1>5. k \in Nat
  BY <1>3, NodeFacts
<1>6. List!Before(list, score, m) = [i \in 1 .. list.level |-> Pos(rk, Last(list, rk, i, k))]
  <2>1. List!Before(list, score, m) = List!Descend(list, passes)
    BY DEF List!Before
  <2> HIDE DEF passes
  <2> QED  BY <2>1, <1>4, <1>5, DescendIs
<1> QED  BY <1>3, <1>6

-----------------------------------------------------------------------------
(* Insertion.                                                               *)

\* The numbers once m has come in behind the first k elements.
Renumbered(rk, m, k) ==
    [x \in DOMAIN rk \cup {m} |-> IF x = m THEN k + 1
                                  ELSE IF rk[x] > k THEN rk[x] + 1
                                  ELSE rk[x]]

\* The lowest level leads from number to number.
LEMMA FirstNext ==
    ASSUME NEW list, NEW rk, List!Made(list, rk), NEW x \in DOMAIN list.node
    PROVE  List!Forward(list, x, 1) = List!at(list, rk, rk[x] + 1)
<1> DEFINE v == List!Forward(list, x, 1)
<1>0. 1 \in 1 .. MaxLevel /\ list.length \in Nat /\ rk[x] \in 0 .. list.length
      /\ x \in List!Reach(list, 1)
  BY NodeFacts
<1>1. \A z \in DOMAIN list.node : z \in List!Reach(list, 1) /\ rk[z] \in 0 .. list.length
  BY NodeFacts
<1>2. /\ v = List!NULL => \A z \in List!Reach(list, 1) : rk[z] <= rk[x]
      /\ v # List!NULL => /\ v \in List!Elements(list)
                          /\ rk[v] > rk[x]
                          /\ \A z \in List!Reach(list, 1) : rk[z] > rk[x] => rk[v] <= rk[z]
  BY <1>0, NextFacts
<1> HIDE DEF v
<1>3. CASE rk[x] = list.length
  <2>1. List!at(list, rk, rk[x] + 1) = List!NULL
    BY <1>0, <1>3 DEF List!at
  <2>2. v = List!NULL
    <3>1. v # List!NULL => rk[v] \in 1 .. list.length
      BY <1>2, AtFacts
    <3> QED  BY <1>0, <1>2, <1>3, <3>1
  <2> QED  BY <2>1, <2>2 DEF v
<1>4. CASE rk[x] # list.length
  <2> DEFINE y == List!at(list, rk, rk[x] + 1)
  <2>1. rk[x] + 1 \in 1 .. list.length
    BY <1>0, <1>4
  <2>2. y \in List!Elements(list) /\ rk[y] = rk[x] + 1
    BY <2>1, AtFacts
  <2> HIDE DEF y
  <2>3. y \in DOMAIN list.node /\ y \in List!Reach(list, 1)
    BY <2>2, <1>1 DEF List!Elements
  <2>4. v # List!NULL
    BY <1>0, <1>2, <2>2, <2>3
  <2>5. v \in DOMAIN list.node /\ rk[v] > rk[x] /\ rk[v] <= rk[y]
    BY <1>0, <1>2, <2>2, <2>3, <2>4 DEF List!Elements
  <2>6. rk[v] = rk[y]
    BY <1>0, <1>1, <2>2, <2>5
  <2>7. v = y
    BY <2>3, <2>5, <2>6, NodeFacts
  <2> QED  BY <2>7 DEF v, y
<1> QED  BY <1>3, <1>4

LEMMA AtIs ==
    ASSUME NEW list, NEW rk, NEW x \in List!Elements(list), rk[x] \in 1 .. list.length,
           \A y \in List!Elements(list) : rk[y] = rk[x] => y = x
    PROVE  List!at(list, rk, rk[x]) = x
BY DEF List!at

\* new is list with m in it, on h levels, behind the first k elements.
Lengthened(list, rk, score, m, h, k, depth, new) ==
    LET last(i) == Last(list, rk, i, k)
        next == List!at(list, rk, k + 1)
    IN  /\ new.level = depth
        /\ new.length = list.length + 1
        /\ new.tail = IF next = List!NULL THEN m ELSE list.tail
        /\ DOMAIN new.node = DOMAIN list.node \cup {m}
        /\ new.node[m] =
             [score |-> score,
              backward |-> List!at(list, rk, k),
              forward |-> [i \in 1 .. h |-> List!Forward(list, last(i), i)],
              span |-> [i \in 1 .. h |->
                 (IF i <= list.level THEN list.node[last(i)].span[i] ELSE list.length)
                 - (k - rk[last(i)])]]
        /\ \A x \in DOMAIN list.node : x # m =>
             new.node[x] =
               [score |-> list.node[x].score,
                backward |-> IF x = next THEN m ELSE list.node[x].backward,
                forward |-> [i \in DOMAIN list.node[x].forward |->
                   IF i <= h /\ last(i) = x THEN m ELSE list.node[x].forward[i]],
                span |-> [i \in DOMAIN list.node[x].span |->
                   IF i > depth \/ last(i) # x THEN list.node[x].span[i]
                   ELSE IF i <= h THEN k - rk[x] + 1
                   ELSE list.node[x].span[i] + 1]]

LEMMA InsertForm ==
    ASSUME NEW list, NEW rk, List!Made(list, rk), NEW score \in Int, NEW m \in Nat,
           NEW h \in 1 .. MaxLevel, NEW k \in 0 .. list.length,
           List!Before(list, score, m)
              = [i \in 1 .. list.level |-> Pos(rk, Last(list, rk, i, k))]
    PROVE  Lengthened(list, rk, score, m, h, k, IF h > list.level THEN h ELSE list.level,
                 List!slInsert(list, score, m, h))
<1> DEFINE last(i) == Last(list, rk, i, k)
           depth == IF h > list.level THEN h ELSE list.level
           update == [i \in 1 .. depth |->
                        IF i <= list.level THEN List!Before(list, score, m)[i] ELSE List!Top]
<1>0. list.level \in 1 .. MaxLevel /\ MaxLevel \in Nat /\ k \in Nat /\ list.length \in Nat
  BY NodeFacts
<1>1. depth \in 1 .. MaxLevel /\ h <= depth /\ list.level <= depth
  BY <1>0
<1>2. \A i \in 1 .. MaxLevel : last(i) \in DOMAIN list.node /\ rk[last(i)] \in Nat /\ rk[last(i)] <= k
  <2> TAKE i \in 1 .. MaxLevel
  <2>1. last(i) \in DOMAIN list.node /\ rk[last(i)] <= k
    BY <1>0, LastFacts
  <2> HIDE DEF last
  <2> QED  BY <2>1, NodeFacts
<1>3. \A i \in 1 .. depth : update[i] = Pos(rk, last(i))
  <2> TAKE i \in 1 .. depth
  <2>1. CASE i <= list.level
    BY <2>1, <1>0
  <2>2. CASE i > list.level
    <3>1. i \in 1 .. MaxLevel
      BY <1>0, <1>1
    <3>2. last(i) = List!Header
      BY <2>2, <3>1, <1>0, LastFacts, LevelFacts
    <3>3. rk[List!Header] = 0
      BY NodeFacts
    <3>4. update[i] = List!Top
      BY <2>2, <1>0
    <3> QED  BY <3>2, <3>3, <3>4 DEF List!Top, Pos
  <2> QED  BY <2>1, <2>2, <1>0
<1>4. \A i \in 1 .. depth : update[i].at = last(i) /\ update[i].rank = rk[last(i)]
  <2> TAKE i \in 1 .. depth
  <2>1. update[i] = Pos(rk, last(i))
    BY <1>3
  <2> HIDE DEF update, last
  <2> QED  BY <2>1 DEF Pos
<1>5. 1 \in 1 .. depth /\ rk[last(1)] = k /\ (last(1) = List!Header <=> k = 0)
      /\ (k # 0 => last(1) = List!at(list, rk, k))
  <2>1. 1 \in 1 .. depth /\ rk[last(1)] = k /\ 1 \in 1 .. MaxLevel
        /\ (k # 0 => last(1) = List!at(list, rk, k))
    BY <1>0, <1>1, LastFirst
  <2>2. last(1) \in DOMAIN list.node
    BY <1>2, <2>1
  <2> QED  BY <2>1, <2>2, NodeFacts
<1> DEFINE old(i) == IF i <= list.level THEN list.node[update[i].at].span[i] ELSE list.length
           gap(i) == update[1].rank - update[i].rank
           fresh == [score |-> score,
                     backward |-> IF update[1].at = List!Header THEN List!NULL ELSE update[1].at,
                     forward |-> [i \in 1 .. h |-> List!Forward(list, update[i].at, i)],
                     span |-> [i \in 1 .. h |-> old(i) - gap(i)]]
           touched(x, i) == i \in 1 .. depth /\ update[i].at = x
           relink(x) ==
             [list.node[x] EXCEPT
               !.forward = [i \in DOMAIN @ |-> IF touched(x, i) /\ i <= h THEN m ELSE @[i]],
               !.span = [i \in DOMAIN @ |-> IF ~touched(x, i) THEN @[i]
                                            ELSE IF i <= h THEN gap(i) + 1 ELSE @[i] + 1],
               !.backward = IF x = fresh.forward[1] THEN m ELSE @]
<1>6. List!slInsert(list, score, m, h) =
        [level |-> depth, length |-> list.length + 1,
         tail |-> IF fresh.forward[1] = List!NULL THEN m ELSE list.tail,
         node |-> [x \in DOMAIN list.node \cup {m} |-> IF x = m THEN fresh ELSE relink(x)]]
  BY DEF List!slInsert
<1> HIDE DEF update, depth, last
<1>7. fresh = [score |-> score,
               backward |-> List!at(list, rk, k),
               forward |-> [i \in 1 .. h |-> List!Forward(list, last(i), i)],
               span |-> [i \in 1 .. h |->
                        (IF i <= list.level THEN list.node[last(i)].span[i] ELSE list.length)
                        - (k - rk[last(i)])]]
  <2>1. \A i \in 1 .. h : i \in 1 .. depth
    BY <1>0, <1>1
  <2>2. \A i \in 1 .. h : /\ List!Forward(list, update[i].at, i) = List!Forward(list, last(i), i)
                          /\ old(i) = IF i <= list.level THEN list.node[last(i)].span[i] ELSE list.length
                          /\ gap(i) = k - rk[last(i)]
    BY <2>1, <1>4, <1>5
  <2>3. (IF update[1].at = List!Header THEN List!NULL ELSE update[1].at) = List!at(list, rk, k)
    <3>1. k = 0 => List!at(list, rk, k) = List!NULL
      BY <1>0 DEF List!at
    <3> QED  BY <3>1, <1>4, <1>5
  <2> QED  BY <2>2, <2>3
<1> DEFINE next == List!at(list, rk, k + 1)
<1>8. fresh.forward[1] = next
  <2>1. 1 \in 1 .. h /\ 1 \in 1 .. MaxLevel
    BY <1>0
  <2>2. List!Forward(list, last(1), 1) = List!at(list, rk, rk[last(1)] + 1)
    BY <2>1, <1>2, FirstNext
  <2> QED  BY <2>1, <2>2, <1>5, <1>7
<1> HIDE DEF next
<1>9. ASSUME NEW x \in DOMAIN list.node
      PROVE  relink(x) =
               [score |-> list.node[x].score,
                backward |-> IF x = next THEN m ELSE list.node[x].backward,
                forward |-> [i \in DOMAIN list.node[x].forward |->
                   IF i <= h /\ last(i) = x THEN m ELSE list.node[x].forward[i]],
                span |-> [i \in DOMAIN list.node[x].span |->
                   IF i > depth \/ last(i) # x THEN list.node[x].span[i]
                   ELSE IF i <= h THEN k - rk[x] + 1
                   ELSE list.node[x].span[i] + 1]]
  <2>1. PICK g \in 1 .. MaxLevel : list.node[x] \in List!Node(g)
    BY NodeFacts
  <2>2. DOMAIN list.node[x].forward = 1 .. g /\ DOMAIN list.node[x].span = 1 .. g
    BY <2>1 DEF List!Node
  <2>3. \A i \in 1 .. g : touched(x, i) <=> i <= depth /\ last(i) = x
    BY <1>0, <1>1, <1>4
  <2>4. \A i \in 1 .. g : i <= h => i <= depth
    BY <1>0, <1>1
  <2>5. [i \in DOMAIN list.node[x].forward |-> IF touched(x, i) /\ i <= h THEN m ELSE list.node[x].forward[i]]
        = [i \in DOMAIN list.node[x].forward |->
                    IF i <= h /\ last(i) = x THEN m ELSE list.node[x].forward[i]]
    BY <2>2, <2>3, <2>4
  <2>6. \A i \in 1 .. g : touched(x, i) => gap(i) = k - rk[x]
    BY <1>4, <1>5
  <2>7. \A i \in 1 .. g : i > depth \/ last(i) # x <=> ~touched(x, i)
    BY <2>3, <1>0, <1>1
  <2> HIDE DEF touched, gap, fresh
  <2>8. [i \in DOMAIN list.node[x].span |-> IF ~touched(x, i) THEN list.node[x].span[i]
                                  ELSE IF i <= h THEN gap(i) + 1 ELSE list.node[x].span[i] + 1]
        = [i \in DOMAIN list.node[x].span |->
                    IF i > depth \/ last(i) # x THEN list.node[x].span[i]
                    ELSE IF i <= h THEN k - rk[x] + 1
                    ELSE list.node[x].span[i] + 1]
    BY <2>2, <2>6, <2>7
  <2>9. relink(x) =
          [score |-> list.node[x].score,
           backward |-> IF x = fresh.forward[1] THEN m ELSE list.node[x].backward,
           forward |-> [i \in DOMAIN list.node[x].forward |->
                          IF touched(x, i) /\ i <= h THEN m ELSE list.node[x].forward[i]],
           span |-> [i \in DOMAIN list.node[x].span |->
                          IF ~touched(x, i) THEN list.node[x].span[i]
                          ELSE IF i <= h THEN gap(i) + 1 ELSE list.node[x].span[i] + 1]]
    <3> DEFINE forward == [i \in DOMAIN list.node[x].forward |->
                          IF touched(x, i) /\ i <= h THEN m ELSE list.node[x].forward[i]]
               span == [i \in DOMAIN list.node[x].span |->
                          IF ~touched(x, i) THEN list.node[x].span[i]
                          ELSE IF i <= h THEN gap(i) + 1 ELSE list.node[x].span[i] + 1]
               backward == IF x = fresh.forward[1] THEN m ELSE list.node[x].backward
    <3>1. relink(x) = [list.node[x] EXCEPT !.forward = forward, !.span = span, !.backward = backward]
      OBVIOUS
    <3> HIDE DEF relink, forward, span, backward
    <3>2. list.node[x] = [score |-> list.node[x].score, backward |-> list.node[x].backward,
                          forward |-> list.node[x].forward, span |-> list.node[x].span]
      BY <2>1 DEF List!Node
    <3>3. relink(x) = [score |-> list.node[x].score, backward |-> backward,
                       forward |-> forward, span |-> span]
      BY <3>1, <3>2
    <3> QED  BY <3>3 DEF forward, span, backward
  <2> HIDE DEF relink
  <2> QED  BY <2>5, <2>8, <2>9, <1>8
<1> DEFINE new == List!slInsert(list, score, m, h)
<1> HIDE DEF fresh, relink
<1>10. /\ new.level = depth
       /\ new.length = list.length + 1
       /\ new.tail = IF fresh.forward[1] = List!NULL THEN m ELSE list.tail
       /\ DOMAIN new.node = DOMAIN list.node \cup {m}
       /\ new.node[m] = fresh
       /\ \A x \in DOMAIN list.node : x # m => new.node[x] = relink(x)
  BY <1>6
<1> HIDE DEF new
<1>11. \A x \in DOMAIN list.node : x # m =>
          new.node[x] =
               [score |-> list.node[x].score,
                backward |-> IF x = next THEN m ELSE list.node[x].backward,
                forward |-> [i \in DOMAIN list.node[x].forward |->
                   IF i <= h /\ last(i) = x THEN m ELSE list.node[x].forward[i]],
                span |-> [i \in DOMAIN list.node[x].span |->
                   IF i > depth \/ last(i) # x THEN list.node[x].span[i]
                   ELSE IF i <= h THEN k - rk[x] + 1
                   ELSE list.node[x].span[i] + 1]]
  BY <1>9, <1>10
<1> HIDE DEF new
<1>12. Lengthened(list, rk, score, m, h, k, depth, new)
  <2>1. new.tail = IF next = List!NULL THEN m ELSE list.tail
    BY <1>8, <1>10
  <2>2. new.node[m] = [score |-> score,
               backward |-> List!at(list, rk, k),
               forward |-> [i \in 1 .. h |-> List!Forward(list, last(i), i)],
               span |-> [i \in 1 .. h |->
                        (IF i <= list.level THEN list.node[last(i)].span[i] ELSE list.length)
                        - (k - rk[last(i)])]]
    BY <1>7, <1>10
  <2> QED  BY <2>1, <2>2, <1>10, <1>11 DEF Lengthened, next, last
<1> QED  BY <1>12 DEF depth, new

LEMMA GrownMade ==
    ASSUME NEW list, NEW rk, List!Made(list, rk), NEW score \in Int, NEW m \in Member,
           m \notin List!Elements(list), NEW h \in 1 .. MaxLevel, NEW k \in 0 .. list.length,
           \A x \in List!Elements(list) :
              List!Precedes(list.node[x].score, x, score, m) <=> rk[x] <= k,
           NEW depth, depth = IF h > list.level THEN h ELSE list.level,
           NEW new, Lengthened(list, rk, score, m, h, k, depth, new)
    PROVE  /\ List!Made(new, Renumbered(rk, m, k))
           /\ List!Elements(new) = List!Elements(list) \cup {m}
           /\ new.node[m].score = score
           /\ \A x \in List!Elements(list) : new.node[x].score = list.node[x].score
<1> DEFINE N == DOMAIN list.node
           E == List!Elements(list)
           last(i) == Last(list, rk, i, k)
           first == List!at(list, rk, k + 1)
           rk2 == Renumbered(rk, m, k)
<1>1. m \in Nat /\ m # List!Header /\ m # List!NULL /\ m \notin N
  <2>1. m \in Nat /\ m # 0
    BY RanksFit
  <2>2. m # List!Header /\ m # List!NULL
    BY <2>1 DEF List!Header, List!NULL
  <2> QED  BY <2>1, <2>2 DEF List!Elements
<1>2. \A x \in E : List!Precedes(list.node[x].score, x, score, m) <=> rk[x] <= k
  OBVIOUS
<1>3. /\ new.level = depth
      /\ new.length = list.length + 1
      /\ new.tail = IF first = List!NULL THEN m ELSE list.tail
      /\ DOMAIN new.node = N \cup {m}
  BY DEF Lengthened
<1>m. new.node[m] =
        [score |-> score,
         backward |-> List!at(list, rk, k),
         forward |-> [i \in 1 .. h |-> List!Forward(list, last(i), i)],
         span |-> [i \in 1 .. h |->
            (IF i <= list.level THEN list.node[last(i)].span[i] ELSE list.length)
            - (k - rk[last(i)])]]
  BY DEF Lengthened
<1>x. \A x \in N :
        new.node[x] =
           [score |-> list.node[x].score,
            backward |-> IF x = first THEN m ELSE list.node[x].backward,
            forward |-> [i \in DOMAIN list.node[x].forward |->
               IF i <= h /\ last(i) = x THEN m ELSE list.node[x].forward[i]],
            span |-> [i \in DOMAIN list.node[x].span |->
               IF i > depth \/ last(i) # x THEN list.node[x].span[i]
               ELSE IF i <= h THEN k - rk[x] + 1
               ELSE list.node[x].span[i] + 1]]
  BY <1>1 DEF Lengthened
<1> HIDE DEF first
<1>4. /\ list.level \in 1 .. MaxLevel /\ MaxLevel \in Nat /\ k \in Nat /\ list.length \in Nat
      /\ k <= list.length /\ depth \in 1 .. MaxLevel /\ h <= depth /\ list.level <= depth
      /\ (depth = h \/ depth = list.level)
      /\ List!Header \in N /\ E \subseteq Member /\ E = N \ {List!Header}
  <2>1. /\ list.level \in 1 .. MaxLevel /\ MaxLevel \in Nat /\ list.length \in Nat
        /\ List!Header \in N /\ E \subseteq Member
    BY NodeFacts
  <2> QED  BY <2>1 DEF List!Elements
<1>5. /\ \A i \in 1 .. MaxLevel :
            /\ last(i) \in List!Reach(list, i) /\ last(i) \in N /\ rk[last(i)] <= k
            /\ \A z \in List!Reach(list, i) : rk[z] <= k => rk[z] <= rk[last(i)]
      /\ \A x \in N : rk[x] \in 0 .. list.length
      /\ \A x, y \in N : rk[x] = rk[y] => x = y
      /\ \A x \in N : rk[x] = 0 <=> x = List!Header
  <2>1. \A i \in 1 .. MaxLevel :
            /\ last(i) \in List!Reach(list, i) /\ last(i) \in N /\ rk[last(i)] <= k
            /\ \A z \in List!Reach(list, i) : rk[z] <= k => rk[z] <= rk[last(i)]
    BY <1>4, LastFacts
  <2> HIDE DEF last
  <2> QED  BY <2>1, NodeFacts
\* The fields of the nodes.
<1>6. ASSUME NEW x \in N
      PROVE  \E g \in 1 .. MaxLevel :
               /\ list.node[x] \in List!Node(g)
               /\ new.node[x] \in List!Node(g)
               /\ new.node[x].score = list.node[x].score
               /\ \A i \in 1 .. g :
                     /\ new.node[x].forward[i] =
                           IF i <= h /\ last(i) = x THEN m ELSE list.node[x].forward[i]
                     /\ new.node[x].span[i] =
                           IF i > depth \/ last(i) # x THEN list.node[x].span[i]
                           ELSE IF i <= h THEN k - rk[x] + 1
                           ELSE list.node[x].span[i] + 1
               /\ new.node[x].backward = IF x = first THEN m ELSE list.node[x].backward
  <2>1. PICK g \in 1 .. MaxLevel : list.node[x] \in List!Node(g)
    BY NodeFacts
  <2> DEFINE forward == [i \in 1 .. g |->
                   IF i <= h /\ last(i) = x THEN m ELSE list.node[x].forward[i]]
             span == [i \in 1 .. g |->
                   IF i > depth \/ last(i) # x THEN list.node[x].span[i]
                   ELSE IF i <= h THEN k - rk[x] + 1
                   ELSE list.node[x].span[i] + 1]
             backward == IF x = first THEN m ELSE list.node[x].backward
  <2>2. /\ list.node[x].forward \in [1 .. g -> Member \cup {List!NULL}]
        /\ list.node[x].span \in [1 .. g -> Int]
        /\ list.node[x].backward \in Member \cup {List!NULL}
        /\ list.node[x].score \in Int
        /\ list.node[x] = [score |-> list.node[x].score, backward |-> list.node[x].backward,
                           forward |-> list.node[x].forward, span |-> list.node[x].span]
    BY <2>1 DEF List!Node
  <2>3. DOMAIN list.node[x].forward = 1 .. g /\ DOMAIN list.node[x].span = 1 .. g
    BY <2>2
  <2>4. forward \in [1 .. g -> Member \cup {List!NULL}]
    BY <2>2
  <2>5. span \in [1 .. g -> Int]
    <3>1. rk[x] \in Int /\ k \in Int
      BY <1>4, <1>5
    <3>2. \A i \in 1 .. g : list.node[x].span[i] \in Int
      BY <2>2
    <3>3. k - rk[x] + 1 \in Int
      BY <3>1
    <3>4. \A i \in 1 .. g : list.node[x].span[i] + 1 \in Int
      BY <3>2
    <3> HIDE DEF last
    <3>5. \A i \in 1 .. g : (IF i > depth \/ last(i) # x THEN list.node[x].span[i]
                            ELSE IF i <= h THEN k - rk[x] + 1
                            ELSE list.node[x].span[i] + 1) \in Int
      BY <3>2, <3>3, <3>4
    <3> QED  BY <3>5
  <2>6. backward \in Member \cup {List!NULL}
    BY <2>2
  <2>7. new.node[x] = [score |-> list.node[x].score, backward |-> backward,
                       forward |-> forward, span |-> span]
    BY <2>3, <1>x
  <2>8. new.node[x] \in List!Node(g)
    <3> HIDE DEF forward, span, backward
    <3> QED  BY <2>2, <2>4, <2>5, <2>6, <2>7 DEF List!Node
  <2> HIDE DEF last
  <2>9. /\ new.node[x].score = list.node[x].score
        /\ \A i \in 1 .. g :
              /\ new.node[x].forward[i] =
                    IF i <= h /\ last(i) = x THEN m ELSE list.node[x].forward[i]
              /\ new.node[x].span[i] =
                    IF i > depth \/ last(i) # x THEN list.node[x].span[i]
                    ELSE IF i <= h THEN k - rk[x] + 1
                    ELSE list.node[x].span[i] + 1
        /\ new.node[x].backward = IF x = first THEN m ELSE list.node[x].backward
    BY <2>7
  <2> HIDE DEF forward, span, backward
  <2> QED  BY <2>1, <2>8, <2>9
<1>7. /\ \A x \in N : /\ DOMAIN new.node[x].forward = DOMAIN list.node[x].forward
                      /\ \E g \in 1 .. MaxLevel : new.node[x] \in List!Node(g)
                      /\ new.node[x].score = list.node[x].score
                      /\ new.node[x].backward = IF x = first THEN m ELSE list.node[x].backward
      /\ \A i \in 1 .. MaxLevel : \A x \in List!Reach(list, i) :
            /\ List!Forward(new, x, i) = IF i <= h /\ last(i) = x THEN m ELSE List!Forward(list, x, i)
            /\ new.node[x].span[i] =
                           IF i > depth \/ last(i) # x THEN list.node[x].span[i]
                           ELSE IF i <= h THEN k - rk[x] + 1
                           ELSE list.node[x].span[i] + 1
  <2>1. ASSUME NEW x \in N
        PROVE  /\ DOMAIN new.node[x].forward = DOMAIN list.node[x].forward
               /\ \E g \in 1 .. MaxLevel : new.node[x] \in List!Node(g)
               /\ new.node[x].score = list.node[x].score
               /\ new.node[x].backward = IF x = first THEN m ELSE list.node[x].backward
               /\ \A i \in DOMAIN list.node[x].forward :
                     /\ new.node[x].forward[i] =
                           IF i <= h /\ last(i) = x THEN m ELSE list.node[x].forward[i]
                     /\ new.node[x].span[i] =
                           IF i > depth \/ last(i) # x THEN list.node[x].span[i]
                           ELSE IF i <= h THEN k - rk[x] + 1
                           ELSE list.node[x].span[i] + 1
    <3> HIDE DEF last
    <3>1. PICK g \in 1 .. MaxLevel :
               /\ list.node[x] \in List!Node(g)
               /\ new.node[x] \in List!Node(g)
               /\ new.node[x].score = list.node[x].score
               /\ \A i \in 1 .. g :
                     /\ new.node[x].forward[i] =
                           IF i <= h /\ last(i) = x THEN m ELSE list.node[x].forward[i]
                     /\ new.node[x].span[i] =
                           IF i > depth \/ last(i) # x THEN list.node[x].span[i]
                           ELSE IF i <= h THEN k - rk[x] + 1
                           ELSE list.node[x].span[i] + 1
               /\ new.node[x].backward = IF x = first THEN m ELSE list.node[x].backward
      BY <1>6
    <3>2. DOMAIN list.node[x].forward = 1 .. g /\ DOMAIN new.node[x].forward = 1 .. g
      BY <3>1 DEF List!Node
    <3> QED  BY <3>1, <3>2
  <2> HIDE DEF last
  <2>2. \A i \in 1 .. MaxLevel : \A x \in List!Reach(list, i) :
           x \in N /\ i \in DOMAIN list.node[x].forward
    BY DEF List!Reach
  <2> QED  BY <2>1, <2>2 DEF List!Forward
<1>8. \A i \in 1 .. MaxLevel :
         List!Reach(new, i) = List!Reach(list, i) \cup (IF i <= h THEN {m} ELSE {})
  <2> TAKE i \in 1 .. MaxLevel
  <2>1. \A x \in N : x \in List!Reach(new, i) <=> x \in List!Reach(list, i)
    BY <1>3, <1>7 DEF List!Reach
  <2>2. m \in List!Reach(new, i) <=> i <= h
    <3>1. DOMAIN new.node[m].forward = 1 .. h
      BY <1>m
    <3> QED  BY <3>1, <1>3 DEF List!Reach
  <2>3. List!Reach(new, i) \subseteq N \cup {m} /\ List!Reach(list, i) \subseteq N
    BY <1>3 DEF List!Reach
  <2> QED  BY <2>1, <2>2, <2>3
<1>9. List!Elements(new) = E \cup {m}
  BY <1>1, <1>3 DEF List!Elements
\* The numbers.
<1>10. /\ rk2[m] = k + 1
       /\ \A x \in N : rk2[x] = IF rk[x] > k THEN rk[x] + 1 ELSE rk[x]
       /\ DOMAIN rk2 = N \cup {m}
  <2>1. DOMAIN rk = N
    BY DEF List!Made, List!Numbered
  <2> QED  BY <2>1, <1>1 DEF Renumbered
<1> HIDE DEF rk2, last
<1>11. \A x \in N : /\ rk2[x] \in 0 .. list.length + 1 /\ rk2[x] # k + 1
                    /\ (rk2[x] > k + 1 <=> rk[x] > k) /\ (rk2[x] < k + 1 <=> rk[x] <= k)
  BY <1>4, <1>5, <1>10
<1>12. \A x, y \in N : /\ rk2[x] < rk2[y] <=> rk[x] < rk[y]
                       /\ rk2[x] <= rk2[y] <=> rk[x] <= rk[y]
                       /\ rk2[x] = rk2[y] => x = y
  BY <1>4, <1>5, <1>10
<1>13. List!Shaped(new)
  <2>1. new.node[m] \in List!Node(h)
    <3>1. \A i \in 1 .. h : /\ List!Forward(list, last(i), i) \in Member \cup {List!NULL}
                            /\ (IF i <= list.level THEN list.node[last(i)].span[i] ELSE list.length)
                               - (k - rk[last(i)]) \in Int
      <4> TAKE i \in 1 .. h
      <4>1. i \in 1 .. MaxLevel
        BY <1>4
      <4>2. List!Forward(list, last(i), i) \in Member \cup {List!NULL}
        BY <4>1, <1>4, <1>5, NextFacts
      <4>3. last(i) \in N /\ i \in DOMAIN list.node[last(i)].forward
        BY <4>1, <1>5 DEF List!Reach
      <4>4. PICK g \in 1 .. MaxLevel : list.node[last(i)] \in List!Node(g)
        BY <4>3, NodeFacts
      <4>5. list.node[last(i)].span[i] \in Int
        BY <4>3, <4>4 DEF List!Node
      <4>6. rk[last(i)] \in Int
        BY <4>3, <1>5
      <4> QED  BY <4>2, <4>5, <4>6, <1>4
    <3>2. List!at(list, rk, k) \in Member \cup {List!NULL}
      BY <1>4, AtFacts
    <3> QED  BY <3>1, <3>2, <1>m DEF List!Node
  <2>2. \A x \in DOMAIN new.node : \E g \in 1 .. MaxLevel : new.node[x] \in List!Node(g)
    BY <1>3, <1>7, <2>1
  <2>3. List!Header \in DOMAIN new.node /\ DOMAIN new.node[List!Header].forward = 1 .. MaxLevel
    BY <1>3, <1>4, <1>7, NodeFacts
  <2>4. List!Elements(new) \subseteq Member
    BY <1>4, <1>9
  <2>5. new.level \in 1 .. MaxLevel /\ new.length \in Nat
    BY <1>3, <1>4
  <2> QED  BY <2>2, <2>3, <2>4, <2>5 DEF List!Shaped
<1>14. List!Numbered(new, rk2)
  <2>1. rk2 \in [DOMAIN new.node -> 0 .. new.length]
    <3>1. \A x \in N \cup {m} : rk2[x] \in 0 .. list.length + 1
      BY <1>4, <1>10, <1>11
    <3>2. rk2 = [x \in N \cup {m} |-> rk2[x]]
      BY <1>10 DEF rk2, Renumbered
    <3> QED  BY <3>1, <3>2, <1>3
  <2>2. rk2[List!Header] = 0
    BY <1>4, <1>5, <1>10
  <2>3. \A x, y \in DOMAIN new.node : rk2[x] = rk2[y] => x = y
    BY <1>3, <1>10, <1>11, <1>12
  <2>4. \A r \in 0 .. new.length : \E x \in DOMAIN new.node : rk2[x] = r
    <3> TAKE r \in 0 .. new.length
    <3>1. \A s \in 0 .. list.length : \E x \in N : rk[x] = s
      BY DEF List!Made, List!Numbered
    <3>2. CASE r = k + 1
      BY <3>2, <1>3, <1>10
    <3>3. CASE r <= k
      <4>1. PICK x \in N : rk[x] = r
        BY <3>1, <3>3, <1>3, <1>4
      <4> QED  BY <4>1, <3>3, <1>3, <1>4, <1>10
    <3>4. CASE r > k + 1
      <4>1. r - 1 \in 0 .. list.length
        BY <3>4, <1>3, <1>4
      <4>2. PICK x \in N : rk[x] = r - 1
        BY <3>1, <4>1
      <4> QED  BY <4>2, <3>4, <1>3, <1>4, <1>10
    <3> QED  BY <3>2, <3>3, <3>4, <1>3, <1>4
  <2>5. \A x, y \in List!Elements(new) :
           rk2[x] < rk2[y] <=> List!Precedes(new.node[x].score, x, new.node[y].score, y)
    <3> SUFFICES ASSUME NEW x \in E \cup {m}, NEW y \in E \cup {m}
                 PROVE  rk2[x] < rk2[y] <=> List!Precedes(new.node[x].score, x, new.node[y].score, y)
      BY <1>9
    <3>1. \A z \in E : z \in N /\ z # m /\ z \in Nat /\ list.node[z].score \in Int
                       /\ new.node[z].score = list.node[z].score
      BY <1>1, <1>4, <1>7, NodeFacts
    <3>2. new.node[m].score = score
      BY <1>m
    <3>3. CASE x = m /\ y = m
      BY <3>2, <3>3, <1>1, <1>4, <1>10 DEF List!Precedes
    <3>4. CASE x \in E /\ y \in E
      BY <3>1, <3>4, <1>12, SortedFacts
    <3>5. CASE x \in E /\ y = m
      <4>1. List!Precedes(list.node[x].score, x, score, m) <=> rk[x] <= k
        BY <1>2, <3>5
      <4> QED  BY <4>1, <3>1, <3>2, <3>5, <1>10, <1>11
    <3>6. CASE x = m /\ y \in E
      <4>1. List!Precedes(list.node[y].score, y, score, m) <=> rk[y] <= k
        BY <1>2, <3>6
      <4>2. List!Precedes(score, m, list.node[y].score, y)
            <=> ~ List!Precedes(list.node[y].score, y, score, m)
        BY <3>1, <3>6, <1>1 DEF List!Precedes
      <4>3. rk[y] \in Int /\ y \in N
        BY <3>1, <3>6, <1>5
      <4>4. rk2[m] < rk2[y] <=> ~(rk[y] <= k)
        BY <4>3, <1>4, <1>10, <1>11
      <4> QED  BY <4>1, <4>2, <4>4, <3>1, <3>2, <3>6
    <3> QED  BY <3>3, <3>4, <3>5, <3>6
  <2> QED  BY <2>1, <2>2, <2>3, <2>4, <2>5 DEF List!Numbered
\* The links.
<1>15. \A i \in 1 .. MaxLevel :
         /\ List!Reach(list, i) \subseteq N
         /\ \A x \in List!Reach(list, i) :
              LET next == List!Forward(list, x, i)
              IN  /\ next = List!NULL => \A z \in List!Reach(list, i) : rk[z] <= rk[x]
                  /\ next # List!NULL => /\ next \in List!Reach(list, i)
                                         /\ rk[next] > rk[x]
                                         /\ \A z \in List!Reach(list, i) :
                                               rk[z] > rk[x] => rk[next] <= rk[z]
  BY LevelFacts, NextFacts
<1>16. \A i \in 1 .. h : List!Forward(new, m, i) = List!Forward(list, last(i), i)
  BY <1>m DEF List!Forward
<1>17. ASSUME NEW i \in 1 .. MaxLevel, NEW x \in List!Reach(new, i)
       PROVE  List!Follows(new, rk2, i, x, List!Forward(new, x, i))
  <2> DEFINE l == last(i)
             v == List!Forward(list, l, i)
  <2>1. l \in List!Reach(list, i) /\ rk[l] <= k /\ l \in N
        /\ \A z \in List!Reach(list, i) : rk[z] <= k => rk[z] <= rk[l]
    BY <1>5
  <2> HIDE DEF l
  <2>2. /\ v = List!NULL => \A z \in List!Reach(list, i) : rk[z] <= k
        /\ v # List!NULL => /\ v \in List!Reach(list, i)
                            /\ rk[v] > k
                            /\ \A z \in List!Reach(list, i) : rk[z] > k => rk[v] <= rk[z]
    <3>1. \A z \in List!Reach(list, i) : rk[z] \in Int
      BY <1>5, <1>15
    <3>2. \A z \in List!Reach(list, i) : rk[z] > k <=> rk[z] > rk[l]
      BY <2>1, <3>1, <1>4
    <3>3. \A z \in List!Reach(list, i) : rk[z] <= k <=> rk[z] <= rk[l]
      BY <2>1, <3>1, <1>4
    <3> QED  BY <2>1, <3>2, <3>3, <1>15
  <2> HIDE DEF v
  <2>3. \A z \in List!Reach(list, i) : z \in N /\ z # m /\ z # List!NULL /\ rk[z] \in Int /\ rk2[z] \in Int
                                       /\ rk2[z] # k + 1
                                       /\ (rk2[z] > k + 1 <=> rk[z] > k) /\ (rk2[z] < k + 1 <=> rk[z] <= k)
    <3> TAKE z \in List!Reach(list, i)
    <3>1. z \in N
      BY <1>15
    <3>2. z # m /\ z # List!NULL
      BY <3>1, <1>1, NodeFacts
    <3>3. rk[z] \in Int /\ rk2[z] \in Int
      BY <3>1, <1>5, <1>11
    <3> QED  BY <3>1, <3>2, <3>3, <1>11
  <2>4. \A y, z \in List!Reach(list, i) : /\ rk2[y] < rk2[z] <=> rk[y] < rk[z]
                                          /\ rk2[y] <= rk2[z] <=> rk[y] <= rk[z]
    BY <1>12, <1>15
  <2>5. List!Reach(new, i) = List!Reach(list, i) \cup (IF i <= h THEN {m} ELSE {})
    BY <1>8
  <2>6. CASE x = m
    <3>1. i <= h /\ i \in 1 .. h
      BY <2>3, <2>5, <2>6
    <3>2. List!Forward(new, m, i) = v
      BY <3>1, <1>16 DEF l, v
    <3>3. CASE v = List!NULL
      <4>1. \A z \in List!Reach(new, i) : ~(rk2[z] > rk2[m])
        BY <2>2, <2>3, <2>5, <3>3, <1>4, <1>10
      <4> QED  BY <2>6, <3>2, <3>3, <4>1 DEF List!Follows
    <3>4. CASE v # List!NULL
      <4>1. v \in List!Reach(list, i) /\ v \in List!Reach(new, i) /\ rk2[v] > rk2[m]
        BY <2>2, <2>3, <2>5, <3>4, <1>10
      <4>2. \A z \in List!Reach(new, i) : rk2[z] > rk2[m] => rk2[v] <= rk2[z]
        <5> SUFFICES ASSUME NEW z \in List!Reach(new, i), rk2[z] > rk2[m]
                     PROVE  rk2[v] <= rk2[z]
          OBVIOUS
        <5>1. z # m
          BY <1>4, <1>10
        <5>2. z \in List!Reach(list, i) /\ rk[z] > k
          BY <5>1, <2>3, <2>5, <1>10
        <5> QED  BY <5>2, <4>1, <2>2, <2>4, <3>4
      <4> QED  BY <2>6, <3>2, <4>1, <4>2 DEF List!Follows
    <3> QED  BY <3>3, <3>4
  <2>7. CASE x # m /\ i <= h /\ l = x
    <3>1. List!Forward(new, x, i) = m /\ m \in List!Reach(new, i) /\ rk2[x] < rk2[m]
      BY <2>1, <2>3, <2>5, <2>7, <1>7, <1>10 DEF l
    <3>2. \A z \in List!Reach(new, i) : rk2[z] > rk2[x] => rk2[m] <= rk2[z]
      <4> SUFFICES ASSUME NEW z \in List!Reach(new, i), rk2[z] > rk2[x]
                   PROVE  rk2[m] <= rk2[z]
        OBVIOUS
      <4>1. CASE z = m
        BY <4>1, <1>4, <1>10
      <4>2. CASE z # m
        <5>1. z \in List!Reach(list, i) /\ rk[z] > rk[l]
          BY <4>2, <2>1, <2>4, <2>5, <2>7
        <5>2. rk[z] > k
          BY <5>1, <2>1, <2>3, <1>4
        <5> QED  BY <5>1, <5>2, <2>3, <1>4, <1>10
      <4> QED  BY <4>1, <4>2
    <3>3. rk2[m] > rk2[x]
      BY <3>1, <2>1, <2>3, <2>7, <1>4, <1>10
    <3> QED  BY <3>1, <3>2, <3>3 DEF List!Follows
  <2>8. CASE x # m /\ ~(i <= h /\ l = x)
    <3> DEFINE w == List!Forward(list, x, i)
    <3>1. x \in List!Reach(list, i)
      BY <2>5, <2>8
    <3>2. List!Forward(new, x, i) = w
      BY <3>1, <2>8, <1>7 DEF l
    <3>3. /\ w = List!NULL => \A z \in List!Reach(list, i) : rk[z] <= rk[x]
          /\ w # List!NULL => /\ w \in List!Reach(list, i)
                              /\ rk[w] > rk[x]
                              /\ \A z \in List!Reach(list, i) :
                                    rk[z] > rk[x] => rk[w] <= rk[z]
      BY <3>1, <1>15
    <3> HIDE DEF w
    <3>4. i <= h => (rk[x] > k \/ (rk[x] < rk[l] /\ w # List!NULL /\ rk[w] <= k))
      <4> SUFFICES ASSUME i <= h, ~(rk[x] > k)
                   PROVE  rk[x] < rk[l] /\ w # List!NULL /\ rk[w] <= k
        OBVIOUS
      <4>1. rk[x] <= rk[l] /\ x # l
        BY <3>1, <2>1, <2>3, <2>8, <1>4
      <4>2. rk[x] < rk[l]
        BY <4>1, <3>1, <2>1, <2>3, <1>5
      <4> QED  BY <4>2, <3>1, <3>3, <2>1, <2>3, <1>4
    <3>5. CASE w = List!NULL
      <4>1. \A z \in List!Reach(new, i) : ~(rk2[z] > rk2[x])
        <5> TAKE z \in List!Reach(new, i)
        <5>1. CASE z = m
          <6>1. i <= h
            BY <5>1, <2>3, <2>5
          <6>2. rk2[x] > k + 1
            BY <6>1, <3>1, <3>4, <3>5, <2>3
          <6> QED  BY <5>1, <6>2, <3>1, <2>3, <1>4, <1>10
        <5>2. CASE z # m
          <6>1. z \in List!Reach(list, i) /\ rk[z] <= rk[x]
            BY <5>2, <3>3, <3>5, <2>5
          <6> QED  BY <6>1, <3>1, <2>3, <2>4
        <5> QED  BY <5>1, <5>2
      <4> QED  BY <3>2, <3>5, <4>1 DEF List!Follows
    <3>6. CASE w # List!NULL
      <4>1. w \in List!Reach(new, i) /\ rk2[w] > rk2[x] /\ w \in List!Reach(list, i)
        BY <3>1, <3>3, <3>6, <2>3, <2>4, <2>5
      <4>2. \A z \in List!Reach(new, i) : rk2[z] > rk2[x] => rk2[w] <= rk2[z]
        <5> SUFFICES ASSUME NEW z \in List!Reach(new, i), rk2[z] > rk2[x]
                     PROVE  rk2[w] <= rk2[z]
          OBVIOUS
        <5>1. CASE z = m
          <6>1. i <= h
            BY <5>1, <2>3, <2>5
          <6>2. ~(rk[x] > k)
            BY <5>1, <3>1, <2>3, <1>4, <1>10
          <6>3. rk[w] <= k
            BY <6>1, <6>2, <3>4
          <6> QED  BY <5>1, <6>3, <4>1, <2>3, <1>4, <1>10
        <5>2. CASE z # m
          <6>1. z \in List!Reach(list, i) /\ rk[z] > rk[x]
            BY <5>2, <3>1, <2>3, <2>4, <2>5
          <6> QED  BY <6>1, <4>1, <3>3, <3>6, <2>4
        <5> QED  BY <5>1, <5>2
      <4> QED  BY <3>2, <4>1, <4>2 DEF List!Follows
    <3> QED  BY <3>5, <3>6
  <2> QED  BY <2>6, <2>7, <2>8
<1>18. \A i \in new.level + 1 .. MaxLevel : List!Forward(new, List!Header, i) = List!NULL
  <2> TAKE i \in new.level + 1 .. MaxLevel
  <2>1. i \in 1 .. MaxLevel /\ i > list.level /\ ~(i <= h)
    BY <1>3, <1>4
  <2>2. List!Header \in List!Reach(list, i) /\ List!Forward(list, List!Header, i) = List!NULL
    BY <2>1, LevelFacts
  <2> QED  BY <2>1, <2>2, <1>7
<1>19. ASSUME NEW i \in 1 .. new.level, NEW x \in List!Reach(new, i)
       PROVE  LET next == List!Forward(new, x, i)
              IN  new.node[x].span[i] = (IF next = List!NULL THEN new.length ELSE rk2[next]) - rk2[x]
  <2> DEFINE l == last(i)
             v == List!Forward(list, l, i)
  <2>0. i \in 1 .. MaxLevel /\ i <= depth
    BY <1>3, <1>4
  <2>1. l \in List!Reach(list, i) /\ rk[l] <= k /\ l \in N
        /\ \A z \in List!Reach(list, i) : rk[z] <= k => rk[z] <= rk[l]
    BY <2>0, <1>5
  <2> HIDE DEF l
  <2>2. \A z \in List!Reach(list, i) : z \in N /\ z # m /\ z # List!NULL /\ rk[z] \in Int
                                       /\ rk2[z] = IF rk[z] > k THEN rk[z] + 1 ELSE rk[z]
    <3> TAKE z \in List!Reach(list, i)
    <3>1. z \in N
      BY <2>0, <1>15
    <3>2. z # m /\ z # List!NULL
      BY <3>1, <1>1, NodeFacts
    <3>3. rk[z] \in Int
      BY <3>1, <1>5
    <3> QED  BY <3>1, <3>2, <3>3, <1>10
  <2>3. v # List!NULL => v \in List!Reach(list, i) /\ rk[v] > k
    <3>1. v # List!NULL => v \in List!Reach(list, i) /\ rk[v] > rk[l]
      BY <2>0, <2>1, <1>15
    <3> HIDE DEF v
    <3> QED  BY <3>1, <2>1, <2>2, <1>4
  <2>4. i <= list.level =>
          /\ list.node[l].span[i] = (IF v = List!NULL THEN list.length ELSE rk[v]) - rk[l]
          /\ \A z \in List!Reach(list, i) :
               list.node[z].span[i] =
                 (IF List!Forward(list, z, i) = List!NULL THEN list.length
                  ELSE rk[List!Forward(list, z, i)]) - rk[z]
    BY <2>0, <2>1, LevelFacts
  <2>5. i > list.level => v = List!NULL /\ List!Reach(list, i) = {List!Header} /\ l = List!Header
                          /\ rk[l] = 0
    BY <2>0, <2>1, <1>5, LevelFacts
  <2> HIDE DEF v
  <2>6. List!Reach(new, i) = List!Reach(list, i) \cup (IF i <= h THEN {m} ELSE {})
    BY <2>0, <1>8
  <2>7. CASE x = m
    <3>1. i \in 1 .. h
      BY <2>0, <2>2, <2>6, <2>7
    <3>2. List!Forward(new, x, i) = v
      BY <3>1, <2>7, <1>16 DEF l, v
    <3>3. new.node[x].span[i] =
             (IF i <= list.level THEN list.node[l].span[i] ELSE list.length) - (k - rk[l])
      BY <3>1, <2>7, <1>m DEF l
    <3>4. CASE i <= list.level
      BY <3>2, <3>3, <3>4, <2>1, <2>2, <2>3, <2>4, <2>7, <1>3, <1>4, <1>10
    <3>5. CASE i > list.level
      BY <3>2, <3>3, <3>5, <2>5, <2>7, <1>3, <1>4, <1>10
    <3> QED  BY <3>4, <3>5, <2>0, <1>4
  <2>8. CASE x # m /\ l = x
    <3>1. /\ List!Forward(new, x, i) = IF i <= h THEN m ELSE v
          /\ new.node[x].span[i] = IF i <= h THEN k - rk[x] + 1 ELSE list.node[x].span[i] + 1
      BY <2>0, <2>1, <2>8, <1>4, <1>7 DEF l, v
    <3>2. CASE i <= h
      BY <3>1, <3>2, <2>1, <2>2, <2>8, <1>1, <1>4, <1>10
    <3>3. CASE ~(i <= h)
      <4>1. i <= list.level
        BY <3>3, <2>0, <1>4
      <4> QED  BY <3>1, <3>3, <4>1, <2>1, <2>2, <2>3, <2>4, <2>8, <1>3, <1>4
    <3> QED  BY <3>2, <3>3
  <2>9. CASE x # m /\ l # x
    <3> DEFINE w == List!Forward(list, x, i)
    <3>1. x \in List!Reach(list, i)
      BY <2>6, <2>9
    <3>2. List!Forward(new, x, i) = w /\ new.node[x].span[i] = list.node[x].span[i]
      BY <2>0, <3>1, <2>9, <1>7 DEF l
    <3>3. i <= list.level
      BY <2>0, <2>5, <2>9, <3>1, <1>4
    <3>4. list.node[x].span[i] = (IF w = List!NULL THEN list.length ELSE rk[w]) - rk[x]
      BY <3>1, <3>3, <2>4
    <3>5. /\ w = List!NULL => \A z \in List!Reach(list, i) : rk[z] <= rk[x]
          /\ w # List!NULL => /\ w \in List!Reach(list, i)
                              /\ rk[w] > rk[x]
                              /\ \A z \in List!Reach(list, i) :
                                    rk[z] > rk[x] => rk[w] <= rk[z]
      BY <2>0, <3>1, <1>15
    <3> HIDE DEF w
    <3>6. rk[x] <= k => w # List!NULL /\ rk[w] <= k
      <4> SUFFICES ASSUME rk[x] <= k PROVE w # List!NULL /\ rk[w] <= k
        OBVIOUS
      <4>1. rk[x] <= rk[l] /\ rk[x] # rk[l]
        BY <3>1, <2>1, <2>2, <2>9, <1>5
      <4>2. rk[x] < rk[l]
        BY <4>1, <3>1, <2>1, <2>2
      <4> QED  BY <4>2, <3>1, <3>5, <2>1, <2>2, <1>4
    <3>7. CASE rk[x] <= k
      BY <3>1, <3>2, <3>4, <3>5, <3>6, <3>7, <2>2, <1>4
    <3>8. CASE ~(rk[x] <= k)
      <4>1. w # List!NULL => rk[w] > k
        BY <3>1, <3>5, <3>8, <2>2, <1>4
      <4> QED  BY <3>1, <3>2, <3>4, <3>5, <3>8, <4>1, <2>2, <1>3, <1>4
    <3> QED  BY <3>7, <3>8
  <2> QED  BY <2>7, <2>8, <2>9
<1>20. /\ List!at(new, rk2, k + 1) = m
       /\ \A r \in 0 .. k : List!at(new, rk2, r) = List!at(list, rk, r)
       /\ \A r \in k + 2 .. list.length + 1 : List!at(new, rk2, r) = List!at(list, rk, r - 1)
  <2>1. \A x \in List!Elements(new) : rk2[x] \in 1 .. new.length => List!at(new, rk2, rk2[x]) = x
    <3>1. \A x, y \in List!Elements(new) : rk2[x] = rk2[y] => x = y
      BY <1>14 DEF List!Numbered, List!Elements
    <3> QED  BY <3>1, AtIs
  <2>2. List!at(new, rk2, k + 1) = m
    BY <2>1, <1>3, <1>4, <1>9, <1>10
  <2>3. ASSUME NEW r \in 1 .. list.length
        PROVE  LET x == List!at(list, rk, r)
               IN  x \in E /\ x \in N /\ x \in List!Elements(new) /\ rk[x] = r
    BY <1>4, <1>9, AtFacts
  <2>4. ASSUME NEW r \in 0 .. k
        PROVE  List!at(new, rk2, r) = List!at(list, rk, r)
    <3>1. CASE r = 0
      BY <3>1, <1>3, <1>4 DEF List!at
    <3>2. CASE r # 0
      <4> DEFINE x == List!at(list, rk, r)
      <4>1. r \in 1 .. list.length
        BY <3>2, <1>4
      <4>2. x \in N /\ x \in List!Elements(new) /\ rk[x] = r
        BY <2>3, <4>1
      <4> HIDE DEF x
      <4>3. rk2[x] = r
        BY <4>2, <1>4, <1>10
      <4> QED  BY <4>1, <4>2, <4>3, <2>1, <1>3, <1>4 DEF x
    <3> QED  BY <3>1, <3>2
  <2>5. ASSUME NEW r \in k + 2 .. list.length + 1
        PROVE  List!at(new, rk2, r) = List!at(list, rk, r - 1)
    <3> DEFINE x == List!at(list, rk, r - 1)
    <3>1. r - 1 \in 1 .. list.length /\ r - 1 > k
      BY <1>4
    <3>2. x \in N /\ x \in List!Elements(new) /\ rk[x] = r - 1
      BY <2>3, <3>1
    <3> HIDE DEF x
    <3>3. rk2[x] = r
      BY <3>1, <3>2, <1>4, <1>10
    <3> QED  BY <3>1, <3>2, <3>3, <2>1, <1>3, <1>4 DEF x
  <2> QED  BY <2>2, <2>4, <2>5
<1>21. first = List!at(list, rk, k + 1)
  BY DEF first
<1>22. ASSUME NEW x \in List!Elements(new)
       PROVE  new.node[x].backward = List!at(new, rk2, rk2[x] - 1)
  <2>1. CASE x = m
    <3>1. new.node[m].backward = List!at(list, rk, k)
      BY <1>m
    <3>2. rk2[m] - 1 = k /\ k \in 0 .. k
      BY <1>4, <1>10
    <3> QED  BY <2>1, <3>1, <3>2, <1>20
  <2>2. CASE x # m
    <3>1. x \in E /\ x \in N /\ rk[x] \in 1 .. list.length
      BY <2>2, <1>4, <1>9, AtFacts
    <3>2. new.node[x].backward = IF x = first THEN m ELSE list.node[x].backward
      BY <3>1, <1>7
    <3>3. list.node[x].backward = List!at(list, rk, rk[x] - 1)
      BY <3>1 DEF List!Made, List!Joined
    <3>4. x = first <=> rk[x] = k + 1
      <4>1. rk[x] = k + 1 => x = first
        BY <3>1, <1>21, AtFacts
      <4>2. x = first => rk[x] = k + 1
        <5>1. k + 1 \in 1 .. list.length \/ first = List!NULL
          BY <1>4, <1>21 DEF List!at
        <5>2. x # List!NULL
          BY <3>1, NodeFacts
        <5> QED  BY <5>1, <5>2, <1>21, AtFacts
      <4> QED  BY <4>1, <4>2
    <3>5. CASE rk[x] = k + 1
      <4>1. rk2[x] - 1 = k + 1
        BY <3>1, <3>5, <1>4, <1>10
      <4> QED  BY <4>1, <3>2, <3>4, <3>5, <1>20
    <3>6. CASE rk[x] <= k
      <4>1. rk2[x] - 1 = rk[x] - 1 /\ rk[x] - 1 \in 0 .. k
        BY <3>1, <3>6, <1>4, <1>10
      <4>2. x # first
        BY <3>1, <3>4, <3>6, <1>4
      <4> QED  BY <4>1, <4>2, <3>2, <3>3, <1>20
    <3>7. CASE rk[x] > k + 1
      <4>1. rk2[x] - 1 = rk[x] /\ rk[x] \in k + 2 .. list.length + 1
        BY <3>1, <3>7, <1>4, <1>10
      <4>2. x # first
        BY <3>1, <3>4, <3>7, <1>4
      <4> QED  BY <4>1, <4>2, <3>2, <3>3, <1>20
    <3> QED  BY <3>1, <3>5, <3>6, <3>7, <1>4
  <2> QED  BY <2>1, <2>2
<1>23. new.tail = List!at(new, rk2, new.length)
  <2>1. list.tail = List!at(list, rk, list.length)
    BY DEF List!Made, List!Joined
  <2>2. CASE k = list.length
    <3>1. first = List!NULL
      BY <2>2, <1>4, <1>21 DEF List!at
    <3> QED  BY <2>2, <3>1, <1>3, <1>20
  <2>3. CASE k # list.length
    <3>1. k + 1 \in 1 .. list.length
      BY <2>3, <1>4
    <3>2. first # List!NULL
      BY <3>1, <1>21, AtFacts
    <3>3. list.length + 1 \in k + 2 .. list.length + 1 /\ (list.length + 1) - 1 = list.length
      BY <2>3, <1>4
    <3> QED  BY <2>1, <3>2, <3>3, <1>3, <1>20
  <2> QED  BY <2>2, <2>3
<1>24. List!Joined(new, rk2)
  BY <1>17, <1>18, <1>19, <1>22, <1>23 DEF List!Joined
<1>25. List!Made(new, rk2)
  BY <1>13, <1>14, <1>24 DEF List!Made
<1>26. new.node[m].score = score
  BY <1>m
<1>27. \A x \in E : x \in N /\ new.node[x].score = list.node[x].score
  BY <1>4, <1>7
<1> QED  BY <1>9, <1>25, <1>26, <1>27 DEF rk2

\* slInsert keeps a list well made.
LEMMA InsertMade ==
    ASSUME NEW list, NEW rk, List!Made(list, rk), NEW score \in Int, NEW m \in Member,
           m \notin List!Elements(list), NEW h \in 1 .. MaxLevel
    PROVE  LET new == List!slInsert(list, score, m, h)
           IN  /\ \E rk2 : List!Made(new, rk2)
               /\ List!Elements(new) = List!Elements(list) \cup {m}
               /\ new.node[m].score = score
               /\ \A x \in List!Elements(list) : new.node[x].score = list.node[x].score
<1> DEFINE new == List!slInsert(list, score, m, h)
           depth == IF h > list.level THEN h ELSE list.level
<1>1. m \in Nat
  BY RanksFit
<1>2. PICK k \in 0 .. list.length :
         /\ \A x \in List!Elements(list) :
               List!Precedes(list.node[x].score, x, score, m) <=> rk[x] <= k
         /\ List!Before(list, score, m) = [i \in 1 .. list.level |-> Pos(rk, Last(list, rk, i, k))]
  BY <1>1, BeforeIs
<1>3. Lengthened(list, rk, score, m, h, k, depth, new)
  BY <1>1, <1>2, InsertForm
<1>4. depth = IF h > list.level THEN h ELSE list.level
  OBVIOUS
<1> HIDE DEF new, depth
<1>5. /\ List!Made(new, Renumbered(rk, m, k))
      /\ List!Elements(new) = List!Elements(list) \cup {m}
      /\ new.node[m].score = score
      /\ \A x \in List!Elements(list) : new.node[x].score = list.node[x].score
  BY <1>2, <1>3, <1>4, GrownMade
<1> QED  BY <1>5 DEF new

-----------------------------------------------------------------------------
(* Deletion.                                                                *)

\* The numbers once x has left.
Lowered(rk, x) ==
    [y \in DOMAIN rk \ {x} |-> IF rk[y] > rk[x] THEN rk[y] - 1 ELSE rk[y]]

\* The positions that a deletion behind the first s elements starts from.
Fits(list, rk, s, update) ==
    \A i \in 1 .. list.level : update[i].at = Last(list, rk, i, s)

\* new is list without x, the first element behind the first s.
Shrunk(list, rk, s, x, new) ==
    LET last(i) == Last(list, rk, i, s)
        next == List!Forward(list, x, 1)
    IN  /\ new.level \in 1 .. list.level
        /\ \A i \in new.level + 1 .. list.level : new.node[List!Header].forward[i] = List!NULL
        /\ new.length = list.length - 1
        /\ new.tail = IF next = List!NULL THEN list.node[x].backward ELSE list.tail
        /\ DOMAIN new.node = DOMAIN list.node \ {x}
        /\ \A y \in DOMAIN list.node : y # x =>
             new.node[y] =
               [score |-> list.node[y].score,
                backward |-> IF y = next THEN list.node[x].backward ELSE list.node[y].backward,
                forward |-> [i \in DOMAIN list.node[y].forward |->
                   IF i <= list.level /\ last(i) = y /\ List!Forward(list, y, i) = x
                   THEN list.node[x].forward[i] ELSE list.node[y].forward[i]],
                span |-> [i \in DOMAIN list.node[y].span |->
                   IF i > list.level \/ last(i) # y THEN list.node[y].span[i]
                   ELSE IF List!Forward(list, y, i) = x
                   THEN list.node[y].span[i] + list.node[x].span[i] - 1
                   ELSE list.node[y].span[i] - 1]]

\* slDeleteNode does that.
LEMMA DeleteForm ==
    ASSUME NEW list, NEW rk, List!Made(list, rk), NEW s \in Nat, NEW x \in List!Elements(list),
           NEW update, Fits(list, rk, s, update)
    PROVE  Shrunk(list, rk, s, x, List!slDeleteNode(list, x, update))
<1> DEFINE last(i) == Last(list, rk, i, s)
           gone == list.node[x]
           next == List!Forward(list, x, 1)
           hit(y, i) == i \in 1 .. list.level /\ update[i].at = y
           skips(y, i) == List!Forward(list, y, i) = x
           relink(y) ==
             [list.node[y] EXCEPT
               !.span = [i \in DOMAIN @ |->
                       IF ~hit(y, i) THEN @[i]
                       ELSE IF skips(y, i) THEN @[i] + gone.span[i] - 1
                       ELSE @[i] - 1],
               !.forward = [i \in DOMAIN @ |->
                       IF hit(y, i) /\ skips(y, i) THEN gone.forward[i] ELSE @[i]],
               !.backward = IF y = gone.forward[1] THEN gone.backward ELSE @]
           node == [y \in DOMAIN list.node \ {x} |-> relink(y)]
           used == {i \in 2 .. list.level : node[List!Header].forward[i] # List!NULL}
           depth == IF used = {} THEN 1 ELSE CHOOSE i \in used : \A j \in used : j <= i
           new == List!slDeleteNode(list, x, update)
<1>1. new = [level |-> depth, length |-> list.length - 1,
             tail |-> IF gone.forward[1] = List!NULL THEN gone.backward ELSE list.tail,
             node |-> node]
  BY DEF List!slDeleteNode
<1>2. list.level \in 1 .. MaxLevel /\ MaxLevel \in Nat
  BY NodeFacts
<1>3. depth \in 1 .. list.level /\ \A i \in depth + 1 .. list.level : node[List!Header].forward[i] = List!NULL
  <2> HIDE DEF node
  <2>1. CASE used = {}
    <3>1. \A i \in 2 .. list.level : node[List!Header].forward[i] = List!NULL
      BY <2>1
    <3>2. depth = 1
      BY <2>1
    <3> HIDE DEF depth
    <3> QED  BY <3>1, <3>2, <1>2
  <2>2. CASE used # {}
    <3>1. used \subseteq Nat /\ \A j \in used : j <= list.level
      BY <1>2
    <3>2. \E i \in used : \A j \in used : j <= i
      <4> HIDE DEF used
      <4>1. list.level \in Nat
        BY <1>2
      <4> QED  BY <4>1, <2>2, <3>1, GreatestNat
    <3>3. depth \in used /\ \A j \in used : j <= depth
      <4> HIDE DEF used
      <4> QED  BY <2>2, <3>2
    <3>4. \A i \in 2 .. list.level : i \notin used => node[List!Header].forward[i] = List!NULL
      OBVIOUS
    <3>5. depth \in 2 .. list.level
      BY <3>3
    <3> HIDE DEF depth, used
    <3>6. \A i \in depth + 1 .. list.level : i \in 2 .. list.level /\ i \notin used
      BY <3>1, <3>3, <3>5, <1>2
    <3> QED  BY <3>4, <3>5, <3>6, <1>2
  <2> QED  BY <2>1, <2>2
<1>4. next = gone.forward[1]
  BY DEF List!Forward
<1>5. ASSUME NEW y \in DOMAIN list.node
      PROVE  relink(y) =
               [score |-> list.node[y].score,
                backward |-> IF y = next THEN list.node[x].backward ELSE list.node[y].backward,
                forward |-> [i \in DOMAIN list.node[y].forward |->
                   IF i <= list.level /\ last(i) = y /\ List!Forward(list, y, i) = x
                   THEN list.node[x].forward[i] ELSE list.node[y].forward[i]],
                span |-> [i \in DOMAIN list.node[y].span |->
                   IF i > list.level \/ last(i) # y THEN list.node[y].span[i]
                   ELSE IF List!Forward(list, y, i) = x
                   THEN list.node[y].span[i] + list.node[x].span[i] - 1
                   ELSE list.node[y].span[i] - 1]]
  <2>1. PICK g \in 1 .. MaxLevel : list.node[y] \in List!Node(g)
    BY NodeFacts
  <2>2. /\ DOMAIN list.node[y].forward = 1 .. g /\ DOMAIN list.node[y].span = 1 .. g
        /\ list.node[y] = [score |-> list.node[y].score, backward |-> list.node[y].backward,
                           forward |-> list.node[y].forward, span |-> list.node[y].span]
    BY <2>1 DEF List!Node
  <2> DEFINE forward == [i \in DOMAIN list.node[y].forward |->
                           IF hit(y, i) /\ skips(y, i) THEN gone.forward[i] ELSE list.node[y].forward[i]]
             span == [i \in DOMAIN list.node[y].span |->
                           IF ~hit(y, i) THEN list.node[y].span[i]
                           ELSE IF skips(y, i) THEN list.node[y].span[i] + gone.span[i] - 1
                           ELSE list.node[y].span[i] - 1]
             backward == IF y = gone.forward[1] THEN gone.backward ELSE list.node[y].backward
  <2>3. relink(y) = [list.node[y] EXCEPT !.span = span, !.forward = forward, !.backward = backward]
    OBVIOUS
  <2>4. \A i \in 1 .. g : hit(y, i) <=> i <= list.level /\ last(i) = y
    <3> HIDE DEF last
    <3>1. \A i \in 1 .. g : i <= list.level => update[i].at = last(i)
      BY <1>2 DEF Fits, last
    <3> QED  BY <3>1, <1>2
  <2> HIDE DEF hit, last
  <2>5. forward = [i \in DOMAIN list.node[y].forward |->
                   IF i <= list.level /\ last(i) = y /\ List!Forward(list, y, i) = x
                   THEN list.node[x].forward[i] ELSE list.node[y].forward[i]]
    BY <2>2, <2>4
  <2>6. span = [i \in DOMAIN list.node[y].span |->
                   IF i > list.level \/ last(i) # y THEN list.node[y].span[i]
                   ELSE IF List!Forward(list, y, i) = x
                   THEN list.node[y].span[i] + list.node[x].span[i] - 1
                   ELSE list.node[y].span[i] - 1]
    BY <2>2, <2>4, <1>2
  <2>7. backward = IF y = next THEN list.node[x].backward ELSE list.node[y].backward
    BY <1>4
  <2> HIDE DEF forward, span, backward, relink
  <2>8. relink(y) = [score |-> list.node[y].score, backward |-> backward,
                     forward |-> forward, span |-> span]
    BY <2>2, <2>3
  <2> QED  BY <2>5, <2>6, <2>7, <2>8
<1> HIDE DEF relink, depth
<1>6. /\ new.level = depth /\ new.length = list.length - 1
      /\ new.tail = IF next = List!NULL THEN list.node[x].backward ELSE list.tail
      /\ new.node = node
  BY <1>1, <1>4
<1>7. DOMAIN node = DOMAIN list.node \ {x} /\ \A y \in DOMAIN list.node : y # x => node[y] = relink(y)
  OBVIOUS
<1> HIDE DEF node, new
<1> QED  BY <1>3, <1>5, <1>6, <1>7 DEF Shrunk, last, next, new

\* Which leaves a list well made, and update still fits.
LEMMA ShrunkMade ==
    ASSUME NEW list, NEW rk, List!Made(list, rk), NEW s \in Nat, NEW x \in List!Elements(list),
           rk[x] = s + 1, NEW new, Shrunk(list, rk, s, x, new)
    PROVE  /\ List!Made(new, Lowered(rk, x))
           /\ List!Elements(new) = List!Elements(list) \ {x}
           /\ \A y \in List!Elements(new) : new.node[y].score = list.node[y].score
           /\ new.length = list.length - 1
           /\ \A update : Fits(list, rk, s, update) => Fits(new, Lowered(rk, x), s, update)
           /\ List!at(new, Lowered(rk, x), s + 1) = List!Forward(list, x, 1)
<1> DEFINE N == DOMAIN list.node
           E == List!Elements(list)
           last(i) == Last(list, rk, i, s)
           first == List!Forward(list, x, 1)
           rk2 == Lowered(rk, x)
<1>1. /\ list.level \in 1 .. MaxLevel /\ MaxLevel \in Nat /\ list.length \in Nat
      /\ List!Header \in N /\ E \subseteq Member /\ E = N \ {List!Header}
      /\ x \in N /\ x # List!Header /\ x # List!NULL /\ s < list.length
  <2>1. /\ list.level \in 1 .. MaxLevel /\ MaxLevel \in Nat /\ list.length \in Nat
        /\ List!Header \in N /\ E \subseteq Member
    BY NodeFacts
  <2>2. E = N \ {List!Header}
    BY DEF List!Elements
  <2>3. rk[x] \in 1 .. list.length
    BY AtFacts
  <2>4. x # List!NULL
    BY <2>2, NodeFacts
  <2> QED  BY <2>1, <2>2, <2>3, <2>4
<1>2. /\ \A y \in N : rk[y] \in 0 .. list.length
      /\ \A y, z \in N : rk[y] = rk[z] => y = z
      /\ \A y \in N : rk[y] = 0 <=> y = List!Header
  BY NodeFacts
<1>3. /\ new.level \in 1 .. list.level
      /\ \A i \in new.level + 1 .. list.level : new.node[List!Header].forward[i] = List!NULL
      /\ new.length = list.length - 1
      /\ new.tail = IF first = List!NULL THEN list.node[x].backward ELSE list.tail
      /\ DOMAIN new.node = N \ {x}
  BY DEF Shrunk
<1>x. \A y \in N : y # x =>
         new.node[y] =
               [score |-> list.node[y].score,
                backward |-> IF y = first THEN list.node[x].backward ELSE list.node[y].backward,
                forward |-> [i \in DOMAIN list.node[y].forward |->
                   IF i <= list.level /\ last(i) = y /\ List!Forward(list, y, i) = x
                   THEN list.node[x].forward[i] ELSE list.node[y].forward[i]],
                span |-> [i \in DOMAIN list.node[y].span |->
                   IF i > list.level \/ last(i) # y THEN list.node[y].span[i]
                   ELSE IF List!Forward(list, y, i) = x
                   THEN list.node[y].span[i] + list.node[x].span[i] - 1
                   ELSE list.node[y].span[i] - 1]]
  BY DEF Shrunk
<1> HIDE DEF first
<1>4. \A i \in 1 .. MaxLevel :
         /\ last(i) \in List!Reach(list, i) /\ last(i) \in N /\ rk[last(i)] <= s
         /\ \A z \in List!Reach(list, i) : rk[z] <= s => rk[z] <= rk[last(i)]
  BY LastFacts
<1> HIDE DEF last
<1>5. \A i \in 1 .. MaxLevel :
         /\ List!Reach(list, i) \subseteq N
         /\ \A y \in List!Reach(list, i) :
              LET next == List!Forward(list, y, i)
              IN  /\ next = List!NULL => \A z \in List!Reach(list, i) : rk[z] <= rk[y]
                  /\ next # List!NULL => /\ next \in List!Reach(list, i)
                                         /\ rk[next] > rk[y]
                                         /\ \A z \in List!Reach(list, i) :
                                               rk[z] > rk[y] => rk[next] <= rk[z]
  BY LevelFacts, NextFacts
\* Only the last node before x has x next, on a level in use.
<1>6. ASSUME NEW i \in 1 .. MaxLevel, NEW y \in List!Reach(list, i), List!Forward(list, y, i) = x
      PROVE  i <= list.level /\ last(i) = y /\ x \in List!Reach(list, i)
  <2>1. x \in List!Reach(list, i) /\ rk[y] < rk[x]
        /\ \A z \in List!Reach(list, i) : rk[z] > rk[y] => rk[x] <= rk[z]
    BY <1>1, <1>5, <1>6
  <2>2. y \in N /\ rk[y] \in Int /\ rk[y] <= s
    BY <2>1, <1>2, <1>5
  <2>3. rk[y] <= rk[last(i)] /\ last(i) \in List!Reach(list, i) /\ rk[last(i)] \in Int /\ rk[last(i)] <= s
        /\ last(i) \in N
    BY <2>2, <1>2, <1>4
  <2>4. rk[last(i)] = rk[y]
    BY <2>1, <2>2, <2>3
  <2>5. last(i) = y
    BY <2>2, <2>3, <2>4, <1>2
  <2>6. i <= list.level
    <3>1. i > list.level => List!Forward(list, y, i) = List!NULL
      BY LevelFacts
    <3> QED  BY <3>1, <1>1, <1>6
  <2> QED  BY <2>1, <2>5, <2>6
\* The fields of the nodes.
<1>7. ASSUME NEW y \in N, y # x
      PROVE  /\ DOMAIN new.node[y].forward = DOMAIN list.node[y].forward
             /\ \E g \in 1 .. MaxLevel : new.node[y] \in List!Node(g)
             /\ new.node[y].score = list.node[y].score
             /\ new.node[y].backward = IF y = first THEN list.node[x].backward ELSE list.node[y].backward
             /\ \A i \in DOMAIN list.node[y].forward :
                   /\ new.node[y].forward[i] =
                        IF i <= list.level /\ last(i) = y /\ List!Forward(list, y, i) = x
                        THEN list.node[x].forward[i] ELSE list.node[y].forward[i]
                   /\ new.node[y].span[i] =
                        IF i > list.level \/ last(i) # y THEN list.node[y].span[i]
                        ELSE IF List!Forward(list, y, i) = x
                        THEN list.node[y].span[i] + list.node[x].span[i] - 1
                        ELSE list.node[y].span[i] - 1
  <2>1. PICK g \in 1 .. MaxLevel : list.node[y] \in List!Node(g)
    BY NodeFacts
  <2>2. PICK h \in 1 .. MaxLevel : list.node[x] \in List!Node(h)
    BY <1>1, NodeFacts
  <2>3. /\ list.node[y].forward \in [1 .. g -> Member \cup {List!NULL}]
        /\ list.node[y].span \in [1 .. g -> Int]
        /\ list.node[y].backward \in Member \cup {List!NULL}
        /\ list.node[y].score \in Int
    BY <2>1 DEF List!Node
  <2>4. /\ list.node[x].forward \in [1 .. h -> Member \cup {List!NULL}]
        /\ list.node[x].span \in [1 .. h -> Int]
        /\ list.node[x].backward \in Member \cup {List!NULL}
    BY <2>2 DEF List!Node
  <2>5. \A i \in 1 .. g : List!Forward(list, y, i) = x => i \in 1 .. h
    <3> SUFFICES ASSUME NEW i \in 1 .. g, List!Forward(list, y, i) = x
                 PROVE  i \in 1 .. h
      OBVIOUS
    <3>1. i \in 1 .. MaxLevel /\ y \in List!Reach(list, i)
      BY <2>3, <1>1 DEF List!Reach
    <3>2. x \in List!Reach(list, i)
      BY <3>1, <1>6
    <3> QED  BY <3>2, <2>4 DEF List!Reach
  <2> DEFINE forward == [i \in 1 .. g |->
                   IF i <= list.level /\ last(i) = y /\ List!Forward(list, y, i) = x
                   THEN list.node[x].forward[i] ELSE list.node[y].forward[i]]
             span == [i \in 1 .. g |->
                   IF i > list.level \/ last(i) # y THEN list.node[y].span[i]
                   ELSE IF List!Forward(list, y, i) = x
                   THEN list.node[y].span[i] + list.node[x].span[i] - 1
                   ELSE list.node[y].span[i] - 1]
             backward == IF y = first THEN list.node[x].backward ELSE list.node[y].backward
  <2>6. forward \in [1 .. g -> Member \cup {List!NULL}]
    BY <2>3, <2>4, <2>5
  <2>7. span \in [1 .. g -> Int]
    <3>1. \A i \in 1 .. g : list.node[y].span[i] \in Int
                            /\ (List!Forward(list, y, i) = x => list.node[x].span[i] \in Int)
      BY <2>3, <2>4, <2>5
    <3> QED  BY <3>1
  <2>8. backward \in Member \cup {List!NULL}
    BY <2>3, <2>4
  <2>9. DOMAIN list.node[y].forward = 1 .. g /\ DOMAIN list.node[y].span = 1 .. g
    BY <2>3
  <2>10. new.node[y] = [score |-> list.node[y].score, backward |-> backward,
                        forward |-> forward, span |-> span]
    BY <2>9, <1>x, <1>7
  <2>11. new.node[y] \in List!Node(g)
    <3> HIDE DEF forward, span, backward
    <3> QED  BY <2>3, <2>6, <2>7, <2>8, <2>10 DEF List!Node
  <2>12. /\ DOMAIN new.node[y].forward = 1 .. g
         /\ new.node[y].score = list.node[y].score
         /\ \A i \in 1 .. g :
                   /\ new.node[y].forward[i] =
                        IF i <= list.level /\ last(i) = y /\ List!Forward(list, y, i) = x
                        THEN list.node[x].forward[i] ELSE list.node[y].forward[i]
                   /\ new.node[y].span[i] =
                        IF i > list.level \/ last(i) # y THEN list.node[y].span[i]
                        ELSE IF List!Forward(list, y, i) = x
                        THEN list.node[y].span[i] + list.node[x].span[i] - 1
                        ELSE list.node[y].span[i] - 1
         /\ new.node[y].backward = IF y = first THEN list.node[x].backward ELSE list.node[y].backward
    BY <2>10
  <2> HIDE DEF forward, span, backward
  <2> QED  BY <2>9, <2>11, <2>12
<1>8. \A i \in 1 .. MaxLevel : List!Reach(new, i) = List!Reach(list, i) \ {x}
  <2> TAKE i \in 1 .. MaxLevel
  <2>1. \A y \in N : y # x => (y \in List!Reach(new, i) <=> y \in List!Reach(list, i))
    BY <1>3, <1>7 DEF List!Reach
  <2>2. List!Reach(new, i) \subseteq N \ {x} /\ List!Reach(list, i) \subseteq N
    BY <1>3 DEF List!Reach
  <2> QED  BY <2>1, <2>2
<1>9. List!Elements(new) = E \ {x}
  BY <1>1, <1>3 DEF List!Elements
<1>10. \A i \in 1 .. MaxLevel : \A y \in List!Reach(list, i) : y # x =>
         /\ List!Forward(new, y, i) =
              IF List!Forward(list, y, i) = x THEN List!Forward(list, x, i)
              ELSE List!Forward(list, y, i)
         /\ i <= list.level => new.node[y].span[i] =
              IF last(i) # y THEN list.node[y].span[i]
              ELSE IF List!Forward(list, y, i) = x
              THEN list.node[y].span[i] + list.node[x].span[i] - 1
              ELSE list.node[y].span[i] - 1
  <2> SUFFICES ASSUME NEW i \in 1 .. MaxLevel, NEW y \in List!Reach(list, i), y # x
               PROVE  /\ List!Forward(new, y, i) =
                           IF List!Forward(list, y, i) = x THEN List!Forward(list, x, i)
                           ELSE List!Forward(list, y, i)
                      /\ i <= list.level => new.node[y].span[i] =
                           IF last(i) # y THEN list.node[y].span[i]
                           ELSE IF List!Forward(list, y, i) = x
                           THEN list.node[y].span[i] + list.node[x].span[i] - 1
                           ELSE list.node[y].span[i] - 1
    OBVIOUS
  <2>1. y \in N /\ i \in DOMAIN list.node[y].forward
    BY DEF List!Reach
  <2>2. /\ new.node[y].forward[i] =
             IF i <= list.level /\ last(i) = y /\ List!Forward(list, y, i) = x
             THEN list.node[x].forward[i] ELSE list.node[y].forward[i]
        /\ new.node[y].span[i] =
             IF i > list.level \/ last(i) # y THEN list.node[y].span[i]
             ELSE IF List!Forward(list, y, i) = x
             THEN list.node[y].span[i] + list.node[x].span[i] - 1
             ELSE list.node[y].span[i] - 1
    BY <2>1, <1>7
  <2>3. List!Forward(list, y, i) = x => i <= list.level /\ last(i) = y
    BY <1>6
  <2>4. i <= list.level => ~(i > list.level)
    BY <1>1
  <2> QED  BY <2>2, <2>3, <2>4 DEF List!Forward
\* The numbers.
<1>11. /\ DOMAIN rk2 = N \ {x}
       /\ \A y \in N : y # x => rk2[y] = IF rk[y] > s + 1 THEN rk[y] - 1 ELSE rk[y]
  <2>1. DOMAIN rk = N
    BY DEF List!Made, List!Numbered
  <2> QED  BY <2>1 DEF Lowered
<1>12. \A y \in N : y # x => /\ rk[y] # s + 1
                             /\ rk2[y] \in 0 .. list.length - 1
                             /\ rk2[y] = IF rk[y] > s THEN rk[y] - 1 ELSE rk[y]
                             /\ (rk2[y] <= s <=> rk[y] <= s + 1)
  BY <1>1, <1>2, <1>11
<1>13. \A y, z \in N : y # x /\ z # x => /\ rk2[y] < rk2[z] <=> rk[y] < rk[z]
                                         /\ rk2[y] <= rk2[z] <=> rk[y] <= rk[z]
                                         /\ rk2[y] = rk2[z] => y = z
  BY <1>1, <1>2, <1>12
<1>f. rk2 \in [N \ {x} -> 0 .. list.length - 1]
  <2>1. rk2 = [y \in N \ {x} |-> rk2[y]]
    BY <1>11 DEF Lowered
  <2> HIDE DEF rk2
  <2> QED  BY <2>1, <1>12
<1> HIDE DEF rk2
<1>14. List!Shaped(new)
  <2>1. new.level \in 1 .. MaxLevel /\ new.length \in Nat
    BY <1>1, <1>3
  <2>2. \A y \in DOMAIN new.node : \E g \in 1 .. MaxLevel : new.node[y] \in List!Node(g)
    BY <1>3, <1>7
  <2>3. List!Header \in DOMAIN new.node /\ DOMAIN new.node[List!Header].forward = 1 .. MaxLevel
    BY <1>1, <1>3, <1>7, NodeFacts
  <2>4. List!Elements(new) \subseteq Member
    BY <1>1, <1>9
  <2> QED  BY <2>1, <2>2, <2>3, <2>4 DEF List!Shaped
<1>15. List!Numbered(new, rk2)
  <2>1. rk2 \in [DOMAIN new.node -> 0 .. new.length]
    BY <1>3, <1>f
  <2>2. rk2[List!Header] = 0
    BY <1>1, <1>2, <1>12
  <2>3. \A y, z \in DOMAIN new.node : rk2[y] = rk2[z] => y = z
    BY <1>3, <1>13
  <2>4. \A r \in 0 .. new.length : \E y \in DOMAIN new.node : rk2[y] = r
    <3> TAKE r \in 0 .. new.length
    <3>1. \A t \in 0 .. list.length : \E y \in N : rk[y] = t
      BY DEF List!Made, List!Numbered
    <3>2. CASE r <= s
      <4>1. PICK y \in N : rk[y] = r
        BY <3>1, <3>2, <1>1
      <4>2. y # x
        BY <4>1, <3>2
      <4> QED  BY <4>1, <4>2, <3>2, <1>3, <1>12
    <3>3. CASE r > s
      <4>1. r + 1 \in 0 .. list.length /\ r \in Int
        BY <1>1, <1>3
      <4>2. PICK y \in N : rk[y] = r + 1
        BY <3>1, <4>1
      <4>3. y # x
        BY <4>1, <4>2, <3>3
      <4>4. rk2[y] = r
        BY <4>1, <4>2, <4>3, <3>3, <1>12
      <4> QED  BY <4>2, <4>3, <4>4, <1>3
    <3> QED  BY <3>2, <3>3
  <2>5. \A y, z \in List!Elements(new) :
           rk2[y] < rk2[z] <=> List!Precedes(new.node[y].score, y, new.node[z].score, z)
    <3>1. \A y \in List!Elements(new) : y \in E /\ y \in N /\ y # x
      BY <1>1, <1>9
    <3> QED  BY <3>1, <1>7, <1>13, SortedFacts
  <2> QED  BY <2>1, <2>2, <2>3, <2>4, <2>5 DEF List!Numbered
\* The links.
<1>16. ASSUME NEW i \in 1 .. MaxLevel, NEW y \in List!Reach(new, i)
       PROVE  List!Follows(new, rk2, i, y, List!Forward(new, y, i))
  <2> DEFINE w == List!Forward(list, y, i)
             v == List!Forward(list, x, i)
  <2>1. y \in List!Reach(list, i) /\ y # x
    BY <1>8
  <2>2. \A z \in List!Reach(list, i) : z \in N /\ z # List!NULL /\ rk[z] \in Int
    BY <1>2, <1>5, NodeFacts
  <2>3. List!Forward(new, y, i) = IF w = x THEN v ELSE w
    BY <2>1, <1>10
  <2>4. /\ w = List!NULL => \A z \in List!Reach(list, i) : rk[z] <= rk[y]
        /\ w # List!NULL => /\ w \in List!Reach(list, i)
                            /\ rk[w] > rk[y]
                            /\ \A z \in List!Reach(list, i) : rk[z] > rk[y] => rk[w] <= rk[z]
    BY <2>1, <1>5
  <2>5. w = x => /\ v = List!NULL => \A z \in List!Reach(list, i) : rk[z] <= rk[x]
                 /\ v # List!NULL => /\ v \in List!Reach(list, i)
                                     /\ rk[v] > rk[x]
                                     /\ \A z \in List!Reach(list, i) : rk[z] > rk[x] => rk[v] <= rk[z]
    BY <2>4, <1>1, <1>5
  <2> HIDE DEF w, v
  <2> DEFINE u == IF w = x THEN v ELSE w
  <2>6. /\ u = List!NULL => \A z \in List!Reach(list, i) : z # x => rk[z] <= rk[y]
        /\ u # List!NULL => /\ u \in List!Reach(list, i) /\ u # x
                            /\ rk[u] > rk[y]
                            /\ \A z \in List!Reach(list, i) : z # x /\ rk[z] > rk[y] => rk[u] <= rk[z]
    <3>1. CASE w = x
      <4>1. \A z \in List!Reach(list, i) : z # x => (rk[z] > rk[y] <=> rk[z] > rk[x])
        <5> SUFFICES ASSUME NEW z \in List!Reach(list, i), z # x
                     PROVE  rk[z] > rk[y] <=> rk[z] > rk[x]
          OBVIOUS
        <5>1. rk[z] # rk[x] /\ x \in List!Reach(list, i)
          BY <2>2, <2>4, <3>1, <1>1, <1>2
        <5>2. rk[x] > rk[y] /\ (rk[z] > rk[y] => rk[x] <= rk[z]) /\ rk[x] \in Int /\ rk[y] \in Int
              /\ rk[z] \in Int
          BY <5>1, <2>1, <2>2, <2>4, <3>1, <1>1
        <5> QED  BY <5>1, <5>2
      <4>2. x \in List!Reach(list, i) /\ rk[x] > rk[y]
        BY <2>4, <3>1, <1>1
      <4>3. u = v
        BY <3>1
      <4> HIDE DEF u
      <4>4. CASE v = List!NULL
        BY <4>1, <4>3, <4>4, <2>1, <2>2, <2>5, <3>1, <4>2
      <4>5. CASE v # List!NULL
        BY <4>1, <4>2, <4>3, <4>5, <2>1, <2>2, <2>5, <3>1
      <4> QED  BY <4>4, <4>5
    <3>2. CASE w # x
      BY <3>2, <2>4
    <3> QED  BY <3>1, <3>2
  <2>7. List!Forward(new, y, i) = u
    BY <2>3
  <2> HIDE DEF u
  <2>8. \A z \in List!Reach(new, i) : z \in List!Reach(list, i) /\ z # x /\ z \in N
    BY <1>8, <2>2
  <2>9. \A z \in List!Reach(new, i) : rk2[z] > rk2[y] <=> rk[z] > rk[y]
    BY <2>8, <1>13
  <2>10. CASE u = List!NULL
    <3>1. \A z \in List!Reach(new, i) : ~(rk2[z] > rk2[y])
      BY <2>1, <2>2, <2>6, <2>8, <2>9, <2>10
    <3> QED  BY <3>1, <2>7, <2>10 DEF List!Follows
  <2>11. CASE u # List!NULL
    <3>1. u \in List!Reach(new, i)
      BY <2>6, <2>11, <1>8
    <3>2. rk2[u] > rk2[y]
      BY <3>1, <2>6, <2>9, <2>11
    <3>3. \A z \in List!Reach(new, i) : rk2[z] > rk2[y] => rk2[u] <= rk2[z]
      BY <3>1, <2>6, <2>8, <2>9, <2>11, <1>13
    <3> QED  BY <3>1, <3>2, <3>3, <2>7 DEF List!Follows
  <2> QED  BY <2>10, <2>11
<1>17. \A i \in new.level + 1 .. MaxLevel : List!Forward(new, List!Header, i) = List!NULL
  <2> TAKE i \in new.level + 1 .. MaxLevel
  <2>1. i \in 1 .. MaxLevel
    BY <1>1, <1>3
  <2>2. CASE i <= list.level
    <3>1. i \in new.level + 1 .. list.level
      BY <2>1, <2>2, <1>1, <1>3
    <3> QED  BY <3>1, <1>3 DEF List!Forward
  <2>3. CASE ~(i <= list.level)
    <3>1. List!Header \in List!Reach(list, i) /\ List!Forward(list, List!Header, i) = List!NULL
      BY <2>1, <2>3, <1>1, LevelFacts
    <3> QED  BY <3>1, <2>1, <1>1, <1>10
  <2> QED  BY <2>2, <2>3
<1>18. ASSUME NEW i \in 1 .. new.level, NEW y \in List!Reach(new, i)
       PROVE  LET next == List!Forward(new, y, i)
              IN  new.node[y].span[i] = (IF next = List!NULL THEN new.length ELSE rk2[next]) - rk2[y]
  <2> DEFINE l == last(i)
             w == List!Forward(list, y, i)
             v == List!Forward(list, x, i)
  <2>0. i \in 1 .. MaxLevel /\ i <= list.level
    BY <1>1, <1>3
  <2>1. y \in List!Reach(list, i) /\ y # x
    BY <2>0, <1>8
  <2>2. \A z \in List!Reach(list, i) : z \in N /\ z # List!NULL /\ rk[z] \in Int
                                       /\ (z # x => rk[z] # s + 1)
                                       /\ (z # x => rk2[z] = IF rk[z] > s THEN rk[z] - 1 ELSE rk[z])
    <3> TAKE z \in List!Reach(list, i)
    <3>1. z \in N
      BY <2>0, <1>5
    <3>2. z # List!NULL
      BY <3>1, NodeFacts
    <3> QED  BY <3>1, <3>2, <1>2, <1>12
  <2>3. /\ List!Forward(new, y, i) = IF w = x THEN v ELSE w
        /\ new.node[y].span[i] =
              IF l # y THEN list.node[y].span[i]
              ELSE IF w = x THEN list.node[y].span[i] + list.node[x].span[i] - 1
              ELSE list.node[y].span[i] - 1
    BY <2>0, <2>1, <1>10
  <2>4. /\ w # List!NULL => w \in List!Reach(list, i) /\ rk[w] > rk[y]
                            /\ \A z \in List!Reach(list, i) : rk[z] > rk[y] => rk[w] <= rk[z]
        /\ w = List!NULL => \A z \in List!Reach(list, i) : rk[z] <= rk[y]
    BY <2>0, <2>1, <1>5
  <2>5. x \in List!Reach(list, i) =>
           (v # List!NULL => v \in List!Reach(list, i) /\ rk[v] > rk[x])
    BY <2>0, <1>5
  <2>6. list.node[y].span[i] = (IF w = List!NULL THEN list.length ELSE rk[w]) - rk[y]
    BY <2>0, <2>1, LevelFacts
  <2>7. x \in List!Reach(list, i) =>
          list.node[x].span[i] = (IF v = List!NULL THEN list.length ELSE rk[v]) - rk[x]
    BY <2>0, LevelFacts
  <2>8. w = x => l = y
    BY <2>0, <2>1, <1>6
  <2>9. l \in List!Reach(list, i) /\ rk[l] <= s
        /\ \A z \in List!Reach(list, i) : rk[z] <= s => rk[z] <= rk[l]
    BY <2>0, <1>4
  <2> HIDE DEF w, v, l
  <2>10. CASE w = x
    <3>1. x \in List!Reach(list, i)
      BY <2>10, <2>4, <1>1
    <3>2. rk2[y] = rk[y] /\ rk[y] <= s
      BY <2>1, <2>2, <2>8, <2>9, <2>10
    <3>3. new.node[y].span[i] = rk[x] - rk[y] + ((IF v = List!NULL THEN list.length ELSE rk[v]) - rk[x]) - 1
      BY <3>1, <2>3, <2>6, <2>7, <2>8, <2>10, <1>1
    <3>4. CASE v = List!NULL
      BY <3>1, <3>2, <3>3, <3>4, <2>1, <2>2, <2>3, <2>10, <1>1, <1>3
    <3>5. CASE v # List!NULL
      <4>1. v \in List!Reach(list, i) /\ rk[v] > s + 1
        BY <3>1, <3>5, <2>5
      <4>2. v # x /\ rk2[v] = rk[v] - 1
        BY <4>1, <2>2
      <4> QED  BY <3>1, <3>2, <3>3, <3>5, <4>1, <4>2, <2>1, <2>2, <2>3, <2>10
    <3> QED  BY <3>4, <3>5
  <2>11. CASE w # x /\ l = y
    <3>1. rk2[y] = rk[y] /\ rk[y] <= s
      BY <2>1, <2>2, <2>9, <2>11
    <3>2. w # List!NULL => rk[w] > s /\ rk2[w] = rk[w] - 1
      <4>1. w # List!NULL => ~(rk[w] <= s)
        BY <2>1, <2>2, <2>4, <2>9, <2>11
      <4> QED  BY <4>1, <2>2, <2>4, <2>11
    <3>3. CASE w = List!NULL
      BY <3>1, <3>3, <2>1, <2>2, <2>3, <2>6, <2>11, <1>1, <1>3
    <3>4. CASE w # List!NULL
      BY <3>1, <3>2, <3>4, <2>1, <2>2, <2>3, <2>4, <2>6, <2>11
    <3> QED  BY <3>3, <3>4
  <2>12. CASE w # x /\ l # y
    <3>1. CASE rk[y] <= s
      <4>1. rk[y] < rk[l]
        <5>1. rk[y] <= rk[l] /\ rk[y] # rk[l]
          BY <3>1, <2>1, <2>2, <2>9, <2>12, <1>2
        <5> QED  BY <5>1, <2>1, <2>2, <2>9
      <4>2. w # List!NULL /\ rk[w] <= s
        BY <4>1, <2>1, <2>2, <2>4, <2>9
      <4> QED  BY <3>1, <4>2, <2>1, <2>2, <2>3, <2>4, <2>6, <2>12
    <3>2. CASE ~(rk[y] <= s)
      <4>1. rk2[y] = rk[y] - 1
        BY <3>2, <2>1, <2>2
      <4>2. w # List!NULL => rk2[w] = rk[w] - 1
        BY <3>2, <2>1, <2>2, <2>4, <2>12
      <4>3. CASE w = List!NULL
        BY <4>1, <4>3, <2>1, <2>2, <2>3, <2>6, <2>12, <1>1, <1>3
      <4>4. CASE w # List!NULL
        BY <4>1, <4>2, <4>4, <2>1, <2>2, <2>3, <2>4, <2>6, <2>12
      <4> QED  BY <4>3, <4>4
    <3> QED  BY <3>1, <3>2
  <2> QED  BY <2>10, <2>11, <2>12
<1>19. /\ \A r \in 0 .. s : List!at(new, rk2, r) = List!at(list, rk, r)
       /\ \A r \in s + 1 .. list.length : List!at(new, rk2, r) = List!at(list, rk, r + 1)
  <2>1. \A y \in List!Elements(new) : rk2[y] \in 1 .. new.length => List!at(new, rk2, rk2[y]) = y
    <3>1. \A y, z \in List!Elements(new) : rk2[y] = rk2[z] => y = z
      BY <1>15 DEF List!Numbered, List!Elements
    <3> QED  BY <3>1, AtIs
  <2>2. ASSUME NEW r \in 1 .. list.length, r # s + 1
        PROVE  LET y == List!at(list, rk, r)
               IN  y \in N /\ y # x /\ y \in List!Elements(new) /\ rk[y] = r
    <3>1. List!at(list, rk, r) \in E /\ rk[List!at(list, rk, r)] = r
      BY AtFacts
    <3> QED  BY <3>1, <2>2, <1>1, <1>9
  <2>3. ASSUME NEW r \in 0 .. s
        PROVE  List!at(new, rk2, r) = List!at(list, rk, r)
    <3>1. CASE r = 0
      BY <3>1, <1>1, <1>3 DEF List!at
    <3>2. CASE r # 0
      <4> DEFINE y == List!at(list, rk, r)
      <4>1. r \in 1 .. list.length /\ r # s + 1
        BY <3>2, <1>1
      <4>2. y \in N /\ y # x /\ y \in List!Elements(new) /\ rk[y] = r
        BY <2>2, <4>1
      <4> HIDE DEF y
      <4>3. rk2[y] = r
        BY <4>2, <1>12
      <4>4. r \in 1 .. new.length
        BY <3>2, <1>1, <1>3
      <4> QED  BY <4>2, <4>3, <4>4, <2>1 DEF y
    <3> QED  BY <3>1, <3>2
  <2>4. ASSUME NEW r \in s + 1 .. list.length
        PROVE  List!at(new, rk2, r) = List!at(list, rk, r + 1)
    <3>1. CASE r = list.length
      <4>1. r \notin 1 .. new.length /\ r + 1 \notin 1 .. list.length
        BY <3>1, <1>1, <1>3
      <4> QED  BY <4>1 DEF List!at
    <3>2. CASE r # list.length
      <4> DEFINE y == List!at(list, rk, r + 1)
      <4>1. r + 1 \in 1 .. list.length /\ r + 1 # s + 1 /\ r \in Int /\ r > s
        BY <3>2, <1>1
      <4>2. y \in N /\ y # x /\ y \in List!Elements(new) /\ rk[y] = r + 1
        BY <2>2, <4>1
      <4> HIDE DEF y
      <4>3. rk2[y] = r
        BY <4>1, <4>2, <1>12
      <4>4. r \in 1 .. new.length
        BY <3>2, <1>1, <1>3
      <4> QED  BY <4>2, <4>3, <4>4, <2>1 DEF y
    <3> QED  BY <3>1, <3>2
  <2> QED  BY <2>3, <2>4
<1>20. /\ first = List!at(list, rk, s + 2)
       /\ list.node[x].backward = List!at(list, rk, s)
       /\ list.tail = List!at(list, rk, list.length)
       /\ \A y \in E : list.node[y].backward = List!at(list, rk, rk[y] - 1)
  <2>1. first = List!at(list, rk, rk[x] + 1)
    BY <1>1, FirstNext DEF first
  <2>2. /\ \A y \in E : list.node[y].backward = List!at(list, rk, rk[y] - 1)
        /\ list.tail = List!at(list, rk, list.length)
    BY DEF List!Made, List!Joined
  <2>3. rk[x] + 1 = s + 2 /\ rk[x] - 1 = s
    OBVIOUS
  <2> QED  BY <2>1, <2>2, <2>3
<1>21. ASSUME NEW y \in List!Elements(new)
       PROVE  new.node[y].backward = List!at(new, rk2, rk2[y] - 1)
  <2>1. y \in E /\ y \in N /\ y # x /\ rk[y] \in 1 .. list.length /\ rk[y] # s + 1
    BY <1>1, <1>9, <1>12, AtFacts
  <2>2. new.node[y].backward = IF y = first THEN list.node[x].backward ELSE list.node[y].backward
    BY <2>1, <1>7
  <2>3. y = first <=> rk[y] = s + 2
    <3>1. rk[y] = s + 2 => y = first
      BY <2>1, <1>20, AtFacts
    <3>2. y = first => rk[y] = s + 2
      <4>1. s + 2 \in 1 .. list.length \/ first = List!NULL
        BY <1>1, <1>20 DEF List!at
      <4>2. y # List!NULL
        BY <2>1, NodeFacts
      <4> QED  BY <4>1, <4>2, <1>20, AtFacts
    <3> QED  BY <3>1, <3>2
  <2>4. CASE rk[y] <= s
    <3>1. rk2[y] - 1 = rk[y] - 1 /\ rk[y] - 1 \in 0 .. s /\ y # first
      BY <2>1, <2>3, <2>4, <1>12
    <3> QED  BY <3>1, <2>1, <2>2, <1>19, <1>20
  <2>5. CASE rk[y] = s + 2
    <3>1. rk2[y] - 1 = s /\ s \in 0 .. s
      BY <2>1, <2>5, <1>12
    <3> QED  BY <3>1, <2>2, <2>3, <2>5, <1>19, <1>20
  <2>6. CASE rk[y] > s + 2
    <3>1. /\ rk2[y] - 1 = rk[y] - 2 /\ rk[y] - 2 \in s + 1 .. list.length
          /\ (rk[y] - 2) + 1 = rk[y] - 1 /\ y # first
      <4>1. rk2[y] = rk[y] - 1
        BY <2>1, <2>6, <1>12
      <4>2. y # first
        BY <2>1, <2>3, <2>6
      <4> HIDE DEF N, E
      <4> QED  BY <4>1, <4>2, <2>1, <2>6, <1>1
    <3>2. List!at(new, rk2, rk[y] - 2) = List!at(list, rk, (rk[y] - 2) + 1)
      BY <3>1, <1>19
    <3> QED  BY <3>1, <3>2, <2>1, <2>2, <1>20
  <2> QED  BY <2>1, <2>4, <2>5, <2>6
<1>22. new.tail = List!at(new, rk2, new.length)
  <2>1. CASE s + 1 = list.length
    <3>1. first = List!NULL
      BY <2>1, <1>1, <1>20 DEF List!at
    <3>2. new.length = s /\ s \in 0 .. s
      BY <2>1, <1>1, <1>3
    <3> QED  BY <3>1, <3>2, <1>3, <1>19, <1>20
  <2>2. CASE s + 1 # list.length
    <3>1. s + 2 \in 1 .. list.length
      BY <2>2, <1>1
    <3>2. first # List!NULL
      BY <3>1, <1>20, AtFacts
    <3>3. new.length \in s + 1 .. list.length /\ new.length + 1 = list.length
      BY <2>2, <1>1, <1>3
    <3>4. List!at(new, rk2, new.length) = List!at(list, rk, list.length)
      BY <3>3, <1>19
    <3> QED  BY <3>2, <3>4, <1>3, <1>20
  <2> QED  BY <2>1, <2>2
<1>23. List!Made(new, rk2)
  <2>1. List!Joined(new, rk2)
    BY <1>16, <1>17, <1>18, <1>21, <1>22 DEF List!Joined
  <2> QED  BY <2>1, <1>14, <1>15 DEF List!Made
<1>24. \A y \in List!Elements(new) : new.node[y].score = list.node[y].score
  BY <1>1, <1>7, <1>9
<1>25. ASSUME NEW update, Fits(list, rk, s, update)
       PROVE  Fits(new, rk2, s, update)
  <2> SUFFICES ASSUME NEW i \in 1 .. new.level
               PROVE  update[i].at = Last(new, rk2, i, s)
    BY DEF Fits
  <2>1. i \in 1 .. MaxLevel /\ i \in 1 .. list.level
    BY <1>1, <1>3
  <2>2. update[i].at = last(i)
    BY <2>1, <1>25 DEF Fits, last
  <2>3. last(i) \in List!Reach(list, i) /\ last(i) \in N /\ rk[last(i)] <= s
        /\ \A z \in List!Reach(list, i) : rk[z] <= s => rk[z] <= rk[last(i)]
    BY <2>1, <1>4
  <2>4. last(i) # x
    BY <2>3
  <2>5. rk2[last(i)] = rk[last(i)] /\ last(i) \in List!Reach(new, i)
    BY <2>1, <2>3, <2>4, <1>2, <1>8, <1>12
  <2>6. \A z \in List!Reach(new, i) : rk2[z] <= s => rk2[z] <= rk2[last(i)]
    <3> SUFFICES ASSUME NEW z \in List!Reach(new, i), rk2[z] <= s
                 PROVE  rk2[z] <= rk2[last(i)]
      OBVIOUS
    <3>1. z \in List!Reach(list, i) /\ z # x /\ z \in N
      BY <2>1, <1>5, <1>8
    <3>2. rk[z] <= s
      <4>1. rk[z] <= s + 1 /\ rk[z] # s + 1 /\ rk[z] \in Int
        BY <3>1, <1>2, <1>12
      <4> QED  BY <4>1
    <3> QED  BY <3>1, <3>2, <2>3, <2>4, <1>13
  <2>7. Last(new, rk2, i, s) = last(i)
    BY <2>1, <2>3, <2>5, <2>6, <1>23, LastIs
  <2> QED  BY <2>2, <2>7
<1>26. List!at(new, rk2, s + 1) = List!Forward(list, x, 1)
  <2>1. s + 1 \in s + 1 .. list.length /\ (s + 1) + 1 = s + 2
    BY <1>1
  <2> QED  BY <2>1, <1>19, <1>20 DEF first
<1> QED  BY <1>3, <1>9, <1>23, <1>24, <1>25, <1>26 DEF rk2

\* slDelete takes the member out.
LEMMA DeleteMade ==
    ASSUME NEW list, NEW rk, List!Made(list, rk), NEW m \in List!Elements(list)
    PROVE  LET new == List!slDelete(list, list.node[m].score, m)
           IN  /\ \E rk2 : List!Made(new, rk2)
               /\ List!Elements(new) = List!Elements(list) \ {m}
               /\ \A y \in List!Elements(new) : new.node[y].score = list.node[y].score
<1> DEFINE score == list.node[m].score
           update == List!Before(list, score, m)
           x == List!Forward(list, update[1].at, 1)
           new == List!slDelete(list, score, m)
<1>1. /\ m \in DOMAIN list.node /\ m \in Nat /\ m # List!NULL /\ score \in Int
      /\ rk[m] \in 1 .. list.length /\ list.length \in Nat
      /\ list.level \in 1 .. MaxLevel /\ MaxLevel \in Nat
  <2>1. m \in DOMAIN list.node
    BY DEF List!Elements
  <2>2. m \in Nat /\ score \in Int
    BY <2>1, NodeFacts
  <2>3. m # List!NULL
    BY <2>1, NodeFacts
  <2> QED  BY <2>1, <2>2, <2>3, AtFacts, NodeFacts
<1> HIDE DEF score
<1>2. PICK k \in 0 .. list.length :
         /\ \A y \in List!Elements(list) :
               List!Precedes(list.node[y].score, y, score, m) <=> rk[y] <= k
         /\ update = [i \in 1 .. list.level |-> Pos(rk, Last(list, rk, i, k))]
  BY <1>1, BeforeIs
<1> HIDE DEF update
<1>3. rk[m] = k + 1
  <2>1. ~(rk[m] <= k)
    <3>1. ~List!Precedes(score, m, score, m)
      BY <1>1 DEF List!Precedes
    <3> QED  BY <3>1, <1>2 DEF score
  <2>2. k + 1 \in 1 .. list.length
    BY <2>1, <1>1, <1>2
  <2> DEFINE y == List!at(list, rk, k + 1)
  <2>3. y \in List!Elements(list) /\ rk[y] = k + 1
    BY <2>2, AtFacts
  <2> HIDE DEF y
  <2>4. ~(rk[y] < rk[m])
    <3>1. ~List!Precedes(list.node[y].score, y, score, m)
      BY <2>3, <1>2
    <3> QED  BY <3>1, <2>3, SortedFacts DEF score
  <2> QED  BY <2>1, <2>3, <2>4, <1>1
<1>4. x = m
  <2>1. 1 \in 1 .. list.level
    BY <1>1
  <2>2. update[1].at = Last(list, rk, 1, k)
    BY <2>1, <1>2 DEF Pos
  <2>3. 1 \in 1 .. MaxLevel /\ k \in Nat
    BY <1>1
  <2>4. Last(list, rk, 1, k) \in DOMAIN list.node /\ rk[Last(list, rk, 1, k)] = k
    BY <2>3, LastFacts, LastFirst
  <2>5. x = List!at(list, rk, k + 1)
    BY <2>2, <2>4, FirstNext
  <2> HIDE DEF x
  <2> QED  BY <2>5, <1>3, AtFacts
<1>5. Fits(list, rk, k, update)
  BY <1>2 DEF Fits, Pos
<1>6. new = List!slDeleteNode(list, m, update)
  BY <1>1, <1>4 DEF List!slDelete, update, score
<1>7. Shrunk(list, rk, k, m, new)
  BY <1>5, <1>6, DeleteForm
<1> HIDE DEF new
<1>8. /\ List!Made(new, Lowered(rk, m))
      /\ List!Elements(new) = List!Elements(list) \ {m}
      /\ \A y \in List!Elements(new) : new.node[y].score = list.node[y].score
  BY <1>3, <1>7, ShrunkMade
<1> QED  BY <1>8 DEF new, score

\* The loop of slDeleteByRank.
DeleteStep(update, a) ==
    IF a.x = List!NULL THEN a
    ELSE [list |-> List!slDeleteNode(a.list, a.x, update),
          x |-> List!Forward(a.list, a.x, 1),
          removed |-> a.removed \cup {a.x}]
DeleteLoop(f, top, base, update) ==
    f = [k \in 0 .. top |-> IF k = 0 THEN base ELSE DeleteStep(update, f[k - 1])]

LEMMA DeleteLoops ==
    ASSUME NEW top \in Nat, NEW base, NEW update
    PROVE  \E f : DeleteLoop(f, top, base, update)
<1> DEFINE S == {k \in Nat : \E f : DeleteLoop(f, k, base, update)}
<1>1. 0 \in S
  <2> DEFINE f == [k \in 0 .. 0 |-> base]
  <2>1. \A k \in 0 .. 0 : k = 0
    OBVIOUS
  <2>2. f = [k \in 0 .. 0 |-> IF k = 0 THEN base ELSE DeleteStep(update, f[k - 1])]
    BY <2>1
  <2>3. DeleteLoop(f, 0, base, update)
    BY <2>2 DEF DeleteLoop
  <2> QED  BY <2>3
<1>2. \A k \in Nat : k \in S => k + 1 \in S
  <2> SUFFICES ASSUME NEW k \in Nat, k \in S
               PROVE  \E f : DeleteLoop(f, k + 1, base, update)
    OBVIOUS
  <2>1. PICK f : DeleteLoop(f, k, base, update)
    OBVIOUS
  <2>2. /\ f = [j \in 0 .. k |-> f[j]]
        /\ \A j \in 0 .. k : f[j] = IF j = 0 THEN base ELSE DeleteStep(update, f[j - 1])
    BY <2>1 DEF DeleteLoop
  <2> DEFINE g == [j \in 0 .. k + 1 |-> IF j <= k THEN f[j] ELSE DeleteStep(update, f[k])]
  <2>3. \A j \in 0 .. k + 1 : g[j] = IF j = 0 THEN base ELSE DeleteStep(update, g[j - 1])
    <3> TAKE j \in 0 .. k + 1
    <3>1. CASE j = k + 1
      <4>1. ~(j <= k) /\ j - 1 = k /\ k \in 0 .. k + 1 /\ k <= k /\ j # 0
        BY <3>1
      <4> QED  BY <4>1
    <3>2. CASE j # k + 1 /\ j # 0
      <4>1. j <= k /\ j \in 0 .. k /\ j - 1 \in 0 .. k + 1 /\ j - 1 <= k
        BY <3>2
      <4> QED  BY <4>1, <3>2, <2>2
    <3>3. CASE j = 0
      <4>1. 0 \in 0 .. k /\ 0 \in 0 .. k + 1 /\ 0 <= k
        OBVIOUS
      <4> QED  BY <4>1, <3>3, <2>2
    <3> QED  BY <3>1, <3>2, <3>3
  <2>4. g = [j \in 0 .. k + 1 |-> IF j = 0 THEN base ELSE DeleteStep(update, g[j - 1])]
    BY <2>3
  <2>5. DeleteLoop(g, k + 1, base, update)
    BY <2>4 DEF DeleteLoop
  <2> QED  BY <2>5
<1>3. Nat \subseteq S
  <2> HIDE DEF S
  <2> QED  BY <1>1, <1>2, NatInd
<1> QED  BY <1>3

\* slDeleteByRank takes elements out and leaves the others as they are.
LEMMA DeleteRanksMade ==
    ASSUME NEW list, NEW rk, List!Made(list, rk), NEW start \in Nat \ {0}, start <= list.length,
           NEW end \in Nat, start <= end, NEW most \in Nat
    PROVE  LET cut == List!slDeleteByRank(list, start, end, most)
           IN  /\ \E rk2 : List!Made(cut.list, rk2)
               /\ List!Elements(cut.list) = List!Elements(list) \ cut.removed
               /\ \A y \in List!Elements(cut.list) : cut.list.node[y].score = list.node[y].score
<1> DEFINE s == start - 1
           passes == {p \in List!Positions(list) : p.rank < start}
           update == List!Descend(list, passes)
           d == end - update[1].rank
           top == IF d < most THEN d ELSE most
           base == [list |-> list, x |-> List!Forward(list, update[1].at, 1), removed |-> {}]
           after == CHOOSE f : DeleteLoop(f, top, base, update)
<1>1. /\ list.level \in 1 .. MaxLevel /\ MaxLevel \in Nat /\ list.length \in Nat
      /\ s \in Nat /\ s \in 0 .. list.length
  BY NodeFacts
<1>2. update = [i \in 1 .. list.level |-> Pos(rk, Last(list, rk, i, s))]
  <2>1. \A x \in List!Elements(list) : rk[x] \in Nat /\ x \in DOMAIN list.node
    BY AtFacts DEF List!Elements
  <2>2. PassesUpTo(list, rk, s, passes)
    BY <2>1 DEF PassesUpTo, Pos, List!Positions
  <2> HIDE DEF passes, s
  <2> QED  BY <2>2, <1>1, DescendIs
<1> HIDE DEF s, update
<1>3. update[1] = Pos(rk, Last(list, rk, 1, s)) /\ rk[Last(list, rk, 1, s)] = s
      /\ Last(list, rk, 1, s) \in DOMAIN list.node
  <2>1. 1 \in 1 .. list.level /\ 1 \in 1 .. MaxLevel
    BY <1>1
  <2> QED  BY <2>1, <1>1, <1>2, LastFirst, LastFacts
<1>4. d \in Nat /\ top \in Nat /\ top \in 0 .. top
  <2>1. update[1].rank = s
    BY <1>3 DEF Pos
  <2>2. d = end - s
    BY <2>1
  <2> HIDE DEF d
  <2>3. d \in Nat
    BY <2>2, <1>1 DEF s
  <2> QED  BY <2>3
<1>5. base.x = List!at(list, rk, s + 1)
  <2>1. update[1].at = Last(list, rk, 1, s)
    BY <1>3 DEF Pos
  <2> QED  BY <2>1, <1>3, FirstNext
<1> HIDE DEF base
<1>6. List!slDeleteByRank(list, start, end, most) = after[top]
  BY DEF List!slDeleteByRank, DeleteLoop, DeleteStep, update, base
<1> HIDE DEF d, top
<1>7. DeleteLoop(after, top, base, update)
  BY <1>4, DeleteLoops
<1> HIDE DEF after
<1>8. \A k \in 0 .. top : after[k] = IF k = 0 THEN base ELSE DeleteStep(update, after[k - 1])
  BY <1>7 DEF DeleteLoop
<1> DEFINE Good(a) ==
      /\ \E r : /\ List!Made(a.list, r) /\ Fits(a.list, r, s, update)
                /\ a.x = List!at(a.list, r, s + 1)
      /\ List!Elements(a.list) = List!Elements(list) \ a.removed
      /\ \A y \in List!Elements(a.list) : a.list.node[y].score = list.node[y].score
<1>9. Good(base)
  <2>1. base.list = list /\ base.removed = {}
    BY DEF base
  <2>2. Fits(list, rk, s, update)
    BY <1>2 DEF Fits, Pos
  <2> QED  BY <2>1, <2>2, <1>5
<1>10. ASSUME NEW a, Good(a)
       PROVE  Good(DeleteStep(update, a))
  <2>1. CASE a.x = List!NULL
    <3>1. DeleteStep(update, a) = a
      BY <2>1 DEF DeleteStep
    <3> QED  BY <3>1, <1>10
  <2>2. CASE a.x # List!NULL
    <3> DEFINE b == DeleteStep(update, a)
    <3>1. /\ b.list = List!slDeleteNode(a.list, a.x, update)
          /\ b.x = List!Forward(a.list, a.x, 1)
          /\ b.removed = a.removed \cup {a.x}
      BY <2>2 DEF DeleteStep
    <3> HIDE DEF b
    <3>2. PICK r : /\ List!Made(a.list, r) /\ Fits(a.list, r, s, update)
                   /\ a.x = List!at(a.list, r, s + 1)
      BY <1>10
    <3>3. a.x \in List!Elements(a.list) /\ r[a.x] = s + 1
      <4>1. s + 1 \in 1 .. a.list.length
        BY <2>2, <3>2, AtFacts
      <4> QED  BY <4>1, <3>2, AtFacts
    <3>4. Shrunk(a.list, r, s, a.x, b.list)
      BY <1>1, <3>1, <3>2, <3>3, DeleteForm
    <3>5. /\ List!Made(b.list, Lowered(r, a.x))
          /\ List!Elements(b.list) = List!Elements(a.list) \ {a.x}
          /\ \A y \in List!Elements(b.list) : b.list.node[y].score = a.list.node[y].score
          /\ Fits(b.list, Lowered(r, a.x), s, update)
          /\ List!at(b.list, Lowered(r, a.x), s + 1) = List!Forward(a.list, a.x, 1)
      BY <1>1, <3>2, <3>3, <3>4, ShrunkMade
    <3>6. List!Elements(b.list) = List!Elements(list) \ b.removed
      BY <3>1, <3>5, <1>10
    <3>7. \A y \in List!Elements(b.list) : b.list.node[y].score = list.node[y].score
      BY <3>5, <1>10
    <3> QED  BY <3>1, <3>5, <3>6, <3>7 DEF b
  <2> QED  BY <2>1, <2>2
<1>11. Good(after[top])
  <2> DEFINE T == {k \in 0 .. top : Good(after[k])}
  <2> HIDE DEF Good
  <2>1. 0 \in T
    BY <1>4, <1>8, <1>9
  <2>2. \A k \in 1 .. top : k - 1 \in T => k \in T
    <3> SUFFICES ASSUME NEW k \in 1 .. top, Good(after[k - 1])
                 PROVE  Good(after[k])
      OBVIOUS
    <3>1. k \in 0 .. top /\ k # 0
      BY <1>4
    <3>2. after[k] = DeleteStep(update, after[k - 1])
      BY <3>1, <1>8
    <3> QED  BY <3>2, <1>10
  <2>3. 0 .. top \subseteq T
    <3> HIDE DEF T
    <3> QED  BY <2>1, <2>2, <1>4, BoundedInd
  <2> QED  BY <2>3, <1>4
<1> DEFINE cut == List!slDeleteByRank(list, start, end, most)
<1>12. cut = after[top]
  BY <1>6
<1> HIDE DEF cut
<1>13. Good(cut)
  <2> HIDE DEF Good
  <2> QED  BY <1>11, <1>12
<1> QED  BY <1>13 DEF cut

-----------------------------------------------------------------------------
(* The invariant.                                                           *)

LEMMA Numbering ==
    ASSUME NEW list, NEW rk, List!Made(list, rk)
    PROVE  rk \in [DOMAIN list.node -> 0 .. list.length]
BY DEF List!Made, List!Numbered

\* Some numbering makes the list, and tbl holds its scores.
LEMMA ListIInv ==
    List!IInv <=> /\ \E rk : List!Made(sl, rk)
                  /\ tbl = [x \in List!Elements(sl) |-> sl.node[x].score]
BY Numbering DEF List!IInv

LEMMA ListInit == List!Init => List!IInv
<1> SUFFICES ASSUME List!Init PROVE List!IInv
  OBVIOUS
<1> DEFINE H == List!Header
           rk == [x \in {H} |-> 0]
<1>0. MaxLevel \in Nat \ {0}
  BY RanksFit
<1>1. /\ sl.level = 1 /\ sl.length = 0 /\ sl.tail = List!NULL
      /\ sl.node = [x \in {H} |->
                      [score |-> 0, backward |-> List!NULL,
                       forward |-> [i \in 1 .. MaxLevel |-> List!NULL],
                       span |-> [i \in 1 .. MaxLevel |-> 0]]]
      /\ tbl = [m \in {} |-> 0]
  BY DEF List!Init, List!slCreate
<1>2. /\ DOMAIN sl.node = {H} /\ List!Elements(sl) = {}
      /\ sl.node[H] = [score |-> 0, backward |-> List!NULL,
                       forward |-> [i \in 1 .. MaxLevel |-> List!NULL],
                       span |-> [i \in 1 .. MaxLevel |-> 0]]
  BY <1>1 DEF List!Elements
<1>3. sl.node[H] \in List!Node(MaxLevel) /\ DOMAIN sl.node[H].forward = 1 .. MaxLevel
  BY <1>2 DEF List!Node
<1>4. List!Shaped(sl)
  <2>1. MaxLevel \in 1 .. MaxLevel /\ 1 \in 1 .. MaxLevel
    BY <1>0
  <2> QED  BY <2>1, <1>1, <1>2, <1>3 DEF List!Shaped
<1>5. \A x \in DOMAIN sl.node : x = H /\ rk[x] = 0
  BY <1>2
<1>f. rk \in [{H} -> 0 .. 0]
  OBVIOUS
<1> HIDE DEF rk
<1>6. List!Numbered(sl, rk)
  <2>1. rk \in [DOMAIN sl.node -> 0 .. sl.length]
    BY <1>f, <1>1, <1>2
  <2>2. \A r \in 0 .. sl.length : \E x \in DOMAIN sl.node : rk[x] = r
    BY <1>1, <1>2, <1>5
  <2> QED  BY <2>1, <2>2, <1>2, <1>5 DEF List!Numbered
<1>7. List!Joined(sl, rk)
  <2>1. \A i \in 1 .. MaxLevel : /\ List!Forward(sl, H, i) = List!NULL
                                 /\ sl.node[H].span[i] = 0
    BY <1>2 DEF List!Forward
  <2>2. \A i \in 1 .. MaxLevel : \A x \in List!Reach(sl, i) : x = H
    BY <1>5 DEF List!Reach
  <2>3. \A i \in 1 .. MaxLevel : {z \in List!Reach(sl, i) : rk[z] > rk[H]} = {}
    BY <1>2, <1>5, <2>2
  <2>4. \A i \in 1 .. MaxLevel : \A x \in List!Reach(sl, i) :
          List!Follows(sl, rk, i, x, List!Forward(sl, x, i))
    BY <2>1, <2>2, <2>3 DEF List!Follows
  <2>5. \A i \in sl.level + 1 .. MaxLevel : List!Forward(sl, H, i) = List!NULL
    BY <2>1, <1>0, <1>1
  <2>6. \A i \in 1 .. sl.level : i \in 1 .. MaxLevel
    BY <1>0, <1>1
  <2>7. \A i \in 1 .. sl.level : \A x \in List!Reach(sl, i) :
          sl.node[x].span[i] =
            (IF List!Forward(sl, x, i) = List!NULL THEN sl.length ELSE rk[List!Forward(sl, x, i)])
            - rk[x]
    BY <2>1, <2>2, <2>6, <1>1, <1>2, <1>5
  <2>8. sl.tail = List!at(sl, rk, sl.length)
    BY <1>1 DEF List!at
  <2> QED  BY <2>4, <2>5, <2>7, <2>8, <1>2 DEF List!Joined
<1>8. tbl = [x \in List!Elements(sl) |-> sl.node[x].score]
  BY <1>1, <1>2
<1>9. List!Made(sl, rk)
  BY <1>4, <1>6, <1>7 DEF List!Made
<1> QED  BY <1>8, <1>9, ListIInv

LEMMA ListAdd ==
    ASSUME List!IInv, NEW m \in Member, NEW s \in Score, NEW h \in 1 .. MaxLevel, List!add(s, m, h)
    PROVE  List!IInv'
<1> DEFINE rest == IF m \in DOMAIN tbl THEN List!slDelete(sl, tbl[m], m) ELSE sl
<1>1. /\ sl' = List!slInsert(rest, s, m, h)
      /\ tbl' = [x \in DOMAIN tbl \cup {m} |-> IF x = m THEN s ELSE tbl[x]]
  BY DEF List!add
<1>2. PICK rk : List!Made(sl, rk)
  BY ListIInv
<1>3. tbl = [x \in List!Elements(sl) |-> sl.node[x].score]
  BY ListIInv
<1>4. /\ \E r : List!Made(rest, r)
      /\ List!Elements(rest) = List!Elements(sl) \ {m}
      /\ \A x \in List!Elements(rest) : rest.node[x].score = sl.node[x].score
  <2>1. CASE m \in DOMAIN tbl
    <3>1. m \in List!Elements(sl) /\ tbl[m] = sl.node[m].score
      BY <2>1, <1>3
    <3>2. rest = List!slDelete(sl, sl.node[m].score, m)
      BY <2>1, <3>1
    <3> QED  BY <3>1, <3>2, <1>2, DeleteMade
  <2>2. CASE m \notin DOMAIN tbl
    <3>1. rest = sl /\ m \notin List!Elements(sl)
      BY <2>2, <1>3
    <3> QED  BY <3>1, <1>2
  <2> QED  BY <2>1, <2>2
<1> HIDE DEF rest
<1>5. PICK r : List!Made(rest, r)
  BY <1>4
<1>6. s \in Int /\ m \notin List!Elements(rest)
  BY <1>4, RanksFit
<1>7. /\ \E r2 : List!Made(sl', r2)
      /\ List!Elements(sl') = List!Elements(rest) \cup {m}
      /\ sl'.node[m].score = s
      /\ \A x \in List!Elements(rest) : sl'.node[x].score = rest.node[x].score
  BY <1>1, <1>5, <1>6, InsertMade
<1>8. tbl' = [x \in List!Elements(sl') |-> sl'.node[x].score]
  <2>1. DOMAIN tbl \cup {m} = List!Elements(sl')
    BY <1>3, <1>4, <1>7
  <2>2. \A x \in List!Elements(sl') : sl'.node[x].score = IF x = m THEN s ELSE tbl[x]
    BY <1>3, <1>4, <1>7
  <2> QED  BY <2>1, <2>2, <1>1
<1> QED  BY <1>7, <1>8, Numbering DEF List!IInv

LEMMA ListRem ==
    ASSUME List!IInv, NEW m \in Member, List!rem(m)
    PROVE  List!IInv'
<1>1. /\ m \in DOMAIN tbl
      /\ sl' = List!slDelete(sl, tbl[m], m)
      /\ tbl' = [x \in DOMAIN tbl \ {m} |-> tbl[x]]
  BY DEF List!rem
<1>2. PICK rk : List!Made(sl, rk)
  BY ListIInv
<1>3. tbl = [x \in List!Elements(sl) |-> sl.node[x].score]
  BY ListIInv
<1>4. m \in List!Elements(sl) /\ sl' = List!slDelete(sl, sl.node[m].score, m)
  BY <1>1, <1>3
<1>5. /\ \E r : List!Made(sl', r)
      /\ List!Elements(sl') = List!Elements(sl) \ {m}
      /\ \A x \in List!Elements(sl') : sl'.node[x].score = sl.node[x].score
  BY <1>2, <1>4, DeleteMade
<1>6. tbl' = [x \in List!Elements(sl') |-> sl'.node[x].score]
  BY <1>1, <1>3, <1>5
<1> QED  BY <1>5, <1>6, Numbering DEF List!IInv

LEMMA ListDeleteRanks ==
    ASSUME List!IInv, NEW start \in Nat \ {0}, NEW end \in Nat, start <= end, end <= sl.length,
           NEW most \in Nat, List!DeleteRanks(start, end, most)
    PROVE  List!IInv'
<1> DEFINE cut == List!slDeleteByRank(sl, start, end, most)
<1>1. /\ sl' = cut.list
      /\ tbl' = [x \in DOMAIN tbl \ cut.removed |-> tbl[x]]
  BY DEF List!DeleteRanks
<1>2. PICK rk : List!Made(sl, rk)
  BY ListIInv
<1>3. tbl = [x \in List!Elements(sl) |-> sl.node[x].score]
  BY ListIInv
<1>4. start <= sl.length
  BY <1>2, NodeFacts
<1>5. /\ \E r : List!Made(cut.list, r)
      /\ List!Elements(cut.list) = List!Elements(sl) \ cut.removed
      /\ \A x \in List!Elements(cut.list) : cut.list.node[x].score = sl.node[x].score
  BY <1>2, <1>4, DeleteRanksMade
<1> HIDE DEF cut
<1>6. tbl' = [x \in List!Elements(sl') |-> sl'.node[x].score]
  BY <1>1, <1>3, <1>5
<1> QED  BY <1>1, <1>5, <1>6, Numbering DEF List!IInv

LEMMA SameCount ==
    ASSUME NEW S
    PROVE  List!Cardinality(S) = Cardinality(S)
BY DEF List!Cardinality, Cardinality, List!IsFiniteSet, IsFiniteSet

LEMMA ListStep == List!IInv /\ [List!Next]_List!vars => List!IInv'
<1> SUFFICES ASSUME List!IInv, [List!Next]_List!vars PROVE List!IInv'
  OBVIOUS
<1>1. ASSUME NEW m \in Member, NEW s \in Score, NEW h \in 1 .. MaxLevel, List!add(s, m, h)
      PROVE  List!IInv'
  BY <1>1, ListAdd
<1>2. ASSUME NEW m \in Member, List!rem(m) PROVE List!IInv'
  BY <1>2, ListRem
<1>3. ASSUME NEW d \in 0 .. Cardinality(Member), NEW k \in 1 .. Cardinality(Member),
             List!limit(d, k) \/ List!rev_limit(d, k)
      PROVE  List!IInv'
  <2>1. d \in Nat /\ k \in Nat
    BY RanksFit, FS_CardinalityType
  <2>2. sl.length \in Nat
    BY ListIInv, NodeFacts
  <2>3. CASE List!limit(d, k)
    <3>1. sl.length > d /\ List!DeleteRanks(d + 1, sl.length, k)
      BY <2>3 DEF List!limit
    <3>2. d + 1 \in Nat \ {0} /\ d + 1 <= sl.length /\ sl.length <= sl.length
      BY <2>1, <2>2, <3>1
    <3> QED  BY <2>1, <2>2, <3>1, <3>2, ListDeleteRanks
  <2>4. CASE List!rev_limit(d, k)
    <3>1. sl.length > d /\ List!DeleteRanks(1, sl.length - d, k)
      BY <2>4 DEF List!rev_limit
    <3>2. sl.length - d \in Nat /\ 1 \in Nat \ {0} /\ 1 <= sl.length - d /\ sl.length - d <= sl.length
      BY <2>1, <2>2, <3>1
    <3> QED  BY <2>1, <3>1, <3>2, ListDeleteRanks
  <2> QED  BY <1>3, <2>3, <2>4
<1>4. CASE UNCHANGED List!vars
  <2>1. sl' = sl /\ tbl' = tbl
    BY <1>4 DEF List!vars
  <2>2. /\ \E rk : List!Made(sl', rk)
        /\ tbl' = [x \in List!Elements(sl') |-> sl'.node[x].score]
    BY <2>1, ListIInv
  <2> QED  BY <2>2, Numbering DEF List!IInv
<1>5. CASE List!Next
  <2>1. CASE \E m \in Member, s \in Score, h \in 1 .. MaxLevel : List!add(s, m, h)
    BY <2>1, <1>1
  <2>2. CASE \E m \in Member : List!rem(m)
    BY <2>2, <1>2
  <2>3. CASE \E d \in 0 .. Cardinality(Member), k \in 1 .. Cardinality(Member) :
                List!limit(d, k) \/ List!rev_limit(d, k)
    BY <2>3, <1>3
  <2>4. List!Cardinality(Member) = Cardinality(Member)
    BY SameCount
  <2> QED  BY <1>5, <2>1, <2>2, <2>3, <2>4 DEF List!Next
<1> QED  BY <1>4, <1>5

THEOREM ListInvariant == List!Spec => []List!IInv
<1> QED  BY ListInit, ListStep, PTL DEF List!Spec

-----------------------------------------------------------------------------
(* The numbers are the ranks of tbl.                                        *)

UpTo(list, rk, r) == {x \in List!Elements(list) : rk[x] <= r}

LEMMA CountUpTo ==
    ASSUME NEW list, NEW rk, List!Made(list, rk), NEW r \in 0 .. list.length
    PROVE  IsFiniteSet(UpTo(list, rk, r)) /\ Cardinality(UpTo(list, rk, r)) = r
<1> DEFINE S == {k \in 0 .. list.length : /\ IsFiniteSet(UpTo(list, rk, k))
                                          /\ Cardinality(UpTo(list, rk, k)) = k}
<1>0. list.length \in Nat /\ \A x \in List!Elements(list) : rk[x] \in 1 .. list.length
  BY NodeFacts, AtFacts
<1>1. 0 \in S
  <2>1. UpTo(list, rk, 0) = {}
    BY <1>0 DEF UpTo
  <2> QED  BY <2>1, <1>0, FS_EmptySet
<1>2. \A k \in 1 .. list.length : k - 1 \in S => k \in S
  <2> SUFFICES ASSUME NEW k \in 1 .. list.length, k - 1 \in S PROVE k \in S
    OBVIOUS
  <2> DEFINE x == List!at(list, rk, k)
             T == UpTo(list, rk, k - 1)
  <2>1. x \in List!Elements(list) /\ rk[x] = k
    BY AtFacts
  <2>2. \A y \in List!Elements(list) : rk[y] = k => y = x
    BY <2>1, NodeFacts DEF List!Elements
  <2> HIDE DEF x
  <2>3. UpTo(list, rk, k) = T \cup {x} /\ x \notin T
    BY <2>1, <2>2, <1>0 DEF UpTo
  <2>4. IsFiniteSet(T) /\ Cardinality(T) = k - 1
    OBVIOUS
  <2> HIDE DEF T
  <2>5. IsFiniteSet(T \cup {x}) /\ Cardinality(T \cup {x}) = Cardinality(T) + 1
    BY <2>3, <2>4, FS_AddElement
  <2>6. Cardinality(UpTo(list, rk, k)) = k /\ k \in 0 .. list.length
    BY <2>3, <2>4, <2>5
  <2> QED  BY <2>3, <2>5, <2>6
<1>3. 0 .. list.length \subseteq S
  <2> HIDE DEF S
  <2> QED  BY <1>0, <1>1, <1>2, BoundedInd
<1> QED  BY <1>3

LEMMA RankIs ==
    ASSUME NEW rk, List!Made(sl, rk), List!IInv
    PROVE  /\ DOMAIN tbl = List!Elements(sl)
           /\ \A m \in DOMAIN tbl : tbl[m] = sl.node[m].score
           /\ List!Cardinality(DOMAIN tbl) = sl.length
           /\ \A m \in DOMAIN tbl : List!Rank(m) = rk[m]
           /\ \A r \in 1 .. sl.length : List!AtRank(r) = List!at(sl, rk, r)
<1>0. sl.length \in Nat /\ \A x \in List!Elements(sl) : rk[x] \in 1 .. sl.length
  BY NodeFacts, AtFacts
<1>1. DOMAIN tbl = List!Elements(sl) /\ \A m \in DOMAIN tbl : tbl[m] = sl.node[m].score
  BY DEF List!IInv
<1>2. List!Cardinality(DOMAIN tbl) = sl.length
  <2>1. DOMAIN tbl = UpTo(sl, rk, sl.length) /\ sl.length \in 0 .. sl.length
    BY <1>0, <1>1 DEF UpTo
  <2>2. Cardinality(UpTo(sl, rk, sl.length)) = sl.length
    BY <2>1, CountUpTo
  <2> QED  BY <2>1, <2>2, SameCount
<1>3. ASSUME NEW m \in DOMAIN tbl
      PROVE  List!Rank(m) = rk[m]
  <2> DEFINE T == {x \in DOMAIN tbl : List!Precedes(tbl[x], x, tbl[m], m)}
  <2>1. rk[m] \in 1 .. sl.length /\ rk[m] - 1 \in 0 .. sl.length
    BY <1>0, <1>1
  <2>2. \A x \in DOMAIN tbl : List!Precedes(tbl[x], x, tbl[m], m) <=> rk[x] < rk[m]
    BY <1>1, SortedFacts
  <2>3. \A x \in DOMAIN tbl : rk[x] < rk[m] <=> rk[x] <= rk[m] - 1
    BY <1>0, <1>1
  <2>4. T = UpTo(sl, rk, rk[m] - 1)
    BY <2>2, <2>3, <1>1 DEF UpTo
  <2> HIDE DEF T
  <2>5. Cardinality(T) = rk[m] - 1
    BY <2>1, <2>4, CountUpTo
  <2>6. List!Rank(m) = List!Cardinality(T) + 1
    BY DEF List!Rank, T
  <2> QED  BY <2>1, <2>5, <2>6, SameCount
<1>4. ASSUME NEW r \in 1 .. sl.length
      PROVE  List!AtRank(r) = List!at(sl, rk, r)
  <2>1. List!AtRank(r) = CHOOSE m \in List!Elements(sl) : List!Rank(m) = r
    BY <1>1 DEF List!AtRank
  <2>2. List!at(sl, rk, r) \in List!Elements(sl) /\ rk[List!at(sl, rk, r)] = r
    BY AtFacts
  <2>3. \A m \in List!Elements(sl) : List!Rank(m) = r => m = List!at(sl, rk, r)
    BY <1>1, <1>3, AtFacts
  <2>4. List!Rank(List!at(sl, rk, r)) = r
    BY <2>2, <1>1, <1>3
  <2> QED  BY <2>1, <2>2, <2>3, <2>4
<1> QED  BY <1>1, <1>2, <1>3, <1>4

LEMMA LinkedIs ==
    ASSUME List!IInv
    PROVE  List!Linked
<1>1. PICK rk : List!Made(sl, rk)
  BY DEF List!IInv
<1> DEFINE count == List!Cardinality(DOMAIN tbl)
           rank(x) == IF x = List!Header THEN 0 ELSE List!Rank(x)
           after(x, i) == {y \in List!Reach(sl, i) : rank(y) > rank(x)}
<1>2. /\ DOMAIN tbl = List!Elements(sl)
      /\ \A m \in DOMAIN tbl : tbl[m] = sl.node[m].score
      /\ count = sl.length
      /\ \A m \in DOMAIN tbl : List!Rank(m) = rk[m]
      /\ \A r \in 1 .. sl.length : List!AtRank(r) = List!at(sl, rk, r)
  BY <1>1, RankIs
<1>3. /\ sl.level \in 1 .. MaxLevel /\ sl.length \in Nat /\ MaxLevel \in Nat
      /\ \A x \in DOMAIN sl.node : rk[x] \in 0 .. sl.length
      /\ \A x \in List!Elements(sl) : rk[x] \in 1 .. sl.length
  BY <1>1, NodeFacts, AtFacts
<1>4. \A x \in DOMAIN sl.node : rank(x) = rk[x]
  <2> TAKE x \in DOMAIN sl.node
  <2>1. CASE x = List!Header
    BY <2>1, <1>1, NodeFacts
  <2>2. CASE x # List!Header
    BY <2>2, <1>2 DEF List!Elements
  <2> QED  BY <2>1, <2>2
<1> HIDE DEF count, rank
<1>5. ASSUME NEW i \in 1 .. sl.level, NEW x \in List!Reach(sl, i)
      PROVE  LET next == List!Forward(sl, x, i)
             IN  IF after(x, i) = {}
                 THEN next = List!NULL /\ sl.node[x].span[i] = count - rank(x)
                 ELSE /\ next \in after(x, i)
                      /\ \A y \in after(x, i) : rank(next) <= rank(y)
                      /\ sl.node[x].span[i] = rank(next) - rank(x)
  <2> DEFINE next == List!Forward(sl, x, i)
  <2>0. i \in 1 .. MaxLevel /\ i <= sl.level
    BY <1>3
  <2>1. /\ next = List!NULL => \A z \in List!Reach(sl, i) : rk[z] <= rk[x]
        /\ next # List!NULL => /\ next \in List!Reach(sl, i)
                               /\ rk[next] > rk[x]
                               /\ \A z \in List!Reach(sl, i) : rk[z] > rk[x] => rk[next] <= rk[z]
    BY <2>0, <1>1, NextFacts
  <2>2. sl.node[x].span[i] = (IF next = List!NULL THEN sl.length ELSE rk[next]) - rk[x]
    BY <2>0, <1>1, LevelFacts
  <2>3. \A z \in List!Reach(sl, i) : rank(z) = rk[z] /\ rk[z] \in Int
    BY <1>3, <1>4 DEF List!Reach
  <2> HIDE DEF next
  <2>4. CASE next = List!NULL
    <3>1. after(x, i) = {}
      BY <2>1, <2>3, <2>4
    <3> HIDE DEF after
    <3> QED  BY <3>1, <2>2, <2>3, <2>4, <1>2 DEF next
  <2>5. CASE next # List!NULL
    <3>1. next \in after(x, i) /\ \A y \in after(x, i) : rank(next) <= rank(y)
      BY <2>1, <2>3, <2>5
    <3>2. sl.node[x].span[i] = rank(next) - rank(x)
      BY <2>1, <2>2, <2>3, <2>5
    <3>3. after(x, i) # {}
      BY <3>1
    <3> HIDE DEF after
    <3> QED  BY <3>1, <3>2, <3>3 DEF next
  <2> QED  BY <2>4, <2>5
<1>6. \A i \in sl.level + 1 .. MaxLevel : List!Forward(sl, List!Header, i) = List!NULL
  BY <1>1 DEF List!Made, List!Joined
<1>7. ASSUME NEW m \in DOMAIN tbl
      PROVE  sl.node[m].backward = IF List!Rank(m) = 1 THEN List!NULL ELSE List!AtRank(List!Rank(m) - 1)
  <2>1. sl.node[m].backward = List!at(sl, rk, rk[m] - 1)
    BY <1>1, <1>2 DEF List!Made, List!Joined
  <2>2. List!Rank(m) = rk[m] /\ rk[m] \in 1 .. sl.length
    BY <1>2, <1>3
  <2>3. CASE rk[m] = 1
    BY <2>1, <2>2, <2>3 DEF List!at
  <2>4. CASE rk[m] # 1
    <3>1. rk[m] - 1 \in 1 .. sl.length
      BY <2>2, <2>4, <1>3
    <3> QED  BY <3>1, <2>1, <2>2, <2>4, <1>2
  <2> QED  BY <2>3, <2>4
<1>8. sl.tail = IF count = 0 THEN List!NULL ELSE List!AtRank(count)
  <2>1. sl.tail = List!at(sl, rk, sl.length)
    BY <1>1 DEF List!Made, List!Joined
  <2>2. CASE sl.length = 0
    BY <2>1, <2>2, <1>2 DEF List!at
  <2>3. CASE sl.length # 0
    <3>1. sl.length \in 1 .. sl.length
      BY <2>3, <1>3
    <3> QED  BY <3>1, <2>1, <2>3, <1>2
  <2> QED  BY <2>2, <2>3
<1>9. \A i \in 1 .. sl.level : \A x \in List!Reach(sl, i) :
              LET next == List!Forward(sl, x, i)
              IN  IF after(x, i) = {}
                  THEN next = List!NULL /\ sl.node[x].span[i] = count - rank(x)
                  ELSE /\ next \in after(x, i)
                       /\ \A y \in after(x, i) : rank(next) <= rank(y)
                       /\ sl.node[x].span[i] = rank(next) - rank(x)
  BY <1>5
<1> QED  BY <1>2, <1>6, <1>7, <1>8, <1>9 DEF List!Linked, count, rank

-----------------------------------------------------------------------------
(* The queries.                                                             *)

LEMMA AppendIs ==
    ASSUME NEW k \in Nat, NEW S, NEW f \in [0 .. k -> S]
    PROVE  Append([i \in 1 .. k |-> f[i - 1]], f[k]) = [i \in 1 .. k + 1 |-> f[i - 1]]
<1> DEFINE s == [i \in 1 .. k |-> f[i - 1]]
           t == [i \in 1 .. k + 1 |-> f[i - 1]]
<1>1. \A i \in 1 .. k : f[i - 1] \in S
  OBVIOUS
<1>2. s \in Seq(S) /\ Len(s) = k
  BY <1>1
<1>3. f[k] \in S
  OBVIOUS
<1>4. \A i \in 1 .. k + 1 : f[i - 1] \in S
  OBVIOUS
<1>5. t \in Seq(S) /\ Len(t) = k + 1
  BY <1>4
<1>6. \A i \in 1 .. k : s[i] = f[i - 1]
  OBVIOUS
<1>7. \A i \in 1 .. k + 1 : t[i] = f[i - 1]
  OBVIOUS
<1> HIDE DEF s, t
<1>8. /\ Append(s, f[k]) \in Seq(S) /\ Len(Append(s, f[k])) = k + 1
      /\ \A i \in 1 .. k + 1 : Append(s, f[k])[i] = IF i <= k THEN s[i] ELSE f[k]
  BY <1>2, <1>3
<1>9. \A i \in 1 .. k + 1 : Append(s, f[k])[i] = t[i]
  <2> TAKE i \in 1 .. k + 1
  <2>1. CASE i <= k
    BY <2>1, <1>6, <1>7, <1>8
  <2>2. CASE ~(i <= k)
    <3>1. i - 1 = k
      BY <2>2
    <3> QED  BY <3>1, <2>2, <1>7, <1>8
  <2> QED  BY <2>1, <2>2
<1>10. Append(s, f[k]) = t
  BY <1>5, <1>8, <1>9
<1> QED  BY <1>10 DEF s, t

\* The loops visit f: c elements, all they may or up to the end or one that is
\* not in the range.
Visits(f, c, first, next, d, range) ==
    /\ d \in Nat /\ c \in 0 .. d
    /\ \E S : f \in [0 .. c -> S]
    /\ f[0] = first
    /\ \A i \in 1 .. c : f[i - 1] # List!NULL /\ f[i - 1] \in range /\ f[i] = next[f[i - 1]]
    /\ c = d \/ f[c] = List!NULL \/ f[c] \notin range
Visited(f, c) == [i \in 1 .. c |-> f[i - 1]]

LEMMA CollectIs ==
    ASSUME NEW f, NEW c, NEW first, NEW next, NEW d, NEW range,
           Visits(f, c, first, next, d, range)
    PROVE  List!Collect(first, next, d, range) = Visited(f, c)
<1> DEFINE step(a) == IF a.x = List!NULL \/ a.x \notin range THEN a
                      ELSE [x |-> next[a.x], members |-> Append(a.members, a.x)]
           Is(h) == h = [k \in 0 .. d |->
                           IF k = 0 THEN [x |-> first, members |-> <<>>] ELSE step(h[k - 1])]
           got == CHOOSE h : Is(h)
           prefix(k) == [i \in 1 .. k |-> f[i - 1]]
           state(k) == [x |-> f[k], members |-> prefix(k)]
           g == [k \in 0 .. d |-> IF k <= c THEN state(k) ELSE state(c)]
<1>0. /\ d \in Nat /\ c \in 0 .. d /\ f[0] = first
      /\ \A i \in 1 .. c : f[i - 1] # List!NULL /\ f[i - 1] \in range /\ f[i] = next[f[i - 1]]
      /\ c = d \/ f[c] = List!NULL \/ f[c] \notin range
  BY DEF Visits
<1> PICK S : f \in [0 .. c -> S]
  BY DEF Visits
<1> USE <1>0
<1>1. List!Collect(first, next, d, range) = got[d].members
  BY DEF List!Collect
<1>2. \A k \in 0 .. c : prefix(k + 1) = Append(prefix(k), f[k])
  <2> TAKE k \in 0 .. c
  <2> DEFINE e == [i \in 0 .. k |-> f[i]]
  <2>1. e \in [0 .. k -> S]
    OBVIOUS
  <2>2. Append([i \in 1 .. k |-> e[i - 1]], e[k]) = [i \in 1 .. k + 1 |-> e[i - 1]]
    <3> HIDE DEF e
    <3>1. k \in Nat
      OBVIOUS
    <3> QED  BY <2>1, <3>1, AppendIs
  <2>3. [i \in 1 .. k |-> e[i - 1]] = prefix(k) /\ [i \in 1 .. k + 1 |-> e[i - 1]] = prefix(k + 1)
        /\ e[k] = f[k]
    OBVIOUS
  <2> QED  BY <2>2, <2>3
<1>3. prefix(0) = <<>>
  OBVIOUS
<1> HIDE DEF prefix
<1>4. state(0) = [x |-> first, members |-> <<>>]
  BY <1>3
<1>5. \A k \in 1 .. c : step(state(k - 1)) = state(k)
  <2> TAKE k \in 1 .. c
  <2>1. k - 1 \in 0 .. c /\ (k - 1) + 1 = k
    OBVIOUS
  <2>2. f[k - 1] # List!NULL /\ f[k - 1] \in range /\ f[k] = next[f[k - 1]]
    OBVIOUS
  <2>3. prefix(k) = Append(prefix(k - 1), f[k - 1])
    BY <2>1, <1>2
  <2> QED  BY <2>2, <2>3
<1>6. c # d => step(state(c)) = state(c)
  OBVIOUS
<1> HIDE DEF state, step
<1>7. \A k \in 1 .. d : g[k] = step(g[k - 1])
  <2> TAKE k \in 1 .. d
  <2>1. k \in 0 .. d /\ k - 1 \in 0 .. d
    OBVIOUS
  <2>2. CASE k <= c
    <3>1. k \in 1 .. c /\ k - 1 <= c
      BY <2>2
    <3> QED  BY <3>1, <2>1, <2>2, <1>5
  <2>3. CASE k > c
    <3>1. c # d /\ ~(k <= c)
      BY <2>3
    <3>2. g[k] = state(c)
      BY <3>1, <2>1
    <3>3. g[k - 1] = state(c)
      <4>1. CASE k - 1 = c
        BY <4>1, <2>1
      <4>2. CASE k - 1 # c
        <5>1. ~(k - 1 <= c)
          BY <4>2, <2>3
        <5> QED  BY <5>1, <2>1
      <4> QED  BY <4>1, <4>2
    <3> QED  BY <3>1, <3>2, <3>3, <1>6
  <2> QED  BY <2>2, <2>3
<1>8. g[0] = state(0) /\ g[d] = state(c)
  <2>1. g[0] = state(0)
    OBVIOUS
  <2>2. d <= c => d = c
    OBVIOUS
  <2>3. g[d] = IF d <= c THEN state(d) ELSE state(c)
    OBVIOUS
  <2> QED  BY <2>1, <2>2, <2>3
<1>9. Is(g)
  <2>1. \A k \in 0 .. d : g[k] = IF k = 0 THEN state(0) ELSE step(g[k - 1])
    <3> TAKE k \in 0 .. d
    <3>1. k # 0 => k \in 1 .. d
      OBVIOUS
    <3> HIDE DEF g
    <3> QED  BY <3>1, <1>7, <1>8
  <2>2. g = [k \in 0 .. d |-> g[k]]
    OBVIOUS
  <2> HIDE DEF g
  <2>3. g = [k \in 0 .. d |-> IF k = 0 THEN state(0) ELSE step(g[k - 1])]
    BY <2>1, <2>2
  <2> QED  BY <2>3, <1>4
<1>10. Is(got)
  <2> HIDE DEF Is, g
  <2> QED  BY <1>9
<1> HIDE DEF got
<1>11. \A k \in 0 .. d : got[k] = IF k = 0 THEN state(0) ELSE step(got[k - 1])
  BY <1>4, <1>10
<1>12. got[d] = g[d]
  <2> DEFINE T == {k \in 0 .. d : got[k] = g[k]}
  <2> HIDE DEF g
  <2>1. 0 \in T
    <3>1. 0 \in 0 .. d /\ (0 = 0) = TRUE
      OBVIOUS
    <3>2. got[0] = state(0)
      BY <3>1, <1>11
    <3> QED  BY <3>1, <3>2, <1>8
  <2>2. \A k \in 1 .. d : k - 1 \in T => k \in T
    <3> SUFFICES ASSUME NEW k \in 1 .. d, got[k - 1] = g[k - 1] PROVE k \in T
      OBVIOUS
    <3>1. k \in 0 .. d /\ k # 0
      OBVIOUS
    <3> QED  BY <3>1, <1>7, <1>11
  <2>3. 0 .. d \subseteq T
    <3> HIDE DEF T
    <3> QED  BY <2>1, <2>2, BoundedInd
  <2> QED  BY <2>3
<1>13. state(c).members = prefix(c)
  BY DEF state
<1> QED  BY <1>1, <1>8, <1>12, <1>13 DEF prefix, Visited

\* slGetRank finds the number of an element.
LEMMA GetRankIs ==
    ASSUME NEW list, NEW rk, List!Made(list, rk), NEW m \in List!Elements(list)
    PROVE  List!slGetRank(list, list.node[m].score, m) = rk[m]
<1> DEFINE score == list.node[m].score
           passes == {p \in List!Positions(list) :
                        \/ List!Precedes(list.node[p.at].score, p.at, score, m)
                        \/ list.node[p.at].score = score /\ p.at = m}
           pos == List!Descend(list, passes)
           found == {i \in DOMAIN pos : pos[i].at = m}
           k == rk[m]
<1>1. /\ list.level \in 1 .. MaxLevel /\ MaxLevel \in Nat /\ list.length \in Nat
      /\ m \in DOMAIN list.node /\ k \in 1 .. list.length /\ k \in Nat /\ k \in 0 .. list.length
      /\ \A x \in List!Elements(list) : x \in DOMAIN list.node /\ rk[x] \in Nat
  BY NodeFacts, AtFacts DEF List!Elements
<1>2. PassesUpTo(list, rk, k, passes)
  <2>1. \A x \in List!Elements(list) : rk[x] = k => x = m
    BY <1>1, NodeFacts
  <2>2. \A x \in List!Elements(list) : List!Precedes(list.node[x].score, x, score, m) <=> rk[x] < k
    BY SortedFacts
  <2>3. \A x \in List!Elements(list) : Pos(rk, x) \in List!Positions(list)
    BY <1>1 DEF Pos, List!Positions
  <2> HIDE DEF score
  <2>4. \A x \in List!Elements(list) : Pos(rk, x) \in passes <=> rk[x] < k \/ (list.node[x].score = score /\ x = m)
    BY <2>2, <2>3 DEF Pos
  <2> HIDE DEF passes
  <2>5. \A x \in List!Elements(list) : rk[x] < k \/ (list.node[x].score = score /\ x = m) <=> rk[x] <= k
    BY <2>1, <1>1 DEF score
  <2> QED  BY <2>4, <2>5 DEF PassesUpTo
<1>3. pos = [i \in 1 .. list.level |-> Pos(rk, Last(list, rk, i, k))]
  <2> HIDE DEF passes, k
  <2> QED  BY <1>1, <1>2, DescendIs
<1>4. List!slGetRank(list, score, m) =
        IF found = {} THEN 0 ELSE pos[CHOOSE i \in found : \A j \in found : j <= i].rank
  BY DEF List!slGetRank
<1> HIDE DEF pos, passes, score
<1>5. 1 \in found /\ found \subseteq Nat /\ \A j \in found : j <= list.level
  <2>1. 1 \in 1 .. list.level
    BY <1>1
  <2>2. Last(list, rk, 1, k) = List!at(list, rk, k)
    BY <1>1, LastFirst
  <2>3. List!at(list, rk, k) = m
    BY AtFacts
  <2>4. pos[1].at = m
    BY <2>1, <2>2, <2>3, <1>3 DEF Pos
  <2>5. DOMAIN pos = 1 .. list.level
    BY <1>3
  <2> QED  BY <2>1, <2>4, <2>5, <1>1
<1>6. \E i \in found : \A j \in found : j <= i
  <2>1. list.level \in Nat /\ found # {}
    BY <1>1, <1>5
  <2> HIDE DEF found
  <2> QED  BY <2>1, <1>5, GreatestNat
<1>7. PICK i \in found : List!slGetRank(list, score, m) = pos[i].rank
  <2>1. (CHOOSE i \in found : \A j \in found : j <= i) \in found /\ found # {}
    <3> HIDE DEF found
    <3> QED  BY <1>5, <1>6
  <2> HIDE DEF found
  <2> QED  BY <2>1, <1>4
<1>8. pos[i].at = m /\ pos[i] = Pos(rk, Last(list, rk, i, k))
  BY <1>3, <1>7
<1>9. pos[i].rank = rk[m]
  BY <1>8 DEF Pos
<1> QED  BY <1>7, <1>9 DEF score

\* slGetNodeByRank finds the element with a number.
LEMMA NodeByRankIs ==
    ASSUME NEW list, NEW rk, List!Made(list, rk), NEW r \in 1 .. list.length
    PROVE  List!slGetNodeByRank(list, r) = List!at(list, rk, r)
<1> DEFINE passes == {p \in List!Positions(list) : p.rank <= r}
           pos == List!Descend(list, passes)
           found == {i \in DOMAIN pos : pos[i].rank = r}
<1>1. /\ list.level \in 1 .. MaxLevel /\ MaxLevel \in Nat /\ list.length \in Nat
      /\ r \in Nat /\ r \in 0 .. list.length /\ ~(r <= 0) /\ ~(r > list.length) /\ r # 0
      /\ \A x \in List!Elements(list) : x \in DOMAIN list.node /\ rk[x] \in Nat
  BY NodeFacts, AtFacts DEF List!Elements
<1>2. PassesUpTo(list, rk, r, passes)
  <2>1. \A x \in List!Elements(list) : Pos(rk, x) \in List!Positions(list)
    BY <1>1 DEF Pos, List!Positions
  <2> QED  BY <2>1 DEF PassesUpTo, Pos
<1>3. pos = [i \in 1 .. list.level |-> Pos(rk, Last(list, rk, i, r))]
  <2> HIDE DEF passes
  <2> QED  BY <1>1, <1>2, DescendIs
<1>4. List!slGetNodeByRank(list, r) =
        IF found = {} THEN List!NULL ELSE pos[CHOOSE i \in found : \A j \in found : j <= i].at
  BY <1>1 DEF List!slGetNodeByRank
<1> HIDE DEF pos, passes
<1>5. 1 \in found /\ found \subseteq Nat /\ \A j \in found : j <= list.level
  <2>1. 1 \in 1 .. list.level
    BY <1>1
  <2>2. rk[Last(list, rk, 1, r)] = r
    BY <1>1, LastFirst
  <2>3. pos[1].rank = r
    BY <2>1, <2>2, <1>3 DEF Pos
  <2>4. DOMAIN pos = 1 .. list.level
    BY <1>3
  <2> QED  BY <2>1, <2>3, <2>4, <1>1
<1>6. \E i \in found : \A j \in found : j <= i
  <2>1. list.level \in Nat /\ found # {}
    BY <1>1, <1>5
  <2> HIDE DEF found
  <2> QED  BY <2>1, <1>5, GreatestNat
<1>7. PICK i \in found : List!slGetNodeByRank(list, r) = pos[i].at
  <2>1. (CHOOSE i \in found : \A j \in found : j <= i) \in found /\ found # {}
    <3> HIDE DEF found
    <3> QED  BY <1>5, <1>6
  <2> HIDE DEF found
  <2> QED  BY <2>1, <1>4
<1>8. i \in 1 .. list.level /\ i \in 1 .. MaxLevel /\ pos[i].rank = r /\ pos[i] = Pos(rk, Last(list, rk, i, r))
  BY <1>1, <1>3, <1>7
<1> DEFINE x == Last(list, rk, i, r)
<1>9. pos[i].at = x /\ rk[x] = r /\ x \in DOMAIN list.node
  BY <1>1, <1>8, LastFacts DEF Pos
<1> HIDE DEF x
<1>10. x \in List!Elements(list)
  BY <1>1, <1>9, NodeFacts
<1> QED  BY <1>7, <1>9, <1>10, AtFacts

\* The c elements from number a on, upwards and downwards, and when a loop over
\* at most n elements collects them.
Upwards(list, rk, a, c) == [i \in 1 .. c |-> List!at(list, rk, a + i - 1)]
Downwards(list, rk, a, c) == [i \in 1 .. c |-> List!at(list, rk, a - i + 1)]

CollectsUp(list, rk, a, c, d, range) ==
    /\ a \in Nat \ {0} /\ d \in Nat /\ c \in 0 .. d /\ a + c - 1 <= list.length
    /\ \A i \in 1 .. c : List!at(list, rk, a + i - 1) \in range
    /\ c = d \/ List!at(list, rk, a + c) = List!NULL \/ List!at(list, rk, a + c) \notin range
CollectsDown(list, rk, a, c, d, range) ==
    /\ a \in 0 .. list.length /\ d \in Nat /\ c \in 0 .. d /\ c <= a
    /\ \A i \in 1 .. c : List!at(list, rk, a - i + 1) \in range
    /\ c = d \/ List!at(list, rk, a - c) = List!NULL \/ List!at(list, rk, a - c) \notin range

LEMMA CollectUp ==
    ASSUME NEW list, NEW rk, List!Made(list, rk), NEW a, NEW c, NEW d, NEW range,
           CollectsUp(list, rk, a, c, d, range)
    PROVE  List!Collect(List!at(list, rk, a), List!Forwards(list), d, range)
              = Upwards(list, rk, a, c)
<1> DEFINE f == [i \in 0 .. c |-> List!at(list, rk, a + i)]
           S == {f[i] : i \in 0 .. c}
<1>0. /\ a \in Nat \ {0} /\ d \in Nat /\ c \in 0 .. d /\ a + c - 1 <= list.length
      /\ \A i \in 1 .. c : List!at(list, rk, a + i - 1) \in range
      /\ c = d \/ List!at(list, rk, a + c) = List!NULL \/ List!at(list, rk, a + c) \notin range
      /\ list.length \in Nat
  BY NodeFacts DEF CollectsUp
<1> USE <1>0
<1>1. f \in [0 .. c -> S] /\ f[0] = List!at(list, rk, a) /\ f[c] = List!at(list, rk, a + c)
  OBVIOUS
<1>2. ASSUME NEW i \in 1 .. c
      PROVE  /\ f[i - 1] # List!NULL /\ f[i - 1] \in range
             /\ f[i] = List!Forwards(list)[f[i - 1]]
             /\ f[i - 1] = List!at(list, rk, a + i - 1)
  <2>1. i - 1 \in 0 .. c /\ i \in 0 .. c /\ a + (i - 1) = a + i - 1 /\ a + i - 1 \in 1 .. list.length
        /\ (a + i - 1) + 1 = a + i
    BY <1>0
  <2>2. f[i - 1] = List!at(list, rk, a + i - 1) /\ f[i] = List!at(list, rk, a + i)
    BY <2>1
  <2> HIDE DEF f
  <2>3. f[i - 1] \in List!Elements(list) /\ f[i - 1] # List!NULL /\ rk[f[i - 1]] = a + i - 1
    BY <2>1, <2>2, AtFacts
  <2>4. List!Forward(list, f[i - 1], 1) = List!at(list, rk, rk[f[i - 1]] + 1)
    BY <2>3, FirstNext DEF List!Elements
  <2>5. List!Forwards(list)[f[i - 1]] = List!Forward(list, f[i - 1], 1)
    BY <2>3 DEF List!Forwards, List!Elements
  <2> QED  BY <2>1, <2>2, <2>3, <2>4, <2>5
<1> HIDE DEF f, S
<1>3. Visits(f, c, List!at(list, rk, a), List!Forwards(list), d, range)
  BY <1>0, <1>1, <1>2 DEF Visits
<1>4. List!Collect(List!at(list, rk, a), List!Forwards(list), d, range) = Visited(f, c)
  BY <1>3, CollectIs
<1>5. Visited(f, c) = Upwards(list, rk, a, c)
  BY <1>2 DEF Visited, Upwards
<1> QED  BY <1>4, <1>5

LEMMA CollectDown ==
    ASSUME NEW list, NEW rk, List!Made(list, rk), NEW a, NEW c, NEW d, NEW range,
           CollectsDown(list, rk, a, c, d, range)
    PROVE  List!Collect(List!at(list, rk, a), List!Backwards(list), d, range)
              = Downwards(list, rk, a, c)
<1> DEFINE f == [i \in 0 .. c |-> List!at(list, rk, a - i)]
           S == {f[i] : i \in 0 .. c}
<1>0. /\ a \in 0 .. list.length /\ d \in Nat /\ c \in 0 .. d /\ c <= a
      /\ \A i \in 1 .. c : List!at(list, rk, a - i + 1) \in range
      /\ c = d \/ List!at(list, rk, a - c) = List!NULL \/ List!at(list, rk, a - c) \notin range
      /\ list.length \in Nat /\ a \in Nat
  BY NodeFacts DEF CollectsDown
<1> USE <1>0
<1>1. f \in [0 .. c -> S] /\ f[0] = List!at(list, rk, a) /\ f[c] = List!at(list, rk, a - c)
  BY <1>0
<1>2. ASSUME NEW i \in 1 .. c
      PROVE  /\ f[i - 1] # List!NULL /\ f[i - 1] \in range
             /\ f[i] = List!Backwards(list)[f[i - 1]]
             /\ f[i - 1] = List!at(list, rk, a - i + 1)
  <2>1. i - 1 \in 0 .. c /\ i \in 0 .. c /\ a - (i - 1) = a - i + 1 /\ a - i + 1 \in 1 .. list.length
        /\ (a - i + 1) - 1 = a - i
    BY <1>0
  <2>2. f[i - 1] = List!at(list, rk, a - i + 1) /\ f[i] = List!at(list, rk, a - i)
    BY <2>1
  <2> HIDE DEF f
  <2>3. f[i - 1] \in List!Elements(list) /\ f[i - 1] # List!NULL /\ rk[f[i - 1]] = a - i + 1
    BY <2>1, <2>2, AtFacts
  <2>4. list.node[f[i - 1]].backward = List!at(list, rk, rk[f[i - 1]] - 1)
    BY <2>3 DEF List!Made, List!Joined
  <2>5. List!Backwards(list)[f[i - 1]] = list.node[f[i - 1]].backward
    BY <2>3 DEF List!Backwards, List!Elements
  <2> QED  BY <2>1, <2>2, <2>3, <2>4, <2>5
<1> HIDE DEF f, S
<1>3. Visits(f, c, List!at(list, rk, a), List!Backwards(list), d, range)
  BY <1>0, <1>1, <1>2 DEF Visits
<1>4. List!Collect(List!at(list, rk, a), List!Backwards(list), d, range) = Visited(f, c)
  BY <1>3, CollectIs
<1>5. Visited(f, c) = Downwards(list, rk, a, c)
  BY <1>2 DEF Visited, Downwards
<1> QED  BY <1>4, <1>5

LEMMA RankRangeUp ==
    ASSUME NEW list, NEW rk, List!Made(list, rk), NEW a \in 1 .. list.length,
           NEW b \in 1 .. list.length + 1, a <= b
    PROVE  List!get_rank_range(list, a, b)
              = Upwards(list, rk, a, (IF b > list.length THEN list.length ELSE b) - a + 1)
<1> DEFINE d == (b - a) + 1
           c == (IF b > list.length THEN list.length ELSE b) - a + 1
<1>0. list.length \in Nat
  BY NodeFacts
<1>1. /\ d \in Nat /\ c \in 0 .. d /\ a \in Nat \ {0} /\ a + c - 1 <= list.length
      /\ (c = d \/ a + c \notin 1 .. list.length) /\ ~(a > b)
  BY <1>0
<1>2. List!get_rank_range(list, a, b)
        = List!Collect(List!at(list, rk, a), List!Forwards(list), d, DOMAIN list.node)
  <2>1. (a > b) = FALSE
    BY <1>1
  <2> QED  BY <2>1, NodeByRankIs DEF List!get_rank_range
<1> HIDE DEF d, c
<1>3. \A i \in 1 .. c : List!at(list, rk, a + i - 1) \in DOMAIN list.node
  <2> TAKE i \in 1 .. c
  <2>1. a + i - 1 \in 1 .. list.length
    BY <1>0, <1>1
  <2> QED  BY <2>1, AtFacts DEF List!Elements
<1>4. c = d \/ List!at(list, rk, a + c) = List!NULL
  BY <1>1, AtFacts
<1>5. CollectsUp(list, rk, a, c, d, DOMAIN list.node)
  BY <1>1, <1>3, <1>4 DEF CollectsUp
<1>6. List!Collect(List!at(list, rk, a), List!Forwards(list), d, DOMAIN list.node)
         = Upwards(list, rk, a, c)
  BY <1>5, CollectUp
<1> QED  BY <1>2, <1>6 DEF c

LEMMA RankRangeDown ==
    ASSUME NEW list, NEW rk, List!Made(list, rk), NEW a \in 1 .. list.length,
           NEW b \in 1 .. list.length, a > b
    PROVE  List!get_rank_range(list, a, b)
              = Downwards(list, rk, a, a - b + 1)
<1> DEFINE d == (a - b) + 1
<1>0. list.length \in Nat
  BY NodeFacts
<1>1. d \in Nat /\ d \in 0 .. d /\ d <= a /\ a \in 0 .. list.length /\ ~(a <= b) /\ d = a - b + 1
  BY <1>0
<1>2. List!get_rank_range(list, a, b)
        = List!Collect(List!at(list, rk, a), List!Backwards(list), d, DOMAIN list.node)
  <2>1. (a > b) = TRUE
    OBVIOUS
  <2> QED  BY <2>1, <1>1, NodeByRankIs DEF List!get_rank_range
<1> HIDE DEF d
<1>3. \A i \in 1 .. d : List!at(list, rk, a - i + 1) \in DOMAIN list.node
  <2> TAKE i \in 1 .. d
  <2>1. a - i + 1 \in 1 .. list.length
    BY <1>0, <1>1
  <2> QED  BY <2>1, AtFacts DEF List!Elements
<1>4. CollectsDown(list, rk, a, d, d, DOMAIN list.node)
  BY <1>1, <1>3 DEF CollectsDown
<1>5. List!Collect(List!at(list, rk, a), List!Backwards(list), d, DOMAIN list.node)
         = Downwards(list, rk, a, d)
  BY <1>4, CollectDown
<1> QED  BY <1>1, <1>2, <1>5

\* The first k elements are those with a score below b, or up to b.
ScoresBelow(list, rk, b, k) ==
    k \in 0 .. list.length /\ \A x \in List!Elements(list) : list.node[x].score < b <=> rk[x] <= k
ScoresUpTo(list, rk, b, k) ==
    k \in 0 .. list.length /\ \A x \in List!Elements(list) : list.node[x].score <= b <=> rk[x] <= k

LEMMA ScoreBound ==
    ASSUME NEW list, NEW rk, List!Made(list, rk), NEW b \in Int
    PROVE  (\E k : ScoresBelow(list, rk, b, k)) /\ (\E k : ScoresUpTo(list, rk, b, k))
<1>1. \A x \in List!Elements(list) : x \in Nat /\ list.node[x].score \in Int
  BY NodeFacts DEF List!Elements
<1>2. \A x, y \in List!Elements(list) : rk[y] < rk[x] => list.node[y].score <= list.node[x].score
  <2> SUFFICES ASSUME NEW x \in List!Elements(list), NEW y \in List!Elements(list), rk[y] < rk[x]
               PROVE  list.node[y].score <= list.node[x].score
    OBVIOUS
  <2>1. List!Precedes(list.node[y].score, y, list.node[x].score, x)
    BY SortedFacts
  <2> QED  BY <2>1, <1>1 DEF List!Precedes
<1> DEFINE S == {x \in List!Elements(list) : list.node[x].score < b}
           T == {x \in List!Elements(list) : list.node[x].score <= b}
<1>3. \A x, y \in List!Elements(list) : x \in S /\ rk[y] < rk[x] => y \in S
  BY <1>1, <1>2
<1>4. \A x, y \in List!Elements(list) : x \in T /\ rk[y] < rk[x] => y \in T
  BY <1>1, <1>2
<1>5. \E k \in 0 .. list.length : \A x \in List!Elements(list) : x \in S <=> rk[x] <= k
  <2> HIDE DEF S
  <2> QED  BY <1>3, Threshold
<1>6. \E k \in 0 .. list.length : \A x \in List!Elements(list) : x \in T <=> rk[x] <= k
  <2> HIDE DEF T
  <2> QED  BY <1>4, Threshold
<1> QED  BY <1>5, <1>6 DEF ScoresBelow, ScoresUpTo

\* A search by score comes to rest on the lowest level at the last element that
\* it passes.
LEMMA ScoreSearch ==
    ASSUME NEW list, NEW rk, List!Made(list, rk), NEW k \in 0 .. list.length,
           NEW passes, PassesUpTo(list, rk, k, passes)
    PROVE  LET x == List!Descend(list, passes)[1].at
           IN  /\ List!Forward(list, x, 1) = List!at(list, rk, k + 1)
               /\ k # 0 => x = List!at(list, rk, k)
<1> DEFINE x == List!Descend(list, passes)[1].at
<1>0. k \in Nat /\ 1 \in 1 .. list.level /\ 1 \in 1 .. MaxLevel
  BY NodeFacts
<1>1. List!Descend(list, passes) = [i \in 1 .. list.level |-> Pos(rk, Last(list, rk, i, k))]
  BY <1>0, DescendIs
<1>2. x = Last(list, rk, 1, k)
  BY <1>0, <1>1 DEF Pos
<1> HIDE DEF x
<1>3. x \in DOMAIN list.node /\ rk[x] = k /\ (k # 0 => x = List!at(list, rk, k))
  BY <1>0, <1>2, LastFacts, LastFirst
<1>4. List!Forward(list, x, 1) = List!at(list, rk, k + 1)
  BY <1>3, FirstNext
<1> QED  BY <1>3, <1>4 DEF x

\* What a range of scores yields: the elements numbered p + 1 .. q.
LEMMA ScoreRangeIs ==
    ASSUME NEW list, NEW rk, List!Made(list, rk), NEW lo \in Int, NEW hi \in Int, lo <= hi,
           NEW p, NEW q, ScoresBelow(list, rk, lo, p), ScoresUpTo(list, rk, hi, q)
    PROVE  /\ p <= q
           /\ List!get_score_range(list, lo, hi) = Upwards(list, rk, p + 1, q - p)
           /\ lo < hi => List!get_score_range(list, hi, lo) = Downwards(list, rk, q, q - p)
<1> DEFINE first == List!Forward(list, List!Header, 1)
           c == q - p
           d == list.length
           up == {x \in DOMAIN list.node : list.node[x].score <= hi}
           down == {x \in DOMAIN list.node : list.node[x].score >= lo}
<1> USE DEF ScoresBelow, ScoresUpTo
<1>0. d \in Nat /\ \A x \in List!Elements(list) : x \in DOMAIN list.node /\ list.node[x].score \in Int
                                                  /\ rk[x] \in 1 .. d
  BY NodeFacts, AtFacts DEF List!Elements
<1>1. \A r \in 1 .. d : /\ List!at(list, rk, r) \in List!Elements(list)
                        /\ List!at(list, rk, r) # List!NULL
                        /\ rk[List!at(list, rk, r)] = r
  BY AtFacts
<1>2. \A r : r \notin 1 .. d => List!at(list, rk, r) = List!NULL
  BY AtFacts
<1>3. p <= q
  <2>1. CASE p = 0
    BY <2>1
  <2>2. CASE p # 0
    <3> DEFINE x == List!at(list, rk, p)
    <3>1. x \in List!Elements(list) /\ rk[x] = p
      BY <2>2, <1>1
    <3> HIDE DEF x
    <3>2. list.node[x].score < lo /\ list.node[x].score \in Int
      BY <3>1, <1>0
    <3>3. list.node[x].score <= hi
      BY <3>2
    <3> QED  BY <3>1, <3>3
  <2> QED  BY <2>1, <2>2
<1>4. c \in 0 .. d /\ c \in Nat /\ p + c = q /\ q - c = p /\ c <= q
  BY <1>0, <1>3
<1>5. first = List!at(list, rk, 1) /\ list.tail = List!at(list, rk, d)
  <2>1. List!Header \in DOMAIN list.node /\ rk[List!Header] + 1 = 1
    BY NodeFacts
  <2>2. first = List!at(list, rk, rk[List!Header] + 1)
    BY <2>1, FirstNext
  <2> QED  BY <2>1, <2>2 DEF List!Made, List!Joined
<1> HIDE DEF first
\* Where the range is not empty, and a list that it misses altogether.
<1>6. /\ List!slIsInRange(list, lo, hi) => q # 0
      /\ ~List!slIsInRange(list, lo, hi) => c = 0
  <2>1. CASE d = 0
    <3>1. first = List!NULL /\ p = 0 /\ q = 0
      BY <2>1, <1>2, <1>5
    <3> QED  BY <3>1 DEF List!slIsInRange, first
  <2>2. CASE d # 0
    <3>1. 1 \in 1 .. d /\ d \in 1 .. d
      BY <2>2, <1>0
    <3>2. /\ first \in List!Elements(list) /\ first # List!NULL /\ rk[first] = 1
          /\ list.tail \in List!Elements(list) /\ list.tail # List!NULL /\ rk[list.tail] = d
      BY <3>1, <1>1, <1>5
    <3>3. List!slIsInRange(list, lo, hi) <=>
             list.node[list.tail].score >= lo /\ list.node[first].score <= hi
      BY <3>2 DEF List!slIsInRange, first
    <3>4. list.node[list.tail].score >= lo <=> ~(d <= p)
      BY <3>2, <1>0
    <3>5. list.node[first].score <= hi <=> 1 <= q
      BY <3>2
    <3> QED  BY <3>3, <3>4, <3>5, <1>0, <1>3
  <2> QED  BY <2>1, <2>2
\* Upwards.
<1>7. \A i \in 1 .. c : List!at(list, rk, (p + 1) + i - 1) \in up
  <2> TAKE i \in 1 .. c
  <2>1. p + i \in 1 .. d /\ p + i <= q /\ (p + 1) + i - 1 = p + i
    BY <1>0, <1>4
  <2>2. /\ List!at(list, rk, p + i) \in List!Elements(list)
        /\ rk[List!at(list, rk, p + i)] = p + i
    BY <2>1, <1>1
  <2> QED  BY <2>1, <2>2, <1>0
<1>8. List!at(list, rk, (p + 1) + c) = List!NULL \/ List!at(list, rk, (p + 1) + c) \notin up
  <2>1. (p + 1) + c = q + 1
    BY <1>4
  <2>2. CASE q = d
    BY <2>1, <2>2, <1>0, <1>2
  <2>3. CASE q # d
    <3>1. q + 1 \in 1 .. d
      BY <2>3, <1>0
    <3> DEFINE x == List!at(list, rk, q + 1)
    <3>2. x \in List!Elements(list) /\ rk[x] = q + 1
      BY <3>1, <1>1
    <3> HIDE DEF x
    <3>3. ~(list.node[x].score <= hi)
      BY <3>2
    <3> QED  BY <2>1, <3>3 DEF x
  <2> QED  BY <2>2, <2>3
<1>9. List!get_score_range(list, lo, hi) = Upwards(list, rk, p + 1, c)
  <2>1. List!get_score_range(list, lo, hi) =
           List!Collect(List!slFirstInRange(list, lo, hi), List!Forwards(list), d, up)
    BY DEF List!get_score_range
  <2>2. CASE List!slIsInRange(list, lo, hi)
    <3> DEFINE passes == {x \in List!Positions(list) : list.node[x.at].score < lo}
    <3>1. PassesUpTo(list, rk, p, passes)
      BY <1>0 DEF PassesUpTo, Pos, List!Positions
    <3>2. List!slFirstInRange(list, lo, hi) = List!Forward(list, List!Descend(list, passes)[1].at, 1)
      BY <2>2 DEF List!slFirstInRange
    <3> HIDE DEF passes
    <3>3. List!slFirstInRange(list, lo, hi) = List!at(list, rk, p + 1)
      BY <3>1, <3>2, ScoreSearch
    <3>4. p + 1 \in Nat \ {0} /\ (p + 1) + c - 1 <= list.length /\ d \in Nat
      BY <1>0, <1>4
    <3> HIDE DEF c, d, up
    <3>5. CollectsUp(list, rk, p + 1, c, d, up)
      BY <3>4, <1>4, <1>7, <1>8 DEF CollectsUp
    <3>6. List!Collect(List!at(list, rk, p + 1), List!Forwards(list), d, up) = Upwards(list, rk, p + 1, c)
      BY <3>5, CollectUp
    <3> QED  BY <2>1, <3>3, <3>6
  <2>3. CASE ~List!slIsInRange(list, lo, hi)
    <3>1. List!slFirstInRange(list, lo, hi) = List!NULL /\ c = 0
      BY <2>3, <1>6 DEF List!slFirstInRange
    <3>2. d + 1 \notin 1 .. d /\ d + 1 \in Nat \ {0} /\ 0 \in 0 .. d /\ d \in Nat
          /\ (d + 1) + 0 = d + 1 /\ (d + 1) + 0 - 1 <= list.length
      BY <1>0
    <3>3. List!at(list, rk, d + 1) = List!NULL
      BY <3>2, <1>2
    <3> HIDE DEF up, c
    <3>4. CollectsUp(list, rk, d + 1, 0, d, up)
      <4>1. \A i \in 1 .. 0 : List!at(list, rk, (d + 1) + i - 1) \in up
        OBVIOUS
      <4> HIDE DEF d
      <4> QED  BY <4>1, <3>2, <3>3 DEF CollectsUp
    <3>5. List!Collect(List!at(list, rk, d + 1), List!Forwards(list), d, up) = Upwards(list, rk, d + 1, 0)
      BY <3>4, CollectUp
    <3>6. Upwards(list, rk, d + 1, 0) = Upwards(list, rk, p + 1, 0)
      BY DEF Upwards
    <3> QED  BY <2>1, <3>1, <3>3, <3>5, <3>6
  <2> QED  BY <2>2, <2>3
\* Downwards.
<1>10. \A i \in 1 .. c : List!at(list, rk, q - i + 1) \in down
  <2> TAKE i \in 1 .. c
  <2>1. q - i + 1 \in 1 .. d /\ ~(q - i + 1 <= p)
    BY <1>0, <1>4
  <2> DEFINE x == List!at(list, rk, q - i + 1)
  <2>2. x \in List!Elements(list) /\ rk[x] = q - i + 1
    BY <2>1, <1>1
  <2> HIDE DEF x
  <2>3. ~(list.node[x].score < lo) /\ list.node[x].score \in Int /\ x \in DOMAIN list.node
    BY <2>1, <2>2, <1>0
  <2> QED  BY <2>3 DEF x
<1>11. List!at(list, rk, q - c) = List!NULL \/ List!at(list, rk, q - c) \notin down
  <2>1. CASE p = 0
    <3>1. q - c = 0 /\ 0 \notin 1 .. d
      BY <2>1, <1>4
    <3> QED  BY <3>1, <1>2
  <2>2. CASE p # 0
    <3> DEFINE x == List!at(list, rk, p)
    <3>1. x \in List!Elements(list) /\ rk[x] = p
      BY <2>2, <1>1
    <3> HIDE DEF x
    <3>2. list.node[x].score < lo /\ list.node[x].score \in Int
      BY <3>1, <1>0
    <3>3. x \notin down
      BY <3>2
    <3> QED  BY <3>3, <1>4 DEF x
  <2> QED  BY <2>1, <2>2
<1>12. ASSUME lo < hi
       PROVE  List!get_score_range(list, hi, lo) = Downwards(list, rk, q, c)
  <2>1. List!get_score_range(list, hi, lo) =
           List!Collect(List!slLastInRange(list, lo, hi), List!Backwards(list), d, down)
    <3>1. (hi <= lo) = FALSE
      BY <1>12
    <3> QED  BY <3>1 DEF List!get_score_range
  <2>2. CASE List!slIsInRange(list, lo, hi)
    <3> DEFINE passes == {x \in List!Positions(list) : list.node[x.at].score <= hi}
    <3>1. PassesUpTo(list, rk, q, passes)
      BY <1>0 DEF PassesUpTo, Pos, List!Positions
    <3>2. List!slLastInRange(list, lo, hi) = List!Descend(list, passes)[1].at
      BY <2>2 DEF List!slLastInRange
    <3> HIDE DEF passes
    <3>3. List!slLastInRange(list, lo, hi) = List!at(list, rk, q)
      BY <2>2, <3>1, <3>2, <1>6, ScoreSearch
    <3> HIDE DEF c, d, down
    <3>4. CollectsDown(list, rk, q, c, d, down)
      BY <1>0, <1>4, <1>10, <1>11 DEF CollectsDown
    <3>5. List!Collect(List!at(list, rk, q), List!Backwards(list), d, down) = Downwards(list, rk, q, c)
      BY <3>4, CollectDown
    <3> QED  BY <2>1, <3>3, <3>5
  <2>3. CASE ~List!slIsInRange(list, lo, hi)
    <3>1. List!slLastInRange(list, lo, hi) = List!NULL /\ c = 0
      BY <2>3, <1>6 DEF List!slLastInRange
    <3>2. 0 \notin 1 .. d /\ 0 \in 0 .. d /\ d \in Nat /\ 0 \in 0 .. list.length /\ 0 - 0 = 0
      BY <1>0
    <3>3. List!at(list, rk, 0) = List!NULL
      BY <3>2, <1>2
    <3> HIDE DEF down, c
    <3>4. CollectsDown(list, rk, 0, 0, d, down)
      <4>1. \A i \in 1 .. 0 : List!at(list, rk, 0 - i + 1) \in down
        OBVIOUS
      <4> HIDE DEF d
      <4> QED  BY <4>1, <3>2, <3>3 DEF CollectsDown
    <3>5. List!Collect(List!at(list, rk, 0), List!Backwards(list), d, down) = Downwards(list, rk, 0, 0)
      BY <3>4, CollectDown
    <3>6. Downwards(list, rk, 0, 0) = Downwards(list, rk, q, 0)
      BY DEF Downwards
    <3> QED  BY <2>1, <3>1, <3>3, <3>5, <3>6
  <2> QED  BY <2>2, <2>3
<1> QED  BY <1>3, <1>9, <1>12

LEMMA AnswersIs ==
    ASSUME List!IInv
    PROVE  List!Answers
<1>1. PICK rk : List!Made(sl, rk)
  BY DEF List!IInv
<1> DEFINE count == List!Cardinality(DOMAIN tbl)
           run(a, b) == IF a <= b
                        THEN [i \in 1 .. (IF b > count THEN count ELSE b) - a + 1 |-> List!AtRank(a + i - 1)]
                        ELSE [i \in 1 .. a - b + 1 |-> List!AtRank(a - i + 1)]
           within(lo, hi) == {m \in DOMAIN tbl : tbl[m] >= lo /\ tbl[m] <= hi}
           elements(s) == {s[i] : i \in DOMAIN s}
           ordered(s, up) == \A i, j \in DOMAIN s :
               i < j => IF up THEN List!Rank(s[i]) < List!Rank(s[j]) ELSE List!Rank(s[i]) > List!Rank(s[j])
<1>2. /\ DOMAIN tbl = List!Elements(sl)
      /\ \A m \in DOMAIN tbl : tbl[m] = sl.node[m].score
      /\ count = sl.length
      /\ \A m \in DOMAIN tbl : List!Rank(m) = rk[m]
      /\ \A r \in 1 .. sl.length : List!AtRank(r) = List!at(sl, rk, r)
  BY <1>1, RankIs
<1>3. /\ sl.length \in Nat /\ count \in Nat
      /\ \A x \in DOMAIN tbl : rk[x] \in 1 .. sl.length /\ tbl[x] \in Int
      /\ \A x \in DOMAIN tbl : List!at(sl, rk, rk[x]) = x
      /\ \A r \in 1 .. sl.length : /\ List!at(sl, rk, r) \in DOMAIN tbl
                                   /\ rk[List!at(sl, rk, r)] = r
  <2>1. sl.length \in Nat /\ \A x \in List!Elements(sl) : sl.node[x].score \in Int
    BY <1>1, NodeFacts DEF List!Elements
  <2>2. /\ \A x \in List!Elements(sl) : rk[x] \in 1 .. sl.length /\ List!at(sl, rk, rk[x]) = x
        /\ \A r \in 1 .. sl.length : /\ List!at(sl, rk, r) \in List!Elements(sl)
                                     /\ rk[List!at(sl, rk, r)] = r
    BY <1>1, AtFacts
  <2> QED  BY <2>1, <2>2, <1>2
<1> HIDE DEF count
<1>4. \A m \in DOMAIN tbl : List!slGetRank(sl, tbl[m], m) = List!Rank(m)
  <2> TAKE m \in DOMAIN tbl
  <2>1. List!slGetRank(sl, sl.node[m].score, m) = rk[m]
    BY <1>1, <1>2, GetRankIs
  <2> QED  BY <2>1, <1>2
<1>5. ASSUME NEW a \in 1 .. count, NEW b \in 1 .. count + 1
      PROVE  List!get_rank_range(sl, a, b) = run(a, b)
  <2>1. CASE a <= b
    <3> DEFINE c == (IF b > count THEN count ELSE b) - a + 1
    <3>1. List!get_rank_range(sl, a, b) = Upwards(sl, rk, a, c)
      BY <2>1, <1>1, <1>2, RankRangeUp
    <3>2. \A i \in 1 .. c : a + i - 1 \in 1 .. sl.length
      BY <2>1, <1>2, <1>3
    <3> HIDE DEF c
    <3>3. Upwards(sl, rk, a, c) = [i \in 1 .. c |-> List!AtRank(a + i - 1)]
      BY <3>2, <1>2 DEF Upwards
    <3>4. run(a, b) = [i \in 1 .. c |-> List!AtRank(a + i - 1)]
      BY <2>1 DEF c
    <3> QED  BY <3>1, <3>3, <3>4
  <2>2. CASE a > b
    <3> DEFINE c == a - b + 1
    <3>0. b \in 1 .. count /\ ~(a <= b)
      BY <2>2, <1>3
    <3>1. List!get_rank_range(sl, a, b) = Downwards(sl, rk, a, c)
      BY <2>2, <3>0, <1>1, <1>2, RankRangeDown
    <3>2. \A i \in 1 .. c : a - i + 1 \in 1 .. sl.length
      BY <2>2, <1>2, <1>3
    <3> HIDE DEF c
    <3>3. Downwards(sl, rk, a, c) = [i \in 1 .. c |-> List!AtRank(a - i + 1)]
      BY <3>2, <1>2 DEF Downwards
    <3>4. run(a, b) = [i \in 1 .. c |-> List!AtRank(a - i + 1)]
      BY <3>0 DEF c
    <3> QED  BY <3>1, <3>3, <3>4
  <2> QED  BY <2>1, <2>2, <1>3
<1>6. ASSUME NEW a \in 1 .. count, NEW b \in 1 .. count + 1, a <= b
      PROVE  List!rev_range(sl, a, b) = run(count - a + 1, IF b > count THEN 1 ELSE count - b + 1)
  <2> DEFINE p == count - a + 1
             q == IF b > count THEN 1 ELSE count - b + 1
  <2>1. p \in 1 .. count /\ q \in 1 .. count + 1
    BY <1>3
  <2>2. List!rev_range(sl, a, b) = List!get_rank_range(sl, p, q)
    BY <1>2, <1>3 DEF List!rev_range
  <2> HIDE DEF p, q, run
  <2>3. List!get_rank_range(sl, p, q) = run(p, q)
    BY <2>1, <1>5
  <2> QED  BY <2>2, <2>3 DEF p, q
\* A run of numbers is what lies within the scores, in order.
<1>7. ASSUME NEW lo \in Int, NEW hi \in Int, lo <= hi
      PROVE  LET up == List!get_score_range(sl, lo, hi)
                 down == List!get_score_range(sl, hi, lo)
             IN  /\ elements(up) = within(lo, hi) /\ ordered(up, TRUE)
                 /\ lo < hi => elements(down) = within(lo, hi) /\ ordered(down, FALSE)
  <2>1. PICK p : ScoresBelow(sl, rk, lo, p)
    BY <1>1, ScoreBound
  <2>2. PICK q : ScoresUpTo(sl, rk, hi, q)
    BY <1>1, ScoreBound
  <2> DEFINE up == List!get_score_range(sl, lo, hi)
             down == List!get_score_range(sl, hi, lo)
             c == q - p
  <2>3. p <= q /\ up = Upwards(sl, rk, p + 1, c) /\ (lo < hi => down = Downwards(sl, rk, q, c))
    BY <2>1, <2>2, <1>1, <1>7, ScoreRangeIs
  <2> USE <2>1, <2>2 DEF ScoresBelow, ScoresUpTo
  <2>4. within(lo, hi) = {x \in DOMAIN tbl : rk[x] \in p + 1 .. q}
    BY <1>2, <1>3
  <2>5. DOMAIN up = 1 .. c /\ \A i \in 1 .. c : /\ up[i] \in DOMAIN tbl
                                                /\ List!Rank(up[i]) = p + i
                                                /\ rk[up[i]] = p + i
    <3>1. \A i \in 1 .. c : (p + 1) + i - 1 = p + i /\ p + i \in 1 .. sl.length
      BY <2>3, <1>3
    <3>2. DOMAIN up = 1 .. c /\ \A i \in 1 .. c : up[i] = List!at(sl, rk, p + i)
      <4> HIDE DEF c, up
      <4> QED  BY <3>1, <2>3 DEF Upwards
    <3> HIDE DEF c, up
    <3> QED  BY <3>1, <3>2, <1>2, <1>3
  <2>6. lo < hi => DOMAIN down = 1 .. c /\ \A i \in 1 .. c : /\ down[i] \in DOMAIN tbl
                                                             /\ List!Rank(down[i]) = q - i + 1
                                                             /\ rk[down[i]] = q - i + 1
    <3>1. \A i \in 1 .. c : q - i + 1 \in 1 .. sl.length
      BY <2>3, <1>3
    <3>2. lo < hi => DOMAIN down = 1 .. c /\ \A i \in 1 .. c : down[i] = List!at(sl, rk, q - i + 1)
      <4> HIDE DEF c, down
      <4> QED  BY <3>1, <2>3 DEF Downwards
    <3> HIDE DEF c, down
    <3> QED  BY <3>1, <3>2, <1>2, <1>3
  <2> HIDE DEF within
  <2>7. \A x, y \in DOMAIN tbl : rk[x] = rk[y] => x = y
    BY <1>3
  <2>8. elements(up) = within(lo, hi)
    <3>1. \A i \in 1 .. c : up[i] \in within(lo, hi)
      BY <2>3, <2>4, <2>5
    <3>2. ASSUME NEW x \in within(lo, hi) PROVE \E i \in 1 .. c : up[i] = x
      <4>1. x \in DOMAIN tbl /\ rk[x] \in p + 1 .. q
        BY <3>2, <2>4
      <4>2. rk[x] - p \in 1 .. c /\ p + (rk[x] - p) = rk[x]
        BY <4>1, <2>3
      <4> HIDE DEF c
      <4>3. up[rk[x] - p] \in DOMAIN tbl /\ rk[up[rk[x] - p]] = rk[x]
        BY <4>2, <2>5
      <4> QED  BY <4>1, <4>2, <4>3, <2>7
    <3> HIDE DEF c
    <3> QED  BY <3>1, <3>2, <2>5
  <2>9. ordered(up, TRUE)
    BY <2>5
  <2>10. lo < hi => elements(down) = within(lo, hi)
    <3> SUFFICES ASSUME lo < hi PROVE elements(down) = within(lo, hi)
      OBVIOUS
    <3>1. \A i \in 1 .. c : down[i] \in within(lo, hi)
      <4> TAKE i \in 1 .. c
      <4>1. q - i + 1 \in p + 1 .. q
        BY <2>3
      <4> HIDE DEF c
      <4> QED  BY <4>1, <2>4, <2>6
    <3>2. ASSUME NEW x \in within(lo, hi) PROVE \E i \in 1 .. c : down[i] = x
      <4>1. x \in DOMAIN tbl /\ rk[x] \in p + 1 .. q
        BY <3>2, <2>4
      <4> DEFINE i == q - rk[x] + 1
      <4>2. i \in 1 .. c /\ q - i + 1 = rk[x]
        BY <4>1, <2>3
      <4> HIDE DEF c, i
      <4>3. down[i] \in DOMAIN tbl /\ rk[down[i]] = rk[x]
        BY <4>2, <2>6
      <4> QED  BY <4>1, <4>2, <4>3, <2>7
    <3> HIDE DEF c
    <3> QED  BY <3>1, <3>2, <2>6
  <2>11. lo < hi => ordered(down, FALSE)
    BY <2>6
  <2> QED  BY <2>8, <2>9, <2>10, <2>11
<1>8. Score \cup {s + 1 : s \in Score} \subseteq Int
  <2>1. Score \subseteq Int
    BY RanksFit
  <2>2. \A s \in Score : s + 1 \in Int
    BY <2>1
  <2> QED  BY <2>1, <2>2
<1> HIDE DEF run
<1>9. \A a \in 1 .. count, b \in 1 .. count + 1 : List!get_rank_range(sl, a, b) = run(a, b)
  BY <1>5
<1>10. \A a \in 1 .. count, b \in 1 .. count + 1 :
          a <= b => List!rev_range(sl, a, b) = run(count - a + 1, IF b > count THEN 1 ELSE count - b + 1)
  BY <1>6
<1> HIDE DEF elements, ordered, within
<1> DEFINE ranges(lo, hi) ==
             LET up == List!get_score_range(sl, lo, hi)
                 down == List!get_score_range(sl, hi, lo)
             IN  /\ lo <= hi => elements(up) = within(lo, hi) /\ ordered(up, TRUE)
                 /\ lo < hi => elements(down) = within(lo, hi) /\ ordered(down, FALSE)
<1>11. ASSUME NEW lo \in Int, NEW hi \in Int PROVE ranges(lo, hi)
  <2>1. CASE lo <= hi
    BY <2>1, <1>7
  <2>2. CASE ~(lo <= hi)
    <3>1. ~(lo < hi)
      BY <2>2
    <3> QED  BY <2>2, <3>1
  <2> QED  BY <2>1, <2>2
<1> HIDE DEF ranges
<1>12. \A lo, hi \in Score \cup {s + 1 : s \in Score} : ranges(lo, hi)
  BY <1>8, <1>11
<1> QED  BY <1>4, <1>9, <1>10, <1>12 DEF List!Answers, count, run, elements, ordered, within, ranges, Zenon

\* skiplist.c, zrank.lua: the list is a skip list of the members of tbl, and what
\* the queries answer is their ranking.
THEOREM RankingRight == List!Spec => []Ranked
<1>1. List!IInv => Ranked
  BY LinkedIs, AnswersIs DEF Ranked
<1> QED  BY ListInvariant, <1>1, PTL
=============================================================================
