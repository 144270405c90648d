---------------------------- MODULE RefdProofs ----------------------------
(***************************************************************************)
(* Theorems about Refd: IInv is inductive, so the safety invariants hold   *)
(* for every set of services and handles; the stop of a delayed service is *)
(* always the work of a quiet timer; and Refd implements RefCounted.       *)
(***************************************************************************)
EXTENDS Refd, FiniteSetTheorems, TLAPS

\* What a count of zero, of one, and one handle more or less say of a set of
\* handles.  The counting argument is these four facts.
LEMMA CountFacts ==
    ASSUME NEW S, S \subseteq Handle
    PROVE  /\ Cardinality(S) \in Nat
           /\ Cardinality(S) = 0 <=> S = {}
           /\ \A h \in S : Cardinality(S) = 1 => S = {h}
           /\ \A h \in Handle \ S : Cardinality(S \cup {h}) = Cardinality(S) + 1
           /\ \A h \in S : Cardinality(S \ {h}) = Cardinality(S) - 1
<1>1. IsFiniteSet(S)
  BY FS_Subset, RefdAssumption
<1>2. /\ Cardinality(S) \in Nat
      /\ Cardinality(S) = 0 <=> S = {}
  BY <1>1, FS_CardinalityType, FS_EmptySet
<1>3. \A h \in S : Cardinality(S) = 1 => S = {h}
  BY <1>1, FS_Singleton
<1>4. \A h \in Handle \ S : Cardinality(S \cup {h}) = Cardinality(S) + 1
  BY <1>1, FS_AddElement
<1>5. \A h \in S : Cardinality(S \ {h}) = Cardinality(S) - 1
  BY <1>1, FS_RemoveElement
<1> QED
  BY <1>2, <1>3, <1>4, <1>5

\* A step that changes no handle's address, and no membership in
\* {"held", "unref"}, changes no count.
LEMMA CountedFrame ==
    ASSUME NEW a \in Addr, UNCHANGED handle
    PROVE  Counted(a)' = Counted(a)
  BY DEF Counted

LEMMA InitIInv == Init => IInv
<1> SUFFICES ASSUME Init PROVE IInv
  OBVIOUS
<1>1. TypeOK
  BY DEF Init, TypeOK, ServiceState, HandleState
<1>2. HandlesKnown /\ WaitlistSleeps /\ LifeAndEntry /\ HeldIsRunning /\ NoLostWaiter /\ TimersFiltered
  BY DEF Init, HandlesKnown, WaitlistSleeps, LifeAndEntry, HeldIsRunning, NoLostWaiter, TimersFiltered
<1>3. CountIsExact
  BY DEF Init, CountIsExact
<1> QED
  BY <1>1, <1>2, <1>3 DEF IInv

-----------------------------------------------------------------------------
(* A service's own steps: no handle changes. *)

LEMMA InitStep == ASSUME IInv, NEW a \in Addr, init(a) PROVE IInv'
<1> USE DEF IInv
<1>1. \A h \in Handle : handle[h].state \in {"held", "unref", "waiting"} => handle[h].addr # a
  BY DEF init, HandlesKnown, LifeAndEntry
<1>2. Cardinality(Counted(a)) = 0
  <2>1. Counted(a) = {}
    BY <1>1 DEF Counted
  <2> QED
    BY <2>1, FS_EmptySet
<1>3. \A b \in Addr : Counted(b)' = Counted(b)
  BY CountedFrame DEF init
<1>4. TypeOK'
  BY DEF init, check, TypeOK, Timer, ServiceState
<1>5. HandlesKnown' /\ WaitlistSleeps'
  BY DEF init, HandlesKnown, WaitlistSleeps
<1>6. LifeAndEntry'
  BY RefdAssumption DEF init, check, LifeAndEntry, TypeOK
<1>7. CountIsExact'
  BY <1>2, <1>3 DEF init, check, CountIsExact, TypeOK, LifeAndEntry
<1>8. HeldIsRunning'
  BY <1>1 DEF init, check, HeldIsRunning, TypeOK
<1>9. NoLostWaiter'
  BY <1>1 DEF init, check, NoLostWaiter, TypeOK
<1>10. TimersFiltered'
  BY DEF init, check, TimersFiltered, TypeOK, Timer
<1> QED
  BY <1>4, <1>5, <1>6, <1>7, <1>8, <1>9, <1>10

LEMMA LoadedStep == ASSUME IInv, NEW a \in Addr, Loaded(a) PROVE IInv'
<1> USE DEF IInv, Loaded
<1>1. TypeOK'
  BY DEF TypeOK, ServiceState
<1>2. HandlesKnown' /\ WaitlistSleeps'
  BY DEF HandlesKnown, WaitlistSleeps
<1>3. LifeAndEntry'
  BY DEF LifeAndEntry, TypeOK
<1>4. CountIsExact'
  BY CountedFrame DEF CountIsExact, TypeOK
<1>5. HeldIsRunning' /\ NoLostWaiter' /\ TimersFiltered'
  BY DEF HeldIsRunning, NoLostWaiter, TimersFiltered, TypeOK
<1> QED
  BY <1>1, <1>2, <1>3, <1>4, <1>5

LEMMA LoadFailedStep == ASSUME IInv, NEW a \in Addr, LoadFailed(a) PROVE IInv'
<1> USE DEF IInv, LoadFailed
<1>1. TypeOK'
  BY DEF TypeOK, ServiceState
<1>2. HandlesKnown' /\ WaitlistSleeps'
  BY DEF HandlesKnown, WaitlistSleeps
<1>3. LifeAndEntry'
  BY DEF LifeAndEntry, TypeOK
<1>4. CountIsExact'
  BY CountedFrame DEF CountIsExact, TypeOK
<1>5. HeldIsRunning' /\ NoLostWaiter' /\ TimersFiltered'
  BY DEF HeldIsRunning, NoLostWaiter, TimersFiltered, TypeOK, HandlesKnown, LifeAndEntry
<1> QED
  BY <1>1, <1>2, <1>3, <1>4, <1>5

LEMMA StopServiceStep == ASSUME IInv, NEW a \in Addr, stop_service(a) PROVE IInv'
<1> USE DEF IInv, stop_service
<1>1. TypeOK'
  BY DEF TypeOK, ServiceState
<1>2. HandlesKnown' /\ WaitlistSleeps'
  BY DEF HandlesKnown, WaitlistSleeps
<1>3. LifeAndEntry'
  BY DEF LifeAndEntry, TypeOK
<1>4. CountIsExact'
  BY CountedFrame DEF CountIsExact, TypeOK
<1>5. HeldIsRunning' /\ NoLostWaiter' /\ TimersFiltered'
  BY DEF HeldIsRunning, NoLostWaiter, TimersFiltered, TypeOK
<1> QED
  BY <1>1, <1>2, <1>3, <1>4, <1>5

LEMMA ExitStep == ASSUME IInv, NEW a \in Addr, Exit(a) PROVE IInv'
<1> USE DEF IInv, Exit
<1>1. TypeOK'
  BY DEF TypeOK, ServiceState
<1>2. HandlesKnown' /\ WaitlistSleeps'
  BY DEF HandlesKnown, WaitlistSleeps
<1>3. LifeAndEntry'
  BY DEF LifeAndEntry, TypeOK
<1>4. CountIsExact'
  BY CountedFrame DEF CountIsExact, TypeOK
<1>5. HeldIsRunning' /\ NoLostWaiter' /\ TimersFiltered'
  BY DEF HeldIsRunning, NoLostWaiter, TimersFiltered, TypeOK
<1> QED
  BY <1>1, <1>2, <1>3, <1>4, <1>5

-----------------------------------------------------------------------------
(* The messages to refd. *)

\* What a change of one handle does to the counts.
LEMMA CountedSet ==
    ASSUME TypeOK, NEW h \in Handle, NEW s \in HandleState,
           NEW x \in Addr \cup {NoAddr}, SetHandle(h, s, x), NEW b \in Addr
    PROVE  Counted(b)' = IF x = b /\ s \in {"held", "unref"}
                         THEN Counted(b) \cup {h}
                         ELSE Counted(b) \ {h}
<1>1. /\ handle'[h] = [state |-> s, addr |-> x]
      /\ \A k \in Handle \ {h} : handle'[k] = handle[k]
  BY DEF SetHandle, TypeOK
<1> QED
  BY <1>1 DEF Counted

LEMMA RefStep ==
    ASSUME IInv, NEW h \in Handle, NEW a \in Addr, NEW wait \in BOOLEAN, Ref(h, a, wait)
    PROVE  IInv'
<1> USE DEF IInv
<1>0. handle[h].state = "free" /\ a \in known /\ \A b \in Addr : h \notin Counted(b)
  BY DEF Ref, Counted
<1>1. CASE /\ a \in REFS /\ ref[a] # -1
           /\ ref' = [ref EXCEPT ![a] = @ + 1]
           /\ quiet' = {t \in quiet : t.addr # a}
           /\ SetHandle(h, "held", a)
           /\ UNCHANGED waitlist
  <2>0. UNCHANGED <<known, REFS, ver, timers, stopCalls, releases, service>>
    BY DEF Ref
  <2>1. TypeOK'
    BY <1>1, <2>0 DEF TypeOK, SetHandle, HandleState
  <2>2. HandlesKnown' /\ WaitlistSleeps'
    BY <1>0, <1>1, <2>0 DEF HandlesKnown, WaitlistSleeps, SetHandle, TypeOK
  <2>3. LifeAndEntry'
    <3>1. ref[a] >= 0 /\ ref'[a] = ref[a] + 1
      BY <1>1 DEF TypeOK, TimersFiltered
    <3> QED
      BY <1>0, <1>1, <2>0, <3>1 DEF LifeAndEntry, TypeOK
  <2>4. CountIsExact'
    <3> SUFFICES ASSUME NEW b \in Addr, b \in REFS, ref'[b] # -1
                 PROVE  ref'[b] = Cardinality(Counted(b)')
      BY <2>0 DEF CountIsExact, TypeOK
    <3>1. Counted(b) \subseteq Handle
      BY DEF Counted
    <3>2. CASE b = a
      <4>1. Counted(b)' = Counted(b) \cup {h}
        BY <1>1, <3>2, CountedSet DEF HandleState
      <4> QED
        BY <1>0, <1>1, <3>1, <3>2, <4>1, CountFacts DEF CountIsExact, TypeOK
    <3>3. CASE b # a
      <4>1. Counted(b)' = Counted(b)
        BY <1>0, <1>1, <3>3, CountedSet DEF HandleState
      <4> QED
        BY <1>1, <3>3, <4>1 DEF CountIsExact, TypeOK
    <3> QED
      BY <3>2, <3>3
  <2>5. HeldIsRunning'
    BY <1>0, <1>1, <2>0 DEF HeldIsRunning, SetHandle, TypeOK, LifeAndEntry, TimersFiltered
  <2>6. NoLostWaiter'
    BY <1>1, <2>0 DEF NoLostWaiter, SetHandle, TypeOK
  <2>7. TimersFiltered'
    BY <1>1, <2>0 DEF TimersFiltered, TypeOK, Timer
  <2> QED
    BY <2>1, <2>2, <2>3, <2>4, <2>5, <2>6, <2>7
<1>2. CASE /\ a \in REFS /\ ref[a] = -1
           /\ waitlist' = [waitlist EXCEPT ![a] = @ \cup {h}]
           /\ SetHandle(h, "waiting", a)
           /\ UNCHANGED <<ref, quiet>>
  <2>0. UNCHANGED <<known, REFS, ver, timers, stopCalls, releases, service>>
    BY DEF Ref
  <2>1. TypeOK'
    BY <1>2, <2>0 DEF TypeOK, SetHandle, HandleState
  <2>2. HandlesKnown' /\ WaitlistSleeps'
    BY <1>0, <1>2, <2>0 DEF HandlesKnown, WaitlistSleeps, SetHandle, TypeOK
  <2>3. LifeAndEntry' /\ TimersFiltered'
    BY <1>2, <2>0 DEF LifeAndEntry, TimersFiltered
  <2>4. ASSUME NEW b \in Addr PROVE Counted(b)' = Counted(b)
    <3>1. Counted(b)' = Counted(b) \ {h}
      BY <1>2, CountedSet DEF HandleState
    <3> QED
      BY <1>0, <3>1
  <2>5. CountIsExact'
    BY <1>2, <2>0, <2>4 DEF CountIsExact, TypeOK
  <2>6. HeldIsRunning'
    BY <1>2, <2>0 DEF HeldIsRunning, SetHandle, TypeOK
  <2>7. NoLostWaiter'
    <3>1. \/ a \in stopCalls \/ service[a] = "stopping" \/ a \in releases
          \/ a \in Hung /\ service[a] = "hung"
      BY <1>2 DEF LifeAndEntry
    <3> QED
      BY <1>2, <2>0, <3>1 DEF NoLostWaiter, SetHandle, TypeOK
  <2> QED
    BY <2>1, <2>2, <2>3, <2>5, <2>6, <2>7
<1>3. CASE /\ SetHandle(h, "refused", NoAddr)
           /\ UNCHANGED <<ref, quiet, waitlist>>
  <2>0. UNCHANGED <<known, REFS, ver, timers, stopCalls, releases, service>>
    BY DEF Ref
  <2>1. TypeOK'
    BY <1>3, <2>0 DEF TypeOK, SetHandle, HandleState
  <2>2. HandlesKnown' /\ LifeAndEntry' /\ TimersFiltered'
    BY <1>3, <2>0 DEF HandlesKnown, LifeAndEntry, TimersFiltered, SetHandle, TypeOK
  <2>6. WaitlistSleeps'
    BY <1>0, <1>3, <2>0 DEF WaitlistSleeps, SetHandle, TypeOK
  <2>3. ASSUME NEW b \in Addr PROVE Counted(b)' = Counted(b)
    <3>1. Counted(b)' = Counted(b) \ {h}
      BY <1>3, CountedSet DEF HandleState
    <3> QED
      BY <1>0, <3>1
  <2>4. CountIsExact'
    BY <1>3, <2>0, <2>3 DEF CountIsExact, TypeOK
  <2>5. HeldIsRunning' /\ NoLostWaiter'
    BY <1>3, <2>0 DEF HeldIsRunning, NoLostWaiter, SetHandle, TypeOK
  <2> QED
    BY <2>1, <2>2, <2>4, <2>5, <2>6
<1> QED
  BY <1>1, <1>2, <1>3 DEF Ref

LEMMA RetryStep == ASSUME IInv, NEW h \in Handle, Retry(h) PROVE IInv'
<1> USE DEF IInv, Retry
<1>1. TypeOK'
  BY DEF TypeOK, SetHandle, HandleState
<1>2. HandlesKnown' /\ LifeAndEntry' /\ TimersFiltered'
  BY DEF HandlesKnown, LifeAndEntry, TimersFiltered, SetHandle, TypeOK
<1>7. WaitlistSleeps'
  BY DEF WaitlistSleeps, SetHandle, TypeOK
<1>3. \A b \in Addr : h \notin Counted(b)
  BY DEF Counted
<1>4. ASSUME NEW b \in Addr PROVE Counted(b)' = Counted(b)
  <2>1. Counted(b)' = Counted(b) \ {h}
    BY CountedSet DEF HandleState
  <2> QED
    BY <1>3, <2>1
<1>5. CountIsExact'
  BY <1>4 DEF CountIsExact, TypeOK
<1>6. HeldIsRunning' /\ NoLostWaiter'
  BY DEF HeldIsRunning, NoLostWaiter, SetHandle, TypeOK
<1> QED
  BY <1>1, <1>2, <1>5, <1>6, <1>7

LEMMA CloseHandleStep == ASSUME IInv, NEW h \in Handle, CloseHandle(h) PROVE IInv'
<1> USE DEF IInv, CloseHandle
<1>1. TypeOK'
  BY DEF TypeOK, SetHandle, HandleState
<1>2. HandlesKnown' /\ WaitlistSleeps' /\ LifeAndEntry' /\ TimersFiltered'
  BY DEF HandlesKnown, WaitlistSleeps, LifeAndEntry, TimersFiltered, SetHandle, TypeOK
<1>3. \A b \in Addr : h \in Counted(b) <=> handle[h].addr = b
  BY DEF Counted
<1>4. ASSUME NEW b \in Addr PROVE Counted(b)' = Counted(b)
  <2>1. Counted(b)' = IF handle[h].addr = b THEN Counted(b) \cup {h} ELSE Counted(b) \ {h}
    BY CountedSet DEF HandleState, TypeOK
  <2> QED
    BY <1>3, <2>1
<1>5. CountIsExact'
  BY <1>4 DEF CountIsExact, TypeOK
<1>6. HeldIsRunning' /\ NoLostWaiter'
  BY DEF HeldIsRunning, NoLostWaiter, SetHandle, TypeOK
<1> QED
  BY <1>1, <1>2, <1>5, <1>6

LEMMA UnrefStep ==
    ASSUME IInv, NEW h \in Handle, NEW a \in Addr, handle[h].addr = a, unref(h)
    PROVE  IInv'
<1> USE DEF IInv
<1>0. /\ a \in Addr /\ a \in known
      /\ handle[h].state = "unref" /\ h \in Counted(a)
      /\ SetHandle(h, "free", NoAddr)
      /\ UNCHANGED <<known, REFS, waitlist, releases, service>>
  BY DEF unref, HandlesKnown, TypeOK, Counted
<1>c. \A b \in Addr : Counted(b)' = Counted(b) \ {h}
  BY <1>0, CountedSet DEF HandleState
<1>d. \A b \in Addr \ {a} : Counted(b)' = Counted(b)
  BY <1>c DEF Counted
<1>e. Counted(a) \subseteq Handle
  BY DEF Counted
<1>2. HandlesKnown' /\ WaitlistSleeps'
  BY <1>0 DEF HandlesKnown, WaitlistSleeps, SetHandle, TypeOK
<1>f. CASE a \in REFS /\ ref[a] = 1
  <2>1. Counted(a) = {h}
    BY <1>0, <1>e, <1>f, CountFacts DEF CountIsExact
  <2>2. Counted(a)' = {}
    BY <1>0, <1>c, <2>1
  <2>3. check(a)
    BY <1>f DEF unref
  <2>4. \A k \in Handle : handle'[k].state = "held" => handle'[k].addr # a
    <3> SUFFICES ASSUME NEW k \in Handle, handle'[k].state = "held", handle'[k].addr = a
                 PROVE  FALSE
      OBVIOUS
    <3>1. k \in Counted(a)'
      BY <1>0 DEF Counted
    <3> QED
      BY <2>2, <3>1
  <2>5. TypeOK'
    BY <1>0, <2>3 DEF TypeOK, SetHandle, HandleState, check, Timer
  <2>6. LifeAndEntry'
    BY <1>0, <1>f, <2>3 DEF LifeAndEntry, TypeOK, check
  <2>7. CountIsExact'
    <3>1. Cardinality(Counted(a)') = 0
      BY <2>2, FS_EmptySet
    <3> SUFFICES ASSUME NEW b \in Addr, b \in REFS, ref'[b] # -1
                 PROVE  ref'[b] = Cardinality(Counted(b)')
      BY <1>0 DEF CountIsExact, TypeOK
    <3>2. CASE b = a
      <4>1. ref'[a] = 0
        BY <1>0, <1>f, <2>3, <3>2 DEF TypeOK, check
      <4> QED
        BY <3>1, <3>2, <4>1
    <3>3. CASE b # a
      <4>1. Counted(b)' = Counted(b) /\ ref'[b] = ref[b]
        BY <1>d, <2>3, <3>3 DEF TypeOK, check
      <4> QED
        BY <4>1 DEF CountIsExact
    <3> QED
      BY <3>2, <3>3
  <2>8. HeldIsRunning'
    BY <1>0, <2>3, <2>4 DEF HeldIsRunning, SetHandle, TypeOK, check
  <2>9. NoLostWaiter'
    BY <1>0, <1>f, <2>3 DEF NoLostWaiter, SetHandle, TypeOK, check
  <2>10. TimersFiltered'
    BY <1>0, <2>3 DEF TimersFiltered, TypeOK, Timer, check
  <2> QED
    BY <1>2, <2>5, <2>6, <2>7, <2>8, <2>9, <2>10
<1>g. CASE ~(a \in REFS /\ ref[a] = 1)
  <2>1. /\ ref' = IF a \in REFS /\ ref[a] > 1 THEN [ref EXCEPT ![a] = @ - 1] ELSE ref
        /\ UNCHANGED <<ver, timers, quiet, stopCalls>>
    BY <1>g DEF unref
  <2>2. /\ ref'[a] = -1 <=> ref[a] = -1
        /\ ref'[a] = 0 <=> ref[a] = 0
        /\ \A b \in Addr \ {a} : ref'[b] = ref[b]
        /\ ref'[a] >= -1
    BY <1>0, <2>1 DEF TypeOK, TimersFiltered
  <2>3. TypeOK'
    BY <1>0, <2>1 DEF TypeOK, SetHandle, HandleState
  <2>4. LifeAndEntry'
    BY <1>0, <2>1, <2>2 DEF LifeAndEntry, TypeOK
  <2>5. CountIsExact'
    <3>1. a \in REFS /\ ref'[a] # -1 => ref'[a] = Cardinality(Counted(a)')
      <4> SUFFICES ASSUME a \in REFS, ref'[a] # -1
                   PROVE  ref'[a] = Cardinality(Counted(a)')
        OBVIOUS
      <4>1. ref[a] = Cardinality(Counted(a))
        BY <2>2 DEF CountIsExact
      <4>2. ref[a] > 1
        BY <1>0, <1>e, <1>g, <4>1, CountFacts DEF TypeOK
      <4>3. ref'[a] = ref[a] - 1
        BY <1>0, <2>1, <4>2 DEF TypeOK
      <4>4. Counted(a)' = Counted(a) \ {h}
        BY <1>0, <1>c
      <4>5. Cardinality(Counted(a) \ {h}) = Cardinality(Counted(a)) - 1
        BY <1>0, <1>e, CountFacts
      <4> QED
        BY <4>1, <4>3, <4>4, <4>5
    <3> SUFFICES ASSUME NEW b \in Addr, b \in REFS, ref'[b] # -1, b # a
                 PROVE  ref'[b] = Cardinality(Counted(b)')
      BY <1>0, <3>1 DEF CountIsExact, TypeOK
    <3>2. Counted(b)' = Counted(b) /\ ref'[b] = ref[b]
      BY <1>d, <2>2
    <3> QED
      BY <3>2 DEF CountIsExact
  <2>6. HeldIsRunning'
    BY <1>0, <2>1, <2>2 DEF HeldIsRunning, SetHandle, TypeOK
  <2>7. NoLostWaiter'
    BY <1>0, <2>1, <2>2 DEF NoLostWaiter, SetHandle, TypeOK
  <2>8. TimersFiltered'
    BY <1>0, <2>1, <2>2 DEF TimersFiltered, TypeOK, Timer
  <2> QED
    BY <1>2, <2>3, <2>4, <2>5, <2>6, <2>7, <2>8
<1> QED
  BY <1>f, <1>g

LEMMA ReleaseTimerStep == ASSUME IInv, NEW t \in timers, ReleaseTimer(t) PROVE IInv'
<1> USE DEF IInv
<1> DEFINE a == t.addr
<1>0. /\ a \in Addr
      /\ timers' = timers \ {t} /\ quiet' = quiet \ {t}
      /\ UNCHANGED <<known, REFS, ver, waitlist, releases, service, handle>>
  BY DEF ReleaseTimer, TypeOK, Timer
<1>c. \A b \in Addr : Counted(b)' = Counted(b)
  BY <1>0, CountedFrame
<1>1. CASE /\ a \in REFS /\ ref[a] = 0
           /\ ref' = [ref EXCEPT ![a] = -1]
           /\ stopCalls' = stopCalls \cup {a}
  <2>1. Counted(a) = {}
    <3>1. Counted(a) \subseteq Handle
      BY DEF Counted
    <3> QED
      BY <1>1, <3>1, CountFacts DEF CountIsExact
  <2>2. \A k \in Handle : handle[k].state = "held" => handle[k].addr # a
    BY <2>1 DEF Counted
  <2>3. TypeOK'
    BY <1>0, <1>1 DEF TypeOK, Timer
  <2>4. HandlesKnown' /\ WaitlistSleeps'
    BY <1>0 DEF HandlesKnown, WaitlistSleeps
  <2>5. LifeAndEntry'
    BY <1>0, <1>1 DEF LifeAndEntry, TypeOK
  <2>6. CountIsExact'
    BY <1>0, <1>1, <1>c DEF CountIsExact, TypeOK
  <2>7. HeldIsRunning'
    BY <1>0, <1>1, <2>2 DEF HeldIsRunning, TypeOK
  <2>8. NoLostWaiter'
    BY <1>0, <1>1 DEF NoLostWaiter, TypeOK
  <2>9. TimersFiltered'
    BY <1>0, <1>1 DEF TimersFiltered, TypeOK, Timer
  <2> QED
    BY <2>3, <2>4, <2>5, <2>6, <2>7, <2>8, <2>9
<1>2. CASE UNCHANGED <<ref, stopCalls>> /\ ~(a \in REFS /\ t.ver = ver[a] /\ ref[a] = 0)
  <2>1. TypeOK'
    BY <1>0, <1>2 DEF TypeOK, Timer
  <2>2. HandlesKnown' /\ WaitlistSleeps' /\ LifeAndEntry' /\ HeldIsRunning' /\ NoLostWaiter'
    BY <1>0, <1>2 DEF HandlesKnown, WaitlistSleeps, LifeAndEntry, HeldIsRunning, NoLostWaiter
  <2>3. CountIsExact'
    BY <1>0, <1>2, <1>c DEF CountIsExact, TypeOK
  <2>4. TimersFiltered'
    BY <1>0, <1>2 DEF TimersFiltered, TypeOK, Timer
  <2> QED
    BY <2>1, <2>2, <2>3, <2>4
<1> QED
  BY <1>1, <1>2 DEF ReleaseTimer, release

LEMMA ReleaseStep == ASSUME IInv, NEW a \in Addr, Release(a) PROVE IInv'
<1> USE DEF IInv
<1>0. /\ a \in releases /\ a \in REFS /\ service[a] = "gone"
      /\ REFS' = REFS \ {a} /\ releases' = releases \ {a}
      /\ waitlist' = [waitlist EXCEPT ![a] = {}]
      /\ handle' = [h \in Handle |->
                      IF h \in waitlist[a] THEN [state |-> "refused", addr |-> NoAddr]
                                            ELSE handle[h]]
      /\ UNCHANGED <<known, ref, ver, timers, quiet, stopCalls, service>>
  BY DEF Release, LifeAndEntry
<1>1. \A h \in Handle : \/ handle'[h] = handle[h] /\ h \notin waitlist[a]
                        \/ handle'[h].state = "refused" /\ h \in waitlist[a]
  BY <1>0
<1>2. TypeOK'
  BY <1>0, <1>1 DEF TypeOK, HandleState
<1>3. HandlesKnown' /\ HeldIsRunning'
  BY <1>0, <1>1 DEF HandlesKnown, HeldIsRunning, LifeAndEntry
<1>7. WaitlistSleeps'
  <2> SUFFICES ASSUME NEW b \in Addr, NEW h \in waitlist'[b]
               PROVE  handle'[h].state = "waiting" /\ handle'[h].addr = b
    BY DEF WaitlistSleeps
  <2>1. b # a /\ h \in waitlist[b] /\ h \in Handle
    BY <1>0 DEF TypeOK
  <2> QED
    BY <1>1, <2>1 DEF WaitlistSleeps
<1>4. LifeAndEntry' /\ TimersFiltered'
  BY <1>0 DEF LifeAndEntry, TimersFiltered
<1>5. CountIsExact'
  <2> SUFFICES ASSUME NEW b \in REFS, b # a, ref[b] # -1
               PROVE  Counted(b)' = Counted(b)
    BY <1>0 DEF CountIsExact
  <2>1. \A h \in Handle : handle[h].state \in {"held", "unref"} => h \notin waitlist[a]
    BY DEF WaitlistSleeps
  <2> QED
    BY <1>1, <2>1 DEF Counted
<1>6. NoLostWaiter'
  BY <1>0, <1>1 DEF NoLostWaiter, TypeOK
<1> QED
  BY <1>2, <1>3, <1>4, <1>5, <1>6, <1>7

-----------------------------------------------------------------------------
(* The theorems. *)

LEMMA StepIInv == IInv /\ [Next]_vars => IInv'
<1> SUFFICES ASSUME IInv, [Next]_vars PROVE IInv'
  OBVIOUS
<1>1. ASSUME NEW a \in Addr,
             init(a) \/ Loaded(a) \/ LoadFailed(a) \/ stop_service(a) \/ Exit(a) \/ Release(a)
      PROVE  IInv'
  BY <1>1, InitStep, LoadedStep, LoadFailedStep, StopServiceStep, ExitStep, ReleaseStep
<1>2. ASSUME NEW h \in Handle, Retry(h) \/ CloseHandle(h)
      PROVE  IInv'
  BY <1>2, RetryStep, CloseHandleStep
<1>3. ASSUME NEW h \in Handle, unref(h)
      PROVE  IInv'
  <2>1. handle[h].addr \in Addr
    BY <1>3 DEF unref, IInv, HandlesKnown, TypeOK
  <2> QED
    BY <1>3, <2>1, UnrefStep
<1>4. ASSUME NEW h \in Handle, NEW a \in Addr, NEW wait \in BOOLEAN, Ref(h, a, wait)
      PROVE  IInv'
  BY <1>4, RefStep
<1>5. ASSUME NEW t \in timers, ReleaseTimer(t)
      PROVE  IInv'
  BY <1>5, ReleaseTimerStep
<1>6. CASE UNCHANGED vars
  BY <1>6 DEF vars, IInv, TypeOK, Timer, HandlesKnown, WaitlistSleeps, LifeAndEntry,
              CountIsExact, Counted, HeldIsRunning, NoLostWaiter, TimersFiltered
<1> QED
  BY <1>1, <1>2, <1>3, <1>4, <1>5, <1>6 DEF Next

\* IInv holds in every reachable state, for any services and any finite set of
\* client handles.
THEOREM Invariance == Spec => []IInv
  BY InitIInv, StepIInv, PTL DEF Spec

\* The variables keep their types.
THEOREM TypeCorrect == Spec => []TypeOK
<1>1. IInv => TypeOK
  BY DEF IInv
<1> QED
  BY <1>1, Invariance, PTL

\* refd's count of a service that was not told to stop is the number of
\* handles granted and not yet returned.
THEOREM CountExact == Spec => []CountIsExact
<1>1. IInv => CountIsExact
  BY DEF IInv
<1> QED
  BY <1>1, Invariance, PTL

\* A client never holds a service that stopped or is about to.
THEOREM HeldStaysUp == Spec => []HeldIsRunning
<1>1. IInv => HeldIsRunning
  BY DEF IInv
<1> QED
  BY <1>1, Invariance, PTL

\* The release that wakes a sleeping ref call is always still to come.
THEOREM WaitersKept == Spec => []NoLostWaiter
<1>1. IInv => NoLostWaiter
  BY DEF IInv
<1> QED
  BY <1>1, Invariance, PTL

-----------------------------------------------------------------------------
\* A delayed service is told to stop only by a timer since whose start nobody
\* took a reference.
THEOREM StopIsQuiet == Spec => StopAfterQuiet
<1> DEFINE Good == \A a \in Delayed :
                     ref'[a] = -1 /\ ref[a] # -1 =>
                        \E t \in quiet : t.addr = a /\ t \in timers \ timers'
<1>1. ASSUME IInv, Next PROVE Good
  <2> SUFFICES ASSUME NEW d \in Delayed, ref'[d] = -1, ref[d] # -1
               PROVE  \E t \in quiet : t.addr = d /\ t \in timers \ timers'
    OBVIOUS
  <2> USE <1>1, RefdAssumption
  <2>0. d \in Addr /\ ref[d] >= 0
    BY DEF IInv, TypeOK, TimersFiltered
  <2>2. ASSUME NEW a \in Addr, check(a) PROVE FALSE
    BY <2>0, <2>2 DEF check, IInv, TypeOK
  <2>3. ASSUME NEW a \in Addr,
               init(a) \/ Loaded(a) \/ LoadFailed(a) \/ stop_service(a) \/ Exit(a) \/ Release(a)
        PROVE  FALSE
    BY <2>2, <2>3 DEF init, Loaded, LoadFailed, stop_service, Exit, Release
  <2>4. ASSUME NEW h \in Handle, Retry(h) \/ CloseHandle(h)
        PROVE  FALSE
    BY <2>4 DEF Retry, CloseHandle
  <2>5. ASSUME NEW h \in Handle, unref(h)
        PROVE  FALSE
    <3>1. handle[h].addr \in Addr
      BY <2>5 DEF unref, IInv, HandlesKnown, TypeOK
    <3>2. ~check(handle[h].addr)
      BY <2>2, <3>1
    <3> QED
      BY <2>0, <2>5, <3>1, <3>2 DEF unref, IInv, TypeOK
  <2>6. ASSUME NEW h \in Handle, NEW a \in Addr, NEW wait \in BOOLEAN, Ref(h, a, wait)
        PROVE  FALSE
    BY <2>0, <2>6 DEF Ref, IInv, TypeOK
  <2>7. ASSUME NEW t \in timers, ReleaseTimer(t)
        PROVE  t \in quiet /\ t.addr = d /\ t \in timers \ timers'
    <3>1. /\ t.addr = d /\ t.ver = ver[d] /\ ref[d] = 0
      BY <2>0, <2>7 DEF ReleaseTimer, release, IInv, TypeOK, Timer
    <3> QED
      BY <2>7, <3>1 DEF ReleaseTimer, IInv, TimersFiltered
  <2> QED
    BY <2>3, <2>4, <2>5, <2>6, <2>7 DEF Next
<1>2. ASSUME UNCHANGED vars PROVE Good
  BY <1>2 DEF vars
<1>3. IInv /\ [Next]_vars => [Good]_vars
  BY <1>1, <1>2
<1> QED
  BY <1>3, Invariance, PTL DEF Spec, StopAfterQuiet

-----------------------------------------------------------------------------
(* The refinement. *)

\* The holders of the abstract specification are the counted handles, each of
\* one service only.
LEMMA HolderIsCounted ==
    ASSUME NEW h \in Handle
    PROVE  h \in UNION {[a \in Addr |-> Counted(a)][b] : b \in Addr}
             <=> handle[h].addr \in Addr /\ handle[h].state \in {"held", "unref"}
  BY DEF Counted

LEMMA InitRefines == Init => Abs!AbsInit
<1> SUFFICES ASSUME Init PROVE Abs!AbsInit
  OBVIOUS
<1>1. \A a \in Addr : Counted(a) = {}
  BY DEF Init, Counted
<1> QED
  BY <1>1 DEF Init, Abs!AbsInit, Up

LEMMA StepRefines ==
    IInv /\ [Next]_vars => [Abs!AbsNext]_(Abs!absVars)
<1> SUFFICES ASSUME IInv, [Next]_vars
             PROVE  Abs!AbsNext \/ UNCHANGED Abs!absVars
  OBVIOUS
<1> USE RefdAssumption
<1> DEFINE H == [a \in Addr |-> Counted(a)]
           Down == {a \in Addr : service[a] # "none"} \ Up
<1>1. ASSUME NEW a \in Addr, init(a)
      PROVE  Abs!AbsNext \/ UNCHANGED Abs!absVars
  <2>1. H' = H
    BY <1>1, CountedFrame DEF init
  <2>2. a \notin Up /\ a \notin Down
    BY <1>1 DEF init, Up
  <2>3. Up' = Up \cup {a} /\ Down' = Down
    BY <1>1 DEF init, check, Up, IInv, TypeOK, LifeAndEntry
  <2>4. Abs!Announce(a)
    BY <2>1, <2>2, <2>3 DEF Abs!Announce
  <2> QED
    BY <2>4 DEF Abs!AbsNext
<1>2. ASSUME NEW a \in Addr, Loaded(a) \/ stop_service(a) \/ Exit(a)
      PROVE  UNCHANGED Abs!absVars
  <2>1. H' = H
    BY <1>2, CountedFrame DEF Loaded, stop_service, Exit
  <2>2. Up' = Up /\ Down' = Down
    BY <1>2 DEF Loaded, stop_service, Exit, Up, IInv, TypeOK
  <2> QED
    BY <2>1, <2>2 DEF Abs!absVars
<1>3. ASSUME NEW a \in Addr, LoadFailed(a)
      PROVE  Abs!AbsNext \/ UNCHANGED Abs!absVars
  <2>1. H' = H
    BY <1>3, CountedFrame DEF LoadFailed
  <2>2. Counted(a) = {}
    BY <1>3 DEF LoadFailed, Counted, IInv, HandlesKnown, LifeAndEntry
  <2>3. Up' = Up \ {a} /\ Down' = Down \cup {a}
    BY <1>3 DEF LoadFailed, Up, IInv, TypeOK
  <2>4. CASE a \in Up
    <3>1. Abs!TakeDown(a)
      BY <2>1, <2>2, <2>3, <2>4 DEF Abs!TakeDown
    <3> QED
      BY <3>1 DEF Abs!AbsNext
  <2>5. CASE a \notin Up
    <3>1. a \in Down
      BY <1>3, <2>5 DEF LoadFailed
    <3> QED
      BY <2>1, <2>3, <2>5, <3>1 DEF Abs!absVars
  <2> QED
    BY <2>4, <2>5
<1>4. ASSUME NEW a \in Addr, Release(a)
      PROVE  UNCHANGED Abs!absVars
  <2>1. \A h \in Handle : h \in waitlist[a] => handle[h].state = "waiting"
    BY DEF IInv, WaitlistSleeps
  <2>2. ASSUME NEW b \in Addr PROVE Counted(b)' = Counted(b)
    BY <1>4, <2>1 DEF Release, Counted
  <2>3. H' = H
    BY <2>2
  <2>4. Up' = Up /\ Down' = Down
    BY <1>4 DEF Release, Up, IInv, LifeAndEntry
  <2> QED
    BY <2>3, <2>4 DEF Abs!absVars
<1>5. ASSUME NEW h \in Handle, Retry(h)
      PROVE  UNCHANGED Abs!absVars
  <2>1. ASSUME NEW b \in Addr PROVE Counted(b)' = Counted(b)
    <3>1. Counted(b)' = Counted(b) \ {h}
      BY <1>5, CountedSet DEF Retry, HandleState, IInv
    <3>2. h \notin Counted(b)
      BY <1>5 DEF Retry, Counted
    <3> QED
      BY <3>1, <3>2
  <2>2. H' = H
    BY <2>1
  <2>3. Up' = Up /\ Down' = Down
    BY <1>5 DEF Retry, Up
  <2> QED
    BY <2>2, <2>3 DEF Abs!absVars
<1>6. ASSUME NEW h \in Handle, CloseHandle(h)
      PROVE  UNCHANGED Abs!absVars
  <2>1. ASSUME NEW b \in Addr PROVE Counted(b)' = Counted(b)
    <3>1. Counted(b)' = IF handle[h].addr = b THEN Counted(b) \cup {h} ELSE Counted(b) \ {h}
      BY <1>6, CountedSet DEF CloseHandle, HandleState, IInv, TypeOK
    <3>2. h \in Counted(b) <=> handle[h].addr = b
      BY <1>6 DEF CloseHandle, Counted
    <3> QED
      BY <3>1, <3>2
  <2>2. H' = H
    BY <2>1
  <2>3. Up' = Up /\ Down' = Down
    BY <1>6 DEF CloseHandle, Up
  <2> QED
    BY <2>2, <2>3 DEF Abs!absVars
<1>7. ASSUME NEW h \in Handle, NEW a \in Addr, NEW wait \in BOOLEAN, Ref(h, a, wait)
      PROVE  Abs!AbsNext \/ UNCHANGED Abs!absVars
  <2>0. handle[h].state = "free" /\ a \in known /\ \A b \in Addr : h \notin Counted(b)
    BY <1>7 DEF Ref, Counted
  <2>1. CASE /\ a \in REFS /\ ref[a] # -1
             /\ ref' = [ref EXCEPT ![a] = @ + 1]
             /\ SetHandle(h, "held", a)
    <3>1. ASSUME NEW b \in Addr
          PROVE  Counted(b)' = IF b = a THEN Counted(b) \cup {h} ELSE Counted(b)
      <4>1. Counted(b)' = IF a = b THEN Counted(b) \cup {h} ELSE Counted(b) \ {h}
        BY <2>1, CountedSet DEF HandleState, IInv
      <4> QED
        BY <2>0, <4>1
    <3>2. H' = [H EXCEPT ![a] = @ \cup {h}]
      BY <3>1
    <3>3. a \in Up
      BY <2>0, <2>1 DEF Up, IInv, LifeAndEntry
    <3>4. ref'[a] # -1 /\ \A b \in Addr \ {a} : ref'[b] = ref[b]
      BY <2>1 DEF IInv, TypeOK, TimersFiltered
    <3>5. Up' = Up /\ Down' = Down
      BY <1>7, <2>1, <3>4 DEF Ref, Up, IInv, TypeOK
    <3>6. h \notin UNION {H[b] : b \in Addr}
      BY <2>0
    <3>7. Abs!Take(a, h)
      BY <3>2, <3>3, <3>5, <3>6 DEF Abs!Take
    <3> QED
      BY <3>7 DEF Abs!AbsNext
  <2>2. CASE UNCHANGED ref /\ (SetHandle(h, "waiting", a) \/ SetHandle(h, "refused", NoAddr))
    <3>1. ASSUME NEW b \in Addr PROVE Counted(b)' = Counted(b)
      <4>1. Counted(b)' = Counted(b) \ {h}
        BY <2>2, CountedSet DEF HandleState, IInv
      <4> QED
        BY <2>0, <4>1
    <3>2. H' = H
      BY <3>1
    <3>3. Up' = Up /\ Down' = Down
      BY <1>7, <2>2 DEF Ref, Up
    <3> QED
      BY <3>2, <3>3 DEF Abs!absVars
  <2> QED
    BY <1>7, <2>1, <2>2 DEF Ref
<1>8. ASSUME NEW h \in Handle, unref(h)
      PROVE  Abs!AbsNext \/ UNCHANGED Abs!absVars
  <2> PICK a \in Addr : a = handle[h].addr
    BY <1>8 DEF unref, IInv, HandlesKnown, TypeOK
  <2>1. a \in known /\ h \in Counted(a) /\ SetHandle(h, "free", NoAddr)
    BY <1>8 DEF unref, Counted, IInv, HandlesKnown
  <2>2. ASSUME NEW b \in Addr PROVE Counted(b)' = IF b = a THEN Counted(b) \ {h} ELSE Counted(b)
    <3>1. Counted(b)' = Counted(b) \ {h}
      BY <2>1, CountedSet DEF HandleState, IInv
    <3>2. b # a => h \notin Counted(b)
      BY DEF Counted
    <3> QED
      BY <3>1, <3>2
  <2>3. H' = [H EXCEPT ![a] = @ \ {h}]
    BY <2>2
  <2>4. CASE a \in REFS /\ ref[a] = 1 /\ a \notin Delayed
    <3>1. Counted(a) = {h}
      <4>1. Counted(a) \subseteq Handle /\ Cardinality(Counted(a)) = 1
        BY <2>4 DEF Counted, IInv, CountIsExact
      <4> QED
        BY <2>1, <4>1, CountFacts
    <3>2. a \in Up
      BY <2>1, <2>4 DEF Up, IInv, LifeAndEntry
    <3>3. Up' = Up \ {a} /\ Down' = Down \cup {a}
      BY <1>8, <2>4, <3>2 DEF unref, check, Up, IInv, TypeOK
    <3>4. H' = [H EXCEPT ![a] = {}]
      BY <2>3, <3>1
    <3>5. Abs!DropLast(a, h)
      BY <3>1, <3>2, <3>3, <3>4 DEF Abs!DropLast
    <3> QED
      BY <3>5 DEF Abs!AbsNext
  <2>5. CASE ~(a \in REFS /\ ref[a] = 1 /\ a \notin Delayed)
    <3>1. /\ \A b \in REFS : ref'[b] = -1 <=> ref[b] = -1
          /\ UNCHANGED <<REFS, stopCalls, service>>
      BY <1>8, <2>5 DEF unref, check, IInv, TypeOK
    <3>2. Up' = Up /\ Down' = Down
      BY <3>1 DEF Up
    <3>3. Abs!Drop(a, h)
      BY <2>1, <2>3, <3>2 DEF Abs!Drop
    <3> QED
      BY <3>3 DEF Abs!AbsNext
  <2> QED
    BY <2>4, <2>5
<1>9. ASSUME NEW t \in timers, ReleaseTimer(t)
      PROVE  Abs!AbsNext \/ UNCHANGED Abs!absVars
  <2> PICK a \in Addr : a = t.addr
    BY DEF IInv, TypeOK, Timer
  <2>1. H' = H
    BY <1>9, CountedFrame DEF ReleaseTimer
  <2>2. CASE /\ a \in Up /\ ref[a] = 0
             /\ ref' = [ref EXCEPT ![a] = -1]
             /\ stopCalls' = stopCalls \cup {a}
    <3>1. Counted(a) = {}
      <4>1. Counted(a) \subseteq Handle /\ Cardinality(Counted(a)) = 0
        BY <2>2 DEF Counted, IInv, CountIsExact, Up
      <4> QED
        BY <4>1, CountFacts
    <3>2. Up' = Up \ {a} /\ Down' = Down \cup {a}
      BY <1>9, <2>2 DEF ReleaseTimer, Up, IInv, TypeOK
    <3>3. Abs!TakeDown(a)
      BY <2>1, <2>2, <3>1, <3>2 DEF Abs!TakeDown
    <3> QED
      BY <3>3 DEF Abs!AbsNext
  <2>3. CASE \/ UNCHANGED <<ref, stopCalls>>
             \/ /\ a \notin Up
                /\ ref' = [ref EXCEPT ![a] = -1]
                /\ stopCalls' = stopCalls \cup {a}
    <3>1. Up' = Up /\ Down' = Down
      BY <1>9, <2>3 DEF ReleaseTimer, Up, IInv, TypeOK
    <3> QED
      BY <2>1, <3>1 DEF Abs!absVars
  <2> QED
    BY <1>9, <2>2, <2>3 DEF ReleaseTimer, release
<1>10. CASE UNCHANGED vars
  <2>1. H' = H
    BY <1>10, CountedFrame DEF vars
  <2>2. Up' = Up /\ Down' = Down
    BY <1>10 DEF vars, Up
  <2> QED
    BY <2>1, <2>2 DEF Abs!absVars
<1> QED
  BY <1>1, <1>2, <1>3, <1>4, <1>5, <1>6, <1>7, <1>8, <1>9, <1>10 DEF Next

\* Every behaviour of Refd is, with its handles counted as holders, a behaviour
\* of RefCounted: only a service that nobody holds is taken down.
THEOREM Refinement == Spec => ImplementsRefCounted
  BY InitRefines, StepRefines, Invariance, PTL DEF Spec, Abs!AbsSpec, ImplementsRefCounted
=============================================================================
