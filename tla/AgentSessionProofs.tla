------------------------ MODULE AgentSessionProofs ------------------------
(***************************************************************************)
(* Theorems about AgentSession, for any number of connections and of other *)
(* users of the agent: refd's count covers every reference owed, so an     *)
(* agent is told to stop only when it is idle, and an online role without  *)
(* a connection has its AFK timer or the timer's callback pending.         *)
(***************************************************************************)
EXTENDS AgentSession, FiniteSetTheorems, TLAPS

\* The callbacks in a queue can be counted.
LEMMA AfksFinite ==
    ASSUME NEW s \in Seq(Item)
    PROVE  /\ IsFiniteSet(Afks(s))
           /\ Cardinality(Afks(s)) \in Nat
           /\ Cardinality(Afks(s)) = 0 <=> Afks(s) = {}
<1>1. IsFiniteSet(1..Len(s))
  BY FS_Interval
<1>2. IsFiniteSet(Afks(s))
  BY <1>1, FS_Subset DEF Afks
<1> QED
  BY <1>2, FS_CardinalityType, FS_EmptySet

\* An item appended counts one more exactly when it is a callback.
LEMMA AfksAppend ==
    ASSUME NEW s \in Seq(Item), NEW x \in Item
    PROVE  Cardinality(Afks(Append(s, x))) = Cardinality(Afks(s)) + One(x.op = "afk")
<1> DEFINE n == Len(s) + 1
<1>1. /\ Len(Append(s, x)) = n /\ n \in Nat /\ Len(s) \in Nat
      /\ \A i \in 1..Len(s) : Append(s, x)[i] = s[i]
      /\ Append(s, x)[n] = x
  OBVIOUS
<1>2. Afks(Append(s, x)) = IF x.op = "afk" THEN Afks(s) \cup {n} ELSE Afks(s)
  <2>1. \A i : i \in 1..n <=> i \in 1..Len(s) \/ i = n
    BY <1>1
  <2> HIDE DEF n
  <2> QED
    BY <1>1, <2>1 DEF Afks
<1>3. n \notin Afks(s)
  BY <1>1 DEF Afks
<1> HIDE DEF n
<1>4. IsFiniteSet(Afks(s)) /\ Cardinality(Afks(s)) \in Nat
  BY AfksFinite
<1>5. Cardinality(Afks(s) \cup {n}) = Cardinality(Afks(s)) + 1
  BY <1>3, <1>4, FS_AddElement
<1> QED
  BY <1>2, <1>4, <1>5 DEF One

\* The head taken off counts one less exactly when it is a callback.
LEMMA AfksTail ==
    ASSUME NEW s \in Seq(Item), s # <<>>
    PROVE  Cardinality(Afks(s)) = Cardinality(Afks(Tail(s))) + One(Head(s).op = "afk")
<1> DEFINE R == Afks(s) \ {1}
           F == [i \in Afks(Tail(s)) |-> i + 1]
<1>1. /\ Len(s) \in Nat /\ Len(s) >= 1 /\ Len(Tail(s)) = Len(s) - 1
      /\ \A i \in 1..Len(Tail(s)) : Tail(s)[i] = s[i + 1]
      /\ Head(s) = s[1] /\ Tail(s) \in Seq(Item)
  OBVIOUS
<1>2. Cardinality(R) = Cardinality(Afks(Tail(s)))
  <2>1. F \in [Afks(Tail(s)) -> R]
    BY <1>1 DEF Afks
  <2>2. \A i, j \in Afks(Tail(s)) : F[i] = F[j] => i = j
    BY <1>1 DEF Afks
  <2>3. ASSUME NEW k \in R PROVE \E i \in Afks(Tail(s)) : F[i] = k
    <3>1. k - 1 \in Afks(Tail(s)) /\ F[k - 1] = k
      BY <1>1 DEF Afks
    <3> QED
      BY <3>1
  <2>4. F \in Bijection(Afks(Tail(s)), R)
    BY <2>1, <2>2, <2>3 DEF Bijection, Injection, Surjection, IsInjective
  <2>5. ExistsBijection(Afks(Tail(s)), R)
    BY <2>4 DEF ExistsBijection
  <2> QED
    BY <1>1, <2>5, AfksFinite, FS_Bijection
<1>3. 1 \in Afks(s) <=> Head(s).op = "afk"
  BY <1>1 DEF Afks
<1>4. Cardinality(R) = IF 1 \in Afks(s) THEN Cardinality(Afks(s)) - 1 ELSE Cardinality(Afks(s))
  BY AfksFinite, FS_RemoveElement
<1>5. Cardinality(Afks(s)) \in Nat
  BY AfksFinite
<1> QED
  BY <1>2, <1>3, <1>4, <1>5 DEF One

\* What a message does to the queue.
LEMMA PushFacts ==
    ASSUME TypeOK, QueueShape, NEW op, NEW c, Push(op, c), [op |-> op, conn |-> c] \in Item,
           op = "enter" => c # NoConn
    PROVE  /\ q' \in Seq(Item)
           /\ Cardinality(Afks(q')) = Cardinality(Afks(q)) + One(agent \in Alive /\ op = "afk")
           /\ q # <<>> => q' # <<>> /\ Head(q') = Head(q)
           /\ \A i \in 1..Len(q') : q'[i].op = "enter" => q'[i].conn # NoConn
           /\ agent \notin Alive => q' = q
           /\ Cardinality(Afks(q)) \in Nat
<1> DEFINE x == [op |-> op, conn |-> c]
<1>0. q \in Seq(Item) /\ Cardinality(Afks(q)) \in Nat
  BY AfksFinite DEF TypeOK
<1>1. CASE agent \in Alive
  <2>1. q' = Append(q, x)
    BY <1>1 DEF Push
  <2>2. Cardinality(Afks(Append(q, x))) = Cardinality(Afks(q)) + One(x.op = "afk")
    BY <1>0, AfksAppend
  <2>3. q # <<>> => q' # <<>> /\ Head(q') = Head(q)
    BY <1>0, <2>1
  <2>4. \A i \in 1..Len(q') : q'[i].op = "enter" => q'[i].conn # NoConn
    BY <1>0, <2>1 DEF QueueShape
  <2> QED
    BY <1>0, <1>1, <2>1, <2>2, <2>3, <2>4
<1>2. CASE agent \notin Alive
  BY <1>0, <1>2 DEF Push, QueueShape, One
<1> QED
  BY <1>1, <1>2

\* What running an item does to the queue.
LEMMA PopFacts ==
    ASSUME TypeOK, QueueShape, q # <<>>, Pop
    PROVE  /\ q' \in Seq(Item)
           /\ Cardinality(Afks(q)) = Cardinality(Afks(q')) + One(Head(q).op = "afk")
           /\ \A i \in 1..Len(q') : q'[i].op = "enter" => q'[i].conn # NoConn
           /\ Cardinality(Afks(q')) \in Nat
           /\ Head(q) \in Item
<1>1. q \in Seq(Item) /\ q' = Tail(q) /\ q' \in Seq(Item) /\ Head(q) \in Item
  BY DEF TypeOK, Pop
<1>2. Cardinality(Afks(q)) = Cardinality(Afks(Tail(q))) + One(Head(q).op = "afk")
  BY <1>1, AfksTail
<1>3. \A i \in 1..Len(Tail(q)) : Tail(q)[i] = q[i + 1] /\ i + 1 \in 1..Len(q)
  BY <1>1
<1> QED
  BY <1>1, <1>2, <1>3, AfksFinite DEF QueueShape

\* The users' references can be counted.
LEMMA HeldFacts ==
    ASSUME NEW S, S \subseteq Client
    PROVE  /\ Cardinality(S) \in Nat
           /\ Cardinality(S) = 0 <=> S = {}
           /\ \A k \in Client \ S : Cardinality(S \cup {k}) = Cardinality(S) + 1
           /\ \A k \in S : Cardinality(S \ {k}) = Cardinality(S) - 1
<1>1. IsFiniteSet(S)
  BY FS_Subset, SessionAssumption
<1>2. Cardinality(S) \in Nat /\ (Cardinality(S) = 0 <=> S = {})
  BY <1>1, FS_CardinalityType, FS_EmptySet
<1>3. \A k \in Client \ S : Cardinality(S \cup {k}) = Cardinality(S) + 1
  BY <1>1, FS_AddElement
<1>4. \A k \in S : Cardinality(S \ {k}) = Cardinality(S) - 1
  BY <1>1, FS_RemoveElement
<1> QED
  BY <1>2, <1>3, <1>4

\* The same invariants with the two counts named, so that arithmetic does the rest.
LEMMA Counts ==
    ASSUME IInv
    PROVE  /\ Cardinality(Afks(q)) \in Nat /\ Cardinality(Held) \in Nat
           /\ Cardinality(Afks(q)) = 0 <=> Afks(q) = {}
           /\ q \in Seq(Item)
           /\ ref \in Int /\ ref >= -1
<1>1. q \in Seq(Item) /\ Held \subseteq Client /\ ref \in Int /\ ref >= -1
  BY DEF IInv, TypeOK, Held
<1> QED
  BY <1>1, AfksFinite, HeldFacts

LEMMA InitIInv == Init => IInv
<1> SUFFICES ASSUME Init PROVE IInv
  OBVIOUS
<1>1. TypeOK
  BY DEF Init, TypeOK, LoginState, AgentState
<1>2. QueueShape
  BY DEF Init, QueueShape
<1>3. Held = {} /\ Afks(q) = {}
  BY DEF Init, Held, Afks
<1>4. LoadShape
  BY <1>3 DEF Init, LoadShape
<1>5. CountCovers
  <2>1. Cardinality(Held) = 0 /\ Cardinality(Afks(q)) = 0
    BY <1>3, FS_EmptySet
  <2> QED
    BY <2>1 DEF Init, CountCovers, Owed, One
<1>6. NoAbandonedSession
  BY DEF Init, NoAbandonedSession
<1> QED
  BY <1>1, <1>2, <1>4, <1>5, <1>6 DEF IInv

-----------------------------------------------------------------------------
(* The gate and the manager: no reference moves. *)

LEMMA GateSteps ==
    ASSUME IInv, NEW c \in Conn,
           \/ Connect(c) \/ on_disconnect(c) \/ LoseDisconnect(c) \/ update_game_link(c)
           \/ enterServer(c) \/ SelectFails(c) \/ LoadWait(c) \/ EnterReturn(c)
    PROVE  IInv'
<1> USE DEF IInv
<1>1. /\ UNCHANGED <<managerVars, agent, sessionVars, q, step, ref, client>>
      /\ \A d \in Conn : login[d] = "loading" <=> login'[d] = "loading"
  BY DEF Connect, on_disconnect, LoseDisconnect, update_game_link, enterServer, SelectFails,
         LoadWait, EnterReturn, SetLogin, TypeOK
<1>2. TypeOK'
  BY <1>1 DEF Connect, on_disconnect, LoseDisconnect, update_game_link, enterServer, SelectFails,
         LoadWait, EnterReturn, SetLogin, TypeOK, managerVars, sessionVars, gateVars, LoginState
<1>3. Held' = Held /\ Afks(q)' = Afks(q)
  BY <1>1 DEF Held, Afks
<1>4. LoadShape'
  BY <1>1, <1>3 DEF LoadShape, managerVars, sessionVars
<1>5. CountCovers' /\ NoAbandonedSession' /\ QueueShape'
  BY <1>1, <1>3 DEF CountCovers, NoAbandonedSession, QueueShape, Owed, sessionVars
<1> QED
  BY <1>2, <1>4, <1>5

\* Messages to the agent: they only make its queue longer.
LEMMA MessageSteps ==
    ASSUME IInv, NEW c \in Conn,
           client_request(c) \/ Disconnect(c) \/ LoadFound(c) \/ Woken(c)
    PROVE  IInv'
<1> USE DEF IInv
<1>1. /\ UNCHANGED <<roles, agent, sessionVars, step, ref, client>>
      /\ \A d \in Conn : login[d] = "loading" <=> login'[d] = "loading"
      /\ ROLES' \in {"nil", "agent"}
      /\ \/ Push("request", c) \/ Push("disconnect", NoConn) \/ Push("enter", c)
         \/ UNCHANGED q
  BY DEF client_request, Disconnect, LoadFound, Woken, CallEnter, SetLogin, TypeOK, managerVars
<1>2. /\ conn' \in [Conn -> {"new", "open", "closed"}]
      /\ linked' \in SUBSET Conn /\ links' \in SUBSET Conn /\ discs' \in SUBSET Conn
      /\ login' \in [Conn -> LoginState]
  BY DEF client_request, Disconnect, LoadFound, Woken, CallEnter, SetLogin, TypeOK,
         LoginState, gateVars
<1>3. /\ q' \in Seq(Item)
      /\ Cardinality(Afks(q')) = Cardinality(Afks(q))
      /\ q # <<>> => q' # <<>> /\ Head(q') = Head(q)
      /\ \A i \in 1..Len(q') : q'[i].op = "enter" => q'[i].conn # NoConn
      /\ agent \notin Alive => q' = q
      /\ Cardinality(Afks(q)) \in Nat
  <2>1. CASE UNCHANGED q
    BY <2>1, AfksFinite DEF TypeOK, QueueShape
  <2>2. CASE Push("request", c)
    <3>1. [op |-> "request", conn |-> c] \in Item
      BY DEF Item
    <3> QED
      BY <2>2, <3>1, PushFacts DEF One
  <2>3. CASE Push("disconnect", NoConn)
    <3>1. [op |-> "disconnect", conn |-> NoConn] \in Item
      BY DEF Item
    <3> QED
      BY <2>3, <3>1, PushFacts DEF One
  <2>4. CASE Push("enter", c)
    <3>1. [op |-> "enter", conn |-> c] \in Item
      BY DEF Item
    <3> QED
      BY <2>4, <3>1, PushFacts, SessionAssumption DEF One
  <2> QED
    BY <1>1, <2>1, <2>2, <2>3, <2>4
<1>4. TypeOK'
  BY <1>1, <1>2, <1>3 DEF TypeOK, sessionVars
<1>5. Held' = Held
  BY <1>1 DEF Held
<1>6. QueueShape'
  BY <1>1, <1>3 DEF QueueShape, sessionVars
<1>7. LoadShape'
  BY <1>1, <1>5 DEF LoadShape, sessionVars
<1>8. CountCovers'
  BY <1>1, <1>3, <1>5 DEF CountCovers, Owed, sessionVars
<1>9. NoAbandonedSession'
  <2>1. Afks(q') # {} <=> Afks(q) # {}
    BY <1>3, AfksFinite DEF TypeOK
  <2> QED
    BY <1>1, <2>1 DEF NoAbandonedSession, sessionVars
<1> QED
  BY <1>4, <1>6, <1>7, <1>8, <1>9

\* The load: the agent starts with nothing counted and one enter to run.
LEMMA LoadSteps ==
    ASSUME IInv, NEW c \in Conn, LoadStart(c) \/ LoadDone(c) \/ LoadFailed(c)
    PROVE  IInv'
<1> USE DEF IInv
<1>0. q \in Seq(Item)
  BY DEF TypeOK
<1>1. CASE LoadStart(c)
  <2>1. agent = "none" /\ q = <<>>
    BY <1>1 DEF LoadStart, LoadShape, QueueShape, Alive, TypeOK, AgentState
  <2>2. /\ UNCHANGED <<managerVars, sessionVars, q, step, ref, client>>
        /\ agent' = "loading" /\ login' = [login EXCEPT ![c] = "loading"]
    BY <1>1 DEF LoadStart, SetLogin
  <2>3. TypeOK'
    BY <1>1, <2>2 DEF LoadStart, TypeOK, gateVars, managerVars, sessionVars, LoginState, AgentState
  <2>4. Held' = Held /\ Afks(q)' = Afks(q)
    BY <2>2 DEF Held, Afks
  <2>5. LoadShape'
    BY <1>1, <2>2, <2>4 DEF LoadStart, LoadShape, TypeOK, managerVars, sessionVars
  <2>6. QueueShape' /\ NoAbandonedSession' /\ CountCovers'
    BY <2>1, <2>2, <2>4 DEF QueueShape, NoAbandonedSession, CountCovers, Owed, sessionVars, Alive
  <2> QED
    BY <2>3, <2>5, <2>6
<1>2. CASE LoadDone(c)
  <2>1. /\ agent = "loading" /\ ref = 0 /\ fd = NoConn /\ Held = {}
        /\ q = <<>> /\ afk_timer = "nil" /\ step = "start"
    BY <1>2 DEF LoadDone, LoadShape, QueueShape, Alive, TypeOK
  <2>2. /\ agent' = "up" /\ State' = "loaded"
        /\ roles' = "agent" /\ ROLES' = "agent"
        /\ q' = <<[op |-> "enter", conn |-> c]>>
        /\ UNCHANGED <<gateVars, fd, gate_link, afk_timer, step, ref, client>>
        /\ login' \in [Conn -> LoginState]
        /\ \A d \in Conn : login'[d] # "loading"
    BY <1>2 DEF LoadDone, Wake, TypeOK, LoginState, LoadShape
  <2>3. [op |-> "enter", conn |-> c] \in Item
    BY DEF Item
  <2>4. q' \in Seq(Item) /\ Len(q') = 1 /\ q'[1] = [op |-> "enter", conn |-> c]
    BY <2>2, <2>3
  <2>5. TypeOK'
    BY <2>2, <2>4 DEF TypeOK, gateVars, AgentState
  <2>6. Held' = {} /\ Afks(q') = {}
    BY <2>1, <2>2, <2>4 DEF Held, Afks
  <2>7. QueueShape'
    BY <2>1, <2>2, <2>4, SessionAssumption DEF QueueShape, Alive
  <2>8. LoadShape'
    BY <2>2 DEF LoadShape
  <2>9. CountCovers'
    <3>1. Cardinality(Held') = 0 /\ Cardinality(Afks(q')) = 0
      BY <2>6, FS_EmptySet
    <3> QED
      BY <2>1, <2>2, <3>1 DEF CountCovers, Owed, One
  <2>10. NoAbandonedSession'
    BY <2>2 DEF NoAbandonedSession
  <2> QED
    BY <2>5, <2>7, <2>8, <2>9, <2>10
<1>3. CASE LoadFailed(c)
  <2>1. agent = "loading"
    BY <1>3 DEF LoadFailed, LoadShape
  <2>2. /\ UNCHANGED <<gateVars, managerVars, sessionVars, q, step, ref, client>>
        /\ agent' = "none" /\ login' \in [Conn -> LoginState]
        /\ \A d \in Conn : login'[d] # "loading"
    BY <1>3 DEF LoadFailed, Wake, TypeOK, LoginState, LoadShape
  <2>3. TypeOK'
    BY <2>2 DEF TypeOK, gateVars, managerVars, sessionVars, AgentState
  <2>4. Held' = Held /\ Afks(q)' = Afks(q)
    BY <2>2 DEF Held, Afks
  <2>5. LoadShape'
    BY <2>1, <2>2, <2>4 DEF LoadShape, managerVars, sessionVars
  <2>6. QueueShape' /\ NoAbandonedSession' /\ CountCovers'
    BY <2>1, <2>2, <2>4 DEF QueueShape, NoAbandonedSession, CountCovers, Owed, sessionVars, Alive
  <2> QED
    BY <2>3, <2>5, <2>6
<1> QED
  BY <1>1, <1>2, <1>3

-----------------------------------------------------------------------------
(* The items of the agent's queue. *)

LEMMA EnterRefStep == ASSUME IInv, EnterRef PROVE IInv'
<1> USE DEF IInv
<1>1. /\ UNCHANGED <<gateVars, login, managerVars, agent, sessionVars, q, client>>
      /\ agent \in Alive /\ q # <<>> /\ Head(q).op = "enter"
      /\ step = "start" /\ step' = "referenced" /\ ref' = RefPlus
  BY DEF EnterRef, Runs
<1>2. Held' = Held /\ Afks(q)' = Afks(q)
  BY <1>1 DEF Held, Afks
<1>3. TypeOK'
  BY <1>1 DEF TypeOK, gateVars, managerVars, sessionVars, RefPlus
<1>4. QueueShape' /\ NoAbandonedSession'
  BY <1>1, <1>2 DEF QueueShape, NoAbandonedSession, sessionVars
<1>5. LoadShape'
  BY <1>1, <1>2 DEF LoadShape, sessionVars, managerVars, Alive, TypeOK
<1>6. CountCovers'
  BY <1>1, <1>2, Counts DEF CountCovers, Owed, One, RefPlus, sessionVars
<1> QED
  BY <1>3, <1>4, <1>5, <1>6

LEMMA EnterSetStep == ASSUME IInv, EnterSet PROVE IInv'
<1> USE DEF IInv
<1>1. /\ UNCHANGED <<gateVars, login, managerVars, agent, State, afk_timer, q, client>>
      /\ agent \in Alive /\ q # <<>> /\ Head(q).op = "enter"
      /\ step = "referenced" /\ step' = "dispatched"
      /\ ref' = IF fd # NoConn THEN RefMinus ELSE ref
      /\ fd' = Head(q).conn /\ gate_link' = Head(q).conn
  BY DEF EnterSet, Runs
<1>2. Held' = Held /\ Afks(q)' = Afks(q)
  BY <1>1 DEF Held, Afks
<1>3. Head(q) \in Item /\ Head(q).conn # NoConn
  <2>1. q \in Seq(Item) /\ 1 \in 1..Len(q) /\ Head(q) = q[1]
    BY <1>1 DEF TypeOK
  <2> QED
    BY <1>1, <2>1 DEF QueueShape
<1>4. CountCovers'
  BY <1>1, <1>2, <1>3, Counts DEF CountCovers, Owed, One, RefMinus
<1>5. ref' \in Int /\ ref' >= -1
  BY <1>1, Counts DEF RefMinus, CountCovers, Owed, One
<1>6. TypeOK'
  BY <1>1, <1>3, <1>5 DEF TypeOK, gateVars, managerVars, Item
<1>7. QueueShape' /\ NoAbandonedSession'
  BY <1>1, <1>3 DEF QueueShape, NoAbandonedSession
<1>8. LoadShape'
  BY <1>1, <1>2 DEF LoadShape, managerVars, Alive, TypeOK
<1> QED
  BY <1>4, <1>6, <1>7, <1>8

\* The last step of an enter, well or ill.
LEMMA EnterEndStep == ASSUME IInv, EnterOk \/ EnterThrows PROVE IInv'
<1> USE DEF IInv
<1>1. /\ UNCHANGED <<managerVars, agent, fd, gate_link, afk_timer, ref, client>>
      /\ agent \in Alive /\ q # <<>> /\ Head(q).op = "enter"
      /\ step = "dispatched" /\ step' = "start" /\ Pop
      /\ State' \in {"online", State}
      /\ login' = [login EXCEPT ![Head(q).conn] = "answered"]
      /\ UNCHANGED <<conn, linked, discs>> /\ links' \in {links, links \cup {Head(q).conn}}
  BY DEF EnterOk, EnterThrows, Runs, SetLogin, sessionVars, gateVars
<1>2. /\ q' \in Seq(Item)
      /\ Cardinality(Afks(q)) = Cardinality(Afks(q'))
      /\ \A i \in 1..Len(q') : q'[i].op = "enter" => q'[i].conn # NoConn
      /\ Cardinality(Afks(q')) \in Nat
      /\ Head(q) \in Item
  BY <1>1, PopFacts DEF One
<1>3. Held' = Held
  BY <1>1 DEF Held
<1>4. fd # NoConn
  BY <1>1 DEF QueueShape
<1>5. Head(q).conn \in Conn
  <2>1. q \in Seq(Item) /\ 1 \in 1..Len(q) /\ Head(q) = q[1]
    BY <1>1 DEF TypeOK
  <2> QED
    BY <1>1, <1>2, <2>1 DEF QueueShape, Item
<1>6. TypeOK'
  BY <1>1, <1>2, <1>5 DEF TypeOK, managerVars, LoginState
<1>7. QueueShape' /\ NoAbandonedSession'
  BY <1>1, <1>2, <1>4 DEF QueueShape, NoAbandonedSession
<1>8. CountCovers'
  BY <1>1, <1>2, <1>3, Counts DEF CountCovers, Owed, One
<1>9. LoadShape'
  <2>1. \A c \in Conn : login'[c] = "loading" => login[c] = "loading"
    BY <1>1 DEF TypeOK
  <2>2. agent # "loading" /\ \A c \in Conn : login[c] # "loading"
    BY <1>1 DEF LoadShape, Alive
  <2> QED
    BY <1>1, <1>3, <2>1, <2>2 DEF LoadShape, managerVars, Alive, TypeOK
<1> QED
  BY <1>6, <1>7, <1>8, <1>9

LEMMA RequestStep == ASSUME IInv, do_request PROVE IInv'
<1> USE DEF IInv
<1>1. /\ UNCHANGED <<gateVars, login, managerVars, agent, State, fd, afk_timer, step, ref, client>>
      /\ agent \in Alive /\ q # <<>> /\ Head(q).op = "request"
      /\ gate_link' = Head(q).conn /\ Pop
  BY DEF do_request, Runs
<1>2. /\ q' \in Seq(Item)
      /\ Cardinality(Afks(q)) = Cardinality(Afks(q'))
      /\ \A i \in 1..Len(q') : q'[i].op = "enter" => q'[i].conn # NoConn
      /\ Cardinality(Afks(q')) \in Nat
      /\ Head(q) \in Item
  BY <1>1, PopFacts DEF One
<1>3. Held' = Held /\ step = "start"
  BY <1>1 DEF Held, QueueShape, TypeOK
<1>4. TypeOK'
  BY <1>1, <1>2 DEF TypeOK, gateVars, managerVars, Item
<1>5. QueueShape'
  BY <1>1, <1>2, <1>3 DEF QueueShape
<1>6. CountCovers'
  BY <1>1, <1>2, <1>3 DEF CountCovers, Owed
<1>7. NoAbandonedSession'
  <2>1. Afks(q') # {} <=> Afks(q) # {}
    BY <1>2, AfksFinite DEF TypeOK
  <2> QED
    BY <1>1, <2>1 DEF NoAbandonedSession
<1>8. LoadShape'
  BY <1>1, <1>3 DEF LoadShape, managerVars
<1> QED
  BY <1>4, <1>5, <1>6, <1>7, <1>8

\* A disconnect moves the session's reference to the AFK timer, or leaves it
\* with nobody.
LEMMA OnAfkStep == ASSUME IInv, on_afk PROVE IInv'
<1> USE DEF IInv
<1>1. /\ UNCHANGED <<gateVars, login, managerVars, agent, State, gate_link, step, client>>
      /\ agent \in Alive /\ q # <<>> /\ Head(q).op = "disconnect" /\ Pop
      /\ fd' = NoConn
      /\ IF fd # NoConn /\ State = "online"
         THEN afk_timer' = "set" /\ ref' = IF afk_timer = "set" THEN RefMinus ELSE ref
         ELSE UNCHANGED <<afk_timer, ref>>
  BY DEF on_afk, Runs
<1>2. /\ q' \in Seq(Item)
      /\ Cardinality(Afks(q)) = Cardinality(Afks(q'))
      /\ \A i \in 1..Len(q') : q'[i].op = "enter" => q'[i].conn # NoConn
      /\ Cardinality(Afks(q')) \in Nat
  BY <1>1, PopFacts DEF One
<1>3. Held' = Held /\ step = "start"
  BY <1>1 DEF Held, QueueShape, TypeOK
<1>4. CountCovers'
  BY <1>1, <1>2, <1>3, Counts DEF CountCovers, Owed, One, RefMinus
<1>5. ref' \in Int /\ ref' >= -1
  BY <1>1, Counts DEF RefMinus, CountCovers, Owed, One
<1>6. TypeOK'
  BY <1>1, <1>2, <1>5 DEF TypeOK, gateVars, managerVars
<1>7. QueueShape'
  BY <1>1, <1>2, <1>3 DEF QueueShape
<1>8. NoAbandonedSession'
  <2>1. Afks(q') # {} <=> Afks(q) # {}
    BY <1>2, AfksFinite DEF TypeOK
  <2> QED
    BY <1>1, <2>1 DEF NoAbandonedSession
<1>9. LoadShape'
  BY <1>1, <1>3 DEF LoadShape, managerVars, Alive, TypeOK
<1> QED
  BY <1>4, <1>6, <1>7, <1>8, <1>9

LEMMA AfkTimerStep == ASSUME IInv, AfkTimer PROVE IInv'
<1> USE DEF IInv
<1>1. /\ UNCHANGED <<gateVars, login, managerVars, agent, State, fd, gate_link, step, ref, client>>
      /\ agent \in Alive /\ afk_timer = "set" /\ afk_timer' = "nil" /\ Push("afk", NoConn)
  BY DEF AfkTimer
<1>2. /\ q' \in Seq(Item)
      /\ Cardinality(Afks(q')) = Cardinality(Afks(q)) + 1
      /\ q # <<>> => q' # <<>> /\ Head(q') = Head(q)
      /\ \A i \in 1..Len(q') : q'[i].op = "enter" => q'[i].conn # NoConn
      /\ Cardinality(Afks(q)) \in Nat
  <2>1. [op |-> "afk", conn |-> NoConn] \in Item
    BY DEF Item
  <2> QED
    BY <1>1, <2>1, PushFacts DEF One
<1>3. Held' = Held
  BY <1>1 DEF Held
<1>4. TypeOK'
  BY <1>1, <1>2 DEF TypeOK, gateVars, managerVars
<1>5. QueueShape'
  BY <1>1, <1>2 DEF QueueShape
<1>6. CountCovers'
  BY <1>1, <1>2, <1>3, Counts DEF CountCovers, Owed, One
<1>7. NoAbandonedSession'
  <2>1. Afks(q') # {}
    BY <1>2, AfksFinite
  <2> QED
    BY <1>1, <2>1 DEF NoAbandonedSession
<1>8. LoadShape'
  BY <1>1, <1>3 DEF LoadShape, managerVars
<1> QED
  BY <1>4, <1>5, <1>6, <1>7, <1>8

\* The callback gives back its own reference, or leaves it with nobody.
LEMMA AfkLeaveStep == ASSUME IInv, AfkLeave \/ AfkLeaveThrows PROVE IInv'
<1> USE DEF IInv
<1>1. /\ UNCHANGED <<gateVars, login, managerVars, agent, fd, gate_link, afk_timer, step, client>>
      /\ agent \in Alive /\ q # <<>> /\ Head(q).op = "afk" /\ Pop
      /\ State' \in {"loaded", State} /\ State' # "online"
      /\ ref' \in {ref, RefMinus}
  BY DEF AfkLeave, AfkLeaveThrows, Runs
<1>2. /\ q' \in Seq(Item)
      /\ Cardinality(Afks(q)) = Cardinality(Afks(q')) + 1
      /\ \A i \in 1..Len(q') : q'[i].op = "enter" => q'[i].conn # NoConn
      /\ Cardinality(Afks(q')) \in Nat
  BY <1>1, PopFacts DEF One
<1>3. Held' = Held /\ step = "start"
  BY <1>1 DEF Held, QueueShape, TypeOK
<1>4. CountCovers'
  BY <1>1, <1>2, <1>3, Counts DEF CountCovers, Owed, One, RefMinus
<1>5. ref' \in Int /\ ref' >= -1
  BY <1>1, <1>2, Counts DEF RefMinus, CountCovers, Owed, One
<1>6. TypeOK'
  BY <1>1, <1>2, <1>5 DEF TypeOK, gateVars, managerVars
<1>7. QueueShape' /\ NoAbandonedSession'
  BY <1>1, <1>2, <1>3 DEF QueueShape, NoAbandonedSession
<1>8. LoadShape'
  BY <1>1, <1>3 DEF LoadShape, managerVars, Alive, TypeOK
<1> QED
  BY <1>4, <1>6, <1>7, <1>8

-----------------------------------------------------------------------------
(* The count, its users, and the end of the agent. *)

LEMMA QueryAgentStep == ASSUME IInv, NEW k \in Client, query_agent(k) PROVE IInv'
<1> USE DEF IInv
<1>1. /\ UNCHANGED <<gateVars, login, managerVars, agent, sessionVars, q, step>>
      /\ client[k] = "free" /\ roles = "agent" /\ ref' = RefPlus
      /\ client' = [client EXCEPT ![k] = IF ref = -1 THEN "waiting" ELSE "held"]
  BY DEF query_agent
<1>2. Held' = IF ref = -1 THEN Held ELSE Held \cup {k}
  BY <1>1 DEF Held, TypeOK
<1>3. Held \subseteq Client /\ k \in Client \ Held
  BY <1>1 DEF Held
<1>4. Cardinality(Held') = IF ref = -1 THEN Cardinality(Held) ELSE Cardinality(Held) + 1
  BY <1>2, <1>3, HeldFacts
<1>5. Afks(q)' = Afks(q)
  BY <1>1 DEF Afks
<1>6. TypeOK'
  BY <1>1 DEF TypeOK, gateVars, managerVars, sessionVars, RefPlus
<1>7. QueueShape' /\ NoAbandonedSession'
  BY <1>1, <1>5 DEF QueueShape, NoAbandonedSession, sessionVars
<1>8. CountCovers'
  BY <1>1, <1>4, <1>5, Counts DEF CountCovers, Owed, RefPlus, One, sessionVars
<1>9. LoadShape'
  BY <1>1 DEF LoadShape, managerVars
<1> QED
  BY <1>6, <1>7, <1>8, <1>9

LEMMA CloseHandleStep == ASSUME IInv, NEW k \in Client, CloseHandle(k) PROVE IInv'
<1> USE DEF IInv
<1>1. /\ UNCHANGED <<gateVars, login, managerVars, agent, sessionVars, q, step>>
      /\ client[k] = "held" /\ ref' = RefMinus
      /\ client' = [client EXCEPT ![k] = "free"]
  BY DEF CloseHandle
<1>2. Held' = Held \ {k}
  BY <1>1 DEF Held, TypeOK
<1>3. Held \subseteq Client /\ k \in Held
  BY <1>1 DEF Held
<1>4. Cardinality(Held') = Cardinality(Held) - 1 /\ Cardinality(Held') \in Nat
  <2>1. Held \ {k} \subseteq Client
    BY <1>3
  <2> QED
    BY <1>2, <1>3, <2>1, HeldFacts
<1>5. Afks(q)' = Afks(q)
  BY <1>1 DEF Afks
<1>6. CountCovers'
  BY <1>1, <1>4, <1>5, Counts DEF CountCovers, Owed, RefMinus, One, sessionVars
<1>7. ref' \in Int /\ ref' >= -1
  BY <1>1, <1>4, Counts DEF CountCovers, Owed, RefMinus, One
<1>8. TypeOK'
  BY <1>1, <1>7 DEF TypeOK, gateVars, managerVars, sessionVars
<1>9. QueueShape' /\ NoAbandonedSession'
  BY <1>1, <1>5 DEF QueueShape, NoAbandonedSession, sessionVars
<1>10. LoadShape'
  BY <1>1, <1>3 DEF LoadShape, managerVars, sessionVars, TypeOK
<1> QED
  BY <1>6, <1>8, <1>9, <1>10

LEMMA StopSteps == ASSUME IInv, ReleaseTimer \/ stop_service PROVE IInv'
<1> USE DEF IInv
<1>1. /\ UNCHANGED <<gateVars, login, managerVars, sessionVars, q, step, client>>
      /\ agent \in Alive /\ agent' \in Alive
      /\ ref' \in {ref, -1}
  BY DEF ReleaseTimer, stop_service, Alive
<1>2. Held' = Held /\ Afks(q)' = Afks(q)
  BY <1>1 DEF Held, Afks
<1>3. TypeOK'
  BY <1>1 DEF TypeOK, gateVars, managerVars, sessionVars, Alive, AgentState
<1>4. QueueShape' /\ NoAbandonedSession'
  BY <1>1, <1>2 DEF QueueShape, NoAbandonedSession, sessionVars
<1>5. CountCovers'
  BY <1>1, <1>2 DEF CountCovers, Owed, sessionVars
<1>6. LoadShape'
  BY <1>1, <1>2 DEF LoadShape, managerVars, Alive, TypeOK
<1> QED
  BY <1>3, <1>4, <1>5, <1>6

LEMMA ExitStep == ASSUME IInv, Exit PROVE IInv'
<1> USE DEF IInv
<1>1. /\ UNCHANGED <<gateVars, managerVars, State, fd, gate_link, ref>>
      /\ agent = "stopping" /\ agent' = "gone"
      /\ q' = <<>> /\ step' = "start" /\ afk_timer' = "nil"
      /\ login' \in [Conn -> LoginState]
      /\ \A c \in Conn : login'[c] = "loading" <=> login[c] = "loading"
      /\ client' = [k \in Client |-> "free"]
  BY DEF Exit, TypeOK, LoginState
<1>2. Held' = {} /\ Afks(q') = {}
  BY <1>1 DEF Held, Afks
<1>3. TypeOK'
  BY <1>1 DEF TypeOK, gateVars, managerVars, AgentState
<1>4. QueueShape' /\ NoAbandonedSession'
  BY <1>1 DEF QueueShape, NoAbandonedSession, Alive
<1>5. CountCovers'
  <2>1. Cardinality(Held') = 0 /\ Cardinality(Afks(q')) = 0
    BY <1>2, FS_EmptySet
  <2> QED
    BY <1>1, <2>1, Counts DEF CountCovers, Owed, One
<1>6. LoadShape'
  BY <1>1 DEF LoadShape, managerVars, TypeOK
<1> QED
  BY <1>3, <1>4, <1>5, <1>6

-----------------------------------------------------------------------------
(* The theorems. *)

LEMMA StepIInv == IInv /\ [Next]_vars => IInv'
<1> SUFFICES ASSUME IInv, [Next]_vars PROVE IInv'
  OBVIOUS
<1>1. ASSUME NEW c \in Conn,
             \/ Connect(c) \/ on_disconnect(c) \/ LoseDisconnect(c)
             \/ update_game_link(c) \/ client_request(c)
             \/ enterServer(c) \/ Manager(c) \/ Disconnect(c)
      PROVE  IInv'
  BY <1>1, GateSteps, MessageSteps, LoadSteps DEF Manager
<1>2. CASE AgentQueue
  BY <1>2, EnterRefStep, EnterSetStep, EnterEndStep, RequestStep, OnAfkStep, AfkLeaveStep
     DEF AgentQueue
<1>3. CASE AfkTimer
  BY <1>3, AfkTimerStep
<1>4. ASSUME NEW k \in Client, query_agent(k) \/ CloseHandle(k)
      PROVE  IInv'
  BY <1>4, QueryAgentStep, CloseHandleStep
<1>5. CASE ReleaseTimer \/ stop_service \/ Exit
  BY <1>5, StopSteps, ExitStep
<1>6. CASE UNCHANGED vars
  BY <1>6 DEF vars, IInv, TypeOK, QueueShape, LoadShape, CountCovers, NoAbandonedSession,
              Owed, Held, Afks, gateVars, managerVars, sessionVars
<1> QED
  BY <1>1, <1>2, <1>3, <1>4, <1>5, <1>6 DEF Next

\* IInv holds in every reachable state, for any number of connections and users.
THEOREM Invariance == Spec => []IInv
  BY InitIInv, StepIInv, PTL DEF Spec

\* The variables keep their types.
THEOREM TypeCorrect == Spec => []TypeOK
<1>1. IInv => TypeOK
  BY DEF IInv
<1> QED
  BY <1>1, Invariance, PTL

\* No order of logins, disconnects and AFK callbacks gives a reference back twice.
THEOREM CountCoversOwed == Spec => []CountCovers
<1>1. IInv => CountCovers
  BY DEF IInv
<1> QED
  BY <1>1, Invariance, PTL

\* An online role without a connection has its AFK timer or callback pending.
THEOREM NeverAbandoned == Spec => []NoAbandonedSession
<1>1. IInv => NoAbandonedSession
  BY DEF IInv
<1> QED
  BY <1>1, Invariance, PTL

\* refd tells an agent to stop only when it is idle.
THEOREM StopIsIdle == Spec => StopOnlyIdle
<1> DEFINE Good == ref # -1 /\ ref' = -1 =>
                     /\ fd = NoConn /\ afk_timer = "nil" /\ Afks(q) = {}
                     /\ step # "referenced" /\ Held = {}
<1>1. ASSUME IInv, ref = 0 PROVE Good
  <2>1. Owed <= 0
    BY <1>1 DEF IInv, CountCovers
  <2>2. Cardinality(Held) \in Nat /\ (Cardinality(Held) = 0 <=> Held = {})
    BY HeldFacts DEF Held
  <2> QED
    BY <1>1, <2>1, <2>2, Counts DEF Owed, One, IInv, TypeOK
<1>2. ASSUME IInv, [Next]_vars, ref # -1, ref' = -1 PROVE ref = 0
  <2>1. ref \in Int /\ ref >= 0
    BY <1>2, Counts
  <2>2. ASSUME NEW c \in Conn,
               \/ Connect(c) \/ on_disconnect(c) \/ LoseDisconnect(c)
               \/ update_game_link(c) \/ client_request(c)
               \/ enterServer(c) \/ Manager(c) \/ Disconnect(c)
        PROVE  ref' = ref
    BY <2>2 DEF Connect, on_disconnect, LoseDisconnect, update_game_link, client_request,
                enterServer, Manager, Disconnect, SelectFails, LoadFound, LoadWait, LoadStart,
                LoadDone, LoadFailed, Woken, EnterReturn, CallEnter
  <2>3. CASE AgentQueue
    BY <1>2, <2>1, <2>3 DEF AgentQueue, EnterRef, EnterSet, EnterOk, EnterThrows, do_request,
                            on_afk, AfkLeave, AfkLeaveThrows, RefPlus, RefMinus
  <2>4. CASE AfkTimer \/ stop_service \/ Exit \/ UNCHANGED vars
    BY <1>2, <2>4 DEF AfkTimer, stop_service, Exit, vars
  <2>5. CASE ReleaseTimer
    BY <2>5 DEF ReleaseTimer
  <2>6. ASSUME NEW k \in Client, query_agent(k) \/ CloseHandle(k)
        PROVE  ref = 0
    BY <1>2, <2>1, <2>6 DEF query_agent, CloseHandle, RefPlus, RefMinus
  <2> QED
    BY <1>2, <2>2, <2>3, <2>4, <2>5, <2>6 DEF Next
<1> QED
  BY <1>1, <1>2, Invariance, PTL DEF Spec, StopOnlyIdle
=============================================================================
