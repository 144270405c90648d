---------------------------- MODULE ChatProofs ----------------------------
(***************************************************************************)
(* Theorems about ChatManager, for any roles, channels, agents and limits: *)
(* the two tables of the service agree, and a history is the last messages *)
(* of its channel.                                                         *)
(***************************************************************************)
EXTENDS ChatManager, TLAPS

InList(l, c) == \E i \in 1..Len(l) : l[i] = c
NoDup(l) == \A i, j \in 1..Len(l) : l[i] = l[j] => i = j

LEMMA Concat ==
    ASSUME NEW S, NEW s \in Seq(S), NEW t \in Seq(S), NEW p \in Nat, p = Len(s),
           NEW q \in Nat, q = Len(t)
    PROVE  /\ s \o t \in Seq(S) /\ Len(s \o t) = p + q
           /\ \A i \in 1..p : (s \o t)[i] = s[i]
           /\ \A i \in 1..q : (s \o t)[p + i] = t[i]
  OBVIOUS

LEMMA Part ==
    ASSUME NEW S, NEW s \in Seq(S), NEW a \in Nat \ {0}, NEW b \in Nat, a <= b + 1, b <= Len(s)
    PROVE  /\ SubSeq(s, a, b) \in Seq(S) /\ Len(SubSeq(s, a, b)) = b - a + 1
           /\ \A i \in 1..(b - a + 1) : SubSeq(s, a, b)[i] = s[a + i - 1]
  OBVIOUS

\* What the search in a list removes.
LEMMA WithoutList ==
    ASSUME NEW S, NEW l \in Seq(S), NoDup(l), NEW c
    PROVE  /\ Without(l, c) \in Seq(S)
           /\ NoDup(Without(l, c))
           /\ \A d : InList(Without(l, c), d) <=> InList(l, d) /\ d # c
<1>1. CASE ~InList(l, c)
  BY <1>1 DEF Without, InList
<1>2. CASE InList(l, c)
  <2>1. PICK k \in 1..Len(l) : l[k] = c /\ k = CHOOSE j \in 1..Len(l) : l[j] = c
    BY <1>2 DEF InList
  <2> DEFINE w == Without(l, c)
             n == Len(l)
  <2> DEFINE s == SubSeq(l, 1, k - 1)
             t == SubSeq(l, k + 1, n)
  <2>2. w = s \o t
    BY <1>2, <2>1 DEF Without, InList
  <2>3. n \in Nat /\ k \in 1..n /\ n = Len(l)
    BY <2>1
  <2>4. s \in Seq(S) /\ Len(s) = k - 1 /\ \A i \in 1..(k - 1) : s[i] = l[i]
    BY <2>3, Part
  <2>5. t \in Seq(S) /\ Len(t) = n - k /\ \A i \in 1..(n - k) : t[i] = l[k + i]
    BY <2>3, Part
  <2> HIDE DEF w, n, s, t
  <2>6. /\ w \in Seq(S) /\ Len(w) = n - 1
        /\ \A i \in 1..(k - 1) : w[i] = s[i]
        /\ \A i \in 1..(n - k) : w[k - 1 + i] = t[i]
    <3>1. k - 1 \in Nat /\ n - k \in Nat /\ (k - 1) + (n - k) = n - 1
      BY <2>3
    <3>2. /\ s \o t \in Seq(S) /\ Len(s \o t) = (k - 1) + (n - k)
          /\ \A i \in 1..(k - 1) : (s \o t)[i] = s[i]
          /\ \A i \in 1..(n - k) : (s \o t)[k - 1 + i] = t[i]
      <4> DEFINE p == k - 1
                 q == n - k
      <4>1. p \in Nat /\ p = Len(s) /\ q \in Nat /\ q = Len(t) /\ s \in Seq(S) /\ t \in Seq(S)
        BY <2>4, <2>5, <3>1
      <4> HIDE DEF p, q
      <4>2. /\ s \o t \in Seq(S) /\ Len(s \o t) = p + q
            /\ \A i \in 1..p : (s \o t)[i] = s[i]
            /\ \A i \in 1..q : (s \o t)[p + i] = t[i]
        BY <4>1, Concat
      <4> QED
        BY <4>2 DEF p, q
    <3> QED
      BY <2>2, <3>1, <3>2
  <2>7. \A i \in 1..(n - 1) : w[i] = l[IF i < k THEN i ELSE i + 1]
    <3>1. \A i \in 1..(k - 1) : w[i] = l[i]
      BY <2>4, <2>6
    <3>2. \A i \in 1..(n - k) : w[k - 1 + i] = l[k + i]
      BY <2>5, <2>6
    <3>3. ASSUME NEW i \in 1..(n - 1), ~(i < k) PROVE w[i] = l[i + 1]
      <4>1. i - k + 1 \in 1..(n - k) /\ k - 1 + (i - k + 1) = i /\ k + (i - k + 1) = i + 1
        BY <2>3, <3>3
      <4> QED
        BY <3>2, <4>1
    <3> QED
      BY <2>3, <3>1, <3>3
  <2>8. \A i \in 1..n : i # k => l[i] # c
    BY <2>1, <2>3 DEF NoDup
  <2>9. NoDup(w)
    <3> SUFFICES ASSUME NEW i \in 1..(n - 1), NEW j \in 1..(n - 1), w[i] = w[j]
                 PROVE  i = j
      BY <2>6 DEF NoDup
    <3> DEFINE a == IF i < k THEN i ELSE i + 1
               b == IF j < k THEN j ELSE j + 1
    <3>1. a \in 1..n /\ b \in 1..n
      BY <2>3
    <3>2. w[i] = l[a] /\ w[j] = l[b]
      BY <2>7
    <3> HIDE DEF a, b
    <3>3. a = b
      BY <2>3, <3>1, <3>2 DEF NoDup
    <3> QED
      BY <2>3, <3>3 DEF a, b
  <2>10. ASSUME NEW d, InList(w, d) PROVE InList(l, d) /\ d # c
    <3>1. PICK i \in 1..(n - 1) : w[i] = d
      BY <2>6, <2>10 DEF InList
    <3>2. PICK j \in 1..n : l[j] = d /\ j # k
      BY <2>3, <2>7, <3>1
    <3> QED
      BY <2>3, <2>8, <3>2 DEF InList
  <2>11. ASSUME NEW d, InList(l, d), d # c PROVE InList(w, d)
    <3>1. PICK j \in 1..n : l[j] = d /\ j # k
      BY <2>1, <2>3, <2>11 DEF InList
    <3>2. CASE j < k
      BY <2>3, <2>6, <2>7, <3>1, <3>2 DEF InList
    <3>3. CASE j > k
      <4>1. j - 1 \in 1..(n - 1) /\ w[j - 1] = l[j]
        BY <2>3, <2>7, <3>1, <3>3
      <4> QED
        BY <2>6, <3>1, <4>1 DEF InList
    <3> QED
      BY <2>3, <3>1, <3>2, <3>3
  <2> QED
    BY <2>6, <2>9, <2>10, <2>11 DEF w
<1> QED
  BY <1>1, <1>2

\* What a channel that is not in a list adds to it.
LEMMA AppendList ==
    ASSUME NEW S, NEW l \in Seq(S), NoDup(l), NEW c \in S, ~InList(l, c)
    PROVE  /\ Append(l, c) \in Seq(S)
           /\ NoDup(Append(l, c))
           /\ \A d : InList(Append(l, c), d) <=> InList(l, d) \/ d = c
<1> DEFINE w == Append(l, c)
           n == Len(l)
<1>1. n \in Nat /\ w \in Seq(S) /\ Len(w) = n + 1 /\ w[n + 1] = c
      /\ \A i \in 1..n : w[i] = l[i]
  OBVIOUS
<1>2. NoDup(w)
  BY <1>1 DEF NoDup, InList
<1>3. \A d : InList(w, d) <=> InList(l, d) \/ d = c
  BY <1>1 DEF InList
<1> QED
  BY <1>1, <1>2, <1>3

\* The histories only hang on their own three variables.
Latest(h, n) ==
    /\ Len(h) <= n
    /\ \A i \in 1..Len(h) : h[i] = n - Len(h) + i
    /\ \E m \in Limits : Len(h) <= m

LEMMA LatestOf ==
    ASSUME NEW s \in Seq(Nat), NEW n \in Nat, NEW k \in Nat, k = Len(s), k <= n,
           \A i \in 1..k : s[i] = n - k + i,
           NEW m \in Limits, k <= m
    PROVE  Latest(s, n)
  BY DEF Latest

LEMMA AddedLatest ==
    ASSUME NEW h \in Seq(Nat), NEW n \in Nat, Latest(h, n), MAX_HISTORY_COUNT \in Limits
    PROVE  Added(h, n + 1) \in Seq(Nat) /\ Latest(Added(h, n + 1), n + 1)
<1> DEFINE w == Append(h, n + 1)
           k == Len(h)
           s == SubSeq(w, 2, k + 1)
<1>1. /\ k \in Nat /\ w \in Seq(Nat) /\ Len(w) = k + 1 /\ w[k + 1] = n + 1
      /\ \A i \in 1..k : w[i] = h[i]
  OBVIOUS
<1>2. /\ k <= n /\ \A i \in 1..k : h[i] = n - k + i
      /\ \E m \in Limits : k <= m
  BY DEF Latest
<1>3. Added(h, n + 1) = IF k + 1 > MAX_HISTORY_COUNT THEN s ELSE w
  BY <1>1 DEF Added
<1>4. s \in Seq(Nat) /\ Len(s) = k /\ \A i \in 1..k : s[i] = w[i + 1]
  BY <1>1, Part
<1> HIDE DEF w, k, s
<1>5. \A i \in 1..(k + 1) : w[i] = n - k + i
  BY <1>1, <1>2
<1>6. CASE k + 1 > MAX_HISTORY_COUNT
  <2>1. \A i \in 1..k : s[i] = (n + 1) - k + i
    BY <1>1, <1>4, <1>5
  <2> QED
    <3>1. PICK m \in Limits : k <= m
      BY <1>2
    <3>2. k <= n + 1 /\ n + 1 \in Nat
      BY <1>1, <1>2
    <3>3. Latest(s, n + 1)
      BY <1>1, <1>4, <2>1, <3>1, <3>2, LatestOf
    <3> QED
      BY <1>3, <1>4, <1>6, <3>3
<1>7. CASE ~(k + 1 > MAX_HISTORY_COUNT)
  <2>1. k + 1 <= MAX_HISTORY_COUNT
    BY <1>1, <1>7, ChatAssumption
  <2>2. \A i \in 1..(k + 1) : w[i] = (n + 1) - (k + 1) + i
    BY <1>1, <1>5
  <2> QED
    <3>1. k + 1 <= n + 1 /\ n + 1 \in Nat /\ k + 1 \in Nat
      BY <1>1, <1>2
    <3>2. Latest(w, n + 1)
      BY <1>1, <2>1, <2>2, <3>1, LatestOf
    <3> QED
      BY <1>1, <1>3, <1>7, <3>2
<1> QED
  BY <1>6, <1>7

-----------------------------------------------------------------------------
(* The commands, each with the part of IInv it can disturb. *)

Tables ==
    /\ channels \in SUBSET Channel
    /\ players \in [Channel -> [Rid -> Agent \cup {NoAgent}]]
    /\ players_channels \in [Rid -> Seq(Channel)]
    /\ \A r \in Rid : NoDup(players_channels[r])
    /\ \A r \in Rid, c \in Channel :
          /\ players[c][r] # NoAgent <=> InList(players_channels[r], c)
          /\ players[c][r] # NoAgent => c \in channels

Histories ==
    /\ history \in [Channel -> Seq(Nat)] /\ sent \in [Channel -> Nat]
    /\ MAX_HISTORY_COUNT \in Limits
    /\ \A c \in Channel : Latest(history[c], sent[c])

Agents ==
    /\ session \in [Rid -> {"off", "on", "leaving"}]
    /\ agent \in [Rid -> Agent \cup {NoAgent}]
    /\ joining \in [Rid -> SUBSET Channel]
    /\ leaving \in [Rid -> SUBSET Name]
    /\ \A r \in Rid : joining[r] # {} => agent[r] # NoAgent

LEMMA Parts == IInv <=> Tables /\ Histories /\ Agents
<1>1. InSync /\ TypeOK => Tables
  BY DEF InSync, TypeOK, Tables, NoDup, InList, Listed
<1>2. Tables => InSync
  BY DEF InSync, Tables, NoDup, InList, Listed
<1>3. HistoryIsLatest <=> \A c \in Channel : Latest(history[c], sent[c])
  BY DEF HistoryIsLatest, Latest
<1> QED
  BY <1>1, <1>2, <1>3 DEF IInv, TypeOK, Tables, Histories, Agents

LEMMA JoinTables ==
    ASSUME Tables, NEW r \in Rid, NEW c \in Channel, NEW a \in Agent, join_channel(r, c, a)
    PROVE  Tables' /\ UNCHANGED <<history, sent, MAX_HISTORY_COUNT>>
<1> DEFINE l == players_channels[r]
           m == IF InList(l, c) THEN l ELSE Append(l, c)
<1>1. l \in Seq(Channel) /\ NoDup(l)
  BY DEF Tables
<1>2. m \in Seq(Channel) /\ NoDup(m) /\ \A d : InList(m, d) <=> InList(l, d) \/ d = c
  <2>1. CASE InList(l, c)
    BY <1>1, <2>1
  <2>2. CASE ~InList(l, c)
    BY <1>1, <2>2, AppendList
  <2> QED
    BY <2>1, <2>2
<1>3. players_channels' = [players_channels EXCEPT ![r] = m]
  BY DEF join_channel, Listed, InList
<1> HIDE DEF m
<1>4. /\ players' \in [Channel -> [Rid -> Agent \cup {NoAgent}]]
      /\ players'[c][r] # NoAgent
      /\ \A s \in Rid, d \in Channel : s # r \/ d # c => players'[d][s] = players[d][s]
  BY ChatAssumption DEF Tables, join_channel
<1>5. /\ players_channels' \in [Rid -> Seq(Channel)] /\ players_channels'[r] = m
      /\ \A s \in Rid : s # r => players_channels'[s] = players_channels[s]
  BY <1>2, <1>3 DEF Tables
<1>6. channels' = channels \cup {c}
  BY DEF join_channel
<1>7. \A d \in Channel : /\ players'[d][r] # NoAgent <=> InList(m, d)
                       /\ players'[d][r] # NoAgent => d \in channels'
  BY <1>2, <1>4, <1>6 DEF Tables
<1>8. \A s \in Rid, d \in Channel : s # r =>
          /\ players'[d][s] # NoAgent <=> InList(players_channels[s], d)
          /\ players'[d][s] # NoAgent => d \in channels'
  BY <1>4, <1>6 DEF Tables
<1>9. Tables'
  BY <1>2, <1>4, <1>5, <1>6, <1>7, <1>8 DEF Tables
<1> QED
  BY <1>9 DEF join_channel

LEMMA LeaveTables ==
    ASSUME Tables, NEW r \in Rid, NEW id, leave_channel(r, id)
    PROVE  Tables' /\ UNCHANGED <<history, sent, MAX_HISTORY_COUNT>>
<1> DEFINE l == players_channels[r]
           m == Without(l, id)
<1>1. l \in Seq(Channel) /\ NoDup(l)
  BY DEF Tables
<1>2. m \in Seq(Channel) /\ NoDup(m) /\ \A d : InList(m, d) <=> InList(l, d) /\ d # id
  BY <1>1, WithoutList
<1>3. players_channels' = [players_channels EXCEPT ![r] = m]
  BY DEF leave_channel
<1> HIDE DEF m
<1>4. /\ players' \in [Channel -> [Rid -> Agent \cup {NoAgent}]]
      /\ \A s \in Rid, d \in Channel :
            players'[d][s] = IF s = r /\ d = id /\ id \in channels THEN NoAgent ELSE players[d][s]
  BY DEF Tables, leave_channel
<1>5. /\ players_channels' \in [Rid -> Seq(Channel)] /\ players_channels'[r] = m
      /\ \A s \in Rid : s # r => players_channels'[s] = players_channels[s]
  BY <1>2, <1>3 DEF Tables
<1> QED
  BY <1>2, <1>4, <1>5 DEF Tables, leave_channel

LEMMA LeaveAllTables ==
    ASSUME Tables, NEW r \in Rid, leave_all(r)
    PROVE  Tables' /\ UNCHANGED <<history, sent, MAX_HISTORY_COUNT>>
<1>1. /\ players_channels' \in [Rid -> Seq(Channel)] /\ players_channels'[r] = <<>>
      /\ \A s \in Rid : s # r => players_channels'[s] = players_channels[s]
  BY DEF Tables, leave_all
<1>2. NoDup(<<>>) /\ \A d : ~InList(<<>>, d)
  BY DEF NoDup, InList
<1>3. /\ players' \in [Channel -> [Rid -> Agent \cup {NoAgent}]]
      /\ \A s \in Rid, d \in Channel : s # r => players'[d][s] = players[d][s]
      /\ \A d \in Channel : players'[d][r] = NoAgent
  BY DEF Tables, leave_all, Listed, InList
<1> QED
  BY <1>1, <1>2, <1>3 DEF Tables, leave_all

LEMMA UpdateTables ==
    ASSUME Tables, NEW r \in Rid, NEW a \in Agent, update_agent_addr(r, a)
    PROVE  Tables' /\ UNCHANGED <<history, sent, MAX_HISTORY_COUNT>>
<1>1. /\ players' \in [Channel -> [Rid -> Agent \cup {NoAgent}]]
      /\ \A s \in Rid, d \in Channel : players'[d][s] = NoAgent <=> players[d][s] = NoAgent
  BY ChatAssumption DEF Tables, update_agent_addr
<1> QED
  BY <1>1 DEF Tables, update_agent_addr

LEMMA CleanupTables ==
    ASSUME Tables, cleanup_channels
    PROVE  Tables' /\ UNCHANGED <<history, sent, MAX_HISTORY_COUNT>>
  BY DEF Tables, cleanup_channels

LEMMA SendHistories ==
    ASSUME Histories, NEW r \in Rid, NEW c \in Channel, send_message(r, c)
    PROVE  Histories' /\ UNCHANGED <<channels, players, players_channels>>
<1> DEFINE h == Added(history[c], sent[c] + 1)
<1>1. h \in Seq(Nat) /\ Latest(h, sent[c] + 1)
  BY AddedLatest DEF Histories
<1>2. history' = [history EXCEPT ![c] = h] /\ sent' = [sent EXCEPT ![c] = @ + 1]
  BY DEF send_message
<1> HIDE DEF h
<1>3. /\ history' \in [Channel -> Seq(Nat)] /\ sent' \in [Channel -> Nat]
      /\ history'[c] = h /\ sent'[c] = sent[c] + 1
      /\ \A d \in Channel : d # c => history'[d] = history[d] /\ sent'[d] = sent[d]
  BY <1>1, <1>2 DEF Histories
<1>4. ASSUME NEW d \in Channel PROVE Latest(history'[d], sent'[d])
  BY <1>1, <1>3 DEF Histories
<1>5. ASSUME NEW d \in Channel PROVE Latest(history[d], sent[d])'
  BY <1>4 DEF Latest
<1> QED
  BY <1>3, <1>5 DEF Histories, send_message

LEMMA KeptTables ==
    ASSUME Tables, UNCHANGED <<channels, players, players_channels>>
    PROVE  Tables'
  BY DEF Tables

LEMMA KeptHistories ==
    ASSUME Histories, UNCHANGED <<history, sent>>, MAX_HISTORY_COUNT' \in Limits
    PROVE  Histories'
  BY DEF Histories, Latest

LEMMA KeptAgents ==
    ASSUME Agents, UNCHANGED agentVars
    PROVE  Agents'
  BY DEF Agents, agentVars

LEMMA NextStep ==
    ASSUME IInv, Next
    PROVE  IInv'
<1>1. Tables /\ Histories /\ Agents
  BY Parts
<1> DEFINE Goal == Tables' /\ Histories' /\ Agents'
<1>2. ASSUME UNCHANGED chatVars PROVE Tables' /\ Histories'
  BY <1>1, <1>2, KeptTables, KeptHistories DEF chatVars, Histories
<1>3. ASSUME UNCHANGED <<history, sent, MAX_HISTORY_COUNT>> PROVE Histories'
  BY <1>1, <1>3, KeptHistories DEF Histories
<1>4. ASSUME NEW r \in Rid, NEW a \in Agent, enter(r, a) PROVE Goal
  <2>1. Agents'
    BY <1>1, <1>4, ChatAssumption DEF enter, Agents
  <2> QED
    BY <1>2, <1>4, <2>1 DEF enter
<1>5. ASSUME NEW r \in Rid, NEW c \in Channel, Joined(r, c) PROVE Goal
  <2>1. agent[r] \in Agent
    BY <1>1, <1>5 DEF Joined, Agents
  <2>2. Tables' /\ UNCHANGED <<history, sent, MAX_HISTORY_COUNT>>
    BY <1>1, <1>5, <2>1, JoinTables DEF Joined
  <2>3. Agents'
    BY <1>1, <1>5 DEF Joined, Agents
  <2> QED
    BY <1>3, <2>2, <2>3
<1>6. ASSUME NEW r \in Rid, NEW c \in Channel, chat_chat(r, c) PROVE Goal
  BY <1>1, <1>6, SendHistories, KeptTables, KeptAgents DEF chat_chat
<1>7. ASSUME NEW r \in Rid, NEW n \in Name, LeaveCalled(r, n) PROVE Goal
  <2>1. Tables' /\ UNCHANGED <<history, sent, MAX_HISTORY_COUNT>>
    BY <1>1, <1>7, LeaveTables DEF LeaveCalled
  <2>2. Agents'
    BY <1>1, <1>7 DEF LeaveCalled, Agents
  <2> QED
    BY <1>3, <2>1, <2>2
<1>8. ASSUME NEW r \in Rid, leave(r) \/ Left(r) PROVE Goal
  <2>1. Agents'
    BY <1>1, <1>8 DEF leave, Left, Agents
  <2> QED
    BY <1>2, <1>8, <2>1 DEF leave, Left
<1>9. ASSUME Other PROVE Goal
  <2>1. Agents'
    BY <1>1, <1>9, KeptAgents DEF Other
  <2>2. ASSUME NEW r \in Rid, NEW c \in Channel, leave_channel(r, c) PROVE Goal
    BY <1>1, <1>3, <2>1, <2>2, LeaveTables
  <2>3. ASSUME NEW r \in Rid, NEW a \in Agent, update_agent_addr(r, a) PROVE Goal
    BY <1>1, <1>3, <2>1, <2>3, UpdateTables
  <2>4. ASSUME NEW r \in Rid, leave_all(r) PROVE Goal
    BY <1>1, <1>3, <2>1, <2>4, LeaveAllTables
  <2>5. ASSUME NEW n \in Limits, set_config(n) PROVE Goal
    BY <1>1, <2>1, <2>5, KeptTables, KeptHistories DEF set_config
  <2>6. ASSUME cleanup_channels PROVE Goal
    BY <1>1, <1>3, <2>1, <2>6, CleanupTables
  <2> QED
    BY <1>9, <2>2, <2>3, <2>4, <2>5, <2>6 DEF Other
<1>10. Goal
  BY <1>4, <1>5, <1>6, <1>7, <1>8, <1>9 DEF Next, AgentsNext
<1>11. Goal => IInv'
  BY Parts, PTL
<1> QED
  BY <1>10, <1>11

-----------------------------------------------------------------------------
(* The theorems. *)

\* IInv holds in every state of the chat service and its agents.
THEOREM Invariance == Spec => []IInv
<1>1. Init => IInv
  <2>1. Init => Tables
    BY DEF Init, Tables, NoDup, InList
  <2>2. Init => Histories
    BY ChatAssumption DEF Init, Histories, Latest
  <2>3. Init => Agents
    BY DEF Init, Agents
  <2> QED
    BY <2>1, <2>2, <2>3, Parts
<1>2. IInv /\ [Next]_vars => IInv'
  <2> SUFFICES ASSUME IInv, UNCHANGED vars PROVE IInv'
    BY NextStep
  <2>1. Tables /\ Histories /\ Agents
    BY Parts
  <2>2. Tables' /\ Histories' /\ Agents'
    BY <2>1, KeptTables, KeptHistories, KeptAgents DEF vars, chatVars, Histories
  <2>3. Tables' /\ Histories' /\ Agents' => IInv'
    BY Parts, PTL
  <2> QED
    BY <2>2, <2>3
<1> QED
  BY <1>1, <1>2, PTL DEF Spec

\* The table of a channel's players and the lists of the roles' channels agree,
\* whichever commands ran on them.
THEOREM TablesAgree == Spec => []InSync
<1>1. IInv => InSync
  BY DEF IInv
<1> QED
  BY <1>1, Invariance, PTL

\* A history is the last messages of its channel, without a gap, and no longer
\* than the largest limit.
THEOREM KeepsLatest == Spec => []HistoryIsLatest
<1>1. IInv => HistoryIsLatest
  BY DEF IInv
<1> QED
  BY <1>1, Invariance, PTL
=============================================================================
