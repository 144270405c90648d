---------------------------- MODULE ArmiesProofs ----------------------------
(***************************************************************************)
(* Proofs about Armies, for every set of generals, armies, positions and   *)
(* recruits.  The rows of the armies are saved one by one and some of the  *)
(* statements fail, so the rows hold a mixture of older and newer armies;  *)
(* the invariant says that any row of it may stand beside any army of the  *)
(* table in memory, but for what the failures account for.                 *)
(***************************************************************************)
EXTENDS Armies, TLAPS

USE DEF Army

\* A table that holds less than the one in memory may take its place.
LEMMA Less ==
    ASSUME Versions, NEW u,
           \A o \in Order, p \in Position :
              /\ Who(u, o, p) \in {Who(armys, o, p), NoGeneral}
              /\ Men(u, o, p) \subseteq Men(armys, o, p)
    PROVE  /\ Apart(u, NoneStale, u, NoneStale)
           /\ Apart(armyRow, stale, u, NoneStale)
           /\ Free(u, stock)
<1>1. Apart(u, NoneStale, u, NoneStale)
  <2>1. Apart(armys, NoneStale, armys, NoneStale)
    BY DEF Versions
  <2> QED
    BY <2>1 DEF Apart
<1>2. Apart(armyRow, stale, u, NoneStale)
  <2>1. Apart(armyRow, stale, armys, NoneStale)
    BY DEF Versions
  <2> QED
    BY <2>1 DEF Apart
<1>3. Free(u, stock)
  BY DEF Versions, Free
<1> QED
  BY <1>1, <1>2, <1>3

\* What a request that saves the armies next has to show of the table it leaves.
LEMMA Request ==
    ASSUME IInv, saving = "nothing", saving' \in {"armys", "last"},
           UNCHANGED <<known, converted, armyRow, orderRow, convertRow, unpaid, stale, astray>>,
           order' \in [General -> Order \cup {NoOrder}],
           stock' \subseteq stock, stockRow' \subseteq Recruit, owed' \subseteq Recruit,
           stockRow' \ owed' \subseteq stock',
           armys' \in ArmyTable, Shape(armys)',
           Apart(armys', NoneStale, armys', NoneStale), Apart(armyRow, stale, armys', NoneStale),
           Free(armys', stock'),
           Serve(armyRow, armys', unpaid), Serve(armys', armys, unpaid)
    PROVE  IInv' /\ Serve(armys', armys, unpaid')
<1>0. TypeOK /\ Versions /\ Saves
  BY DEF IInv
<1>1. /\ known' = known /\ converted' = converted /\ armyRow' = armyRow /\ orderRow' = orderRow
      /\ convertRow' = convertRow /\ unpaid' = unpaid /\ stale' = stale /\ astray' = astray
  OBVIOUS
<1>2. TypeOK'
  BY <1>0, <1>1 DEF TypeOK
<1>3. Free(armyRow, stock)'
  BY <1>0, <1>1 DEF Versions, Free, Men
<1>4. Apart(armyRow, stale, armyRow, stale)' /\ Shape(armyRow)'
  BY <1>0, <1>1 DEF Versions, Apart, Shape, Who, Men
<1>5. /\ Apart(armys, NoneStale, armys, NoneStale)' /\ Apart(armyRow, stale, armys, NoneStale)'
  BY <1>1 DEF Apart, NoneStale, Who, Men
<1>6. Free(armys, stock)' /\ Serve(armyRow, armys, unpaid)'
  BY <1>1 DEF Free, Serve, Who, Men
<1>7. Versions'
  BY <1>3, <1>4, <1>5, <1>6 DEF Versions
<1>8. Saves'
  BY DEF Saves
<1> QED
  BY <1>1, <1>2, <1>7, <1>8 DEF IInv

-----------------------------------------------------------------------------
(* The initial state. *)

LEMMA InitIInv == ASSUME ArmiesAssumption, Init PROVE IInv
<1> USE DEF Init
<1>1. TypeOK
  BY DEF TypeOK, ArmyTable, NoTable, NoneStale
<1>2. \A o \in Order, p \in Position : Who(NoTable, o, p) = NoGeneral /\ Men(NoTable, o, p) = {}
  BY DEF Who, Men, NoTable
<1>3. \A o \in Order : NoTable[o] = NoArmy
  BY DEF NoTable
<1>4. Versions
  BY <1>2, <1>3 DEF Versions, Shape, Apart, Free, Serve
<1>5. Saves
  BY <1>2 DEF Saves
<1> QED
  BY <1>1, <1>4, <1>5 DEF IInv

-----------------------------------------------------------------------------
(* The requests. *)

\* Men only join when the check delivers them.
LEMMA Check ==
    ASSUME ArmiesAssumption, IInv, NEW done \in Done, checkArmyConscript(done)
    PROVE  IInv' /\ Serve(armys', armys, unpaid')
<1>0. /\ TypeOK /\ Versions /\ Saves /\ saving = "nothing" /\ saving' = "last"
      /\ armys' = [o \in Order |-> Delivered(armys[o], done[o])]
      /\ UNCHANGED <<order, known, converted, stock, rows, failures>>
  BY DEF IInv, checkArmyConscript
<1>1. ASSUME NEW o \in Order
      PROVE  /\ armys'[o] \in Army \cup {NoArmy}
             /\ armys[o] = NoArmy <=> armys'[o] = NoArmy
             /\ \A p \in Position :
                   /\ Who(armys', o, p) = Who(armys, o, p)
                   /\ Men(armys', o, p) = Men(armys, o, p)
                   /\ armys'[o] # NoArmy => Tidy(armys'[o], p, unpaid)
  <2> DEFINE a == armys[o]
             d == done[o]
             b == armys'[o]
  <2>0. a \in Army \cup {NoArmy} /\ d \in SUBSET Position
    BY <1>0 DEF TypeOK, Done, ArmyTable
  <2>1. b = Delivered(a, d)
    BY <1>0
  <2>2. CASE a = NoArmy \/ a.cmd # "conscript"
    <3>1. b = a
      BY <2>1, <2>2 DEF Delivered
    <3> QED
      BY <1>0, <2>0, <2>2, <3>1 DEF Who, Men, Versions, Shape
  <2>3. CASE a # NoArmy /\ a.cmd = "conscript"
    <3> DEFINE so == [p \in Position |->
                         IF p \in d THEN a.soldiers[p] \cup a.conscript_cnts[p] ELSE a.soldiers[p]]
               co == [p \in Position |-> IF p \in d THEN {} ELSE a.conscript_cnts[p]]
               cm == IF \A p \in Position : p \in d \/ a.conscript_cnts[p] = {}
                     THEN "idle" ELSE "conscript"
    <3>0. a \in Army
      BY <2>0, <2>3
    <3>1. b = [a EXCEPT !.soldiers = so, !.conscript_cnts = co, !.cmd = cm]
      BY <2>1, <2>3 DEF Delivered
    <3>2. so \in [Position -> SUBSET Recruit] /\ co \in [Position -> SUBSET Recruit]
            /\ cm \in {"idle", "conscript"}
      BY <3>0
    <3>3. \A p \in Position : a.soldiers[p] \cap a.conscript_cnts[p] \subseteq unpaid
      BY <1>0, <2>3 DEF Versions, Shape, Tidy
    <3>4. \A p \in Position :
             /\ so[p] \cup co[p] = a.soldiers[p] \cup a.conscript_cnts[p]
             /\ so[p] \cap co[p] \subseteq unpaid
             /\ cm # "conscript" => co[p] = {}
      BY <3>3
    <3> HIDE DEF so, co, cm
    <3>5. b \in Army /\ b.generals = a.generals /\ b.soldiers = so
            /\ b.conscript_cnts = co /\ b.cmd = cm
      BY <3>0, <3>1, <3>2
    <3>6. b # NoArmy
      BY <3>5, ArmiesAssumption
    <3> QED
      BY <2>3, <3>4, <3>5, <3>6 DEF Who, Men, Tidy
  <2> QED
    BY <2>2, <2>3
<1>2. armys' \in ArmyTable
  BY <1>0, <1>1 DEF ArmyTable
<1>3. UNCHANGED <<order, known, converted, stock, armyRow, orderRow, convertRow, stockRow,
                  owed, unpaid, stale, astray>>
  BY <1>0 DEF rows, failures
<1>4. Shape(armys)'
  BY <1>1, <1>3 DEF Shape
<1>5. /\ Apart(armys', NoneStale, armys', NoneStale) /\ Apart(armyRow, stale, armys', NoneStale)
      /\ Free(armys', stock)
  BY <1>0, <1>1, Less
<1>6. Serve(armyRow, armys', unpaid) /\ Serve(armys', armys, unpaid)
  BY <1>0, <1>1 DEF Versions, Serve
<1>7. stock \subseteq Recruit /\ stockRow \subseteq Recruit /\ owed \subseteq Recruit
        /\ stockRow \ owed \subseteq stock /\ order \in [General -> Order \cup {NoOrder}]
  BY <1>0 DEF TypeOK, Saves
<1>8. Free(armys', stock')
  BY <1>3, <1>5
<1> QED
  BY <1>0, <1>2, <1>3, <1>4, <1>5, <1>6, <1>7, <1>8, Request

\* The two forms in which getArmy leaves a new army hold nobody.
LEMMA New ==
    ASSUME ArmiesAssumption, NEW a \in {NewArmy, [NewArmy EXCEPT !.cmd = "no id"]}
    PROVE  /\ a \in Army /\ a # NoArmy
           /\ \A p \in Position :
                 a.generals[p] = NoGeneral /\ a.soldiers[p] = {} /\ a.conscript_cnts[p] = {}
<1>1. NewArmy \in Army
  BY DEF NewArmy
<1>2. a \in Army
  BY <1>1
<1>3. a # NoArmy
  BY <1>2, ArmiesAssumption
<1>4. a.generals = NewArmy.generals /\ a.soldiers = NewArmy.soldiers
        /\ a.conscript_cnts = NewArmy.conscript_cnts
  BY <1>1
<1> QED
  BY <1>2, <1>3, <1>4 DEF NewArmy

LEMMA Created ==
    ASSUME ArmiesAssumption, IInv, NEW o \in Order, getArmy(o)
    PROVE  IInv' /\ Serve(armys', armys, unpaid')
<1>0. /\ TypeOK /\ Versions /\ Saves /\ saving = "nothing" /\ armys[o] = NoArmy
      /\ UNCHANGED <<order, known, converted, stock, orderRow, convertRow, stockRow, saving,
                     owed, unpaid, stale, astray>>
  BY DEF IInv, getArmy, failures
<1>1. PICK a \in {NewArmy, [NewArmy EXCEPT !.cmd = "no id"]} :
         /\ armys' = [armys EXCEPT ![o] = a]
         /\ \/ armyRow' = [armyRow EXCEPT ![o] = a]
            \/ armyRow' = armyRow
  BY DEF getArmy
<1>2. /\ a \in Army /\ a # NoArmy
      /\ \A p \in Position :
            a.generals[p] = NoGeneral /\ a.soldiers[p] = {} /\ a.conscript_cnts[p] = {}
  BY <1>1, New
<1>3. armys \in ArmyTable /\ armyRow \in ArmyTable
  BY <1>0 DEF TypeOK
<1>4. /\ \A k \in Order : armys'[k] = IF k = o THEN a ELSE armys[k]
      /\ \A k \in Order : armyRow'[k] = armyRow[k] \/ (k = o /\ armyRow'[k] = a)
  BY <1>1, <1>3 DEF ArmyTable
<1>5. armys' \in ArmyTable /\ armyRow' \in ArmyTable
  <2>1. ASSUME NEW t \in ArmyTable PROVE [t EXCEPT ![o] = a] \in ArmyTable
    BY <1>2 DEF ArmyTable
  <2> QED
    BY <1>1, <1>3, <2>1
<1>6. \A k \in Order, p \in Position :
         Who(armys', k, p) = Who(armys, k, p) /\ Men(armys', k, p) = Men(armys, k, p)
  BY <1>0, <1>2, <1>4 DEF Who, Men
<1>7. \A k \in Order, p \in Position :
         \/ Who(armyRow', k, p) = Who(armyRow, k, p) /\ Men(armyRow', k, p) = Men(armyRow, k, p)
         \/ Who(armyRow', k, p) = NoGeneral /\ Men(armyRow', k, p) = {}
  BY <1>2, <1>4 DEF Who, Men
<1>8. TypeOK'
  BY <1>0, <1>5 DEF TypeOK
<1>v. /\ Shape(armys) /\ Shape(armyRow)
      /\ Apart(armys, NoneStale, armys, NoneStale) /\ Apart(armyRow, stale, armys, NoneStale)
      /\ Apart(armyRow, stale, armyRow, stale) /\ Serve(armyRow, armys, unpaid)
  BY <1>0 DEF Versions
<1>u. unpaid' = unpaid /\ astray' = astray /\ stale' = stale
  BY <1>0
<1>9. Shape(armys)' /\ Shape(armyRow)'
  <2>1. \A p \in Position : Tidy(a, p, unpaid)
    BY <1>2 DEF Tidy
  <2> QED
    BY <1>u, <1>v, <1>4, <2>1 DEF Shape
<1>10. Apart(armys, NoneStale, armys, NoneStale)'
  <2>1. Apart(armys', NoneStale, armys', NoneStale)
    BY <1>0, <1>6, Less
  <2>2. \A k \in Order, p \in Position :
           Who(armys, k, p)' = Who(armys', k, p) /\ Men(armys, k, p)' = Men(armys', k, p)
    BY DEF Who, Men
  <2> QED
    BY <1>u, <2>1, <2>2 DEF Apart, NoneStale
<1>11. Apart(armyRow, stale, armys, NoneStale)'
  <2>1. Apart(armyRow, stale, armys', NoneStale)
    BY <1>0, <1>6, Less
  <2>2. Apart(armyRow', stale, armys', NoneStale)
    BY <1>7, <2>1 DEF Apart
  <2> QED
    BY <1>u, <2>2 DEF Apart, NoneStale
<1>12. Apart(armyRow, stale, armyRow, stale)'
  <2>1. Apart(armyRow', stale, armyRow', stale)
    <3> SUFFICES ASSUME NEW k \in Order, NEW n \in Order, NEW p \in Position, NEW q \in Position,
                        k # n \/ p # q
                 PROVE  /\ Who(armyRow', k, p) = Who(armyRow', n, q) =>
                              Who(armyRow', k, p) \in {NoGeneral} \cup astray \cup stale[k] \cup stale[n]
                        /\ Men(armyRow', k, p) \cap Men(armyRow', n, q) \subseteq unpaid
      BY DEF Apart
    <3>1. /\ Who(armyRow, k, p) = Who(armyRow, n, q) =>
                Who(armyRow, k, p) \in {NoGeneral} \cup astray \cup stale[k] \cup stale[n]
          /\ Men(armyRow, k, p) \cap Men(armyRow, n, q) \subseteq unpaid
      BY <1>v DEF Apart
    <3>2. CASE Who(armyRow', k, p) = NoGeneral /\ Men(armyRow', k, p) = {}
      BY <3>2
    <3>3. CASE Who(armyRow', n, q) = NoGeneral /\ Men(armyRow', n, q) = {}
      BY <3>3
    <3>4. CASE /\ Who(armyRow', k, p) = Who(armyRow, k, p) /\ Men(armyRow', k, p) = Men(armyRow, k, p)
               /\ Who(armyRow', n, q) = Who(armyRow, n, q) /\ Men(armyRow', n, q) = Men(armyRow, n, q)
      BY <3>1, <3>4
    <3> QED
      BY <1>7, <3>2, <3>3, <3>4
  <2> QED
    BY <1>u, <2>1 DEF Apart
<1>13. Free(armys, stock)' /\ Free(armyRow, stock)'
  BY <1>0, <1>6, <1>7 DEF Versions, Free
<1>14. Serve(armyRow, armys, unpaid)'
  <2> SUFFICES ASSUME NEW k \in Order, NEW p \in Position,
                      armyRow'[k] # NoArmy, armys'[k] # NoArmy
               PROVE  \/ Who(armyRow', k, p) = Who(armys', k, p)
                      \/ armyRow'[k].soldiers[p] \cap Men(armys', k, p) \subseteq unpaid
    BY <1>0 DEF Serve
  <2>1. CASE k = o
    BY <2>1, <1>0, <1>6 DEF Men
  <2>2. CASE k # o
    <3>1. armyRow'[k] = armyRow[k] /\ armys'[k] = armys[k]
      BY <2>2, <1>4
    <3>2. Who(armyRow', k, p) = Who(armyRow, k, p)
      BY <3>1 DEF Who
    <3> QED
      BY <3>1, <3>2, <1>v, <1>6 DEF Serve
  <2> QED
    BY <2>1, <2>2
<1>15. Saves'
  BY <1>0, <1>6, <1>7 DEF Saves
<1>16. Serve(armys', armys, unpaid')
  BY <1>6 DEF Serve
<1> QED
  BY <1>8, <1>9, <1>10, <1>11, <1>12, <1>13, <1>14, <1>15, <1>16 DEF IInv, Versions

LEMMA Down ==
    ASSUME ArmiesAssumption, IInv, NEW o \in Order, NEW g \in General, armyGeneralDown(o, g)
    PROVE  IInv' /\ Serve(armys', armys, unpaid')
<1>0. /\ TypeOK /\ Versions /\ Saves /\ saving = "nothing" /\ saving' = "armys"
      /\ armys[o] # NoArmy
      /\ UNCHANGED <<known, converted, stock, armyRow, orderRow, convertRow, stockRow,
                     owed, unpaid, stale, astray>>
  BY DEF IInv, armyGeneralDown, rows, failures
<1>1. PICK p \in Position : armys' = [armys EXCEPT ![o].generals[p] = NoGeneral,
                                                   ![o].soldiers[p] = {},
                                                   ![o].conscript_cnts[p] = {}]
  BY DEF armyGeneralDown
<1>u. unpaid' = unpaid /\ astray' = astray /\ stale' = stale
  BY <1>0
<1>2. armys \in ArmyTable /\ armys[o] \in Army
  BY <1>0 DEF TypeOK, ArmyTable
<1> DEFINE a == [armys[o] EXCEPT !.generals[p] = NoGeneral, !.soldiers[p] = {},
                                 !.conscript_cnts[p] = {}]
<1>3. /\ a \in Army /\ a.cmd = armys[o].cmd
      /\ \A q \in Position :
            /\ a.generals[q] = IF q = p THEN NoGeneral ELSE armys[o].generals[q]
            /\ a.soldiers[q] = IF q = p THEN {} ELSE armys[o].soldiers[q]
            /\ a.conscript_cnts[q] = IF q = p THEN {} ELSE armys[o].conscript_cnts[q]
  BY <1>2
<1>4. a # NoArmy
  BY <1>3, ArmiesAssumption
<1>5. \A k \in Order : armys'[k] = IF k = o THEN a ELSE armys[k]
  BY <1>1, <1>2 DEF ArmyTable
<1>6. armys' \in ArmyTable
  BY <1>1, <1>2, <1>3, <1>5 DEF ArmyTable
<1> HIDE DEF a
<1>7. \A k \in Order, q \in Position :
         /\ Who(armys', k, q) \in {Who(armys, k, q), NoGeneral}
         /\ Men(armys', k, q) \subseteq Men(armys, k, q)
  BY <1>0, <1>3, <1>4, <1>5 DEF Who, Men
<1>8. /\ Apart(armys', NoneStale, armys', NoneStale) /\ Apart(armyRow, stale, armys', NoneStale)
      /\ Free(armys', stock)
  BY <1>0, <1>7, Less
<1>9. Free(armys', stock')
  BY <1>0, <1>8
<1>10. Shape(armys)'
  <2>1. Shape(armys)
    BY <1>0 DEF Versions
  <2>2. \A q \in Position : Tidy(a, q, unpaid)
    BY <1>0, <1>3, <2>1 DEF Shape, Tidy
  <2> QED
    BY <1>0, <1>u, <1>5, <2>1, <2>2 DEF Shape
<1>11. \A k \in Order, q \in Position :
          \/ Who(armys', k, q) = Who(armys, k, q) /\ Men(armys', k, q) \subseteq Men(armys, k, q)
          \/ armys'[k].soldiers[q] = {} /\ Men(armys', k, q) = {}
  BY <1>0, <1>3, <1>4, <1>5, <1>7 DEF Who, Men
<1>12. \A k \in Order : armys'[k] = NoArmy <=> armys[k] = NoArmy
  BY <1>0, <1>4, <1>5
<1>13. Serve(armyRow, armys', unpaid)
  BY <1>0, <1>11, <1>12 DEF Versions, Serve
<1>14. Serve(armys', armys, unpaid)
  BY <1>11 DEF Serve
<1>15. order' \in [General -> Order \cup {NoOrder}]
  BY <1>0 DEF TypeOK, armyGeneralDown
<1>16. stockRow \subseteq Recruit /\ owed \subseteq Recruit /\ stockRow \ owed \subseteq stock
  BY <1>0 DEF TypeOK, Saves
<1> QED
  BY <1>0, <1>6, <1>8, <1>9, <1>10, <1>13, <1>14, <1>15, <1>16, Request

LEMMA Up ==
    ASSUME ArmiesAssumption, IInv, NEW o \in Order, NEW g \in General, armyGeneralUp(o, g)
    PROVE  IInv' /\ Serve(armys', armys, unpaid')
<1>0. /\ TypeOK /\ Versions /\ Saves /\ saving = "nothing" /\ saving' = "armys"
      /\ armys[o] # NoArmy /\ ~generalIsInArmy(g)
      /\ UNCHANGED <<known, converted, stock, armyRow, orderRow, convertRow, stockRow,
                     owed, unpaid, stale, astray>>
  BY DEF IInv, armyGeneralUp, rows, failures
<1>1. PICK p \in Position : /\ armyCanModify(armys[o], p)
                            /\ armys' = [armys EXCEPT ![o].generals[p] = g, ![o].soldiers[p] = {}]
  BY DEF armyGeneralUp
<1>u. unpaid' = unpaid /\ astray' = astray /\ stale' = stale
  BY <1>0
<1>2. armys \in ArmyTable /\ armys[o] \in Army
  BY <1>0 DEF TypeOK, ArmyTable
<1> DEFINE a == [armys[o] EXCEPT !.generals[p] = g, !.soldiers[p] = {}]
<1>3. /\ a \in Army /\ a.cmd = armys[o].cmd /\ a.conscript_cnts = armys[o].conscript_cnts
      /\ \A q \in Position :
            /\ a.generals[q] = IF q = p THEN g ELSE armys[o].generals[q]
            /\ a.soldiers[q] = IF q = p THEN {} ELSE armys[o].soldiers[q]
  BY <1>2
<1>4. a # NoArmy
  BY <1>3, ArmiesAssumption
<1>5. \A k \in Order : armys'[k] = IF k = o THEN a ELSE armys[k]
  BY <1>1, <1>2 DEF ArmyTable
<1>6. armys' \in ArmyTable
  BY <1>1, <1>2, <1>3, <1>5 DEF ArmyTable
<1> HIDE DEF a
<1>7. a.conscript_cnts[p] = {}
  BY <1>0, <1>1, <1>3 DEF Versions, Shape, Tidy, armyCanModify
<1>8. \A k \in Order, q \in Position :
         /\ Who(armys', k, q) = IF k = o /\ q = p THEN g ELSE Who(armys, k, q)
         /\ Men(armys', k, q) = IF k = o /\ q = p THEN {} ELSE Men(armys, k, q)
  BY <1>0, <1>3, <1>4, <1>5, <1>7 DEF Who, Men
<1>9. \A k \in Order, q \in Position : Who(armys, k, q) # g
  BY <1>0 DEF generalIsInArmy
<1>10. \A k \in Order, q \in Position : Who(armyRow, k, q) = g => g \in {NoGeneral} \cup stale[k]
  BY <1>0, <1>9 DEF Saves
<1>11. Apart(armys', NoneStale, armys', NoneStale)
  <2>1. Apart(armys, NoneStale, armys, NoneStale)
    BY <1>0 DEF Versions
  <2>2. \A k \in Order, q \in Position : Men(armys', k, q) \subseteq Men(armys, k, q)
    BY <1>8
  <2>3. ASSUME NEW k \in Order, NEW n \in Order, NEW q \in Position, NEW r \in Position,
               k # n \/ q # r, Who(armys', k, q) = Who(armys', n, r)
        PROVE  Who(armys', k, q) = Who(armys, k, q) /\ Who(armys', n, r) = Who(armys, n, r)
    <3>1. Who(armys', k, q) = IF k = o /\ q = p THEN g ELSE Who(armys, k, q)
      BY <1>8
    <3>2. Who(armys', n, r) = IF n = o /\ r = p THEN g ELSE Who(armys, n, r)
      BY <1>8
    <3> QED
      BY <2>3, <3>1, <3>2, <1>9
  <2>4. \A k, n \in Order, q, r \in Position : k # n \/ q # r =>
           /\ Who(armys', k, q) = Who(armys', n, r) =>
                 Who(armys', k, q) \in {NoGeneral} \cup astray \cup NoneStale[k] \cup NoneStale[n]
           /\ Men(armys', k, q) \cap Men(armys', n, r) \subseteq unpaid
    <3> SUFFICES ASSUME NEW k \in Order, NEW n \in Order, NEW q \in Position, NEW r \in Position,
                        k # n \/ q # r
                 PROVE  /\ Who(armys', k, q) = Who(armys', n, r) =>
                              Who(armys', k, q) \in
                                 {NoGeneral} \cup astray \cup NoneStale[k] \cup NoneStale[n]
                        /\ Men(armys', k, q) \cap Men(armys', n, r) \subseteq unpaid
      OBVIOUS
    <3>1. /\ Who(armys, k, q) = Who(armys, n, r) =>
                Who(armys, k, q) \in {NoGeneral} \cup astray \cup NoneStale[k] \cup NoneStale[n]
          /\ Men(armys, k, q) \cap Men(armys, n, r) \subseteq unpaid
      BY <2>1 DEF Apart
    <3>2. Men(armys', k, q) \subseteq Men(armys, k, q) /\ Men(armys', n, r) \subseteq Men(armys, n, r)
      BY <2>2
    <3> QED
      <4>1. Who(armys', k, q) = Who(armys', n, r) =>
               Who(armys', k, q) = Who(armys, k, q) /\ Who(armys', n, r) = Who(armys, n, r)
        BY <2>3
      <4>2. Men(armys', k, q) \cap Men(armys', n, r) \subseteq unpaid
        BY <3>1, <3>2
      <4>3. Who(armys', k, q) = Who(armys', n, r) =>
               Who(armys', k, q) \in {NoGeneral} \cup astray \cup NoneStale[k] \cup NoneStale[n]
        BY <3>1, <4>1
      <4> QED
        BY <4>2, <4>3
  <2> QED
    BY <2>4 DEF Apart
<1>12. Apart(armyRow, stale, armys', NoneStale)
  <2>1. Apart(armyRow, stale, armys, NoneStale)
    BY <1>0 DEF Versions
  <2>2. \A k \in Order, q \in Position :
           /\ Who(armys', k, q) \in {g, Who(armys, k, q)}
           /\ Men(armys', k, q) \subseteq Men(armys, k, q)
    BY <1>8
  <2>3. \A k \in Order, q \in Position :
           Who(armyRow, k, q) = g => Who(armyRow, k, q) \in {NoGeneral} \cup stale[k]
    BY <1>10
  <2>4. ASSUME NEW k \in Order, NEW n \in Order, NEW q \in Position, NEW r \in Position,
               k # n \/ q # r
        PROVE  /\ Who(armyRow, k, q) = Who(armys', n, r) =>
                     Who(armyRow, k, q) \in {NoGeneral} \cup astray \cup stale[k] \cup NoneStale[n]
               /\ Men(armyRow, k, q) \cap Men(armys', n, r) \subseteq unpaid
    <3>1. /\ Who(armyRow, k, q) = Who(armys, n, r) =>
                Who(armyRow, k, q) \in {NoGeneral} \cup astray \cup stale[k] \cup NoneStale[n]
          /\ Men(armyRow, k, q) \cap Men(armys, n, r) \subseteq unpaid
      BY <2>1, <2>4 DEF Apart
    <3>2. Who(armys', n, r) = g \/ Who(armys', n, r) = Who(armys, n, r)
      BY <2>2
    <3>3. Men(armys', n, r) \subseteq Men(armys, n, r)
      BY <2>2
    <3> QED
      BY <3>1, <3>2, <3>3, <2>3
  <2> QED
    BY <2>4 DEF Apart
<1>13. Free(armys', stock')
  BY <1>0, <1>8 DEF Versions, Free
<1>14. Shape(armys)'
  <2>1. Shape(armys)
    BY <1>0 DEF Versions
  <2>2. \A q \in Position : Tidy(a, q, unpaid)
    BY <1>0, <1>3, <2>1 DEF Shape, Tidy
  <2> QED
    BY <1>0, <1>u, <1>5, <2>1, <2>2 DEF Shape
<1>15. \A k \in Order, q \in Position :
          \/ Who(armys', k, q) = Who(armys, k, q) /\ Men(armys', k, q) = Men(armys, k, q)
          \/ armys'[k].soldiers[q] = {} /\ Men(armys', k, q) = {}
  BY <1>3, <1>5, <1>8
<1>16. \A k \in Order : armys'[k] = NoArmy <=> armys[k] = NoArmy
  BY <1>0, <1>4, <1>5
<1>17. Serve(armyRow, armys', unpaid)
  BY <1>0, <1>15, <1>16 DEF Versions, Serve
<1>18. Serve(armys', armys, unpaid)
  BY <1>15 DEF Serve
<1>19. order' \in [General -> Order \cup {NoOrder}]
  BY <1>0 DEF TypeOK, armyGeneralUp
<1>20. stockRow \subseteq Recruit /\ owed \subseteq Recruit /\ stockRow \ owed \subseteq stock
  BY <1>0 DEF TypeOK, Saves
<1> QED
  BY <1>0, <1>6, <1>11, <1>12, <1>13, <1>14, <1>17, <1>18, <1>19, <1>20, Request

LEMMA Conscript ==
    ASSUME ArmiesAssumption, IInv, NEW o \in Order, NEW cnts \in [Position -> SUBSET stock],
           army_conscript(o, cnts)
    PROVE  IInv' /\ Serve(armys', armys, unpaid')
<1>0. /\ TypeOK /\ Versions /\ Saves /\ saving = "nothing" /\ saving' = "last"
      /\ armys[o] # NoArmy
      /\ UNCHANGED <<order, known, converted, armyRow, orderRow, convertRow, unpaid, stale, astray>>
      /\ \A p, q \in Position : p # q => cnts[p] \cap cnts[q] = {}
      /\ stock' = stock \ UNION {cnts[p] : p \in Position}
      /\ armys' = [armys EXCEPT
                      ![o].conscript_cnts = [p \in Position |->
                          IF cnts[p] # {} THEN cnts[p] ELSE armys[o].conscript_cnts[p]],
                      ![o].cmd = "conscript"]
  BY DEF IInv, army_conscript
<1>u. unpaid' = unpaid /\ astray' = astray /\ stale' = stale
  BY <1>0
<1>1. stock' \subseteq stock /\ stockRow' \subseteq Recruit /\ owed' \subseteq Recruit
        /\ stockRow' \ owed' \subseteq stock'
  BY <1>0 DEF army_conscript, SaveStock, TypeOK
<1>2. armys \in ArmyTable /\ armys[o] \in Army
  BY <1>0 DEF TypeOK, ArmyTable
<1> DEFINE c == [p \in Position |-> IF cnts[p] # {} THEN cnts[p] ELSE armys[o].conscript_cnts[p]]
<1>3. \A p \in Position : cnts[p] \subseteq stock /\ cnts[p] \subseteq Recruit
  BY <1>0 DEF TypeOK
<1>4. c \in [Position -> SUBSET Recruit]
  BY <1>2, <1>3
<1>5. \A p \in Position : c[p] = IF cnts[p] # {} THEN cnts[p] ELSE armys[o].conscript_cnts[p]
  OBVIOUS
<1>6. armys' = [armys EXCEPT ![o].conscript_cnts = c, ![o].cmd = "conscript"]
  BY <1>0
<1> HIDE DEF c
<1> DEFINE a == [armys[o] EXCEPT !.conscript_cnts = c, !.cmd = "conscript"]
<1>7. /\ a \in Army /\ a.cmd = "conscript" /\ a.conscript_cnts = c
      /\ a.generals = armys[o].generals /\ a.soldiers = armys[o].soldiers
  BY <1>2, <1>4
<1>8. a # NoArmy
  BY <1>7, ArmiesAssumption
<1>9. \A k \in Order : armys'[k] = IF k = o THEN a ELSE armys[k]
  BY <1>2, <1>6 DEF ArmyTable
<1>10. armys' \in ArmyTable
  BY <1>2, <1>6, <1>7, <1>9 DEF ArmyTable
<1> HIDE DEF a
<1>11. \A k \in Order, q \in Position :
          /\ Who(armys', k, q) = Who(armys, k, q)
          /\ Men(armys', k, q) \subseteq
                IF k = o THEN Men(armys, k, q) \cup cnts[q] ELSE Men(armys, k, q)
  <2>1. \A q \in Position : c[q] \subseteq armys[o].conscript_cnts[q] \cup cnts[q]
    BY <1>5
  <2>2. \A q \in Position : Who(armys', o, q) = a.generals[q]
                             /\ Men(armys', o, q) = a.soldiers[q] \cup a.conscript_cnts[q]
    BY <1>8, <1>9 DEF Who, Men
  <2>3. \A q \in Position : Who(armys, o, q) = armys[o].generals[q]
                             /\ Men(armys, o, q) = armys[o].soldiers[q] \cup armys[o].conscript_cnts[q]
    BY <1>0 DEF Who, Men
  <2>4. \A q \in Position : /\ Who(armys', o, q) = Who(armys, o, q)
                             /\ Men(armys', o, q) \subseteq Men(armys, o, q) \cup cnts[q]
    BY <1>7, <2>1, <2>2, <2>3
  <2>5. \A k \in Order, q \in Position : k # o =>
           Who(armys', k, q) = Who(armys, k, q) /\ Men(armys', k, q) = Men(armys, k, q)
    BY <1>9 DEF Who, Men
  <2> QED
    BY <2>4, <2>5
<1>12. \A k \in Order, p, q \in Position :
          /\ Men(armys, k, p) \cap cnts[q] \subseteq unpaid
          /\ Men(armyRow, k, p) \cap cnts[q] \subseteq unpaid
  BY <1>0, <1>3 DEF Versions, Free
<1>13. Apart(armys', NoneStale, armys', NoneStale)
  <2>1. Apart(armys, NoneStale, armys, NoneStale)
    BY <1>0 DEF Versions
  <2>2. \A p, q \in Position : p # q => cnts[p] \cap cnts[q] = {}
    BY <1>0
  <2>3. \A k, n \in Order, p, q \in Position : k # n \/ p # q =>
           Men(armys', k, p) \cap Men(armys', n, q) \subseteq unpaid
    <3> SUFFICES ASSUME NEW k \in Order, NEW n \in Order, NEW p \in Position, NEW q \in Position,
                        k # n \/ p # q
                 PROVE  Men(armys', k, p) \cap Men(armys', n, q) \subseteq unpaid
      OBVIOUS
    <3>1. Men(armys, k, p) \cap Men(armys, n, q) \subseteq unpaid
      BY <2>1 DEF Apart
    <3>2. CASE k = o /\ n = o
      BY <3>1, <3>2, <1>11, <1>12, <2>2
    <3>3. CASE k = o /\ n # o
      BY <3>1, <3>3, <1>11, <1>12
    <3>4. CASE k # o /\ n = o
      BY <3>1, <3>4, <1>11, <1>12
    <3>5. CASE k # o /\ n # o
      BY <3>1, <3>5, <1>11
    <3> QED
      BY <3>2, <3>3, <3>4, <3>5
  <2>4. \A k \in Order, q \in Position : Who(armys', k, q) = Who(armys, k, q)
    BY <1>11
  <2> QED
    <3>1. ASSUME NEW k \in Order, NEW n \in Order, NEW p \in Position, NEW q \in Position,
                 k # n \/ p # q, Who(armys', k, p) = Who(armys', n, q)
          PROVE  Who(armys', k, p) \in {NoGeneral} \cup astray \cup NoneStale[k] \cup NoneStale[n]
      <4>1. Who(armys, k, p) = Who(armys, n, q) /\ Who(armys', k, p) = Who(armys, k, p)
        BY <2>4, <3>1
      <4> QED
        BY <2>1, <3>1, <4>1 DEF Apart
    <3> QED
      BY <3>1, <2>3 DEF Apart
<1>14. Apart(armyRow, stale, armys', NoneStale)
  <2>1. Apart(armyRow, stale, armys, NoneStale)
    BY <1>0 DEF Versions
  <2> QED
    BY <2>1, <1>11, <1>12 DEF Apart
<1>15. Free(armys', stock')
  <2>1. \A q \in Position : cnts[q] \cap stock' = {} /\ stock' \subseteq stock
    BY <1>0
  <2>2. Free(armys, stock)
    BY <1>0 DEF Versions
  <2> QED
    BY <1>0, <1>11, <2>1, <2>2 DEF Free
<1>16. Shape(armys)'
  <2>1. ASSUME NEW q \in Position PROVE a.soldiers[q] \cap a.conscript_cnts[q] \subseteq unpaid
    <3>1. armys[o].soldiers[q] \cap armys[o].conscript_cnts[q] \subseteq unpaid
      BY <1>0 DEF Versions, Shape, Tidy
    <3>2. armys[o].soldiers[q] \cap cnts[q] \subseteq unpaid
      BY <1>0, <1>12 DEF Men
    <3> QED
      BY <1>5, <1>7, <3>1, <3>2
  <2>2. Shape(armys)
    BY <1>0 DEF Versions
  <2>3. \A q \in Position : Tidy(a, q, unpaid)
    BY <1>7, <2>1 DEF Tidy
  <2> QED
    BY <1>0, <1>u, <1>9, <2>2, <2>3 DEF Shape
<1>17. \A k \in Order : armys'[k] = NoArmy <=> armys[k] = NoArmy
  BY <1>0, <1>8, <1>9
<1>18. Serve(armyRow, armys', unpaid)
  <2> SUFFICES ASSUME NEW k \in Order, NEW q \in Position, armyRow[k] # NoArmy, armys'[k] # NoArmy
               PROVE  \/ Who(armyRow, k, q) = Who(armys', k, q)
                      \/ armyRow[k].soldiers[q] \cap Men(armys', k, q) \subseteq unpaid
    BY DEF Serve
  <2>1. \/ Who(armyRow, k, q) = Who(armys, k, q)
        \/ armyRow[k].soldiers[q] \cap Men(armys, k, q) \subseteq unpaid
    BY <1>0, <1>17 DEF Versions, Serve
  <2>2. armyRow[k].soldiers[q] \cap cnts[q] \subseteq unpaid
    BY <1>12 DEF Men
  <2> QED
    BY <1>11, <2>1, <2>2
<1>19. Serve(armys', armys, unpaid)
  BY <1>11 DEF Serve
<1>20. order' \in [General -> Order \cup {NoOrder}]
  BY <1>0 DEF TypeOK
<1> QED
  BY <1>0, <1>1, <1>10, <1>13, <1>14, <1>15, <1>16, <1>18, <1>19, <1>20, Request

-----------------------------------------------------------------------------
(* The database. *)

\* Nothing but the generals' rows and the stage of the save changes.
LEMMA Generals ==
    ASSUME IInv, (\E g \in General : general_convert(g)) \/ GeneralsSaved
    PROVE  IInv' /\ UNCHANGED armys
<1>0. TypeOK /\ Versions /\ Saves
  BY DEF IInv
<1>1. /\ UNCHANGED <<armys, order, known, stock, armyRow, stockRow, owed, unpaid, stale, astray>>
      /\ converted' \in SUBSET General
      /\ saving' = saving \/ saving' = "last"
      /\ \E written \in SUBSET General : SaveGenerals(written)
  BY <1>0 DEF general_convert, GeneralsSaved, memory, failures, TypeOK
<1>2. TypeOK'
  BY <1>0, <1>1 DEF TypeOK, SaveGenerals
<1>3. Versions'
  BY <1>0, <1>1 DEF Versions, Shape, Apart, Free, Serve, Who, Men
<1>4. Saves'
  BY <1>0, <1>1 DEF Saves, Who
<1> QED
  BY <1>1, <1>2, <1>3, <1>4 DEF IInv

\* The row of one army is as in memory again.
LEMMA Row ==
    ASSUME IInv, NEW o \in Order, SaveArmy(o)
    PROVE  IInv' /\ UNCHANGED armys
<1>0. /\ TypeOK /\ Versions /\ Saves /\ saving \in {"armys", "last"}
      /\ armyRow' = [armyRow EXCEPT ![o] = armys[o]] /\ stale' = [stale EXCEPT ![o] = {}]
      /\ UNCHANGED <<armys, order, known, converted, stock, orderRow, convertRow, stockRow, saving,
                     owed, unpaid, astray>>
  BY DEF IInv, SaveArmy, memory
<1>u. unpaid' = unpaid /\ astray' = astray /\ armys' = armys
  BY <1>0
<1>1. armyRow \in ArmyTable /\ armys \in ArmyTable /\ stale \in [Order -> SUBSET General]
  BY <1>0 DEF TypeOK
<1>2. \A k \in Order : armyRow'[k] = IF k = o THEN armys[k] ELSE armyRow[k]
  BY <1>0, <1>1 DEF ArmyTable
<1>3. \A k \in Order, p \in Position :
         /\ Who(armyRow', k, p) = IF k = o THEN Who(armys, k, p) ELSE Who(armyRow, k, p)
         /\ Men(armyRow', k, p) = IF k = o THEN Men(armys, k, p) ELSE Men(armyRow, k, p)
  BY <1>2 DEF Who, Men
<1>4. \A k \in Order : stale'[k] = IF k = o THEN {} ELSE stale[k]
  BY <1>0, <1>1
<1>5. armyRow' \in ArmyTable /\ stale' \in [Order -> SUBSET General]
  BY <1>0, <1>1 DEF ArmyTable
<1>6. TypeOK'
  BY <1>0, <1>5 DEF TypeOK
<1>7. /\ Apart(armys, NoneStale, armys, NoneStale) /\ Apart(armyRow, stale, armys, NoneStale)
      /\ Apart(armyRow, stale, armyRow, stale)
  BY <1>0 DEF Versions
<1>8. Apart(armyRow', stale', armys, NoneStale)
  <2> SUFFICES ASSUME NEW k \in Order, NEW n \in Order, NEW p \in Position, NEW q \in Position,
                      k # n \/ p # q
               PROVE  /\ Who(armyRow', k, p) = Who(armys, n, q) =>
                            Who(armyRow', k, p) \in
                               {NoGeneral} \cup astray \cup stale'[k] \cup NoneStale[n]
                      /\ Men(armyRow', k, p) \cap Men(armys, n, q) \subseteq unpaid
    BY <1>0 DEF Apart
  <2>1. CASE k = o
    BY <2>1, <1>3, <1>7 DEF Apart, NoneStale
  <2>2. CASE k # o
    BY <2>2, <1>3, <1>4, <1>7 DEF Apart
  <2> QED
    BY <2>1, <2>2
<1>9. Apart(armyRow', stale', armyRow', stale')
  <2> SUFFICES ASSUME NEW k \in Order, NEW n \in Order, NEW p \in Position, NEW q \in Position,
                      k # n \/ p # q
               PROVE  /\ Who(armyRow', k, p) = Who(armyRow', n, q) =>
                            Who(armyRow', k, p) \in {NoGeneral} \cup astray \cup stale'[k] \cup stale'[n]
                      /\ Men(armyRow', k, p) \cap Men(armyRow', n, q) \subseteq unpaid
    BY <1>0 DEF Apart
  <2>1. CASE n = o
    <3>1. /\ Who(armyRow', k, p) = Who(armys, n, q) =>
                Who(armyRow', k, p) \in {NoGeneral} \cup astray \cup stale'[k]
          /\ Men(armyRow', k, p) \cap Men(armys, n, q) \subseteq unpaid
      BY <1>0, <1>8 DEF Apart, NoneStale
    <3> QED
      BY <2>1, <3>1, <1>3
  <2>2. CASE n # o /\ k = o
    <3>1. /\ Who(armyRow, n, q) = Who(armys, k, p) =>
                Who(armyRow, n, q) \in {NoGeneral} \cup astray \cup stale[n]
          /\ Men(armyRow, n, q) \cap Men(armys, k, p) \subseteq unpaid
      BY <1>7 DEF Apart, NoneStale
    <3> QED
      BY <2>2, <3>1, <1>3, <1>4
  <2>3. CASE n # o /\ k # o
    BY <2>3, <1>3, <1>4, <1>7 DEF Apart
  <2> QED
    BY <2>1, <2>2, <2>3
<1>10. Shape(armys)' /\ Shape(armyRow)' /\ Free(armys, stock)' /\ Free(armyRow, stock)'
  BY <1>0, <1>2, <1>3 DEF Versions, Shape, Free
<1>11. Serve(armyRow, armys, unpaid)'
  BY <1>0, <1>2, <1>3 DEF Versions, Serve
<1>12. Versions'
  <2>1. Apart(armys, NoneStale, armys, NoneStale)' /\ Apart(armyRow, stale, armys, NoneStale)'
    BY <1>u, <1>7, <1>8 DEF Apart, NoneStale, Who, Men
  <2>2. Apart(armyRow, stale, armyRow, stale)'
    BY <1>u, <1>9 DEF Apart
  <2> QED
    BY <1>10, <1>11, <2>1, <2>2 DEF Versions
<1>13. Saves'
  BY <1>0 DEF Saves
<1> QED
  BY <1>0, <1>6, <1>12, <1>13 DEF IInv

\* The generals that the failed statements left behind are now accounted for.
LEMMA Left ==
    ASSUME ArmiesAssumption, IInv, Saved
    PROVE  IInv' /\ UNCHANGED armys
<1>0. /\ TypeOK /\ Versions /\ Saves
      /\ saving' \in {"generals", "nothing"} /\ stale' = [o \in Order |-> Gone(o)]
      /\ UNCHANGED <<armys, order, known, converted, stock, armyRow, orderRow, convertRow, stockRow,
                     owed, unpaid, astray>>
  BY DEF IInv, Saved, memory, rows
<1>u. unpaid' = unpaid /\ astray' = astray /\ armys' = armys /\ armyRow' = armyRow
  BY <1>0
<1>1. TypeOK'
  BY <1>0 DEF TypeOK, Gone
<1>2. \A o \in Order, p \in Position : Who(armyRow, o, p) \in {NoGeneral, Who(armys, o, p)} \cup stale'[o]
  <2> SUFFICES ASSUME NEW o \in Order, NEW p \in Position, Who(armyRow, o, p) # NoGeneral,
                      Who(armyRow, o, p) # Who(armys, o, p)
               PROVE  Who(armyRow, o, p) \in Gone(o)
    BY <1>0
  <2>1. Who(armyRow, o, p) \in General
    <3>1. armyRow[o] \in Army \cup {NoArmy}
      BY <1>0 DEF TypeOK, ArmyTable
    <3>2. armyRow[o] # NoArmy /\ Who(armyRow, o, p) = armyRow[o].generals[p]
      BY DEF Who
    <3> QED
      BY <3>1, <3>2
  <2> QED
    BY <2>1 DEF Gone
<1>3. Apart(armys, NoneStale, armys, NoneStale)
  BY <1>0 DEF Versions
<1>4. Apart(armyRow, stale', armys, NoneStale)
  <2>1. Apart(armyRow, stale, armys, NoneStale)
    BY <1>0 DEF Versions
  <2> QED
    BY <1>2, <1>3, <2>1 DEF Apart, NoneStale
<1>5. Apart(armyRow, stale', armyRow, stale')
  <2>1. Apart(armyRow, stale, armyRow, stale)
    BY <1>0 DEF Versions
  <2> QED
    BY <1>2, <1>3, <2>1 DEF Apart, NoneStale
<1>6. Versions'
  <2>w. \A o \in Order, p \in Position :
           /\ Who(armys, o, p)' = Who(armys, o, p) /\ Men(armys, o, p)' = Men(armys, o, p)
           /\ Who(armyRow, o, p)' = Who(armyRow, o, p) /\ Men(armyRow, o, p)' = Men(armyRow, o, p)
    BY <1>u DEF Who, Men
  <2>1. Apart(armys, NoneStale, armys, NoneStale)' /\ Apart(armyRow, stale, armys, NoneStale)'
    BY <1>u, <1>3, <1>4, <2>w DEF Apart, NoneStale
  <2>2. Apart(armyRow, stale, armyRow, stale)'
    BY <1>u, <1>5, <2>w DEF Apart
  <2>3. /\ Shape(armys)' /\ Shape(armyRow)' /\ Free(armys, stock)' /\ Free(armyRow, stock)'
        /\ Serve(armyRow, armys, unpaid)'
    BY <1>0 DEF Versions, Shape, Free, Serve, Who, Men
  <2> QED
    BY <2>1, <2>2, <2>3 DEF Versions
<1>7. Saves'
  BY <1>0, <1>2 DEF Saves, Who
<1> QED
  BY <1>0, <1>1, <1>6, <1>7 DEF IInv

\* The rows become the memory.
LEMMA Loaded ==
    ASSUME IInv, load
    PROVE  IInv' /\ Serve(armys', armys, unpaid')
<1>0. TypeOK /\ Versions /\ Saves
  BY DEF IInv
<1>1. /\ armys' = armyRow /\ order' = orderRow /\ known' \in {General \ convertRow, {}}
      /\ converted' = {} /\ stock' = stockRow /\ saving' = "nothing"
      /\ unpaid' = unpaid \cup owed /\ owed' = {}
      /\ astray' = astray \cup UNION {stale[o] : o \in Order} /\ stale' = NoneStale
      /\ armyRow' = armyRow /\ orderRow' = orderRow /\ convertRow' = convertRow
      /\ stockRow' = stockRow
  BY DEF load, rows
<1>2. \A o \in Order : stale[o] \subseteq astray'
  BY <1>1
<1>3. TypeOK'
  BY <1>0, <1>1 DEF TypeOK, NoneStale
<1>4. Shape(armyRow)'
  BY <1>0, <1>1 DEF Versions, Shape, Tidy
<1>5. Apart(armyRow, NoneStale, armyRow, NoneStale)'
  <2>1. Apart(armyRow, stale, armyRow, stale)
    BY <1>0 DEF Versions
  <2>2. astray \subseteq astray' /\ unpaid \subseteq unpaid'
    BY <1>1
  <2> QED
    BY <1>1, <1>2, <2>1, <2>2 DEF Apart
<1>6. Free(armyRow, stockRow)'
  BY <1>0, <1>1 DEF Versions, Saves, Free
<1>7. Serve(armyRow, armyRow, unpaid)'
  BY DEF Serve
<1>8. Versions'
  BY <1>1, <1>4, <1>5, <1>6, <1>7 DEF Versions
<1>9. Saves'
  BY <1>1 DEF Saves
<1>10. Serve(armys', armys, unpaid')
  BY <1>0, <1>1 DEF Versions, Serve
<1> QED
  BY <1>3, <1>8, <1>9, <1>10 DEF IInv

LEMMA Step ==
    ASSUME ArmiesAssumption, IInv, [Next]_vars
    PROVE  IInv' /\ Serve(armys', armys, unpaid')
<1>1. ASSUME UNCHANGED armys PROVE Serve(armys', armys, unpaid')
  BY <1>1 DEF Serve
<1>2. CASE Requests
  <2>1. CASE \E done \in Done : checkArmyConscript(done)
    BY <2>1, Check
  <2>2. CASE \E o \in Order : getArmy(o)
    BY <2>2, Created
  <2>3. CASE \E o \in Order, g \in General : armyGeneralDown(o, g) \/ armyGeneralUp(o, g)
    BY <2>3, Down, Up
  <2>4. CASE \E o \in Order, cnts \in [Position -> SUBSET stock] : army_conscript(o, cnts)
    BY <2>4, Conscript
  <2>5. CASE \E o \in Order : SaveArmy(o)
    BY <1>1, <2>5, Row
  <2>6. CASE (\E g \in General : general_convert(g)) \/ GeneralsSaved
    BY <1>1, <2>6, Generals
  <2>7. CASE Saved
    BY <1>1, <2>7, Left
  <2> QED
    BY <1>2, <2>1, <2>2, <2>3, <2>4, <2>5, <2>6, <2>7 DEF Requests
<1>3. CASE load
  BY <1>3, Loaded
<1>4. CASE UNCHANGED vars
  <2>1. /\ armys' = armys /\ order' = order /\ known' = known /\ converted' = converted
        /\ stock' = stock /\ armyRow' = armyRow /\ orderRow' = orderRow
        /\ convertRow' = convertRow /\ stockRow' = stockRow /\ saving' = saving
        /\ owed' = owed /\ unpaid' = unpaid /\ stale' = stale /\ astray' = astray
    BY <1>4 DEF vars, memory, rows, failures
  <2>2. TypeOK' /\ Saves'
    BY <2>1 DEF IInv, TypeOK, Saves, Who
  <2>3. Versions'
    <3>1. /\ Shape(armys)' /\ Shape(armyRow)' /\ Free(armys, stock)' /\ Free(armyRow, stock)'
          /\ Serve(armyRow, armys, unpaid)'
      BY <2>1 DEF IInv, Versions, Shape, Free, Serve, Who, Men
    <3>2. /\ Apart(armys, NoneStale, armys, NoneStale)' /\ Apart(armyRow, stale, armys, NoneStale)'
          /\ Apart(armyRow, stale, armyRow, stale)'
      <4>1. \A o \in Order, p \in Position :
               /\ Who(armys, o, p)' = Who(armys, o, p) /\ Men(armys, o, p)' = Men(armys, o, p)
               /\ Who(armyRow, o, p)' = Who(armyRow, o, p) /\ Men(armyRow, o, p)' = Men(armyRow, o, p)
        BY <2>1 DEF Who, Men
      <4> QED
        BY <2>1, <4>1 DEF IInv, Versions, Apart, NoneStale
    <3> QED
      BY <3>1, <3>2 DEF Versions
  <2> QED
    BY <1>1, <2>1, <2>2, <2>3 DEF IInv
<1> QED
  BY <1>2, <1>3, <1>4 DEF Next

-----------------------------------------------------------------------------
(* The theorems. *)

\* The invariant of the saves: rows and memory may be mixed row by row wherever
\* the agent stops and whatever statement fails (m_armys.lua, lf.save).
THEOREM Invariance == Spec => []IInv
<1>1. Init => IInv
  BY InitIInv, ArmiesAssumption
<1>2. IInv /\ [Next]_vars => IInv'
  BY Step, ArmiesAssumption
<1> QED
  BY <1>1, <1>2, PTL DEF Spec

\* A general never holds two positions, in memory or in the rows, though the rows
\* of two armies are saved one after the other, unless his removal from an army
\* failed to be saved (armyGeneralDown, armyGeneralUp).
THEOREM NeverTwice == Spec => []OnceInArmy
<1>1. ASSUME IInv PROVE OnceInArmy
  <2>1. Apart(armys, NoneStale, armys, NoneStale) /\ Apart(armyRow, stale, armyRow, stale)
    BY <1>1 DEF IInv, Versions
  <2>2. OnePosition(armys, astray)
    BY <2>1 DEF Apart, OnePosition, NoneStale
  <2>3. OnePosition(armyRow, astray \cup UNION {stale[o] : o \in Order})
    BY <2>1 DEF Apart, OnePosition
  <2> QED
    BY <2>2, <2>3 DEF OnceInArmy
<1> QED
  BY <1>1, Invariance, PTL

\* Every soldier was paid for once and joins once, wherever the save of the stock
\* and of the armies is interrupted and whatever else fails, unless the save of
\* his own deduction failed (army_conscript, checkArmyConscript).
THEOREM NeverFree == Spec => []PaidOnce
<1>1. ASSUME IInv PROVE PaidOnce
  <2>1. Versions /\ stockRow \ owed \subseteq stock
    BY <1>1 DEF IInv, Saves
  <2>2. OnePlace(armys) /\ OnePlace(armyRow)
    BY <2>1 DEF Versions, Shape, Tidy, Apart, OnePlace
  <2>3. Free(armys, stock) /\ Free(armyRow, stockRow \ owed)
    BY <2>1 DEF Versions, Free
  <2> QED
    BY <2>2, <2>3 DEF PaidOnce
<1> QED
  BY <1>1, Invariance, PTL

\* A paid soldier never passes from one general to another: armyGeneralUp leaves
\* the position without men, and no mixture of older and newer rows, by crashes or
\* failed statements, gives them back.
THEOREM SoldiersLoyal == Spec => Loyal
<1>1. IInv /\ [Next]_vars => [Serve(armys', armys, unpaid')]_vars
  BY Step, ArmiesAssumption
<1> QED
  BY <1>1, Invariance, PTL DEF Spec, Loyal
=============================================================================
