------------------------------- MODULE Armies -------------------------------
(***************************************************************************)
(* The armies of one role: server/game/lualib/mods/m_armys.lua with what   *)
(* m_generals.lua and m_resource.lua keep of the generals and the stock.   *)
(*                                                                         *)
(* The agent runs the role's requests one at a time.  A request changes    *)
(* the tables in memory and saves them row by row; any of the statements   *)
(* may fail, which saveDbData reports and none of these modules looks at.  *)
(* The agent may stop, or its process die, between two rows, and the role  *)
(* is then loaded from the rows.                                           *)
(*                                                                         *)
(* A soldier is the member of Recruit whose price was paid for him, so the *)
(* stock, the recruits under way and the soldiers are sets of recruits.    *)
(* When a recruitment is complete is left open: every check may find any   *)
(* of them complete, or none.  Facilities, the cost of a general and the   *)
(* limit on soldiers decide whether a request is refused, and nothing else.*)
(***************************************************************************)
EXTENDS FiniteSets

CONSTANTS
    General,    \* the generals of the role
    Order,      \* the armies of its city, unlocked by the drill ground
    Position,   \* the positions of an army
    Recruit,    \* the soldiers the role can pay for
    NoGeneral,  \* 0, an empty position
    NoOrder,    \* 0, a general in no army
    NoArmy      \* an army that getArmy has not created yet

ASSUME ArmiesAssumption ==
    /\ NoGeneral \notin General /\ NoOrder \notin Order
    /\ NoArmy \notin [generals : [Position -> General \cup {NoGeneral}],
                      soldiers : [Position -> SUBSET Recruit],
                      conscript_cnts : [Position -> SUBSET Recruit],
                      cmd : {"idle", "conscript", "no id"}]

VARIABLES
    armys,      \* self.armys
    order,      \* the order of each general (and its cityId, set with it)
    known,      \* the generals in memory: id_map_cache
    converted,  \* those of them that were handed back
    stock,      \* self.resource
    armyRow, orderRow, convertRow, stockRow, \* the same in the database
    saving,     \* the table that the running request saves next
    (* What failed statements left behind, for the properties. *)
    owed,       \* the recruits whose price is still in the stock's row
    unpaid,     \* those of them when the role was loaded from it
    stale,      \* the generals still in the row of an army they are gone from
    astray      \* those of them when the role was loaded from it

memory == <<armys, order, known, converted, stock>>
rows == <<armyRow, orderRow, convertRow, stockRow>>
failures == <<owed, unpaid, stale, astray>>
vars == <<memory, rows, saving, failures>>

Army == [generals : [Position -> General \cup {NoGeneral}],
         soldiers : [Position -> SUBSET Recruit],
         conscript_cnts : [Position -> SUBSET Recruit],
         cmd : {"idle", "conscript", "no id"}]

NewArmy == [generals |-> [p \in Position |-> NoGeneral],
            soldiers |-> [p \in Position |-> {}],
            conscript_cnts |-> [p \in Position |-> {}],
            cmd |-> "idle"]

NoTable == [o \in Order |-> NoArmy]
NoneStale == [o \in Order |-> {}]

Init ==
    /\ armys = NoTable /\ armyRow = NoTable
    /\ order = [g \in General |-> NoOrder] /\ orderRow = order
    /\ known = General
    /\ converted = {} /\ convertRow = {}
    /\ stock = Recruit /\ stockRow = Recruit
    /\ saving = "nothing"
    /\ owed = {} /\ unpaid = {} /\ stale = NoneStale /\ astray = {}

-----------------------------------------------------------------------------
(* What every request begins with.  It has saved its changes before the    *)
(* rest of the request goes on; army_myList, army_myOne, army_assign, which *)
(* never gets beyond army_prepare, and refused requests do nothing else.   *)

\* Mutant of Delivered: what was delivered is delivered again.
DeliveredAgain(a, done) ==
    IF a = NoArmy THEN a
    ELSE IF a.cmd # "conscript" THEN a
    ELSE [a EXCEPT
            !.soldiers = [p \in Position |->
                IF p \in done THEN a.soldiers[p] \cup a.conscript_cnts[p] ELSE a.soldiers[p]],
            !.cmd = IF \A p \in Position : p \in done \/ a.conscript_cnts[p] = {}
                    THEN "idle" ELSE "conscript"]

\* The recruits of the positions in done join, and the army is idle again when
\* none is left.
Delivered(a, done) ==
    IF a = NoArmy THEN a
    ELSE IF a.cmd # "conscript" THEN a
    ELSE [a EXCEPT
            !.soldiers = [p \in Position |->
                IF p \in done THEN a.soldiers[p] \cup a.conscript_cnts[p] ELSE a.soldiers[p]],
            !.conscript_cnts = [p \in Position |->
                IF p \in done THEN {} ELSE a.conscript_cnts[p]],
            !.cmd = IF \A p \in Position : p \in done \/ a.conscript_cnts[p] = {}
                    THEN "idle" ELSE "conscript"]

Done == [Order -> SUBSET Position]

\* A check that finds nothing complete changes and saves nothing.
checkArmyConscript(done) ==
    /\ saving = "nothing"
    /\ armys' = [o \in Order |-> Delivered(armys[o], done[o])]
    /\ armys' # armys
    /\ saving' = "last"
    /\ UNCHANGED <<order, known, converted, stock, rows, failures>>

\* An army asked for is created.  If its insert fails it stays in memory with no
\* id and strings for lists: a request that would change it throws, and it is
\* never saved.
getArmy(o) ==
    /\ saving = "nothing" /\ armys[o] = NoArmy
    /\ \/ /\ armys' = [armys EXCEPT ![o] = NewArmy]
          /\ armyRow' = [armyRow EXCEPT ![o] = NewArmy]
       \/ /\ armys' = [armys EXCEPT ![o] = [NewArmy EXCEPT !.cmd = "no id"]]
          /\ UNCHANGED armyRow
    /\ UNCHANGED <<order, known, converted, stock, orderRow, convertRow, stockRow, saving, failures>>

\* A time of zero means that no recruit is under way at the position.
armyCanModify(a, p) ==
    \/ a.cmd = "idle"
    \/ a.cmd = "conscript" /\ a.conscript_cnts[p] = {}

\* Who holds a position of a table, and the men there, joined or under way.
Who(t, o, p) == IF t[o] = NoArmy THEN NoGeneral ELSE t[o].generals[p]
Men(t, o, p) == IF t[o] = NoArmy THEN {} ELSE t[o].soldiers[p] \cup t[o].conscript_cnts[p]

generalIsInArmy(g) == \E o \in Order, p \in Position : Who(armys, o, p) = g

-----------------------------------------------------------------------------
(* Requests. *)

\* army_dispose with position -1 for a general of the army.
armyGeneralDown(o, g) ==
    /\ saving = "nothing" /\ g \in known /\ armys[o] # NoArmy
    /\ \E p \in Position :
          /\ armys[o].generals[p] = g
          /\ armyCanModify(armys[o], p)
          /\ armys' = [armys EXCEPT ![o].generals[p] = NoGeneral,
                                    ![o].soldiers[p] = {},
                                    ![o].conscript_cnts[p] = {}]
    /\ order' = [order EXCEPT ![g] = NoOrder]
    /\ saving' = "armys"
    /\ UNCHANGED <<known, converted, stock, rows, failures>>

\* Mutant of armyGeneralUp: the armies are not searched for the general.
armyGeneralUpUnsearched(o, g) ==
    /\ saving = "nothing" /\ g \in known /\ armys[o] # NoArmy
    /\ order[g] = NoOrder
    /\ \E p \in Position :
          /\ armyCanModify(armys[o], p)
          /\ armys' = [armys EXCEPT ![o].generals[p] = g, ![o].soldiers[p] = {}]
    /\ order' = [order EXCEPT ![g] = o]
    /\ saving' = "armys"
    /\ UNCHANGED <<known, converted, stock, rows, failures>>

\* Mutant of armyGeneralUp: the soldiers of the position stay.
armyGeneralUpManned(o, g) ==
    /\ saving = "nothing" /\ g \in known /\ armys[o] # NoArmy
    /\ order[g] = NoOrder /\ ~generalIsInArmy(g)
    /\ \E p \in Position :
          /\ armyCanModify(armys[o], p)
          /\ armys' = [armys EXCEPT ![o].generals[p] = g]
    /\ order' = [order EXCEPT ![g] = o]
    /\ saving' = "armys"
    /\ UNCHANGED <<known, converted, stock, rows, failures>>

\* army_dispose with a position: whoever was there is replaced.
armyGeneralUp(o, g) ==
    /\ saving = "nothing" /\ g \in known /\ armys[o] # NoArmy
    /\ order[g] = NoOrder /\ ~generalIsInArmy(g)
    /\ \E p \in Position :
          /\ armyCanModify(armys[o], p)
          /\ armys' = [armys EXCEPT ![o].generals[p] = g, ![o].soldiers[p] = {}]
    /\ order' = [order EXCEPT ![g] = o]
    /\ saving' = "armys"
    /\ UNCHANGED <<known, converted, stock, rows, failures>>

\* batchDeductRoleRes saves what is left and does not ask whether that succeeded.
SaveStock ==
    \/ stockRow' = stock' /\ owed' = {}
    \/ stockRow' = stockRow /\ owed' = stockRow \ stock'

\* army_conscript for cnts[p] at each position: the price is deducted and saved
\* first; those under way at a position that gets new ones are replaced.
army_conscript(o, cnts) ==
    /\ saving = "nothing" /\ armys[o] # NoArmy /\ armys[o].cmd # "no id"
    /\ \A p, q \in Position : p # q => cnts[p] \cap cnts[q] = {}
    /\ \A p \in Position : armys[o].generals[p] \in known \cup {NoGeneral}
    /\ stock' = stock \ UNION {cnts[p] : p \in Position}
    /\ SaveStock
    /\ armys' = [armys EXCEPT
                    ![o].conscript_cnts = [p \in Position |->
                        IF cnts[p] # {} THEN cnts[p] ELSE armys[o].conscript_cnts[p]],
                    ![o].cmd = "conscript"]
    /\ saving' = "last"
    /\ UNCHANGED <<order, known, converted, armyRow, orderRow, convertRow, unpaid, stale, astray>>

\* The statements of the generals in written succeed, those of others fail.
SaveGenerals(written) ==
    /\ orderRow' = [g \in General |-> IF g \in written THEN order[g] ELSE orderRow[g]]
    /\ convertRow' = convertRow \cup (converted' \cap written)

\* general_convert of one general, the only one it saves; he stays in memory until
\* the next load.
general_convert(g) ==
    /\ saving = "nothing" /\ g \in known \ converted
    /\ converted' = converted \cup {g}
    /\ \E written \in SUBSET {g} : SaveGenerals(written)
    /\ UNCHANGED <<armys, order, known, stock, armyRow, stockRow, saving, failures>>

-----------------------------------------------------------------------------
(* The database. *)

\* lf.save of the armies: the statement of one row is executed, ...
SaveArmy(o) ==
    /\ saving \in {"armys", "last"}
    /\ armys[o] # armyRow[o] /\ armys[o].cmd # "no id"
    /\ armyRow' = [armyRow EXCEPT ![o] = armys[o]]
    /\ stale' = [stale EXCEPT ![o] = {}]
    /\ UNCHANGED <<memory, orderRow, convertRow, stockRow, saving, owed, unpaid, astray>>

\* ... and when all were sent those of the other rows have failed.  army_dispose
\* goes on with the generals, and saves the armies once more.
Gone(o) == {g \in General : \E p \in Position : Who(armyRow, o, p) = g /\ Who(armys, o, p) # g}

Saved ==
    /\ saving \in {"armys", "last"}
    /\ saving' = IF saving = "armys" THEN "generals" ELSE "nothing"
    /\ stale' = [o \in Order |-> Gone(o)]
    /\ UNCHANGED <<memory, rows, owed, unpaid, astray>>

\* lf.save of the generals, every one in memory.
GeneralsSaved ==
    /\ saving = "generals"
    /\ saving' = "last"
    /\ UNCHANGED <<memory, armyRow, stockRow, failures>>
    /\ \E written \in SUBSET known : SaveGenerals(written)

\* The agent stopped or died, and is loaded again.  If the select of the generals
\* fails it goes on without them.
load ==
    /\ armys' = armyRow
    /\ order' = orderRow
    /\ known' \in {General \ convertRow, {}}
    /\ converted' = {}
    /\ stock' = stockRow
    /\ saving' = "nothing"
    /\ unpaid' = unpaid \cup owed /\ owed' = {}
    /\ astray' = astray \cup UNION {stale[o] : o \in Order} /\ stale' = NoneStale
    /\ UNCHANGED rows

Requests ==
    \/ \E done \in Done : checkArmyConscript(done)
    \/ \E o \in Order :
          \/ getArmy(o)
          \/ \E g \in General : armyGeneralDown(o, g) \/ armyGeneralUp(o, g)
          \/ \E cnts \in [Position -> SUBSET stock] : army_conscript(o, cnts)
          \/ SaveArmy(o)
    \/ \E g \in General : general_convert(g)
    \/ Saved \/ GeneralsSaved

Next == Requests \/ load

Spec == Init /\ [][Next]_vars

-----------------------------------------------------------------------------
(* Properties. *)

ArmyTable == [Order -> Army \cup {NoArmy}]

TypeOK ==
    /\ armys \in ArmyTable /\ armyRow \in ArmyTable
    /\ order \in [General -> Order \cup {NoOrder}]
    /\ orderRow \in [General -> Order \cup {NoOrder}]
    /\ known \in SUBSET General
    /\ converted \in SUBSET General /\ convertRow \in SUBSET General
    /\ stock \in SUBSET Recruit /\ stockRow \in SUBSET Recruit
    /\ saving \in {"nothing", "armys", "generals", "last"}
    /\ owed \in SUBSET Recruit /\ unpaid \in SUBSET Recruit
    /\ stale \in [Order -> SUBSET General] /\ astray \in SUBSET General

\* A general who holds two positions of t is one of gone.
OnePosition(t, gone) ==
    \A o, n \in Order, p, q \in Position :
       Who(t, o, p) = Who(t, n, q) /\ Who(t, o, p) \notin {NoGeneral} \cup gone => o = n /\ p = q

\* A general never holds two positions, in memory or in the database, whatever
\* the requests and wherever the agent stopped between the rows it saves, except
\* one whose removal failed to be saved: he is stale in the rows until a later
\* save of that army succeeds, and astray once the role is loaded before that.
OnceInArmy ==
    /\ OnePosition(armys, astray)
    /\ OnePosition(armyRow, astray \cup UNION {stale[o] : o \in Order})

\* No paid recruit is in two places of a table, or joins twice.
OnePlace(t) ==
    /\ \A o, n \in Order, p, q \in Position :
          o # n \/ p # q => Men(t, o, p) \cap Men(t, n, q) \subseteq unpaid
    /\ \A o \in Order, p \in Position : t[o] # NoArmy =>
          t[o].soldiers[p] \cap t[o].conscript_cnts[p] \subseteq unpaid

\* No paid recruit of a table is in the stock s as well.
Free(t, s) == \A o \in Order, p \in Position : Men(t, o, p) \cap s \subseteq unpaid

\* Every soldier and recruit was paid for, once, and joins once: none is ever in
\* two places, or both in an army and in the stock, whenever the role is loaded
\* and whatever other statements fail.  The exception is one whose deduction
\* failed to be saved (batchDeductRoleRes goes on all the same): his price is
\* owed by the row of the stock, and back in the stock when the role is loaded.
PaidOnce ==
    /\ OnePlace(armys) /\ Free(armys, stock)
    /\ OnePlace(armyRow) /\ Free(armyRow, stockRow \ owed)

\* The soldiers of a position of t are not men of another general's in s, but for
\* those of twice.
Serve(t, s, twice) ==
    \A o \in Order, p \in Position :
       t[o] # NoArmy /\ s[o] # NoArmy =>
          \/ Who(t, o, p) = Who(s, o, p)
          \/ t[o].soldiers[p] \cap Men(s, o, p) \subseteq twice

\* A soldier never passes from one general to another: neither when a general is
\* replaced, nor when recruits join after the position changed hands, nor when
\* the role is loaded from rows of which some are older than others, by a crash
\* or by failed statements.  An unpaid one, recruited twice, may.
Loyal == [][Serve(armys', armys, unpaid')]_vars

-----------------------------------------------------------------------------
(* The inductive invariant behind the theorems of ArmiesProofs. *)

\* Only an army that conscripts has recruits under way, other men than those there.
Tidy(a, p, twice) ==
    /\ a.soldiers[p] \cap a.conscript_cnts[p] \subseteq twice
    /\ a.cmd # "conscript" => a.conscript_cnts[p] = {}
Shape(t) == \A o \in Order, p \in Position : t[o] # NoArmy => Tidy(t[o], p, unpaid)

\* Rows of the tables t and s may stand side by side: a general in two places is
\* astray, or gone from one of them, and a man in two places is unpaid.
Apart(t, tgone, s, sgone) ==
    \A o, n \in Order, p, q \in Position : o # n \/ p # q =>
       /\ Who(t, o, p) = Who(s, n, q) =>
             Who(t, o, p) \in {NoGeneral} \cup astray \cup tgone[o] \cup sgone[n]
       /\ Men(t, o, p) \cap Men(s, n, q) \subseteq unpaid

Versions ==
    /\ Shape(armys) /\ Shape(armyRow)
    /\ Apart(armys, NoneStale, armys, NoneStale)
    /\ Apart(armyRow, stale, armys, NoneStale)
    /\ Apart(armyRow, stale, armyRow, stale)
    /\ Free(armys, stock) /\ Free(armyRow, stock)
    /\ Serve(armyRow, armys, unpaid)

\* What the rows hold: no more than memory, but for what failed statements left.
Saves ==
    /\ stockRow \ owed \subseteq stock
    /\ saving \in {"generals", "nothing"} =>
          \A o \in Order, p \in Position :
             Who(armyRow, o, p) \in {NoGeneral, Who(armys, o, p)} \cup stale[o]

IInv == TypeOK /\ Versions /\ Saves
=============================================================================
