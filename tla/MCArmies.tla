------------------------------ MODULE MCArmies ------------------------------
(***************************************************************************)
(* Three instances of Armies, one behaviour being of one of them:          *)
(* - the role is loaded at any point, and no statement fails;              *)
(* - statements fail, the armies having one position;                      *)
(* - statements fail, the role having one army;                            *)
(* the last two without general_convert.                                   *)
(***************************************************************************)
EXTENDS Armies, Naturals, TLC

CONSTANTS
    First,     \* the position of the second instance
    MaxFail    \* bound: the steps in which statements fail

VARIABLES part, failed

\* A step in which a statement fails: an insert, a deduction, the row of an army,
\* of a general, of a general handed back, and the select of the generals.
Fails ==
    \/ \E o \in Order : armys[o] = NoArmy /\ armys'[o] # NoArmy /\ armys'[o].cmd = "no id"
    \/ stock' \notin {stock, stockRow'}
    \/ /\ saving \in {"armys", "last"} /\ saving' # saving /\ armys' = armys
       /\ \E o \in Order : armyRow[o] # armys[o] /\ armys[o].cmd # "no id"
    \/ /\ saving = "generals" /\ saving' = "last"
       /\ \E g \in known : orderRow'[g] # order[g] \/ g \in converted \ convertRow'
    \/ ~ converted' \subseteq converted \cup convertRow'
    \/ known' = {} /\ known # {} /\ convertRow # General

OnePositionUsed ==
    \A o \in Order, p \in Position \ {First} :
       Who(armys', o, p) = NoGeneral /\ Men(armys', o, p) = {}
OneArmyUsed == \A o, n \in Order : armys'[o] # NoArmy /\ armys'[n] # NoArmy => o = n

CrashStep == part = "crashes" /\ Next /\ ~Fails /\ UNCHANGED failed
FailStep ==
    /\ \/ part = "one position" /\ Next /\ OnePositionUsed /\ converted' = {}
       \/ part = "one army" /\ Next /\ OneArmyUsed /\ converted' = {}
    /\ failed' = IF Fails THEN failed + 1 ELSE failed
    /\ failed' <= MaxFail

AnySpec ==
    /\ part \in {"crashes", "one position", "one army"} /\ failed = 0 /\ Init
    /\ [][UNCHANGED part /\ (CrashStep \/ FailStep)]_<<vars, part, failed>>

Symmetry == Permutations(General) \cup Permutations(Order) \cup Permutations(Recruit)
=============================================================================
