---------------------------- MODULE UnionProofs ----------------------------
(***************************************************************************)
(* Theorems about UnionManager, for any roles, unions and coroutines, any  *)
(* limit of members and any number of applications: a union is led by one  *)
(* of its members and does not outgrow its limit in any copy of it, and a  *)
(* decision about an application is final.                                 *)
(*                                                                         *)
(* The steps are proved about two halves of IInv that share no variable:   *)
(* the objects, which only ever hold rows of Good, and the applications.   *)
(***************************************************************************)
EXTENDS UnionManager, FiniteSetTheorems, TLAPS

Good == {c \in Row : RolesSound(c) /\ Cardinality(c.members) <= MaxMembers}

ProcRecord ==
    [at : {"idle", "loading", "loaded", "creating", "created", "applying", "saving", "saved"},
     union : Union \cup {NoUnion}, row : Good \cup {NoRow},
     kind : {"none", "dismiss", "orphan", "online", "offline"},
     rid : Rid \cup {NoRid}, roster : SUBSET Rid]

Presence ==
    /\ online_players \in [Rid -> Union \cup {NoUnion, Off}]
    /\ unload \in [Union -> [at : {"nil", "armed", "saving", "saved"}, row : Good \cup {NoRow}]]

Objects ==
    /\ row \in [Union -> Good \cup {NoRow}]
    /\ unions \in [Union -> Good \cup {NoRow}]
    /\ online_members \in SUBSET Union
    /\ Presence
    /\ proc \in [Proc -> ProcRecord]
    /\ ProcFits

Applications ==
    /\ applies \in SUBSET Apply /\ applyRow \in SUBSET Apply /\ applyWrites \in SUBSET Apply
    /\ lastApply \in Nat
    /\ AppliesAgree

-----------------------------------------------------------------------------
(* The two halves make the invariant. *)

LEMMA Halves ==
    ASSUME IInv
    PROVE  Objects /\ Applications
<1>1. \A c \in Copies \ {NoRow} : c \in Row => c \in Good
  BY DEF IInv, RolesValid, CapHeld, Good
<1>2. row \in [Union -> Good \cup {NoRow}] /\ unions \in [Union -> Good \cup {NoRow}]
  BY <1>1 DEF IInv, TypeOK, Copies
<1>3. Presence
  <2>1. \A u \in Union : unload[u].row \in Good \cup {NoRow}
    BY <1>1 DEF IInv, TypeOK, Copies
  <2> QED
    BY <2>1 DEF IInv, TypeOK, Presence
<1>4. proc \in [Proc -> ProcRecord]
  <2>1. \A p \in Proc : proc[p].row \in Good \cup {NoRow}
    BY <1>1 DEF IInv, TypeOK, Copies
  <2> QED
    BY <2>1 DEF IInv, TypeOK, ProcRecord
<1> QED
  BY <1>2, <1>3, <1>4 DEF IInv, TypeOK, Objects, Applications

LEMMA Whole ==
    ASSUME Objects, Applications
    PROVE  IInv
<1>1. Good \subseteq Row
  BY DEF Good
<1>2. TypeOK
  <2>1. proc \in [Proc ->
          [at : {"idle", "loading", "loaded", "creating", "created", "applying", "saving", "saved"},
           union : Union \cup {NoUnion}, row : Row \cup {NoRow},
           kind : {"none", "dismiss", "orphan", "online", "offline"},
           rid : Rid \cup {NoRid}, roster : SUBSET Rid]]
    BY <1>1 DEF Objects, ProcRecord
  <2> QED
    BY <1>1, <2>1 DEF Objects, Presence, Applications, TypeOK
<1>3. \A c \in Copies \ {NoRow} : c \in Good
  BY DEF Copies, Objects, Presence, ProcRecord
<1>4. RolesValid /\ CapHeld
  BY <1>3 DEF RolesValid, CapHeld, Good
<1> QED
  BY <1>2, <1>4 DEF IInv, Objects, Applications

-----------------------------------------------------------------------------
(* What the commands make of a good row is a good row. *)

LEMMA Founded ==
    ASSUME NEW r \in Rid
    PROVE  [members |-> {r}, chairman |-> r, vice |-> NoRid, state |-> 1] \in Good
<1>1. Cardinality({r}) = 1
  BY FS_Singleton
<1> QED
  BY <1>1, UnionAssumption DEF Good, Row, RolesSound

LEMMA Retitled ==
    ASSUME NEW c \in Good
    PROVE  /\ [c EXCEPT !.state = 0] \in Good
           /\ [c EXCEPT !.vice = NoRid] \in Good
           /\ \A r \in c.members \ {c.chairman} : [c EXCEPT !.vice = r] \in Good
           /\ \A r \in c.members : [c EXCEPT !.chairman = r, !.vice = NoRid] \in Good
  BY DEF Good, Row, RolesSound

LEMMA Enlarged ==
    ASSUME NEW c \in Good, NEW r \in Rid, Cardinality(c.members) < MaxMembers
    PROVE  [c EXCEPT !.members = @ \cup {r}] \in Good
<1>1. IsFiniteSet(c.members)
  BY FS_Subset, UnionAssumption DEF Good, Row
<1>2. Cardinality(c.members) \in Nat
  BY <1>1, FS_CardinalityType
<1>3. Cardinality(c.members \cup {r}) <= MaxMembers
  <2>1. CASE r \in c.members
    <3>1. c.members \cup {r} = c.members
      BY <2>1
    <3> QED
      BY <1>2, <3>1, UnionAssumption
  <2>2. CASE r \notin c.members
    <3>1. Cardinality(c.members \cup {r}) = Cardinality(c.members) + 1
      BY <1>1, <2>2, FS_AddElement
    <3> QED
      BY <1>2, <3>1, UnionAssumption
  <2> QED
    BY <2>1, <2>2
<1> QED
  BY <1>3 DEF Good, Row, RolesSound

LEMMA Reduced ==
    ASSUME NEW c \in Good, NEW r \in Rid, r # c.chairman
    PROVE  Without(c, r) \in Good
<1>1. IsFiniteSet(c.members)
  BY FS_Subset, UnionAssumption DEF Good, Row
<1>2. /\ Cardinality(c.members \ {r}) <= Cardinality(c.members)
      /\ Cardinality(c.members) \in Nat /\ Cardinality(c.members \ {r}) \in Nat
  BY <1>1, FS_Subset, FS_CardinalityType
<1>3. Cardinality(c.members \ {r}) <= MaxMembers
  BY <1>2, UnionAssumption DEF Good
<1>4. Without(c, r) \in Row
  BY DEF Good, Row, Without
<1>5. RolesSound(Without(c, r))
  BY DEF Good, Row, RolesSound, Without
<1>6. Without(c, r).members = c.members \ {r}
  BY DEF Good, Row, Without
<1> QED
  BY <1>3, <1>4, <1>5, <1>6 DEF Good

-----------------------------------------------------------------------------
(* The steps of the objects. *)

LEMMA ObjectGood ==
    ASSUME Objects, NEW p \in Proc, NEW u \in Union, Has(p, u)
    PROVE  Object(p, u) \in Good
  BY DEF Objects, ProcRecord, Has, Object

LEMMA HoldersTyped ==
    ASSUME Objects, NEW p \in Proc, NEW u \in Union, NEW c \in Good
    PROVE  /\ Holders(p, u, c) \in [Proc -> ProcRecord]
           /\ \A q \in Proc : /\ Holders(p, u, c)[q].at = proc[q].at
                              /\ Holders(p, u, c)[q].union = proc[q].union
                              /\ Holders(p, u, c)[q].row = proc[q].row
                              /\ Holders(p, u, c)[q].rid = proc[q].rid
<1>1. c.members \subseteq Rid
  BY DEF Good, Row
<1> QED
  BY <1>1 DEF Objects, ProcRecord, Holders

LEMMA PutObjects ==
    ASSUME Objects, NEW u \in Union, NEW c \in Good, Put(u, c)
    PROVE  unions' \in [Union -> Good \cup {NoRow}] /\ online_members' \in SUBSET Union
  BY DEF Objects, Put

\* A command that ends without a save.
LEMMA AnswerObjects ==
    ASSUME Objects, NEW p \in Proc, NEW u \in Union, NEW c \in Good, Put(u, c),
           UNCHANGED row, Presence',
           NEW e \in ProcRecord, e.at \in {"idle", "applying"},
           e.at = "applying" => e.union \in Union /\ e.rid \in Rid,
           proc' = [Holders(p, u, c) EXCEPT ![p] = e]
    PROVE  Objects'
<1>1. proc' \in [Proc -> ProcRecord]
  BY HoldersTyped
<1>2. ProcFits'
  BY <1>1, HoldersTyped DEF Objects, ProcFits
<1> QED
  BY <1>1, <1>2, PutObjects DEF Objects

\* A command that saves c.
LEMMA SaveObjects ==
    ASSUME Objects, NEW p \in Proc, NEW u \in Union, NEW c \in Good,
           NEW kind \in {"none", "dismiss", "online", "offline"}, NEW r \in Rid \cup {NoRid},
           Save(p, u, c, kind, r), UNCHANGED <<row, playerVars>>
    PROVE  Objects'
<1> DEFINE e == [at |-> "saving", union |-> u, row |-> c, kind |-> kind, rid |-> r,
                 roster |-> IF kind = "dismiss" THEN c.members ELSE {}]
<1>1. e \in ProcRecord
  <2>1. c.members \subseteq Rid
    BY DEF Good, Row
  <2>2. e.roster \in SUBSET Rid
    BY <2>1
  <2> QED
    BY <2>2 DEF ProcRecord, Objects
<1>2. Put(u, c) /\ proc' = [Holders(p, u, c) EXCEPT ![p] = e]
  BY DEF Save
<1>3. proc' \in [Proc -> ProcRecord]
  BY <1>1, <1>2, HoldersTyped
<1>4. ProcFits'
  <2>1. proc'[p].at = "saving" /\ proc'[p].union = u
    BY <1>2, HoldersTyped
  <2>2. \A q \in Proc \ {p} : /\ proc'[q].at = proc[q].at
                              /\ proc'[q].union = proc[q].union
                              /\ proc'[q].rid = proc[q].rid
    BY <1>2, HoldersTyped
  <2> QED
    BY <2>1, <2>2 DEF Objects, ProcFits
<1> QED
  BY <1>2, <1>3, <1>4, PutObjects DEF Objects, Presence, playerVars

LEMMA IdleTyped == Idle \in ProcRecord /\ Idle.at = "idle"
  BY DEF Idle, ProcRecord

\* One coroutine goes on, and the rest stays well formed.
LEMMA ProcObjects ==
    ASSUME Objects, NEW p \in Proc, NEW e \in ProcRecord,
           proc' = [proc EXCEPT ![p] = e],
           e.at \in {"loading", "created", "applying", "saving", "saved"} => e.union \in Union,
           e.at \in {"creating", "created", "applying"} => e.rid \in Rid,
           row' \in [Union -> Good \cup {NoRow}], unions' \in [Union -> Good \cup {NoRow}],
           online_members' \in SUBSET Union, Presence'
    PROVE  Objects'
<1>1. proc' \in [Proc -> ProcRecord]
  BY DEF Objects
<1>2. ProcFits'
  <2>1. proc'[p] = e /\ \A q \in Proc \ {p} : proc'[q] = proc[q]
    BY DEF Objects
  <2> QED
    BY <2>1 DEF Objects, ProcFits
<1> QED
  BY <1>1, <1>2 DEF Objects

LEMMA OfflinePresence ==
    ASSUME Presence, NEW r \in Rid, updatePlayerOffline(r)
    PROVE  Presence'
<1>1. CASE UNCHANGED playerVars
  BY <1>1 DEF Presence, playerVars
<1>2. CASE ~(online_players[r] = Off \/ (Tabled(r) /\ Recorded(online_players[r])))
  BY <1>2 DEF Presence, updatePlayerOffline
<1> QED
  BY <1>1, <1>2 DEF updatePlayerOffline

\* The commands that end with a save, one step each.
LEMMA CommandObjects ==
    ASSUME Objects, applies \subseteq Apply,
           NEW p \in Proc, NEW u \in Union, NEW r \in Rid, Command(p, u, r)
    PROVE  Objects'
<1>g. Has(p, u) => Object(p, u) \in Good
  BY ObjectGood
<1>1. CASE dismissUnion(p, u, r)
  <2>1. [Object(p, u) EXCEPT !.state = 0] \in Good
    BY <1>1, <1>g, Retitled DEF dismissUnion
  <2> QED
    BY <1>1, <2>1, SaveObjects DEF dismissUnion
<1>2. CASE applyJoinUnion(p, u, r)
  <2> DEFINE e == [Idle EXCEPT !.at = "applying", !.union = u, !.rid = r]
  <2>1. e \in ProcRecord /\ e.at = "applying" /\ e.union = u /\ e.rid = r
    BY DEF Idle, ProcRecord
  <2>2. Presence'
    BY <1>2 DEF applyJoinUnion, playerVars, Objects, Presence
  <2>3. /\ Object(p, u) \in Good /\ Put(u, Object(p, u)) /\ UNCHANGED row
        /\ proc' = [Holders(p, u, Object(p, u)) EXCEPT ![p] = e]
    BY <1>2, <1>g DEF applyJoinUnion
  <2> HIDE DEF e
  <2> QED
    BY <2>1, <2>2, <2>3, AnswerObjects
<1>3. CASE exitUnion(p, u, r)
  <2>1. Without(Object(p, u), r) \in Good
    BY <1>3, <1>g, Reduced DEF exitUnion
  <2> QED
    BY <1>3, <2>1, SaveObjects DEF exitUnion
<1>4. CASE modNotice(p, u, r)
  BY <1>4, <1>g, SaveObjects DEF modNotice
<1>5. ASSUME NEW a \in applies, approveApply(p, u, r, a) PROVE Objects'
  <2>1. a.rid \in Rid
    BY DEF Apply
  <2>2. [Object(p, u) EXCEPT !.members = @ \cup {a.rid}] \in Good
    BY <1>5, <1>g, <2>1, Enlarged DEF approveApply
  <2> QED
    BY <1>5, <2>1, <2>2, SaveObjects DEF approveApply
<1>6. ASSUME NEW a \in applies, rejectApply(p, u, r, a) PROVE Objects'
  <2>1. Presence'
    BY <1>6 DEF rejectApply, playerVars, Objects, Presence
  <2>2. /\ Object(p, u) \in Good /\ Put(u, Object(p, u)) /\ UNCHANGED row
        /\ proc' = [Holders(p, u, Object(p, u)) EXCEPT ![p] = Idle]
    BY <1>6, <1>g DEF rejectApply, Answer
  <2> QED
    BY <2>1, <2>2, IdleTyped, AnswerObjects
<1>7. ASSUME NEW target \in Rid, kickMember(p, u, target, r) PROVE Objects'
  <2>1. Without(Object(p, u), target) \in Good
    BY <1>7, <1>g, Reduced DEF kickMember
  <2> QED
    BY <1>7, <2>1, SaveObjects DEF kickMember
<1>8. ASSUME NEW target \in Rid, appointViceChairman(p, u, target, r) PROVE Objects'
  <2>1. [Object(p, u) EXCEPT !.vice = target] \in Good
    BY <1>8, <1>g, Retitled DEF appointViceChairman
  <2> QED
    BY <1>8, <2>1, SaveObjects DEF appointViceChairman
<1>9. ASSUME NEW target \in Rid, cancelViceChairman(p, u, target, r) PROVE Objects'
  <2>1. [Object(p, u) EXCEPT !.vice = NoRid] \in Good
    BY <1>9, <1>g, Retitled DEF cancelViceChairman
  <2> QED
    BY <1>9, <2>1, SaveObjects DEF cancelViceChairman
<1>10. ASSUME NEW target \in Rid, abdicateChairman(p, u, target, r) PROVE Objects'
  <2>1. [Object(p, u) EXCEPT !.chairman = target, !.vice = NoRid] \in Good
    BY <1>10, <1>g, Retitled DEF abdicateChairman
  <2> QED
    BY <1>10, <2>1, SaveObjects DEF abdicateChairman
<1> QED
  BY <1>1, <1>2, <1>3, <1>4, <1>5, <1>6, <1>7, <1>8, <1>9, <1>10 DEF Command

\* Loading a union, and the commands that only read it.
LEMMA LoadObjects ==
    ASSUME Objects, NEW p \in Proc,
           \/ Select(p) \/ NotFound(p)
           \/ \E u \in Union : getUnion(p, u) \/ Refused(p, u)
    PROVE  Objects'
<1>1. ASSUME NEW u \in Union, getUnion(p, u) PROVE Objects'
  <2> DEFINE e == [proc[p] EXCEPT !.at = "loading", !.union = u]
  <2>1. e \in ProcRecord
    BY DEF Objects, ProcRecord
  <2>2. proc' = [proc EXCEPT ![p] = e] /\ UNCHANGED <<row, cacheVars, playerVars>>
    BY <1>1 DEF getUnion, Objects, ProcRecord
  <2>3. e.at = "loading" /\ e.union = u
    BY DEF Objects, ProcRecord
  <2>4. Presence'
    BY <2>2 DEF Objects, Presence, playerVars
  <2> HIDE DEF e
  <2> QED
    BY <2>1, <2>2, <2>3, <2>4, ProcObjects DEF Objects, cacheVars
<1>2. CASE Select(p)
  <2>1. row[proc[p].union] \in Good \cup {NoRow}
    BY <1>2 DEF Select, Objects, ProcFits
  <2> DEFINE e == [proc[p] EXCEPT !.at = "loaded", !.row = row[proc[p].union]]
  <2>2. e \in ProcRecord /\ e.at = "loaded"
    BY <2>1 DEF Objects, ProcRecord
  <2>3. proc' = [proc EXCEPT ![p] = e] /\ UNCHANGED <<row, cacheVars, playerVars>>
    BY <1>2 DEF Select, Objects, ProcRecord
  <2>4. Presence'
    BY <2>3 DEF Objects, Presence, playerVars
  <2> HIDE DEF e
  <2> QED
    BY <2>2, <2>3, <2>4, ProcObjects DEF Objects, cacheVars
<1>3. CASE NotFound(p)
  BY <1>3, IdleTyped DEF NotFound, Objects, Presence, playerVars, cacheVars, ProcFits
<1>4. ASSUME NEW u \in Union, Refused(p, u) PROVE Objects'
  <2>1. Presence'
    BY <1>4 DEF Refused, playerVars, Objects, Presence
  <2>2. /\ Object(p, u) \in Good /\ Put(u, Object(p, u)) /\ UNCHANGED row
        /\ proc' = [Holders(p, u, Object(p, u)) EXCEPT ![p] = Idle]
    BY <1>4, ObjectGood DEF Refused, Answer
  <2> QED
    BY <2>1, <2>2, IdleTyped, AnswerObjects
<1> QED
  BY <1>1, <1>2, <1>3, <1>4

\* Founding a union.
LEMMA CreateObjects ==
    ASSUME Objects, NEW p \in Proc,
           \/ CreateFails(p) \/ Created(p)
           \/ \E r \in Rid : createUnion(p, r)
           \/ \E u \in Union : InsertUnion(p, u)
    PROVE  Objects'
<1>1. ASSUME NEW r \in Rid, createUnion(p, r) PROVE Objects'
  <2> DEFINE e == [proc[p] EXCEPT !.at = "creating", !.rid = r]
  <2>1. e \in ProcRecord
    BY DEF Objects, ProcRecord
  <2>2. proc' = [proc EXCEPT ![p] = e] /\ UNCHANGED <<row, cacheVars, playerVars>>
    BY <1>1 DEF createUnion, Objects, ProcRecord
  <2>3. e.at = "creating" /\ e.rid = r
    BY DEF Objects, ProcRecord
  <2>4. Presence'
    BY <2>2 DEF Objects, Presence, playerVars
  <2> HIDE DEF e
  <2> QED
    BY <2>1, <2>2, <2>3, <2>4, ProcObjects DEF Objects, cacheVars
<1>2. ASSUME NEW u \in Union, InsertUnion(p, u) PROVE Objects'
  <2> DEFINE c == [members |-> {proc[p].rid}, chairman |-> proc[p].rid,
                   vice |-> NoRid, state |-> 1]
  <2>1. proc[p].rid \in Rid /\ proc[p].at = "creating"
    BY <1>2 DEF InsertUnion, Objects, ProcFits
  <2>2. c \in Good
    BY <2>1, Founded
  <2>3. /\ row' = [row EXCEPT ![u] = c]
        /\ proc' = [proc EXCEPT ![p].at = "created", ![p].union = u, ![p].row = c]
        /\ UNCHANGED <<cacheVars, playerVars>>
    BY <1>2 DEF InsertUnion
  <2> HIDE DEF c
  <2> DEFINE e == [proc[p] EXCEPT !.at = "created", !.union = u, !.row = c]
  <2>4. e \in ProcRecord /\ e.union = u /\ e.rid \in Rid
    BY <2>1, <2>2 DEF Objects, ProcRecord
  <2>5. proc' = [proc EXCEPT ![p] = e]
    BY <2>3 DEF Objects, ProcRecord
  <2>6. row' \in [Union -> Good \cup {NoRow}] /\ Presence'
    BY <2>2, <2>3 DEF Objects, Presence, playerVars
  <2> HIDE DEF e
  <2> QED
    BY <2>3, <2>4, <2>5, <2>6, ProcObjects DEF Objects, cacheVars
<1>3. CASE CreateFails(p)
  BY <1>3, IdleTyped DEF CreateFails, Objects, Presence, playerVars, cacheVars, ProcFits
<1>4. CASE Created(p)
  <2>1. proc[p].union \in Union /\ proc[p].rid \in Rid /\ proc[p].row \in Good \cup {NoRow}
    BY <1>4 DEF Created, Objects, ProcFits, ProcRecord
  <2>2. /\ unions' \in [Union -> Good \cup {NoRow}] /\ online_members' \in SUBSET Union
        /\ row' = row
    BY <1>4, <2>1 DEF Created, Put, Objects
  <2>3. Presence'
    BY <1>4, <2>1 DEF Created, Objects, Presence
  <2>4. proc' \in [Proc -> ProcRecord] /\ ProcFits'
    BY <1>4, IdleTyped DEF Created, Objects, ProcFits, ProcRecord
  <2> QED
    BY <2>2, <2>3, <2>4 DEF Objects
<1> QED
  BY <1>1, <1>2, <1>3, <1>4

\* The database answers a coroutine, and the coroutine goes on.
LEMMA AnsweredObjects ==
    ASSUME Objects, NEW p \in Proc,
           InsertApply(p) \/ ApplyFails(p) \/ Execute(p) \/ Saved(p)
    PROVE  Objects'
<1>1. CASE InsertApply(p) \/ ApplyFails(p)
  <2>1. proc' = [proc EXCEPT ![p] = Idle] /\ UNCHANGED <<row, cacheVars, playerVars>>
    BY <1>1 DEF InsertApply, ApplyFails
  <2>2. Presence'
    BY <2>1 DEF Objects, Presence, playerVars
  <2> QED
    BY <2>1, <2>2, IdleTyped, ProcObjects DEF Objects, cacheVars
<1>2. CASE Execute(p)
  <2> DEFINE e == [proc[p] EXCEPT !.at = "saved", !.row = NoRow]
  <2>1. e \in ProcRecord /\ e.at = "saved" /\ e.union = proc[p].union
    BY DEF Objects, ProcRecord
  <2>2. proc[p].union \in Union /\ proc[p].row \in Good \cup {NoRow}
    BY <1>2 DEF Execute, Objects, ProcFits, ProcRecord
  <2>3. proc' = [proc EXCEPT ![p] = e] /\ UNCHANGED <<cacheVars, playerVars>>
    BY <1>2 DEF Execute, Objects, ProcRecord
  <2>4. row' \in [Union -> Good \cup {NoRow}] /\ Presence'
    BY <1>2, <2>2 DEF Execute, Objects, Presence, playerVars
  <2> HIDE DEF e
  <2> QED
    BY <2>1, <2>2, <2>3, <2>4, ProcObjects DEF Objects, cacheVars
<1>3. CASE Saved(p)
  <2>1. proc[p].union \in Union
    BY <1>3 DEF Saved, Objects, ProcFits
  <2>2. proc' = [proc EXCEPT ![p] = Idle] /\ UNCHANGED <<row, unions>>
    BY <1>3 DEF Saved
  <2>3. Presence' /\ online_members' \in SUBSET Union
    <3>1. CASE proc[p].kind = "none"
      BY <1>3, <3>1 DEF Saved, Objects, Presence, playerVars
    <3>2. CASE proc[p].kind = "offline"
      <4>1. UNCHANGED online_members
        BY <1>3, <3>2 DEF Saved
      <4>2. updatePlayerOffline(proc[p].rid)
        BY <1>3, <3>2 DEF Saved
      <4>3. CASE UNCHANGED playerVars
        BY <4>1, <4>3 DEF Objects, Presence, playerVars
      <4>4. CASE ~(UNCHANGED playerVars)
        BY <4>1, <4>2, <4>4 DEF Objects, Presence, updatePlayerOffline
      <4> QED
        BY <4>3, <4>4
    <3>3. CASE proc[p].kind = "online"
      BY <1>3, <2>1, <3>3 DEF Saved, Objects, Presence
    <3> QED
      BY <1>3, <3>1, <3>2, <3>3 DEF Saved
  <2> QED
    BY <2>2, <2>3, IdleTyped, ProcObjects DEF Objects
<1> QED
  BY <1>1, <1>2, <1>3

\* The players come and go.
LEMMA PlayerObjects ==
    ASSUME Objects, NEW r \in Rid,
           \/ playerOffline(r)
           \/ \E p \in Proc : playerOnlineAlone(p, r) \/ \E u \in Union : playerOnline(p, u, r)
    PROVE  Objects'
<1>1. ASSUME NEW p \in Proc, NEW u \in Union, playerOnline(p, u, r) PROVE Objects'
  <2>1. Presence'
    BY <1>1 DEF playerOnline, Objects, Presence
  <2>2. /\ Object(p, u) \in Good /\ Put(u, Object(p, u)) /\ UNCHANGED row
        /\ proc' = [Holders(p, u, Object(p, u)) EXCEPT ![p] = Idle]
    BY <1>1, ObjectGood DEF playerOnline, Answer
  <2> QED
    BY <2>1, <2>2, IdleTyped, AnswerObjects
<1>2. ASSUME NEW p \in Proc, playerOnlineAlone(p, r) PROVE Objects'
  <2>1. proc[p].union \in Union \cup {NoUnion}
    BY DEF Objects, ProcRecord
  <2>2. /\ proc' = [proc EXCEPT ![p] = Idle] /\ UNCHANGED <<row, unions>>
        /\ Presence' /\ online_members' \in SUBSET Union
    BY <1>2, <2>1 DEF playerOnlineAlone, Objects, Presence
  <2> QED
    BY <2>2, IdleTyped, ProcObjects DEF Objects
<1>3. CASE playerOffline(r)
  BY <1>3, OfflinePresence DEF playerOffline, Objects, cacheVars, ProcFits
<1> QED
  BY <1>1, <1>2, <1>3

\* The cached object of a union goes.
LEMMA DropObjects ==
    ASSUME Objects, NEW u \in Union, Drop(u)
    PROVE  unions' \in [Union -> Good \cup {NoRow}] /\ online_members' \in SUBSET Union
  BY DEF Drop, Objects

LEMMA OrphanedTyped ==
    ASSUME Objects, NEW u \in Union
    PROVE  /\ Orphaned(u) \in [Proc -> ProcRecord]
           /\ \A q \in Proc : /\ Orphaned(u)[q].at = proc[q].at
                              /\ Orphaned(u)[q].union = proc[q].union
                              /\ Orphaned(u)[q].rid = proc[q].rid
  BY DEF Objects, ProcRecord, Orphaned

\* The unload timer of a union.
LEMMA UnloadObjects ==
    ASSUME Objects, NEW u \in Union, UnloadTimer(u) \/ ExecuteUnload(u) \/ Unload(u)
    PROVE  Objects'
<1>1. CASE UnloadTimer(u)
  BY <1>1 DEF UnloadTimer, Quiet, Objects, Presence, cacheVars, ProcFits
<1>2. CASE ExecuteUnload(u)
  BY <1>2 DEF ExecuteUnload, Objects, Presence, cacheVars, ProcFits
<1>3. CASE Unload(u)
  <2>1. Presence'
    BY <1>3 DEF Unload, Quiet, Objects, Presence
  <2>2. proc' \in [Proc -> ProcRecord] /\ ProcFits'
    BY <1>3, OrphanedTyped DEF Unload, Objects, ProcFits
  <2> QED
    BY <1>3, <2>1, <2>2, DropObjects DEF Unload, Objects
<1> QED
  BY <1>1, <1>2, <1>3

\* The rest of a dismissal, completed or not.
LEMMA DismissedObjects ==
    ASSUME Objects, NEW p \in Proc, Dismissed(p)
    PROVE  Objects'
<1>1. proc[p].union \in Union
  BY DEF Dismissed, Objects, ProcFits
<1>2. Presence'
  BY DEF Dismissed, Objects, Presence
<1>3. unions' \in [Union -> Good \cup {NoRow}] /\ online_members' \in SUBSET Union
  BY <1>1, DropObjects DEF Dismissed, Objects, cacheVars
<1>4. \/ proc' = [proc EXCEPT ![p] = Idle]
      \/ proc' = [Orphaned(proc[p].union) EXCEPT ![p] = Idle]
  BY DEF Dismissed
<1>5. proc' \in [Proc -> ProcRecord]
  BY <1>1, <1>4, IdleTyped, OrphanedTyped DEF Objects
<1>6. ProcFits'
  <2>1. proc'[p].at = "idle"
    BY <1>1, <1>4, IdleTyped, OrphanedTyped DEF Objects
  <2>2. \A q \in Proc \ {p} : /\ proc'[q].at = proc[q].at
                              /\ proc'[q].union = proc[q].union
                              /\ proc'[q].rid = proc[q].rid
    BY <1>1, <1>4, OrphanedTyped DEF Objects
  <2> QED
    BY <2>1, <2>2 DEF Objects, ProcFits
<1> QED
  BY <1>2, <1>3, <1>5, <1>6 DEF Dismissed, Objects

LEMMA RestartObjects ==
    ASSUME Objects, Restart
    PROVE  Objects'
<1>1. unions' \in [Union -> Good \cup {NoRow}] /\ online_members' \in SUBSET Union
  BY DEF Restart, Objects
<1>2. Presence'
  BY DEF Restart, Quiet, Objects, Presence
<1>3. proc' \in [Proc -> ProcRecord] /\ ProcFits'
  BY IdleTyped DEF Restart, Objects, ProcFits
<1> QED
  BY <1>1, <1>2, <1>3 DEF Restart, Objects

-----------------------------------------------------------------------------
(* The steps of the applications.  DecidedStay is DecisionFinal's action. *)

DecidedStay == \A a \in applyRow : a.state # "pending" => a \in applyRow'

LEMMA DecideApplications ==
    ASSUME Applications, NEW u \in Union, NEW a \in applies, Decidable(a, u),
           NEW s \in {"reject", "accept"}, Decide(a, s)
    PROVE  Applications' /\ DecidedStay
<1> DEFINE b == [a EXCEPT !.state = s]
<1>1. /\ b \in Apply /\ b.id = a.id /\ b.state = s /\ s # "pending"
      /\ a.id # 0 /\ a.state = "pending" /\ a \in Apply
  BY DEF Applications, Apply, Decidable
<1>2. /\ applies' = (applies \ {a}) \cup {b} /\ applyWrites' = applyWrites \cup {b}
      /\ applyRow' = applyRow /\ lastApply' = lastApply
  BY DEF Decide, SetState
<1> HIDE DEF b
<1>3. AppliesAgree'
  BY <1>1, <1>2 DEF Applications, AppliesAgree
<1> QED
  BY <1>1, <1>2, <1>3 DEF Applications, DecidedStay

LEMMA ApplyApplications ==
    ASSUME Applications, NEW p \in Proc, NEW u \in Union, NEW r \in Rid, applyJoinUnion(p, u, r)
    PROVE  Applications' /\ DecidedStay
<1> DEFINE b == [union |-> u, rid |-> r, id |-> 0, state |-> "pending"]
<1>1. b \in Apply /\ b.id = 0 /\ b.state = "pending"
  BY DEF Apply
<1>2. applies' = applies \cup {b} /\ UNCHANGED <<applyWrites, applyRow, lastApply>>
  BY DEF applyJoinUnion
<1> HIDE DEF b
<1>3. AppliesAgree'
  BY <1>1, <1>2 DEF Applications, AppliesAgree
<1> QED
  BY <1>1, <1>2, <1>3 DEF Applications, DecidedStay

LEMMA InsertApplications ==
    ASSUME Objects, Applications, NEW p \in Proc, InsertApply(p)
    PROVE  Applications' /\ DecidedStay
<1> DEFINE b == [union |-> proc[p].union, rid |-> proc[p].rid, id |-> lastApply + 1,
                 state |-> "pending"]
           z == [b EXCEPT !.id = 0]
<1>0. proc[p].union \in Union /\ proc[p].rid \in Rid
  BY DEF InsertApply, Objects, ProcFits
<1>1. b \in Apply /\ b.id = lastApply + 1 /\ b.state = "pending" /\ z.id = 0
      /\ z.state = "pending"
  BY <1>0 DEF Apply, Applications
<1>2. /\ applies' = (applies \ {z}) \cup {b} /\ applyRow' = applyRow \cup {b}
      /\ lastApply' = lastApply + 1 /\ applyWrites' = applyWrites
  BY DEF InsertApply
<1>3. \A a \in Apply : a.id \in Nat
  BY DEF Apply
<1> HIDE DEF b, z
<1>4. \A a \in applies \cup applyRow : a.id # b.id /\ a.id \in Nat
  BY <1>1, <1>3 DEF Applications, AppliesAgree
<1>5. AppliesAgree'
  BY <1>1, <1>2, <1>3, <1>4 DEF Applications, AppliesAgree
<1> QED
  BY <1>1, <1>2, <1>5 DEF Applications, DecidedStay

\* The statement of a decided application: the stored one is pending, or
\* decided the same way.
LEMMA ExecuteApplications ==
    ASSUME Applications, NEW a \in applyWrites, ExecuteApply(a)
    PROVE  Applications' /\ DecidedStay
<1>1. a \in applies /\ a \in Apply /\ a.state # "pending"
  BY DEF Applications, AppliesAgree
<1>2. \A c \in applyRow' : c \in applyRow \/ (c = a /\ \E b \in applyRow : b.id = a.id)
  BY DEF ExecuteApply
<1>3. \A c \in applyRow' : c \in applyRow => c.id # a.id \/ c = a
  BY DEF ExecuteApply
<1>4. \A b \in applyRow : b.state # "pending" /\ b.id = a.id => b = a
  BY <1>1 DEF Applications, AppliesAgree
<1>5. DecidedStay
  BY <1>4 DEF ExecuteApply, DecidedStay
<1>6. UNCHANGED <<applies, lastApply>> /\ applyWrites' \subseteq applyWrites
  BY DEF ExecuteApply
<1>7. AppliesAgree'
  BY <1>1, <1>2, <1>3, <1>6 DEF Applications, AppliesAgree
<1> QED
  BY <1>1, <1>2, <1>5, <1>6, <1>7 DEF Applications

LEMMA RestartApplications ==
    ASSUME Applications, Restart
    PROVE  Applications' /\ DecidedStay
<1>1. AppliesAgree'
  BY DEF Restart, Applications, AppliesAgree
<1> QED
  BY <1>1 DEF Restart, Applications, DecidedStay

LEMMA KeptApplications ==
    ASSUME Applications, UNCHANGED <<applies, applyRow, lastApply>>,
           applyWrites' \subseteq applyWrites
    PROVE  Applications' /\ DecidedStay
<1>1. AppliesAgree'
  BY DEF Applications, AppliesAgree
<1> QED
  BY <1>1 DEF Applications, DecidedStay

-----------------------------------------------------------------------------
(* The two halves together. *)

LEMMA InitHalves ==
    ASSUME Init
    PROVE  Objects /\ Applications
<1>1. Objects
  BY IdleTyped DEF Init, Quiet, Objects, Presence, ProcFits
<1> QED
  BY <1>1 DEF Init, Applications, AppliesAgree

LEMMA CommandApplications ==
    ASSUME Applications, NEW p \in Proc, NEW u \in Union, NEW r \in Rid, Command(p, u, r)
    PROVE  Applications' /\ DecidedStay
<1>1. CASE applyJoinUnion(p, u, r)
  BY <1>1, ApplyApplications
<1>2. ASSUME NEW a \in applies, approveApply(p, u, r, a) \/ rejectApply(p, u, r, a)
      PROVE  Applications' /\ DecidedStay
  <2>1. Decidable(a, u) /\ \E s \in {"reject", "accept"} : Decide(a, s)
    BY <1>2 DEF approveApply, rejectApply
  <2> QED
    BY <2>1, DecideApplications
<1>3. CASE UNCHANGED applyVars
  BY <1>3, KeptApplications DEF applyVars
<1> QED
  BY <1>1, <1>2, <1>3
     DEF Command, dismissUnion, exitUnion, modNotice, kickMember, appointViceChairman,
         cancelViceChairman, abdicateChairman

LEMMA NextStep ==
    ASSUME IInv, Next
    PROVE  IInv' /\ DecidedStay
<1>1. Objects /\ Applications
  BY Halves
<1>2. applies \subseteq Apply /\ Player \subseteq Rid
  BY <1>1, UnionAssumption DEF Applications
<1>3. ASSUME UNCHANGED applyVars PROVE Applications' /\ DecidedStay
  BY <1>1, <1>3, KeptApplications DEF applyVars
<1> DEFINE Goal == Objects' /\ Applications' /\ DecidedStay
<1>4. ASSUME NEW p \in Proc, NEW u \in Union, NEW r \in Rid, Command(p, u, r) PROVE Goal
  BY <1>1, <1>2, <1>4, CommandObjects, CommandApplications
<1>5. ASSUME NEW p \in Proc, NEW u \in Union, getUnion(p, u) \/ Refused(p, u) PROVE Goal
  BY <1>1, <1>3, <1>5, LoadObjects DEF getUnion, Refused
<1>6. ASSUME NEW p \in Proc, Select(p) \/ NotFound(p) PROVE Goal
  BY <1>1, <1>3, <1>6, LoadObjects DEF Select, NotFound
<1>7. ASSUME NEW p \in Proc, NEW u \in Union, InsertUnion(p, u) PROVE Goal
  BY <1>1, <1>3, <1>7, CreateObjects DEF InsertUnion
<1>8. ASSUME NEW p \in Proc, NEW r \in Rid, createUnion(p, r) PROVE Goal
  BY <1>1, <1>3, <1>8, CreateObjects DEF createUnion
<1>9. ASSUME NEW p \in Proc, CreateFails(p) \/ Created(p) PROVE Goal
  BY <1>1, <1>3, <1>9, CreateObjects DEF CreateFails, Created
<1>10. ASSUME NEW p \in Proc, InsertApply(p) PROVE Goal
  BY <1>1, <1>10, AnsweredObjects, InsertApplications
<1>11. ASSUME NEW p \in Proc, ApplyFails(p) \/ Execute(p) \/ Saved(p) PROVE Goal
  BY <1>1, <1>3, <1>11, AnsweredObjects DEF ApplyFails, Execute, Saved
<1>12. ASSUME NEW p \in Proc, Dismissed(p) PROVE Goal
  BY <1>1, <1>3, <1>12, DismissedObjects DEF Dismissed
<1>13. ASSUME NEW r \in Player, playerOffline(r) PROVE Goal
  BY <1>1, <1>2, <1>3, <1>13, PlayerObjects DEF playerOffline
<1>14. ASSUME NEW p \in Proc, NEW r \in Player,
              playerOnlineAlone(p, r) \/ \E u \in Union : playerOnline(p, u, r)
       PROVE  Goal
  BY <1>1, <1>2, <1>3, <1>14, PlayerObjects DEF playerOnlineAlone, playerOnline
<1>15. ASSUME NEW u \in Union, UnloadTimer(u) \/ ExecuteUnload(u) \/ Unload(u) PROVE Goal
  BY <1>1, <1>3, <1>15, UnloadObjects DEF UnloadTimer, ExecuteUnload, Unload
<1>16. ASSUME NEW a \in applyWrites, ExecuteApply(a) \/ ExecuteApplyFails(a) PROVE Goal
  <2>1. Objects'
    BY <1>1, <1>16
       DEF ExecuteApply, ExecuteApplyFails, Objects, Presence, playerVars, cacheVars, ProcFits
  <2>2. CASE ExecuteApply(a)
    BY <1>1, <2>1, <2>2, ExecuteApplications
  <2>3. CASE ExecuteApplyFails(a)
    BY <1>1, <2>1, <2>3, KeptApplications DEF ExecuteApplyFails
  <2> QED
    BY <1>16, <2>2, <2>3
<1>17. ASSUME Restart PROVE Goal
  BY <1>1, <1>17, RestartObjects, RestartApplications
<1>18. Goal
  BY <1>4, <1>5, <1>6, <1>7, <1>8, <1>9, <1>10, <1>11, <1>12, <1>13, <1>14, <1>15, <1>16,
     <1>17 DEF Next, Operation
<1>19. Objects' /\ Applications' => IInv'
  BY Whole, PTL
<1> QED
  BY <1>18, <1>19

-----------------------------------------------------------------------------
(* The theorems. *)

\* IInv holds in every state of the union service.
THEOREM Invariance == Spec => []IInv
<1>1. Init => IInv
  BY InitHalves, Whole
<1>2. IInv /\ [Next]_vars => IInv'
  <2> SUFFICES ASSUME IInv, UNCHANGED vars PROVE IInv'
    BY NextStep
  <2> QED
    BY DEF vars, cacheVars, playerVars, applyVars, IInv, TypeOK, ProcFits, RolesValid, CapHeld,
           Copies, AppliesAgree
<1> QED
  BY <1>1, <1>2, PTL DEF Spec

\* However commands, loads, saves and restarts interleave, the chairman of every
\* copy of a union is one of its members, and its vice chairman another.
THEOREM AlwaysLed == Spec => []RolesValid
<1>1. IInv => RolesValid
  BY DEF IInv
<1> QED
  BY <1>1, Invariance, PTL

\* No copy of a union ever has more members than approveApply's limit.
THEOREM NeverOverfull == Spec => []CapHeld
<1>1. IInv => CapHeld
  BY DEF IInv
<1> QED
  BY <1>1, Invariance, PTL

\* What the database holds as decided about an application stays as it is.
THEOREM DecidedOnce == Spec => DecisionFinal
<1>1. IInv /\ [Next]_vars => [DecidedStay]_vars
  BY NextStep
<1>2. DecidedStay <=> \A a \in applyRow : a.state # "pending" => a \in applyRow'
  BY DEF DecidedStay
<1>3. Spec => [][DecidedStay]_vars
  BY <1>1, Invariance, PTL DEF Spec
<1> QED
  BY <1>2, <1>3, PTL DEF DecisionFinal
=============================================================================
