---------------------------- MODULE UnionManager ----------------------------
(***************************************************************************)
(* The union (alliance) service server/game/union_manager.lua with the two *)
(* tables of the database it keeps: unions and applications to join them.  *)
(*                                                                         *)
(* A command runs in a coroutine of its own, which yields when it asks the *)
(* database; the other commands run meanwhile on the same cached objects.  *)
(* The database executes the statements of different coroutines in any     *)
(* order (a pool of connections), and may fail any of them.  What a        *)
(* coroutine that waits for its union will be asked to do shows only when  *)
(* it goes on, so the command is chosen then.                              *)
(*                                                                         *)
(* Names, notices and logs are left out.  No caller passes an agent to     *)
(* playerOnline, so the tables of union_online_members never hold anybody: *)
(* only their presence matters.                                            *)
(***************************************************************************)
EXTENDS Integers, FiniteSets

CONSTANTS
    Rid,         \* roles
    Player,      \* bound: the roles that ever come online
    Union,       \* union ids
    Proc,        \* coroutines of the service
    NoRid,       \* 0, no vice chairman
    NoUnion,     \* 0, a role that is online without a union
    Off,         \* a role that is not in online_players
    NoRow,
    MaxMembers,  \* 100 in approveApply
    MaxApply     \* bound: applications ever made

ASSUME UnionAssumption ==
    /\ NoRid \notin Rid /\ Player \subseteq Rid
    /\ NoUnion \notin Union /\ Off \notin Union /\ NoUnion # Off
    /\ IsFiniteSet(Rid)
    /\ MaxMembers \in Nat \ {0} /\ MaxApply \in Nat

VARIABLES
    row,            \* the table of unions in the database
    unions,         \* ld.unions, the cached objects
    online_members, \* the unions with a table in ld.union_online_members
    online_players, \* ld.online_players: the union_id of a role's entry
    unload,         \* ld.unload_timers, and how far the timer's callback has come
    applies,        \* ld.union_applies
    applyRow,       \* the table of applications in the database
    applyWrites,    \* updates of applications forked and not executed yet
    lastApply,      \* the last id the database gave to an application
    proc            \* the coroutines

cacheVars == <<unions, online_members>>
playerVars == <<online_players, unload>>
applyVars == <<applies, applyRow, applyWrites, lastApply>>
vars == <<row, cacheVars, playerVars, applyVars, proc>>

Row == [members : SUBSET Rid, chairman : Rid, vice : Rid \cup {NoRid}, state : {0, 1}]
Apply == [union : Union, rid : Rid, id : Nat, state : {"pending", "reject", "accept"}]

Idle == [at |-> "idle", union |-> NoUnion, row |-> NoRow, kind |-> "none",
         rid |-> NoRid, roster |-> {}]
Quiet == [at |-> "nil", row |-> NoRow]

Init ==
    /\ row = [u \in Union |-> NoRow]
    /\ unions = [u \in Union |-> NoRow]
    /\ online_members = {}
    /\ online_players = [r \in Rid |-> Off]
    /\ unload = [u \in Union |-> Quiet]
    /\ applies = {} /\ applyRow = {} /\ applyWrites = {} /\ lastApply = 0
    /\ proc = [p \in Proc |-> Idle]

-----------------------------------------------------------------------------
(* getUnion and the object a command works on. *)

\* loadUnionFromDb: the union is not cached, ...
getUnion(p, u) ==
    /\ proc[p].at = "idle" /\ unions[u] = NoRow
    /\ proc' = [proc EXCEPT ![p].at = "loading", ![p].union = u]
    /\ UNCHANGED <<row, cacheVars, playerVars, applyVars>>

\* ... the database reads the row, a dismissed one as well, ...
Select(p) ==
    /\ proc[p].at = "loading"
    /\ proc' = [proc EXCEPT ![p].at = "loaded", ![p].row = row[proc[p].union]]
    /\ UNCHANGED <<row, cacheVars, playerVars, applyVars>>

\* ... and the answer finds none, or an error.
NotFound(p) ==
    /\ \/ proc[p].at = "loading"
       \/ proc[p].at = "loaded" /\ proc[p].row = NoRow
    /\ proc' = [proc EXCEPT ![p] = Idle]
    /\ UNCHANGED <<row, cacheVars, playerVars, applyVars>>

\* The coroutine p has the object of u in hand: cached, or just loaded.
Has(p, u) ==
    \/ proc[p].at = "idle" /\ unions[u] # NoRow
    \/ proc[p].at = "loaded" /\ proc[p].union = u /\ proc[p].row # NoRow
Object(p, u) == IF proc[p].at = "loaded" THEN proc[p].row ELSE unions[u]

\* The object of u becomes c: a loaded one replaces the cached one, and a
\* coroutine that dismisses the old one keeps it; a cached one changes in place.
Holders(p, u, c) ==
    [q \in Proc |->
        IF proc[q].kind # "dismiss" \/ proc[q].union # u THEN proc[q]
        ELSE IF proc[p].at = "loaded" THEN [proc[q] EXCEPT !.kind = "orphan"]
        ELSE [proc[q] EXCEPT !.roster = c.members]]
Put(u, c) ==
    /\ unions' = [unions EXCEPT ![u] = c]
    /\ online_members' = online_members \cup {u}

\* The command ends without a change of the object.
Answer(p, u) ==
    /\ Put(u, Object(p, u))
    /\ proc' = [Holders(p, u, Object(p, u)) EXCEPT ![p] = Idle]

\* saveUnion(c), and what the command does afterwards.
Save(p, u, c, kind, r) ==
    /\ Put(u, c)
    /\ proc' = [Holders(p, u, c) EXCEPT
                   ![p] = [at |-> "saving", union |-> u, row |-> c, kind |-> kind, rid |-> r,
                           roster |-> IF kind = "dismiss" THEN c.members ELSE {}]]

\* A command that reads, or that an early return refuses.
Refused(p, u) ==
    /\ Has(p, u)
    /\ Answer(p, u)
    /\ UNCHANGED <<row, playerVars, applyVars>>

hasPermission(c, r) == c.chairman = r \/ c.vice = r
SetState(a, s) == applies' = (applies \ {a}) \cup {[a EXCEPT !.state = s]}

-----------------------------------------------------------------------------
(* The commands, up to their saveUnion. *)

\* createUnion: the statements run in the database between these two steps; a
\* name that is taken ends it like an error.
createUnion(p, r) ==
    /\ proc[p].at = "idle"
    /\ proc' = [proc EXCEPT ![p].at = "creating", ![p].rid = r]
    /\ UNCHANGED <<row, cacheVars, playerVars, applyVars>>

InsertUnion(p, u) ==
    /\ proc[p].at = "creating" /\ row[u] = NoRow
    /\ LET c == [members |-> {proc[p].rid}, chairman |-> proc[p].rid, vice |-> NoRid, state |-> 1] IN
       /\ row' = [row EXCEPT ![u] = c]
       /\ proc' = [proc EXCEPT ![p].at = "created", ![p].union = u, ![p].row = c]
    /\ UNCHANGED <<cacheVars, playerVars, applyVars>>

CreateFails(p) ==
    /\ proc[p].at = "creating"
    /\ proc' = [proc EXCEPT ![p] = Idle]
    /\ UNCHANGED <<row, cacheVars, playerVars, applyVars>>

\* The new union is cached, and its founder's entry names it.
Created(p) ==
    LET u == proc[p].union  r == proc[p].rid IN
    /\ proc[p].at = "created"
    /\ Put(u, proc[p].row)
    /\ online_players' = [online_players EXCEPT ![r] = IF @ = Off THEN Off ELSE u]
    /\ proc' = [q \in Proc |->
                  IF q = p THEN Idle
                  ELSE IF proc[q].kind = "dismiss" /\ proc[q].union = u
                  THEN [proc[q] EXCEPT !.kind = "orphan"] ELSE proc[q]]
    /\ UNCHANGED <<row, unload, applyVars>>

dismissUnion(p, u, r) ==
    LET c == Object(p, u) IN
    /\ Has(p, u) /\ c.state = 1 /\ c.chairman = r
    /\ Save(p, u, [c EXCEPT !.state = 0], "dismiss", NoRid)
    /\ UNCHANGED <<row, playerVars, applyVars>>

\* applyJoinUnion: the application is listed before the database gives its id.
applyJoinUnion(p, u, r) ==
    LET c == Object(p, u) IN
    /\ Has(p, u) /\ c.state = 1
    /\ ~ \E a \in applies : a.union = u /\ a.rid = r /\ a.state = "pending"
    /\ applies' = applies \cup {[union |-> u, rid |-> r, id |-> 0, state |-> "pending"]}
    /\ Put(u, c)
    /\ proc' = [Holders(p, u, c) EXCEPT ![p] = [Idle EXCEPT !.at = "applying", !.union = u, !.rid = r]]
    /\ UNCHANGED <<row, playerVars, applyRow, applyWrites, lastApply>>

InsertApply(p) ==
    LET a == [union |-> proc[p].union, rid |-> proc[p].rid, id |-> lastApply + 1, state |-> "pending"] IN
    /\ proc[p].at = "applying" /\ lastApply < MaxApply
    /\ lastApply' = lastApply + 1
    /\ applyRow' = applyRow \cup {a}
    /\ applies' = (applies \ {[a EXCEPT !.id = 0]}) \cup {a}
    /\ proc' = [proc EXCEPT ![p] = Idle]
    /\ UNCHANGED <<row, cacheVars, playerVars, applyWrites>>

\* The insert fails: the application stays listed, without an id.
ApplyFails(p) ==
    /\ proc[p].at = "applying"
    /\ proc' = [proc EXCEPT ![p] = Idle]
    /\ UNCHANGED <<row, cacheVars, playerVars, applyVars>>

\* Mutant of Decidable: what was decided is not looked at.
DecidableAgain(a, u) == a.union = u /\ a.id # 0

\* An application that approveApply and rejectApply find by its id.
Decidable(a, u) == a.union = u /\ a.id # 0 /\ a.state = "pending"

\* saveApplyAsync of a decided application.
Decide(a, s) ==
    /\ SetState(a, s)
    /\ applyWrites' = applyWrites \cup {[a EXCEPT !.state = s]}
    /\ UNCHANGED <<applyRow, lastApply>>

\* Mutant of approveApply: the limit is not looked at.
approveAnyNumber(p, u, r, a) ==
    LET c == Object(p, u) IN
    /\ Has(p, u) /\ hasPermission(c, r) /\ Decidable(a, u)
    /\ Decide(a, "accept")
    /\ Save(p, u, [c EXCEPT !.members = @ \cup {a.rid}], "online", a.rid)
    /\ UNCHANGED <<row, playerVars>>

approveApply(p, u, r, a) ==
    LET c == Object(p, u) IN
    /\ Has(p, u) /\ hasPermission(c, r) /\ Decidable(a, u)
    /\ Cardinality(c.members) < MaxMembers
    /\ Decide(a, "accept")
    /\ Save(p, u, [c EXCEPT !.members = @ \cup {a.rid}], "online", a.rid)
    /\ UNCHANGED <<row, playerVars>>

rejectApply(p, u, r, a) ==
    /\ Has(p, u) /\ hasPermission(Object(p, u), r) /\ Decidable(a, u)
    /\ Decide(a, "reject")
    /\ Answer(p, u)
    /\ UNCHANGED <<row, playerVars>>

\* A member goes, and the title of vice chairman with it.
Without(c, r) ==
    [c EXCEPT !.members = @ \ {r}, !.vice = IF @ = r THEN NoRid ELSE @]

kickMember(p, u, target, r) ==
    LET c == Object(p, u) IN
    /\ Has(p, u) /\ hasPermission(c, r)
    /\ target # r /\ target # c.chairman /\ target \in c.members
    /\ Save(p, u, Without(c, target), "offline", target)
    /\ UNCHANGED <<row, playerVars, applyVars>>

exitUnion(p, u, r) ==
    LET c == Object(p, u) IN
    /\ Has(p, u) /\ r \in c.members /\ c.chairman # r
    /\ Save(p, u, Without(c, r), "offline", r)
    /\ UNCHANGED <<row, playerVars, applyVars>>

appointViceChairman(p, u, target, r) ==
    LET c == Object(p, u) IN
    /\ Has(p, u) /\ c.chairman = r
    /\ target \in c.members /\ target # c.chairman
    /\ Save(p, u, [c EXCEPT !.vice = target], "none", NoRid)
    /\ UNCHANGED <<row, playerVars, applyVars>>

cancelViceChairman(p, u, target, r) ==
    LET c == Object(p, u) IN
    /\ Has(p, u) /\ c.chairman = r /\ c.vice = target
    /\ Save(p, u, [c EXCEPT !.vice = NoRid], "none", NoRid)
    /\ UNCHANGED <<row, playerVars, applyVars>>

\* Mutant of abdicateChairman: the vice chairman stays.
abdicateKeepsVice(p, u, target, r) ==
    LET c == Object(p, u) IN
    /\ Has(p, u) /\ c.chairman = r
    /\ target # r /\ target \in c.members
    /\ Save(p, u, [c EXCEPT !.chairman = target], "none", NoRid)
    /\ UNCHANGED <<row, playerVars, applyVars>>

abdicateChairman(p, u, target, r) ==
    LET c == Object(p, u) IN
    /\ Has(p, u) /\ c.chairman = r
    /\ target # r /\ target \in c.members
    /\ Save(p, u, [c EXCEPT !.chairman = target, !.vice = NoRid], "none", NoRid)
    /\ UNCHANGED <<row, playerVars, applyVars>>

modNotice(p, u, r) ==
    /\ Has(p, u) /\ hasPermission(Object(p, u), r)
    /\ Save(p, u, Object(p, u), "none", NoRid)
    /\ UNCHANGED <<row, playerVars, applyVars>>

-----------------------------------------------------------------------------
(* The presence of the players. *)

\* cancelUnloadTimer passes the coroutine that skynet.timeout returned back to
\* skynet.timeout, which throws: a recorded timer is never cancelled, and
\* neither updatePlayerOffline nor a dismissal gets past it.
Recorded(u) == unload[u].at # "nil"
Tabled(r) == online_players[r] \in online_members

updatePlayerOffline(r) ==
    IF online_players[r] = Off \/ (Tabled(r) /\ Recorded(online_players[r]))
    THEN UNCHANGED playerVars
    ELSE /\ online_players' = [online_players EXCEPT ![r] = Off]
         /\ unload' = IF Tabled(r)
                      THEN [unload EXCEPT ![online_players[r]] = [at |-> "armed", row |-> NoRow]]
                      ELSE unload

\* CMD.playerOnline: of a union that is found, ...
playerOnline(p, u, r) ==
    /\ Has(p, u)
    /\ Answer(p, u)
    /\ online_players' = [online_players EXCEPT ![r] = u]
    /\ UNCHANGED <<row, unload, applyVars>>

\* ... of one that is not, or of none.
playerOnlineAlone(p, r) ==
    /\ proc[p] = Idle \/ (proc[p].at = "loaded" /\ proc[p].row = NoRow)
    /\ online_players' = [online_players EXCEPT ![r] = proc[p].union]
    /\ online_members' = online_members \cup ({proc[p].union} \ {NoUnion})
    /\ proc' = [proc EXCEPT ![p] = Idle]
    /\ UNCHANGED <<row, unions, unload, applyVars>>

playerOffline(r) ==
    /\ updatePlayerOffline(r)
    /\ UNCHANGED <<row, cacheVars, applyVars, proc>>

\* The unload timer fires: no table of members holds anybody, so the object is
\* saved, ...
UnloadTimer(u) ==
    /\ unload[u].at = "armed"
    /\ unload' = [unload EXCEPT ![u] =
                    IF u \in online_members /\ unions[u] # NoRow
                    THEN [at |-> "saving", row |-> unions[u]] ELSE Quiet]
    /\ UNCHANGED <<row, cacheVars, online_players, applyVars, proc>>

\* The cached object of u goes; a coroutine that dismisses it keeps it.
Drop(u) ==
    /\ unions' = [unions EXCEPT ![u] = NoRow]
    /\ online_members' = online_members \ {u}
Orphaned(u) ==
    [q \in Proc |-> IF proc[q].kind = "dismiss" /\ proc[q].union = u
                    THEN [proc[q] EXCEPT !.kind = "orphan"] ELSE proc[q]]

\* ... and removed when the save returns, whoever came online meanwhile.
Unload(u) ==
    /\ unload[u].at = "saved"
    /\ Drop(u)
    /\ proc' = Orphaned(u)
    /\ unload' = [unload EXCEPT ![u] = Quiet]
    /\ UNCHANGED <<row, online_players, applyVars>>

-----------------------------------------------------------------------------
(* The database, and what follows a saveUnion whether or not it succeeded. *)

\* The statement of a coroutine is executed, or fails.
Execute(p) ==
    /\ proc[p].at = "saving"
    /\ \/ row' = [row EXCEPT ![proc[p].union] = proc[p].row]
       \/ UNCHANGED row
    /\ proc' = [proc EXCEPT ![p].at = "saved", ![p].row = NoRow]
    /\ UNCHANGED <<cacheVars, playerVars, applyVars>>

ExecuteUnload(u) ==
    /\ unload[u].at = "saving"
    /\ \/ row' = [row EXCEPT ![u] = unload[u].row]
       \/ UNCHANGED row
    /\ unload' = [unload EXCEPT ![u] = [at |-> "saved", row |-> NoRow]]
    /\ UNCHANGED <<cacheVars, online_players, applyVars, proc>>

ExecuteApply(a) ==
    /\ a \in applyWrites
    /\ applyWrites' = applyWrites \ {a}
    /\ applyRow' = {IF b.id = a.id THEN a ELSE b : b \in applyRow}
    /\ UNCHANGED <<row, cacheVars, playerVars, applies, lastApply, proc>>

ExecuteApplyFails(a) ==
    /\ a \in applyWrites
    /\ applyWrites' = applyWrites \ {a}
    /\ UNCHANGED <<row, cacheVars, playerVars, applies, applyRow, lastApply, proc>>

\* The rest of a command other than dismissUnion.
Saved(p) ==
    LET u == proc[p].union  r == proc[p].rid IN
    /\ proc[p].at = "saved" /\ proc[p].kind \in {"none", "offline", "online"}
    /\ proc' = [proc EXCEPT ![p] = Idle]
    /\ \/ /\ proc[p].kind = "none"
          /\ UNCHANGED <<playerVars, online_members>>
       \/ /\ proc[p].kind = "offline"
          /\ updatePlayerOffline(r)
          /\ UNCHANGED online_members
       \/ /\ proc[p].kind = "online"
          /\ IF online_players[r] = Off THEN UNCHANGED <<online_players, online_members>>
             ELSE /\ online_players' = [online_players EXCEPT ![r] = u]
                  /\ online_members' = online_members \cup {u}
          /\ UNCHANGED unload
    /\ UNCHANGED <<row, unions, applyVars>>

\* The rest of dismissUnion: the members go offline one by one, in the order of
\* the list, until one of them meets a recorded timer, which ends the command;
\* else the object is removed.
Dismissed(p) ==
    LET u == proc[p].union
        online == {r \in proc[p].roster : online_players[r] # Off}
    IN
    /\ proc[p].at = "saved" /\ proc[p].kind \in {"dismiss", "orphan"}
    /\ \E done \in SUBSET online :
          LET timed == {r \in done : Tabled(r)}
              armed == {online_players[r] : r \in timed}
          IN
          /\ \A r, s \in timed : online_players[r] = online_players[s] => r = s
          /\ \A w \in armed : ~Recorded(w)
          /\ online_players' = [r \in Rid |-> IF r \in done THEN Off ELSE online_players[r]]
          /\ unload' = [w \in Union |-> IF w \in armed THEN [at |-> "armed", row |-> NoRow]
                                        ELSE unload[w]]
          /\ \/ /\ done = online
                /\ Drop(u)
                /\ proc' = [Orphaned(u) EXCEPT ![p] = Idle]
             \/ /\ \E r \in online \ done :
                      /\ Tabled(r)
                      /\ Recorded(online_players[r]) \/ online_players[r] \in armed
                /\ UNCHANGED cacheVars
                /\ proc' = [proc EXCEPT ![p] = Idle]
    /\ UNCHANGED <<row, applyVars>>

\* The server stops and starts again: CMD.load reads the running unions and the
\* pending applications; statements under way are lost.
Restart ==
    /\ unions' = [u \in Union |-> IF row[u] # NoRow /\ row[u].state = 1 THEN row[u] ELSE NoRow]
    /\ online_members' = {u \in Union : unions'[u] # NoRow}
    /\ online_players' = [r \in Rid |-> Off]
    /\ unload' = [u \in Union |-> Quiet]
    /\ applies' = {a \in applyRow : a.state = "pending"}
    /\ applyWrites' = {}
    /\ proc' = [p \in Proc |-> Idle]
    /\ UNCHANGED <<row, applyRow, lastApply>>

Command(p, u, r) ==
    \/ dismissUnion(p, u, r) \/ applyJoinUnion(p, u, r)
    \/ exitUnion(p, u, r) \/ modNotice(p, u, r)
    \/ \E a \in applies : approveApply(p, u, r, a) \/ rejectApply(p, u, r, a)
    \/ \E target \in Rid :
          \/ kickMember(p, u, target, r)
          \/ appointViceChairman(p, u, target, r)
          \/ cancelViceChairman(p, u, target, r)
          \/ abdicateChairman(p, u, target, r)

Operation ==
    \/ \E p \in Proc, u \in Union, r \in Rid : Command(p, u, r)
    \/ \E p \in Proc, u \in Union : getUnion(p, u) \/ Refused(p, u) \/ InsertUnion(p, u)
    \/ \E p \in Proc, r \in Rid : createUnion(p, r)
    \/ \E p \in Proc, r \in Player : playerOnlineAlone(p, r) \/ \E u \in Union : playerOnline(p, u, r)
    \/ \E p \in Proc :
          \/ Select(p) \/ NotFound(p) \/ CreateFails(p) \/ Created(p)
          \/ InsertApply(p) \/ ApplyFails(p)
          \/ Execute(p) \/ Saved(p) \/ Dismissed(p)
    \/ \E r \in Player : playerOffline(r)
    \/ \E u \in Union : UnloadTimer(u) \/ ExecuteUnload(u) \/ Unload(u)
    \/ \E a \in applyWrites : ExecuteApply(a) \/ ExecuteApplyFails(a)

Next == Operation \/ Restart

Spec == Init /\ [][Next]_vars

\* The service is never restarted.
SteadySpec == Init /\ [][Operation]_vars

-----------------------------------------------------------------------------
(* Properties. *)

TypeOK ==
    /\ row \in [Union -> Row \cup {NoRow}]
    /\ unions \in [Union -> Row \cup {NoRow}]
    /\ online_members \in SUBSET Union
    /\ online_players \in [Rid -> Union \cup {NoUnion, Off}]
    /\ unload \in [Union -> [at : {"nil", "armed", "saving", "saved"}, row : Row \cup {NoRow}]]
    /\ applies \in SUBSET Apply /\ applyRow \in SUBSET Apply /\ applyWrites \in SUBSET Apply
    /\ lastApply \in Nat
    /\ proc \in [Proc ->
          [at : {"idle", "loading", "loaded", "creating", "created", "applying", "saving", "saved"},
           union : Union \cup {NoUnion}, row : Row \cup {NoRow},
           kind : {"none", "dismiss", "orphan", "online", "offline"},
           rid : Rid \cup {NoRid}, roster : SUBSET Rid]]

\* The copies of unions: cached, in the database, on their way there in the
\* statement of a command or of the unload timer, or on their way back.
Copies == {row[u] : u \in Union} \cup {unions[u] : u \in Union}
          \cup {unload[u].row : u \in Union} \cup {proc[p].row : p \in Proc}

\* The chairman of every copy is one of its members, and the vice chairman, if
\* there is one, is another: whatever commands, stale loads and late saves of a
\* union interleave, it always has a member who may lead it.
RolesSound(c) ==
    /\ c.chairman \in c.members
    /\ c.vice = NoRid \/ c.vice \in c.members \ {c.chairman}
RolesValid == \A c \in Copies \ {NoRow} : RolesSound(c)

\* approveApply's limit holds in every copy, also when several applications
\* are approved while the saves of the first ones are under way.
CapHeld == \A c \in Copies \ {NoRow} : Cardinality(c.members) <= MaxMembers

\* An application once decided in the database is never decided otherwise, by
\* late writes, commands running together or commands after a restart.
DecisionFinal == [][\A a \in applyRow : a.state # "pending" => a \in applyRow']_vars

\* The header of union_manager.lua: a union is unloaded when it is offline.
UnloadOnlyOffline ==
    [][\A u \in Union : unload[u].at = "armed" /\ unload'[u].at = "saving" =>
          \A r \in Rid : online_players[r] # u]_vars

-----------------------------------------------------------------------------
(* The inductive invariant behind the theorems of UnionProofs. *)

\* What a coroutine has in hand fits the place where it waits.
ProcFits == \A p \in Proc :
    /\ proc[p].at \in {"loading", "created", "applying", "saving", "saved"} => proc[p].union \in Union
    /\ proc[p].at \in {"creating", "created", "applying"} => proc[p].rid \in Rid

\* An id names one application, listed and stored; what is being written was
\* decided and is still listed so; what is stored as decided is listed so.
AppliesAgree ==
    /\ \A a, b \in applies : a.id # 0 /\ a.id = b.id => a = b
    /\ \A a, b \in applyRow : a.id = b.id => a = b
    /\ \A a \in applies \cup applyRow : a.id <= lastApply
    /\ \A a \in applyRow : a.id # 0
    /\ \A a \in applies : a.id = 0 => a.state = "pending"
    /\ \A w \in applyWrites : w \in applies /\ w.state # "pending"
    /\ \A b \in applyRow, a \in applies : b.state # "pending" /\ a.id = b.id => a = b

IInv ==
    /\ TypeOK
    /\ ProcFits
    /\ RolesValid
    /\ CapHeld
    /\ AppliesAgree
=============================================================================
