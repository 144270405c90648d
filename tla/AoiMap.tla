------------------------------- MODULE AoiMap -------------------------------
(***************************************************************************)
(* The hash table of 3rd/src-c/aoi.c that maps ids to objects.             *)
(*                                                                         *)
(* A slot keeps its id when its object is dropped, so that the chain that  *)
(* leads through it stays whole; an id that is not at its main position    *)
(* makes way for one that is; when no free slot is left below lastfree the *)
(* table doubles and only the ids with an object are inserted again.       *)
(***************************************************************************)
EXTENDS Integers, FiniteSets

CONSTANTS
    Id,          \* ids, naturals
    PRE_ALLOC    \* the size of a new table, a power of two

VARIABLES
    map,         \* the table
    live         \* history: the ids with an object

vars == <<map, live>>

INVALID == -1
NIL == -1        \* the end of a chain

mainposition(m, id) == id % m.size

Empty(size) ==
    [size |-> size, lastfree |-> size - 1,
     slot |-> [i \in 0 .. size - 1 |-> [id |-> INVALID, obj |-> FALSE, next |-> NIL]]]

-----------------------------------------------------------------------------
\* The slot of id on the chain from its main position, NIL if there is none.
Find(m, id) ==
    LET from[s \in DOMAIN m.slot] ==
          IF m.slot[s].id = id THEN s
          ELSE IF m.slot[s].next = NIL THEN NIL
          ELSE from[m.slot[s].next]
    IN  from[mainposition(m, id)]

\* The free slot the search down from lastfree finds, NIL if there is none.
FreeSlot(m) ==
    LET free == {i \in 0 .. m.lastfree : m.slot[i].id = INVALID}
    IN  IF free = {} THEN NIL ELSE CHOOSE i \in free : \A j \in free : j <= i

\* Mutant of MakeWay: the chain that led through the slot is not closed.
MakeWayUnlinked(m, s, id) == [m EXCEPT !.slot[s] = [id |-> id, obj |-> TRUE, next |-> NIL]]

\* The id in slot s is not at its main position: its chain closes behind it and
\* the new id takes the slot.
MakeWay(m, s, id) ==
    LET last == CHOOSE i \in DOMAIN m.slot : m.slot[i].next = s
    IN  [m EXCEPT !.slot[last].next = m.slot[s].next,
                  !.slot[s] = [id |-> id, obj |-> TRUE, next |-> NIL]]

\* The main position of id is taken by an id that belongs there: id goes to the
\* free slot and comes second on the chain.
Chain(m, id) ==
    LET s == mainposition(m, id)
        free == FreeSlot(m)
    IN  [m EXCEPT !.lastfree = free - 1,
                  !.slot[free] = [id |-> id, obj |-> TRUE, next |-> m.slot[s].next],
                  !.slot[s].next = free]

\* map_insert where there is room.  An id that made way is inserted again if it has
\* an object: the first of its chain is at its main position, so it is chained.
Insert(m, id) ==
    LET s == mainposition(m, id)
        old == m.slot[s]
    IN  IF old.id = INVALID THEN [m EXCEPT !.slot[s].id = id, !.slot[s].obj = TRUE]
        ELSE IF mainposition(m, old.id) = s THEN Chain(m, id)
        ELSE IF old.obj THEN Chain(MakeWay(m, s, id), old.id)
        ELSE MakeWay(m, s, id)

\* rehash: the ids that still have an object go into a table of twice the size, in
\* the order of their slots; there is room for all of them.
rehash(m) ==
    LET upto[i \in 0 .. m.size] ==
          IF i = 0 THEN Empty(2 * m.size)
          ELSE IF m.slot[i - 1].obj THEN Insert(upto[i - 1], m.slot[i - 1].id)
          ELSE upto[i - 1]
    IN  upto[m.size]

\* map_insert: when an id has to be chained and there is no free slot, the table is
\* made anew and the id inserted there.
map_insert(m, id) ==
    LET s == mainposition(m, id)
        old == m.slot[s]
        away == mainposition(m, old.id) # s
    IN  IF FreeSlot(m) # NIL \/ old.id = INVALID \/ (away /\ ~old.obj) THEN Insert(m, id)
        ELSE IF away THEN Insert(rehash(MakeWay(m, s, id)), old.id)
        ELSE Insert(rehash(m), id)

-----------------------------------------------------------------------------
Init ==
    /\ map = Empty(PRE_ALLOC)
    /\ live = {}

\* map_query: an object for id, a new one if it has none.
map_query(id) ==
    LET s == Find(map, id)
    IN  /\ map' = IF s = NIL THEN map_insert(map, id) ELSE [map EXCEPT !.slot[s].obj = TRUE]
        /\ live' = live \cup {id}

\* map_drop: the object goes, its slot stays on the chain.
map_drop(id) ==
    LET s == Find(map, id)
    IN  /\ id \in live
        /\ map' = IF s = NIL THEN map ELSE [map EXCEPT !.slot[s].obj = FALSE]
        /\ live' = live \ {id}

Next == \E id \in Id : map_query(id) \/ map_drop(id)

Spec == Init /\ [][Next]_vars

-----------------------------------------------------------------------------
\* Every object can be found under its id, and nothing else: no sequence of
\* inserts, drops, displacements and doublings of the table loses an id, leaves
\* one in two slots or leads a chain through the slots of another.
MapFinds ==
    LET used == {i \in DOMAIN map.slot : map.slot[i].id # INVALID}
    IN  /\ \A id \in Id : id \in live <=> \E s \in used : map.slot[s].id = id /\ map.slot[s].obj
        /\ \A s \in used : Find(map, map.slot[s].id) = s
        /\ \A s \in used : map.slot[s].next # NIL =>
              /\ map.slot[s].next \in used
              /\ mainposition(map, map.slot[map.slot[s].next].id) = mainposition(map, map.slot[s].id)

-----------------------------------------------------------------------------
\* The inductive invariant behind it.
Slots(size) == [id : Id \cup {INVALID}, obj : BOOLEAN, next : 0 .. size - 1 \cup {NIL}]
Table(size) == [size : {size}, lastfree : Int, slot : [0 .. size - 1 -> Slots(size)]]

Used(m) == {s \in DOMAIN m.slot : m.slot[s].id # INVALID}
Home(m, s) == mainposition(m, m.slot[s].id)

\* behind[s] is the number of slots that follow s on its chain: a chain begins at
\* the main position of its ids, leads through all of them and ends.
Chained(m, behind) ==
    \A s \in Used(m) :
        LET next == m.slot[s].next
            head == Home(m, s)
        IN  /\ head \in Used(m) /\ Home(m, head) = head
            /\ behind[s] <= behind[head]
            /\ next = NIL => behind[s] = 0
            /\ next # NIL => /\ next \in Used(m) /\ Home(m, next) = head
                             /\ behind[s] = behind[next] + 1
            /\ s # head => \E p \in Used(m) : m.slot[p].next = s
            /\ \A t \in Used(m) : Home(m, t) = head /\ behind[t] = behind[s] => t = s

\* No slot above lastfree is free, and no id is in two slots.
WellMade(m) ==
    /\ m.size \in Nat \ {0}
    /\ m \in Table(m.size)
    /\ m.lastfree < m.size
    /\ \A s \in DOMAIN m.slot \ Used(m) :
          s <= m.lastfree /\ m.slot[s].next = NIL /\ ~m.slot[s].obj
    /\ \A s, t \in Used(m) : m.slot[s].id = m.slot[t].id => s = t
    /\ \E behind \in [DOMAIN m.slot -> Nat] : Chained(m, behind)

Objects(m) == {m.slot[s].id : s \in {t \in DOMAIN m.slot : m.slot[t].obj}}

IInv == WellMade(map) /\ live = Objects(map)
=============================================================================
