-------------------------------- MODULE Aoi --------------------------------
(***************************************************************************)
(* 3rd/src-c/aoi.c and its binding lua-aoi.c: watchers are told once of    *)
(* the markers that come within a radius of them.                          *)
(*                                                                         *)
(* aoi_update moves an object, aoi_message compares the ones that moved    *)
(* with all others and keeps the pairs that are close to the radius in the *)
(* list hot, which holds references to both objects.  The map from ids to  *)
(* objects is a function here; AoiMap is the hash table behind it.  A      *)
(* place is a number: one axis, and squares are compared as the code does. *)
(***************************************************************************)
EXTENDS Integers, FiniteSets, FiniteSetsExt

CONSTANTS
    Id,          \* ids of objects
    Place,       \* where an object can be
    Radius,      \* AOI_RADIS
    MaxVersion   \* bound: flagged moves of one object

VARIABLES
    object,      \* space->object: the live objects by id
    hot,         \* space->hot: the pairs to look at again
    told,        \* history: pairs told to the callback since either moved
    adrift       \* history: pairs given up while one was away from its last

vars == <<object, hot, told, adrift>>

Modes == SUBSET {"watcher", "marker"}

Square(p, q) == (p - q) * (p - q)
Distance2(os, p) == Square(os[p.watcher].position, os[p.marker].position)

\* is_near: the move is too short to be flagged.
Near(p, q) == 4 * Square(p, q) < Radius * Radius

Mentions(pairs, id) == Cardinality({p \in pairs : p.watcher = id})
                       + Cardinality({p \in pairs : p.marker = id})

\* drop_object: an object that nobody refers to leaves the map.
Release(os) == [id \in {i \in DOMAIN os : os[i].ref > 0} |-> os[id]]

\* History: a flagged move starts a new acquaintance.
Forget(pairs, id) == {p \in pairs : id \notin {p[1], p[2]}}

-----------------------------------------------------------------------------
Init ==
    /\ object = [id \in {} |-> {}]
    /\ hot = {}
    /\ told = {}
    /\ adrift = {}

\* map_query: finds the object or makes a new one; a new one has no place yet,
\* and its first update flags it whatever its place is.
Query(id, pos) ==
    IF id \in DOMAIN object THEN object
    ELSE [i \in DOMAIN object \cup {id} |->
            IF i = id THEN [ref |-> 1, version |-> 0, mode |-> {},
                            last |-> pos, position |-> pos]
            ELSE object[i]]

\* Mutant of Grabbed: a dropped object comes back without its reference.
GrabbedNever(o) == o.ref

\* A dropped object that comes back takes the reference of the map again.
Grabbed(o) == IF "drop" \in o.mode THEN o.ref + 1 ELSE o.ref

\* aoi_update with the letters w and m; change_mode says whether the mode
\* changed, which counts as a move.
aoi_update(id, set, pos) ==
    LET os == Query(id, pos)
        o == os[id]
        mode == o.mode \ {"drop"}
        flagged == mode = {} \/ mode \ {"move"} # set \/ ~Near(pos, o.last)
    IN  /\ o.version < MaxVersion
        /\ object' = [os EXCEPT ![id] =
              [ref |-> Grabbed(o),
               version |-> IF flagged THEN o.version + 1 ELSE o.version,
               mode |-> set \cup (IF flagged THEN {"move"} ELSE mode \cap {"move"}),
               last |-> IF flagged THEN pos ELSE o.last,
               position |-> pos]]
        /\ told' = IF flagged THEN Forget(told, id) ELSE told
        /\ adrift' = IF flagged THEN Forget(adrift, id) ELSE adrift
        /\ UNCHANGED hot

\* aoi_update with the letter d: the map gives its reference up, once.
Drop(id) ==
    /\ id \in DOMAIN object
    /\ "drop" \notin object[id].mode
    /\ object' = Release([object EXCEPT ![id].mode = {"drop"}, ![id].ref = @ - 1])
    /\ told' = Forget(told, id)
    /\ adrift' = Forget(adrift, id)
    /\ UNCHANGED hot

\* A hot pair is out of date when one of the two was flagged or dropped since.
Stale(p) ==
    \/ object[p.watcher].version # p.watcher_version
    \/ object[p.marker].version # p.marker_version
    \/ "drop" \in object[p.watcher].mode
    \/ "drop" \in object[p.marker].mode

Within(d2) == d2 < Radius * Radius
Beyond(d2) == d2 > 4 * Radius * Radius
Away(o) == o.position # o.last

\* flush_pair: the hot pairs that are settled, and the ones the callback hears of.
Settled == {p \in hot : Stale(p) \/ Beyond(Distance2(object, p)) \/ Within(Distance2(object, p))}
Arrived == {p \in hot : ~Stale(p) /\ Within(Distance2(object, p))}

\* Mutant of Compared: a watcher that moved meets only markers that moved.
ComparedMoving(os) ==
    {p \in [watcher : DOMAIN os, marker : DOMAIN os] :
        /\ p.watcher # p.marker
        /\ "watcher" \in os[p.watcher].mode
        /\ {"marker", "move"} \subseteq os[p.marker].mode}

\* set_push and gen_pair_list: each watcher that moved with every marker, each
\* other watcher with the markers that moved.
Compared(os) ==
    {p \in [watcher : DOMAIN os, marker : DOMAIN os] :
        /\ p.watcher # p.marker
        /\ "watcher" \in os[p.watcher].mode
        /\ "marker" \in os[p.marker].mode
        /\ "move" \in os[p.watcher].mode \cup os[p.marker].mode}

\* aoi_message
aoi_message ==
    LET dropped == Release([i \in DOMAIN object |->
                       [object[i] EXCEPT !.ref = @ - Mentions(Settled, i)]])
        compared == Compared(dropped)
        met == {p \in compared : Within(Distance2(dropped, p))}
        given == {p \in compared : Beyond(Distance2(dropped, p))}
        kept == {[watcher |-> p.watcher, marker |-> p.marker,
                  watcher_version |-> dropped[p.watcher].version,
                  marker_version |-> dropped[p.marker].version]
                 : p \in compared \ (met \cup given)}
        pairs(ps) == {<<p.watcher, p.marker>> : p \in ps}
        lost == {p \in hot : ~Stale(p) /\ Beyond(Distance2(object, p))}
    IN  /\ object' = [i \in DOMAIN dropped |->
              [dropped[i] EXCEPT
                 !.ref = @ + Mentions(kept, i),
                 !.mode = IF @ \cap {"watcher", "marker"} # {} THEN @ \ {"move"} ELSE @]]
        /\ hot' = (hot \ Settled) \cup kept
        /\ told' = told \cup pairs(Arrived) \cup pairs(met)
        /\ adrift' = adrift \cup pairs({p \in given : Away(dropped[p.watcher]) \/ Away(dropped[p.marker])})
                            \cup pairs({p \in lost : Away(object[p.watcher]) \/ Away(object[p.marker])})

Next ==
    \/ \E id \in Id, set \in Modes, pos \in Place : aoi_update(id, set, pos)
    \/ \E id \in Id : Drop(id)
    \/ aoi_message

Spec == Init /\ [][Next]_vars

-----------------------------------------------------------------------------
\* References are exact: one of the map unless the object was dropped, and one
\* for each mention in a hot pair.  So no hot pair holds a freed object, and an
\* object that was dropped is freed when its last pair is.
RefsExact ==
    /\ \A id \in DOMAIN object :
          /\ object[id].ref = Mentions(hot, id) + (IF "drop" \in object[id].mode THEN 0 ELSE 1)
          /\ object[id].ref > 0
    /\ \A p \in hot : {p.watcher, p.marker} \subseteq DOMAIN object

\* Nobody comes near in silence: after a message, a watcher has been told of
\* every marker within the radius, however short the moves were that brought
\* them there, unless the two were given up as too far apart while one of them
\* was away from the place it was last flagged at.
NeighboursTold ==
    aoi_message =>
        \A w, m \in DOMAIN object' :
            LET near == Within(Square(object'[w].position, object'[m].position))
            IN  (/\ w # m
                 /\ "watcher" \in object'[w].mode
                 /\ "marker" \in object'[m].mode
                 /\ near)
                => <<w, m>> \in told' \cup adrift'

\* After every message the watchers know who is near them.
NoSilentNeighbour == [][NeighboursTold]_vars

-----------------------------------------------------------------------------
\* The inductive invariant behind both.
ObjectRecord == [ref : Nat, version : Nat, mode : SUBSET {"watcher", "marker", "move", "drop"},
                 last : Place, position : Place]

PairRecord == [watcher : Id, marker : Id, watcher_version : Nat, marker_version : Nat]

\* What a hot pair knows of an object is no newer than the object, and older
\* when the object moved since the last message.
Known(id, version) ==
    /\ version <= object[id].version
    /\ "move" \in object[id].mode => version < object[id].version

\* Two objects that rest are told, or are looked at again, or were given up
\* where both were last flagged.
Accounted(w, m) ==
    \/ <<w, m>> \in told \cup adrift
    \/ [watcher |-> w, marker |-> m, watcher_version |-> object[w].version,
        marker_version |-> object[m].version] \in hot
    \/ Beyond(Square(object[w].last, object[m].last))

IInv ==
    /\ DOMAIN object \subseteq Id
    /\ object \in [DOMAIN object -> ObjectRecord]
    /\ hot \subseteq PairRecord /\ IsFiniteSet(hot)
    /\ RefsExact
    /\ \A p \in hot : Known(p.watcher, p.watcher_version) /\ Known(p.marker, p.marker_version)
    /\ \A id \in DOMAIN object :
          /\ "drop" \in object[id].mode => object[id].mode = {"drop"}
          /\ Away(object[id]) => Near(object[id].position, object[id].last)
    /\ \A w, m \in DOMAIN object :
          (/\ w # m
           /\ "watcher" \in object[w].mode /\ "marker" \in object[m].mode
           /\ "move" \notin object[w].mode \cup object[m].mode)
          => Accounted(w, m)
=============================================================================
