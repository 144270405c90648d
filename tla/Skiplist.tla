------------------------------ MODULE Skiplist ------------------------------
(***************************************************************************)
(* The ranking library: 3rd/src-c/skiplist.c, its binding lua-skiplist.c   *)
(* and the table lualib/zrank.lua keeps beside it.                         *)
(*                                                                         *)
(* The list is a record with the fields of struct skiplist; node maps the  *)
(* header and each element to its record, and levels are numbered from 1.  *)
(* An element is identified by its member, which zrank keeps unique, and   *)
(* members are numbers in the order of compareslObj.                       *)
(***************************************************************************)
EXTENDS Integers, Sequences, FiniteSets

CONSTANTS
    Member,      \* members, non-zero naturals
    Score,       \* scores
    MaxLevel     \* SKIPLIST_MAXLEVEL

VARIABLES
    sl,          \* the list
    tbl          \* handler.tbl: the score of each member in the list

vars == <<sl, tbl>>

Header == 0
NULL == -1

Elements(list) == DOMAIN list.node \ {Header}
Forward(list, x, i) == list.node[x].forward[i]

\* Elements are ordered by score, then by member.
Precedes(s1, m1, s2, m2) == s1 < s2 \/ (s1 = s2 /\ m1 < m2)

-----------------------------------------------------------------------------
\* slCreate
slCreate ==
    [level |-> 1, length |-> 0, tail |-> NULL,
     node |-> [x \in {Header} |->
                 [score |-> 0, backward |-> NULL,
                  forward |-> [i \in 1 .. MaxLevel |-> NULL],
                  span |-> [i \in 1 .. MaxLevel |-> 0]]]]

\* Where a search stands: at a node, with the sum of the spans it has crossed.
Positions(list) == [at : DOMAIN list.node, rank : Nat]
Top == [at |-> Header, rank |-> 0]

\* The nodes on level i.
Reach(list, i) == {x \in DOMAIN list.node : i \in DOMAIN list.node[x].forward}

\* The inner loop of every search: along level i while the next position is one
\* that the search passes.
Along(list, pos, i, passes) ==
    LET walk[p \in [at : Reach(list, i), rank : Nat]] ==
          LET next == [at |-> Forward(list, p.at, i), rank |-> p.rank + list.node[p.at].span[i]]
          IN  IF next.at # NULL /\ next \in passes THEN walk[next] ELSE p
    IN  walk[pos]

\* The outer loop: where the search leaves each level, from the top down.
Descend(list, passes) ==
    LET pos[i \in 1 .. list.level] ==
          Along(list, IF i = list.level THEN Top ELSE pos[i + 1], i, passes)
    IN  pos

Before(list, score, m) ==
    Descend(list, {p \in Positions(list) : Precedes(list.node[p.at].score, p.at, score, m)})

\* slInsert with the height slRandomLevel drew.
slInsert(list, score, m, height) ==
    LET pos == Before(list, score, m)
        level == IF height > list.level THEN height ELSE list.level
        update == [i \in 1 .. level |-> IF i <= list.level THEN pos[i]
                                        ELSE Top]
        old(i) == IF i <= list.level THEN list.node[update[i].at].span[i] ELSE list.length
        gap(i) == update[1].rank - update[i].rank
        new == [score |-> score,
                backward |-> IF update[1].at = Header THEN NULL ELSE update[1].at,
                forward |-> [i \in 1 .. height |-> Forward(list, update[i].at, i)],
                span |-> [i \in 1 .. height |-> old(i) - gap(i)]]
        touched(x, i) == i \in 1 .. level /\ update[i].at = x
        relink(x) ==
            LET n == list.node[x]
            IN  [n EXCEPT
                   !.forward = [i \in DOMAIN @ |-> IF touched(x, i) /\ i <= height
                                                   THEN m ELSE @[i]],
                   !.span = [i \in DOMAIN @ |-> IF ~touched(x, i) THEN @[i]
                                                ELSE IF i <= height THEN gap(i) + 1
                                                ELSE @[i] + 1],
                   !.backward = IF x = new.forward[1] THEN m ELSE @]
    IN  [level |-> level, length |-> list.length + 1,
         tail |-> IF new.forward[1] = NULL THEN m ELSE list.tail,
         node |-> [x \in DOMAIN list.node \cup {m} |-> IF x = m THEN new ELSE relink(x)]]

\* Mutant of slDeleteNode: the levels above the element keep their span.
slDeleteNodeShort(list, x, update) ==
    LET gone == list.node[x]
        hit(y, i) == i \in DOMAIN update /\ update[i].at = y
        skips(y, i) == Forward(list, y, i) = x
        relink(y) ==
            LET n == list.node[y]
            IN  [n EXCEPT
                   !.span = [i \in DOMAIN @ |->
                       IF hit(y, i) /\ skips(y, i) THEN @[i] + gone.span[i] - 1 ELSE @[i]],
                   !.forward = [i \in DOMAIN @ |->
                       IF hit(y, i) /\ skips(y, i) THEN gone.forward[i] ELSE @[i]],
                   !.backward = IF y = gone.forward[1] THEN gone.backward ELSE @]
    IN  [list EXCEPT !.length = @ - 1,
                     !.tail = IF gone.forward[1] = NULL THEN gone.backward ELSE @,
                     !.node = [y \in DOMAIN @ \ {x} |-> relink(y)]]

\* slDeleteNode: update holds, per level, the last position before x.
slDeleteNode(list, x, update) ==
    LET gone == list.node[x]
        hit(y, i) == i \in 1 .. list.level /\ update[i].at = y
        skips(y, i) == Forward(list, y, i) = x
        relink(y) ==
            LET n == list.node[y]
            IN  [n EXCEPT
                   !.span = [i \in DOMAIN @ |->
                       IF ~hit(y, i) THEN @[i]
                       ELSE IF skips(y, i) THEN @[i] + gone.span[i] - 1
                       ELSE @[i] - 1],
                   !.forward = [i \in DOMAIN @ |->
                       IF hit(y, i) /\ skips(y, i) THEN gone.forward[i] ELSE @[i]],
                   !.backward = IF y = gone.forward[1] THEN gone.backward ELSE @]
        node == [y \in DOMAIN list.node \ {x} |-> relink(y)]
        used == {i \in 2 .. list.level : node[Header].forward[i] # NULL}
    IN  [level |-> IF used = {} THEN 1
                   ELSE CHOOSE i \in used : \A j \in used : j <= i,
         length |-> list.length - 1,
         tail |-> IF gone.forward[1] = NULL THEN gone.backward ELSE list.tail,
         node |-> node]

\* slDelete: removes the element with exactly this score and member.
slDelete(list, score, m) ==
    LET update == Before(list, score, m)
        x == Forward(list, update[1].at, 1)
    IN  IF x # NULL /\ list.node[x].score = score /\ x = m
        THEN slDeleteNode(list, x, update)
        ELSE list

\* slDeleteByRank: the elements from rank start to rank end in turn, all of
\* them with the same update; at most `most` when the callback of the last one
\* throws.
slDeleteByRank(list, start, end, most) ==
    LET update == Descend(list, {p \in Positions(list) : p.rank < start})
        n == end - update[1].rank
        after[k \in 0 .. IF n < most THEN n ELSE most] ==
          IF k = 0 THEN [list |-> list, x |-> Forward(list, update[1].at, 1), removed |-> {}]
          ELSE LET a == after[k - 1]
               IN  IF a.x = NULL THEN a
                   ELSE [list |-> slDeleteNode(a.list, a.x, update),
                         x |-> Forward(a.list, a.x, 1),
                         removed |-> a.removed \cup {a.x}]
    IN  after[IF n < most THEN n ELSE most]

-----------------------------------------------------------------------------
\* The queries.

\* slGetRank: 0 if the element is not found.  A level at which the search has
\* come to rest on the element ends it.
slGetRank(list, score, m) ==
    LET pos == Descend(list, {p \in Positions(list) :
                  \/ Precedes(list.node[p.at].score, p.at, score, m)
                  \/ list.node[p.at].score = score /\ p.at = m})
        found == {i \in DOMAIN pos : pos[i].at = m}
    IN  IF found = {} THEN 0
        ELSE pos[CHOOSE i \in found : \A j \in found : j <= i].rank

\* slGetNodeByRank
slGetNodeByRank(list, rank) ==
    LET pos == Descend(list, {p \in Positions(list) : p.rank <= rank})
        found == {i \in DOMAIN pos : pos[i].rank = rank}
    IN  IF rank <= 0 \/ rank > list.length \/ found = {} THEN NULL
        ELSE pos[CHOOSE i \in found : \A j \in found : j <= i].at

Forwards(list) == [x \in DOMAIN list.node |-> Forward(list, x, 1)]
Backwards(list) == [x \in DOMAIN list.node |-> list.node[x].backward]

\* The loops that end get_rank_range and get_score_range: from first along next,
\* at most n elements, as long as they are in the range.
Collect(first, next, n, range) ==
    LET got[k \in 0 .. n] ==
          IF k = 0 THEN [x |-> first, members |-> <<>>]
          ELSE LET g == got[k - 1]
               IN  IF g.x = NULL \/ g.x \notin range THEN g
                   ELSE [x |-> next[g.x], members |-> Append(g.members, g.x)]
    IN  got[n].members

\* get_rank_range: downwards if the first rank is the greater one.
get_rank_range(list, r1, r2) ==
    Collect(slGetNodeByRank(list, r1), IF r1 > r2 THEN Backwards(list) ELSE Forwards(list),
            (IF r1 <= r2 THEN r2 - r1 ELSE r1 - r2) + 1, DOMAIN list.node)

slIsInRange(list, min, max) ==
    LET first == Forward(list, Header, 1)
    IN  /\ min <= max
        /\ list.tail # NULL /\ list.node[list.tail].score >= min
        /\ first # NULL /\ list.node[first].score <= max

slFirstInRange(list, min, max) ==
    IF ~slIsInRange(list, min, max) THEN NULL
    ELSE LET pos == Descend(list, {p \in Positions(list) : list.node[p.at].score < min})
         IN  Forward(list, pos[1].at, 1)

\* Mutant of slLastInRange: the upper bound itself is left out.
slLastInRangeOpen(list, min, max) ==
    IF ~slIsInRange(list, min, max) THEN NULL
    ELSE LET pos == Descend(list, {p \in Positions(list) : list.node[p.at].score < max})
         IN  IF pos[1].at = Header THEN NULL ELSE pos[1].at

slLastInRange(list, min, max) ==
    IF ~slIsInRange(list, min, max) THEN NULL
    ELSE LET pos == Descend(list, {p \in Positions(list) : list.node[p.at].score <= max})
         IN  pos[1].at

\* get_score_range: downwards if the first score is the greater one.
get_score_range(list, s1, s2) ==
    IF s1 <= s2
    THEN Collect(slFirstInRange(list, s1, s2), Forwards(list), list.length,
                 {x \in DOMAIN list.node : list.node[x].score <= s2})
    ELSE Collect(slLastInRange(list, s2, s1), Backwards(list), list.length,
                 {x \in DOMAIN list.node : list.node[x].score >= s2})

\* handler:rev_range: places counted from the top.
rev_range(list, r1, r2) ==
    LET place(r) == list.length - r + 1
        from(r) == IF place(r) < 1 THEN 1 ELSE place(r)
    IN  get_rank_range(list, from(r1), from(r2))

-----------------------------------------------------------------------------
\* The operations of zrank.

Init ==
    /\ sl = slCreate
    /\ tbl = [m \in {} |-> 0]

\* handler:add, with the height of the new node.
add(score, m, height) ==
    /\ m \in DOMAIN tbl => tbl[m] # score
    /\ LET rest == IF m \in DOMAIN tbl THEN slDelete(sl, tbl[m], m) ELSE sl
       IN  sl' = slInsert(rest, score, m, height)
    /\ tbl' = [x \in DOMAIN tbl \cup {m} |-> IF x = m THEN score ELSE tbl[x]]

\* handler:rem
rem(m) ==
    /\ m \in DOMAIN tbl
    /\ sl' = slDelete(sl, tbl[m], m)
    /\ tbl' = [x \in DOMAIN tbl \ {m} |-> tbl[x]]

\* delete_by_rank with zrank's callback; `most` is less than the range when
\* the caller's delete_handler throws.
DeleteRanks(start, end, most) ==
    LET cut == slDeleteByRank(sl, start, end, most)
    IN  /\ sl' = cut.list
        /\ tbl' = [x \in DOMAIN tbl \ cut.removed |-> tbl[x]]

\* handler:limit keeps the lowest elements, rev_limit the highest.
limit(count, most) ==
    /\ sl.length > count
    /\ DeleteRanks(count + 1, sl.length, most)
rev_limit(count, most) ==
    /\ sl.length > count
    /\ DeleteRanks(1, sl.length - count, most)

Next ==
    \/ \E m \in Member, s \in Score, h \in 1 .. MaxLevel : add(s, m, h)
    \/ \E m \in Member : rem(m)
    \/ \E n \in 0 .. Cardinality(Member), k \in 1 .. Cardinality(Member) :
          limit(n, k) \/ rev_limit(n, k)

Spec == Init /\ [][Next]_vars

-----------------------------------------------------------------------------
\* The ranking that tbl stands for.
Rank(m) == Cardinality({x \in DOMAIN tbl : Precedes(tbl[x], x, tbl[m], m)}) + 1
AtRank(r) == CHOOSE m \in DOMAIN tbl : Rank(m) = r

\* The list is a skip list of exactly the members of tbl: at every level the
\* links lead through the elements that reach it in rank order, each span is the
\* distance in ranks (to the end of the list if there is no further element),
\* and the backward links and the tail retrace the lowest level.
Linked ==
    LET count == Cardinality(DOMAIN tbl)
        rank(x) == IF x = Header THEN 0 ELSE Rank(x)
        after(x, i) == {y \in Reach(sl, i) : rank(y) > rank(x)}
    IN  /\ Elements(sl) = DOMAIN tbl
        /\ sl.length = count
        /\ \A m \in DOMAIN tbl : sl.node[m].score = tbl[m]
        /\ \A i \in 1 .. sl.level : \A x \in Reach(sl, i) :
              LET next == Forward(sl, x, i)
              IN  IF after(x, i) = {}
                  THEN next = NULL /\ sl.node[x].span[i] = count - rank(x)
                  ELSE /\ next \in after(x, i)
                       /\ \A y \in after(x, i) : rank(next) <= rank(y)
                       /\ sl.node[x].span[i] = rank(next) - rank(x)
        /\ \A i \in sl.level + 1 .. MaxLevel : Forward(sl, Header, i) = NULL
        /\ \A m \in DOMAIN tbl :
              sl.node[m].backward = IF Rank(m) = 1 THEN NULL ELSE AtRank(Rank(m) - 1)
        /\ sl.tail = IF count = 0 THEN NULL ELSE AtRank(count)

\* What the queries answer is the ranking: places, ranges of places in both
\* directions, and ranges of scores that need not occur themselves.
Answers ==
    LET count == Cardinality(DOMAIN tbl)
        run(a, b) == IF a <= b
                     THEN [i \in 1 .. (IF b > count THEN count ELSE b) - a + 1 |-> AtRank(a + i - 1)]
                     ELSE [i \in 1 .. a - b + 1 |-> AtRank(a - i + 1)]
        within(lo, hi) == {m \in DOMAIN tbl : tbl[m] >= lo /\ tbl[m] <= hi}
        elements(s) == {s[i] : i \in DOMAIN s}
        ordered(s, up) == \A i, j \in DOMAIN s :
            i < j => IF up THEN Rank(s[i]) < Rank(s[j]) ELSE Rank(s[i]) > Rank(s[j])
    IN  /\ \A m \in DOMAIN tbl : slGetRank(sl, tbl[m], m) = Rank(m)
        /\ \A a \in 1 .. count, b \in 1 .. count + 1 : get_rank_range(sl, a, b) = run(a, b)
        /\ \A a \in 1 .. count, b \in 1 .. count + 1 :
              a <= b => rev_range(sl, a, b) = run(count - a + 1, IF b > count THEN 1 ELSE count - b + 1)
        /\ \A lo, hi \in Score \cup {s + 1 : s \in Score} :
              LET up == get_score_range(sl, lo, hi)
                  down == get_score_range(sl, hi, lo)
              IN  /\ lo <= hi => elements(up) = within(lo, hi) /\ ordered(up, TRUE)
                  /\ lo < hi => elements(down) = within(lo, hi) /\ ordered(down, FALSE)

-----------------------------------------------------------------------------
\* The inductive invariant behind both.
Node(h) == [score : Int, backward : Member \cup {NULL},
            forward : [1 .. h -> Member \cup {NULL}], span : [1 .. h -> Int]]

\* The nodes are numbered by rk, the header with 0: at is the element numbered r.
at(list, rk, r) ==
    IF r \in 1 .. list.length THEN CHOOSE x \in Elements(list) : rk[x] = r ELSE NULL

\* y is the next node on level i after x.
Follows(list, rk, i, x, y) ==
    LET after == {z \in Reach(list, i) : rk[z] > rk[x]}
    IN  \/ y = NULL /\ after = {}
        \/ y \in after /\ \A z \in after : rk[y] <= rk[z]

Shaped(list) ==
    /\ list.level \in 1 .. MaxLevel
    /\ list.length \in Nat
    /\ Header \in DOMAIN list.node
    /\ Elements(list) \subseteq Member
    /\ \A x \in DOMAIN list.node : \E h \in 1 .. MaxLevel : list.node[x] \in Node(h)
    /\ DOMAIN list.node[Header].forward = 1 .. MaxLevel

Numbered(list, rk) ==
    /\ rk \in [DOMAIN list.node -> 0 .. list.length]
    /\ rk[Header] = 0
    /\ \A x, y \in DOMAIN list.node : rk[x] = rk[y] => x = y
    /\ \A r \in 0 .. list.length : \E x \in DOMAIN list.node : rk[x] = r
    /\ \A x, y \in Elements(list) :
          rk[x] < rk[y] <=> Precedes(list.node[x].score, x, list.node[y].score, y)

\* Levels above the list's are not used; what they say of the header is stale.
Joined(list, rk) ==
    /\ \A i \in 1 .. MaxLevel : \A x \in Reach(list, i) :
          Follows(list, rk, i, x, Forward(list, x, i))
    /\ \A i \in list.level + 1 .. MaxLevel : Forward(list, Header, i) = NULL
    /\ \A i \in 1 .. list.level : \A x \in Reach(list, i) :
          LET next == Forward(list, x, i)
          IN  list.node[x].span[i] = (IF next = NULL THEN list.length ELSE rk[next]) - rk[x]
    /\ \A x \in Elements(list) : list.node[x].backward = at(list, rk, rk[x] - 1)
    /\ list.tail = at(list, rk, list.length)

Made(list, rk) == Shaped(list) /\ Numbered(list, rk) /\ Joined(list, rk)

IInv ==
    /\ \E rk \in [DOMAIN sl.node -> 0 .. sl.length] : Made(sl, rk)
    /\ tbl = [x \in Elements(sl) |-> sl.node[x].score]
=============================================================================
