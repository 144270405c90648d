-------------------------------- MODULE Crab --------------------------------
(* The filter of forbidden words: 3rd/src-c/lua-crab.c, a trie whose levels  *)
(* are hash tables with chains inside the node array, and the older          *)
(* 3rd/src-c/crab.c, lists of words sorted by length for each hash of their  *)
(* first character.                                                          *)
EXTENDS Integers, Sequences, FiniteSets

CONSTANTS
    Rune,       \* characters: the uint32_t of lua-crab.c, the wchar_t of crab.c
    Star,       \* '*'
    Hash,       \* crab.c's _hash: rune -> index of the array words
    Word,       \* bound: words that may be forbidden, sequences of runes
    Message,    \* bound: messages that are filtered
    MaxWords    \* bound: words of a dictionary

VARIABLES
    added,   \* words inserted so far, in their order
    heap,    \* lua-crab.c: the tables of the trie, the first is the root
    lists    \* crab.c: hash -> list of words

vars == <<added, heap, lists>>

----------------------------------------------------------------------------
(* A table, and the position from which getfreenode looks downwards.  The    *)
(* value of a node is the place of a table in heap, 0 for NULL.              *)
Node(key, next, flag, value) == [key |-> key, next |-> next, flag |-> flag, value |-> value]

EmptyNode == Node(0, -1, "empty", 0)
Table(capacity) ==
    [capacity |-> capacity, lastfree |-> capacity - 1,
     node |-> [i \in 0 .. capacity - 1 |-> EmptyNode]]
IsNil(t, i) == t.node[i].flag = "empty"

mainposition(t, key) == key % t.capacity

getfreenode(t) ==
    LET nil == {i \in 0 .. t.lastfree : IsNil(t, i)}
    IN  IF nil = {} THEN -1 ELSE CHOOSE i \in nil : \A j \in nil : j <= i

\* The node with the key on the chain from its main position, -1 for none.
table_get(t, key) ==
    LET from[i \in DOMAIN t.node] ==
          IF IsNil(t, i) THEN -1
          ELSE IF t.node[i].key = key THEN i
          ELSE IF t.node[i].next < 0 THEN -1
          ELSE from[t.node[i].next]
    IN  from[mainposition(t, key)]

\* Mutant of Moved: the predecessor still points to mp.
MovedUnlinked(t, pre, mp, n) == [t EXCEPT !.lastfree = n, !.node[n] = t.node[mp]]

\* The node at mp moves to the free node n; pre is its predecessor, the only one.
Moved(t, pre, mp, n) ==
    [t EXCEPT !.lastfree = n, !.node[pre].next = n, !.node[n] = t.node[mp]]

\* table_newkey where there is room: the table with a node for the new key, and
\* the node.
Placed(t, key) ==
    LET mp == mainposition(t, key)
        n == getfreenode(t)
        new(next) == Node(key, next, "inner", 0)
        pre == CHOOSE i \in DOMAIN t.node : t.node[i].next = mp
    IN  IF IsNil(t, mp)
        THEN [table |-> [t EXCEPT !.node[mp] = new(t.node[mp].next)], at |-> mp]
        ELSE IF mainposition(t, t.node[mp].key) # mp    \* it is in the way: it moves
        THEN [table |-> [Moved(t, pre, mp, n) EXCEPT !.node[mp] = new(-1)], at |-> mp]
        ELSE [table |-> [t EXCEPT !.lastfree = n, !.node[mp].next = n,
                                  !.node[n] = new(t.node[mp].next)],
              at |-> n]

\* The table whose node i has another flag and value.
Filled(t, i, flag, value) ==
    [t EXCEPT !.node[i] = Node(t.node[i].key, t.node[i].next, flag, value)]

\* The nodes of t in a table twice as large, which has room for all of them.
table_expand(t) ==
    LET upto[i \in 0 .. t.capacity] ==
          IF i = 0 THEN Table(2 * t.capacity)
          ELSE IF IsNil(t, i - 1) THEN upto[i - 1]
          ELSE LET old == t.node[i - 1]
                   r == Placed(upto[i - 1], old.key)
               IN  Filled(r.table, r.at, old.flag, old.value)
    IN  upto[t.capacity]

table_newkey(t, key) ==
    IF IsNil(t, mainposition(t, key)) \/ getfreenode(t) # -1
    THEN Placed(t, key)
    ELSE Placed(table_expand(t), key)

table_insert(t, key) ==
    LET i == table_get(t, key)
    IN  IF i >= 0 THEN [table |-> t, at |-> i] ELSE table_newkey(t, key)

----------------------------------------------------------------------------
\* One rune of a word that goes on: it is inserted into table d, and the next one
\* belongs into the table of its node.
Deeper(h, d, rune) ==
    LET r == table_insert(h[d], rune)
        node == r.table.node[r.at]
        new == Len(h) + 1
    IN  IF node.value # 0
        THEN [heap |-> [h EXCEPT ![d] = r.table], d |-> node.value]
        ELSE [heap |-> Append([h EXCEPT ![d] = Filled(r.table, r.at, node.flag, new)], Table(1)),
              d |-> new]

\* _dict_insert: the last rune's node is marked.
DictInsert(h, word) ==
    LET enter[i \in 0 .. Len(word) - 1] ==
          IF i = 0 THEN [heap |-> h, d |-> 1]
          ELSE Deeper(enter[i - 1].heap, enter[i - 1].d, word[i])
        s == enter[Len(word) - 1]
        r == table_insert(s.heap[s.d], word[Len(word)])
    IN  [s.heap EXCEPT ![s.d] = Filled(r.table, r.at, "end", r.table.node[r.at].value)]

\* dict_filter's inner loop: the length of the longest word at position i.  d is
\* the table for the rune at j, 0 when the loop is left.
Step(h, msg, i) ==
    LET scan[j \in i - 1 .. Len(msg)] ==
          IF j = i - 1 THEN [d |-> 1, step |-> 0]
          ELSE LET s == scan[j - 1]
                   n == IF s.d = 0 THEN -1 ELSE table_get(h[s.d], msg[j])
               IN  IF n < 0 THEN [d |-> 0, step |-> s.step]
                   ELSE [d |-> h[s.d].node[n].value,
                         step |-> IF h[s.d].node[n].flag = "end" THEN j - i + 1 ELSE s.step]
    IN  scan[Len(msg)].step

Starred(msg, i, n) == [k \in 1 .. Len(msg) |-> IF k \in i .. i + n - 1 THEN Star ELSE msg[k]]

\* The positions of all messages, and the loop over those of one: where a word is
\* hit it is replaced, and the loop goes on behind it.
Site == {p \in Seq(Rune) \X Nat : p[2] \in 1 .. Len(p[1])}

Sweep(hit, msg) ==
    LET after[k \in 0 .. Len(msg)] ==
          IF k = 0 THEN [msg |-> msg, i |-> 1]
          ELSE LET s == after[k - 1]
                   n == hit[<<s.msg, s.i>>]
               IN  IF s.i > Len(msg) THEN s
                   ELSE IF n > 0 THEN [msg |-> Starred(s.msg, s.i, n), i |-> s.i + n]
                   ELSE [msg |-> s.msg, i |-> s.i + 1]
    IN  after[Len(msg)].msg

dict_filter(h, msg) == Sweep([p \in Site |-> Step(h, p[1], p[2])], msg)

----------------------------------------------------------------------------
\* crab.c: add_word keeps the words of one hash sorted, the longest first.
Precedes(w, word) == Len(w) >= Len(word)

add_word(list, word) ==
    LET after == {k \in 1 .. Len(list) : ~Precedes(list[k], word)}
        at == IF after = {} THEN Len(list) + 1 ELSE CHOOSE k \in after : \A j \in after : k <= j
    IN  [k \in 1 .. Len(list) + 1 |->
            IF k < at THEN list[k] ELSE IF k = at THEN word ELSE list[k - 1]]

\* _crab: the length of the first word of the list that the message has at i.
At(msg, i, w) == i + Len(w) - 1 <= Len(msg) /\ SubSeq(msg, i, i + Len(w) - 1) = w

find_word(ls, msg, i) ==
    LET list == ls[Hash[msg[i]]]
        hits == {k \in 1 .. Len(list) : At(msg, i, list[k])}
    IN  IF hits = {} THEN 0 ELSE Len(list[CHOOSE k \in hits : \A j \in hits : k <= j])

ListFilter(ls, msg) == Sweep([p \in Site |-> find_word(ls, p[1], p[2])], msg)

----------------------------------------------------------------------------
Init ==
    /\ added = <<>>
    /\ heap = <<Table(1)>>
    /\ lists = [h \in {Hash[rune] : rune \in Rune} |-> <<>>]

(* One word of dict_open's list, or one line of crab.c's file.               *)
Insert(word) ==
    /\ Len(added) < MaxWords
    /\ added' = Append(added, word)
    /\ heap' = DictInsert(heap, word)
    /\ lists' = [lists EXCEPT ![Hash[word[1]]] = add_word(@, word)]

Next == \E word \in Word : Insert(word)

Spec == Init /\ [][Next]_vars

----------------------------------------------------------------------------
(* What a filter should do: from the left, the longest forbidden word that   *)
(* begins at a position is replaced, and the search goes on behind it.       *)
Longest(words, msg, i) ==
    LET hits == {w \in words : At(msg, i, w)}
    IN  IF hits = {} THEN 0 ELSE Len(CHOOSE w \in hits : \A v \in hits : Len(v) <= Len(w))

Filtered(words, msg) == Sweep([p \in Site |-> Longest(words, p[1], p[2])], msg)

Words == {added[k] : k \in DOMAIN added}

(* Whatever words were inserted in whatever order, through collisions,       *)
(* displaced nodes and tables that grew, words that begin or contain other   *)
(* words included, the trie of lua-crab.c and the sorted lists of crab.c     *)
(* filter every message as they should.                                      *)
FiltersAll ==
    \A msg \in Message :
        LET right == Filtered(Words, msg)
        IN  /\ dict_filter(heap, msg) = right
            /\ ListFilter(lists, msg) = right
=============================================================================
