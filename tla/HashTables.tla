----------------------------- MODULE HashTables -----------------------------
(***************************************************************************)
(* The two hash tables with chains inside their slots: the map of aoi.c    *)
(* and the tables of lua-crab.c's trie, which stands beside the lists of   *)
(* crab.c.  They share nothing; this module has an instance of each, what  *)
(* their constants must satisfy and the property that says of each what    *)
(* makes it correct.                                                       *)
(***************************************************************************)
EXTENDS Integers, Sequences

CONSTANTS
    Uint32, PRE_ALLOC,                     \* of AoiMap
    Star, Hash, Word, Message, MaxWords    \* of Crab

VARIABLES
    map, live,             \* AoiMap
    added, heap, lists     \* Crab

IdMap == INSTANCE AoiMap WITH Id <- Uint32
Words == INSTANCE Crab WITH Rune <- Uint32

\* An id is a uint32_t, as is a rune; PRE_ALLOC is 16.
ASSUME IdsFit == Uint32 \subseteq Nat /\ PRE_ALLOC \in Nat \ {0}

\* Neither dictionary takes an empty word.
ASSUME WordsFit ==
    /\ {0, Star} \subseteq Uint32
    /\ Word \subseteq Seq(Uint32) \ {<<>>} /\ Message \subseteq Seq(Uint32)

\* aoi.c: the map finds every object under its id, and nothing else.
MapFinds == IdMap!MapFinds

\* lua-crab.c and crab.c: as soon as there is a word, every message is filtered as
\* it should (dict_filter refuses its work before dict_open).
FiltersAll == added # <<>> => Words!FiltersAll
=============================================================================
