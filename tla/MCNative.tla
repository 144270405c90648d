------------------------------ MODULE MCNative ------------------------------
(***************************************************************************)
(* Native for model checking.  A behaviour is one of a single module,      *)
(* which part names; the others stay where they began.                     *)
(***************************************************************************)
EXTENDS Native, TLC

VARIABLE part

\* Words that begin and contain each other, of runes that collide.
const_Word == {<<1>>, <<3>>, <<5>>, <<1, 5>>, <<1, 5, 3>>, <<5, 3>>, <<1, 3>>}
const_Message == UNION {[1 .. k -> {1, 3, 5}] : k \in 1 .. 4}
const_Hash == [rune \in Uint32 |-> rune % 4]

listVars == <<sl, tbl>>
areaVars == <<object, hot, told, adrift>>
mapVars == <<map, live>>
wordVars == <<added, heap, lists>>
referenceVars == <<slots, freelist, handle, given, failures, called>>
bufferVars == <<open, onbox, n, size, room, luastack, toclose, blocks>>
clientVars == <<client, req, done, stray, respond>>
clockVars == <<kcp, seg, since, planned, left>>

NativeInit ==
    /\ part \in {"loader", "list", "area", "map", "words", "references", "buffer", "client",
                "clock"}
    /\ Init /\ List!Init /\ Area!Init /\ IdMap!Init /\ Words!Init
    /\ Refs!Init /\ Buffer!Init /\ Client!Init /\ Clock!Init
    /\ part # "loader" => \A f \in File : disk[f].kind = "lua"
    /\ part # "references" => \A o \in Object : given[o] = CHOOSE c \in Callback : TRUE
    /\ part # "clock" => kcp.interval = 1

Others(them) == UNCHANGED <<part, them>>

LoaderStep ==
    /\ part = "loader" /\ Next
    /\ Others(<<listVars, areaVars, mapVars, wordVars, referenceVars, bufferVars,
             clientVars, clockVars>>)
ListStep ==
    /\ part = "list" /\ List!Next
    /\ Others(<<vars, areaVars, mapVars, wordVars, referenceVars, bufferVars,
             clientVars, clockVars>>)
AreaStep ==
    /\ part = "area" /\ Area!Next
    /\ Others(<<vars, listVars, mapVars, wordVars, referenceVars, bufferVars,
             clientVars, clockVars>>)
MapStep ==
    /\ part = "map" /\ IdMap!Next
    /\ Others(<<vars, listVars, areaVars, wordVars, referenceVars, bufferVars,
             clientVars, clockVars>>)
WordStep ==
    /\ part = "words" /\ Words!Next
    /\ Others(<<vars, listVars, areaVars, mapVars, referenceVars, bufferVars,
             clientVars, clockVars>>)
ReferenceStep ==
    /\ part = "references" /\ Refs!Next
    /\ Others(<<vars, listVars, areaVars, mapVars, wordVars, bufferVars,
             clientVars, clockVars>>)
BufferStep ==
    /\ part = "buffer" /\ Buffer!Next
    /\ Others(<<vars, listVars, areaVars, mapVars, wordVars, referenceVars,
             clientVars, clockVars>>)
ClientStep ==
    /\ part = "client" /\ Client!Next
    /\ Others(<<vars, listVars, areaVars, mapVars, wordVars, referenceVars, bufferVars,
             clockVars>>)
ClockStep ==
    /\ part = "clock" /\ Clock!Next
    /\ Others(<<vars, listVars, areaVars, mapVars, wordVars, referenceVars, bufferVars,
             clientVars>>)

NativeNext ==
    \/ LoaderStep \/ ListStep \/ AreaStep \/ MapStep
    \/ WordStep \/ ReferenceStep \/ BufferStep \/ ClientStep \/ ClockStep

allVars == <<part, vars, listVars, areaVars, mapVars, wordVars,
             referenceVars, bufferVars, clientVars, clockVars>>

NativeSpec == NativeInit /\ [][NativeNext]_allVars

Symmetry == Permutations(Service) \cup Permutations(State)

=============================================================================
