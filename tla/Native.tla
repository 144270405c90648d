------------------------------- MODULE Native -------------------------------
(***************************************************************************)
(* Modules of the C code that share nothing, side by side: CodeCache and   *)
(* an instance each of the others, with constants and variables of their   *)
(* own and the properties that say of each what makes it correct.  What    *)
(* the constants must satisfy is assumed here.                             *)
(***************************************************************************)
EXTENDS CodeCache, HashTables, Integers, FiniteSets

CONSTANTS
    Object, Callback, MaxFailure,                            \* of Registry
    Width, InitSize, Below,                                  \* of LuaBuffer
    WebRequest, Piece, LeastBlock, MaxBody,                  \* of WebClient
    Wrap, Jump, Interval, MaxXmit,                           \* of KcpClock
    RTO_NDL, RTO_MIN, RTO_DEF, RTO_MAX,
    Walker, Place, Radius, MaxMove,                          \* of Aoi
    Member, Score, MaxLevel                                  \* of Skiplist

VARIABLES
    slots, freelist, handle, given, failures, called,        \* Registry
    open, onbox, n, size, room, luastack, toclose, blocks,   \* LuaBuffer
    client, req, done, stray, respond,                       \* WebClient
    kcp, seg, since, planned, left,                          \* KcpClock
    object, hot, told, adrift,                               \* Aoi
    sl, tbl                                                  \* Skiplist

Refs == INSTANCE Registry
Buffer == INSTANCE LuaBuffer WITH stack <- luastack
Client == INSTANCE WebClient WITH Request <- WebRequest, answer <- respond
Clock == INSTANCE KcpClock
Area == INSTANCE Aoi WITH Id <- Walker, MaxVersion <- MaxMove
List == INSTANCE Skiplist

\* LUAL_BUFFERSIZE is a size_t, and a frame has finitely many values.
ASSUME SizesFit == Width \in Nat /\ InitSize \in Nat /\ InitSize < Width /\ Below \in Nat

\* 32 bits and 10000; ikcp_interval keeps to 10 .. 5000.
ASSUME ClockWraps ==
    /\ Wrap \in Nat /\ Wrap > 0 /\ Wrap = 2 * (Wrap \div 2)
    /\ Jump \in 1 .. Wrap \div 2
    /\ Interval \subseteq 1 .. Jump

\* RTO_MAX is a minute: no timeout adds up to half a wrap.
ASSUME TimeoutsFit ==
    /\ {RTO_NDL, RTO_MIN, RTO_DEF, RTO_MAX, MaxXmit} \subseteq Nat
    /\ RTO_NDL <= RTO_MAX /\ RTO_MIN <= RTO_MAX /\ RTO_DEF <= RTO_MAX
    /\ MaxXmit * RTO_MAX + (RTO_MAX \div 8) < Wrap \div 2

ASSUME FiniteBodies == Piece \subseteq Nat /\ LeastBlock \in Nat

ASSUME FiniteArea == IsFiniteSet(Walker) /\ Place \subseteq Int /\ Radius \in Nat

\* Members are strings, in the order of memcmp; SKIPLIST_MAXLEVEL is 32.
ASSUME RanksFit ==
    /\ IsFiniteSet(Member) /\ Member \subseteq Nat \ {0}
    /\ Score \subseteq Int /\ MaxLevel \in Nat \ {0}

-----------------------------------------------------------------------------
\* lkcp.c: an output calls the function its object was created with.
OwnCallback == Refs!OwnCallback

\* lauxlib.c: what a buffer hands out fits into its memory, whatever overflows.
RoomMade == Buffer!RoomMade

\* lauxlib.c: a buffer's slot holds its box, which is closed with the buffer.
SlotHeld == Buffer!SlotHeld

\* webclient.c: the body copied lies in its block, also after a failed realloc,
\* and never comes truncated without an error.
BodySound == Client!WithinBlock /\ Client!TruncationTold

\* ikcp.c: a flush is due once the interval is over, whatever the clock did, and
\* none falls into the time that ikcp_check lets the program wait.
Punctual == Clock!FlushInTime /\ Clock!NothingMissed

\* ikcp.c: a segment is sent again when its timeout is over, and not before.
TimersExact == Clock!TimersExact

\* aoi.c: an object lives as long as the map or a hot pair has a reference.
RefsExact == Area!RefsExact

\* aoi.c: two objects are not near for long without the callback being told.
NoSilentNeighbour == Area!NoSilentNeighbour

\* skiplist.c and zrank.lua: the levels are one list in order whose spans count
\* its nodes, and every query answers what the ranking says.
Ranked == List!Linked /\ List!Answers
=============================================================================
