----------------------------- MODULE LuaBuffer -----------------------------
(* The generic buffer of src_encrypt/lauxlib.c: a string is built in an      *)
(* array of the C frame and, when it outgrows it, in a block that a userdata *)
(* of the Lua stack (a box, to be closed with its slot) owns.  Sizes are     *)
(* size_t: unsigned, modulo Width.  Of the bytes only the number is kept.    *)
EXTENDS Naturals, Sequences, SequencesExt

CONSTANTS
    Width,      \* MAX_SIZET + 1
    InitSize,   \* LUAL_BUFFERSIZE
    Below       \* values on the stack of the function that builds the string

VARIABLES
    open,    \* luaL_buffinit was called, and the string not yet made
    onbox,   \* buffonstack(B): b is the block of a box and not init.b
    n,       \* B->n
    size,    \* B->size
    room,    \* bytes of the last area handed out that may still be written
    stack,   \* the slots of the function's Lua stack, top last
    toclose, \* the stack indices that are marked to be closed
    blocks   \* sizes of the blocks that boxes own

vars == <<open, onbox, n, size, room, stack, toclose, blocks>>

MaxSize == Width - 1
Bottom == [i \in 1 .. Below |-> "value"]
At(idx) == Len(stack) - idx + 1      \* -1 is the top: At(1)

Init ==
    /\ open = FALSE
    /\ onbox = FALSE
    /\ n = 0 /\ size = 0 /\ room = 0
    /\ stack = Bottom
    /\ toclose = {}
    /\ blocks = {}

(* luaL_buffinit, and luaL_buffinitsize with no size to ask for.             *)
luaL_buffinit ==
    /\ ~open /\ stack = Bottom
    /\ open' = TRUE
    /\ onbox' = FALSE
    /\ n' = 0 /\ size' = InitSize /\ room' = 0
    /\ stack' = Append(stack, "placeholder")
    /\ UNCHANGED <<toclose, blocks>>

(* newbuffsize: half as much again, or what is needed when that is too       *)
(* little (or has overflowed); an error when even that does not fit.         *)
newbuffsizeUnchecked(sz) ==     \* code that goes wrong, for the checks: no first test
    LET larger == ((size \div 2) * 3) % Width IN
    IF larger < (n + sz) % Width THEN {(n + sz) % Width} ELSE {larger}
newbuffsize(sz) ==
    LET larger == ((size \div 2) * 3) % Width IN
    IF MaxSize - sz < n THEN {}
    ELSE IF larger < n + sz THEN {n + sz} ELSE {larger}

(* lua_error unwinds to the caller of the function: its slots are dropped    *)
(* and those marked are closed, which frees what their boxes own (boxgc).    *)
Raise ==
    /\ open' = FALSE
    /\ onbox' = FALSE
    /\ n' = 0 /\ size' = 0 /\ room' = 0
    /\ stack' = Bottom
    /\ toclose' = {}
    /\ blocks' = IF \E i \in toclose : stack[i] = "box" THEN {} ELSE blocks

(* prepbuffsize: nothing when there is enough space; else a larger block, in *)
(* the box or, the first time, in a box that takes the place of the          *)
(* placeholder.  Extra is what the caller adds to n at once, and Then the    *)
(* stack it leaves.                                                          *)
Boxed(idx) == IF onbox THEN stack ELSE [stack EXCEPT ![At(idx)] = "box"]
prepbuffsize(sz, idx, Extra, Then(_)) ==
    /\ open
    /\ n' = n + Extra
    /\ room' = sz - Extra
    /\ UNCHANGED open
    /\ IF size - n >= sz
       THEN /\ stack' = Then(stack)
            /\ UNCHANGED <<onbox, size, toclose, blocks>>
       ELSE /\ size' \in newbuffsize(sz)
            /\ onbox' = TRUE
            /\ blocks' = {size'}
            /\ toclose' = toclose \cup {At(idx)}
            /\ stack' = Then(Boxed(idx))

(* ... and its errors: "buffer too large", or no memory for the block.       *)
PrepFails(sz) == open /\ size - n < sz /\ Raise

(* Its callers leave nothing of their own above the slot of the buffer.      *)
Level == Len(stack) = Below + 1
Same(s) == s
luaL_prepbuffsize(sz) == Level /\ prepbuffsize(sz, 1, 0, Same)

(* luaL_addlstring and luaL_addstring; luaL_addchar is an addlstring of one. *)
luaL_addlstring(l) == Level /\ l > 0 /\ prepbuffsize(l, 1, l, Same)

(* A value is pushed by the function that builds the string ...              *)
Push ==
    /\ open /\ Level
    /\ stack' = Append(stack, "string")
    /\ UNCHANGED <<open, onbox, n, size, room, toclose, blocks>>

(* ... and luaL_addvalue adds it: the box is, or will be, below it.          *)
addvalueOnTop(len) ==           \* code that goes wrong, for the checks: like addlstring
    /\ stack[Len(stack)] = "string"
    /\ prepbuffsize(len, 1, len, Front)
luaL_addvalue(len) ==
    /\ stack[Len(stack)] = "string"
    /\ prepbuffsize(len, 2, len, Front)

(* luaL_addsize: what was written in the area handed out.                    *)
luaL_addsize(k) ==
    /\ open /\ 0 < k /\ k <= room
    /\ n' = n + k
    /\ room' = room - k
    /\ UNCHANGED <<open, onbox, size, stack, toclose, blocks>>

luaL_buffsub(k) ==
    /\ open /\ 0 < k /\ k <= n
    /\ n' = n - k
    /\ room' = 0
    /\ UNCHANGED <<open, onbox, size, stack, toclose, blocks>>

(* luaL_pushresult (luaL_pushresultsize is an addsize before it): the string *)
(* is pushed, the slot below it closed and removed.                          *)
luaL_pushresult ==
    /\ open /\ Level
    /\ LET with == Append(stack, "result")
           at == Len(with) - 1
       IN /\ stack' = RemoveAt(with, at)
          /\ blocks' = IF onbox /\ with[at] = "box" THEN {} ELSE blocks
          /\ toclose' = toclose \ {at}
    /\ open' = FALSE
    /\ onbox' = FALSE
    /\ n' = 0 /\ size' = 0 /\ room' = 0

(* The function returns the string to Lua.                                   *)
Return ==
    /\ ~open
    /\ stack # Bottom
    /\ stack' = Bottom
    /\ UNCHANGED <<open, onbox, n, size, room, toclose, blocks>>

Next ==
    \/ luaL_buffinit
    \/ Push
    \/ \E k \in 0 .. MaxSize :
          \/ luaL_prepbuffsize(k)
          \/ luaL_addlstring(k)
          \/ luaL_addvalue(k)
          \/ luaL_addsize(k)
          \/ luaL_buffsub(k)
          \/ PrepFails(k)
    \/ luaL_pushresult
    \/ Return

Spec == Init /\ [][Next]_vars

----------------------------------------------------------------------------
(* However the sizes asked for add up and wrap, the buffer has the bytes     *)
(* that were added, those handed out fit behind them, and its size is that   *)
(* of the memory it stands for: the array of the frame or the block.         *)
RoomMade ==
    /\ open => n + room <= size
    /\ open => IF onbox THEN blocks = {size} ELSE size = InitSize

(* checkbufferlevel, at every point where the buffer may be accessed: its    *)
(* slot, under a value that is still to be added, is a box that will be      *)
(* closed or the placeholder.  No block outlives the buffer.                 *)
Slot == Below + 1
SlotHeld ==
    /\ open => /\ Len(stack) >= Slot
               /\ stack[Slot] = IF onbox THEN "box" ELSE "placeholder"
               /\ toclose = IF onbox THEN {Slot} ELSE {}
    /\ ~open => blocks = {} /\ toclose = {}

(* The inductive invariant behind both: the stack is that of the function,   *)
(* the slot of the buffer and at most one value that is still to be added.   *)
Values == {"value", "placeholder", "box", "string", "result"}

IInv ==
    /\ open \in BOOLEAN /\ onbox \in BOOLEAN
    /\ n \in Nat /\ room \in Nat /\ size \in 0 .. MaxSize
    /\ stack \in Seq(Values)
    /\ Len(stack) \in Below .. Slot + 1
    /\ \A i \in 1 .. Below : stack[i] = "value"
    /\ open /\ ~onbox => blocks = {}
    /\ RoomMade
    /\ SlotHeld
=============================================================================
