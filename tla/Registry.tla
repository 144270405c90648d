------------------------------ MODULE Registry ------------------------------
(* References into the Lua registry (luaL_ref and luaL_unref of              *)
(* src_encrypt/lauxlib.c) and the KCP objects whose callbacks are kept there *)
(* (lkcp_create, kcp_gc and kcp_output_callback of 3rd/src-c/lkcp.c).        *)
(* slots are the integer keys above the predefined ones: reference i is slot *)
(* i.  A slot holds a callback or, when it is free, the next free slot; an   *)
(* option is a set with at most one element.                                 *)
EXTENDS Naturals, Sequences

CONSTANTS
    Object,     \* userdata of the metatable kcp_meta
    Callback,   \* Lua functions
    MaxFailure  \* bound: calls of lkcp_create that fail

VARIABLES
    slots,     \* <<[value, next]>>
    freelist,  \* t[freelist]: the first free slot, or 0
    handle,    \* object -> its slot, an option
    given,     \* object -> the callback it was created with
    failures,  \* calls of lkcp_create that failed after luaL_ref
    called     \* the last output: what was called and what should have been

vars == <<slots, freelist, handle, given, failures, called>>

Live == {o \in Object : handle[o] # {}}
Nothing == [callback |-> {}, meant |-> {}]

Init ==
    /\ slots = <<>>
    /\ freelist = 0
    /\ handle = [o \in Object |-> {}]
    /\ given \in [Object -> Callback]
    /\ \A o, p \in Object : given[o] = given[p]
    /\ failures = 0
    /\ called = Nothing

(* luaL_ref: the first free slot, or a new one behind the last (lua_rawlen:  *)
(* a free slot holds a number, so there are no holes).                       *)
NewRef == IF freelist # 0 THEN freelist ELSE Len(slots) + 1

luaL_ref(c) ==
    /\ freelist' = IF freelist # 0 THEN slots[freelist].next ELSE 0
    /\ slots' = IF freelist # 0
                THEN [slots EXCEPT ![freelist] = [value |-> {c}, next |-> 0]]
                ELSE Append(slots, [value |-> {c}, next |-> 0])

(* luaL_unref.                                                               *)
unrefSwapped(r) ==       \* code that goes wrong, for the checks: the header first
    /\ slots' = [slots EXCEPT ![r] = [value |-> {}, next |-> r]]
    /\ freelist' = r
luaL_unref(r) ==
    /\ slots' = [slots EXCEPT ![r] = [value |-> {}, next |-> freelist]]
    /\ freelist' = r

(* lkcp_create takes the reference first.                                    *)
lkcp_create(o, c) ==
    /\ o \notin Live
    /\ luaL_ref(c)
    /\ handle' = [handle EXCEPT ![o] = {NewRef}]
    /\ given' = [given EXCEPT ![o] = c]
    /\ UNCHANGED <<failures, called>>

(* ... and keeps it when conv is no integer or ikcp_create returns NULL.     *)
CreateFails(c) ==
    /\ failures < MaxFailure
    /\ luaL_ref(c)
    /\ failures' = failures + 1
    /\ UNCHANGED <<handle, given, called>>

(* kcp_gc, once for each object, in any order.                               *)
kcp_gc(o) ==
    /\ \E r \in handle[o] : luaL_unref(r)
    /\ handle' = [handle EXCEPT ![o] = {}]
    /\ UNCHANGED <<given, failures, called>>

(* kcp_output_callback: what is found in the registry is called.             *)
kcp_output_callback(o) ==
    /\ \E r \in handle[o] : called' = [callback |-> slots[r].value, meant |-> {given[o]}]
    /\ UNCHANGED <<slots, freelist, handle, given, failures>>

Next ==
    \/ \E o \in Object :
          \/ \E c \in Callback : lkcp_create(o, c)
          \/ kcp_gc(o)
          \/ kcp_output_callback(o)
    \/ \E c \in Callback : CreateFails(c)

Spec == Init /\ [][Next]_vars

----------------------------------------------------------------------------
(* Whatever was created and collected before, in whatever order, and however *)
(* often a slot was used again, the output of an object calls the function   *)
(* that object was created with.                                             *)
OwnCallback ==
    /\ \A o \in Object : \A r \in handle[o] : slots[r].value = {given[o]}
    /\ called.callback = called.meant

(* Inductive invariant behind OwnCallback: the free slots form a list in     *)
(* which nobody has two predecessors, and which no object's slot is on.      *)
Slot == [value : SUBSET Callback, next : Nat]
Free == {i \in 1 .. Len(slots) : slots[i].value = {}}

IInv ==
    /\ slots \in Seq(Slot)
    /\ freelist \in Free \cup {0}
    /\ handle \in [Object -> SUBSET Nat]
    /\ given \in [Object -> Callback]
    /\ \A i \in Free : /\ slots[i].next \in Free \cup {0}
                       /\ slots[i].next # 0 => slots[i].next # freelist
    /\ \A i, j \in Free : slots[i].next = slots[j].next /\ slots[i].next # 0 => i = j
    /\ \A o \in Object : \A r \in handle[o] :
          /\ r \in 1 .. Len(slots)
          /\ handle[o] = {r}
    /\ \A o, p \in Object : o # p => handle[o] \cap handle[p] = {}
    /\ OwnCallback
=============================================================================
