----------------------------- MODULE CodeCache -----------------------------
(* The loader of Lua code that all services of a process share:              *)
(* src_encrypt/lauxlib.c (luaL_loadfilex_, the code cache around it,         *)
(* luaL_loadfilexx that also reads encrypted files) and the loadfile and     *)
(* dofile of src_encrypt/lbaselib.c.  Each service has a Lua state of its    *)
(* own and runs on any thread; the cache maps a file to a prototype that     *)
(* lives in a Lua state made for it, and is guarded by a spin lock only      *)
(* while it is read or written.  A Lua stack is the sequence of its values,  *)
(* and the function on top of it is described by fn.  An option is a set     *)
(* with at most one element.                                                 *)
EXTENDS Naturals, Sequences

CONSTANTS
    Service,     \* Lua states of services
    File,
    State,       \* Lua states that hold prototypes
    Kind,        \* bound: what a file may hold, a subset of Kinds
    MaxVersion,  \* bound: edits of a file
    MaxClear     \* bound: calls of cache.clear

Kinds == {"absent", "lua", "bad", "cipher", "long cipher", "garbled"}

VARIABLES
    disk,    \* file -> [kind, version]
    cache,   \* file -> prototype, CC.L's registry
    life,    \* state -> "unused", "open" or "closed"
    made,    \* state -> the file and version it was compiled from
    level,   \* service -> mode of the cache
    pc, call, stack, fn, eL, proto,   \* service -> its load under way
    answer,  \* service -> what its last load returned
    held,    \* service -> states whose prototypes its functions use
    clears,  \* calls of cache.clear
    floor    \* file -> version that a cached prototype must have at least

vars == <<disk, cache, life, made, level, pc, call, stack, fn, eL, proto,
          answer, held, clears, floor>>
loading == <<pc, call, stack, fn, eL, proto, answer, held>>

Request == [file : File, via : {"loadfile", "dofile"}, env : BOOLEAN]
NoAnswer == [status |-> "none", env |-> "default", values |-> <<>>]
NoFunction == [from |-> {}, env |-> "none"]
Function(from) == [from |-> from, env |-> "default"]

Init ==
    /\ disk \in [File -> [kind : Kind, version : {0}]]
    /\ cache = [f \in File |-> {}]
    /\ life = [e \in State |-> "unused"]
    /\ made \in [State -> [file : File, version : {0}]]
    /\ \A d, e \in State : made[d] = made[e]
    /\ level = [s \in Service |-> "ON"]
    /\ pc = [s \in Service |-> "idle"]
    /\ call \in [Service -> [file : File, via : {"loadfile"}, env : {FALSE}]]
    /\ \A s, t \in Service : call[s] = call[t]
    /\ stack = [s \in Service |-> <<>>]
    /\ fn = [s \in Service |-> NoFunction]
    /\ eL = [s \in Service |-> {}]
    /\ proto = [s \in Service |-> {}]
    /\ answer = [s \in Service |-> NoAnswer]
    /\ held = [s \in Service |-> {}]
    /\ clears = 0
    /\ floor = [f \in File |-> 0]

----------------------------------------------------------------------------
Goto(s, label) == pc' = [pc EXCEPT ![s] = label]
Push(s, v) == stack' = [stack EXCEPT ![s] = Append(@, v)]
Text(s) == disk[call[s].file]

(* The status of luaL_loadfilex_ in mode "t": only a text file that          *)
(* compiles is loaded; an encrypted one is a syntax error.                   *)
Compiles(s) == Text(s).kind = "lua"

(* luaB_loadfile with or without an environment, luaB_dofile.                *)
Call(s) ==
    /\ pc[s] = "idle"
    /\ \E r \in Request :
        /\ r.via = "dofile" => ~r.env
        /\ call' = [call EXCEPT ![s] = r]
        /\ stack' = [stack EXCEPT ![s] =
                        IF r.env THEN <<"filename", "mode", "env">> ELSE <<"filename">>]
    /\ answer' = [answer EXCEPT ![s] = NoAnswer]
    /\ Goto(s, "lookup")
    /\ UNCHANGED <<disk, cache, life, made, level, fn, eL, proto, held, clears, floor>>

(* cache_level and, under the lock, load_proto.                              *)
Lookup(s) ==
    /\ pc[s] = "lookup"
    /\ LET hit == level[s] # "OFF" /\ cache[call[s].file] # {}
       IN  /\ proto' = [proto EXCEPT ![s] = IF hit THEN cache[call[s].file] ELSE {}]
           /\ Goto(s, IF hit THEN "clone" ELSE IF level[s] = "ON" THEN "compile" ELSE "direct")
    /\ UNCHANGED <<disk, cache, life, made, level, call, stack, fn, eL, answer, held, clears, floor>>

(* Without the cache the file is compiled in the service's own state.        *)
Direct(s) ==
    /\ pc[s] = "direct"
    /\ IF Compiles(s)
       THEN Push(s, "function") /\ fn' = [fn EXCEPT ![s] = Function({})] /\ Goto(s, "finish")
       ELSE Push(s, "message") /\ Goto(s, "sniff") /\ UNCHANGED fn
    /\ UNCHANGED <<disk, cache, life, made, level, call, eL, proto, answer, held, clears, floor>>

(* With it, in a new state, without the lock; a state whose file does not    *)
(* compile is closed at once.                                                *)
Compile(s) ==
    /\ pc[s] = "compile"
    /\ \/ /\ Compiles(s)
          /\ \E e \in State :
                /\ life[e] = "unused"
                /\ life' = [life EXCEPT ![e] = "open"]
                /\ made' = [made EXCEPT ![e] = [file |-> call[s].file, version |-> Text(s).version]]
                /\ eL' = [eL EXCEPT ![s] = {e}]
          /\ Goto(s, "save")
          /\ UNCHANGED stack
       \/ /\ ~Compiles(s)
          /\ Push(s, "message")
          /\ Goto(s, "sniff")
          /\ UNCHANGED <<life, made, eL>>
    /\ UNCHANGED <<disk, cache, level, call, fn, proto, answer, held, clears, floor>>

(* save_proto, under the lock: the first to save a file wins.                *)
Save(s) ==
    /\ pc[s] = "save"
    /\ LET f == call[s].file
           old == cache[f]
       IN  /\ cache' = [cache EXCEPT ![f] = IF old = {} THEN eL[s] ELSE old]
           /\ proto' = [proto EXCEPT ![s] = IF old = {} THEN eL[s] ELSE old]
    /\ Goto(s, "clone")
    /\ UNCHANGED <<disk, life, made, level, call, stack, fn, eL, answer, held, clears, floor>>

(* The states that a service closes before it clones: its own, when another  *)
(* one's prototype was there first.                                          *)
LostAlways(s) == eL[s]    \* code that goes wrong, for the checks: also the winner's
Lost(s) == eL[s] \ proto[s]

Clone(s) ==
    /\ pc[s] = "clone"
    /\ life' = [e \in State |-> IF e \in Lost(s) THEN "closed" ELSE life[e]]
    /\ eL' = [eL EXCEPT ![s] = {}]
    /\ proto' = [proto EXCEPT ![s] = {}]
    /\ fn' = [fn EXCEPT ![s] = Function(proto[s])]
    /\ Push(s, "function")
    /\ Goto(s, "finish")
    /\ UNCHANGED <<disk, cache, made, level, call, answer, held, clears, floor>>

(* The rest of luaL_loadfilexx: a file that could not be loaded is read      *)
(* again, and when it begins with the line of an encrypted one, its text is  *)
(* decrypted on an emptied stack (a long one through a userdata) and loaded. *)
Sniff(s) ==
    /\ pc[s] = "sniff"
    /\ CASE Text(s).kind = "absent" ->
              Push(s, "message") /\ Goto(s, "finish") /\ UNCHANGED <<fn, answer>>
         [] Text(s).kind \in {"lua", "bad"} ->
              Goto(s, "finish") /\ UNCHANGED <<stack, fn, answer>>
         [] Text(s).kind = "garbled" ->        \* ldesdecode or the parser raises
              /\ answer' = [answer EXCEPT ![s] = [NoAnswer EXCEPT !.status = "thrown"]]
              /\ Goto(s, "idle")
              /\ UNCHANGED <<stack, fn>>
         [] OTHER ->
              /\ stack' = [stack EXCEPT ![s] = <<"key", "cipher">>
                              \o (IF Text(s).kind = "cipher" THEN <<>> ELSE <<"userdata">>)
                              \o <<"plain", "function">>]
              /\ fn' = [fn EXCEPT ![s] = Function({})]
              /\ Goto(s, "finish")
              /\ UNCHANGED answer
    /\ UNCHANGED <<disk, cache, life, made, level, call, eL, proto, held, clears, floor>>

(* load_aux, or what dofile returns: all of the stack above its first value, *)
(* where the function was replaced by its results.                           *)
Environment(s) == IF call[s].env THEN stack[s][3] ELSE fn[s].env

Returned(s) ==
    IF fn[s] = NoFunction
    THEN [NoAnswer EXCEPT !.status = IF call[s].via = "dofile" THEN "thrown" ELSE "failed"]
    ELSE IF call[s].via = "loadfile"
         THEN [status |-> "loaded", env |-> Environment(s), values |-> <<"function">>]
         ELSE [status |-> "done", env |-> "default",
               values |-> Append(SubSeq(stack[s], 2, Len(stack[s]) - 1), "result")]

Finish(s) ==
    /\ pc[s] = "finish"
    /\ answer' = [answer EXCEPT ![s] = Returned(s)]
    /\ held' = [held EXCEPT ![s] = @ \cup fn[s].from]
    /\ fn' = [fn EXCEPT ![s] = NoFunction]
    /\ stack' = [stack EXCEPT ![s] = <<>>]
    /\ Goto(s, "idle")
    /\ UNCHANGED <<disk, cache, life, made, level, call, eL, proto, clears, floor>>

(* cache.mode.                                                               *)
SetMode(s) ==
    /\ pc[s] = "idle"
    /\ \E l \in {"OFF", "EXIST", "ON"} : level' = [level EXCEPT ![s] = l]
    /\ UNCHANGED <<disk, cache, life, made, loading, clears, floor>>

(* cache.clear, under the lock.  floor is history: from now on a cached text *)
(* is the present one or a later one, unless a load had already compiled an  *)
(* older one and has yet to save it.                                         *)
InFlight(f) == \E s \in Service : pc[s] = "save" /\ call[s].file = f

clearKeepsCache ==        \* code that goes wrong, for the checks
    /\ clears < MaxClear
    /\ clears' = clears + 1
    /\ floor' = [f \in File |-> IF InFlight(f) THEN floor[f] ELSE disk[f].version]
    /\ UNCHANGED <<disk, cache, life, made, level, loading>>

clear ==
    /\ clears < MaxClear
    /\ clears' = clears + 1
    /\ cache' = [f \in File |-> {}]
    /\ floor' = [f \in File |-> IF InFlight(f) THEN floor[f] ELSE disk[f].version]
    /\ UNCHANGED <<disk, life, made, level, loading>>

(* An operator replaces a file while the server runs.                        *)
Edit(f) ==
    /\ disk[f].version < MaxVersion
    /\ \E k \in Kind : disk' = [disk EXCEPT ![f] = [kind |-> k, version |-> @.version + 1]]
    /\ UNCHANGED <<cache, life, made, level, loading, clears, floor>>

Load(s) == \/ Call(s) \/ Lookup(s) \/ Direct(s) \/ Compile(s) \/ Save(s)
           \/ Clone(s) \/ Sniff(s) \/ Finish(s) \/ SetMode(s)

Next ==
    \/ \E s \in Service : Load(s)
    \/ clear
    \/ \E f \in File : Edit(f)

Spec == Init /\ [][Next]_vars

----------------------------------------------------------------------------
(* A function that a service cloned from a shared prototype uses memory of   *)
(* the state that holds the prototype, and nobody counts these uses: the     *)
(* state must never be closed, whatever other services load the same file at *)
(* the same time and whatever the cache forgets.                             *)
ClonesLive ==
    \A s \in Service : \A e \in held[s] \cup fn[s].from : life[e] = "open"

(* After cache.clear nobody is given a text older than the one on disk at    *)
(* that moment, unless a load of the file was between compiling and saving.  *)
FreshAfterClear ==
    \A f \in File : \A e \in cache[f] : made[e].file = f /\ made[e].version >= floor[f]

(* "environment for loaded function" (lbaselib.c, load_aux): a function that *)
(* loadfile was given an environment for has it.                             *)
EnvKept ==
    \A s \in Service :
        answer[s].status = "loaded" /\ call[s].env => answer[s].env = "env"

(* The inductive invariants behind the theorems.  A state that lost its race *)
(* is known to nobody but the service that will close it.                    *)
Labels == {"idle", "lookup", "direct", "compile", "save", "clone", "sniff", "finish"}

TypeOK ==
    /\ life \in [State -> {"unused", "open", "closed"}]
    /\ cache \in [File -> SUBSET State]
    /\ pc \in [Service -> Labels]
    /\ eL \in [Service -> SUBSET State]
    /\ proto \in [Service -> SUBSET State]
    /\ held \in [Service -> SUBSET State]
    /\ fn \in [Service -> [from : SUBSET State, env : {"none", "default"}]]
    /\ call \in [Service -> Request]

Used(s) == held[s] \cup fn[s].from

IInv ==
    /\ TypeOK
    /\ \A f \in File : \A e \in cache[f] : life[e] = "open"
    /\ \A s \in Service : \A e \in Used(s) \cup proto[s] \cup eL[s] : life[e] = "open"
    /\ \A s \in Service : pc[s] # "clone" => proto[s] = {}
    /\ \A s \in Service : pc[s] \notin {"save", "clone"} => eL[s] = {}
    /\ \A s, t \in Service : s # t => eL[s] \cap eL[t] = {}
    /\ \A s \in Service : \A e \in eL[s] \ proto[s] :
          /\ \A f \in File : e \notin cache[f]
          /\ \A t \in Service : e \notin Used(t) /\ (t # s => e \notin proto[t])

TextOK ==
    /\ disk \in [File -> [kind : Kind, version : Nat]]
    /\ floor \in [File -> Nat]
    /\ made \in [State -> [file : File, version : Nat]]

FreshInv ==
    /\ TextOK
    /\ \A f \in File : disk[f].version >= floor[f]
    /\ FreshAfterClear
    /\ \A s \in Service : \A e \in eL[s] :
          pc[s] = "save" => /\ made[e].file = call[s].file
                            /\ made[e].version >= floor[call[s].file]
=============================================================================
