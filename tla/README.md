# Verification of skynet_slg

TLA+ models of the server in this repository, checked with TLC on small
instances, and proofs about them that TLAPS checks for every value of the
constants. The program is a strategy-game backend written in Lua on the skynet
actor framework: a few processes (login, gate, game, rank) made of services
that exchange messages, with MySQL and redis behind them. Beside it stand the
libraries in C that the services load (`3rd/src-c/`) and the parts of Lua the
project changed (`src_encrypt/`).

Paths below are those of the repository (`PROJECT.json` gives them under
`src/`).

Contents

1. The system and its components
2. How concurrency works in this code, and how the models take it
3. The modules
4. The runs, their bounds and what they show
5. Fairness
6. What is proved
7. Where the code does not do what it says
8. What is not modelled
9. What could come next

## 1. The system and its components

    client --websocket--> gate (ws, ws_agent, ws_client)
                            |  cluster_call / cluster_send
             login (login_manager, slg_login)      rank (common_rank)
                            |
             game: agent_manager -- agent (one per role, with its mods)
                        |     \--- refd (reference counts, stop protocol)
                        |---- union_manager, chat_manager, map_manager
                        |---- mysqlpool, redispool, data_cache
             all nodes: redis_discover (who is alive)

For each component: the state it keeps, its operations, who it talks to, what
is hard, and what makes it correct.

**refd** (`service/refd.lua`, `lualib/reference/client.lua`, `server.lua`).
State: per service address a count, a version, a wait list. Operations: `init`,
`ref` (may sleep), `unref`, `release`, and a timer per idle period. Everybody
who uses an agent calls it; it sends `stop_service`. Hard: timers of earlier
idle periods, references taken while a timer runs or a service stops, handles
closed by the garbage collector. Correct when the count is exact, a held
service is never stopped, an idle one is, and no sleeping call is lost.

**Stop protocol** (`lualib/base.lua`, `stop_service`). A service runs its
`on_close_service`, counts down and exits; on exit a collected handle sends
`release`. Hard: the hook can block or fail.

**agent** (`server/game/agent.lua`). State: the role's `STATE` (unload, loaded,
online), `fd`, `gate_link`, `afk_timer`, a queue of work. Operations: load,
enter, client requests, disconnect, the AFK timer and its callback, close.
Hard: everything yields; a disconnect of a replaced connection, a timer that
fired but whose callback waits in the queue, handlers that throw. Correct when
each reference it takes is given back exactly once and a role without a
connection does not stay online.

**agent_manager and agent_helper** (`server/game/agent_manager.lua`,
`lualib/agent_helper.lua`). State: `roles[rid]`, the pool of prepared agents,
`assigning` (loads under way with their waiters), `ROLES`. Operations:
`role.enterServer`, disconnect, `agent_load`, the thread that prepares agents,
`agent_exit`. Hard: several coroutines ask for one role at once; loads and
preparations fail. Correct when a role has one loader, an agent one place, the
pool is bounded and nobody waits for ever.

**gate** (`server/gate/ws.lua`, `ws_agent.lua`, `lualib/ws_client.lua`). State:
per connection its login state, link to the agent, counters. Hard: a
connection that closes before its link arrives; messages of an old connection
after a new one. Correct when the agent's view of the connection converges to
the gate's (the code makes no attempt at a repair).

**union_manager** (`server/game/union_manager.lua`, calls from
`mods/m_union.lua`). State: cached unions, applications, presence, unload
timers; two tables of the database. Operations: create, dismiss, apply,
approve, reject, kick, exit, appoint, abdicate, notice, online/offline, the
unload timer, load. Hard: every command may yield for the database before and
in the middle; several copies of a union exist; saves overtake each other.
Correct when a union is always led by a member and keeps its limit, and a
decision stays decided.

**chat_manager** (`server/game/chat_manager.lua`, `mods/m_chat.lua`). State:
channels with players and a history, the channels of each role. Operations:
join, leave, send, set_config, cleanup, update_agent_addr. Hard: two tables
that must agree, a history at its limit. Correct when they agree and a history
is a suffix without a gap.

**Role modules** (`server/game/lualib/mods/`): the handlers an agent runs for
its role, one at a time: resources, facilities, generals, armies, skills. State
in memory and a table of rows each. Hard: a request changes several tables and
several rows and saves them one by one, so a process that dies leaves rows of
mixed age; long sequences of legal requests. Correct when no mixture duplicates
what the player paid for.

**map_manager** (`server/game/map_manager.lua`). State: the grid of buildings
and cities with caches by position, by role, by id. Operations: place a main
city, occupy, build, upgrade, give up, destroy; periodic checks. Hard: check
then write with a database call in between; entries of a give-up queue that
outlive an occupation. Correct when a position has one owner and the caches
agree.

**login** (`server/login/`): registration and login against the user tables.
Correct when a name has one account and an account one live session.

**rank** (`server/rank/common_rank.lua`): scores in redis and MySQL with caches
of the answers. Hard: read, yield, write; one cached answer for several
questions. Correct when no update is lost and the answers are those of one
state.

**redis_discover** (`service/redis_discover.lua`): heartbeats into a sorted set,
notifications, node lists. Hard: the order of leaving and announcing, timeouts
near the heartbeat period. Correct when a live node ends up in every list and
a dead one in none.

**mysqlpool / redispool / data_cache** (`service/`): round robin over
connections (so the statements of two coroutines have no order), and a
write-back cache that nothing starts today.

**kcp** (`3rd/src-c/kcp/ikcp.c`, `lkcp.c`): reliable messages over datagrams.
State: per end a control block with queues and buffers of segments, windows,
what was acknowledged, the probe of a closed window. Operations: send, recv,
input of a datagram, update (which flushes). Hard: everything a link can do,
acknowledgements that overtake each other, windows that close. Correct when the
two programs see a channel that loses, repeats and reorders nothing, and what
is sent arrives.

**skiplist and zrank** (`3rd/src-c/skiplist.c`, `lua-skiplist.c`,
`lualib/zrank.lua`): rankings. State: a skip list with spans and backward links
and a table of scores beside it. Operations: add, rem, limit, rev_limit, ranges
of places and scores. Correct when list and table hold the same and every query
answers what sorting would.

**aoi** (`3rd/src-c/aoi.c`): who comes near whom. State: objects with reference
counts in a hash table of their own, pairs to look at again. Operations:
update, drop, message. Correct when references are exact, the table loses no
id, and nobody comes near in silence.

**crab** (`3rd/src-c/lua-crab.c`, `crab.c`): filters of forbidden words, a trie of
hash tables and sorted lists. Correct when every message is filtered by the
longest words from the left.

**Loader of Lua code** (`src_encrypt/lauxlib.c`, `lbaselib.c`): all services of a
process share compiled files. State: a cache from files to prototypes, each in
a Lua state of its own, under a spin lock. Operations: loadfile, dofile,
cache.clear, cache.mode; encrypted files. Hard: services load the same file on
different threads; nobody counts who uses a prototype. Correct when the state
of a prototype in use is never closed and a cleared cache gives nothing old.

**Lua registry and string buffer** (`src_encrypt/lauxlib.c`, callbacks of
`lkcp.c`): slots with a free list threaded through them; strings built in an
array or a box on the stack. Correct when a reference finds what was put there,
and what a buffer hands out fits, also where sizes overflow.

**webclient** (`3rd/src-c/webclient.c`): HTTP requests over libcurl. State: per
request a block that grows with the body. Correct when nothing is copied behind
the block and a body cut short is reported.

**Others**: session keys, http and log services, bindings of TLS and sockets,
vendored libraries, static configuration. They keep no state of the kind above.

## 2. How concurrency works in this code, and how the models take it

skynet runs one coroutine of a service at a time; a coroutine gives way only
where it yields: `skynet.call`, `sleep`, `yield`, `wait`, a `queue`. The models
therefore take the code between two yields as one action, never less and never
more, and let everything else move at a yield. `skynet.fork` and `wakeup` run
before the next message of the service, so AgentPool takes them as part of the
step that forks or wakes. skynet itself is a submodule without its sources
here: its calls, timers and the order of messages between two services are
modelled from how the code uses them. The database executes statements of one
coroutine in order and those of several in any order.

The libraries in C run inside one service and are not entered twice: a call is
one action. The exception is the loader. Services are distributed over the
threads of a process, and the cache of compiled files is the one structure they
share without messages, so CodeCache splits a load at every lock and unlock.

## 3. The modules

| module | models | proofs |
|---|---|---|
| `RefCounted` | abstract: a service may stop only while nobody holds it | |
| `Refd` | refd, its clients, the stop protocol; implements `RefCounted` | `RefdProofs` |
| `AgentSession` | one role from its connections to its agent | `AgentSessionProofs` |
| `AgentPool` | the agents of many roles: pool, loads, exits | `AgentPoolProofs` |
| `UnionManager` | the union service and its two tables | `UnionProofs` |
| `ChatManager` | the chat service and the agents' joins and leaves | `ChatProofs` |
| `Armies` | the armies, generals and stock of a role with their rows | `ArmiesProofs` |
| `ReliableChannel` | abstract: messages arrive whole, once and in order | |
| `Kcp` | two ends of a conversation and the link between them; implements `ReliableChannel` | `LibraryProofs` |
| `KcpClock` | the clock of one end: flushes, `ikcp_check`, the timer of a segment | `NativeProofs` |
| `Skiplist` | the skip list, its binding and zrank | `NativeProofs` |
| `Aoi` | objects, hot pairs and references of the area of interest | `NativeProofs` |
| `AoiMap` | the hash table of aoi.c | `LibraryProofs` |
| `Crab` | both word filters | `LibraryProofs` |
| `HashTables` | AoiMap and Crab side by side | `LibraryProofs` |
| `CodeCache` | the loader of Lua code and its shared cache | `NativeProofs` |
| `Registry` | luaL_ref and luaL_unref with the callbacks of KCP objects | `NativeProofs` |
| `LuaBuffer` | the string buffer | `NativeProofs` |
| `WebClient` | the requests of a webclient, libcurl external | `NativeProofs` |
| `Native` | CodeCache, HashTables, Registry, LuaBuffer, WebClient, KcpClock, Aoi, Skiplist side by side | `NativeProofs` |

`MC<module>` extends a module for TLC; `MC*.cfg` are its instances. The native
modules except Kcp share nothing: `HashTables` has an instance each of AoiMap and
Crab, `Native` extends it and CodeCache and has one each of six others; they assume
what the constants must satisfy and name the properties. The variable `part` of `MCNative` says which of the modules a behaviour
is one of. `MCUnionManager` has four
instances of UnionManager in the same way.
A definition that stands for a C or Lua function has its name; the ones that are
mutants say so in their comment and are used by nothing.

### Refd and RefCounted

One handler of refd is one action, because no handler yields before its last
state change: `init`, `Ref`, `unref`, `Release` (the exit message), `check`
inside `unref`, `ReleaseTimer`. `REFS`, `ref`, `ver`, `waitlist` are refd's
entry; `ref = -1` is the value the code stores once it told the service to
stop. Messages under way are in `stopCalls`, `releases` and in the state of a
handle. `quiet` is a history variable: the timers since whose start no
reference was granted. A service in `Hung` never returns from
`on_close_service`. A refused or woken client retries with `Retry`, as
`query_agent` does. `MaxVer` bounds the idle periods of a service.

RefCounted says what clients rely on: a service is up, held by a set of
handles, and may be stopped only when that set is empty. The refinement mapping
takes the handles refd counts as the holders.

### AgentSession

The gate's connection (`conn`, `linked`), the manager's login coroutine per
connection (`login`), its tables, and the agent: `State`, `fd`, `gate_link`,
`afk_timer` and the queue `q`, of which the head runs; `step` tells how far an
enter has come, since it yields three times. The calls to refd are taken with
what RefdProofs proves: the count is exact, and the agent is told to stop at
some moment when it is zero. The load is taken to be shorter than five minutes.
Left out: `online_uid`, `online_rid`, `online_cnt` and `wait_login`, which
are written and never read; the login state of a gate connection; a second
role.enterServer on one connection. A handler of a module may throw
(`MayThrow`), because `event.dispatch` has no pcall. `HookEnds` are the ways
the call of `on_close_service` to an unregistered name can end. `MaxQueue`
bounds the requests a client sends while the agent is busy.

### AgentPool

`agent_load` as a state machine per coroutine: `creating` and `loading` are its
two yields, `waiting` its sleep in `assigning[rid]`. `in_prepare` is what the
one preparing thread still has to create. A load takes a prepared agent
(`LoadPrepared`) or creates one (`LoadCreate`, `Created`), ends in `LoadDone`
or `LoadFails`, and wakes the waiters (`Released`). Agents leave by
`agent_exit`, or by `ExitUnheard`, since today the exit is reported under a
name that is not registered. `role_agent` is a counter that is never read.
AgentSession's `roles` is one entry of this module's.

### UnionManager

A command is the action of a coroutine (`proc`) that has found its object: in
the cache, or by `Select` and `Put`, where a load that was under way may replace
a newer object. The object a command works on may no longer be the cached one,
and the model keeps the row it holds. `Save` starts the save of a row, `Execute`
executes it or fails; statements of different coroutines come in any order.
`applyWrites` are the updates of applications the code forks. The unload timer
has three states (`nil`, recorded, saving). `cancelUnloadTimer` passes what
`skynet.timeout` returned, a coroutine, back to it and throws: a command that
meets a recorded timer ends there, and the model ends it there. Nobody passes
an agent to `playerOnline`, so only the presence of a union's table of online
members matters. Only createUnion, applyJoinUnion, getUnionList and
playerOnline/Offline have callers in the repository today; the rest is the
service's interface. Names, notices and logs are left out. Dismissed unions
(state 0) still accept the commands that do not look at the state, as in the
code.

### ChatManager

No handler yields. An agent that enters sends one join per channel (the order
of `pairs` is open, hence a set), and leaves by calling leave with the channel
names; the calls wait until the joins arrived, because messages of one agent
keep their order. A message is its number.

### Armies

The requests of `m_armys` and `general_convert` with the tables they change, in
memory and in the database. The agent runs them one at a time behind its queue.
Every request begins with `checkArmyConscript`, and may create its army
(`getArmy`). What they change in memory they save at once: the rest of a
request waits for the saves, so each of the two, and the request itself, is an
action that `saving` keeps apart from the next. A request saves the stock
(`SaveStock`), the armies row by row (`SaveArmy`, until `Saved`), the generals
(`GeneralsSaved`) and perhaps the armies once more.

Any statement may fail. `saveDbData` returns false and none of these modules
looks at it: the row stays as it was and the request goes on. So `SaveStock`
writes or does not, the rows that `SaveArmy` has not reached when `Saved` comes
are those that failed, `SaveGenerals` writes any of the generals, and an army
whose insert failed stays in memory without id, where no request can change it
and no save reaches it. `load` may come at any point: the process died, or the
agent was stopped, and the role starts from the rows. If the select of the
armies or the stock fails the load throws; m_generals.lua goes on without
generals.

`owed`, `unpaid`, `stale` and `astray` are history. A recruit is owed while the
row of the stock still has his price, the save of the deduction having failed,
and unpaid once the role was loaded from it. A general is stale in an army's
row if he left the army and the save of that failed, and astray once the role
was loaded from it. The properties except the unpaid and the astray, and no
others: whatever else fails may lose something but gives nothing away.

Abstractions: a soldier is the token of `Recruit` paid for him, so numbers of
soldiers are sets and "paid twice", "in two places" and "passed on" can be
told. Time is left out: any check may find any recruitment complete.
Facilities, costs and limits only refuse requests. An army_dispose that takes a
general out of an army he is not in (m_armys.lua:389-408) writes index 0 of a
list of three; the row then is a JSON object instead of a list, and this request
is left out: after a load the lists of that army have no integer index at all,
and what `ipairs` and arithmetic do with the gaps is outside the model. The
three generals that are created when the load finds none are left out.

### Kcp and ReliableChannel

An end is a record with the fields of IKCPCB, each C function an operator on it
(`Enqueue`, `Probe`, `Output`, `Flushed`, `Input`, `MoveReady`, `Shrink`), and a
call of `lkcp.c` an action: `Send`, `Recv`, `Update`, `Deliver`. `link` holds the
datagrams under way; `Deliver` may take any of them, `Lose` and `Duplicate`
happen at most `MaxFaults` times. Units of data stand for bytes: a datagram of
`Mtu` units carries segments with an `Overhead` each, so both fragmentation and
packing of several segments happen. Loops of the code (`ReadyRun`,
`InputSegments`, `Pack`) are recursive functions on an interval.

Abstractions: there is no clock. Any retransmission timer of a segment that was
sent, and the timer of the probe, may have expired at any update; the clock that
decides it is in KcpClock. The numbers do not wrap. `fastack` counts no
further than what a comparison can tell. `ikcp_send` accepts a message of more
fragments than the peer's receive window, which can then never be received; the
messages of the instances fit.

ReliableChannel says what the programs rely on: what an end received is what the
other sent, so far. `ImplementsChannel` maps `sent` and `got` to it.

### KcpClock

The other side of the same control block: `kcp` has the fields of IKCPCB that the
clock needs, `seg` at most one segment of `snd_buf`. Timestamps count modulo `Wrap`
and are compared as in the code, by the sign of a difference (`itimediff`). An
`Update` comes any time after the one before, and any number of `Flush`
(`lkcp_flush`) between two: that one sends by the time of the last update, which
the control block has kept (`current`). That a segment enters, is overtaken
or acknowledged is a choice, since Kcp has what decides it; so is the timeout that
an acknowledgement of this or another segment gives (`Acknowledge`), within the
bounds the code puts on it. `since`, `planned` and `left` are history: they
count the time that the program gave to ikcp_update, in numbers that do not
wrap, as of the last call of it.

### Skiplist

Nodes are records with levels, spans and the backward link; the random height
of a new node is a choice. Each operation of `zrank.lua` is an action; the
queries are operators and compared with the ranking that `tbl` stands for. A
deletion by rank may stop early, since the callback it calls may throw. All
searches of the code are one double loop that differs in the test of the inner one:
`Descend` takes the set of positions that a search passes and gives where it leaves
each level, `Along` is the inner loop. `Collect` is the loop of both range queries.
The loops are recursive functions over the levels, the positions on one, or the number
of passes, so that they can be reasoned about.

### Aoi and AoiMap

`aoi_update`, `Drop` (an update with the letter d) and `aoi_message` are the
actions. Aoi takes the map from ids to objects as a function; AoiMap is its hash
table, with chains, displacement and doubling. `map_insert` calls itself in the code;
an id that made way can only be chained, and a new table has room, so `Insert` and
`rehash` need no recursion but the loop over the slots. A place is a number instead of
three. `told` and `adrift` are history. The code gives a pair up when it is
further apart than twice the radius, and looks again only after a flagged move;
as a move is flagged only from half the radius on, an object that is away from
the place it was flagged at may come near a given-up one unseen. `adrift` are
these pairs; `NoSilentNeighbour` says there are no others.

### Crab

`Insert` enters a word into both dictionaries; `dict_filter` and `ListFilter` are
the filters, compared with a definition in two lines. All three are one loop over the
message (`Sweep`) that asks at each position how long the word there is: `Step`
searches the trie, `find_word` a list, `Longest` the set of words. The pointer in
a node is the place of a table in `heap`. The code's recursions and loops are
recursive functions on intervals, those over a chain on the slots. `table_newkey` calls
itself through `table_expand`; since a new table has room for all old nodes and one
more, the inner calls are `Placed`. `_hash` is any function (`Hash`). The swap of one open dictionary for another and the refusal
of lists with illegal values are left out.

### CodeCache

A load goes through the labels of `pc`: `Lookup` (under the lock), `Compile`
(in a new state, without it), `Save` (under it), `Clone`, or `Direct` without the
cache, and `Sniff`, which reads a file that did not compile again to see whether
it is encrypted. `stack` holds the values of the calling function, since an
encrypted file empties it. DES is a text that decrypts or does not (`garbled`).
`floor` is history: what a cached text must be at least since the last clear.

### Registry

`slots` is the registry above the predefined keys, with the free list in it. A
reference that lkcp_create keeps after an error is a slot nobody frees. Objects
are collected in any order.

### LuaBuffer

Sizes are natural numbers modulo `Width`; of the bytes only their number is
kept. The function that uses the buffer obeys the manual: its stack is level at
each call (`Level`) and it adds what it was given room for. A failed allocation
or an overflow raises an error, which closes the slots (`Raise`).

### WebClient

`webclient_query` lets libcurl deliver pieces of bodies to `write_callback`, each
with or without memory for a larger block, and finish transfers. Headers, the
progress and debug callbacks and url encoding are left out.

## 4. The runs, their bounds and what they show

Passing runs. Distinct states in brackets.

* `refd` (12,889): two services, one stopped with a delay and one whose close
  hook hangs, and handles of clients that share them; up to three idle periods.
  `CountIsExact`, `HeldIsRunning`, `NoLostWaiter`: no order of messages and
  timers loses or doubles a reference, stops a held service or forgets a sleeping
  call. `StopAfterQuiet`: a timer of an earlier idle period never stops the
  service. `IdleIsStopped`, `WaiterAnswered`: it is stopped in the end, and who
  sleeps is answered. `ImplementsRefCounted`: the refinement.
* `session` (275,833): two connections of a player, one other user of the agent,
  handlers that may throw. `CountCovers`: the count covers what is owed, in every
  order of logins, disconnects, timers and callbacks. `NoAbandonedSession`,
  `AfkCompletes`: an online role without connection has its timer running or
  the callback queued, and leaves the online state. `StopOnlyIdle`: the
  agent is told to stop only when nothing uses it. `LoginEnds`: every
  role.enterServer returns, also when its load fails or it waited for another's.
* `pool` (74,173): three agents, three coroutines, two roles. `AgentHasOnePlace`,
  `PoolBounded`, `OneLoader`, `LoadEnds`.
* `union` (1.4 million): four instances of one specification. Two roles and two
  coroutines on one union with an application, nobody online; one coroutine and
  restarts of the service at any point; three roles, two coroutines and a limit
  of two members; a role that comes and goes, so that presence, the unload timer
  and its save meet every command. The third begins with a union of one role
  that is stored but not in the cache, as the unload timer leaves it, and
  applications of the two others: loads, approvals and saves overlap at the
  limit. It has no new unions, no dismissals and no vice chairmen, which the other
  instances have and which do not add a member. `RolesValid` speaks of every copy of a union
  (cache, rows, statements under way, objects that commands hold): its chairman
  is a member and its vice chairman another one. `CapHeld`: none holds more
  members than the limit. `DecisionFinal`: a decision stored stays.
* `chat` (0.6 million): two roles with two agents, two channels, limits of one and
  two, three messages. `InSync`: players of the channels and channels of the
  roles agree, without duplicates. `HistoryIsLatest`: a history is the last
  messages without a gap, while the limit changes.
* `armies` (1.1 million): two generals, two armies of two positions, two soldiers,
  and a load at any point. Three parts: no statement fails; up to two steps
  (`MaxFail`) in which any of the statements fail, the armies using one position;
  the same, the role having one army. The last two are without general_convert.
  `OnceInArmy`: no general in two positions, but for one who is astray (in the
  rows, or stale). `PaidOnce`: no soldier unpaid for, twice, or both in an army and
  in the stock, but for those whose deduction failed to be saved. `Loyal`: none
  passes from one general to another, but for these. The first two also of the rows.

* `kcp` (1.2 million): a message of two fragments and one of one, in both congestion
  modes, over a link that holds two datagrams each way, reorders at will and
  loses or duplicates one. `AckedIsReceived`: no order of acknowledgements makes
  the sender forget a segment that is missing. `ImplementsChannel`: the
  refinement.
* `kcp_live` (23,440): two messages through a window of one. `Delivered`: both
  arrive, although the window closes and what opens it may be lost.
* `native` (504,778): the native modules.
  `ClonesLive` and `FreshAfterClear` with two services, three states for
  prototypes, one file that is edited once and one clear of the cache.
  `Ranked` (the list is well linked at every level, and every query answers what
  sorting would) with four members of two scores on two levels.
  `RefsExact` and `NoSilentNeighbour` with two objects on seven places, a radius
  of two and two flagged moves each. `MapFinds` with seven ids in tables of two,
  four and eight slots. `FiltersAll`
  with four out of seven words that begin and contain each other, in every order and
  also twice, of runes that share positions in the tables and the lists, and all
  messages of up to four runes; it asks once there is a word. `OwnCallback` with
  three objects, two functions and a failed create. `RoomMade` and `SlotHeld` with
  sizes of four bits. `BodySound` (a body lies within its
  block and is not truncated without an error) with two requests and bodies of up
  to five in pieces of one and four. `Punctual` and
  `TimersExact` with a clock that wraps after twelve ticks, is set anew at a
  difference of three, two intervals that may change, and a segment that is sent
  up to twice, with flushes of the program's own between the updates: the
  connection flushes when its interval is over, no flush falls into the time that
  `ikcp_check` lets the program sleep, and by the time the program gives to
  ikcp_update a segment is sent again by the flush of an update when its timeout
  has passed, and by no flush before. What lkcp_flush does at a later time than it
  knows of is in section 7.

Runs that end in a violation, each of one property that a comment states and the
code does not keep (section 7): `agent_reclaimed`, `unload_only_offline`,
`env_kept`.

Deadlock is not checked in `refd`, `session` and `pool`, where services,
connections and agents are used once each and all may end; in `kcp` and
`kcp_live`, where everything may be delivered and acknowledged; in `native`
and `env_kept`, where words, versions and requests are used up.

Why the bounds are enough to be interesting: every action and every disjunct of
each next-state relation fires in a passing run, and for every property a
plausible change of the code (`mutants`) is found within these bounds. Two
roles show every pair of roles in conflict, three agents and three coroutines a
load, a waiter and a preparation at once; three idle periods let two stale
timers be under way; two positions in two armies give every way of moving a
general and a mixture of old and new rows. The unions need four instances
because their product is too large for one. A conversation of three segments
over a link with one fault has an acknowledgement overtaken, a segment repeated
after it was received and a window that closes. Seven ids fill the hash table
of aoi.c past two doublings; four-bit sizes wrap at every sum, and a clock of
twelve ticks wraps between any two flushes and within any timeout. The theorems
below cover all values of the constants, so for them the runs are only a first
filter.

## 5. Fairness

Refd: a message under way is delivered (`stop_service`, `unref`, `Release`), a
timer that was started fires, a service whose hook returns exits. skynet never
drops a message inside a process, so weak fairness is what it gives. Nothing
makes a client give a reference back: `IdleIsStopped` is about services without
one, and no fairness is assumed for `Ref` or `CloseHandle`.

AgentSession: the coroutines of the manager continue when their call answered,
messages are delivered (a cluster_send may be dropped: `LoseDisconnect`), the
queue of the agent goes on, timers fire, other users give their references
back. No fairness is assumed for clients: they may stay connected or never come
back, and a role whose disconnect was lost stays online; the liveness
properties speak of roles whose `fd` was cleared.

AgentPool: the coroutines of loads go on, that is, newservice and the load of
an agent return or throw.

Kcp: both programs call update and recv again and again, as `ikcp.h` asks them
to, so messages are sent and received (weak fairness), and there is again and
again an update at which the timer of the oldest segment, or of the probe, has
expired (strong fairness of `Retransmit` and `ProbeAgain`: an update is possible
only while the bounded link has room). The link delivers its oldest datagram if
it does not lose it, and loses at most `MaxFaults`.

The other native modules, the unions, the chat and the armies promise nothing
that must eventually happen, and have no fairness.

## 6. What is proved

All theorems are checked from the assumptions each module states on its
constants (`RefdAssumption`, `SessionAssumption`, `PoolAssumption`,
`UnionAssumption`, `ChatAssumption`, `ArmiesAssumption`): the special values are
not members of the sets they stand beside, some sets are finite, bounds are
naturals. `Kcp` assumes that there are two ends (`TwoEnds`), that scripts are
sequences of sizes (`ScriptIsSizes`), modes are the code's (`ModesAreSettings`),
and sizes natural numbers of which a datagram holds more than a header (`SizesFit`).
`Native` and `HashTables` assume that a
buffer's first size is one of its type's (`SizesFit`), that the clock wraps at an
even number, is set anew at a difference of at most half of it and intervals are no
longer than that (`ClockWraps`: 2^32, 10000, 5000), that no timeout adds up to half a
wrap (`TimeoutsFit`: a timeout is at most a minute), that sizes of bodies are
natural numbers (`FiniteBodies`) and that there are finitely many objects on
integer places (`FiniteArea`), that ids are natural numbers and a new table is
not empty (`IdsFit`), and that the members of a ranking are finitely many numbers other
than zero (the header), its scores are integers and it has at least one level
(`RanksFit`), and that words and messages are sequences of runes, no word is empty, and
zero and the star are runes (`WordsFit`). CodeCache and Registry need none. No bound on the
sizes of the instances is used. Each component has an inductive invariant `IInv`
that is proved to be one; the other theorems follow from it.

* **RefdProofs**: `TypeCorrect`, `CountExact` (the count of a service not told to
  stop is the number of handles granted and not returned), `HeldStaysUp`,
  `WaitersKept`, `StopIsQuiet` (an action property), and `Refinement`:
  `Spec => RefCounted`. The count alone is not inductive: the invariant
  also ties the life of a service to its entry (`LifeAndEntry`: what is known to
  clients and not told to stop is loaded, a release comes only from a service
  that is gone), sleepers to the wait list, and says that the timer of the
  current version is quiet while the count is zero (`TimersFiltered`).
* **AgentSessionProofs**: `TypeCorrect`, `CountCoversOwed`, `NeverAbandoned`,
  `StopIsIdle`. The invariant counts what is owed: one reference for a session
  or its grace period, one for an enter between taking it and installing the
  session, one per queued callback of a timer that fired, one per user. It is
  an inequality, since `agent_reclaimed` shows the code losing references.
* **AgentPoolProofs**: `OnePlace`, `PoolStaysBounded`, `LoadsOnce`. The places of
  an agent (pool, a coroutine, a role) are tied to its state and its owner.
* **UnionProofs**: `AlwaysLed`, `NeverOverfull`, `DecidedOnce`. The invariant is
  about all copies at once: cached objects, rows on their way in either
  direction, objects commands hold, rows of a timer. A decision is final
  because an update under way can only repeat what the memory decided.
* **ChatProofs**: `TablesAgree`, `KeepsLatest`.
* **ArmiesProofs**: `NeverTwice`, `NeverFree`, `SoldiersLoyal`. A row saved beside
  older rows, which a crash or a failed statement left, is safe only if each row
  may stand beside each army in memory. `Apart` says so of the table in memory, of
  the rows, and of the one beside the other: a general in both is astray, or stale
  in one, a man in both is unpaid. The stock is apart from both (`Free`), and the men
  of a row serve nobody else in memory (`Serve`). A table that holds less keeps all
  this (`Less`); each other request shows it once, of the table it leaves
  (`Request`); a row that is written (`Row`), the rows that failed (`Left`) and a
  load (`Loaded`) move what is excepted from stale to astray and from owed to
  unpaid. That a general gone from an army is stale in its row when nothing is
  being saved (`Saves`) is needed for the next general in his place.
* **LibraryProofs**, about Kcp and the two hash tables, which need the same
  induction. Kcp: `IInvHolds`, `NothingForgotten` (`AckedIsReceived`) and
  `ReliableDelivery`: `Spec => ImplementsChannel`, the refinement of
  ReliableChannel. The argument is one numbering of all the fragments an end will
  ever send, `Stream(e)`, a function of the script alone. The invariant says that
  everything on its way carries the fragment of its number: the segments waiting and
  in flight, those in a datagram, those buffered and queued by the receiver
  (`Carries`); that each number given out is in flight or was received, and what is
  acknowledged, in an acknowledgement list or on the link, was received (`Received`);
  that buffers hold a number once; and that the messages passed in and taken out are
  the stream up to where the blocks stand (`At`). AckedIsReceived alone is not
  inductive: an acknowledgement under way must be of something received, whatever is
  lost before it arrives. The loops over datagrams and queues are
  recursive functions on intervals; that they are what their equations say
  (`Iteration`), and induction along them (`BoundedInd`), is derived from the
  well-foundedness of `<` with sets in the place of predicates.
  * AoiMap: `NothingLost` (`MapFinds`). The invariant numbers the slots of a chain
    by how many follow (`Chained`): every chain begins at the main position of its
    ids, has each number once and ends. So the search is a function that ends at the
    slot of the id (`SearchIs`); placing, chaining and making way each keep a
    numbering (`PlacedGrows`, `ChainGrows`, `MakesWay`), and rehash has room for
    every object, since each one takes at most one slot of twice as many
    (`CarriedOn`). No free slot lies above lastfree: without this a table may be
    taken for full, or a free slot be missed. The loop of rehash is a recursive
    function, treated as in Kcp.
  * Crab: `FiltersRight` (`FiltersAll`). A table of the trie is one of aoi.c in which
    every id has an object (`AsMap`), so the lemmas of AoiMap on searching, placing and
    chaining apply to it (`Found`, `PlacedGrows`, `ChainGrows`); making way, which
    moves a whole node, has its own (`MovedGrows`). Expanding has room for every node
    and one more (`RefilledOn`). What a table says is the set of the keys, flags and
    values of its nodes (`Holds`), which moving a node keeps. The invariant says that
    some naming of the tables by the runes that lead to them explains the trie
    (`Trie`): names are unique, a node is marked if and only if its runes are a word,
    its value is the table with that name or, if it is none, there is no such
    table, and every beginning of a word has a node. The search then keeps the longest
    word so far (`Scanned`), also when it stops early: without a node no longer word
    goes on. Of a list the invariant says that it has the words of its hash, the
    longest first (`Listed`), so its first match is the longest one. As all three
    answers agree at every position of every message, the sweeps do, also before there
    is a word.
* **NativeProofs**, one part for each module:
  * CodeCache: `ClonesStayAlive` and `ClearIsFresh`. A state is closed by the
    service that lost the race to save it, so the invariant says that such a state
    (in `eL`, not in `proto`) is known to nobody else: no cached entry, no
    function, no other service. For a cleared cache the second invariant
    (`FreshInv`) relates what is cached and what is about to be saved to `floor`.
  * Registry: `OutputsCallTheirOwn` (`OwnCallback`). The free slots form a list in
    which no slot has two predecessors, and no object's slot is on it; without the
    first part the second is not kept.
  * LuaBuffer: `NeverOverrun` (`RoomMade`) and `BoxesClosed` (`SlotHeld`). Growing by
    half may wrap, the sum that replaces it then may not, since the code compares
    first. The rest of the invariant is the stack: the function's own values, the slot
    of the buffer, and at most one value that is still to be added.
  * WebClient: `BodyNeverCut` (`BodySound`). Until a reallocation
    fails the lengths in the structure are those of the block and the body (`Whole`);
    then the flag stands, and the transfer ends in an error.
  * KcpClock: `FlushesOnTime` (`Punctual`) and `ResentOnTime` (`TimersExact`). The
    invariant relates timestamps modulo `Wrap` to true time: the differences that
    matter are below half a wrap, where the sign of a difference is the order in
    time (the lemmas on `itimediff`). For a timer this needs a bound on how often
    its timeout was lengthened, hence `MaxXmit` in `TimeoutsFit`. lkcp_flush is a step
    like the others: it moves no time, and what it sends gets a timer that runs by
    the same one (`FlushKeeps`, `SendKeeps`).
  * Aoi: `ReferencesExact` (`RefsExact`) and `NeighboursHeard`
    (`NoSilentNeighbour`). References are the sum of the map's and of the mentions
    in hot pairs, which add up over disjoint finite sets. That a pair kept is a new
    one takes the invariant that a hot pair knows no version newer than its objects
    (`Known`); that nobody comes near in silence, that two objects at rest are a
    hot pair, far apart or given up (`Accounted`), with a lemma on distances
    (`NearStays`).
  * Skiplist: `RankingRight` (`Ranked`). The invariant says that some numbering of
    the nodes, the header with 0, explains the list (`Made`): the numbers are those of the
    order of scores and members, each forward link leads to the node with the next
    number on its level, each span is the difference of two numbers, and the backward
    links go down by one. Under it a search that passes the first k elements, however
    it tests that, leaves each level at the last node there whose number is at most k, with
    that number as its rank (`DescendIs`); so the test decides nothing but k, and
    one lemma serves insertion, both deletions and all queries. Insertion and
    deletion of element k make the list that the shifted numbering explains
    (`GrownMade`, `ShrunkMade`). The one array of positions of `slDeleteByRank` stays
    right during the run since it lies before all of it (`DeleteLoop`). A level above the
    list's keeps old spans in the header, of which the invariant says nothing: they are
    set before the level is used again. At last the numbers are the ranks of `tbl`, by
    counting (`RankIs`), and the loops collect runs of numbers (`CollectIs`).

Only model-checked: the liveness properties (`WaiterAnswered`, `IdleIsStopped`,
`AfkCompletes`, `LoginEnds`, `LoadEnds`, `Delivered`), because the installed provers
do not reason about fairness and ENABLED; and the violations.

## 7. Where the code does not do what it says

Shown by runs:

* `agent_reclaimed` (`server/game/agent.lua:156`): the AFK callback does not test
  whether the player reconnected. It marks a connected role as loaded, the next
  disconnect gives nothing back, and the agent stays for ever.
* `unload_only_offline` (`union_manager.lua:329`, `m_union.lua:30`): a union is
  unloaded while members are online.
* `env_kept` (`src_encrypt/lauxlib.c:1838`): luaL_loadfilexx empties the stack of
  its caller before it decrypts, so a function from an encrypted file does not
  get the environment that loadfile was given (`lbaselib.c:326`) but the
  decrypted text in its place.

Seen while modelling, without a run:

* `agent.lua:175`: `on_close_service` calls `"agent_manager"`, the service is
  `".agent_manager"`; the entry of the role is never cleared and later logins are
  sent to the stopped service. `agent_helper.lua:84` then retries for ever, and
  `agent_exit` (172), were it called, would not compare the entry with the agent
  that exits.
* `base.lua:299-303`: saveDbData reports a failed statement and the role's modules
  ignore it. A deduction that failed to be saved (`m_resource.lua:122`) beside the
  recruits that were (`m_armys.lua:59`) gives the price back at the next load, and
  the recruits are free. The row of an army that failed beside that of another
  leaves a general who moved in both after a load. When the select of the generals
  fails the role gets three new ones (`m_generals.lua:51`).
* `m_armys.lua:389-408`: taking a general out of an army he is not in succeeds,
  writes index 0 of the army's lists and turns them into JSON objects when they
  are saved; after the next load all positions of that army are empty, its
  soldiers are lost and its generals stay busy.
* `m_armys.lua:184`: a general who is replaced in his position stays busy and can
  join no army.
* `base.lua:631`: a disconnect is dropped when discovery says the node is offline,
  and `ws_client.lua:217`: a connection that closes before its link arrives sends
  none; the role stays online.
* `union_manager.lua:190`: an application whose insert fails stays listed without
  an id and can be neither approved nor rejected; `655`: that the applicant has a
  union already is not tested.
* `chat_manager.lua:93`: a role that is still listed keeps the address it joined
  with first.
* `common_rank.lua:342, 610`: an update reads a score, yields and writes, so one
  of two is lost; the cached answer for few entries is given to who asks for many.
* `redis_discover.lua:265`: on exit a node announces that it is offline before it
  leaves the sorted set; who refreshes on the announcement finds it alive.
* `lkcp.c:78-91`: lkcp_create keeps its registry reference when it fails, and the
  callback keeps the coroutine that created the object (`c->L`), which may be
  collected before it.
* `ikcp.c:468`: a message of more fragments than the peer's receive window is
  accepted and blocks the conversation.
* `ikcp.c:1114-1119`: ikcp_check answers "now" when the timer of a segment is over,
  although ikcp_update does nothing before the next flush; a program that follows
  it calls update without a pause until then.
* `lkcp.c:179-188`, `ikcp.c:846`: lkcp_flush sends by the time of the last
  ikcp_update. A segment it sends is sent again too early by as much as that is
  past, and one whose timeout ran out since is not sent again by it.
* `webclient.c:231, 334-342`: the form list leaks when a request fails after it was
  built.
* `m_chat.lua:36` leaves channels by name where it joined by id: a role stays a
  player of every channel after its logout (docs/chatserver_protocol.md:244).
* `chat_manager.lua`: history 20 in the code, 100 in the docs; after the limit is
  lowered a history shrinks by no more than one message per message; the
  `force` of cleanup_channels has no effect (368).
* `docs/server_push_messages.md:402` promises a push when a player is kicked; the
  agent's kick only logs.
* `m_skill.lua` builds an SQL text that is no statement when it saves
  `belong_generals`: after a load the limit of three generals per skill is not
  enforced, and taking a skill off fails. Putting a skill in an occupied slot
  leaves the old one's `belong_generals`.
* `m_generals.lua:316`: general_convert does not test the state, so one general
  can be handed back again and again until the next load; the gold of a draw is
  not saved.
* `m_resource.lua:190`: interior_collect assigns the yield to the stock.
* `map_manager.lua`: `isPositionEmpty` calls a function defined as local further
  down; placing a main city yields between the test and the insert, and the
  table has no unique key on the position; an occupation leaves the lists of the
  old owner and his entry in the give-up queue; `occupyBuild` (901) tests and
  writes with a yield in between.

## 8. What is not modelled

| part | why |
|---|---|
| gate: dispatch over ws_agents, login state, rate limits | pure forwarding; the part towards the agent is in AgentSession |
| login | one query after the other for one player, no state in between |
| map | much of it is unfinished (timers commented out, armies that never march); what it promises is not settled in the code |
| rank | read, yield, write without a promise about lost updates; the skip list it could rank with is modelled |
| discovery | needs a clock for heartbeats against timeouts; only the dropped message is modelled |
| skills, facilities, cities, attributes | checks of static data and assignments, one request at a time |
| data_cache | no service starts it |
| base: command dispatcher, the text of loadDb/saveDb | pass their arguments on; saves are taken as one statement per row, which may fail |
| mysqlpool, redispool | their effect (no order between coroutines, failures) is in UnionManager |
| the armies: index 0 of their lists, new generals | section 3; lists with gaps and random draws |
| role.create | a chain of inserts |
| liveness of the union and the chat | the code promises none |
| kcp: RTO estimate, wrap of numbers, stream mode | the estimate is any value within its bounds; numbers wrap after 2^32 segments; no caller turns stream mode on |
| aoi: growth of the object sets, release of a space | memory only |
| aoi: a callback that throws within aoi_message (lua-aoi.c:92-101) | aoi_message is one step here; after a throw the rest of the pairs are neither told nor kept, though their objects are no longer flagged as moved |
| AoiMap: the id 0xffffffff; Crab: the rune 0 in crab.c | the mark of a free slot; the end of a text |
| Skiplist: a range that begins past the end (zrank.lua:88-117), `add` with a score that is no number | the queries asked begin at a place there is; a NaN has no order |
| DES and its paddings, UTF-8 conversion | conversions of bytes, taken by their result |
| webclient: headers, progress, debug, url encoding | settings passed to libcurl |
| rest of lauxlib.c and lbaselib.c | Lua's own argument checks, tracebacks and base library, without state |
| ltls, clientsocket, mylog, utf8, lutil, time | bindings of OpenSSL and of input and output, conversions of values |
| http, logs, keys, vendored code, static data | no state whose order matters |

## 9. What could come next

1. `Discovery`: heartbeats, the sorted set, notifications in any order, an exit;
   liveness: a live node is listed in the end. Two nodes, a bounded clock.
2. `Map`: a function from positions to owners as the abstract specification, the
   caches by position, role and id as its refinement, once the marches exist.
3. `Skills`: the slots of a general and `belong_generals` of a skill as a relation
   kept on two sides, with the save that fails.
