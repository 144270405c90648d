--------------------------- MODULE AgentSession ---------------------------
(***************************************************************************)
(* One role, from the gate connections of its player to its agent service: *)
(* server/game/agent.lua, the session tables of agent_manager.lua, the     *)
(* roles table of lualib/agent_helper.lua, the game_link of the gate's     *)
(* ws_client.lua, and the count that refd keeps for the agent.             *)
(*                                                                         *)
(* The agent runs enter, requests, disconnects and AFK callbacks one at a  *)
(* time through a skynet.queue; every call inside an item yields, so the   *)
(* manager, the gate, refd and the timers move between the steps of one    *)
(* item.  refd is the service of module Refd, reduced to what Refd proves  *)
(* of it: its count is exact, and it stops an agent at some moment when    *)
(* the count is zero.                                                      *)
(***************************************************************************)
EXTENDS Integers, Sequences, FiniteSets

CONSTANTS
    Conn,       \* client connections, each used once (a new fd per connection)
    Client,     \* coroutines of other services that use the agent by reference
    NoConn,     \* the nil fd
    MayThrow,   \* whether the modules' enter and leave handlers may throw
    HookEnds,   \* how the call of on_close_service to "agent_manager" may end
    MaxQueue    \* bound: pending queue items at which clients send no more requests

ASSUME SessionAssumption ==
    /\ IsFiniteSet(Conn) /\ IsFiniteSet(Client)
    /\ NoConn \notin Conn
    /\ MayThrow \in BOOLEAN
    /\ HookEnds \subseteq {"blocks", "fails"}
    /\ MaxQueue \in Nat

VARIABLES
    \* the gate
    conn,        \* [Conn -> {"new", "open", "closed"}]
    linked,      \* connections whose game_link is set
    links,       \* update_game_link messages under way to the gate
    discs,       \* disconnect messages under way to the manager
    \* agent_manager (its online_uid, online_rid and online_cnt are never read)
    login,       \* [Conn -> where its role.enterServer is]
    roles,       \* roles[rid] is set
    ROLES,       \* ROLES[rid] is set
    \* the agent
    agent,       \* the life of the service; "told" once stop_service is under way
    State, fd, gate_link,
    afk_timer,   \* afk_timer is set; its timer is then running
    q,           \* items of the skynet.queue, the head being the one that runs
    step,        \* how far the head has come, when it is an enter
    \* refd
    ref,         \* the count of the agent; -1 once told to stop
    client       \* [Client -> {"free", "held", "waiting"}]

gateVars == <<conn, linked, links, discs>>
managerVars == <<roles, ROLES>>
sessionVars == <<State, fd, gate_link, afk_timer>>
vars == <<gateVars, login, managerVars, agent, sessionVars, q, step, ref, client>>

Item == [op : {"enter", "request", "disconnect", "afk"}, conn : Conn \cup {NoConn}]
LoginState == {"idle", "select", "loading", "waiting", "woken", "entering", "answered"}
AgentState == {"none", "loading", "up", "told", "hung", "stopping", "gone"}
Alive == {"up", "told", "hung", "stopping"}

\* A message to the agent: its handler puts an item on the queue; a message to
\* a service that exited is lost.
Push(op, c) == q' = IF agent \in Alive THEN Append(q, [op |-> op, conn |-> c]) ELSE q

\* The head of the queue is an op, and the agent is there to run it.
Runs(op) == agent \in Alive /\ q # <<>> /\ Head(q).op = op

\* refd's CMD.ref and CMD.unref for the agent; told to stop, it counts no more.
RefPlus == IF ref = -1 THEN -1 ELSE ref + 1
RefMinus == IF ref = -1 THEN -1 ELSE ref - 1

-----------------------------------------------------------------------------
Init ==
    /\ conn = [c \in Conn |-> "new"]
    /\ linked = {} /\ links = {} /\ discs = {}
    /\ login = [c \in Conn |-> "idle"]
    /\ roles = "nil" /\ ROLES = "nil"
    /\ agent = "none"
    /\ State = "unload" /\ fd = NoConn /\ gate_link = NoConn /\ afk_timer = "nil"
    /\ q = <<>> /\ step = "start"
    /\ ref = 0
    /\ client = [k \in Client |-> "free"]

-----------------------------------------------------------------------------
(* The gate and its clients. *)

Connect(c) ==
    /\ conn[c] = "new"
    /\ conn' = [conn EXCEPT ![c] = "open"]
    /\ UNCHANGED <<linked, links, discs, login, managerVars, agent, sessionVars,
                   q, step, ref, client>>

\* client:on_disconnect: the manager hears of it only when game_link is set.
on_disconnect(c) ==
    /\ conn[c] = "open"
    /\ conn' = [conn EXCEPT ![c] = "closed"]
    /\ discs' = IF c \in linked THEN discs \cup {c} ELSE discs
    /\ UNCHANGED <<linked, links, login, managerVars, agent, sessionVars,
                   q, step, ref, client>>

\* cluster_send drops the message when discovery says that the node is offline.
LoseDisconnect(c) ==
    /\ c \in discs
    /\ discs' = discs \ {c}
    /\ UNCHANGED <<conn, linked, links, login, managerVars, agent, sessionVars,
                   q, step, ref, client>>

\* client:update_game_link; ws_agent ignores it for a client that is gone.
update_game_link(c) ==
    /\ c \in links
    /\ links' = links \ {c}
    /\ linked' = IF conn[c] = "open" THEN linked \cup {c} ELSE linked
    /\ UNCHANGED <<conn, discs, login, managerVars, agent, sessionVars,
                   q, step, ref, client>>

\* client:dispatch_request of a linked client: straight to the agent.
client_request(c) ==
    /\ conn[c] = "open" /\ c \in linked
    /\ Len(q) < MaxQueue
    /\ Push("request", c)
    /\ UNCHANGED <<gateVars, login, managerVars, agent, sessionVars,
                   step, ref, client>>

-----------------------------------------------------------------------------
(* agent_manager: role.enterServer runs in a coroutine of its own and yields *)
(* at the database query, in agent_load and in the call to the agent.        *)

SetLogin(c, s) == login' = [login EXCEPT ![c] = s]

\* dispatch_request of a client without game_link, and the session check.
enterServer(c) ==
    /\ conn[c] = "open" /\ c \notin linked
    /\ login[c] = "idle"
    /\ SetLogin(c, "select")
    /\ UNCHANGED <<gateVars, managerVars, agent, sessionVars, q, step, ref, client>>

\* The query fails, or finds no role.
SelectFails(c) ==
    /\ login[c] = "select"
    /\ SetLogin(c, "idle")
    /\ UNCHANGED <<gateVars, managerVars, agent, sessionVars, q, step, ref, client>>

\* ROLES[rid] is set, then the agent is called, whatever became of it since.
CallEnter(c) ==
    /\ ROLES' = "agent"
    /\ Push("enter", c)
    /\ SetLogin(c, IF agent \in Alive THEN "entering" ELSE "answered")
    /\ UNCHANGED <<gateVars, sessionVars, step, client>>

\* The query answers and agent_load finds an agent, ...
LoadFound(c) ==
    /\ login[c] = "select" /\ roles = "agent"
    /\ CallEnter(c)
    /\ UNCHANGED <<roles, agent, ref>>

\* ... another coroutine that loads it, ...
LoadWait(c) ==
    /\ login[c] = "select" /\ roles = "nil"
    /\ \E d \in Conn : login[d] = "loading"
    /\ SetLogin(c, "waiting")
    /\ UNCHANGED <<gateVars, managerVars, agent, sessionVars, q, step, ref, client>>

\* ... or nothing.
LoadStart(c) ==
    /\ login[c] = "select" /\ roles = "nil"
    /\ \A d \in Conn : login[d] # "loading"
    /\ SetLogin(c, "loading")
    /\ agent' = "loading"
    /\ UNCHANGED <<gateVars, managerVars, sessionVars, q, step, ref, client>>

\* Mutant of Wake: the waiters are forgotten.
WakeNobody(s) == s

\* The waiters are woken after the load, and run after roles[rid] is set.
Wake(s) ==
    [d \in Conn |-> IF login[d] = "waiting" THEN "woken" ELSE s[d]]

LoadDone(c) ==
    /\ login[c] = "loading"
    /\ agent' = "up" /\ State' = "loaded"
    /\ roles' = "agent" /\ ROLES' = "agent"
    /\ q' = <<[op |-> "enter", conn |-> c]>>
    /\ login' = Wake([login EXCEPT ![c] = "entering"])
    /\ UNCHANGED <<gateVars, fd, gate_link, afk_timer,
                   step, ref, client>>

\* The load throws; the agent that was tried is stopped and forgotten.
LoadFailed(c) ==
    /\ login[c] = "loading"
    /\ agent' = "none"
    /\ login' = Wake([login EXCEPT ![c] = "idle"])
    /\ UNCHANGED <<gateVars, managerVars, sessionVars, q, step, ref, client>>

\* A woken waiter looks at roles[rid] again, and gives up when it is nil.
Woken(c) ==
    /\ login[c] = "woken"
    /\ IF roles = "agent"
       THEN CallEnter(c) /\ UNCHANGED <<roles, agent, ref>>
       ELSE /\ SetLogin(c, "idle")
            /\ UNCHANGED <<gateVars, managerVars, agent, sessionVars,
                           q, step, ref, client>>

\* The call to the agent returned, or threw and left ROLES as it is.
EnterReturn(c) ==
    /\ login[c] = "answered"
    /\ SetLogin(c, "idle")
    /\ UNCHANGED <<gateVars, managerVars, agent, sessionVars, q, step, ref, client>>

\* CMD.disconnect of the manager, whichever connection it is about.
Disconnect(c) ==
    /\ c \in discs
    /\ discs' = discs \ {c}
    /\ IF ROLES = "agent" THEN Push("disconnect", NoConn) ELSE UNCHANGED q
    /\ UNCHANGED <<conn, linked, links, login, managerVars, agent, sessionVars,
                   step, ref, client>>

-----------------------------------------------------------------------------
(* The agent: the items of its queue. *)

Pop == q' = Tail(q)

\* lf.enter, first the reference; its answer is not looked at.
EnterRef ==
    /\ Runs("enter") /\ step = "start"
    /\ ref' = RefPlus
    /\ step' = "referenced"
    /\ UNCHANGED <<gateVars, login, managerVars, agent, sessionVars, q, client>>

\* Mutant of EnterSet: the reference goes whether there was a session or not.
EnterSetUnrefs ==
    /\ Runs("enter") /\ step = "referenced"
    /\ ref' = RefMinus
    /\ fd' = Head(q).conn
    /\ gate_link' = Head(q).conn
    /\ step' = "dispatched"
    /\ UNCHANGED <<gateVars, login, managerVars, agent, State, afk_timer, q, client>>

\* The old session's reference goes (kick only writes a log line), the new
\* session is installed, and the modules' enter handlers are called.
EnterSet ==
    /\ Runs("enter") /\ step = "referenced"
    /\ ref' = IF fd # NoConn THEN RefMinus ELSE ref
    /\ fd' = Head(q).conn
    /\ gate_link' = Head(q).conn
    /\ step' = "dispatched"
    /\ UNCHANGED <<gateVars, login, managerVars, agent, State, afk_timer, q, client>>

\* The handlers return: the state, the game_link message and the answer.
EnterOk ==
    /\ Runs("enter") /\ step = "dispatched"
    /\ State' = "online"
    /\ links' = links \cup {Head(q).conn}
    /\ SetLogin(Head(q).conn, "answered")
    /\ Pop /\ step' = "start"
    /\ UNCHANGED <<conn, linked, discs, managerVars, agent, fd, gate_link, afk_timer,
                   ref, client>>

\* A handler throws; what was set stays.
EnterThrows ==
    /\ MayThrow /\ Runs("enter") /\ step = "dispatched"
    /\ SetLogin(Head(q).conn, "answered")
    /\ Pop /\ step' = "start"
    /\ UNCHANGED <<gateVars, managerVars, agent, sessionVars, ref, client>>

\* lf.do_request: the sender becomes the link that answers and pushes go to.
do_request ==
    /\ Runs("request")
    /\ gate_link' = Head(q).conn
    /\ Pop
    /\ UNCHANGED <<gateVars, login, managerVars, agent, State, fd, afk_timer,
                   step, ref, client>>

\* Mutant of on_afk: a reference goes though no old timer was deleted.
on_afkUnrefs ==
    /\ Runs("disconnect")
    /\ Pop
    /\ fd' = NoConn
    /\ IF fd # NoConn /\ State = "online"
       THEN afk_timer' = "set" /\ ref' = RefMinus
       ELSE UNCHANGED <<afk_timer, ref>>
    /\ UNCHANGED <<gateVars, login, managerVars, agent, State, gate_link, step, client>>

\* Mutant of on_afk: an old timer is deleted and no new one started.
on_afkNoRestart ==
    /\ Runs("disconnect")
    /\ Pop
    /\ fd' = NoConn
    /\ IF fd # NoConn /\ State = "online"
       THEN /\ afk_timer' = IF afk_timer = "set" THEN "nil" ELSE "set"
            /\ ref' = IF afk_timer = "set" THEN RefMinus ELSE ref
       ELSE UNCHANGED <<afk_timer, ref>>
    /\ UNCHANGED <<gateVars, login, managerVars, agent, State, gate_link, step, client>>

\* on_afk: an old timer is deleted with its reference, a new one started.
on_afk ==
    /\ Runs("disconnect")
    /\ Pop
    /\ fd' = NoConn
    /\ IF fd # NoConn /\ State = "online"
       THEN /\ afk_timer' = "set"
            /\ ref' = IF afk_timer = "set" THEN RefMinus ELSE ref
       ELSE UNCHANGED <<afk_timer, ref>>
    /\ UNCHANGED <<gateVars, login, managerVars, agent, State, gate_link, step, client>>

\* The AFK timer fires: its callback goes to the end of the queue.
AfkTimer ==
    /\ agent \in Alive /\ afk_timer = "set"
    /\ afk_timer' = "nil"
    /\ Push("afk", NoConn)
    /\ UNCHANGED <<gateVars, login, managerVars, agent, State, fd, gate_link,
                   step, ref, client>>

\* The callback: the leave handlers, then the reference.
AfkLeave ==
    /\ Runs("afk")
    /\ Pop
    /\ IF State = "online"
       THEN State' = "loaded" /\ ref' = RefMinus
       ELSE UNCHANGED <<State, ref>>
    /\ UNCHANGED <<gateVars, login, managerVars, agent, fd, gate_link, afk_timer,
                   step, client>>

\* A leave handler throws, and the reference stays.
AfkLeaveThrows ==
    /\ MayThrow /\ Runs("afk") /\ State = "online"
    /\ Pop
    /\ State' = "loaded"
    /\ UNCHANGED <<gateVars, login, managerVars, agent, fd, gate_link, afk_timer,
                   step, ref, client>>

-----------------------------------------------------------------------------
(* The reference count, the other users of the agent, and the agent's end. *)

\* query_agent_loaded of agent_helper: a reference to the agent in roles, or a
\* sleep in refd until the agent's release.
query_agent(k) ==
    /\ client[k] = "free" /\ roles = "agent" /\ agent \in Alive
    /\ client' = [client EXCEPT ![k] = IF ref = -1 THEN "waiting" ELSE "held"]
    /\ ref' = RefPlus
    /\ UNCHANGED <<gateVars, login, managerVars, agent, sessionVars, q, step>>

CloseHandle(k) ==
    /\ client[k] = "held"
    /\ client' = [client EXCEPT ![k] = "free"]
    /\ ref' = RefMinus
    /\ UNCHANGED <<gateVars, login, managerVars, agent, sessionVars, q, step>>

\* refd's timer finds the count still zero.
ReleaseTimer ==
    /\ agent = "up" /\ ref = 0
    /\ ref' = -1 /\ agent' = "told"
    /\ UNCHANGED <<gateVars, login, managerVars, sessionVars, q, step, client>>

\* CMD.stop_service: on_close_service calls the name "agent_manager", which
\* nothing registers (the manager is ".agent_manager"), so roles[rid] stays.
stop_service ==
    /\ agent = "told"
    /\ \/ "blocks" \in HookEnds /\ agent' = "hung"
       \/ "fails" \in HookEnds /\ agent' = "stopping"
    /\ UNCHANGED <<gateVars, login, managerVars, sessionVars, q, step, ref, client>>

\* skynet.exit: what was queued is lost, calls that wait for it throw, and the
\* release wakes the coroutines that wait in refd.
Exit ==
    /\ agent = "stopping"
    /\ agent' = "gone"
    /\ q' = <<>> /\ step' = "start" /\ afk_timer' = "nil"
    /\ login' = [c \in Conn |-> IF login[c] = "entering" THEN "answered" ELSE login[c]]
    /\ client' = [k \in Client |-> "free"]
    /\ UNCHANGED <<gateVars, managerVars, State, fd, gate_link, ref>>

-----------------------------------------------------------------------------
Manager(c) ==
    \/ SelectFails(c) \/ LoadFound(c) \/ LoadWait(c) \/ LoadStart(c)
    \/ LoadDone(c) \/ LoadFailed(c) \/ Woken(c) \/ EnterReturn(c)

AgentQueue ==
    \/ EnterRef \/ EnterSet \/ EnterOk \/ EnterThrows
    \/ do_request \/ on_afk \/ AfkLeave \/ AfkLeaveThrows

Next ==
    \/ \E c \in Conn :
          \/ Connect(c) \/ on_disconnect(c) \/ LoseDisconnect(c)
          \/ update_game_link(c) \/ client_request(c)
          \/ enterServer(c) \/ Manager(c) \/ Disconnect(c)
    \/ AgentQueue \/ AfkTimer
    \/ \E k \in Client : query_agent(k) \/ CloseHandle(k)
    \/ ReleaseTimer \/ stop_service \/ Exit

Spec == Init /\ [][Next]_vars

\* skynet resumes every coroutine that can run, delivers every message and
\* fires every timer, and a reference is given back when its block ends.
\* Nothing is assumed of the players.
Fairness ==
    /\ \A c \in Conn :
          /\ WF_vars(Manager(c))
          /\ WF_vars(update_game_link(c))
          /\ WF_vars(Disconnect(c) \/ LoseDisconnect(c))
    /\ WF_vars(AgentQueue) /\ WF_vars(AfkTimer)
    /\ \A k \in Client : WF_vars(CloseHandle(k))
    /\ WF_vars(ReleaseTimer) /\ WF_vars(stop_service) /\ WF_vars(Exit)

FairSpec == Spec /\ Fairness

-----------------------------------------------------------------------------
(* Properties. *)

TypeOK ==
    /\ conn \in [Conn -> {"new", "open", "closed"}]
    /\ linked \in SUBSET Conn /\ links \in SUBSET Conn /\ discs \in SUBSET Conn
    /\ login \in [Conn -> LoginState]
    /\ roles \in {"nil", "agent"} /\ ROLES \in {"nil", "agent"}
    /\ agent \in AgentState
    /\ State \in {"unload", "loaded", "online"}
    /\ fd \in Conn \cup {NoConn} /\ gate_link \in Conn \cup {NoConn}
    /\ afk_timer \in {"nil", "set"}
    /\ q \in Seq(Item)
    /\ step \in {"start", "referenced", "dispatched"}
    /\ ref \in Int /\ ref >= -1
    /\ client \in [Client -> {"free", "held", "waiting"}]

One(b) == IF b THEN 1 ELSE 0
Afks(s) == {i \in 1..Len(s) : s[i].op = "afk"}
Held == {k \in Client : client[k] = "held"}

\* The references the agent's own code and its users still have to give back:
\* one for the session, one for the AFK timer, one for each AFK callback in the
\* queue, one for an enter that has not installed its session, one per user.
Owed ==
    One(fd # NoConn) + One(afk_timer = "set") + Cardinality(Afks(q))
        + One(step = "referenced") + Cardinality(Held)

\* Until the agent is told to stop, refd's count covers every reference owed:
\* no order of logins, disconnects, AFK timers and their callbacks gives one
\* back twice.  (It may exceed what is owed: see AgentReclaimed.)
CountCovers == ref # -1 => Owed <= ref

\* A role that is online without a connection has its AFK timer running or the
\* timer's callback in the queue, so it is never left online for good.
NoAbandonedSession ==
    agent \in Alive /\ State = "online" /\ fd = NoConn => afk_timer = "set" \/ Afks(q) # {}

\* refd tells an agent to stop only when no session is installed or about to
\* be, no AFK grace period runs, and nobody holds a reference.
StopOnlyIdle ==
    [][ref # -1 /\ ref' = -1 =>
          /\ fd = NoConn /\ afk_timer = "nil" /\ Afks(q) = {}
          /\ step # "referenced" /\ Held = {}]_vars

\* Without a connection the agent leaves the online state, or gets a new one.
AfkCompletes ==
    (State = "online" /\ fd = NoConn) ~>
        (State # "online" \/ fd # NoConn \/ agent = "gone")

\* Every role.enterServer ends, also one that waited for another one's load.
LoginEnds == \A c \in Conn : login[c] # "idle" ~> login[c] = "idle"

-----------------------------------------------------------------------------
(* What the code does not do, though it is said of it. *)

Unused ==
    /\ fd = NoConn /\ Held = {}
    /\ \A c \in Conn : login[c] = "idle"

\* "kept for five minutes" (agent.lua): an agent that stays unused is stopped.
\* Not so: a player who reconnects while the AFK timer runs is set to loaded by
\* its callback, so the next disconnect gives no reference back.
AgentReclaimed == (agent = "up" /\ Unused) ~> (agent # "up" \/ ~Unused)

-----------------------------------------------------------------------------
(* The inductive invariant behind the theorems of AgentSessionProofs. *)

\* Only an enter at the head is ever half done, and it has installed its
\* connection by the time the handlers are called.
QueueShape ==
    /\ step # "start" => q # <<>> /\ Head(q).op = "enter"
    /\ step = "dispatched" => fd # NoConn
    /\ \A i \in 1..Len(q) : q[i].op = "enter" => q[i].conn # NoConn
    /\ agent \notin Alive => q = <<>> /\ afk_timer = "nil"

\* There is one load at a time, and nothing is counted before it is done.
LoadShape ==
    /\ \A c, d \in Conn : login[c] = "loading" /\ login[d] = "loading" => c = d
    /\ agent = "loading" <=> \E c \in Conn : login[c] = "loading"
    /\ roles = "agent" <=> agent \notin {"none", "loading"}
    /\ roles = "nil" => ref = 0 /\ fd = NoConn /\ Held = {}

IInv ==
    /\ TypeOK
    /\ QueueShape
    /\ LoadShape
    /\ CountCovers
    /\ NoAbandonedSession
=============================================================================
