---------------------------- MODULE ChatManager ----------------------------
(***************************************************************************)
(* The chat service server/game/chat_manager.lua and the agents that use   *)
(* it, server/game/lualib/mods/m_chat.lua.                                 *)
(*                                                                         *)
(* No handler of the service yields, so each is one action.  An agent that *)
(* is entered sends a join per channel; one that is left calls leave once  *)
(* per channel, with the name of the channel where the id is expected.     *)
(* Messages of one agent arrive in the order in which it sent them.        *)
(*                                                                         *)
(* A message is its number among those its channel accepted.               *)
(***************************************************************************)
EXTENDS Integers, Sequences

CONSTANTS
    Rid,      \* roles
    Channel,  \* the values of Chat_Type, the ids of the channels
    Name,     \* the keys of Chat_Type, their names
    Agent, NoAgent,
    Limits,   \* bound: what set_config may set
    DEFAULT_HISTORY_COUNT, \* MAX_HISTORY_COUNT at the start
    MaxSent   \* bound: messages per channel

ASSUME ChatAssumption ==
    /\ NoAgent \notin Agent
    /\ Name \cap Channel = {}
    /\ Limits \subseteq Nat /\ DEFAULT_HISTORY_COUNT \in Limits
    /\ MaxSent \in Nat

VARIABLES
    channels,          \* the channels that exist
    players,           \* channel.players: the agent of a role in a channel
    players_channels,  \* the list of a role's channels
    history,           \* channel.history
    sent,              \* messages each channel accepted
    MAX_HISTORY_COUNT,
    session,           \* a role is off, on or leaving
    agent,             \* its agent
    joining,           \* joins its agent sent that have not arrived
    leaving            \* names its agent still has to call leave with

chatVars == <<channels, players, players_channels, history, sent, MAX_HISTORY_COUNT>>
agentVars == <<session, agent, joining, leaving>>
vars == <<chatVars, agentVars>>

Init ==
    /\ channels = {}
    /\ players = [c \in Channel |-> [r \in Rid |-> NoAgent]]
    /\ players_channels = [r \in Rid |-> <<>>]
    /\ history = [c \in Channel |-> <<>>]
    /\ sent = [c \in Channel |-> 0]
    /\ MAX_HISTORY_COUNT = DEFAULT_HISTORY_COUNT
    /\ session = [r \in Rid |-> "off"]
    /\ agent = [r \in Rid |-> NoAgent]
    /\ joining = [r \in Rid |-> {}]
    /\ leaving = [r \in Rid |-> {}]

Listed(r, c) == \E i \in 1..Len(players_channels[r]) : players_channels[r][i] = c

\* The list of a role's channels after the search for one in it.
Without(list, c) ==
    IF \E i \in 1..Len(list) : list[i] = c
    THEN LET i == CHOOSE j \in 1..Len(list) : list[j] = c
         IN  SubSeq(list, 1, i - 1) \o SubSeq(list, i + 1, Len(list))
    ELSE list

-----------------------------------------------------------------------------
(* The commands of the service. *)

\* Mutant of join_channel: the channel is listed without a look at the list.
joinTwice(r, c, a) ==
    /\ channels' = channels \cup {c}
    /\ players' = [players EXCEPT ![c][r] = IF @ = NoAgent THEN a ELSE @]
    /\ players_channels' = [players_channels EXCEPT ![r] = Append(@, c)]
    /\ UNCHANGED <<history, sent, MAX_HISTORY_COUNT>>

\* A role that is in the channel keeps the address it joined with.
join_channel(r, c, a) ==
    /\ channels' = channels \cup {c}
    /\ players' = [players EXCEPT ![c][r] = IF @ = NoAgent THEN a ELSE @]
    /\ players_channels' = [players_channels EXCEPT ![r] = IF Listed(r, c) THEN @ ELSE Append(@, c)]
    /\ UNCHANGED <<history, sent, MAX_HISTORY_COUNT>>

\* leave_channel with an argument, which may be no channel at all.
leave_channel(r, id) ==
    /\ players' = IF id \in channels THEN [players EXCEPT ![id][r] = NoAgent] ELSE players
    /\ players_channels' = [players_channels EXCEPT ![r] = Without(@, id)]
    /\ UNCHANGED <<channels, history, sent, MAX_HISTORY_COUNT>>

\* leave_channel without one.
leave_all(r) ==
    /\ players' = [c \in Channel |-> IF c \in channels /\ Listed(r, c)
                                     THEN [players[c] EXCEPT ![r] = NoAgent] ELSE players[c]]
    /\ players_channels' = [players_channels EXCEPT ![r] = <<>>]
    /\ UNCHANGED <<channels, history, sent, MAX_HISTORY_COUNT>>

update_agent_addr(r, a) ==
    /\ players' = [c \in Channel |->
                     IF c \in channels /\ Listed(r, c) /\ players[c][r] # NoAgent
                     THEN [players[c] EXCEPT ![r] = a] ELSE players[c]]
    /\ UNCHANGED <<channels, players_channels, history, sent, MAX_HISTORY_COUNT>>

\* Mutant of Added: the limit drops the message that just came.
AddedNot(list, m) == IF Len(list) < MAX_HISTORY_COUNT THEN Append(list, m) ELSE list

\* add_history: at most one message goes for the one that comes.
Added(list, m) ==
    LET longer == Append(list, m) IN
    IF Len(longer) > MAX_HISTORY_COUNT THEN SubSeq(longer, 2, Len(longer)) ELSE longer

\* A message of a role that is not in the channel is refused.
send_message(r, c) ==
    /\ c \in channels /\ players[c][r] # NoAgent /\ sent[c] < MaxSent
    /\ sent' = [sent EXCEPT ![c] = @ + 1]
    /\ history' = [history EXCEPT ![c] = Added(@, sent[c] + 1)]
    /\ UNCHANGED <<channels, players, players_channels, MAX_HISTORY_COUNT>>

set_config(n) ==
    /\ MAX_HISTORY_COUNT' = n
    /\ UNCHANGED <<channels, players, players_channels, history, sent>>

\* Whether or not force is given, only an empty channel without history goes.
cleanup_channels ==
    /\ channels' = {c \in channels : history[c] # <<>> \/ \E r \in Rid : players[c][r] # NoAgent}
    /\ UNCHANGED <<players, players_channels, history, sent, MAX_HISTORY_COUNT>>

-----------------------------------------------------------------------------
(* The agents. *)

enter(r, a) ==
    /\ session[r] = "off"
    /\ session' = [session EXCEPT ![r] = "on"]
    /\ agent' = [agent EXCEPT ![r] = a]
    /\ joining' = [joining EXCEPT ![r] = Channel]
    /\ UNCHANGED <<chatVars, leaving>>

Joined(r, c) ==
    /\ c \in joining[r]
    /\ join_channel(r, c, agent[r])
    /\ joining' = [joining EXCEPT ![r] = @ \ {c}]
    /\ UNCHANGED <<session, agent, leaving>>

\* A chat request; the call arrives after the joins.
chat_chat(r, c) ==
    /\ session[r] = "on" /\ joining[r] = {}
    /\ send_message(r, c)
    /\ UNCHANGED agentVars

leave(r) ==
    /\ session[r] = "on"
    /\ session' = [session EXCEPT ![r] = "leaving"]
    /\ leaving' = [leaving EXCEPT ![r] = Name]
    /\ UNCHANGED <<chatVars, agent, joining>>

LeaveCalled(r, n) ==
    /\ session[r] = "leaving" /\ n \in leaving[r] /\ joining[r] = {}
    /\ leave_channel(r, n)
    /\ leaving' = [leaving EXCEPT ![r] = @ \ {n}]
    /\ UNCHANGED <<session, agent, joining>>

Left(r) ==
    /\ session[r] = "leaving" /\ leaving[r] = {} /\ joining[r] = {}
    /\ session' = [session EXCEPT ![r] = "off"]
    /\ UNCHANGED <<chatVars, agent, joining, leaving>>

\* The commands that nothing in the repository calls: any service may.
Other ==
    /\ \/ \E r \in Rid, c \in Channel : leave_channel(r, c)
       \/ \E r \in Rid, a \in Agent : update_agent_addr(r, a)
       \/ \E r \in Rid : leave_all(r)
       \/ \E n \in Limits : set_config(n)
       \/ cleanup_channels
    /\ UNCHANGED agentVars

AgentsNext ==
    \/ \E r \in Rid, a \in Agent : enter(r, a)
    \/ \E r \in Rid, c \in Channel : Joined(r, c) \/ chat_chat(r, c)
    \/ \E r \in Rid, n \in Name : LeaveCalled(r, n)
    \/ \E r \in Rid : leave(r) \/ Left(r)

Next == AgentsNext \/ Other

Spec == Init /\ [][Next]_vars

\* The agents alone.
AgentsSpec == Init /\ [][AgentsNext]_vars

-----------------------------------------------------------------------------
(* Properties. *)

TypeOK ==
    /\ channels \in SUBSET Channel
    /\ players \in [Channel -> [Rid -> Agent \cup {NoAgent}]]
    /\ players_channels \in [Rid -> Seq(Channel)]
    /\ history \in [Channel -> Seq(Nat)]
    /\ sent \in [Channel -> Nat]
    /\ MAX_HISTORY_COUNT \in Limits
    /\ session \in [Rid -> {"off", "on", "leaving"}]
    /\ agent \in [Rid -> Agent \cup {NoAgent}]
    /\ joining \in [Rid -> SUBSET Channel]
    /\ leaving \in [Rid -> SUBSET Name]

\* The two tables agree: a role is a player of exactly the channels in its list,
\* none is listed twice, and no player is left in a channel that was cleaned up.
\* leave_all, update_agent_addr and leave_channel each trust one table about
\* the other.
InSync ==
    /\ \A r \in Rid, c \in Channel : players[c][r] # NoAgent <=> Listed(r, c)
    /\ \A r \in Rid, c \in Channel : players[c][r] # NoAgent => c \in channels
    /\ \A r \in Rid : \A i, j \in 1..Len(players_channels[r]) :
          players_channels[r][i] = players_channels[r][j] => i = j

\* The history of a channel is its last messages, in order and without a gap,
\* also when the limit changes in between and the channel is cleaned up; it
\* never grows beyond the largest limit.
HistoryIsLatest == \A c \in Channel :
    /\ Len(history[c]) <= sent[c]
    /\ \A i \in 1..Len(history[c]) : history[c][i] = sent[c] - Len(history[c]) + i
    /\ \E n \in Limits : Len(history[c]) <= n

-----------------------------------------------------------------------------
(* The inductive invariant behind the theorems of ChatProofs. *)

IInv ==
    /\ TypeOK
    /\ InSync
    /\ HistoryIsLatest
    /\ \A r \in Rid : joining[r] # {} => agent[r] # NoAgent
=============================================================================
