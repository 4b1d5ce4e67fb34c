------------------------------ MODULE Dashboard ------------------------------
(***************************************************************************)
(* WebSocketManager (app/core/websocket_manager.py) in the process that    *)
(* serves the dashboard: connections come and go while messages are sent   *)
(* to them, by the subscriber of the Redis channels, one message after the *)
(* other, and by calls of broadcast_heatmap_available, which send to the   *)
(* local connections themselves after publishing.                          *)
(*                                                                         *)
(* The only awaits of a round are its sends, so each action runs from the  *)
(* end of one send to the beginning of the next.  A round walks the live   *)
(* list of a user: when an earlier connection is removed the rest moves up *)
(* and one is passed over.  A list that becomes empty is deleted and the   *)
(* next connection gets a new one, which the round does not see.           *)
(***************************************************************************)
EXTENDS Integers, Sequences, FiniteSets, SequencesExt, Selection

CONSTANTS
    Users,
    Sockets,      \* WebSocket connections
    UserOf,       \* the user of each
    Messages,     \* what is broadcast
    Heatmaps      \* the messages that broadcast_heatmap_available sends

ASSUME DashboardAssumption ==
    /\ UserOf \in [Sockets -> Users]
    /\ Heatmaps \subseteq Messages
    /\ "subscriber" \notin Messages
    /\ "none" \notin Sockets

VARIABLES
    conns,      \* _connections: the list of each user of the dictionary
    socket,     \* state of each connection
    subscribed, \* state of the subscriber
    inbox,      \* messages that Redis has passed on and the subscriber has not read
    round,      \* the round of sends of each sender
    published,  \* messages published so far
    got,        \* how often each connection was sent each message (history)
    refused,    \* connections to which a send has failed (history)
    passed      \* connections that a round has passed over, and whether the
                \* list had been disturbed meanwhile (history)

dashVars == <<conns, socket, subscribed, inbox, round, published, got, refused, passed>>

(* The subscriber, and the call that broadcasts each heatmap.              *)
Senders == {"subscriber"} \cup Heatmaps

NoRound == [pc |-> "idle", message |-> "none", todo |-> {}, user |-> "none", target |-> "none", index |-> 0,
            detached |-> FALSE, disturbed |-> FALSE, dead |-> {}, owed |-> {}]

DashInit ==
    /\ conns = <<>>
    /\ socket = [s \in Sockets |-> "new"]
    /\ subscribed = "no"
    /\ inbox = <<>>
    /\ round = [b \in Senders |-> NoRound]
    /\ published = {}
    /\ got = [s \in Sockets |-> [m \in Messages |-> 0]]
    /\ refused = {}
    /\ passed = {}

-----------------------------------------------------------------------------
\* The dictionary of connections.

ListOf(dict, u) == IF u \in DOMAIN dict THEN dict[u] ELSE <<>>
WithList(dict, u, list) == [v \in DOMAIN dict \cup {u} |-> IF v = u THEN list ELSE dict[v]]
Registered == UNION {Range(conns[u]) : u \in DOMAIN conns}

(* disconnect, for each of these, which does not mind a connection that    *)
(* has gone already.                                                       *)
Disconnected(dict, gone) ==
    LET rest == [u \in DOMAIN dict |-> Kept(dict[u], Sockets \ gone)]
    IN  [u \in {v \in DOMAIN dict : rest[v] # <<>>} |-> rest[u]]

(* What the removal of these connections means for the rounds in progress. *)
Disturbed(gone) ==
    [b \in Senders |->
        LET list == Range(ListOf(conns, round[b].user)) IN
        IF list \cap gone = {} THEN round[b]
        ELSE [round[b] EXCEPT !.disturbed = TRUE, !.detached = @ \/ list \subseteq gone, !.owed = @ \ gone]]

Connect(s) ==
    /\ socket[s] = "new"
    /\ socket' = [socket EXCEPT ![s] = "open"]
    /\ conns' = WithList(conns, UserOf[s], Append(ListOf(conns, UserOf[s]), s))
    /\ UNCHANGED <<subscribed, inbox, round, published, got, refused, passed>>

(* The client vanishes: sends to it may fail from now on.                  *)
Break(s) ==
    /\ socket[s] = "open"
    /\ socket' = [socket EXCEPT ![s] = "broken"]
    /\ UNCHANGED <<conns, subscribed, inbox, round, published, got, refused, passed>>

(* handle_websocket ends, gracefully or by an error.                       *)
Disconnect(s) ==
    /\ socket[s] \in {"open", "broken"}
    /\ socket' = [socket EXCEPT ![s] = "closed"]
    /\ conns' = Disconnected(conns, {s})
    /\ round' = Disturbed({s})
    /\ UNCHANGED <<subscribed, inbox, published, got, refused, passed>>

-----------------------------------------------------------------------------
\* _send_to_all and _send_to_user.

AtUser(r, dict, u) ==
    [r EXCEPT !.pc = "sending", !.user = u, !.todo = @ \ {u}, !.target = dict[u][1], !.index = 1,
              !.detached = FALSE, !.disturbed = FALSE, !.dead = {}, !.owed = Range(dict[u])]

(* The round goes on with a user who has connections, past some of those   *)
(* who have none any more, or ends.                                        *)
GoOn(rounds, b, r, dict) ==
    LET left == r.todo \cap DOMAIN dict IN
    IF left = {} THEN round' = [rounds EXCEPT ![b] = NoRound]
    ELSE \E u \in left, without \in SUBSET (r.todo \ left) :
            round' = [rounds EXCEPT ![b] = AtUser([r EXCEPT !.todo = @ \ without], dict, u)]

BeginRound(b, message) ==
    GoOn(round, b, [NoRound EXCEPT !.message = message, !.todo = DOMAIN conns], conns)

(* Mutant: after a failed send the rest of the list is not tried.          *)
NextTargetIfAlive(r) == ~r.detached /\ r.dead = {} /\ r.index < Len(ListOf(conns, r.user))

NextTarget(r) == ~r.detached /\ r.index < Len(ListOf(conns, r.user))

(* One more send of m in the history of a connection.                      *)
Counted(row, m) == [row EXCEPT ![m] = @ + 1]

(* A send ends; the next begins, at the end of the list with another user, *)
(* once the connections to which a send failed are disconnected.           *)
EndSend(b, failed) ==
    LET r == [round[b] EXCEPT !.dead = IF failed THEN @ \cup {round[b].target} ELSE @,
                              !.owed = @ \ {round[b].target}]
    IN  /\ got' = IF failed THEN got ELSE [got EXCEPT ![r.target] = Counted(@, r.message)]
        /\ refused' = IF failed THEN refused \cup {r.target} ELSE refused
        /\ IF NextTarget(r)
           THEN /\ round' = [round EXCEPT ![b] = [r EXCEPT !.index = @ + 1,
                                                           !.target = conns[r.user][r.index + 1]]]
                /\ UNCHANGED <<conns, passed>>
           ELSE /\ conns' = Disconnected(conns, r.dead)
                /\ passed' = passed \cup {[socket |-> s, disturbed |-> r.disturbed] : s \in r.owed}
                /\ GoOn(Disturbed(r.dead), b, r, Disconnected(conns, r.dead))

SendSucceeds(b) ==
    /\ round[b].pc = "sending"
    /\ socket[round[b].target] \in {"open", "broken"}
    /\ EndSend(b, FALSE)
    /\ UNCHANGED <<socket, subscribed, inbox, published>>

SendFails(b) ==
    /\ round[b].pc = "sending"
    /\ socket[round[b].target] \in {"broken", "closed"}
    /\ EndSend(b, TRUE)
    /\ UNCHANGED <<socket, subscribed, inbox, published>>

-----------------------------------------------------------------------------
\* Publishing and the subscriber.

(* The round of a heatmap begins when its publish has returned, which here *)
(* is at once.                                                             *)
Publish(m) ==
    /\ m \notin published
    /\ published' = published \cup {m}
    /\ inbox' = IF subscribed = "yes" THEN Append(inbox, m) ELSE inbox
    /\ IF m \in Heatmaps THEN BeginRound(m, m) ELSE UNCHANGED round
    /\ UNCHANGED <<conns, socket, subscribed, got, refused, passed>>

(* Redis is down: the call raises and sends nothing.                       *)
PublishRaises(m) ==
    /\ m \notin published
    /\ published' = published \cup {m}
    /\ UNCHANGED <<conns, socket, subscribed, inbox, round, got, refused, passed>>

Subscribe ==
    /\ subscribed = "no"
    /\ subscribed' = "yes"
    /\ UNCHANGED <<conns, socket, inbox, round, published, got, refused, passed>>

(* The subscriber loses Redis while it listens, and what was sent to it.   *)
ListenRaises ==
    /\ subscribed = "yes"
    /\ round["subscriber"].pc = "idle"
    /\ subscribed' = "no"
    /\ inbox' = <<>>
    /\ UNCHANGED <<conns, socket, round, published, got, refused, passed>>

Forward ==
    /\ subscribed = "yes"
    /\ round["subscriber"].pc = "idle"
    /\ inbox # <<>>
    /\ inbox' = Tail(inbox)
    /\ BeginRound("subscriber", Head(inbox))
    /\ UNCHANGED <<conns, socket, subscribed, published, got, refused, passed>>

(* stop_subscriber cancels the task, in the middle of a round as well.     *)
StopSubscriber ==
    /\ subscribed # "stopped"
    /\ subscribed' = "stopped"
    /\ inbox' = <<>>
    /\ round' = [round EXCEPT !["subscriber"] = NoRound]
    /\ UNCHANGED <<conns, socket, published, got, refused, passed>>

DashNext ==
    \/ \E s \in Sockets : Connect(s) \/ Break(s) \/ Disconnect(s)
    \/ \E b \in Senders : SendSucceeds(b) \/ SendFails(b)
    \/ \E m \in Messages : Publish(m) \/ PublishRaises(m)
    \/ Subscribe \/ ListenRaises \/ Forward \/ StopSubscriber

DashSpec == DashInit /\ [][DashNext]_dashVars

-----------------------------------------------------------------------------
\* Properties.

(* Every variable has its type; no user is kept without a connection, and  *)
(* no connection is registered twice.                                      *)
DashTypeOK ==
    /\ \A u \in DOMAIN conns : conns[u] # <<>> /\ IsInjective(conns[u])
    /\ \A s \in Sockets : socket[s] \in {"new", "open", "broken", "closed"}
    /\ subscribed \in {"no", "yes", "stopped"}
    /\ \A b \in Senders : round[b].pc = "sending" <=> round[b].target \in Sockets

(* A round passes over a connection that is registered all the while only  *)
(* when another one of the same user was removed during its walk: a failed *)
(* send, or a change of another user, costs nobody a message.              *)
PassedOverByARemoval == \A p \in passed : p.disturbed

(* A connection is sent a message once, and a heatmap twice at most: from  *)
(* the channel and by the call itself.                                     *)
SentOnce ==
    \A s \in Sockets, m \in Messages : got[s][m] <= IF m \in Heatmaps THEN 2 ELSE 1

(* A connection to which a send has failed is registered only until the    *)
(* round that met the failure has come to the end of its user's list,      *)
(* unless the round was cancelled.                                         *)
RefusedIsRemoved ==
    subscribed # "stopped" =>
        \A s \in refused \cap Registered : \E b \in Senders : s \in round[b].dead

(* The rounds reach the connections they must, once, and drop the broken   *)
(* ones, while the list they walk changes under them.                      *)
DashboardSafety == DashTypeOK /\ PassedOverByARemoval /\ SentOnce /\ RefusedIsRemoved
=============================================================================
