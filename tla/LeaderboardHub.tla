----------------------------- MODULE LeaderboardHub -----------------------------
(***************************************************************************)
(* leaderboard-ws: a subscriber passes what Redis publishes to the hub's    *)
(* msgCh; the hub's goroutine owns the set of clients and fans messages out *)
(* to their channels, without waiting for any of them.  A WebSocket handler *)
(* registers its client, puts a snapshot of the leaderboard into its        *)
(* channel, starts its writer and reads until the connection ends.          *)
(*                                                                         *)
(* A browser that reconnects is another client.  What its page shows is     *)
(* `view`: a snapshot replaces it, an update replaces one entry.            *)
(***************************************************************************)
EXTENDS Naturals, Sequences, SequencesExt

CONSTANTS
  Clients,
  RegCap, MsgCap, SendCap,   \* of regCh and unregCh (64), msgCh and send (256)
  MaxTroubles                \* bound: lost publications and failed reads of Redis

VARIABLES
  log, board, pubsub, troubles,   \* as in TelemetryIngester
  msgs, regQ, unregQ,             \* msgCh, regCh, unregCh
  clients,                        \* Hub.clients
  send, closed,                   \* the clients' channels, and which are closed
  handler,    \* "none", "rank", "details", "put", "serving", "leaving", "left"
  snapshot,   \* what the handler has read: the ranked submissions, then their entries
  writer,     \* "none", "up", "gone"
  gone,       \* browsers that have gone away
  view,       \* what a browser shows: submission -> event
  excused     \* history: clients whose view may be out of date for good

hub == <<msgs, regQ, unregQ, clients, send, closed, handler, snapshot, writer, gone, view, excused>>

Empty == << >>

InitHub ==
  /\ msgs = << >> /\ regQ = << >> /\ unregQ = << >> /\ clients = {} /\ closed = {} /\ gone = {}
  /\ send = [c \in Clients |-> << >>] /\ view = [c \in Clients |-> Empty]
  /\ handler = [c \in Clients |-> "none"] /\ writer = [c \in Clients |-> "none"]
  /\ snapshot = [c \in Clients |-> Empty] /\ excused = {}

(* What a client gets: an update carries an event, a snapshot a board.      *)
Update(e) == [type |-> "update", event |-> e, board |-> Empty]
Snapshot(b) == [type |-> "snapshot", event |-> 0, board |-> b]
\* An entry of a snapshot that has a score and nothing else.
Stripped == 0

\* Those a lost publication leaves with an older entry: whoever is connected, and
\* whoever connects before the hub has sent what it has from before.
Misled ==
  IF msgs = << >> THEN {c \in Clients : handler[c] \notin {"none", "left"}} ELSE Clients

-----------------------------------------------------------------------------
(* subscribeRedis and broadcast: a publication may be lost on its way, and  *)
(* is dropped when msgCh is full.                                           *)
Receive ==
  /\ pubsub # << >>
  /\ pubsub' = Tail(pubsub)
  /\ \/ /\ Len(msgs) < MsgCap
        /\ msgs' = Append(msgs, Head(pubsub))
        /\ UNCHANGED <<excused, troubles>>
     \/ /\ Len(msgs) = MsgCap \/ troubles < MaxTroubles
        /\ troubles' = IF Len(msgs) = MsgCap THEN troubles ELSE troubles + 1
        /\ excused' = excused \cup Misled
        /\ UNCHANGED msgs
  /\ UNCHANGED <<log, board, regQ, unregQ, clients, send, closed, handler, snapshot, writer, gone,
                 view>>

-----------------------------------------------------------------------------
(* Hub.run.                                                                 *)
HubRegisters ==
  /\ regQ # << >>
  /\ regQ' = Tail(regQ) /\ clients' = clients \cup {Head(regQ)}
  /\ UNCHANGED <<log, board, pubsub, troubles, msgs, unregQ, send, closed, handler, snapshot,
                 writer, gone, view, excused>>

\* Only a client that is registered has its channel closed.
ClosedAfterAny(c) == closed \cup {c}
ClosedAfter(c) == IF c \in clients THEN closed \cup {c} ELSE closed

HubUnregisters ==
  /\ unregQ # << >>
  /\ unregQ' = Tail(unregQ)
  /\ clients' = clients \ {Head(unregQ)} /\ closed' = ClosedAfter(Head(unregQ))
  /\ UNCHANGED <<log, board, pubsub, troubles, msgs, regQ, send, handler, snapshot, writer, gone,
                 view, excused>>

Room(c) == Len(send[c]) < SendCap

\* A client whose channel is full misses the message.
FanOutWaits == \A c \in clients : Room(c)
FanOutRuns == TRUE

\* A client that is registered gets updates, with or without its snapshot.
ReceivesServing(c) == c \in clients /\ handler[c] = "serving"
Receives(c) == c \in clients

HubFansOut ==
  /\ msgs # << >> /\ FanOutRuns
  /\ msgs' = Tail(msgs)
  /\ send' = [c \in Clients |->
       IF Receives(c) /\ Room(c) THEN Append(send[c], Update(Head(msgs))) ELSE send[c]]
  /\ excused' = excused \cup {c \in clients : ~Room(c)} \cup ToSet(regQ)
  /\ UNCHANGED <<log, board, pubsub, troubles, regQ, unregQ, clients, closed, handler, snapshot,
                 writer, gone, view>>

-----------------------------------------------------------------------------
(* wsHandler.  A connection that cannot be registered is closed.            *)
Connect(c) ==
  /\ handler[c] = "none"
  /\ IF Len(regQ) < RegCap
       THEN regQ' = Append(regQ, c) /\ handler' = [handler EXCEPT ![c] = "rank"]
       ELSE handler' = [handler EXCEPT ![c] = "leaving"] /\ UNCHANGED regQ
  /\ UNCHANGED <<log, board, pubsub, troubles, msgs, unregQ, clients, send, closed, snapshot,
                 writer, gone, view, excused>>

(* buildSnapshot reads the ranking, then the details of those ranked.  If   *)
(* the first read fails there is no snapshot; if the second does, or parts  *)
(* of it do, the rows it has nothing for get the score alone.  What it has  *)
(* can always be decoded: only updateLeaderboard writes the details.        *)
ReadRanking(c) ==
  /\ handler[c] = "rank"
  /\ \/ /\ snapshot' = [snapshot EXCEPT ![c] = board]
        /\ handler' = [handler EXCEPT ![c] = "details"]
        /\ UNCHANGED <<writer, excused, troubles>>
     \/ /\ troubles < MaxTroubles /\ troubles' = troubles + 1
        /\ handler' = [handler EXCEPT ![c] = "serving"] /\ writer' = [writer EXCEPT ![c] = "up"]
        /\ excused' = excused \cup {c}
        /\ UNCHANGED snapshot
  /\ UNCHANGED <<log, board, pubsub, msgs, regQ, unregQ, clients, send, closed, gone, view>>

ReadDetails(c) ==
  /\ handler[c] = "details"
  /\ \E missing \in SUBSET DOMAIN snapshot[c] :
       /\ snapshot' = [snapshot EXCEPT ![c] =
            [s \in DOMAIN @ |-> IF s \in missing THEN Stripped ELSE board[s]]]
       /\ IF missing = {} THEN UNCHANGED <<troubles, excused>>
          ELSE /\ troubles < MaxTroubles /\ troubles' = troubles + 1
               /\ excused' = excused \cup {c}
  /\ handler' = [handler EXCEPT ![c] = "put"]
  /\ UNCHANGED <<log, board, pubsub, msgs, regQ, unregQ, clients, send, closed, writer, gone, view>>

\* An update that the hub has put before it and that the snapshot does not have yet.
Overtaken(c) ==
  \E n \in DOMAIN send[c] :
    LET e == send[c][n].event
    IN log[e] \notin DOMAIN snapshot[c] \/ snapshot[c][log[e]] # e

PutSnapshot(c) ==
  /\ handler[c] = "put"
  /\ send' = IF Room(c) THEN [send EXCEPT ![c] = Append(@, Snapshot(snapshot[c]))] ELSE send
  /\ excused' = IF ~Room(c) \/ Overtaken(c) THEN excused \cup {c} ELSE excused
  /\ handler' = [handler EXCEPT ![c] = "serving"] /\ writer' = [writer EXCEPT ![c] = "up"]
  /\ UNCHANGED <<log, board, pubsub, troubles, msgs, regQ, unregQ, clients, closed, snapshot,
                 gone, view>>

(* The writer, and what the page does with a message (applySnapshot and     *)
(* applyUpdate of index.html).                                              *)
Shown(v, m) ==
  IF m.type = "snapshot" THEN m.board
  ELSE [s \in DOMAIN v \cup {log[m.event]} |-> IF s = log[m.event] THEN m.event ELSE v[s]]

WriteToClient(c) ==
  /\ writer[c] = "up" /\ send[c] # << >> /\ c \notin gone
  /\ send' = [send EXCEPT ![c] = Tail(@)]
  /\ view' = [view EXCEPT ![c] = Shown(@, Head(send[c]))]
  /\ UNCHANGED <<log, board, pubsub, troubles, msgs, regQ, unregQ, clients, closed, handler,
                 snapshot, writer, gone, excused>>

WriterEnds(c) ==
  /\ writer[c] = "up"
  /\ c \in gone \/ handler[c] \in {"leaving", "left"} \/ (c \in closed /\ send[c] = << >>)
  /\ writer' = [writer EXCEPT ![c] = "gone"]
  /\ UNCHANGED <<log, board, pubsub, troubles, msgs, regQ, unregQ, clients, send, closed, handler,
                 snapshot, gone, view, excused>>

(* The read fails, by the browser's departure or the writer's cancel; the   *)
(* deferred function unregisters, unless unregCh is full.                   *)
ReadFails(c) ==
  /\ handler[c] = "serving" /\ c \in gone
  /\ handler' = [handler EXCEPT ![c] = "leaving"]
  /\ UNCHANGED <<log, board, pubsub, troubles, msgs, regQ, unregQ, clients, send, closed, snapshot,
                 writer, gone, view, excused>>

Leave(c) ==
  /\ handler[c] = "leaving"
  /\ unregQ' = IF Len(unregQ) < RegCap THEN Append(unregQ, c) ELSE unregQ
  /\ handler' = [handler EXCEPT ![c] = "left"]
  /\ UNCHANGED <<log, board, pubsub, troubles, msgs, regQ, clients, send, closed, snapshot, writer,
                 gone, view, excused>>

GoAway(c) ==
  /\ handler[c] # "none" /\ c \notin gone
  /\ gone' = gone \cup {c}
  /\ UNCHANGED <<log, board, pubsub, troubles, msgs, regQ, unregQ, clients, send, closed, handler,
                 snapshot, writer, view, excused>>

HubStep == HubRegisters \/ HubUnregisters \/ HubFansOut
HandlerStep(c) ==
  \/ ReadRanking(c) \/ ReadDetails(c) \/ PutSnapshot(c) \/ WriteToClient(c) \/ WriterEnds(c)
  \/ ReadFails(c) \/ Leave(c)
=============================================================================
