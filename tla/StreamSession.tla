----------------------------- MODULE StreamSession -----------------------------
(***************************************************************************)
(* The streaming side of the reference submission (services/stub): each     *)
(* connection has a goroutine that reads a message, handles it, and puts    *)
(* what there is to say into a bounded channel, and a goroutine that writes *)
(* the channel to the connection.                                           *)
(*                                                                         *)
(* The book is reduced to what a session tells its client: which ids rest,  *)
(* and for which session.  Whether an order trades is left open; OrderBook  *)
(* has the matching.  A connection is two wires of bounded capacity, and    *)
(* its client (external) sends what it likes and reads all it is sent.      *)
(***************************************************************************)
EXTENDS Naturals, Sequences

CONSTANTS
  Conns,       \* connections
  Ids,         \* order ids
  SendCap,     \* capacity of Session.send (256 in the code)
  WireCap,     \* bound: messages under way in one direction, a writer's own included
  MaxSent      \* bound: messages clients send, together

ASSUME SessionAssumption ==
  SendCap \in Nat \ {0} /\ WireCap \in Nat \ {0} /\ MaxSent \in Nat

VARIABLES
  up, down,   \* connection -> messages under way to, and from, the engine
  sent,       \* messages sent by clients
  broken,     \* the connections that are closed or have failed
  session,    \* streamHandler: "none", "reading", "sending", "closing", "waiting", "over"
  toSend,     \* the messages the handler has not put into the channel yet
  send,       \* Session.send
  closed,     \* the sessions that have closed it
  writer,     \* writeLoop: "none", "up", "pinging" (it waits for a pong), "gone"
  resting     \* connection -> ids of its orders in the book

vars == <<up, down, sent, broken, session, toSend, send, closed, writer, resting>>

Init ==
  /\ up = [c \in Conns |-> << >>] /\ down = [c \in Conns |-> << >>] /\ broken = {}
  /\ sent = 0
  /\ session = [c \in Conns |-> "none"] /\ writer = [c \in Conns |-> "none"]
  /\ toSend = [c \in Conns |-> << >>] /\ send = [c \in Conns |-> << >>] /\ closed = {}
  /\ resting = [c \in Conns |-> {}]

\* The id map is one for all sessions.
InBookOfSession(c, id) == id \in resting[c]
InBook(c, id) == \E d \in Conns : id \in resting[d]

(* websocket.Accept, the Session and its writer.                            *)
Accept(c) ==
  /\ session[c] = "none"
  /\ session' = [session EXCEPT ![c] = "reading"]
  /\ writer' = [writer EXCEPT ![c] = "up"]
  /\ UNCHANGED <<up, down, sent, broken, toSend, send, closed, resting>>

-----------------------------------------------------------------------------
(* Handlers.  A message is [type, id].                                      *)
Types == {"limit", "market", "cancel"}
Msg(type, id) == [type |-> type, id |-> id]

Ping == [type |-> "ping"]
Pong == [type |-> "pong"]

\* What an order can be answered, and whether it is in the book afterwards.  A fill
\* with Remaining > 0 is "part".
Outcomes(kind) ==
  IF kind = "limit"
  THEN {[says |-> <<"ack">>, rests |-> TRUE], [says |-> <<"ack", "part">>, rests |-> TRUE],
        [says |-> <<"ack", "fill">>, rests |-> FALSE]}
  ELSE {[says |-> <<"ack", "fill">>, rests |-> FALSE],
        [says |-> <<"ack", "reject">>, rests |-> FALSE],
        [says |-> <<"ack", "part", "reject">>, rests |-> FALSE]}

Answer(c, types, id) ==
  /\ toSend' = [toSend EXCEPT ![c] = [n \in DOMAIN types |-> Msg(types[n], id)]]
  /\ session' = [session EXCEPT ![c] = "sending"]

(* handleOrder, up to the end of its locked section.                        *)
HandleOrder(c, m) ==
  \/ /\ InBook(c, m.id)
     /\ Answer(c, <<"reject">>, m.id)
     /\ UNCHANGED resting
  \/ /\ ~InBook(c, m.id)
     /\ \E o \in Outcomes(m.type) :
          /\ Answer(c, o.says, m.id)
          /\ resting' = IF o.rests THEN [resting EXCEPT ![c] = @ \cup {m.id}] ELSE resting

(* handleCancel: unknown or another session's orders are refused.           *)
HandleCancel(c, m) ==
  /\ Answer(c, IF m.id \in resting[c] THEN <<"cancel_ack">> ELSE <<"reject">>, m.id)
  /\ resting' = [resting EXCEPT ![c] = @ \ {m.id}]

ReadMessage(c) ==
  /\ session[c] = "reading" /\ up[c] # << >> /\ Head(up[c]) # Pong
  /\ LET m == Head(up[c])
     IN IF m.type = "cancel" THEN HandleCancel(c, m) ELSE HandleOrder(c, m)
  /\ up' = [up EXCEPT ![c] = Tail(@)]
  /\ UNCHANGED <<down, sent, broken, send, closed, writer>>

(* The library sees a pong inside of Read, and nowhere else.                *)
ReadPong(c) ==
  /\ session[c] = "reading" /\ up[c] # << >> /\ Head(up[c]) = Pong
  /\ up' = [up EXCEPT ![c] = Tail(@)]
  /\ writer' = [writer EXCEPT ![c] = IF @ = "pinging" THEN "up" ELSE @]
  /\ UNCHANGED <<down, sent, broken, session, toSend, send, closed, resting>>

(* s.send <- m: waits while the channel is full, whoever is at its other end.*)
SendRoomOneMore(c) == Len(send[c]) <= SendCap
SendRoom(c) == Len(send[c]) < SendCap

PutMessage(c) ==
  /\ session[c] = "sending" /\ SendRoom(c)
  /\ send' = [send EXCEPT ![c] = Append(@, Head(toSend[c]))]
  /\ toSend' = [toSend EXCEPT ![c] = Tail(@)]
  /\ session' = [session EXCEPT ![c] = IF Len(toSend[c]) = 1 THEN "reading" ELSE @]
  /\ UNCHANGED <<up, down, sent, broken, closed, writer, resting>>

(* writeLoop: a message, a ping, a write of either that fails, the closed   *)
(* channel.                                                                 *)
WriteOut(c) ==
  /\ writer[c] = "up" /\ send[c] # << >> /\ c \notin broken
  /\ Len(down[c]) < WireCap
  /\ down' = [down EXCEPT ![c] = Append(@, Head(send[c]))]
  /\ send' = [send EXCEPT ![c] = Tail(@)]
  /\ UNCHANGED <<up, sent, broken, session, toSend, closed, writer, resting>>

\* A write waits for as long as the connection lasts.
WriteErrorOrSlow(c) == c \in broken \/ Len(down[c]) = WireCap
WriteError(c) == c \in broken

WriteFails(c) ==
  /\ writer[c] = "up" /\ WriteError(c)
  /\ send' \in {send, [send EXCEPT ![c] = IF @ = << >> THEN @ ELSE Tail(@)]}
  /\ writer' = [writer EXCEPT ![c] = "gone"]
  /\ UNCHANGED <<up, down, sent, broken, session, toSend, closed, resting>>

(* conn.Ping(s.ctx), every thirty seconds: returns with the pong, which the *)
(* handler has to read, and has no timeout, since s.ctx lives as long as    *)
(* the handler.  It may be written to a connection that has failed already. *)
PingClient(c) ==
  /\ writer[c] = "up"
  /\ IF c \in broken THEN UNCHANGED down
     ELSE Len(down[c]) < WireCap /\ down' = [down EXCEPT ![c] = Append(@, Ping)]
  /\ writer' = [writer EXCEPT ![c] = "pinging"]
  /\ UNCHANGED <<up, sent, broken, session, toSend, send, closed, resting>>

\* The library may end the wait when a read has failed.
PingFails(c) ==
  /\ writer[c] = "pinging" /\ session[c] \in {"closing", "waiting"}
  /\ writer' = [writer EXCEPT ![c] = "gone"]
  /\ UNCHANGED <<up, down, sent, broken, session, toSend, send, closed, resting>>

WriterSeesClosed(c) ==
  /\ writer[c] = "up" /\ c \in closed /\ send[c] = << >>
  /\ writer' = [writer EXCEPT ![c] = "gone"]
  /\ UNCHANGED <<up, down, sent, broken, session, toSend, send, closed, resting>>

(* The end of a session: the read fails; the deferred function cancels its  *)
(* orders, closes the channel, waits for the writer and closes the          *)
(* connection.                                                              *)
ReadFails(c) ==
  /\ session[c] = "reading" /\ c \in broken /\ up[c] = << >>
  /\ session' = [session EXCEPT ![c] = "closing"]
  /\ UNCHANGED <<up, down, sent, broken, toSend, send, closed, writer, resting>>

EndSession(c) ==
  /\ session[c] = "closing"
  /\ resting' = [resting EXCEPT ![c] = {}]
  /\ closed' = closed \cup {c}
  /\ session' = [session EXCEPT ![c] = "waiting"]
  /\ UNCHANGED <<up, down, sent, broken, toSend, send, writer>>

\* The writer is waited for, not what it has left in the channel.
WriterDrained(c) == writer[c] = "gone" /\ send[c] = << >>
WriterDone(c) == writer[c] = "gone"

WriterJoined(c) ==
  /\ session[c] = "waiting" /\ WriterDone(c)
  /\ session' = [session EXCEPT ![c] = "over"]
  /\ UNCHANGED <<up, down, sent, broken, toSend, send, closed, writer, resting>>

(* Another session's order trades with a resting one: its owner is not told.*)
TradedAway(c, id) ==
  /\ id \in resting[c]
  /\ resting' = [resting EXCEPT ![c] = @ \ {id}]
  /\ UNCHANGED <<up, down, sent, broken, session, toSend, send, closed, writer>>

-----------------------------------------------------------------------------
(* Clients and the network.                                                 *)
ClientSends(c, type, id) ==
  /\ session[c] # "none" /\ c \notin broken
  /\ sent < MaxSent /\ Len(up[c]) < WireCap
  /\ sent' = sent + 1
  /\ up' = [up EXCEPT ![c] = Append(@, Msg(type, id))]
  /\ UNCHANGED <<down, broken, session, toSend, send, closed, writer, resting>>

ClientReads(c) ==
  /\ down[c] # << >> /\ Head(down[c]) # Ping
  /\ down' = [down EXCEPT ![c] = Tail(@)]
  /\ UNCHANGED <<up, sent, broken, session, toSend, send, closed, writer, resting>>

\* A ping is answered as soon as there is room for the pong.
ClientPongs(c) ==
  /\ down[c] # << >> /\ Head(down[c]) = Ping /\ Len(up[c]) < WireCap
  /\ down' = [down EXCEPT ![c] = Tail(@)]
  /\ up' = [up EXCEPT ![c] = Append(@, Pong)]
  /\ UNCHANGED <<sent, broken, session, toSend, send, closed, writer, resting>>

(* A connection is closed by its client or fails; some of what was under    *)
(* way is still delivered.                                                  *)
Breaks(c) ==
  /\ session[c] # "none" /\ c \notin broken
  /\ broken' = broken \cup {c}
  /\ \E n \in 0..Len(up[c]) : up' = [up EXCEPT ![c] = SubSeq(@, 1, n)]
  /\ down' = [down EXCEPT ![c] = << >>]
  /\ UNCHANGED <<sent, session, toSend, send, closed, writer, resting>>

HandlerStep(c) ==
  \/ ReadMessage(c) \/ ReadPong(c) \/ PutMessage(c)
  \/ ReadFails(c) \/ EndSession(c) \/ WriterJoined(c)
WriterStep(c) == WriteOut(c) \/ WriteFails(c) \/ WriterSeesClosed(c)
PingStep(c) == PingClient(c) \/ PingFails(c)
ClientStep(c) == ClientReads(c) \/ ClientPongs(c)

Next ==
  \/ \E c \in Conns :
       \/ Accept(c) \/ HandlerStep(c) \/ WriterStep(c) \/ PingStep(c)
       \/ ClientStep(c) \/ Breaks(c)
       \/ \E id \in Ids : TradedAway(c, id) \/ \E type \in Types : ClientSends(c, type, id)

Spec == Init /\ [][Next]_vars

(* The goroutines are scheduled, and clients read and answer pings.         *)
(* Nothing is assumed of what clients send, of the network, of when a       *)
(* connection is closed, or of when the writer pings.                       *)
Fairness ==
  \A c \in Conns : WF_vars(HandlerStep(c)) /\ WF_vars(WriterStep(c)) /\ WF_vars(ClientStep(c))

FairSpec == Spec /\ Fairness

-----------------------------------------------------------------------------
(* Properties *)

Messages == [type : Types, id : Ids]
AnswerTypes == {"ack", "part", "fill", "reject", "cancel_ack"}
AnswerMessages == [type : AnswerTypes, id : Ids]

\* Every variable keeps its type and no queue outgrows its capacity.
TypeOK ==
  /\ up \in [Conns -> Seq(Messages \cup {Pong})]
  /\ down \in [Conns -> Seq(AnswerMessages \cup {Ping})] /\ send \in [Conns -> Seq(AnswerMessages)]
  /\ toSend \in [Conns -> Seq(AnswerMessages)]
  /\ \A c \in Conns :
       /\ Len(up[c]) <= WireCap /\ Len(down[c]) <= WireCap /\ Len(send[c]) <= SendCap
       /\ session[c] = "sending" <=> toSend[c] # << >>
  /\ sent \in 0..MaxSent
  /\ session \in [Conns -> {"none", "reading", "sending", "closing", "waiting", "over"}]
  /\ writer \in [Conns -> {"none", "up", "pinging", "gone"}]
  /\ resting \in [Conns -> SUBSET Ids]
  /\ broken \subseteq Conns /\ closed \subseteq broken

\* An id rests for one session at a time: a client that reconnects and sends an id
\* again is refused as long as its old session has the order in the book
\* (stub/main.go:360-369).
OneOwner == \A c, d \in Conns : c # d => resting[c] \cap resting[d] = {}

\* The writer waits for a pong, which the handler would have to read, and the handler
\* for room in the channel, which the writer would have to make.
PingCircle(c) == session[c] = "sending" /\ writer[c] = "pinging" /\ Len(send[c]) = SendCap

\* A handler that waits for room in the send channel gets on, unless its connection
\* breaks or a ping comes between: full wires, a full channel and a client that is
\* itself waiting to write wait in a circle only while the writer waits for a pong
\* (stub/main.go:304-328, 407-409).
HandlersProgress ==
  \A c \in Conns :
    session[c] = "sending" ~> session[c] # "sending" \/ c \in broken \/ PingCircle(c)

\* The handler waits for room nobody makes, or for a writer that waits for a pong.
Stuck(c) ==
  \/ session[c] = "sending" /\ writer[c] \in {"gone", "pinging"} /\ Len(send[c]) = SendCap
  \/ session[c] = "waiting" /\ writer[c] = "pinging"

\* A session whose connection is gone ends, but for three cases: its writer has left
\* after a write error and its channel is full; its writer waits for a pong and its
\* channel is full; its writer waits for a pong when the handler waits for the writer
\* (stub/main.go:314-323, 407-409, 507-514).
OnlyStuckSessionsStay ==
  \A c \in Conns : c \in broken ~> session[c] = "over" \/ Stuck(c)

=============================================================================
