-------------------------- MODULE StreamSession_proofs --------------------------
(***************************************************************************)
(* Proofs, for every set of connections and ids and every capacity, that    *)
(* StreamSession keeps its types and channel bounds, and that an id rests   *)
(* for one session at a time.                                               *)
(***************************************************************************)
EXTENDS StreamSession, SequenceTheorems, TLAPS

\* A session winds up only after its connection has failed.
EndsBroken == \A c \in Conns : session[c] \in {"closing", "waiting", "over"} => c \in broken

IInv == TypeOK /\ EndsBroken /\ OneOwner

(* A step is one of the following.                                          *)
LEMMA StepCases ==
  ASSUME Next
  PROVE  \E c \in Conns :
           \/ Accept(c) \/ ReadMessage(c) \/ PutMessage(c) \/ ReadFails(c) \/ EndSession(c)
           \/ WriterJoined(c) \/ WriteOut(c) \/ WriteFails(c) \/ WriterSeesClosed(c)
           \/ ReadPong(c) \/ PingClient(c) \/ PingFails(c)
           \/ ClientReads(c) \/ ClientPongs(c) \/ Breaks(c)
           \/ \E id \in Ids : TradedAway(c, id)
           \/ \E type \in Types, id \in Ids : ClientSends(c, type, id)
  BY DEF Next, HandlerStep, WriterStep, PingStep, ClientStep

(* What an order can be answered is a sequence of answers, and not empty.   *)
LEMMA OutcomesTyped ==
  ASSUME NEW kind, NEW o \in Outcomes(kind)
  PROVE  o.says \in Seq(AnswerTypes) /\ Len(o.says) > 0 /\ o.rests \in BOOLEAN
<1> DEFINE Typed == o.says \in Seq(AnswerTypes) /\ Len(o.says) > 0 /\ o.rests \in BOOLEAN
<1>1. "ack" \in AnswerTypes /\ "part" \in AnswerTypes /\ "fill" \in AnswerTypes /\ "reject" \in AnswerTypes
  BY DEF AnswerTypes
<1>2. ASSUME NEW x \in AnswerTypes, NEW y \in AnswerTypes, NEW z \in AnswerTypes,
             NEW r \in BOOLEAN
      PROVE  /\ o = [says |-> <<x>>, rests |-> r] => Typed
             /\ o = [says |-> <<x, y>>, rests |-> r] => Typed
             /\ o = [says |-> <<x, y, z>>, rests |-> r] => Typed
  <2>1. /\ <<x>> \in Seq(AnswerTypes) /\ Len(<<x>>) > 0
        /\ <<x, y>> \in Seq(AnswerTypes) /\ Len(<<x, y>>) > 0
        /\ <<x, y, z>> \in Seq(AnswerTypes) /\ Len(<<x, y, z>>) > 0
    OBVIOUS
  <2>2. ASSUME NEW q, q \in Seq(AnswerTypes), Len(q) > 0, o = [says |-> q, rests |-> r]
        PROVE  Typed
    <3>1. o.says = q /\ o.rests = r
      BY <2>2
    <3>. QED
      BY <2>2, <3>1
  <2> HIDE DEF Typed
  <2>3. o = [says |-> <<x>>, rests |-> r] => Typed
    BY <2>1, <2>2, Zenon
  <2>4. o = [says |-> <<x, y>>, rests |-> r] => Typed
    BY <2>1, <2>2, Zenon
  <2>5. o = [says |-> <<x, y, z>>, rests |-> r] => Typed
    BY <2>1, <2>2, Zenon
  <2>. QED
    BY <2>3, <2>4, <2>5
<1> HIDE DEF Typed
<1>3. CASE kind = "limit"
  <2>1. \/ o = [says |-> <<"ack">>, rests |-> TRUE]
        \/ o = [says |-> <<"ack", "part">>, rests |-> TRUE]
        \/ o = [says |-> <<"ack", "fill">>, rests |-> FALSE]
    BY <1>3, Zenon DEF Outcomes
  <2>. QED
    BY <1>1, <1>2, <2>1, Zenon DEF Typed
<1>4. CASE kind # "limit"
  <2>1. \/ o = [says |-> <<"ack", "fill">>, rests |-> FALSE]
        \/ o = [says |-> <<"ack", "reject">>, rests |-> FALSE]
        \/ o = [says |-> <<"ack", "part", "reject">>, rests |-> FALSE]
    BY <1>4, Zenon DEF Outcomes
  <2>. QED
    BY <1>1, <1>2, <2>1, Zenon DEF Typed
<1>. QED
  BY <1>3, <1>4

(* Answering hands the handler something to send.                           *)
LEMMA AnswerTyped ==
  ASSUME TypeOK, NEW c \in Conns, NEW types \in Seq(AnswerTypes), Len(types) > 0, NEW id \in Ids,
         Answer(c, types, id)
  PROVE  /\ toSend' \in [Conns -> Seq(AnswerMessages)]
         /\ session' = [session EXCEPT ![c] = "sending"]
         /\ \A d \in Conns : session'[d] = "sending" <=> toSend'[d] # << >>
<1> DEFINE msgs == [n \in DOMAIN types |-> Msg(types[n], id)]
<1>1. DOMAIN types = 1..Len(types)
  OBVIOUS
<1>2. \A n \in 1..Len(types) : Msg(types[n], id) \in AnswerMessages
  BY DEF Msg, AnswerMessages
<1>3. msgs \in Seq(AnswerMessages) /\ Len(msgs) = Len(types)
  BY <1>1, <1>2
<1>4. msgs # << >>
  BY <1>3
<1>5. /\ toSend' = [toSend EXCEPT ![c] = msgs]
      /\ session' = [session EXCEPT ![c] = "sending"]
  BY DEF Answer
<1> HIDE DEF msgs
<1>. QED
  BY <1>3, <1>4, <1>5 DEF TypeOK

(* Reading a message: what rests afterwards, and what there is to send.     *)
LEMMA ReadMessageStep ==
  ASSUME IInv, NEW c \in Conns, ReadMessage(c)
  PROVE  IInv'
<1> DEFINE m == Head(up[c])
<1>1. /\ m \in Messages /\ Len(up[c]) > 0
      /\ up' \in [Conns -> Seq(Messages \cup {Pong})] /\ \A d \in Conns : Len(up'[d]) <= WireCap
  <2>1. up[c] \in Seq(Messages \cup {Pong}) /\ up[c] # << >> /\ m # Pong
    BY DEF IInv, TypeOK, ReadMessage
  <2>2. /\ m \in Messages \cup {Pong} /\ Tail(up[c]) \in Seq(Messages \cup {Pong})
        /\ Len(Tail(up[c])) = Len(up[c]) - 1
    BY <2>1
  <2>3. up' = [up EXCEPT ![c] = Tail(@)]
    BY DEF ReadMessage
  <2>. QED
    BY <2>1, <2>2, <2>3, SessionAssumption DEF IInv, TypeOK
<1>2. m.id \in Ids /\ m.type \in Types
  BY <1>1 DEF Messages
<1>3. PICK types \in Seq(AnswerTypes) :
        /\ Len(types) > 0 /\ Answer(c, types, m.id)
        /\ \/ resting' = resting
           \/ ~InBook(c, m.id) /\ resting' = [resting EXCEPT ![c] = @ \cup {m.id}]
           \/ resting' = [resting EXCEPT ![c] = @ \ {m.id}]
  <2>1. CASE m.type = "cancel"
    <3>1. HandleCancel(c, m)
      BY <2>1 DEF ReadMessage
    <3>2. <<"cancel_ack">> \in Seq(AnswerTypes) /\ <<"reject">> \in Seq(AnswerTypes)
      BY DEF AnswerTypes
    <3>3. Len(<<"cancel_ack">>) > 0 /\ Len(<<"reject">>) > 0
      OBVIOUS
    <3>. QED
      BY <3>1, <3>2, <3>3 DEF HandleCancel
  <2>2. CASE m.type # "cancel"
    <3>1. HandleOrder(c, m)
      BY <2>2 DEF ReadMessage
    <3>2. CASE Answer(c, <<"reject">>, m.id) /\ UNCHANGED resting
      <4>1. <<"reject">> \in Seq(AnswerTypes) /\ Len(<<"reject">>) > 0
        BY DEF AnswerTypes
      <4>. QED
        BY <3>2, <4>1
    <3>3. ASSUME ~InBook(c, m.id), NEW o \in Outcomes(m.type), Answer(c, o.says, m.id),
                 resting' = IF o.rests THEN [resting EXCEPT ![c] = @ \cup {m.id}] ELSE resting
          PROVE  \E types \in Seq(AnswerTypes) :
                   /\ Len(types) > 0 /\ Answer(c, types, m.id)
                   /\ \/ resting' = resting
                      \/ ~InBook(c, m.id) /\ resting' = [resting EXCEPT ![c] = @ \cup {m.id}]
                      \/ resting' = [resting EXCEPT ![c] = @ \ {m.id}]
      BY <3>3, OutcomesTyped
    <3>. QED
      BY <3>1, <3>2, <3>3 DEF HandleOrder
  <2>. QED
    BY <2>1, <2>2
<1>4. /\ toSend' \in [Conns -> Seq(AnswerMessages)]
      /\ session' = [session EXCEPT ![c] = "sending"]
      /\ \A d \in Conns : session'[d] = "sending" <=> toSend'[d] # << >>
  BY <1>2, <1>3, AnswerTyped DEF IInv
<1>5. UNCHANGED <<down, sent, broken, send, closed, writer>>
  BY DEF ReadMessage
<1> HIDE DEF m
<1>6. resting' \in [Conns -> SUBSET Ids] /\ OneOwner'
  <2>1. CASE resting' = resting
    BY <2>1 DEF IInv, TypeOK, OneOwner
  <2>2. CASE ~InBook(c, m.id) /\ resting' = [resting EXCEPT ![c] = @ \cup {m.id}]
    <3>1. \A d \in Conns : m.id \notin resting[d]
      BY <2>2 DEF InBook
    <3>2. \A d \in Conns : resting'[d] = IF d = c THEN resting[c] \cup {m.id} ELSE resting[d]
      BY <2>2 DEF IInv, TypeOK
    <3>3. resting' \in [Conns -> SUBSET Ids]
      BY <1>2, <2>2 DEF IInv, TypeOK
    <3>. QED
      BY <3>1, <3>2, <3>3 DEF IInv, OneOwner
  <2>3. CASE resting' = [resting EXCEPT ![c] = @ \ {m.id}]
    BY <1>2, <2>3 DEF IInv, TypeOK, OneOwner
  <2>. QED
    BY <1>3, <2>1, <2>2, <2>3
<1>7. TypeOK'
  BY <1>1, <1>4, <1>5, <1>6 DEF IInv, TypeOK
<1>8. EndsBroken'
  BY <1>4, <1>5 DEF IInv, TypeOK, EndsBroken
<1>. QED
  BY <1>6, <1>7, <1>8 DEF IInv

\* Before the first connection.
LEMMA InitIInv ==
  ASSUME Init
  PROVE  IInv
<1>1. EndsBroken /\ OneOwner
  BY DEF Init, EndsBroken, OneOwner
<1>2. /\ << >> \in Seq(Messages \cup {Pong}) /\ << >> \in Seq(AnswerMessages \cup {Ping})
      /\ << >> \in Seq(AnswerMessages) /\ Len(<< >>) = 0
  OBVIOUS
<1>3. TypeOK
  BY <1>2, SessionAssumption DEF Init, TypeOK
<1>. QED
  BY <1>1, <1>3 DEF IInv

\* Every step keeps the invariant.
LEMMA NextIInv ==
  ASSUME IInv, [Next]_vars
  PROVE  IInv'
<1> USE SessionAssumption
<1>1. CASE UNCHANGED vars
  BY <1>1 DEF IInv, TypeOK, EndsBroken, OneOwner, vars
<1>2. ASSUME NEW c \in Conns, Accept(c) PROVE IInv'
  BY <1>2 DEF IInv, TypeOK, EndsBroken, OneOwner, Accept
<1>3. ASSUME NEW c \in Conns, ReadMessage(c) PROVE IInv'
  BY <1>3, ReadMessageStep
<1>4. ASSUME NEW c \in Conns, PutMessage(c) PROVE IInv'
  <2>1. /\ toSend[c] \in Seq(AnswerMessages) /\ toSend[c] # << >>
        /\ send[c] \in Seq(AnswerMessages) /\ Len(send[c]) < SendCap
    BY <1>4 DEF IInv, TypeOK, PutMessage, SendRoom
  <2>2. /\ Append(send[c], Head(toSend[c])) \in Seq(AnswerMessages)
        /\ Len(Append(send[c], Head(toSend[c]))) <= SendCap
        /\ Tail(toSend[c]) \in Seq(AnswerMessages)
        /\ Len(toSend[c]) = 1 <=> Tail(toSend[c]) = << >>
    <3>1. Len(Tail(toSend[c])) = Len(toSend[c]) - 1 /\ Tail(toSend[c]) \in Seq(AnswerMessages)
      BY <2>1
    <3>2. Tail(toSend[c]) = << >> <=> Len(Tail(toSend[c])) = 0
      BY <3>1, EmptySeq
    <3>. QED
      BY <2>1, <3>1, <3>2
  <2>3. /\ send' = [send EXCEPT ![c] = Append(@, Head(toSend[c]))]
        /\ toSend' = [toSend EXCEPT ![c] = Tail(@)]
        /\ session' = [session EXCEPT ![c] = IF Len(toSend[c]) = 1 THEN "reading" ELSE @]
        /\ session[c] = "sending"
        /\ UNCHANGED <<up, down, sent, broken, closed, writer, resting>>
    BY <1>4 DEF PutMessage
  <2>4. TypeOK'
    BY <2>2, <2>3 DEF IInv, TypeOK
  <2>. QED
    BY <2>3, <2>4 DEF IInv, TypeOK, EndsBroken, OneOwner
<1>5. ASSUME NEW c \in Conns, ReadFails(c) PROVE IInv'
  BY <1>5 DEF IInv, TypeOK, EndsBroken, OneOwner, ReadFails
<1>6. ASSUME NEW c \in Conns, EndSession(c) PROVE IInv'
  BY <1>6 DEF IInv, TypeOK, EndsBroken, OneOwner, EndSession
<1>7. ASSUME NEW c \in Conns, WriterJoined(c) PROVE IInv'
  BY <1>7 DEF IInv, TypeOK, EndsBroken, OneOwner, WriterJoined
<1>8. ASSUME NEW c \in Conns, WriteOut(c) PROVE IInv'
  <2>1. /\ send[c] \in Seq(AnswerMessages) /\ send[c] # << >> /\ Len(send[c]) <= SendCap
        /\ down[c] \in Seq(AnswerMessages \cup {Ping}) /\ Len(down[c]) < WireCap
    BY <1>8 DEF IInv, TypeOK, WriteOut
  <2>2. /\ Append(down[c], Head(send[c])) \in Seq(AnswerMessages \cup {Ping})
        /\ Len(Append(down[c], Head(send[c]))) <= WireCap
        /\ Tail(send[c]) \in Seq(AnswerMessages) /\ Len(Tail(send[c])) <= SendCap
    BY <2>1
  <2>3. /\ down' = [down EXCEPT ![c] = Append(@, Head(send[c]))]
        /\ send' = [send EXCEPT ![c] = Tail(@)]
        /\ UNCHANGED <<up, sent, broken, session, toSend, closed, writer, resting>>
    BY <1>8 DEF WriteOut
  <2>. QED
    BY <2>2, <2>3 DEF IInv, TypeOK, EndsBroken, OneOwner
<1>9. ASSUME NEW c \in Conns, WriteFails(c) PROVE IInv'
  <2>1. send[c] \in Seq(AnswerMessages) /\ Len(send[c]) <= SendCap
    BY DEF IInv, TypeOK
  <2>2. LET s == IF send[c] = << >> THEN send[c] ELSE Tail(send[c])
        IN  s \in Seq(AnswerMessages) /\ Len(s) <= SendCap
    BY <2>1
  <2>3. /\ \/ send' = send
           \/ send' = [send EXCEPT ![c] = IF @ = << >> THEN @ ELSE Tail(@)]
        /\ writer' = [writer EXCEPT ![c] = "gone"]
        /\ UNCHANGED <<up, down, sent, broken, session, toSend, closed, resting>>
    BY <1>9 DEF WriteFails
  <2>. QED
    BY <2>2, <2>3 DEF IInv, TypeOK, EndsBroken, OneOwner
<1>10. ASSUME NEW c \in Conns, WriterSeesClosed(c) PROVE IInv'
  BY <1>10 DEF IInv, TypeOK, EndsBroken, OneOwner, WriterSeesClosed
<1>11. ASSUME NEW c \in Conns, ClientReads(c) PROVE IInv'
  <2>1. /\ down[c] \in Seq(AnswerMessages \cup {Ping}) /\ down[c] # << >>
        /\ Len(down[c]) <= WireCap
    BY <1>11 DEF IInv, TypeOK, ClientReads
  <2>2. Tail(down[c]) \in Seq(AnswerMessages \cup {Ping}) /\ Len(Tail(down[c])) <= WireCap
    BY <2>1
  <2>3. /\ down' = [down EXCEPT ![c] = Tail(@)]
        /\ UNCHANGED <<up, sent, broken, session, toSend, send, closed, writer, resting>>
    BY <1>11 DEF ClientReads
  <2>. QED
    BY <2>2, <2>3 DEF IInv, TypeOK, EndsBroken, OneOwner
<1>12. ASSUME NEW c \in Conns, Breaks(c) PROVE IInv'
  <2>1. PICK n \in 0..Len(up[c]) : up' = [up EXCEPT ![c] = SubSeq(@, 1, n)]
    BY <1>12 DEF Breaks
  <2>2. up[c] \in Seq(Messages \cup {Pong}) /\ Len(up[c]) <= WireCap
    BY DEF IInv, TypeOK
  <2>3. SubSeq(up[c], 1, n) \in Seq(Messages \cup {Pong}) /\ Len(SubSeq(up[c], 1, n)) <= WireCap
    BY <2>2
  <2>4. /\ broken' = broken \cup {c}
        /\ down' = [down EXCEPT ![c] = << >>]
        /\ UNCHANGED <<sent, session, toSend, send, closed, writer, resting>>
    BY <1>12 DEF Breaks
  <2>. QED
    BY <2>1, <2>3, <2>4 DEF IInv, TypeOK, EndsBroken, OneOwner
<1>13. ASSUME NEW c \in Conns, NEW id \in Ids, TradedAway(c, id) PROVE IInv'
  BY <1>13 DEF IInv, TypeOK, EndsBroken, OneOwner, TradedAway
<1>14. ASSUME NEW c \in Conns, NEW type \in Types, NEW id \in Ids, ClientSends(c, type, id)
       PROVE  IInv'
  <2>1. /\ up[c] \in Seq(Messages \cup {Pong}) /\ Len(up[c]) < WireCap
        /\ Msg(type, id) \in Messages
    BY <1>14 DEF IInv, TypeOK, ClientSends, Msg, Messages
  <2>2. /\ Append(up[c], Msg(type, id)) \in Seq(Messages \cup {Pong})
        /\ Len(Append(up[c], Msg(type, id))) <= WireCap
    BY <2>1
  <2>3. /\ up' = [up EXCEPT ![c] = Append(@, Msg(type, id))]
        /\ sent < MaxSent /\ sent' = sent + 1
        /\ UNCHANGED <<down, broken, session, toSend, send, closed, writer, resting>>
    BY <1>14 DEF ClientSends
  <2>. QED
    BY <2>2, <2>3 DEF IInv, TypeOK, EndsBroken, OneOwner
<1>15. ASSUME NEW c \in Conns, ReadPong(c) PROVE IInv'
  <2>1. up[c] \in Seq(Messages \cup {Pong}) /\ up[c] # << >> /\ Len(up[c]) <= WireCap
    BY <1>15 DEF IInv, TypeOK, ReadPong
  <2>2. Tail(up[c]) \in Seq(Messages \cup {Pong}) /\ Len(Tail(up[c])) <= WireCap
    BY <2>1
  <2>3. /\ up' = [up EXCEPT ![c] = Tail(@)]
        /\ writer' = [writer EXCEPT ![c] = IF @ = "pinging" THEN "up" ELSE @]
        /\ UNCHANGED <<down, sent, broken, session, toSend, send, closed, resting>>
    BY <1>15 DEF ReadPong
  <2>. QED
    BY <2>2, <2>3 DEF IInv, TypeOK, EndsBroken, OneOwner
<1>16. ASSUME NEW c \in Conns, PingClient(c) PROVE IInv'
  <2>1. down[c] \in Seq(AnswerMessages \cup {Ping})
    BY DEF IInv, TypeOK
  <2>2. /\ Append(down[c], Ping) \in Seq(AnswerMessages \cup {Ping})
        /\ Len(Append(down[c], Ping)) = Len(down[c]) + 1 /\ Len(down[c]) \in Nat
    BY <2>1
  <2>3. /\ \/ down' = down
           \/ Len(down[c]) < WireCap /\ down' = [down EXCEPT ![c] = Append(@, Ping)]
        /\ writer' = [writer EXCEPT ![c] = "pinging"]
        /\ UNCHANGED <<up, sent, broken, session, toSend, send, closed, resting>>
    BY <1>16 DEF PingClient
  <2>4. /\ down' \in [Conns -> Seq(AnswerMessages \cup {Ping})]
        /\ \A d \in Conns : Len(down'[d]) <= WireCap
    <3>1. CASE down' = down
      BY <3>1 DEF IInv, TypeOK
    <3>2. CASE Len(down[c]) < WireCap /\ down' = [down EXCEPT ![c] = Append(@, Ping)]
      <4>1. Len(Append(down[c], Ping)) <= WireCap
        BY <2>2, <3>2
      <4>. QED
        BY <2>2, <3>2, <4>1 DEF IInv, TypeOK
    <3>. QED
      BY <2>3, <3>1, <3>2
  <2>. QED
    BY <2>3, <2>4 DEF IInv, TypeOK, EndsBroken, OneOwner
<1>17. ASSUME NEW c \in Conns, PingFails(c) PROVE IInv'
  BY <1>17 DEF IInv, TypeOK, EndsBroken, OneOwner, PingFails
<1>18. ASSUME NEW c \in Conns, ClientPongs(c) PROVE IInv'
  <2>1. /\ down[c] \in Seq(AnswerMessages \cup {Ping}) /\ down[c] # << >>
        /\ Len(down[c]) <= WireCap
        /\ up[c] \in Seq(Messages \cup {Pong}) /\ Len(up[c]) < WireCap
    BY <1>18 DEF IInv, TypeOK, ClientPongs
  <2>2. /\ Tail(down[c]) \in Seq(AnswerMessages \cup {Ping}) /\ Len(Tail(down[c])) <= WireCap
        /\ Append(up[c], Pong) \in Seq(Messages \cup {Pong}) /\ Len(Append(up[c], Pong)) <= WireCap
    BY <2>1
  <2>3. /\ down' = [down EXCEPT ![c] = Tail(@)]
        /\ up' = [up EXCEPT ![c] = Append(@, Pong)]
        /\ UNCHANGED <<sent, broken, session, toSend, send, closed, writer, resting>>
    BY <1>18 DEF ClientPongs
  <2>. QED
    BY <2>2, <2>3 DEF IInv, TypeOK, EndsBroken, OneOwner
<1>. QED
  BY <1>1, <1>2, <1>3, <1>4, <1>5, <1>6, <1>7, <1>8, <1>9, <1>10, <1>11, <1>12, <1>13, <1>14,
     <1>15, <1>16, <1>17, <1>18, StepCases

\* The inductive invariant holds of every reachable state.
THEOREM Invariance == Spec => []IInv
  BY InitIInv, NextIInv, PTL DEF Spec

\* Every variable keeps its type and no channel outgrows its capacity.
THEOREM TypeCorrect == Spec => []TypeOK
<1>1. IInv => TypeOK
  BY DEF IInv
<1>. QED
  BY <1>1, Invariance, PTL

\* The id map refuses an id that rests, whichever session it rests for
\* (stub/main.go:360-369), so no interleaving of sessions gives it two owners.
THEOREM IdsHaveOneOwner == Spec => []OneOwner
<1>1. IInv => OneOwner
  BY DEF IInv
<1>. QED
  BY <1>1, Invariance, PTL
=============================================================================
