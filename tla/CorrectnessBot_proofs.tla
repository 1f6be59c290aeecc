------------------------- MODULE CorrectnessBot_proofs -------------------------
(***************************************************************************)
(* Proofs that the correctness bot gives full marks to the order book of    *)
(* this repository when nothing disturbs it, that an assertion it counts    *)
(* failed is explained by a lost message or by an earlier sequence that     *)
(* failed, and that the book it talks to is the OrderBook of this project.  *)
(* They hold for any number of hiccups and of late answers; the scripts are *)
(* the five of correctness.go.                                              *)
(*                                                                         *)
(* Most of the argument is about what can be under way between the bot and  *)
(* the engine: at most the step's own message or its answers, and fills the *)
(* bot did not wait for.  So a sequence that lost nothing leaves no order   *)
(* behind, and one that nothing was left in the way of goes through its     *)
(* script turn by turn.                                                     *)
(***************************************************************************)
EXTENDS CorrectnessBot, FiniteSetTheorems, TLAPS

\* What is proved of the book holds of the engine's.
Book == INSTANCE OrderBook_proofs

-----------------------------------------------------------------------------
(* What a run of a sequence is to look like.                                *)

Script == CorrectnessSequences[seq]
Final == at = Len(Script)

Ack == Msg("ack", 0, 0)
Fill(price, qty) == Msg("fill", price, qty)
Message == [type : {"ack", "fill", "reject", "cancel_ack"}, price : Nat, qty : Nat]

\* The resting orders, without their owners and times.
Card(tag, side, price, rem) == [tag |-> tag, side |-> side, price |-> price, rem |-> rem]
CardOf(n) == Card(made[n].id, made[n].side, made[n].price, made[n].rem)
Shelf == {CardOf(n) : n \in bids \cup asks}

\* The book before each step of each sequence, and after the last.
Shelves ==
  LET lo == Card("s0-bid-lo", "buy", P, 5)
      bid(price, rem) == {Card("s0-bid", "buy", price, rem)}
  IN <<<<{}, bid(P, 10), {}>>,
       <<{}, {lo}, {lo, Card("s1-bid-hi", "buy", P + 1, 5)}, {}>>,
       <<{}, bid(P + 10, 10), bid(P + 10, 7), {}>>,
       <<{}, bid(P + 20, 10), {}, {Card("s2-ask", "sell", P + 20, 10)}, {}>>,
       <<{}, {}>>>>

\* The assertions up to each step, and after the last.
Worth == <<<<0, 1, 6>>, <<0, 1, 2, 6>>, <<0, 1, 6, 9>>, <<0, 1, 4, 6, 9>>, <<0, 3>>>>
Full(n) == Worth[n][Len(CorrectnessSequences[n]) + 1]

\* The turns of the loop in a step: what is said by then, what rests, what is left.
Turn(msgs, shelf, rem) == [msgs |-> msgs, shelf |-> shelf, rem |-> rem]
TurnsOf(n, k) ==
  IF n = 1 /\ k = 2 THEN
    <<Turn(<<Ack>>, Shelves[1][2], 10), Turn(<<Ack, Fill(P, 10)>>, {}, 0)>>
  ELSE IF n = 2 /\ k = 3 THEN
    <<Turn(<<Ack>>, Shelves[2][3], 10), Turn(<<Ack, Fill(P + 1, 5)>>, Shelves[2][2], 5),
      Turn(<<Ack, Fill(P + 1, 5), Fill(P, 5)>>, {}, 0)>>
  ELSE IF n = 3 /\ k = 2 THEN
    <<Turn(<<Ack>>, Shelves[3][2], 3), Turn(<<Ack, Fill(P + 10, 3)>>, Shelves[3][3], 0)>>
  ELSE <<Turn(<<Ack>>, Shelves[n][k], CorrectnessSequences[n][k].qty)>>

\* The answers the bot reads in a step, and those it leaves unread.
Heard(n, k) ==
  IF CorrectnessSequences[n][k].act = "cancel" THEN <<Msg("cancel_ack", 0, 0)>>
  ELSE IF CorrectnessSequences[n][k].reject THEN <<Ack, Msg("reject", 0, 0)>>
  ELSE IF n = 1 /\ k = 2 THEN <<Ack, Fill(P, 10)>>
  ELSE IF n = 2 /\ k = 3 THEN <<Ack, Fill(P + 1, 5)>>
  ELSE IF n = 3 /\ k = 2 THEN <<Ack, Fill(P + 10, 3)>>
  ELSE <<Ack>>
Unheard(n, k) == IF n = 2 /\ k = 3 THEN <<Fill(P, 5)>> ELSE << >>

-----------------------------------------------------------------------------
(* The invariant.                                                           *)

Typed ==
  /\ pc \in {"dial", "send", "read", "check", "close", "done"}
  /\ seq \in Sessions /\ at \in DOMAIN Script
  /\ open \subseteq {seq} /\ hit \subseteq Sessions
  /\ hiccups \in 0..MaxHiccups /\ ctxDone \in BOOLEAN
  /\ wire \in [Sessions -> Seq(Steps)] /\ inbox \in [Sessions -> Seq(Message)]
  /\ got \in Seq(Message) /\ says \in Seq(Message)
  /\ passed \in [Sessions -> Nat] /\ failed \in [Sessions -> Nat]
  /\ overlap \in [Sessions -> SUBSET Sessions]

\* An open connection has a session that reads, and only a sequence under way has one.
OpenReads ==
  /\ \A s \in open : session[s] = "reading"
  /\ pc \in {"dial", "done"} => open = {}

\* Nothing has come of a sequence that has not begun.
Begun(n) == n < seq \/ (n = seq /\ pc # "dial")
NotBegun ==
  /\ pc = "dial" => at = 1 /\ got = << >>
  /\ \A n \in Sessions : ~Begun(n) =>
       /\ session[n] = "closed" /\ wire[n] = << >> /\ inbox[n] = << >>
       /\ overlap[n] = {} /\ passed[n] = 0 /\ failed[n] = 0
       /\ \A m \in 1..Len(made) : made[m].owner # n

\* The sessions beside a sequence under way are those that had not ended when it began.
Beside ==
  /\ \A n \in Sessions : overlap[n] \subseteq 1..(n - 1)
  /\ pc \in {"send", "read", "check", "close"} =>
       \A e \in Sessions : session[e] # "closed" => e = seq \/ e \in overlap[seq]

\* A connection carries the messages of its sequence, of the steps begun.
FromScript ==
  \A s \in Sessions : \A i \in DOMAIN wire[s] :
    \E k \in DOMAIN CorrectnessSequences[s] :
      wire[s][i] = CorrectnessSequences[s][k] /\ (s = seq => k <= at)

OnlyFills(msgs) == \A i \in DOMAIN msgs : msgs[i].type = "fill"

\* The answer that ends the reading of a step that expects no fill.
Key == IF Step.act = "cancel" THEN "cancel_ack" ELSE IF Step.reject THEN "reject" ELSE "ack"

\* The step's message is under way, or the engine is at it, or has answered it: at most
\* fills come after the answer the bot waits for.
Unread == OnlyFills(got) /\ OnlyFills(inbox[seq])
Sent == wire[seq] = <<Step>> /\ mu # seq /\ Unread
AtIt ==
  /\ wire[seq] = << >> /\ mu = seq /\ Unread
  /\ Step.act = "order"
  /\ made[Len(made)].id = Step.tag /\ made[Len(made)].side = Step.side
  /\ made[Len(made)].kind = Step.kind /\ made[Len(made)].price = Step.price
  /\ Len(says) > 0 /\ says[1].type = "ack" /\ \A i \in 2..Len(says) : says[i].type = "fill"
Answered ==
  /\ wire[seq] = << >> /\ mu # seq
  /\ \A i \in DOMAIN inbox[seq] :
       Got(Key, got) \/ (\E h \in 1..(i - 1) : inbox[seq][h].type = Key)
         => inbox[seq][i].type = "fill"

\* Between two steps nothing but fills the bot did not wait for is under way.
Quiet == wire[seq] = << >> /\ mu # seq /\ OnlyFills(inbox[seq])
InStep ==
  /\ pc = "send" /\ seq \in open => Quiet
  /\ pc = "read" => seq \in open /\ ~Enough(got) /\ (Sent \/ AtIt \/ Answered)
  /\ pc = "check" => IF seq \in open THEN Enough(got) /\ Quiet ELSE ~Enough(got)

\* The first two sequences sell at P, and in their last step only.
Sells ==
  seq <= 2 => \A n \in 1..Len(made) :
    made[n].side = "sell" => made[n].price = P /\ (made[n].owner = seq => Final)

\* So no fill before the last step's answer is one the last step expects.
Stale(m) == m.type = "fill" => seq # 1 /\ m.price = P
StaleFills(msgs) == \A i \in DOMAIN msgs : Stale(msgs[i])
NoEarlyFill ==
  seq <= 2 =>
    /\ ~Final => /\ StaleFills(inbox[seq]) /\ StaleFills(got)
                 /\ mu = seq => StaleFills(says)
    /\ Final /\ pc = "send" /\ seq \in open => StaleFills(inbox[seq])
    /\ Final /\ pc = "read" /\ ~Got("ack", got) =>
         /\ StaleFills(got)
         /\ \A i \in DOMAIN inbox[seq] :
              (\A h \in 1..i : inbox[seq][h].type # "ack") => Stale(inbox[seq][i])
    /\ Final /\ pc = "check" /\ ~Got("ack", got) => StaleFills(got)

\* No sequence counts more assertions than it has.
Budget(n) ==
  IF ~Begun(n) THEN 0
  ELSE IF n = seq /\ pc \in {"send", "read", "check"} THEN Worth[n][at] ELSE Full(n)
Scored == \A n \in Sessions : passed[n] + failed[n] <= Budget(n)

\* A sequence that lost nothing has left nothing.
Ended(n) == n < seq \/ (n = seq /\ pc \in {"close", "done"})
Spent(e) == wire[e] = << >> /\ mu # e /\ \A n \in bids \cup asks : made[n].owner # e
LeavesNothing == \A e \in Sessions : Ended(e) /\ failed[e] = 0 => Spent(e)

\* Nothing failed on the way of a sequence, and nothing was left in its way.
Clean(n) == n \notin hit /\ \A e \in overlap[n] : failed[e] = 0

\* The step's message is under way, the engine is at the step, or has answered it.
Awaited ==
  /\ wire[seq] = <<Step>> /\ mu = NoSession /\ got = << >> /\ inbox[seq] = << >>
  /\ Shelf = Shelves[seq][at]
OnTurn ==
  /\ wire[seq] = << >> /\ mu = seq /\ got = << >> /\ inbox[seq] = << >>
  /\ \E t \in DOMAIN TurnsOf(seq, at) :
       /\ says = TurnsOf(seq, at)[t].msgs /\ Shelf = TurnsOf(seq, at)[t].shelf
       /\ made[Len(made)].rem = TurnsOf(seq, at)[t].rem
Replied ==
  /\ wire[seq] = << >> /\ mu = NoSession /\ Shelf = Shelves[seq][at + 1]
  /\ \/ got = << >> /\ inbox[seq] = Heard(seq, at) \o Unheard(seq, at)
     \/ /\ Len(Heard(seq, at)) = 2 /\ got = <<Ack>>
        /\ inbox[seq] = <<Heard(seq, at)[2]>> \o Unheard(seq, at)
OnScript ==
  /\ seq \in open
  /\ pc = "send" => Shelf = Shelves[seq][at] /\ mu = NoSession /\ inbox[seq] = << >>
  /\ pc = "read" => Awaited \/ OnTurn \/ Replied
  /\ pc = "check" =>
       /\ mu = NoSession /\ Shelf = Shelves[seq][at + 1]
       /\ got = Heard(seq, at) /\ inbox[seq] = Unheard(seq, at)

Tracks ==
  /\ pc \in {"send", "read", "check"} /\ Clean(seq) =>
       OnScript /\ failed[seq] = 0 /\ passed[seq] = Worth[seq][at]
  /\ \A n \in Sessions : Ended(n) /\ Clean(n) => failed[n] = 0 /\ passed[n] = Full(n)

NoHiccup == hiccups = 0 => hit = {} /\ ~ctxDone

\* The bot is done after the last sequence.
LastDone == pc = "done" => seq = Len(CorrectnessSequences)

Basics ==
  Book!IInv /\ Typed /\ OpenReads /\ NotBegun /\ Beside /\ FromScript /\ NoHiccup
CInv ==
  Basics /\ InStep /\ Sells /\ NoEarlyFill /\ Scored /\ LeavesNothing /\ Tracks /\ LastDone
-----------------------------------------------------------------------------
(* The scripts.                                                             *)

StepIs(n, k, act, tag, side, kind, price, qty, fill, reject, levels) ==
  LET step == CorrectnessSequences[n][k]
  IN  /\ step.act = act /\ step.tag = tag /\ step.side = side /\ step.kind = kind
      /\ step.price = price /\ step.qty = qty /\ step.fill = fill
      /\ step.reject = reject /\ step.levels = levels

\* There are five sequences, of two, three, three, four steps and one.
LEMMA Lengths ==
  /\ Sessions = 1..5 /\ Len(CorrectnessSequences) = 5
  /\ Len(CorrectnessSequences[1]) = 2 /\ Len(CorrectnessSequences[2]) = 3
  /\ Len(CorrectnessSequences[3]) = 3 /\ Len(CorrectnessSequences[4]) = 4
  /\ Len(CorrectnessSequences[5]) = 1
<1>1. /\ Sessions = 1..5 /\ Len(CorrectnessSequences) = 5
      /\ CorrectnessSequences[1] = cxBasicMatch /\ CorrectnessSequences[2] = cxPriorityFill
      /\ CorrectnessSequences[3] = cxPartialFill /\ CorrectnessSequences[4] = cxCancel
      /\ CorrectnessSequences[5] = cxRejectMarketNoLiquidity
  BY DEF Sessions, CorrectnessSequences
<1>2. /\ Len(cxBasicMatch) = 2 /\ Len(cxPriorityFill) = 3 /\ Len(cxPartialFill) = 3
      /\ Len(cxCancel) = 4 /\ Len(cxRejectMarketNoLiquidity) = 1
  BY DEF cxBasicMatch, cxPriorityFill, cxPartialFill, cxCancel, cxRejectMarketNoLiquidity
<1>. QED
  BY <1>1, <1>2

\* The prices of the scripts besides P.
P1 == P + 1
P10 == P + 10
P20 == P + 20

\* There are four of them, and none is 0.
LEMMA FourPrices ==
  /\ P \in Nat /\ P1 \in Nat /\ P10 \in Nat /\ P20 \in Nat
  /\ 0 < P /\ P < P1 /\ P1 < P10 /\ P10 < P20
  BY DEF P, P1, P10, P20

\* Sequence 1, step by step: a bid, and an ask that fills it.
LEMMA BasicMatchSteps ==
  /\ StepIs(1, 1, "order", "s0-bid", "buy", "limit", P, 10, <<0, 0>>, FALSE, <<1, -1>>)
  /\ StepIs(1, 2, "order", "s1-ask", "sell", "limit", P, 10, <<P, 10>>, FALSE, <<0, 0>>)
  BY DEF StepIs, CorrectnessSequences, cxBasicMatch, Order, NoFill, Unchecked

\* Sequence 2, step by step: two bids, and a sell that fills the dearer one first.
LEMMA PriorityFillSteps ==
  /\ StepIs(2, 1, "order", "s0-bid-lo", "buy", "limit", P, 5, <<0, 0>>, FALSE, <<1, -1>>)
  /\ StepIs(2, 2, "order", "s1-bid-hi", "buy", "limit", P1, 5, <<0, 0>>, FALSE, <<2, -1>>)
  /\ StepIs(2, 3, "order", "s2-sell", "sell", "limit", P, 10, <<P1, 0>>, FALSE, <<0, 0>>)
  BY DEF StepIs, CorrectnessSequences, cxPriorityFill, Order, P1, NoFill, Unchecked

\* Sequence 3, step by step: a bid, an ask that fills part of it, and its cancellation.
LEMMA PartialFillSteps ==
  /\ StepIs(3, 1, "order", "s0-bid", "buy", "limit", P10, 10, <<0, 0>>, FALSE, <<1, -1>>)
  /\ StepIs(3, 2, "order", "s1-ask", "sell", "limit", P10, 3, <<P10, 3>>, FALSE, <<1, 0>>)
  /\ StepIs(3, 3, "cancel", "s0-bid", "buy", "limit", 0, 0, <<0, 0>>, FALSE, <<0, 0>>)
  BY DEF StepIs, CorrectnessSequences, cxPartialFill, Order, Cancel, P10, NoFill, Unchecked

\* Sequence 4, step by step: a bid and its cancellation, an ask and its cancellation.
LEMMA CancelSteps ==
  /\ StepIs(4, 1, "order", "s0-bid", "buy", "limit", P20, 10, <<0, 0>>, FALSE, <<1, -1>>)
  /\ StepIs(4, 2, "cancel", "s0-bid", "buy", "limit", 0, 0, <<0, 0>>, FALSE, <<0, 0>>)
  /\ StepIs(4, 3, "order", "s2-ask", "sell", "limit", P20, 10, <<0, 0>>, FALSE, <<0, 1>>)
  /\ StepIs(4, 4, "cancel", "s2-ask", "buy", "limit", 0, 0, <<0, 0>>, FALSE, <<0, 0>>)
  BY DEF StepIs, CorrectnessSequences, cxCancel, Order, Cancel, P20, NoFill, Unchecked

\* Sequence 5, step by step: a market order with nothing to match.
LEMMA RejectSteps ==
  StepIs(5, 1, "order", "s0-mkt", "sell", "market", 0, 10, <<0, 0>>, TRUE, <<0, 0>>)
  BY DEF StepIs, CorrectnessSequences, cxRejectMarketNoLiquidity, Order, NoFill, Unchecked

\* A position in a sequence is one of thirteen.
LEMMA Positions ==
  ASSUME NEW n \in Sessions, NEW k \in DOMAIN CorrectnessSequences[n]
  PROVE  /\ n \in 1..5 /\ k \in 1..4 /\ k <= Len(CorrectnessSequences[n])
         /\ \/ n = 1 /\ (k = 1 \/ k = 2)
            \/ n = 2 /\ (k = 1 \/ k = 2 \/ k = 3)
            \/ n = 3 /\ (k = 1 \/ k = 2 \/ k = 3)
            \/ n = 4 /\ (k = 1 \/ k = 2 \/ k = 3 \/ k = 4)
            \/ n = 5 /\ k = 1
<1>1. n = 1 \/ n = 2 \/ n = 3 \/ n = 4 \/ n = 5
  BY Lengths
<1>2. /\ DOMAIN cxBasicMatch = 1..2 /\ DOMAIN cxPriorityFill = 1..3 /\ DOMAIN cxPartialFill = 1..3
      /\ DOMAIN cxCancel = 1..4 /\ DOMAIN cxRejectMarketNoLiquidity = 1..1
  BY DEF cxBasicMatch, cxPriorityFill, cxPartialFill, cxCancel, cxRejectMarketNoLiquidity
<1>3. /\ CorrectnessSequences[1] = cxBasicMatch /\ CorrectnessSequences[2] = cxPriorityFill
      /\ CorrectnessSequences[3] = cxPartialFill /\ CorrectnessSequences[4] = cxCancel
      /\ CorrectnessSequences[5] = cxRejectMarketNoLiquidity
  BY DEF CorrectnessSequences
<1>. QED
  BY <1>1, <1>2, <1>3, Lengths

\* A step is at a position of a sequence.
LEMMA StepsArePositions ==
  /\ \A n \in Sessions : \A k \in DOMAIN CorrectnessSequences[n] :
       CorrectnessSequences[n][k] \in Steps
  /\ \A m \in Steps : \E n \in Sessions : m \in ToSet(CorrectnessSequences[n])
  /\ \A n \in Sessions : \A m \in ToSet(CorrectnessSequences[n]) :
       \E k \in DOMAIN CorrectnessSequences[n] : m = CorrectnessSequences[n][k]
<1>1. \A n \in Sessions : \A m \in ToSet(CorrectnessSequences[n]) :
       \E k \in DOMAIN CorrectnessSequences[n] : m = CorrectnessSequences[n][k]
  BY DEF ToSet
<1>2. \A n \in Sessions : \A k \in DOMAIN CorrectnessSequences[n] :
       CorrectnessSequences[n][k] \in ToSet(CorrectnessSequences[n])
  BY DEF ToSet
<1>. QED
  BY <1>1, <1>2 DEF Steps

\* A step is an order the engine accepts, or a cancel.
LEMMA StepShape ==
  ASSUME NEW m \in Steps
  PROVE  /\ m.tag \in OrderIds /\ m.act \in {"order", "cancel"}
         /\ m.side \in {"buy", "sell"} /\ m.kind \in {"limit", "market"}
         /\ m.price \in Nat /\ m.qty \in Nat
         /\ m.act = "order" =>
              /\ m.qty \in Quantities
              /\ m.kind = "limit" => m.price \in Prices /\ ~m.reject
              /\ m.kind = "market" => m.price = 0 /\ m.reject
<1>1. PICK n \in Sessions : \E k \in DOMAIN CorrectnessSequences[n] : m = CorrectnessSequences[n][k]
  BY StepsArePositions
<1>2. PICK k \in DOMAIN CorrectnessSequences[n] : m = CorrectnessSequences[n][k]
  BY <1>1
<1> DEFINE Shape(step) ==
     /\ step.act \in {"order", "cancel"}
     /\ step.side \in {"buy", "sell"} /\ step.kind \in {"limit", "market"}
     /\ step.price \in Nat /\ step.qty \in Nat
     /\ step.act = "order" =>
          /\ step.qty # 0
          /\ step.kind = "limit" => step.price # 0 /\ ~step.reject
          /\ step.kind = "market" => step.price = 0 /\ step.reject
<1>3. Shape(m)
  <2>1. Shape(CorrectnessSequences[1][1]) /\ Shape(CorrectnessSequences[1][2])
    BY BasicMatchSteps, FourPrices DEF StepIs
  <2>2. /\ Shape(CorrectnessSequences[2][1]) /\ Shape(CorrectnessSequences[2][2])
        /\ Shape(CorrectnessSequences[2][3])
    BY PriorityFillSteps, FourPrices DEF StepIs
  <2>3. /\ Shape(CorrectnessSequences[3][1]) /\ Shape(CorrectnessSequences[3][2])
        /\ Shape(CorrectnessSequences[3][3])
    BY PartialFillSteps, FourPrices DEF StepIs
  <2>4. /\ Shape(CorrectnessSequences[4][1]) /\ Shape(CorrectnessSequences[4][2])
        /\ Shape(CorrectnessSequences[4][3]) /\ Shape(CorrectnessSequences[4][4])
    BY CancelSteps, FourPrices DEF StepIs
  <2>5. Shape(CorrectnessSequences[5][1])
    BY RejectSteps DEF StepIs
  <2> HIDE DEF Shape
  <2>. QED
    BY <1>2, <2>1, <2>2, <2>3, <2>4, <2>5, Positions
<1>4. m.tag \in OrderIds /\ (m.price # 0 => m.price \in Prices) /\ (m.qty # 0 => m.qty \in Quantities)
  BY DEF OrderIds, Prices, Quantities
<1>. QED
  BY <1>3, <1>4

\* The engine's constants are as OrderBook assumes.
LEMMA EngineConstants ==
  /\ NoSession \notin Sessions
  /\ Prices \subseteq Nat \ {0} /\ Quantities \subseteq Nat \ {0}
  /\ MaxOrders \in Nat
<1>1. Prices \subseteq Nat \ {0} /\ Quantities \subseteq Nat \ {0}
  <2>1. \A m \in Steps : m.price \in Nat /\ m.qty \in Nat
    BY StepShape
  <2>. QED
    BY <2>1 DEF Prices, Quantities
<1>2. Cardinality(1..5) = 5
  <2>1. 1 \in Int /\ 5 \in Int /\ (IF 1 > 5 THEN 0 ELSE 5 - 1 + 1) = 5
    OBVIOUS
  <2>2. Cardinality(1..5) = IF 1 > 5 THEN 0 ELSE 5 - 1 + 1
    BY <2>1, FS_Interval, Zenon
  <2>. QED
    BY <2>1, <2>2
<1>3. MaxOrders = 20
  BY <1>2, Lengths DEF MaxOrders
<1>. QED
  BY <1>1, <1>3, SessionAssumption

-----------------------------------------------------------------------------
(* Engine and Book are the same order book.                                 *)

\* Its steps are those the lemmas of OrderBook are about.
LEMMA EngineIsBook ==
  ASSUME NEW s
  PROVE  /\ \A id, side, kind, price, qty :
              Engine!PlaceOrder(s, id, side, kind, price, qty)
                <=> Book!PlaceOrder(s, id, side, kind, price, qty)
         /\ \A id : Engine!HandleCancel(s, id) <=> Book!HandleCancel(s, id)
         /\ Engine!MatchOne(s) <=> Book!MatchOne(s)
         /\ Engine!Finish(s) <=> Book!Finish(s)
         /\ Engine!Connect(s) <=> Book!Connect(s)
         /\ Engine!ReadFails(s) <=> Book!ReadFails(s)
         /\ Engine!CancelSession(s) <=> Book!CancelSession(s)
  BY DEF Engine!PlaceOrder, Book!PlaceOrder, Engine!HandleCancel, Book!HandleCancel,
     Engine!MatchOne, Book!MatchOne, Engine!Finish, Book!Finish, Engine!Connect, Book!Connect,
     Engine!ReadFails, Book!ReadFails, Engine!CancelSession, Book!CancelSession,
     Engine!Resting, Book!Resting, Engine!Remove, Book!Remove, Engine!Cur, Book!Cur,
     Engine!Buying, Book!Buying, Engine!BestOpposite, Book!BestOpposite,
     Engine!BestAsk, Book!BestAsk, Engine!BestBid, Book!BestBid, Engine!AskLess, Book!AskLess,
     Engine!BidLess, Book!BidLess, Engine!PriceMeets, Book!PriceMeets,
     Engine!CanMatch, Book!CanMatch, Engine!MatchedQty, Book!MatchedQty,
     Engine!AfterFill, Book!AfterFill, Engine!NothingShown, Book!NothingShown,
     Engine!OwnedBy, Book!OwnedBy

\* So are its best orders.
LEMMA EngineBestIsBooks ==
  /\ Engine!BestOpposite = Book!BestOpposite /\ Engine!MatchedQty = Book!MatchedQty
  /\ (Engine!CanMatch <=> Book!CanMatch)
  BY DEF Engine!Cur, Book!Cur,
     Engine!Buying, Book!Buying, Engine!BestOpposite, Book!BestOpposite,
     Engine!BestAsk, Book!BestAsk, Engine!BestBid, Book!BestBid, Engine!AskLess, Book!AskLess,
     Engine!BidLess, Book!BidLess, Engine!PriceMeets, Book!PriceMeets,
     Engine!CanMatch, Book!CanMatch, Engine!MatchedQty, Book!MatchedQty

\* So are its beginning, its types and its variables.
LEMMA EngineStateIsBooks ==
  /\ (Engine!Init <=> Book!Init) /\ (Engine!TypeOK <=> Book!TypeOK)
  /\ Engine!vars = Book!vars
  BY DEF Engine!Init, Book!Init, Engine!TypeOK, Book!TypeOK, Engine!vars, Book!vars,
     Engine!Order, Book!Order, Engine!Entered, Book!Entered, Engine!NothingShown,
     Book!NothingShown

-----------------------------------------------------------------------------
(* The engine's steps, as they show on the shelf.                           *)

InBook == bids \cup asks
Newest == made[Len(made)]

\* What is in the book, field by field.
LEMMA BookOrders ==
  ASSUME Book!IInv
  PROVE  /\ made \in Seq(Book!Order) /\ Len(made) \in Nat
         /\ \A n \in 1..Len(made) :
              /\ made[n].id \in OrderIds /\ made[n].owner \in Sessions
              /\ made[n].side \in {"buy", "sell"} /\ made[n].kind \in {"limit", "market"}
              /\ made[n].price \in Nat /\ made[n].rem \in Nat
         /\ \A n \in InBook :
              /\ n \in 1..Len(made) /\ made[n].rem > 0 /\ made[n].kind = "limit"
              /\ n \in bids <=> made[n].side = "buy"
              /\ n \in asks <=> made[n].side = "sell"
         /\ \A m, n \in InBook : made[m].id = made[n].id => m = n
<1>1. made \in Seq(Book!Order) /\ Len(made) \in Nat
  BY DEF Book!IInv, Book!TypeOK
<1>2. ASSUME NEW n \in 1..Len(made)
      PROVE  /\ made[n].id \in OrderIds /\ made[n].owner \in Sessions
             /\ made[n].side \in {"buy", "sell"} /\ made[n].kind \in {"limit", "market"}
             /\ made[n].price \in Nat /\ made[n].rem \in Nat
  <2>1. made[n] \in Book!Order
    BY <1>1
  <2>2. /\ made[n].id \in OrderIds /\ made[n].owner \in Sessions /\ made[n].rem \in Nat
        /\ made[n].side \in {"buy", "sell"} /\ made[n].kind \in {"limit", "market"}
        /\ made[n].price \in Prices \cup {0}
    BY <2>1 DEF Book!Order
  <2>3. Prices \cup {0} \subseteq Nat
    BY EngineConstants
  <2>4. made[n].price \in Nat
    BY <2>2, <2>3
  <2>. QED
    BY <2>2, <2>4
<1>3. InBook \subseteq 1..Len(made)
  BY Book!BookPositions, EngineConstants DEF InBook, Book!InBook
<1>4. ASSUME NEW n \in InBook
      PROVE  /\ made[n].rem > 0 /\ made[n].kind = "limit"
             /\ n \in bids <=> made[n].side = "buy"
             /\ n \in asks <=> made[n].side = "sell"
  BY DEF Book!IInv, Book!BookConsistent, Book!Unfilled, InBook, Book!InBook
<1>5. \A m, n \in InBook : made[m].id = made[n].id => m = n
  <2>1. \A n \in InBook : orders[made[n].id] = n
    BY Book!BookPositions, EngineConstants DEF InBook, Book!InBook
  <2>. QED
    BY <2>1
<1>. QED
  BY <1>1, <1>2, <1>3, <1>4, <1>5

\* Two orders on the shelf differ in their tags.
LEMMA ShelfOrders ==
  ASSUME Book!IInv
  PROVE  /\ Shelf = {CardOf(n) : n \in InBook}
         /\ \A n \in InBook : CardOf(n) \in Shelf
         /\ \A c \in Shelf : \E n \in InBook : c = CardOf(n)
         /\ \A m, n \in InBook : CardOf(m).tag = CardOf(n).tag => m = n
         /\ \A n : /\ CardOf(n).tag = made[n].id /\ CardOf(n).side = made[n].side
                   /\ CardOf(n).price = made[n].price /\ CardOf(n).rem = made[n].rem
<1>1. \A n : /\ CardOf(n).tag = made[n].id /\ CardOf(n).side = made[n].side
             /\ CardOf(n).price = made[n].price /\ CardOf(n).rem = made[n].rem
  BY DEF CardOf, Card
<1>2. Shelf = {CardOf(n) : n \in InBook}
  BY DEF Shelf, InBook
<1>3. \A m, n \in InBook : CardOf(m).tag = CardOf(n).tag => m = n
  BY <1>1, BookOrders
<1>. QED
  BY <1>1, <1>2, <1>3

\* The best order of the other side is on the shelf, and none there is better.
LEMMA BestOnShelf ==
  ASSUME Book!IInv, Book!CanMatch
  PROVE  /\ Book!BestOpposite \in InBook
         /\ made[Book!BestOpposite].side # Newest.side /\ Newest.rem > 0
         /\ \A c \in Shelf : c.side # Newest.side =>
              IF Newest.side = "buy" THEN made[Book!BestOpposite].price <= c.price
              ELSE c.price <= made[Book!BestOpposite].price
<1>1. Book!TypeOK /\ Newest.rem > 0 /\ (IF Book!Buying THEN asks ELSE bids) # {}
  BY DEF Book!IInv, Book!CanMatch, Newest, Book!Cur
<1>2. Book!Buying <=> Newest.side = "buy"
  BY DEF Book!Buying, Newest, Book!Cur
<1>3. \A c \in Shelf : \E n \in InBook : c.side = made[n].side /\ c.price = made[n].price
  BY ShelfOrders
<1>4. CASE Book!Buying
  <2>1. /\ Book!BestOpposite \in asks
        /\ \A n \in asks : made[Book!BestOpposite].price <= made[n].price
    BY <1>1, <1>4, Book!BestAskIsFirst, EngineConstants DEF Book!BestOpposite
  <2>2. \A n \in InBook : made[n].side # "buy" => n \in asks
    BY BookOrders DEF InBook
  <2>. QED
    BY <1>1, <1>2, <1>3, <1>4, <2>1, <2>2, BookOrders DEF InBook
<1>5. CASE ~Book!Buying
  <2>1. /\ Book!BestOpposite \in bids
        /\ \A n \in bids : made[n].price <= made[Book!BestOpposite].price
    BY <1>1, <1>5, Book!BestBidIsFirst, EngineConstants DEF Book!BestOpposite
  <2>2. Newest.side # "buy" /\ Len(made) \in Nat
    BY <1>2, <1>5, BookOrders
  <2>3. Newest.side = "sell" \/ Len(made) = 0
    <3>1. Len(made) # 0 => Len(made) \in 1..Len(made)
      BY <2>2
    <3>. QED
      BY <2>2, <3>1, BookOrders DEF Newest
  <2>4. Len(made) # 0
    BY <2>1, BookOrders DEF InBook
  <2>5. \A n \in InBook : made[n].side # "sell" => n \in bids
    BY BookOrders DEF InBook
  <2>6. made[Book!BestOpposite].side = "buy"
    BY <2>1, BookOrders DEF InBook
  <2>. QED
    BY <1>1, <1>3, <2>1, <2>2, <2>3, <2>4, <2>5, <2>6 DEF InBook
<1>. QED
  BY <1>4, <1>5

\* When the loop is over, nothing on the shelf meets what is left of the order.
LEMMA NothingMeets ==
  ASSUME Book!IInv, ~Book!CanMatch, Len(made) > 0, Newest.rem > 0
  PROVE  \A c \in Shelf : c.side # Newest.side =>
           /\ Newest.kind # "market"
           /\ IF Newest.side = "buy" THEN Newest.price < c.price ELSE c.price < Newest.price
<1>1. Book!Buying <=> Newest.side = "buy"
  BY DEF Book!Buying, Newest, Book!Cur
<1>2. Len(made) \in 1..Len(made)
  BY BookOrders
<1>3. Newest.price \in Nat /\ Newest.side \in {"buy", "sell"}
  BY <1>2, BookOrders DEF Newest
<1> SUFFICES ASSUME NEW n \in InBook, made[n].side # Newest.side
             PROVE  /\ Newest.kind # "market"
                    /\ IF Newest.side = "buy" THEN Newest.price < made[n].price
                       ELSE made[n].price < Newest.price
  BY ShelfOrders
<1>4. made[n].price \in Nat /\ n \in 1..Len(made)
  BY BookOrders
<1>5. CASE Book!Buying
  <2>1. n \in asks
    BY <1>1, <1>5, BookOrders DEF InBook
  <2>2. Book!BestAsk \in asks /\ made[Book!BestAsk].price <= made[n].price
    BY <2>1, Book!BestAskIsFirst, EngineConstants DEF Book!IInv
  <2>3. made[Book!BestAsk].price \in Nat
    BY <2>2, BookOrders DEF InBook
  <2>4. Newest.kind # "market" /\ ~(Newest.price >= made[Book!BestAsk].price)
    BY <1>5, <2>1 DEF Book!CanMatch, Book!BestOpposite, Book!PriceMeets, Newest, Book!Cur
  <2>. QED
    BY <1>1, <1>3, <1>4, <1>5, <2>2, <2>3, <2>4
<1>6. CASE ~Book!Buying
  <2>1. n \in bids
    BY <1>1, <1>3, <1>6, BookOrders DEF InBook
  <2>2. Book!BestBid \in bids /\ made[n].price <= made[Book!BestBid].price
    BY <2>1, Book!BestBidIsFirst, EngineConstants DEF Book!IInv
  <2>3. made[Book!BestBid].price \in Nat
    BY <2>2, BookOrders DEF InBook
  <2>4. Newest.kind # "market" /\ ~(Newest.price <= made[Book!BestBid].price)
    BY <1>6, <2>1 DEF Book!CanMatch, Book!BestOpposite, Book!PriceMeets, Newest, Book!Cur
  <2>. QED
    BY <1>1, <1>3, <1>4, <1>6, <2>2, <2>3, <2>4
<1>. QED
  BY <1>5, <1>6

\* A new order is in no structure yet.
LEMMA PlaceEffect ==
  ASSUME Book!IInv, NEW s \in Sessions, NEW m \in Steps, m.act = "order",
         Engine!PlaceOrder(s, m.tag, m.side, m.kind, m.price, m.qty)
  PROVE  /\ Book!IInv' /\ [Engine!Next]_(Engine!vars)
         /\ session[s] = "reading" /\ mu = NoSession /\ mu' = s /\ session' = session
         /\ Len(made') = Len(made) + 1 /\ \A n \in 1..Len(made) : made'[n] = made[n]
         /\ made'[Len(made')].id = m.tag /\ made'[Len(made')].side = m.side
         /\ made'[Len(made')].kind = m.kind /\ made'[Len(made')].price = m.price
         /\ made'[Len(made')].rem = m.qty /\ made'[Len(made')].owner = s
         /\ bids' = bids /\ asks' = asks /\ Shelf' = Shelf
<1>1. /\ m.tag \in OrderIds /\ m.side \in {"buy", "sell"} /\ m.kind \in {"limit", "market"}
      /\ m.price \in Prices \cup {0} /\ m.qty \in Quantities
      /\ m.kind = "limit" => m.price \in Prices
      /\ m.kind = "market" => m.price = 0
  BY StepShape
<1>2. Book!PlaceOrder(s, m.tag, m.side, m.kind, m.price, m.qty)
  BY EngineIsBook
<1>3. Book!IInv'
  <2>1. PICK id \in OrderIds, side \in {"buy", "sell"}, kind \in {"limit", "market"},
             price \in Prices \cup {0}, qty \in Quantities :
          Book!PlaceOrder(s, id, side, kind, price, qty)
    BY <1>1, <1>2
  <2>. QED
    BY <2>1, Book!PlaceOrderStep, EngineConstants
<1> DEFINE o == [id |-> m.tag, side |-> m.side, kind |-> m.kind, price |-> m.price,
                 qty |-> m.qty, rem |-> m.qty, owner |-> s]
<1>4. /\ session[s] = "reading" /\ mu = NoSession /\ mu' = s /\ made' = Append(made, o)
      /\ session' = session /\ bids' = bids /\ asks' = asks
  BY <1>2 DEF Book!PlaceOrder
<1>5. /\ o.id = m.tag /\ o.side = m.side /\ o.kind = m.kind /\ o.price = m.price
      /\ o.rem = m.qty /\ o.owner = s
  OBVIOUS
<1> HIDE DEF o
<1>6. made \in Seq(Book!Order) /\ Len(made) \in Nat /\ \A n \in InBook : n \in 1..Len(made)
  BY BookOrders
<1>7. /\ Len(made') = Len(made) + 1 /\ made'[Len(made')] = o
      /\ \A n \in 1..Len(made) : made'[n] = made[n]
  BY <1>4, <1>6
<1>8. Shelf' = Shelf
  <2>1. \A n \in bids \cup asks : CardOf(n)' = CardOf(n)
    BY <1>6, <1>7 DEF CardOf, InBook
  <2>. QED
    BY <1>4, <2>1 DEF Shelf
<1>9. Engine!Next
  <2>1. \/ \E price \in Prices : Engine!PlaceOrder(s, m.tag, m.side, "limit", price, m.qty)
        \/ Engine!PlaceOrder(s, m.tag, m.side, "market", 0, m.qty)
    BY <1>1
  <2>. QED
    BY <1>1, <2>1 DEF Engine!Next
<1>. QED
  BY <1>3, <1>4, <1>5, <1>7, <1>8, <1>9

\* A turn of the loop takes from the best card, and drops it if it took all.
LEMMA MatchEffect ==
  ASSUME Book!IInv, NEW s \in Sessions, Engine!MatchOne(s)
  PROVE  LET b == Engine!BestOpposite
             q == Engine!MatchedQty
         IN  /\ Book!IInv' /\ [Engine!Next]_(Engine!vars)
             /\ mu = s /\ mu' = mu /\ session' = session
             /\ Len(made') = Len(made) /\ Len(made) \in 1..Len(made)
             /\ \A n \in 1..Len(made) :
                  /\ made'[n].id = made[n].id /\ made'[n].side = made[n].side
                  /\ made'[n].kind = made[n].kind /\ made'[n].price = made[n].price
                  /\ made'[n].owner = made[n].owner
             /\ InBook' \subseteq InBook
             /\ b \in InBook /\ made[b].side # Newest.side /\ Newest.rem > 0
             /\ \A c \in Shelf : c.side # Newest.side =>
                  IF Newest.side = "buy" THEN made[b].price <= c.price ELSE c.price <= made[b].price
             /\ q = IF Newest.rem < made[b].rem THEN Newest.rem ELSE made[b].rem
             /\ made'[Len(made)].rem = Newest.rem - q
             /\ Shelf' = (Shelf \ {CardOf(b)}) \cup
                  IF made[b].rem = q THEN {}
                  ELSE {Card(made[b].id, made[b].side, made[b].price, made[b].rem - q)}
<1>0. PICK b, q : b = Book!BestOpposite /\ q = Book!MatchedQty
  OBVIOUS
<1>1. Engine!BestOpposite = b /\ Engine!MatchedQty = q /\ Book!MatchOne(s)
  BY <1>0, EngineIsBook, EngineBestIsBooks
<1>2. Book!IInv'
  BY <1>1, Book!MatchOneStep, EngineConstants
<1>3. /\ mu = s /\ mu' = mu /\ session' = session /\ Book!CanMatch
      /\ \/ made[b].rem = q /\ Book!Remove({b})
         \/ made[b].rem # q /\ UNCHANGED <<orders, bids, asks>>
  BY <1>0, <1>1 DEF Book!MatchOne
<1>4. /\ b \in InBook /\ made[b].side # Newest.side /\ Newest.rem > 0
      /\ \A c \in Shelf : c.side # Newest.side =>
           IF Newest.side = "buy" THEN made[b].price <= c.price ELSE c.price <= made[b].price
  BY <1>0, <1>3, BestOnShelf
<1>5. q = IF Newest.rem < made[b].rem THEN Newest.rem ELSE made[b].rem
  BY <1>0 DEF Book!MatchedQty, Newest, Book!Cur
<1>6. /\ b # Len(made) /\ Len(made) \in 1..Len(made) /\ Len(made') = Len(made)
      /\ \A n \in 1..Len(made) : Book!Same(n)
      /\ \A n \in 1..Len(made) : n # Len(made) /\ n # b => made'[n].rem = made[n].rem
      /\ made'[b].rem = made[b].rem - q /\ made'[Len(made)].rem = made[Len(made)].rem - q
  BY <1>0, <1>1, Book!FillEffect, EngineConstants DEF Book!Cur
<1>7. \A n \in 1..Len(made) :
         /\ made'[n].id = made[n].id /\ made'[n].side = made[n].side
         /\ made'[n].kind = made[n].kind /\ made'[n].price = made[n].price
         /\ made'[n].owner = made[n].owner
  BY <1>6 DEF Book!Same
<1>8. InBook' = IF made[b].rem = q THEN InBook \ {b} ELSE InBook
  <2>1. Book!Remove({b}) => InBook' = InBook \ {b}
    BY DEF Book!Remove, InBook
  <2>. QED
    BY <1>3, <2>1 DEF InBook
<1>9. Len(made) \notin InBook
  BY <1>3, EngineConstants DEF Book!IInv, Book!Locked, Book!InBook, InBook, Book!Cur
<1>10. \A n \in InBook : n # b => CardOf(n)' = CardOf(n)
  BY <1>6, <1>7, <1>9, BookOrders DEF CardOf
<1>11. CardOf(b)' = Card(made[b].id, made[b].side, made[b].price, made[b].rem - q)
  <2>1. b \in 1..Len(made)
    BY <1>4, BookOrders
  <2>. QED
    BY <1>6, <1>7, <2>1 DEF CardOf
<1>12. Shelf' = (Shelf \ {CardOf(b)}) \cup
         IF made[b].rem = q THEN {}
         ELSE {Card(made[b].id, made[b].side, made[b].price, made[b].rem - q)}
  <2>1. /\ Shelf' = {CardOf(n)' : n \in InBook'}
        /\ Shelf = {CardOf(n) : n \in InBook}
        /\ \A n \in InBook : CardOf(n) = CardOf(b) => n = b
    <3>1. \A n \in InBook : CardOf(n).tag = CardOf(b).tag => n = b
      BY <1>4, ShelfOrders
    <3>. QED
      BY <3>1 DEF Shelf, InBook
  <2> DEFINE now == Card(made[b].id, made[b].side, made[b].price, made[b].rem - q)
  <2>2. CASE made[b].rem = q
    <3>1. Shelf' = {CardOf(n) : n \in InBook \ {b}}
      BY <1>8, <1>10, <2>1, <2>2
    <3>. QED
      BY <1>4, <2>1, <2>2, <3>1
  <2>3. CASE made[b].rem # q
    <3> HIDE DEF now
    <3>1. /\ \A n \in InBook : n # b => CardOf(n)' \in Shelf \ {CardOf(b)}
          /\ \A c \in Shelf \ {CardOf(b)} : \E n \in InBook : n # b /\ c = CardOf(n)'
      BY <1>10, <2>1
    <3>2. Shelf' = {CardOf(n)' : n \in InBook} /\ CardOf(b)' = now
      BY <1>8, <1>11, <2>1, <2>3 DEF now
    <3>3. Shelf' = (Shelf \ {CardOf(b)}) \cup {now}
      BY <1>4, <3>1, <3>2
    <3>. QED
      BY <2>3, <3>3 DEF now
  <2>. QED
    BY <2>2, <2>3
<1>13. Engine!Next
  BY DEF Engine!Next
<1>. QED
  BY <1>1, <1>2, <1>3, <1>4, <1>5, <1>6, <1>7, <1>8, <1>12, <1>13 DEF Newest

\* At the end of the loop what is left of a limit order goes on the shelf.
LEMMA FinishEffect ==
  ASSUME Book!IInv, NEW s \in Sessions, Engine!Finish(s)
  PROVE  /\ Book!IInv' /\ [Engine!Next]_(Engine!vars)
         /\ mu = s /\ mu' = NoSession /\ s # NoSession /\ made' = made /\ session' = session
         /\ Len(made) \in 1..Len(made) /\ Newest.owner = s
         /\ InBook' \subseteq InBook \cup {Len(made)}
         /\ Newest.rem > 0 => \A c \in Shelf : c.side # Newest.side =>
              /\ Newest.kind # "market"
              /\ IF Newest.side = "buy" THEN Newest.price < c.price ELSE c.price < Newest.price
         /\ Shelf' = Shelf \cup
              IF Newest.kind = "limit" /\ Newest.rem > 0 THEN {CardOf(Len(made))} ELSE {}
<1>1. Book!Finish(s)
  BY EngineIsBook
<1>2. Book!IInv'
  BY <1>1, Book!FinishStep, EngineConstants
<1>3. mu = s /\ ~Book!CanMatch /\ mu' = NoSession /\ made' = made /\ session' = session
  BY <1>1 DEF Book!Finish
<1>4. s # NoSession
  BY EngineConstants
<1>5. Len(made) > 0 /\ Newest.owner = s
  BY <1>3, <1>4 DEF Book!IInv, Book!Locked, Book!Cur, Newest
<1>6. Len(made) \in 1..Len(made)
  BY <1>5, BookOrders
<1>7. InBook' = InBook \cup IF Newest.kind = "limit" /\ Newest.rem > 0 THEN {Len(made)} ELSE {}
  <2>1. CASE Newest.kind = "limit" /\ Newest.rem > 0
    BY <1>1, <2>1 DEF Book!Finish, InBook, Newest, Book!Cur
  <2>2. CASE ~(Newest.kind = "limit" /\ Newest.rem > 0)
    BY <1>1, <2>2 DEF Book!Finish, InBook, Newest, Book!Cur
  <2>. QED
    BY <2>1, <2>2
<1>8. \A n : CardOf(n)' = CardOf(n)
  BY <1>3 DEF CardOf
<1>9. Shelf' = Shelf \cup
              IF Newest.kind = "limit" /\ Newest.rem > 0 THEN {CardOf(Len(made))} ELSE {}
  <2>1. Shelf' = {CardOf(n) : n \in InBook'} /\ Shelf = {CardOf(n) : n \in InBook}
    BY <1>8 DEF Shelf, InBook
  <2>. QED
    BY <1>7, <2>1
<1>10. Engine!Next
  BY DEF Engine!Next
<1>. QED
  BY <1>2, <1>3, <1>4, <1>5, <1>6, <1>7, <1>9, <1>10, NothingMeets

\* A removal takes cards off the shelf.
LEMMA RemoveEffect ==
  ASSUME Book!IInv, NEW gone, Book!Remove(gone), made' = made
  PROVE  /\ InBook' = InBook \ gone
         /\ Shelf' = {CardOf(n) : n \in InBook \ gone}
<1>1. InBook' = InBook \ gone
  BY DEF Book!Remove, InBook
<1>2. \A n : CardOf(n)' = CardOf(n)
  BY DEF CardOf
<1>. QED
  BY <1>1, <1>2 DEF Shelf, InBook

\* A cancel takes the card with its tag.
LEMMA CancelEffect ==
  ASSUME Book!IInv, NEW s \in Sessions, NEW id \in OrderIds, Engine!HandleCancel(s, id)
  PROVE  /\ Book!IInv' /\ [Engine!Next]_(Engine!vars)
         /\ session[s] = "reading" /\ mu = NoSession /\ mu' = mu /\ session' = session
         /\ made' = made /\ InBook' \subseteq InBook
         /\ Shelf' = {c \in Shelf : c.tag # id}
<1>1. Book!HandleCancel(s, id)
  BY EngineIsBook
<1>2. Book!IInv'
  BY <1>1, Book!HandleCancelStep, EngineConstants
<1>3. /\ session[s] = "reading" /\ mu = NoSession /\ mu' = mu /\ session' = session
      /\ made' = made /\ id \in DOMAIN orders /\ Book!Remove({orders[id]})
  BY <1>1 DEF Book!HandleCancel
<1>4. InBook' = InBook \ {orders[id]} /\ Shelf' = {CardOf(n) : n \in InBook \ {orders[id]}}
  BY <1>3, RemoveEffect
<1>5. orders[id] \in InBook /\ made[orders[id]].id = id
  <2>1. orders[id] \in InBook
    BY <1>3, Book!BookPositions, EngineConstants DEF InBook, Book!InBook
  <2>2. made[orders[id]].id = id
    BY <1>3 DEF Book!IInv, Book!BookConsistent
  <2>. QED
    BY <2>1, <2>2
<1>6. \A n \in InBook : CardOf(n).tag = id <=> n = orders[id]
  BY <1>5, ShelfOrders
<1>7. Shelf' = {c \in Shelf : c.tag # id}
  BY <1>4, <1>6, ShelfOrders
<1>8. Engine!Next
  BY DEF Engine!Next
<1>. QED
  BY <1>2, <1>3, <1>4, <1>7, <1>8

\* A session that fails or ends takes off the shelf what it owns, if anything.
LEMMA EndEffect ==
  ASSUME Book!IInv, NEW s \in Sessions, Engine!ReadFails(s) \/ Engine!CancelSession(s)
  PROVE  /\ Book!IInv' /\ [Engine!Next]_(Engine!vars)
         /\ mu # s /\ mu' = mu /\ made' = made /\ InBook' \subseteq InBook
         /\ session[s] # "closed"
         /\ \A e \in Sessions : e # s => session'[e] = session[e]
         /\ \A e \in Sessions : session'[e] # "closed" => session[e] # "closed"
         /\ (\A n \in InBook : made[n].owner # s) => Shelf' = Shelf
<1>1. \/ Book!ReadFails(s)
      \/ Book!CancelSession(s)
  BY EngineIsBook
<1>2. session \in [Sessions -> {"closed", "reading", "closing"}]
  BY DEF Book!IInv, Book!TypeOK
<1>3. Engine!Next
  BY DEF Engine!Next
<1>4. \A n : made' = made => CardOf(n)' = CardOf(n)
  BY DEF CardOf
<1>5. CASE Book!ReadFails(s)
  <2>1. Book!IInv'
    BY <1>5, Book!SessionStep, EngineConstants
  <2>2. /\ session[s] = "reading" /\ mu # s /\ session' = [session EXCEPT ![s] = "closing"]
        /\ mu' = mu /\ made' = made /\ bids' = bids /\ asks' = asks
    BY <1>5 DEF Book!ReadFails
  <2>3. Shelf' = Shelf /\ InBook' = InBook
    BY <1>4, <2>2 DEF Shelf, InBook
  <2>. QED
    BY <1>2, <1>3, <2>1, <2>2, <2>3
<1>6. CASE Book!CancelSession(s)
  <2>1. Book!IInv'
    BY <1>6, Book!CancelSessionStep, EngineConstants
  <2>2. /\ session[s] = "closing" /\ mu = NoSession /\ session' = [session EXCEPT ![s] = "closed"]
        /\ mu' = mu /\ made' = made /\ Book!Remove(Book!OwnedBy(s))
    BY <1>6 DEF Book!CancelSession
  <2>3. InBook' = InBook \ Book!OwnedBy(s) /\ Shelf' = {CardOf(n) : n \in InBook \ Book!OwnedBy(s)}
    BY <2>2, RemoveEffect
  <2>4. (\A n \in InBook : made[n].owner # s) => Shelf' = Shelf
    <3>1. \A n \in Book!OwnedBy(s) : made[n].owner = s
      BY DEF Book!OwnedBy
    <3>. QED
      BY <2>3, <3>1 DEF Shelf, InBook
  <2>5. mu # s
    BY <2>2, EngineConstants
  <2>. QED
    BY <1>2, <1>3, <2>1, <2>2, <2>3, <2>4, <2>5
<1>. QED
  BY <1>1, <1>5, <1>6

\* A new session has nothing yet.
LEMMA ConnectEffect ==
  ASSUME Book!IInv, NEW s \in Sessions, Engine!Connect(s)
  PROVE  /\ Book!IInv' /\ [Engine!Next]_(Engine!vars)
         /\ session[s] = "closed" /\ session' = [session EXCEPT ![s] = "reading"]
         /\ mu' = mu /\ made' = made /\ bids' = bids /\ asks' = asks /\ Shelf' = Shelf
<1>1. Book!Connect(s)
  BY EngineIsBook
<1>2. Book!IInv'
  BY <1>1, Book!SessionStep, EngineConstants
<1>3. /\ session[s] = "closed" /\ session' = [session EXCEPT ![s] = "reading"]
      /\ mu' = mu /\ made' = made /\ bids' = bids /\ asks' = asks
  BY <1>1 DEF Book!Connect
<1>4. Shelf' = Shelf
  <2>1. \A n : CardOf(n)' = CardOf(n)
    BY <1>3 DEF CardOf
  <2>. QED
    BY <1>3, <2>1 DEF Shelf
<1>5. Engine!Next
  BY DEF Engine!Next
<1>. QED
  BY <1>2, <1>3, <1>4, <1>5

-----------------------------------------------------------------------------
(* The steps of the engine's side of a connection.                          *)

\* What comes of a message that is read.
Reads(s) ==
  /\ wire[s] # << >> /\ session[s] = "reading" /\ mu = NoSession
  /\ wire' = [wire EXCEPT ![s] = Tail(@)]
  /\ UNCHANGED <<open, bot>>
Places(s) ==
  /\ Reads(s) /\ Head(wire[s]).act = "order"
  /\ Engine!PlaceOrder(s, Head(wire[s]).tag, Head(wire[s]).side, Head(wire[s]).kind,
                       Head(wire[s]).price, Head(wire[s]).qty)
  /\ says' = <<Ack>> /\ inbox' = inbox
Cancels(s) ==
  /\ Reads(s) /\ Head(wire[s]).act = "cancel"
  /\ Engine!HandleCancel(s, Head(wire[s]).tag)
  /\ inbox' = [inbox EXCEPT ![s] = @ \o <<Msg("cancel_ack", 0, 0)>>] /\ says' = says
Refuses(s) ==
  /\ Reads(s)
  /\ Head(wire[s]).act = "cancel" =>
       (Head(wire[s]).tag \in DOMAIN orders => made[orders[Head(wire[s]).tag]].owner # s)
  /\ Head(wire[s]).act = "order" => Head(wire[s]).tag \in DOMAIN orders
  /\ inbox' = [inbox EXCEPT ![s] = @ \o Rejected] /\ UNCHANGED engine

\* A message is accepted or refused.
LEMMA ReadsCases ==
  ASSUME NEW s, EngineReads(s)
  PROVE  Places(s) \/ Cancels(s) \/ Refuses(s)
<1>1. Reads(s)
  BY DEF EngineReads, Reads
<1>2. \/ /\ Head(wire[s]).act = "order"
         /\ Engine!PlaceOrder(s, Head(wire[s]).tag, Head(wire[s]).side, Head(wire[s]).kind,
                              Head(wire[s]).price, Head(wire[s]).qty)
         /\ says' = <<Ack>> /\ inbox' = inbox
      \/ /\ Head(wire[s]).act = "cancel" /\ Engine!HandleCancel(s, Head(wire[s]).tag)
         /\ inbox' = [inbox EXCEPT ![s] = @ \o <<Msg("cancel_ack", 0, 0)>>] /\ says' = says
      \/ /\ IF Head(wire[s]).act = "order" THEN Head(wire[s]).tag \in DOMAIN orders
            ELSE Head(wire[s]).tag \in DOMAIN orders => made[orders[Head(wire[s]).tag]].owner # s
         /\ inbox' = [inbox EXCEPT ![s] = @ \o Rejected] /\ UNCHANGED engine
  BY DEF EngineReads, Reply, Ack
<1>. QED
  BY <1>1, <1>2 DEF Places, Cancels, Refuses

\* An engine's step is one of six.
LEMMA EngineCases ==
  ASSUME NEW s, EngineStep(s)
  PROVE  Places(s) \/ Cancels(s) \/ Refuses(s) \/ EngineMatches(s) \/ EngineAnswers(s)
           \/ EngineEndsSession(s)
  BY ReadsCases DEF EngineStep

\* The messages are messages.
LEMMA Messages ==
  /\ Ack \in Message /\ Rejected \in Seq(Message) /\ Msg("cancel_ack", 0, 0) \in Message
  /\ \A p, q \in Nat : Fill(p, q) \in Message
  /\ Ack.type = "ack" /\ Msg("cancel_ack", 0, 0).type = "cancel_ack"
  /\ Len(Rejected) = 1 /\ Rejected[1] = Msg("reject", 0, 0) /\ Rejected[1].type = "reject"
  /\ \A p, q : Fill(p, q).type = "fill" /\ Fill(p, q).price = p /\ Fill(p, q).qty = q
<1>1. Ack \in Message /\ Msg("cancel_ack", 0, 0) \in Message /\ Msg("reject", 0, 0) \in Message
  BY DEF Ack, Msg, Message
<1>2. \A p, q \in Nat : Fill(p, q) \in Message
  BY DEF Fill, Msg, Message
<1>3. Rejected \in Seq(Message) /\ Len(Rejected) = 1 /\ Rejected[1] = Msg("reject", 0, 0)
  BY <1>1 DEF Rejected
<1>4. /\ Ack.type = "ack" /\ Msg("cancel_ack", 0, 0).type = "cancel_ack"
      /\ Msg("reject", 0, 0).type = "reject"
      /\ \A p, q : Fill(p, q).type = "fill" /\ Fill(p, q).price = p /\ Fill(p, q).qty = q
  BY DEF Ack, Msg, Fill
<1>. QED
  BY <1>1, <1>2, <1>3, <1>4

\* A step of the engine for s disturbs only what is of s.
Disturbs(s) ==
  /\ Book!IInv' /\ [Engine!Next]_(Engine!vars)
  /\ UNCHANGED <<open, bot>>
  /\ session[s] # "closed" /\ (s \in open /\ session[s] = "reading" => session'[s] = "reading")
  /\ \A e \in Sessions : e # s =>
       wire'[e] = wire[e] /\ inbox'[e] = inbox[e] /\ session'[e] = session[e]
  /\ wire' \in [Sessions -> Seq(Steps)] /\ inbox' \in [Sessions -> Seq(Message)]
  /\ says' \in Seq(Message)
  /\ \A i \in DOMAIN wire'[s] : \E j \in DOMAIN wire[s] : wire'[s][i] = wire[s][j]
  /\ wire[s] = << >> => wire'[s] = << >>
  /\ Len(made) <= Len(made') /\ Len(made') \in Nat
  /\ \A n \in 1..Len(made) :
       /\ made'[n].owner = made[n].owner /\ made'[n].side = made[n].side
       /\ made'[n].price = made[n].price
  /\ \A n \in 1..Len(made') : n > Len(made) =>
       /\ made'[n].owner = s
       /\ \E j \in DOMAIN wire[s] :
            made'[n].side = wire[s][j].side /\ made'[n].price = wire[s][j].price
  /\ mu' = mu \/ mu' = NoSession \/ (mu' = s /\ wire[s] # << >>)
  /\ \A n \in InBook' : n \in InBook \/ (mu = s /\ n \in 1..Len(made) /\ made[n].owner = s)

\* Reading a message shortens the wire.
LEMMA ReadsEffect ==
  ASSUME Typed, NEW s \in Sessions, Reads(s)
  PROVE  /\ Head(wire[s]) \in Steps /\ Head(wire[s]) = wire[s][1] /\ 1 \in DOMAIN wire[s]
         /\ wire' \in [Sessions -> Seq(Steps)]
         /\ wire'[s] = Tail(wire[s]) /\ \A e \in Sessions : e # s => wire'[e] = wire[e]
         /\ \A i \in DOMAIN wire'[s] : \E j \in DOMAIN wire[s] : wire'[s][i] = wire[s][j]
         /\ session[s] = "reading" /\ mu = NoSession /\ wire[s] # << >>
         /\ UNCHANGED <<open, bot>>
<1>1. wire \in [Sessions -> Seq(Steps)] /\ wire[s] \in Seq(Steps) /\ wire[s] # << >>
  BY DEF Typed, Reads
<1>2. Head(wire[s]) \in Steps /\ Head(wire[s]) = wire[s][1] /\ Tail(wire[s]) \in Seq(Steps)
      /\ 1 \in DOMAIN wire[s]
  BY <1>1
<1>3. wire' = [wire EXCEPT ![s] = Tail(wire[s])]
  BY DEF Reads
<1>4. \A i \in DOMAIN Tail(wire[s]) : i + 1 \in DOMAIN wire[s] /\ Tail(wire[s])[i] = wire[s][i + 1]
  BY <1>1
<1>5. wire'[s] = Tail(wire[s]) /\ \A e \in Sessions : e # s => wire'[e] = wire[e]
  BY <1>1, <1>3
<1>6. wire' \in [Sessions -> Seq(Steps)]
  BY <1>1, <1>2, <1>3
<1>. QED
  BY <1>1, <1>2, <1>4, <1>5, <1>6 DEF Reads

\* An answer goes to the session's connection.
LEMMA ReplyEffect ==
  ASSUME Typed, NEW s \in Sessions, NEW msgs \in Seq(Message),
         inbox' = [inbox EXCEPT ![s] = @ \o msgs]
  PROVE  /\ inbox' \in [Sessions -> Seq(Message)]
         /\ inbox'[s] = inbox[s] \o msgs /\ \A e \in Sessions : e # s => inbox'[e] = inbox[e]
         /\ Len(inbox'[s]) = Len(inbox[s]) + Len(msgs) /\ Len(inbox[s]) \in Nat /\ Len(msgs) \in Nat
         /\ DOMAIN inbox'[s] = 1..Len(inbox'[s]) /\ DOMAIN inbox[s] = 1..Len(inbox[s])
         /\ \A i \in DOMAIN inbox[s] : i \in DOMAIN inbox'[s] /\ inbox'[s][i] = inbox[s][i]
         /\ \A i \in DOMAIN inbox'[s] : i > Len(inbox[s]) =>
              i - Len(inbox[s]) \in 1..Len(msgs) /\ inbox'[s][i] = msgs[i - Len(inbox[s])]
<1>1. inbox \in [Sessions -> Seq(Message)] /\ inbox[s] \in Seq(Message)
  BY DEF Typed
<1>2. inbox[s] \o msgs \in Seq(Message)
  BY <1>1
<1>3. inbox'[s] = inbox[s] \o msgs /\ \A e \in Sessions : e # s => inbox'[e] = inbox[e]
  BY <1>1
<1>4. inbox' \in [Sessions -> Seq(Message)]
  BY <1>1, <1>2
<1>. QED
  BY <1>1, <1>2, <1>3, <1>4

\* A new order is of the session whose message is read.
LEMMA PlacesDisturbs ==
  ASSUME Book!IInv, Typed, NEW s \in Sessions, Places(s)
  PROVE  Disturbs(s)
<1>1. PICK m \in Steps : m = Head(wire[s])
  BY ReadsEffect DEF Places
<1>2. /\ m.act = "order" /\ Engine!PlaceOrder(s, m.tag, m.side, m.kind, m.price, m.qty)
      /\ says' = <<Ack>> /\ inbox' = inbox /\ Reads(s)
  BY <1>1 DEF Places
<1>3. /\ m = wire[s][1] /\ 1 \in DOMAIN wire[s]
      /\ wire' \in [Sessions -> Seq(Steps)]
      /\ \A e \in Sessions : e # s => wire'[e] = wire[e]
      /\ \A i \in DOMAIN wire'[s] : \E j \in DOMAIN wire[s] : wire'[s][i] = wire[s][j]
      /\ session[s] = "reading" /\ mu = NoSession /\ wire[s] # << >>
      /\ UNCHANGED <<open, bot>>
  BY <1>1, <1>2, ReadsEffect
<1>4. /\ Book!IInv' /\ [Engine!Next]_(Engine!vars)
      /\ mu' = s /\ session' = session
      /\ Len(made') = Len(made) + 1 /\ \A n \in 1..Len(made) : made'[n] = made[n]
      /\ made'[Len(made')].side = m.side
      /\ made'[Len(made')].price = m.price
      /\ made'[Len(made')].owner = s
      /\ bids' = bids /\ asks' = asks
  BY <1>1, <1>2, PlaceEffect
<1>5. says' \in Seq(Message) /\ inbox' \in [Sessions -> Seq(Message)]
  BY <1>2, Messages DEF Typed
<1>6. Len(made) \in Nat
  BY BookOrders
<1>7. \A n \in 1..Len(made') : n > Len(made) =>
       /\ made'[n].owner = s
       /\ \E j \in DOMAIN wire[s] :
            made'[n].side = wire[s][j].side /\ made'[n].price = wire[s][j].price
  <2>1. \A n \in 1..Len(made') : n > Len(made) => n = Len(made')
    BY <1>4, <1>6
  <2>2. /\ made'[Len(made')].owner = s /\ made'[Len(made')].side = wire[s][1].side
        /\ made'[Len(made')].price = wire[s][1].price
    BY <1>3, <1>4
  <2>3. 1 \in DOMAIN wire[s]
    BY <1>3
  <2>. QED
    BY <2>1, <2>2, <2>3
<1>8. InBook' = InBook
  BY <1>4 DEF InBook
<1>. QED
  BY <1>2, <1>3, <1>4, <1>5, <1>6, <1>7, <1>8 DEF Disturbs

\* A cancel or a refusal makes no order.
LEMMA CancelsDisturbs ==
  ASSUME Book!IInv, Typed, NEW s \in Sessions, Cancels(s)
  PROVE  Disturbs(s)
<1>1. PICK m \in Steps : m = Head(wire[s])
  BY ReadsEffect DEF Cancels
<1>2. /\ Engine!HandleCancel(s, m.tag) /\ m.tag \in OrderIds
      /\ says' = says /\ Reads(s)
      /\ inbox' = [inbox EXCEPT ![s] = @ \o <<Msg("cancel_ack", 0, 0)>>]
  BY <1>1, StepShape DEF Cancels
<1>3. /\ wire' \in [Sessions -> Seq(Steps)]
      /\ \A e \in Sessions : e # s => wire'[e] = wire[e]
      /\ \A i \in DOMAIN wire'[s] : \E j \in DOMAIN wire[s] : wire'[s][i] = wire[s][j]
      /\ session[s] = "reading" /\ wire[s] # << >>
      /\ UNCHANGED <<open, bot>>
  BY <1>2, ReadsEffect
<1>4. /\ Book!IInv' /\ [Engine!Next]_(Engine!vars)
      /\ mu' = mu /\ session' = session /\ made' = made /\ InBook' \subseteq InBook
  BY <1>2, CancelEffect
<1>5. inbox' \in [Sessions -> Seq(Message)] /\ \A e \in Sessions : e # s => inbox'[e] = inbox[e]
  <2>1. <<Msg("cancel_ack", 0, 0)>> \in Seq(Message)
    BY Messages
  <2>. QED
    BY <1>2, <2>1, ReplyEffect
<1>6. Len(made) \in Nat /\ says' \in Seq(Message)
  BY <1>2, BookOrders DEF Typed
<1>. QED
  BY <1>3, <1>4, <1>5, <1>6 DEF Disturbs

\* A refusal changes nothing of the book.
LEMMA RefusesDisturbs ==
  ASSUME Book!IInv, Typed, NEW s \in Sessions, Refuses(s)
  PROVE  Disturbs(s) /\ UNCHANGED <<made, bids, asks, mu, session, says>>
<1>1. /\ UNCHANGED <<made, orders, bids, asks, mu, session, trades, shown, says>> /\ Reads(s)
      /\ inbox' = [inbox EXCEPT ![s] = @ \o Rejected]
  BY DEF Refuses, engine, book
<1>2. /\ wire' \in [Sessions -> Seq(Steps)]
      /\ \A e \in Sessions : e # s => wire'[e] = wire[e]
      /\ \A i \in DOMAIN wire'[s] : \E j \in DOMAIN wire[s] : wire'[s][i] = wire[s][j]
      /\ session[s] = "reading" /\ wire[s] # << >>
      /\ UNCHANGED <<open, bot>>
  BY <1>1, ReadsEffect
<1>3. UNCHANGED Book!vars /\ UNCHANGED Engine!vars
  BY <1>1 DEF Book!vars, Engine!vars
<1>4. Book!IInv'
  BY <1>3, Book!NextIInv, EngineConstants
<1>5. inbox' \in [Sessions -> Seq(Message)] /\ \A e \in Sessions : e # s => inbox'[e] = inbox[e]
  BY <1>1, Messages, ReplyEffect
<1>6. Len(made) \in Nat /\ says' \in Seq(Message) /\ InBook' = InBook
  BY <1>1, BookOrders DEF Typed, InBook
<1>. QED
  BY <1>1, <1>2, <1>3, <1>4, <1>5, <1>6 DEF Disturbs

\* A fill is said, and goes out at the end of the loop.
LEMMA MatchesDisturbs ==
  ASSUME Book!IInv, Typed, NEW s \in Sessions, EngineMatches(s)
  PROVE  /\ Disturbs(s)
         /\ says' = Append(says, Fill(made[Engine!BestOpposite].price, Engine!MatchedQty))
         /\ made[Engine!BestOpposite].price \in Nat /\ Engine!MatchedQty \in Nat
         /\ wire' = wire /\ inbox' = inbox
<1>1. /\ Engine!MatchOne(s)
      /\ says' = Append(says, Fill(made[Engine!BestOpposite].price, Engine!MatchedQty))
      /\ wire' = wire /\ inbox' = inbox /\ UNCHANGED <<open, bot>>
  BY DEF EngineMatches, Fill
<1>2. PICK b, q : b = Engine!BestOpposite /\ q = Engine!MatchedQty
  OBVIOUS
<1>3. /\ Book!IInv' /\ [Engine!Next]_(Engine!vars)
      /\ mu = s /\ mu' = mu /\ session' = session
      /\ Len(made') = Len(made) /\ Len(made) \in 1..Len(made)
      /\ \A n \in 1..Len(made) :
           /\ made'[n].id = made[n].id /\ made'[n].side = made[n].side
           /\ made'[n].kind = made[n].kind /\ made'[n].price = made[n].price
           /\ made'[n].owner = made[n].owner
      /\ InBook' \subseteq InBook /\ b \in InBook
      /\ q = IF Newest.rem < made[b].rem THEN Newest.rem ELSE made[b].rem
  BY <1>1, <1>2, MatchEffect
<1>4. made[b].price \in Nat /\ q \in Nat
  BY <1>3, BookOrders DEF Newest
<1>5. says' \in Seq(Message)
  <2>1. Fill(made[b].price, q) \in Message /\ says \in Seq(Message)
    BY <1>4, Messages DEF Typed
  <2>. QED
    BY <1>1, <1>2, <2>1
<1>6. session[s] # "closed"
  BY <1>3, EngineConstants DEF Book!IInv, Book!Locked
<1>7. wire' \in [Sessions -> Seq(Steps)] /\ inbox' \in [Sessions -> Seq(Message)]
  BY <1>1 DEF Typed
<1>8. /\ Len(made) <= Len(made') /\ Len(made') \in Nat
      /\ \A n \in 1..Len(made') : ~(n > Len(made))
  BY <1>3
<1>9. Disturbs(s)
  BY <1>1, <1>3, <1>5, <1>6, <1>7, <1>8 DEF Disturbs
<1>. QED
  BY <1>1, <1>2, <1>4, <1>9

\* The answers go out, and the order rests if anything is left of it.
LEMMA AnswersDisturbs ==
  ASSUME Book!IInv, Typed, NEW s \in Sessions, EngineAnswers(s)
  PROVE  /\ Disturbs(s) /\ wire' = wire /\ Engine!Finish(s)
         /\ \E msgs \in Seq(Message) :
              /\ inbox' = [inbox EXCEPT ![s] = @ \o msgs]
              /\ msgs = says \o IF Unfilled THEN Rejected ELSE << >>
<1>1. /\ Engine!Finish(s) /\ says' = << >> /\ wire' = wire /\ UNCHANGED <<open, bot>>
      /\ inbox' = [inbox EXCEPT ![s] = @ \o (says \o IF Unfilled THEN Rejected ELSE << >>)]
  BY DEF EngineAnswers, Reply
<1>2. PICK msgs : msgs = says \o IF Unfilled THEN Rejected ELSE << >>
  OBVIOUS
<1>3. msgs \in Seq(Message)
  <2>1. (IF Unfilled THEN Rejected ELSE << >>) \in Seq(Message) /\ says \in Seq(Message)
    BY Messages DEF Typed
  <2>. QED
    BY <1>2, <2>1
<1>4. inbox' = [inbox EXCEPT ![s] = @ \o msgs]
  BY <1>1, <1>2
<1>5. inbox' \in [Sessions -> Seq(Message)] /\ \A e \in Sessions : e # s => inbox'[e] = inbox[e]
  BY <1>3, <1>4, ReplyEffect
<1>6. /\ Book!IInv' /\ [Engine!Next]_(Engine!vars)
      /\ mu = s /\ mu' = NoSession /\ made' = made /\ session' = session
      /\ Len(made) \in 1..Len(made) /\ Newest.owner = s
      /\ InBook' \subseteq InBook \cup {Len(made)}
  BY <1>1, FinishEffect
<1>7. session[s] # "closed"
  BY <1>6, EngineConstants DEF Book!IInv, Book!Locked
<1>8. wire' \in [Sessions -> Seq(Steps)] /\ says' \in Seq(Message)
  BY <1>1 DEF Typed
<1>9. \A n \in InBook' : n \in InBook \/ (mu = s /\ n \in 1..Len(made) /\ made[n].owner = s)
  BY <1>6 DEF Newest
<1>10. Disturbs(s)
  BY <1>1, <1>5, <1>6, <1>7, <1>8, <1>9 DEF Disturbs
<1>. QED
  BY <1>1, <1>2, <1>3, <1>4, <1>10

\* A session ends only once its connection is closed, if it was reading.
LEMMA EndsDisturbs ==
  ASSUME Book!IInv, Typed, NEW s \in Sessions, EngineEndsSession(s)
  PROVE  /\ Disturbs(s) /\ mu' = mu /\ mu # s /\ made' = made /\ says' = says /\ inbox' = inbox
         /\ InBook' \subseteq InBook
         /\ s \notin open \/ session[s] # "reading"
         /\ (\A n \in InBook : made[n].owner # s) => Shelf' = Shelf
<1>1. /\ Engine!ReadFails(s) \/ Engine!CancelSession(s)
      /\ wire' = [wire EXCEPT ![s] = << >>] \/ wire' = wire
      /\ says' = says /\ inbox' = inbox /\ UNCHANGED <<open, bot>>
      /\ s \notin open \/ session[s] # "reading"
  BY DEF EngineEndsSession, Engine!CancelSession
<1>2. /\ Book!IInv' /\ [Engine!Next]_(Engine!vars)
      /\ mu # s /\ mu' = mu /\ made' = made /\ InBook' \subseteq InBook
      /\ session[s] # "closed"
      /\ \A e \in Sessions : e # s => session'[e] = session[e]
      /\ \A e \in Sessions : session'[e] # "closed" => session[e] # "closed"
      /\ (\A n \in InBook : made[n].owner # s) => Shelf' = Shelf
  BY <1>1, EndEffect
<1>3. /\ wire' \in [Sessions -> Seq(Steps)]
      /\ \A e \in Sessions : e # s => wire'[e] = wire[e]
      /\ wire'[s] = << >> \/ wire'[s] = wire[s]
  <2>1. wire \in [Sessions -> Seq(Steps)] /\ << >> \in Seq(Steps)
    BY DEF Typed
  <2>2. CASE wire' = [wire EXCEPT ![s] = << >>]
    BY <2>1, <2>2
  <2>3. CASE wire' = wire
    BY <2>1, <2>3
  <2>. QED
    BY <1>1, <2>2, <2>3
<1>4. \A i \in DOMAIN wire'[s] : \E j \in DOMAIN wire[s] : wire'[s][i] = wire[s][j]
  BY <1>3
<1>5. Len(made) \in Nat
  BY BookOrders
<1>6. says' \in Seq(Message) /\ inbox' \in [Sessions -> Seq(Message)]
  BY <1>1 DEF Typed
<1>7. /\ Len(made) <= Len(made') /\ Len(made') \in Nat
      /\ \A n \in 1..Len(made') : ~(n > Len(made))
  BY <1>2, <1>5
<1>8. s \in open /\ session[s] = "reading" => session'[s] = "reading"
  BY <1>1
<1>9. Disturbs(s)
  BY <1>1, <1>2, <1>3, <1>4, <1>6, <1>7, <1>8 DEF Disturbs
<1>. QED
  BY <1>1, <1>2, <1>9

\* No step of the engine disturbs another session's.
LEMMA EngineDisturbs ==
  ASSUME Book!IInv, Typed, NEW s \in Sessions, EngineStep(s)
  PROVE  Disturbs(s)
  BY EngineCases, PlacesDisturbs, CancelsDisturbs, RefusesDisturbs, MatchesDisturbs,
     AnswersDisturbs, EndsDisturbs

-----------------------------------------------------------------------------
(* Scores.                                                                  *)

\* Two values are counted apart.
LEMMA CountApart ==
  ASSUME NEW f, IsFiniteSet(DOMAIN f), NEW t, NEW u, t # u
  PROVE  /\ Count(f, t) \in Nat /\ Count(f, u) \in Nat
         /\ Count(f, t) + Count(f, u) <= Cardinality(DOMAIN f)
         /\ (\A n \in DOMAIN f : f[n] = t) =>
              Count(f, t) = Cardinality(DOMAIN f) /\ Count(f, u) = 0
         /\ Count(f, u) = 0 => \A n \in DOMAIN f : f[n] # u
<1> DEFINE Of(v) == {n \in DOMAIN f : f[n] = v}
<1>1. \A v : Count(f, v) = Cardinality(Of(v))
  BY DEF Count
<1>2. \A v : IsFiniteSet(Of(v)) /\ Cardinality(Of(v)) \in Nat
  <2> SUFFICES ASSUME NEW v PROVE IsFiniteSet(Of(v)) /\ Cardinality(Of(v)) \in Nat
    OBVIOUS
  <2>1. Of(v) \in SUBSET DOMAIN f
    OBVIOUS
  <2> HIDE DEF Of
  <2>. QED
    BY <2>1, FS_Subset, FS_CardinalityType
<1>3. Of(t) \cap Of(u) = {} /\ Of(t) \cup Of(u) \in SUBSET DOMAIN f
  OBVIOUS
<1>4. Cardinality(Of(t) \cup Of(u)) = Cardinality(Of(t)) + Cardinality(Of(u))
  <2>1. Cardinality(Of(t) \cap Of(u)) = 0
    BY <1>3, FS_EmptySet
  <2>2. Cardinality(Of(t) \cup Of(u)) =
          Cardinality(Of(t)) + Cardinality(Of(u)) - Cardinality(Of(t) \cap Of(u))
    <3> HIDE DEF Of
    <3>. QED
      BY <1>2, FS_Union
  <2>. QED
    BY <1>2, <2>1, <2>2
<1>5. Cardinality(Of(t) \cup Of(u)) <= Cardinality(DOMAIN f)
  <2> HIDE DEF Of
  <2>. QED
    BY <1>3, FS_Subset
<1>6. (\A n \in DOMAIN f : f[n] = t) => Of(t) = DOMAIN f /\ Of(u) = {}
  OBVIOUS
<1>7. Of(u) = {} => \A n \in DOMAIN f : f[n] # u
  OBVIOUS
<1> HIDE DEF Of
<1>8. Of(u) = {} => Cardinality(Of(u)) = 0
  BY FS_EmptySet
<1>9. Cardinality(Of(u)) = 0 => Of(u) = {}
  BY <1>2, FS_EmptySet
<1>. QED
  BY <1>1, <1>2, <1>4, <1>5, <1>6, <1>7, <1>8, <1>9

\* Sequences with the same elements are the same.
LEMMA SameSequence ==
  ASSUME NEW S, NEW q \in Seq(S), NEW r \in Seq(S), Len(q) = Len(r),
         \A i \in 1..Len(q) : q[i] = r[i]
  PROVE  q = r
OBVIOUS

\* Sequences of few elements, put together.
LEMMA Tuples ==
  ASSUME NEW x, NEW y, NEW z
  PROVE  /\ << >> \o << >> = << >> /\ << >> \o <<x>> = <<x>> /\ <<x>> \o << >> = <<x>>
         /\ <<x, y>> \o << >> = <<x, y>> /\ <<x, y>> \o <<z>> = <<x, y, z>>
         /\ <<x>> \o <<y>> = <<x, y>> /\ <<x, y, z>> \o << >> = <<x, y, z>>
         /\ << >> \o <<x, y>> = <<x, y>> /\ << >> \o <<x, y, z>> = <<x, y, z>>
<1>1. <<x>> \in Seq({x, y, z}) /\ <<y>> \in Seq({x, y, z}) /\ <<z>> \in Seq({x, y, z})
      /\ <<x, y>> \in Seq({x, y, z}) /\ <<x, y, z>> \in Seq({x, y, z})
      /\ << >> \in Seq({x, y, z})
  OBVIOUS
<1>2. << >> \o << >> = << >> /\ << >> \o <<x>> = <<x>> /\ <<x>> \o << >> = <<x>>
  BY <1>1
<1>3. <<x, y>> \o << >> = <<x, y>> /\ << >> \o <<x, y>> = <<x, y>>
  BY <1>1
<1>4. <<x, y, z>> \o << >> = <<x, y, z>> /\ << >> \o <<x, y, z>> = <<x, y, z>>
  BY <1>1
<1>5. <<x, y>> \o <<z>> = <<x, y, z>> /\ <<x>> \o <<y>> = <<x, y>>
  <2>1. PICK q : q = <<x, y>> \o <<z>>
    OBVIOUS
  <2>2. q \in Seq({x, y, z}) /\ Len(q) = 3 /\ q[1] = x /\ q[2] = y /\ q[3] = z
    BY <1>1, <2>1
  <2>3. PICK r : r = <<x, y, z>>
    OBVIOUS
  <2>4. r \in Seq({x, y, z}) /\ Len(r) = 3 /\ r[1] = x /\ r[2] = y /\ r[3] = z
    BY <1>1, <2>3
  <2>5. q = r
    BY <2>2, <2>4, SameSequence
  <2>6. PICK p : p = <<x>> \o <<y>>
    OBVIOUS
  <2>7. p \in Seq({x, y, z}) /\ Len(p) = 2 /\ p[1] = x /\ p[2] = y
    BY <1>1, <2>6
  <2>8. p = <<x, y>>
    BY <1>1, <2>7, SameSequence
  <2>. QED
    BY <2>1, <2>3, <2>5, <2>6, <2>8
<1>. QED
  BY <1>2, <1>3, <1>4, <1>5

\* A cancel asks for its answer, a step that is to be rejected for the rejection, and an
\* order that expects no fill for nothing.
LEMMA AnswersOfOthers ==
  ASSUME Step.fill = NoFill
  PROVE  /\ Step.act = "cancel" /\ ~Step.reject =>
              /\ DOMAIN AnswerAssertions = 1..1
              /\ Got("cancel_ack", got) => AnswerAssertions[1] = TRUE
              /\ ~Got("cancel_ack", got) => AnswerAssertions[1] = FALSE
         /\ Step.act # "cancel" /\ Step.reject =>
              /\ DOMAIN AnswerAssertions = 1..1
              /\ Got("reject", got) => AnswerAssertions[1] = TRUE
              /\ ~Got("reject", got) => AnswerAssertions[1] = FALSE
         /\ Step.act # "cancel" /\ ~Step.reject => DOMAIN AnswerAssertions = 1..0
<1>1. FillAssertions = << >>
  BY DEF FillAssertions
<1>2. ASSUME Step.act = "cancel", ~Step.reject
      PROVE  AnswerAssertions = <<Got("cancel_ack", got)>>
  BY <1>1, <1>2, Tuples DEF AnswerAssertions
<1>3. ASSUME Step.act # "cancel", Step.reject
      PROVE  AnswerAssertions = <<Got("reject", got)>>
  BY <1>1, <1>3, Tuples DEF AnswerAssertions
<1>4. ASSUME Step.act # "cancel", ~Step.reject
      PROVE  AnswerAssertions = << >>
  BY <1>1, <1>4, Tuples DEF AnswerAssertions
<1>. QED
  BY <1>2, <1>3, <1>4

\* An order that expects a fill asks for it, its price and, if it matters, its quantity.
LEMMA AnswersOfFill ==
  ASSUME Step.act # "cancel", Step.fill # NoFill, ~Step.reject
  PROVE  /\ ~Got("fill", got) => DOMAIN AnswerAssertions = 1..1 /\ AnswerAssertions[1] = FALSE
         /\ Got("fill", got) =>
              /\ DOMAIN AnswerAssertions = 1..(IF Step.fill[2] = 0 THEN 2 ELSE 3)
              /\ AnswerAssertions[1] = TRUE
              /\ LastFill.price = Step.fill[1] => AnswerAssertions[2] = TRUE
              /\ LastFill.price # Step.fill[1] => AnswerAssertions[2] = FALSE
              /\ Step.fill[2] # 0 /\ LastFill.qty = Step.fill[2] => AnswerAssertions[3] = TRUE
<1>1. PICK x, y : x = (LastFill.price = Step.fill[1]) /\ y = (LastFill.qty = Step.fill[2])
  OBVIOUS
<1>2. /\ LastFill.price = Step.fill[1] => x = TRUE
      /\ LastFill.price # Step.fill[1] => x = FALSE
      /\ LastFill.qty = Step.fill[2] => y = TRUE
  BY <1>1
<1>3. AnswerAssertions = FillAssertions
  <2>1. AnswerAssertions = << >> \o FillAssertions \o << >>
    BY DEF AnswerAssertions
  <2>2. \E a, b, c : FillAssertions = <<a>> \/ FillAssertions = <<a, b>> \/ FillAssertions = <<a, b, c>>
    <3>1. CASE ~Got("fill", got)
      BY <3>1 DEF FillAssertions
    <3>2. CASE Got("fill", got) /\ Step.fill[2] = 0
      BY <1>1, <3>2, Tuples DEF FillAssertions
    <3>3. CASE Got("fill", got) /\ Step.fill[2] # 0
      BY <1>1, <3>3, Tuples DEF FillAssertions
    <3>. QED
      BY <3>1, <3>2, <3>3
  <2>. QED
    BY <2>1, <2>2, Tuples
<1>4. CASE ~Got("fill", got)
  BY <1>3, <1>4 DEF FillAssertions
<1>5. CASE Got("fill", got) /\ Step.fill[2] = 0
  <2>1. FillAssertions = <<TRUE, x>>
    BY <1>1, <1>5, Tuples, ZenonT(30) DEF FillAssertions
  <2>. QED
    BY <1>2, <1>3, <1>5, <2>1
<1>6. CASE Got("fill", got) /\ Step.fill[2] # 0
  <2>1. FillAssertions = <<TRUE, x>> \o <<y>>
    BY <1>1, <1>6 DEF FillAssertions
  <2>2. <<TRUE, x>> \o <<y>> = <<TRUE, x, y>>
    BY Tuples
  <2>3. FillAssertions = <<TRUE, x, y>>
    BY <2>1, <2>2
  <2>. QED
    BY <1>2, <1>3, <1>6, <2>3
<1>. QED
  BY <1>4, <1>5, <1>6


\* What a step asks of the answers, and of the book.
Asked(step) ==
  IF step.fill # NoFill THEN IF step.fill[2] = 0 THEN 2 ELSE 3
  ELSE IF step.act = "cancel" \/ step.reject THEN 1 ELSE 0
Looked(step) == IF step.levels[2] = Unchecked THEN 1 ELSE 2

\* A step is worth what it asks.
LEMMA StepWorth ==
  ASSUME NEW n \in Sessions, NEW k \in DOMAIN CorrectnessSequences[n]
  PROVE  LET step == CorrectnessSequences[n][k]
         IN  /\ step.reject => step.act # "cancel"
             /\ step.fill # NoFill => step.act # "cancel" /\ ~step.reject
             /\ step.levels[1] # Unchecked
             /\ Worth[n][k] \in Nat /\ Full(n) \in Nat /\ Worth[n][1] = 0
             /\ Asked(step) \in Nat /\ Looked(step) \in Nat
             /\ Worth[n][k + 1] = Worth[n][k] + Asked(step) + Looked(step)
             /\ Worth[n][k] + 1 <= Full(n) /\ Worth[n][k + 1] <= Full(n)
             /\ k = Len(CorrectnessSequences[n]) =>
                  Worth[n][k + 1] = Full(n) /\ step.levels = <<0, 0>>
<1> DEFINE Fits(m, i) ==
      LET step == CorrectnessSequences[m][i]
      IN  /\ step.reject => step.act # "cancel"
          /\ step.fill # NoFill => step.act # "cancel" /\ ~step.reject
          /\ step.levels[1] # Unchecked
          /\ Worth[m][i] \in Nat /\ Full(m) \in Nat /\ Worth[m][1] = 0
          /\ Asked(step) \in Nat /\ Looked(step) \in Nat
          /\ Worth[m][i + 1] = Worth[m][i] + Asked(step) + Looked(step)
          /\ Worth[m][i] + 1 <= Full(m) /\ Worth[m][i + 1] <= Full(m)
          /\ i = Len(CorrectnessSequences[m]) =>
               Worth[m][i + 1] = Full(m) /\ step.levels = <<0, 0>>
<1>1. /\ Worth[1][1] = 0 /\ Worth[1][2] = 1 /\ Worth[1][3] = 6
      /\ Worth[2][1] = 0 /\ Worth[2][2] = 1 /\ Worth[2][3] = 2 /\ Worth[2][4] = 6
      /\ Worth[3][1] = 0 /\ Worth[3][2] = 1 /\ Worth[3][3] = 6 /\ Worth[3][4] = 9
      /\ Worth[4][1] = 0 /\ Worth[4][2] = 1 /\ Worth[4][3] = 4 /\ Worth[4][4] = 6
      /\ Worth[4][5] = 9 /\ Worth[5][1] = 0 /\ Worth[5][2] = 3
  BY DEF Worth
<1>2. Full(1) = 6 /\ Full(2) = 6 /\ Full(3) = 9 /\ Full(4) = 9 /\ Full(5) = 3
  BY <1>1, Lengths DEF Full
<1>3. Fits(1, 1) /\ Fits(1, 2)
  BY <1>1, <1>2, BasicMatchSteps, FourPrices, Lengths DEF StepIs, Asked, Looked, Unchecked, NoFill
<1>4. Fits(2, 1) /\ Fits(2, 2) /\ Fits(2, 3)
  BY <1>1, <1>2, PriorityFillSteps, FourPrices, Lengths DEF StepIs, Asked, Looked, Unchecked, NoFill
<1>5. Fits(3, 1) /\ Fits(3, 2) /\ Fits(3, 3)
  BY <1>1, <1>2, PartialFillSteps, FourPrices, Lengths DEF StepIs, Asked, Looked, Unchecked, NoFill
<1>6. Fits(4, 1) /\ Fits(4, 2) /\ Fits(4, 3) /\ Fits(4, 4)
  BY <1>1, <1>2, CancelSteps, FourPrices, Lengths DEF StepIs, Asked, Looked, Unchecked, NoFill
<1>7. Fits(5, 1)
  BY <1>1, <1>2, RejectSteps, Lengths DEF StepIs, Asked, Looked, Unchecked, NoFill
<1>8. Fits(n, k)
  <2> HIDE DEF Fits
  <2>. QED
    BY <1>3, <1>4, <1>5, <1>6, <1>7, Positions
<1>. QED
  BY <1>8

\* As many values as a sequence has places.
LEMMA PlacesOf ==
  ASSUME NEW k \in Nat
  PROVE  IsFiniteSet(1..k) /\ Cardinality(1..k) = k
<1>1. 1 \in Int /\ k \in Int /\ (IF 1 > k THEN 0 ELSE k - 1 + 1) = k
  OBVIOUS
<1>2. IsFiniteSet(1..k) /\ Cardinality(1..k) = IF 1 > k THEN 0 ELSE k - 1 + 1
  BY <1>1, FS_Interval, Zenon
<1>. QED
  BY <1>1, <1>2

\* The assertions about the answers are as many as asked, or fewer.
LEMMA AnswersCounted ==
  ASSUME Typed
  PROVE  /\ Count(AnswerAssertions, TRUE) \in Nat /\ Count(AnswerAssertions, FALSE) \in Nat
         /\ Count(AnswerAssertions, TRUE) + Count(AnswerAssertions, FALSE) <= Asked(Step)
         /\ Count(AnswerAssertions, FALSE) = 0 =>
              \A i \in DOMAIN AnswerAssertions : AnswerAssertions[i] # FALSE
         /\ DOMAIN AnswerAssertions = 1..Asked(Step)
                /\ (\A i \in DOMAIN AnswerAssertions : AnswerAssertions[i] = TRUE) =>
              Count(AnswerAssertions, TRUE) = Asked(Step) /\ Count(AnswerAssertions, FALSE) = 0
<1>1. /\ Step.reject => Step.act # "cancel"
      /\ Step.fill # NoFill => Step.act # "cancel" /\ ~Step.reject
      /\ Asked(Step) \in Nat
  BY StepWorth DEF Typed, Step, Script
<1>2. PICK k \in Nat : DOMAIN AnswerAssertions = 1..k /\ k <= Asked(Step)
  <2>1. ASSUME Step.fill = NoFill, Step.act = "cancel" \/ Step.reject
        PROVE  DOMAIN AnswerAssertions = 1..1 /\ Asked(Step) = 1
    BY <1>1, <2>1, AnswersOfOthers DEF Asked
  <2>2. ASSUME Step.fill = NoFill, Step.act # "cancel", ~Step.reject
        PROVE  DOMAIN AnswerAssertions = 1..0 /\ Asked(Step) = 0
    BY <1>1, <2>2, AnswersOfOthers DEF Asked
  <2>3. ASSUME Step.fill # NoFill, ~Got("fill", got)
        PROVE  DOMAIN AnswerAssertions = 1..1 /\ 1 <= Asked(Step)
    <3>1. Asked(Step) = 2 \/ Asked(Step) = 3
      BY <2>3 DEF Asked
    <3>2. DOMAIN AnswerAssertions = 1..1
      BY <1>1, <2>3, AnswersOfFill
    <3>. QED
      BY <3>1, <3>2
  <2>4. ASSUME Step.fill # NoFill, Got("fill", got)
        PROVE  DOMAIN AnswerAssertions = 1..Asked(Step)
    BY <1>1, <2>4, AnswersOfFill DEF Asked
  <2>5. PICK a : a = Asked(Step)
    OBVIOUS
  <2>6. /\ a \in Nat
        /\ \/ DOMAIN AnswerAssertions = 1..1 /\ 1 <= a
           \/ DOMAIN AnswerAssertions = 1..0 /\ 0 <= a
           \/ DOMAIN AnswerAssertions = 1..a /\ a <= a
    BY <1>1, <2>1, <2>2, <2>3, <2>4, <2>5
  <2>. QED
    BY <2>5, <2>6
<1>3. IsFiniteSet(DOMAIN AnswerAssertions) /\ Cardinality(DOMAIN AnswerAssertions) = k
  BY <1>2, PlacesOf
<1>4. PICK f, a : f = AnswerAssertions /\ a = Asked(Step)
  OBVIOUS
<1>5. /\ Count(f, TRUE) \in Nat /\ Count(f, FALSE) \in Nat
      /\ Count(f, TRUE) + Count(f, FALSE) <= k
      /\ (\A n \in DOMAIN f : f[n] = TRUE) => Count(f, TRUE) = k /\ Count(f, FALSE) = 0
      /\ Count(f, FALSE) = 0 => \A n \in DOMAIN f : f[n] # FALSE
  BY <1>3, <1>4, CountApart, ZenonT(30)
<1>6. a \in Nat /\ k <= a /\ (DOMAIN f = 1..a => k = a)
  <2>1. DOMAIN f = 1..a => Cardinality(1..a) = k
    BY <1>3, <1>4
  <2>. QED
    BY <1>1, <1>2, <1>4, <2>1, PlacesOf
<1>7. Count(f, TRUE) + Count(f, FALSE) <= a
  <2>1. PICK c, d : c = Count(f, TRUE) /\ d = Count(f, FALSE)
    OBVIOUS
  <2>2. c \in Nat /\ d \in Nat /\ c + d <= k
    BY <1>5, <2>1
  <2>3. c + d <= a
    BY <1>6, <2>2
  <2>. QED
    BY <2>1, <2>3
<1>. QED
  BY <1>4, <1>5, <1>6, <1>7

\* The book's assertions are one for each side that is looked at.
LEMMA BookCounted ==
  ASSUME Typed
  PROVE  LET f == BookAssertions
         IN  /\ Count(f, TRUE) \in Nat /\ Count(f, FALSE) \in Nat
             /\ Count(f, TRUE) + Count(f, FALSE) <= Looked(Step)
             /\ Count(f, FALSE) = 0 =>
                  /\ LevelsOf(bids) = Step.levels[1]
                  /\ Step.levels[2] # Unchecked => LevelsOf(asks) = Step.levels[2]
             /\ LevelsOf(bids) = Step.levels[1]
                  /\ (Step.levels[2] # Unchecked => LevelsOf(asks) = Step.levels[2]) =>
                  Count(f, TRUE) = Looked(Step) /\ Count(f, FALSE) = 0
<1>1. PICK f, k, b, a : /\ f = BookAssertions /\ k = Looked(Step)
                        /\ b = LevelsOf(bids) /\ a = LevelsOf(asks)
  OBVIOUS
<1>2. Step.levels[1] # Unchecked /\ k \in Nat
  BY <1>1, StepWorth DEF Typed, Step, Script
<1>3. f = [n \in {m \in 1..2 : Step.levels[m] # Unchecked} |-> <<b, a>>[n] = Step.levels[n]]
  BY <1>1 DEF BookAssertions
<1>4. DOMAIN f = 1..k /\ 1 \in DOMAIN f /\ (Step.levels[2] # Unchecked => 2 \in DOMAIN f)
      /\ \A n \in DOMAIN f : n = 1 \/ (n = 2 /\ Step.levels[2] # Unchecked)
  BY <1>1, <1>2, <1>3 DEF Looked
<1>5. /\ b = Step.levels[1] => f[1] = TRUE
      /\ b # Step.levels[1] => f[1] = FALSE
      /\ Step.levels[2] # Unchecked =>
           /\ a = Step.levels[2] => f[2] = TRUE
           /\ a # Step.levels[2] => f[2] = FALSE
  <2>1. f[1] = (b = Step.levels[1])
    BY <1>2, <1>3
  <2>2. Step.levels[2] # Unchecked => f[2] = (a = Step.levels[2])
    BY <1>3
  <2>3. /\ b = Step.levels[1] => f[1] = TRUE
        /\ b # Step.levels[1] => f[1] = FALSE
    BY <2>1
  <2>4. Step.levels[2] # Unchecked =>
           /\ a = Step.levels[2] => f[2] = TRUE
           /\ a # Step.levels[2] => f[2] = FALSE
    BY <2>2
  <2>. QED
    BY <2>3, <2>4
<1>6. IsFiniteSet(DOMAIN f) /\ Cardinality(DOMAIN f) = k
  BY <1>2, <1>4, PlacesOf
<1>7. /\ Count(f, TRUE) \in Nat /\ Count(f, FALSE) \in Nat
      /\ Count(f, TRUE) + Count(f, FALSE) <= k
      /\ (\A n \in DOMAIN f : f[n] = TRUE) => Count(f, TRUE) = k /\ Count(f, FALSE) = 0
      /\ Count(f, FALSE) = 0 => \A n \in DOMAIN f : f[n] # FALSE
  BY <1>6, CountApart
<1>8. Count(f, FALSE) = 0 =>
        b = Step.levels[1] /\ (Step.levels[2] # Unchecked => a = Step.levels[2])
  BY <1>4, <1>5, <1>7
<1>9. b = Step.levels[1] /\ (Step.levels[2] # Unchecked => a = Step.levels[2]) =>
        \A n \in DOMAIN f : f[n] = TRUE
  BY <1>4, <1>5
<1>. QED
  BY <1>1, <1>7, <1>8, <1>9

\* A query that fails counts for one.
LEMMA FailedQueryCounted ==
  /\ Count(<<FALSE>>, TRUE) = 0 /\ Count(<<FALSE>>, FALSE) = 1
<1>1. PICK f : f = <<FALSE>>
  OBVIOUS
<1>2. DOMAIN f = 1..1 /\ \A n \in DOMAIN f : f[n] = FALSE
  <2>1. DOMAIN f = 1..1
    BY <1>1
  <2>2. f[1] = FALSE
    BY <1>1
  <2>. QED
    BY <2>1, <2>2
<1>3. IsFiniteSet(DOMAIN f) /\ Cardinality(DOMAIN f) = 1
  BY <1>2, PlacesOf
<1>4. Count(f, FALSE) = 1 /\ Count(f, TRUE) = 0
  BY <1>2, <1>3, CountApart
<1>. QED
  BY <1>1, <1>4

\* What a check adds to the score is at most what the step is worth, and a failed query
\* adds a failure.
LEMMA ScoreEffect ==
  ASSUME Typed, NEW more, more = BookAssertions \/ more = <<FALSE>>, Score(more)
  PROVE  /\ passed' \in [Sessions -> Nat] /\ failed' \in [Sessions -> Nat]
         /\ \A n \in Sessions : n # seq => passed'[n] = passed[n] /\ failed'[n] = failed[n]
         /\ failed[seq] <= failed'[seq]
         /\ passed'[seq] + failed'[seq] <=
              passed[seq] + failed[seq] + Asked(Step) + Looked(Step)
         /\ more = <<FALSE>> => failed'[seq] > 0
         /\ failed'[seq] = 0 =>
              /\ failed[seq] = 0
              /\ \A i \in DOMAIN AnswerAssertions : AnswerAssertions[i] # FALSE
              /\ LevelsOf(bids) = Step.levels[1]
              /\ Step.levels[2] # Unchecked => LevelsOf(asks) = Step.levels[2]
         /\ passed'[seq] = passed[seq] + Count(AnswerAssertions, TRUE) + Count(more, TRUE)
         /\ failed'[seq] = failed[seq] + Count(AnswerAssertions, FALSE) + Count(more, FALSE)
<1>1. PICK at1, af, mt, mf, a, l :
                             /\ a = Asked(Step) /\ l = Looked(Step)
                             /\ at1 = Count(AnswerAssertions, TRUE)
                             /\ af = Count(AnswerAssertions, FALSE)
                             /\ mt = Count(more, TRUE) /\ mf = Count(more, FALSE)
  OBVIOUS
<1>2. at1 \in Nat /\ af \in Nat /\ at1 + af <= a
      /\ (af = 0 => \A i \in DOMAIN AnswerAssertions : AnswerAssertions[i] # FALSE)
  BY <1>1, AnswersCounted
<1>3. l \in Nat /\ a \in Nat /\ 1 <= l
  BY <1>1, StepWorth DEF Typed, Step, Script, Looked
<1>4. mt \in Nat /\ mf \in Nat /\ mt + mf <= l /\ (more = <<FALSE>> => mf = 1)
  <2>1. ASSUME more = <<FALSE>> PROVE mt = 0 /\ mf = 1
    BY <1>1, <2>1, FailedQueryCounted
  <2>2. ASSUME more # <<FALSE>> PROVE mt \in Nat /\ mf \in Nat /\ mt + mf <= l
    BY <1>1, <2>2, BookCounted
  <2>3. CASE more = <<FALSE>>
    BY <1>3, <2>1, <2>3
  <2>4. CASE more # <<FALSE>>
    BY <2>2, <2>4
  <2>. QED
    BY <2>3, <2>4
<1>5. mf = 0 => LevelsOf(bids) = Step.levels[1]
                /\ (Step.levels[2] # Unchecked => LevelsOf(asks) = Step.levels[2])
  <2>1. mf = 0 => more = BookAssertions
    <3>1. mf = 0 => mf # 1
      OBVIOUS
    <3>. QED
      BY <1>4, <3>1, Zenon
  <2>. QED
    BY <1>1, <2>1, BookCounted
<1>6. /\ seq \in Sessions /\ passed \in [Sessions -> Nat] /\ failed \in [Sessions -> Nat]
      /\ passed[seq] \in Nat /\ failed[seq] \in Nat
  BY DEF Typed
<1>7. /\ passed' = [passed EXCEPT ![seq] = passed[seq] + at1 + mt]
      /\ failed' = [failed EXCEPT ![seq] = failed[seq] + af + mf]
  BY <1>1 DEF Score
<1>8. /\ passed'[seq] = passed[seq] + at1 + mt /\ failed'[seq] = failed[seq] + af + mf
      /\ \A n \in Sessions : n # seq => passed'[n] = passed[n] /\ failed'[n] = failed[n]
      /\ passed' \in [Sessions -> Nat] /\ failed' \in [Sessions -> Nat]
  BY <1>2, <1>4, <1>6, <1>7
<1>9. PICK p, q, p1, q1 : /\ p = passed[seq] /\ q = failed[seq]
                          /\ p1 = passed'[seq] /\ q1 = failed'[seq]
  OBVIOUS
<1>10. /\ at1 \in Nat /\ af \in Nat /\ mt \in Nat /\ mf \in Nat /\ p \in Nat /\ q \in Nat
       /\ at1 + af <= a /\ mt + mf <= l /\ a \in Nat /\ l \in Nat
       /\ p1 = p + at1 + mt /\ q1 = q + af + mf
  BY <1>2, <1>3, <1>4, <1>6, <1>8, <1>9
<1>11. /\ q <= q1 /\ (mf = 1 => q1 > 0) /\ p1 + q1 <= p + q + a + l
       /\ q1 = 0 => q = 0 /\ af = 0 /\ mf = 0
  BY <1>10
<1>12. more = <<FALSE>> => q1 > 0
  BY <1>4, <1>11, Zenon
<1>. QED
  BY <1>1, <1>2, <1>5, <1>8, <1>9, <1>11, <1>12

-----------------------------------------------------------------------------
(* What the engine's steps keep of the invariant.                           *)

\* They leave the bot alone.
LEMMA BotFixed ==
  ASSUME UNCHANGED <<open, bot>>
  PROVE  /\ UNCHANGED <<open, pc, seq, at, got, ctxDone, passed, failed, hiccups, hit, overlap>>
         /\ Script' = Script /\ Step' = Step /\ (Final' <=> Final)
         /\ \A msgs : Enough(msgs)' <=> Enough(msgs)
         /\ \A n : (Begun(n)' <=> Begun(n)) /\ (Ended(n)' <=> Ended(n))
         /\ \A n : (Clean(n)' <=> Clean(n)) /\ Budget(n)' = Budget(n)
<1>1. UNCHANGED <<open, pc, seq, at, got, ctxDone, passed, failed, hiccups, hit, overlap>>
  BY DEF bot, score
<1>2. Script' = Script /\ Step' = Step /\ (Final' <=> Final)
  BY <1>1 DEF Script, Step, Final
<1>3. \A msgs : Enough(msgs)' <=> Enough(msgs)
  BY <1>2 DEF Enough, Got
<1>4. \A n : (Begun(n)' <=> Begun(n)) /\ (Ended(n)' <=> Ended(n))
  BY <1>1 DEF Begun, Ended
<1>5. \A n : (Clean(n)' <=> Clean(n)) /\ Budget(n)' = Budget(n)
  BY <1>1, <1>4 DEF Clean, Budget
<1>. QED
  BY <1>1, <1>2, <1>3, <1>4, <1>5

\* The bookkeeping.
LEMMA EngineKeepsBasics ==
  ASSUME Basics, NEW s \in Sessions, Disturbs(s)
  PROVE  Basics'
<1>. USE DEF Basics
<1>1. /\ UNCHANGED <<open, pc, seq, at, got, ctxDone, passed, failed, hiccups, hit, overlap>>
      /\ Script' = Script /\ \A n : Begun(n)' <=> Begun(n)
  BY BotFixed DEF Disturbs
<1>2. Typed'
  BY <1>1 DEF Typed, Disturbs
<1>3. OpenReads'
  <2>1. \A e \in open : session'[e] = "reading"
    BY <1>1 DEF OpenReads, Disturbs, Typed
  <2>. QED
    BY <1>1, <2>1 DEF OpenReads
<1>4. NotBegun'
  <2>1. pc = "dial" => at = 1 /\ got = << >>
    BY DEF NotBegun
  <2>2. ASSUME NEW n \in Sessions, ~Begun(n)
        PROVE  /\ session'[n] = "closed" /\ wire'[n] = << >> /\ inbox'[n] = << >>
               /\ overlap[n] = {} /\ passed[n] = 0 /\ failed[n] = 0
               /\ \A m \in 1..Len(made') : made'[m].owner # n
    <3>1. /\ session[n] = "closed" /\ wire[n] = << >> /\ inbox[n] = << >>
          /\ overlap[n] = {} /\ passed[n] = 0 /\ failed[n] = 0
          /\ \A m \in 1..Len(made) : made[m].owner # n
      BY <2>2 DEF NotBegun
    <3>2. n # s
      BY <3>1 DEF Disturbs
    <3>3. \A m \in 1..Len(made') : made'[m].owner # n
      <4> SUFFICES ASSUME NEW m \in 1..Len(made') PROVE made'[m].owner # n
        OBVIOUS
      <4>1. Len(made) \in Nat /\ Len(made') \in Nat
        BY BookOrders DEF Disturbs
      <4>2. m \in 1..Len(made) \/ m > Len(made)
        BY <4>1
      <4>. QED
        BY <3>1, <3>2, <4>2 DEF Disturbs
    <3>. QED
      BY <3>1, <3>2, <3>3 DEF Disturbs
  <2>. QED
    BY <1>1, <2>1, <2>2 DEF NotBegun
<1>5. Beside'
  <2>1. \A e \in Sessions : session'[e] # "closed" => session[e] # "closed"
    BY DEF Disturbs
  <2>. QED
    BY <1>1, <2>1 DEF Beside
<1>6. FromScript'
  <2> SUFFICES ASSUME NEW e \in Sessions, NEW i \in DOMAIN wire'[e]
               PROVE  \E k \in DOMAIN CorrectnessSequences[e] :
                        wire'[e][i] = CorrectnessSequences[e][k] /\ (e = seq => k <= at)
    BY <1>1 DEF FromScript
  <2>1. \E j \in DOMAIN wire[e] : wire'[e][i] = wire[e][j]
    <3>1. CASE e = s
      BY <3>1 DEF Disturbs
    <3>2. CASE e # s
      <4>1. wire'[e] = wire[e]
        BY <3>2 DEF Disturbs
      <4>. QED
        BY <4>1
    <3>. QED
      BY <3>1, <3>2
  <2>. QED
    BY <2>1 DEF FromScript
<1>7. NoHiccup' /\ Book!IInv'
  BY <1>1 DEF NoHiccup, Disturbs
<1>. QED
  BY <1>2, <1>3, <1>4, <1>5, <1>6, <1>7

\* Nobody else moves while a session is at an order, but one whose read fails.
LEMMA WhileBusy ==
  ASSUME Book!IInv, Typed, NEW s \in Sessions, EngineStep(s), mu # s, mu # NoSession
  PROVE  EngineEndsSession(s)
<1>1. ~Places(s) /\ ~Cancels(s) /\ ~Refuses(s)
  BY DEF Places, Cancels, Refuses, Reads
<1>2. ~EngineMatches(s)
  BY DEF EngineMatches, Engine!MatchOne
<1>3. ~EngineAnswers(s)
  BY DEF EngineAnswers, Engine!Finish
<1>. QED
  BY <1>1, <1>2, <1>3, EngineCases

\* A session with nothing to read and nothing under way can only end.
LEMMA WhileQuiet ==
  ASSUME Book!IInv, Typed, NEW s \in Sessions, EngineStep(s), wire[s] = << >>, mu # s
  PROVE  EngineEndsSession(s)
<1>1. ~Places(s) /\ ~Cancels(s) /\ ~Refuses(s)
  BY DEF Places, Cancels, Refuses, Reads
<1>2. ~EngineMatches(s)
  BY DEF EngineMatches, Engine!MatchOne
<1>3. ~EngineAnswers(s)
  BY DEF EngineAnswers, Engine!Finish
<1>. QED
  BY <1>1, <1>2, <1>3, EngineCases

\* An open connection does not end.
LEMMA OpenStays ==
  ASSUME Basics, NEW s \in Sessions, s \in open
  PROVE  ~EngineEndsSession(s)
  BY EndsDisturbs DEF Basics, OpenReads

\* What is ended and spent remains so.
LEMMA EngineKeepsLeavesNothing ==
  ASSUME Basics, LeavesNothing, NEW s \in Sessions, Disturbs(s)
  PROVE  LeavesNothing'
<1>1. failed' = failed /\ \A n : Ended(n)' <=> Ended(n)
  BY BotFixed DEF Disturbs
<1> SUFFICES ASSUME NEW e \in Sessions, Ended(e), failed[e] = 0
             PROVE  Spent(e)'
  BY <1>1 DEF LeavesNothing
<1>2. wire[e] = << >> /\ mu # e /\ \A n \in InBook : made[n].owner # e
  BY DEF LeavesNothing, Spent, InBook
<1>3. wire'[e] = << >>
  BY <1>2 DEF Disturbs
<1>4. mu' # e
  <2>1. e # NoSession
    BY EngineConstants
  <2>. QED
    BY <1>2, <2>1 DEF Disturbs
<1>5. ASSUME NEW n \in InBook' PROVE made'[n].owner # e
  <2>1. n \in InBook \/ (mu = s /\ n \in 1..Len(made) /\ made[n].owner = s)
    BY DEF Disturbs
  <2>2. n \in 1..Len(made) /\ made[n].owner # e
    BY <1>2, <2>1, BookOrders DEF Basics
  <2>. QED
    BY <2>2 DEF Disturbs
<1>. QED
  BY <1>3, <1>4, <1>5 DEF Spent, InBook

\* The score is the bot's.
LEMMA EngineKeepsScored ==
  ASSUME Scored, NEW s \in Sessions, Disturbs(s)
  PROVE  Scored'
<1>1. passed' = passed /\ failed' = failed /\ \A n : Budget(n)' = Budget(n)
  BY BotFixed DEF Disturbs
<1>. QED
  BY <1>1 DEF Scored

-----------------------------------------------------------------------------
(* What the bot's steps keep of the bookkeeping.                            *)

\* The engine's part of the invariant does not see them.
LEMMA EngineIdle ==
  ASSUME Book!IInv, UNCHANGED engine
  PROVE  /\ Book!IInv' /\ [Engine!Next]_(Engine!vars)
         /\ UNCHANGED <<made, bids, asks, mu, session, says>>
         /\ InBook' = InBook /\ Shelf' = Shelf
<1>1. UNCHANGED <<made, orders, bids, asks, mu, session, trades, shown, says>>
  BY DEF engine, book
<1>2. UNCHANGED Book!vars /\ UNCHANGED Engine!vars
  BY <1>1 DEF Book!vars, Engine!vars
<1>3. Book!IInv'
  BY <1>2, Book!NextIInv, EngineConstants
<1>4. InBook' = InBook /\ Shelf' = Shelf
  BY <1>1 DEF InBook, Shelf, CardOf
<1>. QED
  BY <1>1, <1>2, <1>3, <1>4

Running == {"send", "read", "check", "close"}

\* The next step of the sequence is one.
LEMMA NextStepEffect ==
  ASSUME Typed, NextStep
  PROVE  /\ Final => pc' = "close" /\ at' = at
         /\ ~Final => pc' = "send" /\ at' = at + 1
         /\ pc' \in Running /\ at' \in DOMAIN Script /\ at <= at'
         /\ Len(Script) \in Nat /\ at \in Nat /\ DOMAIN Script = 1..Len(Script)
<1>1. seq \in 1..5 /\ at \in 1..4 /\ at <= Len(Script)
  BY Positions DEF Typed, Script
<1>2. Len(Script) \in Nat /\ DOMAIN Script = 1..Len(Script)
  BY <1>1, Lengths DEF Script, CorrectnessSequences, cxBasicMatch, cxPriorityFill, cxPartialFill,
     cxCancel, cxRejectMarketNoLiquidity
<1>. QED
  BY <1>1, <1>2 DEF NextStep, Final, Script, Running

\* The next sequence is one, or there is none.
LEMMA NextSequenceEffect ==
  ASSUME Typed, NextSequence
  PROVE  /\ at' = 1 /\ got' = << >> /\ seq' \in Sessions /\ 1 \in DOMAIN Script'
         /\ pc' \in {"dial", "done"} /\ seq \in 1..5 /\ Sessions = 1..5
         /\ seq = 5 => pc' = "done" /\ seq' = seq
         /\ seq # 5 => pc' = "dial" /\ seq' = seq + 1
         /\ \A n \in Sessions : ~Begun(n)' => ~Begun(n) /\ n # seq
         /\ \A n \in Sessions : Ended(n)' <=> n <= seq
<1>1. seq \in 1..5 /\ Sessions = 1..5 /\ Len(CorrectnessSequences) = 5
  BY Lengths DEF Typed
<1>2. /\ at' = 1 /\ got' = << >>
      /\ seq = 5 => pc' = "done" /\ seq' = seq
      /\ seq # 5 => pc' = "dial" /\ seq' = seq + 1
  BY <1>1 DEF NextSequence
<1>3. \A n \in Sessions : 1 \in DOMAIN CorrectnessSequences[n]
  BY <1>1 DEF CorrectnessSequences, cxBasicMatch, cxPriorityFill, cxPartialFill, cxCancel,
     cxRejectMarketNoLiquidity
<1>. QED
  BY <1>1, <1>2, <1>3 DEF Script, Begun, Ended

\* A step within a sequence.
LEMMA WithinKeepsBasics ==
  ASSUME Basics, UNCHANGED engine, pc \in Running, pc' \in Running, UNCHANGED <<seq, overlap>>,
         open' \subseteq open, at <= at', Typed',
         \A n \in Sessions : n # seq =>
           /\ passed'[n] = passed[n] /\ failed'[n] = failed[n]
           /\ inbox'[n] = inbox[n] /\ wire'[n] = wire[n],
         wire' = wire \/ (wire'[seq] = Append(wire[seq], Step) /\ at' = at),
         hiccups' = 0 => hit' = {} /\ ~ctxDone'
  PROVE  Basics'
<1>. USE DEF Basics
<1>1. Book!IInv' /\ UNCHANGED <<made, bids, asks, mu, session, says>>
  BY EngineIdle
<1>2. OpenReads'
  BY <1>1 DEF OpenReads, Running
<1>3. NotBegun'
  <2>1. \A n \in Sessions : ~Begun(n)' => ~Begun(n) /\ n # seq
    BY Lengths DEF Begun, Running, Typed
  <2>2. pc' # "dial"
    BY DEF Running
  <2>. QED
    BY <1>1, <2>1, <2>2 DEF NotBegun
<1>4. Beside'
  BY <1>1 DEF Beside, Running
<1>5. FromScript'
  <2> SUFFICES ASSUME NEW e \in Sessions, NEW i \in DOMAIN wire'[e]
               PROVE  \E k \in DOMAIN CorrectnessSequences[e] :
                        wire'[e][i] = CorrectnessSequences[e][k] /\ (e = seq => k <= at')
    BY DEF FromScript
  <2>1. at \in Nat /\ at' \in Nat /\ \A k \in DOMAIN Script : k \in Nat
    <3>1. seq \in Sessions /\ at \in DOMAIN Script /\ at' \in DOMAIN Script
      BY DEF Typed, Script
    <3>2. \A k \in DOMAIN CorrectnessSequences[seq] : k \in 1..4
      BY <3>1, Positions
    <3>. QED
      BY <3>1, <3>2 DEF Script
  <2>2. CASE i \in DOMAIN wire[e] /\ wire'[e][i] = wire[e][i]
    <3>1. PICK k \in DOMAIN CorrectnessSequences[e] :
            wire[e][i] = CorrectnessSequences[e][k] /\ (e = seq => k <= at)
      BY <2>2 DEF FromScript
    <3>2. e = seq => k \in Nat
      BY <2>1 DEF Script
    <3>. QED
      BY <2>1, <2>2, <3>1, <3>2
  <2>3. CASE ~(i \in DOMAIN wire[e] /\ wire'[e][i] = wire[e][i])
    <3>1. wire'[e] # wire[e]
      BY <2>3
    <3>2. e = seq /\ wire'[seq] = Append(wire[seq], Step) /\ at' = at
      BY <3>1
    <3>3. wire[seq] \in Seq(Steps) /\ Len(wire[seq]) \in Nat
      BY DEF Typed
    <3>4. wire'[e][i] = Step
      BY <2>3, <3>2, <3>3
    <3>. QED
      BY <2>1, <3>2, <3>4 DEF Step, Typed, Script
  <2>. QED
    BY <2>2, <2>3
<1>6. NoHiccup'
  BY DEF NoHiccup
<1>. QED
  BY <1>1, <1>2, <1>3, <1>4, <1>5, <1>6

\* What comes of a failure.
LEMMA FailEffect ==
  ASSUME Typed, Fail(seq)
  PROVE  /\ failed' \in [Sessions -> Nat] /\ failed'[seq] = failed[seq] + 1 /\ failed'[seq] > 0
         /\ \A n \in Sessions : n # seq => failed'[n] = failed[n]
<1>1. failed \in [Sessions -> Nat] /\ seq \in Sessions /\ failed[seq] \in Nat
  BY DEF Typed
<1>2. failed' = [failed EXCEPT ![seq] = failed[seq] + 1]
  BY DEF Fail
<1>. QED
  BY <1>1, <1>2

\* What fails on the way is remembered.
LEMMA BrokenEffect ==
  ASSUME Typed, NoHiccup, Broken
  PROVE  /\ hiccups' \in 0..MaxHiccups /\ hit' = hit \cup {seq} /\ hit' \subseteq Sessions
         /\ hiccups' # 0
<1>1. hiccups \in 0..MaxHiccups /\ MaxHiccups \in Nat /\ seq \in Sessions /\ hit \subseteq Sessions
  BY BoundsAssumption DEF Typed
<1>2. CASE ctxDone /\ hit' = hit \cup {seq} /\ UNCHANGED hiccups
  BY <1>1, <1>2 DEF NoHiccup
<1>3. CASE Hiccup
  BY <1>1, <1>3 DEF Hiccup
<1>. QED
  BY <1>2, <1>3 DEF Broken

\* So is a hiccup.
LEMMA HiccupEffect ==
  ASSUME Typed, Hiccup
  PROVE  /\ hiccups' \in 0..MaxHiccups /\ hit' = hit \cup {seq} /\ hit' \subseteq Sessions
         /\ hiccups' # 0
  BY BoundsAssumption DEF Typed, Hiccup

\* The steps within a sequence, and what they do.
LEMMA SendKeepsBasics ==
  ASSUME Basics, Send
  PROVE  /\ Basics' /\ UNCHANGED engine /\ UNCHANGED <<inbox, open, seq, at, ctxDone, overlap>>
         /\ UNCHANGED <<passed, failed, hiccups, hit>>
         /\ pc = "send" /\ seq \in open /\ pc' = "read" /\ got' = << >>
         /\ wire'[seq] = Append(wire[seq], Step) /\ \A n \in Sessions : n # seq => wire'[n] = wire[n]
         /\ Step \in Steps
<1>. USE DEF Basics
<1>1. /\ pc = "send" /\ seq \in open /\ ~ctxDone /\ wire' = [wire EXCEPT ![seq] = Append(@, Step)]
      /\ pc' = "read" /\ got' = << >>
      /\ UNCHANGED engine /\ UNCHANGED <<inbox, open, seq, at, ctxDone, overlap>>
      /\ UNCHANGED <<passed, failed, hiccups, hit>>
  BY DEF Send, score
<1>2. Step \in Steps
  BY StepsArePositions DEF Typed, Step, Script
<1>3. /\ wire' \in [Sessions -> Seq(Steps)] /\ wire'[seq] = Append(wire[seq], Step)
      /\ \A n \in Sessions : n # seq => wire'[n] = wire[n]
  BY <1>1, <1>2 DEF Typed
<1>4. says' = says
  BY <1>1 DEF engine
<1>5. Typed'
  BY <1>1, <1>3, <1>4 DEF Typed, Script
<1>6. at <= at'
  BY <1>1, Positions DEF Typed, Script
<1>7. Basics'
  BY <1>1, <1>3, <1>5, <1>6, WithinKeepsBasics DEF Running, NoHiccup
<1>. QED
  BY <1>1, <1>2, <1>3, <1>7

\* A failed write leads to the close and costs an assertion; the engine is left alone.
LEMMA WriteFailsKeepsBasics ==
  ASSUME Basics, WriteFails
  PROVE  /\ Basics' /\ UNCHANGED engine
         /\ UNCHANGED <<wire, inbox, open, seq, at, got, ctxDone, passed, overlap>>
         /\ pc = "send" /\ pc' = "close" /\ Fail(seq)
         /\ (hit' = hit /\ seq \notin open) \/ hit' = hit \cup {seq}
<1>. USE DEF Basics
<1>1. /\ pc = "send" /\ pc' = "close" /\ Fail(seq)
      /\ (seq \notin open /\ UNCHANGED <<hiccups, hit>>) \/ Broken
      /\ UNCHANGED engine
      /\ UNCHANGED <<wire, inbox, open, seq, at, got, ctxDone, passed, overlap>>
  BY DEF WriteFails
<1>2. /\ hiccups' \in 0..MaxHiccups /\ hit' \subseteq Sessions
      /\ hiccups' = 0 => hit' = {} /\ ~ctxDone'
      /\ (hit' = hit /\ seq \notin open) \/ hit' = hit \cup {seq}
  BY <1>1, BrokenEffect DEF Typed, NoHiccup
<1>3. /\ failed' \in [Sessions -> Nat]
      /\ \A n \in Sessions : n # seq => failed'[n] = failed[n]
  BY <1>1, FailEffect
<1>4. says' = says
  BY <1>1 DEF engine
<1>5. Typed'
  BY <1>1, <1>2, <1>3, <1>4 DEF Typed, Script
<1>6. at <= at'
  BY <1>1, Positions DEF Typed, Script
<1>7. Basics'
  BY <1>1, <1>2, <1>3, <1>5, <1>6, WithinKeepsBasics DEF Running
<1>. QED
  BY <1>1, <1>2, <1>7

\* A read takes one message from the connection, and ends the step if that is enough.
LEMMA ReadKeepsBasics ==
  ASSUME Basics, Read
  PROVE  /\ Basics' /\ UNCHANGED engine
         /\ UNCHANGED <<wire, open, seq, at, ctxDone, passed, failed, hiccups, hit, overlap>>
         /\ pc = "read" /\ seq \in open /\ inbox[seq] # << >>
         /\ inbox'[seq] = Tail(inbox[seq]) /\ got' = Append(got, Head(inbox[seq]))
         /\ Head(inbox[seq]) = inbox[seq][1] /\ Head(inbox[seq]) \in Message
         /\ pc' = IF Enough(got') THEN "check" ELSE "read"
         /\ \A n \in Sessions : n # seq => inbox'[n] = inbox[n]
<1>. USE DEF Basics
<1>1. /\ pc = "read" /\ seq \in open /\ inbox[seq] # << >>
      /\ inbox' = [inbox EXCEPT ![seq] = Tail(@)] /\ got' = Append(got, Head(inbox[seq]))
      /\ pc' = IF Enough(got') THEN "check" ELSE "read"
      /\ UNCHANGED engine
      /\ UNCHANGED <<wire, open, seq, at, ctxDone, passed, failed, hiccups, hit, overlap>>
  BY DEF Read, score
<1>2. inbox \in [Sessions -> Seq(Message)] /\ inbox[seq] \in Seq(Message) /\ got \in Seq(Message)
  BY DEF Typed
<1>3. Head(inbox[seq]) \in Message /\ Tail(inbox[seq]) \in Seq(Message)
      /\ Head(inbox[seq]) = inbox[seq][1]
  BY <1>1, <1>2
<1>4. /\ inbox' \in [Sessions -> Seq(Message)] /\ inbox'[seq] = Tail(inbox[seq])
      /\ \A n \in Sessions : n # seq => inbox'[n] = inbox[n] /\ got' \in Seq(Message)
      /\ got' \in Seq(Message)
  BY <1>1, <1>2, <1>3 DEF Typed
<1>5. says' = says
  BY <1>1 DEF engine
<1>6. Typed'
  BY <1>1, <1>4, <1>5 DEF Typed, Script
<1>7. at <= at'
  BY <1>1, Positions DEF Typed, Script
<1>8. pc \in Running /\ pc' \in Running
  BY <1>1 DEF Running
<1>9. Basics'
  BY <1>1, <1>4, <1>6, <1>7, <1>8, WithinKeepsBasics DEF NoHiccup
<1>. QED
  BY <1>1, <1>3, <1>4, <1>9

\* A read that fails closes the connection: the step is over, or the sequence.
LEMMA ReadFailsKeepsBasics ==
  ASSUME Basics, ReadFails
  PROVE  /\ Basics' /\ UNCHANGED engine
         /\ UNCHANGED <<wire, inbox, seq, at, got, ctxDone, passed, overlap>>
         /\ pc = "read" /\ seq \in open /\ open' = open \ {seq}
         /\ \/ Fail(seq) /\ pc' = "close" /\ hit' = hit \cup {seq}
            \/ pc' = "check" /\ failed' = failed /\ hit' = hit /\ Silent
            \/ pc' = "check" /\ failed' = failed /\ hit' = hit \cup {seq}
<1>. USE DEF Basics
<1>1. /\ pc = "read" /\ seq \in open /\ open' = open \ {seq}
      /\ UNCHANGED engine
      /\ UNCHANGED <<wire, inbox, seq, at, got, ctxDone, passed, overlap>>
  BY DEF ReadFails
<1>2. /\ hiccups' \in 0..MaxHiccups /\ hit' \subseteq Sessions
      /\ hiccups' = 0 => hit' = {} /\ ~ctxDone'
      /\ failed' \in [Sessions -> Nat]
      /\ \A n \in Sessions : n # seq => failed'[n] = failed[n]
      /\ \/ Fail(seq) /\ pc' = "close" /\ hit' = hit \cup {seq}
         \/ pc' = "check" /\ failed' = failed /\ hit' = hit /\ Silent
         \/ pc' = "check" /\ failed' = failed /\ hit' = hit \cup {seq}
  <2>1. CASE ctxDone
    <3>1. Fail(seq) /\ pc' = "close" /\ hit' = hit \cup {seq} /\ hiccups' = hiccups
      BY <2>1 DEF ReadFails
    <3>2. hiccups # 0
      BY <2>1 DEF NoHiccup
    <3>. QED
      BY <3>1, <3>2, FailEffect DEF Typed
  <2>2. CASE ~ctxDone /\ Silent /\ hiccups' = hiccups /\ hit' = hit
    BY <1>1, <2>2 DEF ReadFails, Typed, NoHiccup
  <2>3. CASE ~ctxDone /\ Hiccup
    <3>1. pc' = "check" /\ failed' = failed
      BY <2>3 DEF ReadFails
    <3>. QED
      BY <2>3, <3>1, HiccupEffect DEF Typed
  <2>. QED
    BY <2>1, <2>2, <2>3 DEF ReadFails
<1>3. says' = says
  BY <1>1 DEF engine
<1>4. pc' \in {"check", "close"} /\ open' \subseteq open
  BY <1>1, <1>2
<1>5. Typed'
  BY <1>1, <1>2, <1>3, <1>4 DEF Typed, Script
<1>6. at <= at'
  BY <1>1, Positions DEF Typed, Script
<1>7. pc \in Running /\ pc' \in Running
  BY <1>1, <1>4 DEF Running
<1>8. Basics'
  BY <1>1, <1>2, <1>4, <1>5, <1>6, <1>7, WithinKeepsBasics
<1>. QED
  BY <1>1, <1>2, <1>8

\* The checks score the step and go to the next, on the book or on a failed query.
LEMMA CheckKeepsBasics ==
  ASSUME Basics, Check \/ QueryFails
  PROVE  /\ Basics' /\ UNCHANGED engine /\ UNCHANGED <<wire, inbox, open, seq, got, ctxDone, overlap>>
         /\ pc = "check" /\ NextStep
         /\ \/ mu = NoSession /\ hit' = hit /\ Score(BookAssertions)
            \/ hit' = hit \cup {seq} /\ Score(<<FALSE>>)
<1>. USE DEF Basics
<1>1. /\ pc = "check" /\ NextStep
      /\ UNCHANGED engine /\ UNCHANGED <<wire, inbox, open, seq, got, ctxDone, overlap>>
  BY DEF Check, QueryFails
<1>2. \/ mu = NoSession /\ hit' = hit /\ hiccups' = hiccups /\ Score(BookAssertions)
      \/ Hiccup /\ Score(<<FALSE>>)
  BY DEF Check, QueryFails
<1>3. /\ hiccups' \in 0..MaxHiccups /\ hit' \subseteq Sessions
      /\ hiccups' = 0 => hit' = {} /\ ~ctxDone'
      /\ \/ mu = NoSession /\ hit' = hit /\ Score(BookAssertions)
         \/ hit' = hit \cup {seq} /\ Score(<<FALSE>>)
  BY <1>1, <1>2, HiccupEffect DEF Typed, NoHiccup
<1>4. /\ passed' \in [Sessions -> Nat] /\ failed' \in [Sessions -> Nat]
      /\ \A n \in Sessions : n # seq => passed'[n] = passed[n] /\ failed'[n] = failed[n]
  BY <1>3, ScoreEffect
<1>5. pc' \in Running /\ at' \in DOMAIN Script /\ at <= at'
  BY <1>1, NextStepEffect
<1>6. pc' \in {"send", "close"}
  BY <1>1, NextStepEffect
<1>7. says' = says
  BY <1>1 DEF engine
<1>8. Typed'
  BY <1>1, <1>3, <1>4, <1>5, <1>6, <1>7 DEF Typed, Script
<1>9. pc \in Running
  BY <1>1 DEF Running
<1>10. Basics'
  BY <1>1, <1>3, <1>4, <1>5, <1>8, <1>9, WithinKeepsBasics
<1>. QED
  BY <1>1, <1>3, <1>10

\* A connection that is dialled has a session of its own, beside those that are late.
LEMMA DialKeepsBasics ==
  ASSUME Basics, Dial
  PROVE  /\ Basics' /\ UNCHANGED <<says, wire, inbox, seq, got, ctxDone, passed, failed, hit>>
         /\ pc = "dial" /\ pc' = "send" /\ at' = at /\ at = 1 /\ open' = {seq}
         /\ overlap'[seq] = {n \in Sessions : session[n] # "closed"}
         /\ \A n \in Sessions : n # seq => overlap'[n] = overlap[n]
         /\ made' = made /\ bids' = bids /\ asks' = asks /\ mu' = mu /\ Shelf' = Shelf
         /\ session[seq] = "closed"
         /\ [Engine!Next]_(Engine!vars)
<1>. USE DEF Basics
<1>1. /\ pc = "dial" /\ Engine!Connect(seq) /\ open' = open \cup {seq}
      /\ overlap' = [overlap EXCEPT ![seq] = Late] /\ pc' = "send" /\ at' = 1
      /\ UNCHANGED <<says, wire, inbox, seq, got, ctxDone, passed, failed, hiccups, hit>>
  BY DEF Dial, score
<1>2. seq \in Sessions /\ seq \in 1..5 /\ Sessions = 1..5 /\ at = 1 /\ open = {}
  BY <1>1, Lengths DEF Typed, NotBegun, OpenReads
<1>3. /\ Book!IInv' /\ [Engine!Next]_(Engine!vars)
      /\ session[seq] = "closed" /\ session' = [session EXCEPT ![seq] = "reading"]
      /\ mu' = mu /\ made' = made /\ bids' = bids /\ asks' = asks /\ Shelf' = Shelf
  BY <1>1, <1>2, ConnectEffect
<1>4. session \in [Sessions -> {"closed", "reading", "closing"}]
  BY DEF Book!IInv, Book!TypeOK
<1>5. /\ session'[seq] = "reading" /\ \A n \in Sessions : n # seq => session'[n] = session[n]
  BY <1>2, <1>3, <1>4
<1>6. \A n \in Sessions : ~Begun(n) <=> n >= seq
  BY <1>1, <1>2 DEF Begun
<1>7. /\ overlap' \in [Sessions -> SUBSET Sessions]
      /\ overlap'[seq] = {n \in Sessions : session[n] # "closed"}
      /\ \A n \in Sessions : n # seq => overlap'[n] = overlap[n]
  BY <1>1, <1>2 DEF Typed, Late
<1>8. overlap'[seq] \subseteq 1..(seq - 1)
  <2>1. \A n \in Sessions : n >= seq => session[n] = "closed"
    BY <1>6 DEF NotBegun
  <2>. QED
    BY <1>2, <1>7, <2>1
<1>9. Typed'
  <2>1. at' \in DOMAIN Script'
    BY <1>1, <1>2 DEF Typed, Script
  <2>. QED
    BY <1>1, <1>2, <1>7, <2>1 DEF Typed
<1>10. OpenReads'
  BY <1>1, <1>2, <1>5 DEF OpenReads
<1>11. NotBegun'
  <2>1. \A n \in Sessions : ~Begun(n)' => ~Begun(n) /\ n # seq
    BY <1>1, <1>2 DEF Begun
  <2>. QED
    BY <1>1, <1>3, <1>5, <1>7, <2>1 DEF NotBegun
<1>12. Beside'
  <2>1. \A n \in Sessions : overlap'[n] \subseteq 1..(n - 1)
    BY <1>7, <1>8 DEF Beside
  <2>2. \A e \in Sessions : session'[e] # "closed" => e = seq \/ e \in overlap'[seq]
    BY <1>5, <1>7
  <2>. QED
    BY <1>1, <2>1, <2>2 DEF Beside
<1>13. FromScript'
  BY <1>1, <1>2 DEF FromScript
<1>14. NoHiccup'
  BY <1>1 DEF NoHiccup
<1>. QED
  BY <1>1, <1>2, <1>3, <1>7, <1>9, <1>10, <1>11, <1>12, <1>13, <1>14

\* The sequence after the one that ends has not begun.
LEMMA NextSequenceKeepsBasics ==
  ASSUME Basics, NextSequence, UNCHANGED engine, UNCHANGED <<wire, inbox, overlap, passed, ctxDone>>,
         pc # "done", open' = {}, hit' \subseteq Sessions, hiccups' \in 0..MaxHiccups,
         failed' \in [Sessions -> Nat], \A n \in Sessions : n # seq => failed'[n] = failed[n],
         hiccups' = 0 => hit' = {} /\ ~ctxDone'
  PROVE  Basics'
<1>. USE DEF Basics
<1>1. /\ at' = 1 /\ got' = << >> /\ seq' \in Sessions /\ 1 \in DOMAIN Script'
      /\ pc' \in {"dial", "done"} /\ seq \in 1..5 /\ Sessions = 1..5
      /\ seq = 5 => pc' = "done" /\ seq' = seq
      /\ seq # 5 => pc' = "dial" /\ seq' = seq + 1
      /\ \A n \in Sessions : ~Begun(n)' => ~Begun(n) /\ n # seq
  BY NextSequenceEffect
<1>2. Book!IInv' /\ UNCHANGED <<made, bids, asks, mu, session, says>>
  BY EngineIdle
<1>3. Typed'
  <2>1. pc' \in {"dial", "send", "read", "check", "close", "done"} /\ open' \subseteq {seq'}
    BY <1>1
  <2>2. << >> \in Seq(Message)
    OBVIOUS
  <2>. QED
    BY <1>1, <1>2, <2>1, <2>2 DEF Typed
<1>4. OpenReads'
  BY DEF OpenReads
<1>5. NotBegun'
  BY <1>1, <1>2, SMTT(20) DEF NotBegun
<1>6. Beside'
  BY <1>1, <1>2 DEF Beside
<1>7. FromScript'
  <2> SUFFICES ASSUME NEW e \in Sessions, NEW i \in DOMAIN wire[e]
               PROVE  \E k \in DOMAIN CorrectnessSequences[e] :
                        wire[e][i] = CorrectnessSequences[e][k] /\ (e = seq' => k <= 1)
    BY <1>1, SMTT(20) DEF FromScript
  <2>1. PICK k \in DOMAIN CorrectnessSequences[e] : wire[e][i] = CorrectnessSequences[e][k]
    BY DEF FromScript
  <2>2. CASE seq # 5 /\ e = seq'
    <3>1. ~Begun(e)
      BY <1>1, <2>2 DEF Begun
    <3>2. wire[e] = << >>
      BY <3>1 DEF NotBegun
    <3>. QED
      BY <3>2
  <2>3. CASE seq = 5 /\ e = seq'
    <3>1. k = 1
      BY <1>1, <2>3, Positions
    <3>. QED
      BY <2>1, <3>1
  <2>. QED
    BY <2>1, <2>2, <2>3
<1>8. NoHiccup'
  BY DEF NoHiccup
<1>. QED
  BY <1>2, <1>3, <1>4, <1>5, <1>6, <1>7, <1>8

\* A failed dial costs the sequence an assertion and goes to the next sequence.
LEMMA DialFailsKeepsBasics ==
  ASSUME Basics, DialFails
  PROVE  /\ Basics' /\ UNCHANGED engine /\ UNCHANGED <<wire, inbox, overlap, passed, ctxDone>>
         /\ NextSequence /\ Fail(seq) /\ hit' = hit \cup {seq} /\ pc = "dial" /\ open' = {}
<1>. USE DEF Basics
<1>1. /\ pc = "dial" /\ Broken /\ Fail(seq) /\ NextSequence
      /\ UNCHANGED engine /\ UNCHANGED <<wire, inbox, open, ctxDone, passed, overlap>>
  BY DEF DialFails
<1>2. /\ hiccups' \in 0..MaxHiccups /\ hit' = hit \cup {seq} /\ hit' \subseteq Sessions
      /\ hiccups' # 0
  BY <1>1, BrokenEffect
<1>3. failed' \in [Sessions -> Nat] /\ \A n \in Sessions : n # seq => failed'[n] = failed[n]
  BY <1>1, FailEffect
<1>4. open' = {} /\ pc # "done"
  BY <1>1 DEF OpenReads
<1>. QED
  BY <1>1, <1>2, <1>3, <1>4, NextSequenceKeepsBasics

\* The close ends the sequence and leaves its score.
LEMMA CloseConnKeepsBasics ==
  ASSUME Basics, CloseConn
  PROVE  /\ Basics' /\ UNCHANGED engine
         /\ UNCHANGED <<wire, inbox, overlap, passed, failed, hit, ctxDone>>
         /\ NextSequence /\ pc = "close" /\ open' = {}
<1>. USE DEF Basics
<1>1. /\ pc = "close" /\ NextSequence /\ open' = open \ {seq}
      /\ UNCHANGED engine
      /\ UNCHANGED <<wire, inbox, ctxDone, passed, failed, hiccups, hit, overlap>>
  BY DEF CloseConn, score
<1>2. open' = {} /\ pc # "done"
  BY <1>1 DEF Typed
<1>3. /\ hit' \subseteq Sessions /\ hiccups' \in 0..MaxHiccups
      /\ failed' \in [Sessions -> Nat] /\ (hiccups' = 0 => hit' = {} /\ ~ctxDone')
      /\ \A n \in Sessions : n # seq => failed'[n] = failed[n]
  BY <1>1 DEF Typed, NoHiccup
<1>. QED
  BY <1>1, <1>2, <1>3, NextSequenceKeepsBasics

\* The end of the context shows in what fails next.
LEMMA ContextEndsKeepsBasics ==
  ASSUME Basics, ContextEnds
  PROVE  /\ Basics' /\ UNCHANGED engine
         /\ UNCHANGED <<wire, inbox, open, pc, seq, at, got, passed, failed, hit, overlap>>
<1>. USE DEF Basics
<1>1. /\ hiccups < MaxHiccups /\ ctxDone' = TRUE /\ hiccups' = hiccups + 1
      /\ UNCHANGED engine
      /\ UNCHANGED <<wire, inbox, open, pc, seq, at, got, passed, failed, hit, overlap>>
  BY DEF ContextEnds, score
<1>2. hiccups' \in 0..MaxHiccups /\ hiccups' # 0
  BY <1>1, BoundsAssumption DEF Typed
<1>3. Book!IInv' /\ UNCHANGED <<made, bids, asks, mu, session, says>>
  BY <1>1, EngineIdle
<1>4. Typed'
  BY <1>1, <1>2, <1>3 DEF Typed, Script
<1>5. OpenReads' /\ NotBegun'
  BY <1>1, <1>3 DEF OpenReads, NotBegun, Begun
<1>6. Beside' /\ FromScript' /\ NoHiccup'
  BY <1>1, <1>2, <1>3 DEF Beside, FromScript, NoHiccup
<1>. QED
  BY <1>1, <1>3, <1>4, <1>5, <1>6

-----------------------------------------------------------------------------
(* The message of a step and its answers.                                   *)

\* A session that holds the mutex is one, and the last order is its.
LEMMA Holder ==
  ASSUME Book!IInv, mu # NoSession
  PROVE  /\ mu \in Sessions /\ session[mu] # "closed"
         /\ Len(made) \in 1..Len(made) /\ Newest.owner = mu
<1>1. Len(made) > 0 /\ Newest.owner = mu /\ session[mu] # "closed"
  BY EngineConstants DEF Book!IInv, Book!Locked, Book!Cur, Newest
<1>2. Len(made) \in 1..Len(made) /\ mu \in Sessions
  BY <1>1, BookOrders DEF Book!IInv, Book!TypeOK
<1>. QED
  BY <1>1, <1>2

\* What the others do to the step under way.
LEMMA OthersAtStep ==
  ASSUME Basics, NEW s \in Sessions, EngineStep(s), s # seq
  PROVE  /\ UNCHANGED <<open, pc, seq, at, got>> /\ Step' = Step
         /\ wire'[seq] = wire[seq] /\ inbox'[seq] = inbox[seq]
         /\ \A msgs : Enough(msgs)' <=> Enough(msgs)
         /\ mu # seq => mu' # seq
         /\ mu = seq => mu' = mu /\ made' = made /\ says' = says
<1>. USE DEF Basics
<1>1. Disturbs(s)
  BY EngineDisturbs
<1>2. /\ UNCHANGED <<open, pc, seq, at, got>> /\ Step' = Step
      /\ \A msgs : Enough(msgs)' <=> Enough(msgs)
  BY <1>1, BotFixed DEF Disturbs
<1>3. seq \in Sessions /\ seq # NoSession
  BY EngineConstants DEF Typed
<1>4. wire'[seq] = wire[seq] /\ inbox'[seq] = inbox[seq] /\ (mu # seq => mu' # seq)
  BY <1>1, <1>3 DEF Disturbs
<1>5. mu = seq => EngineEndsSession(s)
  BY <1>3, WhileBusy
<1>. QED
  BY <1>2, <1>4, <1>5, EndsDisturbs

\* One answer after nothing but fills.
LEMMA OneAnswer ==
  ASSUME Basics, Unread, NEW msgs \in Seq(Message), Len(msgs) = 1,
         inbox' = [inbox EXCEPT ![seq] = @ \o msgs], Key # "fill", Key' = Key,
         seq' = seq, got' = got, wire'[seq] = << >>, mu' # seq
  PROVE  Answered'
<1>. USE DEF Basics
<1>1. /\ Len(inbox'[seq]) = Len(inbox[seq]) + 1 /\ Len(inbox[seq]) \in Nat
      /\ DOMAIN inbox'[seq] = 1..Len(inbox'[seq]) /\ DOMAIN inbox[seq] = 1..Len(inbox[seq])
      /\ \A i \in DOMAIN inbox[seq] : i \in DOMAIN inbox'[seq] /\ inbox'[seq][i] = inbox[seq][i]
  <2>1. seq \in Sessions
    BY DEF Typed
  <2>2. /\ Len(inbox'[seq]) = Len(inbox[seq]) + Len(msgs) /\ Len(inbox[seq]) \in Nat
        /\ DOMAIN inbox'[seq] = 1..Len(inbox'[seq]) /\ DOMAIN inbox[seq] = 1..Len(inbox[seq])
        /\ \A i \in DOMAIN inbox[seq] : i \in DOMAIN inbox'[seq] /\ inbox'[seq][i] = inbox[seq][i]
    BY <2>1, ReplyEffect
  <2>. QED
    BY <2>2
<1>2. \A i \in DOMAIN inbox[seq] : inbox[seq][i].type = "fill"
  BY DEF Unread, OnlyFills
<1>3. ~Got(Key, got)
  BY DEF Unread, OnlyFills, Got
<1> SUFFICES ASSUME NEW i \in DOMAIN inbox'[seq], NEW h \in 1..(i - 1), inbox'[seq][h].type = Key
             PROVE  FALSE
  BY <1>3 DEF Answered, Got
<1>4. h \in DOMAIN inbox[seq]
  BY <1>1
<1>. QED
  BY <1>1, <1>2, <1>4

\* The bot's own session, at the step.
LEMMA PlacesInStep ==
  ASSUME Basics, Sent, Places(seq)
  PROVE  AtIt'
<1>. USE DEF Basics
<1>1. /\ seq \in Sessions /\ wire[seq] = <<Step>> /\ Unread
      /\ UNCHANGED <<seq, got>> /\ Step' = Step /\ Reads(seq)
  BY BotFixed DEF Sent, Typed, Places, Reads
<1>2. Head(wire[seq]) = Step /\ Tail(wire[seq]) = << >>
  BY <1>1
<1>3. wire'[seq] = << >> /\ Step \in Steps
  BY <1>1, <1>2, ReadsEffect
<1>4. /\ Step.act = "order" /\ says' = <<Ack>> /\ inbox' = inbox
      /\ Engine!PlaceOrder(seq, Step.tag, Step.side, Step.kind, Step.price, Step.qty)
  BY <1>2 DEF Places
<1>5. /\ mu' = seq
      /\ made'[Len(made')].id = Step.tag /\ made'[Len(made')].side = Step.side
      /\ made'[Len(made')].kind = Step.kind /\ made'[Len(made')].price = Step.price
  BY <1>1, <1>3, <1>4, PlaceEffect
<1>6. Len(says') > 0 /\ says'[1].type = "ack" /\ \A i \in 2..Len(says') : says'[i].type = "fill"
  BY <1>4, Messages
<1>7. Unread'
  BY <1>1, <1>4 DEF Unread, OnlyFills
<1>. QED
  BY <1>1, <1>3, <1>4, <1>5, <1>6, <1>7 DEF AtIt

\* A cancel or a refusal answers the step in one go.
LEMMA CancelsInStep ==
  ASSUME Basics, Sent, Cancels(seq) \/ Refuses(seq)
  PROVE  Answered'
<1>. USE DEF Basics
<1>1. /\ seq \in Sessions /\ wire[seq] = <<Step>> /\ Unread /\ mu # seq
      /\ UNCHANGED <<seq, got>> /\ Step' = Step /\ Reads(seq)
  BY BotFixed DEF Sent, Typed, Cancels, Refuses, Reads
<1>2. Head(wire[seq]) = Step /\ Tail(wire[seq]) = << >>
  BY <1>1
<1>3. wire'[seq] = << >> /\ Step \in Steps
  BY <1>1, <1>2, ReadsEffect
<1>4. mu' = mu
  <2>1. CASE Cancels(seq)
    BY <1>1, <1>2, <1>3, <2>1, CancelEffect, StepShape DEF Cancels
  <2>2. CASE Refuses(seq)
    BY <2>2 DEF Refuses, engine, book
  <2>. QED
    BY <2>1, <2>2
<1>5. \E msgs \in Seq(Message) : Len(msgs) = 1 /\ inbox' = [inbox EXCEPT ![seq] = @ \o msgs]
  <2>1. <<Msg("cancel_ack", 0, 0)>> \in Seq(Message) /\ Len(<<Msg("cancel_ack", 0, 0)>>) = 1
    BY Messages
  <2>2. Rejected \in Seq(Message) /\ Len(Rejected) = 1
    BY Messages
  <2>. QED
    BY <2>1, <2>2 DEF Cancels, Refuses
<1>6. Key # "fill" /\ Key' = Key
  BY <1>1 DEF Key
<1>. QED
  BY <1>1, <1>3, <1>4, <1>5, <1>6, OneAnswer

\* A turn of the loop leaves the engine at the step, with a fill more to say.
LEMMA MatchesInStep ==
  ASSUME Basics, AtIt, EngineMatches(seq)
  PROVE  AtIt'
<1>. USE DEF Basics
<1>1. /\ seq \in Sessions /\ Engine!MatchOne(seq) /\ wire' = wire /\ inbox' = inbox
      /\ says' = Append(says, Fill(made[Engine!BestOpposite].price, Engine!MatchedQty))
      /\ UNCHANGED <<seq, got>> /\ Step' = Step
  BY BotFixed, MatchesDisturbs DEF Typed, EngineMatches
<1>2. /\ mu' = mu /\ Len(made') = Len(made) /\ Len(made) \in 1..Len(made)
      /\ \A n \in 1..Len(made) :
           /\ made'[n].id = made[n].id /\ made'[n].side = made[n].side
           /\ made'[n].kind = made[n].kind /\ made'[n].price = made[n].price
  BY <1>1, MatchEffect
<1>3. PICK m : m = Fill(made[Engine!BestOpposite].price, Engine!MatchedQty)
  OBVIOUS
<1>4. m.type = "fill" /\ says \in Seq(Message) /\ m \in Message /\ says' = Append(says, m)
  <2>1. made[Engine!BestOpposite].price \in Nat /\ Engine!MatchedQty \in Nat
    BY <1>1, MatchesDisturbs
  <2>2. m.type = "fill" /\ m \in Message
    BY <1>3, <2>1, Messages
  <2>. QED
    BY <1>1, <1>3, <2>2 DEF Typed
<1>5. Len(says') > 0 /\ says'[1].type = "ack" /\ \A i \in 2..Len(says') : says'[i].type = "fill"
  <2>1. Len(says) > 0 /\ says[1].type = "ack" /\ \A i \in 2..Len(says) : says[i].type = "fill"
    BY DEF AtIt
  <2>2. /\ Len(says) \in Nat /\ Len(says') = Len(says) + 1 /\ says'[Len(says) + 1] = m
        /\ \A i \in 1..Len(says) : says'[i] = says[i]
    BY <1>4
  <2>. QED
    BY <1>4, <2>1, <2>2
<1>6. Unread'
  BY <1>1 DEF AtIt, Unread, OnlyFills
<1>. QED
  BY <1>1, <1>2, <1>5, <1>6 DEF AtIt

\* Where the elements of two sequences are once they are put together.
LEMMA Together ==
  ASSUME NEW S, NEW q \in Seq(S), NEW r \in Seq(S)
  PROVE  /\ q \o r \in Seq(S) /\ Len(q \o r) = Len(q) + Len(r)
         /\ \A i \in 1..Len(q) : (q \o r)[i] = q[i]
         /\ \A i \in 1..Len(r) : (q \o r)[Len(q) + i] = r[i]
         /\ Len(q) \in Nat /\ Len(r) \in Nat
OBVIOUS

\* The answers are the ack, fills and, if something is left of a market order, a reject.
LEMMA AnswersShape ==
  ASSUME Basics, AtIt, EngineAnswers(seq)
  PROVE  /\ mu' = NoSession /\ wire'[seq] = << >> /\ UNCHANGED <<seq, got>> /\ Step' = Step
         /\ \E msgs \in Seq(Message) :
              /\ inbox' = [inbox EXCEPT ![seq] = @ \o msgs]
              /\ msgs = says \o IF Unfilled THEN Rejected ELSE << >>
              /\ Len(msgs) > 0 /\ msgs[1].type = "ack"
              /\ ~Step.reject => msgs = says /\ \A i \in 2..Len(msgs) : msgs[i].type = "fill"
              /\ Step.reject => \A i \in 1..(Len(msgs) - 1) : msgs[i].type # "reject"
<1>. USE DEF Basics
<1>1. /\ seq \in Sessions /\ wire' = wire /\ Engine!Finish(seq)
      /\ UNCHANGED <<seq, got>> /\ Step' = Step
  BY BotFixed, AnswersDisturbs DEF Typed, EngineAnswers
<1>2. PICK msgs \in Seq(Message) :
        /\ inbox' = [inbox EXCEPT ![seq] = @ \o msgs]
        /\ msgs = says \o IF Unfilled THEN Rejected ELSE << >>
  BY <1>1, AnswersDisturbs
<1>3. mu' = NoSession
  BY <1>1, FinishEffect
<1>4. Len(says) > 0 /\ says[1].type = "ack" /\ \A i \in 2..Len(says) : says[i].type = "fill"
  BY DEF AtIt
<1>5. says \in Seq(Message) /\ Len(says) \in Nat
  BY DEF Typed
<1>6. ASSUME Unfilled
      PROVE  /\ Step.reject /\ Len(msgs) > 0 /\ msgs[1].type = "ack"
             /\ \A i \in 1..(Len(msgs) - 1) : msgs[i].type # "reject"
  <2>1. Step.reject
    <3>1. Step.kind = "market"
      BY <1>6 DEF AtIt, Unfilled
    <3>2. Step \in Steps /\ Step.act = "order"
      BY StepsArePositions DEF Typed, Step, Script, AtIt
    <3>. QED
      BY <3>1, <3>2, StepShape
  <2>2. PICK r \in Seq(Message) : msgs = says \o r /\ Len(r) = 1
    BY <1>2, <1>6, Messages
  <2>3. Len(msgs) = Len(says) + 1 /\ \A i \in 1..Len(says) : msgs[i] = says[i]
    <3>1. PICK sa : sa = says
      OBVIOUS
    <3>2. sa \in Seq(Message) /\ msgs = sa \o r /\ Len(r) = 1
      BY <1>5, <2>2, <3>1
    <3>3. /\ Len(sa \o r) = Len(sa) + Len(r)
          /\ \A i \in 1..Len(sa) : (sa \o r)[i] = sa[i]
      BY <3>2, Together, ZenonT(30)
    <3>4. Len(msgs) = Len(sa) + 1
      BY <3>2, <3>3
    <3>. QED
      BY <3>1, <3>2, <3>3, <3>4
  <2>4. \A i \in 1..Len(says) : says[i].type # "reject"
    BY <1>4, <1>5
  <2>. QED
    BY <1>4, <1>5, <2>1, <2>3, <2>4
<1>7. ASSUME ~Unfilled
      PROVE  /\ msgs = says /\ Len(msgs) > 0 /\ msgs[1].type = "ack"
             /\ \A i \in 2..Len(msgs) : msgs[i].type = "fill"
             /\ \A i \in 1..(Len(msgs) - 1) : msgs[i].type # "reject"
  <2>1. msgs = says
    BY <1>2, <1>5, <1>7
  <2>2. \A i \in 1..Len(says) : says[i].type # "reject"
    BY <1>4, <1>5
  <2>. QED
    BY <1>4, <1>5, <2>1, <2>2
<1>8. /\ Len(msgs) > 0 /\ msgs[1].type = "ack"
      /\ ~Step.reject => msgs = says /\ \A i \in 2..Len(msgs) : msgs[i].type = "fill"
      /\ Step.reject => \A i \in 1..(Len(msgs) - 1) : msgs[i].type # "reject"
  BY <1>6, <1>7
<1>9. wire'[seq] = << >>
  BY <1>1 DEF AtIt
<1>. QED
  BY <1>1, <1>2, <1>3, <1>8, <1>9

\* The end of the loop answers the step.
LEMMA AnswersInStep ==
  ASSUME Basics, AtIt, EngineAnswers(seq)
  PROVE  Answered'
<1>. USE DEF Basics
<1>1. /\ mu' = NoSession /\ wire'[seq] = << >> /\ UNCHANGED <<seq, got>> /\ Step' = Step
      /\ seq \in Sessions /\ seq # NoSession
  BY AnswersShape, EngineConstants DEF Typed
<1>2. PICK msgs \in Seq(Message) :
              /\ inbox' = [inbox EXCEPT ![seq] = @ \o msgs]
              /\ Len(msgs) > 0 /\ msgs[1].type = "ack"
              /\ ~Step.reject => \A i \in 2..Len(msgs) : msgs[i].type = "fill"
              /\ Step.reject => \A i \in 1..(Len(msgs) - 1) : msgs[i].type # "reject"
  BY AnswersShape
<1>3. /\ Len(inbox'[seq]) = Len(inbox[seq]) + Len(msgs) /\ Len(inbox[seq]) \in Nat
      /\ Len(msgs) \in Nat
      /\ DOMAIN inbox'[seq] = 1..Len(inbox'[seq]) /\ DOMAIN inbox[seq] = 1..Len(inbox[seq])
      /\ \A i \in DOMAIN inbox[seq] : i \in DOMAIN inbox'[seq] /\ inbox'[seq][i] = inbox[seq][i]
      /\ \A i \in DOMAIN inbox'[seq] : i > Len(inbox[seq]) =>
              i - Len(inbox[seq]) \in 1..Len(msgs) /\ inbox'[seq][i] = msgs[i - Len(inbox[seq])]
  BY <1>1, <1>2, ReplyEffect, ZenonT(30)
<1>4. Key = (IF Step.reject THEN "reject" ELSE "ack") /\ Key' = Key
  BY <1>1 DEF Key, AtIt
<1>5. ~Got(Key, got) /\ \A i \in DOMAIN inbox[seq] : inbox[seq][i].type = "fill"
  BY <1>4 DEF AtIt, Unread, OnlyFills, Got
<1> SUFFICES ASSUME NEW i \in DOMAIN inbox'[seq], NEW h \in 1..(i - 1), inbox'[seq][h].type = Key
             PROVE  inbox'[seq][i].type = "fill"
  BY <1>1, <1>4, <1>5 DEF Answered, Got
<1>6. PICK k, l, g, j : /\ k = Len(inbox[seq]) /\ l = Len(msgs) /\ g = h - k /\ j = i - k
  OBVIOUS
<1>7. k \in Nat /\ l \in Nat /\ i \in 1..(k + l) /\ h \in 1..(i - 1)
  BY <1>3, <1>6
<1>8. h \in 1..(k + l) /\ ~(h \in 1..k)
  <2>1. h \in 1..(k + l)
    BY <1>7
  <2>2. ~(h \in 1..k)
    BY <1>3, <1>4, <1>5, <1>6
  <2>. QED
    BY <2>1, <2>2
<1>9. g \in 1..l /\ j \in 2..l /\ g < l /\ h > k /\ i > k
  BY <1>6, <1>7, <1>8
<1>10. inbox'[seq][h] = msgs[g] /\ inbox'[seq][i] = msgs[j]
  BY <1>3, <1>6, <1>7, <1>8, <1>9
<1>11. CASE Step.reject
  <2>1. g \in 1..(l - 1)
    BY <1>7, <1>9
  <2>. QED
    BY <1>2, <1>4, <1>6, <1>11, <1>10, <2>1, ZenonT(30)
<1>12. CASE ~Step.reject
  BY <1>2, <1>6, <1>12, <1>9, <1>10
<1>. QED
  BY <1>11, <1>12

\* The bot's session does nothing between two steps, nor once it has answered.
LEMMA OwnSession ==
  ASSUME Basics, InStep, EngineStep(seq), seq \in open, pc \in {"send", "read", "check"}
  PROVE  /\ pc = "read"
         /\ \/ Sent /\ (Places(seq) \/ Cancels(seq) \/ Refuses(seq))
            \/ AtIt /\ (EngineMatches(seq) \/ EngineAnswers(seq))
<1>. USE DEF Basics
<1>1. seq \in Sessions /\ ~EngineEndsSession(seq) /\ seq # NoSession
  BY OpenStays, EngineConstants DEF Typed
<1>2. ~(wire[seq] = << >> /\ mu # seq)
  BY <1>1, WhileQuiet
<1>3. pc = "read"
  BY <1>2 DEF InStep, Quiet
<1>4. Sent \/ AtIt
  BY <1>2, <1>3 DEF InStep, Answered
<1>5. ASSUME Sent PROVE ~EngineMatches(seq) /\ ~EngineAnswers(seq)
  BY <1>5 DEF Sent, EngineMatches, EngineAnswers, Engine!MatchOne, Engine!Finish
<1>6. ASSUME AtIt PROVE ~Places(seq) /\ ~Cancels(seq) /\ ~Refuses(seq)
  BY <1>6 DEF AtIt, Places, Cancels, Refuses, Reads
<1>. QED
  BY <1>1, <1>3, <1>4, <1>5, <1>6, EngineCases

\* The engine keeps to the step, whichever session it serves.
LEMMA EngineKeepsInStep ==
  ASSUME Basics, InStep, NEW s \in Sessions, EngineStep(s)
  PROVE  InStep'
<1>. USE DEF Basics
<1>0. Disturbs(s)
  BY EngineDisturbs
<1>1. /\ UNCHANGED <<open, pc, seq, at, got>> /\ Step' = Step
      /\ Enough(got)' <=> Enough(got)
  <2>1. /\ UNCHANGED <<open, pc, seq, at, got>> /\ Step' = Step
    BY <1>0, BotFixed DEF Disturbs
  <2>2. Enough(got)' <=> Enough(got)
    BY <2>1 DEF Enough, Got
  <2>. QED
    BY <2>1, <2>2
<1>2. CASE s # seq
  <2>1. /\ wire'[seq] = wire[seq] /\ inbox'[seq] = inbox[seq]
        /\ mu # seq => mu' # seq
        /\ mu = seq => mu' = mu /\ made' = made /\ says' = says
    BY <1>2, OthersAtStep
  <2>2. Quiet => Quiet'
    BY <1>1, <2>1 DEF Quiet, OnlyFills
  <2>3. Unread => Unread'
    BY <1>1, <2>1 DEF Unread, OnlyFills
  <2>4. Sent => Sent'
    BY <1>1, <2>1, <2>3 DEF Sent
  <2>5. AtIt => AtIt'
    BY <1>1, <2>1, <2>3 DEF AtIt
  <2>6. Answered => Answered'
    BY <1>1, <2>1 DEF Answered, Got, Key
  <2>. QED
    BY <1>1, <2>2, <2>4, <2>5, <2>6 DEF InStep
<1>3. CASE s = seq /\ seq \in open /\ pc \in {"send", "read", "check"}
  <2>1. pc = "read" /\ ~Enough(got)
    BY <1>3, OwnSession DEF InStep
  <2>2. AtIt' \/ Answered'
    BY <1>3, OwnSession, PlacesInStep, CancelsInStep, MatchesInStep, AnswersInStep
  <2>. QED
    BY <1>1, <1>3, <2>1, <2>2 DEF InStep
<1>4. CASE ~(seq \in open /\ pc \in {"send", "read", "check"})
  BY <1>1, <1>4 DEF InStep
<1>. QED
  BY <1>2, <1>3, <1>4

\* A connection just dialled is quiet.
LEMMA DialKeepsInStep ==
  ASSUME Basics, Dial
  PROVE  InStep'
<1>. USE DEF Basics
<1>1. /\ seq' = seq /\ pc = "dial" /\ pc' = "send" /\ wire' = wire /\ inbox' = inbox /\ mu' = mu
      /\ session[seq] = "closed" /\ seq \in Sessions
  BY DialKeepsBasics DEF Typed
<1>2. wire[seq] = << >> /\ inbox[seq] = << >>
  <2>1. ~Begun(seq)
    BY <1>1, Lengths DEF Begun
  <2>. QED
    BY <1>1, <2>1 DEF NotBegun
<1>3. mu # seq
  BY <1>1, Holder, EngineConstants
<1>4. Quiet'
  BY <1>1, <1>2, <1>3 DEF Quiet, OnlyFills
<1>. QED
  BY <1>1, <1>4 DEF InStep

\* A message that is sent comes after fills.
LEMMA SendKeepsInStep ==
  ASSUME Basics, InStep, Send
  PROVE  InStep'
<1>. USE DEF Basics
<1>1. /\ UNCHANGED <<inbox, open, seq, at>> /\ mu' = mu
      /\ pc = "send" /\ seq \in open /\ pc' = "read" /\ got' = << >>
      /\ wire'[seq] = Append(wire[seq], Step)
  BY SendKeepsBasics DEF engine, book
<1>2. Quiet
  BY <1>1 DEF InStep
<1>3. wire'[seq] = <<Step>> /\ Step' = Step
  BY <1>1, <1>2 DEF Quiet, Step
<1>4. Unread'
  BY <1>1, <1>2 DEF Quiet, Unread, OnlyFills
<1>5. ~Enough(got)'
  BY <1>1 DEF Enough, Got
<1>6. Sent'
  BY <1>1, <1>2, <1>3, <1>4 DEF Sent, Quiet
<1>. QED
  BY <1>1, <1>5, <1>6 DEF InStep

\* Reading stops at the answer the bot waits for, and leaves but fills.
LEMMA ReadKeepsInStep ==
  ASSUME Basics, InStep, Read
  PROVE  InStep'
<1>. USE DEF Basics
<1>1. /\ UNCHANGED <<wire, open, seq, at>> /\ mu' = mu /\ made' = made /\ says' = says
      /\ pc = "read" /\ seq \in open /\ inbox[seq] # << >>
      /\ inbox'[seq] = Tail(inbox[seq]) /\ got' = Append(got, Head(inbox[seq]))
      /\ Head(inbox[seq]) = inbox[seq][1] /\ Head(inbox[seq]) \in Message
      /\ pc' = IF Enough(got') THEN "check" ELSE "read"
  BY ReadKeepsBasics DEF engine, book
<1>2. PICK m, in, n : m = Head(inbox[seq]) /\ in = inbox[seq] /\ n = Len(inbox[seq])
  OBVIOUS
<1>3. in \in Seq(Message) /\ got \in Seq(Message) /\ in # << >>
  BY <1>1, <1>2 DEF Typed
<1>4. /\ n \in Nat /\ n > 0 /\ m = in[1] /\ DOMAIN in = 1..n /\ DOMAIN inbox'[seq] = 1..(n - 1)
      /\ \A i \in 1..(n - 1) : i + 1 \in DOMAIN in /\ inbox'[seq][i] = in[i + 1]
  BY <1>1, <1>2, <1>3
<1>5. /\ DOMAIN got' = 1..(Len(got) + 1) /\ got'[Len(got) + 1] = m /\ Len(got) \in Nat
      /\ DOMAIN got = 1..Len(got) /\ \A i \in DOMAIN got : got'[i] = got[i]
  BY <1>1, <1>2, <1>3
<1>6. \A t : Got(t, got') <=> Got(t, got) \/ m.type = t
  BY <1>5 DEF Got
<1>7. Step' = Step /\ Key' = Key
  BY <1>1 DEF Step, Key
<1>8. Enough(got)' <=> Enough(got')
  BY <1>7 DEF Enough
<1>9. Enough(got') => Got(Key, got')
  BY DEF Enough, Key
<1>10. CASE Sent \/ AtIt
  <2>1. Unread /\ m.type = "fill"
    BY <1>2, <1>4, <1>10 DEF Sent, AtIt, Unread, OnlyFills
  <2>2. ~Got("ack", got') /\ ~Got("reject", got') /\ ~Got("cancel_ack", got')
    BY <1>6, <2>1 DEF Unread, OnlyFills, Got
  <2>3. ~Enough(got')
    BY <2>2 DEF Enough
  <2>4. Unread'
    <3>1. OnlyFills(got')
      BY <1>5, <2>1 DEF Unread, OnlyFills
    <3>2. OnlyFills(inbox'[seq])
      BY <1>2, <1>4, <2>1 DEF Unread, OnlyFills
    <3>. QED
      BY <1>1, <3>1, <3>2 DEF Unread, OnlyFills
  <2>5. Sent' \/ AtIt'
    BY <1>1, <1>7, <1>10, <2>4 DEF Sent, AtIt
  <2>. QED
    BY <1>1, <1>8, <2>3, <2>5 DEF InStep
<1>11. CASE Answered
  <2>1. \A i \in DOMAIN inbox'[seq] :
          Got(Key, got') \/ (\E h \in 1..(i - 1) : inbox'[seq][h].type = Key)
            => inbox'[seq][i].type = "fill"
    <3> SUFFICES ASSUME NEW i \in 1..(n - 1),
                        Got(Key, got') \/ (\E h \in 1..(i - 1) : inbox'[seq][h].type = Key)
                 PROVE  in[i + 1].type = "fill"
      BY <1>4
    <3>1. Got(Key, got) \/ \E h \in 1..i : in[h].type = Key
      <4>1. CASE Got(Key, got')
        BY <1>4, <1>6, <4>1
      <4>2. ASSUME NEW h \in 1..(i - 1), inbox'[seq][h].type = Key
            PROVE  h + 1 \in 1..i /\ in[h + 1].type = Key
        <5>1. h \in 1..(n - 1) /\ h + 1 \in 1..i
          BY <1>4
        <5>. QED
          BY <1>4, <4>2, <5>1
      <4>. QED
        BY <4>1, <4>2
    <3>2. PICK j : j \in DOMAIN in /\ j = i + 1 /\ j - 1 = i
      BY <1>4
    <3>3. Got(Key, got) \/ (\E h \in 1..(j - 1) : in[h].type = Key) => in[j].type = "fill"
      BY <1>2, <1>11, <3>2 DEF Answered
    <3>. QED
      BY <3>1, <3>2, <3>3
  <2>2. wire'[seq] = << >> /\ mu' # seq
    BY <1>1, <1>11 DEF Answered
  <2>3. CASE Enough(got')
    <3>1. Quiet'
      BY <1>1, <1>9, <2>1, <2>2, <2>3 DEF Quiet, OnlyFills
    <3>. QED
      BY <1>1, <1>8, <2>3, <3>1 DEF InStep
  <2>4. CASE ~Enough(got')
    <3>1. Answered'
      BY <1>1, <1>7, <2>1, <2>2 DEF Answered, Got
    <3>. QED
      BY <1>1, <1>8, <2>4, <3>1 DEF InStep
  <2>. QED
    BY <2>3, <2>4
<1>. QED
  BY <1>1, <1>10, <1>11 DEF InStep

\* A read that fails leaves the step without its answer.
LEMMA ReadFailsKeepsInStep ==
  ASSUME Basics, InStep, ReadFails
  PROVE  InStep'
<1>1. /\ pc = "read" /\ open' = open \ {seq} /\ UNCHANGED <<seq, at, got>> /\ pc' \in {"check", "close"}
  BY ReadFailsKeepsBasics
<1>2. Enough(got)' <=> Enough(got)
  BY <1>1 DEF Enough, Got, Step
<1>. QED
  BY <1>1, <1>2 DEF InStep

\* After the checks nothing of the step is under way but fills.
LEMMA CheckKeepsInStep ==
  ASSUME Basics, InStep, Check \/ QueryFails
  PROVE  InStep'
<1>1. /\ pc = "check" /\ UNCHANGED engine /\ UNCHANGED <<wire, inbox, open, seq, got>>
      /\ NextStep
  BY CheckKeepsBasics
<1>2. pc' \in {"send", "close"}
  BY <1>1, NextStepEffect DEF Basics
<1>3. mu' = mu
  BY <1>1 DEF engine, book
<1>4. Quiet' <=> Quiet
  BY <1>1, <1>3 DEF Quiet, OnlyFills
<1>. QED
  BY <1>1, <1>2, <1>4 DEF InStep

\* The other steps end a sequence, or change nothing of the step.
LEMMA OthersKeepInStep ==
  ASSUME Basics, InStep, DialFails \/ WriteFails \/ CloseConn \/ ContextEnds
  PROVE  InStep'
<1>. USE DEF Basics
<1>1. CASE DialFails \/ CloseConn
  <2>1. pc' \in {"dial", "done"}
    BY <1>1, DialFailsKeepsBasics, CloseConnKeepsBasics, NextSequenceEffect
  <2>. QED
    BY <2>1 DEF InStep
<1>2. CASE WriteFails
  BY <1>2, WriteFailsKeepsBasics DEF InStep
<1>3. CASE ContextEnds
  <2>1. /\ UNCHANGED <<wire, inbox, open, pc, seq, at, got>> /\ UNCHANGED engine
    BY <1>3, ContextEndsKeepsBasics
  <2>2. UNCHANGED <<made, mu, says>>
    BY <2>1 DEF engine, book
  <2>. QED
    BY <2>1, <2>2 DEF InStep, Quiet, Enough, Got, Step, Sent, AtIt, Answered, Unread, OnlyFills, Key
<1>. QED
  BY <1>1, <1>2, <1>3

-----------------------------------------------------------------------------
(* The first two sequences.                                                 *)

\* They sell at P, in their last step only.
LEMMA SellSteps ==
  ASSUME NEW n \in Sessions, NEW k \in DOMAIN CorrectnessSequences[n], n <= 2,
         CorrectnessSequences[n][k].side = "sell"
  PROVE  CorrectnessSequences[n][k].price = P /\ k = Len(CorrectnessSequences[n])
<1> DEFINE Fits(m, i) ==
      CorrectnessSequences[m][i].side = "sell" =>
        CorrectnessSequences[m][i].price = P /\ i = Len(CorrectnessSequences[m])
<1>1. Fits(1, 1) /\ Fits(1, 2) /\ Fits(2, 1) /\ Fits(2, 2) /\ Fits(2, 3)
  BY BasicMatchSteps, PriorityFillSteps, Lengths DEF StepIs
<1>2. Fits(n, k)
  <2> HIDE DEF Fits
  <2>. QED
    BY <1>1, Positions
<1>. QED
  BY <1>2

\* What the engine takes from a wire is a message of a script.
LEMMA EngineKeepsSells ==
  ASSUME Basics, Sells, NEW s \in Sessions, Disturbs(s)
  PROVE  Sells'
<1>. USE DEF Basics
<1>1. UNCHANGED <<pc, seq, at>> /\ (Final' <=> Final) /\ Sessions = 1..5
  BY BotFixed, Lengths DEF Disturbs
<1> SUFFICES ASSUME seq <= 2, NEW n \in 1..Len(made'), made'[n].side = "sell"
             PROVE  made'[n].price = P /\ (made'[n].owner = seq => Final)
  BY <1>1 DEF Sells
<1>2. CASE n \in 1..Len(made)
  BY <1>2, ZenonT(30) DEF Sells, Disturbs
<1>3. CASE ~(n \in 1..Len(made))
  <2>1. Len(made) \in Nat /\ Len(made') \in Nat
    BY BookOrders DEF Disturbs
  <2>2. n > Len(made)
    BY <1>3, <2>1
  <2>3. PICK j \in DOMAIN wire[s] : /\ made'[n].side = wire[s][j].side
                                    /\ made'[n].price = wire[s][j].price
    BY <2>2 DEF Disturbs
  <2>4. made'[n].owner = s
    BY <2>2 DEF Disturbs
  <2>5. PICK k \in DOMAIN CorrectnessSequences[s] :
          wire[s][j] = CorrectnessSequences[s][k] /\ (s = seq => k <= at)
    BY DEF FromScript
  <2>6. s <= seq /\ seq \in 1..5
    <3>1. wire[s] # << >>
      BY <2>3
    <3>2. Begun(s)
      BY <3>1 DEF NotBegun
    <3>3. s \in 1..5 /\ seq \in 1..5
      BY <1>1 DEF Typed
    <3>. QED
      BY <3>2, <3>3 DEF Begun
  <2>7. s <= 2
    BY <1>1, <2>6
  <2>8. made'[n].price = P /\ k = Len(CorrectnessSequences[s])
    BY <2>3, <2>5, <2>7, SellSteps
  <2>9. s = seq => Final
    <3>1. ASSUME s = seq PROVE at <= k /\ k <= at /\ at \in 1..4 /\ k \in 1..4
      <4>1. at \in DOMAIN CorrectnessSequences[seq] /\ seq \in Sessions
        BY DEF Typed, Script
      <4>2. at \in 1..4 /\ at <= Len(CorrectnessSequences[seq])
        BY <4>1, Positions
      <4>3. k \in 1..4
        BY Positions
      <4>. QED
        BY <2>5, <2>8, <3>1, <4>2, <4>3
    <3>2. ASSUME s = seq PROVE at = k
      BY <3>1, <3>2
    <3>. QED
      BY <2>8, <3>2 DEF Final, Script
  <2>. QED
    BY <2>4, <2>8, <2>9
<1>. QED
  BY <1>2, <1>3

\* The bot's steps make no order.
LEMMA BotKeepsSells ==
  ASSUME Basics, Basics', Sells, made' = made,
         \/ seq' = seq /\ (at' = at \/ ~Final)
         \/ NextSequence
  PROVE  Sells'
<1>. USE DEF Basics
<1> SUFFICES ASSUME seq' <= 2, NEW n \in 1..Len(made), made[n].side = "sell"
             PROVE  made[n].price = P /\ (made[n].owner = seq' => Final')
  BY DEF Sells
<1>1. CASE seq' = seq /\ (at' = at \/ ~Final)
  <2>1. made[n].price = P /\ (made[n].owner = seq => Final)
    BY <1>1 DEF Sells
  <2>2. at' = at => (Final' <=> Final)
    BY <1>1 DEF Final, Script
  <2>. QED
    BY <1>1, <2>1, <2>2
<1>2. CASE NextSequence
  <2>1. /\ seq \in 1..5 /\ seq' \in Sessions /\ Sessions = 1..5
        /\ seq = 5 => seq' = seq
        /\ seq # 5 => pc' = "dial" /\ seq' = seq + 1
    BY <1>2, NextSequenceEffect
  <2>2. seq <= 2 /\ pc' = "dial"
    BY <2>1
  <2>3. made[n].price = P
    BY <2>2 DEF Sells
  <2>4. PICK m \in Sessions : m = seq'
    BY <2>1
  <2>5. ~Begun(m)'
    BY <2>1, <2>2, <2>4 DEF Begun
  <2>6. made[n].owner # m
    BY <2>5 DEF NotBegun
  <2>. QED
    BY <2>3, <2>4, <2>6
<1>. QED
  BY <1>1, <1>2

\* A reply without fresh fills brings none.
LEMMA StaleReply ==
  ASSUME Typed, NEW msgs \in Seq(Message), inbox' = [inbox EXCEPT ![seq] = @ \o msgs]
  PROVE  /\ StaleFills(inbox[seq]) /\ StaleFills(msgs) => StaleFills(inbox'[seq])
         /\ (\A i \in DOMAIN inbox[seq] :
               (\A h \in 1..i : inbox[seq][h].type # "ack") => Stale(inbox[seq][i]))
            /\ (StaleFills(msgs) \/ (Len(msgs) > 0 /\ msgs[1].type = "ack")) =>
              \A i \in DOMAIN inbox'[seq] :
               (\A h \in 1..i : inbox'[seq][h].type # "ack") => Stale(inbox'[seq][i])
<1>0. seq \in Sessions
  BY DEF Typed
<1>1. PICK q, r, n : q = inbox[seq] /\ r = inbox'[seq] /\ n = Len(inbox[seq])
  OBVIOUS
<1>2. /\ n \in Nat /\ Len(msgs) \in Nat /\ DOMAIN r = 1..(n + Len(msgs)) /\ DOMAIN q = 1..n
      /\ \A i \in DOMAIN q : r[i] = q[i]
      /\ \A i \in DOMAIN r : i > n => i - n \in 1..Len(msgs) /\ r[i] = msgs[i - n]
  <2>1. /\ Len(inbox'[seq]) = Len(inbox[seq]) + Len(msgs) /\ Len(inbox[seq]) \in Nat
        /\ Len(msgs) \in Nat
        /\ DOMAIN inbox'[seq] = 1..Len(inbox'[seq]) /\ DOMAIN inbox[seq] = 1..Len(inbox[seq])
        /\ \A i \in DOMAIN inbox[seq] : inbox'[seq][i] = inbox[seq][i]
        /\ \A i \in DOMAIN inbox'[seq] : i > Len(inbox[seq]) =>
              i - Len(inbox[seq]) \in 1..Len(msgs) /\ inbox'[seq][i] = msgs[i - Len(inbox[seq])]
    BY <1>0, ReplyEffect, ZenonT(30)
  <2>. QED
    BY <1>1, <2>1
<1>3. DOMAIN msgs = 1..Len(msgs)
  OBVIOUS
<1>4. ASSUME StaleFills(msgs), NEW i \in DOMAIN r, i > n
      PROVE  Stale(r[i])
  BY <1>2, <1>3, <1>4 DEF StaleFills
<1>5. ASSUME StaleFills(q), StaleFills(msgs)
      PROVE  StaleFills(r)
  <2> SUFFICES ASSUME NEW i \in DOMAIN r PROVE Stale(r[i])
    BY DEF StaleFills
  <2>1. CASE i > n
    BY <1>4, <1>5, <2>1
  <2>2. CASE ~(i > n)
    <3>1. i \in DOMAIN q
      BY <1>2, <2>2
    <3>. QED
      BY <1>2, <1>5, <3>1 DEF StaleFills
  <2>. QED
    BY <2>1, <2>2
<1>6. ASSUME \A i \in DOMAIN q : (\A h \in 1..i : q[h].type # "ack") => Stale(q[i]),
             StaleFills(msgs) \/ (Len(msgs) > 0 /\ msgs[1].type = "ack"),
             NEW i \in DOMAIN r, \A h \in 1..i : r[h].type # "ack"
      PROVE  Stale(r[i])
  <2>1. CASE i > n
    <3>1. CASE StaleFills(msgs)
      BY <1>4, <2>1, <3>1
    <3>2. CASE Len(msgs) > 0 /\ msgs[1].type = "ack"
      <4>1. PICK k : k = n + 1
        OBVIOUS
      <4>2. k \in 1..i /\ k \in DOMAIN r /\ k > n /\ k - n = 1
        BY <1>2, <2>1, <3>2, <4>1
      <4>3. r[k] = msgs[1]
        BY <1>2, <4>2
      <4>. QED
        BY <1>6, <3>2, <4>2, <4>3
    <3>. QED
      BY <1>6, <3>1, <3>2
  <2>2. CASE ~(i > n)
    <3>1. i \in DOMAIN q /\ \A h \in 1..i : h \in DOMAIN q
      BY <1>2, <2>2
    <3>2. \A h \in 1..i : q[h].type # "ack"
      BY <1>2, <1>6, <3>1
    <3>. QED
      BY <1>2, <1>6, <3>1, <3>2
  <2>. QED
    BY <2>1, <2>2
<1>. QED
  BY <1>1, <1>5, <1>6

\* Before the last step the fills are stale: whatever the bot buys it buys at P, and of
\* an order of another sequence.
LEMMA StaleMatch ==
  ASSUME Basics, Sells, seq <= 2, ~Final, EngineMatches(seq)
  PROVE  Stale(Fill(made[Engine!BestOpposite].price, Engine!MatchedQty))
<1>. USE DEF Basics
<1>1. /\ seq \in Sessions /\ seq \in 1..5 /\ Sessions = 1..5 /\ Engine!MatchOne(seq)
      /\ seq # NoSession
  BY Lengths, EngineConstants DEF Typed, EngineMatches
<1>2. PICK b, q : b = Engine!BestOpposite /\ q = Engine!MatchedQty
  OBVIOUS
<1>3. /\ mu = seq /\ b \in InBook /\ made[b].side # Newest.side
  BY <1>1, <1>2, MatchEffect
<1>4. Len(made) \in 1..Len(made) /\ Newest.owner = seq
  BY <1>1, <1>3, Holder
<1>5. Newest.side # "sell"
  BY <1>4 DEF Sells, Newest
<1>6. made[b].side = "sell" /\ b \in 1..Len(made) /\ made[b].owner \in Sessions
  BY <1>3, <1>4, <1>5, BookOrders DEF Newest
<1>7. made[b].price = P /\ made[b].owner # seq
  BY <1>6 DEF Sells
<1>8. seq # 1
  <2>1. ASSUME seq = 1 PROVE FALSE
    <3>1. PICK o \in Sessions : o = made[b].owner
      BY <1>6
    <3>2. ~Begun(o)
      BY <1>1, <1>7, <2>1, <3>1 DEF Begun
    <3>. QED
      BY <1>6, <3>1, <3>2 DEF NotBegun
  <2>. QED
    BY <2>1
<1>. QED
  BY <1>2, <1>7, <1>8, Messages DEF Stale

\* The replies of the bot's session.
LEMMA OwnReplies ==
  ASSUME Basics, InStep, Sells, NoEarlyFill, seq <= 2, EngineStep(seq)
  PROVE  /\ ~Final /\ mu' = seq => StaleFills(says')
         /\ \/ inbox' = inbox
            \/ \E msgs \in Seq(Message) :
                 /\ inbox' = [inbox EXCEPT ![seq] = @ \o msgs]
                 /\ ~Final => StaleFills(msgs)
                 /\ pc = "read" => StaleFills(msgs) \/ (Len(msgs) > 0 /\ msgs[1].type = "ack")
<1>. USE DEF Basics
<1>1. seq \in Sessions /\ seq # NoSession /\ says \in Seq(Message)
  BY EngineConstants DEF Typed
<1>2. CASE Places(seq)
  <2>1. says' = <<Ack>> /\ inbox' = inbox
    BY <1>2 DEF Places
  <2>2. StaleFills(<<Ack>>)
    BY Messages DEF StaleFills, Stale
  <2>. QED
    BY <2>1, <2>2
<1>3. CASE Cancels(seq) \/ Refuses(seq)
  <2>1. mu' # seq
    <3>1. mu = NoSession /\ wire[seq] # << >>
      BY <1>3 DEF Cancels, Refuses, Reads
    <3>2. CASE Cancels(seq)
      <4>1. Head(wire[seq]).tag \in OrderIds
        BY <1>1, <3>2, ReadsEffect, StepShape DEF Cancels
      <4>2. mu' = mu
        BY <1>1, <3>2, <4>1, CancelEffect DEF Cancels
      <4>. QED
        BY <1>1, <3>1, <4>2
    <3>3. CASE Refuses(seq)
      BY <1>1, <3>1, <3>3, RefusesDisturbs
    <3>. QED
      BY <1>3, <3>2, <3>3
  <2>2. \E msgs \in Seq(Message) :
          inbox' = [inbox EXCEPT ![seq] = @ \o msgs] /\ StaleFills(msgs)
    <3>1. <<Msg("cancel_ack", 0, 0)>> \in Seq(Message) /\ StaleFills(<<Msg("cancel_ack", 0, 0)>>)
      BY Messages DEF StaleFills, Stale
    <3>2. Rejected \in Seq(Message) /\ StaleFills(Rejected)
      BY Messages DEF StaleFills, Stale
    <3>. QED
      BY <1>3, <3>1, <3>2 DEF Cancels, Refuses
  <2>. QED
    BY <2>1, <2>2
<1>4. CASE EngineMatches(seq)
  <2>1. inbox' = inbox /\ mu = seq
    BY <1>4 DEF EngineMatches, Engine!MatchOne
  <2>2. ASSUME ~Final PROVE StaleFills(says')
    <3>1. PICK m : m = Fill(made[Engine!BestOpposite].price, Engine!MatchedQty)
      OBVIOUS
    <3>2. Stale(m) /\ m \in Message /\ says' = Append(says, m)
      BY <1>1, <1>4, <2>2, <3>1, StaleMatch, MatchesDisturbs, Messages
    <3>3. StaleFills(says)
      BY <2>1, <2>2 DEF NoEarlyFill
    <3>4. /\ DOMAIN says' = 1..(Len(says) + 1) /\ DOMAIN says = 1..Len(says) /\ Len(says) \in Nat
          /\ says'[Len(says) + 1] = m /\ \A i \in 1..Len(says) : says'[i] = says[i]
      BY <1>1, <3>2
    <3>. QED
      BY <3>2, <3>3, <3>4 DEF StaleFills
  <2>. QED
    BY <2>1, <2>2
<1>5. CASE EngineAnswers(seq)
  <2>1. mu = seq /\ mu' = NoSession
    BY <1>1, <1>5, FinishEffect DEF EngineAnswers
  <2>2. PICK msgs \in Seq(Message) :
          /\ inbox' = [inbox EXCEPT ![seq] = @ \o msgs]
          /\ msgs = says \o IF Unfilled THEN Rejected ELSE << >>
    BY <1>1, <1>5, AnswersDisturbs
  <2>3. ASSUME ~Final PROVE StaleFills(msgs)
    <3>1. StaleFills(says)
      BY <2>1, <2>3 DEF NoEarlyFill
    <3>2. PICK r \in Seq(Message) : msgs = says \o r /\ StaleFills(r)
      <4>1. << >> \in Seq(Message) /\ StaleFills(<< >>)
        BY DEF StaleFills
      <4>2. Rejected \in Seq(Message) /\ StaleFills(Rejected)
        BY Messages DEF StaleFills, Stale
      <4>. QED
        BY <2>2, <4>1, <4>2
    <3>3. \A i \in DOMAIN msgs :
            (i \in DOMAIN says /\ msgs[i] = says[i])
              \/ (i - Len(says) \in DOMAIN r /\ msgs[i] = r[i - Len(says)])
      BY <1>1, <3>2
    <3>. QED
      BY <3>1, <3>2, <3>3 DEF StaleFills
  <2>4. ASSUME pc = "read" PROVE Len(msgs) > 0 /\ msgs[1].type = "ack"
    <3>1. AtIt
      BY <2>1, <2>4 DEF InStep, Sent, Answered
    <3>2. Len(says) > 0 /\ says[1].type = "ack"
      BY <3>1 DEF AtIt
    <3>3. PICK r \in Seq(Message) : msgs = says \o r
      <4>1. << >> \in Seq(Message) /\ Rejected \in Seq(Message)
        BY Messages
      <4>. QED
        BY <2>2, <4>1
    <3>. QED
      BY <1>1, <3>2, <3>3
  <2>. QED
    BY <1>1, <2>1, <2>2, <2>3, <2>4
<1>6. CASE EngineEndsSession(seq)
  BY <1>1, <1>6, EndsDisturbs
<1>. QED
  BY <1>1, <1>2, <1>3, <1>4, <1>5, <1>6, EngineCases

\* The engine says no fill the last step expects before it has that step.
LEMMA EngineKeepsNoEarlyFill ==
  ASSUME Basics, InStep, Sells, NoEarlyFill, NEW s \in Sessions, EngineStep(s)
  PROVE  NoEarlyFill'
<1>. USE DEF Basics
<1>0. Disturbs(s)
  BY EngineDisturbs
<1>1. UNCHANGED <<open, pc, seq, at, got>> /\ (Final' <=> Final) /\ seq \in Sessions
  BY <1>0, BotFixed DEF Disturbs, Typed
<1>2. \A m : Stale(m)' <=> Stale(m)
  BY <1>1 DEF Stale
<1>3. \A msgs : StaleFills(msgs)' <=> StaleFills(msgs)
  BY <1>2 DEF StaleFills
<1>4. Got("ack", got)' <=> Got("ack", got)
  BY <1>1 DEF Got
<1> DEFINE Early(q) == \A i \in DOMAIN q : (\A h \in 1..i : q[h].type # "ack") => Stale(q[i])
<1>5. ASSUME seq <= 2
      PROVE  /\ ~Final => StaleFills(inbox'[seq]) /\ (mu' = seq => StaleFills(says'))
             /\ Final /\ pc = "send" /\ seq \in open => StaleFills(inbox'[seq])
             /\ Final /\ pc = "read" /\ ~Got("ack", got) => Early(inbox'[seq])
  <2>1. /\ ~Final => StaleFills(inbox[seq]) /\ (mu = seq => StaleFills(says))
        /\ Final /\ pc = "send" /\ seq \in open => StaleFills(inbox[seq])
        /\ Final /\ pc = "read" /\ ~Got("ack", got) => Early(inbox[seq])
    BY <1>5 DEF NoEarlyFill
  <2>2. CASE s # seq
    <3>1. /\ inbox'[seq] = inbox[seq]
          /\ mu # seq => mu' # seq
          /\ mu = seq => mu' = mu /\ made' = made /\ says' = says
      BY <2>2, OthersAtStep
    <3>. QED
      BY <2>1, <3>1
  <2>3. CASE s = seq
    <3>1. ~Final /\ mu' = seq => StaleFills(says')
      BY <1>5, <2>3, OwnReplies
    <3>2. CASE inbox' = inbox
      BY <2>1, <3>1, <3>2
    <3>3. CASE inbox' # inbox
      <4>1. PICK msgs \in Seq(Message) :
               /\ inbox' = [inbox EXCEPT ![seq] = @ \o msgs]
               /\ ~Final => StaleFills(msgs)
               /\ pc = "read" => StaleFills(msgs) \/ (Len(msgs) > 0 /\ msgs[1].type = "ack")
        BY <1>5, <2>3, <3>3, OwnReplies
      <4>2. ~Final => StaleFills(inbox'[seq])
        BY <2>1, <4>1, StaleReply
      <4>3. ~(pc = "send" /\ seq \in open)
        BY <2>3, OwnSession
      <4>4. Final /\ pc = "read" /\ ~Got("ack", got) => Early(inbox'[seq])
        BY <2>1, <4>1, StaleReply
      <4>. QED
        BY <3>1, <4>2, <4>3, <4>4
    <3>. QED
      BY <3>2, <3>3
  <2>. QED
    BY <2>2, <2>3
<1>6. ASSUME seq <= 2
      PROVE  /\ ~Final => StaleFills(got)
             /\ Final /\ pc \in {"read", "check"} /\ ~Got("ack", got) => StaleFills(got)
  BY <1>6 DEF NoEarlyFill
<1>7. Early(inbox'[seq]) <=>
        \A i \in DOMAIN inbox'[seq'] :
          (\A h \in 1..i : inbox'[seq'][h].type # "ack") => Stale(inbox[seq][i])'
  BY <1>1, <1>2
<1> HIDE DEF Early
<1>8. ASSUME seq <= 2 PROVE
        /\ ~Final => /\ StaleFills(inbox[seq])' /\ StaleFills(got)'
                     /\ mu' = seq => StaleFills(says)'
        /\ Final /\ pc = "send" /\ seq \in open => StaleFills(inbox[seq])'
        /\ Final /\ pc = "read" /\ ~Got("ack", got) =>
             /\ StaleFills(got)'
             /\ \A i \in DOMAIN inbox'[seq'] :
                  (\A h \in 1..i : inbox'[seq'][h].type # "ack") => Stale(inbox[seq][i])'
        /\ Final /\ pc = "check" /\ ~Got("ack", got) => StaleFills(got)'
  <2>1. /\ StaleFills(inbox[seq])' <=> StaleFills(inbox'[seq])
        /\ StaleFills(got)' <=> StaleFills(got)
        /\ StaleFills(says)' <=> StaleFills(says')
    BY <1>1 DEF StaleFills, Stale
  <2>. QED
    BY <1>5, <1>6, <1>7, <1>8, <2>1
<1>. QED
  BY <1>1, <1>4, <1>8 DEF NoEarlyFill

\* A sequence that has not begun has heard nothing.
LEMMA NothingEarly ==
  ASSUME Basics', got' = << >>, \A n \in Sessions : n = seq' => inbox'[n] = << >> /\ mu' # n,
         pc' \in {"dial", "send", "done"}
  PROVE  NoEarlyFill'
<1>1. seq' \in Sessions
  BY DEF Basics, Typed
<1>2. inbox'[seq'] = << >> /\ mu' # seq'
  BY <1>1
<1>3. StaleFills(inbox[seq])' /\ StaleFills(got)'
  BY <1>2 DEF StaleFills
<1>. QED
  BY <1>2, <1>3 DEF NoEarlyFill

\* A sequence begins with nothing read and nothing to read.
LEMMA BeginningsKeepNoEarlyFill ==
  ASSUME Basics, NoEarlyFill, Dial \/ DialFails \/ CloseConn
  PROVE  NoEarlyFill'
<1>. USE DEF Basics
<1>0. Sessions = 1..5 /\ seq \in Sessions
  BY Lengths DEF Typed
<1>1. CASE Dial
  <2>1. /\ Basics' /\ UNCHANGED <<inbox, seq, got, mu>> /\ pc = "dial" /\ pc' = "send"
        /\ session[seq] = "closed"
    BY <1>1, DialKeepsBasics
  <2>2. ~Begun(seq)
    BY <1>0, <2>1 DEF Begun
  <2>3. inbox[seq] = << >> /\ got = << >>
    BY <1>0, <2>1, <2>2 DEF NotBegun
  <2>4. mu # seq
    BY <1>0, <2>1, Holder, EngineConstants
  <2>. QED
    BY <2>1, <2>3, <2>4, NothingEarly
<1>2. CASE DialFails \/ CloseConn
  <2>1. Basics' /\ UNCHANGED engine /\ inbox' = inbox /\ NextSequence
    BY <1>2, DialFailsKeepsBasics, CloseConnKeepsBasics
  <2>2. /\ got' = << >> /\ pc' \in {"dial", "done"} /\ seq \in 1..5
        /\ seq = 5 => seq' = seq
        /\ seq # 5 => pc' = "dial" /\ seq' = seq + 1
    BY <2>1, NextSequenceEffect
  <2>3. CASE seq = 5
    BY <2>2, <2>3 DEF NoEarlyFill
  <2>4. CASE seq # 5
    <3>1. ASSUME NEW n \in Sessions, n = seq' PROVE inbox'[n] = << >> /\ mu' # n
      <4>1. ~Begun(n)
        BY <1>0, <2>2, <2>4, <3>1 DEF Begun
      <4>2. session[n] = "closed" /\ inbox[n] = << >>
        BY <4>1 DEF NotBegun
      <4>3. mu # n
        BY <4>2, Holder, EngineConstants
      <4>. QED
        BY <2>1, <4>2, <4>3 DEF engine, book
    <3>. QED
      BY <2>1, <2>2, <3>1, NothingEarly
  <2>. QED
    BY <2>3, <2>4
<1>. QED
  BY <1>1, <1>2

\* A step begins with nothing read.
LEMMA SendKeepsNoEarlyFill ==
  ASSUME Basics, NoEarlyFill, Send
  PROVE  NoEarlyFill'
<1>1. /\ UNCHANGED <<inbox, open, seq, at>> /\ UNCHANGED <<mu, says>>
      /\ pc = "send" /\ seq \in open /\ pc' = "read" /\ got' = << >>
  BY SendKeepsBasics DEF engine, book
<1>2. (Final' <=> Final) /\ StaleFills(got)'
  BY <1>1 DEF Final, Script, StaleFills
<1>3. /\ StaleFills(inbox[seq])' <=> StaleFills(inbox[seq])
      /\ StaleFills(says)' <=> StaleFills(says)
  BY <1>1 DEF StaleFills, Stale
<1>4. seq <= 2 =>
        /\ ~Final => StaleFills(inbox[seq]) /\ (mu = seq => StaleFills(says))
        /\ Final => StaleFills(inbox[seq])
  BY <1>1 DEF NoEarlyFill
<1>5. StaleFills(inbox[seq]) => \A i \in DOMAIN inbox[seq] : Stale(inbox[seq][i])'
  BY <1>1 DEF StaleFills, Stale
<1>6. StaleFills(inbox[seq]) =>
        \A i \in DOMAIN inbox'[seq'] :
          (\A h \in 1..i : inbox'[seq'][h].type # "ack") => Stale(inbox[seq][i])'
  BY <1>1, <1>5
<1>. QED
  BY <1>1, <1>2, <1>3, <1>4, <1>6 DEF NoEarlyFill

\* What is read was on the connection.
LEMMA ReadKeepsNoEarlyFill ==
  ASSUME Basics, NoEarlyFill, Read
  PROVE  NoEarlyFill'
<1>. USE DEF Basics
<1>1. /\ UNCHANGED <<open, seq, at>> /\ UNCHANGED <<mu, says>>
      /\ pc = "read" /\ seq \in open /\ inbox[seq] # << >>
      /\ inbox'[seq] = Tail(inbox[seq]) /\ got' = Append(got, Head(inbox[seq]))
      /\ Head(inbox[seq]) = inbox[seq][1] /\ Head(inbox[seq]) \in Message
      /\ pc' \in {"check", "read"}
  BY ReadKeepsBasics DEF engine, book
<1>2. PICK m, in, n : m = Head(inbox[seq]) /\ in = inbox[seq] /\ n = Len(inbox[seq])
  OBVIOUS
<1>3. in \in Seq(Message) /\ got \in Seq(Message) /\ in # << >>
  BY <1>1, <1>2 DEF Typed
<1>4. /\ n \in Nat /\ n > 0 /\ m = in[1] /\ DOMAIN in = 1..n /\ DOMAIN inbox'[seq] = 1..(n - 1)
      /\ \A i \in 1..(n - 1) : i + 1 \in DOMAIN in /\ inbox'[seq][i] = in[i + 1]
  BY <1>1, <1>2, <1>3
<1>5. /\ DOMAIN got' = 1..(Len(got) + 1) /\ got'[Len(got) + 1] = m /\ Len(got) \in Nat
      /\ DOMAIN got = 1..Len(got) /\ \A i \in DOMAIN got : got'[i] = got[i]
  BY <1>1, <1>2, <1>3
<1>6. (Final' <=> Final) /\ (Got("ack", got)' <=> Got("ack", got) \/ m.type = "ack")
  BY <1>1, <1>5 DEF Final, Script, Got
<1>7. /\ StaleFills(inbox[seq])' <=> StaleFills(inbox'[seq])
      /\ StaleFills(got)' <=> StaleFills(got')
      /\ StaleFills(says)' <=> StaleFills(says)
      /\ \A x : Stale(x)' <=> Stale(x)
  BY <1>1 DEF StaleFills, Stale
<1>8. StaleFills(in) => StaleFills(inbox'[seq]) /\ Stale(m)
  BY <1>4, SMTT(20) DEF StaleFills
<1>9. StaleFills(got) /\ Stale(m) => StaleFills(got')
  BY <1>5 DEF StaleFills
<1> DEFINE Early(q) == \A i \in DOMAIN q : (\A h \in 1..i : q[h].type # "ack") => Stale(q[i])
<1>10. ASSUME Early(in), m.type # "ack"
       PROVE  Stale(m) /\ Early(inbox'[seq])
  <2>1. Stale(m)
    BY <1>4, <1>10
  <2>2. ASSUME NEW i \in DOMAIN inbox'[seq], \A h \in 1..i : inbox'[seq][h].type # "ack"
        PROVE  Stale(inbox'[seq][i])
    <3>1. PICK j : j = i + 1
      OBVIOUS
    <3>2. j \in DOMAIN in /\ inbox'[seq][i] = in[j] /\ i \in 1..(n - 1)
      BY <1>4, <2>2, <3>1
    <3>3. ASSUME NEW h \in 1..j PROVE in[h].type # "ack"
      <4>1. CASE h = 1
        BY <1>4, <1>10, <4>1
      <4>2. CASE h # 1
        <5>1. PICK g : g = h - 1
          OBVIOUS
        <5>2. g \in 1..i /\ g \in 1..(n - 1) /\ g + 1 = h
          BY <1>4, <3>1, <3>2, <4>2, <5>1
        <5>. QED
          BY <1>4, <2>2, <5>2
      <4>. QED
        BY <4>1, <4>2
    <3>. QED
      BY <1>10, <3>2, <3>3
  <2>. QED
    BY <2>1, <2>2
<1>11. Early(inbox'[seq]) =>
        \A i \in DOMAIN inbox'[seq'] :
          (\A h \in 1..i : inbox'[seq'][h].type # "ack") => Stale(inbox[seq][i])'
  BY <1>1, <1>7
<1>12. seq <= 2 =>
        /\ ~Final => /\ StaleFills(in) /\ StaleFills(got)
                     /\ mu = seq => StaleFills(says)
        /\ Final /\ ~Got("ack", got) => StaleFills(got) /\ Early(in)
  BY <1>1, <1>2 DEF NoEarlyFill
<1> HIDE DEF Early
<1>. QED
  BY <1>1, <1>6, <1>7, <1>8, <1>9, <1>10, <1>11, <1>12 DEF NoEarlyFill

\* The other steps of a sequence bring no message.
LEMMA OthersKeepNoEarlyFill ==
  ASSUME Basics, NoEarlyFill, WriteFails \/ ReadFails \/ Check \/ QueryFails \/ ContextEnds
  PROVE  NoEarlyFill'
<1>. USE DEF Basics
<1>1. UNCHANGED engine /\ UNCHANGED <<inbox, seq, got>> /\ open' \subseteq open
  BY WriteFailsKeepsBasics, ReadFailsKeepsBasics, CheckKeepsBasics, ContextEndsKeepsBasics
<1>2. mu' = mu /\ says' = says
  BY <1>1 DEF engine, book
<1>3. /\ StaleFills(inbox[seq])' <=> StaleFills(inbox[seq])
      /\ StaleFills(got)' <=> StaleFills(got)
      /\ StaleFills(says)' <=> StaleFills(says)
      /\ \A x : Stale(x)' <=> Stale(x)
      /\ Got("ack", got)' <=> Got("ack", got)
  BY <1>1, <1>2 DEF StaleFills, Stale, Got
<1>4. CASE WriteFails \/ ReadFails \/ ContextEnds
  <2>1. at' = at /\ (pc' = "close" \/ (pc = "read" /\ pc' = "check") \/ pc' = pc)
    BY <1>4, WriteFailsKeepsBasics, ReadFailsKeepsBasics, ContextEndsKeepsBasics
  <2>2. Final' <=> Final
    BY <1>1, <2>1 DEF Final, Script
  <2>3. (\A i \in DOMAIN inbox[seq] :
          (\A h \in 1..i : inbox[seq][h].type # "ack") => Stale(inbox[seq][i])) =>
        (\A i \in DOMAIN inbox'[seq'] :
          (\A h \in 1..i : inbox'[seq'][h].type # "ack") => Stale(inbox[seq][i])')
    BY <1>1, <1>3
  <2>4. seq <= 2 /\ Final => /\ pc' = "send" /\ seq' \in open' => StaleFills(inbox[seq])
                             /\ pc' = "check" /\ ~Got("ack", got) => StaleFills(got)
                             /\ pc' = "read" /\ ~Got("ack", got) => StaleFills(got)
    BY <1>1, <2>1 DEF NoEarlyFill
  <2>. QED
    BY <1>1, <1>2, <1>3, <2>1, <2>2, <2>3, <2>4 DEF NoEarlyFill
<1>5. CASE Check \/ QueryFails
  <2>1. NextStep /\ pc = "check"
    BY <1>5, CheckKeepsBasics
  <2>2. /\ Final => pc' = "close" /\ at' = at
        /\ ~Final => pc' = "send" /\ at' = at + 1
    BY <2>1, NextStepEffect
  <2>3. CASE Final
    <3>1. Final'
      BY <1>1, <2>2, <2>3 DEF Final, Script
    <3>. QED
      BY <1>1, <2>2, <2>3, <3>1 DEF NoEarlyFill
  <2>4. CASE ~Final
    <3>1. seq <= 2 => StaleFills(inbox[seq]) /\ StaleFills(got) /\ (mu = seq => StaleFills(says))
      BY <2>4 DEF NoEarlyFill
    <3>. QED
      BY <1>1, <1>2, <1>3, <2>2, <2>4, <3>1 DEF NoEarlyFill
  <2>. QED
    BY <2>3, <2>4
<1>. QED
  BY <1>4, <1>5

-----------------------------------------------------------------------------
(* The score.                                                               *)

\* What a sequence may score, as numbers.
LEMMA Budgets ==
  ASSUME Typed
  PROVE  /\ seq \in 1..5 /\ Sessions = 1..5
         /\ \A n \in Sessions :
              /\ passed[n] \in Nat /\ failed[n] \in Nat /\ Full(n) \in Nat /\ 1 <= Full(n)
              /\ Worth[n][1] = 0
              /\ n < seq => Budget(n) = Full(n)
              /\ n > seq => Budget(n) = 0
         /\ pc = "dial" => Budget(seq) = 0
         /\ pc \in {"send", "read", "check"} => Budget(seq) = Worth[seq][at]
         /\ pc \in {"close", "done"} => Budget(seq) = Full(seq)
         /\ Worth[seq][at] \in Nat /\ Worth[seq][at] + 1 <= Full(seq)
<1>1. seq \in 1..5 /\ Sessions = 1..5
  BY Lengths DEF Typed
<1>2. ASSUME NEW n \in Sessions
      PROVE  Full(n) \in Nat /\ 1 <= Full(n) /\ Worth[n][1] = 0
  <2>1. 1 \in DOMAIN CorrectnessSequences[n]
    BY <1>1 DEF CorrectnessSequences, cxBasicMatch, cxPriorityFill, cxPartialFill, cxCancel,
       cxRejectMarketNoLiquidity
  <2>2. Worth[n][1] = 0 /\ Full(n) \in Nat /\ Worth[n][1] + 1 <= Full(n)
    BY <2>1, StepWorth
  <2>. QED
    BY <2>2
<1>3. Worth[seq][at] \in Nat /\ Worth[seq][at] + 1 <= Full(seq)
  BY StepWorth DEF Typed, Script
<1>4. \A n \in Sessions : passed[n] \in Nat /\ failed[n] \in Nat
  BY DEF Typed
<1>5. \A n \in Sessions : n < seq => Budget(n) = Full(n)
  BY <1>1 DEF Budget, Begun
<1>6. \A n \in Sessions : n > seq => Budget(n) = 0
  BY <1>1 DEF Budget, Begun
<1>7. pc = "dial" => Budget(seq) = 0
  BY <1>1 DEF Budget, Begun
<1>8. pc \in {"send", "read", "check"} => Budget(seq) = Worth[seq][at]
  BY <1>1 DEF Budget, Begun
<1>9. pc \in {"close", "done"} => Budget(seq) = Full(seq)
  BY <1>1 DEF Budget, Begun
<1>. QED
  BY <1>1, <1>2, <1>3, <1>4, <1>5, <1>6, <1>7, <1>8, <1>9

\* A sequence begins with no assertions.
LEMMA DialKeepsScored ==
  ASSUME Basics, Scored, Dial
  PROVE  Scored'
<1>. USE DEF Basics
<1>1. /\ UNCHANGED <<seq, passed, failed>> /\ pc = "dial" /\ pc' = "send" /\ at' = at /\ at = 1
  BY DialKeepsBasics
<1>2. seq \in 1..5 /\ Sessions = 1..5 /\ Worth[seq][1] = 0
  BY Budgets
<1>3. \A n \in Sessions : n # seq => Budget(n)' = Budget(n)
  BY <1>1 DEF Budget, Begun
<1>4. Budget(seq)' = 0 /\ Budget(seq) = 0
  BY <1>1, <1>2 DEF Budget, Begun
<1>. QED
  BY <1>1, <1>3, <1>4 DEF Scored

\* Within a step a sequence counts nothing, or one failure and its end.
LEMMA WithinKeepsScored ==
  ASSUME Basics, Basics', Scored, pc \in {"send", "read", "check"}, UNCHANGED <<seq, at>>,
         \A n \in Sessions : n # seq => passed'[n] = passed[n] /\ failed'[n] = failed[n],
         \/ pc' \in {"send", "read", "check"} /\ passed'[seq] = passed[seq] /\ failed'[seq] = failed[seq]
         \/ pc' = "close" /\ passed'[seq] = passed[seq] /\ failed'[seq] = failed[seq] + 1
  PROVE  Scored'
<1>. USE DEF Basics
<1>1. \A n \in Sessions : n # seq => Budget(n)' = Budget(n)
  BY DEF Budget, Begun
<1>2. /\ Budget(seq) = Worth[seq][at] /\ Worth[seq][at] \in Nat /\ Worth[seq][at] + 1 <= Full(seq)
      /\ passed[seq] \in Nat /\ failed[seq] \in Nat /\ seq \in Sessions
  BY Budgets
<1>3. /\ pc' \in {"send", "read", "check"} => Budget(seq)' = Worth[seq][at]
      /\ pc' = "close" => Budget(seq)' = Full(seq)
  BY Lengths, <1>2 DEF Budget, Begun
<1>4. passed[seq] + failed[seq] <= Worth[seq][at]
  BY <1>2 DEF Scored
<1>5. passed'[seq] + failed'[seq] <= Budget(seq)'
  <2>0. Full(seq) \in Nat
    BY <1>2, Budgets
  <2>1. PICK p, f, w, full : /\ p = passed[seq] /\ f = failed[seq] /\ w = Worth[seq][at]
                             /\ full = Full(seq)
    OBVIOUS
  <2>2. p \in Nat /\ f \in Nat /\ w \in Nat /\ full \in Nat /\ w + 1 <= full /\ p + f <= w
    BY <1>2, <1>4, <2>0, <2>1
  <2>3. p + (f + 1) <= full
    BY <2>2
  <2>. QED
    BY <1>3, <2>1, <2>2, <2>3
<1>. QED
  BY <1>1, <1>5 DEF Scored

\* The checks count no more than the step asks.
LEMMA CheckKeepsScored ==
  ASSUME Basics, Scored, Check \/ QueryFails
  PROVE  Scored'
<1>. USE DEF Basics
<1>1. pc = "check" /\ NextStep /\ seq' = seq
      /\ (Score(BookAssertions) \/ Score(<<FALSE>>))
  BY CheckKeepsBasics
<1>2. /\ \A n \in Sessions : n # seq => passed'[n] = passed[n] /\ failed'[n] = failed[n]
      /\ passed'[seq] + failed'[seq] <= passed[seq] + failed[seq] + Asked(Step) + Looked(Step)
      /\ passed' \in [Sessions -> Nat] /\ failed' \in [Sessions -> Nat]
  BY <1>1, ScoreEffect
<1>3. /\ Final => pc' = "close"
      /\ ~Final => pc' = "send" /\ at' = at + 1
  BY <1>1, NextStepEffect
<1>4. /\ Budget(seq) = Worth[seq][at] /\ Worth[seq][at] \in Nat
      /\ passed[seq] \in Nat /\ failed[seq] \in Nat /\ seq \in Sessions /\ seq \in 1..5
  BY <1>1, Budgets
<1>5. /\ Asked(Step) \in Nat /\ Looked(Step) \in Nat
      /\ Worth[seq][at + 1] = Worth[seq][at] + Asked(Step) + Looked(Step)
      /\ Final => Worth[seq][at + 1] = Full(seq)
  BY StepWorth DEF Typed, Step, Script, Final
<1>6. \A n \in Sessions : n # seq => Budget(n)' = Budget(n)
  BY <1>1, <1>3 DEF Budget, Begun
<1>7. Budget(seq)' = Worth[seq][at + 1]
  BY <1>1, <1>3, <1>4, <1>5 DEF Budget, Begun
<1>8. passed'[seq] + failed'[seq] <= Worth[seq][at + 1]
  <2>1. PICK p, f, w, a, l, p1, f1 :
          /\ p = passed[seq] /\ f = failed[seq] /\ w = Worth[seq][at]
          /\ a = Asked(Step) /\ l = Looked(Step) /\ p1 = passed'[seq] /\ f1 = failed'[seq]
    OBVIOUS
  <2>2. /\ p \in Nat /\ f \in Nat /\ w \in Nat /\ a \in Nat /\ l \in Nat /\ p1 \in Nat /\ f1 \in Nat
        /\ p + f <= w /\ p1 + f1 <= p + f + a + l
    BY <1>2, <1>4, <1>5, <2>1 DEF Scored
  <2>3. p1 + f1 <= w + a + l
    BY <2>2
  <2>. QED
    BY <1>5, <2>1, <2>3
<1>. QED
  BY <1>1, <1>2, <1>6, <1>7, <1>8 DEF Scored

\* A sequence ends with no more than it has; the next has none.
LEMMA NextSequenceKeepsScored ==
  ASSUME Basics, Scored, NextSequence, passed' = passed,
         (pc = "close" /\ failed' = failed) \/ (pc = "dial" /\ Fail(seq))
  PROVE  Scored'
<1>. USE DEF Basics
<1>1. /\ pc' \in {"dial", "done"} /\ seq \in 1..5 /\ Sessions = 1..5
      /\ seq = 5 => pc' = "done" /\ seq' = seq
      /\ seq # 5 => pc' = "dial" /\ seq' = seq + 1
  BY NextSequenceEffect
<1>2. \A n \in Sessions : n < seq => Budget(n)' = Full(n) /\ Budget(n) = Full(n)
  BY <1>1 DEF Budget, Begun
<1>3. \A n \in Sessions : n > seq => Budget(n)' = 0 /\ Budget(n) = 0
  BY <1>1 DEF Budget, Begun
<1>4. \A n \in Sessions : n = seq => Budget(n)' = Full(n)
  BY <1>1 DEF Budget, Begun
<1>5. passed[seq] \in Nat /\ failed[seq] \in Nat /\ Full(seq) \in Nat /\ 1 <= Full(seq)
      /\ seq \in Sessions
  BY Budgets DEF Typed
<1>6. passed'[seq] + failed'[seq] <= Full(seq)
        /\ \A n \in Sessions : n # seq => failed'[n] = failed[n]
  <2>1. CASE pc = "close" /\ failed' = failed
    BY <1>5, <2>1, Budgets DEF Scored
  <2>2. CASE pc = "dial" /\ Fail(seq)
    <3>1. ~Begun(seq)
      BY <1>1, <2>2 DEF Begun
    <3>2. passed[seq] = 0 /\ failed[seq] = 0
      BY <1>5, <3>1 DEF NotBegun
    <3>3. failed'[seq] = failed[seq] + 1 /\ \A n \in Sessions : n # seq => failed'[n] = failed[n]
      BY <2>2, FailEffect
    <3>. QED
      BY <1>5, <3>2, <3>3
  <2>. QED
    BY <2>1, <2>2
<1>7. \A n \in Sessions : n < seq \/ n = seq \/ n > seq
  BY <1>1
<1>8. \A n \in Sessions : passed[n] + failed[n] <= Budget(n)
  BY DEF Scored
<1>9. \A n \in Sessions : passed'[n] + failed'[n] <= Budget(n)'
  <2>. TAKE n \in Sessions
  <2>1. CASE n # seq
    BY <1>2, <1>3, <1>6, <1>7, <1>8, <2>1
  <2>2. CASE n = seq
    BY <1>4, <1>6, <2>2
  <2>. QED
    BY <2>1, <2>2
<1>. QED
  BY <1>9 DEF Scored

\* Every step of the bot keeps the scores within their budgets.
LEMMA BotKeepsScored ==
  ASSUME Basics, Scored, BotStep \/ ContextEnds
  PROVE  Scored'
<1>. USE DEF Basics
<1>0. seq \in Sessions
  BY DEF Typed
<1>1. CASE Dial
  BY <1>1, DialKeepsScored
<1>2. CASE DialFails \/ CloseConn
  BY <1>2, DialFailsKeepsBasics, CloseConnKeepsBasics, NextSequenceKeepsScored
<1>3. CASE Check \/ QueryFails
  BY <1>3, CheckKeepsScored
<1>4. CASE Send
  <2>1. /\ Basics' /\ UNCHANGED <<seq, at, passed, failed>> /\ pc = "send" /\ pc' = "read"
    BY <1>4, SendKeepsBasics
  <2>. QED
    BY <2>1, WithinKeepsScored
<1>5. CASE Read
  <2>1. /\ Basics' /\ UNCHANGED <<seq, at, passed, failed>> /\ pc = "read" /\ pc' \in {"check", "read"}
    BY <1>5, ReadKeepsBasics
  <2>. QED
    BY <2>1, WithinKeepsScored
<1>6. CASE WriteFails
  <2>1. /\ Basics' /\ UNCHANGED <<seq, at, passed>> /\ pc = "send" /\ pc' = "close" /\ Fail(seq)
    BY <1>6, WriteFailsKeepsBasics
  <2>2. failed'[seq] = failed[seq] + 1 /\ \A n \in Sessions : n # seq => failed'[n] = failed[n]
    BY <2>1, FailEffect
  <2>. QED
    BY <2>1, <2>2, WithinKeepsScored
<1>7. CASE ReadFails
  <2>1. /\ Basics' /\ UNCHANGED <<seq, at, passed>> /\ pc = "read"
        /\ (pc' = "close" /\ Fail(seq)) \/ (pc' = "check" /\ failed' = failed)
    BY <1>7, ReadFailsKeepsBasics
  <2>2. Fail(seq) => failed'[seq] = failed[seq] + 1
                     /\ \A n \in Sessions : n # seq => failed'[n] = failed[n]
    BY FailEffect
  <2>. QED
    BY <2>1, <2>2, WithinKeepsScored
<1>8. CASE ContextEnds
  <2>1. UNCHANGED <<pc, seq, at, passed, failed>>
    BY <1>8, ContextEndsKeepsBasics
  <2>. QED
    BY <2>1 DEF Scored, Budget, Begun
<1>. QED
  BY <1>1, <1>2, <1>3, <1>4, <1>5, <1>6, <1>7, <1>8 DEF BotStep

-----------------------------------------------------------------------------
(* A sequence that lost nothing leaves nothing.                             *)

\* Levels are counted: a side of the book has none only if it is empty, and one order is
\* one level.
LEMMA LevelsCounted ==
  ASSUME Book!IInv, NEW heap \in SUBSET InBook
  PROVE  /\ LevelsOf(heap) = 0 <=> heap = {}
         /\ \A p : heap # {} /\ (\A n \in heap : made[n].price = p) => LevelsOf(heap) = 1
         /\ \A p, q : p # q /\ (\A n \in heap : made[n].price \in {p, q})
                        /\ (\E n \in heap : made[n].price = p) /\ (\E n \in heap : made[n].price = q)
                      => LevelsOf(heap) = 2
<1> DEFINE prices == {made[n].price : n \in heap}
           price == [n \in heap |-> made[n].price]
<1>1. IsFiniteSet(prices)
  <2>1. Len(made) \in Nat /\ heap \in SUBSET (1..Len(made))
    BY BookOrders
  <2>2. IsFiniteSet(1..Len(made))
    BY <2>1, PlacesOf
  <2>3. IsFiniteSet(heap)
    BY <2>1, <2>2, FS_Subset
  <2>4. price \in Surjection(heap, prices)
    BY DEF Surjection
  <2> HIDE DEF price, prices
  <2>. QED
    BY <2>3, <2>4, FS_Surjection
<1>2. LevelsOf(heap) = Cardinality(prices)
  BY DEF LevelsOf
<1>3. Cardinality(prices) = 0 <=> prices = {}
  <2> HIDE DEF prices
  <2>. QED
    BY <1>1, FS_EmptySet
<1>4. prices = {} <=> heap = {}
  OBVIOUS
<1>5. ASSUME NEW p, heap # {}, \A n \in heap : made[n].price = p PROVE LevelsOf(heap) = 1
  <2>1. prices = {p}
    BY <1>5
  <2> HIDE DEF prices
  <2>2. Cardinality({p}) = 1
    BY FS_Singleton
  <2>. QED
    BY <1>2, <2>1, <2>2
<1>6. ASSUME NEW p, NEW q, p # q, \A n \in heap : made[n].price \in {p, q},
             \E n \in heap : made[n].price = p, \E n \in heap : made[n].price = q
      PROVE  LevelsOf(heap) = 2
  <2>1. prices = {p} \cup {q}
    BY <1>6
  <2> HIDE DEF prices
  <2>2. IsFiniteSet({p}) /\ Cardinality({p}) = 1
    BY FS_Singleton
  <2>3. q \notin {p}
    BY <1>6
  <2>4. Cardinality({p} \cup {q}) = Cardinality({p}) + 1
    BY <2>2, <2>3, FS_AddElement
  <2>. QED
    BY <1>2, <2>1, <2>2, <2>4
<1>. QED
  BY <1>2, <1>3, <1>4, <1>5, <1>6

\* The last fill is a fill.
LEMMA LastFillIsOne ==
  ASSUME Typed, Got("fill", got)
  PROVE  \E n \in DOMAIN got : LastFill = got[n] /\ got[n].type = "fill"
<1>1. got \in Seq(Message) /\ Len(got) \in Nat /\ DOMAIN got = 1..Len(got)
  BY DEF Typed
<1>2. Fills # {} /\ Fills \subseteq 1..Len(got)
  BY <1>1 DEF Fills, Got
<1> DEFINE back == {Len(got) - n : n \in Fills}
<1>3. PICK x \in back : \A y \in back : x <= y
  <2>1. back \subseteq Nat /\ back # {}
    BY <1>1, <1>2
  <2> HIDE DEF back
  <2>. QED
    BY <2>1, Book!LeastNatural, EngineConstants
<1>4. PICK n \in Fills : x = Len(got) - n
  BY <1>3
<1>5. \A m \in Fills : m <= n
  <2> SUFFICES ASSUME NEW m \in Fills PROVE m <= n
    OBVIOUS
  <2>1. Len(got) - n <= Len(got) - m
    BY <1>3, <1>4
  <2>2. m \in Nat /\ n \in Nat
    BY <1>1, <1>2
  <2>. QED
    BY <1>1, <2>1, <2>2
<1>6. PICK k \in Fills : LastFill = got[k]
  BY <1>5 DEF LastFill
<1>. QED
  BY <1>6 DEF Fills

\* The last steps of the sequences.
LEMMA LastSteps ==
  ASSUME Typed, Final
  PROVE  /\ seq = 1 \/ seq = 2 \/ seq = 3 \/ seq = 4 \/ seq = 5
         /\ seq \in {1, 2} => /\ Step.act # "cancel" /\ ~Step.reject
                              /\ Step.fill # NoFill /\ (seq = 2 => Step.fill[1] = P1)
         /\ seq \in {3, 4} => Step.act = "cancel" /\ ~Step.reject /\ Step.fill = NoFill
         /\ seq = 5 => Step.act # "cancel" /\ Step.reject /\ Step.fill = NoFill
<1>1. seq = 1 \/ seq = 2 \/ seq = 3 \/ seq = 4 \/ seq = 5
  BY Positions DEF Typed, Script
<1>2. at = Len(CorrectnessSequences[seq]) /\ Step = CorrectnessSequences[seq][at]
  BY DEF Final, Script, Step
<1>3. CASE seq = 1
  BY <1>2, <1>3, BasicMatchSteps, FourPrices, Lengths DEF StepIs, NoFill
<1>4. CASE seq = 2
  BY <1>2, <1>4, PriorityFillSteps, FourPrices, Lengths DEF StepIs, NoFill
<1>5. CASE seq = 3
  BY <1>2, <1>5, PartialFillSteps, FourPrices, Lengths DEF StepIs, NoFill
<1>6. CASE seq = 4
  BY <1>2, <1>6, CancelSteps, FourPrices, Lengths DEF StepIs, NoFill
<1>7. CASE seq = 5
  BY <1>2, <1>7, RejectSteps, FourPrices, Lengths DEF StepIs, NoFill
<1>. QED
  BY <1>1, <1>3, <1>4, <1>5, <1>6, <1>7

\* If the bot stops reading in the last step before it has all the answers, it shows.
LEMMA UnmetShows ==
  ASSUME Basics, InStep, NoEarlyFill, pc = "check", seq \notin open, Final
  PROVE  \E i \in DOMAIN AnswerAssertions : AnswerAssertions[i] = FALSE
<1>. USE DEF Basics
<1>1. ~Enough(got)
  BY DEF InStep
<1>2. CASE seq \in {3, 4}
  <2>1. ~Got("cancel_ack", got) /\ Step.act = "cancel" /\ ~Step.reject /\ Step.fill = NoFill
    BY <1>1, <1>2, LastSteps DEF Enough
  <2>2. DOMAIN AnswerAssertions = 1..1 /\ AnswerAssertions[1] = FALSE
    BY <2>1, AnswersOfOthers
  <2>. QED
    BY <2>2
<1>3. CASE seq = 5
  <2>1. ~Got("reject", got) /\ Step.act # "cancel" /\ Step.reject /\ Step.fill = NoFill
    BY <1>1, <1>3, LastSteps DEF Enough
  <2>2. DOMAIN AnswerAssertions = 1..1 /\ AnswerAssertions[1] = FALSE
    BY <2>1, AnswersOfOthers
  <2>. QED
    BY <2>2
<1>4. CASE seq \in {1, 2}
  <2>1. Step.act # "cancel" /\ ~Step.reject /\ Step.fill # NoFill /\ (seq = 2 => Step.fill[1] = P1)
    BY <1>4, LastSteps
  <2>2. CASE ~Got("fill", got)
    <3>1. DOMAIN AnswerAssertions = 1..1 /\ AnswerAssertions[1] = FALSE
      BY <2>1, <2>2, AnswersOfFill
    <3>. QED
      BY <3>1
  <2>3. CASE Got("fill", got)
    <3>1. ~Got("ack", got)
      BY <1>1, <2>1, <2>3 DEF Enough
    <3>2. StaleFills(got)
      BY <1>4, <3>1 DEF NoEarlyFill
    <3>3. seq # 1 /\ LastFill.price = P
      BY <2>3, <3>2, LastFillIsOne DEF StaleFills, Stale
    <3>4. LastFill.price # Step.fill[1]
      BY <1>4, <2>1, <3>3, FourPrices
    <3>5. /\ DOMAIN AnswerAssertions = 1..(IF Step.fill[2] = 0 THEN 2 ELSE 3)
          /\ AnswerAssertions[2] = FALSE
      BY <2>1, <2>3, <3>4, AnswersOfFill
    <3>6. 2 \in DOMAIN AnswerAssertions
      BY <3>5
    <3>. QED
      BY <3>5, <3>6
  <2>. QED
    BY <2>2, <2>3
<1>. QED
  BY <1>2, <1>3, <1>4, LastSteps

\* Which sequences have ended, and what they have left, changes with the check of a last
\* step only.
LEMMA CheckKeepsLeavesNothing ==
  ASSUME Basics, InStep, NoEarlyFill, LeavesNothing, Check \/ QueryFails
  PROVE  LeavesNothing'
<1>. USE DEF Basics
<1>1. /\ UNCHANGED engine /\ UNCHANGED <<wire, open, seq>>
      /\ pc = "check" /\ NextStep
      /\ \/ mu = NoSession /\ Score(BookAssertions)
         \/ Score(<<FALSE>>)
  BY CheckKeepsBasics
<1>2. UNCHANGED <<made, bids, asks, mu>> /\ seq \in Sessions
  BY <1>1, EngineIdle DEF Typed
<1>3. \A e \in Sessions : Spent(e)' <=> Spent(e)
  BY <1>1, <1>2 DEF Spent
<1> SUFFICES ASSUME NEW e \in Sessions, Ended(e)', failed'[e] = 0
             PROVE  Spent(e)
  BY <1>3 DEF LeavesNothing
<1>4. CASE e # seq
  <2>1. failed'[e] = failed[e]
    BY <1>1, <1>4, ScoreEffect
  <2>2. Ended(e)
    BY <1>1, <1>4 DEF Ended
  <2>. QED
    BY <2>1, <2>2 DEF LeavesNothing
<1>5. CASE e = seq
  <2>1. Final
    <3>1. ~Final => pc' = "send"
      BY <1>1, NextStepEffect
    <3>2. seq \in 1..5
      BY Lengths DEF Typed
    <3>3. pc' \in {"close", "done"}
      BY <1>1, <1>5, <3>2 DEF Ended
    <3>. QED
      BY <3>1, <3>3
  <2>2. failed'[seq] = 0
    BY <1>5
  <2>3. /\ mu = NoSession /\ \A i \in DOMAIN AnswerAssertions : AnswerAssertions[i] # FALSE
        /\ LevelsOf(bids) = Step.levels[1]
        /\ Step.levels[2] # Unchecked => LevelsOf(asks) = Step.levels[2]
    <3>1. ~Score(<<FALSE>>)
      <4>1. Score(<<FALSE>>) => failed'[seq] > 0
        BY ScoreEffect
      <4>. QED
        BY <2>2, <4>1
    <3>2. mu = NoSession /\ Score(BookAssertions)
      BY <1>1, <3>1
    <3>. QED
      BY <2>2, <3>2, ScoreEffect
  <2>4. Step.levels = <<0, 0>>
    BY <2>1, StepWorth DEF Typed, Script, Step, Final
  <2>5. LevelsOf(bids) = 0 /\ LevelsOf(asks) = 0
    BY <2>3, <2>4 DEF Unchecked
  <2>6. bids = {} /\ asks = {}
    BY <2>5, LevelsCounted DEF InBook
  <2>7. seq \in open
    BY <1>1, <2>1, <2>3, UnmetShows
  <2>8. wire[seq] = << >> /\ mu # seq
    BY <1>1, <2>7 DEF InStep, Quiet
  <2>. QED
    BY <1>5, <2>6, <2>8 DEF Spent
<1>. QED
  BY <1>4, <1>5

\* Every step of the bot keeps a sequence that lost nothing from leaving anything.
LEMMA BotKeepsLeavesNothing ==
  ASSUME Basics, InStep, NoEarlyFill, LeavesNothing, BotStep \/ ContextEnds
  PROVE  LeavesNothing'
<1>. USE DEF Basics
<1>0. seq \in Sessions /\ Sessions = 1..5
  BY Lengths DEF Typed
<1>1. CASE Check \/ QueryFails
  BY <1>1, CheckKeepsLeavesNothing
<1>2. CASE Dial
  <2>1. UNCHANGED <<wire, seq, failed, made, bids, asks, mu>> /\ pc = "dial" /\ pc' = "send"
    BY <1>2, DialKeepsBasics
  <2>2. \A e \in Sessions : (Ended(e)' <=> Ended(e)) /\ (Spent(e)' <=> Spent(e))
    BY <2>1 DEF Ended, Spent
  <2>. QED
    BY <2>1, <2>2 DEF LeavesNothing
<1>3. CASE Send
  <2>1. /\ UNCHANGED engine /\ UNCHANGED <<seq, failed>> /\ pc = "send" /\ pc' = "read"
        /\ \A n \in Sessions : n # seq => wire'[n] = wire[n]
    BY <1>3, SendKeepsBasics
  <2>2. UNCHANGED <<made, bids, asks, mu>>
    BY <2>1, EngineIdle
  <2>3. \A e \in Sessions : Ended(e)' => Ended(e) /\ e # seq
    BY <1>0, <2>1 DEF Ended
  <2>4. \A e \in Sessions : e # seq => (Spent(e)' <=> Spent(e))
    BY <2>1, <2>2 DEF Spent
  <2>. QED
    BY <2>1, <2>3, <2>4 DEF LeavesNothing
<1>4. CASE Read \/ ReadFails \/ WriteFails \/ ContextEnds
  <2>1. /\ UNCHANGED engine /\ UNCHANGED <<seq, wire>>
        /\ \/ pc' = "close" /\ pc \in {"read", "send"} /\ Fail(seq)
           \/ failed' = failed /\ (pc' = pc \/ (pc = "read" /\ pc' = "check"))
    BY <1>4, ReadKeepsBasics, ReadFailsKeepsBasics, WriteFailsKeepsBasics, ContextEndsKeepsBasics
  <2>2. UNCHANGED <<made, bids, asks, mu>>
    BY <2>1, EngineIdle
  <2>3. \A e \in Sessions : Spent(e)' <=> Spent(e)
    BY <2>1, <2>2 DEF Spent
  <2>4. \A e \in Sessions : Ended(e)' /\ failed'[e] = 0 => Ended(e) /\ failed[e] = 0
    <3>1. CASE pc' = "close" /\ pc \in {"read", "send"} /\ Fail(seq)
      <4>1. failed'[seq] > 0 /\ \A n \in Sessions : n # seq => failed'[n] = failed[n]
        BY <3>1, FailEffect
      <4>. QED
        BY <1>0, <2>1, <3>1, <4>1 DEF Ended
    <3>2. CASE failed' = failed /\ (pc' = pc \/ (pc = "read" /\ pc' = "check"))
      BY <1>0, <2>1, <3>2 DEF Ended
    <3>. QED
      BY <2>1, <3>1, <3>2
  <2>. QED
    BY <2>3, <2>4 DEF LeavesNothing
<1>5. CASE DialFails \/ CloseConn
  <2>1. /\ UNCHANGED engine /\ wire' = wire /\ NextSequence
        /\ \/ failed' = failed /\ pc = "close"
           \/ Fail(seq)
    BY <1>5, DialFailsKeepsBasics, CloseConnKeepsBasics
  <2>2. UNCHANGED <<made, bids, asks, mu>>
    BY <2>1, EngineIdle
  <2>3. \A e \in Sessions : Spent(e)' <=> Spent(e)
    BY <2>1, <2>2 DEF Spent
  <2>4. \A e \in Sessions : Ended(e)' <=> e <= seq
    BY <2>1, NextSequenceEffect
  <2>5. \A e \in Sessions : Ended(e)' /\ failed'[e] = 0 => Ended(e) /\ failed[e] = 0
    <3>1. CASE failed' = failed /\ pc = "close"
      BY <1>0, <2>4, <3>1 DEF Ended
    <3>2. CASE Fail(seq)
      <4>1. failed'[seq] > 0 /\ \A n \in Sessions : n # seq => failed'[n] = failed[n]
        BY <3>2, FailEffect
      <4>. QED
        BY <1>0, <2>4, <4>1 DEF Ended
    <3>. QED
      BY <2>1, <3>1, <3>2
  <2>. QED
    BY <2>3, <2>5 DEF LeavesNothing
<1>. QED
  BY <1>1, <1>2, <1>3, <1>4, <1>5 DEF BotStep

-----------------------------------------------------------------------------
(* The scripts, turn by turn.                                               *)

\* The fields of a card and of a turn.
LEMMA CardFields ==
  /\ \A tag, side, price, rem :
       /\ Card(tag, side, price, rem).tag = tag /\ Card(tag, side, price, rem).side = side
       /\ Card(tag, side, price, rem).price = price /\ Card(tag, side, price, rem).rem = rem
  /\ \A msgs, shelf, rem :
       /\ Turn(msgs, shelf, rem).msgs = msgs /\ Turn(msgs, shelf, rem).shelf = shelf
       /\ Turn(msgs, shelf, rem).rem = rem
  BY DEF Card, Turn

\* What rests before each step and after the last.
LEMMA ShelvesTable ==
  /\ Shelves[1][1] = {} /\ Shelves[1][2] = {Card("s0-bid", "buy", P, 10)} /\ Shelves[1][3] = {}
  /\ Shelves[2][1] = {} /\ Shelves[2][2] = {Card("s0-bid-lo", "buy", P, 5)}
  /\ Shelves[2][3] = {Card("s0-bid-lo", "buy", P, 5), Card("s1-bid-hi", "buy", P1, 5)}
  /\ Shelves[2][4] = {}
  /\ Shelves[3][1] = {} /\ Shelves[3][2] = {Card("s0-bid", "buy", P10, 10)}
  /\ Shelves[3][3] = {Card("s0-bid", "buy", P10, 7)} /\ Shelves[3][4] = {}
  /\ Shelves[4][1] = {} /\ Shelves[4][2] = {Card("s0-bid", "buy", P20, 10)}
  /\ Shelves[4][3] = {} /\ Shelves[4][4] = {Card("s2-ask", "sell", P20, 10)}
  /\ Shelves[4][5] = {}
  /\ Shelves[5][1] = {} /\ Shelves[5][2] = {}
<1>1. P + 1 = P1 /\ P + 10 = P10 /\ P + 20 = P20
  BY DEF P1, P10, P20
<1>. QED
  BY <1>1 DEF Shelves

\* The turns of the steps that match.
LEMMA TurnsTable ==
  /\ TurnsOf(1, 2) = <<Turn(<<Ack>>, {Card("s0-bid", "buy", P, 10)}, 10),
                       Turn(<<Ack, Fill(P, 10)>>, {}, 0)>>
  /\ TurnsOf(2, 3) =
       <<Turn(<<Ack>>, {Card("s0-bid-lo", "buy", P, 5), Card("s1-bid-hi", "buy", P1, 5)}, 10),
         Turn(<<Ack, Fill(P1, 5)>>, {Card("s0-bid-lo", "buy", P, 5)}, 5),
         Turn(<<Ack, Fill(P1, 5), Fill(P, 5)>>, {}, 0)>>
  /\ TurnsOf(3, 2) = <<Turn(<<Ack>>, {Card("s0-bid", "buy", P10, 10)}, 3),
                       Turn(<<Ack, Fill(P10, 3)>>, {Card("s0-bid", "buy", P10, 7)}, 0)>>
  /\ \A n, k : ~(n = 1 /\ k = 2) /\ ~(n = 2 /\ k = 3) /\ ~(n = 3 /\ k = 2) =>
       TurnsOf(n, k) = <<Turn(<<Ack>>, Shelves[n][k], CorrectnessSequences[n][k].qty)>>
<1>1. P + 1 = P1 /\ P + 10 = P10
  BY DEF P1, P10
<1>2. TurnsOf(1, 2) = <<Turn(<<Ack>>, Shelves[1][2], 10), Turn(<<Ack, Fill(P, 10)>>, {}, 0)>>
  BY DEF TurnsOf
<1>3. TurnsOf(2, 3) =
       <<Turn(<<Ack>>, Shelves[2][3], 10), Turn(<<Ack, Fill(P + 1, 5)>>, Shelves[2][2], 5),
         Turn(<<Ack, Fill(P + 1, 5), Fill(P, 5)>>, {}, 0)>>
  BY DEF TurnsOf
<1>4. TurnsOf(3, 2) =
       <<Turn(<<Ack>>, Shelves[3][2], 3), Turn(<<Ack, Fill(P + 10, 3)>>, Shelves[3][3], 0)>>
  BY DEF TurnsOf
<1>5. \A n, k : ~(n = 1 /\ k = 2) /\ ~(n = 2 /\ k = 3) /\ ~(n = 3 /\ k = 2) =>
       TurnsOf(n, k) = <<Turn(<<Ack>>, Shelves[n][k], CorrectnessSequences[n][k].qty)>>
  BY DEF TurnsOf
<1>. QED
  BY <1>1, <1>2, <1>3, <1>4, <1>5, ShelvesTable

\* A turn of a step, field by field.
TurnIs(n, k, t, msgs, shelf, rem) ==
  /\ TurnsOf(n, k)[t].msgs = msgs /\ TurnsOf(n, k)[t].shelf = shelf
  /\ TurnsOf(n, k)[t].rem = rem

\* The turns of the steps that match, field by field.
LEMMA TurnFields ==
  /\ DOMAIN TurnsOf(1, 2) = 1..2 /\ DOMAIN TurnsOf(2, 3) = 1..3 /\ DOMAIN TurnsOf(3, 2) = 1..2
  /\ TurnIs(1, 2, 1, <<Ack>>, {Card("s0-bid", "buy", P, 10)}, 10)
  /\ TurnIs(1, 2, 2, <<Ack, Fill(P, 10)>>, {}, 0)
  /\ TurnIs(2, 3, 1, <<Ack>>, {Card("s0-bid-lo", "buy", P, 5), Card("s1-bid-hi", "buy", P1, 5)}, 10)
  /\ TurnIs(2, 3, 2, <<Ack, Fill(P1, 5)>>, {Card("s0-bid-lo", "buy", P, 5)}, 5)
  /\ TurnIs(2, 3, 3, <<Ack, Fill(P1, 5), Fill(P, 5)>>, {}, 0)
  /\ TurnIs(3, 2, 1, <<Ack>>, {Card("s0-bid", "buy", P10, 10)}, 3)
  /\ TurnIs(3, 2, 2, <<Ack, Fill(P10, 3)>>, {Card("s0-bid", "buy", P10, 7)}, 0)
<1>1. DOMAIN TurnsOf(1, 2) = 1..2 /\ DOMAIN TurnsOf(2, 3) = 1..3 /\ DOMAIN TurnsOf(3, 2) = 1..2
  BY TurnsTable
<1>2. TurnIs(1, 2, 1, <<Ack>>, {Card("s0-bid", "buy", P, 10)}, 10)
  <2>1. TurnsOf(1, 2)[1] = Turn(<<Ack>>, {Card("s0-bid", "buy", P, 10)}, 10)
    BY TurnsTable
  <2>. QED
    BY <2>1, CardFields DEF TurnIs
<1>3. TurnIs(1, 2, 2, <<Ack, Fill(P, 10)>>, {}, 0)
  <2>1. TurnsOf(1, 2)[2] = Turn(<<Ack, Fill(P, 10)>>, {}, 0)
    BY TurnsTable
  <2>. QED
    BY <2>1, CardFields DEF TurnIs
<1>4. TurnIs(2, 3, 1, <<Ack>>, {Card("s0-bid-lo", "buy", P, 5), Card("s1-bid-hi", "buy", P1, 5)}, 10)
  <2>1. TurnsOf(2, 3)[1] = Turn(<<Ack>>, {Card("s0-bid-lo", "buy", P, 5), Card("s1-bid-hi", "buy", P1, 5)}, 10)
    BY TurnsTable
  <2>. QED
    BY <2>1, CardFields DEF TurnIs
<1>5. TurnIs(2, 3, 2, <<Ack, Fill(P1, 5)>>, {Card("s0-bid-lo", "buy", P, 5)}, 5)
  <2>1. TurnsOf(2, 3)[2] = Turn(<<Ack, Fill(P1, 5)>>, {Card("s0-bid-lo", "buy", P, 5)}, 5)
    BY TurnsTable
  <2>. QED
    BY <2>1, CardFields DEF TurnIs
<1>6. TurnIs(2, 3, 3, <<Ack, Fill(P1, 5), Fill(P, 5)>>, {}, 0)
  <2>1. TurnsOf(2, 3)[3] = Turn(<<Ack, Fill(P1, 5), Fill(P, 5)>>, {}, 0)
    BY TurnsTable
  <2>. QED
    BY <2>1, CardFields DEF TurnIs
<1>7. TurnIs(3, 2, 1, <<Ack>>, {Card("s0-bid", "buy", P10, 10)}, 3)
  <2>1. TurnsOf(3, 2)[1] = Turn(<<Ack>>, {Card("s0-bid", "buy", P10, 10)}, 3)
    BY TurnsTable
  <2>. QED
    BY <2>1, CardFields DEF TurnIs
<1>8. TurnIs(3, 2, 2, <<Ack, Fill(P10, 3)>>, {Card("s0-bid", "buy", P10, 7)}, 0)
  <2>1. TurnsOf(3, 2)[2] = Turn(<<Ack, Fill(P10, 3)>>, {Card("s0-bid", "buy", P10, 7)}, 0)
    BY TurnsTable
  <2>. QED
    BY <2>1, CardFields DEF TurnIs
<1>. QED
  BY <1>1, <1>2, <1>3, <1>4, <1>5, <1>6, <1>7, <1>8

\* A message more is one more in the tuple.
LEMMA SecondMore ==
  ASSUME NEW x, NEW y
  PROVE  Append(<<x>>, y) = <<x, y>>
<1>1. PICK p, a : p = Append(<<x>>, y) /\ a = <<x, y>>
  OBVIOUS
<1>2. <<x>> \in Seq({x, y}) /\ Len(<<x>>) = 1 /\ <<x>>[1] = x
  OBVIOUS
<1>3. p \in Seq({x, y}) /\ Len(p) = 2 /\ p[1] = x /\ p[2] = y
  BY <1>1, <1>2
<1>4. a \in Seq({x, y}) /\ Len(a) = 2 /\ a[1] = x /\ a[2] = y
  BY <1>1
<1>5. p = a
  BY <1>3, <1>4, SameSequence
<1>. QED
  BY <1>1, <1>5

\* So is a third one.
LEMMA ThirdMore ==
  ASSUME NEW x, NEW y, NEW z
  PROVE  Append(<<x, y>>, z) = <<x, y, z>>
<1>1. PICK q, b : q = Append(<<x, y>>, z) /\ b = <<x, y, z>>
  OBVIOUS
<1>2. <<x, y>> \in Seq({x, y, z}) /\ Len(<<x, y>>) = 2 /\ <<x, y>>[1] = x /\ <<x, y>>[2] = y
  OBVIOUS
<1>3. q \in Seq({x, y, z}) /\ Len(q) = 3 /\ q[1] = x /\ q[2] = y /\ q[3] = z
  BY <1>1, <1>2
<1>4. b \in Seq({x, y, z}) /\ Len(b) = 3 /\ b[1] = x /\ b[2] = y /\ b[3] = z
  BY <1>1
<1>5. q = b
  BY <1>3, <1>4, SameSequence
<1>. QED
  BY <1>1, <1>5

\* What is said after each turn that matches.
LEMMA SaidTable ==
  /\ Append(<<Ack>>, Fill(P, 10)) = <<Ack, Fill(P, 10)>>
  /\ Append(<<Ack>>, Fill(P1, 5)) = <<Ack, Fill(P1, 5)>>
  /\ Append(<<Ack, Fill(P1, 5)>>, Fill(P, 5)) = <<Ack, Fill(P1, 5), Fill(P, 5)>>
  /\ Append(<<Ack>>, Fill(P10, 3)) = <<Ack, Fill(P10, 3)>>
  BY SecondMore, ThirdMore

\* A step that starts finds the shelf as it is before it, and its tag is new.
LEMMA PlaceScript ==
  ASSUME NEW n \in Sessions, NEW k \in DOMAIN CorrectnessSequences[n],
         CorrectnessSequences[n][k].act = "order"
  PROVE  /\ 1 \in DOMAIN TurnsOf(n, k) /\ TurnsOf(n, k)[1].msgs = <<Ack>>
         /\ TurnsOf(n, k)[1].shelf = Shelves[n][k]
         /\ TurnsOf(n, k)[1].rem = CorrectnessSequences[n][k].qty
         /\ \A c \in Shelves[n][k] : c.tag # CorrectnessSequences[n][k].tag
<1>1. \A t : /\ 1 \in DOMAIN <<t>> /\ <<t>>[1] = t
             /\ \A u : 1 \in DOMAIN <<t, u>> /\ <<t, u>>[1] = t
             /\ \A u, v : 1 \in DOMAIN <<t, u, v>> /\ <<t, u, v>>[1] = t
  OBVIOUS
<1>2. /\ CorrectnessSequences[1][2].qty = 10 /\ CorrectnessSequences[2][3].qty = 10
      /\ CorrectnessSequences[3][2].qty = 3
  BY BasicMatchSteps, PriorityFillSteps, PartialFillSteps DEF StepIs
<1>3. \E shelf, qty : /\ shelf = Shelves[n][k] /\ qty = CorrectnessSequences[n][k].qty
                      /\ \/ TurnsOf(n, k) = <<Turn(<<Ack>>, shelf, qty)>>
                         \/ \E u : TurnsOf(n, k) = <<Turn(<<Ack>>, shelf, qty), u>>
                         \/ \E u, v : TurnsOf(n, k) = <<Turn(<<Ack>>, shelf, qty), u, v>>
  <2>1. CASE n = 1 /\ k = 2
    BY <1>2, <2>1, TurnsTable, ShelvesTable
  <2>2. CASE n = 2 /\ k = 3
    BY <1>2, <2>2, TurnsTable, ShelvesTable
  <2>3. CASE n = 3 /\ k = 2
    BY <1>2, <2>3, TurnsTable, ShelvesTable
  <2>4. CASE ~(n = 1 /\ k = 2) /\ ~(n = 2 /\ k = 3) /\ ~(n = 3 /\ k = 2)
    BY <2>4, TurnsTable
  <2>. QED
    BY <2>1, <2>2, <2>3, <2>4
<1>4. \A c \in Shelves[n][k] : c.tag # CorrectnessSequences[n][k].tag
  <2> DEFINE New(m, i) == CorrectnessSequences[m][i].act = "order" =>
                            \A c \in Shelves[m][i] : c.tag # CorrectnessSequences[m][i].tag
  <2>1. New(1, 1) /\ New(1, 2) /\ New(2, 1) /\ New(2, 2) /\ New(2, 3)
    BY BasicMatchSteps, PriorityFillSteps, ShelvesTable, CardFields DEF StepIs
  <2>2. New(3, 1) /\ New(3, 2) /\ New(3, 3) /\ New(5, 1)
    BY PartialFillSteps, RejectSteps, ShelvesTable, CardFields DEF StepIs
  <2>3. New(4, 1) /\ New(4, 2) /\ New(4, 3) /\ New(4, 4)
    BY CancelSteps, ShelvesTable, CardFields DEF StepIs
  <2>4. New(n, k)
    <3> HIDE DEF New
    <3>. QED
      BY <2>1, <2>2, <2>3, Positions
  <2>. QED
    BY <2>4
<1>. QED
  BY <1>1, <1>3, <1>4, CardFields

\* The shelf and the rest of the order when a turn takes q from card c.
Taken(shelf, c, q) ==
  (shelf \ {c}) \cup IF c.rem = q THEN {} ELSE {Card(c.tag, c.side, c.price, c.rem - q)}

\* A turn that matches is one of the script's.
LEMMA MatchScript ==
  ASSUME NEW n \in Sessions, NEW k \in DOMAIN CorrectnessSequences[n],
         CorrectnessSequences[n][k].act = "order",
         NEW t \in DOMAIN TurnsOf(n, k), NEW shelf, NEW rem, NEW msgs, NEW side,
         shelf = TurnsOf(n, k)[t].shelf, rem = TurnsOf(n, k)[t].rem, msgs = TurnsOf(n, k)[t].msgs,
         side = CorrectnessSequences[n][k].side,
         rem > 0, NEW c \in shelf, c.side # side,
         \A d \in shelf : d.side # side =>
           IF side = "buy" THEN c.price <= d.price ELSE d.price <= c.price,
         NEW q, q = IF rem < c.rem THEN rem ELSE c.rem
  PROVE  \E u \in DOMAIN TurnsOf(n, k) :
           /\ TurnsOf(n, k)[u].msgs = Append(msgs, Fill(c.price, q))
           /\ TurnsOf(n, k)[u].rem = rem - q
           /\ TurnsOf(n, k)[u].shelf = Taken(shelf, c, q)
<1>1. CASE n = 1 /\ k = 2
  <2>1. PICK card : card = Card("s0-bid", "buy", P, 10)
    OBVIOUS
  <2>2. card.tag = "s0-bid" /\ card.side = "buy" /\ card.price = P /\ card.rem = 10
    BY <2>1, CardFields
  <2>3. /\ DOMAIN TurnsOf(n, k) = 1..2
        /\ TurnIs(n, k, 1, <<Ack>>, {card}, 10)
        /\ TurnIs(n, k, 2, <<Ack, Fill(P, 10)>>, {}, 0)
    BY <1>1, <2>1, TurnFields
  <2>4. t = 1
    <3>1. t # 2
      BY <2>3 DEF TurnIs
    <3>. QED
      BY <2>3, <3>1
  <2>5. shelf = {card} /\ rem = 10 /\ msgs = <<Ack>> /\ c = card
    BY <2>3, <2>4 DEF TurnIs
  <2>6. q = 10 /\ Taken(shelf, c, q) = {}
    BY <2>2, <2>5 DEF Taken
  <2>7. Append(msgs, Fill(c.price, q)) = <<Ack, Fill(P, 10)>>
    <3>1. msgs = <<Ack>> /\ c.price = P /\ q = 10
      BY <2>2, <2>5, <2>6
    <3>. QED
      BY <3>1, SaidTable
  <2>8. /\ 2 \in DOMAIN TurnsOf(n, k) /\ TurnsOf(n, k)[2].msgs = Append(msgs, Fill(c.price, q))
        /\ TurnsOf(n, k)[2].rem = rem - q /\ TurnsOf(n, k)[2].shelf = Taken(shelf, c, q)
    <3>1. 2 \in DOMAIN TurnsOf(n, k)
      BY <2>3
    <3>2. TurnsOf(n, k)[2].msgs = Append(msgs, Fill(c.price, q))
      BY <2>3, <2>5, <2>6, <2>7 DEF TurnIs
    <3>3. TurnsOf(n, k)[2].rem = rem - q
      BY <2>3, <2>5, <2>6, <2>7 DEF TurnIs
    <3>4. TurnsOf(n, k)[2].shelf = Taken(shelf, c, q)
      BY <2>3, <2>5, <2>6, <2>7 DEF TurnIs
    <3>. QED
      BY <3>1, <3>2, <3>3, <3>4
  <2>. QED
    BY <2>8
<1>2. CASE n = 2 /\ k = 3
  <2>1. PICK lo, hi : lo = Card("s0-bid-lo", "buy", P, 5) /\ hi = Card("s1-bid-hi", "buy", P1, 5)
    OBVIOUS
  <2>2. /\ lo.tag = "s0-bid-lo" /\ lo.side = "buy" /\ lo.price = P /\ lo.rem = 5
        /\ hi.tag = "s1-bid-hi" /\ hi.side = "buy" /\ hi.price = P1 /\ hi.rem = 5
    BY <2>1, CardFields
  <2>3. /\ DOMAIN TurnsOf(n, k) = 1..3
        /\ TurnIs(n, k, 1, <<Ack>>, {lo, hi}, 10)
        /\ TurnIs(n, k, 2, <<Ack, Fill(P1, 5)>>, {lo}, 5)
        /\ TurnIs(n, k, 3, <<Ack, Fill(P1, 5), Fill(P, 5)>>, {}, 0)
    BY <1>2, <2>1, TurnFields
  <2>4. t = 1 \/ t = 2
    <3>1. t # 3
      BY <2>3 DEF TurnIs
    <3>. QED
      BY <2>3, <3>1
  <2>5. side = "sell"
    BY <1>2, PriorityFillSteps DEF StepIs
  <2>6. CASE t = 1
    <3>1. shelf = {lo, hi} /\ rem = 10 /\ msgs = <<Ack>>
      BY <2>3, <2>6 DEF TurnIs
    <3>2. c = hi
      <4>1. hi \in shelf /\ hi.side # side
        BY <2>2, <2>5, <3>1
      <4>2. hi.price <= c.price
        BY <2>5, <4>1
      <4>. QED
        BY <2>2, <3>1, <4>2, FourPrices
    <3>3. q = 5 /\ Taken(shelf, c, q) = {lo}
      BY <2>2, <3>1, <3>2 DEF Taken
    <3>4. Append(msgs, Fill(c.price, q)) = <<Ack, Fill(P1, 5)>>
      <4>1. msgs = <<Ack>> /\ c.price = P1 /\ q = 5
        BY <2>2, <3>1, <3>2, <3>3
      <4>. QED
        BY <4>1, SaidTable
    <3>8. /\ 2 \in DOMAIN TurnsOf(n, k) /\ TurnsOf(n, k)[2].msgs = Append(msgs, Fill(c.price, q))
          /\ TurnsOf(n, k)[2].rem = rem - q /\ TurnsOf(n, k)[2].shelf = Taken(shelf, c, q)
      <4>1. 2 \in DOMAIN TurnsOf(n, k)
        BY <2>3
      <4>2. TurnsOf(n, k)[2].msgs = Append(msgs, Fill(c.price, q))
        BY <2>3, <3>1, <3>3, <3>4 DEF TurnIs
      <4>3. TurnsOf(n, k)[2].rem = rem - q
        BY <2>3, <3>1, <3>3, <3>4 DEF TurnIs
      <4>4. TurnsOf(n, k)[2].shelf = Taken(shelf, c, q)
        BY <2>3, <3>1, <3>3, <3>4 DEF TurnIs
      <4>. QED
        BY <4>1, <4>2, <4>3, <4>4
    <3>. QED
      BY <3>8
  <2>7. CASE t = 2
    <3>1. shelf = {lo} /\ rem = 5 /\ msgs = <<Ack, Fill(P1, 5)>> /\ c = lo
      BY <2>3, <2>7 DEF TurnIs
    <3>2. q = 5 /\ Taken(shelf, c, q) = {}
      BY <2>2, <3>1 DEF Taken
    <3>3. Append(msgs, Fill(c.price, q)) = <<Ack, Fill(P1, 5), Fill(P, 5)>>
      <4>1. msgs = <<Ack, Fill(P1, 5)>> /\ c.price = P /\ q = 5
        BY <2>2, <3>1, <3>2
      <4>. QED
        BY <4>1, SaidTable
    <3>8. /\ 3 \in DOMAIN TurnsOf(n, k) /\ TurnsOf(n, k)[3].msgs = Append(msgs, Fill(c.price, q))
          /\ TurnsOf(n, k)[3].rem = rem - q /\ TurnsOf(n, k)[3].shelf = Taken(shelf, c, q)
      <4>1. 3 \in DOMAIN TurnsOf(n, k)
        BY <2>3
      <4>2. TurnsOf(n, k)[3].msgs = Append(msgs, Fill(c.price, q))
        BY <2>3, <3>1, <3>2, <3>3 DEF TurnIs
      <4>3. TurnsOf(n, k)[3].rem = rem - q
        BY <2>3, <3>1, <3>2, <3>3 DEF TurnIs
      <4>4. TurnsOf(n, k)[3].shelf = Taken(shelf, c, q)
        BY <2>3, <3>1, <3>2, <3>3 DEF TurnIs
      <4>. QED
        BY <4>1, <4>2, <4>3, <4>4
    <3>. QED
      BY <3>8
  <2>. QED
    BY <2>4, <2>6, <2>7
<1>3. CASE n = 3 /\ k = 2
  <2>1. PICK card, left : card = Card("s0-bid", "buy", P10, 10) /\ left = Card("s0-bid", "buy", P10, 7)
    OBVIOUS
  <2>2. card.tag = "s0-bid" /\ card.side = "buy" /\ card.price = P10 /\ card.rem = 10
    BY <2>1, CardFields
  <2>3. /\ DOMAIN TurnsOf(n, k) = 1..2
        /\ TurnIs(n, k, 1, <<Ack>>, {card}, 3)
        /\ TurnIs(n, k, 2, <<Ack, Fill(P10, 3)>>, {left}, 0)
    BY <1>3, <2>1, TurnFields
  <2>4. t = 1
    <3>1. t # 2
      BY <2>3 DEF TurnIs
    <3>. QED
      BY <2>3, <3>1
  <2>5. shelf = {card} /\ rem = 3 /\ msgs = <<Ack>> /\ c = card
    BY <2>3, <2>4 DEF TurnIs
  <2>6. q = 3 /\ Taken(shelf, c, q) = {left}
    BY <2>1, <2>2, <2>5 DEF Taken
  <2>7. Append(msgs, Fill(c.price, q)) = <<Ack, Fill(P10, 3)>>
    <3>1. msgs = <<Ack>> /\ c.price = P10 /\ q = 3
      BY <2>2, <2>5, <2>6
    <3>. QED
      BY <3>1, SaidTable
  <2>8. /\ 2 \in DOMAIN TurnsOf(n, k) /\ TurnsOf(n, k)[2].msgs = Append(msgs, Fill(c.price, q))
        /\ TurnsOf(n, k)[2].rem = rem - q /\ TurnsOf(n, k)[2].shelf = Taken(shelf, c, q)
    <3>1. 2 \in DOMAIN TurnsOf(n, k)
      BY <2>3
    <3>2. TurnsOf(n, k)[2].msgs = Append(msgs, Fill(c.price, q))
      BY <2>3, <2>5, <2>6, <2>7 DEF TurnIs
    <3>3. TurnsOf(n, k)[2].rem = rem - q
      BY <2>3, <2>5, <2>6, <2>7 DEF TurnIs
    <3>4. TurnsOf(n, k)[2].shelf = Taken(shelf, c, q)
      BY <2>3, <2>5, <2>6, <2>7 DEF TurnIs
    <3>. QED
      BY <3>1, <3>2, <3>3, <3>4
  <2>. QED
    BY <2>8
<1>4. CASE ~(n = 1 /\ k = 2) /\ ~(n = 2 /\ k = 3) /\ ~(n = 3 /\ k = 2)
  <2>1. TurnsOf(n, k) = <<Turn(<<Ack>>, Shelves[n][k], CorrectnessSequences[n][k].qty)>>
    BY <1>4, TurnsTable
  <2>2. shelf = Shelves[n][k]
    BY <2>1, CardFields
  <2>3. \A d \in Shelves[n][k] : d.side = side
    <3>1. CASE n = 1 \/ n = 5
      BY <1>4, <3>1, Positions, ShelvesTable
    <3>2. CASE n = 2
      <4>1. k = 1 \/ k = 2
        BY <1>4, <3>2, Positions
      <4>. QED
        BY <3>2, <4>1, ShelvesTable, CardFields, PriorityFillSteps DEF StepIs
    <3>3. CASE n = 3
      <4>1. k = 1 \/ k = 3
        BY <1>4, <3>3, Positions
      <4>. QED
        BY <3>3, <4>1, ShelvesTable, PartialFillSteps DEF StepIs
    <3>4. CASE n = 4
      <4>1. k = 1 \/ k = 2 \/ k = 3 \/ k = 4
        BY <3>4, Positions
      <4>2. k = 1 \/ k = 3
        BY <3>4, <4>1, CancelSteps DEF StepIs
      <4>. QED
        BY <3>4, <4>2, ShelvesTable
    <3>. QED
      BY <3>1, <3>2, <3>3, <3>4, Positions
  <2>. QED
    BY <2>2, <2>3
<1>. QED
  BY <1>1, <1>2, <1>3, <1>4

\* At the end of the loop of a step the shelf is the next step's, and the answers are said.
LEMMA FinishScript ==
  ASSUME NEW n \in Sessions, NEW k \in DOMAIN CorrectnessSequences[n],
         CorrectnessSequences[n][k].act = "order",
         NEW t \in DOMAIN TurnsOf(n, k), NEW shelf, NEW rem, NEW msgs, NEW step,
         shelf = TurnsOf(n, k)[t].shelf, rem = TurnsOf(n, k)[t].rem, msgs = TurnsOf(n, k)[t].msgs,
         step = CorrectnessSequences[n][k],
         rem > 0 => \A d \in shelf : d.side # step.side =>
           /\ step.kind # "market"
           /\ IF step.side = "buy" THEN step.price < d.price ELSE d.price < step.price
  PROVE  /\ Shelves[n][k + 1] = shelf \cup
              IF step.kind = "limit" /\ rem > 0 THEN {Card(step.tag, step.side, step.price, rem)}
              ELSE {}
         /\ step.kind = "market" /\ rem > 0 <=> step.reject
         /\ step.reject => msgs = <<Ack>>
         /\ n = 1 /\ k = 2 => msgs = <<Ack, Fill(P, 10)>>
         /\ n = 2 /\ k = 3 => msgs = <<Ack, Fill(P1, 5), Fill(P, 5)>>
         /\ n = 3 /\ k = 2 => msgs = <<Ack, Fill(P10, 3)>>
         /\ ~(n = 1 /\ k = 2) /\ ~(n = 2 /\ k = 3) /\ ~(n = 3 /\ k = 2) => msgs = <<Ack>>
<1>1. CASE n = 1 /\ k = 2
  <2>1. PICK card : card = Card("s0-bid", "buy", P, 10)
    OBVIOUS
  <2>2. /\ DOMAIN TurnsOf(n, k) = 1..2
        /\ TurnIs(n, k, 1, <<Ack>>, {card}, 10)
        /\ TurnIs(n, k, 2, <<Ack, Fill(P, 10)>>, {}, 0)
    BY <1>1, <2>1, TurnFields
  <2>3. step.side = "sell" /\ step.price = P /\ ~step.reject
    BY <1>1, BasicMatchSteps DEF StepIs
  <2>4. t # 1
    <3>1. ASSUME t = 1 PROVE FALSE
      <4>1. rem > 0 /\ card \in shelf
        BY <2>2, <3>1 DEF TurnIs
      <4>2. card.side = "buy" /\ card.price = P
        BY <2>1, CardFields
      <4>. QED
        BY <2>3, <4>1, <4>2, FourPrices
    <3>. QED
      BY <3>1
  <2>5. shelf = {} /\ rem = 0 /\ msgs = <<Ack, Fill(P, 10)>>
    BY <2>2, <2>4 DEF TurnIs
  <2>6. Shelves[n][k + 1] = {}
    BY <1>1, ShelvesTable
  <2>. QED
    BY <1>1, <2>3, <2>5, <2>6
<1>2. CASE n = 2 /\ k = 3
  <2>1. PICK lo, hi : lo = Card("s0-bid-lo", "buy", P, 5) /\ hi = Card("s1-bid-hi", "buy", P1, 5)
    OBVIOUS
  <2>2. /\ DOMAIN TurnsOf(n, k) = 1..3
        /\ TurnIs(n, k, 1, <<Ack>>, {lo, hi}, 10)
        /\ TurnIs(n, k, 2, <<Ack, Fill(P1, 5)>>, {lo}, 5)
        /\ TurnIs(n, k, 3, <<Ack, Fill(P1, 5), Fill(P, 5)>>, {}, 0)
    BY <1>2, <2>1, TurnFields
  <2>3. step.side = "sell" /\ step.price = P /\ ~step.reject
    BY <1>2, PriorityFillSteps DEF StepIs
  <2>4. t # 1 /\ t # 2
    <3>1. ASSUME t = 1 \/ t = 2 PROVE FALSE
      <4>1. rem > 0 /\ lo \in shelf
        BY <2>2, <3>1 DEF TurnIs
      <4>2. lo.side = "buy" /\ lo.price = P
        BY <2>1, CardFields
      <4>. QED
        BY <2>3, <4>1, <4>2, FourPrices
    <3>. QED
      BY <3>1
  <2>5. shelf = {} /\ rem = 0 /\ msgs = <<Ack, Fill(P1, 5), Fill(P, 5)>>
    BY <2>2, <2>4 DEF TurnIs
  <2>6. Shelves[n][k + 1] = {}
    BY <1>2, ShelvesTable
  <2>. QED
    BY <1>2, <2>3, <2>5, <2>6
<1>3. CASE n = 3 /\ k = 2
  <2>1. PICK card, left : card = Card("s0-bid", "buy", P10, 10) /\ left = Card("s0-bid", "buy", P10, 7)
    OBVIOUS
  <2>2. /\ DOMAIN TurnsOf(n, k) = 1..2
        /\ TurnIs(n, k, 1, <<Ack>>, {card}, 3)
        /\ TurnIs(n, k, 2, <<Ack, Fill(P10, 3)>>, {left}, 0)
    BY <1>3, <2>1, TurnFields
  <2>3. step.side = "sell" /\ step.price = P10 /\ ~step.reject
    BY <1>3, PartialFillSteps DEF StepIs
  <2>4. t # 1
    <3>1. ASSUME t = 1 PROVE FALSE
      <4>1. rem > 0 /\ card \in shelf
        BY <2>2, <3>1 DEF TurnIs
      <4>2. card.side = "buy" /\ card.price = P10
        BY <2>1, CardFields
      <4>. QED
        BY <2>3, <4>1, <4>2, FourPrices
    <3>. QED
      BY <3>1
  <2>5. shelf = {left} /\ rem = 0 /\ msgs = <<Ack, Fill(P10, 3)>>
    BY <2>2, <2>4 DEF TurnIs
  <2>6. Shelves[n][k + 1] = {left}
    BY <1>3, <2>1, ShelvesTable
  <2>. QED
    BY <1>3, <2>3, <2>5, <2>6
<1>4. CASE ~(n = 1 /\ k = 2) /\ ~(n = 2 /\ k = 3) /\ ~(n = 3 /\ k = 2)
  <2>1. t = 1 /\ shelf = Shelves[n][k] /\ rem = step.qty /\ msgs = <<Ack>>
    <3>1. DOMAIN TurnsOf(n, k) = 1..1
      BY <1>4, TurnsTable
    <3>. QED
      BY <3>1, PlaceScript
  <2> DEFINE Fits(m, i) ==
        LET s == CorrectnessSequences[m][i]
        IN  s.act = "order" =>
              /\ Shelves[m][i + 1] = Shelves[m][i] \cup
                   IF s.kind = "limit" /\ s.qty > 0 THEN {Card(s.tag, s.side, s.price, s.qty)} ELSE {}
              /\ s.kind = "market" /\ s.qty > 0 <=> s.reject
  <2>2. Fits(1, 1) /\ Fits(2, 1) /\ Fits(3, 1) /\ Fits(4, 1)
    <3>1. Fits(1, 1)
      BY BasicMatchSteps, ShelvesTable DEF StepIs
    <3>2. Fits(2, 1)
      BY PriorityFillSteps, ShelvesTable DEF StepIs
    <3>3. Fits(3, 1)
      BY PartialFillSteps, ShelvesTable DEF StepIs
    <3>4. Fits(4, 1)
      BY CancelSteps, ShelvesTable DEF StepIs
    <3> HIDE DEF Fits
    <3>. QED
      BY <3>1, <3>2, <3>3, <3>4
  <2>3. Fits(2, 2) /\ Fits(4, 3)
    <3>1. Fits(2, 2)
      BY PriorityFillSteps, ShelvesTable DEF StepIs
    <3>2. Fits(4, 3)
      BY CancelSteps, ShelvesTable DEF StepIs
    <3> HIDE DEF Fits
    <3>. QED
      BY <3>1, <3>2
  <2>4. Fits(5, 1) /\ Fits(3, 3) /\ Fits(4, 2) /\ Fits(4, 4)
    <3>1. Fits(5, 1)
      BY RejectSteps, ShelvesTable DEF StepIs
    <3>2. Fits(3, 3)
      BY PartialFillSteps, ShelvesTable DEF StepIs
    <3>3. Fits(4, 2)
      BY CancelSteps, ShelvesTable DEF StepIs
    <3>4. Fits(4, 4)
      BY CancelSteps, ShelvesTable DEF StepIs
    <3> HIDE DEF Fits
    <3>. QED
      BY <3>1, <3>2, <3>3, <3>4
  <2>5. Fits(n, k)
    <3> HIDE DEF Fits
    <3>. QED
      BY <1>4, <2>2, <2>3, <2>4, Positions
  <2>. QED
    BY <1>4, <2>1, <2>5
<1>. QED
  BY <1>1, <1>2, <1>3, <1>4

\* A cancel finds its order and leaves the others.
LEMMA CancelScript ==
  ASSUME NEW n \in Sessions, NEW k \in DOMAIN CorrectnessSequences[n],
         CorrectnessSequences[n][k].act = "cancel"
  PROVE  /\ \E c \in Shelves[n][k] : c.tag = CorrectnessSequences[n][k].tag
         /\ Shelves[n][k + 1] = {c \in Shelves[n][k] : c.tag # CorrectnessSequences[n][k].tag}
<1> DEFINE Fits(m, i) ==
      CorrectnessSequences[m][i].act = "cancel" =>
        /\ \E c \in Shelves[m][i] : c.tag = CorrectnessSequences[m][i].tag
        /\ Shelves[m][i + 1] = {c \in Shelves[m][i] : c.tag # CorrectnessSequences[m][i].tag}
<1>1. Fits(1, 1) /\ Fits(1, 2) /\ Fits(2, 1) /\ Fits(2, 2) /\ Fits(2, 3)
  BY BasicMatchSteps, PriorityFillSteps DEF StepIs
<1>2. Fits(3, 1) /\ Fits(3, 2) /\ Fits(4, 1) /\ Fits(4, 3) /\ Fits(5, 1)
  BY PartialFillSteps, CancelSteps, RejectSteps DEF StepIs
<1>3. Fits(3, 3)
  BY PartialFillSteps, ShelvesTable, CardFields DEF StepIs
<1>4. Fits(4, 2)
  BY CancelSteps, ShelvesTable, CardFields DEF StepIs
<1>5. Fits(4, 4)
  BY CancelSteps, ShelvesTable, CardFields DEF StepIs
<1>6. Fits(n, k)
  <2> HIDE DEF Fits
  <2>. QED
    BY <1>1, <1>2, <1>3, <1>4, <1>5, Positions
<1>. QED
  BY <1>6

\* What is heard and left unheard of a cancel, of a step to be rejected, of an order that
\* rests and of one that is filled.
HeardAs(n, k, step, heard, unheard) ==
  \/ /\ step.act = "cancel" /\ ~step.reject /\ step.fill = NoFill
     /\ heard = <<Msg("cancel_ack", 0, 0)>> /\ unheard = << >>
  \/ /\ step.act = "order" /\ step.reject /\ step.fill = NoFill
     /\ heard = <<Ack, Msg("reject", 0, 0)>> /\ unheard = << >>
  \/ /\ step.act = "order" /\ ~step.reject /\ step.fill = NoFill
     /\ ~(n = 1 /\ k = 2) /\ ~(n = 2 /\ k = 3) /\ ~(n = 3 /\ k = 2)
     /\ heard = <<Ack>> /\ unheard = << >>
  \/ /\ n = 1 /\ k = 2 /\ step.act = "order" /\ ~step.reject /\ step.fill = <<P, 10>>
     /\ heard = <<Ack, Fill(P, 10)>> /\ unheard = << >>
  \/ /\ n = 2 /\ k = 3 /\ step.act = "order" /\ ~step.reject /\ step.fill = <<P1, 0>>
     /\ heard = <<Ack, Fill(P1, 5)>> /\ unheard = <<Fill(P, 5)>>
  \/ /\ n = 3 /\ k = 2 /\ step.act = "order" /\ ~step.reject /\ step.fill = <<P10, 3>>
     /\ heard = <<Ack, Fill(P10, 3)>> /\ unheard = << >>

\* Every step of the script is one of these.
LEMMA HeardCases ==
  ASSUME NEW n \in Sessions, NEW k \in DOMAIN CorrectnessSequences[n], NEW step,
         step = CorrectnessSequences[n][k]
  PROVE  HeardAs(n, k, step, Heard(n, k), Unheard(n, k))
<1>1. CASE n = 1 /\ k = 2
  <2>1. step.act = "order" /\ ~step.reject /\ step.fill = <<P, 10>>
    BY <1>1, BasicMatchSteps DEF StepIs
  <2>2. Heard(n, k) = <<Ack, Fill(P, 10)>> /\ Unheard(n, k) = << >>
    BY <1>1, <2>1, FourPrices DEF Heard, Unheard
  <2>. QED
    BY <1>1, <2>1, <2>2 DEF HeardAs
<1>2. CASE n = 2 /\ k = 3
  <2>1. step.act = "order" /\ ~step.reject /\ step.fill = <<P1, 0>>
    BY <1>2, PriorityFillSteps DEF StepIs
  <2>2. Heard(n, k) = <<Ack, Fill(P1, 5)>> /\ Unheard(n, k) = <<Fill(P, 5)>>
    BY <1>2, <2>1, FourPrices DEF Heard, Unheard, P1, P10
  <2>. QED
    BY <1>2, <2>1, <2>2 DEF HeardAs
<1>3. CASE n = 3 /\ k = 2
  <2>1. step.act = "order" /\ ~step.reject /\ step.fill = <<P10, 3>>
    BY <1>3, PartialFillSteps DEF StepIs
  <2>2. Heard(n, k) = <<Ack, Fill(P10, 3)>> /\ Unheard(n, k) = << >>
    BY <1>3, <2>1, FourPrices DEF Heard, Unheard, P1, P10
  <2>. QED
    BY <1>3, <2>1, <2>2 DEF HeardAs
<1>4. CASE ~(n = 1 /\ k = 2) /\ ~(n = 2 /\ k = 3) /\ ~(n = 3 /\ k = 2)
  <2> DEFINE Fits(m, i) ==
        LET s == CorrectnessSequences[m][i]
        IN  /\ s.fill = NoFill /\ s.act \in {"order", "cancel"}
            /\ s.reject => s.act = "order"
  <2>1. Fits(1, 1) /\ Fits(2, 1) /\ Fits(2, 2) /\ Fits(3, 1) /\ Fits(3, 3)
    BY BasicMatchSteps, PriorityFillSteps, PartialFillSteps DEF StepIs, NoFill
  <2>2. Fits(4, 1) /\ Fits(4, 2) /\ Fits(4, 3) /\ Fits(4, 4) /\ Fits(5, 1)
    BY CancelSteps, RejectSteps DEF StepIs, NoFill
  <2>3. Fits(n, k)
    <3> HIDE DEF Fits
    <3>. QED
      BY <1>4, <2>1, <2>2, Positions
  <2>4. Unheard(n, k) = << >>
    BY <1>4 DEF Unheard
  <2>5. CASE step.act = "cancel"
    BY <2>3, <2>4, <2>5 DEF Heard, HeardAs
  <2>6. CASE step.act = "order" /\ step.reject
    BY <2>3, <2>4, <2>6 DEF Heard, HeardAs
  <2>7. CASE step.act = "order" /\ ~step.reject
    <3>1. Heard(n, k) = <<Ack>>
      BY <1>4, <2>7 DEF Heard
    <3>. QED
      BY <1>4, <2>3, <2>4, <2>7, <3>1 DEF HeardAs
  <2>. QED
    BY <2>3, <2>5, <2>6, <2>7
<1>. QED
  BY <1>1, <1>2, <1>3, <1>4

\* Every assertion about the answers holds.
Satisfied ==
  /\ Enough(got) /\ DOMAIN AnswerAssertions = 1..Asked(Step)
  /\ \A i \in DOMAIN AnswerAssertions : AnswerAssertions[i] = TRUE

\* An order that expects a fill, and has an ack and that fill: every assertion holds.
LEMMA FilledAnswers ==
  ASSUME Typed, NEW p, NEW q, Step.act = "order", ~Step.reject, Step.fill # NoFill,
         got = <<Ack, Fill(p, q)>>, Step.fill[1] = p, Step.fill[2] = 0 \/ Step.fill[2] = q
  PROVE  Satisfied
<1>1. /\ DOMAIN got = 1..2 /\ got[1].type = "ack" /\ got[2].type = "fill"
      /\ got[2].price = p /\ got[2].qty = q
  BY Messages
<1>2. Got("ack", got) /\ Got("fill", got)
  BY <1>1 DEF Got
<1>3. LastFill = got[2]
  BY <1>1, <1>2, LastFillIsOne
<1>4. LastFill.price = Step.fill[1] /\ (Step.fill[2] # 0 => LastFill.qty = Step.fill[2])
  BY <1>1, <1>3
<1>5. /\ DOMAIN AnswerAssertions = 1..(IF Step.fill[2] = 0 THEN 2 ELSE 3)
      /\ AnswerAssertions[1] = TRUE /\ AnswerAssertions[2] = TRUE
      /\ Step.fill[2] # 0 => AnswerAssertions[3] = TRUE
  BY <1>2, <1>4, AnswersOfFill
<1>6. Asked(Step) = IF Step.fill[2] = 0 THEN 2 ELSE 3
  BY DEF Asked
<1>7. Enough(got)
  BY <1>2 DEF Enough
<1>8. \A i \in DOMAIN AnswerAssertions : AnswerAssertions[i] = TRUE
  <2>1. \A i \in DOMAIN AnswerAssertions : i = 1 \/ i = 2 \/ (i = 3 /\ Step.fill[2] # 0)
    BY <1>5
  <2>. QED
    BY <1>5, <2>1
<1>. QED
  BY <1>5, <1>6, <1>7, <1>8 DEF Satisfied

\* The bot that has heard what the script says asks for no more, and its assertions about
\* the answers hold.
LEMMA HeardAnswers ==
  ASSUME Typed, got = Heard(seq, at)
  PROVE  /\ Enough(got)
         /\ Count(AnswerAssertions, TRUE) = Asked(Step) /\ Count(AnswerAssertions, FALSE) = 0
<1>1. seq \in Sessions /\ at \in DOMAIN CorrectnessSequences[seq] /\ Step = CorrectnessSequences[seq][at]
  BY DEF Typed, Script, Step
<1>2. Satisfied
  <2>1. CASE Step.act = "cancel" /\ ~Step.reject /\ Step.fill = NoFill
               /\ got = <<Msg("cancel_ack", 0, 0)>>
    <3>1. Got("cancel_ack", got) /\ Asked(Step) = 1
      BY <2>1, Messages DEF Got, Asked
    <3>2. DOMAIN AnswerAssertions = 1..1 /\ AnswerAssertions[1] = TRUE
      BY <2>1, <3>1, AnswersOfOthers
    <3>. QED
      BY <2>1, <3>1, <3>2 DEF Enough, Satisfied
  <2>2. CASE Step.act = "order" /\ Step.reject /\ Step.fill = NoFill
               /\ got = <<Ack, Msg("reject", 0, 0)>>
    <3>1. Got("reject", got)
      <4>1. got[2].type = "reject" /\ 2 \in DOMAIN got
        BY <2>2, Messages DEF Msg
      <4>. QED
        BY <4>1 DEF Got
    <3>2. DOMAIN AnswerAssertions = 1..1 /\ AnswerAssertions[1] = TRUE
      BY <2>2, <3>1, AnswersOfOthers
    <3>3. Asked(Step) = 1
      BY <2>2 DEF Asked
    <3>. QED
      BY <2>2, <3>1, <3>2, <3>3 DEF Enough, Satisfied
  <2>3. CASE Step.act = "order" /\ ~Step.reject /\ Step.fill = NoFill /\ got = <<Ack>>
    <3>1. Got("ack", got) /\ Asked(Step) = 0
      BY <2>3, Messages DEF Got, Asked
    <3>2. DOMAIN AnswerAssertions = 1..0
      BY <2>3, AnswersOfOthers
    <3>. QED
      BY <2>3, <3>1, <3>2 DEF Enough, Satisfied
  <2>5. CASE Step.act = "order" /\ ~Step.reject /\ Step.fill = <<P, 10>>
               /\ got = <<Ack, Fill(P, 10)>>
    <3>1. PICK p, q : p = P /\ q = 10
      OBVIOUS
    <3>2. /\ Step.act = "order" /\ ~Step.reject /\ Step.fill # NoFill
          /\ got = <<Ack, Fill(p, q)>> /\ Step.fill[1] = p
          /\ Step.fill[2] = 0 \/ Step.fill[2] = q
      BY <2>5, <3>1 DEF NoFill
    <3>. QED
      BY <3>2, FilledAnswers
  <2>6. CASE Step.act = "order" /\ ~Step.reject /\ Step.fill = <<P1, 0>>
               /\ got = <<Ack, Fill(P1, 5)>>
    <3>1. PICK p, q : p = P1 /\ q = 5
      OBVIOUS
    <3>2. /\ Step.act = "order" /\ ~Step.reject /\ Step.fill # NoFill
          /\ got = <<Ack, Fill(p, q)>> /\ Step.fill[1] = p
          /\ Step.fill[2] = 0 \/ Step.fill[2] = q
      BY <2>6, <3>1, FourPrices DEF NoFill
    <3>. QED
      BY <3>2, FilledAnswers
  <2>7. CASE Step.act = "order" /\ ~Step.reject /\ Step.fill = <<P10, 3>>
               /\ got = <<Ack, Fill(P10, 3)>>
    <3>1. PICK p, q : p = P10 /\ q = 3
      OBVIOUS
    <3>2. /\ Step.act = "order" /\ ~Step.reject /\ Step.fill # NoFill
          /\ got = <<Ack, Fill(p, q)>> /\ Step.fill[1] = p
          /\ Step.fill[2] = 0 \/ Step.fill[2] = q
      BY <2>7, <3>1 DEF NoFill
    <3>. QED
      BY <3>2, FilledAnswers
  <2>8. HeardAs(seq, at, Step, got, Unheard(seq, at))
    BY <1>1, HeardCases
  <2>. QED
    BY <2>1, <2>2, <2>3, <2>5, <2>6, <2>7, <2>8 DEF HeardAs
<1>. QED
  BY <1>2, AnswersCounted DEF Satisfied

\* The levels of a side are those of its cards.
LEMMA ShelfLevels ==
  ASSUME Book!IInv
  PROVE  /\ Shelf = {} => LevelsOf(bids) = 0 /\ LevelsOf(asks) = 0
         /\ \A c : Shelf = {c} /\ c.side = "buy" => LevelsOf(bids) = 1 /\ LevelsOf(asks) = 0
         /\ \A c : Shelf = {c} /\ c.side = "sell" => LevelsOf(bids) = 0 /\ LevelsOf(asks) = 1
         /\ \A c, d : Shelf = {c, d} /\ c.side = "buy" /\ d.side = "buy" /\ c.price # d.price =>
              LevelsOf(bids) = 2
<1>1. bids \in SUBSET InBook /\ asks \in SUBSET InBook /\ InBook = bids \cup asks
  BY DEF InBook
<1>2. /\ \A n \in InBook : n \in bids <=> made[n].side = "buy"
      /\ \A n \in InBook : n \in asks <=> made[n].side = "sell"
  BY BookOrders
<1>3. /\ \A n \in InBook : \E c \in Shelf : c.side = made[n].side /\ c.price = made[n].price
      /\ \A c \in Shelf : \E n \in InBook : c.side = made[n].side /\ c.price = made[n].price
  BY ShelfOrders
<1>4. ASSUME Shelf = {} PROVE LevelsOf(bids) = 0 /\ LevelsOf(asks) = 0
  <2>1. bids = {} /\ asks = {}
    BY <1>1, <1>3, <1>4
  <2>. QED
    BY <1>1, <2>1, LevelsCounted
<1>5. ASSUME NEW c, Shelf = {c}, c.side = "buy" PROVE LevelsOf(bids) = 1 /\ LevelsOf(asks) = 0
  <2>1. asks = {} /\ bids # {} /\ \A n \in bids : made[n].price = c.price
    BY <1>1, <1>2, <1>3, <1>5
  <2>. QED
    BY <1>1, <2>1, LevelsCounted
<1>6. ASSUME NEW c, Shelf = {c}, c.side = "sell" PROVE LevelsOf(bids) = 0 /\ LevelsOf(asks) = 1
  <2>1. bids = {} /\ asks # {} /\ \A n \in asks : made[n].price = c.price
    BY <1>1, <1>2, <1>3, <1>6
  <2>. QED
    BY <1>1, <2>1, LevelsCounted
<1>7. ASSUME NEW c, NEW d, Shelf = {c, d}, c.side = "buy", d.side = "buy", c.price # d.price
      PROVE  LevelsOf(bids) = 2
  <2>1. \A n \in bids : made[n].price \in {c.price, d.price}
    BY <1>1, <1>3, <1>7
  <2>2. \E n \in bids : made[n].price = c.price
    BY <1>2, <1>3, <1>7
  <2>3. \E n \in bids : made[n].price = d.price
    BY <1>2, <1>3, <1>7
  <2>. QED
    BY <1>1, <1>7, <2>1, <2>2, <2>3, LevelsCounted
<1>. QED
  BY <1>4, <1>5, <1>6, <1>7

\* On the script's shelf the book has the levels the step expects.
LEMMA LevelsMet ==
  ASSUME Book!IInv, NEW n \in Sessions, NEW k \in DOMAIN CorrectnessSequences[n],
         Shelf = Shelves[n][k + 1]
  PROVE  /\ LevelsOf(bids) = CorrectnessSequences[n][k].levels[1]
         /\ CorrectnessSequences[n][k].levels[2] # Unchecked =>
              LevelsOf(asks) = CorrectnessSequences[n][k].levels[2]
<1> DEFINE Fits(m, i) ==
      Shelf = Shelves[m][i + 1] =>
        /\ LevelsOf(bids) = CorrectnessSequences[m][i].levels[1]
        /\ CorrectnessSequences[m][i].levels[2] # Unchecked =>
             LevelsOf(asks) = CorrectnessSequences[m][i].levels[2]
<1>1. Fits(1, 2) /\ Fits(2, 3) /\ Fits(3, 3) /\ Fits(4, 2) /\ Fits(4, 4) /\ Fits(5, 1)
  BY BasicMatchSteps, PriorityFillSteps, PartialFillSteps, CancelSteps, RejectSteps, ShelvesTable, ShelfLevels
    DEF StepIs
<1>2. Fits(1, 1) /\ Fits(2, 1) /\ Fits(3, 1) /\ Fits(3, 2) /\ Fits(4, 1)
  <2>1. \A tag, price, rem : Shelf = {Card(tag, "buy", price, rem)} =>
          LevelsOf(bids) = 1 /\ LevelsOf(asks) = 0
    BY ShelfLevels, CardFields
  <2>2. /\ Shelves[1][1 + 1] = {Card("s0-bid", "buy", P, 10)}
        /\ Shelves[2][1 + 1] = {Card("s0-bid-lo", "buy", P, 5)}
        /\ Shelves[3][1 + 1] = {Card("s0-bid", "buy", P10, 10)}
        /\ Shelves[3][2 + 1] = {Card("s0-bid", "buy", P10, 7)}
        /\ Shelves[4][1 + 1] = {Card("s0-bid", "buy", P20, 10)}
    BY ShelvesTable
  <2>3. /\ CorrectnessSequences[1][1].levels = <<1, -1>> /\ CorrectnessSequences[2][1].levels = <<1, -1>>
        /\ CorrectnessSequences[3][1].levels = <<1, -1>> /\ CorrectnessSequences[3][2].levels = <<1, 0>>
        /\ CorrectnessSequences[4][1].levels = <<1, -1>>
    BY BasicMatchSteps, PriorityFillSteps, PartialFillSteps, CancelSteps DEF StepIs
  <2>4. Fits(1, 1) /\ Fits(2, 1)
    BY <2>1, <2>2, <2>3 DEF Unchecked
  <2>5. Fits(3, 1) /\ Fits(3, 2) /\ Fits(4, 1)
    BY <2>1, <2>2, <2>3 DEF Unchecked
  <2>. QED
    BY <2>4, <2>5
<1>3. Fits(2, 2)
  <2>1. \A s, t, p, q, r, u : p # q /\ Shelf = {Card(s, "buy", p, r), Card(t, "buy", q, u)} =>
          LevelsOf(bids) = 2
    BY ShelfLevels, CardFields
  <2>2. Shelves[2][2 + 1] = {Card("s0-bid-lo", "buy", P, 5), Card("s1-bid-hi", "buy", P1, 5)}
    BY ShelvesTable
  <2>3. CorrectnessSequences[2][2].levels = <<2, -1>>
    BY PriorityFillSteps DEF StepIs
  <2>. QED
    BY <2>1, <2>2, <2>3, FourPrices DEF Unchecked
<1>4. Fits(4, 3)
  <2>1. \A tag, price, rem : Shelf = {Card(tag, "sell", price, rem)} =>
          LevelsOf(bids) = 0 /\ LevelsOf(asks) = 1
    BY ShelfLevels, CardFields
  <2>2. Shelves[4][3 + 1] = {Card("s2-ask", "sell", P20, 10)}
    BY ShelvesTable
  <2>3. CorrectnessSequences[4][3].levels = <<0, 1>>
    BY CancelSteps DEF StepIs
  <2>. QED
    BY <2>1, <2>2, <2>3 DEF Unchecked
<1>5. Fits(n, k)
  <2> HIDE DEF Fits
  <2>. QED
    BY <1>1, <1>2, <1>3, <1>4, Positions
<1>. QED
  BY <1>5, SMTT(20)

-----------------------------------------------------------------------------
(* A sequence that nothing disturbs follows its script: the engine's steps.  *)

\* The other sessions have nothing left: they can only end, and nobody sees it.
LEMMA OthersOnScript ==
  ASSUME Basics, LeavesNothing, Clean(seq), pc \in {"send", "read", "check"},
         NEW s \in Sessions, s # seq, EngineStep(s)
  PROVE  /\ Shelf' = Shelf /\ UNCHANGED <<made, mu, says, inbox>>
         /\ wire'[seq] = wire[seq]
<1>. USE DEF Basics
<1>1. Disturbs(s) /\ seq \in Sessions
  BY EngineDisturbs DEF Typed
<1>2. s \in overlap[seq]
  BY <1>1 DEF Disturbs, Beside
<1>3. overlap[seq] \subseteq 1..(seq - 1)
  BY <1>1 DEF Beside
<1>4. seq \in 1..5
  BY <1>1, Lengths
<1>5. s < seq
  BY <1>2, <1>3, <1>4
<1>6. failed[s] = 0
  BY <1>2 DEF Clean
<1>7. Spent(s)
  BY <1>5, <1>6 DEF LeavesNothing, Ended
<1>8. EngineEndsSession(s)
  BY <1>7, WhileQuiet DEF Spent
<1>9. \A n \in InBook : made[n].owner # s
  BY <1>7 DEF Spent, InBook
<1>. QED
  BY <1>1, <1>8, <1>9, EndsDisturbs DEF Disturbs

\* The engine starts the step's order: the first turn.
LEMMA PlacesOnScript ==
  ASSUME Basics, Awaited, Places(seq)
  PROVE  OnTurn'
<1>. USE DEF Basics
<1>1. /\ seq \in Sessions /\ wire[seq] = <<Step>> /\ got = << >> /\ inbox[seq] = << >>
      /\ UNCHANGED <<seq, at, got>> /\ Step' = Step /\ Reads(seq) /\ at \in DOMAIN CorrectnessSequences[seq]
      /\ Shelf = Shelves[seq][at]
  BY BotFixed DEF Awaited, Typed, Script, Places, Reads
<1>2. Head(wire[seq]) = Step /\ Tail(wire[seq]) = << >>
  BY <1>1
<1>3. wire'[seq] = << >> /\ Step \in Steps
  BY <1>1, <1>2, ReadsEffect
<1>4. /\ Step.act = "order" /\ says' = <<Ack>> /\ inbox' = inbox
      /\ Engine!PlaceOrder(seq, Step.tag, Step.side, Step.kind, Step.price, Step.qty)
  BY <1>2 DEF Places
<1>5. mu' = seq /\ made'[Len(made')].rem = Step.qty /\ Shelf' = Shelf
  BY <1>1, <1>3, <1>4, PlaceEffect
<1>6. CorrectnessSequences[seq][at].act = "order" /\ Step = CorrectnessSequences[seq][at]
  BY <1>4 DEF Step
<1>7. /\ 1 \in DOMAIN TurnsOf(seq, at) /\ TurnsOf(seq, at)[1].msgs = <<Ack>>
      /\ TurnsOf(seq, at)[1].shelf = Shelves[seq][at] /\ TurnsOf(seq, at)[1].rem = Step.qty
  BY <1>1, <1>6, PlaceScript
<1>8. /\ says' = TurnsOf(seq, at)[1].msgs /\ Shelf' = TurnsOf(seq, at)[1].shelf
      /\ made'[Len(made')].rem = TurnsOf(seq, at)[1].rem
  BY <1>1, <1>4, <1>5, <1>7
<1>. QED
  BY <1>1, <1>3, <1>4, <1>5, <1>7, <1>8 DEF OnTurn

\* A match: the next turn.
LEMMA MatchesOnScript ==
  ASSUME Basics, AtIt, OnTurn, EngineMatches(seq)
  PROVE  OnTurn'
<1>. USE DEF Basics
<1>1. /\ seq \in Sessions /\ Engine!MatchOne(seq) /\ wire' = wire /\ inbox' = inbox
      /\ says' = Append(says, Fill(made[Engine!BestOpposite].price, Engine!MatchedQty))
      /\ UNCHANGED <<seq, at, got>> /\ Step' = Step
      /\ at \in DOMAIN CorrectnessSequences[seq]
  BY BotFixed, MatchesDisturbs DEF Typed, EngineMatches, Script
<1>2. PICK b, q : b = Engine!BestOpposite /\ q = Engine!MatchedQty
  OBVIOUS
<1>3. /\ mu' = mu /\ Len(made') = Len(made) /\ Len(made) \in 1..Len(made)
      /\ b \in InBook /\ made[b].side # Newest.side /\ Newest.rem > 0
      /\ \A c \in Shelf : c.side # Newest.side =>
           IF Newest.side = "buy" THEN made[b].price <= c.price ELSE c.price <= made[b].price
      /\ q = IF Newest.rem < made[b].rem THEN Newest.rem ELSE made[b].rem
      /\ made'[Len(made)].rem = Newest.rem - q
      /\ Shelf' = (Shelf \ {CardOf(b)}) \cup
           IF made[b].rem = q THEN {}
           ELSE {Card(made[b].id, made[b].side, made[b].price, made[b].rem - q)}
  BY <1>1, <1>2, MatchEffect
<1>4. Step.act = "order" /\ Newest.side = Step.side /\ Step = CorrectnessSequences[seq][at]
  BY DEF AtIt, Newest, Step
<1>5. PICK t \in DOMAIN TurnsOf(seq, at) :
        /\ says = TurnsOf(seq, at)[t].msgs /\ Shelf = TurnsOf(seq, at)[t].shelf
        /\ Newest.rem = TurnsOf(seq, at)[t].rem
  BY DEF OnTurn, Newest
<1>6. PICK c : c = CardOf(b)
  OBVIOUS
<1>7. /\ c \in Shelf /\ c.tag = made[b].id /\ c.side = made[b].side /\ c.price = made[b].price
      /\ c.rem = made[b].rem
  BY <1>3, <1>6, ShelfOrders
<1>8. Shelf' = Taken(Shelf, c, q)
  BY <1>3, <1>6, <1>7 DEF Taken
<1>9. \E u \in DOMAIN TurnsOf(seq, at) :
        /\ TurnsOf(seq, at)[u].msgs = Append(says, Fill(c.price, q))
        /\ TurnsOf(seq, at)[u].rem = Newest.rem - q
        /\ TurnsOf(seq, at)[u].shelf = Taken(Shelf, c, q)
  <2>1. PICK n, k, shelf, rem, msgs, side :
          /\ n = seq /\ k = at /\ shelf = Shelf /\ rem = Newest.rem /\ msgs = says /\ side = Step.side
    OBVIOUS
  <2>2. /\ n \in Sessions /\ k \in DOMAIN CorrectnessSequences[n]
        /\ CorrectnessSequences[n][k].act = "order"
        /\ t \in DOMAIN TurnsOf(n, k)
        /\ shelf = TurnsOf(n, k)[t].shelf /\ rem = TurnsOf(n, k)[t].rem
        /\ msgs = TurnsOf(n, k)[t].msgs /\ side = CorrectnessSequences[n][k].side
    BY <1>1, <1>4, <1>5, <2>1
  <2>3. /\ rem > 0 /\ c \in shelf /\ c.side # side
        /\ q = IF rem < c.rem THEN rem ELSE c.rem
    BY <1>3, <1>4, <1>7, <2>1
  <2>4. \A d \in shelf : d.side # side =>
          IF side = "buy" THEN c.price <= d.price ELSE d.price <= c.price
    BY <1>3, <1>4, <1>7, <2>1
  <2>. QED
    BY <2>1, <2>2, <2>3, <2>4, MatchScript
<1>10. says' = Append(says, Fill(c.price, q)) /\ made'[Len(made')].rem = Newest.rem - q
  BY <1>1, <1>2, <1>3, <1>7
<1>11. wire'[seq] = << >> /\ mu' = seq /\ got' = << >> /\ inbox'[seq] = << >>
  BY <1>1, <1>3 DEF OnTurn
<1>. QED
  BY <1>1, <1>8, <1>9, <1>10, <1>11 DEF OnTurn

\* A cancel: what is heard of it is under way.
LEMMA CancelsOnScript ==
  ASSUME Basics, Awaited, Cancels(seq)
  PROVE  Replied'
<1>. USE DEF Basics
<1>1. /\ seq \in Sessions /\ wire[seq] = <<Step>> /\ got = << >> /\ inbox[seq] = << >>
      /\ UNCHANGED <<seq, at, got>> /\ Reads(seq) /\ at \in DOMAIN CorrectnessSequences[seq]
      /\ Shelf = Shelves[seq][at] /\ mu = NoSession /\ Step = CorrectnessSequences[seq][at]
  BY BotFixed DEF Awaited, Typed, Script, Cancels, Reads, Step
<1>2. Head(wire[seq]) = Step /\ Tail(wire[seq]) = << >>
  BY <1>1
<1>3. wire'[seq] = << >> /\ Step \in Steps
  BY <1>1, <1>2, ReadsEffect
<1>4. /\ Step.act = "cancel" /\ Engine!HandleCancel(seq, Step.tag)
      /\ inbox' = [inbox EXCEPT ![seq] = @ \o <<Msg("cancel_ack", 0, 0)>>]
  BY <1>2 DEF Cancels
<1>5. mu' = mu /\ Shelf' = {c \in Shelf : c.tag # Step.tag}
  BY <1>1, <1>3, <1>4, CancelEffect, StepShape
<1>6. Shelf' = Shelves[seq][at + 1]
  BY <1>1, <1>4, <1>5, CancelScript
<1>7. inbox'[seq] = <<Msg("cancel_ack", 0, 0)>>
  <2>1. PICK msgs : msgs = <<Msg("cancel_ack", 0, 0)>>
    OBVIOUS
  <2>2. msgs \in Seq(Message)
    BY <2>1, Messages
  <2>3. inbox'[seq] = << >> \o msgs
    BY <1>1, <1>4, <2>1, <2>2, ReplyEffect
  <2>. QED
    BY <2>1, <2>3, Tuples
<1>8. Heard(seq, at) \o Unheard(seq, at) = <<Msg("cancel_ack", 0, 0)>>
  <2>1. HeardAs(seq, at, Step, Heard(seq, at), Unheard(seq, at))
    BY <1>1, HeardCases
  <2>2. Heard(seq, at) = <<Msg("cancel_ack", 0, 0)>> /\ Unheard(seq, at) = << >>
    BY <1>4, <2>1 DEF HeardAs
  <2>. QED
    BY <2>2, Tuples
<1>. QED
  BY <1>1, <1>3, <1>5, <1>6, <1>7, <1>8 DEF Replied

\* Nothing is refused: the order's tag is new, and the order to cancel is there, its own.
LEMMA NothingRefused ==
  ASSUME Basics, LeavesNothing, Clean(seq), pc = "read", Awaited, Refuses(seq)
  PROVE  FALSE
<1>. USE DEF Basics
<1>1. /\ seq \in Sessions /\ wire[seq] = <<Step>> /\ at \in DOMAIN CorrectnessSequences[seq]
      /\ Shelf = Shelves[seq][at] /\ Step = CorrectnessSequences[seq][at]
  BY DEF Awaited, Typed, Script, Step
<1>2. Head(wire[seq]) = Step
  BY <1>1
<1>3. /\ Step.act = "cancel" => (Step.tag \in DOMAIN orders => made[orders[Step.tag]].owner # seq)
      /\ Step.act = "order" => Step.tag \in DOMAIN orders
  BY <1>2 DEF Refuses
<1>4. /\ \A i \in DOMAIN orders : orders[i] \in InBook /\ made[orders[i]].id = i
      /\ \A n \in InBook : \E i \in DOMAIN orders : orders[i] = n /\ made[n].id = i
  <2>1. Book!InBook = InBook
    BY DEF Book!InBook, InBook
  <2>2. \A i \in DOMAIN orders : made[orders[i]].id = i
    BY DEF Book!IInv, Book!BookConsistent
  <2>. QED
    BY <2>1, <2>2, Book!BookPositions, EngineConstants
<1>5. ASSUME Step.act = "order" PROVE FALSE
  <2>1. PICK c \in Shelf : c.tag = Step.tag
    <3>1. orders[Step.tag] \in InBook /\ made[orders[Step.tag]].id = Step.tag
      BY <1>3, <1>4, <1>5
    <3>. QED
      BY <3>1, ShelfOrders
  <2>2. \A d \in Shelves[seq][at] : d.tag # Step.tag
    BY <1>1, <1>5, PlaceScript
  <2>. QED
    BY <1>1, <2>1, <2>2
<1>6. ASSUME Step.act = "cancel" PROVE FALSE
  <2>1. PICK c \in Shelf : c.tag = Step.tag
    BY <1>1, <1>6, CancelScript
  <2>2. PICK n \in InBook : c = CardOf(n)
    BY ShelfOrders
  <2>3. made[n].id = Step.tag
    BY <2>1, <2>2, ShelfOrders
  <2>4. Step.tag \in DOMAIN orders /\ orders[Step.tag] = n
    BY <1>4, <2>3
  <2>5. made[n].owner # seq
    BY <1>3, <1>6, <2>4
  <2>6. made[n].owner \in Sessions /\ session[made[n].owner] # "closed"
    <3>1. made[n].owner \in Sessions
      BY BookOrders
    <3>2. session[made[n].owner] # "closed"
      BY DEF Book!IInv, Book!NoOrderWithoutSession, InBook
    <3>. QED
      BY <3>1, <3>2
  <2>7. PICK e : e = made[n].owner
    OBVIOUS
  <2>8. e \in Sessions /\ e \in overlap[seq]
    BY <2>5, <2>6, <2>7 DEF Beside
  <2>9. e < seq
    BY <1>1, <2>8, Lengths DEF Beside
  <2>10. Spent(e)
    BY <2>8, <2>9 DEF LeavesNothing, Ended, Clean
  <2>. QED
    BY <2>7, <2>10 DEF Spent, InBook
<1>7. Step \in Steps
  BY <1>1, StepsArePositions
<1>. QED
  BY <1>5, <1>6, <1>7, StepShape

\* What is said of an order by its end.
SaidAs(n, k, step, msgs) ==
  /\ step.reject => msgs = <<Ack>>
  /\ n = 1 /\ k = 2 => msgs = <<Ack, Fill(P, 10)>>
  /\ n = 2 /\ k = 3 => msgs = <<Ack, Fill(P1, 5), Fill(P, 5)>>
  /\ n = 3 /\ k = 2 => msgs = <<Ack, Fill(P10, 3)>>
  /\ ~(n = 1 /\ k = 2) /\ ~(n = 2 /\ k = 3) /\ ~(n = 3 /\ k = 2) => msgs = <<Ack>>

\* What is said of an order, and the reject of what it leaves, is what is heard and left
\* unheard.
LEMMA SaidIsHeard ==
  ASSUME NEW n, NEW k, NEW step, NEW heard, NEW unheard, NEW msgs, NEW answers,
         HeardAs(n, k, step, heard, unheard), step.act = "order",
         SaidAs(n, k, step, msgs),
         answers = msgs \o Rejected \/ ~step.reject, answers = msgs \o << >> \/ step.reject
  PROVE  << >> \o answers = heard \o unheard
<1>1. CASE step.reject
  <2>1. heard = <<Ack, Msg("reject", 0, 0)>> /\ unheard = << >> /\ msgs = <<Ack>>
    BY <1>1 DEF HeardAs, SaidAs
  <2>2. answers = <<Ack>> \o <<Msg("reject", 0, 0)>>
    BY <1>1, <2>1 DEF Rejected
  <2>3. answers = <<Ack, Msg("reject", 0, 0)>>
    BY <2>2, Tuples
  <2>. QED
    BY <2>1, <2>3, Tuples
<1>2. CASE ~step.reject
  <2>1. answers = msgs \o << >>
    BY <1>2
  <2>2. CASE n = 1 /\ k = 2
    <3>1. heard = <<Ack, Fill(P, 10)>> /\ unheard = << >> /\ msgs = <<Ack, Fill(P, 10)>>
      BY <1>2, <2>2 DEF HeardAs, SaidAs
    <3>2. answers = <<Ack, Fill(P, 10)>>
      BY <2>1, <3>1, Tuples
    <3>. QED
      BY <3>1, <3>2, Tuples
  <2>3. CASE n = 2 /\ k = 3
    <3>1. /\ heard = <<Ack, Fill(P1, 5)>> /\ unheard = <<Fill(P, 5)>>
          /\ msgs = <<Ack, Fill(P1, 5), Fill(P, 5)>>
      BY <1>2, <2>3 DEF HeardAs, SaidAs
    <3>2. answers = <<Ack, Fill(P1, 5), Fill(P, 5)>>
      BY <2>1, <3>1, Tuples
    <3>. QED
      BY <3>1, <3>2, Tuples
  <2>4. CASE n = 3 /\ k = 2
    <3>1. heard = <<Ack, Fill(P10, 3)>> /\ unheard = << >> /\ msgs = <<Ack, Fill(P10, 3)>>
      BY <1>2, <2>4 DEF HeardAs, SaidAs
    <3>2. answers = <<Ack, Fill(P10, 3)>>
      BY <2>1, <3>1, Tuples
    <3>. QED
      BY <3>1, <3>2, Tuples
  <2>5. CASE ~(n = 1 /\ k = 2) /\ ~(n = 2 /\ k = 3) /\ ~(n = 3 /\ k = 2)
    <3>1. heard = <<Ack>> /\ unheard = << >> /\ msgs = <<Ack>>
      BY <1>2, <2>5 DEF HeardAs, SaidAs
    <3>2. answers = <<Ack>>
      BY <2>1, <3>1, Tuples
    <3>. QED
      BY <3>1, <3>2, Tuples
  <2>. QED
    BY <2>2, <2>3, <2>4, <2>5
<1>. QED
  BY <1>1, <1>2

\* The answers to an order: they are what is heard and left unheard.
LEMMA AnswersOnScript ==
  ASSUME Basics, AtIt, OnTurn, EngineAnswers(seq)
  PROVE  Replied'
<1>. USE DEF Basics
<1>1. /\ seq \in Sessions /\ Engine!Finish(seq) /\ UNCHANGED <<seq, at, got>>
      /\ at \in DOMAIN CorrectnessSequences[seq] /\ Step = CorrectnessSequences[seq][at]
      /\ got = << >> /\ inbox[seq] = << >> /\ mu' = NoSession /\ wire'[seq] = << >>
  BY BotFixed, AnswersShape DEF Typed, Script, Step, EngineAnswers, OnTurn
<1>2. /\ Len(made) \in 1..Len(made)
      /\ Newest.rem > 0 => \A c \in Shelf : c.side # Newest.side =>
           /\ Newest.kind # "market"
           /\ IF Newest.side = "buy" THEN Newest.price < c.price ELSE c.price < Newest.price
      /\ Shelf' = Shelf \cup
           IF Newest.kind = "limit" /\ Newest.rem > 0 THEN {CardOf(Len(made))} ELSE {}
  BY <1>1, FinishEffect
<1>3. /\ Step.act = "order" /\ Newest.side = Step.side /\ Newest.kind = Step.kind
      /\ Newest.price = Step.price /\ Newest.id = Step.tag
  BY DEF AtIt, Newest
<1>4. PICK t \in DOMAIN TurnsOf(seq, at) :
        /\ says = TurnsOf(seq, at)[t].msgs /\ Shelf = TurnsOf(seq, at)[t].shelf
        /\ Newest.rem = TurnsOf(seq, at)[t].rem
  BY DEF OnTurn, Newest
<1>5. CardOf(Len(made)) = Card(Step.tag, Step.side, Step.price, Newest.rem)
  BY <1>3 DEF CardOf, Newest
<1>6. PICK n, k, shelf, rem, msgs, step :
        /\ n = seq /\ k = at /\ shelf = Shelf /\ rem = Newest.rem /\ msgs = says /\ step = Step
  OBVIOUS
<1>7. /\ n \in Sessions /\ k \in DOMAIN CorrectnessSequences[n]
      /\ CorrectnessSequences[n][k].act = "order" /\ step = CorrectnessSequences[n][k]
      /\ t \in DOMAIN TurnsOf(n, k)
      /\ shelf = TurnsOf(n, k)[t].shelf /\ rem = TurnsOf(n, k)[t].rem
      /\ msgs = TurnsOf(n, k)[t].msgs
  BY <1>1, <1>3, <1>4, <1>6
<1>8. rem > 0 => \A d \in shelf : d.side # step.side =>
        /\ step.kind # "market"
        /\ IF step.side = "buy" THEN step.price < d.price ELSE d.price < step.price
  BY <1>2, <1>3, <1>6
<1>9. /\ Shelves[n][k + 1] = shelf \cup
           IF step.kind = "limit" /\ rem > 0 THEN {Card(step.tag, step.side, step.price, rem)}
           ELSE {}
      /\ step.kind = "market" /\ rem > 0 <=> step.reject
      /\ step.reject => msgs = <<Ack>>
      /\ n = 1 /\ k = 2 => msgs = <<Ack, Fill(P, 10)>>
      /\ n = 2 /\ k = 3 => msgs = <<Ack, Fill(P1, 5), Fill(P, 5)>>
      /\ n = 3 /\ k = 2 => msgs = <<Ack, Fill(P10, 3)>>
      /\ ~(n = 1 /\ k = 2) /\ ~(n = 2 /\ k = 3) /\ ~(n = 3 /\ k = 2) => msgs = <<Ack>>
  BY <1>7, <1>8, FinishScript
<1>10. Shelf' = Shelves[n][k + 1]
  BY <1>2, <1>3, <1>5, <1>6, <1>9
<1>11. Unfilled <=> step.reject
  BY <1>3, <1>6, <1>9 DEF Unfilled, Newest
<1>12. PICK answers \in Seq(Message) :
         /\ inbox' = [inbox EXCEPT ![seq] = @ \o answers]
         /\ answers = says \o IF Unfilled THEN Rejected ELSE << >>
  BY AnswersShape
<1>13. inbox'[seq] = << >> \o answers
  BY <1>1, <1>12, ReplyEffect
<1>14. HeardAs(n, k, step, Heard(n, k), Unheard(n, k))
  BY <1>7, HeardCases
<1>15. inbox'[seq] = Heard(seq, at) \o Unheard(seq, at)
  <2>1. step.act = "order" /\ SaidAs(n, k, step, msgs)
    BY <1>3, <1>6, <1>9 DEF SaidAs
  <2>2. (answers = msgs \o Rejected \/ ~step.reject) /\ (answers = msgs \o << >> \/ step.reject)
    BY <1>6, <1>11, <1>12
  <2>3. PICK heard, unheard : heard = Heard(n, k) /\ unheard = Unheard(n, k)
    OBVIOUS
  <2>4. HeardAs(n, k, step, heard, unheard)
    BY <1>14, <2>3
  <2>5. << >> \o answers = heard \o unheard
    BY <2>1, <2>2, <2>4, SaidIsHeard
  <2>. QED
    BY <1>6, <1>13, <2>3, <2>5
<1>16. Shelf' = Shelves[seq][at + 1]
  BY <1>6, <1>10
<1>. QED
  BY <1>1, <1>15, <1>16 DEF Replied

\* The engine keeps to the script.
LEMMA EngineOnScript ==
  ASSUME Basics, InStep, LeavesNothing, Clean(seq), OnScript, pc \in {"send", "read", "check"},
         NEW s \in Sessions, EngineStep(s)
  PROVE  OnScript'
<1>. USE DEF Basics
<1>1. UNCHANGED <<open, pc, seq, at, got>> /\ Step' = Step
  BY EngineDisturbs, BotFixed DEF Disturbs
<1>2. CASE s # seq
  <2>1. Shelf' = Shelf /\ UNCHANGED <<made, mu, says, inbox>> /\ wire'[seq] = wire[seq]
    BY <1>2, OthersOnScript
  <2>2. (Awaited => Awaited') /\ (Replied => Replied')
    BY <1>1, <2>1 DEF Awaited, Replied
  <2>3. OnTurn => OnTurn'
    BY <1>1, <2>1 DEF OnTurn
  <2>. QED
    BY <1>1, <2>1, <2>2, <2>3 DEF OnScript
<1>3. CASE s = seq
  <2>1. seq \in open /\ seq # NoSession
    BY EngineConstants DEF OnScript, Typed
  <2>2. /\ pc = "read"
        /\ \/ Sent /\ (Places(seq) \/ Cancels(seq) \/ Refuses(seq))
           \/ AtIt /\ (EngineMatches(seq) \/ EngineAnswers(seq))
    BY <1>3, <2>1, OwnSession
  <2>3. Awaited \/ OnTurn \/ Replied
    BY <2>2 DEF OnScript
  <2>4. Sent => Awaited
    BY <2>3 DEF Sent, OnTurn, Replied
  <2>5. AtIt => OnTurn
    BY <2>1, <2>3 DEF AtIt, Awaited, Replied
  <2>6. OnTurn' \/ Replied'
    BY <2>2, <2>4, <2>5, PlacesOnScript, CancelsOnScript, NothingRefused, MatchesOnScript,
       AnswersOnScript
  <2>. QED
    BY <1>1, <2>1, <2>2, <2>6 DEF OnScript
<1>. QED
  BY <1>2, <1>3

\* And keeps the scores.
LEMMA EngineKeepsTracks ==
  ASSUME Basics, InStep, LeavesNothing, Tracks, NEW s \in Sessions, EngineStep(s)
  PROVE  Tracks'
<1>. USE DEF Basics
<1>1. /\ UNCHANGED <<pc, seq, at, passed, failed>>
      /\ \A n : (Ended(n)' <=> Ended(n)) /\ (Clean(n)' <=> Clean(n))
  BY EngineDisturbs, BotFixed DEF Disturbs
<1>2. Clean(seq)' <=> Clean(seq)
  BY <1>1
<1>3. pc \in {"send", "read", "check"} /\ Clean(seq) => OnScript'
  BY EngineOnScript DEF Tracks
<1>. QED
  BY <1>1, <1>2, <1>3 DEF Tracks

-----------------------------------------------------------------------------
(* A sequence that nothing disturbs follows its script: the bot's steps.     *)

\* What ended before keeps its score, and what disturbed it.
LEMMA EarlierTracks ==
  ASSUME Basics, Tracks, hit \subseteq hit',
         \A n \in Sessions : n # seq =>
           overlap'[n] = overlap[n] /\ failed'[n] = failed[n] /\ passed'[n] = passed[n]
  PROVE  \A n \in Sessions : n < seq /\ Clean(n)' => failed'[n] = 0 /\ passed'[n] = Full(n)
<1>. USE DEF Basics
<1> SUFFICES ASSUME NEW n \in Sessions, n < seq, Clean(n)'
             PROVE  failed'[n] = 0 /\ passed'[n] = Full(n)
  OBVIOUS
<1>1. n \in 1..5 /\ seq \in 1..5 /\ Sessions = 1..5 /\ n # seq
  BY Lengths DEF Typed
<1>2. overlap'[n] = overlap[n] /\ failed'[n] = failed[n] /\ passed'[n] = passed[n]
  BY <1>1
<1>3. n \notin hit /\ \A e \in overlap[n] : failed'[e] = 0
  BY <1>2 DEF Clean
<1>4. \A e \in overlap[n] : e \in Sessions /\ e # seq
  <2>1. overlap[n] \subseteq 1..(n - 1)
    BY DEF Beside
  <2>. QED
    BY <1>1, <2>1
<1>5. \A e \in overlap[n] : failed[e] = 0
  BY <1>3, <1>4
<1>6. Ended(n) /\ Clean(n)
  BY <1>3, <1>5 DEF Ended, Clean
<1>. QED
  BY <1>2, <1>6 DEF Tracks

\* So only the sequence under way has to be looked at.
LEMMA WithinKeepsTracks ==
  ASSUME Basics, Basics', Tracks, seq' = seq, hit \subseteq hit',
         \A n \in Sessions : n # seq =>
           overlap'[n] = overlap[n] /\ failed'[n] = failed[n] /\ passed'[n] = passed[n],
         pc' \in {"send", "read", "check", "close"},
         Clean(seq)' => /\ pc' # "close" => OnScript' /\ passed'[seq] = Worth[seq][at']
                        /\ pc' = "close" => passed'[seq] = Full(seq)
                        /\ failed'[seq] = 0
  PROVE  Tracks'
<1>1. \A n \in Sessions : n < seq /\ Clean(n)' => failed'[n] = 0 /\ passed'[n] = Full(n)
  BY EarlierTracks
<1>2. ASSUME NEW n \in Sessions, Ended(n)', Clean(n)' PROVE failed'[n] = 0 /\ passed'[n] = Full(n)
  <2>1. n < seq \/ (n = seq /\ pc' = "close")
    BY <1>2 DEF Ended
  <2>2. CASE n < seq
    BY <1>1, <1>2, <2>2
  <2>3. CASE n = seq /\ pc' = "close"
    <3>1. Clean(seq)'
      BY <1>2, <2>3 DEF Clean
    <3>. QED
      BY <2>3, <3>1
  <2>. QED
    BY <2>1, <2>2, <2>3
<1>3. pc' \in {"send", "read", "check"} /\ Clean(seq)' =>
        OnScript' /\ failed'[seq] = 0 /\ passed'[seq] = Worth[seq][at']
  OBVIOUS
<1>. QED
  BY <1>2, <1>3 DEF Tracks

\* What is not clean now will not be.
LEMMA CleanNow ==
  ASSUME Basics, seq' = seq, hit \subseteq hit', overlap'[seq] = overlap[seq],
         \A n \in Sessions : n # seq => failed'[n] = failed[n], Clean(seq)'
  PROVE  Clean(seq) /\ seq \notin hit'
<1>1. seq \in 1..5 /\ Sessions = 1..5 /\ overlap[seq] \subseteq 1..(seq - 1)
  BY Lengths DEF Basics, Typed, Beside
<1>2. \A e \in overlap[seq] : e \in Sessions /\ e # seq
  BY <1>1
<1>3. seq \notin hit' /\ \A e \in overlap[seq] : failed'[e] = 0
  BY DEF Clean
<1>. QED
  BY <1>2, <1>3 DEF Clean

\* A sequence begins on an empty book, if those beside it lost nothing.
LEMMA DialKeepsTracks ==
  ASSUME Basics, LeavesNothing, Tracks, Dial
  PROVE  Tracks'
<1>. USE DEF Basics
<1>1. /\ Basics' /\ UNCHANGED <<inbox, seq, passed, failed, hit>>
      /\ pc = "dial" /\ pc' = "send" /\ at' = at /\ at = 1 /\ open' = {seq}
      /\ overlap'[seq] = {n \in Sessions : session[n] # "closed"}
      /\ \A n \in Sessions : n # seq => overlap'[n] = overlap[n]
      /\ mu' = mu /\ Shelf' = Shelf /\ session[seq] = "closed"
  BY DialKeepsBasics
<1>2. seq \in 1..5 /\ Sessions = 1..5
  BY Lengths DEF Typed
<1>3. ASSUME Clean(seq)'
      PROVE  OnScript' /\ failed'[seq] = 0 /\ passed'[seq] = Worth[seq][at']
  <2>1. ~Begun(seq)
    BY <1>1, <1>2 DEF Begun
  <2>2. inbox[seq] = << >> /\ passed[seq] = 0 /\ failed[seq] = 0
    BY <1>2, <2>1 DEF NotBegun
  <2>3. \A e \in Sessions : session[e] # "closed" => failed[e] = 0
    BY <1>1, <1>3 DEF Clean
  <2>4. ASSUME NEW e \in Sessions, session[e] # "closed" PROVE Spent(e)
    <3>1. Begun(e)
      BY <2>4 DEF NotBegun
    <3>2. e < seq
      BY <1>1, <2>4, <3>1 DEF Begun
    <3>. QED
      BY <2>3, <2>4, <3>2 DEF LeavesNothing, Ended
  <2>5. mu = NoSession
    BY <2>4, Holder DEF Spent
  <2>6. InBook = {}
    <3>1. ASSUME NEW n \in InBook PROVE FALSE
      <4>1. PICK e : e = made[n].owner
        OBVIOUS
      <4>2. e \in Sessions /\ session[e] # "closed"
        BY <4>1, BookOrders DEF Book!IInv, Book!NoOrderWithoutSession, InBook
      <4>3. Spent(e)
        BY <2>4, <4>2
      <4>. QED
        BY <4>1, <4>3 DEF Spent, InBook
    <3>. QED
      BY <3>1
  <2>7. Shelf = {}
    BY <2>6, ShelfOrders
  <2>8. Shelves[seq][1] = {}
    BY <1>2, ShelvesTable
  <2>9. Worth[seq][1] = 0
    BY <1>2, Budgets
  <2>10. OnScript'
    <3>1. seq \in open'
      BY <1>1
    <3>2. Shelf' = Shelves[seq][at'] /\ mu' = NoSession /\ inbox'[seq] = << >>
      BY <1>1, <2>2, <2>5, <2>7, <2>8
    <3>. QED
      BY <1>1, <3>1, <3>2 DEF OnScript
  <2>. QED
    BY <1>1, <2>2, <2>9, <2>10
<1>. QED
  BY <1>1, <1>3, WithinKeepsTracks

\* The message of a step goes out.
LEMMA SendKeepsTracks ==
  ASSUME Basics, InStep, Tracks, Send
  PROVE  Tracks'
<1>. USE DEF Basics
<1>1. /\ Basics' /\ UNCHANGED engine /\ UNCHANGED <<inbox, open, seq, at, ctxDone, overlap>>
      /\ UNCHANGED <<passed, failed, hiccups, hit>>
      /\ pc = "send" /\ seq \in open /\ pc' = "read" /\ got' = << >>
      /\ wire'[seq] = Append(wire[seq], Step) /\ seq \in Sessions
  BY SendKeepsBasics DEF Typed
<1>2. Shelf' = Shelf /\ mu' = mu
  BY <1>1, EngineIdle
<1>3. ASSUME Clean(seq)'
      PROVE  OnScript' /\ failed'[seq] = 0 /\ passed'[seq] = Worth[seq][at']
  <2>1. Clean(seq)
    BY <1>1, <1>3, CleanNow
  <2>2. OnScript /\ failed[seq] = 0 /\ passed[seq] = Worth[seq][at]
    BY <1>1, <2>1 DEF Tracks
  <2>3. wire[seq] = << >>
    BY <1>1 DEF InStep, Quiet
  <2>4. Step' = Step
    BY <1>1 DEF Step
  <2>5. wire'[seq] = <<Step>>
    BY <1>1, <2>3
  <2>6. Awaited'
    BY <1>1, <1>2, <2>2, <2>4, <2>5 DEF Awaited, OnScript
  <2>. QED
    BY <1>1, <2>2, <2>6 DEF OnScript
<1>. QED
  BY <1>1, <1>3, WithinKeepsTracks

\* One or two answers are heard, and at most one more left, after two.
LEMMA HeardShape ==
  ASSUME NEW n, NEW k, NEW step, NEW heard, NEW unheard, HeardAs(n, k, step, heard, unheard)
  PROVE  \/ \E h : heard = <<h>> /\ unheard = << >>
         \/ \E h : /\ heard = <<Ack, h>> /\ h.type # "ack" /\ (step.reject \/ step.fill # NoFill)
                   /\ h.type = (IF step.reject THEN "reject" ELSE "fill")
                   /\ step.act = "order"
                   /\ unheard = << >> \/ \E u : unheard = <<u>>
<1>1. \A p, q : Fill(p, q).type = "fill"
  BY Messages
<1>2. Msg("reject", 0, 0).type = "reject"
  BY DEF Msg
<1>3. <<P, 10>> # NoFill /\ <<P1, 0>> # NoFill /\ <<P10, 3>> # NoFill
  BY FourPrices DEF NoFill
<1>. QED
  BY <1>1, <1>2, <1>3 DEF HeardAs

\* What is heard is enough, and of two answers the first is not.
LEMMA HeardEnough ==
  ASSUME Typed, NEW heard, heard = Heard(seq, at)
  PROVE  Enough(heard) /\ (Len(heard) = 2 => ~Enough(<<Ack>>))
<1>1. HeardAs(seq, at, Step, heard, Unheard(seq, at))
  BY HeardCases DEF Typed, Script, Step
<1>2. PICK unheard : unheard = Unheard(seq, at)
  OBVIOUS
<1>3. Ack.type = "ack" /\ Msg("cancel_ack", 0, 0).type = "cancel_ack"
  BY Messages
<1>4. CASE \E h : heard = <<h>>
  <2>1. PICK h : heard = <<h>>
    BY <1>4
  <2>2. (\A x : heard = <<x>> => h = x) /\ \A x, y : heard # <<x, y>>
    <3>1. Len(heard) = 1 /\ \A x, y : Len(<<x, y>>) = 2
      BY <2>1
    <3>. QED
      BY <2>1, <3>1
  <2>3. Len(heard) # 2
    BY <2>1
  <2>4. \/ Step.act = "cancel" /\ heard = <<Msg("cancel_ack", 0, 0)>>
        \/ /\ Step.act = "order" /\ ~Step.reject /\ Step.fill = NoFill
           /\ heard = <<Ack>>
    BY <1>1, <2>2 DEF HeardAs
  <2>5. 1 \in DOMAIN heard /\ heard[1] = h
    BY <2>1
  <2>6. CASE Step.act = "cancel" /\ heard = <<Msg("cancel_ack", 0, 0)>>
    <3>1. Got("cancel_ack", heard)
      BY <1>3, <2>2, <2>5, <2>6 DEF Got
    <3>. QED
      BY <2>6, <2>3, <3>1 DEF Enough
  <2>7. CASE Step.act = "order" /\ ~Step.reject /\ Step.fill = NoFill /\ heard = <<Ack>>
    <3>1. Got("ack", heard)
      BY <1>3, <2>2, <2>5, <2>7 DEF Got
    <3>. QED
      BY <2>7, <2>3, <3>1 DEF Enough
  <2>. QED
    BY <2>4, <2>6, <2>7
<1>5. CASE \E h : heard = <<Ack, h>> /\ h.type # "ack" /\ (Step.reject \/ Step.fill # NoFill)
                    /\ h.type = (IF Step.reject THEN "reject" ELSE "fill") /\ Step.act = "order"
  <2>1. PICK h : /\ heard = <<Ack, h>> /\ (Step.reject \/ Step.fill # NoFill)
                 /\ h.type = (IF Step.reject THEN "reject" ELSE "fill") /\ Step.act = "order"
    BY <1>5
  <2>2. DOMAIN heard = 1..2 /\ heard[1] = Ack /\ heard[2] = h
    BY <2>1
  <2>3. Got("ack", heard) /\ Got(h.type, heard)
    BY <1>3, <2>2 DEF Got
  <2>4. Enough(heard)
    BY <2>1, <2>3 DEF Enough
  <2>5. \A type : Got(type, <<Ack>>) => type = "ack"
    BY <1>3 DEF Got
  <2>6. ~Enough(<<Ack>>)
    BY <2>1, <2>5 DEF Enough
  <2>. QED
    BY <2>4, <2>6
<1>. QED
  BY <1>1, <1>2, <1>4, <1>5, HeardShape

\* The bot reads what the script says.
LEMMA ReadOnScript ==
  ASSUME Basics, Replied, Read
  PROVE  \/ Replied' /\ ~Enough(got')
         \/ got' = Heard(seq, at) /\ inbox'[seq] = Unheard(seq, at) /\ Enough(got')
<1>. USE DEF Basics
<1>1. /\ UNCHANGED engine /\ UNCHANGED <<wire, seq, at>>
      /\ inbox'[seq] = Tail(inbox[seq]) /\ got' = Append(got, Head(inbox[seq]))
  BY ReadKeepsBasics
<1>2. Shelf' = Shelf /\ mu' = mu
  BY <1>1, EngineIdle
<1>3. PICK heard, unheard : heard = Heard(seq, at) /\ unheard = Unheard(seq, at)
  OBVIOUS
<1>4. Enough(heard) /\ (Len(heard) = 2 => ~Enough(<<Ack>>))
  BY <1>3, HeardEnough
<1>5. HeardAs(seq, at, Step, heard, unheard)
  BY <1>3, HeardCases DEF Typed, Script, Step
<1>6. \/ got = << >> /\ inbox[seq] = heard \o unheard
      \/ Len(heard) = 2 /\ got = <<Ack>> /\ inbox[seq] = <<heard[2]>> \o unheard
  BY <1>3 DEF Replied
<1>7. CASE \E h : heard = <<h>> /\ unheard = << >>
  <2>1. PICK h : heard = <<h>> /\ unheard = << >>
    BY <1>7
  <2>2. Len(heard) = 1
    BY <2>1
  <2>3. got = << >> /\ inbox[seq] = <<h>> \o << >>
    BY <1>6, <2>1, <2>2
  <2>4. inbox[seq] = <<h>>
    BY <2>3, Tuples
  <2>5. Head(<<h>>) = h /\ Tail(<<h>>) = << >> /\ Append(<< >>, h) = <<h>>
    OBVIOUS
  <2>6. got' = heard /\ inbox'[seq] = unheard
    BY <1>1, <2>1, <2>3, <2>4, <2>5
  <2>. QED
    BY <1>3, <1>4, <2>6
<1>8. CASE \E h : heard = <<Ack, h>> /\ (unheard = << >> \/ \E u : unheard = <<u>>)
  <2>1. PICK h : heard = <<Ack, h>> /\ (unheard = << >> \/ \E u : unheard = <<u>>)
    BY <1>8
  <2>2. Len(heard) = 2 /\ heard[2] = h
    BY <2>1
  <2>3. CASE got = << >> /\ inbox[seq] = heard \o unheard
    <3>1. got' = <<Ack>> /\ inbox'[seq] = <<h>> \o unheard
      <4>1. CASE unheard = << >>
        <5>1. inbox[seq] = <<Ack, h>> /\ <<h>> \o unheard = <<h>>
          BY <2>1, <2>3, <4>1, Tuples
        <5>2. \A x, y : Head(<<x, y>>) = x /\ Tail(<<x, y>>) = <<y>> /\ Append(<< >>, x) = <<x>>
          OBVIOUS
        <5>3. Head(inbox[seq]) = Ack /\ Tail(inbox[seq]) = <<h>> /\ Append(<< >>, Ack) = <<Ack>>
          BY <5>1, <5>2
        <5>. QED
          BY <1>1, <2>3, <5>1, <5>3
      <4>2. CASE \E u : unheard = <<u>>
        <5>1. PICK u : unheard = <<u>>
          BY <4>2
        <5>2. inbox[seq] = <<Ack, h, u>> /\ <<h>> \o unheard = <<h, u>>
          BY <2>1, <2>3, <5>1, Tuples, ZenonT(30)
        <5>3. \A x, y, z : Head(<<x, y, z>>) = x /\ Tail(<<x, y, z>>) = <<y, z>>
                             /\ Append(<< >>, x) = <<x>>
          OBVIOUS
        <5>4. Head(inbox[seq]) = Ack /\ Tail(inbox[seq]) = <<h, u>> /\ Append(<< >>, Ack) = <<Ack>>
          BY <5>2, <5>3
        <5>. QED
          BY <1>1, <2>3, <5>2, <5>4
      <4>. QED
        BY <2>1, <4>1, <4>2
    <3>2. ~Enough(got')
      BY <1>4, <2>2, <3>1
    <3>3. /\ wire'[seq] = << >> /\ mu' = NoSession /\ Shelf' = Shelves[seq][at + 1]
      BY <1>1, <1>2 DEF Replied
    <3>4. /\ Len(Heard(seq, at)) = 2 /\ got' = <<Ack>>
          /\ inbox'[seq] = <<Heard(seq, at)[2]>> \o Unheard(seq, at)
      BY <1>3, <2>2, <3>1
    <3>5. Replied'
      BY <1>1, <3>3, <3>4 DEF Replied
    <3>. QED
      BY <3>2, <3>5
  <2>4. CASE got = <<Ack>> /\ inbox[seq] = <<heard[2]>> \o unheard
    <3>1. got' = <<Ack, h>> /\ inbox'[seq] = unheard
      <4>1. CASE unheard = << >>
        <5>1. inbox[seq] = <<h>>
          BY <2>2, <2>4, <4>1, Tuples
        <5>2. Head(<<h>>) = h /\ Tail(<<h>>) = << >>
          OBVIOUS
        <5>. QED
          BY <1>1, <2>4, <4>1, <5>1, <5>2, SecondMore
      <4>2. CASE \E u : unheard = <<u>>
        <5>1. PICK u : unheard = <<u>>
          BY <4>2
        <5>2. inbox[seq] = <<h, u>>
          BY <2>2, <2>4, <5>1, Tuples
        <5>3. Head(<<h, u>>) = h /\ Tail(<<h, u>>) = <<u>>
          OBVIOUS
        <5>. QED
          BY <1>1, <2>4, <5>1, <5>2, <5>3, SecondMore
      <4>. QED
        BY <2>1, <4>1, <4>2
    <3>2. got' = heard
      BY <2>1, <3>1
    <3>. QED
      BY <1>3, <1>4, <3>1, <3>2
  <2>. QED
    BY <1>6, <2>3, <2>4
<1>. QED
  BY <1>5, <1>7, <1>8, HeardShape

\* The bot reads on until it has heard enough.
LEMMA ReadKeepsTracks ==
  ASSUME Basics, Tracks, Read
  PROVE  Tracks'
<1>. USE DEF Basics
<1>1. /\ Basics' /\ UNCHANGED engine
      /\ UNCHANGED <<wire, open, seq, at, passed, failed, hit, overlap>>
      /\ pc = "read" /\ seq \in open /\ inbox[seq] # << >>
      /\ pc' = IF Enough(got') THEN "check" ELSE "read"
  BY ReadKeepsBasics
<1>2. Shelf' = Shelf /\ mu' = mu
  BY <1>1, EngineIdle
<1>3. ASSUME Clean(seq)'
      PROVE  OnScript' /\ failed'[seq] = 0 /\ passed'[seq] = Worth[seq][at']
  <2>1. Clean(seq)
    BY <1>1, <1>3, CleanNow
  <2>2. OnScript /\ failed[seq] = 0 /\ passed[seq] = Worth[seq][at]
    BY <1>1, <2>1 DEF Tracks
  <2>3. Replied
    BY <1>1, <2>2 DEF OnScript, Awaited, OnTurn
  <2>4. CASE Replied' /\ ~Enough(got')
    BY <1>1, <2>2, <2>4 DEF OnScript
  <2>5. CASE got' = Heard(seq, at) /\ inbox'[seq] = Unheard(seq, at) /\ Enough(got')
    <3>1. mu = NoSession /\ Shelf = Shelves[seq][at + 1]
      BY <2>3 DEF Replied
    <3>2. pc' = "check" /\ mu' = NoSession /\ Shelf' = Shelves[seq][at' + 1]
      BY <1>1, <1>2, <2>5, <3>1
    <3>. QED
      BY <1>1, <2>2, <2>5, <3>2 DEF OnScript
  <2>. QED
    BY <2>3, <2>4, <2>5, ReadOnScript
<1>. QED
  BY <1>1, <1>3, WithinKeepsTracks

\* On its script the bot waits for what comes: a read or a write that fails is a hiccup.
LEMMA FailsKeepTracks ==
  ASSUME Basics, Tracks, ReadFails \/ WriteFails
  PROVE  Tracks'
<1>. USE DEF Basics
<1>1. /\ Basics' /\ UNCHANGED <<seq, passed, overlap>>
      /\ hit \subseteq hit' /\ pc' \in {"send", "read", "check", "close"} /\ seq \in Sessions
  <2>1. CASE ReadFails
    BY <2>1, ReadFailsKeepsBasics DEF Typed
  <2>2. CASE WriteFails
    BY <2>2, WriteFailsKeepsBasics DEF Typed
  <2>. QED
    BY <2>1, <2>2
<1>2. \A n \in Sessions : n # seq => failed'[n] = failed[n]
  <2>1. failed' = failed \/ Fail(seq)
    BY ReadFailsKeepsBasics, WriteFailsKeepsBasics
  <2>2. CASE failed' = failed
    BY <2>2
  <2>3. CASE Fail(seq)
    BY <2>3, FailEffect
  <2>. QED
    BY <2>1, <2>2, <2>3
<1>3. ASSUME Clean(seq)' PROVE FALSE
  <2>1. Clean(seq) /\ seq \notin hit'
    BY <1>1, <1>2, <1>3, CleanNow
  <2>2. CASE ReadFails
    <3>1. pc = "read" /\ Silent
      BY <2>1, <2>2, ReadFailsKeepsBasics
    <3>2. OnScript
      BY <2>1, <3>1 DEF Tracks
    <3>3. Replied /\ inbox[seq] = << >>
      BY <3>1, <3>2 DEF Silent, OnScript, Awaited, OnTurn
    <3>4. HeardAs(seq, at, Step, Heard(seq, at), Unheard(seq, at))
      BY HeardCases DEF Typed, Script, Step
    <3>5. PICK heard, unheard : heard = Heard(seq, at) /\ unheard = Unheard(seq, at)
      OBVIOUS
    <3>6. heard \o unheard = << >> \/ (Len(heard) = 2 /\ <<heard[2]>> \o unheard = << >>)
      BY <3>3, <3>5 DEF Replied
    <3>6a. PICK all, rest : all = heard \o unheard /\ rest = <<heard[2]>> \o unheard
      OBVIOUS
    <3>6b. all = << >> \/ (Len(heard) = 2 /\ rest = << >>)
      BY <3>6, <3>6a
    <3>7. HeardAs(seq, at, Step, heard, unheard)
      BY <3>4, <3>5
    <3>8. \A h, u, x : << >> # <<h>> /\ << >> # <<h, u>> /\ << >> # <<h, u, x>>
      OBVIOUS
    <3>9. \/ \E h : heard = <<h>> /\ unheard = << >>
          \/ \E h : heard = <<Ack, h>> /\ (unheard = << >> \/ \E u : unheard = <<u>>)
      BY <3>7, HeardShape
    <3>10. CASE \E h : heard = <<h>> /\ unheard = << >>
      <4>1. PICK h : heard = <<h>> /\ unheard = << >>
        BY <3>10
      <4>2. Len(heard) # 2 /\ all = <<h>>
        BY <3>6a, <4>1, Tuples
      <4>. QED
        BY <3>6b, <3>8, <4>2
    <3>11. CASE \E h : heard = <<Ack, h>> /\ (unheard = << >> \/ \E u : unheard = <<u>>)
      <4>1. PICK h : heard = <<Ack, h>> /\ (unheard = << >> \/ \E u : unheard = <<u>>)
        BY <3>11
      <4>2. heard[2] = h
        BY <4>1
      <4>3. CASE unheard = << >>
        <5>1. all = <<Ack, h>> /\ rest = <<h>>
          BY <3>6a, <4>1, <4>2, <4>3, Tuples
        <5>. QED
          BY <3>6b, <3>8, <5>1
      <4>4. CASE \E u : unheard = <<u>>
        <5>1. PICK u : unheard = <<u>>
          BY <4>4
        <5>2. all = <<Ack, h, u>> /\ rest = <<h, u>>
          BY <3>6a, <4>1, <4>2, <5>1, Tuples, ZenonT(30)
        <5>. QED
          BY <3>6b, <3>8, <5>2
      <4>. QED
        BY <4>1, <4>3, <4>4
    <3>. QED
      BY <3>9, <3>10, <3>11
  <2>3. CASE WriteFails
    <3>1. pc = "send" /\ seq \notin open
      BY <2>1, <2>3, WriteFailsKeepsBasics
    <3>. QED
      BY <2>1, <3>1 DEF Tracks, OnScript
  <2>. QED
    BY <2>2, <2>3
<1>. QED
  BY <1>1, <1>2, <1>3, WithinKeepsTracks

\* On the script every assertion of the step holds.
LEMMA AllHold ==
  ASSUME Basics, OnScript, pc = "check", Score(BookAssertions), seq \in Sessions
  PROVE  /\ failed'[seq] = failed[seq]
         /\ passed'[seq] = passed[seq] + Asked(Step) + Looked(Step)
         /\ ~Final => inbox[seq] = << >>
<1>. USE DEF Basics
<1>1. /\ got = Heard(seq, at) /\ Shelf = Shelves[seq][at + 1] /\ inbox[seq] = Unheard(seq, at)
      /\ at \in DOMAIN CorrectnessSequences[seq] /\ Step = CorrectnessSequences[seq][at]
  BY DEF OnScript, Typed, Script, Step
<1>2. Count(AnswerAssertions, TRUE) = Asked(Step) /\ Count(AnswerAssertions, FALSE) = 0
  BY <1>1, HeardAnswers
<1>3. /\ LevelsOf(bids) = Step.levels[1]
      /\ Step.levels[2] # Unchecked => LevelsOf(asks) = Step.levels[2]
  BY <1>1, LevelsMet
<1>4. Count(BookAssertions, TRUE) = Looked(Step) /\ Count(BookAssertions, FALSE) = 0
  BY <1>3, BookCounted
<1>5. /\ passed'[seq] = passed[seq] + Count(AnswerAssertions, TRUE) + Count(BookAssertions, TRUE)
      /\ failed'[seq] = failed[seq] + Count(AnswerAssertions, FALSE) + Count(BookAssertions, FALSE)
  BY ScoreEffect
<1>6. failed[seq] \in Nat
  BY DEF Typed
<1>7. ~Final => inbox[seq] = << >>
  <2>1. HeardAs(seq, at, Step, Heard(seq, at), Unheard(seq, at))
    BY <1>1, HeardCases
  <2>2. Unheard(seq, at) = << >> \/ (seq = 2 /\ at = 3)
    BY <2>1 DEF HeardAs
  <2>3. seq = 2 /\ at = 3 => Final
    BY Lengths DEF Final, Script
  <2>. QED
    BY <1>1, <2>2, <2>3
<1>8. failed'[seq] = failed[seq]
  <2>1. failed'[seq] = failed[seq] + 0 + 0
    BY <1>2, <1>4, <1>5
  <2>. QED
    BY <1>6, <2>1
<1>9. passed'[seq] = passed[seq] + Asked(Step) + Looked(Step)
  BY <1>2, <1>4, <1>5
<1>. QED
  BY <1>7, <1>8, <1>9

\* The assertions of a step are added to the score.
LEMMA CheckKeepsTracks ==
  ASSUME Basics, Tracks, Check \/ QueryFails
  PROVE  Tracks'
<1>. USE DEF Basics
<1>1. /\ Basics' /\ UNCHANGED engine /\ UNCHANGED <<wire, inbox, open, seq, got, overlap>>
      /\ pc = "check" /\ NextStep /\ hit \subseteq hit' /\ seq \in Sessions
      /\ at \in DOMAIN CorrectnessSequences[seq] /\ Step = CorrectnessSequences[seq][at]
      /\ \/ mu = NoSession /\ hit' = hit /\ Score(BookAssertions)
         \/ hit' = hit \cup {seq} /\ Score(<<FALSE>>)
  BY CheckKeepsBasics DEF Typed, Script, Step
<1>2. Shelf' = Shelf /\ mu' = mu
  BY <1>1, EngineIdle
<1>3. \A n \in Sessions : n # seq =>
        overlap'[n] = overlap[n] /\ failed'[n] = failed[n] /\ passed'[n] = passed[n]
  BY <1>1, ScoreEffect
<1>4. /\ Final => pc' = "close"
      /\ ~Final => pc' = "send" /\ at' = at + 1
  BY <1>1, NextStepEffect
<1>5. ASSUME Clean(seq)'
      PROVE  /\ pc' # "close" => OnScript' /\ passed'[seq] = Worth[seq][at']
             /\ pc' = "close" => passed'[seq] = Full(seq)
             /\ failed'[seq] = 0
  <2>1. Clean(seq) /\ seq \notin hit'
    BY <1>1, <1>3, <1>5, CleanNow
  <2>2. OnScript /\ failed[seq] = 0 /\ passed[seq] = Worth[seq][at]
    BY <1>1, <2>1 DEF Tracks
  <2>3. mu = NoSession /\ Score(BookAssertions)
    BY <1>1, <2>1
  <2>4. /\ failed'[seq] = 0 /\ passed'[seq] = Worth[seq][at] + Asked(Step) + Looked(Step)
        /\ ~Final => inbox[seq] = << >>
    BY <1>1, <2>2, <2>3, AllHold
  <2>5. /\ Worth[seq][at + 1] = Worth[seq][at] + Asked(Step) + Looked(Step)
        /\ at = Len(CorrectnessSequences[seq]) => Worth[seq][at + 1] = Full(seq)
    BY <1>1, StepWorth
  <2>6. passed'[seq] = Worth[seq][at + 1] /\ (Final => passed'[seq] = Full(seq))
    BY <2>4, <2>5 DEF Final, Script
  <2>7. ASSUME ~Final PROVE OnScript' /\ passed'[seq] = Worth[seq][at']
    <3>1. at' = at + 1 /\ pc' = "send"
      BY <1>4, <2>7
    <3>2. Shelf = Shelves[seq][at + 1]
      BY <1>1, <2>2 DEF OnScript
    <3>3. Shelf' = Shelves[seq][at'] /\ mu' = NoSession /\ inbox'[seq] = << >>
      BY <1>1, <1>2, <2>3, <2>4, <2>7, <3>1, <3>2
    <3>4. passed'[seq] = Worth[seq][at']
      BY <2>6, <3>1
    <3>. QED
      BY <1>1, <2>2, <3>1, <3>3, <3>4 DEF OnScript
  <2>. QED
    BY <1>4, <2>4, <2>6, <2>7
<1>6. pc' \in {"send", "read", "check", "close"}
  BY <1>4
<1>. QED
  BY <1>1, <1>3, <1>5, <1>6, WithinKeepsTracks

\* The next sequence begins with what the last one left behind it.
LEMMA NextSequenceKeepsTracks ==
  ASSUME Basics, Tracks, DialFails \/ CloseConn
  PROVE  Tracks'
<1>. USE DEF Basics
<1>1. /\ Basics' /\ UNCHANGED <<overlap, passed>> /\ NextSequence /\ hit \subseteq hit'
      /\ \/ failed' = failed /\ hit' = hit /\ pc = "close"
         \/ Fail(seq) /\ hit' = hit \cup {seq}
  BY DialFailsKeepsBasics, CloseConnKeepsBasics
<1>2. \A n \in Sessions : n # seq => failed'[n] = failed[n]
  BY <1>1, FailEffect
<1>3. \A n \in Sessions : n < seq /\ Clean(n)' => failed'[n] = 0 /\ passed'[n] = Full(n)
  BY <1>1, <1>2, EarlierTracks
<1>4. seq \in 1..5 /\ Sessions = 1..5 /\ pc' \in {"dial", "done"}
      /\ \A n \in Sessions : Ended(n)' <=> n <= seq
  BY <1>1, NextSequenceEffect
<1>5. ASSUME NEW n \in Sessions, n = seq, Clean(n)' PROVE failed'[n] = 0 /\ passed'[n] = Full(n)
  <2>1. n \notin hit'
    BY <1>5 DEF Clean
  <2>2. failed' = failed /\ hit' = hit /\ pc = "close"
    BY <1>1, <1>5, <2>1
  <2>3. Ended(n) /\ Clean(n)
    BY <1>1, <1>5, <2>2 DEF Ended, Clean
  <2>. QED
    BY <1>1, <2>2, <2>3 DEF Tracks
<1>6. ASSUME NEW n \in Sessions, Ended(n)', Clean(n)' PROVE failed'[n] = 0 /\ passed'[n] = Full(n)
  <2>1. n < seq \/ n = seq
    BY <1>4, <1>6
  <2>. QED
    BY <1>3, <1>5, <1>6, <2>1
<1>7. ~(pc' \in {"send", "read", "check"})
  BY <1>4
<1>. QED
  BY <1>6, <1>7 DEF Tracks

\* The context ends between two steps.
LEMMA ContextEndsKeepsTracks ==
  ASSUME Basics, Tracks, ContextEnds
  PROVE  Tracks'
<1>1. /\ UNCHANGED engine
      /\ UNCHANGED <<wire, inbox, open, pc, seq, at, got, passed, failed, hit, overlap>>
  BY ContextEndsKeepsBasics
<1>2. UNCHANGED <<made, bids, asks, mu, session, says>> /\ Shelf' = Shelf
  BY <1>1, EngineIdle DEF Basics
<1>3. Step' = Step /\ (OnTurn => OnTurn') /\ (Awaited => Awaited') /\ (Replied => Replied')
  BY <1>1, <1>2 DEF Step, OnTurn, Awaited, Replied
<1>4. OnScript => OnScript'
  BY <1>1, <1>2, <1>3 DEF OnScript
<1>5. \A n : (Ended(n)' <=> Ended(n)) /\ (Clean(n)' <=> Clean(n))
  BY <1>1 DEF Ended, Clean
<1>6. Clean(seq)' <=> Clean(seq)
  BY <1>1, <1>5
<1>. QED
  BY <1>1, <1>4, <1>5, <1>6 DEF Tracks

\* So the bot keeps to its scripts.
LEMMA BotKeepsTracks ==
  ASSUME Basics, InStep, LeavesNothing, Tracks, BotStep \/ ContextEnds
  PROVE  Tracks'
  BY DialKeepsTracks, SendKeepsTracks, ReadKeepsTracks, FailsKeepTracks, CheckKeepsTracks,
     NextSequenceKeepsTracks, ContextEndsKeepsTracks DEF BotStep

-----------------------------------------------------------------------------
(* The invariant holds.                                                     *)

\* It holds at the start.
LEMMA InitCInv ==
  ASSUME Init
  PROVE  CInv
<1>1. /\ Book!Init /\ says = << >>
      /\ wire = [s \in Sessions |-> << >>] /\ inbox = [s \in Sessions |-> << >>] /\ open = {}
      /\ pc = "dial" /\ seq = 1 /\ at = 1 /\ got = << >> /\ ctxDone = FALSE
      /\ passed = [s \in Sessions |-> 0] /\ failed = [s \in Sessions |-> 0]
      /\ hiccups = 0 /\ hit = {} /\ overlap = [s \in Sessions |-> {}]
  BY EngineStateIsBooks DEF Init
<1>2. Book!IInv
  BY <1>1, Book!InitIInv, EngineConstants
<1>3. made = << >> /\ mu = NoSession /\ bids = {} /\ asks = {} /\ session = [s \in Sessions |-> "closed"]
  BY <1>1 DEF Book!Init
<1>4. Sessions = 1..5 /\ 1 \in DOMAIN Script /\ \A s \in Sessions : s # NoSession
  BY <1>1, Lengths, EngineConstants DEF Script
<1>5. << >> \in Seq(Steps) /\ << >> \in Seq(Message)
  OBVIOUS
<1>6. Typed
  <2>1. hiccups \in 0..MaxHiccups
    BY <1>1, BoundsAssumption
  <2>2. wire \in [Sessions -> Seq(Steps)] /\ inbox \in [Sessions -> Seq(Message)]
    BY <1>1, <1>5
  <2>3. passed \in [Sessions -> Nat] /\ failed \in [Sessions -> Nat]
          /\ overlap \in [Sessions -> SUBSET Sessions]
    BY <1>1
  <2>4. seq \in Sessions /\ at \in DOMAIN Script /\ open \subseteq {seq} /\ hit \subseteq Sessions
    BY <1>1, <1>4
  <2>5. pc \in {"dial", "send", "read", "check", "close", "done"} /\ ctxDone \in BOOLEAN
    BY <1>1
  <2>6. got \in Seq(Message) /\ says \in Seq(Message)
    BY <1>1, <1>5
  <2>. QED
    BY <2>1, <2>2, <2>3, <2>4, <2>5, <2>6 DEF Typed
<1>7. OpenReads /\ Beside /\ NoHiccup /\ FromScript
  BY <1>1, <1>3 DEF OpenReads, Beside, NoHiccup, FromScript
<1>8. NotBegun
  BY <1>1, <1>3 DEF NotBegun
<1>9. InStep /\ Sells
  BY <1>1, <1>3 DEF InStep, Sells
<1>10. NoEarlyFill
  BY <1>1, <1>3, <1>4 DEF NoEarlyFill, StaleFills
<1>11. \A n \in Sessions : ~Begun(n) /\ ~Ended(n)
  BY <1>1, <1>4 DEF Begun, Ended
<1>12. Scored
  BY <1>1, <1>11 DEF Scored, Budget
<1>13. LeavesNothing /\ Tracks
  BY <1>1, <1>11 DEF LeavesNothing, Tracks
<1>14. LastDone
  BY <1>1 DEF LastDone
<1>. QED
  BY <1>2, <1>6, <1>7, <1>8, <1>9, <1>10, <1>12, <1>13, <1>14 DEF CInv, Basics

\* The bot's steps, one by one, keep the bookkeeping.
LEMMA BotKeepsBasics ==
  ASSUME Basics, BotStep \/ ContextEnds
  PROVE  Basics' /\ [Engine!Next]_(Engine!vars)
<1>1. CASE Dial
  BY <1>1, DialKeepsBasics
<1>2. CASE ~Dial
  <2>1. Basics' /\ UNCHANGED engine
    BY <1>2, DialFailsKeepsBasics, SendKeepsBasics, WriteFailsKeepsBasics, ReadKeepsBasics,
       ReadFailsKeepsBasics, CheckKeepsBasics, CloseConnKeepsBasics, ContextEndsKeepsBasics
       DEF BotStep
  <2>. QED
    BY <2>1, EngineIdle DEF Basics
<1>. QED
  BY <1>1, <1>2

\* They keep that the last steps sell.
LEMMA BotStepKeepsSells ==
  ASSUME Basics, Sells, BotStep \/ ContextEnds
  PROVE  Sells'
<1>1. Basics'
  BY BotKeepsBasics
<1>2. made' = made
  <2>1. CASE Dial
    BY <2>1, DialKeepsBasics
  <2>2. CASE ~Dial
    <3>1. UNCHANGED engine
      BY <2>2, DialFailsKeepsBasics, SendKeepsBasics, WriteFailsKeepsBasics, ReadKeepsBasics,
         ReadFailsKeepsBasics, CheckKeepsBasics, CloseConnKeepsBasics, ContextEndsKeepsBasics
         DEF BotStep
    <3>. QED
      BY <3>1, EngineIdle DEF Basics
  <2>. QED
    BY <2>1, <2>2
<1>3. CASE Dial
  BY <1>1, <1>2, <1>3, DialKeepsBasics, BotKeepsSells
<1>4. CASE DialFails \/ CloseConn
  BY <1>1, <1>2, <1>4, DialFailsKeepsBasics, CloseConnKeepsBasics, BotKeepsSells
<1>5. CASE Check \/ QueryFails
  <2>1. seq' = seq /\ NextStep
    BY <1>5, CheckKeepsBasics
  <2>2. at' = at \/ ~Final
    BY <2>1, NextStepEffect DEF Basics
  <2>. QED
    BY <1>1, <1>2, <2>1, <2>2, BotKeepsSells
<1>6. CASE Send \/ WriteFails \/ Read \/ ReadFails \/ ContextEnds
  <2>1. seq' = seq /\ at' = at
    BY <1>6, SendKeepsBasics, WriteFailsKeepsBasics, ReadKeepsBasics, ReadFailsKeepsBasics,
       ContextEndsKeepsBasics
  <2>. QED
    BY <1>1, <1>2, <2>1, BotKeepsSells
<1>. QED
  BY <1>3, <1>4, <1>5, <1>6 DEF BotStep

\* They end with the last sequence.
LEMMA BotKeepsLastDone ==
  ASSUME Basics, LastDone, BotStep \/ ContextEnds
  PROVE  LastDone'
<1>1. CASE DialFails \/ CloseConn
  <2>1. NextSequence
    BY <1>1, DialFailsKeepsBasics, CloseConnKeepsBasics
  <2>2. pc' = "done" => seq = 5 /\ seq' = seq
    BY <2>1, NextSequenceEffect DEF Basics
  <2>. QED
    BY <2>2, Lengths DEF LastDone
<1>2. CASE Check \/ QueryFails
  <2>1. pc' # "done"
    BY <1>2, CheckKeepsBasics, NextStepEffect DEF Basics, Running
  <2>. QED
    BY <2>1 DEF LastDone
<1>3. CASE Dial \/ Send \/ WriteFails \/ Read \/ ReadFails
  <2>1. pc' # "done"
    BY <1>3, DialKeepsBasics, SendKeepsBasics, WriteFailsKeepsBasics, ReadKeepsBasics,
       ReadFailsKeepsBasics
  <2>. QED
    BY <2>1 DEF LastDone
<1>4. CASE ContextEnds
  BY <1>4, ContextEndsKeepsBasics DEF LastDone
<1>. QED
  BY <1>1, <1>2, <1>3, <1>4 DEF BotStep

\* Every step keeps the invariant, and is a step of the engine or none.
LEMMA NextCInv ==
  ASSUME CInv, Next
  PROVE  CInv' /\ [Engine!Next]_(Engine!vars)
<1>. USE DEF CInv
<1>1. CASE BotStep \/ ContextEnds
  <2>1. Basics' /\ [Engine!Next]_(Engine!vars)
    BY <1>1, BotKeepsBasics
  <2>2. InStep'
    BY <1>1, DialKeepsInStep, SendKeepsInStep, ReadKeepsInStep, ReadFailsKeepsInStep,
       CheckKeepsInStep, OthersKeepInStep DEF BotStep
  <2>3. Sells'
    BY <1>1, BotStepKeepsSells
  <2>4. NoEarlyFill'
    BY <1>1, BeginningsKeepNoEarlyFill, SendKeepsNoEarlyFill, ReadKeepsNoEarlyFill,
       OthersKeepNoEarlyFill DEF BotStep
  <2>5. Scored' /\ LeavesNothing' /\ Tracks'
    BY <1>1, BotKeepsScored, BotKeepsLeavesNothing, BotKeepsTracks
  <2>6. LastDone'
    BY <1>1, BotKeepsLastDone
  <2>. QED
    BY <2>1, <2>2, <2>3, <2>4, <2>5, <2>6
<1>2. ASSUME NEW s \in Sessions, EngineStep(s)
      PROVE  CInv' /\ [Engine!Next]_(Engine!vars)
  <2>1. Disturbs(s) /\ [Engine!Next]_(Engine!vars)
    BY <1>2, EngineDisturbs DEF Disturbs, Basics
  <2>2. Basics' /\ Sells' /\ Scored' /\ LeavesNothing'
    BY <2>1, EngineKeepsBasics, EngineKeepsSells, EngineKeepsScored, EngineKeepsLeavesNothing
  <2>3. InStep' /\ NoEarlyFill' /\ Tracks'
    BY <1>2, EngineKeepsInStep, EngineKeepsNoEarlyFill, EngineKeepsTracks
  <2>4. LastDone'
    BY <2>1, BotFixed DEF Disturbs, LastDone
  <2>. QED
    BY <2>1, <2>2, <2>3, <2>4
<1>. QED
  BY <1>1, <1>2 DEF Next

\* Nothing changes, nothing is lost.
LEMMA StutterCInv ==
  ASSUME CInv, UNCHANGED vars
  PROVE  CInv' /\ [Engine!Next]_(Engine!vars)
<1>1. UNCHANGED engine /\ UNCHANGED <<wire, inbox, open, bot>>
  BY DEF vars
<1>2. /\ UNCHANGED <<open, pc, seq, at, got, ctxDone, passed, failed, hiccups, hit, overlap>>
      /\ Script' = Script /\ Step' = Step /\ (Final' <=> Final)
      /\ \A msgs : Enough(msgs)' <=> Enough(msgs)
      /\ \A n : (Begun(n)' <=> Begun(n)) /\ (Ended(n)' <=> Ended(n))
      /\ \A n : (Clean(n)' <=> Clean(n)) /\ Budget(n)' = Budget(n)
  BY <1>1, BotFixed
<1>3. Book!IInv' /\ [Engine!Next]_(Engine!vars)
      /\ UNCHANGED <<made, bids, asks, mu, session, says>> /\ Shelf' = Shelf
  BY <1>1, EngineIdle DEF CInv, Basics
<1>4. Typed' /\ OpenReads' /\ NotBegun'
  BY <1>1, <1>2, <1>3 DEF CInv, Basics, Typed, OpenReads, NotBegun
<1>5. Beside' /\ FromScript' /\ NoHiccup'
  BY <1>1, <1>2, <1>3 DEF CInv, Basics, Beside, FromScript, NoHiccup
<1>6. InStep'
  BY <1>1, <1>2, <1>3 DEF CInv, InStep, Quiet, OnlyFills, Sent, AtIt, Answered, Unread, Got, Key
<1>7. Sells' /\ NoEarlyFill'
  BY <1>1, <1>2, <1>3 DEF CInv, Sells, NoEarlyFill, StaleFills, Stale, Got
<1>8. Scored' /\ LeavesNothing'
  BY <1>1, <1>2, <1>3 DEF CInv, Scored, LeavesNothing, Spent
<1>9. Tracks'
  <2>1. (OnTurn => OnTurn') /\ (Awaited => Awaited') /\ (Replied => Replied')
    BY <1>1, <1>2, <1>3 DEF OnTurn, Awaited, Replied
  <2>2. OnScript => OnScript'
    BY <1>1, <1>2, <1>3, <2>1 DEF OnScript
  <2>3. Clean(seq)' <=> Clean(seq)
    BY <1>2
  <2>. QED
    BY <1>2, <2>2, <2>3 DEF CInv, Tracks
<1>10. LastDone'
  BY <1>2 DEF CInv, LastDone
<1>. QED
  BY <1>3, <1>4, <1>5, <1>6, <1>7, <1>8, <1>9, <1>10 DEF CInv, Basics

-----------------------------------------------------------------------------
(* The assertions, summed over the sequences.                               *)

\* One unit for each assertion of each sequence.
Units(f) == UNION {{x} \X (1..f[x]) : x \in DOMAIN f}

\* A total is the number of its units.
LEMMA TotalIs ==
  ASSUME NEW f
  PROVE  Total(f) = Cardinality(Units(f))
  BY DEF Total, Engine!Promise!Total, Units, Cardinality, Engine!Promise!Cardinality

\* The units of a sequence.
Column(f, x) == {x} \X (1..f[x])

\* One sequence more has as many units more as its value.
LEMMA OneMore ==
  ASSUME NEW f, NEW x, f[x] \in Nat, NEW S, IsFiniteSet(S), S \cap Column(f, x) = {},
         NEW T, T = S \cup Column(f, x)
  PROVE  IsFiniteSet(T) /\ Cardinality(T) = Cardinality(S) + f[x]
<1>1. IsFiniteSet({x}) /\ Cardinality({x}) = 1
  BY FS_Singleton, Zenon
<1>2. IsFiniteSet(1..f[x]) /\ Cardinality(1..f[x]) = f[x]
  BY PlacesOf
<1>3. /\ IsFiniteSet({x} \X (1..f[x]))
      /\ Cardinality({x} \X (1..f[x])) = Cardinality({x}) * Cardinality(1..f[x])
  BY <1>1, <1>2, FS_Product, Zenon
<1>4. IsFiniteSet(Column(f, x)) /\ Cardinality(Column(f, x)) = f[x]
  BY <1>1, <1>2, <1>3 DEF Column
<1>5. Cardinality(S) \in Nat
  BY FS_CardinalityType
<1>6. Cardinality(S \cap Column(f, x)) = 0
  BY FS_EmptySet
<1>7. /\ IsFiniteSet(T)
      /\ Cardinality(T) = Cardinality(S) + Cardinality(Column(f, x)) - Cardinality(S \cap Column(f, x))
  BY <1>4, FS_Union, Zenon
<1>. QED
  BY <1>4, <1>5, <1>6, <1>7

\* The total of the five sequences is their sum.
LEMMA TotalOfFive ==
  ASSUME NEW f \in [Sessions -> Nat]
  PROVE  Total(f) = f[1] + f[2] + f[3] + f[4] + f[5]
<1>1. /\ f[1] \in Nat /\ f[2] \in Nat /\ f[3] \in Nat /\ f[4] \in Nat /\ f[5] \in Nat
      /\ DOMAIN f = 1..5
  BY Lengths
<1>2. Units(f) = (((({} \cup Column(f, 1)) \cup Column(f, 2)) \cup Column(f, 3))
                     \cup Column(f, 4)) \cup Column(f, 5)
  <2>1. Units(f) = UNION {Column(f, x) : x \in 1..5}
    BY <1>1 DEF Units, Column
  <2>2. 1..5 = {1, 2, 3, 4, 5}
    OBVIOUS
  <2>. QED
    BY <2>1, <2>2
<1>3. \A x, y : x # y => Column(f, x) \cap Column(f, y) = {}
  BY DEF Column
<1>4. PICK A, B, C, D, E : /\ A = {} \cup Column(f, 1) /\ B = A \cup Column(f, 2) /\ C = B \cup Column(f, 3)
                           /\ D = C \cup Column(f, 4) /\ E = D \cup Column(f, 5)
  OBVIOUS
<1>5. /\ A \cap Column(f, 2) = {} /\ B \cap Column(f, 3) = {} /\ C \cap Column(f, 4) = {} /\ D \cap Column(f, 5) = {}
  BY <1>3, <1>4
<1>6. IsFiniteSet(A) /\ Cardinality(A) = f[1]
  <2>1. IsFiniteSet({}) /\ Cardinality({}) = 0
    BY FS_EmptySet
  <2>2. IsFiniteSet(A) /\ Cardinality(A) = Cardinality({}) + f[1]
    <3>1. {} \cap Column(f, 1) = {}
      OBVIOUS
    <3>. QED
      BY <1>1, <1>4, <2>1, <3>1, OneMore
  <2>. QED
    BY <1>1, <2>1, <2>2
<1>7. IsFiniteSet(B) /\ Cardinality(B) = f[1] + f[2]
  BY <1>1, <1>4, <1>5, <1>6, OneMore
<1>8. IsFiniteSet(C) /\ Cardinality(C) = f[1] + f[2] + f[3]
  BY <1>1, <1>4, <1>5, <1>7, OneMore
<1>9. IsFiniteSet(D) /\ Cardinality(D) = f[1] + f[2] + f[3] + f[4]
  BY <1>1, <1>4, <1>5, <1>8, OneMore
<1>10. IsFiniteSet(E) /\ Cardinality(E) = f[1] + f[2] + f[3] + f[4] + f[5]
  BY <1>1, <1>4, <1>5, <1>9, OneMore
<1>11. Units(f) = E
  BY <1>2, <1>4
<1>. QED
  BY <1>10, <1>11, TotalIs

\* What each sequence has.
LEMMA FullTable ==
  Full(1) = 6 /\ Full(2) = 6 /\ Full(3) = 9 /\ Full(4) = 9 /\ Full(5) = 3
  BY Lengths DEF Full, Worth

\* What the invariant says of the assertions counted: no more than there are.
LEMMA NoneTooMany ==
  ASSUME CInv
  PROVE  Total(passed) + Total(failed) <= Assertions
<1>1. /\ passed \in [Sessions -> Nat] /\ failed \in [Sessions -> Nat] /\ seq \in 1..5
      /\ Sessions = 1..5 /\ pc \in {"dial", "send", "read", "check", "close", "done"}
  BY Lengths DEF CInv, Basics, Typed
<1>2. ASSUME NEW n \in Sessions PROVE passed[n] + failed[n] <= Full(n)
  <2>1. PICK p, q, b, w : p = passed[n] /\ q = failed[n] /\ b = Budget(n) /\ w = Full(n)
    OBVIOUS
  <2>2. p \in Nat /\ q \in Nat /\ w \in Nat /\ p + q <= b
    BY <2>1, Budgets DEF CInv, Basics, Scored
  <2>3. b = 0 \/ b = w \/ (b \in Nat /\ b <= w)
    <3>1. n < seq \/ n > seq \/ n = seq
      BY <1>1
    <3>2. n < seq => b = w
      BY <2>1, Budgets DEF CInv, Basics
    <3>3. n > seq => b = 0
      BY <2>1, Budgets DEF CInv, Basics
    <3>4. ASSUME n = seq PROVE b = 0 \/ b = w \/ (b \in Nat /\ b <= w)
      <4>1. pc = "dial" => b = 0
        BY <2>1, <3>4, Budgets DEF CInv, Basics
      <4>2. pc \in {"close", "done"} => b = w
        BY <2>1, <3>4, Budgets DEF CInv, Basics
      <4>3. ASSUME pc \in {"send", "read", "check"} PROVE b \in Nat /\ b <= w
        <5>1. PICK v : v = Worth[seq][at]
          OBVIOUS
        <5>2. b = v /\ v \in Nat /\ v + 1 <= w
          BY <2>1, <3>4, <4>3, <5>1, Budgets DEF CInv, Basics
        <5>. QED
          BY <2>2, <5>2
      <4>. QED
        BY <1>1, <4>1, <4>2, <4>3
    <3>. QED
      BY <3>1, <3>2, <3>3, <3>4
  <2>4. p + q <= w
    BY <2>2, <2>3
  <2>. QED
    BY <2>1, <2>4
<1>3. /\ passed[1] + failed[1] <= 6 /\ passed[2] + failed[2] <= 6 /\ passed[3] + failed[3] <= 9
      /\ passed[4] + failed[4] <= 9 /\ passed[5] + failed[5] <= 3
  BY <1>1, <1>2, FullTable
<1>4. \A n \in 1..5 : passed[n] \in Nat /\ failed[n] \in Nat
  BY <1>1
<1>5. /\ Total(passed) = passed[1] + passed[2] + passed[3] + passed[4] + passed[5]
      /\ Total(failed) = failed[1] + failed[2] + failed[3] + failed[4] + failed[5]
  BY <1>1, TotalOfFive
<1>. QED
  BY <1>3, <1>4, <1>5 DEF Assertions

\* A sequence that begins and is clean has failed nothing.
LEMMA CleanFailsNothing ==
  ASSUME CInv, NEW n \in Sessions, Clean(n)
  PROVE  failed[n] = 0
<1>. USE DEF CInv, Basics
<1>1. n \in 1..5 /\ seq \in 1..5 /\ pc \in {"dial", "send", "read", "check", "close", "done"}
  BY Lengths DEF Typed
<1>2. CASE ~Begun(n)
  BY <1>2 DEF NotBegun
<1>3. CASE Ended(n)
  BY <1>3 DEF Tracks
<1>4. CASE n = seq /\ pc \in {"send", "read", "check"}
  <2>1. Clean(seq)
    BY <1>4
  <2>. QED
    BY <1>4, <2>1 DEF Tracks
<1>5. ~Begun(n) \/ Ended(n) \/ (n = seq /\ pc \in {"send", "read", "check"})
  BY <1>1 DEF Begun, Ended
<1>. QED
  BY <1>2, <1>3, <1>4, <1>5

\* What failed has a cause of its own, or one that failed before it.
LEMMA Explained ==
  ASSUME CInv
  PROVE  FailuresExplained
<1> SUFFICES ASSUME NEW s \in Sessions, failed[s] > 0, s \notin hit,
                    \A earlier \in overlap[s] : ~(failed[earlier] > 0)
             PROVE  FALSE
  BY DEF FailuresExplained
<1>1. failed \in [Sessions -> Nat] /\ overlap[s] \subseteq Sessions
  BY DEF CInv, Basics, Typed
<1>2. \A e \in overlap[s] : failed[e] = 0
  <2> SUFFICES ASSUME NEW e \in overlap[s] PROVE failed[e] = 0
    OBVIOUS
  <2>1. failed[e] \in Nat /\ ~(failed[e] > 0)
    BY <1>1
  <2>. QED
    BY <2>1
<1>3. failed[s] = 0
  BY <1>2, CleanFailsNothing DEF Clean
<1>. QED
  BY <1>3

\* Without a hiccup every sequence is clean, one after the other, and has full marks.
LEMMA AllMarks ==
  ASSUME CInv
  PROVE  FullMarks
<1>. USE DEF CInv, Basics
<1> SUFFICES ASSUME pc = "done", hiccups = 0
             PROVE  Total(passed) = Assertions /\ Total(failed) = 0
  BY DEF FullMarks
<1>1. hit = {} /\ seq = 5 /\ Sessions = 1..5
  BY Lengths DEF NoHiccup, LastDone
<1>2. \A n \in 1..5 : Ended(n)
  BY <1>1 DEF Ended
<1>3. \A n \in 1..5 : overlap[n] \subseteq 1..(n - 1)
  BY <1>1 DEF Beside
<1>4. ASSUME NEW n \in 1..5, \A e \in 1..(n - 1) : failed[e] = 0
      PROVE  failed[n] = 0 /\ passed[n] = Full(n)
  <2>1. Clean(n)
    BY <1>1, <1>3, <1>4 DEF Clean
  <2>. QED
    BY <1>1, <1>2, <2>1 DEF Tracks
<1>5. failed[1] = 0 /\ passed[1] = Full(1)
  BY <1>4
<1>6. failed[2] = 0 /\ passed[2] = Full(2)
  <2>1. \A e \in 1..(2 - 1) : e = 1
    OBVIOUS
  <2>. QED
    BY <1>4, <1>5, <2>1
<1>7. failed[3] = 0 /\ passed[3] = Full(3)
  <2>1. \A e \in 1..(3 - 1) : e = 1 \/ e = 2
    OBVIOUS
  <2>. QED
    BY <1>4, <1>5, <1>6, <2>1
<1>8. failed[4] = 0 /\ passed[4] = Full(4)
  <2>1. \A e \in 1..(4 - 1) : e = 1 \/ e = 2 \/ e = 3
    OBVIOUS
  <2>. QED
    BY <1>4, <1>5, <1>6, <1>7, <2>1
<1>9. failed[5] = 0 /\ passed[5] = Full(5)
  <2>1. \A e \in 1..(5 - 1) : e = 1 \/ e = 2 \/ e = 3 \/ e = 4
    OBVIOUS
  <2>. QED
    BY <1>4, <1>5, <1>6, <1>7, <1>8, <2>1
<1>10. passed \in [Sessions -> Nat] /\ failed \in [Sessions -> Nat]
  BY DEF Typed
<1>11. /\ Total(passed) = passed[1] + passed[2] + passed[3] + passed[4] + passed[5]
       /\ Total(failed) = failed[1] + failed[2] + failed[3] + failed[4] + failed[5]
  BY <1>10, TotalOfFive
<1>12. passed[1] = 6 /\ passed[2] = 6 /\ passed[3] = 9 /\ passed[4] = 9 /\ passed[5] = 3
  BY <1>5, <1>6, <1>7, <1>8, <1>9, FullTable
<1>13. Total(passed) = 33
  BY <1>11, <1>12
<1>14. Total(failed) = 0
  BY <1>5, <1>6, <1>7, <1>8, <1>9, <1>11
<1>. QED
  BY <1>13, <1>14 DEF Assertions

-----------------------------------------------------------------------------
(* The theorems.                                                            *)

\* The inductive invariant holds of every reachable state, for every number of hiccups
\* and of sessions that end late.
THEOREM Invariance == Spec => []CInv
<1>1. Init => CInv
  BY InitCInv
<1>2. CInv /\ [Next]_vars => CInv'
  BY NextCInv, StutterCInv
<1>. QED
  BY <1>1, <1>2, PTL DEF Spec

\* Behind the bot's connections the engine does what OrderBook says and nothing else: all
\* that is proved of it, in particular its promise of price and time, holds here.
THEOREM EngineAsSpecified == Spec => Engine!Spec
<1>1. Init => Engine!Init
  BY DEF Init
<1>2. CInv /\ [Next]_vars => [Engine!Next]_(Engine!vars)
  BY NextCInv, StutterCInv
<1>. QED
  BY <1>1, <1>2, Invariance, PTL DEF Spec, Engine!Spec

\* Every variable keeps its type, and no sequence of failures adds assertions to the 33
\* the documents count (docs/scoring.md:19).
THEOREM TypeCorrect == Spec => []TypeOK
<1>1. CInv => TypeOK
  <2> SUFFICES ASSUME CInv PROVE TypeOK
    OBVIOUS
  <2>. USE DEF CInv, Basics
  <2>1. Engine!TypeOK
    BY EngineStateIsBooks DEF Book!IInv
  <2>2. Total(passed) + Total(failed) <= Assertions
    BY NoneTooMany
  <2>3. pc = "read" => ~Enough(got)
    BY DEF InStep
  <2>4. /\ pc \in {"dial", "send", "read", "check", "close", "done"}
        /\ seq \in Sessions /\ at \in DOMAIN CorrectnessSequences[seq]
        /\ open \subseteq {seq} /\ hit \subseteq Sessions /\ hiccups \in 0..MaxHiccups
    BY DEF Typed, Script
  <2>. QED
    BY <2>1, <2>2, <2>3, <2>4 DEF TypeOK
<1>. QED
  BY <1>1, Invariance, PTL

\* The reference engine has full marks if nothing fails on the way, however the end of a
\* session falls between the next sequences' steps (correctness_bot.go:48-57,
\* stub/main.go:276-290, 405-409).
THEOREM ReferenceHasFullMarks == Spec => []FullMarks
<1>1. CInv => FullMarks
  BY AllMarks
<1>. QED
  BY <1>1, Invariance, PTL

\* Assertions are lost only to a hiccup of the sequence's own, or to an earlier sequence
\* that lost some and had not ended when this one began (correctness_bot.go:70-82, 100, 222).
THEOREM LossesAreExplained == Spec => []FailuresExplained
<1>1. CInv => FailuresExplained
  BY Explained
<1>. QED
  BY <1>1, Invariance, PTL
=============================================================================
