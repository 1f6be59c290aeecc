----------------------------- MODULE CorrectnessBot -----------------------------
(***************************************************************************)
(* Phase 1 of a test run (services/bot-runner) against the reference        *)
(* engine: the correctness bot plays five sequences, each over a connection *)
(* of its own, one step at a time: it sends, reads until it knows enough,   *)
(* checks the answers and asks GET /orderbook for the number of price       *)
(* levels.  The engine is OrderBook; its session of a connection that the   *)
(* bot has closed ends in its own time, beside the next sequence.           *)
(*                                                                         *)
(* A hiccup is a dial, write, read or query that fails or takes more than   *)
(* five seconds; a read that times out takes the connection with it.        *)
(***************************************************************************)
EXTENDS Integers, Sequences, SequencesExt, FiniteSets

CONSTANTS
  NoSession,
  MaxHiccups,  \* bound
  MaxLate      \* bound: sessions of closed connections that have not ended at a dial

ASSUME BoundsAssumption == MaxHiccups \in Nat /\ MaxLate \in Nat

-----------------------------------------------------------------------------
(* CorrectnessSequences.  A step expects a fill <<price, quantity>>, where  *)
(* 0 is not checked, or none; a reject or none; and a number of bid and ask *)
(* levels, where Unchecked is not checked.  The id of an order is made of its     *)
(* position and its tag, so sequences use the same ids.                     *)
Unchecked == -1
NoFill == <<0, 0>>

Order(tag, side, kind, price, qty, fill, bids, asks) ==
  [act |-> "order", tag |-> tag, side |-> side, kind |-> kind, price |-> price, qty |-> qty,
   fill |-> fill, reject |-> FALSE, levels |-> <<bids, asks>>]
Cancel(tag, bids, asks) ==
  [Order(tag, "buy", "limit", 0, 0, NoFill, bids, asks) EXCEPT !.act = "cancel"]

P == 500

cxBasicMatch ==
  <<Order("s0-bid", "buy",  "limit", P, 10, NoFill, 1, Unchecked),
    Order("s1-ask", "sell", "limit", P, 10, <<P, 10>>, 0, 0)>>
cxPriorityFill ==
  <<Order("s0-bid-lo", "buy",  "limit", P,      5, NoFill, 1, Unchecked),
    Order("s1-bid-hi", "buy",  "limit", P + 1,  5, NoFill, 2, Unchecked),
    Order("s2-sell",   "sell", "limit", P,     10, <<P + 1, 0>>, 0, 0)>>
cxPartialFill ==
  <<Order("s0-bid", "buy",  "limit", P + 10, 10, NoFill, 1, Unchecked),
    Order("s1-ask", "sell", "limit", P + 10,  3, <<P + 10, 3>>, 1, 0),
    Cancel("s0-bid", 0, 0)>>
cxCancel ==
  <<Order("s0-bid", "buy",  "limit", P + 20, 10, NoFill, 1, Unchecked),
    Cancel("s0-bid", 0, 0),
    Order("s2-ask", "sell", "limit", P + 20, 10, NoFill, 0, 1),
    Cancel("s2-ask", 0, 0)>>
cxRejectMarketNoLiquidity ==
  <<[Order("s0-mkt", "sell", "market", 0, 10, NoFill, 0, 0) EXCEPT !.reject = TRUE]>>

CorrectnessSequences ==
  <<cxBasicMatch, cxPriorityFill, cxPartialFill, cxCancel, cxRejectMarketNoLiquidity>>

Assertions == 33   \* as docs/scoring.md:19 counts them

\* The n-th sequence has the n-th connection, and the engine a session for it.
Sessions == DOMAIN CorrectnessSequences
Steps == UNION {ToSet(CorrectnessSequences[n]) : n \in Sessions}
OrderIds == {step.tag : step \in Steps}
Prices == {step.price : step \in Steps} \ {0}
Quantities == {step.qty : step \in Steps} \ {0}
MaxOrders == Cardinality(Sessions) * 4

ASSUME SessionAssumption == NoSession \notin Sessions

-----------------------------------------------------------------------------
VARIABLES
  made, orders, bids, asks, mu, session, trades, shown,   \* as in OrderBook
  says,      \* toSend of the order being handled
  wire,      \* connection -> messages of the bot under way
  inbox,     \* connection -> answers under way
  pc,        \* "dial", "send", "read", "check", "close", "done"
  seq, at,   \* the sequence, and the position in it
  got,       \* answers read in this step
  open,      \* the connections that are open
  ctxDone,   \* the half minute of the phase has passed, or a signal has come
  passed, failed,   \* sequence -> assertions
  hiccups,
  hit,       \* history: sequences with a hiccup
  overlap    \* history: sequence -> earlier sessions not yet ended when it began

book   == <<made, orders, bids, asks, mu, session, trades, shown>>
engine == <<book, says>>
score  == <<passed, failed>>
bot    == <<pc, seq, at, got, ctxDone, score, hiccups, hit, overlap>>
vars   == <<engine, wire, inbox, open, bot>>

Engine == INSTANCE OrderBook

Init ==
  /\ Engine!Init /\ says = << >>
  /\ wire = [s \in Sessions |-> << >>] /\ inbox = [s \in Sessions |-> << >>] /\ open = {}
  /\ pc = "dial" /\ seq = 1 /\ at = 1 /\ got = << >> /\ ctxDone = FALSE
  /\ passed = [s \in Sessions |-> 0] /\ failed = [s \in Sessions |-> 0]
  /\ hiccups = 0 /\ hit = {} /\ overlap = [s \in Sessions |-> {}]

Step == CorrectnessSequences[seq][at]

-----------------------------------------------------------------------------
(* The engine's side of a connection.                                       *)
Msg(type, price, qty) == [type |-> type, price |-> price, qty |-> qty]
Reply(s, msgs) == inbox' = [inbox EXCEPT ![s] = @ \o msgs]
Rejected == <<Msg("reject", 0, 0)>>

EngineReads(s) ==
  /\ wire[s] # << >> /\ session[s] = "reading" /\ mu = NoSession
  /\ wire' = [wire EXCEPT ![s] = Tail(@)]
  /\ LET m == Head(wire[s])
     IN \/ /\ m.act = "order" /\ m.tag \notin DOMAIN orders
           /\ Engine!PlaceOrder(s, m.tag, m.side, m.kind, m.price, m.qty)
           /\ says' = <<Msg("ack", 0, 0)>>
           /\ UNCHANGED inbox
        \/ /\ m.act = "cancel" /\ Engine!HandleCancel(s, m.tag)
           /\ Reply(s, <<Msg("cancel_ack", 0, 0)>>)
           /\ UNCHANGED says
        \/ /\ IF m.act = "order" THEN m.tag \in DOMAIN orders
              ELSE m.tag \in DOMAIN orders => made[orders[m.tag]].owner # s
           /\ Reply(s, Rejected)
           /\ UNCHANGED engine
  /\ UNCHANGED <<open, bot>>

EngineMatches(s) ==
  /\ Engine!MatchOne(s)
  /\ says' = Append(says, Msg("fill", made[Engine!BestOpposite].price, Engine!MatchedQty))
  /\ UNCHANGED <<wire, inbox, open, bot>>

Unfilled == made[Len(made)].kind = "market" /\ made[Len(made)].rem > 0

EngineAnswers(s) ==
  /\ Engine!Finish(s)
  /\ Reply(s, says \o IF Unfilled THEN Rejected ELSE << >>) /\ says' = << >>
  /\ UNCHANGED <<wire, open, bot>>

(* What the bot wrote before it closed may still be read.                   *)
EngineEndsSession(s) ==
  /\ \/ s \notin open /\ Engine!ReadFails(s) /\ wire' = [wire EXCEPT ![s] = << >>]
     \/ Engine!CancelSession(s) /\ UNCHANGED wire
  /\ UNCHANGED <<says, inbox, open, bot>>

EngineStep(s) == EngineReads(s) \/ EngineMatches(s) \/ EngineAnswers(s) \/ EngineEndsSession(s)

-----------------------------------------------------------------------------
(* runSequence.                                                             *)
Hiccup == hiccups < MaxHiccups /\ hiccups' = hiccups + 1 /\ hit' = hit \cup {seq}

Late == {s \in Sessions : session[s] # "closed"}

Dial ==
  /\ pc = "dial" /\ ~ctxDone /\ Cardinality(Late) <= MaxLate
  /\ Engine!Connect(seq) /\ open' = open \cup {seq}
  /\ overlap' = [overlap EXCEPT ![seq] = Late]
  /\ pc' = "send" /\ at' = 1
  /\ UNCHANGED <<says, wire, inbox, seq, got, ctxDone, score, hiccups, hit>>

NextSequence ==
  /\ at' = 1 /\ got' = << >>
  /\ IF seq = Len(CorrectnessSequences) THEN pc' = "done" /\ UNCHANGED seq
     ELSE pc' = "dial" /\ seq' = seq + 1

Fail(s) == failed' = [failed EXCEPT ![s] = @ + 1]

\* A failure that is not an assertion's counts as one and ends the sequence.
Broken == (ctxDone /\ hit' = hit \cup {seq} /\ UNCHANGED hiccups) \/ Hiccup

DialFails ==
  /\ pc = "dial" /\ Broken
  /\ Fail(seq) /\ NextSequence
  /\ UNCHANGED <<engine, wire, inbox, open, ctxDone, passed, overlap>>

Send ==
  /\ pc = "send" /\ seq \in open /\ ~ctxDone
  /\ wire' = [wire EXCEPT ![seq] = Append(@, Step)]
  /\ pc' = "read" /\ got' = << >>
  /\ UNCHANGED <<engine, inbox, open, seq, at, ctxDone, score, hiccups, hit, overlap>>

WriteFails ==
  /\ pc = "send"
  /\ (seq \notin open /\ UNCHANGED <<hiccups, hit>>) \/ Broken
  /\ Fail(seq) /\ pc' = "close"
  /\ UNCHANGED <<engine, wire, inbox, open, seq, at, got, ctxDone, passed, overlap>>

Got(type, msgs) == \E n \in DOMAIN msgs : msgs[n].type = type

\* The answers that let the bot go on.
EnoughAtAck(msgs) ==
  IF Step.act = "cancel" THEN Got("cancel_ack", msgs)
  ELSE IF Step.reject THEN Got("reject", msgs) ELSE Got("ack", msgs)
Enough(msgs) ==
  IF Step.act = "cancel" THEN Got("cancel_ack", msgs)
  ELSE IF Step.reject THEN Got("reject", msgs)
  ELSE Got("ack", msgs) /\ (Step.fill # NoFill => Got("fill", msgs))

Read ==
  /\ pc = "read" /\ seq \in open /\ inbox[seq] # << >>
  /\ inbox' = [inbox EXCEPT ![seq] = Tail(@)]
  /\ got' = Append(got, Head(inbox[seq]))
  /\ pc' = IF Enough(got') THEN "check" ELSE "read"
  /\ UNCHANGED <<engine, wire, open, seq, at, ctxDone, score, hiccups, hit, overlap>>

(* The engine has said all it will: the five seconds pass.                  *)
Silent == wire[seq] = << >> /\ inbox[seq] = << >> /\ mu # seq

ReadFails ==
  /\ pc = "read" /\ seq \in open
  /\ IF ctxDone THEN Fail(seq) /\ pc' = "close" /\ hit' = hit \cup {seq} /\ UNCHANGED hiccups
     ELSE /\ (Silent /\ UNCHANGED <<hiccups, hit>>) \/ Hiccup
          /\ pc' = "check" /\ UNCHANGED failed
  /\ open' = open \ {seq}
  /\ UNCHANGED <<engine, wire, inbox, seq, at, got, ctxDone, passed, overlap>>

(* The assertions of a step, each TRUE or FALSE: about the answers, the     *)
(* last fill counting, and then about the book.                             *)
Fills == {n \in DOMAIN got : got[n].type = "fill"}
LastFill == got[CHOOSE n \in Fills : \A m \in Fills : m <= n]

FillAssertionsUnasked ==
  IF Step.fill = NoFill THEN << >>
  ELSE <<Got("fill", got)>>
         \o (IF Got("fill", got) THEN <<LastFill.price = Step.fill[1], LastFill.qty = Step.fill[2]>>
             ELSE << >>)
FillAssertions ==
  IF Step.fill = NoFill THEN << >>
  ELSE IF ~Got("fill", got) THEN <<FALSE>>
  ELSE <<TRUE, LastFill.price = Step.fill[1]>>
         \o (IF Step.fill[2] = 0 THEN << >> ELSE <<LastFill.qty = Step.fill[2]>>)

AnswerAssertions ==
  (IF Step.act = "cancel" THEN <<Got("cancel_ack", got)>> ELSE << >>)
    \o FillAssertions
    \o (IF Step.reject THEN <<Got("reject", got)>> ELSE << >>)

\* GET /orderbook sums the quantities of a price up to one level.
LevelsOf(heap) == Cardinality({made[n].price : n \in heap})

BookAssertions ==
  LET Levels == <<LevelsOf(bids), LevelsOf(asks)>>
  IN [n \in {m \in 1..2 : Step.levels[m] # Unchecked} |-> Levels[n] = Step.levels[n]]

Count(f, v) == Cardinality({n \in DOMAIN f : f[n] = v})

Score(more) ==
  /\ passed' = [passed EXCEPT ![seq] = @ + Count(AnswerAssertions, TRUE) + Count(more, TRUE)]
  /\ failed' = [failed EXCEPT ![seq] = @ + Count(AnswerAssertions, FALSE) + Count(more, FALSE)]

NextStep ==
  IF at = Len(CorrectnessSequences[seq]) THEN pc' = "close" /\ UNCHANGED at
  ELSE pc' = "send" /\ at' = at + 1

(* queryOrderbook, under the engine's mutex; it has a timeout of its own.   *)
Check ==
  /\ pc = "check" /\ mu = NoSession
  /\ Score(BookAssertions) /\ NextStep
  /\ UNCHANGED <<engine, wire, inbox, open, seq, got, ctxDone, hiccups, hit, overlap>>

QueryFails ==
  /\ pc = "check" /\ Hiccup
  /\ Score(<<FALSE>>) /\ NextStep
  /\ UNCHANGED <<engine, wire, inbox, open, seq, got, ctxDone, overlap>>

CloseConn ==
  /\ pc = "close"
  /\ open' = open \ {seq}
  /\ NextSequence
  /\ UNCHANGED <<engine, wire, inbox, ctxDone, score, hiccups, hit, overlap>>

ContextEnds ==
  /\ ~ctxDone /\ pc # "done" /\ hiccups < MaxHiccups
  /\ ctxDone' = TRUE /\ hiccups' = hiccups + 1
  /\ UNCHANGED <<engine, wire, inbox, open, pc, seq, at, got, score, hit, overlap>>

-----------------------------------------------------------------------------
BotStep ==
  \/ Dial \/ DialFails \/ Send \/ WriteFails \/ Read \/ ReadFails
  \/ Check \/ QueryFails \/ CloseConn

Next == BotStep \/ ContextEnds \/ \E s \in Sessions : EngineStep(s)

Spec == Init /\ [][Next]_vars

-----------------------------------------------------------------------------
(* Properties *)
Total(f) == Engine!Promise!Total(f)

\* Every variable keeps its type, and no sequence of failures adds assertions to the
\* ones the documents count (docs/scoring.md:19).
TypeOK ==
  /\ Engine!TypeOK
  /\ pc \in {"dial", "send", "read", "check", "close", "done"}
  /\ seq \in Sessions /\ at \in DOMAIN CorrectnessSequences[seq]
  /\ open \subseteq {seq} /\ hit \subseteq Sessions /\ hiccups \in 0..MaxHiccups
  /\ Total(passed) + Total(failed) <= Assertions
  /\ pc = "read" => ~Enough(got)

\* The reference engine has full marks if nothing fails on the way, however the end
\* of a session falls between the next sequences' steps (correctness_bot.go:48-57,
\* stub/main.go:276-290, 405-409).
FullMarks ==
  pc = "done" /\ hiccups = 0 => Total(passed) = Assertions /\ Total(failed) = 0

\* A sequence in which nothing failed on the way can lose assertions to an earlier one
\* only: one that lost some itself, and whose session, with what it left in the book,
\* had not ended when this one began (correctness_bot.go:70-82, 100, 222).
FailuresExplained ==
  \A s \in Sessions :
    failed[s] > 0 => s \in hit \/ \E earlier \in overlap[s] : failed[earlier] > 0
=============================================================================
