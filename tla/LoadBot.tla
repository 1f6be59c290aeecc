-------------------------------- MODULE LoadBot --------------------------------
(***************************************************************************)
(* Phase 2 of a test run (services/bot-runner): a load bot and the runner    *)
(* that waits for it.  The bot's writer repeats a sequence of orders and    *)
(* cancels over a connection, which it makes anew when it fails, until the  *)
(* deadline; a reader per connection takes the answered orders out of       *)
(* `pending`; a third goroutine takes out the ones nobody answered for five *)
(* seconds.  The three share pending, inFlight and mu.                      *)
(*                                                                         *)
(* The engine under test (external) is anybody's program: it may answer any *)
(* order, early, late, twice or not at all, and stop reading.  Latencies    *)
(* and the other counters of BotMetrics are left out.                       *)
(***************************************************************************)
EXTENDS Naturals, Sequences, FiniteSets

CONSTANTS
  MaxConns,   \* bound: connections the bot can get
  Steps,      \* the sequence: [type |-> "limit" | "market" | "cancel", tag |-> ...]
  Limit,      \* the backpressure threshold (20 in the code)
  MaxIter     \* bound: times the sequence is completed

ASSUME LoadAssumption ==
  /\ MaxConns \in Nat /\ Limit \in Nat /\ MaxIter \in Nat
  /\ Steps \in Seq([type : {"limit", "market", "cancel"}, tag : STRING]) /\ Len(Steps) > 0

Tags == {Steps[n].tag : n \in DOMAIN Steps}
OrderIds == (0..MaxIter) \X Tags

VARIABLES
  bot,       \* the writer: "dial", "dialing", "loop", "step", "write", "close", "done"
  conn,      \* its connection, 0 before the first; reconnecting takes the next one
  broken,    \* the connections that are closed or have failed
  iter, at,  \* iteration, and the position in the sequence
  idOf,      \* tagToID: tag -> iteration of its last order
  pending, inFlight,
  readErr,   \* the connections whose reader has failed and left its error in errCh
  timeUp,    \* the deadline has passed
  ctxDone,   \* the test's context has ended: half a minute later, or by a signal
  runner,    \* run(): "waiting", "published", "failed"
  resent     \* history: orders put into pending while they were in it

shared == <<pending, inFlight, resent>>
clocks == <<timeUp, ctxDone>>
vars == <<bot, conn, broken, iter, at, idOf, shared, readErr, clocks, runner>>

Init ==
  /\ bot = "dial" /\ conn = 0 /\ broken = {} /\ iter = 0 /\ at = 1
  /\ idOf = << >>
  /\ pending = {} /\ inFlight = 0 /\ resent = 0
  /\ readErr = {} /\ timeUp = FALSE /\ ctxDone = FALSE
  /\ runner = "waiting"

Goto(step) == bot' = step /\ UNCHANGED <<conn, iter, at, idOf>>

-----------------------------------------------------------------------------
(* The writer.                                                              *)

(* websocket.Dial has no timeout but the context: it waits for as long as   *)
(* the engine leaves the upgrade unanswered.  Refused, it is tried again,   *)
(* until the deadline.                                                      *)
Dial ==
  /\ bot = "dial" /\ ~timeUp /\ ~ctxDone
  /\ Goto("dialing")
  /\ UNCHANGED <<shared, readErr, clocks, broken, runner>>

DialSucceeds ==
  /\ bot = "dialing" /\ conn < MaxConns
  /\ conn' = conn + 1 /\ at' = 1 /\ bot' = "loop"
  /\ UNCHANGED <<iter, idOf, shared, readErr, clocks, broken, runner>>

DialRefused ==
  /\ bot = "dialing"
  /\ Goto("dial")
  /\ UNCHANGED <<shared, readErr, clocks, broken, runner>>

\* The context ends the wait too.
DialCancelled == ctxDone /\ DialRefused

GiveUpDialling ==
  /\ bot = "dial" /\ (timeUp \/ ctxDone)
  /\ Goto("done")
  /\ UNCHANGED <<shared, readErr, clocks, broken, runner>>

(* Between two iterations, and only there, the writer looks at the clock,   *)
(* the context and errCh.                                                   *)

NextIteration ==
  /\ bot = "loop"
  /\ IF timeUp THEN Goto("close")
     ELSE IF ctxDone THEN Goto("done")
     ELSE IF conn \in readErr THEN Goto("close")
     ELSE iter < MaxIter /\ Goto("step")
  /\ UNCHANGED <<shared, readErr, clocks, broken, runner>>

StepOrEnd ==
  IF at = Len(Steps)
  THEN bot' = "loop" /\ iter' = iter + 1 /\ at' = 1
  ELSE bot' = "step" /\ at' = at + 1 /\ UNCHANGED iter

\* An order waits while too many are in flight.
HeldBackLate == inFlight > Limit + 1
HeldBack == inFlight > Limit

\* The wait for an order to be answered or to expire ends with the context too.
PressureEndsBlindly == FALSE
PressureEnds == ctxDone

(* An order: named, held back while too many are in flight, and entered in  *)
(* pending before it is written.                                            *)
TakeOrder ==
  /\ bot = "step" /\ Steps[at].type # "cancel"
  /\ LET id == <<iter, Steps[at].tag>>
     IN /\ idOf' = [t \in DOMAIN idOf \cup {Steps[at].tag} |->
                     IF t = Steps[at].tag THEN iter ELSE idOf[t]]
        /\ IF HeldBack
             THEN PressureEnds /\ bot' = "done" /\ UNCHANGED shared
             ELSE /\ bot' = "write"
                  /\ pending' = pending \cup {id} /\ inFlight' = inFlight + 1
                  /\ resent' = IF id \in pending THEN resent + 1 ELSE resent
  /\ UNCHANGED <<conn, iter, at, readErr, clocks, broken, runner>>

TakeCancel ==
  /\ bot = "step" /\ Steps[at].type = "cancel"
  /\ IF Steps[at].tag \in DOMAIN idOf THEN bot' = "write" /\ UNCHANGED <<iter, at>> ELSE StepOrEnd
  /\ UNCHANGED <<conn, idOf, shared, readErr, clocks, broken, runner>>

(* conn.Write: waits for the engine to read, as long as the context lasts.  *)
WriteSucceeds ==
  /\ bot = "write" /\ conn \notin broken
  /\ StepOrEnd /\ UNCHANGED <<conn, idOf>>
  /\ UNCHANGED <<shared, readErr, clocks, broken, runner>>

WriteFails ==
  /\ bot = "write" /\ (conn \in broken \/ ctxDone)
  /\ Goto("close")
  /\ UNCHANGED <<shared, readErr, clocks, broken, runner>>

CloseConn ==
  /\ bot = "close"
  /\ broken' = broken \cup {conn}
  /\ Goto("dial")
  /\ UNCHANGED <<shared, readErr, clocks, runner>>

-----------------------------------------------------------------------------
(* The reader of a connection; it may outlive the writer's interest in it.  *)
Settling == {"fill", "reject", "cancel_ack"}   \* a fill with Remaining = 0

\* An answer counts only for an order that is still pending.
SettlesUnknown(type, id) == type \in Settling
Settles(type, id) == type \in Settling /\ id \in pending

ReadAnswer(c, type, id) ==
  /\ c \in 1..conn /\ c \notin readErr
  /\ Settles(type, id)
  /\ pending' = pending \ {id} /\ inFlight' = inFlight - 1
  /\ UNCHANGED <<bot, conn, iter, at, idOf, resent, readErr, clocks, broken, runner>>

ReadError(c) ==
  /\ c \in 1..conn /\ c \notin readErr
  /\ c \in broken \/ ctxDone
  /\ readErr' = readErr \cup {c} /\ broken' = broken \cup {c}
  /\ UNCHANGED <<bot, conn, iter, at, idOf, shared, clocks, runner>>

(* The expiry goroutine: some pending orders are older than five seconds.   *)
AfterExpiryForgotten(old) == inFlight
AfterExpiry(old) == inFlight - Cardinality(old)

Expire ==
  /\ ~ctxDone
  /\ \E old \in SUBSET pending \ {{}} :
       pending' = pending \ old /\ inFlight' = AfterExpiry(old)
  /\ UNCHANGED <<bot, conn, iter, at, idOf, resent, readErr, clocks, broken, runner>>

-----------------------------------------------------------------------------
(* Time, and the network: a connection fails and loses what was under way.  *)
DeadlinePasses ==
  /\ ~timeUp /\ timeUp' = TRUE
  /\ UNCHANGED <<bot, conn, iter, at, idOf, shared, readErr, ctxDone, broken, runner>>

ContextEnds ==
  /\ ~ctxDone /\ ctxDone' = TRUE
  /\ UNCHANGED <<bot, conn, iter, at, idOf, shared, readErr, timeUp, broken, runner>>

Breaks(c) ==
  /\ c \in 1..conn /\ c \notin broken
  /\ broken' = broken \cup {c}
  /\ UNCHANGED <<bot, conn, iter, at, idOf, shared, readErr, clocks, runner>>

(* run(): once all bots have returned, the metrics are published, unless    *)
(* the context has ended by then.                                           *)
BotReturned ==
  /\ runner = "waiting" /\ bot = "done"
  /\ runner' = IF ctxDone THEN "failed" ELSE "published"
  /\ UNCHANGED <<bot, conn, broken, iter, at, idOf, shared, readErr, clocks>>

-----------------------------------------------------------------------------
WriterStep ==
  \/ Dial \/ DialCancelled \/ GiveUpDialling \/ NextIteration \/ TakeOrder \/ TakeCancel
  \/ WriteFails \/ CloseConn

\* What the engine does, if it does.
EngineStep == DialSucceeds \/ DialRefused \/ WriteSucceeds

Next ==
  \/ WriterStep \/ EngineStep \/ Expire \/ BotReturned
  \/ DeadlinePasses \/ ContextEnds
  \/ \E c \in 1..conn : ReadError(c) \/ Breaks(c)
  \/ \E c \in 1..conn, type \in Settling, id \in OrderIds : ReadAnswer(c, type, id)

Spec == Init /\ [][Next]_vars

(* The goroutines are scheduled and pending orders grow old.  Nothing is    *)
(* assumed of the engine, which need not answer a dial or read, nor of the  *)
(* clocks.                                                                  *)
Fairness == WF_vars(WriterStep) /\ WF_vars(Expire) /\ WF_vars(BotReturned)

FairSpec == Spec /\ Fairness

-----------------------------------------------------------------------------
(* Properties *)

\* Every variable keeps its type; the orders in flight never exceed the threshold
\* by more than one.
TypeOK ==
  /\ bot \in {"dial", "dialing", "loop", "step", "write", "close", "done"}
  /\ conn \in 0..MaxConns /\ broken \subseteq 1..conn /\ readErr \subseteq broken
  /\ iter \in 0..MaxIter /\ at \in DOMAIN Steps
  /\ DOMAIN idOf \subseteq Tags /\ \A t \in DOMAIN idOf : idOf[t] \in 0..iter
  /\ pending \subseteq OrderIds /\ inFlight \in 0..(Limit + 1) /\ resent \in Nat
  /\ timeUp \in BOOLEAN /\ ctxDone \in BOOLEAN
  /\ runner \in {"waiting", "published", "failed"}

\* The counter is the number of pending orders plus the orders that were entered a
\* second time after a write error (bot.go:208-210, 214-219): whichever of the reader,
\* a reader of an older connection and the expiry goroutine gets an order, the
\* counter falls once for it.  What it has lost it never gets back, but at most
\* Limit: at the threshold one more order still goes through (bot.go:200).
InFlightExact == inFlight = Cardinality(pending) + resent /\ resent <= Limit

\* Once its clocks have run out the runner returns, whatever the engine, the
\* network and the leaked in-flight orders do: no wait of a bot outlives the
\* context (bot.go:109-118, 200-205, 214; main.go:154-158).
RunnerReturns == (timeUp /\ ctxDone) ~> runner # "waiting"

\* docs/bot-runner.md:60, a bot loops "until duration expires": if the engine does not
\* leave a dial or a write hanging, the bot returns after the deadline without the
\* context's help, however many dials were refused and orders answered, lost or sent
\* again after write errors (bot.go:104-118, 200-219).
ReturnsAfterDeadline ==
  []<>(bot \notin {"dialing", "write"}) => (timeUp ~> bot = "done")

=============================================================================
