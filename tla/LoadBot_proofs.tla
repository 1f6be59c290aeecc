----------------------------- MODULE LoadBot_proofs -----------------------------
(***************************************************************************)
(* Proofs, for every sequence of orders, threshold and number of            *)
(* connections, of the typing of LoadBot and of its accounting of the       *)
(* orders in flight.                                                        *)
(***************************************************************************)
EXTENDS LoadBot, FiniteSetTheorems, TLAPS

\* The writer has a connection once its dial has succeeded, and an iteration left
\* while it is in one.
Underway ==
  /\ bot \in {"loop", "step", "write", "close"} => conn > 0
  /\ bot \in {"step", "write"} => iter < MaxIter

\* The typing, where the writer is, and the accounting, which counts a finite set.
IInv == TypeOK /\ Underway /\ IsFiniteSet(pending) /\ InFlightExact

(* A step is one of the following.                                          *)
LEMMA StepCases ==
  ASSUME Next
  PROVE  \/ Dial \/ DialSucceeds \/ DialRefused \/ GiveUpDialling \/ NextIteration
         \/ TakeOrder \/ TakeCancel
         \/ WriteFails \/ CloseConn \/ WriteSucceeds \/ Expire \/ BotReturned
         \/ DeadlinePasses \/ ContextEnds
         \/ \E c \in 1..conn : ReadError(c)
         \/ \E c \in 1..conn : Breaks(c)
         \/ \E c \in 1..conn, type \in Settling, id \in OrderIds : ReadAnswer(c, type, id)
  BY DEF Next, WriterStep, EngineStep, DialCancelled

(* The accounting: each step changes the counter and the set together.      *)
LEMMA InFlightStep ==
  ASSUME IInv, Next
  PROVE  IsFiniteSet(pending') /\ InFlightExact' /\ inFlight' \in 0..(Limit + 1) /\ resent' \in Nat
<1> USE LoadAssumption
<1> USE DEF IInv, TypeOK, InFlightExact
<1>1. Cardinality(pending) \in Nat
  BY FS_CardinalityType
<1>2. CASE UNCHANGED shared
  BY <1>1, <1>2 DEF shared
<1>3. CASE TakeOrder /\ ~HeldBack
  <2> DEFINE id == <<iter, Steps[at].tag>>
  <2>1. /\ pending' = pending \cup {id} /\ inFlight' = inFlight + 1
        /\ resent' = IF id \in pending THEN resent + 1 ELSE resent
        /\ inFlight <= Limit
    BY <1>3 DEF TakeOrder, HeldBack
  <2>2. /\ IsFiniteSet(pending')
        /\ Cardinality(pending') = IF id \in pending THEN Cardinality(pending) ELSE Cardinality(pending) + 1
    BY <2>1, FS_AddElement
  <2>3. id \in pending => Cardinality(pending) > 0
    <3>1. pending # {} => Cardinality(pending) # 0
      BY FS_EmptySet
    <3>. QED
      BY <3>1, <1>1
  <2>4. CASE id \in pending
    BY <1>1, <2>1, <2>2, <2>3, <2>4
  <2>5. CASE id \notin pending
    BY <1>1, <2>1, <2>2, <2>5
  <2>. QED
    BY <2>4, <2>5
<1>4. ASSUME NEW c \in 1..conn, NEW type \in Settling, NEW id \in OrderIds, ReadAnswer(c, type, id)
      PROVE  IsFiniteSet(pending') /\ InFlightExact' /\ inFlight' \in 0..(Limit + 1) /\ resent' \in Nat
  <2>1. /\ id \in pending /\ pending' = pending \ {id} /\ inFlight' = inFlight - 1
        /\ resent' = resent
    BY <1>4 DEF ReadAnswer, Settles
  <2>2. IsFiniteSet(pending') /\ Cardinality(pending') = Cardinality(pending) - 1
    BY <2>1, FS_RemoveElement
  <2>3. Cardinality(pending') \in Nat
    BY <2>2, FS_CardinalityType
  <2>. QED
    BY <1>1, <2>1, <2>2, <2>3
<1>5. CASE Expire
  <2>1. PICK old \in SUBSET pending :
          /\ pending' = pending \ old /\ inFlight' = inFlight - Cardinality(old)
          /\ resent' = resent
    BY <1>5 DEF Expire, AfterExpiry
  <2>2. IsFiniteSet(old) /\ Cardinality(old) \in Nat /\ Cardinality(old) <= Cardinality(pending)
    BY FS_Subset, FS_CardinalityType
  <2>3. pending \cap old = old
    OBVIOUS
  <2>4. IsFiniteSet(pending') /\ Cardinality(pending') = Cardinality(pending) - Cardinality(old)
    <3>1. /\ IsFiniteSet(pending \ old)
          /\ Cardinality(pending \ old) = Cardinality(pending) - Cardinality(pending \cap old)
      BY FS_Difference
    <3>. QED
      BY <2>1, <2>3, <3>1
  <2>. QED
    BY <1>1, <2>1, <2>2, <2>4
<1>6. CASE TakeOrder /\ HeldBack
  BY <1>2, <1>6 DEF TakeOrder
<1>. QED
  BY <1>2, <1>3, <1>4, <1>5, <1>6, StepCases
     DEF Dial, DialSucceeds, DialRefused, GiveUpDialling, NextIteration, TakeCancel, WriteFails,
         CloseConn, WriteSucceeds, BotReturned, DeadlinePasses, ContextEnds, ReadError, Breaks

(* The typing of what is left, and the writer's place.                      *)
LEMMA WriterTyping ==
  ASSUME IInv, Next
  PROVE  TypeOK' /\ Underway'
<1> USE LoadAssumption
<1> USE DEF IInv, TypeOK, Underway, shared, clocks, Goto
<1>1. inFlight' \in 0..(Limit + 1) /\ resent' \in Nat
  BY InFlightStep
<1>2. Steps[at].tag \in Tags /\ at \in 1..Len(Steps)
  BY DEF Tags
<1>3. CASE Dial
  BY <1>1, <1>3 DEF Dial
<1>4. CASE DialSucceeds
  <2>1. /\ conn' = conn + 1 /\ conn' \in 0..MaxConns /\ 1..conn \subseteq 1..conn'
        /\ at' = 1 /\ bot' = "loop"
    BY <1>4 DEF DialSucceeds
  <2>. QED
    BY <1>1, <1>4, <2>1 DEF DialSucceeds
<1>18. CASE DialRefused
  BY <1>1, <1>18 DEF DialRefused
<1>19. CASE GiveUpDialling
  BY <1>1, <1>19 DEF GiveUpDialling
<1>5. CASE NextIteration
  BY <1>1, <1>5 DEF NextIteration
<1>6. CASE TakeOrder
  <2>1. pending' \subseteq OrderIds
    BY <1>2, <1>6 DEF TakeOrder, OrderIds
  <2>2. DOMAIN idOf' \subseteq Tags /\ \A t \in DOMAIN idOf' : idOf'[t] \in 0..iter
    BY <1>2, <1>6 DEF TakeOrder
  <2>. QED
    BY <1>1, <1>6, <2>1, <2>2 DEF TakeOrder
<1>7. CASE TakeCancel
  BY <1>1, <1>7 DEF TakeCancel, StepOrEnd
<1>8. CASE WriteFails
  BY <1>1, <1>8 DEF WriteFails
<1>9. CASE CloseConn
  BY <1>1, <1>9 DEF CloseConn
<1>10. CASE WriteSucceeds
  BY <1>1, <1>10 DEF WriteSucceeds, StepOrEnd
<1>11. CASE Expire
  BY <1>1, <1>11 DEF Expire
<1>12. CASE BotReturned
  BY <1>1, <1>12 DEF BotReturned
<1>13. CASE DeadlinePasses
  BY <1>1, <1>13 DEF DeadlinePasses
<1>14. CASE ContextEnds
  BY <1>1, <1>14 DEF ContextEnds
<1>15. ASSUME NEW c \in 1..conn, ReadError(c) PROVE TypeOK' /\ Underway'
  BY <1>1, <1>15 DEF ReadError
<1>16. ASSUME NEW c \in 1..conn, Breaks(c) PROVE TypeOK' /\ Underway'
  BY <1>1, <1>16 DEF Breaks
<1>17. ASSUME NEW c \in 1..conn, NEW type \in Settling, NEW id \in OrderIds, ReadAnswer(c, type, id)
       PROVE  TypeOK' /\ Underway'
  BY <1>1, <1>17 DEF ReadAnswer
<1>. QED
  BY <1>3, <1>4, <1>5, <1>6, <1>7, <1>8, <1>9, <1>10, <1>11, <1>12, <1>13, <1>14, <1>15, <1>16,
     <1>17, <1>18, <1>19, StepCases

\* A bot starts with nothing in flight.
LEMMA InitIInv ==
  ASSUME Init
  PROVE  IInv
<1>1. IsFiniteSet(pending) /\ Cardinality(pending) = 0
  BY FS_EmptySet DEF Init
<1>2. DOMAIN idOf = {}
  BY DEF Init
<1>3. at \in DOMAIN Steps
  BY LoadAssumption DEF Init
<1>4. TypeOK
  <2>1. DOMAIN idOf \subseteq Tags /\ \A t \in DOMAIN idOf : idOf[t] \in 0..iter
    BY <1>2
  <2>2. /\ conn \in 0..MaxConns /\ iter \in 0..MaxIter
        /\ inFlight \in 0..(Limit + 1) /\ resent \in Nat
    BY LoadAssumption DEF Init
  <2>3. /\ bot = "dial" /\ broken = {} /\ readErr = {} /\ pending = {}
        /\ ~timeUp /\ ~ctxDone /\ runner = "waiting"
    BY DEF Init
  <2>4. timeUp \in BOOLEAN /\ ctxDone \in BOOLEAN
    BY DEF Init
  <2>. QED
    BY <1>3, <2>1, <2>2, <2>3, <2>4 DEF TypeOK
<1>. QED
  BY <1>1, <1>4, LoadAssumption DEF Init, IInv, Underway, InFlightExact

\* Every step keeps the invariant.
LEMMA NextIInv ==
  ASSUME IInv, [Next]_vars
  PROVE  IInv'
<1>1. CASE Next
  BY <1>1, InFlightStep, WriterTyping DEF IInv
<1>2. CASE UNCHANGED vars
  BY <1>2 DEF IInv, TypeOK, Underway, InFlightExact, vars, shared, clocks
<1>. QED
  BY <1>1, <1>2

\* The inductive invariant holds of every reachable state.
THEOREM Invariance == Spec => []IInv
  BY InitIInv, NextIInv, PTL DEF Spec

\* Every variable keeps its type; at most Limit + 1 orders are in flight.
THEOREM TypeCorrect == Spec => []TypeOK
<1>1. IInv => TypeOK
  BY DEF IInv
<1>. QED
  BY <1>1, Invariance, PTL

\* The counter is exact whichever goroutine takes an order out of pending, and what
\* resends leak into it stays below the threshold, so that a bot is never held back
\* by the leak alone (bot.go:200-219).
THEOREM CounterExact == Spec => []InFlightExact
<1>1. IInv => InFlightExact
  BY DEF IInv
<1>. QED
  BY <1>1, Invariance, PTL
=============================================================================
