------------------------------ MODULE OrderBook ------------------------------
(***************************************************************************)
(* The matching engine of the reference submission (services/stub): one     *)
(* book shared by the sessions of all connections, guarded by Orderbook.mu. *)
(* A session's goroutine reads one message at a time; an order is matched   *)
(* in a loop, with the mutex held, against the best resting order of the    *)
(* other side, until it is used up or the prices no longer meet.            *)
(*                                                                         *)
(* Orders are objects shared by the id map and by a heap, and change in     *)
(* place: `made` holds every order ever entered, by time of entry, and      *)
(* orders, bids and asks hold positions in it.  The heaps are sets ordered  *)
(* by their Less functions; container/heap itself is taken as given.        *)
(* A message that is rejected changes nothing and is not an action.         *)
(***************************************************************************)
EXTENDS Naturals, Sequences, FiniteSets

CONSTANTS
  Sessions,    \* connections; a name is used again after its session is gone
  OrderIds,
  Prices, Quantities,
  NoSession,   \* the value of mu when nobody holds it
  MaxOrders    \* bound: orders ever accepted

ASSUME ConstantsAssumption ==
  /\ NoSession \notin Sessions
  /\ Prices \subseteq Nat \ {0} /\ Quantities \subseteq Nat \ {0}
  /\ MaxOrders \in Nat

VARIABLES
  made,        \* every order entered: [id, side, kind, price, qty, rem, owner]
  orders,      \* Orderbook.orders: resting order id -> position in made
  bids, asks,  \* the contents of the heaps
  mu,          \* the session inside handleOrder's locked section
  session,     \* "closed", "reading" or "closing" (its read has failed)
  \* history
  trades,      \* [taker, maker, qty, price]; one FillMessage each
  shown        \* while mu is held: the resting orders and the trades before it was

vars == <<made, orders, bids, asks, mu, session, trades, shown>>

NothingShown == [resting |-> {}, trades |-> {}]

Init ==
  /\ made = << >> /\ orders = << >> /\ bids = {} /\ asks = {}
  /\ mu = NoSession /\ session = [s \in Sessions |-> "closed"]
  /\ trades = {} /\ shown = NothingShown

Resting ==
  {[id |-> made[n].id, side |-> made[n].side, price |-> made[n].price, rem |-> made[n].rem,
    at |-> n, owner |-> made[n].owner] : n \in bids \cup asks}

-----------------------------------------------------------------------------
(* The heaps.                                                               *)

\* Less: by price, then by EnteredAt, the position in made.
BidLessNewest(m, n) ==
  IF made[m].price # made[n].price THEN made[m].price > made[n].price ELSE m > n
BidLess(m, n) ==
  IF made[m].price # made[n].price THEN made[m].price > made[n].price ELSE m < n
AskLess(m, n) ==
  IF made[m].price # made[n].price THEN made[m].price < made[n].price ELSE m < n

BestBid == CHOOSE m \in bids : \A n \in bids \ {m} : BidLess(m, n)
BestAsk == CHOOSE m \in asks : \A n \in asks \ {m} : AskLess(m, n)

\* Take a set of positions out of the id map and out of the heaps.
RemoveFromMap(gone) ==
  /\ orders' = [i \in {j \in DOMAIN orders : orders[j] \notin gone} |-> orders[i]]
  /\ UNCHANGED <<bids, asks>>
Remove(gone) ==
  /\ orders' = [i \in {j \in DOMAIN orders : orders[j] \notin gone} |-> orders[i]]
  /\ bids' = bids \ gone /\ asks' = asks \ gone

-----------------------------------------------------------------------------
(* match.  The order being matched is the last one made.                    *)
Cur == Len(made)
Buying == made[Cur].side = "buy"

BestOpposite == IF Buying THEN BestAsk ELSE BestBid

PriceMeetsStrictly(price) ==
  IF Buying THEN made[Cur].price > price ELSE made[Cur].price < price
PriceMeets(price) ==
  IF Buying THEN made[Cur].price >= price ELSE made[Cur].price <= price

CanMatch ==
  /\ made[Cur].rem > 0
  /\ (IF Buying THEN asks ELSE bids) # {}
  /\ made[Cur].kind = "market" \/ PriceMeets(made[BestOpposite].price)

MatchedQtyUncapped == made[Cur].rem
MatchedQty ==
  IF made[Cur].rem < made[BestOpposite].rem THEN made[Cur].rem ELSE made[BestOpposite].rem

AfterFillTakerOnly == [made EXCEPT ![Cur].rem = @ - MatchedQty]
AfterFill ==
  [made EXCEPT ![Cur].rem = @ - MatchedQty, ![BestOpposite].rem = @ - MatchedQty]

(* One turn of the loop: fill against the best order, drop it once empty.   *)
MatchOne(s) ==
  /\ mu = s /\ CanMatch
  /\ made' = AfterFill
  /\ trades' = trades \cup {[taker |-> Cur, maker |-> BestOpposite, qty |-> MatchedQty,
                             price |-> made[BestOpposite].price]}
  /\ IF made[BestOpposite].rem = MatchedQty THEN Remove({BestOpposite})
     ELSE UNCHANGED <<orders, bids, asks>>
  /\ UNCHANGED <<mu, session, shown>>

(* The end of handleOrder's locked section: what is left of a limit order   *)
(* rests, what is left of a market order is rejected.                       *)
Finish(s) ==
  /\ mu = s /\ ~CanMatch
  /\ mu' = NoSession /\ shown' = NothingShown
  /\ IF made[Cur].kind = "limit" /\ made[Cur].rem > 0
       THEN /\ orders' = [i \in DOMAIN orders \cup {made[Cur].id} |->
                            IF i = made[Cur].id THEN Cur ELSE orders[i]]
            /\ IF Buying THEN bids' = bids \cup {Cur} /\ asks' = asks
                         ELSE asks' = asks \cup {Cur} /\ bids' = bids
       ELSE UNCHANGED <<orders, bids, asks>>
  /\ UNCHANGED <<made, session, trades>>

(* handleOrder up to the loop: a valid order whose id is not resting.       *)
PlaceOrder(s, id, side, kind, price, qty) ==
  /\ session[s] = "reading" /\ mu = NoSession
  /\ id \notin DOMAIN orders
  /\ Len(made) < MaxOrders
  /\ mu' = s /\ shown' = [resting |-> Resting, trades |-> trades]
  /\ made' = Append(made, [id |-> id, side |-> side, kind |-> kind, price |-> price,
                           qty |-> qty, rem |-> qty, owner |-> s])
  /\ UNCHANGED <<orders, bids, asks, session, trades>>

(* handleCancel of a resting order of this session.                         *)
HandleCancel(s, id) ==
  /\ session[s] = "reading" /\ mu = NoSession
  /\ id \in DOMAIN orders /\ made[orders[id]].owner = s
  /\ Remove({orders[id]})
  /\ UNCHANGED <<made, mu, session, trades, shown>>

-----------------------------------------------------------------------------
(* streamHandler: a connection, the read that fails when it breaks, and the *)
(* deferred cancelSession.  The read fails between two messages only: the   *)
(* reading goroutine is the one that handles them.                          *)
Connect(s) ==
  /\ session[s] = "closed"
  /\ session' = [session EXCEPT ![s] = "reading"]
  /\ UNCHANGED <<made, orders, bids, asks, mu, trades, shown>>

ReadFails(s) ==
  /\ session[s] = "reading" /\ mu # s
  /\ session' = [session EXCEPT ![s] = "closing"]
  /\ UNCHANGED <<made, orders, bids, asks, mu, trades, shown>>

OwnedByBidsOnly(s) == {n \in bids : made[n].owner = s}
OwnedBy(s) == {n \in {orders[i] : i \in DOMAIN orders} : made[n].owner = s}

CancelSession(s) ==
  /\ session[s] = "closing" /\ mu = NoSession
  /\ Remove(OwnedBy(s))
  /\ session' = [session EXCEPT ![s] = "closed"]
  /\ UNCHANGED <<made, mu, trades, shown>>

-----------------------------------------------------------------------------
Next ==
  \/ \E s \in Sessions, id \in OrderIds, side \in {"buy", "sell"}, qty \in Quantities :
       \/ \E price \in Prices : PlaceOrder(s, id, side, "limit", price, qty)
       \/ PlaceOrder(s, id, side, "market", 0, qty)
  \/ \E s \in Sessions : MatchOne(s) \/ Finish(s)
  \/ \E s \in Sessions, id \in OrderIds : HandleCancel(s, id)
  \/ \E s \in Sessions : Connect(s) \/ ReadFails(s) \/ CancelSession(s)

Spec == Init /\ [][Next]_vars

-----------------------------------------------------------------------------
(* Properties *)

Entered == 1..Len(made)
Order ==
  [id : OrderIds, side : {"buy", "sell"}, kind : {"limit", "market"}, price : Prices \cup {0},
   qty : Quantities, rem : Nat, owner : Sessions]

\* Every variable keeps its type; no quantity goes below zero.
TypeOK ==
  /\ made \in Seq(Order) /\ Len(made) <= MaxOrders
  /\ DOMAIN orders \subseteq OrderIds /\ \A i \in DOMAIN orders : orders[i] \in Entered
  /\ bids \subseteq Entered /\ asks \subseteq Entered
  /\ mu \in Sessions \cup {NoSession}
  /\ session \in [Sessions -> {"closed", "reading", "closing"}]
  /\ \A t \in trades : t.taker \in Entered /\ t.maker \in Entered /\ t.qty \in Nat

\* The id map and the heaps hold the same orders, each on its side, under its own
\* id, with something left of it, and never a market order: match, rest and
\* remove (stub/main.go:191-274) keep three structures in step.
BookConsistent ==
  /\ {orders[i] : i \in DOMAIN orders} = bids \cup asks
  /\ \A i \in DOMAIN orders : made[orders[i]].id = i
  /\ \A n \in bids \cup asks : made[n].kind = "limit" /\ (made[n].rem > 0 \/ mu # NoSession)
  /\ \A n \in bids : made[n].side = "buy"
  /\ \A n \in asks : made[n].side = "sell"

\* Whenever the mutex is free no bid meets an ask: what could have traded has
\* (stub/main.go:195-242).
NotCrossed ==
  mu = NoSession => \A m \in bids, n \in asks : made[m].price < made[n].price

\* A session that is gone has no resting order, whatever others did between its
\* failed read and cancelSession (stub/main.go:276-290, 507-508).
NoOrderWithoutSession ==
  \A n \in bids \cup asks : session[made[n].owner] # "closed"

\* The clients see the book and the trades as they are when the mutex is free.
Promise == INSTANCE PriceTimePriority WITH
  book   <- IF mu = NoSession THEN Resting ELSE shown.resting,
  trades <- IF mu = NoSession THEN trades ELSE shown.trades,
  clock  <- IF mu = NoSession THEN Len(made) ELSE Len(made) - 1

Traded(n) == {t \in trades : t.taker = n \/ t.maker = n}

\* What an order has lost it has traded, as taker or as maker: nothing is filled
\* twice, and nothing vanishes (stub/main.go:200-202, 225-227).
QuantityConserved ==
  \A n \in Entered :
    made[n].qty = made[n].rem + Promise!Total([t \in Traded(n) |-> t.qty])

\* The engine keeps the promise: every interleaving of sessions, loops and
\* disconnections is a sequence of atomic matches by price and time, of cancels
\* by the owner and of session ends.
KeepsPriceTimePriority == Promise!Spec

=============================================================================
