-------------------------- MODULE PriceTimePriority --------------------------
(***************************************************************************)
(* What the exchange promises its clients (docs/api-contract.md, Matching   *)
(* Rules): an order trades, in one atomic step, with the best resting       *)
(* orders of the other side, by price and then by time of entry, at their   *)
(* prices and never beyond its own; the rest of a limit order joins the     *)
(* book and the rest of a market order is dropped; an order leaves the book *)
(* filled, cancelled by its session, or with its session.                   *)
(*                                                                         *)
(* The outcome of a match is given in closed form, order by order, not as   *)
(* a loop.                                                                  *)
(***************************************************************************)
EXTENDS Naturals, FiniteSets

CONSTANTS Sessions, OrderIds, Prices, Quantities

VARIABLES
  book,    \* resting orders: [id, side, price, rem, at, owner]
  trades,  \* [taker, maker, qty, price]; orders are named by their entry time
  clock    \* the number of orders accepted so far

vars == <<book, trades, clock>>

Opposite(side) == IF side = "buy" THEN "sell" ELSE "buy"

\* The price a resting order of this side must have to trade at the limit.
Within(side, price, limit) == IF side = "buy" THEN price <= limit ELSE price >= limit

\* f goes before e, both resting on the same side.
Before(f, e) ==
  \/ IF f.side = "sell" THEN f.price < e.price ELSE f.price > e.price
  \/ f.price = e.price /\ f.at < e.at

\* The resting orders in b an incoming order may trade with.
Eligible(b, o) ==
  {e \in b : e.side = Opposite(o.side) /\ (o.kind = "market" \/ Within(o.side, e.price, o.price))}

\* The sum of the values of f, counted unit by unit.
Total(f) == Cardinality(UNION {{x} \X (1..f[x]) : x \in DOMAIN f})

Volume(S) == Total([e \in S |-> e.rem])
Ahead(b, o, e) == Volume({f \in Eligible(b, o) : Before(f, e)})

\* How much of e the incoming order takes: what those before e leave of it.
Taken(b, o, e) ==
  IF e \notin Eligible(b, o) \/ o.rem <= Ahead(b, o, e) THEN 0
  ELSE IF o.rem - Ahead(b, o, e) < e.rem THEN o.rem - Ahead(b, o, e) ELSE e.rem

\* What all of them leave of it.
Left(b, o) ==
  IF o.rem <= Volume(Eligible(b, o)) THEN 0 ELSE o.rem - Volume(Eligible(b, o))

\* The book and the trades once the order has been matched.
BookAfter(b, o) ==
  {[e EXCEPT !.rem = @ - Taken(b, o, e)] : e \in {f \in b : Taken(b, o, f) < f.rem}} \cup
  (IF o.kind = "limit" /\ Left(b, o) > 0
     THEN {[id |-> o.id, side |-> o.side, price |-> o.price, rem |-> Left(b, o),
            at |-> o.at, owner |-> o.owner]}
     ELSE {})

TradesAfter(t, b, o) ==
  t \cup {[taker |-> o.at, maker |-> e.at, qty |-> Taken(b, o, e), price |-> e.price] :
            e \in {f \in b : Taken(b, o, f) > 0}}

-----------------------------------------------------------------------------
Init == book = {} /\ trades = {} /\ clock = 0

\* A valid order whose id is not resting, the next on the clock.
Submit(s, id, side, kind, price, qty) ==
  LET o == [id |-> id, side |-> side, kind |-> kind, price |-> price, rem |-> qty,
            at |-> clock + 1, owner |-> s]
  IN /\ \A e \in book : e.id # id
     /\ book' = BookAfter(book, o)
     /\ trades' = TradesAfter(trades, book, o)

Cancel(s, id) ==
  /\ \E e \in book : e.id = id /\ e.owner = s
  /\ book' = {e \in book : e.id # id}
  /\ UNCHANGED <<trades, clock>>

CloseSession(s) ==
  /\ book' = {e \in book : e.owner # s}
  /\ UNCHANGED <<trades, clock>>

Next ==
  \/ /\ clock' = clock + 1
     /\ \E s \in Sessions, id \in OrderIds, side \in {"buy", "sell"}, qty \in Quantities :
          \/ \E price \in Prices : Submit(s, id, side, "limit", price, qty)
          \/ Submit(s, id, side, "market", 0, qty)
  \/ \E s \in Sessions, id \in OrderIds : Cancel(s, id)
  \/ \E s \in Sessions : CloseSession(s)

Spec == Init /\ [][Next]_vars
=============================================================================
