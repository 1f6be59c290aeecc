---------------------------- MODULE OrderBook_proofs ----------------------------
(***************************************************************************)
(* Proofs, for every set of sessions, ids, prices and quantities, that the  *)
(* id map and the heaps of OrderBook agree, that the book is not crossed,   *)
(* that no order outlives its session, that the loop over heaps implements  *)
(* the atomic matching of PriceTimePriority, and that no quantity is made   *)
(* or lost.                                                                 *)
(*                                                                         *)
(* The least and greatest elements CHOOSE takes from the heaps must be      *)
(* shown to exist: by well-foundedness, since induction theorems with an    *)
(* operator parameter are of no use to the provers.                         *)
(***************************************************************************)
EXTENDS OrderBook, WellFoundedInduction, FiniteSetTheorems, TLAPS

-----------------------------------------------------------------------------
(* The best order of a side.                                                *)

(* A set of naturals has a least element.                                   *)
LEMMA LeastNatural ==
  ASSUME NEW T, T \subseteq Nat, T # {}
  PROVE  \E x \in T : \A y \in T : x <= y
<1>1. PICK x \in T : \A y \in T : <<y, x>> \notin OpToRel(<, Nat)
  BY NatLessThanWellFounded, WFMin
<1>2. \A y \in T : ~(y < x)
  BY <1>1 DEF OpToRel
<1>. QED
  BY <1>2

(* The prices of finitely many orders are bounded.                          *)
LEMMA PricesBounded ==
  ASSUME NEW L \in Nat, NEW f, \A n \in 1..L : f[n] \in Nat
  PROVE  \E b \in Nat : \A n \in 1..L : f[n] <= b
<1> DEFINE Unbounded == {k \in 0..L : \A b \in Nat : \E n \in 1..k : ~(f[n] <= b)}
<1>1. SUFFICES ASSUME Unbounded # {} PROVE FALSE
  <2>1. L \notin Unbounded => \E b \in Nat : \A n \in 1..L : f[n] <= b
    OBVIOUS
  <2>2. Unbounded = {} => L \notin Unbounded
    OBVIOUS
  <2> HIDE DEF Unbounded
  <2>. QED
    BY <2>1, <2>2
<1>2. PICK k \in Unbounded : \A j \in Unbounded : k <= j
  <2>1. Unbounded \subseteq Nat
    OBVIOUS
  <2> HIDE DEF Unbounded
  <2>. QED
    BY <1>1, <2>1, LeastNatural
<1>3. k # 0
  <2>1. \E n \in 1..k : TRUE
    BY <1>2
  <2>. QED
    BY <2>1
<1>4. k \in 1..L /\ k - 1 \in 0..L
  <2>1. k \in 0..L
    BY <1>2
  <2>. QED
    BY <1>3, <2>1
<1>5. k - 1 \notin Unbounded
  <2>1. k - 1 \in Unbounded => k <= k - 1
    BY <1>2
  <2>. QED
    BY <1>4, <2>1
<1>6. PICK b \in Nat : \A n \in 1..(k - 1) : f[n] <= b
  BY <1>4, <1>5
<1>7. PICK c \in Nat : b <= c /\ f[k] <= c
  <2>1. f[k] \in Nat
    BY <1>4
  <2>2. CASE f[k] <= b
    BY <2>2
  <2>3. CASE ~(f[k] <= b)
    BY <2>1, <2>3
  <2>. QED
    BY <2>2, <2>3
<1>8. \A n \in 1..k : f[n] <= c
  <2> SUFFICES ASSUME NEW n \in 1..k PROVE f[n] <= c
    OBVIOUS
  <2>1. CASE n = k
    BY <1>7, <2>1
  <2>2. CASE n # k
    <3>1. n \in 1..(k - 1) /\ f[n] \in Nat
      BY <1>4, <2>2
    <3>. QED
      BY <1>6, <1>7, <3>1
  <2>. QED
    BY <2>1, <2>2
<1>. QED
  BY <1>2, <1>8

(* Of some orders one is first by a key, and then by time of entry.         *)
LEMMA FirstExists ==
  ASSUME NEW S, S \subseteq Nat, S # {}, NEW key, \A n \in S : key[n] \in Nat
  PROVE  \E m \in S : \A n \in S \ {m} : key[m] < key[n] \/ (key[m] = key[n] /\ m < n)
<1> DEFINE Keys == {key[n] : n \in S}
<1>1. PICK k \in Keys : \A j \in Keys : k <= j
  BY LeastNatural
<1> DEFINE Firsts == {n \in S : key[n] = k}
<1>2. PICK m \in Firsts : \A n \in Firsts : m <= n
  <2>1. Firsts \subseteq Nat /\ Firsts # {}
    OBVIOUS
  <2> HIDE DEF Firsts
  <2>. QED
    BY <2>1, LeastNatural
<1>3. ASSUME NEW n \in S \ {m}
      PROVE  key[m] < key[n] \/ (key[m] = key[n] /\ m < n)
  <2>1. key[m] = k /\ k <= key[n] /\ k \in Nat /\ key[n] \in Nat /\ m \in Nat /\ n \in Nat
    BY <1>1
  <2>2. key[n] = k => m <= n
    BY <1>2
  <2>. QED
    BY <2>1, <2>2
<1>. QED
  BY <1>3

-----------------------------------------------------------------------------
(* The inductive invariant.                                                 *)

Side(n) == made[n].side
InBook == bids \cup asks

\* While the mutex is held, its holder reads, and the order it matches, the last one
\* made, is not in the book, and neither is its id.
Locked ==
  mu # NoSession =>
    /\ session[mu] = "reading"
    /\ Len(made) > 0 /\ made[Cur].owner = mu
    /\ Cur \notin InBook /\ made[Cur].id \notin DOMAIN orders

\* Something is left of each resting order.
Unfilled == \A n \in InBook : made[n].rem > 0

\* No bid meets an ask, mutex held or not: the order being matched is not resting.
Apart == \A m \in bids, n \in asks : made[m].price < made[n].price

IInv == TypeOK /\ BookConsistent /\ NoOrderWithoutSession /\ Locked /\ Unfilled /\ Apart

(* What an order is, but for what is left of it, does not change.           *)
Same(n) ==
  /\ made'[n].id = made[n].id /\ made'[n].side = made[n].side /\ made'[n].kind = made[n].kind
  /\ made'[n].price = made[n].price /\ made'[n].owner = made[n].owner
  /\ made'[n].qty = made[n].qty

\* The type of an order, field by field.
LEMMA MadeTyped ==
  ASSUME TypeOK, NEW n \in 1..Len(made)
  PROVE  made[n] \in Order /\ made[n].price \in Nat /\ made[n].rem \in Nat
<1>1. made[n] \in Order
  BY DEF TypeOK
<1>2. made[n].price \in Prices \cup {0} /\ made[n].rem \in Nat
  BY <1>1 DEF Order
<1>3. Prices \cup {0} \subseteq Nat
  BY ConstantsAssumption
<1>. QED
  BY <1>1, <1>2, <1>3

\* BestBid is a bid, less than every other, and none has a higher price.
LEMMA BestBidIsFirst ==
  ASSUME TypeOK, bids # {}
  PROVE  /\ BestBid \in bids /\ \A n \in bids \ {BestBid} : BidLess(BestBid, n)
         /\ \A n \in bids : made[n].price <= made[BestBid].price
<1> DEFINE price == [n \in 1..Len(made) |-> made[n].price]
<1>1. Len(made) \in Nat /\ bids \subseteq 1..Len(made)
  BY DEF TypeOK, Entered
<1>2. \A n \in 1..Len(made) : price[n] \in Nat /\ price[n] = made[n].price
  BY MadeTyped
<1> HIDE DEF price
<1>3. PICK b \in Nat : \A n \in 1..Len(made) : price[n] <= b
  BY <1>1, <1>2, PricesBounded
<1> DEFINE key == [n \in 1..Len(made) |-> b - price[n]]
<1>4. \A n \in 1..Len(made) : key[n] \in Nat /\ key[n] = b - price[n]
  BY <1>2, <1>3
<1> HIDE DEF key
<1>5. PICK m \in bids : \A n \in bids \ {m} : key[m] < key[n] \/ (key[m] = key[n] /\ m < n)
  <2>1. bids \subseteq Nat /\ \A n \in bids : key[n] \in Nat
    BY <1>1, <1>4
  <2>. QED
    BY <2>1, FirstExists
<1>6. \A n \in bids \ {m} : BidLess(m, n)
  BY <1>1, <1>2, <1>4, <1>5 DEF BidLess
<1>7. BestBid \in bids /\ \A n \in bids \ {BestBid} : BidLess(BestBid, n)
  BY <1>6 DEF BestBid
<1>8. ASSUME NEW n \in bids PROVE made[n].price <= made[BestBid].price
  <2>1. made[n].price \in Nat /\ made[BestBid].price \in Nat
    BY <1>1, <1>7, MadeTyped
  <2>. QED
    BY <1>7, <2>1 DEF BidLess
<1>. QED
  BY <1>7, <1>8

\* BestAsk is an ask, less than every other, and none has a lower price.
LEMMA BestAskIsFirst ==
  ASSUME TypeOK, asks # {}
  PROVE  /\ BestAsk \in asks /\ \A n \in asks \ {BestAsk} : AskLess(BestAsk, n)
         /\ \A n \in asks : made[BestAsk].price <= made[n].price
<1> DEFINE price == [n \in 1..Len(made) |-> made[n].price]
<1>1. Len(made) \in Nat /\ asks \subseteq 1..Len(made)
  BY DEF TypeOK, Entered
<1>2. \A n \in 1..Len(made) : price[n] \in Nat /\ price[n] = made[n].price
  BY MadeTyped
<1> HIDE DEF price
<1>3. PICK m \in asks : \A n \in asks \ {m} : price[m] < price[n] \/ (price[m] = price[n] /\ m < n)
  <2>1. asks \subseteq Nat
    BY <1>1
  <2>2. \A n \in asks : price[n] \in Nat
    BY <1>1, <1>2, Zenon
  <2>. QED
    BY <2>1, <2>2, FirstExists
<1>4. \A n \in asks \ {m} : AskLess(m, n)
  BY <1>1, <1>2, <1>3 DEF AskLess
<1>5. BestAsk \in asks /\ \A n \in asks \ {BestAsk} : AskLess(BestAsk, n)
  BY <1>4 DEF BestAsk
<1>6. ASSUME NEW n \in asks PROVE made[BestAsk].price <= made[n].price
  <2>1. made[n].price \in Nat /\ made[BestAsk].price \in Nat
    BY <1>1, <1>5, MadeTyped
  <2>. QED
    BY <1>5, <2>1 DEF AskLess
<1>. QED
  BY <1>5, <1>6

(* A step that adds nothing to the book keeps it in order.                  *)
Shrunk ==
  /\ DOMAIN orders' \subseteq DOMAIN orders /\ \A i \in DOMAIN orders' : orders'[i] = orders[i]
  /\ {orders'[i] : i \in DOMAIN orders'} = InBook'
  /\ bids' \subseteq bids /\ asks' \subseteq asks

\* Remove takes orders out of the map and the heaps together.
LEMMA RemoveShrinks ==
  ASSUME IInv, NEW gone, Remove(gone)
  PROVE  Shrunk /\ bids' = bids \ gone /\ asks' = asks \ gone
<1>1. /\ DOMAIN orders' = {j \in DOMAIN orders : orders[j] \notin gone}
      /\ \A i \in DOMAIN orders' : orders'[i] = orders[i]
      /\ bids' = bids \ gone /\ asks' = asks \ gone
  BY DEF Remove
<1>2. {orders[i] : i \in DOMAIN orders} = InBook
  BY DEF IInv, BookConsistent, InBook
<1>3. {orders'[i] : i \in DOMAIN orders'} = InBook \ gone
  BY <1>1, <1>2
<1>. QED
  BY <1>1, <1>3 DEF Shrunk, InBook

\* An untouched book has shrunk by nothing.
LEMMA NothingShrinks ==
  ASSUME IInv, UNCHANGED <<orders, bids, asks>>
  PROVE  Shrunk
  BY DEF IInv, BookConsistent, InBook, Shrunk

\* Positions in the book are positions in made.
LEMMA BookPositions ==
  ASSUME IInv
  PROVE  /\ InBook \subseteq 1..Len(made)
         /\ \A i \in DOMAIN orders : orders[i] \in InBook
         /\ \A n \in InBook : \E i \in DOMAIN orders : orders[i] = n /\ made[n].id = i
<1>1. {orders[i] : i \in DOMAIN orders} = InBook
  BY DEF IInv, BookConsistent, InBook
<1>2. \A i \in DOMAIN orders : made[orders[i]].id = i
  BY DEF IInv, BookConsistent
<1>3. InBook \subseteq 1..Len(made)
  BY DEF IInv, TypeOK, Entered, InBook
<1>. QED
  BY <1>1, <1>2, <1>3

\* A book that only loses orders stays consistent and uncrossed.
LEMMA ShrunkKeepsBook ==
  ASSUME IInv, Shrunk, Len(made') \in Nat, Len(made) <= Len(made'),
         \A n \in InBook : Same(n),
         \A n \in InBook' : made'[n].rem > 0
  PROVE  /\ DOMAIN orders' \subseteq OrderIds /\ \A i \in DOMAIN orders' : orders'[i] \in Entered'
         /\ bids' \subseteq Entered' /\ asks' \subseteq Entered'
         /\ BookConsistent' /\ Unfilled' /\ Apart'
<1>1. InBook' \subseteq InBook /\ bids' \subseteq bids /\ asks' \subseteq asks
  BY DEF Shrunk, InBook
<1>2. Len(made) \in Nat
  BY DEF IInv, TypeOK
<1>3. 1..Len(made) \subseteq Entered'
  BY <1>2 DEF Entered
<1>4. \A i \in DOMAIN orders' : i \in DOMAIN orders /\ orders'[i] = orders[i] /\ orders[i] \in InBook
  BY BookPositions DEF Shrunk
<1>5. bids \subseteq 1..Len(made) /\ asks \subseteq 1..Len(made) /\ InBook \subseteq 1..Len(made)
  BY BookPositions DEF InBook
<1>6. DOMAIN orders' \subseteq OrderIds
  BY <1>4 DEF IInv, TypeOK
<1>7. BookConsistent'
  <2>1. ({orders[i] : i \in DOMAIN orders} = bids \cup asks)'
    BY DEF Shrunk, InBook
  <2>2. \A i \in DOMAIN orders' : made'[orders'[i]].id = i
    BY <1>4 DEF IInv, BookConsistent, Same
  <2>3. \A n \in InBook' : made'[n].kind = "limit" /\ made'[n].rem > 0
    BY <1>1 DEF IInv, BookConsistent, Same, InBook
  <2>4. (\A n \in bids' : made'[n].side = "buy") /\ (\A n \in asks' : made'[n].side = "sell")
    BY <1>1 DEF IInv, BookConsistent, Same, InBook
  <2>. QED
    BY <2>1, <2>2, <2>3, <2>4 DEF BookConsistent, InBook
<1>8. Apart'
  BY <1>1 DEF IInv, Apart, Same, InBook
<1>9. Unfilled'
  BY DEF Unfilled
<1>. QED
  BY <1>1, <1>3, <1>4, <1>5, <1>6, <1>7, <1>8, <1>9
-----------------------------------------------------------------------------
(* The steps.                                                               *)

\* A new order is in no structure yet.
LEMMA PlaceOrderStep ==
  ASSUME IInv, NEW s \in Sessions, NEW id \in OrderIds, NEW side \in {"buy", "sell"},
         NEW kind \in {"limit", "market"}, NEW price \in Prices \cup {0}, NEW qty \in Quantities,
         PlaceOrder(s, id, side, kind, price, qty)
  PROVE  IInv'
<1> DEFINE o == [id |-> id, side |-> side, kind |-> kind, price |-> price, qty |-> qty,
                 rem |-> qty, owner |-> s]
<1>1. /\ session[s] = "reading" /\ mu' = s /\ made' = Append(made, o)
      /\ id \notin DOMAIN orders /\ Len(made) < MaxOrders
      /\ UNCHANGED <<orders, bids, asks, session, trades>>
  BY DEF PlaceOrder
<1>2. o \in Order
  BY ConstantsAssumption DEF Order
<1>3. made \in Seq(Order) /\ Len(made) \in Nat
  BY DEF IInv, TypeOK
<1>4. /\ made' \in Seq(Order) /\ Len(made') = Len(made) + 1
      /\ made'[Len(made) + 1] = o /\ \A n \in 1..Len(made) : made'[n] = made[n]
  <2> HIDE DEF o
  <2>. QED
    BY <1>1, <1>2, <1>3
<1>5. InBook \subseteq 1..Len(made) /\ InBook' = InBook
  BY <1>1, BookPositions DEF InBook
<1>6. (\A n \in InBook : Same(n)) /\ \A n \in InBook' : made'[n].rem > 0
  BY <1>4, <1>5 DEF IInv, Unfilled, Same
<1>7. Shrunk
  BY <1>1, NothingShrinks
<1>8. /\ DOMAIN orders' \subseteq OrderIds /\ \A i \in DOMAIN orders' : orders'[i] \in Entered'
      /\ bids' \subseteq Entered' /\ asks' \subseteq Entered'
      /\ BookConsistent' /\ Unfilled' /\ Apart'
  BY <1>3, <1>4, <1>6, <1>7, ShrunkKeepsBook
<1>9. TypeOK'
  <2>1. Len(made') <= MaxOrders
    BY <1>1, <1>3, <1>4, ConstantsAssumption
  <2>2. \A t \in trades' : t.taker \in Entered' /\ t.maker \in Entered' /\ t.qty \in Nat
    BY <1>1, <1>3, <1>4 DEF IInv, TypeOK, Entered
  <2>. QED
    BY <1>1, <1>4, <1>8, <2>1, <2>2 DEF IInv, TypeOK
<1>10. NoOrderWithoutSession'
  BY <1>1, <1>6 DEF IInv, NoOrderWithoutSession, InBook, Same
<1>11. Locked'
  <2>1. Cur' = Len(made) + 1 /\ Cur' \notin InBook'
    BY <1>3, <1>4, <1>5 DEF Cur
  <2>2. made'[Cur'].owner = s /\ made'[Cur'].id = id
    BY <1>4, <2>1
  <2>. QED
    BY <1>1, <1>3, <1>4, <2>1, <2>2 DEF Locked
<1>. QED
  BY <1>8, <1>9, <1>10, <1>11 DEF IInv

(* What a fill is made of.                                                  *)
LEMMA BestInBook ==
  ASSUME IInv, CanMatch
  PROVE  BestOpposite \in InBook
<1>1. CASE Buying
  BY <1>1, BestAskIsFirst DEF CanMatch, BestOpposite, InBook, IInv
<1>2. CASE ~Buying
  BY <1>2, BestBidIsFirst DEF CanMatch, BestOpposite, InBook, IInv
<1>. QED
  BY <1>1, <1>2

\* A fill takes the same from two orders, no more than either has, and changes nothing else.
LEMMA FillEffect ==
  ASSUME IInv, NEW s \in Sessions, MatchOne(s)
  PROVE  /\ BestOpposite \in InBook /\ BestOpposite # Cur /\ Cur \in 1..Len(made)
         /\ MatchedQty \in Nat
         /\ MatchedQty <= made[Cur].rem /\ MatchedQty <= made[BestOpposite].rem
         /\ made' \in Seq(Order) /\ Len(made') = Len(made)
         /\ \A n \in 1..Len(made) : Same(n)
         /\ \A n \in 1..Len(made) : n # Cur /\ n # BestOpposite => made'[n].rem = made[n].rem
         /\ made'[BestOpposite].rem = made[BestOpposite].rem - MatchedQty
         /\ made'[Cur].rem = made[Cur].rem - MatchedQty
<1> DEFINE b == BestOpposite
           q == MatchedQty
<1>1. mu = s /\ CanMatch /\ made' = AfterFill /\ s # NoSession
  BY ConstantsAssumption DEF MatchOne
<1>2. b \in InBook /\ b \in 1..Len(made)
  BY <1>1, BestInBook, BookPositions
<1>3. made \in Seq(Order) /\ Len(made) \in Nat
  BY DEF IInv, TypeOK
<1>4. Cur \in 1..Len(made) /\ Cur \notin InBook
  BY <1>1, <1>3 DEF IInv, Locked, Cur
<1>5. b # Cur
  BY <1>2, <1>4
<1>6. made[Cur].rem \in Nat /\ made[b].rem \in Nat
  BY <1>2, <1>4, MadeTyped DEF IInv
<1>7. q \in Nat /\ q <= made[Cur].rem /\ q <= made[b].rem
  BY <1>6 DEF MatchedQty
<1>8. made' = [made EXCEPT ![Cur].rem = @ - q, ![b].rem = @ - q]
  BY <1>1 DEF AfterFill
<1> HIDE DEF b, q
<1>9. made[Cur] \in Order /\ made[b] \in Order
  BY <1>2, <1>4, MadeTyped DEF IInv
<1> DEFINE x == [made[Cur] EXCEPT !.rem = @ - q]
           y == [made[b] EXCEPT !.rem = @ - q]
<1>10. made' = [[made EXCEPT ![Cur] = x] EXCEPT ![b] = y]
  BY <1>5, <1>8
<1>11. x \in Order /\ y \in Order
  BY <1>6, <1>7, <1>9 DEF Order
<1>12. /\ x.id = made[Cur].id /\ x.side = made[Cur].side /\ x.kind = made[Cur].kind
       /\ x.price = made[Cur].price /\ x.owner = made[Cur].owner
       /\ x.qty = made[Cur].qty /\ x.rem = made[Cur].rem - q /\ y.qty = made[b].qty
       /\ y.id = made[b].id /\ y.side = made[b].side /\ y.kind = made[b].kind
       /\ y.price = made[b].price /\ y.owner = made[b].owner /\ y.rem = made[b].rem - q
  BY <1>9 DEF Order
<1> HIDE DEF x, y
<1>13. /\ made' \in Seq(Order) /\ Len(made') = Len(made)
       /\ \A n \in 1..Len(made) : made'[n] = IF n = b THEN y ELSE IF n = Cur THEN x ELSE made[n]
  BY <1>2, <1>3, <1>4, <1>10, <1>11
<1>14. \A n \in 1..Len(made) : Same(n)
  BY <1>12, <1>13 DEF Same
<1>15. /\ \A n \in 1..Len(made) : n # Cur /\ n # b => made'[n].rem = made[n].rem
       /\ made'[b].rem = made[b].rem - q /\ made'[Cur].rem = made[Cur].rem - q
  BY <1>2, <1>4, <1>5, <1>12, <1>13
<1>. QED
  BY <1>2, <1>4, <1>5, <1>7, <1>13, <1>14, <1>15 DEF b, q

\* A fill takes the resting order out when it is filled, and only then.
LEMMA MatchOneStep ==
  ASSUME IInv, NEW s \in Sessions, MatchOne(s)
  PROVE  IInv'
<1> DEFINE b == BestOpposite
           q == MatchedQty
<1>1. /\ b \in InBook /\ b # Cur /\ Cur \in 1..Len(made) /\ q \in Nat
      /\ q <= made[b].rem
      /\ made' \in Seq(Order) /\ Len(made') = Len(made)
      /\ \A n \in 1..Len(made) : Same(n)
      /\ \A n \in 1..Len(made) : n # Cur /\ n # b => made'[n].rem = made[n].rem
      /\ made'[b].rem = made[b].rem - q
  BY FillEffect
<1>2. /\ mu = s /\ UNCHANGED <<mu, session>>
      /\ \/ made[b].rem = q /\ Remove({b})
         \/ made[b].rem # q /\ UNCHANGED <<orders, bids, asks>>
      /\ trades' = trades \cup {[taker |-> Cur, maker |-> b, qty |-> q, price |-> made[b].price]}
  BY DEF MatchOne
<1> HIDE DEF b, q
<1>3. InBook \subseteq 1..Len(made) /\ Len(made) \in Nat
  BY BookPositions DEF IInv, TypeOK
<1>4. Cur \notin InBook /\ session[s] = "reading" /\ made[Cur].owner = s /\ s # NoSession
      /\ made[Cur].id \notin DOMAIN orders /\ Len(made) > 0
  BY <1>2, ConstantsAssumption DEF IInv, Locked
<1>5. Shrunk /\ (made[b].rem = q => b \notin InBook')
  BY <1>2, RemoveShrinks, NothingShrinks DEF InBook
<1>6. InBook' \subseteq InBook
  BY <1>5 DEF Shrunk, InBook
<1>7. \A n \in InBook' : made'[n].rem > 0
  <2> SUFFICES ASSUME NEW n \in InBook' PROVE made'[n].rem > 0
    OBVIOUS
  <2>1. n \in InBook /\ n \in 1..Len(made) /\ n # Cur /\ made[n].rem > 0 /\ made[n].rem \in Nat
    BY <1>3, <1>4, <1>6, MadeTyped DEF IInv, Unfilled
  <2>2. CASE n = b
    BY <1>1, <1>5, <2>1, <2>2
  <2>3. CASE n # b
    BY <1>1, <2>1, <2>3
  <2>. QED
    BY <2>2, <2>3
<1>8. /\ DOMAIN orders' \subseteq OrderIds /\ \A i \in DOMAIN orders' : orders'[i] \in Entered'
      /\ bids' \subseteq Entered' /\ asks' \subseteq Entered'
      /\ BookConsistent' /\ Unfilled' /\ Apart'
  BY <1>1, <1>3, <1>5, <1>7, ShrunkKeepsBook
<1>9. TypeOK'
  <2>1. Entered' = Entered /\ Cur \in Entered /\ b \in Entered
    BY <1>1, <1>3 DEF Entered
  <2>2. \A t \in trades' : t.taker \in Entered' /\ t.maker \in Entered' /\ t.qty \in Nat
    BY <1>1, <1>2, <2>1 DEF IInv, TypeOK
  <2>. QED
    BY <1>1, <1>2, <1>8, <2>2 DEF IInv, TypeOK
<1>10. NoOrderWithoutSession'
  BY <1>1, <1>2, <1>3, <1>6 DEF IInv, NoOrderWithoutSession, InBook, Same
<1>11. Locked'
  <2>1. Cur' = Cur
    BY <1>1 DEF Cur
  <2>2. DOMAIN orders' \subseteq DOMAIN orders
    BY <1>5 DEF Shrunk
  <2>3. made'[Cur].owner = made[Cur].owner /\ made'[Cur].id = made[Cur].id
    BY <1>1 DEF Same
  <2>. QED
    BY <1>1, <1>2, <1>4, <1>6, <2>1, <2>2, <2>3 DEF Locked
<1>. QED
  BY <1>8, <1>9, <1>10, <1>11 DEF IInv

(* What rests does not meet the best order of the other side, hence none.   *)
LEMMA RestsApart ==
  ASSUME IInv, ~CanMatch, Cur \in 1..Len(made), made[Cur].kind = "limit", made[Cur].rem > 0
  PROVE  /\ Buying => \A n \in asks : made[Cur].price < made[n].price
         /\ ~Buying => \A m \in bids : made[m].price < made[Cur].price
<1>1. made[Cur].price \in Nat
  BY MadeTyped DEF IInv
<1>2. \A n \in bids \cup asks : made[n].price \in Nat
  BY BookPositions, MadeTyped DEF IInv, InBook
<1>3. ASSUME Buying, NEW n \in asks PROVE made[Cur].price < made[n].price
  <2>1. BestAsk \in asks /\ made[BestAsk].price <= made[n].price
    BY BestAskIsFirst DEF IInv
  <2>2. ~(made[Cur].price >= made[BestAsk].price)
    BY <1>3, <2>1 DEF CanMatch, BestOpposite, PriceMeets
  <2>. QED
    BY <1>1, <1>2, <2>1, <2>2
<1>4. ASSUME ~Buying, NEW m \in bids PROVE made[m].price < made[Cur].price
  <2>1. BestBid \in bids /\ made[m].price <= made[BestBid].price
    BY BestBidIsFirst DEF IInv
  <2>2. ~(made[Cur].price <= made[BestBid].price)
    BY <1>4, <2>1 DEF CanMatch, BestOpposite, PriceMeets
  <2>. QED
    BY <1>1, <1>2, <2>1, <2>2
<1>. QED
  BY <1>3, <1>4

\* The order rests only if nothing opposite meets it.
LEMMA FinishStep ==
  ASSUME IInv, NEW s \in Sessions, Finish(s)
  PROVE  IInv'
<1>1. mu = s /\ ~CanMatch /\ mu' = NoSession /\ UNCHANGED <<made, session, trades>> /\ s # NoSession
  BY ConstantsAssumption DEF Finish
<1>2. Len(made) \in Nat /\ Len(made) > 0 /\ Cur \in 1..Len(made) /\ Cur = Len(made)
  BY <1>1 DEF IInv, TypeOK, Locked, Cur
<1>3. /\ Cur \notin InBook /\ session[s] = "reading" /\ made[Cur].owner = s
      /\ made[Cur].id \notin DOMAIN orders
  BY <1>1 DEF IInv, Locked
<1>4. Locked'
  BY <1>1 DEF Locked
<1>5. CASE made[Cur].kind = "limit" /\ made[Cur].rem > 0
  <2>1. /\ DOMAIN orders' = DOMAIN orders \cup {made[Cur].id}
        /\ \A i \in DOMAIN orders' : orders'[i] = IF i = made[Cur].id THEN Cur ELSE orders[i]
        /\ \/ Buying /\ bids' = bids \cup {Cur} /\ asks' = asks
           \/ ~Buying /\ asks' = asks \cup {Cur} /\ bids' = bids
    BY <1>5 DEF Finish
  <2>2. InBook' = InBook \cup {Cur}
    BY <2>1 DEF InBook
  <2>3. made[Cur] \in Order /\ made[Cur].id \in OrderIds /\ made[Cur].side \in {"buy", "sell"}
    BY <1>2, MadeTyped DEF IInv, Order
  <2>4. /\ InBook \subseteq 1..Len(made)
        /\ \A i \in DOMAIN orders : orders[i] \in InBook /\ made[orders[i]].id = i
    BY BookPositions DEF IInv, BookConsistent
  <2>5. {orders'[i] : i \in DOMAIN orders'} = InBook'
    <3>1. \A n \in InBook : \E i \in DOMAIN orders : orders[i] = n
      BY BookPositions
    <3>2. \A n \in InBook : \E i \in DOMAIN orders' : orders'[i] = n
      BY <1>3, <2>1, <3>1
    <3>3. \E i \in DOMAIN orders' : orders'[i] = Cur
      BY <2>1
    <3>4. \A i \in DOMAIN orders' : orders'[i] \in InBook'
      BY <2>1, <2>2, <2>4
    <3>. QED
      BY <2>2, <3>2, <3>3, <3>4
  <2>6. BookConsistent'
    <3>1. ({orders[i] : i \in DOMAIN orders} = bids \cup asks)'
      BY <2>5 DEF InBook
    <3>2. \A i \in DOMAIN orders' : made'[orders'[i]].id = i
      BY <1>1, <2>1, <2>4
    <3>3. \A n \in InBook' : made'[n].kind = "limit" /\ made'[n].rem > 0
      BY <1>1, <1>5, <2>2 DEF IInv, BookConsistent, Unfilled, InBook
    <3>4. (\A n \in bids' : made'[n].side = "buy") /\ (\A n \in asks' : made'[n].side = "sell")
      BY <1>1, <2>1, <2>3 DEF IInv, BookConsistent, Buying
    <3>. QED
      BY <3>1, <3>2, <3>3, <3>4 DEF BookConsistent, InBook
  <2>7. TypeOK'
    <3>1. /\ DOMAIN orders' \subseteq OrderIds /\ \A i \in DOMAIN orders' : orders'[i] \in Entered
          /\ bids' \subseteq Entered /\ asks' \subseteq Entered
      BY <1>2, <2>1, <2>3 DEF IInv, TypeOK, Entered
    <3>. QED
      BY <1>1, <3>1 DEF IInv, TypeOK, Entered
  <2>8. NoOrderWithoutSession'
    BY <1>1, <1>3, <2>2 DEF IInv, NoOrderWithoutSession, InBook
  <2>9. Unfilled'
    BY <1>1, <1>5, <2>2 DEF IInv, Unfilled
  <2>10. Apart'
    BY <1>1, <1>2, <1>5, <2>1, RestsApart DEF IInv, Apart
  <2>. QED
    BY <1>4, <2>6, <2>7, <2>8, <2>9, <2>10 DEF IInv
<1>6. CASE ~(made[Cur].kind = "limit" /\ made[Cur].rem > 0)
  <2>1. UNCHANGED <<orders, bids, asks>>
    BY <1>6 DEF Finish
  <2>2. Shrunk
    BY <2>1, NothingShrinks
  <2>3. InBook' = InBook /\ made' = made
    BY <1>1, <2>1 DEF InBook
  <2>4. (\A n \in InBook : Same(n)) /\ \A n \in InBook' : made'[n].rem > 0
    BY <2>3 DEF IInv, Unfilled, Same
  <2>5. BookConsistent' /\ Unfilled' /\ Apart'
    BY <1>2, <2>2, <2>3, <2>4, ShrunkKeepsBook
  <2>6. TypeOK' /\ NoOrderWithoutSession'
    BY <1>1, <2>1 DEF IInv, TypeOK, Entered, NoOrderWithoutSession
  <2>. QED
    BY <1>4, <2>5, <2>6 DEF IInv
<1>. QED
  BY <1>5, <1>6

(* A removal by a session that holds no mutex, while nobody does.           *)
LEMMA RemovalKeepsBook ==
  ASSUME IInv, NEW gone, Remove(gone), mu = NoSession, UNCHANGED <<made, mu, trades>>,
         session' \in [Sessions -> {"closed", "reading", "closing"}]
  PROVE  /\ TypeOK' /\ BookConsistent' /\ Unfilled' /\ Apart' /\ Locked'
         /\ InBook' = InBook \ gone
<1>1. Shrunk /\ InBook' = InBook \ gone
  BY RemoveShrinks DEF InBook
<1>2. (\A n \in InBook : Same(n)) /\ \A n \in InBook' : made'[n].rem > 0
  BY <1>1 DEF IInv, Unfilled, Same
<1>3. Len(made) \in Nat
  BY DEF IInv, TypeOK
<1>4. /\ DOMAIN orders' \subseteq OrderIds /\ \A i \in DOMAIN orders' : orders'[i] \in Entered'
      /\ bids' \subseteq Entered' /\ asks' \subseteq Entered'
      /\ BookConsistent' /\ Unfilled' /\ Apart'
  BY <1>1, <1>2, <1>3, ShrunkKeepsBook
<1>5. TypeOK'
  BY <1>4 DEF IInv, TypeOK, Entered
<1>6. Locked'
  BY DEF Locked
<1>. QED
  BY <1>1, <1>4, <1>5, <1>6

\* A cancel takes one order out.
LEMMA HandleCancelStep ==
  ASSUME IInv, NEW s \in Sessions, NEW id \in OrderIds, HandleCancel(s, id)
  PROVE  IInv'
<1>1. /\ mu = NoSession /\ Remove({orders[id]}) /\ UNCHANGED <<made, mu, session, trades>>
  BY DEF HandleCancel
<1>2. session' \in [Sessions -> {"closed", "reading", "closing"}]
  BY <1>1 DEF IInv, TypeOK
<1>3. /\ TypeOK' /\ BookConsistent' /\ Unfilled' /\ Apart' /\ Locked'
      /\ InBook' = InBook \ {orders[id]}
  BY <1>1, <1>2, RemovalKeepsBook
<1>4. NoOrderWithoutSession'
  BY <1>1, <1>3 DEF IInv, NoOrderWithoutSession, InBook
<1>. QED
  BY <1>3, <1>4 DEF IInv

\* The end of a session takes out all of its orders.
LEMMA CancelSessionStep ==
  ASSUME IInv, NEW s \in Sessions, CancelSession(s)
  PROVE  IInv'
<1>1. /\ mu = NoSession /\ Remove(OwnedBy(s)) /\ UNCHANGED <<made, mu, trades>>
      /\ session' = [session EXCEPT ![s] = "closed"]
  BY DEF CancelSession
<1>2. session' \in [Sessions -> {"closed", "reading", "closing"}]
  BY <1>1 DEF IInv, TypeOK
<1>3. /\ TypeOK' /\ BookConsistent' /\ Unfilled' /\ Apart' /\ Locked'
      /\ InBook' = InBook \ OwnedBy(s)
  BY <1>1, <1>2, RemovalKeepsBook
<1>4. OwnedBy(s) = {n \in InBook : made[n].owner = s}
  BY DEF IInv, BookConsistent, OwnedBy, InBook
<1>5. \A n \in InBook : made[n].owner \in Sessions
  <2>1. \A n \in InBook : made[n] \in Order
    BY BookPositions, MadeTyped DEF IInv
  <2>. QED
    BY <2>1 DEF Order
<1>6. NoOrderWithoutSession'
  <2> SUFFICES ASSUME NEW n \in InBook' PROVE session'[made'[n].owner] # "closed"
    BY DEF NoOrderWithoutSession, InBook
  <2>1. n \in InBook /\ made[n].owner # s
    BY <1>3, <1>4
  <2>2. session'[made[n].owner] = session[made[n].owner]
    BY <1>1, <1>5, <2>1 DEF IInv, TypeOK
  <2>. QED
    BY <1>1, <2>1, <2>2 DEF IInv, NoOrderWithoutSession, InBook
<1>. QED
  BY <1>3, <1>6 DEF IInv

(* The session's state alone changes, and nobody's order is left behind.    *)
LEMMA SessionStep ==
  ASSUME IInv, NEW s \in Sessions, Connect(s) \/ ReadFails(s)
  PROVE  IInv'
<1>1. UNCHANGED <<made, orders, bids, asks, mu, trades>>
  BY DEF Connect, ReadFails
<1>2. \E at \in {"reading", "closing"} : session' = [session EXCEPT ![s] = at]
  BY DEF Connect, ReadFails
<1>3. mu # NoSession => mu \in Sessions /\ session'[mu] = "reading"
  <2>1. mu # NoSession => mu \in Sessions /\ session[mu] = "reading"
    BY DEF IInv, TypeOK, Locked
  <2>. QED
    BY <2>1 DEF IInv, TypeOK, Connect, ReadFails
<1>4. \A n \in InBook : made[n].owner \in Sessions
  <2>1. \A n \in InBook : made[n] \in Order
    BY BookPositions, MadeTyped DEF IInv
  <2>. QED
    BY <2>1 DEF Order
<1>5. TypeOK'
  BY <1>1, <1>2 DEF IInv, TypeOK, Entered
<1>6. BookConsistent' /\ Unfilled' /\ Apart'
  BY <1>1 DEF IInv, BookConsistent, Unfilled, Apart, InBook
<1>7. Locked'
  BY <1>1, <1>3 DEF IInv, Locked, InBook, Cur
<1>8. NoOrderWithoutSession'
  BY <1>1, <1>2, <1>4 DEF IInv, TypeOK, NoOrderWithoutSession, InBook
<1>. QED
  BY <1>5, <1>6, <1>7, <1>8 DEF IInv

-----------------------------------------------------------------------------
\* The book starts empty.
LEMMA InitIInv ==
  ASSUME Init
  PROVE  IInv
<1>1. /\ made = << >> /\ DOMAIN orders = {} /\ bids = {} /\ asks = {} /\ mu = NoSession
      /\ session \in [Sessions -> {"closed", "reading", "closing"}] /\ trades = {}
  BY DEF Init
<1>2. made \in Seq(Order) /\ Len(made) = 0
  BY <1>1
<1>3. TypeOK
  BY <1>1, <1>2, ConstantsAssumption DEF TypeOK
<1>4. BookConsistent /\ NoOrderWithoutSession /\ Locked /\ Unfilled /\ Apart
  BY <1>1 DEF BookConsistent, NoOrderWithoutSession, Locked, Unfilled, Apart, InBook
<1>. QED
  BY <1>3, <1>4 DEF IInv

\* Every step keeps the invariant.
LEMMA NextIInv ==
  ASSUME IInv, [Next]_vars
  PROVE  IInv'
<1>1. CASE UNCHANGED vars
  BY <1>1 DEF IInv, TypeOK, Entered, BookConsistent, NoOrderWithoutSession, Locked, Unfilled,
              Apart, InBook, Cur, vars
<1>2. CASE Next
  <2>1. ASSUME NEW s \in Sessions, NEW id \in OrderIds, NEW side \in {"buy", "sell"},
               NEW qty \in Quantities, NEW price \in Prices, PlaceOrder(s, id, side, "limit", price, qty)
        PROVE  IInv'
    BY <2>1, PlaceOrderStep
  <2>2. ASSUME NEW s \in Sessions, NEW id \in OrderIds, NEW side \in {"buy", "sell"},
               NEW qty \in Quantities, PlaceOrder(s, id, side, "market", 0, qty)
        PROVE  IInv'
    BY <2>2, PlaceOrderStep
  <2>. QED
    BY <1>2, <2>1, <2>2, MatchOneStep, FinishStep, HandleCancelStep, CancelSessionStep, SessionStep
       DEF Next
<1>. QED
  BY <1>1, <1>2

\* The inductive invariant holds of every reachable state.
THEOREM Invariance == Spec => []IInv
  BY InitIInv, NextIInv, PTL DEF Spec

\* Every variable keeps its type; no quantity goes below zero.
THEOREM TypeCorrect == Spec => []TypeOK
<1>1. IInv => TypeOK
  BY DEF IInv
<1>. QED
  BY <1>1, Invariance, PTL

\* match, rest and remove keep the id map and the two heaps in step, whatever the
\* orders, the sessions and their number (stub/main.go:191-274).
THEOREM StructuresAgree == Spec => []BookConsistent
<1>1. IInv => BookConsistent
  BY DEF IInv
<1>. QED
  BY <1>1, Invariance, PTL

\* What could have traded has, whenever the mutex is free (stub/main.go:195-242).
THEOREM NeverCrossed == Spec => []NotCrossed
<1>1. IInv => NotCrossed
  BY DEF IInv, Apart, NotCrossed
<1>. QED
  BY <1>1, Invariance, PTL

\* A session that is gone has left nothing in the book: cancelSession finds all it
\* owns through the id map (stub/main.go:276-290).
THEOREM SessionsLeaveNothing == Spec => []NoOrderWithoutSession
<1>1. IInv => NoOrderWithoutSession
  BY DEF IInv
<1>. QED
  BY <1>1, Invariance, PTL

-----------------------------------------------------------------------------
(* Sums.                                                                    *)

Units(f) == UNION {{x} \X (1..f[x]) : x \in DOMAIN f}

Summable(f) == IsFiniteSet(DOMAIN f) /\ \A x \in DOMAIN f : f[x] \in Nat

\* A sum is the number of its units.
LEMMA TotalIs ==
  ASSUME NEW f
  PROVE  Promise!Total(f) = Cardinality(Units(f))
  BY DEF Promise!Total, Units, Cardinality, Promise!Cardinality

\* One summand has as many units as its value.
LEMMA ColumnSize ==
  ASSUME NEW x, NEW n \in Nat
  PROVE  IsFiniteSet({x} \X (1..n)) /\ Cardinality({x} \X (1..n)) = n
<1>1. IsFiniteSet({x}) /\ Cardinality({x}) = 1
  BY FS_Singleton, Zenon
<1>2. IsFiniteSet(1..n) /\ Cardinality(1..n) = n
  <2>1. 1 \in Int /\ n \in Int /\ (IF 1 > n THEN 0 ELSE n - 1 + 1) = n
    OBVIOUS
  <2>2. IsFiniteSet(1..n) /\ Cardinality(1..n) = IF 1 > n THEN 0 ELSE n - 1 + 1
    BY <2>1, FS_Interval, Zenon
  <2>. QED
    BY <2>1, <2>2
<1>3. /\ IsFiniteSet({x} \X (1..n))
      /\ Cardinality({x} \X (1..n)) = Cardinality({x}) * Cardinality(1..n)
  BY <1>1, <1>2, FS_Product, Zenon
<1>. QED
  BY <1>1, <1>2, <1>3

\* Finitely many summands have finitely many units.
LEMMA UnitsAreFinite ==
  ASSUME NEW f, Summable(f)
  PROVE  IsFiniteSet(Units(f))
<1> DEFINE column == [x \in DOMAIN f |-> {x} \X (1..f[x])]
           Columns == {column[x] : x \in DOMAIN f}
<1>1. column \in Surjection(DOMAIN f, Columns)
  BY DEF Surjection
<1>2. IsFiniteSet(Columns)
  <2> HIDE DEF column, Columns
  <2>. QED
    BY <1>1, FS_Surjection DEF Summable
<1>3. ASSUME NEW x \in DOMAIN f
      PROVE  IsFiniteSet(column[x])
  <2>1. IsFiniteSet({x} \X (1..f[x]))
    BY <1>3, ColumnSize DEF Summable
  <2>. QED
    BY <2>1
<1>4. IsFiniteSet(UNION Columns)
  <2>1. \A T \in Columns : IsFiniteSet(T)
    BY <1>3
  <2> HIDE DEF column, Columns
  <2>. QED
    BY <1>2, <2>1, FS_UNION
<1>5. Units(f) = UNION Columns
  BY DEF Units
<1>. QED
  BY <1>4, <1>5

\* A sum of naturals is a natural.
LEMMA TotalType ==
  ASSUME NEW f, Summable(f)
  PROVE  Promise!Total(f) \in Nat
  BY TotalIs, UnitsAreFinite, FS_CardinalityType

\* The empty sum is zero.
LEMMA TotalOfNothing ==
  ASSUME NEW f, DOMAIN f = {}
  PROVE  Promise!Total(f) = 0
<1>1. Units(f) = {}
  BY DEF Units
<1>. QED
  BY <1>1, TotalIs, FS_EmptySet

\* A part of a sum is no more than the sum.
LEMMA TotalOfLess ==
  ASSUME NEW f, Summable(f), NEW g, DOMAIN g \subseteq DOMAIN f, \A x \in DOMAIN g : g[x] = f[x]
  PROVE  Promise!Total(g) <= Promise!Total(f)
<1>1. Units(g) \subseteq Units(f)
  BY DEF Units
<1>. QED
  BY <1>1, TotalIs, UnitsAreFinite, FS_Subset

\* One more summand adds its value.
LEMMA TotalOfMore ==
  ASSUME NEW f, Summable(f), NEW g, NEW m, m \notin DOMAIN f, DOMAIN g = DOMAIN f \cup {m},
         \A x \in DOMAIN f : g[x] = f[x], g[m] \in Nat
  PROVE  Promise!Total(g) = Promise!Total(f) + g[m]
<1> DEFINE Column == {m} \X (1..g[m])
<1>1. Units(g) = Units(f) \cup Column
  BY DEF Units
<1>2. Units(f) \cap Column = {}
  BY DEF Units
<1>3. IsFiniteSet(Column) /\ Cardinality(Column) = g[m]
  BY ColumnSize
<1>4. IsFiniteSet(Units(f)) /\ Cardinality(Units(f)) \in Nat
  BY UnitsAreFinite, FS_CardinalityType
<1>5. Cardinality(Units(f) \cup Column) = Cardinality(Units(f)) + g[m]
  <2>1. Cardinality(Units(f) \cap Column) = 0
    BY <1>2, FS_EmptySet
  <2>2. Cardinality(Units(f) \cup Column) =
          Cardinality(Units(f)) + Cardinality(Column) - Cardinality(Units(f) \cap Column)
    <3> HIDE DEF Column
    <3>. QED
      BY <1>3, <1>4, FS_Union, Zenon
  <2>. QED
    BY <1>3, <1>4, <2>1, <2>2
<1>. QED
  BY <1>1, <1>5, TotalIs
-----------------------------------------------------------------------------
(* Volumes of resting orders, and the closed form of a match.               *)

Sized(S) == IsFiniteSet(S) /\ \A e \in S : e.rem \in Nat

\* What a book looks like to PriceTimePriority.
Booked(b) ==
  /\ Sized(b)
  /\ \A e \in b : e.rem > 0 /\ e.price \in Nat /\ e.at \in Nat /\ e.side \in {"buy", "sell"}
  /\ \A e, f \in b : e.at = f.at => e = f

\* What comes before an order of D is in D.
Prefix(D, b, o) ==
  /\ D \subseteq Promise!Eligible(b, o)
  /\ \A e \in D, f \in Promise!Eligible(b, o) : Promise!Before(f, e) => f \in D

\* The volume of orders is a sum of naturals.
LEMMA VolumeIs ==
  ASSUME NEW S, Sized(S)
  PROVE  /\ Summable([e \in S |-> e.rem]) /\ Promise!Volume(S) \in Nat
         /\ Promise!Volume(S) = Promise!Total([e \in S |-> e.rem])
<1>1. Summable([e \in S |-> e.rem])
  BY DEF Sized, Summable
<1>2. Promise!Volume(S) = Promise!Total([e \in S |-> e.rem])
  BY DEF Promise!Volume
<1>. QED
  BY <1>1, <1>2, TotalType

\* No orders have no volume.
LEMMA VolumeOfNothing ==
  Promise!Volume({}) = 0
  BY TotalOfNothing DEF Promise!Volume

\* Some of the orders have no more volume than all.
LEMMA VolumeOfLess ==
  ASSUME NEW S, Sized(S), NEW T \in SUBSET S
  PROVE  Sized(T) /\ Promise!Volume(T) <= Promise!Volume(S)
<1>1. IsFiniteSet(T)
  BY FS_Subset DEF Sized
<1>2. Sized(T)
  BY <1>1 DEF Sized
<1>3. Promise!Total([e \in T |-> e.rem]) <= Promise!Total([e \in S |-> e.rem])
  BY VolumeIs, TotalOfLess
<1>. QED
  BY <1>2, <1>3, VolumeIs

\* One more order adds what is left of it.
LEMMA VolumeOfMore ==
  ASSUME NEW S, Sized(S), NEW m, m \notin S, m.rem \in Nat
  PROVE  /\ Sized(S \cup {m})
         /\ Promise!Volume(S \cup {m}) = Promise!Volume(S) + m.rem
<1>1. IsFiniteSet(S \cup {m})
  BY FS_AddElement DEF Sized
<1>2. Sized(S \cup {m})
  BY <1>1 DEF Sized
<1> DEFINE f == [e \in S |-> e.rem]
           g == [e \in S \cup {m} |-> e.rem]
<1>3. /\ DOMAIN f = S /\ DOMAIN g = DOMAIN f \cup {m} /\ g[m] = m.rem
      /\ \A x \in DOMAIN f : g[x] = f[x]
  OBVIOUS
<1>4. Summable(f) /\ Promise!Volume(S) = Promise!Total(f)
  BY VolumeIs
<1>5. Promise!Volume(S \cup {m}) = Promise!Total(g)
  BY <1>2, VolumeIs
<1> HIDE DEF f, g
<1>6. Promise!Total(g) = Promise!Total(f) + g[m]
  BY <1>3, <1>4, TotalOfMore
<1>. QED
  BY <1>2, <1>3, <1>4, <1>5, <1>6

\* Price and time order the eligible orders one after the other.
LEMMA BeforeOrders ==
  ASSUME NEW b, Booked(b), NEW o
  PROVE  LET E == Promise!Eligible(b, o)
         IN  /\ E \subseteq b
             /\ \A e \in E : ~Promise!Before(e, e)
             /\ \A e, f \in E : e = f \/ Promise!Before(e, f) \/ Promise!Before(f, e)
             /\ \A e, f, g \in E :
                  Promise!Before(e, f) /\ Promise!Before(f, g) => Promise!Before(e, g)
<1> DEFINE E == Promise!Eligible(b, o)
<1>1. E \subseteq b /\ \A e, f \in E : e.side = f.side
  BY DEF Promise!Eligible
<1>2. /\ \A e \in E : e.price \in Nat /\ e.at \in Nat
      /\ \A e, f \in E : e.at = f.at => e = f
  BY <1>1 DEF Booked
<1> HIDE DEF E
<1>3. \A e \in E : ~Promise!Before(e, e)
  BY <1>2 DEF Promise!Before
<1>4. \A e, f \in E : e = f \/ Promise!Before(e, f) \/ Promise!Before(f, e)
  BY <1>1, <1>2 DEF Promise!Before
<1>5. \A e, f, g \in E : Promise!Before(e, f) /\ Promise!Before(f, g) => Promise!Before(e, g)
  BY <1>1, <1>2 DEF Promise!Before
<1>. QED
  BY <1>1, <1>3, <1>4, <1>5 DEF E

\* The eligible orders that go before e.
Preceding(b, o, e) == {f \in Promise!Eligible(b, o) : Promise!Before(f, e)}

\* The volume ahead of an order is that of the orders before it.
LEMMA AheadIs ==
  ASSUME NEW b, Booked(b), NEW o, NEW e
  PROVE  /\ Promise!Ahead(b, o, e) \in Nat /\ Preceding(b, o, e) \in SUBSET b
         /\ Promise!Ahead(b, o, e) = Promise!Volume(Preceding(b, o, e))
<1>1. Preceding(b, o, e) \in SUBSET b
  BY DEF Promise!Eligible, Preceding
<1>2. Sized(Preceding(b, o, e))
  BY <1>1, VolumeOfLess DEF Booked
<1>3. Promise!Ahead(b, o, e) = Promise!Volume(Preceding(b, o, e))
  BY DEF Promise!Ahead, Preceding
<1>. QED
  BY <1>1, <1>2, <1>3, VolumeIs

\* An order that can use up the first of the eligible orders takes all of each.
LEMMA PrefixIsTaken ==
  ASSUME NEW b, Booked(b), NEW o, o.rem \in Nat, NEW D, Prefix(D, b, o),
         Promise!Volume(D) <= o.rem, NEW e \in D
  PROVE  Promise!Taken(b, o, e) = e.rem
<1> DEFINE A == Preceding(b, o, e)
<1>1. D \in SUBSET b /\ e \in Promise!Eligible(b, o) /\ Sized(b) /\ e.rem \in Nat /\ e.rem > 0
  BY DEF Prefix, Booked, Sized, Promise!Eligible
<1>2. A \in SUBSET b /\ A \cup {e} \in SUBSET D /\ e \notin A
  BY <1>1, BeforeOrders DEF Prefix, Preceding
<1>3. Promise!Ahead(b, o, e) \in Nat /\ Promise!Ahead(b, o, e) = Promise!Volume(A)
  BY AheadIs
<1> HIDE DEF A
<1>4. Sized(A) /\ Sized(D) /\ Promise!Volume(D) \in Nat
  BY <1>1, <1>2, VolumeOfLess, VolumeIs
<1>5. Promise!Volume(A \cup {e}) = Promise!Volume(A) + e.rem
  BY <1>1, <1>2, <1>4, VolumeOfMore
<1>6. Promise!Volume(A \cup {e}) <= Promise!Volume(D)
  BY <1>2, <1>4, VolumeOfLess
<1>7. Promise!Ahead(b, o, e) + e.rem <= o.rem
  BY <1>1, <1>3, <1>4, <1>5, <1>6
<1>. QED
  BY <1>1, <1>3, <1>7 DEF Promise!Taken

\* It takes of the next one what is left.
LEMMA NextIsTaken ==
  ASSUME NEW b, Booked(b), NEW o, o.rem \in Nat, NEW D, Prefix(D, b, o),
         NEW m \in Promise!Eligible(b, o), m \notin D,
         \A e \in Promise!Eligible(b, o) \ D : e = m \/ Promise!Before(m, e),
         Promise!Volume(D) < o.rem, o.rem <= Promise!Volume(D) + m.rem
  PROVE  /\ Promise!Taken(b, o, m) = o.rem - Promise!Volume(D)
         /\ \A e \in b \ D : e # m => Promise!Taken(b, o, e) = 0
         /\ Promise!Left(b, o) = 0
<1> DEFINE E == Promise!Eligible(b, o)
<1>1. D \in SUBSET b /\ D \subseteq E /\ E \in SUBSET b /\ Sized(b) /\ m \in b /\ m.rem \in Nat
  BY DEF Prefix, Booked, Sized, Promise!Eligible
<1>2. Sized(D) /\ Promise!Volume(D) \in Nat
  BY <1>1, VolumeOfLess, VolumeIs
<1>3. \A e \in b : /\ Promise!Ahead(b, o, e) \in Nat /\ Preceding(b, o, e) \in SUBSET b
                   /\ Promise!Ahead(b, o, e) = Promise!Volume(Preceding(b, o, e))
  BY AheadIs
<1>4. Preceding(b, o, m) = D
  <2>1. ASSUME NEW f \in D
        PROVE  Promise!Before(f, m)
    BY <1>1, BeforeOrders DEF Prefix
  <2>2. ASSUME NEW f \in E, f \notin D
        PROVE  ~Promise!Before(f, m)
    BY <2>2, BeforeOrders
  <2>. QED
    BY <1>1, <2>1, <2>2 DEF Preceding
<1>5. Promise!Taken(b, o, m) = o.rem - Promise!Volume(D)
  <2>1. Promise!Ahead(b, o, m) = Promise!Volume(D)
    BY <1>1, <1>3, <1>4
  <2>. QED
    BY <1>1, <1>2, <2>1 DEF Promise!Taken
<1>6. Sized(D \cup {m}) /\ Promise!Volume(D \cup {m}) = Promise!Volume(D) + m.rem
  BY <1>1, <1>2, VolumeOfMore
<1>7. ASSUME NEW S \in SUBSET b, D \cup {m} \subseteq S
      PROVE  Promise!Volume(S) \in Nat /\ o.rem <= Promise!Volume(S)
  <2>1. Sized(S) /\ Promise!Volume(S) \in Nat
    BY <1>1, VolumeOfLess, VolumeIs
  <2>2. Promise!Volume(D \cup {m}) <= Promise!Volume(S)
    BY <1>7, <2>1, VolumeOfLess
  <2>. QED
    BY <1>1, <1>2, <1>6, <2>1, <2>2
<1>8. ASSUME NEW e \in b, e \notin D, e # m
      PROVE  Promise!Taken(b, o, e) = 0
  <2>1. CASE e \notin E
    BY <2>1 DEF Promise!Taken
  <2>2. CASE e \in E
    <3>1. Promise!Before(m, e)
      BY <1>8, <2>2
    <3>2. D \cup {m} \subseteq Preceding(b, o, e)
      BY <1>1, <1>4, <2>2, <3>1, BeforeOrders DEF Preceding
    <3>3. o.rem <= Promise!Ahead(b, o, e)
      BY <1>3, <1>7, <3>2
    <3>. QED
      BY <3>3 DEF Promise!Taken
  <2>. QED
    BY <2>1, <2>2
<1>9. Promise!Left(b, o) = 0
  <2>1. o.rem <= Promise!Volume(E)
    BY <1>1, <1>7
  <2>. QED
    BY <2>1 DEF Promise!Left
<1>. QED
  BY <1>5, <1>8, <1>9

-----------------------------------------------------------------------------
(* The invariants.                                                          *)

\* The book and the order its holder came with, as they were when it took the mutex.
Seen == shown.resting
Incoming ==
  [id |-> made[Cur].id, side |-> made[Cur].side, kind |-> made[Cur].kind,
   price |-> made[Cur].price, rem |-> made[Cur].qty, at |-> Cur, owner |-> made[Cur].owner]

\* What is left by now of an order that was resting.
Rest(e) == made[e.at].rem

\* The book holds what is left of the orders that were resting.
Pictured ==
  /\ IsFiniteSet(Seen)
  /\ \A e \in Seen :
       /\ e.at \in 1..(Cur - 1) /\ e.rem \in Nat \ {0} /\ Rest(e) <= e.rem
       /\ e = [id |-> made[e.at].id, side |-> made[e.at].side, price |-> made[e.at].price,
               rem |-> e.rem, at |-> e.at, owner |-> made[e.at].owner]
       /\ e.id # made[Cur].id
  /\ \A e, f \in Seen : e.at = f.at => e = f
  /\ InBook = {e.at : e \in {f \in Seen : Rest(f) > 0}}

\* Each has traded once, with all that it has lost.
Sale(e) == [taker |-> Cur, maker |-> e.at, qty |-> e.rem - Rest(e), price |-> e.price]
Recorded == trades = shown.trades \cup {Sale(e) : e \in {f \in Seen : Rest(f) < f.rem}}

\* The loop has used up the first of the eligible orders; once the incoming order is
\* used up too, it has taken of each what the closed form says.
UsedUp == {e \in Promise!Eligible(Seen, Incoming) : Rest(e) = 0}
Halfway ==
  /\ Prefix(UsedUp, Seen, Incoming)
  /\ \A e \in Seen \ UsedUp : Rest(e) = e.rem
  /\ made[Cur].qty = made[Cur].rem + Promise!Volume(UsedUp)
Through ==
  /\ \A e \in Seen : e.rem - Rest(e) = Promise!Taken(Seen, Incoming, e)
  /\ Promise!Left(Seen, Incoming) = made[Cur].rem

Matching ==
  mu # NoSession => Pictured /\ Recorded /\ IF made[Cur].rem > 0 THEN Halfway ELSE Through

\* A market order has no price.
Priced ==
  \A n \in Entered :
    IF made[n].kind = "market" THEN made[n].price = 0 ELSE made[n].price \in Prices

RInv == IInv /\ Priced /\ Matching

\* An order trades with another once, until one of them is used up.
OnceEach ==
  mu # NoSession /\ made[Cur].rem > 0 =>
    \A t \in trades : t.taker = Cur => t.maker \notin InBook

Summed == IsFiniteSet(trades) /\ QuantityConserved

QInv == IInv /\ OnceEach /\ Summed
-----------------------------------------------------------------------------
(* The book under a lock.                                                   *)

\* What the picture says of one order, field by field.
LEMMA SeenFields ==
  ASSUME IInv, mu # NoSession, Pictured, NEW e \in Seen
  PROVE  /\ e.at \in 1..Len(made) /\ e.at # Cur
         /\ e.id = made[e.at].id /\ e.side = made[e.at].side
         /\ e.price = made[e.at].price /\ e.owner = made[e.at].owner
         /\ e.rem \in Nat /\ e.rem > 0 /\ Rest(e) \in Nat /\ Rest(e) <= e.rem
         /\ e.price \in Nat /\ e.side \in {"buy", "sell"}
         /\ Rest(e) > 0 <=> e.at \in InBook
<1>1. /\ e.at \in 1..(Cur - 1) /\ e.rem \in Nat \ {0} /\ Rest(e) <= e.rem
      /\ e = [id |-> made[e.at].id, side |-> made[e.at].side, price |-> made[e.at].price,
              rem |-> e.rem, at |-> e.at, owner |-> made[e.at].owner]
  BY DEF Pictured
<1>2. e.at \in 1..Len(made) /\ e.at # Cur
  <2>1. Len(made) \in Nat /\ Cur = Len(made)
    BY DEF IInv, TypeOK, Cur
  <2>. QED
    BY <1>1, <2>1
<1>3. made[e.at] \in Order /\ made[e.at].price \in Nat /\ made[e.at].rem \in Nat
  BY <1>2, MadeTyped DEF IInv
<1>4. made[e.at].side \in {"buy", "sell"}
  BY <1>3 DEF Order
<1>5. /\ e.id = made[e.at].id /\ e.side = made[e.at].side
      /\ e.price = made[e.at].price /\ e.owner = made[e.at].owner
  BY <1>1
<1>6. Rest(e) > 0 <=> e.at \in InBook
  <2>1. e.at \in InBook <=> \E f \in Seen : Rest(f) > 0 /\ f.at = e.at
    BY DEF Pictured
  <2>2. \A f \in Seen : f.at = e.at => f = e
    BY DEF Pictured
  <2>. QED
    BY <2>1, <2>2
<1>. QED
  BY <1>1, <1>2, <1>3, <1>4, <1>5, <1>6 DEF Rest

\* It is a book.
LEMMA SeenIsBooked ==
  ASSUME IInv, mu # NoSession, Pictured
  PROVE  Booked(Seen)
<1>1. \A e \in Seen : /\ e.rem \in Nat /\ e.rem > 0 /\ e.price \in Nat /\ e.at \in Nat
                      /\ e.side \in {"buy", "sell"}
  BY SeenFields
<1>2. IsFiniteSet(Seen) /\ \A e, f \in Seen : e.at = f.at => e = f
  BY DEF Pictured
<1>. QED
  BY <1>1, <1>2 DEF Booked, Sized

\* The order being matched.
LEMMA IncomingFields ==
  ASSUME IInv, mu # NoSession
  PROVE  /\ Cur \in 1..Len(made) /\ Cur \notin InBook
         /\ made[Cur].side \in {"buy", "sell"} /\ made[Cur].kind \in {"limit", "market"}
         /\ made[Cur].price \in Nat /\ made[Cur].rem \in Nat
         /\ made[Cur].qty \in Quantities /\ made[Cur].qty \in Nat
         /\ made[Cur].id \in OrderIds /\ made[Cur].owner \in Sessions
         /\ Incoming.side = made[Cur].side /\ Incoming.kind = made[Cur].kind
         /\ Incoming.price = made[Cur].price /\ Incoming.rem = made[Cur].qty
         /\ Incoming.id = made[Cur].id /\ Incoming.at = Cur /\ Incoming.owner = made[Cur].owner
<1>1. Len(made) \in Nat /\ Len(made) > 0 /\ Cur \notin InBook
  BY DEF IInv, TypeOK, Locked
<1>2. Cur \in 1..Len(made)
  BY <1>1 DEF Cur
<1>3. made[Cur] \in Order /\ made[Cur].price \in Nat /\ made[Cur].rem \in Nat
  BY <1>2, MadeTyped DEF IInv
<1>4. /\ made[Cur].side \in {"buy", "sell"} /\ made[Cur].kind \in {"limit", "market"}
      /\ made[Cur].qty \in Quantities /\ made[Cur].id \in OrderIds /\ made[Cur].owner \in Sessions
  BY <1>3 DEF Order
<1>5. made[Cur].qty \in Nat
  BY <1>4, ConstantsAssumption
<1>. QED
  BY <1>1, <1>2, <1>3, <1>4, <1>5 DEF Incoming

\* An eligible order with something left is in the heap of the other side.
LEMMA EligibleInHeap ==
  ASSUME IInv, mu # NoSession, Pictured,
         NEW e \in Promise!Eligible(Seen, Incoming), Rest(e) > 0
  PROVE  /\ Buying => e.at \in asks /\ e.side = "sell"
         /\ ~Buying => e.at \in bids /\ e.side = "buy"
         /\ made[Cur].kind = "market" \/ PriceMeets(made[e.at].price)
<1>1. /\ e \in Seen /\ e.side = Promise!Opposite(made[Cur].side)
      /\ made[Cur].kind = "market" \/ Promise!Within(made[Cur].side, e.price, made[Cur].price)
  BY IncomingFields DEF Promise!Eligible
<1>2. /\ e.at \in InBook /\ e.side = made[e.at].side /\ e.price = made[e.at].price
      /\ e.price \in Nat /\ made[Cur].price \in Nat /\ made[Cur].side \in {"buy", "sell"}
  BY <1>1, SeenFields, IncomingFields
<1>3. (\A n \in bids : made[n].side = "buy") /\ (\A n \in asks : made[n].side = "sell")
  BY DEF IInv, BookConsistent
<1>4. CASE Buying
  <2>1. e.side = "sell"
    BY <1>1, <1>4 DEF Buying, Promise!Opposite
  <2>2. e.at \in asks
    BY <1>2, <1>3, <2>1 DEF InBook
  <2>. QED
    BY <1>1, <1>2, <1>4, <2>1, <2>2 DEF Buying, PriceMeets, Promise!Within
<1>5. CASE ~Buying
  <2>1. e.side = "buy"
    BY <1>1, <1>2, <1>5 DEF Buying, Promise!Opposite
  <2>2. e.at \in bids
    BY <1>2, <1>3, <2>1 DEF InBook
  <2>. QED
    BY <1>1, <1>2, <1>5, <2>1, <2>2 DEF Buying, PriceMeets, Promise!Within
<1>. QED
  BY <1>4, <1>5

\* The heap's best order is the first of the eligible ones that are left.
LEMMA BestIsNext ==
  ASSUME IInv, mu # NoSession, Pictured, CanMatch
  PROVE  \E m \in Promise!Eligible(Seen, Incoming) :
           /\ m.at = BestOpposite /\ Rest(m) > 0
           /\ \A e \in Promise!Eligible(Seen, Incoming) :
                Rest(e) > 0 => e = m \/ Promise!Before(m, e)
<1>1. BestOpposite \in InBook
  BY BestInBook
<1>2. PICK m \in Seen : Rest(m) > 0 /\ m.at = BestOpposite
  BY <1>1 DEF Pictured
<1>3. m.side = made[m.at].side /\ m.price = made[m.at].price /\ m.price \in Nat
  BY SeenFields
<1>4. /\ made[Cur].side \in {"buy", "sell"} /\ made[Cur].price \in Nat
      /\ made[Cur].kind = "market" \/ PriceMeets(m.price)
  BY <1>2, <1>3, IncomingFields DEF CanMatch
<1>5. m \in Promise!Eligible(Seen, Incoming)
  <2>1. (\A n \in bids : made[n].side = "buy") /\ (\A n \in asks : made[n].side = "sell")
    BY DEF IInv, BookConsistent
  <2>2. CASE Buying
    <3>1. m.side = "sell"
      BY <1>2, <1>3, <2>1, <2>2, BestAskIsFirst DEF CanMatch, BestOpposite, IInv
    <3>. QED
      BY <1>3, <1>4, <2>2, <3>1, IncomingFields
         DEF Buying, PriceMeets, Promise!Eligible, Promise!Opposite, Promise!Within
  <2>3. CASE ~Buying
    <3>1. m.side = "buy"
      BY <1>2, <1>3, <2>1, <2>3, BestBidIsFirst DEF CanMatch, BestOpposite, IInv
    <3>. QED
      BY <1>3, <1>4, <2>3, <3>1, IncomingFields
         DEF Buying, PriceMeets, Promise!Eligible, Promise!Opposite, Promise!Within
  <2>. QED
    BY <2>2, <2>3
<1>6. ASSUME NEW e \in Promise!Eligible(Seen, Incoming), Rest(e) > 0, e # m
      PROVE  Promise!Before(m, e)
  <2>1. e \in Seen
    BY DEF Promise!Eligible
  <2>2. e.at # m.at
    BY <1>2, <1>6, <2>1 DEF Pictured
  <2>3. e.price = made[e.at].price /\ e.price \in Nat
    BY <2>1, SeenFields
  <2>4. CASE Buying
    <3>1. e.at \in asks \ {BestAsk} /\ AskLess(BestAsk, e.at) /\ m.at = BestAsk
      BY <1>2, <1>6, <2>2, <2>4, EligibleInHeap, BestAskIsFirst DEF CanMatch, BestOpposite, IInv
    <3>2. m.side = "sell"
      BY <1>2, <1>5, <2>4, EligibleInHeap
    <3>. QED
      BY <1>3, <2>3, <3>1, <3>2 DEF AskLess, Promise!Before
  <2>5. CASE ~Buying
    <3>1. e.at \in bids \ {BestBid} /\ BidLess(BestBid, e.at) /\ m.at = BestBid
      BY <1>2, <1>6, <2>2, <2>5, EligibleInHeap, BestBidIsFirst DEF CanMatch, BestOpposite, IInv
    <3>2. m.side = "buy"
      BY <1>2, <1>5, <2>5, EligibleInHeap
    <3>. QED
      BY <1>3, <2>3, <3>1, <3>2 DEF BidLess, Promise!Before
  <2>. QED
    BY <2>4, <2>5
<1>. QED
  BY <1>2, <1>5, <1>6

\* A loop that stops with something to match has used up all of them.
LEMMA NoneLeft ==
  ASSUME IInv, mu # NoSession, Pictured, ~CanMatch, made[Cur].rem > 0
  PROVE  \A e \in Promise!Eligible(Seen, Incoming) : Rest(e) = 0
<1> SUFFICES ASSUME NEW e \in Promise!Eligible(Seen, Incoming), Rest(e) # 0
             PROVE  FALSE
  OBVIOUS
<1>1. e \in Seen
  BY DEF Promise!Eligible
<1>2. Rest(e) > 0 /\ e.at \in 1..Len(made) /\ made[e.at].price \in Nat /\ made[Cur].price \in Nat
  <2>1. Rest(e) \in Nat /\ e.at \in 1..Len(made)
    BY <1>1, SeenFields
  <2>. QED
    BY <2>1, MadeTyped, IncomingFields DEF IInv
<1>3. CASE Buying
  <2>1. e.at \in asks /\ (made[Cur].kind = "market" \/ PriceMeets(made[e.at].price))
    BY <1>2, <1>3, EligibleInHeap
  <2>2. BestAsk \in asks /\ made[BestAsk].price <= made[e.at].price
    BY <2>1, BestAskIsFirst DEF IInv
  <2>3. made[BestAsk].price \in Nat
    BY <2>2, BookPositions, MadeTyped DEF IInv, InBook
  <2>. QED
    BY <1>2, <1>3, <2>1, <2>2, <2>3 DEF CanMatch, BestOpposite, PriceMeets
<1>4. CASE ~Buying
  <2>1. e.at \in bids /\ (made[Cur].kind = "market" \/ PriceMeets(made[e.at].price))
    BY <1>2, <1>4, EligibleInHeap
  <2>2. BestBid \in bids /\ made[e.at].price <= made[BestBid].price
    BY <2>1, BestBidIsFirst DEF IInv
  <2>3. made[BestBid].price \in Nat
    BY <2>2, BookPositions, MadeTyped DEF IInv, InBook
  <2>. QED
    BY <1>2, <1>4, <2>1, <2>2, <2>3 DEF CanMatch, BestOpposite, PriceMeets
<1>. QED
  BY <1>3, <1>4
-----------------------------------------------------------------------------
(* The steps under the lock.                                                *)

\* What a turn of the loop leaves as it was.
LEMMA MatchOneFrame ==
  ASSUME IInv, NEW s \in Sessions, MatchOne(s)
  PROVE  /\ mu = s /\ mu # NoSession /\ mu' = mu /\ CanMatch /\ made[Cur].rem > 0
         /\ shown' = shown /\ Seen' = Seen /\ Cur' = Cur /\ Incoming' = Incoming
         /\ made'[Cur].qty = made[Cur].qty /\ made'[Cur].id = made[Cur].id
<1>1. mu = s /\ mu # NoSession /\ mu' = mu /\ CanMatch /\ shown' = shown
  BY ConstantsAssumption DEF MatchOne
<1>2. Cur \in 1..Len(made) /\ Len(made') = Len(made) /\ Same(Cur)
  BY FillEffect
<1>3. Cur' = Cur
  BY <1>2 DEF Cur
<1>4. Incoming' = Incoming
  BY <1>2, <1>3 DEF Incoming, Same
<1>. QED
  BY <1>1, <1>2, <1>3, <1>4 DEF Seen, CanMatch, Same

\* It fills one of the orders seen, the first of the eligible ones left, and no other.
LEMMA MatchOneRests ==
  ASSUME IInv, NEW s \in Sessions, MatchOne(s), Pictured, Halfway
  PROVE  \E m \in Promise!Eligible(Seen, Incoming) \ UsedUp :
           /\ m \in Seen /\ m.at = BestOpposite /\ Rest(m) = m.rem
           /\ m.rem \in Nat /\ m.rem > 0 /\ MatchedQty \in Nat /\ MatchedQty > 0
           /\ MatchedQty = made[Cur].rem \/ MatchedQty = m.rem
           /\ MatchedQty <= made[Cur].rem /\ MatchedQty <= m.rem
           /\ made'[Cur].rem = made[Cur].rem - MatchedQty
           /\ made'[m.at].rem = m.rem - MatchedQty
           /\ \A e \in Seen : e # m => made'[e.at].rem = Rest(e)
           /\ \A e \in Promise!Eligible(Seen, Incoming) \ UsedUp : e = m \/ Promise!Before(m, e)
<1>1. mu # NoSession /\ CanMatch /\ made[Cur].rem > 0
  BY MatchOneFrame
<1>2. PICK m \in Promise!Eligible(Seen, Incoming) :
        /\ m.at = BestOpposite /\ Rest(m) > 0
        /\ \A e \in Promise!Eligible(Seen, Incoming) :
             Rest(e) > 0 => e = m \/ Promise!Before(m, e)
  BY <1>1, BestIsNext
<1>3. m \in Seen /\ m \notin UsedUp
  BY <1>2 DEF Promise!Eligible, UsedUp
<1>4. Rest(m) = m.rem /\ made[m.at].rem = m.rem /\ m.rem \in Nat /\ m.rem > 0
  BY <1>1, <1>3, SeenFields DEF Halfway, Rest
<1>5. /\ MatchedQty \in Nat /\ MatchedQty <= made[Cur].rem /\ MatchedQty <= m.rem
      /\ made'[Cur].rem = made[Cur].rem - MatchedQty
      /\ made'[m.at].rem = m.rem - MatchedQty
      /\ \A n \in 1..Len(made) : n # Cur /\ n # m.at => made'[n].rem = made[n].rem
  BY <1>2, <1>4, FillEffect
<1>6. MatchedQty = made[Cur].rem \/ MatchedQty = m.rem
  BY <1>2, <1>4 DEF MatchedQty
<1>7. MatchedQty > 0
  BY <1>1, <1>4, <1>6
<1>8. ASSUME NEW e \in Seen, e # m
      PROVE  made'[e.at].rem = Rest(e)
  <2>1. e.at # m.at /\ e.at # Cur /\ e.at \in 1..Len(made)
    BY <1>1, <1>3, <1>8, SeenFields DEF Pictured
  <2>. QED
    BY <1>5, <2>1 DEF Rest
<1>9. \A e \in Promise!Eligible(Seen, Incoming) \ UsedUp : e = m \/ Promise!Before(m, e)
  <2> SUFFICES ASSUME NEW e \in Promise!Eligible(Seen, Incoming), e \notin UsedUp
               PROVE  e = m \/ Promise!Before(m, e)
    OBVIOUS
  <2>1. e \in Seen /\ Rest(e) # 0
    BY DEF Promise!Eligible, UsedUp
  <2>2. Rest(e) > 0
    BY <1>1, <2>1, SeenFields
  <2>. QED
    BY <1>2, <2>2
<1>. QED
  BY <1>2, <1>3, <1>4, <1>5, <1>6, <1>7, <1>8, <1>9

\* The book still holds what is left.
LEMMA MatchOnePictured ==
  ASSUME IInv, NEW s \in Sessions, MatchOne(s), Pictured, Halfway
  PROVE  Pictured'
<1>1. PICK m \in Seen :
        /\ m.at = BestOpposite /\ Rest(m) = m.rem /\ made[m.at].rem = m.rem
        /\ m.rem \in Nat /\ MatchedQty \in Nat /\ MatchedQty <= m.rem
        /\ made'[m.at].rem = m.rem - MatchedQty
        /\ \A e \in Seen : e # m => made'[e.at].rem = Rest(e)
  BY MatchOneRests DEF Rest
<1>2. /\ mu # NoSession /\ Seen' = Seen /\ Cur' = Cur /\ made'[Cur].id = made[Cur].id
      /\ BestOpposite \in InBook /\ \A n \in 1..Len(made) : Same(n)
  BY MatchOneFrame, FillEffect
<1>3. \A e \in Seen : made'[e.at].rem <= e.rem
  BY <1>1, <1>2, SeenFields
<1>4. \A e \in Seen :
        /\ e.at \in 1..(Cur - 1) /\ e.rem \in Nat \ {0}
        /\ e = [id |-> made'[e.at].id, side |-> made'[e.at].side, price |-> made'[e.at].price,
                rem |-> e.rem, at |-> e.at, owner |-> made'[e.at].owner]
        /\ e.id # made'[Cur].id
  <2> SUFFICES ASSUME NEW e \in Seen
               PROVE  /\ e.at \in 1..(Cur - 1) /\ e.rem \in Nat \ {0}
                      /\ e = [id |-> made'[e.at].id, side |-> made'[e.at].side,
                              price |-> made'[e.at].price, rem |-> e.rem, at |-> e.at,
                              owner |-> made'[e.at].owner]
                      /\ e.id # made'[Cur].id
    OBVIOUS
  <2>1. Same(e.at)
    BY <1>2, SeenFields
  <2>. QED
    BY <1>2, <2>1 DEF Pictured, Same
<1>5. InBook' = IF m.rem = MatchedQty THEN InBook \ {m.at} ELSE InBook
  <2>1. CASE m.rem = MatchedQty
    <3>1. Remove({m.at})
      BY <1>1, <2>1 DEF MatchOne
    <3>. QED
      BY <2>1, <3>1, RemoveShrinks DEF InBook
  <2>2. CASE m.rem # MatchedQty
    BY <1>1, <2>2 DEF MatchOne, InBook
  <2>. QED
    BY <2>1, <2>2
<1>6. \A n : n \in InBook' <=> \E e \in Seen : made'[e.at].rem > 0 /\ n = e.at
  <2>1. \A n : n \in InBook <=> \E e \in Seen : Rest(e) > 0 /\ n = e.at
    BY DEF Pictured
  <2>2. \A e \in Seen : e.at = m.at => e = m
    BY DEF Pictured
  <2>3. m.rem = MatchedQty <=> ~(made'[m.at].rem > 0)
    BY <1>1
  <2>. QED
    BY <1>1, <1>2, <1>5, <2>1, <2>2, <2>3
<1>7. InBook' = {e.at : e \in {f \in Seen : made'[f.at].rem > 0}}
  BY <1>6
<1>8. IsFiniteSet(Seen) /\ \A e, f \in Seen : e.at = f.at => e = f
  BY DEF Pictured
<1>. QED
  BY <1>2, <1>3, <1>4, <1>7, <1>8 DEF Pictured, Rest

\* Its trade is the sale of the order it fills.
LEMMA MatchOneRecorded ==
  ASSUME IInv, NEW s \in Sessions, MatchOne(s), Pictured, Recorded, Halfway
  PROVE  Recorded'
<1>1. PICK m \in Seen :
        /\ m.at = BestOpposite /\ Rest(m) = m.rem
        /\ m.rem \in Nat /\ MatchedQty \in Nat /\ MatchedQty > 0 /\ MatchedQty <= m.rem
        /\ made'[m.at].rem = m.rem - MatchedQty
        /\ \A e \in Seen : e # m => made'[e.at].rem = Rest(e)
  BY MatchOneRests
<1>2. /\ mu # NoSession /\ shown' = shown /\ Seen' = Seen /\ Cur' = Cur
      /\ m.price = made[m.at].price
  BY MatchOneFrame, SeenFields
<1> DEFINE t == [taker |-> Cur, maker |-> m.at, qty |-> MatchedQty, price |-> m.price]
           sale(e) == [taker |-> Cur, maker |-> e.at, qty |-> e.rem - made'[e.at].rem,
                       price |-> e.price]
<1>3. trades' = trades \cup {t}
  BY <1>1, <1>2 DEF MatchOne
<1>4. made'[m.at].rem < m.rem /\ sale(m) = t
  BY <1>1
<1>5. \A e \in Seen : e # m => sale(e) = Sale(e) /\ (made'[e.at].rem < e.rem <=> Rest(e) < e.rem)
  BY <1>1 DEF Sale
<1>6. ~(Rest(m) < m.rem)
  BY <1>1
<1> HIDE DEF t, sale
<1>7. {sale(e) : e \in {f \in Seen : made'[f.at].rem < f.rem}} =
        {Sale(e) : e \in {f \in Seen : Rest(f) < f.rem}} \cup {t}
  <2>1. ASSUME NEW e \in Seen, made'[e.at].rem < e.rem
        PROVE  sale(e) = t \/ (Rest(e) < e.rem /\ sale(e) = Sale(e))
    BY <1>4, <1>5, <2>1
  <2>2. ASSUME NEW e \in Seen, Rest(e) < e.rem
        PROVE  made'[e.at].rem < e.rem /\ Sale(e) = sale(e)
    BY <1>5, <1>6, <2>2
  <2>. QED
    BY <1>4, <2>1, <2>2
<1>8. trades' = shown.trades \cup {sale(e) : e \in {f \in Seen : made'[f.at].rem < f.rem}}
  BY <1>3, <1>7 DEF Recorded
<1>. QED
  BY <1>2, <1>8 DEF Recorded, Sale, Rest, sale

\* Either it uses up one more resting order, or the incoming one.
LEMMA MatchOneProgress ==
  ASSUME IInv, NEW s \in Sessions, MatchOne(s), Pictured, Halfway
  PROVE  IF made'[Cur].rem > 0 THEN Halfway' ELSE Through'
<1> DEFINE b == Seen
           o == Incoming
           E == Promise!Eligible(b, o)
           D == UsedUp
           q == MatchedQty
<1>1. PICK m \in E \ D :
           /\ m \in b /\ m.at = BestOpposite /\ Rest(m) = m.rem
           /\ m.rem \in Nat /\ m.rem > 0 /\ q \in Nat /\ q > 0
           /\ q = made[Cur].rem \/ q = m.rem
           /\ q <= made[Cur].rem /\ q <= m.rem
           /\ made'[Cur].rem = made[Cur].rem - q
           /\ made'[m.at].rem = m.rem - q
           /\ \A e \in b : e # m => made'[e.at].rem = Rest(e)
           /\ \A e \in E \ D : e = m \/ Promise!Before(m, e)
  BY MatchOneRests
<1>2. /\ mu # NoSession /\ Seen' = b /\ Cur' = Cur /\ Incoming' = o
      /\ made[Cur].rem > 0 /\ made'[Cur].qty = made[Cur].qty
  BY MatchOneFrame
<1>3. Booked(b) /\ o.rem = made[Cur].qty /\ o.rem \in Nat /\ made[Cur].rem \in Nat
  BY <1>2, SeenIsBooked, IncomingFields
<1>4. /\ Prefix(D, b, o) /\ \A e \in b \ D : Rest(e) = e.rem
      /\ o.rem = made[Cur].rem + Promise!Volume(D)
  BY <1>3 DEF Halfway
<1>5. D \in SUBSET b /\ D \subseteq E /\ E \subseteq b /\ \A e \in D : Rest(e) = 0
  BY DEF UsedUp, Promise!Eligible
<1>6. Sized(D) /\ Promise!Volume(D) \in Nat
  BY <1>3, <1>5, VolumeOfLess, VolumeIs DEF Booked
<1>7. UsedUp' = {e \in E : made'[e.at].rem = 0}
  BY <1>2 DEF UsedUp, Rest
<1> HIDE DEF b, o, E, D, q
<1>8. CASE made'[Cur].rem > 0
  <2>1. q = m.rem /\ made'[m.at].rem = 0
    BY <1>1, <1>2, <1>3, <1>8
  <2>2. UsedUp' = D \cup {m}
    <3>1. \A e \in E : e # m => (made'[e.at].rem = 0 <=> e \in D)
      BY <1>1, <1>5 DEF D, E, b, o, UsedUp
    <3>. QED
      BY <1>1, <1>5, <1>7, <2>1, <3>1
  <2>3. Prefix(D \cup {m}, b, o)
    <3>1. ASSUME NEW e \in D \cup {m}, NEW f \in E, Promise!Before(f, e)
          PROVE  f \in D \cup {m}
      <4>1. CASE e \in D
        BY <1>4, <3>1, <4>1 DEF Prefix, E
      <4>2. CASE e = m
        BY <1>1, <1>3, <3>1, <4>2, BeforeOrders DEF E
      <4>. QED
        BY <4>1, <4>2
    <3>. QED
      BY <1>1, <1>5, <3>1 DEF Prefix, E
  <2>4. Promise!Volume(D \cup {m}) = Promise!Volume(D) + m.rem
    BY <1>1, <1>6, VolumeOfMore
  <2>5. made'[Cur].qty = made'[Cur].rem + Promise!Volume(D \cup {m})
    BY <1>1, <1>2, <1>3, <1>4, <1>6, <2>1, <2>4
  <2>6. \A e \in b \ (D \cup {m}) : made'[e.at].rem = e.rem
    BY <1>1, <1>4
  <2>. QED
    BY <1>2, <1>8, <2>2, <2>3, <2>5, <2>6 DEF Halfway, Rest, b, o
<1>9. CASE ~(made'[Cur].rem > 0)
  <2>1. q = made[Cur].rem /\ made'[Cur].rem = 0
    BY <1>1, <1>3, <1>9
  <2>2. Promise!Volume(D) < o.rem /\ o.rem <= Promise!Volume(D) + m.rem /\ Promise!Volume(D) <= o.rem
    BY <1>1, <1>2, <1>3, <1>4, <1>6, <2>1
  <2>3. /\ Promise!Taken(b, o, m) = o.rem - Promise!Volume(D)
        /\ \A e \in b \ D : e # m => Promise!Taken(b, o, e) = 0
        /\ Promise!Left(b, o) = 0
    BY <1>1, <1>3, <1>4, <2>2, NextIsTaken DEF E
  <2>4. \A e \in D : Promise!Taken(b, o, e) = e.rem
    BY <1>3, <1>4, <2>2, PrefixIsTaken
  <2>5. \A e \in b : e.rem \in Nat
    BY <1>3 DEF Booked, Sized
  <2>6. ASSUME NEW e \in b
        PROVE  e.rem - made'[e.at].rem = Promise!Taken(b, o, e)
    <3>1. CASE e = m
      BY <1>1, <1>3, <1>4, <1>6, <2>1, <2>3, <3>1
    <3>2. CASE e \in D
      <4>1. made'[e.at].rem = 0
        BY <1>1, <1>5, <3>2
      <4>. QED
        BY <2>4, <2>5, <3>2, <4>1
    <3>3. CASE e # m /\ e \notin D
      <4>1. made'[e.at].rem = e.rem
        BY <1>1, <1>4, <3>3
      <4>. QED
        BY <2>3, <2>5, <3>3, <4>1
    <3>. QED
      BY <3>1, <3>2, <3>3
  <2>. QED
    BY <1>2, <1>9, <2>1, <2>3, <2>6 DEF Through, Rest, b, o
<1>. QED
  BY <1>8, <1>9
\* What the clients see of a resting order.
Picture(n) ==
  [id |-> made[n].id, side |-> made[n].side, price |-> made[n].price, rem |-> made[n].rem,
   at |-> n, owner |-> made[n].owner]

\* The resting orders are finitely many, one for each position in the heaps.
LEMMA RestingIs ==
  ASSUME IInv
  PROVE  /\ Resting = {Picture(n) : n \in InBook} /\ IsFiniteSet(Resting)
         /\ \A n \in InBook : Picture(n).at = n /\ Picture(n).rem = made[n].rem
<1>1. Resting = {Picture(n) : n \in InBook}
  BY DEF Resting, Picture, InBook
<1>2. \A n \in InBook : Picture(n).at = n /\ Picture(n).rem = made[n].rem
  BY DEF Picture
<1>3. InBook \subseteq 1..Len(made) /\ Len(made) \in Int /\ 1 \in Int
  BY BookPositions DEF IInv, TypeOK
<1>4. IsFiniteSet(1..Len(made))
  BY <1>3, FS_Interval, Zenon
<1>5. IsFiniteSet(InBook)
  BY <1>3, <1>4, FS_Subset, Zenon
<1> DEFINE picture == [n \in InBook |-> Picture(n)]
<1>6. picture \in Surjection(InBook, Resting)
  BY <1>1 DEF Surjection
<1> HIDE DEF picture
<1>7. IsFiniteSet(Resting)
  BY <1>5, <1>6, FS_Surjection
<1>. QED
  BY <1>1, <1>2, <1>7

\* A new order is shown the book as it is, and nothing of it has traded yet.
LEMMA PlaceOrderMatching ==
  ASSUME IInv, NEW s \in Sessions, NEW id \in OrderIds, NEW side \in {"buy", "sell"},
         NEW kind \in {"limit", "market"}, NEW price \in Prices \cup {0}, NEW qty \in Quantities,
         PlaceOrder(s, id, side, kind, price, qty)
  PROVE  Matching'
<1> DEFINE o == [id |-> id, side |-> side, kind |-> kind, price |-> price, qty |-> qty,
                 rem |-> qty, owner |-> s]
<1>1. /\ shown' = [resting |-> Resting, trades |-> trades] /\ made' = Append(made, o)
      /\ id \notin DOMAIN orders /\ UNCHANGED <<orders, bids, asks, trades>>
  BY DEF PlaceOrder
<1>2. Seen' = Resting /\ shown'.trades = trades /\ InBook' = InBook
  BY <1>1 DEF Seen, InBook
<1>3. made \in Seq(Order) /\ Len(made) \in Nat
  BY DEF IInv, TypeOK
<1>4. /\ Cur' = Len(made) + 1 /\ made'[Len(made) + 1] = o
      /\ \A n \in 1..Len(made) : made'[n] = made[n]
  <2>1. o \in Order
    BY ConstantsAssumption DEF Order
  <2> HIDE DEF o
  <2>. QED
    BY <1>1, <1>3, <2>1 DEF Cur
<1>5. made'[Cur'].id = id /\ made'[Cur'].rem = qty /\ made'[Cur'].qty = qty
  BY <1>4
<1>6. qty \in Nat /\ qty > 0
  BY ConstantsAssumption
<1>7. /\ Resting = {Picture(n) : n \in InBook} /\ IsFiniteSet(Resting)
      /\ \A n \in InBook : Picture(n).at = n /\ Picture(n).rem = made[n].rem
  BY RestingIs
<1>8. \A n \in InBook : /\ n \in 1..Len(made) /\ made'[n] = made[n] /\ made[n].rem \in Nat
                        /\ made[n].rem > 0 /\ made[n].id # id
  BY <1>1, <1>4, BookPositions, MadeTyped DEF IInv, Unfilled
<1>9. Pictured'
  <2>1. ASSUME NEW e \in Resting
        PROVE  /\ e.at \in 1..(Cur' - 1) /\ e.rem \in Nat \ {0} /\ made'[e.at].rem = e.rem
               /\ e = [id |-> made'[e.at].id, side |-> made'[e.at].side,
                       price |-> made'[e.at].price, rem |-> e.rem, at |-> e.at,
                       owner |-> made'[e.at].owner]
               /\ e.id # made'[Cur'].id /\ e.at \in InBook /\ e = Picture(e.at)
    <3>1. PICK n \in InBook : e = Picture(n)
      BY <1>7
    <3>2. e.at = n /\ e.rem = made[n].rem /\ n \in 1..Len(made) /\ made'[n] = made[n]
      BY <1>7, <1>8, <3>1
    <3>3. e.at \in 1..(Cur' - 1) /\ e.rem \in Nat \ {0}
      BY <1>3, <1>4, <1>8, <3>2
    <3>4. e = [id |-> made[n].id, side |-> made[n].side, price |-> made[n].price,
               rem |-> made[n].rem, at |-> n, owner |-> made[n].owner]
      BY <3>1 DEF Picture
    <3>5. e.id = made[n].id
      BY <3>4
    <3>. QED
      BY <1>5, <1>8, <3>1, <3>2, <3>3, <3>4, <3>5
  <2>2. InBook = {e.at : e \in {f \in Resting : made'[f.at].rem > 0}}
    <3>1. \A n \in InBook : Picture(n) \in Resting /\ Picture(n).at = n /\ made'[n].rem > 0
      BY <1>7, <1>8
    <3>. QED
      BY <2>1, <3>1
  <2>3. \A e, f \in Resting : e.at = f.at => e = f
    BY <2>1
  <2>4. \A e \in Resting : made'[e.at].rem <= e.rem
    BY <2>1
  <2>. QED
    BY <1>2, <1>7, <2>1, <2>2, <2>3, <2>4 DEF Pictured, Rest
<1>10. \A e \in Resting : made'[e.at].rem = e.rem /\ e.rem \in Nat /\ e.rem > 0
  BY <1>7, <1>8
<1>11. Recorded'
  <2>1. {f \in Resting : made'[f.at].rem < f.rem} = {}
    BY <1>10
  <2>2. trades' = shown'.trades \cup {[taker |-> Cur', maker |-> e.at, qty |-> e.rem - made'[e.at].rem,
                     price |-> e.price] : e \in {f \in Resting : made'[f.at].rem < f.rem}}
    BY <1>1, <1>2, <2>1
  <2>. QED
    BY <1>2, <2>2 DEF Recorded, Sale, Rest
<1>12. Halfway'
  <2>1. UsedUp' = {}
    BY <1>2, <1>10 DEF UsedUp, Rest, Promise!Eligible
  <2>2. Promise!Volume({}) = 0
    BY VolumeOfNothing
  <2>3. Prefix({}, Seen', Incoming')
    BY DEF Prefix
  <2>4. made'[Cur'].qty = made'[Cur'].rem + Promise!Volume({})
    BY <1>5, <1>6, <2>2
  <2>5. \A e \in Seen' : made'[e.at].rem = e.rem
    BY <1>2, <1>10
  <2>. QED
    BY <2>1, <2>3, <2>4, <2>5 DEF Halfway, Rest
<1>13. made'[Cur'].rem > 0
  BY <1>5, <1>6
<1>. QED
  BY <1>9, <1>11, <1>12, <1>13 DEF Matching
\* The loop, once over, has given the closed form, whichever order was used up.
LEMMA LoopIsOver ==
  ASSUME IInv, mu # NoSession, Matching, ~CanMatch
  PROVE  Pictured /\ Recorded /\ Through
<1> DEFINE b == Seen
           o == Incoming
           E == Promise!Eligible(b, o)
<1>1. Pictured /\ Recorded /\ IF made[Cur].rem > 0 THEN Halfway ELSE Through
  BY DEF Matching
<1>2. CASE made[Cur].rem > 0
  <2>1. \A e \in E : Rest(e) = 0
    BY <1>1, <1>2, NoneLeft
  <2>2. UsedUp = E
    BY <2>1 DEF UsedUp
  <2>3. Booked(b) /\ o.rem = made[Cur].qty /\ o.rem \in Nat /\ made[Cur].rem \in Nat
    BY <1>1, SeenIsBooked, IncomingFields
  <2>4. /\ Prefix(E, b, o) /\ \A e \in b \ E : Rest(e) = e.rem
        /\ o.rem = made[Cur].rem + Promise!Volume(E)
    BY <1>1, <1>2, <2>2, <2>3 DEF Halfway
  <2>5. E \in SUBSET b
    BY DEF Promise!Eligible
  <2>6. Promise!Volume(E) \in Nat
    <3> HIDE DEF b, o, E
    <3>. QED
      BY <2>3, <2>5, VolumeOfLess, VolumeIs DEF Booked
  <2>7. ASSUME NEW e \in b
        PROVE  e.rem - Rest(e) = Promise!Taken(b, o, e)
    <3>1. e.rem \in Nat
      BY <2>3, <2>7 DEF Booked, Sized
    <3>2. CASE e \in E
      <4>1. Promise!Taken(b, o, e) = e.rem
        <5> HIDE DEF b, o, E
        <5>. QED
          BY <2>3, <2>4, <2>6, <3>2, PrefixIsTaken
      <4>. QED
        BY <2>1, <3>1, <3>2, <4>1
    <3>3. CASE e \notin E
      <4>1. Rest(e) = e.rem
        BY <2>4, <3>3
      <4>2. Promise!Taken(b, o, e) = 0
        BY <3>3 DEF Promise!Taken
      <4>. QED
        BY <3>1, <4>1, <4>2
    <3>. QED
      BY <3>2, <3>3
  <2>8. Promise!Left(b, o) = made[Cur].rem
    <3>1. ~(o.rem <= Promise!Volume(E)) /\ o.rem - Promise!Volume(E) = made[Cur].rem
      <4> HIDE DEF b, o, E
      <4>. QED
        BY <1>2, <2>3, <2>4, <2>6
    <3>. QED
      BY <3>1 DEF Promise!Left
  <2>. QED
    BY <1>1, <2>7, <2>8 DEF Through
<1>. QED
  BY <1>1, <1>2

\* Every step keeps what is known of the match under way.
LEMMA NextMatching ==
  ASSUME RInv, [Next]_vars
  PROVE  Matching'
<1>1. IInv /\ Matching
  BY DEF RInv
<1>2. ASSUME NEW s \in Sessions, NEW id \in OrderIds, NEW side \in {"buy", "sell"},
             NEW kind \in {"limit", "market"}, NEW price \in Prices \cup {0}, NEW qty \in Quantities,
             PlaceOrder(s, id, side, kind, price, qty)
      PROVE  Matching'
  BY <1>1, <1>2, PlaceOrderMatching
<1>3. ASSUME NEW s \in Sessions, MatchOne(s)
      PROVE  Matching'
  <2>1. mu # NoSession /\ made[Cur].rem > 0 /\ Cur' = Cur
    BY <1>1, <1>3, MatchOneFrame
  <2>2. Pictured /\ Recorded /\ Halfway
    BY <1>1, <2>1 DEF Matching
  <2>3. Pictured' /\ Recorded' /\ IF made'[Cur].rem > 0 THEN Halfway' ELSE Through'
    BY <1>1, <1>3, <2>2, MatchOnePictured, MatchOneRecorded, MatchOneProgress
  <2>. QED
    BY <2>1, <2>3 DEF Matching
<1>4. ASSUME mu' = NoSession
      PROVE  Matching'
  BY <1>4 DEF Matching
<1>5. ASSUME UNCHANGED <<made, bids, asks, mu, trades, shown>>
      PROVE  Matching'
  BY <1>1, <1>5
     DEF Matching, Pictured, Recorded, Halfway, Through, Seen, Incoming, Rest, Sale, UsedUp, InBook, Cur
<1>6. CASE UNCHANGED vars
  BY <1>5, <1>6 DEF vars
<1>7. CASE Next
  <2>1. ASSUME NEW s \in Sessions, NEW id \in OrderIds, NEW side \in {"buy", "sell"}, NEW qty \in Quantities,
               \/ \E price \in Prices : PlaceOrder(s, id, side, "limit", price, qty)
               \/ PlaceOrder(s, id, side, "market", 0, qty)
        PROVE  Matching'
    BY <1>2, <2>1
  <2>2. ASSUME NEW s \in Sessions, Finish(s) \/ CancelSession(s)
        PROVE  Matching'
    BY <1>4, <2>2 DEF Finish, CancelSession
  <2>3. ASSUME NEW s \in Sessions, NEW id \in OrderIds, HandleCancel(s, id)
        PROVE  Matching'
    BY <1>4, <2>3 DEF HandleCancel
  <2>4. ASSUME NEW s \in Sessions, Connect(s) \/ ReadFails(s)
        PROVE  Matching'
    BY <1>5, <2>4 DEF Connect, ReadFails
  <2>. QED
    BY <1>3, <1>7, <2>1, <2>2, <2>3, <2>4 DEF Next
<1>. QED
  BY <1>6, <1>7

\* An order keeps its kind and its price.
LEMMA NextPriced ==
  ASSUME RInv, [Next]_vars
  PROVE  Priced'
<1>1. IInv /\ Priced /\ made \in Seq(Order) /\ Len(made) \in Nat /\ Entered = 1..Len(made)
  BY DEF RInv, IInv, TypeOK, Entered
<1>2. ASSUME NEW s \in Sessions, NEW id \in OrderIds, NEW side \in {"buy", "sell"},
             NEW kind \in {"limit", "market"}, NEW price, NEW qty \in Quantities,
             IF kind = "market" THEN price = 0 ELSE price \in Prices,
             PlaceOrder(s, id, side, kind, price, qty)
      PROVE  Priced'
  <2> DEFINE o == [id |-> id, side |-> side, kind |-> kind, price |-> price, qty |-> qty,
                   rem |-> qty, owner |-> s]
  <2>1. o \in Order /\ made' = Append(made, o)
    BY <1>2, ConstantsAssumption DEF Order, PlaceOrder
  <2>2. o.kind = kind /\ o.price = price
    OBVIOUS
  <2> HIDE DEF o
  <2>3. /\ Len(made') = Len(made) + 1 /\ made'[Len(made) + 1] = o
        /\ \A n \in 1..Len(made) : made'[n] = made[n]
    BY <1>1, <2>1
  <2>4. \A n \in 1..Len(made') : n \in 1..Len(made) \/ n = Len(made) + 1
    BY <1>1, <2>3
  <2>. QED
    BY <1>1, <1>2, <2>2, <2>3, <2>4 DEF Priced, Entered
<1>3. ASSUME NEW s \in Sessions, MatchOne(s)
      PROVE  Priced'
  <2>1. Len(made') = Len(made) /\ \A n \in 1..Len(made) : Same(n)
    BY <1>1, <1>3, FillEffect
  <2>. QED
    BY <1>1, <2>1 DEF Priced, Entered, Same
<1>4. ASSUME made' = made
      PROVE  Priced'
  BY <1>1, <1>4 DEF Priced, Entered
<1>5. CASE UNCHANGED vars
  BY <1>4, <1>5 DEF vars
<1>6. CASE Next
  <2>1. ASSUME NEW s \in Sessions, NEW id \in OrderIds, NEW side \in {"buy", "sell"}, NEW qty \in Quantities,
               \/ \E price \in Prices : PlaceOrder(s, id, side, "limit", price, qty)
               \/ PlaceOrder(s, id, side, "market", 0, qty)
        PROVE  Priced'
    <3>1. CASE PlaceOrder(s, id, side, "market", 0, qty)
      BY <1>2, <3>1
    <3>2. ASSUME NEW price \in Prices, PlaceOrder(s, id, side, "limit", price, qty)
          PROVE  Priced'
      BY <1>2, <3>2
    <3>. QED
      BY <2>1, <3>1, <3>2
  <2>2. ASSUME NEW s \in Sessions, Finish(s) \/ CancelSession(s) \/ Connect(s) \/ ReadFails(s)
        PROVE  Priced'
    BY <1>4, <2>2 DEF Finish, CancelSession, Connect, ReadFails
  <2>3. ASSUME NEW s \in Sessions, NEW id \in OrderIds, HandleCancel(s, id)
        PROVE  Priced'
    BY <1>4, <2>3 DEF HandleCancel
  <2>. QED
    BY <1>3, <1>6, <2>1, <2>2, <2>3 DEF Next
<1>. QED
  BY <1>5, <1>6

\* Nothing is being matched at first.
LEMMA InitRInv ==
  ASSUME Init
  PROVE  RInv
<1>1. made = << >> /\ mu = NoSession
  BY DEF Init
<1>2. Entered = {}
  BY <1>1 DEF Entered
<1>. QED
  BY <1>1, <1>2, InitIInv DEF RInv, Priced, Matching

\* Every step keeps what holds under the lock.
LEMMA NextRInv ==
  ASSUME RInv, [Next]_vars
  PROVE  RInv'
<1>1. IInv'
  BY NextIInv DEF RInv
<1>. QED
  BY <1>1, NextMatching, NextPriced DEF RInv
-----------------------------------------------------------------------------
(* The loop implements the atomic match.                                    *)

\* What the end of the loop puts in the book is what the closed form says.
LEMMA BookIsAfter ==
  ASSUME IInv, NEW s \in Sessions, Finish(s), Pictured, Through
  PROVE  Resting' = Promise!BookAfter(Seen, Incoming)
<1> DEFINE b == Seen
           o == Incoming
           kept == {[e EXCEPT !.rem = @ - Promise!Taken(b, o, e)] :
                      e \in {f \in b : Promise!Taken(b, o, f) < f.rem}}
<1>1. mu = s /\ mu # NoSession /\ UNCHANGED made
  BY ConstantsAssumption DEF Finish
<1>2. Resting' = {Picture(n) : n \in InBook'}
  BY <1>1 DEF Resting, Picture, InBook
<1>3. {Picture(n) : n \in InBook} = kept
  <2>1. ASSUME NEW e \in b
        PROVE  /\ Promise!Taken(b, o, e) < e.rem <=> Rest(e) > 0
               /\ [e EXCEPT !.rem = @ - Promise!Taken(b, o, e)] = Picture(e.at)
    <3>1. e.rem \in Nat /\ Rest(e) \in Nat /\ Rest(e) <= e.rem
      BY <1>1, SeenFields
    <3>2. e.rem - Rest(e) = Promise!Taken(b, o, e)
      BY DEF Through
    <3>3. e = [id |-> made[e.at].id, side |-> made[e.at].side, price |-> made[e.at].price,
               rem |-> e.rem, at |-> e.at, owner |-> made[e.at].owner]
      BY DEF Pictured
    <3> HIDE DEF b, o
    <3>4. e.rem - Promise!Taken(b, o, e) = Rest(e)
      BY <3>1, <3>2
    <3>5. [e EXCEPT !.rem = Rest(e)] = Picture(e.at)
      BY <3>3 DEF Picture, Rest
    <3>6. [e EXCEPT !.rem = @ - Promise!Taken(b, o, e)] = [e EXCEPT !.rem = Rest(e)]
      BY <3>4
    <3>7. Promise!Taken(b, o, e) < e.rem <=> Rest(e) > 0
      BY <3>1, <3>2
    <3>. QED
      BY <3>5, <3>6, <3>7
  <2>2. \A n : n \in InBook <=> \E e \in b : Rest(e) > 0 /\ n = e.at
    BY DEF Pictured
  <2> HIDE DEF b, o
  <2>3. ASSUME NEW n \in InBook
        PROVE  Picture(n) \in kept
    <3>1. PICK e \in b : Rest(e) > 0 /\ n = e.at
      BY <2>2
    <3>2. e \in {f \in b : Promise!Taken(b, o, f) < f.rem}
      BY <2>1, <3>1
    <3>3. [e EXCEPT !.rem = @ - Promise!Taken(b, o, e)] = Picture(n)
      BY <2>1, <3>1
    <3>. QED
      BY <3>2, <3>3, Zenon
  <2>4. ASSUME NEW e \in b, Promise!Taken(b, o, e) < e.rem
        PROVE  \E n \in InBook : [e EXCEPT !.rem = @ - Promise!Taken(b, o, e)] = Picture(n)
    BY <2>1, <2>2, <2>4
  <2>. QED
    BY <2>3, <2>4
<1>4. made[Cur].rem = Promise!Left(b, o) /\ o.kind = made[Cur].kind
  BY <1>1, IncomingFields DEF Through
<1>5. Picture(Cur) = [id |-> o.id, side |-> o.side, price |-> o.price, rem |-> Promise!Left(b, o),
                      at |-> o.at, owner |-> o.owner]
  BY <1>1, <1>4, IncomingFields DEF Picture
<1>6. InBook' = IF made[Cur].kind = "limit" /\ made[Cur].rem > 0 THEN InBook \cup {Cur} ELSE InBook
  BY DEF Finish, InBook
<1> HIDE DEF b, o, kept
<1>7. Promise!BookAfter(b, o) = kept \cup (IF o.kind = "limit" /\ Promise!Left(b, o) > 0
                                           THEN {Picture(Cur)} ELSE {})
  BY <1>5 DEF Promise!BookAfter, kept
<1>8. CASE made[Cur].kind = "limit" /\ made[Cur].rem > 0
  <2>1. Resting' = {Picture(n) : n \in InBook} \cup {Picture(Cur)}
    BY <1>2, <1>6, <1>8
  <2>. QED
    BY <1>3, <1>4, <1>7, <1>8, <2>1 DEF b, o
<1>9. CASE ~(made[Cur].kind = "limit" /\ made[Cur].rem > 0)
  <2>1. Resting' = {Picture(n) : n \in InBook}
    BY <1>2, <1>6, <1>9
  <2>. QED
    BY <1>3, <1>4, <1>7, <1>9, <2>1 DEF b, o
<1>. QED
  BY <1>8, <1>9

\* And so are the trades it has made.
LEMMA TradesAreAfter ==
  ASSUME IInv, mu # NoSession, Pictured, Recorded, Through
  PROVE  trades = Promise!TradesAfter(shown.trades, Seen, Incoming)
<1> DEFINE b == Seen
           o == Incoming
<1>1. ASSUME NEW e \in b
      PROVE  /\ Rest(e) < e.rem <=> Promise!Taken(b, o, e) > 0
             /\ Sale(e) = [taker |-> o.at, maker |-> e.at, qty |-> Promise!Taken(b, o, e),
                           price |-> e.price]
  <2>1. e.rem \in Nat /\ Rest(e) \in Nat
    BY SeenFields
  <2>2. e.rem - Rest(e) = Promise!Taken(b, o, e) /\ o.at = Cur
    BY DEF Through, Incoming
  <2> HIDE DEF b, o
  <2>3. Rest(e) < e.rem <=> Promise!Taken(b, o, e) > 0
    BY <2>1, <2>2
  <2>. QED
    BY <2>2, <2>3 DEF Sale
<1>2. trades = shown.trades \cup {Sale(e) : e \in {f \in b : Rest(f) < f.rem}}
  BY DEF Recorded
<1> HIDE DEF b, o
<1>3. {Sale(e) : e \in {f \in b : Rest(f) < f.rem}} =
        {[taker |-> o.at, maker |-> e.at, qty |-> Promise!Taken(b, o, e), price |-> e.price] :
           e \in {f \in b : Promise!Taken(b, o, f) > 0}}
  <2>1. {f \in b : Rest(f) < f.rem} = {f \in b : Promise!Taken(b, o, f) > 0}
    BY <1>1
  <2>. QED
    BY <1>1, <2>1
<1>. QED
  BY <1>2, <1>3 DEF Promise!TradesAfter, b, o

\* The end of handleOrder is the atomic match of the order it handled.
LEMMA FinishSubmits ==
  ASSUME RInv, NEW s \in Sessions, Finish(s)
  PROVE  Promise!Next
<1>1. IInv /\ Matching /\ Priced /\ mu = s /\ mu # NoSession /\ ~CanMatch
  BY ConstantsAssumption DEF RInv, Finish
<1>2. mu' = NoSession /\ made' = made /\ trades' = trades
  BY DEF Finish
<1>3. Pictured /\ Recorded /\ Through
  BY <1>1, LoopIsOver
<1>4. Resting' = Promise!BookAfter(Seen, Incoming)
  BY <1>1, <1>3, BookIsAfter
<1>5. trades' = Promise!TradesAfter(shown.trades, Seen, Incoming)
  BY <1>1, <1>2, <1>3, TradesAreAfter
<1>6. Len(made) \in Nat /\ Cur = Len(made) /\ Cur = (Len(made) - 1) + 1 /\ Len(made) \in Int
  BY DEF RInv, IInv, TypeOK, Cur
<1>7. \A e \in Seen : e.id # made[Cur].id
  BY <1>3 DEF Pictured
<1>8. /\ made[Cur].owner = s /\ made[Cur].id \in OrderIds /\ made[Cur].side \in {"buy", "sell"}
      /\ made[Cur].qty \in Quantities /\ made[Cur].kind \in {"limit", "market"}
      /\ made[Cur].kind = "limit" => made[Cur].price \in Prices
      /\ made[Cur].kind = "market" => made[Cur].price = 0
  <2>1. made[Cur].owner = s
    BY <1>1 DEF IInv, Locked
  <2>2. Cur \in Entered
    BY <1>1, IncomingFields DEF Entered
  <2>. QED
    BY <1>1, <2>1, <2>2, IncomingFields DEF Priced
<1>9. Promise!Submit(s, made[Cur].id, made[Cur].side, made[Cur].kind, made[Cur].price, made[Cur].qty)
  <2>1. Incoming = [id |-> made[Cur].id, side |-> made[Cur].side, kind |-> made[Cur].kind,
                    price |-> made[Cur].price, rem |-> made[Cur].qty,
                    at |-> (Len(made) - 1) + 1, owner |-> s]
    BY <1>6, <1>8 DEF Incoming
  <2>. QED
    BY <1>1, <1>2, <1>4, <1>5, <1>7, <2>1 DEF Promise!Submit, Seen
<1>10. (IF mu' = NoSession THEN Len(made') ELSE Len(made') - 1)
         = (IF mu = NoSession THEN Len(made) ELSE Len(made) - 1) + 1
  BY <1>1, <1>2, <1>6
<1>11. CASE made[Cur].kind = "limit"
  BY <1>8, <1>9, <1>10, <1>11 DEF Promise!Next
<1>12. CASE made[Cur].kind = "market"
  BY <1>8, <1>9, <1>10, <1>12 DEF Promise!Next
<1>. QED
  BY <1>8, <1>11, <1>12
\* A new order, a turn of the loop and a session's coming and going change nothing
\* the clients see.
LEMMA UnseenSteps ==
  ASSUME RInv, NEW s \in Sessions,
         \/ \E id \in OrderIds, side \in {"buy", "sell"}, kind \in {"limit", "market"},
               price \in Prices \cup {0}, qty \in Quantities : PlaceOrder(s, id, side, kind, price, qty)
         \/ MatchOne(s) \/ Connect(s) \/ ReadFails(s)
  PROVE  UNCHANGED Promise!vars
<1>1. IInv /\ made \in Seq(Order) /\ Len(made) \in Nat /\ NoSession \notin Sessions
  BY ConstantsAssumption DEF RInv, IInv, TypeOK
<1>2. ASSUME NEW id \in OrderIds, NEW side \in {"buy", "sell"}, NEW kind \in {"limit", "market"},
             NEW price \in Prices \cup {0}, NEW qty \in Quantities,
             PlaceOrder(s, id, side, kind, price, qty)
      PROVE  UNCHANGED Promise!vars
  <2> DEFINE o == [id |-> id, side |-> side, kind |-> kind, price |-> price, qty |-> qty,
                   rem |-> qty, owner |-> s]
  <2>1. /\ mu = NoSession /\ mu' = s /\ made' = Append(made, o)
        /\ shown' = [resting |-> Resting, trades |-> trades]
    BY <1>2 DEF PlaceOrder
  <2>2. o \in Order
    BY ConstantsAssumption DEF Order
  <2> HIDE DEF o
  <2>3. Len(made') - 1 = Len(made)
    BY <1>1, <2>1, <2>2
  <2>4. shown'.resting = Resting /\ shown'.trades = trades
    BY <2>1
  <2>. QED
    BY <1>1, <2>1, <2>3, <2>4 DEF Promise!vars
<1>3. ASSUME MatchOne(s)
      PROVE  UNCHANGED Promise!vars
  <2>1. mu # NoSession /\ mu' = mu /\ shown' = shown /\ Len(made') = Len(made)
    BY <1>1, <1>3, MatchOneFrame, FillEffect
  <2>. QED
    BY <2>1 DEF Promise!vars
<1>4. ASSUME Connect(s) \/ ReadFails(s)
      PROVE  UNCHANGED Promise!vars
  BY <1>4 DEF Promise!vars, Connect, ReadFails, Resting
<1>. QED
  BY <1>2, <1>3, <1>4

\* What a removal leaves in the book.
LEMMA RestingAfterRemove ==
  ASSUME IInv, NEW gone, Remove(gone), UNCHANGED made
  PROVE  /\ Resting = {Picture(n) : n \in InBook}
         /\ Resting' = {Picture(n) : n \in InBook \ gone}
<1>1. InBook' = InBook \ gone
  BY RemoveShrinks DEF InBook
<1>2. Resting' = {Picture(n) : n \in InBook'}
  BY DEF Resting, Picture, InBook
<1>. QED
  BY <1>1, <1>2, RestingIs

\* A cancel is seen as a cancel by the owner.
LEMMA CancelIsSeen ==
  ASSUME RInv, NEW s \in Sessions, NEW id \in OrderIds, HandleCancel(s, id)
  PROVE  Promise!Cancel(s, id)
<1>1. /\ IInv /\ mu = NoSession /\ mu' = mu /\ Remove({orders[id]})
      /\ id \in DOMAIN orders /\ made[orders[id]].owner = s
      /\ made' = made /\ trades' = trades
  BY DEF RInv, HandleCancel
<1>2. /\ Resting = {Picture(n) : n \in InBook}
      /\ Resting' = {Picture(n) : n \in InBook \ {orders[id]}}
  BY <1>1, RestingAfterRemove
<1>3. orders[id] \in InBook /\ made[orders[id]].id = id
  BY <1>1, BookPositions DEF IInv, BookConsistent
<1>4. \A n : Picture(n).id = made[n].id /\ Picture(n).owner = made[n].owner
  BY DEF Picture
<1>5. \A n \in InBook : made[n].id = id => n = orders[id]
  BY <1>1, BookPositions
<1>6. \E e \in Resting : e.id = id /\ e.owner = s
  BY <1>1, <1>2, <1>3, <1>4
<1>7. Resting' = {e \in Resting : e.id # id}
  BY <1>2, <1>3, <1>4, <1>5
<1>. QED
  BY <1>1, <1>6, <1>7 DEF Promise!Cancel

\* The end of a session is seen as the end of a session.
LEMMA SessionEndIsSeen ==
  ASSUME RInv, NEW s \in Sessions, CancelSession(s)
  PROVE  Promise!CloseSession(s)
<1>1. /\ IInv /\ mu = NoSession /\ mu' = mu /\ Remove(OwnedBy(s))
      /\ made' = made /\ trades' = trades
  BY DEF RInv, CancelSession
<1>2. /\ Resting = {Picture(n) : n \in InBook}
      /\ Resting' = {Picture(n) : n \in InBook \ OwnedBy(s)}
  BY <1>1, RestingAfterRemove
<1>3. OwnedBy(s) = {n \in InBook : made[n].owner = s}
  BY <1>1 DEF IInv, BookConsistent, OwnedBy, InBook
<1>4. \A n : Picture(n).owner = made[n].owner
  BY DEF Picture
<1>5. Resting' = {e \in Resting : e.owner # s}
  BY <1>2, <1>3, <1>4
<1>. QED
  BY <1>1, <1>5 DEF Promise!CloseSession

\* The empty book is the book the promise starts from.
LEMMA InitIsPromised ==
  ASSUME Init
  PROVE  Promise!Init
<1>1. made = << >> /\ bids = {} /\ asks = {} /\ mu = NoSession /\ trades = {}
  BY DEF Init
<1>2. Resting = {} /\ Len(made) = 0
  BY <1>1 DEF Resting
<1>. QED
  BY <1>1, <1>2 DEF Promise!Init

\* Every step is one of the promise, or is not seen.
LEMMA NextIsPromised ==
  ASSUME RInv, [Next]_vars
  PROVE  [Promise!Next]_(Promise!vars)
<1>1. CASE UNCHANGED vars
  BY <1>1 DEF vars, Promise!vars, Resting
<1>2. CASE Next
  <2>1. ASSUME NEW s \in Sessions, NEW id \in OrderIds, NEW side \in {"buy", "sell"}, NEW qty \in Quantities,
               \/ \E price \in Prices : PlaceOrder(s, id, side, "limit", price, qty)
               \/ PlaceOrder(s, id, side, "market", 0, qty)
        PROVE  UNCHANGED Promise!vars
    <3>1. \E kind \in {"limit", "market"}, price \in Prices \cup {0} :
            PlaceOrder(s, id, side, kind, price, qty)
      BY <2>1
    <3>. QED
      BY <3>1, UnseenSteps
  <2>2. ASSUME NEW s \in Sessions, MatchOne(s) \/ Connect(s) \/ ReadFails(s)
        PROVE  UNCHANGED Promise!vars
    BY <2>2, UnseenSteps
  <2>3. ASSUME NEW s \in Sessions, Finish(s)
        PROVE  Promise!Next
    BY <2>3, FinishSubmits
  <2>4. ASSUME NEW s \in Sessions, NEW id \in OrderIds, HandleCancel(s, id)
        PROVE  Promise!Next
    BY <2>4, CancelIsSeen DEF Promise!Next
  <2>5. ASSUME NEW s \in Sessions, CancelSession(s)
        PROVE  Promise!Next
    BY <2>5, SessionEndIsSeen DEF Promise!Next
  <2>. QED
    BY <1>2, <2>1, <2>2, <2>3, <2>4, <2>5 DEF Next
<1>. QED
  BY <1>1, <1>2

\* What holds while an order is being matched, of every reachable state: what is left
\* of the orders seen under the lock, what has traded, and how far the loop is.
THEOREM MatchUnderWay == Spec => []RInv
  BY InitRInv, NextRInv, PTL DEF Spec

\* The engine implements the atomic matching by price and time of docs/api-contract.md:
\* the loop over the heaps, whatever sessions do meanwhile, gives what the closed form
\* says (stub/main.go:191-247, 361-403).
THEOREM PromiseKept == Spec => KeepsPriceTimePriority
<1>1. Init => Promise!Init
  BY InitIsPromised
<1>2. RInv /\ [Next]_vars => [Promise!Next]_(Promise!vars)
  BY NextIsPromised
<1>. QED
  BY <1>1, <1>2, MatchUnderWay, PTL DEF Spec, KeepsPriceTimePriority, Promise!Spec
-----------------------------------------------------------------------------
(* No quantity is made or lost.                                             *)

TradedQty(n) == [t \in Traded(n) |-> t.qty]

\* What an order has traded can be summed.
LEMMA TradedSums ==
  ASSUME IInv, IsFiniteSet(trades), NEW n
  PROVE  Summable(TradedQty(n)) /\ Promise!Total(TradedQty(n)) \in Nat
<1>1. Traded(n) \subseteq trades
  BY DEF Traded
<1>2. IsFiniteSet(Traded(n))
  BY <1>1, FS_Subset
<1>3. \A t \in Traded(n) : t.qty \in Nat
  BY <1>1 DEF IInv, TypeOK
<1>4. Summable(TradedQty(n))
  BY <1>2, <1>3 DEF Summable, TradedQty
<1>. QED
  BY <1>4, TotalType

\* A new order has traded nothing.
LEMMA PlaceOrderConserves ==
  ASSUME QInv, NEW s \in Sessions, NEW id \in OrderIds, NEW side \in {"buy", "sell"},
         NEW kind \in {"limit", "market"}, NEW price \in Prices \cup {0}, NEW qty \in Quantities,
         PlaceOrder(s, id, side, kind, price, qty)
  PROVE  OnceEach' /\ Summed'
<1> DEFINE o == [id |-> id, side |-> side, kind |-> kind, price |-> price, qty |-> qty,
                 rem |-> qty, owner |-> s]
<1>1. o \in Order /\ made' = Append(made, o) /\ trades' = trades
  BY ConstantsAssumption DEF Order, PlaceOrder
<1>2. o.qty = qty /\ o.rem = qty /\ qty \in Nat
  BY ConstantsAssumption
<1>3. IInv /\ IsFiniteSet(trades) /\ QuantityConserved /\ made \in Seq(Order) /\ Len(made) \in Nat
  BY DEF QInv, Summed, IInv, TypeOK
<1> HIDE DEF o
<1>4. /\ Len(made') = Len(made) + 1 /\ made'[Len(made) + 1] = o
      /\ \A n \in 1..Len(made) : made'[n] = made[n]
  BY <1>1, <1>3
<1>5. \A t \in trades : t.taker \in 1..Len(made) /\ t.maker \in 1..Len(made)
  BY <1>3 DEF IInv, TypeOK, Entered
<1>6. OnceEach'
  <2>1. \A t \in trades' : t.taker # Len(made')
    BY <1>1, <1>3, <1>4, <1>5
  <2>. QED
    BY <2>1 DEF OnceEach, Cur
<1>7. ASSUME NEW n \in 1..Len(made')
      PROVE  made'[n].qty = made'[n].rem + Promise!Total(TradedQty(n))
  <2>1. CASE n \in 1..Len(made)
    BY <1>3, <1>4, <2>1 DEF QuantityConserved, Entered, TradedQty
  <2>2. CASE n \notin 1..Len(made)
    <3>1. n = Len(made) + 1
      BY <1>3, <1>4, <2>2
    <3>2. Traded(n) = {}
      BY <1>3, <1>5, <2>2 DEF Traded
    <3>3. Promise!Total(TradedQty(n)) = 0
      BY <3>2, TotalOfNothing DEF TradedQty
    <3>. QED
      BY <1>2, <1>4, <3>1, <3>3
  <2>. QED
    BY <2>1, <2>2
<1>8. QuantityConserved'
  BY <1>1, <1>7 DEF QuantityConserved, Entered, TradedQty, Traded
<1>. QED
  BY <1>1, <1>3, <1>6, <1>8 DEF Summed

\* A fill takes from both orders what its trade says, and it is a new trade.
LEMMA MatchOneConserves ==
  ASSUME QInv, NEW s \in Sessions, MatchOne(s)
  PROVE  OnceEach' /\ Summed'
<1> DEFINE b == BestOpposite
           q == MatchedQty
           t == [taker |-> Cur, maker |-> b, qty |-> q, price |-> made[b].price]
<1>1. IInv /\ OnceEach /\ IsFiniteSet(trades) /\ QuantityConserved
  BY DEF QInv, Summed
<1>2. /\ mu = s /\ mu # NoSession /\ mu' = mu /\ made[Cur].rem > 0 /\ Cur' = Cur
  BY <1>1, MatchOneFrame
<1>3. /\ b \in InBook /\ b # Cur /\ Cur \in 1..Len(made) /\ b \in 1..Len(made)
      /\ q \in Nat /\ q <= made[Cur].rem /\ q <= made[b].rem
      /\ Len(made') = Len(made)
      /\ \A n \in 1..Len(made) : Same(n)
      /\ \A n \in 1..Len(made) : n # Cur /\ n # b => made'[n].rem = made[n].rem
      /\ made'[b].rem = made[b].rem - q
      /\ made'[Cur].rem = made[Cur].rem - q
  BY <1>1, FillEffect, BookPositions
<1>4. made[Cur].rem \in Nat /\ made[b].rem \in Nat
  BY <1>1, <1>3, MadeTyped DEF IInv
<1>5. trades' = trades \cup {t}
  BY DEF MatchOne
<1>6. t.taker = Cur /\ t.maker = b /\ t.qty = q
  OBVIOUS
<1>7. t \notin trades
  BY <1>1, <1>2, <1>3, <1>6 DEF OnceEach
<1>8. made'[Cur].rem > 0 => b \notin InBook'
  <2>1. made'[Cur].rem > 0 => q = made[b].rem
    BY <1>3, <1>4 DEF MatchedQty
  <2>2. q = made[b].rem => Remove({b})
    BY DEF MatchOne
  <2>3. Remove({b}) => b \notin InBook'
    BY <1>1, RemoveShrinks DEF InBook
  <2>. QED
    BY <2>1, <2>2, <2>3
<1>9. InBook' \subseteq InBook
  <2>1. Remove({b}) \/ UNCHANGED <<orders, bids, asks>>
    BY DEF MatchOne
  <2>2. Shrunk
    BY <1>1, <2>1, RemoveShrinks, NothingShrinks
  <2>. QED
    BY <2>2 DEF Shrunk, InBook
<1> HIDE DEF b, q, t
<1>10. OnceEach'
  <2> SUFFICES ASSUME made'[Cur].rem > 0, NEW x \in trades', x.taker = Cur
               PROVE  x.maker \notin InBook'
    BY <1>2 DEF OnceEach
  <2>1. CASE x \in trades
    BY <1>1, <1>2, <1>9, <2>1 DEF OnceEach
  <2>2. CASE x = t
    BY <1>6, <1>8, <2>2
  <2>. QED
    BY <1>5, <2>1, <2>2
<1>11. IsFiniteSet(trades')
  BY <1>1, <1>5, FS_AddElement
<1>12. ASSUME NEW n \in 1..Len(made)
       PROVE  made'[n].qty = made'[n].rem + Promise!Total([x \in Traded(n)' |-> x.qty])
  <2>1. /\ made'[n].qty = made[n].qty /\ made[n].rem \in Nat
        /\ made[n].qty = made[n].rem + Promise!Total(TradedQty(n))
    BY <1>1, <1>3, MadeTyped DEF Same, QuantityConserved, Entered, TradedQty, IInv
  <2>2. Summable(TradedQty(n)) /\ Promise!Total(TradedQty(n)) \in Nat
    BY <1>1, TradedSums
  <2>3. CASE n = Cur \/ n = b
    <3> DEFINE f == TradedQty(n)
               g == [x \in Traded(n) \cup {t} |-> x.qty]
    <3>1. Traded(n)' = Traded(n) \cup {t}
      BY <1>5, <1>6, <2>3 DEF Traded
    <3>2. /\ DOMAIN f = Traded(n) /\ t \notin DOMAIN f /\ DOMAIN g = DOMAIN f \cup {t}
          /\ g[t] = q /\ \A x \in DOMAIN f : g[x] = f[x]
      BY <1>6, <1>7 DEF TradedQty, Traded
    <3> HIDE DEF f, g
    <3>3. Promise!Total(g) = Promise!Total(f) + q
      <4>1. Summable(f) /\ g[t] \in Nat
        BY <1>3, <2>2, <3>2 DEF f
      <4>. QED
        BY <3>2, <4>1, TotalOfMore
    <3>4. made'[n].rem = made[n].rem - q
      BY <1>3, <2>3
    <3>5. made'[n].qty = made'[n].rem + Promise!Total(g)
      BY <1>3, <2>1, <2>2, <3>3, <3>4 DEF f
    <3>. QED
      BY <3>1, <3>5 DEF g
  <2>4. CASE n # Cur /\ n # b
    <3>1. Traded(n)' = Traded(n)
      BY <1>5, <1>6, <2>4 DEF Traded
    <3>2. made'[n].rem = made[n].rem
      BY <1>3, <2>4
    <3>. QED
      BY <2>1, <3>1, <3>2 DEF TradedQty
  <2>. QED
    BY <2>3, <2>4
<1>13. QuantityConserved'
  BY <1>3, <1>12 DEF QuantityConserved, Entered, Traded
<1>. QED
  BY <1>10, <1>11, <1>13 DEF Summed

\* The other steps neither trade nor change an order.
LEMMA NextQInv ==
  ASSUME QInv, [Next]_vars
  PROVE  QInv'
<1>1. IInv' /\ OnceEach /\ Summed
  BY NextIInv DEF QInv
<1>2. ASSUME NEW s \in Sessions, NEW id \in OrderIds, NEW side \in {"buy", "sell"},
             NEW qty \in Quantities,
             \/ \E price \in Prices : PlaceOrder(s, id, side, "limit", price, qty)
             \/ PlaceOrder(s, id, side, "market", 0, qty)
      PROVE  OnceEach' /\ Summed'
  BY <1>2, PlaceOrderConserves
<1>3. ASSUME UNCHANGED <<made, trades>>
      PROVE  Summed'
  BY <1>1, <1>3 DEF Summed, QuantityConserved, Entered, Traded
<1>4. ASSUME UNCHANGED <<made, trades>>, mu' = NoSession
      PROVE  OnceEach' /\ Summed'
  BY <1>3, <1>4 DEF OnceEach
<1>5. ASSUME UNCHANGED <<made, trades, mu, bids, asks>>
      PROVE  OnceEach' /\ Summed'
  BY <1>1, <1>3, <1>5 DEF OnceEach, Cur, InBook
<1>6. CASE UNCHANGED vars
  BY <1>1, <1>5, <1>6 DEF QInv, vars
<1>7. CASE Next
  <2>1. ASSUME NEW s \in Sessions, Finish(s) \/ CancelSession(s)
        PROVE  OnceEach' /\ Summed'
    BY <1>4, <2>1 DEF Finish, CancelSession
  <2>2. ASSUME NEW s \in Sessions, NEW id \in OrderIds, HandleCancel(s, id)
        PROVE  OnceEach' /\ Summed'
    BY <1>4, <2>2 DEF HandleCancel
  <2>3. ASSUME NEW s \in Sessions, Connect(s) \/ ReadFails(s)
        PROVE  OnceEach' /\ Summed'
    BY <1>5, <2>3 DEF Connect, ReadFails
  <2>. QED
    BY <1>1, <1>2, <1>7, <2>1, <2>2, <2>3, MatchOneConserves DEF Next, QInv
<1>. QED
  BY <1>6, <1>7

\* Nothing has been ordered at first.
LEMMA InitQInv ==
  ASSUME Init
  PROVE  QInv
<1>1. made = << >> /\ mu = NoSession /\ trades = {}
  BY DEF Init
<1>2. Entered = {} /\ IsFiniteSet(trades)
  BY <1>1, FS_EmptySet DEF Entered
<1>. QED
  BY <1>1, <1>2, InitIInv DEF QInv, OnceEach, Summed, QuantityConserved

\* What an order has lost it has traded, as taker or as maker, and in one trade with
\* each order it met (stub/main.go:200-202, 225-227).
THEOREM NothingIsMadeOrLost == Spec => []QuantityConserved
<1>1. Spec => []QInv
  BY InitQInv, NextQInv, PTL DEF Spec
<1>2. QInv => QuantityConserved
  BY DEF QInv, Summed
<1>. QED
  BY <1>1, <1>2, PTL
=============================================================================
