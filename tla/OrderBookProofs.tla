-------------------------- MODULE OrderBookProofs --------------------------
(***************************************************************************)
(* Proofs that the order book keeps its invariants for every set of ids,   *)
(* every range of prices and every set of quantities, and, from these,     *)
(* that it implements PriceTimePriority.                                   *)
(*                                                                         *)
(* None of the invariants is inductive alone: BookNotCrossed needs to know *)
(* that the loop stopped for a reason (BestPrice is the best price, which  *)
(* needs the ladders' keys to be bounded integers), QueuedIsIndexed needs  *)
(* that the order being matched is not yet in the book, IndexedIsQueued    *)
(* needs the uniqueness in QueuedIsIndexed, and TimePriority needs that    *)
(* the order being matched is younger than all that rest.  BookInv is      *)
(* their conjunction, and it is inductive.                                 *)
(***************************************************************************)
EXTENDS OrderBook, BasicLemmas

(* The order being matched is not in the book: submit rejected duplicates  *)
(* and rests the order only after the matching loop.                       *)
IncomingNotQueued ==
    incoming # NoOrder => /\ ~contains(incoming.id)
                          /\ incoming.timestamp < next_timestamp

BookInv ==
    /\ BookTypeOK
    /\ NoEmptyLevel
    /\ QueuedIsIndexed
    /\ IndexedIsQueued
    /\ RestingIsLive
    /\ BookNotCrossed
    /\ TimePriority
    /\ IncomingNotQueued

-----------------------------------------------------------------------------
(* Bounded sets of integers have a least and a greatest element, so that   *)
(* the begin() of a ladder that is not empty is well defined.              *)

(* A set of prices that is not empty has a least element...                *)
LEMMA LeastPrice ==
    ASSUME NEW T, T \subseteq Prices, T # {}
    PROVE  \E x \in T : \A y \in T : x <= y
<1> DEFINE D == {p - MinPrice : p \in T}
<1>1. D \subseteq Nat /\ D # {}
  <2>1. \A p \in T : p - MinPrice \in Nat
    BY PricesAssumption DEF Prices
  <2>2. D \subseteq Nat
    BY <2>1
  <2>3. D # {}
    OBVIOUS
  <2> QED BY <2>2, <2>3
<1>2. PICK d \in D : \A e \in D : d <= e
  <2> HIDE DEF D
  <2> QED BY <1>1, LeastNatural
<1>3. PICK x \in T : d = x - MinPrice
  OBVIOUS
<1>4. \A y \in T : x <= y
  <2> TAKE y \in T
  <2>1. d <= y - MinPrice
    BY <1>2
  <2> QED BY <2>1, <1>3, PricesAssumption DEF Prices
<1> QED BY <1>4

(* ... and a greatest one.                                                 *)
LEMMA GreatestPrice ==
    ASSUME NEW T, T \subseteq Prices, T # {}
    PROVE  \E x \in T : \A y \in T : y <= x
<1> DEFINE D == {MaxPrice - p : p \in T}
<1>1. D \subseteq Nat /\ D # {}
  <2>1. \A p \in T : MaxPrice - p \in Nat
    BY PricesAssumption DEF Prices
  <2>2. D \subseteq Nat
    BY <2>1
  <2>3. D # {}
    OBVIOUS
  <2> QED BY <2>2, <2>3
<1>2. PICK d \in D : \A e \in D : d <= e
  <2> HIDE DEF D
  <2> QED BY <1>1, LeastNatural
<1>3. PICK x \in T : d = MaxPrice - x
  OBVIOUS
<1>4. \A y \in T : y <= x
  <2> TAKE y \in T
  <2>1. d <= MaxPrice - y
    BY <1>2
  <2> QED BY <2>1, <1>3, PricesAssumption DEF Prices
<1> QED BY <1>4

(* BestPrice is a price of the ladder that is better than every other one. *)
LEMMA BestPriceIsBest ==
    ASSUME NEW side \in Sides, DOMAIN book[side] \subseteq Prices, DOMAIN book[side] # {}
    PROVE  /\ BestPrice(side) \in DOMAIN book[side]
           /\ \A q \in DOMAIN book[side] \ {BestPrice(side)} : Better(side, BestPrice(side), q)
<1>1. \E p \in DOMAIN book[side] : \A q \in DOMAIN book[side] \ {p} : Better(side, p, q)
  <2>1. CASE side = "Buy"
    <3>1. PICK p \in DOMAIN book[side] : \A q \in DOMAIN book[side] : q <= p
      BY GreatestPrice
    <3>2. \A q \in DOMAIN book[side] \ {p} : p > q
      BY <3>1, PricesAssumption DEF Prices
    <3> QED BY <3>2, <2>1 DEF Better
  <2>2. CASE side = "Sell"
    <3>1. PICK p \in DOMAIN book[side] : \A q \in DOMAIN book[side] : p <= q
      BY LeastPrice
    <3>2. \A q \in DOMAIN book[side] \ {p} : p < q
      BY <3>1, PricesAssumption DEF Prices
    <3> QED BY <3>2, <2>2 DEF Better
  <2> QED BY <2>1, <2>2 DEF Sides
<1> QED BY <1>1 DEF BestPrice

-----------------------------------------------------------------------------
(* The queues. *)

(* Where the order at position j of a queue was before position k was      *)
(* removed.                                                                *)
Shift(j, k) == IF j < k THEN j ELSE j + 1

(* R is the queue Q without its order at position k.                       *)
Removed(R, Q, k) ==
    /\ R \in Seq(Order)
    /\ Len(R) = Len(Q) - 1
    /\ \A j \in 1..Len(R) : R[j] = Q[IF j < k THEN j ELSE j + 1]

(* The front order was used up: pop_front.                                 *)
LEMMA TailRemoves ==
    ASSUME NEW Q \in Seq(Order), Q # <<>>
    PROVE  Removed(Tail(Q), Q, 1)
BY HeadTailProperties DEF Removed

(* orders.erase(order_it).                                                 *)
LEMMA RemoveAtRemoves ==
    ASSUME NEW Q \in Seq(Order), NEW k \in 1..Len(Q)
    PROVE  Removed(RemoveAtPosition(Q, k), Q, k)
<1> DEFINE A == SubSeq(Q, 1, k - 1)
           B == SubSeq(Q, k + 1, Len(Q))
<1>0. Len(Q) \in Nat /\ k \in Nat
  OBVIOUS
<1>1. /\ A \in Seq(Order)
      /\ Len(A) = k - 1
      /\ \A j \in 1..(k - 1) : A[j] = Q[j]
  BY <1>0, SubSeqProperties
<1>2. /\ B \in Seq(Order)
      /\ Len(B) = Len(Q) - k
      /\ \A j \in 1..(Len(Q) - k) : B[j] = Q[k + j]
  <2>1. \A i \in (k + 1)..Len(Q) : Q[i] \in Order
    BY <1>0, ElementOfSeq
  <2>2. /\ B \in Seq(Order)
        /\ Len(B) = IF k + 1 <= Len(Q) THEN Len(Q) - (k + 1) + 1 ELSE 0
        /\ \A j \in 1..(Len(Q) - (k + 1) + 1) : B[j] = Q[k + 1 + j - 1]
    BY <1>0, <2>1, SubSeqProperties
  <2> HIDE DEF B
  <2>3. Len(Q) - (k + 1) + 1 = Len(Q) - k /\ (k + 1 <= Len(Q) \/ Len(Q) - k = 0)
    BY <1>0
  <2>4. \A j \in 1..(Len(Q) - k) : k + 1 + j - 1 = k + j
    BY <1>0
  <2> QED BY <1>0, <2>2, <2>3, <2>4
<1> HIDE DEF A, B
<1>3. /\ A \o B \in Seq(Order)
      /\ Len(A \o B) = Len(Q) - 1
      /\ \A j \in 1..(Len(Q) - 1) : (A \o B)[j] = IF j <= k - 1 THEN A[j] ELSE B[j - (k - 1)]
  <2>1. /\ A \o B \in Seq(Order)
        /\ Len(A \o B) = Len(A) + Len(B)
        /\ \A j \in 1..(Len(A) + Len(B)) :
              (A \o B)[j] = IF j <= Len(A) THEN A[j] ELSE B[j - Len(A)]
    BY <1>1, <1>2, ConcatProperties
  <2>2. Len(A) + Len(B) = Len(Q) - 1
    BY <1>0, <1>1, <1>2
  <2> QED BY <2>1, <2>2, <1>1
<1>4. \A j \in 1..(Len(Q) - 1) : (A \o B)[j] = Q[IF j < k THEN j ELSE j + 1]
  <2> TAKE j \in 1..(Len(Q) - 1)
  <2>1. CASE j <= k - 1
    BY <2>1, <1>0, <1>1, <1>3
  <2>2. CASE ~(j <= k - 1)
    <3>1. j - (k - 1) \in 1..(Len(Q) - k) /\ k + (j - (k - 1)) = j + 1
      BY <2>2, <1>0
    <3> QED BY <3>1, <2>2, <1>0, <1>2, <1>3
  <2> QED BY <2>1, <2>2
<1> QED BY <1>3, <1>4 DEF Removed, RemoveAtPosition, A, B

-----------------------------------------------------------------------------
(* The three ways the book changes: an order leaves it, an order in it     *)
(* shrinks, an order enters it.                                            *)

(* What a queue stored back in its level does to the ladder.               *)
LEMMA StoreLevelFacts ==
    ASSUME NEW levels, NEW p \in DOMAIN levels, NEW R, NEW new,
           new = StoreLevel(levels, p, R)
    PROVE  /\ DOMAIN new \subseteq DOMAIN levels
           /\ \A q \in DOMAIN levels \ {p} : q \in DOMAIN new /\ new[q] = levels[q]
           /\ IF R = <<>> THEN p \notin DOMAIN new
                          ELSE p \in DOMAIN new /\ new[p] = R
<1>1. CASE R = <<>>
  <2>1. new = [q \in DOMAIN levels \ {p} |-> levels[q]]
    BY <1>1 DEF StoreLevel, EraseLevel
  <2> QED BY <2>1, <1>1
<1>2. CASE R # <<>>
  <2>1. new = [q \in DOMAIN levels \cup {p} |-> IF q = p THEN R ELSE levels[q]]
    BY <1>2 DEF StoreLevel, PutLevel
  <2> QED BY <2>1, <1>2
<1> QED BY <1>1, <1>2

(* A step does not rejuvenate anything: the clock does not go back, and    *)
(* the order being matched, if there is one afterwards, is the same.       *)
ClockAdvances ==
    /\ next_timestamp' \in Nat
    /\ next_timestamp <= next_timestamp'
    /\ incoming' # NoOrder => /\ incoming # NoOrder
                              /\ incoming'.timestamp = incoming.timestamp

(* The part of BookInv that speaks of the ladders and the index.           *)
LadderInv ==
    /\ DOMAIN book = Sides
    /\ \A s \in Sides : /\ DOMAIN book[s] \subseteq Prices
                        /\ \A p \in DOMAIN book[s] : book[s][p] \in Seq(Order)
    /\ DOMAIN order_index \subseteq OrderIds
    /\ \A id \in DOMAIN order_index : order_index[id] \in [price : Prices, side : Sides]
    /\ NoEmptyLevel
    /\ QueuedIsIndexed
    /\ IndexedIsQueued
    /\ RestingIsLive
    /\ BookNotCrossed
    /\ TimePriority

(* An order leaves its level, filled (matchBuy, matchSell) or cancelled,   *)
(* and its id leaves the index.                                            *)
LEMMA RemoveKeepsLadders ==
    ASSUME LadderInv, ClockAdvances, next_timestamp \in Nat,
           NEW s \in Sides, NEW p \in DOMAIN book[s], NEW k \in 1..Len(book[s][p]),
           NEW R, Removed(R, book[s][p], k),
           book' = [book EXCEPT ![s] = StoreLevel(book[s], p, R)],
           order_index' = IndexErase(book[s][p][k].id)
    PROVE  LadderInv'
<1> DEFINE Q == book[s][p]
           From(t, q, j, i) == /\ book'[t][q][j] = book[t][q][i]
                               /\ (t = s /\ q = p) => i = Shift(j, k)
<1>0. /\ Q \in Seq(Order) /\ Len(Q) \in Nat /\ Len(R) \in Nat /\ R \in Seq(Order)
      /\ Len(R) = Len(Q) - 1
      /\ \A j \in 1..Len(R) : R[j] = Q[Shift(j, k)]
      /\ R = <<>> <=> Len(R) = 0
  BY DEF LadderInv, Removed, Shift
<1>1. /\ DOMAIN book' = Sides
      /\ \A t \in Sides \ {s} : book'[t] = book[t]
      /\ book'[s] = StoreLevel(book[s], p, R)
  BY DEF LadderInv
<1>2. /\ DOMAIN book'[s] \subseteq DOMAIN book[s]
      /\ \A q \in DOMAIN book[s] \ {p} : q \in DOMAIN book'[s] /\ book'[s][q] = book[s][q]
      /\ IF R = <<>> THEN p \notin DOMAIN book'[s]
                     ELSE p \in DOMAIN book'[s] /\ book'[s][p] = R
  BY <1>1, StoreLevelFacts
<1>3. \A t \in Sides : DOMAIN book'[t] \subseteq DOMAIN book[t]
  BY <1>1, <1>2
<1>4. \A t \in Sides : \A q \in DOMAIN book'[t] : <<t, q>> # <<s, p>> => book'[t][q] = book[t][q]
  BY <1>1, <1>2
<1>5. /\ DOMAIN order_index' = DOMAIN order_index \ {Q[k].id}
      /\ \A id \in DOMAIN order_index' : order_index'[id] = order_index[id]
  BY DEF IndexErase
<1>6. /\ Q[k].id \in DOMAIN order_index
      /\ order_index[Q[k].id] = [price |-> p, side |-> s]
      /\ \A i \in 1..Len(Q) : Q[i].id = Q[k].id => i = k
  BY DEF LadderInv, QueuedIsIndexed, contains
<1>u. \A t \in Sides : \A q \in DOMAIN book[t] : \A i, n \in 1..Len(book[t][q]) :
         book[t][q][n].id = book[t][q][i].id => n = i
  BY DEF LadderInv, QueuedIsIndexed
(* Every order in the new book was in the old one, at the same level.      *)
<1>7. \A t \in Sides : \A q \in DOMAIN book'[t] : \A j \in 1..Len(book'[t][q]) :
         \E i \in 1..Len(book[t][q]) : From(t, q, j, i)
  <2> TAKE t \in Sides
  <2> TAKE q \in DOMAIN book'[t]
  <2> TAKE j \in 1..Len(book'[t][q])
  <2>1. CASE t = s /\ q = p
    <3>1. book'[t][q] = R
      BY <2>1, <1>2
    <3>2. Shift(j, k) \in 1..Len(Q)
      BY <3>1, <1>0 DEF Shift
    <3> QED BY <2>1, <3>1, <3>2, <1>0
  <2>2. CASE ~(t = s /\ q = p)
    BY <2>2, <1>4
  <2> QED BY <2>1, <2>2
<1> HIDE DEF From
<1>8. /\ \A t \in Sides : DOMAIN book'[t] \subseteq Prices
      /\ \A t \in Sides : \A q \in DOMAIN book'[t] :
            book'[t][q] \in Seq(Order) /\ book'[t][q] # <<>>
  <2>1. \A t \in Sides : \A q \in DOMAIN book[t] : book[t][q] \in Seq(Order) /\ book[t][q] # <<>>
    BY DEF LadderInv, NoEmptyLevel
  <2>2. \A t \in Sides : DOMAIN book'[t] \subseteq Prices
    BY <1>3 DEF LadderInv
  <2>3. ASSUME NEW t \in Sides, NEW q \in DOMAIN book'[t]
        PROVE  book'[t][q] \in Seq(Order) /\ book'[t][q] # <<>>
    <3>1. CASE t = s /\ q = p
      BY <3>1, <1>0, <1>2
    <3>2. CASE ~(t = s /\ q = p)
      BY <3>2, <2>1, <1>3, <1>4
    <3> QED BY <3>1, <3>2
  <2> QED BY <2>2, <2>3
<1>9. /\ DOMAIN order_index' \subseteq OrderIds
      /\ \A id \in DOMAIN order_index' : order_index'[id] \in [price : Prices, side : Sides]
  BY <1>5 DEF LadderInv
<1>10. QueuedIsIndexed'
  <2> SUFFICES ASSUME NEW t \in Sides, NEW q \in DOMAIN book'[t],
                      NEW j \in 1..Len(book'[t][q])
               PROVE  /\ book'[t][q][j].id \in DOMAIN order_index'
                      /\ order_index'[book'[t][q][j].id] = [price |-> q, side |-> t]
                      /\ \A m \in 1..Len(book'[t][q]) :
                            book'[t][q][m].id = book'[t][q][j].id => m = j
    BY DEF QueuedIsIndexed, contains
  <2>0. q \in DOMAIN book[t] /\ Len(book'[t][q]) \in Nat
    BY <1>3, <1>8
  <2>a. PICK i \in 1..Len(book[t][q]) : From(t, q, j, i)
    BY <1>7
  <2>1. /\ book'[t][q][j] = book[t][q][i]
        /\ (t = s /\ q = p) => i = Shift(j, k)
    BY <2>a DEF From
  <2>2. /\ book[t][q][i].id \in DOMAIN order_index
        /\ order_index[book[t][q][i].id] = [price |-> q, side |-> t]
        /\ \A m \in 1..Len(book[t][q]) : book[t][q][m].id = book[t][q][i].id => m = i
    BY <2>0 DEF LadderInv, QueuedIsIndexed, contains
  <2>3. book[t][q][i].id # Q[k].id
    <3>1. CASE t = s /\ q = p
      <4>1. i # k
        BY <3>1, <2>0, <2>1 DEF Shift
      <4> QED BY <4>1, <3>1, <1>6, <2>1
    <3>2. CASE ~(t = s /\ q = p)
      BY <3>2, <2>2, <1>6
    <3> QED BY <3>1, <3>2
  <2>4. ASSUME NEW m \in 1..Len(book'[t][q]), book'[t][q][m].id = book'[t][q][j].id
        PROVE  m = j
    <3>a. PICK h \in 1..Len(book[t][q]) : From(t, q, m, h)
      BY <1>7
    <3>1. /\ book'[t][q][m] = book[t][q][h]
          /\ (t = s /\ q = p) => h = Shift(m, k)
      BY <3>a DEF From
    <3>2. h = i
      BY <3>1, <2>1, <2>2, <2>4
    <3>3. CASE t = s /\ q = p
      BY <3>1, <3>2, <3>3, <2>0, <2>1 DEF Shift
    <3>4. CASE ~(t = s /\ q = p)
      <4>1. book'[t][q] = book[t][q]
        BY <3>4, <1>4
      <4>2. j \in 1..Len(book[t][q]) /\ m \in 1..Len(book[t][q])
        BY <4>1
      <4>3. book[t][q][m].id = book[t][q][j].id
        BY <4>1, <2>4
      <4> QED BY <4>2, <4>3, <2>0, <1>u
    <3> QED BY <3>3, <3>4
  <2> QED BY <2>1, <2>2, <2>3, <2>4, <1>5
<1>11. IndexedIsQueued'
  <2> SUFFICES ASSUME NEW id \in DOMAIN order_index'
               PROVE  Located(id)' # {}
    BY DEF IndexedIsQueued
  <2> DEFINE t == order_index[id].side
             q == order_index[id].price
  <2>1. id \in DOMAIN order_index /\ order_index'[id] = order_index[id] /\ id # Q[k].id
    BY <1>5
  <2>2. t \in Sides
    BY <2>1 DEF LadderInv
  <2>3. PICK i \in Positions(QueueAt(book[t], q), id) : TRUE
    BY <2>1 DEF LadderInv, IndexedIsQueued, Located, contains
  <2>4. q \in DOMAIN book[t] /\ i \in 1..Len(book[t][q]) /\ book[t][q][i].id = id
    BY <2>3 DEF Positions, QueueAt
  <2>5. \E j : q \in DOMAIN book'[t] /\ j \in 1..Len(book'[t][q]) /\ book'[t][q][j].id = id
    <3>1. CASE t = s /\ q = p
      <4> DEFINE j == IF i < k THEN i ELSE i - 1
      <4>1. i # k
        BY <3>1, <2>1, <2>4
      <4>2. j \in 1..Len(R) /\ i = Shift(j, k)
        BY <4>1, <3>1, <2>4, <1>0 DEF Shift
      <4>3. R[j] = Q[i]
        BY <4>2, <1>0
      <4>4. p \in DOMAIN book'[s] /\ book'[s][p] = R
        BY <4>2, <1>0, <1>2
      <4> HIDE DEF j
      <4> QED BY <4>2, <4>3, <4>4, <3>1, <2>4
    <3>2. CASE ~(t = s /\ q = p)
      <4>1. q \in DOMAIN book'[t]
        BY <3>2, <2>2, <2>4, <1>1, <1>2
      <4> QED BY <4>1, <3>2, <2>2, <2>4, <1>4
    <3> QED BY <3>1, <3>2
  <2> QED BY <2>1, <2>5 DEF Located, contains, Positions, QueueAt
<1>12. RestingIsLive'
  <2> SUFFICES ASSUME NEW t \in Sides, NEW q \in DOMAIN book'[t],
                      NEW j \in 1..Len(book'[t][q])
               PROVE  LET o == book'[t][q][j]
                      IN  o.quantity > 0 /\ o.type = "Limit" /\ o.price_ticks = q /\ o.side = t
    BY DEF RestingIsLive
  <2>1. q \in DOMAIN book[t]
    BY <1>3
  <2>a. PICK i \in 1..Len(book[t][q]) : From(t, q, j, i)
    BY <1>7
  <2>2. book'[t][q][j] = book[t][q][i]
    BY <2>a DEF From
  <2>3. LET o == book[t][q][i]
        IN  o.quantity > 0 /\ o.type = "Limit" /\ o.price_ticks = q /\ o.side = t
    BY <2>1 DEF LadderInv, RestingIsLive
  <2> QED BY <2>2, <2>3
<1>13. BookNotCrossed'
  BY <1>3 DEF LadderInv, BookNotCrossed, Sides
<1>14. TimePriority'
  <2> SUFFICES ASSUME NEW t \in Sides, NEW q \in DOMAIN book'[t],
                      NEW j \in 1..Len(book'[t][q])
               PROVE  /\ book'[t][q][j].timestamp < next_timestamp'
                      /\ incoming' # NoOrder => book'[t][q][j].timestamp < incoming'.timestamp
                      /\ \A m \in 1..Len(book'[t][q]) :
                            j < m => book'[t][q][j].timestamp < book'[t][q][m].timestamp
    BY DEF TimePriority
  <2>0. q \in DOMAIN book[t] /\ Len(book'[t][q]) \in Nat
    BY <1>3, <1>8
  <2>a. PICK i \in 1..Len(book[t][q]) : From(t, q, j, i)
    BY <1>7
  <2>1. /\ book'[t][q][j] = book[t][q][i]
        /\ (t = s /\ q = p) => i = Shift(j, k)
    BY <2>a DEF From
  <2>2. book[t][q] \in Seq(Order)
    BY <2>0 DEF LadderInv
  <2>3. book[t][q][i] \in Order
    BY <2>2, ElementOfSeq
  <2>4. /\ book[t][q][i].timestamp < next_timestamp
        /\ incoming # NoOrder => book[t][q][i].timestamp < incoming.timestamp
        /\ \A m \in 1..Len(book[t][q]) :
              i < m => book[t][q][i].timestamp < book[t][q][m].timestamp
    BY <2>0 DEF LadderInv, TimePriority
  <2>5. book[t][q][i].timestamp < next_timestamp'
    BY <2>3, <2>4 DEF ClockAdvances, Order
  <2>6. ASSUME NEW m \in 1..Len(book'[t][q]), j < m
        PROVE  book'[t][q][j].timestamp < book'[t][q][m].timestamp
    <3>a. PICK h \in 1..Len(book[t][q]) : From(t, q, m, h)
      BY <1>7
    <3>1. /\ book'[t][q][m] = book[t][q][h]
          /\ (t = s /\ q = p) => h = Shift(m, k)
      BY <3>a DEF From
    <3>2. CASE t = s /\ q = p
      <4>1. i < h
        BY <3>1, <3>2, <2>0, <2>1, <2>6 DEF Shift
      <4> QED BY <4>1, <3>1, <2>1, <2>4
    <3>3. CASE ~(t = s /\ q = p)
      <4>1. book'[t][q] = book[t][q]
        BY <3>3, <1>4
      <4> QED BY <4>1, <2>0, <2>6 DEF LadderInv, TimePriority
    <3> QED BY <3>2, <3>3
  <2> QED BY <2>1, <2>4, <2>5, <2>6 DEF ClockAdvances
<1>15. NoEmptyLevel'
  BY <1>8 DEF NoEmptyLevel
<1> QED
  BY <1>1, <1>8, <1>9, <1>10, <1>11, <1>12, <1>13, <1>14, <1>15 DEF LadderInv

(* The order at a position keeps everything but its quantity.              *)
SameButQuantity(o, r) ==
    /\ o.id = r.id
    /\ o.type = r.type
    /\ o.side = r.side
    /\ o.price_ticks = r.price_ticks
    /\ o.timestamp = r.timestamp
    /\ o.quantity > 0

(* Any step that keeps the levels, their lengths and everything of every   *)
(* order but its quantity keeps the ladders.                               *)
LEMMA SameShapeKeepsLadders ==
    ASSUME LadderInv, ClockAdvances, next_timestamp \in Nat,
           DOMAIN book' = Sides,
           order_index' = order_index,
           \A t \in Sides : DOMAIN book'[t] = DOMAIN book[t],
           \A t \in Sides : \A q \in DOMAIN book[t] :
               /\ book'[t][q] \in Seq(Order)
               /\ Len(book'[t][q]) = Len(book[t][q])
               /\ \A j \in 1..Len(book[t][q]) : SameButQuantity(book'[t][q][j], book[t][q][j])
    PROVE  LadderInv'
<1>1. /\ \A t \in Sides : DOMAIN book'[t] \subseteq Prices
      /\ \A t \in Sides : \A q \in DOMAIN book'[t] : book'[t][q] \in Seq(Order)
  BY DEF LadderInv
<1>2. NoEmptyLevel'
  <2> SUFFICES ASSUME NEW t \in Sides, NEW q \in DOMAIN book[t]
               PROVE  book'[t][q] # <<>>
    BY DEF NoEmptyLevel
  <2> QED BY DEF LadderInv, NoEmptyLevel
<1>3. QueuedIsIndexed'
  <2>1. ASSUME NEW t \in Sides, NEW q \in DOMAIN book'[t], NEW j \in 1..Len(book'[t][q])
        PROVE  /\ book'[t][q][j].id \in DOMAIN order_index'
               /\ order_index'[book'[t][q][j].id] = [price |-> q, side |-> t]
               /\ \A m \in 1..Len(book'[t][q]) :
                     book'[t][q][m].id = book'[t][q][j].id => m = j
    <3>1. q \in DOMAIN book[t] /\ Len(book'[t][q]) = Len(book[t][q])
      OBVIOUS
    <3>2. \A m \in 1..Len(book[t][q]) : book'[t][q][m].id = book[t][q][m].id
      BY <3>1 DEF SameButQuantity
    <3>3. /\ book[t][q][j].id \in DOMAIN order_index
          /\ order_index[book[t][q][j].id] = [price |-> q, side |-> t]
          /\ \A m \in 1..Len(book[t][q]) : book[t][q][m].id = book[t][q][j].id => m = j
      BY <3>1 DEF LadderInv, QueuedIsIndexed, contains
    <3> QED BY <3>1, <3>2, <3>3
  <2> QED BY <2>1 DEF QueuedIsIndexed, contains
<1>4. IndexedIsQueued'
  <2> SUFFICES ASSUME NEW id \in DOMAIN order_index
               PROVE  Located(id)' # {}
    BY DEF IndexedIsQueued
  <2> DEFINE t == order_index[id].side
             q == order_index[id].price
  <2>1. t \in Sides
    BY DEF LadderInv
  <2>2. PICK i \in Positions(QueueAt(book[t], q), id) : TRUE
    BY DEF LadderInv, IndexedIsQueued, Located, contains
  <2>3. q \in DOMAIN book[t] /\ i \in 1..Len(book[t][q]) /\ book[t][q][i].id = id
    BY <2>2 DEF Positions, QueueAt
  <2>4. q \in DOMAIN book'[t] /\ i \in 1..Len(book'[t][q]) /\ book'[t][q][i].id = id
    BY <2>1, <2>3 DEF SameButQuantity
  <2> QED BY <2>4 DEF Located, contains, Positions, QueueAt
<1>5. RestingIsLive'
  <2> SUFFICES ASSUME NEW t \in Sides, NEW q \in DOMAIN book[t], NEW j \in 1..Len(book[t][q])
               PROVE  /\ book'[t][q][j].quantity > 0
                      /\ book'[t][q][j].type = "Limit"
                      /\ book'[t][q][j].price_ticks = q
                      /\ book'[t][q][j].side = t
    BY DEF RestingIsLive
  <2> QED BY DEF LadderInv, RestingIsLive, SameButQuantity
<1>6. BookNotCrossed'
  BY DEF LadderInv, BookNotCrossed, Sides
<1>7. TimePriority'
  <2> SUFFICES ASSUME NEW t \in Sides, NEW q \in DOMAIN book[t], NEW j \in 1..Len(book[t][q])
               PROVE  /\ book'[t][q][j].timestamp < next_timestamp'
                      /\ incoming' # NoOrder => book'[t][q][j].timestamp < incoming'.timestamp
                      /\ \A m \in 1..Len(book[t][q]) :
                            j < m => book'[t][q][j].timestamp < book'[t][q][m].timestamp
    BY DEF TimePriority
  <2>1. book[t][q][j] \in Order
    BY ElementOfSeq DEF LadderInv
  <2>2. /\ book[t][q][j].timestamp < next_timestamp
        /\ incoming # NoOrder => book[t][q][j].timestamp < incoming.timestamp
        /\ \A m \in 1..Len(book[t][q]) :
              j < m => book[t][q][j].timestamp < book[t][q][m].timestamp
    BY DEF LadderInv, TimePriority
  <2>3. \A m \in 1..Len(book[t][q]) : book'[t][q][m].timestamp = book[t][q][m].timestamp
    BY DEF SameButQuantity
  <2>4. book[t][q][j].timestamp < next_timestamp'
    BY <2>1, <2>2 DEF ClockAdvances, Order
  <2> QED BY <2>2, <2>3, <2>4 DEF ClockAdvances
<1> QED
  BY <1>1, <1>2, <1>3, <1>4, <1>5, <1>6, <1>7 DEF LadderInv

(* R is the queue Q in which quantities changed, to other positive ones.   *)
Shrunk(R, Q) ==
    /\ R \in Seq(Order)
    /\ Len(R) = Len(Q)
    /\ R # <<>>
    /\ \A j \in 1..Len(Q) : SameButQuantity(R[j], Q[j])

(* A partial fill of the front order shrinks the queue in this sense.      *)
LEMMA PartialFillShrinks ==
    ASSUME NEW Q \in Seq(Order), Q # <<>>, NEW n \in Nat \ {0},
           \A j \in 1..Len(Q) : Q[j].quantity > 0
    PROVE  Shrunk([Q EXCEPT ![1].quantity = n], Q)
<1> DEFINE o == [Q[1] EXCEPT !.quantity = n]
           R == [Q EXCEPT ![1].quantity = n]
<1>0. Len(Q) \in Nat /\ 1 \in 1..Len(Q) /\ Q[1] \in Order
  OBVIOUS
<1>1. o \in Order /\ SameButQuantity(o, Q[1])
  <2>1. \A r \in Order : /\ [r EXCEPT !.quantity = n] \in Order
                          /\ SameButQuantity([r EXCEPT !.quantity = n], r)
    BY DEF Order, SameButQuantity
  <2> QED BY <1>0, <2>1
<1>2. R = [Q EXCEPT ![1] = o]
  OBVIOUS
<1> HIDE DEF o, R
<1>3. R \in Seq(Order) /\ Len(R) = Len(Q) /\ R[1] = o /\ \A j \in 2..Len(Q) : R[j] = Q[j]
  BY <1>0, <1>1, <1>2, ExceptSeq
<1>4. \A j \in 1..Len(Q) : SameButQuantity(R[j], Q[j])
  <2>1. \A j \in 1..Len(Q) : j = 1 \/ j \in 2..Len(Q)
    BY <1>0
  <2>2. \A j \in 2..Len(Q) : SameButQuantity(R[j], Q[j])
    BY <1>0, <1>3 DEF SameButQuantity
  <2> QED BY <2>1, <2>2, <1>1, <1>3
<1>5. R # <<>>
  BY <1>0, <1>3
<1> QED BY <1>3, <1>4, <1>5 DEF Shrunk, R

(* The front order of a level is filled in part: it keeps its place.       *)
LEMMA ShrinkKeepsLadders ==
    ASSUME LadderInv, ClockAdvances, next_timestamp \in Nat,
           NEW s \in Sides, NEW p \in DOMAIN book[s], NEW R, Shrunk(R, book[s][p]),
           book' = [book EXCEPT ![s] = StoreLevel(book[s], p, R)],
           order_index' = order_index
    PROVE  LadderInv'
<1>1. /\ DOMAIN book' = Sides
      /\ \A t \in Sides \ {s} : book'[t] = book[t]
      /\ book'[s] = StoreLevel(book[s], p, R)
  BY DEF LadderInv
<1>2. /\ DOMAIN book'[s] \subseteq DOMAIN book[s]
      /\ \A q \in DOMAIN book[s] \ {p} : q \in DOMAIN book'[s] /\ book'[s][q] = book[s][q]
      /\ IF R = <<>> THEN p \notin DOMAIN book'[s]
                     ELSE p \in DOMAIN book'[s] /\ book'[s][p] = R
  BY <1>1, StoreLevelFacts
<1>3. p \in DOMAIN book'[s] /\ book'[s][p] = R
  BY <1>2 DEF Shrunk
<1>4. \A t \in Sides : DOMAIN book'[t] = DOMAIN book[t]
  BY <1>1, <1>2, <1>3
<1>5. ASSUME NEW t \in Sides, NEW q \in DOMAIN book[t]
      PROVE  /\ book'[t][q] \in Seq(Order)
             /\ Len(book'[t][q]) = Len(book[t][q])
             /\ \A j \in 1..Len(book[t][q]) : SameButQuantity(book'[t][q][j], book[t][q][j])
  <2>1. CASE t = s /\ q = p
    BY <2>1, <1>3 DEF Shrunk
  <2>2. CASE ~(t = s /\ q = p)
    <3>1. book'[t][q] = book[t][q]
      BY <2>2, <1>1, <1>2
    <3>2. \A j \in 1..Len(book[t][q]) : book[t][q][j].quantity > 0
      BY DEF LadderInv, RestingIsLive
    <3> QED BY <3>1, <3>2 DEF LadderInv, SameButQuantity
  <2> QED BY <2>1, <2>2
<1> QED
  BY <1>1, <1>4, <1>5, SameShapeKeepsLadders

(* R is the queue Q with the order o behind it: push_back.                 *)
Joined(R, Q, o) ==
    /\ R \in Seq(Order)
    /\ Len(R) = Len(Q) + 1
    /\ \A j \in 1..Len(Q) : R[j] = Q[j]
    /\ R[Len(Q) + 1] = o

(* Append to a queue joins the order to it.                                *)
LEMMA AppendJoins ==
    ASSUME NEW Q \in Seq(Order), NEW o \in Order
    PROVE  Joined(Append(Q, o), Q, o)
BY AppendProperties DEF Joined

(* The remainder o of a limit order rests behind the orders of its level,  *)
(* if it is younger than they are and does not cross the other side.       *)
LEMMA EnterKeepsLadders ==
    ASSUME LadderInv, next_timestamp \in Nat,
           next_timestamp' = next_timestamp, incoming' = NoOrder,
           NEW s \in Sides, NEW p \in Prices, NEW o \in Order,
           o.side = s, o.price_ticks = p, o.type = "Limit", o.quantity > 0,
           o.id \notin DOMAIN order_index, o.timestamp < next_timestamp,
           \A t \in Sides : \A q \in DOMAIN book[t] : \A i \in 1..Len(book[t][q]) :
               book[t][q][i].timestamp < o.timestamp,
           \A q \in DOMAIN book[Opposite(s)] : IF s = "Buy" THEN p < q ELSE q < p,
           NEW R, Joined(R, QueueAt(book[s], p), o),
           book' = [book EXCEPT ![s] = PutLevel(book[s], p, R)],
           order_index' = IndexPut(o.id, [price |-> p, side |-> s])
    PROVE  LadderInv'
<1> DEFINE Q == QueueAt(book[s], p)
           Old(t, q, j) == /\ q \in DOMAIN book[t]
                           /\ j \in 1..Len(book[t][q])
                           /\ book'[t][q][j] = book[t][q][j]
           New(t, q, j) == /\ t = s /\ q = p
                           /\ j = Len(book'[t][q])
                           /\ book'[t][q][j] = o
<1>0. /\ Q \in Seq(Order) /\ Len(Q) \in Nat /\ R \in Seq(Order) /\ R # <<>>
      /\ Len(R) = Len(Q) + 1 /\ R[Len(R)] = o
      /\ \A j \in 1..Len(Q) : R[j] = Q[j]
  <2>1. Q \in Seq(Order)
    BY EmptySeq DEF LadderInv, QueueAt
  <2> HIDE DEF Q
  <2>2. Joined(R, Q, o)
    BY DEF Q
  <2> QED BY <2>1, <2>2 DEF Joined
<1>1. /\ DOMAIN book' = Sides
      /\ \A t \in Sides \ {s} : book'[t] = book[t]
      /\ book'[s] = PutLevel(book[s], p, R)
  BY DEF LadderInv
<1>2. /\ DOMAIN book'[s] = DOMAIN book[s] \cup {p}
      /\ \A q \in DOMAIN book[s] \ {p} : book'[s][q] = book[s][q]
      /\ book'[s][p] = R
  BY <1>1 DEF PutLevel
<1>3. \A t \in Sides : DOMAIN book[t] \subseteq DOMAIN book'[t]
  BY <1>1, <1>2
<1>4. \A t \in Sides : \A q \in DOMAIN book'[t] :
         ~(t = s /\ q = p) => q \in DOMAIN book[t] /\ book'[t][q] = book[t][q]
  BY <1>1, <1>2
<1>5. /\ DOMAIN order_index' = DOMAIN order_index \cup {o.id}
      /\ \A id \in DOMAIN order_index : order_index'[id] = order_index[id]
      /\ order_index'[o.id] = [price |-> p, side |-> s]
  BY DEF IndexPut
(* Every order of the new book is an old one at its old place, or o.       *)
<1>6. ASSUME NEW t \in Sides, NEW q \in DOMAIN book'[t], NEW j \in 1..Len(book'[t][q])
      PROVE  Old(t, q, j) \/ New(t, q, j)
  <2>1. CASE t = s /\ q = p
    <3>1. book'[t][q] = R
      BY <2>1, <1>2
    <3>2. CASE j \in 1..Len(Q)
      <4>1. p \in DOMAIN book[s] /\ Q = book[s][p]
        BY <3>2, <1>0 DEF QueueAt
      <4> QED BY <4>1, <3>1, <3>2, <2>1, <1>0
    <3>3. CASE j \notin 1..Len(Q)
      <4>1. j = Len(R)
        BY <3>1, <3>3, <1>0
      <4> QED BY <4>1, <3>1, <2>1, <1>0
    <3> QED BY <3>2, <3>3
  <2>2. CASE ~(t = s /\ q = p)
    BY <2>2, <1>4
  <2> QED BY <2>1, <2>2
<1>7. \A t \in Sides : \A q \in DOMAIN book[t] : \A j \in 1..Len(book[t][q]) :
         j \in 1..Len(book'[t][q]) /\ book'[t][q][j] = book[t][q][j]
  <2> SUFFICES ASSUME NEW t \in Sides, NEW q \in DOMAIN book[t], NEW j \in 1..Len(book[t][q])
               PROVE  j \in 1..Len(book'[t][q]) /\ book'[t][q][j] = book[t][q][j]
    OBVIOUS
  <2>1. CASE t = s /\ q = p
    <3>1. Q = book[s][p] /\ book'[t][q] = R
      BY <2>1, <1>2 DEF QueueAt
    <3> QED BY <3>1, <2>1, <1>0
  <2>2. CASE ~(t = s /\ q = p)
    BY <2>2, <1>3, <1>4
  <2> QED BY <2>1, <2>2
<1> HIDE DEF Q, Old, New
<1>8. /\ \A t \in Sides : DOMAIN book'[t] \subseteq Prices
      /\ \A t \in Sides : \A q \in DOMAIN book'[t] :
            book'[t][q] \in Seq(Order) /\ book'[t][q] # <<>>
  <2>1. \A t \in Sides : \A q \in DOMAIN book[t] : book[t][q] \in Seq(Order) /\ book[t][q] # <<>>
    BY DEF LadderInv, NoEmptyLevel
  <2>2. \A t \in Sides : DOMAIN book'[t] \subseteq Prices
    BY <1>1, <1>2 DEF LadderInv
  <2>3. ASSUME NEW t \in Sides, NEW q \in DOMAIN book'[t]
        PROVE  book'[t][q] \in Seq(Order) /\ book'[t][q] # <<>>
    <3>1. CASE t = s /\ q = p
      BY <3>1, <1>0, <1>2
    <3>2. CASE ~(t = s /\ q = p)
      BY <3>2, <2>1, <1>4
    <3> QED BY <3>1, <3>2
  <2> QED BY <2>2, <2>3
<1>9. /\ DOMAIN order_index' \subseteq OrderIds
      /\ \A id \in DOMAIN order_index' : order_index'[id] \in [price : Prices, side : Sides]
  <2>1. o.id \in OrderIds
    BY DEF Order
  <2> QED BY <2>1, <1>5 DEF LadderInv
<1>10. QueuedIsIndexed'
  <2>1. ASSUME NEW t \in Sides, NEW q \in DOMAIN book[t], NEW j \in 1..Len(book[t][q])
        PROVE  /\ book[t][q][j].id \in DOMAIN order_index
               /\ order_index[book[t][q][j].id] = [price |-> q, side |-> t]
               /\ \A m \in 1..Len(book[t][q]) : book[t][q][m].id = book[t][q][j].id => m = j
    BY DEF LadderInv, QueuedIsIndexed, contains
  <2>2. ASSUME NEW t \in Sides, NEW q \in DOMAIN book'[t], NEW j \in 1..Len(book'[t][q])
        PROVE  /\ book'[t][q][j].id \in DOMAIN order_index'
               /\ order_index'[book'[t][q][j].id] = [price |-> q, side |-> t]
    <3>1. CASE Old(t, q, j)
      BY <3>1, <2>1, <1>5 DEF Old
    <3>2. CASE New(t, q, j)
      BY <3>2, <1>5 DEF New
    <3> QED BY <3>1, <3>2, <1>6
  <2>3. ASSUME NEW t \in Sides, NEW q \in DOMAIN book'[t], NEW j \in 1..Len(book'[t][q]),
               NEW m \in 1..Len(book'[t][q]), book'[t][q][m].id = book'[t][q][j].id
        PROVE  m = j
    <3>1. Old(t, q, j) \/ New(t, q, j)
      BY <1>6
    <3>2. Old(t, q, m) \/ New(t, q, m)
      BY <1>6
    <3>3. ASSUME NEW h \in 1..Len(book'[t][q]), Old(t, q, h)
          PROVE  book'[t][q][h].id # o.id
      <4>1. q \in DOMAIN book[t] /\ h \in 1..Len(book[t][q]) /\ book'[t][q][h] = book[t][q][h]
        BY <3>3 DEF Old
      <4>2. book[t][q][h].id \in DOMAIN order_index
        BY <4>1, <2>1
      <4> QED BY <4>1, <4>2
    <3>4. CASE Old(t, q, j) /\ Old(t, q, m)
      <4>1. /\ q \in DOMAIN book[t] /\ j \in 1..Len(book[t][q]) /\ m \in 1..Len(book[t][q])
            /\ book[t][q][m].id = book[t][q][j].id
        BY <3>4, <2>3 DEF Old
      <4> QED BY <4>1, <2>1
    <3>5. CASE New(t, q, j) /\ New(t, q, m)
      BY <3>5 DEF New
    <3>6. CASE Old(t, q, j) /\ New(t, q, m)
      BY <3>6, <3>3, <2>3 DEF New
    <3>7. CASE New(t, q, j) /\ Old(t, q, m)
      BY <3>7, <3>3, <2>3 DEF New
    <3> QED BY <3>1, <3>2, <3>4, <3>5, <3>6, <3>7
  <2> SUFFICES ASSUME NEW t \in Sides, NEW q \in DOMAIN book'[t], NEW j \in 1..Len(book'[t][q])
               PROVE  /\ book'[t][q][j].id \in DOMAIN order_index'
                      /\ order_index'[book'[t][q][j].id] = [price |-> q, side |-> t]
                      /\ \A m \in 1..Len(book'[t][q]) :
                            book'[t][q][m].id = book'[t][q][j].id => m = j
    BY DEF QueuedIsIndexed, contains
  <2> QED BY <2>2, <2>3
<1>11. IndexedIsQueued'
  <2> SUFFICES ASSUME NEW id \in DOMAIN order_index'
               PROVE  Located(id)' # {}
    BY DEF IndexedIsQueued
  <2> DEFINE t == order_index'[id].side
             q == order_index'[id].price
  <2>1. \E i : q \in DOMAIN book'[t] /\ i \in 1..Len(book'[t][q]) /\ book'[t][q][i].id = id
    <3>1. CASE id = o.id
      <4>1. t = s /\ q = p
        BY <3>1, <1>5
      <4>2. p \in DOMAIN book'[s] /\ Len(R) \in 1..Len(book'[s][p]) /\ book'[s][p][Len(R)] = o
        BY <1>0, <1>2
      <4> QED BY <4>1, <4>2, <3>1
    <3>2. CASE id # o.id
      <4>1. id \in DOMAIN order_index /\ order_index'[id] = order_index[id]
        BY <3>2, <1>5
      <4>2. t \in Sides
        BY <4>1 DEF LadderInv
      <4>3. PICK i \in Positions(QueueAt(book[t], q), id) : TRUE
        BY <4>1 DEF LadderInv, IndexedIsQueued, Located, contains
      <4>4. q \in DOMAIN book[t] /\ i \in 1..Len(book[t][q]) /\ book[t][q][i].id = id
        BY <4>3 DEF Positions, QueueAt
      <4> HIDE DEF t, q
      <4> QED BY <4>2, <4>4, <1>3, <1>7
    <3> QED BY <3>1, <3>2
  <2> QED BY <2>1 DEF Located, contains, Positions, QueueAt
<1>12. RestingIsLive'
  <2>1. ASSUME NEW t \in Sides, NEW q \in DOMAIN book'[t], NEW j \in 1..Len(book'[t][q])
        PROVE  /\ book'[t][q][j].quantity > 0
               /\ book'[t][q][j].type = "Limit"
               /\ book'[t][q][j].price_ticks = q
               /\ book'[t][q][j].side = t
    <3>1. CASE Old(t, q, j)
      BY <3>1 DEF Old, LadderInv, RestingIsLive
    <3>2. CASE New(t, q, j)
      BY <3>2 DEF New
    <3> QED BY <3>1, <3>2, <1>6
  <2> QED BY <2>1 DEF RestingIsLive
<1>13. BookNotCrossed'
  <2>1. \A b \in DOMAIN book["Buy"], a \in DOMAIN book["Sell"] : b < a
    BY DEF LadderInv, BookNotCrossed
  <2>2. CASE s = "Buy"
    BY <2>1, <2>2, <1>1, <1>2 DEF BookNotCrossed, Opposite, Sides
  <2>3. CASE s = "Sell"
    BY <2>1, <2>3, <1>1, <1>2 DEF BookNotCrossed, Opposite, Sides
  <2> QED BY <2>2, <2>3 DEF Sides
<1>14. TimePriority'
  <2>1. ASSUME NEW t \in Sides, NEW q \in DOMAIN book'[t], NEW j \in 1..Len(book'[t][q])
        PROVE  book'[t][q][j].timestamp < next_timestamp
    <3>1. CASE Old(t, q, j)
      BY <3>1 DEF Old, LadderInv, TimePriority
    <3>2. CASE New(t, q, j)
      BY <3>2 DEF New
    <3> QED BY <3>1, <3>2, <1>6
  <2>2. ASSUME NEW t \in Sides, NEW q \in DOMAIN book'[t], NEW j \in 1..Len(book'[t][q]),
               NEW m \in 1..Len(book'[t][q]), j < m
        PROVE  book'[t][q][j].timestamp < book'[t][q][m].timestamp
    <3>0. Len(book'[t][q]) \in Nat
      BY <1>8
    <3>1. Old(t, q, j)
      <4>1. ~New(t, q, j)
        BY <2>2, <3>0 DEF New
      <4> QED BY <4>1, <1>6
    <3>2. CASE Old(t, q, m)
      BY <3>1, <3>2, <2>2 DEF Old, LadderInv, TimePriority
    <3>3. CASE New(t, q, m)
      BY <3>1, <3>3 DEF Old, New
    <3> QED BY <3>2, <3>3, <1>6
  <2> QED BY <2>1, <2>2 DEF TimePriority
<1>15. NoEmptyLevel'
  BY <1>8 DEF NoEmptyLevel
<1> QED
  BY <1>1, <1>8, <1>9, <1>10, <1>11, <1>12, <1>13, <1>14, <1>15 DEF LadderInv

-----------------------------------------------------------------------------
(* The types of what is not a ladder or the index.                         *)
LocalsOK ==
    /\ next_timestamp \in Nat
    /\ incoming \in Order \cup {NoOrder}
    /\ fills \in Seq(Fill)
    /\ returned \in Reply

(* BookInv is LadderInv together with what concerns the call in progress.  *)
LEMMA BookInvParts == BookInv <=> LadderInv /\ LocalsOK /\ IncomingNotQueued
BY DEF BookInv, BookTypeOK, LadderInv, LocalsOK

(* The empty book satisfies the invariant.                                 *)
LEMMA InitBookInv == BookInit => BookInv
<1> SUFFICES ASSUME BookInit PROVE BookInv
  OBVIOUS
<1>1. DOMAIN book = Sides /\ \A s \in Sides : DOMAIN book[s] = {}
  BY DEF BookInit, NoLevels
<1>2. DOMAIN order_index = {}
  BY DEF BookInit
<1>3. LadderInv
  BY <1>1, <1>2 DEF LadderInv, NoEmptyLevel, QueuedIsIndexed, IndexedIsQueued, RestingIsLive,
                    BookNotCrossed, TimePriority, Sides
<1>4. LocalsOK
  BY DEF BookInit, LocalsOK, Reply
<1>5. IncomingNotQueued
  BY DEF BookInit, IncomingNotQueued
<1> QED BY <1>3, <1>4, <1>5, BookInvParts

(* SubmitBegin changes neither the ladders nor the index.                  *)
LEMMA SubmitBeginKeepsInv ==
    ASSUME BookInv, NEW id \in OrderIds, NEW side \in Sides, NEW type \in OrderTypes,
           NEW price \in Prices, NEW quantity \in Quantities,
           SubmitBegin(id, side, type, price, quantity)
    PROVE  BookInv'
<1>0. LadderInv /\ LocalsOK
  BY BookInvParts
<1>1. /\ incoming' \in Order
      /\ incoming'.timestamp = next_timestamp
      /\ incoming'.id = id
  BY <1>0, QuantitiesAssumption DEF SubmitBegin, Order, LocalsOK
<1>2. LocalsOK'
  BY <1>0, <1>1 DEF SubmitBegin, LocalsOK
<1>3. IncomingNotQueued'
  BY <1>0, <1>1 DEF SubmitBegin, IncomingNotQueued, contains, LocalsOK
<1>4. UNCHANGED <<book, order_index>>
  BY DEF SubmitBegin
<1>5. TimePriority'
  <2> SUFFICES ASSUME NEW t \in Sides, NEW q \in DOMAIN book[t], NEW j \in 1..Len(book[t][q])
               PROVE  /\ book[t][q][j].timestamp < next_timestamp'
                      /\ incoming' # NoOrder => book[t][q][j].timestamp < incoming'.timestamp
                      /\ \A m \in 1..Len(book[t][q]) :
                            j < m => book[t][q][j].timestamp < book[t][q][m].timestamp
    BY <1>4 DEF TimePriority
  <2>1. /\ book[t][q][j].timestamp < next_timestamp
        /\ \A m \in 1..Len(book[t][q]) :
              j < m => book[t][q][j].timestamp < book[t][q][m].timestamp
    BY <1>0 DEF LadderInv, TimePriority
  <2>2. book[t][q][j] \in Order
    BY <1>0, ElementOfSeq DEF LadderInv
  <2>3. book[t][q][j].timestamp < next_timestamp'
    BY <2>1, <2>2, <1>0 DEF SubmitBegin, LocalsOK, Order
  <2> QED BY <2>1, <2>3, <1>1
<1>6. LadderInv'
  BY <1>0, <1>4, <1>5 DEF LadderInv, NoEmptyLevel, QueuedIsIndexed, IndexedIsQueued, Located,
                          QueueAt, Positions, contains, RestingIsLive, BookNotCrossed
<1> QED BY <1>2, <1>3, <1>6, BookInvParts DEF BookInv, BookTypeOK, LadderInv, LocalsOK

(* One trade of the matching loop.                                         *)
LEMMA MatchOneKeepsInv ==
    ASSUME BookInv, MatchOne
    PROVE  BookInv'
<1> DEFINE other == Opposite(incoming.side)
<1>0. LadderInv /\ LocalsOK /\ IncomingNotQueued
  BY BookInvParts
<1>1. incoming \in Order /\ incoming # NoOrder /\ other \in Sides /\ incoming.quantity \in Nat
  BY <1>0 DEF MatchOne, LocalsOK, Opposite, Sides, Order
<1>2. PICK p \in DOMAIN book[other] : p = BestPrice(other)
  BY <1>0, <1>1, BestPriceIsBest DEF MatchOne, CanMatch, LadderInv
<1>3. PICK s \in Sides : s = other
  BY <1>1
<1> DEFINE Q == book[s][p]
<1>4. /\ p \in DOMAIN book[s] /\ p \in Prices
      /\ Q \in Seq(Order) /\ Q # <<>> /\ Len(Q) \in Nat /\ 1 \in 1..Len(Q) /\ Q[1] \in Order
      /\ \A j \in 1..Len(Q) : Q[j].quantity > 0
  BY <1>0, <1>2, <1>3 DEF LadderInv, NoEmptyLevel, RestingIsLive
<1>5. PICK n \in Nat : n = Smaller(incoming.quantity, Q[1].quantity)
  BY <1>1, <1>4 DEF Smaller, Order
<1>6. n > 0 /\ n <= incoming.quantity /\ n <= Q[1].quantity /\ Q[1].quantity \in Nat
  <2>1. incoming.quantity > 0
    BY DEF MatchOne, CanMatch
  <2>2. Q[1].quantity \in Nat /\ Q[1].quantity > 0
    BY <1>4 DEF Order
  <2> QED BY <1>1, <1>5, <2>1, <2>2 DEF Smaller
<1>7. /\ fills' = Append(fills, [resting_order_id |-> Q[1].id, incoming_order_id |-> incoming.id,
                                 resting_side |-> s, price_ticks |-> p, quantity |-> n,
                                 timestamp |-> next_timestamp])
      /\ next_timestamp' = next_timestamp + 1
      /\ incoming' = [incoming EXCEPT !.quantity = incoming.quantity - n]
      /\ book' = [book EXCEPT ![s] = StoreLevel(book[s], p, AfterTrade(Q, n))]
      /\ order_index' = IF Q[1].quantity = n THEN IndexErase(Q[1].id) ELSE order_index
      /\ returned' = returned
  BY <1>2, <1>3, <1>5 DEF MatchOne
<1>8. /\ incoming' \in Order
      /\ incoming'.id = incoming.id
      /\ incoming'.timestamp = incoming.timestamp
  <2>1. incoming.quantity - n \in Nat
    BY <1>1, <1>6
  <2> QED BY <2>1, <1>1, <1>7 DEF Order
<1>9. LocalsOK'
  <2>1. fills' \in Seq(Fill)
    BY <1>0, <1>1, <1>4, <1>7, AppendProperties DEF LocalsOK, Fill, Order
  <2> QED BY <2>1, <1>0, <1>7, <1>8 DEF LocalsOK
<1>10. ClockAdvances
  BY <1>0, <1>1, <1>7, <1>8 DEF ClockAdvances, LocalsOK
<1>11. DOMAIN order_index' \subseteq DOMAIN order_index
  BY <1>7 DEF IndexErase
<1>12. IncomingNotQueued'
  <2>1. incoming'.timestamp < next_timestamp'
    BY <1>0, <1>1, <1>7, <1>8 DEF IncomingNotQueued, LocalsOK, Order
  <2> QED BY <2>1, <1>0, <1>1, <1>8, <1>11 DEF IncomingNotQueued, contains
<1>13. LadderInv'
  <2>1. CASE Q[1].quantity = n
    <3>1. PICK R : R = Tail(Q)
      OBVIOUS
    <3>2. Removed(R, Q, 1)
      BY <3>1, <1>4, TailRemoves
    <3>3. book' = [book EXCEPT ![s] = StoreLevel(book[s], p, R)]
      BY <3>1, <2>1, <1>7 DEF AfterTrade
    <3>4. order_index' = IndexErase(book[s][p][1].id)
      BY <2>1, <1>7
    <3>5. next_timestamp \in Nat
      BY <1>0 DEF LocalsOK
    <3> QED BY <3>2, <3>3, <3>4, <3>5, <1>0, <1>4, <1>10, RemoveKeepsLadders
  <2>2. CASE Q[1].quantity # n
    <3>1. PICK R : R = [Q EXCEPT ![1].quantity = Q[1].quantity - n]
      OBVIOUS
    <3>2. Q[1].quantity - n \in Nat \ {0}
      BY <2>2, <1>6
    <3>3. Shrunk(R, Q)
      BY <3>1, <3>2, <1>4, PartialFillShrinks
    <3>4. book' = [book EXCEPT ![s] = StoreLevel(book[s], p, R)]
      BY <3>1, <2>2, <1>7 DEF AfterTrade
    <3>5. order_index' = order_index
      BY <2>2, <1>7
    <3>6. next_timestamp \in Nat
      BY <1>0 DEF LocalsOK
    <3> QED BY <3>3, <3>4, <3>5, <3>6, <1>0, <1>4, <1>10, ShrinkKeepsLadders
  <2> QED BY <2>1, <2>2
<1> QED BY <1>9, <1>12, <1>13 DEF BookInv, BookTypeOK, LadderInv, LocalsOK

(* A cancelled order leaves its level and the index.                       *)
LEMMA CancelFoundKeepsInv ==
    ASSUME BookInv, NEW id \in OrderIds, CancelFound(id)
    PROVE  BookInv'
<1>0. LadderInv /\ LocalsOK /\ IncomingNotQueued
  BY BookInvParts
<1>1. id \in DOMAIN order_index
  BY DEF CancelFound, Located, contains
<1>2. PICK s \in Sides : s = order_index[id].side
  BY <1>0, <1>1 DEF LadderInv
<1>3. PICK p \in Prices : p = order_index[id].price
  BY <1>0, <1>1 DEF LadderInv
<1> DEFINE Q == book[s][p]
<1>4. Located(id) = Positions(QueueAt(book[s], p), id) /\ Located(id) # {}
  BY <1>1, <1>2, <1>3 DEF CancelFound, Located, contains
<1>5. PICK i \in Located(id) : TRUE
  BY <1>4
<1>6. p \in DOMAIN book[s] /\ i \in 1..Len(Q) /\ Q[i].id = id
  BY <1>4, <1>5 DEF Positions, QueueAt
<1>7. Located(id) = {i}
  <2>1. \A j \in Located(id) : j \in 1..Len(Q) /\ Q[j].id = id
    BY <1>4, <1>6 DEF Positions, QueueAt
  <2>2. \A j \in 1..Len(Q) : Q[j].id = id => j = i
    BY <1>0, <1>6 DEF LadderInv, QueuedIsIndexed
  <2> QED BY <2>1, <2>2, <1>5
<1>8. (CHOOSE k \in Located(id) : \A j \in Located(id) : k <= j) = i
  BY <1>6, <1>7
<1>9. PICK R : R = RemoveAtPosition(Q, i)
  OBVIOUS
<1>10. Q \in Seq(Order)
  BY <1>0, <1>6 DEF LadderInv
<1>11. Removed(R, Q, i)
  BY <1>6, <1>9, <1>10, RemoveAtRemoves
<1>12. book' = [book EXCEPT ![s] = StoreLevel(book[s], p, R)]
  BY <1>2, <1>3, <1>8, <1>9 DEF CancelFound
<1>13. order_index' = IndexErase(book[s][p][i].id)
  BY <1>6 DEF CancelFound
<1>14. ClockAdvances /\ next_timestamp \in Nat
  BY <1>0 DEF CancelFound, ClockAdvances, LocalsOK
<1>15. LadderInv'
  BY <1>0, <1>6, <1>11, <1>12, <1>13, <1>14, RemoveKeepsLadders
<1>16. LocalsOK' /\ IncomingNotQueued'
  BY <1>0 DEF CancelFound, LocalsOK, IncomingNotQueued, Reply
<1> QED BY <1>15, <1>16 DEF BookInv, BookTypeOK, LadderInv, LocalsOK

(* A limit order that the loop left with quantity does not cross the book. *)
LEMMA RemainderDoesNotCross ==
    ASSUME BookInv, incoming # NoOrder, ~CanMatch, Rests(incoming)
    PROVE  \A q \in DOMAIN book[Opposite(incoming.side)] :
               IF incoming.side = "Buy" THEN incoming.price_ticks < q
                                        ELSE q < incoming.price_ticks
<1> DEFINE other == Opposite(incoming.side)
           best  == BestPrice(other)
<1>0. LadderInv /\ LocalsOK
  BY BookInvParts
<1>1. incoming \in Order /\ other \in Sides /\ incoming.side \in Sides
  BY <1>0 DEF LocalsOK, Opposite, Sides, Order
<1> SUFFICES ASSUME NEW q \in DOMAIN book[other]
             PROVE  IF incoming.side = "Buy" THEN incoming.price_ticks < q
                                             ELSE q < incoming.price_ticks
  OBVIOUS
<1>2. DOMAIN book[other] \subseteq Prices
  BY <1>0, <1>1 DEF LadderInv
<1>3. best \in DOMAIN book[other] /\ (q = best \/ Better(other, best, q))
  BY <1>1, <1>2, BestPriceIsBest
<1>4. incoming.type = "Limit" /\ ~Crosses(incoming, best)
  BY DEF Rests, CanMatch
<1>5. q \in Int /\ best \in Int /\ incoming.price_ticks \in Int
  BY <1>1, <1>2, <1>3, PricesAssumption DEF Order, Prices
<1> HIDE DEF best
<1>6. CASE incoming.side = "Buy"
  BY <1>3, <1>4, <1>5, <1>6 DEF Crosses, Better, Opposite
<1>7. CASE incoming.side = "Sell"
  BY <1>3, <1>4, <1>5, <1>7 DEF Crosses, Better, Opposite
<1> QED BY <1>1, <1>6, <1>7 DEF Sides

(* submit returns, with or without something to rest.                      *)
LEMMA ReturnKeepsInv ==
    ASSUME BookInv, Return
    PROVE  BookInv'
<1>0. LadderInv /\ LocalsOK /\ IncomingNotQueued
  BY BookInvParts
<1>1. PICK o \in Order : o = incoming
  BY <1>0 DEF Return, LocalsOK
<1>2. incoming # NoOrder /\ ~CanMatch
  BY DEF Return
<1>3. /\ o.id \in OrderIds /\ o.side \in Sides /\ o.price_ticks \in Prices
      /\ o.quantity \in Nat /\ o.timestamp \in Nat
  BY DEF Order
<1>4. incoming' = NoOrder /\ fills' = <<>> /\ next_timestamp' = next_timestamp
  BY DEF Return
<1>5. LocalsOK' /\ IncomingNotQueued'
  BY <1>0, <1>1, <1>3, <1>4 DEF Return, LocalsOK, IncomingNotQueued, Reply
<1>6. LadderInv'
  <2>1. CASE Rests(incoming)
    <3>1. PICK s \in Sides : s = o.side
      BY <1>3
    <3>2. PICK p \in Prices : p = o.price_ticks
      BY <1>3
    <3>3. PICK R : R = Append(QueueAt(book[s], p), o)
      OBVIOUS
    <3>4. QueueAt(book[s], p) \in Seq(Order)
      BY <1>0, EmptySeq DEF LadderInv, QueueAt
    <3>5. Joined(R, QueueAt(book[s], p), o)
      BY <3>3, <3>4, AppendJoins
    <3>6. /\ book' = [book EXCEPT ![s] = PutLevel(book[s], p, R)]
          /\ order_index' = IndexPut(o.id, [price |-> p, side |-> s])
      BY <2>1, <1>1, <3>1, <3>2, <3>3 DEF Return
    <3>7. o.quantity > 0 /\ o.type = "Limit"
      BY <2>1, <1>1 DEF Rests
    <3>8. o.id \notin DOMAIN order_index /\ o.timestamp < next_timestamp
      BY <1>0, <1>1, <1>2 DEF IncomingNotQueued, contains
    <3>9. \A t \in Sides : \A q \in DOMAIN book[t] : \A i \in 1..Len(book[t][q]) :
             book[t][q][i].timestamp < o.timestamp
      BY <1>0, <1>1, <1>2 DEF LadderInv, TimePriority
    <3>10. \A q \in DOMAIN book[Opposite(s)] : IF s = "Buy" THEN p < q ELSE q < p
      BY <1>1, <1>2, <2>1, <3>1, <3>2, RemainderDoesNotCross
    <3>11. next_timestamp \in Nat
      BY <1>0 DEF LocalsOK
    <3> QED
      BY <1>0, <1>4, <3>1, <3>2, <3>5, <3>6, <3>7, <3>8, <3>9, <3>10, <3>11, EnterKeepsLadders
  <2>2. CASE ~Rests(incoming)
    <3>1. UNCHANGED <<book, order_index>>
      BY <2>2 DEF Return
    <3> QED BY <1>0, <1>4, <3>1 DEF LadderInv, NoEmptyLevel, QueuedIsIndexed, IndexedIsQueued,
            Located, QueueAt, Positions, contains, RestingIsLive, BookNotCrossed, TimePriority
  <2> QED BY <2>1, <2>2
<1> QED BY <1>5, <1>6 DEF BookInv, BookTypeOK, LadderInv, LocalsOK

(* Nothing but the reply changes when a call finds nothing to do.          *)
LEMMA ReplyOnlyKeepsInv ==
    ASSUME BookInv, returned' \in Reply,
           UNCHANGED <<book, order_index, next_timestamp, incoming, fills>>
    PROVE  BookInv'
BY DEF BookInv, BookTypeOK, NoEmptyLevel, QueuedIsIndexed, IndexedIsQueued, Located,
       QueueAt, Positions, contains, RestingIsLive, BookNotCrossed, TimePriority, IncomingNotQueued

(* BookInv is inductive.                                                   *)
LEMMA NextBookInv == BookInv /\ [BookNext]_bookVars => BookInv'
<1> SUFFICES ASSUME BookInv, [BookNext]_bookVars PROVE BookInv'
  OBVIOUS
<1>1. ASSUME NEW id \in OrderIds, NEW side \in Sides, NEW type \in OrderTypes,
             NEW price \in Prices, NEW quantity \in Quantities,
             SubmitBegin(id, side, type, price, quantity)
      PROVE  BookInv'
  BY <1>1, SubmitBeginKeepsInv
<1>2. ASSUME NEW id \in OrderIds, SubmitDuplicate(id) PROVE BookInv'
  BY <1>2, ReplyOnlyKeepsInv DEF SubmitDuplicate, Reply
<1>3. CASE MatchOne
  BY <1>3, MatchOneKeepsInv
<1>4. CASE Return
  BY <1>4, ReturnKeepsInv
<1>5. ASSUME NEW id \in OrderIds, CancelFound(id) PROVE BookInv'
  BY <1>5, CancelFoundKeepsInv
<1>6. ASSUME NEW id \in OrderIds, CancelNotFound(id) PROVE BookInv'
  BY <1>6, ReplyOnlyKeepsInv DEF CancelNotFound, Reply
<1>7. CASE UNCHANGED bookVars
  BY <1>7, ReplyOnlyKeepsInv DEF bookVars, BookInv, BookTypeOK
<1> QED BY <1>1, <1>2, <1>3, <1>4, <1>5, <1>6, <1>7 DEF BookNext

(* Every reachable state of the book satisfies BookInv.                    *)
THEOREM BookInvariant == BookSpec => []BookInv
BY InitBookInv, NextBookInv, PTL DEF BookSpec

(* Type correctness of the containers and of the call in progress.         *)
THEOREM TypeCorrect == BookSpec => []BookTypeOK
<1>1. BookInv => BookTypeOK
  BY DEF BookInv
<1> QED BY <1>1, BookInvariant, PTL

(* order_index_ and the ladders always agree, so cancel finds every        *)
(* resting order and contains() is exactly "is resting".                   *)
THEOREM IndexCorrect == BookSpec => []IndexMatchesBook
<1>1. BookInv => IndexMatchesBook
  BY DEF BookInv, IndexMatchesBook
<1> QED BY <1>1, BookInvariant, PTL

(* The book is never crossed, whatever is submitted and cancelled.         *)
THEOREM NeverCrossed == BookSpec => []BookNotCrossed
<1>1. BookInv => BookNotCrossed
  BY DEF BookInv
<1> QED BY <1>1, BookInvariant, PTL

(* Within a level the orders are always in order of arrival.               *)
THEOREM QueuesAreFifo == BookSpec => []TimePriority
<1>1. BookInv => TimePriority
  BY DEF BookInv
<1> QED BY <1>1, BookInvariant, PTL

(* No level of a ladder is ever empty.                                     *)
THEOREM LevelsAreNeverEmpty == BookSpec => []NoEmptyLevel
<1>1. BookInv => NoEmptyLevel
  BY DEF BookInv
<1> QED BY <1>1, BookInvariant, PTL

(* Whatever rests is a limit order with quantity left, in the level of its *)
(* own price and side: what best_bid, best_ask and snapshot report is      *)
(* there to be traded with.                                                *)
THEOREM RestingOrdersAreLive == BookSpec => []RestingIsLive
<1>1. BookInv => RestingIsLive
  BY DEF BookInv
<1> QED BY <1>1, BookInvariant, PTL

-----------------------------------------------------------------------------
(***************************************************************************)
(* The order book implements PriceTimePriority: the ladders, their queues  *)
(* and the index are a representation of a plain set of resting orders,    *)
(* and every step of submit and cancel is a step of the abstract           *)
(* specification on that set.                                              *)
(*                                                                         *)
(* A step changes one level of one ladder, so the set of resting orders is *)
(* cut in two: the orders in that level's queue and the orders elsewhere.  *)
(* BookInv does the rest: ids are unique (so taking one order out of a     *)
(* queue takes one order out of the set), an order carries the price and   *)
(* side of its level, and queues are in order of arrival (so the front     *)
(* order of the best level is ahead of every other eligible order).        *)
(***************************************************************************)

InQueue(Q) == {Q[i] : i \in 1..Len(Q)}

(* The orders of the book b that are not in the level p of side s.         *)
Elsewhere(b, s, p) ==
    UNION {UNION {InQueue(b[t][q]) : q \in {q \in DOMAIN b[t] : <<t, q>> # <<s, p>>}} : t \in Sides}

(* A resting order has a side, a level and a position...                   *)
LEMMA RestingMember ==
    /\ \A o : o \in RestingOrders <=>
          \E s \in Sides : \E p \in DOMAIN book[s] : \E i \in 1..Len(book[s][p]) :
             o = book[s][p][i]
    /\ \A o : o \in RestingOrders' <=>
          \E s \in Sides : \E p \in DOMAIN book'[s] : \E i \in 1..Len(book'[s][p]) :
             o = book'[s][p][i]
BY DEF RestingOrders

(* ... and an order elsewhere has one that is not in the level.            *)
LEMMA ElsewhereMember ==
    ASSUME NEW b, NEW s, NEW p
    PROVE  \A o : o \in Elsewhere(b, s, p) <=>
              \E t \in Sides : \E q \in DOMAIN b[t] : \E i \in 1..Len(b[t][q]) :
                 <<t, q>> # <<s, p>> /\ o = b[t][q][i]
BY DEF Elsewhere, InQueue

(* The resting orders, seen from one level.                                *)
LEMMA RestingSplits ==
    ASSUME NEW s \in Sides, NEW p
    PROVE  RestingOrders = InQueue(QueueAt(book[s], p)) \cup Elsewhere(book, s, p)
<1> DEFINE Q == QueueAt(book[s], p)
<1>1. ASSUME NEW o \in RestingOrders PROVE o \in InQueue(Q) \cup Elsewhere(book, s, p)
  <2>1. PICK t, q, i : /\ t \in Sides /\ q \in DOMAIN book[t] /\ i \in 1..Len(book[t][q])
                       /\ o = book[t][q][i]
    BY RestingMember
  <2>2. CASE <<t, q>> = <<s, p>>
    BY <2>1, <2>2 DEF InQueue, QueueAt
  <2>3. CASE <<t, q>> # <<s, p>>
    BY <2>1, <2>3, ElsewhereMember
  <2> QED BY <2>2, <2>3
<1>2. Elsewhere(book, s, p) \subseteq RestingOrders
  BY ElsewhereMember, RestingMember
<1>3. InQueue(Q) \subseteq RestingOrders
  <2>1. CASE p \in DOMAIN book[s]
    BY <2>1, RestingMember DEF InQueue, QueueAt
  <2>2. CASE p \notin DOMAIN book[s]
    BY <2>2 DEF InQueue, QueueAt
  <2> QED BY <2>1, <2>2
<1> QED BY <1>1, <1>2, <1>3

(* The same for the book after a step.                                     *)
LEMMA RestingSplitsAfter ==
    ASSUME NEW s \in Sides, NEW p
    PROVE  RestingOrders' = InQueue(QueueAt(book'[s], p)) \cup Elsewhere(book', s, p)
<1> DEFINE Q == QueueAt(book'[s], p)
<1>1. ASSUME NEW o \in RestingOrders' PROVE o \in InQueue(Q) \cup Elsewhere(book', s, p)
  <2>1. PICK t, q, i : /\ t \in Sides /\ q \in DOMAIN book'[t] /\ i \in 1..Len(book'[t][q])
                       /\ o = book'[t][q][i]
    BY RestingMember
  <2>2. CASE <<t, q>> = <<s, p>>
    BY <2>1, <2>2 DEF InQueue, QueueAt
  <2>3. CASE <<t, q>> # <<s, p>>
    BY <2>1, <2>3, ElsewhereMember
  <2> QED BY <2>2, <2>3
<1>2. Elsewhere(book', s, p) \subseteq RestingOrders'
  BY ElsewhereMember, RestingMember
<1>3. InQueue(Q) \subseteq RestingOrders'
  <2>1. CASE p \in DOMAIN book'[s]
    BY <2>1, RestingMember DEF InQueue, QueueAt
  <2>2. CASE p \notin DOMAIN book'[s]
    BY <2>2 DEF InQueue, QueueAt
  <2> QED BY <2>1, <2>2
<1> QED BY <1>1, <1>2, <1>3

(* Two books that agree on all other levels have the same orders there.    *)
LEMMA ElsewhereAgrees ==
    ASSUME NEW b, NEW c, NEW s, NEW p,
           \A t \in Sides : \A q : <<t, q>> # <<s, p>> =>
              /\ q \in DOMAIN c[t] <=> q \in DOMAIN b[t]
              /\ q \in DOMAIN b[t] => c[t][q] = b[t][q]
    PROVE  Elsewhere(c, s, p) = Elsewhere(b, s, p)
<1>1. ASSUME NEW o \in Elsewhere(c, s, p) PROVE o \in Elsewhere(b, s, p)
  <2>1. PICK t, q, i : /\ t \in Sides /\ q \in DOMAIN c[t] /\ i \in 1..Len(c[t][q])
                       /\ <<t, q>> # <<s, p>> /\ o = c[t][q][i]
    BY <1>1, ElsewhereMember
  <2>2. q \in DOMAIN b[t] /\ i \in 1..Len(b[t][q]) /\ o = b[t][q][i]
    BY <2>1
  <2> QED BY <2>1, <2>2, ElsewhereMember
<1>2. ASSUME NEW o \in Elsewhere(b, s, p) PROVE o \in Elsewhere(c, s, p)
  <2>1. PICK t, q, i : /\ t \in Sides /\ q \in DOMAIN b[t] /\ i \in 1..Len(b[t][q])
                       /\ <<t, q>> # <<s, p>> /\ o = b[t][q][i]
    BY <1>2, ElsewhereMember
  <2>2. q \in DOMAIN c[t] /\ i \in 1..Len(c[t][q]) /\ o = c[t][q][i]
    BY <2>1
  <2> QED BY <2>1, <2>2, ElsewhereMember
<1> QED BY <1>1, <1>2

(* A step that rewrites one level leaves the orders elsewhere alone, so    *)
(* the resting orders change as that level's queue does.                   *)
LEMMA OneLevelChanges ==
    ASSUME NEW s \in Sides, NEW p, DOMAIN book = Sides,
           NEW new, book' = [book EXCEPT ![s] = new],
           DOMAIN new \ {p} = DOMAIN book[s] \ {p},
           \A q \in DOMAIN new \ {p} : new[q] = book[s][q]
    PROVE  /\ RestingOrders  = InQueue(QueueAt(book[s], p)) \cup Elsewhere(book, s, p)
           /\ RestingOrders' = InQueue(QueueAt(new, p)) \cup Elsewhere(book, s, p)
<1>1. PICK c : c = book'
  OBVIOUS
<1>2. c[s] = new /\ \A t \in Sides \ {s} : c[t] = book[t]
  BY <1>1
<1>3. \A t \in Sides : \A q : <<t, q>> # <<s, p>> =>
         /\ q \in DOMAIN c[t] <=> q \in DOMAIN book[t]
         /\ q \in DOMAIN book[t] => c[t][q] = book[t][q]
  BY <1>2
<1>4. Elsewhere(c, s, p) = Elsewhere(book, s, p)
  BY <1>3, ElsewhereAgrees
<1>5. RestingOrders' = InQueue(QueueAt(c[s], p)) \cup Elsewhere(c, s, p)
  BY ONLY <1>1, RestingSplitsAfter, s \in Sides
<1> QED BY <1>2, <1>4, <1>5, RestingSplits

(* The orders of a level are not found elsewhere: their price and side say *)
(* where they are.                                                         *)
LEMMA LevelIsApart ==
    ASSUME LadderInv, NEW s \in Sides, NEW p
    PROVE  /\ \A o \in Elsewhere(book, s, p) : o.price_ticks # p \/ o.side # s
           /\ \A o \in InQueue(QueueAt(book[s], p)) : o.price_ticks = p /\ o.side = s
<1>1. \A o \in Elsewhere(book, s, p) : o.price_ticks # p \/ o.side # s
  BY ElsewhereMember DEF LadderInv, RestingIsLive
<1>2. \A o \in InQueue(QueueAt(book[s], p)) : o.price_ticks = p /\ o.side = s
  BY DEF LadderInv, RestingIsLive, InQueue, QueueAt
<1> QED BY <1>1, <1>2

-----------------------------------------------------------------------------
(* What happens to a queue, as a set. *)

(* An order leaves its queue.                                              *)
LEMMA RemovedFromSet ==
    ASSUME NEW Q \in Seq(Order), NEW k \in 1..Len(Q), NEW R, Removed(R, Q, k),
           \A i, j \in 1..Len(Q) : Q[i].id = Q[j].id => i = j
    PROVE  InQueue(R) = InQueue(Q) \ {Q[k]}
<1>0. Len(Q) \in Nat /\ k \in Nat /\ Len(R) = Len(Q) - 1
      /\ \A j \in 1..Len(R) : R[j] = Q[IF j < k THEN j ELSE j + 1]
  BY DEF Removed
<1>1. ASSUME NEW o \in InQueue(R) PROVE o \in InQueue(Q) \ {Q[k]}
  <2>1. PICK j \in 1..Len(R) : o = R[j]
    BY <1>1 DEF InQueue
  <2>2. PICK i \in 1..Len(Q) : i # k /\ o = Q[i]
    BY <2>1, <1>0
  <2> QED BY <2>2 DEF InQueue
<1>2. ASSUME NEW o \in InQueue(Q) \ {Q[k]} PROVE o \in InQueue(R)
  <2>1. PICK i \in 1..Len(Q) : o = Q[i]
    BY <1>2 DEF InQueue
  <2>2. i # k
    BY <2>1, <1>2
  <2>3. PICK j \in 1..Len(R) : (IF j < k THEN j ELSE j + 1) = i
    <3>1. CASE i < k
      <4>1. i \in 1..Len(R)
        BY <3>1, <1>0
      <4> QED BY <4>1, <3>1
    <3>2. CASE i > k
      <4>1. i - 1 \in 1..Len(R) /\ ~(i - 1 < k) /\ (i - 1) + 1 = i
        BY <3>2, <1>0
      <4> QED BY <4>1
    <3> QED BY <3>1, <3>2, <2>2, <1>0
  <2>4. o = R[j]
    BY <2>1, <2>3, <1>0
  <2> QED BY <2>4 DEF InQueue
<1> QED BY <1>1, <1>2

(* The front order of a queue loses quantity.                              *)
LEMMA ShrunkInSet ==
    ASSUME NEW Q \in Seq(Order), Q # <<>>, NEW n,
           NEW R, R = [Q EXCEPT ![1].quantity = n],
           \A i, j \in 1..Len(Q) : Q[i].id = Q[j].id => i = j
    PROVE  InQueue(R) = (InQueue(Q) \ {Q[1]}) \cup {[Q[1] EXCEPT !.quantity = n]}
<1>0. 1 \in 1..Len(Q) /\ 1..Len(Q) = DOMAIN Q /\ Len(R) = Len(Q)
  <2>1. Len(Q) \in Nat \ {0} /\ DOMAIN Q = 1..Len(Q) /\ Q = [i \in 1..Len(Q) |-> Q[i]]
    BY EmptySeq
  <2>2. R = [i \in 1..Len(Q) |-> R[i]]
    BY <2>1
  <2> QED BY <2>1, <2>2, LenProperties
<1>1. R[1] = [Q[1] EXCEPT !.quantity = n] /\ \A i \in 1..Len(Q) : i # 1 => R[i] = Q[i]
  BY <1>0
<1>2. \A i \in 1..Len(Q) : i # 1 => Q[i] # Q[1]
  BY <1>0
<1> HIDE DEF Removed
<1>3. ASSUME NEW o \in InQueue(R)
      PROVE  o \in (InQueue(Q) \ {Q[1]}) \cup {[Q[1] EXCEPT !.quantity = n]}
  <2>1. PICK i \in 1..Len(Q) : o = R[i]
    BY <1>0, <1>3 DEF InQueue
  <2>2. CASE i = 1
    BY <2>1, <2>2, <1>1
  <2>3. CASE i # 1
    BY <2>1, <2>3, <1>1, <1>2 DEF InQueue
  <2> QED BY <2>2, <2>3
<1>4. ASSUME NEW o \in InQueue(Q) \ {Q[1]} PROVE o \in InQueue(R)
  <2>1. PICK i \in 1..Len(Q) : o = Q[i] /\ i # 1
    BY <1>4 DEF InQueue
  <2> QED BY <2>1, <1>0, <1>1 DEF InQueue
<1>5. [Q[1] EXCEPT !.quantity = n] \in InQueue(R)
  BY <1>0, <1>1 DEF InQueue
<1> QED BY <1>3, <1>4, <1>5

(* An order joins a queue.                                                 *)
LEMMA JoinedInSet ==
    ASSUME NEW Q \in Seq(Order), NEW o, NEW R, Joined(R, Q, o)
    PROVE  InQueue(R) = InQueue(Q) \cup {o}
BY DEF Joined, InQueue

-----------------------------------------------------------------------------
(* Ids. *)

(* The resting orders are orders, each with an id of its own...            *)
LEMMA RestingIds ==
    ASSUME LadderInv
    PROVE  /\ RestingOrders \subseteq Order
           /\ \A a, b \in RestingOrders : a.id = b.id => a = b
<1>1. RestingOrders \subseteq Order
  BY RestingMember, ElementOfSeq DEF LadderInv
<1>2. ASSUME NEW a \in RestingOrders, NEW b \in RestingOrders, a.id = b.id PROVE a = b
  <2>1. PICK t, q, i : /\ t \in Sides /\ q \in DOMAIN book[t] /\ i \in 1..Len(book[t][q])
                       /\ a = book[t][q][i]
    BY RestingMember
  <2>2. PICK u, r, j : /\ u \in Sides /\ r \in DOMAIN book[u] /\ j \in 1..Len(book[u][r])
                       /\ b = book[u][r][j]
    BY RestingMember
  <2>3. /\ order_index[a.id] = [price |-> q, side |-> t]
        /\ order_index[b.id] = [price |-> r, side |-> u]
    BY <2>1, <2>2 DEF LadderInv, QueuedIsIndexed
  <2>4. t = u /\ q = r
    BY <2>3, <1>2
  <2>5. i = j
    BY <2>1, <2>2, <2>4, <1>2 DEF LadderInv, QueuedIsIndexed
  <2> QED BY <2>1, <2>2, <2>4, <2>5
<1> QED BY <1>1, <1>2

(* ... and contains() says which ids they are.                             *)
LEMMA ContainsIsResting ==
    ASSUME LadderInv
    PROVE  Abstract!IdsOf(RestingOrders) = DOMAIN order_index
<1>1. ASSUME NEW o \in RestingOrders PROVE o.id \in DOMAIN order_index
  <2>1. PICK t, q, i : /\ t \in Sides /\ q \in DOMAIN book[t] /\ i \in 1..Len(book[t][q])
                       /\ o = book[t][q][i]
    BY <1>1, RestingMember
  <2> QED BY <2>1 DEF LadderInv, QueuedIsIndexed, contains
<1>2. ASSUME NEW id \in DOMAIN order_index PROVE \E o \in RestingOrders : o.id = id
  <2>1. PICK i : i \in Positions(QueueAt(book[order_index[id].side], order_index[id].price), id)
    BY <1>2 DEF LadderInv, IndexedIsQueued, Located, contains
  <2>2. PICK t, q : t = order_index[id].side /\ q = order_index[id].price
    OBVIOUS
  <2>3. t \in Sides
    BY <1>2, <2>2 DEF LadderInv
  <2>4. q \in DOMAIN book[t] /\ i \in 1..Len(book[t][q]) /\ book[t][q][i].id = id
    BY <2>1, <2>2 DEF Positions, QueueAt
  <2> QED BY <2>3, <2>4, RestingMember
<1> QED BY <1>1, <1>2 DEF Abstract!IdsOf

-----------------------------------------------------------------------------
(* The three ways the set of resting orders changes. *)

(* A queue that lost an order is stored back, or its level is erased.      *)
LEMMA StoreChangesResting ==
    ASSUME NEW s \in Sides, NEW p \in DOMAIN book[s], DOMAIN book = Sides,
           NEW R, book' = [book EXCEPT ![s] = StoreLevel(book[s], p, R)]
    PROVE  /\ RestingOrders  = InQueue(book[s][p]) \cup Elsewhere(book, s, p)
           /\ RestingOrders' = InQueue(R) \cup Elsewhere(book, s, p)
<1>1. PICK new : new = StoreLevel(book[s], p, R)
  OBVIOUS
<1>2. /\ DOMAIN new \subseteq DOMAIN book[s]
      /\ \A q \in DOMAIN book[s] \ {p} : q \in DOMAIN new /\ new[q] = book[s][q]
      /\ IF R = <<>> THEN p \notin DOMAIN new
                     ELSE p \in DOMAIN new /\ new[p] = R
  BY <1>1, StoreLevelFacts
<1>3. DOMAIN new \ {p} = DOMAIN book[s] \ {p} /\ \A q \in DOMAIN new \ {p} : new[q] = book[s][q]
  BY <1>2
<1>4. QueueAt(new, p) = R /\ QueueAt(book[s], p) = book[s][p]
  BY <1>2 DEF QueueAt
<1>5. book' = [book EXCEPT ![s] = new]
  BY <1>1
<1>6. /\ RestingOrders  = InQueue(QueueAt(book[s], p)) \cup Elsewhere(book, s, p)
      /\ RestingOrders' = InQueue(QueueAt(new, p)) \cup Elsewhere(book, s, p)
  BY <1>3, <1>5, OneLevelChanges
<1> QED BY <1>4, <1>6

(* An order leaves the book.                                               *)
LEMMA RemoveChangesResting ==
    ASSUME LadderInv, NEW s \in Sides, NEW p \in DOMAIN book[s], NEW k \in 1..Len(book[s][p]),
           NEW R, Removed(R, book[s][p], k),
           book' = [book EXCEPT ![s] = StoreLevel(book[s], p, R)]
    PROVE  RestingOrders' = RestingOrders \ {book[s][p][k]}
<1>1. PICK Q : Q = book[s][p]
  OBVIOUS
<1>2. Q \in Seq(Order) /\ \A i, j \in 1..Len(Q) : Q[i].id = Q[j].id => i = j
  BY <1>1 DEF LadderInv, QueuedIsIndexed
<1>3. InQueue(R) = InQueue(Q) \ {Q[k]}
  BY <1>1, <1>2, RemovedFromSet
<1>4. /\ RestingOrders  = InQueue(Q) \cup Elsewhere(book, s, p)
      /\ RestingOrders' = InQueue(R) \cup Elsewhere(book, s, p)
  BY <1>1, StoreChangesResting DEF LadderInv
<1>5. Q[k] \notin Elsewhere(book, s, p)
  <2>1. Q[k].price_ticks = p /\ Q[k].side = s
    BY <1>1 DEF LadderInv, RestingIsLive
  <2> QED BY <2>1, LevelIsApart
<1> QED BY <1>1, <1>3, <1>4, <1>5

(* The front order of a level loses quantity.                              *)
LEMMA ShrinkChangesResting ==
    ASSUME LadderInv, NEW s \in Sides, NEW p \in DOMAIN book[s], NEW n,
           NEW R, R = [book[s][p] EXCEPT ![1].quantity = n],
           book' = [book EXCEPT ![s] = StoreLevel(book[s], p, R)]
    PROVE  RestingOrders' = (RestingOrders \ {book[s][p][1]})
                            \cup {[book[s][p][1] EXCEPT !.quantity = n]}
<1>1. PICK Q : Q = book[s][p]
  OBVIOUS
<1>2. /\ Q \in Seq(Order) /\ Q # <<>>
      /\ \A i, j \in 1..Len(Q) : Q[i].id = Q[j].id => i = j
  BY <1>1 DEF LadderInv, QueuedIsIndexed, NoEmptyLevel
<1>3. InQueue(R) = (InQueue(Q) \ {Q[1]}) \cup {[Q[1] EXCEPT !.quantity = n]}
  BY <1>1, <1>2, ShrunkInSet
<1>4. /\ RestingOrders  = InQueue(Q) \cup Elsewhere(book, s, p)
      /\ RestingOrders' = InQueue(R) \cup Elsewhere(book, s, p)
  BY <1>1, StoreChangesResting DEF LadderInv
<1>5. Q[1] \notin Elsewhere(book, s, p)
  <2>1. 1 \in 1..Len(Q)
    BY <1>2, EmptySeq
  <2>2. Q[1].price_ticks = p /\ Q[1].side = s
    BY <1>1, <2>1 DEF LadderInv, RestingIsLive
  <2> QED BY <2>2, LevelIsApart
<1>6. PICK f : f = [Q[1] EXCEPT !.quantity = n]
  OBVIOUS
<1>7. RestingOrders' = (RestingOrders \ {Q[1]}) \cup {f}
  BY <1>3, <1>4, <1>5, <1>6
<1> QED BY <1>1, <1>6, <1>7

(* An order enters the book.                                               *)
LEMMA EnterChangesResting ==
    ASSUME LadderInv, NEW s \in Sides, NEW p, NEW o \in Order,
           book' = [book EXCEPT ![s] = PutLevel(book[s], p, Append(QueueAt(book[s], p), o))]
    PROVE  RestingOrders' = RestingOrders \cup {o}
<1>1. PICK Q : Q = QueueAt(book[s], p)
  OBVIOUS
<1>2. Q \in Seq(Order)
  BY <1>1, EmptySeq DEF LadderInv, QueueAt
<1>3. PICK R : R = Append(Q, o)
  OBVIOUS
<1>4. InQueue(R) = InQueue(Q) \cup {o}
  BY <1>2, <1>3, AppendJoins, JoinedInSet
<1>5. PICK new : new = PutLevel(book[s], p, R)
  OBVIOUS
<1>6. DOMAIN new \ {p} = DOMAIN book[s] \ {p} /\ \A q \in DOMAIN new \ {p} : new[q] = book[s][q]
  BY <1>5 DEF PutLevel
<1>7. QueueAt(new, p) = R
  BY <1>5 DEF PutLevel, QueueAt
<1>8. book' = [book EXCEPT ![s] = new] /\ DOMAIN book = Sides
  BY <1>1, <1>3, <1>5 DEF LadderInv
<1>9. /\ RestingOrders  = InQueue(Q) \cup Elsewhere(book, s, p)
      /\ RestingOrders' = InQueue(R) \cup Elsewhere(book, s, p)
  BY <1>1, <1>6, <1>7, <1>8, OneLevelChanges
<1> QED BY <1>4, <1>9

-----------------------------------------------------------------------------
(* The steps. *)

(* An empty book is an empty set.                                          *)
LEMMA InitRefines == BookInit => Abstract!Init
<1> SUFFICES ASSUME BookInit PROVE Abstract!Init
  OBVIOUS
<1>1. \A s \in Sides : DOMAIN book[s] = {}
  BY DEF BookInit, NoLevels
<1>2. RestingOrders = {}
  BY <1>1, RestingMember
<1> QED BY <1>2 DEF BookInit, Abstract!Init

(* submit of a new id.                                                     *)
LEMMA SubmitBeginRefines ==
    ASSUME BookInv, NEW id \in OrderIds, NEW side \in Sides, NEW type \in OrderTypes,
           NEW price \in Prices, NEW quantity \in Quantities,
           SubmitBegin(id, side, type, price, quantity)
    PROVE  Abstract!Accept(id, side, type, price, quantity)
<1>1. LadderInv
  BY BookInvParts
<1>2. id \notin Abstract!IdsOf(RestingOrders)
  BY <1>1, ContainsIsResting DEF SubmitBegin, contains
<1>3. RestingOrders' = RestingOrders
  BY DEF SubmitBegin, RestingOrders
<1> QED BY <1>2, <1>3 DEF SubmitBegin, Abstract!Accept

(* submit of an id that is resting.                                        *)
LEMMA SubmitDuplicateRefines ==
    ASSUME BookInv, NEW id \in OrderIds, SubmitDuplicate(id)
    PROVE  Abstract!Reject(id)
<1>1. LadderInv
  BY BookInvParts
<1>2. id \in Abstract!IdsOf(RestingOrders)
  BY <1>1, ContainsIsResting DEF SubmitDuplicate, contains
<1>3. RestingOrders' = RestingOrders
  BY DEF SubmitDuplicate, RestingOrders
<1> QED BY <1>2, <1>3 DEF SubmitDuplicate, Abstract!Reject

(* An eligible order rests on the other side, at a price the taker's limit *)
(* allows; and every such order is eligible.                               *)
LEMMA EligibleOrders ==
    ASSUME BookInv, incoming # NoOrder, NEW o
    PROVE  o \in Abstract!Eligible(incoming, RestingOrders) <=>
              \E q \in DOMAIN book[Opposite(incoming.side)] :
                 \E i \in 1..Len(book[Opposite(incoming.side)][q]) :
                    o = book[Opposite(incoming.side)][q][i] /\ Crosses(incoming, q)
<1>0. LadderInv /\ LocalsOK
  BY BookInvParts
<1>1. incoming \in Order /\ incoming.side \in Sides /\ incoming.price_ticks \in Int
  BY <1>0, PricesAssumption DEF LocalsOK, Order, Prices
<1>2. PICK s \in Sides : s = Opposite(incoming.side)
  BY <1>1 DEF Opposite, Sides
<1>3. \A t \in Sides : t # incoming.side <=> t = s
  BY <1>1, <1>2 DEF Opposite, Sides
<1>4. ASSUME NEW t \in Sides, NEW q \in DOMAIN book[t], NEW i \in 1..Len(book[t][q]),
             o = book[t][q][i]
      PROVE  o.side = t /\ o.price_ticks = q /\ q \in Int
  BY <1>0, <1>4, PricesAssumption DEF LadderInv, RestingIsLive, Prices
<1>5. ASSUME NEW q \in Int
      PROVE  Crosses(incoming, q) <=> \/ incoming.type = "Market"
                                      \/ incoming.side = "Buy"  /\ q <= incoming.price_ticks
                                      \/ incoming.side = "Sell" /\ q >= incoming.price_ticks
  BY <1>1 DEF Crosses, Sides
<1>6. ASSUME o \in Abstract!Eligible(incoming, RestingOrders)
      PROVE  \E q \in DOMAIN book[s] : \E i \in 1..Len(book[s][q]) :
                o = book[s][q][i] /\ Crosses(incoming, q)
  <2>1. /\ o \in RestingOrders /\ o.side # incoming.side
        /\ \/ incoming.type = "Market"
           \/ incoming.side = "Buy"  /\ o.price_ticks <= incoming.price_ticks
           \/ incoming.side = "Sell" /\ o.price_ticks >= incoming.price_ticks
    BY <1>6 DEF Abstract!Eligible
  <2>2. PICK t, q, i : /\ t \in Sides /\ q \in DOMAIN book[t] /\ i \in 1..Len(book[t][q])
                       /\ o = book[t][q][i]
    BY <2>1, RestingMember
  <2>3. o.side = t /\ o.price_ticks = q /\ q \in Int
    BY <2>2, <1>4
  <2>4. t = s
    BY <2>1, <2>2, <2>3, <1>3
  <2>5. Crosses(incoming, q)
    BY <2>1, <2>3, <1>5
  <2> QED BY <2>2, <2>4, <2>5
<1>7. ASSUME NEW q \in DOMAIN book[s], NEW i \in 1..Len(book[s][q]),
             o = book[s][q][i], Crosses(incoming, q)
      PROVE  o \in Abstract!Eligible(incoming, RestingOrders)
  <2>1. o.side = s /\ o.price_ticks = q /\ q \in Int
    BY <1>4, <1>7
  <2>2. o \in RestingOrders
    BY <1>7, RestingMember
  <2>3. \/ incoming.type = "Market"
        \/ incoming.side = "Buy"  /\ o.price_ticks <= incoming.price_ticks
        \/ incoming.side = "Sell" /\ o.price_ticks >= incoming.price_ticks
    BY <2>1, <1>5, <1>7
  <2>4. o.side # incoming.side
    BY <2>1, <1>3
  <2> QED BY <2>2, <2>3, <2>4 DEF Abstract!Eligible
<1> QED BY <1>2, <1>6, <1>7

(* One iteration of the matching loop trades with the order that is ahead. *)
LEMMA MatchOneRefines ==
    ASSUME BookInv, MatchOne
    PROVE  \E maker \in RestingOrders : \E quantity \in {maker.quantity, incoming.quantity} :
              Abstract!Trade(maker, quantity)
<1>0. LadderInv /\ LocalsOK /\ incoming # NoOrder /\ CanMatch
  BY BookInvParts DEF MatchOne
<1>1. incoming \in Order /\ incoming.side \in Sides /\ incoming.quantity \in Nat
  BY <1>0 DEF LocalsOK, Order
<1>2. PICK s \in Sides : s = Opposite(incoming.side)
  BY <1>1 DEF Opposite, Sides
<1>3. DOMAIN book[s] \subseteq Prices /\ DOMAIN book[s] # {}
  BY <1>0, <1>2 DEF LadderInv, CanMatch
<1>4. PICK p \in DOMAIN book[s] : p = BestPrice(s)
  BY <1>3, BestPriceIsBest
<1>5. \A q \in DOMAIN book[s] \ {p} : Better(s, p, q)
  BY <1>3, <1>4, BestPriceIsBest
<1>6. PICK Q : Q = book[s][p]
  OBVIOUS
<1>7. Q \in Seq(Order) /\ Q # <<>> /\ 1 \in 1..Len(Q)
  <2>1. Q \in Seq(Order) /\ Q # <<>>
    BY <1>0, <1>6 DEF LadderInv, NoEmptyLevel
  <2> QED BY <2>1, EmptySeq
<1>8. PICK maker \in Order : maker = Q[1]
  BY <1>7, ElementOfSeq
<1>9. maker.quantity \in Nat /\ maker.quantity > 0 /\ maker.side = s /\ maker.price_ticks = p
  BY <1>0, <1>6, <1>7, <1>8 DEF LadderInv, RestingIsLive, Order
<1>10. PICK n : n = Smaller(incoming.quantity, maker.quantity)
  OBVIOUS
<1>11. /\ n \in Nat /\ n > 0 /\ n <= incoming.quantity /\ n <= maker.quantity
       /\ n = incoming.quantity \/ n = maker.quantity
  BY <1>0, <1>1, <1>9, <1>10 DEF Smaller, CanMatch
<1>12. /\ fills' = Append(fills, [resting_order_id  |-> maker.id,
                                  incoming_order_id |-> incoming.id,
                                  resting_side      |-> s,
                                  price_ticks       |-> p,
                                  quantity          |-> n,
                                  timestamp         |-> next_timestamp])
       /\ next_timestamp' = next_timestamp + 1
       /\ incoming' = [incoming EXCEPT !.quantity = incoming.quantity - n]
       /\ book' = [book EXCEPT ![s] = StoreLevel(book[s], p, AfterTrade(Q, n))]
       /\ returned' = returned
  BY <1>2, <1>4, <1>6, <1>8, <1>10 DEF MatchOne
<1>13. maker \in Abstract!Eligible(incoming, RestingOrders) /\ maker \in RestingOrders
  <2>1. Crosses(incoming, p)
    BY <1>0, <1>2, <1>4 DEF CanMatch
  <2>2. maker \in Abstract!Eligible(incoming, RestingOrders)
    BY <2>1, <1>0, <1>2, <1>6, <1>7, <1>8, EligibleOrders
  <2> QED BY <2>2 DEF Abstract!Eligible
<1>14. ASSUME NEW o \in Abstract!Eligible(incoming, RestingOrders) \ {maker}
       PROVE  Abstract!Ahead(maker, o)
  <2>1. PICK q \in DOMAIN book[s] : \E i \in 1..Len(book[s][q]) : o = book[s][q][i]
    BY <1>0, <1>2, EligibleOrders
  <2>2. PICK i \in 1..Len(book[s][q]) : o = book[s][q][i]
    BY <2>1
  <2>3. o.price_ticks = q
    BY <2>2, <1>0 DEF LadderInv, RestingIsLive
  <2>4. CASE q # p
    <3>1. Better(s, p, q)
      BY <2>4, <1>5
    <3> QED BY <3>1, <2>3, <1>9 DEF Better, Sides, Abstract!Ahead
  <2>5. CASE q = p
    <3>1. i # 1
      BY <2>2, <2>5, <1>6, <1>8
    <3>2. i \in 1..Len(Q) /\ Len(Q) \in Nat /\ 1 < i
      BY <3>1, <2>5, <1>6, <1>7
    <3>3. maker.timestamp < o.timestamp
      BY <3>2, <2>2, <2>5, <1>0, <1>6, <1>7, <1>8 DEF LadderInv, TimePriority
    <3> QED BY <3>3, <2>3, <2>5, <1>9 DEF Abstract!Ahead
  <2> QED BY <2>4, <2>5
<1>15. RestingOrders' = (RestingOrders \ {maker}) \cup
                        (IF n = maker.quantity THEN {}
                         ELSE {[maker EXCEPT !.quantity = maker.quantity - n]})
  <2>1. CASE n = maker.quantity
    <3>1. PICK R : R = Tail(Q)
      OBVIOUS
    <3>2. Removed(R, book[s][p], 1)
      BY <3>1, <1>6, <1>7, TailRemoves
    <3>3. book' = [book EXCEPT ![s] = StoreLevel(book[s], p, R)]
      BY <3>1, <2>1, <1>8, <1>12 DEF AfterTrade
    <3>4. RestingOrders' = RestingOrders \ {book[s][p][1]}
      BY <3>2, <3>3, <1>0, <1>6, <1>7, RemoveChangesResting
    <3> QED BY <3>4, <2>1, <1>6, <1>8
  <2>2. CASE n # maker.quantity
    <3>1. PICK R : R = [Q EXCEPT ![1].quantity = maker.quantity - n]
      OBVIOUS
    <3>2. book' = [book EXCEPT ![s] = StoreLevel(book[s], p, R)]
      BY <3>1, <2>2, <1>8, <1>12 DEF AfterTrade
    <3>3. RestingOrders' = (RestingOrders \ {book[s][p][1]})
                           \cup {[book[s][p][1] EXCEPT !.quantity = maker.quantity - n]}
      BY <3>1, <3>2, <1>0, <1>6, ShrinkChangesResting
    <3> QED BY <3>3, <2>2, <1>6, <1>8
  <2> QED BY <2>1, <2>2
<1>16. Abstract!Trade(maker, n)
  BY <1>0, <1>9, <1>11, <1>12, <1>13, <1>14, <1>15 DEF Abstract!Trade
<1> QED BY <1>11, <1>13, <1>16

(* When the matching loop ends, nothing is left of the order, or nothing   *)
(* to trade with.                                                          *)
LEMMA LoopLeavesNothing ==
    ASSUME BookInv, incoming # NoOrder, ~CanMatch, incoming.quantity # 0
    PROVE  Abstract!Eligible(incoming, RestingOrders) = {}
<1>0. LadderInv /\ LocalsOK
  BY BookInvParts
<1>1. PICK o \in Order : o = incoming
  BY <1>0 DEF LocalsOK
<1>2. o.side \in Sides /\ o.price_ticks \in Int /\ o.quantity \in Nat
  BY PricesAssumption DEF Order, Prices
<1>3. PICK s \in Sides : s = Opposite(o.side)
  BY <1>2 DEF Opposite, Sides
<1>4. ASSUME NEW q \in DOMAIN book[s] PROVE ~Crosses(incoming, q)
  <2>1. DOMAIN book[s] \subseteq Prices /\ DOMAIN book[s] # {}
    BY <1>0, <1>4 DEF LadderInv
  <2>2. PICK p \in DOMAIN book[s] : p = BestPrice(s)
    BY <2>1, BestPriceIsBest
  <2>3. q = p \/ Better(s, p, q)
    BY <2>1, <2>2, BestPriceIsBest
  <2>4. ~Crosses(incoming, p)
    BY <2>1, <2>2, <1>1, <1>2, <1>3 DEF CanMatch
  <2>5. p \in Int /\ q \in Int
    BY <2>1, PricesAssumption DEF Prices
  <2> QED BY <2>3, <2>4, <2>5, <1>1, <1>2, <1>3 DEF Crosses, Better, Opposite, Sides
<1> QED BY <1>0, <1>1, <1>3, <1>4, EligibleOrders

(* submit returns.                                                         *)
LEMMA ReturnRefines ==
    ASSUME BookInv, Return
    PROVE  Abstract!Done
<1>0. LadderInv /\ LocalsOK /\ incoming # NoOrder /\ ~CanMatch
  BY BookInvParts DEF Return
<1>1. PICK o \in Order : o = incoming
  BY <1>0 DEF LocalsOK
<1>2. o.side \in Sides /\ o.price_ticks \in Prices /\ o.price_ticks \in Int /\ o.quantity \in Nat
  BY PricesAssumption DEF Order, Prices
<1>3. o.quantity # 0 => Abstract!Eligible(incoming, RestingOrders) = {}
  BY <1>0, <1>1, LoopLeavesNothing
<1>4. RestingOrders' = RestingOrders \cup (IF o.quantity > 0 /\ o.type = "Limit" THEN {o} ELSE {})
  <2>1. CASE Rests(incoming)
    <3>1. PICK s \in Sides, p \in Prices : s = o.side /\ p = o.price_ticks
      BY <1>2
    <3>2. book' = [book EXCEPT ![s] = PutLevel(book[s], p, Append(QueueAt(book[s], p), o))]
      BY <2>1, <3>1, <1>1 DEF Return
    <3>3. RestingOrders' = RestingOrders \cup {o}
      BY <3>2, <1>0, EnterChangesResting
    <3> QED BY <3>3, <2>1, <1>1 DEF Rests
  <2>2. CASE ~Rests(incoming)
    <3>1. RestingOrders' = RestingOrders
      BY <2>2 DEF Return, RestingOrders
    <3> QED BY <3>1, <2>2, <1>1 DEF Rests
  <2> QED BY <2>1, <2>2
<1> QED BY <1>0, <1>1, <1>3, <1>4 DEF Return, Abstract!Done

(* cancel of a resting id.                                                 *)
LEMMA CancelFoundRefines ==
    ASSUME BookInv, NEW id \in OrderIds, CancelFound(id)
    PROVE  Abstract!Cancel(id)
<1>0. LadderInv
  BY BookInvParts
<1>1. id \in DOMAIN order_index
  BY DEF CancelFound, Located, contains
<1>2. PICK s \in Sides, p \in Prices : s = order_index[id].side /\ p = order_index[id].price
  BY <1>0, <1>1 DEF LadderInv
<1>3. PICK Q : Q = book[s][p]
  OBVIOUS
<1>4. Located(id) = Positions(QueueAt(book[s], p), id) /\ Located(id) # {}
  BY <1>1, <1>2 DEF CancelFound, Located, contains
<1>5. PICK i \in Located(id) : TRUE
  BY <1>4
<1>6. p \in DOMAIN book[s] /\ i \in 1..Len(Q) /\ Q[i].id = id
  BY <1>3, <1>4, <1>5 DEF Positions, QueueAt
<1>7. Located(id) = {i}
  <2>1. \A j \in Located(id) : j \in 1..Len(Q) /\ Q[j].id = id
    BY <1>3, <1>4, <1>6 DEF Positions, QueueAt
  <2>2. \A j \in 1..Len(Q) : Q[j].id = id => j = i
    BY <1>0, <1>3, <1>6 DEF LadderInv, QueuedIsIndexed
  <2> QED BY <2>1, <2>2, <1>5
<1>8. (CHOOSE k \in Located(id) : \A j \in Located(id) : k <= j) = i
  BY <1>6, <1>7
<1>9. PICK R : R = RemoveAtPosition(Q, i)
  OBVIOUS
<1>10. Removed(R, book[s][p], i)
  BY <1>0, <1>3, <1>6, <1>9, RemoveAtRemoves DEF LadderInv
<1>11. book' = [book EXCEPT ![s] = StoreLevel(book[s], p, R)]
  BY <1>2, <1>3, <1>8, <1>9 DEF CancelFound
<1>12. RestingOrders' = RestingOrders \ {Q[i]}
  BY <1>0, <1>3, <1>6, <1>10, <1>11, RemoveChangesResting
<1>13. Q[i] \in RestingOrders
  BY <1>3, <1>6, RestingMember
<1>14. RestingOrders' = {o \in RestingOrders : o.id # id}
  BY <1>0, <1>6, <1>12, <1>13, RestingIds
<1>15. id \in Abstract!IdsOf(RestingOrders)
  BY <1>0, <1>1, ContainsIsResting
<1> QED BY <1>14, <1>15 DEF CancelFound, Abstract!Cancel

(* cancel of any other id.                                                 *)
LEMMA CancelNotFoundRefines ==
    ASSUME BookInv, NEW id \in OrderIds, CancelNotFound(id)
    PROVE  Abstract!Cancel(id)
<1>0. LadderInv
  BY BookInvParts
<1>1. id \notin DOMAIN order_index
  BY <1>0 DEF CancelNotFound, LadderInv, IndexedIsQueued
<1>2. id \notin Abstract!IdsOf(RestingOrders)
  BY <1>0, <1>1, ContainsIsResting
<1>3. RestingOrders' = RestingOrders
  BY DEF CancelNotFound, RestingOrders
<1>4. RestingOrders = {o \in RestingOrders : o.id # id}
  BY <1>2 DEF Abstract!IdsOf
<1>5. FALSE = (id \in Abstract!IdsOf(RestingOrders))
  BY <1>2
<1>6. returned' = [op |-> "cancel", id |-> id, ok |-> id \in Abstract!IdsOf(RestingOrders)]
  BY <1>5, Zenon DEF CancelNotFound
<1>7. RestingOrders' = {o \in RestingOrders : o.id # id}
  BY <1>3, <1>4
<1> QED BY <1>6, <1>7 DEF CancelNotFound, Abstract!Cancel

(* Every step of the book is a step of PriceTimePriority or a stutter.     *)
LEMMA NextRefines == BookInv /\ [BookNext]_bookVars => [Abstract!Next]_(Abstract!vars)
<1> SUFFICES ASSUME BookInv, [BookNext]_bookVars
             PROVE  Abstract!Next \/ UNCHANGED Abstract!vars
  OBVIOUS
<1> USE DEF Abstract!Sides, Abstract!OrderTypes, Sides, OrderTypes
<1>1. ASSUME NEW id \in OrderIds, NEW side \in Sides, NEW type \in OrderTypes,
             NEW price \in Prices, NEW quantity \in Quantities,
             SubmitBegin(id, side, type, price, quantity)
      PROVE  Abstract!Next
  <2>1. Abstract!Accept(id, side, type, price, quantity)
    BY <1>1, SubmitBeginRefines
  <2> QED BY <2>1 DEF Abstract!Next
<1>2. ASSUME NEW id \in OrderIds, SubmitDuplicate(id) PROVE Abstract!Next
  BY <1>2, SubmitDuplicateRefines DEF Abstract!Next
<1>3. CASE MatchOne
  BY <1>3, MatchOneRefines DEF Abstract!Next, MatchOne
<1>4. CASE Return
  BY <1>4, ReturnRefines DEF Abstract!Next
<1>5. ASSUME NEW id \in OrderIds, CancelFound(id) PROVE Abstract!Next
  BY <1>5, CancelFoundRefines DEF Abstract!Next
<1>6. ASSUME NEW id \in OrderIds, CancelNotFound(id) PROVE Abstract!Next
  BY <1>6, CancelNotFoundRefines DEF Abstract!Next
<1>7. CASE UNCHANGED bookVars
  BY <1>7 DEF bookVars, Abstract!vars, RestingOrders
<1> QED BY <1>1, <1>2, <1>3, <1>4, <1>5, <1>6, <1>7 DEF BookNext

(* The ladders, queues and index of order_book.cpp implement price-time    *)
(* priority over a plain set of orders, for every set of ids and of        *)
(* quantities and every range of prices.                                   *)
THEOREM BookImplementsPriority == BookSpec => ImplementsPriceTimePriority
<1>1. BookSpec => Abstract!Init
  BY InitRefines, PTL DEF BookSpec
<1>2. BookSpec => [][Abstract!Next]_(Abstract!vars)
  BY BookInvariant, NextRefines, PTL DEF BookSpec
<1> QED BY <1>1, <1>2, PTL DEF ImplementsPriceTimePriority, Abstract!Spec
=============================================================================
