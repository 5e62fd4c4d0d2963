----------------------------- MODULE RiskProofs -----------------------------
(***************************************************************************)
(* Proofs about the risk engine of risk/src for every limit, every set of  *)
(* prices and quantities, and any number of fills.                         *)
(*                                                                         *)
(* RiskInv is the inductive invariant.  That the average price always has  *)
(* a denominator needs that no fill on its way is of quantity zero; that a *)
(* halt is logged for exactly the updates that breach needs that between   *)
(* an update and the return to the stream the log holds the update of the  *)
(* position as it is now.                                                  *)
(*                                                                         *)
(* AccountInv is about the P&L, in the cash flow of MCRiskEngine: a fill   *)
(* that adds to the position leaves the discrepancy as it is, in ticks,    *)
(* and one that closes c units of it adds less than c ticks, also when the *)
(* rest of the fill opens a position the other way at an average of its    *)
(* own.                                                                    *)
(***************************************************************************)
EXTENDS MCRiskEngine, BasicLemmas

Message == [tag : {"Fill"}, incoming_side : TradeSides, quantity : Nat \ {0}, price : Int]
               \cup [tag : {"Ack"}]

FlattenOrder == [side : TradeSides, quantity : Nat]

(* The types, of what is on the way too.                                   *)
WellTyped ==
    /\ tracker \in Tracker
    /\ pc \in {"read", "check", "halt", "exited"}
    /\ stream \in Seq(Message)
    /\ orders \in Seq(FlattenOrder)
    /\ exposure \in Int
    /\ trades \in Nat

(* What the log holds at each point of the main loop.                      *)
LogOK ==
    /\ pc \in {"check", "halt"} => \E line : log = <<line>> /\ line.net_position = tracker.net_position
    /\ pc = "halt" => Breach(tracker.net_position)
    /\ pc = "read" => \/ log = <<>>
                      \/ \E line : log = <<line>> /\ ~Breach(line.net_position)
                      \/ \E line, more : log = <<line, more>> /\ Breach(line.net_position)

RiskInv == WellTyped /\ LogOK /\ PositionMatchesExposure

-----------------------------------------------------------------------------
(* The P&L. *)

(* By how much the realized P&L of t differs from the cash flow c and the  *)
(* position at its average price, in fractions of a tick.                  *)
Discrepancy(t, c) ==
    (t.realized_pnl_ticks - c) * t.avg_entry_price_ticks.den
        - t.net_position * t.avg_entry_price_ticks.num

(* It is zero, or below one tick per unit closed.                          *)
Within(error, units, den) == error = 0 \/ (-(units * den) < error /\ error < units * den)

(* A discrepancy in other fractions of a tick.                             *)
LEMMA Rescaled ==
    ASSUME NEW e \in Int, NEW e2 \in Int, NEW k \in Nat, NEW den \in Nat \ {0},
           NEW den2 \in Nat \ {0}, NEW s \in Nat \ {0}, NEW g \in Nat \ {0},
           e2 * g = e * s, den2 * g = den * s, Within(e, k, den)
    PROVE  Within(e2, k, den2)
<1>1. CASE e = 0
  BY <1>1, Unscaled DEF Within
<1>2. CASE e # 0
  <2>1. PICK b, b2 : b = k * den /\ b2 = k * den2
    OBVIOUS
  <2>2. b \in Int /\ b2 \in Int /\ -b < e /\ e < b
    BY <2>1, <1>2 DEF Within
  <2>3. e * s < b * s /\ (-b) * s < e * s
    BY <2>2, Unscaled
  <2>4. b2 * g = b * s
    <3>1. b2 * g = k * (den2 * g)
      BY <2>1
    <3>2. k * (den * s) = b * s
      BY <2>1
    <3> QED BY <3>1, <3>2
  <2>5. e2 * g < b2 * g /\ (-b2) * g < e2 * g
    <3>1. (-b2) * g = -(b2 * g) /\ (-b) * s = -(b * s)
      BY <2>2
    <3> QED BY <3>1, <2>3, <2>4
  <2>6. e2 < b2 /\ -b2 < e2
    BY <2>2, <2>5, Unscaled
  <2> QED BY <2>1, <2>6 DEF Within
<1> QED BY <1>1, <1>2

(* Closing c units at the truncated average adds less than c ticks.        *)
LEMMA ClosingError ==
    ASSUME NEW e \in Int, NEW closed_qty \in Nat, NEW den \in Nat \ {0}, NEW rest \in Int,
           NEW n \in Int, n # 0, -den < rest, rest < den, Within(e, closed_qty, den)
    PROVE  /\ -((closed_qty + Abs(n)) * den) < e + n * rest
           /\ e + n * rest < (closed_qty + Abs(n)) * den
<1>1. PICK c : c = Abs(n)
  OBVIOUS
<1>2. c \in Nat \ {0}
  BY <1>1, AbsFacts
<1>3. PICK b, h : b = closed_qty * den /\ h = c * den
  OBVIOUS
<1>4. b \in Int /\ h \in Int /\ (closed_qty + c) * den = b + h
  BY <1>2, <1>3
<1>5. rest * c < den * c /\ (-den) * c < rest * c
  BY <1>2, Unscaled
<1>6. PICK r : r = rest * c
  OBVIOUS
<1>7. r \in Int /\ r < h /\ -h < r
  BY <1>2, <1>3, <1>5, <1>6
<1>8. n * rest = r \/ n * rest = -r
  BY <1>1, <1>2, <1>6 DEF Abs
<1>9. -b <= e /\ e <= b
  <2>1. 0 <= b
    BY <1>3
  <2> QED BY <2>1, <1>3, <1>4 DEF Within
<1> QED BY <1>1, <1>4, <1>7, <1>8, <1>9

(* How much of a position a fill closes.                                   *)
ClosedBy(net, qty) ==
    IF Signum(net) * Signum(qty) < 0 THEN Lesser(Abs(qty), Abs(net)) ELSE 0

(* on_fill keeps the discrepancy within the truncations, whether the fill  *)
(* opens the position, adds to it...                                       *)
LEMMA IncreaseKeepsAccount ==
    ASSUME NEW t \in Tracker, NEW n \in Int, n # 0, NEW price \in Int, NEW c \in Int, NEW k \in Nat,
           t.net_position = 0 \/ Signum(t.net_position) = Signum(n),
           Within(Discrepancy(t, c), k, t.avg_entry_price_ticks.den)
    PROVE  LET u == Increase(t, n, price)
           IN  Within(Discrepancy(u, c - n * price), k, u.avg_entry_price_ticks.den)
<1>1. PICK net, r, num, den : /\ net = t.net_position /\ r = t.realized_pnl_ticks
                              /\ num = t.avg_entry_price_ticks.num /\ den = t.avg_entry_price_ticks.den
  OBVIOUS
<1>2. net \in Int /\ r \in Int /\ num \in Int /\ den \in Nat \ {0}
  BY <1>1 DEF Tracker, Rational
<1>3. PICK old, add, sign : old = Abs(net) /\ add = Abs(n) /\ sign = Signum(n)
  OBVIOUS
<1>4. /\ old \in Nat /\ add \in Nat \ {0} /\ sign \in {-1, 1}
      /\ net = sign * old /\ n = sign * add
  <2>1. old \in Nat /\ add \in Nat \ {0} /\ sign \in {-1, 1}
    BY <1>2, <1>3 DEF Abs, Signum
  <2>2. n = sign * add
    BY <1>3 DEF Abs, Signum
  <2>3. net = sign * old
    BY <1>1, <1>2, <1>3 DEF Abs, Signum
  <2> QED BY <2>1, <2>2, <2>3
<1>5. PICK a : a = Fraction(num * old + price * add * den, den * (old + add))
  OBVIOUS
<1>6. PICK g \in Nat \ {0} : a.num * g = num * old + price * add * den /\ a.den * g = den * (old + add)
  <2>1. num * old + price * add * den \in Int
    BY <1>2, <1>4
  <2>2. old + add \in Nat \ {0}
    BY <1>4
  <2>3. den * (old + add) \in Nat \ {0}
    BY <2>2, <1>2, PositiveProduct
  <2> QED BY <2>1, <2>3, <1>5, FractionExact
<1>7. PICK num2, den2 : num2 = a.num /\ den2 = a.den
  OBVIOUS
<1>8. num2 \in Int /\ den2 \in Nat \ {0}
  <2>1. WeightedAverage(t.avg_entry_price_ticks, old, price, add) \in Rational
    BY <1>4, AverageTyped DEF Tracker
  <2>2. a \in Rational
    BY <2>1, <1>1, <1>5 DEF WeightedAverage
  <2> QED BY <2>2, <1>7 DEF Rational
<1>9. PICK u : u = Increase(t, n, price)
  OBVIOUS
<1>10. /\ u.net_position = net + n /\ u.realized_pnl_ticks = r
       /\ u.avg_entry_price_ticks = a
  BY <1>1, <1>3, <1>5, <1>9 DEF Increase, WeightedAverage, Tracker
<1>11. PICK x, e : x = r - c /\ e = x * den - net * num
  OBVIOUS
<1>12. x \in Int /\ e \in Int /\ Within(e, k, den)
  BY <1>1, <1>2, <1>11 DEF Discrepancy
<1>13. PICK y, s, e2 : y = x + n * price /\ s = old + add /\ e2 = y * den2 - (net + n) * num2
  OBVIOUS
<1>14. y \in Int /\ s \in Nat \ {0} /\ e2 \in Int /\ net + n = sign * s
  BY <1>2, <1>4, <1>8, <1>12, <1>13
<1>15. num2 * g = num * old + price * add * den /\ den2 * g = den * s
  BY <1>6, <1>7, <1>13
<1>16. e2 * g = e * s
  <2>1. e2 * g = y * (den2 * g) - (net + n) * (num2 * g)
    BY <1>2, <1>8, <1>13, <1>14
  <2>2. e2 * g = y * (den * s) - (sign * s) * (num * old + price * add * den)
    BY <2>1, <1>14, <1>15
  <2>3. y = x + (sign * add) * price /\ e = x * den - (sign * old) * num
    BY <1>4, <1>11, <1>13
  <2>4. CASE sign = 1
    <3>1. y = x + add * price /\ e = x * den - old * num
      BY <2>3, <2>4, <1>4
    <3> QED BY <2>2, <2>4, <3>1, <1>2, <1>4, <1>12, <1>14
  <2>5. CASE sign = -1
    <3>1. y = x - add * price /\ e = x * den + old * num
      BY <2>3, <2>5, <1>2, <1>4, <1>12
    <3> QED BY <2>2, <2>5, <3>1, <1>2, <1>4, <1>12, <1>14
  <2> QED BY <2>4, <2>5, <1>4
<1>17. Within(e2, k, den2)
  BY <1>2, <1>8, <1>12, <1>14, <1>15, <1>16, Rescaled
<1>18. Discrepancy(u, c - n * price) = e2
  <2>1. r - (c - n * price) = y
    BY <1>2, <1>11, <1>13
  <2> QED BY <2>1, <1>7, <1>10, <1>13 DEF Discrepancy
<1> QED BY <1>7, <1>9, <1>10, <1>17, <1>18

(* ... or closes it in part, in full, or turns it.                         *)
LEMMA ReduceKeepsAccount ==
    ASSUME NEW t \in Tracker, NEW n \in Int, n # 0, NEW price \in Int, NEW c \in Int, NEW k \in Nat,
           t.net_position # 0, Signum(t.net_position) # Signum(n),
           Within(Discrepancy(t, c), k, t.avg_entry_price_ticks.den)
    PROVE  LET u == Reduce(t, n, price)
           IN  Within(Discrepancy(u, c - n * price), k + ClosedBy(t.net_position, n),
                      u.avg_entry_price_ticks.den)
<1>1. PICK net, r, num, den, i : /\ net = t.net_position /\ r = t.realized_pnl_ticks
                                 /\ num = t.avg_entry_price_ticks.num /\ den = t.avg_entry_price_ticks.den
                                 /\ i = AsI64(t.avg_entry_price_ticks)
  OBVIOUS
<1>2. net \in Int /\ net # 0 /\ r \in Int /\ num \in Int /\ den \in Nat \ {0} /\ i \in Int
  BY <1>1, AsI64Typed DEF Tracker, Rational
<1>3. PICK rest : rest = num - i * den
  OBVIOUS
<1>4. rest \in Int /\ -den < rest /\ rest < den
  BY <1>1, <1>2, <1>3, TruncationError DEF Tracker
<1>5. PICK e : e = (r - c) * den - net * num
  OBVIOUS
<1>6. e \in Int /\ Within(e, k, den)
  BY <1>1, <1>2, <1>5 DEF Discrepancy
<1>7. PICK u, m : u = Reduce(t, n, price) /\ m = Lesser(Abs(n), Abs(net))
  OBVIOUS
<1>8. PICK s : /\ s = Signum(net) * m
               /\ u.net_position = net + n
               /\ u.realized_pnl_ticks = r + s * (price - i)
               /\ u.avg_entry_price_ticks = AverageAfterReduce(t, net + n, price)
  BY <1>1, <1>7 DEF Reduce
<1>9. ClosedBy(net, n) = m
  <2>1. Signum(net) * Signum(n) < 0
    BY <1>1, <1>2 DEF Signum
  <2> QED BY <2>1, <1>7 DEF ClosedBy
<1>10. CASE net + n # 0 /\ Signum(net + n) # Signum(net)
  <2>1. m = Abs(net) /\ s = net
    BY <1>1, <1>2, <1>7, <1>8, <1>10 DEF Abs, Signum, Lesser
  <2>2. PICK a : a = Fraction(price, 1)
    OBVIOUS
  <2>3. a.num = price /\ a.den = 1
    <3>1. PICK g \in 1..1 : a = [num |-> price \div g, den |-> 1 \div g]
      <4>1. 1 \in Nat \ {0}
        OBVIOUS
      <4> QED BY <4>1, <2>2, FractionReduces
    <3> QED BY <3>1
  <2>4. u.avg_entry_price_ticks = a
    BY <2>2, <1>1, <1>8, <1>10 DEF AverageAfterReduce
  <2>5. PICK f : f = Discrepancy(u, c - n * price)
    OBVIOUS
  <2>6. f = (r + net * (price - i) - (c - n * price)) * 1 - (net + n) * price
    <3>1. /\ u.realized_pnl_ticks = r + net * (price - i) /\ u.net_position = net + n
          /\ u.avg_entry_price_ticks.num = price /\ u.avg_entry_price_ticks.den = 1
      BY <2>1, <2>3, <2>4, <1>8
    <3>2. PICK z : z = c - n * price
      OBVIOUS
    <3>3. f = (u.realized_pnl_ticks - z) * u.avg_entry_price_ticks.den
                  - u.net_position * u.avg_entry_price_ticks.num
      BY <2>5, <3>2 DEF Discrepancy
    <3> QED BY <3>1, <3>2, <3>3, <1>2
  <2>7. f \in Int /\ f * den = e + net * rest
    <3>1. f = r - c - net * i
      BY <2>6, <1>2
    <3> QED BY <3>1, <1>2, <1>3, <1>5
  <2>8. -((k + m) * den) < f * den /\ f * den < (k + m) * den
    <3>1. /\ -((k + Abs(net)) * den) < e + net * rest
          /\ e + net * rest < (k + Abs(net)) * den
      BY <1>2, <1>4, <1>6, ClosingError
    <3> QED BY <3>1, <2>1, <2>7
  <2>9. m \in Nat /\ k + m \in Int
    BY <2>1, <1>2, AbsFacts
  <2>10. -(k + m) < f /\ f < k + m
    <3>1. (-(k + m)) * den = -((k + m) * den) /\ -(k + m) \in Int
      BY <2>9, <1>2
    <3> QED BY <3>1, <2>7, <2>8, <2>9, <1>2, Unscaled
  <2> QED BY <2>3, <2>4, <2>5, <2>7, <2>9, <2>10, <1>1, <1>7, <1>9 DEF Within
<1>11. CASE ~(net + n # 0 /\ Signum(net + n) # Signum(net))
  <2>1. m = Abs(n) /\ s = -n
    <3>1. CASE net > 0
      BY <3>1, <1>1, <1>2, <1>7, <1>8, <1>11 DEF Abs, Signum, Lesser
    <3>2. CASE net < 0
      <4>1. Signum(net) = -1 /\ n > 0
        BY <3>2, <1>1, <1>2 DEF Signum
      <4>2. n <= -net
        BY <3>2, <4>1, <1>2, <1>11 DEF Signum
      <4>3. m = Abs(n) /\ m = n
        BY <3>2, <4>1, <4>2, <1>2, <1>7 DEF Abs, Lesser
      <4> QED BY <4>1, <4>3, <1>8
    <3> QED BY <3>1, <3>2, <1>2
  <2>2. u.avg_entry_price_ticks = t.avg_entry_price_ticks
    BY <1>1, <1>8, <1>11 DEF AverageAfterReduce
  <2>3. PICK f : f = Discrepancy(u, c - n * price)
    OBVIOUS
  <2>4. f = (r + (-n) * (price - i) - (c - n * price)) * den - (net + n) * num
    <3>1. /\ u.realized_pnl_ticks = r + (-n) * (price - i) /\ u.net_position = net + n
          /\ u.avg_entry_price_ticks.num = num /\ u.avg_entry_price_ticks.den = den
      BY <2>1, <2>2, <1>1, <1>8
    <3>2. PICK z : z = c - n * price
      OBVIOUS
    <3>3. f = (u.realized_pnl_ticks - z) * u.avg_entry_price_ticks.den
                  - u.net_position * u.avg_entry_price_ticks.num
      BY <2>3, <3>2 DEF Discrepancy
    <3> QED BY <3>1, <3>2, <3>3, <1>2
  <2>5. f = e + (-n) * rest
    BY <2>4, <1>2, <1>3, <1>5
  <2>6. -n \in Int /\ -n # 0 /\ Abs(-n) = Abs(n)
    BY DEF Abs
  <2>7. -((k + m) * den) < f /\ f < (k + m) * den
    BY <2>1, <2>5, <2>6, <1>2, <1>4, <1>6, ClosingError
  <2> QED BY <2>2, <2>3, <2>7, <1>1, <1>7, <1>9 DEF Within
<1> QED BY <1>10, <1>11

-----------------------------------------------------------------------------
(* What is on the way. *)

Weights == [m \in Message |-> QuantityOf(m)]

(* SumOf as a sum of weights.                                              *)
LEMMA SumOfIsWeight ==
    /\ Weights \in [Message -> Int]
    /\ \A m \in Message : Weights[m] = QuantityOf(m)
    /\ \A s \in Seq(Message) : SumOf(s) = Total(Weigh(Weights, s)) /\ SumOf(s) \in Int
<1>1. ASSUME NEW m \in Message PROVE QuantityOf(m) \in Int
  <2>1. CASE m.tag = "Fill"
    <3>1. m.incoming_side \in TradeSides /\ m.quantity \in Int
      BY <2>1 DEF Message
    <3> QED BY <3>1, SignedFacts DEF QuantityOf
  <2>2. CASE m.tag # "Fill"
    BY <2>2 DEF QuantityOf
  <2> QED BY <2>1, <2>2
<1>2. Weights \in [Message -> Int] /\ \A m \in Message : Weights[m] = QuantityOf(m)
  BY <1>1 DEF Weights
<1>3. ASSUME NEW s \in Seq(Message) PROVE SumOf(s) = Total(Weigh(Weights, s)) /\ SumOf(s) \in Int
  <2>1. \A i \in 1..Len(s) : s[i] \in Message
    BY ElementOfSeq
  <2>2. [i \in 1..Len(s) |-> QuantityOf(s[i])] = Weigh(Weights, s)
    BY <2>1, <1>2 DEF Weigh
  <2>3. Weigh(Weights, s) \in Seq(Int)
    BY <1>2, WeighTyped
  <2> QED BY <2>2, <2>3, TotalTyped DEF SumOf
<1> QED BY <1>2, <1>3

(* A message more...                                                       *)
LEMMA SumAppend ==
    ASSUME NEW s \in Seq(Message), NEW m \in Message
    PROVE  SumOf(Append(s, m)) = SumOf(s) + QuantityOf(m)
<1>1. Append(s, m) \in Seq(Message)
  BY AppendProperties
<1> QED BY <1>1, SumOfIsWeight, WeightAppend

(* ... some messages more...                                               *)
LEMMA SumConcat ==
    ASSUME NEW s \in Seq(Message), NEW t \in Seq(Message)
    PROVE  s \o t \in Seq(Message) /\ SumOf(s \o t) = SumOf(s) + SumOf(t)
<1>1. s \o t \in Seq(Message)
  BY ConcatProperties
<1>2. Total(Weigh(Weights, s \o t)) = Total(Weigh(Weights, s)) + Total(Weigh(Weights, t))
  BY SumOfIsWeight, WeightConcat
<1>3. PICK r : r = s \o t
  OBVIOUS
<1>4. SumOf(r) = Total(Weigh(Weights, r))
  BY <1>1, <1>3, SumOfIsWeight
<1> QED BY <1>1, <1>2, <1>3, <1>4, SumOfIsWeight

(* ... a message less...                                                   *)
LEMMA SumTail ==
    ASSUME NEW s \in Seq(Message), s # <<>>
    PROVE  SumOf(s) = QuantityOf(Head(s)) + SumOf(Tail(s))
<1>1. Tail(s) \in Seq(Message) /\ Head(s) \in Message
  BY HeadTailProperties
<1> QED BY <1>1, SumOfIsWeight, WeightTail

(* ... and the messages that one order brings, which add up to what was    *)
(* executed of it.                                                         *)
LEMMA SumOfExecution ==
    ASSUME NEW s \in Seq(Message), NEW side \in TradeSides, NEW q \in Nat, NEW f \in Fillings(q),
           NEW price \in [1..Len(f) -> TradePrices]
    PROVE  LET more == s \o << AckMsg >> \o [i \in 1..Len(f) |-> FillMsg(side, f[i], price[i])]
           IN  /\ more \in Seq(Message)
               /\ SumOf(more) = SumOf(s) + Signed(side, Total(f))
               /\ Signed(side, Total(f)) \in Int
<1>1. f \in Seq(Int) /\ Len(f) \in Nat /\ \A i \in 1..Len(f) : f[i] \in Nat \ {0}
  <2>1. PICK n \in 0..MaxPieces : f \in [1..n -> 1..q]
    BY DEF Fillings
  <2>2. n \in Nat /\ \A i \in 1..n : f[i] \in Int /\ f[i] \in Nat \ {0}
    BY <2>1, RiskAssumption
  <2>3. f \in [1..n -> Int]
    BY <2>1, <2>2
  <2>4. f \in Seq(Int) /\ Len(f) = n
    BY <2>2, <2>3
  <2> QED BY <2>2, <2>4
<1>2. PICK g : g = [i \in 1..Len(f) |-> FillMsg(side, f[i], price[i])]
  OBVIOUS
<1>3. ASSUME NEW i \in 1..Len(f)
      PROVE  /\ FillMsg(side, f[i], price[i]) \in Message
             /\ QuantityOf(FillMsg(side, f[i], price[i])) = Signed(side, f[i])
  <2>1. f[i] \in Nat \ {0} /\ price[i] \in Int
    BY <1>1, RiskAssumption
  <2> QED BY <2>1 DEF FillMsg, Message, QuantityOf
<1>4. g \in Seq(Message) /\ Len(g) = Len(f)
  <2>1. g \in [1..Len(f) -> Message]
    BY <1>2, <1>3
  <2> QED BY <2>1, <1>1, FunctionIsSeq
<1>5. SumOf(g) = Signed(side, Total(f))
  <2>1. PICK u : u = [i \in 1..Len(g) |-> QuantityOf(g[i])]
    OBVIOUS
  <2>2. \A i \in 1..Len(f) : QuantityOf(g[i]) = Signed(side, f[i])
    BY <1>2, <1>3
  <2>3. u \in [1..Len(f) -> Int] /\ \A i \in 1..Len(f) : u[i] = Signed(side, f[i])
    <3>1. u = [i \in 1..Len(f) |-> QuantityOf(g[i])]
      BY <2>1, <1>4
    <3>2. \A i \in 1..Len(f) : Signed(side, f[i]) \in Int
      <4> TAKE i \in 1..Len(f)
      <4>1. f[i] \in Int
        BY <1>1
      <4> QED BY <4>1, SignedFacts
    <3> QED BY <3>1, <3>2, <2>2
  <2>4. u \in Seq(Int) /\ Len(u) = Len(f)
    BY <2>3, <1>1, FunctionIsSeq
  <2>5. SumOf(g) = Total(u)
    BY <2>1 DEF SumOf
  <2>6. CASE side = "Buy"
    <3>1. \A i \in 1..Len(f) : u[i] = f[i]
      BY <2>3, <2>6 DEF Signed
    <3>2. u = f
      BY <3>1, <2>4, <1>1, SeqEqual
    <3> QED BY <3>2, <2>5, <2>6 DEF Signed
  <2>7. CASE side # "Buy"
    <3>1. \A i \in 1..Len(f) : u[i] = -f[i]
      BY <2>3, <2>7 DEF Signed
    <3>2. Total(u) = -Total(f)
      BY <3>1, <2>4, <1>1, TotalNegated
    <3> QED BY <3>2, <2>5, <2>7 DEF Signed
  <2> QED BY <2>6, <2>7
<1>6. <<AckMsg>> \in Seq(Message) /\ SumOf(<<AckMsg>>) = 0
  <2>1. AckMsg \in Message /\ QuantityOf(AckMsg) = 0
    BY DEF AckMsg, Message, QuantityOf
  <2>2. <<AckMsg>> \in Seq(Message)
    BY <2>1
  <2>3. [i \in 1..Len(<<AckMsg>>) |-> QuantityOf(<<AckMsg>>[i])] = << QuantityOf(AckMsg) >>
    OBVIOUS
  <2>4. SumOf(<<AckMsg>>) = 0
    BY <2>1, <2>3, TotalSingle DEF SumOf
  <2> QED BY <2>2, <2>4
<1>7. PICK a : a = s \o <<AckMsg>>
  OBVIOUS
<1>8. a \in Seq(Message) /\ SumOf(a) = SumOf(s) + SumOf(<<AckMsg>>)
  BY <1>6, <1>7, SumConcat
<1>9. a \o g \in Seq(Message) /\ SumOf(a \o g) = SumOf(a) + SumOf(g)
  BY <1>4, <1>8, SumConcat
<1>10. SumOf(s) \in Int
  BY SumOfIsWeight
<1>11. Signed(side, Total(f)) \in Int
  BY <1>1, TotalTyped, SignedFacts
<1>12. SumOf(a \o g) = SumOf(s) + Signed(side, Total(f))
  BY <1>5, <1>6, <1>8, <1>9, <1>10, <1>11
<1> QED BY <1>2, <1>7, <1>9, <1>11, <1>12

-----------------------------------------------------------------------------
(* The steps. *)

(* A fill is taken off the stream and added to the position, which changes *)
(* neither the types nor the sum.                                          *)
LEMMA FillTaken ==
    ASSUME WellTyped, PositionMatchesExposure, stream # <<>>, Head(stream).tag = "Fill",
           tracker' = on_fill(tracker, Head(stream).incoming_side, Head(stream).quantity,
                              Head(stream).price),
           stream' = Tail(stream), UNCHANGED exposure
    PROVE  tracker' \in Tracker /\ stream' \in Seq(Message) /\ PositionMatchesExposure'
<1>1. PICK m : m = Head(stream)
  OBVIOUS
<1>2. stream \in Seq(Message) /\ tracker \in Tracker
  BY DEF WellTyped
<1>3. m \in Message /\ m.tag = "Fill" /\ Tail(stream) \in Seq(Message)
  BY <1>1, <1>2, HeadTailProperties
<1>4. m.incoming_side \in TradeSides /\ m.quantity \in Nat \ {0} /\ m.price \in Int
  BY <1>3 DEF Message
<1>5. /\ tracker' \in Tracker
      /\ tracker'.net_position = tracker.net_position + Signed(m.incoming_side, m.quantity)
  BY <1>1, <1>2, <1>4, OnFill
<1>6. SumOf(stream) = Signed(m.incoming_side, m.quantity) + SumOf(Tail(stream))
  BY <1>1, <1>2, <1>3, SumTail DEF QuantityOf
<1>7. /\ Signed(m.incoming_side, m.quantity) \in Int /\ SumOf(Tail(stream)) \in Int
      /\ tracker.net_position \in Int
  <2>1. m.quantity \in Int
    BY <1>4
  <2> QED BY <2>1, <1>2, <1>3, <1>4, SignedFacts, SumOfIsWeight DEF Tracker
<1>8. tracker.net_position + SumOf(stream) = exposure
  BY DEF PositionMatchesExposure
<1>9. tracker'.net_position + SumOf(Tail(stream)) = exposure
  BY <1>5, <1>6, <1>7, <1>8
<1> QED BY <1>3, <1>5, <1>9 DEF PositionMatchesExposure

(* Reading an update...                                                    *)
LEMMA ReadFillKeepsInv ==
    ASSUME RiskInv, ReadFill
    PROVE  RiskInv'
<1>1. tracker' \in Tracker /\ stream' \in Seq(Message) /\ PositionMatchesExposure'
  BY FillTaken DEF RiskInv, ReadFill
<1>2. WellTyped'
  BY <1>1 DEF RiskInv, WellTyped, ReadFill
<1>3. log' = << position_update(tracker') >> /\ pc' = "check"
  BY DEF ReadFill
<1>4. position_update(tracker').net_position = tracker'.net_position
  BY DEF position_update
<1>5. LogOK'
  BY <1>3, <1>4 DEF LogOK
<1> QED BY <1>1, <1>2, <1>5 DEF RiskInv

(* ... also one that is not logged...                                      *)
LEMMA UpdateFailsKeepsInv ==
    ASSUME RiskInv, UpdateFails
    PROVE  RiskInv'
<1>1. tracker' \in Tracker /\ stream' \in Seq(Message) /\ PositionMatchesExposure'
  BY FillTaken DEF RiskInv, UpdateFails
<1>2. WellTyped'
  BY <1>1 DEF RiskInv, WellTyped, UpdateFails
<1>3. LogOK'
  BY DEF UpdateFails, LogOK
<1> QED BY <1>1, <1>2, <1>3 DEF RiskInv

(* ... or an ack.                                                          *)
LEMMA ReadAckKeepsInv ==
    ASSUME RiskInv, ReadAck
    PROVE  RiskInv'
<1>1. stream \in Seq(Message) /\ stream # <<>> /\ Head(stream).tag = "Ack" /\ tracker \in Tracker
  BY DEF RiskInv, WellTyped, ReadAck
<1>2. Tail(stream) \in Seq(Message) /\ QuantityOf(Head(stream)) = 0
  BY <1>1, HeadTailProperties DEF QuantityOf
<1>3. SumOf(stream) = SumOf(Tail(stream))
  <2>1. SumOf(stream) = QuantityOf(Head(stream)) + SumOf(Tail(stream))
    BY <1>1, SumTail
  <2>2. SumOf(Tail(stream)) \in Int
    BY <1>2, SumOfIsWeight
  <2> QED BY <2>1, <2>2, <1>2
<1>4. PositionMatchesExposure'
  BY <1>3 DEF PositionMatchesExposure, RiskInv, ReadAck
<1>5. WellTyped'
  BY <1>2 DEF RiskInv, WellTyped, ReadAck
<1>6. LogOK'
  BY DEF RiskInv, LogOK, ReadAck
<1> QED BY <1>4, <1>5, <1>6 DEF RiskInv

(* The check, the flattening order, the halt line and the failures change  *)
(* nothing that the sum depends on.                                        *)
LEMMA CheckKeepsInv ==
    ASSUME RiskInv, WithinLimit \/ SendFlatten \/ SendFails \/ LogHalt \/ HaltFails \/ StreamEnds
    PROVE  RiskInv'
<1>1. UNCHANGED <<tracker, stream, exposure, trades>>
  BY DEF WithinLimit, SendFlatten, SendFails, LogHalt, HaltFails, StreamEnds
<1>2. PositionMatchesExposure'
  BY <1>1 DEF RiskInv, PositionMatchesExposure
<1>3. tracker.net_position \in Int
  BY DEF RiskInv, WellTyped, Tracker
<1>4. orders' \in Seq(FlattenOrder)
  <2>1. FlattenAction(tracker.net_position) \in FlattenOrder
    <3>1. Abs(tracker.net_position) % QuantityModulus \in Nat
      BY <1>3, AbsFacts, RiskAssumption
    <3> QED BY <3>1 DEF FlattenAction, FlattenOrder, TradeSides
  <2>2. orders \in Seq(FlattenOrder)
    BY DEF RiskInv, WellTyped
  <2>3. Append(orders, FlattenAction(tracker.net_position)) \in Seq(FlattenOrder)
    BY <2>1, <2>2, AppendProperties
  <2> QED BY <2>2, <2>3 DEF WithinLimit, SendFlatten, SendFails, LogHalt, HaltFails, StreamEnds
<1>5. WellTyped'
  <2>1. pc' \in {"read", "check", "halt", "exited"}
    BY DEF WithinLimit, SendFlatten, SendFails, LogHalt, HaltFails, StreamEnds
  <2> QED BY <2>1, <1>1, <1>4 DEF RiskInv, WellTyped
<1>6. LogOK'
  <2>1. CASE LogHalt
    <3>1. PICK line : log = <<line>> /\ line.net_position = tracker.net_position
      BY <2>1 DEF LogHalt, RiskInv, LogOK
    <3>2. Breach(line.net_position)
      BY <3>1, <2>1 DEF LogHalt, RiskInv, LogOK
    <3>3. log' = << line, halt(tracker.net_position) >> /\ pc' = "read"
      BY <3>1, <2>1, AppendToOne DEF LogHalt
    <3> QED BY <3>2, <3>3 DEF LogOK
  <2>2. CASE WithinLimit
    <3>1. PICK line : log = <<line>> /\ line.net_position = tracker.net_position
      BY <2>2 DEF WithinLimit, RiskInv, LogOK
    <3>2. ~Breach(line.net_position) /\ log' = log /\ pc' = "read"
      BY <3>1, <2>2 DEF WithinLimit
    <3> QED BY <3>1, <3>2 DEF LogOK
  <2>3. CASE SendFlatten
    <3>1. log' = log /\ pc' = "halt" /\ pc = "check" /\ Breach(tracker.net_position)
      BY <2>3 DEF SendFlatten
    <3>2. PICK line : log = <<line>> /\ line.net_position = tracker.net_position
      BY <3>1 DEF RiskInv, LogOK
    <3> QED BY <3>1, <3>2, <1>1 DEF LogOK
  <2>4. CASE SendFails \/ HaltFails \/ StreamEnds
    BY <2>4 DEF SendFails, HaltFails, StreamEnds, LogOK
  <2> QED BY <2>1, <2>2, <2>3, <2>4
<1> QED BY <1>2, <1>5, <1>6 DEF RiskInv

(* Another order trades.                                                   *)
LEMMA OtherTradeKeepsInv ==
    ASSUME RiskInv, NEW side \in TradeSides, NEW q \in TradeQuantities, NEW price \in TradePrices,
           OtherTrade(side, q, price)
    PROVE  RiskInv'
<1>1. q \in Nat \ {0} /\ price \in Int /\ q \in Int
  BY RiskAssumption
<1>2. PICK m : m = FillMsg(side, q, price)
  OBVIOUS
<1>3. m \in Message /\ QuantityOf(m) = Signed(side, q)
  BY <1>1, <1>2 DEF FillMsg, Message, QuantityOf
<1>4. /\ stream \in Seq(Message) /\ stream' = Append(stream, m)
      /\ exposure \in Int /\ exposure' = exposure + Signed(side, q)
      /\ trades \in Nat /\ trades' = trades + 1
      /\ UNCHANGED <<tracker, pc, log, orders>>
  BY <1>2 DEF RiskInv, WellTyped, OtherTrade
<1>5. stream' \in Seq(Message) /\ SumOf(stream') = SumOf(stream) + Signed(side, q)
  <2>1. Append(stream, m) \in Seq(Message)
    BY <1>3, <1>4, AppendProperties
  <2>2. SumOf(Append(stream, m)) = SumOf(stream) + Signed(side, q)
    BY <1>3, <1>4, SumAppend
  <2> QED BY <2>1, <2>2, <1>4
<1>6. Signed(side, q) \in Int /\ SumOf(stream) \in Int /\ tracker.net_position \in Int
  BY <1>1, <1>4, SignedFacts, SumOfIsWeight DEF RiskInv, WellTyped, Tracker
<1>7. tracker.net_position + SumOf(stream) = exposure
  BY DEF RiskInv, PositionMatchesExposure
<1>8. tracker.net_position + SumOf(stream') = exposure'
  BY <1>4, <1>5, <1>6, <1>7
<1>9. PositionMatchesExposure'
  BY <1>4, <1>8 DEF PositionMatchesExposure
<1>10. WellTyped'
  BY <1>4, <1>5, <1>6 DEF RiskInv, WellTyped
<1>11. LogOK'
  BY <1>4 DEF RiskInv, LogOK
<1> QED BY <1>9, <1>10, <1>11 DEF RiskInv

(* A flattening order executes, in some fills and perhaps not in full.     *)
LEMMA ExecuteKeepsInv ==
    ASSUME RiskInv, Execute
    PROVE  RiskInv'
<1>1. PICK o : o = Head(orders)
  OBVIOUS
<1>2. orders \in Seq(FlattenOrder) /\ orders # <<>> /\ stream \in Seq(Message)
  BY DEF RiskInv, WellTyped, Execute
<1>3. o \in FlattenOrder /\ Tail(orders) \in Seq(FlattenOrder)
  BY <1>1, <1>2, HeadTailProperties
<1>4. o.side \in TradeSides /\ o.quantity \in Nat
  BY <1>3 DEF FlattenOrder
<1>5. PICK f \in Fillings(o.quantity) : \E price \in [1..Len(f) -> TradePrices] :
         /\ stream' = stream \o << AckMsg >> \o [i \in 1..Len(f) |-> FillMsg(o.side, f[i], price[i])]
         /\ exposure' = exposure + Signed(o.side, Total(f))
  BY <1>1 DEF Execute
<1>6. PICK price \in [1..Len(f) -> TradePrices] :
         /\ stream' = stream \o << AckMsg >> \o [i \in 1..Len(f) |-> FillMsg(o.side, f[i], price[i])]
         /\ exposure' = exposure + Signed(o.side, Total(f))
  BY <1>5
<1>7. PICK more : more = stream \o << AckMsg >>
                            \o [i \in 1..Len(f) |-> FillMsg(o.side, f[i], price[i])]
  OBVIOUS
<1>8. /\ more \in Seq(Message) /\ SumOf(more) = SumOf(stream) + Signed(o.side, Total(f))
      /\ Signed(o.side, Total(f)) \in Int
  BY <1>2, <1>4, <1>7, SumOfExecution
<1>9. /\ stream' = more /\ orders' = Tail(orders) /\ UNCHANGED <<tracker, pc, log, trades>>
      /\ exposure \in Int /\ tracker.net_position \in Int /\ SumOf(stream) \in Int
  BY <1>2, <1>6, <1>7, SumOfIsWeight DEF Execute, RiskInv, WellTyped, Tracker
<1>10. tracker.net_position + SumOf(stream) = exposure
  BY DEF RiskInv, PositionMatchesExposure
<1>11. tracker.net_position + SumOf(more) = exposure'
  BY <1>6, <1>8, <1>9, <1>10
<1>12. PositionMatchesExposure'
  BY <1>9, <1>11 DEF PositionMatchesExposure
<1>13. WellTyped'
  <2>1. exposure' \in Int
    BY <1>6, <1>8, <1>9
  <2> QED BY <2>1, <1>3, <1>8, <1>9 DEF RiskInv, WellTyped
<1>14. LogOK'
  BY <1>9 DEF RiskInv, LogOK
<1> QED BY <1>12, <1>13, <1>14 DEF RiskInv

-----------------------------------------------------------------------------
(* The theorems. *)

(* The invariant holds at the start...                                     *)
LEMMA InitRiskInv == Init => RiskInv
<1> SUFFICES ASSUME Init PROVE RiskInv
  OBVIOUS
<1>1. Fraction(0, 1) \in Rational
  <2>1. 1 \in Nat \ {0} /\ 0 \in Int
    OBVIOUS
  <2> QED BY <2>1, FractionTyped DEF Rational
<1>2. NewTracker \in Tracker /\ NewTracker.net_position = 0
  BY <1>1 DEF NewTracker, Tracker
<1>3. <<>> \in Seq(Message) /\ <<>> \in Seq(FlattenOrder) /\ Len(<<>>) = 0
  BY EmptySeq
<1>4. SumOf(<<>>) = 0
  <2>1. [i \in 1..Len(<<>>) |-> QuantityOf(<<>>[i])] = <<>>
    BY <1>3
  <2> QED BY <2>1, TotalTyped DEF SumOf
<1> QED BY <1>2, <1>3, <1>4 DEF Init, RiskInv, WellTyped, LogOK, PositionMatchesExposure

(* ... and every step keeps it.                                            *)
LEMMA NextRiskInv == RiskInv /\ [Next]_vars => RiskInv'
<1> SUFFICES ASSUME RiskInv, [Next]_vars PROVE RiskInv'
  OBVIOUS
<1>1. CASE RiskStep \/ Failure
  BY <1>1, ReadFillKeepsInv, ReadAckKeepsInv, CheckKeepsInv, UpdateFailsKeepsInv
     DEF RiskStep, Failure
<1>2. CASE MatchingEngine
  BY <1>2, OtherTradeKeepsInv, ExecuteKeepsInv DEF MatchingEngine
<1>3. CASE UNCHANGED vars
  BY <1>3 DEF vars, RiskInv, WellTyped, LogOK, PositionMatchesExposure
<1> QED BY <1>1, <1>2, <1>3 DEF Next

(* What main, on_fill and check_breach keep between any two steps.         *)
THEOREM RiskInvariant == Spec => []RiskInv
BY InitRiskInv, NextRiskInv, PTL DEF Spec

(* The tracker keeps its types: on_fill never divides by a quantity of     *)
(* zero, and check_breach only makes orders of a side and a size.          *)
THEOREM RiskTypeCorrect == Spec => []TypeOK
<1>1. RiskInv => TypeOK
  <2> SUFFICES ASSUME RiskInv PROVE TypeOK
    OBVIOUS
  <2>1. /\ tracker.net_position \in Int /\ tracker.realized_pnl_ticks \in Int
        /\ tracker.avg_entry_price_ticks.den > 0
    BY DEF RiskInv, WellTyped, Tracker, Rational
  <2>2. \A i \in 1..Len(orders) : orders[i] \in FlattenOrder
    BY ElementOfSeq DEF RiskInv, WellTyped
  <2> QED BY <2>1, <2>2 DEF RiskInv, WellTyped, TypeOK, FlattenOrder
<1> QED BY <1>1, RiskInvariant, PTL

(* No fill is lost, counted twice or taken with the wrong sign by main's   *)
(* loop and on_fill: the position and the fills on the stream always add   *)
(* up to what was traded, across flattening orders in any number of fills. *)
THEOREM PositionIsExact == Spec => []PositionMatchesExposure
<1>1. RiskInv => PositionMatchesExposure
  BY DEF RiskInv
<1> QED BY <1>1, RiskInvariant, PTL

(* Whenever main is back at its stream, the log has a halt line after the  *)
(* last update exactly if that update breached the limit.                  *)
THEOREM HaltsAreLogged == Spec => []HaltLoggedOnBreach
<1>1. RiskInv => HaltLoggedOnBreach
  <2> SUFFICES ASSUME RiskInv, pc = "read", log # <<>>
               PROVE  Len(log) = 2 <=> Breach(log[1].net_position)
    BY DEF HaltLoggedOnBreach
  <2>1. CASE \E line : log = <<line>> /\ ~Breach(line.net_position)
    BY <2>1
  <2>2. CASE \E line, more : log = <<line, more>> /\ Breach(line.net_position)
    BY <2>2
  <2> QED BY <2>1, <2>2 DEF RiskInv, LogOK
<1> QED BY <1>1, RiskInvariant, PTL

-----------------------------------------------------------------------------
(* The P&L against the cash flow. *)

(* The books balance up to truncation, and the update that was logged last *)
(* is of the tracker as it is.                                             *)
AccountInv ==
    /\ cash \in Int /\ closed \in Nat
    /\ Within(Discrepancy(tracker, cash), closed, tracker.avg_entry_price_ticks.den)
    /\ log # <<>> => log[1] = position_update(tracker)

(* A fill that is folded into the position and booked.                     *)
LEMMA FillBooked ==
    ASSUME WellTyped, AccountInv, stream # <<>>, Head(stream).tag = "Fill",
           tracker' = on_fill(tracker, Head(stream).incoming_side, Head(stream).quantity,
                              Head(stream).price),
           Account
    PROVE  /\ cash' \in Int /\ closed' \in Nat
           /\ Within(Discrepancy(tracker', cash'), closed', tracker'.avg_entry_price_ticks.den)
<1>1. PICK m, n, net : /\ m = Head(stream) /\ n = Signed(m.incoming_side, m.quantity)
                       /\ net = tracker.net_position
  OBVIOUS
<1>2. tracker \in Tracker /\ net \in Int /\ m \in Message
  BY <1>1, HeadTailProperties DEF WellTyped, Tracker
<1>3. m.incoming_side \in TradeSides /\ m.quantity \in Nat \ {0} /\ m.quantity \in Int /\ m.price \in Int
  BY <1>1, <1>2 DEF Message
<1>4. n \in Int /\ n # 0
  BY <1>1, <1>3, SignedFacts
<1>5. cash' = cash - n * m.price /\ closed' = closed + ClosedBy(net, n)
  BY <1>1 DEF Account, ClosedBy, AccountInv
<1>6. ClosedBy(net, n) \in Nat
  BY <1>2, <1>4, AbsFacts DEF ClosedBy, Lesser
<1>7. cash' \in Int /\ closed' \in Nat
  BY <1>3, <1>4, <1>5, <1>6 DEF AccountInv
<1>8. CASE net = 0 \/ Signum(net) = Signum(n)
  <2>1. tracker' = Increase(tracker, n, m.price)
    BY <1>1, <1>8 DEF on_fill
  <2>2. closed' = closed
    <3>1. ~(Signum(net) * Signum(n) < 0)
      BY <1>2, <1>4, <1>8 DEF Signum
    <3> QED BY <3>1, <1>1 DEF Account
  <2>3. LET u == Increase(tracker, n, m.price)
        IN  Within(Discrepancy(u, cash - n * m.price), closed, u.avg_entry_price_ticks.den)
    BY <1>1, <1>2, <1>3, <1>4, <1>8, IncreaseKeepsAccount DEF AccountInv
  <2> QED BY <2>1, <2>2, <2>3, <1>5, <1>7
<1>9. CASE net # 0 /\ Signum(net) # Signum(n)
  <2>1. tracker' = Reduce(tracker, n, m.price)
    BY <1>1, <1>9 DEF on_fill
  <2>2. LET u == Reduce(tracker, n, m.price)
        IN  Within(Discrepancy(u, cash - n * m.price), closed + ClosedBy(net, n), u.avg_entry_price_ticks.den)
    BY <1>1, <1>2, <1>3, <1>4, <1>9, ReduceKeepsAccount DEF AccountInv
  <2> QED BY <2>1, <2>2, <1>5, <1>7
<1> QED BY <1>8, <1>9

(* The books balance at the start...                                       *)
LEMMA InitAccount == MCInit => AccountInv
<1> SUFFICES ASSUME MCInit PROVE AccountInv
  OBVIOUS
<1>1. tracker = NewTracker /\ cash = 0 /\ closed = 0 /\ log = <<>>
  BY DEF MCInit, Init
<1>2. Fraction(0, 1) \in Rational
  <2>1. 1 \in Nat \ {0} /\ 0 \in Int
    OBVIOUS
  <2> QED BY <2>1, FractionTyped DEF Rational
<1>3. tracker.realized_pnl_ticks = 0 /\ tracker.net_position = 0 /\ tracker.avg_entry_price_ticks \in Rational
  BY <1>1, <1>2 DEF NewTracker
<1>4. Discrepancy(tracker, cash) = 0
  BY <1>1, <1>3 DEF Discrepancy, Rational
<1> QED BY <1>1, <1>4 DEF AccountInv, Within

(* ... and after every step.                                               *)
LEMMA NextAccount == RiskInv /\ AccountInv /\ [MCNext]_<<vars, hvars>> => AccountInv'
<1> SUFFICES ASSUME RiskInv, AccountInv, [MCNext]_<<vars, hvars>> PROVE AccountInv'
  OBVIOUS
<1>1. CASE UNCHANGED <<tracker, cash, closed>> /\ (log' = log \/ log' = <<>>)
  BY <1>1 DEF AccountInv
<1>2. CASE ReadFill /\ Account
  <2>1. /\ cash' \in Int /\ closed' \in Nat
        /\ Within(Discrepancy(tracker', cash'), closed', tracker'.avg_entry_price_ticks.den)
    BY <1>2, FillBooked DEF ReadFill, RiskInv
  <2>2. log' = << position_update(tracker') >>
    BY <1>2 DEF ReadFill
  <2> QED BY <2>1, <2>2 DEF AccountInv
<1>3. CASE UpdateFails /\ Account
  <2>1. /\ cash' \in Int /\ closed' \in Nat
        /\ Within(Discrepancy(tracker', cash'), closed', tracker'.avg_entry_price_ticks.den)
    BY <1>3, FillBooked DEF UpdateFails, RiskInv
  <2> QED BY <2>1, <1>3 DEF AccountInv, UpdateFails
<1>4. CASE LogHalt /\ UNCHANGED hvars
  <2>1. PICK line : log = <<line>> /\ line.net_position = tracker.net_position
    BY <1>4 DEF LogHalt, RiskInv, LogOK
  <2>2. log' = << line, halt(tracker.net_position) >>
    BY <2>1, <1>4, AppendToOne DEF LogHalt
  <2>3. log[1] = line /\ log # <<>> /\ log'[1] = line
    BY <2>1, <2>2
  <2>4. UNCHANGED <<tracker, cash, closed>>
    BY <1>4 DEF LogHalt, hvars
  <2> QED BY <2>3, <2>4 DEF AccountInv
<1> QED BY <1>1, <1>2, <1>3, <1>4 DEF MCNext, MCRiskStep, MCFailure, MCExecute, ReadAck, WithinLimit,
       SendFlatten, SendFails, HaltFails, StreamEnds, Execute, OtherTrade, vars, hvars

(* A step of the instance is one of the risk engine.                       *)
LEMMA AccountingIsPassive ==
    /\ MCInit => Init
    /\ [MCNext]_<<vars, hvars>> => [Next]_vars
BY DEF MCInit, MCNext, MCRiskStep, MCFailure, MCExecute, Next, RiskStep, MatchingEngine, Failure,
       vars, hvars

(* Both invariants together.                                               *)
LEMMA AccountInvariant == MCSpec => [](RiskInv /\ AccountInv)
<1>1. MCInit => RiskInv /\ AccountInv
  BY InitRiskInv, InitAccount, AccountingIsPassive
<1>2. RiskInv /\ AccountInv /\ [MCNext]_<<vars, hvars>> => (RiskInv /\ AccountInv)'
  BY NextRiskInv, NextAccount, AccountingIsPassive
<1> QED BY <1>1, <1>2, PTL DEF MCSpec

(* on_fill's realized P&L is the cash flow plus the open position at its   *)
(* average price, less than one tick per closed unit apart, after any      *)
(* sequence of fills, partial closes and turns through flat.               *)
THEOREM RealizedIsExact == MCSpec => []RealizedWithinTruncation
<1>1. RiskInv /\ AccountInv => RealizedWithinTruncation
  <2> SUFFICES ASSUME RiskInv, AccountInv PROVE RealizedWithinTruncation
    OBVIOUS
  <2>1. PICK e, b : e = Discrepancy(tracker, cash) /\ b = closed * tracker.avg_entry_price_ticks.den
    OBVIOUS
  <2>2. /\ tracker.net_position \in Int /\ tracker.realized_pnl_ticks \in Int
        /\ tracker.avg_entry_price_ticks.num \in Int /\ tracker.avg_entry_price_ticks.den \in Int
        /\ cash \in Int /\ closed \in Int
    BY DEF RiskInv, WellTyped, Tracker, Rational, AccountInv
  <2>3. e \in Int /\ b \in Int
    BY <2>1, <2>2 DEF Discrepancy
  <2>4. e = 0 \/ (-b < e /\ e < b)
    BY <2>1 DEF AccountInv, Within
  <2>5. e = 0 \/ Abs(e) < b
    BY <2>3, <2>4, AbsBelow
  <2> QED BY <2>1, <2>5 DEF RealizedWithinTruncation, Discrepancy
<1> QED BY <1>1, AccountInvariant, PTL

(* The two figures of the last position_update line add up to the cash     *)
(* flow plus the open position at the last trade price, less than one tick *)
(* per closed or open unit apart.                                          *)
THEOREM LoggedPnlIsExact == MCSpec => []LoggedPnlIsMarkToMarket
<1>1. RiskInv /\ AccountInv => LoggedPnlIsMarkToMarket
  <2> SUFFICES ASSUME RiskInv, AccountInv, log # <<>> PROVE LoggedPnlIsMarkToMarket
    BY DEF LoggedPnlIsMarkToMarket
  <2>1. PICK net, r, last, num, den, i :
            /\ net = tracker.net_position /\ r = tracker.realized_pnl_ticks
            /\ last = tracker.last_trade_price_ticks
            /\ num = tracker.avg_entry_price_ticks.num /\ den = tracker.avg_entry_price_ticks.den
            /\ i = AsI64(tracker.avg_entry_price_ticks)
    OBVIOUS
  <2>2. /\ net \in Int /\ r \in Int /\ last \in Int /\ num \in Int /\ den \in Nat \ {0} /\ i \in Int
        /\ cash \in Int /\ closed \in Nat
    BY <2>1, AsI64Typed DEF RiskInv, WellTyped, Tracker, Rational, AccountInv
  <2>3. PICK rest, e, f, k : /\ rest = num - i * den /\ e = (r - cash) * den - net * num
                             /\ f = r - cash - net * i /\ k = closed + Abs(net)
    OBVIOUS
  <2>4. /\ rest \in Int /\ -den < rest /\ rest < den /\ e \in Int /\ f \in Int /\ k \in Int
        /\ Within(e, closed, den) /\ f * den = e + net * rest
    <3>1. -den < rest /\ rest < den
      BY <2>1, <2>3, TruncationError DEF RiskInv, WellTyped, Tracker
    <3>2. Within(e, closed, den)
      BY <2>1, <2>3 DEF AccountInv, Discrepancy
    <3>3. Abs(net) \in Int
      BY <2>2, AbsFacts
    <3>4. rest \in Int /\ e \in Int /\ f \in Int /\ k \in Int /\ f * den = e + net * rest
      BY <2>2, <2>3, <3>3
    <3> QED BY <3>1, <3>2, <3>4
  <2>5. f = 0 \/ Abs(f) < k
    <3>1. CASE net # 0
      <4>1. -((closed + Abs(net)) * den) < e + net * rest /\ e + net * rest < (closed + Abs(net)) * den
        BY <2>2, <2>4, <3>1, ClosingError
      <4>2. -(k * den) < f * den /\ f * den < k * den
        BY <4>1, <2>3, <2>4
      <4>3. (-k) * den = -(k * den) /\ -k \in Int
        BY <2>2, <2>4
      <4>4. -k < f /\ f < k
        BY <4>2, <4>3, <2>2, <2>4, Unscaled
      <4> QED BY <4>4, <2>4, AbsBelow
    <3>2. CASE net = 0
      <4>1. f * den = e /\ k = closed
        BY <3>2, <2>2, <2>3, <2>4 DEF Abs
      <4>2. CASE e = 0
        BY <4>1, <4>2, <2>2, <2>4, Unscaled
      <4>3. CASE e # 0
        <5>1. -(k * den) < f * den /\ f * den < k * den
          BY <4>1, <4>3, <2>4 DEF Within
        <5>2. (-k) * den = -(k * den) /\ -k \in Int
          BY <2>2, <2>4
        <5>3. -k < f /\ f < k
          BY <5>1, <5>2, <2>2, <2>4, Unscaled
        <5> QED BY <5>3, <2>4, AbsBelow
      <4> QED BY <4>2, <4>3
    <3> QED BY <3>1, <3>2
  <2>6. log[1].realized_pnl_ticks = r /\ log[1].unrealized_pnl_ticks = net * (last - i)
    BY <2>1 DEF AccountInv, position_update, unrealized_pnl_ticks
  <2>7. log[1].realized_pnl_ticks + log[1].unrealized_pnl_ticks - cash - net * last = f
    BY <2>2, <2>3, <2>6
  <2> QED BY <2>1, <2>3, <2>5, <2>7 DEF LoggedPnlIsMarkToMarket
<1> QED BY <1>1, AccountInvariant, PTL
=============================================================================
