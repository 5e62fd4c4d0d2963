---------------------------- MODULE HedgeProofs ----------------------------
(***************************************************************************)
(* Proofs about the delta-hedging backtest for every book of options, band *)
(* and number of ticks, and however the two threads, the order book server *)
(* and the companion quoter are interleaved.                               *)
(*                                                                         *)
(* HedgeInv is the inductive invariant.  Beside the types it follows each  *)
(* order through the places where it can be: the action that is not sent,  *)
(* the socket, and, as ack and fills, the two queues of the client and the *)
(* log.  The queues are taken together (Answers), as the reader thread     *)
(* only moves an event from one to the other.                              *)
(*                                                                         *)
(* The last two parts are about the report: its replay of the fills keeps  *)
(* the same account as position.rs, and its drawdown is the deepest fall.  *)
(***************************************************************************)
EXTENDS MCHedgeSession, BasicLemmas

HedgeOrders == [order_id : Nat, side : TradeSides, quantity : Nat]

AckEvents  == [tag : {"Ack"}, client_order_id : Nat, status : {0, 1}]
FillEvents == [tag : {"Fill"}, incoming_order_id : Nat, resting_side : TradeSides, price_ticks : Int,
               quantity : Nat \ {0}]
Events     == AckEvents \cup FillEvents

SentRows == [event : {"order_sent"}, order_id : Nat, side : TradeSides, qty : Nat]
AckRows  == [event : {"ack"}, order_id : Nat, status : {0, 1}]
FilledRows == [event : {"fill"}, incoming_id : Nat, incoming_side : TradeSides, price_ticks : Int,
               qty : Nat \ {0}]
LogRows  == SentRows \cup AckRows \cup FilledRows

(* What the server has answered and drain has not yet taken.               *)
Answers == events \o to_client

(* The orders and events of the session are about the hedger's own orders. *)
OwnOrders == {o \in HedgeOrders : o.order_id \in my_order_ids}
OwnEvents == {e \in Events : e.tag = "Fill" => e.incoming_order_id \in my_order_ids}
OverBand  == {o \in OwnOrders : o.quantity > HedgeBand}

(* The types, of what is on the way too.                                   *)
WellTyped ==
    /\ position \in Int /\ target \in Int /\ executed \in Int
    /\ next_id \in Nat \ {0} /\ my_order_ids = 1..(next_id - 1)
    /\ ticks_done \in 0..MaxTicks
    /\ pc \in {"connect", "tick", "send", "poll", "final", "closed"}
    /\ actions \in Seq(OverBand)
    /\ log \in Seq(LogRows)
    /\ to_server \in Seq(OwnOrders)
    /\ to_client \in Seq(OwnEvents) /\ events \in Seq(OwnEvents)
    /\ quoter_ids \subseteq 1..MaxQuoterIds
    /\ quoter_next \in Nat \ {0}

-----------------------------------------------------------------------------
(* The target. *)

(* aggregate_delta is a fraction, whatever the pricing server says...      *)
LEMMA AggregateTyped ==
    ASSUME NEW deltas \in [1..Len(LegQuantities) -> LegDeltas]
    PROVE  aggregate_delta(deltas) \in Rational
<1> DEFINE N == Len(LegQuantities)
<1> DEFINE Plus(sum, i) == Fraction(sum.num * deltas[i].den + LegQuantities[i] * deltas[i].num * sum.den,
                                    sum.den * deltas[i].den)
<1> DEFINE Eq(f) == f = [i \in 0..N |-> IF i = 0 THEN Fraction(0, 1) ELSE Plus(f[i - 1], i)]
<1>0. N \in Nat
  BY HedgeAssumption
<1>1. ASSUME NEW sum \in Rational, NEW i \in 1..N PROVE Plus(sum, i) \in Rational
  <2>1. deltas[i].num \in Int /\ deltas[i].den \in Nat \ {0}
    BY HedgeAssumption
  <2>2. sum.num \in Int /\ sum.den \in Nat \ {0}
    BY DEF Rational
  <2>3. LegQuantities[i] \in Int
    BY HedgeAssumption, ElementOfSeq
  <2>4. sum.den * deltas[i].den \in Nat \ {0}
    BY <2>1, <2>2, PositiveProduct
  <2>5. sum.num * deltas[i].den \in Int /\ LegQuantities[i] * deltas[i].num \in Int
    BY <2>1, <2>2, <2>3
  <2>6. LegQuantities[i] * deltas[i].num * sum.den \in Int
    BY <2>2, <2>5
  <2>7. sum.num * deltas[i].den + LegQuantities[i] * deltas[i].num * sum.den \in Int
    BY <2>5, <2>6
  <2> QED BY <2>4, <2>7, FractionTyped DEF Rational
<1>2. Fraction(0, 1) \in Rational
  <2>1. 1 \in Nat \ {0} /\ 0 \in Int
    OBVIOUS
  <2> QED BY <2>1, FractionTyped DEF Rational
<1>3. PICK g : g = [x \in Rational \X (1..N) |-> Plus(x[1], x[2])]
  OBVIOUS
<1>4. g \in [Rational \X (1..N) -> Rational]
  <2>1. ASSUME NEW x \in Rational \X (1..N) PROVE Plus(x[1], x[2]) \in Rational
    <3>1. x[1] \in Rational /\ x[2] \in 1..N
      OBVIOUS
    <3> HIDE DEF Plus
    <3> QED BY <3>1, <1>1
  <2> HIDE DEF Plus
  <2> QED BY <2>1, <1>3
<1>5. PICK h : Iterates(h, Rational, Fraction(0, 1), g, N)
  BY <1>0, <1>2, <1>4, IterationExists
<1>6. /\ h \in [0..N -> Rational] /\ h[0] = Fraction(0, 1)
      /\ \A i \in 1..N : h[i] = g[<<h[i - 1], i>>]
  BY <1>5 DEF Iterates
<1>7. ASSUME NEW i \in 1..N PROVE h[i] = Plus(h[i - 1], i)
  <2>1. i - 1 \in 0..N
    BY <1>0
  <2>2. <<h[i - 1], i>> \in Rational \X (1..N)
    BY <2>1, <1>6
  <2> HIDE DEF Plus
  <2> QED BY <2>2, <1>3, <1>6
<1>8. Eq(h)
  <2>1. \A i \in 0..N : i = 0 \/ i \in 1..N
    BY <1>0
  <2> HIDE DEF Plus
  <2> QED BY <1>6, <1>7, <2>1
<1>9. PICK f : f = CHOOSE e : Eq(e)
  OBVIOUS
<1>10. Eq(f)
  <2> HIDE DEF Eq
  <2> QED BY <1>8, <1>9
<1>11. aggregate_delta(deltas) = f[N]
  BY <1>9 DEF aggregate_delta
<1>12. f[0] = Fraction(0, 1) /\ \A i \in 1..N : f[i] = Plus(f[i - 1], i)
  <2>1. 0 \in 0..N /\ \A i \in 1..N : i \in 0..N /\ i # 0
    BY <1>0
  <2> HIDE DEF Plus
  <2> QED BY <1>10, <2>1
<1>13. 0..N \subseteq {i \in 0..N : f[i] \in Rational}
  <2> DEFINE T == {i \in 0..N : f[i] \in Rational}
  <2>1. 0 \in T
    BY <1>0, <1>2, <1>12
  <2>2. ASSUME NEW i \in 1..N, i - 1 \in T PROVE i \in T
    <3> HIDE DEF Plus
    <3>1. f[i - 1] \in Rational /\ i \in 0..N
      BY <2>2, <1>0
    <3> QED BY <3>1, <1>1, <1>12
  <2>3. 0..N \subseteq T
    <3> HIDE DEF T, Plus
    <3> QED BY <1>0, <2>1, <2>2, InductionUpTo
  <2> QED BY <2>3
<1>14. N \in 0..N
  BY <1>0
<1> QED BY <1>11, <1>13, <1>14

(* ... and so the targets are whole contracts.                             *)
LEMMA TargetsTyped == Targets \subseteq Int
<1> SUFFICES ASSUME NEW deltas \in [1..Len(LegQuantities) -> LegDeltas]
             PROVE  TargetPosition(deltas) \in Int
  BY DEF Targets
<1>1. PICK d : d = aggregate_delta(deltas)
  OBVIOUS
<1>2. -d.num \in Int /\ d.den \in Nat \ {0}
  BY <1>1, AggregateTyped DEF Rational
<1> QED BY <1>1, <1>2, RoundIsNearest DEF TargetPosition

-----------------------------------------------------------------------------
(* What events bring. *)

Weights(ids) == [e \in Events |-> EventQuantity(e, ids)]

(* FilledQuantity as a sum of weights.                                     *)
LEMMA FilledIsWeight ==
    ASSUME NEW ids
    PROVE  /\ Weights(ids) \in [Events -> Int]
           /\ \A e \in Events : Weights(ids)[e] = EventQuantity(e, ids)
           /\ \A s \in Seq(Events) : /\ FilledQuantity(s, ids) = Total(Weigh(Weights(ids), s))
                                     /\ FilledQuantity(s, ids) \in Int
<1>1. ASSUME NEW e \in Events PROVE EventQuantity(e, ids) \in Int
  <2>1. CASE e.tag = "Fill"
    <3>1. e.quantity \in Int /\ incoming_side(e) \in TradeSides
      BY <2>1 DEF Events, AckEvents, FillEvents, incoming_side, Opposite, TradeSides
    <3> QED BY <3>1, SignedFacts DEF EventQuantity
  <2>2. CASE e.tag # "Fill"
    BY <2>2 DEF EventQuantity
  <2> QED BY <2>1, <2>2
<1>2. Weights(ids) \in [Events -> Int] /\ \A e \in Events : Weights(ids)[e] = EventQuantity(e, ids)
  BY <1>1 DEF Weights
<1>3. ASSUME NEW s \in Seq(Events)
      PROVE  /\ FilledQuantity(s, ids) = Total(Weigh(Weights(ids), s))
             /\ FilledQuantity(s, ids) \in Int
  <2>1. \A i \in 1..Len(s) : s[i] \in Events
    BY ElementOfSeq
  <2>2. [i \in 1..Len(s) |-> EventQuantity(s[i], ids)] = Weigh(Weights(ids), s)
    BY <2>1, <1>2 DEF Weigh
  <2>3. Weigh(Weights(ids), s) \in Seq(Int)
    BY <1>2, WeighTyped
  <2> QED BY <2>2, <2>3, TotalTyped DEF FilledQuantity
<1> QED BY <1>2, <1>3

(* The events of two queues.                                               *)
LEMMA FilledConcat ==
    ASSUME NEW s \in Seq(Events), NEW t \in Seq(Events), NEW ids
    PROVE  /\ s \o t \in Seq(Events)
           /\ FilledQuantity(s \o t, ids) = FilledQuantity(s, ids) + FilledQuantity(t, ids)
<1>1. s \o t \in Seq(Events)
  BY ConcatProperties
<1>2. PICK w : w = Weights(ids)
  OBVIOUS
<1>3. w \in [Events -> Int]
  BY <1>2, FilledIsWeight
<1>4. Total(Weigh(w, s \o t)) = Total(Weigh(w, s)) + Total(Weigh(w, t))
  BY <1>3, WeightConcat
<1>5. PICK r : r = s \o t
  OBVIOUS
<1>6. /\ FilledQuantity(r, ids) = Total(Weigh(w, r))
      /\ FilledQuantity(s, ids) = Total(Weigh(w, s))
      /\ FilledQuantity(t, ids) = Total(Weigh(w, t))
  BY <1>1, <1>2, <1>5, FilledIsWeight
<1> QED BY <1>1, <1>4, <1>5, <1>6

(* An id that no fill has makes no difference.                             *)
LEMMA FilledSameIds ==
    ASSUME NEW s, NEW ids, NEW more, ids \subseteq more,
           \A i \in 1..Len(s) : s[i].tag = "Fill" => s[i].incoming_order_id \in ids
    PROVE  FilledQuantity(s, more) = FilledQuantity(s, ids)
<1>1. \A i \in 1..Len(s) : EventQuantity(s[i], more) = EventQuantity(s[i], ids)
  BY DEF EventQuantity
<1> QED BY <1>1 DEF FilledQuantity

(* No events bring nothing, and an ack brings nothing.                     *)
LEMMA FilledNothing ==
    ASSUME NEW ids, NEW id \in Nat, NEW status \in {0, 1}
    PROVE  /\ <<>> \in Seq(Events) /\ FilledQuantity(<<>>, ids) = 0
           /\ AckEvent(id, status) \in Events /\ << AckEvent(id, status) >> \in Seq(Events)
           /\ FilledQuantity(<< AckEvent(id, status) >>, ids) = 0
<1>1. <<>> \in Seq(Events) /\ FilledQuantity(<<>>, ids) = 0
  <2>1. [i \in 1..Len(<<>>) |-> EventQuantity(<<>>[i], ids)] = <<>>
    BY EmptySeq
  <2> QED BY <2>1, EmptySeq, TotalTyped DEF FilledQuantity
<1>2. PICK a : a = AckEvent(id, status)
  OBVIOUS
<1>3. a \in Events /\ EventQuantity(a, ids) = 0
  BY <1>2 DEF AckEvent, Events, AckEvents, EventQuantity
<1>4. <<a>> \in Seq(Events)
  BY <1>3
<1>5. [i \in 1..Len(<<a>>) |-> EventQuantity(<<a>>[i], ids)] = << EventQuantity(a, ids) >>
  OBVIOUS
<1>6. FilledQuantity(<<a>>, ids) = 0
  BY <1>3, <1>5, TotalSingle DEF FilledQuantity
<1> QED BY <1>1, <1>2, <1>3, <1>4, <1>6

(* What the server answers to an order that it executes.                   *)
Execution(o, f, price) ==
    << AckEvent(o.order_id, 0) >>
        \o [i \in 1..Len(f) |-> FillEvent(o.order_id, Opposite(o.side), price[i], f[i])]

(* The pieces in which an order is filled.                                 *)
LEMMA FillingsTyped ==
    ASSUME NEW o \in HedgeOrders, NEW f \in Fillings(o.quantity)
    PROVE  /\ f \in Seq(Int) /\ Len(f) \in Nat /\ Total(f) \in Int
           /\ \A i \in 1..Len(f) : f[i] \in Nat \ {0} /\ f[i] \in Int
<1>1. o.quantity \in Nat
  BY DEF HedgeOrders
<1>2. PICK n \in 0..MaxPieces : f \in [1..n -> 1..o.quantity]
  BY DEF Fillings
<1>3. n \in Nat /\ \A i \in 1..n : f[i] \in Int /\ f[i] \in Nat \ {0}
  BY <1>1, <1>2, HedgeAssumption
<1>4. f \in [1..n -> Int]
  BY <1>2, <1>3
<1>5. f \in Seq(Int) /\ Len(f) = n
  BY <1>3, <1>4, FunctionIsSeq
<1> QED BY <1>3, <1>5, TotalTyped

(* The answer is an ack and then the fills, which bring what was executed. *)
LEMMA ExecutionFacts ==
    ASSUME NEW o \in HedgeOrders, NEW f \in Fillings(o.quantity),
           NEW price \in [1..Len(f) -> FillPrices], NEW ids, o.order_id \in ids
    PROVE  LET e == Execution(o, f, price)
           IN  /\ e \in Seq(Events) /\ Len(e) \in Nat \ {0}
               /\ e[1] = AckEvent(o.order_id, 0)
               /\ \A k \in 2..Len(e) : e[k].tag = "Fill" /\ e[k].incoming_order_id = o.order_id
               /\ FilledQuantity(e, ids) = Signed(o.side, Total(f))
               /\ Signed(o.side, Total(f)) \in Int
<1>0. o.order_id \in Nat /\ o.side \in TradeSides /\ o.quantity \in Nat /\ 0 \in {0, 1}
  BY DEF HedgeOrders
<1>1. f \in Seq(Int) /\ Len(f) \in Nat /\ \A i \in 1..Len(f) : f[i] \in Nat \ {0} /\ f[i] \in Int
  BY FillingsTyped
<1>2. PICK g : g = [i \in 1..Len(f) |-> FillEvent(o.order_id, Opposite(o.side), price[i], f[i])]
  OBVIOUS
<1>3. ASSUME NEW i \in 1..Len(f)
      PROVE  /\ g[i] \in Events /\ g[i].tag = "Fill" /\ g[i].incoming_order_id = o.order_id
             /\ EventQuantity(g[i], ids) = Signed(o.side, f[i])
  <2>1. f[i] \in Nat \ {0} /\ price[i] \in Int
    BY <1>1, HedgeAssumption
  <2>2. g[i] = FillEvent(o.order_id, Opposite(o.side), price[i], f[i])
    BY <1>2
  <2>3. Opposite(o.side) \in TradeSides /\ Opposite(Opposite(o.side)) = o.side
    BY <1>0 DEF Opposite, TradeSides
  <2>4. g[i] \in Events /\ g[i].tag = "Fill" /\ g[i].incoming_order_id = o.order_id
    BY <2>1, <2>2, <2>3, <1>0 DEF FillEvent, Events, FillEvents
  <2>5. incoming_side(g[i]) = o.side /\ g[i].quantity = f[i]
    BY <2>2, <2>3 DEF FillEvent, incoming_side
  <2> QED BY <2>4, <2>5 DEF EventQuantity
<1>4. g \in Seq(Events) /\ Len(g) = Len(f)
  <2>1. g \in [1..Len(f) -> Events]
    BY <1>2, <1>3
  <2> QED BY <2>1, <1>1, FunctionIsSeq
<1>5. FilledQuantity(g, ids) = Signed(o.side, Total(f))
  <2>1. PICK u : u = [i \in 1..Len(g) |-> EventQuantity(g[i], ids)]
    OBVIOUS
  <2>2. u = [i \in 1..Len(f) |-> EventQuantity(g[i], ids)]
    BY <2>1, <1>4
  <2>3. \A i \in 1..Len(f) : Signed(o.side, f[i]) \in Int
    <3> TAKE i \in 1..Len(f)
    <3>1. f[i] \in Int
      BY <1>1
    <3> QED BY <3>1, <1>0, SignedFacts
  <2>4. u \in [1..Len(f) -> Int] /\ \A i \in 1..Len(f) : u[i] = Signed(o.side, f[i])
    BY <2>2, <2>3, <1>3
  <2>5. u \in Seq(Int) /\ Len(u) = Len(f)
    BY <2>4, <1>1, FunctionIsSeq
  <2>6. FilledQuantity(g, ids) = Total(u)
    BY <2>1 DEF FilledQuantity
  <2>7. CASE o.side = "Buy"
    <3>1. \A i \in 1..Len(f) : u[i] = f[i]
      BY <2>4, <2>7 DEF Signed
    <3>2. u = f
      BY <3>1, <2>5, <1>1, SeqEqual
    <3> QED BY <3>2, <2>6, <2>7 DEF Signed
  <2>8. CASE o.side # "Buy"
    <3>1. \A i \in 1..Len(f) : u[i] = -f[i]
      BY <2>4, <2>8 DEF Signed
    <3>2. Total(u) = -Total(f)
      BY <3>1, <2>5, <1>1, TotalNegated
    <3> QED BY <3>2, <2>6, <2>8 DEF Signed
  <2> QED BY <2>7, <2>8
<1>6. PICK a : a = << AckEvent(o.order_id, 0) >>
  OBVIOUS
<1>7. a \in Seq(Events) /\ Len(a) = 1 /\ a[1] = AckEvent(o.order_id, 0) /\ FilledQuantity(a, ids) = 0
  BY <1>0, <1>6, FilledNothing
<1>8. PICK e : e = a \o g
  OBVIOUS
<1>9. /\ e \in Seq(Events) /\ Len(e) = 1 + Len(f) /\ e[1] = a[1]
      /\ \A k \in 1..Len(e) : k = 1 \/ (k - 1 \in 1..Len(g) /\ e[k] = g[k - 1])
  <2>1. /\ e \in Seq(Events) /\ Len(e) = Len(a) + Len(g)
        /\ \A i \in 1..Len(a) : e[i] = a[i]
        /\ \A k \in 1..Len(e) : \/ k \in 1..Len(a)
                                \/ k - Len(a) \in 1..Len(g) /\ e[k] = g[k - Len(a)]
    <3>1. a \in Seq(Events) /\ g \in Seq(Events)
      BY <1>4, <1>7
    <3> QED BY <3>1, <1>8, ConcatFacts
  <2> QED BY <2>1, <1>4, <1>7
<1>10. e[1] = AckEvent(o.order_id, 0)
  BY <1>7, <1>9
<1>11. ASSUME NEW k \in 2..Len(e)
       PROVE  e[k].tag = "Fill" /\ e[k].incoming_order_id = o.order_id
  <2>1. k \in 1..Len(e) /\ k # 1
    BY <1>1, <1>9
  <2>2. k - 1 \in 1..Len(f) /\ e[k] = g[k - 1]
    BY <2>1, <1>4, <1>9
  <2> QED BY <2>2, <1>3
<1>12. Signed(o.side, Total(f)) \in Int
  BY <1>0, <1>1, TotalTyped, SignedFacts
<1>13. FilledQuantity(e, ids) = Signed(o.side, Total(f))
  <2>1. FilledQuantity(e, ids) = FilledQuantity(a, ids) + FilledQuantity(g, ids)
    BY <1>4, <1>7, <1>8, FilledConcat
  <2> QED BY <2>1, <1>5, <1>7, <1>12
<1>14. e = Execution(o, f, price)
  BY <1>2, <1>6, <1>8 DEF Execution
<1>15. Len(e) \in Nat \ {0}
  BY <1>1, <1>9
<1> QED BY <1>9, <1>10, <1>11, <1>12, <1>13, <1>14, <1>15

-----------------------------------------------------------------------------
(* The steps, and the types. *)

(* What is on the way, without the ids.                                    *)
LEMMA QueuesTyped ==
    ASSUME WellTyped
    PROVE  /\ actions \in Seq(HedgeOrders) /\ to_server \in Seq(HedgeOrders)
           /\ events \in Seq(Events) /\ to_client \in Seq(Events)
           /\ Answers \in Seq(OwnEvents) /\ Answers \in Seq(Events)
<1>1. OverBand \subseteq HedgeOrders /\ OwnOrders \subseteq HedgeOrders /\ OwnEvents \subseteq Events
  BY DEF OverBand, OwnOrders, OwnEvents
<1>2. /\ actions \in Seq(OverBand) /\ to_server \in Seq(OwnOrders)
      /\ events \in Seq(OwnEvents) /\ to_client \in Seq(OwnEvents)
  BY DEF WellTyped
<1>3. Answers \in Seq(OwnEvents)
  BY <1>2, ConcatProperties DEF Answers
<1> QED BY <1>1, <1>2, <1>3, SeqMonotonic

(* The rows that drain logs.                                               *)
LEMMA EventRowsTyped ==
    ASSUME NEW batch \in Seq(Events)
    PROVE  /\ EventRows(batch) \in Seq(LogRows) /\ Len(EventRows(batch)) = Len(batch)
           /\ \A i \in 1..Len(batch) : EventRows(batch)[i] = EventRow(batch[i])
<1>1. ASSUME NEW e \in Events PROVE EventRow(e) \in LogRows
  <2>1. CASE e.tag = "Ack"
    BY <2>1 DEF Events, AckEvents, FillEvents, EventRow, LogRows, AckRows
  <2>2. CASE e.tag # "Ack"
    <3>1. e \in FillEvents
      BY <2>2 DEF Events, AckEvents
    <3>2. incoming_side(e) \in TradeSides
      BY <3>1 DEF FillEvents, incoming_side, Opposite, TradeSides
    <3> QED BY <2>2, <3>1, <3>2 DEF FillEvents, EventRow, LogRows, FilledRows
  <2> QED BY <2>1, <2>2
<1>2. Len(batch) \in Nat /\ \A i \in 1..Len(batch) : batch[i] \in Events
  BY ElementOfSeq
<1>3. EventRows(batch) \in [1..Len(batch) -> LogRows]
  BY <1>1, <1>2 DEF EventRows
<1>4. EventRows(batch) \in Seq(LogRows) /\ Len(EventRows(batch)) = Len(batch)
  BY <1>2, <1>3, FunctionIsSeq
<1> QED BY <1>4 DEF EventRows

(* The reader thread changes nothing of what is yet to be drained.         *)
LEMMA ReadStep ==
    ASSUME WellTyped, Read
    PROVE  /\ Answers' = Answers
           /\ events' \in Seq(OwnEvents) /\ to_client' \in Seq(OwnEvents)
           /\ UNCHANGED <<hedgerVars, mainVars, to_server, marketVars>>
<1>1. /\ events \in Seq(OwnEvents) /\ to_client \in Seq(OwnEvents) /\ to_client # <<>>
      /\ events' = Append(events, Head(to_client)) /\ to_client' = Tail(to_client)
      /\ UNCHANGED <<hedgerVars, mainVars, to_server, marketVars>>
  BY DEF WellTyped, Read
<1>2. Head(to_client) \in OwnEvents /\ Tail(to_client) \in Seq(OwnEvents)
  BY <1>1, HeadTailProperties
<1>3. Append(events, Head(to_client)) \in Seq(OwnEvents)
  BY <1>1, <1>2, AppendProperties
<1>4. Append(events, Head(to_client)) \o Tail(to_client) = events \o to_client
  BY <1>1, HeadMoves
<1> QED BY <1>1, <1>2, <1>3, <1>4 DEF Answers

(* The server answers the order at the head of the socket.                 *)
Answered(news) ==
    /\ to_server # <<>>
    /\ Head(to_server) \in OwnOrders
    /\ to_server' = Tail(to_server) /\ Tail(to_server) \in Seq(OwnOrders)
    /\ news \in Seq(OwnEvents)
    /\ to_client' = to_client \o news /\ to_client' \in Seq(OwnEvents)
    /\ Answers' = Answers \o news
    /\ UNCHANGED <<hedgerVars, mainVars, events, quoter_ids, quoter_next>>

(* Adding news to the later queue is adding it to both.                    *)
LEMMA NewsArrives ==
    ASSUME WellTyped, NEW news \in Seq(OwnEvents), to_server # <<>>,
           to_server' = Tail(to_server), to_client' = to_client \o news,
           UNCHANGED <<hedgerVars, mainVars, events, quoter_ids, quoter_next>>
    PROVE  Answered(news)
<1>1. to_server \in Seq(OwnOrders) /\ events \in Seq(OwnEvents) /\ to_client \in Seq(OwnEvents)
  BY DEF WellTyped
<1>2. Head(to_server) \in OwnOrders /\ Tail(to_server) \in Seq(OwnOrders)
  BY <1>1, HeadTailProperties
<1>3. to_client \o news \in Seq(OwnEvents)
  BY <1>1, ConcatProperties
<1>4. (events \o to_client) \o news = events \o (to_client \o news)
  BY <1>1, ConcatAssociative
<1>5. Answers' = Answers \o news
  BY <1>4 DEF Answers
<1> QED BY <1>2, <1>3, <1>5 DEF Answered

(* It rejects the order...                                                 *)
LEMMA RejectStep ==
    ASSUME WellTyped, ServeReject
    PROVE  /\ Answered(<< AckEvent(Head(to_server).order_id, 1) >>)
           /\ executed' = executed
<1>1. PICK a : a = AckEvent(Head(to_server).order_id, 1)
  OBVIOUS
<1>2. to_server \in Seq(OwnOrders) /\ to_server # <<>>
  BY DEF WellTyped, ServeReject
<1>3. Head(to_server) \in OwnOrders
  BY <1>2, HeadTailProperties
<1>4. Head(to_server).order_id \in Nat /\ 1 \in {0, 1}
  BY <1>3 DEF OwnOrders, HedgeOrders
<1>5. a \in Events
  BY <1>1, <1>4, FilledNothing
<1>6. a \in OwnEvents
  BY <1>1, <1>5 DEF AckEvent, OwnEvents
<1>7. <<a>> \in Seq(OwnEvents)
  BY <1>6
<1>8. to_client' = to_client \o <<a>>
  <2>1. to_client \in Seq(OwnEvents)
    BY DEF WellTyped
  <2>2. Append(to_client, a) = to_client \o <<a>>
    BY <1>6, <2>1, AppendIsConcat
  <2> QED BY <1>1, <2>2 DEF ServeReject
<1>9. /\ to_server' = Tail(to_server)
      /\ UNCHANGED <<hedgerVars, mainVars, events, quoter_ids, quoter_next, executed>>
  BY DEF ServeReject, marketVars
<1>10. Answered(<<a>>)
  BY <1>2, <1>7, <1>8, <1>9, NewsArrives
<1> QED BY <1>1, <1>9, <1>10

(* ... or executes it.                                                     *)
LEMMA ExecuteStep ==
    ASSUME WellTyped, NEW f, NEW price \in [1..Len(f) -> FillPrices], ServeExecute(f, price)
    PROVE  /\ Head(to_server) \in OwnOrders /\ f \in Fillings(Head(to_server).quantity)
           /\ Answered(Execution(Head(to_server), f, price))
           /\ executed' = executed + Signed(Head(to_server).side, Total(f))
<1>1. PICK o : o = Head(to_server)
  OBVIOUS
<1>2. /\ to_server \in Seq(OwnOrders) /\ to_server # <<>> /\ to_client \in Seq(OwnEvents)
      /\ f \in Fillings(o.quantity)
  BY <1>1 DEF WellTyped, ServeExecute
<1>3. o \in OwnOrders /\ o \in HedgeOrders /\ o.order_id \in my_order_ids
  <2>1. o \in OwnOrders
    BY <1>1, <1>2, HeadTailProperties
  <2> QED BY <2>1 DEF OwnOrders
<1>4. PICK e : e = Execution(o, f, price)
  OBVIOUS
<1>5. /\ e \in Seq(Events) /\ e[1] = AckEvent(o.order_id, 0)
      /\ \A k \in 2..Len(e) : e[k].tag = "Fill" /\ e[k].incoming_order_id = o.order_id
  BY <1>2, <1>3, <1>4, ExecutionFacts
<1>6. e \in Seq(OwnEvents)
  <2>1. Len(e) \in Nat /\ \A k \in 1..Len(e) : e[k] \in Events
    BY <1>5, ElementOfSeq
  <2>2. \A k \in 1..Len(e) : k = 1 \/ k \in 2..Len(e)
    BY <2>1
  <2>3. ASSUME NEW k \in 1..Len(e) PROVE e[k] \in OwnEvents
    <3>1. CASE k = 1
      BY <3>1, <2>1, <1>5 DEF OwnEvents, AckEvent
    <3>2. CASE k \in 2..Len(e)
      BY <3>2, <2>1, <1>3, <1>5 DEF OwnEvents
    <3> QED BY <3>1, <3>2, <2>2
  <2>4. e \in [1..Len(e) -> OwnEvents]
    BY <2>3, <1>5, LenProperties
  <2> QED BY <2>1, <2>4, FunctionIsSeq
<1>7. to_client' = to_client \o e
  <2>1. PICK a, g : /\ a = << AckEvent(o.order_id, 0) >>
                    /\ g = [i \in 1..Len(f) |-> FillEvent(o.order_id, Opposite(o.side), price[i], f[i])]
    OBVIOUS
  <2>2. e = a \o g /\ to_client' = (to_client \o a) \o g
    BY <2>1, <1>1, <1>4 DEF Execution, ServeExecute
  <2>3. to_client \in Seq(Events) /\ a \in Seq(Events) /\ g \in Seq(Events)
    <3>1. o.order_id \in Nat /\ 0 \in {0, 1} /\ o.side \in TradeSides /\ o.quantity \in Nat
      BY <1>3 DEF HedgeOrders
    <3>2. a \in Seq(Events)
      BY <2>1, <3>1, FilledNothing
    <3>3. Len(f) \in Nat /\ \A i \in 1..Len(f) : f[i] \in Nat \ {0}
      <4>1. PICK n \in 0..MaxPieces : f \in [1..n -> 1..o.quantity]
        BY <1>2 DEF Fillings
      <4>2. n \in Nat
        BY HedgeAssumption
      <4>3. Len(f) = n
        BY <4>1, <4>2, FunctionIsSeq
      <4> QED BY <4>1, <4>2, <4>3, <3>1
    <3>4. ASSUME NEW i \in 1..Len(f)
          PROVE  FillEvent(o.order_id, Opposite(o.side), price[i], f[i]) \in Events
      <4>1. price[i] \in Int /\ f[i] \in Nat \ {0} /\ Opposite(o.side) \in TradeSides
        BY <3>1, <3>3, HedgeAssumption DEF Opposite, TradeSides
      <4> QED BY <4>1, <3>1 DEF FillEvent, Events, FillEvents
    <3>5. g \in [1..Len(f) -> Events]
      BY <2>1, <3>4
    <3>6. g \in Seq(Events)
      BY <3>3, <3>5, FunctionIsSeq
    <3> QED BY <3>2, <3>6, QueuesTyped
  <2>4. (to_client \o a) \o g = to_client \o (a \o g)
    BY <2>3, ConcatAssociative
  <2> QED BY <2>2, <2>4
<1>8. /\ to_server' = Tail(to_server)
      /\ UNCHANGED <<hedgerVars, mainVars, events, quoter_ids, quoter_next>>
      /\ executed' = executed + Signed(o.side, Total(f))
  BY <1>1 DEF ServeExecute
<1>9. Answered(e)
  BY <1>2, <1>6, <1>7, <1>8, NewsArrives
<1> QED BY <1>1, <1>2, <1>3, <1>4, <1>8, <1>9

-----------------------------------------------------------------------------
(* The inductive invariant. *)

(* The log as it will be when what the server has answered is drained.     *)
Story == log \o EventRows(Answers)

SentIn(rows, id)  == {i \in 1..Len(rows) : rows[i].event = "order_sent" /\ rows[i].order_id = id}
AckedIn(rows, id) == {i \in 1..Len(rows) : rows[i].event = "ack" /\ rows[i].order_id = id}

(* LogIsCausal, of any rows.                                               *)
Causal(rows) ==
    \A i \in 1..Len(rows) :
        /\ rows[i].event = "ack" => \E s \in SentIn(rows, rows[i].order_id) : s < i
        /\ rows[i].event = "ack" => AckedIn(rows, rows[i].order_id) = {i}
        /\ rows[i].event = "fill" =>
              \E a \in AckedIn(rows, rows[i].incoming_id) : a < i /\ rows[a].status = 0

(* The orders that the server has not answered, the unsent ones last.      *)
Outstanding == to_server \o actions

(* An outstanding order has no ack, and is outstanding once; what is in    *)
(* the socket has been logged.                                             *)
Tracked ==
    /\ Causal(Story)
    /\ \A i \in 1..Len(Story) : Story[i].event = "ack" => Story[i].order_id \in my_order_ids
    /\ \A k \in 1..Len(Outstanding) : AckedIn(Story, Outstanding[k].order_id) = {}
    /\ \A k, m \in 1..Len(Outstanding) : Outstanding[k].order_id = Outstanding[m].order_id => k = m
    /\ \A k \in 1..Len(to_server) : SentIn(log, to_server[k].order_id) # {}
    /\ pc \notin {"send", "closed"} => actions = <<>>

HedgeInv == WellTyped /\ PositionLagsFills /\ Tracked

-----------------------------------------------------------------------------
(* What keeps rows causal. *)

(* The rows of two queues.                                                 *)
LEMMA RowsConcat ==
    ASSUME NEW s \in Seq(Events), NEW t \in Seq(Events)
    PROVE  EventRows(s \o t) = EventRows(s) \o EventRows(t)
<1>1. PICK r : r = s \o t
  OBVIOUS
<1>2. /\ r \in Seq(Events) /\ Len(s) \in Nat /\ Len(t) \in Nat /\ Len(r) = Len(s) + Len(t)
      /\ \A k \in 1..Len(r) : \/ k \in 1..Len(s) /\ r[k] = s[k]
                              \/ k > Len(s) /\ k - Len(s) \in 1..Len(t) /\ r[k] = t[k - Len(s)]
  BY <1>1, ConcatFacts
<1>3. PICK a, b, c : a = EventRows(s) /\ b = EventRows(t) /\ c = EventRows(r)
  OBVIOUS
<1>4. /\ a \in Seq(LogRows) /\ Len(a) = Len(s) /\ \A i \in 1..Len(s) : a[i] = EventRow(s[i])
      /\ b \in Seq(LogRows) /\ Len(b) = Len(t) /\ \A i \in 1..Len(t) : b[i] = EventRow(t[i])
      /\ c \in Seq(LogRows) /\ Len(c) = Len(r) /\ \A i \in 1..Len(r) : c[i] = EventRow(r[i])
  BY <1>2, <1>3, EventRowsTyped
<1>5. PICK d : d = a \o b
  OBVIOUS
<1>6. /\ d \in Seq(LogRows) /\ Len(d) = Len(a) + Len(b)
      /\ \A i \in 1..Len(a) : d[i] = a[i]
      /\ \A i \in 1..Len(b) : d[Len(a) + i] = b[i]
  <2>1. a \in Seq(LogRows) /\ b \in Seq(LogRows)
    BY <1>4
  <2> QED BY <2>1, <1>5, ConcatFacts
<1>7. ASSUME NEW k \in 1..Len(c) PROVE d[k] = c[k]
  <2>1. CASE k \in 1..Len(s) /\ r[k] = s[k]
    BY <2>1, <1>4, <1>6
  <2>2. CASE k > Len(s) /\ k - Len(s) \in 1..Len(t) /\ r[k] = t[k - Len(s)]
    <3>1. d[Len(a) + (k - Len(s))] = b[k - Len(s)]
      BY <2>2, <1>4, <1>6
    <3>2. Len(a) + (k - Len(s)) = k
      BY <1>2, <1>4
    <3> QED BY <2>2, <3>1, <3>2, <1>4
  <2> QED BY <2>1, <2>2, <1>2, <1>4
<1>8. Len(c) = Len(d)
  BY <1>2, <1>4, <1>6
<1>9. c = d
  BY <1>4, <1>6, <1>7, <1>8, SeqEqual
<1> QED BY <1>1, <1>3, <1>5, <1>9

(* The rows that come first are causal by themselves.                      *)
LEMMA CausalPrefix ==
    ASSUME NEW s \in Seq(LogRows), NEW t \in Seq(LogRows), Causal(s \o t)
    PROVE  Causal(s)
<1>1. PICK r : r = s \o t
  OBVIOUS
<1>2. Len(s) \in Nat /\ \A i \in 1..Len(s) : i \in 1..Len(r) /\ r[i] = s[i]
  BY <1>1, ConcatFacts
<1>3. Len(r) \in Nat /\ Causal(r)
  BY <1>1, ConcatFacts
<1>4. ASSUME NEW i \in 1..Len(s), s[i].event = "ack"
      PROVE  (\E k \in SentIn(s, s[i].order_id) : k < i) /\ AckedIn(s, s[i].order_id) = {i}
  <2>1. i \in 1..Len(r) /\ r[i] = s[i]
    BY <1>2
  <2>2. PICK k \in SentIn(r, s[i].order_id) : k < i
    BY <2>1, <1>3, <1>4 DEF Causal
  <2>3. k \in SentIn(s, s[i].order_id)
    <3>1. k \in 1..Len(s)
      BY <2>2, <1>2, <1>3 DEF SentIn
    <3> QED BY <2>2, <3>1, <1>2 DEF SentIn
  <2>4. AckedIn(r, s[i].order_id) = {i}
    BY <2>1, <1>3, <1>4 DEF Causal
  <2>5. AckedIn(s, s[i].order_id) = {i}
    BY <2>4, <1>2, <1>4 DEF AckedIn
  <2> QED BY <2>2, <2>3, <2>5
<1>5. ASSUME NEW i \in 1..Len(s), s[i].event = "fill"
      PROVE  \E a \in AckedIn(s, s[i].incoming_id) : a < i /\ s[a].status = 0
  <2>1. i \in 1..Len(r) /\ r[i] = s[i]
    BY <1>2
  <2>2. PICK a \in AckedIn(r, s[i].incoming_id) : a < i /\ r[a].status = 0
    BY <2>1, <1>3, <1>5 DEF Causal
  <2>3. a \in 1..Len(s)
    BY <2>2, <1>2, <1>3 DEF AckedIn
  <2>4. a \in AckedIn(s, s[i].incoming_id) /\ s[a].status = 0
    BY <2>2, <2>3, <1>2 DEF AckedIn
  <2> QED BY <2>2, <2>4
<1> QED BY <1>4, <1>5 DEF Causal

(* The rows of an answer: an ack and then, if it is of acceptance, fills.  *)
AnswerRows(rows, id) ==
    /\ Len(rows) \in Nat \ {0}
    /\ rows[1].event = "ack" /\ rows[1].order_id = id
    /\ \A k \in 2..Len(rows) :
          rows[k].event = "fill" /\ rows[k].incoming_id = id /\ rows[1].status = 0

(* One order has an ack in new and none in old.                            *)
OneMoreAck(new, old, id) ==
    /\ \A other : other # id => AckedIn(new, other) = AckedIn(old, other)
    /\ \A i \in 1..Len(new) :
          new[i].event = "ack" => new[i].order_id = id \/ (i \in 1..Len(old) /\ new[i] = old[i])

(* The answer to an order that was sent and has no ack keeps them causal.  *)
LEMMA CausalAnswer ==
    ASSUME NEW s \in Seq(LogRows), NEW t \in Seq(LogRows), NEW id,
           Causal(s), SentIn(s, id) # {}, AckedIn(s, id) = {}, AnswerRows(t, id), NEW r, r = s \o t
    PROVE  Causal(r) /\ OneMoreAck(r, s, id)
<1>0. /\ Len(t) \in Nat \ {0} /\ t[1].event = "ack" /\ t[1].order_id = id
      /\ \A k \in 2..Len(t) : t[k].event = "fill" /\ t[k].incoming_id = id /\ t[1].status = 0
  BY DEF AnswerRows
<1>1. PICK n : n = Len(s) + 1
  OBVIOUS
<1>2. /\ r \in Seq(LogRows) /\ Len(s) \in Nat /\ Len(r) = Len(s) + Len(t)
      /\ \A i \in 1..Len(s) : i \in 1..Len(r) /\ r[i] = s[i]
      /\ \A i \in 1..Len(t) : Len(s) + i \in 1..Len(r) /\ r[Len(s) + i] = t[i]
      /\ \A k \in 1..Len(r) : \/ k \in 1..Len(s) /\ r[k] = s[k]
                              \/ k > Len(s) /\ k - Len(s) \in 1..Len(t) /\ r[k] = t[k - Len(s)]
  BY ConcatFacts
<1>3. /\ n \in 1..Len(r) /\ n \notin 1..Len(s) /\ r[n] = t[1]
      /\ r[n].event = "ack" /\ r[n].order_id = id
  BY <1>0, <1>1, <1>2
<1>4. ASSUME NEW k \in 1..Len(r)
      PROVE  \/ k \in 1..Len(s) /\ r[k] = s[k]
             \/ k = n
             \/ k > n /\ r[k].event = "fill" /\ r[k].incoming_id = id /\ r[n].status = 0
  <2>1. CASE k > Len(s) /\ k - Len(s) \in 1..Len(t) /\ r[k] = t[k - Len(s)]
    <3>1. k = n \/ (k > n /\ k - Len(s) \in 2..Len(t))
      BY <2>1, <1>0, <1>1, <1>2
    <3> QED BY <2>1, <3>1, <1>0, <1>3
  <2> QED BY <2>1, <1>2
<1>5. AckedIn(r, id) = {n}
  <2>1. n \in AckedIn(r, id)
    BY <1>3 DEF AckedIn
  <2>2. ASSUME NEW k \in AckedIn(r, id) PROVE k = n
    BY <1>4 DEF AckedIn
  <2> QED BY <2>1, <2>2
<1>6. ASSUME NEW other, other # id PROVE AckedIn(r, other) = AckedIn(s, other)
  BY <1>2, <1>3, <1>4, <1>6 DEF AckedIn
<1>7. ASSUME NEW x PROVE SentIn(s, x) \subseteq SentIn(r, x)
  BY <1>2 DEF SentIn
<1>8. ASSUME NEW i \in 1..Len(r), r[i].event = "ack"
      PROVE  (\E k \in SentIn(r, r[i].order_id) : k < i) /\ AckedIn(r, r[i].order_id) = {i}
  <2>1. CASE i \in 1..Len(s) /\ r[i] = s[i]
    <3>1. i \in AckedIn(s, s[i].order_id)
      BY <2>1, <1>8 DEF AckedIn
    <3>2. s[i].order_id # id
      BY <3>1
    <3>3. (\E k \in SentIn(s, s[i].order_id) : k < i) /\ AckedIn(s, s[i].order_id) = {i}
      BY <2>1, <1>8 DEF Causal
    <3> QED BY <2>1, <3>2, <3>3, <1>6, <1>7
  <2>2. CASE i = n
    <3>1. PICK k : k \in SentIn(s, id)
      OBVIOUS
    <3>2. k < n /\ k \in SentIn(r, id)
      BY <3>1, <1>1, <1>2, <1>7 DEF SentIn
    <3> QED BY <2>2, <3>2, <1>3, <1>5
  <2> QED BY <2>1, <2>2, <1>4, <1>8
<1>9. ASSUME NEW i \in 1..Len(r), r[i].event = "fill"
      PROVE  \E a \in AckedIn(r, r[i].incoming_id) : a < i /\ r[a].status = 0
  <2>1. CASE i \in 1..Len(s) /\ r[i] = s[i]
    <3>1. PICK a \in AckedIn(s, s[i].incoming_id) : a < i /\ s[a].status = 0
      BY <2>1, <1>9 DEF Causal
    <3>2. s[i].incoming_id # id
      BY <3>1
    <3>3. r[a] = s[a]
      BY <3>1, <1>2 DEF AckedIn
    <3> QED BY <2>1, <3>1, <3>2, <3>3, <1>6
  <2>2. CASE i > n /\ r[i].incoming_id = id /\ r[n].status = 0
    BY <2>2, <1>5
  <2> QED BY <2>1, <2>2, <1>3, <1>4, <1>9
<1>10. Causal(r)
  BY <1>8, <1>9 DEF Causal
<1>11. ASSUME NEW i \in 1..Len(r), r[i].event = "ack"
       PROVE  r[i].order_id = id \/ (i \in 1..Len(s) /\ r[i] = s[i])
  BY <1>3, <1>4, <1>11
<1> QED BY <1>6, <1>10, <1>11 DEF OneMoreAck

(* So does a row for a sending that comes before others.                   *)
LEMMA CausalInsert ==
    ASSUME NEW s \in Seq(LogRows), NEW t \in Seq(LogRows), NEW row \in SentRows,
           Causal(s \o t)
    PROVE  LET old == s \o t
               new == Append(s, row) \o t
           IN  /\ Causal(new)
               /\ \A id : AckedIn(old, id) = {} => AckedIn(new, id) = {}
               /\ \A k \in 1..Len(new) : new[k].event = "ack" => \E i \in 1..Len(old) : old[i] = new[k]
<1>0. row \in LogRows /\ row.event = "order_sent"
  BY DEF LogRows, SentRows
<1>1. PICK a, old, new, n : a = Append(s, row) /\ old = s \o t /\ new = a \o t /\ n = Len(s) + 1
  OBVIOUS
<1>2. /\ a \in Seq(LogRows) /\ Len(a) = n /\ Len(s) \in Nat /\ a[n] = row
      /\ \A i \in 1..Len(s) : a[i] = s[i]
  BY <1>0, <1>1, AppendProperties
<1>3. /\ Len(t) \in Nat /\ Len(old) = Len(s) + Len(t)
      /\ \A i \in 1..Len(s) : i \in 1..Len(old) /\ old[i] = s[i]
      /\ \A i \in 1..Len(t) : Len(s) + i \in 1..Len(old) /\ old[Len(s) + i] = t[i]
  BY <1>1, ConcatFacts
<1>4. /\ Len(new) = n + Len(t)
      /\ \A i \in 1..n : i \in 1..Len(new) /\ new[i] = a[i]
      /\ \A i \in 1..Len(t) : n + i \in 1..Len(new) /\ new[n + i] = t[i]
  <2>1. a \in Seq(LogRows)
    BY <1>2
  <2>2. /\ Len(new) = Len(a) + Len(t)
        /\ \A i \in 1..Len(a) : i \in 1..Len(new) /\ new[i] = a[i]
        /\ \A i \in 1..Len(t) : Len(a) + i \in 1..Len(new) /\ new[Len(a) + i] = t[i]
    BY <2>1, <1>1, ConcatFacts
  <2> QED BY <2>2, <1>2
<1> DEFINE Place(i) == IF i <= Len(s) THEN i ELSE i + 1
<1>5. ASSUME NEW i \in 1..Len(old) PROVE Place(i) \in 1..Len(new) /\ new[Place(i)] = old[i]
  <2>1. CASE i \in 1..Len(s)
    <3>1. i \in 1..n /\ Place(i) = i
      BY <2>1, <1>1, <1>2
    <3>2. new[i] = a[i] /\ a[i] = s[i] /\ old[i] = s[i] /\ i \in 1..Len(new)
      BY <2>1, <3>1, <1>2, <1>3, <1>4
    <3> QED BY <3>1, <3>2
  <2>2. CASE i \notin 1..Len(s)
    <3>1. PICK j : j = i - Len(s)
      OBVIOUS
    <3>2. j \in 1..Len(t) /\ Len(s) + j = i /\ n + j = Place(i)
      BY <2>2, <3>1, <1>1, <1>2, <1>3
    <3>3. old[Len(s) + j] = t[j] /\ new[n + j] = t[j] /\ n + j \in 1..Len(new)
      BY <3>2, <1>3, <1>4
    <3> QED BY <3>2, <3>3
  <2> QED BY <2>1, <2>2
<1>6. ASSUME NEW k \in 1..Len(new), new[k].event # "order_sent"
      PROVE  \E i \in 1..Len(old) : k = Place(i)
  <2>1. k # n
    <3>1. n \in 1..n
      BY <1>1, <1>2
    <3> QED BY <3>1, <1>0, <1>2, <1>4, <1>6
  <2>2. CASE k < n
    <3>1. k \in 1..Len(old) /\ k = Place(k)
      BY <2>2, <1>1, <1>2, <1>3
    <3> QED BY <3>1
  <2>3. CASE k > n
    <3>1. k - 1 \in 1..Len(old) /\ k = Place(k - 1)
      BY <2>3, <1>1, <1>2, <1>3, <1>4
    <3> QED BY <3>1
  <2>4. k \in Int /\ n \in Int
    BY <1>1, <1>2
  <2>5. k < n \/ k = n \/ k > n
    BY <2>4
  <2> QED BY <2>1, <2>2, <2>3, <2>5
<1>7. \A i, j \in 1..Len(old) : (i < j => Place(i) < Place(j)) /\ (Place(i) = Place(j) => i = j)
  BY <1>2, <1>3
<1> HIDE DEF Place
<1>8. ASSUME NEW id PROVE AckedIn(new, id) = {Place(i) : i \in AckedIn(old, id)}
  BY <1>5, <1>6 DEF AckedIn
<1>9. ASSUME NEW i \in 1..Len(old), old[i].event = "ack"
      PROVE  /\ \E k \in SentIn(new, old[i].order_id) : k < Place(i)
             /\ AckedIn(new, old[i].order_id) = {Place(i)}
  <2>1. PICK k \in SentIn(old, old[i].order_id) : k < i
    BY <1>1, <1>9 DEF Causal
  <2>2. AckedIn(old, old[i].order_id) = {i}
    BY <1>1, <1>9 DEF Causal
  <2>3. k \in 1..Len(old) /\ Place(k) \in SentIn(new, old[i].order_id)
    BY <1>5 DEF SentIn
  <2>4. Place(k) < Place(i)
    BY <2>1, <2>3, <1>7
  <2> QED BY <2>2, <2>3, <2>4, <1>8
<1>10. ASSUME NEW i \in 1..Len(old), old[i].event = "fill"
       PROVE  \E b \in AckedIn(new, old[i].incoming_id) : b < Place(i) /\ new[b].status = 0
  <2>1. PICK b \in AckedIn(old, old[i].incoming_id) : b < i /\ old[b].status = 0
    BY <1>1, <1>10 DEF Causal
  <2>2. b \in 1..Len(old) /\ Place(b) \in AckedIn(new, old[i].incoming_id)
    BY <1>8 DEF AckedIn
  <2> QED BY <2>1, <2>2, <1>5, <1>7
<1>11. Causal(new)
  <2>1. ASSUME NEW k \in 1..Len(new), new[k].event \in {"ack", "fill"}
        PROVE  \E i \in 1..Len(old) : k = Place(i) /\ new[k] = old[i]
    BY <2>1, <1>5, <1>6
  <2>2. ASSUME NEW k \in 1..Len(new), new[k].event = "ack"
        PROVE  /\ \E m \in SentIn(new, new[k].order_id) : m < k
               /\ AckedIn(new, new[k].order_id) = {k}
    <3>1. PICK i \in 1..Len(old) : k = Place(i) /\ new[k] = old[i]
      BY <2>1, <2>2
    <3> QED BY <3>1, <2>2, <1>9
  <2>3. ASSUME NEW k \in 1..Len(new), new[k].event = "fill"
        PROVE  \E b \in AckedIn(new, new[k].incoming_id) : b < k /\ new[b].status = 0
    <3>1. PICK i \in 1..Len(old) : k = Place(i) /\ new[k] = old[i]
      BY <2>1, <2>3
    <3> QED BY <3>1, <2>3, <1>10
  <2> QED BY <2>2, <2>3 DEF Causal
<1>12. \A id : AckedIn(old, id) = {} => AckedIn(new, id) = {}
  BY <1>8
<1>13. \A k \in 1..Len(new) : new[k].event = "ack" => \E i \in 1..Len(old) : old[i] = new[k]
  BY <1>5, <1>6
<1> QED BY <1>1, <1>11, <1>12, <1>13

-----------------------------------------------------------------------------
(* The steps keep the invariant. *)

(* With the hedger's ids the same, the same orders and events are its own. *)
LEMMA SameIds ==
    ASSUME my_order_ids' = my_order_ids
    PROVE  OverBand' = OverBand /\ OwnOrders' = OwnOrders /\ OwnEvents' = OwnEvents
BY DEF OverBand, OwnOrders, OwnEvents

(* Pricing, waiting, giving up, and the quoter: nothing moves.             *)
LEMMA QuietKeeps ==
    ASSUME HedgeInv,
           UNCHANGED <<position, next_id, my_order_ids, actions, log, to_server, to_client, events,
                       executed>>,
           target' \in Int, ticks_done' \in 0..MaxTicks,
           pc' \in {"connect", "tick", "send", "poll", "final", "closed"},
           pc' \notin {"send", "closed"} => actions = <<>>,
           quoter_ids' \subseteq 1..MaxQuoterIds, quoter_next' \in Nat \ {0}
    PROVE  HedgeInv'
<1>1. WellTyped'
  BY SameIds DEF HedgeInv, WellTyped
<1>2. PositionLagsFills'
  BY DEF HedgeInv, PositionLagsFills
<1>3. Answers' = Answers /\ Story' = Story /\ Outstanding' = Outstanding
  BY DEF Answers, Story, Outstanding
<1>4. Tracked'
  <2>1. log' = log /\ my_order_ids' = my_order_ids /\ to_server' = to_server /\ actions' = actions
    OBVIOUS
  <2>2. Tracked
    BY DEF HedgeInv
  <2> QED BY <2>1, <2>2, <1>3 DEF Tracked
<1> QED BY <1>1, <1>2, <1>4 DEF HedgeInv

(* The reader thread.                                                      *)
LEMMA ReadKeeps ==
    ASSUME HedgeInv, Read
    PROVE  HedgeInv'
<1>1. WellTyped /\ PositionLagsFills /\ Tracked
  BY DEF HedgeInv
<1>2. /\ Answers' = Answers /\ events' \in Seq(OwnEvents) /\ to_client' \in Seq(OwnEvents)
      /\ UNCHANGED <<hedgerVars, mainVars, to_server, marketVars>>
  BY <1>1, ReadStep
<1>3. WellTyped'
  BY <1>1, <1>2, SameIds DEF WellTyped, hedgerVars, mainVars, marketVars
<1>4. PositionLagsFills'
  BY <1>1, <1>2 DEF PositionLagsFills, Answers, hedgerVars, marketVars
<1>5. Story' = Story /\ Outstanding' = Outstanding
  BY <1>2 DEF Story, Outstanding, mainVars
<1>6. Tracked'
  BY <1>1, <1>2, <1>5 DEF Tracked, hedgerVars, mainVars
<1> QED BY <1>3, <1>4, <1>6 DEF HedgeInv

(* drain: the events become rows of the log, and their fills the position. *)
LEMMA DrainKeeps ==
    ASSUME HedgeInv, PollEvents
    PROVE  HedgeInv'
<1>1. WellTyped /\ PositionLagsFills /\ Tracked
  BY DEF HedgeInv
<1>2. /\ log' = log \o EventRows(events) /\ events' = <<>>
      /\ position' = position + FilledQuantity(events, my_order_ids)
      /\ pc \in {"poll", "final"} /\ pc' \in {"tick", "final"}
      /\ UNCHANGED <<next_id, my_order_ids, target, ticks_done, actions, to_server, to_client,
                     quoter_ids, quoter_next, executed>>
  BY DEF PollEvents, PositionAfter, marketVars
<1>3. events \in Seq(Events) /\ to_client \in Seq(Events) /\ log \in Seq(LogRows)
  BY <1>1, QueuesTyped DEF WellTyped
<1>4. /\ EventRows(events) \in Seq(LogRows) /\ EventRows(to_client) \in Seq(LogRows)
      /\ EventRows(events \o to_client) = EventRows(events) \o EventRows(to_client)
  BY <1>3, EventRowsTyped, RowsConcat
<1>5. Answers' = to_client
  <2>1. <<>> \o to_client = to_client
    BY <1>3, ConcatEmptySeq
  <2> QED BY <1>2, <2>1 DEF Answers
<1>6. Story' = Story /\ Outstanding' = Outstanding
  <2>1. Story' = (log \o EventRows(events)) \o EventRows(to_client)
    BY <1>2, <1>5 DEF Story, EventRows, EventRow, incoming_side
  <2>2. (log \o EventRows(events)) \o EventRows(to_client)
           = log \o (EventRows(events) \o EventRows(to_client))
    BY <1>3, <1>4, ConcatAssociative
  <2> QED BY <1>2, <1>4, <2>1, <2>2 DEF Story, Answers, Outstanding
<1>7. FilledQuantity(events, my_order_ids) \in Int
  BY <1>3, FilledIsWeight
<1>8. WellTyped'
  <2>1. log' \in Seq(LogRows)
    BY <1>2, <1>3, <1>4, ConcatProperties
  <2>2. position' \in Int
    BY <1>1, <1>2, <1>7 DEF WellTyped
  <2>3. events' \in Seq(OwnEvents')
    BY <1>2
  <2> QED BY <1>1, <1>2, <2>1, <2>2, <2>3, SameIds DEF WellTyped
<1>9. PositionLagsFills'
  <2>1. FilledQuantity(events \o to_client, my_order_ids)
           = FilledQuantity(events, my_order_ids) + FilledQuantity(to_client, my_order_ids)
    BY <1>3, FilledConcat
  <2>2. FilledQuantity(to_client, my_order_ids) \in Int
    BY <1>3, FilledIsWeight
  <2>3. executed = position' + FilledQuantity(to_client, my_order_ids)
    BY <2>1, <2>2, <1>1, <1>2, <1>7 DEF WellTyped, PositionLagsFills
  <2>4. (events \o to_client)' = to_client
    BY <1>5 DEF Answers
  <2> QED BY <2>3, <2>4, <1>2 DEF PositionLagsFills
<1>10. Tracked'
  <2>1. ASSUME NEW k \in 1..Len(to_server) PROVE SentIn(log', to_server[k].order_id) # {}
    <3>1. PICK id, r : id = to_server[k].order_id /\ r = EventRows(events)
      OBVIOUS
    <3>2. PICK i : i \in SentIn(log, id)
      BY <3>1, <1>1 DEF Tracked
    <3>3. r \in Seq(LogRows) /\ log' = log \o r
      BY <3>1, <1>2, <1>4
    <3>4. \A m \in 1..Len(log) : m \in 1..Len(log') /\ log'[m] = log[m]
      BY <3>3, <1>3, ConcatFacts
    <3>5. i \in SentIn(log', id)
      BY <3>2, <3>4 DEF SentIn
    <3> QED BY <3>1, <3>5
  <2>2. actions = <<>>
    BY <1>1, <1>2 DEF Tracked
  <2> QED BY <1>1, <1>2, <1>6, <2>1, <2>2 DEF Tracked
<1> QED BY <1>8, <1>9, <1>10 DEF HedgeInv

(* An answer of the server: it moves the order at the head of the socket   *)
(* to the queues, as an ack and the fills of what was executed.            *)
LEMMA AnswerKeeps ==
    ASSUME HedgeInv, NEW news, Answered(news), NEW status \in {0, 1},
           Len(news) \in Nat \ {0}, news[1] = AckEvent(Head(to_server).order_id, status),
           \A k \in 2..Len(news) : /\ news[k].tag = "Fill" /\ status = 0
                                   /\ news[k].incoming_order_id = Head(to_server).order_id,
           executed' = executed + FilledQuantity(news, my_order_ids)
    PROVE  HedgeInv'
<1>1. WellTyped /\ PositionLagsFills /\ Tracked
  BY DEF HedgeInv
<1>2. PICK o, id : o = Head(to_server) /\ id = o.order_id
  OBVIOUS
<1>3. /\ to_server \in Seq(OwnOrders) /\ to_server # <<>> /\ o \in OwnOrders
      /\ to_server' = Tail(to_server) /\ Tail(to_server) \in Seq(OwnOrders)
      /\ news \in Seq(OwnEvents) /\ to_client' \in Seq(OwnEvents)
      /\ Answers' = Answers \o news
      /\ UNCHANGED <<position, next_id, my_order_ids, target, ticks_done, pc, actions, log, events,
                     quoter_ids, quoter_next>>
  BY <1>1, <1>2 DEF Answered, WellTyped, hedgerVars, mainVars
<1>4. /\ Answers \in Seq(Events) /\ news \in Seq(Events) /\ log \in Seq(LogRows)
      /\ actions \in Seq(HedgeOrders) /\ to_server \in Seq(HedgeOrders)
  <2>1. OwnEvents \subseteq Events
    BY DEF OwnEvents
  <2>2. news \in Seq(Events)
    BY <1>3, <2>1, SeqMonotonic
  <2> QED BY <2>2, <1>1, QueuesTyped DEF WellTyped
<1>5. PICK rows : rows = EventRows(news)
  OBVIOUS
<1>6. /\ rows \in Seq(LogRows) /\ Len(rows) = Len(news)
      /\ \A i \in 1..Len(news) : rows[i] = EventRow(news[i])
  BY <1>4, <1>5, EventRowsTyped
<1>7. /\ rows[1].event = "ack" /\ rows[1].order_id = id /\ rows[1].status = status
      /\ \A k \in 2..Len(rows) : rows[k].event = "fill" /\ rows[k].incoming_id = id /\ status = 0
  <2>1. 1 \in 1..Len(news) /\ \A k \in 2..Len(news) : k \in 1..Len(news)
    OBVIOUS
  <2>2. rows[1] = EventRow(AckEvent(id, status))
    BY <2>1, <1>2, <1>6
  <2>3. ASSUME NEW k \in 2..Len(rows)
        PROVE  rows[k].event = "fill" /\ rows[k].incoming_id = id /\ status = 0
    <3>1. k \in 2..Len(news) /\ k \in 1..Len(news)
      BY <2>1, <1>6
    <3>2. /\ rows[k] = EventRow(news[k]) /\ news[k].tag = "Fill" /\ status = 0
          /\ news[k].incoming_order_id = id
      BY <3>1, <1>2, <1>6
    <3> QED BY <3>2 DEF EventRow
  <2> QED BY <2>2, <2>3 DEF EventRow, AckEvent
<1>8. Story' = Story \o rows
  <2>1. PICK r : r = EventRows(Answers)
    OBVIOUS
  <2>2. r \in Seq(LogRows) /\ EventRows(Answers \o news) = r \o rows
    BY <2>1, <1>4, <1>5, EventRowsTyped, RowsConcat
  <2>3. log \in Seq(LogRows) /\ rows \in Seq(LogRows) /\ r \in Seq(LogRows)
    BY <2>2, <1>4, <1>6
  <2>4. (log \o r) \o rows = log \o (r \o rows)
    BY ONLY <2>3, ConcatAssociative
  <2>5. Story' = log \o EventRows(Answers \o news)
    BY <1>3 DEF Story, EventRows, EventRow, incoming_side
  <2> QED BY <2>1, <2>2, <2>4, <2>5 DEF Story
<1>9. PICK story : story = Story
  OBVIOUS
<1>10. story \in Seq(LogRows)
  BY <1>4, <1>9, EventRowsTyped, ConcatProperties DEF Story
<1>11. PICK out, rest : out = Outstanding /\ rest = Tail(to_server) \o actions
  OBVIOUS
<1>12. /\ out \in Seq(HedgeOrders) /\ rest \in Seq(HedgeOrders) /\ Outstanding' = rest
       /\ Len(rest) \in Nat /\ Len(out) = 1 + Len(rest)
       /\ out[1] = o /\ \A k \in 1..Len(rest) : 1 + k \in 1..Len(out) /\ out[1 + k] = rest[k]
  <2>1. /\ Tail(to_server) \in Seq(HedgeOrders) /\ <<o>> \in Seq(HedgeOrders)
        /\ to_server = <<o>> \o Tail(to_server)
    BY <1>2, <1>3, <1>4, HeadThenTail
  <2>2. rest \in Seq(HedgeOrders)
    BY <2>1, <1>4, <1>11, ConcatProperties
  <2>3. out = <<o>> \o rest
    <3>1. (<<o>> \o Tail(to_server)) \o actions = <<o>> \o (Tail(to_server) \o actions)
      BY <2>1, <1>4, ConcatAssociative
    <3> QED BY <2>1, <3>1, <1>11 DEF Outstanding
  <2>4. PICK u : u = <<o>>
    OBVIOUS
  <2>5. u \in Seq(HedgeOrders) /\ Len(u) = 1 /\ u[1] = o /\ 1 \in 1..Len(u)
    BY <2>1, <2>4
  <2>6. /\ out \in Seq(HedgeOrders) /\ Len(rest) \in Nat /\ Len(out) = Len(u) + Len(rest)
        /\ \A i \in 1..Len(u) : out[i] = u[i]
        /\ \A i \in 1..Len(rest) : Len(u) + i \in 1..Len(out) /\ out[Len(u) + i] = rest[i]
    <3>1. u \in Seq(HedgeOrders) /\ out = u \o rest
      BY <2>3, <2>4, <2>5
    <3> QED BY <3>1, <2>2, ConcatFacts
  <2>7. Outstanding' = rest
    BY <1>3, <1>11 DEF Outstanding
  <2> QED BY <2>2, <2>5, <2>6, <2>7
<1>13. 1 \in 1..Len(out)
  BY <1>12
<1>14. Causal(story) /\ AckedIn(story, id) = {} /\ SentIn(story, id) # {}
  <2>1. AckedIn(story, id) = {}
    BY <1>1, <1>2, <1>9, <1>11, <1>12, <1>13 DEF Tracked
  <2>2. SentIn(log, id) # {}
    <3>1. 1 \in 1..Len(to_server) /\ to_server[1] = o
      BY <1>2, <1>3, EmptySeq
    <3> QED BY <3>1, <1>1, <1>2 DEF Tracked
  <2>3. \A m \in 1..Len(log) : m \in 1..Len(story) /\ story[m] = log[m]
    <3>1. PICK r : r = EventRows(Answers)
      OBVIOUS
    <3>2. r \in Seq(LogRows) /\ story = log \o r
      BY <3>1, <1>4, <1>9, EventRowsTyped DEF Story
    <3> QED BY <3>2, <1>4, ConcatFacts
  <2>4. SentIn(story, id) # {}
    BY <2>2, <2>3 DEF SentIn
  <2> QED BY <2>1, <2>4, <1>1, <1>9 DEF Tracked
<1>15. PICK new : new = story \o rows
  OBVIOUS
<1>16. /\ Causal(new)
       /\ \A other : other # id => AckedIn(new, other) = AckedIn(story, other)
       /\ \A i \in 1..Len(new) : new[i].event = "ack" =>
             new[i].order_id = id \/ (i \in 1..Len(story) /\ new[i] = story[i])
  <2>1. rows \in Seq(LogRows) /\ AnswerRows(rows, id)
    BY <1>6, <1>7 DEF AnswerRows
  <2>2. Causal(new) /\ OneMoreAck(new, story, id)
    BY <2>1, <1>10, <1>14, <1>15, CausalAnswer
  <2> QED BY <2>2 DEF OneMoreAck
<1>17. Story' = new
  BY <1>8, <1>9, <1>15
<1>18. Tracked'
  <2>1. \A i \in 1..Len(new) : new[i].event = "ack" => new[i].order_id \in my_order_ids
    <3>1. id \in my_order_ids
      BY <1>2, <1>3 DEF OwnOrders
    <3> QED BY <3>1, <1>1, <1>9, <1>16 DEF Tracked
  <2>2. ASSUME NEW k \in 1..Len(rest) PROVE AckedIn(new, rest[k].order_id) = {}
    <3>1. 1 + k \in 1..Len(out) /\ out[1 + k] = rest[k] /\ 1 + k # 1
      BY <1>12
    <3>2. /\ out[1 + k].order_id = out[1].order_id => 1 + k = 1
          /\ AckedIn(story, out[1 + k].order_id) = {}
      BY <3>1, <1>1, <1>9, <1>11, <1>13 DEF Tracked
    <3>3. rest[k].order_id # id
      BY <3>1, <3>2, <1>2, <1>12
    <3> QED BY <3>1, <3>2, <3>3, <1>16
  <2>3. ASSUME NEW k \in 1..Len(rest), NEW m \in 1..Len(rest), rest[k].order_id = rest[m].order_id
        PROVE  k = m
    <3>1. 1 + k \in 1..Len(out) /\ 1 + m \in 1..Len(out) /\ out[1 + k] = rest[k] /\ out[1 + m] = rest[m]
      BY <1>12
    <3>2. 1 + k = 1 + m
      BY <2>3, <3>1, <1>1, <1>11 DEF Tracked
    <3> QED BY <3>2
  <2>4. ASSUME NEW k \in 1..Len(to_server') PROVE SentIn(log, to_server'[k].order_id) # {}
    <3>1. k + 1 \in 1..Len(to_server) /\ to_server'[k] = to_server[k + 1]
      BY <1>3, HeadTailProperties
    <3> QED BY <3>1, <1>1 DEF Tracked
  <2>5. pc' \notin {"send", "closed"} => actions' = <<>>
    BY <1>1, <1>3 DEF Tracked
  <2> QED BY <2>1, <2>2, <2>3, <2>4, <2>5, <1>3, <1>12, <1>16, <1>17 DEF Tracked
<1>19. FilledQuantity(news, my_order_ids) \in Int /\ FilledQuantity(Answers, my_order_ids) \in Int
  BY <1>4, FilledIsWeight
<1>20. WellTyped'
  <2>1. executed' \in Int
    BY <1>1, <1>19 DEF WellTyped
  <2> QED BY <2>1, <1>1, <1>3, SameIds DEF WellTyped
<1>21. PositionLagsFills'
  <2>1. FilledQuantity(Answers \o news, my_order_ids)
           = FilledQuantity(Answers, my_order_ids) + FilledQuantity(news, my_order_ids)
    BY <1>4, FilledConcat
  <2>2. executed = position + FilledQuantity(Answers, my_order_ids)
    BY <1>1 DEF PositionLagsFills, Answers
  <2>3. executed' = position + FilledQuantity(Answers \o news, my_order_ids)
    BY <2>1, <2>2, <1>1, <1>19 DEF WellTyped
  <2>4. (events \o to_client)' = Answers \o news
    BY <1>3 DEF Answers
  <2> QED BY <2>3, <2>4, <1>3 DEF PositionLagsFills
<1> QED BY <1>18, <1>20, <1>21 DEF HedgeInv

(* Sending: the order goes into the socket, and its row into the log.      *)
LEMMA SendKeeps ==
    ASSUME HedgeInv, Send
    PROVE  HedgeInv' /\ Outstanding' = Outstanding
<1>1. WellTyped /\ PositionLagsFills /\ Tracked
  BY DEF HedgeInv
<1>2. PICK o, row : o = Head(actions) /\ row = SentRow(o)
  OBVIOUS
<1>3. /\ pc = "send" /\ actions # <<>> /\ to_server' = Append(to_server, o)
      /\ log' = Append(log, row) /\ actions' = Tail(actions)
      /\ UNCHANGED <<position, next_id, my_order_ids, target, ticks_done, pc, to_client, events,
                     quoter_ids, quoter_next, executed>>
  BY <1>2 DEF Send, hedgerVars, marketVars
<1>4. /\ actions \in Seq(OverBand) /\ to_server \in Seq(OwnOrders) /\ log \in Seq(LogRows)
      /\ actions \in Seq(HedgeOrders) /\ to_server \in Seq(HedgeOrders) /\ Answers \in Seq(Events)
  BY <1>1, QueuesTyped DEF WellTyped
<1>5. o \in OverBand /\ Tail(actions) \in Seq(OverBand)
  BY <1>2, <1>3, <1>4, HeadTailProperties
<1>6. o \in OwnOrders /\ o \in HedgeOrders
  BY <1>5 DEF OverBand, OwnOrders
<1>7. row \in SentRows /\ row \in LogRows /\ row.event = "order_sent" /\ row.order_id = o.order_id
  BY <1>2, <1>6 DEF SentRow, SentRows, LogRows, HedgeOrders
<1>8. Outstanding' = Outstanding
  BY <1>2, <1>3, <1>4, HeadMoves DEF Outstanding
<1>9. PICK rows, old, new : /\ rows = EventRows(Answers) /\ old = log \o rows
                            /\ new = Append(log, row) \o rows
  OBVIOUS
<1>10. Answers' = Answers /\ Story = old /\ Story' = new /\ rows \in Seq(LogRows)
  <2>1. Answers' = Answers
    BY <1>3 DEF Answers
  <2>2. rows \in Seq(LogRows)
    BY <1>4, <1>9, EventRowsTyped
  <2> QED BY <2>1, <2>2, <1>3, <1>9 DEF Story, EventRows, EventRow, incoming_side
<1>11. /\ Causal(new)
       /\ \A id : AckedIn(old, id) = {} => AckedIn(new, id) = {}
       /\ \A k \in 1..Len(new) : new[k].event = "ack" => \E i \in 1..Len(old) : old[i] = new[k]
  <2>1. Causal(log \o rows)
    BY <1>1, <1>9, <1>10 DEF Tracked
  <2>2. log \in Seq(LogRows) /\ rows \in Seq(LogRows) /\ row \in SentRows
    BY <1>4, <1>7, <1>10
  <2>3. LET before == log \o rows
            after  == Append(log, row) \o rows
        IN  /\ Causal(after)
            /\ \A id : AckedIn(before, id) = {} => AckedIn(after, id) = {}
            /\ \A k \in 1..Len(after) :
                  after[k].event = "ack" => \E i \in 1..Len(before) : before[i] = after[k]
    BY ONLY <2>1, <2>2, CausalInsert
  <2> QED BY <2>3, <1>9
<1>12. ASSUME NEW k \in 1..Len(to_server') PROVE SentIn(log', to_server'[k].order_id) # {}
  <2>1. /\ Len(log) \in Nat /\ Len(log') = Len(log) + 1 /\ log'[Len(log) + 1] = row
        /\ \A i \in 1..Len(log) : log'[i] = log[i]
    BY <1>3, <1>4, <1>7, AppendProperties
  <2>2. /\ Len(to_server) \in Nat /\ Len(to_server') = Len(to_server) + 1
        /\ to_server'[Len(to_server) + 1] = o
        /\ \A i \in 1..Len(to_server) : to_server'[i] = to_server[i]
    BY <1>3, <1>4, <1>6, AppendProperties
  <2>3. CASE k \in 1..Len(to_server)
    <3>1. to_server'[k] = to_server[k] /\ SentIn(log, to_server[k].order_id) # {}
      BY <2>2, <2>3, <1>1 DEF Tracked
    <3>2. PICK i : i \in SentIn(log, to_server[k].order_id)
      BY <3>1
    <3>3. i \in SentIn(log', to_server[k].order_id)
      BY <3>2, <2>1 DEF SentIn
    <3> QED BY <3>1, <3>3
  <2>4. CASE k \notin 1..Len(to_server)
    <3>1. to_server'[k] = o
      BY <2>2, <2>4
    <3>2. Len(log) + 1 \in SentIn(log', o.order_id)
      BY <2>1, <1>7 DEF SentIn
    <3> QED BY <3>1, <3>2
  <2> QED BY <2>3, <2>4
<1>13. Tracked'
  <2>1. \A k \in 1..Len(new) : new[k].event = "ack" => new[k].order_id \in my_order_ids
    BY <1>1, <1>10, <1>11 DEF Tracked
  <2>2. \A k \in 1..Len(Outstanding) : AckedIn(new, Outstanding[k].order_id) = {}
    BY <1>1, <1>10, <1>11 DEF Tracked
  <2>3. \A k, m \in 1..Len(Outstanding) : Outstanding[k].order_id = Outstanding[m].order_id => k = m
    BY <1>1 DEF Tracked
  <2> QED BY <2>1, <2>2, <2>3, <1>3, <1>8, <1>10, <1>11, <1>12 DEF Tracked
<1>14. WellTyped'
  <2>1. log' \in Seq(LogRows) /\ to_server' \in Seq(OwnOrders)
    BY <1>3, <1>4, <1>6, <1>7, AppendProperties
  <2> QED BY <2>1, <1>1, <1>3, <1>5, SameIds DEF WellTyped
<1>15. PositionLagsFills'
  BY <1>1, <1>3 DEF PositionLagsFills
<1> QED BY <1>8, <1>13, <1>14, <1>15 DEF HedgeInv

(* The order against a hedge error, and what it would bring.               *)
LEMMA HedgeOrderFacts ==
    ASSUME WellTyped, NEW e \in Int, Abs(e) > HedgeBand
    PROVE  /\ HedgeOrder(e) \in HedgeOrders /\ HedgeOrder(e).order_id = next_id
           /\ HedgeOrder(e).quantity > HedgeBand
           /\ Signed(HedgeOrder(e).side, HedgeOrder(e).quantity) = -e
<1>1. next_id \in Nat /\ Abs(e) \in Nat /\ HedgeBand \in Nat
  BY HedgeAssumption DEF WellTyped, Abs
<1>2. HedgeOrder(e) \in HedgeOrders /\ HedgeOrder(e).order_id = next_id /\ HedgeOrder(e).quantity = Abs(e)
  BY <1>1 DEF HedgeOrder, HedgeOrders, TradeSides
<1>3. HedgeOrder(e).side = IF e > 0 THEN "Sell" ELSE "Buy"
  BY DEF HedgeOrder
<1>4. Signed(HedgeOrder(e).side, Abs(e)) = -e
  BY <1>3 DEF Signed, Abs
<1> QED BY <1>2, <1>4

(* A hedge: its order is under a fresh id, which nothing on its way has.   *)
LEMMA RehedgeKeeps ==
    ASSUME HedgeInv, NEW t \in Int, Rehedge(t)
    PROVE  HedgeInv'
<1>1. WellTyped /\ PositionLagsFills /\ Tracked
  BY DEF HedgeInv
<1>2. PICK e, o : e = position - t /\ o = HedgeOrder(e)
  OBVIOUS
<1>3. /\ pc = "tick" /\ ticks_done < MaxTicks /\ Abs(e) > HedgeBand
      /\ target' = t /\ actions' = <<o>> /\ my_order_ids' = my_order_ids \cup {next_id}
      /\ next_id' = next_id + 1 /\ ticks_done' = ticks_done + 1 /\ pc' = "send"
      /\ UNCHANGED <<position, log, to_server, to_client, events, quoter_ids, quoter_next, executed>>
  BY <1>2 DEF Rehedge, HedgeError, wireVars, marketVars
<1>4. e \in Int
  BY <1>1, <1>2 DEF WellTyped
<1>5. o \in HedgeOrders /\ o.order_id = next_id /\ o.quantity > HedgeBand
  BY <1>1, <1>2, <1>3, <1>4, HedgeOrderFacts
<1>6. my_order_ids \subseteq my_order_ids' /\ next_id \notin my_order_ids /\ next_id \in my_order_ids'
  BY <1>1, <1>3 DEF WellTyped
<1>7. OverBand' = {x \in OwnOrders' : x.quantity > HedgeBand} /\ OwnOrders \subseteq OwnOrders'
      /\ OwnEvents \subseteq OwnEvents' /\ o \in OwnOrders'
  BY <1>5, <1>6 DEF OverBand, OwnOrders, OwnEvents
<1>8. WellTyped'
  <2>1. actions' \in Seq(OverBand')
    BY <1>3, <1>5, <1>7
  <2>2. to_server \in Seq(OwnOrders') /\ to_client \in Seq(OwnEvents') /\ events \in Seq(OwnEvents')
    BY <1>1, <1>7, SeqMonotonic DEF WellTyped
  <2>3. next_id' \in Nat \ {0} /\ my_order_ids' = 1..(next_id' - 1) /\ ticks_done' \in 0..MaxTicks
    BY <1>1, <1>3, HedgeAssumption DEF WellTyped
  <2> QED BY <1>1, <1>3, <2>1, <2>2, <2>3 DEF WellTyped
<1>9. Answers' = Answers /\ Story' = Story
  BY <1>3 DEF Answers, Story, EventRows, EventRow, incoming_side
<1>10. PositionLagsFills'
  <2>1. Answers \in Seq(OwnEvents)
    BY <1>1, QueuesTyped
  <2>2. \A i \in 1..Len(Answers) : Answers[i].tag = "Fill" => Answers[i].incoming_order_id \in my_order_ids
    BY <2>1, ElementOfSeq DEF OwnEvents
  <2>3. PICK more : more = my_order_ids'
    OBVIOUS
  <2>4. FilledQuantity(Answers, more) = FilledQuantity(Answers, my_order_ids)
    BY <2>2, <2>3, <1>6, FilledSameIds
  <2>5. executed' = position' + FilledQuantity(Answers, more)
    BY <2>4, <1>1, <1>3 DEF PositionLagsFills, Answers
  <2> QED BY <2>3, <2>5, <1>9 DEF PositionLagsFills, Answers
<1>11. PICK n, out : n = Len(to_server) /\ out = to_server \o <<o>>
  OBVIOUS
<1>12. to_server \in Seq(HedgeOrders) /\ to_server \in Seq(OwnOrders)
  BY <1>1, QueuesTyped DEF WellTyped
<1>13. Outstanding = to_server /\ Outstanding' = out
  <2>1. actions = <<>>
    BY <1>1, <1>3 DEF Tracked
  <2>2. to_server \o <<>> = to_server
    BY <1>12, ConcatEmptySeq
  <2> QED BY <2>1, <2>2, <1>3, <1>11 DEF Outstanding
<1>14. /\ n \in Nat /\ Len(out) = n + 1 /\ out[n + 1] = o
       /\ \A k \in 1..n : out[k] = to_server[k] /\ to_server[k].order_id # next_id
  <2>1. out = Append(to_server, o)
    BY <1>5, <1>11, <1>12, AppendIsConcat
  <2>2. \A k \in 1..n : to_server[k] \in OwnOrders
    BY <1>11, <1>12, ElementOfSeq
  <2>3. \A k \in 1..n : to_server[k].order_id # next_id
    BY <2>2, <1>6 DEF OwnOrders
  <2>4. n \in Nat /\ Len(out) = n + 1 /\ out[n + 1] = o /\ \A k \in 1..n : out[k] = to_server[k]
    BY <2>1, <1>5, <1>11, <1>12, AppendProperties
  <2> QED BY <2>3, <2>4
<1>15. \A k \in 1..Len(out) : k \in 1..n \/ (k = n + 1 /\ out[k].order_id = next_id)
  BY <1>5, <1>14
<1>16. Tracked'
  <2>1. \A i \in 1..Len(Story) : Story[i].event = "ack" =>
           Story[i].order_id \in my_order_ids' /\ Story[i].order_id # next_id
    BY <1>1, <1>6 DEF Tracked
  <2>2. ASSUME NEW k \in 1..Len(out) PROVE AckedIn(Story, out[k].order_id) = {}
    <3>1. CASE k \in 1..n
      BY <3>1, <1>1, <1>11, <1>13, <1>14 DEF Tracked
    <3>2. CASE out[k].order_id = next_id
      BY <3>2, <2>1 DEF AckedIn
    <3> QED BY <3>1, <3>2, <1>15
  <2>3. ASSUME NEW k \in 1..Len(out), NEW m \in 1..Len(out), out[k].order_id = out[m].order_id
        PROVE  k = m
    <3>1. CASE k \in 1..n /\ m \in 1..n
      BY <3>1, <2>3, <1>1, <1>11, <1>13, <1>14 DEF Tracked
    <3>2. CASE k \notin 1..n \/ m \notin 1..n
      BY <3>2, <2>3, <1>14, <1>15
    <3> QED BY <3>1, <3>2
  <2>4. \A k \in 1..Len(to_server) : SentIn(log, to_server[k].order_id) # {}
    BY <1>1 DEF Tracked
  <2>5. Causal(Story)
    BY <1>1 DEF Tracked
  <2> QED BY <2>1, <2>2, <2>3, <2>4, <2>5, <1>3, <1>9, <1>13 DEF Tracked
<1> QED BY <1>8, <1>10, <1>16 DEF HedgeInv

(* The server rejects the order at the head of the socket...               *)
LEMMA RejectKeeps ==
    ASSUME HedgeInv, ServeReject
    PROVE  HedgeInv'
<1>1. WellTyped
  BY DEF HedgeInv
<1>2. PICK o, news : o = Head(to_server) /\ news = << AckEvent(o.order_id, 1) >>
  OBVIOUS
<1>3. Answered(news) /\ executed' = executed
  BY <1>1, <1>2, RejectStep
<1>4. Len(news) = 1 /\ news[1] = AckEvent(o.order_id, 1)
  BY <1>2
<1>5. FilledQuantity(news, my_order_ids) = 0
  <2>1. o.order_id \in Nat /\ 1 \in {0, 1}
    BY <1>2, <1>3 DEF Answered, OwnOrders, HedgeOrders
  <2> QED BY <2>1, <1>2, FilledNothing
<1>6. executed' = executed + FilledQuantity(news, my_order_ids)
  BY <1>1, <1>3, <1>5 DEF WellTyped
<1>7. /\ 1 \in {0, 1} /\ Len(news) \in Nat \ {0}
      /\ \A k \in 2..Len(news) : /\ news[k].tag = "Fill" /\ 1 = 0
                                 /\ news[k].incoming_order_id = Head(to_server).order_id
  BY <1>4
<1> QED BY <1>2, <1>3, <1>4, <1>6, <1>7, AnswerKeeps

(* ... or executes it, in some fills and perhaps not in full.              *)
LEMMA ExecuteKeeps ==
    ASSUME HedgeInv, NEW f, NEW price \in [1..Len(f) -> FillPrices], ServeExecute(f, price)
    PROVE  HedgeInv'
<1>1. WellTyped
  BY DEF HedgeInv
<1>2. PICK o, news : o = Head(to_server) /\ news = Execution(o, f, price)
  OBVIOUS
<1>3. /\ o \in OwnOrders /\ f \in Fillings(o.quantity) /\ Answered(news)
      /\ executed' = executed + Signed(o.side, Total(f))
  BY <1>1, <1>2, ExecuteStep
<1>4. o \in HedgeOrders /\ o.order_id \in my_order_ids
  BY <1>3 DEF OwnOrders
<1>5. /\ Len(news) \in Nat \ {0} /\ news[1] = AckEvent(o.order_id, 0)
      /\ \A k \in 2..Len(news) : news[k].tag = "Fill" /\ news[k].incoming_order_id = o.order_id
      /\ FilledQuantity(news, my_order_ids) = Signed(o.side, Total(f))
  BY <1>2, <1>3, <1>4, ExecutionFacts
<1>6. executed' = executed + FilledQuantity(news, my_order_ids)
  BY <1>3, <1>5
<1>7. /\ 0 \in {0, 1} /\ Len(news) \in Nat \ {0} /\ news[1] = AckEvent(Head(to_server).order_id, 0)
      /\ \A k \in 2..Len(news) : /\ news[k].tag = "Fill" /\ 0 = 0
                                 /\ news[k].incoming_order_id = Head(to_server).order_id
  BY <1>2, <1>5
<1> QED BY <1>3, <1>6, <1>7, AnswerKeeps

(* Every step.                                                             *)
LEMMA NextKeeps ==
    ASSUME HedgeInv, [HedgeNext]_vars
    PROVE  HedgeInv'
<1>1. /\ WellTyped /\ target \in Int /\ ticks_done \in 0..MaxTicks /\ quoter_next \in Nat \ {0}
      /\ quoter_ids \subseteq 1..MaxQuoterIds
      /\ pc \in {"connect", "tick", "send", "poll", "final", "closed"}
      /\ pc \notin {"send", "closed"} => actions = <<>>
  BY DEF HedgeInv, WellTyped, Tracked
<1>2. ASSUME NEW to \in {"connect", "tick", "send", "poll", "final", "closed"}, MainGoes(to),
             to \notin {"send", "closed"} => actions = <<>>
      PROVE  HedgeInv'
  <2>1. /\ UNCHANGED <<position, next_id, my_order_ids, actions, log, to_server, to_client, events,
                       executed>>
        /\ target' = target /\ ticks_done' = ticks_done /\ pc' = to
        /\ quoter_ids' = quoter_ids /\ quoter_next' = quoter_next
    BY <1>2 DEF MainGoes, hedgerVars, wireVars, marketVars
  <2> QED BY <2>1, <1>1, <1>2, QuietKeeps
<1>3. CASE Connect
  BY <1>1, <1>2, <1>3 DEF Connect
<1>4. CASE LoopEnds
  BY <1>1, <1>2, <1>4 DEF LoopEnds
<1>5. CASE SendDone
  BY <1>1, <1>2, <1>5 DEF SendDone
<1>6. CASE PollTimesOut
  BY <1>1, <1>2, <1>6 DEF PollTimesOut
<1>7. CASE MainRaises
  BY <1>1, <1>2, <1>7 DEF MainRaises, ConnectRaises, PricingRaises, SendRaises
<1>8. CASE \E t \in Targets : WithinBand(t) \/ Rehedge(t)
  <2>1. PICK t \in Targets : WithinBand(t) \/ Rehedge(t)
    BY <1>8
  <2>2. t \in Int
    BY TargetsTyped
  <2>3. CASE WithinBand(t)
    <3>1. /\ UNCHANGED <<position, next_id, my_order_ids, actions, log, to_server, to_client, events,
                         executed>>
          /\ target' = t /\ ticks_done' = ticks_done + 1 /\ pc' = "send" /\ ticks_done < MaxTicks
          /\ quoter_ids' = quoter_ids /\ quoter_next' = quoter_next
      BY <2>3 DEF WithinBand, wireVars, marketVars
    <3>2. ticks_done' \in 0..MaxTicks
      BY <3>1, <1>1, HedgeAssumption
    <3> QED BY <3>1, <3>2, <2>2, <1>1, QuietKeeps
  <2> QED BY <2>1, <2>2, <2>3, RehedgeKeeps
<1>9. CASE Send
  BY <1>9, SendKeeps
<1>10. CASE PollEvents
  BY <1>10, DrainKeeps
<1>11. CASE Read
  BY <1>11, ReadKeeps
<1>12. CASE ServerStep
  BY <1>12, RejectKeeps, ExecuteKeeps DEF ServerStep
<1>13. CASE QuoterStep
  <2>1. /\ UNCHANGED <<position, next_id, my_order_ids, actions, log, to_server, to_client, events,
                       executed>>
        /\ target' = target /\ ticks_done' = ticks_done /\ pc' = pc
    BY <1>13 DEF QuoterStep, QuoterQuotes, QuoteLeaves, hedgerVars, mainVars, wireVars
  <2>2. quoter_ids' \subseteq 1..MaxQuoterIds /\ quoter_next' \in Nat \ {0}
    <3>1. CASE QuoterQuotes
      <4>1. /\ quoter_next <= MaxQuoterIds /\ quoter_ids' = quoter_ids \cup {quoter_next}
            /\ quoter_next' = quoter_next + 1
        BY <3>1 DEF QuoterQuotes
      <4>2. quoter_next \in 1..MaxQuoterIds /\ quoter_next' \in Nat \ {0}
        BY <4>1, <1>1, HedgeAssumption
      <4> QED BY <4>1, <4>2, <1>1
    <3>2. CASE \E id \in quoter_ids : QuoteLeaves(id)
      BY <3>2, <1>1 DEF QuoteLeaves
    <3> QED BY <3>1, <3>2, <1>13 DEF QuoterStep
  <2> QED BY <2>1, <2>2, <1>1, QuietKeeps
<1>14. CASE UNCHANGED vars
  <2>1. /\ UNCHANGED <<position, next_id, my_order_ids, actions, log, to_server, to_client, events,
                       executed>>
        /\ target' = target /\ ticks_done' = ticks_done /\ pc' = pc
        /\ quoter_ids' = quoter_ids /\ quoter_next' = quoter_next
    BY <1>14 DEF vars, hedgerVars, mainVars, wireVars, marketVars
  <2> QED BY <2>1, <1>1, QuietKeeps
<1> QED BY <1>3, <1>4, <1>5, <1>6, <1>7, <1>8, <1>9, <1>10, <1>11, <1>12, <1>13, <1>14
        DEF HedgeNext, PriceArrives, MainStep

(* The invariant holds before the first tick.                              *)
LEMMA InitKeeps == HedgeInit => HedgeInv
<1> SUFFICES ASSUME HedgeInit PROVE HedgeInv
  OBVIOUS
<1>1. Answers = <<>> /\ Outstanding = <<>> /\ events \o to_client = <<>>
  BY DEF HedgeInit, Answers, Outstanding
<1>2. EventRows(<<>>) = <<>>
  BY DEF EventRows
<1>3. Story = <<>>
  BY <1>1, <1>2 DEF Story, HedgeInit
<1>4. WellTyped
  BY HedgeAssumption DEF HedgeInit, WellTyped
<1>5. PositionLagsFills
  <2>1. [i \in 1..Len(<<>>) |-> EventQuantity(<<>>[i], my_order_ids)] = <<>>
    BY EmptySeq
  <2>2. FilledQuantity(<<>>, my_order_ids) = 0
    BY <2>1, TotalTyped DEF FilledQuantity
  <2> QED BY <2>2, <1>1 DEF HedgeInit, PositionLagsFills
<1>6. Tracked
  BY <1>1, <1>3 DEF HedgeInit, Tracked, Causal
<1> QED BY <1>4, <1>5, <1>6 DEF HedgeInv

-----------------------------------------------------------------------------
(* The invariant of the session: the types, the position up to the fills   *)
(* that are on their way, and the causality of the log that is to be.      *)
THEOREM HedgeInvariant == HedgeSpec => []HedgeInv
<1>1. HedgeInit => HedgeInv
  BY InitKeeps
<1>2. HedgeInv /\ [HedgeNext]_vars => HedgeInv'
  BY NextKeeps
<1> QED BY <1>1, <1>2, PTL DEF HedgeSpec

(* Type correctness of the session's state: among the rest, on_price hands *)
(* out the ids 1, 2, ... and only ever orders more than the band.          *)
THEOREM HedgeTypeCorrect == HedgeSpec => []HedgeTypeOK
<1>1. HedgeInv => HedgeTypeOK
  <2> SUFFICES ASSUME WellTyped PROVE HedgeTypeOK
    BY DEF HedgeInv
  <2>1. ASSUME NEW i \in 1..Len(actions)
        PROVE  actions[i].side \in TradeSides /\ actions[i].quantity > HedgeBand
    <3>1. actions[i] \in OverBand
      BY ElementOfSeq DEF WellTyped
    <3> QED BY <3>1 DEF OverBand, OwnOrders, HedgeOrders
  <2> QED BY <2>1 DEF WellTyped, HedgeTypeOK
<1> QED BY <1>1, HedgeInvariant, PTL

(* on_fill's position is what the hedger's orders have traded, less the    *)
(* fills between the server and drain: whatever is rejected, filled in     *)
(* part or filled in pieces.                                               *)
THEOREM PositionIsLagged == HedgeSpec => []PositionLagsFills
<1>1. HedgeInv => PositionLagsFills
  BY DEF HedgeInv
<1> QED BY <1>1, HedgeInvariant, PTL

(* The trade log tells each order's story in order.                        *)
THEOREM LogCausal == HedgeSpec => []LogIsCausal
<1>1. HedgeInv => LogIsCausal
  <2> SUFFICES ASSUME WellTyped, Causal(Story) PROVE LogIsCausal
    BY DEF HedgeInv, Tracked
  <2>0. PICK rows : rows = EventRows(Answers)
    OBVIOUS
  <2>1. log \in Seq(LogRows) /\ rows \in Seq(LogRows)
    BY <2>0, QueuesTyped, EventRowsTyped DEF WellTyped
  <2>2. Causal(log)
    <3>1. Causal(log \o rows)
      BY <2>0 DEF Story
    <3> QED BY <2>1, <3>1, CausalPrefix
  <2> QED BY <2>2 DEF Causal, LogIsCausal, SentIn, AckedIn, SentAt, AckedAt
<1> QED BY <1>1, HedgeInvariant, PTL

-----------------------------------------------------------------------------
(* Convergence. *)

(* What the outstanding orders would bring if they were filled completely. *)
OrderWeights == [o \in HedgeOrders |-> Signed(o.side, o.quantity)]

Ordered == Total(Weigh(OrderWeights, Outstanding))

(* What is executed and ordered together is within the band of the target *)
(* but for the surplus: serving an order moves it from ordered to executed *)
(* or takes it out of the surplus.                                         *)
OnTarget == surplus \in Int /\ Abs(executed + Ordered - (target + surplus)) <= HedgeBand

(* The weight of an order.                                                 *)
LEMMA OrdersWeigh ==
    /\ OrderWeights \in [HedgeOrders -> Int]
    /\ \A o \in HedgeOrders : OrderWeights[o] = Signed(o.side, o.quantity)
<1>1. ASSUME NEW o \in HedgeOrders PROVE Signed(o.side, o.quantity) \in Int
  <2>1. o.side \in TradeSides /\ o.quantity \in Int
    BY DEF HedgeOrders
  <2> QED BY <2>1, SignedFacts
<1> QED BY <1>1 DEF OrderWeights

(* The outstanding orders are orders, and none of them is nothing.         *)
LEMMA OrderedTyped ==
    ASSUME HedgeInv
    PROVE  /\ Outstanding \in Seq(HedgeOrders) /\ Ordered \in Int
           /\ Outstanding = <<>> => Ordered = 0
<1>1. Outstanding \in Seq(HedgeOrders)
  BY QueuesTyped, ConcatProperties DEF HedgeInv, Outstanding
<1>2. Ordered \in Int
  BY <1>1, OrdersWeigh, WeighTyped, TotalTyped DEF Ordered
<1>3. ASSUME Outstanding = <<>> PROVE Ordered = 0
  <2>1. Weigh(OrderWeights, <<>>) = <<>>
    BY EmptySeq DEF Weigh
  <2> QED BY <2>1, <1>3, TotalTyped DEF Ordered
<1> QED BY <1>1, <1>2, <1>3

(* With nothing on its way, the position is up to date.                    *)
LEMMA NothingOnItsWay ==
    ASSUME HedgeInv, to_client = <<>>, events = <<>>
    PROVE  executed = position
<1>1. events \o to_client = <<>>
  OBVIOUS
<1>2. FilledQuantity(<<>>, my_order_ids) = 0
  <2>1. [i \in 1..Len(<<>>) |-> EventQuantity(<<>>[i], my_order_ids)] = <<>>
    BY EmptySeq
  <2> QED BY <2>1, TotalTyped DEF FilledQuantity
<1> QED BY <1>1, <1>2 DEF HedgeInv, WellTyped, PositionLagsFills

(* Between ticks nothing is unsent, and what is on its way is what is      *)
(* ordered and what is executed but not in the position.                   *)
LEMMA WhatIsOnItsWay ==
    ASSUME HedgeInv, pc = "tick"
    PROVE  /\ actions = <<>> /\ Outstanding = to_server
           /\ OnItsWay = Ordered + executed - position
<1>1. WellTyped /\ PositionLagsFills /\ actions = <<>>
  BY DEF HedgeInv, Tracked
<1>2. to_server \in Seq(HedgeOrders)
  BY <1>1, QueuesTyped
<1>3. Outstanding = to_server
  BY <1>1, <1>2, ConcatEmptySeq DEF Outstanding
<1>4. [i \in 1..Len(to_server) |-> Signed(to_server[i].side, to_server[i].quantity)]
        = Weigh(OrderWeights, to_server)
  <2>1. ASSUME NEW i \in 1..Len(to_server)
        PROVE  OrderWeights[to_server[i]] = Signed(to_server[i].side, to_server[i].quantity)
    <3>1. to_server[i] \in HedgeOrders
      BY <1>2, ElementOfSeq
    <3> QED BY <3>1, OrdersWeigh
  <2> QED BY <2>1 DEF Weigh
<1>5. PICK q : q = FilledQuantity(events \o to_client, my_order_ids)
  OBVIOUS
<1>6. executed = position + q /\ executed \in Int /\ position \in Int /\ q \in Int
  <2>1. events \o to_client \in Seq(Events)
    BY <1>1, QueuesTyped, ConcatProperties
  <2>2. FilledQuantity(events \o to_client, my_order_ids) \in Int
    BY <2>1, FilledIsWeight
  <2> QED BY <1>1, <1>5, <2>2 DEF PositionLagsFills, WellTyped
<1>7. OnItsWay = Ordered + q
  BY <1>3, <1>4, <1>5 DEF OnItsWay, Ordered
<1> QED BY <1>1, <1>3, <1>6, <1>7, OrderedTyped

(* A tick: what is then ordered makes up for the error, or it is small,    *)
(* and what was on its way comes on top of it.                             *)
LEMMA TickOnTarget ==
    ASSUME HedgeInv, NEW t \in Int, WithinBand(t) \/ Rehedge(t), surplus' = OnItsWay
    PROVE  OnTarget'
<1>1. WellTyped /\ position \in Int /\ executed \in Int /\ HedgeBand \in Nat /\ pc = "tick"
  BY HedgeAssumption DEF HedgeInv, WellTyped, WithinBand, Rehedge
<1>2. /\ actions = <<>> /\ Outstanding = to_server /\ Ordered \in Int
      /\ surplus' = Ordered + executed - position
  BY <1>1, WhatIsOnItsWay, OrderedTyped
<1>3. target' = t /\ executed' = executed /\ to_server' = to_server
  BY DEF WithinBand, Rehedge, wireVars, marketVars
<1>4. PICK e : e = position - t
  OBVIOUS
<1>5. e \in Int
  BY <1>1, <1>4
<1>6. CASE WithinBand(t)
  <2>1. Abs(e) <= HedgeBand /\ actions' = actions
    BY <1>4, <1>6 DEF WithinBand, HedgeError
  <2>2. Outstanding' = Outstanding
    BY <1>3, <2>1 DEF Outstanding
  <2>3. Ordered' = Ordered
    BY <2>2 DEF Ordered, OrderWeights, Weigh
  <2>4. executed' + Ordered' - (target' + surplus') = e /\ surplus' \in Int
    BY <2>3, <1>1, <1>2, <1>3, <1>4
  <2> QED BY <2>1, <2>4 DEF OnTarget
<1>7. CASE Rehedge(t)
  <2>1. PICK o : o = HedgeOrder(e)
    OBVIOUS
  <2>2. Abs(e) > HedgeBand /\ actions' = <<o>>
    BY <1>4, <1>7, <2>1 DEF Rehedge, HedgeError
  <2>3. o \in HedgeOrders /\ Signed(o.side, o.quantity) = -e
    BY <1>1, <1>5, <2>1, <2>2, HedgeOrderFacts
  <2>4. PICK w : w = OrderWeights
    OBVIOUS
  <2>5. w \in [HedgeOrders -> Int] /\ w[o] = -e
    BY <2>3, <2>4, OrdersWeigh
  <2>6. to_server \in Seq(HedgeOrders) /\ <<o>> \in Seq(HedgeOrders)
    BY <1>1, <2>3, QueuesTyped
  <2>7. Total(Weigh(w, to_server \o <<o>>)) = Total(Weigh(w, to_server)) + Total(Weigh(w, <<o>>))
    BY <2>5, <2>6, WeightConcat
  <2>8. Total(Weigh(w, <<o>>)) = -e
    <3>1. Weigh(w, <<o>>) = << w[o] >>
      BY DEF Weigh
    <3>2. -e \in Int
      BY <1>5
    <3> QED BY <3>1, <3>2, <2>5, TotalSingle
  <2>9. Ordered' = Ordered - e
    <3>1. Outstanding' = to_server \o <<o>>
      BY <1>3, <2>2 DEF Outstanding
    <3>2. Ordered = Total(Weigh(w, to_server)) /\ Ordered' = Total(Weigh(w, to_server \o <<o>>))
      BY <3>1, <1>2, <2>4 DEF Ordered, OrderWeights, Weigh
    <3> QED BY <3>2, <2>7, <2>8, <1>2, <1>5
  <2>10. executed' + Ordered' - (target' + surplus') = 0 /\ surplus' \in Int
    BY <2>9, <1>1, <1>2, <1>3, <1>4, <1>5
  <2> QED BY <2>10, <1>1 DEF OnTarget, Abs
<1> QED BY <1>6, <1>7

(* The order at the head of the socket is served, for some of its          *)
(* quantity: that goes from ordered to executed, the rest out of the       *)
(* surplus.                                                                *)
LEMMA ServedOnTarget ==
    ASSUME HedgeInv, OnTarget, to_server # <<>>, to_server' = Tail(to_server),
           actions' = actions, target' = target,
           NEW filled \in Int, executed' = executed + Signed(Head(to_server).side, filled),
           Missed(Head(to_server).quantity - filled)
    PROVE  OnTarget'
<1>0. WellTyped /\ executed \in Int /\ target \in Int /\ surplus \in Int
  BY DEF HedgeInv, WellTyped, OnTarget
<1>1. PICK o, rest : o = Head(to_server) /\ rest = Tail(to_server)
  OBVIOUS
<1>2. to_server \in Seq(HedgeOrders) /\ actions \in Seq(HedgeOrders) /\ o \in HedgeOrders
      /\ rest \in Seq(HedgeOrders)
  BY <1>0, <1>1, QueuesTyped, HeadTailProperties
<1>3. PICK w : w = OrderWeights
  OBVIOUS
<1>4. w \in [HedgeOrders -> Int] /\ w[o] = Signed(o.side, o.quantity) /\ w[o] \in Int
  BY <1>2, <1>3, OrdersWeigh
<1>5. Total(Weigh(w, to_server)) = w[o] + Total(Weigh(w, rest))
  BY <1>1, <1>2, <1>4, WeightTail
<1>6. /\ Total(Weigh(w, to_server \o actions)) = Total(Weigh(w, to_server)) + Total(Weigh(w, actions))
      /\ Total(Weigh(w, rest \o actions)) = Total(Weigh(w, rest)) + Total(Weigh(w, actions))
  BY <1>2, <1>4, WeightConcat
<1>7. /\ Total(Weigh(w, to_server)) \in Int /\ Total(Weigh(w, actions)) \in Int
      /\ Total(Weigh(w, rest)) \in Int
  BY <1>2, <1>4, WeighTyped, TotalTyped
<1>8. Ordered = Total(Weigh(w, to_server \o actions)) /\ Ordered' = Total(Weigh(w, rest \o actions))
  BY <1>1, <1>3 DEF Ordered, Outstanding, OrderWeights, Weigh
<1>9. Ordered' = Ordered - w[o] /\ Ordered \in Int
  BY <1>4, <1>5, <1>6, <1>7, <1>8
<1>10. PICK done, missed : done = Signed(o.side, filled) /\ missed = Signed(o.side, o.quantity - filled)
  OBVIOUS
<1>11. done \in Int /\ missed \in Int /\ done + missed = w[o]
  <2>1. o.side \in TradeSides /\ o.quantity \in Int
    BY <1>2 DEF HedgeOrders
  <2> QED BY <2>1, <1>4, <1>10 DEF Signed
<1>12. executed' = executed + done /\ surplus' = surplus - missed
  BY <1>1, <1>10 DEF Missed
<1>13. /\ executed' + Ordered' - (target' + surplus') = executed + Ordered - (target + surplus)
       /\ surplus' \in Int
  <2>1. PICK x, y, z, u, v : x = executed /\ y = Ordered /\ z = target /\ u = surplus /\ v = w[o]
    OBVIOUS
  <2>2. /\ x \in Int /\ y \in Int /\ z \in Int /\ u \in Int /\ v \in Int /\ done + missed = v
        /\ executed' = x + done /\ Ordered' = y - v /\ target' = z /\ surplus' = u - missed
    BY <2>1, <1>0, <1>4, <1>9, <1>11, <1>12
  <2>3. (x + done) + (y - v) - (z + (u - missed)) = x + y - (z + u) /\ u - missed \in Int
    BY <2>2, <1>11
  <2> QED BY <2>1, <2>2, <2>3
<1> QED BY <1>13 DEF OnTarget

(* The other steps leave both as they are.                                 *)
LEMMA OtherOnTarget ==
    ASSUME HedgeInv, OnTarget, surplus' = surplus,
           \/ Connect \/ LoopEnds \/ Send \/ SendDone \/ PollEvents \/ PollTimesOut \/ MainRaises
           \/ Read \/ QuoterStep \/ UNCHANGED vars
    PROVE  OnTarget'
<1>1. Outstanding' = Outstanding /\ executed' = executed /\ target' = target
  <2>1. CASE Send
    BY <2>1, SendKeeps DEF Send, hedgerVars, marketVars
  <2>2. CASE PollEvents
    BY <2>2 DEF PollEvents, marketVars, Outstanding
  <2>3. CASE Read
    BY <2>3 DEF Read, hedgerVars, mainVars, marketVars, Outstanding
  <2>4. CASE QuoterStep
    BY <2>4 DEF QuoterStep, QuoterQuotes, QuoteLeaves, hedgerVars, mainVars, wireVars, Outstanding
  <2>5. CASE UNCHANGED vars
    BY <2>5 DEF vars, hedgerVars, mainVars, wireVars, marketVars, Outstanding
  <2>6. ASSUME NEW to, MainGoes(to)
        PROVE  Outstanding' = Outstanding /\ executed' = executed /\ target' = target
    BY <2>6 DEF MainGoes, hedgerVars, wireVars, marketVars, Outstanding
  <2>7. CASE Connect \/ LoopEnds \/ SendDone \/ PollTimesOut \/ MainRaises
    BY <2>6, <2>7 DEF Connect, LoopEnds, SendDone, PollTimesOut, MainRaises, ConnectRaises,
                      PricingRaises, SendRaises
  <2> QED BY <2>1, <2>2, <2>3, <2>4, <2>5, <2>7
<1> QED BY <1>1 DEF OnTarget, Ordered, OrderWeights, Weigh

(* The session with its note of the surplus is the session.                *)
LEMMA NoteIsHistory == [MCNext]_mcVars => [HedgeNext]_vars
BY DEF mcVars, MCNext, MCMainStep, MCTick, MCServerStep, HedgeNext, PriceArrives, MainStep, ServerStep

(* When all is drained the hedger's position is within the band of its     *)
(* target but for what on_price did not know to be on its way and what was *)
(* not executed since, however fills are split and whatever the options,   *)
(* the band and the timing of the two threads.                             *)
THEOREM HedgingConverges == MCSpec => []HedgeConverges
<1> DEFINE Inv == HedgeInv /\ OnTarget
<1>1. MCInit => Inv
  <2> SUFFICES ASSUME MCInit PROVE HedgeInv /\ OnTarget
    OBVIOUS
  <2>1. HedgeInv
    BY InitKeeps DEF MCInit
  <2>2. Outstanding = <<>> /\ executed = 0 /\ target = 0
    BY DEF MCInit, HedgeInit, Outstanding
  <2>3. Ordered = 0
    BY <2>1, <2>2, OrderedTyped
  <2> QED BY <2>1, <2>2, <2>3, HedgeAssumption DEF OnTarget, Abs, MCInit
<1>2. Inv /\ [MCNext]_mcVars => Inv'
  <2> SUFFICES ASSUME HedgeInv, OnTarget, [MCNext]_mcVars PROVE HedgeInv' /\ OnTarget'
    OBVIOUS
  <2>1. HedgeInv'
    BY NextKeeps, NoteIsHistory
  <2>2. CASE MCTick
    <3>1. PICK t \in Targets : WithinBand(t) \/ Rehedge(t)
      BY <2>2 DEF MCTick, PriceArrives
    <3>2. t \in Int /\ surplus' = OnItsWay
      BY <2>2, TargetsTyped DEF MCTick
    <3> QED BY <2>1, <3>1, <3>2, TickOnTarget
  <2>3. CASE MCServerStep
    <3>0. ASSUME to_server # <<>> PROVE Head(to_server) \in HedgeOrders
      BY <3>0, QueuesTyped, HeadTailProperties DEF HedgeInv
    <3>1. CASE ServeReject /\ Missed(Head(to_server).quantity)
      <4>1. /\ to_server # <<>> /\ to_server' = Tail(to_server) /\ actions' = actions
            /\ target' = target /\ executed' = executed
        BY <3>1 DEF ServeReject, hedgerVars, mainVars, marketVars
      <4>2. /\ Head(to_server).side \in TradeSides /\ Head(to_server).quantity \in Int
            /\ executed \in Int
        BY <3>0, <4>1 DEF HedgeOrders, HedgeInv, WellTyped
      <4>3. /\ Head(to_server).quantity - 0 = Head(to_server).quantity
            /\ executed' = executed + Signed(Head(to_server).side, 0)
        BY <4>1, <4>2 DEF Signed
      <4>4. Missed(Head(to_server).quantity - 0)
        BY <3>1, <4>3
      <4>5. 0 \in Int
        OBVIOUS
      <4> QED BY <2>1, <4>1, <4>3, <4>4, <4>5, ServedOnTarget
    <3>2. ASSUME NEW f \in Executions, NEW price \in [1..Len(f) -> FillPrices],
                 ServeExecute(f, price), Missed(Head(to_server).quantity - Total(f))
          PROVE  HedgeInv' /\ OnTarget'
      <4>1. /\ to_server # <<>> /\ to_server' = Tail(to_server) /\ actions' = actions
            /\ target' = target /\ executed' = executed + Signed(Head(to_server).side, Total(f))
            /\ f \in Fillings(Head(to_server).quantity)
        BY <3>2 DEF ServeExecute, hedgerVars, mainVars
      <4>2. Total(f) \in Int
        BY <3>0, <4>1, FillingsTyped
      <4> QED BY <2>1, <3>2, <4>1, <4>2, ServedOnTarget
    <3> QED BY <2>3, <3>1, <3>2 DEF MCServerStep
  <2>4. CASE /\ surplus' = surplus
             /\ \/ Connect \/ LoopEnds \/ Send \/ SendDone \/ PollEvents \/ PollTimesOut \/ MainRaises
                \/ Read \/ QuoterStep \/ UNCHANGED vars
    BY <2>1, <2>4, OtherOnTarget
  <2> QED BY <2>2, <2>3, <2>4 DEF MCNext, MCMainStep, mcVars
<1>3. Inv => HedgeConverges
  <2> SUFFICES ASSUME HedgeInv, OnTarget, to_server = <<>>, to_client = <<>>, events = <<>>,
                      actions = <<>>
               PROVE  Abs(position - (target + surplus)) <= HedgeBand
    BY DEF HedgeConverges
  <2>1. Outstanding = <<>>
    BY DEF Outstanding
  <2>2. /\ Ordered = 0 /\ executed = position /\ position \in Int /\ target \in Int
        /\ surplus \in Int
    BY <2>1, OrderedTyped, NothingOnItsWay DEF HedgeInv, WellTyped, OnTarget
  <2>3. executed + Ordered - (target + surplus) = position - (target + surplus)
    BY <2>2
  <2> QED BY <2>3 DEF OnTarget
<1> QED BY <1>1, <1>2, <1>3, PTL DEF MCSpec

-----------------------------------------------------------------------------
(* The report: the replay of the fills of a log. *)

ReplayStates == [net_position : Int, realized_pnl_ticks : Int, avg : Rational]

(* The two accounts of a fill agree in the position and in the average     *)
(* price.                                                                  *)
SameAccount(r, t) ==
    r.net_position = t.net_position /\ r.avg = t.avg_entry_price_ticks

(* What a fill closes of a position.                                       *)
ClosedBy(r, qty) ==
    IF SameDirection(r, qty) THEN 0 ELSE Lesser(Abs(qty), Abs(r.net_position))

(* Two ways to round the P&L of what a fill closes: the report rounds the  *)
(* P&L, position.rs truncates the average price.                           *)
LEMMA RoundingsApart ==
    ASSUME NEW avg \in Rational, NEW price \in Int, NEW s \in {-1, 1}, NEW c \in Nat \ {0}
    PROVE  LET rounded == Round([num |-> s * c * (price * avg.den - avg.num), den |-> avg.den])
               cut     == s * c * (price - AsI64(avg))
           IN  rounded \in Int /\ cut \in Int /\ 2 * Abs(rounded - cut) < 3 * c
<1>1. PICK n, d, a : n = avg.num /\ d = avg.den /\ a = AsI64(avg)
  OBVIOUS
<1>2. n \in Int /\ d \in Nat \ {0} /\ a \in Int
  BY <1>1, AsI64Typed DEF Rational
<1>3. PICK rest : rest = n - a * d
  OBVIOUS
<1>4. rest \in Int /\ -d < rest /\ rest < d
  BY <1>1, <1>2, <1>3, TruncationError
<1>5. PICK m : m = s * c
  OBVIOUS
<1>6. m \in Int /\ (m = c \/ m = -c)
  BY <1>5
<1>7. PICK x : x = m * (price * d - n)
  OBVIOUS
<1>8. PICK y : y = m * (price - a)
  OBVIOUS
<1>9. x \in Int /\ y \in Int
  BY <1>2, <1>6, <1>7, <1>8
<1>10. PICK r : r = Round([num |-> x, den |-> d])
  OBVIOUS
<1>11. r \in Int /\ 2 * Abs(x - r * d) <= d
  BY <1>2, <1>9, <1>10, RoundIsNearest
<1>12. x = y * d - m * rest
  <2>1. price * d - n = (price - a) * d - rest
    BY <1>2, <1>3, <1>4
  <2>2. PICK u, v : u = price - a /\ v = u * d
    OBVIOUS
  <2>3. u \in Int /\ v \in Int
    BY <2>2, <1>2
  <2>4. x = m * (v - rest)
    BY <2>1, <2>2, <1>7
  <2>5. m * (v - rest) = m * v - m * rest
    BY <2>3, <1>4, <1>6
  <2>6. m * v = (m * u) * d
    BY <2>2, <2>3, <1>2, <1>6
  <2> QED BY <2>2, <2>4, <2>5, <2>6, <1>8
<1>13. PICK k, h : k = m * rest /\ h = c * d
  OBVIOUS
<1>14. k \in Int /\ h \in Int /\ -h < k /\ k < h
  <2>1. rest * c < d * c /\ (-d) * c < rest * c
    BY <1>2, <1>4, Unscaled
  <2>2. PICK w : w = rest * c
    OBVIOUS
  <2>3. w \in Int /\ w < h /\ -h < w
    BY <2>1, <2>2, <1>2, <1>4, <1>13
  <2>4. k = w \/ k = -w
    BY <2>2, <1>4, <1>6, <1>13
  <2> QED BY <2>3, <2>4, <1>2, <1>13
<1>15. PICK z : z = r - y
  OBVIOUS
<1>16. z \in Int /\ x - r * d = -(z * d) - k
  <2>1. r * d = (z + y) * d /\ z \in Int
    BY <1>9, <1>11, <1>15
  <2>2. (z + y) * d = z * d + y * d
    BY <2>1, <1>2, <1>9
  <2> QED BY <2>1, <2>2, <1>2, <1>9, <1>12, <1>13, <1>14
<1>17. PICK zd : zd = z * d
  OBVIOUS
<1>18. zd \in Int /\ 2 * Abs(-zd - k) <= d
  BY <1>2, <1>11, <1>16, <1>17
<1>19. 2 * zd < d + 2 * h /\ -(d + 2 * h) < 2 * zd
  BY <1>2, <1>14, <1>18 DEF Abs
<1>20. d + 2 * h = (1 + 2 * c) * d
  BY <1>2, <1>13
<1>21. 2 * zd = (2 * z) * d /\ -((1 + 2 * c) * d) = (-(1 + 2 * c)) * d
  BY <1>2, <1>16, <1>17
<1>22. 2 * z < 1 + 2 * c /\ -(1 + 2 * c) < 2 * z
  <2>1. (2 * z) * d < (1 + 2 * c) * d /\ (-(1 + 2 * c)) * d < (2 * z) * d
    BY <1>19, <1>20, <1>21
  <2>2. PICK p, q, o : p = 2 * z /\ q = 1 + 2 * c /\ o = -(1 + 2 * c)
    OBVIOUS
  <2>3. p \in Int /\ q \in Int /\ o \in Int
    BY <2>2, <1>16
  <2>4. p < q /\ o < p
    BY <2>1, <2>2, <2>3, <1>2, Unscaled
  <2> QED BY <2>2, <2>4
<1>23. 2 * Abs(z) < 3 * c
  BY <1>16, <1>22 DEF Abs
<1> QED BY <1>1, <1>5, <1>7, <1>8, <1>9, <1>10, <1>11, <1>15, <1>23

(* What a fill row says.                                                   *)
LEMMA FillRowFacts ==
    ASSUME NEW row \in FilledRows
    PROVE  /\ row.event = "fill" /\ row.incoming_side \in TradeSides /\ row.qty \in Nat \ {0}
           /\ row.price_ticks \in Int
           /\ Signed(row.incoming_side, row.qty) \in Int /\ Signed(row.incoming_side, row.qty) # 0
<1>1. /\ row.event = "fill" /\ row.incoming_side \in TradeSides /\ row.qty \in Nat \ {0}
      /\ row.price_ticks \in Int
  BY DEF FilledRows
<1>2. row.qty \in Int /\ row.qty # 0
  BY <1>1
<1> QED BY <1>1, <1>2, SignedFacts

(* A replayed fill keeps the types and adds its quantity to the position.  *)
LEMMA ReplayTyped ==
    ASSUME NEW r \in ReplayStates, NEW row \in FilledRows
    PROVE  /\ ReplayFill(r, row) \in ReplayStates
           /\ ReplayFill(r, row).net_position
                 = r.net_position + Signed(row.incoming_side, row.qty)
           /\ ClosedBy(r, Signed(row.incoming_side, row.qty)) \in Nat
<1>1. PICK q, p : q = Signed(row.incoming_side, row.qty) /\ p = row.price_ticks
  OBVIOUS
<1>2. q \in Int /\ q # 0 /\ p \in Int /\ Abs(q) \in Nat \ {0}
  BY <1>1, FillRowFacts, AbsFacts
<1>3. /\ r.net_position \in Int /\ r.realized_pnl_ticks \in Int /\ r.avg \in Rational
      /\ Abs(r.net_position) \in Nat /\ Signum(r.net_position) \in Int
  BY AbsFacts DEF ReplayStates
<1>4. r.avg.num \in Int /\ r.avg.den \in Nat \ {0}
  BY <1>3 DEF Rational
<1>5. Lesser(Abs(q), Abs(r.net_position)) \in Nat
  BY <1>2, <1>3 DEF Lesser
<1>6. Delta(r, q, p) \in Int
  <2>1. PICK c : c = Lesser(Abs(q), Abs(r.net_position))
    OBVIOUS
  <2>2. p * r.avg.den - r.avg.num \in Int /\ Signum(r.net_position) * c \in Int
    BY <2>1, <1>2, <1>3, <1>4, <1>5
  <2>3. Signum(r.net_position) * c * (p * r.avg.den - r.avg.num) \in Int
    BY <2>2
  <2>4. Round([num |-> Signum(r.net_position) * c * (p * r.avg.den - r.avg.num),
               den |-> r.avg.den]) \in Int
    BY <2>3, <1>4, RoundIsNearest
  <2> QED BY <2>1, <2>4 DEF Delta
<1>7. AverageAfter(r, q, p) \in Rational
  <2>1. CASE SameDirection(r, q)
    <3>1. AverageAfter(r, q, p) = WeightedAverage(r.avg, Abs(r.net_position), p, Abs(q))
      BY <2>1 DEF AverageAfter, WeightedAverage
    <3> QED BY <3>1, <1>2, <1>3, AverageTyped
  <2>2. CASE ~SameDirection(r, q)
    <3>1. 1 \in Nat \ {0}
      OBVIOUS
    <3>2. Fraction(p, 1) \in Rational
      BY <3>1, <1>2, FractionTyped DEF Rational
    <3>3. AverageAfter(r, q, p) = Fraction(p, 1) \/ AverageAfter(r, q, p) = r.avg
      BY <2>2 DEF AverageAfter
    <3> QED BY <3>2, <3>3, <1>3
  <2> QED BY <2>1, <2>2
<1>8. ReplayFill(r, row) = [net_position |-> r.net_position + q,
                            realized_pnl_ticks |-> r.realized_pnl_ticks + Delta(r, q, p),
                            avg |-> AverageAfter(r, q, p)]
  BY <1>1 DEF ReplayFill
<1>9. ClosedBy(r, q) \in Nat
  BY <1>5 DEF ClosedBy
<1> QED BY <1>1, <1>2, <1>3, <1>6, <1>7, <1>8, <1>9 DEF ReplayStates

(* The replay and position.rs on one fill: the same position, the same     *)
(* average, and P&Ls that are less than a tick and a half apart per unit   *)
(* closed.                                                                 *)
LEMMA FillAgrees ==
    ASSUME NEW r \in ReplayStates, NEW t \in Tracker, SameAccount(r, t), NEW row \in FilledRows
    PROVE  LET u == ReplayFill(r, row)
               v == on_fill(t, row.incoming_side, row.qty, row.price_ticks)
               c == ClosedBy(r, Signed(row.incoming_side, row.qty))
               d == (u.realized_pnl_ticks - r.realized_pnl_ticks)
                        - (v.realized_pnl_ticks - t.realized_pnl_ticks)
           IN  SameAccount(u, v) /\ (d = 0 \/ 2 * Abs(d) < 3 * c)
<1>1. PICK q, p : q = Signed(row.incoming_side, row.qty) /\ p = row.price_ticks
  OBVIOUS
<1>2. q \in Int /\ q # 0 /\ p \in Int /\ Abs(q) \in Nat \ {0}
  BY <1>1, FillRowFacts, AbsFacts
<1>3. PICK net, avg : net = r.net_position /\ avg = r.avg
  OBVIOUS
<1>4. /\ net = t.net_position /\ avg = t.avg_entry_price_ticks
      /\ net \in Int /\ avg \in Rational
      /\ r.realized_pnl_ticks \in Int /\ t.realized_pnl_ticks \in Int
  BY <1>3 DEF SameAccount, ReplayStates, Tracker
<1>5. PICK u, v : u = ReplayFill(r, row)
                  /\ v = on_fill(t, row.incoming_side, row.qty, row.price_ticks)
  OBVIOUS
<1>6. /\ u.net_position = net + q /\ u.avg = AverageAfter(r, q, p)
      /\ u.realized_pnl_ticks = r.realized_pnl_ticks + Delta(r, q, p)
  BY <1>1, <1>3, <1>5 DEF ReplayFill
<1>7. CASE SameDirection(r, q)
  <2>1. v = Increase(t, q, p)
    BY <1>1, <1>3, <1>4, <1>5, <1>7 DEF on_fill, SameDirection
  <2>2. /\ v.net_position = net + q /\ v.realized_pnl_ticks = t.realized_pnl_ticks
        /\ v.avg_entry_price_ticks = WeightedAverage(avg, Abs(net), p, Abs(q))
    BY <2>1, <1>4 DEF Increase, Tracker
  <2>3. u.avg = WeightedAverage(avg, Abs(net), p, Abs(q))
    BY <1>3, <1>6, <1>7 DEF AverageAfter, WeightedAverage
  <2>4. Delta(r, q, p) = 0
    BY <1>7 DEF Delta
  <2> QED BY <2>2, <2>3, <2>4, <1>1, <1>4, <1>5, <1>6 DEF SameAccount
<1>8. CASE ~SameDirection(r, q)
  <2>1. net # 0 /\ Signum(net) # Signum(q)
    BY <1>3, <1>8 DEF SameDirection
  <2>2. v = Reduce(t, q, p)
    BY <2>1, <1>1, <1>4, <1>5 DEF on_fill
  <2>3. PICK c, s : c = Lesser(Abs(q), Abs(net)) /\ s = Signum(net)
    OBVIOUS
  <2>4. c \in Nat \ {0} /\ s \in {-1, 1}
    BY <2>1, <2>3, <1>2, <1>4 DEF Lesser, Abs, Signum
  <2>5. /\ v.net_position = net + q
        /\ v.realized_pnl_ticks = t.realized_pnl_ticks + s * c * (p - AsI64(avg))
        /\ v.avg_entry_price_ticks = AverageAfterReduce(t, net + q, p)
    BY <2>2, <2>3, <1>4 DEF Reduce
  <2>6. Delta(r, q, p) = Round([num |-> s * c * (p * avg.den - avg.num), den |-> avg.den])
    BY <2>3, <1>3, <1>8 DEF Delta
  <2>7. u.avg = v.avg_entry_price_ticks
    <3>1. Signum(net + q) = -Signum(net) <=> (net + q # 0 /\ Signum(net + q) # Signum(net))
      BY <2>1, <1>2, <1>4 DEF Signum
    <3>2. CASE Signum(net + q) = -Signum(net)
      <4>1. AverageAfter(r, q, p) = Fraction(p, 1)
        BY <3>2, <1>3, <1>8 DEF AverageAfter
      <4> QED BY <4>1, <3>1, <3>2, <2>5, <1>4, <1>6 DEF AverageAfterReduce
    <3>3. CASE Signum(net + q) # -Signum(net)
      <4>1. AverageAfter(r, q, p) = avg
        BY <3>3, <1>3, <1>8 DEF AverageAfter
      <4> QED BY <4>1, <3>1, <3>3, <2>5, <1>4, <1>6 DEF AverageAfterReduce
    <3> QED BY <3>2, <3>3
  <2>8. PICK a, b : /\ a = Round([num |-> s * c * (p * avg.den - avg.num), den |-> avg.den])
                    /\ b = s * c * (p - AsI64(avg))
    OBVIOUS
  <2>9. a \in Int /\ b \in Int /\ 2 * Abs(a - b) < 3 * c
    BY <2>4, <2>8, <1>2, <1>4, RoundingsApart
  <2>10. (u.realized_pnl_ticks - r.realized_pnl_ticks)
             - (v.realized_pnl_ticks - t.realized_pnl_ticks) = a - b
    BY <2>5, <2>6, <2>8, <2>9, <1>4, <1>6
  <2>11. ClosedBy(r, q) = c
    BY <2>3, <1>3, <1>8 DEF ClosedBy
  <2> QED BY <2>5, <2>7, <2>9, <2>10, <2>11, <1>1, <1>5, <1>6 DEF SameAccount
<1> QED BY <1>7, <1>8

(* The replay after each fill.                                             *)
LEMMA ReplayUnfolds ==
    ASSUME NEW rows, NEW fills \in Seq(FilledRows), fills = FillRows(rows)
    PROVE  \E h \in [0..Len(fills) -> ReplayStates] :
              /\ Replays(rows) = h
              /\ h[0] = NewReplay
              /\ \A i \in 1..Len(fills) : h[i] = ReplayFill(h[i - 1], fills[i])
<1> DEFINE N == Len(fills)
<1> DEFINE Plus(x, i) == ReplayFill(x, fills[i])
<1> DEFINE Eq(f) == f = [i \in 0..N |-> IF i = 0 THEN NewReplay ELSE Plus(f[i - 1], i)]
<1>0. N \in Nat /\ \A i \in 1..N : fills[i] \in FilledRows
  BY ElementOfSeq
<1>1. ASSUME NEW x \in ReplayStates, NEW i \in 1..N PROVE Plus(x, i) \in ReplayStates
  BY <1>0, <1>1, ReplayTyped
<1>2. NewReplay \in ReplayStates
  <2>1. 1 \in Nat \ {0} /\ 0 \in Int
    OBVIOUS
  <2>2. Fraction(0, 1) \in Rational
    BY <2>1, FractionTyped DEF Rational
  <2> QED BY <2>1, <2>2 DEF NewReplay, ReplayStates
<1>3. PICK g : g = [x \in ReplayStates \X (1..N) |-> Plus(x[1], x[2])]
  OBVIOUS
<1>4. g \in [ReplayStates \X (1..N) -> ReplayStates]
  <2>1. ASSUME NEW x \in ReplayStates \X (1..N) PROVE Plus(x[1], x[2]) \in ReplayStates
    <3>1. x[1] \in ReplayStates /\ x[2] \in 1..N
      OBVIOUS
    <3> HIDE DEF Plus
    <3> QED BY <3>1, <1>1
  <2> HIDE DEF Plus
  <2> QED BY <2>1, <1>3
<1>5. PICK h : Iterates(h, ReplayStates, NewReplay, g, N)
  BY <1>0, <1>2, <1>4, IterationExists
<1>6. /\ h \in [0..N -> ReplayStates] /\ h[0] = NewReplay
      /\ \A i \in 1..N : h[i] = g[<<h[i - 1], i>>]
  BY <1>5 DEF Iterates
<1>7. ASSUME NEW i \in 1..N PROVE h[i] = Plus(h[i - 1], i)
  <2>1. i - 1 \in 0..N
    BY <1>0
  <2>2. <<h[i - 1], i>> \in ReplayStates \X (1..N)
    BY <2>1, <1>6
  <2> HIDE DEF Plus
  <2> QED BY <2>2, <1>3, <1>6
<1>8. Eq(h)
  <2>1. \A i \in 0..N : i = 0 \/ i \in 1..N
    BY <1>0
  <2> HIDE DEF Plus
  <2> QED BY <1>6, <1>7, <2>1
<1>9. PICK f : f = CHOOSE e : Eq(e)
  OBVIOUS
<1>10. Eq(f)
  <2> HIDE DEF Eq
  <2> QED BY <1>8, <1>9
<1>11. f[0] = NewReplay /\ \A i \in 1..N : f[i] = Plus(f[i - 1], i)
  <2>1. 0 \in 0..N /\ \A i \in 1..N : i \in 0..N /\ i # 0
    BY <1>0
  <2> HIDE DEF Plus
  <2> QED BY <1>10, <2>1
<1>12. ASSUME NEW i \in 0..N PROVE f[i] \in ReplayStates
  <2> DEFINE G == {j \in 0..N : f[j] \in ReplayStates}
  <2>1. 0 \in G
    BY <1>0, <1>2, <1>11
  <2>2. ASSUME NEW j \in 1..N, j - 1 \in G PROVE j \in G
    <3> HIDE DEF Plus
    <3>1. f[j - 1] \in ReplayStates /\ j \in 0..N
      BY <2>2, <1>0
    <3> QED BY <3>1, <1>1, <1>11
  <2>3. 0..N \subseteq G
    <3> HIDE DEF G, Plus
    <3> QED BY <1>0, <2>1, <2>2, InductionUpTo
  <2> QED BY <2>3
<1>13. f \in [0..N -> ReplayStates]
  <2> HIDE DEF Plus
  <2> QED BY <1>10, <1>12
<1>14. Replays(rows) = f
  BY <1>9, <1>13 DEF Replays
<1> QED BY <1>11, <1>13, <1>14

(* position.rs's account after each fill.                                  *)
LEMMA TrackerUnfolds ==
    ASSUME NEW rows, NEW fills \in Seq(FilledRows), fills = FillRows(rows)
    PROVE  \E h \in [0..Len(fills) -> Tracker] :
              /\ TrackerOf(rows) = h[Len(fills)]
              /\ h[0] = NewTracker
              /\ \A i \in 1..Len(fills) : h[i] = on_fill(h[i - 1], fills[i].incoming_side, fills[i].qty,
                                                        fills[i].price_ticks)
<1> DEFINE N == Len(fills)
<1> DEFINE Plus(x, i) == on_fill(x, fills[i].incoming_side, fills[i].qty, fills[i].price_ticks)
<1> DEFINE Eq(f) == f = [i \in 0..N |-> IF i = 0 THEN NewTracker ELSE Plus(f[i - 1], i)]
<1>0. N \in Nat /\ \A i \in 1..N : fills[i] \in FilledRows
  BY ElementOfSeq
<1>1. ASSUME NEW x \in Tracker, NEW i \in 1..N PROVE Plus(x, i) \in Tracker
  <2>1. fills[i] \in FilledRows
    BY <1>0
  <2> QED BY <2>1, FillRowFacts, OnFill
<1>2. NewTracker \in Tracker
  <2>1. 1 \in Nat \ {0} /\ 0 \in Int
    OBVIOUS
  <2>2. Fraction(0, 1) \in Rational
    BY <2>1, FractionTyped DEF Rational
  <2> QED BY <2>1, <2>2 DEF NewTracker, Tracker
<1>3. PICK g : g = [x \in Tracker \X (1..N) |-> Plus(x[1], x[2])]
  OBVIOUS
<1>4. g \in [Tracker \X (1..N) -> Tracker]
  <2>1. ASSUME NEW x \in Tracker \X (1..N) PROVE Plus(x[1], x[2]) \in Tracker
    <3>1. x[1] \in Tracker /\ x[2] \in 1..N
      OBVIOUS
    <3> HIDE DEF Plus
    <3> QED BY <3>1, <1>1
  <2> HIDE DEF Plus
  <2> QED BY <2>1, <1>3
<1>5. PICK h : Iterates(h, Tracker, NewTracker, g, N)
  BY <1>0, <1>2, <1>4, IterationExists
<1>6. /\ h \in [0..N -> Tracker] /\ h[0] = NewTracker
      /\ \A i \in 1..N : h[i] = g[<<h[i - 1], i>>]
  BY <1>5 DEF Iterates
<1>7. ASSUME NEW i \in 1..N PROVE h[i] = Plus(h[i - 1], i)
  <2>1. i - 1 \in 0..N
    BY <1>0
  <2>2. <<h[i - 1], i>> \in Tracker \X (1..N)
    BY <2>1, <1>6
  <2> HIDE DEF Plus
  <2> QED BY <2>2, <1>3, <1>6
<1>8. Eq(h)
  <2>1. \A i \in 0..N : i = 0 \/ i \in 1..N
    BY <1>0
  <2> HIDE DEF Plus
  <2> QED BY <1>6, <1>7, <2>1
<1>9. PICK f : f = CHOOSE e : Eq(e)
  OBVIOUS
<1>10. Eq(f)
  <2> HIDE DEF Eq
  <2> QED BY <1>8, <1>9
<1>11. f[0] = NewTracker /\ \A i \in 1..N : f[i] = Plus(f[i - 1], i)
  <2>1. 0 \in 0..N /\ \A i \in 1..N : i \in 0..N /\ i # 0
    BY <1>0
  <2> HIDE DEF Plus
  <2> QED BY <1>10, <2>1
<1>12. ASSUME NEW i \in 0..N PROVE f[i] \in Tracker
  <2> DEFINE G == {j \in 0..N : f[j] \in Tracker}
  <2>1. 0 \in G
    BY <1>0, <1>2, <1>11
  <2>2. ASSUME NEW j \in 1..N, j - 1 \in G PROVE j \in G
    <3> HIDE DEF Plus
    <3>1. f[j - 1] \in Tracker /\ j \in 0..N
      BY <2>2, <1>0
    <3> QED BY <3>1, <1>1, <1>11
  <2>3. 0..N \subseteq G
    <3> HIDE DEF G, Plus
    <3> QED BY <1>0, <2>1, <2>2, InductionUpTo
  <2> QED BY <2>3
<1>13. f \in [0..N -> Tracker]
  <2> HIDE DEF Plus
  <2> QED BY <1>10, <1>12
<1>14. TrackerOf(rows) = f[N]
  BY <1>9 DEF TrackerOf
<1> QED BY <1>11, <1>13, <1>14

(* What a row of the log brings the hedger.                                *)
RowQuantity(row) ==
    IF row.event = "fill" THEN Signed(row.incoming_side, row.qty) ELSE 0

RowWeights == [row \in LogRows |-> RowQuantity(row)]

(* The fills of a log carry all that its rows bring.                       *)
LEMMA FillRowsFacts ==
    ASSUME NEW rows \in Seq(LogRows)
    PROVE  /\ RowWeights \in [LogRows -> Int]
           /\ FillRows(rows) \in Seq(FilledRows)
           /\ Total(Weigh(RowWeights, FillRows(rows))) = Total(Weigh(RowWeights, rows))
<1>1. ASSUME NEW row \in LogRows PROVE row.event = "fill" => row \in FilledRows
  BY DEF LogRows, SentRows, AckRows
<1>2. ASSUME NEW row \in LogRows PROVE RowQuantity(row) \in Int
  BY <1>1, FillRowFacts DEF RowQuantity
<1>3. RowWeights \in [LogRows -> Int]
  BY <1>2 DEF RowWeights
<1>4. PICK S : S = {row \in ToSet(rows) : row.event = "fill"}
  OBVIOUS
<1>5. ASSUME NEW i \in 1..Len(rows) PROVE rows[i] \notin S => RowWeights[rows[i]] = 0
  <2>1. rows[i] \in ToSet(rows) /\ rows[i] \in LogRows
    BY ElementOfSeq DEF ToSet
  <2> QED BY <2>1, <1>4 DEF RowWeights, RowQuantity
<1>6. PICK fills : fills = Sift(rows, S)
  OBVIOUS
<1>7. fills \in Seq(LogRows \cap S) /\ Total(Weigh(RowWeights, fills)) = Total(Weigh(RowWeights, rows))
  <2>1. PICK w : w = RowWeights
    OBVIOUS
  <2>2. w \in [LogRows -> Int] /\ \A i \in 1..Len(rows) : rows[i] \notin S => w[rows[i]] = 0
    BY <2>1, <1>3, <1>5
  <2>3. Sift(rows, S) \in Seq(LogRows \cap S) /\ Total(Weigh(w, Sift(rows, S))) = Total(Weigh(w, rows))
    BY <2>2, SiftWeight
  <2> QED BY <2>1, <2>3, <1>6
<1>8. LogRows \cap S \subseteq FilledRows
  BY <1>1, <1>4
<1>9. fills \in Seq(FilledRows)
  BY <1>7, <1>8, SeqMonotonic
<1>10. fills = FillRows(rows)
  BY <1>4, <1>6 DEF FillRows
<1> QED BY <1>3, <1>7, <1>9, <1>10

(* The replay and position.rs on a whole log.                              *)
LEMMA AccountsAgree ==
    ASSUME NEW rows \in Seq(LogRows)
    PROVE  /\ Replay(rows).net_position = Total(Weigh(RowWeights, rows))
           /\ TrackerOf(rows).net_position = Total(Weigh(RowWeights, rows))
           /\ LET apart == Abs(Replay(rows).realized_pnl_ticks
                                   - TrackerOf(rows).realized_pnl_ticks)
              IN  apart = 0 \/ 2 * apart < 3 * ClosedQuantity(rows)
<1>1. PICK fills : fills = FillRows(rows)
  OBVIOUS
<1>2. /\ fills \in Seq(FilledRows) /\ RowWeights \in [LogRows -> Int]
      /\ Total(Weigh(RowWeights, fills)) = Total(Weigh(RowWeights, rows))
  BY <1>1, FillRowsFacts
<1>3. PICK N : N = Len(fills)
  OBVIOUS
<1>4. N \in Nat /\ \A i \in 1..N : fills[i] \in FilledRows /\ fills[i] \in LogRows
  BY <1>2, <1>3, ElementOfSeq DEF LogRows
<1>5. PICK r \in [0..N -> ReplayStates] :
         /\ Replays(rows) = r /\ r[0] = NewReplay
         /\ \A i \in 1..N : r[i] = ReplayFill(r[i - 1], fills[i])
  <2>1. fills \in Seq(FilledRows)
    BY <1>2
  <2> QED BY <2>1, <1>1, <1>3, ReplayUnfolds
<1>6. PICK t \in [0..N -> Tracker] :
         /\ TrackerOf(rows) = t[N] /\ t[0] = NewTracker
         /\ \A i \in 1..N : t[i] = on_fill(t[i - 1], fills[i].incoming_side, fills[i].qty,
                                           fills[i].price_ticks)
  <2>1. fills \in Seq(FilledRows)
    BY <1>2
  <2>2. \E h \in [0..Len(fills) -> Tracker] :
           /\ TrackerOf(rows) = h[Len(fills)] /\ h[0] = NewTracker
           /\ \A i \in 1..Len(fills) : h[i] = on_fill(h[i - 1], fills[i].incoming_side, fills[i].qty,
                                                     fills[i].price_ticks)
    BY <2>1, <1>1, TrackerUnfolds
  <2> QED BY <2>2, <1>3, Zenon
<1>7. PICK c : c = [i \in 1..N |-> ClosedBy(r[i - 1], Signed(fills[i].incoming_side, fills[i].qty))]
  OBVIOUS
<1>8. ASSUME NEW i \in 1..N
      PROVE  /\ r[i - 1] \in ReplayStates /\ t[i - 1] \in Tracker /\ i - 1 \in 0..N /\ i \in 0..N
             /\ r[i].net_position = r[i - 1].net_position + RowWeights[fills[i]]
             /\ RowWeights[fills[i]] = Signed(fills[i].incoming_side, fills[i].qty)
             /\ c[i] \in Nat
  <2>1. i - 1 \in 0..N /\ i \in 0..N /\ fills[i] \in FilledRows /\ fills[i] \in LogRows
    BY <1>4
  <2>2. r[i - 1] \in ReplayStates /\ t[i - 1] \in Tracker
    BY <2>1
  <2>3. RowWeights[fills[i]] = Signed(fills[i].incoming_side, fills[i].qty)
    BY <2>1, FillRowFacts DEF RowWeights, RowQuantity
  <2>4. /\ r[i].net_position = r[i - 1].net_position + Signed(fills[i].incoming_side, fills[i].qty)
        /\ ClosedBy(r[i - 1], Signed(fills[i].incoming_side, fills[i].qty)) \in Nat
    BY <2>1, <2>2, <1>5, ReplayTyped
  <2> QED BY <2>1, <2>2, <2>3, <2>4, <1>7
<1>9. c \in Seq(Int) /\ Len(c) = N
  <2>1. c \in [1..N -> Int]
    BY <1>7, <1>8
  <2> QED BY <2>1, <1>4, FunctionIsSeq
<1>10. ClosedQuantity(rows) = Total(c)
  BY <1>1, <1>3, <1>5, <1>7 DEF ClosedQuantity, ClosedBy
<1>11. PICK sum \in [0..N -> Int] :
          /\ Total(c) = sum[N] /\ sum[0] = 0
          /\ \A i \in 1..N : sum[i] = sum[i - 1] + c[i]
  BY <1>9, TotalUnfolds
<1>12. r[N].net_position = Total(Weigh(RowWeights, fills))
  <2>1. PICK u : u = Weigh(RowWeights, fills)
    OBVIOUS
  <2>2. fills \in Seq(LogRows)
    <3>1. FilledRows \subseteq LogRows
      BY DEF LogRows
    <3> QED BY <3>1, <1>2, SeqMonotonic
  <2>3. u \in Seq(Int) /\ Len(u) = N /\ \A i \in 1..N : u[i] = RowWeights[fills[i]]
    BY <2>1, <2>2, <1>2, <1>3, WeighTyped
  <2>4. PICK h : h = [i \in 0..N |-> r[i].net_position]
    OBVIOUS
  <2>5. h[0] = 0
    BY <2>4, <1>4, <1>5 DEF NewReplay
  <2>6. \A i \in 1..Len(u) : h[i] = h[i - 1] + u[i]
    BY <2>3, <2>4, <1>8
  <2>7. Total(u) = h[Len(u)]
    BY <2>3, <2>5, <2>6, TotalIs
  <2> QED BY <2>1, <2>3, <2>4, <2>7, <1>4
<1> DEFINE Apart(i) == r[i].realized_pnl_ticks - t[i].realized_pnl_ticks
<1> DEFINE G == {i \in 0..N : /\ SameAccount(r[i], t[i]) /\ sum[i] >= 0
                              /\ Apart(i) = 0 \/ 2 * Abs(Apart(i)) < 3 * sum[i]}
<1>13. 0 \in G
  BY <1>4, <1>5, <1>6, <1>11 DEF SameAccount, NewReplay, NewTracker
<1>14. ASSUME NEW i \in 1..N, i - 1 \in G PROVE i \in G
  <2>1. /\ SameAccount(r[i - 1], t[i - 1]) /\ sum[i - 1] >= 0
        /\ Apart(i - 1) = 0 \/ 2 * Abs(Apart(i - 1)) < 3 * sum[i - 1]
    BY <1>14
  <2>2. PICK d : d = (r[i].realized_pnl_ticks - r[i - 1].realized_pnl_ticks)
                        - (t[i].realized_pnl_ticks - t[i - 1].realized_pnl_ticks)
    OBVIOUS
  <2>3. SameAccount(r[i], t[i]) /\ (d = 0 \/ 2 * Abs(d) < 3 * c[i])
    BY <2>1, <2>2, <1>4, <1>5, <1>6, <1>7, <1>8, FillAgrees
  <2>4. /\ r[i].realized_pnl_ticks \in Int /\ r[i - 1].realized_pnl_ticks \in Int
        /\ t[i].realized_pnl_ticks \in Int /\ t[i - 1].realized_pnl_ticks \in Int
    BY <1>8 DEF ReplayStates, Tracker
  <2>5. PICK a, b : a = Apart(i - 1) /\ b = Apart(i)
    OBVIOUS
  <2>6. a \in Int /\ b \in Int /\ d \in Int /\ b = a + d
    <3>1. PICK p, q, u, v : /\ p = r[i].realized_pnl_ticks /\ q = r[i - 1].realized_pnl_ticks
                            /\ u = t[i].realized_pnl_ticks /\ v = t[i - 1].realized_pnl_ticks
      OBVIOUS
    <3>2. p \in Int /\ q \in Int /\ u \in Int /\ v \in Int
      BY <3>1, <2>4
    <3>3. d = (p - q) - (u - v) /\ a = q - v /\ b = p - u
      BY <3>1, <2>2, <2>5
    <3> QED BY <3>2, <3>3
  <2>7. PICK x, y, z : x = sum[i - 1] /\ y = c[i] /\ z = sum[i]
    OBVIOUS
  <2>8. x \in Int /\ x >= 0 /\ y \in Nat /\ z = x + y
    BY <2>1, <2>7, <1>8, <1>11
  <2>9. (a = 0 \/ 2 * Abs(a) < 3 * x) /\ (d = 0 \/ 2 * Abs(d) < 3 * y)
    BY <2>1, <2>3, <2>5, <2>7
  <2>10. z >= 0 /\ (b = 0 \/ 2 * Abs(b) < 3 * z)
    BY <2>6, <2>8, <2>9 DEF Abs
  <2> QED BY <2>3, <2>5, <2>7, <2>10, <1>8
<1>15. 0..N \subseteq G
  <2> HIDE DEF G
  <2> QED BY <1>4, <1>13, <1>14, InductionUpTo
<1>16. N \in 0..N
  BY <1>4
<1>17. /\ SameAccount(r[N], t[N])
       /\ Apart(N) = 0 \/ 2 * Abs(Apart(N)) < 3 * sum[N]
  BY <1>15, <1>16
<1>18. Replay(rows) = r[N]
  BY <1>1, <1>3, <1>5 DEF Replay
<1>19. Abs(0) = 0
  BY DEF Abs
<1>20. PICK A : A = Apart(N)
  OBVIOUS
<1>21. Abs(A) = 0 \/ 2 * Abs(A) < 3 * ClosedQuantity(rows)
  BY <1>10, <1>11, <1>17, <1>19, <1>20
<1> QED BY <1>2, <1>6, <1>12, <1>17, <1>18, <1>20, <1>21 DEF SameAccount

(* The hedger's position is the sum of the fills in the log.               *)
LogAddsUp == position = Total(Weigh(RowWeights, log))

(* The rows of some events of the hedger's orders weigh what the events    *)
(* bring.                                                                  *)
LEMMA RowsWeigh ==
    ASSUME NEW batch \in Seq(OwnEvents)
    PROVE  Total(Weigh(RowWeights, EventRows(batch))) = FilledQuantity(batch, my_order_ids)
<1>1. batch \in Seq(Events) /\ \A i \in 1..Len(batch) : batch[i] \in OwnEvents /\ batch[i] \in Events
  <2>1. OwnEvents \subseteq Events
    BY DEF OwnEvents
  <2> QED BY <2>1, SeqMonotonic, ElementOfSeq
<1>2. PICK rows : rows = EventRows(batch)
  OBVIOUS
<1>3. /\ rows \in Seq(LogRows) /\ Len(rows) = Len(batch)
      /\ \A i \in 1..Len(batch) : rows[i] = EventRow(batch[i])
  BY <1>1, <1>2, EventRowsTyped
<1>4. ASSUME NEW i \in 1..Len(batch)
      PROVE  RowWeights[rows[i]] = EventQuantity(batch[i], my_order_ids)
  <2>1. batch[i] \in OwnEvents /\ batch[i] \in Events /\ rows[i] = EventRow(batch[i])
    BY <1>1, <1>3
  <2>2. rows[i] \in LogRows
    BY <1>3, ElementOfSeq
  <2>3. RowWeights[rows[i]] = RowQuantity(EventRow(batch[i]))
    BY <2>1, <2>2 DEF RowWeights
  <2>4. CASE batch[i] \in AckEvents
    <3>1. batch[i].tag = "Ack"
      BY <2>4 DEF AckEvents
    <3> QED BY <3>1, <2>3 DEF RowQuantity, EventRow, EventQuantity
  <2>5. CASE batch[i] \in FillEvents
    <3>1. batch[i].tag = "Fill" /\ batch[i].incoming_order_id \in my_order_ids
      BY <2>1, <2>5 DEF FillEvents, OwnEvents
    <3> QED BY <3>1, <2>3 DEF RowQuantity, EventRow, EventQuantity
  <2> QED BY <2>1, <2>4, <2>5 DEF Events
<1>5. Weigh(RowWeights, rows) = [i \in 1..Len(batch) |-> EventQuantity(batch[i], my_order_ids)]
  BY <1>3, <1>4 DEF Weigh
<1> QED BY <1>2, <1>5 DEF FilledQuantity

(* What a step does to the log and the position.                           *)
LEMMA LogSteps ==
    ASSUME [HedgeNext]_vars
    PROVE  \/ Send
           \/ PollEvents
           \/ log' = log /\ position' = position
<1>1. ASSUME NEW t, WithinBand(t) \/ Rehedge(t) PROVE log' = log /\ position' = position
  BY <1>1 DEF WithinBand, Rehedge
<1>2. ASSUME NEW to, MainGoes(to) PROVE log' = log /\ position' = position
  BY <1>2 DEF MainGoes, hedgerVars
<1>3. ASSUME Connect \/ LoopEnds \/ SendDone \/ PollTimesOut \/ MainRaises
      PROVE  log' = log /\ position' = position
  BY <1>2, <1>3 DEF Connect, LoopEnds, SendDone, PollTimesOut, MainRaises, ConnectRaises,
                    PricingRaises, SendRaises
<1>4. ASSUME Read \/ ServerStep \/ QuoterStep PROVE log' = log /\ position' = position
  BY <1>4 DEF Read, ServerStep, ServeReject, ServeExecute, QuoterStep, QuoterQuotes, QuoteLeaves,
              hedgerVars, mainVars
<1>5. ASSUME UNCHANGED vars PROVE log' = log /\ position' = position
  BY <1>5 DEF vars, hedgerVars, mainVars
<1> QED BY <1>1, <1>3, <1>4, <1>5 DEF HedgeNext, PriceArrives, MainStep

(* Every step keeps log and position together.                             *)
LEMMA LogKeepsUp ==
    ASSUME HedgeInv, LogAddsUp, [HedgeNext]_vars
    PROVE  LogAddsUp'
<1>0. /\ WellTyped /\ log \in Seq(LogRows) /\ events \in Seq(OwnEvents) /\ position \in Int
      /\ actions \in Seq(HedgeOrders)
  BY QueuesTyped DEF HedgeInv, WellTyped
<1>1. PICK w : w = RowWeights
  OBVIOUS
<1>2. w \in [LogRows -> Int] /\ position = Total(Weigh(w, log))
  BY <1>0, <1>1, FillRowsFacts DEF LogAddsUp
<1>3. CASE Send
  <2>1. PICK row : row = SentRow(Head(actions))
    OBVIOUS
  <2>2. Head(actions) \in HedgeOrders
    BY <1>0, <1>3, HeadTailProperties DEF Send
  <2>3. row \in LogRows /\ row.event = "order_sent"
    BY <2>1, <2>2 DEF SentRow, HedgeOrders, LogRows, SentRows
  <2>4. w[row] = 0
    BY <2>3, <1>1 DEF RowWeights, RowQuantity
  <2>5. log' = Append(log, row) /\ position' = position
    BY <2>1, <1>3 DEF Send, hedgerVars
  <2>6. Total(Weigh(w, Append(log, row))) = Total(Weigh(w, log)) + w[row]
    BY <2>3, <1>0, <1>2, WeightAppend
  <2>7. position' = Total(Weigh(w, log'))
    BY <2>4, <2>5, <2>6, <1>0, <1>2
  <2> QED BY <2>7, <1>1 DEF LogAddsUp, RowWeights, RowQuantity
<1>4. CASE PollEvents
  <2>1. PICK rows : rows = EventRows(events)
    OBVIOUS
  <2>2. log' = log \o rows /\ position' = position + FilledQuantity(events, my_order_ids)
    BY <2>1, <1>4 DEF PollEvents, PositionAfter
  <2>3. rows \in Seq(LogRows)
    BY <2>1, <1>0, QueuesTyped, EventRowsTyped
  <2>4. Total(Weigh(w, log \o rows)) = Total(Weigh(w, log)) + Total(Weigh(w, rows))
    BY <2>3, <1>0, <1>2, WeightConcat
  <2>5. Total(Weigh(w, rows)) = FilledQuantity(events, my_order_ids)
    BY <2>1, <1>0, <1>1, RowsWeigh
  <2>6. position' = Total(Weigh(w, log'))
    BY <2>2, <2>4, <2>5, <1>2
  <2> QED BY <2>6, <1>1 DEF LogAddsUp, RowWeights, RowQuantity
<1>5. CASE log' = log /\ position' = position
  BY <1>1, <1>2, <1>5 DEF LogAddsUp, RowWeights, RowQuantity
<1> QED BY <1>3, <1>4, <1>5, LogSteps

(* backtest_report.py against position.rs and the hedger: on every log     *)
(* that a backtest writes, the three have the same position, and the two   *)
(* P&Ls are less than a tick and a half apart per unit closed.             *)
THEOREM ReportAgrees == HedgeSpec => []ReplayAgrees
<1>1. HedgeInit => LogAddsUp
  <2> SUFFICES ASSUME HedgeInit PROVE LogAddsUp
    OBVIOUS
  <2>1. log = <<>> /\ position = 0
    BY DEF HedgeInit
  <2>2. Weigh(RowWeights, <<>>) = <<>>
    BY DEF Weigh
  <2> QED BY <2>1, <2>2, TotalTyped DEF LogAddsUp
<1>2. HedgeInv /\ LogAddsUp /\ [HedgeNext]_vars => LogAddsUp'
  BY LogKeepsUp
<1>3. HedgeInv /\ LogAddsUp => ReplayAgrees
  <2> SUFFICES ASSUME HedgeInv, LogAddsUp PROVE ReplayAgrees
    OBVIOUS
  <2>1. log \in Seq(LogRows)
    BY DEF HedgeInv, WellTyped
  <2> QED BY <2>1, AccountsAgree DEF LogAddsUp, ReplayAgrees
<1> QED BY <1>1, <1>2, <1>3, HedgeInvariant, PTL DEF HedgeSpec

-----------------------------------------------------------------------------
(* The report: the drawdown. *)

(* The greatest and the least of two.                                      *)
LEMMA GreaterLess ==
    ASSUME NEW a \in Int, NEW b \in Int
    PROVE  /\ Max({a, b}) = IF a >= b THEN a ELSE b
           /\ Min({a, b}) = IF a <= b THEN a ELSE b
<1>1. PICK m : m = IF a >= b THEN a ELSE b
  OBVIOUS
<1>2. m \in {a, b} /\ \A y \in {a, b} : m >= y
  BY <1>1
<1>3. Max({a, b}) = m
  <2>1. \A x \in {a, b} : (\A y \in {a, b} : x >= y) => x = m
    BY <1>2
  <2> QED BY <1>2, <2>1 DEF Max
<1>4. PICK l : l = IF a <= b THEN a ELSE b
  OBVIOUS
<1>5. l \in {a, b} /\ \A y \in {a, b} : l <= y
  BY <1>4
<1>6. Min({a, b}) = l
  <2>1. \A x \in {a, b} : (\A y \in {a, b} : x <= y) => x = l
    BY <1>5
  <2> QED BY <1>5, <2>1 DEF Min
<1> QED BY <1>1, <1>3, <1>4, <1>6

DrawdownStates == [peak : Int, max_dd : Int]

(* One turn of the loop of _max_drawdown.                                  *)
Turn(x, value) ==
    LET peak == Max({x.peak, value})
    IN  [peak |-> peak, max_dd |-> Min({x.max_dd, value - peak})]

(* What the turn computes.                                                 *)
LEMMA TurnFacts ==
    ASSUME NEW x \in DrawdownStates, NEW value \in Int
    PROVE  /\ Turn(x, value) \in DrawdownStates
           /\ Turn(x, value).peak = IF x.peak >= value THEN x.peak ELSE value
           /\ Turn(x, value).max_dd = IF x.max_dd <= value - Turn(x, value).peak
                                      THEN x.max_dd ELSE value - Turn(x, value).peak
<1>1. x.peak \in Int /\ x.max_dd \in Int
  BY DEF DrawdownStates
<1>2. PICK p : p = Max({x.peak, value})
  OBVIOUS
<1>3. p = (IF x.peak >= value THEN x.peak ELSE value) /\ p \in Int
  BY <1>1, <1>2, GreaterLess
<1>4. PICK d : d = value - p
  OBVIOUS
<1>5. d \in Int
  BY <1>3, <1>4
<1>6. PICK m : m = Min({x.max_dd, d})
  OBVIOUS
<1>7. m = (IF x.max_dd <= d THEN x.max_dd ELSE d) /\ m \in Int
  BY <1>1, <1>5, <1>6, GreaterLess
<1>8. Turn(x, value) = [peak |-> p, max_dd |-> m]
  BY <1>2, <1>4, <1>6 DEF Turn
<1> QED BY <1>3, <1>4, <1>7, <1>8 DEF DrawdownStates

(* The values of the loop variables.                                       *)
LEMMA DrawdownUnfolds ==
    ASSUME NEW curve \in Seq(Int), curve # <<>>
    PROVE  \E h \in [0..Len(curve) -> DrawdownStates] :
              /\ max_drawdown(curve) = h[Len(curve)].max_dd
              /\ h[0] = [peak |-> curve[1], max_dd |-> 0]
              /\ \A i \in 1..Len(curve) : h[i] = Turn(h[i - 1], curve[i])
<1> DEFINE N == Len(curve)
<1> DEFINE Plus(x, i) == Turn(x, curve[i])
<1>a. PICK a : a = [peak |-> curve[1], max_dd |-> 0]
  OBVIOUS
<1> DEFINE Eq(f) == f = [i \in 0..N |-> IF i = 0 THEN a ELSE Plus(f[i - 1], i)]
<1>0. N \in Nat /\ \A i \in 1..N : curve[i] \in Int
  BY ElementOfSeq
<1>1. ASSUME NEW x \in DrawdownStates, NEW i \in 1..N PROVE Plus(x, i) \in DrawdownStates
  BY <1>0, <1>1, TurnFacts
<1>2. a \in DrawdownStates
  <2>1. 1 \in 1..N
    BY <1>0, EmptySeq
  <2> QED BY <2>1, <1>0, <1>a DEF DrawdownStates
<1>3. PICK g : g = [x \in DrawdownStates \X (1..N) |-> Plus(x[1], x[2])]
  OBVIOUS
<1>4. g \in [DrawdownStates \X (1..N) -> DrawdownStates]
  <2>1. ASSUME NEW x \in DrawdownStates \X (1..N) PROVE Plus(x[1], x[2]) \in DrawdownStates
    <3>1. x[1] \in DrawdownStates /\ x[2] \in 1..N
      OBVIOUS
    <3> HIDE DEF Plus
    <3> QED BY <3>1, <1>1
  <2> HIDE DEF Plus
  <2> QED BY <2>1, <1>3
<1>5. PICK h : Iterates(h, DrawdownStates, a, g, N)
  BY <1>0, <1>2, <1>4, IterationExists
<1>6. /\ h \in [0..N -> DrawdownStates] /\ h[0] = a
      /\ \A i \in 1..N : h[i] = g[<<h[i - 1], i>>]
  BY <1>5 DEF Iterates
<1>7. ASSUME NEW i \in 1..N PROVE h[i] = Plus(h[i - 1], i)
  <2>1. i - 1 \in 0..N
    BY <1>0
  <2>2. <<h[i - 1], i>> \in DrawdownStates \X (1..N)
    BY <2>1, <1>6
  <2> HIDE DEF Plus
  <2> QED BY <2>2, <1>3, <1>6
<1>8. Eq(h)
  <2>1. \A i \in 0..N : i = 0 \/ i \in 1..N
    BY <1>0
  <2> HIDE DEF Plus
  <2> QED BY <1>6, <1>7, <2>1
<1>9. PICK f : f = CHOOSE e : Eq(e)
  OBVIOUS
<1>10. Eq(f)
  <2> HIDE DEF Eq
  <2> QED BY <1>8, <1>9
<1>11. f[0] = a /\ \A i \in 1..N : f[i] = Plus(f[i - 1], i)
  <2>1. 0 \in 0..N /\ \A i \in 1..N : i \in 0..N /\ i # 0
    BY <1>0
  <2> HIDE DEF Plus
  <2> QED BY <1>10, <2>1
<1>12. ASSUME NEW i \in 0..N PROVE f[i] \in DrawdownStates
  <2> DEFINE G == {j \in 0..N : f[j] \in DrawdownStates}
  <2>1. 0 \in G
    BY <1>0, <1>2, <1>11
  <2>2. ASSUME NEW j \in 1..N, j - 1 \in G PROVE j \in G
    <3> HIDE DEF Plus
    <3>1. f[j - 1] \in DrawdownStates /\ j \in 0..N
      BY <2>2, <1>0
    <3> QED BY <3>1, <1>1, <1>11
  <2>3. 0..N \subseteq G
    <3> HIDE DEF G, Plus
    <3> QED BY <1>0, <2>1, <2>2, InductionUpTo
  <2> QED BY <2>3
<1>13. f \in [0..N -> DrawdownStates]
  <2> HIDE DEF Plus
  <2> QED BY <1>10, <1>12
<1>14. max_drawdown(curve) = f[N].max_dd
  BY <1>9, <1>a DEF max_drawdown, Turn
<1> QED BY <1>11, <1>13, <1>14, <1>a

(* The falls of a curve.                                                   *)
Falls(curve) == UNION {{curve[j] - curve[i] : j \in i..Len(curve)} : i \in 1..Len(curve)}

(* The running peak finds the deepest of all falls.                        *)
LEMMA DrawdownIsDeepest ==
    ASSUME NEW curve \in Seq(Int), curve # <<>>
    PROVE  max_drawdown(curve) = Min(Falls(curve))
<1>1. PICK N : N = Len(curve)
  OBVIOUS
<1>2. N \in Nat /\ 1 \in 1..N /\ \A i \in 1..N : curve[i] \in Int
  BY <1>1, EmptySeq, ElementOfSeq
<1>3. PICK h \in [0..N -> DrawdownStates] :
         /\ max_drawdown(curve) = h[N].max_dd
         /\ h[0] = [peak |-> curve[1], max_dd |-> 0]
         /\ \A i \in 1..N : h[i] = Turn(h[i - 1], curve[i])
  BY <1>1, DrawdownUnfolds
<1> DEFINE Good(n) == /\ \E k \in 1..N : k <= n + 1 /\ h[n].peak = curve[k]
                      /\ \A k \in 1..n : curve[k] <= h[n].peak
                      /\ \E k \in 1..N : \E j \in k..N : h[n].max_dd = curve[j] - curve[k]
                      /\ \A k \in 1..n : \A j \in k..n : h[n].max_dd <= curve[j] - curve[k]
           Goods == {n \in 0..N : Good(n)}
<1>4. 0 \in Goods
  <2>1. h[0].peak = curve[1] /\ h[0].max_dd = 0
    BY <1>3
  <2>2. curve[1] - curve[1] = 0 /\ 1 \in 1..N /\ 1 \in 1..N /\ 1 <= 0 + 1
    BY <1>2
  <2>3. \E k \in 1..N : \E j \in k..N : h[0].max_dd = curve[j] - curve[k]
    BY <2>1, <2>2
  <2>4. \E k \in 1..N : k <= 0 + 1 /\ h[0].peak = curve[k]
    BY <2>1, <2>2
  <2> QED BY <2>3, <2>4, <1>2
<1>5. ASSUME NEW n \in 1..N, n - 1 \in Goods PROVE n \in Goods
  <2>0. n - 1 \in 0..N /\ n \in 0..N /\ h[n - 1] \in DrawdownStates /\ curve[n] \in Int
    BY <1>2
  <2>1. Good(n - 1)
    BY <1>5
  <2>2. PICK p, d, q, e, v : /\ p = h[n - 1].peak /\ d = h[n - 1].max_dd
                             /\ q = h[n].peak /\ e = h[n].max_dd /\ v = curve[n]
    OBVIOUS
  <2>3. p \in Int /\ d \in Int /\ v \in Int
    BY <2>0, <2>2 DEF DrawdownStates
  <2>4. q = (IF p >= v THEN p ELSE v) /\ e = (IF d <= v - q THEN d ELSE v - q)
    <3>1. PICK x, y : x = h[n - 1] /\ y = h[n]
      OBVIOUS
    <3>2. x \in DrawdownStates /\ v \in Int /\ y = Turn(x, v)
      BY <3>1, <2>0, <2>2, <2>3, <1>3
    <3>3. /\ y.peak = IF x.peak >= v THEN x.peak ELSE v
          /\ y.max_dd = IF x.max_dd <= v - y.peak THEN x.max_dd ELSE v - y.peak
      BY <3>2, TurnFacts
    <3> QED BY <3>1, <3>3, <2>2
  <2>5. q \in Int /\ e \in Int /\ q >= p /\ q >= v /\ e <= d /\ e <= v - q
    BY <2>3, <2>4
  <2>6. \A k \in 1..n : k \in 1..(n - 1) \/ k = n
    OBVIOUS
  <2>7. \A k \in 1..n : curve[k] <= q /\ curve[k] \in Int
    <3>1. \A k \in 1..(n - 1) : curve[k] <= p
      BY <2>1, <2>2
    <3>2. \A k \in 1..n : curve[k] \in Int
      BY <1>2
    <3>3. ASSUME NEW k \in 1..n PROVE curve[k] <= q
      <4>1. CASE k = n
        BY <4>1, <2>2, <2>3, <2>5
      <4>2. CASE k \in 1..(n - 1)
        <5>1. curve[k] <= p /\ curve[k] \in Int
          BY <4>2, <3>1, <3>2
        <5> QED BY <5>1, <2>3, <2>5
      <4> QED BY <4>1, <4>2, <2>6
    <3> QED BY <3>2, <3>3
  <2>8. PICK w \in 1..N : w <= n /\ q = curve[w]
    <3>1. PICK k \in 1..N : k <= (n - 1) + 1 /\ p = curve[k]
      BY <2>1, <2>2
    <3>0. (n - 1) + 1 = n /\ n <= n
      OBVIOUS
    <3>2. CASE q = p
      BY <3>0, <3>1, <3>2
    <3>3. CASE q = v
      BY <3>0, <2>2, <3>3
    <3> QED BY <3>2, <3>3, <2>4
  <2>9. \E k \in 1..N : \E j \in k..N : e = curve[j] - curve[k]
    <3>1. CASE e = d
      BY <3>1, <2>1, <2>2
    <3>2. CASE e = v - q
      <4>1. n \in w..N /\ e = curve[n] - curve[w]
        BY <3>2, <2>2, <2>8
      <4> QED BY <4>1
    <3> QED BY <3>1, <3>2, <2>4
  <2>10. ASSUME NEW k \in 1..n, NEW j \in k..n PROVE e <= curve[j] - curve[k]
    <3>1. CASE j = n
      <4>1. curve[j] = v /\ curve[k] <= q /\ curve[k] \in Int
        BY <3>1, <2>2, <2>7
      <4> QED BY <4>1, <2>3, <2>5
    <3>2. CASE j # n
      <4>1. k \in 1..(n - 1) /\ j \in k..(n - 1)
        BY <3>2
      <4>2. d <= curve[j] - curve[k] /\ curve[j] \in Int /\ curve[k] \in Int
        <5>1. k \in 1..N /\ j \in 1..N
          BY <4>1, <1>2
        <5>2. d <= curve[j] - curve[k]
          BY <4>1, <2>1, <2>2
        <5> QED BY <5>1, <5>2, <1>2
      <4> QED BY <4>2, <2>3, <2>5
    <3> QED BY <3>1, <3>2
  <2>11. w <= n + 1
    BY <2>8
  <2> QED BY <2>0, <2>2, <2>7, <2>8, <2>9, <2>10, <2>11
<1>6. 0..N \subseteq Goods
  <2> HIDE DEF Goods
  <2> QED BY <1>2, <1>4, <1>5, InductionUpTo
<1>7. Good(N)
  <2>1. N \in 0..N
    BY <1>2
  <2> QED BY <2>1, <1>6
<1>8. PICK m, F : m = max_drawdown(curve) /\ F = Falls(curve)
  OBVIOUS
<1>9. m \in F /\ \A y \in F : m <= y
  <2>1. m \in F
    BY <1>1, <1>3, <1>7, <1>8 DEF Falls
  <2>2. ASSUME NEW y \in F PROVE m <= y
    <3>1. PICK k \in 1..N : \E j \in k..N : y = curve[j] - curve[k]
      BY <1>1, <1>8, <2>2 DEF Falls
    <3> QED BY <3>1, <1>3, <1>7, <1>8
  <2> QED BY <2>1, <2>2
<1>10. \A x \in F : x \in Int
  <2> SUFFICES ASSUME NEW x \in F PROVE x \in Int
    OBVIOUS
  <2>1. PICK k \in 1..N : \E j \in k..N : x = curve[j] - curve[k]
    BY <1>1, <1>8 DEF Falls
  <2>2. PICK j \in k..N : x = curve[j] - curve[k]
    BY <2>1
  <2>3. curve[j] \in Int /\ curve[k] \in Int
    BY <1>2
  <2> QED BY <2>2, <2>3
<1>11. Min(F) = m
  <2>1. \A x \in F : (\A y \in F : x <= y) => x = m
    BY <1>9, <1>10
  <2> QED BY <1>9, <2>1 DEF Min
<1> QED BY <1>8, <1>11

(* _max_drawdown with its running peak gives the deepest fall from any     *)
(* point of the equity curve to a later one, on every log that a backtest  *)
(* writes.                                                                 *)
THEOREM DrawdownCorrect == HedgeSpec => []DrawdownIsWorstFall
<1>1. HedgeInv => DrawdownIsWorstFall
  <2> SUFFICES ASSUME HedgeInv PROVE DrawdownIsWorstFall
    OBVIOUS
  <2>1. log \in Seq(LogRows)
    BY DEF HedgeInv, WellTyped
  <2>2. PICK fills : fills = FillRows(log)
    OBVIOUS
  <2>3. fills \in Seq(FilledRows)
    BY <2>1, <2>2, FillRowsFacts
  <2>4. PICK r \in [0..Len(fills) -> ReplayStates] : Replays(log) = r
    BY <2>2, <2>3, ReplayUnfolds
  <2>5. PICK curve : curve = equity_curve(log)
    OBVIOUS
  <2>6. curve = [i \in 1..Len(fills) + 1 |-> r[i - 1].realized_pnl_ticks]
    BY <2>2, <2>4, <2>5 DEF equity_curve
  <2>7. Len(fills) + 1 \in Nat /\ \A i \in 1..Len(fills) + 1 : i - 1 \in 0..Len(fills)
    BY <2>3
  <2>8. \A i \in 1..Len(fills) + 1 : r[i - 1].realized_pnl_ticks \in Int
    BY <2>7 DEF ReplayStates
  <2>9. curve \in [1..Len(fills) + 1 -> Int]
    BY <2>6, <2>8
  <2>10. curve \in Seq(Int) /\ Len(curve) = Len(fills) + 1
    BY <2>7, <2>9, FunctionIsSeq
  <2>11. curve # <<>>
    BY <2>3, <2>10, EmptySeq
  <2>12. max_drawdown(curve) = Min(Falls(curve))
    BY <2>10, <2>11, DrawdownIsDeepest
  <2> QED BY <2>5, <2>12 DEF DrawdownIsWorstFall, Falls
<1> QED BY <1>1, HedgeInvariant, PTL
=============================================================================
