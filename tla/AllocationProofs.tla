------------------------- MODULE AllocationProofs --------------------------
(***************************************************************************)
(* Proof that the matching loop of submit computes the price-time          *)
(* allocation: whatever rests in the book and however large the request,   *)
(* every order gets what is left of the request after those ahead of it.   *)
(*                                                                         *)
(* The invariant of the loop (Progress) is about the orders that are used  *)
(* up: they are ahead of all other eligible orders, and the request has    *)
(* lost exactly their quantity; once it has lost a part of one more order, *)
(* nothing of it is left.                                                  *)
(***************************************************************************)
EXTENDS MCOrderBook, OrderBookProofs, FiniteSetTheorems

(* h adds up f over the subsets of S, taking away one element at a time.   *)
Adds(h, f, S) ==
    /\ h[{}] = 0
    /\ \A T \in SUBSET S : T # {} =>
          h[T] = f[CHOOSE x \in T : TRUE] + h[T \ {CHOOSE x \in T : TRUE}]

Sums(h, f, S) == h \in [SUBSET S -> Int] /\ Adds(h, f, S)

(* A finite set has such a sum: it is reached by repeating the equation as *)
(* often as the set has elements.                                          *)
LEMMA SumExists ==
    ASSUME NEW S, IsFiniteSet(S), NEW f, \A x \in S : f[x] \in Int
    PROVE  \E h : Sums(h, f, S)
<1> DEFINE c(T) == CHOOSE x \in T : TRUE
           V == [SUBSET S -> Int]
           Again(h) == [T \in SUBSET S |-> IF T = {} THEN 0 ELSE f[c(T)] + h[T \ {c(T)}]]
           a == [T \in SUBSET S |-> 0]
           n == Cardinality(S) + 1
           g == [x \in V \X (1..n) |-> Again(x[1])]
<1>1. n \in Nat /\ Cardinality(S) \in Nat
  BY FS_CardinalityType
<1>2. \A T \in SUBSET S : T # {} => c(T) \in T /\ f[c(T)] \in Int /\ T \ {c(T)} \in SUBSET S
  <2>1. ASSUME NEW T \in SUBSET S, T # {} PROVE c(T) \in T
    BY <2>1
  <2> QED BY <2>1
<1> HIDE DEF c
<1>3. \A h \in V : Again(h) \in V
  BY <1>2
<1>4. a \in V /\ g \in [V \X (1..n) -> V]
  <2>1. a \in V
    OBVIOUS
  <2> HIDE DEF V, Again, a, n
  <2>2. g \in [V \X (1..n) -> V]
    BY <1>3
  <2> QED BY <2>1, <2>2
<1>5. PICK it : Iterates(it, V, a, g, n)
  <2> HIDE DEF V, a, g, n
  <2> QED BY <1>1, <1>4, IterationExists
<1>6. /\ it \in [0..n -> V] /\ it[0] = a
      /\ \A i \in 1..n : it[i] = Again(it[i - 1])
  <2>1. /\ it \in [0..n -> V] /\ it[0] = a
        /\ \A i \in 1..n : it[i] = g[<<it[i - 1], i>>]
    BY <1>5 DEF Iterates
  <2>2. ASSUME NEW i \in 1..n PROVE it[i] = Again(it[i - 1])
    <3>1. i - 1 \in 0..n
      BY <1>1
    <3>2. it[i - 1] \in V
      BY <3>1, <2>1
    <3> HIDE DEF V, Again, n
    <3>3. g[<<it[i - 1], i>>] = Again(it[i - 1])
      BY <3>2
    <3> QED BY <3>3, <2>1
  <2> QED BY <2>1, <2>2
<1> DEFINE Settled == {i \in Nat : \A T \in SUBSET S : Cardinality(T) <= i /\ i + 1 <= n
                                       => it[i + 1][T] = it[i][T]}
<1>7. 0 \in Settled
  <2> SUFFICES ASSUME NEW T \in SUBSET S, Cardinality(T) <= 0, 1 <= n PROVE it[1][T] = it[0][T]
    OBVIOUS
  <2>1. T = {}
    BY FS_Subset, FS_EmptySet, FS_CardinalityType
  <2>2. it[1] = Again(it[0]) /\ it[0] = a
    <3>1. 1 \in 1..n /\ 1 - 1 = 0
      BY <1>1
    <3> HIDE DEF Again, a, n, V
    <3> QED BY <3>1, <1>6
  <2> QED BY <2>1, <2>2
<1>8. \A i \in 1..Cardinality(S) : i - 1 \in Settled => i \in Settled
  <2> SUFFICES ASSUME NEW i \in 1..Cardinality(S), i - 1 \in Settled,
                      NEW T \in SUBSET S, Cardinality(T) <= i, i + 1 <= n
               PROVE  it[i + 1][T] = it[i][T]
    BY <1>1
  <2>1. /\ it[i + 1] = Again(it[i]) /\ it[i] = Again(it[i - 1])
    <3>1. i \in 1..n /\ i + 1 \in 1..n /\ (i + 1) - 1 = i
      BY <1>1
    <3> QED BY <3>1, <1>6
  <2>2. CASE T = {}
    BY <2>1, <2>2
  <2>3. CASE T # {}
    <3>1. /\ it[i + 1][T] = f[c(T)] + it[i][T \ {c(T)}]
          /\ it[i][T] = f[c(T)] + it[i - 1][T \ {c(T)}]
      BY <2>1, <2>3
    <3>2. Cardinality(T \ {c(T)}) <= i - 1 /\ T \ {c(T)} \in SUBSET S
      <4>1. IsFiniteSet(T) /\ Cardinality(T) \in Nat
        BY FS_Subset, FS_CardinalityType
      <4>2. Cardinality(T \ {c(T)}) = Cardinality(T) - 1
        BY <4>1, <2>3, <1>2, FS_RemoveElement
      <4> QED BY <4>1, <4>2, <1>1
    <3>3. (i - 1) + 1 = i /\ i <= n
      BY <1>1
    <3>4. it[i][T \ {c(T)}] = it[i - 1][T \ {c(T)}]
      BY <3>2, <3>3
    <3> QED BY <3>1, <3>4
  <2> QED BY <2>2, <2>3
<1>9. Cardinality(S) \in Settled
  <2> HIDE DEF Settled
  <2>1. 0..Cardinality(S) \subseteq Settled
    BY <1>1, <1>7, <1>8, InductionUpTo
  <2> QED BY <2>1, <1>1
<1>10. \A T \in SUBSET S : it[n][T] = it[n - 1][T]
  BY <1>9, <1>1, FS_Subset
<1> DEFINE h == it[n - 1]
<1>11. it[n] = Again(h) /\ h \in V
  <2>1. n \in 1..n /\ n - 1 \in 0..n
    BY <1>1
  <2> HIDE DEF Again, a, n, V
  <2> QED BY <2>1, <1>6
<1>12. \A T \in SUBSET S : h[T] = IF T = {} THEN 0 ELSE f[c(T)] + h[T \ {c(T)}]
  <2> HIDE DEF h
  <2>1. \A T \in SUBSET S : it[n][T] = h[T]
    BY <1>10 DEF h
  <2> QED BY <2>1, <1>11
<1>13. {} \in SUBSET S
  OBVIOUS
<1>14. Sums(h, f, S)
  <2> HIDE DEF h
  <2> QED BY <1>11, <1>12, <1>13 DEF Sums, Adds, c
<1> QED BY <1>14

(* There is only one: sums of functions that agree, over sets that may be  *)
(* different, agree on the subsets they have in common.                    *)
LEMMA SumsAgree ==
    ASSUME NEW S, IsFiniteSet(S), NEW f, NEW h, Adds(h, f, S),
           NEW R, NEW e, NEW k, Adds(k, e, R),
           NEW A, A \subseteq S, A \subseteq R, \A x \in A : f[x] = e[x]
    PROVE  h[A] = k[A]
<1> DEFINE c(T) == CHOOSE x \in T : TRUE
           Agree == {i \in Nat : \A T \in SUBSET A : Cardinality(T) <= i => h[T] = k[T]}
<1>1. Cardinality(A) \in Nat /\ IsFiniteSet(A)
  BY FS_Subset, FS_CardinalityType
<1>2. \A T \in SUBSET A : IsFiniteSet(T) /\ Cardinality(T) \in Nat /\ (Cardinality(T) = 0 => T = {})
  BY <1>1, FS_Subset, FS_CardinalityType, FS_EmptySet
<1>3. 0 \in Agree
  <2>1. ASSUME NEW T \in SUBSET A, Cardinality(T) <= 0 PROVE T = {}
    BY <2>1, <1>2
  <2>2. h[{}] = k[{}]
    BY DEF Adds
  <2> QED BY <2>1, <2>2
<1>4. \A i \in 1..Cardinality(A) : i - 1 \in Agree => i \in Agree
  <2> SUFFICES ASSUME NEW i \in 1..Cardinality(A), i - 1 \in Agree,
                      NEW T \in SUBSET A, Cardinality(T) <= i
               PROVE  h[T] = k[T]
    BY <1>1
  <2>1. CASE T = {}
    BY <2>1 DEF Adds
  <2>2. CASE T # {}
    <3>1. c(T) \in T
      BY <2>2
    <3> HIDE DEF c
    <3>2. Cardinality(T \ {c(T)}) = Cardinality(T) - 1
      BY <3>1, <1>2, FS_RemoveElement
    <3>3. Cardinality(T \ {c(T)}) <= i - 1 /\ T \ {c(T)} \in SUBSET A
      BY <3>2, <1>1, <1>2
    <3>4. h[T \ {c(T)}] = k[T \ {c(T)}]
      BY <3>3
    <3>5. T \in SUBSET S /\ T \in SUBSET R /\ f[c(T)] = e[c(T)]
      BY <3>1
    <3>6. h[T] = f[c(T)] + h[T \ {c(T)}] /\ k[T] = e[c(T)] + k[T \ {c(T)}]
      BY <3>5, <2>2 DEF Adds, c
    <3> QED BY <3>4, <3>5, <3>6
  <2> QED BY <2>1, <2>2
<1>5. Cardinality(A) \in Agree
  <2> HIDE DEF Agree
  <2>1. 0..Cardinality(A) \subseteq Agree
    BY <1>1, <1>3, <1>4, InductionUpTo
  <2> QED BY <2>1, <1>1
<1> QED BY <1>5, <1>1

(* SumFunctionOnSet is that sum.                                           *)
LEMMA SumUnfolds ==
    ASSUME NEW S, IsFiniteSet(S), NEW f, \A x \in S : f[x] \in Int
    PROVE  \E h : Sums(h, f, S) /\ SumFunctionOnSet(f, S) = h[S]
<1> DEFINE Step(h) == [T \in SUBSET S |->
                          IF T = {} THEN 0
                          ELSE f[CHOOSE x \in T : TRUE] + h[T \ {CHOOSE x \in T : TRUE}]]
           h == CHOOSE h : h = Step(h)
<1>1. SumFunctionOnSet(f, S) = h[S]
  BY Zenon DEF SumFunctionOnSet, FoldFunctionOnSet, MapThenFoldSet
<1>2. PICK k : Sums(k, f, S)
  BY SumExists
<1>3. k = Step(k)
  <2>1. k = [T \in SUBSET S |-> k[T]]
    BY <1>2 DEF Sums
  <2>2. \A T \in SUBSET S : k[T] = IF T = {} THEN 0
                          ELSE f[CHOOSE x \in T : TRUE] + k[T \ {CHOOSE x \in T : TRUE}]
    BY <1>2 DEF Sums, Adds
  <2> QED BY <2>1, <2>2, Zenon
<1>4. h = Step(h)
  <2> HIDE DEF Step
  <2> QED BY <1>3
<1>5. Adds(h, f, S)
  <2> HIDE DEF h
  <2>1. \A T \in SUBSET S : h[T] = IF T = {} THEN 0
                          ELSE f[CHOOSE x \in T : TRUE] + h[T \ {CHOOSE x \in T : TRUE}]
    BY <1>4
  <2> QED BY <2>1 DEF Adds
<1>6. h[S] = k[S]
  <2> HIDE DEF h
  <2> QED BY <1>2, <1>5, SumsAgree DEF Sums
<1> QED BY <1>1, <1>2, <1>6

(* The sum of integers is an integer, and the elements may be counted in   *)
(* any order: each can be taken out first.                                 *)
LEMMA SumSplits ==
    ASSUME NEW S, IsFiniteSet(S), NEW f, \A x \in S : f[x] \in Int
    PROVE  /\ SumFunctionOnSet(f, S) \in Int
           /\ S = {} => SumFunctionOnSet(f, S) = 0
           /\ \A x \in S : SumFunctionOnSet(f, S) = f[x] + SumFunctionOnSet(f, S \ {x})
<1> DEFINE c(T) == CHOOSE x \in T : TRUE
<1>1. PICK h : Sums(h, f, S) /\ SumFunctionOnSet(f, S) = h[S]
  BY SumUnfolds
<1>2. h \in [SUBSET S -> Int] /\ Adds(h, f, S) /\ h[{}] = 0
  BY <1>1 DEF Sums, Adds
<1>3. Cardinality(S) \in Nat
      /\ \A T \in SUBSET S : IsFiniteSet(T) /\ Cardinality(T) \in Nat /\ (Cardinality(T) = 0 => T = {})
  BY FS_Subset, FS_CardinalityType, FS_EmptySet
<1>4. ASSUME NEW T \in SUBSET S, T # {}
      PROVE  /\ c(T) \in T /\ h[T] = f[c(T)] + h[T \ {c(T)}]
             /\ \A x \in T : Cardinality(T \ {x}) = Cardinality(T) - 1
  BY <1>2, <1>3, <1>4, FS_RemoveElement DEF Adds
<1> HIDE DEF c
<1> DEFINE Free == {i \in Nat : \A T \in SUBSET S : Cardinality(T) <= i =>
                                   \A x \in T : h[T] = f[x] + h[T \ {x}]}
<1>5. 0 \in Free
  BY <1>3
<1>6. \A i \in 1..Cardinality(S) : i - 1 \in Free => i \in Free
  <2> SUFFICES ASSUME NEW i \in 1..Cardinality(S), i - 1 \in Free,
                      NEW T \in SUBSET S, Cardinality(T) <= i, NEW x \in T
               PROVE  h[T] = f[x] + h[T \ {x}]
    BY <1>3
  <2>1. c(T) \in T /\ h[T] = f[c(T)] + h[T \ {c(T)}]
    BY <1>4
  <2>2. CASE x = c(T)
    BY <2>1, <2>2
  <2>3. CASE x # c(T)
    <3>1. PICK y \in T : y = c(T)
      BY <2>1
    <3>a. h[T] = f[y] + h[T \ {y}]
      BY <2>1, <3>1
    <3>2. Cardinality(T \ {x}) <= i - 1 /\ Cardinality(T \ {y}) <= i - 1
      <4>1. Cardinality(T \ {x}) = Cardinality(T) - 1 /\ Cardinality(T \ {y}) = Cardinality(T) - 1
        BY <1>4
      <4> QED BY <4>1, <1>3
    <3>3. x \in T \ {y} /\ y \in T \ {x}
      BY <2>3, <3>1
    <3>4. h[T \ {y}] = f[x] + h[(T \ {y}) \ {x}] /\ h[T \ {x}] = f[y] + h[(T \ {x}) \ {y}]
      <4>1. T \ {x} \in SUBSET S /\ T \ {y} \in SUBSET S
        OBVIOUS
      <4> QED BY <4>1, <3>2, <3>3
    <3>5. (T \ {x}) \ {y} = (T \ {y}) \ {x}
      OBVIOUS
    <3>6. f[x] \in Int /\ f[y] \in Int /\ h[(T \ {x}) \ {y}] \in Int
      <4>1. (T \ {x}) \ {y} \in SUBSET S
        OBVIOUS
      <4> QED BY <4>1, <1>2
    <3>7. PICK a \in Int, b \in Int, n \in Int : a = f[x] /\ b = f[y] /\ n = h[(T \ {x}) \ {y}]
      BY <3>6
    <3>8. h[T] = b + (a + n) /\ h[T \ {x}] = b + n
      BY <3>a, <3>4, <3>5, <3>7
    <3>9. b + (a + n) = a + (b + n)
      OBVIOUS
    <3> QED BY <3>7, <3>8, <3>9
  <2> QED BY <2>2, <2>3
<1>7. Cardinality(S) \in Free
  <2> HIDE DEF Free
  <2>1. 0..Cardinality(S) \subseteq Free
    BY <1>3, <1>5, <1>6, InductionUpTo
  <2> QED BY <2>1, <1>3
<1>8. ASSUME NEW x \in S PROVE SumFunctionOnSet(f, S) = f[x] + SumFunctionOnSet(f, S \ {x})
  <2>1. h[S] = f[x] + h[S \ {x}]
    BY <1>3, <1>7
  <2>2. IsFiniteSet(S \ {x})
    BY <1>3
  <2>3. PICK k : Sums(k, f, S \ {x}) /\ SumFunctionOnSet(f, S \ {x}) = k[S \ {x}]
    BY <2>2, SumUnfolds
  <2>4. h[S \ {x}] = k[S \ {x}]
    BY <2>3, <1>2, SumsAgree DEF Sums
  <2> QED BY <2>1, <2>3, <2>4, <1>1
<1>9. S \in SUBSET S
  OBVIOUS
<1> QED BY <1>1, <1>2, <1>8, <1>9

(* The sum depends only on the values over the set.                        *)
LEMMA SumOfEqual ==
    ASSUME NEW S, IsFiniteSet(S), NEW f, NEW e, \A x \in S : f[x] \in Int /\ f[x] = e[x]
    PROVE  SumFunctionOnSet(f, S) = SumFunctionOnSet(e, S)
<1>1. PICK h : Sums(h, f, S) /\ SumFunctionOnSet(f, S) = h[S]
  BY SumUnfolds
<1>2. PICK k : Sums(k, e, S) /\ SumFunctionOnSet(e, S) = k[S]
  BY SumUnfolds
<1> QED BY <1>1, <1>2, SumsAgree DEF Sums

(* With no negative numbers, more elements have a sum that is not smaller. *)
LEMMA SumGrows ==
    ASSUME NEW S, IsFiniteSet(S), NEW f, \A x \in S : f[x] \in Nat, NEW A, A \subseteq S
    PROVE  SumFunctionOnSet(f, A) <= SumFunctionOnSet(f, S)
<1> DEFINE Sum(T) == SumFunctionOnSet(f, T)
           Below == {i \in Nat : \A T \in SUBSET S : A \subseteq T /\ Cardinality(T) <= i + Cardinality(A)
                                      => Sum(A) <= Sum(T)}
<1>1. \A T \in SUBSET S : IsFiniteSet(T) /\ Cardinality(T) \in Nat
  BY FS_Subset, FS_CardinalityType
<1>2. ASSUME NEW T \in SUBSET S
      PROVE  Sum(T) \in Int /\ \A x \in T : Sum(T) = f[x] + Sum(T \ {x})
  <2>1. IsFiniteSet(T) /\ \A x \in T : f[x] \in Int
    BY <1>1
  <2> QED BY <2>1, SumSplits
<1>3. A \in SUBSET S /\ S \in SUBSET S /\ Cardinality(A) \in Nat /\ Cardinality(S) \in Nat
  BY <1>1
<1> HIDE DEF Sum
<1>4. 0 \in Below
  <2> SUFFICES ASSUME NEW T \in SUBSET S, A \subseteq T, Cardinality(T) <= Cardinality(A)
               PROVE  Sum(A) <= Sum(T)
    BY <1>3
  <2>1. T = A
    BY <1>1, <1>3, FS_Subset
  <2> QED BY <2>1, <1>2
<1>5. \A i \in 1..Cardinality(S) : i - 1 \in Below => i \in Below
  <2> SUFFICES ASSUME NEW i \in 1..Cardinality(S), i - 1 \in Below, NEW T \in SUBSET S,
                      A \subseteq T, Cardinality(T) <= i + Cardinality(A)
               PROVE  Sum(A) <= Sum(T)
    BY <1>3
  <2>1. CASE T = A
    BY <2>1, <1>2
  <2>2. CASE T # A
    <3>1. PICK x \in T : x \notin A
      BY <2>2
    <3>2. Cardinality(T \ {x}) = Cardinality(T) - 1
      BY <1>1, FS_RemoveElement
    <3>3. A \subseteq T \ {x} /\ Cardinality(T \ {x}) <= (i - 1) + Cardinality(A)
      BY <3>1, <3>2, <1>1, <1>3
    <3>4. Sum(A) <= Sum(T \ {x})
      BY <3>3
    <3>5. Sum(T) = f[x] + Sum(T \ {x}) /\ f[x] \in Nat /\ Sum(T \ {x}) \in Int /\ Sum(A) \in Int
      BY <1>2, <1>3
    <3> QED BY <3>4, <3>5
  <2> QED BY <2>1, <2>2
<1>6. Cardinality(S) \in Below
  <2> HIDE DEF Below
  <2>1. 0..Cardinality(S) \subseteq Below
    BY <1>3, <1>4, <1>5, InductionUpTo
  <2> QED BY <2>1, <1>3
<1>7. Sum(A) <= Sum(S)
  BY <1>3, <1>6
<1> QED BY <1>7 DEF Sum

-----------------------------------------------------------------------------
(* The invariant of the matching loop. *)

EligibleAtStart == Abstract!Eligible(incoming, start.orders)

(* The first set of eligible orders is ahead of all the others.            *)
First(orders) == \A g \in orders, e \in EligibleAtStart \ orders : Abstract!Ahead(g, e)

(* The fills are one for each of some orders, of the given quantity and at *)
(* the order's price.                                                      *)
Served(got) ==
    /\ \A i \in 1..Len(fills) : \E o \in DOMAIN got :
          /\ fills[i].resting_order_id = o.id
          /\ fills[i].price_ticks = o.price_ticks
          /\ fills[i].quantity = got[o]
    /\ \A o \in DOMAIN got : \E i \in 1..Len(fills) : fills[i].resting_order_id = o.id
    /\ \A i, j \in 1..Len(fills) : fills[i].resting_order_id = fills[j].resting_order_id => i = j

(* Some orders are used up, and the others have not been touched...        *)
UsedUp(gone) ==
    /\ First(gone)
    /\ RestingOrders = start.orders \ gone
    /\ start.quantity = incoming.quantity + QuantityOf(gone)
    /\ Served([o \in gone |-> o.quantity])

(* ... or one more has lost a part, and the request is used up.            *)
PartlyUsed(gone, last, n) ==
    /\ First(gone) /\ First(gone \cup {last})
    /\ last \notin gone /\ n < last.quantity
    /\ RestingOrders = (start.orders \ (gone \cup {last}))
                         \cup {[last EXCEPT !.quantity = last.quantity - n]}
    /\ incoming.quantity = 0 /\ start.quantity = QuantityOf(gone) + n
    /\ Served([o \in gone \cup {last} |-> IF o = last THEN n ELSE o.quantity])

Progress ==
    \/ \E gone \in SUBSET EligibleAtStart : UsedUp(gone)
    \/ \E gone \in SUBSET EligibleAtStart, last \in EligibleAtStart, n \in Nat \ {0} :
          PartlyUsed(gone, last, n)

(* What is known of the book as it was at the beginning.                   *)
StartOK ==
    /\ start.orders \subseteq Order /\ IsFiniteSet(start.orders)
    /\ \A a, b \in start.orders : a.id = b.id => a = b
    /\ \A o \in start.orders : o.quantity > 0
    /\ start.quantity \in Nat

LoopInv ==
    /\ IsFiniteSet(RestingOrders)
    /\ incoming = NoOrder => fills = <<>>
    /\ incoming # NoOrder => /\ StartOK /\ Progress
                             /\ start.quantity = incoming.quantity + SumFunction(Traded)

-----------------------------------------------------------------------------
(* Sums of quantities. *)

(* The quantities of some orders add up.                                   *)
LEMMA QuantityAdds ==
    ASSUME NEW S, S \subseteq Order, IsFiniteSet(S)
    PROVE  /\ QuantityOf(S) \in Int
           /\ S = {} => QuantityOf(S) = 0
           /\ \A A \in SUBSET S : QuantityOf(A) \in Int /\ QuantityOf(A) <= QuantityOf(S)
           /\ \A x \in Order \ S : QuantityOf(S \cup {x}) = QuantityOf(S) + x.quantity
<1> DEFINE Q(T) == [o \in T |-> o.quantity]
<1>1. \A T : QuantityOf(T) = SumFunctionOnSet(Q(T), T)
  BY DEF QuantityOf, SumFunction
<1>2. \A o \in Order : o.quantity \in Nat /\ o.quantity \in Int
  BY DEF Order
<1>3. ASSUME NEW T, T \subseteq Order, IsFiniteSet(T)
      PROVE  QuantityOf(T) \in Int /\ (T = {} => QuantityOf(T) = 0)
  <2>1. \A o \in T : Q(T)[o] \in Int
    BY <1>2, <1>3
  <2> HIDE DEF Q
  <2> QED BY <2>1, <1>1, <1>3, SumSplits
<1>4. ASSUME NEW A \in SUBSET S PROVE QuantityOf(A) \in Int /\ QuantityOf(A) <= QuantityOf(S)
  <2>1. IsFiniteSet(A)
    BY FS_Subset
  <2>2. \A o \in S : Q(S)[o] \in Nat
    BY <1>2
  <2>3. \A o \in A : Q(A)[o] \in Int /\ Q(A)[o] = Q(S)[o]
    BY <1>2
  <2> HIDE DEF Q
  <2>4. SumFunctionOnSet(Q(A), A) = SumFunctionOnSet(Q(S), A)
    BY <2>1, <2>3, SumOfEqual
  <2>5. SumFunctionOnSet(Q(S), A) <= SumFunctionOnSet(Q(S), S)
    BY <2>2, SumGrows
  <2> QED BY <2>1, <2>4, <2>5, <1>1, <1>3
<1>5. ASSUME NEW x \in Order \ S PROVE QuantityOf(S \cup {x}) = QuantityOf(S) + x.quantity
  <2>1. PICK T : T = S \cup {x}
    OBVIOUS
  <2>2. IsFiniteSet(T) /\ T \ {x} = S /\ x \in T
    BY <2>1, FS_AddElement
  <2>3. \A o \in T : Q(T)[o] \in Int
    BY <2>1, <1>2
  <2>4. Q(T)[x] = x.quantity
    BY <2>2
  <2>5. \A o \in S : Q(S)[o] \in Int /\ Q(S)[o] = Q(T)[o]
    BY <2>1, <1>2
  <2> HIDE DEF Q
  <2>6. SumFunctionOnSet(Q(T), T) = x.quantity + SumFunctionOnSet(Q(T), S)
    BY <2>2, <2>3, <2>4, SumSplits
  <2>7. SumFunctionOnSet(Q(S), S) = SumFunctionOnSet(Q(T), S)
    BY <2>5, SumOfEqual
  <2>8. QuantityOf(T) = x.quantity + QuantityOf(S)
    BY <2>6, <2>7, <1>1
  <2>9. QuantityOf(S) \in Int /\ x.quantity \in Int
    BY <1>2, <1>3
  <2> QED BY <2>1, <2>8, <2>9
<1> QED BY <1>3, <1>4, <1>5

(* The traded quantities add up...                                         *)
LEMMA TradedTyped ==
    ASSUME fills \in Seq(Fill)
    PROVE  SumFunction(Traded) \in Int
<1>1. PICK t : t = Traded
  OBVIOUS
<1>2. Len(fills) \in Nat /\ DOMAIN t = 1..Len(fills) /\ IsFiniteSet(1..Len(fills))
  <2>1. Len(fills) \in Nat /\ DOMAIN fills = 1..Len(fills)
    OBVIOUS
  <2> QED BY <2>1, <1>1, FS_Interval DEF Traded
<1>3. \A i \in 1..Len(fills) : t[i] \in Int
  <2>1. \A i \in 1..Len(fills) : fills[i] \in Fill
    OBVIOUS
  <2> QED BY <2>1, <1>1 DEF Traded, Fill
<1>4. SumFunctionOnSet(t, 1..Len(fills)) \in Int
  BY <1>2, <1>3, SumSplits
<1> QED BY <1>1, <1>2, <1>4 DEF SumFunction

(* ... also when there is one fill more.                                   *)
LEMMA TradedAdds ==
    ASSUME fills \in Seq(Fill), NEW f \in Fill, fills' = Append(fills, f)
    PROVE  SumFunction(Traded)' = SumFunction(Traded) + f.quantity /\ SumFunction(Traded) \in Int
<1> DEFINE n == Len(fills)
           S == 1..n
           T == 1..(n + 1)
<1>1. n \in Nat /\ DOMAIN fills = S /\ \A i \in S : fills[i] \in Fill
  OBVIOUS
<1>2. PICK G : G = fills'
  OBVIOUS
<1>3. /\ DOMAIN G = T /\ G[n + 1] = f /\ \A i \in S : G[i] = fills[i]
  BY <1>1, <1>2, AppendProperties
<1>4. PICK t : t = [i \in S |-> fills[i].quantity]
  OBVIOUS
<1>5. PICK u : u = [i \in T |-> G[i].quantity]
  OBVIOUS
<1>6. SumFunction(Traded) = SumFunctionOnSet(t, S) /\ SumFunction(Traded)' = SumFunctionOnSet(u, T)
  <2>1. Traded = t /\ DOMAIN t = S
    BY <1>1, <1>4 DEF Traded
  <2>2. Traded' = u /\ DOMAIN u = T
    BY <1>2, <1>3, <1>5 DEF Traded
  <2> QED BY <2>1, <2>2 DEF SumFunction
<1>7. IsFiniteSet(S) /\ IsFiniteSet(T) /\ T \ {n + 1} = S /\ n + 1 \in T
  BY <1>1, FS_Interval
<1>8. \A q \in Fill : q.quantity \in Int
  BY DEF Fill
<1>9. (\A i \in S : t[i] \in Int /\ t[i] = u[i]) /\ \A i \in T : u[i] \in Int
  <2>1. \A i \in S : t[i] \in Int /\ t[i] = u[i]
    BY <1>1, <1>3, <1>4, <1>5, <1>8
  <2>2. u[n + 1] \in Int
    BY <1>3, <1>5, <1>7, <1>8
  <2> QED BY <2>1, <2>2, <1>1
<1>10. u[n + 1] = f.quantity /\ f.quantity \in Int
  BY <1>3, <1>5, <1>7, <1>8
<1> HIDE DEF S, T
<1>11. SumFunctionOnSet(u, T) = u[n + 1] + SumFunctionOnSet(u, S)
  BY <1>7, <1>9, SumSplits
<1>12. SumFunctionOnSet(t, S) = SumFunctionOnSet(u, S) /\ SumFunctionOnSet(t, S) \in Int
  BY <1>7, <1>9, SumOfEqual, SumSplits
<1> QED BY <1>6, <1>10, <1>11, <1>12

-----------------------------------------------------------------------------
(* The steps. *)

(* Eligible orders are on the other side, and one of two is not ahead of   *)
(* the other if the other is ahead of it.                                  *)
LEMMA EligibleFacts ==
    ASSUME incoming \in Order, StartOK
    PROVE  /\ EligibleAtStart \subseteq start.orders /\ EligibleAtStart \subseteq Order
           /\ IsFiniteSet(EligibleAtStart)
           /\ \A a, b \in EligibleAtStart : ~(Abstract!Ahead(a, b) /\ Abstract!Ahead(b, a))
<1>1. EligibleAtStart \subseteq start.orders /\ start.orders \subseteq Order
  BY DEF EligibleAtStart, Abstract!Eligible, StartOK
<1>2. IsFiniteSet(EligibleAtStart)
  BY <1>1, FS_Subset DEF StartOK
<1>3. ASSUME NEW a \in EligibleAtStart, NEW b \in EligibleAtStart,
             Abstract!Ahead(a, b), Abstract!Ahead(b, a)
      PROVE  FALSE
  <2>1. a \in Order /\ b \in Order /\ a.side # incoming.side /\ b.side # incoming.side
    BY <1>1 DEF EligibleAtStart, Abstract!Eligible
  <2>2. a.side = b.side
    BY <2>1 DEF Order, Sides
  <2>3. /\ a.price_ticks \in Int /\ b.price_ticks \in Int
        /\ a.timestamp \in Nat /\ b.timestamp \in Nat
    BY <2>1, PricesAssumption DEF Order, Prices
  <2> QED BY <1>3, <2>2, <2>3 DEF Abstract!Ahead
<1> QED BY <1>1, <1>2, <1>3

(* One more order is served.                                               *)
LEMMA OneMoreServed ==
    ASSUME fills \in Seq(Fill), NEW f \in Fill, fills' = Append(fills, f),
           NEW got, Served(got), NEW m, m \notin DOMAIN got,
           \A o \in DOMAIN got : o.id # m.id,
           NEW more, DOMAIN more = DOMAIN got \cup {m},
           \A o \in DOMAIN got : more[o] = got[o],
           f.resting_order_id = m.id, f.price_ticks = m.price_ticks, f.quantity = more[m]
    PROVE  Served(more)'
<1>1. PICK G : G = fills'
  OBVIOUS
<1>2. /\ Len(fills) \in Nat /\ Len(G) = Len(fills) + 1
      /\ G[Len(fills) + 1] = f /\ \A i \in 1..Len(fills) : G[i] = fills[i]
  BY <1>1, AppendProperties
<1>3. ASSUME NEW i \in 1..Len(G)
      PROVE  \E o \in DOMAIN more : /\ G[i].resting_order_id = o.id
                                    /\ G[i].price_ticks = o.price_ticks
                                    /\ G[i].quantity = more[o]
  <2>1. CASE i = Len(fills) + 1
    BY <2>1, <1>2
  <2>2. CASE i # Len(fills) + 1
    <3>1. i \in 1..Len(fills)
      BY <2>2, <1>2
    <3>2. PICK o \in DOMAIN got : /\ fills[i].resting_order_id = o.id
                                  /\ fills[i].price_ticks = o.price_ticks
                                  /\ fills[i].quantity = got[o]
      BY <3>1 DEF Served
    <3> QED BY <3>1, <3>2, <1>2
  <2> QED BY <2>1, <2>2
<1>4. ASSUME NEW o \in DOMAIN more PROVE \E i \in 1..Len(G) : G[i].resting_order_id = o.id
  <2>1. CASE o = m
    <3>1. Len(fills) + 1 \in 1..Len(G)
      BY <1>2
    <3> QED BY <3>1, <2>1, <1>2
  <2>2. CASE o # m
    <3>1. PICK i \in 1..Len(fills) : fills[i].resting_order_id = o.id
      BY <2>2 DEF Served
    <3>2. i \in 1..Len(G)
      BY <1>2
    <3> QED BY <3>1, <3>2, <1>2
  <2> QED BY <2>1, <2>2
<1>5. ASSUME NEW i \in 1..Len(G), NEW j \in 1..Len(G),
             G[i].resting_order_id = G[j].resting_order_id
      PROVE  i = j
  <2>1. \A k \in 1..Len(fills) : fills[k].resting_order_id # m.id
    BY DEF Served
  <2>2. \A k \in 1..Len(G) : k \in 1..Len(fills) \/ k = Len(fills) + 1
    BY <1>2
  <2>3. CASE i \in 1..Len(fills) /\ j \in 1..Len(fills)
    BY <2>3, <1>2, <1>5 DEF Served
  <2>4. CASE i = Len(fills) + 1 \/ j = Len(fills) + 1
    BY <2>1, <2>2, <2>4, <1>2, <1>5
  <2> QED BY <2>2, <2>3, <2>4
<1> QED BY <1>1, <1>3, <1>4, <1>5 DEF Served

(* An iteration of the matching loop.                                      *)
LEMMA TradeProgresses ==
    ASSUME BookInv, LoopInv, NEW m, NEW n, Abstract!Trade(m, n), start' = start
    PROVE  LoopInv'
<1> DEFINE E == EligibleAtStart
           Q == incoming.quantity
<1>0. /\ incoming \in Order /\ incoming # NoOrder /\ fills \in Seq(Fill) /\ next_timestamp \in Nat
      /\ RestingOrders \subseteq Order
  BY BookInvParts, RestingIds DEF LocalsOK, Abstract!Trade
<1>1. /\ StartOK /\ Progress /\ IsFiniteSet(RestingOrders)
      /\ start.quantity = Q + SumFunction(Traded)
  BY <1>0 DEF LoopInv
<1>2. /\ m \in Abstract!Eligible(incoming, RestingOrders) /\ m \in RestingOrders /\ m \in Order
      /\ \A o \in Abstract!Eligible(incoming, RestingOrders) \ {m} : Abstract!Ahead(m, o)
  BY <1>0 DEF Abstract!Trade, Abstract!Eligible
<1>3. /\ Q \in Nat /\ m.quantity \in Nat /\ n \in Nat /\ n > 0 /\ n <= Q /\ n <= m.quantity
      /\ n = Q \/ n = m.quantity
  BY <1>0, <1>2 DEF Abstract!Trade, Order
<1>4. PICK f : f = [resting_order_id  |-> m.id,
                    incoming_order_id |-> incoming.id,
                    resting_side      |-> m.side,
                    price_ticks       |-> m.price_ticks,
                    quantity          |-> n,
                    timestamp         |-> next_timestamp]
  OBVIOUS
<1>5. /\ f \in Fill /\ fills' = Append(fills, f)
      /\ f.resting_order_id = m.id /\ f.price_ticks = m.price_ticks /\ f.quantity = n
  BY <1>0, <1>2, <1>3, <1>4 DEF Abstract!Trade, Fill, Order
<1>6. PICK after : after = incoming'
  OBVIOUS
<1>7. /\ after \in Order /\ after # NoOrder /\ after.quantity = Q - n /\ after.side = incoming.side
      /\ after.type = incoming.type /\ after.price_ticks = incoming.price_ticks
  <2>1. after = [incoming EXCEPT !.quantity = Q - n] /\ Q - n \in Nat
    BY <1>3, <1>6 DEF Abstract!Trade
  <2>2. after \in Order
    BY <2>1, <1>0 DEF Order
  <2> QED BY <2>1, <2>2, <1>0, NoOrderAssumption DEF Order
<1>8. EligibleAtStart' = E
  BY <1>6, <1>7 DEF EligibleAtStart, Abstract!Eligible
<1>9. PICK gone \in SUBSET E : UsedUp(gone)
  <2>1. \A gone, last, k : ~PartlyUsed(gone, last, k)
    BY <1>3 DEF PartlyUsed
  <2> QED BY <2>1, <1>1, Zenon DEF Progress
<1>10. /\ First(gone) /\ RestingOrders = start.orders \ gone
       /\ start.quantity = Q + QuantityOf(gone) /\ Served([o \in gone |-> o.quantity])
  BY <1>9 DEF UsedUp
<1>11. Abstract!Eligible(incoming, RestingOrders) = E \ gone
  BY <1>10 DEF EligibleAtStart, Abstract!Eligible
<1>12. /\ E \subseteq start.orders /\ start.orders \subseteq Order /\ IsFiniteSet(gone)
       /\ gone \subseteq Order
  BY <1>0, <1>1, <1>9, EligibleFacts, FS_Subset DEF StartOK
<1>13. m \in E \ gone /\ \A o \in gone : o.id # m.id
  <2>1. m \in E \ gone
    BY <1>2, <1>11
  <2> QED BY <2>1, <1>1, <1>9, <1>12 DEF StartOK
<1>14. First(gone \cup {m})
  <2>1. ASSUME NEW g \in gone \cup {m}, NEW e \in E \ (gone \cup {m}) PROVE Abstract!Ahead(g, e)
    <3>1. CASE g \in gone
      BY <3>1, <1>10 DEF First
    <3>2. CASE g = m
      BY <3>2, <1>2, <1>11
    <3> QED BY <3>1, <3>2
  <2> QED BY <2>1 DEF First
<1>15. \A S : First(S)' <=> First(S)
  BY <1>8 DEF First
<1>16. StartOK'
  BY <1>1 DEF StartOK
<1>17. start'.quantity = incoming'.quantity + SumFunction(Traded)'
  <2>1. SumFunction(Traded)' = SumFunction(Traded) + n /\ SumFunction(Traded) \in Int
    BY <1>0, <1>5, TradedAdds
  <2> QED BY <2>1, <1>1, <1>3, <1>6, <1>7
<1>18. RestingOrders' = (RestingOrders \ {m}) \cup
          (IF n = m.quantity THEN {} ELSE {[m EXCEPT !.quantity = m.quantity - n]})
  BY DEF Abstract!Trade
<1>19. IsFiniteSet(RestingOrders')
  <2>1. IsFiniteSet(RestingOrders \ {m})
    BY <1>1, FS_RemoveElement
  <2>2. IsFiniteSet((RestingOrders \ {m}) \cup {[m EXCEPT !.quantity = m.quantity - n]})
    BY <2>1, FS_AddElement
  <2> QED BY <2>1, <2>2, <1>18
<1>20. QuantityOf(gone) \in Int /\ QuantityOf(gone \cup {m}) = QuantityOf(gone) + m.quantity
  BY <1>2, <1>12, <1>13, QuantityAdds
<1>21. CASE n = m.quantity
  <2>1. RestingOrders' = start.orders \ (gone \cup {m})
    BY <1>10, <1>18, <1>21
  <2>2. start'.quantity = incoming'.quantity + QuantityOf(gone \cup {m})
    BY <1>3, <1>6, <1>7, <1>10, <1>20, <1>21
  <2>3. Served([o \in gone \cup {m} |-> o.quantity])'
    <3>1. PICK got : got = [o \in gone |-> o.quantity]
      OBVIOUS
    <3>2. PICK more : more = [o \in gone \cup {m} |-> o.quantity]
      OBVIOUS
    <3>3. /\ Served(got) /\ DOMAIN got = gone /\ DOMAIN more = gone \cup {m}
          /\ more[m] = n /\ \A o \in DOMAIN got : more[o] = got[o]
      BY <3>1, <3>2, <1>10, <1>21
    <3>4. Served(more)'
      BY <3>3, <1>0, <1>5, <1>13, OneMoreServed
    <3> QED BY <3>2, <3>4
  <2>4. UsedUp(gone \cup {m})'
    BY <2>1, <2>2, <2>3, <1>14, <1>15 DEF UsedUp, QuantityOf
  <2>5. gone \cup {m} \in SUBSET E
    BY <1>9, <1>13
  <2>6. Progress'
    BY <2>4, <2>5, <1>8 DEF Progress
  <2> QED BY <2>6, <1>6, <1>7, <1>16, <1>17, <1>19 DEF LoopInv
<1>22. CASE n # m.quantity
  <2>1. RestingOrders' = (start.orders \ (gone \cup {m})) \cup {[m EXCEPT !.quantity = m.quantity - n]}
    BY <1>10, <1>18, <1>22
  <2>2. incoming'.quantity = 0 /\ start'.quantity = QuantityOf(gone) + n /\ n < m.quantity
    BY <1>3, <1>6, <1>7, <1>10, <1>20, <1>22
  <2>3. Served([o \in gone \cup {m} |-> IF o = m THEN n ELSE o.quantity])'
    <3>1. PICK got : got = [o \in gone |-> o.quantity]
      OBVIOUS
    <3>2. PICK more : more = [o \in gone \cup {m} |-> IF o = m THEN n ELSE o.quantity]
      OBVIOUS
    <3>3. /\ Served(got) /\ DOMAIN got = gone /\ DOMAIN more = gone \cup {m}
          /\ more[m] = n /\ \A o \in DOMAIN got : more[o] = got[o]
      BY <3>1, <3>2, <1>10, <1>13
    <3>4. Served(more)'
      BY <3>3, <1>0, <1>5, <1>13, OneMoreServed
    <3> QED BY <3>2, <3>4
  <2>4. PartlyUsed(gone, m, n)'
    BY <2>1, <2>2, <2>3, <1>10, <1>13, <1>14, <1>15 DEF PartlyUsed, QuantityOf
  <2>5. Progress'
    BY <2>4, <1>3, <1>8, <1>9, <1>13 DEF Progress
  <2> QED BY <2>5, <1>6, <1>7, <1>16, <1>17, <1>19 DEF LoopInv
<1> QED BY <1>21, <1>22

(* A submit begins: nothing is used up.                                    *)
LEMMA BeginProgresses ==
    ASSUME BookInv, LoopInv, NEW id \in OrderIds, NEW side \in Sides, NEW type \in OrderTypes,
           NEW price \in Prices, NEW quantity \in Quantities,
           MCSubmit(id, side, type, price, quantity)
    PROVE  LoopInv'
<1>1. /\ incoming = NoOrder /\ fills = <<>> /\ fills' = <<>> /\ RestingOrders' = RestingOrders
      /\ start' = [orders |-> RestingOrders, quantity |-> quantity] /\ IsFiniteSet(RestingOrders)
  BY DEF LoopInv, MCSubmit, SubmitBegin, RestingOrders
<1>2. incoming' \in Order /\ incoming'.quantity = quantity /\ quantity \in Nat
  <2>1. quantity \in Nat /\ next_timestamp \in Nat
    BY QuantitiesAssumption, BookInvParts DEF LocalsOK
  <2> QED BY <2>1 DEF MCSubmit, SubmitBegin, Order
<1>3. LadderInv
  BY BookInvParts
<1>4. StartOK'
  <2>1. RestingOrders \subseteq Order /\ \A a, b \in RestingOrders : a.id = b.id => a = b
    BY <1>3, RestingIds
  <2>2. \A o \in RestingOrders : o.quantity > 0
    BY <1>3, RestingMember DEF LadderInv, RestingIsLive
  <2>3. start'.orders = RestingOrders /\ start'.quantity = quantity
    BY <1>1
  <2> QED BY <2>1, <2>2, <2>3, <1>1, <1>2 DEF StartOK
<1>5. QuantityOf({}) = 0
  BY FS_EmptySet, QuantityAdds
<1>6. UsedUp({})'
  <2>1. First({})'
    BY DEF First
  <2>2. RestingOrders' = start'.orders \ {}
    BY <1>1
  <2>3. start'.quantity = incoming'.quantity + QuantityOf({})
    BY <1>1, <1>2, <1>5
  <2>4. Served([o \in {} |-> o.quantity])'
    BY <1>1 DEF Served
  <2> QED BY <2>1, <2>2, <2>3, <2>4 DEF UsedUp, QuantityOf
<1>7. Progress'
  BY <1>6 DEF Progress
<1>8. SumFunction(Traded)' = 0
  <2>1. PICK t : t = Traded'
    OBVIOUS
  <2>2. DOMAIN t = {}
    BY <2>1, <1>1 DEF Traded
  <2>3. SumFunctionOnSet(t, {}) = 0
    BY FS_EmptySet, SumSplits
  <2> QED BY <2>1, <2>2, <2>3 DEF SumFunction
<1>9. start'.quantity = incoming'.quantity + SumFunction(Traded)'
  BY <1>1, <1>2, <1>8
<1> QED BY <1>1, <1>2, <1>4, <1>7, <1>9, NoOrderAssumption DEF LoopInv

(* The invariant of the loop is kept by every step.                        *)
LEMMA NextLoopInv == BookInv /\ LoopInv /\ [MCNext]_vars => LoopInv'
<1> SUFFICES ASSUME BookInv, LoopInv, [MCNext]_vars PROVE LoopInv'
  OBVIOUS
<1>1. ASSUME NEW id \in OrderIds, NEW side \in Sides, NEW type \in OrderTypes,
             NEW price \in Prices, NEW quantity \in Quantities,
             MCSubmit(id, side, type, price, quantity)
      PROVE  LoopInv'
  BY <1>1, BeginProgresses
<1>2. CASE MatchOne /\ UNCHANGED start
  <2>1. PICK m, n : Abstract!Trade(m, n)
    BY <1>2, MatchOneRefines
  <2> QED BY <2>1, <1>2, TradeProgresses
<1>3. CASE Return /\ start' = NoStart
  <2>1. Abstract!Done
    BY <1>3, ReturnRefines
  <2>2. IsFiniteSet(RestingOrders \cup {incoming}) /\ IsFiniteSet(RestingOrders)
    BY FS_AddElement DEF LoopInv
  <2>3. IsFiniteSet(RestingOrders')
    BY <2>1, <2>2 DEF Abstract!Done
  <2> QED BY <2>3, <1>3 DEF LoopInv, Return
<1>4. ASSUME NEW id \in OrderIds, SubmitDuplicate(id) \/ CancelNotFound(id) PROVE LoopInv'
  <2>1. RestingOrders' = RestingOrders
    BY <1>4 DEF SubmitDuplicate, CancelNotFound, RestingOrders
  <2>2. incoming = NoOrder /\ incoming' = incoming /\ fills' = fills
    BY <1>4 DEF SubmitDuplicate, CancelNotFound
  <2> QED BY <2>1, <2>2 DEF LoopInv
<1>5. ASSUME NEW id \in OrderIds, CancelFound(id) PROVE LoopInv'
  <2>1. RestingOrders' = {o \in RestingOrders : o.id # id}
    BY <1>5, CancelFoundRefines DEF Abstract!Cancel
  <2>2. IsFiniteSet(RestingOrders')
    BY <2>1, FS_Subset DEF LoopInv
  <2> QED BY <2>2, <1>5 DEF LoopInv, CancelFound
<1>6. CASE UNCHANGED vars
  <2>1. /\ RestingOrders' = RestingOrders /\ Traded' = Traded
        /\ UNCHANGED <<incoming, fills, start>>
    BY <1>6 DEF vars, RestingOrders, Traded
  <2>2. EligibleAtStart' = EligibleAtStart
    BY <2>1 DEF EligibleAtStart, Abstract!Eligible
  <2>3. StartOK' = StartOK /\ (\A S : First(S)' <=> First(S)) /\ (\A got : Served(got)' <=> Served(got))
    BY <2>1, <2>2 DEF StartOK, First, Served
  <2>4. /\ \A gone : UsedUp(gone) => UsedUp(gone)'
        /\ \A gone, last, n : PartlyUsed(gone, last, n) => PartlyUsed(gone, last, n)'
    BY <2>1, <2>3 DEF UsedUp, PartlyUsed, QuantityOf
  <2>5. Progress => Progress'
    BY <2>2, <2>4, Zenon DEF Progress
  <2> QED BY <2>1, <2>3, <2>5 DEF LoopInv, StartOK, SumFunction
<1> QED BY <1>1, <1>2, <1>3, <1>4, <1>5, <1>6 DEF MCNext

-----------------------------------------------------------------------------
(* The end of the loop. *)

(* The fills of an order, when each order has one.                         *)
LEMMA FilledIsServed ==
    ASSUME StartOK, fills \in Seq(Fill), NEW got, Served(got), DOMAIN got \subseteq start.orders,
           NEW o \in start.orders
    PROVE  FilledFor(o.id) = IF o \in DOMAIN got THEN got[o] ELSE 0
<1>1. PICK t : t = Traded
  OBVIOUS
<1>2. /\ Len(fills) \in Nat /\ DOMAIN fills = 1..Len(fills) /\ DOMAIN t = 1..Len(fills)
      /\ \A i \in 1..Len(fills) : fills[i] \in Fill /\ t[i] = fills[i].quantity
  BY <1>1 DEF Traded
<1>3. \A i \in 1..Len(fills) : t[i] \in Int
  BY <1>2 DEF Fill
<1>4. PICK S : S = {i \in 1..Len(fills) : fills[i].resting_order_id = o.id}
  OBVIOUS
<1>5. FilledFor(o.id) = SumFunctionOnSet(t, S)
  BY <1>1, <1>2, <1>4 DEF FilledFor
<1>6. \A a, b \in start.orders : a.id = b.id => a = b
  BY DEF StartOK
<1>7. CASE o \in DOMAIN got
  <2>1. PICK i \in 1..Len(fills) : fills[i].resting_order_id = o.id
    BY <1>7 DEF Served
  <2>2. S = {i} /\ S \ {i} = {}
    BY <2>1, <1>4 DEF Served
  <2>3. t[i] = got[o]
    <3>1. PICK e \in DOMAIN got : fills[i].resting_order_id = e.id /\ fills[i].quantity = got[e]
      BY DEF Served
    <3>2. e = o
      BY <3>1, <2>1, <1>6
    <3> QED BY <3>1, <3>2, <1>2
  <2>4. IsFiniteSet(S) /\ IsFiniteSet({}) /\ \A j \in S : t[j] \in Int
    BY <2>2, <1>3, FS_Singleton, FS_EmptySet
  <2>5. SumFunctionOnSet(t, S) = t[i] + SumFunctionOnSet(t, S \ {i})
    BY <2>2, <2>4, SumSplits
  <2>6. SumFunctionOnSet(t, {}) = 0
    BY <2>4, SumSplits
  <2>7. t[i] \in Int
    BY <1>3
  <2>8. SumFunctionOnSet(t, S) = t[i]
    <3>1. SumFunctionOnSet(t, S \ {i}) = 0
      BY <2>2, <2>6, Zenon
    <3>2. SumFunctionOnSet(t, S) = t[i] + 0
      BY <3>1, <2>5, Zenon
    <3> QED BY <3>2, <2>7
  <2> QED BY <2>3, <2>8, <1>5, <1>7
<1>8. CASE o \notin DOMAIN got
  <2>1. S = {}
    <3>1. ASSUME NEW i \in S PROVE FALSE
      <4>1. i \in 1..Len(fills) /\ fills[i].resting_order_id = o.id
        BY <3>1, <1>4
      <4>2. PICK e \in DOMAIN got : fills[i].resting_order_id = e.id
        BY <4>1 DEF Served
      <4> QED BY <4>1, <4>2, <1>6, <1>8
    <3> QED BY <3>1
  <2>2. SumFunctionOnSet(t, {}) = 0
    BY FS_EmptySet, SumSplits
  <2> QED BY <2>1, <2>2, <1>5, <1>8
<1> QED BY <1>7, <1>8

(* The share of an order, by the quantity of the orders ahead of it.       *)
LEMMA AllocationIs ==
    ASSUME incoming \in Order, StartOK, NEW o \in EligibleAtStart,
           NEW ahead, ahead = QuantityOf({e \in EligibleAtStart : Abstract!Ahead(e, o)})
    PROVE  /\ ahead \in Int
           /\ start.quantity - ahead >= o.quantity => Allocation(o) = o.quantity
           /\ start.quantity - ahead <= 0 => Allocation(o) = 0
           /\ \A n \in Nat : n = start.quantity - ahead /\ n < o.quantity => Allocation(o) = n
<1>1. o \in Order /\ o.quantity \in Nat /\ start.quantity \in Nat
  BY EligibleFacts DEF StartOK, Order
<1>2. ahead \in Int
  BY EligibleFacts, QuantityAdds
<1>3. PICK left \in Int : left = start.quantity - ahead
  <2>1. start.quantity - ahead \in Int
    BY <1>1, <1>2
  <2> QED BY <2>1, Zenon
<1>4. Allocation(o) = Max({0, Min({o.quantity, left})})
  BY <1>3 DEF Allocation, EligibleAtStart
<1>5. \A a, b \in Int : Min({a, b}) = IF a <= b THEN a ELSE b
  BY DEF Min
<1>6. \A a, b \in Int : Max({a, b}) = IF a >= b THEN a ELSE b
  BY DEF Max
<1>7. Min({o.quantity, left}) = IF o.quantity <= left THEN o.quantity ELSE left
  BY <1>1, <1>5
<1>8. Allocation(o) = IF 0 >= (IF o.quantity <= left THEN o.quantity ELSE left) THEN 0
                      ELSE IF o.quantity <= left THEN o.quantity ELSE left
  BY <1>1, <1>4, <1>6, <1>7
<1> QED BY <1>1, <1>2, <1>3, <1>8

(* Orders that go before all others get all they have, if the request is   *)
(* large enough for them.                                                  *)
LEMMA FirstGetAll ==
    ASSUME incoming \in Order, StartOK, NEW gone \in SUBSET EligibleAtStart, First(gone),
           QuantityOf(gone) <= start.quantity, NEW o \in gone
    PROVE  Allocation(o) = o.quantity
<1> DEFINE A == {e \in EligibleAtStart : Abstract!Ahead(e, o)}
<1>1. /\ EligibleAtStart \subseteq Order /\ IsFiniteSet(EligibleAtStart)
      /\ \A a, b \in EligibleAtStart : ~(Abstract!Ahead(a, b) /\ Abstract!Ahead(b, a))
  BY EligibleFacts
<1>2. A \subseteq gone /\ o \notin A /\ A \cup {o} \subseteq gone
  BY <1>1 DEF First
<1>3. IsFiniteSet(gone) /\ gone \subseteq Order /\ IsFiniteSet(A) /\ A \subseteq Order /\ o \in Order
  BY <1>1, FS_Subset
<1> HIDE DEF A
<1>4. QuantityOf(A \cup {o}) <= QuantityOf(gone) /\ QuantityOf(gone) \in Int
  BY <1>2, <1>3, QuantityAdds
<1>5. QuantityOf(A \cup {o}) = QuantityOf(A) + o.quantity /\ QuantityOf(A) \in Int
  BY <1>2, <1>3, QuantityAdds
<1>6. start.quantity - QuantityOf(A) >= o.quantity
  BY <1>3, <1>4, <1>5 DEF StartOK, Order
<1> QED BY <1>6, AllocationIs DEF A

(* Orders behind those that take all of the request get nothing.           *)
LEMMA OthersGetNothing ==
    ASSUME incoming \in Order, StartOK, NEW gone \in SUBSET EligibleAtStart, First(gone),
           start.quantity <= QuantityOf(gone), NEW o \in EligibleAtStart, o \notin gone
    PROVE  Allocation(o) = 0
<1> DEFINE A == {e \in EligibleAtStart : Abstract!Ahead(e, o)}
<1>1. EligibleAtStart \subseteq Order /\ IsFiniteSet(EligibleAtStart)
  BY EligibleFacts
<1>2. gone \subseteq A
  BY DEF First
<1>3. IsFiniteSet(A) /\ A \subseteq Order
  BY <1>1, FS_Subset
<1> HIDE DEF A
<1>4. QuantityOf(gone) <= QuantityOf(A) /\ QuantityOf(gone) \in Int /\ QuantityOf(A) \in Int
  BY <1>2, <1>3, QuantityAdds
<1>5. start.quantity - QuantityOf(A) <= 0
  BY <1>4 DEF StartOK
<1> QED BY <1>5, AllocationIs DEF A

(* The order that is used in part gets what is left for it.                *)
LEMMA LastGetsRest ==
    ASSUME incoming \in Order, StartOK, NEW gone \in SUBSET EligibleAtStart, First(gone),
           NEW last \in EligibleAtStart, last \notin gone, First(gone \cup {last}),
           NEW n \in Nat, n < last.quantity, start.quantity = QuantityOf(gone) + n
    PROVE  Allocation(last) = n
<1> DEFINE A == {e \in EligibleAtStart : Abstract!Ahead(e, last)}
<1>1. /\ EligibleAtStart \subseteq Order /\ IsFiniteSet(EligibleAtStart)
      /\ \A a, b \in EligibleAtStart : ~(Abstract!Ahead(a, b) /\ Abstract!Ahead(b, a))
  BY EligibleFacts
<1>2. A = gone
  <2>1. gone \subseteq A
    BY DEF First
  <2>2. A \subseteq gone
    BY <1>1 DEF First
  <2> QED BY <2>1, <2>2
<1>3. QuantityOf(gone) \in Int
  BY <1>1, FS_Subset, QuantityAdds
<1>4. n = start.quantity - QuantityOf(A)
  <2> HIDE DEF A
  <2> QED BY <1>2, <1>3
<1> QED BY <1>4, AllocationIs

(* The fills are those of some orders, one each.                           *)
LEMMA SomeServed ==
    ASSUME BookInv, LoopInv, incoming # NoOrder
    PROVE  \E got : Served(got) /\ DOMAIN got \subseteq start.orders
<1>1. incoming \in Order /\ StartOK /\ Progress
  BY BookInvParts DEF LocalsOK, LoopInv
<1>2. EligibleAtStart \subseteq start.orders
  BY <1>1, EligibleFacts
<1>3. ASSUME NEW gone \in SUBSET EligibleAtStart, UsedUp(gone)
      PROVE  \E got : Served(got) /\ DOMAIN got \subseteq start.orders
  <2>1. PICK got : got = [e \in gone |-> e.quantity]
    OBVIOUS
  <2>2. Served(got) /\ DOMAIN got \subseteq start.orders
    BY <2>1, <1>2, <1>3 DEF UsedUp
  <2> QED BY <2>2
<1>4. ASSUME NEW gone \in SUBSET EligibleAtStart, NEW last \in EligibleAtStart, NEW n \in Nat \ {0},
             PartlyUsed(gone, last, n)
      PROVE  \E got : Served(got) /\ DOMAIN got \subseteq start.orders
  <2>1. PICK got : got = [e \in gone \cup {last} |-> IF e = last THEN n ELSE e.quantity]
    OBVIOUS
  <2>2. Served(got) /\ DOMAIN got \subseteq start.orders
    BY <2>1, <1>2, <1>4 DEF PartlyUsed
  <2> QED BY <2>2
<1> QED BY <1>1, <1>3, <1>4, Zenon DEF Progress

(* When the loop ends, each order has got its share and has the rest left. *)
LEMMA LoopEndAllocates ==
    ASSUME BookInv, LoopInv, incoming # NoOrder, ~CanMatch, NEW o \in start.orders
    PROVE  /\ FilledFor(o.id) = Allocation(o)
           /\ {r.quantity : r \in {r \in RestingOrders : r.id = o.id}}
                 = {o.quantity - Allocation(o)} \ {0}
           /\ \A i \in DOMAIN fills : fills[i].resting_order_id = o.id =>
                  fills[i].price_ticks = o.price_ticks
<1> DEFINE E == EligibleAtStart
           Left == {r.quantity : r \in {r \in RestingOrders : r.id = o.id}}
<1>0. /\ incoming \in Order /\ fills \in Seq(Fill) /\ DOMAIN fills = 1..Len(fills)
      /\ incoming.quantity \in Nat
  <2>1. incoming \in Order /\ fills \in Seq(Fill)
    BY BookInvParts DEF LocalsOK
  <2> QED BY <2>1 DEF Order
<1>1. /\ StartOK /\ Progress /\ start.orders \subseteq Order
      /\ \A a, b \in start.orders : a.id = b.id => a = b
  BY DEF LoopInv, StartOK
<1>2. o \in Order /\ o.quantity \in Nat /\ o.quantity > 0
  BY <1>1 DEF StartOK, Order
<1>3. E \subseteq start.orders /\ E \subseteq Order /\ IsFiniteSet(E)
  BY <1>0, <1>1, EligibleFacts
<1>4. o \notin E => Allocation(o) = 0
  BY DEF Allocation, EligibleAtStart
<1>5. ASSUME NEW got, Served(got), DOMAIN got \subseteq start.orders
      PROVE  /\ FilledFor(o.id) = IF o \in DOMAIN got THEN got[o] ELSE 0
             /\ \A i \in DOMAIN fills : fills[i].resting_order_id = o.id =>
                    fills[i].price_ticks = o.price_ticks
  <2>1. FilledFor(o.id) = IF o \in DOMAIN got THEN got[o] ELSE 0
    BY <1>0, <1>1, <1>5, FilledIsServed
  <2>2. ASSUME NEW i \in DOMAIN fills, fills[i].resting_order_id = o.id
        PROVE  fills[i].price_ticks = o.price_ticks
    <3>1. PICK e \in DOMAIN got : /\ fills[i].resting_order_id = e.id
                                  /\ fills[i].price_ticks = e.price_ticks
      BY <1>0, <1>5 DEF Served
    <3>2. e = o
      BY <3>1, <2>2, <1>1, <1>5
    <3> QED BY <3>1, <3>2
  <2> QED BY <2>1, <2>2
<1>6. ASSUME NEW gone \in SUBSET E, UsedUp(gone)
      PROVE  FilledFor(o.id) = Allocation(o) /\ Left = {o.quantity - Allocation(o)} \ {0}
  <2>1. /\ First(gone) /\ RestingOrders = start.orders \ gone
        /\ start.quantity = incoming.quantity + QuantityOf(gone)
    BY <1>6 DEF UsedUp
  <2>2. QuantityOf(gone) \in Int /\ start.quantity \in Nat
    BY <1>1, <1>3, FS_Subset, QuantityAdds DEF StartOK
  <2>3. PICK got : got = [e \in gone |-> e.quantity]
    OBVIOUS
  <2>4. Served(got) /\ DOMAIN got = gone /\ DOMAIN got \subseteq start.orders
        /\ \A e \in gone : got[e] = e.quantity
    BY <1>3, <1>6, <2>3 DEF UsedUp
  <2>5. FilledFor(o.id) = IF o \in gone THEN o.quantity ELSE 0
    BY <1>5, <2>4
  <2>6. \A r \in RestingOrders : r.id = o.id => r = o
    BY <1>1, <2>1
  <2>7. CASE o \in gone
    <3>1. Allocation(o) = o.quantity
      BY <1>0, <1>1, <2>1, <2>2, <2>7, FirstGetAll
    <3>2. Left = {}
      BY <2>1, <2>6, <2>7
    <3> QED BY <3>1, <3>2, <2>5, <2>7, <1>2
  <2>8. CASE o \notin gone
    <3>1. Allocation(o) = 0
      <4>1. CASE o \notin E
        BY <4>1, <1>4
      <4>2. CASE o \in E
        <5>1. o \in Abstract!Eligible(incoming, RestingOrders)
          BY <4>2, <2>1, <2>8 DEF EligibleAtStart, Abstract!Eligible
        <5>2. incoming.quantity = 0
          BY <5>1, LoopLeavesNothing
        <5>3. start.quantity <= QuantityOf(gone)
          BY <5>2, <2>1, <2>2
        <5> QED BY <5>3, <4>2, <2>1, <2>8, <1>0, <1>1, OthersGetNothing
      <4> QED BY <4>1, <4>2
    <3>2. Left = {o.quantity}
      BY <2>1, <2>6, <2>8
    <3>3. {o.quantity - 0} \ {0} = {o.quantity}
      BY <1>2
    <3> QED BY <3>1, <3>2, <3>3, <2>5, <2>8
  <2> QED BY <2>7, <2>8
<1>7. ASSUME NEW gone \in SUBSET E, NEW last \in E, NEW n \in Nat \ {0}, PartlyUsed(gone, last, n)
      PROVE  FilledFor(o.id) = Allocation(o) /\ Left = {o.quantity - Allocation(o)} \ {0}
  <2>1. PICK part : part = [last EXCEPT !.quantity = last.quantity - n]
    OBVIOUS
  <2>2. /\ First(gone) /\ First(gone \cup {last}) /\ last \notin gone /\ n < last.quantity
        /\ RestingOrders = (start.orders \ (gone \cup {last})) \cup {part}
        /\ start.quantity = QuantityOf(gone) + n
    BY <1>7, <2>1 DEF PartlyUsed
  <2>3. last \in Order /\ last.quantity \in Nat /\ part.id = last.id /\ part.quantity = last.quantity - n
    BY <2>1, <1>3 DEF Order
  <2>4. /\ QuantityOf(gone) \in Int /\ QuantityOf(gone \cup {last}) = QuantityOf(gone) + last.quantity
        /\ start.quantity \in Nat
    <3>1. IsFiniteSet(gone) /\ gone \subseteq Order
      BY <1>3, FS_Subset
    <3> QED BY <3>1, <2>2, <2>3, <1>1, QuantityAdds DEF StartOK
  <2>5. PICK got : got = [e \in gone \cup {last} |-> IF e = last THEN n ELSE e.quantity]
    OBVIOUS
  <2>6. Served(got) /\ DOMAIN got = gone \cup {last} /\ DOMAIN got \subseteq start.orders
        /\ got[last] = n /\ \A e \in gone : got[e] = e.quantity
    BY <1>3, <1>7, <2>2, <2>5 DEF PartlyUsed
  <2>7. FilledFor(o.id) = IF o \in gone \cup {last} THEN got[o] ELSE 0
    BY <1>5, <2>6
  <2>8. \A r \in RestingOrders : r.id = o.id => (r = o /\ o \notin gone \cup {last}) \/ (r = part /\ o = last)
    <3>1. \A r \in start.orders : r.id = o.id => r = o
      BY <1>1
    <3>2. last \in start.orders
      BY <1>3
    <3>3. part.id = o.id => o = last
      BY <3>1, <3>2, <2>3
    <3>4. ASSUME NEW r \in RestingOrders, r.id = o.id
          PROVE  (r = o /\ o \notin gone \cup {last}) \/ (r = part /\ o = last)
      <4>1. r \in start.orders \ (gone \cup {last}) \/ r = part
        BY <3>4, <2>2, Zenon
      <4>2. CASE r = part
        BY <4>2, <3>3, <3>4, Zenon
      <4>3. CASE r \in start.orders \ (gone \cup {last})
        <5>1. r \in start.orders /\ r \notin gone \cup {last}
          BY <4>3
        <5>2. r = o
          BY <5>1, <3>1, <3>4
        <5> QED BY <5>1, <5>2
      <4> QED BY <4>1, <4>2, <4>3, Zenon
    <3> QED BY <3>4, Zenon
  <2>9. CASE o \in gone
    <3>1. QuantityOf(gone) <= start.quantity
      BY <2>2, <2>4
    <3>2. Allocation(o) = o.quantity
      BY <3>1, <1>0, <1>1, <2>2, <2>9, FirstGetAll
    <3>3. Left = {}
      BY <2>2, <2>8, <2>9
    <3> QED BY <3>2, <3>3, <2>6, <2>7, <2>9, <1>2
  <2>10. CASE o = last
    <3>1. Allocation(o) = n
      BY <2>2, <2>10, <1>0, <1>1, LastGetsRest
    <3>2. Left = {last.quantity - n}
      BY <2>2, <2>3, <2>8, <2>10
    <3>3. {last.quantity - n} \ {0} = {last.quantity - n}
      BY <2>2, <2>3
    <3> QED BY <3>1, <3>2, <3>3, <2>6, <2>7, <2>10
  <2>11. CASE o \notin gone \cup {last}
    <3>1. Allocation(o) = 0
      <4>1. start.quantity <= QuantityOf(gone \cup {last}) /\ gone \cup {last} \in SUBSET E
        BY <2>2, <2>3, <2>4
      <4>2. o \in E => Allocation(o) = 0
        BY <4>1, <2>2, <2>11, <1>0, <1>1, OthersGetNothing
      <4> QED BY <4>2, <1>4
    <3>2. Left = {o.quantity}
      BY <2>2, <2>8, <2>11
    <3>3. {o.quantity - 0} \ {0} = {o.quantity}
      BY <1>2
    <3> QED BY <3>1, <3>2, <3>3, <2>7, <2>11
  <2> QED BY <2>9, <2>10, <2>11
<1>8. PICK got : Served(got) /\ DOMAIN got \subseteq start.orders
  BY SomeServed
<1>9. FilledFor(o.id) = Allocation(o) /\ Left = {o.quantity - Allocation(o)} \ {0}
  BY <1>1, <1>6, <1>7 DEF Progress
<1> QED BY <1>5, <1>8, <1>9

-----------------------------------------------------------------------------
(* The theorem. *)

(* A step of the book with its history is a step of the book.              *)
LEMMA HistoryIsBookStep == [MCNext]_vars => [BookNext]_bookVars
BY DEF MCNext, MCSubmit, BookNext, vars, bookVars

(* The book with its history satisfies the two invariants.                 *)
LEMMA LoopInvariant == MCSpec => [](BookInv /\ LoopInv)
<1>1. MCInit => BookInv /\ LoopInv
  <2> SUFFICES ASSUME MCInit PROVE BookInv /\ LoopInv
    OBVIOUS
  <2>1. BookInv
    BY InitBookInv DEF MCInit
  <2>2. RestingOrders = {}
    BY InitRefines DEF MCInit, Abstract!Init
  <2>3. incoming = NoOrder /\ fills = <<>>
    BY DEF MCInit, BookInit
  <2> QED BY <2>1, <2>2, <2>3, FS_EmptySet DEF LoopInv
<1>2. BookInv /\ LoopInv /\ [MCNext]_vars => BookInv' /\ LoopInv'
  BY HistoryIsBookStep, NextBookInv, NextLoopInv
<1> QED BY <1>1, <1>2, PTL DEF MCSpec

(* The matching loop of submit ends with the price-time allocation, for    *)
(* every book, every request and every number of levels it sweeps: each    *)
(* order has traded its share in one fill at its own price and keeps the   *)
(* rest, and the request has lost exactly the fills.                       *)
THEOREM LoopAllocates == MCSpec => []LoopComputesAllocation
<1>1. BookInv /\ LoopInv => LoopComputesAllocation
  <2> SUFFICES ASSUME BookInv, LoopInv, incoming # NoOrder, ~CanMatch
               PROVE  LoopComputesAllocation
    BY DEF LoopComputesAllocation
  <2>1. ASSUME NEW o \in start.orders
        PROVE  /\ FilledFor(o.id) = Allocation(o)
               /\ {r.quantity : r \in {r \in RestingOrders : r.id = o.id}}
                     = {o.quantity - Allocation(o)} \ {0}
               /\ \A i \in DOMAIN fills : fills[i].resting_order_id = o.id =>
                      fills[i].price_ticks = o.price_ticks
    BY LoopEndAllocates
  <2>2. \A i, j \in DOMAIN fills :
           fills[i].resting_order_id = fills[j].resting_order_id => i = j
    <3>1. PICK got : Served(got)
      BY SomeServed
    <3>2. DOMAIN fills = 1..Len(fills)
      BY BookInvParts DEF LocalsOK
    <3> QED BY <3>1, <3>2 DEF Served
  <2>3. incoming.quantity = start.quantity - SumFunction(Traded)
    <3>1. incoming \in Order /\ fills \in Seq(Fill) /\ incoming.quantity \in Int
      <4>1. incoming \in Order /\ fills \in Seq(Fill)
        BY BookInvParts DEF LocalsOK
      <4> QED BY <4>1 DEF Order
    <3>2. start.quantity = incoming.quantity + SumFunction(Traded)
      BY DEF LoopInv
    <3>3. SumFunction(Traded) \in Int
      BY <3>1, TradedTyped
    <3> QED BY <3>1, <3>2, <3>3
  <2> QED BY <2>1, <2>2, <2>3, Zenon DEF LoopComputesAllocation
<1> QED BY <1>1, LoopInvariant, PTL
=============================================================================
