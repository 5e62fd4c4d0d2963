---------------------------- MODULE BasicLemmas ----------------------------
(***************************************************************************)
(* Facts that the proofs about several components rest on.                 *)
(*                                                                         *)
(* Induction without operator parameters: the least counterexample of a    *)
(* statement about natural numbers, given as a set.  With it, a function   *)
(* that is defined by recursion on its argument exists and takes the       *)
(* values that its definition says.  From that, what Total and Sift        *)
(* compute, the arithmetic of TickMath, and what a fill does to a          *)
(* PositionTracker; and the laws of sequences that are joined, sifted and  *)
(* mapped.                                                                 *)
(***************************************************************************)
EXTENDS PositionTracker, Sifting, SequencesExt, SequenceTheorems, WellFoundedInduction, TLAPS

(* A set of naturals that is not empty has a least element.                *)
LEMMA LeastNatural ==
    ASSUME NEW T, T \subseteq Nat, T # {}
    PROVE  \E x \in T : \A y \in T : x <= y
<1>1. \E x \in T : \A y \in T : ~ (<<y, x>> \in OpToRel(<, Nat))
  BY NatLessThanWellFounded, WFMin
<1>2. \A x, y \in T : ~ (<<y, x>> \in OpToRel(<, Nat)) => x <= y
  BY DEF OpToRel
<1> QED BY <1>1, <1>2

(* Induction up to a bound: a set that holds 0, and i whenever it holds    *)
(* i - 1, holds all of 0..n.                                               *)
LEMMA InductionUpTo ==
    ASSUME NEW n \in Nat, NEW T, 0 \in T, \A i \in 1..n : i - 1 \in T => i \in T
    PROVE  0..n \subseteq T
<1> DEFINE Bad == {i \in 0..n : i \notin T}
<1> SUFFICES ASSUME Bad # {} PROVE FALSE
  OBVIOUS
<1>1. PICK k \in Bad : \A j \in Bad : k <= j
  <2>1. Bad \subseteq Nat
    OBVIOUS
  <2> HIDE DEF Bad
  <2> QED BY <2>1, LeastNatural
<1>2. k \in 1..n /\ k \notin T
  BY <1>1
<1>3. k - 1 \in 0..n /\ k - 1 < k
  BY <1>2
<1>4. k - 1 \in T
  BY <1>1, <1>2, <1>3
<1> QED BY <1>2, <1>4

(* h is what the recursion with first value a and step g computes for the  *)
(* arguments 0..n.                                                         *)
Iterates(h, V, a, g, n) ==
    /\ h \in [0..n -> V]
    /\ h[0] = a
    /\ \A i \in 1..n : h[i] = g[<<h[i - 1], i>>]

(* Such a recursion has a result...                                        *)
LEMMA IterationExists ==
    ASSUME NEW V, NEW a \in V, NEW n \in Nat, NEW g \in [V \X (1..n) -> V]
    PROVE  \E h : Iterates(h, V, a, g, n)
<1> DEFINE T == {k \in 0..n : \E h : Iterates(h, V, a, g, k)}
<1>1. 0 \in T
  <2>1. Iterates([i \in 0..0 |-> a], V, a, g, 0)
    BY DEF Iterates
  <2> QED BY <2>1
<1>2. ASSUME NEW k \in 1..n, k - 1 \in T PROVE k \in T
  <2>1. PICK h : Iterates(h, V, a, g, k - 1)
    BY <1>2
  <2>2. /\ h \in [0..(k - 1) -> V] /\ h[0] = a
        /\ \A i \in 1..(k - 1) : h[i] = g[<<h[i - 1], i>>]
    BY <2>1 DEF Iterates
  <2>3. PICK e : e = [i \in 0..k |-> IF i = k THEN g[<<h[k - 1], k>>] ELSE h[i]]
    OBVIOUS
  <2>4. g[<<h[k - 1], k>>] \in V
    BY <2>2
  <2>5. e \in [0..k -> V] /\ e[0] = a
    BY <2>2, <2>3, <2>4
  <2>6. ASSUME NEW i \in 1..k PROVE e[i] = g[<<e[i - 1], i>>]
    <3>1. CASE i = k
      <4>1. k \in 0..k /\ k - 1 \in 0..k /\ k - 1 # k
        OBVIOUS
      <4>2. e[k] = g[<<h[k - 1], k>>] /\ e[k - 1] = h[k - 1]
        BY <4>1, <2>3
      <4> QED BY <4>2, <3>1
    <3>2. CASE i # k
      <4>1. i \in 1..(k - 1) /\ i - 1 \in 0..k /\ i - 1 # k /\ i \in 0..k
        BY <3>2
      <4>2. e[i] = h[i] /\ e[i - 1] = h[i - 1]
        BY <4>1, <3>2, <2>3
      <4> QED BY <4>1, <4>2, <2>2
    <3> QED BY <3>1, <3>2
  <2>7. Iterates(e, V, a, g, k)
    BY <2>5, <2>6 DEF Iterates
  <2> QED BY <2>7
<1>3. 0..n \subseteq T
  <2> HIDE DEF T
  <2> QED BY <1>1, <1>2, InductionUpTo
<1> QED BY <1>3

(* ... and only one.                                                       *)
LEMMA IterationUnique ==
    ASSUME NEW V, NEW a, NEW n \in Nat, NEW g,
           NEW h, Iterates(h, V, a, g, n), NEW e, Iterates(e, V, a, g, n)
    PROVE  h = e
<1> DEFINE T == {i \in 0..n : h[i] = e[i]}
<1>1. 0 \in T
  BY DEF Iterates
<1>2. ASSUME NEW i \in 1..n, i - 1 \in T PROVE i \in T
  <2>1. h[i - 1] = e[i - 1]
    BY <1>2
  <2>2. h[i] = g[<<h[i - 1], i>>] /\ e[i] = g[<<e[i - 1], i>>]
    BY DEF Iterates
  <2> QED BY <2>1, <2>2
<1>3. 0..n \subseteq T
  <2> HIDE DEF T
  <2> QED BY <1>1, <1>2, InductionUpTo
<1>4. \A i \in 0..n : h[i] = e[i]
  BY <1>3
<1> QED BY <1>4 DEF Iterates

-----------------------------------------------------------------------------
(* Sequences and sums. *)

(* Append to a sequence of one element.                                    *)
LEMMA AppendToOne ==
    ASSUME NEW a, NEW b
    PROVE  Append(<<a>>, b) = <<a, b>>
<1>1. PICK T : T = {a, b}
  OBVIOUS
<1>2. <<a>> \in Seq(T) /\ <<a, b>> \in Seq(T) /\ b \in T
  BY <1>1
<1>3. PICK r : r = Append(<<a>>, b)
  OBVIOUS
<1>4. r \in Seq(T) /\ Len(r) = 2 /\ r[1] = a /\ r[2] = b
  BY <1>2, <1>3
<1>5. r = <<a, b>>
  BY <1>2, <1>4, SeqEqual
<1> QED BY <1>3, <1>5

(* A sequence is its head and its tail...                                  *)
LEMMA HeadThenTail ==
    ASSUME NEW T, NEW s \in Seq(T), s # <<>>
    PROVE  /\ Head(s) \in T /\ Tail(s) \in Seq(T) /\ <<Head(s)>> \in Seq(T)
           /\ s = <<Head(s)>> \o Tail(s)
<1>1. Head(s) \in T /\ Tail(s) \in Seq(T) /\ <<Head(s)>> \in Seq(T)
  BY HeadTailProperties
<1>2. Len(s) \in Nat \ {0} /\ 1 \in 1..Len(s) /\ Len(s) \in 1..Len(s)
  BY EmptySeq
<1>3. SubSeq(s, 1, Len(s)) = <<s[1]>> \o SubSeq(s, 1 + 1, Len(s))
  BY <1>2, SubSeqRecursiveFirst
<1>4. s = <<Head(s)>> \o Tail(s)
  BY <1>3, SubSeqFull, TailIsSubSeq
<1> QED BY <1>1, <1>4

(* ... and moving the head of one queue to the end of the queue before it  *)
(* changes nothing of the two taken together.                              *)
LEMMA HeadMoves ==
    ASSUME NEW T, NEW s \in Seq(T), NEW t \in Seq(T), t # <<>>
    PROVE  Append(s, Head(t)) \o Tail(t) = s \o t
<1>1. /\ Head(t) \in T /\ Tail(t) \in Seq(T) /\ <<Head(t)>> \in Seq(T)
      /\ t = <<Head(t)>> \o Tail(t)
  BY HeadThenTail
<1>2. PICK h, r : h = Head(t) /\ r = Tail(t)
  OBVIOUS
<1>3. h \in T /\ r \in Seq(T) /\ <<h>> \in Seq(T)
  BY <1>1, <1>2
<1>4. Append(s, h) = s \o <<h>>
  BY <1>3, AppendIsConcat
<1>5. (s \o <<h>>) \o r = s \o (<<h>> \o r)
  BY <1>3, ConcatAssociative
<1>6. t = <<h>> \o r
  BY <1>1, <1>2, Zenon
<1> QED BY <1>2, <1>4, <1>5, <1>6, Zenon

(* One sequence after another, by position.                                *)
LEMMA ConcatFacts ==
    ASSUME NEW T, NEW s \in Seq(T), NEW t \in Seq(T), NEW r, r = s \o t
    PROVE  /\ r \in Seq(T) /\ Len(s) \in Nat /\ Len(t) \in Nat /\ Len(r) = Len(s) + Len(t)
           /\ \A i \in 1..Len(s) : i \in 1..Len(r) /\ r[i] = s[i]
           /\ \A i \in 1..Len(t) : Len(s) + i \in 1..Len(r) /\ r[Len(s) + i] = t[i]
           /\ \A k \in 1..Len(r) : \/ k \in 1..Len(s) /\ r[k] = s[k]
                                   \/ k > Len(s) /\ k - Len(s) \in 1..Len(t) /\ r[k] = t[k - Len(s)]
<1>1. /\ r \in Seq(T) /\ Len(s) \in Nat /\ Len(t) \in Nat /\ Len(r) = Len(s) + Len(t)
      /\ \A i \in 1..Len(s) + Len(t) : r[i] = IF i <= Len(s) THEN s[i] ELSE t[i - Len(s)]
  BY ConcatProperties
<1>2. ASSUME NEW i \in 1..Len(s) PROVE i \in 1..Len(r) /\ r[i] = s[i]
  <2>1. i \in 1..Len(s) + Len(t) /\ i <= Len(s)
    BY <1>1
  <2> QED BY <2>1, <1>1
<1>3. ASSUME NEW i \in 1..Len(t) PROVE Len(s) + i \in 1..Len(r) /\ r[Len(s) + i] = t[i]
  <2>1. /\ Len(s) + i \in 1..Len(s) + Len(t) /\ ~(Len(s) + i <= Len(s))
        /\ (Len(s) + i) - Len(s) = i
    BY <1>1
  <2> QED BY <2>1, <1>1
<1>4. ASSUME NEW k \in 1..Len(r)
      PROVE  \/ k \in 1..Len(s) /\ r[k] = s[k]
             \/ k > Len(s) /\ k - Len(s) \in 1..Len(t) /\ r[k] = t[k - Len(s)]
  <2>1. k \in 1..Len(s) + Len(t)
    BY <1>1
  <2>2. k \in 1..Len(s) \/ (k > Len(s) /\ k - Len(s) \in 1..Len(t))
    BY <1>1
  <2> QED BY <2>1, <2>2, <1>1
<1> QED BY <1>1, <1>2, <1>3, <1>4

(* A function on 1..n is a sequence of length n.                           *)
LEMMA FunctionIsSeq ==
    ASSUME NEW T, NEW n \in Nat, NEW s \in [1..n -> T]
    PROVE  s \in Seq(T) /\ Len(s) = n
OBVIOUS

(* The recursion of Total has a value, and these are its values.           *)
LEMMA TotalUnfolds ==
    ASSUME NEW s \in Seq(Int)
    PROVE  \E sum \in [0..Len(s) -> Int] :
              /\ Total(s) = sum[Len(s)] /\ sum[0] = 0
              /\ \A i \in 1..Len(s) : sum[i] = sum[i - 1] + s[i]
<1> DEFINE Eq(f) == f = [i \in 0..Len(s) |-> IF i = 0 THEN 0 ELSE f[i - 1] + s[i]]
<1>0. Len(s) \in Nat /\ \A i \in 1..Len(s) : s[i] \in Int
  BY ElementOfSeq
<1>1. PICK g : g = [x \in Int \X (1..Len(s)) |-> x[1] + s[x[2]]]
  OBVIOUS
<1>2. g \in [Int \X (1..Len(s)) -> Int]
  BY <1>0, <1>1
<1>3. PICK h : Iterates(h, Int, 0, g, Len(s))
  <2>1. 0 \in Int
    OBVIOUS
  <2> QED BY <1>0, <1>2, <2>1, IterationExists
<1>4. /\ h \in [0..Len(s) -> Int] /\ h[0] = 0
      /\ \A i \in 1..Len(s) : h[i] = g[<<h[i - 1], i>>]
  BY <1>3 DEF Iterates
<1>5. ASSUME NEW i \in 1..Len(s) PROVE h[i] = h[i - 1] + s[i]
  <2>1. i - 1 \in 0..Len(s)
    BY <1>0
  <2>2. <<h[i - 1], i>> \in Int \X (1..Len(s))
    BY <2>1, <1>4
  <2> QED BY <2>2, <1>1, <1>4
<1>6. Eq(h)
  <2>1. \A i \in 0..Len(s) : i = 0 \/ i \in 1..Len(s)
    BY <1>0
  <2> QED BY <1>4, <1>5, <2>1
<1>7. PICK f : f = CHOOSE e : Eq(e)
  OBVIOUS
<1>8. Eq(f)
  BY <1>6, <1>7
<1>9. Total(s) = f[Len(s)]
  BY <1>7 DEF Total
<1>10. f[0] = 0 /\ \A i \in 1..Len(s) : f[i] = f[i - 1] + s[i]
  <2>1. 0 \in 0..Len(s) /\ \A i \in 1..Len(s) : i \in 0..Len(s) /\ i # 0
    BY <1>0
  <2> QED BY <1>8, <2>1
<1>11. 0..Len(s) \subseteq {i \in 0..Len(s) : f[i] = h[i]}
  <2> DEFINE T == {i \in 0..Len(s) : f[i] = h[i]}
  <2>1. 0 \in T
    BY <1>0, <1>4, <1>10
  <2>2. ASSUME NEW i \in 1..Len(s), i - 1 \in T PROVE i \in T
    BY <2>2, <1>0, <1>5, <1>10
  <2>3. 0..Len(s) \subseteq T
    <3> HIDE DEF T
    <3> QED BY <1>0, <2>1, <2>2, InductionUpTo
  <2> QED BY <2>3
<1>12. \A i \in 0..Len(s) : f[i] = h[i]
  BY <1>11
<1>13. Len(s) \in 0..Len(s)
  BY <1>0
<1> QED BY <1>4, <1>5, <1>9, <1>12, <1>13

(* Any function with these values gives the sum.                           *)
LEMMA TotalIs ==
    ASSUME NEW s \in Seq(Int), NEW h,
           h[0] = 0, \A i \in 1..Len(s) : h[i] = h[i - 1] + s[i]
    PROVE  Total(s) = h[Len(s)]
<1>0. Len(s) \in Nat
  OBVIOUS
<1>1. PICK f \in [0..Len(s) -> Int] :
         /\ Total(s) = f[Len(s)] /\ f[0] = 0
         /\ \A i \in 1..Len(s) : f[i] = f[i - 1] + s[i]
  BY TotalUnfolds
<1> DEFINE T == {i \in 0..Len(s) : f[i] = h[i]}
<1>2. 0 \in T
  BY <1>0, <1>1
<1>3. ASSUME NEW i \in 1..Len(s), i - 1 \in T PROVE i \in T
  <2>1. f[i - 1] = h[i - 1] /\ i \in 0..Len(s)
    BY <1>3, <1>0
  <2> QED BY <2>1, <1>1
<1>4. 0..Len(s) \subseteq T
  <2> HIDE DEF T
  <2> QED BY <1>0, <1>2, <1>3, InductionUpTo
<1>5. Len(s) \in T
  <2>1. Len(s) \in 0..Len(s)
    BY <1>0
  <2> HIDE DEF T
  <2> QED BY <1>4, <2>1
<1> QED BY <1>1, <1>5

(* The sum of integers is one, and that of none is 0.                      *)
LEMMA TotalTyped ==
    /\ \A s \in Seq(Int) : Total(s) \in Int
    /\ Total(<<>>) = 0
<1>1. ASSUME NEW s \in Seq(Int) PROVE Total(s) \in Int
  <2>1. Len(s) \in 0..Len(s)
    OBVIOUS
  <2> QED BY <2>1, TotalUnfolds
<1>2. Total(<<>>) = 0
  <2>1. <<>> \in Seq(Int) /\ Len(<<>>) = 0
    BY EmptySeq
  <2> QED BY <2>1, TotalUnfolds
<1> QED BY <1>1, <1>2

(* A sum may be taken in two parts...                                      *)
LEMMA TotalConcat ==
    ASSUME NEW s \in Seq(Int), NEW t \in Seq(Int)
    PROVE  Total(s \o t) = Total(s) + Total(t)
<1>1. PICK r : r = s \o t
  OBVIOUS
<1>2. /\ r \in Seq(Int) /\ Len(s) \in Nat /\ Len(t) \in Nat /\ Len(r) = Len(s) + Len(t)
      /\ \A i \in 1..Len(r) : r[i] = IF i <= Len(s) THEN s[i] ELSE t[i - Len(s)]
  BY <1>1, ConcatProperties
<1>3. PICK f \in [0..Len(r) -> Int] :
         /\ Total(r) = f[Len(r)] /\ f[0] = 0
         /\ \A i \in 1..Len(r) : f[i] = f[i - 1] + r[i]
  BY <1>2, TotalUnfolds
<1>4. Total(s) = f[Len(s)]
  <2>1. ASSUME NEW i \in 1..Len(s) PROVE f[i] = f[i - 1] + s[i]
    <3>1. i \in 1..Len(r) /\ i <= Len(s)
      BY <1>2
    <3> QED BY <3>1, <1>2, <1>3
  <2> QED BY <2>1, <1>3, TotalIs
<1>5. Total(t) = f[Len(r)] - f[Len(s)]
  <2>1. PICK h : h = [i \in 0..Len(t) |-> f[Len(s) + i] - f[Len(s)]]
    OBVIOUS
  <2>2. Len(s) \in 0..Len(r) /\ f[Len(s)] \in Int /\ Len(s) + 0 = Len(s)
    BY <1>2
  <2>3. h[0] = 0
    BY <2>1, <2>2, <1>2
  <2>4. ASSUME NEW i \in 1..Len(t) PROVE h[i] = h[i - 1] + t[i]
    <3>1. /\ Len(s) + i \in 1..Len(r) /\ ~(Len(s) + i <= Len(s)) /\ (Len(s) + i) - Len(s) = i
          /\ (Len(s) + i) - 1 = Len(s) + (i - 1) /\ Len(s) + (i - 1) \in 0..Len(r)
          /\ i \in 0..Len(t) /\ i - 1 \in 0..Len(t)
      BY <1>2
    <3>2. f[Len(s) + i] = f[Len(s) + (i - 1)] + t[i]
      BY <3>1, <1>2, <1>3
    <3>3. f[Len(s) + (i - 1)] \in Int /\ t[i] \in Int
      BY <3>1, ElementOfSeq
    <3> QED BY <3>1, <3>2, <3>3, <2>1, <2>2
  <2>5. Total(t) = h[Len(t)]
    BY <2>3, <2>4, TotalIs
  <2>6. Len(t) \in 0..Len(t) /\ Len(s) + Len(t) = Len(r)
    BY <1>2
  <2> QED BY <2>1, <2>5, <2>6
<1>6. f[Len(s)] \in Int /\ f[Len(r)] \in Int
  <2>1. Len(s) \in 0..Len(r) /\ Len(r) \in 0..Len(r)
    BY <1>2
  <2> QED BY <2>1
<1> QED BY <1>1, <1>3, <1>4, <1>5, <1>6

(* ... and that of one number is the number.                               *)
LEMMA TotalSingle ==
    ASSUME NEW n \in Int
    PROVE  Total(<<n>>) = n
<1>1. <<n>> \in Seq(Int) /\ Len(<<n>>) = 1 /\ <<n>>[1] = n
  OBVIOUS
<1>2. PICK s : s = <<n>>
  OBVIOUS
<1>3. PICK f \in [0..Len(s) -> Int] :
         /\ Total(s) = f[Len(s)] /\ f[0] = 0
         /\ \A i \in 1..Len(s) : f[i] = f[i - 1] + s[i]
  BY <1>1, <1>2, TotalUnfolds
<1>4. f[1] = f[0] + s[1]
  <2>1. 1 \in 1..Len(s) /\ 1 - 1 = 0
    BY <1>1, <1>2
  <2> QED BY <2>1, <1>3
<1> QED BY <1>1, <1>2, <1>3, <1>4

(* The sum of the negated numbers.                                         *)
LEMMA TotalNegated ==
    ASSUME NEW s \in Seq(Int), NEW t \in Seq(Int), Len(t) = Len(s),
           \A i \in 1..Len(s) : t[i] = -s[i]
    PROVE  Total(t) = -Total(s)
<1>0. Len(s) \in Nat /\ \A i \in 1..Len(s) : s[i] \in Int
  BY ElementOfSeq
<1>1. PICK f \in [0..Len(s) -> Int] :
         /\ Total(s) = f[Len(s)] /\ f[0] = 0
         /\ \A i \in 1..Len(s) : f[i] = f[i - 1] + s[i]
  BY TotalUnfolds
<1>2. PICK h : h = [i \in 0..Len(s) |-> -f[i]]
  OBVIOUS
<1>3. h[0] = 0
  BY <1>0, <1>1, <1>2
<1>4. ASSUME NEW i \in 1..Len(t) PROVE h[i] = h[i - 1] + t[i]
  <2>1. i \in 1..Len(s) /\ i \in 0..Len(s) /\ i - 1 \in 0..Len(s)
    BY <1>0
  <2>2. f[i] = f[i - 1] + s[i] /\ f[i - 1] \in Int /\ s[i] \in Int /\ t[i] = -s[i]
    BY <2>1, <1>0, <1>1
  <2>3. h[i] = -f[i] /\ h[i - 1] = -f[i - 1]
    BY <2>1, <1>2
  <2> QED BY <2>2, <2>3
<1>5. Total(t) = h[Len(t)]
  BY <1>3, <1>4, TotalIs
<1>6. Len(s) \in 0..Len(s)
  BY <1>0
<1> QED BY <1>1, <1>2, <1>5, <1>6

(* Every element of a sequence replaced by what w says of it.              *)
Weigh(w, s) == [i \in 1..Len(s) |-> w[s[i]]]

(* The weights of some elements are a sequence of integers...              *)
LEMMA WeighTyped ==
    ASSUME NEW T, NEW s \in Seq(T), NEW w \in [T -> Int]
    PROVE  /\ Weigh(w, s) \in Seq(Int) /\ Len(Weigh(w, s)) = Len(s) /\ Len(s) \in Nat
           /\ \A i \in 1..Len(s) : Weigh(w, s)[i] = w[s[i]] /\ w[s[i]] \in Int
<1>1. Len(s) \in Nat /\ \A i \in 1..Len(s) : w[s[i]] \in Int
  BY ElementOfSeq
<1>2. Weigh(w, s) \in [1..Len(s) -> Int]
  BY <1>1 DEF Weigh
<1> QED BY <1>1, <1>2 DEF Weigh

(* ... and those of all that come one after the other are added up.        *)
LEMMA WeightConcat ==
    ASSUME NEW T, NEW s \in Seq(T), NEW t \in Seq(T), NEW w \in [T -> Int]
    PROVE  Total(Weigh(w, s \o t)) = Total(Weigh(w, s)) + Total(Weigh(w, t))
<1>1. PICK r, u, v : r = s \o t /\ u = Weigh(w, s) /\ v = Weigh(w, t)
  OBVIOUS
<1>2. /\ r \in Seq(T) /\ Len(r) = Len(s) + Len(t)
      /\ \A i \in 1..Len(r) : r[i] = IF i <= Len(s) THEN s[i] ELSE t[i - Len(s)]
  BY <1>1, ConcatProperties
<1>3. /\ u \in Seq(Int) /\ Len(u) = Len(s) /\ Len(s) \in Nat /\ \A i \in 1..Len(s) : u[i] = w[s[i]]
      /\ v \in Seq(Int) /\ Len(v) = Len(t) /\ Len(t) \in Nat /\ \A i \in 1..Len(t) : v[i] = w[t[i]]
  BY <1>1, WeighTyped
<1>4. Weigh(w, r) = u \o v
  <2>1. PICK x, y : x = Weigh(w, r) /\ y = u \o v
    OBVIOUS
  <2>2. x \in Seq(Int) /\ Len(x) = Len(r) /\ \A i \in 1..Len(r) : x[i] = w[r[i]]
    BY <2>1, <1>2, WeighTyped
  <2>3. /\ y \in Seq(Int) /\ Len(y) = Len(u) + Len(v)
        /\ \A i \in 1..Len(y) : y[i] = IF i <= Len(u) THEN u[i] ELSE v[i - Len(u)]
    <3>1. u \in Seq(Int) /\ v \in Seq(Int)
      BY <1>3
    <3>2. \A S : \A a, b \in Seq(S) :
             /\ a \o b \in Seq(S) /\ Len(a \o b) = Len(a) + Len(b)
             /\ \A i \in 1..Len(a \o b) : (a \o b)[i] = IF i <= Len(a) THEN a[i] ELSE b[i - Len(a)]
      BY ConcatProperties
    <3> QED BY <2>1, <3>1, <3>2, Zenon
  <2>4. ASSUME NEW i \in 1..Len(x) PROVE x[i] = y[i]
    <3>1. i \in 1..Len(r) /\ i \in 1..Len(y)
      BY <2>2, <2>3, <1>2, <1>3
    <3>0. x[i] = w[r[i]]
      BY <3>1, <2>2
    <3>2. CASE i <= Len(s)
      <4>1. i \in 1..Len(s)
        BY <3>2, <1>3, <3>1
      <4>2. r[i] = s[i]
        BY <3>1, <3>2, <1>2
      <4>3. y[i] = u[i]
        BY <3>1, <3>2, <1>3, <2>3
      <4> QED BY <4>1, <4>2, <4>3, <3>0, <1>3
    <3>3. CASE ~(i <= Len(s))
      <4>1. i - Len(s) \in 1..Len(t)
        BY <3>3, <1>2, <1>3, <3>1
      <4>2. r[i] = t[i - Len(s)]
        BY <3>1, <3>3, <1>2
      <4>3. y[i] = v[i - Len(s)]
        BY <3>1, <3>3, <1>3, <2>3
      <4> QED BY <4>1, <4>2, <4>3, <3>0, <1>3
    <3> QED BY <3>2, <3>3
  <2>5. Len(x) = Len(y)
    BY <2>2, <2>3, <1>2, <1>3
  <2> QED BY <2>1, <2>2, <2>3, <2>4, <2>5, SeqEqual
<1> QED BY <1>1, <1>3, <1>4, TotalConcat

(* One more element...                                                     *)
LEMMA WeightAppend ==
    ASSUME NEW T, NEW s \in Seq(T), NEW e \in T, NEW w \in [T -> Int]
    PROVE  Total(Weigh(w, Append(s, e))) = Total(Weigh(w, s)) + w[e]
<1>1. Append(s, e) = s \o <<e>> /\ <<e>> \in Seq(T)
  BY AppendIsConcat
<1>2. Weigh(w, <<e>>) = << w[e] >>
  BY DEF Weigh
<1>3. Total(Weigh(w, <<e>>)) = w[e]
  BY <1>2, TotalSingle
<1>4. Total(Weigh(w, s \o <<e>>)) = Total(Weigh(w, s)) + Total(Weigh(w, <<e>>))
  BY <1>1, WeightConcat
<1> QED BY <1>1, <1>3, <1>4

(* ... and one less.                                                       *)
LEMMA WeightTail ==
    ASSUME NEW T, NEW s \in Seq(T), s # <<>>, NEW w \in [T -> Int]
    PROVE  Total(Weigh(w, s)) = w[Head(s)] + Total(Weigh(w, Tail(s)))
<1>1. Head(s) \in T /\ Tail(s) \in Seq(T) /\ <<Head(s)>> \in Seq(T)
  BY HeadTailProperties
<1>2. s = <<Head(s)>> \o Tail(s)
  BY HeadThenTail
<1>3. Weigh(w, <<Head(s)>>) = << w[Head(s)] >>
  BY DEF Weigh
<1>4. Total(Weigh(w, <<Head(s)>>)) = w[Head(s)]
  BY <1>1, <1>3, TotalSingle
<1>5. Total(Weigh(w, <<Head(s)>> \o Tail(s))) = Total(Weigh(w, <<Head(s)>>)) + Total(Weigh(w, Tail(s)))
  BY <1>1, WeightConcat
<1> QED BY <1>2, <1>4, <1>5

(* The values of the recursion of Sift.                                    *)
Sifts(kept, s, S) ==
    /\ Sift(s, S) = kept[Len(s)]
    /\ kept[0] = <<>>
    /\ \A i \in 1..Len(s) :
          kept[i] = IF s[i] \in S THEN Append(kept[i - 1], s[i]) ELSE kept[i - 1]

(* The recursion of Sift has a value, and these are its values.            *)
LEMMA SiftUnfolds ==
    ASSUME NEW T, NEW s \in Seq(T), NEW S
    PROVE  \E kept : Sifts(kept, s, S)
<1> DEFINE Eq(f) == f = [i \in 0..Len(s) |->
                            IF i = 0 THEN <<>>
                            ELSE IF s[i] \in S THEN Append(f[i - 1], s[i]) ELSE f[i - 1]]
<1>0. Len(s) \in Nat /\ \A i \in 1..Len(s) : s[i] \in T
  BY ElementOfSeq
<1>1. PICK g : g = [x \in Seq(T) \X (1..Len(s)) |->
                       IF s[x[2]] \in S THEN Append(x[1], s[x[2]]) ELSE x[1]]
  OBVIOUS
<1>2. g \in [Seq(T) \X (1..Len(s)) -> Seq(T)]
  <2>1. ASSUME NEW x \in Seq(T) \X (1..Len(s))
        PROVE  (IF s[x[2]] \in S THEN Append(x[1], s[x[2]]) ELSE x[1]) \in Seq(T)
    <3>1. x[1] \in Seq(T) /\ s[x[2]] \in T
      BY <1>0
    <3> QED BY <3>1, AppendProperties
  <2> QED BY <2>1, <1>1
<1>3. PICK h : Iterates(h, Seq(T), <<>>, g, Len(s))
  BY <1>0, <1>2, EmptySeq, IterationExists
<1>4. /\ h \in [0..Len(s) -> Seq(T)] /\ h[0] = <<>>
      /\ \A i \in 1..Len(s) : h[i] = g[<<h[i - 1], i>>]
  BY <1>3 DEF Iterates
<1>5. ASSUME NEW i \in 1..Len(s)
      PROVE  h[i] = IF s[i] \in S THEN Append(h[i - 1], s[i]) ELSE h[i - 1]
  <2>1. i - 1 \in 0..Len(s)
    BY <1>0
  <2>2. <<h[i - 1], i>> \in Seq(T) \X (1..Len(s))
    BY <2>1, <1>4
  <2> QED BY <2>2, <1>1, <1>4
<1>6. Eq(h)
  <2>1. \A i \in 0..Len(s) : i = 0 \/ i \in 1..Len(s)
    BY <1>0
  <2> QED BY <2>1, <1>4, <1>5
<1>7. PICK kept : kept = CHOOSE f : Eq(f)
  OBVIOUS
<1>8. Eq(kept)
  <2> HIDE DEF Eq
  <2> QED BY <1>6, <1>7
<1>9. Sift(s, S) = kept[Len(s)]
  BY <1>7 DEF Sift
<1>10. /\ kept[0] = <<>>
       /\ \A i \in 1..Len(s) :
             kept[i] = IF s[i] \in S THEN Append(kept[i - 1], s[i]) ELSE kept[i - 1]
  <2>1. 0 \in 0..Len(s) /\ \A i \in 1..Len(s) : i \in 0..Len(s) /\ i # 0
    BY <1>0
  <2> QED BY <2>1, <1>8
<1>11. Sifts(kept, s, S)
  BY <1>9, <1>10 DEF Sifts
<1> QED BY <1>11

(* Where everything that is left out weighs nothing, what is kept weighs   *)
(* as much as the whole.                                                   *)
LEMMA SiftWeight ==
    ASSUME NEW T, NEW s \in Seq(T), NEW S, NEW w \in [T -> Int],
           \A i \in 1..Len(s) : s[i] \notin S => w[s[i]] = 0
    PROVE  /\ Sift(s, S) \in Seq(T \cap S)
           /\ Total(Weigh(w, Sift(s, S))) = Total(Weigh(w, s))
<1>0. Len(s) \in Nat /\ \A i \in 1..Len(s) : s[i] \in T
  BY ElementOfSeq
<1>1. PICK kept : Sifts(kept, s, S)
  BY SiftUnfolds
<1>2. /\ Sift(s, S) = kept[Len(s)] /\ kept[0] = <<>>
      /\ \A i \in 1..Len(s) :
            kept[i] = IF s[i] \in S THEN Append(kept[i - 1], s[i]) ELSE kept[i - 1]
  BY <1>1 DEF Sifts
<1>3. PICK u : u = Weigh(w, s)
  OBVIOUS
<1>4. u \in Seq(Int) /\ Len(u) = Len(s) /\ \A i \in 1..Len(s) : u[i] = w[s[i]] /\ w[s[i]] \in Int
  BY <1>3, WeighTyped
<1>5. PICK sum \in [0..Len(u) -> Int] :
         /\ Total(u) = sum[Len(u)] /\ sum[0] = 0
         /\ \A i \in 1..Len(u) : sum[i] = sum[i - 1] + u[i]
  BY <1>4, TotalUnfolds
<1> DEFINE G == {i \in 0..Len(s) : kept[i] \in Seq(T \cap S) /\ Total(Weigh(w, kept[i])) = sum[i]}
<1>6. 0 \in G
  <2>1. Weigh(w, <<>>) = <<>>
    BY DEF Weigh
  <2>2. Total(Weigh(w, kept[0])) = 0
    BY <2>1, <1>2, TotalTyped
  <2>3. kept[0] \in Seq(T \cap S) /\ 0 \in 0..Len(s)
    BY <1>0, <1>2, EmptySeq
  <2> QED BY <2>2, <2>3, <1>5
<1>7. ASSUME NEW i \in 1..Len(s), i - 1 \in G PROVE i \in G
  <2>1. PICK k : k = kept[i - 1]
    OBVIOUS
  <2>2. /\ k \in Seq(T \cap S) /\ Total(Weigh(w, k)) = sum[i - 1]
        /\ i \in 0..Len(s) /\ i - 1 \in 0..Len(s) /\ i \in 1..Len(u)
    BY <1>0, <1>4, <1>7, <2>1
  <2>3. k \in Seq(T) /\ sum[i] = sum[i - 1] + w[s[i]] /\ sum[i - 1] \in Int
    <3>1. T \cap S \subseteq T
      OBVIOUS
    <3>2. k \in Seq(T)
      BY <3>1, <2>2, SeqMonotonic
    <3> QED BY <3>2, <2>2, <1>4, <1>5
  <2>4. CASE s[i] \in S
    <3>1. kept[i] = Append(k, s[i]) /\ s[i] \in T \cap S
      BY <2>1, <2>4, <1>0, <1>2
    <3>2. Append(k, s[i]) \in Seq(T \cap S)
      BY <3>1, <2>2, AppendProperties
    <3>3. PICK e : e = s[i]
      OBVIOUS
    <3>4. Total(Weigh(w, Append(k, e))) = Total(Weigh(w, k)) + w[e]
      BY <3>1, <3>3, <2>3, WeightAppend
    <3> QED BY <3>1, <3>2, <3>3, <3>4, <2>2, <2>3
  <2>5. CASE s[i] \notin S
    <3>1. kept[i] = k /\ w[s[i]] = 0
      BY <2>1, <2>5, <1>2
    <3> QED BY <3>1, <2>2, <2>3
  <2> QED BY <2>4, <2>5
<1>8. 0..Len(s) \subseteq G
  <2> HIDE DEF G
  <2> QED BY <1>0, <1>6, <1>7, InductionUpTo
<1>9. Len(s) \in G
  <2>1. Len(s) \in 0..Len(s)
    BY <1>0
  <2> HIDE DEF G
  <2> QED BY <2>1, <1>8
<1> QED BY <1>2, <1>3, <1>4, <1>5, <1>9

-----------------------------------------------------------------------------
(* Fractions. *)

Rational == [num : Int, den : Nat \ {0}]

(* The size of a number and its sign.                                      *)
LEMMA AbsFacts ==
    ASSUME NEW n \in Int
    PROVE  /\ Abs(n) \in Nat /\ (n # 0 => Abs(n) \in Nat \ {0})
           /\ Signum(n) \in {-1, 0, 1}
BY DEF Abs, Signum

(* The product of positive numbers is one.                                 *)
LEMMA PositiveProduct ==
    ASSUME NEW m \in Nat \ {0}, NEW n \in Nat \ {0}
    PROVE  m * n \in Nat \ {0}
OBVIOUS

(* Fraction divides by a common divisor.                                   *)
LEMMA FractionReduces ==
    ASSUME NEW n \in Int, NEW d \in Nat \ {0}
    PROVE  \E g \in 1..d : /\ n % g = 0 /\ d % g = 0
                          /\ Fraction(n, d) = [num |-> n \div g, den |-> d \div g]
<1> DEFINE Common(k) == n % k = 0 /\ d % k = 0
<1> DEFINE Best(k) == Common(k) /\ \A j \in (k + 1)..d : n % j # 0 \/ d % j # 0
<1>1. \E k \in 1..d : Best(k)
  <2> DEFINE T == {i \in 0..d : d - i \in 1..d /\ Common(d - i)}
  <2>1. T \subseteq Nat
    OBVIOUS
  <2>2. Common(1)
    OBVIOUS
  <2>3. d - 1 \in T
    <3>1. d - 1 \in 0..d /\ d - (d - 1) = 1 /\ 1 \in 1..d
      OBVIOUS
    <3> QED BY <3>1, <2>2
  <2>4. PICK i \in T : \A j \in T : i <= j
    <3> HIDE DEF T
    <3> QED BY <2>1, <2>3, LeastNatural
  <2>5. ASSUME NEW j \in ((d - i) + 1)..d, Common(j) PROVE FALSE
    <3>1. d - j \in 0..d /\ d - (d - j) = j /\ j \in 1..d /\ d - j < i
      BY <2>4
    <3>2. d - j \in T
      BY <3>1, <2>5
    <3> QED BY <3>1, <3>2, <2>4
  <2>6. d - i \in 1..d /\ Common(d - i)
    BY <2>4
  <2> QED BY <2>5, <2>6
<1>2. PICK g : g = CHOOSE k \in 1..d : Best(k)
  OBVIOUS
<1>3. g \in 1..d /\ Common(g)
  <2> HIDE DEF Best
  <2>1. g \in 1..d /\ Best(g)
    BY <1>1, <1>2
  <2> QED BY <2>1 DEF Best
<1>4. Fraction(n, d) = [num |-> n \div g, den |-> d \div g]
  BY <1>2 DEF Fraction
<1> QED BY <1>3, <1>4

(* Fraction makes a fraction: an integer over a positive one...            *)
LEMMA FractionTyped ==
    ASSUME NEW n \in Int, NEW d \in Nat \ {0}
    PROVE  Fraction(n, d) \in [num : Int, den : Nat \ {0}]
<1>1. PICK g \in 1..d : Fraction(n, d) = [num |-> n \div g, den |-> d \div g]
  BY FractionReduces
<1>2. n \div g \in Int /\ d \div g \in Int /\ d \div g > 0
  OBVIOUS
<1> QED BY <1>1, <1>2

(* ... and it is the fraction it was made of.                              *)
LEMMA FractionExact ==
    ASSUME NEW n \in Int, NEW d \in Nat \ {0}
    PROVE  \E g \in Nat \ {0} : Fraction(n, d).num * g = n /\ Fraction(n, d).den * g = d
<1>1. PICK g \in 1..d : /\ n % g = 0 /\ d % g = 0
                        /\ Fraction(n, d) = [num |-> n \div g, den |-> d \div g]
  BY FractionReduces
<1>2. g \in Nat \ {0} /\ (n \div g) * g = n /\ (d \div g) * g = d
  BY <1>1
<1> QED BY <1>1, <1>2

(* What Round does: its result is an integer at a distance of at most one  *)
(* half.                                                                   *)
LEMMA RoundIsNearest ==
    ASSUME NEW n \in Int, NEW d \in Nat \ {0}
    PROVE  /\ Round([num |-> n, den |-> d]) \in Int
           /\ 2 * Abs(n - Round([num |-> n, den |-> d]) * d) <= d
<1>1. PICK q : q = n \div d
  OBVIOUS
<1>2. q \in Int /\ q * d <= n /\ n < q * d + d
  BY <1>1
<1>3. PICK m : m = q * d
  OBVIOUS
<1>4. m \in Int /\ m <= n /\ n < m + d /\ (q + 1) * d = m + d
  BY <1>2, <1>3
<1>5. PICK r : r = Round([num |-> n, den |-> d])
  OBVIOUS
<1>6. /\ r = q \/ r = q + 1
      /\ r = q => 2 * (n - m) <= d
      /\ r = q + 1 => 2 * (n - m) >= d
  BY <1>1, <1>3, <1>4, <1>5 DEF Round
<1>7. CASE r = q
  BY <1>2, <1>3, <1>4, <1>5, <1>6, <1>7 DEF Abs
<1>8. CASE r = q + 1
  <2>1. n - r * d = n - (m + d)
    BY <1>4, <1>8
  <2>2. n - (m + d) \in Int /\ n - (m + d) < 0 /\ 2 * ((m + d) - n) <= d
    BY <1>4, <1>6, <1>8
  <2>3. r \in Int /\ Abs(n - r * d) = (m + d) - n
    BY <2>1, <2>2, <1>2, <1>4, <1>8 DEF Abs
  <2> QED BY <2>2, <2>3, <1>5
<1> QED BY <1>6, <1>7, <1>8

(* A bound that holds of the multiples holds.                              *)
LEMMA Unscaled ==
    ASSUME NEW a \in Int, NEW b \in Int, NEW k \in Nat \ {0}
    PROVE  /\ a * k = 0 => a = 0
           /\ a * k < b * k => a < b
           /\ a < b => a * k < b * k
           /\ a <= b => a * k <= b * k
OBVIOUS

(* An integer lies strictly between -b and b if and only if its size is    *)
(* below b.                                                                *)
LEMMA AbsBelow ==
    ASSUME NEW a \in Int, NEW b \in Int
    PROVE  /\ Abs(a) < b <=> (-b < a /\ a < b)
           /\ Abs(a) <= b <=> (-b <= a /\ a <= b)
BY DEF Abs

(* `as i64' makes an integer.                                              *)
LEMMA AsI64Typed ==
    ASSUME NEW f \in Rational
    PROVE  AsI64(f) \in Int
<1>1. f.num \in Int /\ f.den \in Nat \ {0}
  BY DEF Rational
<1>2. Abs(f.num) \div f.den \in Int
  BY <1>1, AbsFacts
<1> QED BY <1>1, <1>2, AbsFacts DEF AsI64

(* Truncation is off by less than one.                                     *)
LEMMA TruncationError ==
    ASSUME NEW f \in Rational
    PROVE  -f.den < f.num - AsI64(f) * f.den /\ f.num - AsI64(f) * f.den < f.den
<1>1. PICK n, d : n = f.num /\ d = f.den
  OBVIOUS
<1>2. n \in Int /\ d \in Nat \ {0}
  BY <1>1 DEF Rational
<1>3. PICK q : q = Abs(n) \div d
  OBVIOUS
<1>4. Abs(n) \in Nat
  BY <1>2, AbsFacts
<1>5. q \in Int /\ q * d <= Abs(n) /\ Abs(n) < q * d + d
  BY <1>2, <1>3, <1>4
<1>6. AsI64(f) = Signum(n) * q
  BY <1>1, <1>3 DEF AsI64
<1>7. CASE n > 0
  <2>1. AsI64(f) = q /\ Abs(n) = n
    BY <1>2, <1>5, <1>6, <1>7 DEF Signum, Abs
  <2> QED BY <2>1, <1>1, <1>2, <1>5
<1>8. CASE n < 0
  <2>1. AsI64(f) = -q /\ Abs(n) = -n
    BY <1>2, <1>5, <1>6, <1>8 DEF Signum, Abs
  <2>2. (-q) * d = -(q * d)
    BY <1>2, <1>5
  <2> QED BY <2>1, <2>2, <1>1, <1>2, <1>5
<1>9. CASE n = 0
  <2>1. AsI64(f) = 0
    BY <1>2, <1>5, <1>6, <1>9 DEF Signum
  <2> QED BY <2>1, <1>1, <1>2, <1>9
<1> QED BY <1>2, <1>7, <1>8, <1>9

-----------------------------------------------------------------------------
(* The position. *)

Tracker == [net_position : Int, realized_pnl_ticks : Int, last_trade_price_ticks : Int,
            avg_entry_price_ticks : Rational]

(* A positive quantity, with the sign of its side.                         *)
LEMMA SignedFacts ==
    ASSUME NEW side \in TradeSides, NEW q \in Int
    PROVE  Signed(side, q) \in Int /\ (q # 0 => Signed(side, q) # 0)
BY DEF Signed

(* The average price is a fraction as long as something is added.          *)
LEMMA AverageTyped ==
    ASSUME NEW avg \in Rational, NEW old \in Nat, NEW price \in Int, NEW add \in Nat \ {0}
    PROVE  WeightedAverage(avg, old, price, add) \in Rational
<1>1. avg.num \in Int /\ avg.den \in Nat \ {0} /\ old + add \in Nat \ {0}
  BY DEF Rational
<1>2. avg.den * (old + add) \in Nat \ {0}
  BY <1>1, PositiveProduct
<1>3. avg.num * old + price * add * avg.den \in Int
  BY <1>1
<1>4. Fraction(avg.num * old + price * add * avg.den, avg.den * (old + add)) \in Rational
  BY <1>2, <1>3, FractionTyped DEF Rational
<1> QED BY <1>4 DEF WeightedAverage

(* on_fill adds the signed quantity to the position, whether the fill      *)
(* opens, adds, closes or turns the position, and keeps the types.         *)
LEMMA OnFill ==
    ASSUME NEW t \in Tracker, NEW side \in TradeSides, NEW q \in Nat \ {0}, NEW price \in Int
    PROVE  /\ on_fill(t, side, q, price) \in Tracker
           /\ on_fill(t, side, q, price).net_position = t.net_position + Signed(side, q)
<1>1. PICK n : n = Signed(side, q)
  OBVIOUS
<1>2. n \in Int /\ n # 0 /\ Abs(n) \in Nat \ {0}
  BY <1>1, SignedFacts, AbsFacts
<1>3. /\ t.net_position \in Int /\ t.realized_pnl_ticks \in Int
      /\ t.avg_entry_price_ticks \in Rational /\ Abs(t.net_position) \in Nat
  BY AbsFacts DEF Tracker
<1>4. CASE t.net_position = 0 \/ Signum(t.net_position) = Signum(n)
  <2>1. on_fill(t, side, q, price) = Increase(t, n, price)
    BY <1>1, <1>4 DEF on_fill
  <2>2. PICK a : a = WeightedAverage(t.avg_entry_price_ticks, Abs(t.net_position), price, Abs(n))
    OBVIOUS
  <2>3. a \in Rational
    BY <2>2, <1>2, <1>3, AverageTyped
  <2>4. PICK p : p = t.net_position + n
    OBVIOUS
  <2>5. p \in Int
    BY <2>4, <1>2, <1>3
  <2>6. Increase(t, n, price) = [t EXCEPT !.last_trade_price_ticks = price,
                                          !.avg_entry_price_ticks = a, !.net_position = p]
    BY <2>2, <2>4 DEF Increase
  <2>7. /\ [t EXCEPT !.last_trade_price_ticks = price,
                     !.avg_entry_price_ticks = a, !.net_position = p] \in Tracker
        /\ [t EXCEPT !.last_trade_price_ticks = price,
                     !.avg_entry_price_ticks = a, !.net_position = p].net_position = p
    BY <2>3, <2>5 DEF Tracker
  <2> QED BY <2>1, <2>4, <2>6, <2>7, <1>1
<1>5. CASE ~(t.net_position = 0 \/ Signum(t.net_position) = Signum(n))
  <2>1. on_fill(t, side, q, price) = Reduce(t, n, price)
    BY <1>1, <1>5 DEF on_fill
  <2>2. PICK a : a = AverageAfterReduce(t, t.net_position + n, price)
    OBVIOUS
  <2>3. a \in Rational
    <3>1. Fraction(price, 1) \in Rational
      <4>1. 1 \in Nat \ {0}
        OBVIOUS
      <4> QED BY <4>1, FractionTyped DEF Rational
    <3> QED BY <2>2, <3>1, <1>3 DEF AverageAfterReduce
  <2>4. PICK c : c = Lesser(Abs(n), Abs(t.net_position))
    OBVIOUS
  <2>5. c \in Int
    BY <2>4, <1>2, <1>3 DEF Lesser
  <2>6. PICK r : r = t.realized_pnl_ticks
                      + Signum(t.net_position) * c * (price - AsI64(t.avg_entry_price_ticks))
    OBVIOUS
  <2>7. r \in Int
    <3>1. price - AsI64(t.avg_entry_price_ticks) \in Int
      BY <1>3, AsI64Typed
    <3>2. Signum(t.net_position) \in Int
      BY <1>3, AbsFacts
    <3>3. Signum(t.net_position) * c \in Int
      BY <3>2, <2>5
    <3>4. Signum(t.net_position) * c * (price - AsI64(t.avg_entry_price_ticks)) \in Int
      BY <3>1, <3>3
    <3> QED BY <2>6, <3>4, <1>3
  <2>8. Reduce(t, n, price) = [last_trade_price_ticks |-> price, realized_pnl_ticks |-> r,
                               net_position |-> t.net_position + n, avg_entry_price_ticks |-> a]
    BY <2>2, <2>4, <2>6 DEF Reduce
  <2> QED BY <2>1, <2>3, <2>7, <2>8, <1>1, <1>2, <1>3 DEF Tracker
<1> QED BY <1>4, <1>5

-----------------------------------------------------------------------------
(* Sequences as sets. *)

NoDuplicates(s) == \A i, j \in 1..Len(s) : s[i] = s[j] => i = j

(* ToSet of a sequence, by position.                                       *)
LEMMA ToSetMember ==
    ASSUME NEW T, NEW s \in Seq(T)
    PROVE  /\ \A x : x \in ToSet(s) <=> \E i \in 1..Len(s) : x = s[i]
           /\ ToSet(s) \subseteq T
<1>1. DOMAIN s = 1..Len(s) /\ \A i \in 1..Len(s) : s[i] \in T
  BY ElementOfSeq
<1> QED BY <1>1 DEF ToSet

(* push_back.                                                              *)
LEMMA AppendSet ==
    ASSUME NEW T, NEW s \in Seq(T), NEW x \in T
    PROVE  /\ Append(s, x) \in Seq(T)
           /\ ToSet(Append(s, x)) = ToSet(s) \cup {x}
           /\ NoDuplicates(s) /\ x \notin ToSet(s) => NoDuplicates(Append(s, x))
<1>1. PICK r : r = Append(s, x)
  OBVIOUS
<1>2. /\ r \in Seq(T) /\ Len(r) = Len(s) + 1 /\ r[Len(s) + 1] = x /\ Len(s) \in Nat
      /\ \A i \in 1..Len(s) : r[i] = s[i]
  BY <1>1, AppendProperties
<1>3. \A y : y \in ToSet(r) <=> y \in ToSet(s) \cup {x}
  <2>1. \A i \in 1..Len(r) : i \in 1..Len(s) \/ i = Len(s) + 1
    BY <1>2
  <2>2. 1..Len(s) \subseteq 1..Len(r) /\ Len(s) + 1 \in 1..Len(r)
    BY <1>2
  <2> QED BY <1>2, <2>1, <2>2, ToSetMember
<1>4. ASSUME NoDuplicates(s), x \notin ToSet(s) PROVE NoDuplicates(r)
  <2>1. \A i \in 1..Len(s) : s[i] # x
    BY <1>4, ToSetMember
  <2>2. \A i \in 1..Len(r) : i \in 1..Len(s) \/ i = Len(s) + 1
    BY <1>2
  <2> QED BY <1>2, <1>4, <2>1, <2>2 DEF NoDuplicates
<1> QED BY <1>1, <1>2, <1>3, <1>4

(* The head is taken off.                                                  *)
LEMMA TailSet ==
    ASSUME NEW T, NEW s \in Seq(T), s # <<>>
    PROVE  /\ Tail(s) \in Seq(T) /\ Head(s) \in T
           /\ ToSet(s) = ToSet(Tail(s)) \cup {Head(s)}
           /\ NoDuplicates(s) => NoDuplicates(Tail(s)) /\ Head(s) \notin ToSet(Tail(s))
<1>1. PICK r : r = Tail(s)
  OBVIOUS
<1>2. /\ r \in Seq(T) /\ Len(r) = Len(s) - 1 /\ Len(s) \in Nat \ {0} /\ Head(s) = s[1]
      /\ \A i \in 1..Len(r) : r[i] = s[i + 1]
  BY <1>1, HeadTailProperties, EmptySeq
<1>3. Head(s) \in T
  BY HeadTailProperties
<1>4. \A i \in 1..Len(s) : i = 1 \/ (i - 1 \in 1..Len(r) /\ r[i - 1] = s[i])
  <2> TAKE i \in 1..Len(s)
  <2>1. i = 1 \/ (i - 1 \in 1..Len(r) /\ (i - 1) + 1 = i)
    BY <1>2
  <2> QED BY <2>1, <1>2
<1>5. \A i \in 1..Len(r) : i + 1 \in 1..Len(s) /\ i + 1 # 1
  BY <1>2
<1>6. \A x : x \in ToSet(s) <=> x \in ToSet(r) \cup {Head(s)}
  <2>1. ASSUME NEW x \in ToSet(s) PROVE x \in ToSet(r) \cup {Head(s)}
    <3>1. PICK i \in 1..Len(s) : x = s[i]
      BY <2>1, ToSetMember
    <3> QED BY <3>1, <1>2, <1>4, ToSetMember
  <2>2. ToSet(r) \subseteq ToSet(s)
    BY <1>2, <1>5, ToSetMember
  <2>3. Head(s) \in ToSet(s)
    <3>1. 1 \in 1..Len(s)
      BY <1>2
    <3> QED BY <3>1, <1>2, ToSetMember
  <2> QED BY <2>1, <2>2, <2>3
<1>7. ASSUME NoDuplicates(s) PROVE NoDuplicates(r) /\ Head(s) \notin ToSet(r)
  <2>1. NoDuplicates(r)
    <3> SUFFICES ASSUME NEW i \in 1..Len(r), NEW j \in 1..Len(r), r[i] = r[j] PROVE i = j
      BY DEF NoDuplicates
    <3>1. s[i + 1] = s[j + 1]
      BY <1>2
    <3>2. i + 1 = j + 1
      BY <3>1, <1>5, <1>7 DEF NoDuplicates
    <3> QED BY <3>2
  <2>2. Head(s) \notin ToSet(r)
    <3> SUFFICES ASSUME NEW i \in 1..Len(r), s[1] = r[i] PROVE FALSE
      BY <1>2, ToSetMember
    <3>1. s[1] = s[i + 1] /\ 1 \in 1..Len(s)
      BY <1>2
    <3> QED BY <3>1, <1>5, <1>7 DEF NoDuplicates
  <2> QED BY <2>1, <2>2
<1> QED BY <1>1, <1>2, <1>3, <1>6, <1>7

(* Sift keeps the elements that are in S, and no other, each as often as   *)
(* it was there.                                                           *)
LEMMA SiftSet ==
    ASSUME NEW T, NEW s \in Seq(T), NEW S
    PROVE  /\ Sift(s, S) \in Seq(T)
           /\ ToSet(Sift(s, S)) = ToSet(s) \cap S
           /\ NoDuplicates(s) => NoDuplicates(Sift(s, S))
<1>0. Len(s) \in Nat /\ \A i \in 1..Len(s) : s[i] \in T
  BY ElementOfSeq
<1>0a. PICK kept : Sifts(kept, s, S)
  BY SiftUnfolds
<1>1. /\ Sift(s, S) = kept[Len(s)]
      /\ kept[0] = <<>>
      /\ \A i \in 1..Len(s) :
            kept[i] = IF s[i] \in S THEN Append(kept[i - 1], s[i]) ELSE kept[i - 1]
  BY <1>0a DEF Sifts
<1> DEFINE Good(i) == /\ kept[i] \in Seq(T)
                      /\ \A x : x \in ToSet(kept[i]) <=> x \in S /\ \E j \in 1..i : x = s[j]
                      /\ NoDuplicates(s) => NoDuplicates(kept[i])
           Goods == {i \in 0..Len(s) : Good(i)}
<1>2. 0 \in Goods
  <2>1. kept[0] \in Seq(T) /\ Len(kept[0]) = 0
    BY <1>1, EmptySeq
  <2>2. \A x : x \notin ToSet(kept[0])
    BY <2>1, ToSetMember
  <2>3. NoDuplicates(kept[0])
    BY <2>1 DEF NoDuplicates
  <2> QED BY <1>0, <2>1, <2>2, <2>3
<1>3. ASSUME NEW i \in 1..Len(s), i - 1 \in Goods PROVE i \in Goods
  <2>0. i \in 0..Len(s) /\ i - 1 \in Nat /\ \A j : j \in 1..i <=> j \in 1..(i - 1) \/ j = i
    BY <1>0
  <2>1. PICK k : k = kept[i - 1]
    OBVIOUS
  <2>2. /\ k \in Seq(T)
        /\ \A x : x \in ToSet(k) <=> x \in S /\ \E j \in 1..(i - 1) : x = s[j]
        /\ NoDuplicates(s) => NoDuplicates(k)
    BY <1>3, <2>1
  <2>3. CASE s[i] \in S
    <3>1. kept[i] = Append(k, s[i]) /\ s[i] \in T
      BY <2>1, <2>3, <1>0, <1>1
    <3>2. kept[i] \in Seq(T) /\ ToSet(kept[i]) = ToSet(k) \cup {s[i]}
      BY <3>1, <2>2, AppendSet
    <3>3. ASSUME NoDuplicates(s) PROVE NoDuplicates(kept[i])
      <4>1. s[i] \notin ToSet(k)
        <5>1. \A j \in 1..(i - 1) : j \in 1..Len(s) /\ j # i
          BY <1>0
        <5> QED BY <5>1, <3>3, <2>2 DEF NoDuplicates
      <4> QED BY <4>1, <3>1, <3>3, <2>2, AppendSet
    <3>4. \A x : x \in ToSet(kept[i]) <=> x \in S /\ \E j \in 1..i : x = s[j]
      BY <3>2, <2>0, <2>2, <2>3
    <3> QED BY <3>2, <3>3, <3>4, <2>0
  <2>4. CASE s[i] \notin S
    <3>1. kept[i] = k
      BY <2>1, <2>4, <1>1
    <3>2. \A x : x \in ToSet(kept[i]) <=> x \in S /\ \E j \in 1..i : x = s[j]
      BY <3>1, <2>0, <2>2, <2>4
    <3> QED BY <3>1, <3>2, <2>0, <2>2
  <2> QED BY <2>3, <2>4
<1>4. 0..Len(s) \subseteq Goods
  <2> HIDE DEF Goods
  <2> QED BY <1>0, <1>2, <1>3, InductionUpTo
<1>5. Good(Len(s))
  <2>1. Len(s) \in 0..Len(s)
    BY <1>0
  <2> QED BY <2>1, <1>4
<1>6. \A x : x \in ToSet(Sift(s, S)) <=> x \in ToSet(s) \cap S
  BY <1>1, <1>5, ToSetMember
<1> QED BY <1>1, <1>5, <1>6

(* Some of the front of a sequence is taken off, or all that is left.      *)
LEMMA SubSeqTyped ==
    ASSUME NEW T, NEW s \in Seq(T), NEW m \in Nat \ {0}, NEW n \in 0..Len(s)
    PROVE  SubSeq(s, m, n) \in Seq(T)
<1>1. \A i \in m..n : i \in 1..Len(s)
  OBVIOUS
<1>2. \A i \in m..n : s[i] \in T
  BY <1>1, ElementOfSeq
<1>3. m \in Int /\ n \in Int
  OBVIOUS
<1> QED BY <1>2, <1>3, SubSeqProperties

-----------------------------------------------------------------------------
(* Sequences, sifted and mapped. *)

(* Concatenation and the sequence of one element, under names of their     *)
(* own: the provers then reason about them by the lemmas below instead of  *)
(* position by position.                                                   *)
Cat(s, t) == s \o t
One(x)    == <<x>>

(* The laws of concatenation.                                              *)
LEMMA CatLaws ==
    ASSUME NEW T, NEW s \in Seq(T), NEW t \in Seq(T)
    PROVE  /\ Cat(s, t) \in Seq(T)
           /\ Cat(s, <<>>) = s /\ Cat(<<>>, s) = s
           /\ ToSet(Cat(s, t)) = ToSet(s) \cup ToSet(t)
<1>1. PICK r : r = s \o t
  OBVIOUS
<1>2. /\ r \in Seq(T) /\ Len(s) \in Nat /\ Len(t) \in Nat /\ Len(r) = Len(s) + Len(t)
      /\ \A i \in 1..Len(s) : i \in 1..Len(r) /\ r[i] = s[i]
      /\ \A i \in 1..Len(t) : Len(s) + i \in 1..Len(r) /\ r[Len(s) + i] = t[i]
      /\ \A k \in 1..Len(r) : \/ k \in 1..Len(s) /\ r[k] = s[k]
                              \/ k > Len(s) /\ k - Len(s) \in 1..Len(t) /\ r[k] = t[k - Len(s)]
  BY <1>1, ConcatFacts
<1>3. \A x : x \in ToSet(r) <=> x \in ToSet(s) \/ x \in ToSet(t)
  <2>1. ASSUME NEW x \in ToSet(r) PROVE x \in ToSet(s) \/ x \in ToSet(t)
    <3>1. PICK k \in 1..Len(r) : x = r[k]
      BY <2>1, <1>2, ToSetMember
    <3> QED BY <3>1, <1>2, ToSetMember
  <2>2. ASSUME NEW x \in ToSet(s) PROVE x \in ToSet(r)
    <3>1. PICK k \in 1..Len(s) : x = s[k]
      BY <2>2, ToSetMember
    <3> QED BY <3>1, <1>2, ToSetMember
  <2>3. ASSUME NEW x \in ToSet(t) PROVE x \in ToSet(r)
    <3>1. PICK k \in 1..Len(t) : x = t[k]
      BY <2>3, ToSetMember
    <3> QED BY <3>1, <1>2, ToSetMember
  <2> QED BY <2>1, <2>2, <2>3
<1>4. ToSet(r) = ToSet(s) \cup ToSet(t)
  BY <1>3
<1>5. s \o <<>> = s /\ <<>> \o s = s
  BY ConcatEmptySeq
<1> QED BY <1>1, <1>2, <1>4, <1>5 DEF Cat

(* Three sequences.                                                        *)
LEMMA CatAssociates ==
    ASSUME NEW T, NEW s \in Seq(T), NEW t \in Seq(T), NEW u \in Seq(T)
    PROVE  Cat(Cat(s, t), u) = Cat(s, Cat(t, u))
BY ConcatAssociative DEF Cat

(* A sequence of one element, and push_back.                               *)
LEMMA OneLaws ==
    ASSUME NEW T, NEW s \in Seq(T), NEW x \in T
    PROVE  /\ One(x) \in Seq(T) /\ Len(One(x)) = 1 /\ One(x)[1] = x
           /\ ToSet(One(x)) = {x}
           /\ Append(s, x) = Cat(s, One(x))
<1>1. <<x>> \in Seq(T) /\ Len(<<x>>) = 1 /\ <<x>>[1] = x
  OBVIOUS
<1>2. ToSet(<<x>>) = {x}
  BY DEF ToSet
<1>3. Append(s, x) = s \o <<x>>
  BY AppendIsConcat
<1> QED BY <1>1, <1>2, <1>3 DEF Cat, One

(* The first element, and the rest.                                        *)
LEMMA HeadCatTail ==
    ASSUME NEW T, NEW s \in Seq(T), s # <<>>
    PROVE  s = Cat(One(Head(s)), Tail(s)) /\ Head(s) \in T /\ Tail(s) \in Seq(T)
<1>1. /\ Head(s) \in T /\ Tail(s) \in Seq(T) /\ Len(Tail(s)) = Len(s) - 1 /\ Head(s) = s[1]
      /\ \A i \in 1..Len(Tail(s)) : Tail(s)[i] = s[i + 1]
      /\ Len(s) \in Nat \ {0}
  BY HeadTailProperties, EmptySeq
<1>2. PICK h, r, c : h = <<Head(s)>> /\ r = Tail(s) /\ c = h \o r
  OBVIOUS
<1>3. h \in Seq(T) /\ Len(h) = 1 /\ h[1] = s[1] /\ r \in Seq(T)
  BY <1>1, <1>2
<1>4. /\ c \in Seq(T) /\ Len(c) = Len(h) + Len(r)
      /\ \A k \in 1..Len(c) : \/ k \in 1..Len(h) /\ c[k] = h[k]
                              \/ k > Len(h) /\ k - Len(h) \in 1..Len(r) /\ c[k] = r[k - Len(h)]
  BY <1>2, <1>3, ConcatFacts
<1>5. Len(c) = Len(s)
  BY <1>1, <1>2, <1>3, <1>4
<1>6. ASSUME NEW k \in 1..Len(s) PROVE c[k] = s[k]
  <2>1. CASE k = 1
    BY <2>1, <1>3, <1>4, <1>5
  <2>2. CASE k # 1
    <3>1. k > 1 /\ k - 1 \in 1..Len(r) /\ (k - 1) + 1 = k
      BY <2>2, <1>1, <1>2
    <3>2. c[k] = r[k - 1]
      BY <3>1, <1>3, <1>4, <1>5
    <3> QED BY <3>1, <3>2, <1>1, <1>2
  <2> QED BY <2>1, <2>2
<1>7. c = s
  BY <1>4, <1>5, <1>6, SeqEqual
<1> QED BY <1>1, <1>2, <1>7 DEF Cat, One

(* Append at the end of the second of two sequences.                       *)
LEMMA ConcatAppend ==
    ASSUME NEW T, NEW s \in Seq(T), NEW t \in Seq(T), NEW x \in T
    PROVE  s \o Append(t, x) = Append(s \o t, x)
<1>1. <<x>> \in Seq(T) /\ s \o t \in Seq(T)
  BY ConcatProperties
<1>2. Append(t, x) = t \o <<x>> /\ Append(s \o t, x) = (s \o t) \o <<x>>
  BY <1>1, AppendIsConcat
<1> QED BY <1>1, <1>2, ConcatAssociative

(* Sift takes a sequence in parts.                                         *)
LEMMA SiftCat ==
    ASSUME NEW T, NEW s \in Seq(T), NEW t \in Seq(T), NEW S
    PROVE  Sift(Cat(s, t), S) = Cat(Sift(s, S), Sift(t, S))
<1>1. PICK r : r = s \o t
  OBVIOUS
<1>2. /\ r \in Seq(T) /\ Len(s) \in Nat /\ Len(t) \in Nat /\ Len(r) = Len(s) + Len(t)
      /\ \A i \in 1..Len(s) : i \in 1..Len(r) /\ r[i] = s[i]
      /\ \A i \in 1..Len(t) : Len(s) + i \in 1..Len(r) /\ r[Len(s) + i] = t[i]
  BY <1>1, ConcatFacts
<1>2a. r \in Seq(T)
  BY <1>2
<1>2b. PICK kr, ks, kt : Sifts(kr, r, S) /\ Sifts(ks, s, S) /\ Sifts(kt, t, S)
  BY <1>2a, SiftUnfolds, Zenon
<1>3. /\ Sift(r, S) = kr[Len(r)] /\ kr[0] = <<>>
      /\ \A i \in 1..Len(r) :
            kr[i] = IF r[i] \in S THEN Append(kr[i - 1], r[i]) ELSE kr[i - 1]
  BY <1>2b DEF Sifts
<1>4. /\ Sift(s, S) = ks[Len(s)] /\ ks[0] = <<>>
      /\ \A i \in 1..Len(s) :
            ks[i] = IF s[i] \in S THEN Append(ks[i - 1], s[i]) ELSE ks[i - 1]
  BY <1>2b DEF Sifts
<1>5. /\ Sift(t, S) = kt[Len(t)] /\ kt[0] = <<>>
      /\ \A i \in 1..Len(t) :
            kt[i] = IF t[i] \in S THEN Append(kt[i - 1], t[i]) ELSE kt[i - 1]
  BY <1>2b DEF Sifts
<1>6. kr[Len(s)] = ks[Len(s)]
  <2> DEFINE G == {i \in 0..Len(s) : kr[i] = ks[i]}
  <2>1. 0 \in G
    BY <1>2, <1>3, <1>4
  <2>2. ASSUME NEW i \in 1..Len(s), i - 1 \in G PROVE i \in G
    <3>1. r[i] = s[i] /\ i \in 1..Len(r) /\ kr[i - 1] = ks[i - 1] /\ i \in 0..Len(s)
      BY <2>2, <1>2
    <3> QED BY <3>1, <1>3, <1>4
  <2>3. 0..Len(s) \subseteq G
    <3> HIDE DEF G
    <3> QED BY <2>1, <2>2, <1>2, InductionUpTo
  <2>4. Len(s) \in G
    BY <2>3, <1>2
  <2> QED BY <2>4
<1>7. kr[Len(s)] \in Seq(T)
  BY <1>4, <1>6, SiftSet
<1>8. kt[Len(t)] \in Seq(T) /\ kr[Len(s) + Len(t)] = kr[Len(s)] \o kt[Len(t)]
  <2> DEFINE G == {i \in 0..Len(t) : kt[i] \in Seq(T) /\ kr[Len(s) + i] = kr[Len(s)] \o kt[i]}
  <2>1. 0 \in G
    <3>1. Len(s) + 0 = Len(s) /\ 0 \in 0..Len(t)
      BY <1>2
    <3>2. kt[0] \in Seq(T) /\ kr[Len(s)] \o kt[0] = kr[Len(s)]
      BY <1>5, <1>7, ConcatEmptySeq, EmptySeq
    <3> QED BY <3>1, <3>2
  <2>2. ASSUME NEW i \in 1..Len(t), i - 1 \in G PROVE i \in G
    <3>1. /\ Len(s) + i \in 1..Len(r) /\ r[Len(s) + i] = t[i] /\ i \in 0..Len(t)
          /\ (Len(s) + i) - 1 = Len(s) + (i - 1) /\ t[i] \in T
      BY <1>2, ElementOfSeq
    <3>2. PICK a : a = kt[i - 1]
      OBVIOUS
    <3>3. PICK b : b = kr[Len(s) + (i - 1)]
      OBVIOUS
    <3>4. a \in Seq(T) /\ b = kr[Len(s)] \o a
      BY <2>2, <3>2, <3>3
    <3>5. /\ kt[i] = IF t[i] \in S THEN Append(a, t[i]) ELSE a
          /\ kr[Len(s) + i] = IF t[i] \in S THEN Append(b, t[i]) ELSE b
      BY <3>1, <3>2, <3>3, <1>3, <1>5
    <3>6. Append(a, t[i]) \in Seq(T) /\ kr[Len(s)] \o Append(a, t[i]) = Append(b, t[i])
      <4>1. t[i] \in T /\ a \in Seq(T)
        BY <3>1, <3>4
      <4>2. Append(a, t[i]) \in Seq(T)
        BY <4>1, AppendProperties
      <4>3. PICK c, x : c = kr[Len(s)] /\ x = t[i]
        OBVIOUS
      <4>4. c \o Append(a, x) = Append(c \o a, x)
        <5>1. c \in Seq(T) /\ a \in Seq(T) /\ x \in T
          BY <4>1, <4>3, <1>7
        <5> QED BY <5>1, ConcatAppend
      <4> QED BY <4>2, <4>3, <4>4, <3>4
    <3> QED BY <3>1, <3>4, <3>5, <3>6
  <2>3. 0..Len(t) \subseteq G
    <3> HIDE DEF G
    <3> QED BY <2>1, <2>2, <1>2, InductionUpTo
  <2>4. Len(t) \in G
    <3>1. Len(t) \in 0..Len(t)
      BY <1>2
    <3> HIDE DEF G
    <3> QED BY <3>1, <2>3
  <2> QED BY <2>4
<1>9. Sift(r, S) = Sift(s, S) \o Sift(t, S)
  BY <1>2, <1>3, <1>4, <1>5, <1>6, <1>8
<1> QED BY <1>1, <1>9 DEF Cat

(* A sequence of one element, and one of none.                             *)
LEMMA SiftOne ==
    ASSUME NEW x, NEW S
    PROVE  Sift(One(x), S) = IF x \in S THEN One(x) ELSE <<>>
<1>1. PICK s : s = <<x>>
  OBVIOUS
<1>2. s \in Seq({x}) /\ Len(s) = 1 /\ 1 \in 1..Len(s) /\ s[1] = x
  BY <1>1
<1>2a. s \in Seq({x})
  BY <1>2
<1>2b. PICK k : Sifts(k, s, S)
  BY <1>2a, SiftUnfolds, Zenon
<1>3. /\ Sift(s, S) = k[Len(s)] /\ k[0] = <<>>
      /\ \A i \in 1..Len(s) :
            k[i] = IF s[i] \in S THEN Append(k[i - 1], s[i]) ELSE k[i - 1]
  BY <1>2b DEF Sifts
<1>4. Sift(s, S) = IF x \in S THEN Append(<<>>, x) ELSE <<>>
  <2>1. 1 - 1 = 0
    OBVIOUS
  <2> QED BY <2>1, <1>2, <1>3
<1>5. Append(<<>>, x) = <<x>>
  OBVIOUS
<1> QED BY <1>1, <1>4, <1>5 DEF One

(* Nothing is kept where nothing is wanted.                                *)
LEMMA SiftNone ==
    ASSUME NEW T, NEW s \in Seq(T), NEW S, ToSet(s) \cap S = {}
    PROVE  Sift(s, S) = <<>>
<1>1. Sift(s, S) \in Seq(T) /\ ToSet(Sift(s, S)) = {}
  BY SiftSet
<1>2. PICK r : r = Sift(s, S)
  OBVIOUS
<1>3. ASSUME r # <<>> PROVE FALSE
  <2>1. 1 \in 1..Len(r)
    BY <1>1, <1>2, <1>3, EmptySeq
  <2> QED BY <2>1, <1>1, <1>2, ToSetMember
<1> QED BY <1>2, <1>3

(* The empty sequence.                                                     *)
LEMMA SiftEmpty ==
    ASSUME NEW S
    PROVE  Sift(<<>>, S) = <<>>
<1>1. <<>> \in Seq({}) /\ ToSet(<<>>) = {}
  BY EmptySeq DEF ToSet
<1> QED BY <1>1, SiftNone

(* One element alone is wanted, and it is there once.                      *)
LEMMA SiftSingle ==
    ASSUME NEW T, NEW s \in Seq(T), NEW S, NEW k \in 1..Len(s),
           \A i \in 1..Len(s) : s[i] \in S <=> i = k
    PROVE  Sift(s, S) = One(s[k])
<1>0. Len(s) \in Nat /\ s[k] \in T
  BY ElementOfSeq
<1>1. PICK a, b : a = SubSeq(s, 1, k - 1) /\ b = SubSeq(s, k + 1, Len(s))
  OBVIOUS
<1>2. /\ a \in Seq(T) /\ Len(a) = k - 1 /\ \A i \in 1..(k - 1) : a[i] = s[i]
  <2>1. \A i \in 1..(k - 1) : s[i] \in T
    BY ElementOfSeq
  <2>2. /\ a \in Seq(T) /\ Len(a) = IF 1 <= k - 1 THEN (k - 1) - 1 + 1 ELSE 0
        /\ \A i \in 1..((k - 1) - 1 + 1) : a[i] = s[1 + i - 1]
    BY <2>1, <1>1, SubSeqProperties
  <2>3. Len(a) = k - 1 /\ (k - 1) - 1 + 1 = k - 1 /\ \A i \in 1..(k - 1) : 1 + i - 1 = i
    BY <2>2
  <2> QED BY <2>2, <2>3
<1>3. /\ b \in Seq(T) /\ Len(b) = Len(s) - k /\ \A i \in 1..(Len(s) - k) : b[i] = s[k + i]
  <2>1. \A i \in (k + 1)..Len(s) : s[i] \in T
    BY ElementOfSeq
  <2>2. k + 1 \in Int /\ Len(s) \in Int
    BY <1>0
  <2>3. /\ b \in Seq(T) /\ Len(b) = IF k + 1 <= Len(s) THEN Len(s) - (k + 1) + 1 ELSE 0
        /\ \A i \in 1..(Len(s) - (k + 1) + 1) : b[i] = s[(k + 1) + i - 1]
    BY <2>1, <2>2, <1>1, SubSeqProperties
  <2>4. /\ Len(b) = Len(s) - k /\ Len(s) - (k + 1) + 1 = Len(s) - k
        /\ \A i \in 1..(Len(s) - k) : (k + 1) + i - 1 = k + i
    BY <2>3, <1>0
  <2> QED BY <2>3, <2>4
<1>4. s = (a \o << s[k] >>) \o b
  <2>1. PICK c : c = a \o << s[k] >>
    OBVIOUS
  <2>2. << s[k] >> \in Seq(T) /\ Len(<< s[k] >>) = 1 /\ << s[k] >>[1] = s[k]
    BY <1>0
  <2>3. /\ c \in Seq(T) /\ Len(c) = k
        /\ \A i \in 1..k : c[i] = s[i]
    <3>1. PICK o : o = << s[k] >>
      OBVIOUS
    <3>2. /\ c \in Seq(T) /\ Len(c) = Len(a) + Len(o)
          /\ \A i \in 1..Len(a) : c[i] = a[i]
          /\ \A i \in 1..Len(o) : c[Len(a) + i] = o[i]
      BY <3>1, <2>1, <2>2, <1>2, ConcatFacts
    <3>3. Len(o) = 1 /\ o[1] = s[k] /\ 1 \in 1..Len(o) /\ Len(a) + 1 = k
      BY <3>1, <2>2, <1>2
    <3>4. \A i \in 1..k : i \in 1..(k - 1) \/ i = k
      OBVIOUS
    <3> QED BY <3>2, <3>3, <3>4, <1>2
  <2>4. PICK d : d = c \o b
    OBVIOUS
  <2>5. /\ d \in Seq(T) /\ Len(d) = Len(c) + Len(b)
        /\ \A i \in 1..Len(c) : d[i] = c[i]
        /\ \A i \in 1..Len(b) : d[Len(c) + i] = b[i]
    <3>1. c \in Seq(T) /\ b \in Seq(T)
      BY <2>3, <1>3
    <3> QED BY <3>1, <2>4, ConcatFacts
  <2>6. Len(d) = Len(s)
    BY <2>3, <2>5, <1>0, <1>3
  <2>7. ASSUME NEW i \in 1..Len(s) PROVE s[i] = d[i]
    <3>1. CASE i <= k
      <4>1. i \in 1..k /\ 1..k = 1..Len(c)
        BY <3>1, <2>3
      <4>2. d[i] = c[i]
        BY <4>1, <2>5
      <4> QED BY <4>1, <4>2, <2>3
    <3>2. CASE i > k
      <4>1. i - k \in 1..Len(b) /\ k + (i - k) = i /\ i - k \in 1..(Len(s) - k)
        BY <3>2, <1>0, <1>3
      <4>2. d[k + (i - k)] = b[i - k] /\ b[i - k] = s[k + (i - k)]
        BY <4>1, <2>3, <2>5, <1>3
      <4> QED BY <4>1, <4>2
    <3> QED BY <3>1, <3>2
  <2>8. s = d
    BY <2>5, <2>6, <2>7, SeqEqual
  <2> QED BY <2>1, <2>4, <2>8
<1>5. Sift(a, S) = <<>> /\ Sift(b, S) = <<>>
  <2>1. \A i \in 1..Len(a) : a[i] \notin S
    BY <1>2
  <2>2. \A i \in 1..Len(b) : k + i \in 1..Len(s) /\ k + i # k
    BY <1>0, <1>3
  <2>3. \A i \in 1..Len(b) : b[i] \notin S
    BY <2>2, <1>3
  <2>4. ToSet(a) \cap S = {} /\ ToSet(b) \cap S = {}
    BY <2>1, <2>3, <1>2, <1>3, ToSetMember
  <2> QED BY <2>4, <1>2, <1>3, SiftNone
<1>6. PICK o : o = One(s[k])
  OBVIOUS
<1>7. Sift(o, S) = o
  BY <1>6, SiftOne
<1>8. a \in Seq(T) /\ b \in Seq(T) /\ o \in Seq(T) /\ Cat(a, o) \in Seq(T) /\ <<>> \in Seq(T)
  BY <1>0, <1>2, <1>3, <1>6, OneLaws, CatLaws, EmptySeq
<1>9. s = Cat(Cat(a, o), b)
  BY <1>4, <1>6 DEF Cat, One
<1>10. Sift(s, S) = Cat(Cat(<<>>, o), <<>>)
  BY <1>5, <1>7, <1>8, <1>9, SiftCat
<1>11. Sift(s, S) = o
  BY <1>8, <1>10, CatLaws
<1> QED BY <1>6, <1>11

(* What is kept is wanted.                                                 *)
LEMMA SiftTyped ==
    ASSUME NEW T, NEW s \in Seq(T), NEW S
    PROVE  Sift(s, S) \in Seq(S)
<1>1. PICK r : r = Sift(s, S)
  OBVIOUS
<1>2. r \in Seq(T) /\ ToSet(r) \subseteq S
  BY <1>1, SiftSet
<1>3. Len(r) \in Nat /\ DOMAIN r = 1..Len(r) /\ r \in [1..Len(r) -> T]
  BY <1>2, LenProperties
<1>4. \A i \in 1..Len(r) : r[i] \in S
  BY <1>2, ToSetMember
<1>5. r \in [1..Len(r) -> S]
  BY <1>3, <1>4
<1>6. r \in Seq(S)
  BY <1>3, <1>5, FunctionIsSeq
<1> QED BY <1>1, <1>6

(* The elements of s that are in S, each taken to its value under g.       *)
Through(s, g) == [i \in 1..Len(s) |-> g[s[i]]]
Picked(s, S, g) == Through(Sift(s, S), g)

Maps(g, T, U) == g \in [T -> U]
Image(g, X) == {g[x] : x \in X}

(* Mapping a sequence.                                                     *)
LEMMA ThroughLaws ==
    ASSUME NEW T, NEW U, NEW s \in Seq(T), NEW g, Maps(g, T, U)
    PROVE  /\ Through(s, g) \in Seq(U) /\ Len(Through(s, g)) = Len(s)
           /\ \A i \in 1..Len(s) : Through(s, g)[i] = g[s[i]]
<1>1. Len(s) \in Nat /\ \A i \in 1..Len(s) : s[i] \in T
  BY ElementOfSeq
<1>2. PICK r : r = [i \in 1..Len(s) |-> g[s[i]]]
  OBVIOUS
<1>3. r \in [1..Len(s) -> U] /\ \A i \in 1..Len(s) : r[i] = g[s[i]]
  BY <1>1, <1>2 DEF Maps
<1>4. r \in Seq(U) /\ Len(r) = Len(s)
  BY <1>1, <1>3, FunctionIsSeq
<1> QED BY <1>2, <1>3, <1>4 DEF Through

(* ... maps what is in it...                                               *)
LEMMA ThroughSet ==
    ASSUME NEW T, NEW U, NEW s \in Seq(T), NEW g, Maps(g, T, U)
    PROVE  ToSet(Through(s, g)) = Image(g, ToSet(s))
<1>1. PICK r : r = Through(s, g)
  OBVIOUS
<1>2. r \in Seq(U) /\ Len(r) = Len(s) /\ \A i \in 1..Len(s) : r[i] = g[s[i]]
  BY <1>1, ThroughLaws
<1>3. \A y : y \in ToSet(r) <=> \E x \in ToSet(s) : y = g[x]
  BY <1>2, ToSetMember
<1> QED BY <1>1, <1>3 DEF Image

(* ... takes it in parts...                                                *)
LEMMA ThroughCat ==
    ASSUME NEW T, NEW U, NEW s \in Seq(T), NEW t \in Seq(T), NEW g, Maps(g, T, U)
    PROVE  Through(Cat(s, t), g) = Cat(Through(s, g), Through(t, g))
<1>1. PICK r, a, b : r = s \o t /\ a = Through(s, g) /\ b = Through(t, g)
  OBVIOUS
<1>2. /\ r \in Seq(T) /\ Len(s) \in Nat /\ Len(t) \in Nat /\ Len(r) = Len(s) + Len(t)
      /\ \A k \in 1..Len(r) : \/ k \in 1..Len(s) /\ r[k] = s[k]
                              \/ k > Len(s) /\ k - Len(s) \in 1..Len(t) /\ r[k] = t[k - Len(s)]
  BY <1>1, ConcatFacts
<1>3. PICK c : c = Through(r, g)
  OBVIOUS
<1>4. /\ a \in Seq(U) /\ Len(a) = Len(s) /\ \A i \in 1..Len(s) : a[i] = g[s[i]]
      /\ b \in Seq(U) /\ Len(b) = Len(t) /\ \A i \in 1..Len(t) : b[i] = g[t[i]]
      /\ c \in Seq(U) /\ Len(c) = Len(r) /\ \A i \in 1..Len(r) : c[i] = g[r[i]]
  <2>1. r \in Seq(T)
    BY <1>2
  <2>2. PICK x, y : x = Through(s, g) /\ y = Through(t, g)
    OBVIOUS
  <2>3. x \in Seq(U) /\ Len(x) = Len(s) /\ \A i \in 1..Len(s) : x[i] = g[s[i]]
    BY <2>2, ThroughLaws
  <2>4. y \in Seq(U) /\ Len(y) = Len(t) /\ \A i \in 1..Len(t) : y[i] = g[t[i]]
    BY <2>2, ThroughLaws
  <2>5. c \in Seq(U) /\ Len(c) = Len(r) /\ \A i \in 1..Len(r) : c[i] = g[r[i]]
    BY <2>1, <1>3, ThroughLaws
  <2>6. a = x /\ b = y
    BY <2>2, <1>1
  <2> QED BY <2>3, <2>4, <2>5, <2>6
<1>5. PICK d : d = a \o b
  OBVIOUS
<1>6. /\ d \in Seq(U) /\ Len(d) = Len(a) + Len(b)
      /\ \A i \in 1..Len(a) : d[i] = a[i]
      /\ \A i \in 1..Len(b) : d[Len(a) + i] = b[i]
  <2>1. a \in Seq(U) /\ b \in Seq(U)
    BY <1>4
  <2> QED BY <2>1, <1>5, ConcatFacts
<1>7. Len(c) = Len(d)
  BY <1>2, <1>4, <1>6
<1>8. ASSUME NEW k \in 1..Len(c) PROVE c[k] = d[k]
  <2>1. k \in 1..Len(r)
    BY <1>4
  <2>2. CASE k \in 1..Len(s) /\ r[k] = s[k]
    BY <2>1, <2>2, <1>4, <1>6
  <2>3. CASE k > Len(s) /\ k - Len(s) \in 1..Len(t) /\ r[k] = t[k - Len(s)]
    <3>1. d[Len(a) + (k - Len(s))] = b[k - Len(s)] /\ Len(a) + (k - Len(s)) = k
      BY <2>1, <2>3, <1>2, <1>4, <1>6
    <3> QED BY <3>1, <2>1, <2>3, <1>4
  <2> QED BY <2>1, <2>2, <2>3, <1>2
<1>9. c = d
  BY <1>4, <1>6, <1>7, <1>8, SeqEqual
<1> QED BY <1>1, <1>3, <1>5, <1>9 DEF Cat

(* ... and one element to one.                                             *)
LEMMA ThroughOne ==
    ASSUME NEW T, NEW U, NEW x \in T, NEW g, Maps(g, T, U)
    PROVE  Through(One(x), g) = One(g[x]) /\ Through(<<>>, g) = <<>>
<1>1. Through(One(x), g) = One(g[x])
  <2>1. PICK o, c : o = One(x) /\ c = Through(o, g)
    OBVIOUS
  <2>2. o \in Seq(T) /\ Len(o) = 1 /\ o[1] = x /\ <<>> \in Seq(T)
    BY <2>1, OneLaws, EmptySeq
  <2>3. c \in Seq(U) /\ Len(c) = 1 /\ \A i \in 1..1 : c[i] = g[o[i]]
    BY <2>1, <2>2, ThroughLaws
  <2>4. One(g[x]) \in Seq(U) /\ Len(One(g[x])) = 1 /\ One(g[x])[1] = g[x]
    BY DEF One, Maps
  <2>5. PICK e : e = One(g[x])
    OBVIOUS
  <2>6. \A i \in 1..1 : c[i] = e[i]
    BY <2>2, <2>3, <2>4, <2>5
  <2>7. c = e
    BY <2>3, <2>4, <2>5, <2>6, SeqEqual
  <2> QED BY <2>1, <2>5, <2>7
<1>2. Through(<<>>, g) = <<>>
  BY EmptySeq DEF Through
<1> QED BY <1>1, <1>2

(* Picking elements of a sequence and mapping them.                        *)
LEMMA PickedTyped ==
    ASSUME NEW T, NEW U, NEW S, NEW s \in Seq(T), NEW g, Maps(g, S, U)
    PROVE  Picked(s, S, g) \in Seq(U)
<1>1. Sift(s, S) \in Seq(S)
  BY SiftTyped
<1> QED BY <1>1, ThroughLaws DEF Picked

(* ... gives the images of what is wanted...                               *)
LEMMA PickedSet ==
    ASSUME NEW T, NEW U, NEW S, NEW s \in Seq(T), NEW g, Maps(g, S, U)
    PROVE  ToSet(Picked(s, S, g)) = Image(g, ToSet(s) \cap S)
<1>1. Sift(s, S) \in Seq(S) /\ ToSet(Sift(s, S)) = ToSet(s) \cap S
  BY SiftTyped, SiftSet
<1> QED BY <1>1, ThroughSet DEF Picked

(* ... takes a sequence in parts...                                        *)
LEMMA PickedCat ==
    ASSUME NEW T, NEW U, NEW S, NEW s \in Seq(T), NEW t \in Seq(T), NEW g, Maps(g, S, U)
    PROVE  Picked(Cat(s, t), S, g) = Cat(Picked(s, S, g), Picked(t, S, g))
<1>1. Sift(s, S) \in Seq(S) /\ Sift(t, S) \in Seq(S)
  BY SiftTyped
<1>2. Sift(Cat(s, t), S) = Cat(Sift(s, S), Sift(t, S))
  BY SiftCat
<1>3. Through(Cat(Sift(s, S), Sift(t, S)), g) = Cat(Through(Sift(s, S), g), Through(Sift(t, S), g))
  BY <1>1, ThroughCat
<1> QED BY <1>2, <1>3 DEF Picked

(* ... and one that may be alone.                                          *)
LEMMA PickedOne ==
    ASSUME NEW U, NEW S, NEW x, NEW g, Maps(g, S, U)
    PROVE  /\ Picked(One(x), S, g) = IF x \in S THEN One(g[x]) ELSE <<>>
           /\ Picked(<<>>, S, g) = <<>>
<1>1. Through(<<>>, g) = <<>>
  BY EmptySeq DEF Through
<1>2. Sift(<<>>, S) = <<>>
  BY SiftEmpty
<1>3. CASE x \in S
  <2>1. Sift(One(x), S) = One(x) /\ Through(One(x), g) = One(g[x])
    BY <1>3, SiftOne, ThroughOne
  <2> QED BY <2>1, <1>1, <1>2, <1>3 DEF Picked
<1>4. CASE x \notin S
  <2>1. Sift(One(x), S) = <<>>
    BY <1>4, SiftOne
  <2> QED BY <2>1, <1>1, <1>2, <1>4 DEF Picked
<1> QED BY <1>3, <1>4

(* The two parts of a sequence.                                            *)
LEMMA SplitAt ==
    ASSUME NEW T, NEW s \in Seq(T), NEW n \in 0..Len(s)
    PROVE  /\ SubSeq(s, 1, n) \in Seq(T) /\ SubSeq(s, n + 1, Len(s)) \in Seq(T)
           /\ s = Cat(SubSeq(s, 1, n), SubSeq(s, n + 1, Len(s)))
<1>0. Len(s) \in Nat /\ n \in Nat /\ n <= Len(s)
  OBVIOUS
<1>1. SubSeq(s, 1, n) \in Seq(T) /\ SubSeq(s, n + 1, Len(s)) \in Seq(T)
  BY <1>0, SubSeqTyped
<1>2. PICK m, l : m = 1 /\ l = Len(s)
  OBVIOUS
<1>3. m \in 1..(Len(s) + 1) /\ n \in (m - 1)..Len(s) /\ l \in n..Len(s)
  BY <1>0, <1>2
<1>4. SubSeq(s, m, n) \o SubSeq(s, n + 1, l) = SubSeq(s, m, l)
  BY <1>3, ConcatAdjacentSubSeq
<1>5. SubSeq(s, 1, Len(s)) = s
  BY SubSeqFull
<1> QED BY <1>1, <1>2, <1>4, <1>5 DEF Cat

=============================================================================
