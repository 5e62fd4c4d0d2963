--------------------------- MODULE QuotingProofs ---------------------------
(***************************************************************************)
(* Proofs about the quoting session of strategy/orderbook_client and its   *)
(* wire protocol.                                                          *)
(***************************************************************************)
EXTENDS MCQuotingSession, OrderBookProofs, FiniteSetTheorems

Byte  == 0..255
Bytes == Seq(Byte)

-----------------------------------------------------------------------------
(* Integers as bytes. *)

(* The recursion of Capacity.                                              *)
LEMMA CapacityUnfolds ==
    ASSUME NEW width \in Nat
    PROVE  \E c \in [0..width -> Nat \ {0}] :
              /\ Capacity(width) = c[width] /\ c[0] = 1
              /\ \A k \in 1..width : c[k] = 256 * c[k - 1]
<1> DEFINE Eq(f) == f = [k \in 0..width |-> IF k = 0 THEN 1 ELSE 256 * f[k - 1]]
           P == Nat \ {0}
<1>1. PICK g : g = [x \in P \X (1..width) |-> 256 * x[1]]
  OBVIOUS
<1>2. g \in [P \X (1..width) -> P]
  BY <1>1
<1>2a. 1 \in P
  OBVIOUS
<1>3. PICK h : Iterates(h, P, 1, g, width)
  <2> HIDE DEF P
  <2> QED BY <1>2, <1>2a, IterationExists
<1>4. /\ h \in [0..width -> P] /\ h[0] = 1
      /\ \A i \in 1..width : h[i] = g[<<h[i - 1], i>>]
  BY <1>3 DEF Iterates
<1>5. ASSUME NEW i \in 1..width PROVE h[i] = 256 * h[i - 1]
  <2>1. i - 1 \in 0..width
    OBVIOUS
  <2>2. <<h[i - 1], i>> \in P \X (1..width)
    BY <2>1, <1>4
  <2> QED BY <2>2, <1>1, <1>4
<1>6. Eq(h)
  <2>1. \A i \in 0..width : i = 0 \/ i \in 1..width
    OBVIOUS
  <2> QED BY <2>1, <1>4, <1>5
<1>7. PICK c : c = CHOOSE f : Eq(f)
  OBVIOUS
<1>8. Eq(c)
  <2> HIDE DEF Eq
  <2> QED BY <1>6, <1>7
<1>9. Capacity(width) = c[width]
  BY <1>7 DEF Capacity
<1>10. c[0] = 1 /\ \A k \in 1..width : c[k] = 256 * c[k - 1]
  <2>1. 0 \in 0..width /\ \A i \in 1..width : i \in 0..width /\ i # 0
    OBVIOUS
  <2> QED BY <2>1, <1>8
<1>11. c \in [0..width -> P]
  <2> DEFINE T == {i \in 0..width : c[i] \in P}
  <2>1. 0 \in T
    BY <1>10
  <2>2. ASSUME NEW i \in 1..width, i - 1 \in T PROVE i \in T
    <3>1. c[i] = 256 * c[i - 1] /\ c[i - 1] \in P /\ i \in 0..width
      BY <2>2, <1>10
    <3> QED BY <3>1
  <2>3. 0..width \subseteq T
    <3> HIDE DEF T
    <3> QED BY <2>1, <2>2, InductionUpTo
  <2>4. c = [k \in 0..width |-> c[k]]
    BY <1>8
  <2>5. \A k \in 0..width : c[k] \in P
    BY <2>3
  <2> HIDE DEF P
  <2> QED BY <2>4, <2>5
<1> QED BY <1>9, <1>10, <1>11

(* The values of the recursion of Shifted.                                 *)
Shifts(q, value, width) ==
    /\ q \in [0..(width - 1) -> Int]
    /\ q[0] = value
    /\ \A k \in 1..(width - 1) : q[k] = q[k - 1] \div 256

LEMMA ShiftedUnfolds ==
    ASSUME NEW value \in Int, NEW width \in Nat \ {0}
    PROVE  Shifts(Shifted(value, width), value, width)
<1> DEFINE n == width - 1
           Eq(f) == f = [k \in 0..(width - 1) |-> IF k = 0 THEN value ELSE f[k - 1] \div 256]
<1>0. n \in Nat
  OBVIOUS
<1>1. PICK g : g = [x \in Int \X (1..n) |-> x[1] \div 256]
  OBVIOUS
<1>2. g \in [Int \X (1..n) -> Int]
  BY <1>1
<1>3. PICK h : Iterates(h, Int, value, g, n)
  <2> HIDE DEF n
  <2> QED BY <1>0, <1>2, IterationExists
<1>4. /\ h \in [0..n -> Int] /\ h[0] = value
      /\ \A i \in 1..n : h[i] = g[<<h[i - 1], i>>]
  BY <1>3 DEF Iterates
<1>5. ASSUME NEW i \in 1..n PROVE h[i] = h[i - 1] \div 256
  <2>1. i - 1 \in 0..n
    OBVIOUS
  <2>2. <<h[i - 1], i>> \in Int \X (1..n)
    BY <2>1, <1>4
  <2> QED BY <2>2, <1>1, <1>4
<1>6. Eq(h)
  <2>1. \A i \in 0..n : i = 0 \/ i \in 1..n
    OBVIOUS
  <2> QED BY <2>1, <1>4, <1>5
<1>7. PICK c : c = CHOOSE f : Eq(f)
  OBVIOUS
<1>8. Eq(c)
  <2> HIDE DEF Eq
  <2> QED BY <1>6, <1>7
<1>9. Shifted(value, width) = c
  BY <1>7 DEF Shifted
<1>10. c[0] = value /\ \A k \in 1..n : c[k] = c[k - 1] \div 256
  <2>1. 0 \in 0..n /\ \A i \in 1..n : i \in 0..n /\ i # 0
    OBVIOUS
  <2> QED BY <2>1, <1>8
<1>11. c \in [0..n -> Int]
  <2> DEFINE T == {i \in 0..n : c[i] \in Int}
  <2>1. 0 \in T
    BY <1>10
  <2>2. ASSUME NEW i \in 1..n, i - 1 \in T PROVE i \in T
    <3>1. c[i] = c[i - 1] \div 256 /\ c[i - 1] \in Int /\ i \in 0..n
      BY <2>2, <1>10
    <3> QED BY <3>1
  <2>3. 0..n \subseteq T
    <3> HIDE DEF T, n
    <3> QED BY <2>1, <2>2, <1>0, InductionUpTo
  <2>4. c = [k \in 0..n |-> c[k]]
    BY <1>8
  <2>5. \A k \in 0..n : c[k] \in Int
    BY <2>3
  <2> HIDE DEF n
  <2> QED BY <2>4, <2>5
<1> QED BY <1>9, <1>10, <1>11 DEF Shifts

(* What BigEndian makes are bytes.                                         *)
LEMMA BigEndianTyped ==
    ASSUME NEW value \in Int, NEW width \in Nat \ {0}
    PROVE  BigEndian(value, width) \in Bytes /\ Len(BigEndian(value, width)) = width
<1>1. PICK q : q = Shifted(value, width)
  OBVIOUS
<1>1a. q \in [0..(width - 1) -> Int]
  BY <1>1, ShiftedUnfolds DEF Shifts
<1>1b. BigEndian(value, width) = [i \in 1..width |-> q[width - i] % 256]
  BY <1>1 DEF BigEndian
<1>2. ASSUME NEW i \in 1..width PROVE q[width - i] % 256 \in Byte
  <2>1. width - i \in 0..(width - 1)
    OBVIOUS
  <2>2. PICK x \in Int : x = q[width - i]
    BY <2>1, <1>1a
  <2>3. x % 256 \in 0..255
    OBVIOUS
  <2> QED BY <2>2, <2>3 DEF Byte
<1>3. BigEndian(value, width) \in [1..width -> Byte]
  BY <1>1b, <1>2
<1> QED BY <1>3, FunctionIsSeq DEF Bytes

(* The value of a first byte.                                              *)
Lead(byte, signed) == IF signed /\ byte >= 128 THEN byte - 256 ELSE byte

(* The recursion of FromBytes.                                             *)
LEMMA FromBytesUnfolds ==
    ASSUME NEW bytes \in Bytes, bytes # <<>>, NEW signed \in BOOLEAN
    PROVE  \E u \in [1..Len(bytes) -> Int] :
              /\ FromBytes(bytes, signed) = u[Len(bytes)]
              /\ u[1] = Lead(bytes[1], signed)
              /\ \A k \in 2..Len(bytes) : u[k] = u[k - 1] * 256 + bytes[k]
<1> DEFINE n == Len(bytes) - 1
           Eq(f) == f = [k \in 1..Len(bytes) |->
                            IF k > 1 THEN f[k - 1] * 256 + bytes[k]
                            ELSE IF signed /\ bytes[1] >= 128 THEN bytes[1] - 256 ELSE bytes[1]]
<1>0. n \in Nat /\ \A i \in 1..Len(bytes) : bytes[i] \in Int
  <2>1. Len(bytes) \in Nat /\ Len(bytes) # 0
    BY EmptySeq DEF Bytes
  <2>2. \A i \in 1..Len(bytes) : bytes[i] \in Byte
    BY ElementOfSeq DEF Bytes
  <2>3. Byte \subseteq Int
    BY DEF Byte
  <2>4. n \in Nat
    BY <2>1
  <2>5. \A i \in 1..Len(bytes) : bytes[i] \in Int
    BY <2>2, <2>3, Zenon
  <2> HIDE DEF n
  <2> QED BY <2>4, <2>5
<1>0a. 1 \in 1..Len(bytes) /\ Lead(bytes[1], signed) \in Int /\ Len(bytes) \in Nat
  BY <1>0, EmptySeq DEF Lead, Bytes
<1>1. PICK g : g = [x \in Int \X (1..n) |-> x[1] * 256 + bytes[x[2] + 1]]
  OBVIOUS
<1>2. g \in [Int \X (1..n) -> Int]
  <2>1. ASSUME NEW x \in Int \X (1..n) PROVE x[1] * 256 + bytes[x[2] + 1] \in Int
    <3>1. x[1] \in Int /\ x[2] + 1 \in 1..Len(bytes)
      BY <1>0, <1>0a
    <3>2. bytes[x[2] + 1] \in Int
      BY <3>1, <1>0
    <3> QED BY <3>1, <3>2
  <2> QED BY <2>1, <1>1
<1>3. PICK h : Iterates(h, Int, Lead(bytes[1], signed), g, n)
  <2> HIDE DEF n
  <2> QED BY <1>0, <1>0a, <1>2, IterationExists
<1>4. /\ h \in [0..n -> Int] /\ h[0] = Lead(bytes[1], signed)
      /\ \A i \in 1..n : h[i] = g[<<h[i - 1], i>>]
  BY <1>3 DEF Iterates
<1>5. ASSUME NEW i \in 1..n PROVE h[i] = h[i - 1] * 256 + bytes[i + 1]
  <2>1. i - 1 \in 0..n
    BY <1>0
  <2>2. <<h[i - 1], i>> \in Int \X (1..n)
    BY <2>1, <1>4
  <2> QED BY <2>2, <1>1, <1>4
<1>6. PICK e : e = [k \in 1..Len(bytes) |-> h[k - 1]]
  OBVIOUS
<1>7. Eq(e)
  <2>1. ASSUME NEW k \in 1..Len(bytes), k > 1
        PROVE  h[k - 1] = e[k - 1] * 256 + bytes[k]
    <3>1. k - 1 \in 1..n /\ k - 1 \in 1..Len(bytes) /\ (k - 1) + 1 = k
      BY <2>1, <1>0a
    <3> QED BY <3>1, <1>5, <1>6
  <2>2. ASSUME NEW k \in 1..Len(bytes), ~(k > 1)
        PROVE  h[k - 1] = Lead(bytes[1], signed)
    <3>1. k = 1 /\ 1 - 1 = 0
      BY <2>2, <1>0a
    <3> QED BY <3>1, <1>4
  <2>3. \A k \in 1..Len(bytes) : h[k - 1] = IF k > 1 THEN e[k - 1] * 256 + bytes[k]
           ELSE IF signed /\ bytes[1] >= 128 THEN bytes[1] - 256 ELSE bytes[1]
    BY <2>1, <2>2 DEF Lead
  <2> QED BY <2>3, <1>6
<1>8. PICK u : u = CHOOSE f : Eq(f)
  OBVIOUS
<1>9. Eq(u)
  <2> HIDE DEF Eq
  <2> QED BY <1>7, <1>8
<1>10. FromBytes(bytes, signed) = u[Len(bytes)]
  BY <1>8 DEF FromBytes
<1>11. u[1] = Lead(bytes[1], signed) /\ \A k \in 2..Len(bytes) : u[k] = u[k - 1] * 256 + bytes[k]
  <2>1. \A i \in 2..Len(bytes) : i \in 1..Len(bytes) /\ i > 1
    OBVIOUS
  <2> QED BY <2>1, <1>0a, <1>9 DEF Lead
<1>12. u \in [1..Len(bytes) -> Int]
  <2> DEFINE T == {i \in 0..n : u[i + 1] \in Int}
  <2>1. 0 \in T
    BY <1>0, <1>0a, <1>11
  <2>2. ASSUME NEW i \in 1..n, i - 1 \in T PROVE i \in T
    <3>1. i + 1 \in 2..Len(bytes) /\ (i + 1) - 1 = i /\ (i - 1) + 1 = i /\ i \in 0..n
          /\ i + 1 \in 1..Len(bytes)
      BY <1>0a
    <3>2. u[i] \in Int /\ bytes[i + 1] \in Int /\ u[i + 1] = u[i] * 256 + bytes[i + 1]
      BY <2>2, <3>1, <1>0, <1>11
    <3> QED BY <3>1, <3>2
  <2>3. 0..n \subseteq T
    <3> HIDE DEF T, n
    <3> QED BY <2>1, <2>2, <1>0, InductionUpTo
  <2>4. u = [k \in 1..Len(bytes) |-> u[k]]
    BY <1>9
  <2>5. \A k \in 1..Len(bytes) : u[k] \in Int
    <3> SUFFICES ASSUME NEW k \in 1..Len(bytes) PROVE u[k] \in Int
      OBVIOUS
    <3>1. k - 1 \in 0..n /\ (k - 1) + 1 = k
      BY <1>0a
    <3> QED BY <3>1, <2>3
  <2> QED BY <2>4, <2>5
<1> QED BY <1>10, <1>11, <1>12

(* Arithmetic of bytes.                                                    *)
LEMMA DivMod ==
    ASSUME NEW x \in Int
    PROVE  (x \div 256) * 256 + (x % 256) = x
OBVIOUS

LEMMA ShiftBelow ==
    ASSUME NEW x \in Int, NEW m \in Int
    PROVE  /\ x < 256 * m => x \div 256 < m
           /\ 256 * m <= x => m <= x \div 256
OBVIOUS

LEMMA SignedByte ==
    ASSUME NEW x \in Int, -128 <= x, x < 128
    PROVE  Lead(x % 256, TRUE) = x
<1>1. CASE x >= 0
  <2>1. x % 256 = x
    BY <1>1
  <2> QED BY <2>1 DEF Lead
<1>2. CASE x < 0
  <2>1. x % 256 = x + 256
    BY <1>2
  <2>2. PICK y \in Int : y = x % 256
    BY <2>1
  <2>3. y >= 128 /\ y - 256 = x
    BY <2>1, <2>2
  <2> QED BY <2>2, <2>3 DEF Lead
<1>3. x >= 0 \/ x < 0
  OBVIOUS
<1> QED BY <1>1, <1>2, <1>3, Zenon

(* The bytes of a value stand for it if the first one does for its part.   *)
LEMMA RoundTrip ==
    ASSUME NEW value \in Int, NEW width \in Nat \ {0}, NEW signed \in BOOLEAN,
           NEW q, q = Shifted(value, width),
           Lead(q[width - 1] % 256, signed) = q[width - 1]
    PROVE  FromBytes(BigEndian(value, width), signed) = value
<1>1. PICK b : b = BigEndian(value, width)
  OBVIOUS
<1>2. b \in Bytes /\ Len(b) = width
  BY <1>1, BigEndianTyped
<1>3. \A i \in 1..width : b[i] = q[width - i] % 256
  BY <1>1 DEF BigEndian
<1>3a. Shifts(q, value, width)
  BY ShiftedUnfolds, Zenon
<1>4. q \in [0..(width - 1) -> Int] /\ q[0] = value /\ \A k \in 1..(width - 1) : q[k] = q[k - 1] \div 256
  BY <1>3a DEF Shifts
<1>5. b # <<>>
  BY <1>2, EmptySeq
<1>6. PICK u \in [1..Len(b) -> Int] :
         /\ FromBytes(b, signed) = u[Len(b)]
         /\ u[1] = Lead(b[1], signed)
         /\ \A k \in 2..Len(b) : u[k] = u[k - 1] * 256 + b[k]
  BY <1>2, <1>5, FromBytesUnfolds, Zenon
<1> DEFINE n == width - 1
           T == {i \in 0..n : u[i + 1] = q[n - i]}
<1>7. 0 \in T
  <2>1. 0 + 1 = 1 /\ n - 0 = width - 1 /\ 1 \in 1..width /\ 0 \in 0..n
    OBVIOUS
  <2> QED BY <2>1, <1>3, <1>6
<1>8. ASSUME NEW i \in 1..n, i - 1 \in T PROVE i \in T
  <2>1. /\ i + 1 \in 2..width /\ (i + 1) - 1 = i /\ (i - 1) + 1 = i /\ i + 1 \in 1..width
        /\ n - i \in 0..n /\ width - (i + 1) = n - i /\ n - (i - 1) = (n - i) + 1
        /\ (n - i) + 1 \in 1..n /\ ((n - i) + 1) - 1 = n - i /\ i \in 0..n
    OBVIOUS
  <2>2. u[i + 1] = u[i] * 256 + b[i + 1] /\ b[i + 1] = q[n - i] % 256
    BY <2>1, <1>2, <1>3, <1>6
  <2>3. u[i] = q[(n - i) + 1]
    BY <1>8, <2>1
  <2>4. q[(n - i) + 1] = q[n - i] \div 256
    BY <2>1, <1>4
  <2>5. PICK x \in Int : x = q[n - i]
    BY <2>1, <1>4
  <2>6. (x \div 256) * 256 + (x % 256) = x
    BY <2>5, DivMod
  <2>7. u[i + 1] = q[n - i]
    BY <2>2, <2>3, <2>4, <2>5, <2>6
  <2> QED BY <2>1, <2>7
<1>9. n \in T
  <2>1. n \in Nat /\ n \in 0..n
    OBVIOUS
  <2> HIDE DEF T, n
  <2>2. 0..n \subseteq T
    BY <2>1, <1>7, <1>8, InductionUpTo
  <2> QED BY <2>1, <2>2
<1>10. n + 1 = width /\ n - n = 0
  OBVIOUS
<1>11. u[width] = value
  BY <1>4, <1>9, <1>10
<1> QED BY <1>1, <1>2, <1>6, <1>11

(* A value that fits its field is what the bytes in the field stand for,   *)
(* without a sign...                                                       *)
LEMMA UnsignedRoundTrip ==
    ASSUME NEW width \in Nat \ {0}, NEW value \in UnsignedRange(width)
    PROVE  value \in Int /\ FromBytes(BigEndian(value, width), FALSE) = value
<1>1. PICK c \in [0..width -> Nat \ {0}] :
         /\ Capacity(width) = c[width] /\ c[0] = 1
         /\ \A k \in 1..width : c[k] = 256 * c[k - 1]
  BY CapacityUnfolds
<1>2. value \in Int /\ 0 <= value /\ value < c[width]
  <2>1. c[width] \in Int
    OBVIOUS
  <2> QED BY <2>1, <1>1 DEF UnsignedRange
<1>3. PICK q : q = Shifted(value, width)
  OBVIOUS
<1>3a. Shifts(q, value, width)
  BY <1>2, <1>3, ShiftedUnfolds, Zenon
<1>4. q \in [0..(width - 1) -> Int] /\ q[0] = value /\ \A k \in 1..(width - 1) : q[k] = q[k - 1] \div 256
  BY <1>3a DEF Shifts
<1> DEFINE n == width - 1
           T == {k \in 0..n : 0 <= q[k] /\ q[k] < c[width - k]}
<1>5. 0 \in T
  BY <1>2, <1>4
<1>6. ASSUME NEW k \in 1..n, k - 1 \in T PROVE k \in T
  <2>1. width - k \in 0..width /\ width - (k - 1) \in 1..width /\ (width - (k - 1)) - 1 = width - k
        /\ k - 1 \in 0..n /\ k \in 0..n
    OBVIOUS
  <2>2a. q[k - 1] \in Int
    BY <2>1, <1>4
  <2>2b. c[width - k] \in Nat
    BY <2>1, <1>1
  <2>2. PICK x \in Int, m \in Nat : x = q[k - 1] /\ m = c[width - k]
    BY <2>2a, <2>2b
  <2>3. c[width - (k - 1)] = 256 * m
    BY <2>1, <2>2, <1>1
  <2>4. 0 <= x /\ x < 256 * m
    BY <1>6, <2>2, <2>3
  <2>5. 0 <= x \div 256 /\ x \div 256 < m
    BY <2>4
  <2> QED BY <2>1, <2>2, <2>5, <1>4
<1>7. n \in T
  <2>1. n \in Nat /\ n \in 0..n
    OBVIOUS
  <2> HIDE DEF T, n
  <2>2. 0..n \subseteq T
    BY <2>1, <1>5, <1>6, InductionUpTo
  <2> QED BY <2>1, <2>2
<1>8. PICK x \in Int : x = q[width - 1]
  BY <1>4
<1>9. c[1] = 256
  <2>1. 1 \in 1..width /\ 1 - 1 = 0
    OBVIOUS
  <2> QED BY <2>1, <1>1
<1>10. 0 <= x /\ x < 256
  <2>1. width - n = 1
    OBVIOUS
  <2> QED BY <2>1, <1>7, <1>8, <1>9
<1>11. x % 256 = x
  BY <1>10
<1>12. Lead(q[width - 1] % 256, FALSE) = q[width - 1]
  BY <1>8, <1>11 DEF Lead
<1> QED BY <1>2, <1>3, <1>12, RoundTrip

(* ... and with one, as two's complement.                                  *)
LEMMA SignedRoundTrip ==
    ASSUME NEW width \in Nat \ {0}, NEW value \in SignedRange(width)
    PROVE  value \in Int /\ FromBytes(BigEndian(value, width), TRUE) = value
<1>1. PICK c \in [0..width -> Nat \ {0}] :
         /\ Capacity(width) = c[width] /\ c[0] = 1
         /\ \A k \in 1..width : c[k] = 256 * c[k - 1]
  BY CapacityUnfolds
<1> DEFINE n == width - 1
<1>1a. n \in 0..width /\ width \in 1..width
  OBVIOUS
<1>1b. PICK h \in Nat : h = c[n]
  BY <1>1a
<1>1c. Capacity(width) = 256 * h
  BY <1>1, <1>1a, <1>1b
<1>1d. (256 * h) \div 2 = 128 * h
  OBVIOUS
<1>2. value \in Int /\ -(128 * h) <= value /\ value < 128 * h
  BY <1>1c, <1>1d DEF SignedRange
<1>3. PICK q : q = Shifted(value, width)
  OBVIOUS
<1>3a. Shifts(q, value, width)
  BY <1>2, <1>3, ShiftedUnfolds, Zenon
<1>4. q \in [0..(width - 1) -> Int] /\ q[0] = value /\ \A k \in 1..(width - 1) : q[k] = q[k - 1] \div 256
  BY <1>3a DEF Shifts
<1> DEFINE T == {k \in 0..n : -(128 * c[n - k]) <= q[k] /\ q[k] < 128 * c[n - k]}
<1>5. 0 \in T
  <2>1. n - 0 = n /\ 0 \in 0..n
    OBVIOUS
  <2> QED BY <2>1, <1>1b, <1>2, <1>4
<1>6. ASSUME NEW k \in 1..n, k - 1 \in T PROVE k \in T
  <2>1. n - k \in 0..width /\ n - (k - 1) \in 1..width /\ (n - (k - 1)) - 1 = n - k
        /\ k - 1 \in 0..n /\ k \in 0..n
    OBVIOUS
  <2>2a. q[k - 1] \in Int
    BY <2>1, <1>4
  <2>2b. c[n - k] \in Nat
    BY <2>1, <1>1
  <2>2. PICK x \in Int, m \in Nat : x = q[k - 1] /\ m = c[n - k]
    BY <2>2a, <2>2b
  <2>3. c[n - (k - 1)] = 256 * m
    BY <2>1, <2>2, <1>1
  <2>4. -(128 * (256 * m)) <= x /\ x < 128 * (256 * m)
    BY <1>6, <2>2, <2>3
  <2>5. -(128 * m) <= x \div 256 /\ x \div 256 < 128 * m
    BY <2>4
  <2> QED BY <2>1, <2>2, <2>5, <1>4
<1>7. n \in T
  <2>1. n \in Nat /\ n \in 0..n
    OBVIOUS
  <2> HIDE DEF T, n
  <2>2. 0..n \subseteq T
    BY <2>1, <1>5, <1>6, InductionUpTo
  <2> QED BY <2>1, <2>2
<1>8. PICK x \in Int : x = q[width - 1]
  BY <1>4
<1>9. -128 <= x /\ x < 128
  <2>1. n - n = 0
    OBVIOUS
  <2> QED BY <2>1, <1>1, <1>7, <1>8
<1>10. Lead(x % 256, TRUE) = x
  BY <1>8, <1>9, SignedByte
<1>11. Lead(q[width - 1] % 256, TRUE) = q[width - 1]
  BY <1>8, <1>10
<1> QED BY <1>2, <1>3, <1>11, RoundTrip

-----------------------------------------------------------------------------
(* Fields. *)

Chars  == {"Q", "q", "I", "B"}

(* The values that a format character can carry.                           *)
FieldRange(char) == IF char = "q" THEN SignedRange(Width[char]) ELSE UnsignedRange(Width[char])

(* Values for the fields of a format that fit them.                        *)
Fits(fmt, values) ==
    /\ values \in Seq(Int) /\ Len(values) = Len(fmt)
    /\ \A i \in 1..Len(fmt) : values[i] \in FieldRange(fmt[i])

(* Formats and widths.                                                     *)
LEMMA WidthTyped == Width \in [Chars -> Nat \ {0}]
BY WidthAssumption DEF Width, Chars

LEMMA FormatsTyped ==
    ASSUME NEW fmt \in Formats
    PROVE  fmt \in Seq(Chars) /\ Len(fmt) \in Nat
<1>1. /\ NEW_ORDER_FMT \in Seq(Chars) /\ CANCEL_FMT \in Seq(Chars)
      /\ FILL_FMT \in Seq(Chars) /\ ACK_FMT \in Seq(Chars)
  BY DEF Chars, NEW_ORDER_FMT, CANCEL_FMT, FILL_FMT, ACK_FMT
<1>2. fmt \in Seq(Chars)
  BY <1>1 DEF Formats
<1> QED BY <1>2, LenProperties

(* The recursion of Offsets.                                               *)
OffsetsAre(f, fmt) ==
    /\ f \in [0..Len(fmt) -> Nat]
    /\ f[0] = 0
    /\ \A i \in 1..Len(fmt) : f[i] = f[i - 1] + Width[fmt[i]]

LEMMA OffsetsUnfold ==
    ASSUME NEW fmt \in Seq(Chars)
    PROVE  OffsetsAre(Offsets(fmt), fmt)
<1> DEFINE n == Len(fmt)
           Eq(f) == f = [i \in 0..Len(fmt) |-> IF i = 0 THEN 0 ELSE f[i - 1] + Width[fmt[i]]]
<1>0. n \in Nat /\ \A i \in 1..n : Width[fmt[i]] \in Nat
  <2>1. \A i \in 1..n : fmt[i] \in Chars
    BY ElementOfSeq
  <2> QED BY <2>1, WidthTyped
<1>1. PICK g : g = [x \in Nat \X (1..n) |-> x[1] + Width[fmt[x[2]]]]
  OBVIOUS
<1>2. g \in [Nat \X (1..n) -> Nat]
  BY <1>0, <1>1
<1>3. PICK h : Iterates(h, Nat, 0, g, n)
  <2> HIDE DEF n
  <2> QED BY <1>0, <1>2, IterationExists
<1>4. /\ h \in [0..n -> Nat] /\ h[0] = 0
      /\ \A i \in 1..n : h[i] = g[<<h[i - 1], i>>]
  BY <1>3 DEF Iterates
<1>5. ASSUME NEW i \in 1..n PROVE h[i] = h[i - 1] + Width[fmt[i]]
  <2>1. i - 1 \in 0..n
    BY <1>0
  <2>2. <<h[i - 1], i>> \in Nat \X (1..n)
    BY <2>1, <1>4
  <2> QED BY <2>2, <1>1, <1>4
<1>6. Eq(h)
  <2>1. \A i \in 0..n : i = 0 \/ i \in 1..n
    BY <1>0
  <2> QED BY <2>1, <1>4, <1>5
<1>7. PICK c : c = CHOOSE f : Eq(f)
  OBVIOUS
<1>8. Eq(c)
  <2> HIDE DEF Eq
  <2> QED BY <1>6, <1>7
<1>9. Offsets(fmt) = c
  BY <1>7 DEF Offsets
<1>10. c[0] = 0 /\ \A i \in 1..n : c[i] = c[i - 1] + Width[fmt[i]]
  <2>1. 0 \in 0..n /\ \A i \in 1..n : i \in 0..n /\ i # 0
    BY <1>0
  <2> QED BY <2>1, <1>8
<1>11. c \in [0..n -> Nat]
  <2> DEFINE T == {i \in 0..n : c[i] \in Nat}
  <2>1. 0 \in T
    BY <1>0, <1>10
  <2>2. ASSUME NEW i \in 1..n, i - 1 \in T PROVE i \in T
    <3>1. c[i] = c[i - 1] + Width[fmt[i]] /\ c[i - 1] \in Nat /\ i \in 0..n /\ Width[fmt[i]] \in Nat
      BY <2>2, <1>0, <1>10
    <3> QED BY <3>1
  <2>3. 0..n \subseteq T
    <3> HIDE DEF T, n
    <3> QED BY <2>1, <2>2, <1>0, InductionUpTo
  <2>4. c = [k \in 0..n |-> c[k]]
    BY <1>8
  <2>5. \A k \in 0..n : c[k] \in Nat
    BY <2>3
  <2> HIDE DEF n
  <2> QED BY <2>4, <2>5
<1> QED BY <1>9, <1>10, <1>11 DEF OffsetsAre

(* The recursion of pack: field after field.                               *)
Packs(p, fmt, values) ==
    /\ p \in [0..Len(fmt) -> Bytes]
    /\ p[0] = <<>>
    /\ \A i \in 1..Len(fmt) : p[i] = p[i - 1] \o BigEndian(values[i], Width[fmt[i]])
    /\ pack(fmt, values) = p[Len(fmt)]

LEMMA PackUnfolds ==
    ASSUME NEW fmt \in Seq(Chars), NEW values \in Seq(Int), Len(values) = Len(fmt)
    PROVE  \E p : Packs(p, fmt, values)
<1> DEFINE n == Len(fmt)
           F(i) == BigEndian(values[i], Width[fmt[i]])
           Eq(f) == f = [i \in 0..Len(fmt) |->
                            IF i = 0 THEN <<>> ELSE f[i - 1] \o BigEndian(values[i], Width[fmt[i]])]
<1>0. n \in Nat /\ \A i \in 1..n : F(i) \in Bytes
  <2>1. \A i \in 1..n : fmt[i] \in Chars /\ values[i] \in Int
    BY ElementOfSeq
  <2>2. \A i \in 1..n : Width[fmt[i]] \in Nat \ {0}
    BY <2>1, WidthTyped
  <2> QED BY <2>1, <2>2, BigEndianTyped
<1> HIDE DEF F
<1>1. PICK g : g = [x \in Bytes \X (1..n) |-> x[1] \o F(x[2])]
  OBVIOUS
<1>2. g \in [Bytes \X (1..n) -> Bytes]
  <2>1. ASSUME NEW x \in Bytes \X (1..n) PROVE x[1] \o F(x[2]) \in Bytes
    <3>1. x[1] \in Bytes /\ F(x[2]) \in Bytes
      BY <1>0
    <3> QED BY <3>1, ConcatProperties DEF Bytes
  <2> QED BY <2>1, <1>1
<1>3. PICK h : Iterates(h, Bytes, <<>>, g, n)
  <2>1. <<>> \in Bytes
    BY EmptySeq DEF Bytes
  <2> HIDE DEF n
  <2> QED BY <2>1, <1>0, <1>2, IterationExists
<1>4. /\ h \in [0..n -> Bytes] /\ h[0] = <<>>
      /\ \A i \in 1..n : h[i] = g[<<h[i - 1], i>>]
  BY <1>3 DEF Iterates
<1>5. ASSUME NEW i \in 1..n PROVE h[i] = h[i - 1] \o F(i)
  <2>1. i - 1 \in 0..n
    BY <1>0
  <2>2. <<h[i - 1], i>> \in Bytes \X (1..n)
    BY <2>1, <1>4
  <2> QED BY <2>2, <1>1, <1>4
<1>6. Eq(h)
  <2>1. \A i \in 0..n : i = 0 \/ i \in 1..n
    BY <1>0
  <2>2. h = [i \in 0..n |-> IF i = 0 THEN <<>> ELSE h[i - 1] \o F(i)]
    BY <2>1, <1>4, <1>5
  <2> QED BY <2>2 DEF F
<1>7. PICK c : c = CHOOSE f : Eq(f)
  OBVIOUS
<1>8. Eq(c)
  <2> HIDE DEF Eq
  <2> QED BY <1>6, <1>7
<1>9. pack(fmt, values) = c[n]
  BY <1>7 DEF pack
<1>10. c[0] = <<>> /\ \A i \in 1..n : c[i] = c[i - 1] \o F(i)
  <2>1. 0 \in 0..n /\ \A i \in 1..n : i \in 0..n /\ i # 0
    BY <1>0
  <2>2. c = [i \in 0..n |-> IF i = 0 THEN <<>> ELSE c[i - 1] \o F(i)]
    BY <1>8 DEF F
  <2> HIDE DEF n, Eq
  <2> QED BY <2>1, <2>2
<1>11. c \in [0..n -> Bytes]
  <2> DEFINE T == {i \in 0..n : c[i] \in Bytes}
  <2>1. 0 \in T
    <3>1. c[0] \in Bytes
      BY <1>10, EmptySeq DEF Bytes
    <3>2. 0 \in 0..n
      BY <1>0
    <3> QED BY <3>1, <3>2
  <2>2. ASSUME NEW i \in 1..n, i - 1 \in T PROVE i \in T
    <3>1. c[i] = c[i - 1] \o F(i) /\ c[i - 1] \in Bytes /\ i \in 0..n /\ F(i) \in Bytes
      BY <2>2, <1>0, <1>10
    <3>2. c[i] \in Bytes
      BY <3>1, ConcatProperties DEF Bytes
    <3> QED BY <3>1, <3>2
  <2>3. 0..n \subseteq T
    <3> HIDE DEF T, n
    <3> QED BY <2>1, <2>2, <1>0, InductionUpTo
  <2>4. c = [k \in 0..n |-> c[k]]
    BY <1>8
  <2>5. \A k \in 0..n : c[k] \in Bytes
    BY <2>3
  <2> HIDE DEF n
  <2> QED BY <2>4, <2>5
<1>12. Packs(c, fmt, values)
  BY <1>9, <1>10, <1>11 DEF Packs, F
<1> QED BY <1>12

(* A field at the end of what is packed, and one before it.                *)
LEMMA LastField ==
    ASSUME NEW a \in Bytes, NEW b \in Bytes, b # <<>>
    PROVE  /\ a \o b \in Bytes /\ Len(a) \in Nat /\ Len(b) \in Nat
           /\ Len(a \o b) = Len(a) + Len(b)
           /\ SubSeq(a \o b, Len(a) + 1, Len(a) + Len(b)) = b
<1>0. a \in Seq(Byte) /\ b \in Seq(Byte) /\ Len(a) \in Nat /\ Len(b) \in Nat \ {0}
  BY EmptySeq DEF Bytes
<1>1. PICK m, k : m = Len(a) + 1 /\ k = Len(a) + Len(b)
  OBVIOUS
<1>2. m \in (Len(a) + 1)..(Len(a) + Len(b)) /\ k \in (Len(a) + 1)..(Len(a) + Len(b))
      /\ m - Len(a) = 1 /\ k - Len(a) = Len(b)
  BY <1>0, <1>1
<1>3. SubSeq(a \o b, m, k) = SubSeq(b, m - Len(a), k - Len(a))
  BY <1>0, <1>2, SubSeqOfConcat2
<1>4. SubSeq(b, 1, Len(b)) = b
  BY <1>0, SubSeqFull
<1>5. a \o b \in Seq(Byte) /\ Len(a \o b) = Len(a) + Len(b)
  BY <1>0, ConcatProperties
<1> QED BY <1>0, <1>1, <1>2, <1>3, <1>4, <1>5 DEF Bytes

LEMMA EarlierField ==
    ASSUME NEW a \in Bytes, NEW b \in Bytes, NEW m \in Nat, NEW w \in Nat \ {0}, m + w <= Len(a)
    PROVE  SubSeq(a \o b, m + 1, m + w) = SubSeq(a, m + 1, m + w)
<1>1. a \in Seq(Byte) /\ b \in Seq(Byte) /\ Len(a) \in Nat
  BY DEF Bytes
<1>2. m + 1 \in 1..Len(a) /\ m + w \in 1..Len(a)
  BY <1>1
<1> QED BY <1>1, <1>2, SubSeqOfConcat1

(* The fields of what pack makes are where Offsets says they are.          *)
LEMMA PackedFields ==
    ASSUME NEW fmt \in Seq(Chars), NEW values \in Seq(Int), Len(values) = Len(fmt),
           NEW off, off = Offsets(fmt)
    PROVE  /\ pack(fmt, values) \in Bytes /\ Len(pack(fmt, values)) = off[Len(fmt)]
           /\ \A i \in 1..Len(fmt) :
                 SubSeq(pack(fmt, values), off[i - 1] + 1, off[i])
                    = BigEndian(values[i], Width[fmt[i]])
<1>1. PICK p : Packs(p, fmt, values)
  BY PackUnfolds, Zenon
<1> DEFINE n == Len(fmt)
           F(i) == BigEndian(values[i], Width[fmt[i]])
<1>2. /\ p \in [0..n -> Bytes] /\ p[0] = <<>> /\ pack(fmt, values) = p[n]
      /\ \A i \in 1..n : p[i] = p[i - 1] \o F(i)
  BY <1>1 DEF Packs
<1>3. OffsetsAre(off, fmt)
  BY OffsetsUnfold, Zenon
<1>4. /\ off \in [0..n -> Nat] /\ off[0] = 0
      /\ \A i \in 1..n : off[i] = off[i - 1] + Width[fmt[i]]
  BY <1>3 DEF OffsetsAre
<1>5. n \in Nat /\ \A i \in 1..n : F(i) \in Bytes /\ Len(F(i)) = Width[fmt[i]] /\ Width[fmt[i]] \in Nat \ {0}
  <2>1. \A i \in 1..n : fmt[i] \in Chars /\ values[i] \in Int
    BY ElementOfSeq
  <2>2. \A i \in 1..n : Width[fmt[i]] \in Nat \ {0}
    BY <2>1, WidthTyped
  <2> QED BY <2>1, <2>2, BigEndianTyped
<1> HIDE DEF F
<1> DEFINE T == {j \in 0..n : /\ Len(p[j]) = off[j]
                              /\ \A i \in 1..j : /\ off[i] <= off[j]
                                                 /\ SubSeq(p[j], off[i - 1] + 1, off[i]) = F(i)}
<1>6. 0 \in T
  <2>1. Len(p[0]) = 0 /\ 0 \in 0..n
    BY <1>2, <1>5, EmptySeq
  <2> QED BY <2>1, <1>4
<1>7. ASSUME NEW j \in 1..n, j - 1 \in T PROVE j \in T
  <2>1. j \in 0..n /\ j - 1 \in 0..n
    BY <1>5
  <2>2. PICK a, b, w : a = p[j - 1] /\ b = F(j) /\ w = Width[fmt[j]]
    OBVIOUS
  <2>3. /\ a \in Bytes /\ b \in Bytes /\ Len(a) = off[j - 1] /\ Len(b) = w /\ w \in Nat \ {0}
        /\ off[j] = off[j - 1] + w /\ off[j - 1] \in Nat /\ p[j] = a \o b
    BY <1>7, <2>1, <2>2, <1>2, <1>4, <1>5
  <2>3a. b # <<>>
    BY <2>3, EmptySeq
  <2>3b. PICK x, y \in Nat : x = off[j] /\ y = off[j - 1]
    BY <2>3
  <2>3c. Len(a) = y /\ x = y + w /\ Len(b) = w
    BY <2>3, <2>3b
  <2>3e. w \in Nat
    BY <2>3
  <2>3d. /\ Len(a \o b) = Len(a) + Len(b)
         /\ SubSeq(a \o b, Len(a) + 1, Len(a) + Len(b)) = b
    BY <2>3, <2>3a, LastField
  <2>4. Len(p[j]) = off[j]
    BY <2>3, <2>3b, <2>3c, <2>3d
  <2>5. ASSUME NEW i \in 1..j
        PROVE  off[i] <= off[j] /\ SubSeq(p[j], off[i - 1] + 1, off[i]) = F(i)
    <3>1. CASE i = j
      <4>1. SubSeq(p[j], off[j - 1] + 1, off[j]) = b
        BY <2>3, <2>3b, <2>3c, <2>3d
      <4>2. off[j] <= off[j]
        BY <2>3b
      <4> QED BY <4>1, <4>2, <3>1, <2>2
    <3>2. CASE i # j
      <4>1. i \in 1..(j - 1) /\ i \in 1..n /\ i - 1 \in 0..n /\ i \in 0..n
        BY <3>2, <1>5
      <4>2. off[i] <= off[j - 1] /\ SubSeq(a, off[i - 1] + 1, off[i]) = F(i)
        BY <4>1, <1>7, <2>2
      <4>3. off[i] = off[i - 1] + Width[fmt[i]] /\ off[i - 1] \in Nat /\ Width[fmt[i]] \in Nat \ {0}
        BY <4>1, <1>4, <1>5
      <4>4. PICK m, v, k \in Nat : m = off[i - 1] /\ v = Width[fmt[i]] /\ k = off[i]
        BY <4>1, <4>3, <1>4
      <4>5. k = m + v /\ v # 0 /\ k <= y
        BY <4>2, <4>3, <4>4, <2>3b
      <4>6. SubSeq(a \o b, m + 1, m + v) = SubSeq(a, m + 1, m + v)
        <5>1. m + v <= Len(a) /\ v \in Nat \ {0} /\ m \in Nat
          BY <4>4, <4>5, <2>3c
        <5>2. a \in Bytes /\ b \in Bytes
          BY <2>3
        <5> QED BY <5>1, <5>2, EarlierField, Zenon
      <4>7. off[i] <= off[j]
        <5>1. k <= x
          BY <4>4, <4>5, <2>3b, <2>3c, <2>3e
        <5> QED BY <5>1, <4>4, <2>3b
      <4>8. SubSeq(p[j], off[i - 1] + 1, off[i]) = SubSeq(a, off[i - 1] + 1, off[i])
        BY <4>4, <4>5, <4>6, <2>3
      <4> QED BY <4>2, <4>7, <4>8
    <3> QED BY <3>1, <3>2
  <2> QED BY <2>1, <2>4, <2>5
<1>8. n \in T
  <2>1. n \in 0..n
    BY <1>5
  <2> HIDE DEF T, n
  <2>2. 0..n \subseteq T
    BY <1>5, <1>6, <1>7, InductionUpTo
  <2> QED BY <2>1, <2>2
<1>9. p[n] \in Bytes
  BY <1>2, <1>5
<1> QED BY <1>2, <1>8, <1>9 DEF F

(* struct: unpack undoes pack for values that fit, and what pack makes has *)
(* the size that calcsize says.                                            *)
LEMMA StructRoundTrip ==
    ASSUME NEW fmt \in Formats, NEW values, Fits(fmt, values)
    PROVE  /\ pack(fmt, values) \in Bytes /\ Len(pack(fmt, values)) = calcsize(fmt)
           /\ unpack(fmt, pack(fmt, values)) = values
<1>1. fmt \in Seq(Chars) /\ Len(fmt) \in Nat
  BY FormatsTyped
<1>2. /\ values \in Seq(Int) /\ Len(values) = Len(fmt)
      /\ \A i \in 1..Len(fmt) : values[i] \in FieldRange(fmt[i])
  BY DEF Fits
<1>3. PICK off, b : off = Offsets(fmt) /\ b = pack(fmt, values)
  OBVIOUS
<1>4. /\ b \in Bytes /\ Len(b) = off[Len(fmt)]
      /\ \A i \in 1..Len(fmt) :
            SubSeq(b, off[i - 1] + 1, off[i]) = BigEndian(values[i], Width[fmt[i]])
  BY <1>1, <1>2, <1>3, PackedFields
<1>5. ASSUME NEW i \in 1..(Len(fmt) + 1) PROVE FieldStart[fmt][i] = off[i - 1]
  BY <1>3 DEF FieldStart
<1>6. Len(b) = calcsize(fmt)
  <2>1. Len(fmt) + 1 \in 1..(Len(fmt) + 1) /\ (Len(fmt) + 1) - 1 = Len(fmt)
    BY <1>1
  <2> QED BY <2>1, <1>4, <1>5 DEF calcsize
<1>7. ASSUME NEW i \in 1..Len(fmt)
      PROVE  FromBytes(SubSeq(b, FieldStart[fmt][i] + 1, FieldStart[fmt][i + 1]), fmt[i] = "q")
                = values[i]
  <2>1. /\ i \in 1..(Len(fmt) + 1) /\ i + 1 \in 1..(Len(fmt) + 1) /\ (i + 1) - 1 = i
        /\ fmt[i] \in Chars
    BY <1>1, ElementOfSeq
  <2>2. PICK w : w = Width[fmt[i]]
    OBVIOUS
  <2>3. w \in Nat \ {0}
    BY <2>1, <2>2, WidthTyped
  <2>4. SubSeq(b, FieldStart[fmt][i] + 1, FieldStart[fmt][i + 1]) = BigEndian(values[i], w)
    BY <2>1, <2>2, <1>4, <1>5
  <2>5. CASE fmt[i] = "q"
    <3>1. values[i] \in SignedRange(w)
      BY <2>2, <2>5, <1>2 DEF FieldRange
    <3>2. FromBytes(BigEndian(values[i], w), TRUE) = values[i]
      BY <3>1, <2>3, SignedRoundTrip
    <3>3. (fmt[i] = "q") = TRUE
      BY <2>5
    <3> QED BY <3>2, <3>3, <2>4, Zenon
  <2>6. CASE fmt[i] # "q"
    <3>1. values[i] \in UnsignedRange(w)
      BY <2>2, <2>6, <1>2 DEF FieldRange
    <3>2. FromBytes(BigEndian(values[i], w), FALSE) = values[i]
      BY <3>1, <2>3, UnsignedRoundTrip
    <3>3. (fmt[i] = "q") = FALSE
      BY <2>6
    <3> QED BY <3>2, <3>3, <2>4, Zenon
  <2> QED BY <2>5, <2>6, Zenon
<1>8. unpack(fmt, b) = [i \in 1..Len(fmt) |-> values[i]]
  <2>1. unpack(fmt, b) = [i \in 1..Len(fmt) |->
             FromBytes(SubSeq(b, FieldStart[fmt][i] + 1, FieldStart[fmt][i + 1]), fmt[i] = "q")]
    BY Zenon DEF unpack
  <2> QED BY <2>1, <1>7, Zenon
<1>9. values = [i \in 1..Len(fmt) |-> values[i]]
  BY <1>2
<1> QED BY <1>3, <1>4, <1>6, <1>8, <1>9

-----------------------------------------------------------------------------
(* Messages. *)

(* The offsets in each of the formats.                                     *)
LEMMA NewOrderOffsets ==
    LET off == Offsets(NEW_ORDER_FMT)
    IN  /\ Len(NEW_ORDER_FMT) = 5
        /\ off[0] = 0 /\ off[1] = LongBytes /\ off[2] = LongBytes + 1 /\ off[3] = LongBytes + 2
        /\ off[4] = 2 * LongBytes + 2 /\ off[5] = 2 * LongBytes + 2 + QuantityBytes
<1>1. PICK fmt, off : fmt = NEW_ORDER_FMT /\ off = Offsets(NEW_ORDER_FMT)
  OBVIOUS
<1>2. /\ Len(fmt) = 5 /\ fmt[1] = "Q" /\ fmt[2] = "B" /\ fmt[3] = "B" /\ fmt[4] = "q" /\ fmt[5] = "I"
  BY <1>1 DEF NEW_ORDER_FMT
<1>3. OffsetsAre(off, fmt)
  BY <1>1, FormatsTyped, OffsetsUnfold DEF Formats
<1>4. off[0] = 0 /\ \A i \in 1..5 : off[i] = off[i - 1] + Width[fmt[i]]
  BY <1>2, <1>3 DEF OffsetsAre
<1>5. /\ off[1] = off[0] + Width["Q"] /\ off[2] = off[1] + Width["B"] /\ off[3] = off[2] + Width["B"]
      /\ off[4] = off[3] + Width["q"] /\ off[5] = off[4] + Width["I"]
  BY <1>2, <1>4
<1>6. /\ Width["Q"] = LongBytes /\ Width["q"] = LongBytes /\ Width["B"] = 1 /\ Width["I"] = QuantityBytes
      /\ LongBytes \in Nat /\ QuantityBytes \in Nat
  BY WidthAssumption DEF Width
<1> QED BY <1>1, <1>2, <1>4, <1>5, <1>6

LEMMA CancelOffsets == Len(CANCEL_FMT) = 1 /\ Offsets(CANCEL_FMT)[0] = 0 /\ Offsets(CANCEL_FMT)[1] = LongBytes
<1>1. PICK fmt, off : fmt = CANCEL_FMT /\ off = Offsets(CANCEL_FMT)
  OBVIOUS
<1>2. Len(fmt) = 1 /\ fmt[1] = "Q"
  BY <1>1 DEF CANCEL_FMT
<1>3. OffsetsAre(off, fmt)
  BY <1>1, FormatsTyped, OffsetsUnfold DEF Formats
<1>4. off[0] = 0 /\ off[1] = off[0] + Width["Q"]
  BY <1>2, <1>3 DEF OffsetsAre
<1>5. Width["Q"] = LongBytes /\ LongBytes \in Nat
  BY WidthAssumption DEF Width
<1> QED BY <1>1, <1>2, <1>4, <1>5

LEMMA FillSize == Len(FILL_FMT) = 6 /\ Offsets(FILL_FMT)[6] = 4 * LongBytes + 1 + QuantityBytes
<1>1. PICK fmt, off : fmt = FILL_FMT /\ off = Offsets(FILL_FMT)
  OBVIOUS
<1>2. /\ Len(fmt) = 6 /\ fmt[1] = "Q" /\ fmt[2] = "Q" /\ fmt[3] = "B" /\ fmt[4] = "q" /\ fmt[5] = "I" /\ fmt[6] = "Q"
  BY <1>1 DEF FILL_FMT
<1>3. OffsetsAre(off, fmt)
  BY <1>1, FormatsTyped, OffsetsUnfold DEF Formats
<1>4. off[0] = 0 /\ \A i \in 1..6 : off[i] = off[i - 1] + Width[fmt[i]]
  BY <1>2, <1>3 DEF OffsetsAre
<1>5. /\ off[1] = off[0] + Width["Q"] /\ off[2] = off[1] + Width["Q"] /\ off[3] = off[2] + Width["B"]
      /\ off[4] = off[3] + Width["q"] /\ off[5] = off[4] + Width["I"] /\ off[6] = off[5] + Width["Q"]
  BY <1>2, <1>4
<1>6. /\ Width["Q"] = LongBytes /\ Width["q"] = LongBytes /\ Width["B"] = 1 /\ Width["I"] = QuantityBytes
      /\ LongBytes \in Nat /\ QuantityBytes \in Nat
  BY WidthAssumption DEF Width
<1> QED BY <1>1, <1>2, <1>4, <1>5, <1>6

LEMMA AckSize == Len(ACK_FMT) = 3 /\ Offsets(ACK_FMT)[3] = LongBytes + 2
<1>1. PICK fmt, off : fmt = ACK_FMT /\ off = Offsets(ACK_FMT)
  OBVIOUS
<1>2. Len(fmt) = 3 /\ fmt[1] = "Q" /\ fmt[2] = "B" /\ fmt[3] = "B"
  BY <1>1 DEF ACK_FMT
<1>3. OffsetsAre(off, fmt)
  BY <1>1, FormatsTyped, OffsetsUnfold DEF Formats
<1>4. off[0] = 0 /\ \A i \in 1..3 : off[i] = off[i - 1] + Width[fmt[i]]
  BY <1>2, <1>3 DEF OffsetsAre
<1>5. off[1] = off[0] + Width["Q"] /\ off[2] = off[1] + Width["B"] /\ off[3] = off[2] + Width["B"]
  BY <1>2, <1>4
<1>6. Width["Q"] = LongBytes /\ Width["B"] = 1 /\ LongBytes \in Nat
  BY WidthAssumption DEF Width
<1> QED BY <1>1, <1>2, <1>4, <1>5, <1>6

(* calcsize is the last offset.                                            *)
LEMMA SizeIsLastOffset ==
    ASSUME NEW fmt \in Formats
    PROVE  calcsize(fmt) = Offsets(fmt)[Len(fmt)]
<1>1. Len(fmt) + 1 \in 1..(Len(fmt) + 1) /\ (Len(fmt) + 1) - 1 = Len(fmt)
  BY FormatsTyped
<1> QED BY <1>1 DEF calcsize, FieldStart

(* The client's and the server's sizes of the messages are the same.       *)
LEMMA SizesAgree ==
    /\ calcsize(NEW_ORDER_FMT) = kMsgSize[NEW_ORDER] /\ calcsize(CANCEL_FMT) = kMsgSize[CANCEL]
    /\ calcsize(FILL_FMT) = kMsgSize[FILL] /\ calcsize(ACK_FMT) = kMsgSize[ACK]
    /\ PAYLOAD_SIZE[FILL] = kMsgSize[FILL] /\ PAYLOAD_SIZE[ACK] = kMsgSize[ACK]
    /\ kMsgSize[NEW_ORDER] = 2 * LongBytes + 2 + QuantityBytes /\ kMsgSize[CANCEL] = LongBytes
    /\ \A tag \in {NEW_ORDER, CANCEL, FILL, ACK} : kMsgSize[tag] \in Nat \ {0}
    /\ DOMAIN kMsgSize = {NEW_ORDER, CANCEL, SUBSCRIBE_FILLS, FILL, ACK}
    /\ DOMAIN PAYLOAD_SIZE = DOMAIN kMsgSize
<1>1. LongBytes \in Nat \ {0} /\ QuantityBytes \in Nat \ {0}
  BY WidthAssumption
<1>2. /\ kMsgSize[NEW_ORDER] = 2 * LongBytes + 2 + QuantityBytes /\ kMsgSize[CANCEL] = LongBytes
      /\ kMsgSize[FILL] = 4 * LongBytes + 1 + QuantityBytes /\ kMsgSize[ACK] = LongBytes + 2
  BY <1>1 DEF kMsgSize, NEW_ORDER, CANCEL, SUBSCRIBE_FILLS, FILL, ACK
<1>3. /\ PAYLOAD_SIZE[FILL] = calcsize(FILL_FMT) /\ PAYLOAD_SIZE[ACK] = calcsize(ACK_FMT)
  BY DEF PAYLOAD_SIZE, NEW_ORDER, CANCEL, SUBSCRIBE_FILLS, FILL, ACK
<1>4. /\ calcsize(NEW_ORDER_FMT) = 2 * LongBytes + 2 + QuantityBytes /\ calcsize(CANCEL_FMT) = LongBytes
      /\ calcsize(FILL_FMT) = 4 * LongBytes + 1 + QuantityBytes /\ calcsize(ACK_FMT) = LongBytes + 2
  <2>1. /\ calcsize(NEW_ORDER_FMT) = Offsets(NEW_ORDER_FMT)[Len(NEW_ORDER_FMT)]
        /\ calcsize(CANCEL_FMT) = Offsets(CANCEL_FMT)[Len(CANCEL_FMT)]
        /\ calcsize(FILL_FMT) = Offsets(FILL_FMT)[Len(FILL_FMT)]
        /\ calcsize(ACK_FMT) = Offsets(ACK_FMT)[Len(ACK_FMT)]
    BY SizeIsLastOffset DEF Formats
  <2> QED BY <2>1, NewOrderOffsets, CancelOffsets, FillSize, AckSize
<1>5. \A tag \in {NEW_ORDER, CANCEL, FILL, ACK} : kMsgSize[tag] \in Nat \ {0}
  BY <1>1, <1>2
<1>6. DOMAIN kMsgSize = {NEW_ORDER, CANCEL, SUBSCRIBE_FILLS, FILL, ACK} /\ DOMAIN PAYLOAD_SIZE = DOMAIN kMsgSize
  BY DEF kMsgSize, PAYLOAD_SIZE
<1> QED BY <1>2, <1>3, <1>4, <1>5, <1>6

NewOrderMsgs ==
    [tag : {"NewOrder"}, client_order_id : OrderIds, side : Sides, order_type : OrderTypes,
     price_ticks : Prices, quantity : Quantities]
CancelMsgs == [tag : {"Cancel"}, client_order_id : OrderIds]

AckMsgs ==
    [tag : {"Ack"}, client_order_id : OrderIds, request_type : {NEW_ORDER, CANCEL},
     status : {0, 1}]
FillMsgs ==
    [tag : {"Fill"}, resting_order_id : OrderIds, incoming_order_id : OrderIds,
     resting_side : Sides, price_ticks : Prices, quantity : UnsignedRange(QuantityBytes),
     timestamp : 0..(2 * MaxTimestamp)]

(* What the fields of the messages can hold.                               *)
LEMMA RangesTyped ==
    /\ UnsignedRange(1) = 0..255
    /\ UnsignedRange(LongBytes) \subseteq Int /\ SignedRange(LongBytes) \subseteq Int
    /\ UnsignedRange(QuantityBytes) \subseteq Int
    /\ FieldRange("B") = 0..255 /\ FieldRange("Q") = UnsignedRange(LongBytes)
    /\ FieldRange("q") = SignedRange(LongBytes) /\ FieldRange("I") = UnsignedRange(QuantityBytes)
<1>1. Capacity(1) = 256
  <2>0. PICK w \in Nat : w = 1
    OBVIOUS
  <2>1. PICK c \in [0..w -> Nat \ {0}] :
           /\ Capacity(w) = c[w] /\ c[0] = 1
           /\ \A k \in 1..w : c[k] = 256 * c[k - 1]
    BY <2>0, CapacityUnfolds
  <2>2. c[w] = 256 * c[w - 1] /\ w - 1 = 0 /\ c[0] = 1
    BY <2>0, <2>1
  <2> QED BY <2>0, <2>1, <2>2
<1>2. UnsignedRange(1) = 0..255
  BY <1>1 DEF UnsignedRange
<1>3. /\ UnsignedRange(LongBytes) \subseteq Int /\ SignedRange(LongBytes) \subseteq Int
      /\ UnsignedRange(QuantityBytes) \subseteq Int
  BY WidthAssumption, UnsignedRoundTrip, SignedRoundTrip
<1>4. /\ Width["Q"] = LongBytes /\ Width["q"] = LongBytes /\ Width["B"] = 1 /\ Width["I"] = QuantityBytes
  BY DEF Width
<1> QED BY <1>2, <1>3, <1>4 DEF FieldRange

(* A tag and what pack makes, written field by field.                      *)
Written(e, t, fmt, values) ==
    /\ e[0] = t /\ e[Len(fmt)] = t \o pack(fmt, values)
    /\ \A i \in 1..Len(fmt) : e[i] = e[i - 1] \o BigEndian(values[i], Width[fmt[i]])

LEMMA PackAfterTag ==
    ASSUME NEW fmt \in Formats, NEW values, Fits(fmt, values), NEW t \in Bytes
    PROVE  \E e : Written(e, t, fmt, values)
<1>1. fmt \in Seq(Chars) /\ Len(fmt) \in Nat
  BY FormatsTyped
<1>2. values \in Seq(Int) /\ Len(values) = Len(fmt)
  BY DEF Fits
<1>3. PICK p : Packs(p, fmt, values)
  BY <1>1, <1>2, PackUnfolds, Zenon
<1> DEFINE n == Len(fmt)
           F(i) == BigEndian(values[i], Width[fmt[i]])
<1>4. /\ p \in [0..n -> Bytes] /\ p[0] = <<>> /\ pack(fmt, values) = p[n]
      /\ \A i \in 1..n : p[i] = p[i - 1] \o F(i)
  BY <1>3 DEF Packs
<1>5. \A i \in 1..n : F(i) \in Bytes
  <2>1. \A i \in 1..n : fmt[i] \in Chars /\ values[i] \in Int
    BY <1>1, <1>2, ElementOfSeq
  <2>2. \A i \in 1..n : Width[fmt[i]] \in Nat \ {0}
    BY <2>1, WidthTyped
  <2> QED BY <2>1, <2>2, BigEndianTyped
<1> HIDE DEF F
<1>6. PICK e : e = [i \in 0..n |-> t \o p[i]]
  OBVIOUS
<1>7. ASSUME NEW i \in 1..n PROVE e[i] = e[i - 1] \o F(i)
  <2>1. i \in 0..n /\ i - 1 \in 0..n
    BY <1>1
  <2>2. PICK a, f : a = p[i - 1] /\ f = F(i)
    OBVIOUS
  <2>3. a \in Seq(Byte) /\ f \in Seq(Byte) /\ t \in Seq(Byte)
    BY <2>1, <2>2, <1>4, <1>5 DEF Bytes
  <2>4. (t \o a) \o f = t \o (a \o f)
    BY <2>3, ConcatAssociative
  <2>5. e[i] = t \o p[i] /\ e[i - 1] = t \o p[i - 1]
    BY <2>1, <1>6, Zenon
  <2>6. p[i] = a \o f
    BY <2>2, <1>4, Zenon
  <2> QED BY <2>2, <2>4, <2>5, <2>6, Zenon
<1>8. e[0] = t
  <2>1. e[0] = t \o p[0]
    BY <1>1, <1>6
  <2>2. t \o <<>> = t
    BY ConcatEmptySeq DEF Bytes
  <2> QED BY <2>1, <2>2, <1>4
<1>9. e[n] = t \o pack(fmt, values)
  BY <1>1, <1>4, <1>6
<1>10. Written(e, t, fmt, values)
  BY <1>7, <1>8, <1>9 DEF Written, F
<1> QED BY <1>10

(* An ack that the server sends is the ack that the client decodes.        *)
LEMMA AckRoundTrip ==
    ASSUME NEW m \in AckMsgs
    PROVE  \E body \in Bytes : /\ encode_ack(m) = <<ACK>> \o body /\ Len(body) = kMsgSize[ACK]
                               /\ decode_ack(body) = m
<1> DEFINE fmt == ACK_FMT
           values == <<m.client_order_id, m.request_type, m.status>>
<1>1. /\ m.client_order_id \in UnsignedRange(LongBytes) /\ m.request_type \in 0..255
      /\ m.status \in 0..255
  BY FieldsAssumption DEF AckMsgs, NEW_ORDER, CANCEL
<1>2. /\ Len(fmt) = 3 /\ fmt[1] = "Q" /\ fmt[2] = "B" /\ fmt[3] = "B"
  BY DEF ACK_FMT
<1>2a. m.client_order_id \in Int /\ m.request_type \in Int /\ m.status \in Int
  BY <1>1, RangesTyped
<1>3. values \in Seq(Int) /\ Len(values) = 3 /\ values[1] = m.client_order_id
      /\ values[2] = m.request_type /\ values[3] = m.status
  BY <1>2a
<1> HIDE DEF values
<1>4. Fits(fmt, values)
  <2>1. ASSUME NEW i \in 1..3 PROVE values[i] \in FieldRange(fmt[i])
    <3>1. i = 1 \/ i = 2 \/ i = 3
      OBVIOUS
    <3> QED BY <3>1, <1>1, <1>2, <1>3, RangesTyped
  <2> QED BY <2>1, <1>2, <1>3 DEF Fits
<1>5. fmt \in Formats
  BY DEF Formats
<1> HIDE DEF fmt
<1>6. PICK body, t : body = pack(fmt, values) /\ t = <<ACK>>
  OBVIOUS
<1>7. body \in Bytes /\ Len(body) = calcsize(fmt) /\ unpack(fmt, body) = values
  BY <1>4, <1>5, <1>6, StructRoundTrip
<1>8. Len(body) = kMsgSize[ACK]
  BY <1>7, SizesAgree DEF fmt
<1>9. t \in Bytes
  BY <1>6 DEF Bytes, Byte, ACK
<1>10. PICK e : Written(e, t, fmt, values)
  BY <1>4, <1>5, <1>9, PackAfterTag, Zenon
<1>11. e[0] = t /\ e[3] = t \o body
       /\ \A i \in 1..3 : e[i] = e[i - 1] \o BigEndian(values[i], Width[fmt[i]])
  BY <1>2, <1>6, <1>10 DEF Written
<1>12. Width["Q"] = LongBytes /\ Width["B"] = 1
  BY DEF Width
<1>13. /\ BigEndian(values[1], Width[fmt[1]]) = put_u64(m.client_order_id)
       /\ BigEndian(values[2], Width[fmt[2]]) = put_u8(m.request_type)
       /\ BigEndian(values[3], Width[fmt[3]]) = put_u8(m.status)
  BY <1>2, <1>3, <1>12, Zenon DEF put_u64, put_u8
<1>14. /\ 1 \in 1..3 /\ 2 \in 1..3 /\ 3 \in 1..3
       /\ 1 - 1 = 0 /\ 2 - 1 = 1 /\ 3 - 1 = 2
  OBVIOUS
<1>15. /\ e[1] = e[0] \o put_u64(m.client_order_id) /\ e[2] = e[1] \o put_u8(m.request_type)
       /\ e[3] = e[2] \o put_u8(m.status)
  BY <1>11, <1>13, <1>14, Zenon
<1>16. encode_ack(m) = <<ACK>> \o body
  BY <1>6, <1>11, <1>15, Zenon DEF encode_ack
<1>17. decode_ack(body) = m
  <2>1. unpack(ACK_FMT, body) = values
    BY <1>7 DEF fmt
  <2>2. decode_ack(body) = [tag |-> "Ack", client_order_id |-> m.client_order_id,
                            request_type |-> m.request_type, status |-> m.status]
    BY <2>1, <1>3 DEF decode_ack
  <2> QED BY <2>2 DEF AckMsgs
<1> QED BY <1>7, <1>8, <1>16, <1>17

(* A fill that the server sends is the fill that the client decodes.       *)
LEMMA FillRoundTrip ==
    ASSUME NEW m \in FillMsgs
    PROVE  \E body \in Bytes : /\ encode_fill(m) = <<FILL>> \o body /\ Len(body) = kMsgSize[FILL]
                               /\ decode_fill(body) = m
<1> DEFINE fmt == FILL_FMT
           values == <<m.resting_order_id, m.incoming_order_id, SideCode(m.resting_side),
                       m.price_ticks, m.quantity, m.timestamp>>
<1>0. SideCode(m.resting_side) \in 0..255 /\ SideName(SideCode(m.resting_side)) = m.resting_side
  BY DEF FillMsgs, Sides, SideCode, SideName
<1>1. /\ m.resting_order_id \in UnsignedRange(LongBytes) /\ m.incoming_order_id \in UnsignedRange(LongBytes)
      /\ m.price_ticks \in SignedRange(LongBytes) /\ m.quantity \in UnsignedRange(QuantityBytes)
      /\ m.timestamp \in UnsignedRange(LongBytes)
  BY FieldsAssumption DEF FillMsgs
<1>2. /\ Len(fmt) = 6 /\ fmt[1] = "Q" /\ fmt[2] = "Q" /\ fmt[3] = "B" /\ fmt[4] = "q"
      /\ fmt[5] = "I" /\ fmt[6] = "Q"
  BY DEF FILL_FMT
<1>2a. /\ m.resting_order_id \in Int /\ m.incoming_order_id \in Int /\ SideCode(m.resting_side) \in Int
       /\ m.price_ticks \in Int /\ m.quantity \in Int /\ m.timestamp \in Int
  BY <1>0, <1>1, RangesTyped
<1>3. values \in Seq(Int) /\ Len(values) = 6 /\ values[1] = m.resting_order_id
      /\ values[2] = m.incoming_order_id /\ values[3] = SideCode(m.resting_side)
      /\ values[4] = m.price_ticks /\ values[5] = m.quantity /\ values[6] = m.timestamp
  BY <1>2a
<1> HIDE DEF values
<1>4. Fits(fmt, values)
  <2>1. ASSUME NEW i \in 1..6 PROVE values[i] \in FieldRange(fmt[i])
    <3>1. i = 1 \/ i = 2 \/ i = 3 \/ i = 4 \/ i = 5 \/ i = 6
      OBVIOUS
    <3> QED BY <3>1, <1>0, <1>1, <1>2, <1>3, RangesTyped
  <2> QED BY <2>1, <1>2, <1>3 DEF Fits
<1>5. fmt \in Formats
  BY DEF Formats
<1> HIDE DEF fmt
<1>6. PICK body, t : body = pack(fmt, values) /\ t = <<FILL>>
  OBVIOUS
<1>7. body \in Bytes /\ Len(body) = calcsize(fmt) /\ unpack(fmt, body) = values
  BY <1>4, <1>5, <1>6, StructRoundTrip
<1>8. Len(body) = kMsgSize[FILL]
  BY <1>7, SizesAgree DEF fmt
<1>9. t \in Bytes
  BY <1>6 DEF Bytes, Byte, FILL
<1>10. PICK e : Written(e, t, fmt, values)
  BY <1>4, <1>5, <1>9, PackAfterTag, Zenon
<1>11. e[0] = t /\ e[6] = t \o body
       /\ \A i \in 1..6 : e[i] = e[i - 1] \o BigEndian(values[i], Width[fmt[i]])
  BY <1>2, <1>6, <1>10 DEF Written
<1>12. Width["Q"] = LongBytes /\ Width["B"] = 1 /\ Width["q"] = LongBytes /\ Width["I"] = QuantityBytes
  BY DEF Width
<1>13. /\ BigEndian(values[1], Width[fmt[1]]) = put_u64(m.resting_order_id)
       /\ BigEndian(values[2], Width[fmt[2]]) = put_u64(m.incoming_order_id)
       /\ BigEndian(values[3], Width[fmt[3]]) = put_u8(SideCode(m.resting_side))
       /\ BigEndian(values[4], Width[fmt[4]]) = put_u64(m.price_ticks)
       /\ BigEndian(values[5], Width[fmt[5]]) = put_u32(m.quantity)
       /\ BigEndian(values[6], Width[fmt[6]]) = put_u64(m.timestamp)
  BY <1>2, <1>3, <1>12, Zenon DEF put_u64, put_u32, put_u8
<1>14. /\ 1 \in 1..6 /\ 2 \in 1..6 /\ 3 \in 1..6 /\ 4 \in 1..6 /\ 5 \in 1..6 /\ 6 \in 1..6
       /\ 1 - 1 = 0 /\ 2 - 1 = 1 /\ 3 - 1 = 2 /\ 4 - 1 = 3 /\ 5 - 1 = 4 /\ 6 - 1 = 5
  OBVIOUS
<1>15. /\ e[1] = e[0] \o put_u64(m.resting_order_id) /\ e[2] = e[1] \o put_u64(m.incoming_order_id)
       /\ e[3] = e[2] \o put_u8(SideCode(m.resting_side))
  BY <1>11, <1>13, <1>14, Zenon
<1>15a. /\ e[4] = e[3] \o put_u64(m.price_ticks)
        /\ e[5] = e[4] \o put_u32(m.quantity) /\ e[6] = e[5] \o put_u64(m.timestamp)
  BY <1>11, <1>13, <1>14, Zenon
<1>16. encode_fill(m) = <<FILL>> \o body
  <2>1. e[3] = <<FILL>> \o put_u64(m.resting_order_id) \o put_u64(m.incoming_order_id)
                 \o put_u8(SideCode(m.resting_side))
    BY <1>6, <1>11, <1>15, Zenon
  <2>2. e[6] = e[3] \o put_u64(m.price_ticks) \o put_u32(m.quantity) \o put_u64(m.timestamp)
    BY <1>15a, Zenon
  <2>3. encode_fill(m) = e[6]
    BY <2>1, <2>2, Zenon DEF encode_fill
  <2> QED BY <2>3, <1>6, <1>11, Zenon
<1>17. decode_fill(body) = m
  <2>1. unpack(FILL_FMT, body) = values
    BY <1>7 DEF fmt
  <2>2. decode_fill(body) = [tag |-> "Fill", resting_order_id |-> m.resting_order_id,
                             incoming_order_id |-> m.incoming_order_id,
                             resting_side |-> m.resting_side, price_ticks |-> m.price_ticks,
                             quantity |-> m.quantity, timestamp |-> m.timestamp]
    BY <2>1, <1>0, <1>3 DEF decode_fill
  <2> QED BY <2>2 DEF FillMsgs
<1> QED BY <1>7, <1>8, <1>16, <1>17

(* The byte of a value of one byte.                                        *)
LEMMA OneByte ==
    ASSUME NEW v \in 0..255
    PROVE  BigEndian(v, 1) \in Bytes /\ BigEndian(v, 1)[1] = v
<1>0. PICK w \in Nat \ {0} : w = 1
  OBVIOUS
<1>1. PICK q : q = Shifted(v, w)
  OBVIOUS
<1>2. q[0] = v
  <2>1. v \in Int
    OBVIOUS
  <2>2. Shifts(Shifted(v, w), v, w)
    BY <2>1, ShiftedUnfolds, Zenon
  <2> QED BY <2>2, <1>1 DEF Shifts
<1>3. BigEndian(v, w) = [i \in 1..w |-> q[w - i] % 256]
  BY <1>1 DEF BigEndian
<1>4. 1 \in 1..w /\ w - 1 = 0 /\ v % 256 = v
  BY <1>0
<1>5. BigEndian(v, w)[1] = q[w - 1] % 256
  BY <1>3, <1>4
<1>6. BigEndian(v, w)[1] = v
  BY <1>2, <1>4, <1>5
<1>7. BigEndian(v, w) \in Bytes
  BY BigEndianTyped
<1> QED BY <1>0, <1>6, <1>7

(* One element of a sequence as a subsequence.                             *)
LEMMA SubSeqOfOne ==
    ASSUME NEW T, NEW s \in Seq(T), NEW k \in 1..Len(s)
    PROVE  SubSeq(s, k, k)[1] = s[k]
<1>1. 1 \in 1..((k - k) + 1) /\ k + 1 - 1 = k
  OBVIOUS
<1> QED BY <1>1, SubSeqProperties

(* A new order that the client sends is the one the server decodes.        *)
LEMMA NewOrderRoundTrip ==
    ASSUME NEW m \in NewOrderMsgs
    PROVE  \E body \in Bytes :
              /\ encode_new_order(m) = <<NEW_ORDER>> \o body /\ Len(body) = kMsgSize[NEW_ORDER]
              /\ decode_client_order(body)
                    = [client_order_id |-> m.client_order_id, side |-> m.side,
                       order_type |-> m.order_type, price_ticks |-> m.price_ticks,
                       quantity |-> m.quantity]
<1> DEFINE fmt == NEW_ORDER_FMT
           values == <<m.client_order_id, SideCode(m.side), TypeCode(m.order_type),
                       m.price_ticks, m.quantity>>
           L == LongBytes
<1>0. /\ SideCode(m.side) \in 0..255 /\ SideName(SideCode(m.side)) = m.side
      /\ TypeCode(m.order_type) \in 0..255 /\ TypeName(TypeCode(m.order_type)) = m.order_type
  BY DEF NewOrderMsgs, Sides, OrderTypes, SideCode, SideName, TypeCode, TypeName
<1>1. /\ m.client_order_id \in UnsignedRange(LongBytes) /\ m.price_ticks \in SignedRange(LongBytes)
      /\ m.quantity \in UnsignedRange(QuantityBytes)
  BY FieldsAssumption DEF NewOrderMsgs
<1>2. /\ Len(fmt) = 5 /\ fmt[1] = "Q" /\ fmt[2] = "B" /\ fmt[3] = "B" /\ fmt[4] = "q"
      /\ fmt[5] = "I"
  BY DEF NEW_ORDER_FMT
<1>2a. /\ m.client_order_id \in Int /\ SideCode(m.side) \in Int /\ TypeCode(m.order_type) \in Int
       /\ m.price_ticks \in Int /\ m.quantity \in Int
  BY <1>0, <1>1, RangesTyped
<1>3. values \in Seq(Int) /\ Len(values) = 5 /\ values[1] = m.client_order_id
      /\ values[2] = SideCode(m.side) /\ values[3] = TypeCode(m.order_type)
      /\ values[4] = m.price_ticks /\ values[5] = m.quantity
  BY <1>2a
<1>4. encode_new_order(m) = <<NEW_ORDER>> \o pack(fmt, values)
  BY Zenon DEF encode_new_order
<1>5. fmt \in Formats /\ fmt \in Seq(Chars)
  BY FormatsTyped DEF Formats
<1> HIDE DEF values
<1>6. PICK off, b : off = Offsets(fmt) /\ b = pack(fmt, values)
  OBVIOUS
<1>7. /\ b \in Bytes /\ Len(b) = off[5]
      /\ \A i \in 1..5 : SubSeq(b, off[i - 1] + 1, off[i]) = BigEndian(values[i], Width[fmt[i]])
  BY <1>2, <1>3, <1>5, <1>6, PackedFields
<1>8. /\ off[0] = 0 /\ off[1] = L /\ off[2] = L + 1 /\ off[3] = L + 2
      /\ off[4] = 2 * L + 2 /\ off[5] = 2 * L + 2 + QuantityBytes
  BY <1>6, NewOrderOffsets
<1>9. Len(b) = kMsgSize[NEW_ORDER]
  BY <1>7, <1>8, SizesAgree
<1> HIDE DEF fmt
<1>10. L \in Nat \ {0} /\ QuantityBytes \in Nat \ {0} /\ b \in Seq(Byte)
  BY <1>7, WidthAssumption DEF Bytes
<1>11. Width["Q"] = L /\ Width["B"] = 1 /\ Width["q"] = L /\ Width["I"] = QuantityBytes
  BY DEF Width
<1>12. /\ 1 \in 1..5 /\ 2 \in 1..5 /\ 3 \in 1..5 /\ 4 \in 1..5 /\ 5 \in 1..5
       /\ 1 - 1 = 0 /\ 2 - 1 = 1 /\ 3 - 1 = 2 /\ 4 - 1 = 3 /\ 5 - 1 = 4
  OBVIOUS
<1>13. /\ SubSeq(b, off[0] + 1, off[1]) = BigEndian(m.client_order_id, L)
       /\ SubSeq(b, off[1] + 1, off[2]) = BigEndian(SideCode(m.side), 1)
       /\ SubSeq(b, off[2] + 1, off[3]) = BigEndian(TypeCode(m.order_type), 1)
       /\ SubSeq(b, off[3] + 1, off[4]) = BigEndian(m.price_ticks, L)
       /\ SubSeq(b, off[4] + 1, off[5]) = BigEndian(m.quantity, QuantityBytes)
  BY <1>2, <1>3, <1>7, <1>11, <1>12, Zenon
<1>14. /\ 0 + L = off[1] /\ off[1] + 1 = L + 1 /\ off[2] = L + 1 /\ off[2] + 1 = L + 2
       /\ off[3] = L + 2 /\ off[3] + 1 = L + 3 /\ off[4] + 1 = 2 * L + 3
       /\ L + 1 \in 1..Len(b) /\ L + 2 \in 1..Len(b)
  BY <1>7, <1>8, <1>10
<1>15. get_u64(b, 0) = m.client_order_id
  <2>1. SubSeq(b, 0 + 1, 0 + L) = BigEndian(m.client_order_id, L)
    BY <1>8, <1>13, <1>14, Zenon
  <2>2. FromBytes(BigEndian(m.client_order_id, L), FALSE) = m.client_order_id
    BY <1>1, <1>10, UnsignedRoundTrip
  <2> QED BY <2>1, <2>2, Zenon DEF get_u64
<1>16. b[L + 1] = SideCode(m.side)
  <2>1. SubSeq(b, L + 1, L + 1) = BigEndian(SideCode(m.side), 1)
    BY <1>13, <1>14, Zenon
  <2>2. SubSeq(b, L + 1, L + 1)[1] = b[L + 1]
    BY <1>10, <1>14, SubSeqOfOne
  <2>3. BigEndian(SideCode(m.side), 1)[1] = SideCode(m.side)
    BY <1>0, OneByte
  <2> QED BY <2>1, <2>2, <2>3, Zenon
<1>17. b[L + 2] = TypeCode(m.order_type)
  <2>1. SubSeq(b, L + 2, L + 2) = BigEndian(TypeCode(m.order_type), 1)
    BY <1>13, <1>14, Zenon
  <2>2. SubSeq(b, L + 2, L + 2)[1] = b[L + 2]
    BY <1>10, <1>14, SubSeqOfOne
  <2>3. BigEndian(TypeCode(m.order_type), 1)[1] = TypeCode(m.order_type)
    BY <1>0, OneByte
  <2> QED BY <2>1, <2>2, <2>3, Zenon
<1>18. FromBytes(SubSeq(b, L + 3, 2 * L + 2), TRUE) = m.price_ticks
  <2>1. SubSeq(b, L + 3, 2 * L + 2) = BigEndian(m.price_ticks, L)
    BY <1>8, <1>13, <1>14, Zenon
  <2>2. FromBytes(BigEndian(m.price_ticks, L), TRUE) = m.price_ticks
    BY <1>1, <1>10, SignedRoundTrip
  <2> QED BY <2>1, <2>2, Zenon
<1>19. FromBytes(SubSeq(b, 2 * L + 3, 2 * L + 2 + QuantityBytes), FALSE) = m.quantity
  <2>1. SubSeq(b, 2 * L + 3, 2 * L + 2 + QuantityBytes) = BigEndian(m.quantity, QuantityBytes)
    BY <1>8, <1>13, <1>14, Zenon
  <2>2. FromBytes(BigEndian(m.quantity, QuantityBytes), FALSE) = m.quantity
    BY <1>1, <1>10, UnsignedRoundTrip
  <2> QED BY <2>1, <2>2, Zenon
<1>20. decode_client_order(b)
          = [client_order_id |-> m.client_order_id, side |-> m.side,
             order_type |-> m.order_type, price_ticks |-> m.price_ticks,
             quantity |-> m.quantity]
  BY <1>0, <1>15, <1>16, <1>17, <1>18, <1>19, Zenon DEF decode_client_order
<1> QED BY <1>4, <1>6, <1>7, <1>9, <1>20, Zenon

(* A cancel that the client sends is the one the server decodes.           *)
LEMMA CancelRoundTrip ==
    ASSUME NEW m \in CancelMsgs
    PROVE  \E body \in Bytes :
              /\ encode_cancel(m) = <<CANCEL>> \o body /\ Len(body) = kMsgSize[CANCEL]
              /\ decode_cancel(body).client_order_id = m.client_order_id
<1> DEFINE fmt == CANCEL_FMT
           values == <<m.client_order_id>>
           L == LongBytes
<1>1. m.client_order_id \in UnsignedRange(L)
  BY FieldsAssumption DEF CancelMsgs
<1>2. Len(fmt) = 1 /\ fmt[1] = "Q"
  BY DEF CANCEL_FMT
<1>2a. m.client_order_id \in Int
  BY <1>1, RangesTyped
<1>3. values \in Seq(Int) /\ Len(values) = 1 /\ values[1] = m.client_order_id
  BY <1>2a
<1>4. encode_cancel(m) = <<CANCEL>> \o pack(fmt, values)
  BY Zenon DEF encode_cancel
<1>5. fmt \in Formats /\ fmt \in Seq(Chars)
  BY FormatsTyped DEF Formats
<1> HIDE DEF values
<1>6. PICK off, b : off = Offsets(fmt) /\ b = pack(fmt, values)
  OBVIOUS
<1>7. /\ b \in Bytes /\ Len(b) = off[1]
      /\ \A i \in 1..1 : SubSeq(b, off[i - 1] + 1, off[i]) = BigEndian(values[i], Width[fmt[i]])
  BY <1>2, <1>3, <1>5, <1>6, PackedFields
<1>8. off[0] = 0 /\ off[1] = L
  BY <1>6, CancelOffsets
<1>9. Len(b) = kMsgSize[CANCEL]
  BY <1>7, <1>8, SizesAgree
<1> HIDE DEF fmt
<1>10. L \in Nat \ {0} /\ Width["Q"] = L /\ 0 + L = L
  BY WidthAssumption DEF Width
<1>11. 1 \in 1..1 /\ 1 - 1 = 0
  OBVIOUS
<1>12. SubSeq(b, 0 + 1, 0 + L) = BigEndian(m.client_order_id, L)
  BY <1>2, <1>3, <1>7, <1>8, <1>10, <1>11, Zenon
<1>13. FromBytes(BigEndian(m.client_order_id, L), FALSE) = m.client_order_id
  BY <1>1, <1>10, UnsignedRoundTrip
<1>14. get_u64(b, 0) = m.client_order_id
  BY <1>12, <1>13, Zenon DEF get_u64
<1>15. decode_cancel(b).client_order_id = m.client_order_id
  BY <1>14 DEF decode_cancel
<1> QED BY <1>4, <1>6, <1>7, <1>9, <1>15, Zenon

-----------------------------------------------------------------------------
(* Streams. *)

(* The stream s is made of the codes cs, the i-th of which ends at c[i].   *)
CutAt(c, s, cs) ==
    /\ c \in [0..Len(cs) -> 0..Len(s)]
    /\ c[0] = 0 /\ c[Len(cs)] = Len(s)
    /\ \A i \in 1..Len(cs) : c[i - 1] < c[i] /\ cs[i] = SubSeq(s, c[i - 1] + 1, c[i])

IsCut(s, cs) == \E c : CutAt(c, s, cs)

(* An empty stream, and a stream of one code.                              *)
LEMMA CutNone == IsCut(<<>>, <<>>)
<1>1. CutAt([i \in 0..0 |-> 0], <<>>, <<>>)
  BY DEF CutAt
<1> QED BY <1>1 DEF IsCut

LEMMA CutOne ==
    ASSUME NEW b \in Bytes, b # <<>>
    PROVE  IsCut(b, <<b>>)
<1>1. b \in Seq(Byte) /\ Len(b) \in Nat \ {0}
  BY EmptySeq DEF Bytes
<1>2. SubSeq(b, 0 + 1, Len(b)) = b
  BY <1>1, SubSeqFull
<1>3. PICK c, cs : c = [i \in 0..1 |-> IF i = 0 THEN 0 ELSE Len(b)] /\ cs = <<b>>
  OBVIOUS
<1>4. Len(cs) = 1 /\ cs[1] = b /\ c[0] = 0 /\ c[1] = Len(b) /\ c \in [0..1 -> 0..Len(b)]
  BY <1>1, <1>3
<1>5. \A i \in 1..Len(cs) : i = 1 /\ i - 1 = 0
  BY <1>4
<1>6. CutAt(c, b, cs)
  BY <1>1, <1>2, <1>4, <1>5 DEF CutAt
<1> QED BY <1>3, <1>6 DEF IsCut

(* One stream after the other.                                             *)
LEMMA CutJoins ==
    ASSUME NEW s \in Bytes, NEW t \in Bytes, NEW cs \in Seq(Bytes), NEW ds \in Seq(Bytes),
           IsCut(s, cs), IsCut(t, ds)
    PROVE  IsCut(s \o t, cs \o ds)
<1>1. PICK c : CutAt(c, s, cs)
  BY DEF IsCut
<1>2. PICK d : CutAt(d, t, ds)
  BY DEF IsCut
<1>3. PICK u, es, k, l, m, n : /\ u = s \o t /\ es = cs \o ds /\ k = Len(s) /\ l = Len(t)
                               /\ m = Len(cs) /\ n = Len(ds)
  OBVIOUS
<1>4. /\ u \in Seq(Byte) /\ s \in Seq(Byte) /\ t \in Seq(Byte) /\ Len(u) = k + l
      /\ k \in Nat /\ l \in Nat /\ m \in Nat /\ n \in Nat
  BY <1>3, ConcatProperties DEF Bytes
<1>5. /\ es \in Seq(Bytes) /\ Len(es) = m + n
      /\ \A i \in 1..(m + n) : es[i] = IF i <= m THEN cs[i] ELSE ds[i - m]
  BY <1>3, ConcatProperties
<1>6. /\ c \in [0..m -> 0..k] /\ c[0] = 0 /\ c[m] = k
      /\ \A i \in 1..m : c[i - 1] < c[i] /\ cs[i] = SubSeq(s, c[i - 1] + 1, c[i])
  BY <1>1, <1>3 DEF CutAt
<1>7. /\ d \in [0..n -> 0..l] /\ d[0] = 0 /\ d[n] = l
      /\ \A i \in 1..n : d[i - 1] < d[i] /\ ds[i] = SubSeq(t, d[i - 1] + 1, d[i])
  BY <1>2, <1>3 DEF CutAt
<1>8. PICK e : e = [i \in 0..(m + n) |-> IF i <= m THEN c[i] ELSE k + d[i - m]]
  OBVIOUS
<1>9. e \in [0..(m + n) -> 0..(k + l)]
  <2>1. ASSUME NEW i \in 0..(m + n) PROVE (IF i <= m THEN c[i] ELSE k + d[i - m]) \in 0..(k + l)
    <3>1. CASE i <= m
      <4>1. c[i] \in 0..k
        BY <3>1, <1>4, <1>6
      <4> QED BY <4>1, <3>1, <1>4
    <3>2. CASE i > m
      <4>1. i - m \in 0..n
        BY <3>2, <1>4
      <4>2. PICK x : x = d[i - m]
        OBVIOUS
      <4>3. x \in 0..l
        BY <4>1, <4>2, <1>7
      <4> QED BY <4>2, <4>3, <3>2, <1>4
    <3> QED BY <3>1, <3>2, <1>4
  <2> QED BY <2>1, <1>8
<1>10. e[0] = 0 /\ e[m + n] = k + l
  <2>1. e[0] = 0
    BY <1>4, <1>6, <1>8
  <2>2. CASE n = 0
    BY <2>2, <1>4, <1>6, <1>7, <1>8
  <2>3. CASE n > 0
    <3>1. ~(m + n <= m) /\ m + n \in 0..(m + n) /\ (m + n) - m = n
      BY <2>3, <1>4
    <3> QED BY <2>1, <3>1, <1>7, <1>8
  <2> QED BY <2>1, <2>2, <2>3, <1>4
<1>11. ASSUME NEW i \in 1..(m + n)
       PROVE  e[i - 1] < e[i] /\ es[i] = SubSeq(u, e[i - 1] + 1, e[i])
  <2>1. CASE i <= m
    <3>1. i \in 1..m /\ i - 1 \in 0..m /\ i \in 0..m
      BY <2>1, <1>4
    <3>2. PICK x, y : x = c[i - 1] /\ y = c[i]
      OBVIOUS
    <3>3. x \in 0..k /\ y \in 0..k /\ x < y /\ cs[i] = SubSeq(s, x + 1, y)
      BY <3>1, <3>2, <1>6
    <3>4. x + 1 \in 1..Len(s) /\ y \in 1..Len(s)
      BY <3>3, <1>3, <1>4
    <3>5. SubSeq(u, x + 1, y) = SubSeq(s, x + 1, y)
      BY <3>4, <1>3, <1>4, SubSeqOfConcat1
    <3>6. e[i] = y /\ e[i - 1] = x
      BY <3>1, <3>2, <1>4, <1>8
    <3> QED BY <3>3, <3>5, <3>6, <2>1, <1>5
  <2>2. CASE i > m
    <3>1. /\ ~(i <= m) /\ i \in 0..(m + n) /\ i - 1 \in 0..(m + n) /\ i - m \in 1..n
          /\ (i - m) - 1 \in 0..n /\ i - m \in 0..n /\ (i - 1) - m = (i - m) - 1
      BY <2>2, <1>4
    <3>2. PICK x, y : x = d[(i - m) - 1] /\ y = d[i - m]
      OBVIOUS
    <3>3. x \in 0..l /\ y \in 0..l /\ x < y /\ ds[i - m] = SubSeq(t, x + 1, y)
      BY <3>1, <3>2, <1>7
    <3>4. PICK a, b : a = (k + x) + 1 /\ b = k + y
      OBVIOUS
    <3>4a. /\ a \in (Len(s) + 1)..(Len(s) + Len(t)) /\ b \in (Len(s) + 1)..(Len(s) + Len(t))
           /\ a - Len(s) = x + 1 /\ b - Len(s) = y
      BY <3>3, <3>4, <1>3, <1>4
    <3>5. SubSeq(u, a, b) = SubSeq(t, a - Len(s), b - Len(s))
      BY <3>4a, <1>3, <1>4, SubSeqOfConcat2
    <3>6. e[i] = k + y
      BY <3>1, <3>2, <1>8
    <3>7. e[i - 1] = k + x
      <4>1. CASE i - 1 > m
        <5>1. ~(i - 1 <= m)
          BY <4>1, <1>4
        <5>2. e[i - 1] = k + d[(i - 1) - m]
          BY <5>1, <3>1, <1>8
        <5> QED BY <5>2, <3>1, <3>2
      <4>2. CASE i - 1 <= m
        <5>1. i - 1 = m /\ (i - m) - 1 = 0 /\ m \in 0..(m + n) /\ m <= m
          BY <4>2, <2>2, <1>4
        <5>2. e[m] = c[m]
          BY <5>1, <1>8
        <5>3. x = 0 /\ e[i - 1] = k
          BY <5>1, <5>2, <3>2, <1>6, <1>7
        <5> QED BY <5>3, <1>4
      <4> QED BY <4>1, <4>2, <1>4
    <3>8. es[i] = SubSeq(u, a, b)
      BY <3>1, <3>3, <3>4a, <3>5, <1>5
    <3> QED BY <3>3, <3>4, <3>6, <3>7, <3>8, <1>4
  <2> QED BY <2>1, <2>2, <1>4
<1>12. CutAt(e, u, es)
  BY <1>4, <1>5, <1>9, <1>10, <1>11 DEF CutAt
<1> QED BY <1>3, <1>12 DEF IsCut

(* The first code of a stream, and the rest of it.                         *)
LEMMA CutHead ==
    ASSUME NEW s \in Bytes, NEW cs \in Seq(Bytes), IsCut(s, cs), s # <<>> \/ cs # <<>>,
           NEW k, k = Len(Head(cs))
    PROVE  /\ cs # <<>> /\ s # <<>> /\ k \in 1..Len(s)
           /\ SubSeq(s, 1, k) = Head(cs)
           /\ SubSeq(s, k + 1, Len(s)) \in Bytes
           /\ IsCut(SubSeq(s, k + 1, Len(s)), Tail(cs))
<1>1. PICK c : CutAt(c, s, cs)
  BY DEF IsCut
<1>2. PICK n, l : n = Len(cs) /\ l = Len(s)
  OBVIOUS
<1>3. n \in Nat /\ l \in Nat /\ s \in Seq(Byte)
  BY <1>2 DEF Bytes
<1>4. /\ c \in [0..n -> 0..l] /\ c[0] = 0 /\ c[n] = l
      /\ \A i \in 1..n : c[i - 1] < c[i] /\ cs[i] = SubSeq(s, c[i - 1] + 1, c[i])
  BY <1>1, <1>2 DEF CutAt
<1>5. n # 0
  <2>1. CASE n = 0
    <3>1. l = 0
      BY <2>1, <1>4
    <3> QED BY <2>1, <3>1, <1>2, <1>3, EmptySeq
  <2> QED BY <2>1
<1>6. cs # <<>> /\ 1 \in 1..n /\ 1 \in 0..n /\ 1 - 1 = 0
  BY <1>2, <1>3, <1>5, EmptySeq
<1>7. PICK x : x = c[1]
  OBVIOUS
<1>8. x \in 1..l /\ Head(cs) = cs[1] /\ cs[1] = SubSeq(s, 1, x)
  <2>0. PICK z : z = c[1 - 1]
    OBVIOUS
  <2>1. z < x /\ cs[1] = SubSeq(s, z + 1, x) /\ x \in 0..l
    BY <2>0, <1>4, <1>6, <1>7
  <2>2. z = 0 /\ z + 1 = 1
    BY <2>0, <1>4, <1>6
  <2>3. Head(cs) = cs[1]
    BY <1>6
  <2>4. x \in 1..l
    BY <2>1, <2>2, <1>3
  <2> QED BY <2>1, <2>2, <2>3, <2>4
<1>9. k = x
  <2>1. \A i \in 1..x : s[i] \in Byte
    BY <1>2, <1>3, <1>8, ElementOfSeq
  <2> QED BY <2>1, <1>8, SubSeqProperties
<1>10. PICK r, ds : r = SubSeq(s, x + 1, l) /\ ds = Tail(cs)
  OBVIOUS
<1>11. r \in Seq(Byte) /\ Len(r) = l - x
  <2>1. \A i \in (x + 1)..l : s[i] \in Byte
    BY <1>2, <1>3, <1>8, ElementOfSeq
  <2>2. x + 1 \in Int /\ l \in Int /\ (x + 1 <= l => l - (x + 1) + 1 = l - x) /\ (~(x + 1 <= l) => l - x = 0)
    BY <1>3, <1>8
  <2>3. r \in Seq(Byte) /\ Len(r) = IF x + 1 <= l THEN l - (x + 1) + 1 ELSE 0
    BY <2>1, <2>2, <1>10, SubSeqProperties
  <2> QED BY <2>2, <2>3
<1>12. ds \in Seq(Bytes) /\ Len(ds) = n - 1 /\ \A i \in 1..(n - 1) : ds[i] = cs[i + 1]
  BY <1>2, <1>6, <1>10, HeadTailProperties
<1>13. PICK d : d = [i \in 0..(n - 1) |-> c[i + 1] - x]
  OBVIOUS
<1>13a. ASSUME NEW i \in 1..n PROVE x <= c[i]
  <2> DEFINE T == {j \in 0..(n - 1) : x <= c[j + 1]}
  <2>1. 0 \in T
    BY <1>3, <1>5, <1>7, <1>8
  <2>2. ASSUME NEW j \in 1..(n - 1), j - 1 \in T PROVE j \in T
    <3>1. j \in 1..n /\ j + 1 \in 1..n /\ (j + 1) - 1 = j /\ (j - 1) + 1 = j /\ j \in 0..(n - 1)
          /\ j \in 0..n /\ j + 1 \in 0..n
      BY <1>3
    <3>2. PICK y, z : y = c[j] /\ z = c[j + 1]
      OBVIOUS
    <3>3. y < z /\ x <= y /\ y \in 0..l /\ z \in 0..l
      BY <2>2, <3>1, <3>2, <1>4
    <3>4. x <= z
      BY <3>3, <1>8
    <3> QED BY <3>1, <3>2, <3>4
  <2>3. n - 1 \in Nat /\ i - 1 \in 0..(n - 1) /\ (i - 1) + 1 = i
    BY <1>3, <1>5
  <2>4. PICK q \in Nat : q = n - 1
    BY <2>3
  <2>5. 0..q \subseteq T
    <3>1. \A j \in 1..q : j - 1 \in T => j \in T
      BY <2>2, <2>4
    <3> HIDE DEF T
    <3> QED BY <2>1, <3>1, InductionUpTo
  <2> QED BY <2>3, <2>4, <2>5
<1>14. d \in [0..(n - 1) -> 0..(l - x)]
  <2>1. ASSUME NEW i \in 0..(n - 1) PROVE c[i + 1] - x \in 0..(l - x)
    <3>1. i + 1 \in 1..n /\ i + 1 \in 0..n
      BY <1>3
    <3>2. PICK y : y = c[i + 1]
      OBVIOUS
    <3>3. x <= y /\ y \in 0..l
      BY <3>1, <3>2, <1>4, <1>13a
    <3> QED BY <3>2, <3>3, <1>3, <1>8
  <2> QED BY <2>1, <1>13
<1>15. d[0] = 0 /\ d[n - 1] = l - x
  <2>1. 0 \in 0..(n - 1) /\ n - 1 \in 0..(n - 1) /\ 0 + 1 = 1 /\ (n - 1) + 1 = n
    BY <1>3, <1>5
  <2>2. d[0] = c[1] - x /\ d[n - 1] = c[n] - x
    BY <2>1, <1>13
  <2> QED BY <2>2, <1>4, <1>7, <1>8
<1>16. ASSUME NEW i \in 1..(n - 1) PROVE d[i - 1] < d[i] /\ ds[i] = SubSeq(r, d[i - 1] + 1, d[i])
  <2>1. /\ i \in 0..(n - 1) /\ i - 1 \in 0..(n - 1) /\ i + 1 \in 1..n /\ (i + 1) - 1 = i /\ (i - 1) + 1 = i
        /\ i \in 1..n /\ i \in 0..n /\ i + 1 \in 0..n
    BY <1>3
  <2>2. PICK y, z : y = c[i] /\ z = c[i + 1]
    OBVIOUS
  <2>3. y < z /\ x <= y /\ y \in 0..l /\ z \in 0..l /\ cs[i + 1] = SubSeq(s, y + 1, z)
    BY <2>1, <2>2, <1>4, <1>13a
  <2>4. d[i] = z - x /\ d[i - 1] = y - x
    BY <2>1, <2>2, <1>13
  <2>5. PICK a, p, q : a = x + 1 /\ p = (y - x) + 1 /\ q = z - x
    OBVIOUS
  <2>6. /\ a \in 1..Len(s) /\ l \in 1..Len(s) /\ p \in 1..(l - a + 1) /\ q \in 1..(l - a + 1)
        /\ a + p - 1 = y + 1 /\ a + q - 1 = z
    BY <2>3, <2>5, <1>2, <1>3, <1>8
  <2>7. SubSeq(SubSeq(s, a, l), p, q) = SubSeq(s, a + p - 1, a + q - 1)
    BY <2>6, <1>3, SubSeqOfSubSeq
  <2>8. ds[i] = SubSeq(r, p, q)
    BY <2>3, <2>5, <2>6, <2>7, <1>10, <1>12
  <2> QED BY <2>3, <2>4, <2>5, <2>8, <1>8
<1>17. CutAt(d, r, ds)
  BY <1>11, <1>12, <1>14, <1>15, <1>16 DEF CutAt
<1>18. IsCut(r, ds)
  BY <1>17 DEF IsCut
<1>19. s # <<>>
  BY <1>2, <1>8, EmptySeq
<1> QED BY <1>2, <1>6, <1>8, <1>9, <1>10, <1>11, <1>18, <1>19 DEF Bytes

(* A code is a whole message.                                              *)
IsMessage(b) ==
    b \in Bytes /\ b # <<>> /\ b[1] \in DOMAIN kMsgSize /\ Len(b) = kMsgSize[b[1]] + 1

LEMMA SizesTyped == \A tag \in DOMAIN kMsgSize : kMsgSize[tag] \in Nat
BY SizesAgree DEF kMsgSize, NEW_ORDER, CANCEL, SUBSCRIBE_FILLS, FILL, ACK

(* The recursion of Frames: what it says of a position depends on later    *)
(* positions only, so that it can be computed from the end.                *)
FramesFrom(f, s) ==
    f = [i \in 1..Len(s) + 1 |->
            IF i > Len(s) \/ s[i] \notin DOMAIN kMsgSize THEN <<>>
            ELSE IF i + kMsgSize[s[i]] > Len(s) THEN <<>>
            ELSE << SubSeq(s, i, i + kMsgSize[s[i]]) >> \o f[i + kMsgSize[s[i]] + 1]]

LEMMA FramesUnfold ==
    ASSUME NEW s \in Bytes
    PROVE  \E f : FramesFrom(f, s) /\ Frames(s) = f[1]
<1> DEFINE n == Len(s)
           D == DOMAIN kMsgSize
           z(i) == kMsgSize[s[i]]
           S == Seq(Bytes)
           V == [1..(n + 1) -> S]
           St(i, x) == IF i > n \/ s[i] \notin D THEN <<>>
                       ELSE IF i + z(i) > n THEN <<>>
                       ELSE << SubSeq(s, i, i + z(i)) >> \o x[i + z(i) + 1]
<1>1. n \in Nat /\ s \in Seq(Byte)
  BY DEF Bytes
<1>2. ASSUME NEW i \in 1..(n + 1), NEW x \in V PROVE St(i, x) \in S
  <2>1. CASE i > n \/ s[i] \notin D \/ i + z(i) > n
    BY <2>1, EmptySeq
  <2>2. CASE ~(i > n \/ s[i] \notin D \/ i + z(i) > n)
    <3>1. z(i) \in Nat
      BY <2>2, SizesTyped
    <3>2. PICK e : e = i + z(i)
      OBVIOUS
    <3>3. e \in i..n /\ e + 1 \in 1..(n + 1)
      BY <3>1, <3>2, <2>2, <1>1
    <3>4. SubSeq(s, i, e) \in Bytes
      <4>1. \A j \in i..e : s[j] \in Byte
        BY <3>3, <1>1, ElementOfSeq
      <4> QED BY <4>1, <3>3, <1>1, SubSeqProperties DEF Bytes
    <3>5. x[e + 1] \in S
      BY <3>3
    <3>6. << SubSeq(s, i, e) >> \o x[e + 1] \in S
      BY <3>4, <3>5, ConcatProperties
    <3>7. St(i, x) = << SubSeq(s, i, e) >> \o x[e + 1]
      BY <3>2, <2>2, Zenon
    <3> QED BY <3>6, <3>7, Zenon
  <2> QED BY <2>1, <2>2
<1>3. ASSUME NEW i \in 1..(n + 1), NEW x \in V, NEW y \in V,
             \A j \in (i + 1)..(n + 1) : x[j] = y[j]
      PROVE  St(i, x) = St(i, y)
  <2>1. CASE i > n \/ s[i] \notin D \/ i + z(i) > n
    BY <2>1, Zenon
  <2>2. CASE ~(i > n \/ s[i] \notin D \/ i + z(i) > n)
    <3>1. z(i) \in Nat
      BY <2>2, SizesTyped
    <3>2. i + z(i) + 1 \in (i + 1)..(n + 1)
      BY <3>1, <2>2, <1>1
    <3>3. x[i + z(i) + 1] = y[i + z(i) + 1]
      BY <3>2, <1>3
    <3> QED BY <3>3, <2>2, Zenon
  <2> QED BY <2>1, <2>2, Zenon
<1> HIDE DEF St
<1>5. PICK w \in Nat : w = n + 1
  BY <1>1
<1>6. PICK g : g = [x \in V \X (1..w) |->
                      [i \in 1..(n + 1) |-> IF i = w + 1 - x[2] THEN St(i, x[1]) ELSE x[1][i]]]
  OBVIOUS
<1>7. g \in [V \X (1..w) -> V]
  <2>1. ASSUME NEW x \in V \X (1..w)
        PROVE  [i \in 1..(n + 1) |-> IF i = w + 1 - x[2] THEN St(i, x[1]) ELSE x[1][i]] \in V
    <3>1. x[1] \in V
      BY <2>1
    <3>2. \A i \in 1..(n + 1) : St(i, x[1]) \in S /\ x[1][i] \in S
      BY <3>1, <1>2
    <3> HIDE DEF S
    <3> QED BY <3>2
  <2> QED BY <2>1, <1>6
<1>8. PICK a : a = [i \in 1..(n + 1) |-> <<>>]
  OBVIOUS
<1>9. a \in V
  BY <1>8, EmptySeq
<1>10. PICK h : Iterates(h, V, a, g, w)
  <2> HIDE DEF V
  <2> QED BY <1>7, <1>9, IterationExists
<1>11. /\ h \in [0..w -> V]
       /\ \A k \in 1..w : h[k] = g[<<h[k - 1], k>>]
  BY <1>10 DEF Iterates
<1> DEFINE Done(k) == \A i \in (w + 1 - k)..w : h[k][i] = St(i, h[k])
           T == {k \in 0..w : Done(k)}
<1>12. 0 \in T
  <2>1. (w + 1 - 0)..w = {}
    OBVIOUS
  <2> QED BY <2>1
<1>13. ASSUME NEW k \in 1..w, k - 1 \in T PROVE k \in T
  <2>1. k - 1 \in 0..w /\ k \in 0..w
    OBVIOUS
  <2>2. PICK x, y : x = h[k - 1] /\ y = h[k]
    OBVIOUS
  <2>3. x \in V /\ y \in V /\ y = g[<<x, k>>]
    BY <2>1, <2>2, <1>11
  <2>4. y = [i \in 1..(n + 1) |-> IF i = w + 1 - k THEN St(i, x) ELSE x[i]]
    <3>1. <<x, k>> \in V \X (1..w)
      BY <2>3
    <3>2. PICK q : q = <<x, k>>
      OBVIOUS
    <3>3. q \in V \X (1..w) /\ q[1] = x /\ q[2] = k /\ y = g[q]
      BY <2>3, <3>1, <3>2
    <3>4. g[q] = [i \in 1..(n + 1) |-> IF i = w + 1 - q[2] THEN St(i, q[1]) ELSE q[1][i]]
      BY <3>3, <1>6, Zenon
    <3> QED BY <3>3, <3>4, Zenon
  <2>5. \A i \in (w + 1 - (k - 1))..w : x[i] = St(i, x)
    BY <1>13, <2>2
  <2>6. ASSUME NEW i \in (w + 1 - k)..w PROVE y[i] = St(i, y)
    <3>1. i \in 1..(n + 1)
      BY <1>1, <1>5
    <3>2. \A j \in (i + 1)..(n + 1) : y[j] = x[j]
      <4>1. ASSUME NEW j \in (i + 1)..(n + 1) PROVE y[j] = x[j]
        <5>1. j \in 1..(n + 1) /\ j # w + 1 - k
          BY <3>1, <1>1, <1>5
        <5> QED BY <5>1, <2>4
      <4> QED BY <4>1
    <3>3. St(i, x) = St(i, y)
      BY <3>1, <3>2, <2>3, <1>3
    <3>4. y[i] = St(i, x)
      <4>1. CASE i = w + 1 - k
        BY <4>1, <3>1, <2>4
      <4>2. CASE i # w + 1 - k
        <5>1. i \in (w + 1 - (k - 1))..w
          BY <4>2
        <5> QED BY <5>1, <4>2, <3>1, <2>4, <2>5
      <4> QED BY <4>1, <4>2
    <3> QED BY <3>3, <3>4
  <2> QED BY <2>1, <2>2, <2>6
<1>14. 0..w \subseteq T
  <2> HIDE DEF T
  <2> QED BY <1>12, <1>13, InductionUpTo
<1>15. PICK f : f = h[w]
  OBVIOUS
<1>16. f \in V /\ \A i \in 1..(n + 1) : f[i] = St(i, f)
  <2>1. w \in T /\ w + 1 - w = 1
    BY <1>14
  <2>2. \A i \in 1..w : f[i] = St(i, f)
    BY <2>1, <1>15
  <2>3. f \in V
    BY <1>11, <1>15
  <2> QED BY <2>2, <2>3, <1>5
<1>17. f = [i \in 1..n + 1 |-> St(i, f)]
  BY <1>16
<1>18. FramesFrom(f, s)
  BY <1>17, Zenon DEF FramesFrom, St
<1>19. PICK c : c = CHOOSE x : FramesFrom(x, s)
  OBVIOUS
<1>20. FramesFrom(c, s)
  BY <1>18, <1>19, Zenon
<1>21. Frames(s) = c[1]
  BY <1>19, Zenon DEF Frames, FramesFrom
<1> QED BY <1>20, <1>21, Zenon

(* The messages of a stream of whole messages are the codes it is made of. *)
LEMMA CutFrames ==
    ASSUME NEW s \in Bytes, NEW cs \in Seq(Bytes), IsCut(s, cs),
           \A i \in 1..Len(cs) : IsMessage(cs[i])
    PROVE  Frames(s) = cs
<1>1. PICK c : CutAt(c, s, cs)
  BY DEF IsCut
<1>2. PICK n, l : n = Len(cs) /\ l = Len(s)
  OBVIOUS
<1>3. n \in Nat /\ l \in Nat /\ s \in Seq(Byte)
  BY <1>2 DEF Bytes
<1>4. /\ c \in [0..n -> 0..l] /\ c[0] = 0 /\ c[n] = l
      /\ \A i \in 1..n : c[i - 1] < c[i] /\ cs[i] = SubSeq(s, c[i - 1] + 1, c[i])
  BY <1>1, <1>2 DEF CutAt
<1>5. PICK f : FramesFrom(f, s) /\ Frames(s) = f[1]
  BY FramesUnfold
<1> DEFINE T == {k \in 0..n : f[c[n - k] + 1] = SubSeq(cs, n - k + 1, n)}
<1>6. 0 \in T
  <2>1. c[n - 0] + 1 = l + 1 /\ l + 1 \in 1..(l + 1) /\ l + 1 > l /\ n - 0 + 1 = n + 1
    BY <1>3, <1>4
  <2>2. f[l + 1] = <<>>
    BY <2>1, <1>2, <1>5, Zenon DEF FramesFrom
  <2>3. SubSeq(cs, n + 1, n) = <<>>
    BY <1>3, SubSeqEmpty
  <2>4. f[c[n - 0] + 1] = SubSeq(cs, n - 0 + 1, n)
    BY <2>1, <2>2, <2>3, Zenon
  <2> QED BY <2>4, <1>3
<1>7. ASSUME NEW k \in 1..n, k - 1 \in T PROVE k \in T
  <2>1. PICK i : i = n - k + 1
    OBVIOUS
  <2>2. /\ i \in 1..n /\ i \in 0..n /\ i - 1 \in 0..n /\ n - k = i - 1 /\ n - (k - 1) = i /\ k \in 0..n
    BY <2>1, <1>3
  <2>3. PICK x, y, b : x = c[i - 1] /\ y = c[i] /\ b = cs[i]
    OBVIOUS
  <2>4. x \in 0..l /\ y \in 0..l /\ x < y /\ b = SubSeq(s, x + 1, y)
    BY <2>2, <2>3, <1>4
  <2>5. b \in Bytes /\ b[1] \in DOMAIN kMsgSize /\ Len(b) = kMsgSize[b[1]] + 1
    BY <2>2, <2>3, <1>2 DEF IsMessage
  <2>6. PICK p : p = x + 1
    OBVIOUS
  <2>7. p \in 1..l /\ y \in p..l /\ p \in 1..(l + 1) /\ ~(p > l)
    BY <2>4, <2>6, <1>3
  <2>8. Len(b) = y - x /\ b[1] = s[p]
    <3>1. \A j \in p..y : s[j] \in Byte
      BY <2>7, <1>2, <1>3, ElementOfSeq
    <3>2. /\ Len(SubSeq(s, p, y)) = IF p <= y THEN y - p + 1 ELSE 0
          /\ \A j \in 1..(y - p + 1) : SubSeq(s, p, y)[j] = s[p + j - 1]
      BY <3>1, <2>7, SubSeqProperties
    <3>3. 1 \in 1..(y - p + 1) /\ p + 1 - 1 = p /\ y - p + 1 = y - x /\ p <= y
      BY <2>4, <2>6, <2>7, <1>3
    <3>4. SubSeq(s, p, y)[1] = s[p] /\ Len(SubSeq(s, p, y)) = y - x
      BY <3>2, <3>3
    <3> QED BY <3>4, <2>4, <2>6
  <2>9. PICK z \in Nat : z = kMsgSize[s[p]]
    BY <2>5, <2>8, SizesTyped
  <2>10. p + z = y
    <3>1. y - x = z + 1
      BY <2>5, <2>8, <2>9, Zenon
    <3> QED BY <3>1, <2>4, <2>6
  <2>11. ~(p > l \/ s[p] \notin DOMAIN kMsgSize) /\ ~(p + kMsgSize[s[p]] > l)
         /\ p + kMsgSize[s[p]] = y
    BY <2>5, <2>7, <2>8, <2>9, <2>10, <1>3
  <2>12. f[p] = << SubSeq(s, p, p + kMsgSize[s[p]]) >> \o f[p + kMsgSize[s[p]] + 1]
    BY <2>7, <2>11, <1>2, <1>5, Zenon DEF FramesFrom
  <2>13. f[p] = << b >> \o f[y + 1]
    BY <2>4, <2>6, <2>11, <2>12, Zenon
  <2>14. f[y + 1] = SubSeq(cs, i + 1, n)
    <3>1. f[c[n - (k - 1)] + 1] = SubSeq(cs, n - (k - 1) + 1, n)
      BY <1>7
    <3> QED BY <3>1, <2>2, <2>3, Zenon
  <2>15. SubSeq(cs, i, n) = << cs[i] >> \o SubSeq(cs, i + 1, n)
    <3>1. i \in 1..Len(cs) /\ n \in i..Len(cs)
      BY <2>2, <1>2, <1>3
    <3> QED BY <3>1, SubSeqRecursiveFirst
  <2>16. f[p] = SubSeq(cs, i, n)
    BY <2>3, <2>13, <2>14, <2>15, Zenon
  <2>17. f[c[n - k] + 1] = SubSeq(cs, n - k + 1, n)
    BY <2>1, <2>2, <2>3, <2>6, <2>16, Zenon
  <2> QED BY <2>2, <2>17
<1>8. 0..n \subseteq T
  <2> HIDE DEF T
  <2> QED BY <1>3, <1>6, <1>7, InductionUpTo
<1>9. n \in T /\ n - n = 0 /\ 0 + 1 = 1
  BY <1>3, <1>8
<1>10. f[c[n - n] + 1] = SubSeq(cs, n - n + 1, n)
  BY <1>9
<1>11. f[1] = SubSeq(cs, 1, n)
  BY <1>4, <1>9, <1>10, Zenon
<1>12. SubSeq(cs, 1, n) = cs
  BY <1>2, SubSeqFull
<1> QED BY <1>5, <1>11, <1>12, Zenon

(* Codes written one after the other make a stream of these codes.         *)
LEMMA FlattenCut ==
    ASSUME NEW cs \in Seq(Bytes), \A i \in 1..Len(cs) : cs[i] # <<>>
    PROVE  FlattenSeq(cs) \in Bytes /\ IsCut(FlattenSeq(cs), cs)
<1> DEFINE Eq(f) == f = [i \in 1..Len(cs) |-> IF i = 1 THEN cs[i] ELSE f[i - 1] \o cs[i]]
<1>1. PICK n \in Nat : n = Len(cs)
  OBVIOUS
<1>2. CASE n = 0
  <2>1. cs = <<>> /\ FlattenSeq(cs) = <<>>
    BY <1>1, <1>2, EmptySeq, Zenon DEF FlattenSeq
  <2> QED BY <2>1, CutNone, EmptySeq DEF Bytes
<1>3. CASE n # 0
  <2>0. \A i \in 1..n : cs[i] \in Bytes /\ cs[i] # <<>>
    BY <1>1, ElementOfSeq
  <2>1. PICK g : g = [x \in Bytes \X (1..n) |-> x[1] \o cs[x[2]]]
    OBVIOUS
  <2>2. g \in [Bytes \X (1..n) -> Bytes]
    <3>1. ASSUME NEW x \in Bytes \X (1..n) PROVE x[1] \o cs[x[2]] \in Bytes
      <4>1. PICK a, b : a = x[1] /\ b = cs[x[2]]
        OBVIOUS
      <4>2. a \in Bytes /\ b \in Bytes
        BY <4>1, <2>0
      <4>3. a \o b \in Bytes
        BY <4>2, ConcatProperties DEF Bytes
      <4> QED BY <4>1, <4>3, Zenon
    <3> QED BY <3>1, <2>1
  <2>3. PICK e : e = <<>>
    OBVIOUS
  <2>4. e \in Bytes
    BY <2>3, EmptySeq DEF Bytes
  <2>5. PICK h : Iterates(h, Bytes, e, g, n)
    BY <2>2, <2>4, IterationExists
  <2>6. /\ h \in [0..n -> Bytes] /\ h[0] = e
        /\ \A i \in 1..n : h[i] = g[<<h[i - 1], i>>]
    BY <2>5 DEF Iterates
  <2>7. ASSUME NEW i \in 1..n PROVE h[i] = h[i - 1] \o cs[i]
    <3>1. i - 1 \in 0..n
      OBVIOUS
    <3>2. PICK q : q = <<h[i - 1], i>>
      OBVIOUS
    <3>3. q \in Bytes \X (1..n) /\ q[1] = h[i - 1] /\ q[2] = i /\ h[i] = g[q]
      BY <3>1, <3>2, <2>6
    <3>4. g[q] = q[1] \o cs[q[2]]
      BY <3>3, <2>1, Zenon
    <3> QED BY <3>3, <3>4, Zenon
  <2>8. 1 \in 1..n /\ 1 - 1 = 0
    BY <1>3
  <2>9. h[1] = cs[1]
    <3>1. h[1] = h[1 - 1] \o cs[1]
      BY <2>7, <2>8, Zenon
    <3>2. PICK b : b = cs[1]
      OBVIOUS
    <3>3. b \in Seq(Byte)
      BY <3>2, <2>0, <2>8 DEF Bytes
    <3>4. <<>> \o b = b
      BY <3>3, ConcatEmptySeq
    <3> QED BY <3>1, <3>2, <3>4, <2>3, <2>6, <2>8, Zenon
  <2>10. Eq([i \in 1..n |-> h[i]])
    <3>1. PICK f : f = [i \in 1..n |-> h[i]]
      OBVIOUS
    <3>2. ASSUME NEW i \in 1..n PROVE f[i] = IF i = 1 THEN cs[i] ELSE f[i - 1] \o cs[i]
      <4>1. CASE i = 1
        BY <4>1, <3>1, <2>8, <2>9, Zenon
      <4>2. CASE i # 1
        <5>1. i - 1 \in 1..n
          BY <4>2
        <5>2. f[i] = h[i] /\ f[i - 1] = h[i - 1]
          BY <5>1, <3>1, Zenon
        <5> QED BY <4>2, <5>2, <2>7, Zenon
      <4> QED BY <4>1, <4>2
    <3>3. f = [i \in 1..n |-> f[i]]
      BY <3>1
    <3>4. f = [i \in 1..n |-> IF i = 1 THEN cs[i] ELSE f[i - 1] \o cs[i]]
      BY <3>2, <3>3, Zenon
    <3> QED BY <3>1, <3>4, <1>1, Zenon
  <2>11. PICK c : c = CHOOSE f : Eq(f)
    OBVIOUS
  <2>12. Eq(c)
    <3> HIDE DEF Eq
    <3> QED BY <2>10, <2>11, Zenon
  <2>13. FlattenSeq(cs) = c[n]
    BY <2>11, <1>1, <1>3, Zenon DEF FlattenSeq
  <2>14. ASSUME NEW i \in 1..n PROVE c[i] = IF i = 1 THEN cs[i] ELSE c[i - 1] \o cs[i]
    BY <2>12, <1>1, Zenon
  <2> DEFINE T == {k \in 0..(n - 1) : c[k + 1] \in Bytes /\ IsCut(c[k + 1], SubSeq(cs, 1, k + 1))}
  <2>15. 0 \in T
    <3>1. PICK b : b = cs[1]
      OBVIOUS
    <3>2. b \in Bytes /\ b # <<>>
      BY <3>1, <2>0, <2>8
    <3>3. IsCut(b, <<b>>)
      BY <3>2, CutOne
    <3>4. SubSeq(cs, 1, 1) = <<b>>
      <4>1. PICK u : u = SubSeq(cs, 1, 1)
        OBVIOUS
      <4>2. u \in Seq(Bytes) /\ Len(u) = 1 /\ u[1] = b
        <5>1. \A i \in 1..1 : cs[i] \in Bytes
          BY <2>0, <2>8
        <5>2. u \in Seq(Bytes) /\ Len(u) = 1
          BY <4>1, <5>1, SubSeqProperties
        <5>3. u[1] = cs[1]
          BY <4>1, <1>1, <2>8, SubSeqOfOne
        <5> QED BY <5>2, <5>3, <3>1
      <4>3. u = <<b>>
        BY <4>2
      <4> QED BY <4>1, <4>3
    <3>5. c[1] = b /\ 0 + 1 = 1 /\ 0 \in 0..(n - 1)
      BY <3>1, <2>8, <2>14, <1>3
    <3>6. c[0 + 1] \in Bytes /\ IsCut(c[0 + 1], SubSeq(cs, 1, 0 + 1))
      BY <3>2, <3>3, <3>4, <3>5, Zenon
    <3> QED BY <3>5, <3>6
  <2>16. ASSUME NEW k \in 1..(n - 1), k - 1 \in T PROVE k \in T
    <3>1. /\ k + 1 \in 1..n /\ k + 1 # 1 /\ (k + 1) - 1 = k /\ (k - 1) + 1 = k /\ k \in 0..(n - 1)
          /\ k + 1 \in 1..Len(cs) /\ 1 \in 1..Len(cs)
      BY <1>1
    <3>2. PICK a, b, u : a = c[k] /\ b = cs[k + 1] /\ u = SubSeq(cs, 1, k)
      OBVIOUS
    <3>3. a \in Bytes /\ IsCut(a, u)
      BY <2>16, <3>1, <3>2
    <3>4. b \in Bytes /\ b # <<>> /\ IsCut(b, <<b>>)
      BY <3>1, <3>2, <2>0, CutOne
    <3>5. u \in Seq(Bytes) /\ <<b>> \in Seq(Bytes)
      <4>1. \A i \in 1..k : cs[i] \in Bytes
        BY <2>0
      <4> QED BY <4>1, <3>2, <3>4, SubSeqProperties
    <3>6. IsCut(a \o b, u \o <<b>>)
      BY <3>3, <3>4, <3>5, CutJoins
    <3>7. a \o b \in Bytes
      BY <3>3, <3>4, ConcatProperties DEF Bytes
    <3>8. c[k + 1] = a \o b
      BY <3>1, <3>2, <2>14, Zenon
    <3>9. SubSeq(cs, 1, k + 1) = u \o <<b>>
      <4>1. PICK m : m = k + 1
        OBVIOUS
      <4>2. m \in 1..Len(cs) /\ m - 1 = k
        BY <4>1, <3>1
      <4>3. SubSeq(cs, 1, m) = SubSeq(cs, 1, m - 1) \o << cs[m] >>
        BY <4>2, <3>1, SubSeqRecursiveSecond
      <4> QED BY <4>1, <4>2, <4>3, <3>2, Zenon
    <3>10. c[k + 1] \in Bytes /\ IsCut(c[k + 1], SubSeq(cs, 1, k + 1))
      BY <3>6, <3>7, <3>8, <3>9, Zenon
    <3> QED BY <3>1, <3>10
  <2>17. PICK m \in Nat : m = n - 1
    BY <1>3
  <2>18. 0..m \subseteq T
    <3>1. \A k \in 1..m : k - 1 \in T => k \in T
      BY <2>16, <2>17
    <3> HIDE DEF T
    <3> QED BY <2>15, <3>1, InductionUpTo
  <2>19. m \in T /\ m + 1 = n
    BY <2>17, <2>18
  <2>20. c[n] \in Bytes /\ IsCut(c[n], SubSeq(cs, 1, n))
    <3>1. c[m + 1] \in Bytes /\ IsCut(c[m + 1], SubSeq(cs, 1, m + 1))
      BY <2>19
    <3> QED BY <3>1, <2>19, Zenon
  <2>21. SubSeq(cs, 1, n) = cs
    BY <1>1, SubSeqFull
  <2> QED BY <2>13, <2>20, <2>21, Zenon
<1> QED BY <1>2, <1>3

(* Streams of messages: E gives the code of each message of a set M.       *)
Codes(E, ms) == [i \in 1..Len(ms) |-> E[ms[i]]]

IsCoding(E, M) == E \in [M -> Bytes] /\ \A m \in M : IsMessage(E[m])

Carries(s, E, M, ms) == s \in Bytes /\ ms \in Seq(M) /\ IsCut(s, Codes(E, ms))

AreCodes(cs, E, ms) ==
    /\ cs \in Seq(Bytes) /\ Len(cs) = Len(ms)
    /\ \A i \in 1..Len(ms) : cs[i] = E[ms[i]] /\ IsMessage(cs[i])

LEMMA CodesTyped ==
    ASSUME NEW M, NEW E, IsCoding(E, M), NEW ms \in Seq(M)
    PROVE  AreCodes(Codes(E, ms), E, ms)
<1>1. \A i \in 1..Len(ms) : ms[i] \in M
  BY ElementOfSeq
<1>2. \A i \in 1..Len(ms) : E[ms[i]] \in Bytes /\ IsMessage(E[ms[i]])
  BY <1>1 DEF IsCoding
<1>3. Len(ms) \in Nat
  OBVIOUS
<1>4. Codes(E, ms) \in Seq(Bytes) /\ Len(Codes(E, ms)) = Len(ms)
  BY <1>2, <1>3, FunctionIsSeq DEF Codes
<1> QED BY <1>2, <1>4 DEF Codes, AreCodes

LEMMA CodesConcat ==
    ASSUME NEW M, NEW E, IsCoding(E, M), NEW ms \in Seq(M), NEW ns \in Seq(M)
    PROVE  Codes(E, ms \o ns) = Codes(E, ms) \o Codes(E, ns)
<1>1. PICK r, a, b, c : /\ r = ms \o ns /\ a = Codes(E, ms) /\ b = Codes(E, ns)
                        /\ c = Codes(E, r)
  OBVIOUS
<1>2. /\ r \in Seq(M) /\ Len(r) = Len(ms) + Len(ns)
      /\ \A i \in 1..(Len(ms) + Len(ns)) : r[i] = IF i <= Len(ms) THEN ms[i] ELSE ns[i - Len(ms)]
  BY <1>1, ConcatProperties
<1>3. /\ a \in Seq(Bytes) /\ Len(a) = Len(ms) /\ \A i \in 1..Len(ms) : a[i] = E[ms[i]]
      /\ b \in Seq(Bytes) /\ Len(b) = Len(ns) /\ \A i \in 1..Len(ns) : b[i] = E[ns[i]]
      /\ c \in Seq(Bytes) /\ Len(c) = Len(r) /\ \A i \in 1..Len(r) : c[i] = E[r[i]]
  <2>1. AreCodes(a, E, ms) /\ AreCodes(b, E, ns) /\ AreCodes(c, E, r)
    BY <1>1, <1>2, CodesTyped, Zenon
  <2> QED BY <2>1 DEF AreCodes
<1>4. /\ a \o b \in Seq(Bytes) /\ Len(a \o b) = Len(a) + Len(b)
      /\ \A i \in 1..(Len(a) + Len(b)) : (a \o b)[i] = IF i <= Len(a) THEN a[i] ELSE b[i - Len(a)]
  <2>1. a \in Seq(Bytes) /\ b \in Seq(Bytes)
    BY <1>3
  <2> QED BY <2>1, ConcatProperties
<1>5. ASSUME NEW i \in 1..Len(c) PROVE c[i] = (a \o b)[i]
  <2>1. CASE i <= Len(ms)
    <3>1. i \in 1..Len(ms) /\ i \in 1..(Len(ms) + Len(ns))
      BY <2>1, <1>2, <1>3
    <3>2. r[i] = ms[i] /\ (a \o b)[i] = a[i]
      BY <2>1, <3>1, <1>2, <1>3, <1>4
    <3> QED BY <3>1, <3>2, <1>2, <1>3
  <2>2. CASE i > Len(ms)
    <3>1. PICK j : j = i - Len(ms)
      OBVIOUS
    <3>2. j \in 1..Len(ns) /\ ~(i <= Len(ms)) /\ i \in 1..(Len(ms) + Len(ns))
      BY <3>1, <2>2, <1>2, <1>3
    <3>3. r[i] = ns[j]
      BY <3>1, <3>2, <1>2
    <3>4. (a \o b)[i] = b[j]
      BY <3>1, <3>2, <1>3, <1>4
    <3> QED BY <3>2, <3>3, <3>4, <1>2, <1>3
  <2> QED BY <2>1, <2>2, <1>2, <1>3
<1>6. c = a \o b
  BY <1>2, <1>3, <1>4, <1>5, SeqEqual
<1> QED BY <1>1, <1>6

LEMMA CarriesNone ==
    ASSUME NEW M, NEW E
    PROVE  Carries(<<>>, E, M, <<>>)
<1>1. Codes(E, <<>>) = <<>>
  BY DEF Codes
<1> QED BY <1>1, CutNone, EmptySeq DEF Carries, Bytes

LEMMA CarriesOne ==
    ASSUME NEW M, NEW E, IsCoding(E, M), NEW m \in M
    PROVE  Carries(E[m], E, M, <<m>>)
<1>1. E[m] \in Bytes /\ E[m] # <<>>
  BY DEF IsCoding, IsMessage
<1>2. PICK ms : ms = <<m>>
  OBVIOUS
<1>3. ms \in Seq(M) /\ Len(ms) = 1 /\ ms[1] = m
  BY <1>2
<1>4. PICK a, b : a = Codes(E, ms) /\ b = E[m]
  OBVIOUS
<1>5. a \in Seq(Bytes) /\ Len(a) = 1 /\ a[1] = b
  <2>1. AreCodes(a, E, ms)
    BY <1>3, <1>4, CodesTyped, Zenon
  <2> QED BY <2>1, <1>3, <1>4 DEF AreCodes
<1>6. a = <<b>>
  BY <1>5
<1>7. IsCut(b, <<b>>)
  BY <1>1, <1>4, CutOne
<1> QED BY <1>1, <1>2, <1>3, <1>4, <1>6, <1>7, Zenon DEF Carries

LEMMA CarriesBoth ==
    ASSUME NEW M, NEW E, IsCoding(E, M), NEW s, NEW t, NEW ms, NEW ns,
           Carries(s, E, M, ms), Carries(t, E, M, ns)
    PROVE  Carries(s \o t, E, M, ms \o ns)
<1>1. /\ s \in Bytes /\ ms \in Seq(M) /\ IsCut(s, Codes(E, ms))
      /\ t \in Bytes /\ ns \in Seq(M) /\ IsCut(t, Codes(E, ns))
  BY DEF Carries
<1>2. Codes(E, ms) \in Seq(Bytes) /\ Codes(E, ns) \in Seq(Bytes)
  BY <1>1, CodesTyped, Zenon DEF AreCodes
<1>3. IsCut(s \o t, Codes(E, ms) \o Codes(E, ns))
  BY <1>1, <1>2, CutJoins, Zenon
<1>4. Codes(E, ms \o ns) = Codes(E, ms) \o Codes(E, ns)
  <2>1. ms \in Seq(M) /\ ns \in Seq(M)
    BY <1>1
  <2> QED BY <2>1, CodesConcat
<1>5. s \o t \in Bytes
  BY <1>1, ConcatProperties DEF Bytes
<1>6. ms \o ns \in Seq(M)
  BY <1>1, ConcatProperties
<1> QED BY <1>3, <1>4, <1>5, <1>6, Zenon DEF Carries

LEMMA CarriesAll ==
    ASSUME NEW M, NEW E, IsCoding(E, M), NEW ms \in Seq(M)
    PROVE  Carries(FlattenSeq(Codes(E, ms)), E, M, ms)
<1>1. PICK cs : cs = Codes(E, ms)
  OBVIOUS
<1>2. cs \in Seq(Bytes) /\ \A i \in 1..Len(cs) : cs[i] # <<>>
  <2>1. AreCodes(cs, E, ms)
    BY <1>1, CodesTyped, Zenon
  <2> QED BY <2>1 DEF AreCodes, IsMessage
<1>3. FlattenSeq(cs) \in Bytes /\ IsCut(FlattenSeq(cs), cs)
  BY <1>2, FlattenCut
<1> QED BY <1>1, <1>3, Zenon DEF Carries

LEMMA CarriesFrames ==
    ASSUME NEW M, NEW E, IsCoding(E, M), NEW s, NEW ms, Carries(s, E, M, ms)
    PROVE  Frames(s) = Codes(E, ms)
<1>1. s \in Bytes /\ ms \in Seq(M) /\ IsCut(s, Codes(E, ms))
  BY DEF Carries
<1>2. PICK cs : cs = Codes(E, ms)
  OBVIOUS
<1>3. cs \in Seq(Bytes) /\ \A i \in 1..Len(cs) : IsMessage(cs[i])
  <2>1. AreCodes(cs, E, ms)
    BY <1>1, <1>2, CodesTyped, Zenon
  <2> QED BY <2>1 DEF AreCodes
<1> QED BY <1>1, <1>2, <1>3, CutFrames

(* The first message of a stream: m, of the code b, and the rest.          *)
LEMMA CarriesFirst ==
    ASSUME NEW M, NEW E, IsCoding(E, M), NEW s, NEW ms, Carries(s, E, M, ms),
           s # <<>> \/ ms # <<>>
    PROVE  /\ ms # <<>> /\ s # <<>>
           /\ \E b : /\ b = E[Head(ms)] /\ Head(ms) \in M /\ IsMessage(b)
                     /\ Head(s) = b[1] /\ Len(b) = kMsgSize[b[1]] + 1 /\ Len(b) \in 1..Len(s)
                     /\ SubSeq(s, 2, Len(b)) = Tail(b)
                     /\ Carries(SubSeq(s, Len(b) + 1, Len(s)), E, M, Tail(ms))
<1>1. s \in Bytes /\ ms \in Seq(M) /\ IsCut(s, Codes(E, ms))
  BY DEF Carries
<1>2. PICK cs : cs = Codes(E, ms)
  OBVIOUS
<1>3. /\ cs \in Seq(Bytes) /\ Len(cs) = Len(ms) /\ Len(ms) \in Nat
      /\ \A i \in 1..Len(ms) : cs[i] = E[ms[i]] /\ IsMessage(cs[i])
  <2>1. AreCodes(cs, E, ms)
    BY <1>1, <1>2, CodesTyped, Zenon
  <2> QED BY <2>1, <1>1 DEF AreCodes
<1>4. ms # <<>> <=> cs # <<>>
  BY <1>1, <1>3, EmptySeq
<1>5. PICK k : k = Len(Head(cs))
  OBVIOUS
<1>6. /\ cs # <<>> /\ s # <<>> /\ k \in 1..Len(s)
      /\ SubSeq(s, 1, k) = Head(cs)
      /\ SubSeq(s, k + 1, Len(s)) \in Bytes
      /\ IsCut(SubSeq(s, k + 1, Len(s)), Tail(cs))
  BY <1>1, <1>2, <1>3, <1>4, <1>5, CutHead, Zenon
<1>7. ms # <<>> /\ 1 \in 1..Len(ms)
  BY <1>1, <1>3, <1>4, <1>6, EmptySeq
<1>8. PICK b : b = cs[1]
  OBVIOUS
<1>9. b = E[Head(ms)] /\ Head(ms) \in M /\ IsMessage(b) /\ Head(cs) = b
  BY <1>1, <1>3, <1>6, <1>7, <1>8
<1>10. b \in Seq(Byte) /\ Len(b) = k /\ Len(b) = kMsgSize[b[1]] + 1 /\ b # <<>>
       /\ s \in Seq(Byte) /\ Len(s) \in Nat
  BY <1>1, <1>5, <1>9 DEF IsMessage, Bytes
<1>11. Head(s) = b[1] /\ SubSeq(s, 2, k) = Tail(b)
  <2>1. 1 \in 1..Len(s) /\ k \in 1..Len(s) /\ 1 + 1 = 2
    BY <1>6, <1>10
  <2>2. Head(SubSeq(s, 1, k)) = s[1] /\ Tail(SubSeq(s, 1, k)) = SubSeq(s, 1 + 1, k)
    BY <2>1, <1>10, HeadTailOfSubSeq
  <2>3. SubSeq(s, 1, k) = b
    BY <1>6, <1>9
  <2>4. Head(b) = s[1] /\ Tail(b) = SubSeq(s, 2, k)
    BY <2>1, <2>2, <2>3, Zenon
  <2>5. Head(s) = s[1] /\ Head(b) = b[1]
    BY <1>6, <1>10
  <2> QED BY <2>4, <2>5
<1>12. Tail(cs) = Codes(E, Tail(ms)) /\ Tail(ms) \in Seq(M)
  <2>1. PICK r, u, v : r = Tail(ms) /\ u = Tail(cs) /\ v = Codes(E, r)
    OBVIOUS
  <2>2. r \in Seq(M) /\ Len(r) = Len(ms) - 1 /\ \A i \in 1..Len(r) : r[i] = ms[i + 1]
    BY <2>1, <1>1, <1>7, HeadTailProperties
  <2>3. u \in Seq(Bytes) /\ Len(u) = Len(cs) - 1 /\ \A i \in 1..Len(u) : u[i] = cs[i + 1]
    BY <2>1, <1>3, <1>6, HeadTailProperties
  <2>4. v \in Seq(Bytes) /\ Len(v) = Len(r) /\ \A i \in 1..Len(r) : v[i] = E[r[i]]
    <3>1. AreCodes(v, E, r)
      BY <2>1, <2>2, CodesTyped, Zenon
    <3> QED BY <3>1 DEF AreCodes
  <2>5. Len(u) = Len(v)
    BY <2>2, <2>3, <2>4, <1>3
  <2>6. ASSUME NEW i \in 1..Len(u) PROVE u[i] = v[i]
    <3>1. i + 1 \in 1..Len(ms) /\ i \in 1..Len(r)
      BY <2>2, <2>3, <2>4, <2>5, <1>3
    <3>2. u[i] = E[ms[i + 1]] /\ v[i] = E[ms[i + 1]]
      BY <3>1, <2>2, <2>3, <2>4, <1>3
    <3> QED BY <3>2
  <2>7. u = v
    BY <2>3, <2>4, <2>5, <2>6, SeqEqual
  <2> QED BY <2>1, <2>2, <2>7
<1>13. Carries(SubSeq(s, k + 1, Len(s)), E, M, Tail(ms))
  BY <1>6, <1>12, Zenon DEF Carries
<1> QED BY <1>6, <1>7, <1>9, <1>10, <1>11, <1>13, Zenon

(* A tag and a body of the size of the tag are a message.                  *)
LEMMA TagAndBody ==
    ASSUME NEW tag \in DOMAIN kMsgSize, NEW body \in Bytes, Len(body) = kMsgSize[tag],
           NEW b, b = <<tag>> \o body
    PROVE  IsMessage(b) /\ b[1] = tag /\ Head(b) = tag /\ Tail(b) = body
<1>1. tag \in Byte
  BY SizesAgree DEF Byte, NEW_ORDER, CANCEL, SUBSCRIBE_FILLS, FILL, ACK
<1>2. PICK t : t = <<tag>>
  OBVIOUS
<1>3. t \in Seq(Byte) /\ Len(t) = 1 /\ t[1] = tag /\ body \in Seq(Byte) /\ Len(body) \in Nat
  BY <1>1, <1>2 DEF Bytes
<1>4. /\ b \in Seq(Byte) /\ Len(b) = Len(t) + Len(body)
      /\ \A i \in 1..Len(t) : b[i] = t[i]
      /\ \A i \in 1..Len(body) : b[Len(t) + i] = body[i]
  BY <1>2, <1>3, ConcatFacts
<1>5. Len(b) = Len(body) + 1 /\ b[1] = tag /\ b # <<>>
  BY <1>3, <1>4
<1>6. IsMessage(b) /\ Head(b) = tag
  BY <1>4, <1>5 DEF IsMessage, Bytes
<1>7. Tail(b) = body
  <2>1. PICK r : r = Tail(b)
    OBVIOUS
  <2>2. r \in Seq(Byte) /\ Len(r) = Len(b) - 1 /\ \A i \in 1..Len(r) : r[i] = b[i + 1]
    BY <2>1, <1>4, <1>5, HeadTailProperties
  <2>3. Len(r) = Len(body)
    BY <2>2, <1>3, <1>5
  <2>4. ASSUME NEW i \in 1..Len(r) PROVE r[i] = body[i]
    <3>1. i \in 1..Len(body) /\ Len(t) + i = i + 1
      BY <2>3, <1>3
    <3> QED BY <3>1, <2>2, <1>4
  <2>5. r = body
    BY <2>2, <2>3, <2>4, <1>3, SeqEqual
  <2> QED BY <2>1, <2>5
<1> QED BY <1>5, <1>6, <1>7

(* Requests, answers and their codes.                                      *)
RequestMsgs == NewOrderMsgs \cup CancelMsgs
AnswerMsgs  == AckMsgs \cup FillMsgs

RequestCode ==
    [a \in RequestMsgs |-> IF a.tag = "NewOrder" THEN encode_new_order(a) ELSE encode_cancel(a)]
AnswerCode ==
    [m \in AnswerMsgs |-> IF m.tag = "Fill" THEN encode_fill(m) ELSE encode_ack(m)]

LEMMA OrderCoded ==
    ASSUME NEW m \in NewOrderMsgs
    PROVE  /\ IsMessage(RequestCode[m]) /\ RequestCode[m] = encode_new_order(m)
           /\ Head(RequestCode[m]) = NEW_ORDER /\ RequestCode[m][1] = NEW_ORDER
           /\ decode_client_order(Tail(RequestCode[m]))
                 = [client_order_id |-> m.client_order_id, side |-> m.side,
                    order_type |-> m.order_type, price_ticks |-> m.price_ticks,
                    quantity |-> m.quantity]
<1>1. m.tag = "NewOrder" /\ m \in RequestMsgs
  BY DEF NewOrderMsgs, RequestMsgs
<1>2. RequestCode[m] = encode_new_order(m)
  BY <1>1, Zenon DEF RequestCode
<1>3. PICK body \in Bytes :
         /\ encode_new_order(m) = <<NEW_ORDER>> \o body /\ Len(body) = kMsgSize[NEW_ORDER]
         /\ decode_client_order(body)
               = [client_order_id |-> m.client_order_id, side |-> m.side,
                  order_type |-> m.order_type, price_ticks |-> m.price_ticks,
                  quantity |-> m.quantity]
  BY NewOrderRoundTrip, Zenon
<1>4. NEW_ORDER \in DOMAIN kMsgSize
  BY SizesAgree
<1>5. PICK b : b = encode_new_order(m)
  OBVIOUS
<1>6. IsMessage(b) /\ b[1] = NEW_ORDER /\ Head(b) = NEW_ORDER /\ Tail(b) = body
  BY <1>3, <1>4, <1>5, TagAndBody, Zenon
<1> QED BY <1>2, <1>3, <1>5, <1>6, Zenon

LEMMA CancelCoded ==
    ASSUME NEW m \in CancelMsgs
    PROVE  /\ IsMessage(RequestCode[m]) /\ RequestCode[m] = encode_cancel(m)
           /\ Head(RequestCode[m]) = CANCEL /\ RequestCode[m][1] = CANCEL
           /\ decode_cancel(Tail(RequestCode[m])).client_order_id = m.client_order_id
<1>1. m.tag # "NewOrder" /\ m \in RequestMsgs
  BY DEF CancelMsgs, RequestMsgs
<1>2. RequestCode[m] = encode_cancel(m)
  BY <1>1, Zenon DEF RequestCode
<1>3. PICK body \in Bytes :
         /\ encode_cancel(m) = <<CANCEL>> \o body /\ Len(body) = kMsgSize[CANCEL]
         /\ decode_cancel(body).client_order_id = m.client_order_id
  BY CancelRoundTrip, Zenon
<1>4. CANCEL \in DOMAIN kMsgSize
  BY SizesAgree
<1>5. PICK b : b = encode_cancel(m)
  OBVIOUS
<1>6. IsMessage(b) /\ b[1] = CANCEL /\ Head(b) = CANCEL /\ Tail(b) = body
  BY <1>3, <1>4, <1>5, TagAndBody, Zenon
<1> QED BY <1>2, <1>3, <1>5, <1>6, Zenon

(* What the client decodes is what the server sent, whatever the message.  *)
LEMMA AnswerCoded ==
    ASSUME NEW m \in AnswerMsgs, NEW b, b = AnswerCode[m]
    PROVE  /\ IsMessage(b) /\ b[1] \in {FILL, ACK} /\ Head(b) = b[1]
           /\ decode_event(Head(b), Tail(b)) = m
           /\ b = IF m.tag = "Fill" THEN encode_fill(m) ELSE encode_ack(m)
<1>0. FILL \in DOMAIN kMsgSize /\ ACK \in DOMAIN kMsgSize /\ FILL # ACK
  BY SizesAgree DEF FILL, ACK
<1>1. CASE m \in FillMsgs
  <2>1. m.tag = "Fill"
    BY <1>1 DEF FillMsgs
  <2>2. b = encode_fill(m)
    BY <2>1, Zenon DEF AnswerCode
  <2>3. PICK body \in Bytes : /\ encode_fill(m) = <<FILL>> \o body /\ Len(body) = kMsgSize[FILL]
                              /\ decode_fill(body) = m
    BY <1>1, FillRoundTrip, Zenon
  <2>4. IsMessage(b) /\ b[1] = FILL /\ Head(b) = FILL /\ Tail(b) = body
    BY <2>2, <2>3, <1>0, TagAndBody, Zenon
  <2>5. decode_event(Head(b), Tail(b)) = m
    BY <2>3, <2>4, Zenon DEF decode_event
  <2> QED BY <2>1, <2>2, <2>4, <2>5, Zenon
<1>2. CASE m \in AckMsgs
  <2>1. m.tag # "Fill"
    BY <1>2 DEF AckMsgs
  <2>2. b = encode_ack(m)
    BY <2>1, Zenon DEF AnswerCode
  <2>3. PICK body \in Bytes : /\ encode_ack(m) = <<ACK>> \o body /\ Len(body) = kMsgSize[ACK]
                              /\ decode_ack(body) = m
    BY <1>2, AckRoundTrip, Zenon
  <2>4. IsMessage(b) /\ b[1] = ACK /\ Head(b) = ACK /\ Tail(b) = body
    BY <2>2, <2>3, <1>0, TagAndBody, Zenon
  <2>5. decode_event(Head(b), Tail(b)) = m
    BY <2>3, <2>4, <1>0, Zenon DEF decode_event
  <2> QED BY <2>1, <2>2, <2>4, <2>5, Zenon
<1> QED BY <1>1, <1>2, Zenon DEF AnswerMsgs

(* The two programs' codecs fit each other, for every width of the fields: *)
(* the server decodes the requests the client encodes, and the client the  *)
(* acks and fills the server encodes, negative prices included, as long as *)
(* each value fits its field.                                              *)
THEOREM DecodingUndoesEncoding ==
    /\ \A m \in NewOrderMsgs :
          decode_client_order(Tail(encode_new_order(m)))
             = [client_order_id |-> m.client_order_id, side |-> m.side, order_type |-> m.order_type,
                price_ticks |-> m.price_ticks, quantity |-> m.quantity]
    /\ \A m \in CancelMsgs :
          decode_cancel(Tail(encode_cancel(m))).client_order_id = m.client_order_id
    /\ \A m \in AckMsgs : decode_event(Head(encode_ack(m)), Tail(encode_ack(m))) = m
    /\ \A m \in FillMsgs : decode_event(Head(encode_fill(m)), Tail(encode_fill(m))) = m
<1>1. ASSUME NEW m \in NewOrderMsgs
      PROVE  decode_client_order(Tail(encode_new_order(m)))
                = [client_order_id |-> m.client_order_id, side |-> m.side, order_type |-> m.order_type,
                   price_ticks |-> m.price_ticks, quantity |-> m.quantity]
  BY OrderCoded, Zenon
<1>2. ASSUME NEW m \in CancelMsgs
      PROVE  decode_cancel(Tail(encode_cancel(m))).client_order_id = m.client_order_id
  BY CancelCoded, Zenon
<1>3. ASSUME NEW m \in AckMsgs PROVE decode_event(Head(encode_ack(m)), Tail(encode_ack(m))) = m
  <2>1. m \in AnswerMsgs /\ m.tag # "Fill"
    BY DEF AnswerMsgs, AckMsgs
  <2>2. PICK b : b = AnswerCode[m]
    OBVIOUS
  <2>3. decode_event(Head(b), Tail(b)) = m /\ b = IF m.tag = "Fill" THEN encode_fill(m) ELSE encode_ack(m)
    BY <2>1, <2>2, AnswerCoded, Zenon
  <2>4. b = encode_ack(m)
    BY <2>1, <2>3, Zenon
  <2> QED BY <2>3, <2>4, Zenon
<1>4. ASSUME NEW m \in FillMsgs PROVE decode_event(Head(encode_fill(m)), Tail(encode_fill(m))) = m
  <2>1. m \in AnswerMsgs /\ m.tag = "Fill"
    BY DEF AnswerMsgs, FillMsgs
  <2>2. PICK b : b = AnswerCode[m]
    OBVIOUS
  <2>3. decode_event(Head(b), Tail(b)) = m /\ b = IF m.tag = "Fill" THEN encode_fill(m) ELSE encode_ack(m)
    BY <2>1, <2>2, AnswerCoded, Zenon
  <2>4. b = encode_fill(m)
    BY <2>1, <2>3, Zenon
  <2> QED BY <2>3, <2>4, Zenon
<1> QED BY <1>1, <1>2, <1>3, <1>4, Zenon

LEMMA CodingsAre == IsCoding(RequestCode, RequestMsgs) /\ IsCoding(AnswerCode, AnswerMsgs)
<1>1. ASSUME NEW m \in RequestMsgs PROVE IsMessage(RequestCode[m])
  BY OrderCoded, CancelCoded, Zenon DEF RequestMsgs
<1>2. ASSUME NEW m \in AnswerMsgs PROVE IsMessage(AnswerCode[m])
  BY AnswerCoded, Zenon
<1>3. \A b : IsMessage(b) => b \in Bytes
  BY Zenon DEF IsMessage
<1>4. RequestCode \in [RequestMsgs -> Bytes]
  <2>1. RequestCode = [m \in RequestMsgs |-> RequestCode[m]]
    BY Zenon DEF RequestCode
  <2>2. \A m \in RequestMsgs : RequestCode[m] \in Bytes
    BY <1>1, <1>3, Zenon
  <2> QED BY <2>1, <2>2, Zenon
<1>5. AnswerCode \in [AnswerMsgs -> Bytes]
  <2>1. AnswerCode = [m \in AnswerMsgs |-> AnswerCode[m]]
    BY Zenon DEF AnswerCode
  <2>2. \A m \in AnswerMsgs : AnswerCode[m] \in Bytes
    BY <1>2, <1>3, Zenon
  <2> QED BY <2>1, <2>2, Zenon
<1> QED BY <1>1, <1>2, <1>4, <1>5, Zenon DEF IsCoding

-----------------------------------------------------------------------------
(* The book's numbers fit their fields. *)

(* The orders of the book and the fills of the submit in progress.         *)
QuantitiesFit ==
    /\ \A o \in RestingOrders : o.quantity \in UnsignedRange(QuantityBytes)
    /\ incoming # NoOrder => incoming.quantity \in UnsignedRange(QuantityBytes)

FillsFit ==
    \A i \in 1..Len(fills) : /\ fills[i].quantity \in UnsignedRange(QuantityBytes)
                             /\ fills[i].timestamp \in 0..(2 * MaxTimestamp)

(* What the clock has counted.  Every order that rests or is being matched *)
(* has a stamp of its own, and there is room for the fills of these orders *)
(* after the last submit, each of which uses up one of them.               *)
Active == IF incoming = NoOrder THEN 0 ELSE 1
Live   == IF incoming = NoOrder THEN 0 ELSE IF incoming.quantity > 0 THEN 1 ELSE 0
InBook == Cardinality(DOMAIN order_index)

ClockFits ==
    /\ IsFiniteSet(DOMAIN order_index)
    /\ InBook + Active <= next_timestamp
    /\ next_timestamp + InBook + Live <= 2 * MaxTimestamp + 2

BookFits == QuantitiesFit /\ FillsFit /\ ClockFits

(* A smaller quantity fits as well.                                        *)
LEMMA SmallerFits ==
    ASSUME NEW q \in UnsignedRange(QuantityBytes), NEW r \in Nat, r <= q
    PROVE  r \in UnsignedRange(QuantityBytes) /\ q \in Nat
<1>1. PICK c : c = Capacity(QuantityBytes) - 1
  OBVIOUS
<1>2. UnsignedRange(QuantityBytes) = 0..c
  BY <1>1 DEF UnsignedRange
<1>3. c \in Int
  <2>1. PICK w \in Nat : w = QuantityBytes
    BY WidthAssumption
  <2>2. PICK d \in [0..w -> Nat \ {0}] : Capacity(w) = d[w]
    BY CapacityUnfolds
  <2>3. Capacity(w) \in Nat
    BY <2>2
  <2> QED BY <2>1, <2>3, <1>1
<1> QED BY <1>2, <1>3

(* contains() says which ids are resting, after a step as before it.       *)
LEMMA ContainsIsRestingAfter ==
    ASSUME BookInv'
    PROVE  Abstract!IdsOf(RestingOrders') = DOMAIN order_index'
<1>0. /\ QueuedIsIndexed' /\ IndexedIsQueued'
      /\ \A id \in DOMAIN order_index' : order_index'[id].side \in Sides
  BY DEF BookInv, BookTypeOK
<1>1. ASSUME NEW o \in RestingOrders' PROVE o.id \in DOMAIN order_index'
  <2>1. PICK t, q, i : /\ t \in Sides /\ q \in DOMAIN book'[t] /\ i \in 1..Len(book'[t][q])
                       /\ o = book'[t][q][i]
    BY <1>1, RestingMember
  <2> QED BY <2>1, <1>0 DEF QueuedIsIndexed, contains
<1>2. ASSUME NEW id \in DOMAIN order_index' PROVE \E o \in RestingOrders' : o.id = id
  <2>1. PICK i : i \in Positions(QueueAt(book'[order_index'[id].side], order_index'[id].price), id)
    BY <1>0, <1>2 DEF IndexedIsQueued, Located, contains
  <2>2. PICK t, q : t = order_index'[id].side /\ q = order_index'[id].price
    OBVIOUS
  <2>3. t \in Sides
    BY <1>0, <1>2, <2>2
  <2>4. q \in DOMAIN book'[t] /\ i \in 1..Len(book'[t][q]) /\ book'[t][q][i].id = id
    BY <2>1, <2>2 DEF Positions, QueueAt
  <2> QED BY <2>3, <2>4, RestingMember
<1> QED BY <1>1, <1>2 DEF Abstract!IdsOf

LEMMA InitBookFits == BookInit => BookFits
<1> SUFFICES ASSUME BookInit PROVE BookFits
  OBVIOUS
<1>1. RestingOrders = {} /\ DOMAIN order_index = {} /\ incoming = NoOrder /\ fills = <<>> /\ next_timestamp = 0
  BY InitRefines DEF BookInit, Abstract!Init
<1>2. IsFiniteSet(DOMAIN order_index) /\ InBook = 0 /\ Active = 0 /\ Live = 0
  BY <1>1, FS_EmptySet DEF InBook, Active, Live
<1>3. ClockFits
  BY <1>1, <1>2, BoundAssumption DEF ClockFits
<1>4. QuantitiesFit /\ FillsFit
  BY <1>1 DEF QuantitiesFit, FillsFit
<1> QED BY <1>3, <1>4 DEF BookFits

(* The arithmetic of a step.                                               *)
LEMMA ClockAdds ==
    ASSUME NEW t \in Nat, NEW M \in Nat, NEW k \in Nat, NEW a \in 0..1, NEW l \in 0..1,
           NEW t1 \in Nat, NEW k1 \in Nat, NEW a1 \in 0..1, NEW l1 \in 0..1,
           k + a <= t, t + k + l <= 2 * M + 2,
           \/ t <= M /\ a = 0 /\ t1 = t + 1 /\ k1 = k
           \/ l = 1 /\ a1 = a /\ t1 = t + 1 /\ (k1 = k - 1 \/ (k1 = k /\ l1 = 0))
           \/ a = 1 /\ l = 1 /\ a1 = 0 /\ l1 = 0 /\ t1 = t /\ k1 = k + 1
           \/ a1 = 0 /\ l1 = 0 /\ t1 = t /\ k1 = k
    PROVE  k1 + a1 <= t1 /\ t1 + k1 + l1 <= 2 * M + 2
OBVIOUS

LEMMA AcceptFits ==
    ASSUME BookInv, BookFits, NEW id \in OrderIds, NEW side \in Sides, NEW type \in OrderTypes,
           NEW price \in Prices, NEW quantity \in Quantities,
           SubmitBegin(id, side, type, price, quantity)
    PROVE  BookFits'
<1>1. /\ RestingOrders' = RestingOrders /\ order_index' = order_index /\ fills' = fills
      /\ incoming' = [id |-> id, side |-> side, type |-> type, price_ticks |-> price,
                      quantity |-> quantity, timestamp |-> next_timestamp]
      /\ next_timestamp' = next_timestamp + 1 /\ next_timestamp <= MaxTimestamp
      /\ incoming = NoOrder
  BY DEF SubmitBegin, RestingOrders
<1>2. quantity \in UnsignedRange(QuantityBytes) /\ incoming'.quantity = quantity
  BY <1>1, FieldsAssumption
<1>3. QuantitiesFit'
  BY <1>1, <1>2 DEF BookFits, QuantitiesFit
<1>4. FillsFit'
  BY <1>1 DEF BookFits, FillsFit
<1>5. next_timestamp \in Nat /\ MaxTimestamp \in Nat
  BY BookInvParts, BoundAssumption DEF LocalsOK
<1>6. IsFiniteSet(DOMAIN order_index) /\ InBook \in Nat /\ InBook + Active <= next_timestamp /\ Active = 0
  BY <1>1, FS_CardinalityType DEF BookFits, ClockFits, InBook, Active
<1>7. InBook' = InBook /\ Active' \in 0..1 /\ Live' \in 0..1
  BY <1>1 DEF InBook, Active, Live
<1>7a. next_timestamp' \in Nat /\ InBook' \in Nat /\ Active \in 0..1 /\ Live \in 0..1
       /\ next_timestamp + InBook + Live <= 2 * MaxTimestamp + 2
  BY <1>1, <1>5, <1>6, <1>7 DEF BookFits, ClockFits, Live
<1>8. /\ InBook' + Active' <= next_timestamp'
      /\ next_timestamp' + InBook' + Live' <= 2 * MaxTimestamp + 2
  BY <1>1, <1>5, <1>6, <1>7, <1>7a, ClockAdds
<1>9. ClockFits'
  BY <1>1, <1>6, <1>8 DEF ClockFits
<1> QED BY <1>3, <1>4, <1>9 DEF BookFits

LEMMA TradeFits ==
    ASSUME BookInv, BookFits, MatchOne
    PROVE  BookFits'
<1>1. LadderInv /\ LocalsOK /\ BookInv'
  BY BookInvParts, MatchOneKeepsInv
<1>2. PICK maker \in RestingOrders : \E quantity \in {maker.quantity, incoming.quantity} :
              Abstract!Trade(maker, quantity)
  BY MatchOneRefines
<1>3. PICK q \in {maker.quantity, incoming.quantity} : Abstract!Trade(maker, q)
  BY <1>2
<1>4. incoming \in Order /\ maker \in Order /\ incoming # NoOrder /\ q \in Nat
      /\ incoming.quantity \in Nat /\ maker.quantity \in Nat
  BY <1>1, <1>3, RestingIds DEF LocalsOK, MatchOne, Order
<1>5. /\ q > 0 /\ q <= incoming.quantity /\ q <= maker.quantity
      /\ incoming' = [incoming EXCEPT !.quantity = incoming.quantity - q]
      /\ RestingOrders' = (RestingOrders \ {maker}) \cup
                          (IF q = maker.quantity THEN {}
                           ELSE {[maker EXCEPT !.quantity = maker.quantity - q]})
      /\ next_timestamp' = next_timestamp + 1
  BY <1>3 DEF Abstract!Trade
<1>6. PICK f : /\ fills' = Append(fills, f) /\ f.quantity = q /\ f.timestamp = next_timestamp
               /\ f = [resting_order_id |-> maker.id, incoming_order_id |-> incoming.id,
                       resting_side |-> maker.side, price_ticks |-> maker.price_ticks,
                       quantity |-> q, timestamp |-> next_timestamp]
  BY <1>3 DEF Abstract!Trade
<1>7. maker.quantity \in UnsignedRange(QuantityBytes) /\ incoming.quantity \in UnsignedRange(QuantityBytes)
  BY <1>4 DEF BookFits, QuantitiesFit
<1>8. /\ q \in UnsignedRange(QuantityBytes)
      /\ maker.quantity - q \in UnsignedRange(QuantityBytes)
      /\ incoming.quantity - q \in UnsignedRange(QuantityBytes)
  BY <1>4, <1>5, <1>7, SmallerFits
<1>9. incoming'.quantity = incoming.quantity - q /\ incoming' \in Order /\ incoming' # NoOrder
  <2>1. incoming'.quantity = incoming.quantity - q /\ incoming' \in Order
    BY <1>4, <1>5 DEF Order
  <2> QED BY <2>1, NoOrderAssumption
<1>10. QuantitiesFit'
  <2>1. ASSUME NEW o \in RestingOrders' PROVE o.quantity \in UnsignedRange(QuantityBytes)
    <3>1. o \in RestingOrders \/ o = [maker EXCEPT !.quantity = maker.quantity - q]
      BY <1>5
    <3>2. [maker EXCEPT !.quantity = maker.quantity - q].quantity = maker.quantity - q
      BY <1>4 DEF Order
    <3> QED BY <3>1, <3>2, <1>8 DEF BookFits, QuantitiesFit
  <2> QED BY <2>1, <1>8, <1>9 DEF QuantitiesFit
<1>11. /\ next_timestamp \in Nat /\ MaxTimestamp \in Nat
       /\ IsFiniteSet(DOMAIN order_index) /\ InBook \in Nat
       /\ InBook + Active <= next_timestamp /\ next_timestamp + InBook + Live <= 2 * MaxTimestamp + 2
       /\ Active = 1 /\ Live = 1
  BY <1>1, <1>4, <1>5, BoundAssumption, FS_CardinalityType DEF LocalsOK, BookFits, ClockFits, InBook, Active, Live
<1>11a. next_timestamp' \in Nat /\ Active \in 0..1 /\ Live \in 0..1 /\ (InBook >= 1 => InBook - 1 \in Nat)
  BY <1>5, <1>11
<1>12. /\ Abstract!IdsOf(RestingOrders) = DOMAIN order_index
       /\ Abstract!IdsOf(RestingOrders') = DOMAIN order_index'
  BY <1>1, ContainsIsResting, ContainsIsRestingAfter
<1>13. maker.id \in DOMAIN order_index
  BY <1>12 DEF Abstract!IdsOf
<1>13a. InBook >= 1
  <2>1. DOMAIN order_index # {}
    BY <1>13
  <2>2. Cardinality(DOMAIN order_index) # 0
    BY <2>1, <1>11, FS_EmptySet
  <2> QED BY <2>2, <1>11 DEF InBook
<1>14. ASSUME q = maker.quantity PROVE ClockFits'
  <2>1. RestingOrders' = RestingOrders \ {maker}
    BY <1>5, <1>14
  <2>2. DOMAIN order_index' = DOMAIN order_index \ {maker.id}
    BY <2>1, <1>1, <1>12, RestingIds DEF Abstract!IdsOf
  <2>3. IsFiniteSet(DOMAIN order_index') /\ InBook' = InBook - 1 /\ Active' = 1 /\ Live' \in 0..1
    BY <2>2, <1>9, <1>11, <1>13, FS_RemoveElement DEF InBook, Active, Live
  <2>4. /\ InBook' + Active' <= next_timestamp'
        /\ next_timestamp' + InBook' + Live' <= 2 * MaxTimestamp + 2
    <3>1. InBook' \in Nat /\ Active' \in 0..1
      BY <2>3, <1>11a, <1>13a
    <3> QED BY <2>3, <3>1, <1>5, <1>11, <1>11a, ClockAdds
  <2> QED BY <2>3, <2>4 DEF ClockFits
<1>15. ASSUME q # maker.quantity PROVE ClockFits'
  <2>1. RestingOrders' = (RestingOrders \ {maker}) \cup {[maker EXCEPT !.quantity = maker.quantity - q]}
    BY <1>5, <1>15
  <2>2. [maker EXCEPT !.quantity = maker.quantity - q].id = maker.id
    BY <1>4 DEF Order
  <2>3. DOMAIN order_index' = DOMAIN order_index
    BY <2>1, <2>2, <1>12, <1>13 DEF Abstract!IdsOf
  <2>4. incoming'.quantity = 0
    BY <1>4, <1>9, <1>15, <1>3
  <2>5. IsFiniteSet(DOMAIN order_index') /\ InBook' = InBook /\ Active' = 1 /\ Live' = 0
    BY <2>3, <2>4, <1>9, <1>11 DEF InBook, Active, Live
  <2>6. /\ InBook' + Active' <= next_timestamp'
        /\ next_timestamp' + InBook' + Live' <= 2 * MaxTimestamp + 2
    <3>1. InBook' \in Nat /\ Active' \in 0..1 /\ Live' \in 0..1
      BY <2>5, <1>11
    <3> QED BY <2>5, <3>1, <1>5, <1>11, <1>11a, ClockAdds
  <2> QED BY <2>5, <2>6 DEF ClockFits
<1>17. next_timestamp \in 0..(2 * MaxTimestamp)
  BY <1>11, <1>13a
<1>18. FillsFit'
  <2>1. fills \in Seq(Fill)
    BY <1>1 DEF LocalsOK
  <2>2. PICK n \in Nat : n = Len(fills)
    BY <2>1
  <2>2a. f \in Fill
    BY <1>1, <1>4, <1>6, <1>11, RestingIds DEF Fill, Order
  <2>3. /\ Len(fills') = n + 1 /\ fills'[n + 1] = f
        /\ \A i \in 1..n : fills'[i] = fills[i]
    BY <2>1, <2>2, <2>2a, <1>6, AppendProperties
  <2>4. ASSUME NEW i \in 1..(n + 1)
        PROVE  /\ fills'[i].quantity \in UnsignedRange(QuantityBytes)
               /\ fills'[i].timestamp \in 0..(2 * MaxTimestamp)
    <3>1. CASE i = n + 1
      BY <3>1, <2>3, <1>6, <1>8, <1>17
    <3>2. CASE i # n + 1
      <4>1. i \in 1..n /\ fills'[i] = fills[i]
        BY <3>2, <2>3
      <4> QED BY <4>1, <2>2 DEF BookFits, FillsFit
    <3> QED BY <3>1, <3>2
  <2> QED BY <2>3, <2>4 DEF FillsFit
<1> QED BY <1>10, <1>14, <1>15, <1>18 DEF BookFits

LEMMA ReturnFits ==
    ASSUME BookInv, BookFits, Return
    PROVE  BookFits'
<1>1. LadderInv /\ LocalsOK /\ IncomingNotQueued /\ BookInv'
  BY BookInvParts, ReturnKeepsInv
<1>2. Abstract!Done
  BY ReturnRefines
<1>3. PICK o \in Order : o = incoming
  BY <1>1 DEF LocalsOK, Return
<1>4. /\ RestingOrders' = RestingOrders \cup (IF o.quantity > 0 /\ o.type = "Limit" THEN {o} ELSE {})
      /\ incoming' = NoOrder /\ fills' = <<>> /\ next_timestamp' = next_timestamp /\ incoming # NoOrder
  BY <1>2, <1>3 DEF Abstract!Done
<1>5. QuantitiesFit' /\ FillsFit'
  BY <1>3, <1>4 DEF BookFits, QuantitiesFit, FillsFit
<1>6. /\ next_timestamp \in Nat /\ MaxTimestamp \in Nat
      /\ IsFiniteSet(DOMAIN order_index) /\ InBook \in Nat
      /\ InBook + Active <= next_timestamp /\ next_timestamp + InBook + Live <= 2 * MaxTimestamp + 2
      /\ Active = 1 /\ Live = (IF o.quantity > 0 THEN 1 ELSE 0) /\ Active' = 0 /\ Live' = 0
  BY <1>1, <1>3, <1>4, BoundAssumption, FS_CardinalityType DEF LocalsOK, BookFits, ClockFits, InBook, Active, Live
<1>7. /\ Abstract!IdsOf(RestingOrders) = DOMAIN order_index
      /\ Abstract!IdsOf(RestingOrders') = DOMAIN order_index'
  BY <1>1, ContainsIsResting, ContainsIsRestingAfter
<1>8. ASSUME o.quantity > 0 /\ o.type = "Limit" PROVE ClockFits'
  <2>1. DOMAIN order_index' = DOMAIN order_index \cup {o.id} /\ o.id \notin DOMAIN order_index
    BY <1>1, <1>3, <1>4, <1>7, <1>8 DEF Abstract!IdsOf, IncomingNotQueued, contains
  <2>2. IsFiniteSet(DOMAIN order_index') /\ InBook' = InBook + 1
    BY <2>1, <1>6, FS_AddElement DEF InBook
  <2>3. /\ InBook' + Active' <= next_timestamp'
        /\ next_timestamp' + InBook' + Live' <= 2 * MaxTimestamp + 2
    <3>1. /\ InBook' \in Nat /\ Active' \in 0..1 /\ Live' \in 0..1 /\ Active \in 0..1
          /\ Live = 1 /\ Live \in 0..1 /\ next_timestamp' \in Nat
      BY <2>2, <1>4, <1>6, <1>8
    <3> QED BY <2>2, <3>1, <1>4, <1>6, ClockAdds
  <2> QED BY <2>2, <2>3 DEF ClockFits
<1>9. ASSUME ~(o.quantity > 0 /\ o.type = "Limit") PROVE ClockFits'
  <2>1. DOMAIN order_index' = DOMAIN order_index
    BY <1>4, <1>7, <1>9
  <2>2. InBook' = InBook
    BY <2>1 DEF InBook
  <2>3. /\ InBook' + Active' <= next_timestamp'
        /\ next_timestamp' + InBook' + Live' <= 2 * MaxTimestamp + 2
    <3>1. /\ InBook' \in Nat /\ Active' \in 0..1 /\ Live' \in 0..1 /\ Active \in 0..1
          /\ Live \in 0..1 /\ next_timestamp' \in Nat
      BY <2>2, <1>4, <1>6
    <3> QED BY <2>2, <3>1, <1>4, <1>6, ClockAdds
  <2> QED BY <2>1, <2>3, <1>6 DEF ClockFits
<1> QED BY <1>5, <1>8, <1>9 DEF BookFits

LEMMA CancelFits ==
    ASSUME BookInv, BookFits, NEW id \in OrderIds, CancelFound(id) \/ CancelNotFound(id)
    PROVE  BookFits'
<1>1. LadderInv /\ LocalsOK /\ BookInv'
  BY BookInvParts, NextBookInv DEF BookNext
<1>2. Abstract!Cancel(id)
  BY CancelFoundRefines, CancelNotFoundRefines
<1>3. /\ RestingOrders' = {o \in RestingOrders : o.id # id}
      /\ incoming' = incoming /\ fills' = fills /\ next_timestamp' = next_timestamp
  BY <1>2 DEF Abstract!Cancel
<1>4. QuantitiesFit' /\ FillsFit'
  BY <1>3 DEF BookFits, QuantitiesFit, FillsFit
<1>5. /\ Abstract!IdsOf(RestingOrders) = DOMAIN order_index
      /\ Abstract!IdsOf(RestingOrders') = DOMAIN order_index'
  BY <1>1, ContainsIsResting, ContainsIsRestingAfter
<1>6. DOMAIN order_index' \subseteq DOMAIN order_index
  BY <1>3, <1>5 DEF Abstract!IdsOf
<1>7. /\ IsFiniteSet(DOMAIN order_index') /\ InBook' \in Nat /\ InBook \in Nat /\ InBook' <= InBook
      /\ IsFiniteSet(DOMAIN order_index)
  BY <1>6, FS_Subset, FS_CardinalityType DEF BookFits, ClockFits, InBook
<1>8. Active' = Active /\ Live' = Live /\ Active \in 0..1 /\ Live \in 0..1
  BY <1>3 DEF Active, Live
<1>9. next_timestamp \in Nat /\ MaxTimestamp \in Nat
  BY <1>1, BoundAssumption DEF LocalsOK
<1>10. ClockFits'
  BY <1>3, <1>7, <1>8, <1>9 DEF BookFits, ClockFits
<1> QED BY <1>4, <1>10 DEF BookFits

-----------------------------------------------------------------------------
(* The quoter. *)

(* The state of FixedOffsetQuoter and of the loop: ids are given out in    *)
(* order, two at most for each tick, and none of them twice.               *)
QuoterOK ==
    /\ quote \in [Sides -> [id : OrderIds, price : Prices] \cup {NoQuote}]
    /\ ticks_done \in 0..MaxTicks
    /\ next_id \in 1..(2 * ticks_done + 1)
    /\ pc \in {"tick", "send", "poll", "final", "closed"}
    /\ pc \notin {"send", "closed"} => actions = <<>>
    /\ actions \in Seq(RequestMsgs)
    /\ \A a \in ToSet(actions) : a.client_order_id \in 1..(next_id - 1)
    /\ \A s \in Sides : quote[s] # NoQuote => quote[s].id \in 1..(next_id - 1)
    /\ \A s, t \in Sides : quote[s] # NoQuote /\ quote[t] # NoQuote /\ quote[s].id = quote[t].id => s = t
    /\ others \subseteq Others

(* The ids given out so far are the session's own.                         *)
LEMMA GivenOutIsOwn ==
    ASSUME QuoterOK, NEW id \in 1..(next_id - 1)
    PROVE  id \in OrderIds \ OtherIds
<1>1. id \in 1..(2 * MaxTicks)
  BY SessionAssumption DEF QuoterOK
<1> QED BY <1>1, OwnIdsAssumption

LEMMA RequotedCases ==
    ASSUME NEW price
    PROVE  LET b == Drifted("Buy", price)
               s == Drifted("Sell", price)
           IN  Requoted(price) = IF b THEN (IF s THEN <<"Buy", "Sell">> ELSE <<"Buy">>)
                                      ELSE (IF s THEN <<"Sell">> ELSE <<>>)
<1>1. PICK D : D = {side \in Sides : Drifted(side, price)}
  OBVIOUS
<1>2. ("Buy" \in D <=> Drifted("Buy", price)) /\ ("Sell" \in D <=> Drifted("Sell", price))
  BY <1>1 DEF Sides
<1>3. One("Buy") \in Seq(Sides) /\ One("Sell") \in Seq(Sides)
  BY DEF One, Sides
<1>4. Cat(One("Buy"), One("Sell")) = <<"Buy", "Sell">>
  <2>1. PICK r, a, b, c : r = a \o b /\ a = <<"Buy">> /\ b = <<"Sell">> /\ c = <<"Buy", "Sell">>
    OBVIOUS
  <2>2. /\ a \in Seq(Sides) /\ Len(a) = 1 /\ a[1] = "Buy"
        /\ b \in Seq(Sides) /\ Len(b) = 1 /\ b[1] = "Sell"
        /\ c \in Seq(Sides) /\ Len(c) = 2 /\ c[1] = "Buy" /\ c[2] = "Sell"
    BY <2>1 DEF Sides
  <2>3. /\ r \in Seq(Sides) /\ Len(r) = Len(a) + Len(b)
        /\ \A i \in 1..Len(a) : r[i] = a[i]
        /\ \A i \in 1..Len(b) : r[Len(a) + i] = b[i]
    BY <2>1, <2>2, ConcatFacts
  <2>4. Len(r) = 2 /\ r[1] = "Buy" /\ r[2] = "Sell"
    BY <2>2, <2>3
  <2>5. \A i \in 1..Len(r) : r[i] = c[i]
    BY <2>2, <2>4
  <2>6. r = c
    BY <2>2, <2>3, <2>4, <2>5, SeqEqual
  <2> QED BY <2>1, <2>6 DEF Cat, One
<1>5. Requoted(price) = Cat(Sift(One("Buy"), D), Sift(One("Sell"), D))
  <2>1. Sift(Cat(One("Buy"), One("Sell")), D) = Cat(Sift(One("Buy"), D), Sift(One("Sell"), D))
    BY <1>3, SiftCat
  <2> QED BY <2>1, <1>1, <1>4, Zenon DEF Requoted
<1>6. /\ Sift(One("Buy"), D) = IF Drifted("Buy", price) THEN One("Buy") ELSE <<>>
      /\ Sift(One("Sell"), D) = IF Drifted("Sell", price) THEN One("Sell") ELSE <<>>
  BY <1>2, SiftOne, Zenon
<1>7. /\ Cat(One("Buy"), <<>>) = <<"Buy">> /\ Cat(<<>>, One("Sell")) = <<"Sell">>
      /\ Cat(<<>>, <<>>) = <<>>
  <2>1. <<>> \in Seq(Sides)
    BY EmptySeq
  <2>2. Cat(One("Buy"), <<>>) = One("Buy") /\ Cat(<<>>, One("Sell")) = One("Sell") /\ Cat(<<>>, <<>>) = <<>>
    BY <2>1, <1>3, CatLaws
  <2> QED BY <2>2 DEF One
<1> QED BY <1>4, <1>5, <1>6, <1>7, Zenon

(* What on_price decides to send.                                          *)
LEMMA TickFacts ==
    ASSUME QuoterOK, NEW price \in FeedPrices
    PROVE  /\ Requoted(price) \in Seq(Sides) /\ Len(Requoted(price)) \in 0..2
           /\ ToSet(Requoted(price)) = {s \in Sides : Drifted(s, price)}
           /\ NoDuplicates(Requoted(price))
           /\ \A s \in Sides : /\ TargetPrice(s, price) \in Prices
                               /\ Drifted(s, price) =>
                                     NewId(s, price) \in next_id..(next_id + Len(Requoted(price)) - 1)
           /\ \A s, t \in Sides :
                 Drifted(s, price) /\ Drifted(t, price) /\ NewId(s, price) = NewId(t, price) => s = t
<1>1. PICK r : r = Requoted(price)
  OBVIOUS
<1>2. next_id \in Nat
  BY SessionAssumption DEF QuoterOK
<1>3. r = IF Drifted("Buy", price) THEN (IF Drifted("Sell", price) THEN <<"Buy", "Sell">> ELSE <<"Buy">>)
          ELSE (IF Drifted("Sell", price) THEN <<"Sell">> ELSE <<>>)
  BY <1>1, RequotedCases, Zenon
<1>4. /\ r \in Seq(Sides) /\ Len(r) \in 0..2
      /\ (Drifted("Buy", price) \/ Drifted("Sell", price)) => Len(r) >= 1
      /\ (Drifted("Buy", price) /\ Drifted("Sell", price)) => Len(r) = 2
  <2>1. CASE Drifted("Buy", price) /\ Drifted("Sell", price)
    <3>1. r = <<"Buy", "Sell">>
      BY <2>1, <1>3, Zenon
    <3> QED BY <2>1, <3>1 DEF Sides
  <2>2. CASE Drifted("Buy", price) /\ ~Drifted("Sell", price)
    <3>1. r = <<"Buy">>
      BY <2>2, <1>3, Zenon
    <3> QED BY <2>2, <3>1 DEF Sides
  <2>3. CASE ~Drifted("Buy", price) /\ Drifted("Sell", price)
    <3>1. r = <<"Sell">>
      BY <2>3, <1>3, Zenon
    <3> QED BY <2>3, <3>1 DEF Sides
  <2>4. CASE ~Drifted("Buy", price) /\ ~Drifted("Sell", price)
    <3>1. r = <<>>
      BY <2>4, <1>3, Zenon
    <3> QED BY <2>4, <3>1, EmptySeq
  <2> QED BY <2>1, <2>2, <2>3, <2>4
<1>5. PICK D, ab : D = {s \in Sides : Drifted(s, price)} /\ ab = <<"Buy", "Sell">>
  OBVIOUS
<1>6. ab \in Seq(Sides) /\ NoDuplicates(ab) /\ ToSet(ab) = Sides
  <2>1. ab \in Seq(Sides) /\ Len(ab) = 2 /\ ab[1] = "Buy" /\ ab[2] = "Sell"
    BY <1>5 DEF Sides
  <2>2. \A x : x \in ToSet(ab) <=> \E i \in 1..Len(ab) : x = ab[i]
    BY <2>1, ToSetMember
  <2>3. \A i \in 1..Len(ab) : i = 1 \/ i = 2
    BY <2>1
  <2>4. 1 \in 1..Len(ab) /\ 2 \in 1..Len(ab)
    BY <2>1
  <2>5. NoDuplicates(ab)
    BY <2>1, <2>3 DEF NoDuplicates
  <2> QED BY <2>1, <2>2, <2>3, <2>4, <2>5 DEF Sides
<1>7. ToSet(r) = D /\ NoDuplicates(r)
  <2>1. r = Sift(ab, D)
    BY <1>1, <1>5 DEF Requoted
  <2>2. ToSet(r) = ToSet(ab) \cap D /\ NoDuplicates(r)
    BY <2>1, <1>6, SiftSet
  <2> QED BY <2>2, <1>5, <1>6
<1>8. ASSUME NEW s \in Sides PROVE TargetPrice(s, price) \in Prices
  BY SessionAssumption DEF TargetPrice
<1>9. ASSUME NEW s \in Sides, Drifted(s, price)
      PROVE  NewId(s, price) \in next_id..(next_id + Len(r) - 1)
  <2>1. PICK k \in 0..2 : k = Len(r)
    BY <1>4
  <2>2. CASE s = "Sell" /\ Drifted("Buy", price)
    <3>1. k = 2 /\ NewId(s, price) = next_id + 1
      BY <2>1, <2>2, <1>4, <1>9 DEF NewId
    <3> QED BY <3>1, <2>1, <1>2
  <2>3. CASE ~(s = "Sell" /\ Drifted("Buy", price))
    <3>1. k >= 1 /\ NewId(s, price) = next_id
      BY <2>1, <2>3, <1>4, <1>9 DEF NewId, Sides
    <3> QED BY <3>1, <2>1, <1>2
  <2> QED BY <2>2, <2>3
<1>10. ASSUME NEW s \in Sides, NEW t \in Sides, Drifted(s, price), Drifted(t, price),
              NewId(s, price) = NewId(t, price)
       PROVE  s = t
  <2>1. ASSUME Drifted("Buy", price) PROVE NewId("Sell", price) = next_id + 1
    BY <2>1 DEF NewId
  <2>2. NewId("Buy", price) = next_id
    BY DEF NewId
  <2>3. Drifted("Buy", price) /\ Drifted("Sell", price) => NewId("Buy", price) # NewId("Sell", price)
    BY <1>2, <2>1, <2>2
  <2>4. s \in {"Buy", "Sell"} /\ t \in {"Buy", "Sell"}
    BY DEF Sides
  <2>5. CASE s = "Buy" /\ t = "Sell"
    BY <1>10, <2>3, <2>5, Zenon
  <2>6. CASE s = "Sell" /\ t = "Buy"
    BY <1>10, <2>3, <2>6, Zenon
  <2> QED BY <2>4, <2>5, <2>6
<1>11. \A s, t \in Sides :
          Drifted(s, price) /\ Drifted(t, price) /\ NewId(s, price) = NewId(t, price) => s = t
  BY <1>10, Zenon
<1> QED BY <1>1, <1>4, <1>5, <1>7, <1>8, <1>9, <1>11, Zenon

LEMMA TickSends ==
    ASSUME QuoterOK, NEW price \in FeedPrices, ticks_done < MaxTicks
    PROVE  /\ NewOrders(price) \in Seq(NewOrderMsgs) /\ Cancels(price) \in Seq(CancelMsgs)
           /\ ToSet(NewOrders(price)) = {OrderRequest(NewId(s, price), s, TargetPrice(s, price)) :
                                            s \in {t \in Sides : Drifted(t, price)}}
           /\ ToSet(Cancels(price)) = {CancelRequest(quote[s].id) :
                                          s \in {t \in Sides : Drifted(t, price) /\ quote[t] # NoQuote}}
           /\ \A i, j \in 1..Len(NewOrders(price)) :
                 NewOrders(price)[i].client_order_id = NewOrders(price)[j].client_order_id => i = j
<1>1. PICK r, n, c, D : /\ r = Requoted(price) /\ n = NewOrders(price) /\ c = Cancels(price)
                        /\ D = {t \in Sides : Drifted(t, price)}
  OBVIOUS
<1>2. /\ r \in Seq(Sides) /\ Len(r) \in 0..2 /\ ToSet(r) = D /\ NoDuplicates(r)
      /\ \A s \in Sides : /\ TargetPrice(s, price) \in Prices
                          /\ Drifted(s, price) => NewId(s, price) \in next_id..(next_id + Len(r) - 1)
      /\ \A s, t \in Sides :
            Drifted(s, price) /\ Drifted(t, price) /\ NewId(s, price) = NewId(t, price) => s = t
  BY <1>1, TickFacts, Zenon
<1>3. /\ D \subseteq Sides
      /\ \A s \in D : Drifted(s, price)
  BY <1>1
<1>4. ASSUME NEW s \in D
      PROVE  OrderRequest(NewId(s, price), s, TargetPrice(s, price)) \in NewOrderMsgs
  <2>1. PICK k \in 0..2 : k = Len(r)
    BY <1>2
  <2>2. NewId(s, price) \in next_id..(next_id + k - 1)
    BY <2>1, <1>2, <1>3
  <2>3. NewId(s, price) \in 1..(2 * MaxTicks)
    BY <2>2, SessionAssumption DEF QuoterOK
  <2>4. NewId(s, price) \in OrderIds /\ TargetPrice(s, price) \in Prices /\ s \in Sides /\ Size \in Quantities
    BY <2>3, <1>2, <1>3, OwnIdsAssumption, SessionAssumption
  <2> QED BY <2>4 DEF OrderRequest, NewOrderMsgs, OrderTypes
<1>5. /\ \A i \in 1..Len(r) : r[i] \in D
      /\ \A s \in D : \E i \in 1..Len(r) : s = r[i]
  BY <1>2, ToSetMember
<1>6. n = [i \in 1..Len(r) |-> OrderRequest(NewId(r[i], price), r[i], TargetPrice(r[i], price))]
  BY <1>1 DEF NewOrders
<1>7. /\ n \in Seq(NewOrderMsgs) /\ Len(n) = Len(r)
      /\ \A i \in 1..Len(r) : n[i] = OrderRequest(NewId(r[i], price), r[i], TargetPrice(r[i], price))
  <2>1. \A i \in 1..Len(r) : OrderRequest(NewId(r[i], price), r[i], TargetPrice(r[i], price)) \in NewOrderMsgs
    BY <1>4, <1>5, Zenon
  <2>2. Len(r) \in Nat
    BY <1>2
  <2> QED BY <2>1, <2>2, <1>6, FunctionIsSeq
<1>8. ToSet(n) = {OrderRequest(NewId(s, price), s, TargetPrice(s, price)) : s \in D}
  <2>1. \A x : x \in ToSet(n) <=> \E i \in 1..Len(r) : x = n[i]
    BY <1>7, ToSetMember
  <2>2. ASSUME NEW x \in ToSet(n)
        PROVE  \E s \in D : x = OrderRequest(NewId(s, price), s, TargetPrice(s, price))
    <3>1. PICK i \in 1..Len(r) : x = n[i]
      BY <2>1
    <3>2. r[i] \in D /\ x = OrderRequest(NewId(r[i], price), r[i], TargetPrice(r[i], price))
      BY <3>1, <1>5, <1>7, Zenon
    <3> QED BY <3>2, Zenon
  <2>3. ASSUME NEW s \in D PROVE OrderRequest(NewId(s, price), s, TargetPrice(s, price)) \in ToSet(n)
    <3>1. PICK i \in 1..Len(r) : s = r[i]
      BY <1>5
    <3>2. n[i] = OrderRequest(NewId(s, price), s, TargetPrice(s, price))
      BY <3>1, <1>7, Zenon
    <3> QED BY <3>2, <2>1, Zenon
  <2> QED BY <2>2, <2>3, Zenon
<1>9. ASSUME NEW i \in 1..Len(n), NEW j \in 1..Len(n), n[i].client_order_id = n[j].client_order_id
      PROVE  i = j
  <2>1. i \in 1..Len(r) /\ j \in 1..Len(r)
    BY <1>7
  <2>2. n[i].client_order_id = NewId(r[i], price) /\ n[j].client_order_id = NewId(r[j], price)
    <3>1. \A id, s, p : OrderRequest(id, s, p).client_order_id = id
      BY DEF OrderRequest
    <3>2. /\ n[i] = OrderRequest(NewId(r[i], price), r[i], TargetPrice(r[i], price))
          /\ n[j] = OrderRequest(NewId(r[j], price), r[j], TargetPrice(r[j], price))
      BY <2>1, <1>7, Zenon
    <3> QED BY <3>1, <3>2
  <2>3. r[i] = r[j]
    BY <2>1, <2>2, <1>2, <1>3, <1>5, <1>9, Zenon
  <2> QED BY <2>1, <2>3, <1>2 DEF NoDuplicates
<1>10. PICK st, K : K = {side \in Sides : quote[side] # NoQuote} /\ st = Sift(r, K)
  OBVIOUS
<1>11. st \in Seq(Sides) /\ ToSet(st) = D \cap K
  BY <1>2, <1>10, SiftSet
<1>12. /\ \A i \in 1..Len(st) : st[i] \in D \cap K
       /\ \A s \in D \cap K : \E i \in 1..Len(st) : s = st[i]
  BY <1>11, ToSetMember
<1>13. c = [i \in 1..Len(st) |-> CancelRequest(quote[st[i]].id)]
  BY <1>1, <1>10 DEF Cancels
<1>14. ASSUME NEW s \in D \cap K PROVE CancelRequest(quote[s].id) \in CancelMsgs
  <2>1. quote[s].id \in OrderIds
    BY <1>3, <1>10 DEF QuoterOK
  <2> QED BY <2>1 DEF CancelRequest, CancelMsgs
<1>15. /\ c \in Seq(CancelMsgs) /\ Len(c) = Len(st)
       /\ \A i \in 1..Len(st) : c[i] = CancelRequest(quote[st[i]].id)
  <2>1. \A i \in 1..Len(st) : CancelRequest(quote[st[i]].id) \in CancelMsgs
    BY <1>12, <1>14, Zenon
  <2>2. Len(st) \in Nat
    BY <1>11
  <2> QED BY <2>1, <2>2, <1>13, FunctionIsSeq
<1>16. ToSet(c) = {CancelRequest(quote[s].id) : s \in D \cap K}
  <2>1. \A x : x \in ToSet(c) <=> \E i \in 1..Len(st) : x = c[i]
    BY <1>15, ToSetMember
  <2>2. ASSUME NEW x \in ToSet(c) PROVE \E s \in D \cap K : x = CancelRequest(quote[s].id)
    <3>1. PICK i \in 1..Len(st) : x = c[i]
      BY <2>1
    <3>2. st[i] \in D \cap K /\ x = CancelRequest(quote[st[i]].id)
      BY <3>1, <1>12, <1>15, Zenon
    <3> QED BY <3>2, Zenon
  <2>3. ASSUME NEW s \in D \cap K PROVE CancelRequest(quote[s].id) \in ToSet(c)
    <3>1. PICK i \in 1..Len(st) : s = st[i]
      BY <1>12
    <3>2. c[i] = CancelRequest(quote[s].id)
      BY <3>1, <1>15, Zenon
    <3> QED BY <3>2, <2>1, Zenon
  <2> QED BY <2>2, <2>3, Zenon
<1>17. D \cap K = {t \in Sides : Drifted(t, price) /\ quote[t] # NoQuote}
  BY <1>1, <1>10
<1>18. \A i, j \in 1..Len(n) : n[i].client_order_id = n[j].client_order_id => i = j
  BY <1>9, Zenon
<1> QED BY <1>1, <1>7, <1>8, <1>15, <1>16, <1>17, <1>18, Zenon

LEMMA TickKeepsQuoter ==
    ASSUME QuoterOK, NEW price \in FeedPrices, Tick(price)
    PROVE  QuoterOK'
<1>1. PICK k, n, c : k = Len(Requoted(price)) /\ n = NewOrders(price) /\ c = Cancels(price)
  OBVIOUS
<1>2. /\ k \in 0..2
      /\ \A s \in Sides : /\ TargetPrice(s, price) \in Prices
                          /\ Drifted(s, price) => NewId(s, price) \in next_id..(next_id + k - 1)
      /\ \A s, t \in Sides :
            Drifted(s, price) /\ Drifted(t, price) /\ NewId(s, price) = NewId(t, price) => s = t
  BY <1>1, TickFacts, Zenon
<1>3. /\ ticks_done \in Nat /\ MaxTicks \in Nat /\ ticks_done < MaxTicks /\ next_id \in 1..(2 * ticks_done + 1)
      /\ ticks_done' = ticks_done + 1 /\ next_id' = next_id + k /\ pc' = "send" /\ others' = others
      /\ actions' = n \o c
  BY <1>1, SessionAssumption DEF QuoterOK, Tick, wireVars
<1>4. /\ n \in Seq(NewOrderMsgs) /\ c \in Seq(CancelMsgs)
      /\ ToSet(n) = {OrderRequest(NewId(s, price), s, TargetPrice(s, price)) :
                        s \in {t \in Sides : Drifted(t, price)}}
      /\ ToSet(c) = {CancelRequest(quote[s].id) :
                        s \in {t \in Sides : Drifted(t, price) /\ quote[t] # NoQuote}}
  BY <1>1, <1>3, TickSends, Zenon
<1>5. ticks_done' \in 0..MaxTicks /\ next_id' \in 1..(2 * ticks_done' + 1) /\ next_id \in Nat
  BY <1>2, <1>3
<1>6. \A s \in Sides : quote'[s] = IF Drifted(s, price)
                                    THEN [id |-> NewId(s, price), price |-> TargetPrice(s, price)]
                                    ELSE quote[s]
  BY DEF Tick
<1>7. ASSUME NEW s \in Sides, Drifted(s, price)
      PROVE  /\ quote'[s].id = NewId(s, price) /\ NewId(s, price) \in 1..(next_id' - 1)
             /\ NewId(s, price) >= next_id
             /\ quote'[s] \in [id : OrderIds, price : Prices]
  <2>1. NewId(s, price) \in next_id..(next_id + k - 1)
    BY <1>2, <1>7
  <2>2. NewId(s, price) \in 1..(2 * MaxTicks) /\ NewId(s, price) \in 1..(next_id' - 1) /\ NewId(s, price) >= next_id
    BY <2>1, <1>2, <1>3
  <2>3. NewId(s, price) \in OrderIds /\ TargetPrice(s, price) \in Prices
    BY <2>2, <1>2, OwnIdsAssumption
  <2>4. quote'[s] = [id |-> NewId(s, price), price |-> TargetPrice(s, price)]
    BY <1>6, <1>7, Zenon
  <2>5. quote'[s] \in [id : OrderIds, price : Prices] /\ quote'[s].id = NewId(s, price)
    BY <2>3, <2>4
  <2> QED BY <2>2, <2>5
<1>8. quote' \in [Sides -> [id : OrderIds, price : Prices] \cup {NoQuote}]
  <2>1. \A s \in Sides : quote'[s] \in [id : OrderIds, price : Prices] \cup {NoQuote}
    BY <1>6, <1>7 DEF QuoterOK
  <2> QED BY <2>1 DEF Tick
<1>9. \A s \in Sides : quote'[s] # NoQuote => quote'[s].id \in 1..(next_id' - 1)
  <2>1. ASSUME NEW s \in Sides, quote'[s] # NoQuote, ~Drifted(s, price)
        PROVE  quote'[s].id \in 1..(next_id' - 1)
    <3>1. quote'[s] = quote[s] /\ quote[s].id \in 1..(next_id - 1)
      BY <2>1, <1>6 DEF QuoterOK
    <3>2. PICK x : x = quote[s].id
      OBVIOUS
    <3>3. x \in 1..(next_id - 1) /\ next_id \in Nat /\ k \in Nat
      BY <3>1, <3>2, <1>2, <1>5
    <3>4. x \in 1..(next_id + k - 1)
      BY <3>3
    <3>5. next_id' = next_id + k
      BY <1>3
    <3>6. x \in 1..(next_id' - 1)
      BY <3>3, <3>4, <3>5
    <3>7. quote'[s].id = x
      BY <3>1, <3>2, Zenon
    <3> QED BY <3>6, <3>7, Zenon
  <2> QED BY <2>1, <1>7
<1>10. ASSUME NEW s \in Sides, NEW t \in Sides, quote'[s] # NoQuote, quote'[t] # NoQuote,
              quote'[s].id = quote'[t].id
       PROVE  s = t
  <2>1. ASSUME NEW u \in Sides, NEW v \in Sides, Drifted(u, price), ~Drifted(v, price), quote'[v] # NoQuote
        PROVE  quote'[u].id # quote'[v].id
    <3>1. quote'[v] = quote[v] /\ quote[v].id \in 1..(next_id - 1)
      BY <2>1, <1>6 DEF QuoterOK
    <3>2. quote'[u].id \in Int /\ quote'[u].id >= next_id
      BY <2>1, <1>7
    <3> QED BY <3>1, <3>2, <1>5
  <2>2. CASE Drifted(s, price) /\ Drifted(t, price)
    BY <2>2, <1>2, <1>7, <1>10
  <2>3. CASE ~Drifted(s, price) /\ ~Drifted(t, price)
    BY <2>3, <1>6, <1>10 DEF QuoterOK
  <2> QED BY <2>1, <2>2, <2>3, <1>10
<1>11. actions' \in Seq(RequestMsgs) /\ ToSet(actions') = ToSet(n) \cup ToSet(c)
  <2>1. n \in Seq(RequestMsgs) /\ c \in Seq(RequestMsgs)
    BY <1>4 DEF RequestMsgs
  <2>2. Cat(n, c) \in Seq(RequestMsgs) /\ ToSet(Cat(n, c)) = ToSet(n) \cup ToSet(c)
    BY <2>1, CatLaws
  <2> QED BY <2>2, <1>3 DEF Cat
<1>12. ASSUME NEW a \in ToSet(actions') PROVE a.client_order_id \in 1..(next_id' - 1)
  <2>1. CASE a \in ToSet(n)
    <3>1. PICK s \in Sides : Drifted(s, price) /\ a = OrderRequest(NewId(s, price), s, TargetPrice(s, price))
      BY <2>1, <1>4
    <3> QED BY <3>1, <1>7 DEF OrderRequest
  <2>2. CASE a \in ToSet(c)
    <3>1. PICK s \in Sides : quote[s] # NoQuote /\ a = CancelRequest(quote[s].id)
      BY <2>2, <1>4
    <3>2. quote[s].id \in 1..(next_id - 1) /\ a.client_order_id = quote[s].id
      BY <3>1 DEF QuoterOK, CancelRequest
    <3> QED BY <3>2, <1>2, <1>3, <1>5
  <2> QED BY <2>1, <2>2, <1>11
<1> QED BY <1>3, <1>5, <1>8, <1>9, <1>10, <1>11, <1>12 DEF QuoterOK

LEMMA PollKeepsQuoter ==
    ASSUME QuoterOK, PollEvents
    PROVE  QuoterOK'
<1>1. \A s \in Sides : quote'[s] = NoQuote \/ quote'[s] = quote[s]
  BY DEF PollEvents, on_fills
<1>2. quote' \in [Sides -> [id : OrderIds, price : Prices] \cup {NoQuote}]
  <2>1. \A s \in Sides : quote'[s] \in [id : OrderIds, price : Prices] \cup {NoQuote}
    BY <1>1 DEF QuoterOK
  <2> QED BY <2>1 DEF PollEvents, on_fills
<1>3. /\ next_id' = next_id /\ ticks_done' = ticks_done /\ actions' = actions /\ others' = others
      /\ pc \in {"poll", "final"} /\ pc' \in {"tick", "final"}
  BY DEF PollEvents
<1> QED BY <1>1, <1>2, <1>3 DEF QuoterOK

LEMMA SendKeepsQuoter ==
    ASSUME QuoterOK, Send
    PROVE  QuoterOK'
<1>1. /\ quote' = quote /\ next_id' = next_id /\ ticks_done' = ticks_done /\ others' = others
      /\ pc' = pc /\ pc = "send" /\ actions # <<>> /\ actions' = Tail(actions)
  BY DEF Send
<1>2. Tail(actions) \in Seq(RequestMsgs) /\ ToSet(Tail(actions)) \subseteq ToSet(actions)
  BY <1>1, TailSet DEF QuoterOK
<1> QED BY <1>1, <1>2 DEF QuoterOK

LEMMA NextQuoter ==
    ASSUME QuoterOK, [MCNext]_<<vars, hvars>>
    PROVE  QuoterOK'
<1>1. ASSUME sessionVars' = sessionVars, others' \subseteq others PROVE QuoterOK'
  BY <1>1 DEF QuoterOK, sessionVars
<1>2. ASSUME NEW price \in FeedPrices, Tick(price) PROVE QuoterOK'
  BY <1>2, TickKeepsQuoter
<1>3. CASE Send
  BY <1>3, SendKeepsQuoter
<1>4. CASE PollEvents
  BY <1>4, PollKeepsQuoter
<1>5. ASSUME LoopEnds \/ SendDone \/ SendRaises \/ PollTimesOut PROVE QuoterOK'
  <2>1. /\ quote' = quote /\ next_id' = next_id /\ ticks_done' = ticks_done /\ others' = others
        /\ actions' = actions /\ pc' \in {"tick", "poll", "final", "closed"}
        /\ pc \in {"send", "closed"} => pc' \in {"send", "closed"} \/ actions = <<>>
    BY <1>5 DEF LoopEnds, SendDone, SendRaises, PollTimesOut, wireVars
  <2> QED BY <2>1 DEF QuoterOK
<1>6. ASSUME ReaderStep \/ ServeNewOrder \/ ServeCancel \/ Trade \/ Answer \/ (\E o \in Others : OtherSubmits(o))
      PROVE  QuoterOK'
  <2>1. sessionVars' = sessionVars /\ others' \subseteq others
    BY <1>6 DEF ReaderStep, ReadTag, ReadPayload, ServeNewOrder, ServeCancel, Trade, Answer, OtherSubmits, wireVars
  <2> QED BY <2>1, <1>1
<1>7. CASE UNCHANGED <<vars, hvars>>
  <2>1. sessionVars' = sessionVars /\ others' = others
    BY <1>7 DEF vars, wireVars
  <2> QED BY <2>1, <1>1
<1> QED BY <1>2, <1>3, <1>4, <1>5, <1>6, <1>7
        DEF MCNext, MCMainStep, MCServerStep, MCReaderStep, MCPollEvents, MCServeCancel, MCAnswer

-----------------------------------------------------------------------------
(* The two directions of the connection. *)

(* What the reader has in hand and what it has still to read.              *)
Unread == (IF reader = "payload" THEN << tag_byte >> ELSE <<>>) \o to_client

(* The requests on their way to the server are reqs, the answers that the  *)
(* reader has not put into the queue yet are msgs.                         *)
WireOK(reqs, msgs) ==
    /\ Carries(to_server, RequestCode, RequestMsgs, reqs)
    /\ to_client \in Bytes
    /\ reader \in {"tag", "payload"}
    /\ reader = "payload" => tag_byte \in {FILL, ACK}
    /\ Carries(Unread, AnswerCode, AnswerMsgs, msgs)
    /\ events \in Seq(AnswerMsgs)
    /\ answers = events \o msgs

LEMMA BytesShifted ==
    ASSUME NEW x \in Byte, NEW t \in Bytes, NEW s, s = Cat(One(x), t)
    PROVE  /\ s \in Bytes /\ Len(s) = Len(t) + 1 /\ Len(t) \in Nat /\ s # <<>> /\ Head(s) = x
           /\ \A n \in 0..Len(t) : /\ SubSeq(s, 2, n + 1) = SubSeq(t, 1, n)
                                   /\ SubSeq(s, n + 2, Len(s)) = SubSeq(t, n + 1, Len(t))
<1>1. PICK o : o = <<x>>
  OBVIOUS
<1>2. o \in Seq(Byte) /\ Len(o) = 1 /\ o[1] = x /\ t \in Seq(Byte) /\ Len(t) \in Nat
  BY <1>1 DEF Bytes
<1>3. s = o \o t
  BY <1>1, Zenon DEF Cat, One
<1>4. /\ s \in Seq(Byte) /\ Len(s) = Len(o) + Len(t)
      /\ \A i \in 1..Len(o) : s[i] = o[i]
      /\ \A i \in 1..Len(t) : s[Len(o) + i] = t[i]
  <2>1. o \in Seq(Byte) /\ t \in Seq(Byte)
    BY <1>2
  <2>2. /\ o \o t \in Seq(Byte) /\ Len(o \o t) = Len(o) + Len(t)
        /\ \A i \in 1..Len(o) : (o \o t)[i] = o[i]
        /\ \A i \in 1..Len(t) : (o \o t)[Len(o) + i] = t[i]
    BY <2>1, ConcatFacts
  <2> QED BY <2>2, <1>3
<1>5. Len(s) = Len(t) + 1 /\ s[1] = x /\ \A i \in 1..Len(t) : s[i + 1] = t[i]
  <2>1. ASSUME NEW i \in 1..Len(t) PROVE s[i + 1] = t[i]
    <3>1. Len(o) + i = i + 1
      BY <1>2
    <3> QED BY <3>1, <1>4
  <2>2. Len(s) = Len(t) + 1 /\ s[1] = x
    BY <1>2, <1>4
  <2> QED BY <2>1, <2>2
<1>6. ASSUME NEW m \in 1..(Len(t) + 1), NEW n \in 0..Len(t)
      PROVE  SubSeq(s, m + 1, n + 1) = SubSeq(t, m, n)
  <2>1. PICK u, v : u = SubSeq(s, m + 1, n + 1) /\ v = SubSeq(t, m, n)
    OBVIOUS
  <2>2. (\A i \in (m + 1)..(n + 1) : s[i] \in Byte) /\ (\A i \in m..n : t[i] \in Byte)
    <3>1. (\A i \in (m + 1)..(n + 1) : i \in 1..Len(s)) /\ (\A i \in m..n : i \in 1..Len(t))
      BY <1>2, <1>5
    <3> QED BY <3>1, <1>2, <1>4, ElementOfSeq
  <2>3. m + 1 \in Int /\ n + 1 \in Int /\ m \in Int /\ n \in Int
    BY <1>2
  <2>4. /\ u \in Seq(Byte) /\ Len(u) = IF m + 1 <= n + 1 THEN n + 1 - (m + 1) + 1 ELSE 0
        /\ \A i \in 1..(n + 1 - (m + 1) + 1) : u[i] = s[m + 1 + i - 1]
    BY <2>1, <2>2, <2>3, SubSeqProperties
  <2>5. /\ v \in Seq(Byte) /\ Len(v) = IF m <= n THEN n - m + 1 ELSE 0
        /\ \A i \in 1..(n - m + 1) : v[i] = t[m + i - 1]
    BY <2>1, <2>2, <2>3, SubSeqProperties
  <2>6. Len(u) = Len(v)
    BY <2>3, <2>4, <2>5
  <2>7. ASSUME NEW i \in 1..Len(u) PROVE u[i] = v[i]
    <3>1. /\ i \in 1..(n - m + 1) /\ i \in 1..(n + 1 - (m + 1) + 1)
          /\ m + i - 1 \in 1..Len(t) /\ m + 1 + i - 1 = (m + i - 1) + 1
      BY <2>3, <2>4, <1>2
    <3>2. PICK k \in 1..Len(t) : k = m + i - 1
      BY <3>1
    <3>3. v[i] = t[k] /\ u[i] = s[k + 1]
      BY <3>1, <3>2, <2>4, <2>5
    <3> QED BY <3>3, <1>5
  <2>8. u = v
    BY <2>4, <2>5, <2>6, <2>7, SeqEqual
  <2> QED BY <2>1, <2>8
<1>7. s \in Bytes /\ s # <<>> /\ Head(s) = x
  BY <1>2, <1>4, <1>5 DEF Bytes
<1>8. ASSUME NEW n \in 0..Len(t)
      PROVE  /\ SubSeq(s, 2, n + 1) = SubSeq(t, 1, n)
             /\ SubSeq(s, n + 2, Len(s)) = SubSeq(t, n + 1, Len(t))
  <2>1. /\ 1 \in 1..(Len(t) + 1) /\ n + 1 \in 1..(Len(t) + 1) /\ Len(t) \in 0..Len(t)
        /\ 1 + 1 = 2 /\ (n + 1) + 1 = n + 2
    BY <1>2
  <2>2. SubSeq(s, 1 + 1, n + 1) = SubSeq(t, 1, n)
    BY <2>1, <1>6, Zenon
  <2>3. SubSeq(s, (n + 1) + 1, Len(t) + 1) = SubSeq(t, n + 1, Len(t))
    BY <2>1, <1>6, Zenon
  <2> QED BY <2>1, <2>2, <2>3, <1>5, Zenon
<1> QED BY <1>2, <1>5, <1>7, <1>8

LEMMA UnreadIs ==
    ASSUME to_client \in Bytes
    PROVE  Unread = IF reader = "payload" THEN Cat(One(tag_byte), to_client) ELSE to_client
<1>1. Cat(<<>>, to_client) = to_client
  BY CatLaws DEF Bytes
<1> QED BY <1>1, Zenon DEF Unread, Cat, One

LEMMA UnreadIsAfter ==
    ASSUME to_client' \in Bytes
    PROVE  Unread' = IF reader' = "payload" THEN Cat(One(tag_byte'), to_client') ELSE to_client'
<1>1. Cat(<<>>, to_client') = to_client'
  BY CatLaws DEF Bytes
<1> QED BY <1>1, Zenon DEF Unread, Cat, One

(* A step that leaves the connection alone.                                *)
LEMMA WireStays ==
    ASSUME NEW reqs, NEW msgs, WireOK(reqs, msgs), events' = events, answers' = answers,
           to_server' = to_server, to_client' = to_client, reader' = reader, tag_byte' = tag_byte
    PROVE  WireOK(reqs, msgs)'
BY DEF WireOK, Unread

LEMMA SendWire ==
    ASSUME QuoterOK, NEW reqs, NEW msgs, WireOK(reqs, msgs), Send, answers' = answers,
           NEW r1, r1 = reqs \o << Head(actions) >>
    PROVE  WireOK(r1, msgs)'
<1>1. Head(actions) \in RequestMsgs
  BY TailSet DEF QuoterOK, Send
<1>2. PICK a \in RequestMsgs : a = Head(actions)
  BY <1>1
<1>3. RequestCode[a] = IF a.tag = "NewOrder" THEN encode_new_order(a) ELSE encode_cancel(a)
  BY Zenon DEF RequestCode
<1>4. to_server' = to_server \o RequestCode[a]
  BY <1>2, <1>3, Zenon DEF Send
<1>5. Carries(RequestCode[a], RequestCode, RequestMsgs, <<a>>)
  BY CodingsAre, CarriesOne, Zenon
<1>6. Carries(to_server, RequestCode, RequestMsgs, reqs)
  BY DEF WireOK
<1>7. Carries(to_server \o RequestCode[a], RequestCode, RequestMsgs, reqs \o <<a>>)
  BY <1>5, <1>6, CodingsAre, CarriesBoth, Zenon
<1>8. Carries(to_server', RequestCode, RequestMsgs, r1)
  BY <1>2, <1>4, <1>7, Zenon
<1>9. to_client' = to_client /\ reader' = reader /\ tag_byte' = tag_byte /\ events' = events
  BY DEF Send, readerVars
<1> QED BY <1>8, <1>9 DEF WireOK, Unread

LEMMA PollWire ==
    ASSUME NEW reqs, NEW msgs, WireOK(reqs, msgs), MCPollEvents
    PROVE  WireOK(reqs, msgs)' /\ answers' = msgs
<1>1. /\ events' = <<>> /\ to_server' = to_server /\ to_client' = to_client
      /\ reader' = reader /\ tag_byte' = tag_byte
      /\ answers' = SubSeq(answers, Len(events) + 1, Len(answers))
  BY DEF MCPollEvents, PollEvents, readerVars
<1>2. PICK e, s : e = events /\ s = answers
  OBVIOUS
<1>3. e \in Seq(AnswerMsgs) /\ msgs \in Seq(AnswerMsgs) /\ s = e \o msgs
  BY <1>2 DEF WireOK, Carries
<1>4. SubSeq(s, Len(e) + 1, Len(s)) = msgs
  <2>1. /\ s \in Seq(AnswerMsgs) /\ Len(e) \in Nat /\ Len(msgs) \in Nat /\ Len(s) = Len(e) + Len(msgs)
        /\ \A i \in 1..Len(msgs) : s[Len(e) + i] = msgs[i]
    BY <1>3, ConcatFacts
  <2>1a. PICK k, n : k = Len(e) /\ n = Len(s)
    OBVIOUS
  <2>1b. PICK r : r = SubSeq(s, k + 1, n)
    OBVIOUS
  <2>2. k \in Nat /\ n \in Nat /\ k = Len(e) /\ n = Len(s) /\ r = SubSeq(s, k + 1, n)
    BY <2>1, <2>1a, <2>1b
  <2>3. \A i \in (k + 1)..n : s[i] \in AnswerMsgs
    <3>1. \A i \in (k + 1)..n : i \in 1..Len(s)
      BY <2>2
    <3> QED BY <3>1, <2>1, ElementOfSeq
  <2>4. /\ r \in Seq(AnswerMsgs) /\ Len(r) = IF k + 1 <= n THEN n - (k + 1) + 1 ELSE 0
        /\ \A i \in 1..(n - (k + 1) + 1) : r[i] = s[k + 1 + i - 1]
    <3>1. k + 1 \in Int /\ n \in Int
      BY <2>2
    <3> QED BY <3>1, <2>2, <2>3, SubSeqProperties
  <2>5. Len(r) = Len(msgs)
    BY <2>1, <2>2, <2>4
  <2>6. ASSUME NEW i \in 1..Len(r) PROVE r[i] = msgs[i]
    <3>1. i \in 1..(n - (k + 1) + 1) /\ k + 1 + i - 1 = Len(e) + i /\ i \in 1..Len(msgs)
      BY <2>1, <2>2, <2>5
    <3> QED BY <3>1, <2>1, <2>4
  <2>7. r = msgs
    BY <1>3, <2>4, <2>5, <2>6, SeqEqual
  <2> QED BY <2>2, <2>7
<1>5. answers' = msgs /\ <<>> \o msgs = msgs
  BY <1>1, <1>2, <1>3, <1>4, ConcatEmptySeq
<1>6. events' \in Seq(AnswerMsgs) /\ answers' = events' \o msgs
  BY <1>1, <1>5, EmptySeq
<1> QED BY <1>1, <1>5, <1>6 DEF WireOK, Unread

LEMMA ReadTagWire ==
    ASSUME NEW reqs, NEW msgs, WireOK(reqs, msgs), ReadTag, answers' = answers
    PROVE  WireOK(reqs, msgs)'
<1>1. /\ reader = "tag" /\ to_client # <<>> /\ tag_byte' = Head(to_client)
      /\ to_client' = Tail(to_client) /\ to_server' = to_server /\ events' = events
      /\ reader' = IF tag_byte' \in DOMAIN PAYLOAD_SIZE THEN "payload" ELSE "dead"
  BY DEF ReadTag
<1>2. to_client \in Bytes /\ Unread = to_client /\ Carries(Unread, AnswerCode, AnswerMsgs, msgs)
  BY <1>1, UnreadIs, Zenon DEF WireOK
<1>3. PICK b : b = AnswerCode[Head(msgs)] /\ Head(msgs) \in AnswerMsgs /\ Head(to_client) = b[1]
  <2>1. PICK s : s = to_client
    OBVIOUS
  <2>2. s # <<>> /\ Carries(s, AnswerCode, AnswerMsgs, msgs)
    BY <2>1, <1>1, <1>2, Zenon
  <2>3. PICK b : /\ b = AnswerCode[Head(msgs)] /\ Head(msgs) \in AnswerMsgs
                 /\ Head(s) = b[1] /\ Len(b) = kMsgSize[b[1]] + 1
                 /\ SubSeq(s, 2, Len(b)) = Tail(b)
                 /\ Carries(SubSeq(s, Len(b) + 1, Len(s)), AnswerCode, AnswerMsgs, Tail(msgs))
    BY <2>2, CodingsAre, CarriesFirst, Zenon
  <2> QED BY <2>1, <2>3, Zenon
<1>4. Head(to_client) \in {FILL, ACK}
  BY <1>3, AnswerCoded, Zenon
<1>5. reader' = "payload" /\ tag_byte' \in {FILL, ACK}
  BY <1>1, <1>4, SizesAgree
<1>6. Tail(to_client) \in Bytes /\ to_client = Cat(One(Head(to_client)), Tail(to_client))
  BY <1>1, <1>2, HeadCatTail DEF Bytes
<1>7. to_client' \in Bytes /\ Unread' = to_client
  BY <1>1, <1>5, <1>6, UnreadIsAfter, Zenon
<1>8. Carries(Unread', AnswerCode, AnswerMsgs, msgs)
  BY <1>2, <1>7, Zenon
<1> QED BY <1>1, <1>5, <1>7, <1>8 DEF WireOK

LEMMA ReadPayloadWire ==
    ASSUME NEW reqs, NEW msgs, WireOK(reqs, msgs), ReadPayload, answers' = answers
    PROVE  WireOK(reqs, Tail(msgs))'
<1>1. PICK tag, t, n : tag = tag_byte /\ t = to_client /\ n = PAYLOAD_SIZE[tag]
  OBVIOUS
<1>2. reader = "payload" /\ tag \in {FILL, ACK} /\ t \in Bytes
  BY <1>1 DEF ReadPayload, WireOK
<1>3. /\ Len(t) >= n /\ to_client' = SubSeq(t, n + 1, Len(t))
      /\ events' = Append(events, decode_event(tag, SubSeq(t, 1, n))) /\ reader' = "tag"
      /\ to_server' = to_server
  BY <1>1, <1>2 DEF ReadPayload
<1>4. n = kMsgSize[tag] /\ n \in Nat /\ tag \in Byte
  BY <1>1, <1>2, SizesAgree DEF FILL, ACK, Byte
<1>5. PICK s : s = Cat(One(tag), t)
  OBVIOUS
<1>6. /\ s \in Bytes /\ Len(s) = Len(t) + 1 /\ Len(t) \in Nat /\ s # <<>> /\ Head(s) = tag
      /\ \A k \in 0..Len(t) : /\ SubSeq(s, 2, k + 1) = SubSeq(t, 1, k)
                              /\ SubSeq(s, k + 2, Len(s)) = SubSeq(t, k + 1, Len(t))
  BY <1>2, <1>4, <1>5, BytesShifted, Zenon
<1>7. Unread = s /\ Carries(s, AnswerCode, AnswerMsgs, msgs)
  BY <1>1, <1>2, <1>5, UnreadIs, Zenon DEF WireOK
<1>8. msgs # <<>> /\ msgs \in Seq(AnswerMsgs)
  <2>1. msgs # <<>>
    BY <1>6, <1>7, CodingsAre, CarriesFirst, Zenon
  <2> QED BY <2>1, <1>7 DEF Carries
<1>9. PICK b : /\ b = AnswerCode[Head(msgs)] /\ Head(msgs) \in AnswerMsgs
               /\ Head(s) = b[1] /\ Len(b) = kMsgSize[b[1]] + 1
               /\ SubSeq(s, 2, Len(b)) = Tail(b)
               /\ Carries(SubSeq(s, Len(b) + 1, Len(s)), AnswerCode, AnswerMsgs, Tail(msgs))
  BY <1>6, <1>7, CodingsAre, CarriesFirst, Zenon
<1>10. Len(b) = n + 1 /\ (n + 1) + 1 = n + 2 /\ n \in 0..Len(t)
  <2>1. Len(b) = n + 1
    BY <1>4, <1>6, <1>9, Zenon
  <2> QED BY <2>1, <1>3, <1>4, <1>6
<1>11. SubSeq(t, 1, n) = Tail(b)
  BY <1>6, <1>9, <1>10, Zenon
<1>12. Carries(to_client', AnswerCode, AnswerMsgs, Tail(msgs))
  <2>1. SubSeq(s, Len(b) + 1, Len(s)) = SubSeq(t, n + 1, Len(t))
    BY <1>6, <1>10, Zenon
  <2> QED BY <2>1, <1>3, <1>9, Zenon
<1>13. decode_event(tag, Tail(b)) = Head(msgs)
  <2>1. Head(b) = b[1] /\ decode_event(Head(b), Tail(b)) = Head(msgs)
    BY <1>9, AnswerCoded, Zenon
  <2> QED BY <2>1, <1>6, <1>9, Zenon
<1>14. events' = Append(events, Head(msgs))
  BY <1>3, <1>11, <1>13, Zenon
<1>15. to_client' \in Bytes /\ Unread' = to_client'
  <2>1. to_client' \in Bytes
    BY <1>12 DEF Carries
  <2>2. reader' # "payload"
    BY <1>3
  <2> QED BY <2>1, <2>2, UnreadIsAfter, Zenon
<1>16. events' \in Seq(AnswerMsgs) /\ answers' = events' \o Tail(msgs)
  <2>1. PICK e, e1, o, h, r : e = events /\ e1 = events' /\ h = Head(msgs) /\ o = One(h) /\ r = Tail(msgs)
    OBVIOUS
  <2>2. e \in Seq(AnswerMsgs) /\ h \in AnswerMsgs /\ r \in Seq(AnswerMsgs) /\ msgs = Cat(o, r)
        /\ answers = Cat(e, msgs)
    <3>1. h \in AnswerMsgs /\ r \in Seq(AnswerMsgs) /\ msgs = Cat(o, r)
      BY <2>1, <1>8, HeadCatTail
    <3> QED BY <2>1, <3>1, Zenon DEF WireOK, Cat
  <2>3. o \in Seq(AnswerMsgs) /\ e1 = Cat(e, o)
    <3>1. One(h) \in Seq(AnswerMsgs) /\ Append(e, h) = Cat(e, One(h))
      BY <2>2, OneLaws
    <3> QED BY <2>1, <3>1, <1>14, Zenon
  <2>4. Cat(Cat(e, o), r) = Cat(e, Cat(o, r)) /\ Cat(e, o) \in Seq(AnswerMsgs)
    BY <2>2, <2>3, CatAssociates, CatLaws
  <2>5. answers = Cat(e1, r) /\ e1 \in Seq(AnswerMsgs)
    BY <2>2, <2>3, <2>4, Zenon
  <2> QED BY <2>1, <2>5 DEF Cat
<1>17. Carries(Unread', AnswerCode, AnswerMsgs, Tail(msgs))
  BY <1>12, <1>15, Zenon
<1> QED BY <1>3, <1>15, <1>16, <1>17 DEF WireOK

(* The request that the server reads is the first one of the connection.   *)
LEMMA FirstRequest ==
    ASSUME NEW reqs, Carries(to_server, RequestCode, RequestMsgs, reqs),
           NEW tag \in {NEW_ORDER, CANCEL}, Requested(tag)
    PROVE  /\ reqs # <<>> /\ Head(reqs) \in RequestMsgs
           /\ RequestCode[Head(reqs)][1] = tag /\ Body(tag) = Tail(RequestCode[Head(reqs)])
           /\ Carries(Rest(tag), RequestCode, RequestMsgs, Tail(reqs))
<1>1. PICK s : s = to_server
  OBVIOUS
<1>2. s # <<>> /\ Head(s) = tag /\ Carries(s, RequestCode, RequestMsgs, reqs)
  BY <1>1 DEF Requested
<1>3. reqs # <<>>
  BY <1>2, CodingsAre, CarriesFirst, Zenon
<1>4. PICK b : /\ b = RequestCode[Head(reqs)] /\ Head(reqs) \in RequestMsgs
               /\ Head(s) = b[1] /\ Len(b) = kMsgSize[b[1]] + 1
               /\ SubSeq(s, 2, Len(b)) = Tail(b)
               /\ Carries(SubSeq(s, Len(b) + 1, Len(s)), RequestCode, RequestMsgs, Tail(reqs))
  BY <1>2, CodingsAre, CarriesFirst, Zenon
<1>5. Len(b) = kMsgSize[tag] + 1 /\ b[1] = tag /\ (kMsgSize[tag] + 1) + 1 = kMsgSize[tag] + 2
  <2>1. Len(b) = kMsgSize[tag] + 1 /\ b[1] = tag
    BY <1>2, <1>4, Zenon
  <2>2. kMsgSize[tag] \in Nat
    BY SizesAgree
  <2> QED BY <2>1, <2>2
<1>6. Body(tag) = Tail(b)
  BY <1>1, <1>4, <1>5, Zenon DEF Body
<1>7. Rest(tag) = SubSeq(s, Len(b) + 1, Len(s))
  BY <1>1, <1>5, Zenon DEF Rest
<1> QED BY <1>3, <1>4, <1>5, <1>6, <1>7, Zenon

LEMMA ServeNewOrderWire ==
    ASSUME NEW reqs, NEW msgs, WireOK(reqs, msgs), ServeNewOrder, answers' = answers
    PROVE  /\ WireOK(Tail(reqs), msgs)'
           /\ reqs # <<>>
           /\ \E m \in NewOrderMsgs :
                 /\ m = Head(reqs)
                 /\ SubmitBegin(m.client_order_id, m.side, m.order_type, m.price_ticks, m.quantity)
<1>1. /\ Requested(NEW_ORDER) /\ to_server' = Rest(NEW_ORDER)
      /\ to_client' = to_client /\ reader' = reader /\ tag_byte' = tag_byte /\ events' = events
  BY DEF ServeNewOrder, readerVars
<1>2. Carries(to_server, RequestCode, RequestMsgs, reqs)
  BY DEF WireOK
<1>3. /\ reqs # <<>> /\ Head(reqs) \in RequestMsgs
      /\ RequestCode[Head(reqs)][1] = NEW_ORDER /\ Body(NEW_ORDER) = Tail(RequestCode[Head(reqs)])
      /\ Carries(Rest(NEW_ORDER), RequestCode, RequestMsgs, Tail(reqs))
  <2>1. NEW_ORDER \in {NEW_ORDER, CANCEL}
    OBVIOUS
  <2> QED BY <2>1, <1>1, <1>2, FirstRequest, Zenon
<1>4. PICK m : m = Head(reqs)
  OBVIOUS
<1>5. NEW_ORDER # CANCEL
  BY DEF NEW_ORDER, CANCEL
<1>6. m \in NewOrderMsgs
  <2>1. m \in CancelMsgs => RequestCode[m][1] = CANCEL
    BY CancelCoded, Zenon
  <2> QED BY <2>1, <1>3, <1>4, <1>5 DEF RequestMsgs
<1>7. PICK d : d = decode_client_order(Body(NEW_ORDER))
  OBVIOUS
<1>8. d = [client_order_id |-> m.client_order_id, side |-> m.side, order_type |-> m.order_type,
           price_ticks |-> m.price_ticks, quantity |-> m.quantity]
  BY <1>3, <1>4, <1>6, <1>7, OrderCoded, Zenon
<1>9. SubmitBegin(d.client_order_id, d.side, d.order_type, d.price_ticks, d.quantity)
  BY <1>7, Zenon DEF ServeNewOrder
<1>10. /\ d.client_order_id = m.client_order_id /\ d.side = m.side /\ d.order_type = m.order_type
       /\ d.price_ticks = m.price_ticks /\ d.quantity = m.quantity
  BY <1>8
<1>11. SubmitBegin(m.client_order_id, m.side, m.order_type, m.price_ticks, m.quantity)
  BY <1>9, <1>10, Zenon
<1>12. WireOK(Tail(reqs), msgs)'
  <2>1. Carries(to_server', RequestCode, RequestMsgs, Tail(reqs))
    BY <1>1, <1>3, Zenon
  <2> QED BY <2>1, <1>1 DEF WireOK, Unread
<1> QED BY <1>3, <1>4, <1>6, <1>11, <1>12, Zenon

(* The server has given some more answers.                                 *)
LEMMA AnswersJoin ==
    ASSUME NEW reqs, NEW msgs, WireOK(reqs, msgs), NEW t, NEW ns,
           Carries(t, AnswerCode, AnswerMsgs, ns), to_client' = to_client \o t,
           reader' = reader, tag_byte' = tag_byte, events' = events, answers' = answers \o ns,
           NEW r1, Carries(to_server', RequestCode, RequestMsgs, r1)
    PROVE  WireOK(r1, msgs \o ns)'
<1>1. PICK p, c, e : p = (IF reader = "payload" THEN << tag_byte >> ELSE <<>>) /\ c = to_client /\ e = events
  OBVIOUS
<1>2. /\ c \in Bytes /\ t \in Bytes /\ e \in Seq(AnswerMsgs)
      /\ msgs \in Seq(AnswerMsgs) /\ ns \in Seq(AnswerMsgs)
      /\ Carries(Unread, AnswerCode, AnswerMsgs, msgs)
  BY <1>1 DEF WireOK, Carries
<1>3. p \in Bytes
  <2>1. reader = "payload" => tag_byte \in Byte
    BY DEF WireOK, FILL, ACK, Byte
  <2> QED BY <2>1, <1>1, EmptySeq DEF Bytes
<1>4. to_client' \in Bytes
  BY <1>1, <1>2, ConcatProperties DEF Bytes
<1>5. Unread' = Unread \o t
  <2>1. (p \o c) \o t = p \o (c \o t)
    <3>1. p \in Seq(Byte) /\ c \in Seq(Byte) /\ t \in Seq(Byte)
      BY <1>2, <1>3 DEF Bytes
    <3>2. Cat(Cat(p, c), t) = Cat(p, Cat(c, t))
      BY <3>1, CatAssociates
    <3> QED BY <3>2 DEF Cat
  <2> QED BY <2>1, <1>1, Zenon DEF Unread
<1>6. Carries(Unread', AnswerCode, AnswerMsgs, msgs \o ns)
  <2>1. Carries(Unread \o t, AnswerCode, AnswerMsgs, msgs \o ns)
    <3>1. PICK u : u = Unread
      OBVIOUS
    <3>2. Carries(u \o t, AnswerCode, AnswerMsgs, msgs \o ns)
      BY <3>1, <1>2, CodingsAre, CarriesBoth, Zenon
    <3> QED BY <3>1, <3>2, Zenon
  <2> QED BY <2>1, <1>5, Zenon
<1>7. answers' = events' \o (msgs \o ns)
  <2>1. (e \o msgs) \o ns = e \o (msgs \o ns)
    BY <1>2, ConcatAssociative
  <2> QED BY <2>1, <1>1, Zenon DEF WireOK
<1> QED BY <1>4, <1>6, <1>7 DEF WireOK

LEMMA ServeCancelWire ==
    ASSUME NEW reqs, NEW msgs, WireOK(reqs, msgs), MCServeCancel
    PROVE  /\ reqs # <<>>
           /\ \E m \in CancelMsgs : /\ m = Head(reqs)
                                    /\ CancelFound(m.client_order_id) \/ CancelNotFound(m.client_order_id)
           /\ \E ack \in AckMsgs : /\ answers' = answers \o <<ack>>
                                   /\ WireOK(Tail(reqs), msgs \o <<ack>>)'
<1>1. /\ Requested(CANCEL) /\ to_server' = Rest(CANCEL)
      /\ reader' = reader /\ tag_byte' = tag_byte /\ events' = events
  BY DEF MCServeCancel, ServeCancel, readerVars
<1>2. Carries(to_server, RequestCode, RequestMsgs, reqs) /\ msgs \in Seq(AnswerMsgs)
      /\ events \in Seq(AnswerMsgs) /\ answers = events \o msgs
  BY DEF WireOK, Carries
<1>3. /\ reqs # <<>> /\ Head(reqs) \in RequestMsgs
      /\ RequestCode[Head(reqs)][1] = CANCEL /\ Body(CANCEL) = Tail(RequestCode[Head(reqs)])
      /\ Carries(Rest(CANCEL), RequestCode, RequestMsgs, Tail(reqs))
  <2>1. CANCEL \in {NEW_ORDER, CANCEL}
    OBVIOUS
  <2> QED BY <2>1, <1>1, <1>2, FirstRequest, Zenon
<1>4. PICK m : m = Head(reqs)
  OBVIOUS
<1>5. NEW_ORDER # CANCEL
  BY DEF NEW_ORDER, CANCEL
<1>6. m \in CancelMsgs
  <2>1. m \in NewOrderMsgs => RequestCode[m][1] = NEW_ORDER
    BY OrderCoded, Zenon
  <2> QED BY <2>1, <1>3, <1>4, <1>5 DEF RequestMsgs
<1>7. PICK id : id = decode_cancel(Body(CANCEL)).client_order_id
  OBVIOUS
<1>8. id = m.client_order_id /\ id \in OrderIds
  <2>1. id = m.client_order_id
    BY <1>3, <1>4, <1>6, <1>7, CancelCoded, Zenon
  <2> QED BY <2>1, <1>6 DEF CancelMsgs
<1>9. PICK ack : ack = CancelAck(id)
  OBVIOUS
<1>10. /\ CancelFound(id) \/ CancelNotFound(id)
       /\ to_client' = to_client \o encode_ack(ack) /\ answers' = Append(answers, ack)
  BY <1>7, <1>9, Zenon DEF MCServeCancel, ServeCancel
<1>11. ack \in AckMsgs
  BY <1>8, <1>9 DEF CancelAck, AckMsg, AckMsgs
<1>12. ack \in AnswerMsgs /\ ack.tag # "Fill"
  BY <1>11 DEF AnswerMsgs, AckMsgs
<1>13. AnswerCode[ack] = encode_ack(ack)
  BY <1>12, Zenon DEF AnswerCode
<1>14. Carries(encode_ack(ack), AnswerCode, AnswerMsgs, <<ack>>)
  BY <1>12, <1>13, CodingsAre, CarriesOne, Zenon
<1>15. answers' = answers \o <<ack>>
  <2>1. PICK s : s = answers
    OBVIOUS
  <2>2. s \in Seq(AnswerMsgs)
    BY <2>1, <1>2, ConcatProperties
  <2>3. Append(s, ack) = s \o <<ack>>
    BY <2>2, <1>12, AppendIsConcat
  <2> QED BY <2>1, <2>3, <1>10, Zenon
<1>16. WireOK(Tail(reqs), msgs \o <<ack>>)'
  <2>1. Carries(to_server', RequestCode, RequestMsgs, Tail(reqs))
    BY <1>1, <1>3, Zenon
  <2> QED BY <2>1, <1>1, <1>10, <1>14, <1>15, AnswersJoin
<1> QED BY <1>3, <1>4, <1>6, <1>8, <1>10, <1>11, <1>15, <1>16, Zenon

(* The fills of a submit that the session hears of.                        *)
LEMMA OwnFillsTyped ==
    ASSUME BookInv, BookFits
    PROVE  /\ OwnFills \in Seq(FillMsgs)
           /\ \A i \in 1..Len(fills) : Own(fills[i].resting_order_id) =>
                 \E m \in ToSet(OwnFills) : m.resting_order_id = fills[i].resting_order_id
           /\ \A m \in ToSet(OwnFills) : \E i \in 1..Len(fills) : m.resting_order_id = fills[i].resting_order_id
<1>1. PICK S, mine : /\ S = {f \in ToSet(fills) : Own(incoming.id) \/ Own(f.resting_order_id)}
                     /\ mine = Sift(fills, S)
  OBVIOUS
<1>2. fills \in Seq(Fill)
  BY BookInvParts DEF LocalsOK
<1>3. mine \in Seq(Fill) /\ ToSet(mine) = ToSet(fills) \cap S
  BY <1>1, <1>2, SiftSet
<1>4. \A x : x \in ToSet(fills) <=> \E i \in 1..Len(fills) : x = fills[i]
  BY <1>2, ToSetMember
<1>5. Len(mine) \in Nat /\ \A x : x \in ToSet(mine) <=> \E i \in 1..Len(mine) : x = mine[i]
  BY <1>3, ToSetMember
<1>6. ASSUME NEW f \in ToSet(fills) PROVE FillMsg(f) \in FillMsgs
  <2>1. PICK i \in 1..Len(fills) : f = fills[i]
    BY <1>4
  <2>2. f \in Fill /\ f.quantity \in UnsignedRange(QuantityBytes) /\ f.timestamp \in 0..(2 * MaxTimestamp)
    BY <2>1, <1>2, ElementOfSeq DEF BookFits, FillsFit
  <2> QED BY <2>2 DEF FillMsg, FillMsgs, Fill
<1>7. OwnFills = [i \in 1..Len(mine) |-> FillMsg(mine[i])]
  BY <1>1, Zenon DEF OwnFills
<1>8. \A i \in 1..Len(mine) : FillMsg(mine[i]) \in FillMsgs
  BY <1>3, <1>5, <1>6
<1>9. /\ OwnFills \in Seq(FillMsgs) /\ Len(OwnFills) = Len(mine)
      /\ \A i \in 1..Len(mine) : OwnFills[i] = FillMsg(mine[i])
  BY <1>5, <1>7, <1>8, FunctionIsSeq
<1>10. \A x : x \in ToSet(OwnFills) <=> \E i \in 1..Len(mine) : x = OwnFills[i]
  BY <1>9, ToSetMember
<1>11. \A f : FillMsg(f).resting_order_id = f.resting_order_id
  BY DEF FillMsg
<1>12. ASSUME NEW i \in 1..Len(fills), Own(fills[i].resting_order_id)
       PROVE  \E m \in ToSet(OwnFills) : m.resting_order_id = fills[i].resting_order_id
  <2>1. fills[i] \in ToSet(mine)
    BY <1>1, <1>3, <1>4, <1>12
  <2>2. PICK j \in 1..Len(mine) : fills[i] = mine[j]
    BY <2>1, <1>5
  <2> QED BY <2>2, <1>9, <1>10, <1>11
<1>13. ASSUME NEW m \in ToSet(OwnFills)
       PROVE  \E i \in 1..Len(fills) : m.resting_order_id = fills[i].resting_order_id
  <2>1. PICK j \in 1..Len(mine) : m = OwnFills[j]
    BY <1>10
  <2>2. mine[j] \in ToSet(fills) /\ m = FillMsg(mine[j])
    BY <2>1, <1>3, <1>5, <1>9
  <2>3. PICK i \in 1..Len(fills) : mine[j] = fills[i]
    BY <2>2, <1>4
  <2> QED BY <2>2, <2>3, <1>11
<1> QED BY <1>9, <1>12, <1>13

LEMMA AnswerWire ==
    ASSUME BookInv, BookFits, NEW reqs, NEW msgs, WireOK(reqs, msgs), MCAnswer
    PROVE  \E ns \in Seq(AnswerMsgs) :
              /\ answers' = answers \o ns /\ WireOK(reqs, msgs \o ns)'
              /\ \A m \in ToSet(ns) : m \in AckMsgs \/ m \in ToSet(OwnFills)
              /\ ToSet(OwnFills) \subseteq ToSet(ns)
<1>1. PICK a, of, A : /\ a = (IF Own(incoming.id) THEN << AckMsg(incoming.id, NEW_ORDER, 0) >> ELSE <<>>)
                      /\ A = (IF Own(incoming.id) THEN encode_ack(AckMsg(incoming.id, NEW_ORDER, 0)) ELSE <<>>)
                      /\ of = OwnFills
  OBVIOUS
<1>2. PICK F : F = FlattenSeq([i \in 1..Len(OwnFills) |-> encode_fill(OwnFills[i])])
  OBVIOUS
<1>3. /\ to_client' = (to_client \o A) \o F /\ answers' = (answers \o a) \o of
      /\ to_server' = to_server /\ reader' = reader /\ tag_byte' = tag_byte /\ events' = events
      /\ incoming # NoOrder
  BY <1>1, <1>2, Zenon DEF MCAnswer, Answer, readerVars, Return
<1>4. incoming.id \in OrderIds
  BY <1>3, BookInvParts DEF LocalsOK, Order
<1>5. Carries(A, AnswerCode, AnswerMsgs, a) /\ \A m \in ToSet(a) : m \in AckMsgs
  <2>1. CASE ~Own(incoming.id)
    <3>1. A = <<>> /\ a = <<>>
      BY <2>1, <1>1
    <3>2. ToSet(<<>>) = {}
      BY DEF ToSet
    <3> QED BY <3>1, <3>2, CarriesNone, Zenon
  <2>2. CASE Own(incoming.id)
    <3>1. PICK m : m = AckMsg(incoming.id, NEW_ORDER, 0)
      OBVIOUS
    <3>2. A = encode_ack(m) /\ a = One(m)
      BY <2>2, <3>1, <1>1, Zenon DEF One
    <3>3. m \in AckMsgs
      BY <3>1, <1>4 DEF AckMsg, AckMsgs
    <3>4. m \in AnswerMsgs /\ m.tag # "Fill"
      BY <3>3 DEF AnswerMsgs, AckMsgs
    <3>5. AnswerCode[m] = encode_ack(m)
      BY <3>4, Zenon DEF AnswerCode
    <3>6. Carries(A, AnswerCode, AnswerMsgs, One(m))
      BY <3>2, <3>4, <3>5, CodingsAre, CarriesOne, Zenon DEF One
    <3>7. ToSet(One(m)) = {m}
      BY <3>4, EmptySeq, OneLaws
    <3> QED BY <3>2, <3>3, <3>6, <3>7, Zenon
  <2> QED BY <2>1, <2>2
<1>6. of \in Seq(FillMsgs)
  BY <1>1, OwnFillsTyped
<1>7. of \in Seq(AnswerMsgs)
  BY <1>6 DEF AnswerMsgs
<1>8. Carries(F, AnswerCode, AnswerMsgs, of)
  <2>1. ASSUME NEW i \in 1..Len(of) PROVE AnswerCode[of[i]] = encode_fill(of[i])
    <3>1. of[i] \in FillMsgs
      BY <1>6, ElementOfSeq
    <3>2. of[i] \in AnswerMsgs /\ of[i].tag = "Fill"
      BY <3>1 DEF AnswerMsgs, FillMsgs
    <3> QED BY <3>2, Zenon DEF AnswerCode
  <2>2. Codes(AnswerCode, of) = [i \in 1..Len(of) |-> encode_fill(of[i])]
    BY <2>1, Zenon DEF Codes
  <2>3. Carries(FlattenSeq(Codes(AnswerCode, of)), AnswerCode, AnswerMsgs, of)
    BY <1>7, CodingsAre, CarriesAll, Zenon
  <2>4. F = FlattenSeq(Codes(AnswerCode, of))
    BY <2>2, <1>1, <1>2, Zenon
  <2> QED BY <2>3, <2>4, Zenon
<1>9. PICK ns, t : ns = a \o of /\ t = A \o F
  OBVIOUS
<1>10. Carries(t, AnswerCode, AnswerMsgs, ns)
  BY <1>5, <1>8, <1>9, CodingsAre, CarriesBoth, Zenon
<1>11. /\ a \in Seq(AnswerMsgs) /\ ns \in Seq(AnswerMsgs) /\ A \in Bytes /\ F \in Bytes
       /\ ToSet(ns) = ToSet(a) \cup ToSet(of)
  <2>1. a \in Seq(AnswerMsgs) /\ ns \in Seq(AnswerMsgs) /\ A \in Bytes /\ F \in Bytes
    BY <1>5, <1>8, <1>10, Zenon DEF Carries
  <2>2. ToSet(Cat(a, of)) = ToSet(a) \cup ToSet(of)
    BY <2>1, <1>7, CatLaws
  <2> QED BY <2>1, <2>2, <1>9, Zenon DEF Cat
<1>12. to_client' = to_client \o t /\ answers' = answers \o ns
  <2>1. PICK c, s : c = to_client /\ s = answers
    OBVIOUS
  <2>2. c \in Bytes /\ s \in Seq(AnswerMsgs)
    <3>1. events \in Seq(AnswerMsgs) /\ msgs \in Seq(AnswerMsgs) /\ s = events \o msgs /\ c \in Bytes
      BY <2>1 DEF WireOK, Carries
    <3> QED BY <3>1, ConcatProperties
  <2>3. (c \o A) \o F = c \o (A \o F)
    BY <2>2, <1>11, ConcatAssociative DEF Bytes
  <2>4. (s \o a) \o of = s \o (a \o of)
    BY <2>2, <1>7, <1>11, ConcatAssociative
  <2> QED BY <2>1, <2>3, <2>4, <1>3, <1>9, Zenon
<1>13. Carries(to_server', RequestCode, RequestMsgs, reqs)
  BY <1>3 DEF WireOK
<1>14. WireOK(reqs, msgs \o ns)'
  BY <1>3, <1>10, <1>12, <1>13, AnswersJoin
<1>15. (\A m \in ToSet(ns) : m \in AckMsgs \/ m \in ToSet(OwnFills)) /\ ToSet(OwnFills) \subseteq ToSet(ns)
  BY <1>1, <1>5, <1>11
<1> QED BY <1>11, <1>12, <1>14, <1>15, Zenon

-----------------------------------------------------------------------------
(* The session. *)

SessionInv ==
    /\ BookInv
    /\ BookFits
    /\ QuoterOK
    /\ \E reqs, msgs : WireOK(reqs, msgs)

LEMMA InitSession == MCInit => SessionInv /\ WireOK(<<>>, <<>>)
<1> SUFFICES ASSUME MCInit PROVE SessionInv /\ WireOK(<<>>, <<>>)
  OBVIOUS
<1>1. BookInv /\ BookFits
  BY InitBookInv, InitBookFits DEF MCInit, SessionInit
<1>2. QuoterOK
  <2>1. /\ quote \in [Sides -> [id : OrderIds, price : Prices] \cup {NoQuote}]
        /\ \A s \in Sides : quote[s] = NoQuote
    BY DEF MCInit, SessionInit
  <2>2. ticks_done \in 0..MaxTicks /\ next_id \in 1..(2 * ticks_done + 1)
    BY SessionAssumption DEF MCInit, SessionInit
  <2>3. actions \in Seq(RequestMsgs) /\ ToSet(actions) = {} /\ actions = <<>>
    BY EmptySeq DEF MCInit, SessionInit, ToSet
  <2> QED BY <2>1, <2>2, <2>3 DEF QuoterOK, MCInit, SessionInit
<1>3. WireOK(<<>>, <<>>)
  <2>1. to_client \in Bytes /\ reader = "tag" /\ to_client = <<>> /\ to_server = <<>>
        /\ events = <<>> /\ answers = <<>> /\ events \in Seq(AnswerMsgs)
    BY EmptySeq DEF MCInit, SessionInit, Bytes
  <2>2. Unread = <<>>
    BY <2>1, UnreadIs
  <2>3. <<>> \o <<>> = <<>>
    OBVIOUS
  <2>4. Carries(to_server, RequestCode, RequestMsgs, <<>>) /\ Carries(Unread, AnswerCode, AnswerMsgs, <<>>)
    BY <2>1, <2>2, CarriesNone, Zenon
  <2> QED BY <2>1, <2>3, <2>4 DEF WireOK
<1> QED BY <1>1, <1>2, <1>3, Zenon DEF SessionInv

(* An order that is submitted, the session's or another participant's.     *)
LEMMA SubmitKeepsBook ==
    ASSUME BookInv, BookFits, NEW id \in OrderIds, NEW side \in Sides, NEW type \in OrderTypes,
           NEW price \in Prices, NEW quantity \in Quantities,
           SubmitBegin(id, side, type, price, quantity)
    PROVE  BookInv' /\ BookFits'
BY SubmitBeginKeepsInv, AcceptFits

LEMMA NextBook ==
    ASSUME BookInv, BookFits, NEW reqs, NEW msgs, WireOK(reqs, msgs), [MCNext]_<<vars, hvars>>
    PROVE  BookInv' /\ BookFits'
<1>1. ASSUME UNCHANGED bookVars PROVE BookInv' /\ BookFits'
  <2>1. BookInv'
    BY <1>1, NextBookInv
  <2>2. BookFits'
    BY <1>1 DEF bookVars, BookFits, QuantitiesFit, FillsFit, ClockFits, InBook, Active, Live, RestingOrders
  <2> QED BY <2>1, <2>2
<1>2. ASSUME MCMainStep \/ SendRaises \/ MCReaderStep \/ UNCHANGED <<vars, hvars>> PROVE BookInv' /\ BookFits'
  <2>1. UNCHANGED bookVars
    BY <1>2 DEF MCMainStep, MCPollEvents, PollEvents, Tick, LoopEnds, Send, SendDone, PollTimesOut,
                SendRaises, MCReaderStep, ReaderStep, ReadTag, ReadPayload, vars
  <2> QED BY <2>1, <1>1
<1>3. ASSUME NEW o \in Others, OtherSubmits(o) PROVE BookInv' /\ BookFits'
  <2>1. /\ o.id \in OrderIds /\ o.side \in Sides /\ o.type \in OrderTypes
        /\ o.price \in Prices /\ o.quantity \in Quantities
        /\ SubmitBegin(o.id, o.side, o.type, o.price, o.quantity)
    BY <1>3, SessionAssumption DEF OtherSubmits
  <2> QED BY <2>1, SubmitKeepsBook
<1>4. ASSUME ServeNewOrder, answers' = answers PROVE BookInv' /\ BookFits'
  <2>1. PICK m \in NewOrderMsgs :
           SubmitBegin(m.client_order_id, m.side, m.order_type, m.price_ticks, m.quantity)
    BY <1>4, ServeNewOrderWire
  <2>2. /\ m.client_order_id \in OrderIds /\ m.side \in Sides /\ m.order_type \in OrderTypes
        /\ m.price_ticks \in Prices /\ m.quantity \in Quantities
    BY DEF NewOrderMsgs
  <2> QED BY <2>1, <2>2, SubmitKeepsBook
<1>5. CASE MCServeCancel
  <2>1. PICK m \in CancelMsgs : CancelFound(m.client_order_id) \/ CancelNotFound(m.client_order_id)
    BY <1>5, ServeCancelWire
  <2>2. m.client_order_id \in OrderIds
    BY DEF CancelMsgs
  <2> QED BY <2>1, <2>2, NextBookInv, CancelFits DEF BookNext
<1>6. CASE Trade
  BY <1>6, MatchOneKeepsInv, TradeFits DEF Trade
<1>7. CASE MCAnswer
  BY <1>7, ReturnKeepsInv, ReturnFits DEF MCAnswer, Answer
<1> QED BY <1>2, <1>3, <1>4, <1>5, <1>6, <1>7 DEF MCNext, MCServerStep, hvars

LEMMA NextWire ==
    ASSUME BookInv, BookFits, QuoterOK, NEW reqs, NEW msgs, WireOK(reqs, msgs),
           [MCNext]_<<vars, hvars>>
    PROVE  \E r1, m1 : WireOK(r1, m1)'
<1>1. ASSUME \/ \E price \in FeedPrices : Tick(price) /\ UNCHANGED hvars
             \/ (LoopEnds \/ SendDone \/ PollTimesOut \/ SendRaises \/ Trade) /\ UNCHANGED hvars
             \/ \E o \in Others : OtherSubmits(o) /\ UNCHANGED hvars
             \/ UNCHANGED <<vars, hvars>>
      PROVE  WireOK(reqs, msgs)'
  <2>1. /\ events' = events /\ answers' = answers /\ to_server' = to_server
        /\ to_client' = to_client /\ reader' = reader /\ tag_byte' = tag_byte
    BY <1>1 DEF Tick, LoopEnds, SendDone, PollTimesOut, SendRaises, Trade, OtherSubmits, vars, wireVars,
                readerVars, hvars
  <2> QED BY <2>1, WireStays
<1>2. ASSUME Send, UNCHANGED hvars PROVE \E r1 : WireOK(r1, msgs)'
  <2>1. PICK r1 : r1 = reqs \o << Head(actions) >>
    OBVIOUS
  <2>2. WireOK(r1, msgs)'
    BY <1>2, <2>1, SendWire DEF hvars
  <2> QED BY <2>2, Zenon
<1>3. CASE MCPollEvents
  BY <1>3, PollWire
<1>4. CASE MCReaderStep
  BY <1>4, ReadTagWire, ReadPayloadWire DEF MCReaderStep, ReaderStep, hvars
<1>5. ASSUME ServeNewOrder, UNCHANGED hvars PROVE WireOK(Tail(reqs), msgs)'
  BY <1>5, ServeNewOrderWire DEF hvars
<1>6. CASE MCServeCancel
  BY <1>6, ServeCancelWire
<1>7. CASE MCAnswer
  BY <1>7, AnswerWire
<1> QED BY <1>1, <1>2, <1>3, <1>4, <1>5, <1>6, <1>7 DEF MCNext, MCMainStep, MCServerStep

LEMMA NextSession == SessionInv /\ [MCNext]_<<vars, hvars>> => SessionInv'
<1> SUFFICES ASSUME SessionInv, [MCNext]_<<vars, hvars>> PROVE SessionInv'
  OBVIOUS
<1>1. BookInv /\ BookFits /\ QuoterOK
  BY DEF SessionInv
<1>2. PICK reqs, msgs : WireOK(reqs, msgs)
  BY DEF SessionInv
<1>3. BookInv' /\ BookFits'
  BY <1>1, <1>2, NextBook
<1>4. QuoterOK'
  BY <1>1, NextQuoter
<1>5. \E r1, m1 : WireOK(r1, m1)'
  BY <1>1, <1>2, NextWire
<1> QED BY <1>3, <1>4, <1>5 DEF SessionInv

LEMMA SessionInvariant == MCSpec => []SessionInv
BY InitSession, NextSession, PTL DEF MCSpec

LEMMA InvGivesTypes == SessionInv => SessionTypeOK
<1> SUFFICES ASSUME SessionInv PROVE SessionTypeOK
  OBVIOUS
<1>1. QuoterOK /\ \E reqs, msgs : WireOK(reqs, msgs)
  BY DEF SessionInv
<1>2. reader \in {"tag", "payload"}
  BY <1>1 DEF WireOK
<1>3. next_id \in Nat
  BY <1>1, SessionAssumption DEF QuoterOK
<1>4. ASSUME NEW i \in 1..Len(actions) PROVE actions[i].client_order_id \in OrderIds \ OtherIds
  <2>1. actions \in Seq(RequestMsgs)
    BY <1>1 DEF QuoterOK
  <2>2. actions[i] \in ToSet(actions)
    BY <2>1, ToSetMember
  <2>3. actions[i].client_order_id \in 1..(next_id - 1)
    BY <2>2, <1>1 DEF QuoterOK
  <2> QED BY <2>3, <1>1, GivenOutIsOwn
<1> QED BY <1>1, <1>2, <1>3, <1>4 DEF SessionTypeOK, QuoterOK

LEMMA InvGivesAnswers == SessionInv => EventsAreAnswers
<1> SUFFICES ASSUME SessionInv PROVE EventsAreAnswers
  OBVIOUS
<1>1. PICK reqs, msgs : WireOK(reqs, msgs)
  BY DEF SessionInv
<1>2. PICK coming : coming = Frames(Unread)
  OBVIOUS
<1>3. /\ reader # "dead" /\ msgs \in Seq(AnswerMsgs) /\ answers = events \o msgs
      /\ Carries(Unread, AnswerCode, AnswerMsgs, msgs)
  BY <1>1 DEF WireOK, Carries
<1>4. coming = Codes(AnswerCode, msgs)
  <2>1. PICK u : u = Unread
    OBVIOUS
  <2>2. Frames(u) = Codes(AnswerCode, msgs)
    BY <2>1, <1>3, CodingsAre, CarriesFrames, Zenon
  <2> QED BY <2>1, <2>2, <1>2, Zenon
<1>5. Len(coming) = Len(msgs) /\ \A i \in 1..Len(msgs) : coming[i] = AnswerCode[msgs[i]]
  <2>1. AreCodes(coming, AnswerCode, msgs)
    BY <1>3, <1>4, CodingsAre, CodesTyped, Zenon
  <2> QED BY <2>1 DEF AreCodes
<1>6. ASSUME NEW i \in 1..Len(msgs) PROVE decode_event(Head(coming[i]), Tail(coming[i])) = msgs[i]
  <2>1. msgs[i] \in AnswerMsgs
    BY <1>3, ElementOfSeq
  <2> QED BY <2>1, <1>5, AnswerCoded, Zenon
<1>7. msgs = [i \in 1..Len(msgs) |-> msgs[i]]
  BY <1>3
<1>8. [i \in 1..Len(coming) |-> decode_event(Head(coming[i]), Tail(coming[i]))] = msgs
  BY <1>5, <1>6, <1>7, Zenon
<1> QED BY <1>2, <1>3, <1>8, Zenon DEF EventsAreAnswers, Unread

(* The state of the session and its requests have their types:             *)
(* run_strategy_loop and FixedOffsetQuoter give out ids of their own only, *)
(* two at most for each tick.                                              *)
THEOREM SessionTypeCorrect == MCSpec => []SessionTypeOK
BY SessionInvariant, InvGivesTypes, PTL

(* The two halves of the protocol agree for all widths of the fields, all  *)
(* prices, ids and quantities that fit them, and all interleavings of the  *)
(* loop, the reader thread and the server: _read_loop never meets a tag it *)
(* does not know, and what it puts into the queue is what the server sent, *)
(* message by message and field by field.                                  *)
THEOREM ReaderGetsTheAnswers == MCSpec => []EventsAreAnswers
BY SessionInvariant, InvGivesAnswers, PTL

-----------------------------------------------------------------------------
(* The life of the session's orders. *)

(* The ids of some requests, of their new orders and of their cancels.     *)
NewIn(P)    == {m.client_order_id : m \in {a \in ToSet(P) : a.tag = "NewOrder"}}
CancelIn(P) == {m.client_order_id : m \in {a \in ToSet(P) : a.tag = "Cancel"}}

(* A new order comes before everything else that has its id.               *)
Orderly(P) ==
    \A i, j \in 1..Len(P) :
        i < j /\ P[j].tag = "NewOrder" => P[i].client_order_id # P[j].client_order_id

(* The order in the engine's hand, and the orders whose fill the session   *)
(* has not drained, as far as they are the session's own.                  *)
OwnHand == {id \in (IF incoming = NoOrder THEN {} ELSE {incoming.id}) : Own(id)}

FilledIn(ms) == {m.resting_order_id : m \in {a \in ToSet(ms) : a.tag = "Fill"}}
FilledNow    == {f.resting_order_id : f \in ToSet(fills)}
Filled       == {id \in FilledIn(answers) \cup FilledNow : Own(id)}

(* Where an id can be: in a new order (N) or a cancel (C) on its way, with *)
(* the quoter (Q), in the book (R), in the engine's hand (H), in a fill    *)
(* (F), or crossed (X); n is the next id.                                  *)
Ledger(N, C, Q, R, H, F, X, n) ==
    /\ N \cup C \cup Q \cup R \cup H \cup F \subseteq 1..(n - 1)
    /\ N \cap (R \cup H \cup F) = {}
    /\ Q \cap C = {}
    /\ Q \subseteq N \cup H \cup R \cup X \cup F

(* And when quotes trade as a whole only.                                  *)
Whole(N, C, Q, R, H, F) ==
    /\ F \cap (R \cup H) = {}
    /\ N \cup H \cup R \subseteq Q \cup C

Life(P) ==
    /\ P \in Seq(RequestMsgs) /\ Orderly(P)
    /\ incoming = NoOrder => fills = <<>>
    /\ Ledger(NewIn(P), CancelIn(P), Quoted, OwnResting, OwnHand, Filled, crossed, next_id)

WholeLife(P) ==
    /\ \A o \in RestingOrders : o.quantity = Size
    /\ incoming # NoOrder => incoming.quantity \in {0, Size}
    /\ \A a \in ToSet(P) : a.tag = "NewOrder" => a.quantity = Size
    /\ Whole(NewIn(P), CancelIn(P), Quoted, OwnResting, OwnHand, Filled)

(* The tags of requests.                                                   *)
LEMMA RequestTags ==
    ASSUME NEW m \in RequestMsgs
    PROVE  /\ m.tag \in {"NewOrder", "Cancel"} /\ m.client_order_id \in OrderIds
           /\ m.tag = "NewOrder" <=> m \in NewOrderMsgs
           /\ m.tag = "Cancel" <=> m \in CancelMsgs
<1>1. CASE m \in NewOrderMsgs
  BY <1>1 DEF NewOrderMsgs, CancelMsgs
<1>2. CASE m \in CancelMsgs
  BY <1>2 DEF NewOrderMsgs, CancelMsgs
<1> QED BY <1>1, <1>2 DEF RequestMsgs

LEMMA OrderlyCat ==
    ASSUME NEW s \in Seq(RequestMsgs), NEW t \in Seq(RequestMsgs), Orderly(s), Orderly(t),
           NewIn(t) \cap (NewIn(s) \cup CancelIn(s)) = {}
    PROVE  /\ Cat(s, t) \in Seq(RequestMsgs) /\ Orderly(Cat(s, t))
           /\ NewIn(Cat(s, t)) = NewIn(s) \cup NewIn(t)
           /\ CancelIn(Cat(s, t)) = CancelIn(s) \cup CancelIn(t)
<1>1. PICK r : r = Cat(s, t)
  OBVIOUS
<1>2. r \in Seq(RequestMsgs) /\ ToSet(r) = ToSet(s) \cup ToSet(t)
  BY <1>1, CatLaws
<1>3. /\ r \in Seq(RequestMsgs) /\ Len(s) \in Nat /\ Len(t) \in Nat /\ Len(r) = Len(s) + Len(t)
      /\ \A k \in 1..Len(r) : \/ k \in 1..Len(s) /\ r[k] = s[k]
                              \/ k > Len(s) /\ k - Len(s) \in 1..Len(t) /\ r[k] = t[k - Len(s)]
  <2>1. r = s \o t
    BY <1>1 DEF Cat
  <2> QED BY <2>1, ConcatFacts
<1>4. /\ \A i \in 1..Len(s) : s[i] \in ToSet(s) /\ s[i] \in RequestMsgs
      /\ \A i \in 1..Len(t) : t[i] \in ToSet(t) /\ t[i] \in RequestMsgs
  BY ToSetMember, ElementOfSeq
<1>5. ASSUME NEW i \in 1..Len(r), NEW j \in 1..Len(r), i < j, r[j].tag = "NewOrder"
      PROVE  r[i].client_order_id # r[j].client_order_id
  <2>1. CASE j \in 1..Len(s) /\ r[j] = s[j]
    <3>1. i \in 1..Len(s) /\ r[i] = s[i]
      BY <2>1, <1>3, <1>5
    <3> QED BY <2>1, <3>1, <1>5 DEF Orderly
  <2>2. CASE j > Len(s) /\ j - Len(s) \in 1..Len(t) /\ r[j] = t[j - Len(s)]
    <3>1. CASE i \in 1..Len(s) /\ r[i] = s[i]
      <4>1. r[i] \in ToSet(s) /\ r[j] \in ToSet(t) /\ r[i] \in RequestMsgs
        BY <2>2, <3>1, <1>4
      <4>2. r[i].client_order_id \in NewIn(s) \cup CancelIn(s)
        BY <4>1, RequestTags DEF NewIn, CancelIn
      <4>3. r[j].client_order_id \in NewIn(t)
        BY <4>1, <1>5 DEF NewIn
      <4> QED BY <4>2, <4>3
    <3>2. CASE i > Len(s) /\ i - Len(s) \in 1..Len(t) /\ r[i] = t[i - Len(s)]
      <4>1. i - Len(s) < j - Len(s)
        BY <1>3, <1>5
      <4> QED BY <4>1, <2>2, <3>2, <1>5 DEF Orderly
    <3> QED BY <3>1, <3>2, <1>3
  <2> QED BY <2>1, <2>2, <1>3
<1>6. Orderly(r)
  BY <1>5 DEF Orderly
<1>7. NewIn(r) = NewIn(s) \cup NewIn(t) /\ CancelIn(r) = CancelIn(s) \cup CancelIn(t)
  BY <1>2 DEF NewIn, CancelIn
<1> QED BY <1>1, <1>2, <1>6, <1>7

LEMMA OrderlyTail ==
    ASSUME NEW s \in Seq(RequestMsgs), s # <<>>, Orderly(s)
    PROVE  /\ Tail(s) \in Seq(RequestMsgs) /\ Orderly(Tail(s)) /\ Head(s) \in RequestMsgs
           /\ ToSet(s) = ToSet(Tail(s)) \cup {Head(s)}
           /\ Head(s).client_order_id \notin NewIn(Tail(s))
<1>1. PICK r, h : r = Tail(s) /\ h = Head(s)
  OBVIOUS
<1>2. /\ r \in Seq(RequestMsgs) /\ Len(r) = Len(s) - 1 /\ h = s[1] /\ Len(s) \in Nat
      /\ \A i \in 1..Len(r) : r[i] = s[i + 1]
  BY <1>1, HeadTailProperties
<1>3. r \in Seq(RequestMsgs) /\ h \in RequestMsgs /\ ToSet(s) = ToSet(r) \cup {h}
  BY <1>1, TailSet
<1>4. ASSUME NEW i \in 1..Len(r), NEW j \in 1..Len(r), i < j, r[j].tag = "NewOrder"
      PROVE  r[i].client_order_id # r[j].client_order_id
  <2>1. /\ i + 1 \in 1..Len(s) /\ j + 1 \in 1..Len(s) /\ i + 1 < j + 1
        /\ r[i] = s[i + 1] /\ r[j] = s[j + 1]
    BY <1>2, <1>4
  <2> QED BY <2>1, <1>4 DEF Orderly
<1>5. Orderly(r)
  BY <1>4 DEF Orderly
<1>6. ASSUME h.client_order_id \in NewIn(r) PROVE FALSE
  <2>1. PICK m \in ToSet(r) : m.tag = "NewOrder" /\ m.client_order_id = h.client_order_id
    BY <1>6 DEF NewIn
  <2>2. PICK j \in 1..Len(r) : m = r[j]
    BY <1>2, ToSetMember
  <2>3. /\ j + 1 \in 1..Len(s) /\ 1 \in 1..Len(s) /\ 1 < j + 1 /\ m = s[j + 1]
    BY <2>2, <1>2
  <2> QED BY <2>1, <2>3, <1>2 DEF Orderly
<1> QED BY <1>1, <1>3, <1>5, <1>6

(* How the steps of the book move ids.                                     *)
LEMMA TradeMovesIds ==
    ASSUME BookInv, MatchOne
    PROVE  \E maker \in RestingOrders, q \in Nat :
              /\ maker.id \in DOMAIN order_index /\ maker.id # incoming.id
              /\ FilledNow' = FilledNow \cup {maker.id}
              /\ incoming # NoOrder /\ incoming' # NoOrder /\ incoming'.id = incoming.id
              /\ q > 0 /\ q <= incoming.quantity /\ q <= maker.quantity
              /\ q = incoming.quantity \/ q = maker.quantity
              /\ incoming'.quantity = incoming.quantity - q
              /\ \/ /\ q = maker.quantity /\ RestingOrders' = RestingOrders \ {maker}
                    /\ DOMAIN order_index' = DOMAIN order_index \ {maker.id}
                 \/ q # maker.quantity /\ DOMAIN order_index' = DOMAIN order_index
<1>1. LadderInv /\ LocalsOK /\ IncomingNotQueued /\ BookInv'
  BY BookInvParts, MatchOneKeepsInv
<1>2. PICK maker \in RestingOrders : \E quantity \in {maker.quantity, incoming.quantity} :
              Abstract!Trade(maker, quantity)
  BY MatchOneRefines
<1>3. PICK q \in {maker.quantity, incoming.quantity} : Abstract!Trade(maker, q)
  BY <1>2
<1>4. incoming \in Order /\ maker \in Order /\ incoming # NoOrder /\ q \in Nat
      /\ incoming.quantity \in Nat /\ maker.quantity \in Nat
  BY <1>1, <1>3, RestingIds DEF LocalsOK, MatchOne, Order
<1>5. /\ q > 0 /\ q <= incoming.quantity /\ q <= maker.quantity
      /\ q = incoming.quantity \/ q = maker.quantity
      /\ incoming' = [incoming EXCEPT !.quantity = incoming.quantity - q]
      /\ RestingOrders' = (RestingOrders \ {maker}) \cup
                          (IF q = maker.quantity THEN {}
                           ELSE {[maker EXCEPT !.quantity = maker.quantity - q]})
  BY <1>3 DEF Abstract!Trade
<1>6. PICK f : /\ fills' = Append(fills, f)
               /\ f = [resting_order_id |-> maker.id, incoming_order_id |-> incoming.id,
                       resting_side |-> maker.side, price_ticks |-> maker.price_ticks,
                       quantity |-> q, timestamp |-> next_timestamp]
  BY <1>3 DEF Abstract!Trade
<1>7. incoming'.quantity = incoming.quantity - q /\ incoming'.id = incoming.id /\ incoming' # NoOrder
  <2>1. incoming'.quantity = incoming.quantity - q /\ incoming' \in Order /\ incoming'.id = incoming.id
    BY <1>4, <1>5 DEF Order
  <2> QED BY <2>1, NoOrderAssumption
<1>8. /\ Abstract!IdsOf(RestingOrders) = DOMAIN order_index
      /\ Abstract!IdsOf(RestingOrders') = DOMAIN order_index'
  BY <1>1, ContainsIsResting, ContainsIsRestingAfter
<1>9. maker.id \in DOMAIN order_index
  BY <1>8 DEF Abstract!IdsOf
<1>10. maker.id # incoming.id
  BY <1>1, <1>4, <1>9 DEF IncomingNotQueued, contains
<1>11. FilledNow' = FilledNow \cup {maker.id}
  <2>1. fills \in Seq(Fill) /\ f \in Fill /\ f.resting_order_id = maker.id
    BY <1>1, <1>4, <1>6 DEF LocalsOK, Fill, Order
  <2>2. ToSet(Append(fills, f)) = ToSet(fills) \cup {f}
    BY <2>1, AppendSet
  <2>3. ToSet(fills') = ToSet(fills) \cup {f}
    BY <2>2, <1>6
  <2> QED BY <2>1, <2>3 DEF FilledNow
<1>12. CASE q = maker.quantity
  <2>1. RestingOrders' = RestingOrders \ {maker}
    BY <1>5, <1>12
  <2>2. DOMAIN order_index' = DOMAIN order_index \ {maker.id}
    BY <2>1, <1>1, <1>8, RestingIds DEF Abstract!IdsOf
  <2> QED BY <2>1, <2>2, <1>4, <1>5, <1>7, <1>9, <1>10, <1>11, <1>12
<1>13. CASE q # maker.quantity
  <2>1. RestingOrders' = (RestingOrders \ {maker}) \cup {[maker EXCEPT !.quantity = maker.quantity - q]}
    BY <1>5, <1>13
  <2>2. [maker EXCEPT !.quantity = maker.quantity - q].id = maker.id
    BY <1>4 DEF Order
  <2>3. DOMAIN order_index' = DOMAIN order_index
    BY <2>1, <2>2, <1>8, <1>9 DEF Abstract!IdsOf
  <2> QED BY <2>3, <1>4, <1>5, <1>7, <1>9, <1>10, <1>11, <1>13
<1> QED BY <1>12, <1>13

LEMMA ReturnMovesIds ==
    ASSUME BookInv, Return
    PROVE  /\ incoming # NoOrder /\ incoming' = NoOrder /\ fills' = <<>>
           /\ RestingOrders' = RestingOrders \cup (IF Rests(incoming) THEN {incoming} ELSE {})
           /\ DOMAIN order_index' = DOMAIN order_index \cup (IF Rests(incoming) THEN {incoming.id} ELSE {})
           /\ incoming.quantity \in Nat
<1>1. LadderInv /\ LocalsOK /\ BookInv'
  BY BookInvParts, ReturnKeepsInv
<1>2. Abstract!Done
  BY ReturnRefines
<1>3. /\ incoming # NoOrder /\ incoming' = NoOrder /\ fills' = <<>>
      /\ RestingOrders' = RestingOrders \cup (IF Rests(incoming) THEN {incoming} ELSE {})
  BY <1>2 DEF Abstract!Done, Rests
<1>4. incoming.quantity \in Nat
  BY <1>1, <1>3 DEF LocalsOK, Order
<1>5. /\ Abstract!IdsOf(RestingOrders) = DOMAIN order_index
      /\ Abstract!IdsOf(RestingOrders') = DOMAIN order_index'
  BY <1>1, ContainsIsResting, ContainsIsRestingAfter
<1>6. Abstract!IdsOf(RestingOrders')
         = Abstract!IdsOf(RestingOrders) \cup (IF Rests(incoming) THEN {incoming.id} ELSE {})
  BY <1>3 DEF Abstract!IdsOf
<1> QED BY <1>3, <1>4, <1>5, <1>6

LEMMA CancelMovesIds ==
    ASSUME BookInv, NEW id \in OrderIds, CancelFound(id) \/ CancelNotFound(id)
    PROVE  /\ incoming = NoOrder /\ incoming' = incoming /\ fills' = fills
           /\ RestingOrders' \subseteq RestingOrders
           /\ DOMAIN order_index' = DOMAIN order_index \ {id}
<1>1. LadderInv /\ LocalsOK /\ BookInv'
  BY BookInvParts, NextBookInv DEF BookNext
<1>2. Abstract!Cancel(id)
  BY CancelFoundRefines, CancelNotFoundRefines
<1>3. /\ RestingOrders' = {o \in RestingOrders : o.id # id}
      /\ incoming = NoOrder /\ incoming' = incoming /\ fills' = fills
  BY <1>2 DEF Abstract!Cancel
<1>4. /\ Abstract!IdsOf(RestingOrders) = DOMAIN order_index
      /\ Abstract!IdsOf(RestingOrders') = DOMAIN order_index'
  BY <1>1, ContainsIsResting, ContainsIsRestingAfter
<1>5. DOMAIN order_index' = DOMAIN order_index \ {id}
  BY <1>3, <1>4 DEF Abstract!IdsOf
<1> QED BY <1>3, <1>5

(* How the ledger changes: ids are given out, and the quotes S replaced;   *)
LEMMA LedgerTick ==
    ASSUME NEW N, NEW C, NEW Q, NEW R, NEW H, NEW F, NEW X, NEW n \in Nat, NEW n1 \in Nat, n <= n1,
           Ledger(N, C, Q, R, H, F, X, n),
           NEW D, D \subseteq n..(n1 - 1), NEW S, S \subseteq Q, NEW Q1, Q1 = (Q \ S) \cup D, 1 <= n
    PROVE  /\ Ledger(N \cup D, C \cup S, Q1, R, H, F, X, n1)
           /\ Whole(N, C, Q, R, H, F) => Whole(N \cup D, C \cup S, Q1, R, H, F)
<1>1. D \subseteq 1..(n1 - 1) /\ 1..(n - 1) \subseteq 1..(n1 - 1) /\ D \cap (1..(n - 1)) = {}
  OBVIOUS
<1>2. N \cup C \cup Q \cup R \cup H \cup F \subseteq 1..(n - 1)
  BY DEF Ledger
<1> DEFINE old == 1..(n - 1)
           new == 1..(n1 - 1)
<1>3. D \subseteq new /\ old \subseteq new /\ D \cap old = {} /\ N \cup C \cup Q \cup R \cup H \cup F \subseteq old
  BY <1>1, <1>2
<1>4. Ledger(N \cup D, C \cup S, Q1, R, H, F, X, n1)
  <2>1. (N \cup D) \cup (C \cup S) \cup Q1 \cup R \cup H \cup F \subseteq new
    <3> HIDE DEF old, new
    <3> QED BY <1>3
  <2>2. (N \cup D) \cap (R \cup H \cup F) = {} /\ Q1 \cap (C \cup S) = {}
    <3> HIDE DEF old, new
    <3> QED BY <1>3 DEF Ledger
  <2>3. Q1 \subseteq (N \cup D) \cup H \cup R \cup X \cup F
    BY DEF Ledger
  <2> QED BY <2>1, <2>2, <2>3 DEF Ledger
<1>5. Whole(N, C, Q, R, H, F) => Whole(N \cup D, C \cup S, Q1, R, H, F)
  BY DEF Whole
<1> QED BY <1>4, <1>5

(* a new order x reaches the engine;                                       *)
LEMMA LedgerSubmit ==
    ASSUME NEW N, NEW C, NEW Q, NEW R, NEW F, NEW X, NEW n, Ledger(N, C, Q, R, {}, F, X, n),
           NEW x \in N
    PROVE  /\ Ledger(N \ {x}, C, Q, R, {x}, F, X, n)
           /\ Whole(N, C, Q, R, {}, F) => Whole(N \ {x}, C, Q, R, {x}, F)
<1>1. Ledger(N \ {x}, C, Q, R, {x}, F, X, n)
  <2>1. PICK old : old = 1..(n - 1)
    OBVIOUS
  <2>2. N \cup C \cup Q \cup R \cup {} \cup F \subseteq old
    BY <2>1 DEF Ledger
  <2>3. (N \ {x}) \cup C \cup Q \cup R \cup {x} \cup F \subseteq old
    BY <2>2
  <2> QED BY <2>1, <2>3 DEF Ledger
<1>2. Whole(N, C, Q, R, {}, F) => Whole(N \ {x}, C, Q, R, {x}, F)
  BY DEF Whole, Ledger
<1> QED BY <1>1, <1>2

(* a cancel of x reaches it;                                               *)
LEMMA LedgerCancel ==
    ASSUME NEW N, NEW C, NEW Q, NEW R, NEW F, NEW X, NEW n, Ledger(N, C, Q, R, {}, F, X, n),
           NEW x \in C, x \notin N, NEW C1, C1 \subseteq C, C \subseteq C1 \cup {x}
    PROVE  /\ Ledger(N, C1, Q, R \ {x}, {}, F, X, n)
           /\ Whole(N, C, Q, R, {}, F) => Whole(N, C1, Q, R \ {x}, {}, F)
<1>1. Ledger(N, C1, Q, R \ {x}, {}, F, X, n)
  <2>1. PICK old : old = 1..(n - 1)
    OBVIOUS
  <2>2. N \cup C \cup Q \cup R \cup {} \cup F \subseteq old
    BY <2>1 DEF Ledger
  <2>3. N \cup C1 \cup Q \cup (R \ {x}) \cup {} \cup F \subseteq old
    BY <2>2
  <2> QED BY <2>1, <2>3 DEF Ledger
<1>2. Whole(N, C, Q, R, {}, F) => Whole(N, C1, Q, R \ {x}, {}, F)
  BY DEF Whole
<1> QED BY <1>1, <1>2

(* a resting order x of the session trades, in part or as a whole;         *)
LEMMA LedgerTrade ==
    ASSUME NEW N, NEW C, NEW Q, NEW R, NEW H, NEW F, NEW X, NEW n, Ledger(N, C, Q, R, H, F, X, n),
           NEW x \in R, x \notin H, NEW R1, R1 \subseteq R, R \subseteq R1 \cup {x}
    PROVE  /\ Ledger(N, C, Q, R1, H, F \cup {x}, X, n)
           /\ Whole(N, C, Q, R, H, F) /\ x \notin R1 => Whole(N, C, Q, R1, H, F \cup {x})
<1>1. Ledger(N, C, Q, R1, H, F \cup {x}, X, n)
  <2>1. PICK old : old = 1..(n - 1)
    OBVIOUS
  <2>2. N \cup C \cup Q \cup R \cup H \cup F \subseteq old
    BY <2>1 DEF Ledger
  <2>3. N \cup C \cup Q \cup R1 \cup H \cup (F \cup {x}) \subseteq old
    BY <2>2
  <2> QED BY <2>1, <2>3 DEF Ledger
<1>2. Whole(N, C, Q, R, H, F) /\ x \notin R1 => Whole(N, C, Q, R1, H, F \cup {x})
  BY DEF Whole
<1> QED BY <1>1, <1>2

(* submit returns: the order in hand rests or is crossed;                  *)
LEMMA LedgerReturn ==
    ASSUME NEW N, NEW C, NEW Q, NEW R, NEW H, NEW F, NEW X, NEW n, Ledger(N, C, Q, R, H, F, X, n),
           NEW R1, NEW X1, \/ R1 = R \cup H /\ X1 = X
                           \/ R1 = R /\ X1 = X \cup H
    PROVE  /\ Ledger(N, C, Q, R1, {}, F, X1, n)
           /\ Whole(N, C, Q, R, H, F) => Whole(N, C, Q, R1, {}, F)
<1>1. Ledger(N, C, Q, R1, {}, F, X1, n)
  <2>1. PICK old : old = 1..(n - 1)
    OBVIOUS
  <2>2. N \cup C \cup Q \cup R \cup H \cup F \subseteq old
    BY <2>1 DEF Ledger
  <2>3. N \cup C \cup Q \cup R1 \cup {} \cup F \subseteq old
    BY <2>2
  <2> QED BY <2>1, <2>3 DEF Ledger
<1>2. Whole(N, C, Q, R, H, F) => Whole(N, C, Q, R1, {}, F)
  BY DEF Whole
<1> QED BY <1>1, <1>2

(* fills are drained, and on_fill forgets the quotes they are for.         *)
LEMMA LedgerPoll ==
    ASSUME NEW N, NEW C, NEW Q, NEW R, NEW H, NEW F, NEW X, NEW n, Ledger(N, C, Q, R, H, F, X, n),
           NEW Q1, Q1 \subseteq Q, NEW F1, F1 \subseteq F, Q \ Q1 \subseteq F, Q1 \cap F \subseteq F1
    PROVE  /\ Ledger(N, C, Q1, R, H, F1, X, n)
           /\ Whole(N, C, Q, R, H, F) => Whole(N, C, Q1, R, H, F1)
<1>1. Ledger(N, C, Q1, R, H, F1, X, n)
  <2>1. PICK old : old = 1..(n - 1)
    OBVIOUS
  <2>2. N \cup C \cup Q \cup R \cup H \cup F \subseteq old
    BY <2>1 DEF Ledger
  <2>3. N \cup C \cup Q1 \cup R \cup H \cup F1 \subseteq old
    BY <2>2
  <2> QED BY <2>1, <2>3 DEF Ledger
<1>2. Whole(N, C, Q, R, H, F) => Whole(N, C, Q1, R, H, F1)
  BY DEF Whole, Ledger
<1> QED BY <1>1, <1>2

(* The other participants take and give whole quotes only.                 *)
WholeQuotes == \A o \in Others : o.quantity \in {0, Size}

(* A step that moves no order.                                             *)
LEMMA LifeStays ==
    ASSUME NEW P, Life(P), quote' = quote, next_id' = next_id, Filled' = Filled, crossed' = crossed,
           order_index' = order_index, book' = book, incoming' = incoming, fills' = fills
    PROVE  Life(P)' /\ (WholeLife(P) => WholeLife(P)')
<1>1. /\ Quoted' = Quoted /\ OwnResting' = OwnResting /\ OwnHand' = OwnHand
      /\ RestingOrders' = RestingOrders
  BY DEF Quoted, OwnResting, OwnHand, RestingOrders, Own, OtherIds
<1> QED BY <1>1 DEF Life, WholeLife

LEMMA TickLife ==
    ASSUME QuoterOK, NEW P, Life(P), NEW price \in FeedPrices, Tick(price), UNCHANGED hvars,
           NEW P1, P1 = Cat(P, actions')
    PROVE  Life(P1)' /\ (WholeLife(P) => WholeLife(P1)')
<1>1. PICK k, n, c : k = Len(Requoted(price)) /\ n = NewOrders(price) /\ c = Cancels(price)
  OBVIOUS
<1>2. /\ k \in 0..2
      /\ \A s \in Sides : Drifted(s, price) => NewId(s, price) \in next_id..(next_id + k - 1)
  BY <1>1, TickFacts, Zenon
<1>3. /\ ticks_done < MaxTicks /\ next_id \in Nat /\ 1 <= next_id /\ next_id' = next_id + k /\ actions' = n \o c
      /\ UNCHANGED <<bookVars, answers, crossed>>
  BY <1>1, SessionAssumption DEF QuoterOK, Tick, hvars
<1>4. PICK D, S : /\ D = {NewId(s, price) : s \in {t \in Sides : Drifted(t, price)}}
                  /\ S = {quote[s].id : s \in {t \in Sides : Drifted(t, price) /\ quote[t] # NoQuote}}
  OBVIOUS
<1>5. /\ n \in Seq(NewOrderMsgs) /\ c \in Seq(CancelMsgs)
      /\ ToSet(n) = {OrderRequest(NewId(s, price), s, TargetPrice(s, price)) :
                        s \in {t \in Sides : Drifted(t, price)}}
      /\ ToSet(c) = {CancelRequest(quote[s].id) :
                        s \in {t \in Sides : Drifted(t, price) /\ quote[t] # NoQuote}}
      /\ \A i, j \in 1..Len(n) : n[i].client_order_id = n[j].client_order_id => i = j
  BY <1>1, <1>3, TickSends, Zenon
<1>6. n \in Seq(RequestMsgs) /\ c \in Seq(RequestMsgs)
  BY <1>5 DEF RequestMsgs
<1>7. NewIn(n) = D /\ CancelIn(n) = {} /\ \A a \in ToSet(n) : a.quantity = Size
  <2>1. \A a \in ToSet(n) : a.tag = "NewOrder" /\ a.quantity = Size
    BY <1>5 DEF OrderRequest
  <2>2. ASSUME NEW id \in NewIn(n) PROVE id \in D
    <3>1. PICK s \in Sides : /\ Drifted(s, price)
                             /\ id = OrderRequest(NewId(s, price), s, TargetPrice(s, price)).client_order_id
      BY <1>5 DEF NewIn
    <3> QED BY <3>1, <1>4 DEF OrderRequest
  <2>3. ASSUME NEW id \in D PROVE id \in NewIn(n)
    <3>1. PICK s \in Sides : Drifted(s, price) /\ id = NewId(s, price)
      BY <1>4
    <3>2. PICK a \in ToSet(n) : a = OrderRequest(NewId(s, price), s, TargetPrice(s, price))
      BY <3>1, <1>5
    <3>3. a.client_order_id = id
      BY <3>1, <3>2 DEF OrderRequest
    <3> QED BY <2>1, <3>3 DEF NewIn
  <2> QED BY <2>1, <2>2, <2>3 DEF CancelIn
<1>8. NewIn(c) = {} /\ CancelIn(c) = S
  <2>1. \A a \in ToSet(c) : a.tag = "Cancel"
    BY <1>5 DEF CancelRequest
  <2>2. ASSUME NEW id \in CancelIn(c) PROVE id \in S
    <3>1. PICK s \in Sides : /\ Drifted(s, price) /\ quote[s] # NoQuote
                             /\ id = CancelRequest(quote[s].id).client_order_id
      BY <1>5 DEF CancelIn
    <3> QED BY <3>1, <1>4 DEF CancelRequest
  <2>3. ASSUME NEW id \in S PROVE id \in CancelIn(c)
    <3>1. PICK s \in Sides : Drifted(s, price) /\ quote[s] # NoQuote /\ id = quote[s].id
      BY <1>4
    <3>2. PICK a \in ToSet(c) : a = CancelRequest(quote[s].id)
      BY <3>1, <1>5
    <3>3. a.client_order_id = id
      BY <3>1, <3>2 DEF CancelRequest
    <3> QED BY <2>1, <3>3 DEF CancelIn
  <2> QED BY <2>1, <2>2, <2>3 DEF NewIn
<1>9. Orderly(n)
  <2>1. ASSUME NEW i \in 1..Len(n), NEW j \in 1..Len(n), i < j
        PROVE  n[i].client_order_id # n[j].client_order_id
    BY <2>1, <1>5
  <2> QED BY <2>1 DEF Orderly
<1>10. Orderly(c)
  <2>1. ASSUME NEW j \in 1..Len(c) PROVE c[j].tag # "NewOrder"
    <3>1. c[j] \in CancelMsgs
      BY <1>5, ElementOfSeq
    <3> QED BY <3>1 DEF CancelMsgs
  <2> QED BY <2>1 DEF Orderly
<1>11. /\ Cat(n, c) \in Seq(RequestMsgs) /\ Orderly(Cat(n, c)) /\ NewIn(Cat(n, c)) = D /\ CancelIn(Cat(n, c)) = S
  <2>1. NewIn(c) \cap (NewIn(n) \cup CancelIn(n)) = {}
    BY <1>8
  <2>2. /\ Cat(n, c) \in Seq(RequestMsgs) /\ Orderly(Cat(n, c))
        /\ NewIn(Cat(n, c)) = NewIn(n) \cup NewIn(c)
        /\ CancelIn(Cat(n, c)) = CancelIn(n) \cup CancelIn(c)
    BY <2>1, <1>6, <1>9, <1>10, OrderlyCat, Zenon
  <2> QED BY <2>2, <1>7, <1>8
<1>12. D \subseteq next_id..(next_id + k - 1) /\ S \subseteq Quoted
  BY <1>2, <1>4 DEF Quoted
<1>13. /\ P \in Seq(RequestMsgs) /\ Orderly(P) /\ (incoming = NoOrder => fills = <<>>)
       /\ Ledger(NewIn(P), CancelIn(P), Quoted, OwnResting, OwnHand, Filled, crossed, next_id)
  BY DEF Life
<1>14. D \cap (NewIn(P) \cup CancelIn(P)) = {}
  <2>1. NewIn(P) \cup CancelIn(P) \subseteq 1..(next_id - 1)
    BY <1>13 DEF Ledger
  <2>2. \A d \in D : d \notin 1..(next_id - 1)
    BY <1>3, <1>12
  <2> QED BY <2>1, <2>2
<1>15. P1 = Cat(P, Cat(n, c))
  BY <1>3, Zenon DEF Cat
<1>16. /\ P1 \in Seq(RequestMsgs) /\ Orderly(P1)
       /\ NewIn(P1) = NewIn(P) \cup D /\ CancelIn(P1) = CancelIn(P) \cup S
  <2>1. PICK a : a = Cat(n, c)
    OBVIOUS
  <2>2. a \in Seq(RequestMsgs) /\ Orderly(a) /\ NewIn(a) = D /\ CancelIn(a) = S
    BY <2>1, <1>11
  <2>3. NewIn(a) \cap (NewIn(P) \cup CancelIn(P)) = {}
    BY <2>2, <1>14
  <2> QED BY <2>1, <2>2, <2>3, <1>13, <1>15, OrderlyCat
<1>17. Quoted' = (Quoted \ S) \cup D
  <2>1. \A s \in Sides : quote'[s] = IF Drifted(s, price)
                                     THEN [id |-> NewId(s, price), price |-> TargetPrice(s, price)]
                                     ELSE quote[s]
    BY DEF Tick
  <2>2. QuoterOK'
    BY TickKeepsQuoter
  <2>3. ASSUME NEW s \in Sides, Drifted(s, price) PROVE quote'[s] # NoQuote /\ quote'[s].id = NewId(s, price)
    <3>1. quote'[s] = [id |-> NewId(s, price), price |-> TargetPrice(s, price)]
      BY <2>1, <2>3, Zenon
    <3>2. NewId(s, price) \in OrderIds /\ TargetPrice(s, price) \in Prices
      <4>1. OrderRequest(NewId(s, price), s, TargetPrice(s, price)) \in ToSet(n)
        BY <2>3, <1>5
      <4>2. OrderRequest(NewId(s, price), s, TargetPrice(s, price)) \in NewOrderMsgs
        BY <4>1, <1>5, ToSetMember
      <4>3. PICK a : a = OrderRequest(NewId(s, price), s, TargetPrice(s, price))
        OBVIOUS
      <4>4. a.client_order_id = NewId(s, price) /\ a.price_ticks = TargetPrice(s, price)
        BY <4>3 DEF OrderRequest
      <4>5. a.client_order_id \in OrderIds /\ a.price_ticks \in Prices
        BY <4>2, <4>3 DEF NewOrderMsgs
      <4> QED BY <4>4, <4>5
    <3>3. quote'[s] \in [id : OrderIds, price : Prices] /\ quote'[s].id = NewId(s, price)
      BY <3>1, <3>2
    <3> QED BY <3>3, NoQuoteAssumption
  <2>4. ASSUME NEW id \in Quoted' PROVE id \in (Quoted \ S) \cup D
    <3>1. PICK s \in Sides : quote'[s] # NoQuote /\ id = quote'[s].id
      BY <2>4 DEF Quoted
    <3>2. CASE Drifted(s, price)
      BY <3>1, <3>2, <2>3, <1>4
    <3>3. CASE ~Drifted(s, price)
      <4>1. quote[s] # NoQuote /\ id = quote[s].id
        BY <3>1, <3>3, <2>1
      <4>2. id \notin S
        BY <4>1, <3>3, <1>4 DEF QuoterOK
      <4> QED BY <4>1, <4>2 DEF Quoted
    <3> QED BY <3>2, <3>3
  <2>5. ASSUME NEW id \in D PROVE id \in Quoted'
    <3>1. PICK s \in Sides : Drifted(s, price) /\ id = NewId(s, price)
      BY <1>4
    <3> QED BY <3>1, <2>3 DEF Quoted
  <2>6. ASSUME NEW id \in Quoted \ S PROVE id \in Quoted'
    <3>1. PICK s \in Sides : quote[s] # NoQuote /\ id = quote[s].id
      BY <2>6 DEF Quoted
    <3>2. ~Drifted(s, price)
      BY <3>1, <2>6, <1>4
    <3>3. quote'[s] = quote[s]
      BY <3>2, <2>1
    <3> QED BY <3>1, <3>3 DEF Quoted
  <2> QED BY <2>4, <2>5, <2>6
<1>18. /\ OwnResting' = OwnResting /\ OwnHand' = OwnHand /\ Filled' = Filled /\ crossed' = crossed
       /\ RestingOrders' = RestingOrders /\ incoming' = incoming /\ fills' = fills
  BY <1>3 DEF bookVars, OwnResting, OwnHand, Filled, FilledNow, FilledIn, RestingOrders, Own, OtherIds
<1>19. PICK Q1, n1 : Q1 = Quoted' /\ n1 = next_id'
  OBVIOUS
<1>20. /\ Ledger(NewIn(P) \cup D, CancelIn(P) \cup S, Q1, OwnResting, OwnHand, Filled, crossed, n1)
       /\ Whole(NewIn(P), CancelIn(P), Quoted, OwnResting, OwnHand, Filled) =>
          Whole(NewIn(P) \cup D, CancelIn(P) \cup S, Q1, OwnResting, OwnHand, Filled)
  <2>1. /\ n1 \in Nat /\ next_id <= n1 /\ D \subseteq next_id..(n1 - 1) /\ S \subseteq Quoted /\ Q1 = (Quoted \ S) \cup D
    BY <1>2, <1>3, <1>12, <1>17, <1>19
  <2> QED BY <2>1, <1>3, <1>13, LedgerTick
<1>21. Life(P1)'
  BY <1>13, <1>16, <1>18, <1>19, <1>20 DEF Life
<1>22. ASSUME WholeLife(P) PROVE WholeLife(P1)'
  <2>1. ToSet(P1) = ToSet(P) \cup (ToSet(n) \cup ToSet(c))
    BY <1>6, <1>11, <1>13, <1>15, CatLaws
  <2>2. \A a \in ToSet(c) : a.tag # "NewOrder"
    BY <1>5 DEF CancelRequest
  <2>3. \A a \in ToSet(P1) : a.tag = "NewOrder" => a.quantity = Size
    BY <2>1, <2>2, <1>7, <1>22 DEF WholeLife
  <2>4. Whole(NewIn(P1), CancelIn(P1), Quoted', OwnResting', OwnHand', Filled')
    <3>1. Whole(NewIn(P), CancelIn(P), Quoted, OwnResting, OwnHand, Filled)
      BY <1>22 DEF WholeLife
    <3>2. Whole(NewIn(P) \cup D, CancelIn(P) \cup S, Q1, OwnResting, OwnHand, Filled)
      BY <3>1, <1>20
    <3> QED BY <3>2, <1>16, <1>18, <1>19
  <2> QED BY <2>3, <2>4, <1>18, <1>22 DEF WholeLife
<1> QED BY <1>21, <1>22

LEMMA SubmitLife ==
    ASSUME BookInv, QuoterOK, NEW P, Life(P), P # <<>>, NEW m \in NewOrderMsgs, m = Head(P),
           SubmitBegin(m.client_order_id, m.side, m.order_type, m.price_ticks, m.quantity),
           quote' = quote, next_id' = next_id, answers' = answers, crossed' = crossed
    PROVE  Life(Tail(P))' /\ (WholeLife(P) => WholeLife(Tail(P))')
<1>1. PICK x, T : x = m.client_order_id /\ T = Tail(P)
  OBVIOUS
<1>2. /\ P \in Seq(RequestMsgs) /\ Orderly(P) /\ (incoming = NoOrder => fills = <<>>)
      /\ Ledger(NewIn(P), CancelIn(P), Quoted, OwnResting, OwnHand, Filled, crossed, next_id)
  BY DEF Life
<1>3. /\ T \in Seq(RequestMsgs) /\ Orderly(T) /\ ToSet(P) = ToSet(T) \cup {m} /\ x \notin NewIn(T)
  BY <1>1, <1>2, OrderlyTail
<1>4. m.tag = "NewOrder"
  BY DEF NewOrderMsgs
<1>5. NewIn(T) = NewIn(P) \ {x} /\ CancelIn(T) = CancelIn(P) /\ x \in NewIn(P)
  BY <1>1, <1>3, <1>4 DEF NewIn, CancelIn
<1>6. x \in 1..(next_id - 1)
  BY <1>2, <1>5 DEF Ledger
<1>7. Own(x)
  BY <1>6, GivenOutIsOwn DEF Own
<1>8. /\ incoming = NoOrder /\ incoming'.id = x /\ incoming'.quantity = m.quantity /\ incoming' # NoOrder
      /\ book' = book /\ order_index' = order_index /\ fills' = fills
  <2>1. /\ incoming = NoOrder /\ incoming'.id = x /\ incoming'.quantity = m.quantity
        /\ book' = book /\ order_index' = order_index /\ fills' = fills
    BY <1>1 DEF SubmitBegin
  <2>2. incoming' \in Order
    BY BookInvParts, QuantitiesAssumption DEF SubmitBegin, Order, NewOrderMsgs, LocalsOK
  <2> QED BY <2>1, <2>2, NoOrderAssumption
<1>9. /\ Quoted' = Quoted /\ OwnResting' = OwnResting /\ Filled' = Filled /\ RestingOrders' = RestingOrders
      /\ OwnHand = {} /\ OwnHand' = {x}
  BY <1>7, <1>8 DEF Quoted, OwnResting, OwnHand, RestingOrders, Filled, FilledIn, FilledNow, Own, OtherIds
<1>10. /\ Ledger(NewIn(P) \ {x}, CancelIn(P), Quoted, OwnResting, {x}, Filled, crossed, next_id)
       /\ Whole(NewIn(P), CancelIn(P), Quoted, OwnResting, {}, Filled) =>
          Whole(NewIn(P) \ {x}, CancelIn(P), Quoted, OwnResting, {x}, Filled)
  <2>1. Ledger(NewIn(P), CancelIn(P), Quoted, OwnResting, {}, Filled, crossed, next_id)
    BY <1>2, <1>9
  <2> QED BY <2>1, <1>5, LedgerSubmit
<1>11. Life(T)'
  BY <1>3, <1>5, <1>8, <1>9, <1>10 DEF Life
<1>12. ASSUME WholeLife(P) PROVE WholeLife(T)'
  <2>1. /\ m.quantity = Size /\ \A a \in ToSet(T) : a.tag = "NewOrder" => a.quantity = Size
    BY <1>3, <1>4, <1>12 DEF WholeLife
  <2>2. Whole(NewIn(T), CancelIn(T), Quoted', OwnResting', OwnHand', Filled')
    <3>1. Whole(NewIn(P), CancelIn(P), Quoted, OwnResting, {}, Filled)
      BY <1>9, <1>12 DEF WholeLife
    <3>2. Whole(NewIn(P) \ {x}, CancelIn(P), Quoted, OwnResting, {x}, Filled)
      BY <3>1, <1>10
    <3> QED BY <3>2, <1>5, <1>9
  <2> QED BY <2>1, <2>2, <1>8, <1>9, <1>12 DEF WholeLife
<1> QED BY <1>1, <1>11, <1>12

LEMMA OtherLife ==
    ASSUME BookInv, NEW P, Life(P), NEW o \in Others, OtherSubmits(o), UNCHANGED hvars
    PROVE  Life(P)' /\ (WholeQuotes /\ WholeLife(P) => WholeLife(P)')
<1>1. /\ incoming = NoOrder /\ incoming'.id = o.id /\ incoming'.quantity = o.quantity /\ incoming' # NoOrder
      /\ book' = book /\ order_index' = order_index /\ fills' = fills
  <2>1. SubmitBegin(o.id, o.side, o.type, o.price, o.quantity)
    BY DEF OtherSubmits
  <2>2. /\ incoming = NoOrder /\ incoming'.id = o.id /\ incoming'.quantity = o.quantity
        /\ book' = book /\ order_index' = order_index /\ fills' = fills
    BY <2>1 DEF SubmitBegin
  <2>3. incoming' \in Order
    BY <2>1, BookInvParts, QuantitiesAssumption, SessionAssumption DEF SubmitBegin, Order, LocalsOK
  <2> QED BY <2>2, <2>3, NoOrderAssumption
<1>2. /\ quote' = quote /\ next_id' = next_id /\ answers' = answers /\ crossed' = crossed
  BY DEF OtherSubmits, sessionVars, hvars
<1>3. ~Own(o.id)
  BY DEF Own, OtherIds
<1>4. /\ Quoted' = Quoted /\ OwnResting' = OwnResting /\ Filled' = Filled /\ RestingOrders' = RestingOrders
      /\ OwnHand = {} /\ OwnHand' = {}
  BY <1>1, <1>2, <1>3 DEF Quoted, OwnResting, OwnHand, RestingOrders, Filled, FilledIn, FilledNow, Own, OtherIds
<1>5. Life(P)'
  BY <1>1, <1>2, <1>4 DEF Life
<1>6. ASSUME WholeQuotes, WholeLife(P) PROVE WholeLife(P)'
  BY <1>1, <1>4, <1>6 DEF WholeLife, WholeQuotes
<1> QED BY <1>5, <1>6

LEMMA CancelLife ==
    ASSUME BookInv, QuoterOK, NEW P, Life(P), P # <<>>, NEW m \in CancelMsgs, m = Head(P),
           CancelFound(m.client_order_id) \/ CancelNotFound(m.client_order_id),
           quote' = quote, next_id' = next_id, FilledIn(answers)' = FilledIn(answers), crossed' = crossed
    PROVE  Life(Tail(P))' /\ (WholeLife(P) => WholeLife(Tail(P))')
<1>1. PICK x, T : x = m.client_order_id /\ T = Tail(P)
  OBVIOUS
<1>2. /\ P \in Seq(RequestMsgs) /\ Orderly(P) /\ (incoming = NoOrder => fills = <<>>)
      /\ Ledger(NewIn(P), CancelIn(P), Quoted, OwnResting, OwnHand, Filled, crossed, next_id)
  BY DEF Life
<1>3. /\ T \in Seq(RequestMsgs) /\ Orderly(T) /\ ToSet(P) = ToSet(T) \cup {m} /\ x \notin NewIn(T)
  BY <1>1, <1>2, OrderlyTail
<1>4. m.tag = "Cancel" /\ x \in OrderIds
  BY <1>1 DEF CancelMsgs
<1>5. NewIn(T) = NewIn(P) /\ CancelIn(T) \subseteq CancelIn(P) /\ CancelIn(P) \subseteq CancelIn(T) \cup {x}
      /\ x \in CancelIn(P) /\ x \notin NewIn(P)
  BY <1>1, <1>3, <1>4 DEF NewIn, CancelIn
<1>6. /\ incoming = NoOrder /\ incoming' = incoming /\ fills' = fills
      /\ RestingOrders' \subseteq RestingOrders
      /\ DOMAIN order_index' = DOMAIN order_index \ {x}
  BY <1>1, <1>4, CancelMovesIds
<1>7. /\ Quoted' = Quoted /\ OwnResting' = OwnResting \ {x} /\ OwnHand = {} /\ OwnHand' = {}
      /\ Filled' = Filled
  BY <1>6 DEF Quoted, OwnResting, OwnHand, Filled, FilledNow, Own, OtherIds
<1>8. /\ Ledger(NewIn(P), CancelIn(T), Quoted, OwnResting \ {x}, {}, Filled, crossed, next_id)
      /\ Whole(NewIn(P), CancelIn(P), Quoted, OwnResting, {}, Filled) =>
         Whole(NewIn(P), CancelIn(T), Quoted, OwnResting \ {x}, {}, Filled)
  <2>1. Ledger(NewIn(P), CancelIn(P), Quoted, OwnResting, {}, Filled, crossed, next_id)
    BY <1>2, <1>7
  <2> QED BY <2>1, <1>5, LedgerCancel
<1>9. Life(T)'
  BY <1>2, <1>3, <1>5, <1>6, <1>7, <1>8 DEF Life
<1>10. ASSUME WholeLife(P) PROVE WholeLife(T)'
  <2>1. \A a \in ToSet(T) : a.tag = "NewOrder" => a.quantity = Size
    BY <1>3, <1>10 DEF WholeLife
  <2>2. Whole(NewIn(T), CancelIn(T), Quoted', OwnResting', OwnHand', Filled')
    <3>1. Whole(NewIn(P), CancelIn(P), Quoted, OwnResting, {}, Filled)
      BY <1>7, <1>10 DEF WholeLife
    <3>2. Whole(NewIn(P), CancelIn(T), Quoted, OwnResting \ {x}, {}, Filled)
      BY <3>1, <1>8
    <3> QED BY <3>2, <1>5, <1>7
  <2> QED BY <2>1, <2>2, <1>6, <1>10 DEF WholeLife
<1> QED BY <1>1, <1>9, <1>10

LEMMA TradeLife ==
    ASSUME BookInv, NEW P, Life(P), MatchOne,
           quote' = quote, next_id' = next_id, answers' = answers, crossed' = crossed
    PROVE  Life(P)' /\ (WholeLife(P) => WholeLife(P)')
<1>1. PICK maker \in RestingOrders, q \in Nat :
         /\ maker.id \in DOMAIN order_index /\ maker.id # incoming.id
         /\ FilledNow' = FilledNow \cup {maker.id}
         /\ incoming # NoOrder /\ incoming' # NoOrder /\ incoming'.id = incoming.id
         /\ q > 0 /\ q <= incoming.quantity /\ q <= maker.quantity
         /\ q = incoming.quantity \/ q = maker.quantity
         /\ incoming'.quantity = incoming.quantity - q
         /\ \/ /\ q = maker.quantity /\ RestingOrders' = RestingOrders \ {maker}
               /\ DOMAIN order_index' = DOMAIN order_index \ {maker.id}
            \/ q # maker.quantity /\ DOMAIN order_index' = DOMAIN order_index
  BY TradeMovesIds, Zenon
<1>2. PICK x : x = maker.id
  OBVIOUS
<1>3. /\ P \in Seq(RequestMsgs) /\ Orderly(P)
      /\ Ledger(NewIn(P), CancelIn(P), Quoted, OwnResting, OwnHand, Filled, crossed, next_id)
  BY DEF Life
<1>4. Quoted' = Quoted /\ OwnHand' = OwnHand /\ FilledIn(answers)' = FilledIn(answers)
  BY <1>1 DEF Quoted, OwnHand, FilledIn, Own, OtherIds
<1>5. /\ OwnResting' \subseteq OwnResting /\ OwnResting \subseteq OwnResting' \cup {x}
      /\ x \notin OwnHand
      /\ q = maker.quantity => x \notin OwnResting'
  BY <1>1, <1>2 DEF OwnResting, OwnHand, Own, OtherIds
<1>6. PICK R1 : R1 = OwnResting'
  OBVIOUS
<1>7. /\ Ledger(NewIn(P), CancelIn(P), Quoted, R1, OwnHand, Filled', crossed, next_id)
      /\ Whole(NewIn(P), CancelIn(P), Quoted, OwnResting, OwnHand, Filled) /\ q = maker.quantity =>
         Whole(NewIn(P), CancelIn(P), Quoted, R1, OwnHand, Filled')
  <2>1. CASE Own(x)
    <3>1. Filled' = Filled \cup {x}
      BY <1>1, <1>2, <1>4, <2>1 DEF Filled, Own, OtherIds
    <3>2. x \in OwnResting
      BY <1>1, <1>2, <2>1 DEF OwnResting
    <3>3. /\ Ledger(NewIn(P), CancelIn(P), Quoted, R1, OwnHand, Filled \cup {x}, crossed, next_id)
          /\ Whole(NewIn(P), CancelIn(P), Quoted, OwnResting, OwnHand, Filled) /\ x \notin R1 =>
             Whole(NewIn(P), CancelIn(P), Quoted, R1, OwnHand, Filled \cup {x})
      BY <1>3, <1>5, <1>6, <3>2, LedgerTrade
    <3> QED BY <3>1, <3>3, <1>5, <1>6
  <2>2. CASE ~Own(x)
    <3>1. Filled' = Filled
      BY <1>1, <1>2, <1>4, <2>2 DEF Filled, Own, OtherIds
    <3>2. x \notin OwnResting
      BY <2>2 DEF OwnResting
    <3>3. R1 = OwnResting
      BY <3>2, <1>5, <1>6
    <3> QED BY <3>1, <3>3, <1>3
  <2> QED BY <2>1, <2>2
<1>8. Life(P)'
  BY <1>1, <1>3, <1>4, <1>6, <1>7 DEF Life
<1>9. ASSUME WholeLife(P) PROVE WholeLife(P)'
  <2>1. maker.quantity = Size /\ incoming.quantity \in {0, Size} /\ Size \in Nat
    BY <1>1, <1>9, SessionAssumption, QuantitiesAssumption DEF WholeLife
  <2>2. q = maker.quantity /\ incoming'.quantity = 0
    BY <1>1, <2>1
  <2>3. RestingOrders' \subseteq RestingOrders
    BY <1>1, <2>2
  <2>4. Whole(NewIn(P), CancelIn(P), Quoted', OwnResting', OwnHand', Filled')
    BY <1>4, <1>6, <1>7, <1>9, <2>2 DEF WholeLife
  <2> QED BY <2>2, <2>3, <2>4, <1>9 DEF WholeLife
<1> QED BY <1>8, <1>9

LEMMA PollLife ==
    ASSUME NEW P, Life(P), QuoterOK, NEW reqs, NEW msgs, WireOK(reqs, msgs), MCPollEvents
    PROVE  Life(P)' /\ (WholeLife(P) => WholeLife(P)')
<1>1. /\ events \in Seq(AnswerMsgs) /\ msgs \in Seq(AnswerMsgs) /\ answers = Cat(events, msgs)
      /\ answers' = msgs
  BY PollWire DEF WireOK, Carries, Cat
<1>2. /\ quote' = on_fills(events) /\ next_id' = next_id /\ crossed' = crossed /\ UNCHANGED bookVars
  BY DEF MCPollEvents, PollEvents
<1>3. ToSet(answers) = ToSet(events) \cup ToSet(msgs)
  BY <1>1, CatLaws
<1>4. FilledIn(answers) = FilledIn(events) \cup FilledIn(msgs) /\ FilledIn(answers)' = FilledIn(msgs)
  BY <1>1, <1>3 DEF FilledIn
<1>5. /\ OwnResting' = OwnResting /\ OwnHand' = OwnHand /\ RestingOrders' = RestingOrders
      /\ incoming' = incoming /\ fills' = fills /\ FilledNow' = FilledNow
  BY <1>2 DEF bookVars, OwnResting, OwnHand, RestingOrders, FilledNow, Own, OtherIds
<1>6. \A s \in Sides : quote'[s] = IF quote[s] # NoQuote /\ quote[s].id \in FilledIn(events)
                                   THEN NoQuote ELSE quote[s]
  <2>1. ASSUME NEW s \in Sides
        PROVE (\E i \in 1..Len(events) : events[i].tag = "Fill" /\ events[i].resting_order_id = quote[s].id)
                <=> quote[s].id \in FilledIn(events)
    <3>1. \A m : m \in ToSet(events) <=> \E i \in 1..Len(events) : m = events[i]
      BY <1>1, ToSetMember
    <3> QED BY <3>1 DEF FilledIn
  <2> QED BY <2>1, <1>2, Zenon DEF on_fills
<1>7. PICK Q1, F1 : Q1 = Quoted' /\ F1 = Filled'
  OBVIOUS
<1>8. Quoted' = Quoted \ FilledIn(events)
  <2>1. ASSUME NEW id \in Quoted' PROVE id \in Quoted \ FilledIn(events)
    <3>1. PICK s \in Sides : quote'[s] # NoQuote /\ id = quote'[s].id
      BY <2>1 DEF Quoted
    <3>2. quote'[s] = quote[s] /\ quote[s].id \notin FilledIn(events)
      BY <3>1, <1>6
    <3> QED BY <3>1, <3>2 DEF Quoted
  <2>2. ASSUME NEW id \in Quoted \ FilledIn(events) PROVE id \in Quoted'
    <3>1. PICK s \in Sides : quote[s] # NoQuote /\ id = quote[s].id
      BY <2>2 DEF Quoted
    <3>2. quote'[s] = quote[s]
      BY <3>1, <2>2, <1>6
    <3> QED BY <3>1, <3>2 DEF Quoted
  <2> QED BY <2>1, <2>2
<1>9. \A id \in Quoted : Own(id)
  BY GivenOutIsOwn DEF Quoted, QuoterOK, Own
<1>10. /\ Q1 \subseteq Quoted /\ F1 \subseteq Filled /\ Quoted \ Q1 \subseteq Filled
       /\ Q1 \cap Filled \subseteq F1
  BY <1>4, <1>5, <1>7, <1>8, <1>9 DEF Filled, Own, OtherIds
<1>11. /\ Ledger(NewIn(P), CancelIn(P), Q1, OwnResting, OwnHand, F1, crossed, next_id)
       /\ Whole(NewIn(P), CancelIn(P), Quoted, OwnResting, OwnHand, Filled) =>
          Whole(NewIn(P), CancelIn(P), Q1, OwnResting, OwnHand, F1)
  <2>1. Ledger(NewIn(P), CancelIn(P), Quoted, OwnResting, OwnHand, Filled, crossed, next_id)
    BY DEF Life
  <2> QED BY <2>1, <1>10, LedgerPoll
<1>12. Life(P)'
  BY <1>2, <1>5, <1>7, <1>11 DEF Life
<1>13. ASSUME WholeLife(P) PROVE WholeLife(P)'
  BY <1>5, <1>7, <1>11, <1>13 DEF WholeLife
<1> QED BY <1>12, <1>13

LEMMA AnswerLife ==
    ASSUME BookInv, BookFits, NEW P, Life(P), QuoterOK, MCAnswer, NEW ns \in Seq(AnswerMsgs),
           answers \in Seq(AnswerMsgs), answers' = answers \o ns,
           \A m \in ToSet(ns) : m \in AckMsgs \/ m \in ToSet(OwnFills),
           ToSet(OwnFills) \subseteq ToSet(ns)
    PROVE  Life(P)' /\ (WholeLife(P) => WholeLife(P)')
<1>1. /\ Return /\ quote' = quote /\ next_id' = next_id
      /\ crossed' = IF Own(incoming.id) /\ ~Rests(incoming) THEN crossed \cup {incoming.id} ELSE crossed
  BY DEF MCAnswer, Answer, sessionVars
<1>2. /\ incoming # NoOrder /\ incoming' = NoOrder /\ fills' = <<>>
      /\ RestingOrders' = RestingOrders \cup (IF Rests(incoming) THEN {incoming} ELSE {})
      /\ DOMAIN order_index' = DOMAIN order_index \cup (IF Rests(incoming) THEN {incoming.id} ELSE {})
      /\ incoming.quantity \in Nat
  BY <1>1, ReturnMovesIds
<1>3. /\ OwnFills \in Seq(FillMsgs) /\ fills \in Seq(Fill)
      /\ \A i \in 1..Len(fills) : Own(fills[i].resting_order_id) =>
            \E m \in ToSet(OwnFills) : m.resting_order_id = fills[i].resting_order_id
      /\ \A m \in ToSet(OwnFills) : \E i \in 1..Len(fills) : m.resting_order_id = fills[i].resting_order_id
  BY OwnFillsTyped, BookInvParts DEF LocalsOK
<1>4. /\ \A m \in ToSet(OwnFills) : m.tag = "Fill"
      /\ \A m \in AckMsgs : m.tag # "Fill"
  <2>1. \A m \in ToSet(OwnFills) : m \in FillMsgs
    BY <1>3, ToSetMember
  <2> QED BY <2>1 DEF FillMsgs, AckMsgs
<1>5. FilledIn(ns) = {m.resting_order_id : m \in ToSet(OwnFills)}
  <2>1. {a \in ToSet(ns) : a.tag = "Fill"} = ToSet(OwnFills)
    BY <1>4
  <2> QED BY <2>1 DEF FilledIn
<1>6. \A id : Own(id) => (id \in FilledIn(ns) <=> id \in FilledNow)
  <2>1. \A x : x \in ToSet(fills) <=> \E i \in 1..Len(fills) : x = fills[i]
    BY <1>3, ToSetMember
  <2>2. ASSUME NEW id, Own(id), id \in FilledIn(ns) PROVE id \in FilledNow
    <3>1. PICK m \in ToSet(OwnFills) : id = m.resting_order_id
      BY <2>2, <1>5
    <3>2. PICK i \in 1..Len(fills) : id = fills[i].resting_order_id
      BY <3>1, <1>3
    <3> QED BY <3>2, <2>1 DEF FilledNow
  <2>3. ASSUME NEW id, Own(id), id \in FilledNow PROVE id \in FilledIn(ns)
    <3>1. PICK f \in ToSet(fills) : id = f.resting_order_id
      BY <2>3 DEF FilledNow
    <3>2. PICK i \in 1..Len(fills) : f = fills[i]
      BY <2>1
    <3>3. PICK m \in ToSet(OwnFills) : id = m.resting_order_id
      BY <3>1, <3>2, <2>3, <1>3
    <3> QED BY <3>3, <1>5
  <2> QED BY <2>2, <2>3
<1>7. Filled' = Filled
  <2>1. answers' = Cat(answers, ns)
    BY DEF Cat
  <2>2. ToSet(answers') = ToSet(answers) \cup ToSet(ns)
    BY <2>1, CatLaws
  <2>3. FilledIn(answers)' = FilledIn(answers) \cup FilledIn(ns)
    BY <2>2 DEF FilledIn
  <2>4. FilledNow' = {}
    BY <1>2 DEF FilledNow, ToSet
  <2> QED BY <2>3, <2>4, <1>6 DEF Filled, Own, OtherIds
<1>8. PICK R1, X1 : R1 = OwnResting' /\ X1 = crossed'
  OBVIOUS
<1>9. \/ R1 = OwnResting \cup OwnHand /\ X1 = crossed
      \/ R1 = OwnResting /\ X1 = crossed \cup OwnHand
  <2>1. CASE Rests(incoming)
    BY <2>1, <1>1, <1>2, <1>8 DEF OwnResting, OwnHand, Own, OtherIds
  <2>2. CASE ~Rests(incoming)
    BY <2>2, <1>1, <1>2, <1>8 DEF OwnResting, OwnHand, Own, OtherIds
  <2> QED BY <2>1, <2>2
<1>10. Quoted' = Quoted /\ OwnHand' = {}
  BY <1>1, <1>2 DEF Quoted, OwnHand
<1>11. /\ P \in Seq(RequestMsgs) /\ Orderly(P)
       /\ Ledger(NewIn(P), CancelIn(P), Quoted, OwnResting, OwnHand, Filled, crossed, next_id)
  BY DEF Life
<1>12. /\ Ledger(NewIn(P), CancelIn(P), Quoted, R1, {}, Filled, X1, next_id)
       /\ Whole(NewIn(P), CancelIn(P), Quoted, OwnResting, OwnHand, Filled) =>
          Whole(NewIn(P), CancelIn(P), Quoted, R1, {}, Filled)
  BY <1>9, <1>11, LedgerReturn
<1>13. Life(P)'
  BY <1>1, <1>2, <1>7, <1>8, <1>10, <1>11, <1>12 DEF Life
<1>14. ASSUME WholeLife(P) PROVE WholeLife(P)'
  <2>1. \A o \in RestingOrders' : o.quantity = Size
    <3>1. Rests(incoming) => incoming.quantity = Size
      BY <1>2, <1>14 DEF Rests, WholeLife
    <3> QED BY <3>1, <1>2, <1>14 DEF WholeLife
  <2> QED BY <2>1, <1>2, <1>7, <1>8, <1>10, <1>12, <1>14 DEF WholeLife
<1> QED BY <1>13, <1>14

-----------------------------------------------------------------------------
(* What is still to be done: the requests on the wire, then the ones the   *)
(* quoter has decided on.                                                  *)

LEMMA OneThen ==
    ASSUME NEW M, NEW h \in M, NEW q \in Seq(M), NEW u, u = Cat(One(h), q)
    PROVE  u # <<>> /\ Head(u) = h /\ Tail(u) = q
<1>1. PICK o : o = One(h)
  OBVIOUS
<1>2. o \in Seq(M) /\ Len(o) = 1 /\ o[1] = h
  BY <1>1, OneLaws
<1>3. u = o \o q
  BY <1>1 DEF Cat
<1>4. /\ u \in Seq(M) /\ Len(q) \in Nat /\ Len(u) = Len(o) + Len(q)
      /\ \A i \in 1..Len(o) : i \in 1..Len(u) /\ u[i] = o[i]
      /\ \A i \in 1..Len(q) : Len(o) + i \in 1..Len(u) /\ u[Len(o) + i] = q[i]
  <2>1. o \in Seq(M) /\ q \in Seq(M)
    BY <1>2
  <2> QED BY <2>1, <1>3, ConcatFacts
<1>5. u # <<>> /\ u[1] = h /\ Len(u) = Len(q) + 1 /\ \A i \in 1..Len(q) : u[i + 1] = q[i]
  <2>1. 1 \in 1..Len(o)
    BY <1>2
  <2>2. u[1] = h /\ Len(u) = Len(q) + 1
    BY <2>1, <1>2, <1>4
  <2>3. u # <<>>
    BY <2>2, <1>4, EmptySeq
  <2>4. ASSUME NEW i \in 1..Len(q) PROVE u[i + 1] = q[i]
    <3>1. 1 + i = i + 1
      OBVIOUS
    <3> QED BY <3>1, <1>2, <1>4
  <2> QED BY <2>2, <2>3, <2>4
<1>6. PICK r : r = Tail(u)
  OBVIOUS
<1>7. Head(u) = u[1] /\ r \in Seq(M) /\ Len(r) = Len(u) - 1 /\ \A i \in 1..Len(r) : r[i] = u[i + 1]
  BY <1>4, <1>5, <1>6, HeadTailProperties
<1>8. Len(r) = Len(q) /\ \A i \in 1..Len(q) : r[i] = q[i]
  BY <1>4, <1>5, <1>7
<1>9. r = q
  BY <1>7, <1>8, SeqEqual
<1> QED BY <1>5, <1>6, <1>7, <1>9

(* The first of them leaves, or moves from the quoter to the wire.         *)
LEMMA ToDoShrinks ==
    ASSUME NEW M, NEW s \in Seq(M), s # <<>>, NEW t \in Seq(M)
    PROVE  /\ Cat(s, t) # <<>> /\ Head(Cat(s, t)) = Head(s) /\ Tail(Cat(s, t)) = Cat(Tail(s), t)
<1>1. PICK h, r, q : h = Head(s) /\ r = Tail(s) /\ q = Cat(r, t)
  OBVIOUS
<1>2. h \in M /\ r \in Seq(M) /\ s = Cat(One(h), r)
  BY <1>1, TailSet, HeadCatTail
<1>3. q \in Seq(M) /\ One(h) \in Seq(M) /\ Cat(s, t) = Cat(One(h), q)
  <2>1. PICK o : o = One(h)
    OBVIOUS
  <2>2. o \in Seq(M)
    BY <2>1, <1>2, OneLaws
  <2>3. Cat(Cat(o, r), t) = Cat(o, Cat(r, t))
    BY <2>2, <1>2, CatAssociates
  <2>4. Cat(r, t) \in Seq(M)
    BY <1>2, CatLaws
  <2> QED BY <2>1, <2>2, <2>3, <2>4, <1>1, <1>2
<1>4. Cat(One(h), q) # <<>> /\ Head(Cat(One(h), q)) = h /\ Tail(Cat(One(h), q)) = q
  BY <1>2, <1>3, OneThen
<1> QED BY <1>1, <1>3, <1>4

LEMMA ToDoMoves ==
    ASSUME NEW M, NEW s \in Seq(M), NEW t \in Seq(M), t # <<>>
    PROVE  Cat(Cat(s, One(Head(t))), Tail(t)) = Cat(s, t)
<1>1. PICK h, r : h = Head(t) /\ r = Tail(t)
  OBVIOUS
<1>2. h \in M /\ r \in Seq(M) /\ t = Cat(One(h), r) /\ One(h) \in Seq(M)
  BY <1>1, TailSet, HeadCatTail, OneLaws
<1>3. PICK o : o = One(h)
  OBVIOUS
<1>4. Cat(Cat(s, o), r) = Cat(s, Cat(o, r))
  BY <1>2, <1>3, CatAssociates
<1> QED BY <1>1, <1>2, <1>3, <1>4

(* The bytes carry some requests and answers, and with what is still to be *)
(* done the ids are accounted for.                                         *)
Alive ==
    \E reqs, msgs, P :
        /\ WireOK(reqs, msgs) /\ P = Cat(reqs, actions) /\ Life(P)
        /\ WholeQuotes => WholeLife(P)

LEMMA AliveAfter ==
    ASSUME NEW r1, NEW m1, NEW P1, WireOK(r1, m1)', P1 = Cat(r1, actions'), Life(P1)',
           WholeQuotes => WholeLife(P1)'
    PROVE  Alive'
BY Zenon DEF Alive

LEMMA InitAlive == MCInit => Alive
<1> SUFFICES ASSUME MCInit PROVE Alive
  OBVIOUS
<1>1. WireOK(<<>>, <<>>)
  BY InitSession
<1>2. /\ actions = <<>> /\ incoming = NoOrder /\ fills = <<>> /\ answers = <<>> /\ next_id = 1 /\ crossed = {}
      /\ \A s \in Sides : quote[s] = NoQuote
  BY DEF MCInit, SessionInit, BookInit
<1>3. BookInv
  BY InitSession DEF SessionInv
<1>4. DOMAIN order_index = {} /\ RestingOrders = {}
  <2>1. DOMAIN order_index = {}
    BY DEF MCInit, SessionInit, BookInit
  <2>2. Abstract!IdsOf(RestingOrders) = DOMAIN order_index
    BY <1>3, BookInvParts, ContainsIsResting
  <2> QED BY <2>1, <2>2 DEF Abstract!IdsOf
<1>5. PICK P : P = Cat(<<>>, actions)
  OBVIOUS
<1>6. P = <<>> /\ P \in Seq(RequestMsgs)
  <2>1. <<>> \in Seq(RequestMsgs)
    BY EmptySeq
  <2> QED BY <2>1, <1>2, <1>5, CatLaws
<1>7. ToSet(<<>>) = {} /\ Len(<<>>) = 0
  BY DEF ToSet
<1>8. NewIn(P) = {} /\ CancelIn(P) = {} /\ Orderly(P)
  BY <1>6, <1>7 DEF NewIn, CancelIn, Orderly
<1>9. Quoted = {} /\ OwnResting = {} /\ OwnHand = {} /\ Filled = {}
  BY <1>2, <1>4, <1>7 DEF Quoted, OwnResting, OwnHand, Filled, FilledIn, FilledNow
<1>10. Life(P)
  BY <1>2, <1>6, <1>8, <1>9 DEF Life, Ledger
<1>11. WholeLife(P)
  BY <1>2, <1>4, <1>6, <1>7, <1>8, <1>9 DEF WholeLife, Whole
<1> QED BY <1>1, <1>5, <1>10, <1>11, Zenon DEF Alive

LEMMA NextAlive ==
    ASSUME SessionInv, Alive, [MCNext]_<<vars, hvars>>
    PROVE  Alive'
<1>1. BookInv /\ BookFits /\ QuoterOK
  BY DEF SessionInv
<1>2. PICK reqs, msgs, P : /\ WireOK(reqs, msgs) /\ P = Cat(reqs, actions) /\ Life(P)
                           /\ WholeQuotes => WholeLife(P)
  BY Zenon DEF Alive
<1>3. /\ reqs \in Seq(RequestMsgs) /\ actions \in Seq(RequestMsgs)
      /\ msgs \in Seq(AnswerMsgs) /\ events \in Seq(AnswerMsgs) /\ answers = events \o msgs
  BY <1>1, <1>2 DEF WireOK, Carries, QuoterOK
<1>4. CASE \/ (LoopEnds \/ SendDone \/ PollTimesOut \/ SendRaises) /\ UNCHANGED hvars
           \/ UNCHANGED <<vars, hvars>>
  <2>1. /\ events' = events /\ answers' = answers /\ to_server' = to_server
        /\ to_client' = to_client /\ reader' = reader /\ tag_byte' = tag_byte
        /\ quote' = quote /\ next_id' = next_id /\ crossed' = crossed /\ actions' = actions
        /\ order_index' = order_index /\ book' = book /\ incoming' = incoming /\ fills' = fills
    BY <1>4 DEF LoopEnds, SendDone, PollTimesOut, SendRaises, vars, wireVars, sessionVars, bookVars,
                readerVars, hvars
  <2>2. Filled' = Filled
    BY <2>1 DEF Filled, FilledIn, FilledNow, Own, OtherIds
  <2>3. WireOK(reqs, msgs)'
    BY <2>1, <1>2, WireStays
  <2>4. Life(P)' /\ (WholeLife(P) => WholeLife(P)')
    BY <2>1, <2>2, <1>2, LifeStays
  <2> QED BY <2>1, <2>3, <2>4, <1>2, AliveAfter
<1>5. CASE \E price \in FeedPrices : Tick(price) /\ UNCHANGED hvars
  <2>1. PICK price \in FeedPrices : Tick(price) /\ UNCHANGED hvars
    BY <1>5
  <2>2. /\ events' = events /\ answers' = answers /\ to_server' = to_server
        /\ to_client' = to_client /\ reader' = reader /\ tag_byte' = tag_byte
    BY <2>1 DEF Tick, wireVars, readerVars, hvars
  <2>3. WireOK(reqs, msgs)'
    BY <2>2, <1>2, WireStays
  <2>4. P = reqs
    <3>1. actions = <<>>
      BY <2>1, <1>1 DEF Tick, QuoterOK
    <3> QED BY <3>1, <1>2, <1>3, CatLaws
  <2>5. PICK P1 : P1 = Cat(P, actions')
    OBVIOUS
  <2>6. Life(P1)' /\ (WholeLife(P) => WholeLife(P1)')
    BY <2>1, <2>5, <1>1, <1>2, TickLife
  <2> QED BY <2>3, <2>4, <2>5, <2>6, <1>2, AliveAfter
<1>6. CASE Send /\ UNCHANGED hvars
  <2>1. PICK r1 : r1 = reqs \o << Head(actions) >>
    OBVIOUS
  <2>2. WireOK(r1, msgs)'
    BY <1>1, <1>2, <1>6, <2>1, SendWire DEF hvars
  <2>3. /\ actions # <<>> /\ actions' = Tail(actions)
        /\ quote' = quote /\ next_id' = next_id /\ answers' = answers /\ crossed' = crossed
        /\ order_index' = order_index /\ book' = book /\ incoming' = incoming /\ fills' = fills
    BY <1>6 DEF Send, hvars, bookVars
  <2>4. Filled' = Filled
    BY <2>3 DEF Filled, FilledIn, FilledNow, Own, OtherIds
  <2>5. P = Cat(r1, actions')
    <3>1. Cat(Cat(reqs, One(Head(actions))), Tail(actions)) = Cat(reqs, actions)
      BY <1>3, <2>3, ToDoMoves
    <3>2. r1 = Cat(reqs, One(Head(actions)))
      BY <2>1 DEF Cat, One
    <3> QED BY <3>1, <3>2, <2>3, <1>2
  <2>6. Life(P)' /\ (WholeLife(P) => WholeLife(P)')
    BY <2>3, <2>4, <1>2, LifeStays
  <2> QED BY <2>2, <2>5, <2>6, <1>2, AliveAfter
<1>7. CASE MCPollEvents
  <2>1. WireOK(reqs, msgs)' /\ actions' = actions
    BY <1>2, <1>7, PollWire DEF MCPollEvents, PollEvents
  <2>2. Life(P)' /\ (WholeLife(P) => WholeLife(P)')
    BY <1>1, <1>2, <1>7, PollLife
  <2> QED BY <2>1, <2>2, <1>2, AliveAfter
<1>8. CASE MCReaderStep
  <2>1. /\ quote' = quote /\ next_id' = next_id /\ answers' = answers /\ crossed' = crossed
        /\ order_index' = order_index /\ book' = book /\ incoming' = incoming /\ fills' = fills
        /\ actions' = actions
    BY <1>8 DEF MCReaderStep, ReaderStep, ReadTag, ReadPayload, hvars, bookVars, sessionVars
  <2>2. Filled' = Filled
    BY <2>1 DEF Filled, FilledIn, FilledNow, Own, OtherIds
  <2>3. PICK m1 : WireOK(reqs, m1)'
    BY <1>2, <1>8, ReadTagWire, ReadPayloadWire DEF MCReaderStep, ReaderStep, hvars
  <2>4. Life(P)' /\ (WholeLife(P) => WholeLife(P)')
    BY <2>1, <2>2, <1>2, LifeStays
  <2> QED BY <2>1, <2>3, <2>4, <1>2, AliveAfter
<1>9. CASE ServeNewOrder /\ UNCHANGED hvars
  <2>1. /\ WireOK(Tail(reqs), msgs)' /\ reqs # <<>>
        /\ \E m \in NewOrderMsgs :
              /\ m = Head(reqs)
              /\ SubmitBegin(m.client_order_id, m.side, m.order_type, m.price_ticks, m.quantity)
    BY <1>2, <1>9, ServeNewOrderWire DEF hvars
  <2>2. PICK m \in NewOrderMsgs :
           /\ m = Head(reqs)
           /\ SubmitBegin(m.client_order_id, m.side, m.order_type, m.price_ticks, m.quantity)
    BY <2>1
  <2>3. quote' = quote /\ next_id' = next_id /\ answers' = answers /\ crossed' = crossed /\ actions' = actions
    BY <1>9 DEF ServeNewOrder, hvars, sessionVars
  <2>4. P # <<>> /\ Head(P) = m /\ Tail(P) = Cat(Tail(reqs), actions)
    BY <1>2, <1>3, <2>1, <2>2, ToDoShrinks
  <2>5. Life(Tail(P))' /\ (WholeLife(P) => WholeLife(Tail(P))')
    BY <1>1, <1>2, <2>2, <2>3, <2>4, SubmitLife
  <2>6. PICK r1, P1 : r1 = Tail(reqs) /\ P1 = Tail(P)
    OBVIOUS
  <2>7. WireOK(r1, msgs)' /\ P1 = Cat(r1, actions') /\ Life(P1)' /\ (WholeQuotes => WholeLife(P1)')
    BY <2>1, <2>3, <2>4, <2>5, <2>6, <1>2, Zenon
  <2> QED BY <2>7, AliveAfter
<1>10. CASE MCServeCancel
  <2>1. /\ reqs # <<>>
        /\ \E m \in CancelMsgs : /\ m = Head(reqs)
                                 /\ CancelFound(m.client_order_id) \/ CancelNotFound(m.client_order_id)
        /\ \E ack \in AckMsgs : /\ answers' = answers \o <<ack>>
                                /\ WireOK(Tail(reqs), msgs \o <<ack>>)'
    BY <1>2, <1>10, ServeCancelWire
  <2>2. PICK m \in CancelMsgs : /\ m = Head(reqs)
                                /\ CancelFound(m.client_order_id) \/ CancelNotFound(m.client_order_id)
    BY <2>1
  <2>3. PICK ack \in AckMsgs : /\ answers' = answers \o <<ack>>
                               /\ WireOK(Tail(reqs), msgs \o <<ack>>)'
    BY <2>1
  <2>4. quote' = quote /\ next_id' = next_id /\ crossed' = crossed /\ actions' = actions
    BY <1>10 DEF MCServeCancel, ServeCancel, sessionVars
  <2>5. FilledIn(answers)' = FilledIn(answers)
    <3>1. ack \in AnswerMsgs /\ ack.tag # "Fill"
      BY DEF AnswerMsgs, AckMsgs
    <3>2. PICK o : o = One(ack)
      OBVIOUS
    <3>3. o \in Seq(AnswerMsgs) /\ ToSet(o) = {ack}
      BY <3>1, <3>2, <1>3, OneLaws
    <3>4. answers \in Seq(AnswerMsgs)
      BY <1>3, CatLaws DEF Cat
    <3>5. ToSet(Cat(answers, o)) = ToSet(answers) \cup {ack}
      BY <3>3, <3>4, CatLaws
    <3>6. ToSet(answers') = ToSet(answers) \cup {ack}
      BY <3>2, <3>5, <2>3, Zenon DEF Cat, One
    <3> QED BY <3>1, <3>6 DEF FilledIn
  <2>6. P # <<>> /\ Head(P) = m /\ Tail(P) = Cat(Tail(reqs), actions)
    BY <1>2, <1>3, <2>1, <2>2, ToDoShrinks
  <2>7. Life(Tail(P))' /\ (WholeLife(P) => WholeLife(Tail(P))')
    BY <1>1, <1>2, <2>2, <2>4, <2>5, <2>6, CancelLife
  <2>8. PICK r1, P1, m1 : r1 = Tail(reqs) /\ P1 = Tail(P) /\ m1 = msgs \o <<ack>>
    OBVIOUS
  <2>9. WireOK(r1, m1)' /\ P1 = Cat(r1, actions') /\ Life(P1)' /\ (WholeQuotes => WholeLife(P1)')
    BY <2>3, <2>4, <2>6, <2>7, <2>8, <1>2, Zenon
  <2> QED BY <2>9, AliveAfter
<1>11. CASE Trade /\ UNCHANGED hvars
  <2>1. /\ events' = events /\ answers' = answers /\ to_server' = to_server
        /\ to_client' = to_client /\ reader' = reader /\ tag_byte' = tag_byte
        /\ quote' = quote /\ next_id' = next_id /\ crossed' = crossed /\ actions' = actions
        /\ MatchOne
    BY <1>11 DEF Trade, wireVars, sessionVars, readerVars, hvars
  <2>2. WireOK(reqs, msgs)'
    BY <2>1, <1>2, WireStays
  <2>3. Life(P)' /\ (WholeLife(P) => WholeLife(P)')
    BY <2>1, <1>1, <1>2, TradeLife
  <2> QED BY <2>1, <2>2, <2>3, <1>2, AliveAfter
<1>12. CASE MCAnswer
  <2>1. PICK ns \in Seq(AnswerMsgs) :
           /\ answers' = answers \o ns /\ WireOK(reqs, msgs \o ns)'
           /\ \A m \in ToSet(ns) : m \in AckMsgs \/ m \in ToSet(OwnFills)
           /\ ToSet(OwnFills) \subseteq ToSet(ns)
    BY <1>1, <1>2, <1>12, AnswerWire
  <2>2. answers \in Seq(AnswerMsgs)
    BY <1>3, CatLaws DEF Cat
  <2>3. Life(P)' /\ (WholeLife(P) => WholeLife(P)')
    BY <1>1, <1>2, <1>12, <2>1, <2>2, AnswerLife
  <2>4. actions' = actions
    BY <1>12 DEF MCAnswer, Answer, sessionVars
  <2>5. PICK m1 : m1 = msgs \o ns
    OBVIOUS
  <2>6. WireOK(reqs, m1)' /\ P = Cat(reqs, actions') /\ Life(P)' /\ (WholeQuotes => WholeLife(P)')
    BY <2>1, <2>3, <2>4, <2>5, <1>2, Zenon
  <2> QED BY <2>6, AliveAfter
<1>13. CASE \E o \in Others : OtherSubmits(o) /\ UNCHANGED hvars
  <2>1. PICK o \in Others : OtherSubmits(o) /\ UNCHANGED hvars
    BY <1>13
  <2>2. /\ events' = events /\ answers' = answers /\ to_server' = to_server
        /\ to_client' = to_client /\ reader' = reader /\ tag_byte' = tag_byte /\ actions' = actions
    BY <2>1 DEF OtherSubmits, sessionVars, readerVars, hvars
  <2>3. WireOK(reqs, msgs)'
    BY <2>2, <1>2, WireStays
  <2>4. Life(P)' /\ (WholeQuotes /\ WholeLife(P) => WholeLife(P)')
    BY <2>1, <1>1, <1>2, OtherLife
  <2> QED BY <2>2, <2>3, <2>4, <1>2, AliveAfter
<1> QED BY <1>4, <1>5, <1>6, <1>7, <1>8, <1>9, <1>10, <1>11, <1>12, <1>13
        DEF MCNext, MCMainStep, MCServerStep

AliveInv == SessionInv /\ Alive

(* The inductive invariant: the bytes on the wire are messages, and every  *)
(* id that on_price gave out is accounted for, from the decision to send   *)
(* the order to the drain of its last fill.                                *)
THEOREM AliveInvariant == MCSpec => []AliveInv
<1>1. MCInit => AliveInv
  BY InitSession, InitAlive DEF AliveInv
<1>2. AliveInv /\ [MCNext]_<<vars, hvars>> => AliveInv'
  BY NextSession, NextAlive DEF AliveInv
<1> QED BY <1>1, <1>2, PTL DEF MCSpec

LEMMA AliveGivesMissing == AliveInv => MissingQuoteWasCrossed
<1> SUFFICES ASSUME AliveInv, Quiet PROVE Quoted \ OwnResting \subseteq crossed
  BY DEF MissingQuoteWasCrossed
<1>1. QuoterOK
  BY DEF AliveInv, SessionInv
<1>2. PICK reqs, msgs, P : WireOK(reqs, msgs) /\ P = Cat(reqs, actions) /\ Life(P)
  BY Zenon DEF AliveInv, Alive
<1>3. /\ actions = <<>> /\ to_server = <<>> /\ to_client = <<>> /\ reader = "tag" /\ events = <<>>
      /\ incoming = NoOrder
  BY <1>1 DEF Quiet, QuoterOK
<1>4. /\ Carries(to_server, RequestCode, RequestMsgs, reqs) /\ Carries(Unread, AnswerCode, AnswerMsgs, msgs)
      /\ reqs \in Seq(RequestMsgs) /\ msgs \in Seq(AnswerMsgs) /\ answers = events \o msgs
  BY <1>2 DEF WireOK, Carries
<1>5. reqs = <<>>
  <2>1. CASE reqs # <<>>
    <3>1. to_server # <<>>
      BY <2>1, <1>4, CodingsAre, CarriesFirst, Zenon
    <3> QED BY <3>1, <1>3
  <2> QED BY <2>1
<1>6. msgs = <<>>
  <2>1. CASE msgs # <<>>
    <3>1. PICK u : u = Unread
      OBVIOUS
    <3>2. u # <<>>
      BY <2>1, <3>1, <1>4, CodingsAre, CarriesFirst, Zenon
    <3>3. Unread = <<>> \o <<>>
      BY <1>3 DEF Unread
    <3> QED BY <3>1, <3>2, <3>3
  <2> QED BY <2>1
<1>7. P = <<>> /\ answers = <<>> /\ fills = <<>>
  <2>1. P = <<>> \o <<>> /\ answers = <<>> \o <<>>
    BY <1>2, <1>3, <1>4, <1>5, <1>6 DEF Cat
  <2>2. fills = <<>>
    BY <1>2, <1>3 DEF Life
  <2> QED BY <2>1, <2>2
<1>8. ToSet(<<>>) = {}
  BY DEF ToSet
<1>9. NewIn(P) = {} /\ Filled = {} /\ OwnHand = {}
  BY <1>3, <1>7, <1>8 DEF NewIn, Filled, FilledIn, FilledNow, OwnHand
<1> QED BY <1>2, <1>9 DEF Life, Ledger

LEMMA AliveGivesKnown ==
    ASSUME WholeQuotes
    PROVE  AliveInv => NoOrphanedQuote
<1> SUFFICES ASSUME AliveInv PROVE OwnResting \subseteq Quoted \cup CancelPending
  BY DEF NoOrphanedQuote
<1>1. QuoterOK
  BY DEF AliveInv, SessionInv
<1>2. PICK reqs, msgs, P : WireOK(reqs, msgs) /\ P = Cat(reqs, actions) /\ Life(P) /\ WholeLife(P)
  BY Zenon DEF AliveInv, Alive
<1>3. /\ Carries(to_server, RequestCode, RequestMsgs, reqs)
      /\ reqs \in Seq(RequestMsgs) /\ actions \in Seq(RequestMsgs)
  BY <1>1, <1>2 DEF WireOK, Carries, QuoterOK
<1>4. OwnResting \subseteq Quoted \cup CancelIn(P)
  BY <1>2 DEF WholeLife, Whole
<1>5. ToSet(P) = ToSet(reqs) \cup ToSet(actions)
  BY <1>2, <1>3, CatLaws
<1>6. PICK sent : sent = Frames(to_server)
  OBVIOUS
<1>7. CancelPending = {a.client_order_id : a \in {b \in Range(actions) : b.tag = "Cancel"}}
          \cup {decode_cancel(Tail(m)).client_order_id : m \in {b \in Range(sent) : Head(b) = CANCEL}}
  BY <1>6, Zenon DEF CancelPending
<1>8. ASSUME NEW a \in ToSet(actions), a.tag = "Cancel" PROVE a.client_order_id \in CancelPending
  <2>1. PICK i \in 1..Len(actions) : a = actions[i]
    BY <1>3, ToSetMember
  <2>2. DOMAIN actions = 1..Len(actions)
    BY <1>3
  <2>3. a \in Range(actions)
    BY <2>1, <2>2 DEF Range
  <2> QED BY <2>3, <1>7, <1>8
<1>9. ASSUME NEW a \in ToSet(reqs), a.tag = "Cancel" PROVE a.client_order_id \in CancelPending
  <2>1. PICK i \in 1..Len(reqs) : a = reqs[i]
    BY <1>3, ToSetMember
  <2>2. a \in CancelMsgs
    BY <2>1, <1>3, <1>9, ElementOfSeq, RequestTags
  <2>3. PICK b : b = RequestCode[a]
    OBVIOUS
  <2>4. /\ b = sent[i] /\ i \in DOMAIN sent /\ Head(b) = CANCEL
        /\ decode_cancel(Tail(b)).client_order_id = a.client_order_id
    <3>1. sent = Codes(RequestCode, reqs)
      BY <1>3, <1>6, CodingsAre, CarriesFrames, Zenon
    <3>2. AreCodes(sent, RequestCode, reqs)
      BY <3>1, <1>3, CodingsAre, CodesTyped, Zenon
    <3>3. sent \in Seq(Bytes) /\ Len(sent) = Len(reqs) /\ sent[i] = b
      BY <3>2, <2>1, <2>3 DEF AreCodes
    <3>4. i \in DOMAIN sent
      BY <3>3
    <3>5. Head(b) = CANCEL /\ decode_cancel(Tail(b)).client_order_id = a.client_order_id
      BY <2>2, <2>3, CancelCoded, Zenon
    <3> QED BY <3>3, <3>4, <3>5
  <2>5. b \in Range(sent)
    BY <2>4 DEF Range
  <2> QED BY <2>4, <2>5, <1>7
<1>10. CancelIn(P) \subseteq CancelPending
  BY <1>5, <1>8, <1>9 DEF CancelIn
<1> QED BY <1>4, <1>10

(* on_fill misses no fill of a quote that rested.  Once everything has     *)
(* been answered and drained, a quote the quoter believes in and the book  *)
(* does not have was used up when it arrived, against a stale quote of the *)
(* session; for all sets of orders of the others, all feeds, and however   *)
(* the loop, the reader thread and the server interleave.                  *)
THEOREM NoFillIsMissed == MCSpec => []MissingQuoteWasCrossed
BY AliveInvariant, AliveGivesMissing, PTL

(* As long as the other participants trade quotes as a whole, no order of  *)
(* the session in the book is forgotten: the quoter has it as its quote,   *)
(* or a cancel for it has been decided on and not reached the book.  The   *)
(* hypothesis is needed: on_fill forgets a quote at its first fill, and    *)
(* the rest of one that trades in part has no owner.                       *)
THEOREM WholeQuotesAreKnown ==
    ASSUME WholeQuotes
    PROVE  MCSpec => []NoOrphanedQuote
BY AliveInvariant, AliveGivesKnown, PTL

=============================================================================
