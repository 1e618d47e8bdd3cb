----------------------------- MODULE FrameProofs ----------------------------
(***************************************************************************)
(* Proofs about FrameStream, for bytes and length fields of any size, any  *)
(* limit on payloads and reads, and any streams.                           *)
(***************************************************************************)
EXTENDS FrameStream, SequenceTheorems, WellFoundedInduction, TLAPS

USE FrameAssumption

-----------------------------------------------------------------------------
(* struct.pack and struct.unpack                                           *)

\* A set of natural numbers that is not empty has a least element: what stands
\* for induction in the lemmas below is the least counterexample.
LEMMA LeastElement ==
    ASSUME NEW T \in SUBSET Nat, T # {}
    PROVE  \E m \in T : \A k \in T : m <= k
<1> DEFINE R == OpToRel(<, Nat)
<1>1. \A x, y \in Nat : x < y => <<x, y>> \in R
  BY DEF OpToRel
<1>2. IsWellFoundedOn(R, Nat)
  BY NatLessThanWellFounded
<1> HIDE DEF R
<1>3. PICK x \in T : \A y \in T : ~(<<y, x>> \in R)
  BY <1>2, WFMin
<1>4. ASSUME NEW k \in T PROVE x <= k
  <2>1. k \in Nat /\ x \in Nat
    OBVIOUS
  <2>2. ~(k < x)
    BY <1>1, <1>3, <2>1
  <2> QED
    BY <2>1, <2>2
<1> QED
  BY <1>4

\* Taking the last byte off a number and putting it back.
LEMMA LastByte ==
    /\ \A v \in Nat : \A b \in Byte : /\ Base * v + b \in Nat
                                     /\ (Base * v + b) \div Base = v /\ (Base * v + b) % Base = b
    /\ \A v \in Nat : /\ v \div Base \in Nat /\ v % Base \in Byte
                      /\ Base * (v \div Base) + (v % Base) = v
<1>1. \A v \in Nat : \A b \in 0..(Base - 1) : Base * v + b \in Nat
  OBVIOUS
<1>2. \A v \in Nat : \A b \in 0..(Base - 1) : (Base * v + b) \div Base = v /\ (Base * v + b) % Base = b
  OBVIOUS
<1>3. \A v \in Nat : v \div Base \in Nat /\ v % Base \in 0..(Base - 1)
  OBVIOUS
<1>4. \A v \in Nat : v = Base * (v \div Base) + (v % Base)
  OBVIOUS
<1> QED
  BY <1>1, <1>2, <1>3, <1>4, Zenon DEF Byte

\* If a set of numbers up to n misses 0 and every number whose predecessor it
\* misses, it is empty.
LEMMA NoCounterexample ==
    ASSUME NEW n \in Nat, NEW T \in SUBSET (0..n), 0 \notin T,
           \A i \in 1..n : i - 1 \notin T => i \notin T
    PROVE  T = {}
<1> SUFFICES ASSUME T # {} PROVE FALSE
  OBVIOUS
<1>1. T \in SUBSET Nat
  OBVIOUS
<1>2. PICK m \in T : \A k \in T : m <= k
  BY <1>1, LeastElement
<1>3. m \in 1..n
  OBVIOUS
<1>4. m - 1 \notin T
  BY <1>2, <1>3
<1> QED
  BY <1>3, <1>4

\* f is the function that starts at a and goes on by the steps.
Recursion(f, n, a, step) ==
    f \in [0..n -> Nat] /\ f[0] = a /\ \A i \in 1..n : f[i] = step[i][f[i - 1]]

\* A function defined by recursion on 0..n exists.
LEMMA RecursiveFunction ==
    ASSUME NEW n \in Nat, NEW a \in Nat, NEW step \in [1..n -> [Nat -> Nat]]
    PROVE  \E f : Recursion(f, n, a, step)
<1> DEFINE Good(k, f) == f[0] = a /\ \A i \in 1..k : f[i] = step[i][f[i - 1]]
           T == {k \in 0..n : ~(\E f \in [0..n -> Nat] : Good(k, f))}
<1>1. 0 \notin T
  <2> DEFINE f == [i \in 0..n |-> a]
  <2>1. f \in [0..n -> Nat] /\ f[0] = a
    OBVIOUS
  <2>2. Good(0, f)
    BY <2>1
  <2> QED
    BY <2>1, <2>2
<1>2. ASSUME NEW k \in 1..n, k - 1 \notin T PROVE k \notin T
  <2>1. k - 1 \in 0..n
    OBVIOUS
  <2>2. PICK f \in [0..n -> Nat] : Good(k - 1, f)
    BY <1>2, <2>1
  <2> DEFINE g == [i \in 0..n |-> IF i = k THEN step[k][f[k - 1]] ELSE f[i]]
  <2>3. f[k - 1] \in Nat /\ step[k][f[k - 1]] \in Nat
    BY <2>1
  <2>4. g \in [0..n -> Nat]
    BY <2>3
  <2>5. g[0] = a
    BY <2>2
  <2>6. ASSUME NEW i \in 1..k PROVE g[i] = step[i][g[i - 1]]
    <3>1. i \in 0..n /\ i - 1 \in 0..n /\ i - 1 # k
      OBVIOUS
    <3>2. g[i - 1] = f[i - 1]
      BY <3>1
    <3>3. CASE i = k
      BY <3>1, <3>2, <3>3
    <3>4. CASE i # k
      <4>1. i \in 1..(k - 1) /\ g[i] = f[i]
        BY <3>1, <3>4
      <4> QED
        BY <2>2, <3>2, <4>1
    <3> QED
      BY <3>3, <3>4
  <2>7. Good(k, g)
    BY <2>5, <2>6
  <2> HIDE DEF g, Good
  <2> QED
    BY <2>4, <2>7
<1>3. T \in SUBSET (0..n)
  OBVIOUS
<1>4. T = {}
  <2> HIDE DEF T
  <2> QED
    BY <1>1, <1>2, <1>3, NoCounterexample
<1>5. n \in 0..n
  OBVIOUS
<1>6. PICK f \in [0..n -> Nat] : Good(n, f)
  BY <1>4, <1>5
<1> QED
  BY <1>6 DEF Recursion

\* What the recursion of Prefixes computes.
LEMMA PrefixesDef ==
    ASSUME NEW bytes \in Seq(Byte)
    PROVE  /\ Prefixes(bytes) \in [0..Len(bytes) -> Nat] /\ Prefixes(bytes)[0] = 0
           /\ \A i \in 1..Len(bytes) :
                 Prefixes(bytes)[i] = Base * Prefixes(bytes)[i - 1] + bytes[i]
<1> DEFINE n == Len(bytes)
           P(g) == g = [i \in 0..n |-> IF i = 0 THEN 0 ELSE Base * g[i - 1] + bytes[i]]
           step == [i \in 1..n |-> [v \in Nat |-> Base * v + bytes[i]]]
<1>1. n \in Nat /\ 0 \in Nat /\ \A i \in 1..n : bytes[i] \in Nat
  BY DEF Byte
<1>2. Prefixes(bytes) = CHOOSE g : P(g)
  BY DEF Prefixes
<1>3. step \in [1..n -> [Nat -> Nat]] /\ \A i \in 1..n : \A v \in Nat : step[i][v] = Base * v + bytes[i]
  BY <1>1
<1> HIDE DEF step
<1>4. PICK f : Recursion(f, n, 0, step)
  BY <1>1, <1>3, RecursiveFunction
<1>5. f \in [0..n -> Nat] /\ f[0] = 0 /\ \A i \in 1..n : f[i] = Base * f[i - 1] + bytes[i]
  <2>1. f \in [0..n -> Nat] /\ f[0] = 0 /\ \A i \in 1..n : f[i] = step[i][f[i - 1]]
    BY <1>4 DEF Recursion
  <2>2. \A i \in 1..n : f[i - 1] \in Nat
    <3>1. \A i \in 1..n : i - 1 \in 0..n
      BY <1>1
    <3> QED
      BY <2>1, <3>1, Zenon
  <2> QED
    BY <1>3, <2>1, <2>2, Zenon
<1>6. P(f)
  BY <1>1, <1>5
<1> HIDE DEF P
<1>7. P(Prefixes(bytes))
  BY <1>2, <1>6
<1> DEFINE v == Prefixes(bytes)
<1> HIDE DEF v
<1>8. v = [i \in 0..n |-> IF i = 0 THEN 0 ELSE Base * v[i - 1] + bytes[i]]
  BY <1>7 DEF P, v
<1>9. v[0] = 0 /\ \A i \in 1..n : v[i] = Base * v[i - 1] + bytes[i]
  <2>1. 0 \in 0..n /\ \A i \in 1..n : i \in 0..n /\ i # 0
    BY <1>1
  <2> QED
    BY <1>8, <2>1, Zenon
<1>10. \A i \in 0..n : v[i] \in Nat
  <2> DEFINE T == {i \in 0..n : v[i] \notin Nat}
  <2>1. T \in SUBSET (0..n) /\ 0 \notin T
    BY <1>9
  <2>2. ASSUME NEW i \in 1..n, i - 1 \notin T PROVE i \notin T
    <3>1. v[i - 1] \in Nat /\ bytes[i] \in Byte
      BY <1>1, <2>2
    <3>2. Base * v[i - 1] + bytes[i] \in Nat
      BY <3>1, LastByte
    <3>3. v[i] \in Nat
      BY <1>9, <3>2, Zenon
    <3> QED
      BY <3>3
  <2>3. T = {}
    <3> HIDE DEF T
    <3> QED
      BY <1>1, <2>1, <2>2, NoCounterexample
  <2> QED
    BY <2>3
<1>11. v \in [0..n -> Nat]
  BY <1>8, <1>10
<1> QED
  BY <1>9, <1>11 DEF v

\* What the recursion of Quotients computes.
LEMMA QuotientsDef ==
    ASSUME NEW m \in Nat
    PROVE  /\ Quotients(m) \in [0..LenBytes -> Nat] /\ Quotients(m)[0] = m
           /\ \A i \in 1..LenBytes : Quotients(m)[i] = Quotients(m)[i - 1] \div Base
<1> DEFINE P(g) == g = [i \in 0..LenBytes |-> IF i = 0 THEN m ELSE g[i - 1] \div Base]
           step == [i \in 1..LenBytes |-> [v \in Nat |-> v \div Base]]
<1>1. LenBytes \in Nat /\ m \in Nat /\ \A v \in Nat : v \div Base \in Nat
  OBVIOUS
<1>2. Quotients(m) = CHOOSE g : P(g)
  BY DEF Quotients
<1>3. /\ step \in [1..LenBytes -> [Nat -> Nat]]
      /\ \A i \in 1..LenBytes : \A v \in Nat : step[i][v] = v \div Base
  BY <1>1
<1> HIDE DEF step
<1>4. PICK f : Recursion(f, LenBytes, m, step)
  BY <1>1, <1>3, RecursiveFunction
<1>5. f \in [0..LenBytes -> Nat] /\ f[0] = m /\ \A i \in 1..LenBytes : f[i] = f[i - 1] \div Base
  <2>1. /\ f \in [0..LenBytes -> Nat] /\ f[0] = m
        /\ \A i \in 1..LenBytes : f[i] = step[i][f[i - 1]]
    BY <1>4 DEF Recursion
  <2>2. \A i \in 1..LenBytes : f[i - 1] \in Nat
    <3>1. \A i \in 1..LenBytes : i - 1 \in 0..LenBytes
      BY <1>1
    <3> QED
      BY <2>1, <3>1, Zenon
  <2> QED
    BY <1>3, <2>1, <2>2, Zenon
<1>6. P(f)
  <2>1. \A i \in 0..LenBytes : f[i] = IF i = 0 THEN m ELSE f[i - 1] \div Base
    BY <1>1, <1>5
  <2> QED
    BY <1>5, <2>1
<1> HIDE DEF P
<1>7. P(Quotients(m))
  BY <1>2, <1>6
<1> DEFINE v == Quotients(m)
<1> HIDE DEF v
<1>8. v = [i \in 0..LenBytes |-> IF i = 0 THEN m ELSE v[i - 1] \div Base]
  BY <1>7 DEF P, v
<1>9. v[0] = m /\ \A i \in 1..LenBytes : v[i] = v[i - 1] \div Base
  <2>1. 0 \in 0..LenBytes /\ \A i \in 1..LenBytes : i \in 0..LenBytes /\ i # 0
    OBVIOUS
  <2> QED
    BY <1>8, <2>1, Zenon
<1>10. \A i \in 0..LenBytes : v[i] \in Nat
  <2> DEFINE T == {i \in 0..LenBytes : v[i] \notin Nat}
  <2>1. T \in SUBSET (0..LenBytes) /\ 0 \notin T
    BY <1>9
  <2>2. ASSUME NEW i \in 1..LenBytes, i - 1 \notin T PROVE i \notin T
    <3>1. v[i - 1] \in Nat
      BY <2>2
    <3>2. v[i] \in Nat
      BY <1>1, <1>9, <3>1, Zenon
    <3> QED
      BY <3>2
  <2>3. T = {}
    <3> HIDE DEF T
    <3> QED
      BY <2>1, <2>2, NoCounterexample
  <2> QED
    BY <2>3
<1>11. v \in [0..LenBytes -> Nat]
  BY <1>8, <1>10
<1> QED
  BY <1>9, <1>11 DEF v
\* A length that fits is read back as it was written ...
LEMMA UnpackOfPack ==
    ASSUME NEW m \in Nat
    PROVE  /\ Pack(m) \in Seq(Byte) /\ Len(Pack(m)) = LenBytes
           /\ Fits(m) => Unpack(Pack(m)) = m
<1> DEFINE b == Pack(m)
           u == Quotients(m)
<1>1. /\ u \in [0..LenBytes -> Nat] /\ u[0] = m
      /\ \A i \in 1..LenBytes : u[i] = u[i - 1] \div Base
  BY QuotientsDef
<1>2. b = [i \in 1..LenBytes |-> u[LenBytes - i] % Base]
  BY DEF Pack
<1> HIDE DEF u, b
<1>3. \A i \in 1..LenBytes : u[LenBytes - i] \in Nat /\ u[LenBytes - i] % Base \in Byte
  <2>1. \A i \in 1..LenBytes : LenBytes - i \in 0..LenBytes
    OBVIOUS
  <2>2. \A i \in 1..LenBytes : u[LenBytes - i] \in Nat
    BY <1>1, <2>1, Zenon
  <2> QED
    BY <2>2, LastByte
<1>4. b \in Seq(Byte) /\ Len(b) = LenBytes /\ \A i \in 1..LenBytes : b[i] = u[LenBytes - i] % Base
  <2>1. b \in [1..LenBytes -> Byte]
    BY <1>2, <1>3, Zenon
  <2> QED
    BY <1>2, <2>1
<1>5. ASSUME Fits(m) PROVE Unpack(b) = m
  <2> DEFINE v == Prefixes(b)
             T == {i \in 0..LenBytes : v[i] # u[LenBytes - i]}
  <2>1. /\ v \in [0..LenBytes -> Nat] /\ v[0] = 0
        /\ \A i \in 1..LenBytes : v[i] = Base * v[i - 1] + b[i]
    BY <1>4, PrefixesDef
  <2> HIDE DEF v
  <2>2. T \in SUBSET (0..LenBytes) /\ 0 \notin T
    <3>1. u[LenBytes] = 0 /\ LenBytes - 0 = LenBytes
      BY <1>5 DEF Fits, u
    <3> QED
      BY <2>1, <3>1
  <2>3. ASSUME NEW i \in 1..LenBytes, i - 1 \notin T PROVE i \notin T
    <3> DEFINE j == LenBytes - i
    <3>1. i - 1 \in 0..LenBytes /\ j \in 0..LenBytes /\ j + 1 \in 1..LenBytes
          /\ LenBytes - (i - 1) = j + 1 /\ (j + 1) - 1 = j
      OBVIOUS
    <3>2. v[i - 1] = u[j + 1]
      BY <2>3, <3>1
    <3>3. u[j + 1] = u[j] \div Base /\ u[j] \in Nat
      BY <1>1, <3>1
    <3>4. v[i] = Base * (u[j] \div Base) + (u[j] % Base)
      <4>1. v[i] = Base * v[i - 1] + b[i] /\ b[i] = u[LenBytes - i] % Base
        BY <1>4, <2>1
      <4> QED
        BY <3>2, <3>3, <4>1, Zenon DEF j
    <3>5. v[i] = u[j]
      BY <3>3, <3>4, LastByte
    <3> QED
      BY <3>5
  <2>4. T = {}
    <3> HIDE DEF T
    <3>1. \A i \in 1..LenBytes : i - 1 \notin T => i \notin T
      BY <2>3
    <3> QED
      BY <2>2, <3>1, NoCounterexample
  <2>5. v[LenBytes] = u[0]
    <3>1. LenBytes \in 0..LenBytes /\ LenBytes - LenBytes = 0
      OBVIOUS
    <3> QED
      BY <2>4, <3>1
  <2> QED
    BY <1>1, <1>4, <2>5 DEF Unpack, v
<1> QED
  BY <1>4, <1>5 DEF b

\* ... and a length field is what struct.pack makes of the number it stands for.
LEMMA PackOfUnpack ==
    ASSUME NEW b \in Seq(Byte), Len(b) = LenBytes
    PROVE  Unpack(b) \in Nat /\ Pack(Unpack(b)) = b
<1> DEFINE v == Prefixes(b)
           m == v[LenBytes]
           u == Quotients(m)
           T == {j \in 0..LenBytes : u[j] # v[LenBytes - j]}
<1>1. /\ v \in [0..LenBytes -> Nat] /\ v[0] = 0
      /\ \A i \in 1..LenBytes : v[i] = Base * v[i - 1] + b[i]
  BY PrefixesDef
<1>2. Unpack(b) = m /\ b = [i \in 1..LenBytes |-> b[i]] /\ \A i \in 1..LenBytes : b[i] \in Byte
  BY DEF Unpack
<1> HIDE DEF v
<1>3. m \in Nat
  BY <1>1
<1> HIDE DEF m
<1>4. /\ u \in [0..LenBytes -> Nat] /\ u[0] = m
      /\ \A i \in 1..LenBytes : u[i] = u[i - 1] \div Base
  BY <1>3, QuotientsDef
<1> HIDE DEF u
<1>5. T \in SUBSET (0..LenBytes) /\ 0 \notin T
  <2>1. LenBytes - 0 = LenBytes
    OBVIOUS
  <2> QED
    BY <1>4, <2>1 DEF m
<1>6. ASSUME NEW i \in 1..LenBytes PROVE v[i] \div Base = v[i - 1] /\ v[i] % Base = b[i]
  <2>1. i - 1 \in 0..LenBytes
    OBVIOUS
  <2>2. v[i - 1] \in Nat /\ b[i] \in Byte /\ v[i] = Base * v[i - 1] + b[i]
    BY <1>1, <1>2, <2>1, Zenon
  <2>3. /\ (Base * v[i - 1] + b[i]) \div Base = v[i - 1]
        /\ (Base * v[i - 1] + b[i]) % Base = b[i]
    BY <2>2, LastByte
  <2> QED
    BY <2>2, <2>3, Zenon
<1>7. ASSUME NEW j \in 1..LenBytes, j - 1 \notin T PROVE j \notin T
  <2>1. /\ j - 1 \in 0..LenBytes /\ LenBytes - (j - 1) \in 1..LenBytes
        /\ (LenBytes - (j - 1)) - 1 = LenBytes - j
    OBVIOUS
  <2>2. u[j - 1] = v[LenBytes - (j - 1)]
    BY <1>7, <2>1
  <2>3. u[j] = v[LenBytes - j]
    BY <1>4, <1>6, <2>1, <2>2
  <2> QED
    BY <2>3
<1>8. T = {}
  <2> HIDE DEF T
  <2>1. \A i \in 1..LenBytes : i - 1 \notin T => i \notin T
    BY <1>7
  <2> QED
    BY <1>5, <2>1, NoCounterexample
<1>9. ASSUME NEW i \in 1..LenBytes PROVE u[LenBytes - i] % Base = b[i]
  <2>1. LenBytes - i \in 0..LenBytes /\ LenBytes - (LenBytes - i) = i
    OBVIOUS
  <2>2. u[LenBytes - i] = v[i]
    BY <1>8, <2>1
  <2> QED
    BY <1>6, <2>2
<1>10. Pack(m) = [i \in 1..LenBytes |-> u[LenBytes - i] % Base]
  BY DEF Pack, u
<1>11. Pack(m) = b
  BY <1>2, <1>9, <1>10, Zenon
<1> QED
  BY <1>2, <1>3, <1>11
-----------------------------------------------------------------------------
(* Frames and their beginnings                                             *)

\* The beginning of a stream.
LEMMA Slice ==
    ASSUME NEW s \in Seq(Byte), NEW m \in 1..(Len(s) + 1), NEW n \in (m - 1)..Len(s)
    PROVE  /\ SubSeq(s, m, n) \in Seq(Byte) /\ Len(SubSeq(s, m, n)) = n - m + 1
           /\ \A k \in 1..(n - m + 1) : SubSeq(s, m, n)[k] = s[m + k - 1]
<1>1. m \in Int /\ n \in Int /\ Len(s) \in Nat
  OBVIOUS
<1>2. \A i \in m..n : s[i] \in Byte
  <2>1. \A i \in m..n : i \in 1..Len(s)
    BY <1>1
  <2> QED
    BY <2>1, ElementOfSeq
<1>3. /\ SubSeq(s, m, n) \in Seq(Byte) /\ Len(SubSeq(s, m, n)) = IF m <= n THEN n - m + 1 ELSE 0
      /\ \A k \in 1..(n - m + 1) : SubSeq(s, m, n)[k] = s[m + k - 1]
  BY <1>1, <1>2, SubSeqProperties
<1>4. (IF m <= n THEN n - m + 1 ELSE 0) = n - m + 1
  BY <1>1
<1> QED
  BY <1>3, <1>4

\* b holds the first bytes of s.
Begins(b, s) == Len(b) <= Len(s) /\ b = SubSeq(s, 1, Len(b))

\* The length field, once it is there.
LEMMA HeaderType ==
    ASSUME NEW s \in Seq(Byte), Len(s) >= HeaderSize
    PROVE  /\ SubSeq(s, 2, HeaderSize) \in Seq(Byte)
           /\ Len(SubSeq(s, 2, HeaderSize)) = LenBytes
           /\ \A k \in 1..LenBytes : SubSeq(s, 2, HeaderSize)[k] = s[k + 1]
           /\ DeclaredLength(s) \in Nat /\ FrameSize(s) \in Nat /\ FrameSize(s) >= HeaderSize
           /\ FrameSize(s) = HeaderSize + DeclaredLength(s)
           /\ Pack(DeclaredLength(s)) = SubSeq(s, 2, HeaderSize)
<1> DEFINE h == SubSeq(s, 2, HeaderSize)
<1>1. Len(s) \in Nat /\ HeaderSize = 1 + LenBytes /\ HeaderSize \in Nat
  BY DEF HeaderSize
<1>2. 2 \in 1..(Len(s) + 1) /\ HeaderSize \in (2 - 1)..Len(s) /\ HeaderSize - 2 + 1 = LenBytes
  BY <1>1
<1>3. h \in Seq(Byte) /\ Len(h) = LenBytes /\ \A k \in 1..LenBytes : h[k] = s[2 + k - 1]
  BY <1>2, Slice
<1>4. \A k \in 1..LenBytes : h[k] = s[k + 1]
  <2>1. \A k \in 1..LenBytes : 2 + k - 1 = k + 1
    OBVIOUS
  <2> QED
    BY <1>3, <2>1
<1>5. Unpack(h) \in Nat /\ Pack(Unpack(h)) = h
  BY <1>3, PackOfUnpack
<1>6. DeclaredLength(s) = Unpack(h) /\ FrameSize(s) = HeaderSize + DeclaredLength(s)
  BY DEF DeclaredLength, FrameSize
<1> QED
  BY <1>1, <1>3, <1>4, <1>5, <1>6

\* The beginning of a stream shows the same header as the whole.
LEMMA HeaderAgrees ==
    ASSUME NEW s \in Seq(Byte), NEW b \in Seq(Byte), Begins(b, s), Len(b) >= HeaderSize
    PROVE  /\ Len(s) >= HeaderSize /\ b[1] = s[1] /\ DeclaredLength(b) = DeclaredLength(s)
           /\ FrameSize(b) = FrameSize(s)
<1>1. Len(s) \in Nat /\ Len(b) \in Nat /\ HeaderSize = 1 + LenBytes /\ Len(b) <= Len(s)
  BY DEF HeaderSize, Begins
<1>2. 1 \in 1..(Len(s) + 1) /\ Len(b) \in (1 - 1)..Len(s) /\ Len(b) - 1 + 1 = Len(b)
  BY <1>1
<1>3. \A k \in 1..Len(b) : b[k] = s[1 + k - 1]
  <2>1. \A k \in 1..Len(b) : SubSeq(s, 1, Len(b))[k] = s[1 + k - 1]
    BY <1>2, Slice
  <2> QED
    BY <2>1 DEF Begins
<1>4. \A k \in 1..Len(b) : b[k] = s[k]
  <2>1. \A k \in 1..Len(b) : 1 + k - 1 = k
    BY <1>1
  <2> QED
    BY <1>3, <2>1
<1>5. Len(s) >= HeaderSize /\ 1 \in 1..Len(b) /\ \A k \in 1..LenBytes : k + 1 \in 1..Len(b)
  BY <1>1
<1>6. SubSeq(b, 2, HeaderSize) = SubSeq(s, 2, HeaderSize)
  <2>1. /\ SubSeq(b, 2, HeaderSize) \in Seq(Byte) /\ SubSeq(s, 2, HeaderSize) \in Seq(Byte)
        /\ Len(SubSeq(b, 2, HeaderSize)) = LenBytes /\ Len(SubSeq(s, 2, HeaderSize)) = LenBytes
        /\ \A k \in 1..LenBytes : SubSeq(b, 2, HeaderSize)[k] = b[k + 1]
        /\ \A k \in 1..LenBytes : SubSeq(s, 2, HeaderSize)[k] = s[k + 1]
    BY <1>5, HeaderType
  <2>2. \A k \in 1..LenBytes : SubSeq(b, 2, HeaderSize)[k] = SubSeq(s, 2, HeaderSize)[k]
    BY <1>4, <1>5, <2>1, Zenon
  <2> QED
    BY <2>1, <2>2, SeqEqual
<1> QED
  BY <1>4, <1>5, <1>6 DEF DeclaredLength, FrameSize

\* A frame that is there is what encode_frame makes of its payload.
LEMMA FrameIsEncoded ==
    ASSUME NEW s \in Seq(Byte), Len(s) >= HeaderSize, FrameSize(s) <= Len(s)
    PROVE  LET p == SubSeq(s, HeaderSize + 1, FrameSize(s)) IN
           /\ p \in Seq(Byte) /\ Len(p) = DeclaredLength(s)
           /\ SubSeq(s, 1, FrameSize(s)) = EncodeFrame(s[1], p)
           /\ Len(EncodeFrame(s[1], p)) = FrameSize(s)
<1> DEFINE p == SubSeq(s, HeaderSize + 1, FrameSize(s))
<1>1. /\ Len(s) \in Nat /\ HeaderSize = 1 + LenBytes /\ HeaderSize \in Nat /\ LenBytes >= 1
      /\ DeclaredLength(s) \in Nat /\ FrameSize(s) = HeaderSize + DeclaredLength(s)
      /\ Pack(DeclaredLength(s)) = SubSeq(s, 2, HeaderSize) /\ FrameSize(s) \in Nat
  BY HeaderType DEF HeaderSize
<1>2. /\ HeaderSize + 1 \in 1..(Len(s) + 1) /\ FrameSize(s) \in ((HeaderSize + 1) - 1)..Len(s)
      /\ FrameSize(s) - (HeaderSize + 1) + 1 = DeclaredLength(s)
      /\ 1 \in 1..(Len(s) + 1) /\ 1 \in (1 - 1)..Len(s) /\ FrameSize(s) \in (1 - 1)..Len(s)
  BY <1>1
<1>3. p \in Seq(Byte) /\ Len(p) = DeclaredLength(s)
  BY <1>2, Slice
<1>4. <<s[1]>> = SubSeq(s, 1, 1)
  <2>1. SubSeq(s, 1, 1) \in Seq(Byte) /\ Len(SubSeq(s, 1, 1)) = 1 /\ SubSeq(s, 1, 1)[1] = s[1]
    <3>1. 1 - 1 + 1 = 1 /\ 1 \in 1..1 /\ 1 + 1 - 1 = 1
      OBVIOUS
    <3> QED
      BY <1>2, <3>1, Slice
  <2>2. s[1] \in Byte
    <3>1. 1 \in 1..Len(s)
      BY <1>1
    <3> QED
      BY <3>1, ElementOfSeq
  <2>3. <<s[1]>> \in Seq(Byte) /\ Len(<<s[1]>>) = 1 /\ <<s[1]>>[1] = s[1]
    BY <2>2
  <2>4. \A i \in 1..Len(<<s[1]>>) : <<s[1]>>[i] = SubSeq(s, 1, 1)[i]
    <3>1. \A i \in 1..Len(<<s[1]>>) : i = 1
      BY <2>3
    <3> QED
      BY <2>1, <2>3, <3>1
  <2> QED
    BY <2>1, <2>3, <2>4, SeqEqual
<1>5. <<s[1]>> \o SubSeq(s, 2, HeaderSize) = SubSeq(s, 1, HeaderSize)
  <2>1. 1 \in 1..(Len(s) + 1) /\ 1 \in (1 - 1)..Len(s) /\ HeaderSize \in 1..Len(s) /\ 1 + 1 = 2
    BY <1>1
  <2>2. SubSeq(s, 1, 1) \o SubSeq(s, 1 + 1, HeaderSize) = SubSeq(s, 1, HeaderSize)
    BY <2>1, ConcatAdjacentSubSeq
  <2> QED
    BY <1>4, <2>1, <2>2
<1>6. SubSeq(s, 1, HeaderSize) \o p = SubSeq(s, 1, FrameSize(s))
  <2>1. 1 \in 1..(Len(s) + 1) /\ HeaderSize \in (1 - 1)..Len(s) /\ FrameSize(s) \in HeaderSize..Len(s)
    BY <1>1
  <2> QED
    BY <2>1, ConcatAdjacentSubSeq
<1>7. EncodeFrame(s[1], p) = SubSeq(s, 1, FrameSize(s))
  BY <1>1, <1>3, <1>5, <1>6 DEF EncodeFrame
<1>8. Len(SubSeq(s, 1, FrameSize(s))) = FrameSize(s)
  <2>1. FrameSize(s) - 1 + 1 = FrameSize(s)
    BY <1>1
  <2> QED
    BY <1>2, <2>1, Slice
<1> QED
  BY <1>3, <1>7, <1>8

\* What decode_frame_stream says, and when.
LEMMA DecodeMeaning ==
    ASSUME NEW buf \in Seq(Byte)
    PROVE  \/ /\ DecodeFrameStream(buf) = Incomplete
              /\ \/ Len(buf) < HeaderSize
                 \/ /\ Len(buf) >= HeaderSize /\ buf[1] \in MessageType
                    /\ DeclaredLength(buf) <= MaxPayload /\ Len(buf) < FrameSize(buf)
           \/ /\ DecodeFrameStream(buf) \in {Raises("InvalidMessageType"), Raises("OversizedFrame")}
              /\ Len(buf) >= HeaderSize
              /\ buf[1] \notin MessageType \/ DeclaredLength(buf) > MaxPayload
           \/ /\ DecodeFrameStream(buf) = Frame(buf)
              /\ Len(buf) >= HeaderSize /\ buf[1] \in MessageType
              /\ DeclaredLength(buf) <= MaxPayload /\ FrameSize(buf) <= Len(buf)
<1>1. Len(buf) \in Nat /\ HeaderSize \in Nat
  BY DEF HeaderSize
<1>2. CASE Len(buf) < HeaderSize
  <2>1. ~(Len(buf) >= HeaderSize)
    BY <1>1, <1>2
  <2>2. DecodeFrameStream(buf) = Incomplete
    BY <1>2, <2>1 DEF DecodeFrameStream
  <2> QED
    BY <1>2, <2>2
<1>3. CASE Len(buf) >= HeaderSize /\ buf[1] \notin MessageType
  <2>1. ~(Len(buf) < HeaderSize)
    BY <1>1, <1>3
  <2>2. DecodeFrameStream(buf) = Raises("InvalidMessageType")
    BY <1>3, <2>1 DEF DecodeFrameStream
  <2> QED
    BY <1>3, <2>2
<1>4. CASE Len(buf) >= HeaderSize /\ buf[1] \in MessageType
  <2>1. ~(Len(buf) < HeaderSize) /\ DeclaredLength(buf) \in Nat /\ FrameSize(buf) \in Nat
    BY <1>1, <1>4, HeaderType
  <2>2. DecodeFrameStream(buf) =
            IF DeclaredLength(buf) > MaxPayload THEN Raises("OversizedFrame")
            ELSE IF Len(buf) < FrameSize(buf) THEN Incomplete ELSE Frame(buf)
    BY <1>4, <2>1 DEF DecodeFrameStream
  <2>3. CASE DeclaredLength(buf) > MaxPayload
    BY <1>4, <2>2, <2>3
  <2>4. CASE ~(DeclaredLength(buf) > MaxPayload) /\ Len(buf) < FrameSize(buf)
    <3>1. DeclaredLength(buf) <= MaxPayload /\ DecodeFrameStream(buf) = Incomplete
      BY <2>1, <2>2, <2>4
    <3> QED
      BY <1>4, <2>4, <3>1
  <2>5. CASE ~(DeclaredLength(buf) > MaxPayload) /\ ~(Len(buf) < FrameSize(buf))
    <3>1. DeclaredLength(buf) <= MaxPayload /\ FrameSize(buf) <= Len(buf)
      BY <1>1, <2>1, <2>5
    <3>2. DecodeFrameStream(buf) = Frame(buf)
      BY <2>2, <2>5
    <3> QED
      BY <1>4, <3>1, <3>2
  <2> QED
    BY <2>3, <2>4, <2>5
<1> QED
  BY <1>1, <1>2, <1>3, <1>4
-----------------------------------------------------------------------------
(* The readers                                                             *)

\* A closed stream has arrived; the handler that still reads holds no whole
\* frame and no bad header; send_envelope stops only between its three reads.
FrameInv ==
    /\ closed => arrived = Len(wire)
    /\ end = "server" /\ outcome = Open => DecodeFrameStream(buffer) = Incomplete
    /\ end = "client" => Len(buffer) <= 1 \/ Len(buffer) >= HeaderSize

\* The lengths of a connection's streams.
LEMMA StreamTypes ==
    ASSUME FrameTypeOK
    PROVE  /\ wire \in Seq(Byte) /\ Len(wire) \in Nat /\ Len(buffer) \in Nat
           /\ arrived \in Nat /\ arrived <= Len(wire) /\ Len(buffer) <= arrived
           /\ Begins(buffer, wire)
<1>1. wire \in Seq(Byte) /\ buffer \in Seq(Byte)
  BY DEF FrameTypeOK
<1>2. Len(wire) \in Nat /\ Len(buffer) \in Nat
  BY <1>1, LenProperties
<1>3. arrived \in Nat /\ arrived <= Len(wire) /\ Len(buffer) <= arrived
  BY <1>2 DEF FrameTypeOK
<1>4. Len(buffer) <= Len(wire)
  BY <1>2, <1>3
<1> QED
  BY <1>1, <1>2, <1>3, <1>4 DEF FrameTypeOK, Begins

\* read() takes the next bytes of the stream.
LEMMA ServerReads ==
    ASSUME FrameTypeOK, ServerRead
    PROVE  /\ buffer' \in Seq(Byte) /\ Begins(buffer', wire) /\ Len(buffer') <= arrived
           /\ Len(buffer') <= Len(buffer) + ReadMax
<1> DEFINE n == Len(buffer)
           r == Readable
<1>1. /\ wire \in Seq(Byte) /\ Len(wire) \in Nat /\ n \in Nat
      /\ arrived \in Nat /\ arrived <= Len(wire) /\ n <= arrived /\ buffer = SubSeq(wire, 1, n)
  BY StreamTypes DEF Begins
<1>2. r \in Nat /\ r <= arrived - n /\ r <= ReadMax
  BY <1>1 DEF Readable
<1>3. buffer' = SubSeq(wire, 1, n) \o SubSeq(wire, n + 1, n + r)
  BY <1>1 DEF ServerRead, NextPiece
<1> HIDE DEF n, r
<1>4. /\ 1 \in 1..(Len(wire) + 1) /\ n \in (1 - 1)..Len(wire) /\ n + r \in n..Len(wire)
      /\ n + r \in (1 - 1)..Len(wire) /\ (n + r) - 1 + 1 = n + r
  BY <1>1, <1>2
<1>5. buffer' = SubSeq(wire, 1, n + r)
  BY <1>1, <1>3, <1>4, ConcatAdjacentSubSeq
<1>6. buffer' \in Seq(Byte) /\ Len(buffer') = n + r
  BY <1>1, <1>4, <1>5, Slice
<1>7. n + r <= arrived /\ n + r <= Len(wire) /\ n + r <= n + ReadMax
  BY <1>1, <1>2
<1> QED
  BY <1>5, <1>6, <1>7 DEF Begins, n

\* What the handler makes of it.
LEMMA ServerConcludes ==
    ASSUME FrameTypeOK, ServerRead
    PROVE  \/ DecodeFrameStream(buffer') = Incomplete /\ outcome' = Open
           \/ /\ DecodeFrameStream(buffer')
                    \in {Raises("InvalidMessageType"), Raises("OversizedFrame")}
              /\ outcome' = Done("MALFORMED")
           \/ DecodeFrameStream(buffer') = Frame(buffer') /\ outcome' = OnFrame(Frame(buffer'))
<1> DEFINE d == DecodeFrameStream(buffer')
<1>1. outcome' = CASE d.kind = "incomplete" -> Open
                   [] d.kind = "error" -> Done("MALFORMED")
                   [] OTHER -> OnFrame(d)
  BY DEF ServerRead
<1>2. \/ d = Incomplete
      \/ d \in {Raises("InvalidMessageType"), Raises("OversizedFrame")}
      \/ d = Frame(buffer')
  BY ServerReads, DecodeMeaning
<1> HIDE DEF d
<1>3. CASE d = Incomplete
  <2>1. d.kind = "incomplete"
    BY <1>3 DEF Incomplete
  <2>2. outcome' = Open
    BY <1>1, <2>1
  <2> QED
    BY <1>3, <2>2 DEF d
<1>4. CASE d \in {Raises("InvalidMessageType"), Raises("OversizedFrame")}
  <2>1. d.kind = "error"
    BY <1>4 DEF Raises
  <2>2. outcome' = Done("MALFORMED")
    BY <1>1, <2>1
  <2> QED
    BY <1>4, <2>2 DEF d
<1>5. CASE d = Frame(buffer')
  <2>1. d.kind = "frame"
    BY <1>5 DEF Frame
  <2>2. outcome' = OnFrame(d)
    BY <1>1, <2>1
  <2> QED
    BY <1>5, <2>2 DEF d
<1> QED
  BY <1>2, <1>3, <1>4, <1>5

\* What a complete frame can lead to.
LEMMA OnFrameKinds ==
    ASSUME NEW d
    PROVE  \/ /\ OnFrame(d) = Done("MALFORMED") /\ OnFrame(d).kind = "MALFORMED"
              /\ d.remaining # << >> \/ d.type # SIGNED_BUNDLE
           \/ /\ OnFrame(d) = [kind |-> "transaction", payload |-> d.payload]
              /\ OnFrame(d).kind = "transaction" /\ OnFrame(d).payload = d.payload
              /\ d.remaining = << >> /\ d.type = SIGNED_BUNDLE
  BY DEF OnFrame, Done

\* One readexactly() takes the bytes it asks for.
LEMMA ClientReads ==
    ASSUME FrameTypeOK, FrameInv, ClientRead
    PROVE  /\ buffer' \in Seq(Byte) /\ Begins(buffer', wire) /\ Len(buffer') <= arrived
           /\ Len(buffer') = 1 \/ Len(buffer') >= HeaderSize
<1>1. /\ wire \in Seq(Byte) /\ Len(wire) \in Nat /\ Len(buffer) \in Nat /\ buffer \in Seq(Byte)
      /\ arrived \in Nat /\ arrived <= Len(wire) /\ Len(buffer) <= arrived
  BY StreamTypes DEF FrameTypeOK
<1>2. HeaderSize \in Nat /\ HeaderSize >= 2
  BY DEF HeaderSize
<1>3. Wanted \in Nat /\ (Wanted = 1 \/ Wanted >= HeaderSize)
  <2>1. CASE Len(buffer) = 0
    BY <2>1 DEF Wanted
  <2>2. CASE Len(buffer) = 1
    BY <1>2, <2>2 DEF Wanted
  <2>3. CASE Len(buffer) # 0 /\ Len(buffer) # 1
    <3>1. Len(buffer) >= HeaderSize
      <4>1. end = "client"
        BY DEF ClientRead
      <4>2. Len(buffer) \in Nat
        BY <1>1
      <4>3. ~(Len(buffer) <= 1)
        <5>1. \A n \in Nat : n # 0 /\ n # 1 => ~(n <= 1)
          OBVIOUS
        <5> QED
          BY <2>3, <4>2, <5>1, Zenon
      <4> QED
        BY <4>1, <4>3, Zenon DEF FrameInv
    <3> QED
      BY <1>1, <2>3, <3>1, HeaderType DEF Wanted
  <2> QED
    BY <2>1, <2>2, <2>3
<1>4. buffer' = SubSeq(wire, 1, Wanted) /\ Wanted <= arrived
  BY <1>1, <1>3 DEF ClientRead
<1>5. 1 \in 1..(Len(wire) + 1) /\ Wanted \in (1 - 1)..Len(wire) /\ Wanted - 1 + 1 = Wanted
  BY <1>1, <1>3, <1>4
<1>6. buffer' \in Seq(Byte) /\ Len(buffer') = Wanted
  BY <1>1, <1>4, <1>5, Slice
<1>7. Wanted <= Len(wire)
  BY <1>1, <1>3, <1>4
<1> QED
  BY <1>3, <1>4, <1>6, <1>7 DEF Begins

\* Every step keeps the types and FrameInv.
LEMMA FrameStep ==
    ASSUME FrameTypeOK, FrameInv, [Next]_vars
    PROVE  FrameTypeOK' /\ FrameInv'
<1>k. \A x : Done(x).kind = x
  BY DEF Done
<1>o. Open.kind = "open"
  BY DEF Open
<1>c. HeaderSize' = HeaderSize /\ Byte' = Byte
  BY DEF HeaderSize, Byte
<1>1. CASE Arrive
  <2>1. /\ arrived < Len(wire) /\ arrived' \in (arrived + 1)..Len(wire)
        /\ UNCHANGED <<end, wire, closed, buffer, outcome>>
    BY <1>1 DEF Arrive
  <2>2. arrived' \in 0..Len(wire) /\ Len(buffer) <= arrived' /\ arrived' <= Len(wire)
    BY <2>1, StreamTypes
  <2>3. FrameTypeOK'
    BY <2>1, <2>2 DEF FrameTypeOK
  <2>4. ~closed
    BY <2>1, StreamTypes DEF FrameInv
  <2>5. FrameInv'
    BY <2>1, <2>4 DEF FrameInv
  <2> QED
    BY <2>3, <2>5
<1>2. CASE PeerCloses
  <2>1. arrived = Len(wire) /\ closed' = TRUE /\ UNCHANGED <<end, wire, arrived, buffer, outcome>>
    BY <1>2 DEF PeerCloses
  <2>2. FrameTypeOK'
    BY <2>1 DEF FrameTypeOK
  <2>3. FrameInv'
    BY <2>1 DEF FrameInv
  <2> QED
    BY <2>2, <2>3
<1>3. CASE ServerRead
  <2>1. end = "server" /\ outcome = Open /\ UNCHANGED <<end, wire, arrived, closed>>
    BY <1>3 DEF ServerRead
  <2>2. buffer' \in Seq(Byte) /\ Begins(buffer', wire) /\ Len(buffer') <= arrived
    BY <1>3, ServerReads
  <2>3. outcome'.kind \in {"open", "MALFORMED", "transaction"}
    BY <1>3, <1>k, <1>o, ServerConcludes, OnFrameKinds
  <2>4. FrameTypeOK'
    BY <1>c, <2>1, <2>2, <2>3 DEF FrameTypeOK, Begins
  <2>5. outcome' = Open => DecodeFrameStream(buffer') = Incomplete
    BY <1>3, <1>k, <1>o, ServerConcludes, OnFrameKinds
  <2>6. FrameInv'
    <3>1. DecodeFrameStream(buffer)' = DecodeFrameStream(buffer')
      OBVIOUS
    <3> QED
      BY <2>1, <2>5, <3>1 DEF FrameInv
  <2> QED
    BY <2>4, <2>6
<1>4. CASE ServerEof
  <2>1. /\ end = "server" /\ outcome = Open /\ outcome' = Done("unanswered")
        /\ UNCHANGED <<end, wire, arrived, closed, buffer>>
    BY <1>4 DEF ServerEof
  <2>2. FrameTypeOK'
    BY <1>k, <2>1 DEF FrameTypeOK
  <2>3. outcome' # Open
    BY <1>k, <1>o, <2>1
  <2>4. FrameInv'
    BY <2>1, <2>3 DEF FrameInv
  <2> QED
    BY <2>2, <2>4
<1>5. CASE ClientRead
  <2>1. end = "client" /\ outcome = Open /\ UNCHANGED <<end, wire, arrived, closed>>
    BY <1>5 DEF ClientRead
  <2>2. /\ buffer' \in Seq(Byte) /\ Begins(buffer', wire) /\ Len(buffer') <= arrived
        /\ Len(buffer') = 1 \/ Len(buffer') >= HeaderSize
    BY <1>5, ClientReads
  <2>3. outcome'.kind \in {"open", "ACK", "NACK", "ACK_ID_MISMATCH", "UNKNOWN_RESPONSE_TYPE",
                           "TRANSPORT_ERROR"}
    <3>1. ClientResult(buffer') \in {"ACK", "NACK", "ACK_ID_MISMATCH", "UNKNOWN_RESPONSE_TYPE",
                                     "TRANSPORT_ERROR"}
      BY DEF ClientResult
    <3>2. outcome' = Done(ClientResult(buffer')) \/ outcome' = Open
      BY <1>5 DEF ClientRead
    <3> QED
      BY <1>k, <1>o, <3>1, <3>2
  <2>4. FrameTypeOK'
    BY <1>c, <2>1, <2>2, <2>3 DEF FrameTypeOK, Begins
  <2>5. FrameInv'
    <3>1. Len(buffer') <= 1 \/ Len(buffer') >= HeaderSize'
      <4>1. Len(buffer') = 1 => Len(buffer') <= 1
        OBVIOUS
      <4> QED
        BY <1>c, <2>2, <4>1, Zenon
    <3>2. closed' => arrived' = Len(wire')
      BY <2>1 DEF FrameInv
    <3>3. end' # "server"
      BY <2>1
    <3> QED
      BY <3>1, <3>2, <3>3 DEF FrameInv
  <2> QED
    BY <2>4, <2>5
<1>6. CASE ClientTimeout \/ ClientEof
  <2>1. /\ end = "client" /\ UNCHANGED <<end, wire, arrived, closed, buffer>>
        /\ outcome' = Done("TIMEOUT") \/ outcome' = Done("TRANSPORT_ERROR")
    BY <1>6 DEF ClientTimeout, ClientEof
  <2>2. outcome'.kind \in {"TIMEOUT", "TRANSPORT_ERROR"}
    BY <1>k, <2>1
  <2>3. FrameTypeOK'
    BY <2>1, <2>2 DEF FrameTypeOK
  <2>4. FrameInv'
    BY <1>c, <2>1 DEF FrameInv
  <2> QED
    BY <2>3, <2>4
<1>7. CASE UNCHANGED vars
  BY <1>7 DEF vars, FrameTypeOK, FrameInv, HeaderSize, DecodeFrameStream
<1> QED
  BY <1>1, <1>2, <1>3, <1>4, <1>5, <1>6, <1>7 DEF Next, ReaderStep

\* FrameTypeOK and FrameInv together are inductive.
LEMMA FrameInvariant == Spec => [](FrameTypeOK /\ FrameInv)
<1>1. Init => FrameTypeOK /\ FrameInv
  <2> SUFFICES ASSUME Init PROVE FrameTypeOK /\ FrameInv
    OBVIOUS
  <2>1. wire \in Seq(Byte) /\ Len(wire) \in Nat
    BY DEF Init
  <2>2. << >> \in Seq(Byte) /\ Len(<< >>) = 0 /\ SubSeq(wire, 1, 0) = << >>
    BY SubSeqEmpty
  <2>3. outcome.kind = "open" /\ buffer = << >> /\ arrived = 0
    BY DEF Init, Open
  <2>4. FrameTypeOK
    <3>1. Len(buffer) = 0 /\ buffer \in Seq(Byte) /\ buffer = SubSeq(wire, 1, Len(buffer))
      BY <2>2, <2>3
    <3>2. 0 \in 0..Len(wire)
      BY <2>1
    <3>3. Len(buffer) <= arrived
      BY <2>3, <3>1
    <3>4. arrived \in 0..Len(wire) /\ closed \in BOOLEAN /\ end \in {"server", "client"} /\ wire \in Wires
      BY <3>2 DEF Init
    <3>5. outcome.kind \in {"open", "transaction", "MALFORMED", "unanswered", "ACK", "NACK",
                            "ACK_ID_MISMATCH", "UNKNOWN_RESPONSE_TYPE", "TRANSPORT_ERROR", "TIMEOUT"}
      BY <2>3
    <3> QED
      BY <3>1, <3>3, <3>4, <3>5, Zenon DEF FrameTypeOK
  <2>5. DecodeFrameStream(buffer) = Incomplete
    <3>1. Len(buffer) = 0 /\ 0 < HeaderSize /\ ~(0 >= HeaderSize)
      BY <2>2, <2>3 DEF HeaderSize
    <3> QED
      BY <3>1 DEF DecodeFrameStream
  <2>6. FrameInv
    BY <2>2, <2>3, <2>5 DEF Init, FrameInv
  <2> QED
    BY <2>4, <2>6
<1>2. FrameTypeOK /\ FrameInv /\ [Next]_vars => FrameTypeOK' /\ FrameInv'
  BY FrameStep
<1> QED
  BY <1>1, <1>2, PTL DEF Spec

\* The types of a connection: what either end has taken is the beginning of what
\* the peer wrote, and no more than has arrived.
THEOREM FrameTypeCorrect == Spec => []FrameTypeOK
  BY FrameInvariant, PTL

\* The handler holds less than a maximal frame and one read, whatever the peer
\* writes: decode_frame_stream gives a bad header up as soon as it is there.
THEOREM BufferStaysBounded == Spec => []BufferBounded
<1> DEFINE Reading == end = "server" /\ outcome = Open => Len(buffer) < HeaderSize + MaxPayload
<1>1. ASSUME FrameTypeOK, FrameInv PROVE Reading
  <2> SUFFICES ASSUME end = "server", outcome = Open
               PROVE  Len(buffer) < HeaderSize + MaxPayload
    OBVIOUS
  <2>1. DecodeFrameStream(buffer) = Incomplete /\ buffer \in Seq(Byte)
    BY <1>1 DEF FrameInv, FrameTypeOK
  <2>2. Incomplete.kind = "incomplete" /\ Frame(buffer).kind = "frame" /\ \A x : Raises(x).kind = "error"
    BY DEF Incomplete, Frame, Raises
  <2>3. \/ Len(buffer) < HeaderSize
        \/ /\ Len(buffer) >= HeaderSize
           /\ DeclaredLength(buffer) <= MaxPayload /\ Len(buffer) < FrameSize(buffer)
    BY <2>1, <2>2, DecodeMeaning
  <2>4. Len(buffer) \in Nat /\ HeaderSize \in Nat
    BY <2>1 DEF HeaderSize
  <2> QED
    BY <2>1, <2>3, <2>4, HeaderType
<1>2. Init => BufferBounded
  BY DEF Init, BufferBounded, HeaderSize
<1>3. ASSUME FrameTypeOK, FrameInv, BufferBounded, [Next]_vars PROVE BufferBounded'
  <2>1. CASE ServerRead
    <3>1. Len(buffer') <= Len(buffer) + ReadMax /\ Len(buffer) < HeaderSize + MaxPayload
      BY <1>1, <1>3, <2>1, ServerReads DEF ServerRead
    <3>2. Len(buffer') \in Nat /\ Len(buffer) \in Nat /\ HeaderSize \in Nat
      BY <1>3, <2>1, ServerReads, StreamTypes DEF HeaderSize
    <3> QED
      BY <3>1, <3>2 DEF BufferBounded, HeaderSize
  <2>2. CASE ClientRead
    BY <2>2 DEF ClientRead, BufferBounded
  <2>3. CASE UNCHANGED <<end, buffer>>
    BY <1>3, <2>3 DEF BufferBounded, HeaderSize
  <2> QED
    BY <1>3, <2>1, <2>2, <2>3
       DEF Next, ReaderStep, Arrive, PeerCloses, ServerEof, ClientTimeout, ClientEof, vars
<1> QED
  BY <1>2, <1>3, FrameInvariant, PTL DEF Spec
-----------------------------------------------------------------------------
(* The cuts of the stream decide nothing                                   *)

\* The kinds of what decode_frame_stream returns.
LEMMA DecodeKinds ==
    /\ Incomplete.kind = "incomplete" /\ (\A x : Raises(x).kind = "error")
    /\ \A b : /\ Frame(b).kind = "frame" /\ Frame(b).type = b[1]
              /\ Frame(b).payload = SubSeq(b, HeaderSize + 1, FrameSize(b))
              /\ Frame(b).remaining = SubSeq(b, FrameSize(b) + 1, Len(b))
  BY DEF Incomplete, Raises, Frame

\* A bad header is bad in the whole stream.
LEMMA ErrorAgrees ==
    ASSUME NEW s \in Seq(Byte), NEW b \in Seq(Byte), Begins(b, s),
           DecodeFrameStream(b) \in {Raises("InvalidMessageType"), Raises("OversizedFrame")}
    PROVE  DecodeFrameStream(s) \in {Raises("InvalidMessageType"), Raises("OversizedFrame")}
<1>1. /\ Len(b) >= HeaderSize /\ (b[1] \notin MessageType \/ DeclaredLength(b) > MaxPayload)
  BY DecodeMeaning, DecodeKinds
<1>2. /\ Len(s) >= HeaderSize /\ b[1] = s[1] /\ DeclaredLength(b) = DeclaredLength(s)
  BY <1>1, HeaderAgrees
<1>3. s[1] \notin MessageType \/ DeclaredLength(s) > MaxPayload
  BY <1>1, <1>2
<1>4. Len(s) \in Nat /\ HeaderSize \in Nat /\ DeclaredLength(s) \in Nat
  BY <1>2, HeaderType DEF HeaderSize
<1>5. ~(Len(s) < HeaderSize) /\ ~(s[1] \in MessageType /\ DeclaredLength(s) <= MaxPayload)
  BY <1>2, <1>3, <1>4
<1> QED
  BY <1>5, DecodeMeaning

\* A frame is the same frame in the whole stream, with more behind it perhaps.
LEMMA FrameAgrees ==
    ASSUME NEW s \in Seq(Byte), NEW b \in Seq(Byte), Begins(b, s),
           DecodeFrameStream(b) = Frame(b)
    PROVE  /\ DecodeFrameStream(s) = Frame(s) /\ Frame(s).type = Frame(b).type
           /\ Frame(s).payload = Frame(b).payload
           /\ Frame(b).remaining # << >> => Frame(s).remaining # << >>
           /\ Len(s) >= HeaderSize /\ FrameSize(s) <= Len(s)
<1> DEFINE H == HeaderSize
           F == FrameSize(s)
<1>1. /\ Len(b) >= HeaderSize /\ b[1] \in MessageType /\ DeclaredLength(b) <= MaxPayload
      /\ FrameSize(b) <= Len(b)
  BY DecodeMeaning, DecodeKinds
<1>2. /\ Len(s) >= HeaderSize /\ b[1] = s[1] /\ DeclaredLength(b) = DeclaredLength(s)
      /\ FrameSize(b) = F
  BY <1>1, HeaderAgrees
<1>3. /\ Len(s) \in Nat /\ Len(b) \in Nat /\ H \in Nat /\ F \in Nat /\ DeclaredLength(s) \in Nat
      /\ F >= H /\ F = H + DeclaredLength(s) /\ Len(b) <= Len(s) /\ F <= Len(b) /\ H >= 2
  BY <1>1, <1>2, HeaderType DEF HeaderSize, Begins
<1>4. ~(Len(s) < H) /\ F <= Len(s) /\ ~(Len(s) < F) /\ ~(DeclaredLength(s) > MaxPayload)
  BY <1>1, <1>2, <1>3
<1>5. DecodeFrameStream(s) = Frame(s)
  BY <1>1, <1>2, <1>4, DecodeMeaning
<1> HIDE DEF H, F
<1>6. SubSeq(b, H + 1, F) = SubSeq(s, H + 1, F)
  <2>1. /\ H + 1 \in 1..(Len(b) + 1) /\ F \in ((H + 1) - 1)..Len(b)
        /\ H + 1 \in 1..(Len(s) + 1) /\ F \in ((H + 1) - 1)..Len(s)
    BY <1>3, <1>4
  <2>2. /\ SubSeq(b, H + 1, F) \in Seq(Byte) /\ Len(SubSeq(b, H + 1, F)) = F - (H + 1) + 1
        /\ \A k \in 1..(F - (H + 1) + 1) : SubSeq(b, H + 1, F)[k] = b[(H + 1) + k - 1]
    BY <2>1, Slice
  <2>3. /\ SubSeq(s, H + 1, F) \in Seq(Byte) /\ Len(SubSeq(s, H + 1, F)) = F - (H + 1) + 1
        /\ \A k \in 1..(F - (H + 1) + 1) : SubSeq(s, H + 1, F)[k] = s[(H + 1) + k - 1]
    BY <2>1, Slice
  <2>4. \A j \in 1..Len(b) : b[j] = s[j]
    <3>1. 1 \in 1..(Len(s) + 1) /\ Len(b) \in (1 - 1)..Len(s) /\ Len(b) - 1 + 1 = Len(b)
      BY <1>3
    <3>2. \A j \in 1..Len(b) : SubSeq(s, 1, Len(b))[j] = s[1 + j - 1]
      BY <3>1, Slice
    <3>3. \A j \in 1..Len(b) : 1 + j - 1 = j
      BY <1>3
    <3> QED
      BY <3>2, <3>3 DEF Begins
  <2>5. \A k \in 1..(F - (H + 1) + 1) : (H + 1) + k - 1 \in 1..Len(b)
    BY <1>3
  <2>6. \A k \in 1..(F - (H + 1) + 1) : SubSeq(b, H + 1, F)[k] = SubSeq(s, H + 1, F)[k]
    BY <2>2, <2>3, <2>4, <2>5, Zenon
  <2> QED
    BY <2>2, <2>3, <2>6, SeqEqual
<1>7. ASSUME SubSeq(s, F + 1, Len(s)) = << >> PROVE SubSeq(b, F + 1, Len(b)) = << >>
  <2>1. F + 1 \in 1..(Len(s) + 1) /\ Len(s) \in ((F + 1) - 1)..Len(s)
    BY <1>3, <1>4
  <2>2. Len(SubSeq(s, F + 1, Len(s))) = Len(s) - (F + 1) + 1
    BY <2>1, Slice
  <2>3. Len(s) - (F + 1) + 1 = 0
    BY <1>7, <2>2
  <2>4. Len(b) < F + 1 /\ F + 1 \in Int /\ Len(b) \in Int
    <3>1. F \in Nat /\ Len(b) \in Nat /\ Len(s) \in Nat /\ Len(b) <= Len(s)
      BY <1>3
    <3> QED
      BY <2>3, <3>1
  <2> QED
    BY <2>4, SubSeqEmpty
<1> QED
  BY <1>2, <1>4, <1>5, <1>6, <1>7, DecodeKinds DEF H, F

\* What decode_frame says of the whole stream.
LEMMA WholeStream ==
    /\ DecodeFrameStream(wire) = Incomplete => WholeStreamOutcome = Done("unanswered")
    /\ DecodeFrameStream(wire) \in {Raises("InvalidMessageType"), Raises("OversizedFrame")}
         => WholeStreamOutcome = Done("MALFORMED")
    /\ DecodeFrameStream(wire) = Frame(wire)
         => WholeStreamOutcome = IF Frame(wire).remaining = << >> /\ Frame(wire).type = SIGNED_BUNDLE
                                 THEN [kind |-> "transaction", payload |-> Frame(wire).payload]
                                 ELSE Done("MALFORMED")
<1> DEFINE d == DecodeFrameStream(wire)
           e == DecodeFrame(wire)
<1>0. WholeStreamOutcome = IF e.kind = "frame" /\ e.type = SIGNED_BUNDLE
                           THEN [kind |-> "transaction", payload |-> e.payload]
                           ELSE IF d = Incomplete THEN Done("unanswered") ELSE Done("MALFORMED")
  BY DEF WholeStreamOutcome
<1>1. e = IF d = Incomplete \/ (d.kind = "frame" /\ d.remaining # << >>)
          THEN Raises("MalformedFrame") ELSE d
  BY DEF DecodeFrame
<1> HIDE DEF d, e
<1>2. CASE d = Incomplete
  <2>1. e.kind = "error"
    BY <1>1, <1>2, DecodeKinds
  <2>2. WholeStreamOutcome = Done("unanswered")
    BY <1>0, <1>2, <2>1
  <2>3. d.kind = "incomplete"
    BY <1>2, DecodeKinds
  <2> QED
    BY <2>2, <2>3, DecodeKinds DEF d
<1>3. CASE d \in {Raises("InvalidMessageType"), Raises("OversizedFrame")}
  <2>1. d.kind = "error"
    BY <1>3, DecodeKinds
  <2>2. d # Incomplete /\ d # Frame(wire)
    BY <2>1, DecodeKinds
  <2>3. e = d
    BY <1>1, <2>1, <2>2
  <2>4. WholeStreamOutcome = Done("MALFORMED")
    BY <1>0, <2>1, <2>2, <2>3
  <2> QED
    BY <2>2, <2>4 DEF d
<1>4. CASE d = Frame(wire)
  <2>1. d.kind = "frame" /\ d # Incomplete
    BY <1>4, DecodeKinds
  <2>2. d \notin {Raises("InvalidMessageType"), Raises("OversizedFrame")}
    BY <2>1, DecodeKinds
  <2>3. CASE d.remaining # << >>
    <3>1. e.kind = "error"
      BY <1>1, <2>1, <2>3, DecodeKinds
    <3>2. WholeStreamOutcome = Done("MALFORMED")
      BY <1>0, <2>1, <3>1
    <3> QED
      BY <1>4, <2>1, <2>2, <2>3, <3>2 DEF d
  <2>4. CASE d.remaining = << >>
    <3>1. e = d
      BY <1>1, <2>1, <2>4
    <3>2. WholeStreamOutcome = IF d.type = SIGNED_BUNDLE
                               THEN [kind |-> "transaction", payload |-> d.payload]
                               ELSE Done("MALFORMED")
      BY <1>0, <2>1, <3>1
    <3> QED
      BY <1>4, <2>1, <2>2, <2>4, <3>2 DEF d
  <2> QED
    BY <2>3, <2>4
<1> QED
  BY <1>2, <1>3, <1>4 DEF d

\* What CutsDoNotMatter asks of a handler that ends as o, having read b.
RightEnd(o, b) ==
    /\ o = IF HasTrailing /\ Len(b) = FrameSize(wire)
           THEN OnFrame([DecodeFrameStream(wire) EXCEPT !.remaining = << >>])
           ELSE WholeStreamOutcome
    /\ o.kind = "transaction" => StartsWith(wire, EncodeFrame(SIGNED_BUNDLE, o.payload))

\* Nothing is behind the frame exactly when it ends where the bytes do.
LEMMA NothingBehind ==
    ASSUME NEW b \in Seq(Byte), DecodeFrameStream(b) = Frame(b)
    PROVE  Frame(b).remaining = << >> <=> Len(b) = FrameSize(b)
<1>1. Len(b) >= HeaderSize /\ FrameSize(b) <= Len(b)
  BY DecodeMeaning, DecodeKinds
<1>2. FrameSize(b) \in Nat /\ Len(b) \in Nat
  BY <1>1, HeaderType
<1>3. Frame(b).remaining = SubSeq(b, FrameSize(b) + 1, Len(b))
  BY DecodeKinds
<1>4. FrameSize(b) + 1 \in 1..(Len(b) + 1) /\ Len(b) \in FrameSize(b)..Len(b)
  BY <1>1, <1>2
<1>5. Len(Frame(b).remaining) = Len(b) - FrameSize(b) /\ Frame(b).remaining \in Seq(Byte)
  BY <1>2, <1>3, <1>4, Slice
<1>6. Frame(b).remaining = << >> <=> Len(Frame(b).remaining) = 0
  BY <1>5
<1> QED
  BY <1>2, <1>5, <1>6

\* A handler that ends on what it read ends right ...
LEMMA ReadEndsRight ==
    ASSUME FrameTypeOK, ServerRead, outcome' # Open
    PROVE  RightEnd(outcome', buffer')
<1> DEFINE b == buffer'
<1>1. b \in Seq(Byte) /\ wire \in Seq(Byte) /\ Begins(b, wire)
  BY ServerReads, StreamTypes
<1>2. \/ /\ DecodeFrameStream(b) \in {Raises("InvalidMessageType"), Raises("OversizedFrame")}
         /\ outcome' = Done("MALFORMED")
      \/ DecodeFrameStream(b) = Frame(b) /\ outcome' = OnFrame(Frame(b))
  BY ServerConcludes
<1> HIDE DEF b
<1>3. Done("MALFORMED").kind = "MALFORMED"
  BY DEF Done
<1>4. CASE /\ DecodeFrameStream(b) \in {Raises("InvalidMessageType"), Raises("OversizedFrame")}
           /\ outcome' = Done("MALFORMED")
  <2>1. DecodeFrameStream(wire) \in {Raises("InvalidMessageType"), Raises("OversizedFrame")}
    BY <1>1, <1>4, ErrorAgrees
  <2>2. outcome' = WholeStreamOutcome
    BY <1>4, <2>1, WholeStream
  <2>3. ~HasTrailing
    BY <2>1, DecodeKinds DEF HasTrailing
  <2> QED
    BY <1>3, <1>4, <2>2, <2>3 DEF RightEnd
<1>5. CASE DecodeFrameStream(b) = Frame(b) /\ outcome' = OnFrame(Frame(b))
  <2>1. /\ DecodeFrameStream(wire) = Frame(wire) /\ Frame(wire).type = Frame(b).type
        /\ Frame(wire).payload = Frame(b).payload
        /\ Frame(b).remaining # << >> => Frame(wire).remaining # << >>
        /\ Len(wire) >= HeaderSize /\ FrameSize(wire) <= Len(wire)
        /\ Frame(b).remaining = << >> <=> Len(b) = FrameSize(wire)
    <3>1. Len(b) >= HeaderSize
      BY <1>1, <1>5, DecodeMeaning, DecodeKinds
    <3>2. FrameSize(b) = FrameSize(wire)
      BY <1>1, <3>1, HeaderAgrees
    <3> QED
      BY <1>1, <1>5, <3>2, FrameAgrees, NothingBehind
  <2>2. WholeStreamOutcome =
            IF Frame(wire).remaining = << >> /\ Frame(wire).type = SIGNED_BUNDLE
            THEN [kind |-> "transaction", payload |-> Frame(wire).payload]
            ELSE Done("MALFORMED")
    BY <2>1, WholeStream
  <2>3. CASE /\ outcome' = Done("MALFORMED")
             /\ Frame(b).remaining # << >> \/ Frame(b).type # SIGNED_BUNDLE
    <3>1. outcome' = WholeStreamOutcome
      BY <2>1, <2>2, <2>3
    <3>2. ASSUME Len(b) = FrameSize(wire)
          PROVE  outcome' = OnFrame([DecodeFrameStream(wire) EXCEPT !.remaining = << >>])
      <4>1. Frame(wire).type # SIGNED_BUNDLE
        BY <2>1, <2>3, <3>2
      <4>2. [Frame(wire) EXCEPT !.remaining = << >>].type = Frame(wire).type
        BY DEF Frame
      <4> QED
        BY <2>1, <2>3, <4>1, <4>2 DEF OnFrame
    <3> QED
      BY <1>3, <2>3, <3>1, <3>2 DEF RightEnd, b
  <2>4. CASE /\ outcome' = [kind |-> "transaction", payload |-> Frame(b).payload]
             /\ outcome'.payload = Frame(b).payload
             /\ Frame(b).remaining = << >> /\ Frame(b).type = SIGNED_BUNDLE
    <3>1. StartsWith(wire, EncodeFrame(SIGNED_BUNDLE, outcome'.payload))
      <4>1. /\ SubSeq(wire, 1, FrameSize(wire)) = EncodeFrame(wire[1], Frame(wire).payload)
            /\ Len(EncodeFrame(wire[1], Frame(wire).payload)) = FrameSize(wire)
        BY <1>1, <2>1, FrameIsEncoded, DecodeKinds
      <4>2. wire[1] = SIGNED_BUNDLE /\ outcome'.payload = Frame(wire).payload
        BY <2>1, <2>4, DecodeKinds
      <4> QED
        BY <2>1, <4>1, <4>2 DEF StartsWith
    <3>2. CASE Frame(wire).remaining = << >>
      <4>1. outcome' = WholeStreamOutcome
        BY <2>1, <2>2, <2>4, <3>2
      <4>2. ~HasTrailing
        BY <2>1, <3>2 DEF HasTrailing
      <4> QED
        BY <3>1, <4>1, <4>2 DEF RightEnd
    <3>3. CASE Frame(wire).remaining # << >>
      <4>1. HasTrailing
        BY <2>1, <3>3, DecodeKinds DEF HasTrailing
      <4> DEFINE c == [Frame(wire) EXCEPT !.remaining = << >>]
      <4>2. c.remaining = << >> /\ c.type = SIGNED_BUNDLE /\ c.payload = Frame(b).payload
        <5>1. /\ c.remaining = << >> /\ c.type = Frame(wire).type
              /\ c.payload = Frame(wire).payload
          BY DEF Frame
        <5> QED
          BY <2>1, <2>4, <5>1
      <4> HIDE DEF c
      <4>3. outcome' = OnFrame(c)
        BY <2>4, <4>2 DEF OnFrame
      <4> QED
        BY <2>1, <2>4, <3>1, <4>1, <4>3 DEF RightEnd, b, c
    <3> QED
      BY <3>2, <3>3
  <2> QED
    BY <1>5, <2>3, <2>4, OnFrameKinds
<1> QED
  BY <1>2, <1>4, <1>5

\* ... and so does one that meets the end of the stream.
LEMMA EofEndsRight ==
    ASSUME FrameTypeOK, FrameInv, ServerEof
    PROVE  RightEnd(outcome', buffer')
<1>1. /\ end = "server" /\ outcome = Open /\ outcome' = Done("unanswered")
      /\ Len(buffer) = Len(wire)
  BY DEF ServerEof, AtEof
<1>2. buffer = wire
  BY <1>1, StreamTypes, SubSeqFull DEF Begins
<1>3. DecodeFrameStream(wire) = Incomplete
  BY <1>1, <1>2 DEF FrameInv
<1>4. outcome' = WholeStreamOutcome /\ outcome'.kind = "unanswered"
  BY <1>1, <1>3, WholeStream DEF Done
<1>5. ~HasTrailing
  BY <1>3, DecodeKinds DEF HasTrailing
<1> QED
  BY <1>4, <1>5 DEF RightEnd

\* However TCP cuts a stream without bytes behind its frame, handle_connection ends
\* as decode_frame would on the whole of it; bytes behind a frame make it malformed
\* exactly when the read that completed the frame returned some of them; and the
\* payload it goes on with is the one that encode_frame put into the stream.
THEOREM CutsNeverMatter == Spec => []CutsDoNotMatter
<1>0. CutsDoNotMatter <=> (end = "server" /\ outcome # Open => RightEnd(outcome, buffer))
  BY DEF CutsDoNotMatter, RightEnd
<1>1. Init => CutsDoNotMatter
  BY DEF Init, CutsDoNotMatter
<1>2. ASSUME FrameTypeOK, FrameInv, CutsDoNotMatter, [Next]_vars PROVE CutsDoNotMatter'
  <2>1. ASSUME wire' = wire, end' = "server" /\ outcome' # Open => RightEnd(outcome', buffer')
        PROVE  CutsDoNotMatter'
    <3>1. WholeStreamOutcome' = WholeStreamOutcome /\ HasTrailing' = HasTrailing
      BY <2>1 DEF WholeStreamOutcome, HasTrailing
    <3> QED
      BY <2>1, <3>1 DEF CutsDoNotMatter, RightEnd
  <2>2. CASE ServerRead
    BY <1>2, <2>1, <2>2, ReadEndsRight DEF ServerRead
  <2>3. CASE ServerEof
    BY <1>2, <2>1, <2>3, EofEndsRight DEF ServerEof
  <2>4. CASE UNCHANGED <<end, wire, outcome, buffer>>
    BY <1>0, <1>2, <2>1, <2>4
  <2>5. CASE end' = "client" /\ wire' = wire
    BY <2>1, <2>5
  <2>6. CASE ClientRead \/ ClientTimeout \/ ClientEof
    BY <2>5, <2>6 DEF ClientRead, ClientTimeout, ClientEof
  <2>7. CASE Arrive \/ PeerCloses \/ UNCHANGED vars
    BY <2>4, <2>7 DEF Arrive, PeerCloses, vars
  <2> QED
    BY <1>2, <2>2, <2>3, <2>6, <2>7 DEF Next, ReaderStep
<1> QED
  BY <1>1, <1>2, FrameInvariant, PTL DEF Spec
-----------------------------------------------------------------------------
(* The answer                                                              *)

\* What encode_frame writes, as a reader finds it.
LEMMA EncodedFrame ==
    ASSUME NEW t \in Nat, NEW pl \in Seq(Byte), Fits(Len(pl)),
           NEW s \in Seq(Byte), s = EncodeFrame(t, pl)
    PROVE  /\ Len(s) >= HeaderSize /\ FrameSize(s) = Len(s) /\ s[1] = t
           /\ SubSeq(s, HeaderSize + 1, Len(s)) = pl
<1> DEFINE n == Len(pl)
           p == Pack(n)
           x == <<t>> \o p
<1>1. n \in Nat /\ pl \in Seq(Byte)
  OBVIOUS
<1>2. p \in Seq(Byte) /\ Len(p) = LenBytes /\ Unpack(p) = n
  BY <1>1, UnpackOfPack
<1>3. p \in Seq(Nat) /\ pl \in Seq(Nat) /\ <<t>> \in Seq(Nat)
      /\ Len(<<t>>) = 1 /\ <<t>>[1] = t
  <2>1. Byte \subseteq Nat
    BY DEF Byte
  <2>2. ASSUME NEW u \in Seq(Byte) PROVE u \in Seq(Nat)
    <3>1. Len(u) \in Nat /\ u \in [1..Len(u) -> Byte]
      BY LenProperties
    <3>2. u \in [1..Len(u) -> Nat]
      BY <2>1, <3>1, Zenon
    <3> QED
      BY <3>1, <3>2
  <2>3. <<t>> \in Seq(Nat) /\ Len(<<t>>) = 1 /\ <<t>>[1] = t
    OBVIOUS
  <2> QED
    BY <1>1, <1>2, <2>2, <2>3
<1>4. s = x \o pl
  BY DEF EncodeFrame
<1> HIDE DEF n, p
<1>5. /\ x \in Seq(Nat) /\ Len(x) = 1 + LenBytes
      /\ \A i \in 1..(1 + LenBytes) : x[i] = IF i <= 1 THEN <<t>>[i] ELSE p[i - 1]
  BY <1>2, <1>3, ConcatProperties
<1> HIDE DEF x
<1>6. HeaderSize = 1 + LenBytes /\ HeaderSize \in Nat /\ HeaderSize >= 2 /\ LenBytes \in Nat
  BY DEF HeaderSize
<1>7. /\ Len(s) = HeaderSize + n
      /\ \A i \in 1..(HeaderSize + n) : s[i] = IF i <= HeaderSize THEN x[i] ELSE pl[i - HeaderSize]
  <2>1. /\ Len(x \o pl) = Len(x) + Len(pl)
        /\ \A i \in 1..(Len(x) + Len(pl)) :
              (x \o pl)[i] = IF i <= Len(x) THEN x[i] ELSE pl[i - Len(x)]
    <3>1. x \in Seq(Nat) /\ pl \in Seq(Nat)
      BY <1>3, <1>5
    <3> QED
      BY <3>1, ConcatProperties
  <2>2. Len(x) = HeaderSize
    BY <1>5, <1>6
  <2> QED
    BY <1>4, <2>1, <2>2 DEF n
<1>8. Len(s) \in Nat /\ Len(s) >= HeaderSize
  BY <1>1, <1>6, <1>7 DEF n
<1>9. s[1] = t
  <2>1. 1 \in 1..(1 + LenBytes) /\ 1 <= 1 /\ 1 \in 1..(HeaderSize + n) /\ 1 <= HeaderSize
    BY <1>6, <1>7, <1>8
  <2> QED
    BY <1>3, <1>5, <1>7, <2>1
<1>10. SubSeq(s, 2, HeaderSize) = p
  <2>1. /\ SubSeq(s, 2, HeaderSize) \in Seq(Byte) /\ Len(SubSeq(s, 2, HeaderSize)) = LenBytes
        /\ \A k \in 1..LenBytes : SubSeq(s, 2, HeaderSize)[k] = s[k + 1]
    BY <1>8, HeaderType
  <2>2. ASSUME NEW k \in 1..LenBytes PROVE s[k + 1] = p[k]
    <3>1. /\ k + 1 \in 1..(1 + LenBytes) /\ ~(k + 1 <= 1) /\ k + 1 \in 1..(HeaderSize + n)
          /\ k + 1 <= HeaderSize /\ (k + 1) - 1 = k
      BY <1>6, <1>7, <1>8
    <3> QED
      BY <1>5, <1>7, <3>1
  <2>3. \A k \in 1..LenBytes : SubSeq(s, 2, HeaderSize)[k] = p[k]
    BY <2>1, <2>2
  <2> QED
    BY <1>2, <2>1, <2>3, SeqEqual
<1>11. FrameSize(s) = Len(s)
  BY <1>2, <1>7, <1>10 DEF FrameSize, DeclaredLength
<1>12. SubSeq(s, HeaderSize + 1, Len(s)) = pl
  <2>1. /\ HeaderSize + 1 \in 1..(Len(s) + 1) /\ Len(s) \in ((HeaderSize + 1) - 1)..Len(s)
        /\ Len(s) - (HeaderSize + 1) + 1 = n
    BY <1>1, <1>6, <1>7 DEF n
  <2>2. /\ SubSeq(s, HeaderSize + 1, Len(s)) \in Seq(Byte)
        /\ Len(SubSeq(s, HeaderSize + 1, Len(s))) = n
        /\ \A k \in 1..n : SubSeq(s, HeaderSize + 1, Len(s))[k] = s[(HeaderSize + 1) + k - 1]
    BY <2>1, Slice
  <2>3. ASSUME NEW k \in 1..n PROVE s[(HeaderSize + 1) + k - 1] = pl[k]
    <3>1. n \in Nat
      BY <1>1 DEF n
    <3>2. /\ (HeaderSize + 1) + k - 1 \in 1..(HeaderSize + n)
          /\ ~((HeaderSize + 1) + k - 1 <= HeaderSize)
          /\ ((HeaderSize + 1) + k - 1) - HeaderSize = k
      BY <1>6, <3>1
    <3> QED
      BY <1>7, <3>2
  <2>4. \A k \in 1..n : SubSeq(s, HeaderSize + 1, Len(s))[k] = pl[k]
    BY <2>2, <2>3
  <2> QED
    BY <1>1, <2>2, <2>4, SeqEqual DEF n
<1> QED
  BY <1>8, <1>9, <1>11, <1>12

\* The ACK that Gateway B writes, as Gateway A reads it.
LEMMA AckFrame ==
    ASSUME NEW s \in Seq(Byte), s = EncodeFrame(ACK, OwnAck)
    PROVE  /\ Len(s) >= HeaderSize /\ FrameSize(s) = Len(s) /\ s[1] = ACK
           /\ SubSeq(s, HeaderSize + 1, Len(s)) = OwnAck
<1>1. ACK \in Nat
  BY DEF ACK
<1> QED
  BY <1>1, EncodedFrame, AckAssumption

\* encode_frame and decode_frame are inverse to each other: for every message type
\* that is a byte and every payload within the limit, decode_frame gives back the
\* type and the payload, and nothing is left over.
THEOREM FrameRoundTrip ==
    ASSUME NEW t \in MessageType, t \in Byte, NEW pl \in Seq(Byte),
           Len(pl) <= MaxPayload, Fits(Len(pl))
    PROVE  LET d == DecodeFrame(EncodeFrame(t, pl)) IN
           d.kind = "frame" /\ d.type = t /\ d.payload = pl /\ d.remaining = << >>
<1> DEFINE s == EncodeFrame(t, pl)
<1>0. t \in Nat
  BY DEF Byte
<1>1. s \in Seq(Byte)
  <2>1. Pack(Len(pl)) \in Seq(Byte)
    BY UnpackOfPack
  <2>2. <<t>> \in Seq(Byte)
    OBVIOUS
  <2>3. <<t>> \o Pack(Len(pl)) \in Seq(Byte)
    BY <2>1, <2>2, ConcatProperties
  <2> QED
    BY <2>3, ConcatProperties DEF EncodeFrame
<1>2. /\ Len(s) >= HeaderSize /\ FrameSize(s) = Len(s) /\ s[1] = t
      /\ SubSeq(s, HeaderSize + 1, Len(s)) = pl
  BY <1>0, <1>1, EncodedFrame
<1> HIDE DEF s
<1>3. Len(s) \in Nat /\ HeaderSize \in Nat /\ FrameSize(s) <= Len(s)
  BY <1>1, <1>2 DEF HeaderSize
<1>4. DeclaredLength(s) = Len(pl)
  BY <1>1, <1>2, <1>3, FrameIsEncoded
<1>5. DecodeFrameStream(s) = Frame(s)
  <2>1. ~(Len(s) < HeaderSize) /\ ~(Len(s) < FrameSize(s)) /\ ~(DeclaredLength(s) > MaxPayload)
    BY <1>2, <1>3, <1>4
  <2> QED
    BY <1>1, <1>2, <2>1, DecodeMeaning
<1>6. SubSeq(s, FrameSize(s) + 1, Len(s)) = << >>
  <2>1. Len(s) < FrameSize(s) + 1 /\ FrameSize(s) + 1 \in Int /\ Len(s) \in Int
    BY <1>2, <1>3
  <2> QED
    BY <2>1, SubSeqEmpty
<1>7. /\ Frame(s).kind = "frame" /\ Frame(s).type = t /\ Frame(s).payload = pl
      /\ Frame(s).remaining = << >>
  BY <1>2, <1>6, DecodeKinds
<1>8. Frame(s) # Incomplete
  BY <1>7, DecodeKinds
<1>9. DecodeFrame(s) = Frame(s)
  BY <1>5, <1>7, <1>8 DEF DecodeFrame
<1> QED
  BY <1>7, <1>9 DEF s

\* A reply that send_envelope takes for an ACK is the ACK of its transaction.
LEMMA AckIsWhole ==
    ASSUME NEW b \in Seq(Byte), ReplyComplete(b), ClientResult(b) = "ACK"
    PROVE  b = EncodeFrame(ACK, OwnAck)
<1>1. Len(b) >= HeaderSize /\ Len(b) = FrameSize(b)
  BY DEF ReplyComplete
<1>2. b[1] = ACK /\ SubSeq(b, HeaderSize + 1, Len(b)) = OwnAck
  BY DEF ClientResult, ACK, NACK
<1>3. FrameSize(b) <= Len(b)
  BY <1>1, HeaderType
<1>4. SubSeq(b, 1, FrameSize(b)) = EncodeFrame(b[1], SubSeq(b, HeaderSize + 1, FrameSize(b)))
  BY <1>1, <1>3, FrameIsEncoded
<1>5. SubSeq(b, 1, Len(b)) = b
  BY SubSeqFull
<1> QED
  BY <1>1, <1>2, <1>4, <1>5

\* While the ACK arrives, send_envelope asks for no byte that is not part of it.
LEMMA AckIsEnough ==
    ASSUME FrameTypeOK, FrameInv, end = "client", wire = EncodeFrame(ACK, OwnAck)
    PROVE  Wanted <= Len(wire)
<1>1. /\ wire \in Seq(Byte) /\ Len(wire) \in Nat /\ Len(buffer) \in Nat /\ Begins(buffer, wire)
      /\ buffer \in Seq(Byte)
  BY StreamTypes DEF FrameTypeOK
<1>2. Len(wire) >= HeaderSize /\ FrameSize(wire) = Len(wire)
  BY <1>1, AckFrame
<1>3. HeaderSize \in Nat /\ HeaderSize >= 2
  BY DEF HeaderSize
<1>4. CASE Len(buffer) = 0
  BY <1>1, <1>2, <1>3, <1>4 DEF Wanted
<1>5. CASE Len(buffer) = 1
  BY <1>1, <1>2, <1>3, <1>5 DEF Wanted
<1>6. CASE Len(buffer) # 0 /\ Len(buffer) # 1
  <2>1. Len(buffer) >= HeaderSize
    <3>1. \A n \in Nat : n # 0 /\ n # 1 => ~(n <= 1)
      OBVIOUS
    <3> QED
      BY <1>1, <1>6, <3>1, Zenon DEF FrameInv
  <2>2. FrameSize(buffer) = Len(wire)
    BY <1>1, <1>2, <2>1, HeaderAgrees
  <2>3. Wanted = FrameSize(buffer)
    BY <1>6 DEF Wanted
  <2> QED
    BY <1>1, <2>2, <2>3
<1> QED
  BY <1>4, <1>5, <1>6

\* send_envelope takes nothing for an ACK but the whole ACK frame that names its
\* transaction; and when that is what Gateway B writes, no segmentation and no
\* closing of the connection turns it into anything but an ACK or a timeout.
THEOREM AnswersUnderstood == Spec => []AnswerUnderstood
<1>k. (\A x : Done(x).kind = x) /\ Open.kind = "open"
  BY DEF Done, Open
<1>1. Init => AnswerUnderstood
  BY <1>k DEF Init, AnswerUnderstood
<1>2. ASSUME FrameTypeOK, FrameInv, AnswerUnderstood, [Next]_vars PROVE AnswerUnderstood'
  <2>0. EncodeFrame(ACK, OwnAck)' = EncodeFrame(ACK, OwnAck)
    OBVIOUS
  <2>1. CASE ServerRead \/ ServerEof
    <3>1. outcome'.kind \in {"open", "MALFORMED", "transaction", "unanswered"} /\ end' = "server"
      <4>1. CASE ServerRead
        BY <1>2, <1>k, <4>1, ServerConcludes, OnFrameKinds DEF ServerRead
      <4>2. CASE ServerEof
        BY <1>k, <4>2 DEF ServerEof
      <4> QED
        BY <2>1, <4>1, <4>2
    <3> QED
      BY <3>1 DEF AnswerUnderstood
  <2>2. CASE ClientRead
    <3>1. /\ end = "client" /\ wire' = wire
          /\ outcome' = IF ReplyComplete(buffer') THEN Done(ClientResult(buffer')) ELSE Open
      BY <2>2 DEF ClientRead
    <3>2. buffer' \in Seq(Byte) /\ Begins(buffer', wire) /\ wire \in Seq(Byte)
      BY <1>2, <2>2, ClientReads, StreamTypes
    <3>3. CASE ~ReplyComplete(buffer')
      <4>1. outcome'.kind = "open"
        BY <1>k, <3>1, <3>3
      <4> QED
        BY <4>1 DEF AnswerUnderstood
    <3>4. CASE ReplyComplete(buffer')
      <4>1. outcome'.kind = ClientResult(buffer')
        BY <1>k, <3>1, <3>4
      <4>2. outcome'.kind = "ACK" => buffer' = EncodeFrame(ACK, OwnAck)
        BY <3>2, <3>4, <4>1, AckIsWhole
      <4>3. ASSUME wire = EncodeFrame(ACK, OwnAck) PROVE ClientResult(buffer') = "ACK"
        <5>1. /\ Len(wire) >= HeaderSize /\ FrameSize(wire) = Len(wire) /\ wire[1] = ACK
              /\ SubSeq(wire, HeaderSize + 1, Len(wire)) = OwnAck
          BY <3>2, <4>3, AckFrame
        <5>2. Len(buffer') = Len(wire)
          BY <3>2, <3>4, <5>1, HeaderAgrees DEF ReplyComplete
        <5>3. buffer' = wire
          BY <3>2, <5>2, SubSeqFull DEF Begins
        <5> QED
          BY <5>1, <5>3 DEF ClientResult, ACK, NACK
      <4> QED
        BY <3>1, <4>1, <4>2, <4>3 DEF AnswerUnderstood
    <3> QED
      BY <3>3, <3>4
  <2>3. CASE ClientTimeout
    <3>1. outcome'.kind = "TIMEOUT"
      BY <1>k, <2>3 DEF ClientTimeout
    <3> QED
      BY <3>1 DEF AnswerUnderstood
  <2>4. CASE ClientEof
    <3>1. /\ end = "client" /\ closed /\ arrived < Wanted /\ wire' = wire
          /\ outcome'.kind = "TRANSPORT_ERROR"
      BY <1>k, <2>4 DEF ClientEof
    <3>2. wire # EncodeFrame(ACK, OwnAck)
      <4> SUFFICES ASSUME wire = EncodeFrame(ACK, OwnAck) PROVE FALSE
        OBVIOUS
      <4>1. arrived = Len(wire) /\ Wanted <= Len(wire)
        BY <1>2, <3>1, AckIsEnough DEF FrameInv
      <4>2. Wanted \in Int /\ Len(wire) \in Int
        <5>1. Len(wire) \in Nat /\ buffer \in Seq(Byte) /\ Len(buffer) \in Nat
          BY <1>2, StreamTypes DEF FrameTypeOK
        <5>2. CASE Len(buffer) = 0 \/ Len(buffer) = 1
          BY <5>1, <5>2 DEF Wanted, HeaderSize
        <5>3. CASE Len(buffer) # 0 /\ Len(buffer) # 1
          <6>1. \A n \in Nat : n # 0 /\ n # 1 => ~(n <= 1)
            OBVIOUS
          <6>2. Len(buffer) >= HeaderSize
            BY <1>2, <3>1, <5>1, <5>3, <6>1, Zenon DEF FrameInv
          <6>3. Wanted = FrameSize(buffer) /\ FrameSize(buffer) \in Nat
            BY <5>1, <5>3, <6>2, HeaderType DEF Wanted
          <6> QED
            BY <5>1, <6>3
        <5> QED
          BY <5>2, <5>3
      <4> QED
        BY <3>1, <4>1, <4>2
    <3> QED
      BY <3>1, <3>2 DEF AnswerUnderstood
  <2>5. CASE UNCHANGED <<end, wire, buffer, outcome>>
    BY <1>2, <2>5 DEF AnswerUnderstood
  <2>6. CASE Arrive \/ PeerCloses \/ UNCHANGED vars
    BY <2>5, <2>6 DEF Arrive, PeerCloses, vars
  <2> QED
    BY <1>2, <2>1, <2>2, <2>3, <2>4, <2>6 DEF Next, ReaderStep
<1> QED
  BY <1>1, <1>2, FrameInvariant, PTL DEF Spec
=============================================================================
