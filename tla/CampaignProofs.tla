--------------------------- MODULE CampaignProofs ---------------------------
(***************************************************************************)
(* Proofs about BenchmarkCampaign, for any number of iterations, crypto    *)
(* modes, profiles and events, any warm-up and window, and any number of   *)
(* repeated attempts and failed commands.                                  *)
(***************************************************************************)
EXTENDS BenchmarkCampaign, FiniteSetTheorems, SequenceTheorems, WellFoundedInduction, TLAPS

\* What is assumed of the numbers among the constants.
LEMMA Numbers ==
    /\ Iterations \in Nat \ {0} /\ EventCount \in Nat \ {0} /\ MaxLines \in Nat \ {0}
    /\ Len(Cryptos) \in Nat \ {0} /\ Len(Profiles) \in Nat \ {0}
    /\ Discard \in Nat /\ Window \in Nat /\ MaxRetried \in Nat /\ MaxFailures \in Nat
  BY CampaignAssumption

-----------------------------------------------------------------------------
(* Induction, by way of the least counterexample                           *)

\* A set of natural numbers that is not empty has a least element.
LEMMA LeastNumber ==
    ASSUME NEW T \in SUBSET Nat, T # {}
    PROVE  \E m \in T : \A n \in T : m <= n
<1> DEFINE R == OpToRel(<, Nat)
<1>1. \A x, y \in Nat : x < y => <<x, y>> \in R
  BY DEF OpToRel
<1>2. IsWellFoundedOn(R, Nat)
  BY NatLessThanWellFounded
<1> HIDE DEF R
<1>3. PICK x \in T : \A y \in T : ~(<<y, x>> \in R)
  BY <1>2, WFMin
<1>4. ASSUME NEW n \in T PROVE x <= n
  <2>1. n \in Nat /\ x \in Nat
    OBVIOUS
  <2>2. ~(n < x)
    BY <1>1, <1>3, <2>1
  <2> QED
    BY <2>1, <2>2
<1> QED
  BY <1>4

\* A set G of good numbers up to n that holds 0, and every number whose
\* predecessor it holds, holds them all.
LEMMA UpTo ==
    ASSUME NEW n \in Nat, NEW G, 0 \in G, \A i \in 1..n : i - 1 \in G => i \in G
    PROVE  \A i \in 0..n : i \in G
<1> DEFINE T == (0..n) \ G
<1> SUFFICES ASSUME T # {} PROVE FALSE
  OBVIOUS
<1>1. T \in SUBSET Nat
  OBVIOUS
<1> HIDE DEF T
<1>2. PICK m \in T : \A j \in T : m <= j
  BY <1>1, LeastNumber
<1>3. m \in 1..n /\ m \notin G
  BY DEF T
<1>4. m - 1 \notin T /\ m - 1 \in 0..n
  BY <1>2, <1>3
<1>5. m - 1 \in G
  BY <1>4 DEF T
<1> QED
  BY <1>3, <1>5

-----------------------------------------------------------------------------
(* pd.merge                                                                *)

\* The lines of b for the transaction x.
Lines(b, x) == {j \in DOMAIN b : b[j] = x}

\* end is where the rows of each line of a end in the merged table rows: they
\* follow each other, as many for a line as b has lines of the same transaction.
RowsEnd(a, b, rows, end) ==
    /\ end \in [0..Len(a) -> Nat] /\ end[0] = 0 /\ Len(rows) = end[Len(a)]
    /\ \A i \in 1..Len(a) : end[i] = end[i - 1] + Cardinality(Lines(b, a[i]))
    /\ \A i \in 1..Len(a) : \A p \in (end[i - 1] + 1)..end[i] : rows[p] = a[i]
    /\ \A p \in 1..Len(rows) : \E i \in 1..Len(a) : p \in (end[i - 1] + 1)..end[i]

\* The lines of a transaction are finitely many, and none only if there are none.
LEMMA LinesCount ==
    ASSUME NEW S, NEW b \in Seq(S), NEW x
    PROVE  /\ IsFiniteSet(Lines(b, x)) /\ Cardinality(Lines(b, x)) \in Nat
           /\ Cardinality(Lines(b, x)) = 0 <=> x \notin ToSet(b)
<1>1. IsFiniteSet(1..Len(b)) /\ DOMAIN b = 1..Len(b)
  BY FS_Interval
<1>2. Lines(b, x) \subseteq 1..Len(b)
  BY <1>1 DEF Lines
<1>3. IsFiniteSet(Lines(b, x))
  BY <1>1, <1>2, FS_Subset
<1>4. Cardinality(Lines(b, x)) \in Nat
  BY <1>3, FS_CardinalityType
<1>5. Cardinality(Lines(b, x)) = 0 <=> Lines(b, x) = {}
  BY <1>3, FS_EmptySet
<1>6. Lines(b, x) = {} <=> x \notin ToSet(b)
  BY DEF Lines, ToSet
<1> QED
  BY <1>3, <1>4, <1>5, <1>6

\* f is the function on 1..n that starts with first and goes on by the steps.
Accumulates(f, n, Q, first, step) ==
    f \in [1..n -> Q] /\ f[1] = first /\ \A i \in 2..n : f[i] = step[i][f[i - 1]]

\* A function defined by recursion on 1..n exists.
LEMMA Accumulate ==
    ASSUME NEW n \in Nat \ {0}, NEW Q, NEW first \in Q, NEW step \in [1..n -> [Q -> Q]]
    PROVE  \E f : Accumulates(f, n, Q, first, step)
<1> DEFINE Good(m, f) == f[1] = first /\ \A i \in 2..m : f[i] = step[i][f[i - 1]]
           G == {m \in 0..n : \E f \in [1..n -> Q] : Good(m, f)}
<1>1. 0 \in G
  <2> DEFINE f == [i \in 1..n |-> first]
  <2>1. f \in [1..n -> Q] /\ f[1] = first
    OBVIOUS
  <2>2. Good(0, f)
    BY <2>1
  <2> HIDE DEF f, Good
  <2> QED
    BY <2>1, <2>2
<1>2. ASSUME NEW m \in 1..n, m - 1 \in G PROVE m \in G
  <2>1. PICK f \in [1..n -> Q] : Good(m - 1, f)
    BY <1>2
  <2>2. CASE m = 1
    <3>1. Good(1, f)
      BY <2>1
    <3> HIDE DEF Good
    <3> QED
      BY <2>2, <3>1
  <2>3. CASE m # 1
    <3> DEFINE g == [i \in 1..n |-> IF i = m THEN step[m][f[m - 1]] ELSE f[i]]
    <3>1. m - 1 \in 1..n /\ f[m - 1] \in Q /\ step[m][f[m - 1]] \in Q
      BY <2>3
    <3>2. g \in [1..n -> Q]
      BY <3>1
    <3>3. g[1] = first
      BY <2>1, <2>3
    <3>4. ASSUME NEW i \in 2..m PROVE g[i] = step[i][g[i - 1]]
      <4>1. i \in 1..n /\ i - 1 \in 1..n /\ i - 1 # m
        OBVIOUS
      <4>2. g[i - 1] = f[i - 1]
        BY <4>1
      <4>3. CASE i = m
        BY <4>1, <4>2, <4>3
      <4>4. CASE i # m
        <5>1. i \in 2..(m - 1) /\ g[i] = f[i]
          BY <4>1, <4>4
        <5> QED
          BY <2>1, <4>2, <5>1
      <4> QED
        BY <4>3, <4>4
    <3>5. Good(m, g)
      BY <3>3, <3>4
    <3> HIDE DEF Good, g
    <3> QED
      BY <3>2, <3>5
  <2> QED
    BY <2>2, <2>3
<1>3. n \in G
  <2>1. n \in Nat /\ n \in 0..n
    OBVIOUS
  <2> HIDE DEF G
  <2>2. \A i \in 0..n : i \in G
    BY <1>1, <1>2, <2>1, UpTo
  <2> QED
    BY <2>1, <2>2
<1> QED
  BY <1>3 DEF Accumulates

\* f[i] is the first i of the n sequences ss, one behind the other.
Flattens(f, n, S, ss) ==
    /\ \A i \in 1..n : f[i] \in Seq(S)
    /\ f[1] = ss[1] /\ \A i \in 2..n : f[i] = f[i - 1] \o ss[i]

\* FlattenSeq puts the sequences of ss one behind the other: the function that
\* it is defined by exists.
LEMMA FlattenStep ==
    ASSUME NEW S, NEW n \in Nat \ {0}, NEW ss, Len(ss) = n, \A i \in 1..n : ss[i] \in Seq(S)
    PROVE  \E f : Flattens(f, n, S, ss) /\ FlattenSeq(ss) = f[n]
<1> DEFINE Q == Seq(S)
           step == [i \in 1..n |-> [x \in Q |-> x \o ss[i]]]
           Step(f) == [i \in 1..n |-> IF i = 1 THEN ss[i] ELSE f[i - 1] \o ss[i]]
           h == CHOOSE h : h = Step(h)
<1>1. \A x, y \in Q : x \o y \in Q
  BY ConcatProperties
<1>2. \A i \in 1..n : ss[i] \in Q
  OBVIOUS
<1>3. FlattenSeq(ss) = h[n]
  BY DEF FlattenSeq
<1> HIDE DEF Q, h
<1>4. ss[1] \in Q /\ step \in [1..n -> [Q -> Q]]
  BY <1>1, <1>2
<1>5. \A i \in 1..n : \A x \in Q : step[i][x] = x \o ss[i]
  OBVIOUS
<1> HIDE DEF step
<1>6. PICK f : f \in [1..n -> Q] /\ f[1] = ss[1] /\ \A i \in 2..n : f[i] = step[i][f[i - 1]]
  <2>1. PICK f : Accumulates(f, n, Q, ss[1], step)
    BY <1>4, Accumulate
  <2> QED
    BY <2>1 DEF Accumulates
<1>7. f = Step(f)
  <2>1. ASSUME NEW i \in 1..n PROVE f[i] = IF i = 1 THEN ss[i] ELSE f[i - 1] \o ss[i]
    <3>1. CASE i = 1
      BY <1>6, <3>1
    <3>2. CASE i # 1
      <4>1. i \in 2..n /\ i - 1 \in 1..n
        BY <3>2
      <4> QED
        BY <1>5, <1>6, <3>2, <4>1
    <3> QED
      BY <3>1, <3>2
  <2> QED
    BY <1>6, <2>1
<1>8. h = Step(h)
  BY <1>7, Zenon DEF h
<1>9. \A i \in 1..n : h[i] = IF i = 1 THEN ss[i] ELSE h[i - 1] \o ss[i]
  <2> DEFINE T == Step(h)
  <2>1. \A i \in 1..n : T[i] = IF i = 1 THEN ss[i] ELSE h[i - 1] \o ss[i]
    OBVIOUS
  <2>2. h = T
    BY <1>8
  <2> HIDE DEF T
  <2> QED
    BY <2>1, <2>2, Zenon
<1>10. h[1] = ss[1]
  <2>1. 1 \in 1..n
    OBVIOUS
  <2> QED
    BY <1>9, <2>1, Zenon
<1>11. ASSUME NEW i \in 2..n PROVE h[i] = h[i - 1] \o ss[i]
  <2>1. i \in 1..n /\ i # 1
    OBVIOUS
  <2> QED
    BY <1>9, <2>1, Zenon
<1> DEFINE H == {i \in 0..n : i = 0 \/ h[i] \in Q}
<1>12. ASSUME NEW i \in 1..n, i - 1 \in H PROVE i \in H
  <2>1. CASE i = 1
    BY <1>2, <1>10, <2>1
  <2>2. CASE i # 1
    <3>1. i - 1 # 0 /\ i \in 2..n
      BY <2>2
    <3>2. h[i - 1] \in Q /\ ss[i] \in Q /\ h[i] = h[i - 1] \o ss[i]
      BY <1>2, <1>11, <1>12, <3>1
    <3>3. h[i] \in Q
      BY <1>1, <3>2
    <3> QED
      BY <3>3
  <2> QED
    BY <2>1, <2>2
<1>13. \A i \in 0..n : i \in H
  <2>1. 0 \in H /\ n \in Nat
    OBVIOUS
  <2> HIDE DEF H
  <2> QED
    BY <1>12, <2>1, UpTo
<1>14. \A i \in 1..n : h[i] \in Seq(S)
  BY <1>13 DEF Q
<1>15. Flattens(h, n, S, ss)
  BY <1>10, <1>11, <1>14 DEF Flattens
<1> QED
  BY <1>3, <1>15

\* The table row is right about the first i lines of a.
Filled(a, end, i, row) ==
    /\ \A l \in 1..i : \A p \in (end[l - 1] + 1)..end[l] : row[p] = a[l]
    /\ \A p \in 1..end[i] : \E l \in 1..i : p \in (end[l - 1] + 1)..end[l]
    /\ \A l \in 0..i : end[l] <= end[i]

\* The rows of the next line, added behind, keep it right.
LEMMA FilledGrows ==
    ASSUME NEW n \in Nat, NEW i \in 1..n, NEW end \in [0..n -> Nat], end[i - 1] <= end[i],
           NEW a, NEW r, NEW r2, Filled(a, end, i - 1, r),
           \A p \in 1..end[i] : r2[p] = IF p <= end[i - 1] THEN r[p] ELSE a[i]
    PROVE  Filled(a, end, i, r2)
<1>1. i - 1 \in 0..n /\ end[i] \in Nat /\ end[i - 1] \in Nat
  OBVIOUS
<1>2. ASSUME NEW l \in 1..i, NEW p \in (end[l - 1] + 1)..end[l] PROVE r2[p] = a[l]
  <2>1. l - 1 \in 0..n /\ l \in 0..n /\ end[l - 1] \in Nat /\ end[l] \in Nat
    OBVIOUS
  <2>2. CASE l = i
    <3>1. p \in 1..end[i] /\ ~(p <= end[i - 1])
      BY <2>1, <2>2
    <3> QED
      BY <2>2, <3>1
  <2>3. CASE l # i
    <3>1. l \in 1..(i - 1) /\ l \in 0..(i - 1)
      BY <2>3
    <3>2. end[l] <= end[i - 1] /\ r[p] = a[l]
      BY <3>1 DEF Filled
    <3>3. p \in 1..end[i] /\ p <= end[i - 1]
      BY <1>1, <2>1, <3>2
    <3> QED
      BY <3>2, <3>3
  <2> QED
    BY <2>2, <2>3
<1>3. ASSUME NEW p \in 1..end[i] PROVE \E l \in 1..i : p \in (end[l - 1] + 1)..end[l]
  <2>1. CASE p <= end[i - 1]
    <3>1. p \in 1..end[i - 1]
      BY <1>1, <2>1
    <3>2. PICK l \in 1..(i - 1) : p \in (end[l - 1] + 1)..end[l]
      BY <3>1 DEF Filled
    <3>3. l \in 1..i
      OBVIOUS
    <3> QED
      BY <3>2, <3>3
  <2>2. CASE ~(p <= end[i - 1])
    <3>1. p \in (end[i - 1] + 1)..end[i] /\ i \in 1..i
      BY <1>1, <2>2
    <3> QED
      BY <3>1
  <2> QED
    BY <2>1, <2>2
<1>4. ASSUME NEW l \in 0..i PROVE end[l] <= end[i]
  <2>1. CASE l = i
    BY <1>1, <2>1
  <2>2. CASE l # i
    <3>1. l \in 0..(i - 1) /\ l \in 0..n
      BY <2>2
    <3>2. end[l] <= end[i - 1] /\ end[l] \in Nat
      BY <3>1 DEF Filled
    <3> QED
      BY <1>1, <3>2
  <2> QED
    BY <2>1, <2>2
<1> QED
  BY <1>2, <1>3, <1>4 DEF Filled

\* The merged table is made of the lines of a, in their order, each of them as
\* often as b has lines of the same transaction.
LEMMA MergeRows ==
    ASSUME NEW S, NEW a \in Seq(S), NEW b \in Seq(S)
    PROVE  /\ Merge(a, b) \in Seq(S)
           /\ \E end : RowsEnd(a, b, Merge(a, b), end) /\ Filled(a, end, Len(a), Merge(a, b))
<1> DEFINE n == Len(a)
           c == [i \in 1..n |-> Cardinality(Lines(b, a[i]))]
           ss == [i \in DOMAIN a |-> [j \in 1..Cardinality(Lines(b, a[i])) |-> a[i]]]
<1>1. n \in Nat /\ DOMAIN a = 1..n /\ \A i \in 1..n : a[i] \in S
  OBVIOUS
<1>2. c \in [1..n -> Nat]
  BY LinesCount
<1>3. Merge(a, b) = FlattenSeq(ss)
  BY DEF Merge, Lines
<1>4. Len(ss) = n /\ \A i \in 1..n : ss[i] = [j \in 1..c[i] |-> a[i]]
  BY <1>1
<1>5. (n = 0) => ss = << >>
  BY <1>1
<1> HIDE DEF ss
<1>6. ASSUME NEW i \in 1..n
      PROVE  ss[i] \in Seq(S) /\ Len(ss[i]) = c[i] /\ \A j \in 1..c[i] : ss[i][j] = a[i]
  <2>1. c[i] \in Nat /\ a[i] \in S
    BY <1>1, <1>2
  <2> DEFINE s == [j \in 1..c[i] |-> a[i]]
  <2>2. s \in Seq(S) /\ Len(s) = c[i] /\ \A j \in 1..c[i] : s[j] = a[i]
    BY <2>1
  <2> HIDE DEF s
  <2>3. ss[i] = s
    BY <1>4 DEF s
  <2> QED
    BY <2>2, <2>3
<1>7. \A i \in 1..n : c[i] = Cardinality(Lines(b, a[i]))
  OBVIOUS
<1> HIDE DEF c
<1>8. CASE n = 0
  <2> DEFINE end == [i \in 0..0 |-> 0]
  <2>1. Merge(a, b) = << >>
    BY <1>3, <1>5, <1>8 DEF FlattenSeq
  <2>2. end \in [0..0 -> Nat] /\ end[0] = 0
    OBVIOUS
  <2> HIDE DEF end
  <2>3. Merge(a, b) \in Seq(S) /\ Len(Merge(a, b)) = 0
    BY <2>1
  <2>4. RowsEnd(a, b, Merge(a, b), end)
    BY <1>8, <2>2, <2>3 DEF RowsEnd
  <2>5. Filled(a, end, 0, Merge(a, b))
    BY <2>2 DEF Filled
  <2> QED
    BY <1>8, <2>3, <2>4, <2>5
<1>9. CASE n # 0
  <2>1. n \in Nat \ {0}
    BY <1>1, <1>9
  <2> HIDE DEF n
  <2>2. PICK f : /\ \A i \in 1..n : f[i] \in Seq(S)
                 /\ f[1] = ss[1] /\ \A i \in 2..n : f[i] = f[i - 1] \o ss[i]
                 /\ FlattenSeq(ss) = f[n]
    <3>1. (\A i \in 1..n : ss[i] \in Seq(S)) /\ Len(ss) = n
      BY <1>4, <1>6
    <3>2. PICK f : Flattens(f, n, S, ss) /\ FlattenSeq(ss) = f[n]
      BY <2>1, <3>1, FlattenStep
    <3> QED
      BY <3>2 DEF Flattens
  <2> DEFINE end == [i \in 0..n |-> IF i = 0 THEN 0 ELSE Len(f[i])]
  <2>3. end \in [0..n -> Nat] /\ end[0] = 0 /\ \A i \in 1..n : end[i] = Len(f[i])
    BY <2>1, <2>2
  <2> HIDE DEF end
  <2>4. ASSUME NEW i \in 1..n
        PROVE  /\ end[i] = end[i - 1] + c[i]
               /\ \A p \in 1..end[i] : f[i][p] = IF p <= end[i - 1] THEN f[i - 1][p] ELSE a[i]
    <3>0. c[i] \in Nat
      BY <1>2
    <3>1. CASE i = 1
      <4>1. f[1] = ss[1] /\ end[1] = Len(ss[1]) /\ i - 1 = 0
        BY <2>2, <2>3, <3>1
      <4>2. end[1] = c[1] /\ end[0] = 0 /\ \A p \in 1..c[1] : f[1][p] = a[1]
        BY <1>6, <2>3, <3>1, <4>1
      <4> QED
        BY <3>0, <3>1, <4>1, <4>2
    <3>2. CASE i # 1
      <4>1. i \in 2..n /\ i - 1 \in 1..n
        BY <2>1, <3>2
      <4>2. f[i - 1] \in Seq(S) /\ ss[i] \in Seq(S) /\ f[i] = f[i - 1] \o ss[i]
            /\ end[i - 1] = Len(f[i - 1]) /\ end[i] = Len(f[i])
        BY <1>6, <2>2, <2>3, <4>1
      <4> DEFINE u == f[i - 1]
                 v == ss[i]
      <4>3. u \in Seq(S) /\ v \in Seq(S) /\ Len(v) = c[i] /\ \A j \in 1..c[i] : v[j] = a[i]
        BY <1>6, <4>2
      <4>4. f[i] = u \o v /\ end[i - 1] = Len(u) /\ end[i] = Len(u \o v)
        BY <4>2
      <4> HIDE DEF u, v
      <4>5. /\ Len(u \o v) = Len(u) + Len(v)
            /\ \A p \in 1..(Len(u) + Len(v)) :
                  (u \o v)[p] = IF p <= Len(u) THEN u[p] ELSE v[p - Len(u)]
        BY <4>3, ConcatProperties
      <4>6. Len(u) \in Nat
        BY <4>3
      <4>7. ASSUME NEW p \in 1..end[i] PROVE f[i][p] = IF p <= end[i - 1] THEN u[p] ELSE a[i]
        <5>1. p \in 1..(Len(u) + c[i])
          BY <4>3, <4>4, <4>5
        <5>2. ~(p <= Len(u)) => p - Len(u) \in 1..c[i]
          BY <3>0, <4>6, <5>1
        <5> QED
          BY <4>3, <4>4, <4>5, <5>1, <5>2
      <4> QED
        BY <4>3, <4>4, <4>5, <4>7 DEF u
    <3> QED
      BY <3>1, <3>2
  <2> DEFINE G == {i \in 0..n : i = 0 \/ Filled(a, end, i, f[i])}
  <2>5. ASSUME NEW i \in 1..n, i - 1 \in G PROVE i \in G
    <3>1. Filled(a, end, i - 1, f[i - 1])
      <4>1. CASE i = 1
        BY <2>3, <4>1 DEF Filled
      <4>2. CASE i # 1
        BY <2>5, <4>2
      <4> QED
        BY <4>1, <4>2
    <3>2. end[i - 1] <= end[i]
      <4>0. i - 1 \in 0..n
        BY <2>1
      <4>1. c[i] \in Nat /\ end[i - 1] \in Nat
        BY <1>2, <2>3, <4>0
      <4> QED
        BY <2>4, <4>1
    <3>3. Filled(a, end, i, f[i])
      BY <2>1, <2>3, <2>4, <3>1, <3>2, FilledGrows
    <3> QED
      BY <3>3
  <2>6. Filled(a, end, n, f[n])
    <3>1. 0 \in G /\ n \in Nat
      BY <2>1
    <3> HIDE DEF G
    <3>2. \A i \in 0..n : i \in G
      BY <2>5, <3>1, UpTo
    <3>3. n \in G
      BY <3>1, <3>2
    <3> QED
      BY <2>1, <3>3 DEF G
  <2>7. Merge(a, b) = f[n] /\ f[n] \in Seq(S) /\ Len(f[n]) = end[n]
    BY <1>3, <2>1, <2>2, <2>3
  <2>8. RowsEnd(a, b, Merge(a, b), end)
    BY <1>7, <2>3, <2>4, <2>6, <2>7 DEF RowsEnd, Filled, n
  <2> QED
    BY <2>6, <2>7, <2>8 DEF n
<1> QED
  BY <1>8, <1>9

\* The merged table has the transactions that both files have, and no others.
LEMMA MergeElements ==
    ASSUME NEW S, NEW a \in Seq(S), NEW b \in Seq(S)
    PROVE  ToSet(Merge(a, b)) = ToSet(a) \cap ToSet(b)
<1> DEFINE rows == Merge(a, b)
<1>1. rows \in Seq(S)
  BY MergeRows
<1>2. PICK end : RowsEnd(a, b, rows, end) /\ Filled(a, end, Len(a), rows)
  BY MergeRows
<1> HIDE DEF rows
<1>3. /\ Len(a) \in Nat /\ DOMAIN a = 1..Len(a) /\ DOMAIN rows = 1..Len(rows)
      /\ end \in [0..Len(a) -> Nat]
  BY <1>1, <1>2 DEF RowsEnd
<1>4. ASSUME NEW i \in 1..Len(a)
      PROVE  end[i - 1] \in Nat /\ end[i] \in Nat /\ Cardinality(Lines(b, a[i])) \in Nat
             /\ end[i] = end[i - 1] + Cardinality(Lines(b, a[i]))
  <2>1. i - 1 \in 0..Len(a) /\ i \in 0..Len(a)
    BY <1>3
  <2> QED
    BY <1>2, <1>3, <2>1, LinesCount DEF RowsEnd
<1>5. ASSUME NEW p \in DOMAIN rows PROVE rows[p] \in ToSet(a) \cap ToSet(b)
  <2>1. PICK i \in 1..Len(a) : p \in (end[i - 1] + 1)..end[i]
    BY <1>2, <1>3 DEF RowsEnd
  <2>2. rows[p] = a[i]
    BY <1>2, <2>1 DEF RowsEnd
  <2>3. Cardinality(Lines(b, a[i])) # 0
    BY <1>4, <2>1
  <2>4. a[i] \in ToSet(b)
    BY <2>3, LinesCount
  <2> QED
    BY <1>3, <2>2, <2>4 DEF ToSet
<1>6. ASSUME NEW i \in DOMAIN a, a[i] \in ToSet(b) PROVE a[i] \in ToSet(rows)
  <2>1. i \in 1..Len(a) /\ Len(a) \in 0..Len(a) /\ i \in 0..Len(a)
    BY <1>3
  <2>2. Cardinality(Lines(b, a[i])) # 0
    BY <1>6, LinesCount
  <2>3. end[i] \in (end[i - 1] + 1)..end[i]
    BY <1>4, <2>1, <2>2
  <2>4. rows[end[i]] = a[i]
    BY <1>2, <2>1, <2>3 DEF RowsEnd
  <2>5. end[i] <= Len(rows) /\ end[i] >= 1 /\ Len(rows) \in Nat
    BY <1>2, <1>3, <1>4, <2>1, <2>2 DEF RowsEnd, Filled
  <2>6. end[i] \in DOMAIN rows
    BY <1>3, <1>4, <2>1, <2>5
  <2> QED
    BY <2>4, <2>6 DEF ToSet
<1> QED
  BY <1>5, <1>6 DEF ToSet, rows

\* s is the beginning of t.
Begins(s, t) == Len(s) <= Len(t) /\ \A i \in 1..Len(s) : s[i] = t[i]

\* What compute() and the plots take of a table: the rows behind the warm-up.
LEMMA SeriesRows ==
    ASSUME NEW S, NEW rows \in Seq(S)
    PROVE  \A x : x \in SeriesOf(rows) <=> \E p \in 1..Len(rows) : p > Discard /\ rows[p] = x
<1>1. Discard \in Nat /\ Len(rows) \in Nat
  BY Numbers
<1>2. CASE EnoughRows(rows)
  <2> DEFINE s == SubSeq(rows, Discard + 1, Len(rows))
  <2>1. Discard + 1 \in 1..(Len(rows) + 1) /\ Len(rows) \in Discard..Len(rows)
    BY <1>1, <1>2 DEF EnoughRows
  <2>2. /\ s \in Seq(S) /\ Len(s) = Len(rows) - Discard
        /\ \A i \in 1..(Len(rows) - Discard) : s[i] = rows[Discard + i]
    BY <1>1, <2>1
  <2>3. SeriesOf(rows) = ToSet(s)
    BY <1>2 DEF SeriesOf, AfterWarmUp
  <2> HIDE DEF s
  <2>4. ASSUME NEW i \in DOMAIN s
        PROVE  \E p \in 1..Len(rows) : p > Discard /\ rows[p] = s[i]
    <3>1. i \in 1..(Len(rows) - Discard)
      BY <2>2
    <3>2. Discard + i \in 1..Len(rows) /\ Discard + i > Discard
      BY <1>1, <3>1
    <3> QED
      BY <2>2, <3>1, <3>2
  <2>5. ASSUME NEW p \in 1..Len(rows), p > Discard PROVE rows[p] \in ToSet(s)
    <3>1. p - Discard \in 1..(Len(rows) - Discard) /\ Discard + (p - Discard) = p
      BY <1>1, <2>5
    <3>2. s[p - Discard] = rows[p] /\ p - Discard \in DOMAIN s
      BY <2>2, <3>1
    <3> QED
      BY <3>2 DEF ToSet
  <2> QED
    BY <2>3, <2>4, <2>5 DEF ToSet
<1>3. CASE ~EnoughRows(rows)
  <2>1. SeriesOf(rows) = {}
    BY <1>3 DEF SeriesOf
  <2>2. ~\E p \in 1..Len(rows) : p > Discard
    BY <1>1, <1>3 DEF EnoughRows
  <2> QED
    BY <2>1, <2>2
<1> QED
  BY <1>2, <1>3

\* Files that have grown between two readings show at least what they showed:
\* more lines push rows further from the warm-up, never into it.
LEMMA SeriesGrows ==
    ASSUME NEW S, NEW a \in Seq(S), NEW b \in Seq(S), NEW a2 \in Seq(S), NEW b2 \in Seq(S),
           Begins(a, a2), Begins(b, b2)
    PROVE  SeriesOf(Merge(a, b)) \subseteq SeriesOf(Merge(a2, b2))
<1> DEFINE rows == Merge(a, b)
           rows2 == Merge(a2, b2)
           n == Len(a)
<1>1. rows \in Seq(S) /\ rows2 \in Seq(S)
  BY MergeRows
<1>2. PICK end : RowsEnd(a, b, rows, end)
  BY MergeRows
<1>3. PICK end2 : RowsEnd(a2, b2, rows2, end2) /\ Filled(a2, end2, Len(a2), rows2)
  BY MergeRows
<1> HIDE DEF rows, rows2
<1>4. n \in Nat /\ Len(a2) \in Nat /\ n <= Len(a2) /\ \A i \in 1..n : a2[i] = a[i]
  BY DEF Begins
<1>5. /\ Len(rows) = end[n] /\ Len(rows2) = end2[Len(a2)]
      /\ end \in [0..n -> Nat] /\ end2 \in [0..Len(a2) -> Nat] /\ end[0] = 0 /\ end2[0] = 0
  BY <1>2, <1>3 DEF RowsEnd
<1>6. ASSUME NEW x
      PROVE  /\ Cardinality(Lines(b, x)) \in Nat /\ Cardinality(Lines(b2, x)) \in Nat
             /\ Cardinality(Lines(b, x)) <= Cardinality(Lines(b2, x))
  <2>1. /\ IsFiniteSet(Lines(b2, x)) /\ Cardinality(Lines(b, x)) \in Nat
        /\ Cardinality(Lines(b2, x)) \in Nat
    BY LinesCount
  <2>2. Lines(b, x) \subseteq Lines(b2, x)
    BY DEF Lines, Begins
  <2> QED
    BY <2>1, <2>2, FS_Subset
<1>7. ASSUME NEW i \in 1..n
      PROVE  /\ end[i] \in Nat /\ end[i - 1] \in Nat /\ end2[i] \in Nat /\ end2[i - 1] \in Nat
             /\ end[i] = end[i - 1] + Cardinality(Lines(b, a[i]))
             /\ end2[i] = end2[i - 1] + Cardinality(Lines(b2, a[i]))
  <2>1. i - 1 \in 0..n /\ i \in 0..n /\ i - 1 \in 0..Len(a2) /\ i \in 0..Len(a2) /\ i \in 1..Len(a2)
    BY <1>4
  <2>2. end[i] \in Nat /\ end[i - 1] \in Nat /\ end2[i] \in Nat /\ end2[i - 1] \in Nat
    BY <1>5, <2>1
  <2> QED
    BY <1>2, <1>3, <1>4, <2>1, <2>2 DEF RowsEnd
<1> DEFINE G == {i \in 0..n : end[i] <= end2[i]}
<1>8. \A i \in 0..n : i \in G
  <2>1. 0 \in G
    BY <1>4, <1>5
  <2>2. ASSUME NEW i \in 1..n, i - 1 \in G PROVE i \in G
    <3>1. end[i - 1] <= end2[i - 1]
      BY <2>2
    <3>2. end[i] <= end2[i]
      BY <1>6, <1>7, <3>1
    <3> QED
      BY <1>4, <3>2
  <2> HIDE DEF G
  <2> QED
    BY <1>4, <2>1, <2>2, UpTo
<1>9. ASSUME NEW p \in 1..Len(rows), p > Discard PROVE rows[p] \in SeriesOf(rows2)
  <2>0. Discard \in Nat /\ Len(rows) \in Nat /\ Len(rows2) \in Nat
    BY <1>1, Numbers
  <2>1. PICK i \in 1..n : p \in (end[i - 1] + 1)..end[i]
    BY <1>2 DEF RowsEnd
  <2>2. rows[p] = a[i]
    BY <1>2, <2>1 DEF RowsEnd
  <2>3. end[i] <= end2[i]
    BY <1>4, <1>8
  <2>4. p <= end[i] /\ end[i - 1] < end[i]
    BY <1>7, <2>1
  <2>5. end2[i] \in (end2[i - 1] + 1)..end2[i]
    <3>1. /\ end[i] = end[i - 1] + Cardinality(Lines(b, a[i]))
          /\ end2[i] = end2[i - 1] + Cardinality(Lines(b2, a[i]))
          /\ end[i] \in Nat /\ end[i - 1] \in Nat /\ end2[i] \in Nat /\ end2[i - 1] \in Nat
      BY <1>7
    <3>2. /\ Cardinality(Lines(b, a[i])) \in Nat /\ Cardinality(Lines(b2, a[i])) \in Nat
          /\ Cardinality(Lines(b, a[i])) <= Cardinality(Lines(b2, a[i]))
      BY <1>6
    <3>3. Cardinality(Lines(b2, a[i])) >= 1
      BY <2>4, <3>1, <3>2
    <3>4. end2[i - 1] + 1 <= end2[i]
      BY <3>1, <3>2, <3>3
    <3> QED
      BY <3>1, <3>4
  <2>6. i \in 1..Len(a2) /\ i \in 0..Len(a2) /\ a2[i] = a[i]
    BY <1>4
  <2>7. rows2[end2[i]] = a[i]
    BY <1>3, <2>5, <2>6 DEF RowsEnd
  <2>8. end2[i] <= Len(rows2)
    BY <1>3, <1>5, <2>6 DEF Filled
  <2>9. end2[i] \in 1..Len(rows2) /\ end2[i] > Discard
    BY <1>7, <1>9, <2>0, <2>3, <2>4, <2>8
  <2> QED
    BY <1>1, <2>2, <2>7, <2>9, SeriesRows
<1> QED
  BY <1>1, <1>9, SeriesRows DEF rows, rows2

-----------------------------------------------------------------------------
(* The numbering of combinations and transactions                          *)

\* Division with remainder, put together and taken apart.
LEMMA Quotient ==
    ASSUME NEW d \in Nat \ {0}
    PROVE  /\ \A q \in Nat : \A r \in 0..(d - 1) : (d * q + r) \div d = q /\ (d * q + r) % d = r
           /\ \A n \in Nat : /\ n \div d \in Nat /\ n % d \in 0..(d - 1)
                             /\ n = d * (n \div d) + (n % d)
<1>1. \A q \in Nat : \A r \in 0..(d - 1) : (d * q + r) \div d = q /\ (d * q + r) % d = r
  OBVIOUS
<1>2. \A n \in Nat : n \div d \in Nat /\ n % d \in 0..(d - 1)
  OBVIOUS
<1>3. \A n \in Nat : n = d * (n \div d) + (n % d)
  OBVIOUS
<1> QED
  BY <1>1, <1>2, <1>3

\* A number and its successor have the same quotient, unless d divides the latter.
LEMMA QuotientStays ==
    ASSUME NEW d \in Nat \ {0}, NEW n \in Nat \ {0}, n % d # 0
    PROVE  (n - 1) \div d = n \div d
<1> DEFINE q == n \div d
           r == n % d
<1>1. q \in Nat /\ r \in 0..(d - 1) /\ n = d * q + r /\ r # 0
  BY Quotient
<1> HIDE DEF q, r
<1>2. r - 1 \in 0..(d - 1) /\ d * q \in Int
  BY <1>1
<1>3. n - 1 = d * q + (r - 1)
  BY <1>1, <1>2
<1>4. (d * q + (r - 1)) \div d = q
  BY <1>1, <1>2, Quotient
<1> QED
  BY <1>3, <1>4 DEF q

\* There are combinations, and each has a crypto mode and a profile.
LEMMA Combinations ==
    /\ NumCombos \in Nat \ {0} /\ 1 \in Combo /\ Combo \subseteq Nat \ {0}
    /\ FirstOfCrypto(1)
    /\ \A c \in Combo : /\ CryptoOf(c) \in ToSet(Cryptos)
                        /\ ProfileOf(c) \in ToSet(Profiles) /\ ProfileOf(c) \in {"stable", "adverse"}
<1> DEFINE N == Len(Cryptos)
           P == Len(Profiles)
<1>1. Iterations \in Nat \ {0} /\ N \in Nat \ {0} /\ P \in Nat \ {0}
  BY Numbers
<1>2. /\ DOMAIN Cryptos = 1..N /\ DOMAIN Profiles = 1..P
      /\ \A i \in 1..P : Profiles[i] \in {"stable", "adverse"}
  BY CampaignAssumption
<1> HIDE DEF N, P
<1>3. Iterations * N \in Nat \ {0}
  BY <1>1
<1>4. (Iterations * N) * P \in Nat \ {0}
  BY <1>1, <1>3
<1>5. NumCombos \in Nat \ {0}
  BY <1>4 DEF NumCombos, N, P
<1>6. 1 \in Combo /\ Combo \subseteq Nat \ {0}
  BY <1>5 DEF Combo
<1>7. FirstOfCrypto(1)
  <2>1. (P * 0 + 0) % P = 0 /\ P * 0 + 0 = 0
    BY <1>1, Quotient
  <2> QED
    BY <2>1 DEF FirstOfCrypto, P
<1>8. ASSUME NEW c \in Combo
      PROVE  /\ CryptoOf(c) \in ToSet(Cryptos)
             /\ ProfileOf(c) \in ToSet(Profiles) /\ ProfileOf(c) \in {"stable", "adverse"}
  <2>1. c - 1 \in Nat
    BY <1>6
  <2>2. (c - 1) \div P \in Nat /\ (c - 1) % P \in 0..(P - 1)
    BY <1>1, <2>1, Quotient
  <2>3. ((c - 1) \div P) % N \in 0..(N - 1)
    BY <1>1, <2>2, Quotient
  <2>4. ((c - 1) % P) + 1 \in 1..P /\ (((c - 1) \div P) % N) + 1 \in 1..N
    BY <1>1, <2>2, <2>3
  <2>5. /\ CryptoOf(c) = Cryptos[(((c - 1) \div P) % N) + 1]
        /\ ProfileOf(c) = Profiles[((c - 1) % P) + 1]
    BY DEF CryptoOf, ProfileOf, N, P
  <2> QED
    BY <1>2, <2>4, <2>5, Zenon DEF ToSet
<1> QED
  BY <1>5, <1>6, <1>7, <1>8

\* Within the profiles of one crypto mode the mode does not change.
LEMMA SameCrypto ==
    ASSUME NEW c \in Combo, ~FirstOfCrypto(c + 1)
    PROVE  CryptoOf(c + 1) = CryptoOf(c)
<1> DEFINE P == Len(Profiles)
<1>1. c \in Nat \ {0} /\ P \in Nat \ {0} /\ (c + 1) - 1 = c
  BY Combinations, Numbers
<1>2. c % P # 0
  BY <1>1 DEF FirstOfCrypto
<1>3. (c - 1) \div P = c \div P
  BY <1>1, <1>2, QuotientStays
<1> QED
  BY <1>1, <1>3 DEF CryptoOf

\* The transactions injected for a combination are its own.
LEMMA OwnTransactions ==
    ASSUME NEW c \in Combo, NEW j \in 0..(EventCount - 1)
    PROVE  /\ (c - 1) * EventCount + j + 1 \in Tx
           /\ ComboOf((c - 1) * EventCount + j + 1) = c
           /\ (((c - 1) * EventCount + j + 1) - 1) % EventCount = j
<1> DEFINE E == EventCount
           x == E * (c - 1)
<1>1. E \in Nat \ {0} /\ c \in Nat \ {0} /\ c - 1 \in Nat /\ NumCombos \in Nat /\ c <= NumCombos
  BY Combinations, Numbers DEF Combo
<1>2. x \in Nat /\ (c - 1) * E = x
  BY <1>1
<1>3. x + E <= E * NumCombos /\ E * NumCombos = NumCombos * E /\ NumCombos * E \in Nat
  <2>1. NumCombos - c \in Nat
    BY <1>1
  <2>2. E * (NumCombos - c) \in Nat
    BY <1>1, <2>1
  <2>3. E * NumCombos = E * (c - 1) + E + E * (NumCombos - c)
    BY <1>1
  <2> QED
    BY <1>1, <1>2, <2>2, <2>3
<1>4. (E * (c - 1) + j) \div E = c - 1 /\ (E * (c - 1) + j) % E = j
  BY <1>1, Quotient
<1> HIDE DEF x, E
<1>5. x + j + 1 \in 1..(NumCombos * E) /\ (x + j + 1) - 1 = x + j
  BY <1>1, <1>2, <1>3 DEF E
<1> QED
  BY <1>1, <1>2, <1>4, <1>5 DEF Tx, ComboOf, E, x

-----------------------------------------------------------------------------
(* Types                                                                   *)

\* The runner's steps, those that follow the probe of a combination, and those
\* at which the combination has its result but not yet its archive.
Steps == {"switch", "eth0", "eth1", "probe", "clearA", "clearB", "inject", "readA",
          "readB", "plotA", "plotB", "copyA", "copyB", "next", "done"}
Probed == Steps \ {"switch", "eth0", "eth1", "probe"}
Late == {"plotA", "plotB", "copyA", "copyB"}
Modes == ToSet(Cryptos) \cup {"unset"}
\* Files of lines of this campaign, or of an earlier one (0).
LogFiles == Seq(0..(NumCombos * EventCount))

\* What the runner controls and the commands change.
ControlOK ==
    /\ pc \in Steps /\ k \in Combo /\ injected \in 0..EventCount /\ failures \in 0..MaxFailures
    /\ envCrypto \in Modes /\ gwCrypto \in Modes /\ shaped \in SUBSET Iface
    /\ rtt \in {"none", "stable", "adverse", "mixed", "0.0"}
    /\ pc \in Probed => rtt # "none"

\* What the gateways keep of the transactions.
QueuesOK ==
    /\ phase \in [Tx -> {"none", "missed", "queued", "acked", "failed", "killed"}]
    /\ tries \in [Tx -> 0..MaxLines]
    /\ handlers \in [Tx -> Nat] /\ \A t \in Tx : handlers[t] <= tries[t]

\* The telemetry files and what the runner makes of them.
FilesOK ==
    /\ telA \in Seq(Tx) /\ telB \in Seq(Tx) /\ snap \in Seq(Tx)
    /\ raw \in [Combo -> [a : LogFiles, b : LogFiles]]
    /\ results \in Seq(Result) /\ \A i \in DOMAIN results : results[i].counted # << >>
    /\ pc \in Late => results # << >>

\* The gateways' steps leave the runner, its commands and its files alone.
LEMMA GatewaysFrame ==
    ASSUME GatewayStep
    PROVE  /\ UNCHANGED <<pc, k, envCrypto, rtt, injected, snap, results, raw, csv, exit>>
           /\ UNCHANGED <<gwCrypto, shaped, failures>>
<1>1. PICK t \in Tx : Attempt(t) \/ HandlerLogs(t) \/ AckArrives(t) \/ GivesUp(t)
  BY DEF GatewayStep
<1>2. CASE Attempt(t)
  BY <1>2 DEF Attempt, runner
<1>3. CASE HandlerLogs(t)
  BY <1>3 DEF HandlerLogs, runner
<1>4. CASE AckArrives(t)
  BY <1>4 DEF AckArrives, runner
<1>5. CASE GivesUp(t)
  BY <1>5 DEF GivesUp, runner
<1> QED
  BY <1>1, <1>2, <1>3, <1>4, <1>5

\* The counters and modes keep their ranges.
LEMMA ControlStep ==
    ASSUME ControlOK, [Next]_vars
    PROVE  ControlOK'
<1>0. MaxFailures \in Nat /\ EventCount \in Nat /\ NumCombos \in Nat
  BY Numbers, Combinations
<1>1. CASE UNCHANGED vars
  BY <1>1 DEF ControlOK, vars, runner, gateways
<1>2. CASE GatewayStep
  BY <1>2, GatewaysFrame DEF ControlOK
<1>3. CASE SwitchCrypto
  <2>1. CryptoOf(k) \in Modes
    BY Combinations DEF ControlOK, Modes
  <2>2. /\ envCrypto' \in Modes /\ gwCrypto' \in {gwCrypto, envCrypto'}
        /\ failures' \in 0..MaxFailures
    <3>1. failures' \in {failures, failures + 1} /\ (failures' # failures => failures < MaxFailures)
      BY <1>3 DEF SwitchCrypto, ExecWorks, ExecFails
    <3>2. failures' \in 0..MaxFailures
      BY <1>0, <3>1 DEF ControlOK
    <3>3. envCrypto' \in Modes /\ gwCrypto' \in {gwCrypto, envCrypto'}
      BY <1>3, <2>1 DEF SwitchCrypto, ControlOK, Restart, gateways
    <3> QED
      BY <3>2, <3>3
  <2> QED
    BY <1>3, <2>2 DEF SwitchCrypto, ControlOK, Steps, Probed
<1>4. ASSUME NEW iface \in Iface, NEW next \in {"eth1", "probe"}, Toggle(iface, next)
      PROVE  ControlOK'
  <2>1. failures' \in 0..MaxFailures
    BY <1>0, <1>4 DEF Toggle, ExecWorks, ExecFails, ControlOK
  <2>2. shaped' \in SUBSET Iface
    BY <1>4 DEF Toggle, ControlOK, ShapedAfter
  <2> QED
    BY <1>4, <2>1, <2>2 DEF Toggle, ControlOK, Steps, Probed, gateways
<1>5. CASE ProbeRtt
  <2>1. failures' \in 0..MaxFailures
    BY <1>0, <1>5 DEF ProbeRtt, ExecWorks, ExecFails, ControlOK
  <2>2. rtt' \in {"stable", "adverse", "mixed", "0.0"}
    BY <1>5 DEF ProbeRtt, Seen
  <2> QED
    BY <1>5, <2>1, <2>2 DEF ProbeRtt, ControlOK, Steps, Probed, gateways
<1>6. CASE ClearA
  BY <1>6 DEF ClearA, ControlOK, Steps, Probed, gateways
<1>7. CASE ClearB
  BY <1>0, <1>7 DEF ClearB, ControlOK, Steps, Probed, gateways
<1>8. CASE InjectOne
  <2>1. failures' \in 0..MaxFailures
    BY <1>0, <1>8 DEF InjectOne, ExecWorks, ExecFails, ControlOK
  <2>2. injected' \in 0..EventCount
    BY <1>0, <1>8 DEF InjectOne, ControlOK
  <2> QED
    BY <1>8, <2>1, <2>2 DEF InjectOne, ControlOK, Steps, Probed
<1>9. CASE WaitEnds
  BY <1>9 DEF WaitEnds, ControlOK, Steps, Probed, gateways
<1>10. CASE ReadA
  BY <1>10 DEF ReadA, ControlOK, Steps, Probed, gateways
<1>11. CASE CollectAndCompute
  BY <1>11 DEF CollectAndCompute, ControlOK, Steps, Probed, gateways
<1>12. CASE ReadSeriesA
  BY <1>12 DEF ReadSeriesA, ControlOK, Steps, Probed, gateways
<1>13. CASE ReadSeriesB
  BY <1>13 DEF ReadSeriesB, ControlOK, Steps, Probed, gateways
<1>14. CASE ArchiveA
  BY <1>14 DEF ArchiveA, ControlOK, Steps, Probed, gateways
<1>15. CASE ArchiveB
  BY <1>15 DEF ArchiveB, ControlOK, Steps, Probed, gateways
<1>16. CASE NextCombination
  <2>1. k' \in Combo
    BY <1>0, <1>16 DEF NextCombination, ControlOK, Combo
  <2> QED
    BY <1>16, <2>1 DEF NextCombination, ControlOK, Steps, Probed, gateways
<1>17. CASE Report
  BY <1>17 DEF Report, ControlOK, Steps, Probed, gateways
<1> QED
  BY <1>1, <1>2, <1>3, <1>4, <1>5, <1>6, <1>7, <1>8, <1>9, <1>10, <1>11, <1>12, <1>13,
     <1>14, <1>15, <1>16, <1>17 DEF Next, RunnerStep, Iface

\* No more handlers are left than attempts were made.
LEMMA QueuesStep ==
    ASSUME ControlOK, QueuesOK, [Next]_vars
    PROVE  QueuesOK'
<1>0. MaxLines \in Nat \ {0} /\ EventCount \in Nat \ {0}
  BY Numbers
<1>t. tries \in [Tx -> Nat]
  BY <1>0 DEF QueuesOK
<1>1. CASE UNCHANGED vars
  BY <1>1 DEF QueuesOK, vars, gateways
<1>2. ASSUME NEW t \in Tx, Attempt(t) PROVE QueuesOK'
  <2>1. tries[t] + 1 \in 0..MaxLines
    BY <1>0, <1>2 DEF Attempt, MayTry, QueuesOK
  <2>2. /\ tries' = [tries EXCEPT ![t] = tries[t] + 1]
        /\ handlers' = [handlers EXCEPT ![t] = handlers[t] + 1] /\ phase' = phase
    BY <1>2 DEF Attempt
  <2>3. \A u \in Tx : handlers'[u] <= tries'[u]
    BY <1>t, <2>2 DEF QueuesOK
  <2> QED
    BY <2>1, <2>2, <2>3 DEF QueuesOK
<1>3. ASSUME NEW t \in Tx, HandlerLogs(t) PROVE QueuesOK'
  <2>1. handlers' = [handlers EXCEPT ![t] = handlers[t] - 1] /\ handlers[t] > 0
        /\ tries' = tries /\ phase' = phase
    BY <1>3 DEF HandlerLogs
  <2>2. \A u \in Tx : handlers'[u] <= tries'[u]
    BY <1>t, <2>1 DEF QueuesOK
  <2> QED
    BY <2>1, <2>2 DEF QueuesOK
<1>4. ASSUME NEW t \in Tx, AckArrives(t) \/ GivesUp(t) PROVE QueuesOK'
  BY <1>4 DEF AckArrives, GivesUp, QueuesOK
<1>5. CASE SwitchCrypto
  <2>1. \/ UNCHANGED <<phase, tries, handlers>>
        \/ /\ phase' = [t \in Tx |-> IF phase[t] = "queued" THEN "killed" ELSE phase[t]]
           /\ handlers' = [t \in Tx |-> 0] /\ tries' = tries
    BY <1>5 DEF SwitchCrypto, Restart, gateways
  <2>2. CASE UNCHANGED <<phase, tries, handlers>>
    BY <2>2 DEF QueuesOK
  <2>3. CASE ~UNCHANGED <<phase, tries, handlers>>
    <3>1. \A u \in Tx : handlers'[u] <= tries'[u]
      BY <1>t, <2>1, <2>3
    <3> QED
      BY <2>1, <2>3, <3>1 DEF QueuesOK
  <2> QED
    BY <2>2, <2>3
<1>6. CASE InjectOne
  BY <1>6 DEF InjectOne, QueuesOK
<1>7. CASE UNCHANGED gateways
  BY <1>7 DEF gateways, QueuesOK
<1>8. RunnerStep => SwitchCrypto \/ InjectOne \/ UNCHANGED gateways
  BY DEF RunnerStep, Toggle, ProbeRtt, ClearA, ClearB, WaitEnds, ReadA, CollectAndCompute,
         ReadSeriesA, ReadSeriesB, ArchiveA, ArchiveB, NextCombination, Report
<1> QED
  BY <1>1, <1>2, <1>3, <1>4, <1>5, <1>6, <1>7, <1>8 DEF Next, GatewayStep

\* The transactions are numbers, and lines of telemetry.
LEMMA Transactions ==
    /\ Tx \subseteq Nat \ {0} /\ 0 \notin Tx
    /\ Seq(Tx) \subseteq LogFiles
<1>1. NumCombos * EventCount \in Nat
  BY Numbers, Combinations
<1>2. Tx \subseteq Nat \ {0} /\ Tx \subseteq 0..(NumCombos * EventCount)
  BY <1>1 DEF Tx
<1>3. Seq(Tx) \subseteq LogFiles
  <2>1. ASSUME NEW s \in Seq(Tx) PROVE s \in Seq(0..(NumCombos * EventCount))
    BY <1>2, SeqMonotonic
  <2> QED
    BY <2>1 DEF LogFiles
<1> QED
  BY <1>2, <1>3

\* Filing what the plots show changes nothing else of the results.
LEMMA PlottedFiled ==
    ASSUME results \in Seq(Result), results # << >>, telB \in Seq(Tx), snap \in Seq(Tx), ReadSeriesB
    PROVE  LET n == Len(results) IN
           /\ n \in Nat \ {0}
           /\ results' \in Seq(Result) /\ Len(results') = n
           /\ \A i \in 1..n : i # n => results'[i] = results[i]
           /\ \A i \in 1..n : results'[i].counted = results[i].counted /\ results'[i].k = results[i].k
           /\ results'[n].plotted = SeriesOf(Merge(snap, telB))
           /\ \A i \in 1..n : /\ results'[i].crypto = results[i].crypto
                              /\ results'[i].profile = results[i].profile
                              /\ results'[i].rtt = results[i].rtt
                              /\ results'[i].ranUnder = results[i].ranUnder
                              /\ results'[i].net = results[i].net
<1> DEFINE n == Len(results)
           S == SeriesOf(Merge(snap, telB))
           r == [results[n] EXCEPT !.plotted = S]
<1>1. n \in Nat \ {0} /\ \A i \in 1..n : results[i] \in Result
  OBVIOUS
<1>2. S \in SUBSET Tx
  <2>1. Merge(snap, telB) \in Seq(Tx)
    BY MergeRows
  <2>2. \A p \in 1..Len(Merge(snap, telB)) : Merge(snap, telB)[p] \in Tx
    BY <2>1
  <2> QED
    BY <2>1, <2>2, SeriesRows
<1> HIDE DEF S
<1>3. results[n] \in Result
  BY <1>1
<1>4. /\ r \in Result /\ r.plotted = S /\ r.counted = results[n].counted /\ r.k = results[n].k
      /\ r.crypto = results[n].crypto /\ r.profile = results[n].profile /\ r.rtt = results[n].rtt
      /\ r.ranUnder = results[n].ranUnder /\ r.net = results[n].net
  BY <1>2, <1>3 DEF Result
<1>5. results' = [results EXCEPT ![n] = r]
  BY Zenon DEF ReadSeriesB, S
<1> HIDE DEF r
<1>6. results' \in Seq(Result) /\ Len(results') = n
  BY <1>1, <1>4, <1>5
<1>7. results'[n] = r /\ \A i \in 1..n : i # n => results'[i] = results[i]
  BY <1>1, <1>5
<1> QED
  BY <1>1, <1>4, <1>6, <1>7 DEF S

\* Archiving a file touches only that file of the combination.
LEMMA FileArchived ==
    ASSUME raw \in [Combo -> [a : LogFiles, b : LogFiles]], k \in Combo,
           telA \in LogFiles, telB \in LogFiles
    PROVE  /\ ArchiveA => /\ raw' \in [Combo -> [a : LogFiles, b : LogFiles]]
                          /\ \A c \in Combo : c # k => raw'[c] = raw[c]
                          /\ raw'[k].a = telA /\ raw'[k].b = raw[k].b
           /\ ArchiveB => /\ raw' \in [Combo -> [a : LogFiles, b : LogFiles]]
                          /\ \A c \in Combo : c # k => raw'[c] = raw[c]
                          /\ raw'[k].a = raw[k].a /\ raw'[k].b = telB
<1> DEFINE F == [a : LogFiles, b : LogFiles]
<1>1. raw[k] \in F /\ raw \in [Combo -> F]
  OBVIOUS
<1>2. ASSUME ArchiveA
      PROVE  /\ raw' \in [Combo -> F] /\ \A c \in Combo : c # k => raw'[c] = raw[c]
             /\ raw'[k].a = telA /\ raw'[k].b = raw[k].b
  <2> DEFINE f == [raw[k] EXCEPT !["a"] = telA]
  <2>1. raw' = [raw EXCEPT ![k] = f]
    BY <1>2 DEF ArchiveA, Copy
  <2>2. f \in F /\ f.a = telA /\ f.b = raw[k].b
    BY <1>1
  <2> HIDE DEF f, F
  <2> QED
    BY <1>1, <2>1, <2>2
<1>3. ASSUME ArchiveB
      PROVE  /\ raw' \in [Combo -> F] /\ \A c \in Combo : c # k => raw'[c] = raw[c]
             /\ raw'[k].a = raw[k].a /\ raw'[k].b = telB
  <2> DEFINE f == [raw[k] EXCEPT !["b"] = telB]
  <2>1. raw' = [raw EXCEPT ![k] = f]
    BY <1>3 DEF ArchiveB, Copy
  <2>2. f \in F /\ f.b = telB /\ f.a = raw[k].a
    BY <1>1
  <2> HIDE DEF f, F
  <2> QED
    BY <1>1, <2>1, <2>2
<1> QED
  BY <1>2, <1>3

\* A result is computed from rows that are left behind the warm-up; it records
\* the combination and what was in force.
LEMMA ResultComputed ==
    ASSUME ControlOK, FilesOK, CollectAndCompute
    PROVE  LET n == Len(results) IN
           /\ n \in Nat
           /\ \/ pc' = "next" /\ results' = results
              \/ /\ pc' = "plotA" /\ results' \in Seq(Result) /\ Len(results') = n + 1
                 /\ \A i \in 1..n : results'[i] = results[i]
                 /\ results'[n + 1].k = k /\ results'[n + 1].crypto = CryptoOf(k)
                 /\ results'[n + 1].profile = ProfileOf(k) /\ results'[n + 1].rtt = rtt
                 /\ results'[n + 1].ranUnder = gwCrypto /\ results'[n + 1].net = shaped
                 /\ results'[n + 1].counted \in Seq(Tx) /\ results'[n + 1].counted # << >>
                 /\ ToSet(results'[n + 1].counted) = SeriesOf(Merge(snap, telB))
<1> DEFINE n == Len(results)
           rows == Merge(snap, telB)
           cnt == AfterWarmUp(rows)
           r == [k |-> k, crypto |-> CryptoOf(k), profile |-> ProfileOf(k), rtt |-> rtt,
                 counted |-> cnt, plotted |-> {}, ranUnder |-> gwCrypto, net |-> shaped]
<1>1. n \in Nat /\ results \in Seq(Result)
  BY DEF FilesOK
<1>2. rows \in Seq(Tx)
  BY MergeRows DEF FilesOK
<1>3. CASE ~EnoughRows(rows)
  BY <1>1, <1>3 DEF CollectAndCompute
<1>4. CASE EnoughRows(rows)
  <2>1. results' = Append(results, r) /\ pc' = "plotA"
    BY <1>4 DEF CollectAndCompute
  <2>2. ToSet(cnt) = SeriesOf(rows)
    BY <1>4 DEF SeriesOf
  <2>3. cnt \in Seq(Tx) /\ cnt # << >>
    <3> HIDE DEF rows
    <3>1. Discard \in Nat /\ Len(rows) \in Nat /\ Len(rows) > Discard
      BY <1>2, <1>4, Numbers DEF EnoughRows
    <3>2. Discard + 1 \in 1..Len(rows)
      BY <3>1
    <3>3. cnt = SubSeq(rows, Discard + 1, Len(rows))
      BY DEF AfterWarmUp
    <3>4. /\ SubSeq(rows, Discard + 1, Len(rows)) \in Seq(Tx)
          /\ Len(SubSeq(rows, Discard + 1, Len(rows))) = Len(rows) - Discard
      BY <1>2, <3>1, <3>2
    <3>5. Len(cnt) # 0
      BY <3>1, <3>3, <3>4
    <3>6. cnt \in Seq(Tx)
      BY <3>3, <3>4
    <3> HIDE DEF cnt
    <3> QED
      BY <3>5, <3>6
  <2> HIDE DEF cnt, rows
  <2>4. r \in Result
    <3>1. /\ k \in Combo /\ CryptoOf(k) \in ToSet(Cryptos) /\ ProfileOf(k) \in ToSet(Profiles)
      BY Combinations DEF ControlOK
    <3>2. pc \in Probed
      BY DEF CollectAndCompute, Probed, Steps
    <3>3. /\ rtt \in {"stable", "adverse", "mixed", "0.0"} /\ gwCrypto \in ToSet(Cryptos) \cup {"unset"}
          /\ shaped \in SUBSET Iface
      BY <3>2 DEF ControlOK, Modes
    <3> QED
      BY <2>3, <3>1, <3>3 DEF Result
  <2>5. /\ r.k = k /\ r.crypto = CryptoOf(k) /\ r.profile = ProfileOf(k) /\ r.rtt = rtt
        /\ r.counted = cnt /\ r.ranUnder = gwCrypto /\ r.net = shaped
    OBVIOUS
  <2> HIDE DEF r
  <2>6. /\ results' \in Seq(Result) /\ Len(results') = n + 1 /\ results'[n + 1] = r
        /\ \A i \in 1..n : results'[i] = results[i]
    BY <1>1, <2>1, <2>4
  <2> QED
    BY <1>1, <2>1, <2>2, <2>3, <2>5, <2>6 DEF rows
<1> QED
  BY <1>3, <1>4

\* The files hold transactions, and every result has rows.
LEMMA FilesStep ==
    ASSUME ControlOK, FilesOK, [Next]_vars
    PROVE  FilesOK'
<1>1. CASE UNCHANGED vars
  BY <1>1 DEF FilesOK, vars, runner
<1>2. ASSUME NEW t \in Tx, Attempt(t) \/ GivesUp(t) PROVE FilesOK'
  BY <1>2 DEF Attempt, GivesUp, FilesOK, runner
<1>3. ASSUME NEW t \in Tx, HandlerLogs(t) PROVE FilesOK'
  <2>1. telB' \in Seq(Tx)
    BY <1>3 DEF HandlerLogs, FilesOK
  <2> QED
    BY <1>3, <2>1 DEF HandlerLogs, FilesOK, runner
<1>4. ASSUME NEW t \in Tx, AckArrives(t) PROVE FilesOK'
  <2>1. telA' \in Seq(Tx)
    BY <1>4 DEF AckArrives, FilesOK
  <2> QED
    BY <1>4, <2>1 DEF AckArrives, FilesOK, runner
<1>5. CASE CollectAndCompute
  <2>1. UNCHANGED <<telA, telB, raw>> /\ snap' = << >>
    BY <1>5 DEF CollectAndCompute
  <2>2. results' \in Seq(Result) /\ \A i \in DOMAIN results' : results'[i].counted # << >>
    <3>1. CASE results' = results
      BY <3>1 DEF FilesOK
    <3>2. CASE results' # results
      <4> DEFINE n == Len(results)
      <4>1. /\ n \in Nat /\ results' \in Seq(Result) /\ Len(results') = n + 1
            /\ \A i \in 1..n : results'[i] = results[i]
            /\ results'[n + 1].counted # << >>
        BY <1>5, <3>2, ResultComputed
      <4>2. \A i \in 1..n : results[i].counted # << >>
        BY DEF FilesOK
      <4> HIDE DEF n
      <4>3. ASSUME NEW i \in DOMAIN results' PROVE results'[i].counted # << >>
        <5>1. i \in 1..n \/ i = n + 1
          BY <4>1
        <5> QED
          BY <4>1, <4>2, <5>1
      <4> QED
        BY <4>1, <4>3
    <3> QED
      BY <3>1, <3>2
  <2>3. pc' \in Late => results' # << >>
    BY <1>5, ResultComputed DEF Late
  <2> QED
    BY <2>1, <2>2, <2>3 DEF FilesOK
<1>6. CASE ReadSeriesB
  <2>1. results # << >>
    BY <1>6 DEF ReadSeriesB, FilesOK, Late
  <2>2. /\ Len(results) \in Nat \ {0} /\ results' \in Seq(Result) /\ Len(results') = Len(results)
        /\ \A i \in 1..Len(results) : results'[i].counted = results[i].counted
    BY <1>6, <2>1, PlottedFiled DEF FilesOK
  <2>3. \A i \in DOMAIN results' : results'[i].counted # << >>
    <3>1. results \in Seq(Result) /\ \A i \in DOMAIN results : results[i].counted # << >>
      BY DEF FilesOK
    <3>2. DOMAIN results = 1..Len(results) /\ DOMAIN results' = 1..Len(results)
      BY <2>2, <3>1
    <3> QED
      BY <2>2, <3>1, <3>2, Zenon
  <2>4. UNCHANGED <<telA, telB, raw>> /\ snap' = << >>
    BY <1>6 DEF ReadSeriesB
  <2> QED
    BY <2>2, <2>3, <2>4 DEF FilesOK
<1>7. CASE ArchiveA \/ ArchiveB
  <2>1. telA \in LogFiles /\ telB \in LogFiles
    BY Transactions DEF FilesOK
  <2>2. raw' \in [Combo -> [a : LogFiles, b : LogFiles]]
    BY <1>7, <2>1, FileArchived DEF FilesOK, ControlOK
  <2>3. UNCHANGED <<telA, telB, snap, results>> /\ (pc' \in Late => pc \in Late)
    BY <1>7 DEF ArchiveA, ArchiveB, Late
  <2> QED
    BY <2>2, <2>3 DEF FilesOK
<1>8. CASE ClearA \/ ClearB \/ ReadA \/ ReadSeriesA
  <2>1. /\ UNCHANGED <<raw, results>> /\ (pc' \in Late => pc \in Late)
        /\ telA' \in {<< >>, telA} /\ telB' \in {<< >>, telB} /\ snap' \in {snap, telA}
    BY <1>8 DEF ClearA, ClearB, ReadA, ReadSeriesA, Late
  <2>2. << >> \in Seq(Tx) /\ telA \in Seq(Tx) /\ telB \in Seq(Tx) /\ snap \in Seq(Tx)
    BY DEF FilesOK
  <2>3. telA' \in Seq(Tx) /\ telB' \in Seq(Tx) /\ snap' \in Seq(Tx)
    BY <2>1, <2>2, Zenon
  <2> QED
    BY <2>1, <2>3 DEF FilesOK
<1>9. CASE UNCHANGED <<telA, telB, snap, raw, results>> /\ pc' \notin Late
  BY <1>9 DEF FilesOK
<1>10. CASE SwitchCrypto \/ ProbeRtt \/ InjectOne \/ WaitEnds \/ NextCombination \/ Report
  <2>1. UNCHANGED <<telA, telB, snap, raw, results>> /\ pc' \notin Late
    BY <1>10 DEF SwitchCrypto, ProbeRtt, InjectOne, WaitEnds, NextCombination, Report, Late
  <2> QED
    BY <1>9, <2>1
<1>11. ASSUME NEW iface, NEW next \in {"eth1", "probe"}, Toggle(iface, next) PROVE FilesOK'
  <2>1. UNCHANGED <<telA, telB, snap, raw, results>> /\ pc' \notin Late
    BY <1>11 DEF Toggle, Late
  <2> QED
    BY <1>9, <2>1
<1> QED
  BY <1>1, <1>2, <1>3, <1>4, <1>5, <1>6, <1>7, <1>8, <1>10, <1>11 DEF Next, GatewayStep, RunnerStep

\* All of it together, initially and for ever.
TypesOK == ControlOK /\ QueuesOK /\ FilesOK

\* The campaign keeps its types: the counters stay in their ranges, the gateways
\* leave no more handlers behind than attempts were made, the files hold
\* transactions of the campaign, and compute() makes no result out of no rows.
THEOREM TypesHold == Spec => []TypesOK
<1>1. Init => TypesOK
  <2> SUFFICES ASSUME Init PROVE TypesOK
    OBVIOUS
  <2>1. ControlOK
    BY Numbers, Combinations DEF Init, ControlOK, Steps, Probed, Modes
  <2>2. QueuesOK
    BY Numbers DEF Init, QueuesOK
  <2>3. <<0>> \in LogFiles
    <3>1. 0 \in 0..(NumCombos * EventCount)
      BY Numbers, Combinations
    <3> QED
      BY <3>1 DEF LogFiles
  <2>4. raw \in [Combo -> [a : LogFiles, b : LogFiles]]
    BY <2>3 DEF Init
  <2>5. FilesOK
    BY <2>4 DEF Init, FilesOK, Late
  <2> QED
    BY <2>1, <2>2, <2>5 DEF TypesOK
<1>2. TypesOK /\ [Next]_vars => TypesOK'
  BY ControlStep, QueuesStep, FilesStep DEF TypesOK
<1> QED
  BY <1>1, <1>2, PTL DEF Spec

\* The type invariant that the runs check.
THEOREM CampaignTypesOK == Spec => []CampaignTypeOK
<1>1. TypesOK => CampaignTypeOK
  <2> SUFFICES ASSUME TypesOK PROVE CampaignTypeOK
    OBVIOUS
  <2>1. /\ pc \in Steps /\ k \in Combo /\ injected \in 0..EventCount
        /\ failures \in 0..MaxFailures
    BY Zenon DEF TypesOK, ControlOK
  <2>2. /\ telA \in Seq(Tx) /\ telB \in Seq(Tx) /\ snap \in Seq(Tx) /\ results \in Seq(Result)
        /\ \A i \in DOMAIN results : results[i].counted # << >>
    BY Zenon DEF TypesOK, FilesOK
  <2>3. /\ phase \in [Tx -> {"none", "missed", "queued", "acked", "failed", "killed"}]
        /\ tries \in [Tx -> 0..MaxLines]
    BY Zenon DEF TypesOK, QueuesOK
  <2>4. \A t \in Tx : handlers[t] \in 0..tries[t]
    BY Numbers DEF TypesOK, QueuesOK
  <2> QED
    BY <2>1, <2>2, <2>3, <2>4, Zenon DEF CampaignTypeOK, Steps
<1> QED
  BY <1>1, TypesHold, PTL

-----------------------------------------------------------------------------
(* Labels                                                                  *)

\* As long as no command has failed, what is in force is what the runner asked
\* for, from the step on at which it asked.
LabelsInv ==
    failures = 0 =>
        /\ pc # "switch" \/ ~FirstOfCrypto(k) => gwCrypto = CryptoOf(k)
        /\ pc \notin {"switch", "eth0"} => ("eth0" \in shaped <=> ProfileOf(k) = "adverse")
        /\ pc \notin {"switch", "eth0", "eth1"} => ("eth1" \in shaped <=> ProfileOf(k) = "adverse")
        /\ pc \in Probed => rtt = ProfileOf(k)

\* Failures are not forgotten.
LEMMA FailuresStay ==
    ASSUME ControlOK, [Next]_vars, failures' = 0
    PROVE  failures = 0
<1>1. failures' = failures \/ ExecFails
  <2>1. CASE UNCHANGED vars
    BY <2>1 DEF vars
  <2>2. CASE GatewayStep
    BY <2>2, GatewaysFrame
  <2>3. CASE RunnerStep
    <3>1. SwitchCrypto \/ ProbeRtt \/ InjectOne => failures' = failures \/ ExecFails
      BY DEF SwitchCrypto, ProbeRtt, InjectOne, ExecWorks
    <3>2. \A iface, next : Toggle(iface, next) => failures' = failures \/ ExecFails
      BY DEF Toggle, ExecWorks
    <3>3. ClearA \/ ClearB \/ WaitEnds \/ ReadA \/ CollectAndCompute \/ ReadSeriesA \/ ReadSeriesB
            \/ ArchiveA \/ ArchiveB \/ NextCombination \/ Report => failures' = failures
      BY DEF ClearA, ClearB, WaitEnds, ReadA, CollectAndCompute, ReadSeriesA, ReadSeriesB,
             ArchiveA, ArchiveB, NextCombination, Report
    <3> QED
      BY <2>3, <3>1, <3>2, <3>3 DEF RunnerStep
  <2> QED
    BY <2>1, <2>2, <2>3 DEF Next
<1>2. failures \in Nat
  BY Numbers DEF ControlOK
<1> QED
  BY <1>1, <1>2 DEF ExecFails

\* The steps from ClearA to Report, the start of the next combination apart, keep
\* what is in force.
LEMMA MeasuringFrame ==
    ASSUME RunnerStep, ~SwitchCrypto, ~Toggle("eth0", "eth1"), ~Toggle("eth1", "probe"),
           ~ProbeRtt, ~NextCombination
    PROVE  pc \in Probed /\ pc' \in Probed /\ UNCHANGED <<k, envCrypto, gwCrypto, shaped, rtt>>
<1>1. InjectOne => pc \in Probed /\ pc' \in Probed /\ UNCHANGED <<k, envCrypto, gwCrypto, shaped, rtt>>
  BY DEF InjectOne, Probed, Steps
<1>2. ClearA \/ ClearB \/ WaitEnds \/ ReadA =>
        pc \in Probed /\ pc' \in Probed /\ UNCHANGED <<k, envCrypto, gwCrypto, shaped, rtt>>
  BY DEF ClearA, ClearB, WaitEnds, ReadA, Probed, Steps, gateways
<1>3. CollectAndCompute =>
        pc \in Probed /\ pc' \in Probed /\ UNCHANGED <<k, envCrypto, gwCrypto, shaped, rtt>>
  BY DEF CollectAndCompute, Probed, Steps, gateways
<1>4. ReadSeriesA \/ ReadSeriesB \/ ArchiveA \/ ArchiveB \/ Report =>
        pc \in Probed /\ pc' \in Probed /\ UNCHANGED <<k, envCrypto, gwCrypto, shaped, rtt>>
  BY DEF ReadSeriesA, ReadSeriesB, ArchiveA, ArchiveB, Report, Probed, Steps, gateways
<1> QED
  BY <1>1, <1>2, <1>3, <1>4 DEF RunnerStep

\* What is in force stays what was asked for.
LEMMA LabelsStep ==
    ASSUME ControlOK, LabelsInv, [Next]_vars
    PROVE  LabelsInv'
<1> SUFFICES ASSUME failures' = 0
             PROVE  /\ pc' # "switch" \/ ~FirstOfCrypto(k') => gwCrypto' = CryptoOf(k')
                    /\ pc' \notin {"switch", "eth0"} =>
                         ("eth0" \in shaped' <=> ProfileOf(k') = "adverse")
                    /\ pc' \notin {"switch", "eth0", "eth1"} =>
                         ("eth1" \in shaped' <=> ProfileOf(k') = "adverse")
                    /\ pc' \in Probed => rtt' = ProfileOf(k')
  BY DEF LabelsInv, FirstOfCrypto, CryptoOf, ProfileOf
<1>0. /\ failures = 0 /\ ~ExecFails /\ k \in Combo
      /\ pc # "switch" \/ ~FirstOfCrypto(k) => gwCrypto = CryptoOf(k)
      /\ pc \notin {"switch", "eth0"} => ("eth0" \in shaped <=> ProfileOf(k) = "adverse")
      /\ pc \notin {"switch", "eth0", "eth1"} => ("eth1" \in shaped <=> ProfileOf(k) = "adverse")
      /\ pc \in Probed => rtt = ProfileOf(k)
  BY FailuresStay DEF LabelsInv, ExecFails, ControlOK
<1>1. CASE UNCHANGED <<pc, k, gwCrypto, shaped, rtt>>
  BY <1>0, <1>1
<1>2. CASE SwitchCrypto
  <2>1. gwCrypto' = CryptoOf(k) /\ k' = k /\ pc' = "eth0"
    BY <1>0, <1>2 DEF SwitchCrypto, Restart, gateways
  <2> QED
    BY <2>1 DEF Probed
<1>3. CASE Toggle("eth0", "eth1")
  <2>1. pc = "eth0" /\ pc' = "eth1" /\ UNCHANGED <<k, gwCrypto, rtt>> /\ shaped' = ShapedAfter("eth0")
    BY <1>0, <1>3 DEF Toggle, gateways
  <2> QED
    BY <1>0, <2>1 DEF Probed, ShapedAfter
<1>4. CASE Toggle("eth1", "probe")
  <2>1. pc = "eth1" /\ pc' = "probe" /\ UNCHANGED <<k, gwCrypto, rtt>> /\ shaped' = ShapedAfter("eth1")
    BY <1>0, <1>4 DEF Toggle, gateways
  <2> QED
    BY <1>0, <2>1 DEF Probed, ShapedAfter
<1>5. CASE ProbeRtt
  <2>1. pc = "probe" /\ pc' = "clearA" /\ UNCHANGED <<k, gwCrypto, shaped>> /\ rtt' = Seen
    BY <1>0, <1>5 DEF ProbeRtt, gateways
  <2>2. ProfileOf(k) \in {"stable", "adverse"}
    BY <1>0, Combinations
  <2>3. shaped = IF ProfileOf(k) = "adverse" THEN Iface ELSE {}
    BY <1>0, <2>1 DEF ControlOK, Iface
  <2>4. Seen = ProfileOf(k)
    BY <2>2, <2>3 DEF Seen, Iface
  <2> QED
    BY <1>0, <2>1, <2>4
<1>6. CASE NextCombination
  <2>1. pc = "next" /\ pc' = "switch" /\ k' = k + 1 /\ gwCrypto' = gwCrypto
    BY <1>6 DEF NextCombination, gateways
  <2>2. ~FirstOfCrypto(k + 1) => CryptoOf(k + 1) = CryptoOf(k)
    BY <1>0, SameCrypto
  <2> QED
    BY <1>0, <2>1, <2>2 DEF Probed
<1>7. CASE RunnerStep /\ ~(SwitchCrypto \/ Toggle("eth0", "eth1") \/ Toggle("eth1", "probe")
                           \/ ProbeRtt \/ NextCombination)
  <2>1. pc \in Probed /\ pc' \in Probed /\ UNCHANGED <<k, gwCrypto, shaped, rtt>>
    BY <1>7, MeasuringFrame
  <2> QED
    BY <1>0, <2>1 DEF Probed, Steps
<1>8. UNCHANGED vars \/ GatewayStep => UNCHANGED <<pc, k, gwCrypto, shaped, rtt>>
  BY GatewaysFrame DEF vars, runner, gateways
<1> QED
  BY <1>1, <1>2, <1>3, <1>4, <1>5, <1>6, <1>7, <1>8 DEF Next

\* Two steps write results.
LEMMA ResultsWriters ==
    ASSUME [Next]_vars
    PROVE  results' = results \/ CollectAndCompute \/ ReadSeriesB
<1>1. UNCHANGED vars \/ GatewayStep => results' = results
  BY GatewaysFrame DEF vars, runner
<1>2. RunnerStep => results' = results \/ CollectAndCompute \/ ReadSeriesB
  BY DEF RunnerStep, SwitchCrypto, Toggle, ProbeRtt, ClearA, ClearB, InjectOne, WaitEnds, ReadA,
         ReadSeriesA, ArchiveA, ArchiveB, NextCombination, Report
<1> QED
  BY <1>1, <1>2 DEF Next

\* Every new result is labelled by what is in force, and the old ones keep theirs.
LEMMA ResultsLabelled ==
    ASSUME TypesOK, LabelsInv, LabelsTrue, [Next]_vars
    PROVE  LabelsTrue'
<1> DEFINE Right(r) == /\ r.ranUnder = r.crypto
                       /\ r.net = IF r.profile = "adverse" THEN Iface ELSE {}
                       /\ r.rtt = r.profile
<1> SUFFICES ASSUME failures' = 0, NEW i \in DOMAIN results' PROVE Right(results'[i])
  BY DEF LabelsTrue
<1>0. failures = 0 /\ ControlOK /\ FilesOK
  BY FailuresStay DEF TypesOK
<1>1. \A j \in DOMAIN results : Right(results[j])
  BY <1>0 DEF LabelsTrue
<1>2. CASE results' = results
  <2>1. Right(results[i])
    BY <1>1, <1>2
  <2> QED
    BY <1>2, <2>1
<1>3. CASE CollectAndCompute /\ results' # results
  <2> DEFINE n == Len(results)
  <2>1. /\ n \in Nat /\ results' \in Seq(Result) /\ Len(results') = n + 1
        /\ \A j \in 1..n : results'[j] = results[j]
        /\ results'[n + 1].crypto = CryptoOf(k)
        /\ results'[n + 1].profile = ProfileOf(k) /\ results'[n + 1].rtt = rtt
        /\ results'[n + 1].ranUnder = gwCrypto /\ results'[n + 1].net = shaped
    BY <1>0, <1>3, ResultComputed
  <2>2. /\ gwCrypto = CryptoOf(k) /\ rtt = ProfileOf(k)
        /\ "eth0" \in shaped <=> ProfileOf(k) = "adverse"
        /\ "eth1" \in shaped <=> ProfileOf(k) = "adverse"
    BY <1>0, <1>3 DEF CollectAndCompute, LabelsInv, Probed, Steps
  <2>3. shaped = IF ProfileOf(k) = "adverse" THEN Iface ELSE {}
    BY <1>0, <2>2 DEF ControlOK, Iface
  <2>4. Right(results'[n + 1])
    BY <2>1, <2>2, <2>3
  <2>5. DOMAIN results = 1..n
    BY <1>0 DEF FilesOK
  <2> HIDE DEF n
  <2>6. CASE i = n + 1
    BY <2>4, <2>6
  <2>7. CASE i # n + 1
    <3>1. i \in 1..n /\ results'[i] = results[i]
      BY <2>1, <2>7
    <3>2. Right(results[i])
      BY <1>1, <2>5, <3>1
    <3> QED
      BY <3>1, <3>2
  <2> QED
    BY <2>6, <2>7
<1>4. CASE ReadSeriesB
  <2>1. results # << >>
    BY <1>0, <1>4 DEF ReadSeriesB, FilesOK, Late
  <2>2. /\ Len(results) \in Nat /\ results' \in Seq(Result) /\ Len(results') = Len(results)
        /\ \A j \in 1..Len(results) : /\ results'[j].crypto = results[j].crypto
                              /\ results'[j].profile = results[j].profile
                              /\ results'[j].rtt = results[j].rtt
                              /\ results'[j].ranUnder = results[j].ranUnder
                              /\ results'[j].net = results[j].net
    BY <1>0, <1>4, <2>1, PlottedFiled DEF FilesOK
  <2>3. i \in 1..Len(results) /\ i \in DOMAIN results
    BY <1>0, <2>2 DEF FilesOK
  <2>4. Right(results[i])
    BY <1>1, <2>3
  <2> QED
    BY <2>2, <2>3, <2>4
<1>5. results' = results \/ CollectAndCompute \/ ReadSeriesB
  BY ResultsWriters
<1> QED
  BY <1>2, <1>3, <1>4, <1>5

\* As long as no command has failed, the gateways, the network and the probe are
\* as the runner asked.
THEOREM InForce == Spec => []LabelsInv
<1>1. Init => LabelsInv
  BY Combinations DEF Init, LabelsInv, Probed
<1>2. TypesOK /\ LabelsInv /\ [Next]_vars => LabelsInv'
  BY LabelsStep DEF TypesOK
<1> QED
  BY <1>1, <1>2, TypesHold, PTL DEF Spec

\* Without a failed command every result carries the label of what was measured.
THEOREM LabelsAreTrue == Spec => []LabelsTrue
<1>1. Init => LabelsTrue
  BY DEF Init, LabelsTrue
<1>2. TypesOK /\ LabelsInv /\ LabelsTrue /\ [Next]_vars => LabelsTrue'
  BY ResultsLabelled
<1> QED
  BY <1>1, <1>2, TypesHold, InForce, PTL DEF Spec

-----------------------------------------------------------------------------
(* Crypto modes                                                            *)

\* The transactions of S were injected for the mode the gateways run.
OfMode(S) == \A t \in S : CryptoOf(ComboOf(t)) = gwCrypto

\* As long as no command has failed, what the gateways still have, what they have
\* logged since the files were cleared, and what collect() has read of it.
MixInv ==
    failures = 0 =>
        /\ OfMode(Queued)
        /\ pc \in Probed \ {"clearA"} => OfMode(ToSet(telA))
        /\ pc = "readB" => OfMode(ToSet(snap))

\* What a file holds after a line was added.
LEMMA LineAdded ==
    ASSUME NEW S, NEW s \in Seq(S), NEW t \in S
    PROVE  ToSet(Append(s, t)) = ToSet(s) \cup {t} /\ Begins(s, Append(s, t))
<1>1. /\ Len(s) \in Nat /\ Len(Append(s, t)) = Len(s) + 1 /\ Append(s, t)[Len(s) + 1] = t
      /\ DOMAIN s = 1..Len(s) /\ DOMAIN Append(s, t) = 1..(Len(s) + 1)
      /\ \A i \in 1..Len(s) : Append(s, t)[i] = s[i]
  OBVIOUS
<1>2. ASSUME NEW i \in 1..(Len(s) + 1) PROVE i \in 1..Len(s) \/ i = Len(s) + 1
  BY <1>1
<1>3. Len(s) + 1 \in 1..(Len(s) + 1) /\ \A i \in 1..Len(s) : i \in 1..(Len(s) + 1)
  BY <1>1
<1>4. ToSet(Append(s, t)) = ToSet(s) \cup {t}
  BY <1>1, <1>2, <1>3, Zenon DEF ToSet
<1>5. Len(s) <= Len(Append(s, t))
  BY <1>1
<1> QED
  BY <1>1, <1>4, <1>5 DEF Begins

\* The restart at the switch takes the backlog away, and nothing else brings a
\* transaction of another mode in.
LEMMA MixStep ==
    ASSUME TypesOK, LabelsInv, MixInv, [Next]_vars
    PROVE  MixInv'
<1> DEFINE Of(S, g) == \A t \in S : CryptoOf(ComboOf(t)) = g
           Q == {t \in Tx : phase[t] = "queued"}
           Qp == {t \in Tx : phase'[t] = "queued"}
<1> SUFFICES ASSUME failures' = 0
             PROVE  /\ Of(Qp, gwCrypto')
                    /\ pc' \in Probed \ {"clearA"} => Of(ToSet(telA'), gwCrypto')
                    /\ pc' = "readB" => Of(ToSet(snap'), gwCrypto')
  BY DEF MixInv, OfMode, Queued, CryptoOf, ComboOf
<1>0. /\ failures = 0 /\ ~ExecFails /\ ControlOK /\ FilesOK /\ QueuesOK
      /\ Of(Q, gwCrypto)
      /\ pc \in Probed \ {"clearA"} => Of(ToSet(telA), gwCrypto)
      /\ pc = "readB" => Of(ToSet(snap), gwCrypto)
  BY FailuresStay DEF MixInv, OfMode, Queued, TypesOK, ExecFails
<1>1. CASE UNCHANGED <<pc, gwCrypto, telA, snap>> /\ Qp \subseteq Q
  BY <1>0, <1>1
<1>2. ASSUME NEW t \in Tx, Attempt(t) \/ HandlerLogs(t)
      PROVE  UNCHANGED <<pc, gwCrypto, telA, snap>> /\ Qp \subseteq Q
  BY <1>2 DEF Attempt, HandlerLogs, runner
<1>3. ASSUME NEW t \in Tx, GivesUp(t)
      PROVE  UNCHANGED <<pc, gwCrypto, telA, snap>> /\ Qp \subseteq Q
  BY <1>0, <1>3 DEF GivesUp, runner, QueuesOK
<1>4. ASSUME NEW t \in Tx, AckArrives(t)
      PROVE  /\ Of(Qp, gwCrypto')
             /\ pc' \in Probed \ {"clearA"} => Of(ToSet(telA'), gwCrypto')
             /\ pc' = "readB" => Of(ToSet(snap'), gwCrypto')
  <2>1. UNCHANGED <<pc, gwCrypto, snap>> /\ telA' = Append(telA, t) /\ t \in Q
    BY <1>4 DEF AckArrives, runner, IsHead, Queued
  <2>2. Qp \subseteq Q
    BY <1>0, <1>4 DEF AckArrives, QueuesOK
  <2>3. ToSet(telA') = ToSet(telA) \cup {t}
    BY <1>0, <2>1, LineAdded DEF FilesOK
  <2> HIDE DEF Q, Qp
  <2> QED
    BY <1>0, <2>1, <2>2, <2>3
<1>5. CASE SwitchCrypto
  <2>1. pc' = "eth0" /\ ((gwCrypto' = gwCrypto /\ phase' = phase) \/ Qp = {})
    BY <1>0, <1>5 DEF SwitchCrypto, Restart, gateways, QueuesOK
  <2> QED
    BY <1>0, <2>1 DEF Probed
<1>6. CASE InjectOne
  <2> DEFINE t == (k - 1) * EventCount + injected + 1
  <2>1. /\ pc = "inject" /\ UNCHANGED <<pc, gwCrypto, telA, snap>> /\ injected < EventCount
        /\ \E p \in {"queued", "missed"} : phase' = [phase EXCEPT ![t] = p]
    BY <1>0, <1>6 DEF InjectOne
  <2>2. injected \in 0..(EventCount - 1) /\ k \in Combo
    BY <1>0, <2>1, Numbers DEF ControlOK
  <2>3. t \in Tx /\ ComboOf(t) = k
    BY <2>2, OwnTransactions
  <2>4. CryptoOf(k) = gwCrypto
    BY <1>0, <2>1 DEF LabelsInv
  <2> HIDE DEF t
  <2>5. Qp \subseteq Q \cup {t}
    BY <1>0, <2>1, <2>3 DEF QueuesOK
  <2> HIDE DEF Q, Qp
  <2> QED
    BY <1>0, <2>1, <2>3, <2>4, <2>5
<1>7. CASE ClearA
  <2>1. telA' = << >> /\ pc' = "clearB" /\ UNCHANGED <<gwCrypto, phase>>
    BY <1>7 DEF ClearA, gateways
  <2>2. ToSet(telA') = {}
    BY <2>1 DEF ToSet
  <2> QED
    BY <1>0, <2>1, <2>2
<1>8. CASE ReadA
  <2>1. pc = "readA" /\ snap' = telA /\ pc' = "readB" /\ UNCHANGED <<gwCrypto, phase, telA>>
    BY <1>8 DEF ReadA, gateways
  <2> QED
    BY <1>0, <2>1 DEF Probed, Steps
<1>9. CASE /\ UNCHANGED <<gwCrypto, phase, telA>> /\ pc' # "readB"
           /\ (pc' \in Probed \ {"clearA"} => pc \in Probed \ {"clearA"})
  BY <1>0, <1>9
<1>10. CASE NextCombination \/ ProbeRtt
  <2>1. UNCHANGED <<gwCrypto, phase, telA>> /\ pc' \in {"switch", "clearA"}
    BY <1>10 DEF NextCombination, ProbeRtt, gateways
  <2> QED
    BY <1>9, <2>1 DEF Probed, Steps
<1>11. ASSUME NEW iface, NEW next \in {"eth1", "probe"}, Toggle(iface, next)
       PROVE  UNCHANGED <<gwCrypto, phase, telA>> /\ pc' \notin Probed \cup {"readB"}
  BY <1>11 DEF Toggle, gateways, Probed, Steps
<1>12. CASE ClearB \/ WaitEnds \/ CollectAndCompute
  <2>1. UNCHANGED <<gwCrypto, phase, telA>> /\ pc' # "readB" /\ pc \in Probed \ {"clearA"}
    BY <1>12 DEF ClearB, WaitEnds, CollectAndCompute, gateways, Probed, Steps
  <2> QED
    BY <1>9, <2>1
<1>13. CASE ReadSeriesA \/ ReadSeriesB \/ ArchiveA \/ ArchiveB \/ Report
  <2>1. UNCHANGED <<gwCrypto, phase, telA>> /\ pc' # "readB" /\ pc \in Probed \ {"clearA"}
    BY <1>13 DEF ReadSeriesA, ReadSeriesB, ArchiveA, ArchiveB, Report, gateways, Probed, Steps
  <2> QED
    BY <1>9, <2>1
<1>14. CASE UNCHANGED vars
  BY <1>1, <1>14 DEF vars, runner, gateways
<1>15. CASE GatewayStep
  BY <1>1, <1>2, <1>3, <1>4, <1>15 DEF GatewayStep
<1>16. CASE RunnerStep
  <2>1. CASE Toggle("eth0", "eth1") \/ Toggle("eth1", "probe")
    <3>1. UNCHANGED <<gwCrypto, phase, telA>> /\ pc' \notin Probed \cup {"readB"}
      BY <1>11, <2>1
    <3> QED
      BY <1>9, <3>1
  <2> QED
    BY <1>5, <1>6, <1>7, <1>8, <1>10, <1>12, <1>13, <1>16, <2>1 DEF RunnerStep
<1> QED
  BY <1>14, <1>15, <1>16 DEF Next

\* A result counts only transactions of its mode.
LEMMA NotMixedStep ==
    ASSUME TypesOK, LabelsInv, MixInv, CryptosNotMixed, [Next]_vars
    PROVE  CryptosNotMixed'
<1> DEFINE Own(r) == \A x \in ToSet(r.counted) : CryptoOf(ComboOf(x)) = r.crypto
<1> SUFFICES ASSUME failures' = 0, NEW i \in DOMAIN results' PROVE Own(results'[i])
  BY DEF CryptosNotMixed, ToSet, CryptoOf, ComboOf
<1>0. failures = 0 /\ ControlOK /\ FilesOK
  BY FailuresStay DEF TypesOK
<1>1. \A j \in DOMAIN results : Own(results[j])
  BY <1>0 DEF CryptosNotMixed, ToSet
<1>2. CASE results' = results
  <2>1. Own(results[i])
    BY <1>1, <1>2
  <2> QED
    BY <1>2, <2>1
<1>3. CASE CollectAndCompute /\ results' # results
  <2> DEFINE n == Len(results)
  <2>1. /\ n \in Nat /\ results' \in Seq(Result) /\ Len(results') = n + 1
        /\ \A j \in 1..n : results'[j] = results[j]
        /\ results'[n + 1].crypto = CryptoOf(k)
        /\ ToSet(results'[n + 1].counted) = SeriesOf(Merge(snap, telB))
    BY <1>0, <1>3, ResultComputed
  <2>2. gwCrypto = CryptoOf(k) /\ OfMode(ToSet(snap))
    BY <1>0, <1>3 DEF CollectAndCompute, LabelsInv, MixInv
  <2>3. SeriesOf(Merge(snap, telB)) \subseteq ToSet(snap)
    <3>1. snap \in Seq(Tx) /\ telB \in Seq(Tx)
      BY <1>0 DEF FilesOK
    <3>2. Merge(snap, telB) \in Seq(Tx) /\ ToSet(Merge(snap, telB)) \subseteq ToSet(snap)
      BY <3>1, MergeRows, MergeElements
    <3>3. \A p \in 1..Len(Merge(snap, telB)) : Merge(snap, telB)[p] \in ToSet(Merge(snap, telB))
      BY <3>2 DEF ToSet
    <3> QED
      BY <3>2, <3>3, SeriesRows
  <2>4. Own(results'[n + 1])
    BY <2>1, <2>2, <2>3 DEF OfMode
  <2>5. DOMAIN results = 1..n
    BY <1>0 DEF FilesOK
  <2> HIDE DEF n
  <2>6. CASE i = n + 1
    BY <2>4, <2>6
  <2>7. CASE i # n + 1
    <3>1. i \in 1..n /\ results'[i] = results[i]
      BY <2>1, <2>7
    <3>2. Own(results[i])
      BY <1>1, <2>5, <3>1
    <3> QED
      BY <3>1, <3>2
  <2> QED
    BY <2>6, <2>7
<1>4. CASE ReadSeriesB
  <2>1. results # << >>
    BY <1>0, <1>4 DEF ReadSeriesB, FilesOK, Late
  <2>2. /\ Len(results) \in Nat /\ results' \in Seq(Result) /\ Len(results') = Len(results)
        /\ \A j \in 1..Len(results) : /\ results'[j].crypto = results[j].crypto
                                      /\ results'[j].counted = results[j].counted
    BY <1>0, <1>4, <2>1, PlottedFiled DEF FilesOK
  <2>3. i \in 1..Len(results) /\ i \in DOMAIN results
    BY <1>0, <2>2 DEF FilesOK
  <2>4. Own(results[i])
    BY <1>1, <2>3
  <2> QED
    BY <2>2, <2>3, <2>4
<1> QED
  BY <1>2, <1>3, <1>4, ResultsWriters

\* Without a failed command no transaction of one crypto mode is counted for
\* another.
THEOREM ModesNotMixed == Spec => []CryptosNotMixed
<1>1. Init => MixInv /\ CryptosNotMixed
  BY DEF Init, MixInv, CryptosNotMixed, OfMode, Queued, Probed
<1>2. TypesOK /\ LabelsInv /\ MixInv /\ CryptosNotMixed /\ [Next]_vars => MixInv' /\ CryptosNotMixed'
  BY MixStep, NotMixedStep
<1> QED
  BY <1>1, <1>2, TypesHold, InForce, PTL DEF Spec

-----------------------------------------------------------------------------
(* The order of the results                                                *)

\* Combinations of which it is decided whether they have a result.
Decided == IF pc \in Late \cup {"next", "done"} THEN k ELSE k - 1

\* The results are in the order of the combinations, at most one for each; if none
\* is missing, each is at its place.
Ordered(rs, d) ==
    /\ \A i \in DOMAIN rs : rs[i].k <= d
    /\ \A i, j \in DOMAIN rs : i < j => rs[i].k < rs[j].k
    /\ Len(rs) <= d
    /\ Len(rs) = d => \A i \in DOMAIN rs : rs[i].k = i

\* The combination at work is the last that has a result.
OrderInv ==
    /\ Ordered(results, Decided)
    /\ pc \in Late => results[Len(results)].k = k

\* The other steps decide nothing.
LEMMA NothingDecided ==
    ASSUME [Next]_vars, ~CollectAndCompute, ~ReadSeriesB, ~NextCombination
    PROVE  \/ results' = results /\ k' = k /\ (pc' \in Late <=> pc \in Late) /\ Decided' = Decided
           \/ ArchiveB
<1>1. UNCHANGED vars \/ GatewayStep => results' = results /\ k' = k /\ pc' = pc
  BY GatewaysFrame DEF vars, runner
<1>2. UNCHANGED vars \/ GatewayStep => Decided' = Decided
  BY <1>1 DEF Decided
<1>3. SwitchCrypto \/ ProbeRtt \/ ClearA \/ ClearB \/ InjectOne \/ WaitEnds \/ ReadA
        => /\ results' = results /\ k' = k
           /\ pc \notin Late \cup {"next", "done"} /\ pc' \notin Late \cup {"next", "done"}
  BY DEF SwitchCrypto, ProbeRtt, ClearA, ClearB, InjectOne, WaitEnds, ReadA, Late
<1>4. Toggle("eth0", "eth1") \/ Toggle("eth1", "probe")
        => /\ results' = results /\ k' = k
           /\ pc \notin Late \cup {"next", "done"} /\ pc' \notin Late \cup {"next", "done"}
  BY DEF Toggle, Late
<1>5. ReadSeriesA \/ ArchiveA => results' = results /\ k' = k /\ pc \in Late /\ pc' \in Late
  BY DEF ReadSeriesA, ArchiveA, Late
<1>6. Report => /\ results' = results /\ k' = k /\ pc \notin Late /\ pc' \notin Late
                /\ pc \in {"next", "done"} /\ pc' \in {"next", "done"}
  BY DEF Report, Late
<1> QED
  BY <1>1, <1>2, <1>3, <1>4, <1>5, <1>6 DEF Next, RunnerStep, Decided

\* A combination gets its result when all before it are decided.
LEMMA OrderStep ==
    ASSUME TypesOK, OrderInv, [Next]_vars
    PROVE  OrderInv'
<1>0. ControlOK /\ FilesOK
  BY DEF TypesOK
<1>1. k \in Nat \ {0} /\ Len(results) \in Nat /\ DOMAIN results = 1..Len(results)
      /\ \A i \in 1..Len(results) : results[i] \in Result /\ results[i].k \in Nat
  <2>1. k \in Nat \ {0} /\ results \in Seq(Result)
    BY <1>0, Combinations DEF ControlOK, FilesOK
  <2>2. \A r \in Result : r.k \in Nat
    BY Combinations DEF Result
  <2> QED
    BY <2>1, <2>2
<1>2. CASE CollectAndCompute
  <2>1. Decided = k - 1 /\ Decided' = k /\ k' = k /\ pc' \in {"plotA", "next"}
    BY <1>2 DEF CollectAndCompute, Decided, Late
  <2>2. CASE pc' = "next" /\ results' = results
    <3>1. Ordered(results, k)
      <4>1. Ordered(results, k - 1)
        BY <2>1 DEF OrderInv
      <4>2. \A i \in 1..Len(results) : results[i].k <= k
        BY <1>1, <4>1 DEF Ordered
      <4>3. Len(results) < k
        BY <1>1, <4>1 DEF Ordered
      <4>4. Len(results) <= k /\ Len(results) # k
        <5>1. k \in Nat /\ Len(results) \in Nat
          BY <1>1
        <5> QED
          BY <4>3, <5>1
      <4>5. \A i, j \in DOMAIN results : i < j => results[i].k < results[j].k
        BY <4>1, Zenon DEF Ordered
      <4> QED
        BY <1>1, <4>2, <4>4, <4>5, Zenon DEF Ordered
    <3> QED
      BY <2>1, <2>2, <3>1 DEF OrderInv, Late
  <2>3. CASE ~(pc' = "next" /\ results' = results)
    <3> DEFINE n == Len(results)
    <3>1. /\ results' \in Seq(Result) /\ Len(results') = n + 1
          /\ \A i \in 1..n : results'[i] = results[i]
          /\ results'[n + 1].k = k
      BY <1>0, <1>2, <2>3, ResultComputed
    <3>2. n \in Nat /\ DOMAIN results = 1..n /\ DOMAIN results' = 1..(n + 1)
      BY <1>1, <3>1
    <3>3. /\ \A i \in 1..n : results[i].k \in Nat /\ results[i].k <= k - 1
          /\ \A i, j \in 1..n : i < j => results[i].k < results[j].k
          /\ n <= k - 1 /\ (n = k - 1 => \A i \in 1..n : results[i].k = i)
      BY <1>1, <2>1, <3>2 DEF OrderInv, Ordered
    <3> HIDE DEF n
    <3>4. ASSUME NEW i \in 1..(n + 1) PROVE i = n + 1 \/ (i \in 1..n /\ results'[i] = results[i])
      BY <3>1, <3>2
    <3>5. \A i \in 1..(n + 1) : results'[i].k <= k
      BY <1>1, <3>1, <3>3, <3>4
    <3>6. ASSUME NEW i \in 1..(n + 1), NEW j \in 1..(n + 1), i < j
          PROVE  results'[i].k < results'[j].k
      <4>1. i \in 1..n /\ results'[i] = results[i] /\ results[i].k <= k - 1 /\ results[i].k \in Nat
        BY <3>2, <3>3, <3>4, <3>6
      <4>2. CASE j = n + 1
        BY <1>1, <3>1, <4>1, <4>2
      <4>3. CASE j # n + 1
        BY <3>3, <3>4, <3>6, <4>1, <4>3
      <4> QED
        BY <4>2, <4>3
    <3>7. n + 1 <= k
      BY <1>1, <3>2, <3>3
    <3>8. ASSUME n + 1 = k, NEW i \in 1..(n + 1) PROVE results'[i].k = i
      <4>1. n = k - 1
        BY <1>1, <3>2, <3>8
      <4> QED
        BY <3>1, <3>3, <3>4, <3>8, <4>1
    <3>9. Ordered(results', k)
      BY <3>1, <3>2, <3>5, <3>6, <3>7, <3>8 DEF Ordered
    <3>10. results'[Len(results')].k = k
      BY <3>1
    <3> QED
      BY <2>1, <3>9, <3>10 DEF OrderInv
  <2> QED
    BY <2>2, <2>3
<1>3. CASE ReadSeriesB
  <2>1. results # << >> /\ pc \in Late /\ pc' \in Late /\ k' = k
    BY <1>0, <1>3 DEF ReadSeriesB, FilesOK, Late
  <2>2. /\ results' \in Seq(Result) /\ Len(results') = Len(results)
        /\ \A i \in 1..Len(results) : results'[i].k = results[i].k
        /\ Len(results) \in Nat \ {0}
    BY <1>0, <1>3, <2>1, PlottedFiled DEF FilesOK
  <2>3. DOMAIN results' = 1..Len(results) /\ Len(results) \in 1..Len(results)
    BY <2>2
  <2>4. Decided' = Decided /\ results'[Len(results)].k = results[Len(results)].k
    BY <2>1, <2>2, <2>3 DEF Decided
  <2>5. Ordered(results', Decided)
    BY <1>1, <2>2, <2>3 DEF OrderInv, Ordered
  <2> QED
    BY <2>1, <2>2, <2>4, <2>5 DEF OrderInv
<1>4. CASE NextCombination
  <2>1. results' = results /\ Decided = k /\ k' = k + 1 /\ pc' = "switch"
    BY <1>4 DEF NextCombination, Decided
  <2>2. Decided' = k
    BY <1>1, <2>1 DEF Decided, Late
  <2> QED
    BY <2>1, <2>2 DEF OrderInv, Late
<1>5. CASE ArchiveB
  <2>1. results' = results /\ k' = k /\ pc' = "next" /\ Decided = k /\ Decided' = k
    BY <1>5 DEF ArchiveB, Decided, Late
  <2> QED
    BY <2>1 DEF OrderInv, Late
<1>6. CASE results' = results /\ k' = k /\ (pc' \in Late <=> pc \in Late) /\ Decided' = Decided
  BY <1>6 DEF OrderInv
<1> QED
  BY <1>2, <1>3, <1>4, <1>5, <1>6, NothingDecided

\* The results are always in the order of the combinations.
THEOREM ResultsInOrder == Spec => []OrderInv
<1>1. Init => OrderInv
  BY DEF Init, OrderInv, Ordered, Decided, Late
<1>2. TypesOK /\ OrderInv /\ [Next]_vars => OrderInv'
  BY OrderStep
<1> QED
  BY <1>1, <1>2, TypesHold, PTL DEF Spec

-----------------------------------------------------------------------------
(* Metrics, plots and archive                                              *)

\* What the three readings of the files owe each other, between them.
CoverInv ==
    LET last == results[Len(results)] IN
    /\ pc \in {"readB", "plotB"} => Begins(snap, telA)
    /\ pc = "plotA" => ToSet(last.counted) \subseteq SeriesOf(Merge(telA, telB))
    /\ pc = "plotB" => ToSet(last.counted) \subseteq SeriesOf(Merge(snap, telB))
    /\ pc \in {"copyA", "copyB"} => ToSet(last.counted) \subseteq last.plotted
    /\ pc = "copyA" => last.plotted \subseteq ToSet(telA) \cap ToSet(telB)
    /\ pc = "copyB" => last.plotted \subseteq ToSet(raw[k].a) \cap ToSet(telB)

\* A file begins with itself, and has what it began with.
LEMMA BeginsFacts ==
    ASSUME NEW S, NEW s \in Seq(S), NEW t \in Seq(S), NEW u \in Seq(S)
    PROVE  /\ Begins(s, s)
           /\ Begins(s, t) => ToSet(s) \subseteq ToSet(t)
           /\ Begins(s, t) /\ Begins(t, u) => Begins(s, u)
<1>1. /\ Len(s) \in Nat /\ Len(t) \in Nat /\ Len(u) \in Nat
      /\ DOMAIN s = 1..Len(s) /\ DOMAIN t = 1..Len(t)
  OBVIOUS
<1>2. Begins(s, s)
  BY <1>1 DEF Begins
<1>3. ASSUME Begins(s, t) PROVE ToSet(s) \subseteq ToSet(t)
  <2>1. \A i \in 1..Len(s) : i \in 1..Len(t) /\ s[i] = t[i]
    BY <1>1, <1>3 DEF Begins
  <2> QED
    BY <1>1, <2>1, Zenon DEF ToSet
<1>4. ASSUME Begins(s, t), Begins(t, u) PROVE Begins(s, u)
  BY <1>1, <1>4 DEF Begins
<1> QED
  BY <1>2, <1>3, <1>4

\* The gateways only add to their files.
LEMMA FilesGrow ==
    ASSUME FilesOK, GatewayStep
    PROVE  Begins(telA, telA') /\ Begins(telB, telB') /\ telA' \in Seq(Tx) /\ telB' \in Seq(Tx)
<1>0. telA \in Seq(Tx) /\ telB \in Seq(Tx)
  BY DEF FilesOK
<1>1. Begins(telA, telA) /\ Begins(telB, telB)
  BY <1>0, BeginsFacts
<1>2. PICK t \in Tx : Attempt(t) \/ HandlerLogs(t) \/ AckArrives(t) \/ GivesUp(t)
  BY DEF GatewayStep
<1>3. CASE Attempt(t) \/ GivesUp(t)
  BY <1>0, <1>1, <1>3 DEF Attempt, GivesUp
<1>4. CASE HandlerLogs(t)
  <2>1. telA' = telA /\ telB' = Append(telB, t)
    BY <1>4 DEF HandlerLogs
  <2>2. Begins(telB, Append(telB, t)) /\ Append(telB, t) \in Seq(Tx)
    BY <1>0, LineAdded
  <2> QED
    BY <1>0, <1>1, <2>1, <2>2
<1>5. CASE AckArrives(t)
  <2>1. telB' = telB /\ telA' = Append(telA, t)
    BY <1>5 DEF AckArrives
  <2>2. Begins(telA, Append(telA, t)) /\ Append(telA, t) \in Seq(Tx)
    BY <1>0, LineAdded
  <2> QED
    BY <1>0, <1>1, <2>1, <2>2
<1> QED
  BY <1>2, <1>3, <1>4, <1>5

\* What the plots show is in both files.
LEMMA SeriesWithin ==
    ASSUME NEW S, NEW a \in Seq(S), NEW b \in Seq(S)
    PROVE  SeriesOf(Merge(a, b)) \subseteq ToSet(a) \cap ToSet(b)
<1>1. Merge(a, b) \in Seq(S) /\ ToSet(Merge(a, b)) = ToSet(a) \cap ToSet(b)
  BY MergeRows, MergeElements
<1>2. \A p \in 1..Len(Merge(a, b)) : Merge(a, b)[p] \in ToSet(Merge(a, b))
  BY <1>1 DEF ToSet
<1> QED
  BY <1>1, <1>2, SeriesRows

\* Lines that come in between two readings only add to what the later one shows.
LEMMA CoverStep ==
    ASSUME TypesOK, CoverInv, [Next]_vars
    PROVE  CoverInv'
<1>0. /\ ControlOK /\ FilesOK /\ telA \in Seq(Tx) /\ telB \in Seq(Tx) /\ snap \in Seq(Tx)
  BY DEF TypesOK, FilesOK
<1>1. CASE UNCHANGED vars
  BY <1>1 DEF vars, runner, CoverInv
<1>2. CASE GatewayStep
  <2>1. UNCHANGED <<pc, k, results, snap, raw>>
    BY <1>2, GatewaysFrame
  <2>2. Begins(telA, telA') /\ Begins(telB, telB') /\ telA' \in Seq(Tx) /\ telB' \in Seq(Tx)
    BY <1>0, <1>2, FilesGrow
  <2>3. /\ ToSet(telA) \subseteq ToSet(telA') /\ ToSet(telB) \subseteq ToSet(telB')
        /\ Begins(snap, telA) => Begins(snap, telA')
        /\ Begins(snap, snap)
    BY <1>0, <2>2, BeginsFacts
  <2>4. SeriesOf(Merge(telA, telB)) \subseteq SeriesOf(Merge(telA', telB'))
    BY <1>0, <2>2, SeriesGrows
  <2>5. SeriesOf(Merge(snap, telB)) \subseteq SeriesOf(Merge(snap, telB'))
    BY <1>0, <2>2, <2>3, SeriesGrows
  <2> DEFINE last == results[Len(results)]
  <2> HIDE DEF last
  <2>6. /\ pc = "plotA" => ToSet(last.counted) \subseteq SeriesOf(Merge(telA', telB'))
        /\ pc = "plotB" => ToSet(last.counted) \subseteq SeriesOf(Merge(snap, telB'))
        /\ pc = "copyA" => last.plotted \subseteq ToSet(telA') \cap ToSet(telB')
        /\ pc = "copyB" => last.plotted \subseteq ToSet(raw[k].a) \cap ToSet(telB')
    BY <2>3, <2>4, <2>5 DEF CoverInv, last
  <2>7. /\ pc \in {"readB", "plotB"} => Begins(snap, telA')
        /\ pc \in {"copyA", "copyB"} => ToSet(last.counted) \subseteq last.plotted
    BY <2>3 DEF CoverInv, last
  <2> QED
    BY <2>1, <2>6, <2>7, Zenon DEF CoverInv, last, SeriesOf, Merge
<1>3. CASE CollectAndCompute
  <2>1. pc = "readB" /\ UNCHANGED <<telA, telB, raw, k>> /\ Begins(snap, telA)
    BY <1>3 DEF CollectAndCompute, CoverInv
  <2>2. CASE pc' = "next"
    BY <2>2 DEF CoverInv
  <2>3. CASE pc' # "next"
    <3> DEFINE n == Len(results)
    <3>1. /\ pc' = "plotA" /\ Len(results') = n + 1
          /\ ToSet(results'[n + 1].counted) = SeriesOf(Merge(snap, telB))
      BY <1>0, <1>3, <2>3, ResultComputed
    <3>2. SeriesOf(Merge(snap, telB)) \subseteq SeriesOf(Merge(telA, telB))
      BY <1>0, <2>1, BeginsFacts, SeriesGrows
    <3> HIDE DEF n
    <3>3. ToSet(results'[Len(results')].counted) \subseteq SeriesOf(Merge(telA', telB'))
      BY <2>1, <3>1, <3>2
    <3> QED
      BY <3>1, <3>3 DEF CoverInv
  <2> QED
    BY <2>2, <2>3
<1>4. CASE ReadSeriesA
  <2>1. pc = "plotA" /\ pc' = "plotB" /\ snap' = telA /\ UNCHANGED <<telA, telB, results>>
    BY <1>4 DEF ReadSeriesA
  <2>2. Begins(telA, telA)
    BY <1>0, BeginsFacts
  <2> QED
    BY <2>1, <2>2 DEF CoverInv
<1>5. CASE ReadSeriesB
  <2> DEFINE n == Len(results)
  <2>1. results # << >> /\ pc = "plotB" /\ pc' = "copyA" /\ UNCHANGED <<telA, telB>>
    BY <1>0, <1>5 DEF ReadSeriesB, FilesOK, Late
  <2>2. /\ n \in Nat \ {0} /\ Len(results') = n
        /\ \A i \in 1..n : results'[i].counted = results[i].counted
        /\ results'[n].plotted = SeriesOf(Merge(snap, telB))
    BY <1>0, <1>5, <2>1, PlottedFiled DEF FilesOK
  <2>3. results'[n].counted = results[n].counted
    BY <2>2
  <2>4. SeriesOf(Merge(snap, telB)) \subseteq ToSet(snap) \cap ToSet(telB)
    BY <1>0, SeriesWithin
  <2>5. ToSet(snap) \subseteq ToSet(telA)
    BY <1>0, <2>1, BeginsFacts DEF CoverInv
  <2>6. ToSet(results[n].counted) \subseteq SeriesOf(Merge(snap, telB))
    BY <2>1 DEF CoverInv
  <2> HIDE DEF n
  <2>7. /\ ToSet(results'[n].counted) \subseteq results'[n].plotted
        /\ results'[n].plotted \subseteq ToSet(telA') \cap ToSet(telB')
    BY <2>1, <2>2, <2>3, <2>4, <2>5, <2>6
  <2> QED
    BY <2>1, <2>2, <2>7 DEF CoverInv
<1>6. CASE ArchiveA
  <2>1. pc = "copyA" /\ pc' = "copyB" /\ UNCHANGED <<k, telA, telB, results>>
    BY <1>6 DEF ArchiveA
  <2>2. telA \in LogFiles /\ telB \in LogFiles
    BY <1>0, Transactions
  <2>3. raw'[k].a = telA
    BY <1>0, <1>6, <2>2, FileArchived DEF FilesOK, ControlOK
  <2> QED
    BY <2>1, <2>3 DEF CoverInv
<1>7. CASE ReadA
  <2>1. pc' = "readB" /\ snap' = telA /\ telA' = telA
    BY <1>7 DEF ReadA
  <2>2. Begins(telA, telA)
    BY <1>0, BeginsFacts
  <2> QED
    BY <2>1, <2>2 DEF CoverInv
<1>8. CASE pc' \notin {"readB", "plotA", "plotB", "copyA", "copyB"}
  BY <1>8 DEF CoverInv
<1>9. CASE SwitchCrypto \/ ProbeRtt \/ ClearA \/ ClearB \/ InjectOne \/ WaitEnds
           \/ ArchiveB \/ NextCombination \/ Report
  <2>1. pc' \notin {"readB", "plotA", "plotB", "copyA", "copyB"}
    BY <1>9 DEF SwitchCrypto, ProbeRtt, ClearA, ClearB, InjectOne, WaitEnds, ArchiveB,
                NextCombination, Report
  <2> QED
    BY <1>8, <2>1
<1>10. CASE Toggle("eth0", "eth1") \/ Toggle("eth1", "probe")
  <2>1. pc' \notin {"readB", "plotA", "plotB", "copyA", "copyB"}
    BY <1>10 DEF Toggle
  <2> QED
    BY <1>8, <2>1
<1> QED
  BY <1>1, <1>2, <1>3, <1>4, <1>5, <1>6, <1>7, <1>9, <1>10 DEF Next, RunnerStep

\* The archive f holds the result r: what was counted is plotted, what is plotted
\* is in both files, and both files are of this campaign.
Kept(r, f) ==
    /\ ToSet(r.counted) \subseteq r.plotted
    /\ r.plotted \subseteq ToSet(f.a) \cap ToSet(f.b)
    /\ 0 \notin ToSet(f.a) \cup ToSet(f.b)

\* Every finished result has its archive, and of the last one half may be made.
KeptInv ==
    /\ \A i \in DOMAIN results : Finished(i) => Kept(results[i], raw[results[i].k])
    /\ pc = "copyB" => 0 \notin ToSet(raw[k].a)

\* The other steps leave results and archives alone.
LEMMA NothingArchived ==
    ASSUME [Next]_vars, ~CollectAndCompute, ~ReadSeriesB, ~ArchiveA, ~ArchiveB
    PROVE  \/ UNCHANGED <<results, raw>> /\ (pc' \in Late <=> pc \in Late) /\ pc' # "copyB"
           \/ UNCHANGED <<results, raw, pc, k>>
<1>1. UNCHANGED vars \/ GatewayStep => UNCHANGED <<results, raw, pc, k>>
  BY GatewaysFrame DEF vars, runner
<1>2. SwitchCrypto \/ ProbeRtt \/ ClearA \/ ClearB \/ InjectOne \/ WaitEnds \/ ReadA
        \/ NextCombination \/ Report
        => UNCHANGED <<results, raw>> /\ pc \notin Late /\ pc' \notin Late /\ pc' # "copyB"
  BY DEF SwitchCrypto, ProbeRtt, ClearA, ClearB, InjectOne, WaitEnds, ReadA, NextCombination,
         Report, Late
<1>3. Toggle("eth0", "eth1") \/ Toggle("eth1", "probe")
        => UNCHANGED <<results, raw>> /\ pc \notin Late /\ pc' \notin Late /\ pc' # "copyB"
  BY DEF Toggle, Late
<1>4. ReadSeriesA => UNCHANGED <<results, raw>> /\ pc \in Late /\ pc' \in Late /\ pc' # "copyB"
  BY DEF ReadSeriesA, Late
<1> QED
  BY <1>1, <1>2, <1>3, <1>4 DEF Next, RunnerStep

\* A combination's archive is complete when the runner leaves it, and no later
\* combination writes to it.
LEMMA KeptStep ==
    ASSUME TypesOK, OrderInv, CoverInv, KeptInv, [Next]_vars
    PROVE  KeptInv'
<1> DEFINE n == Len(results)
           Fin(i) == pc \notin Late \/ i < n
<1>0. /\ ControlOK /\ FilesOK /\ n \in Nat /\ DOMAIN results = 1..n /\ k \in Combo
      /\ \A i \in 1..n : results[i] \in Result /\ results[i].k \in Combo
  <2>1. results \in Seq(Result) /\ ControlOK /\ FilesOK /\ k \in Combo
    BY DEF TypesOK, FilesOK, ControlOK
  <2>2. \A r \in Result : r.k \in Combo
    BY DEF Result
  <2> QED
    BY <2>1, <2>2
<1>1. \A i \in 1..n : Fin(i) => Kept(results[i], raw[results[i].k])
  BY <1>0 DEF KeptInv, Finished, Late
<1>2. /\ pc \in Late => n # 0 /\ results[n].k = k
      /\ \A i, j \in 1..n : i < j => results[i].k < results[j].k
  <2>1. pc \in Late => results # << >> /\ results \in Seq(Result)
    BY <1>0, Zenon DEF FilesOK
  <2>2. pc \in Late => n # 0
    BY <2>1
  <2>3. /\ pc \in Late => results[n].k = k
        /\ \A i, j \in 1..n : i < j => results[i].k < results[j].k
    BY <1>0, Zenon DEF OrderInv, Ordered
  <2> QED
    BY <2>2, <2>3
<1>3. ASSUME pc \in Late, NEW i \in 1..n, i # n PROVE results[i].k # k /\ i < n
  <2>0. n \in Nat /\ n # 0 /\ k \in Nat
    BY <1>0, <1>2, <1>3, Combinations
  <2>1. n \in 1..n /\ i < n /\ k \in Nat
    BY <1>3, <2>0
  <2>2. results[i].k < k
    BY <1>2, <1>3, <2>1
  <2>3. results[i].k \in Nat
    BY <1>0, Combinations
  <2> QED
    BY <2>1, <2>2, <2>3
<1>4. CASE CollectAndCompute
  <2>1. pc = "readB" /\ raw' = raw /\ pc' # "copyB"
    BY <1>4 DEF CollectAndCompute
  <2>2. \A i \in 1..n : Kept(results[i], raw[results[i].k])
    BY <1>1, <2>1 DEF Late
  <2>3. CASE results' = results
    BY <1>0, <2>1, <2>2, <2>3 DEF KeptInv
  <2>4. CASE results' # results
    <3>1. /\ pc' = "plotA" /\ results' \in Seq(Result) /\ Len(results') = n + 1
          /\ \A i \in 1..n : results'[i] = results[i]
      BY <1>0, <1>4, <2>4, ResultComputed
    <3> HIDE DEF n
    <3>2. ASSUME NEW i \in DOMAIN results', Finished(i)'
          PROVE  Kept(results'[i], raw'[results'[i].k])
      <4>1. i \in 1..(n + 1) /\ i < n + 1
        BY <1>0, <3>1, <3>2 DEF Finished
      <4>2. i \in 1..n
        BY <1>0, <4>1
      <4> QED
        BY <2>1, <2>2, <3>1, <4>2
    <3> QED
      BY <2>1, <3>2 DEF KeptInv, Kept
  <2> QED
    BY <2>3, <2>4
<1>5. CASE ReadSeriesB
  <2>1. pc = "plotB" /\ pc' = "copyA" /\ raw' = raw /\ pc \in Late /\ results # << >>
    BY <1>0, <1>5 DEF ReadSeriesB, Late, FilesOK
  <2>2. /\ Len(results') = n /\ results' \in Seq(Result)
        /\ \A i \in 1..n : i # n => results'[i] = results[i]
    BY <1>0, <1>5, <2>1, PlottedFiled DEF FilesOK
  <2>3. ASSUME NEW i \in DOMAIN results', Finished(i)'
        PROVE  Kept(results'[i], raw'[results'[i].k])
    <3>1. i \in 1..n /\ i < n
      BY <2>1, <2>2, <2>3 DEF Finished
    <3>2. Kept(results[i], raw[results[i].k]) /\ results'[i] = results[i]
      BY <1>1, <2>2, <3>1
    <3> QED
      BY <2>1, <3>2
  <2> QED
    BY <2>1, <2>3 DEF KeptInv, Kept
<1>6. CASE ArchiveA \/ ArchiveB
  <2>0. telA \in LogFiles /\ telB \in LogFiles /\ 0 \notin ToSet(telA) /\ 0 \notin ToSet(telB)
    <3>1. telA \in Seq(Tx) /\ telB \in Seq(Tx)
      BY <1>0 DEF FilesOK
    <3>2. ToSet(telA) \subseteq Tx /\ ToSet(telB) \subseteq Tx
      BY <3>1 DEF ToSet
    <3> QED
      BY <3>1, <3>2, Transactions
  <2>1. results' = results /\ k' = k /\ pc \in Late
    BY <1>6 DEF ArchiveA, ArchiveB, Late
  <2>2. \A c \in Combo : c # k => raw'[c] = raw[c]
    BY <1>0, <1>6, <2>0, FileArchived DEF FilesOK
  <2>3. ASSUME NEW i \in 1..n, i # n PROVE Kept(results'[i], raw'[results'[i].k])
    <3>1. results[i].k # k /\ i < n /\ results[i].k \in Combo
      BY <1>0, <1>3, <2>1, <2>3
    <3>2. Kept(results[i], raw[results[i].k]) /\ raw'[results[i].k] = raw[results[i].k]
      BY <1>1, <2>2, <3>1
    <3> QED
      BY <2>1, <3>2
  <2>4. CASE ArchiveA
    <3>1. pc' = "copyB" /\ raw'[k].a = telA
      BY <1>0, <2>0, <2>4, FileArchived DEF FilesOK, ArchiveA
    <3>2. ASSUME NEW i \in DOMAIN results', Finished(i)' PROVE i \in 1..n /\ i # n
      BY <1>0, <2>1, <3>1, <3>2 DEF Finished
    <3>3. 0 \notin ToSet(raw'[k'].a)
      BY <2>0, <2>1, <3>1
    <3> QED
      BY <2>3, <3>2, <3>3 DEF KeptInv, Kept
  <2>5. CASE ArchiveB
    <3>1. pc = "copyB" /\ pc' = "next" /\ raw'[k].a = raw[k].a /\ raw'[k].b = telB
      BY <1>0, <2>0, <2>5, FileArchived DEF FilesOK, ArchiveB
    <3>2. Kept(results[n], raw'[k])
      <4>1. /\ ToSet(results[n].counted) \subseteq results[n].plotted
            /\ results[n].plotted \subseteq ToSet(raw[k].a) \cap ToSet(telB)
        BY <3>1 DEF CoverInv
      <4>2. 0 \notin ToSet(raw[k].a)
        BY <3>1 DEF KeptInv
      <4> QED
        BY <2>0, <3>1, <4>1, <4>2 DEF Kept
    <3>3. Kept(results'[n], raw'[results'[n].k])
      BY <1>2, <2>1, <3>2
    <3>4. \A i \in 1..n : Kept(results'[i], raw'[results'[i].k])
      BY <2>3, <3>3
    <3> QED
      BY <1>0, <2>1, <3>1, <3>4 DEF KeptInv, Kept
  <2> QED
    BY <1>6, <2>4, <2>5
<1>7. CASE UNCHANGED <<results, raw>> /\ (pc' \in Late <=> pc \in Late) /\ pc' # "copyB"
  <2>1. \A i \in DOMAIN results : Finished(i)' => Finished(i)
    BY <1>7 DEF Finished, Late
  <2> QED
    BY <1>7, <2>1 DEF KeptInv, Kept
<1>8. CASE UNCHANGED <<results, raw, pc, k>>
  BY <1>8 DEF KeptInv, Kept, Finished
<1> QED
  BY <1>4, <1>5, <1>6, <1>7, <1>8, NothingArchived

\* The three readings and the archives, for ever.
THEOREM ArchivesKept == Spec => [](CoverInv /\ KeptInv)
<1>1. Init => CoverInv /\ KeptInv
  BY DEF Init, CoverInv, KeptInv
<1>2. TypesOK /\ OrderInv /\ CoverInv /\ KeptInv /\ [Next]_vars => CoverInv' /\ KeptInv'
  BY CoverStep, KeptStep
<1> QED
  BY <1>1, <1>2, TypesHold, ResultsInOrder, PTL DEF Spec

\* What the metrics count the plots show, and what the plots show the archive
\* holds, on both sides.
THEOREM ArchiveCoversReport == Spec => []ArchiveCovers
<1>1. KeptInv => ArchiveCovers
  BY DEF KeptInv, Kept, ArchiveCovers
<1> QED
  BY <1>1, ArchivesKept, PTL

-----------------------------------------------------------------------------
(* The exit status                                                         *)

\* The exit status is there when the runner is done, and 0 says what it should.
ExitInv ==
    /\ exit # "none" => pc = "done"
    /\ exit = "0" => k = NumCombos /\ Len(results) = NumCombos /\ csv = results

\* Nothing happens to the report after the exit.
LEMMA ExitStep ==
    ASSUME ExitInv, [Next]_vars
    PROVE  ExitInv'
<1>1. CASE UNCHANGED <<pc, k, results, csv, exit>>
  BY <1>1 DEF ExitInv
<1>2. UNCHANGED vars \/ GatewayStep => UNCHANGED <<pc, k, results, csv, exit>>
  BY GatewaysFrame DEF vars, runner
<1>3. CASE Report
  <2>1. /\ pc' = "done" /\ k' = k /\ k = NumCombos /\ results' = results
        /\ csv' = IF results = << >> THEN csv ELSE results
        /\ exit' = IF Len(results) # NumCombos THEN "1" ELSE "0"
    BY <1>3 DEF Report, ExitStatus
  <2>2. NumCombos # 0 /\ NumCombos' = NumCombos
    BY Combinations DEF NumCombos
  <2>3. exit' = "0" => Len(results) = NumCombos /\ results # << >>
    BY <2>1, <2>2
  <2> QED
    BY <2>1, <2>2, <2>3 DEF ExitInv
<1>4. CASE RunnerStep /\ ~Report
  <2>1. ~Report /\ RunnerStep => pc # "done" /\ exit' = exit
    <3>1. SwitchCrypto \/ ProbeRtt \/ ClearA \/ ClearB \/ InjectOne \/ WaitEnds \/ ReadA
            \/ CollectAndCompute => pc # "done" /\ exit' = exit
      BY DEF SwitchCrypto, ProbeRtt, ClearA, ClearB, InjectOne, WaitEnds, ReadA, CollectAndCompute
    <3>2. ReadSeriesA \/ ReadSeriesB \/ ArchiveA \/ ArchiveB \/ NextCombination
            \/ Toggle("eth0", "eth1") \/ Toggle("eth1", "probe") => pc # "done" /\ exit' = exit
      BY DEF ReadSeriesA, ReadSeriesB, ArchiveA, ArchiveB, NextCombination, Toggle
    <3> QED
      BY <3>1, <3>2 DEF RunnerStep
  <2> QED
    BY <1>4, <2>1 DEF ExitInv
<1> QED
  BY <1>1, <1>2, <1>3, <1>4 DEF Next

\* Exit status 0 means that report and archives are complete and of this campaign.
THEOREM SuccessIsComplete == Spec => []SuccessMeansComplete
<1>1. Init => ExitInv
  BY DEF Init, ExitInv
<1>2. ExitInv /\ [Next]_vars => ExitInv'
  BY ExitStep
<1>3. TypesOK /\ OrderInv /\ KeptInv /\ ExitInv => SuccessMeansComplete
  <2> SUFFICES ASSUME TypesOK, OrderInv, KeptInv, ExitInv, exit = "0", NEW c \in Combo
               PROVE  /\ \E i \in DOMAIN csv : csv[i].k = c
                      /\ 0 \notin ToSet(raw[c].a) \cup ToSet(raw[c].b)
    BY DEF SuccessMeansComplete
  <2>1. pc = "done" /\ k = NumCombos /\ Len(results) = NumCombos /\ csv = results
    BY DEF ExitInv
  <2>2. DOMAIN results = Combo
    BY <2>1 DEF TypesOK, FilesOK, Combo
  <2>3. Decided = NumCombos
    BY <2>1 DEF Decided
  <2>4. results[c].k = c
    BY <2>1, <2>2, <2>3 DEF OrderInv, Ordered
  <2>5. Finished(c)
    BY <2>1 DEF Finished
  <2>6. Kept(results[c], raw[c])
    BY <2>2, <2>4, <2>5 DEF KeptInv
  <2> QED
    BY <2>1, <2>2, <2>4, <2>6 DEF Kept
<1> QED
  BY <1>1, <1>2, <1>3, TypesHold, ResultsInOrder, ArchivesKept, PTL DEF Spec

-----------------------------------------------------------------------------
(* The analysis of the archives                                            *)

\* s enumerates S upwards.
Enumerates(s, S) ==
    /\ s \in Seq(S) /\ ToSet(s) = S
    /\ \A i, j \in DOMAIN s : i < j => s[i] < s[j]

\* A set of numbers up to a bound can be enumerated.
LEMMA Enumeration ==
    ASSUME NEW N \in Nat, NEW S, \A x \in S : x \in 0..N
    PROVE  \E s : Enumerates(s, S)
<1> DEFINE Below(m) == {x \in S : x < m}
           G == {m \in 0..(N + 1) : \E s : Enumerates(s, Below(m))}
<1>0. \A x \in S : x \in Nat /\ x <= N
  OBVIOUS
<1>1. 0 \in G
  <2>1. Below(0) = {} /\ 0 \in 0..(N + 1)
    BY <1>0
  <2>2. Enumerates(<< >>, {})
    BY DEF Enumerates, ToSet
  <2> HIDE DEF Below
  <2> QED
    BY <2>1, <2>2
<1>2. ASSUME NEW m \in 1..(N + 1), m - 1 \in G PROVE m \in G
  <2>1. PICK s : Enumerates(s, Below(m - 1))
    BY <1>2
  <2>2. CASE m - 1 \notin S
    <3>1. Below(m) = Below(m - 1)
      BY <1>0, <2>2
    <3> HIDE DEF Below
    <3> QED
      BY <2>1, <3>1
  <2>3. CASE m - 1 \in S
    <3> DEFINE B == Below(m - 1)
               C == Below(m)
               t == Append(s, m - 1)
    <3>1. C = B \cup {m - 1} /\ \A x \in B : x \in Nat /\ x < m - 1
      BY <1>0, <2>3
    <3> HIDE DEF Below, B, C
    <3>2. /\ s \in Seq(B) /\ ToSet(s) = B /\ DOMAIN s = 1..Len(s) /\ Len(s) \in Nat
          /\ \A i, j \in 1..Len(s) : i < j => s[i] < s[j]
      BY <2>1 DEF Enumerates, B
    <3>3. s \in Seq(C) /\ m - 1 \in C
      BY <3>1, <3>2, SeqMonotonic
    <3>4. t \in Seq(C) /\ ToSet(t) = C
      BY <3>1, <3>2, <3>3, LineAdded
    <3>5. /\ DOMAIN t = 1..(Len(s) + 1) /\ t[Len(s) + 1] = m - 1
          /\ \A i \in 1..Len(s) : t[i] = s[i] /\ s[i] \in B
      BY <3>2, <3>3
    <3> HIDE DEF t
    <3>6. ASSUME NEW i \in DOMAIN t, NEW j \in DOMAIN t, i < j PROVE t[i] < t[j]
      <4>1. i \in 1..Len(s) /\ (j \in 1..Len(s) \/ j = Len(s) + 1)
        BY <3>2, <3>5, <3>6
      <4>2. CASE j = Len(s) + 1
        BY <3>1, <3>5, <4>1, <4>2
      <4>3. CASE j \in 1..Len(s)
        BY <3>2, <3>5, <3>6, <4>1, <4>3
      <4> QED
        BY <4>1, <4>2, <4>3
    <3>7. Enumerates(t, C)
      BY <3>4, <3>6 DEF Enumerates
    <3> QED
      BY <3>7 DEF C
  <2> QED
    BY <2>2, <2>3
<1>3. \A i \in 0..(N + 1) : i \in G
  <2>1. N + 1 \in Nat
    OBVIOUS
  <2> HIDE DEF G
  <2> QED
    BY <1>1, <1>2, <2>1, UpTo
<1>4. PICK s : Enumerates(s, Below(N + 1))
  <2>1. N + 1 \in 0..(N + 1)
    OBVIOUS
  <2> QED
    BY <1>3, <2>1
<1>5. Below(N + 1) = S
  BY <1>0
<1> HIDE DEF Below
<1> QED
  BY <1>4, <1>5

\* Grouping the lines by transaction, in the order of injection, gives each
\* transaction once.
LEMMA GroupedOnce ==
    ASSUME NEW N \in Nat, NEW lines \in Seq(0..N)
    PROVE  Enumerates(Grouped(lines), ToSet(lines)) /\ Grouped(lines) \in Seq(0..N)
           /\ Len(Grouped(lines)) = Cardinality(ToSet(lines))
<1> DEFINE S == ToSet(lines)
           n == Cardinality(S)
           Up(s) == \A i, j \in DOMAIN s : i < j => s[i] < s[j]
           g == Grouped(lines)
<1>1. \A x \in S : x \in 0..N
  BY DEF ToSet
<1>2. IsFiniteSet(S) /\ n \in Nat
  <2>1. IsFiniteSet(0..N)
    BY FS_Interval
  <2> HIDE DEF S
  <2>2. S \in SUBSET (0..N)
    BY <1>1, Zenon
  <2> QED
    BY <2>1, <2>2, FS_Subset, FS_CardinalityType
<1>3. g = CHOOSE s \in SetToSeqs(S) : Up(s)
  BY DEF Grouped
<1>4. SetToSeqs(S) = {f \in [1..n -> S] : \A i, j \in 1..n : i # j => f[i] # f[j]}
  BY DEF SetToSeqs
<1> HIDE DEF S, g
<1>5. PICK s : Enumerates(s, S)
  BY <1>1, Enumeration
<1>6. s \in SetToSeqs(S) /\ Up(s)
  <2> DEFINE l == Len(s)
  <2>1. /\ s \in [1..l -> S] /\ l \in Nat /\ DOMAIN s = 1..l /\ Up(s)
        /\ ToSet(s) = S
    BY <1>5 DEF Enumerates
  <2> HIDE DEF l
  <2>2. ASSUME NEW i \in 1..l, NEW j \in 1..l, i # j PROVE s[i] # s[j]
    <3>0. s[i] \in S /\ s[j] \in S
      BY <2>1
    <3>1. s[i] \in 0..N /\ s[j] \in 0..N
      BY <1>1, <3>0, Zenon
    <3>2. i < j \/ j < i
      BY <2>1, <2>2
    <3>3. s[i] < s[j] \/ s[j] < s[i]
      BY <2>1, <3>2
    <3> QED
      BY <3>1, <3>3
  <2>3. s \in Injection(1..l, S)
    BY <2>1, <2>2 DEF Injection, IsInjective
  <2>4. s \in Surjection(1..l, S)
    <3>1. \A x \in S : \E i \in 1..l : s[i] = x
      BY <2>1 DEF ToSet
    <3> QED
      BY <2>1, <3>1 DEF Surjection
  <2>5. Cardinality(1..l) = n
    BY <1>2, <2>3, <2>4, FS_Injection
  <2>6. Cardinality(1..l) = l
    BY <2>1, FS_Interval
  <2>7. l = n
    BY <2>5, <2>6
  <2> QED
    BY <1>4, <2>1, <2>2, <2>7
<1>7. g \in SetToSeqs(S) /\ Up(g)
  <2> HIDE DEF Up
  <2> QED
    BY <1>3, <1>6, Zenon
<1>8. g \in [1..n -> S] /\ \A i, j \in 1..n : i # j => g[i] # g[j]
  BY <1>4, <1>7
<1>9. g \in Seq(S) /\ Len(g) = n
  BY <1>2, <1>8
<1>10. ToSet(g) = S
  <2>1. g \in Injection(1..n, S)
    BY <1>8 DEF Injection, IsInjective
  <2>2. Cardinality(1..n) = n
    BY <1>2, FS_Interval
  <2>3. g \in Surjection(1..n, S)
    BY <1>2, <2>1, <2>2, FS_Injection
  <2>4. \A x \in S : \E i \in 1..n : g[i] = x
    BY <2>3 DEF Surjection
  <2> QED
    BY <1>8, <2>4 DEF ToSet
<1>11. g \in Seq(0..N)
  <2>1. S \subseteq 0..N
    BY <1>1, Zenon
  <2> QED
    BY <1>9, <2>1, SeqMonotonic
<1> QED
  BY <1>7, <1>9, <1>10, <1>11 DEF Enumerates, S, g

\* A transaction has at most one line in a grouped file, and one if it has any.
LEMMA OneLine ==
    ASSUME NEW S, \A y \in S : y \in Nat, NEW b, Enumerates(b, S), NEW x
    PROVE  Cardinality(Lines(b, x)) = IF x \in S THEN 1 ELSE 0
<1>1. b \in Seq(S) /\ DOMAIN b = 1..Len(b) /\ Len(b) \in Nat /\ ToSet(b) = S
  BY DEF Enumerates
<1>2. ASSUME NEW i \in DOMAIN b, NEW j \in DOMAIN b, i < j PROVE b[i] # b[j]
  <2>1. b[i] \in S /\ b[j] \in S
    BY <1>1
  <2>2. b[i] \in Nat /\ b[j] \in Nat
    BY <2>1, Zenon
  <2>3. b[i] < b[j]
    BY <1>2 DEF Enumerates
  <2> QED
    BY <2>2, <2>3
<1>3. \A i, j \in DOMAIN b : b[i] = b[j] => i = j
  BY <1>1, <1>2
<1>4. CASE x \notin S
  BY <1>1, <1>4, LinesCount
<1>5. CASE x \in S
  <2>1. PICK i \in DOMAIN b : b[i] = x
    BY <1>1, <1>5 DEF ToSet
  <2>2. Lines(b, x) = {i}
    BY <1>3, <2>1 DEF Lines
  <2> QED
    BY <1>5, <2>2, FS_Singleton
<1> QED
  BY <1>4, <1>5

\* Merging two grouped files gives at most one row for a transaction.
LEMMA MergedOnce ==
    ASSUME NEW S, NEW A, \A x \in A : x \in Nat, NEW B, \A x \in B : x \in Nat,
           NEW a \in Seq(S), NEW b \in Seq(S), Enumerates(a, A), Enumerates(b, B)
    PROVE  \A p, q \in DOMAIN Merge(a, b) : p # q => Merge(a, b)[p] # Merge(a, b)[q]
<1> DEFINE rows == Merge(a, b)
<1>1. rows \in Seq(S)
  BY MergeRows
<1>2. PICK end : RowsEnd(a, b, rows, end)
  BY MergeRows
<1> HIDE DEF rows
<1>3. Len(a) \in Nat /\ DOMAIN a = 1..Len(a) /\ DOMAIN rows = 1..Len(rows) /\ end \in [0..Len(a) -> Nat]
  BY <1>1, <1>2 DEF RowsEnd
<1>4. ASSUME NEW i \in 1..Len(a) PROVE end[i - 1] \in Nat /\ end[i] \in {end[i - 1], end[i - 1] + 1}
  <2>1. i - 1 \in 0..Len(a)
    BY <1>3
  <2>2. end[i - 1] \in Nat /\ end[i] = end[i - 1] + Cardinality(Lines(b, a[i]))
    BY <1>2, <1>3, <2>1 DEF RowsEnd
  <2>3. Cardinality(Lines(b, a[i])) \in {0, 1}
    BY OneLine
  <2> QED
    BY <2>2, <2>3
<1>5. ASSUME NEW i \in 1..Len(a), NEW j \in 1..Len(a), i # j PROVE a[i] # a[j]
  <2>1. a[i] \in A /\ a[j] \in A
    BY <1>3 DEF Enumerates
  <2>2. a[i] \in Nat /\ a[j] \in Nat
    BY <2>1, Zenon
  <2>3. i < j \/ j < i
    BY <1>3, <1>5
  <2>4. a[i] < a[j] \/ a[j] < a[i]
    BY <1>3, <2>3 DEF Enumerates
  <2> QED
    BY <2>2, <2>4
<1>6. ASSUME NEW p \in DOMAIN rows, NEW q \in DOMAIN rows, p # q PROVE rows[p] # rows[q]
  <2>1. PICK i \in 1..Len(a) : p \in (end[i - 1] + 1)..end[i]
    BY <1>2, <1>3 DEF RowsEnd
  <2>2. PICK j \in 1..Len(a) : q \in (end[j - 1] + 1)..end[j]
    BY <1>2, <1>3 DEF RowsEnd
  <2>3. rows[p] = a[i] /\ rows[q] = a[j]
    BY <1>2, <2>1, <2>2 DEF RowsEnd
  <2>4. p = end[i - 1] + 1 /\ q = end[j - 1] + 1
    <3>1. end[i - 1] \in Nat /\ end[i] \in {end[i - 1], end[i - 1] + 1}
      BY <1>4
    <3>2. end[j - 1] \in Nat /\ end[j] \in {end[j - 1], end[j - 1] + 1}
      BY <1>4
    <3>3. p = end[i - 1] + 1
      BY <2>1, <3>1
    <3>4. q = end[j - 1] + 1
      BY <2>2, <3>2
    <3> QED
      BY <3>3, <3>4
  <2>5. i # j
    BY <1>6, <2>4
  <2> QED
    BY <1>5, <2>3, <2>5
<1> QED
  BY <1>6 DEF rows

\* However often Gateway B logged a retried transaction, the analysis has one row
\* for it.
THEOREM AnalysisCountsOnce == Spec => []AnalysedOnce
<1>1. TypesOK => AnalysedOnce
  <2> SUFFICES ASSUME TypesOK, NEW c \in Combo
               PROVE  \A i, j \in DOMAIN MergedRows(raw[c]) :
                         i # j => MergedRows(raw[c])[i] # MergedRows(raw[c])[j]
    BY DEF AnalysedOnce
  <2> DEFINE N == NumCombos * EventCount
             f == raw[c]
  <2>1. f.a \in Seq(0..N) /\ f.b \in Seq(0..N)
    BY DEF TypesOK, FilesOK, LogFiles
  <2>2. N \in Nat
    BY Numbers, Combinations
  <2> HIDE DEF N, f
  <2>3. (\A x \in ToSet(f.a) : x \in Nat) /\ \A x \in ToSet(f.b) : x \in Nat
    <3>1. ASSUME NEW s \in Seq(0..N) PROVE \A x \in ToSet(s) : x \in Nat
      BY <2>2 DEF ToSet
    <3> QED
      BY <2>1, <3>1, Zenon
  <2>4. /\ Enumerates(Grouped(f.a), ToSet(f.a)) /\ Grouped(f.a) \in Seq(0..N)
        /\ Enumerates(Grouped(f.b), ToSet(f.b)) /\ Grouped(f.b) \in Seq(0..N)
    BY <2>1, <2>2, GroupedOnce
  <2>5. \A p, q \in DOMAIN Merge(Grouped(f.a), Grouped(f.b)) :
           p # q => Merge(Grouped(f.a), Grouped(f.b))[p] # Merge(Grouped(f.a), Grouped(f.b))[q]
    BY <2>3, <2>4, MergedOnce
  <2> QED
    BY <2>5 DEF MergedRows, f
<1> QED
  BY <1>1, TypesHold, PTL

\* The transactions of a combination follow one another.
LEMMA OwnInterval ==
    ASSUME NEW c \in Combo
    PROVE  LET x == (c - 1) * EventCount IN
           /\ x \in Nat
           /\ {t \in Tx : ComboOf(t) = c} = (x + 1)..(x + EventCount)
<1> DEFINE E == EventCount
           x == (c - 1) * E
           own == {t \in Tx : ComboOf(t) = c}
<1>1. E \in Nat \ {0} /\ c - 1 \in Nat /\ c \in Nat
  BY Combinations, Numbers
<1>2. x \in Nat /\ x = E * (c - 1)
  BY <1>1
<1>3. ASSUME NEW t \in own PROVE t \in (x + 1)..(x + E)
  <2>1. t \in Nat \ {0} /\ ((t - 1) \div E) + 1 = c
    BY Transactions DEF ComboOf
  <2>2. t - 1 \in Nat
    BY <2>1
  <2>3. /\ (t - 1) \div E \in Nat /\ (t - 1) % E \in 0..(E - 1)
        /\ t - 1 = E * ((t - 1) \div E) + ((t - 1) % E)
    BY <1>1, <2>2, Quotient
  <2> DEFINE q == (t - 1) \div E
             r == (t - 1) % E
  <2>4. q \in Nat /\ r \in 0..(E - 1) /\ t - 1 = E * q + r /\ q + 1 = c
    BY <2>1, <2>3
  <2> HIDE DEF q, r
  <2>5. q = c - 1
    BY <1>1, <2>4
  <2>6. t - 1 = x + r
    BY <1>2, <2>4, <2>5
  <2> HIDE DEF x, E
  <2> QED
    BY <1>1, <1>2, <2>1, <2>4, <2>6
<1>4. ASSUME NEW t \in (x + 1)..(x + E) PROVE t \in own
  <2> DEFINE j == t - x - 1
  <2>1. j \in 0..(EventCount - 1) /\ t = x + j + 1
    BY <1>1, <1>2
  <2> HIDE DEF j
  <2>2. (c - 1) * EventCount + j + 1 \in Tx /\ ComboOf((c - 1) * EventCount + j + 1) = c
    BY <2>1, OwnTransactions
  <2> QED
    BY <2>1, <2>2
<1> QED
  BY <1>2, <1>3, <1>4

\* The i-th of some numbers above x is at least x + i.
LEMMA AtLeast ==
    ASSUME NEW S, NEW x \in Nat, \A y \in S : y \in Nat /\ y > x, NEW s, Enumerates(s, S)
    PROVE  \A i \in 1..Len(s) : s[i] >= x + i
<1> DEFINE n == Len(s)
           G == {i \in 0..n : i = 0 \/ s[i] >= x + i}
<1>1. /\ n \in Nat /\ DOMAIN s = 1..n /\ \A i \in 1..n : s[i] \in S
      /\ \A i, j \in 1..n : i < j => s[i] < s[j]
  BY DEF Enumerates
<1> HIDE DEF n
<1>2. \A i \in 1..n : s[i] \in Nat /\ s[i] > x
  BY <1>1
<1>3. ASSUME NEW i \in 1..n, i - 1 \in G PROVE i \in G
  <2>1. CASE i = 1
    BY <1>1, <1>2, <2>1
  <2>2. CASE i # 1
    <3>1. i - 1 \in 1..n /\ i - 1 < i /\ i - 1 # 0
      BY <1>1, <2>2
    <3>2. s[i - 1] >= x + (i - 1) /\ s[i - 1] < s[i]
      BY <1>1, <1>3, <3>1
    <3>3. s[i - 1] \in Nat /\ s[i] \in Nat
      BY <1>2, <3>1
    <3>4. s[i] >= x + i
      BY <1>1, <3>2, <3>3
    <3> QED
      BY <1>1, <3>4
  <2> QED
    BY <2>1, <2>2
<1>4. \A i \in 0..n : i \in G
  <2>1. 0 \in G
    BY <1>1
  <2> HIDE DEF G
  <2> QED
    BY <1>1, <1>3, <2>1, UpTo
<1> QED
  BY <1>1, <1>4 DEF n

\* When the second file has every transaction of the first, merging the grouped
\* files gives the first.
LEMMA MergedAll ==
    ASSUME NEW S, NEW A, NEW B, \A x \in B : x \in Nat, A \subseteq B,
           NEW a \in Seq(S), NEW b \in Seq(S), Enumerates(a, A), Enumerates(b, B)
    PROVE  Len(Merge(a, b)) = Len(a) /\ \A p \in 1..Len(a) : Merge(a, b)[p] = a[p]
<1> DEFINE rows == Merge(a, b)
           n == Len(a)
<1>1. PICK end : RowsEnd(a, b, rows, end)
  BY MergeRows
<1> HIDE DEF rows
<1>2. n \in Nat /\ \A i \in 1..n : a[i] \in A
  BY DEF Enumerates
<1>3. ASSUME NEW i \in 1..n PROVE end[i] = end[i - 1] + 1
  <2>1. Cardinality(Lines(b, a[i])) = 1
    <3>1. a[i] \in B
      BY <1>2, <1>3
    <3> QED
      BY <3>1, OneLine
  <2> QED
    BY <1>1, <1>3, <2>1 DEF RowsEnd
<1> DEFINE G == {i \in 0..n : end[i] = i}
<1>4. \A i \in 0..n : i \in G
  <2>1. 0 \in G
    BY <1>1, <1>2 DEF RowsEnd
  <2>2. ASSUME NEW i \in 1..n, i - 1 \in G PROVE i \in G
    BY <1>2, <1>3, <2>2
  <2> HIDE DEF G
  <2> QED
    BY <1>2, <2>1, <2>2, UpTo
<1>5. Len(rows) = n
  <2>1. n \in 0..n
    BY <1>2
  <2> QED
    BY <1>1, <1>4, <2>1 DEF RowsEnd
<1>6. ASSUME NEW p \in 1..n PROVE rows[p] = a[p]
  <2>1. p - 1 \in 0..n /\ p \in 0..n
    BY <1>2
  <2>2. end[p - 1] = p - 1 /\ end[p] = p
    BY <1>4, <2>1
  <2>3. p \in (end[p - 1] + 1)..end[p]
    BY <1>2, <2>2
  <2> QED
    BY <1>1, <2>3 DEF RowsEnd
<1> QED
  BY <1>5, <1>6 DEF rows

\* Of a combination whose own transactions Gateway A has all acknowledged, and no
\* others, the analysis takes exactly Window events, none of them of the warm-up.
THEOREM WarmUpIsExcluded == Spec => []WarmUpExcluded
<1>1. TypesOK => WarmUpExcluded
  <2> DEFINE own(c) == {t \in Tx : ComboOf(t) = c}
  <2> SUFFICES ASSUME TypesOK, NEW c \in Combo, EventCount >= Discard + Window,
                      ToSet(raw[c].a) = own(c), own(c) \subseteq ToSet(raw[c].b)
               PROVE  /\ Len(Analysed(raw[c])) = Window
                      /\ \A i \in DOMAIN Analysed(raw[c]) :
                            (Analysed(raw[c])[i] - 1) % EventCount >= Discard
    BY DEF WarmUpExcluded
  <2> DEFINE N == NumCombos * EventCount
             f == raw[c]
             E == EventCount
             x == (c - 1) * E
             I == (x + 1)..(x + E)
             a == Grouped(f.a)
             b == Grouped(f.b)
             rows == Merge(a, b)
             T == 0..N
  <2>1. f.a \in Seq(T) /\ f.b \in Seq(T) /\ N \in Nat
    BY Numbers, Combinations DEF TypesOK, FilesOK, LogFiles
  <2>2. E \in Nat \ {0} /\ Discard \in Nat /\ Window \in Nat /\ x \in Nat
    BY Numbers, OwnInterval
  <2>3. ToSet(f.a) = I /\ I \subseteq ToSet(f.b)
    BY OwnInterval
  <2>4. MergedRows(f) = rows
    BY DEF MergedRows
  <2> HIDE DEF N, f, T, E, x
  <2>5. \A y \in I : y \in Nat /\ y > x /\ y <= x + E
    BY <2>2
  <2>6. Cardinality(I) = E
    <3>1. x + 1 \in Int /\ x + E \in Int /\ ~(x + 1 > x + E)
      BY <2>2
    <3>2. Cardinality((x + 1)..(x + E)) = (x + E) - (x + 1) + 1
      BY <3>1, FS_Interval
    <3>3. (x + E) - (x + 1) + 1 = E
      BY <2>2
    <3> QED
      BY <3>2, <3>3
  <2>7. \A y \in ToSet(f.b) : y \in Nat
    BY <2>1 DEF ToSet, T
  <2> HIDE DEF I
  <2>8. /\ Enumerates(a, I) /\ a \in Seq(T) /\ Len(a) = E
        /\ Enumerates(b, ToSet(f.b)) /\ b \in Seq(T)
    <3>1. /\ Enumerates(a, ToSet(f.a)) /\ a \in Seq(T) /\ Len(a) = Cardinality(ToSet(f.a))
      BY <2>1, GroupedOnce DEF T
    <3>2. Enumerates(b, ToSet(f.b)) /\ b \in Seq(T)
      BY <2>1, GroupedOnce DEF T
    <3> QED
      BY <2>3, <2>6, <3>1, <3>2
  <2> HIDE DEF a, b
  <2>9. Len(rows) = E /\ (\A p \in 1..E : rows[p] = a[p]) /\ rows \in Seq(T)
    <3>1. Len(rows) = Len(a) /\ \A p \in 1..Len(a) : rows[p] = a[p]
      BY <2>3, <2>7, <2>8, MergedAll
    <3>2. rows \in Seq(T)
      BY <2>8, MergeRows
    <3> QED
      BY <2>8, <3>1, <3>2
  <2> HIDE DEF rows
  <2>10. \A p \in 1..E : a[p] >= x + p /\ a[p] \in I
    <3>1. \A p \in 1..Len(a) : a[p] >= x + p
      BY <2>2, <2>5, <2>8, AtLeast
    <3>2. \A p \in 1..Len(a) : a[p] \in I
      BY <2>8 DEF Enumerates
    <3> QED
      BY <2>8, <3>1, <3>2
  <2> DEFINE w == SubSeq(rows, Discard + 1, Discard + Window)
  <2>11. E >= Discard + Window
    BY DEF E
  <2>12. Analysed(f) = w
    BY <2>4, <2>9, <2>11 DEF Analysed
  <2>13. w \in Seq(T) /\ Len(w) = Window /\ \A i \in 1..Window : w[i] = rows[Discard + i]
    <3>1. Discard + 1 \in 1..(Len(rows) + 1) /\ Discard + Window \in Discard..Len(rows)
      BY <2>2, <2>9, <2>11
    <3> QED
      BY <2>2, <2>9, <3>1
  <2> HIDE DEF w
  <2>14. ASSUME NEW i \in DOMAIN w PROVE (w[i] - 1) % E >= Discard
    <3>1. i \in 1..Window
      BY <2>13
    <3>2. Discard + i \in 1..E
      BY <2>2, <2>11, <3>1
    <3> DEFINE t == w[i]
               j == t - x - 1
    <3>3. t >= x + (Discard + i) /\ t \in I
      BY <2>9, <2>10, <2>13, <3>1, <3>2
    <3>4. t \in Nat /\ t <= x + E
      BY <2>5, <3>3
    <3> HIDE DEF t
    <3>5. j \in 0..(E - 1) /\ j >= Discard /\ t = x + j + 1
      BY <2>2, <3>1, <3>3, <3>4
    <3> HIDE DEF j
    <3>6. (((c - 1) * EventCount + j + 1) - 1) % EventCount = j
      BY <3>5, OwnTransactions DEF E
    <3>7. (t - 1) % E = j
      BY <3>5, <3>6 DEF x, E
    <3> QED
      BY <3>5, <3>7 DEF t
  <2> QED
    BY <2>12, <2>13, <2>14 DEF f, E
<1> QED
  BY <1>1, TypesHold, PTL
=============================================================================
