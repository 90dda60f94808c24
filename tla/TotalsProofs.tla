---------------------------- MODULE TotalsProofs ----------------------------
(***************************************************************************)
(* What recursion makes of a sequence of sizes, for sequences of every     *)
(* length.  The inductions are by the least counterexample, which is an    *)
(* element of a set of naturals (LeastNumber).                             *)
(***************************************************************************)
EXTENDS Totals, WellFoundedInduction, SequenceTheorems, TLAPS

(* Every nonempty set of naturals has a least element. *)
LEMMA LeastNumber ==
    ASSUME NEW S \in SUBSET Nat, S # {}
    PROVE  \E n \in S : \A m \in S : n <= m
<1> DEFINE R == {p \in Nat \X Nat : p[1] < p[2]}
<1>1. IsWellFoundedOn(R, Nat)
    BY NatLessThanWellFounded DEF OpToRel
<1>2. \A x, y \in Nat : x < y => <<x, y>> \in R
    OBVIOUS
<1> HIDE DEF R
<1>3. PICK n \in S : \A m \in S : ~(<<m, n>> \in R)
    BY <1>1, WFMin
<1>4. \A m \in S : ~(m < n)
    BY <1>2, <1>3
<1> QED
    BY <1>4

(* Induction over 0..n: a set that has 0, and with each number its successor, *)
(* has them all.                                                              *)
LEMMA UpTo ==
    ASSUME NEW n \in Nat, NEW S, 0 \in S, \A i \in 0..n : i \in S /\ i < n => i + 1 \in S
    PROVE  \A i \in 0..n : i \in S
<1> DEFINE Rest == (0..n) \ S
<1> SUFFICES ASSUME Rest # {} PROVE FALSE
    OBVIOUS
<1>1. Rest \in SUBSET Nat
    OBVIOUS
<1>2. \E m \in Rest : \A k \in Rest : m <= k
    <2> HIDE DEF Rest
    <2> QED
        BY <1>1, LeastNumber
<1>3. PICK m \in Rest : \A k \in Rest : m <= k
    BY <1>2
<1>4. m # 0 /\ m - 1 \in 0..n /\ m - 1 \notin Rest
    BY <1>3
<1>5. m - 1 \in S /\ m - 1 < n /\ (m - 1) + 1 = m
    BY <1>4
<1> QED
    BY <1>4, <1>5

-----------------------------------------------------------------------------
(* The totals are the function that their definition describes. *)
LEMMA RunningTotalsDef ==
    ASSUME NEW sizes \in Seq(Nat)
    PROVE  RunningTotals(sizes) =
             [n \in 0..Len(sizes) |-> IF n = 0 THEN 0
                                      ELSE RunningTotals(sizes)[n - 1] + sizes[n]]
<1> DEFINE Describes(f, m) == f = [n \in 0..m |-> IF n = 0 THEN 0 ELSE f[n - 1] + sizes[n]]
           S == {m \in 0..Len(sizes) : \E f : Describes(f, m)}
<1>0. Len(sizes) \in Nat
    OBVIOUS
<1>1. 0 \in S
    <2> DEFINE f == [n \in 0..0 |-> 0]
    <2>1. Describes(f, 0)
        OBVIOUS
    <2>2. 0 \in 0..Len(sizes)
        BY <1>0
    <2> HIDE DEF Describes, f
    <2>3. \E h : Describes(h, 0)
        BY <2>1
    <2> QED
        BY <2>2, <2>3
<1>2. ASSUME NEW m \in 0..Len(sizes), m \in S, m < Len(sizes) PROVE m + 1 \in S
    <2>1. PICK f : Describes(f, m)
        BY <1>2
    <2> DEFINE g == [n \in 0..m + 1 |-> IF n <= m THEN f[n] ELSE f[m] + sizes[m + 1]]
    <2>2. ASSUME NEW n \in 0..m + 1
          PROVE  g[n] = IF n = 0 THEN 0 ELSE g[n - 1] + sizes[n]
        <3> HIDE DEF g
        <3>1. CASE n = 0
            BY <2>1, <3>1 DEF g
        <3>2. CASE n # 0 /\ n <= m
            <4>1. n - 1 \in 0..m + 1 /\ n - 1 <= m /\ n \in 0..m
                BY <3>2
            <4>2. f[n] = f[n - 1] + sizes[n]
                BY <2>1, <3>2, <4>1
            <4> QED
                BY <3>2, <4>1, <4>2 DEF g
        <3>3. CASE n = m + 1
            BY <3>3 DEF g
        <3> QED
            BY <3>1, <3>2, <3>3
    <2>3. Describes(g, m + 1)
        BY <2>2
    <2>4. m + 1 \in 0..Len(sizes)
        BY <1>0, <1>2
    <2> HIDE DEF Describes, g
    <2>5. \E h : Describes(h, m + 1)
        BY <2>3
    <2> QED
        BY <2>4, <2>5
<1>3. Len(sizes) \in S
    <2> HIDE DEF S
    <2>1. \A i \in 0..Len(sizes) : i \in S /\ i < Len(sizes) => i + 1 \in S
        BY <1>2
    <2>2. \A i \in 0..Len(sizes) : i \in S
        BY <1>0, <1>1, <2>1, UpTo
    <2> QED
        BY <1>0, <2>2
<1>4. \E f : Describes(f, Len(sizes))
    BY <1>3
<1> HIDE DEF Describes
<1>5. RunningTotals(sizes) = CHOOSE f : Describes(f, Len(sizes))
    BY DEF RunningTotals, Describes
<1>6. Describes(RunningTotals(sizes), Len(sizes))
    BY <1>4, <1>5
<1> QED
    BY <1>6 DEF Describes

(* As its equations. *)
LEMMA RunningTotalsEquations ==
    ASSUME NEW sizes \in Seq(Nat)
    PROVE  /\ RunningTotals(sizes)[0] = 0
           /\ \A n \in 0..Len(sizes) : n < Len(sizes) =>
                RunningTotals(sizes)[n + 1] = RunningTotals(sizes)[n] + sizes[n + 1]
<1> DEFINE t == RunningTotals(sizes)
<1>1. Len(sizes) \in Nat
    OBVIOUS
<1>2. \A n \in 0..Len(sizes) : t[n] = IF n = 0 THEN 0 ELSE t[n - 1] + sizes[n]
    <2>1. t = [n \in 0..Len(sizes) |-> IF n = 0 THEN 0 ELSE t[n - 1] + sizes[n]]
        BY RunningTotalsDef
    <2> HIDE DEF t
    <2> QED
        BY <2>1
<1> HIDE DEF t
<1>3. t[0] = 0
    BY <1>1, <1>2
<1>4. ASSUME NEW n \in 0..Len(sizes), n < Len(sizes) PROVE t[n + 1] = t[n] + sizes[n + 1]
    <2>1. n + 1 \in 0..Len(sizes) /\ n + 1 # 0 /\ (n + 1) - 1 = n
        BY <1>1, <1>4
    <2> QED
        BY <1>2, <2>1
<1> QED
    BY <1>3, <1>4 DEF t

LEMMA RunningTotalsType ==
    ASSUME NEW sizes \in Seq(Nat)
    PROVE  \A n \in 0..Len(sizes) : RunningTotals(sizes)[n] \in Nat
<1> DEFINE t == RunningTotals(sizes)
           S == {n \in 0..Len(sizes) : t[n] \in Nat}
<1>1. Len(sizes) \in Nat /\ \A n \in 1..Len(sizes) : sizes[n] \in Nat
    OBVIOUS
<1>2. t[0] = 0 /\ \A n \in 0..Len(sizes) : n < Len(sizes) => t[n + 1] = t[n] + sizes[n + 1]
    BY RunningTotalsEquations
<1> HIDE DEF t
<1>3. 0 \in S
    BY <1>1, <1>2
<1>4. \A i \in 0..Len(sizes) : i \in S /\ i < Len(sizes) => i + 1 \in S
    BY <1>1, <1>2
<1>5. \A i \in 0..Len(sizes) : i \in S
    <2> HIDE DEF S
    <2> QED
        BY <1>1, <1>3, <1>4, UpTo
<1> QED
    BY <1>5 DEF t

(* Sizes are added, never taken away. *)
LEMMA RunningTotalsGrow ==
    ASSUME NEW sizes \in Seq(Nat)
    PROVE  \A m, n \in 0..Len(sizes) : m <= n => RunningTotals(sizes)[m] <= RunningTotals(sizes)[n]
<1> DEFINE t == RunningTotals(sizes)
           S == {n \in 0..Len(sizes) : \A m \in 0..n : t[m] <= t[n]}
<1>1. Len(sizes) \in Nat /\ \A n \in 1..Len(sizes) : sizes[n] \in Nat
    OBVIOUS
<1>2. \A n \in 0..Len(sizes) : n < Len(sizes) => t[n + 1] = t[n] + sizes[n + 1]
    BY RunningTotalsEquations
<1>3. \A n \in 0..Len(sizes) : t[n] \in Nat
    BY RunningTotalsType
<1> HIDE DEF t
<1>4. 0 \in S
    BY <1>1, <1>3
<1>5. ASSUME NEW n \in 0..Len(sizes), n \in S, n < Len(sizes) PROVE n + 1 \in S
    <2>1. n + 1 \in 0..Len(sizes) /\ n \in Nat /\ sizes[n + 1] \in Nat
        BY <1>1, <1>5
    <2>2. t[n] <= t[n + 1]
        BY <1>2, <1>3, <1>5, <2>1
    <2>3. ASSUME NEW m \in 0..n + 1 PROVE t[m] <= t[n + 1]
        <3>1. CASE m = n + 1
            BY <1>3, <2>1, <3>1
        <3>2. CASE m \in 0..n
            <4>1. t[m] <= t[n]
                BY <1>5, <3>2
            <4>2. m \in 0..Len(sizes)
                BY <1>1, <1>5, <3>2
            <4> QED
                BY <1>3, <2>1, <2>2, <4>1, <4>2
        <3> QED
            BY <3>1, <3>2
    <2> QED
        BY <2>1, <2>3
<1>6. \A i \in 0..Len(sizes) : i \in S
    <2> HIDE DEF S
    <2> QED
        BY <1>1, <1>4, <1>5, UpTo
<1>7. ASSUME NEW m \in 0..Len(sizes), NEW n \in 0..Len(sizes), m <= n PROVE t[m] <= t[n]
    <2>1. n \in S /\ m \in 0..n
        BY <1>6, <1>7
    <2> QED
        BY <2>1
<1> QED
    BY <1>7 DEF t

(* The total of the first n sizes depends on no other. *)
LEMMA RunningTotalsAgree ==
    ASSUME NEW s \in Seq(Nat), NEW u \in Seq(Nat), NEW n \in 0..Len(s), n <= Len(u),
           \A i \in 1..n : s[i] = u[i]
    PROVE  RunningTotals(s)[n] = RunningTotals(u)[n]
<1> DEFINE t == RunningTotals(s)
           v == RunningTotals(u)
           S == {m \in 0..n : t[m] = v[m]}
<1>1. Len(s) \in Nat /\ Len(u) \in Nat /\ n \in Nat
    OBVIOUS
<1>2. t[0] = 0 /\ \A m \in 0..Len(s) : m < Len(s) => t[m + 1] = t[m] + s[m + 1]
    BY RunningTotalsEquations
<1>3. v[0] = 0 /\ \A m \in 0..Len(u) : m < Len(u) => v[m + 1] = v[m] + u[m + 1]
    BY RunningTotalsEquations
<1> HIDE DEF t, v
<1>4. 0 \in S
    BY <1>1, <1>2, <1>3
<1>5. ASSUME NEW m \in 0..n, m \in S, m < n PROVE m + 1 \in S
    <2>1. /\ m \in 0..Len(s) /\ m < Len(s) /\ m \in 0..Len(u) /\ m < Len(u)
          /\ m + 1 \in 0..n /\ m + 1 \in 1..n
        BY <1>1, <1>5
    <2>2. t[m + 1] = t[m] + s[m + 1] /\ v[m + 1] = v[m] + u[m + 1]
        BY <1>2, <1>3, <2>1
    <2>3. t[m] = v[m] /\ s[m + 1] = u[m + 1]
        BY <1>5, <2>1
    <2> QED
        BY <2>1, <2>2, <2>3
<1>6. \A m \in 0..n : m \in S
    <2> HIDE DEF S
    <2> QED
        BY <1>1, <1>4, <1>5, UpTo
<1> QED
    BY <1>1, <1>6 DEF t, v

-----------------------------------------------------------------------------
LEMMA TotalType ==
    ASSUME NEW sizes \in Seq(Nat)
    PROVE  Total(sizes) \in Nat
<1>1. Len(sizes) \in 0..Len(sizes)
    OBVIOUS
<1> QED
    BY <1>1, RunningTotalsType DEF Total

LEMMA TotalOfNone == Total(<<>>) = 0
<1>1. <<>> \in Seq(Nat) /\ Len(<<>>) = 0
    OBVIOUS
<1> QED
    BY <1>1, RunningTotalsEquations DEF Total

LEMMA TotalOfAppend ==
    ASSUME NEW sizes \in Seq(Nat), NEW size \in Nat
    PROVE  Total(Append(sizes, size)) = Total(sizes) + size
<1> DEFINE more == Append(sizes, size)
           n == Len(sizes)
<1>1. /\ more \in Seq(Nat) /\ n \in Nat /\ Len(more) = n + 1 /\ more[n + 1] = size
      /\ \A i \in 1..n : more[i] = sizes[i]
    OBVIOUS
<1> HIDE DEF more
<1>2. RunningTotals(more)[n + 1] = RunningTotals(more)[n] + more[n + 1]
    <2>1. n \in 0..Len(more) /\ n < Len(more)
        BY <1>1
    <2> QED
        BY <1>1, <2>1, RunningTotalsEquations
<1>3. RunningTotals(more)[n] = RunningTotals(sizes)[n]
    <2>1. n \in 0..Len(more) /\ n <= Len(sizes)
        BY <1>1
    <2> HIDE DEF n
    <2> QED
        BY <1>1, <2>1, RunningTotalsAgree
<1> QED
    BY <1>1, <1>2, <1>3 DEF Total, more

(* The total of a first part is one of the running totals. *)
LEMMA TotalOfPart ==
    ASSUME NEW sizes \in Seq(Nat), NEW n \in 0..Len(sizes)
    PROVE  Total(SubSeq(sizes, 1, n)) = RunningTotals(sizes)[n]
<1> DEFINE part == SubSeq(sizes, 1, n)
<1>1. n \in Nat /\ Len(sizes) \in Nat /\ n <= Len(sizes)
    OBVIOUS
<1>2. part \in Seq(Nat) /\ Len(part) = n /\ \A i \in 1..n : part[i] = sizes[i]
    BY <1>1
<1> HIDE DEF part
<1>3. n \in 0..Len(part) /\ n <= Len(sizes)
    BY <1>1, <1>2
<1>4. RunningTotals(part)[n] = RunningTotals(sizes)[n]
    BY <1>2, <1>3, RunningTotalsAgree
<1> QED
    BY <1>2, <1>4 DEF Total, part
=============================================================================
