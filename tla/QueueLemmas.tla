------------------------------ MODULE QueueLemmas ------------------------------
(***************************************************************************)
(* Facts about the operators of the community modules that the models use: *)
(* the least and the greatest of a set of prices or positions, what is     *)
(* left of a queue when one element is taken out, sums over finite sets,   *)
(* and ranks in a finite order.                                            *)
(***************************************************************************)
EXTENDS Integers, SequencesExt, FiniteSetTheorems,
        WellFoundedInduction, SequenceTheorems, TLAPS

\* A set of naturals that is not empty has a least element, and Min is it.
LEMMA MinProperties ==
    ASSUME NEW S, S \subseteq Nat, S # {}
    PROVE  /\ Min(S) \in S
           /\ \A y \in S : Min(S) <= y
<1>1. PICK x \in S : \A y \in S : ~ (<<y, x>> \in OpToRel(<, Nat))
    BY NatLessThanWellFounded, WFMin
<1>2. ASSUME NEW y \in S PROVE x <= y
    <2>1. /\ y \in Nat
          /\ x \in Nat
          /\ <<y, x>> \in Nat \X Nat
          OBVIOUS
    <2>2. ~ (y < x)
        <3>1. SUFFICES ASSUME y < x PROVE <<y, x>> \in OpToRel(<, Nat)
            BY <1>1
        <3> QED
            BY <2>1, <3>1 DEF OpToRel
    <2> QED
        BY <2>1, <2>2
<1> QED
    BY <1>2 DEF Min

\* A bounded set of naturals that is not empty has a greatest element, and Max is it.
LEMMA MaxProperties ==
    ASSUME NEW S, S \subseteq Nat, S # {}, NEW n \in Nat, \A y \in S : y <= n
    PROVE  /\ Max(S) \in S
           /\ \A y \in S : y <= Max(S)
<1> DEFINE bounds == {m \in Nat : \A y \in S : y <= m}
           m == Min(bounds)
<1>1. bounds \subseteq Nat /\ bounds # {}
    OBVIOUS
<1>2. m \in bounds /\ \A k \in bounds : m <= k
    BY <1>1, MinProperties
<1> HIDE DEF m
<1>3. m \in Nat /\ \A y \in S : y <= m
    BY <1>2
<1>4. m \in S
    <2> SUFFICES ASSUME m \notin S PROVE FALSE
        OBVIOUS
    <2>1. \A y \in S : y < m
        BY <1>3
    <2>2. PICK y \in S : TRUE
        OBVIOUS
    <2>3. m - 1 \in Nat /\ \A z \in S : z <= m - 1
        BY <1>3, <2>1, <2>2
    <2>4. m <= m - 1
        BY <1>2, <2>3
    <2> QED
        BY <1>3, <2>4
<1>5. \E x \in S : \A y \in S : x >= y
    BY <1>3, <1>4
<1>6. Max(S) \in S /\ \A y \in S : Max(S) >= y
    BY <1>5 DEF Max
<1> QED
    BY <1>6

\* RemoveAt takes out one element and closes the gap.
LEMMA RemoveAtProperties ==
    ASSUME NEW S, NEW s \in Seq(S), NEW k \in 1 .. Len(s)
    PROVE  /\ RemoveAt(s, k) \in Seq(S)
           /\ Len(RemoveAt(s, k)) = Len(s) - 1
           /\ \A i \in 1 .. Len(s) - 1 :
                RemoveAt(s, k)[i] = IF i < k THEN s[i] ELSE s[i + 1]
<1> DEFINE front == SubSeq(s, 1, k - 1)
           back == SubSeq(s, k + 1, Len(s))
<1>1. Len(s) \in Nat /\ k \in Nat /\ k >= 1 /\ k <= Len(s)
    BY LenProperties
<1>2. \A i \in 1 .. Len(s) : s[i] \in S
    BY ElementOfSeq
<1>3. /\ front \in Seq(S)
      /\ Len(front) = k - 1
      /\ \A i \in 1 .. k - 1 : front[i] = s[i]
    <2>1. \A i \in 1 .. k - 1 : s[i] \in S
        BY <1>1, <1>2
    <2>2. 1 \in Int /\ k - 1 \in Int
        BY <1>1
    <2>3. /\ front \in Seq(S)
          /\ Len(front) = IF 1 <= k - 1 THEN k - 1 - 1 + 1 ELSE 0
          /\ \A i \in 1 .. k - 1 - 1 + 1 : front[i] = s[1 + i - 1]
        BY <2>1, <2>2, SubSeqProperties
    <2>4. \A i \in 1 .. k - 1 : i \in 1 .. k - 1 - 1 + 1 /\ 1 + i - 1 = i
        BY <1>1
    <2> QED
        BY <2>3, <2>4, <1>1
<1>4. /\ back \in Seq(S)
      /\ Len(back) = Len(s) - k
      /\ \A i \in 1 .. Len(s) - k : back[i] = s[k + i]
    <2>1. \A i \in k + 1 .. Len(s) : s[i] \in S
        BY <1>1, <1>2
    <2>2. k + 1 \in Int /\ Len(s) \in Int
        BY <1>1
    <2>3. /\ back \in Seq(S)
          /\ Len(back) = IF k + 1 <= Len(s) THEN Len(s) - (k + 1) + 1 ELSE 0
          /\ \A i \in 1 .. Len(s) - (k + 1) + 1 : back[i] = s[k + 1 + i - 1]
        BY <2>1, <2>2, SubSeqProperties
    <2>4. \A i \in 1 .. Len(s) - k : i \in 1 .. Len(s) - (k + 1) + 1 /\ k + 1 + i - 1 = k + i
        BY <1>1
    <2> QED
        BY <2>3, <2>4, <1>1
<1> HIDE DEF front, back
<1>5. /\ front \o back \in Seq(S)
      /\ Len(front \o back) = Len(front) + Len(back)
      /\ \A i \in 1 .. Len(front) + Len(back) :
            (front \o back)[i] = IF i <= Len(front) THEN front[i] ELSE back[i - Len(front)]
    BY <1>3, <1>4, ConcatProperties
<1>6. Len(front) + Len(back) = Len(s) - 1
    BY <1>1, <1>3, <1>4
<1>7. ASSUME NEW i \in 1 .. Len(s) - 1
      PROVE  (front \o back)[i] = IF i < k THEN s[i] ELSE s[i + 1]
    <2>1. CASE i < k
        BY <2>1, <1>1, <1>3, <1>5, <1>6
    <2>2. CASE i >= k
        <3>1. ~ (i <= Len(front)) /\ i - Len(front) \in 1 .. Len(s) - k
            BY <2>2, <1>1, <1>3
        <3>2. k + (i - Len(front)) = i + 1
            BY <1>1, <1>3
        <3> QED
            BY <2>2, <3>1, <3>2, <1>1, <1>4, <1>5, <1>6
    <2>3. i < k \/ i >= k
        BY <1>1
    <2> QED
        BY <2>1, <2>2, <2>3
<1>8. RemoveAt(s, k) = front \o back
    BY DEF RemoveAt, front, back
<1> QED
    BY <1>5, <1>6, <1>7, <1>8

-------------------------------------------------------------------------------
(* Sums over finite sets *)

\* Induction over the subsets of a finite set, with a set in place of a
\* predicate: what holds of a set whenever it holds of all that are smaller
\* holds of every one.
LEMMA SmallerSetsFirst ==
    ASSUME NEW S, IsFiniteSet(S), NEW P,
           \A T \in SUBSET S :
                (\A U \in SUBSET T : U # T => U \in P) => T \in P
    PROVE  S \in P
<1> DEFINE Bad == {T \in SUBSET S : T \notin P}
           sizes == {Cardinality(T) : T \in Bad}
<1>1. \A T \in SUBSET S : IsFiniteSet(T) /\ Cardinality(T) \in Nat
    BY FS_Subset, FS_CardinalityType
<1>2. sizes \subseteq Nat
    BY <1>1
<1> SUFFICES ASSUME S \notin P PROVE FALSE
    OBVIOUS
<1>3. sizes # {}
    OBVIOUS
<1>4. Min(sizes) \in sizes /\ \A m \in sizes : Min(sizes) <= m
    <2> HIDE DEF sizes
    <2> QED
        BY <1>2, <1>3, MinProperties
<1>5. PICK T \in Bad : Cardinality(T) = Min(sizes)
    BY <1>4
<1>6. PICK U \in SUBSET T : U # T /\ U \notin P
    OBVIOUS
<1>7. U \in Bad /\ Cardinality(U) \in sizes
    BY <1>6
<1>8. Cardinality(U) < Cardinality(T)
    BY <1>1, <1>5, <1>6, <1>7, FS_Subset
<1>9. Cardinality(U) \in Nat /\ Cardinality(T) \in Nat
    BY <1>1, <1>5, <1>6
<1> QED
    BY <1>4, <1>5, <1>7, <1>8, <1>9

\* What h says is the sum of f over each subset of S.
Sums(f, S, h) ==
    h = [s \in SUBSET S |-> IF s = {} THEN 0
                            ELSE f[CHOOSE x \in s : TRUE] + h[s \ {CHOOSE x \in s : TRUE}]]

\* SumFunctionOnSet is a sum in that sense.
LEMMA SumIsOne ==
    ASSUME NEW f, NEW S
    PROVE  SumFunctionOnSet(f, S) = (CHOOSE h : Sums(f, S, h))[S]
BY DEF SumFunctionOnSet, FoldFunctionOnSet, MapThenFoldSet, Sums

\* The sums of sets of up to n elements, for each n.
LEMMA SumsExist ==
    ASSUME NEW f, NEW S, IsFiniteSet(S)
    PROVE  \E h : Sums(f, S, h)
<1> DEFINE Next(s, h) == IF s = {} THEN 0
                         ELSE f[CHOOSE x \in s : TRUE] + h[s \ {CHOOSE x \in s : TRUE}]
           UpTo(n, h) == \A s \in SUBSET S : Cardinality(s) <= n => h[s] = Next(s, h)
           Bad == {n \in Nat : ~\E h : UpTo(n, h)}
<1>1. \A s \in SUBSET S : IsFiniteSet(s) /\ Cardinality(s) \in Nat /\ Cardinality(s) <= Cardinality(S)
    BY FS_Subset, FS_CardinalityType
<1>2. \A s \in SUBSET S : s # {} =>
            LET x == CHOOSE x \in s : TRUE
            IN  x \in s /\ s \ {x} \in SUBSET S /\ Cardinality(s \ {x}) = Cardinality(s) - 1
    BY <1>1, FS_RemoveElement
<1>3. Bad = {}
    <2> SUFFICES ASSUME Bad # {} PROVE FALSE
        OBVIOUS
    <2>1. PICK n \in Bad : \A m \in Bad : n <= m
        <3>1. Bad \subseteq Nat
            OBVIOUS
        <3> HIDE DEF Bad
        <3> QED
            BY <3>1, MinProperties
    <2>4. n \in Nat /\ ~\E h : UpTo(n, h)
        BY <2>1
    <2>2. CASE n = 0
        <3>1. UpTo(0, [s \in SUBSET S |-> 0])
            <4> SUFFICES ASSUME NEW s \in SUBSET S, Cardinality(s) <= 0
                         PROVE  [t \in SUBSET S |-> 0][s] = Next(s, [t \in SUBSET S |-> 0])
                OBVIOUS
            <4>1. s = {}
                BY <1>1, FS_EmptySet
            <4> QED
                BY <4>1
        <3> QED
            BY <2>2, <2>4, <3>1
    <2>3. CASE n # 0
        <3>1. n - 1 \in Nat /\ ~(n <= n - 1)
            BY <2>3, <2>4
        <3>2. n - 1 \notin Bad
            BY <2>1, <3>1
        <3>3. PICK h : UpTo(n - 1, h)
            <4> HIDE DEF UpTo
            <4> QED
                BY <3>1, <3>2
        <3> DEFINE g == [s \in SUBSET S |-> IF Cardinality(s) <= n - 1 THEN h[s] ELSE Next(s, h)]
        <3>4. \A s \in SUBSET S : g[s] = Next(s, h)
            BY <3>3
        <3>5. UpTo(n, g)
            <4> SUFFICES ASSUME NEW s \in SUBSET S, Cardinality(s) <= n
                         PROVE  g[s] = Next(s, g)
                OBVIOUS
            <4>1. CASE s = {}
                BY <3>4, <4>1
            <4>2. CASE s # {}
                <5> DEFINE x == CHOOSE x \in s : TRUE
                <5>1. s \ {x} \in SUBSET S /\ Cardinality(s \ {x}) = Cardinality(s) - 1
                    BY <1>2, <4>2
                <5>2. Cardinality(s \ {x}) <= n - 1
                    BY <5>1, <1>1, <2>4
                <5>3. g[s \ {x}] = h[s \ {x}]
                    BY <5>1, <5>2
                <5> QED
                    BY <3>4, <4>2, <5>3
            <4> QED
                BY <4>1, <4>2
        <3> QED
            BY <3>5, <2>4
    <2> QED
        BY <2>2, <2>3
<1>4. Cardinality(S) \in Nat
    BY <1>1
<1>5. PICK h : UpTo(Cardinality(S), h)
    <2>1. Cardinality(S) \notin Bad
        BY <1>3
    <2> HIDE DEF UpTo
    <2> QED
        BY <1>4, <2>1
<1> DEFINE g == [s \in SUBSET S |-> h[s]]
<1>6. \A s \in SUBSET S : g[s] = Next(s, g)
    <2> SUFFICES ASSUME NEW s \in SUBSET S PROVE g[s] = Next(s, g)
        OBVIOUS
    <2>1. h[s] = Next(s, h)
        BY <1>1, <1>5
    <2>2. s # {} => g[s \ {CHOOSE x \in s : TRUE}] = h[s \ {CHOOSE x \in s : TRUE}]
        BY <1>2
    <2> QED
        BY <2>1, <2>2
<1>7. g = [s \in SUBSET S |-> Next(s, g)]
    <2> HIDE DEF Next
    <2>1. DOMAIN [s \in SUBSET S |-> Next(s, g)] = SUBSET S
        OBVIOUS
    <2> QED
        BY <1>6, <2>1
<1> QED
    BY <1>7 DEF Sums

\* The first element chosen, and the rest.
LEMMA SumChosen ==
    ASSUME NEW f, NEW S, IsFiniteSet(S), NEW h, Sums(f, S, h), NEW s \in SUBSET S
    PROVE  h[s] = SumFunctionOnSet(f, s)
<1> DEFINE Pick(t) == CHOOSE x \in t : TRUE
<1>1. IsFiniteSet(s)
    BY FS_Subset
<1>2. \A t \in SUBSET S : h[t] = IF t = {} THEN 0 ELSE f[Pick(t)] + h[t \ {Pick(t)}]
    BY DEF Sums
<1>3. ASSUME NEW t \in SUBSET S, NEW g, Sums(f, t, g)
      PROVE  \A u \in SUBSET t : g[u] = IF u = {} THEN 0 ELSE f[Pick(u)] + g[u \ {Pick(u)}]
    BY <1>3 DEF Sums
<1>4. \A t : t # {} => Pick(t) \in t
    OBVIOUS
<1> HIDE DEF Pick
<1>5. ASSUME NEW t \in SUBSET S, NEW g, Sums(f, t, g) PROVE g[t] = h[t]
    <2>4. \A u \in SUBSET t : g[u] = IF u = {} THEN 0 ELSE f[Pick(u)] + g[u \ {Pick(u)}]
        BY <1>3, <1>5
    <2> DEFINE Agree == {u \in SUBSET t : g[u] = h[u]}
    <2>1. ASSUME NEW u \in SUBSET t, \A v \in SUBSET u : v # u => v \in Agree
          PROVE  u \in Agree
        <3>1. CASE u = {}
            BY <1>2, <2>4, <3>1
        <3>2. CASE u # {}
            <4>1. u \ {Pick(u)} \in SUBSET u /\ u \ {Pick(u)} # u
                BY <1>4, <3>2
            <4>2. g[u \ {Pick(u)}] = h[u \ {Pick(u)}]
                BY <2>1, <4>1
            <4>3. g[u] = f[Pick(u)] + g[u \ {Pick(u)}]
                BY <2>4, <3>2
            <4>4. h[u] = f[Pick(u)] + h[u \ {Pick(u)}]
                BY <1>2, <3>2
            <4> QED
                BY <4>2, <4>3, <4>4
        <3> QED
            BY <3>1, <3>2
    <2>2. IsFiniteSet(t)
        BY FS_Subset
    <2>3. t \in Agree
        <3> HIDE DEF Agree
        <3> QED
            BY <2>1, <2>2, SmallerSetsFirst
    <2> QED
        BY <2>3
<1>6. Sums(f, s, CHOOSE g : Sums(f, s, g))
    BY <1>1, SumsExist
<1> QED
    BY <1>5, <1>6, SumIsOne

\* The empty sum.
LEMMA SumOfEmpty ==
    ASSUME NEW f
    PROVE  SumFunctionOnSet(f, {}) = 0
<1>1. PICK h : Sums(f, {}, h)
    BY SumsExist, FS_EmptySet
<1>2. h[{}] = 0
    BY <1>1 DEF Sums
<1> QED
    BY <1>1, <1>2, SumChosen, FS_EmptySet

\* A sum is one of its terms and the sum of the rest.
LEMMA SumUnfolds ==
    ASSUME NEW f, NEW S, IsFiniteSet(S), S # {}
    PROVE  \E x \in S : SumFunctionOnSet(f, S) = f[x] + SumFunctionOnSet(f, S \ {x})
<1>1. PICK h : Sums(f, S, h)
    BY SumsExist
<1>2. (CHOOSE x \in S : TRUE) \in S
    OBVIOUS
<1>3. h[S] = f[CHOOSE x \in S : TRUE] + h[S \ {CHOOSE x \in S : TRUE}]
    BY <1>1 DEF Sums
<1>5. PICK x \in S : h[S] = f[x] + h[S \ {x}]
    BY <1>2, <1>3
<1>4. h[S] = SumFunctionOnSet(f, S) /\ h[S \ {x}] = SumFunctionOnSet(f, S \ {x})
    <2>1. \A s \in SUBSET S : h[s] = SumFunctionOnSet(f, s)
        BY <1>1, SumChosen
    <2> QED
        BY <2>1
<1> QED
    BY <1>4, <1>5

\* A sum of integers is an integer.
LEMMA SumIsInt ==
    ASSUME NEW f, NEW S, IsFiniteSet(S), \A x \in S : f[x] \in Int
    PROVE  SumFunctionOnSet(f, S) \in Int
<1> DEFINE P == {T \in SUBSET S : SumFunctionOnSet(f, T) \in Int}
<1>1. ASSUME NEW T \in SUBSET S, \A U \in SUBSET T : U # T => U \in P
      PROVE  T \in P
    <2>1. CASE T = {}
        BY <2>1, SumOfEmpty
    <2>2. CASE T # {}
        <3>1. PICK x \in T : SumFunctionOnSet(f, T) = f[x] + SumFunctionOnSet(f, T \ {x})
            BY <2>2, SumUnfolds, FS_Subset
        <3>2. T \ {x} \in P
            BY <1>1
        <3> QED
            BY <3>1, <3>2
    <2> QED
        BY <2>1, <2>2
<1>2. S \in P
    <2> HIDE DEF P
    <2> QED
        BY <1>1, SmallerSetsFirst
<1> QED
    BY <1>2

\* A sum of zeros.
LEMMA SumOfZeros ==
    ASSUME NEW f, NEW S, IsFiniteSet(S), \A x \in S : f[x] = 0
    PROVE  SumFunctionOnSet(f, S) = 0
<1> DEFINE P == {T \in SUBSET S : SumFunctionOnSet(f, T) = 0}
<1>1. ASSUME NEW T \in SUBSET S, \A U \in SUBSET T : U # T => U \in P
      PROVE  T \in P
    <2>1. CASE T = {}
        BY <2>1, SumOfEmpty
    <2>2. CASE T # {}
        <3>1. PICK x \in T : SumFunctionOnSet(f, T) = f[x] + SumFunctionOnSet(f, T \ {x})
            BY <2>2, SumUnfolds, FS_Subset
        <3>2. T \ {x} \in P
            BY <1>1
        <3> QED
            BY <3>1, <3>2
    <2> QED
        BY <2>1, <2>2
<1>2. S \in P
    <2> HIDE DEF P
    <2> QED
        BY <1>1, SmallerSetsFirst
<1> QED
    BY <1>2

\* Any element may be taken out first.
LEMMA SumTakeOut ==
    ASSUME NEW f, NEW S, IsFiniteSet(S), \A x \in S : f[x] \in Int, NEW a \in S
    PROVE  SumFunctionOnSet(f, S) = f[a] + SumFunctionOnSet(f, S \ {a})
<1> DEFINE Total(T) == SumFunctionOnSet(f, T)
           P == {T \in SUBSET S : \A x \in T : Total(T) = f[x] + Total(T \ {x})}
<1>1. \A T \in SUBSET S : IsFiniteSet(T) /\ Total(T) \in Int
    BY FS_Subset, SumIsInt
<1>2. \A T \in SUBSET S : T # {} => \E x \in T : Total(T) = f[x] + Total(T \ {x})
    BY <1>1, SumUnfolds
<1> HIDE DEF Total
<1>3. ASSUME NEW T \in SUBSET S, \A U \in SUBSET T : U # T => U \in P
      PROVE  T \in P
    <2> SUFFICES ASSUME NEW x \in T PROVE Total(T) = f[x] + Total(T \ {x})
        OBVIOUS
    <2>1. PICK y \in T : Total(T) = f[y] + Total(T \ {y})
        BY <1>2
    <2>2. CASE x = y
        BY <2>1, <2>2
    <2>3. CASE x # y
        <3>1. T \ {x} \in P /\ T \ {y} \in P
            BY <1>3
        <3>2. Total(T \ {y}) = f[x] + Total((T \ {y}) \ {x})
            BY <2>3, <3>1
        <3>3. Total(T \ {x}) = f[y] + Total((T \ {x}) \ {y})
            BY <2>3, <3>1
        <3>4. (T \ {y}) \ {x} = (T \ {x}) \ {y}
            OBVIOUS
        <3>5. f[x] \in Int /\ f[y] \in Int /\ Total((T \ {x}) \ {y}) \in Int
            BY <1>1
        <3> DEFINE rest == Total((T \ {x}) \ {y})
        <3>6. Total(T) = f[y] + (f[x] + rest)
            BY <2>1, <3>2, <3>4
        <3>7. f[x] + Total(T \ {x}) = f[x] + (f[y] + rest)
            BY <3>3
        <3> HIDE DEF rest
        <3>8. f[y] + (f[x] + rest) = f[x] + (f[y] + rest)
            BY <3>5 DEF rest
        <3> QED
            BY <3>6, <3>7, <3>8
    <2> QED
        BY <2>2, <2>3
<1>4. S \in P
    <2> HIDE DEF P
    <2> QED
        BY <1>3, SmallerSetsFirst
<1> QED
    BY <1>4 DEF Total

\* A sum of naturals is a natural, and none of its terms is above it.
LEMMA SumIsNat ==
    ASSUME NEW f, NEW S, IsFiniteSet(S), \A x \in S : f[x] \in Nat
    PROVE  /\ SumFunctionOnSet(f, S) \in Nat
           /\ \A x \in S : f[x] <= SumFunctionOnSet(f, S)
<1> DEFINE Total(T) == SumFunctionOnSet(f, T)
           P == {T \in SUBSET S : Total(T) \in Nat}
<1>1. \A T \in SUBSET S : T # {} => \E x \in T : Total(T) = f[x] + Total(T \ {x})
    BY SumUnfolds, FS_Subset
<1>2. Total({}) = 0
    BY SumOfEmpty
<1>3. \A x \in S : Total(S) = f[x] + Total(S \ {x})
    BY SumTakeOut
<1> HIDE DEF Total
<1>4. ASSUME NEW T \in SUBSET S, \A U \in SUBSET T : U # T => U \in P
      PROVE  T \in P
    <2>1. CASE T = {}
        BY <1>2, <2>1
    <2>2. CASE T # {}
        <3>1. PICK x \in T : Total(T) = f[x] + Total(T \ {x})
            BY <1>1, <2>2
        <3>2. T \ {x} \in P
            BY <1>4
        <3> QED
            BY <3>1, <3>2
    <2> QED
        BY <2>1, <2>2
<1>5. \A T \in SUBSET S : T \in P
    <2> SUFFICES ASSUME NEW T \in SUBSET S PROVE T \in P
        OBVIOUS
    <2>1. IsFiniteSet(T)
        BY FS_Subset
    <2>2. \A V \in SUBSET T : (\A U \in SUBSET V : U # V => U \in P) => V \in P
        BY <1>4
    <2> HIDE DEF P
    <2> QED
        BY <2>1, <2>2, SmallerSetsFirst
<1>6. ASSUME NEW x \in S PROVE f[x] <= Total(S)
    <2>1. Total(S \ {x}) \in Nat
        BY <1>5
    <2> QED
        BY <1>3, <2>1
<1> QED
    BY <1>5, <1>6 DEF Total

\* A sum is that of another set if there is a way to pair their elements.
LEMMA SumPaired ==
    ASSUME NEW S, IsFiniteSet(S), NEW f, \A x \in S : f[x] \in Int,
           NEW g, NEW e,
           \A x, y \in S : e[x] = e[y] => x = y,
           \A x \in S : g[e[x]] = f[x]
    PROVE  SumFunctionOnSet(g, {e[x] : x \in S}) = SumFunctionOnSet(f, S)
<1> DEFINE Image(T) == {e[x] : x \in T}
           P == {T \in SUBSET S : SumFunctionOnSet(g, Image(T)) = SumFunctionOnSet(f, T)}
<1>1. ASSUME NEW T \in SUBSET S, \A U \in SUBSET T : U # T => U \in P
      PROVE  T \in P
    <2>1. CASE T = {}
        BY <2>1, SumOfEmpty
    <2>2. CASE T # {}
        <3>1. PICK a \in T : TRUE
            BY <2>2
        <3>2. T \ {a} \in P
            BY <1>1, <3>1
        <3>3. IsFiniteSet(T) /\ IsFiniteSet(Image(T))
            <4>1. [x \in T |-> e[x]] \in Surjection(T, Image(T))
                BY DEF Surjection
            <4> HIDE DEF Image
            <4> QED
                BY <4>1, FS_Subset, FS_Surjection
        <3>4. \A z \in Image(T) : g[z] \in Int
            OBVIOUS
        <3>5. SumFunctionOnSet(f, T) = f[a] + SumFunctionOnSet(f, T \ {a})
            BY <3>1, <3>3, SumTakeOut
        <3>6. SumFunctionOnSet(g, Image(T)) = g[e[a]] + SumFunctionOnSet(g, Image(T) \ {e[a]})
            <4>1. e[a] \in Image(T)
                BY <3>1
            <4> HIDE DEF Image
            <4> QED
                BY <3>3, <3>4, <4>1, SumTakeOut
        <3>7. Image(T) \ {e[a]} = Image(T \ {a})
            BY <3>1
        <3>8. g[e[a]] = f[a]
            BY <3>1
        <3> QED
            BY <3>2, <3>5, <3>6, <3>7, <3>8
    <2> QED
        BY <2>1, <2>2
<1>2. S \in P
    <2> HIDE DEF P
    <2> QED
        BY <1>1, SmallerSetsFirst
<1> QED
    BY <1>2

\* The sum looks at the set only.
LEMMA SumSame ==
    ASSUME NEW S, IsFiniteSet(S), NEW f, NEW g, \A x \in S : f[x] \in Int /\ g[x] = f[x]
    PROVE  SumFunctionOnSet(g, S) = SumFunctionOnSet(f, S)
<1> DEFINE e == [x \in S |-> x]
<1>1. {e[x] : x \in S} = S
    OBVIOUS
<1>2. /\ \A x, y \in S : e[x] = e[y] => x = y
      /\ \A x \in S : g[e[x]] = f[x]
    OBVIOUS
<1> HIDE DEF e
<1> QED
    BY <1>1, <1>2, SumPaired

\* One term changed.
LEMMA SumWithOneChanged ==
    ASSUME NEW S, IsFiniteSet(S), NEW a \in S, NEW f, NEW g,
           \A x \in S : f[x] \in Int /\ g[x] \in Int,
           \A x \in S \ {a} : g[x] = f[x]
    PROVE  SumFunctionOnSet(g, S) = SumFunctionOnSet(f, S) - f[a] + g[a]
<1>1. IsFiniteSet(S \ {a})
    BY FS_RemoveElement
<1>2. SumFunctionOnSet(g, S \ {a}) = SumFunctionOnSet(f, S \ {a})
    BY <1>1, SumSame
<1>3. /\ SumFunctionOnSet(f, S) = f[a] + SumFunctionOnSet(f, S \ {a})
      /\ SumFunctionOnSet(g, S) = g[a] + SumFunctionOnSet(g, S \ {a})
    BY SumTakeOut
<1>4. SumFunctionOnSet(f, S \ {a}) \in Int
    BY <1>1, SumIsInt
<1>5. f[a] \in Int /\ g[a] \in Int
    OBVIOUS
<1> QED
    BY <1>2, <1>3, <1>4, <1>5

\* The sum over two sets that have nothing in common.
LEMMA SumOfUnion ==
    ASSUME NEW A, IsFiniteSet(A), NEW B, IsFiniteSet(B), A \cap B = {},
           NEW f, \A x \in A \cup B : f[x] \in Int
    PROVE  SumFunctionOnSet(f, A \cup B) = SumFunctionOnSet(f, A) + SumFunctionOnSet(f, B)
<1> DEFINE Total(T) == SumFunctionOnSet(f, T)
           P == {T \in SUBSET B : Total(A \cup T) = Total(A) + Total(T)}
<1>1. \A T \in SUBSET B : IsFiniteSet(A \cup T) /\ IsFiniteSet(T)
    BY FS_Subset, FS_Union
<1>2. \A T \in SUBSET B : Total(T) \in Int
    BY <1>1, SumIsInt
<1>3. Total(A) \in Int
    BY SumIsInt
<1>4. Total({}) = 0
    BY SumOfEmpty
<1>5. ASSUME NEW T \in SUBSET B, NEW x \in T
      PROVE  /\ Total(T) = f[x] + Total(T \ {x})
             /\ Total(A \cup T) = f[x] + Total(A \cup (T \ {x}))
    <2>1. (A \cup T) \ {x} = A \cup (T \ {x})
        OBVIOUS
    <2>2. Total(A \cup T) = f[x] + Total((A \cup T) \ {x})
        BY <1>1, SumTakeOut
    <2>3. Total(T) = f[x] + Total(T \ {x})
        <3>1. IsFiniteSet(T) /\ \A y \in T : f[y] \in Int
            BY <1>1
        <3> QED
            BY <3>1, SumTakeOut
    <2> QED
        BY <2>1, <2>2, <2>3
<1> HIDE DEF Total
<1>6. ASSUME NEW T \in SUBSET B, \A U \in SUBSET T : U # T => U \in P
      PROVE  T \in P
    <2>1. CASE T = {}
        <3>1. A \cup T = A
            BY <2>1
        <3> QED
            BY <1>3, <1>4, <2>1, <3>1
    <2>2. CASE T # {}
        <3>1. PICK x \in T : TRUE
            BY <2>2
        <3>2. T \ {x} \in P
            BY <1>6, <3>1
        <3>3. f[x] \in Int /\ Total(T \ {x}) \in Int
            BY <1>2, <3>1
        <3>4. /\ Total(T) = f[x] + Total(T \ {x})
              /\ Total(A \cup T) = f[x] + (Total(A) + Total(T \ {x}))
            BY <1>5, <3>1, <3>2
        <3> QED
            BY <1>3, <3>3, <3>4
    <2> QED
        BY <2>1, <2>2
<1>7. B \in P
    <2> HIDE DEF P
    <2> QED
        BY <1>6, SmallerSetsFirst
<1> QED
    BY <1>7 DEF Total

\* The sum over a larger set is no smaller.
LEMMA SumOfMore ==
    ASSUME NEW S, IsFiniteSet(S), NEW T \in SUBSET S, NEW f, \A x \in S : f[x] \in Nat
    PROVE  SumFunctionOnSet(f, T) <= SumFunctionOnSet(f, S)
<1>1. IsFiniteSet(T) /\ IsFiniteSet(S \ T) /\ T \cap (S \ T) = {} /\ T \cup (S \ T) = S
    BY FS_Subset
<1>2. SumFunctionOnSet(f, S) = SumFunctionOnSet(f, T) + SumFunctionOnSet(f, S \ T)
    BY <1>1, SumOfUnion
<1>3. SumFunctionOnSet(f, T) \in Nat /\ SumFunctionOnSet(f, S \ T) \in Nat
    BY <1>1, SumIsNat
<1> QED
    BY <1>2, <1>3

\* The members of S of the class p.
ClassOf(S, c, p) == {x \in S : c[x] = p}

\* The sum over a set that is divided into classes is the sum of their sums.
LEMMA SumByClass ==
    ASSUME NEW S, IsFiniteSet(S), NEW C, IsFiniteSet(C),
           NEW c, \A x \in S : c[x] \in C,
           NEW f, \A x \in S : f[x] \in Int,
           NEW g, \A p \in C : g[p] = SumFunctionOnSet(f, ClassOf(S, c, p))
    PROVE  SumFunctionOnSet(f, S) = SumFunctionOnSet(g, C)
<1> DEFINE In(T) == {x \in S : c[x] \in T}
           P == {T \in SUBSET C : SumFunctionOnSet(f, In(T)) = SumFunctionOnSet(g, T)}
<1>1. \A T \in SUBSET C : IsFiniteSet(T) /\ IsFiniteSet(In(T))
    BY FS_Subset
<1>2. \A p \in C : g[p] \in Int /\ g[p] = SumFunctionOnSet(f, In({p}))
    <2> SUFFICES ASSUME NEW p \in C PROVE g[p] \in Int /\ g[p] = SumFunctionOnSet(f, In({p}))
        OBVIOUS
    <2>1. In({p}) = ClassOf(S, c, p)
        BY DEF ClassOf
    <2>2. SumFunctionOnSet(f, In({p})) \in Int
        BY <1>1, SumIsInt
    <2> QED
        BY <2>1, <2>2
<1>3. ASSUME NEW T \in SUBSET C, \A U \in SUBSET T : U # T => U \in P
      PROVE  T \in P
    <2>1. CASE T = {}
        <3>1. In(T) = {}
            BY <2>1
        <3> QED
            BY <2>1, <3>1, SumOfEmpty
    <2>2. CASE T # {}
        <3>1. PICK p \in T : TRUE
            BY <2>2
        <3>2. T \ {p} \in P
            BY <1>3, <3>1
        <3>3. In(T) = In({p}) \cup In(T \ {p}) /\ In({p}) \cap In(T \ {p}) = {}
            BY <3>1
        <3>4. SumFunctionOnSet(f, In({p}) \cup In(T \ {p})) =
                SumFunctionOnSet(f, In({p})) + SumFunctionOnSet(f, In(T \ {p}))
            <4>1. IsFiniteSet(In({p})) /\ IsFiniteSet(In(T \ {p}))
                BY <1>1, <3>1
            <4>2. \A x \in In({p}) \cup In(T \ {p}) : f[x] \in Int
                OBVIOUS
            <4> HIDE DEF In
            <4> QED
                BY <3>3, <4>1, <4>2, SumOfUnion
        <3>5. SumFunctionOnSet(g, T) = g[p] + SumFunctionOnSet(g, T \ {p})
            <4>1. IsFiniteSet(T) /\ \A q \in T : g[q] \in Int
                BY <1>1, <1>2
            <4> QED
                BY <3>1, <4>1, SumTakeOut
        <3> QED
            BY <1>2, <3>1, <3>2, <3>3, <3>4, <3>5
    <2> QED
        BY <2>1, <2>2
<1>4. C \in P
    <2> HIDE DEF P
    <2> QED
        BY <1>3, SmallerSetsFirst
<1>5. In(C) = S
    OBVIOUS
<1> QED
    BY <1>4, <1>5

\* In a finite set in which of any two members one comes before the other, there
\* is one with k before it, for each k: b[p] are those before p.
LEMMA EveryRankIsTaken ==
    ASSUME NEW D, IsFiniteSet(D), NEW b,
           \A p \in D : b[p] \subseteq D /\ p \notin b[p],
           \A p, q \in D : p # q => q \in b[p] \/ p \in b[q],
           \A p, q \in D : q \in b[p] => b[q] \subseteq b[p],
           NEW k \in 0 .. Cardinality(D) - 1
    PROVE  \E p \in D : Cardinality(b[p]) = k
<1> DEFINE n == Cardinality(D)
           ranks == 0 .. n - 1
           rank == [p \in D |-> Cardinality(b[p])]
<1>1. n \in Nat
    BY FS_CardinalityType
<1>2. \A p \in D : IsFiniteSet(b[p]) /\ Cardinality(b[p]) \in Nat
    BY FS_Subset, FS_CardinalityType
<1>3. ASSUME NEW p \in D PROVE rank[p] \in ranks
    <2>1. IsFiniteSet(D \ {p}) /\ Cardinality(D \ {p}) = n - 1
        BY FS_RemoveElement
    <2>2. b[p] \in SUBSET (D \ {p})
        OBVIOUS
    <2>3. Cardinality(b[p]) <= n - 1
        BY <2>1, <2>2, FS_Subset
    <2> QED
        BY <1>1, <1>2, <2>3
<1>4. ASSUME NEW p \in D, NEW q \in b[p] PROVE Cardinality(b[q]) < Cardinality(b[p])
    <2>1. q \in D /\ q \notin b[q] /\ b[q] \cup {q} \in SUBSET b[p]
        OBVIOUS
    <2>2. Cardinality(b[q] \cup {q}) = Cardinality(b[q]) + 1
        BY <1>2, <2>1, FS_AddElement
    <2>3. Cardinality(b[q] \cup {q}) <= Cardinality(b[p])
        BY <1>2, <2>1, FS_Subset
    <2> QED
        BY <1>2, <2>1, <2>2, <2>3
<1>5. ASSUME NEW p \in D, NEW q \in D, rank[p] = rank[q] PROVE p = q
    <2> SUFFICES ASSUME p # q PROVE FALSE
        OBVIOUS
    <2>1. Cardinality(b[p]) = Cardinality(b[q])
        BY <1>5
    <2>2. q \in b[p] \/ p \in b[q]
        OBVIOUS
    <2> QED
        BY <1>2, <1>4, <2>1, <2>2
<1>6. rank \in Injection(D, ranks)
    BY <1>3, <1>5 DEF Injection, IsInjective
<1>7. IsFiniteSet(ranks) /\ Cardinality(ranks) = n
    BY <1>1, FS_Interval
<1> HIDE DEF rank, ranks, n
<1>8. rank \in Surjection(D, ranks)
    <2>1. Cardinality(D) = Cardinality(ranks)
        BY <1>7 DEF n
    <2> QED
        BY <1>6, <1>7, <2>1, FS_Injection
<1>9. k \in ranks
    BY DEF ranks, n
<1>10. PICK p \in D : rank[p] = k
    BY <1>8, <1>9 DEF Surjection
<1> QED
    BY <1>10 DEF rank
===============================================================================
