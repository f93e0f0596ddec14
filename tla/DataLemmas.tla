----------------------------- MODULE DataLemmas -----------------------------
(***************************************************************************)
(* What the proofs need to know of the data the models are built from:     *)
(* induction over numbers and finite sets, stated with the set of those a  *)
(* fact is known of; functions that recur over the numbers; sequences of   *)
(* bounded length.                                                         *)
(***************************************************************************)
EXTENDS Integers, Sequences, FiniteSets, FiniteSetTheorems, SequenceTheorems,
        WellFoundedInduction, TLAPS

-----------------------------------------------------------------------------
(* Induction                                                               *)

\* What is good of 0, and of n + 1 when it is of n, is good of every number.
LEMMA NatSetInduction ==
    ASSUME NEW Good, 0 \in Good, \A n \in Nat : n \in Good => n + 1 \in Good
    PROVE  \A n \in Nat : n \in Good
<1> DEFINE Bad == {n \in Nat : n \notin Good}
           Less == OpToRel(<, Nat)
<1> SUFFICES ASSUME Bad # {} PROVE FALSE
  OBVIOUS
<1>1. \A x, y \in Nat : x < y => <<x, y>> \in Less
  BY DEF OpToRel
<1>2. Bad \subseteq Nat /\ IsWellFoundedOn(Less, Nat)
  BY NatLessThanWellFounded
<1> HIDE DEF Less
<1>3. PICK n \in Bad : \A m \in Bad : <<m, n>> \notin Less
  <2> HIDE DEF Bad
  <2> QED
    BY <1>2, WFMin
<1>4. n # 0 /\ n - 1 \in Nat /\ n - 1 \notin Good
  <2>1. n \in Nat /\ n \notin Good
    BY <1>3
  <2>2. n # 0
    BY <2>1
  <2> DEFINE m == n - 1
  <2>3. m \in Nat /\ m + 1 = n
    BY <2>1, <2>2
  <2>4. m \notin Good
    <3> HIDE DEF m
    <3> QED
      BY <2>1, <2>3
  <2>5. QED
    BY <2>2, <2>3, <2>4
<1>5. n - 1 \in Bad /\ <<n - 1, n>> \in Less
  BY <1>1, <1>3, <1>4
<1>6. QED
  BY <1>3, <1>5

\* What is good of a set when it is of the set without any one element, is good
\* of every finite set.
LEMMA FiniteSetInduction ==
    ASSUME NEW S, IsFiniteSet(S), NEW Good,
           \A T \in SUBSET S : (\A x \in T : T \ {x} \in Good) => T \in Good
    PROVE  S \in Good
<1> DEFINE Bad == {T \in SUBSET S : T \notin Good}
<1> SUFFICES ASSUME Bad # {} PROVE FALSE
  OBVIOUS
<1>1. Bad \subseteq FiniteSubsetsOf(S)
  BY FS_FiniteSubsetsOfFinite
<1>2. IsWellFoundedOn(StrictSubsetOrdering(S), FiniteSubsetsOf(S))
  BY FS_StrictSubsetOrderingWellFounded
<1>3. PICK T \in Bad : \A U \in Bad : <<U, T>> \notin StrictSubsetOrdering(S)
  <2> HIDE DEF Bad
  <2> QED
    BY <1>1, <1>2, WFMin
<1>4. PICK x \in T : T \ {x} \notin Good
  BY <1>3
<1>5. T \ {x} \in Bad
  BY <1>3, <1>4
<1>6. <<T \ {x}, T>> \in StrictSubsetOrdering(S)
  <2> DEFINE U == T \ {x}
  <2>1. U \in SUBSET S /\ T \in SUBSET S /\ U \subseteq T /\ U # T
    BY <1>3, <1>4
  <2> HIDE DEF U
  <2>2. <<U, T>> \in StrictSubsetOrdering(S)
    BY <2>1 DEF StrictSubsetOrdering
  <2>3. QED
    BY <2>2 DEF U
<1>7. QED
  BY <1>3, <1>5, <1>6

\* A table of the first n + 1 values of the function that starts with base and
\* takes one step from each value to the next.
StepTable(base, step, n, t) ==
    /\ DOMAIN t = 0..n
    /\ t[0] = base
    /\ \A i \in 1..n : t[i] = step[t[i - 1]]

LEMMA StepTableExists ==
    ASSUME NEW D, NEW base \in D, NEW step \in [D -> D]
    PROVE  \A n \in Nat : \E t \in [0..n -> D] : StepTable(base, step, n, t)
<1> DEFINE Good == {n \in Nat : \E t \in [0..n -> D] : StepTable(base, step, n, t)}
<1>1. 0 \in Good
  <2> DEFINE t == [i \in 0..0 |-> base]
  <2>1. t \in [0..0 -> D] /\ StepTable(base, step, 0, t)
    BY DEF StepTable
  <2>2. QED
    BY <2>1
<1>2. ASSUME NEW n \in Nat, n \in Good PROVE n + 1 \in Good
  <2>1. PICK t \in [0..n -> D] : StepTable(base, step, n, t)
    BY <1>2
  <2> DEFINE u == [i \in 0..(n + 1) |-> IF i = n + 1 THEN step[t[n]] ELSE t[i]]
  <2>2. t[n] \in D
    OBVIOUS
  <2>3. /\ u \in [0..(n + 1) -> D] /\ DOMAIN u = 0..(n + 1)
        /\ u[n + 1] = step[t[n]] /\ \A i \in 0..n : u[i] = t[i]
    BY <2>2
  <2> HIDE DEF u
  <2>4. u[0] = base
    BY <2>1, <2>3 DEF StepTable
  <2>5. ASSUME NEW i \in 1..(n + 1) PROVE u[i] = step[u[i - 1]]
    <3>1. CASE i = n + 1
      BY <2>3, <3>1
    <3>2. CASE i \in 1..n
      BY <2>1, <2>3, <3>2 DEF StepTable
    <3>3. QED
      BY <3>1, <3>2
  <2>6. StepTable(base, step, n + 1, u)
    BY <2>3, <2>4, <2>5 DEF StepTable
  <2>7. QED
    BY <2>3, <2>6
<1> HIDE DEF Good
<1>3. \A n \in Nat : n \in Good
  BY <1>1, <1>2, NatSetInduction
<1>4. QED
  BY <1>3 DEF Good

LEMMA StepTablesAgree ==
    ASSUME NEW base, NEW step, NEW m \in Nat, NEW n \in Nat, NEW s, NEW t,
           StepTable(base, step, m, s), StepTable(base, step, n, t)
    PROVE  \A i \in Nat : i <= m /\ i <= n => s[i] = t[i]
<1> DEFINE Good == {i \in Nat : i <= m /\ i <= n => s[i] = t[i]}
<1>1. 0 \in Good
  BY DEF StepTable
<1>2. ASSUME NEW i \in Nat, i \in Good PROVE i + 1 \in Good
  <2> SUFFICES ASSUME i + 1 <= m, i + 1 <= n PROVE s[i + 1] = t[i + 1]
    OBVIOUS
  <2>1. s[i] = t[i]
    BY <1>2
  <2>2. i + 1 \in 1..m /\ i + 1 \in 1..n /\ (i + 1) - 1 = i
    OBVIOUS
  <2>3. s[i + 1] = step[s[i]] /\ t[i + 1] = step[t[i]]
    BY <2>2 DEF StepTable
  <2>4. QED
    BY <2>1, <2>3
<1> HIDE DEF Good
<1>3. \A i \in Nat : i \in Good
  BY <1>1, <1>2, NatSetInduction
<1>4. QED
  BY <1>3 DEF Good

\* There is a function that takes a step at every number.
LEMMA RecursiveFunction ==
    ASSUME NEW D, NEW base \in D, NEW step \in [D -> D]
    PROVE  \E f \in [Nat -> D] : f = [n \in Nat |-> IF n = 0 THEN base ELSE step[f[n - 1]]]
<1> DEFINE T == [n \in Nat |-> CHOOSE t \in [0..n -> D] : StepTable(base, step, n, t)]
<1>1. \A n \in Nat : T[n] \in [0..n -> D] /\ StepTable(base, step, n, T[n])
  BY StepTableExists
<1> HIDE DEF T
<1> DEFINE f == [n \in Nat |-> T[n][n]]
<1>2. f \in [Nat -> D]
  BY <1>1
<1>3. f[0] = base
  BY <1>1 DEF StepTable
<1>4. ASSUME NEW n \in Nat, n # 0 PROVE f[n] = step[f[n - 1]]
  <2>1. n - 1 \in Nat /\ n \in 1..n
    BY <1>4
  <2>2. T[n][n] = step[T[n][n - 1]]
    BY <1>1, <2>1 DEF StepTable
  <2>3. T[n][n - 1] = T[n - 1][n - 1]
    <3> DEFINE m == n - 1
    <3>1. m \in Nat /\ m <= m /\ m <= n
      BY <2>1
    <3> HIDE DEF m
    <3>2. StepTable(base, step, n, T[n]) /\ StepTable(base, step, m, T[m])
      BY <1>1, <3>1
    <3>3. T[n][m] = T[m][m]
      BY <3>1, <3>2, StepTablesAgree
    <3>4. QED
      BY <3>3 DEF m
  <2>4. QED
    BY <2>1, <2>2, <2>3
<1>5. f = [n \in Nat |-> IF n = 0 THEN base ELSE step[f[n - 1]]]
  <2>1. \A n \in Nat : f[n] = IF n = 0 THEN base ELSE step[f[n - 1]]
    BY <1>3, <1>4
  <2>2. f = [n \in Nat |-> f[n]]
    OBVIOUS
  <2> HIDE DEF f
  <2>3. QED
    BY <2>1, <2>2
<1>6. QED
  BY <1>2, <1>5

-----------------------------------------------------------------------------
(* Bounded sequences                                                       *)

BoundedSeq(S, N) == UNION {[1..n -> S] : n \in 0..N}

LEMMA BoundedFacts ==
    ASSUME NEW S, NEW N \in Nat, NEW s \in BoundedSeq(S, N)
    PROVE  /\ s \in Seq(S) /\ Len(s) \in 0..N
           /\ s \in [1..Len(s) -> S] /\ DOMAIN s = 1..Len(s)
<1>1. PICK n \in 0..N : s \in [1..n -> S]
  BY DEF BoundedSeq
<1>2. s \in Seq(S)
  BY <1>1, SeqDef
<1>3. Len(s) \in Nat /\ s \in [1..Len(s) -> S] /\ DOMAIN s = 1..Len(s)
  BY <1>2, LenProperties
<1>4. Len(s) = n
  BY <1>1, <1>3
<1>5. QED
  BY <1>2, <1>3, <1>4

LEMMA BoundedIntro ==
    ASSUME NEW S, NEW N \in Nat, NEW s \in Seq(S), Len(s) <= N
    PROVE  s \in BoundedSeq(S, N)
<1>1. Len(s) \in 0..N /\ s \in [1..Len(s) -> S]
  BY LenProperties
<1>2. QED
  BY <1>1 DEF BoundedSeq

LEMMA BoundedAppend ==
    ASSUME NEW S, NEW N \in Nat, NEW s \in BoundedSeq(S, N), NEW x \in S, Len(s) < N
    PROVE  /\ Append(s, x) \in BoundedSeq(S, N)
           /\ Len(Append(s, x)) = Len(s) + 1
           /\ DOMAIN Append(s, x) = 1..(Len(s) + 1)
           /\ \A i \in 1..Len(s) : Append(s, x)[i] = s[i]
           /\ Append(s, x)[Len(s) + 1] = x
<1>1. s \in Seq(S) /\ Len(s) \in Nat
  BY BoundedFacts
<1>2. /\ Append(s, x) \in Seq(S)
      /\ Len(Append(s, x)) = Len(s) + 1
      /\ \A i \in 1..Len(s) : Append(s, x)[i] = s[i]
      /\ Append(s, x)[Len(s) + 1] = x
  BY <1>1, AppendProperties
<1>3. DOMAIN Append(s, x) = 1..(Len(s) + 1)
  BY <1>2, LenProperties
<1>4. Len(Append(s, x)) <= N
  BY <1>1, <1>2
<1>5. Append(s, x) \in BoundedSeq(S, N)
  BY <1>2, <1>4, BoundedIntro
<1>6. QED
  BY <1>2, <1>3, <1>5

LEMMA BoundedEmpty ==
    ASSUME NEW S, NEW N \in Nat
    PROVE  << >> \in BoundedSeq(S, N) /\ Len(<< >>) = 0 /\ DOMAIN << >> = {}
<1>1. << >> \in Seq(S) /\ Len(<< >>) = 0
  BY EmptySeq
<1>2. Len(<< >>) <= N
  BY <1>1
<1>3. << >> \in BoundedSeq(S, N)
  BY <1>1, <1>2, BoundedIntro
<1>4. QED
  BY <1>1, <1>3

LEMMA BoundedSingle ==
    ASSUME NEW S, NEW N \in Nat \ {0}, NEW x \in S
    PROVE  << x >> \in BoundedSeq(S, N) /\ Len(<< x >>) = 1 /\ << x >>[1] = x
<1>1. << x >> \in Seq(S) /\ Len(<< x >>) = 1
  OBVIOUS
<1>2. Len(<< x >>) <= N
  BY <1>1
<1>3. << x >> \in BoundedSeq(S, N)
  BY <1>1, <1>2, BoundedIntro
<1>4. QED
  BY <1>1, <1>3

LEMMA BoundedConcat ==
    ASSUME NEW S, NEW N \in Nat, NEW s \in BoundedSeq(S, N), NEW n \in 1..(N - Len(s)),
           NEW more \in [1..n -> S]
    PROVE  s \o more \in BoundedSeq(S, N)
<1>1. s \in Seq(S) /\ Len(s) \in Nat
  BY BoundedFacts
<1>2. more \in Seq(S) /\ Len(more) = n
  <2>1. more \in Seq(S)
    BY SeqDef
  <2>2. QED
    BY <2>1, LenProperties
<1>3. s \o more \in Seq(S) /\ Len(s \o more) = Len(s) + Len(more)
  BY <1>1, <1>2, ConcatProperties
<1>4. Len(s \o more) <= N
  BY <1>1, <1>2, <1>3
<1>5. QED
  BY <1>3, <1>4, BoundedIntro

LEMMA BoundedTail ==
    ASSUME NEW S, NEW N \in Nat, NEW s \in BoundedSeq(S, N), s # << >>
    PROVE  /\ Head(s) \in S /\ Head(s) = s[1] /\ 1 \in DOMAIN s
           /\ Tail(s) \in BoundedSeq(S, N) /\ Len(Tail(s)) = Len(s) - 1
           /\ \A i \in DOMAIN Tail(s) : i + 1 \in DOMAIN s /\ Tail(s)[i] = s[i + 1]
<1>1. s \in Seq(S) /\ Len(s) \in 0..N /\ DOMAIN s = 1..Len(s)
  BY BoundedFacts
<1>2. /\ Head(s) \in S /\ Tail(s) \in Seq(S) /\ Len(Tail(s)) = Len(s) - 1
      /\ \A i \in 1..Len(Tail(s)) : Tail(s)[i] = s[i + 1]
  BY <1>1, HeadTailProperties
<1>3. Len(Tail(s)) <= N
  BY <1>1, <1>2
<1>4. Tail(s) \in BoundedSeq(S, N)
  BY <1>2, <1>3, BoundedIntro
<1>5. Head(s) = s[1] /\ Len(s) # 0
  BY <1>1, EmptySeq
<1>6. DOMAIN Tail(s) = 1..Len(Tail(s))
  BY <1>2, LenProperties
<1>7. QED
  BY <1>1, <1>2, <1>4, <1>5, <1>6
=============================================================================
