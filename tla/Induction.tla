----------------------------- MODULE Induction ------------------------------
(***************************************************************************)
(* Facts the proofs of several components use: induction on the natural    *)
(* numbers, stated with sets, and sequences written as functions.          *)
(***************************************************************************)
EXTENDS Integers, FiniteSets, Sequences, FiniteSetTheorems, SequenceTheorems, TLAPS

\* A set with 0 and with the successor of each of its numbers has them all: a
\* number left out would make adding 1 an injection of the finite set of the
\* numbers below it into a smaller set.
LEMMA SetInduction ==
  ASSUME NEW T, 0 \in T, \A n \in Nat : n \in T => n + 1 \in T
  PROVE  Nat \subseteq T
<1> SUFFICES ASSUME NEW x \in Nat, x \notin T PROVE FALSE
  OBVIOUS
<1> DEFINE S == {n \in 0..x : n \in T}
           f == [n \in S |-> n + 1]
<1>1. IsFiniteSet(0..x)
  BY FS_Interval
<1>2. IsFiniteSet(S) /\ 0 \in S
  <2>1. S \subseteq 0..x
    OBVIOUS
  <2> QED BY <1>1, <2>1, FS_Subset
<1>3. IsFiniteSet(S \ {0}) /\ Cardinality(S \ {0}) = Cardinality(S) - 1
  BY <1>2, FS_RemoveElement
<1>4. f \in Injection(S, S \ {0})
  <2>1. \A n \in S : n + 1 \in S \ {0}
    OBVIOUS
  <2> QED BY <2>1 DEF Injection, IsInjective
<1>5. Cardinality(S) <= Cardinality(S \ {0})
  BY <1>3, <1>4, FS_Injection
<1>6. Cardinality(S) \in Nat
  BY <1>2, FS_CardinalityType
<1> HIDE DEF S
<1> QED BY <1>3, <1>5, <1>6

\* The same up to a bound.
LEMMA UpTo ==
  ASSUME NEW n \in Nat, NEW T, 0 \in T, \A k \in 0..(n - 1) : k \in T => k + 1 \in T
  PROVE  0..n \subseteq T
<1> DEFINE U == {k \in Nat : k <= n => k \in T}
<1>1. 0 \in U
  OBVIOUS
<1>2. ASSUME NEW k \in Nat, k \in U PROVE k + 1 \in U
  BY <1>2
<1> HIDE DEF U
<1>3. Nat \subseteq U
  BY <1>1, <1>2, SetInduction
<1> QED BY <1>3 DEF U

\* And downwards from a bound.
LEMMA DownFrom ==
  ASSUME NEW n \in Nat, NEW T, n \in T, \A k \in 0..(n - 1) : k + 1 \in T => k \in T
  PROVE  0..n \subseteq T
<1> DEFINE U == {k \in 0..n : n - k \in T}
<1>1. 0 \in U
  OBVIOUS
<1>2. ASSUME NEW k \in 0..(n - 1), k \in U PROVE k + 1 \in U
  <2>1. n - (k + 1) \in 0..(n - 1) /\ n - (k + 1) + 1 = n - k
    OBVIOUS
  <2> QED BY <1>2, <2>1
<1> HIDE DEF U
<1>3. 0..n \subseteq U
  BY <1>1, <1>2, UpTo
<1>4. ASSUME NEW k \in 0..n PROVE k \in T
  <2>1. n - k \in 0..n /\ n - (n - k) = k
    OBVIOUS
  <2> QED BY <1>3, <2>1 DEF U
<1> QED BY <1>4

\* A function on 1..n is a sequence of length n.
LEMMA FunctionIsSeq ==
  ASSUME NEW n \in Nat, NEW S, NEW f \in [1..n -> S]
  PROVE  f \in Seq(S) /\ Len(f) = n
<1>1. f \in Seq(S)
  BY SeqDef
<1>2. Len(f) \in Nat /\ 1..Len(f) = 1..n
  BY <1>1, LenProperties
<1>3. CASE n = 0
  <2>1. Len(f) \notin 1..n
    BY <1>2, <1>3
  <2> QED BY <1>1, <1>2, <1>3, <2>1
<1>4. CASE n # 0
  <2>1. n \in 1..n
    BY <1>4
  <2>2. Len(f) # 0
    BY <1>2, <2>1
  <2>3. Len(f) \in 1..Len(f)
    BY <1>2, <2>2
  <2>4. n <= Len(f) /\ Len(f) <= n
    BY <1>2, <2>1, <2>3
  <2> QED BY <1>1, <1>2, <2>4
<1> QED BY <1>3, <1>4
=============================================================================
