------------------------ MODULE CommitmentTreeProofs ------------------------
(***************************************************************************)
(* The commitment tree, for every depth and every sequence of leaves: the  *)
(* frontier, the wallet's levels and the circuit's path all compute nodes  *)
(* of the complete tree.                                                   *)
(***************************************************************************)
EXTENDS CommitmentTree, Induction

-----------------------------------------------------------------------------
(***************************************************************************)
(* The recursive functions are what their definitions say.                 *)
(***************************************************************************)
\* The powers of 2 up to the k-th.
IsPow2(k, p) == p = [n \in 0..k |-> IF n = 0 THEN 1 ELSE 2 * p[n - 1]]

\* Each number has a table of powers up to it.
LEMMA Pow2Exists == \A k \in Nat : \E p : IsPow2(k, p)
<1> DEFINE T == {k \in Nat : \E p : IsPow2(k, p)}
<1>1. 0 \in T
  <2>1. IsPow2(0, [n \in 0..0 |-> 1])
    BY DEF IsPow2
  <2> QED BY <2>1
<1>2. ASSUME NEW k \in Nat, k \in T PROVE k + 1 \in T
  <2>1. PICK p : IsPow2(k, p)
    BY <1>2
  <2> DEFINE q == [n \in 0..(k + 1) |-> IF n <= k THEN p[n] ELSE 2 * p[k]]
  <2>2. \A n \in 0..k : p[n] = IF n = 0 THEN 1 ELSE 2 * p[n - 1]
    BY <2>1 DEF IsPow2
  <2>3. ASSUME NEW n \in 0..(k + 1) PROVE q[n] = IF n = 0 THEN 1 ELSE 2 * q[n - 1]
    BY <2>2
  <2>4. IsPow2(k + 1, q)
    BY <2>3 DEF IsPow2
  <2> QED BY <2>4
<1> HIDE DEF T
<1>3. Nat \subseteq T
  BY <1>1, <1>2, SetInduction
<1> QED BY <1>3 DEF T

\* Two tables agree where both are defined.
LEMMA Pow2Unique ==
  ASSUME NEW j \in Nat, NEW k \in Nat, NEW p, NEW q, IsPow2(j, p), IsPow2(k, q), j <= k
  PROVE  \A n \in 0..j : p[n] = q[n]
<1> DEFINE T == {n \in 0..j : p[n] = q[n]}
<1>1. /\ \A n \in 0..j : p[n] = IF n = 0 THEN 1 ELSE 2 * p[n - 1]
      /\ \A n \in 0..k : q[n] = IF n = 0 THEN 1 ELSE 2 * q[n - 1]
  BY DEF IsPow2
<1>2. 0 \in T
  BY <1>1
<1>3. ASSUME NEW n \in 0..(j - 1), n \in T PROVE n + 1 \in T
  <2>1. n + 1 \in 0..j /\ n + 1 \in 0..k /\ n + 1 # 0 /\ n + 1 - 1 = n
    OBVIOUS
  <2>2. p[n + 1] = 2 * p[n] /\ q[n + 1] = 2 * q[n]
    BY <1>1, <2>1
  <2> QED BY <1>3, <2>1, <2>2
<1> HIDE DEF T
<1>4. 0..j \subseteq T
  BY <1>2, <1>3, UpTo
<1> QED BY <1>4 DEF T

\* The powers of 2: each is twice the one before.
LEMMA Pow2Facts ==
  /\ Pow2[0] = 1
  /\ \A l \in Nat : Pow2[l + 1] = 2 * Pow2[l] /\ Pow2[l] \in Nat \ {0}
<1> DEFINE P(n) == CHOOSE p : IsPow2(n, p)
           g == [n \in Nat |-> P(n)[n]]
           Rec(f) == f = [l \in Nat |-> IF l = 0 THEN 1 ELSE 2 * f[l - 1]]
<1>1. \A n \in Nat : IsPow2(n, P(n))
  BY Pow2Exists
<1>2. ASSUME NEW n \in Nat PROVE g[n] = IF n = 0 THEN 1 ELSE 2 * g[n - 1]
  <2>1. \A i \in 0..n : P(n)[i] = IF i = 0 THEN 1 ELSE 2 * P(n)[i - 1]
    BY <1>1 DEF IsPow2
  <2>2. n # 0 => P(n - 1)[n - 1] = P(n)[n - 1]
    <3> SUFFICES ASSUME n # 0 PROVE P(n - 1)[n - 1] = P(n)[n - 1]
      OBVIOUS
    <3>1. n - 1 \in Nat /\ n - 1 \in 0..(n - 1) /\ n - 1 <= n
      OBVIOUS
    <3>2. IsPow2(n - 1, P(n - 1)) /\ IsPow2(n, P(n))
      BY <1>1, <3>1
    <3> HIDE DEF P
    <3> QED BY <3>1, <3>2, Pow2Unique
  <2> HIDE DEF P
  <2>3. g[n] = P(n)[n] /\ (n # 0 => g[n - 1] = P(n - 1)[n - 1])
    OBVIOUS
  <2> QED BY <2>1, <2>2, <2>3
<1>3. Rec(g)
  <2> HIDE DEF P
  <2> QED BY <1>2
<1> HIDE DEF g, P
<1>4. Rec(CHOOSE f : Rec(f))
  BY <1>3
<1>5. Pow2 = CHOOSE f : Rec(f)
  BY DEF Pow2
<1>6. Rec(Pow2)
  BY <1>4, <1>5
<1>7. \A l \in Nat : Pow2[l] = IF l = 0 THEN 1 ELSE 2 * Pow2[l - 1]
  BY <1>6
<1>8. Pow2[0] = 1 /\ \A l \in Nat : Pow2[l + 1] = 2 * Pow2[l]
  <2>1. ASSUME NEW l \in Nat PROVE Pow2[l + 1] = 2 * Pow2[l]
    <3>1. l + 1 \in Nat /\ l + 1 # 0 /\ l + 1 - 1 = l
      OBVIOUS
    <3> QED BY <1>7, <3>1
  <2> QED BY <1>7, <2>1
<1> HIDE DEF Rec
<1> DEFINE T == {l \in Nat : Pow2[l] \in Nat \ {0}}
<1>9. 0 \in T
  BY <1>8
<1>10. ASSUME NEW l \in Nat, l \in T PROVE l + 1 \in T
  BY <1>8, <1>10
<1> HIDE DEF T
<1>11. Nat \subseteq T
  BY <1>9, <1>10, SetInduction
<1> QED BY <1>8, <1>11 DEF T

\* The hashes of empty subtrees up to height k.
IsZeros(k, z) == z = [n \in 0..k |-> IF n = 0 THEN ZERO ELSE hash_merkle(z[n - 1], z[n - 1])]

\* The empty subtrees, level by level.
LEMMA ZeroFacts ==
  ASSUME Depth \in Nat
  PROVE  /\ zero_hashes[0] = ZERO
         /\ \A l \in 0..(Depth - 1) :
              zero_hashes[l + 1] = hash_merkle(zero_hashes[l], zero_hashes[l])
<1> DEFINE T == {k \in Nat : \E z : IsZeros(k, z)}
<1>1. 0 \in T
  <2>1. IsZeros(0, [n \in 0..0 |-> ZERO])
    BY DEF IsZeros
  <2> QED BY <2>1
<1>2. ASSUME NEW k \in Nat, k \in T PROVE k + 1 \in T
  <2>1. PICK z : IsZeros(k, z)
    BY <1>2
  <2> DEFINE y == [n \in 0..(k + 1) |-> IF n <= k THEN z[n] ELSE hash_merkle(z[k], z[k])]
  <2>2. \A n \in 0..k : z[n] = IF n = 0 THEN ZERO ELSE hash_merkle(z[n - 1], z[n - 1])
    BY <2>1 DEF IsZeros
  <2>3. ASSUME NEW n \in 0..(k + 1)
        PROVE  y[n] = IF n = 0 THEN ZERO ELSE hash_merkle(y[n - 1], y[n - 1])
    BY <2>2
  <2>4. IsZeros(k + 1, y)
    BY <2>3 DEF IsZeros
  <2> QED BY <2>4
<1> HIDE DEF T
<1>3. Nat \subseteq T
  BY <1>1, <1>2, SetInduction
<1>4. \E z : IsZeros(Depth, z)
  BY <1>3 DEF T
<1>5. IsZeros(Depth, zero_hashes)
  BY <1>4 DEF zero_hashes, IsZeros
<1>6. \A n \in 0..Depth : zero_hashes[n] =
        IF n = 0 THEN ZERO ELSE hash_merkle(zero_hashes[n - 1], zero_hashes[n - 1])
  BY <1>5 DEF IsZeros
<1>7. ASSUME NEW l \in 0..(Depth - 1)
      PROVE  zero_hashes[l + 1] = hash_merkle(zero_hashes[l], zero_hashes[l])
  <2>1. l + 1 \in 0..Depth /\ l + 1 # 0 /\ l + 1 - 1 = l
    OBVIOUS
  <2> QED BY <1>6, <2>1
<1> QED BY <1>6, <1>7

\* The positions of the ancestors of leaf x, up to level k.
IsPositions(x, k, p) == p = [l \in 0..k |-> IF l = 0 THEN x ELSE p[l - 1] \div 2]

\* The positions above a leaf: each is half the one below.
LEMMA PositionFacts ==
  ASSUME Depth \in Nat, NEW x \in Nat
  PROVE  /\ Positions(x)[0] = x
         /\ \A l \in 0..Depth : Positions(x)[l] \in Nat
         /\ \A l \in 0..(Depth - 1) : Positions(x)[l + 1] = Positions(x)[l] \div 2
<1> DEFINE T == {k \in Nat : \E p : IsPositions(x, k, p)}
<1>1. 0 \in T
  <2>1. IsPositions(x, 0, [n \in 0..0 |-> x])
    BY DEF IsPositions
  <2> QED BY <2>1
<1>2. ASSUME NEW k \in Nat, k \in T PROVE k + 1 \in T
  <2>1. PICK p : IsPositions(x, k, p)
    BY <1>2
  <2> DEFINE q == [n \in 0..(k + 1) |-> IF n <= k THEN p[n] ELSE p[k] \div 2]
  <2>2. \A n \in 0..k : p[n] = IF n = 0 THEN x ELSE p[n - 1] \div 2
    BY <2>1 DEF IsPositions
  <2>3. ASSUME NEW n \in 0..(k + 1) PROVE q[n] = IF n = 0 THEN x ELSE q[n - 1] \div 2
    BY <2>2
  <2>4. IsPositions(x, k + 1, q)
    BY <2>3 DEF IsPositions
  <2> QED BY <2>4
<1> HIDE DEF T
<1>3. Nat \subseteq T
  BY <1>1, <1>2, SetInduction
<1>4. \E p : IsPositions(x, Depth, p)
  BY <1>3 DEF T
<1>5. IsPositions(x, Depth, Positions(x))
  <2>1. IsPositions(x, Depth, CHOOSE p : IsPositions(x, Depth, p))
    BY <1>4
  <2>2. Positions(x) = CHOOSE p : IsPositions(x, Depth, p)
    BY DEF Positions, IsPositions
  <2> QED BY <2>1, <2>2
<1> DEFINE P == Positions(x)
<1> HIDE DEF P
<1>6. \A l \in 0..Depth : P[l] = IF l = 0 THEN x ELSE P[l - 1] \div 2
  BY <1>5 DEF IsPositions, P
<1>7. ASSUME NEW l \in 0..(Depth - 1) PROVE P[l + 1] = P[l] \div 2
  <2>1. l + 1 \in 0..Depth /\ l + 1 # 0 /\ l + 1 - 1 = l
    OBVIOUS
  <2> QED BY <1>6, <2>1
<1> DEFINE U == {l \in 0..Depth : P[l] \in Nat}
<1>8. 0 \in U
  BY <1>6
<1>9. ASSUME NEW l \in 0..(Depth - 1), l \in U PROVE l + 1 \in U
  BY <1>7, <1>9
<1> HIDE DEF U
<1>10. 0..Depth \subseteq U
  BY <1>8, <1>9, UpTo
<1> QED BY <1>6, <1>7, <1>10 DEF U, P

\* The levels the wallet computes, up to the k-th.
IsLevels(ls, k, L) ==
  L = [d \in 0..k |-> IF d = 0 THEN ls ELSE next_level(L[d - 1], d - 1)]

\* The levels MerkleTree rebuilds.
LEMMA LevelFacts ==
  ASSUME Depth \in Nat, NEW ls
  PROVE  /\ levels(ls)[0] = ls
         /\ \A d \in 0..(Depth - 1) : levels(ls)[d + 1] = next_level(levels(ls)[d], d)
<1> DEFINE T == {k \in Nat : \E L : IsLevels(ls, k, L)}
<1>1. 0 \in T
  <2>1. IsLevels(ls, 0, [d \in 0..0 |-> ls])
    BY DEF IsLevels
  <2> QED BY <2>1
<1>2. ASSUME NEW k \in Nat, k \in T PROVE k + 1 \in T
  <2>1. PICK L : IsLevels(ls, k, L)
    BY <1>2
  <2> DEFINE M == [d \in 0..(k + 1) |-> IF d <= k THEN L[d] ELSE next_level(L[k], k)]
  <2>2. \A d \in 0..k : L[d] = IF d = 0 THEN ls ELSE next_level(L[d - 1], d - 1)
    BY <2>1 DEF IsLevels
  <2>3. ASSUME NEW d \in 0..(k + 1)
        PROVE  M[d] = IF d = 0 THEN ls ELSE next_level(M[d - 1], d - 1)
    BY <2>2
  <2>4. IsLevels(ls, k + 1, M)
    BY <2>3 DEF IsLevels
  <2> QED BY <2>4
<1> HIDE DEF T
<1>3. Nat \subseteq T
  BY <1>1, <1>2, SetInduction
<1>4. \E L : IsLevels(ls, Depth, L)
  BY <1>3 DEF T
<1>5. IsLevels(ls, Depth, CHOOSE L : IsLevels(ls, Depth, L))
  BY <1>4
<1>6. levels(ls) = CHOOSE L : IsLevels(ls, Depth, L)
  BY DEF levels, IsLevels
<1> DEFINE L == levels(ls)
<1> HIDE DEF L
<1>7. \A d \in 0..Depth : L[d] = IF d = 0 THEN ls ELSE next_level(L[d - 1], d - 1)
  BY <1>5, <1>6 DEF IsLevels, L
<1>8. ASSUME NEW d \in 0..(Depth - 1) PROVE L[d + 1] = next_level(L[d], d)
  <2>1. d + 1 \in 0..Depth /\ d + 1 # 0 /\ d + 1 - 1 = d
    OBVIOUS
  <2> QED BY <1>7, <2>1
<1> QED BY <1>7, <1>8 DEF L

\* The parents of a complete level, n of them.
Parents(row, n) == [i \in 0..(n - 1) |-> hash_merkle(row[2 * i], row[2 * i + 1])]
\* The leaves of the complete tree.
Row(ls) == [i \in 0..(Pow2[Depth] - 1) |-> Leaf(ls, i)]

\* The levels of the complete tree, up to the k-th.
IsComplete(ls, k, N) ==
  N = [l \in 0..k |-> IF l = 0 THEN Row(ls) ELSE Parents(N[l - 1], Pow2[Depth - l])]

\* The complete tree: the leaves, and the pairs of the level below.
LEMMA CompleteFacts ==
  ASSUME Depth \in Nat, NEW ls
  PROVE  /\ \A i \in 0..(Pow2[Depth] - 1) : Complete(ls)[0][i] = Leaf(ls, i)
         /\ \A l \in 0..(Depth - 1) : \A i \in 0..(Pow2[Depth - (l + 1)] - 1) :
              Complete(ls)[l + 1][i] =
                hash_merkle(Complete(ls)[l][2 * i], Complete(ls)[l][2 * i + 1])
<1> DEFINE T == {k \in Nat : \E N : IsComplete(ls, k, N)}
<1>1. 0 \in T
  <2>1. IsComplete(ls, 0, [d \in 0..0 |-> Row(ls)])
    BY DEF IsComplete
  <2> QED BY <2>1
<1>2. ASSUME NEW k \in Nat, k \in T PROVE k + 1 \in T
  <2>1. PICK N : IsComplete(ls, k, N)
    BY <1>2
  <2> DEFINE M == [l \in 0..(k + 1) |->
                     IF l <= k THEN N[l] ELSE Parents(N[k], Pow2[Depth - (k + 1)])]
  <2>2. \A l \in 0..k : N[l] = IF l = 0 THEN Row(ls) ELSE Parents(N[l - 1], Pow2[Depth - l])
    BY <2>1 DEF IsComplete
  <2>3. ASSUME NEW l \in 0..(k + 1)
        PROVE  M[l] = IF l = 0 THEN Row(ls) ELSE Parents(M[l - 1], Pow2[Depth - l])
    <3>1. CASE l <= k
      BY <2>2, <3>1
    <3>2. CASE l = k + 1
      <4>1. M[l] = Parents(N[k], Pow2[Depth - (k + 1)]) /\ M[l - 1] = N[k] /\ l # 0
        BY <3>2
      <4> QED BY <4>1, <3>2
    <3> QED BY <3>1, <3>2
  <2>4. IsComplete(ls, k + 1, M)
    BY <2>3 DEF IsComplete
  <2> QED BY <2>4
<1> HIDE DEF T
<1>3. Nat \subseteq T
  BY <1>1, <1>2, SetInduction
<1>4. \E N : IsComplete(ls, Depth, N)
  BY <1>3 DEF T
<1>5. IsComplete(ls, Depth, CHOOSE N : IsComplete(ls, Depth, N))
  BY <1>4
<1>6. Complete(ls) = CHOOSE N : IsComplete(ls, Depth, N)
  BY DEF Complete, IsComplete, Row, Parents
<1> DEFINE N == Complete(ls)
<1> HIDE DEF N
<1>7. \A l \in 0..Depth : N[l] = IF l = 0 THEN Row(ls) ELSE Parents(N[l - 1], Pow2[Depth - l])
  BY <1>5, <1>6 DEF IsComplete, N
<1>8. ASSUME NEW l \in 0..(Depth - 1), NEW i \in 0..(Pow2[Depth - (l + 1)] - 1)
      PROVE  N[l + 1][i] = hash_merkle(N[l][2 * i], N[l][2 * i + 1])
  <2>1. l + 1 \in 0..Depth /\ l + 1 # 0 /\ l + 1 - 1 = l
    OBVIOUS
  <2>2. N[l + 1] = Parents(N[l], Pow2[Depth - (l + 1)])
    BY <1>7, <2>1
  <2> QED BY <2>2 DEF Parents
<1>9. N[0] = Row(ls)
  BY <1>7
<1>10. \A i \in 0..(Pow2[Depth] - 1) : N[0][i] = Leaf(ls, i)
  BY <1>9 DEF Row
<1> QED BY <1>8, <1>10 DEF N

\* One level of the frontier's climb, from at, for a node at an even or odd
\* position.
Climbed(at, l, bit) ==
  LET b == at.branches
  IN  CASE ~at.ok -> at
        [] at.ok /\ bit = 0 ->
             [at EXCEPT !.branches = write_branch(b, l, at.root),
                        !.root = hash_merkle(@, zero_hashes[l])]
        [] at.ok /\ bit = 1 /\ l \in DOMAIN b ->
             [at EXCEPT !.root = hash_merkle(b[l], @)]
        [] OTHER -> [at EXCEPT !.ok = FALSE]

\* What the append of cm at position x carries up, up to level k.
IsClimb(b, x, cm, k, C) ==
  C = [l \in 0..k |-> IF l = 0 THEN [ok |-> TRUE, root |-> cm, branches |-> b]
                      ELSE Climbed(C[l - 1], l - 1, Bit(x, l - 1))]

\* The same up to the root, level by level.
Climbs(b, x, cm, C) ==
  /\ C[0] = [ok |-> TRUE, root |-> cm, branches |-> b]
  /\ \A l \in 0..(Depth - 1) : C[l + 1] = Climbed(C[l], l, Bit(x, l))
  /\ simulate_frontier_append(b, x, cm) = C[Depth]

\* The frontier's append climbs level by level.
LEMMA ClimbFacts ==
  ASSUME Depth \in Nat, NEW b, NEW x, NEW cm
  PROVE  \E C : Climbs(b, x, cm, C)
<1> DEFINE T == {k \in Nat : \E C : IsClimb(b, x, cm, k, C)}
           start == [ok |-> TRUE, root |-> cm, branches |-> b]
<1>1. 0 \in T
  <2>1. IsClimb(b, x, cm, 0, [d \in 0..0 |-> start])
    BY DEF IsClimb
  <2> QED BY <2>1
<1>2. ASSUME NEW k \in Nat, k \in T PROVE k + 1 \in T
  <2>1. PICK C : IsClimb(b, x, cm, k, C)
    BY <1>2
  <2> HIDE DEF start
  <2> DEFINE M == [l \in 0..(k + 1) |-> IF l <= k THEN C[l] ELSE Climbed(C[k], k, Bit(x, k))]
  <2>2. \A l \in 0..k : C[l] = IF l = 0 THEN start ELSE Climbed(C[l - 1], l - 1, Bit(x, l - 1))
    BY <2>1 DEF IsClimb, start
  <2>3. ASSUME NEW l \in 0..(k + 1)
        PROVE  M[l] = IF l = 0 THEN start ELSE Climbed(M[l - 1], l - 1, Bit(x, l - 1))
    BY <2>2
  <2>4. IsClimb(b, x, cm, k + 1, M)
    BY <2>3 DEF IsClimb, start
  <2> QED BY <2>4
<1> HIDE DEF T
<1>3. Nat \subseteq T
  BY <1>1, <1>2, SetInduction
<1>4. \E C : IsClimb(b, x, cm, Depth, C)
  BY <1>3 DEF T
<1> DEFINE C == CHOOSE D : IsClimb(b, x, cm, Depth, D)
<1>5. IsClimb(b, x, cm, Depth, C)
  BY <1>4
<1>6. simulate_frontier_append(b, x, cm) = C[Depth]
  BY DEF simulate_frontier_append, IsClimb, Climbed
<1> HIDE DEF start, C
<1>7. \A l \in 0..Depth : C[l] = IF l = 0 THEN start ELSE Climbed(C[l - 1], l - 1, Bit(x, l - 1))
  BY <1>5 DEF IsClimb, start
<1>8. ASSUME NEW l \in 0..(Depth - 1) PROVE C[l + 1] = Climbed(C[l], l, Bit(x, l))
  <2>1. l + 1 \in 0..Depth /\ l + 1 # 0 /\ l + 1 - 1 = l
    OBVIOUS
  <2> QED BY <1>7, <2>1
<1>9. C[0] = start
  BY <1>7
<1>10. Climbs(b, x, cm, C)
  BY <1>6, <1>8, <1>9 DEF start, Climbs
<1> QED BY <1>10

\* One step of the circuit's walk.
Walked(w, sibling, bit) == IF bit = 1 THEN hash_merkle(sibling, w) ELSE hash_merkle(w, sibling)

\* What a witness hashes to, up to level k.
IsWalk(leaf, siblings, x, k, V) ==
  V = [d \in 0..k |-> IF d = 0 THEN leaf ELSE Walked(V[d - 1], siblings[d], Bit(x, d - 1))]

\* The same up to the root, level by level.
Walks(leaf, siblings, x, V) ==
  /\ V[0] = leaf
  /\ \A d \in 0..(Depth - 1) : V[d + 1] = Walked(V[d], siblings[d + 1], Bit(x, d))
  /\ RootFrom(leaf, siblings, x) = V[Depth]

\* The circuit walks from the leaf to the root.
LEMMA WalkFacts ==
  ASSUME Depth \in Nat, NEW leaf, NEW siblings, NEW x
  PROVE  \E V : Walks(leaf, siblings, x, V)
<1> DEFINE T == {k \in Nat : \E V : IsWalk(leaf, siblings, x, k, V)}
<1>1. 0 \in T
  <2>1. IsWalk(leaf, siblings, x, 0, [d \in 0..0 |-> leaf])
    BY DEF IsWalk
  <2> QED BY <2>1
<1>2. ASSUME NEW k \in Nat, k \in T PROVE k + 1 \in T
  <2>1. PICK V : IsWalk(leaf, siblings, x, k, V)
    BY <1>2
  <2> DEFINE M == [d \in 0..(k + 1) |->
                     IF d <= k THEN V[d] ELSE Walked(V[k], siblings[k + 1], Bit(x, k))]
  <2>2. \A d \in 0..k : V[d] = IF d = 0 THEN leaf ELSE Walked(V[d - 1], siblings[d], Bit(x, d - 1))
    BY <2>1 DEF IsWalk
  <2>3. ASSUME NEW d \in 0..(k + 1)
        PROVE  M[d] = IF d = 0 THEN leaf ELSE Walked(M[d - 1], siblings[d], Bit(x, d - 1))
    <3>1. CASE d <= k
      BY <2>2, <3>1
    <3>2. CASE d = k + 1
      <4>1. M[d] = Walked(V[k], siblings[k + 1], Bit(x, k)) /\ M[d - 1] = V[k] /\ d # 0 /\ d - 1 = k
        BY <3>2
      <4> QED BY <4>1, <3>2
    <3> QED BY <3>1, <3>2
  <2>4. IsWalk(leaf, siblings, x, k + 1, M)
    BY <2>3 DEF IsWalk
  <2> QED BY <2>4
<1> HIDE DEF T
<1>3. Nat \subseteq T
  BY <1>1, <1>2, SetInduction
<1>4. \E V : IsWalk(leaf, siblings, x, Depth, V)
  BY <1>3 DEF T
<1> DEFINE V == CHOOSE D : IsWalk(leaf, siblings, x, Depth, D)
<1>5. IsWalk(leaf, siblings, x, Depth, V)
  BY <1>4
<1>6. RootFrom(leaf, siblings, x) = V[Depth]
  BY DEF RootFrom, IsWalk, Walked
<1> HIDE DEF V
<1>7. \A d \in 0..Depth : V[d] = IF d = 0 THEN leaf ELSE Walked(V[d - 1], siblings[d], Bit(x, d - 1))
  BY <1>5 DEF IsWalk
<1>8. ASSUME NEW d \in 0..(Depth - 1)
      PROVE  V[d + 1] = Walked(V[d], siblings[d + 1], Bit(x, d))
  <2>1. d + 1 \in 0..Depth /\ d + 1 # 0 /\ d + 1 - 1 = d
    OBVIOUS
  <2> QED BY <1>7, <2>1
<1>9. V[0] = leaf
  BY <1>7
<1>10. Walks(leaf, siblings, x, V)
  BY <1>6, <1>8, <1>9 DEF Walks
<1> QED BY <1>10

-----------------------------------------------------------------------------
(***************************************************************************)
(* Positions.                                                              *)
(***************************************************************************)
\* A level of 2^(Depth - l) nodes has twice as many below it.
LEMMA Widths ==
  ASSUME Depth \in Nat, NEW l \in 0..(Depth - 1)
  PROVE  /\ Pow2[Depth - l] = 2 * Pow2[Depth - (l + 1)]
         /\ Pow2[Depth - (l + 1)] \in Nat \ {0}
<1>1. Depth - (l + 1) \in Nat /\ Depth - (l + 1) + 1 = Depth - l
  OBVIOUS
<1> QED BY <1>1, Pow2Facts

\* An index below 2^Depth keeps to the tree all the way up, to its root.
LEMMA PositionBound ==
  ASSUME Depth \in Nat, NEW x \in Nat, x < Pow2[Depth]
  PROVE  /\ \A l \in 0..Depth : Positions(x)[l] \in 0..(Pow2[Depth - l] - 1)
         /\ Positions(x)[Depth] = 0
<1> DEFINE P == Positions(x)
           T == {l \in 0..Depth : P[l] < Pow2[Depth - l]}
<1>1. /\ P[0] = x
      /\ \A l \in 0..Depth : P[l] \in Nat
      /\ \A l \in 0..(Depth - 1) : P[l + 1] = P[l] \div 2
  BY PositionFacts
<1> HIDE DEF P
<1>2. 0 \in T
  BY <1>1
<1>3. ASSUME NEW l \in 0..(Depth - 1), l \in T PROVE l + 1 \in T
  <2>1. P[l] \in Nat /\ P[l + 1] = P[l] \div 2 /\ P[l] < Pow2[Depth - l]
    BY <1>1, <1>3
  <2>2. P[l] \div 2 < Pow2[Depth - (l + 1)]
    BY <2>1, Widths
  <2> QED BY <2>1, <2>2
<1>4. 0..Depth \subseteq T
  <2> HIDE DEF T
  <2> QED BY <1>2, <1>3, UpTo
<1>5. ASSUME NEW l \in 0..Depth PROVE P[l] \in 0..(Pow2[Depth - l] - 1)
  <2>1. Pow2[Depth - l] \in Nat
    BY Pow2Facts
  <2> QED BY <1>1, <1>4, <2>1
<1>6. P[Depth] = 0
  <2>1. Depth - Depth = 0 /\ Depth \in 0..Depth
    OBVIOUS
  <2>2. P[Depth] \in 0..(Pow2[0] - 1)
    BY <1>5, <2>1
  <2> QED BY <2>2, Pow2Facts
<1> QED BY <1>5, <1>6 DEF P

\* An index whose walk ends at the root is below 2^Depth.
LEMMA PositionRoot ==
  ASSUME Depth \in Nat, NEW x \in Nat, Positions(x)[Depth] = 0
  PROVE  x < Pow2[Depth]
<1> DEFINE P == Positions(x)
           T == {l \in 0..Depth : P[l] < Pow2[Depth - l]}
<1>1. /\ P[0] = x
      /\ \A l \in 0..Depth : P[l] \in Nat
      /\ \A l \in 0..(Depth - 1) : P[l + 1] = P[l] \div 2
      /\ P[Depth] = 0
  BY PositionFacts
<1> HIDE DEF P
<1>2. Depth \in T
  <2>1. Depth - Depth = 0
    OBVIOUS
  <2> QED BY <1>1, <2>1, Pow2Facts
<1>3. ASSUME NEW l \in 0..(Depth - 1), l + 1 \in T PROVE l \in T
  <2>1. P[l] \in Nat /\ P[l + 1] = P[l] \div 2 /\ P[l + 1] < Pow2[Depth - (l + 1)]
    BY <1>1, <1>3
  <2>2. P[l] < 2 * Pow2[Depth - (l + 1)]
    BY <2>1, Widths
  <2> QED BY <2>2, Widths
<1>4. 0..Depth \subseteq T
  <2> HIDE DEF T
  <2> QED BY <1>2, <1>3, DownFrom
<1>5. P[0] < Pow2[Depth - 0] /\ Depth - 0 = Depth
  BY <1>4
<1> QED BY <1>1, <1>5

\* The positions of the next index are the same, or one further.
LEMMA NextPosition ==
  ASSUME Depth \in Nat, NEW x \in Nat
  PROVE  \A l \in 0..Depth : Positions(x + 1)[l] \in {Positions(x)[l], Positions(x)[l] + 1}
<1> DEFINE P == Positions(x)
           Q == Positions(x + 1)
           T == {l \in 0..Depth : Q[l] \in {P[l], P[l] + 1}}
<1>1. /\ P[0] = x
      /\ \A l \in 0..Depth : P[l] \in Nat
      /\ \A l \in 0..(Depth - 1) : P[l + 1] = P[l] \div 2
  BY PositionFacts
<1>2. /\ Q[0] = x + 1
      /\ \A l \in 0..Depth : Q[l] \in Nat
      /\ \A l \in 0..(Depth - 1) : Q[l + 1] = Q[l] \div 2
  BY PositionFacts
<1> HIDE DEF P, Q
<1>3. 0 \in T
  BY <1>1, <1>2
<1>4. ASSUME NEW l \in 0..(Depth - 1), l \in T PROVE l + 1 \in T
  <2>1. P[l] \in Nat /\ P[l + 1] = P[l] \div 2 /\ Q[l + 1] = Q[l] \div 2
    BY <1>1, <1>2
  <2>2. Q[l] = P[l] \/ Q[l] = P[l] + 1
    BY <1>4
  <2> QED BY <2>1, <2>2
<1>5. 0..Depth \subseteq T
  <2> HIDE DEF T
  <2> QED BY <1>3, <1>4, UpTo
<1> QED BY <1>5 DEF P, Q

-----------------------------------------------------------------------------
(***************************************************************************)
(* The wallet's levels are the complete tree, without the empty right.     *)
(***************************************************************************)
\* The length of a level, and its nodes.
LEMMA NextLevel ==
  ASSUME NEW S, NEW level \in Seq(S), NEW d
  PROVE  LET n == IF level = <<>> THEN 1 ELSE (Len(level) + 1) \div 2
         IN  /\ n \in Nat
             /\ \E R : next_level(level, d) \in Seq(R)
             /\ Len(next_level(level, d)) = n
             /\ \A i \in 1..n : next_level(level, d)[i] =
                  hash_merkle(NodeOrZero(level, 2 * i - 1, d), NodeOrZero(level, 2 * i, d))
<1> DEFINE n == IF level = <<>> THEN 1 ELSE (Len(level) + 1) \div 2
           f == next_level(level, d)
           e(i) == hash_merkle(NodeOrZero(level, 2 * i - 1, d), NodeOrZero(level, 2 * i, d))
           R == {e(i) : i \in 1..n}
<1>1. n \in Nat
  <2>1. Len(level) \in Nat
    BY LenProperties
  <2> QED BY <2>1
<1>2. f = [i \in 1..n |-> e(i)]
  BY DEF next_level
<1> HIDE DEF n, f, e
<1>3. f \in [1..n -> R]
  BY <1>2
<1>4. f \in Seq(R) /\ Len(f) = n
  BY <1>1, <1>3, FunctionIsSeq
<1>5. \A i \in 1..n : f[i] = e(i)
  BY <1>2
<1> HIDE DEF R
<1>6. \E Q : f \in Seq(Q)
  BY <1>4
<1> QED BY <1>1, <1>4, <1>5, <1>6 DEF n, f, e

\* Every level of the wallet's tree is a sequence.
LEMMA LevelsAreSeqs ==
  ASSUME Depth \in Nat, NEW S, NEW ls \in Seq(S)
  PROVE  \A d \in 0..Depth : \E R : levels(ls)[d] \in Seq(R)
<1> DEFINE L == levels(ls)
           T == {d \in 0..Depth : \E R : L[d] \in Seq(R)}
<1>1. L[0] = ls /\ \A d \in 0..(Depth - 1) : L[d + 1] = next_level(L[d], d)
  BY LevelFacts
<1> HIDE DEF L
<1>2. 0 \in T
  BY <1>1
<1>3. ASSUME NEW d \in 0..(Depth - 1), d \in T PROVE d + 1 \in T
  <2>1. PICK R : L[d] \in Seq(R)
    BY <1>3
  <2>2. \E Q : next_level(L[d], d) \in Seq(Q)
    BY <2>1, NextLevel
  <2>3. \E Q : L[d + 1] \in Seq(Q)
    BY <1>1, <2>2
  <2> QED BY <2>3
<1>4. 0..Depth \subseteq T
  <2> HIDE DEF T
  <2> QED BY <1>2, <1>3, UpTo
<1> QED BY <1>4 DEF L

\* A node of the wallet's level d, or the empty subtree past its end, is the
\* node of the complete tree.
LEMMA LevelsAgree ==
  ASSUME Depth \in Nat, NEW S, NEW ls \in Seq(S)
  PROVE  \A d \in 0..Depth : \A i \in 0..(Pow2[Depth - d] - 1) :
           NodeOrZero(levels(ls)[d], i + 1, d) = Complete(ls)[d][i]
<1> DEFINE L == levels(ls)
           N == Complete(ls)
           T == {d \in 0..Depth : \A i \in 0..(Pow2[Depth - d] - 1) :
                   NodeOrZero(L[d], i + 1, d) = N[d][i]}
<1>1. L[0] = ls /\ \A d \in 0..(Depth - 1) : L[d + 1] = next_level(L[d], d)
  BY LevelFacts
<1>2. /\ \A i \in 0..(Pow2[Depth] - 1) : N[0][i] = Leaf(ls, i)
      /\ \A l \in 0..(Depth - 1) : \A i \in 0..(Pow2[Depth - (l + 1)] - 1) :
           N[l + 1][i] = hash_merkle(N[l][2 * i], N[l][2 * i + 1])
  BY CompleteFacts
<1>3. \A d \in 0..Depth : \E R : L[d] \in Seq(R)
  BY LevelsAreSeqs
<1> HIDE DEF L, N
<1>4. 0 \in T
  <2>0. Depth - 0 = Depth
    OBVIOUS
  <2>1. Depth - 0 = Depth /\ Pow2[Depth] \in Nat
    BY <2>0, Pow2Facts
  <2>2. ASSUME NEW i \in 0..(Pow2[Depth - 0] - 1)
        PROVE  NodeOrZero(L[0], i + 1, 0) = N[0][i]
    <3>1. N[0][i] = Leaf(ls, i) /\ i \in Nat
      BY <1>2, <2>1
    <3>2. Len(ls) \in Nat
      BY LenProperties
    <3> QED BY <1>1, <3>1, <3>2, ZeroFacts DEF NodeOrZero, Leaf
  <2> QED BY <2>2
<1>5. ASSUME NEW d \in 0..(Depth - 1), d \in T PROVE d + 1 \in T
  <2>1. PICK R : L[d] \in Seq(R)
    BY <1>3
  <2> DEFINE n == IF L[d] = <<>> THEN 1 ELSE (Len(L[d]) + 1) \div 2
  <2>2. /\ n \in Nat
        /\ Len(L[d + 1]) = n
        /\ \A i \in 1..n : L[d + 1][i] =
             hash_merkle(NodeOrZero(L[d], 2 * i - 1, d), NodeOrZero(L[d], 2 * i, d))
    <3>1. L[d + 1] = next_level(L[d], d)
      BY <1>1
    <3>2. LET m == IF L[d] = <<>> THEN 1 ELSE (Len(L[d]) + 1) \div 2
          IN  /\ m \in Nat
              /\ Len(next_level(L[d], d)) = m
              /\ \A i \in 1..m : next_level(L[d], d)[i] =
                   hash_merkle(NodeOrZero(L[d], 2 * i - 1, d), NodeOrZero(L[d], 2 * i, d))
      BY <2>1, NextLevel
    <3> QED BY <3>1, <3>2
  <2>3. Len(L[d]) \in Nat /\ (L[d] = <<>> => Len(L[d]) = 0)
    BY <2>1, LenProperties
  <2>4. 2 * n >= Len(L[d])
    <3> DEFINE k == Len(L[d])
    <3>1. k \in Nat
      BY <2>3
    <3>2. CASE L[d] = <<>>
      BY <2>3, <3>2
    <3>3. CASE L[d] # <<>>
      <4>1. n = (k + 1) \div 2
        BY <3>3
      <4> HIDE DEF k, n
      <4>2. 2 * n >= k
        BY <3>1, <4>1
      <4> QED BY <4>2 DEF k
    <3> QED BY <3>2, <3>3
  <2> HIDE DEF n
  <2>5. ASSUME NEW i \in 0..(Pow2[Depth - (d + 1)] - 1)
        PROVE  NodeOrZero(L[d + 1], i + 1, d + 1) = N[d + 1][i]
    <3>1. /\ i \in Nat
          /\ 2 * i \in 0..(Pow2[Depth - d] - 1)
          /\ 2 * i + 1 \in 0..(Pow2[Depth - d] - 1)
      BY Widths
    <3>2. /\ NodeOrZero(L[d], 2 * i + 1, d) = N[d][2 * i]
          /\ NodeOrZero(L[d], 2 * i + 1 + 1, d) = N[d][2 * i + 1]
      BY <1>5, <3>1
    <3>3. N[d + 1][i] = hash_merkle(N[d][2 * i], N[d][2 * i + 1])
      BY <1>2
    <3>4. CASE i + 1 <= n
      <4>1. i + 1 \in 1..n /\ 2 * (i + 1) - 1 = 2 * i + 1 /\ 2 * (i + 1) = 2 * i + 1 + 1
        BY <2>2, <3>1, <3>4
      <4>2. L[d + 1][i + 1] =
              hash_merkle(NodeOrZero(L[d], 2 * i + 1, d), NodeOrZero(L[d], 2 * i + 1 + 1, d))
        BY <2>2, <4>1
      <4>3. NodeOrZero(L[d + 1], i + 1, d + 1) = L[d + 1][i + 1]
        BY <2>2, <3>4 DEF NodeOrZero
      <4> QED BY <3>2, <3>3, <4>2, <4>3
    <3>5. CASE i + 1 > n
      <4>1. 2 * i + 1 > Len(L[d]) /\ 2 * i + 1 + 1 > Len(L[d])
        BY <2>2, <2>3, <2>4, <3>1, <3>5
      <4>2. /\ NodeOrZero(L[d], 2 * i + 1, d) = zero_hashes[d]
            /\ NodeOrZero(L[d], 2 * i + 1 + 1, d) = zero_hashes[d]
        BY <2>3, <3>1, <4>1 DEF NodeOrZero
      <4>3. NodeOrZero(L[d + 1], i + 1, d + 1) = zero_hashes[d + 1]
        BY <2>2, <3>1, <3>5 DEF NodeOrZero
      <4> QED BY <3>2, <3>3, <4>2, <4>3, ZeroFacts
    <3> QED BY <2>2, <3>1, <3>4, <3>5
  <2> QED BY <2>5
<1>6. 0..Depth \subseteq T
  <2> HIDE DEF T
  <2> QED BY <1>4, <1>5, UpTo
<1> QED BY <1>6 DEF L, N

\* The root the wallet rebuilds is the complete tree's.
LEMMA WalletRoot ==
  ASSUME Depth \in Nat, NEW S, NEW ls \in Seq(S)
  PROVE  tree_root(ls) = ReferenceRoot(ls)
<1>1. Depth \in 0..Depth /\ Depth - Depth = 0 /\ 0 \in 0..(Pow2[0] - 1) /\ 0 + 1 = 1
  BY Pow2Facts
<1>2. NodeOrZero(levels(ls)[Depth], 0 + 1, Depth) = Complete(ls)[Depth][0]
  BY <1>1, LevelsAgree
<1> QED BY <1>1, <1>2 DEF tree_root, ReferenceRoot

-----------------------------------------------------------------------------
(***************************************************************************)
(* The frontier.                                                           *)
(***************************************************************************)
\* The complete tree of no leaves is empty subtrees.
LEMMA EmptyTree ==
  ASSUME Depth \in Nat
  PROVE  ReferenceRoot(<<>>) = zero_hashes[Depth]
<1> DEFINE N == Complete(<<>>)
           T == {l \in 0..Depth : \A i \in 0..(Pow2[Depth - l] - 1) : N[l][i] = zero_hashes[l]}
<1>1. /\ \A i \in 0..(Pow2[Depth] - 1) : N[0][i] = Leaf(<<>>, i)
      /\ \A l \in 0..(Depth - 1) : \A i \in 0..(Pow2[Depth - (l + 1)] - 1) :
           N[l + 1][i] = hash_merkle(N[l][2 * i], N[l][2 * i + 1])
  BY CompleteFacts
<1> HIDE DEF N
<1>2. 0 \in T
  <2>1. Depth - 0 = Depth
    OBVIOUS
  <2>2. Pow2[Depth] \in Nat
    BY Pow2Facts
  <2>3. ASSUME NEW i \in 0..(Pow2[Depth] - 1) PROVE N[0][i] = zero_hashes[0]
    <3>1. ~(i < Len(<<>>))
      BY <2>2
    <3> QED BY <1>1, <3>1, ZeroFacts DEF Leaf
  <2> QED BY <2>1, <2>3
<1>3. ASSUME NEW l \in 0..(Depth - 1), l \in T PROVE l + 1 \in T
  <2>1. ASSUME NEW i \in 0..(Pow2[Depth - (l + 1)] - 1) PROVE N[l + 1][i] = zero_hashes[l + 1]
    <3>1. /\ 2 * i \in 0..(Pow2[Depth - l] - 1)
          /\ 2 * i + 1 \in 0..(Pow2[Depth - l] - 1)
      BY Widths
    <3>2. N[l][2 * i] = zero_hashes[l] /\ N[l][2 * i + 1] = zero_hashes[l]
      BY <1>3, <3>1
    <3> QED BY <1>1, <3>2, ZeroFacts
  <2> QED BY <2>1
<1>4. 0..Depth \subseteq T
  <2> HIDE DEF T
  <2> QED BY <1>2, <1>3, UpTo
<1>5. Depth \in 0..Depth /\ Depth - Depth = 0 /\ 0 \in 0..(Pow2[0] - 1)
  BY Pow2Facts
<1>6. N[Depth][0] = zero_hashes[Depth]
  BY <1>4, <1>5
<1> QED BY <1>6 DEF ReferenceRoot, N

\* Right of the last leaf, at every level, the subtrees are empty.
LEMMA RightIsEmpty ==
  ASSUME Depth \in Nat, NEW S, NEW ls \in Seq(S), NEW x \in Nat, Len(ls) = x + 1
  PROVE  \A l \in 0..Depth : \A i \in 0..(Pow2[Depth - l] - 1) :
           i > Positions(x)[l] => Complete(ls)[l][i] = zero_hashes[l]
<1> DEFINE N == Complete(ls)
           P == Positions(x)
           T == {l \in 0..Depth : \A i \in 0..(Pow2[Depth - l] - 1) :
                   i > P[l] => N[l][i] = zero_hashes[l]}
<1>1. /\ \A i \in 0..(Pow2[Depth] - 1) : N[0][i] = Leaf(ls, i)
      /\ \A l \in 0..(Depth - 1) : \A i \in 0..(Pow2[Depth - (l + 1)] - 1) :
           N[l + 1][i] = hash_merkle(N[l][2 * i], N[l][2 * i + 1])
  BY CompleteFacts
<1>2. /\ P[0] = x
      /\ \A l \in 0..Depth : P[l] \in Nat
      /\ \A l \in 0..(Depth - 1) : P[l + 1] = P[l] \div 2
  BY PositionFacts
<1> HIDE DEF N, P
<1>3. 0 \in T
  <2>1. Depth - 0 = Depth
    OBVIOUS
  <2>2. Pow2[Depth] \in Nat
    BY Pow2Facts
  <2>3. ASSUME NEW i \in 0..(Pow2[Depth] - 1), i > P[0] PROVE N[0][i] = zero_hashes[0]
    <3>1. ~(i < Len(ls))
      BY <1>2, <2>2, <2>3
    <3> QED BY <1>1, <3>1, ZeroFacts DEF Leaf
  <2> QED BY <2>1, <2>3
<1>4. ASSUME NEW l \in 0..(Depth - 1), l \in T PROVE l + 1 \in T
  <2>1. ASSUME NEW i \in 0..(Pow2[Depth - (l + 1)] - 1), i > P[l + 1]
        PROVE  N[l + 1][i] = zero_hashes[l + 1]
    <3>1. /\ i \in Nat
          /\ 2 * i \in 0..(Pow2[Depth - l] - 1)
          /\ 2 * i + 1 \in 0..(Pow2[Depth - l] - 1)
      BY Widths
    <3>2. P[l] \in Nat /\ P[l + 1] = P[l] \div 2
      BY <1>2
    <3>3. 2 * i > P[l] /\ 2 * i + 1 > P[l]
      BY <2>1, <3>1, <3>2
    <3>4. N[l][2 * i] = zero_hashes[l] /\ N[l][2 * i + 1] = zero_hashes[l]
      BY <1>4, <3>1, <3>3
    <3> QED BY <1>1, <3>4, ZeroFacts
  <2> QED BY <2>1
<1>5. 0..Depth \subseteq T
  <2> HIDE DEF T
  <2> QED BY <1>3, <1>4, UpTo
<1> QED BY <1>5 DEF N, P

\* Left of a new leaf, at every level, nothing changes.
LEMMA LeftUnchanged ==
  ASSUME Depth \in Nat, NEW S, NEW ls \in Seq(S), NEW cm \in S
  PROVE  \A l \in 0..Depth : \A i \in 0..(Pow2[Depth - l] - 1) :
           i < Positions(Len(ls))[l] => Complete(Append(ls, cm))[l][i] = Complete(ls)[l][i]
<1> DEFINE N == Complete(ls)
           M == Complete(Append(ls, cm))
           P == Positions(Len(ls))
           T == {l \in 0..Depth : \A i \in 0..(Pow2[Depth - l] - 1) :
                   i < P[l] => M[l][i] = N[l][i]}
<1>0. Len(ls) \in Nat
  BY LenProperties
<1>1. /\ \A i \in 0..(Pow2[Depth] - 1) : N[0][i] = Leaf(ls, i)
      /\ \A l \in 0..(Depth - 1) : \A i \in 0..(Pow2[Depth - (l + 1)] - 1) :
           N[l + 1][i] = hash_merkle(N[l][2 * i], N[l][2 * i + 1])
  BY CompleteFacts
<1>2. /\ \A i \in 0..(Pow2[Depth] - 1) : M[0][i] = Leaf(Append(ls, cm), i)
      /\ \A l \in 0..(Depth - 1) : \A i \in 0..(Pow2[Depth - (l + 1)] - 1) :
           M[l + 1][i] = hash_merkle(M[l][2 * i], M[l][2 * i + 1])
  BY CompleteFacts
<1>3. /\ P[0] = Len(ls)
      /\ \A l \in 0..Depth : P[l] \in Nat
      /\ \A l \in 0..(Depth - 1) : P[l + 1] = P[l] \div 2
  BY <1>0, PositionFacts
<1> HIDE DEF N, M, P
<1>4. 0 \in T
  <2>1. Depth - 0 = Depth
    OBVIOUS
  <2>2. Pow2[Depth] \in Nat
    BY Pow2Facts
  <2>3. ASSUME NEW i \in 0..(Pow2[Depth] - 1), i < P[0] PROVE M[0][i] = N[0][i]
    <3>1. i < Len(ls) /\ i + 1 \in 1..Len(ls)
      BY <1>0, <1>3, <2>2, <2>3
    <3>2. i < Len(Append(ls, cm)) /\ Append(ls, cm)[i + 1] = ls[i + 1]
      BY <1>0, <2>2, <3>1, AppendProperties
    <3> QED BY <1>1, <1>2, <3>1, <3>2 DEF Leaf
  <2> QED BY <2>1, <2>3
<1>5. ASSUME NEW l \in 0..(Depth - 1), l \in T PROVE l + 1 \in T
  <2>1. ASSUME NEW i \in 0..(Pow2[Depth - (l + 1)] - 1), i < P[l + 1]
        PROVE  M[l + 1][i] = N[l + 1][i]
    <3>1. /\ i \in Nat
          /\ 2 * i \in 0..(Pow2[Depth - l] - 1)
          /\ 2 * i + 1 \in 0..(Pow2[Depth - l] - 1)
      BY Widths
    <3>2. P[l] \in Nat /\ P[l + 1] = P[l] \div 2
      BY <1>3
    <3>3. 2 * i < P[l] /\ 2 * i + 1 < P[l]
      BY <2>1, <3>1, <3>2
    <3>4. M[l][2 * i] = N[l][2 * i] /\ M[l][2 * i + 1] = N[l][2 * i + 1]
      BY <1>5, <3>1, <3>3
    <3> QED BY <1>1, <1>2, <3>4
  <2> QED BY <2>1
<1>6. 0..Depth \subseteq T
  <2> HIDE DEF T
  <2> QED BY <1>4, <1>5, UpTo
<1> QED BY <1>6 DEF N, M, P

\* The frontier of a tree: at each level where the next leaf is under a right
\* child, its left sibling.
Frontier(ls, b) ==
  \A l \in 0..(Depth - 1) :
    Bit(Len(ls), l) = 1 =>
      l \in DOMAIN b /\ b[l] = Complete(ls)[l][Positions(Len(ls))[l] - 1]

\* What one level of the climb does.
LEMMA ClimbedFacts ==
  ASSUME NEW r, NEW b, NEW l
  PROVE  /\ Climbed([ok |-> TRUE, root |-> r, branches |-> b], l, 0)
              = [ok |-> TRUE, root |-> hash_merkle(r, zero_hashes[l]),
                 branches |-> write_branch(b, l, r)]
         /\ l \in DOMAIN b =>
              Climbed([ok |-> TRUE, root |-> r, branches |-> b], l, 1)
                = [ok |-> TRUE, root |-> hash_merkle(b[l], r), branches |-> b]
<1> DEFINE at == [ok |-> TRUE, root |-> r, branches |-> b]
<1>1. at.ok = TRUE /\ at.root = r /\ at.branches = b
  OBVIOUS
<1>2. Climbed(at, l, 0) = [at EXCEPT !.branches = write_branch(b, l, r),
                                     !.root = hash_merkle(@, zero_hashes[l])]
  BY <1>1 DEF Climbed
<1>3. l \in DOMAIN b => Climbed(at, l, 1) = [at EXCEPT !.root = hash_merkle(b[l], @)]
  BY <1>1 DEF Climbed
<1> QED BY <1>2, <1>3

\* Siblings: an even node has the one to its right, an odd node the one to its
\* left, in a level with an even number of nodes.
LEMMA EvenOdd ==
  ASSUME NEW w \in Nat, NEW p \in 0..(2 * w - 1)
  PROVE  /\ p % 2 \in {0, 1}
         /\ p % 2 = 0 => /\ 2 * (p \div 2) = p
                         /\ p + 1 \in 0..(2 * w - 1) /\ p + 1 > p
         /\ p % 2 = 1 => /\ 2 * (p \div 2) = p - 1 /\ 2 * (p \div 2) + 1 = p
                         /\ p - 1 \in 0..(2 * w - 1) /\ p - 1 < p
OBVIOUS

\* An append to a tree that is not full finds every left node it needs, gives
\* the root of the complete tree with the new leaf, and leaves its frontier.
LEMMA FrontierAppend ==
  ASSUME Depth \in Nat, NEW S, NEW ls \in Seq(S), NEW cm \in S, NEW b,
         Len(ls) < Pow2[Depth], Frontier(ls, b)
  PROVE  LET after == simulate_frontier_append(b, Len(ls), cm)
         IN  /\ after.ok
             /\ after.root = ReferenceRoot(Append(ls, cm))
             /\ Frontier(Append(ls, cm), after.branches)
<1> DEFINE n == Len(ls)
           ms == Append(ls, cm)
           N == Complete(ls)
           M == Complete(ms)
           P == Positions(n)
           Q == Positions(n + 1)
<1>1. n \in Nat /\ ms \in Seq(S) /\ Len(ms) = n + 1
  BY LenProperties, AppendProperties
<1>0. PICK C : Climbs(b, n, cm, C)
  BY ClimbFacts
<1>2. /\ C[0] = [ok |-> TRUE, root |-> cm, branches |-> b]
      /\ \A l \in 0..(Depth - 1) : C[l + 1] = Climbed(C[l], l, Bit(n, l))
      /\ simulate_frontier_append(b, n, cm) = C[Depth]
  BY <1>0 DEF Climbs
<1>3. /\ P[0] = n
      /\ \A l \in 0..Depth : P[l] \in Nat
      /\ \A l \in 0..(Depth - 1) : P[l + 1] = P[l] \div 2
  BY <1>1, PositionFacts
<1>4. /\ \A l \in 0..Depth : P[l] \in 0..(Pow2[Depth - l] - 1)
      /\ P[Depth] = 0
  BY <1>1, PositionBound
<1>5. \A l \in 0..Depth : Q[l] \in {P[l], P[l] + 1}
  BY <1>1, NextPosition
<1>6. /\ \A i \in 0..(Pow2[Depth] - 1) : M[0][i] = Leaf(ms, i)
      /\ \A l \in 0..(Depth - 1) : \A i \in 0..(Pow2[Depth - (l + 1)] - 1) :
           M[l + 1][i] = hash_merkle(M[l][2 * i], M[l][2 * i + 1])
  BY CompleteFacts
<1>7. \A l \in 0..Depth : \A i \in 0..(Pow2[Depth - l] - 1) : i > P[l] => M[l][i] = zero_hashes[l]
  BY <1>1, RightIsEmpty
<1>8. \A l \in 0..Depth : \A i \in 0..(Pow2[Depth - l] - 1) : i < P[l] => M[l][i] = N[l][i]
  BY LeftUnchanged
<1>9. \A l \in 0..(Depth - 1) : P[l] % 2 = 1 => l \in DOMAIN b /\ b[l] = N[l][P[l] - 1]
  BY DEF Frontier, Bit
<1>10. \A l : Bit(n, l) = P[l] % 2
  BY DEF Bit
<1>11. M[0][n] = cm
  <2>0. Pow2[Depth] \in Nat
    BY Pow2Facts
  <2>1. n \in 0..(Pow2[Depth] - 1)
    BY <1>1, <2>0
  <2>2. n < Len(ms) /\ ms[n + 1] = cm
    BY <1>1, AppendProperties
  <2> QED BY <1>6, <2>1, <2>2 DEF Leaf
<1> HIDE DEF N, M, P, Q
<1> DEFINE Kept(l, g) ==
             \A j \in 0..(Depth - 1) :
               /\ j < l /\ P[j] % 2 = 0 => j \in DOMAIN g /\ g[j] = M[j][P[j]]
               /\ (j >= l \/ P[j] % 2 = 1) /\ j \in DOMAIN b => j \in DOMAIN g /\ g[j] = b[j]
           Reached(l, g) ==
             C[l] = [ok |-> TRUE, root |-> M[l][P[l]], branches |-> g] /\ Kept(l, g)
           T == {l \in 0..Depth : \E g : Reached(l, g)}
<1>12. 0 \in T
  <2>1. Kept(0, b)
    OBVIOUS
  <2>2. C[0] = [ok |-> TRUE, root |-> M[0][P[0]], branches |-> b]
    BY <1>2, <1>3, <1>11
  <2>3. Reached(0, b)
    BY <2>1, <2>2
  <2> HIDE DEF Reached
  <2> QED BY <2>3
<1>13. ASSUME NEW l \in 0..(Depth - 1), l \in T PROVE l + 1 \in T
  <2>0. PICK g : Reached(l, g)
    <3> HIDE DEF Reached
    <3> QED BY <1>13
  <2>1. C[l] = [ok |-> TRUE, root |-> M[l][P[l]], branches |-> g] /\ Kept(l, g)
    BY <2>0
  <2>2. /\ P[l] \in 0..(Pow2[Depth - l] - 1) /\ P[l] \in Nat
        /\ P[l + 1] = P[l] \div 2
        /\ P[l + 1] \in 0..(Pow2[Depth - (l + 1)] - 1)
    BY <1>3, <1>4
  <2>3. M[l + 1][P[l + 1]] = hash_merkle(M[l][2 * P[l + 1]], M[l][2 * P[l + 1] + 1])
    BY <1>6, <2>2
  <2>4. Pow2[Depth - l] = 2 * Pow2[Depth - (l + 1)] /\ Pow2[Depth - (l + 1)] \in Nat
    BY Widths
  <2>5. C[l + 1] = Climbed(C[l], l, P[l] % 2)
    BY <1>2, <1>10
  <2>6. CASE P[l] % 2 = 0
    <3> DEFINE h == write_branch(g, l, M[l][P[l]])
    <3>1. C[l + 1] = [ok |-> TRUE, root |-> hash_merkle(M[l][P[l]], zero_hashes[l]), branches |-> h]
      <4>1. C[l + 1] = Climbed([ok |-> TRUE, root |-> M[l][P[l]], branches |-> g], l, 0)
        BY <2>1, <2>5, <2>6
      <4> QED BY <4>1, ClimbedFacts
    <3>2. 2 * P[l + 1] = P[l] /\ P[l] + 1 \in 0..(Pow2[Depth - l] - 1) /\ P[l] + 1 > P[l]
      BY <2>2, <2>4, <2>6, EvenOdd
    <3>3. M[l][P[l] + 1] = zero_hashes[l]
      BY <1>7, <3>2
    <3>4. M[l + 1][P[l + 1]] = hash_merkle(M[l][P[l]], zero_hashes[l])
      BY <2>3, <3>2, <3>3
    <3>5. Kept(l + 1, h)
      <4>1. /\ DOMAIN h = DOMAIN g \cup {l}
            /\ h[l] = M[l][P[l]]
            /\ \A j \in DOMAIN g : j # l => h[j] = g[j]
        <5>1. PICK node : node = M[l][P[l]]
          OBVIOUS
        <5>2. /\ DOMAIN write_branch(g, l, node) = DOMAIN g \cup {l}
              /\ write_branch(g, l, node)[l] = node
              /\ \A j \in DOMAIN g : j # l => write_branch(g, l, node)[j] = g[j]
          BY DEF write_branch, Write
        <5>3. h = write_branch(g, l, node)
          BY <5>1
        <5> HIDE DEF h
        <5> QED BY <5>1, <5>2, <5>3
      <4> HIDE DEF h
      <4> SUFFICES ASSUME NEW j \in 0..(Depth - 1)
                   PROVE  /\ j < l + 1 /\ P[j] % 2 = 0 => j \in DOMAIN h /\ h[j] = M[j][P[j]]
                          /\ (j >= l + 1 \/ P[j] % 2 = 1) /\ j \in DOMAIN b =>
                                j \in DOMAIN h /\ h[j] = b[j]
        OBVIOUS
      <4>2. CASE j = l
        BY <4>1, <4>2, <2>6
      <4>3. CASE j # l
        <5>1. (j < l + 1 <=> j < l) /\ (j >= l + 1 => j >= l)
          BY <4>3
        <5> QED BY <2>1, <4>1, <4>3, <5>1
      <4> QED BY <4>2, <4>3
    <3> HIDE DEF h, Kept
    <3>6. Reached(l + 1, h)
      BY <3>1, <3>4, <3>5
    <3> HIDE DEF Reached
    <3> QED BY <3>6
  <2>7. CASE P[l] % 2 = 1
    <3>1. l \in DOMAIN b /\ b[l] = N[l][P[l] - 1]
      BY <1>9, <2>7
    <3>2. l \in DOMAIN g /\ g[l] = b[l]
      BY <2>1, <3>1
    <3>3. C[l + 1] = [ok |-> TRUE, root |-> hash_merkle(g[l], M[l][P[l]]), branches |-> g]
      <4>1. C[l + 1] = Climbed([ok |-> TRUE, root |-> M[l][P[l]], branches |-> g], l, 1)
        BY <2>1, <2>5, <2>7
      <4>2. PICK node : node = M[l][P[l]]
        OBVIOUS
      <4>3. Climbed([ok |-> TRUE, root |-> node, branches |-> g], l, 1)
              = [ok |-> TRUE, root |-> hash_merkle(g[l], node), branches |-> g]
        BY <3>2, ClimbedFacts
      <4> QED BY <4>1, <4>2, <4>3
    <3>4. /\ 2 * P[l + 1] = P[l] - 1 /\ 2 * P[l + 1] + 1 = P[l]
          /\ P[l] - 1 \in 0..(Pow2[Depth - l] - 1) /\ P[l] - 1 < P[l]
      BY <2>2, <2>4, <2>7, EvenOdd
    <3>5. M[l][P[l] - 1] = N[l][P[l] - 1]
      <4>1. PICK i \in 0..(Pow2[Depth - l] - 1) : i = P[l] - 1 /\ i < P[l]
        BY <3>4
      <4>2. l \in 0..Depth
        OBVIOUS
      <4>3. M[l][i] = N[l][i]
        BY <1>8, <4>1, <4>2
      <4> QED BY <4>1, <4>3
    <3>6. M[l + 1][P[l + 1]] = hash_merkle(g[l], M[l][P[l]])
      BY <2>3, <3>1, <3>2, <3>4, <3>5
    <3>7. Kept(l + 1, g)
      <4> SUFFICES ASSUME NEW j \in 0..(Depth - 1)
                   PROVE  /\ j < l + 1 /\ P[j] % 2 = 0 => j \in DOMAIN g /\ g[j] = M[j][P[j]]
                          /\ (j >= l + 1 \/ P[j] % 2 = 1) /\ j \in DOMAIN b =>
                                j \in DOMAIN g /\ g[j] = b[j]
        OBVIOUS
      <4>2. CASE j = l
        BY <2>1, <4>2, <2>7
      <4>3. CASE j # l
        <5>1. (j < l + 1 <=> j < l) /\ (j >= l + 1 => j >= l)
          BY <4>3
        <5> QED BY <2>1, <4>3, <5>1
      <4> QED BY <4>2, <4>3
    <3> HIDE DEF Kept
    <3>8. Reached(l + 1, g)
      BY <3>3, <3>6, <3>7
    <3> HIDE DEF Reached
    <3> QED BY <3>8
  <2>8. P[l] % 2 = 0 \/ P[l] % 2 = 1
    BY <2>2
  <2> QED BY <2>6, <2>7, <2>8
<1>14. 0..Depth \subseteq T
  <2> HIDE DEF T
  <2> QED BY <1>12, <1>13, UpTo
<1>19. PICK g : Reached(Depth, g)
  <2> HIDE DEF Reached
  <2> QED BY <1>14
<1>15. C[Depth] = [ok |-> TRUE, root |-> M[Depth][P[Depth]], branches |-> g] /\ Kept(Depth, g)
  BY <1>19
<1>16. M[Depth][P[Depth]] = ReferenceRoot(ms)
  BY <1>4 DEF ReferenceRoot, M
<1>17. Frontier(ms, g)
  <2> SUFFICES ASSUME NEW l \in 0..(Depth - 1), Q[l] % 2 = 1
               PROVE  l \in DOMAIN g /\ g[l] = M[l][Q[l] - 1]
    BY <1>1 DEF Frontier, Bit, Q, M
  <2>1. P[l] \in Nat /\ P[l] \in 0..(Pow2[Depth - l] - 1) /\ l < Depth
    BY <1>3, <1>4
  <2>2. CASE Q[l] = P[l]
    <3>1. P[l] % 2 = 1 /\ P[l] - 1 \in 0..(Pow2[Depth - l] - 1) /\ P[l] - 1 < P[l]
      <4>1. P[l] % 2 = 1 /\ P[l] # 0
        BY <2>1, <2>2
      <4>2. PICK w \in Nat : w = Pow2[Depth - l]
        BY Widths
      <4> QED BY <2>1, <4>1, <4>2
    <3>2. l \in DOMAIN b /\ b[l] = N[l][P[l] - 1]
      BY <1>9, <3>1
    <3>3. l \in DOMAIN g /\ g[l] = b[l]
      BY <1>15, <3>1, <3>2
    <3> QED BY <1>8, <2>2, <3>1, <3>2, <3>3
  <2>3. CASE Q[l] = P[l] + 1
    <3>1. P[l] % 2 = 0 /\ Q[l] - 1 = P[l]
      BY <2>1, <2>3
    <3>2. l \in DOMAIN g /\ g[l] = M[l][P[l]]
      BY <1>15, <2>1, <3>1
    <3> QED BY <3>1, <3>2
  <2> QED BY <1>5, <2>2, <2>3
<1>18. simulate_frontier_append(b, n, cm) =
         [ok |-> TRUE, root |-> ReferenceRoot(ms), branches |-> g]
  BY <1>2, <1>15, <1>16
<1> QED BY <1>17, <1>18

-----------------------------------------------------------------------------
(***************************************************************************)
(* The circuit's paths.                                                    *)
(***************************************************************************)
\* The siblings a wallet lists are the siblings in the complete tree.
LEMMA PathFacts ==
  ASSUME Depth \in Nat, NEW S, NEW ls \in Seq(S), NEW x \in Nat, x < Pow2[Depth]
  PROVE  /\ Len(auth_path(ls, x)) = Depth
         /\ \A d \in 0..(Depth - 1) :
              auth_path(ls, x)[d + 1] =
                Complete(ls)[d][IF Bit(x, d) = 0 THEN Positions(x)[d] + 1
                                                 ELSE Positions(x)[d] - 1]
<1> DEFINE L == levels(ls)
           N == Complete(ls)
           P == Positions(x)
           sibling(i) == IF i % 2 = 0 THEN i + 1 ELSE i - 1
           e(d) == NodeOrZero(L[d - 1], sibling(P[d - 1]) + 1, d - 1)
           path == auth_path(ls, x)
<1>1. path = [d \in 1..Depth |-> e(d)]
  BY DEF auth_path
<1>2. \A d \in 0..Depth : P[d] \in 0..(Pow2[Depth - d] - 1)
  BY PositionBound
<1>3. \A d \in 0..Depth : \A i \in 0..(Pow2[Depth - d] - 1) :
        NodeOrZero(L[d], i + 1, d) = N[d][i]
  BY LevelsAgree
<1>4. \A d : Bit(x, d) = P[d] % 2
  BY DEF Bit
<1> HIDE DEF L, N, P, path
<1>5. Len(path) = Depth
  <2> DEFINE R == {e(d) : d \in 1..Depth}
  <2> HIDE DEF e
  <2>1. path \in [1..Depth -> R]
    BY <1>1
  <2> HIDE DEF R
  <2> QED BY <2>1, FunctionIsSeq
<1>6. ASSUME NEW d \in 0..(Depth - 1)
      PROVE  path[d + 1] = N[d][IF Bit(x, d) = 0 THEN P[d] + 1 ELSE P[d] - 1]
  <2>1. d + 1 \in 1..Depth /\ d + 1 - 1 = d /\ d \in 0..Depth
    OBVIOUS
  <2>2. path[d + 1] = NodeOrZero(L[d], sibling(P[d]) + 1, d)
    <3>1. path[d + 1] = e(d + 1)
      <4> HIDE DEF e
      <4> QED BY <1>1, <2>1
    <3> QED BY <2>1, <3>1
  <2>3. sibling(P[d]) \in 0..(Pow2[Depth - d] - 1)
    BY <1>2, <2>1, Widths, EvenOdd
  <2>4. path[d + 1] = N[d][sibling(P[d])]
    <3> HIDE DEF sibling
    <3> QED BY <1>3, <2>1, <2>2, <2>3
  <2> QED BY <1>4, <2>4
<1> QED BY <1>5, <1>6 DEF path, N, P

\* A wallet's path for a leaf of the tree verifies against the root.
LEMMA PathVerifies ==
  ASSUME Depth \in Nat, NEW S, NEW ls \in Seq(S), NEW x \in Nat,
         x < Len(ls), Len(ls) <= Pow2[Depth]
  PROVE  verify(ls[x + 1], ReferenceRoot(ls), auth_path(ls, x), x)
<1> DEFINE N == Complete(ls)
           P == Positions(x)
           path == auth_path(ls, x)
           leaf == ls[x + 1]
<1>0. Len(ls) \in Nat /\ Pow2[Depth] \in Nat
  BY LenProperties, Pow2Facts
<1>1. x < Pow2[Depth]
  BY <1>0
<1>2. /\ P[0] = x
      /\ \A l \in 0..(Depth - 1) : P[l + 1] = P[l] \div 2
  BY PositionFacts
<1>3. /\ \A d \in 0..Depth : P[d] \in 0..(Pow2[Depth - d] - 1)
      /\ P[Depth] = 0
  BY <1>1, PositionBound
<1>4. /\ Len(path) = Depth
      /\ \A d \in 0..(Depth - 1) :
           path[d + 1] = N[d][IF Bit(x, d) = 0 THEN P[d] + 1 ELSE P[d] - 1]
  BY <1>1, PathFacts
<1>5. /\ \A i \in 0..(Pow2[Depth] - 1) : N[0][i] = Leaf(ls, i)
      /\ \A l \in 0..(Depth - 1) : \A i \in 0..(Pow2[Depth - (l + 1)] - 1) :
           N[l + 1][i] = hash_merkle(N[l][2 * i], N[l][2 * i + 1])
  BY CompleteFacts
<1>6. \A d : Bit(x, d) = P[d] % 2
  BY DEF Bit
<1>7. PICK V : Walks(leaf, path, x, V)
  BY WalkFacts
<1>8. /\ V[0] = leaf
      /\ \A d \in 0..(Depth - 1) : V[d + 1] = Walked(V[d], path[d + 1], Bit(x, d))
      /\ RootFrom(leaf, path, x) = V[Depth]
  BY <1>7 DEF Walks
<1> DEFINE T == {d \in 0..Depth : V[d] = N[d][P[d]]}
<1>9. N[0][x] = leaf
  <2>1. x \in 0..(Pow2[Depth] - 1)
    BY <1>0, <1>1
  <2> QED BY <1>5, <2>1 DEF Leaf
<1> HIDE DEF N, P, path, leaf
<1>10. 0 \in T
  BY <1>2, <1>8, <1>9
<1>11. ASSUME NEW d \in 0..(Depth - 1), d \in T PROVE d + 1 \in T
  <2>1. /\ P[d] \in 0..(Pow2[Depth - d] - 1)
        /\ P[d + 1] \in 0..(Pow2[Depth - (d + 1)] - 1)
        /\ P[d + 1] = P[d] \div 2
    BY <1>2, <1>3
  <2>0. Pow2[Depth - d] = 2 * Pow2[Depth - (d + 1)] /\ Pow2[Depth - (d + 1)] \in Nat
    BY Widths
  <2>2. N[d + 1][P[d + 1]] = hash_merkle(N[d][2 * P[d + 1]], N[d][2 * P[d + 1] + 1])
    BY <1>5, <2>1
  <2>3. V[d + 1] = Walked(N[d][P[d]], path[d + 1], P[d] % 2)
    BY <1>6, <1>8, <1>11
  <2>4. CASE P[d] % 2 = 0
    <3>1. 2 * P[d + 1] = P[d]
      BY <2>1, <2>4, <2>0, EvenOdd
    <3>2. path[d + 1] = N[d][P[d] + 1]
      BY <1>4, <1>6, <2>4
    <3>3. V[d + 1] = hash_merkle(N[d][P[d]], N[d][P[d] + 1])
      BY <2>3, <2>4, <3>2 DEF Walked
    <3> QED BY <2>2, <3>1, <3>3
  <2>5. CASE P[d] % 2 = 1
    <3>1. 2 * P[d + 1] = P[d] - 1 /\ 2 * P[d + 1] + 1 = P[d]
      BY <2>1, <2>5, <2>0, EvenOdd
    <3>2. path[d + 1] = N[d][P[d] - 1]
      <4>1. Bit(x, d) # 0
        BY <1>6, <2>5
      <4> QED BY <1>4, <4>1
    <3>3. V[d + 1] = hash_merkle(N[d][P[d] - 1], N[d][P[d]])
      BY <2>3, <2>5, <3>2 DEF Walked
    <3> QED BY <2>2, <3>1, <3>3
  <2>6. P[d] % 2 \in {0, 1}
    BY <2>1, <2>0, EvenOdd
  <2> QED BY <2>4, <2>5, <2>6
<1>12. 0..Depth \subseteq T
  <2> HIDE DEF T
  <2> QED BY <1>10, <1>11, UpTo
<1>13. V[Depth] = N[Depth][0]
  BY <1>3, <1>12
<1> QED BY <1>3, <1>4, <1>8, <1>13 DEF verify, ReferenceRoot, N, P, path, leaf

\* What verifies against the root of a tree, whatever siblings are offered, is
\* the tree's own leaf at that index: the hash has no collisions, and the check
\* that the index ends at 0 leaves one index to a path.
LEMMA PathSound ==
  ASSUME Depth \in Nat, NEW ls, NEW leaf, NEW siblings, NEW x \in Nat,
         verify(leaf, ReferenceRoot(ls), siblings, x)
  PROVE  x < Pow2[Depth] /\ Leaf(ls, x) = leaf
<1> DEFINE N == Complete(ls)
           P == Positions(x)
<1>1. P[Depth] = 0 /\ RootFrom(leaf, siblings, x) = N[Depth][0]
  BY DEF verify, ReferenceRoot
<1>2. x < Pow2[Depth]
  BY <1>1, PositionRoot
<1>3. /\ P[0] = x
      /\ \A l \in 0..(Depth - 1) : P[l + 1] = P[l] \div 2
  BY PositionFacts
<1>4. \A d \in 0..Depth : P[d] \in 0..(Pow2[Depth - d] - 1)
  BY <1>2, PositionBound
<1>5. /\ \A i \in 0..(Pow2[Depth] - 1) : N[0][i] = Leaf(ls, i)
      /\ \A l \in 0..(Depth - 1) : \A i \in 0..(Pow2[Depth - (l + 1)] - 1) :
           N[l + 1][i] = hash_merkle(N[l][2 * i], N[l][2 * i + 1])
  BY CompleteFacts
<1>6. \A d : Bit(x, d) = P[d] % 2
  BY DEF Bit
<1>7. PICK V : Walks(leaf, siblings, x, V)
  BY WalkFacts
<1>8. /\ V[0] = leaf
      /\ \A d \in 0..(Depth - 1) : V[d + 1] = Walked(V[d], siblings[d + 1], Bit(x, d))
      /\ RootFrom(leaf, siblings, x) = V[Depth]
  BY <1>7 DEF Walks
<1> DEFINE T == {d \in 0..Depth : V[d] = N[d][P[d]]}
<1> HIDE DEF N, P
<1>9. Depth \in T
  <2>1. V[Depth] = N[Depth][P[Depth]] /\ Depth \in 0..Depth
    BY <1>1, <1>8
  <2> QED BY <2>1
<1>10. ASSUME NEW d \in 0..(Depth - 1), d + 1 \in T PROVE d \in T
  <2>1. /\ P[d] \in 0..(Pow2[Depth - d] - 1)
        /\ P[d + 1] \in 0..(Pow2[Depth - (d + 1)] - 1)
        /\ P[d + 1] = P[d] \div 2
    BY <1>3, <1>4
  <2>0. Pow2[Depth - d] = 2 * Pow2[Depth - (d + 1)] /\ Pow2[Depth - (d + 1)] \in Nat
    BY Widths
  <2>2. V[d + 1] = <<N[d][2 * P[d + 1]], N[d][2 * P[d + 1] + 1]>>
    BY <1>5, <1>10, <2>1 DEF hash_merkle
  <2>3. V[d + 1] = Walked(V[d], siblings[d + 1], P[d] % 2)
    BY <1>6, <1>8
  <2>4. CASE P[d] % 2 = 0
    <3>1. 2 * P[d + 1] = P[d]
      BY <2>1, <2>4, <2>0, EvenOdd
    <3>2. V[d + 1] = <<V[d], siblings[d + 1]>>
      BY <2>3, <2>4 DEF Walked, hash_merkle
    <3> QED BY <2>2, <3>1, <3>2
  <2>5. CASE P[d] % 2 = 1
    <3>1. 2 * P[d + 1] + 1 = P[d]
      BY <2>1, <2>5, <2>0, EvenOdd
    <3>2. V[d + 1] = <<siblings[d + 1], V[d]>>
      BY <2>3, <2>5 DEF Walked, hash_merkle
    <3> QED BY <2>2, <3>1, <3>2
  <2>6. P[d] % 2 \in {0, 1}
    BY <2>1, <2>0, EvenOdd
  <2> QED BY <2>4, <2>5, <2>6
<1>11. 0..Depth \subseteq T
  <2> HIDE DEF T
  <2> QED BY <1>9, <1>10, DownFrom
<1>12. V[0] = N[0][x]
  BY <1>3, <1>11
<1>13. x \in 0..(Pow2[Depth] - 1)
  <2>1. Pow2[Depth] \in Nat
    BY Pow2Facts
  <2> QED BY <1>2, <2>1
<1> QED BY <1>2, <1>5, <1>8, <1>12, <1>13

\* Two trees with the same root have the same leaves.
LEMMA RootBindsLeaves ==
  ASSUME Depth \in Nat, NEW ls, NEW ms, ReferenceRoot(ls) = ReferenceRoot(ms)
  PROVE  \A i \in 0..(Pow2[Depth] - 1) : Leaf(ls, i) = Leaf(ms, i)
<1> DEFINE N == Complete(ls)
           M == Complete(ms)
           T == {l \in 0..Depth : \A i \in 0..(Pow2[Depth - l] - 1) : N[l][i] = M[l][i]}
<1>1. /\ \A i \in 0..(Pow2[Depth] - 1) : N[0][i] = Leaf(ls, i)
      /\ \A l \in 0..(Depth - 1) : \A i \in 0..(Pow2[Depth - (l + 1)] - 1) :
           N[l + 1][i] = hash_merkle(N[l][2 * i], N[l][2 * i + 1])
  BY CompleteFacts
<1>2. /\ \A i \in 0..(Pow2[Depth] - 1) : M[0][i] = Leaf(ms, i)
      /\ \A l \in 0..(Depth - 1) : \A i \in 0..(Pow2[Depth - (l + 1)] - 1) :
           M[l + 1][i] = hash_merkle(M[l][2 * i], M[l][2 * i + 1])
  BY CompleteFacts
<1>3. N[Depth][0] = M[Depth][0]
  BY DEF ReferenceRoot
<1> HIDE DEF N, M
<1>4. Depth \in T
  <2>1. Depth - Depth = 0
    OBVIOUS
  <2>2. \A i \in 0..(Pow2[Depth - Depth] - 1) : i = 0
    BY <2>1, Pow2Facts
  <2>3. \A i \in 0..(Pow2[Depth - Depth] - 1) : N[Depth][i] = M[Depth][i]
    BY <1>3, <2>2
  <2> QED BY <2>3
<1>5. ASSUME NEW l \in 0..(Depth - 1), l + 1 \in T PROVE l \in T
  <2>1. ASSUME NEW i \in 0..(Pow2[Depth - l] - 1) PROVE N[l][i] = M[l][i]
    <3> DEFINE p == i \div 2
    <3>1. p \in 0..(Pow2[Depth - (l + 1)] - 1)
      <4>1. Pow2[Depth - l] = 2 * Pow2[Depth - (l + 1)] /\ Pow2[Depth - (l + 1)] \in Nat
        BY Widths
      <4>2. i \in Nat /\ i < 2 * Pow2[Depth - (l + 1)]
        BY <4>1
      <4> QED BY <4>1, <4>2
    <3>2. i = 2 * p \/ i = 2 * p + 1
      BY Widths, EvenOdd
    <3> HIDE DEF p
    <3>3. N[l + 1][p] = M[l + 1][p]
      BY <1>5, <3>1
    <3>4. <<N[l][2 * p], N[l][2 * p + 1]>> = <<M[l][2 * p], M[l][2 * p + 1]>>
      BY <1>1, <1>2, <3>1, <3>3 DEF hash_merkle
    <3>5. N[l][2 * p] = M[l][2 * p] /\ N[l][2 * p + 1] = M[l][2 * p + 1]
      BY <3>4
    <3> QED BY <3>2, <3>5
  <2> QED BY <2>1
<1>6. 0..Depth \subseteq T
  <2> HIDE DEF T
  <2> QED BY <1>4, <1>5, DownFrom
<1>7. Depth - 0 = Depth /\ 0 \in T
  BY <1>6
<1> QED BY <1>1, <1>2, <1>7

\* So prefixes of different lengths, of leaves that are not empty, have
\* different roots.
LEMMA RootCountsLeaves ==
  ASSUME Depth \in Nat, NEW S, ZERO \notin S, NEW ls \in Seq(S), NEW ms \in Seq(S),
         Len(ls) <= Pow2[Depth], Len(ms) <= Pow2[Depth],
         ReferenceRoot(ls) = ReferenceRoot(ms)
  PROVE  Len(ls) = Len(ms)
<1>1. Len(ls) \in Nat /\ Len(ms) \in Nat /\ Pow2[Depth] \in Nat
  BY LenProperties, Pow2Facts
<1>2. \A i \in 0..(Pow2[Depth] - 1) : Leaf(ls, i) = Leaf(ms, i)
  BY RootBindsLeaves
<1>3. ASSUME Len(ls) < Len(ms) PROVE FALSE
  <2>1. Len(ls) \in 0..(Pow2[Depth] - 1) /\ Len(ls) + 1 \in 1..Len(ms)
    BY <1>1, <1>3
  <2>2. Leaf(ls, Len(ls)) = ZERO /\ Leaf(ms, Len(ls)) = ms[Len(ls) + 1]
    BY <1>1, <1>3 DEF Leaf
  <2>3. ms[Len(ls) + 1] \in S
    BY <2>1, ElementOfSeq
  <2> QED BY <1>2, <2>1, <2>2, <2>3
<1>4. ASSUME Len(ms) < Len(ls) PROVE FALSE
  <2>1. Len(ms) \in 0..(Pow2[Depth] - 1) /\ Len(ms) + 1 \in 1..Len(ls)
    BY <1>1, <1>4
  <2>2. Leaf(ms, Len(ms)) = ZERO /\ Leaf(ls, Len(ms)) = ls[Len(ms) + 1]
    BY <1>1, <1>4 DEF Leaf
  <2>3. ls[Len(ms) + 1] \in S
    BY <2>1, ElementOfSeq
  <2> QED BY <1>2, <2>1, <2>2, <2>3
<1> QED BY <1>1, <1>3, <1>4

-----------------------------------------------------------------------------
(***************************************************************************)
(* The specification.  What is inductive is the frontier's content, node   *)
(* by node: that it has the nodes an append needs does not say that they   *)
(* are the right ones, nor does the root say it.                           *)
(***************************************************************************)
IndInv ==
  /\ leaves \in Seq(Commitment)
  /\ Len(leaves) <= Pow2[Depth]
  /\ root = ReferenceRoot(leaves)
  /\ Frontier(leaves, branches)

\* The empty tree needs no frontier.
LEMMA InitInd == Init => IndInv
<1> SUFFICES ASSUME Init PROVE IndInv
  OBVIOUS
<1>1. Depth \in Nat /\ Pow2[Depth] \in Nat
  BY TreeAssumption, Pow2Facts
<1>2. leaves = <<>> /\ Len(leaves) = 0 /\ leaves \in Seq(Commitment)
  BY DEF Init
<1>3. root = ReferenceRoot(leaves)
  BY <1>1, <1>2, EmptyTree DEF Init
<1>4. ASSUME NEW l \in 0..(Depth - 1) PROVE Bit(0, l) = 0
  <2> DEFINE P == Positions(0)
             T == {k \in 0..Depth : P[k] = 0}
  <2>1. P[0] = 0 /\ \A k \in 0..(Depth - 1) : P[k + 1] = P[k] \div 2
    BY <1>1, PositionFacts
  <2> HIDE DEF P
  <2>2. 0 \in T
    BY <1>1, <2>1
  <2>3. ASSUME NEW k \in 0..(Depth - 1), k \in T PROVE k + 1 \in T
    <3>1. P[k + 1] = 0 \div 2
      BY <2>1, <2>3
    <3>2. P[k + 1] = 0 /\ k + 1 \in 0..Depth
      BY <1>1, <3>1
    <3> QED BY <3>2
  <2>4. 0..Depth \subseteq T
    <3> HIDE DEF T
    <3> QED BY <1>1, <2>2, <2>3, UpTo
  <2>5. P[l] = 0
    BY <1>1, <2>4
  <2> QED BY <2>5 DEF Bit, P
<1>5. Frontier(leaves, branches)
  BY <1>2, <1>4 DEF Frontier
<1> QED BY <1>1, <1>2, <1>3, <1>5 DEF IndInv

\* Each append keeps the root and the frontier those of the leaves.
LEMMA NextInd == IndInv /\ [Next]_vars => IndInv'
<1> SUFFICES ASSUME IndInv, [Next]_vars PROVE IndInv'
  OBVIOUS
<1>1. CASE UNCHANGED vars
  BY <1>1 DEF vars, IndInv, Frontier
<1>2. ASSUME NEW cm \in Commitment, AppendLeaf(cm) PROVE IndInv'
  <2> DEFINE after == simulate_frontier_append(branches, Len(leaves), cm)
  <2>1. /\ leaves \in Seq(Commitment) /\ Len(leaves) < Pow2[Depth]
        /\ Frontier(leaves, branches)
        /\ leaves' = Append(leaves, cm)
        /\ branches' = after.branches
        /\ root' = after.root
    BY <1>2 DEF IndInv, AppendLeaf
  <2>2. Depth \in Nat /\ Pow2[Depth] \in Nat
    BY TreeAssumption, Pow2Facts
  <2>3. /\ after.root = ReferenceRoot(Append(leaves, cm))
        /\ Frontier(Append(leaves, cm), after.branches)
    BY <2>1, <2>2, FrontierAppend
  <2> HIDE DEF after
  <2>4. leaves' \in Seq(Commitment) /\ Len(leaves') <= Pow2[Depth]
    BY <2>1, <2>2, AppendProperties, LenProperties
  <2>5. root' = ReferenceRoot(leaves')
    BY <2>1, <2>3
  <2>6. Frontier(leaves', branches')
    BY <2>1, <2>3
  <2> QED BY <2>4, <2>5, <2>6 DEF IndInv
<1> QED BY <1>1, <1>2 DEF Next

\* The inductive invariant holds in every reachable state.
LEMMA IndInvariant == Spec => []IndInv
BY InitInd, NextInd, PTL DEF Spec

\* RootsAgree, for every depth: the root the kernel keeps with one node per
\* level (append_note) and the one MerkleTree::root rebuilds are the root of
\* the complete tree.
THEOREM TreesAgree == Spec => []RootsAgree
<1>1. IndInv => RootsAgree
  BY TreeAssumption, WalletRoot DEF IndInv, RootsAgree
<1> QED BY <1>1, IndInvariant, PTL

\* PathsVerify, for every depth: the circuit accepts MerkleTree::auth_path for
\* every leaf, against the kernel's root.
THEOREM WitnessesVerify == Spec => []PathsVerify
<1>1. IndInv => PathsVerify
  <2> SUFFICES ASSUME IndInv, NEW i \in 0..(Len(leaves) - 1)
               PROVE  verify(leaves[i + 1], root, auth_path(leaves, i), i)
    BY DEF PathsVerify
  <2>1. Len(leaves) \in Nat /\ i \in Nat /\ i < Len(leaves)
    BY LenProperties DEF IndInv
  <2>2. verify(leaves[i + 1], ReferenceRoot(leaves), auth_path(leaves, i), i)
    BY <2>1, TreeAssumption, PathVerifies DEF IndInv
  <2> QED BY <2>2 DEF IndInv
<1> QED BY <1>1, IndInvariant, PTL

\* OneIndexPerPath, for every depth: whatever path the circuit's verify accepts
\* proves the tree's own leaf, at its one index.
THEOREM PathsAreSound == Spec => []OneIndexPerPath
<1>1. IndInv => OneIndexPerPath
  <2> SUFFICES ASSUME IndInv, NEW i \in 0..(Len(leaves) - 1),
                      NEW index \in 0..(Pow2[Depth + 1] - 1), NEW cm \in Commitment,
                      verify(cm, root, auth_path(leaves, i), index)
               PROVE  index < Pow2[Depth] /\ Leaf(leaves, index) = cm
    BY DEF OneIndexPerPath
  <2>1. index \in Nat
    <3>1. Depth + 1 \in Nat
      BY TreeAssumption
    <3>2. Pow2[Depth + 1] \in Nat
      BY <3>1, Pow2Facts
    <3> QED BY <3>2
  <2>2. verify(cm, ReferenceRoot(leaves), auth_path(leaves, i), index)
    BY DEF IndInv
  <2> QED BY <2>1, <2>2, TreeAssumption, PathSound
<1> QED BY <1>1, IndInvariant, PTL

\* FrontierLive, for every depth: assert_frontier_matches_tree_size accepts the
\* store, and append_note cannot fail halfway, until the tree is full.
THEOREM AppendsSucceed == Spec => []FrontierLive
<1>1. IndInv => FrontierLive
  <2> SUFFICES ASSUME IndInv PROVE FrontierLive
    OBVIOUS
  <2>1. assert_frontier_matches_tree_size(branches, Len(leaves))
    BY DEF IndInv, Frontier, assert_frontier_matches_tree_size
  <2>2. ASSUME Len(leaves) < Pow2[Depth], NEW cm \in Commitment
        PROVE  simulate_frontier_append(branches, Len(leaves), cm).ok
    BY <2>2, TreeAssumption, FrontierAppend DEF IndInv
  <2> QED BY <2>1, <2>2 DEF FrontierLive
<1> QED BY <1>1, IndInvariant, PTL
=============================================================================
