--------------------------- MODULE WalletKeysProofs ---------------------------
(***************************************************************************)
(* Proofs, for every value of the constants, that one-time keys are used   *)
(* once.                                                                   *)
(*                                                                         *)
(* A one-time key that signed one message has signed that message only:    *)
(* what one signature reveals amounts to no signature of another message,  *)
(* for every base, every number of digits and every checksum length that   *)
(* holds the largest checksum.                                             *)
(*                                                                         *)
(* And the wallet's lock and floor file keep a key from signing twice.  The*)
(* inductive invariant says, of each place a command can be at, what its   *)
(* command, its job, its copy of the wallet and the lock file then are.    *)
(***************************************************************************)
EXTENDS WalletKeys, Induction

-----------------------------------------------------------------------------
(***************************************************************************)
(* The recursive functions of Wots are what their definitions say.         *)
(***************************************************************************)
\* The sum of the first i terms W - 1 - m[i].
IsSum(m, n, s) ==
  s = [i \in 0..n |-> IF i = 0 THEN 0 ELSE s[i - 1] + (W - 1 - m[i])]

\* It exists: the recursion ends.
LEMMA SumExists ==
  ASSUME NEW m, NEW n \in Nat
  PROVE  \E s : IsSum(m, n, s)
<1> DEFINE T == {k \in Nat : \E s : IsSum(m, k, s)}
<1>1. 0 \in T
  <2>1. IsSum(m, 0, [i \in 0..0 |-> 0])
    BY DEF IsSum
  <2> QED BY <2>1
<1>2. ASSUME NEW k \in Nat, k \in T PROVE k + 1 \in T
  <2>1. PICK s : IsSum(m, k, s)
    BY <1>2
  <2> DEFINE t == [i \in 0..(k + 1) |-> IF i <= k THEN s[i] ELSE s[k] + (W - 1 - m[k + 1])]
  <2>2. \A i \in 0..k : s[i] = IF i = 0 THEN 0 ELSE s[i - 1] + (W - 1 - m[i])
    BY <2>1 DEF IsSum
  <2>3. ASSUME NEW i \in 0..(k + 1)
        PROVE  t[i] = IF i = 0 THEN 0 ELSE t[i - 1] + (W - 1 - m[i])
    BY <2>2
  <2>4. IsSum(m, k + 1, t)
    BY <2>3 DEF IsSum
  <2> QED BY <2>4
<1>3. Nat \subseteq T
  BY <1>1, <1>2, SetInduction
<1> QED BY <1>3

\* checksum is the whole sum.
LEMMA ChecksumSum ==
  ASSUME NEW m
  PROVE  \E s : IsSum(m, MsgDigits, s) /\ checksum(m) = s[MsgDigits]
<1>1. \E s : IsSum(m, MsgDigits, s)
  BY SumExists, WotsAssumption
<1>2. IsSum(m, MsgDigits, CHOOSE s : IsSum(m, MsgDigits, s))
  BY <1>1
<1>3. checksum(m) = (CHOOSE s : IsSum(m, MsgDigits, s))[MsgDigits]
  BY DEF checksum, IsSum
<1> QED BY <1>2, <1>3

\* What is left of x after each division by W.
IsLeft(x, n, c) == c = [i \in 0..n |-> IF i = 0 THEN x ELSE c[i - 1] \div W]

\* It exists.
LEMMA LeftExists ==
  ASSUME NEW x, NEW n \in Nat
  PROVE  \E c : IsLeft(x, n, c)
<1> DEFINE T == {k \in Nat : \E c : IsLeft(x, k, c)}
<1>1. 0 \in T
  <2>1. IsLeft(x, 0, [i \in 0..0 |-> x])
    BY DEF IsLeft
  <2> QED BY <2>1
<1>2. ASSUME NEW k \in Nat, k \in T PROVE k + 1 \in T
  <2>1. PICK c : IsLeft(x, k, c)
    BY <1>2
  <2> DEFINE d == [i \in 0..(k + 1) |-> IF i <= k THEN c[i] ELSE c[k] \div W]
  <2>2. \A i \in 0..k : c[i] = IF i = 0 THEN x ELSE c[i - 1] \div W
    BY <2>1 DEF IsLeft
  <2>3. ASSUME NEW i \in 0..(k + 1)
        PROVE  d[i] = IF i = 0 THEN x ELSE d[i - 1] \div W
    BY <2>2
  <2>4. IsLeft(x, k + 1, d)
    BY <2>3 DEF IsLeft
  <2> QED BY <2>4
<1>3. Nat \subseteq T
  BY <1>1, <1>2, SetInduction
<1> QED BY <1>3

\* wots_digits appends the remainders of the checksum's divisions.
LEMMA DigitsLeft ==
  ASSUME NEW m
  PROVE  \E c : /\ IsLeft(checksum(m), SumDigits, c)
                /\ wots_digits(m) = m \o [i \in 1..SumDigits |-> c[i - 1] % W]
<1> DEFINE c == CHOOSE d : IsLeft(checksum(m), SumDigits, d)
<1>1. \E d : IsLeft(checksum(m), SumDigits, d)
  BY LeftExists, WotsAssumption
<1>2. IsLeft(checksum(m), SumDigits, c)
  BY <1>1
<1>3. wots_digits(m) = m \o [i \in 1..SumDigits |-> c[i - 1] % W]
  BY DEF wots_digits, IsLeft
<1> QED BY <1>2, <1>3

\* The powers of W up to the k-th.
IsPower(k, p) == p = [n \in 0..k |-> IF n = 0 THEN 1 ELSE W * p[n - 1]]

\* Power is the powers of W.
LEMMA PowerFacts ==
  \A n \in 0..SumDigits :
    Power[n] = (IF n = 0 THEN 1 ELSE W * Power[n - 1]) /\ Power[n] \in Nat
<1> DEFINE T == {k \in Nat : \E p : IsPower(k, p)}
<1>1. 0 \in T
  <2>1. IsPower(0, [n \in 0..0 |-> 1])
    BY DEF IsPower
  <2> QED BY <2>1
<1>2. ASSUME NEW k \in Nat, k \in T PROVE k + 1 \in T
  <2>1. PICK p : IsPower(k, p)
    BY <1>2
  <2> DEFINE q == [n \in 0..(k + 1) |-> IF n <= k THEN p[n] ELSE W * p[k]]
  <2>2. \A n \in 0..k : p[n] = IF n = 0 THEN 1 ELSE W * p[n - 1]
    BY <2>1 DEF IsPower
  <2>3. ASSUME NEW n \in 0..(k + 1) PROVE q[n] = IF n = 0 THEN 1 ELSE W * q[n - 1]
    BY <2>2
  <2>4. IsPower(k + 1, q)
    BY <2>3 DEF IsPower
  <2> QED BY <2>4
<1>3. Nat \subseteq T
  BY <1>1, <1>2, SetInduction
<1>4. \E p : IsPower(SumDigits, p)
  BY <1>3, WotsAssumption
<1>5. IsPower(SumDigits, Power)
  BY <1>4 DEF Power, IsPower
<1>6. \A n \in 0..SumDigits : Power[n] = IF n = 0 THEN 1 ELSE W * Power[n - 1]
  BY <1>5 DEF IsPower
<1> DEFINE U == {k \in Nat : k <= SumDigits => Power[k] \in Nat}
<1>7. 0 \in U
  BY <1>6, WotsAssumption
<1>8. ASSUME NEW k \in Nat, k \in U PROVE k + 1 \in U
  <2> SUFFICES ASSUME k + 1 <= SumDigits PROVE Power[k + 1] \in Nat
    OBVIOUS
  <2>1. Power[k + 1] = W * Power[k]
    BY <1>6, WotsAssumption
  <2>2. Power[k] \in Nat
    BY <1>8, WotsAssumption
  <2> QED BY <2>1, <2>2, WotsAssumption
<1>9. Nat \subseteq U
  BY <1>7, <1>8, SetInduction
<1> QED BY <1>6, <1>9

-----------------------------------------------------------------------------
(***************************************************************************)
(* The checksum: digits that are nowhere higher make a checksum that is    *)
(* nowhere lower, and a number whose digits are nowhere higher is no       *)
(* larger.                                                                 *)
(***************************************************************************)
LEMMA DivideByW ==
  ASSUME NEW x \in Nat
  PROVE  /\ x = W * (x \div W) + (x % W)
         /\ x \div W \in Nat /\ x % W \in 0..(W - 1)
BY WotsAssumption

\* Every term of the checksum is at most W - 1.
LEMMA SumBound ==
  ASSUME NEW m \in Message, NEW s, IsSum(m, MsgDigits, s)
  PROVE  \A i \in 0..MsgDigits : s[i] \in Nat /\ s[i] <= i * (W - 1)
<1> DEFINE T == {k \in Nat : k <= MsgDigits => s[k] \in Nat /\ s[k] <= k * (W - 1)}
<1>0. \A i \in 0..MsgDigits : s[i] = IF i = 0 THEN 0 ELSE s[i - 1] + (W - 1 - m[i])
  BY DEF IsSum
<1>1. 0 \in T
  BY <1>0, WotsAssumption
<1>2. ASSUME NEW k \in Nat, k \in T PROVE k + 1 \in T
  <2> SUFFICES ASSUME k + 1 <= MsgDigits
               PROVE  s[k + 1] \in Nat /\ s[k + 1] <= (k + 1) * (W - 1)
    OBVIOUS
  <2>1. s[k + 1] = s[k] + (W - 1 - m[k + 1]) /\ m[k + 1] \in 0..(W - 1)
    BY <1>0, WotsAssumption DEF Message, Digit
  <2>2. s[k] \in Nat /\ s[k] <= k * (W - 1)
    BY <1>2, WotsAssumption
  <2>3. (k + 1) * (W - 1) = k * (W - 1) + (W - 1) /\ k * (W - 1) \in Nat
    BY WotsAssumption
  <2> QED BY <2>1, <2>2, <2>3, WotsAssumption
<1>3. Nat \subseteq T
  BY <1>1, <1>2, SetInduction
<1> QED BY <1>3

\* Messages with the same digits are equal.
LEMMA SameDigits ==
  ASSUME NEW m \in Message, NEW r \in Message, \A i \in 1..MsgDigits : m[i] = r[i]
  PROVE  m = r
<1>1. m = [i \in 1..MsgDigits |-> m[i]]
  BY DEF Message
<1>2. r = [i \in 1..MsgDigits |-> r[i]]
  BY DEF Message
<1> QED BY <1>1, <1>2, Zenon

\* Larger digits make a smaller checksum, unless they are the same.
LEMMA SumCompare ==
  ASSUME NEW m \in Message, NEW r \in Message, NEW s, NEW t,
         IsSum(m, MsgDigits, s), IsSum(r, MsgDigits, t),
         \A i \in 1..MsgDigits : m[i] <= r[i]
  PROVE  /\ s[MsgDigits] >= t[MsgDigits]
         /\ s[MsgDigits] = t[MsgDigits] => m = r
<1> DEFINE T == {k \in Nat : k <= MsgDigits =>
                   s[k] >= t[k] /\ (s[k] = t[k] => \A i \in 1..k : m[i] = r[i])}
<1>0. \A i \in 0..MsgDigits :
        /\ s[i] = IF i = 0 THEN 0 ELSE s[i - 1] + (W - 1 - m[i])
        /\ t[i] = IF i = 0 THEN 0 ELSE t[i - 1] + (W - 1 - r[i])
  BY DEF IsSum
<1>1. 0 \in T
  BY <1>0, WotsAssumption
<1>2. ASSUME NEW k \in Nat, k \in T PROVE k + 1 \in T
  <2> SUFFICES ASSUME k + 1 <= MsgDigits
               PROVE  /\ s[k + 1] >= t[k + 1]
                      /\ s[k + 1] = t[k + 1] => \A i \in 1..(k + 1) : m[i] = r[i]
    OBVIOUS
  <2>0. k + 1 \in 1..MsgDigits /\ k + 1 \in 0..MsgDigits /\ k + 1 # 0 /\ k + 1 - 1 = k
    BY WotsAssumption
  <2>1. /\ s[k + 1] = s[k] + (W - 1 - m[k + 1]) /\ m[k + 1] \in 0..(W - 1)
        /\ t[k + 1] = t[k] + (W - 1 - r[k + 1]) /\ r[k + 1] \in 0..(W - 1)
        /\ m[k + 1] <= r[k + 1]
    BY <1>0, <2>0 DEF Message, Digit
  <2>2. s[k] \in Nat /\ t[k] \in Nat
    BY SumBound, WotsAssumption
  <2>3. s[k] >= t[k] /\ (s[k] = t[k] => \A i \in 1..k : m[i] = r[i])
    BY <1>2, WotsAssumption
  <2>4. s[k + 1] = t[k + 1] => s[k] = t[k] /\ m[k + 1] = r[k + 1]
    BY <2>1, <2>2, <2>3, WotsAssumption
  <2>5. s[k + 1] >= t[k + 1]
    BY <2>1, <2>2, <2>3, WotsAssumption
  <2> QED BY <2>3, <2>4, <2>5
<1>3. Nat \subseteq T
  BY <1>1, <1>2, SetInduction
<1>4. s[MsgDigits] = t[MsgDigits] => \A i \in 1..MsgDigits : m[i] = r[i]
  BY <1>3, WotsAssumption
<1>5. s[MsgDigits] >= t[MsgDigits]
  BY <1>3, WotsAssumption
<1> QED BY <1>4, <1>5, SameDigits

\* A number below W^SumDigits has been divided away after SumDigits divisions.
LEMMA LeftBound ==
  ASSUME NEW x \in Nat, x < Power[SumDigits], NEW c, IsLeft(x, SumDigits, c)
  PROVE  /\ \A i \in 0..SumDigits : c[i] \in Nat
         /\ c[SumDigits] = 0
<1> DEFINE T == {k \in Nat : k <= SumDigits => c[k] \in Nat /\ c[k] < Power[SumDigits - k]}
<1>0. \A i \in 0..SumDigits : c[i] = IF i = 0 THEN x ELSE c[i - 1] \div W
  BY DEF IsLeft
<1>1. 0 \in T
  BY <1>0, WotsAssumption
<1>2. ASSUME NEW k \in Nat, k \in T PROVE k + 1 \in T
  <2> SUFFICES ASSUME k + 1 <= SumDigits
               PROVE  c[k + 1] \in Nat /\ c[k + 1] < Power[SumDigits - (k + 1)]
    OBVIOUS
  <2> DEFINE p == Power[SumDigits - (k + 1)]
  <2>1. c[k + 1] = c[k] \div W
    BY <1>0, WotsAssumption
  <2>2. c[k] \in Nat /\ c[k] < Power[SumDigits - k]
    BY <1>2, WotsAssumption
  <2>3. p \in Nat /\ Power[SumDigits - k] = W * p
    <3>1. SumDigits - k \in 0..SumDigits /\ SumDigits - k # 0
          /\ SumDigits - k - 1 = SumDigits - (k + 1) /\ SumDigits - (k + 1) \in 0..SumDigits
      BY WotsAssumption
    <3> QED BY <3>1, PowerFacts
  <2> HIDE DEF p
  <2>4. c[k] \div W \in Nat /\ c[k] \div W < p
    <3>1. /\ c[k] = W * (c[k] \div W) + (c[k] % W)
          /\ c[k] \div W \in Nat /\ c[k] % W \in 0..(W - 1)
      BY <2>2, DivideByW
    <3> DEFINE q == c[k] \div W
               e == c[k] % W
    <3>2. q \in Nat /\ e \in 0..(W - 1) /\ W * q + e < W * p
      BY <2>2, <2>3, <3>1
    <3> HIDE DEF q, e
    <3>3. q < p
      <4> SUFFICES ASSUME q >= p PROVE FALSE
        BY <3>2, <2>3
      <4>1. W * q >= W * p
        BY <3>2, <2>3, WotsAssumption
      <4> QED BY <4>1, <3>2, <2>3, WotsAssumption
    <3> QED BY <3>2, <3>3 DEF q
  <2> QED BY <2>1, <2>4 DEF p
<1>3. Nat \subseteq T
  BY <1>1, <1>2, SetInduction
<1>4. c[SumDigits] \in Nat /\ c[SumDigits] < Power[0]
  BY <1>3, WotsAssumption
<1>5. Power[0] = 1
  BY PowerFacts, WotsAssumption
<1> QED BY <1>3, <1>4, <1>5

\* Digit by digit smaller is smaller.
LEMMA LeftCompare ==
  ASSUME NEW x \in Nat, NEW y \in Nat, x < Power[SumDigits], y < Power[SumDigits],
         NEW c, NEW d, IsLeft(x, SumDigits, c), IsLeft(y, SumDigits, d),
         \A i \in 1..SumDigits : c[i - 1] % W <= d[i - 1] % W
  PROVE  x <= y
<1> DEFINE T == {k \in Nat : k <= SumDigits => c[SumDigits - k] <= d[SumDigits - k]}
<1>0. /\ \A i \in 0..SumDigits : c[i] \in Nat /\ d[i] \in Nat
      /\ c[SumDigits] = 0 /\ d[SumDigits] = 0
  BY LeftBound
<1>1. 0 \in T
  BY <1>0, WotsAssumption
<1>2. ASSUME NEW k \in Nat, k \in T PROVE k + 1 \in T
  <2> SUFFICES ASSUME k + 1 <= SumDigits
               PROVE  c[SumDigits - (k + 1)] <= d[SumDigits - (k + 1)]
    OBVIOUS
  <2> DEFINE i == SumDigits - k
  <2>1. i \in 1..SumDigits /\ i - 1 = SumDigits - (k + 1) /\ i - 1 \in 0..SumDigits
        /\ i \in 0..SumDigits /\ i # 0
    BY WotsAssumption
  <2>2. c[i] = c[i - 1] \div W /\ d[i] = d[i - 1] \div W
    BY <2>1 DEF IsLeft
  <2>3. c[i] <= d[i]
    BY <1>2, WotsAssumption
  <2> HIDE DEF i
  <2>4. /\ c[i - 1] = W * c[i] + (c[i - 1] % W) /\ c[i - 1] % W \in 0..(W - 1)
        /\ d[i - 1] = W * d[i] + (d[i - 1] % W) /\ d[i - 1] % W \in 0..(W - 1)
    BY <1>0, <2>1, <2>2, DivideByW
  <2>5. W * c[i] <= W * d[i]
    BY <1>0, <2>1, <2>3, WotsAssumption
  <2>6. W * c[i] \in Nat /\ W * d[i] \in Nat /\ c[i - 1] % W <= d[i - 1] % W
    BY <1>0, <2>1, WotsAssumption
  <2>7. c[i - 1] <= d[i - 1]
    BY <2>4, <2>5, <2>6
  <2> QED BY <2>1, <2>7
<1>3. Nat \subseteq T
  BY <1>1, <1>2, SetInduction
<1>4. c[0] <= d[0]
  BY <1>3, WotsAssumption
<1>5. 0 \in 0..SumDigits
  BY WotsAssumption
<1>6. c[0] = x /\ d[0] = y
  BY <1>5 DEF IsLeft
<1> QED BY <1>4, <1>6

-----------------------------------------------------------------------------
(***************************************************************************)
(* Chains.                                                                 *)
(***************************************************************************)
\* The values of a climb.
IsChain(x, k, j, from, n, c) ==
  c = [i \in 0..n |-> IF i = 0 THEN x ELSE xmss_chain_step(c[i - 1], k, j, from + i - 1)]

\* They exist.
LEMMA ChainExists ==
  ASSUME NEW x, NEW k, NEW j, NEW from \in Nat, NEW n \in Nat
  PROVE  \E c : IsChain(x, k, j, from, n, c)
<1> DEFINE T == {l \in Nat : \E c : IsChain(x, k, j, from, l, c)}
<1>1. 0 \in T
  <2>1. IsChain(x, k, j, from, 0, [i \in 0..0 |-> x])
    BY DEF IsChain
  <2> QED BY <2>1
<1>2. ASSUME NEW l \in Nat, l \in T PROVE l + 1 \in T
  <2>1. PICK c : IsChain(x, k, j, from, l, c)
    BY <1>2
  <2> DEFINE d == [i \in 0..(l + 1) |-> IF i <= l THEN c[i]
                                        ELSE xmss_chain_step(c[l], k, j, from + l)]
  <2>2. \A i \in 0..l : c[i] = IF i = 0 THEN x
                               ELSE xmss_chain_step(c[i - 1], k, j, from + i - 1)
    BY <2>1 DEF IsChain
  <2>3. ASSUME NEW i \in 0..(l + 1)
        PROVE  d[i] = IF i = 0 THEN x ELSE xmss_chain_step(d[i - 1], k, j, from + i - 1)
    <3>1. CASE i <= l
      BY <2>2, <3>1
    <3>2. CASE i = l + 1
      <4>1. d[i] = xmss_chain_step(c[l], k, j, from + l) /\ d[i - 1] = c[l]
        BY <3>2
      <4>2. from + i - 1 = from + l /\ i # 0
        BY <3>2
      <4> HIDE DEF d
      <4> QED BY <4>1, <4>2
    <3> QED BY <3>1, <3>2
  <2>4. IsChain(x, k, j, from, l + 1, d)
    BY <2>3 DEF IsChain
  <2> QED BY <2>4
<1>3. Nat \subseteq T
  BY <1>1, <1>2, SetInduction
<1> QED BY <1>3

\* xmss_hash_chain returns the last of them.
LEMMA ChainValues ==
  ASSUME NEW x, NEW k, NEW j, NEW from \in Nat, NEW n \in Nat
  PROVE  \E c : IsChain(x, k, j, from, n, c) /\ xmss_hash_chain(x, k, j, from, n) = c[n]
<1> DEFINE c == CHOOSE d : IsChain(x, k, j, from, n, d)
<1>1. IsChain(x, k, j, from, n, c)
  BY ChainExists
<1>2. xmss_hash_chain(x, k, j, from, n) = c[n]
  BY DEF xmss_hash_chain, IsChain
<1> QED BY <1>1, <1>2

\* A value climbs from the height it is at.
LEMMA Climb ==
  ASSUME NEW k, NEW j, NEW from \in Nat, NEW n \in Nat
  PROVE  xmss_hash_chain(<<k, j, from>>, k, j, from, n) = <<k, j, from + n>>
<1>0. PICK c : /\ IsChain(<<k, j, from>>, k, j, from, n, c)
               /\ xmss_hash_chain(<<k, j, from>>, k, j, from, n) = c[n]
  BY ChainValues
<1>1. \A i \in 0..n : c[i] = IF i = 0 THEN <<k, j, from>>
                             ELSE xmss_chain_step(c[i - 1], k, j, from + i - 1)
  BY <1>0 DEF IsChain
<1> DEFINE T == {l \in Nat : l <= n => c[l] = <<k, j, from + l>>}
<1>2. 0 \in T
  BY <1>1
<1>3. ASSUME NEW l \in Nat, l \in T PROVE l + 1 \in T
  <2> SUFFICES ASSUME l + 1 <= n PROVE c[l + 1] = <<k, j, from + (l + 1)>>
    OBVIOUS
  <2>1. l + 1 \in 0..n /\ l + 1 # 0 /\ l + 1 - 1 = l /\ from + (l + 1) - 1 = from + l
    OBVIOUS
  <2>2. c[l + 1] = xmss_chain_step(c[l], k, j, from + l)
    BY <1>1, <2>1
  <2>3. c[l] = <<k, j, from + l>>
    BY <1>3
  <2>4. from + (l + 1) = from + l + 1
    OBVIOUS
  <2> QED BY <2>2, <2>3, <2>4 DEF xmss_chain_step
<1>4. Nat \subseteq T
  BY <1>2, <1>3, SetInduction
<1> QED BY <1>0, <1>4

\* A value that is not at the height it is said to be at never gets into the
\* chain.
LEMMA Lost ==
  ASSUME NEW x, NEW k, NEW j, NEW from \in Nat, NEW n \in Nat \ {0},
         x # <<k, j, from>>
  PROVE  \A h : xmss_hash_chain(x, k, j, from, n) # <<k, j, h>>
<1>0. PICK c : /\ IsChain(x, k, j, from, n, c)
               /\ xmss_hash_chain(x, k, j, from, n) = c[n]
  BY ChainValues
<1>1. \A i \in 0..n : c[i] = IF i = 0 THEN x
                             ELSE xmss_chain_step(c[i - 1], k, j, from + i - 1)
  BY <1>0 DEF IsChain
<1>2. \A y, at, h : y # <<k, j, at>> => xmss_chain_step(y, k, j, at) # <<k, j, h>>
  BY DEF xmss_chain_step
<1> DEFINE T == {l \in Nat : l + 1 <= n => \A h : c[l + 1] # <<k, j, h>>}
<1>3. 0 \in T
  <2>1. c[1] = xmss_chain_step(x, k, j, from)
    <3>1. 1 \in 0..n /\ 0 \in 0..n /\ from + 1 - 1 = from /\ 1 - 1 = 0
      OBVIOUS
    <3> QED BY <1>1, <3>1
  <2> QED BY <1>2, <2>1
<1>4. ASSUME NEW l \in Nat, l \in T PROVE l + 1 \in T
  <2> SUFFICES ASSUME l + 1 + 1 <= n PROVE \A h : c[l + 1 + 1] # <<k, j, h>>
    OBVIOUS
  <2>1. l + 1 + 1 \in 0..n /\ l + 1 + 1 # 0 /\ l + 1 + 1 - 1 = l + 1
    OBVIOUS
  <2>2. c[l + 1 + 1] = xmss_chain_step(c[l + 1], k, j, from + (l + 1 + 1) - 1)
    BY <1>1, <2>1
  <2>3. \A h : c[l + 1] # <<k, j, h>>
    BY <1>4
  <2> QED BY <1>2, <2>2, <2>3
<1>5. Nat \subseteq T
  BY <1>3, <1>4, SetInduction
<1>6. n - 1 \in Nat /\ n - 1 + 1 = n
  OBVIOUS
<1> QED BY <1>0, <1>5, <1>6

-----------------------------------------------------------------------------
(***************************************************************************)
(* The leaf of a key is that of its chain ends only.                       *)
(***************************************************************************)
\* A level of the tree: pairs, and the last node if it has no partner.
LEMMA LevelNodes ==
  ASSUME NEW S, NEW nodes \in Seq(S), NEW k, NEW level, Len(nodes) # 0
  PROVE  LET n == Len(nodes)
             h == n \div 2
             t == ltree_level(k, nodes, level)
         IN  /\ \E R : t \in Seq(R)
             /\ Len(t) = n - h
             /\ \A i \in 1..h : t[i] = <<k, level, i - 1, nodes[2 * i - 1], nodes[2 * i]>>
             /\ n - h = h + 1 => t[h + 1] = nodes[n]
             /\ h \in Nat /\ (n = 2 * h \/ n = 2 * h + 1)
<1> DEFINE n == Len(nodes)
           h == n \div 2
           pairs == [i \in 1..h |-> <<k, level, i - 1, nodes[2 * i - 1], nodes[2 * i]>>]
           last == SubSeq(nodes, n - (n % 2) + 1, n)
           R == S \cup {pairs[i] : i \in 1..h}
<1>1. n \in Nat /\ n # 0 /\ \A i \in 1..n : nodes[i] \in S
  BY LenProperties, ElementOfSeq
<1> HIDE DEF n
<1>2. h \in Nat /\ n % 2 \in {0, 1} /\ n = 2 * h + (n % 2)
  BY <1>1
<1> HIDE DEF h
<1>3. pairs \in Seq(R) /\ Len(pairs) = h
  <2>1. pairs \in [1..h -> R]
    OBVIOUS
  <2> HIDE DEF pairs, R
  <2> QED BY <1>2, <2>1, FunctionIsSeq
<1>4. /\ last \in Seq(R) /\ Len(last) = n % 2
      /\ n % 2 = 1 => last[1] = nodes[n]
  <2> DEFINE from == n - (n % 2) + 1
  <2>1. from \in Int /\ n \in Int
    BY <1>1, <1>2
  <2>2. \A i \in from..n : nodes[i] \in R
    BY <1>1, <1>2
  <2> HIDE DEF from, R
  <2>3. /\ SubSeq(nodes, from, n) \in Seq(R)
        /\ Len(SubSeq(nodes, from, n)) = IF from <= n THEN n - from + 1 ELSE 0
        /\ \A i \in 1..(n - from + 1) : SubSeq(nodes, from, n)[i] = nodes[from + i - 1]
    BY <2>1, <2>2, SubSeqProperties
  <2>4. last = SubSeq(nodes, from, n)
    BY DEF from
  <2> HIDE DEF last
  <2>5. (IF from <= n THEN n - from + 1 ELSE 0) = n % 2
    BY <1>1, <1>2 DEF from
  <2>6. n % 2 = 1 => 1 \in 1..(n - from + 1) /\ from + 1 - 1 = n
    BY <1>1, <1>2 DEF from
  <2> QED BY <2>3, <2>4, <2>5, <2>6
<1>5. /\ pairs \o last \in Seq(R) /\ Len(pairs \o last) = h + (n % 2)
      /\ \A i \in 1..(h + (n % 2)) :
           (pairs \o last)[i] = IF i <= h THEN pairs[i] ELSE last[i - h]
  <2> HIDE DEF pairs, last, R
  <2>1. /\ pairs \o last \in Seq(R) /\ Len(pairs \o last) = Len(pairs) + Len(last)
        /\ \A i \in 1..(Len(pairs) + Len(last)) :
             (pairs \o last)[i] = IF i <= Len(pairs) THEN pairs[i] ELSE last[i - Len(pairs)]
    BY <1>3, <1>4, ConcatProperties
  <2> QED BY <1>3, <1>4, <2>1
<1>6. ltree_level(k, nodes, level) = pairs \o last
  BY DEF ltree_level, n, h
<1> HIDE DEF last, R
<1>7. /\ \A i \in 1..h : (pairs \o last)[i]
                           = <<k, level, i - 1, nodes[2 * i - 1], nodes[2 * i]>>
      /\ n - h = h + 1 => (pairs \o last)[h + 1] = nodes[n]
  <2>1. ASSUME NEW i \in 1..h PROVE (pairs \o last)[i] = pairs[i]
    BY <1>2, <1>5
  <2>2. ASSUME n - h = h + 1 PROVE (pairs \o last)[h + 1] = nodes[n]
    <3>1. n % 2 = 1 /\ h + 1 \in 1..(h + (n % 2)) /\ ~(h + 1 <= h) /\ (h + 1) - h = 1
      BY <1>1, <1>2, <2>2
    <3> QED BY <1>4, <1>5, <3>1
  <2> QED BY <2>1, <2>2
<1>8. h + (n % 2) = n - h /\ (n = 2 * h \/ n = 2 * h + 1)
  BY <1>1, <1>2
<1> HIDE DEF pairs
<1> QED BY <1>2, <1>5, <1>6, <1>7, <1>8 DEF n, h

\* A level of the tree determines the one below it.
LEMMA LevelInjective ==
  ASSUME NEW S, NEW a \in Seq(S), NEW b \in Seq(S), NEW k, NEW level,
         Len(a) = Len(b), Len(a) # 0, ltree_level(k, a, level) = ltree_level(k, b, level)
  PROVE  a = b
<1> DEFINE n == Len(a)
           h == n \div 2
           t == ltree_level(k, a, level)
           v == ltree_level(k, b, level)
<1>1. n \in Nat
  BY LenProperties
<1>2. /\ h \in Nat /\ (n = 2 * h \/ n = 2 * h + 1)
      /\ \A i \in 1..h : t[i] = <<k, level, i - 1, a[2 * i - 1], a[2 * i]>>
      /\ n - h = h + 1 => t[h + 1] = a[n]
  BY LevelNodes
<1>3. LET m == Len(b)
          g == m \div 2
      IN  /\ \A i \in 1..g : v[i] = <<k, level, i - 1, b[2 * i - 1], b[2 * i]>>
          /\ m - g = g + 1 => v[g + 1] = b[m]
  BY LevelNodes
<1>4. t = v /\ Len(b) = n
  OBVIOUS
<1> HIDE DEF t, v
<1>5. /\ \A i \in 1..h : t[i] = <<k, level, i - 1, b[2 * i - 1], b[2 * i]>>
      /\ n - h = h + 1 => t[h + 1] = b[n]
  BY <1>3, <1>4
<1> HIDE DEF n, h
<1>6. ASSUME NEW i \in 1..h PROVE a[2 * i - 1] = b[2 * i - 1] /\ a[2 * i] = b[2 * i]
  <2>1. <<k, level, i - 1, a[2 * i - 1], a[2 * i]>> = <<k, level, i - 1, b[2 * i - 1], b[2 * i]>>
    BY <1>2, <1>5, Zenon
  <2> QED BY <2>1
<1>7. ASSUME NEW j \in 1..n PROVE a[j] = b[j]
  <2>1. CASE j > 2 * h
    <3>1. j = n /\ n - h = h + 1
      BY <1>1, <1>2, <2>1
    <3> QED BY <1>2, <1>5, <3>1
  <2>2. CASE j <= 2 * h
    <3>1. PICK i \in Nat : j = 2 * i \/ j = 2 * i - 1
      <4>1. j \in Nat
        BY <1>1
      <4>2. j = 2 * (j \div 2) \/ j = 2 * ((j \div 2) + 1) - 1
        BY <4>1
      <4>3. j \div 2 \in Nat /\ (j \div 2) + 1 \in Nat
        BY <4>1
      <4> QED BY <4>2, <4>3
    <3>2. i \in 1..h
      BY <1>1, <1>2, <2>2, <3>1
    <3> QED BY <1>6, <3>1, <3>2
  <2> QED BY <1>1, <1>2, <2>1, <2>2
<1> QED BY <1>7, SeqEqual DEF n

\* The levels of a tree, from the chain ends to the root.
IsUp(k, pk, n, u) ==
  u = [l \in 0..n |->
         IF l = 0 THEN pk
         ELSE LET nodes == u[l - 1]
              IN  IF Len(nodes) = 1 THEN nodes ELSE ltree_level(k, nodes, l - 1)]

\* They exist.
LEMMA UpExists ==
  ASSUME NEW k, NEW pk, NEW n \in Nat
  PROVE  \E u : IsUp(k, pk, n, u)
<1> DEFINE T == {m \in Nat : \E u : IsUp(k, pk, m, u)}
<1>1. 0 \in T
  <2>1. IsUp(k, pk, 0, [l \in 0..0 |-> pk])
    BY DEF IsUp
  <2> QED BY <2>1
<1>2. ASSUME NEW m \in Nat, m \in T PROVE m + 1 \in T
  <2>1. PICK u : IsUp(k, pk, m, u)
    BY <1>2
  <2> DEFINE next(nodes, l) == IF Len(nodes) = 1 THEN nodes ELSE ltree_level(k, nodes, l - 1)
             v == [l \in 0..(m + 1) |-> IF l <= m THEN u[l] ELSE next(u[m], m + 1)]
  <2>2. \A l \in 0..m : u[l] = IF l = 0 THEN pk ELSE next(u[l - 1], l)
    BY <2>1 DEF IsUp
  <2> HIDE DEF next
  <2>3. ASSUME NEW l \in 0..(m + 1)
        PROVE  v[l] = IF l = 0 THEN pk ELSE next(v[l - 1], l)
    BY <2>2
  <2>4. v = [l \in 0..(m + 1) |-> IF l = 0 THEN pk ELSE next(v[l - 1], l)]
    BY <2>3
  <2>5. IsUp(k, pk, m + 1, v)
    BY <2>4 DEF IsUp, next
  <2> QED BY <2>5
<1>3. Nat \subseteq T
  BY <1>1, <1>2, SetInduction
<1> QED BY <1>3

\* Each is made from the one below, until there is one node.
LEMMA UpStep ==
  ASSUME NEW k, NEW pk, NEW n \in Nat, NEW u, IsUp(k, pk, n, u),
         NEW l \in Nat, l + 1 <= n
  PROVE  u[l + 1] = IF Len(u[l]) = 1 THEN u[l] ELSE ltree_level(k, u[l], l)
<1> DEFINE next(nodes, j) == IF Len(nodes) = 1 THEN nodes ELSE ltree_level(k, nodes, j)
<1>1. \A j \in 0..n : u[j] = IF j = 0 THEN pk ELSE next(u[j - 1], j - 1)
  BY DEF IsUp
<1>2. l + 1 \in 0..n /\ l + 1 # 0 /\ l + 1 - 1 = l
  OBVIOUS
<1> HIDE DEF next
<1>3. u[l + 1] = next(u[l], l)
  BY <1>1, <1>2
<1> QED BY <1>3 DEF next

\* A level of more than one node is followed by a shorter one.
IsNodes(s) == (\E R : s \in Seq(R)) /\ Len(s) \in Nat \ {0}

\* It has half as many nodes, rounded up.
LEMMA LevelShrinks ==
  ASSUME NEW s, NEW k, NEW level, IsNodes(s), Len(s) # 1
  PROVE  /\ IsNodes(ltree_level(k, s, level))
         /\ Len(ltree_level(k, s, level)) = Len(s) - (Len(s) \div 2)
         /\ Len(ltree_level(k, s, level)) < Len(s)
<1> DEFINE t == ltree_level(k, s, level)
           n == Len(s)
           h == n \div 2
<1>1. PICK R : s \in Seq(R)
  BY DEF IsNodes
<1>2. n \in Nat /\ n # 0 /\ n # 1
  BY DEF IsNodes
<1>3. (\E P : t \in Seq(P)) /\ Len(t) = n - h
  BY <1>1, <1>2, LevelNodes
<1> HIDE DEF t, n
<1>4. h \in Nat /\ n - h \in Nat \ {0} /\ n - h < n
  BY <1>2
<1> HIDE DEF h
<1>5. IsNodes(t) /\ Len(t) = n - h /\ Len(t) < n
  BY <1>3, <1>4 DEF IsNodes
<1> QED BY <1>5 DEF t, n, h

\* Two trees of as many chains that have the same leaf have the same chain ends.
LEMMA LeafInjective ==
  ASSUME NEW S, NEW a \in Seq(S), NEW b \in Seq(S), NEW k,
         Len(a) = WOTS_CHAINS, Len(b) = WOTS_CHAINS,
         wots_pk_to_leaf(k, a) = wots_pk_to_leaf(k, b)
  PROVE  a = b
<1> DEFINE N == WOTS_CHAINS
           u == CHOOSE w : IsUp(k, a, N, w)
           v == CHOOSE w : IsUp(k, b, N, w)
<1>0. N \in Nat \ {0}
  BY WotsAssumption DEF WOTS_CHAINS
<1> HIDE DEF N
<1>1. IsUp(k, a, N, u) /\ IsUp(k, b, N, v)
  BY <1>0, UpExists
<1>2. wots_pk_to_leaf(k, a) = u[N][1] /\ wots_pk_to_leaf(k, b) = v[N][1]
  BY DEF wots_pk_to_leaf, IsUp, N
<1> HIDE DEF u, v
<1>3. u[0] = a /\ v[0] = b
  BY <1>0, <1>1 DEF IsUp
<1>4. ASSUME NEW l \in Nat, l + 1 <= N
      PROVE  /\ u[l + 1] = IF Len(u[l]) = 1 THEN u[l] ELSE ltree_level(k, u[l], l)
             /\ v[l + 1] = IF Len(v[l]) = 1 THEN v[l] ELSE ltree_level(k, v[l], l)
  BY <1>0, <1>1, <1>4, UpStep
\* both have as many nodes at every level, fewer at each, until there is one
<1> DEFINE Level(l) == /\ IsNodes(u[l]) /\ IsNodes(v[l]) /\ Len(u[l]) = Len(v[l])
                       /\ Len(u[l]) = 1 \/ Len(u[l]) + l <= N
           T == {l \in Nat : l <= N => Level(l)}
<1>5. 0 \in T
  <2>1. Len(a) = N /\ Len(b) = N
    BY DEF N
  <2> QED BY <1>0, <1>3, <2>1 DEF IsNodes
<1>6. ASSUME NEW l \in Nat, l \in T PROVE l + 1 \in T
  <2>1. ASSUME l + 1 <= N PROVE Level(l + 1)
    <3>1. Level(l)
      BY <1>0, <1>6, <2>1
    <3>2. CASE Len(u[l]) = 1
      BY <1>4, <2>1, <3>1, <3>2
    <3>3. CASE Len(u[l]) # 1
      <4>1. u[l + 1] = ltree_level(k, u[l], l) /\ v[l + 1] = ltree_level(k, v[l], l)
        BY <1>4, <2>1, <3>1, <3>3
      <4>2. /\ IsNodes(u[l]) /\ IsNodes(v[l]) /\ Len(u[l]) # 1 /\ Len(v[l]) # 1
            /\ Len(u[l]) = Len(v[l]) /\ Len(u[l]) + l <= N
        BY <3>1, <3>3
      <4> HIDE DEF Level
      <4>3. /\ IsNodes(u[l + 1]) /\ Len(u[l + 1]) = Len(u[l]) - (Len(u[l]) \div 2)
            /\ Len(u[l + 1]) < Len(u[l])
        <5>1. /\ IsNodes(ltree_level(k, u[l], l))
              /\ Len(ltree_level(k, u[l], l)) = Len(u[l]) - (Len(u[l]) \div 2)
              /\ Len(ltree_level(k, u[l], l)) < Len(u[l])
          BY <4>2, LevelShrinks
        <5> QED BY <4>1, <5>1, Zenon
      <4>4. IsNodes(v[l + 1]) /\ Len(v[l + 1]) = Len(v[l]) - (Len(v[l]) \div 2)
        <5>1. /\ IsNodes(ltree_level(k, v[l], l))
              /\ Len(ltree_level(k, v[l], l)) = Len(v[l]) - (Len(v[l]) \div 2)
          BY <4>2, LevelShrinks
        <5> QED BY <4>1, <5>1, Zenon
      <4> DEFINE x == Len(u[l])
                 y == Len(u[l + 1])
      <4>5. x \in Nat /\ y \in Nat
        BY <4>2, <4>3 DEF IsNodes
      <4>6. y + (l + 1) <= N
        <5>1. x + l <= N /\ y < x
          BY <4>2, <4>3
        <5> HIDE DEF x, y
        <5> QED BY <1>0, <4>5, <5>1
      <4> QED BY <4>2, <4>3, <4>4, <4>6, Zenon DEF Level
    <3> QED BY <3>2, <3>3
  <2> HIDE DEF Level
  <2> QED BY <2>1
<1>7. \A l \in 0..N : Level(l)
  <2>1. Nat \subseteq T
    BY <1>5, <1>6, SetInduction
  <2> QED BY <1>0, <2>1
<1>8. u[N] = v[N]
  <2>1. Level(N)
    BY <1>0, <1>7
  <2>2. Len(u[N]) = 1 /\ Len(v[N]) = 1
    BY <1>0, <2>1 DEF IsNodes
  <2>3. PICK R, Q : u[N] \in Seq(R) /\ v[N] \in Seq(Q)
    BY <2>1 DEF IsNodes
  <2>4. u[N] \in Seq(R \cup Q) /\ v[N] \in Seq(R \cup Q)
    BY <2>3, SeqMonotonic
  <2>5. u[N][1] = v[N][1]
    BY <1>2
  <2>6. \A i \in 1..1 : u[N][i] = v[N][i]
    BY <2>5
  <2> QED BY <2>2, <2>4, <2>6, SeqEqual
\* and are equal from the root down
<1> DEFINE D == {i \in Nat : i <= N => u[N - i] = v[N - i]}
<1>9. 0 \in D
  BY <1>0, <1>8
<1>10. ASSUME NEW i \in Nat, i \in D PROVE i + 1 \in D
  <2> SUFFICES ASSUME i + 1 <= N PROVE u[N - (i + 1)] = v[N - (i + 1)]
    OBVIOUS
  <2> DEFINE l == N - (i + 1)
  <2>1. l \in Nat /\ l + 1 <= N /\ N - i = l + 1 /\ l \in 0..N
    BY <1>0
  <2>2. u[l + 1] = v[l + 1]
    BY <1>0, <1>10, <2>1
  <2> HIDE DEF l
  <2>3. Level(l)
    BY <1>7, <2>1
  <2>4. CASE Len(u[l]) = 1
    BY <1>4, <2>1, <2>2, <2>3, <2>4 DEF l
  <2>5. CASE Len(u[l]) # 1
    <3>1. ltree_level(k, u[l], l) = ltree_level(k, v[l], l)
      BY <1>4, <2>1, <2>2, <2>3, <2>5
    <3>2. PICK R, Q : u[l] \in Seq(R) /\ v[l] \in Seq(Q)
      BY <2>3 DEF IsNodes
    <3>3. u[l] \in Seq(R \cup Q) /\ v[l] \in Seq(R \cup Q)
      BY <3>2, SeqMonotonic
    <3>4. u[l] = v[l]
      BY <2>3, <3>1, <3>3, LevelInjective DEF IsNodes
    <3> QED BY <3>4 DEF l
  <2> QED BY <2>4, <2>5
<1>11. u[0] = v[0]
  <2>1. Nat \subseteq D
    BY <1>9, <1>10, SetInduction
  <2>2. N \in D /\ N - N = 0
    BY <1>0, <2>1
  <2> QED BY <1>0, <2>2
<1> QED BY <1>3, <1>11

-----------------------------------------------------------------------------
(***************************************************************************)
(* One signature.                                                          *)
(***************************************************************************)
\* The checksum of a message fits its digits.
LEMMA ChecksumFits ==
  ASSUME NEW m \in Message
  PROVE  checksum(m) \in Nat /\ checksum(m) < Power[SumDigits]
<1>1. PICK s : IsSum(m, MsgDigits, s) /\ checksum(m) = s[MsgDigits]
  BY ChecksumSum
<1>2. s[MsgDigits] \in Nat /\ s[MsgDigits] <= MsgDigits * (W - 1)
  BY <1>1, SumBound, WotsAssumption
<1>3. Power[SumDigits] \in Nat /\ MsgDigits * (W - 1) \in Nat
  BY PowerFacts, WotsAssumption
<1> QED BY <1>1, <1>2, <1>3, WotsAssumption

\* The digits of a message are its own and those of its checksum.
LEMMA DigitsOf ==
  ASSUME NEW m \in Message
  PROVE  \E c : /\ IsLeft(checksum(m), SumDigits, c)
                /\ \A j \in Chains :
                     wots_digits(m)[j] = IF j <= MsgDigits THEN m[j]
                                         ELSE c[j - MsgDigits - 1] % W
                /\ \A j \in Chains : wots_digits(m)[j] \in Digit
<1>1. PICK c : /\ IsLeft(checksum(m), SumDigits, c)
               /\ wots_digits(m) = m \o [i \in 1..SumDigits |-> c[i - 1] % W]
  BY DigitsLeft
<1> DEFINE tail == [i \in 1..SumDigits |-> c[i - 1] % W]
<1>2. checksum(m) \in Nat /\ checksum(m) < Power[SumDigits]
  BY ChecksumFits
<1>3. \A i \in 0..SumDigits : c[i] \in Nat
  BY <1>1, <1>2, LeftBound
<1>4. tail \in [1..SumDigits -> Digit]
  <2>1. ASSUME NEW i \in 1..SumDigits PROVE c[i - 1] % W \in Digit
    <3>1. c[i - 1] \in Nat
      BY <1>3, WotsAssumption
    <3> QED BY <3>1, DivideByW DEF Digit
  <2> QED BY <2>1
<1>5. m \in Seq(Digit) /\ Len(m) = MsgDigits
  BY WotsAssumption, FunctionIsSeq DEF Message
<1>6. tail \in Seq(Digit) /\ Len(tail) = SumDigits
  <2> HIDE DEF tail
  <2> QED BY <1>4, WotsAssumption, FunctionIsSeq
<1>7. /\ m \o tail \in Seq(Digit) /\ Len(m \o tail) = MsgDigits + SumDigits
      /\ \A j \in 1..(MsgDigits + SumDigits) :
           (m \o tail)[j] = IF j <= MsgDigits THEN m[j] ELSE tail[j - MsgDigits]
  <2> HIDE DEF tail
  <2>1. /\ m \o tail \in Seq(Digit) /\ Len(m \o tail) = Len(m) + Len(tail)
        /\ \A j \in 1..(Len(m) + Len(tail)) :
             (m \o tail)[j] = IF j <= Len(m) THEN m[j] ELSE tail[j - Len(m)]
    BY <1>5, <1>6, ConcatProperties
  <2> QED BY <1>5, <1>6, <2>1
<1>8. ASSUME NEW j \in Chains
      PROVE  /\ (m \o tail)[j] = IF j <= MsgDigits THEN m[j] ELSE c[j - MsgDigits - 1] % W
             /\ (m \o tail)[j] \in Digit
  <2>1. j \in 1..(MsgDigits + SumDigits) /\ j \in Int
    BY WotsAssumption DEF Chains, WOTS_CHAINS
  <2>2. (m \o tail)[j] \in Digit
    BY <1>7, <2>1, ElementOfSeq
  <2>3. ASSUME ~(j <= MsgDigits) PROVE tail[j - MsgDigits] = c[j - MsgDigits - 1] % W
    BY <2>1, <2>3, WotsAssumption
  <2> QED BY <1>7, <2>1, <2>2, <2>3
<1> QED BY <1>1, <1>8

\* No message has its digits, those of the checksum included, nowhere below those
\* of another one.
THEOREM DigitsIncomparable ==
  ASSUME NEW s \in Message, NEW m \in Message,
         \A j \in Chains : wots_digits(s)[j] <= wots_digits(m)[j]
  PROVE  s = m
<1>1. PICK c : /\ IsLeft(checksum(s), SumDigits, c)
               /\ \A j \in Chains :
                    wots_digits(s)[j] = IF j <= MsgDigits THEN s[j]
                                        ELSE c[j - MsgDigits - 1] % W
  BY DigitsOf
<1>2. PICK d : /\ IsLeft(checksum(m), SumDigits, d)
               /\ \A j \in Chains :
                    wots_digits(m)[j] = IF j <= MsgDigits THEN m[j]
                                        ELSE d[j - MsgDigits - 1] % W
  BY DigitsOf
<1>3. \A i \in 1..MsgDigits : s[i] <= m[i]
  <2>1. \A i \in 1..MsgDigits : i \in Chains /\ i <= MsgDigits
    BY WotsAssumption DEF Chains, WOTS_CHAINS
  <2> QED BY <1>1, <1>2, <2>1
<1>4. ASSUME NEW i \in 1..SumDigits PROVE c[i - 1] % W <= d[i - 1] % W
  <2> DEFINE j == MsgDigits + i
  <2>1. j \in Chains /\ ~(j <= MsgDigits) /\ j - MsgDigits - 1 = i - 1
    BY WotsAssumption DEF Chains, WOTS_CHAINS
  <2> HIDE DEF j
  <2>2. wots_digits(s)[j] = c[i - 1] % W
    BY <1>1, <2>1
  <2>3. wots_digits(m)[j] = d[i - 1] % W
    BY <1>2, <2>1
  <2> QED BY <2>1, <2>2, <2>3
<1>5. checksum(s) <= checksum(m)
  BY <1>1, <1>2, <1>4, ChecksumFits, LeftCompare
<1>6. checksum(s) >= checksum(m) /\ (checksum(s) = checksum(m) => s = m)
  <2>1. PICK x : IsSum(s, MsgDigits, x) /\ checksum(s) = x[MsgDigits]
    BY ChecksumSum
  <2>2. PICK y : IsSum(m, MsgDigits, y) /\ checksum(m) = y[MsgDigits]
    BY ChecksumSum
  <2> QED BY <1>3, <2>1, <2>2, SumCompare
<1> QED BY <1>5, <1>6, ChecksumFits

\* The end of every chain.
LEMMA ChainEnds ==
  ASSUME NEW k
  PROVE  wots_pk(k) = [j \in Chains |-> <<k, j, W - 1>>]
<1>1. ASSUME NEW j \in Chains
      PROVE  xmss_hash_chain(wots_sk_chain(k, j), k, j, 0, W - 1) = <<k, j, W - 1>>
  <2>1. W - 1 \in Nat /\ 0 + (W - 1) = W - 1
    BY WotsAssumption
  <2>2. xmss_hash_chain(<<k, j, 0>>, k, j, 0, W - 1) = <<k, j, 0 + (W - 1)>>
    BY <2>1, Climb
  <2> QED BY <2>1, <2>2 DEF wots_sk_chain
<1> QED BY <1>1 DEF wots_pk

\* From one signature, of s, the signature of m is composed of the values at the
\* heights of m, where those of s are not higher, and of the values of s elsewhere.
LEMMA ComposedFrom ==
  ASSUME NEW k, NEW s \in Message, NEW m \in Message, NEW j \in Chains
  PROVE  Composed(k, {s}, m)[j] =
           IF wots_digits(s)[j] <= wots_digits(m)[j]
           THEN <<k, j, wots_digits(m)[j]>> ELSE <<k, j, wots_digits(s)[j]>>
<1> DEFINE ds == wots_digits(s)
           dm == wots_digits(m)
           low == CHOOSE h \in Digit : /\ \E r \in {wots_digits(x) : x \in {s}} : r[j] = h
                                       /\ \A r \in {wots_digits(x) : x \in {s}} : r[j] >= h
<1>1. ds[j] \in Digit /\ dm[j] \in Digit
  BY DigitsOf
<1>2. \A h \in Digit : h \in Nat
  BY WotsAssumption DEF Digit
<1>3. {wots_digits(x) : x \in {s}} = {ds}
  OBVIOUS
<1> HIDE DEF ds, dm
<1>4. low = ds[j]
  <2>1. /\ \E r \in {ds} : r[j] = ds[j]
        /\ \A r \in {ds} : r[j] >= ds[j]
    BY <1>1, <1>2
  <2>2. low \in Digit /\ \E r \in {ds} : r[j] = low
    BY <1>1, <1>3, <2>1
  <2> QED BY <2>2
<1>5. Composed(k, {s}, m)[j] =
        IF low <= dm[j] THEN xmss_hash_chain(<<k, j, low>>, k, j, low, dm[j] - low)
        ELSE <<k, j, low>>
  BY DEF Composed, dm
<1>6. ASSUME ds[j] <= dm[j]
      PROVE  xmss_hash_chain(<<k, j, ds[j]>>, k, j, ds[j], dm[j] - ds[j]) = <<k, j, dm[j]>>
  <2>1. ds[j] \in Nat /\ dm[j] - ds[j] \in Nat /\ ds[j] + (dm[j] - ds[j]) = dm[j]
    BY <1>1, <1>2, <1>6
  <2> QED BY <2>1, Climb
<1> HIDE DEF low
<1> QED BY <1>4, <1>5, <1>6 DEF ds, dm

\* It verifies if the digits of s are nowhere above those of m, and only then: a
\* value above its height is lost, and the leaf tells chain ends apart.
LEMMA OneSignatureVerifies ==
  ASSUME NEW k, NEW s \in Message, NEW m \in Message
  PROVE  Covers(k, {s}, m) <=> \A j \in Chains : wots_digits(s)[j] <= wots_digits(m)[j]
<1> DEFINE ds == wots_digits(s)
           dm == wots_digits(m)
           sig == Composed(k, {s}, m)
           pk == recover_wots_pk(m, k, sig)
<1>1. \A j \in Chains : ds[j] \in 0..(W - 1) /\ dm[j] \in 0..(W - 1)
  BY DigitsOf DEF Digit
<1>2. DOMAIN sig = Chains
  BY DEF Composed
<1>3. pk = [j \in Chains |-> xmss_hash_chain(sig[j], k, j, dm[j], W - 1 - dm[j])]
  BY DEF recover_wots_pk
<1>4. \A j \in Chains : sig[j] = IF ds[j] <= dm[j] THEN <<k, j, dm[j]>> ELSE <<k, j, ds[j]>>
  BY ComposedFrom
<1> HIDE DEF ds, dm, sig, pk
<1>5. ASSUME NEW j \in Chains PROVE pk[j] = <<k, j, W - 1>> <=> ds[j] <= dm[j]
  <2>1. dm[j] \in Nat /\ W - 1 - dm[j] \in Nat /\ dm[j] + (W - 1 - dm[j]) = W - 1
    BY <1>1, WotsAssumption
  <2>2. CASE ds[j] <= dm[j]
    BY <1>3, <1>4, <2>1, <2>2, Climb
  <2>3. CASE ~(ds[j] <= dm[j])
    <3>1. <<k, j, ds[j]>> # <<k, j, dm[j]>> /\ W - 1 - dm[j] \in Nat \ {0}
      BY <1>1, <2>3, WotsAssumption
    <3>2. sig[j] = <<k, j, ds[j]>>
      BY <1>4, <2>3
    <3> QED BY <1>3, <2>1, <2>3, <3>1, <3>2, Lost
  <2> QED BY <2>2, <2>3
<1>6. Verifies(m, k, sig) <=> wots_pk_to_leaf(k, pk) = wots_pk_to_leaf(k, wots_pk(k))
  BY <1>2 DEF Verifies, auth_leaf_hash, pk
<1> DEFINE S == {pk[j] : j \in Chains} \cup {wots_pk(k)[j] : j \in Chains}
<1>7. /\ pk \in Seq(S) /\ wots_pk(k) \in Seq(S)
      /\ Len(pk) = WOTS_CHAINS /\ Len(wots_pk(k)) = WOTS_CHAINS
  <2>1. WOTS_CHAINS \in Nat
    BY WotsAssumption DEF WOTS_CHAINS
  <2>2. pk \in [1..WOTS_CHAINS -> S] /\ wots_pk(k) \in [1..WOTS_CHAINS -> S]
    BY <1>3, ChainEnds DEF Chains
  <2> HIDE DEF S
  <2> QED BY <2>1, <2>2, FunctionIsSeq
<1> HIDE DEF S
<1>8. Verifies(m, k, sig) <=> pk = wots_pk(k)
  BY <1>6, <1>7, LeafInjective
<1>9. pk = wots_pk(k) <=> \A j \in Chains : pk[j] = <<k, j, W - 1>>
  BY <1>3, ChainEnds
<1>10. Covers(k, {s}, m) <=> Verifies(m, k, sig)
  BY DEF Covers, sig
<1> QED BY <1>5, <1>8, <1>9, <1>10 DEF ds, dm

\* A key that signed one message, and no other, amounts to a signature of that
\* message and of no other: the checksum of wots_digits and the chain addresses of
\* xmss_chain_step leave nothing to compose.
THEOREM OneTimeSignature ==
  ASSUME NEW k, NEW s \in Message
  PROVE  {m \in Message : Covers(k, {s}, m)} = {s}
<1>1. ASSUME NEW m \in Message, Covers(k, {s}, m) PROVE m = s
  BY <1>1, OneSignatureVerifies, DigitsIncomparable
<1>2. Covers(k, {s}, s)
  <2>1. \A j \in Chains : wots_digits(s)[j] \in Nat
    BY DigitsOf, WotsAssumption DEF Digit
  <2> QED BY <2>1, OneSignatureVerifies
<1> QED BY <1>1, <1>2

-----------------------------------------------------------------------------
(***************************************************************************)
(* The lock and the floor file: the invariant.                             *)
(***************************************************************************)
\* The places a command can be at: on its way to the lock, with the wallet in
\* memory, and holding the lock.
Acquiring == {"create", "create_again", "remove_stale", "write_pid"}
Loaded == {"receive", "watch", "spend", "save", "save_floor", "prove", "poll", "submit"}
Holder == {"keygen", "load", "release"} \cup Loaded
Place == {"unborn", "gone"} \cup Acquiring \cup Holder

\* What a file holds, and what a command remembers of its spend.
Stored == WalletFile \cup {NoWallet}
Job == [message : 0..Len(Sighash), keys : SUBSET Key, polls : Nat, unknown : Nat]

\* The type invariant.
TypeOK ==
  /\ lock \in Pid \cup {NoFile, EmptyFile}
  /\ wallet \in Stored /\ floor \in Stored /\ backup \in Stored
  /\ pc \in [Pid -> Place]
  /\ cmd \in [Pid -> {"none", "init", "receive", "watch", "spend", "proved", "submitted"}]
  /\ mem \in [Pid -> Stored]
  /\ judged \in [Pid -> Pid \cup {NoFile}]
  /\ job \in [Pid -> Job]
  /\ spends \in 0..Len(Sighash)
  /\ exposed \in [Key -> SUBSET Message]
  /\ stolen \in BOOLEAN

\* What a command at each place does.
CommandAt(p) ==
  /\ pc[p] \in Acquiring => cmd[p] \in {"init", "receive", "watch", "spend"}
  /\ pc[p] = "load" => cmd[p] \in {"receive", "watch", "spend"}
  /\ pc[p] = "keygen" => cmd[p] = "init"
  /\ pc[p] \in {"receive", "watch", "spend"} => cmd[p] = pc[p]
  /\ pc[p] = "prove" => cmd[p] = "spend"
  /\ pc[p] \in {"save", "save_floor", "prove"} /\ cmd[p] = "spend"
       => job[p].message # 0

\* A copy of the wallet in memory is one that can be saved.
MemoryAt(p) == pc[p] \in Loaded => mem[p] # NoWallet

\* No job is made before the keys are reserved, and none by sync --watch.
NoJobAt(p) ==
  (pc[p] \in {"unborn", "gone", "keygen", "load", "receive", "watch", "spend"} \cup Acquiring
   \/ cmd[p] = "watch")
    => job[p].keys = {}

\* The lock names its holder; a process in it has been started; a pid judged
\* dead stays dead.
LockAt(p) ==
  /\ pc[p] \in Holder => lock = p
  /\ pc[p] = "write_pid" => lock = EmptyFile
  /\ pc[p] = "remove_stale" => judged[p] \in Pid /\ pc[judged[p]] = "gone"

\* One process at most has created the lock file and not written it,
OneWriter ==
  \A p, q \in Pid : pc[p] = "write_pid" /\ pc[q] = "write_pid" => p = q

\* and the process the lock names has been started.
LockStarted == lock \in Pid => pc[lock] # "unborn"

\* A floor file is never without a wallet file: init starts from nothing only
\* if there is nothing.
FloorHasWallet ==
  /\ wallet = NoWallet => floor = NoWallet
  /\ \A p \in Pid : pc[p] = "save_floor" => wallet # NoWallet

\* A wallet in memory is not behind the floor, and is the floor when the job
\* is handed over.
FloorAt(p) ==
  /\ pc[p] \in Loaded =>
       \A a \in Addr : mem[p].next_index[a] >= floor.next_index[a]
  /\ pc[p] = "prove" => floor = mem[p]

\* The keys of a job were never used, and the wallet in memory is past them.
JobAt(p) ==
  pc[p] \in {"save", "save_floor", "prove", "submit"} =>
    \A a \in Addr, i \in 0..(TreeSize - 1) :
      <<a, i>> \in job[p].keys =>
        i < mem[p].next_index[a] /\ exposed[<<a, i>>] = {}

\* All of it, of every process.
Control == \A p \in Pid : CommandAt(p) /\ MemoryAt(p) /\ NoJobAt(p)
LockInv == \A p \in Pid : LockAt(p)
KeysInv == \A p \in Pid : FloorAt(p) /\ JobAt(p)

\* The part on the lock and on keys holds until a live process loses its lock.
IndInv ==
  /\ TypeOK /\ Control /\ FloorHasWallet /\ LockStarted
  /\ ~stolen => LockInv /\ OneWriter /\ KeysInv /\ ExposedBelowFloor

-----------------------------------------------------------------------------
(***************************************************************************)
(* Types.                                                                  *)
(***************************************************************************)
\* Pids and addresses are numbers; the marks of a lock without one are no pid.
LEMMA Constants ==
  /\ Pid \subseteq Nat \ {0} /\ Addr \subseteq Nat
  /\ Cardinality(Addr) \in Nat /\ \A a \in Addr : a < Cardinality(Addr)
  /\ NoFile \notin Pid /\ EmptyFile \notin Pid /\ NoFile # EmptyFile
  /\ TreeSize \in Nat /\ PollCap \in Nat /\ Len(Sighash) \in Nat
  /\ \A i \in 1..Len(Sighash) : Sighash[i] \in Message
<1>1. Cardinality(Pid) \in Nat /\ Cardinality(Addr) \in Nat
  BY KeysAssumption, FS_CardinalityType
<1>2. Len(Sighash) \in Nat /\ \A i \in 1..Len(Sighash) : Sighash[i] \in Message
  BY KeysAssumption, LenProperties
<1>3. \A p \in Pid : p \in 1..Cardinality(Pid)
  BY KeysAssumption
<1>4. \A a \in Addr : a \in 0..(Cardinality(Addr) - 1)
  BY KeysAssumption
<1> QED BY <1>1, <1>2, <1>3, <1>4, KeysAssumption DEF NoFile, EmptyFile

\* A wallet file has an index per address; no file counts as one without keys.
LEMMA StoredIndex ==
  ASSUME NEW w \in Stored, NEW a \in Addr
  PROVE  w.next_index[a] \in 0..TreeSize
<1>1. CASE w = NoWallet
  BY <1>1, Constants DEF NoWallet
<1>2. CASE w \in WalletFile
  BY <1>2, Constants DEF WalletFile
<1> QED BY <1>1, <1>2 DEF Stored

\* A process that ends leaves state of the right type.
LEMMA ExitType ==
  ASSUME TypeOK, NEW p \in Pid, Exit(p)
  PROVE  /\ pc' \in [Pid -> Place] /\ mem' \in [Pid -> Stored]
         /\ cmd' \in [Pid -> {"none", "init", "receive", "watch", "spend", "proved", "submitted"}]
         /\ judged' \in [Pid -> Pid \cup {NoFile}] /\ job' \in [Pid -> Job]
<1>1. NoJob \in Job
  BY Constants DEF NoJob, Job
<1> QED
  BY <1>1 DEF TypeOK, Exit, Go, Place, Stored

\* The keys of a reservation are keys of the tree, and the wallet after it is one.
LEMMA ReservationType ==
  ASSUME NEW w \in WalletFile, NEW a \in Addr, NEW n \in 1..2,
         w.next_index[a] + n <= TreeSize
  PROVE  /\ reserve_next_auth(w, a, n) \in WalletFile
         /\ ReservedKeys(w, a, n) \subseteq Key
<1>1. w.next_index[a] \in 0..TreeSize /\ w.next_index \in [Addr -> 0..TreeSize]
  BY DEF WalletFile
<1>2. w.next_index[a] + n \in 0..TreeSize
  BY <1>1, Constants
<1>3. reserve_next_auth(w, a, n) \in WalletFile
  BY <1>1, <1>2 DEF reserve_next_auth, WalletFile
<1>4. \A i \in w.next_index[a]..(w.next_index[a] + n - 1) : i \in 0..(TreeSize - 1)
  BY <1>1, <1>2, Constants
<1> QED BY <1>3, <1>4 DEF ReservedKeys, Key

\* A wallet file is a file.
LEMMA FileIsStored == NoWallet \notin WalletFile
BY Constants DEF NoWallet, WalletFile

\* What a spend does: the command ends, or n keys of one address are reserved
\* and become the job's.
LEMMA SpendCase ==
  ASSUME TypeOK, Control, NEW p \in Pid, Spend(p)
  PROVE  /\ pc[p] = "spend" /\ mem[p] \in WalletFile
         /\ UNCHANGED <<files, cmd, judged, exposed, stolen>>
         /\ \/ Go(p, "release") /\ UNCHANGED <<spends, mem, job>>
            \/ /\ Go(p, "save") /\ spends' = spends + 1 /\ spends < Len(Sighash)
               /\ \E a \in Addr, n \in 1..2, w \in WalletFile :
                    LET first == mem[p].next_index[a]
                    IN  /\ first + n <= TreeSize
                        /\ w.next_index = [mem[p].next_index EXCEPT ![a] = @ + n]
                        /\ mem' = [mem EXCEPT ![p] = w]
                        /\ {a} \X (first..(first + n - 1)) \subseteq Key
                        /\ job' = [job EXCEPT ![p] =
                                     [job[p] EXCEPT !.message = spends + 1,
                                                    !.keys = {a} \X (first..(first + n - 1))]]
<1>0. mem[p] \in WalletFile
  BY DEF TypeOK, Control, MemoryAt, Loaded, Stored, Spend
<1>1. PICK a \in Addr, n \in 1..2, change \in 0..1 :
        LET w == [mem[p] EXCEPT !.addr_counter = @ + change]
        IN  /\ a < mem[p].addr_counter
            /\ w.addr_counter <= Cardinality(Addr)
            /\ IF w.next_index[a] + n <= TreeSize
               THEN /\ spends' = spends + 1
                    /\ mem' = [mem EXCEPT ![p] = reserve_next_auth(w, a, n)]
                    /\ job' = [job EXCEPT ![p].message = spends',
                                          ![p].keys = ReservedKeys(w, a, n)]
                    /\ Go(p, "save")
               ELSE Go(p, "release") /\ UNCHANGED <<spends, mem, job>>
  BY DEF Spend
<1> DEFINE w == [mem[p] EXCEPT !.addr_counter = @ + change]
           first == mem[p].next_index[a]
           keys == {a} \X (first..(first + n - 1))
<1>2. w \in WalletFile /\ w.next_index = mem[p].next_index
  BY <1>0, <1>1, Constants DEF WalletFile
<1>3. CASE w.next_index[a] + n <= TreeSize
  <2>1. /\ reserve_next_auth(w, a, n) \in WalletFile
        /\ ReservedKeys(w, a, n) \subseteq Key /\ ReservedKeys(w, a, n) = keys
    BY <1>2, <1>3, ReservationType DEF ReservedKeys
  <2>2. reserve_next_auth(w, a, n).next_index = [mem[p].next_index EXCEPT ![a] = @ + n]
    BY <1>2 DEF reserve_next_auth, WalletFile
  <2>3. job' = [job EXCEPT ![p] = [job[p] EXCEPT !.message = spends', !.keys = keys]]
    BY <1>1, <1>3, <2>1 DEF TypeOK
  <2>4. first + n <= TreeSize
    BY <1>2, <1>3
  <2>5. /\ spends' = spends + 1 /\ Go(p, "save")
        /\ mem' = [mem EXCEPT ![p] = reserve_next_auth(w, a, n)]
    BY <1>1, <1>3
  <2> HIDE DEF w, first, keys
  <2>6. \E v \in WalletFile :
          /\ v.next_index = [mem[p].next_index EXCEPT ![a] = @ + n]
          /\ mem' = [mem EXCEPT ![p] = v]
    BY <2>1, <2>2, <2>5
  <2>7. /\ first + n <= TreeSize /\ keys \subseteq Key
        /\ job' = [job EXCEPT ![p] = [job[p] EXCEPT !.message = spends + 1, !.keys = keys]]
    BY <2>1, <2>3, <2>4, <2>5
  <2> QED BY <1>0, <2>5, <2>6, <2>7 DEF Spend, first, keys
<1>4. CASE ~(w.next_index[a] + n <= TreeSize)
  BY <1>0, <1>1, <1>4 DEF Spend
<1> QED BY <1>3, <1>4

\* The same without the keys' indices.
LEMMA SpendSome ==
  ASSUME TypeOK, Control, NEW p \in Pid, Spend(p),
         ~(Go(p, "release") /\ UNCHANGED <<spends, mem, job>>)
  PROVE  \E keys \in SUBSET Key, w \in WalletFile :
           /\ Go(p, "save") /\ spends' = spends + 1 /\ spends < Len(Sighash) /\ UNCHANGED cmd
           /\ mem' = [mem EXCEPT ![p] = w]
           /\ job' = [job EXCEPT ![p] =
                        [job[p] EXCEPT !.message = spends + 1, !.keys = keys]]
<1>1. Go(p, "save") /\ spends' = spends + 1 /\ spends < Len(Sighash) /\ UNCHANGED cmd
  BY SpendCase
<1>2. PICK a \in Addr, n \in 1..2, w \in WalletFile :
        LET first == mem[p].next_index[a]
        IN  /\ first + n <= TreeSize
            /\ w.next_index = [mem[p].next_index EXCEPT ![a] = @ + n]
            /\ mem' = [mem EXCEPT ![p] = w]
            /\ {a} \X (first..(first + n - 1)) \subseteq Key
            /\ job' = [job EXCEPT ![p] =
                         [job[p] EXCEPT !.message = spends + 1,
                                        !.keys = {a} \X (first..(first + n - 1))]]
  BY SpendCase
<1>3. PICK keys : /\ keys \subseteq Key
                  /\ job' = [job EXCEPT ![p] =
                               [job[p] EXCEPT !.message = spends + 1, !.keys = keys]]
  BY <1>2, Zenon
<1> QED BY <1>1, <1>2, <1>3, Zenon

\* A spend keeps the types.
LEMMA SpendType ==
  ASSUME TypeOK, Control, NEW p \in Pid, Spend(p)
  PROVE  TypeOK'
<1>1. CASE Go(p, "release") /\ UNCHANGED <<spends, mem, job>>
  BY <1>1 DEF TypeOK, Spend, files, Go, Place, Holder
<1>2. CASE ~(Go(p, "release") /\ UNCHANGED <<spends, mem, job>>)
  <2>1. PICK keys \in SUBSET Key, w \in WalletFile :
          /\ Go(p, "save") /\ spends' = spends + 1 /\ spends < Len(Sighash)
          /\ mem' = [mem EXCEPT ![p] = w]
          /\ job' = [job EXCEPT ![p] =
                       [job[p] EXCEPT !.message = spends + 1, !.keys = keys]]
    BY <1>2, SpendSome
  <2>2. mem' \in [Pid -> Stored] /\ spends' \in 0..Len(Sighash)
    BY <2>1, Constants DEF TypeOK, Stored
  <2>3. [job[p] EXCEPT !.message = spends + 1, !.keys = keys] \in Job
    BY <2>1, <2>2 DEF TypeOK, Job
  <2>4. job' \in [Pid -> Job] /\ pc' \in [Pid -> Place]
    BY <2>1, <2>3 DEF TypeOK, Place, Holder, Loaded, Go
  <2> QED BY <2>2, <2>4 DEF TypeOK, Spend, files
<1> QED BY <1>1, <1>2

\* Every step keeps every variable in its type.
LEMMA TypeStep ==
  ASSUME TypeOK, Control, [Next]_vars
  PROVE  TypeOK'
<1> USE DEF Place, Holder, Loaded, Acquiring, Go, files, KeepMemory
<1>1. ASSUME NEW p \in Pid, StartCommand(p) PROVE TypeOK'
  BY <1>1 DEF TypeOK, StartCommand
<1>2. ASSUME NEW p \in Pid, CreateLock(p) PROVE TypeOK'
  BY <1>2 DEF TypeOK, CreateLock
<1>3. ASSUME NEW p \in Pid, WritePid(p) PROVE TypeOK'
  BY <1>3 DEF TypeOK, WritePid
<1>4. ASSUME NEW p \in Pid, LockExists(p) PROVE TypeOK'
  BY <1>4, ExitType DEF TypeOK, LockExists, is_stale_wallet_lock
<1>5. ASSUME NEW p \in Pid, RemoveStale(p) PROVE TypeOK'
  BY <1>5, ExitType DEF TypeOK, RemoveStale
<1>6. ASSUME NEW p \in Pid, LockTaken(p) \/ Release(p) \/ Crash(p) PROVE TypeOK'
  BY <1>6, ExitType DEF TypeOK, LockTaken, Release, Crash
<1>7. ASSUME NEW p \in Pid, load_wallet(p) PROVE TypeOK'
  BY <1>7 DEF TypeOK, load_wallet, Control, CommandAt
<1>8. ASSUME NEW p \in Pid, SaveWallet(p) PROVE TypeOK'
  BY <1>8 DEF TypeOK, SaveWallet, AfterFailedWrite
<1>9. ASSUME NEW p \in Pid, save_wallet_xmss_floor(p) PROVE TypeOK'
  BY <1>9 DEF TypeOK, save_wallet_xmss_floor, AfterFailedWrite, AfterSave
<1>10. ASSUME NEW p \in Pid, cmd_keygen(p) PROVE TypeOK'
  <2>1. [addr_counter |-> 0, next_index |-> [a \in Addr |-> 0]] \in Stored
    BY Constants DEF Stored, WalletFile
  <2> QED BY <1>10, <2>1 DEF TypeOK, cmd_keygen
<1>11. ASSUME NEW p \in Pid, cmd_address(p) PROVE TypeOK'
  <2>1. mem[p] \in WalletFile
    BY <1>11 DEF TypeOK, Control, MemoryAt, Stored, cmd_address
  <2>2. mem[p].addr_counter < Cardinality(Addr)
          => [mem[p] EXCEPT !.addr_counter = @ + 1] \in Stored
    BY <2>1, Constants DEF Stored, WalletFile
  <2> QED BY <1>11, <2>2 DEF TypeOK, cmd_address
<1>12. ASSUME NEW p \in Pid, Spend(p) PROVE TypeOK'
  BY <1>12, SpendType
<1>19. ASSUME NEW p \in Pid, cmd_rollup_sync_watch(p) PROVE TypeOK'
  BY <1>19 DEF TypeOK, cmd_rollup_sync_watch
<1>13. ASSUME NEW p \in Pid, SpendRefused(p) PROVE TypeOK'
  BY <1>13 DEF TypeOK, SpendRefused
<1>14. ASSUME NEW p \in Pid, SubmitJob(p) PROVE TypeOK'
  <2>1. Sighash[job[p].message] \in Message
    BY <1>14, Constants DEF TypeOK, Job, SubmitJob, Control, CommandAt
  <2>2. exposed' \in [Key -> SUBSET Message]
    BY <1>14, <2>1 DEF TypeOK, SubmitJob
  <2> QED BY <1>14, <2>2 DEF TypeOK, SubmitJob, http_post_json
<1>15. ASSUME NEW p \in Pid, PollJob(p) PROVE TypeOK'
  <2>1. NoJob \in Job
    BY Constants DEF NoJob, Job
  <2>2. \A q \in Nat, u \in Nat : [job[p] EXCEPT !.polls = q, !.unknown = u] \in Job
    BY DEF TypeOK, Job
  <2>3. job[p].polls \in Nat /\ job[p].unknown \in Nat
    BY DEF TypeOK, Job
  <2> DEFINE q == IF job[p].polls < PollCap THEN job[p].polls + 1 ELSE job[p].polls
             polled == [job EXCEPT ![p].polls = q]
  <2>4. q \in Nat
    BY <2>3, Constants
  <2>5. \A u : [polled EXCEPT ![p].unknown = u]
                 = [job EXCEPT ![p] = [job[p] EXCEPT !.polls = q, !.unknown = u]]
    BY DEF TypeOK
  <2>6. [polled EXCEPT ![p].unknown = @ + 1] = [polled EXCEPT ![p].unknown = job[p].unknown + 1]
    BY DEF TypeOK, Job
  <2>7. \/ job' = job \/ job' = [job EXCEPT ![p] = NoJob]
        \/ job' = [polled EXCEPT ![p].unknown = 0]
        \/ job' = [polled EXCEPT ![p].unknown = @ + 1]
    BY <1>15 DEF PollJob
  <2>8. job' \in [Pid -> Job]
    <3>1. \A u \in Nat : [polled EXCEPT ![p].unknown = u] \in [Pid -> Job]
      BY <2>2, <2>4, <2>5 DEF TypeOK
    <3>2. [polled EXCEPT ![p].unknown = 0] \in [Pid -> Job]
      BY <3>1
    <3>3. [polled EXCEPT ![p].unknown = @ + 1] \in [Pid -> Job]
      <4>1. job[p].unknown + 1 \in Nat
        BY <2>3
      <4> QED BY <2>6, <3>1, <4>1
    <3>4. [job EXCEPT ![p] = NoJob] \in [Pid -> Job] /\ job \in [Pid -> Job]
      BY <2>1 DEF TypeOK
    <3> HIDE DEF polled
    <3> QED BY <2>7, <3>2, <3>3, <3>4
  <2> QED BY <1>15, <2>8 DEF TypeOK, PollJob
<1>16. ASSUME NEW p \in Pid, SubmitMessage(p) PROVE TypeOK'
  BY <1>16 DEF TypeOK, SubmitMessage
<1>17. CASE BackUp \/ Restore
  BY <1>17 DEF TypeOK, BackUp, Restore
<1>18. CASE UNCHANGED vars
  BY <1>18 DEF TypeOK, vars
<1> QED
  BY <1>1, <1>2, <1>3, <1>4, <1>5, <1>6, <1>7, <1>8, <1>9, <1>10, <1>11, <1>12,
     <1>13, <1>14, <1>15, <1>16, <1>17, <1>18, <1>19 DEF Next, Step

-----------------------------------------------------------------------------
(***************************************************************************)
(* Control.                                                                *)
(***************************************************************************)
\* A process that ends has no job, and the others are not touched.
LEMMA ExitControl ==
  ASSUME TypeOK, Control, NEW p \in Pid, Exit(p)
  PROVE  Control'
BY DEF TypeOK, Control, CommandAt, MemoryAt, NoJobAt, Exit, Go, NoJob,
       Acquiring, Holder, Loaded

\* A reservation makes the job of a spend.
LEMMA SpendControl ==
  ASSUME TypeOK, Control, NEW p \in Pid, Spend(p)
  PROVE  Control'
<1>1. CASE Go(p, "release") /\ UNCHANGED <<spends, mem, job>>
  BY <1>1 DEF TypeOK, Spend, Control, CommandAt, MemoryAt, NoJobAt, Acquiring, Loaded, Go
<1>2. CASE ~(Go(p, "release") /\ UNCHANGED <<spends, mem, job>>)
  <2>1. PICK keys \in SUBSET Key, w \in WalletFile :
          /\ Go(p, "save") /\ UNCHANGED cmd
          /\ mem' = [mem EXCEPT ![p] = w]
          /\ job' = [job EXCEPT ![p] =
                       [job[p] EXCEPT !.message = spends + 1, !.keys = keys]]
    BY <1>2, SpendSome
  <2>2. spends + 1 # 0
    BY Constants DEF TypeOK
  <2>3. cmd[p] = "spend"
    BY DEF Spend, Control, CommandAt
  <2> QED
    BY <2>1, <2>2, <2>3, FileIsStored DEF TypeOK, Job, Control, CommandAt, MemoryAt, NoJobAt,
                                    Acquiring, Loaded, Go
<1> QED BY <1>1, <1>2

\* Between the steps of a command nothing is lost that a later one relies on.
LEMMA ControlStep ==
  ASSUME TypeOK, Control, [Next]_vars
  PROVE  Control'
<1> USE DEF Control, CommandAt, MemoryAt, NoJobAt, Acquiring, Holder, Loaded, Go,
            files, KeepMemory
<1>1. ASSUME NEW p \in Pid, StartCommand(p) PROVE Control'
  BY <1>1 DEF TypeOK, StartCommand
<1>2. ASSUME NEW p \in Pid, CreateLock(p) PROVE Control'
  BY <1>2 DEF TypeOK, CreateLock
<1>3. ASSUME NEW p \in Pid, WritePid(p) PROVE Control'
  BY <1>3 DEF TypeOK, WritePid
<1>4. ASSUME NEW p \in Pid, LockExists(p) PROVE Control'
  BY <1>4, ExitControl DEF TypeOK, LockExists
<1>5. ASSUME NEW p \in Pid, RemoveStale(p) PROVE Control'
  BY <1>5, ExitControl DEF TypeOK, RemoveStale
<1>6. ASSUME NEW p \in Pid, LockTaken(p) \/ Release(p) \/ Crash(p) PROVE Control'
  BY <1>6, ExitControl DEF LockTaken, Release, Crash
<1>7. ASSUME NEW p \in Pid, load_wallet(p) PROVE Control'
  BY <1>7 DEF TypeOK, load_wallet
<1>8. ASSUME NEW p \in Pid, SaveWallet(p) PROVE Control'
  BY <1>8 DEF TypeOK, SaveWallet
<1>9. ASSUME NEW p \in Pid, save_wallet_xmss_floor(p) PROVE Control'
  BY <1>9 DEF TypeOK, save_wallet_xmss_floor, AfterSave
<1>10. ASSUME NEW p \in Pid, cmd_keygen(p) PROVE Control'
  BY <1>10 DEF TypeOK, cmd_keygen, NoWallet
<1>11. ASSUME NEW p \in Pid, cmd_address(p) PROVE Control'
  <2>1. mem[p] \in WalletFile
    BY <1>11 DEF TypeOK, cmd_address, Stored
  <2>2. mem[p].addr_counter + 1 # -1 /\ NoWallet.addr_counter = -1
    BY <2>1, Constants DEF WalletFile, NoWallet
  <2>3. [mem[p] EXCEPT !.addr_counter = @ + 1] # NoWallet
    BY <2>1, <2>2 DEF WalletFile
  <2> QED BY <1>11, <2>3 DEF TypeOK, cmd_address
<1>12. ASSUME NEW p \in Pid, Spend(p) PROVE Control'
  BY <1>12, SpendControl
<1>19. ASSUME NEW p \in Pid, cmd_rollup_sync_watch(p) PROVE Control'
  BY <1>19 DEF TypeOK, cmd_rollup_sync_watch
<1>13. ASSUME NEW p \in Pid, SpendRefused(p) PROVE Control'
  BY <1>13 DEF TypeOK, SpendRefused
<1>14. ASSUME NEW p \in Pid, SubmitJob(p) PROVE Control'
  BY <1>14 DEF TypeOK, SubmitJob, http_post_json
<1>15. ASSUME NEW p \in Pid, PollJob(p) PROVE Control'
  <2> DEFINE polled == [job EXCEPT ![p].polls = IF @ < PollCap THEN @ + 1 ELSE @]
  <2>4. \/ job' = job \/ job' = [job EXCEPT ![p] = NoJob]
        \/ job' = [polled EXCEPT ![p].unknown = 0]
        \/ job' = [polled EXCEPT ![p].unknown = @ + 1]
    BY <1>15 DEF PollJob
  <2>5. \A q \in Pid : polled[q].keys = job[q].keys
    BY DEF TypeOK, Job
  <2>6. \A u : \A q \in Pid : [polled EXCEPT ![p].unknown = u][q].keys = job[q].keys
    BY <2>5 DEF TypeOK, Job
  <2>7. \A q \in Pid : [polled EXCEPT ![p].unknown = @ + 1][q].keys = job[q].keys
    BY <2>5 DEF TypeOK, Job
  <2>8. \A q \in Pid : [job EXCEPT ![p] = NoJob][q].keys \in {job[q].keys, {}}
    BY DEF TypeOK, NoJob
  <2>1. \A q \in Pid : job'[q].keys \in {job[q].keys, {}}
    <3> HIDE DEF polled
    <3>1. CASE job' = job
      BY <3>1
    <3>2. CASE job' = [job EXCEPT ![p] = NoJob]
      BY <3>2, <2>8
    <3>3. CASE job' = [polled EXCEPT ![p].unknown = 0]
      <4>1. \A q \in Pid : [polled EXCEPT ![p].unknown = 0][q].keys = job[q].keys
        BY <2>6
      <4> QED BY <3>3, <4>1, Zenon
    <3>4. CASE job' = [polled EXCEPT ![p].unknown = @ + 1]
      BY <3>4, <2>7, Zenon
    <3> QED BY <2>4, <3>1, <3>2, <3>3, <3>4, Zenon
  <2>2. /\ pc' \in [Pid -> Place] /\ UNCHANGED mem /\ pc[p] = "poll"
        /\ \A q \in Pid \ {p} : pc'[q] = pc[q] /\ cmd'[q] = cmd[q] /\ job'[q] = job[q]
    BY <1>15 DEF TypeOK, PollJob, Place
  <2>3. \/ pc'[p] \in {"release", "poll"} /\ cmd'[p] = cmd[p]
        \/ pc'[p] = "save" /\ cmd'[p] = "proved"
    BY <1>15 DEF TypeOK, PollJob
  <2> QED BY <2>1, <2>2, <2>3
<1>16. ASSUME NEW p \in Pid, SubmitMessage(p) PROVE Control'
  BY <1>16 DEF TypeOK, SubmitMessage
<1>17. CASE BackUp \/ Restore
  BY <1>17 DEF BackUp, Restore
<1>18. CASE UNCHANGED vars
  BY <1>18 DEF vars
<1> QED
  BY <1>1, <1>2, <1>3, <1>4, <1>5, <1>6, <1>7, <1>8, <1>9, <1>10, <1>11, <1>12,
     <1>13, <1>14, <1>15, <1>16, <1>17, <1>18, <1>19 DEF Next, Step

\* The wallet file, once written, is never gone, and no floor is written before it.
LEMMA FloorHasWalletStep ==
  ASSUME TypeOK, Control, FloorHasWallet, [Next]_vars
  PROVE  FloorHasWallet'
<1> USE DEF FloorHasWallet, Go, files, KeepMemory
<1>1. ASSUME NEW p \in Pid, SaveWallet(p) PROVE FloorHasWallet'
  BY <1>1 DEF TypeOK, SaveWallet, AfterFailedWrite, Control, MemoryAt, Loaded
<1>2. ASSUME NEW p \in Pid, save_wallet_xmss_floor(p) PROVE FloorHasWallet'
  BY <1>2 DEF TypeOK, save_wallet_xmss_floor, AfterFailedWrite, AfterSave
<1>3. CASE BackUp \/ Restore
  BY <1>3 DEF BackUp, Restore
<1>4. CASE UNCHANGED vars
  BY <1>4 DEF vars
<1>5. ASSUME NEW p \in Pid,
             \/ StartCommand(p) \/ CreateLock(p) \/ WritePid(p) \/ LockExists(p)
             \/ RemoveStale(p) \/ LockTaken(p) \/ Release(p) \/ Crash(p)
      PROVE  FloorHasWallet'
  BY <1>5 DEF TypeOK, StartCommand, CreateLock, WritePid, LockExists, RemoveStale,
              LockTaken, Release, Crash, Exit
<1>6. ASSUME NEW p \in Pid,
             \/ load_wallet(p) \/ cmd_keygen(p) \/ cmd_address(p) \/ Spend(p)
             \/ cmd_rollup_sync_watch(p)
             \/ SpendRefused(p) \/ SubmitJob(p) \/ SubmitMessage(p)
      PROVE  FloorHasWallet'
  BY <1>6 DEF TypeOK, load_wallet, Control, CommandAt, cmd_keygen, cmd_address, Spend,
              cmd_rollup_sync_watch, SpendRefused, SubmitJob, http_post_json, SubmitMessage
<1>7. ASSUME NEW p \in Pid, PollJob(p) PROVE FloorHasWallet'
  BY <1>7 DEF TypeOK, PollJob
<1> QED
  BY <1>1, <1>2, <1>3, <1>4, <1>5, <1>6, <1>7 DEF Next, Step

-----------------------------------------------------------------------------
(***************************************************************************)
(* The lock.                                                               *)
(***************************************************************************)
\* Where the commands are after a step that leaves the lock file alone: one of
\* them has moved on, from a place to another that needs no more of the lock.
Moves(p) ==
  /\ UNCHANGED <<lock, judged, stolen>>
  /\ \E where \in Holder : Go(p, where)
  /\ pc[p] \in Holder

\* The steps of a command at work leave the lock alone.
LEMMA WorkMoves ==
  ASSUME TypeOK, Control, NEW p \in Pid,
         \/ load_wallet(p) \/ SaveWallet(p) \/ save_wallet_xmss_floor(p)
         \/ cmd_keygen(p) \/ cmd_address(p) \/ cmd_rollup_sync_watch(p)
         \/ Spend(p) \/ SpendRefused(p) \/ SubmitJob(p) \/ PollJob(p) \/ SubmitMessage(p)
  PROVE  Moves(p)
<1> USE DEF Moves, files, KeepMemory, Holder, Loaded
<1>1. CASE load_wallet(p)
  BY <1>1 DEF load_wallet, Control, CommandAt
<1>2. CASE SaveWallet(p) \/ save_wallet_xmss_floor(p)
  BY <1>2 DEF SaveWallet, save_wallet_xmss_floor, AfterSave
<1>3. CASE \/ cmd_keygen(p) \/ cmd_address(p) \/ cmd_rollup_sync_watch(p)
           \/ Spend(p) \/ SpendRefused(p)
  BY <1>3 DEF cmd_keygen, cmd_address, cmd_rollup_sync_watch, Spend, SpendRefused
<1>4. CASE SubmitJob(p) \/ SubmitMessage(p)
  BY <1>4 DEF SubmitJob, http_post_json, SubmitMessage
<1>5. CASE PollJob(p)
  BY <1>5 DEF PollJob
<1> QED BY <1>1, <1>2, <1>3, <1>4, <1>5

\* A pid in the lock file is one that was started.
LEMMA LockStartedStep ==
  ASSUME TypeOK, Control, LockStarted, [Next]_vars
  PROVE  LockStarted'
<1> USE Constants DEF LockStarted, Go
<1>1. ASSUME NEW p \in Pid, Moves(p) PROVE LockStarted'
  BY <1>1 DEF Moves, TypeOK, Holder, Loaded
<1>2. ASSUME NEW p \in Pid, StartCommand(p) PROVE LockStarted'
  BY <1>2 DEF StartCommand, files, TypeOK
<1>3. ASSUME NEW p \in Pid, CreateLock(p) \/ WritePid(p) PROVE LockStarted'
  BY <1>3 DEF CreateLock, WritePid, TypeOK
<1>4. ASSUME NEW p \in Pid, LockExists(p) PROVE LockStarted'
  BY <1>4 DEF LockExists, TypeOK, Exit, files
<1>5. ASSUME NEW p \in Pid, RemoveStale(p) PROVE LockStarted'
  BY <1>5 DEF RemoveStale, TypeOK, Exit
<1>6. ASSUME NEW p \in Pid, LockTaken(p) \/ Release(p) \/ Crash(p) PROVE LockStarted'
  BY <1>6 DEF LockTaken, Release, Crash, TypeOK, Exit, files
<1>7. CASE BackUp \/ Restore \/ UNCHANGED vars
  BY <1>7 DEF BackUp, Restore, vars
<1> QED
  BY <1>1, <1>2, <1>3, <1>4, <1>5, <1>6, <1>7, WorkMoves DEF Next, Step

\* A process that ends holds nothing, and is gone for those who judged it so.
LEMMA ExitLock ==
  ASSUME TypeOK, LockInv, OneWriter, NEW p \in Pid, Exit(p),
         \/ UNCHANGED lock
         \/ \A q \in Pid \ {p} : pc[q] \notin Holder /\ pc[q] # "write_pid"
  PROVE  LockInv' /\ OneWriter'
<1>1. \A q \in Pid : pc'[q] = IF q = p THEN "gone" ELSE pc[q]
  BY DEF TypeOK, Exit, Go
<1>2. \A q \in Pid : judged'[q] = IF q = p THEN NoFile ELSE judged[q]
  BY DEF TypeOK, Exit
<1>3. ASSUME NEW q \in Pid PROVE LockAt(q)'
  BY <1>1, <1>2 DEF LockInv, LockAt, Holder, Loaded
<1>4. OneWriter'
  BY <1>1 DEF OneWriter
<1> QED BY <1>3, <1>4 DEF LockInv

\* While no lock has been stolen, the lock file names the one command that holds
\* it, and a command that judged it stale finds it as it was or steals it.
LEMMA LockStep ==
  ASSUME TypeOK, Control, LockStarted, LockInv, OneWriter, [Next]_vars, ~stolen'
  PROVE  LockInv' /\ OneWriter'
<1> USE Constants DEF LockInv, LockAt, OneWriter, Go, Holder, Loaded
<1>1. ASSUME NEW p \in Pid, Moves(p) PROVE LockInv' /\ OneWriter'
  BY <1>1 DEF Moves, TypeOK
<1>2. ASSUME NEW p \in Pid, StartCommand(p) PROVE LockInv' /\ OneWriter'
  BY <1>2 DEF StartCommand, files, TypeOK
<1>3. ASSUME NEW p \in Pid, CreateLock(p) PROVE LockInv' /\ OneWriter'
  BY <1>3 DEF CreateLock, KeepMemory, TypeOK
<1>4. ASSUME NEW p \in Pid, WritePid(p) PROVE LockInv' /\ OneWriter'
  BY <1>4 DEF WritePid, KeepMemory, TypeOK
<1>5. ASSUME NEW p \in Pid, LockExists(p) PROVE LockInv' /\ OneWriter'
  <2>1. CASE is_stale_wallet_lock
    <3>1. /\ pc' = [pc EXCEPT ![p] = "remove_stale"] /\ pc[p] = "create"
          /\ judged' = [judged EXCEPT ![p] = lock] /\ UNCHANGED lock
      BY <1>5, <2>1 DEF LockExists, files
    <3>2. lock \in Pid /\ pc[lock] = "gone"
      BY <2>1 DEF is_stale_wallet_lock, Alive, LockStarted
    <3> QED BY <3>1, <3>2 DEF TypeOK
  <2>2. CASE ~is_stale_wallet_lock
    BY <1>5, <2>2, ExitLock DEF LockExists, files
  <2> QED BY <2>1, <2>2
<1>6. ASSUME NEW p \in Pid, RemoveStale(p) PROVE LockInv' /\ OneWriter'
  <2>1. CASE lock = NoFile
    BY <1>6, <2>1, ExitLock DEF RemoveStale
  <2>2. CASE lock # NoFile
    <3>1. /\ lock' = NoFile /\ lock = judged[p] /\ pc' = [pc EXCEPT ![p] = "create_again"]
          /\ judged' = [judged EXCEPT ![p] = NoFile] /\ pc[p] = "remove_stale"
      BY <1>6, <2>2 DEF RemoveStale
    <3>2. \A q \in Pid : pc[q] \notin Holder /\ pc[q] # "write_pid"
      BY <3>1
    <3> QED BY <3>1, <3>2 DEF TypeOK
  <2> QED BY <2>1, <2>2
<1>7. ASSUME NEW p \in Pid, LockTaken(p) \/ Crash(p) PROVE LockInv' /\ OneWriter'
  BY <1>7, ExitLock DEF LockTaken, Crash, files
<1>8. ASSUME NEW p \in Pid, Release(p) PROVE LockInv' /\ OneWriter'
  <2>1. \A q \in Pid \ {p} : pc[q] \notin Holder /\ pc[q] # "write_pid"
    BY <1>8 DEF Release
  <2> QED BY <1>8, <2>1, ExitLock DEF Release
<1>9. CASE BackUp \/ Restore \/ UNCHANGED vars
  BY <1>9 DEF BackUp, Restore, vars
<1> QED
  BY <1>1, <1>2, <1>3, <1>4, <1>5, <1>6, <1>7, <1>8, <1>9, WorkMoves DEF Next, Step

\* The holders the lock names are one process at most.
LEMMA HoldersAgree ==
  ASSUME TypeOK, LockInv, OneWriter
  PROVE  \A p, q \in Pid : Holding(p) /\ Holding(q) => p = q
BY Constants DEF LockInv, LockAt, OneWriter, Holding, Holder, Loaded

-----------------------------------------------------------------------------
(***************************************************************************)
(* The floor and the keys.                                                 *)
(***************************************************************************)
\* A command that touches neither files nor keys, and that either leaves its
\* memory and job alone or ends, keeps what is known of them.
LEMMA KeysKept ==
  ASSUME TypeOK, KeysInv, ExposedBelowFloor, NEW p \in Pid,
         UNCHANGED <<floor, exposed, stolen>>, ~stolen,
         \A q \in Pid \ {p} : pc'[q] = pc[q] /\ mem'[q] = mem[q] /\ job'[q] = job[q],
         FloorAt(p)', JobAt(p)'
  PROVE  KeysInv' /\ ExposedBelowFloor'
<1>1. ASSUME NEW q \in Pid \ {p} PROVE FloorAt(q)' /\ JobAt(q)'
  BY <1>1 DEF KeysInv, FloorAt, JobAt
<1>2. ExposedBelowFloor'
  BY DEF ExposedBelowFloor
<1> QED BY <1>1, <1>2 DEF KeysInv

\* The keys a spend reserves are at or above the floor, where no used key is.
LEMMA SpendKeys ==
  ASSUME TypeOK, Control, KeysInv, ExposedBelowFloor, NEW p \in Pid, Spend(p), ~stolen
  PROVE  KeysInv' /\ ExposedBelowFloor'
<1>0. /\ UNCHANGED <<floor, exposed, stolen>>
      /\ \A q \in Pid \ {p} : pc'[q] = pc[q] /\ mem'[q] = mem[q] /\ job'[q] = job[q]
  <2>1. UNCHANGED <<floor, exposed, stolen>>
    BY DEF Spend, files
  <2>2. \A q \in Pid \ {p} : pc'[q] = pc[q]
    BY DEF Spend, Go, TypeOK
  <2>3. \A q \in Pid \ {p} : mem'[q] = mem[q] /\ job'[q] = job[q]
    BY DEF Spend, TypeOK
  <2> QED BY <2>1, <2>2, <2>3
<1>1. CASE Go(p, "release") /\ UNCHANGED <<spends, mem, job>>
  BY <1>0, <1>1, KeysKept DEF TypeOK, FloorAt, JobAt, Go, Loaded
<1>2. CASE ~(Go(p, "release") /\ UNCHANGED <<spends, mem, job>>)
  <2>1. PICK a \in Addr, n \in 1..2, w \in WalletFile :
          LET first == mem[p].next_index[a]
          IN  /\ first + n <= TreeSize
              /\ w.next_index = [mem[p].next_index EXCEPT ![a] = @ + n]
              /\ mem' = [mem EXCEPT ![p] = w]
              /\ {a} \X (first..(first + n - 1)) \subseteq Key
              /\ job' = [job EXCEPT ![p] =
                           [job[p] EXCEPT !.message = spends + 1,
                                          !.keys = {a} \X (first..(first + n - 1))]]
    BY <1>2, SpendCase
  <2> DEFINE first == mem[p].next_index[a]
  <2>2. pc' = [pc EXCEPT ![p] = "save"] /\ pc[p] = "spend" /\ mem[p] \in WalletFile
    BY <1>2, SpendCase DEF Go
  <2>3. /\ mem[p].next_index \in [Addr -> 0..TreeSize]
        /\ \A b \in Addr : floor.next_index[b] \in 0..TreeSize
    BY <2>2, StoredIndex DEF WalletFile, TypeOK
  <2>4. \A b \in Addr : mem'[p].next_index[b] =
                          IF b = a THEN first + n ELSE mem[p].next_index[b]
    BY <2>1, <2>3 DEF TypeOK
  <2>5. \A b \in Addr : mem[p].next_index[b] >= floor.next_index[b]
    BY <2>2 DEF KeysInv, FloorAt, Loaded
  <2>6. FloorAt(p)'
    <3>1. pc'[p] = "save"
      BY <2>2 DEF TypeOK
    <3>2. \A b \in Addr : mem'[p].next_index[b] >= mem[p].next_index[b]
      BY <2>3, <2>4, Constants
    <3>3. \A b \in Addr : mem'[p].next_index[b] >= floor.next_index[b]
      <4> SUFFICES ASSUME NEW b \in Addr PROVE mem'[p].next_index[b] >= floor.next_index[b]
        OBVIOUS
      <4>1. mem[p].next_index[b] \in Int /\ floor.next_index[b] \in Int
        <5>1. mem[p].next_index[b] \in 0..TreeSize /\ floor.next_index[b] \in 0..TreeSize
          BY <2>3
        <5> QED BY <5>1
      <4>2. mem'[p].next_index[b] \in Int
        <5>1. mem[p].next_index[a] \in Int /\ n \in Int
          BY <2>3, Constants
        <5> QED BY <2>4, <4>1, <5>1
      <4>3. mem[p].next_index[b] >= floor.next_index[b]
            /\ mem'[p].next_index[b] >= mem[p].next_index[b]
        BY <2>5, <3>2
      <4> QED BY <4>1, <4>2, <4>3
    <3> QED BY <1>0, <3>1, <3>3 DEF FloorAt
  <2>7. job'[p].keys = {a} \X (first..(first + n - 1))
    BY <2>1 DEF TypeOK, Job
  <2>8. JobAt(p)'
    <3> SUFFICES ASSUME NEW b \in Addr, NEW i \in 0..(TreeSize - 1),
                        <<b, i>> \in {a} \X (first..(first + n - 1))
                 PROVE  i < mem'[p].next_index[b] /\ exposed[<<b, i>>] = {}
      BY <1>0, <2>7 DEF JobAt
    <3>1. b = a /\ i \in first..(first + n - 1)
      OBVIOUS
    <3>2. i < first + n /\ i >= first
      BY <3>1, <2>3
    <3>3. ~(i < floor.next_index[a])
      BY <3>2, <2>3, <2>5
    <3> QED BY <3>1, <3>2, <3>3, <2>4 DEF ExposedBelowFloor
  <2> QED BY <1>0, <2>6, <2>8, KeysKept
<1> QED BY <1>1, <1>2

\* While no lock has been stolen, what leaves a process is below the floor file
\* first, and a key that is reserved was never used.
LEMMA KeysStep ==
  ASSUME TypeOK, Control, FloorHasWallet, LockInv, OneWriter, KeysInv,
         ExposedBelowFloor, [Next]_vars, ~stolen, ~stolen'
  PROVE  KeysInv' /\ ExposedBelowFloor'
<1> USE DEF FloorAt, JobAt, Loaded, Go, files, KeepMemory
<1>1. ASSUME NEW p \in Pid, StartCommand(p) PROVE KeysInv' /\ ExposedBelowFloor'
  BY <1>1, KeysKept DEF TypeOK, StartCommand
<1>2. ASSUME NEW p \in Pid, CreateLock(p) \/ WritePid(p)
      PROVE  KeysInv' /\ ExposedBelowFloor'
  BY <1>2, KeysKept DEF TypeOK, CreateLock, WritePid
<1>3. ASSUME NEW p \in Pid, LockExists(p) \/ RemoveStale(p)
      PROVE  KeysInv' /\ ExposedBelowFloor'
  <2>1. CASE LockExists(p)
    BY <2>1, KeysKept DEF TypeOK, LockExists, Exit
  <2>2. CASE RemoveStale(p)
    <3>1. UNCHANGED <<floor, exposed, stolen>>
      BY <2>2 DEF TypeOK, RemoveStale
    <3>2. \A q \in Pid \ {p} : pc'[q] = pc[q] /\ mem'[q] = mem[q] /\ job'[q] = job[q]
      BY <2>2 DEF TypeOK, RemoveStale, Exit
    <3>3. pc'[p] \in {"gone", "create_again"}
      BY <2>2 DEF TypeOK, RemoveStale, Exit
    <3>4. FloorAt(p)' /\ JobAt(p)'
      BY <3>3
    <3> QED BY <3>1, <3>2, <3>4, KeysKept
  <2> QED BY <1>3, <2>1, <2>2
<1>4. ASSUME NEW p \in Pid, LockTaken(p) \/ Release(p) \/ Crash(p)
      PROVE  KeysInv' /\ ExposedBelowFloor'
  BY <1>4, KeysKept DEF TypeOK, LockTaken, Release, Crash, Exit
<1>5. ASSUME NEW p \in Pid, load_wallet(p) PROVE KeysInv' /\ ExposedBelowFloor'
  <2>1. pc'[p] \in {"receive", "watch", "spend"} =>
          \A a \in Addr : mem'[p].next_index[a] >= floor.next_index[a]
    BY <1>5, StoredIndex DEF TypeOK, load_wallet, enforce_wallet_xmss_floor,
                current_wallet_wots_floor, NoWallet
  <2>2. pc'[p] \in {"receive", "watch", "spend", "release"}
    BY <1>5 DEF TypeOK, load_wallet, Control, CommandAt
  <2> QED BY <1>5, <2>1, <2>2, KeysKept DEF TypeOK, load_wallet
<1>6. ASSUME NEW p \in Pid, SaveWallet(p) PROVE KeysInv' /\ ExposedBelowFloor'
  <2>1. FloorAt(p)' /\ JobAt(p)'
    BY <1>6 DEF TypeOK, SaveWallet, KeysInv
  <2> QED BY <1>6, <2>1, KeysKept DEF TypeOK, SaveWallet
<1>7. ASSUME NEW p \in Pid, save_wallet_xmss_floor(p)
      PROVE  KeysInv' /\ ExposedBelowFloor'
  <2>1. \A a \in Addr : mem[p].next_index[a] >= floor.next_index[a]
    BY <1>7 DEF KeysInv, save_wallet_xmss_floor
  <2>2. \A q \in Pid \ {p} : pc[q] \notin Loaded
    BY <1>7, HoldersAgree DEF Holding, save_wallet_xmss_floor
  <2>3. floor' \in {floor, mem[p]} /\ mem[p] # NoWallet
    BY <1>7 DEF save_wallet_xmss_floor, AfterFailedWrite, Control, MemoryAt
  <2>4. ExposedBelowFloor'
    <3>1. UNCHANGED <<exposed, stolen>>
      BY <1>7 DEF save_wallet_xmss_floor
    <3>2. SUFFICES ASSUME NEW a \in Addr, NEW i \in 0..(TreeSize - 1), exposed[<<a, i>>] # {}
                   PROVE  floor' # NoWallet /\ i < floor'.next_index[a]
      BY <3>1 DEF ExposedBelowFloor
    <3>3. floor # NoWallet /\ i < floor.next_index[a]
      BY <3>2 DEF ExposedBelowFloor
    <3>4. floor.next_index[a] \in Int /\ mem[p].next_index[a] \in Int /\ i \in Int
      BY <2>3, <3>3, StoredIndex, Constants DEF TypeOK
    <3>5. i < mem[p].next_index[a]
      BY <2>1, <3>3, <3>4
    <3> QED BY <2>3, <3>3, <3>5
  <2>5. ASSUME NEW q \in Pid \ {p} PROVE FloorAt(q)' /\ JobAt(q)'
    BY <1>7, <2>2 DEF save_wallet_xmss_floor, TypeOK
  <2>6. FloorAt(p)' /\ JobAt(p)'
    BY <1>7, <2>1, <2>3, StoredIndex, Constants
       DEF KeysInv, TypeOK, save_wallet_xmss_floor, AfterSave
  <2> QED BY <2>4, <2>5, <2>6 DEF KeysInv
<1>8. ASSUME NEW p \in Pid, cmd_keygen(p) PROVE KeysInv' /\ ExposedBelowFloor'
  <2>1. pc'[p] = "save" => \A a \in Addr : mem'[p].next_index[a] >= floor.next_index[a]
    BY <1>8, Constants DEF TypeOK, cmd_keygen, FloorHasWallet, NoWallet
  <2>2. job[p].keys = {}
    BY <1>8 DEF Control, NoJobAt, cmd_keygen
  <2> QED BY <1>8, <2>1, <2>2, KeysKept DEF TypeOK, cmd_keygen
<1>9. ASSUME NEW p \in Pid, cmd_address(p) PROVE KeysInv' /\ ExposedBelowFloor'
  <2>1. mem'[p].next_index = mem[p].next_index
    BY <1>9 DEF TypeOK, cmd_address, Stored, WalletFile, NoWallet
  <2>2. job[p].keys = {}
    BY <1>9 DEF Control, NoJobAt, cmd_address
  <2> QED BY <1>9, <2>1, <2>2, KeysKept DEF TypeOK, cmd_address, KeysInv
<1>16. ASSUME NEW p \in Pid, cmd_rollup_sync_watch(p)
       PROVE  KeysInv' /\ ExposedBelowFloor'
  <2>1. job[p].keys = {}
    BY <1>16 DEF Control, NoJobAt, cmd_rollup_sync_watch
  <2> QED BY <1>16, <2>1, KeysKept DEF TypeOK, cmd_rollup_sync_watch, KeysInv
<1>10. ASSUME NEW p \in Pid, Spend(p) PROVE KeysInv' /\ ExposedBelowFloor'
  BY <1>10, SpendKeys
<1>11. ASSUME NEW p \in Pid, SpendRefused(p) PROVE KeysInv' /\ ExposedBelowFloor'
  BY <1>11, KeysKept DEF TypeOK, SpendRefused
<1>12. ASSUME NEW p \in Pid, SubmitJob(p) PROVE KeysInv' /\ ExposedBelowFloor'
  <2>1. floor = mem[p] /\ mem[p] # NoWallet
    BY <1>12 DEF SubmitJob, KeysInv, Control, MemoryAt
  <2>2. \A q \in Pid \ {p} : pc[q] \notin Loaded
    BY <1>12, HoldersAgree DEF Holding, SubmitJob
  <2>3. ExposedBelowFloor'
    BY <1>12, <2>1 DEF SubmitJob, KeysInv, ExposedBelowFloor, Key
  <2>4. ASSUME NEW q \in Pid \ {p} PROVE FloorAt(q)' /\ JobAt(q)'
    BY <1>12, <2>2 DEF SubmitJob, http_post_json, TypeOK
  <2>5. FloorAt(p)' /\ JobAt(p)'
    BY <1>12 DEF KeysInv, TypeOK, SubmitJob, http_post_json
  <2> QED BY <2>3, <2>4, <2>5 DEF KeysInv
<1>13. ASSUME NEW p \in Pid, PollJob(p) PROVE KeysInv' /\ ExposedBelowFloor'
  <2>1. FloorAt(p)'
    BY <1>13 DEF TypeOK, PollJob, KeysInv
  <2>2. JobAt(p)'
    BY <1>13 DEF TypeOK, PollJob, NoJob
  <2> QED BY <1>13, <2>1, <2>2, KeysKept DEF TypeOK, PollJob
<1>14. ASSUME NEW p \in Pid, SubmitMessage(p) PROVE KeysInv' /\ ExposedBelowFloor'
  BY <1>14, KeysKept DEF TypeOK, SubmitMessage, KeysInv
<1>15. CASE BackUp \/ Restore \/ UNCHANGED vars
  BY <1>15 DEF BackUp, Restore, vars, KeysInv, ExposedBelowFloor
<1> QED
  BY <1>1, <1>2, <1>3, <1>4, <1>5, <1>6, <1>7, <1>8, <1>9, <1>10, <1>11, <1>12,
     <1>13, <1>14, <1>15, <1>16 DEF Next, Step

-----------------------------------------------------------------------------
(***************************************************************************)
(* The theorems.                                                           *)
(***************************************************************************)
LEMMA InitInv == Init => IndInv
<1> SUFFICES ASSUME Init PROVE IndInv
  OBVIOUS
<1> USE Constants DEF Init
<1>1. NoWallet \in Stored /\ [NoWallet EXCEPT !.addr_counter = 1] \in Stored
  <2>1. Addr # {} /\ 1 \in 0..Cardinality(Addr)
    BY KeysAssumption
  <2>2. [NoWallet EXCEPT !.addr_counter = 1]
          = [addr_counter |-> 1, next_index |-> [a \in Addr |-> 0]]
    BY DEF NoWallet
  <2>3. [addr_counter |-> 1, next_index |-> [a \in Addr |-> 0]] \in WalletFile
    BY <2>1 DEF WalletFile
  <2> QED BY <2>2, <2>3 DEF Stored
<1>2. TypeOK
  <2>1. NoJob \in Job
    BY DEF NoJob, Job
  <2>2. exposed \in [Key -> SUBSET Message]
    OBVIOUS
  <2>3. wallet \in Stored /\ floor \in Stored /\ backup \in Stored
    BY <1>1
  <2>4. /\ pc \in [Pid -> Place] /\ mem \in [Pid -> Stored] /\ job \in [Pid -> Job]
        /\ judged \in [Pid -> Pid \cup {NoFile}]
        /\ cmd \in [Pid -> {"none", "init", "receive", "watch", "spend", "proved", "submitted"}]
    BY <1>1, <2>1 DEF Place
  <2>5. lock \in Pid \cup {NoFile, EmptyFile} /\ spends \in 0..Len(Sighash)
    OBVIOUS
  <2>6. stolen \in BOOLEAN
    OBVIOUS
  <2> HIDE DEF Init
  <2> QED BY <2>2, <2>3, <2>4, <2>5, <2>6, Zenon DEF TypeOK
<1>3. Control
  BY DEF Control, CommandAt, MemoryAt, NoJobAt, Acquiring, Loaded, NoJob
<1>4. FloorHasWallet /\ LockStarted
  BY DEF FloorHasWallet, LockStarted
<1>5. LockInv /\ OneWriter
  BY DEF LockInv, LockAt, OneWriter, Holder, Loaded
<1>6. KeysInv /\ ExposedBelowFloor
  BY DEF KeysInv, FloorAt, JobAt, Loaded, ExposedBelowFloor, Key
<1> QED BY <1>2, <1>3, <1>4, <1>5, <1>6 DEF IndInv

\* A stolen lock stays stolen: nothing below needs to hold again after it.
LEMMA StolenStays == TypeOK /\ [Next]_vars /\ stolen => stolen'
<1> SUFFICES ASSUME TypeOK, [Next]_vars, stolen PROVE stolen'
  OBVIOUS
<1>1. ASSUME NEW p \in Pid, RemoveStale(p) PROVE stolen'
  BY <1>1 DEF RemoveStale
<1>2. ASSUME NEW p \in Pid, StartCommand(p) \/ (Step(p) /\ ~RemoveStale(p)) \/ Crash(p)
      PROVE  stolen'
  BY <1>2 DEF StartCommand, Step, CreateLock, WritePid, LockExists, LockTaken, Release,
              Crash, load_wallet, SaveWallet, save_wallet_xmss_floor, cmd_keygen,
              cmd_address, cmd_rollup_sync_watch, Spend, SpendRefused, SubmitJob,
              PollJob, SubmitMessage
<1>3. CASE BackUp \/ Restore \/ UNCHANGED vars
  BY <1>3 DEF BackUp, Restore, vars
<1> QED BY <1>1, <1>2, <1>3 DEF Next

\* Every step of every command, and every crash, keeps it.
LEMMA StepInv == IndInv /\ [Next]_vars => IndInv'
<1> SUFFICES ASSUME IndInv, [Next]_vars PROVE IndInv'
  OBVIOUS
<1>1. TypeOK' /\ Control' /\ FloorHasWallet' /\ LockStarted'
  BY TypeStep, ControlStep, FloorHasWalletStep, LockStartedStep DEF IndInv
<1>2. ASSUME ~stolen'
      PROVE  LockInv' /\ OneWriter' /\ KeysInv' /\ ExposedBelowFloor'
  <2>1. ~stolen
    BY <1>2, StolenStays DEF IndInv
  <2> QED BY <1>2, <2>1, LockStep, KeysStep DEF IndInv
<1> QED BY <1>1, <1>2 DEF IndInv

\* Commands, files and keys stay what the wallet's code can read back, through
\* every crash, failed write and restored copy.
THEOREM TypeCorrect == Spec => []TypeOK
<1>1. IndInv => TypeOK
  BY DEF IndInv
<1> QED BY <1>1, InitInv, StepInv, PTL DEF Spec

\* A one-time key whose signature left a process is below the floor file from
\* then on: save_wallet comes before the prover, and no accepted wallet file is
\* behind the floor.
THEOREM UsedKeysAreBelowFloor == Spec => []ExposedBelowFloor
<1>1. IndInv => ExposedBelowFloor
  BY DEF IndInv, ExposedBelowFloor
<1> QED BY <1>1, InitInv, StepInv, PTL DEF Spec

\* A signature leaves a process only under a key that never signed before.
LEMMA FirstSignature ==
  ASSUME IndInv, ~stolen, NEW p \in Pid, SubmitJob(p), NEW k \in Key,
         exposed'[k] # exposed[k]
  PROVE  \E m \in Message : exposed'[k] = {m}
<1> DEFINE m == Sighash[job[p].message]
<1>1. pc[p] = "prove" /\ TypeOK /\ Control /\ KeysInv
  BY DEF SubmitJob, IndInv
<1>2. m \in Message
  BY <1>1, Constants DEF TypeOK, Job, Control, CommandAt
<1>3. exposed'[k] = IF k \in job[p].keys THEN exposed[k] \cup {m} ELSE exposed[k]
  BY DEF SubmitJob
<1>4. k \in job[p].keys
  BY <1>3
<1>5. exposed[k] = {}
  <2>1. PICK a \in Addr, i \in 0..(TreeSize - 1) : k = <<a, i>>
    BY DEF Key
  <2> QED BY <1>1, <1>4, <2>1 DEF KeysInv, JobAt
<1> HIDE DEF m
<1>6. exposed'[k] = {m}
  BY <1>3, <1>4, <1>5
<1> QED BY <1>2, <1>6

\* Only handing a job to the prover shows signatures to anyone.
LEMMA OnlySubmitExposes ==
  ASSUME [Next]_vars
  PROVE  UNCHANGED exposed \/ \E p \in Pid : SubmitJob(p)
<1>1. ASSUME NEW p \in Pid, StartCommand(p) \/ (Step(p) /\ ~SubmitJob(p)) \/ Crash(p)
      PROVE  UNCHANGED exposed
  BY <1>1 DEF StartCommand, Step, CreateLock, WritePid, LockExists, RemoveStale,
              LockTaken, Release, Crash, load_wallet, SaveWallet,
              save_wallet_xmss_floor, cmd_keygen, cmd_address, cmd_rollup_sync_watch, Spend,
              SpendRefused, PollJob, SubmitMessage
<1>2. CASE BackUp \/ Restore \/ UNCHANGED vars
  BY <1>2 DEF BackUp, Restore, vars
<1> QED BY <1>1, <1>2 DEF Next

\* No one-time key signs twice, and what leaves the wallet's processes under a key
\* verifies for the one message it was made for: for any number of commands,
\* addresses and keys, any message and checksum length, through crashes, failed
\* writes, restored backups and recovered locks.
THEOREM KeysAreOneTime == Spec => OnlySignedVerify
<1> DEFINE A == \A k \in Key : exposed'[k] # exposed[k] /\ ~stolen =>
                  {m \in Message : Covers(k, exposed'[k], m)} = exposed'[k]
<1>1. IndInv /\ [Next]_vars => A
  <2> SUFFICES ASSUME IndInv, [Next]_vars, NEW k \in Key, exposed'[k] # exposed[k], ~stolen
               PROVE  {m \in Message : Covers(k, exposed'[k], m)} = exposed'[k]
    OBVIOUS
  <2>1. PICK p \in Pid : SubmitJob(p)
    BY OnlySubmitExposes
  <2>2. PICK s \in Message : exposed'[k] = {s}
    BY <2>1, FirstSignature
  <2> QED BY <2>2, OneTimeSignature
<1>2. IndInv /\ [Next]_vars => [A]_vars
  BY <1>1
<1> QED BY <1>2, InitInv, StepInv, PTL DEF Spec, OnlySignedVerify
=============================================================================
