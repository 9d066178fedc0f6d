--------------------------------- MODULE Wots ---------------------------------
(***************************************************************************)
(* The one-time signatures of the wallet's keys (core/src/lib.rs) and their *)
(* verification in the circuits (cairo/src/xmss_common.cairo).             *)
(*                                                                         *)
(* A key is a row of hash chains of W values each.  A message hash is cut  *)
(* into digits, a checksum of the digits is appended, and the signature    *)
(* reveals, in chain j, the value at height digit j.  The verifier climbs  *)
(* every chain to its end and hashes the ends, pair by pair, to the leaf.  *)
(*                                                                         *)
(* The hash is collision-free: the value at height h of chain j of key k   *)
(* is <<k, j, h>>; anything else is the tuple of what was hashed.          *)
(***************************************************************************)
EXTENDS Integers, Sequences

CONSTANTS
  W,           \* values per chain (WOTS_W, 4 in the code)
  MsgDigits,   \* digits of a message hash (128 in the code)
  SumDigits    \* digits of the checksum (5 in the code)

Power[n \in 0..SumDigits] == IF n = 0 THEN 1 ELSE W * Power[n - 1]

ASSUME WotsAssumption ==
  /\ W \in Nat \ {0, 1} /\ MsgDigits \in Nat \ {0} /\ SumDigits \in Nat
  /\ MsgDigits * (W - 1) < Power[SumDigits]     \* 128 * 3 < 4^5

WOTS_CHAINS == MsgDigits + SumDigits
Chains == 1..WOTS_CHAINS
Digit == 0..(W - 1)

\* A message hash, as its base-W digits.
Message == [1..MsgDigits -> Digit]

-----------------------------------------------------------------------------
checksum(m) ==
  LET sum[i \in 0..MsgDigits] ==
        IF i = 0 THEN 0 ELSE sum[i - 1] + (W - 1 - m[i])
  IN  sum[MsgDigits]

\* The digits of a message and of its checksum, which is taken apart from the
\* least significant digit on.
wots_digits(m) ==
  LET cs[i \in 0..SumDigits] == IF i = 0 THEN checksum(m) ELSE cs[i - 1] \div W
  IN  m \o [i \in 1..SumDigits |-> cs[i - 1] % W]

-----------------------------------------------------------------------------
(***************************************************************************)
(* Chains.  Every step hashes its own address, so a value climbs only from *)
(* the height it is at.                                                    *)
(***************************************************************************)
xmss_chain_step(x, key_idx, chain_idx, at) ==
  IF x = <<key_idx, chain_idx, at>>
  THEN <<key_idx, chain_idx, at + 1>>
  ELSE <<key_idx, chain_idx, at, x>>

xmss_hash_chain(x, key_idx, chain_idx, from, steps) ==
  LET c[n \in 0..steps] ==
        IF n = 0 THEN x
        ELSE xmss_chain_step(c[n - 1], key_idx, chain_idx, from + n - 1)
  IN  c[steps]

wots_sk_chain(key_idx, j) == <<key_idx, j, 0>>

wots_pk(key_idx) ==
  [j \in Chains |-> xmss_hash_chain(wots_sk_chain(key_idx, j), key_idx, j, 0, W - 1)]

wots_sign(key_idx, m) ==
  [j \in Chains |-> xmss_hash_chain(wots_sk_chain(key_idx, j), key_idx, j, 0,
                                    wots_digits(m)[j])]

recover_wots_pk(m, key_idx, sig) ==
  LET digits == wots_digits(m)
  IN  [j \in Chains |->
         LET d == digits[j]
         IN  xmss_hash_chain(sig[j], key_idx, j, d, W - 1 - d)]

-----------------------------------------------------------------------------
(***************************************************************************)
(* The leaf of a key: its chain ends, combined in pairs level by level; a  *)
(* last node without a partner moves up as it is.                          *)
(***************************************************************************)
ltree_level(key_idx, nodes, level) ==
  LET n == Len(nodes)
  IN  [i \in 1..(n \div 2) |->
         <<key_idx, level, i - 1, nodes[2 * i - 1], nodes[2 * i]>>]
      \o SubSeq(nodes, n - (n % 2) + 1, n)

wots_pk_to_leaf(key_idx, pk) ==
  LET up[l \in 0..WOTS_CHAINS] ==
        IF l = 0 THEN pk
        ELSE LET nodes == up[l - 1]
             IN  IF Len(nodes) = 1 THEN nodes
                 ELSE ltree_level(key_idx, nodes, l - 1)
  IN  up[WOTS_CHAINS][1]

auth_leaf_hash(key_idx) == wots_pk_to_leaf(key_idx, wots_pk(key_idx))

\* The circuit's check of a signature (xmss_recover_pk, xmss_ltree).
Verifies(m, key_idx, sig) ==
  /\ DOMAIN sig = Chains
  /\ wots_pk_to_leaf(key_idx, recover_wots_pk(m, key_idx, sig)) = auth_leaf_hash(key_idx)

-----------------------------------------------------------------------------
(***************************************************************************)
(* What a set of signatures by one key tells: in each chain the lowest     *)
(* value revealed, and everything above it.                                *)
(***************************************************************************)
\* The signature of m made from the values revealed by the signatures of signed,
\* chain by chain: the lowest one revealed, moved up to m's digit if it is
\* below it.
Composed(key_idx, signed, m) ==
  LET revealed == {wots_digits(s) : s \in signed}
      digits == wots_digits(m)
      lowest(j) == CHOOSE h \in Digit : /\ \E r \in revealed : r[j] = h
                                       /\ \A r \in revealed : r[j] >= h
      reached(j, low) ==
        IF low <= digits[j]
        THEN xmss_hash_chain(<<key_idx, j, low>>, key_idx, j, low, digits[j] - low)
        ELSE <<key_idx, j, low>>
  IN  [j \in Chains |-> reached(j, lowest(j))]

\* Do the signatures of signed amount to a signature of m?
Covers(key_idx, signed, m) ==
  signed # {} /\ Verifies(m, key_idx, Composed(key_idx, signed, m))
=============================================================================
