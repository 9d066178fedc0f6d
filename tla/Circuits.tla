------------------------------ MODULE Circuits ------------------------------
(***************************************************************************)
(* The vocabulary the ledger and the kernel share: commitments, requests,  *)
(* and what the three STARK circuits (cairo/src/{shield,transfer,          *)
(* unshield}.cairo) can prove about a commitment tree.                     *)
(*                                                                         *)
(* Cryptography is taken at its specification.  A commitment binds one     *)
(* value (Value).  A root binds the leaves under it, and the tree only     *)
(* grows, so a root is named by the number of leaves it covers; Forged is  *)
(* the root of a tree the ledger never had.  A nullifier hashes the        *)
(* commitment, its owner's key and its leaf position, so it is named by    *)
(* that position (1-based).                                                *)
(***************************************************************************)
EXTENDS Integers, Sequences, FiniteSets

CONSTANTS
  PoolKey,      \* deposit pool keys (pubkey_hash)
  Commitment,   \* note commitments
  Value,        \* the value each commitment binds
  ZERO,         \* the zero felt: "no change note"
  Recipient,    \* valid L1 withdrawal recipients
  Domain,       \* auth domains: this deployment's and others'
  Here,         \* the auth domain of this deployment
  MaxInputs,    \* notes one spend may consume (7 in the code)
  MinTxFee,     \* MIN_TX_FEE
  TxFee,        \* the fees requests offer
  U64Max        \* the largest u64

ASSUME CircuitsAssumption ==
  /\ U64Max \in Nat
  /\ Value \in [Commitment -> 0..U64Max]
  /\ ZERO \notin Commitment
  /\ Here \in Domain
  /\ MaxInputs \in Nat \ {0}
  /\ MinTxFee \in 1..U64Max
  /\ TxFee \subseteq 0..U64Max
  /\ IsFiniteSet(PoolKey)
  /\ IsFiniteSet(Commitment)

Amount == 0..U64Max
Forged == -1

\* The encrypted notes a request carries: the ones the proof's memo hashes
\* cover, well-formed other ones, or ones EncryptedNote::validate refuses.
Sealed == "sealed"
Altered == "altered"
Malformed == "malformed"

\* A published note: its commitment and its ciphertext.
Note == [cm : Commitment, enc : {Sealed, Altered}]

-----------------------------------------------------------------------------
(***************************************************************************)
(* Sums of u64 values, taken without overflow (the circuits sum in u128):  *)
(* a value is counted as that many coins, so that cardinality theorems     *)
(* apply to sums.                                                          *)
(***************************************************************************)
Coins(f) == {c \in (DOMAIN f) \X (1..U64Max) : c[2] <= f[c[1]]}
Total(f) == Cardinality(Coins(f))

\* The values of the notes at the positions P of the leaves ns.
ValuesAt(ns, P) == [p \in P |-> Value[ns[p].cm]]

\* sum_in: one value per listed nullifier, repetitions included (the
\* circuits leave duplicate nullifiers to the ledger).
SumIn(ns, nfs) == Total([i \in DOMAIN nfs |-> Value[ns[nfs[i]].cm]])

ValueOrZero(cm) == IF cm = ZERO THEN 0 ELSE Value[cm]

-----------------------------------------------------------------------------
(***************************************************************************)
(* Proof statements: the public outputs of a circuit run.                  *)
(***************************************************************************)
ShieldProof(k, cm, producer_cm, fee) ==
  [pubkey_hash |-> k, v |-> Value[cm], fee |-> fee,
   producer_fee |-> Value[producer_cm],
   client_cm |-> cm, producer_cm |-> producer_cm, enc |-> Sealed]

\* shield.cairo: both commitments open to the public values and the
\* producer's is positive.
ShieldProvable(p) ==
  /\ p.v = Value[p.client_cm]
  /\ p.producer_fee = Value[p.producer_cm]
  /\ p.producer_fee > 0

(***************************************************************************)
(* A spend opens a list nfs of leaves under root, together worth sum_in.   *)
(* merkle::verify ties each opened leaf to the root, so an opening is one  *)
(* of leaves 1..root, unless the root is that of a forged tree, which      *)
(* opens to any sum.                                                       *)
(***************************************************************************)
\* The nullifier lists a spend over n leaves can name.
NullifierLists(n) == UNION {[1..k -> 1..n] : k \in 1..MaxInputs}

Opening(ns, root, nfs) ==
  [root |-> root, nullifiers |-> nfs, sum_in |-> SumIn(ns, nfs)]

Openings(ns) ==
  (UNION {{Opening(ns, root, nfs) : nfs \in NullifierLists(root)} :
            root \in 1..Len(ns)})
    \cup {Opening(ns, Forged, <<i>>) : i \in 1..Len(ns)}

\* The amount that balances a spend whose other outputs are worth out.
Remainder(o, out) == IF o.root = Forged THEN MinTxFee ELSE o.sum_in - out

\* transfer.cairo: sum_in = v_1 + v_2 + v_3 + fee, and the producer's note
\* is worth something.
TransferProof(o, cm) ==
  [root |-> o.root, nullifiers |-> o.nullifiers,
   fee |-> Remainder(o, Value[cm[1]] + Value[cm[2]] + Value[cm[3]]),
   cm_1 |-> cm[1], cm_2 |-> cm[2], cm_3 |-> cm[3], enc |-> Sealed]

TransferProvable(p, sum_in) ==
  /\ Value[p.cm_3] > 0
  /\ p.fee \in Amount
  /\ p.root # Forged =>
       sum_in = Value[p.cm_1] + Value[p.cm_2] + Value[p.cm_3] + p.fee

\* unshield.cairo: sum_in = v_pub + v_change + v_fee + fee, the producer's
\* note is worth something, and no change note means no change
\* (change_commitment_or_zero).
UnshieldProof(o, fee, recipient, cm_change, cm_fee) ==
  [root |-> o.root, nullifiers |-> o.nullifiers,
   v_pub |-> Remainder(o, fee + ValueOrZero(cm_change) + Value[cm_fee]),
   fee |-> fee, recipient |-> recipient, cm_change |-> cm_change,
   has_change_enc |-> cm_change # ZERO, cm_fee |-> cm_fee, enc |-> Sealed]

UnshieldProvable(p, sum_in) ==
  /\ Value[p.cm_fee] > 0
  /\ p.v_pub \in Amount
  /\ p.root # Forged =>
       sum_in = p.v_pub + ValueOrZero(p.cm_change) + Value[p.cm_fee] + p.fee

-----------------------------------------------------------------------------
(***************************************************************************)
(* What reaches the ledger.  A proof is relayed by parties the ledger does *)
(* not trust (the operator, the DAL).  It departs from an honest           *)
(* submission in at most one way: it was made for another domain, it was   *)
(* made against a forged tree (and the request may name a true root        *)
(* instead), or one field of the request around it was altered.            *)
(***************************************************************************)
Relayed(p, other) == {p} \cup {[p EXCEPT ![f] = other[f]] : f \in DOMAIN p}

RelayedShield(p, other, domain) ==
  IF domain = Here THEN Relayed(p, other) ELSE {p}

RelayedSpend(p, other, domain) ==
  CASE domain # Here -> {p}
    [] p.root = Forged -> {p, [p EXCEPT !.root = other.root]}
    [] OTHER -> Relayed(p, other)

Bump(x) == IF x < U64Max THEN x + 1 ELSE 0
OtherCm(cm) == CHOOSE c \in Commitment \cup {ZERO} : c # cm
OtherOf(x, S) == IF S \ {x} = {} THEN x ELSE CHOOSE y \in S \ {x} : TRUE

OtherShield(p) ==
  [pubkey_hash |-> OtherOf(p.pubkey_hash, PoolKey), v |-> Bump(p.v),
   fee |-> Bump(p.fee), producer_fee |-> Bump(p.producer_fee),
   client_cm |-> OtherCm(p.client_cm), producer_cm |-> OtherCm(p.producer_cm),
   enc |-> Altered]

\* The first input replaced by another of the n leaves.
OtherInput(nfs, n) == [nfs EXCEPT ![1] = OtherOf(@, 1..n)]

OtherTransfer(p, n) ==
  [root |-> n, nullifiers |-> OtherInput(p.nullifiers, n), fee |-> Bump(p.fee),
   cm_1 |-> OtherCm(p.cm_1), cm_2 |-> OtherCm(p.cm_2), cm_3 |-> OtherCm(p.cm_3),
   enc |-> Altered]

OtherUnshield(p, n) ==
  [root |-> n, nullifiers |-> OtherInput(p.nullifiers, n), v_pub |-> Bump(p.v_pub),
   fee |-> Bump(p.fee), recipient |-> OtherOf(p.recipient, Recipient),
   cm_change |-> OtherCm(p.cm_change), has_change_enc |-> ~p.has_change_enc,
   cm_fee |-> OtherCm(p.cm_fee), enc |-> Altered]
=============================================================================
