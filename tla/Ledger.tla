------------------------------- MODULE Ledger -------------------------------
(***************************************************************************)
(* The state transitions of core/src/lib.rs over the in-memory Ledger:     *)
(* apply_deposit, apply_shield, apply_transfer, apply_unshield.  The       *)
(* rollup kernel runs the same transitions over its durable store          *)
(* (module Kernel), and is shown to implement this specification.          *)
(*                                                                         *)
(* A request is applied whole or refused with no effect, so a refusal is a *)
(* stuttering step here; Kernel shows that refusals really change nothing. *)
(***************************************************************************)
EXTENDS Transitions

CONSTANTS
  MaxValidRoots,   \* MAX_VALID_ROOTS
  MaxDeposited     \* bound: coins ever deposited

ASSUME LedgerAssumption ==
  /\ MaxValidRoots \in Nat \ {0}
  /\ MaxDeposited \in Nat

VARIABLES
  notes,               \* tree.leaves and memos, appended together
  nullifiers,          \* spent positions
  valid_roots,         \* accepted roots, as a set
  root_history,        \* the same roots, oldest first
  deposit_balances,    \* pool balances; 0 also stands for "no entry"
  applied_shield_cms,  \* replay protection of shields
  withdrawals,         \* L1 withdrawal queue
  \* History variables the properties speak about.
  deposited,           \* coins credited by L1 deposits
  burned,              \* fees paid and not given to anyone
  shields,             \* client commitments of the applied shields, in order
  claims               \* what the owners' proofs claimed by unshields

state == <<notes, nullifiers, valid_roots, root_history, deposit_balances,
           applied_shield_cms, withdrawals>>
history == <<deposited, burned, shields, claims>>
vars == <<notes, nullifiers, valid_roots, root_history, deposit_balances,
          applied_shield_cms, withdrawals, deposited, burned, shields, claims>>

\* What the in-memory ledger answers through the LedgerState interface.
LedgerState ==
  [auth_domain |-> Here, required_tx_fee |-> MinTxFee,
   valid_roots |-> valid_roots, nullifiers |-> nullifiers,
   deposit_balances |-> deposit_balances,
   applied_shield_cms |-> applied_shield_cms, size |-> Len(notes)]

Withdrawal == [recipient : Recipient, amount : Amount]
Root == Len(notes)

\* Ledger::with_auth_domain: the empty tree's root is valid.
Init ==
  /\ notes = <<>>
  /\ nullifiers = {}
  /\ valid_roots = {0}
  /\ root_history = <<0>>
  /\ deposit_balances = [k \in PoolKey |-> 0]
  /\ applied_shield_cms = {}
  /\ withdrawals = <<>>
  /\ deposited = 0
  /\ burned = 0
  /\ shields = <<>>
  /\ claims = <<>>

-----------------------------------------------------------------------------
(***************************************************************************)
(* The steps the transitions are made of.                                  *)
(***************************************************************************)
\* Mutant: the root beyond the limit leaves the history and stays accepted.
append_and_snapshot_stale_root(cms, enc) ==
  LET root == Len(notes) + Len(cms)
      history_after == Append(root_history, root)
  IN  /\ notes' = notes \o [i \in 1..Len(cms) |-> [cm |-> cms[i], enc |-> enc]]
      /\ root_history' = IF Len(history_after) > MaxValidRoots
                         THEN Tail(history_after) ELSE history_after
      /\ valid_roots' = valid_roots \cup {root}

\* append_note for each commitment, then snapshot_root: the new root is
\* recorded and the oldest ones beyond MaxValidRoots are dropped
\* (record_valid_root_with_limit).
append_and_snapshot(cms, enc) ==
  LET root == Len(notes) + Len(cms)
      history_after == Append(root_history, root)
      excess == IF Len(history_after) > MaxValidRoots
                THEN Len(history_after) - MaxValidRoots ELSE 0
  IN  /\ notes' = notes \o [i \in 1..Len(cms) |-> [cm |-> cms[i], enc |-> enc]]
      /\ IF root \in valid_roots
         THEN UNCHANGED <<valid_roots, root_history>>
         ELSE /\ root_history' =
                   SubSeq(history_after, excess + 1, Len(history_after))
              /\ valid_roots' = (valid_roots \cup {root})
                                  \ {history_after[i] : i \in 1..excess}

\* Mutant: the spent set is replaced by the latest nullifiers.
insert_nullifiers_replacing(r) ==
  nullifiers' = {r.nullifiers[i] : i \in DOMAIN r.nullifiers}

insert_nullifiers(r) ==
  nullifiers' = nullifiers \cup {r.nullifiers[i] : i \in DOMAIN r.nullifiers}

-----------------------------------------------------------------------------
\* Mutant: the credit is not checked.
Deposit_unchecked(k, amount) ==
  /\ deposited + amount <= MaxDeposited
  /\ deposit_balances' = [deposit_balances EXCEPT ![k] = @ + amount]
  /\ deposited' = deposited + amount
  /\ UNCHANGED <<notes, nullifiers, valid_roots, root_history,
                 applied_shield_cms, withdrawals, burned, shields, claims>>

\* apply_deposit: credit the pool; an overflowing credit is refused.
Deposit(k, amount) ==
  /\ deposited + amount <= MaxDeposited
  /\ deposit_balances[k] + amount <= U64Max
  /\ deposit_balances' = [deposit_balances EXCEPT ![k] = @ + amount]
  /\ deposited' = deposited + amount
  /\ UNCHANGED <<notes, nullifiers, valid_roots, root_history,
                 applied_shield_cms, withdrawals, burned, shields, claims>>

commit_prepared_shield(r) ==
  /\ deposit_balances' =
       [deposit_balances EXCEPT ![r.pubkey_hash] =
          @ - debit(r)]
  /\ applied_shield_cms' = applied_shield_cms \cup {r.client_cm}
  /\ append_and_snapshot(shield_outputs(r), r.enc)
  /\ UNCHANGED <<nullifiers, withdrawals>>

Shield(r, p, domain) ==
  /\ prepare_shield(LedgerState, r, p, domain)
  /\ commit_prepared_shield(r)
  /\ burned' = burned + r.fee
  /\ shields' = Append(shields, r.client_cm)
  /\ UNCHANGED <<deposited, claims>>

Transfer(r, p, domain) ==
  /\ prepare_transfer(LedgerState, r, p, domain)
  /\ append_and_snapshot(transfer_outputs(r), r.enc)
  /\ insert_nullifiers(r)
  /\ burned' = burned + r.fee
  /\ UNCHANGED <<deposit_balances, applied_shield_cms, withdrawals,
                 deposited, shields, claims>>

commit_prepared_unshield(r) ==
  /\ withdrawals' = Append(withdrawals, [recipient |-> r.recipient, amount |-> r.v_pub])
  /\ insert_nullifiers(r)
  /\ append_and_snapshot(unshield_outputs(r), r.enc)
  /\ UNCHANGED <<deposit_balances, applied_shield_cms>>

Unshield(r, p, domain) ==
  /\ prepare_unshield(LedgerState, r, p, domain)
  /\ commit_prepared_unshield(r)
  /\ burned' = burned + r.fee
  /\ claims' = IF domain = Here THEN Append(claims, Claim(p)) ELSE claims
  /\ UNCHANGED <<deposited, shields>>

-----------------------------------------------------------------------------
ShieldStep ==
  \E k \in PoolKey, cm \in Commitment, producer_cm \in Commitment,
     fee \in TxFee :
    LET p == ShieldProof(k, cm, producer_cm, fee)
    IN  /\ ShieldProvable(p)
        /\ \E d \in Domain :
             \E r \in RelayedShield(p, OtherShield(p), d) : Shield(r, p, d)

TransferStep ==
  \E o \in Openings(notes), cm \in [1..3 -> Commitment] :
    LET p == TransferProof(o, cm)
    IN  /\ TransferProvable(p, o.sum_in)
        /\ \E d \in Domain :
             \E r \in RelayedSpend(p, OtherTransfer(p, Len(notes)), d) :
               Transfer(r, p, d)

UnshieldStep ==
  \E o \in Openings(notes), fee \in TxFee, recipient \in Recipient,
     cm_change \in Commitment \cup {ZERO}, cm_fee \in Commitment :
    LET p == UnshieldProof(o, fee, recipient, cm_change, cm_fee)
    IN  /\ UnshieldProvable(p, o.sum_in)
        /\ \E d \in Domain :
             \E r \in RelayedSpend(p, OtherUnshield(p, Len(notes)), d) :
               Unshield(r, p, d)

DepositStep == \E k \in PoolKey, amount \in Amount : Deposit(k, amount)

Next == DepositStep \/ ShieldStep \/ TransferStep \/ UnshieldStep

Spec == Init /\ [][Next]_vars

-----------------------------------------------------------------------------
(***************************************************************************)
(* Properties.                                                             *)
(***************************************************************************)
TypeOK ==
  /\ notes \in Seq(Note) /\ Len(notes) <= Capacity
  /\ nullifiers \subseteq Nat
  /\ valid_roots \subseteq Nat
  /\ root_history \in Seq(Nat)
  /\ deposit_balances \in [PoolKey -> Amount]
  /\ applied_shield_cms \subseteq Commitment
  /\ withdrawals \in Seq(Withdrawal)
  /\ deposited \in 0..MaxDeposited
  /\ burned \in Nat
  /\ shields \in Seq(Commitment)
  /\ claims \in Seq([recipient : Recipient, amount : Amount, spent : SUBSET Nat])

Unspent == (1..Len(notes)) \ nullifiers
Withdrawn == [i \in 1..Len(withdrawals) |-> withdrawals[i].amount]

\* Every coin an L1 deposit brought in is in a pool, in an unspent note, in
\* the withdrawal queue, or was burned as a fee: no sequence of accepted
\* requests creates or loses value.  It rests on every output-binding check,
\* on the nullifier, duplicate and root checks, and on the pool debit.
Conservation ==
  deposited = Total(deposit_balances) + Total(ValuesAt(notes, Unspent))
                + Total(Withdrawn) + burned

\* The withdrawals queued for L1 are, one for one and in order, the ones the
\* notes' owners signed for in this domain, each paid for with notes of its
\* own: nobody who relays a proof changes where the money goes, repeats it, or
\* brings it from another deployment.
WithdrawalsAsSigned ==
  /\ Len(withdrawals) = Len(claims)
  /\ \A i \in 1..Len(claims) :
       /\ withdrawals[i].recipient = claims[i].recipient
       /\ withdrawals[i].amount = claims[i].amount
  /\ \A i, j \in 1..Len(claims) : i # j => claims[i].spent \cap claims[j].spent = {}

\* A shield's client note enters the tree at most once through a shield,
\* however often its proof is resubmitted and its pool refilled.
ShieldOnce ==
  \A i, j \in 1..Len(shields) : shields[i] = shields[j] => i = j

\* Every leaf carries the ciphertext its proof committed to, so the note's
\* owner can find and open it.
NotesRecoverable == \A i \in 1..Len(notes) : notes[i].enc = Sealed

\* The current root is accepted, the history lists exactly the accepted
\* roots, without repetition, and never more than MaxValidRoots of them.
RootWindow ==
  /\ Root \in valid_roots
  /\ valid_roots = {root_history[i] : i \in 1..Len(root_history)}
  /\ Len(root_history) <= MaxValidRoots
  /\ \A i, j \in 1..Len(root_history) :
        i < j => root_history[i] < root_history[j]

\* A spent note stays spent and a leaf stays where it is.
AppendOnly ==
  [][ /\ nullifiers \subseteq nullifiers'
      /\ Len(notes) <= Len(notes')
      /\ \A i \in 1..Len(notes) : notes'[i] = notes[i] ]_vars

\* "old roots remain valid forever" (cairo/src/merkle.cairo).
OldRootsRemainValid == [][valid_roots \subseteq valid_roots']_vars
=============================================================================
