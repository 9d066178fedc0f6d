---------------------------- MODULE Transitions -----------------------------
(***************************************************************************)
(* The checks of the generic transitions of core/src/lib.rs                *)
(* (prepare_shield, apply_transfer, prepare_unshield).  Like the code,     *)
(* they are written against the LedgerState interface: s is what a state   *)
(* answers when asked for its auth domain, required fee, accepted roots,   *)
(* spent nullifiers, pool balances, applied shields and tree size.  The    *)
(* in-memory ledger (module Ledger) and the kernel's durable store (module *)
(* Kernel) each supply their own s.                                        *)
(*                                                                         *)
(* A request r carries a proof whose public outputs are p, made for an     *)
(* auth domain.                                                            *)
(***************************************************************************)
EXTENDS Circuits

CONSTANT Capacity        \* leaves of the commitment tree (2^DEPTH)

ASSUME CapacityAssumption == Capacity \in Nat

ensure_note_capacity(s, additional) == s.size + additional <= Capacity

\* Mutant: the request's own nullifiers are not compared with each other.
spendable_no_duplicate_check(s, r) ==
  /\ Len(r.nullifiers) \in 1..MaxInputs
  /\ r.root \in s.valid_roots
  /\ \A i \in DOMAIN r.nullifiers : r.nullifiers[i] \notin s.nullifiers

\* The checks transfer and unshield make on the notes they spend.
spendable(s, r) ==
  /\ Len(r.nullifiers) \in 1..MaxInputs
  /\ r.root \in s.valid_roots
  /\ \A i \in DOMAIN r.nullifiers : r.nullifiers[i] \notin s.nullifiers
  /\ \A i, j \in DOMAIN r.nullifiers :
        i # j => r.nullifiers[i] # r.nullifiers[j]

\* Mutants: the proof's auth domain, or its memo hashes, are not compared.
bound_any_domain(s, r, p, domain) == p = r
bound_any_memo(s, r, p, domain) ==
  domain = s.auth_domain /\ p = [r EXCEPT !.enc = p.enc]

\* The proof's public outputs are the request's fields, in this domain.
bound(s, r, p, domain) == domain = s.auth_domain /\ p = r

-----------------------------------------------------------------------------
debit(r) == r.v + r.fee + r.producer_fee

\* Mutant: no replay check.
prepare_shield_replayable(s, r, p, domain) ==
  /\ r.fee >= s.required_tx_fee
  /\ r.producer_fee # 0
  /\ r.client_cm # ZERO
  /\ r.producer_cm # ZERO
  /\ r.enc # Malformed
  /\ debit(r) <= U64Max
  /\ s.deposit_balances[r.pubkey_hash] >= debit(r)
  /\ bound(s, r, p, domain)
  /\ ensure_note_capacity(s, 2)

prepare_shield(s, r, p, domain) ==
  /\ r.fee >= s.required_tx_fee
  /\ r.producer_fee # 0
  /\ r.client_cm # ZERO
  /\ r.producer_cm # ZERO
  /\ r.client_cm \notin s.applied_shield_cms
  /\ r.enc # Malformed
  /\ debit(r) <= U64Max
  /\ s.deposit_balances[r.pubkey_hash] >= debit(r)
  /\ bound(s, r, p, domain)
  /\ ensure_note_capacity(s, 2)

\* The commitments a shield and a transfer append, in order.
shield_outputs(r) == <<r.client_cm, r.producer_cm>>
transfer_outputs(r) == <<r.cm_1, r.cm_2, r.cm_3>>

\* apply_transfer, up to its first write.
prepare_transfer(s, r, p, domain) ==
  /\ r.fee >= s.required_tx_fee
  /\ r.enc # Malformed
  /\ spendable(s, r)
  /\ bound(s, r, p, domain)
  /\ ensure_note_capacity(s, 3)

\* The new notes of an unshield: the change, if any, then the producer's.
unshield_outputs(r) ==
  IF r.cm_change = ZERO THEN <<r.cm_fee>> ELSE <<r.cm_change, r.cm_fee>>

prepare_unshield(s, r, p, domain) ==
  /\ r.recipient \in Recipient
  /\ r.fee >= s.required_tx_fee
  /\ (r.cm_change # ZERO) = r.has_change_enc
  /\ r.enc # Malformed
  /\ r.cm_fee # ZERO
  /\ spendable(s, r)
  /\ bound(s, r, p, domain)
  /\ ensure_note_capacity(s, Len(unshield_outputs(r)))

\* What the owner's proof of an unshield claims: a payment, for the notes that
\* it spends.
Claim(p) ==
  [recipient |-> p.recipient, amount |-> p.v_pub,
   spent |-> {p.nullifiers[i] : i \in DOMAIN p.nullifiers}]
=============================================================================
