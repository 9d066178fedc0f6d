------------------------------- MODULE Kernel -------------------------------
(***************************************************************************)
(* The rollup kernel (tezos/rollup-kernel/src/lib.rs): one inbox message   *)
(* after another, against the durable store.  Each action is the whole of  *)
(* process_input for one kind of message.  The store's values are modelled *)
(* path by path: markers, indexes and counts are written separately, and   *)
(* the tree is kept as a frontier.                                         *)
(*                                                                         *)
(* Left out: the raw input counters, the last input's payload and the last *)
(* result, which no transition reads.                                      *)
(***************************************************************************)
EXTENDS Transitions, ProofCheck

CONSTANTS
  Depth,          \* levels of the commitment tree (DEPTH)
  Contract,       \* L1 addresses that may send deposits or be configured
  KT1,            \* those that are originated contracts
  SignedDomain,   \* auth domains of the verifier configs the admin signed
  SignedBridge,   \* addresses in the bridge configs the admin signed
  DefaultDomain,  \* default_auth_domain()
  None,           \* an absent path
  BasePrivateTxsPerLevel,
  MaxDynamicFeeStep,
  MaxLevel,       \* bound: L1 levels are 1..MaxLevel
  MaxDeposited    \* bound: coins ever deposited

INSTANCE Merkle

ASSUME KernelAssumption ==
  /\ Depth \in Nat
  /\ Capacity = Pow2[Depth]
  /\ KT1 \subseteq Contract
  /\ SignedDomain \subseteq Domain
  /\ DefaultDomain \in Domain
  /\ None \notin Domain \cup Contract \cup PoolKey
  /\ BasePrivateTxsPerLevel \in Nat \ {0}
  /\ MaxDynamicFeeStep \in Nat
  /\ MinTxFee * Pow2[MaxDynamicFeeStep] <= U64Max
  /\ MaxLevel \in Nat
  /\ MaxDeposited \in Nat

VARIABLES
  input_level,     \* PATH_LAST_INPUT_LEVEL; 0 before the first input
  auth_domain,     \* PATH_AUTH_DOMAIN
  verifier,        \* PATH_VERIFIER_CONFIG, by its auth domain
  ticketer,        \* PATH_BRIDGE_TICKETER
  tree,            \* note payloads, frontier, PATH_TREE_ROOT, PATH_TREE_SIZE
  root,            \* accepted roots: markers, index, count
  nullifier,       \* spent nullifiers: markers, index, count
  withdrawal,      \* withdrawal records and their count
  balance,         \* pool balances; Missing or Drained when there is none
  applied_shield,  \* markers of applied shields
  fee_level,       \* PATH_PRIVATE_TX_FEE_LEVEL; 0 when absent
  tx_count,        \* PATH_PRIVATE_TX_COUNT_IN_LEVEL
  outbox,          \* messages written for L1
  \* History variables the properties speak about.
  deposited, burned, shields, claims,   \* as in Ledger
  level_fees,      \* fees of the private transactions of the current level
  anchors          \* auth domain and bridge in force at each accepted deposit

store == <<tree, root, nullifier, withdrawal, balance, applied_shield>>
vars == <<input_level, auth_domain, verifier, ticketer, tree, root, nullifier,
          withdrawal, balance, applied_shield, fee_level, tx_count, outbox,
          deposited, burned, shields, claims, level_fees, anchors>>

\* A pool path never written, and one overwritten with empty bytes when the
\* pool was drained (the store has no delete).
Missing == -2
Drained == -1

\* The store before the first message: no path is written.  The tree root is
\* written by ensure_initialized, before anything reads it.
Init ==
  /\ input_level = 0
  /\ auth_domain = None
  /\ verifier = None
  /\ ticketer = None
  /\ tree = [size |-> 0, root |-> zero_hashes[Depth], branches |-> << >>, note |-> << >>]
  /\ root = [marker |-> {}, at |-> << >>, count |-> 0]
  /\ nullifier = [marker |-> {}, at |-> << >>, count |-> 0]
  /\ withdrawal = [at |-> << >>, count |-> 0]
  /\ balance = [k \in PoolKey |-> Missing]
  /\ applied_shield = {}
  /\ fee_level = 0
  /\ tx_count = 0
  /\ outbox = <<>>
  /\ deposited = 0 /\ burned = 0 /\ shields = <<>> /\ claims = <<>>
  /\ level_fees = <<>>
  /\ anchors = {}

-----------------------------------------------------------------------------
(***************************************************************************)
(* The store's logs and tree.                                              *)
(***************************************************************************)
\* A marker for membership, an index entry for enumeration, and the count.
LogInsert(log, key) ==
  [marker |-> log.marker \cup {key},
   at |-> Write(log.at, log.count, key),
   count |-> log.count + 1]

\* insert_nullifier and snapshot_root: nothing if the marker is there.
LogInsertNew(log, key) == IF key \in log.marker THEN log ELSE LogInsert(log, key)

\* insert_nullifier for each, in order; and as an unshield commits them, with
\* no look at the markers.
insert_nullifiers(log, keys) ==
  LET I[i \in 0..Len(keys)] == IF i = 0 THEN log ELSE LogInsertNew(I[i - 1], keys[i])
  IN  I[Len(keys)]

commit_nullifiers(log, keys) ==
  LET I[i \in 0..Len(keys)] == IF i = 0 THEN log ELSE LogInsert(I[i - 1], keys[i])
  IN  I[Len(keys)]

\* append_note: payload, frontier and root, then the size.  When a live
\* frontier node is missing, what was written before stays written.
append_note(t, cm, enc) ==
  LET after == simulate_frontier_append(t.branches, t.size, cm)
      note == Write(t.note, t.size, [cm |-> cm, enc |-> enc])
  IN  CASE t.size >= Capacity -> [ok |-> FALSE, tree |-> t]
        [] t.size < Capacity /\ after.ok ->
             [ok |-> TRUE, tree |-> [size |-> t.size + 1, root |-> after.root,
                                     branches |-> after.branches, note |-> note]]
        [] OTHER ->
             [ok |-> FALSE, tree |-> [size |-> t.size, root |-> t.root,
                                      branches |-> after.branches, note |-> note]]

\* The outputs of a transaction one after the other, up to the first error.
append_next(sofar, cm, enc) ==
  IF sofar.ok THEN append_note(sofar.tree, cm, enc) ELSE sofar

append_notes(t, cms, enc) ==
  LET A[i \in 0..Len(cms)] ==
        IF i = 0 THEN [ok |-> TRUE, tree |-> t] ELSE append_next(A[i - 1], cms[i], enc)
  IN  A[Len(cms)]

\* The plan of prepare_durable_shield_commit and prepare_durable_unshield_
\* commit, made without writing.
durable_plan(cms, enc) ==
  LET after == append_notes(tree, cms, enc)
  IN  [ok |-> assert_frontier_matches_tree_size(tree.branches, tree.size) /\ after.ok,
       tree |-> after.tree]

-----------------------------------------------------------------------------
(***************************************************************************)
(* DurableLedgerState: what the store answers to the generic transitions,  *)
(* once ensure_initialized has run.                                        *)
(***************************************************************************)
AuthDomain == IF auth_domain = None THEN DefaultDomain ELSE auth_domain

ValidRoots ==
  IF root.count = 0 THEN LogInsert(root, tree.root) ELSE root

\* Mutant: the count of an earlier level is not reset.
current_private_tx_count_in_level_stale(level) == IF fee_level = 0 THEN 0 ELSE tx_count

current_private_tx_count_in_level(level) == IF fee_level = level THEN tx_count ELSE 0

required_tx_fee_for_private_tx_count(count) ==
  LET base == BasePrivateTxsPerLevel - 1
      over == IF count > base THEN count - base ELSE 0
      step == IF over > MaxDynamicFeeStep THEN MaxDynamicFeeStep ELSE over
  IN  IF MinTxFee * Pow2[step] > U64Max THEN U64Max ELSE MinTxFee * Pow2[step]

Leaves(n) == [i \in 1..n |-> tree.note[i - 1].cm]

deposit_balance(k) == IF balance[k] < 0 THEN 0 ELSE balance[k]

read_required_tx_fee(level) ==
  required_tx_fee_for_private_tx_count(current_private_tx_count_in_level(level))

\* The fee a wallet pays that reads the store at the head: the message is for the
\* next level, whose count is read only if the store is already there.
current_required_tx_fee_at_block(head_level) ==
  LET next == head_level + 1
  IN  required_tx_fee_for_private_tx_count(
        IF input_level = next /\ fee_level = next THEN tx_count ELSE 0)

DurableLedgerState(level) ==
  [auth_domain |-> AuthDomain,
   required_tx_fee |-> read_required_tx_fee(level),
   valid_roots |-> {n \in 0..tree.size : tree_root(Leaves(n)) \in ValidRoots.marker},
   nullifiers |-> nullifier.marker,
   deposit_balances |-> [k \in PoolKey |-> deposit_balance(k)],
   applied_shield_cms |-> applied_shield,
   size |-> tree.size]

\* read_ledger: the ledger as an observer rebuilds it from the indexes.
read_ledger ==
  [notes |-> [i \in 1..tree.size |-> tree.note[i - 1]],
   nullifiers |-> {nullifier.at[i] : i \in 0..(nullifier.count - 1)},
   valid_roots |-> {ValidRoots.at[i] : i \in 0..(ValidRoots.count - 1)},
   withdrawals |-> [i \in 1..withdrawal.count |-> withdrawal.at[i - 1]]]

-----------------------------------------------------------------------------
(***************************************************************************)
(* Parts of process_input.                                                 *)
(***************************************************************************)
\* The level is recorded before the message is looked at.
process_input(level) ==
  /\ level \in 1..MaxLevel
  /\ level >= input_level
  /\ input_level' = level

FeesIn(level) == IF level = input_level THEN level_fees ELSE <<>>

no_private_tx(level) ==
  /\ level_fees' = FeesIn(level)
  /\ UNCHANGED <<fee_level, tx_count>>

note_private_tx_applied(level, fee) ==
  /\ fee_level' = level
  /\ tx_count' = current_private_tx_count_in_level(level) + 1
  /\ level_fees' = Append(FeesIn(level), fee)

ensure_initialized ==
  /\ auth_domain' = AuthDomain
  /\ root' = ValidRoots

\* The root of a tree joins the accepted ones.
snapshot_root(t) == LogInsertNew(ValidRoots, t.root)

\* The pools once amount is taken from k.
debit_deposit(k, amount) ==
  LET left == deposit_balance(k) - amount
  IN  [balance EXCEPT ![k] = IF left = 0 THEN Drained ELSE left]

mark_applied_shield(client_cm) == applied_shield \cup {client_cm}

WithdrawalRecord(r) == [recipient |-> r.recipient, amount |-> r.v_pub]

enqueue_withdrawal(record) ==
  [at |-> Write(withdrawal.at, withdrawal.count, record), count |-> withdrawal.count + 1]

\* A burn of the record's ticket, for its recipient, at the ticketer.
encode_withdrawal_outbox_message(contract, record) ==
  [ticketer |-> contract, record |-> record]

-----------------------------------------------------------------------------
(***************************************************************************)
(* Messages for someone else, and messages that do not parse.              *)
(***************************************************************************)
InputIgnored(level) ==
  /\ process_input(level)
  /\ no_private_tx(level)
  /\ UNCHANGED <<auth_domain, verifier, ticketer, store, outbox,
                 deposited, burned, shields, claims, anchors>>

\* A message that parses and is refused.  Every handler below returns an
\* error when its guard is false, having written nothing but what
\* ensure_initialized wrote; so does an unsigned configuration, a DAL pointer
\* whose payload cannot be fetched or does not hash to the pointer's hash,
\* and an unshield whose write_output fails.  Some such message exists in
\* every state.
InputRefused(level) ==
  /\ process_input(level)
  /\ no_private_tx(level)
  /\ ensure_initialized
  /\ UNCHANGED <<verifier, ticketer, tree, nullifier, withdrawal, balance,
                 applied_shield, outbox, deposited, burned, shields, claims, anchors>>

(***************************************************************************)
(* Configuration, signed by the admin and accepted once.  A signature is   *)
(* named by the one-time key and the hash it signs: it verifies for these. *)
(***************************************************************************)
KERNEL_VERIFIER_CONFIG_KEY_INDEX == 0
KERNEL_BRIDGE_CONFIG_KEY_INDEX == 1

kernel_verifier_config_sighash(domain) == <<"tzel-config-verifier", domain>>
kernel_bridge_config_sighash(contract) == <<"tzel-config-bridge", contract>>

sign_kernel_verifier_config(domain) ==
  [key |-> KERNEL_VERIFIER_CONFIG_KEY_INDEX, hash |-> kernel_verifier_config_sighash(domain)]
sign_kernel_bridge_config(contract) ==
  [key |-> KERNEL_BRIDGE_CONFIG_KEY_INDEX, hash |-> kernel_bridge_config_sighash(contract)]

\* The signatures there are: a message with any other is refused.
AdminSignature ==
  {sign_kernel_verifier_config(domain) : domain \in SignedDomain}
    \cup {sign_kernel_bridge_config(contract) : contract \in SignedBridge}

authenticate_verifier_config(domain, signature) ==
  /\ signature.key = KERNEL_VERIFIER_CONFIG_KEY_INDEX
  /\ signature.hash = kernel_verifier_config_sighash(domain)

authenticate_bridge_config(contract, signature) ==
  /\ signature.key = KERNEL_BRIDGE_CONFIG_KEY_INDEX
  /\ signature.hash = kernel_bridge_config_sighash(contract)

configure_verifier(level, domain, signature) ==
  /\ process_input(level)
  /\ authenticate_verifier_config(domain, signature)
  /\ verifier = None
  /\ no_private_tx(level)
  /\ auth_domain' = domain
  /\ verifier' = domain
  /\ root' = ValidRoots
  /\ UNCHANGED <<ticketer, tree, nullifier, withdrawal, balance, applied_shield,
                 outbox, deposited, burned, shields, claims, anchors>>

configure_bridge(level, contract, signature) ==
  /\ process_input(level)
  /\ authenticate_bridge_config(contract, signature)
  /\ contract \in KT1
  /\ ticketer = None
  /\ no_private_tx(level)
  /\ ensure_initialized
  /\ ticketer' = contract
  /\ UNCHANGED <<verifier, tree, nullifier, withdrawal, balance, applied_shield,
                 outbox, deposited, burned, shields, claims, anchors>>

(***************************************************************************)
(* A deposit ticket of amount coins, sent by an L1 contract for pool k     *)
(* (None: the receiver is not a canonical pool key).                       *)
(***************************************************************************)
\* The receiver is deposit: and the pool's key in lowercase hex, nothing else.
parse_deposit_recipient_pubkey_hash(k) == k # None

\* Mutant: deposits are credited before the verifier is configured.
validate_bridge_deposit_early(sender, k) ==
  /\ ticketer # None
  /\ sender = ticketer
  /\ parse_deposit_recipient_pubkey_hash(k)

validate_bridge_deposit(sender, k) ==
  /\ ticketer # None
  /\ sender = ticketer
  /\ parse_deposit_recipient_pubkey_hash(k)
  /\ verifier # None

Deposit(level, sender, k, amount) ==
  /\ process_input(level)
  /\ deposited + amount <= MaxDeposited
  /\ validate_bridge_deposit(sender, k)
  /\ deposit_balance(k) + amount <= U64Max
  /\ no_private_tx(level)
  /\ ensure_initialized
  /\ balance' = [balance EXCEPT ![k] = deposit_balance(k) + amount]
  /\ deposited' = deposited + amount
  /\ anchors' = anchors \cup {[domain |-> AuthDomain, ticketer |-> sender]}
  /\ UNCHANGED <<verifier, ticketer, tree, nullifier, withdrawal, applied_shield,
                 outbox, burned, shields, claims>>

(***************************************************************************)
(* Private transactions: a request r with a proof, whose public outputs    *)
(* are an auth domain and the fields of a request.  They arrive in the     *)
(* inbox or through a DAL pointer, to the same handler.  s is what the     *)
(* store answers when the message is applied.                              *)
(***************************************************************************)
\* The admin configures the hashes of the circuits' programs.
ProgramHashes == load_program_hashes([circuit \in CircuitKind |-> circuit])

load_verifier == from_kernel_config(ProgramHashes)

read_verifier_config == verifier

validate_transition_proof(proof, circuit) ==
  /\ read_verifier_config # None
  /\ validate(load_verifier, proof, circuit)

DomainOf(proof) == transition_public_outputs(proof.output_preimage)[1]
OutputsOf(proof) == transition_public_outputs(proof.output_preimage)[2]

prepare_durable_shield_commit(r) == durable_plan(shield_outputs(r), r.enc)

Shield(level, s, r, proof) ==
  LET plan == prepare_durable_shield_commit(r)
  IN  /\ process_input(level)
      /\ validate_transition_proof(proof, "shield")
      /\ PublicOutputs(proof.output_preimage, 2)
      /\ prepare_shield(s, r, OutputsOf(proof), DomainOf(proof))
      /\ plan.ok
      /\ balance' = debit_deposit(r.pubkey_hash, debit(r))
      /\ applied_shield' = mark_applied_shield(r.client_cm)
      /\ tree' = plan.tree
      /\ root' = snapshot_root(plan.tree)
      /\ auth_domain' = AuthDomain
      /\ note_private_tx_applied(level, r.fee)
      /\ burned' = burned + r.fee
      /\ shields' = Append(shields, r.client_cm)
      /\ UNCHANGED <<verifier, ticketer, nullifier, withdrawal, outbox,
                     deposited, claims, anchors>>

\* apply_transfer writes as it goes: an error in append_note would leave the
\* notes appended so far.
Transfer(level, s, r, proof) ==
  LET after == append_notes(tree, transfer_outputs(r), r.enc)
  IN  /\ process_input(level)
      /\ validate_transition_proof(proof, "transfer")
      /\ PublicOutputs(proof.output_preimage, 2)
      /\ prepare_transfer(s, r, OutputsOf(proof), DomainOf(proof))
      /\ tree' = after.tree
      /\ auth_domain' = AuthDomain
      /\ IF after.ok
         THEN /\ nullifier' = insert_nullifiers(nullifier, r.nullifiers)
              /\ root' = snapshot_root(after.tree)
              /\ note_private_tx_applied(level, r.fee)
              /\ burned' = burned + r.fee
         ELSE /\ root' = ValidRoots
              /\ no_private_tx(level)
              /\ UNCHANGED <<nullifier, burned>>
      /\ UNCHANGED <<verifier, ticketer, withdrawal, balance, applied_shield, outbox,
                     deposited, shields, claims, anchors>>

\* Mutant: the result of write_output is ignored.
write_output_ignored(message) == outbox' \in {outbox, Append(outbox, message)}

\* write_output succeeds; when it fails the message is refused.
write_output(message) == outbox' = Append(outbox, message)

\* Refused while no bridge is configured.
prepare_unshield_outbox(r) ==
  [ok |-> ticketer # None,
   message |-> encode_withdrawal_outbox_message(ticketer, WithdrawalRecord(r))]

prepare_durable_unshield_commit(r) == durable_plan(unshield_outputs(r), r.enc)

\* The outbox message goes out before the first write to the store.
Unshield(level, s, r, proof) ==
  LET plan == prepare_durable_unshield_commit(r)
  IN  /\ process_input(level)
      /\ validate_transition_proof(proof, "unshield")
      /\ PublicOutputs(proof.output_preimage, 2)
      /\ prepare_unshield(s, r, OutputsOf(proof), DomainOf(proof))
      /\ prepare_unshield_outbox(r).ok
      /\ plan.ok
      /\ write_output(prepare_unshield_outbox(r).message)
      /\ tree' = plan.tree
      /\ nullifier' = commit_nullifiers(nullifier, r.nullifiers)
      /\ withdrawal' = enqueue_withdrawal(WithdrawalRecord(r))
      /\ root' = snapshot_root(plan.tree)
      /\ auth_domain' = AuthDomain
      /\ note_private_tx_applied(level, r.fee)
      /\ burned' = burned + r.fee
      /\ claims' = IF DomainOf(proof) = AuthDomain
                   THEN Append(claims, Claim(OutputsOf(proof))) ELSE claims
      /\ UNCHANGED <<verifier, ticketer, balance, applied_shield, deposited, shields,
                     anchors>>

-----------------------------------------------------------------------------
(***************************************************************************)
(* The requests here are the proofs' own: the checks that refuse others    *)
(* are those of Transitions, explored in module Ledger.  But the proofs    *)
(* need not be of the circuits.                                            *)
(***************************************************************************)
\* A proof of the circuit, if it can prove these outputs.  Or, whether it can
\* or not, a foreign one: of a program that prints them, sent as what it is or
\* as the circuit's, one of two runs, and one of the bare outputs.
Proofs(circuit, domain, p, provable, foreign) ==
  LET outputs == <<domain, p>>
      claimed == Preimage(circuit, outputs)
      own == Preimage("own", outputs)
      two == [claimed EXCEPT ![1] = 2]
  IN  IF foreign
      THEN {Stark(own, own), Stark(own, claimed), Stark(two, two), Stark(outputs, outputs)}
      ELSE {proof \in {Stark(claimed, claimed)} : provable}

Notes == [i \in 1..tree.size |-> tree.note[i - 1]]

\* One note, the latest root and the right domain are enough to try a foreign
\* proof with; the circuits prove nothing for a producer's note that is worth nothing.
MadeFor(foreign) == IF foreign THEN {Here} ELSE Domain
Opened(foreign) ==
  IF foreign THEN {Opening(Notes, tree.size, <<i>>) : i \in 1..tree.size}
  ELSE Openings(Notes)

Paying(foreign) == {cm \in Commitment : foreign \/ Value[cm] > 0}

ShieldStep(level, s) ==
  \E foreign \in BOOLEAN, k \in PoolKey, cm \in Commitment, producer_cm \in Commitment,
     fee \in TxFee, d \in Domain :
    LET p == ShieldProof(k, cm, producer_cm, fee)
    IN  \E proof \in Proofs("shield", d, p, ShieldProvable(p), foreign) :
          Shield(level, s, p, proof)

TransferStep(level, s) ==
  \E foreign \in BOOLEAN : \E o \in Opened(foreign), cm_1, cm_2 \in Commitment,
     cm_3 \in Paying(foreign) :
    LET p == TransferProof(o, <<cm_1, cm_2, cm_3>>)
        provable == TransferProvable(p, o.sum_in)
    IN  /\ foreign \/ provable
        /\ \E d \in MadeFor(foreign) : \E proof \in Proofs("transfer", d, p, provable, foreign) :
             Transfer(level, s, p, proof)

UnshieldStep(level, s) ==
  \E foreign \in BOOLEAN : \E o \in Opened(foreign), fee \in TxFee, recipient \in Recipient,
     cm_change \in Commitment \cup {ZERO}, cm_fee \in Paying(foreign) :
    LET p == UnshieldProof(o, fee, recipient, cm_change, cm_fee)
        provable == UnshieldProvable(p, o.sum_in)
    IN  /\ foreign \/ provable
        /\ \E d \in MadeFor(foreign) : \E proof \in Proofs("unshield", d, p, provable, foreign) :
             Unshield(level, s, p, proof)

DepositStep(level) ==
  \E sender \in Contract, k \in PoolKey \cup {None}, amount \in Amount :
    Deposit(level, sender, k, amount)

Next ==
  \E level \in {l \in 1..MaxLevel : l >= input_level} :
    \/ InputIgnored(level)
    \/ InputRefused(level)
    \/ \E domain \in Domain, signature \in AdminSignature :
         configure_verifier(level, domain, signature)
    \/ \E contract \in Contract, signature \in AdminSignature :
         configure_bridge(level, contract, signature)
    \/ DepositStep(level)
    \/ \E s \in {DurableLedgerState(level)} :
         ShieldStep(level, s) \/ TransferStep(level, s) \/ UnshieldStep(level, s)

Spec == Init /\ [][Next]_vars

-----------------------------------------------------------------------------
(***************************************************************************)
(* Properties.                                                             *)
(***************************************************************************)
\* The root kept through the frontier is the root of the notes an observer
\* reads back, and it is accepted: wallets that rebuild the tree from the
\* store make proofs the kernel takes.
TreeReadable ==
  /\ tree.root = ReferenceRoot(Leaves(tree.size))
  /\ tree.root \in ValidRoots.marker
  /\ DOMAIN tree.note = 0..(tree.size - 1)

\* What the checks consult (markers) is what observers enumerate (indexes),
\* each entry once: transfer checks the marker before it inserts, unshield
\* does not.
MarkersMatchIndexes ==
  \A log \in {root, nullifier} :
    /\ DOMAIN log.at = 0..(log.count - 1)
    /\ log.marker = {log.at[i] : i \in DOMAIN log.at}
    /\ Cardinality(log.marker) = log.count

\* L1 is told to pay exactly the recorded withdrawals, in order, although the
\* message leaves before the first write and may fail to leave.
OutboxMatchesQueue ==
  read_ledger.withdrawals = [i \in 1..Len(outbox) |-> outbox[i].record]

\* A pool was credited in the auth domain in force ever since, by the bridge
\* that pays the withdrawals: no later configuration strands a deposit.
DepositsAnchored ==
  \A a \in anchors :
    /\ a.domain = AuthDomain
    /\ \A i \in 1..Len(outbox) : outbox[i].ticketer = a.ticketer

\* Twice a fee, up to a ceiling.
Doubled(fee) ==
  LET ceiling == MinTxFee * Pow2[MaxDynamicFeeStep]
  IN  IF 2 * fee < ceiling THEN 2 * fee ELSE ceiling

\* The fee of the n-th private transaction of a level: MinTxFee for the first
\* BasePrivateTxsPerLevel, then twice the one before.
Schedule(n) ==
  LET S[i \in 1..n] == IF i <= BasePrivateTxsPerLevel THEN MinTxFee ELSE Doubled(S[i - 1])
  IN  S[n]

\* Every private transaction of a level paid its place in the schedule, the
\* next one will be asked for exactly its own, and a new level starts again
\* whatever the store still holds of the last one.  A wallet that reads the store
\* at a head offers what the first private transaction of the next level owes.
FeeSchedule ==
  /\ \A n \in 1..Len(level_fees) : level_fees[n] >= Schedule(n)
  /\ \A level \in input_level..MaxLevel :
       read_required_tx_fee(level) = Schedule(Len(FeesIn(level)) + 1)
  /\ \A head \in input_level..MaxLevel :
       current_required_tx_fee_at_block(head) = Schedule(1)

(***************************************************************************)
(* The kernel implements Ledger: the durable store, read as read_ledger    *)
(* reads it, takes exactly the steps of the in-memory ledger, with a       *)
(* window of roots that is never full.                                     *)
(***************************************************************************)
\* The number of leaves under a root.
LeafCount(hash) == CHOOSE n \in 0..tree.size : tree_root(Leaves(n)) = hash

L == INSTANCE Ledger WITH
  notes <- read_ledger.notes,
  nullifiers <- read_ledger.nullifiers,
  valid_roots <- {LeafCount(h) : h \in read_ledger.valid_roots},
  root_history <- [i \in 1..ValidRoots.count |-> LeafCount(ValidRoots.at[i - 1])],
  deposit_balances <- [k \in PoolKey |-> deposit_balance(k)],
  applied_shield_cms <- applied_shield,
  withdrawals <- read_ledger.withdrawals,
  MaxValidRoots <- Capacity + 1

\* Every message either leaves the ledger as it was or is one deposit, shield,
\* transfer or unshield of the specification.
ImplementsLedger == L!Spec
=============================================================================
