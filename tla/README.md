# TzEL in TLA+

TzEL is a private-transaction rollup on Tezos. Value enters through L1 deposit
tickets into *deposit pools*, is shielded into *notes* (commitments in an
append-only Merkle tree), moves by transfers, and leaves through unshields that
queue L1 withdrawals. STARK circuits prove every private transaction. This
directory models that system from the wallet's keys to the kernel's store,
model-checks it with TLC, and proves with TLAPS that the ledger, the kernel that
implements it, the operator's files and pointers, the commitment tree, the wallet's
one-time keys, its notes and deposits, and what a watching wallet sees are what they
should be.

## Inventory

| Component | Code | State | Operations |
|---|---|---|---|
| Circuits | `cairo/src/{shield,transfer,unshield}.cairo` | none | three statements a proof can make |
| Transitions | `core/src/lib.rs` (`prepare_*`, `commit_*`, `apply_*`) | whatever implements `LedgerState` | deposit, shield, transfer, unshield |
| In-memory ledger | `core/src/lib.rs` (`Ledger`) | leaves and memos, nullifiers, window of roots, pools, applied shields, withdrawals | the transitions |
| Commitment tree | `core/src/lib.rs` (`MerkleTree`), kernel frontier, `cairo/src/merkle.cairo` | leaves; one left node per level | append, root, auth path, verify |
| Rollup kernel | `tezos/rollup-kernel/src/lib.rs` | durable store, outbox | one inbox message at a time: two configurations, deposits, private transactions, inline or by DAL pointer |
| Kernel DAL fetch | `tezos/rollup-kernel/src/lib.rs` | none | read pages, reassemble, compare with the pointer |
| Wire formats | `core/src/{kernel,canonical}_wire.rs` | none | encode, decode |
| Notes and sighashes | `core/src/lib.rs` | none | derive keys, commit, encrypt, detect, open, sign |
| Proof verification | `verifier/`, `services/tzel/src/lib.rs`, `services/reprover/src/lib.rs` | hashes of the circuits' programs | accept or refuse a proof |
| Operator | `services/tzel/src/bin/tzel_operator.rs` | one file per submission | check, publish chunks, poll attestation, re-publish, inject pointer |
| Wallet address trees | `apps/wallet/src/lib.rs` (`XmssBdsState`) | path of the next key, nodes kept for later ones | rebuild at an index, advance |
| Wallet keys | `apps/wallet/src/lib.rs` | key indices, wallet file, floor file, lock file | lock, load, reserve, sign, save, prove |
| Wallet commands | `apps/wallet/src/lib.rs` | notes, scan cursor, pending spends and deposits, profile | sync, scan, spend, shield, deposit, recover |
| Watch wallets, detection service | `apps/wallet/src/lib.rs` | exported keys, cursor, records | watch sync |
| Demo ledger | `apps/ledger/src/main.rs` | the in-memory ledger under a mutex | the transitions, and reads |
| Provers, demo app, OCaml port | `apps/`, `services/reprover`, `ocaml/` | none of the protocol's | compute or script the above |

How they meet: a wallet builds a witness against a root it recomputed from the
leaves, proves, and hands the request to an operator. The operator posts it on
L1 directly, or publishes it in DAL chunks and posts a pointer. The kernel reads
the inbox, verifies the proof and runs the same generic transitions as the
in-memory ledger over its own store; an unshield also writes an outbox message
that makes the L1 bridge pay. Wallets and operators read the store back.

What is hard:

- *Untrusted relays.* Operator and DAL may alter a request, repeat it, or bring
  a proof from another deployment. Only the comparison of the proof's public
  outputs with the request, nullifiers and replay markers protect the ledger.
- *No rollback.* The kernel's store has no transactions and no delete. What is
  written before an error stays; the outbox message leaves before the first
  write; a drained pool is an empty value.
- *Two representations of everything.* Markers for lookup and indexes for
  enumeration; a frontier in the kernel and a rebuilt tree in the wallet; roots
  in a set and in a history.
- *Configuration in two messages*, in either order, interleaved with deposits.
- *Crashes and retries* in the operator, whose requests and reconciler share
  files, and whose effects on L1 cannot be taken back.
- *One-time keys.* A key that signs two messages is lost to whoever combines
  the signatures; the wallet's commands are processes that crash, overlap and
  work on a file the user may put back from a backup.
- *Several saves per command.* Between them a command talks to the network, and
  the chain moves on.
- *Reads that are not one read.* A note is many requests to a node whose head
  moves.

The inbox is sequential, so the ledger and kernel have no threads: their
nondeterminism is the order and content of messages. The operator has one thread
per request and the reconciler; the wallet has one process per command; a watch
sync has several requests in flight. The hazards, each at its line, are in
`PROJECT.json`.

## Modules

| Module | What it is |
|---|---|
| `Circuits` | constants, what each circuit can prove, and the ways a relayed request can differ from its proof |
| `Transitions` | the checks of the generic transitions, against a record of what `LedgerState` answers |
| `Ledger` | the in-memory ledger; also the abstract specification of the kernel |
| `Merkle` | the three tree computations and a reference root (operators only) |
| `CommitmentTree` | one tree kept as leaves and as frontier |
| `Kernel` | the rollup kernel over its durable store; `ImplementsLedger` is its refinement of `Ledger` |
| `Operator` | the operator's threads, submission files and restarts, with L1 and the DAL node as it uses them |
| `Wire` | the wire format: encoders and decoders (operators only) |
| `DalPayload` | a payload in DAL slots, cut by the operator and read back by the kernel |
| `Notes` | keys, commitments, nullifiers and encrypted notes |
| `Submission` | what the operator checks of a payload, over `DalPayload` and `Notes` |
| `Delivery` | a message from its encoding to a watch-only wallet, composing the four above with the kernel's notes |
| `Sighash` | what a signature and a memo hash cover |
| `ProofCheck` | the two proof verifiers; `Kernel` uses the kernel's |
| `XmssBds` | the traversal of an address's tree of one-time keys |
| `Wots` | one-time signatures, and what several of one key let others sign |
| `WalletKeys` | the wallet's processes, lock, files and keys |
| `Wallet` | the wallet's commands and files against the chain |
| `MCLedger`, `MCKernel`, `MCWalletKeys`, `MCWallet`, `MCDelivery` | constant values for TLC |
| `Induction` | induction on natural numbers, for the proofs |
| `LedgerProofs`, `CommitmentTreeProofs`, `KernelProofs`, `OperatorProofs`, `WalletKeysProofs`, `WalletProofs`, `DeliveryProofs` | TLAPS proofs |

### Cryptography

Taken at its specification. In `Notes`, `Sighash` and `ProofCheck` a hash is the
tuple of what is hashed, a KEM secret is shared by exactly the two that should
share it (decapsulating with another key gives another secret and no error), and
a detection tag may collide. From this it is proved that commitments, nullifiers,
memo hashes and sighashes bind, which is what the other modules start from. A
commitment binds one value. Roots and nullifiers
are collision-free, so in `Circuits` and `Ledger` a root is named by the number
of leaves under it and a nullifier by its leaf position; `Forged` is a root of a
tree that never existed, under which a spend may prove any sum. In `Merkle` and
`Kernel` the root is a structural hash (a pair), so the tree algorithms are
really run. A verified STARK proof means its public outputs were provable
(`ShieldProvable`, `TransferProvable`, `UnshieldProvable`), or that it is of
another program than the circuit: `Kernel` is also given such proofs, and only
`ProofCheck`'s comparison of program hashes keeps them out. The in-memory
ledger's `TrustMeBro` proofs, a development switch that checks nothing, are left
out of `Ledger`; `OnlyTheCircuit` proves that the kernel refuses them.

Sums are `Total(f)`, the cardinality of a set of coins, which is unbounded as
the circuits' `u128` sums are and which lets TLAPS use the cardinality theorems.
Amounts stay in `0..U64Max`, and every checked addition of the code is a guard.

### Requests

`ShieldProof`, `TransferProof` and `UnshieldProof` are the public outputs of a
circuit run; a request has the same fields. `Relayed` gives every request that
differs from its proof in one field; a proof may also be for another domain or
against a forged tree. The transitions' guards decide, exactly as in the code,
which of these are accepted. A refused request changes nothing in `Ledger`, so it
is a stutter; in `Kernel` a refusal is the action `InputRefused`, because it
still records the level and runs `ensure_initialized`.

`claims` records what each accepted unshield's proof claims (`Claim`: recipient,
amount and the notes it spends). `WithdrawalsAsSigned` compares the queue with it and
asks that no two claims share a note: a proof that is accepted twice extends both
lists alike, and only its notes show that it is the same one.

### Kernel

Each action is the whole of `process_input` for one message. `root` and
`nullifier` are records of markers, index and count; `tree` holds note payloads,
frontier, root and size; `balance` tells an absent path from an emptied one.
`Transfer` writes as `apply_transfer` does, note by note, and keeps what was
written if an append fails; `Shield` and `Unshield` plan first and then write, as
`prepare_durable_*` and `apply_durable_*` do. A DAL pointer reaches the same
handlers, so it is the same action; one whose payload cannot be fetched is
`InputRefused`. The host's `store_write` at offset 0 is taken to replace the value
at a path, as `write_store` is used; the host is not part of the repository. Left
out: raw input statistics, last input payload and last result, which no transition
reads. (The note payload's chunking is in `Delivery`.)

### Operator

A submission is a record in `file`, its JSON file. `task` gives each thread its
position and its own copy of a submission; `lock` is `advance_lock`. Each effect on L1
(a chunk in `dal`, a message in `inbox`) is a step of its own. `persist_submission` is
three: `CreateTmp` makes or empties the submission's `.tmp` file, `WriteTmp` writes the
body, the third renames it. Its name depends on the submission only, so two threads
share it: `fd` says of each thread whether the file it opened is still the tmp file, was
renamed meanwhile by the other, or was replaced. A body written over another one may
leave the end of the longer one (`Torn`), a rename finds no file, and `Empty` or `Torn`
may become the submission's file, which `load_stored_submission` refuses (`Readable`).
Crashes come between any two steps, and every call may fail: before its effect, or
after it when `octez-client` reports an error for an operation that left. `Crash` loses
every thread and the lock, and restarts the process with any chunk size, with or
without its nodes. `config.dal_node_endpoint` stands for both node endpoints.

A chunk record names its publication in `dal` (the code: level and slot index).
A publication's status is settled when the DAL node is first asked after
attestation, and never changes again; "stale" is a publication that waits and is
`MAX_WAITING_ATTESTATION_LEVEL_AGE` levels old. `Attested` is set only between
two statements and never stored, so it is not a state.

`submit_rollup_message` keeps the lock's guard in the HTTP handler and the work
in a blocking task. `Disconnect` is the server dropping the handler when its
client goes away: the lock is free and the task runs on. Then two threads work on one
submission.

A pointer is encoded before it is injected, and the encoding takes only so many chunks
(`encodes`, `MaxPointers`). Nothing limits their number when a payload is accepted, so
`CannotPoint` is an error that comes back in every pass: the status stays
`CommitmentIncluded`. Neither such a submission nor one whose file is torn ever ends
(`Stuck`), and `Terminates` says that nothing else keeps one from ending. Abstracted to
accept or refuse: bearer authentication, and the checks of the payload, which do not touch
a submission's state and are in `Submission`.

### Wire, DalPayload, Submission, Delivery

A string of bytes is a sequence of tokens, one per fixed-width item: boundaries and
length prefixes are kept, widths are not. Every message and result is a list of field
types in the order of the wire, and one encoder and one decoder interpret it, as the
code's derived encodings do. An encoder checks the limits that the decoder checks
(`Encodable`): `SubmissionAssumption` says of every message that it passed them.
`DalPayload` cuts a payload by the operator's chunk size and reads it by the kernel's
pages, with every check of `fetch_kernel_message_from_dal`; the pointer itself is
encoded as the operator posts it and decoded as the kernel does (`pointer_to_wire`,
`pointer_from_wire`, with its hash as one token). `MAX_DAL_CHUNK_POINTERS` is the limit
of the list twice: on its items, and, as `dynamic` limits are, on its encoded bytes. The
second is the smaller one (256 bytes are 15 pointers of 17), so `MaxChunks` counts
tokens, three per pointer. `Submission` adds the operator's checks, the fee note's
detection, decryption, amount and commitment included.

`Delivery` puts them together. A publisher posts a message, or bytes that differ
from it by up to two edits, with the operator's pointer or one that does not fit;
`Deliver` is the kernel's reading. Whether the ledger accepts a message is left
open: that is `Kernel`'s subject. Notes are stored whole or in chunks
(`write_note_payload`). A watch sync reads the tree's size once and then each note
and each chunk in a request of its own, several at a time, always at the head;
`Reorg` moves the head to a branch without the last notes. Records and cursor are
written in one rename. `ViewedReal` speaks of commitment and encryption apart, since the
chunks of two branches can make a note that is on neither (`MCDelivery` has outputs
whose commitment is not their encryption's). `DeliveredOrNone` is what the hash in the
pointer gives, whoever made the pointer; `DeliveredExact`, that an honest publication
is read if it is no longer than the kernel's limit and its list of chunks no longer than
the encoding's (`Carried`), and not otherwise.

### XmssBds, Wots, WalletKeys

`XmssBds` runs `from_index` and `advance` at the real depth of 16: one behaviour
uses all 65536 keys from the first, another starts from a state rebuilt at 1000.
Nodes of the true tree are named by height and position, so a wrong node is any
other value. `SubtreeAssumption` states the recursion of `xmss_subtree_root`, which
builds whole trees, as a fact TLC evaluates for every subtree, since a recursive
definition of 2^16 leaves is out of its reach.

`Wots` gives what a set of signatures of one key verifies for (`Covers`): in every
chain the lowest value revealed. `WalletKeys` says which signatures leave the
wallet. Each command is a process that creates the lock, or judges it stale,
removes it and creates its own; loads; reserves; saves the wallet file and then the
floor file; posts the witness; polls; saves again. Every one of these is a step,
any of them may be the last (`Crash`), a save may fail with the file replaced or
not, and the user may put an older wallet file back at any time (the floor file
stays). `sync --watch` holds the lock through one pass after the other.

`stolen` becomes true when a process removes a lock that is not the one it judged
stale. The code does not exclude this: `wallet_lock_race` checks `OneHolder` without any
condition and finds two commands past the lock. Two processes with the same copy of the
wallet may then sign with the same keys, so `OnlySignedVerify` and `ExposedBelowFloor`
are about behaviours where it has not happened; the flag is never reset, so the state
constraint `UntilStolen` of `wallet_keys` cuts off only what they do not speak of.
`CommandsEnd` is checked up to that point.

### Wallet

One command at a time over the wallet file, with the rollup or the demo ledger as the
chain. A waiting command is its program counter and the file, since every save leaves
memory and file equal; what it keeps besides is in `job`: the pinned head of a sync, the
transaction of a spend. Sends, deposits and notes from others arrive at any time and in
any order, or never. The user copies the file at any time, also between the saves of a
running command, and puts the copy back between commands. `early` is the inputs of the
spend that ran when the copy was made: its key moves are saved before its record, so
such a copy may pass the floor and not know of the spend. `lost` records that the file
in use lacks a submitted spend, because a command ended between submitting and recording
it or because such a copy was put back; `conflict`, that the chain refused a spend of a
spent note. A copy made between the two saves of a deposit lacks the pool's entry and
its nonce. The pool is still found, since `recover-deposits`, taken to be given the
file's counters as its maxima, searches nonces up to the maximum inclusively:
`PoolsRecoverable` says that every live pool is below the file's address counter and not
above its nonce. Proofs are there or the command ends: the `--trust-me-bro` mode of the
demo ledger, and `ensure_path_matches_root`'s second look at the demo ledger's root, are
left out. The network profile must exist and be consistent before a rollup command
starts; its change during a command comes after it, because a command reads it first. A
reorganisation of L1 is not in this module.

### History

Properties that need the past use history variables: `deposited`, `burned`,
`shields`, `claims` (what the accepted unshields' proofs claim), `level_fees`,
`anchors` (the domain and bridge in force when a deposit was credited), `exposed`
(per key, the messages whose signatures left a process), `stolen`, `early`, `lost`,
`conflict`, `public` (addresses and pools shown to others), `published` and
`reorged` (notes any branch stored).

## Runs

| Run | Shows | Bounds |
|---|---|---|
| `ledger` | value conservation, signed withdrawals, shield-once, recoverable notes, root window, append-only | 2 pools, commitments worth 1 and 2, 2 domains, 2 recipients, 2 inputs, at most 7 coins deposited, u64 limit 5, 7 leaves, window of 3 roots |
| `ledger_roots` | violation: the ledger drops its oldest root | window of 2 roots |
| `commitment_tree` | frontier, rebuilt tree and circuit agree with the complete tree; a path proves one index; no append fails before the tree is full | depth 3, all 511 sequences of up to 8 leaves over 2 commitments |
| `kernel` | store consistency, outbox, deposits anchored, fee schedule; each message is a `Ledger` step or none, whatever program its proof is of | 1 pool, commitments worth 0 and 2, 2 levels, depth 3, 8 coins, base 1 transaction per level and one doubling |
| `operator` | deliverable pointers, resumable files, no duplicate without a failure, final statuses, termination except with too many chunks | one submission, payload of 3 with chunks of 1 or 2, pointers of 2 chunks, 2 attempts per chunk, 1 failure or crash, with and without nodes |
| `operator_disconnect` | honest statuses; termination, although the client left and two threads work on the submission, unless its file is torn | a DAL submission of 1 chunk whose client may leave and a direct one, 1 attempt, 1 failure or crash, with and without nodes |
| `operator_terminal` | violation: a terminal status is overwritten | one submission of 1 chunk whose client may leave, no other failure |
| `xmss_bds` | every key's path is accepted by the circuit, no node is ever missing | depth 16 and K = 2 as in the code; from index 0 and rebuilt at 1000 |
| `wallet_keys` | signatures cover nothing else, exposed keys below the floor, commands end | 3 commands, 2 at once, 2 addresses of 2 keys, 2 messages of 2 base-4 digits, 2 polls |
| `wallet_lock_race` | violation: two commands hold the lock | as `wallet_keys` |
| `wallet` | no note lost, exact sync, refusals only after a lost record, pools recoverable | 2 first notes, 3 events (transactions, notes from others, deposits, addresses), one copy of the file, 3 addresses, 2 deposit nonces, batches of 2 |
| `delivery` | unique encodings, exact delivery, exact and real records, the watch wallet catches up | 7 messages of all kinds, 2 edits, chunks of 5, 6 and 8 in slots of 8 with pages of 4, pointers of up to 4 chunks, 3 notes, 2 requests at once, 1 reorganisation or failure |

Why they suffice: the u64 limit is below the deposit bound, so credits and debits meet
it; the tree fills up, so capacity checks refuse; the root window overflows; two inputs
allow duplicates; two private transactions in a level cross the fee threshold; drained
pools are refilled; both orders of the two configurations occur, with deposits between
them. In the operator's runs a submission begun with one chunk size is continued with
another, both chunks are retried in one pass and one of them fails, attempts run out,
and a crash or a failure falls between any steps; a payload cut by 1 has too many chunks
for a pointer, one cut by 2 has not, nor one cut by both. In `operator_disconnect` a
file is torn or emptied. Pools and recipients are interchangeable, so `ledger` uses them
as a symmetry. In `wallet_keys` an address runs out of keys, a lock is recovered by two
processes, and a backup is put back between any two steps; the two sighashes differ in
both directions, so that one key's two signatures would cover more than they sign. In
`wallet` batches end inside and at the head, a pool is drained and refilled, and the
restored copy is behind in addresses, keys, notes or deposits, and was made before,
between or after the saves of a command. In `delivery` some messages have more chunks
than a pointer lists; chunks end inside a page, at its end and at the slot's end; one
message is as long as `MaxDalPayload` and another one token longer; tags of notes for
one address fit another. The bounds that only keep the state finite are `MaxDeposited`,
`MaxLevel`, `MaxFaults`, `MaxActive`, `MaxEvents`, `MaxAddr`, `MaxNonce`, `MaxNotes` and
`MaxEdits`. `CHECK_DEADLOCK FALSE` in the ledger, tree and kernel runs: a full ledger
with nothing left to deposit or spend has no more steps; likewise in `xmss_bds` once the
keys are used up and in `wallet_keys` when the commands have ended. The reconciler never
stops, so the operator's runs check deadlock, and so do `wallet` and `delivery`, where a
new command can always start. Each property is falsified by a mutant of a definition it
depends on (`PROJECT.json`).

Fairness is assumed where the program itself runs on: nothing in the ledger or the
kernel has to happen, since messages come from outside.

- `Operator`: a task that runs goes on (`WF` of `process_submission`: the runtime
  schedules its blocking threads), the ticker ticks and its pass goes on (`WF` of
  `reconcile_loop`), and L1 bakes blocks (`WF` of `Bake`). Nothing is assumed of
  clients, of attestations or of the answers to calls; failures are finite because
  the bound on them is. That the calls return at all is an assumption on `octez-client`
  and the two nodes: the code sets no timeout on them, and one that hangs stops the
  reconciler. `Terminates` is stated while the operator has its nodes: without them a
  submission waits by design.
- `WalletKeys`: a running process takes its steps (`WF` of each one's `Step`), except
  where it waits for a call without a timeout (`Unanswered`): reads of the rollup node,
  the submission, `octez-client` and the local prover. There it may stay forever, and
  `CommandsEnd` lets it. The calls of the proving service have a timeout. What the
  answers are is free.
- `Delivery`: the detection service syncs on a timer, also after an error (`WF` of
  `SyncStep`). The read of the tree's size has no timeout, so it is assumed that the
  node answers it, or fails. `WatchCatchesUp` assumes that no crash left an empty lock file, which
  would stop the service for good (see the hazards), and that notes stop coming,
  which `MaxNotes` makes so.

`ledger_roots` records a disagreement: `cairo/src/merkle.cairo` says that old
roots remain valid forever and the specification calls them append-only, while
`record_valid_root_with_limit` drops the oldest beyond `MAX_VALID_ROOTS`. The
kernel keeps all of them, which is why the refinement instantiates `Ledger` with
a window that is never full.

`operator_terminal` records another: the wallet calls `SubmittedToL1` and
`Failed` terminal (`apps/wallet/src/lib.rs`, `wait_for_operator_terminal`), but a
request whose client left can write `CommitmentIncluded` over the reconciler's
`SubmittedToL1`, after which the pointer is injected again. `operator` shows that
this takes a client that leaves; `operator_disconnect`, that the submission still
ends, if its file is not torn; and that its pointer is deliverable also then is proved.

A client that leaves has another effect: the request and the reconciler persist one
submission through one tmp file, and an empty or torn one may be renamed over the
submission, payload included. `operator_disconnect` reaches such files; a submission
that has one never ends, which `Terminates` allows for (`Stuck`), and `Resumable` is
claimed and proved only while clients wait for their answers.

`wallet_lock_race` shows the wallet's lock given to two commands. Both find the lock of
a process that is gone; the first removes it and creates its own, the second removes
that. `test_wallet_lock_rejects_concurrent_access` says that the second one is refused.

## Proofs

Each holds for every value of the constants that satisfies the named `ASSUME`s of the
modules (`CircuitsAssumption`, `CapacityAssumption`, `LedgerAssumption`,
`TreeAssumption`, `KernelAssumption`, `WotsAssumption`, `KeysAssumption`,
`OperatorAssumption`, `WalletAssumption`, `WireAssumption`, `DalAssumption`,
`SubmissionAssumption`, `DeliveryAssumption`, `OutputsAssumption`): finite pools and
commitments, values within u64, positive minimum fee, input limit and window, an empty
leaf that is no commitment, a checksum that fits its digits, slots of whole pages,
messages their encoder takes, model values that are not mistaken for data. TLC evaluates
them in the runs. The bounds on state are among the constants (`MaxFaults`,
`MaxDeposited`, `MaxLevel`), so the theorems hold for each of them.

| Module | Theorems |
|---|---|
| `LedgerProofs` | `ValueConserved`, `WithdrawalsSigned`, `ShieldsOnce`, `NotesAreRecoverable`, `RootsWindowed`, `LedgerAppendOnly` |
| `CommitmentTreeProofs` | `TreesAgree`, `WitnessesVerify`, `PathsAreSound`, `AppendsSucceed` |
| `KernelProofs` | `TreeIsReadable`, `LogsMatch`, `OutboxMatches`, `DepositsStayAnchored`, `FeesFollowSchedule`, `ImplementsTheLedger`, `KernelKeepsLedger`, `OnlyTheCircuit`, `SameVerdict` |
| `OperatorProofs` | `PointersAreDeliverable`, `SubmittedWasInjected`, `FilesAreResumable`, `OnlyFaultsDuplicate`, `TerminalStaysFinal` |
| `WalletKeysProofs` | `OneTimeSignature`, `UsedKeysAreBelowFloor`, `KeysAreOneTime` |
| `WalletProofs` | `WalletTypes`, `NotesAreKept`, `PoolsAreRecoverable`, `RefusalsFollowLoss`, `SyncIsExact` |
| `DeliveryProofs` | `CommitmentsBind`, `NoteReachesOwner`, `MemoHashBinds`, `SighashBinds`, `WatchIsExact`, `ViewedIsReal`, `KernelReadsPublished`, `EncodingIsUnique`, `DeliveryIsExact` |

### Induction over data

The library's induction principles take an operator as a parameter and cannot be used.
`Induction` states induction for sets instead: a set that has 0, and the successor of
each number it has, has every number. `SetInduction` proves this from the
cardinality theorems (adding 1 would otherwise be an injection of a finite set into a
smaller one); `UpTo` and `DownFrom` are its bounded forms. So every recursion the
proofs meet is written as a recursive function (`Pow2`, `Positions`, the frontier's
climb, the levels of the tree, chains and checksums, `Published`, `retry_indices`),
and each such function has two lemmas: one that the function exists, by induction on
its domain, one that it satisfies its equation. Everything else about it follows by
induction over the set of the indices where the claim holds.

### Ledger

The inductive invariant `IndInv` is `TypeOK /\ Safe /\ Conservation`. `Safe` adds
to the properties what they need of each other: nullifiers name leaves of the
tree (otherwise the value of a spent note is undefined), no accepted root is
ahead of the tree (so an opening under it names existing leaves), and the replay
set is exactly the set of applied shields. The argument per action:

1. the guards force the request to be the proof's own (`bound`), made here, and
   its root to be one the tree had, so the circuit's balance equation speaks of
   leaves in the tree (`ShieldCase`, `TransferCase`, `UnshieldCase`);
2. the listed nullifiers are distinct and unspent, so `sum_in` is the value that
   leaves the unspent notes (`SpentValue`);
3. the appended notes add exactly the outputs' values (`UnspentValue`);
4. arithmetic closes `Conservation`.

That no two withdrawals share a note follows from the nullifiers: the notes of a claim
are in the set of spent ones, and those of a new claim are not.

Its lemmas on `Total` are the sum over disjoint domains, of a one-point update, of an
appended element, and of an injective listing.

### Commitment tree

`Complete(ls)` is the complete tree over the leaves and zeros. The invariant is that
the root is its root and `Frontier(ls, b)`: at every level where the next leaf is
under a right child, the stored branch is the left sibling. `RootsAgree` alone is not
inductive, since an append reads branches and not leaves. An append climbs from the new leaf:
as long as it is a right child the branch completes a full subtree, at the first left
child the branch is replaced, and above it every branch stays right because no
position changes there. The paths are the same argument downwards, and `PathsAreSound`
uses that the hash is injective and that an index beyond the tree would need one more level.

### Kernel

`KernelInv` is the conjunction of the tree's invariant (from `CommitmentTreeProofs`, as
an instance over the store's paths), of a log that lists each marker once (`LogOK`, for
roots and nullifiers), of accepted roots that are roots of prefixes of the leaves, of
outbox and queue in step, of a configuration that no deposit precedes, and of a fee
counter that is of the current level or stale. A transaction is followed note by
note: `Follows(t, u, cms, enc)` says how the tree `u` comes from `t`, also when an
append fails between two of them.

`ImplementsTheLedger` proves the refinement that `kernel` checks: `Init`
maps to `Init`, and every message to one step of `Ledger` or to none. The mapping
reads the store as an observer does. Roots become numbers of leaves (`Count`): different
prefixes have different roots, so the choice in `LeafCount` is unique, and appending
notes does not change it for older roots (`Abstraction`, which follows from
`KernelInv`, says what each variable of `Ledger` is). Each guard of the kernel then is
the ledger's guard on the mapped values. The hypothesis `SignedDomain \subseteq {Here}`
says that the administrator signs verifier configurations of this deployment only:
`Ledger` accepts proofs of its own domain, and a kernel configured for another one
would, by its administrator's word, accept that one's. `KernelKeepsLedger` carries the
theorems of `LedgerProofs` over: what is proved of the in-memory ledger holds of the store.

`OnlyTheCircuit` and `SameVerdict` are about the verifiers: one made from the kernel's
configuration accepts only STARK proofs of one run of the expected circuit, and the demo
ledger's, separate code, decides the same as long as the executables on its disk
are the ones it hashed at its start.

### Operator

`Inv` says that every copy of a submission that can be read, in its file, in its tmp
file or in a thread, is sound: its chunks name publications on L1 that hold the
payload's ranges in order, they are no more than the payload, and the status is not
ahead of what was done; a copy about to be injected has attested chunks only. The
properties speak of files and inbox, but what is written there comes from copies, which
other threads outrun. What keeps a copy sound is that L1 only grows: publications stay,
their ranges stay, an attestation is final (`Grows`, `SoundGrows`). So a step only has
to care for its own thread (`Preserved`), the lock plays no part, and
`PointersAreDeliverable` and `SubmittedWasInjected` hold also when clients leave and two
threads work on one submission: a torn file is no copy, since nobody can read it.

`FilesAreResumable`, `OnlyFaultsDuplicate` and `TerminalStaysFinal` do need the lock,
and are proved for `MayDisconnect = {}`: a torn file breaks the first, and
`operator_terminal` shows that the last fails otherwise. Their invariant has two parts.
`Exclusive` says that a thread that works has the lock and works on a file that can
still change, that a request that has not begun left no trace, and that a submission is
in the inbox no more often than there were faults, and once more only if it is settled:
its file says so, or a thread is about to write it. Injecting settles; what unsettles is
a crash or a failing write, which is a fault. `Undisturbed` says that the tmp file a
thread is about to rename is the one it wrote, so no file is ever empty or torn.

### Wallet keys

`OneTimeSignature`: a key that signed one message covers that message only. Its core is
`DigitsIncomparable`: if no digit of `s` exceeds that of `m`, the checksum's digits are
ordered the other way, so the sums are equal, and then the digits. In `WalletKeysProofs`
the invariant says of each place of a command what its command, its job, its copy of the
wallet and the lock file are: a holder is named by the lock; a loaded copy is not behind
the floor; the keys of a job were never used and are below the copy's indices; a floor
file is never without a wallet file, which is what lets `init` begin at index 0. The
part on lock and keys, one holder included, holds until a lock is stolen, as the
properties do. `KeysAreOneTime` combines both modules: a step that exposes a signature
does so under a key with none.

### Wallet

`Inv` relates the wallet file, the floor, the user's backup, the running command and
the chain. Its parts:

- `Known`: every address that a note can come to, on the chain or in a transaction
  that has not arrived, is below the floor, and so is the address of every pool that
  holds money or may come to hold some. A file behind the floor does not load, so
  the wallet in use derives the keys for all of them.
- `Content`: a file has every unspent note below its cursor and only notes below it.
  This survives whatever the chain does, because the tree and the spent set only grow.
- `Entries` and `Ready`: deposit entries lie in the grid of address and nonce that
  `recover-deposits` searches; a file that loads has the nonces of all live pools and,
  until the record of a spend is lost, marks every note that a submitted transaction
  takes.
- `JobFits`: what each place of a command relies on, since the chain moves between
  its saves. A deposit or a spend has moved the floor past every copy made before it
  when it shows a pool or submits: from then on such a copy does not load, which is
  why a restored file may lack what happened since, and `Fits` is asked of the backup
  as well as of the file. A copy made in between does load; it may lack the spend
  whose inputs `early` has, and for a deposit the nonce, by one. A sync keeps its
  pinned head's spent notes within the chain's.
- `Disjoint`: until a record is lost no two transactions take the same note.

`NotesAreKept`, `PoolsAreRecoverable` and `RefusalsFollowLoss` follow from the
invariant in a state, `SyncIsExact` from the clause of the pinned head at the step that
ends a sync. `NotesKept` alone is not inductive: a transaction on its way, or a pool
that was only shown to somebody, becomes a note or a balance later, in a step in which
the wallet has no part.

### Delivery

`DeliveryInv` has three parts. Every note at the head was published at its index with
its commitment and its encryption (`NotesInv`). A running sync has asked for the first
`next` offsets and, for each, has the answer or waits for it, no more than
`Concurrency` at a time, and when nothing is in flight everything was asked
(`Asked`); every byte it read is one of a note published at that index (`Piece`) and,
before any reorganisation, one of the head's (`OfHead`). The file's records are real,
and without a reorganisation they are those of the notes below the cursor, once each
(`WatchInv`). The argument needs that reading chunk by chunk puts together what
`write_note_payload` took apart (`ReadBack`, `ReadOn`), that answers put in order of
their offsets are the feed whatever order they came in, and, by induction over the
feed, that `apply_watch_feed` adds the records of the new notes only.

`ViewedIsReal` is what is left when the head moves during a sync: the commitment and
the encryption of a record were both stored at its index, perhaps on different
branches. That both come from one note cannot be proved, because it is false: the first
chunk of one branch and the rest of another can open to a note that neither has.

`KernelReadsPublished` needs of a publication only that the pointer carries the hash
of the published bytes (`PendingInv`). No claim about chunks, lengths, slots or
attestation is needed: whatever the kernel put together, it compares the hash.

`EncodingIsUnique` rests on lemmas about every string of bytes, not only edited messages.
Each type of field has two lemmas in one (`AnyField`): what its encoder writes, its
decoder takes off the front of any string, and leaves the rest; and what its decoder
takes is what the encoder writes for the value it returns. Induction over the list of
fields (`FieldsTaken`, `FieldsAre`) carries both to a whole message or result, the
envelope and the wrapped payloads included (`MessageReadsBack`, `MessageIs`,
`ResultReadsBack`, `ResultIs`). Where it could fail is where two readings meet: an
optional field whose tag is neither value, a list whose length prefix does not end at
its last item, a payload inside a payload with bytes left over.

`DeliveryIsExact` follows a payload through its slots. The ends of the chunks are the
multiples of the chunk size and then the payload's length (`UptoIs`); pieces cut at
increasing ends join to what was cut (`PiecesJoin`), which is used twice, for the
chunks of the payload and for the pages of a slot; and the pages that cover a chunk
end within the slot, since a slot is made of whole pages (`PagesFit`), with zeros
after the chunk (`ChunkFetched`). So the kernel gets the payload, its declared lengths
add up (`PointerIs`), and with `MessageReadsBack`, used for the pointer and again for
the payload, the message: up to `MaxDalPayload`, for the kinds a pointer can name, and
for as many chunks as its list can hold. What the operator accepts pays it because a
viewing key opens the notes of its own address only (`OpensFor`) and the commitment
then fixes the note (`FeeNotePays`).

### Notes, sighashes

These justify what `Circuits`, `Ledger` and `Kernel` take for granted:

- `CommitmentsBind`: equal commitments have equal value, seed and owner; equal
  nullifiers are of one commitment, position and key. So a note may be named by
  its commitment and a nullifier by its leaf.
- `NoteReachesOwner`: key derivation, encryption, detection and recovery fit
  together for the owner, the holder of the detection root and the sender, and for
  no other address's viewing key. It unfolds the derivations; that no two
  personalisations give one key is where it could fail.
- `MemoHashBinds`: six byte strings put together without lengths determine an
  encrypted note, because `EncryptedNote::validate` fixes the lengths. Lemma `Cut`
  splits equal concatenations at equal lengths.
- `SighashBinds`: the nullifier list of a sighash has no length, but everything
  around it has, so equal sighashes have lists of equal length, and then equal
  fields, type and domain.

### Only model-checked

Liveness (`Terminates`, `CommandsEnd`, `WatchCatchesUp`), which is out of the provers'
reach; and all of `XmssBds`, which TLC checks at its real size and whose general claim
is a scheduling argument over sums of powers of two.

## Plan

1. *Done.* `Circuits`, `Transitions`, `Ledger` and their proofs.
2. *Done.* `Merkle`, `CommitmentTree`, `Kernel` and the refinement.
3. *Done.* `Operator`: submissions, crashes, retries, and liveness.
4. *Done.* `XmssBds`, `Wots`, `WalletKeys`: one-time keys from the tree to the lock
   file.
5. *Done.* `Wallet`: cursor, batches, pending spends and deposits.
6. *Done.* `Wire`, `DalPayload`, `Submission`, `Delivery`: encodings, DAL fetch, the
   operator's checks and the watch wallets.
7. *Done.* `Notes`, `Sighash`, `ProofCheck` and their proofs.
8. *Done.* Theorems on the tree, the kernel with its refinement, the operator, one-time
   signatures and the wallet's keys.
9. *Done.* Theorems on `Wallet` and on `Delivery`: encodings, DAL payloads, pointers and
   watch wallets.
10. A composition of wallet, operator and kernel: at-least-once delivery, at most one
   effect. Each side is checked alone: the operator may inject twice, the kernel
   refuses the second, the wallet keeps its inputs reserved.

## Not modelled

- The computation of hashes, ML-KEM, the cipher, STARK proving and verification: taken
  at their specification.
- Widths of wire items and the JSON files' syntax; HTTP and RPC plumbing beyond answer,
  error and timeout.
- Commands that only print or export, the proving service itself, the demo app, the
  OCaml port, the generators of test vectors and fixtures, build and deployment scripts.
- What the code has no answer to, and the models therefore claim nothing about: what
  happens to keys after two commands got past a stolen lock, an empty lock file after a
  crash, calls that are never answered, the inputs of a refused spend, which stay
  reserved, and a wallet cursor taken from a block that a reorganisation drops.
- Situations that reading the code turned up and that no property is about: a profile
  replaced by one of another rollup keeps the wallet's cursor (`run_user_profile`);
  `recover-deposits` derives addresses without moving the cursor back; only the last
  shield's commitment of a pool is compared when its entry is pruned, although the
  comment in `cmd_shield_rollup` says any prior one is; watch keys cover the addresses
  of their export; `watch sync --watch` ends at its first error; the operator publishes
  payloads longer than the kernel's `MAX_DAL_PAYLOAD_BYTES`, which the kernel refuses;
  without an octez node a restarted operator waits forever for a publication that is
  never attested.
