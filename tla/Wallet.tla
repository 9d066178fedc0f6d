-------------------------------- MODULE Wallet --------------------------------
(***************************************************************************)
(* The wallet's commands against the chain (apps/wallet/src/lib.rs): sync, *)
(* transfer, unshield, shield, deposit, recover-deposits and address on    *)
(* the rollup; scan, transfer and unshield on the demo ledger              *)
(* (apps/ledger/src/main.rs).                                              *)
(*                                                                         *)
(* One command runs at a time (WalletKeys shows what the lock is worth).   *)
(* It works on the wallet in memory and saves it several times; in between *)
(* it talks to the network, so the chain moves on, and it can fail or      *)
(* crash.  After each successful save memory and file agree, so a command  *)
(* that is waiting is its program counter and the file.                    *)
(***************************************************************************)
EXTENDS Integers, Sequences, FiniteSetsExt

CONSTANTS
  Fee,             \* required_tx_fee
  DalFee,          \* the producer's fee
  Amount,          \* what a transfer, an unshield or a partial shield is for
  Ticket,          \* what an L1 ticket carries
  FirstNotes,      \* the values of the notes the wallet owns at first
  CheckpointEvery, \* commitments per saved batch of a sync
  MaxEvents,       \* bound: transactions, notes from others, deposits, tickets
                   \* and addresses of a run, together
  MaxAddr, MaxNonce  \* bounds on addr_counter and deposit_nonce

ASSUME WalletAssumption ==
  /\ Fee \in Nat /\ DalFee \in Nat \ {0} /\ Amount \in Nat /\ Ticket \in Nat
  /\ CheckpointEvery \in Nat \ {0}
  /\ MaxEvents \in Nat /\ MaxAddr \in Nat /\ MaxNonce \in Nat
  /\ FirstNotes \in Seq(Nat)

Addr == 0..(MaxAddr - 1)
Other == -1                                 \* an address of somebody else

\* A pool's key: H(auth_domain, auth tree of an address, blind of a nonce).
Pool == Addr \X (0..(MaxNonce - 1))
NoPool == <<Other, 0>>

\* A published note: its owner, its value, and its commitment, which is told apart
\* only for the recipient note of a shield (the number of the transaction).
Leaf(to, v, cm) == [to |-> to, v |-> v, cm |-> cm]
NoCm == 0

\* A message to the kernel.  A transfer or unshield names its inputs by their tree
\* positions, which stand for their nullifiers; a shield draws from a pool.
Tx(id, inputs, pool, draw, outputs) ==
  [id |-> id, inputs |-> inputs, pool |-> pool, draw |-> draw, outputs |-> outputs]
NoTx == Tx(0, {}, NoPool, 0, <<>>)

\* WalletNetworkProfile, to what the commands tell apart: the producer's fee, and
\* whether an operator and a token for it are named.
WalletNetworkProfile == [dal_fee : {0, DalFee}, operator_url : BOOLEAN, token : BOOLEAN]
NoProfile == [dal_fee |-> 0, operator_url |-> FALSE, token |-> FALSE]

VARIABLES
  net,       \* "rollup" or "ledger"
  profile,   \* the network profile file
  tree,      \* published notes
  spent,     \* positions whose nullifiers are recorded
  balance,   \* per pool
  inbox,     \* messages on their way to the kernel
  tickets,   \* pools with an L1 ticket on its way
  file,      \* the wallet file
  floor,     \* the floor file: addr_counter and keys used
  backup,    \* the user's copy of the wallet file
  early,     \* the inputs of the spend that was running when the copy was made
  job,       \* the running command
  events,    \* events so far (bound)
  public,    \* addresses and pools that were shown to others
  lost,      \* is the record of a submitted spend missing from the file?
  conflict   \* was a spend refused because its input is spent?

chain == <<tree, spent, balance>>
outside == <<inbox, tickets>>
ghosts == <<lost, conflict>>
setup == <<net, profile>>
vars == <<net, profile, tree, spent, balance, inbox, tickets, file, floor, backup, early,
          job, events, public, lost, conflict>>

\* WalletFile.  addr: addr_counter; keys: one-time keys used; notes: tree
\* positions; pending: the nullifiers of each PendingSpend; deposits: pool and
\* shielded_cm of each PendingDeposit; nonce: deposit_nonce.
FirstWallet ==
  [addr |-> 1, keys |-> 0, notes |-> {}, scanned |-> 0, pending |-> {},
   deposits |-> {}, nonce |-> 0]
NoWallet == [FirstWallet EXCEPT !.addr = -1]

wallet_xmss_floor(w) == [addr |-> w.addr, keys |-> w.keys]

\* What a running command keeps besides the wallet: the pinned head of a sync
\* and where it started, the transaction of a spend, the pool of a deposit.
PinnedHead == [size |-> Len(tree), spent |-> spent, balance |-> balance]
NoHead == [size |-> 0, spent |-> {}, balance |-> [p \in Pool |-> 0]]
Idle == [pc |-> "idle", pin |-> NoHead, from |-> 0, tx |-> NoTx, pool |-> NoPool]

Init ==
  /\ net \in {"rollup", "ledger"} /\ profile = NoProfile
  /\ tree = [i \in DOMAIN FirstNotes |-> Leaf(0, FirstNotes[i], NoCm)]
  /\ spent = {} /\ balance = [p \in Pool |-> 0]
  /\ inbox = {} /\ tickets = {}
  /\ file = FirstWallet /\ floor = wallet_xmss_floor(FirstWallet)
  /\ backup = NoWallet /\ early = {}
  /\ job = Idle
  /\ events = 0
  /\ public = [addresses |-> {0}, pools |-> {}]
  /\ lost = FALSE /\ conflict = FALSE

Event == events < MaxEvents /\ events' = events + 1

-----------------------------------------------------------------------------
(***************************************************************************)
(* The chain (external: Kernel and Ledger model it).                       *)
(***************************************************************************)
\* A transaction is applied whole or refused.
Applicable(t) ==
  /\ t.inputs \cap spent = {}
  /\ t.pool # NoPool => balance[t.pool] >= t.draw

Apply(t) ==
  IF Applicable(t)
  THEN /\ tree' = tree \o t.outputs
       /\ spent' = spent \cup t.inputs
       /\ balance' = [p \in Pool |-> balance[p] - IF p = t.pool THEN t.draw ELSE 0]
       /\ UNCHANGED conflict
  ELSE /\ conflict' = (conflict \/ t.inputs \cap spent # {})
       /\ UNCHANGED chain

\* The rollup takes messages in any order; some never arrive, or pay a fee that
\* is too low by then.
Deliver(t) ==
  /\ inbox' = inbox \ {t}
  /\ Apply(t) \/ UNCHANGED <<chain, conflict>>
  /\ UNCHANGED <<setup, tickets, file, floor, backup, early, job, events, public, lost>>

\* A ticket reaches the kernel, or its L1 operation is lost.
TicketArrives(p) ==
  /\ tickets' = tickets \ {p}
  /\ balance' = [balance EXCEPT ![p] = @ + Ticket] \/ UNCHANGED balance
  /\ UNCHANGED <<setup, tree, spent, inbox, file, floor, backup, early, job, events, public,
                 ghosts>>

\* Somebody sends a note to an address, or a ticket to a pool, that was shown.
Gift(a) ==
  /\ Event
  /\ tree' = Append(tree, Leaf(a, Amount + Fee, NoCm))
  /\ UNCHANGED <<setup, spent, balance, inbox, tickets, file, floor, backup, early, job,
                 public, ghosts>>

TopUp(p) ==
  /\ Event /\ p \notin tickets
  /\ tickets' = tickets \cup {p}
  /\ UNCHANGED <<setup, chain, inbox, file, floor, backup, early, job, public, ghosts>>

Chain ==
  \/ \E t \in inbox : Deliver(t)
  \/ \E p \in tickets : TicketArrives(p)
  \/ \E a \in public.addresses : Gift(a)
  \/ \E p \in public.pools : TopUp(p)

-----------------------------------------------------------------------------
(***************************************************************************)
(* Starting, saving and ending a command.                                  *)
(***************************************************************************)
\* Mutant: a file with fewer addresses than the floor loads.
load_wallet_keys == file.keys >= floor.keys
\* load_wallet refuses a file that is behind the floor.
load_wallet == file.addr >= floor.addr /\ file.keys >= floor.keys

validate_network_profile(p) == p.dal_fee # 0 /\ p.operator_url = p.token

\* profile init-shadownet, also --force over an earlier one.  A running command has
\* read its profile already: for it a change comes after it.
run_user_profile ==
  /\ job.pc = "idle" /\ net = "rollup"
  /\ profile' \in {p \in WalletNetworkProfile : validate_network_profile(p)}
  /\ UNCHANGED <<net, chain, outside, file, floor, backup, early, job, events, public, ghosts>>

load_required_network_profile == profile # NoProfile /\ validate_network_profile(profile)

Start(n) ==
  /\ job.pc = "idle" /\ net = n /\ load_wallet
  /\ n = "rollup" => load_required_network_profile

Becomes(pc) == [job EXCEPT !.pc = pc]

\* save_wallet: both files are written and the command goes on; or a write fails
\* and it ends with an error.
save_wallet(w, next) ==
  \/ file' = w /\ floor' = wallet_xmss_floor(w) /\ job' = next
  \/ file' = w /\ UNCHANGED floor /\ job' = Idle
  \/ UNCHANGED <<file, floor>> /\ job' = Idle

\* A command fails on an HTTP error, a refusal, a missing note, or is killed.  If
\* it had submitted a spend, the record of it is lost.
CommandEnds ==
  /\ job.pc # "idle"
  /\ job' = Idle
  /\ lost' = (lost \/ (job.pc \in {"wait", "record"} /\ job.tx.inputs # {}))
  /\ UNCHANGED <<setup, chain, outside, file, floor, backup, early, events, public, conflict>>

\* The user copies the file, once (bound), at any time, also while a command runs, which has
\* perhaps not saved all it will.
BackUp ==
  /\ backup = NoWallet
  /\ backup' = file
  /\ early' = IF job.pc \in {"prove", "wait", "record"} THEN job.tx.inputs ELSE {}
  /\ UNCHANGED <<setup, chain, outside, file, floor, job, events, public, ghosts>>

\* The copy is put back between two commands.  (A command that runs works in memory:
\* its next save writes over the copy; if it makes none, the copy might as well have
\* come after it.)  A copy made during a spend, if it loads, has no record of it.
Restore ==
  /\ job.pc = "idle" /\ backup # NoWallet
  /\ file' = backup /\ UNCHANGED floor
  /\ lost' = (lost \/ (early # {} /\ load_wallet'))
  /\ UNCHANGED <<setup, chain, outside, backup, early, job, events, public, conflict>>

-----------------------------------------------------------------------------
(***************************************************************************)
(* Scanning.                                                               *)
(***************************************************************************)
\* The note at a position belongs to one of the wallet's addresses: its detection
\* key matches, it decrypts, and the commitment opens.
try_recover_note(w, i) == tree[i].to \in 0..(w.addr - 1)

Cms(positions) == {tree[i].cm : i \in positions} \ {NoCm}

\* The notes after a cursor up to end, all of them and in order (module Delivery),
\* or an error, which ends the command.
fetch(cursor, end) == (cursor + 1)..end

\* Mutant: the cursor runs one ahead of the notes.
recover_batch_ahead(w, end) ==
  [w EXCEPT !.notes = @ \cup {i \in fetch(w.scanned, end - 1) : try_recover_note(w, i)},
            !.scanned = end]
\* apply_scan_feed_recover_batch for the positions up to end.
recover_batch(w, end) ==
  [w EXCEPT !.notes = @ \cup {i \in fetch(w.scanned, end) : try_recover_note(w, i)},
            !.scanned = end]

\* Mutant: spent notes stay.
finalize_keeps(w, cms, head) ==
  [w EXCEPT !.pending = {p \in @ : ~ p \subseteq head.spent},
            !.deposits = {d \in @ : ~ (head.balance[d.pool] = 0 /\ d.cm \in cms \cup Cms(w.notes))}]
\* apply_scan_feed_finalize: spent notes, confirmed spends, and pools that are
\* empty and whose shield was seen, are dropped.
finalize(w, cms, head) ==
  [w EXCEPT !.notes = @ \ head.spent,
            !.pending = {p \in @ : ~ p \subseteq head.spent},
            !.deposits = {d \in @ : ~ (head.balance[d.pool] = 0 /\ d.cm \in cms \cup Cms(w.notes))}]

\* cmd_rollup_sync pins the head: everything it reads is the state of that block.
StartSync ==
  /\ Start("rollup") /\ file.scanned <= Len(tree)
  /\ job' = [Idle EXCEPT !.pc = "sync", !.pin = PinnedHead, !.from = file.scanned]
  /\ UNCHANGED <<setup, chain, outside, file, floor, backup, early, events, public, ghosts>>

\* <wallet>.yield, which a daemon creates and removes at any time: absent, of a
\* process that runs (or not a pid), or of one that is gone.
Sentinel == {"none", "live", "stale"}
is_stale_yield_sentinel(s) == s = "stale"

\* What a sync does after a batch.  A stale sentinel is removed; if that fails the
\* command ends.
AfterCheckpoint(s) ==
  CASE s = "none" -> {Becomes("sync")}
    [] is_stale_yield_sentinel(s) -> {Becomes("sync"), Idle}
    [] OTHER -> {Becomes("yield")}

\* One batch: fetched, recovered, saved; then the sentinel is looked at.
SyncBatch ==
  /\ job.pc = "sync" /\ file.scanned < job.pin.size
  /\ LET end == Min({file.scanned + CheckpointEvery, job.pin.size})
     IN  \E s \in Sentinel : \E next \in AfterCheckpoint(s) :
           save_wallet(recover_batch(file, end), next)
  /\ UNCHANGED <<setup, chain, outside, backup, early, events, public, ghosts>>

SyncFinalize ==
  /\ job.pc = "yield" \/ (job.pc = "sync" /\ file.scanned = job.pin.size)
  /\ save_wallet(finalize(file, Cms(fetch(job.from, file.scanned)), job.pin), Idle)
  /\ UNCHANGED <<setup, chain, outside, backup, early, events, public, ghosts>>

\* The demo ledger's answers; each locks the ledger for itself.
notes_handler == Len(tree)                  \* next_cursor
nullifiers_handler == spent
fetch_pool_balances_http == balance

\* cmd_scan on the ledger reads the notes, then the nullifiers, in two requests.
StartScan ==
  /\ Start("ledger")
  /\ job' = [Idle EXCEPT !.pc = "scan", !.pin.size = notes_handler, !.from = file.scanned]
  /\ UNCHANGED <<setup, chain, outside, file, floor, backup, early, events, public, ghosts>>

apply_scan_feed ==
  /\ job.pc = "scan"
  /\ LET end == Max({job.pin.size, file.scanned})
         head == [spent |-> nullifiers_handler, balance |-> fetch_pool_balances_http]
     IN  save_wallet(finalize(recover_batch(file, end), Cms(fetch(job.from, end)), head), Idle)
  /\ UNCHANGED <<setup, chain, outside, backup, early, events, public, ghosts>>

-----------------------------------------------------------------------------
(***************************************************************************)
(* Spending.                                                               *)
(***************************************************************************)
ValueOf(S) == MapThenSumSet(LAMBDA i : tree[i].v, S)

\* Largest first; a stable sort, and notes are kept in the order of the tree.
Before(i, j) == tree[i].v > tree[j].v \/ (tree[i].v = tree[j].v /\ i <= j)

\* The shortest prefix of the candidates that is worth enough; {} is an error.
Prefix(candidates, need) ==
  LET upto(i) == {j \in candidates : Before(j, i)}
      enough == {i \in candidates : ValueOf(upto(i)) >= need}
  IN  IF enough = {} THEN {}
      ELSE upto(CHOOSE i \in enough : \A j \in enough : Before(i, j))

\* Mutant: notes of pending spends are selected too.
select_notes_all(w, need) == Prefix(w.notes, need)
select_notes(w, need) == Prefix(w.notes \ UNION w.pending, need)

\* What a spend takes from the selected notes.
TotalSpend == Amount + Fee + DalFee
Change(inputs) == ValueOf(inputs) - TotalSpend

\* The published notes, in the order the kernel appends them: a transfer has always
\* a change note, of an unshield it is left out when it is worth nothing.
transfer_outputs(a, change) ==
  <<Leaf(Other, Amount, NoCm), Leaf(a, change, NoCm), Leaf(Other, DalFee, NoCm)>>
unshield_outputs(a, change) ==
  (IF change > 0 THEN <<Leaf(a, change, NoCm)>> ELSE <<>>) \o <<Leaf(Other, DalFee, NoCm)>>

\* The tree at the head, by its size, and whether it has a path to a position.
load_state_snapshot_at_head == Len(tree)
merkle_path(snapshot, i) == i <= snapshot

\* Every input has its path; one key per input is reserved and signs; the wallet is
\* saved before the witness goes to the prover.
persist_wallet_and_make_proof(w, inputs, outputs) ==
  /\ inputs # {} /\ w.addr <= MaxAddr
  /\ \A i \in inputs : merkle_path(load_state_snapshot_at_head, i)
  /\ Event
  /\ save_wallet([w EXCEPT !.keys = @ + Cardinality(inputs)],
                 [Idle EXCEPT !.pc = "prove",
                              !.tx = Tx(events', inputs, NoPool, 0, outputs)])
  /\ UNCHANGED <<setup, chain, outside, backup, early, public, ghosts>>

Transfer ==
  LET inputs == select_notes(file, TotalSpend)
  IN  persist_wallet_and_make_proof([file EXCEPT !.addr = @ + 1], inputs,
                                    transfer_outputs(file.addr, Change(inputs)))

Unshield ==
  LET inputs == select_notes(file, TotalSpend)
      change == Change(inputs)
  IN  persist_wallet_and_make_proof([file EXCEPT !.addr = @ + IF change > 0 THEN 1 ELSE 0],
                                    inputs, unshield_outputs(file.addr, change))

cmd_transfer == Start("ledger") /\ Transfer
cmd_unshield == Start("ledger") /\ Unshield
cmd_transfer_rollup == Start("rollup") /\ Transfer
cmd_unshield_rollup == Start("rollup") /\ Unshield

select_pending_deposit_by_pubkey_hash(w, p) == {d \in w.deposits : d.pool = p}

\* An explicit amount, or all the pool holds, if it covers the fees at the current
\* head; the pool must be tracked.
cmd_shield_rollup(p) ==
  /\ Start("rollup")
  /\ \E v \in {Amount, balance[p] - Fee - DalFee} :
       /\ v >= 0 /\ v + Fee + DalFee <= balance[p]
       /\ select_pending_deposit_by_pubkey_hash(file, p) # {}
       /\ Event
       /\ save_wallet([file EXCEPT !.keys = @ + 1],
            [Idle EXCEPT !.pc = "prove",
                         !.tx = Tx(events', {}, p, v + Fee + DalFee,
                                   <<Leaf(p[1], v, events'), Leaf(Other, DalFee, NoCm)>>)])
  /\ UNCHANGED <<setup, chain, outside, backup, early, public, ghosts>>

IsSpend(t) == t.inputs # {}

\* An operation given to octez-client: done, or an error before or after the
\* operation was injected.
run_octez_client(queue, operation) == {queue, queue \cup {operation}}

\* The proof is there, the wallet is saved once more (unchanged), and the message
\* is posted to the operator, or handed to octez-client if the profile names none.
\* The call may fail although the message was taken, which ends the command.
submit_kernel_message ==
  /\ job.pc = "prove" /\ net = "rollup"
  /\ \/ /\ inbox' = inbox \cup {job.tx}
        /\ job' = Becomes(IF profile.operator_url THEN "wait" ELSE "record")
        /\ UNCHANGED lost
     \/ /\ inbox' \in run_octez_client(inbox, job.tx)
        /\ job' = Idle
        /\ lost' = (lost \/ (inbox' # inbox /\ IsSpend(job.tx)))
  /\ UNCHANGED <<setup, chain, tickets, file, floor, backup, early, events, public, conflict>>

\* The operator is polled until it says submitted or failed, or time is up; the
\* wallet records the submission in every case.
wait_for_operator_terminal ==
  /\ job.pc = "wait"
  /\ job' = Becomes("record")
  /\ UNCHANGED <<setup, chain, outside, file, floor, backup, early, events, public, ghosts>>

\* The demo ledger applies the transaction before it answers.  A refusal, or a lost
\* response, ends the command.
post_to_ledger ==
  /\ job.pc = "prove" /\ net = "ledger"
  /\ Apply(job.tx)
  /\ \/ Applicable(job.tx) /\ job' = Becomes("record") /\ UNCHANGED lost
     \/ job' = Idle /\ lost' = (lost \/ Applicable(job.tx))
  /\ UNCHANGED <<setup, outside, file, floor, backup, early, events, public>>

register_pending_spend(w, t) == [w EXCEPT !.pending = @ \cup {t.inputs}]
finalize_successful_spend(w, t) == [w EXCEPT !.notes = @ \ t.inputs]

\* The shield's commitment is noted in the entries of its pool, over any earlier one.
note_shielded_cm(w, t) ==
  [w EXCEPT !.deposits = {IF d.pool = t.pool THEN [d EXCEPT !.cm = t.id] ELSE d : d \in @}]

Record ==
  /\ job.pc = "record"
  /\ save_wallet(CASE ~IsSpend(job.tx) -> note_shielded_cm(file, job.tx)
                   [] IsSpend(job.tx) /\ net = "rollup" -> register_pending_spend(file, job.tx)
                   [] IsSpend(job.tx) /\ net = "ledger" ->
                        finalize_successful_spend(file, job.tx),
                 Idle)
  /\ lost' = (lost \/ (file' = file /\ IsSpend(job.tx)))
  /\ UNCHANGED <<setup, chain, outside, backup, early, events, public, conflict>>

-----------------------------------------------------------------------------
(***************************************************************************)
(* Addresses and deposits.                                                 *)
(***************************************************************************)
\* cmd_address shows the address once it is saved.
cmd_address ==
  /\ job.pc = "idle" /\ load_wallet /\ file.addr < MaxAddr
  /\ Event
  /\ save_wallet([file EXCEPT !.addr = @ + 1], Becomes("show"))
  /\ UNCHANGED <<setup, chain, outside, backup, early, public, ghosts>>

ShowAddress ==
  /\ job.pc = "show"
  /\ public' = [public EXCEPT !.addresses = @ \cup {file.addr - 1}]
  /\ job' = Idle
  /\ UNCHANGED <<setup, chain, outside, file, floor, backup, early, events, ghosts>>

\* cmd_bridge_deposit: a new address is saved first.
StartDeposit ==
  /\ Start("rollup") /\ file.addr < MaxAddr
  /\ Event
  /\ save_wallet([file EXCEPT !.addr = @ + 1], Becomes("preflight"))
  /\ UNCHANGED <<setup, chain, outside, backup, early, public, ghosts>>

Entry(pool) == [pool |-> pool, cm |-> NoCm]

DepositEntry(w, pool) == [w EXCEPT !.nonce = @ + 1, !.deposits = @ \cup {Entry(pool)}]

\* The rollup serves the right address, verifier and ticketer: the pool's entry is
\* saved.  (If not, CommandEnds.)
Preflight ==
  /\ job.pc = "preflight" /\ file.nonce < MaxNonce
  /\ LET pool == <<file.addr - 1, file.nonce>>
     IN  save_wallet(DepositEntry(file, pool), [Idle EXCEPT !.pc = "ticket", !.pool = pool])
  /\ UNCHANGED <<setup, chain, outside, backup, early, events, public, ghosts>>

\* A transfer to the bridge's mint entrypoint, by octez-client.
deposit_to_bridge(pool) == tickets' \in run_octez_client(tickets, pool)

\* The ticket is sent; the operation's hash is saved then.  With --prepare-only the
\* parameters are printed, for another signer to send the ticket (TopUp).
SendTicket ==
  /\ job.pc = "ticket"
  /\ deposit_to_bridge(job.pool)
  /\ public' = [public EXCEPT !.pools = @ \cup {job.pool}]
  /\ job' = Idle
  /\ UNCHANGED <<setup, chain, inbox, file, floor, backup, early, events, ghosts>>

\* cmd_recover_deposits: the addresses up to a bound the user gives (the last used
\* one, or all) are derived and saved; then every pool of the grid that holds
\* something at the head and is not tracked gets an entry, and deposit_nonce passes
\* the largest nonce found.
StartRecover ==
  /\ Start("rollup")
  /\ \E max \in {file.addr - 1, MaxAddr - 1} :
       save_wallet([file EXCEPT !.addr = Max({@, max + 1})],
                   [Idle EXCEPT !.pc = "recover", !.pin.balance = balance, !.pool = <<max, file.nonce>>])
  /\ UNCHANGED <<setup, chain, outside, backup, early, events, public, ghosts>>

Found(w, head, grid) ==
  {p \in Pool : /\ p[1] <= grid[1] /\ p[2] <= grid[2]
                /\ head.balance[p] > 0
                /\ \A d \in w.deposits : d.pool # p}

RecoverDeposits ==
  /\ job.pc = "recover"
  /\ LET found == Found(file, job.pin, job.pool)
     IN  save_wallet([file EXCEPT !.deposits = @ \cup {Entry(p) : p \in found},
                                  !.nonce = Max({@} \cup {p[2] + 1 : p \in found})],
                     Idle)
  /\ UNCHANGED <<setup, chain, outside, backup, early, events, public, ghosts>>

-----------------------------------------------------------------------------
Command ==
  \/ run_user_profile
  \/ StartSync \/ SyncBatch \/ SyncFinalize
  \/ StartScan \/ apply_scan_feed
  \/ cmd_transfer \/ cmd_unshield \/ cmd_transfer_rollup \/ cmd_unshield_rollup
  \/ \E p \in Pool : cmd_shield_rollup(p)
  \/ submit_kernel_message \/ wait_for_operator_terminal \/ post_to_ledger \/ Record
  \/ cmd_address \/ ShowAddress
  \/ StartDeposit \/ Preflight \/ SendTicket
  \/ StartRecover \/ RecoverDeposits
  \/ CommandEnds

Next == Command \/ Chain \/ BackUp \/ Restore

Spec == Init /\ [][Next]_vars

-----------------------------------------------------------------------------
Unspent(positions, gone) == {i \in positions : tree[i].to # Other /\ i \notin gone}

\* Up to its cursor the wallet file holds every unspent note that was ever sent to
\* the wallet, and nothing but such notes and spent ones: through crashes and
\* failed saves between batches, yields, and restored copies that load.
NotesKept ==
  load_wallet =>
    /\ Unspent(1..file.scanned, spent) \subseteq file.notes
    /\ file.notes \subseteq Unspent(1..file.scanned, {})

\* A sync that comes to its end leaves exactly the unspent notes of the pinned head.
SyncExact ==
  [][job.pc = "sync" /\ file.scanned = job.pin.size /\ file' # file
     => file'.notes = Unspent(1..job.pin.size, job.pin.spent)]_vars

\* The chain refuses a spend for a spent input only if the record of an earlier
\* spend was lost: the wallet failed or crashed between submitting and saving, or
\* the user put back a copy made during that spend.  A copy made at any other time
\* is refused by the floor or knows of every spend.
RefusedOnlyAfterLoss == conflict => lost

\* A pool that holds money, or has a ticket on its way, lies in the grid that the
\* counters of the wallet file bound, where recover-deposits finds it: after any
\* failure, and with any copy of the file that loads, one made between the two saves
\* of a deposit included.
PoolsRecoverable ==
  load_wallet =>
    \A p \in Pool :
      balance[p] > 0 \/ p \in tickets => p[1] < file.addr /\ p[2] <= file.nonce
=============================================================================
