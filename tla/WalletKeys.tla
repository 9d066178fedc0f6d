------------------------------ MODULE WalletKeys ------------------------------
(***************************************************************************)
(* One-time keys across the wallet's processes (apps/wallet/src/lib.rs).   *)
(*                                                                         *)
(* Every command is a process of its own.  A command that changes the      *)
(* wallet takes <wallet>.lock, loads the wallet file, works on its copy,   *)
(* writes the wallet file and the floor file <wallet>.xmss-floor, and      *)
(* removes the lock.  A spend reserves one key per input, signs, saves the *)
(* wallet, and only then hands the signatures to the prover.               *)
(*                                                                         *)
(* Processes crash at any step; a lock left behind is recovered by the     *)
(* next command when its pid is gone; file writes fail; the user puts back *)
(* an older copy of the wallet file.                                       *)
(***************************************************************************)
EXTENDS Wots, FiniteSets

CONSTANTS
  Pid,          \* 1..n: the commands of a run, in the order they start
  MaxActive,    \* bound: processes alive at once
  Addr,         \* 0..n: address indexes (bound on next_address)
  TreeSize,     \* keys per address (AUTH_TREE_SIZE, 65536 in the code)
  PollCap,      \* PROVING_SERVICE_POLL_CAP (60)
  MaxUnknown,   \* PROVING_SERVICE_MAX_UNKNOWN (3)
  Sighash       \* the message of each spend in turn, all different
                \* (bound: spends of a run)

ASSUME KeysAssumption ==
  /\ IsFiniteSet(Pid) /\ Pid = 1..Cardinality(Pid)
  /\ IsFiniteSet(Addr) /\ Addr # {} /\ Addr = 0..(Cardinality(Addr) - 1)
  /\ MaxActive \in Nat /\ TreeSize \in Nat
  /\ PollCap \in Nat /\ MaxUnknown \in Nat \ {0}
  /\ Sighash \in Seq(Message)
  /\ \A i, j \in DOMAIN Sighash : i # j => Sighash[i] # Sighash[j]

NoFile == 0
EmptyFile == -1      \* the lock was created, its pid is not written yet

\* The part of WalletFile this module is about: addr_counter and, per address,
\* bds.next_index.  (wots_key_indices repeats next_index.)
WalletFile == [addr_counter : 0..Cardinality(Addr), next_index : [Addr -> 0..TreeSize]]
NoWallet == [addr_counter |-> -1, next_index |-> [a \in Addr |-> 0]]

VARIABLES
  lock,      \* <wallet>.lock: NoFile, EmptyFile or a pid
  wallet,    \* the wallet file
  floor,     \* the floor file
  backup,    \* the user's copy of the wallet file
  pc,        \* per command: where it is
  cmd,       \* per command: what it does
  mem,       \* per command: the wallet in memory
  judged,    \* per command: the pid it found in a stale lock
  job,       \* per command: the proving job's message, polls and unknown polls
  spends,    \* messages built so far
  exposed,   \* per key: the messages whose signatures left a process
  stolen     \* was a lock removed that was not the stale one?

vars == <<lock, wallet, floor, backup, pc, cmd, mem, judged, job, spends,
          exposed, stolen>>
files == <<lock, wallet, floor, backup>>

Key == Addr \X (0..(TreeSize - 1))
NoJob == [message |-> 0, keys |-> {}, polls |-> 0, unknown |-> 0]

\* No wallet yet, or one with a first address and no key used.
Init ==
  /\ lock = NoFile
  /\ wallet \in {NoWallet, [NoWallet EXCEPT !.addr_counter = 1]}
  /\ floor = wallet
  /\ backup = NoWallet
  /\ pc = [p \in Pid |-> "unborn"]
  /\ cmd = [p \in Pid |-> "none"]
  /\ mem = [p \in Pid |-> NoWallet]
  /\ judged = [p \in Pid |-> NoFile]
  /\ job = [p \in Pid |-> NoJob]
  /\ spends = 0
  /\ exposed = [k \in Key |-> {}]
  /\ stolen = FALSE

Alive(p) == pc[p] \notin {"unborn", "gone"}
Go(p, where) == pc' = [pc EXCEPT ![p] = where]

\* The process ends; what it held in memory is lost.
Exit(p) ==
  /\ Go(p, "gone")
  /\ cmd' = [cmd EXCEPT ![p] = "none"]
  /\ mem' = [mem EXCEPT ![p] = NoWallet]
  /\ judged' = [judged EXCEPT ![p] = NoFile]
  /\ job' = [job EXCEPT ![p] = NoJob]

KeepMemory == UNCHANGED <<cmd, mem, judged, job>>

-----------------------------------------------------------------------------
(***************************************************************************)
(* acquire_wallet_lock.                                                    *)
(***************************************************************************)
\* The commands that take the lock: init; receive, which stands for every command
\* that loads and saves the wallet once without using a key; sync --watch; and
\* the spends.
StartCommand(p) ==
  /\ pc[p] = "unborn" /\ \A q \in Pid : q < p => pc[q] # "unborn"
  /\ Cardinality({q \in Pid : Alive(q)}) < MaxActive
  /\ \E c \in {"init", "receive", "watch", "spend"} :
       cmd' = [cmd EXCEPT ![p] = c]
  /\ Go(p, "create")
  /\ UNCHANGED <<files, mem, judged, job, spends, exposed, stolen>>

CreateLock(p) ==
  /\ pc[p] \in {"create", "create_again"} /\ lock = NoFile
  /\ lock' = EmptyFile
  /\ Go(p, "write_pid")
  /\ KeepMemory /\ UNCHANGED <<wallet, floor, backup, spends, exposed, stolen>>

\* If the write fails the process ends and the empty file stays, as in a crash
\* here: there is no WalletLock to drop yet.
WritePid(p) ==
  /\ pc[p] = "write_pid"
  /\ lock' = p
  /\ Go(p, IF cmd[p] = "init" THEN "keygen" ELSE "load")
  /\ KeepMemory /\ UNCHANGED <<wallet, floor, backup, spends, exposed, stolen>>

\* The pid in the file is not a running process; an unreadable pid is not stale.
is_stale_wallet_lock == lock \in Pid /\ ~Alive(lock)

LockExists(p) ==
  /\ pc[p] = "create" /\ lock # NoFile
  /\ IF is_stale_wallet_lock
     THEN /\ judged' = [judged EXCEPT ![p] = lock]
          /\ Go(p, "remove_stale")
          /\ UNCHANGED <<cmd, mem, job>>
     ELSE Exit(p)
  /\ UNCHANGED <<files, spends, exposed, stolen>>

\* remove_file removes whatever is there by now; no file is an error.
RemoveStale(p) ==
  /\ pc[p] = "remove_stale"
  /\ IF lock = NoFile
     THEN Exit(p) /\ UNCHANGED <<lock, stolen>>
     ELSE /\ lock' = NoFile
          /\ stolen' = (stolen \/ lock # judged[p])
          /\ judged' = [judged EXCEPT ![p] = NoFile]
          /\ Go(p, "create_again")
          /\ UNCHANGED <<cmd, mem, job>>
  /\ UNCHANGED <<wallet, floor, backup, spends, exposed>>

LockTaken(p) ==
  /\ pc[p] = "create_again" /\ lock # NoFile
  /\ Exit(p)
  /\ UNCHANGED <<files, spends, exposed, stolen>>

\* The end of a command, also of one that failed: WalletLock is dropped.
Release(p) ==
  /\ pc[p] = "release"
  /\ lock' = NoFile
  /\ Exit(p)
  /\ UNCHANGED <<wallet, floor, backup, spends, exposed, stolen>>

-----------------------------------------------------------------------------
(***************************************************************************)
(* Loading and saving.                                                     *)
(***************************************************************************)
\* Mutant: only the address counter is compared with the floor.
enforce_wallet_xmss_floor_counter(w) == w.addr_counter >= floor.addr_counter

\* The first key of address a that w has not used (0 for an address it lacks).
current_wallet_wots_floor(w, a) == w.next_index[a]

\* A wallet file behind the floor file is refused as a stale backup; without a
\* floor file nothing is.
enforce_wallet_xmss_floor(w) ==
  \/ floor = NoWallet
  \/ /\ w.addr_counter >= floor.addr_counter
     /\ \A a \in Addr : current_wallet_wots_floor(w, a) >= floor.next_index[a]

load_wallet(p) ==
  /\ pc[p] = "load"
  /\ IF wallet # NoWallet /\ enforce_wallet_xmss_floor(wallet)
     THEN /\ mem' = [mem EXCEPT ![p] = wallet]
          /\ Go(p, cmd[p])
     ELSE Go(p, "release") /\ UNCHANGED mem
  /\ UNCHANGED <<files, cmd, judged, job, spends, exposed, stolen>>

\* A file is written aside, renamed over the old one, made private, and its
\* directory is synced: a failure leaves the old file or the new one, never a part.
AfterFailedWrite(old, new) == {old, new}

\* save_wallet, first half: the wallet file.
SaveWallet(p) ==
  /\ pc[p] = "save"
  /\ \/ wallet' = mem[p] /\ Go(p, "save_floor")
     \/ wallet' \in AfterFailedWrite(wallet, mem[p]) /\ Go(p, "release")
  /\ KeepMemory /\ UNCHANGED <<lock, floor, backup, spends, exposed, stolen>>

\* Where a command goes on after save_wallet: a spend to the prover, and
\* through two more saves, after the proof and after the submission; sync --watch
\* to the next pass, which loads the file again.
AfterSave(p) ==
  CASE cmd[p] = "spend" -> "prove"
    [] cmd[p] = "proved" -> "submit"
    [] cmd[p] = "watch" -> "load"
    [] OTHER -> "release"

\* save_wallet, second half: the floor file, from the wallet in memory.
save_wallet_xmss_floor(p) ==
  /\ pc[p] = "save_floor"
  /\ \/ floor' = mem[p] /\ Go(p, AfterSave(p))
     \/ floor' \in AfterFailedWrite(floor, mem[p]) /\ Go(p, "release")
  /\ KeepMemory /\ UNCHANGED <<lock, wallet, backup, spends, exposed, stolen>>

-----------------------------------------------------------------------------
(***************************************************************************)
(* The commands.                                                           *)
(***************************************************************************)
\* Refused if the wallet file exists.
cmd_keygen(p) ==
  /\ pc[p] = "keygen"
  /\ IF wallet = NoWallet
     THEN /\ mem' = [mem EXCEPT ![p] = [addr_counter |-> 0,
                                        next_index |-> [a \in Addr |-> 0]]]
          /\ Go(p, "save")
     ELSE Go(p, "release") /\ UNCHANGED mem
  /\ UNCHANGED <<files, cmd, judged, job, spends, exposed, stolen>>

\* cmd_address: next_address.
cmd_address(p) ==
  /\ pc[p] = "receive"
  /\ IF mem[p].addr_counter < Cardinality(Addr)
     THEN mem' = [mem EXCEPT ![p].addr_counter = @ + 1] /\ Go(p, "save")
     ELSE Go(p, "release") /\ UNCHANGED mem
  /\ UNCHANGED <<files, cmd, judged, job, spends, exposed, stolen>>

\* One pass of sync --watch: the notes it finds are not modelled here, keys and
\* addresses stay as loaded.  An error of the pass ends the command.
cmd_rollup_sync_watch(p) ==
  /\ pc[p] = "watch"
  /\ Go(p, "save") \/ Go(p, "release")
  /\ KeepMemory /\ UNCHANGED <<files, spends, exposed, stolen>>

\* Mutant: the reserved index is not advanced past the last input.
reserve_next_auth_short(w, a, n) ==
  [w EXCEPT !.next_index[a] = IF n = 0 THEN @ ELSE @ + n - 1]
\* n inputs of address a reserve n keys, one by one.
reserve_next_auth(w, a, n) == [w EXCEPT !.next_index[a] = @ + n]

\* The keys n inputs of address a sign with.
ReservedKeys(w, a, n) ==
  {a} \X (w.next_index[a]..(w.next_index[a] + n - 1))

\* A shield, transfer or unshield: one message, signed with one key per input;
\* the inputs belong to one address here.  A transfer, and an unshield with
\* change, takes a new address first.  An exhausted address is an error.
Spend(p) ==
  /\ pc[p] = "spend" /\ spends < Len(Sighash)
  /\ \E a \in Addr, n \in 1..2, change \in 0..1 :
       LET w == [mem[p] EXCEPT !.addr_counter = @ + change]
       IN  /\ a < mem[p].addr_counter
           /\ w.addr_counter <= Cardinality(Addr)
           /\ IF w.next_index[a] + n <= TreeSize
              THEN /\ spends' = spends + 1
                   /\ mem' = [mem EXCEPT ![p] = reserve_next_auth(w, a, n)]
                   /\ job' = [job EXCEPT ![p].message = spends',
                                         ![p].keys = ReservedKeys(w, a, n)]
                   /\ Go(p, "save")
              ELSE Go(p, "release") /\ UNCHANGED <<spends, mem, job>>
  /\ UNCHANGED <<files, cmd, judged, exposed, stolen>>

\* No note can be selected, or a check fails before a key is reserved.
SpendRefused(p) ==
  /\ pc[p] = "spend"
  /\ Go(p, "release")
  /\ KeepMemory /\ UNCHANGED <<files, spends, exposed, stolen>>

\* A call answers and the command goes on, or it ends: an error, an answer that is
\* no success or, for the calls that have one, a timeout.
http_post_json(p, next) == Go(p, next) \/ Go(p, "release")

\* The witness, signatures included, is posted to the proving service (or given
\* to the local prover); the call may fail after it was received.
SubmitJob(p) ==
  /\ pc[p] = "prove"
  /\ exposed' = [k \in Key |-> IF k \in job[p].keys
                               THEN exposed[k] \cup {Sighash[job[p].message]}
                               ELSE exposed[k]]
  /\ http_post_json(p, "poll")
  /\ KeepMemory /\ UNCHANGED <<files, spends, stolen>>

\* Mutant: the job is polled until the service says something final.
PollsLeft_unlimited(p) == TRUE
PollsLeft(p) == job[p].polls < PollCap

\* One long poll.  A job that is queued or running is polled again; too many
\* unknown answers in a row, any other answer, an HTTP error and the end of the
\* budget are errors.
PollJob(p) ==
  /\ pc[p] = "poll"
  /\ LET polled == [job EXCEPT ![p].polls = IF @ < PollCap THEN @ + 1 ELSE @]
     IN  \/ /\ ~PollsLeft(p) /\ Go(p, "release")
            /\ UNCHANGED <<cmd, job>>
         \/ /\ PollsLeft(p) /\ Go(p, "poll")
            /\ job' = [polled EXCEPT ![p].unknown = 0]
            /\ UNCHANGED cmd
         \/ /\ PollsLeft(p)
            /\ IF job[p].unknown + 1 >= MaxUnknown
               THEN Go(p, "release") /\ UNCHANGED job
               ELSE /\ Go(p, "poll")
                    /\ job' = [polled EXCEPT ![p].unknown = @ + 1]
            /\ UNCHANGED cmd
         \/ /\ PollsLeft(p) /\ Go(p, "save")
            /\ cmd' = [cmd EXCEPT ![p] = "proved"]
            /\ job' = [job EXCEPT ![p] = NoJob]
         \/ /\ PollsLeft(p) /\ Go(p, "release")
            /\ UNCHANGED <<cmd, job>>
  /\ UNCHANGED <<files, mem, judged, spends, exposed, stolen>>

\* The operator takes the message, and the wallet is saved once more with the
\* pending spend; or the submission fails.
SubmitMessage(p) ==
  /\ pc[p] = "submit"
  /\ \/ Go(p, "save") /\ cmd' = [cmd EXCEPT ![p] = "submitted"]
     \/ Go(p, "release") /\ UNCHANGED cmd
  /\ UNCHANGED <<files, mem, judged, job, spends, exposed, stolen>>

-----------------------------------------------------------------------------
Crash(p) ==
  /\ Alive(p)
  /\ Exit(p)
  /\ UNCHANGED <<files, spends, exposed, stolen>>

\* The user copies the wallet file, once (bound), and puts the copy back.
BackUp ==
  /\ wallet # NoWallet /\ backup = NoWallet
  /\ backup' = wallet
  /\ UNCHANGED <<lock, wallet, floor, pc, cmd, mem, judged, job, spends, exposed, stolen>>

Restore ==
  /\ backup # NoWallet
  /\ wallet' = backup
  /\ UNCHANGED <<lock, floor, backup, pc, cmd, mem, judged, job, spends, exposed, stolen>>

Step(p) ==
  \/ CreateLock(p) \/ WritePid(p) \/ LockExists(p) \/ RemoveStale(p) \/ LockTaken(p)
  \/ load_wallet(p) \/ SaveWallet(p) \/ save_wallet_xmss_floor(p)
  \/ cmd_keygen(p) \/ cmd_address(p) \/ cmd_rollup_sync_watch(p)
  \/ Spend(p) \/ SpendRefused(p)
  \/ SubmitJob(p) \/ PollJob(p) \/ SubmitMessage(p)
  \/ Release(p)

Next ==
  \/ \E p \in Pid : StartCommand(p) \/ Step(p) \/ Crash(p)
  \/ BackUp \/ Restore

\* At these places a command waits for an answer that may never come: reads of the
\* rollup node, octez-client, the local prover and the submission have no timeout.
\* (The calls of the proving service have one: each poll ends.)
Unanswered(p) == pc[p] \in {"receive", "watch", "spend", "prove", "submit"}

\* A running process is scheduled, unless it waits for such an answer.
Fairness == \A p \in Pid : WF_vars(Step(p) /\ ~Unanswered(p))

Spec == Init /\ [][Next]_vars /\ Fairness

-----------------------------------------------------------------------------
\* A signature that leaves the wallet's processes verifies for the message it was
\* made for and, with all that left before it, for no other one, through crashes,
\* failed writes, restored backups and recovered locks: no one-time key signs
\* twice (unless a process removed a lock that had changed hands since it judged
\* it stale).
OnlySignedVerify ==
  [][\A k \in Key : exposed'[k] # exposed[k] /\ ~stolen =>
       {m \in Message : Covers(k, exposed'[k], m)} = exposed'[k]]_vars

\* A key whose signature left a process is below the floor file from then on,
\* so that no wallet file that is accepted hands it out again.
ExposedBelowFloor ==
  ~stolen => \A a \in Addr, i \in 0..(TreeSize - 1) :
               exposed[<<a, i>>] # {} => floor # NoWallet /\ i < floor.next_index[a]

Holding(p) == pc[p] \in {"write_pid", "keygen", "load", "receive", "watch", "spend",
                         "save", "save_floor", "prove", "poll", "submit", "release"}

\* While a process is between the acquisition and the release of the lock, every
\* other one is told that the wallet is locked.
OneHolder ==
  \A p, q \in Pid : Holding(p) /\ Holding(q) => p = q

\* Every command but sync --watch ends, or waits forever in one call that is never
\* answered: the lock's recovery and the polling of the prover come to an end,
\* whatever the proving service says.
CommandsEnd ==
  \A p \in Pid : Alive(p) /\ cmd[p] # "watch" ~> (~Alive(p) \/ []Unanswered(p))

\* State constraint: nothing is claimed once a lock was stolen.
UntilStolen == ~stolen
=============================================================================
