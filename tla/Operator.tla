------------------------------ MODULE Operator ------------------------------
(***************************************************************************)
(* The operator (services/tzel/src/bin/tzel_operator.rs) takes kernel      *)
(* messages over HTTP and brings them to L1: small ones directly into the  *)
(* rollup inbox, large ones as DAL chunks followed by a pointer.  Each     *)
(* submission is a JSON file; everything else is lost in a crash.          *)
(*                                                                         *)
(* One thread per request (process_submission) and the reconciler          *)
(* (reconcile_loop) run under advance_lock.  A request's lock guard lives  *)
(* in the HTTP handler and its work in a blocking task: when the client    *)
(* disconnects, the handler is dropped with its guard and the task runs    *)
(* on.  Every effect outside the process is a step of its own, and a file  *)
(* is written in three (create, write, rename), so that crashes and the    *)
(* other threads come between them.                                        *)
(***************************************************************************)
EXTENDS Integers, Sequences, FiniteSets, FiniteSetsExt

CONSTANTS
  Id,             \* submissions, in the order of their file names
  Direct,         \* those small enough for the inbox
  MayDisconnect,  \* those whose client may give up waiting
  Reconciler,     \* the reconciler's thread
  None, Empty, Torn,   \* no file, an empty one, and one that does not parse
  PayloadLen,     \* length of a payload that needs the DAL
  ChunkSize,      \* chunk sizes: the option or the DAL's slot size, the smaller
  DalEndpoint,    \* whether it may be started with and without the two nodes
  MaxAttempts,    \* MAX_DAL_CHUNK_ATTEMPTS
  MaxPointers,    \* the longest list of chunks that a pointer's encoding takes
  MaxFaults       \* bound: crashes and failed calls

\* RollupSubmissionStatus without Attested, RollupDalChunk and StoredSubmission.
Status == {"PendingDal", "CommitmentIncluded", "SubmittedToL1", "Failed"}
Chunk == [payload_len : Nat, at : Nat, attempts : Nat]
Submission == [id : Id, status : Status, chunks : Seq(Chunk), payload : BOOLEAN]

ASSUME OperatorAssumption ==
  /\ Id \subseteq Nat /\ Reconciler \notin Id
  /\ None \notin Id \cup {Reconciler}
  /\ {None, Empty, Torn} \cap Submission = {} /\ None \notin {Empty, Torn}
  /\ Direct \subseteq Id
  /\ MayDisconnect \subseteq Id
  /\ PayloadLen \in Nat \ {0}
  /\ ChunkSize \subseteq Nat \ {0}
  /\ DalEndpoint \subseteq BOOLEAN
  /\ {MaxAttempts, MaxPointers} \subseteq Nat \ {0}
  /\ MaxFaults \in Nat

VARIABLES
  config,   \* chunk size of the running process, and whether it has nodes
  file,     \* the persisted submissions
  tmp,      \* the file that a submission is written to before it is renamed
  fd,       \* per thread: what has become of the tmp file that it opened
  lock,     \* the thread whose guard holds advance_lock
  task,     \* per thread: where it is, its copy of a submission, chunks to retry
  todo,     \* submissions the reconciler has yet to visit in this pass
  dal,      \* chunks published on L1, with what the DAL node says of them
  inbox,    \* messages injected into the rollup inbox
  faults    \* crashes and failed calls so far

vars == <<config, file, tmp, fd, lock, task, todo, dal, inbox, faults>>

Thread == Id \cup {Reconciler}
Config == [chunk_size : ChunkSize, dal_node_endpoint : DalEndpoint]

At(t, pc) == task[t].pc = pc
stored(t) == task[t].stored

Goto(t, pc, s) == task' = [task EXCEPT ![t] = [pc |-> pc, stored |-> s, retry |-> <<>>]]

\* A call that fails, within the bound.
Fault == faults < MaxFaults /\ faults' = faults + 1

Init ==
  /\ config \in Config
  /\ file = [id \in Id |-> None]
  /\ tmp = [id \in Id |-> None]
  /\ fd = [t \in Thread |-> "closed"]
  /\ lock = None
  /\ task = [t \in Thread |-> [pc |-> IF t = Reconciler THEN "idle" ELSE "new",
                               stored |-> None, retry |-> <<>>]]
  /\ todo = {}
  /\ dal = <<>>
  /\ inbox = <<>>
  /\ faults = 0

-----------------------------------------------------------------------------
(***************************************************************************)
(* Payloads, chunks and files.                                             *)
(***************************************************************************)
\* The payload's bytes that a submission's chunks hold.
Published(chunks) ==
  LET sum[i \in 0..Len(chunks)] ==
        IF i = 0 THEN 0 ELSE sum[i - 1] + chunks[i].payload_len
  IN  sum[Len(chunks)]

\* Mutant: the chunk is found by the current chunk size.
submission_chunk_bytes_resized(s, i) ==
  [start |-> (i - 1) * config.chunk_size, len |-> s.chunks[i].payload_len]

\* The range of the payload that chunk i holds.
submission_chunk_bytes(s, i) ==
  [start |-> Published(SubSeq(s.chunks, 1, i - 1)), len |-> s.chunks[i].payload_len]

\* Mutant: the payload is dropped as soon as it is published.
persisted_without_payload(s) ==
  IF s.status \in {"SubmittedToL1", "CommitmentIncluded"}
  THEN [s EXCEPT !.payload = FALSE] ELSE s

\* persist_submission drops the payload of a submission that is on L1.
persisted(s) == IF s.status = "SubmittedToL1" THEN [s EXCEPT !.payload = FALSE] ELSE s

Readable(body) == body \notin {None, Empty, Torn}

load_stored_submission(id) == file[id]

submission_paths == {id \in Id : file[id] # None}

\* publish_dal_chunk puts a range of the payload of s on L1.
Publication(s, range) ==
  [id |-> s.id, start |-> range.start, payload_len |-> range.len,
   status |-> "waiting_attestation"]

chunk(range, attempts) ==
  [payload_len |-> range.len, at |-> Len(dal) + 1, attempts |-> attempts]

-----------------------------------------------------------------------------
(***************************************************************************)
(* The end of a thread's work on a submission.                             *)
(***************************************************************************)
Return(t) ==
  IF t = Reconciler
  THEN Goto(t, "next", None) /\ UNCHANGED lock
  ELSE Goto(t, "done", None) /\ lock' = IF lock = t THEN None ELSE lock

\* maybe_advance_submission returned an error: the reconciler forgets its
\* copy and will try again, a request marks the submission failed.
Advance_error(t) ==
  /\ UNCHANGED lock
  /\ IF t = Reconciler THEN Goto(t, "next", None) ELSE Goto(t, "failed", stored(t))

-----------------------------------------------------------------------------
(***************************************************************************)
(* persist_submission.  The name of the tmp file depends on nothing but    *)
(* the submission: two threads that persist one submission share it.       *)
(***************************************************************************)
\* The places of its calls.
Writing == {"accept", "persist_chunk", "persist"}

\* File::create makes the tmp file or, if there is one, empties it.
CreateTmp(t) ==
  /\ task[t].pc \in Writing
  /\ fd[t] = "closed"
  /\ fd' = [fd EXCEPT ![t] = "tmp"]
  /\ tmp' = [tmp EXCEPT ![stored(t).id] = Empty]
  /\ UNCHANGED <<config, file, lock, task, todo, dal, inbox, faults>>

\* Every thread writes from its own offset 0: over another body the end of the
\* longer one remains.
overwritten(f, s) ==
  {[f EXCEPT ![s.id] = body] :
     body \in IF f[s.id] = Empty THEN {persisted(s)} ELSE {persisted(s), Torn}}

\* The bytes go where the opened file is by now: it may have been renamed, and
\* another one may have been renamed over it.
WriteTmp(t) ==
  LET s == stored(t)
  IN  /\ task[t].pc \in Writing
      /\ fd[t] \in {"tmp", "file", "gone"}
      /\ fd' = [fd EXCEPT ![t] = "written"]
      /\ tmp' \in IF fd[t] = "tmp" THEN overwritten(tmp, s) ELSE {tmp}
      /\ file' \in IF fd[t] = "file" THEN overwritten(file, s) ELSE {file}
      /\ UNCHANGED <<config, lock, task, todo, dal, inbox, faults>>

\* Where a file that thread u has open is, once id's tmp file is renamed.
renamed(u, id) ==
  IF u \in Thread /\ stored(u) # None /\ stored(u).id = id
  THEN CASE fd[u] = "tmp" -> "file" [] fd[u] = "file" -> "gone" [] OTHER -> fd[u]
  ELSE fd[u]

\* The rename, if the tmp file is still there.
persist_submission(t) ==
  LET id == stored(t).id
  IN  /\ fd[t] = "written" /\ tmp[id] # None
      /\ file' = [file EXCEPT ![id] = tmp[id]]
      /\ tmp' = [tmp EXCEPT ![id] = None]
      /\ fd' = [u \in Thread |-> IF u = t THEN "closed" ELSE renamed(u, id)]

\* It is not: the other thread has renamed it.  Or a call fails, a write perhaps
\* after some of the bytes.
persist_error(t) ==
  LET id == stored(t).id
      part(f) == {f, [f EXCEPT ![id] = Torn]}
  IN  /\ fd' = [fd EXCEPT ![t] = "closed"]
      /\ \/ fd[t] = "written" /\ tmp[id] = None /\ UNCHANGED <<file, tmp, faults>>
         \/ /\ Fault
            /\ tmp' \in IF fd[t] = "tmp" THEN part(tmp) ELSE {tmp}
            /\ file' \in IF fd[t] = "file" THEN part(file) ELSE {file}

-----------------------------------------------------------------------------
(***************************************************************************)
(* process_submission.                                                     *)
(***************************************************************************)
\* A request whose rollup address does not decode ends before it changes
\* anything.
Request(id) ==
  LET s == [id |-> id, status |-> "PendingDal", chunks |-> <<>>, payload |-> TRUE]
  IN  /\ At(id, "new")
      /\ lock = None
      /\ lock' = id
      /\ CASE id \in Direct -> Goto(id, "inject", s)
           [] id \notin Direct /\ ~config.dal_node_endpoint ->
                Goto(id, "persist", [s EXCEPT !.status = "Failed"])
           [] OTHER -> Goto(id, "accept", s)
      /\ UNCHANGED <<config, file, tmp, fd, todo, dal, inbox, faults>>

\* The payload or its fee note is refused: nothing is stored.
Refuse(id) ==
  /\ At(id, "accept") /\ fd[id] = "closed"
  /\ Return(id)
  /\ UNCHANGED <<config, file, tmp, fd, todo, dal, inbox, faults>>

Accept(id) ==
  /\ At(id, "accept")
  /\ \/ /\ persist_submission(id)
        /\ Goto(id, "publish", stored(id))
        /\ UNCHANGED <<lock, faults>>
     \/ /\ persist_error(id)
        /\ Return(id)
  /\ UNCHANGED <<config, todo, dal, inbox>>

\* The error path reads the submission back, or falls back on the copy made
\* when it was accepted.
MarkFailed(id) ==
  /\ At(id, "failed")
  /\ \/ /\ Readable(load_stored_submission(id))
        /\ Goto(id, "persist", [load_stored_submission(id) EXCEPT !.status = "Failed"])
        /\ UNCHANGED faults
     \/ /\ IF Readable(load_stored_submission(id)) THEN Fault ELSE UNCHANGED faults
        /\ Goto(id, "persist", [stored(id) EXCEPT !.status = "Failed", !.chunks = <<>>])
  /\ UNCHANGED <<config, file, tmp, fd, lock, todo, dal, inbox>>

\* The client is gone, and the guard with it.
Disconnect(id) ==
  /\ id \in MayDisconnect
  /\ lock = id
  /\ lock' = None
  /\ UNCHANGED <<config, file, tmp, fd, task, todo, dal, inbox, faults>>

-----------------------------------------------------------------------------
(***************************************************************************)
(* resume_pending_dal_submission: publish what is left of the payload,     *)
(* chunk by chunk, persisting after each.                                  *)
(***************************************************************************)
PublishNext(t) ==
  LET s == stored(t)
      start == Published(s.chunks)
      range == [start |-> start,
                len |-> IF PayloadLen - start < config.chunk_size
                        THEN PayloadLen - start ELSE config.chunk_size]
      after == Append(dal, Publication(s, range))
  IN  /\ At(t, "publish")
      /\ config.dal_node_endpoint /\ s.payload
      /\ start < PayloadLen
      /\ \/ /\ dal' = after
            /\ Goto(t, "persist_chunk", [s EXCEPT !.chunks = Append(@, chunk(range, 1))])
            /\ UNCHANGED <<lock, faults>>
         \/ /\ Fault
            /\ dal' \in {dal, after}
            /\ Advance_error(t)
      /\ UNCHANGED <<config, file, tmp, fd, todo, inbox>>

PersistChunk(t) ==
  /\ At(t, "persist_chunk")
  /\ \/ /\ persist_submission(t)
        /\ Goto(t, "publish", stored(t))
        /\ UNCHANGED <<lock, faults>>
     \/ /\ persist_error(t)
        /\ Advance_error(t)
  /\ UNCHANGED <<config, todo, dal, inbox>>

AllPublished(t) ==
  /\ At(t, "publish")
  /\ config.dal_node_endpoint /\ stored(t).payload
  /\ Published(stored(t).chunks) = PayloadLen
  /\ Goto(t, "persist", [stored(t) EXCEPT !.status = "CommitmentIncluded"])
  /\ UNCHANGED <<config, file, tmp, fd, lock, todo, dal, inbox, faults>>

CannotPublish(t) ==
  /\ At(t, "publish")
  /\ ~(config.dal_node_endpoint /\ stored(t).payload)
  /\ Advance_error(t)
  /\ UNCHANGED <<config, file, tmp, fd, todo, dal, inbox, faults>>

-----------------------------------------------------------------------------
(***************************************************************************)
(* reconcile_pending_submissions.                                          *)
(***************************************************************************)
\* Mutant: every submission is visited.
pending_all(status) == TRUE

\* Attested is set only between two statements and never persisted.
pending(status) == status \in {"PendingDal", "CommitmentIncluded"}

Tick ==
  /\ At(Reconciler, "idle")
  /\ lock = None
  /\ lock' = Reconciler
  /\ todo' = submission_paths
  /\ Goto(Reconciler, "next", None)
  /\ UNCHANGED <<config, file, tmp, fd, dal, inbox, faults>>

\* A submission is skipped if its file does not parse, or if the file, or what
\* the DAL node says of the protocol, cannot be read.
NextSubmission ==
  /\ At(Reconciler, "next")
  /\ todo # {}
  /\ LET id == Min(todo)
         s == load_stored_submission(id)
     IN  /\ todo' = todo \ {id}
         /\ \/ /\ IF ~Readable(s) \/ ~pending(s.status)
                  THEN Goto(Reconciler, "next", None)
                  ELSE Goto(Reconciler,
                            IF s.status = "PendingDal" THEN "publish" ELSE "status", s)
               /\ UNCHANGED faults
            \/ Fault /\ UNCHANGED task
  /\ UNCHANGED <<config, file, tmp, fd, lock, dal, inbox>>

EndPass ==
  /\ At(Reconciler, "next")
  /\ todo = {}
  /\ Goto(Reconciler, "idle", None)
  /\ lock' = None
  /\ UNCHANGED <<config, file, tmp, fd, todo, dal, inbox, faults>>

(***************************************************************************)
(* maybe_advance_submission, for a submission whose chunks are on L1.      *)
(***************************************************************************)
\* What the DAL node may say of publication p: its attestation is final.
\* "stale" is waiting_attestation, MAX_WAITING_ATTESTATION_LEVEL_AGE levels on.
SlotStatus(p) ==
  IF p.status \in {"waiting_attestation", "stale"}
  THEN {p.status, "attested", "unattested"} ELSE {p.status}

\* Mutant: a publication is waited for however old it is.
stale_never(status, head_known) == FALSE

\* A publication is too old only if the head's level is known.
stale(status, head_known) == head_known /\ status = "stale"

unattested(status) == status = "unattested"

\* The chunks of S among the first n, collected in their order.
push(indices, S, i) == IF i \in S THEN Append(indices, i) ELSE indices

retry_indices(S, n) ==
  LET pushed[i \in 0..n] == IF i = 0 THEN <<>> ELSE push(pushed[i - 1], S, i)
  IN  pushed[n]

CheckStatus ==
  LET s == stored(Reconciler)
      chunks == DOMAIN s.chunks
  IN  /\ At(Reconciler, "status")
      /\ config.dal_node_endpoint
      /\ \E status \in [chunks -> UNION {SlotStatus(p) : p \in Range(dal)}],
            head_known \in BOOLEAN :
           LET waiting == {i \in chunks : status[i] \notin {"attested", "unattested"}}
               late == {i \in waiting : stale(status[i], head_known)}
               n == Len(s.chunks)
               retry == retry_indices({i \in chunks : unattested(status[i])}, n)
                          \o retry_indices(late, n)
           IN  /\ \A i \in chunks : status[i] \in SlotStatus(dal[s.chunks[i].at])
               /\ IF head_known THEN UNCHANGED faults ELSE waiting # {} /\ Fault
               /\ dal' = [k \in DOMAIN dal |->
                            IF \E i \in chunks : s.chunks[i].at = k
                            THEN [dal[k] EXCEPT !.status =
                                    status[CHOOSE i \in chunks : s.chunks[i].at = k]]
                            ELSE dal[k]]
               /\ \/ /\ retry # <<>>
                     /\ task' = [task EXCEPT ![Reconciler].pc = "republish",
                                             ![Reconciler].retry = retry]
                  \/ /\ retry = <<>> /\ waiting # {}
                     \* persisted only if the detail text changed
                     /\ \E pc \in {"persist", "next"} :
                          Goto(Reconciler, pc, IF pc = "persist" THEN s ELSE None)
                  \/ /\ retry = <<>> /\ waiting = {}
                     /\ Goto(Reconciler, "inject", s)
      /\ UNCHANGED <<config, file, tmp, fd, lock, todo, inbox>>

\* No DAL node to ask, or no answer from it.
NoStatus ==
  /\ At(Reconciler, "status")
  /\ IF config.dal_node_endpoint THEN Fault ELSE UNCHANGED faults
  /\ Return(Reconciler)
  /\ UNCHANGED <<config, file, tmp, fd, todo, dal, inbox>>

exhausted(attempts) == attempts >= MaxAttempts

\* One chunk of the list to retry; the copy is persisted after the last, and
\* forgotten if the payload is missing or a call fails.
Republish ==
  LET s == stored(Reconciler)
      i == Head(task[Reconciler].retry)
      rest == Tail(task[Reconciler].retry)
      range == submission_chunk_bytes(s, i)
      attempts == s.chunks[i].attempts
      after == Append(dal, Publication(s, range))
  IN  /\ At(Reconciler, "republish")
      /\ s.payload => ~exhausted(attempts)
      /\ \/ /\ s.payload
            /\ dal' = after
            /\ task' = [task EXCEPT ![Reconciler] =
                 [pc |-> IF rest = <<>> THEN "persist" ELSE "republish",
                  stored |-> [s EXCEPT !.chunks[i] = chunk(range, attempts + 1)],
                  retry |-> rest]]
            /\ UNCHANGED <<lock, faults>>
         \/ /\ IF s.payload
               THEN Fault /\ dal' \in {dal, after}
               ELSE UNCHANGED <<dal, faults>>
            /\ Advance_error(Reconciler)
      /\ UNCHANGED <<config, file, tmp, fd, todo, inbox>>

GiveUp ==
  LET s == stored(Reconciler)
  IN  /\ At(Reconciler, "republish")
      /\ s.payload
      /\ exhausted(s.chunks[Head(task[Reconciler].retry)].attempts)
      /\ Goto(Reconciler, "persist", [s EXCEPT !.status = "Failed"])
      /\ UNCHANGED <<config, file, tmp, fd, lock, todo, dal, inbox, faults>>

-----------------------------------------------------------------------------
(***************************************************************************)
(* Both threads: inject into the inbox, and persist the result.            *)
(***************************************************************************)
\* Mutant: an injection that fails is reported as done.
inject_error_as_success(s) == [s EXCEPT !.status = "SubmittedToL1"]

inject_error(s) == [s EXCEPT !.status = "Failed"]

\* The pointer to a submission's chunks; of a direct message, the payload.
dal_pointer_from_submission(s) == [id |-> s.id, chunks |-> s.chunks]

inject_direct_message(m) == Append(inbox, m)

\* encode_kernel_inbox_message refuses a pointer with too many chunks (Wire).
encodes(s) == s.id \in Direct \/ Len(s.chunks) <= MaxPointers

\* The client may fail after the message has left.
Inject(t) ==
  LET s == stored(t)
      after == inject_direct_message(dal_pointer_from_submission(s))
  IN  /\ At(t, "inject")
      /\ encodes(s)
      /\ \/ /\ inbox' = after
            /\ Goto(t, "persist", [s EXCEPT !.status = "SubmittedToL1"])
            /\ UNCHANGED <<lock, faults>>
         \/ /\ Fault
            /\ inbox' \in {inbox, after}
            /\ IF t = Reconciler
               THEN Advance_error(t)
               ELSE Goto(t, "persist", inject_error(s)) /\ UNCHANGED lock
      /\ UNCHANGED <<config, file, tmp, fd, todo, dal>>

\* A pointer that does not encode is an error, and will be one in every pass.
CannotPoint ==
  /\ At(Reconciler, "inject")
  /\ ~encodes(stored(Reconciler))
  /\ Advance_error(Reconciler)
  /\ UNCHANGED <<config, file, tmp, fd, todo, dal, inbox, faults>>

\* An error ends a request, and the whole pass of the reconciler.
Persist(t) ==
  /\ At(t, "persist")
  /\ \/ /\ persist_submission(t)
        /\ Return(t)
        /\ UNCHANGED <<todo, faults>>
     \/ /\ persist_error(t)
        /\ IF t = Reconciler
           THEN Goto(t, "idle", None) /\ todo' = {} /\ lock' = None
           ELSE Return(t) /\ UNCHANGED todo
  /\ UNCHANGED <<config, dal, inbox>>

-----------------------------------------------------------------------------
(***************************************************************************)
(* The process and L1.                                                     *)
(***************************************************************************)
\* The process dies and starts again, perhaps with other options.  A tmp file
\* that it leaves is emptied before anybody renames it.
Crash ==
  /\ Fault
  /\ config' \in Config
  /\ lock' = None
  /\ todo' = {}
  /\ tmp' = [id \in Id |-> None]
  /\ fd' = [t \in Thread |-> "closed"]
  /\ task' = [t \in Thread |->
       [pc |-> CASE t = Reconciler -> "idle"
                 [] t # Reconciler /\ At(t, "new") -> "new"
                 [] OTHER -> "done",
        stored |-> None, retry |-> <<>>]]
  /\ UNCHANGED <<file, dal, inbox>>

\* MAX_WAITING_ATTESTATION_LEVEL_AGE levels are baked.
Bake ==
  /\ \E p \in Range(dal) : p.status = "waiting_attestation"
  /\ dal' = [i \in DOMAIN dal |->
       IF dal[i].status = "waiting_attestation"
       THEN [dal[i] EXCEPT !.status = "stale"] ELSE dal[i]]
  /\ UNCHANGED <<config, file, tmp, fd, lock, task, todo, inbox, faults>>

Advance(t) ==
  \/ PublishNext(t) \/ PersistChunk(t) \/ AllPublished(t) \/ CannotPublish(t)
  \/ Inject(t) \/ Persist(t) \/ CreateTmp(t) \/ WriteTmp(t)

process_submission(id) ==
  Refuse(id) \/ Accept(id) \/ MarkFailed(id) \/ Advance(id)

reconcile_loop ==
  Tick \/ NextSubmission \/ EndPass \/ CheckStatus \/ NoStatus \/ Republish
    \/ GiveUp \/ CannotPoint \/ Advance(Reconciler)

Next ==
  \/ \E id \in Id : Request(id) \/ process_submission(id) \/ Disconnect(id)
  \/ reconcile_loop
  \/ Crash
  \/ Bake

\* A running task goes on, the ticker ticks, and L1 bakes: the runtime schedules
\* its threads, and it is assumed that every call to octez-client and to the two
\* nodes returns, with an answer or an error (the code sets no timeout on them).
\* Nothing is assumed of clients, crashes, or answers.
Fairness ==
  /\ \A id \in Id : WF_vars(process_submission(id))
  /\ WF_vars(reconcile_loop)
  /\ WF_vars(Bake)

Spec == Init /\ [][Next]_vars /\ Fairness

-----------------------------------------------------------------------------
(***************************************************************************)
(* Properties.                                                             *)
(***************************************************************************)
HasStatus(id, statuses) == Readable(file[id]) /\ file[id].status \in statuses

Active(id) == HasStatus(id, {"PendingDal", "CommitmentIncluded"})

\* A publication that a chunk record names holds the chunk's range.
InPlace(id, chunks) ==
  \A i \in DOMAIN chunks :
    LET p == dal[chunks[i].at]
    IN  /\ p.id = id
        /\ p.start = Published(SubSeq(chunks, 1, i - 1))
        /\ p.payload_len = chunks[i].payload_len

\* A pointer in the inbox names attested chunks that make up exactly the
\* payload, in order, whatever chunk sizes, retries, crashes and races led to
\* it: the kernel can decode the pointer and fetch what it points at.
PointersDeliverable ==
  \A m \in Range(inbox) : m.id \notin Direct =>
    /\ Len(m.chunks) <= MaxPointers /\ Published(m.chunks) = PayloadLen
    /\ InPlace(m.id, m.chunks)
    /\ \A i \in DOMAIN m.chunks : dal[m.chunks[i].at].status = "attested"

\* A submission reported as on L1 is in the inbox.
SubmittedIsInjected ==
  \A id \in Id : HasStatus(id, {"SubmittedToL1"}) =>
    \E m \in Range(inbox) : m.id = id

\* A submission that is not finished can be taken up from its file alone, while
\* clients wait for their answers: the file can be read, it has its payload, and
\* its chunks are the payload's beginning, or all of it.
Resumable ==
  \A id \in Id : file[id] # None /\ ~HasStatus(id, {"SubmittedToL1", "Failed"}) =>
    /\ Readable(file[id])
    /\ file[id].payload
    /\ InPlace(id, file[id].chunks)
    /\ Published(file[id].chunks) <= PayloadLen
    /\ file[id].status = "CommitmentIncluded" => Published(file[id].chunks) = PayloadLen

\* What no pass will ever finish: a file that two threads have torn, and a
\* submission in more chunks than a pointer can name.
Stuck(id) ==
  \/ file[id] \in {Empty, Torn}
  \/ Active(id) /\ Len(file[id].chunks) > MaxPointers

\* Every stored submission is submitted or fails in the end, if every call
\* returns and the operator has a DAL node to work with, unless it is stuck.
Terminates ==
  \A id \in Id :
    file[id] # None ~> \/ HasStatus(id, {"SubmittedToL1", "Failed"})
                       \/ Stuck(id)
                       \/ ~config.dal_node_endpoint

\* While clients wait for their answers, a submission reaches the inbox a
\* second time only if something failed in between.
DuplicatesNeedFaults ==
  \A id \in Id :
    Cardinality({i \in DOMAIN inbox : inbox[i].id = id}) <= 1 + faults

\* A status of SubmittedToL1 or Failed is terminal (apps/wallet/src/lib.rs,
\* wait_for_operator_terminal).
TerminalIsFinal ==
  [][\A id \in Id : \A status \in {"SubmittedToL1", "Failed"} :
       HasStatus(id, {status}) => HasStatus(id, {status})']_vars
=============================================================================
