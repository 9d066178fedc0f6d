------------------------------ MODULE Delivery ------------------------------
(***************************************************************************)
(* The way of a note from a publisher to a watch-only wallet.              *)
(*                                                                         *)
(*  - A publisher encodes a message, publishes it in DAL slots and posts a *)
(*    pointer; the kernel reads it back (DalPayload) and, if its ledger    *)
(*    accepts the message, stores the notes in durable chunks.             *)
(*  - A watch-only wallet (the detection service, or the wallet's watch    *)
(*    commands) fetches the notes past its cursor from the rollup node,    *)
(*    several at a time, one key per request, and records those that its   *)
(*    keys recognise.  It reads every key at the node's head, which moves  *)
(*    on, and may move to another branch, between two requests.            *)
(*                                                                         *)
(* Whether the ledger accepts a delivered message is left open here: that  *)
(* is Kernel's and Ledger's subject.                                       *)
(***************************************************************************)
EXTENDS Submission, FiniteSets

CONSTANTS
  ChunkSize,    \* the operator's chunk sizes
  NoteChunk,    \* MAX_NOTE_CHUNK_BYTES, DURABLE_NOTE_CHUNK_BYTES
  Concurrency,  \* TZEL_SYNC_CONCURRENCY
  WatchedKey,   \* the master key of the watched wallet
  Addresses,    \* its addresses: 0 .. Addresses - 1
  MaxNotes, MaxEdits, MaxFaults   \* bounds

ASSUME DeliveryAssumption ==
  /\ ChunkSize \subseteq 1 .. SlotSize
  /\ NoteChunk \in Nat \ {0} /\ Concurrency \in 1..128
  /\ {Addresses, MaxNotes, MaxEdits, MaxFaults} \subseteq Nat
  /\ \A n \in DOMAIN Plain : Plain[n].j \in Nat

VARIABLES
  pending,    \* the publication the kernel has yet to read, or NoMessage
  notes,      \* the kernel's durable notes, at the node's head
  published,  \* every note that some branch ever stored, with its index
  reorged,    \* whether the head ever left a branch
  watch,      \* the watch wallet's file, or NoFile
  sync,       \* the sync that is running, or Idle
  faults      \* failed syncs, reorganisations and re-initialisations so far

vars == <<pending, notes, published, reorged, watch, sync, faults>>

NoMessage == [bytes |-> <<>>]
NoFile == [mode |-> "none", addresses |-> 0, scanned |-> 0, records |-> <<>>]
Idle == [on |-> FALSE]

Fault == faults < MaxFaults /\ faults' = faults + 1

Init ==
  /\ pending = NoMessage
  /\ notes = <<>>
  /\ published = {}
  /\ reorged = FALSE
  /\ watch = NoFile
  /\ sync = Idle
  /\ faults = 0

-----------------------------------------------------------------------------
(***************************************************************************)
(* Publication.  A publisher may also post bytes that are no encoding of   *)
(* its message and pointers that do not fit.  What the kernel reads does   *)
(* not depend on its notes: publications that stay around to be changed    *)
(* are explored while there are none.                                      *)
(***************************************************************************)
\* The kind a pointer declares.  No kind names a pointer.
kernel_message_kind(m) == IF m.kind = "DalPointer" THEN "Transfer" ELSE m.kind

Publication(m, bytes, size) ==
  LET pointer == dal_pointer_from_submission(kernel_message_kind(m), bytes, size)
  IN  [message |-> m, bytes |-> bytes, size |-> size, edits |-> 0,
       pointer |-> pointer, attested |-> DOMAIN pointer.chunks]

Exact(p) == p = Publication(p.message, encode_kernel_inbox_message(p.message), p.size)

Publish(m, size) ==
  /\ pending = NoMessage /\ watch = NoFile /\ notes = <<>>
  /\ pending' = Publication(m, encode_kernel_inbox_message(m), size)
  /\ UNCHANGED <<notes, published, reorged, watch, sync, faults>>

\* A token altered, one too many or one too few.  What bytes decode to does
\* not depend on how they are cut: one chunk size is enough.
Edits(bytes) ==
  {[bytes EXCEPT ![i] = t] : i \in DOMAIN bytes, t \in 0 .. 3}
    \cup {[bytes EXCEPT ![i] = @ + 1] : i \in DOMAIN bytes}
    \cup {[bytes EXCEPT ![i] = IF @ > 0 THEN @ - 1 ELSE Present] : i \in DOMAIN bytes}
    \cup {Append(bytes, 0), Front(bytes)}

Edit(bytes) ==
  /\ pending # NoMessage
  /\ pending.edits < MaxEdits /\ pending.size = SlotSize
  /\ bytes # pending.bytes
  /\ pending' = [Publication(pending.message, bytes, pending.size)
                   EXCEPT !.edits = pending.edits + 1]
  /\ UNCHANGED <<notes, published, reorged, watch, sync, faults>>

\* A pointer of another kind, with chunks left out, swapped or of another
\* length, to another slot, or posted before every slot is attested.
OtherKind(p) ==
  {[p EXCEPT !.kind = k] : k \in DOMAIN KindTag}

OtherChunks(p) ==
  {[p EXCEPT !.chunks = Front(@)], [p EXCEPT !.chunks = Reverse(@)]}

LongerChunk(p) ==
  {[p EXCEPT !.chunks[i].payload_len = @ + d] : i \in DOMAIN p.chunks, d \in {1, 2}}

ShorterPayload(p) ==
  {[p EXCEPT !.chunks[i].payload_len = @ - 1, !.payload_len = @ - 1] : i \in DOMAIN p.chunks}

OtherSlot(p) ==
  {[p EXCEPT !.chunks[i].slot_index = @ + d] : i \in DOMAIN p.chunks, d \in {1, NumberOfSlots}}

Pointers(p) ==
  OtherKind(p) \cup OtherChunks(p) \cup LongerChunk(p) \cup ShorterPayload(p) \cup OtherSlot(p)

Misdirect(pointer, attested) ==
  /\ pending # NoMessage
  /\ Exact(pending)
  /\ pending' = [pending EXCEPT !.pointer = pointer, !.attested = attested]
  /\ UNCHANGED <<notes, published, reorged, watch, sync, faults>>

\* What the kernel reads through a pointer that was encoded, posted to its
\* inbox and decoded there.
Fetched(p) ==
  LET m == pointer_to_wire(p.pointer)
      posted == decode_kernel_inbox_message(encode_kernel_inbox_message(m))
  IN  IF EncodableMessage(m) /\ posted.ok
      THEN fetch_kernel_message_from_dal(
             publish(p.bytes, p.size), p.attested,
             pointer_from_wire(posted.value, p.pointer.payload_hash))
      ELSE Fail

-----------------------------------------------------------------------------
(***************************************************************************)
(* The kernel's notes.                                                     *)
(***************************************************************************)
\* The notes a message adds, as commitment and encrypted note.
published_notes(m) ==
  LET Note(cm, enc) == <<m.fields[cm], m.fields[enc]>>
  IN  CASE m.kind = "Shield" -> <<Note(6, 7), Note(8, 9)>>
        [] m.kind = "Transfer" -> <<Note(4, 8), Note(5, 9), Note(6, 10)>>
        [] m.kind = "Unshield" ->
             (IF m.fields[8] = <<>> THEN <<>> ELSE <<<<m.fields[6], m.fields[8][1]>>>>)
               \o <<Note(9, 10)>>
        [] OTHER -> <<>>

\* The commitment and the encryption of an output are those of notes, though
\* perhaps of two: a note that nobody can open is for a key that nobody has.
ASSUME OutputsAssumption ==
  \A m \in Message : \A note \in Range(published_notes(m)) :
    note[1] \in DOMAIN Plain /\ note[2] \in DOMAIN Plain

\* What the kernel answers to an accepted message, and to a refused one.
ResultOf(m) ==
  LET at == Len(notes)
      result == CASE m.kind = "Shield" -> <<m.fields[6], at, m.fields[8], at + 1>>
                  [] m.kind = "Transfer" -> <<at, at + 1, at + 2>>
                  [] m.kind = "Unshield" /\ m.fields[8] = <<>> -> <<<<>>, at>>
                  [] m.kind = "Unshield" /\ m.fields[8] # <<>> -> <<<<at>>, at + 1>>
                  [] OTHER -> <<>>
  IN  [kind |-> IF m.kind \in {"Shield", "Transfer", "Unshield"} THEN m.kind
                ELSE "Configured",
       fields |-> result]
Refused == [kind |-> "Error", fields |-> <<<<0>>>>]

\* An encrypted note has a part for detection (ct_d, tag), one for viewing
\* (ct_v, nonce, encrypted_data) and one for its sender (outgoing_ct).
encode_published_note(cm, enc) == <<cm, enc, enc, enc>>
decode_published_note(bytes) ==
  LET part(i) == Output[bytes[i]].enc
  IN  [cm |-> bytes[1],
       enc |-> [ct_d |-> part(2).ct_d, tag |-> part(2).tag,
                ct_v |-> part(3).ct_v, encrypted_data |-> part(3).encrypted_data,
                outgoing_ct |-> part(4).outgoing_ct]]

\* A small note is one value, a large one its length and its chunks.
write_note_payload(bytes) ==
  IF Len(bytes) <= NoteChunk
  THEN [direct |-> bytes, len |-> 0, chunks |-> <<>>]
  ELSE [direct |-> <<>>, len |-> Len(bytes),
        chunks |-> [i \in 1 .. div_ceil(Len(bytes), NoteChunk) |->
                      chunk_bytes(bytes, NoteChunk, i)]]

\* The ledger accepts the message: its notes are appended.
Accept(m) ==
  LET added == published_notes(m)
      stored == [i \in DOMAIN added |->
                   write_note_payload(encode_published_note(added[i][1], added[i][2]))]
  IN  /\ added # <<>> /\ Len(notes) + Len(added) <= MaxNotes
      /\ notes' = notes \o stored
      /\ published' = published \cup
           {<<Len(notes) + i - 1, added[i][1], added[i][2]>> : i \in DOMAIN added}

\* The kernel reads the pointer's payload.  If it gets a message that somebody
\* made, the ledger accepts it or not; any other has the proof or the signature
\* of another message, and is refused.
Deliver ==
  /\ pending # NoMessage
  /\ pending' = NoMessage
  /\ \/ UNCHANGED <<notes, published>>
     \/ \E got \in {Fetched(pending)} :
          got.ok /\ got.value \in Message /\ Accept(got.value)
  /\ UNCHANGED <<reorged, watch, sync, faults>>

\* A publication and its delivery in one step, while the watch wallet is at
\* work: in chunks large enough the kernel gets the message itself, by
\* DeliveredExact.
PublishAndDeliver(m) ==
  /\ watch # NoFile
  /\ Accept(m)
  /\ UNCHANGED <<pending, reorged, watch, sync, faults>>

\* The node's head moves to a branch that forks off before the last notes.
Reorg(n) ==
  /\ Fault
  /\ n < Len(notes)
  /\ notes' = SubSeq(notes, 1, n)
  /\ reorged' = TRUE
  /\ UNCHANGED <<pending, published, watch, sync>>

-----------------------------------------------------------------------------
(***************************************************************************)
(* Fetching published notes.                                               *)
(***************************************************************************)
Count == sync.count - sync.cursor

\* TZEL_SYNC_CONCURRENCY, 4 by default; 0 and more than 128 are refused.
sync_concurrency == Concurrency

\* Dispatch as many of the offsets as may be in flight.
dispatch(s) ==
  LET room == sync_concurrency - Cardinality(DOMAIN s.in_flight)
      left == s.count - s.cursor - s.next
      n == IF room < left THEN room ELSE left
      new == s.next .. s.next + n - 1
  IN  [s EXCEPT !.next = @ + n,
                !.in_flight = [off \in DOMAIN @ \cup new |->
                                 IF off \in new THEN [total |-> 0, bytes |-> <<>>]
                                 ELSE @[off]]]

\* Mutant: the results are kept in the order they arrive.
fill_in_order(results, off, payload) ==
  [o \in 0 .. Cardinality(DOMAIN results) |->
     IF o \in DOMAIN results THEN results[o] ELSE payload]

\* results[off] = Some(payload)
fill(results, off, payload) ==
  [o \in DOMAIN results \cup {off} |-> IF o = off THEN payload ELSE results[o]]

Without(f, x) == [y \in DOMAIN f \ {x} |-> f[y]]

fetched(off, payload) ==
  sync' = dispatch([sync EXCEPT !.in_flight = Without(@, off),
                                !.results = fill(@, off, payload)])

\* The u64 that the store holds at the head.
tree_size == Len(notes)

SyncStart ==
  /\ watch # NoFile /\ sync = Idle
  /\ watch.scanned < tree_size
  /\ sync' = dispatch([on |-> TRUE, cursor |-> watch.scanned, count |-> tree_size,
                       next |-> 0, in_flight |-> <<>>, results |-> <<>>])
  /\ UNCHANGED <<pending, notes, published, reorged, watch, faults>>

\* With nothing past the cursor the sync changes nothing, and a cursor ahead
\* of the tree is an error.
SyncNothing ==
  /\ watch # NoFile /\ sync = Idle
  /\ watch.scanned >= tree_size
  /\ UNCHANGED vars

\* watch sync, once or --watch, which ends at the first error.
cmd_watch_sync == SyncStart \/ SyncNothing

\* One round of the detection service.
detect_service_sync_once == SyncStart

\* The value at an index of the head, or its length if it is in chunks.  A
\* note that is not there any more is None, which ends the sync at its end.
FetchNote(off) ==
  LET i == sync.cursor + off + 1
      note == notes[i]
  IN  /\ sync.in_flight[off].total = 0
      /\ CASE i > Len(notes) -> fetched(off, <<>>)
           [] i <= Len(notes) /\ note.direct # <<>> -> fetched(off, note.direct)
           [] OTHER -> sync' = [sync EXCEPT !.in_flight[off].total = note.len]
      /\ UNCHANGED <<pending, notes, published, reorged, watch, faults>>

\* The next chunk, from whatever the head is now.
FetchChunk(off) ==
  LET i == sync.cursor + off + 1
      task == sync.in_flight[off]
      read == Len(task.bytes) \div NoteChunk
      bytes == task.bytes \o notes[i].chunks[read + 1]
  IN  /\ task.total > 0
      /\ CASE i > Len(notes) -> sync' = Idle
           [] i <= Len(notes) /\ read + 1 < div_ceil(task.total, NoteChunk) ->
                sync' = [sync EXCEPT !.in_flight[off].bytes = bytes]
           [] OTHER -> IF Len(bytes) = task.total THEN fetched(off, bytes) ELSE sync' = Idle
      /\ UNCHANGED <<pending, notes, published, reorged, watch, faults>>

\* A request times out, or the process stops: nothing of the sync is kept.
SyncAbort ==
  /\ sync # Idle
  /\ Fault
  /\ sync' = Idle
  /\ UNCHANGED <<pending, notes, published, reorged, watch>>

-----------------------------------------------------------------------------
(***************************************************************************)
(* The watch wallet.                                                       *)
(***************************************************************************)
Record(i, addr, cm) == [index |-> i, addr_index |-> addr, cm |-> cm]

First(i, found, cm) ==
  IF found = {} THEN <<>>
  ELSE <<Record(i, CHOOSE a \in found : \A b \in found : a <= b, cm)>>

\* The keys that the wallet exports, and the file made of them.
Watched == derive_account(WatchedKey)
from_detect_wallet == derive_detect_root(Watched.incoming_seed)
from_view_wallet ==
  [a \in 0 .. Addresses - 1 |->
     [keys |-> derive_kem_keys(Watched.incoming_seed, a),
      address |-> payment_address(Watched, a)]]
from_outgoing_wallet == Watched.outgoing_seed

from_material(mode, addresses) ==
  [mode |-> mode, addresses |-> addresses, scanned |-> 0, records |-> <<>>]

detect_record_for_note(i, n) ==
  First(i, {a \in 0 .. watch.addresses - 1 :
              detect(n.enc, derive_kem_detect_keys_from_root(from_detect_wallet, a))},
        n.cm)

\* Mutant: the opened note is not compared with the commitment.
view_record_for_note_unchecked(i, n) ==
  First(i, {a \in 0 .. watch.addresses - 1 :
              LET keys == from_view_wallet[a].keys
              IN  detect(n.enc, keys.d) /\ decrypt_memo(n.enc, keys.v) # <<>>},
        n.cm)

\* The commitment must be the one of the opened note.
view_record_for_note(i, n) ==
  LET sees(a) ==
        LET keys == from_view_wallet[a].keys
            opened == decrypt_memo(n.enc, keys.v)
        IN  /\ detect(n.enc, keys.d)
            /\ opened # <<>>
            /\ note_commitment(from_view_wallet[a].address, opened[1].v, opened[1].rseed)
                 = Output[n.cm].cm
  IN  First(i, {a \in 0 .. watch.addresses - 1 : sees(a)}, n.cm)

outgoing_record_for_note(i, n) ==
  LET cm == Output[n.cm].cm
      recovery == decrypt_outgoing_recovery(from_outgoing_wallet, cm, n.enc.outgoing_ct)
  IN  IF recovery # <<>> /\ commitment(recovery[1]) = cm
      THEN <<Record(i, 0, n.cm)>> ELSE <<>>

record_for_note(i, n) ==
  CASE watch.mode = "detect" -> detect_record_for_note(i, n)
    [] watch.mode = "view" -> view_record_for_note(i, n)
    [] watch.mode = "outgoing" -> outgoing_record_for_note(i, n)

\* The records, with that of a note unless it is known already.
with_record(records, i, n) ==
  LET found == record_for_note(i, n)
  IN  IF found = <<>> \/ \E k \in DOMAIN records : /\ records[k].index = i
                                                  /\ records[k].cm = found[1].cm
      THEN records ELSE Append(records, found[1])

\* The records after the whole feed.
feed_records(feed) ==
  LET after[k \in 0 .. Len(feed)] ==
        IF k = 0 THEN watch.records
        ELSE with_record(after[k - 1], feed[k].index, feed[k].note)
  IN  after[Len(feed)]

\* Mutant: the cursor stays where it is when nothing is found.
apply_watch_feed_found(feed, next_cursor) ==
  [watch EXCEPT !.records = feed_records(feed),
                !.scanned = IF feed_records(feed) = watch.records THEN @ ELSE next_cursor]

apply_watch_feed(feed, next_cursor) ==
  [watch EXCEPT !.records = feed_records(feed), !.scanned = next_cursor]

\* The feed is applied and the file replaced, in one rename; a missing note
\* fails the sync.
SyncFinish ==
  LET feed == [k \in 1 .. Count |->
                 [index |-> sync.cursor + k - 1,
                  note |-> decode_published_note(sync.results[k - 1])]]
  IN  /\ sync # Idle
      /\ sync.in_flight = <<>>
      /\ watch' = IF \E off \in DOMAIN sync.results : sync.results[off] = <<>>
                  THEN watch ELSE apply_watch_feed(feed, sync.count)
      /\ sync' = Idle
      /\ UNCHANGED <<pending, notes, published, reorged, faults>>

\* The keys were exported when the wallet had some number of addresses; the
\* key for outgoing notes has nothing to do with them.  The commands that
\* write the file hold its lock, as a sync does.
WatchInit(mode, addresses) ==
  /\ sync = Idle /\ pending = NoMessage
  /\ mode = "outgoing" => addresses = Addresses
  /\ IF watch = NoFile THEN UNCHANGED faults ELSE Fault
  /\ watch' = from_material(mode, addresses)
  /\ UNCHANGED <<pending, notes, published, reorged, sync>>

-----------------------------------------------------------------------------
Fetch(off) == FetchNote(off) \/ FetchChunk(off)

SyncStep ==
  \/ detect_service_sync_once
  \/ SyncFinish
  \/ sync # Idle /\ \E off \in DOMAIN sync.in_flight : Fetch(off)

Next ==
  \/ \E m \in Message, size \in ChunkSize : Publish(m, size)
  \/ pending # NoMessage /\ \E bytes \in Edits(pending.bytes) : Edit(bytes)
  \/ pending # NoMessage /\ \E pointer \in Pointers(pending.pointer) :
       Misdirect(pointer, pending.attested)
  \/ pending # NoMessage /\ \E level \in pending.attested :
       Misdirect(pending.pointer, pending.attested \ {level})
  \/ Deliver
  \/ \E m \in Message : PublishAndDeliver(m)
  \/ \E n \in 0 .. MaxNotes - 1 : Reorg(n)
  \/ \E mode \in {"detect", "view", "outgoing"}, k \in 1 .. Addresses : WatchInit(mode, k)
  \/ SyncStep
  \/ cmd_watch_sync
  \/ SyncAbort

\* The detection service syncs on a timer, also after an error.  It is assumed that
\* the node answers, or fails, in the end: the read of the tree's size has no timeout.
Spec == Init /\ [][Next]_vars /\ WF_vars(SyncStep)

-----------------------------------------------------------------------------
\* The n-th note is worth the fee and the operator's.
PaysOperator(n) ==
  /\ n \in DOMAIN Plain
  /\ Plain[n].to = OperatorKey /\ Plain[n].j = FeeIndex /\ Plain[n].v = RequiredDalFee

\* A message of the declared kind; a spend among them stores a note for the operator.
PaidMessage(m) ==
  /\ m.kind = pending.pointer.kind
  /\ submission_kind_requires_dal_fee_policy(m.kind) =>
       \E note \in Range(published_notes(m)) : note[1] = note[2] /\ PaysOperator(note[2])

\* The bytes of a message are unique: no two strings decode to one message,
\* so what is hashed, signed or pointed at is what the kernel reads.  And what
\* it answers reads back as it was, from the whole value only.
UniqueEncoding ==
  pending # NoMessage =>
    \A m \in {decode_kernel_inbox_message(pending.bytes)} : m.ok =>
      /\ encode_kernel_inbox_message(m.value) = pending.bytes
      /\ \A r \in {ResultOf(m.value), Refused} :
           \A bytes \in {encode_kernel_result(r)} :
             /\ decode_kernel_result(bytes) = Took(r, <<>>)
             /\ ~decode_kernel_result(Front(bytes)).ok
             /\ ~decode_kernel_result(Append(bytes, 0)).ok

\* Whatever the pointer says and however much is attested, the kernel gets
\* the message that was published or none.
DeliveredOrNone ==
  pending # NoMessage =>
    \A got \in {Fetched(pending)} :
      got.ok => got = decode_kernel_inbox_message(pending.bytes)

\* What one pointer can carry: the kernel reads a payload up to its limit, and
\* the encoded list of chunks has one, too.
Carried(p) ==
  Len(p.bytes) <= MaxDalPayload /\ 3 * Len(p.pointer.chunks) <= MaxChunks

\* The kernel gets a published message, if the pointer is the operator's and
\* every slot is attested, just when the payload is within the kernel's limit
\* and cut into no more chunks than a pointer can list, at every length of the
\* payload and of its last chunk.  So what the operator accepts and can point
\* at the kernel reads as a message of the declared kind, and a spend among it
\* stores the note that pays the operator.
DeliveredExact ==
  pending # NoMessage =>
    \A got \in {Fetched(pending)},
       whole \in {dal_pointer_from_submission(pending.pointer.kind, pending.bytes,
                                              pending.size)} :
        /\ Exact(pending) =>
             (got.ok /\ got.value = pending.message) =
               (pending.message.kind # "DalPointer" /\ Carried(pending))
        /\ /\ accepts_for_dal(pending.pointer.kind, pending.bytes)
           /\ Carried(pending)
           /\ pending.pointer = whole /\ pending.attested = DOMAIN whole.chunks
           => got.ok /\ PaidMessage(got.value)

\* The note at an index of the head, and whether the wallet's keys know it.
read_persisted_note(note) == note.direct \o FlattenSeq(note.chunks)
cm_at(i) == read_persisted_note(notes[i + 1])[1]
enc_at(i) == read_persisted_note(notes[i + 1])[2]

Mine(n, addresses) == Plain[n].to = WatchedKey /\ Plain[n].j < addresses

Known(i) ==
  CASE watch.mode = "detect" ->
         \E a \in 0 .. watch.addresses - 1 :
           detect(Output[enc_at(i)].enc, from_view_wallet[a].keys.d)
    [] watch.mode = "view" -> cm_at(i) = enc_at(i) /\ Mine(enc_at(i), watch.addresses)
    [] watch.mode = "outgoing" -> cm_at(i) = enc_at(i) /\ Plain[enc_at(i)].from = WatchedKey

\* As long as the head stays on one branch, a watch wallet has recorded
\* exactly the notes below its cursor that its keys know, each once and in
\* order, whatever the order of the answers and whichever syncs failed.
WatchExact ==
  watch # NoFile /\ ~reorged =>
    LET known == {i \in 0 .. watch.scanned - 1 : Known(i)}
        rs == watch.records
    IN  /\ {rs[k].index : k \in DOMAIN rs} = known
        /\ \A k \in 1 .. Len(rs) - 1 : rs[k].index < rs[k + 1].index
        /\ \A k \in DOMAIN rs : rs[k].cm = cm_at(rs[k].index)

\* A viewed or outgoing record is a note for that address whose commitment
\* some branch stored at that index, and whose encryption was stored there too:
\* with it or, when chunks were read from two branches, on another one.
ViewedReal ==
  watch.mode \in {"view", "outgoing"} =>
    \A r \in Range(watch.records) :
      /\ \E p \in published : p[1] = r.index /\ p[2] = r.cm
      /\ \E p \in published : p[1] = r.index /\ p[3] = r.cm
      /\ watch.mode = "view" => Plain[r.cm].to = WatchedKey /\ Plain[r.cm].j = r.addr_index

\* On a head that stays on one branch a watch wallet gets to the end of the
\* notes.
WatchCatchesUp == <>[](watch # NoFile /\ ~reorged => watch.scanned = Len(notes))
=============================================================================
