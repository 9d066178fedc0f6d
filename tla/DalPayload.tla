----------------------------- MODULE DalPayload -----------------------------
(***************************************************************************)
(* A payload on the data availability layer: how the operator cuts it into *)
(* slots and points at them, and how the kernel reads it back              *)
(* (fetch_kernel_message_from_dal).  A slot is named by its published      *)
(* level and its index; the operator uses one slot index and a level of    *)
(* its own for each chunk.                                                 *)
(***************************************************************************)
EXTENDS Wire

CONSTANTS
  SlotSize, PageSize, NumberOfSlots,   \* the DAL parameters
  SlotIndex,                           \* the slot the operator publishes in
  MaxDalPayload                        \* MAX_DAL_PAYLOAD_BYTES

ASSUME DalAssumption ==
  /\ {SlotSize, PageSize, NumberOfSlots} \subseteq Nat \ {0}
  /\ SlotSize % PageSize = 0
  /\ SlotIndex \in 0 .. NumberOfSlots - 1
  /\ MaxDalPayload \in Nat

\* A hash without collisions.
hash(bytes) == <<"hash", bytes>>

div_ceil(n, d) == (n + d - 1) \div d

-----------------------------------------------------------------------------
(***************************************************************************)
(* The operator's side.                                                    *)
(***************************************************************************)
\* The i-th chunk of the payload.
chunk_bytes(bytes, size, i) ==
  SubSeq(bytes, (i - 1) * size + 1, IF i * size < Len(bytes) THEN i * size ELSE Len(bytes))

\* A slot is filled up with zeros.
post_dal_slot(chunk) == chunk \o [i \in 1 .. SlotSize - Len(chunk) |-> 0]

\* The slots, by published level.
publish(bytes, size) ==
  [i \in 1 .. div_ceil(Len(bytes), size) |-> post_dal_slot(chunk_bytes(bytes, size, i))]

dal_pointer_from_submission(kind, bytes, size) ==
  [kind |-> kind,
   chunks |-> [i \in 1 .. div_ceil(Len(bytes), size) |->
                 [published_level |-> i, slot_index |-> SlotIndex,
                  payload_len |-> Len(chunk_bytes(bytes, size, i))]],
   payload_len |-> Len(bytes),
   payload_hash |-> hash(bytes)]

\* The message that the operator posts, if it can be encoded: not with too many
\* chunks.  The hash is one token, whatever it is of.
pointer_to_wire(pointer) ==
  [kind |-> "DalPointer",
   fields |-> <<pointer.kind, pointer.chunks, 0, pointer.payload_len>>]

pointer_from_wire(m, payload_hash) ==
  [kind |-> m.fields[1], chunks |-> m.fields[2], payload_len |-> m.fields[4],
   payload_hash |-> payload_hash]

-----------------------------------------------------------------------------
(***************************************************************************)
(* The kernel's side.  slots are the published ones, attested the levels   *)
(* of those the bakers attested.                                           *)
(***************************************************************************)
\* A page of a slot that is not attested is empty.
reveal_dal_page(slots, attested, chunk, page_index) ==
  IF chunk.slot_index = SlotIndex /\ chunk.published_level \in attested
  THEN SubSeq(slots[chunk.published_level],
              page_index * PageSize + 1, (page_index + 1) * PageSize)
  ELSE <<>>

\* Mutant: a page that is only partly used is not read.
page_count_floor(chunk) == chunk.payload_len \div PageSize

page_count(chunk) == div_ceil(chunk.payload_len, PageSize)

fetch_chunk(slots, attested, chunk) ==
  LET n == page_count(chunk)
      bytes == FlattenSeq([p \in 1 .. n |-> reveal_dal_page(slots, attested, chunk, p - 1)])
      len == chunk.payload_len
  IN  IF \/ len = 0 \/ len > SlotSize
         \/ chunk.slot_index >= NumberOfSlots
         \/ Len(bytes) < len
         \/ \E i \in len + 1 .. Len(bytes) : bytes[i] # 0
      THEN Fail
      ELSE Took(SubSeq(bytes, 1, len), <<>>)

fetch_payload(slots, attested, chunks) ==
  LET got == [i \in DOMAIN chunks |-> fetch_chunk(slots, attested, chunks[i])]
  IN  IF \E i \in DOMAIN got : ~got[i].ok THEN Fail
      ELSE Took(FlattenSeq([i \in DOMAIN got |-> got[i].value]), <<>>)

\* What the lengths of the chunks add up to.
declared_total(chunks) ==
  LET acc[i \in 0 .. Len(chunks)] ==
        IF i = 0 THEN 0 ELSE acc[i - 1] + chunks[i].payload_len
  IN  acc[Len(chunks)]

\* Mutant: the payload is only checked to have the declared length.
payload_matches_length(payload, pointer) == Len(payload) = pointer.payload_len

payload_matches(payload, pointer) == hash(payload) = pointer.payload_hash

\* A payload of the wrong kind is refused, and so is a pointer to a pointer,
\* which no kind names.
fetch_kernel_message_from_dal(slots, attested, pointer) ==
  LET payload == fetch_payload(slots, attested, pointer.chunks)
      message == decode_kernel_inbox_message(payload.value)
  IN  IF /\ pointer.chunks # <<>>
         /\ pointer.payload_len \in 1 .. MaxDalPayload
         /\ declared_total(pointer.chunks) = pointer.payload_len
         /\ payload.ok
         /\ payload_matches(payload.value, pointer)
         /\ message.ok
         /\ message.value.kind = pointer.kind
      THEN message
      ELSE Fail
=============================================================================
