-------------------------------- MODULE Wire --------------------------------
(***************************************************************************)
(* The kernel's wire format (core/src/kernel_wire.rs, canonical_wire.rs).  *)
(* A message is a kind and its fields in the order of the wire.  A string  *)
(* of bytes is a sequence of tokens: a fixed-width item (a field element,  *)
(* an integer, a length prefix, the encryption of a note) is one token, so *)
(* every boundary between items is kept and the widths are not.            *)
(*                                                                         *)
(* Decoding goes through prefixes: a decoder returns what it read and the  *)
(* rest, and whoever wants a whole value refuses a rest.                   *)
(***************************************************************************)
EXTENDS Naturals, Sequences, SequencesExt

CONSTANTS
  MaxBytes,    \* the longest length-prefixed field (the MAX_..._BYTES limits)
  MaxChunks    \* MAX_DAL_CHUNK_POINTERS: on the wire, a limit on the tokens
               \* of the list of pointers, below that of a whole field

ASSUME WireAssumption ==
  MaxBytes \in Nat \ {0} /\ MaxChunks \in Nat /\ MaxChunks < MaxBytes

KERNEL_WIRE_VERSION == 17

\* The tags of WireKernelInboxMessage, WireKernelResult and
\* WireKernelDalPayloadKind.
MessageTag == [ConfigureVerifier |-> 0, ConfigureBridge |-> 1, Shield |-> 2,
               Transfer |-> 3, Unshield |-> 4, DalPointer |-> 6]
ResultTag == [Configured |-> 0, Deposit |-> 1, Shield |-> 2, Transfer |-> 3,
              Unshield |-> 4, Error |-> 255]
KindTag == [Shield |-> 0, Transfer |-> 1, Unshield |-> 2,
            ConfigureVerifier |-> 3, ConfigureBridge |-> 4]

\* The presence byte of an optional field.
Absent == 0
Present == 255

\* The fields of every message and of every result, in the order of the wire.
SignedVerifierConfig == <<"fixed", "fixed", "fixed", "fixed", "felts">>
SignedBridgeConfig == <<"string", "felts">>
ShieldReq == <<"fixed", "fixed", "fixed", "fixed", "proof", "fixed", "fixed", "fixed", "fixed">>
TransferReq == <<"fixed", "felts", "fixed", "fixed", "fixed", "fixed", "proof",
                 "note", "note", "note">>
UnshieldReq == <<"fixed", "felts", "fixed", "fixed", "string", "fixed", "proof",
                 "optional note", "fixed", "note">>
DalPayloadPointer == <<"kind", "chunks", "fixed", "fixed">>
ShieldResp == <<"fixed", "fixed", "fixed", "fixed">>
TransferResp == <<"fixed", "fixed", "fixed">>
UnshieldResp == <<"optional", "fixed">>

InboxMessage ==
  [ConfigureVerifier |-> SignedVerifierConfig, ConfigureBridge |-> SignedBridgeConfig,
   Shield |-> ShieldReq, Transfer |-> TransferReq, Unshield |-> UnshieldReq,
   DalPointer |-> DalPayloadPointer]
KernelResult ==
  [Configured |-> <<>>, Deposit |-> <<>>, Shield |-> ShieldResp,
   Transfer |-> TransferResp, Unshield |-> UnshieldResp, Error |-> <<"string">>]

\* The kinds whose fields are one length-prefixed string.
Wrapped == {"Transfer", "Unshield"}

-----------------------------------------------------------------------------
(***************************************************************************)
(* Reading.                                                                *)
(***************************************************************************)
Fail == [ok |-> FALSE, value |-> <<>>, rest |-> <<>>]
Took(value, rest) == [ok |-> TRUE, value |-> value, rest |-> rest]

\* Mutant: what is left over is dropped.
decode_tze_lenient(t) == IF t.ok THEN Took(t.value, <<>>) ELSE Fail

\* A decoder that must consume everything.
decode_tze(t) == IF t.ok /\ t.rest = <<>> THEN t ELSE Fail

take_bytes(bytes, n) ==
  IF Len(bytes) < n THEN Fail
  ELSE Took(SubSeq(bytes, 1, n), SubSeq(bytes, n + 1, Len(bytes)))

take_fixed(bytes) == IF bytes = <<>> THEN Fail ELSE Took(Head(bytes), Tail(bytes))

\* A length and that many bytes.
take_dynamic(bytes, max) ==
  LET n == take_fixed(bytes)
  IN  IF ~n.ok \/ n.value > max THEN Fail ELSE take_bytes(n.rest, n.value)

\* A field that is itself encoded and then put behind its length: outer is what
\* the length gives, inner is what that decodes to.
Inner(outer, inner) ==
  IF outer.ok /\ inner.ok THEN Took(inner.value, outer.rest) ELSE Fail

encoded_felt_list_from_wire(bytes) == decode_tze(take_dynamic(bytes, MaxBytes))

kernel_proof_from_wire(bytes) ==
  LET proof == take_dynamic(bytes, MaxBytes)
      preimage == take_dynamic(proof.rest, MaxBytes)
  IN  IF proof.ok
      THEN decode_tze([preimage EXCEPT !.value = <<proof.value, preimage.value>>])
      ELSE Fail

\* A chunk pointer is three tokens: published_level, slot_index, payload_len.
\* "dynamic = MAX_DAL_CHUNK_POINTERS" limits the encoded list, so there are
\* fewer pointers than that and the limit on their number is never met.
kernel_dal_chunk_list_from_wire(bytes) ==
  LET items == decode_tze(take_dynamic(bytes, MaxChunks))
      n == Len(items.value) \div 3
      Chunk(i) == [published_level |-> items.value[3 * i - 2],
                   slot_index |-> items.value[3 * i - 1],
                   payload_len |-> items.value[3 * i]]
  IN  IF ~items.ok \/ n = 0 \/ Len(items.value) # 3 * n THEN Fail
      ELSE Took([i \in 1 .. n |-> Chunk(i)], <<>>)

encoded_note_from_wire(bytes) ==
  LET outer == take_dynamic(bytes, MaxBytes)
  IN  Inner(outer, decode_tze(take_fixed(outer.value)))

\* A presence byte, and the value read after it if it is there.
take_optional(tag, item) ==
  CASE tag.ok /\ tag.value = Absent -> Took(<<>>, tag.rest)
    [] tag.ok /\ tag.value = Present /\ item.ok -> Took(<<item.value>>, item.rest)
    [] OTHER -> Fail

kind_from_wire(bytes) ==
  LET tag == take_fixed(bytes)
      kinds == {k \in DOMAIN KindTag : tag.ok /\ KindTag[k] = tag.value}
  IN  IF kinds = {} THEN Fail ELSE Took(CHOOSE k \in kinds : TRUE, tag.rest)

TakeField(field, bytes) ==
  LET one == take_fixed(bytes)
      outer == take_dynamic(bytes, MaxBytes)
  IN  CASE field = "fixed" -> one
        [] field = "string" -> outer
        [] field = "felts" -> Inner(outer, encoded_felt_list_from_wire(outer.value))
        [] field = "proof" -> Inner(outer, kernel_proof_from_wire(outer.value))
        [] field = "note" -> encoded_note_from_wire(bytes)
        [] field = "optional note" -> take_optional(one, encoded_note_from_wire(one.rest))
        [] field = "optional" -> take_optional(one, take_fixed(one.rest))
        [] field = "kind" -> kind_from_wire(bytes)
        [] field = "chunks" -> Inner(outer, kernel_dal_chunk_list_from_wire(outer.value))

\* decode_tze_prefix, field after field: what was read up to each of them.
Taking(t, next) ==
  IF t.ok /\ next.ok THEN Took(Append(t.value, next.value), next.rest) ELSE Fail

TakeNext(t, field) == Taking(t, TakeField(field, t.rest))

TakePrefixes(layout, bytes) ==
  LET after[i \in 0 .. Len(layout)] ==
        IF i = 0 THEN Took(<<>>, bytes) ELSE TakeNext(after[i - 1], layout[i])
  IN  after

TakeFields(layout, bytes) == TakePrefixes(layout, bytes)[Len(layout)]

\* The version and the tag, as the kind that the tag stands for.
TakeEnvelope(bytes, tags) ==
  LET version == take_fixed(bytes)
      tag == take_fixed(version.rest)
      kinds == {k \in DOMAIN tags : tag.ok /\ tags[k] = tag.value}
  IN  IF version.ok /\ version.value = KERNEL_WIRE_VERSION /\ kinds # {}
      THEN Took(CHOOSE k \in kinds : TRUE, tag.rest)
      ELSE Fail

Decoded(envelope, fields) ==
  IF envelope.ok /\ fields.ok
  THEN Took([kind |-> envelope.value, fields |-> fields.value], <<>>)
  ELSE Fail

decode_kernel_inbox_message(bytes) ==
  LET envelope == TakeEnvelope(bytes, MessageTag)
      Fields(b) == decode_tze(TakeFields(InboxMessage[envelope.value], b))
      outer == take_dynamic(envelope.rest, MaxBytes)
  IN  Decoded(envelope,
              IF envelope.value \in Wrapped
              THEN decode_tze(Inner(outer, Fields(outer.value)))
              ELSE Fields(envelope.rest))

decode_kernel_result(bytes) ==
  LET envelope == TakeEnvelope(bytes, ResultTag)
  IN  Decoded(envelope, decode_tze(TakeFields(KernelResult[envelope.value], envelope.rest)))

-----------------------------------------------------------------------------
(***************************************************************************)
(* Writing.                                                                *)
(***************************************************************************)
put_dynamic(bytes) == <<Len(bytes)>> \o bytes

encoded_note_to_wire(enc) == put_dynamic(<<enc>>)

PutField(field, v) ==
  CASE field = "fixed" -> <<v>>
    [] field = "string" -> put_dynamic(v)
    [] field = "felts" -> put_dynamic(put_dynamic(v))
    [] field = "proof" -> put_dynamic(put_dynamic(v[1]) \o put_dynamic(v[2]))
    [] field = "note" -> encoded_note_to_wire(v)
    [] field = "optional note" ->
         IF v = <<>> THEN <<Absent>> ELSE <<Present>> \o encoded_note_to_wire(v[1])
    [] field = "optional" -> IF v = <<>> THEN <<Absent>> ELSE <<Present, v[1]>>
    [] field = "kind" -> <<KindTag[v]>>
    [] field = "chunks" ->
         put_dynamic(put_dynamic(FlattenSeq(
           [i \in DOMAIN v |->
              <<v[i].published_level, v[i].slot_index, v[i].payload_len>>])))

PutFields(layout, fields) ==
  FlattenSeq([i \in DOMAIN fields |-> PutField(layout[i], fields[i])])

encode_kernel_inbox_message(m) ==
  LET fields == PutFields(InboxMessage[m.kind], m.fields)
  IN  <<KERNEL_WIRE_VERSION, MessageTag[m.kind]>>
        \o (IF m.kind \in Wrapped THEN put_dynamic(fields) ELSE fields)

encode_kernel_result(r) ==
  <<KERNEL_WIRE_VERSION, ResultTag[r.kind]>> \o PutFields(KernelResult[r.kind], r.fields)

-----------------------------------------------------------------------------
(***************************************************************************)
(* What an encoder takes.  It checks the limits that a decoder checks.     *)
(***************************************************************************)
Strings == Seq(Nat)
Pointer == [published_level : Nat, slot_index : Nat, payload_len : Nat]

Encodable(field, v) ==
  CASE field = "fixed" -> v \in Nat
    [] field = "string" -> v \in Strings /\ Len(v) <= MaxBytes
    [] field = "felts" -> v \in Strings /\ Len(v) + 1 <= MaxBytes
    [] field = "proof" ->
         /\ v = <<v[1], v[2]>> /\ v[1] \in Strings /\ v[2] \in Strings
         /\ (Len(v[1]) + 1) + (Len(v[2]) + 1) <= MaxBytes
    [] field = "note" -> v \in Nat /\ 1 <= MaxBytes
    [] field = "optional note" ->
         v = <<>> \/ (v = <<v[1]>> /\ v[1] \in Nat /\ 1 <= MaxBytes)
    [] field = "optional" -> v = <<>> \/ (v = <<v[1]>> /\ v[1] \in Nat)
    [] field = "kind" -> v \in DOMAIN KindTag
    [] field = "chunks" ->
         /\ v \in Seq(Pointer) /\ 1 <= Len(v)
         /\ 3 * Len(v) <= MaxChunks /\ 3 * Len(v) + 1 <= MaxBytes

EncodableFields(layout, fields) ==
  /\ fields = [i \in 1 .. Len(layout) |-> fields[i]]
  /\ \A i \in 1 .. Len(layout) : Encodable(layout[i], fields[i])

EncodableMessage(m) ==
  /\ m = [kind |-> m.kind, fields |-> m.fields]
  /\ m.kind \in DOMAIN MessageTag
  /\ EncodableFields(InboxMessage[m.kind], m.fields)
  /\ m.kind \in Wrapped => Len(PutFields(InboxMessage[m.kind], m.fields)) <= MaxBytes

EncodableResult(r) ==
  /\ r = [kind |-> r.kind, fields |-> r.fields]
  /\ r.kind \in DOMAIN ResultTag
  /\ EncodableFields(KernelResult[r.kind], r.fields)
=============================================================================
