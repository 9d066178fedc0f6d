----------------------------- MODULE Submission -----------------------------
(***************************************************************************)
(* What the operator (services/tzel/src/bin/tzel_operator.rs) checks of a  *)
(* payload before it publishes it on the data availability layer: that it  *)
(* is a message of the declared kind, that a configuration is signed by    *)
(* the rollup's administrator, and that a spend pays the operator's fee in *)
(* a note the operator can open.                                           *)
(*                                                                         *)
(* On the wire an encrypted note and a commitment are tokens: token n      *)
(* stands for the encryption of, and for the commitment to, the n-th note  *)
(* of Plain.  Other tokens stand for bytes that are neither.               *)
(***************************************************************************)
EXTENDS DalPayload, Notes

CONSTANTS
  Message,          \* the messages their authors made, with their signatures
  Plain,            \* the notes: [to, j, v, from], accounts by master key
  OperatorKey,      \* the operator's account and the address it is paid at
  FeeIndex,
  RequiredDalFee    \* the fee, in the operator's configuration

ASSUME SubmissionAssumption ==
  /\ RequiredDalFee \in Nat \ {0}
  /\ \A m \in Message : EncodableMessage(m)

Output ==
  [n \in DOMAIN Plain |->
     LET note == Plain[n]
     IN  build_output_note(payment_address(derive_account(note.to), note.j), note.v, n,
                           derive_account(note.from).outgoing_seed)]

-----------------------------------------------------------------------------
\* The configuration names a file with the operator's viewing keys.
load_dal_fee_policy ==
  LET account == derive_account(OperatorKey)
  IN  [amount |-> RequiredDalFee,
       keys |-> derive_kem_keys(account.incoming_seed, FeeIndex),
       address |-> payment_address(account, FeeIndex)]

validate_fee_note_against_policy(policy, cm, enc, claimed_fee) ==
  /\ claimed_fee = policy.amount
  /\ enc \in DOMAIN Plain /\ cm \in DOMAIN Plain
  /\ detect(Output[enc].enc, policy.keys.d)
  /\ LET opened == decrypt_memo(Output[enc].enc, policy.keys.v)
     IN  /\ opened # <<>>
         /\ opened[1].v = policy.amount
         /\ note_commitment(policy.address, opened[1].v, opened[1].rseed) = Output[cm].cm

\* The note that pays the producer, and the fee it is said to hold: a shield
\* states it, a transfer's or unshield's is only in the note.
FeeNote(policy, m) ==
  LET Note(cm, enc, fee) == {[cm |-> m.fields[cm], enc |-> m.fields[enc], fee |-> fee]}
  IN  CASE m.kind = "Shield" -> Note(8, 9, m.fields[4])
        [] m.kind = "Transfer" -> Note(6, 10, policy.amount)
        [] m.kind = "Unshield" -> Note(9, 10, policy.amount)
        [] OTHER -> {}

enforce_dal_fee_policy(policy, m) ==
  \E n \in FeeNote(policy, m) : validate_fee_note_against_policy(policy, n.cm, n.enc, n.fee)

\* No kind names a pointer.
kernel_message_matches_submission_kind(kind, m) ==
  kind \in DOMAIN KindTag /\ m.kind = kind

submission_kind_requires_dal_fee_policy(kind) == kind \in {"Shield", "Transfer", "Unshield"}

\* The administrator's signature covers the whole configuration.
authenticate_config_submission(m) ==
  m.kind \in {"ConfigureVerifier", "ConfigureBridge"} => m \in Message

\* The message, if it is one of the declared kind.
decode_and_validate_submission_payload(kind, bytes) ==
  LET m == decode_kernel_inbox_message(bytes)
  IN  IF /\ m.ok
         /\ kernel_message_matches_submission_kind(kind, m.value)
         /\ authenticate_config_submission(m.value)
      THEN m ELSE Fail

\* The operator takes the payload for publication.
accepts_for_dal(kind, bytes) ==
  LET m == decode_and_validate_submission_payload(kind, bytes)
  IN  /\ m.ok
      /\ submission_kind_requires_dal_fee_policy(kind) =>
           enforce_dal_fee_policy(load_dal_fee_policy, m.value)
=============================================================================
