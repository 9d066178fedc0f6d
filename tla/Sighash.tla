------------------------------- MODULE Sighash -------------------------------
(***************************************************************************)
(* What a one-time signature authorises (core/src/lib.rs): the sighashes   *)
(* of the three kinds of request, the deposit pool a shield draws from,    *)
(* and the hash that stands for an encrypted note in them.                 *)
(*                                                                         *)
(* The hash has no collisions, so a sighash is what was folded into it, in *)
(* order; it does not say where a list begins and ends, and the memo hash  *)
(* does not say where a byte string does.                                  *)
(***************************************************************************)
EXTENDS Naturals, Sequences

CONSTANTS Felt, Byte, U64

ML_KEM768_CIPHERTEXT_BYTES == 1088
NOTE_AEAD_NONCE_BYTES == 12
ENCRYPTED_NOTE_BYTES == 8 + 32 + 1024 + 16
OUTGOING_RECOVERY_CT_BYTES == 1 + 8 + 32 + 32 + 32 + 32 + 32 + 16

\* The byte strings of an encrypted note; the tag is of fixed width.
EncryptedNote ==
  [ct_d : Seq(Byte), tag : Byte, ct_v : Seq(Byte), nonce : Seq(Byte),
   encrypted_data : Seq(Byte), outgoing_ct : Seq(Byte)]

\* EncryptedNote::validate
validate_note(enc) ==
  /\ Len(enc.ct_d) = ML_KEM768_CIPHERTEXT_BYTES
  /\ Len(enc.ct_v) = ML_KEM768_CIPHERTEXT_BYTES
  /\ Len(enc.nonce) = NOTE_AEAD_NONCE_BYTES
  /\ Len(enc.encrypted_data) = ENCRYPTED_NOTE_BYTES
  /\ Len(enc.outgoing_ct) = OUTGOING_RECOVERY_CT_BYTES

memo_ct_hash(enc) ==
  enc.ct_d \o (<<enc.tag>> \o (enc.ct_v \o (enc.nonce \o
    (enc.encrypted_data \o enc.outgoing_ct))))

-----------------------------------------------------------------------------
\* The type tags, 0x01 to 0x04.
TransferType == 1
UnshieldType == 2
ShieldType == 3
DepositType == 4

\* The fields that each signature covers.
ShieldDraw ==
  [pubkey_hash : Felt, v : U64, fee : U64, producer_fee : U64,
   cm : Felt, cm_producer : Felt, mh : Felt, mh_producer : Felt]
TransferSpend ==
  [root : Felt, nullifiers : Seq(Felt), fee : U64, cm_1 : Felt, cm_2 : Felt,
   cm_3 : Felt, mh_1 : Felt, mh_2 : Felt, mh_3 : Felt]
UnshieldSpend ==
  [root : Felt, nullifiers : Seq(Felt), v_pub : U64, fee : U64, recipient : Felt,
   cm_change : Felt, mh_change : Felt, cm_fee : Felt, mh_fee : Felt]

sighash_fold(h, felts) == h \o felts

shield_sighash(auth_domain, r) ==
  sighash_fold(<<ShieldType, auth_domain>>,
               <<r.pubkey_hash, r.v, r.fee, r.producer_fee, r.cm, r.cm_producer,
                 r.mh, r.mh_producer>>)

transfer_sighash(auth_domain, r) ==
  sighash_fold(<<TransferType, auth_domain, r.root>>,
               sighash_fold(r.nullifiers,
                            <<r.fee, r.cm_1, r.cm_2, r.cm_3, r.mh_1, r.mh_2, r.mh_3>>))

unshield_sighash(auth_domain, r) ==
  sighash_fold(<<UnshieldType, auth_domain, r.root>>,
               sighash_fold(r.nullifiers,
                            <<r.v_pub, r.fee, r.recipient, r.cm_change, r.mh_change,
                              r.cm_fee, r.mh_fee>>))

deposit_pubkey_hash(auth_domain, auth_root, auth_pub_seed, blind) ==
  <<DepositType, auth_domain, auth_root, auth_pub_seed, blind>>
=============================================================================
