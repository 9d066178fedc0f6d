-------------------------------- MODULE Notes --------------------------------
(***************************************************************************)
(* What the parties know of a note (core/src/lib.rs): how an account's     *)
(* keys are derived, what a commitment and a nullifier bind, and who can   *)
(* detect, open or recover an encrypted note.                              *)
(*                                                                         *)
(* Cryptography is taken at its specification.  A hash is the tuple of its *)
(* personalisation and its input, so it has no collisions.  A KEM key pair *)
(* is named by its seed; a shared secret is known to the sender and to the *)
(* holder of that seed, and decapsulating with another key gives a secret  *)
(* of its own (implicit rejection) and no error.  A ciphertext opens under *)
(* the key it was made with and under no other.                            *)
(***************************************************************************)
EXTENDS Naturals, Sequences

CONSTANT Tag(_)     \* the DETECT_K low bits of a hashed shared secret: not
                    \* collision-free

-----------------------------------------------------------------------------
blake2s(personalization, input) == <<personalization, input>>
hash_two(a, b) == blake2s("SP__", <<a, b>>)

(***************************************************************************)
(* The keys of an account and of its addresses.                            *)
(***************************************************************************)
derive_account(master_sk) ==
  LET spend_seed == hash_two("spend", master_sk)
  IN  [nk |-> hash_two("nk", spend_seed),
       ask_base |-> hash_two("ask", spend_seed),
       incoming_seed |-> hash_two("incoming", master_sk),
       outgoing_seed |-> hash_two("outgoing", master_sk)]

derive_address(incoming_seed, j) == hash_two(hash_two("dsk", incoming_seed), j)
derive_ask(ask_base, j) == hash_two(ask_base, j)

derive_view_root(incoming_seed) == hash_two("view", incoming_seed)
derive_detect_root(incoming_seed) == hash_two("detect", derive_view_root(incoming_seed))

derive_kem_view_seed(incoming_seed, j) ==
  hash_two(hash_two("mlkem-v", derive_view_root(incoming_seed)), j)
derive_kem_detect_keys_from_root(detect_root, j) ==
  hash_two(hash_two("mlkem-d", detect_root), j)
derive_kem_detect_seed(incoming_seed, j) ==
  derive_kem_detect_keys_from_root(derive_detect_root(incoming_seed), j)

derive_kem_keys(incoming_seed, j) ==
  [v |-> derive_kem_view_seed(incoming_seed, j),
   d |-> derive_kem_detect_seed(incoming_seed, j)]

derive_nk_spend(nk, d_j) == blake2s("nksp", <<nk, d_j>>)
derive_nk_tag(nk_spend) == blake2s("nktg", nk_spend)

\* The root of the address's one-time keys (module XmssBds) is bound to ask_j.
payment_address(account, j) ==
  LET d_j == derive_address(account.incoming_seed, j)
      ask_j == derive_ask(account.ask_base, j)
      keys == derive_kem_keys(account.incoming_seed, j)
  IN  [d_j |-> d_j,
       auth_root |-> blake2s("xmss", ask_j),
       auth_pub_seed |-> hash_two("xmss-ps", ask_j),
       nk_tag |-> derive_nk_tag(derive_nk_spend(account.nk, d_j)),
       ek_v |-> keys.v, ek_d |-> keys.d]

-----------------------------------------------------------------------------
(***************************************************************************)
(* Commitments and nullifiers.                                             *)
(***************************************************************************)
derive_rcm(rseed) == hash_two(blake2s("SP__", "rcm"), rseed)

owner_tag(auth_root, auth_pub_seed, nk_tag) ==
  blake2s("ownr", <<auth_root, auth_pub_seed, nk_tag>>)

commit(d_j, v, rcm, otag) == blake2s("cmmt", <<d_j, v, rcm, otag>>)

\* The commitment to v for an address (or a record of its public part).
note_commitment(address, v, rseed) ==
  commit(address.d_j, v, derive_rcm(rseed),
         owner_tag(address.auth_root, address.auth_pub_seed, address.nk_tag))

nullifier(nk_spend, cm, pos) ==
  blake2s("nulf", <<nk_spend, blake2s("nulf", <<cm, pos>>)>>)

-----------------------------------------------------------------------------
(***************************************************************************)
(* Encrypted notes.                                                        *)
(***************************************************************************)
encapsulate(ek, m) == [ct |-> [ek |-> ek, m |-> m], ss |-> <<"shared", ek, m>>]

decapsulate(ct, dk) ==
  IF ct.ek = dk THEN <<"shared", ct.ek, ct.m>> ELSE <<"rejected", dk, ct.m>>

empty_outgoing_recovery_ct == [key |-> <<>>, plaintext |-> <<>>]

\* The ephemeral secrets are as unique as the note's rseed.
encrypt_note(v, rseed, ek_v, ek_d) ==
  LET for_detection == encapsulate(ek_d, rseed)
      for_viewing == encapsulate(ek_v, rseed)
  IN  [ct_d |-> for_detection.ct, tag |-> Tag(for_detection.ss),
       ct_v |-> for_viewing.ct,
       encrypted_data |-> [key |-> blake2s("SP__", for_viewing.ss),
                           plaintext |-> [v |-> v, rseed |-> rseed]],
       outgoing_ct |-> empty_outgoing_recovery_ct]

detect(enc, dk_d) == Tag(decapsulate(enc.ct_d, dk_d)) = enc.tag

\* The opened note, as a sequence of at most one.
decrypt_memo(enc, dk_v) ==
  IF enc.encrypted_data.key = blake2s("SP__", decapsulate(enc.ct_v, dk_v))
  THEN <<enc.encrypted_data.plaintext>> ELSE <<>>

\* What a sender keeps of a note it sends.
outgoing_recovery_plaintext(address, v, rseed) ==
  [v |-> v, rseed |-> rseed, d_j |-> address.d_j, auth_root |-> address.auth_root,
   auth_pub_seed |-> address.auth_pub_seed, nk_tag |-> address.nk_tag]

commitment(p) == note_commitment(p, p.v, p.rseed)

derive_outgoing_recovery_key(outgoing_seed, cm) ==
  blake2s("ovkK", <<outgoing_seed, cm>>)

encrypt_outgoing_recovery(outgoing_seed, cm, plaintext) ==
  [key |-> derive_outgoing_recovery_key(outgoing_seed, cm), plaintext |-> plaintext]

decrypt_outgoing_recovery(outgoing_seed, cm, outgoing_ct) ==
  IF outgoing_ct.key = derive_outgoing_recovery_key(outgoing_seed, cm)
  THEN <<outgoing_ct.plaintext>> ELSE <<>>

\* An output that a wallet makes for an address.
build_output_note(address, v, rseed, outgoing_seed) ==
  LET cm == note_commitment(address, v, rseed)
  IN  [cm |-> cm,
       enc |-> [encrypt_note(v, rseed, address.ek_v, address.ek_d)
                  EXCEPT !.outgoing_ct =
                    encrypt_outgoing_recovery(outgoing_seed, cm,
                      outgoing_recovery_plaintext(address, v, rseed))]]
=============================================================================
