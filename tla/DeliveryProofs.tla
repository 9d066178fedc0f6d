--------------------------- MODULE DeliveryProofs ---------------------------
(***************************************************************************)
(* Notes, from the sender to the wallets that watch for them.              *)
(*                                                                         *)
(* What the other modules take for granted of notes: a commitment binds    *)
(* one value and one owner, a nullifier one leaf, and a note sent to an    *)
(* address is detected, opened and recovered by those it is meant for and  *)
(* opened by no other key.  And what the owners sign: a signature covers   *)
(* one request, and a proof one encrypted note.                            *)
(*                                                                         *)
(* What is delivered: bytes decode to one message and a message has one    *)
(* encoding, the kernel reads the published message or none, and reads it  *)
(* if the publication is honest; and a watching wallet's file says what    *)
(* was stored, with or without a reorg.                                    *)
(***************************************************************************)
EXTENDS Delivery, Sighash, Induction

\* commit and nullifier: two notes with one commitment have the same value,
\* seed and owner; two equal nullifiers are of one commitment at one position
\* under one key, so a leaf has one nullifier and no two leaves share one.
THEOREM CommitmentsBind ==
  ASSUME NEW a, NEW b, NEW v, NEW w, NEW r, NEW q, NEW nk, NEW mk, NEW p, NEW n
  PROVE  /\ note_commitment(a, v, r) = note_commitment(b, w, q) =>
              /\ v = w /\ r = q
              /\ a.d_j = b.d_j /\ a.auth_root = b.auth_root
              /\ a.auth_pub_seed = b.auth_pub_seed /\ a.nk_tag = b.nk_tag
         /\ nullifier(nk, v, p) = nullifier(mk, w, n) => nk = mk /\ v = w /\ p = n
<1>1. ASSUME note_commitment(a, v, r) = note_commitment(b, w, q)
      PROVE  /\ v = w /\ r = q
             /\ a.d_j = b.d_j /\ a.auth_root = b.auth_root
             /\ a.auth_pub_seed = b.auth_pub_seed /\ a.nk_tag = b.nk_tag
  BY <1>1 DEF note_commitment, commit, owner_tag, derive_rcm, hash_two, blake2s
<1>2. ASSUME nullifier(nk, v, p) = nullifier(mk, w, n)
      PROVE  nk = mk /\ v = w /\ p = n
  BY <1>2 DEF nullifier, blake2s
<1> QED BY <1>1, <1>2

\* derive_kem_view_seed: no two addresses share a viewing key.
LEMMA ViewKeysApart ==
  ASSUME NEW s, NEW t, NEW i, NEW j,
         derive_kem_view_seed(s, i) = derive_kem_view_seed(t, j)
  PROVE  s = t /\ i = j
BY DEF derive_kem_view_seed, derive_view_root, hash_two, blake2s

\* encrypt_note, detect, decrypt_memo and encrypt_outgoing_recovery fit
\* together: the owner of the address detects the note and opens it to what
\* was committed, whoever holds the account's detection root detects it too,
\* the sender recovers it, and the viewing key of any other address of any
\* account fails to open it, also when the detection tag happens to fit.
THEOREM NoteReachesOwner ==
  ASSUME NEW sk, NEW j, NEW v, NEW rseed, NEW outgoing_seed, NEW other, NEW i
  PROVE  LET account == derive_account(sk)
             address == payment_address(account, j)
             out == build_output_note(address, v, rseed, outgoing_seed)
             keys == derive_kem_keys(account.incoming_seed, j)
             opened == decrypt_memo(out.enc, keys.v)
             recovered == decrypt_outgoing_recovery(outgoing_seed, out.cm, out.enc.outgoing_ct)
         IN  /\ detect(out.enc, keys.d)
             /\ detect(out.enc, derive_kem_detect_keys_from_root(
                                  derive_detect_root(account.incoming_seed), j))
             /\ opened = <<[v |-> v, rseed |-> rseed]>>
             /\ note_commitment(address, opened[1].v, opened[1].rseed) = out.cm
             /\ recovered # <<>> /\ commitment(recovered[1]) = out.cm
             /\ decrypt_memo(out.enc, derive_kem_view_seed(other, i)) # <<>> =>
                  other = account.incoming_seed /\ i = j
<1> DEFINE account == derive_account(sk)
           address == payment_address(account, j)
           out == build_output_note(address, v, rseed, outgoing_seed)
           keys == derive_kem_keys(account.incoming_seed, j)
           plain == [v |-> v, rseed |-> rseed]
<1>1. address.ek_v = keys.v /\ address.ek_d = keys.d
  BY DEF payment_address
<1>2. keys.d = derive_kem_detect_keys_from_root(derive_detect_root(account.incoming_seed), j)
      /\ keys.v = derive_kem_view_seed(account.incoming_seed, j)
  BY DEF derive_kem_keys, derive_kem_detect_seed
<1> HIDE DEF account, address, keys
<1>3. /\ out.cm = note_commitment(address, v, rseed)
      /\ out.enc.ct_d = [ek |-> keys.d, m |-> rseed]
      /\ out.enc.tag = Tag(<<"shared", keys.d, rseed>>)
      /\ out.enc.ct_v = [ek |-> keys.v, m |-> rseed]
      /\ out.enc.encrypted_data =
           [key |-> blake2s("SP__", <<"shared", keys.v, rseed>>), plaintext |-> plain]
      /\ out.enc.outgoing_ct =
           encrypt_outgoing_recovery(outgoing_seed, out.cm,
                                     outgoing_recovery_plaintext(address, v, rseed))
  BY <1>1 DEF build_output_note, encrypt_note, encapsulate
<1> HIDE DEF out
<1>4. detect(out.enc, keys.d)
  BY <1>3 DEF detect, decapsulate
<1>5. decrypt_memo(out.enc, keys.v) = <<plain>>
  BY <1>3 DEF decrypt_memo, decapsulate
<1>6. ASSUME NEW dk, decrypt_memo(out.enc, dk) # <<>> PROVE dk = keys.v
  <2>1. blake2s("SP__", <<"shared", keys.v, rseed>>)
          = blake2s("SP__", decapsulate(out.enc.ct_v, dk))
    BY <1>3, <1>6 DEF decrypt_memo
  <2>2. decapsulate(out.enc.ct_v, dk) = <<"shared", keys.v, rseed>>
    BY <2>1 DEF blake2s
  <2>3. CASE dk # keys.v
    <3>1. decapsulate(out.enc.ct_v, dk) = <<"rejected", dk, rseed>>
      BY <1>3, <2>3 DEF decapsulate
    <3> QED BY <2>2, <3>1
  <2> QED BY <2>3
<1>7. decrypt_memo(out.enc, derive_kem_view_seed(other, i)) # <<>> =>
        other = account.incoming_seed /\ i = j
  BY <1>2, <1>6, ViewKeysApart
<1>8. decrypt_outgoing_recovery(outgoing_seed, out.cm, out.enc.outgoing_ct)
        = <<outgoing_recovery_plaintext(address, v, rseed)>>
  BY <1>3 DEF decrypt_outgoing_recovery, encrypt_outgoing_recovery
<1>9. commitment(outgoing_recovery_plaintext(address, v, rseed)) = out.cm
  BY <1>3 DEF commitment, outgoing_recovery_plaintext, note_commitment
<1>10. note_commitment(address, <<plain>>[1].v, <<plain>>[1].rseed) = out.cm
  BY <1>3
<1> QED BY <1>2, <1>4, <1>5, <1>7, <1>8, <1>9, <1>10 DEF account, address, out, keys

-----------------------------------------------------------------------------
(***************************************************************************)
(* The sighashes and the memo hash determine what went into them.          *)
(***************************************************************************)
\* Two concatenations that are equal and cut at the same place have equal
\* parts.
LEMMA Cut ==
  ASSUME NEW S, NEW a \in Seq(S), NEW b \in Seq(S), NEW c \in Seq(S), NEW d \in Seq(S),
         Len(a) = Len(c), a \o b = c \o d
  PROVE  a = c /\ b = d
<1>1. Len(b) = Len(d)
  <2>1. Len(a \o b) = Len(a) + Len(b)
    BY ConcatProperties
  <2>2. Len(c \o d) = Len(c) + Len(d)
    BY ConcatProperties
  <2> QED BY <2>1, <2>2
<1>2. ASSUME NEW i \in 1 .. Len(a) + Len(b)
      PROVE  /\ (a \o b)[i] = IF i <= Len(a) THEN a[i] ELSE b[i - Len(a)]
             /\ (c \o d)[i] = IF i <= Len(a) THEN c[i] ELSE d[i - Len(a)]
  <2>1. \A j \in 1 .. Len(a) + Len(b) :
          (a \o b)[j] = IF j <= Len(a) THEN a[j] ELSE b[j - Len(a)]
    BY ConcatProperties
  <2>2. \A j \in 1 .. Len(c) + Len(d) :
          (c \o d)[j] = IF j <= Len(c) THEN c[j] ELSE d[j - Len(c)]
    BY ConcatProperties
  <2> QED BY <1>1, <2>1, <2>2
<1>3. ASSUME NEW i \in 1 .. Len(a) PROVE a[i] = c[i]
  <2>1. i \in 1 .. Len(a) + Len(b) /\ i <= Len(a)
    OBVIOUS
  <2> QED BY <1>2, <2>1
<1>4. ASSUME NEW i \in 1 .. Len(b) PROVE b[i] = d[i]
  <2>1. /\ i + Len(a) \in 1 .. Len(a) + Len(b)
        /\ ~(i + Len(a) <= Len(a))
        /\ (i + Len(a)) - Len(a) = i
    OBVIOUS
  <2> QED BY <1>2, <2>1
<1>5. a = c
  BY <1>3, SeqEqual
<1>6. b = d
  BY <1>1, <1>4, SeqEqual
<1> QED BY <1>5, <1>6

\* What memo_ct_hash hashes determines the note, byte for byte, if the note is
\* one that EncryptedNote::validate lets through: the strings are put together
\* without their lengths, and only validate fixes these.
THEOREM MemoHashBinds ==
  ASSUME NEW x \in EncryptedNote, NEW y \in EncryptedNote,
         validate_note(x), validate_note(y), memo_ct_hash(x) = memo_ct_hash(y)
  PROVE  x = y
<1> USE DEF EncryptedNote
<1>0. /\ Len(x.ct_d) = Len(y.ct_d) /\ Len(x.ct_v) = Len(y.ct_v)
      /\ Len(x.nonce) = Len(y.nonce)
      /\ Len(x.encrypted_data) = Len(y.encrypted_data)
  BY DEF validate_note
<1> DEFINE tail5(e) == e.encrypted_data \o e.outgoing_ct
           tail4(e) == e.nonce \o tail5(e)
           tail3(e) == e.ct_v \o tail4(e)
           tail2(e) == <<e.tag>> \o tail3(e)
<1>1. ASSUME NEW e \in EncryptedNote
      PROVE  /\ tail5(e) \in Seq(Byte) /\ tail4(e) \in Seq(Byte)
             /\ tail3(e) \in Seq(Byte) /\ tail2(e) \in Seq(Byte)
  <2>1. tail5(e) \in Seq(Byte) OBVIOUS
  <2> HIDE DEF tail5
  <2>2. tail4(e) \in Seq(Byte) BY <2>1
  <2> HIDE DEF tail4
  <2>3. tail3(e) \in Seq(Byte) BY <2>2
  <2> HIDE DEF tail3
  <2>4. tail2(e) \in Seq(Byte) BY <2>3
  <2> QED BY <2>1, <2>2, <2>3, <2>4
<1>2. x.ct_d \o tail2(x) = y.ct_d \o tail2(y)
  BY DEF memo_ct_hash
<1> HIDE DEF tail2
<1>3. x.ct_d = y.ct_d /\ tail2(x) = tail2(y)
  BY <1>0, <1>1, <1>2, Cut
<1>4. <<x.tag>> \o tail3(x) = <<y.tag>> \o tail3(y)
  BY <1>3 DEF tail2
<1> HIDE DEF tail3
<1>5. <<x.tag>> = <<y.tag>> /\ tail3(x) = tail3(y)
  <2>1. <<x.tag>> \in Seq(Byte) /\ <<y.tag>> \in Seq(Byte) /\ Len(<<x.tag>>) = Len(<<y.tag>>)
    OBVIOUS
  <2> QED BY <2>1, <1>1, <1>4, Cut
<1>6. x.ct_v = y.ct_v /\ tail4(x) = tail4(y)
  <2>1. x.ct_v \o tail4(x) = y.ct_v \o tail4(y)
    BY <1>5 DEF tail3
  <2> HIDE DEF tail4
  <2> QED BY <2>1, <1>0, <1>1, Cut
<1>7. x.nonce = y.nonce /\ tail5(x) = tail5(y)
  <2>1. x.nonce \o tail5(x) = y.nonce \o tail5(y)
    BY <1>6
  <2> HIDE DEF tail5
  <2> QED BY <2>1, <1>0, <1>1, Cut
<1>8. x.encrypted_data = y.encrypted_data /\ x.outgoing_ct = y.outgoing_ct
  <2>1. x.encrypted_data \o x.outgoing_ct = y.encrypted_data \o y.outgoing_ct
    BY <1>7
  <2> HIDE DEF tail5
  <2>2. /\ x.encrypted_data \in Seq(Byte) /\ x.outgoing_ct \in Seq(Byte)
        /\ y.encrypted_data \in Seq(Byte) /\ y.outgoing_ct \in Seq(Byte)
    OBVIOUS
  <2>3. Len(x.encrypted_data) = Len(y.encrypted_data)
    BY <1>0
  <2> QED BY ONLY <2>1, <2>2, <2>3, Cut
<1>9. x.tag = y.tag
  BY <1>5
<1> QED BY <1>3, <1>5, <1>6, <1>7, <1>8, <1>9

\* A sighash of a spend, cut after its root and after its nullifiers: however
\* many nullifiers there are, the fields around them are determined.
LEMMA SpendCut ==
  ASSUME NEW S, NEW k \in S, NEW d \in S, NEW r \in S, NEW l \in S, NEW e \in S, NEW q \in S,
         NEW nfs \in Seq(S), NEW mfs \in Seq(S), NEW t \in Seq(S), NEW u \in Seq(S),
         Len(t) = Len(u),
         sighash_fold(<<k, d, r>>, sighash_fold(nfs, t))
           = sighash_fold(<<l, e, q>>, sighash_fold(mfs, u))
  PROVE  <<k, d, r>> = <<l, e, q>> /\ nfs = mfs /\ t = u
<1> DEFINE a == <<k, d, r>>
           c == <<l, e, q>>
<1>1. a \in Seq(S) /\ c \in Seq(S) /\ Len(a) = 3 /\ Len(c) = 3
  OBVIOUS
<1>2. /\ nfs \o t \in Seq(S) /\ Len(nfs \o t) = Len(nfs) + Len(t)
      /\ mfs \o u \in Seq(S) /\ Len(mfs \o u) = Len(mfs) + Len(u)
  BY ConcatProperties
<1>3. a \o (nfs \o t) = c \o (mfs \o u)
  BY DEF sighash_fold
<1> HIDE DEF a, c
<1>4. a = c /\ nfs \o t = mfs \o u
  BY <1>1, <1>2, <1>3, Cut
<1>5. Len(nfs) = Len(mfs)
  BY <1>2, <1>4
<1>6. nfs = mfs /\ t = u
  BY <1>4, <1>5, Cut
<1> QED BY <1>4, <1>6 DEF a, c

\* A one-time signature covers one request of one kind in one deployment: two
\* equal sighashes have the same type, auth domain and fields, with no length
\* of the nullifier list anywhere in them (sighash_fold and its callers).
THEOREM SighashBinds ==
  ASSUME NEW d \in Felt, NEW e \in Felt
  PROVE  /\ \A r, q \in ShieldDraw :
              shield_sighash(d, r) = shield_sighash(e, q) => d = e /\ r = q
         /\ \A r, q \in TransferSpend :
              transfer_sighash(d, r) = transfer_sighash(e, q) => d = e /\ r = q
         /\ \A r, q \in UnshieldSpend :
              unshield_sighash(d, r) = unshield_sighash(e, q) => d = e /\ r = q
         /\ \A r \in TransferSpend, q \in UnshieldSpend :
              transfer_sighash(d, r) # unshield_sighash(e, q)
         /\ \A r \in ShieldDraw, q \in TransferSpend, p \in UnshieldSpend :
              /\ shield_sighash(d, r) # transfer_sighash(e, q)
              /\ shield_sighash(d, r) # unshield_sighash(e, p)
<1> DEFINE S == Felt \cup U64 \cup Nat
           T(r) == <<r.fee, r.cm_1, r.cm_2, r.cm_3, r.mh_1, r.mh_2, r.mh_3>>
           U(r) == <<r.v_pub, r.fee, r.recipient, r.cm_change, r.mh_change, r.cm_fee, r.mh_fee>>
<1>1. ASSUME NEW r \in TransferSpend
      PROVE  r.root \in S /\ r.nullifiers \in Seq(S) /\ T(r) \in Seq(S) /\ Len(T(r)) = 7
  BY DEF TransferSpend
<1>2. ASSUME NEW r \in UnshieldSpend
      PROVE  r.root \in S /\ r.nullifiers \in Seq(S) /\ U(r) \in Seq(S) /\ Len(U(r)) = 7
  BY DEF UnshieldSpend
<1>3. d \in S /\ e \in S /\ TransferType \in S /\ UnshieldType \in S
  BY DEF TransferType, UnshieldType
<1>4. ASSUME NEW r \in ShieldDraw, NEW q \in ShieldDraw,
             shield_sighash(d, r) = shield_sighash(e, q)
      PROVE  d = e /\ r = q
  BY <1>4 DEF ShieldDraw, shield_sighash, sighash_fold
<1>5. ASSUME NEW r \in TransferSpend, NEW q \in TransferSpend,
             transfer_sighash(d, r) = transfer_sighash(e, q)
      PROVE  d = e /\ r = q
  <2>1. sighash_fold(<<TransferType, d, r.root>>, sighash_fold(r.nullifiers, T(r)))
          = sighash_fold(<<TransferType, e, q.root>>, sighash_fold(q.nullifiers, T(q)))
    BY <1>5 DEF transfer_sighash
  <2>2. <<TransferType, d, r.root>> = <<TransferType, e, q.root>> /\ r.nullifiers = q.nullifiers
          /\ T(r) = T(q)
    <3>1. /\ d \in S /\ r.root \in S /\ r.nullifiers \in Seq(S) /\ T(r) \in Seq(S)
          /\ e \in S /\ q.root \in S /\ q.nullifiers \in Seq(S) /\ T(q) \in Seq(S)
          /\ Len(T(r)) = Len(T(q)) /\ TransferType \in S
      BY <1>1, <1>3
    <3> HIDE DEF S, T
    <3>2. <<TransferType, d, r.root>> = <<TransferType, e, q.root>>
      BY ONLY <3>1, <2>1, SpendCut
    <3>3. r.nullifiers = q.nullifiers
      BY ONLY <3>1, <2>1, SpendCut
    <3>4. T(r) = T(q)
      BY ONLY <3>1, <2>1, SpendCut
    <3> QED BY <3>2, <3>3, <3>4
  <2> QED BY <2>2 DEF TransferSpend
<1>6. ASSUME NEW r \in UnshieldSpend, NEW q \in UnshieldSpend,
             unshield_sighash(d, r) = unshield_sighash(e, q)
      PROVE  d = e /\ r = q
  <2>1. sighash_fold(<<UnshieldType, d, r.root>>, sighash_fold(r.nullifiers, U(r)))
          = sighash_fold(<<UnshieldType, e, q.root>>, sighash_fold(q.nullifiers, U(q)))
    BY <1>6 DEF unshield_sighash
  <2>2. <<UnshieldType, d, r.root>> = <<UnshieldType, e, q.root>> /\ r.nullifiers = q.nullifiers
          /\ U(r) = U(q)
    <3>1. /\ d \in S /\ r.root \in S /\ r.nullifiers \in Seq(S) /\ U(r) \in Seq(S)
          /\ e \in S /\ q.root \in S /\ q.nullifiers \in Seq(S) /\ U(q) \in Seq(S)
          /\ Len(U(r)) = Len(U(q)) /\ UnshieldType \in S
      BY <1>2, <1>3
    <3> HIDE DEF S, U
    <3>2. <<UnshieldType, d, r.root>> = <<UnshieldType, e, q.root>>
      BY ONLY <3>1, <2>1, SpendCut
    <3>3. r.nullifiers = q.nullifiers
      BY ONLY <3>1, <2>1, SpendCut
    <3>4. U(r) = U(q)
      BY ONLY <3>1, <2>1, SpendCut
    <3> QED BY <3>2, <3>3, <3>4
  <2> QED BY <2>2 DEF UnshieldSpend
<1>7. ASSUME NEW r \in TransferSpend, NEW q \in UnshieldSpend,
             transfer_sighash(d, r) = unshield_sighash(e, q)
      PROVE  FALSE
  <2>1. sighash_fold(<<TransferType, d, r.root>>, sighash_fold(r.nullifiers, T(r)))
          = sighash_fold(<<UnshieldType, e, q.root>>, sighash_fold(q.nullifiers, U(q)))
    BY <1>7 DEF transfer_sighash, unshield_sighash
  <2>2. <<TransferType, d, r.root>> = <<UnshieldType, e, q.root>>
    <3>1. /\ d \in S /\ r.root \in S /\ r.nullifiers \in Seq(S) /\ T(r) \in Seq(S)
          /\ e \in S /\ q.root \in S /\ q.nullifiers \in Seq(S) /\ U(q) \in Seq(S)
          /\ Len(T(r)) = Len(U(q)) /\ TransferType \in S /\ UnshieldType \in S
      BY <1>1, <1>2, <1>3
    <3> HIDE DEF S, T, U
    <3> QED BY ONLY <3>1, <2>1, SpendCut
  <2> QED BY <2>2 DEF TransferType, UnshieldType
<1>8. ASSUME NEW r \in ShieldDraw, NEW x, NEW t \in Seq(S), NEW f \in S, NEW y \in S,
             x \in {TransferType, UnshieldType}
      PROVE  shield_sighash(d, r) # sighash_fold(<<x, f, y>>, t)
  <2>1. shield_sighash(d, r)[1] = ShieldType
    BY DEF shield_sighash, sighash_fold
  <2>2. sighash_fold(<<x, f, y>>, t)[1] = x
    <3>1. x \in S BY <1>3, <1>8
    <3> HIDE DEF S
    <3>2. <<x, f, y>> \in Seq(S) /\ Len(<<x, f, y>>) = 3
      BY <3>1
    <3>3. \A i \in 1 .. Len(<<x, f, y>>) + Len(t) :
            (<<x, f, y>> \o t)[i] =
              IF i <= Len(<<x, f, y>>) THEN <<x, f, y>>[i] ELSE t[i - Len(<<x, f, y>>)]
      BY <3>2, ConcatProperties
    <3>4. Len(t) \in Nat
      OBVIOUS
    <3>5. (<<x, f, y>> \o t)[1] = <<x, f, y>>[1]
      BY <3>2, <3>3, <3>4
    <3> QED BY <3>5 DEF sighash_fold
  <2> QED BY <1>8, <2>1, <2>2 DEF ShieldType, TransferType, UnshieldType
<1>9. ASSUME NEW r \in ShieldDraw, NEW q \in TransferSpend, NEW p \in UnshieldSpend
      PROVE  /\ shield_sighash(d, r) # transfer_sighash(e, q)
             /\ shield_sighash(d, r) # unshield_sighash(e, p)
  <2>1. q.nullifiers \o T(q) \in Seq(S) /\ p.nullifiers \o U(p) \in Seq(S)
    <3> HIDE DEF S, T, U
    <3> QED BY <1>1, <1>2, ConcatProperties
  <2>2. shield_sighash(d, r) # transfer_sighash(e, q)
    <3>1. transfer_sighash(e, q)
            = sighash_fold(<<TransferType, e, q.root>>, q.nullifiers \o T(q))
      BY DEF transfer_sighash, sighash_fold
    <3> HIDE DEF S, T
    <3> QED BY <1>1, <1>3, <1>8, <2>1, <3>1
  <2>3. shield_sighash(d, r) # unshield_sighash(e, p)
    <3>1. unshield_sighash(e, p)
            = sighash_fold(<<UnshieldType, e, p.root>>, p.nullifiers \o U(p))
      BY DEF unshield_sighash, sighash_fold
    <3> HIDE DEF S, U
    <3> QED BY <1>2, <1>3, <1>8, <2>1, <3>1
  <2> QED BY <2>2, <2>3
<1> QED BY <1>4, <1>5, <1>6, <1>7, <1>9

-----------------------------------------------------------------------------
(***************************************************************************)
(* A note in the kernel's store: what its chunks hold, and what is read    *)
(* back.                                                                   *)
(***************************************************************************)
Token == DOMAIN Plain

Payload(c, e) == encode_published_note(c, e)

LEMMA PayloadIs ==
  ASSUME NEW c, NEW e
  PROVE  /\ Payload(c, e) \in Seq({c, e}) /\ Len(Payload(c, e)) = 4
         /\ Payload(c, e)[1] = c
         /\ \A j \in 2..4 : Payload(c, e)[j] = e
BY DEF Payload, encode_published_note

LEMMA PayloadFirst ==
  ASSUME NEW c, NEW e
  PROVE  Payload(c, e)[1] = c
BY DEF Payload, encode_published_note

LEMMA PayloadRest ==
  ASSUME NEW c, NEW e, NEW j \in 2..4
  PROVE  Payload(c, e)[j] = e
BY DEF Payload, encode_published_note

\* Where the chunk that starts after l bytes of a payload ends.
End(l) == IF l + NoteChunk < 4 THEN l + NoteChunk ELSE 4

LEMMA ChunkNumbers ==
  ASSUME NoteChunk \in 1..3, NEW l \in 0..3, l % NoteChunk = 0
  PROVE  /\ (l \div NoteChunk) * NoteChunk = l
         /\ (l \div NoteChunk + 1) * NoteChunk = l + NoteChunk
         /\ l \div NoteChunk + 1 \in 1..div_ceil(4, NoteChunk)
         /\ (l \div NoteChunk + 1 < div_ceil(4, NoteChunk)) <=> (End(l) < 4)
         /\ End(l) \in (l + 1)..4 /\ (End(l) < 4 => End(l) % NoteChunk = 0)
<1>1. CASE NoteChunk = 1
  BY <1>1 DEF div_ceil, End
<1>2. CASE NoteChunk = 2
  BY <1>2 DEF div_ceil, End
<1>3. CASE NoteChunk = 3
  BY <1>3 DEF div_ceil, End
<1> QED BY <1>1, <1>2, <1>3

ChunkAt(note, l) == note.chunks[l \div NoteChunk + 1]

\* A chunk holds the bytes of a payload after the first l.
Holds(chunk, S, p, l) ==
  /\ chunk \in Seq(S) /\ Len(chunk) = End(l) - l
  /\ \A j \in 1..(End(l) - l) : chunk[j] = p[l + j]

LEMMA StoredChunk ==
  ASSUME NEW c, NEW e, NoteChunk \in 1..3, NEW l \in 0..3, l % NoteChunk = 0
  PROVE  Holds(ChunkAt(write_note_payload(Payload(c, e)), l), {c, e}, Payload(c, e), l)
<1>p. PICK chunk : chunk = ChunkAt(write_note_payload(Payload(c, e)), l)
  OBVIOUS
<1> DEFINE p == Payload(c, e)
           k == l \div NoteChunk
<1>0. chunk = write_note_payload(p).chunks[k + 1]
  BY <1>p DEF ChunkAt
<1>1. p \in Seq({c, e}) /\ Len(p) = 4
  BY PayloadIs
<1>2. /\ k * NoteChunk = l /\ (k + 1) * NoteChunk = l + NoteChunk
      /\ k + 1 \in 1..div_ceil(4, NoteChunk) /\ End(l) \in (l + 1)..4
  BY ChunkNumbers
<1> HIDE DEF p, k
<1>3. write_note_payload(p).chunks = [i \in 1..div_ceil(4, NoteChunk) |->
                                        chunk_bytes(p, NoteChunk, i)]
  BY <1>1 DEF write_note_payload
<1>4. chunk = chunk_bytes(p, NoteChunk, k + 1)
  BY <1>0, <1>2, <1>3
<1>5. (k + 1) - 1 = k
  BY <1>2 DEF k
<1>6. chunk = SubSeq(p, l + 1, End(l))
  BY <1>1, <1>2, <1>4, <1>5 DEF chunk_bytes, End
<1>7. /\ SubSeq(p, l + 1, End(l)) \in Seq({c, e})
      /\ Len(SubSeq(p, l + 1, End(l))) = End(l) - l
      /\ \A j \in 1..(End(l) - l) : SubSeq(p, l + 1, End(l))[j] = p[l + j]
  <2>1. l + 1 \in 1..4 /\ End(l) \in 1..4 /\ l \in Int /\ End(l) \in Int
    BY <1>2
  <2>2. ASSUME NEW i \in (l + 1)..End(l) PROVE p[i] \in {c, e}
    <3>1. i \in 1..Len(p)
      BY <1>1, <2>1
    <3> QED BY <1>1, <3>1, ElementOfSeq
  <2>3. End(l) - (l + 1) + 1 = End(l) - l /\ l + 1 <= End(l)
    BY <1>2, <2>1
  <2> HIDE DEF End
  <2>4. /\ SubSeq(p, l + 1, End(l)) \in Seq({c, e})
        /\ Len(SubSeq(p, l + 1, End(l))) = End(l) - l
        /\ \A j \in 1..(End(l) - l) : SubSeq(p, l + 1, End(l))[j] = p[(l + 1) + j - 1]
    <3> DEFINE m == l + 1
               n == End(l)
    <3>1. m \in Int /\ n \in Int /\ \A i \in m..n : p[i] \in {c, e}
      BY <2>1, <2>2
    <3>2. n - m + 1 = n - l /\ m <= n
      BY <2>3
    <3> HIDE DEF m, n
    <3>3. /\ SubSeq(p, m, n) \in Seq({c, e})
          /\ Len(SubSeq(p, m, n)) = (IF m <= n THEN n - m + 1 ELSE 0)
          /\ \A j \in 1..(n - m + 1) : SubSeq(p, m, n)[j] = p[m + j - 1]
      BY <3>1, SubSeqProperties
    <3> QED BY <3>2, <3>3 DEF m, n
  <2>5. \A j \in 1..(End(l) - l) : (l + 1) + j - 1 = l + j
    BY <2>1
  <2> QED BY <2>4, <2>5
<1> QED BY <1>p, <1>6, <1>7 DEF p, Holds

LEMMA StoredNote ==
  ASSUME NEW c, NEW e
  PROVE  LET note == write_note_payload(Payload(c, e))
         IN  /\ NoteChunk \in 1..3 => note.direct = <<>> /\ note.len = 4
             /\ NoteChunk \notin 1..3 => note.direct = Payload(c, e) /\ note.direct # <<>>
<1>1. Len(Payload(c, e)) = 4 /\ NoteChunk \in Nat \ {0} /\ Payload(c, e) # <<>>
  <2>1. Len(Payload(c, e)) = 4 /\ Payload(c, e) # <<>>
    <3>1. Len(Payload(c, e)) = 4 /\ Len(<<>>) = 0
      BY PayloadIs
    <3> QED BY <3>1
  <2> QED BY <2>1, DeliveryAssumption
<1>2. NoteChunk \in 1..3 <=> ~(4 <= NoteChunk)
  BY <1>1
<1> QED BY <1>1, <1>2 DEF write_note_payload

LEMMA FlattenNone == FlattenSeq(<<>>) = <<>>
BY DEF FlattenSeq

LEMMA FlattenTwo ==
  ASSUME NEW s, Len(s) = 2
  PROVE  FlattenSeq(s) = s[1] \o s[2]
<1> DEFINE IsFlat(f) == f = [i \in 1..2 |-> IF i = 1 THEN s[i] ELSE f[i - 1] \o s[i]]
           g == [i \in 1..2 |-> IF i = 1 THEN s[1] ELSE s[1] \o s[2]]
           f0 == CHOOSE f : IsFlat(f)
<1>1. IsFlat(g)
  OBVIOUS
<1> HIDE DEF g
<1>2. IsFlat(f0)
  <2>1. \E f : IsFlat(f)
    BY <1>1
  <2> HIDE DEF IsFlat
  <2> QED BY <2>1
<1>3. FlattenSeq(s) = f0[2]
  BY DEF FlattenSeq
<1> HIDE DEF f0
<1> QED BY <1>2, <1>3

LEMMA FlattenFour ==
  ASSUME NEW s, Len(s) = 4
  PROVE  FlattenSeq(s) = ((s[1] \o s[2]) \o s[3]) \o s[4]
<1> DEFINE IsFlat(f) == f = [i \in 1..4 |-> IF i = 1 THEN s[i] ELSE f[i - 1] \o s[i]]
           g == [i \in 1..4 |-> IF i = 1 THEN s[1] ELSE IF i = 2 THEN s[1] \o s[2]
                                ELSE IF i = 3 THEN (s[1] \o s[2]) \o s[3]
                                ELSE ((s[1] \o s[2]) \o s[3]) \o s[4]]
           f0 == CHOOSE f : IsFlat(f)
<1>1. IsFlat(g)
  <2>1. g[1] = s[1] /\ g[2] = g[1] \o s[2] /\ g[3] = g[2] \o s[3] /\ g[4] = g[3] \o s[4]
    OBVIOUS
  <2>2. g = [i \in 1..4 |-> g[i]]
    OBVIOUS
  <2>3. \A i \in 1..4 : g[i] = IF i = 1 THEN s[i] ELSE g[i - 1] \o s[i]
    <3>1. 1..4 = {1, 2, 3, 4} /\ 2 - 1 = 1 /\ 3 - 1 = 2 /\ 4 - 1 = 3
      OBVIOUS
    <3> HIDE DEF g
    <3> QED BY <2>1, <3>1
  <2> HIDE DEF g
  <2> QED BY <2>2, <2>3
<1> HIDE DEF g
<1>2. IsFlat(f0)
  <2>1. \E f : IsFlat(f)
    BY <1>1
  <2> HIDE DEF IsFlat
  <2> QED BY <2>1
<1>3. FlattenSeq(s) = f0[4]
  BY DEF FlattenSeq
<1> HIDE DEF f0
<1>4. \A i \in 1..4 : f0[i] = IF i = 1 THEN s[i] ELSE f0[i - 1] \o s[i]
  BY <1>2
<1>5. f0[1] = s[1] /\ f0[2] = f0[1] \o s[2] /\ f0[3] = f0[2] \o s[3] /\ f0[4] = f0[3] \o s[4]
  <2>1. 1 \in 1..4 /\ 2 \in 1..4 /\ 3 \in 1..4 /\ 4 \in 1..4
        /\ 2 - 1 = 1 /\ 3 - 1 = 2 /\ 4 - 1 = 3
    OBVIOUS
  <2> HIDE DEF IsFlat
  <2>2. f0[1] = s[1]
    BY <1>4, <2>1
  <2>3. f0[2] = f0[1] \o s[2]
    BY <1>4, <2>1
  <2>4. f0[3] = f0[2] \o s[3]
    BY <1>4, <2>1
  <2>5. f0[4] = f0[3] \o s[4]
    BY <1>4, <2>1
  <2> QED BY <2>2, <2>3, <2>4, <2>5
<1> QED BY <1>3, <1>5

\* What is stored is read back.
LEMMA ReadBack ==
  ASSUME NEW c, NEW e
  PROVE  LET bytes == read_persisted_note(write_note_payload(Payload(c, e)))
         IN  bytes[1] = c /\ bytes[2] = e
<1> DEFINE p == Payload(c, e)
           note == write_note_payload(p)
<1>1. p \in Seq({c, e}) /\ Len(p) = 4 /\ p[1] = c /\ p[2] = e
  BY PayloadIs
<1>2. CASE NoteChunk \notin 1..3
  <2>1. note.direct = p /\ note.chunks = <<>>
    <3>1. NoteChunk \in Nat /\ 4 <= NoteChunk
      BY <1>2, DeliveryAssumption
    <3> QED BY <1>1, <3>1 DEF write_note_payload
  <2> HIDE DEF p, note
  <2>2. read_persisted_note(note) = p \o <<>>
    BY <2>1, FlattenNone DEF read_persisted_note
  <2>3. p \o <<>> = p
    BY <1>1
  <2> QED BY <1>1, <2>2, <2>3 DEF note, p
<1>3. CASE NoteChunk \in 1..3
  <2> DEFINE s == note.chunks
  <2>1. note.direct = <<>> /\ DOMAIN s = 1..div_ceil(4, NoteChunk)
    BY <1>1, <1>3 DEF write_note_payload
  <2>2. s \in Seq(Seq({c, e})) /\ Len(s) = div_ceil(4, NoteChunk)
    <3>1. div_ceil(4, NoteChunk) \in Nat
      BY <1>3 DEF div_ceil
    <3>2. s \in [1..div_ceil(4, NoteChunk) -> Seq({c, e})]
      <4>1. s = [i \in 1..div_ceil(4, NoteChunk) |-> chunk_bytes(p, NoteChunk, i)]
        BY <1>1, <1>3 DEF write_note_payload
      <4>2. ASSUME NEW i \in 1..div_ceil(4, NoteChunk)
            PROVE  chunk_bytes(p, NoteChunk, i) \in Seq({c, e})
        <5> DEFINE from == (i - 1) * NoteChunk + 1
                   to == IF i * NoteChunk < 4 THEN i * NoteChunk ELSE 4
        <5>1. i * NoteChunk \in Int /\ from \in Int /\ from >= 1 /\ to \in Int /\ to <= 4
          <6>1. CASE NoteChunk = 1
            BY <6>1 DEF div_ceil
          <6>2. CASE NoteChunk = 2
            BY <6>2 DEF div_ceil
          <6>3. CASE NoteChunk = 3
            BY <6>3 DEF div_ceil
          <6> QED BY <1>3, <6>1, <6>2, <6>3
        <5>2. chunk_bytes(p, NoteChunk, i) = SubSeq(p, from, to)
          BY <1>1 DEF chunk_bytes
        <5> HIDE DEF from, to, p
        <5>3. ASSUME NEW j \in from..to PROVE p[j] \in {c, e}
          <6>1. j \in 1..Len(p)
            BY <1>1, <5>1
          <6> QED BY <1>1, <6>1, ElementOfSeq
        <5> QED BY <5>1, <5>2, <5>3, SubSeqProperties
      <4> HIDE DEF s
      <4> QED BY <4>1, <4>2
    <3> HIDE DEF s
    <3> QED BY <3>1, <3>2, FunctionIsSeq
  <2>3. ASSUME NEW l \in 0..3, l % NoteChunk = 0
        PROVE  /\ Len(s[l \div NoteChunk + 1]) = End(l) - l
               /\ \A j \in 1..(End(l) - l) : s[l \div NoteChunk + 1][j] = p[l + j]
    <3>1. ChunkAt(note, l) = s[l \div NoteChunk + 1]
      BY DEF ChunkAt
    <3>2. Holds(ChunkAt(note, l), {c, e}, p, l)
      BY <1>3, <2>3, StoredChunk
    <3> HIDE DEF s, note, p
    <3> QED BY <3>1, <3>2 DEF Holds
  <2> HIDE DEF s
  <2>4. read_persisted_note(note) = <<>> \o FlattenSeq(s)
    BY <2>1 DEF read_persisted_note, s
  <2> HIDE DEF p, note
  <2>7. ASSUME NEW a \in Seq({c, e}), NEW b \in Seq({c, e}), Len(a) >= 2
        PROVE  a \o b \in Seq({c, e}) /\ Len(a \o b) >= 2
               /\ (a \o b)[1] = a[1] /\ (a \o b)[2] = a[2]
    <3>1. Len(a) \in Nat /\ Len(b) \in Nat
      BY LenProperties
    <3>2. 1 \in 1..(Len(a) + Len(b)) /\ 2 \in 1..(Len(a) + Len(b)) /\ 1 <= Len(a) /\ 2 <= Len(a)
      BY <2>7, <3>1
    <3> QED BY <2>7, <3>1, <3>2, ConcatProperties
  <2>5. CASE NoteChunk = 1
    <3>1. Len(s) = 4
      BY <2>2, <2>5 DEF div_ceil
    <3>2. s[1] \in Seq({c, e}) /\ s[2] \in Seq({c, e})
          /\ s[3] \in Seq({c, e}) /\ s[4] \in Seq({c, e})
      <4>1. 1 \in 1..Len(s) /\ 2 \in 1..Len(s) /\ 3 \in 1..Len(s) /\ 4 \in 1..Len(s)
        BY <3>1
      <4> QED BY <2>2, <4>1, ElementOfSeq
    <3>3. Len(s[1]) = 1 /\ s[1][1] = p[1]
      <4>1. 0 % NoteChunk = 0 /\ 0 \div NoteChunk + 1 = 1 /\ End(0) = 1 /\ 0 \in 0..3
        BY <2>5 DEF End
      <4>2. Len(s[1]) = 1 - 0 /\ \A j \in 1..(1 - 0) : s[1][j] = p[0 + j]
        BY <2>3, <4>1
      <4> QED BY <4>2
    <3>4. Len(s[2]) = 1 /\ s[2][1] = p[2]
      <4>1. 1 % NoteChunk = 0 /\ 1 \div NoteChunk + 1 = 2 /\ End(1) = 2 /\ 1 \in 0..3
        BY <2>5 DEF End
      <4>2. Len(s[2]) = 2 - 1 /\ \A j \in 1..(2 - 1) : s[2][j] = p[1 + j]
        BY <2>3, <4>1
      <4> QED BY <4>2
    <3>5. FlattenSeq(s) = ((s[1] \o s[2]) \o s[3]) \o s[4]
      BY <3>1, FlattenFour
    <3>6. (s[1] \o s[2])[1] = p[1] /\ (s[1] \o s[2])[2] = p[2] /\ Len(s[1] \o s[2]) >= 2
          /\ s[1] \o s[2] \in Seq({c, e})
      <4>1. 1 \in 1..(Len(s[1]) + Len(s[2])) /\ 2 \in 1..(Len(s[1]) + Len(s[2])) /\ 2 - Len(s[1]) = 1
        BY <3>3, <3>4
      <4>2. \A i \in 1..(Len(s[1]) + Len(s[2])) :
              (s[1] \o s[2])[i] = IF i <= Len(s[1]) THEN s[1][i] ELSE s[2][i - Len(s[1])]
        BY <3>2, ConcatProperties
      <4>3. s[1] \o s[2] \in Seq({c, e}) /\ Len(s[1] \o s[2]) = Len(s[1]) + Len(s[2])
        BY <3>2, ConcatProperties
      <4>4. 1 <= Len(s[1]) /\ ~(2 <= Len(s[1])) /\ Len(s[1]) + Len(s[2]) >= 2
        BY <3>3, <3>4
      <4>5. (s[1] \o s[2])[1] = s[1][1]
        BY <4>1, <4>2, <4>4
      <4>6. (s[1] \o s[2])[2] = s[2][1]
        BY <4>1, <4>2, <4>4
      <4> QED BY <3>3, <3>4, <4>3, <4>4, <4>5, <4>6
    <3>7. FlattenSeq(s) \in Seq({c, e}) /\ FlattenSeq(s)[1] = p[1] /\ FlattenSeq(s)[2] = p[2]
      <4> DEFINE a == s[1] \o s[2]
                 b == a \o s[3]
      <4>1. a \in Seq({c, e}) /\ Len(a) >= 2 /\ a[1] = p[1] /\ a[2] = p[2] /\ FlattenSeq(s) = b \o s[4]
        BY <3>5, <3>6
      <4> HIDE DEF a
      <4>2. b \in Seq({c, e}) /\ Len(b) >= 2 /\ b[1] = a[1] /\ b[2] = a[2]
        BY <2>7, <3>2, <4>1
      <4> HIDE DEF b
      <4>3. b \o s[4] \in Seq({c, e}) /\ (b \o s[4])[1] = b[1] /\ (b \o s[4])[2] = b[2]
        BY <2>7, <3>2, <4>2
      <4> QED BY <4>1, <4>2, <4>3
    <3>8. read_persisted_note(note) = FlattenSeq(s)
      BY <2>4, <3>7, ConcatEmptySeq
    <3> QED BY <1>1, <3>7, <3>8 DEF note, p
  <2>6. CASE NoteChunk \in {2, 3}
    <3>1. Len(s) = 2
      BY <2>2, <2>6 DEF div_ceil
    <3>2. s[1] \in Seq({c, e}) /\ s[2] \in Seq({c, e})
      <4>1. 1 \in 1..Len(s) /\ 2 \in 1..Len(s)
        BY <3>1
      <4> QED BY <2>2, <4>1, ElementOfSeq
    <3>3. Len(s[1]) >= 2 /\ s[1][1] = p[1] /\ s[1][2] = p[2]
      <4>1. 0 % NoteChunk = 0 /\ 0 \div NoteChunk + 1 = 1 /\ End(0) = NoteChunk
        BY <2>6 DEF End
      <4>2. Len(s[1]) = NoteChunk - 0 /\ \A j \in 1..(NoteChunk - 0) : s[1][j] = p[0 + j]
        BY <2>3, <4>1
      <4> QED BY <2>6, <4>2
    <3>4. FlattenSeq(s) = s[1] \o s[2]
      BY <3>1, FlattenTwo
    <3>5. FlattenSeq(s) \in Seq({c, e}) /\ FlattenSeq(s)[1] = p[1] /\ FlattenSeq(s)[2] = p[2]
      <4>1. s[1] \o s[2] \in Seq({c, e}) /\ (s[1] \o s[2])[1] = s[1][1] /\ (s[1] \o s[2])[2] = s[1][2]
        BY <2>7, <3>2, <3>3
      <4> QED BY <3>3, <3>4, <4>1
    <3>6. read_persisted_note(note) = FlattenSeq(s)
      BY <2>4, <3>5, ConcatEmptySeq
    <3> QED BY <1>1, <3>5, <3>6 DEF note, p
  <2> QED BY <1>3, <2>5, <2>6
<1> QED BY <1>2, <1>3

-----------------------------------------------------------------------------
(***************************************************************************)
(* What a watch wallet makes of the bytes of a note.                       *)
(***************************************************************************)
Rec == [index : Nat, addr_index : Nat, cm : Token]

DetectKey(a) == derive_kem_detect_seed(Watched.incoming_seed, a)

\* The keys of a watch wallet know the note of a commitment and an encryption.
KnownNote(mode, addresses, c, e) ==
  \/ mode = "detect" /\ \E a \in 0 .. addresses - 1 : detect(Output[e].enc, DetectKey(a))
  \/ mode = "view" /\ c = e /\ Mine(e, addresses)
  \/ mode = "outgoing" /\ c = e /\ Plain[e].from = WatchedKey

LEMMA Least ==
  ASSUME NEW S, S \subseteq Nat, S # {}
  PROVE  (CHOOSE a \in S : \A b \in S : a <= b) \in S
<1> SUFFICES ASSUME \A a \in S : ~ \A b \in S : a <= b PROVE FALSE
  OBVIOUS
<1> DEFINE T == {n \in Nat : \A m \in 0..n : m \notin S}
<1>1. 0 \in T
  OBVIOUS
<1>2. ASSUME NEW n \in Nat, n \in T PROVE n + 1 \in T
  <2>1. \A b \in S : n + 1 <= b
    BY <1>2
  <2>2. n + 1 \notin S
    BY <2>1
  <2> QED BY <1>2, <2>2
<1> HIDE DEF T
<1>3. Nat \subseteq T
  BY <1>1, <1>2, SetInduction
<1>4. \A n \in S : n \in T /\ n \in 0..n
  BY <1>3
<1> QED BY <1>4 DEF T

LEMMA FirstIs ==
  ASSUME NEW S, S \subseteq Nat, NEW i, NEW cm
  PROVE  /\ S = {} => First(i, S, cm) = <<>>
         /\ S # {} => \E a \in S : First(i, S, cm) = <<Record(i, a, cm)>>
BY Least DEF First

\* The parts of an output.
AddressOf(n) == payment_address(derive_account(Plain[n].to), Plain[n].j)
KeysOf(n) == derive_kem_keys(derive_account(Plain[n].to).incoming_seed, Plain[n].j)
SenderSeed(n) == derive_account(Plain[n].from).outgoing_seed

LEMMA OutputIs ==
  ASSUME NEW n \in Token
  PROVE  Output[n] = build_output_note(AddressOf(n), Plain[n].v, n, SenderSeed(n))
BY DEF Output, Token, AddressOf, SenderSeed

LEMMA Built ==
  ASSUME NEW address, NEW v, NEW rseed, NEW seed
  PROVE  LET cm == note_commitment(address, v, rseed)
             out == build_output_note(address, v, rseed, seed)
         IN  /\ out.cm = cm
             /\ out.enc = [encrypt_note(v, rseed, address.ek_v, address.ek_d)
                             EXCEPT !.outgoing_ct =
                               encrypt_outgoing_recovery(seed, cm,
                                 outgoing_recovery_plaintext(address, v, rseed))]
BY DEF build_output_note

LEMMA BuiltCm ==
  ASSUME NEW address, NEW v, NEW rseed, NEW seed
  PROVE  build_output_note(address, v, rseed, seed).cm = note_commitment(address, v, rseed)
BY DEF build_output_note

LEMMA OutputCm ==
  ASSUME NEW n \in Token
  PROVE  Output[n].cm = note_commitment(AddressOf(n), Plain[n].v, n)
<1>1. Output[n] = build_output_note(AddressOf(n), Plain[n].v, n, SenderSeed(n))
  BY OutputIs
<1>2. build_output_note(AddressOf(n), Plain[n].v, n, SenderSeed(n)).cm
        = note_commitment(AddressOf(n), Plain[n].v, n)
  BY BuiltCm
<1> QED BY <1>1, <1>2

LEMMA OutputCmApart ==
  ASSUME NEW n \in Token, NEW m \in Token, Output[n].cm = Output[m].cm
  PROVE  n = m
BY OutputCm, CommitmentsBind

LEMMA OutputEnc ==
  ASSUME NEW n \in Token
  PROVE  /\ Output[n].enc.ct_v = [ek |-> KeysOf(n).v, m |-> n]
         /\ Output[n].enc.encrypted_data
              = [key |-> blake2s("SP__", <<"shared", KeysOf(n).v, n>>),
                 plaintext |-> [v |-> Plain[n].v, rseed |-> n]]
         /\ Output[n].enc.outgoing_ct.key
              = derive_outgoing_recovery_key(SenderSeed(n), Output[n].cm)
         /\ commitment(Output[n].enc.outgoing_ct.plaintext) = Output[n].cm
         /\ detect(Output[n].enc, KeysOf(n).d)
<1> DEFINE ad == AddressOf(n)
           enc == encrypt_note(Plain[n].v, n, ad.ek_v, ad.ek_d)
           rec == encrypt_outgoing_recovery(SenderSeed(n), Output[n].cm,
                    outgoing_recovery_plaintext(ad, Plain[n].v, n))
<1>1. ad.ek_v = KeysOf(n).v /\ ad.ek_d = KeysOf(n).d
  BY DEF AddressOf, KeysOf, payment_address
<1>2. Output[n].enc = [enc EXCEPT !.outgoing_ct = rec]
  BY OutputIs, OutputCm, Built
<1>3. Output[n].cm = note_commitment(ad, Plain[n].v, n)
  BY OutputCm
<1> HIDE DEF ad
<1>4. /\ Output[n].enc.ct_v = enc.ct_v
      /\ Output[n].enc.encrypted_data = enc.encrypted_data
      /\ Output[n].enc.ct_d = enc.ct_d /\ Output[n].enc.tag = enc.tag
      /\ Output[n].enc.outgoing_ct = rec
  BY <1>2 DEF encrypt_note
<1>5. /\ enc.ct_v = [ek |-> ad.ek_v, m |-> n]
      /\ enc.encrypted_data = [key |-> blake2s("SP__", <<"shared", ad.ek_v, n>>),
                               plaintext |-> [v |-> Plain[n].v, rseed |-> n]]
      /\ enc.ct_d = [ek |-> ad.ek_d, m |-> n] /\ enc.tag = Tag(<<"shared", ad.ek_d, n>>)
  BY DEF encrypt_note, encapsulate
<1>6. rec.key = derive_outgoing_recovery_key(SenderSeed(n), Output[n].cm)
  BY DEF encrypt_outgoing_recovery
<1>7. commitment(rec.plaintext) = Output[n].cm
  BY <1>3 DEF encrypt_outgoing_recovery, outgoing_recovery_plaintext, commitment, note_commitment
<1> HIDE DEF enc, rec
<1>8. detect(Output[n].enc, KeysOf(n).d)
  BY <1>1, <1>4, <1>5 DEF detect, decapsulate
<1> QED BY <1>1, <1>4, <1>5, <1>6, <1>7, <1>8

\* An account and an address of it are told apart by the keys derived from them.
LEMMA SeedsApart ==
  ASSUME NEW a, NEW b
  PROVE  /\ derive_account(a).incoming_seed = derive_account(b).incoming_seed => a = b
         /\ derive_account(a).outgoing_seed = derive_account(b).outgoing_seed => a = b
BY DEF derive_account, hash_two, blake2s

Bytes == {b \in Seq(Token) : Len(b) = 4}

LEMMA BytesAre ==
  ASSUME NEW b \in Bytes
  PROVE  b[1] \in Token /\ b[2] \in Token /\ b[3] \in Token /\ b[4] \in Token
<1>1. b \in Seq(Token) /\ 1 \in 1..Len(b) /\ 2 \in 1..Len(b) /\ 3 \in 1..Len(b) /\ 4 \in 1..Len(b)
  <2>1. b \in Seq(Token) /\ Len(b) = 4
    BY DEF Bytes
  <2> QED BY <2>1
<1> QED BY <1>1, ElementOfSeq

LEMMA DecodedIs ==
  ASSUME NEW b
  PROVE  /\ decode_published_note(b).cm = b[1]
         /\ decode_published_note(b).enc.ct_d = Output[b[2]].enc.ct_d
         /\ decode_published_note(b).enc.tag = Output[b[2]].enc.tag
         /\ decode_published_note(b).enc.ct_v = Output[b[3]].enc.ct_v
         /\ decode_published_note(b).enc.encrypted_data = Output[b[3]].enc.encrypted_data
         /\ decode_published_note(b).enc.outgoing_ct = Output[b[4]].enc.outgoing_ct
BY DEF decode_published_note

\* What a viewing key opens of an encrypted note is the n-th note's.
Viewable(enc, n) ==
  enc.ct_v = Output[n].enc.ct_v /\ enc.encrypted_data = Output[n].enc.encrypted_data

\* A viewing key opens the notes of its address and no other.
LEMMA OpensFor ==
  ASSUME NEW key, NEW n \in Token, NEW enc, Viewable(enc, n), NEW a
  PROVE  decrypt_memo(enc, derive_kem_view_seed(derive_account(key).incoming_seed, a)) =
           IF Plain[n].to = key /\ Plain[n].j = a
           THEN <<[v |-> Plain[n].v, rseed |-> n]>> ELSE <<>>
<1> DEFINE dk == derive_kem_view_seed(derive_account(key).incoming_seed, a)
           s == decapsulate(enc.ct_v, dk)
<1>1. /\ enc.ct_v.ek = KeysOf(n).v /\ enc.ct_v.m = n
      /\ enc.encrypted_data.key = blake2s("SP__", <<"shared", KeysOf(n).v, n>>)
      /\ enc.encrypted_data.plaintext = [v |-> Plain[n].v, rseed |-> n]
  <2>1. /\ enc.ct_v = [ek |-> KeysOf(n).v, m |-> n]
        /\ enc.encrypted_data = [key |-> blake2s("SP__", <<"shared", KeysOf(n).v, n>>),
                                 plaintext |-> [v |-> Plain[n].v, rseed |-> n]]
    BY OutputEnc DEF Viewable
  <2> QED BY <2>1
<1>2. KeysOf(n).v = derive_kem_view_seed(derive_account(Plain[n].to).incoming_seed, Plain[n].j)
  BY DEF KeysOf, derive_kem_keys
<1>3. KeysOf(n).v = dk <=> (Plain[n].to = key /\ Plain[n].j = a)
  <2>1. ASSUME KeysOf(n).v = dk PROVE Plain[n].to = key /\ Plain[n].j = a
    <3>1. derive_account(Plain[n].to).incoming_seed = derive_account(key).incoming_seed
          /\ Plain[n].j = a
      <4>1. derive_kem_view_seed(derive_account(Plain[n].to).incoming_seed, Plain[n].j)
              = derive_kem_view_seed(derive_account(key).incoming_seed, a)
        BY <1>2, <2>1
      <4> QED BY <4>1, ViewKeysApart
    <3> QED BY <3>1, SeedsApart
  <2>2. ASSUME Plain[n].to = key, Plain[n].j = a PROVE KeysOf(n).v = dk
    BY <1>2, <2>2
  <2> QED BY <2>1, <2>2
<1> HIDE DEF dk
<1>4. s = IF KeysOf(n).v = dk THEN <<"shared", KeysOf(n).v, n>> ELSE <<"rejected", dk, n>>
  BY <1>1 DEF decapsulate
<1>5. blake2s("SP__", s) = blake2s("SP__", <<"shared", KeysOf(n).v, n>>) <=> KeysOf(n).v = dk
  BY <1>4 DEF blake2s
<1> HIDE DEF s
<1>6. decrypt_memo(enc, dk) = IF KeysOf(n).v = dk THEN <<[v |-> Plain[n].v, rseed |-> n]>> ELSE <<>>
  BY <1>1, <1>5 DEF decrypt_memo, s
<1> QED BY <1>3, <1>6 DEF dk

LEMMA OwnOpens ==
  ASSUME NEW key, NEW n \in Token, NEW a
  PROVE  decrypt_memo(Output[n].enc, derive_kem_view_seed(derive_account(key).incoming_seed, a)) =
           IF Plain[n].to = key /\ Plain[n].j = a
           THEN <<[v |-> Plain[n].v, rseed |-> n]>> ELSE <<>>
<1>1. Viewable(Output[n].enc, n)
  BY DEF Viewable
<1> QED BY <1>1, OpensFor

\* What view_record_for_note finds, whatever the bytes: it may be called on a
\* mix of two notes.
LEMMA ViewRecord ==
  ASSUME NEW b \in Bytes, NEW i, watch.addresses \in 0..Addresses
  PROVE  view_record_for_note(i, decode_published_note(b)) =
           IF /\ b[1] = b[3] /\ Mine(b[1], watch.addresses)
              /\ detect(decode_published_note(b).enc, KeysOf(b[1]).d)
           THEN <<Record(i, Plain[b[1]].j, b[1])>> ELSE <<>>
<1> DEFINE n == decode_published_note(b)
           keys(a) == from_view_wallet[a].keys
           opened(a) == decrypt_memo(n.enc, keys(a).v)
           sees(a) == /\ detect(n.enc, keys(a).d)
                      /\ opened(a) # <<>>
                      /\ note_commitment(from_view_wallet[a].address, opened(a)[1].v,
                                         opened(a)[1].rseed) = Output[n.cm].cm
           found == {a \in 0 .. watch.addresses - 1 : sees(a)}
           Cond == /\ b[1] = b[3] /\ Mine(b[1], watch.addresses)
                   /\ detect(n.enc, KeysOf(b[1]).d)
<1>1. b[1] \in Token /\ b[3] \in Token /\ Plain[b[3]].j \in Nat
  BY BytesAre, DeliveryAssumption DEF Token
<1>2. n.cm = b[1] /\ n.enc.ct_v = Output[b[3]].enc.ct_v
      /\ n.enc.encrypted_data = Output[b[3]].enc.encrypted_data
  BY DecodedIs
<1> HIDE DEF n
<1>3. ASSUME NEW a \in 0 .. watch.addresses - 1
      PROVE  sees(a) <=> /\ Plain[b[3]].to = WatchedKey /\ Plain[b[3]].j = a /\ b[1] = b[3]
                         /\ detect(n.enc, KeysOf(b[3]).d)
  <2>1. /\ keys(a) = derive_kem_keys(Watched.incoming_seed, a)
        /\ from_view_wallet[a].address = payment_address(Watched, a)
    <3>1. a \in 0 .. Addresses - 1
      BY DeliveryAssumption
    <3> QED BY <3>1 DEF from_view_wallet
  <2>2. keys(a).v = derive_kem_view_seed(Watched.incoming_seed, a)
    BY <2>1 DEF derive_kem_keys
  <2>3. IF Plain[b[3]].to = WatchedKey /\ Plain[b[3]].j = a
        THEN opened(a) = <<[v |-> Plain[b[3]].v, rseed |-> b[3]]>> ELSE opened(a) = <<>>
    <3>1. PICK key, e : key = WatchedKey /\ e = n.enc
      OBVIOUS
    <3>2. Viewable(e, b[3])
      BY <1>2, <3>1 DEF Viewable
    <3>3. decrypt_memo(e, derive_kem_view_seed(derive_account(key).incoming_seed, a)) =
            IF Plain[b[3]].to = key /\ Plain[b[3]].j = a
            THEN <<[v |-> Plain[b[3]].v, rseed |-> b[3]]>> ELSE <<>>
      BY <1>1, <3>2, OpensFor
    <3>4. opened(a) = decrypt_memo(e, derive_kem_view_seed(derive_account(key).incoming_seed, a))
      BY <2>2, <3>1 DEF Watched
    <3> QED BY <3>1, <3>3, <3>4
  <2>4. CASE ~(Plain[b[3]].to = WatchedKey /\ Plain[b[3]].j = a)
    BY <2>3, <2>4
  <2>5. CASE Plain[b[3]].to = WatchedKey /\ Plain[b[3]].j = a
    <3>1. opened(a) = <<[v |-> Plain[b[3]].v, rseed |-> b[3]]>>
      BY <2>3, <2>5
    <3>2. opened(a) # <<>> /\ opened(a)[1].v = Plain[b[3]].v /\ opened(a)[1].rseed = b[3]
      BY <3>1
    <3>3. from_view_wallet[a].address = AddressOf(b[3]) /\ keys(a) = KeysOf(b[3])
      BY <2>1, <2>5 DEF AddressOf, KeysOf, Watched
    <3> HIDE DEF opened, keys
    <3>4. note_commitment(from_view_wallet[a].address, opened(a)[1].v, opened(a)[1].rseed)
            = Output[b[3]].cm
      BY <1>1, <3>2, <3>3, OutputCm
    <3>5. Output[b[3]].cm = Output[n.cm].cm <=> b[1] = b[3]
      BY <1>1, <1>2, OutputCmApart
    <3> QED BY <2>5, <3>2, <3>3, <3>4, <3>5
  <2> QED BY <2>4, <2>5
<1>4. view_record_for_note(i, n) = First(i, found, b[1])
  BY <1>2 DEF view_record_for_note
<1> HIDE DEF sees
<1>5. found = IF Cond THEN {Plain[b[1]].j} ELSE {}
  BY <1>1, <1>3 DEF Mine
<1>6. found \subseteq Nat
  BY <1>1, <1>5
<1> HIDE DEF found
<1>7. First(i, found, b[1]) = IF Cond THEN <<Record(i, Plain[b[1]].j, b[1])>> ELSE <<>>
  <2>1. CASE Cond
    <3>1. found = {Plain[b[1]].j} /\ found # {}
      BY <1>5, <2>1
    <3>2. PICK a \in found : First(i, found, b[1]) = <<Record(i, a, b[1])>>
      BY <1>6, <3>1, FirstIs
    <3> QED BY <2>1, <3>1, <3>2
  <2>2. CASE ~Cond
    <3>1. First(i, found, b[1]) = <<>>
      BY <1>5, <1>6, <2>2, FirstIs
    <3> QED BY <2>2, <3>1
  <2> QED BY <2>1, <2>2
<1> QED BY <1>4, <1>7 DEF n

LEMMA OutgoingRecord ==
  ASSUME NEW b \in Bytes, NEW i
  PROVE  outgoing_record_for_note(i, decode_published_note(b)) =
           IF b[1] = b[4] /\ Plain[b[1]].from = WatchedKey
           THEN <<Record(i, 0, b[1])>> ELSE <<>>
<1> DEFINE n == decode_published_note(b)
           ct == n.enc.outgoing_ct
           cm == Output[n.cm].cm
           key == derive_outgoing_recovery_key(from_outgoing_wallet, cm)
           recovery == decrypt_outgoing_recovery(from_outgoing_wallet, cm, ct)
<1>1. b[1] \in Token /\ b[4] \in Token
  BY BytesAre
<1>2. n.cm = b[1] /\ ct = Output[b[4]].enc.outgoing_ct
  BY DecodedIs
<1>3. outgoing_record_for_note(i, n) =
        IF recovery # <<>> /\ commitment(recovery[1]) = cm THEN <<Record(i, 0, b[1])>> ELSE <<>>
  BY <1>2 DEF outgoing_record_for_note
<1> HIDE DEF n, ct
<1>4. ct.key = derive_outgoing_recovery_key(SenderSeed(b[4]), Output[b[4]].cm)
      /\ commitment(ct.plaintext) = Output[b[4]].cm
  BY <1>1, <1>2, OutputEnc
<1>5. ct.key = key <=> (b[1] = b[4] /\ Plain[b[1]].from = WatchedKey)
  <2>1. ct.key = key <=> (SenderSeed(b[4]) = from_outgoing_wallet /\ Output[b[4]].cm = cm)
    BY <1>4 DEF derive_outgoing_recovery_key, blake2s
  <2>2. Output[b[4]].cm = cm <=> b[1] = b[4]
    BY <1>1, <1>2, OutputCmApart
  <2>3. SenderSeed(b[4]) = from_outgoing_wallet <=> Plain[b[4]].from = WatchedKey
    BY SeedsApart DEF SenderSeed, from_outgoing_wallet, Watched
  <2> HIDE DEF key, cm
  <2> QED BY <2>1, <2>2, <2>3
<1>6. recovery = IF ct.key = key THEN <<ct.plaintext>> ELSE <<>>
  BY DEF decrypt_outgoing_recovery
<1>7. ASSUME b[1] = b[4] PROVE commitment(ct.plaintext) = cm
  BY <1>2, <1>4, <1>7
<1> HIDE DEF key, cm, recovery
<1> QED BY <1>3, <1>5, <1>6, <1>7 DEF n

Modes == {"detect", "view", "outgoing"}

\* A record of the bytes b at an index.
RecordOf(x, mode, i, b) ==
  /\ x \in Rec /\ x.index = i /\ x.cm = b[1]
  /\ mode = "view" => b[3] = b[1] /\ Plain[b[1]].to = WatchedKey /\ Plain[b[1]].j = x.addr_index
  /\ mode = "outgoing" => b[4] = b[1]

LEMMA DetectRecord ==
  ASSUME NEW b \in Bytes, NEW i, watch.addresses \in 0..Addresses
  PROVE  LET found == {a \in 0 .. watch.addresses - 1 : detect(Output[b[2]].enc, DetectKey(a))}
         IN  detect_record_for_note(i, decode_published_note(b)) = First(i, found, b[1])
<1> DEFINE n == decode_published_note(b)
<1>1. n.cm = b[1] /\ n.enc.ct_d = Output[b[2]].enc.ct_d /\ n.enc.tag = Output[b[2]].enc.tag
  BY DecodedIs
<1> HIDE DEF n
<1>2. \A a : detect(n.enc, DetectKey(a)) <=> detect(Output[b[2]].enc, DetectKey(a))
  BY <1>1 DEF detect
<1>3. \A a : DetectKey(a) = derive_kem_detect_keys_from_root(from_detect_wallet, a)
  BY DEF DetectKey, from_detect_wallet, derive_kem_detect_seed
<1>4. {a \in 0 .. watch.addresses - 1 : detect(Output[b[2]].enc, DetectKey(a))} =
        {a \in 0 .. watch.addresses - 1 :
           detect(n.enc, derive_kem_detect_keys_from_root(from_detect_wallet, a))}
  BY <1>2, <1>3
<1> QED BY <1>1, <1>4 DEF detect_record_for_note, n

LEMMA RecordIs ==
  ASSUME NEW b \in Bytes, NEW i \in Nat, watch.mode \in Modes, watch.addresses \in 0..Addresses,
         NEW r, r = record_for_note(i, decode_published_note(b))
  PROVE  r = <<>> \/ \E x : r = <<x>> /\ RecordOf(x, watch.mode, i, b)
<1>1. b[1] \in Token /\ Plain[b[1]].j \in Nat
  BY BytesAre, DeliveryAssumption DEF Token
<1>2. CASE watch.mode = "detect"
  <2> DEFINE found == {a \in 0 .. watch.addresses - 1 : detect(Output[b[2]].enc, DetectKey(a))}
  <2>1. r = First(i, found, b[1])
    BY <1>2, DetectRecord DEF record_for_note
  <2>2. found \subseteq Nat
    BY DeliveryAssumption
  <2> HIDE DEF found
  <2>3. CASE found = {}
    BY <2>1, <2>2, <2>3, FirstIs
  <2>4. CASE found # {}
    <3>1. PICK a \in found : r = <<Record(i, a, b[1])>>
      BY <2>1, <2>2, <2>4, FirstIs
    <3>2. RecordOf(Record(i, a, b[1]), watch.mode, i, b)
      BY <1>1, <1>2, <2>2 DEF RecordOf, Record, Rec
    <3> QED BY <3>1, <3>2
  <2> QED BY <2>3, <2>4
<1>3. CASE watch.mode = "view"
  <2>1. r = view_record_for_note(i, decode_published_note(b))
    BY <1>3 DEF record_for_note
  <2>2. RecordOf(Record(i, Plain[b[1]].j, b[1]), watch.mode, i, b)
        \/ ~(b[1] = b[3] /\ Mine(b[1], watch.addresses))
    BY <1>1, <1>3 DEF RecordOf, Record, Rec, Mine
  <2>3. r = IF /\ b[1] = b[3] /\ Mine(b[1], watch.addresses)
               /\ detect(decode_published_note(b).enc, KeysOf(b[1]).d)
            THEN <<Record(i, Plain[b[1]].j, b[1])>> ELSE <<>>
    BY <2>1, ViewRecord
  <2> QED BY <2>2, <2>3
<1>4. CASE watch.mode = "outgoing"
  <2>1. r = outgoing_record_for_note(i, decode_published_note(b))
    BY <1>4 DEF record_for_note
  <2>2. RecordOf(Record(i, 0, b[1]), watch.mode, i, b) \/ b[1] # b[4]
    BY <1>1, <1>4 DEF RecordOf, Record, Rec
  <2>3. r = IF b[1] = b[4] /\ Plain[b[1]].from = WatchedKey THEN <<Record(i, 0, b[1])>> ELSE <<>>
    BY <2>1, OutgoingRecord
  <2> QED BY <2>2, <2>3
<1> QED BY <1>2, <1>3, <1>4 DEF Modes

\* The bytes of one note are recorded if and only if the keys know the note.
LEMMA RecordKnown ==
  ASSUME NEW b \in Bytes, NEW i \in Nat, watch.mode \in Modes, watch.addresses \in 0..Addresses,
         b[3] = b[2], b[4] = b[2]
  PROVE  record_for_note(i, decode_published_note(b)) # <<>>
           <=> KnownNote(watch.mode, watch.addresses, b[1], b[2])
<1>1. b[1] \in Token /\ b[2] \in Token
  BY BytesAre
<1>2. CASE watch.mode = "detect"
  <2> DEFINE found == {a \in 0 .. watch.addresses - 1 : detect(Output[b[2]].enc, DetectKey(a))}
  <2>1. record_for_note(i, decode_published_note(b)) = First(i, found, b[1])
    BY <1>2, DetectRecord DEF record_for_note
  <2>2. KnownNote(watch.mode, watch.addresses, b[1], b[2]) <=> found # {}
    BY <1>2 DEF KnownNote
  <2>3. found \subseteq Nat
    BY DeliveryAssumption
  <2> HIDE DEF found
  <2>4. First(i, found, b[1]) # <<>> <=> found # {}
    <3>1. CASE found = {}
      BY <2>3, <3>1, FirstIs
    <3>2. CASE found # {}
      <4>1. PICK a \in found : First(i, found, b[1]) = <<Record(i, a, b[1])>>
        BY <2>3, <3>2, FirstIs
      <4> QED BY <3>2, <4>1
    <3> QED BY <3>1, <3>2
  <2> QED BY <2>1, <2>2, <2>4
<1>3. CASE watch.mode = "view"
  <2>1. record_for_note(i, decode_published_note(b)) =
          IF /\ b[1] = b[3] /\ Mine(b[1], watch.addresses)
             /\ detect(decode_published_note(b).enc, KeysOf(b[1]).d)
          THEN <<Record(i, Plain[b[1]].j, b[1])>> ELSE <<>>
    BY <1>3, ViewRecord DEF record_for_note
  <2>2. KnownNote(watch.mode, watch.addresses, b[1], b[2])
          <=> b[1] = b[2] /\ Mine(b[2], watch.addresses)
    BY <1>3 DEF KnownNote
  <2>3. detect(Output[b[2]].enc, KeysOf(b[2]).d)
    BY <1>1, OutputEnc
  <2>4. detect(decode_published_note(b).enc, KeysOf(b[2]).d)
    BY <2>3, DecodedIs DEF detect
  <2> QED BY <2>1, <2>2, <2>4
<1>4. CASE watch.mode = "outgoing"
  <2>1. record_for_note(i, decode_published_note(b)) =
          IF b[1] = b[4] /\ Plain[b[1]].from = WatchedKey THEN <<Record(i, 0, b[1])>> ELSE <<>>
    BY <1>4, OutgoingRecord DEF record_for_note
  <2>2. KnownNote(watch.mode, watch.addresses, b[1], b[2])
          <=> b[1] = b[2] /\ Plain[b[2]].from = WatchedKey
    BY <1>4 DEF KnownNote
  <2> QED BY <2>1, <2>2
<1> QED BY <1>2, <1>3, <1>4 DEF Modes

\* feed_records goes through the feed one note at a time.
LEMMA FeedSteps ==
  ASSUME NEW feed, Len(feed) \in Nat
  PROVE  \E after : /\ after[0] = watch.records
                    /\ \A k \in 1..Len(feed) :
                         after[k] = with_record(after[k - 1], feed[k].index, feed[k].note)
                    /\ feed_records(feed) = after[Len(feed)]
<1> DEFINE W(x, k) == with_record(x, feed[k].index, feed[k].note)
           Is(m, f) == f = [k \in 0..m |-> IF k = 0 THEN watch.records ELSE W(f[k - 1], k)]
           T == {m \in Nat : \E f : Is(m, f)}
           f0 == CHOOSE f : Is(Len(feed), f)
<1>f. feed_records(feed) = f0[Len(feed)]
  BY DEF feed_records
<1>1. 0 \in T
  <2> DEFINE g == [k \in 0..0 |-> watch.records]
  <2>1. Is(0, g)
    OBVIOUS
  <2> QED BY <2>1
<1>2. ASSUME NEW m \in Nat, m \in T PROVE m + 1 \in T
  <2>1. PICK f : Is(m, f)
    BY <1>2
  <2> DEFINE g == [k \in 0..(m + 1) |-> IF k = m + 1 THEN W(f[m], m + 1) ELSE f[k]]
             h == [k \in 0..(m + 1) |-> IF k = 0 THEN watch.records ELSE W(g[k - 1], k)]
  <2>2. ASSUME NEW k \in 0..(m + 1) PROVE g[k] = h[k]
    <3>1. CASE k = m + 1
      <4>1. g[k] = W(f[m], m + 1) /\ g[m] = f[m] /\ h[k] = W(g[m], m + 1) /\ k - 1 = m
        BY <3>1
      <4> QED BY <4>1
    <3>2. CASE k # m + 1 /\ k # 0
      <4>1. k \in 0..m /\ k - 1 \in 0..m /\ k - 1 \in 0..(m + 1) /\ k - 1 # m + 1
        BY <3>2
      <4>2. g[k] = f[k] /\ g[k - 1] = f[k - 1]
        BY <3>2, <4>1
      <4>3. f[k] = W(f[k - 1], k)
        BY <2>1, <3>2, <4>1
      <4>4. h[k] = W(g[k - 1], k)
        BY <3>2
      <4> QED BY <4>2, <4>3, <4>4
    <3>3. CASE k = 0
      <4>1. g[0] = f[0] /\ f[0] = watch.records /\ h[0] = watch.records
        BY <2>1
      <4> QED BY <3>3, <4>1
    <3> QED BY <3>1, <3>2, <3>3
  <2>3. g = h
    <3>1. DOMAIN g = 0..(m + 1) /\ DOMAIN h = 0..(m + 1)
          /\ g = [k \in 0..(m + 1) |-> g[k]] /\ h = [k \in 0..(m + 1) |-> h[k]]
      OBVIOUS
    <3> HIDE DEF g, h
    <3> QED BY <2>2, <3>1
  <2>4. Is(m + 1, g)
    BY <2>3
  <2>5. m + 1 \in Nat
    OBVIOUS
  <2> HIDE DEF Is, g, h
  <2> QED BY <2>4, <2>5
<1> HIDE DEF T
<1>3. Nat \subseteq T
  BY <1>1, <1>2, SetInduction
<1>4. \E f : Is(Len(feed), f)
  BY <1>3 DEF T
<1>5. Is(Len(feed), f0)
  <2> HIDE DEF Is
  <2> QED BY <1>4
<1> HIDE DEF f0
<1>6. f0[0] = watch.records /\ \A k \in 1..Len(feed) : f0[k] = W(f0[k - 1], k)
  BY <1>5
<1> QED BY <1>f, <1>6

\* The feed of n notes after a cursor.
FeedOf(cursor, n, bs) ==
  [k \in 1..n |-> [index |-> cursor + k - 1, note |-> decode_published_note(bs[k - 1])]]

WatchType ==
  /\ watch.mode \in Modes /\ watch.addresses \in 0..Addresses
  /\ watch.scanned \in Nat /\ watch.records \in Seq(Rec)

\* with_record adds at most the record of the note.
LEMMA WithRecord ==
  ASSUME NEW rs \in Seq(Rec), NEW b \in Bytes, NEW i \in Nat, WatchType,
         NEW new, new = with_record(rs, i, decode_published_note(b))
  PROVE  \/ new = rs
         \/ \E x : RecordOf(x, watch.mode, i, b) /\ new = Append(rs, x)
<1>1. PICK r : r = record_for_note(i, decode_published_note(b))
  OBVIOUS
<1>2. new = IF r = <<>> \/ \E k \in DOMAIN rs : rs[k].index = i /\ rs[k].cm = r[1].cm
            THEN rs ELSE Append(rs, r[1])
  BY <1>1 DEF with_record
<1>3. CASE r = <<>>
  BY <1>2, <1>3
<1>4. CASE r # <<>>
  <2>1. PICK x : r = <<x>> /\ RecordOf(x, watch.mode, i, b)
    BY <1>1, <1>4, RecordIs DEF WatchType
  <2>2. r[1] = x
    BY <2>1
  <2> QED BY <1>2, <2>1, <2>2
<1> QED BY <1>3, <1>4

\* Every record is an old one or of a note of the feed.
LEMMA FeedReal ==
  ASSUME WatchType, NEW cursor \in Nat, NEW n \in Nat, NEW bs \in [0 .. n - 1 -> Bytes]
  PROVE  LET rs == feed_records(FeedOf(cursor, n, bs))
         IN  /\ rs \in Seq(Rec)
             /\ \A k \in 1..Len(rs) :
                  \/ \E l \in 1..Len(watch.records) : rs[k] = watch.records[l]
                  \/ \E off \in 0 .. n - 1 : RecordOf(rs[k], watch.mode, cursor + off, bs[off])
<1> DEFINE feed == FeedOf(cursor, n, bs)
           Fine(x) == \/ \E l \in 1..Len(watch.records) : x = watch.records[l]
                      \/ \E off \in 0 .. n - 1 : RecordOf(x, watch.mode, cursor + off, bs[off])
           Good(rs) == rs \in Seq(Rec) /\ \A k \in 1..Len(rs) : Fine(rs[k])
<1>1. Len(feed) = n
  <2>1. feed \in [1..n -> {feed[k] : k \in 1..n}]
    BY DEF FeedOf
  <2> QED BY <2>1, FunctionIsSeq
<1>2. \A k \in 1..n : /\ feed[k].index = cursor + (k - 1)
                      /\ feed[k].note = decode_published_note(bs[k - 1])
  BY DEF FeedOf
<1> HIDE DEF feed
<1>3. PICK after : /\ after[0] = watch.records
                   /\ \A k \in 1..n :
                        after[k] = with_record(after[k - 1], feed[k].index, feed[k].note)
                   /\ feed_records(feed) = after[n]
  BY <1>1, FeedSteps
<1> DEFINE T == {k \in 0..n : Good(after[k])}
<1>4. 0 \in T
  <2>1. watch.records \in Seq(Rec) /\ 0 \in 0..n
    BY DEF WatchType
  <2>2. \A k \in 1..Len(watch.records) : Fine(watch.records[k])
    OBVIOUS
  <2> HIDE DEF Fine
  <2>3. Good(after[0])
    BY <1>3, <2>1, <2>2
  <2> HIDE DEF Good
  <2> QED BY <2>1, <2>3
<1>5. ASSUME NEW k \in 0 .. n - 1, k \in T PROVE k + 1 \in T
  <2>1. k + 1 \in 1..n /\ (k + 1) - 1 = k /\ cursor + k \in Nat /\ bs[k] \in Bytes
    OBVIOUS
  <2>2. after[k + 1] = with_record(after[k], cursor + k, decode_published_note(bs[k]))
    BY <1>2, <1>3, <2>1
  <2>3. Good(after[k])
    BY <1>5
  <2>4. PICK rs, new : rs = after[k] /\ new = after[k + 1]
    OBVIOUS
  <2>5. CASE new = rs
    <3>1. k + 1 \in 0..n
      BY <2>1
    <3> HIDE DEF Good
    <3> QED BY <2>3, <2>4, <2>5, <3>1
  <2>6. ASSUME NEW x, RecordOf(x, watch.mode, cursor + k, bs[k]), new = Append(rs, x)
        PROVE  k + 1 \in T
    <3>1. rs \in Seq(Rec) /\ x \in Rec /\ \A j \in 1..Len(rs) : Fine(rs[j])
      BY <2>3, <2>4, <2>6 DEF RecordOf
    <3>2. Fine(x)
      BY <2>6
    <3> HIDE DEF Fine
    <3>3. new \in Seq(Rec) /\ Len(new) = Len(rs) + 1 /\ Len(rs) \in Nat
          /\ (\A j \in 1..Len(rs) : new[j] = rs[j]) /\ new[Len(rs) + 1] = x
      BY <2>6, <3>1, AppendProperties, LenProperties
    <3>4. ASSUME NEW j \in 1..Len(new) PROVE Fine(new[j])
      <4>1. CASE j = Len(rs) + 1
        BY <3>2, <3>3, <4>1
      <4>2. CASE j # Len(rs) + 1
        <5>1. j \in 1..Len(rs)
          BY <3>3, <4>2
        <5> QED BY <3>1, <3>3, <5>1
      <4> QED BY <4>1, <4>2
    <3> QED BY <2>1, <2>4, <3>3, <3>4
  <2>7. \/ new = rs
        \/ \E x : RecordOf(x, watch.mode, cursor + k, bs[k]) /\ new = Append(rs, x)
    <3>1. rs \in Seq(Rec) /\ new = with_record(rs, cursor + k, decode_published_note(bs[k]))
      BY <2>2, <2>3, <2>4
    <3> QED BY <2>1, <3>1, WithRecord
  <2> QED BY <2>5, <2>6, <2>7
<1> HIDE DEF T
<1>6. n \in T
  <2>1. 0..n \subseteq T
    BY <1>4, <1>5, UpTo
  <2> QED BY <2>1
<1> QED BY <1>3, <1>6 DEF T, feed

\* The records are those of the known notes below an index, in order.
Cm(ns, i) == read_persisted_note(ns[i + 1])[1]
Enc(ns, i) == read_persisted_note(ns[i + 1])[2]

KnownBelow(ns, mode, addresses, m) ==
  {i \in 0 .. m - 1 : KnownNote(mode, addresses, Cm(ns, i), Enc(ns, i))}

ExactUpTo(rs, ns, mode, addresses, m) ==
  /\ {rs[k].index : k \in 1..Len(rs)} = KnownBelow(ns, mode, addresses, m)
  /\ \A k \in 1 .. Len(rs) - 1 : rs[k].index < rs[k + 1].index
  /\ \A k \in 1..Len(rs) : rs[k].cm = Cm(ns, rs[k].index)

\* Bytes that are those of the note at an index.
BytesOf(b, ns, i) == b[1] = Cm(ns, i) /\ \A j \in 2..4 : b[j] = Enc(ns, i)

LEMMA ExactStep ==
  ASSUME NEW rs \in Seq(Rec), NEW b \in Bytes, NEW m \in Nat, WatchType, BytesOf(b, notes, m),
         ExactUpTo(rs, notes, watch.mode, watch.addresses, m),
         NEW new, new = with_record(rs, m, decode_published_note(b))
  PROVE  new \in Seq(Rec) /\ ExactUpTo(new, notes, watch.mode, watch.addresses, m + 1)
<1> DEFINE K == KnownBelow(notes, watch.mode, watch.addresses, m)
           L == KnownBelow(notes, watch.mode, watch.addresses, m + 1)
           known == KnownNote(watch.mode, watch.addresses, Cm(notes, m), Enc(notes, m))
<1>1. b[1] = Cm(notes, m) /\ b[2] = Enc(notes, m) /\ b[3] = b[2] /\ b[4] = b[2]
  BY DEF BytesOf
<1>2. PICK r : r = record_for_note(m, decode_published_note(b))
  OBVIOUS
<1>3. r # <<>> <=> known
  BY <1>1, <1>2, RecordKnown DEF WatchType
<1>4. new = IF r = <<>> \/ \E k \in DOMAIN rs : rs[k].index = m /\ rs[k].cm = r[1].cm
            THEN rs ELSE Append(rs, r[1])
  BY <1>2 DEF with_record
<1>5. L = IF known THEN K \cup {m} ELSE K
  <2>1. 0 .. (m + 1) - 1 = (0 .. m - 1) \cup {m}
    OBVIOUS
  <2> QED BY <2>1 DEF KnownBelow
<1>6. K \subseteq 0 .. m - 1
  BY DEF KnownBelow
<1> HIDE DEF K, L, known
<1>7. /\ {rs[k].index : k \in 1..Len(rs)} = K
      /\ \A k \in 1 .. Len(rs) - 1 : rs[k].index < rs[k + 1].index
      /\ \A k \in 1..Len(rs) : rs[k].cm = Cm(notes, rs[k].index)
  BY DEF ExactUpTo, K
<1>8. CASE ~known
  <2>1. new = rs /\ L = K
    BY <1>3, <1>4, <1>5, <1>8
  <2> QED BY <1>7, <2>1 DEF ExactUpTo, L
<1>9. CASE known
  <2>1. PICK x : r = <<x>> /\ RecordOf(x, watch.mode, m, b)
    BY <1>2, <1>3, <1>9, RecordIs DEF WatchType
  <2>2. r[1] = x /\ r # <<>> /\ x \in Rec /\ x.index = m /\ x.cm = Cm(notes, m)
    BY <1>1, <2>1 DEF RecordOf
  <2>3. Len(rs) \in Nat /\ DOMAIN rs = 1..Len(rs)
    BY LenProperties
  <2>4. \A k \in 1..Len(rs) : rs[k].index \in 0 .. m - 1
    BY <1>6, <1>7
  <2>5. new = Append(rs, x)
    <3>1. ~ \E k \in DOMAIN rs : rs[k].index = m
      BY <2>3, <2>4
    <3> QED BY <1>4, <2>2, <3>1
  <2>6. /\ new \in Seq(Rec) /\ Len(new) = Len(rs) + 1
        /\ (\A k \in 1..Len(rs) : new[k] = rs[k]) /\ new[Len(rs) + 1] = x
    BY <2>2, <2>5, AppendProperties
  <2>7. {new[k].index : k \in 1..Len(new)} = L
    <3>1. 1..Len(new) = (1..Len(rs)) \cup {Len(rs) + 1}
      BY <2>3, <2>6
    <3>2. {new[k].index : k \in 1..Len(new)} = {rs[k].index : k \in 1..Len(rs)} \cup {m}
      BY <2>2, <2>6, <3>1
    <3> QED BY <1>5, <1>7, <1>9, <3>2
  <2>8. ASSUME NEW k \in 1 .. Len(new) - 1 PROVE new[k].index < new[k + 1].index
    <3>1. k \in 1..Len(rs) /\ new[k] = rs[k]
      BY <2>3, <2>6
    <3>2. CASE k = Len(rs)
      <4>1. new[k + 1] = x
        BY <2>6, <3>2
      <4>2. rs[k].index \in 0 .. m - 1
        BY <2>4, <3>1
      <4> QED BY <2>2, <3>1, <4>1, <4>2
    <3>3. CASE k # Len(rs)
      <4>1. k \in 1 .. Len(rs) - 1 /\ k + 1 \in 1..Len(rs)
        <5>1. PICK l \in Nat : l = Len(rs)
          BY <2>3
        <5>2. k \in 1..l /\ k # l
          BY <3>1, <3>3, <5>1
        <5>3. k \in 1 .. l - 1 /\ k + 1 \in 1..l
          BY <5>2
        <5> QED BY <5>1, <5>3
      <4> QED BY <1>7, <2>6, <3>1, <4>1
    <3> QED BY <3>2, <3>3
  <2>9. ASSUME NEW k \in 1..Len(new) PROVE new[k].cm = Cm(notes, new[k].index)
    <3>1. CASE k = Len(rs) + 1
      BY <2>2, <2>6, <3>1
    <3>2. CASE k # Len(rs) + 1
      <4>1. k \in 1..Len(rs)
        BY <2>3, <2>6, <3>2
      <4> QED BY <1>7, <2>6, <4>1
    <3> QED BY <3>1, <3>2
  <2> QED BY <2>6, <2>7, <2>8, <2>9 DEF ExactUpTo, L
<1> QED BY <1>8, <1>9

\* The feed of the next notes makes the records exact up to its end.
LEMMA FeedExact ==
  ASSUME WatchType, NEW cursor \in Nat, NEW n \in Nat, NEW bs \in [0 .. n - 1 -> Bytes],
         \A off \in 0 .. n - 1 : BytesOf(bs[off], notes, cursor + off),
         ExactUpTo(watch.records, notes, watch.mode, watch.addresses, cursor)
  PROVE  ExactUpTo(feed_records(FeedOf(cursor, n, bs)), notes, watch.mode, watch.addresses,
                   cursor + n)
<1> DEFINE feed == FeedOf(cursor, n, bs)
           Good(rs, m) == rs \in Seq(Rec) /\ ExactUpTo(rs, notes, watch.mode, watch.addresses, m)
<1>1. Len(feed) = n
  <2>1. feed \in [1..n -> {feed[k] : k \in 1..n}]
    BY DEF FeedOf
  <2> QED BY <2>1, FunctionIsSeq
<1>2. \A k \in 1..n : /\ feed[k].index = cursor + (k - 1)
                      /\ feed[k].note = decode_published_note(bs[k - 1])
  BY DEF FeedOf
<1> HIDE DEF feed
<1>3. PICK after : /\ after[0] = watch.records
                   /\ \A k \in 1..n :
                        after[k] = with_record(after[k - 1], feed[k].index, feed[k].note)
                   /\ feed_records(feed) = after[n]
  BY <1>1, FeedSteps
<1> DEFINE T == {k \in 0..n : Good(after[k], cursor + k)}
<1>4. 0 \in T
  <2>1. Good(after[0], cursor) /\ cursor + 0 = cursor /\ 0 \in 0..n
    BY <1>3 DEF WatchType
  <2> HIDE DEF Good
  <2> QED BY <2>1
<1>5. ASSUME NEW k \in 0 .. n - 1, k \in T PROVE k + 1 \in T
  <2>1. k + 1 \in 1..n /\ (k + 1) - 1 = k /\ cursor + k \in Nat /\ bs[k] \in Bytes
        /\ cursor + (k + 1) = (cursor + k) + 1 /\ k + 1 \in 0..n
    OBVIOUS
  <2>2. after[k + 1] = with_record(after[k], cursor + k, decode_published_note(bs[k]))
    BY <1>2, <1>3, <2>1
  <2>3. Good(after[k], cursor + k)
    BY <1>5
  <2>4. PICK m \in Nat : m = cursor + k
    BY <2>1
  <2>5. PICK rs, new : rs = after[k] /\ new = after[k + 1]
    OBVIOUS
  <2>6. /\ rs \in Seq(Rec) /\ ExactUpTo(rs, notes, watch.mode, watch.addresses, m)
        /\ BytesOf(bs[k], notes, m) /\ new = with_record(rs, m, decode_published_note(bs[k]))
    BY <2>2, <2>3, <2>4, <2>5
  <2>7. new \in Seq(Rec) /\ ExactUpTo(new, notes, watch.mode, watch.addresses, m + 1)
    BY <2>1, <2>6, ExactStep
  <2>8. Good(after[k + 1], cursor + (k + 1))
    BY <2>1, <2>4, <2>5, <2>7
  <2> HIDE DEF Good
  <2> QED BY <2>1, <2>8
<1> HIDE DEF T
<1>6. n \in T
  <2>1. 0..n \subseteq T
    BY <1>4, <1>5, UpTo
  <2> QED BY <2>1
<1> QED BY <1>3, <1>6 DEF T, feed

-----------------------------------------------------------------------------
(***************************************************************************)
(* The invariant.                                                          *)
(***************************************************************************)
Stored(c, e) == write_note_payload(Payload(c, e))
Note == {Stored(c, e) : c \in Token, e \in Token}

\* Every note at the head was published at its index.
StoredAt(ns, pub, k) ==
  \E c \in Token, e \in Token : <<k - 1, c, e>> \in pub /\ ns[k] = Stored(c, e)

NotesInv(ns, pub) ==
  /\ ns \in Seq(Note)
  /\ pub \subseteq Nat \X Token \X Token
  /\ \A k \in 1..Len(ns) : StoredAt(ns, pub, k)

\* The first bytes of a note at an index: each is from some branch.
Piece(b, pub, i) ==
  /\ b \in Seq(Token) /\ Len(b) \in 0..4
  /\ \A j \in 1..Len(b) : \E p \in pub : p[1] = i /\ b[j] = Payload(p[2], p[3])[j]

\* They are all from the head.
OfHead(b, ns, i) ==
  /\ i < Len(ns)
  /\ \A j \in 1..Len(b) : b[j] = Payload(Cm(ns, i), Enc(ns, i))[j]

TaskOk(t, pub, i) ==
  /\ t \in [total : {0, 4}, bytes : Seq(Token)]
  /\ t.total = 0 => t.bytes = <<>>
  /\ t.total = 4 => /\ NoteChunk \in 1..3
                    /\ Len(t.bytes) \in 0..3 /\ Len(t.bytes) % NoteChunk = 0
  /\ Piece(t.bytes, pub, i)

ResultOk(b, pub, i) == b = <<>> \/ (Piece(b, pub, i) /\ Len(b) = 4)

Running(cursor, count, next, in_flight, results) ==
  [on |-> TRUE, cursor |-> cursor, count |-> count, next |-> next,
   in_flight |-> in_flight, results |-> results]

\* The sync has asked for the first offsets and has each answer, or waits for it.
Asked(cursor, count, next, tasks, results) ==
  /\ cursor \in Nat /\ count \in Nat /\ next \in Nat
  /\ cursor < count /\ next <= count - cursor
  /\ DOMAIN tasks \subseteq 0 .. next - 1
  /\ DOMAIN results = (0 .. next - 1) \ DOMAIN tasks
  /\ Cardinality(DOMAIN tasks) <= Concurrency

Answers(cursor, tasks, results, pub) ==
  /\ \A off \in DOMAIN tasks : TaskOk(tasks[off], pub, cursor + off)
  /\ \A off \in DOMAIN results : ResultOk(results[off], pub, cursor + off)

\* On one branch the answers are the head's.
OneBranch(cursor, count, tasks, results, ns) ==
  /\ count <= Len(ns)
  /\ \A off \in DOMAIN tasks : OfHead(tasks[off].bytes, ns, cursor + off)
  /\ \A off \in DOMAIN results : Len(results[off]) = 4 /\ OfHead(results[off], ns, cursor + off)

SyncOk(cursor, count, next, tasks, results, ns, pub, re) ==
  /\ Asked(cursor, count, next, tasks, results)
  /\ Answers(cursor, tasks, results, pub)
  /\ ~re => OneBranch(cursor, count, tasks, results, ns)

SyncInv(s, w, ns, pub, re) ==
  \/ s = Idle
  \/ /\ w # NoFile
     /\ \E cursor, count, next, tasks, results :
          /\ s = Running(cursor, count, next, tasks, results)
          /\ cursor = w.scanned
          /\ SyncOk(cursor, count, next, tasks, results, ns, pub, re)
          /\ DOMAIN tasks = {} => next = count - cursor

\* A record that ViewedReal allows.
RealRecord(x, mode, pub) ==
  mode \in {"view", "outgoing"} =>
    /\ \E p \in pub : p[1] = x.index /\ p[2] = x.cm
    /\ \E p \in pub : p[1] = x.index /\ p[3] = x.cm
    /\ mode = "view" => Plain[x.cm].to = WatchedKey /\ Plain[x.cm].j = x.addr_index

WatchFile == [mode : Modes, addresses : 0..Addresses, scanned : Nat, records : Seq(Rec)]

WatchInv(w, ns, pub, re) ==
  \/ w = NoFile
  \/ /\ w \in WatchFile
     /\ \A k \in 1..Len(w.records) : RealRecord(w.records[k], w.mode, pub)
     /\ ~re => /\ w.scanned <= Len(ns)
               /\ ExactUpTo(w.records, ns, w.mode, w.addresses, w.scanned)

DeliveryInv ==
  /\ NotesInv(notes, published)
  /\ WatchInv(watch, notes, published, reorged)
  /\ SyncInv(sync, watch, notes, published, reorged)

-----------------------------------------------------------------------------
(***************************************************************************)
(* The notes.                                                              *)
(***************************************************************************)
LEMMA StoredReads ==
  ASSUME NEW ns, NEW i \in Nat, NEW c, NEW e, ns[i + 1] = Stored(c, e)
  PROVE  Cm(ns, i) = c /\ Enc(ns, i) = e
BY ReadBack DEF Cm, Enc, Stored

LEMMA NoteAt ==
  ASSUME NEW ns, NEW pub, NotesInv(ns, pub), NEW i \in Nat, i < Len(ns)
  PROVE  /\ Cm(ns, i) \in Token /\ Enc(ns, i) \in Token
         /\ <<i, Cm(ns, i), Enc(ns, i)>> \in pub
         /\ ns[i + 1] = Stored(Cm(ns, i), Enc(ns, i))
<1>1. i + 1 \in 1..Len(ns) /\ (i + 1) - 1 = i
  <2>1. Len(ns) \in Nat
    BY LenProperties DEF NotesInv
  <2> QED BY <2>1
<1>2. PICK c \in Token, e \in Token : <<i, c, e>> \in pub /\ ns[i + 1] = Stored(c, e)
  BY <1>1 DEF NotesInv, StoredAt
<1>3. Cm(ns, i) = c /\ Enc(ns, i) = e
  BY <1>2, StoredReads
<1> QED BY <1>2, <1>3

\* A longer list of notes and a larger set of published ones change nothing
\* about the old notes.
Extends(ns, more) == Len(ns) <= Len(more) /\ \A k \in 1..Len(ns) : more[k] = ns[k]

LEMMA ReadsAlike ==
  ASSUME NEW ns, NEW more, Extends(ns, more), Len(ns) \in Nat, NEW i \in Nat, i < Len(ns)
  PROVE  Cm(more, i) = Cm(ns, i) /\ Enc(more, i) = Enc(ns, i)
<1>1. i + 1 \in 1..Len(ns)
  OBVIOUS
<1> QED BY <1>1 DEF Extends, Cm, Enc

LEMMA PieceStays ==
  ASSUME NEW pub, NEW pubs, pub \subseteq pubs, NEW b, NEW i, Piece(b, pub, i)
  PROVE  Piece(b, pubs, i)
BY DEF Piece

LEMMA HeadStays ==
  ASSUME NEW ns, NEW more, Extends(ns, more), Len(ns) \in Nat, Len(more) \in Nat,
         NEW i \in Nat, NEW b, OfHead(b, ns, i)
  PROVE  OfHead(b, more, i)
<1>1. i < Len(ns) /\ Len(ns) <= Len(more)
  BY DEF OfHead, Extends
<1>2. Cm(more, i) = Cm(ns, i) /\ Enc(more, i) = Enc(ns, i)
  BY <1>1, ReadsAlike
<1> QED BY <1>1, <1>2 DEF OfHead

LEMMA ExactStays ==
  ASSUME NEW ns, NEW more, Extends(ns, more), Len(ns) \in Nat, NEW m \in Nat, m <= Len(ns),
         NEW rs, NEW mode, NEW addresses, ExactUpTo(rs, ns, mode, addresses, m)
  PROVE  ExactUpTo(rs, more, mode, addresses, m)
<1>1. ASSUME NEW i \in 0 .. m - 1
      PROVE  Cm(more, i) = Cm(ns, i) /\ Enc(more, i) = Enc(ns, i)
  <2>1. i \in Nat /\ i < Len(ns)
    OBVIOUS
  <2> QED BY <2>1, ReadsAlike
<1>2. KnownBelow(more, mode, addresses, m) = KnownBelow(ns, mode, addresses, m)
  BY <1>1 DEF KnownBelow
<1>3. ASSUME NEW k \in 1..Len(rs) PROVE Cm(more, rs[k].index) = Cm(ns, rs[k].index)
  <2>1. rs[k].index \in KnownBelow(ns, mode, addresses, m)
    BY DEF ExactUpTo
  <2>2. rs[k].index \in 0 .. m - 1
    BY <2>1 DEF KnownBelow
  <2> QED BY <1>1, <2>2
<1> QED BY <1>2, <1>3 DEF ExactUpTo

LEMMA WatchStays ==
  ASSUME NEW ns, NEW more, Extends(ns, more), Len(ns) \in Nat, Len(more) \in Nat,
         NEW pub, NEW pubs, pub \subseteq pubs, NEW w, NEW re, WatchInv(w, ns, pub, re)
  PROVE  WatchInv(w, more, pubs, re)
<1>1. CASE w = NoFile
  BY <1>1 DEF WatchInv
<1>2. CASE w # NoFile
  <2>1. /\ w \in WatchFile
        /\ \A k \in 1..Len(w.records) : RealRecord(w.records[k], w.mode, pub)
        /\ ~re => /\ w.scanned <= Len(ns)
                  /\ ExactUpTo(w.records, ns, w.mode, w.addresses, w.scanned)
    BY <1>2 DEF WatchInv
  <2>2. \A k \in 1..Len(w.records) : RealRecord(w.records[k], w.mode, pubs)
    BY <2>1 DEF RealRecord
  <2>3. ASSUME ~re
        PROVE  w.scanned <= Len(more) /\ ExactUpTo(w.records, more, w.mode, w.addresses, w.scanned)
    <3>1. w.scanned \in Nat
      BY <2>1 DEF WatchFile
    <3>2. Len(ns) <= Len(more)
      BY DEF Extends
    <3> QED BY <2>1, <2>3, <3>1, <3>2, ExactStays
  <2> QED BY <2>1, <2>2, <2>3 DEF WatchInv
<1> QED BY <1>1, <1>2

LEMMA AnswersStay ==
  ASSUME NEW pub, NEW pubs, pub \subseteq pubs, NEW cursor, NEW tasks, NEW results,
         Answers(cursor, tasks, results, pub)
  PROVE  Answers(cursor, tasks, results, pubs)
<1>1. ASSUME NEW off \in DOMAIN tasks PROVE TaskOk(tasks[off], pubs, cursor + off)
  <2>1. TaskOk(tasks[off], pub, cursor + off)
    BY DEF Answers
  <2>2. Piece(tasks[off].bytes, pubs, cursor + off)
    BY <2>1, PieceStays DEF TaskOk
  <2> QED BY <2>1, <2>2 DEF TaskOk
<1>2. ASSUME NEW off \in DOMAIN results PROVE ResultOk(results[off], pubs, cursor + off)
  <2>1. ResultOk(results[off], pub, cursor + off)
    BY DEF Answers
  <2> QED BY <2>1, PieceStays DEF ResultOk
<1> QED BY <1>1, <1>2 DEF Answers

LEMMA OneBranchStays ==
  ASSUME NEW ns, NEW more, Extends(ns, more), Len(ns) \in Nat, Len(more) \in Nat,
         NEW cursor, NEW count, NEW next, NEW tasks, NEW results,
         Asked(cursor, count, next, tasks, results),
         OneBranch(cursor, count, tasks, results, ns)
  PROVE  OneBranch(cursor, count, tasks, results, more)
<1>1. /\ count \in Nat /\ cursor \in Nat
      /\ \A off \in DOMAIN tasks \cup DOMAIN results : cursor + off \in Nat
  BY DEF Asked
<1>2. count <= Len(more)
  BY <1>1 DEF OneBranch, Extends
<1>3. ASSUME NEW off \in DOMAIN tasks PROVE OfHead(tasks[off].bytes, more, cursor + off)
  <2>1. OfHead(tasks[off].bytes, ns, cursor + off) /\ cursor + off \in Nat
    BY <1>1 DEF OneBranch
  <2> QED BY <2>1, HeadStays
<1>4. ASSUME NEW off \in DOMAIN results
      PROVE  Len(results[off]) = 4 /\ OfHead(results[off], more, cursor + off)
  <2>1. Len(results[off]) = 4 /\ OfHead(results[off], ns, cursor + off) /\ cursor + off \in Nat
    BY <1>1 DEF OneBranch
  <2> QED BY <2>1, HeadStays
<1> QED BY <1>2, <1>3, <1>4 DEF OneBranch

LEMMA SyncStays ==
  ASSUME NEW ns, NEW more, Extends(ns, more), Len(ns) \in Nat, Len(more) \in Nat,
         NEW pub, NEW pubs, pub \subseteq pubs, NEW s, NEW w, NEW re, SyncInv(s, w, ns, pub, re)
  PROVE  SyncInv(s, w, more, pubs, re)
<1>1. CASE s = Idle
  BY <1>1 DEF SyncInv
<1>2. CASE s # Idle
  <2>1. PICK cursor, count, next, tasks, results :
          /\ s = Running(cursor, count, next, tasks, results)
          /\ cursor = w.scanned
          /\ SyncOk(cursor, count, next, tasks, results, ns, pub, re)
          /\ DOMAIN tasks = {} => next = count - cursor
    BY <1>2 DEF SyncInv
  <2>2. SyncOk(cursor, count, next, tasks, results, more, pubs, re)
    BY <2>1, AnswersStay, OneBranchStays DEF SyncOk
  <2> QED BY <1>2, <2>1, <2>2 DEF SyncInv
<1> QED BY <1>1, <1>2

\* An accepted message appends its notes.
LEMMA AcceptKeeps ==
  ASSUME NEW m \in Message, Accept(m), DeliveryInv, UNCHANGED <<reorged, watch, sync>>
  PROVE  DeliveryInv'
<1> DEFINE added == published_notes(m)
           stored == [i \in DOMAIN added |->
                        write_note_payload(encode_published_note(added[i][1], added[i][2]))]
           new == {<<Len(notes) + i - 1, added[i][1], added[i][2]>> : i \in DOMAIN added}
<1>1. notes' = notes \o stored /\ published' = published \cup new
  BY DEF Accept
<1>2. PICK n \in Nat : DOMAIN added = 1..n
  <2>1. \A a, b, c : DOMAIN <<a>> = 1..1 /\ DOMAIN <<a, b>> = 1..2 /\ DOMAIN <<a, b, c>> = 1..3
    OBVIOUS
  <2>3. DOMAIN <<>> = 1..0
    OBVIOUS
  <2> DEFINE fs == m.fields
  <2>4. CASE m.kind = "Shield"
    <3>1. added = <<<<fs[6], fs[7]>>, <<fs[8], fs[9]>>>>
      BY <2>4 DEF published_notes
    <3> HIDE DEF added
    <3> QED BY <2>1, <3>1
  <2>5. CASE m.kind = "Transfer"
    <3>1. added = <<<<fs[4], fs[8]>>, <<fs[5], fs[9]>>, <<fs[6], fs[10]>>>>
      BY <2>5 DEF published_notes
    <3> HIDE DEF added
    <3> QED BY <2>1, <3>1
  <2>6. CASE m.kind = "Unshield"
    <3>1. added = (IF fs[8] = <<>> THEN <<>> ELSE <<<<fs[6], fs[8][1]>>>>) \o <<<<fs[9], fs[10]>>>>
      BY <2>6 DEF published_notes
    <3>2. PICK a, b, x : a = <<fs[6], fs[8][1]>> /\ b = <<fs[9], fs[10]>>
                         /\ x = IF fs[8] = <<>> THEN <<>> ELSE <<a>>
      OBVIOUS
    <3>3. added = x \o <<b>>
      BY <3>1, <3>2
    <3> HIDE DEF added, fs
    <3>4. <<>> \in Seq({a, b}) /\ <<a>> \in Seq({a, b}) /\ <<b>> \in Seq({a, b})
      OBVIOUS
    <3>5. x \in Seq({a, b})
      BY <3>2, <3>4
    <3>6. added \in Seq({a, b})
      BY <3>3, <3>4, <3>5, ConcatProperties
    <3> QED BY <3>6, LenProperties
  <2>7. CASE m.kind \notin {"Shield", "Transfer", "Unshield"}
    <3>1. added = <<>>
      BY <2>7 DEF published_notes
    <3> HIDE DEF added
    <3> QED BY <2>3, <3>1
  <2> QED BY <2>4, <2>5, <2>6, <2>7
<1>3. \A i \in 1..n : added[i][1] \in Token /\ added[i][2] \in Token
  BY <1>2, OutputsAssumption DEF Range, Token
<1> HIDE DEF added
<1>4. stored \in Seq(Note) /\ Len(stored) = n
      /\ \A i \in 1..n : stored[i] = Stored(added[i][1], added[i][2])
  <2>1. \A i \in 1..n : stored[i] = Stored(added[i][1], added[i][2])
    BY <1>2 DEF Stored, Payload
  <2>2. ASSUME NEW i \in 1..n PROVE stored[i] \in Note
    <3>1. PICK c \in Token, e \in Token : stored[i] = Stored(c, e)
      BY <1>3, <2>1
    <3> QED BY <3>1 DEF Note
  <2>3. stored \in [1..n -> Note]
    BY <1>2, <2>2
  <2> HIDE DEF stored
  <2> QED BY <2>1, <2>3, FunctionIsSeq
<1> HIDE DEF stored
<1>5. notes \in Seq(Note) /\ Len(notes) \in Nat
  <2>1. notes \in Seq(Note)
    BY DEF DeliveryInv, NotesInv
  <2> QED BY <2>1, LenProperties
<1>6. /\ notes' \in Seq(Note) /\ Len(notes') = Len(notes) + n
      /\ \A k \in 1 .. Len(notes) + n :
           notes'[k] = IF k <= Len(notes) THEN notes[k] ELSE stored[k - Len(notes)]
  BY <1>1, <1>4, <1>5, ConcatProperties
<1>7. Extends(notes, notes') /\ Len(notes') \in Nat
  BY <1>5, <1>6 DEF Extends
<1>8. published \subseteq published'
  BY <1>1
<1>9. NotesInv(notes', published')
  <2>1. published' \subseteq Nat \X Token \X Token
    <3>1. published \subseteq Nat \X Token \X Token
      BY DEF DeliveryInv, NotesInv
    <3>2. \A i \in 1..n : <<Len(notes) + i - 1, added[i][1], added[i][2]>> \in Nat \X Token \X Token
      BY <1>3, <1>5
    <3> QED BY <1>1, <1>2, <3>1, <3>2
  <2>2. ASSUME NEW k \in 1..Len(notes') PROVE StoredAt(notes', published', k)
    <3>1. CASE k <= Len(notes)
      <4>1. k \in 1..Len(notes) /\ notes'[k] = notes[k]
        BY <1>5, <1>6, <3>1
      <4>2. StoredAt(notes, published, k)
        BY <4>1 DEF DeliveryInv, NotesInv
      <4> QED BY <1>8, <4>1, <4>2 DEF StoredAt
    <3>2. CASE ~(k <= Len(notes))
      <4>1. PICK i \in 1..n : i = k - Len(notes)
        BY <1>5, <1>6, <3>2
      <4>2. notes'[k] = Stored(added[i][1], added[i][2])
        BY <1>4, <1>6, <3>2, <4>1
      <4>3. <<k - 1, added[i][1], added[i][2]>> \in published'
        <5>1. Len(notes) + i - 1 = k - 1
          BY <1>5, <1>6, <4>1
        <5>2. <<Len(notes) + i - 1, added[i][1], added[i][2]>> \in new
          BY <1>2
        <5> QED BY <1>1, <5>1, <5>2
      <4> QED BY <1>3, <4>2, <4>3 DEF StoredAt
    <3> QED BY <3>1, <3>2
  <2> QED BY <1>6, <2>1, <2>2 DEF NotesInv
<1>10. WatchInv(watch, notes', published', reorged)
  BY <1>5, <1>7, <1>8, WatchStays DEF DeliveryInv
<1>11. SyncInv(sync, watch, notes', published', reorged)
  BY <1>5, <1>7, <1>8, SyncStays DEF DeliveryInv
<1> QED BY <1>9, <1>10, <1>11 DEF DeliveryInv

-----------------------------------------------------------------------------
(***************************************************************************)
(* The sync.                                                               *)
(***************************************************************************)
NewTask == [total |-> 0, bytes |-> <<>>]

\* How many offsets dispatch adds, and the tasks with them.
More(cursor, count, next, tasks) ==
  IF Concurrency - Cardinality(DOMAIN tasks) < count - cursor - next
  THEN Concurrency - Cardinality(DOMAIN tasks) ELSE count - cursor - next

WithNew(tasks, new) ==
  [off \in DOMAIN tasks \cup new |-> IF off \in new THEN NewTask ELSE tasks[off]]

RunningFields == {"on", "cursor", "count", "next", "in_flight", "results"}

IsRunning(s) == s = [x \in RunningFields |-> s[x]] /\ s.on = TRUE

LEMMA RunningIs ==
  ASSUME NEW s, IsRunning(s)
  PROVE  s = Running(s.cursor, s.count, s.next, s.in_flight, s.results)
BY DEF Running, RunningFields, IsRunning

LEMMA RunningHas ==
  ASSUME NEW cursor, NEW count, NEW next, NEW tasks, NEW results
  PROVE  /\ IsRunning(Running(cursor, count, next, tasks, results))
         /\ Running(cursor, count, next, tasks, results).cursor = cursor
         /\ Running(cursor, count, next, tasks, results).count = count
         /\ Running(cursor, count, next, tasks, results).next = next
         /\ Running(cursor, count, next, tasks, results).in_flight = tasks
         /\ Running(cursor, count, next, tasks, results).results = results
BY DEF Running, RunningFields, IsRunning

SetAsked(s, n, f) == [s EXCEPT !.next = n, !.in_flight = f]
SetTasks(s, f) == [s EXCEPT !.in_flight = f]
SetAnswer(s, f, r) == [s EXCEPT !.in_flight = f, !.results = r]

LEMMA RunningExcept ==
  ASSUME NEW cursor, NEW count, NEW next, NEW tasks, NEW results
  PROVE  LET s == Running(cursor, count, next, tasks, results)
         IN  /\ \A n, f : SetAsked(s, n, f) = Running(cursor, count, n, f, results)
             /\ \A f : SetTasks(s, f) = Running(cursor, count, next, f, results)
             /\ \A f, r : SetAnswer(s, f, r) = Running(cursor, count, next, f, r)
<1> DEFINE s == Running(cursor, count, next, tasks, results)
<1>1. /\ IsRunning(s) /\ s.cursor = cursor /\ s.count = count /\ s.next = next
      /\ s.in_flight = tasks /\ s.results = results
  BY RunningHas
<1> HIDE DEF s
<1>2. ASSUME NEW n, NEW f PROVE SetAsked(s, n, f) = Running(cursor, count, n, f, results)
  <2>1. PICK t : t = SetAsked(s, n, f)
    OBVIOUS
  <2>2. t = [x \in RunningFields |-> t[x]]
    BY <1>1, <2>1 DEF IsRunning, SetAsked
  <2>3. /\ t.on = TRUE /\ t.cursor = cursor /\ t.count = count /\ t.next = n
        /\ t.in_flight = f /\ t.results = results
    BY <1>1, <2>1 DEF IsRunning, RunningFields, SetAsked
  <2>4. t = Running(t.cursor, t.count, t.next, t.in_flight, t.results)
    BY <2>2, <2>3, RunningIs DEF IsRunning
  <2> QED BY <2>1, <2>3, <2>4
<1>3. ASSUME NEW f PROVE SetTasks(s, f) = Running(cursor, count, next, f, results)
  <2>1. PICK t : t = SetTasks(s, f)
    OBVIOUS
  <2>2. t = [x \in RunningFields |-> t[x]]
    BY <1>1, <2>1 DEF IsRunning, SetTasks
  <2>3. /\ t.on = TRUE /\ t.cursor = cursor /\ t.count = count /\ t.next = next
        /\ t.in_flight = f /\ t.results = results
    BY <1>1, <2>1 DEF IsRunning, RunningFields, SetTasks
  <2>4. t = Running(t.cursor, t.count, t.next, t.in_flight, t.results)
    BY <2>2, <2>3, RunningIs DEF IsRunning
  <2> QED BY <2>1, <2>3, <2>4
<1>4. ASSUME NEW f, NEW r PROVE SetAnswer(s, f, r) = Running(cursor, count, next, f, r)
  <2>1. PICK t : t = SetAnswer(s, f, r)
    OBVIOUS
  <2>2. t = [x \in RunningFields |-> t[x]]
    BY <1>1, <2>1 DEF IsRunning, SetAnswer
  <2>3. /\ t.on = TRUE /\ t.cursor = cursor /\ t.count = count /\ t.next = next
        /\ t.in_flight = f /\ t.results = r
    BY <1>1, <2>1 DEF IsRunning, RunningFields, SetAnswer
  <2>4. t = Running(t.cursor, t.count, t.next, t.in_flight, t.results)
    BY <2>2, <2>3, RunningIs DEF IsRunning
  <2> QED BY <2>1, <2>3, <2>4
<1> QED BY <1>2, <1>3, <1>4 DEF s

LEMMA DispatchIs ==
  ASSUME NEW cursor, NEW count, NEW next, NEW tasks, NEW results
  PROVE  LET n == More(cursor, count, next, tasks)
         IN  dispatch(Running(cursor, count, next, tasks, results)) =
               Running(cursor, count, next + n, WithNew(tasks, next .. next + n - 1), results)
<1> DEFINE s == Running(cursor, count, next, tasks, results)
           n == More(cursor, count, next, tasks)
<1>1. /\ s.cursor = cursor /\ s.count = count /\ s.next = next
      /\ s.in_flight = tasks /\ s.results = results
  BY RunningHas
<1>2. \A m, f : SetAsked(s, m, f) = Running(cursor, count, m, f, results)
  BY RunningExcept
<1> HIDE DEF s
<1>3. dispatch(s) = SetAsked(s, next + n, WithNew(tasks, next .. next + n - 1))
  BY <1>1 DEF dispatch, sync_concurrency, NewTask, WithNew, More, SetAsked
<1> QED BY <1>2, <1>3 DEF s

LEMMA NewTaskOk ==
  ASSUME NEW pub, NEW i
  PROVE  TaskOk(NewTask, pub, i)
<1>1. <<>> \in Seq(Token) /\ Len(<<>>) = 0
  OBVIOUS
<1>2. Piece(<<>>, pub, i)
  BY <1>1 DEF Piece
<1> QED BY <1>1, <1>2 DEF TaskOk, NewTask

LEMMA DispatchKeeps ==
  ASSUME NEW cursor, NEW count, NEW next, NEW tasks, NEW results, NEW ns, NEW pub, NEW re,
         Len(ns) \in Nat, SyncOk(cursor, count, next, tasks, results, ns, pub, re)
  PROVE  \E next2, tasks2 :
           /\ dispatch(Running(cursor, count, next, tasks, results))
                = Running(cursor, count, next2, tasks2, results)
           /\ SyncOk(cursor, count, next2, tasks2, results, ns, pub, re)
           /\ DOMAIN tasks2 = {} => next2 = count - cursor
<1> DEFINE room == Concurrency - Cardinality(DOMAIN tasks)
           left == count - cursor - next
           n == More(cursor, count, next, tasks)
           new == next .. next + n - 1
           next2 == next + n
           tasks2 == WithNew(tasks, new)
<1>1. dispatch(Running(cursor, count, next, tasks, results))
        = Running(cursor, count, next2, tasks2, results)
  BY DispatchIs
<1>2. /\ Asked(cursor, count, next, tasks, results) /\ Answers(cursor, tasks, results, pub)
      /\ ~re => OneBranch(cursor, count, tasks, results, ns)
  BY DEF SyncOk
<1>3. /\ cursor \in Nat /\ count \in Nat /\ next \in Nat
      /\ cursor < count /\ next <= count - cursor
      /\ DOMAIN tasks \subseteq 0 .. next - 1
      /\ DOMAIN results = (0 .. next - 1) \ DOMAIN tasks
      /\ Cardinality(DOMAIN tasks) <= Concurrency
  BY <1>2 DEF Asked
<1>4. IsFiniteSet(DOMAIN tasks) /\ Cardinality(DOMAIN tasks) \in Nat
  <2>1. IsFiniteSet(0 .. next - 1)
    BY <1>3, FS_Interval
  <2> QED BY <1>3, <2>1, FS_Subset, FS_CardinalityType
<1>5. Concurrency \in Nat /\ Concurrency >= 1
  <2>1. Concurrency \in 1..128
    BY DeliveryAssumption
  <2> QED BY <2>1
<1>6. n \in Nat /\ n <= left /\ n <= room /\ left \in Nat /\ (n = left \/ n = room)
  BY <1>3, <1>4, <1>5 DEF More
<1>7. IsFiniteSet(new) /\ Cardinality(new) = n
  <2>1. next \in Int /\ next + n - 1 \in Int
    BY <1>3, <1>6
  <2>2. next > next + n - 1 <=> n = 0
    BY <1>3, <1>6
  <2>3. (next + n - 1) - next + 1 = n
    BY <1>3, <1>6
  <2> HIDE DEF n
  <2> QED BY <2>1, <2>2, <2>3, FS_Interval
<1>8. DOMAIN tasks \cap new = {}
  BY <1>3, <1>6
<1>9. Cardinality(DOMAIN tasks \cup new) = Cardinality(DOMAIN tasks) + n
  <2>1. Cardinality({}) = 0
    BY FS_EmptySet
  <2> HIDE DEF n, new
  <2>2. Cardinality(DOMAIN tasks \cup new)
          = Cardinality(DOMAIN tasks) + Cardinality(new) - Cardinality(DOMAIN tasks \cap new)
    BY <1>4, <1>7, FS_Union
  <2>3. n \in Nat
    BY <1>6
  <2>4. PICK u \in Nat : u = Cardinality(DOMAIN tasks)
    BY <1>4
  <2>5. Cardinality(DOMAIN tasks \cup new) = u + n - 0
    BY <1>7, <1>8, <2>1, <2>2, <2>4
  <2> QED BY <2>3, <2>4, <2>5
<1>10. DOMAIN tasks2 = DOMAIN tasks \cup new
  BY DEF WithNew
<1>11. \A off \in DOMAIN tasks2 : \/ off \in new /\ tasks2[off] = NewTask
                                  \/ off \in DOMAIN tasks /\ tasks2[off] = tasks[off]
  BY DEF WithNew
<1> HIDE DEF tasks2
<1>12. Asked(cursor, count, next2, tasks2, results)
  <2>1. next2 \in Nat /\ next2 <= count - cursor
    BY <1>3, <1>6
  <2>2. DOMAIN tasks2 \subseteq 0 .. next2 - 1
    BY <1>3, <1>6, <1>10
  <2>3. DOMAIN results = (0 .. next2 - 1) \ DOMAIN tasks2
    <3>1. 0 .. next2 - 1 = (0 .. next - 1) \cup new /\ (0 .. next - 1) \cap new = {}
      BY <1>3, <1>6
    <3> HIDE DEF new
    <3> QED BY <1>3, <1>10, <3>1
  <2>4. Cardinality(DOMAIN tasks2) <= Concurrency
    <3> HIDE DEF n, new
    <3> QED BY <1>4, <1>5, <1>6, <1>9, <1>10 DEF room
  <2> HIDE DEF next2
  <2> QED BY <1>3, <2>1, <2>2, <2>3, <2>4 DEF Asked
<1>13. Answers(cursor, tasks2, results, pub)
  <2>1. ASSUME NEW off \in DOMAIN tasks2 PROVE TaskOk(tasks2[off], pub, cursor + off)
    BY <1>2, <1>11, NewTaskOk DEF Answers
  <2> QED BY <1>2, <2>1 DEF Answers
<1>14. ASSUME ~re PROVE OneBranch(cursor, count, tasks2, results, ns)
  <2>1. OneBranch(cursor, count, tasks, results, ns)
    BY <1>2, <1>14
  <2>2. ASSUME NEW off \in DOMAIN tasks2 PROVE OfHead(tasks2[off].bytes, ns, cursor + off)
    <3>1. CASE off \in DOMAIN tasks /\ tasks2[off] = tasks[off]
      BY <2>1, <3>1 DEF OneBranch
    <3>2. CASE off \in new /\ tasks2[off] = NewTask
      <4>1. tasks2[off].bytes = <<>> /\ Len(<<>>) = 0
        BY <3>2 DEF NewTask
      <4>2. cursor + off < count
        BY <1>3, <1>6, <3>2
      <4>3. cursor + off < Len(ns)
        BY <1>3, <1>6, <2>1, <3>2, <4>2 DEF OneBranch
      <4> QED BY <4>1, <4>3 DEF OfHead
    <3> QED BY <1>11, <3>1, <3>2
  <2> QED BY <2>1, <2>2 DEF OneBranch
<1>15. ASSUME DOMAIN tasks2 = {} PROVE next2 = count - cursor
  <2>1. DOMAIN tasks = {} /\ new = {}
    BY <1>10, <1>15
  <2>2. Cardinality(DOMAIN tasks) = 0
    BY <2>1, FS_EmptySet
  <2>3. n = 0
    <3> HIDE DEF new, n
    <3> QED BY <1>7, <2>1, FS_EmptySet
  <2> QED BY <1>3, <1>5, <1>6, <2>2, <2>3
<1>16. SyncOk(cursor, count, next2, tasks2, results, ns, pub, re)
  BY <1>12, <1>13, <1>14 DEF SyncOk
<1> HIDE DEF next2
<1> QED BY <1>1, <1>15, <1>16

\* An answer that is right for its index keeps the sync as it should be.
LEMMA FetchedKeeps ==
  ASSUME NEW cursor, NEW count, NEW next, NEW tasks, NEW results,
         sync = Running(cursor, count, next, tasks, results),
         SyncOk(cursor, count, next, tasks, results, notes, published, reorged),
         Len(notes) \in Nat, NEW off \in DOMAIN tasks, NEW payload,
         ResultOk(payload, published, cursor + off),
         ~reorged => Len(payload) = 4 /\ OfHead(payload, notes, cursor + off),
         fetched(off, payload)
  PROVE  \E next2, tasks2, results2 :
           /\ sync' = Running(cursor, count, next2, tasks2, results2)
           /\ SyncOk(cursor, count, next2, tasks2, results2, notes, published, reorged)
           /\ DOMAIN tasks2 = {} => next2 = count - cursor
<1> DEFINE tasks1 == Without(tasks, off)
           results1 == fill(results, off, payload)
<1>1. sync.in_flight = tasks /\ sync.results = results
  BY RunningHas
<1>2. SetAnswer(sync, tasks1, results1) = Running(cursor, count, next, tasks1, results1)
  BY RunningExcept
<1>3. sync' = dispatch(Running(cursor, count, next, tasks1, results1))
  BY <1>1, <1>2 DEF fetched, SetAnswer
<1>4. /\ Asked(cursor, count, next, tasks, results) /\ Answers(cursor, tasks, results, published)
      /\ ~reorged => OneBranch(cursor, count, tasks, results, notes)
  BY DEF SyncOk
<1>5. /\ cursor \in Nat /\ count \in Nat /\ next \in Nat
      /\ cursor < count /\ next <= count - cursor
      /\ DOMAIN tasks \subseteq 0 .. next - 1
      /\ DOMAIN results = (0 .. next - 1) \ DOMAIN tasks
      /\ Cardinality(DOMAIN tasks) <= Concurrency
  BY <1>4 DEF Asked
<1>6. DOMAIN tasks1 = DOMAIN tasks \ {off} /\ \A o \in DOMAIN tasks1 : tasks1[o] = tasks[o]
  BY DEF Without
<1>7. /\ DOMAIN results1 = DOMAIN results \cup {off} /\ results1[off] = payload
      /\ \A o \in DOMAIN results : o # off /\ results1[o] = results[o]
  BY <1>5 DEF fill
<1> HIDE DEF tasks1, results1
<1>8. Cardinality(DOMAIN tasks1) <= Concurrency
  <2>1. IsFiniteSet(0 .. next - 1)
    BY <1>5, FS_Interval
  <2>2. IsFiniteSet(DOMAIN tasks)
    BY <1>5, <2>1, FS_Subset
  <2>3. PICK u \in Nat : u = Cardinality(DOMAIN tasks)
    BY <2>2, FS_CardinalityType
  <2>4. Cardinality(DOMAIN tasks1) = u - 1
    BY <1>6, <2>2, <2>3, FS_RemoveElement
  <2>5. Concurrency \in 1..128
    BY DeliveryAssumption
  <2> QED BY <1>5, <2>3, <2>4, <2>5
<1>9. Asked(cursor, count, next, tasks1, results1)
  <2>1. DOMAIN tasks1 \subseteq 0 .. next - 1
    BY <1>5, <1>6
  <2>2. DOMAIN results1 = (0 .. next - 1) \ DOMAIN tasks1
    BY <1>5, <1>6, <1>7
  <2> QED BY <1>5, <1>8, <2>1, <2>2 DEF Asked
<1>10. Answers(cursor, tasks1, results1, published)
  <2>1. ASSUME NEW o \in DOMAIN tasks1 PROVE TaskOk(tasks1[o], published, cursor + o)
    BY <1>4, <1>6 DEF Answers
  <2>2. ASSUME NEW o \in DOMAIN results1 PROVE ResultOk(results1[o], published, cursor + o)
    BY <1>4, <1>7 DEF Answers
  <2> QED BY <2>1, <2>2 DEF Answers
<1>11. ASSUME ~reorged PROVE OneBranch(cursor, count, tasks1, results1, notes)
  BY <1>4, <1>6, <1>7, <1>11 DEF OneBranch
<1>12. SyncOk(cursor, count, next, tasks1, results1, notes, published, reorged)
  BY <1>9, <1>10, <1>11 DEF SyncOk
<1> QED BY <1>3, <1>12, DispatchKeeps

\* The sync that runs.
LEMMA SyncIs ==
  ASSUME DeliveryInv, sync # Idle
  PROVE  /\ watch # NoFile /\ watch \in WatchFile /\ Len(notes) \in Nat
         /\ \E cursor, count, next, tasks, results :
              /\ sync = Running(cursor, count, next, tasks, results)
              /\ cursor = watch.scanned
              /\ SyncOk(cursor, count, next, tasks, results, notes, published, reorged)
              /\ DOMAIN tasks = {} => next = count - cursor
<1>1. Len(notes) \in Nat
  <2>1. notes \in Seq(Note)
    BY DEF DeliveryInv, NotesInv
  <2> QED BY <2>1, LenProperties
<1>2. watch # NoFile
  BY DEF DeliveryInv, SyncInv
<1> QED BY <1>1, <1>2 DEF DeliveryInv, SyncInv, WatchInv

LEMMA RunningNotIdle ==
  ASSUME NEW cursor, NEW count, NEW next, NEW tasks, NEW results
  PROVE  Running(cursor, count, next, tasks, results) # Idle
<1>1. Running(cursor, count, next, tasks, results).on = TRUE /\ Idle.on = FALSE
  BY RunningHas DEF Idle, IsRunning
<1> QED BY <1>1

\* One task that reads on keeps the sync as it should be.
LEMMA TaskKeeps ==
  ASSUME NEW cursor, NEW count, NEW next, NEW tasks, NEW results,
         sync = Running(cursor, count, next, tasks, results),
         SyncOk(cursor, count, next, tasks, results, notes, published, reorged),
         DOMAIN tasks = {} => next = count - cursor,
         NEW off \in DOMAIN tasks, NEW t, TaskOk(t, published, cursor + off),
         ~reorged => OfHead(t.bytes, notes, cursor + off),
         sync' = SetTasks(sync, [tasks EXCEPT ![off] = t])
  PROVE  \E next2, tasks2, results2 :
           /\ sync' = Running(cursor, count, next2, tasks2, results2)
           /\ SyncOk(cursor, count, next2, tasks2, results2, notes, published, reorged)
           /\ DOMAIN tasks2 = {} => next2 = count - cursor
<1> DEFINE tasks1 == [tasks EXCEPT ![off] = t]
<1>1. sync' = Running(cursor, count, next, tasks1, results)
  BY RunningExcept
<1>2. DOMAIN tasks1 = DOMAIN tasks /\ tasks1[off] = t
      /\ \A o \in DOMAIN tasks \ {off} : tasks1[o] = tasks[o]
  OBVIOUS
<1> HIDE DEF tasks1
<1>3. SyncOk(cursor, count, next, tasks1, results, notes, published, reorged)
  <2>1. Asked(cursor, count, next, tasks1, results)
    BY <1>2 DEF SyncOk, Asked
  <2>2. ASSUME NEW o \in DOMAIN tasks1 PROVE TaskOk(tasks1[o], published, cursor + o)
    BY <1>2 DEF SyncOk, Answers
  <2>3. ASSUME ~reorged, NEW o \in DOMAIN tasks1 PROVE OfHead(tasks1[o].bytes, notes, cursor + o)
    BY <1>2, <2>3 DEF SyncOk, OneBranch
  <2> QED BY <2>1, <2>2, <2>3 DEF SyncOk, Answers, OneBranch
<1> QED BY <1>1, <1>2, <1>3

LEMMA SyncOnly ==
  ASSUME DeliveryInv, UNCHANGED <<notes, published, reorged, watch>>,
         SyncInv(sync', watch, notes, published, reorged)
  PROVE  DeliveryInv'
BY DEF DeliveryInv

\* A note at an index of the head.
LEMMA HeadNote ==
  ASSUME DeliveryInv, NEW i \in Nat, i + 1 <= Len(notes)
  PROVE  \E c \in Token, e \in Token :
           /\ notes[i + 1] = Stored(c, e) /\ <<i, c, e>> \in published
           /\ Cm(notes, i) = c /\ Enc(notes, i) = e /\ i < Len(notes)
<1>1. NotesInv(notes, published) /\ Len(notes) \in Nat
  <2>1. notes \in Seq(Note)
    BY DEF DeliveryInv, NotesInv
  <2> QED BY <2>1, LenProperties DEF DeliveryInv
<1>2. i < Len(notes)
  BY <1>1
<1> QED BY <1>1, <1>2, NoteAt

LEMMA WholeNote ==
  ASSUME NEW c \in Token, NEW e \in Token, NEW i \in Nat, <<i, c, e>> \in published
  PROVE  Piece(Payload(c, e), published, i) /\ Len(Payload(c, e)) = 4
<1> DEFINE b == Payload(c, e)
<1>1. b \in Seq({c, e}) /\ Len(b) = 4
  BY PayloadIs
<1>2. b \in Seq(Token)
  BY DEF Payload, encode_published_note
<1>3. <<i, c, e>>[1] = i /\ <<i, c, e>>[2] = c /\ <<i, c, e>>[3] = e
  OBVIOUS
<1> HIDE DEF b
<1>4. ASSUME NEW j \in 1..Len(b)
      PROVE  \E p \in published : p[1] = i /\ b[j] = Payload(p[2], p[3])[j]
  BY <1>3 DEF b
<1> QED BY <1>1, <1>2, <1>4 DEF Piece, b

LEMMA FetchNoteKeeps ==
  ASSUME DeliveryInv, sync # Idle, NEW off \in DOMAIN sync.in_flight, FetchNote(off)
  PROVE  DeliveryInv'
<1>1. PICK cursor, count, next, tasks, results :
        /\ sync = Running(cursor, count, next, tasks, results)
        /\ cursor = watch.scanned
        /\ SyncOk(cursor, count, next, tasks, results, notes, published, reorged)
        /\ DOMAIN tasks = {} => next = count - cursor
  BY SyncIs
<1>2. watch # NoFile /\ Len(notes) \in Nat
  BY SyncIs
<1>3. sync.cursor = cursor /\ sync.in_flight = tasks
  BY <1>1, RunningHas
<1>4. /\ cursor \in Nat /\ off \in Nat /\ cursor + off \in Nat
      /\ ~reorged => cursor + off + 1 <= Len(notes)
  <2>1. cursor \in Nat /\ next \in Nat /\ count \in Nat /\ DOMAIN tasks \subseteq 0 .. next - 1
    BY <1>1 DEF SyncOk, Asked
  <2>2. ~reorged => cursor + off < Len(notes)
    BY <1>1, <1>3 DEF SyncOk, OneBranch, OfHead
  <2> QED BY <1>2, <1>3, <2>1, <2>2
<1>5. PICK i \in Nat : i = cursor + off
  BY <1>4
<1>6. TaskOk(tasks[off], published, i) /\ (~reorged => OfHead(tasks[off].bytes, notes, i))
  BY <1>1, <1>3, <1>5 DEF SyncOk, Answers, OneBranch
<1>7. /\ tasks[off].total = 0
      /\ CASE i + 1 > Len(notes) -> fetched(off, <<>>)
           [] i + 1 <= Len(notes) /\ notes[i + 1].direct # <<>> -> fetched(off, notes[i + 1].direct)
           [] OTHER -> sync' = [sync EXCEPT !.in_flight[off].total = notes[i + 1].len]
      /\ UNCHANGED <<notes, published, reorged, watch>>
  BY <1>3, <1>5 DEF FetchNote
<1>8. \E next2, tasks2, results2 :
           /\ sync' = Running(cursor, count, next2, tasks2, results2)
           /\ SyncOk(cursor, count, next2, tasks2, results2, notes, published, reorged)
           /\ DOMAIN tasks2 = {} => next2 = count - cursor
  <2>1. CASE i + 1 > Len(notes)
    <3>1. fetched(off, <<>>)
      BY <1>2, <1>7, <2>1
    <3>2. reorged
      BY <1>2, <1>4, <1>5, <2>1
    <3>3. ResultOk(<<>>, published, cursor + off)
      BY DEF ResultOk
    <3>4. ~reorged => Len(<<>>) = 4 /\ OfHead(<<>>, notes, cursor + off)
      BY <3>2
    <3>5. off \in DOMAIN tasks
      BY <1>3
    <3> QED BY <1>1, <1>2, <3>1, <3>3, <3>4, <3>5, FetchedKeeps
  <2>2. CASE i + 1 <= Len(notes)
    <3>1. PICK c \in Token, e \in Token :
            /\ notes[i + 1] = Stored(c, e) /\ <<i, c, e>> \in published
            /\ Cm(notes, i) = c /\ Enc(notes, i) = e /\ i < Len(notes)
      BY <2>2, HeadNote
    <3>2. /\ NoteChunk \in 1..3 => notes[i + 1].direct = <<>> /\ notes[i + 1].len = 4
          /\ NoteChunk \notin 1..3 =>
               notes[i + 1].direct = Payload(c, e) /\ notes[i + 1].direct # <<>>
      BY <3>1, StoredNote DEF Stored
    <3>3. CASE NoteChunk \notin 1..3
      <4>1. fetched(off, Payload(c, e))
        BY <1>2, <1>7, <2>2, <3>2, <3>3
      <4>2. ResultOk(Payload(c, e), published, cursor + off) /\ Len(Payload(c, e)) = 4
        BY <1>5, <3>1, WholeNote DEF ResultOk
      <4>3. OfHead(Payload(c, e), notes, cursor + off)
        BY <1>5, <3>1 DEF OfHead
      <4> QED BY <1>1, <1>2, <1>3, <4>1, <4>2, <4>3, FetchedKeeps
    <3>4. CASE NoteChunk \in 1..3
      <4>1. sync' = [sync EXCEPT !.in_flight[off].total = 4]
        BY <1>2, <1>7, <2>2, <3>2, <3>4
      <4>2. PICK t : t = [tasks[off] EXCEPT !.total = 4]
        OBVIOUS
      <4>3. sync' = SetTasks(sync, [tasks EXCEPT ![off] = t])
        BY <1>3, <4>1, <4>2 DEF SetTasks
      <4>4. tasks[off] \in [total : {0, 4}, bytes : Seq(Token)] /\ tasks[off].bytes = <<>>
        BY <1>6, <1>7 DEF TaskOk
      <4>5. t \in [total : {0, 4}, bytes : Seq(Token)] /\ t.total = 4 /\ t.bytes = <<>>
        BY <4>2, <4>4
      <4>6. Len(<<>>) = 0 /\ 0 % NoteChunk = 0
        BY <3>4
      <4>7. TaskOk(t, published, cursor + off)
        BY <1>5, <1>6, <3>4, <4>4, <4>5, <4>6 DEF TaskOk
      <4>8. ~reorged => OfHead(t.bytes, notes, cursor + off)
        BY <1>5, <1>6, <4>4, <4>5
      <4>9. off \in DOMAIN tasks
        BY <1>3
      <4> QED BY <1>1, <4>3, <4>7, <4>8, <4>9, TaskKeeps
    <3> QED BY <3>3, <3>4
  <2> QED BY <1>2, <2>1, <2>2
<1>9. SyncInv(sync', watch, notes, published, reorged)
  BY <1>1, <1>2, <1>8 DEF SyncInv
<1> QED BY <1>7, <1>9, SyncOnly

\* The next chunk of a note, after what was read of it, on whatever branch.
ReadNext(b, c, e) == b \o ChunkAt(Stored(c, e), Len(b))

LEMMA ReadOn ==
  ASSUME NEW b, NEW i \in Nat, NoteChunk \in 1..3, Piece(b, published, i),
         Len(b) \in 0..3, Len(b) % NoteChunk = 0,
         NEW c \in Token, NEW e \in Token, <<i, c, e>> \in published
  PROVE  /\ Len(ReadNext(b, c, e)) = End(Len(b)) /\ Piece(ReadNext(b, c, e), published, i)
         /\ (\A j \in 1..Len(b) : b[j] = Payload(c, e)[j])
              => \A j \in 1..Len(ReadNext(b, c, e)) : ReadNext(b, c, e)[j] = Payload(c, e)[j]
<1>m. PICK more : more = ReadNext(b, c, e)
  OBVIOUS
<1>1. PICK l \in 0..3 : l = Len(b)
  OBVIOUS
<1>2. PICK chunk : chunk = ChunkAt(Stored(c, e), l)
  OBVIOUS
<1>3. Holds(chunk, {c, e}, Payload(c, e), l)
  BY <1>1, <1>2, StoredChunk DEF Stored
<1>4. chunk \in Seq({c, e}) /\ Len(chunk) = End(l) - l
      /\ \A j \in 1..(End(l) - l) : chunk[j] = Payload(c, e)[l + j]
  BY <1>3 DEF Holds
<1>5. End(l) \in (l + 1)..4
  BY <1>1, ChunkNumbers
<1>6. PICK m \in 1..4 : m = End(l) /\ l < m
  BY <1>5
<1>7. chunk \in Seq(Token) /\ b \in Seq(Token)
  <2>1. {c, e} \subseteq Token
    OBVIOUS
  <2>2. chunk \in Seq(Token)
    <3>1. Len(chunk) \in Nat /\ DOMAIN chunk = 1..Len(chunk) /\ chunk \in [1..Len(chunk) -> {c, e}]
      BY <1>4, LenProperties
    <3>2. chunk \in [1..Len(chunk) -> Token]
      BY <2>1, <3>1
    <3> QED BY <3>1, <3>2, FunctionIsSeq
  <2> QED BY <2>2 DEF Piece
<1>8. /\ more \in Seq(Token) /\ Len(more) = l + Len(chunk)
      /\ \A j \in 1 .. l + Len(chunk) : more[j] = IF j <= l THEN b[j] ELSE chunk[j - l]
  BY <1>m, <1>1, <1>2, <1>7, ConcatProperties DEF ReadNext
<1>9. Len(more) = m /\ Len(chunk) = m - l
  BY <1>1, <1>4, <1>6, <1>8
<1>10. ASSUME NEW j \in 1..m
       PROVE  \/ j \in 1..l /\ more[j] = b[j]
              \/ j \notin 1..l /\ more[j] = Payload(c, e)[j]
  <2>1. CASE j <= l
    <3>1. j \in 1 .. l + Len(chunk) /\ j \in 1..l
      BY <1>6, <1>9, <2>1
    <3> QED BY <1>8, <2>1, <3>1
  <2>2. CASE ~(j <= l)
    <3>1. j \in 1 .. l + Len(chunk) /\ j - l \in 1..(End(l) - l) /\ l + (j - l) = j /\ j \notin 1..l
      BY <1>6, <1>9, <2>2
    <3>2. more[j] = chunk[j - l]
      BY <1>8, <2>2, <3>1
    <3>3. chunk[j - l] = Payload(c, e)[l + (j - l)]
      BY <1>4, <3>1
    <3> QED BY <3>1, <3>2, <3>3
  <2> QED BY <2>1, <2>2
<1>11. <<i, c, e>>[1] = i /\ <<i, c, e>>[2] = c /\ <<i, c, e>>[3] = e
  OBVIOUS
<1>12. ASSUME NEW j \in 1..Len(more)
       PROVE  \E p \in published : p[1] = i /\ more[j] = Payload(p[2], p[3])[j]
  <2>1. j \in 1..m
    BY <1>9
  <2>2. CASE j \in 1..l /\ more[j] = b[j]
    BY <1>1, <2>2 DEF Piece
  <2>3. CASE more[j] = Payload(c, e)[j]
    BY <1>11, <2>3
  <2> QED BY <1>10, <2>1, <2>2, <2>3
<1>13. Piece(more, published, i)
  BY <1>8, <1>9, <1>12 DEF Piece
<1>14. ASSUME \A j \in 1..Len(b) : b[j] = Payload(c, e)[j], NEW j \in 1..Len(more)
       PROVE  more[j] = Payload(c, e)[j]
  BY <1>1, <1>9, <1>10, <1>14
<1> QED BY <1>m, <1>1, <1>6, <1>9, <1>13, <1>14

LEMMA FetchChunkKeeps ==
  ASSUME DeliveryInv, sync # Idle, NEW off \in DOMAIN sync.in_flight, FetchChunk(off)
  PROVE  DeliveryInv'
<1>1. PICK cursor, count, next, tasks, results :
        /\ sync = Running(cursor, count, next, tasks, results)
        /\ cursor = watch.scanned
        /\ SyncOk(cursor, count, next, tasks, results, notes, published, reorged)
        /\ DOMAIN tasks = {} => next = count - cursor
  BY SyncIs
<1>2. watch # NoFile /\ Len(notes) \in Nat
  BY SyncIs
<1>3. sync.cursor = cursor /\ sync.in_flight = tasks /\ off \in DOMAIN tasks
  BY <1>1, RunningHas
<1>4. cursor + off \in Nat
  <2>1. cursor \in Nat /\ next \in Nat /\ DOMAIN tasks \subseteq 0 .. next - 1
    BY <1>1 DEF SyncOk, Asked
  <2> QED BY <1>3, <2>1
<1>5. PICK i \in Nat : i = cursor + off
  BY <1>4
<1>6. TaskOk(tasks[off], published, i) /\ (~reorged => OfHead(tasks[off].bytes, notes, i))
  BY <1>1, <1>3, <1>5 DEF SyncOk, Answers, OneBranch
<1>7. PICK b, l, read, more :
        /\ b = tasks[off].bytes /\ l = Len(b) /\ read = l \div NoteChunk
        /\ more = b \o notes[i + 1].chunks[read + 1]
  OBVIOUS
<1>8. /\ tasks[off].total > 0
      /\ CASE i + 1 > Len(notes) -> sync' = Idle
           [] i + 1 <= Len(notes) /\ read + 1 < div_ceil(tasks[off].total, NoteChunk) ->
                sync' = [sync EXCEPT !.in_flight[off].bytes = more]
           [] OTHER -> IF Len(more) = tasks[off].total THEN fetched(off, more) ELSE sync' = Idle
      /\ UNCHANGED <<notes, published, reorged, watch>>
  BY <1>3, <1>5, <1>7 DEF FetchChunk
<1>9. /\ tasks[off].total = 4 /\ NoteChunk \in 1..3 /\ l \in 0..3 /\ l % NoteChunk = 0
      /\ Piece(b, published, i) /\ tasks[off] \in [total : {0, 4}, bytes : Seq(Token)]
  <2>1. tasks[off] \in [total : {0, 4}, bytes : Seq(Token)] /\ Piece(b, published, i)
    BY <1>6, <1>7 DEF TaskOk
  <2>2. tasks[off].total = 4
    BY <1>8, <2>1
  <2> QED BY <1>6, <1>7, <2>1, <2>2 DEF TaskOk
<1>10. CASE i + 1 > Len(notes)
  <2>1. sync' = Idle
    BY <1>2, <1>8, <1>10
  <2>2. SyncInv(sync', watch, notes, published, reorged)
    BY <2>1 DEF SyncInv
  <2> QED BY <1>8, <2>2, SyncOnly
<1>11. CASE i + 1 <= Len(notes)
  <2>1. PICK c \in Token, e \in Token :
          /\ notes[i + 1] = Stored(c, e) /\ <<i, c, e>> \in published
          /\ Cm(notes, i) = c /\ Enc(notes, i) = e /\ i < Len(notes)
    <3> HIDE <1>1, <1>2, <1>3, <1>4, <1>6, <1>7, <1>8, <1>9
    <3> QED BY <1>11, HeadNote
  <2>2. more = ReadNext(b, c, e)
    BY <1>7, <2>1, SMTT(30) DEF ChunkAt, ReadNext
  <2>3. /\ Len(more) = End(l) /\ Piece(more, published, i)
        /\ (\A j \in 1..Len(b) : b[j] = Payload(c, e)[j])
              => \A j \in 1..Len(more) : more[j] = Payload(c, e)[j]
    <3>1. Len(b) \in 0..3 /\ Len(b) % NoteChunk = 0
      BY <1>7, <1>9
    <3>2. <<i, c, e>> \in published
      BY <2>1
    <3>3. NoteChunk \in 1..3 /\ Piece(b, published, i)
      BY <1>9
    <3>4. /\ Len(ReadNext(b, c, e)) = End(Len(b)) /\ Piece(ReadNext(b, c, e), published, i)
          /\ (\A j \in 1..Len(b) : b[j] = Payload(c, e)[j])
               => \A j \in 1..Len(ReadNext(b, c, e)) : ReadNext(b, c, e)[j] = Payload(c, e)[j]
      BY <3>1, <3>2, <3>3, ReadOn
    <3>5. /\ Len(more) = End(Len(b)) /\ Piece(more, published, i)
          /\ (\A j \in 1..Len(b) : b[j] = Payload(c, e)[j])
                => \A j \in 1..Len(more) : more[j] = Payload(c, e)[j]
      BY <2>2, <3>4
    <3> QED BY <1>7, <3>5
  <2>4. ~reorged => OfHead(more, notes, i)
    BY <1>6, <1>7, <2>1, <2>3 DEF OfHead
  <2>5. /\ (read + 1 < div_ceil(4, NoteChunk)) <=> (End(l) < 4)
        /\ End(l) \in (l + 1)..4 /\ (End(l) < 4 => End(l) % NoteChunk = 0)
    BY <1>7, <1>9, ChunkNumbers
  <2>6. \E next2, tasks2, results2 :
           /\ sync' = Running(cursor, count, next2, tasks2, results2)
           /\ SyncOk(cursor, count, next2, tasks2, results2, notes, published, reorged)
           /\ DOMAIN tasks2 = {} => next2 = count - cursor
    <3>1. CASE End(l) < 4
      <4>1. sync' = [sync EXCEPT !.in_flight[off].bytes = more]
        BY <1>2, <1>8, <1>9, <1>11, <2>5, <3>1
      <4>2. PICK t : t = [tasks[off] EXCEPT !.bytes = more]
        OBVIOUS
      <4>3. sync' = SetTasks(sync, [tasks EXCEPT ![off] = t])
        BY <1>3, <4>1, <4>2 DEF SetTasks
      <4>4. more \in Seq(Token)
        BY <2>3 DEF Piece
      <4>5. t \in [total : {0, 4}, bytes : Seq(Token)] /\ t.total = 4 /\ t.bytes = more
        BY <1>9, <4>2, <4>4
      <4>6. Len(more) \in 0..3 /\ Len(more) % NoteChunk = 0
        BY <1>9, <2>3, <2>5, <3>1
      <4>7. TaskOk(t, published, cursor + off)
        BY <1>5, <1>9, <2>3, <4>5, <4>6 DEF TaskOk
      <4>8. ~reorged => OfHead(t.bytes, notes, cursor + off)
        BY <1>5, <2>4, <4>5
      <4>9. off \in DOMAIN tasks
        BY <1>3
      <4> QED BY <1>1, <4>3, <4>7, <4>8, <4>9, TaskKeeps
    <3>2. CASE ~(End(l) < 4)
      <4>1. Len(more) = 4
        BY <1>9, <2>3, <2>5, <3>2
      <4>2. fetched(off, more)
        BY <1>2, <1>8, <1>9, <1>11, <2>5, <3>2, <4>1
      <4>3. ResultOk(more, published, cursor + off)
        BY <1>5, <2>3, <4>1 DEF ResultOk
      <4>4. ~reorged => Len(more) = 4 /\ OfHead(more, notes, cursor + off)
        BY <1>5, <2>4, <4>1
      <4> QED BY <1>1, <1>2, <1>3, <4>2, <4>3, <4>4, FetchedKeeps
    <3> QED BY <3>1, <3>2
  <2>7. SyncInv(sync', watch, notes, published, reorged)
    BY <1>1, <1>2, <2>6 DEF SyncInv
  <2> QED BY <1>8, <2>7, SyncOnly
<1> QED BY <1>2, <1>10, <1>11

LEMMA SyncStartKeeps ==
  ASSUME DeliveryInv, SyncStart
  PROVE  DeliveryInv'
<1> DEFINE cursor == watch.scanned
           count == Len(notes)
<1>1. /\ watch # NoFile /\ cursor < count /\ UNCHANGED <<notes, published, reorged, watch>>
      /\ sync' = dispatch(Running(cursor, count, 0, <<>>, <<>>))
  BY DEF SyncStart, Running, tree_size
<1>2. Len(notes) \in Nat /\ watch.scanned \in Nat
  <2>1. notes \in Seq(Note) /\ watch \in WatchFile
    BY <1>1 DEF DeliveryInv, NotesInv, WatchInv
  <2> QED BY <2>1, LenProperties DEF WatchFile
<1>3. DOMAIN <<>> = {}
  OBVIOUS
<1>4. PICK none : none = <<>> /\ DOMAIN none = {}
  BY <1>3
<1>5. SyncOk(cursor, count, 0, none, none, notes, published, reorged)
  <2>1. 0 .. 0 - 1 = {} /\ 0 <= count - cursor
    BY <1>1, <1>2
  <2>2. Cardinality(DOMAIN none) <= Concurrency
    <3>1. Concurrency \in 1..128
      BY DeliveryAssumption
    <3>2. Cardinality(DOMAIN none) = 0
      BY <1>4, FS_EmptySet
    <3> QED BY <3>1, <3>2
  <2>3. Asked(cursor, count, 0, none, none)
    BY <1>1, <1>2, <1>4, <2>1, <2>2 DEF Asked
  <2>4. Answers(cursor, none, none, published)
    BY <1>4 DEF Answers
  <2>5. OneBranch(cursor, count, none, none, notes)
    BY <1>2, <1>4 DEF OneBranch
  <2> QED BY <2>3, <2>4, <2>5 DEF SyncOk
<1>6. PICK next2, tasks2 :
           /\ dispatch(Running(cursor, count, 0, none, none)) = Running(cursor, count, next2, tasks2, none)
           /\ SyncOk(cursor, count, next2, tasks2, none, notes, published, reorged)
           /\ DOMAIN tasks2 = {} => next2 = count - cursor
  <2> HIDE DEF cursor, count
  <2> QED BY <1>2, <1>5, DispatchKeeps
<1>7. SyncInv(sync', watch, notes, published, reorged)
  <2>1. sync' = Running(cursor, count, next2, tasks2, none)
    BY <1>1, <1>4, <1>6
  <2> QED BY <1>1, <1>6, <2>1 DEF SyncInv
<1> QED BY <1>1, <1>7, SyncOnly

\* A record of bytes that were all published at the index is one that
\* ViewedReal allows, also when they are of two notes.
LEMMA RecordReal ==
  ASSUME NEW b, NEW i, NEW pub, Piece(b, pub, i), Len(b) = 4, NEW x, NEW mode,
         RecordOf(x, mode, i, b)
  PROVE  RealRecord(x, mode, pub)
<1>1. x.index = i /\ x.cm = b[1]
  BY DEF RecordOf
<1>2. 1 \in 1..Len(b) /\ 3 \in 1..Len(b) /\ 4 \in 1..Len(b)
  OBVIOUS
<1>3. PICK p \in pub : p[1] = i /\ b[1] = Payload(p[2], p[3])[1]
  BY <1>2 DEF Piece
<1>4. PICK q \in pub : q[1] = i /\ b[3] = Payload(q[2], q[3])[3]
  BY <1>2 DEF Piece
<1>5. PICK r \in pub : r[1] = i /\ b[4] = Payload(r[2], r[3])[4]
  BY <1>2 DEF Piece
<1>6. b[1] = p[2] /\ b[3] = q[3] /\ b[4] = r[3]
  <2>1. 3 \in 2..4 /\ 4 \in 2..4
    OBVIOUS
  <2>2. Payload(p[2], p[3])[1] = p[2]
    BY PayloadFirst
  <2>3. Payload(q[2], q[3])[3] = q[3]
    BY <2>1, PayloadRest
  <2>4. Payload(r[2], r[3])[4] = r[3]
    BY <2>1, PayloadRest
  <2> QED BY <1>3, <1>4, <1>5, <2>2, <2>3, <2>4
<1>7. CASE mode = "view"
  <2>1. b[3] = b[1] /\ Plain[x.cm].to = WatchedKey /\ Plain[x.cm].j = x.addr_index
    BY <1>1, <1>7 DEF RecordOf
  <2> QED BY <1>1, <1>3, <1>4, <1>6, <2>1 DEF RealRecord
<1>8. CASE mode = "outgoing"
  <2>1. b[4] = b[1]
    BY <1>8 DEF RecordOf
  <2> QED BY <1>1, <1>3, <1>5, <1>6, <1>8, <2>1 DEF RealRecord
<1> QED BY <1>7, <1>8 DEF RealRecord

LEMMA HeadBytes ==
  ASSUME NEW b, NEW ns, NEW i, OfHead(b, ns, i), Len(b) = 4
  PROVE  BytesOf(b, ns, i)
<1>1. \A j \in 1..4 : b[j] = Payload(Cm(ns, i), Enc(ns, i))[j]
  BY DEF OfHead
<1>2. b[1] = Cm(ns, i)
  <2>1. 1 \in 1..4
    OBVIOUS
  <2>2. Payload(Cm(ns, i), Enc(ns, i))[1] = Cm(ns, i)
    BY PayloadFirst
  <2> QED BY <1>1, <2>1, <2>2
<1>3. ASSUME NEW j \in 2..4 PROVE b[j] = Enc(ns, i)
  <2>1. j \in 1..4
    OBVIOUS
  <2>2. Payload(Cm(ns, i), Enc(ns, i))[j] = Enc(ns, i)
    BY PayloadRest
  <2> QED BY <1>1, <2>1, <2>2
<1> QED BY <1>2, <1>3 DEF BytesOf

LEMMA SyncFinishKeeps ==
  ASSUME DeliveryInv, SyncFinish
  PROVE  DeliveryInv'
<1>1. sync # Idle
  BY DEF SyncFinish
<1>2. PICK cursor, count, next, tasks, results :
        /\ sync = Running(cursor, count, next, tasks, results)
        /\ cursor = watch.scanned
        /\ SyncOk(cursor, count, next, tasks, results, notes, published, reorged)
        /\ DOMAIN tasks = {} => next = count - cursor
  BY <1>1, SyncIs
<1>3. watch \in WatchFile /\ Len(notes) \in Nat
  BY <1>1, SyncIs
<1>4. /\ sync.cursor = cursor /\ sync.count = count
      /\ sync.in_flight = tasks /\ sync.results = results
  BY <1>2, RunningHas
<1>5. cursor \in Nat /\ count \in Nat /\ cursor < count /\ DOMAIN results = 0 .. (count - cursor) - 1
  <2>1. DOMAIN tasks = {}
    <3>1. tasks = <<>> /\ DOMAIN <<>> = {}
      BY <1>4 DEF SyncFinish
    <3> QED BY <3>1
  <2> QED BY <1>2, <2>1 DEF SyncOk, Asked
<1>6. PICK n \in Nat : n = count - cursor
  BY <1>5
<1> DEFINE feed == [k \in 1 .. Count |->
                      [index |-> sync.cursor + k - 1,
                       note |-> decode_published_note(sync.results[k - 1])]]
<1>7. /\ watch' = IF \E off \in DOMAIN results : results[off] = <<>>
                  THEN watch ELSE apply_watch_feed(feed, count)
      /\ sync' = Idle /\ UNCHANGED <<notes, published, reorged>>
  BY <1>4 DEF SyncFinish
<1>8. SyncInv(sync', watch', notes, published, reorged)
  BY <1>7 DEF SyncInv
<1>9. WatchInv(watch', notes, published, reorged)
  <2>1. CASE \E off \in DOMAIN results : results[off] = <<>>
    BY <1>7, <2>1 DEF DeliveryInv
  <2>2. CASE \A off \in DOMAIN results : results[off] # <<>>
    <3> DEFINE bs == [off \in 0 .. n - 1 |-> results[off]]
    <3>1. ASSUME NEW off \in 0 .. n - 1
          PROVE  /\ bs[off] \in Bytes /\ Piece(bs[off], published, cursor + off)
                 /\ ~reorged => OfHead(bs[off], notes, cursor + off)
      <4>1. off \in DOMAIN results /\ bs[off] = results[off] /\ results[off] # <<>>
        BY <1>5, <1>6, <2>2
      <4>2. ResultOk(results[off], published, cursor + off)
        BY <1>2, <4>1 DEF SyncOk, Answers
      <4>3. Piece(results[off], published, cursor + off) /\ Len(results[off]) = 4
        BY <4>1, <4>2 DEF ResultOk
      <4>4. ~reorged => OfHead(results[off], notes, cursor + off)
        BY <1>2, <4>1 DEF SyncOk, OneBranch
      <4> QED BY <4>1, <4>3, <4>4 DEF Bytes, Piece
    <3>2. bs \in [0 .. n - 1 -> Bytes]
      BY <3>1
    <3>3. feed = FeedOf(cursor, n, bs)
      <4>1. Count = n
        BY <1>4, <1>6 DEF Count
      <4>2. \A k \in 1..n : bs[k - 1] = results[k - 1]
        OBVIOUS
      <4> QED BY <1>4, <4>1, <4>2 DEF FeedOf
    <3> HIDE DEF feed, bs
    <3>4. PICK rs : rs = feed_records(feed)
      OBVIOUS
    <3>5. watch' = [watch EXCEPT !.records = rs, !.scanned = count]
      <4>1. watch' = apply_watch_feed(feed, count)
        BY <1>7, <2>2
      <4> QED BY <3>4, <4>1 DEF apply_watch_feed
    <3>6. WatchType
      BY <1>3 DEF WatchFile, WatchType
    <3>7. /\ rs \in Seq(Rec)
          /\ \A k \in 1..Len(rs) :
               \/ \E l \in 1..Len(watch.records) : rs[k] = watch.records[l]
               \/ \E off \in 0 .. n - 1 : RecordOf(rs[k], watch.mode, cursor + off, bs[off])
      BY <1>5, <3>2, <3>3, <3>4, <3>6, FeedReal
    <3>8. /\ watch' \in WatchFile /\ watch'.records = rs /\ watch'.scanned = count
          /\ watch'.mode = watch.mode /\ watch'.addresses = watch.addresses
      BY <1>3, <1>5, <3>5, <3>7 DEF WatchFile
    <3>9. /\ \A l \in 1..Len(watch.records) : RealRecord(watch.records[l], watch.mode, published)
          /\ ~reorged => ExactUpTo(watch.records, notes, watch.mode, watch.addresses, cursor)
      <4>1. watch # NoFile
        BY <1>1, SyncIs
      <4> QED BY <1>2, <4>1 DEF DeliveryInv, WatchInv
    <3>10. ASSUME NEW k \in 1..Len(rs) PROVE RealRecord(rs[k], watch.mode, published)
      <4>1. CASE \E l \in 1..Len(watch.records) : rs[k] = watch.records[l]
        BY <3>9, <4>1
      <4>2. ASSUME NEW off \in 0 .. n - 1, RecordOf(rs[k], watch.mode, cursor + off, bs[off])
            PROVE  RealRecord(rs[k], watch.mode, published)
        <5>1. Piece(bs[off], published, cursor + off) /\ Len(bs[off]) = 4
          BY <3>1 DEF Bytes
        <5> QED BY <4>2, <5>1, RecordReal
      <4> QED BY <3>7, <4>1, <4>2
    <3>11. ASSUME ~reorged
           PROVE  count <= Len(notes) /\ ExactUpTo(rs, notes, watch.mode, watch.addresses, count)
      <4>1. count <= Len(notes)
        BY <1>2, <3>11 DEF SyncOk, OneBranch
      <4>2. ASSUME NEW off \in 0 .. n - 1 PROVE BytesOf(bs[off], notes, cursor + off)
        <5>1. OfHead(bs[off], notes, cursor + off) /\ Len(bs[off]) = 4
          BY <3>1, <3>11 DEF Bytes
        <5> QED BY <5>1, HeadBytes
      <4>3. ExactUpTo(feed_records(FeedOf(cursor, n, bs)), notes, watch.mode, watch.addresses,
                      cursor + n)
        BY <1>5, <3>2, <3>6, <3>9, <3>11, <4>2, FeedExact
      <4>4. cursor + n = count
        BY <1>5, <1>6
      <4> QED BY <3>3, <3>4, <4>1, <4>3, <4>4
    <3> QED BY <3>8, <3>10, <3>11 DEF WatchInv
  <2> QED BY <2>1, <2>2
<1> QED BY <1>7, <1>8, <1>9 DEF DeliveryInv

-----------------------------------------------------------------------------
(***************************************************************************)
(* The theorems.                                                           *)
(***************************************************************************)
LEMMA ReorgKeeps ==
  ASSUME DeliveryInv, NEW n \in Nat, Reorg(n)
  PROVE  DeliveryInv'
<1>1. /\ n < Len(notes) /\ notes' = SubSeq(notes, 1, n) /\ reorged' = TRUE
      /\ UNCHANGED <<published, watch, sync>>
  BY DEF Reorg
<1>2. notes \in Seq(Note) /\ Len(notes) \in Nat
  <2>1. notes \in Seq(Note)
    BY DEF DeliveryInv, NotesInv
  <2> QED BY <2>1, LenProperties
<1>3. /\ notes' \in Seq(Note) /\ Len(notes') = n /\ \A k \in 1..n : notes'[k] = notes[k]
  <2>1. ASSUME NEW k \in 1..n PROVE notes[k] \in Note
    <3>1. k \in 1..Len(notes)
      BY <1>1, <1>2
    <3> QED BY <1>2, <3>1, ElementOfSeq
  <2>2. /\ SubSeq(notes, 1, n) \in Seq(Note)
        /\ Len(SubSeq(notes, 1, n)) = IF 1 <= n THEN n - 1 + 1 ELSE 0
        /\ \A k \in 1 .. n - 1 + 1 : SubSeq(notes, 1, n)[k] = notes[1 + k - 1]
    BY <2>1, SubSeqProperties
  <2>3. n - 1 + 1 = n /\ (IF 1 <= n THEN n - 1 + 1 ELSE 0) = n /\ \A k \in 1..n : 1 + k - 1 = k
    OBVIOUS
  <2> QED BY <1>1, <2>2, <2>3
<1>4. NotesInv(notes', published)
  <2>1. ASSUME NEW k \in 1..Len(notes') PROVE StoredAt(notes', published, k)
    <3>1. k \in 1..Len(notes) /\ notes'[k] = notes[k]
      BY <1>1, <1>2, <1>3
    <3>2. StoredAt(notes, published, k)
      BY <3>1 DEF DeliveryInv, NotesInv
    <3> QED BY <3>1, <3>2 DEF StoredAt
  <2> QED BY <1>3, <2>1 DEF DeliveryInv, NotesInv
<1>5. WatchInv(watch, notes', published, TRUE)
  BY DEF DeliveryInv, WatchInv
<1>6. SyncInv(sync, watch, notes', published, TRUE)
  <2>1. CASE sync = Idle
    BY <2>1 DEF SyncInv
  <2>2. CASE sync # Idle
    <3>1. PICK cursor, count, next, tasks, results :
            /\ sync = Running(cursor, count, next, tasks, results)
            /\ cursor = watch.scanned
            /\ SyncOk(cursor, count, next, tasks, results, notes, published, reorged)
            /\ DOMAIN tasks = {} => next = count - cursor
      BY <2>2, SyncIs
    <3>2. SyncOk(cursor, count, next, tasks, results, notes', published, TRUE)
      BY <3>1 DEF SyncOk
    <3> QED BY <2>2, <3>1, <3>2, SyncIs DEF SyncInv
  <2> QED BY <2>1, <2>2
<1> QED BY <1>1, <1>4, <1>5, <1>6 DEF DeliveryInv

LEMMA WatchInitKeeps ==
  ASSUME DeliveryInv, NEW mode \in Modes, NEW k \in 1 .. Addresses, WatchInit(mode, k)
  PROVE  DeliveryInv'
<1>1. /\ sync' = Idle /\ watch' = from_material(mode, k)
      /\ UNCHANGED <<notes, published, reorged>>
  BY DEF WatchInit
<1>2. PICK none : none = <<>> /\ none \in Seq(Rec) /\ Len(none) = 0
  BY EmptySeq
<1>3. watch' = [mode |-> mode, addresses |-> k, scanned |-> 0, records |-> none]
  BY <1>1, <1>2 DEF from_material
<1>4. /\ watch' \in WatchFile /\ watch'.records = none /\ watch'.scanned = 0
      /\ watch'.mode = mode /\ watch'.addresses = k
  <2>1. k \in 0..Addresses
    BY DeliveryAssumption
  <2> QED BY <1>2, <1>3, <2>1 DEF WatchFile
<1>5. Len(notes) \in Nat
  <2>1. notes \in Seq(Note)
    BY DEF DeliveryInv, NotesInv
  <2> QED BY <2>1, LenProperties
<1>6. ExactUpTo(none, notes, mode, k, 0)
  BY <1>2 DEF ExactUpTo, KnownBelow
<1>7. WatchInv(watch', notes, published, reorged)
  BY <1>2, <1>4, <1>5, <1>6 DEF WatchInv
<1>8. SyncInv(sync', watch', notes, published, reorged)
  BY <1>1 DEF SyncInv
<1> QED BY <1>1, <1>7, <1>8 DEF DeliveryInv

LEMMA DeliveryInit ==
  ASSUME Init
  PROVE  DeliveryInv
<1>1. /\ notes = <<>> /\ published = {} /\ watch = NoFile /\ sync = Idle
  BY DEF Init
<1>2. <<>> \in Seq(Note) /\ Len(<<>>) = 0
  BY EmptySeq
<1>3. NotesInv(notes, published)
  BY <1>1, <1>2 DEF NotesInv
<1> QED BY <1>1, <1>3 DEF DeliveryInv, WatchInv, SyncInv

LEMMA DeliverySame ==
  ASSUME DeliveryInv, UNCHANGED <<notes, published, reorged, watch, sync>>
  PROVE  DeliveryInv'
BY DEF DeliveryInv

LEMMA DeliveryStep ==
  ASSUME DeliveryInv, [Next]_vars
  PROVE  DeliveryInv'
<1>1. CASE UNCHANGED vars
  BY <1>1, DeliverySame DEF vars
<1>2. ASSUME NEW m, NEW size, Publish(m, size) PROVE DeliveryInv'
  BY <1>2, DeliverySame DEF Publish
<1>3. ASSUME NEW bytes, Edit(bytes) PROVE DeliveryInv'
  BY <1>3, DeliverySame DEF Edit
<1>4. ASSUME NEW pointer, NEW attested, Misdirect(pointer, attested) PROVE DeliveryInv'
  BY <1>4, DeliverySame DEF Misdirect
<1>5. CASE Deliver
  <2>1. CASE UNCHANGED <<notes, published>>
    BY <1>5, <2>1, DeliverySame DEF Deliver
  <2>2. ASSUME NEW got, got.value \in Message, Accept(got.value) PROVE DeliveryInv'
    BY <1>5, <2>2, AcceptKeeps DEF Deliver
  <2> QED BY <1>5, <2>1, <2>2 DEF Deliver
<1>6. ASSUME NEW m \in Message, PublishAndDeliver(m) PROVE DeliveryInv'
  BY <1>6, AcceptKeeps DEF PublishAndDeliver
<1>7. ASSUME NEW n \in 0 .. MaxNotes - 1, Reorg(n) PROVE DeliveryInv'
  <2>1. n \in Nat
    BY DeliveryAssumption
  <2> QED BY <1>7, <2>1, ReorgKeeps
<1>8. ASSUME NEW mode \in {"detect", "view", "outgoing"}, NEW k \in 1 .. Addresses,
             WatchInit(mode, k)
      PROVE  DeliveryInv'
  BY <1>8, WatchInitKeeps DEF Modes
<1>9. CASE SyncStart
  BY <1>9, SyncStartKeeps
<1>10. CASE SyncFinish
  BY <1>10, SyncFinishKeeps
<1>11. ASSUME sync # Idle, NEW off \in DOMAIN sync.in_flight, Fetch(off) PROVE DeliveryInv'
  BY <1>11, FetchNoteKeeps, FetchChunkKeeps DEF Fetch
<1>12. CASE SyncNothing
  BY <1>12, DeliverySame DEF SyncNothing, vars
<1>13. CASE SyncAbort
  <2>1. SyncInv(sync', watch, notes, published, reorged)
    BY <1>13 DEF SyncAbort, SyncInv
  <2> QED BY <1>13, <2>1, SyncOnly DEF SyncAbort
<1>14. CASE SyncStep
  BY <1>9, <1>10, <1>11, <1>14 DEF SyncStep, detect_service_sync_once
<1>15. CASE cmd_watch_sync
  BY <1>9, <1>12, <1>15 DEF cmd_watch_sync
<1> QED BY <1>1, <1>2, <1>3, <1>4, <1>5, <1>6, <1>7, <1>8, <1>13, <1>14, <1>15 DEF Next

LEMMA DeliveryIsInvariant == Spec => []DeliveryInv
<1>1. Init => DeliveryInv
  BY DeliveryInit
<1>2. DeliveryInv /\ [Next]_vars => DeliveryInv'
  BY DeliveryStep
<1> QED BY <1>1, <1>2, PTL DEF Spec

LEMMA KnownIs ==
  ASSUME watch \in WatchFile, NEW i
  PROVE  Known(i) <=> KnownNote(watch.mode, watch.addresses, Cm(notes, i), Enc(notes, i))
<1>1. cm_at(i) = Cm(notes, i) /\ enc_at(i) = Enc(notes, i)
  BY DEF cm_at, enc_at, Cm, Enc
<1>2. watch.mode \in Modes /\ watch.addresses \in 0..Addresses
  BY DEF WatchFile
<1>3. ASSUME NEW a \in 0 .. watch.addresses - 1 PROVE from_view_wallet[a].keys.d = DetectKey(a)
  <2>1. a \in 0 .. Addresses - 1
    BY <1>2, DeliveryAssumption
  <2> QED BY <2>1 DEF from_view_wallet, derive_kem_keys, DetectKey
<1>4. CASE watch.mode = "detect"
  BY <1>1, <1>3, <1>4 DEF Known, KnownNote
<1>5. CASE watch.mode = "view"
  BY <1>1, <1>5 DEF Known, KnownNote
<1>6. CASE watch.mode = "outgoing"
  BY <1>1, <1>6 DEF Known, KnownNote
<1> QED BY <1>2, <1>4, <1>5, <1>6 DEF Modes

\* As long as the head stays on one branch, a watch wallet has recorded exactly
\* the notes below its cursor that its keys know, each once and in order:
\* fetch_published_notes puts the answers in order, whatever order they come
\* in, a failed sync keeps nothing, and apply_watch_feed moves the cursor with
\* the records.
THEOREM WatchIsExact == Spec => []WatchExact
<1>1. ASSUME DeliveryInv PROVE WatchExact
  <2> SUFFICES ASSUME watch # NoFile, ~reorged
               PROVE  /\ {watch.records[k].index : k \in DOMAIN watch.records}
                           = {i \in 0 .. watch.scanned - 1 : Known(i)}
                      /\ \A k \in 1 .. Len(watch.records) - 1 :
                           watch.records[k].index < watch.records[k + 1].index
                      /\ \A k \in DOMAIN watch.records :
                           watch.records[k].cm = cm_at(watch.records[k].index)
    BY DEF WatchExact
  <2>1. /\ watch \in WatchFile
        /\ ExactUpTo(watch.records, notes, watch.mode, watch.addresses, watch.scanned)
    BY <1>1 DEF DeliveryInv, WatchInv
  <2>2. DOMAIN watch.records = 1..Len(watch.records)
    <3>1. watch.records \in Seq(Rec)
      BY <2>1 DEF WatchFile
    <3> QED BY <3>1, LenProperties
  <2>3. {i \in 0 .. watch.scanned - 1 : Known(i)}
          = KnownBelow(notes, watch.mode, watch.addresses, watch.scanned)
    BY <2>1, KnownIs DEF KnownBelow
  <2>4. \A i : cm_at(i) = Cm(notes, i)
    BY DEF cm_at, Cm
  <2> QED BY <2>1, <2>2, <2>3, <2>4 DEF ExactUpTo
<1> QED BY <1>1, DeliveryIsInvariant, PTL

\* view_record_for_note and outgoing_record_for_note compare what they open
\* with the commitment: whatever branches the chunks of a note were read from,
\* a record is of a commitment and an encryption of one note, both of which
\* some branch stored at that index, and a viewed one is for that address.
THEOREM ViewedIsReal == Spec => []ViewedReal
<1>1. ASSUME DeliveryInv PROVE ViewedReal
  <2>1. CASE watch = NoFile
    BY <2>1 DEF NoFile, ViewedReal
  <2>2. CASE watch # NoFile
    <3>1. /\ watch \in WatchFile
          /\ \A k \in 1..Len(watch.records) : RealRecord(watch.records[k], watch.mode, published)
      BY <1>1, <2>2 DEF DeliveryInv, WatchInv
    <3>2. DOMAIN watch.records = 1..Len(watch.records)
      <4>1. watch.records \in Seq(Rec)
        BY <3>1 DEF WatchFile
      <4> QED BY <4>1, LenProperties
    <3>3. \A r \in Range(watch.records) : RealRecord(r, watch.mode, published)
      BY <3>1, <3>2 DEF Range
    <3> QED BY <3>3 DEF ViewedReal, RealRecord
  <2> QED BY <2>1, <2>2
<1> QED BY <1>1, DeliveryIsInvariant, PTL

-----------------------------------------------------------------------------
(***************************************************************************)
(* The wire format: what a decoder accepts is what the encoder writes.     *)
(***************************************************************************)
LEMMA OneToken ==
  ASSUME NEW v \in Nat
  PROVE  <<v>> \in Strings /\ Len(<<v>>) = 1 /\ <<v>>[1] = v
BY DEF Strings

LEMMA Prefixed ==
  ASSUME NEW v \in Nat, NEW r \in Strings
  PROVE  /\ <<v>> \o r \in Strings /\ <<v>> \o r # <<>>
         /\ Len(<<v>> \o r) = Len(r) + 1
         /\ Head(<<v>> \o r) = v /\ Tail(<<v>> \o r) = r
<1>1. <<v>> \in Seq(Nat) /\ r \in Seq(Nat) /\ Len(<<v>>) = 1 /\ <<v>>[1] = v /\ Len(r) \in Nat
  BY OneToken, LenProperties DEF Strings
<1> DEFINE s == <<v>> \o r
<1>2. /\ s \in Seq(Nat) /\ Len(s) = 1 + Len(r)
      /\ \A i \in 1..(1 + Len(r)) : s[i] = IF i <= 1 THEN <<v>>[i] ELSE r[i - 1]
  BY <1>1, ConcatProperties
<1> HIDE DEF s
<1>3. s # <<>>
  BY <1>1, <1>2, EmptySeq
<1>4. Head(s) = s[1] /\ s[1] = v
  BY <1>1, <1>2, <1>3
<1>5. Tail(s) = r
  <2>1. Tail(s) \in Seq(Nat) /\ Len(Tail(s)) = Len(s) - 1
        /\ \A i \in 1..Len(Tail(s)) : Tail(s)[i] = s[i + 1]
    BY <1>2, <1>3, HeadTailProperties
  <2>2. Len(Tail(s)) = Len(r)
    BY <1>1, <1>2, <2>1
  <2>3. ASSUME NEW i \in 1..Len(r) PROVE Tail(s)[i] = r[i]
    <3>1. i + 1 \in 1..(1 + Len(r)) /\ ~(i + 1 <= 1) /\ (i + 1) - 1 = i
      BY <1>1
    <3>2. s[i + 1] = r[i]
      BY <1>2, <3>1
    <3> QED BY <2>1, <2>2, <3>2
  <2> QED BY <1>1, <2>1, <2>2, <2>3, SeqEqual
<1> QED BY <1>1, <1>2, <1>3, <1>4, <1>5 DEF s, Strings

LEMMA Split ==
  ASSUME NEW b \in Strings, b # <<>>
  PROVE  Head(b) \in Nat /\ Tail(b) \in Strings /\ b = <<Head(b)>> \o Tail(b)
<1>1. b \in Seq(Nat) /\ Head(b) \in Nat /\ Tail(b) \in Seq(Nat) /\ Len(Tail(b)) = Len(b) - 1
      /\ \A i \in 1..Len(Tail(b)) : Tail(b)[i] = b[i + 1]
  BY HeadTailProperties DEF Strings
<1>2. Len(b) \in Nat \ {0} /\ Head(b) = b[1]
  BY <1>1, EmptySeq
<1>3. PICK h, t, s : h = <<Head(b)>> /\ t = Tail(b) /\ s = h \o t
  OBVIOUS
<1>4. h \in Seq(Nat) /\ Len(h) = 1 /\ h[1] = b[1]
  BY <1>1, <1>2, <1>3, OneToken DEF Strings
<1>5. /\ s \in Seq(Nat) /\ Len(s) = Len(b)
      /\ \A i \in 1..Len(b) : s[i] = IF i <= 1 THEN h[i] ELSE t[i - 1]
  BY <1>1, <1>2, <1>3, <1>4, ConcatProperties
<1>6. ASSUME NEW i \in 1..Len(b) PROVE b[i] = s[i]
  <2>1. CASE i = 1
    BY <1>2, <1>4, <1>5, <2>1
  <2>2. CASE i # 1
    <3>1. i - 1 \in 1..Len(t) /\ ~(i <= 1) /\ (i - 1) + 1 = i
      BY <1>1, <1>2, <1>3, <2>2
    <3> QED BY <1>1, <1>3, <1>5, <3>1
  <2> QED BY <2>1, <2>2
<1>7. b = s
  BY <1>1, <1>5, <1>6, SeqEqual
<1> QED BY <1>1, <1>3, <1>7 DEF Strings

\* Fail and Took.
LEMMA Outcomes ==
  /\ ~Fail.ok
  /\ \A v, r : /\ Took(v, r).ok /\ Took(v, r).value = v /\ Took(v, r).rest = r
               /\ Took(v, r) # Fail
  /\ \A v, r, w, q : Took(v, r) = Took(w, q) => v = w /\ r = q
BY DEF Fail, Took

LEMMA Whole ==
  ASSUME NEW v, NEW r
  PROVE  /\ r = <<>> => decode_tze(Took(v, r)) = Took(v, <<>>)
         /\ r # <<>> => decode_tze(Took(v, r)) = Fail
         /\ decode_tze(Fail) = Fail
BY Outcomes DEF decode_tze

LEMMA FixedTaken ==
  ASSUME NEW v \in Nat, NEW r \in Strings
  PROVE  take_fixed(<<v>> \o r) = Took(v, r)
BY Prefixed DEF take_fixed

LEMMA FixedIs ==
  ASSUME NEW b \in Strings, take_fixed(b) # Fail
  PROVE  \E v \in Nat, r \in Strings : b = <<v>> \o r /\ take_fixed(b) = Took(v, r)
<1>1. b # <<>> /\ take_fixed(b) = Took(Head(b), Tail(b))
  BY DEF take_fixed
<1> QED BY <1>1, Split

LEMMA CutOff ==
  ASSUME NEW v \in Strings, NEW r \in Strings
  PROVE  take_bytes(v \o r, Len(v)) = Took(v, r)
<1>1. v \in Seq(Nat) /\ r \in Seq(Nat) /\ Len(v) \in Nat /\ Len(r) \in Nat
  BY LenProperties DEF Strings
<1>2. PICK s, n, m : s = v \o r /\ n = Len(v) /\ m = Len(r)
  OBVIOUS
<1>3. /\ s \in Seq(Nat) /\ Len(s) = n + m
      /\ \A i \in 1..(n + m) : s[i] = IF i <= n THEN v[i] ELSE r[i - n]
  BY <1>1, <1>2, ConcatProperties
<1>4. SubSeq(s, 1, n) = v
  <2>1. \A i \in 1..n : s[i] \in Nat /\ s[i] = v[i]
    BY <1>1, <1>2, <1>3, ElementOfSeq
  <2>2. SubSeq(s, 1, n) \in Seq(Nat) /\ Len(SubSeq(s, 1, n)) = n
        /\ \A i \in 1..n : SubSeq(s, 1, n)[i] = s[i]
    <3>1. 1 \in Int /\ n \in Int
      BY <1>1, <1>2
    <3>2. /\ SubSeq(s, 1, n) \in Seq(Nat)
          /\ Len(SubSeq(s, 1, n)) = IF 1 <= n THEN n - 1 + 1 ELSE 0
          /\ \A i \in 1..(n - 1 + 1) : SubSeq(s, 1, n)[i] = s[1 + i - 1]
      BY <2>1, <3>1, SubSeqProperties
    <3>3. n \in Nat
      BY <1>1, <1>2
    <3>4. ASSUME NEW i \in 1..n PROVE SubSeq(s, 1, n)[i] = s[i]
      <4>1. i \in 1..(n - 1 + 1) /\ 1 + i - 1 = i
        BY <3>3
      <4> QED BY <3>2, <4>1
    <3> QED BY <3>2, <3>3, <3>4
  <2> QED BY <1>1, <1>2, <2>1, <2>2, SeqEqual
<1>5. SubSeq(s, n + 1, Len(s)) = r
  <2>1. \A i \in (n + 1)..(n + m) : s[i] \in Nat /\ s[i] = r[i - n]
    <3> SUFFICES ASSUME NEW i \in (n + 1)..(n + m) PROVE s[i] \in Nat /\ s[i] = r[i - n]
      OBVIOUS
    <3>1. i \in 1..(n + m) /\ ~(i <= n) /\ i \in 1..Len(s)
      BY <1>1, <1>2, <1>3
    <3> QED BY <1>3, <3>1, ElementOfSeq
  <2>2. PICK q : q = SubSeq(s, n + 1, n + m)
    OBVIOUS
  <2>3. q \in Seq(Nat) /\ Len(q) = m /\ \A i \in 1..m : q[i] = r[i]
    <3>1. n + 1 \in Int /\ n + m \in Int /\ n \in Nat /\ m \in Nat
      BY <1>1, <1>2
    <3>2. /\ q \in Seq(Nat)
          /\ Len(q) = IF n + 1 <= n + m THEN (n + m) - (n + 1) + 1 ELSE 0
          /\ \A i \in 1..((n + m) - (n + 1) + 1) : q[i] = s[(n + 1) + i - 1]
      BY <2>1, <2>2, <3>1, SubSeqProperties
    <3>3. Len(q) = m
      BY <3>1, <3>2
    <3>4. ASSUME NEW i \in 1..m PROVE q[i] = r[i]
      <4>1. i \in 1..((n + m) - (n + 1) + 1) /\ (n + 1) + i - 1 = n + i
            /\ n + i \in (n + 1)..(n + m) /\ (n + i) - n = i
        BY <3>1
      <4>2. q[i] = s[n + i] /\ s[n + i] = r[(n + i) - n]
        BY <2>1, <3>2, <4>1
      <4> QED BY <4>1, <4>2
    <3> QED BY <3>2, <3>3, <3>4
  <2> QED BY <1>1, <1>2, <1>3, <2>2, <2>3, SeqEqual
<1>6. ~(Len(s) < n)
  <2>1. n \in Nat /\ m \in Nat
    BY <1>1, <1>2
  <2>2. Len(s) = n + m
    BY <1>3
  <2> QED BY <2>1, <2>2
<1> QED BY <1>2, <1>4, <1>5, <1>6 DEF take_bytes

LEMMA BytesIs ==
  ASSUME NEW b \in Strings, NEW n \in Nat, take_bytes(b, n) # Fail
  PROVE  \E v \in Strings, r \in Strings : Len(v) = n /\ b = v \o r
<1>1. b \in Seq(Nat) /\ Len(b) \in Nat /\ n <= Len(b)
  BY LenProperties DEF Strings, take_bytes
<1>2. PICK v, r : v = SubSeq(b, 1, n) /\ r = SubSeq(b, n + 1, Len(b))
  OBVIOUS
<1>3. v \o r = SubSeq(b, 1, Len(b)) /\ SubSeq(b, 1, Len(b)) = b
  <2>1. 1 \in 1..(Len(b) + 1) /\ n \in 0..Len(b) /\ 1 - 1 = 0 /\ Len(b) \in n..Len(b)
    BY <1>1
  <2> QED BY <1>1, <1>2, <2>1, ConcatAdjacentSubSeq, SubSeqFull
<1>4. \A i \in 1..Len(b) : b[i] \in Nat
  BY <1>1, ElementOfSeq
<1>5. v \in Seq(Nat) /\ Len(v) = n
  <2>1. \A i \in 1..n : b[i] \in Nat
    BY <1>1, <1>4
  <2>2. SubSeq(b, 1, n) \in Seq(Nat) /\ Len(SubSeq(b, 1, n)) = IF 1 <= n THEN n - 1 + 1 ELSE 0
    BY <2>1, SubSeqProperties
  <2> QED BY <1>2, <2>2
<1>6. r \in Seq(Nat)
  <2>1. \A i \in (n + 1)..Len(b) : b[i] \in Nat
    BY <1>4
  <2> QED BY <1>1, <1>2, <2>1, SubSeqProperties
<1> QED BY <1>3, <1>5, <1>6 DEF Strings

LEMMA DynamicPut ==
  ASSUME NEW v \in Strings
  PROVE  put_dynamic(v) \in Strings /\ Len(put_dynamic(v)) = Len(v) + 1 /\ Len(v) \in Nat
<1>1. Len(v) \in Nat
  BY LenProperties DEF Strings
<1> QED BY <1>1, Prefixed DEF put_dynamic

LEMMA Joined ==
  ASSUME NEW v \in Strings, NEW r \in Strings
  PROVE  put_dynamic(v) \o r = <<Len(v)>> \o (v \o r)
<1>1. PICK h : h = <<Len(v)>>
  OBVIOUS
<1>2. v \in Seq(Nat) /\ r \in Seq(Nat) /\ h \in Seq(Nat)
  <2>1. Len(v) \in Nat
    BY LenProperties DEF Strings
  <2> QED BY <1>1, <2>1, OneToken DEF Strings
<1>3. (h \o v) \o r = h \o (v \o r)
  BY <1>2, ConcatAssociative, SMTT(30)
<1>4. put_dynamic(v) = h \o v
  BY <1>1 DEF put_dynamic
<1> QED BY <1>1, <1>3, <1>4

LEMMA DynamicTaken ==
  ASSUME NEW v \in Strings, NEW r \in Strings, NEW max \in Nat, Len(v) <= max
  PROVE  take_dynamic(put_dynamic(v) \o r, max) = Took(v, r)
<1>1. v \in Seq(Nat) /\ r \in Seq(Nat) /\ Len(v) \in Nat /\ <<Len(v)>> \in Seq(Nat)
  BY LenProperties, OneToken DEF Strings
<1>2. put_dynamic(v) \o r = <<Len(v)>> \o (v \o r)
  BY <1>1, Joined
<1>3. v \o r \in Strings
  BY <1>1, ConcatProperties DEF Strings
<1>4. PICK n, b, q : n = take_fixed(b) /\ b = put_dynamic(v) \o r /\ q = v \o r
  OBVIOUS
<1>5. n = Took(Len(v), q)
  BY <1>1, <1>2, <1>3, <1>4, FixedTaken
<1>6. n.ok /\ n.value = Len(v) /\ n.rest = v \o r /\ ~(Len(v) > max)
  <2>1. n.ok /\ n.value = Len(v) /\ n.rest = q
    BY <1>5 DEF Took
  <2> QED BY <1>1, <1>4, <2>1
<1>7. take_dynamic(b, max) = take_bytes(n.rest, n.value)
  BY <1>4, <1>6 DEF take_dynamic
<1> QED BY <1>4, <1>6, <1>7, CutOff

LEMMA DynamicIs ==
  ASSUME NEW b \in Strings, NEW max \in Nat, take_dynamic(b, max) # Fail
  PROVE  \E v \in Strings, r \in Strings :
           b = put_dynamic(v) \o r /\ Len(v) <= max /\ take_dynamic(b, max) = Took(v, r)
<1>1. PICK n : n = take_fixed(b)
  OBVIOUS
<1>2. n.ok /\ ~(n.value > max) /\ take_dynamic(b, max) = take_bytes(n.rest, n.value)
  BY <1>1 DEF take_dynamic
<1>3. n # Fail
  BY <1>2, Outcomes
<1>4. PICK k \in Nat, q \in Strings : b = <<k>> \o q /\ n = Took(k, q)
  BY <1>1, <1>3, FixedIs
<1>5. n.value = k /\ n.rest = q
  BY <1>4, Outcomes
<1>6. PICK v \in Strings, r \in Strings : Len(v) = k /\ q = v \o r
  BY <1>2, <1>5, BytesIs
<1>8. b = put_dynamic(v) \o r
  BY <1>4, <1>6, Joined
<1>9. Len(v) <= max
  BY <1>2, <1>5, <1>6
<1> QED BY <1>8, <1>9, DynamicTaken

\* Nothing follows.
LEMMA NothingFollows ==
  /\ <<>> \in Strings
  /\ \A s \in Strings : s \o <<>> = s /\ <<>> \o s = s
BY EmptySeq, ConcatEmptySeq DEF Strings

LEMMA Regroup ==
  ASSUME NEW p \in Strings, NEW q \in Strings, NEW r \in Strings
  PROVE  p \o (q \o r) = (p \o q) \o r /\ p \o q \in Strings
<1>1. p \in Seq(Nat) /\ q \in Seq(Nat) /\ r \in Seq(Nat)
  BY DEF Strings
<1>2. (p \o q) \o r = p \o (q \o r)
  BY <1>1, ConcatAssociative, SMTT(30)
<1>3. p \o q \in Seq(Nat)
  BY <1>1, ConcatProperties
<1> QED BY <1>2, <1>3 DEF Strings

LEMMA RegroupAll == \A x, y, z \in Strings : x \o (y \o z) = (x \o y) \o z
BY Regroup

LEMMA DynamicWhole ==
  ASSUME NEW v \in Strings, NEW max \in Nat, Len(v) <= max
  PROVE  decode_tze(take_dynamic(put_dynamic(v), max)) = Took(v, <<>>)
<1>1. put_dynamic(v) \o <<>> = put_dynamic(v)
  BY DynamicPut, NothingFollows
<1>2. take_dynamic(put_dynamic(v) \o <<>>, max) = Took(v, <<>>)
  BY NothingFollows, DynamicTaken
<1> QED BY <1>1, <1>2, Whole

LEMMA DynamicWholeIs ==
  ASSUME NEW b \in Strings, NEW max \in Nat, decode_tze(take_dynamic(b, max)) # Fail
  PROVE  \E v \in Strings : b = put_dynamic(v) /\ Len(v) <= max
<1>1. take_dynamic(b, max) # Fail
  BY Whole
<1>2. PICK v \in Strings, r \in Strings :
        b = put_dynamic(v) \o r /\ Len(v) <= max /\ take_dynamic(b, max) = Took(v, r)
  BY <1>1, DynamicIs
<1>3. r = <<>>
  BY <1>2, Whole
<1> QED BY <1>2, <1>3, DynamicPut, NothingFollows

LEMMA InnerIs ==
  ASSUME NEW outer, NEW inner
  PROVE  /\ outer = Fail \/ inner = Fail => Inner(outer, inner) = Fail
         /\ \A u, r, v : outer = Took(u, r) /\ inner = Took(v, <<>>) => Inner(outer, inner) = Took(v, r)
BY Outcomes DEF Inner

-----------------------------------------------------------------------------
\* The chunk pointers of a list, and their tokens one after the other.
Triple(c) == <<c.published_level, c.slot_index, c.payload_len>>
Triples(v) == FlattenSeq([i \in DOMAIN v |-> Triple(v[i])])

LEMMA TripleIs ==
  ASSUME NEW c \in Pointer
  PROVE  /\ Triple(c) \in Strings /\ Len(Triple(c)) = 3
         /\ Triple(c)[1] = c.published_level /\ Triple(c)[2] = c.slot_index
         /\ Triple(c)[3] = c.payload_len
BY DEF Triple, Pointer, Strings

LEMMA FlattenSteps ==
  ASSUME NEW s, Len(s) \in Nat \ {0}
  PROVE  \E f : /\ f[1] = s[1]
                /\ \A i \in 2..Len(s) : f[i] = f[i - 1] \o s[i]
                /\ FlattenSeq(s) = f[Len(s)]
<1> DEFINE Is(m, f) == f = [i \in 1..m |-> IF i = 1 THEN s[i] ELSE f[i - 1] \o s[i]]
           T == {m \in Nat : \E f : Is(m + 1, f)}
           f0 == CHOOSE f : Is(Len(s), f)
<1>f. FlattenSeq(s) = f0[Len(s)]
  BY DEF FlattenSeq
<1>1. 0 \in T
  <2>1. Is(0 + 1, [i \in 1..1 |-> s[1]])
    OBVIOUS
  <2> HIDE DEF Is
  <2> QED BY <2>1
<1>2. ASSUME NEW m \in Nat, m \in T PROVE m + 1 \in T
  <2>1. PICK f : Is(m + 1, f)
    BY <1>2
  <2> DEFINE g == [i \in 1..(m + 2) |-> IF i = m + 2 THEN f[m + 1] \o s[m + 2] ELSE f[i]]
  <2>2. ASSUME NEW i \in 1..(m + 2) PROVE g[i] = IF i = 1 THEN s[i] ELSE g[i - 1] \o s[i]
    <3>1. CASE i = m + 2
      <4>1. i - 1 = m + 1 /\ i - 1 \in 1..(m + 2) /\ i - 1 # m + 2 /\ i # 1
        BY <3>1
      <4>2. g[i - 1] = f[m + 1] /\ g[i] = f[m + 1] \o s[m + 2]
        BY <3>1, <4>1
      <4> HIDE DEF g
      <4> QED BY <3>1, <4>1, <4>2
    <3>2. CASE i # m + 2
      <4>1. i \in 1..(m + 1) /\ g[i] = f[i]
        BY <3>2
      <4>2. f[i] = IF i = 1 THEN s[i] ELSE f[i - 1] \o s[i]
        BY <2>1, <4>1
      <4>3. i # 1 => i - 1 \in 1..(m + 2) /\ i - 1 # m + 2
        BY <4>1
      <4>4. i # 1 => g[i - 1] = f[i - 1]
        BY <4>3
      <4> HIDE DEF g
      <4> QED BY <4>1, <4>2, <4>4
    <3> QED BY <3>1, <3>2
  <2>3. g = [i \in 1..(m + 2) |-> g[i]]
    OBVIOUS
  <2> HIDE DEF g
  <2>4. Is(m + 2, g)
    BY <2>2, <2>3
  <2> HIDE DEF Is
  <2>5. (m + 1) + 1 = m + 2
    OBVIOUS
  <2> QED BY <2>4, <2>5
<1> HIDE DEF T
<1>3. Nat \subseteq T
  BY <1>1, <1>2, SetInduction
<1>4. \E f : Is(Len(s), f)
  <2>1. Len(s) - 1 \in T /\ (Len(s) - 1) + 1 = Len(s)
    BY <1>3
  <2> HIDE DEF Is
  <2> QED BY <2>1 DEF T
<1>5. Is(Len(s), f0)
  <2> HIDE DEF Is
  <2> QED BY <1>4
<1> HIDE DEF f0
<1>6. \A i \in 1..Len(s) : f0[i] = IF i = 1 THEN s[i] ELSE f0[i - 1] \o s[i]
  BY <1>5
<1>7. f0[1] = s[1]
  <2>1. 1 \in 1..Len(s)
    OBVIOUS
  <2> QED BY <1>6, <2>1
<1>8. ASSUME NEW i \in 2..Len(s) PROVE f0[i] = f0[i - 1] \o s[i]
  <2>1. i \in 1..Len(s) /\ i # 1
    OBVIOUS
  <2> QED BY <1>6, <2>1
<1> QED BY <1>f, <1>7, <1>8

LEMMA FlattenEmpty ==
  ASSUME NEW s \in Seq(Strings), Len(s) = 0
  PROVE  FlattenSeq(s) = <<>>
<1>1. s = <<>>
  BY EmptySeq
<1> QED BY <1>1 DEF FlattenSeq

LEMMA FlattenIs ==
  ASSUME NEW s \in Seq(Strings)
  PROVE  FlattenSeq(s) \in Strings
<1>0. Len(s) \in Nat
  BY LenProperties
<1>1. CASE Len(s) = 0
  BY <1>1, FlattenEmpty, NothingFollows
<1>2. CASE Len(s) # 0
  <2>1. PICK f : /\ f[1] = s[1]
                 /\ \A i \in 2..Len(s) : f[i] = f[i - 1] \o s[i]
                 /\ FlattenSeq(s) = f[Len(s)]
    BY <1>0, <1>2, FlattenSteps
  <2>2. PICK n \in Nat : Len(s) = n + 1
    <3>1. Len(s) - 1 \in Nat /\ Len(s) = (Len(s) - 1) + 1
      BY <1>0, <1>2
    <3> QED BY <3>1
  <2> DEFINE T == {k \in Nat : f[k + 1] \in Strings}
  <2>3. 0 \in T
    <3>1. 1 \in 1..Len(s) /\ 0 + 1 = 1
      BY <2>2
    <3> QED BY <2>1, <3>1, ElementOfSeq
  <2>4. ASSUME NEW k \in 0..(n - 1), k \in T PROVE k + 1 \in T
    <3>1. k + 2 \in 2..Len(s) /\ k + 2 \in 1..Len(s) /\ (k + 2) - 1 = k + 1 /\ (k + 1) + 1 = k + 2
      BY <2>2
    <3>2. s[k + 2] \in Strings /\ f[k + 2] = f[k + 1] \o s[k + 2]
      BY <2>1, <3>1, ElementOfSeq
    <3>3. f[k + 2] \in Strings
      BY <2>4, <3>2, ConcatProperties DEF Strings
    <3> QED BY <3>1, <3>3
  <2> HIDE DEF T
  <2>5. n \in T
    <3>1. 0..n \subseteq T
      BY <2>3, <2>4, UpTo
    <3> QED BY <3>1
  <2> QED BY <2>1, <2>2, <2>5 DEF T
<1> QED BY <1>1, <1>2

LEMMA FlattenAppend ==
  ASSUME NEW s \in Seq(Strings), NEW x \in Strings
  PROVE  FlattenSeq(Append(s, x)) = FlattenSeq(s) \o x
<1>1. PICK t, m : t = Append(s, x) /\ m = Len(s)
  OBVIOUS
<1>2. /\ m \in Nat /\ t \in Seq(Strings) /\ Len(t) = m + 1
      /\ \A i \in 1..m : t[i] = s[i]
      /\ t[m + 1] = x
  BY <1>1, AppendProperties, LenProperties
<1>3. PICK g : /\ g[1] = t[1]
               /\ \A i \in 2..Len(t) : g[i] = g[i - 1] \o t[i]
               /\ FlattenSeq(t) = g[Len(t)]
  <2>1. Len(t) \in Nat \ {0}
    BY <1>2
  <2> QED BY <2>1, FlattenSteps
<1>4. CASE m = 0
  <2>1. FlattenSeq(s) = <<>>
    BY <1>1, <1>4, FlattenEmpty
  <2>2. FlattenSeq(t) = x
    <3>1. Len(t) = 1 /\ m + 1 = 1
      BY <1>2, <1>4
    <3> QED BY <1>2, <1>3, <3>1
  <2> QED BY <1>1, <2>1, <2>2, NothingFollows
<1>5. CASE m # 0
  <2>1. PICK n \in Nat : m = n + 1
    <3>1. m - 1 \in Nat /\ m = (m - 1) + 1
      BY <1>2, <1>5
    <3> QED BY <3>1
  <2>2. PICK f : /\ f[1] = s[1]
                 /\ \A i \in 2..m : f[i] = f[i - 1] \o s[i]
                 /\ FlattenSeq(s) = f[m]
    <3>1. Len(s) \in Nat \ {0}
      BY <1>1, <1>2, <1>5
    <3> QED BY <1>1, <3>1, FlattenSteps
  <2> DEFINE T == {k \in Nat : g[k + 1] = f[k + 1]}
  <2>3. 0 \in T
    <3>1. 1 \in 1..m /\ 0 + 1 = 1
      BY <2>1
    <3> QED BY <1>2, <1>3, <2>2, <3>1
  <2>4. ASSUME NEW k \in 0..(n - 1), k \in T PROVE k + 1 \in T
    <3>1. /\ k + 2 \in 2..m /\ k + 2 \in 1..m /\ k + 2 \in 2..Len(t)
          /\ (k + 2) - 1 = k + 1 /\ (k + 1) + 1 = k + 2
      BY <1>2, <2>1
    <3>2. g[k + 2] = g[k + 1] \o t[k + 2] /\ f[k + 2] = f[k + 1] \o s[k + 2] /\ t[k + 2] = s[k + 2]
      BY <1>2, <1>3, <2>2, <3>1
    <3>3. g[k + 1] = f[k + 1]
      BY <2>4
    <3>4. g[k + 2] = f[k + 2]
      BY <3>2, <3>3
    <3> QED BY <3>1, <3>4
  <2> HIDE DEF T
  <2>5. n \in T
    <3>1. 0..n \subseteq T
      BY <2>3, <2>4, UpTo
    <3> QED BY <3>1
  <2>6. g[m] = f[m]
    BY <2>1, <2>5 DEF T
  <2>7. g[m + 1] = g[m] \o t[m + 1]
    <3>1. m + 1 \in 2..Len(t) /\ (m + 1) - 1 = m
      BY <1>2, <1>5
    <3> QED BY <1>3, <3>1
  <2> QED BY <1>1, <1>2, <1>3, <2>2, <2>6, <2>7
<1> QED BY <1>4, <1>5

\* The tokens of a list of pointers.
AreTriples(v) ==
  /\ Triples(v) \in Strings /\ Len(Triples(v)) = 3 * Len(v)
  /\ \A i \in 1..Len(v) : /\ Triples(v)[3 * i - 2] = v[i].published_level
                          /\ Triples(v)[3 * i - 1] = v[i].slot_index
                          /\ Triples(v)[3 * i] = v[i].payload_len

LEMMA TriplesSeq ==
  ASSUME NEW v \in Seq(Pointer)
  PROVE  /\ [i \in DOMAIN v |-> Triple(v[i])] \in Seq(Strings)
         /\ Len([i \in DOMAIN v |-> Triple(v[i])]) = Len(v)
<1>1. Len(v) \in Nat /\ DOMAIN v = 1..Len(v) /\ \A i \in 1..Len(v) : v[i] \in Pointer
  BY LenProperties, ElementOfSeq
<1>2. PICK f : f = [i \in DOMAIN v |-> Triple(v[i])]
  OBVIOUS
<1>3. \A i \in 1..Len(v) : Triple(v[i]) \in Strings
  BY <1>1, TripleIs
<1>4. f \in [1..Len(v) -> Strings]
  BY <1>1, <1>2, <1>3
<1> QED BY <1>1, <1>2, <1>4, FunctionIsSeq

LEMMA TriplesAppend ==
  ASSUME NEW u \in Seq(Pointer), NEW c \in Pointer
  PROVE  Triples(Append(u, c)) = Triples(u) \o Triple(c)
<1>1. PICK v, n : v = Append(u, c) /\ n = Len(u)
  OBVIOUS
<1>2. /\ n \in Nat /\ v \in Seq(Pointer) /\ Len(v) = n + 1
      /\ \A i \in 1..n : v[i] = u[i]
      /\ v[n + 1] = c
  BY <1>1, AppendProperties, LenProperties
<1>3. PICK f, g : f = [i \in DOMAIN u |-> Triple(u[i])] /\ g = [i \in DOMAIN v |-> Triple(v[i])]
  OBVIOUS
<1>4. f \in Seq(Strings) /\ Len(f) = n /\ g \in Seq(Strings) /\ Len(g) = n + 1
      /\ Triple(c) \in Strings
  BY <1>1, <1>2, <1>3, TriplesSeq, TripleIs
<1>5. /\ Append(f, Triple(c)) \in Seq(Strings) /\ Len(Append(f, Triple(c))) = n + 1
      /\ \A i \in 1..n : Append(f, Triple(c))[i] = f[i]
      /\ Append(f, Triple(c))[n + 1] = Triple(c)
  BY <1>4, AppendProperties
<1>6. ASSUME NEW i \in 1..(n + 1) PROVE g[i] = Append(f, Triple(c))[i]
  <2>1. DOMAIN u = 1..n /\ DOMAIN v = 1..(n + 1)
    BY <1>1, <1>2, LenProperties
  <2>2. CASE i = n + 1
    BY <1>2, <1>3, <1>5, <2>1, <2>2
  <2>3. CASE i # n + 1
    <3>1. i \in 1..n
      BY <1>2, <2>3
    <3> QED BY <1>2, <1>3, <1>5, <2>1, <3>1
  <2> QED BY <2>2, <2>3
<1>7. g = Append(f, Triple(c))
  BY <1>4, <1>5, <1>6, SeqEqual
<1>8. FlattenSeq(g) = FlattenSeq(f) \o Triple(c)
  BY <1>4, <1>7, FlattenAppend
<1> QED BY <1>1, <1>3, <1>8 DEF Triples

LEMMA TriplesAre ==
  ASSUME NEW v \in Seq(Pointer)
  PROVE  AreTriples(v)
<1> DEFINE T == {n \in Nat : \A w \in Seq(Pointer) : Len(w) = n => AreTriples(w)}
<1>1. 0 \in T
  <2> SUFFICES ASSUME NEW w \in Seq(Pointer), Len(w) = 0 PROVE AreTriples(w)
    OBVIOUS
  <2>1. PICK f : f = [i \in DOMAIN w |-> Triple(w[i])]
    OBVIOUS
  <2>2. f \in Seq(Strings) /\ Len(f) = 0
    BY <2>1, TriplesSeq
  <2>3. Triples(w) = <<>>
    BY <2>1, <2>2, FlattenEmpty DEF Triples
  <2>4. <<>> \in Strings /\ Len(<<>>) = 0 /\ 3 * 0 = 0 /\ 1..0 = {}
    BY NothingFollows
  <2> QED BY <2>3, <2>4 DEF AreTriples
<1>2. ASSUME NEW n \in Nat, n \in T PROVE n + 1 \in T
  <2> SUFFICES ASSUME NEW w \in Seq(Pointer), Len(w) = n + 1 PROVE AreTriples(w)
    OBVIOUS
  <2>1. PICK u \in Seq(Pointer), c \in Pointer : w = Append(u, c)
    <3>1. w # <<>>
      BY EmptySeq
    <3> QED BY <3>1, SequenceEmptyOrAppend
  <2>2. /\ Len(u) = n /\ w[n + 1] = c /\ \A i \in 1..n : w[i] = u[i]
    <3>1. /\ Len(u) \in Nat /\ Len(w) = Len(u) + 1
          /\ \A i \in 1..Len(u) : w[i] = u[i]
          /\ w[Len(u) + 1] = c
      BY <2>1, AppendProperties, LenProperties
    <3> QED BY <3>1
  <2>3. AreTriples(u)
    BY <1>2, <2>2
  <2>4. PICK p, q, s : p = Triples(u) /\ q = Triple(c) /\ s = Triples(w)
    OBVIOUS
  <2>5. s = p \o q
    BY <2>1, <2>4, TriplesAppend
  <2>6. /\ p \in Seq(Nat) /\ Len(p) = 3 * n /\ q \in Seq(Nat) /\ Len(q) = 3
        /\ q[1] = c.published_level /\ q[2] = c.slot_index /\ q[3] = c.payload_len
    BY <2>2, <2>3, <2>4, TripleIs DEF AreTriples, Strings
  <2>7. /\ s \in Seq(Nat) /\ Len(s) = 3 * n + 3
        /\ \A i \in 1..(3 * n + 3) : s[i] = IF i <= 3 * n THEN p[i] ELSE q[i - 3 * n]
    <3>1. PICK m \in Nat : m = 3 * n
      OBVIOUS
    <3>2. /\ s \in Seq(Nat) /\ Len(s) = m + 3
          /\ \A i \in 1..(m + 3) : s[i] = IF i <= m THEN p[i] ELSE q[i - m]
      <4>1. Len(p) = m /\ Len(q) = 3
        BY <2>6, <3>1
      <4>2. /\ p \o q \in Seq(Nat) /\ Len(p \o q) = Len(p) + Len(q)
            /\ \A i \in 1..Len(p) + Len(q) : (p \o q)[i] = IF i <= Len(p) THEN p[i] ELSE q[i - Len(p)]
        BY <2>6, ConcatProperties
      <4>3. Len(p) + Len(q) = m + 3
        BY <4>1
      <4> QED BY <2>5, <4>1, <4>2, <4>3
    <3> QED BY <3>1, <3>2
  <2>8. ASSUME NEW i \in 1..(n + 1)
        PROVE  /\ s[3 * i - 2] = w[i].published_level /\ s[3 * i - 1] = w[i].slot_index
               /\ s[3 * i] = w[i].payload_len
    <3>1. CASE i = n + 1
      <4>1. /\ 3 * i - 2 = 3 * n + 1 /\ 3 * i - 1 = 3 * n + 2 /\ 3 * i = 3 * n + 3
            /\ (3 * n + 1) - 3 * n = 1 /\ (3 * n + 2) - 3 * n = 2 /\ (3 * n + 3) - 3 * n = 3
        BY <3>1
      <4>2. s[3 * n + 1] = q[1] /\ s[3 * n + 2] = q[2] /\ s[3 * n + 3] = q[3]
        BY <2>7, <4>1
      <4> QED BY <2>2, <2>6, <3>1, <4>1, <4>2
    <3>2. CASE i # n + 1
      <4>1. /\ i \in 1..n /\ 3 * i - 2 \in 1..(3 * n) /\ 3 * i - 1 \in 1..(3 * n) /\ 3 * i \in 1..(3 * n)
        BY <3>2
      <4>2. \A k \in 1..(3 * n) : s[k] = p[k]
        BY <2>7
      <4>3. /\ p[3 * i - 2] = u[i].published_level /\ p[3 * i - 1] = u[i].slot_index
            /\ p[3 * i] = u[i].payload_len
        BY <2>2, <2>3, <2>4, <4>1 DEF AreTriples
      <4> QED BY <2>2, <4>1, <4>2, <4>3
    <3> QED BY <3>1, <3>2
  <2>9. Len(s) = 3 * (n + 1)
    BY <2>7
  <2> QED BY <2>4, <2>7, <2>8, <2>9 DEF AreTriples, Strings
<1> HIDE DEF T
<1>3. Nat \subseteq T
  BY <1>1, <1>2, SetInduction
<1> QED BY <1>3, LenProperties DEF T

-----------------------------------------------------------------------------
\* A field's encoding is a string, and read before anything else it gives the
\* value and leaves the rest.
Taken(field, v) ==
  /\ PutField(field, v) \in Strings
  /\ \A r \in Strings : TakeField(field, PutField(field, v) \o r) = Took(v, r)

\* What is read as a field begins with the encoding of a value.
Recognised(field, b) ==
  TakeField(field, b) = Fail \/ \E v, r : /\ Encodable(field, v) /\ r \in Strings
                                          /\ b = PutField(field, v) \o r

LEMMA FixedField ==
  /\ \A v : Encodable("fixed", v) => Taken("fixed", v)
  /\ \A b \in Strings : Recognised("fixed", b)
<1>1. \A v : Encodable("fixed", v) <=> v \in Nat
  BY DEF Encodable
<1>2. \A v, b : PutField("fixed", v) = <<v>> /\ TakeField("fixed", b) = take_fixed(b)
  BY DEF PutField, TakeField
<1>3. ASSUME NEW v \in Nat PROVE Taken("fixed", v)
  BY <1>2, OneToken, FixedTaken DEF Taken
<1>4. ASSUME NEW b \in Strings PROVE Recognised("fixed", b)
  <2> SUFFICES ASSUME TakeField("fixed", b) # Fail
               PROVE  \E v, r : /\ Encodable("fixed", v) /\ r \in Strings
                                /\ b = PutField("fixed", v) \o r
    BY DEF Recognised
  <2>1. PICK v \in Nat, r \in Strings : b = <<v>> \o r
    BY <1>2, FixedIs
  <2> QED BY <1>1, <1>2, <2>1
<1> QED BY <1>1, <1>3, <1>4

LEMMA StringField ==
  /\ \A v : Encodable("string", v) => Taken("string", v)
  /\ \A b \in Strings : Recognised("string", b)
<1>1. \A v : Encodable("string", v) <=> v \in Strings /\ Len(v) <= MaxBytes
  BY DEF Encodable
<1>2. \A v, b : PutField("string", v) = put_dynamic(v)
                /\ TakeField("string", b) = take_dynamic(b, MaxBytes)
  BY DEF PutField, TakeField
<1>3. ASSUME NEW v \in Strings, Len(v) <= MaxBytes PROVE Taken("string", v)
  BY <1>2, <1>3, DynamicPut, DynamicTaken, WireAssumption DEF Taken
<1>4. ASSUME NEW b \in Strings PROVE Recognised("string", b)
  <2> SUFFICES ASSUME TakeField("string", b) # Fail
               PROVE  \E v, r : /\ Encodable("string", v) /\ r \in Strings
                                /\ b = PutField("string", v) \o r
    BY DEF Recognised
  <2>1. PICK v \in Strings, r \in Strings : b = put_dynamic(v) \o r /\ Len(v) <= MaxBytes
    BY <1>2, DynamicIs, WireAssumption
  <2> QED BY <1>1, <1>2, <2>1
<1> QED BY <1>1, <1>3, <1>4

\* A field that is encoded and put behind its length.
LEMMA WrappedTaken ==
  ASSUME NEW u \in Strings, Len(u) <= MaxBytes, NEW r \in Strings, NEW inner, NEW v,
         inner = Took(v, <<>>)
  PROVE  Inner(take_dynamic(put_dynamic(u) \o r, MaxBytes), inner) = Took(v, r)
<1>1. take_dynamic(put_dynamic(u) \o r, MaxBytes) = Took(u, r)
  BY DynamicTaken, WireAssumption
<1> QED BY <1>1, InnerIs

LEMMA FeltsField ==
  /\ \A v : Encodable("felts", v) => Taken("felts", v)
  /\ \A b \in Strings : Recognised("felts", b)
<1>1. \A v : Encodable("felts", v) <=> v \in Strings /\ Len(v) + 1 <= MaxBytes
  BY DEF Encodable
<1>2. \A v, b : /\ PutField("felts", v) = put_dynamic(put_dynamic(v))
                /\ TakeField("felts", b) =
                     Inner(take_dynamic(b, MaxBytes),
                           encoded_felt_list_from_wire(take_dynamic(b, MaxBytes).value))
  BY DEF PutField, TakeField
<1>3. ASSUME NEW v \in Strings, Len(v) + 1 <= MaxBytes PROVE Taken("felts", v)
  <2>1. PICK u : u = put_dynamic(v)
    OBVIOUS
  <2>2. u \in Strings /\ Len(u) <= MaxBytes /\ Len(v) <= MaxBytes
    BY <1>3, <2>1, DynamicPut, WireAssumption
  <2>3. encoded_felt_list_from_wire(u) = Took(v, <<>>)
    BY <2>1, <2>2, DynamicWhole, WireAssumption DEF encoded_felt_list_from_wire
  <2>4. ASSUME NEW r \in Strings PROVE TakeField("felts", put_dynamic(u) \o r) = Took(v, r)
    <3>1. take_dynamic(put_dynamic(u) \o r, MaxBytes) = Took(u, r)
      BY <2>2, DynamicTaken, WireAssumption
    <3>2. take_dynamic(put_dynamic(u) \o r, MaxBytes).value = u
      BY <3>1, Outcomes
    <3> QED BY <1>2, <2>3, <3>1, <3>2, InnerIs
  <2> QED BY <1>2, <2>1, <2>2, <2>4, DynamicPut DEF Taken
<1>4. ASSUME NEW b \in Strings PROVE Recognised("felts", b)
  <2> SUFFICES ASSUME TakeField("felts", b) # Fail
               PROVE  \E v, r : /\ Encodable("felts", v) /\ r \in Strings
                                /\ b = PutField("felts", v) \o r
    BY DEF Recognised
  <2>1. PICK t : t = take_dynamic(b, MaxBytes)
    OBVIOUS
  <2>2. t # Fail /\ encoded_felt_list_from_wire(t.value) # Fail
    BY <1>2, <2>1, InnerIs
  <2>3. PICK u \in Strings, r \in Strings :
          b = put_dynamic(u) \o r /\ Len(u) <= MaxBytes /\ t = Took(u, r)
    BY <2>1, <2>2, DynamicIs, WireAssumption
  <2>4. t.value = u
    BY <2>3, Outcomes
  <2>5. PICK v \in Strings : u = put_dynamic(v)
    BY <2>2, <2>4, DynamicWholeIs, WireAssumption DEF encoded_felt_list_from_wire
  <2>6. Len(v) + 1 <= MaxBytes
    BY <2>3, <2>5, DynamicPut
  <2> QED BY <1>1, <1>2, <2>3, <2>5, <2>6
<1> QED BY <1>1, <1>3, <1>4

LEMMA OtherValue ==
  ASSUME NEW v, NEW r, NEW w
  PROVE  [Took(v, r) EXCEPT !.value = w] = Took(w, r)
<1>1. PICK a : a = TRUE
  OBVIOUS
<1>2. [[ok |-> a, value |-> v, rest |-> r] EXCEPT !.value = w] = [ok |-> a, value |-> w, rest |-> r]
  OBVIOUS
<1>3. Took(v, r) = [ok |-> a, value |-> v, rest |-> r] /\ Took(w, r) = [ok |-> a, value |-> w, rest |-> r]
  BY <1>1 DEF Took
<1> QED BY <1>2, <1>3

LEMMA ProofWhole ==
  ASSUME NEW v \in Strings, NEW w \in Strings, Len(v) <= MaxBytes, Len(w) <= MaxBytes
  PROVE  kernel_proof_from_wire(put_dynamic(v) \o put_dynamic(w)) = Took(<<v, w>>, <<>>)
<1>1. PICK b, q, p : b = put_dynamic(v) \o put_dynamic(w) /\ q = take_dynamic(b, MaxBytes)
                     /\ p = take_dynamic(q.rest, MaxBytes)
  OBVIOUS
<1>2. put_dynamic(w) \in Strings /\ put_dynamic(w) \o <<>> = put_dynamic(w)
  BY DynamicPut, NothingFollows
<1>3. q = Took(v, put_dynamic(w))
  BY <1>1, <1>2, DynamicTaken, WireAssumption
<1>4. q.ok /\ q.value = v /\ q.rest = put_dynamic(w)
  BY <1>3, Outcomes
<1>5. p = Took(w, <<>>)
  <2>1. take_dynamic(put_dynamic(w) \o <<>>, MaxBytes) = Took(w, <<>>)
    BY DynamicTaken, NothingFollows, WireAssumption
  <2>2. q.rest = put_dynamic(w) \o <<>>
    BY <1>2, <1>4
  <2> QED BY <1>1, <2>1, <2>2
<1>6. [p EXCEPT !.value = <<q.value, p.value>>] = Took(<<v, w>>, <<>>)
  <2>1. PICK x : x = <<v, w>>
    OBVIOUS
  <2>2. p.value = w
    BY <1>5, Outcomes
  <2>3. <<q.value, p.value>> = x
    BY <1>4, <2>1, <2>2
  <2>4. [p EXCEPT !.value = x] = Took(x, <<>>)
    BY <1>5, OtherValue
  <2> QED BY <2>1, <2>3, <2>4
<1>7. kernel_proof_from_wire(b) = decode_tze([p EXCEPT !.value = <<q.value, p.value>>])
  BY <1>1, <1>4 DEF kernel_proof_from_wire
<1> QED BY <1>1, <1>6, <1>7, Whole

LEMMA ProofWholeIs ==
  ASSUME NEW b \in Strings, kernel_proof_from_wire(b) # Fail
  PROVE  \E v \in Strings, w \in Strings :
           /\ b = put_dynamic(v) \o put_dynamic(w)
           /\ Len(v) <= MaxBytes /\ Len(w) <= MaxBytes
<1>1. PICK q, p : q = take_dynamic(b, MaxBytes) /\ p = take_dynamic(q.rest, MaxBytes)
  OBVIOUS
<1>2. q.ok /\ kernel_proof_from_wire(b) = decode_tze([p EXCEPT !.value = <<q.value, p.value>>])
  BY <1>1 DEF kernel_proof_from_wire
<1>3. q # Fail
  BY <1>2, Outcomes
<1>4. PICK v \in Strings, r \in Strings :
        b = put_dynamic(v) \o r /\ Len(v) <= MaxBytes /\ q = Took(v, r)
  BY <1>1, <1>3, DynamicIs, WireAssumption
<1>5. q.rest = r
  BY <1>4, Outcomes
<1>6. p # Fail
  <2>1. CASE p = Fail
    <3>1. [p EXCEPT !.value = <<q.value, p.value>>].ok = FALSE
      BY <2>1 DEF Fail
    <3> QED BY <1>2, <3>1 DEF decode_tze
  <2> QED BY <2>1
<1>7. PICK w \in Strings, z \in Strings :
        r = put_dynamic(w) \o z /\ Len(w) <= MaxBytes /\ p = Took(w, z)
  BY <1>1, <1>5, <1>6, DynamicIs, WireAssumption
<1>8. z = <<>>
  <2>1. [p EXCEPT !.value = <<q.value, p.value>>].rest = z
    BY <1>7 DEF Took
  <2> QED BY <1>2, <2>1 DEF decode_tze
<1>9. r = put_dynamic(w)
  BY <1>7, <1>8, DynamicPut, NothingFollows
<1> QED BY <1>4, <1>7, <1>9

LEMMA ProofField ==
  /\ \A v : Encodable("proof", v) => Taken("proof", v)
  /\ \A b \in Strings : Recognised("proof", b)
<1>1. \A v : Encodable("proof", v) <=>
               /\ v = <<v[1], v[2]>> /\ v[1] \in Strings /\ v[2] \in Strings
               /\ (Len(v[1]) + 1) + (Len(v[2]) + 1) <= MaxBytes
  BY DEF Encodable
<1>2. \A v, b : /\ PutField("proof", v) = put_dynamic(put_dynamic(v[1]) \o put_dynamic(v[2]))
                /\ TakeField("proof", b) =
                     Inner(take_dynamic(b, MaxBytes),
                           kernel_proof_from_wire(take_dynamic(b, MaxBytes).value))
  BY DEF PutField, TakeField
<1>0. ASSUME NEW x \in Strings, NEW y \in Strings
      PROVE  /\ put_dynamic(x) \o put_dynamic(y) \in Strings /\ Len(x) \in Nat /\ Len(y) \in Nat
             /\ Len(put_dynamic(x) \o put_dynamic(y)) = (Len(x) + 1) + (Len(y) + 1)
  <2>1. /\ put_dynamic(x) \in Seq(Nat) /\ put_dynamic(y) \in Seq(Nat)
        /\ Len(put_dynamic(x)) = Len(x) + 1 /\ Len(put_dynamic(y)) = Len(y) + 1
        /\ Len(x) \in Nat /\ Len(y) \in Nat
    BY DynamicPut DEF Strings
  <2>2. PICK p, q : p = put_dynamic(x) /\ q = put_dynamic(y)
    OBVIOUS
  <2>3. p \o q \in Seq(Nat) /\ Len(p \o q) = Len(p) + Len(q)
    BY <2>1, <2>2, ConcatProperties
  <2> QED BY <2>1, <2>2, <2>3 DEF Strings
<1>3. ASSUME NEW x \in Strings, NEW y \in Strings, (Len(x) + 1) + (Len(y) + 1) <= MaxBytes
      PROVE  Taken("proof", <<x, y>>)
  <2>1. PICK u, v : u = put_dynamic(x) \o put_dynamic(y) /\ v = <<x, y>>
    OBVIOUS
  <2>2. u \in Strings /\ Len(u) <= MaxBytes /\ Len(x) <= MaxBytes /\ Len(y) <= MaxBytes
    <3>1. Len(x) \in Nat /\ Len(y) \in Nat /\ MaxBytes \in Nat
      BY <1>0, WireAssumption
    <3>2. u \in Strings /\ Len(u) = (Len(x) + 1) + (Len(y) + 1)
      BY <1>0, <2>1
    <3> QED BY <1>3, <3>1, <3>2
  <2>3. kernel_proof_from_wire(u) = Took(v, <<>>)
    BY <2>1, <2>2, ProofWhole
  <2>4. PutField("proof", v) = put_dynamic(u)
    BY <1>2, <2>1
  <2>5. ASSUME NEW r \in Strings PROVE TakeField("proof", put_dynamic(u) \o r) = Took(v, r)
    <3>1. take_dynamic(put_dynamic(u) \o r, MaxBytes) = Took(u, r)
      BY <2>2, DynamicTaken, WireAssumption
    <3>2. take_dynamic(put_dynamic(u) \o r, MaxBytes).value = u
      BY <3>1, Outcomes
    <3> QED BY <1>2, <2>3, <3>1, <3>2, InnerIs
  <2> QED BY <2>1, <2>2, <2>4, <2>5, DynamicPut DEF Taken
<1>4. ASSUME NEW b \in Strings PROVE Recognised("proof", b)
  <2> SUFFICES ASSUME TakeField("proof", b) # Fail
               PROVE  \E v, r : /\ Encodable("proof", v) /\ r \in Strings
                                /\ b = PutField("proof", v) \o r
    BY DEF Recognised
  <2>1. PICK t : t = take_dynamic(b, MaxBytes)
    OBVIOUS
  <2>2. t # Fail /\ kernel_proof_from_wire(t.value) # Fail
    BY <1>2, <2>1, InnerIs
  <2>3. PICK u \in Strings, r \in Strings :
          b = put_dynamic(u) \o r /\ Len(u) <= MaxBytes /\ t = Took(u, r)
    BY <2>1, <2>2, DynamicIs, WireAssumption
  <2>4. t.value = u
    BY <2>3, Outcomes
  <2>5. PICK x \in Strings, y \in Strings : u = put_dynamic(x) \o put_dynamic(y)
    BY <2>2, <2>4, ProofWholeIs
  <2>6. (Len(x) + 1) + (Len(y) + 1) <= MaxBytes
    BY <1>0, <2>3, <2>5
  <2>7. PICK v : v = <<x, y>>
    OBVIOUS
  <2>8. v[1] = x /\ v[2] = y /\ v = <<v[1], v[2]>>
    BY <2>7
  <2>9. Encodable("proof", v) /\ PutField("proof", v) = put_dynamic(u)
    BY <1>1, <1>2, <2>5, <2>6, <2>8
  <2> QED BY <2>3, <2>9
<1>5. ASSUME NEW v, Encodable("proof", v) PROVE Taken("proof", v)
  <2>1. PICK x, y : x = v[1] /\ y = v[2]
    OBVIOUS
  <2>2. v = <<x, y>> /\ x \in Strings /\ y \in Strings /\ (Len(x) + 1) + (Len(y) + 1) <= MaxBytes
    BY <1>1, <1>5, <2>1
  <2>3. Taken("proof", <<x, y>>)
    BY <1>3, <2>2
  <2> QED BY <2>2, <2>3
<1> QED BY <1>4, <1>5

LEMMA NoteTaken ==
  ASSUME NEW v \in Nat, 1 <= MaxBytes
  PROVE  /\ encoded_note_to_wire(v) \in Strings
         /\ \A r \in Strings : encoded_note_from_wire(encoded_note_to_wire(v) \o r) = Took(v, r)
<1>1. PICK u : u = <<v>>
  OBVIOUS
<1>2. u \in Strings /\ Len(u) = 1 /\ encoded_note_to_wire(v) = put_dynamic(u)
  BY <1>1, OneToken DEF encoded_note_to_wire
<1>3. decode_tze(take_fixed(u)) = Took(v, <<>>)
  <2>1. u \o <<>> = u
    BY <1>2, NothingFollows
  <2>2. take_fixed(u) = Took(v, <<>>)
    BY <1>1, <2>1, FixedTaken, NothingFollows
  <2> QED BY <2>2, Whole
<1>4. ASSUME NEW r \in Strings PROVE encoded_note_from_wire(put_dynamic(u) \o r) = Took(v, r)
  <2>1. PICK t : t = take_dynamic(put_dynamic(u) \o r, MaxBytes)
    OBVIOUS
  <2>2. t = Took(u, r)
    BY <1>2, <2>1, DynamicTaken, WireAssumption
  <2>3. t.value = u
    BY <2>2, Outcomes
  <2>4. encoded_note_from_wire(put_dynamic(u) \o r) = Inner(t, decode_tze(take_fixed(t.value)))
    BY <2>1 DEF encoded_note_from_wire
  <2> QED BY <1>3, <2>2, <2>3, <2>4, InnerIs
<1> QED BY <1>2, <1>4, DynamicPut

LEMMA NoteIs ==
  ASSUME NEW b \in Strings, encoded_note_from_wire(b) # Fail
  PROVE  \E v \in Nat, r \in Strings : b = encoded_note_to_wire(v) \o r /\ 1 <= MaxBytes
<1>1. PICK t : t = take_dynamic(b, MaxBytes)
  OBVIOUS
<1>2. encoded_note_from_wire(b) = Inner(t, decode_tze(take_fixed(t.value)))
  BY <1>1 DEF encoded_note_from_wire
<1>3. t # Fail /\ decode_tze(take_fixed(t.value)) # Fail
  BY <1>2, InnerIs
<1>4. PICK u \in Strings, r \in Strings :
        b = put_dynamic(u) \o r /\ Len(u) <= MaxBytes /\ t = Took(u, r)
  BY <1>1, <1>3, DynamicIs, WireAssumption
<1>5. t.value = u
  BY <1>4, Outcomes
<1>6. take_fixed(u) # Fail
  BY <1>3, <1>5, Whole
<1>7. PICK v \in Nat, z \in Strings : u = <<v>> \o z /\ take_fixed(u) = Took(v, z)
  BY <1>6, FixedIs
<1>8. z = <<>>
  BY <1>3, <1>5, <1>7, Whole
<1>9. u = <<v>> /\ Len(u) = 1
  BY <1>7, <1>8, OneToken, NothingFollows
<1> QED BY <1>4, <1>9 DEF encoded_note_to_wire

LEMMA NoteField ==
  /\ \A v : Encodable("note", v) => Taken("note", v)
  /\ \A b \in Strings : Recognised("note", b)
<1>1. \A v : Encodable("note", v) <=> v \in Nat /\ 1 <= MaxBytes
  BY DEF Encodable
<1>2. \A v, b : /\ PutField("note", v) = encoded_note_to_wire(v)
                /\ TakeField("note", b) = encoded_note_from_wire(b)
  BY DEF PutField, TakeField
<1>3. ASSUME NEW v \in Nat, 1 <= MaxBytes PROVE Taken("note", v)
  BY <1>2, <1>3, NoteTaken DEF Taken
<1>4. ASSUME NEW b \in Strings PROVE Recognised("note", b)
  <2> SUFFICES ASSUME TakeField("note", b) # Fail
               PROVE  \E v, r : /\ Encodable("note", v) /\ r \in Strings
                                /\ b = PutField("note", v) \o r
    BY DEF Recognised
  <2>1. PICK v \in Nat, r \in Strings : b = encoded_note_to_wire(v) \o r /\ 1 <= MaxBytes
    BY <1>2, NoteIs
  <2> QED BY <1>1, <1>2, <2>1
<1> QED BY <1>1, <1>3, <1>4

LEMMA OptionalIs ==
  ASSUME NEW tag, NEW item
  PROVE  /\ tag = Fail => take_optional(tag, item) = Fail
         /\ \A r : tag = Took(Absent, r) => take_optional(tag, item) = Took(<<>>, r)
         /\ \A q : tag = Took(Present, q) =>
              /\ item = Fail => take_optional(tag, item) = Fail
              /\ \A v, r : item = Took(v, r) => take_optional(tag, item) = Took(<<v>>, r)
         /\ \A t, q : tag = Took(t, q) /\ t # Absent /\ t # Present => take_optional(tag, item) = Fail
<1>1. Absent # Present
  BY DEF Absent, Present
<1>2. CASE tag = Fail
  <2>1. ~tag.ok /\ \A t, q : tag # Took(t, q)
    BY <1>2, Outcomes
  <2> QED BY <2>1 DEF take_optional
<1>3. CASE \E t, q : tag = Took(t, q)
  <2>1. PICK t, q : tag = Took(t, q)
    BY <1>3
  <2>2. tag.ok /\ tag.value = t /\ tag.rest = q /\ tag # Fail
    BY <2>1, Outcomes
  <2>3. \A w, r : tag = Took(w, r) => w = t /\ r = q
    BY <2>2 DEF Took
  <2>4. CASE t = Absent
    BY <1>1, <2>2, <2>3, <2>4 DEF take_optional
  <2>5. CASE t = Present
    <3>1. item = Fail => ~item.ok
      BY Outcomes
    <3>2. \A v, r : item = Took(v, r) => item.ok /\ item.value = v /\ item.rest = r
      BY Outcomes
    <3> QED BY <1>1, <2>2, <2>3, <2>5, <3>1, <3>2 DEF take_optional
  <2>6. CASE t # Absent /\ t # Present
    BY <2>2, <2>3, <2>6 DEF take_optional
  <2> QED BY <2>4, <2>5, <2>6
<1> QED BY <1>2, <1>3

LEMMA Presence == Absent \in Nat /\ Present \in Nat /\ Absent # Present
BY DEF Absent, Present

LEMMA OneOf ==
  ASSUME NEW x
  PROVE  <<x>> # <<>> /\ <<x>>[1] = x
OBVIOUS

LEMMA TwoTokens ==
  ASSUME NEW m \in Nat, NEW n \in Nat
  PROVE  <<m, n>> = <<m>> \o <<n>>
<1>1. PICK a, b, c : a = <<m>> /\ b = <<n>> /\ c = <<m, n>>
  OBVIOUS
<1>2. /\ a \in Seq(Nat) /\ Len(a) = 1 /\ a[1] = m
      /\ b \in Seq(Nat) /\ Len(b) = 1 /\ b[1] = n
  BY <1>1, OneToken DEF Strings
<1>3. c \in Seq(Nat) /\ Len(c) = 2 /\ c[1] = m /\ c[2] = n
  BY <1>1
<1>4. /\ a \o b \in Seq(Nat) /\ Len(a \o b) = 2
      /\ (a \o b)[1] = m /\ (a \o b)[2] = n
  <2>1. /\ a \o b \in Seq(Nat) /\ Len(a \o b) = Len(a) + Len(b)
        /\ \A i \in 1..Len(a) + Len(b) : (a \o b)[i] = IF i <= Len(a) THEN a[i] ELSE b[i - Len(a)]
    BY <1>2, ConcatProperties
  <2>2. \A i \in 1..2 : (a \o b)[i] = IF i <= 1 THEN a[i] ELSE b[i - 1]
    BY <1>2, <2>1
  <2> QED BY <1>2, <2>1, <2>2
<1>5. \A i \in 1..2 : i = 1 \/ i = 2
  OBVIOUS
<1>6. c = a \o b
  BY <1>3, <1>4, <1>5, SeqEqual
<1> QED BY <1>1, <1>6

LEMMA OptionalField ==
  /\ \A v : Encodable("optional", v) => Taken("optional", v)
  /\ \A b \in Strings : Recognised("optional", b)
<1>1. \A v : Encodable("optional", v) <=> v = <<>> \/ (v = <<v[1]>> /\ v[1] \in Nat)
  BY DEF Encodable
<1>2. \A v, b : /\ PutField("optional", v) =
                     IF v = <<>> THEN <<Absent>> ELSE <<Present, v[1]>>
                /\ TakeField("optional", b) =
                     take_optional(take_fixed(b), take_fixed(take_fixed(b).rest))
  BY DEF PutField, TakeField
<1>3. Taken("optional", <<>>)
  <2>1. PutField("optional", <<>>) = <<Absent>> /\ <<Absent>> \in Strings
    BY <1>2, OneToken, Presence
  <2>2. ASSUME NEW r \in Strings PROVE TakeField("optional", <<Absent>> \o r) = Took(<<>>, r)
    <3>1. PICK b, t : b = <<Absent>> \o r /\ t = take_fixed(b)
      OBVIOUS
    <3>2. t = Took(Absent, r)
      BY <3>1, FixedTaken, Presence
    <3>3. take_optional(t, take_fixed(t.rest)) = Took(<<>>, r)
      BY <3>2, OptionalIs
    <3> QED BY <1>2, <3>1, <3>3
  <2> QED BY <2>1, <2>2 DEF Taken
<1>4. ASSUME NEW n \in Nat PROVE Taken("optional", <<n>>)
  <2>1. PICK v : v = <<n>>
    OBVIOUS
  <2>2. v # <<>> /\ v[1] = n /\ v \in Strings
    BY <2>1, OneOf, OneToken
  <2>3. PutField("optional", v) = <<Present>> \o v
    <3>1. PutField("optional", v) = <<Present, n>>
      BY <1>2, <2>2
    <3>2. <<Present, n>> = <<Present>> \o <<n>>
      BY Presence, TwoTokens
    <3> QED BY <2>1, <3>1, <3>2
  <2>4. <<Present>> \o v \in Strings
    BY <2>2, Presence, Prefixed
  <2>5. ASSUME NEW r \in Strings PROVE TakeField("optional", (<<Present>> \o v) \o r) = Took(v, r)
    <3>1. PICK b, t, q, h : b = (<<Present>> \o v) \o r /\ t = take_fixed(b) /\ q = v \o r
                            /\ h = <<Present>>
      OBVIOUS
    <3>2. h \in Seq(Nat) /\ v \in Seq(Nat) /\ r \in Seq(Nat)
      BY <2>2, <3>1, OneToken, Presence DEF Strings
    <3>3. b = h \o q /\ q \in Strings
      BY <3>1, <3>2, ConcatAssociative, ConcatProperties DEF Strings
    <3>4. t = Took(Present, q)
      BY <3>1, <3>3, FixedTaken, Presence
    <3>5. t.rest = q
      BY <3>4, Outcomes
    <3>6. take_fixed(q) = Took(n, r)
      BY <2>1, <3>1, FixedTaken
    <3>7. TakeField("optional", b) = take_optional(t, take_fixed(q))
      BY <1>2, <3>1, <3>5
    <3>8. take_optional(t, take_fixed(q)) = Took(<<n>>, r)
      BY <3>4, <3>6, OptionalIs
    <3> QED BY <2>1, <3>1, <3>7, <3>8
  <2> QED BY <2>1, <2>3, <2>4, <2>5 DEF Taken
<1>5. ASSUME NEW b \in Strings PROVE Recognised("optional", b)
  <2> SUFFICES ASSUME TakeField("optional", b) # Fail
               PROVE  \E v, r : /\ Encodable("optional", v) /\ r \in Strings
                                /\ b = PutField("optional", v) \o r
    BY DEF Recognised
  <2>1. PICK t, i : t = take_fixed(b) /\ i = take_fixed(t.rest)
    OBVIOUS
  <2>2. take_optional(t, i) # Fail
    BY <1>2, <2>1
  <2>3. PICK k \in Nat, q \in Strings : b = <<k>> \o q /\ t = Took(k, q)
    BY <2>1, <2>2, FixedIs, OptionalIs
  <2>4. t.rest = q
    BY <2>3, Outcomes
  <2>5. CASE k = Absent
    <3>1. Encodable("optional", <<>>) /\ PutField("optional", <<>>) = <<Absent>>
      BY <1>1, <1>2
    <3> QED BY <2>3, <2>5, <3>1
  <2>6. CASE k = Present
    <3>1. i # Fail
      BY <2>2, <2>3, <2>6, OptionalIs
    <3>2. PICK n \in Nat, r \in Strings : q = <<n>> \o r
      BY <2>1, <2>4, <3>1, FixedIs
    <3>3. PICK v : v = <<n>>
      OBVIOUS
    <3>4. v # <<>> /\ v[1] = n /\ v = <<v[1]>> /\ v \in Strings
      BY <3>3, OneOf, OneToken
    <3>5. Encodable("optional", v)
      BY <1>1, <3>4
    <3>6. PutField("optional", v) = <<Present>> \o v
      <4>1. PutField("optional", v) = <<Present, n>>
        BY <1>2, <3>4
      <4>2. <<Present, n>> = <<Present>> \o <<n>>
        BY Presence, TwoTokens
      <4> QED BY <3>3, <4>1, <4>2
    <3>7. PICK h : h = <<Present>>
      OBVIOUS
    <3>8. h \in Seq(Nat) /\ v \in Seq(Nat) /\ r \in Seq(Nat)
      BY <3>4, <3>7, OneToken, Presence DEF Strings
    <3>9. b = (h \o v) \o r
      <4>1. b = h \o (v \o r)
        BY <2>3, <2>6, <3>2, <3>3, <3>7
      <4>2. h \o (v \o r) = (h \o v) \o r
        <5>1. h \in Strings /\ v \in Strings /\ r \in Strings
          BY <3>8 DEF Strings
        <5> QED BY <5>1, RegroupAll
      <4> QED BY <4>1, <4>2
    <3> QED BY <3>5, <3>6, <3>7, <3>9
  <2>7. k = Absent \/ k = Present
    BY <2>2, <2>3, OptionalIs
  <2> QED BY <2>5, <2>6, <2>7
<1>6. ASSUME NEW v, Encodable("optional", v) PROVE Taken("optional", v)
  <2>1. CASE v = <<>>
    BY <1>3, <2>1
  <2>2. CASE v # <<>>
    <3>1. PICK n : n = v[1]
      OBVIOUS
    <3>2. v = <<n>> /\ n \in Nat
      BY <1>1, <1>6, <2>2, <3>1
    <3> QED BY <1>4, <3>2
  <2> QED BY <2>1, <2>2
<1> QED BY <1>5, <1>6

LEMMA OptionalNoteField ==
  /\ \A v : Encodable("optional note", v) => Taken("optional note", v)
  /\ \A b \in Strings : Recognised("optional note", b)
<1>1. \A v : Encodable("optional note", v) <=>
               v = <<>> \/ (v = <<v[1]>> /\ v[1] \in Nat /\ 1 <= MaxBytes)
  BY DEF Encodable
<1>2. \A v, b : /\ PutField("optional note", v) =
                     IF v = <<>> THEN <<Absent>> ELSE <<Present>> \o encoded_note_to_wire(v[1])
                /\ TakeField("optional note", b) =
                     take_optional(take_fixed(b), encoded_note_from_wire(take_fixed(b).rest))
  BY DEF PutField, TakeField
<1>3. Taken("optional note", <<>>)
  <2>1. PutField("optional note", <<>>) = <<Absent>> /\ <<Absent>> \in Strings
    BY <1>2, OneToken, Presence
  <2>2. ASSUME NEW r \in Strings PROVE TakeField("optional note", <<Absent>> \o r) = Took(<<>>, r)
    <3>1. PICK b, t : b = <<Absent>> \o r /\ t = take_fixed(b)
      OBVIOUS
    <3>2. t = Took(Absent, r)
      BY <3>1, FixedTaken, Presence
    <3>3. take_optional(t, encoded_note_from_wire(t.rest)) = Took(<<>>, r)
      BY <3>2, OptionalIs
    <3> QED BY <1>2, <3>1, <3>3
  <2> QED BY <2>1, <2>2 DEF Taken
<1>4. ASSUME NEW n \in Nat, 1 <= MaxBytes PROVE Taken("optional note", <<n>>)
  <2>1. PICK v, h, e : v = <<n>> /\ h = <<Present>> /\ e = encoded_note_to_wire(n)
    OBVIOUS
  <2>2. v # <<>> /\ v[1] = n /\ h \in Strings
    BY <2>1, OneOf, OneToken, Presence
  <2>3. PutField("optional note", v) = h \o e
    BY <1>2, <2>1, <2>2
  <2>4. e \in Strings /\ h \o e \in Strings
        /\ \A r \in Strings : encoded_note_from_wire(e \o r) = Took(n, r)
    <3>1. e \in Strings /\ \A r \in Strings : encoded_note_from_wire(e \o r) = Took(n, r)
      BY <1>4, <2>1, NoteTaken
    <3> QED BY <2>2, <3>1, Regroup, NothingFollows
  <2>5. ASSUME NEW r \in Strings PROVE TakeField("optional note", (h \o e) \o r) = Took(v, r)
    <3>1. PICK b, t, q : b = (h \o e) \o r /\ t = take_fixed(b) /\ q = e \o r
      OBVIOUS
    <3>2. b = h \o q /\ q \in Strings
      BY <2>2, <2>4, <3>1, Regroup
    <3>4. t = Took(Present, q)
      BY <2>1, <3>1, <3>2, FixedTaken, Presence
    <3>5. t.rest = q
      BY <3>4, Outcomes
    <3>6. encoded_note_from_wire(q) = Took(n, r)
      BY <2>4, <3>1
    <3>7. TakeField("optional note", b) = take_optional(t, encoded_note_from_wire(q))
      BY <1>2, <3>1, <3>5
    <3>8. take_optional(t, encoded_note_from_wire(q)) = Took(<<n>>, r)
      BY <3>4, <3>6, OptionalIs
    <3> QED BY <2>1, <3>1, <3>7, <3>8
  <2> QED BY <2>1, <2>3, <2>4, <2>5 DEF Taken
<1>5. ASSUME NEW b \in Strings PROVE Recognised("optional note", b)
  <2> SUFFICES ASSUME TakeField("optional note", b) # Fail
               PROVE  \E v, r : /\ Encodable("optional note", v) /\ r \in Strings
                                /\ b = PutField("optional note", v) \o r
    BY DEF Recognised
  <2>1. PICK t, i : t = take_fixed(b) /\ i = encoded_note_from_wire(t.rest)
    OBVIOUS
  <2>2. take_optional(t, i) # Fail
    BY <1>2, <2>1
  <2>3. PICK k \in Nat, q \in Strings : b = <<k>> \o q /\ t = Took(k, q)
    BY <2>1, <2>2, FixedIs, OptionalIs
  <2>4. t.rest = q
    BY <2>3, Outcomes
  <2>5. CASE k = Absent
    <3>1. Encodable("optional note", <<>>) /\ PutField("optional note", <<>>) = <<Absent>>
      BY <1>1, <1>2
    <3> QED BY <2>3, <2>5, <3>1
  <2>6. CASE k = Present
    <3>1. i # Fail
      BY <2>2, <2>3, <2>6, OptionalIs
    <3>2. PICK n \in Nat, r \in Strings : q = encoded_note_to_wire(n) \o r /\ 1 <= MaxBytes
      BY <2>1, <2>4, <3>1, NoteIs
    <3>3. PICK v, h, e : v = <<n>> /\ h = <<Present>> /\ e = encoded_note_to_wire(n)
      OBVIOUS
    <3>4. v # <<>> /\ v[1] = n /\ v = <<v[1]>>
      BY <3>3, OneOf
    <3>5. Encodable("optional note", v)
      BY <1>1, <3>2, <3>4
    <3>6. PutField("optional note", v) = h \o e
      BY <1>2, <3>3, <3>4
    <3>7. h \in Strings /\ e \in Strings
      BY <3>2, <3>3, OneToken, Presence, NoteTaken
    <3>8. b = h \o (e \o r)
      BY <2>3, <2>6, <3>2, <3>3
    <3>9. h \o (e \o r) = (h \o e) \o r
      <4>1. h \in Strings /\ e \in Strings /\ r \in Strings
        BY <3>7
      <4> QED BY <4>1, RegroupAll, ZenonT(30)
    <3> QED BY <3>5, <3>6, <3>8, <3>9
  <2>7. k = Absent \/ k = Present
    BY <2>2, <2>3, OptionalIs
  <2> QED BY <2>5, <2>6, <2>7
<1>6. ASSUME NEW v, Encodable("optional note", v) PROVE Taken("optional note", v)
  <2>1. CASE v = <<>>
    BY <1>3, <2>1
  <2>2. CASE v # <<>>
    <3>1. PICK n : n = v[1]
      OBVIOUS
    <3>2. v = <<n>> /\ n \in Nat /\ 1 <= MaxBytes
      BY <1>1, <1>6, <2>2, <3>1
    <3> QED BY <1>4, <3>2
  <2> QED BY <2>1, <2>2
<1> QED BY <1>5, <1>6

-----------------------------------------------------------------------------
\* A table of tags: no two kinds have the same one.
Tags(tags) ==
  /\ \A k \in DOMAIN tags : tags[k] \in Nat
  /\ \A k, l \in DOMAIN tags : tags[k] = tags[l] => k = l

Kinds == {"Shield", "Transfer", "Unshield", "ConfigureVerifier", "ConfigureBridge"}

LEMMA KindTags == Tags(KindTag) /\ DOMAIN KindTag = Kinds
<1>1. DOMAIN KindTag = Kinds
  BY DEF KindTag, Kinds
<1>2. /\ KindTag["Shield"] = 0 /\ KindTag["Transfer"] = 1 /\ KindTag["Unshield"] = 2
      /\ KindTag["ConfigureVerifier"] = 3 /\ KindTag["ConfigureBridge"] = 4
  BY DEF KindTag
<1> QED BY <1>1, <1>2 DEF Tags, Kinds

LEMMA MessageTags ==
  /\ Tags(MessageTag)
  /\ DOMAIN MessageTag = Kinds \cup {"DalPointer"}
<1>1. DOMAIN MessageTag = Kinds \cup {"DalPointer"}
  BY DEF MessageTag, Kinds
<1>2. /\ MessageTag["ConfigureVerifier"] = 0 /\ MessageTag["ConfigureBridge"] = 1
      /\ MessageTag["Shield"] = 2 /\ MessageTag["Transfer"] = 3
      /\ MessageTag["Unshield"] = 4 /\ MessageTag["DalPointer"] = 6
  BY DEF MessageTag
<1> QED BY <1>1, <1>2 DEF Tags, Kinds

LEMMA ResultTags ==
  /\ Tags(ResultTag)
  /\ DOMAIN ResultTag = {"Configured", "Deposit", "Shield", "Transfer", "Unshield", "Error"}
<1>1. DOMAIN ResultTag = {"Configured", "Deposit", "Shield", "Transfer", "Unshield", "Error"}
  BY DEF ResultTag
<1>2. /\ ResultTag["Configured"] = 0 /\ ResultTag["Deposit"] = 1
      /\ ResultTag["Shield"] = 2 /\ ResultTag["Transfer"] = 3
      /\ ResultTag["Unshield"] = 4 /\ ResultTag["Error"] = 255
  BY DEF ResultTag
<1> QED BY <1>1, <1>2 DEF Tags

LEMMA TagKind ==
  ASSUME NEW tags, Tags(tags), NEW k \in DOMAIN tags, NEW t, t.ok, t.value = tags[k]
  PROVE  /\ {l \in DOMAIN tags : t.ok /\ tags[l] = t.value} = {k}
         /\ (CHOOSE l \in {k} : TRUE) = k
<1>1. \A l \in DOMAIN tags : tags[l] = tags[k] => l = k
  BY DEF Tags
<1> QED BY <1>1

LEMMA KindField ==
  /\ \A v : Encodable("kind", v) => Taken("kind", v)
  /\ \A b \in Strings : Recognised("kind", b)
<1>1. \A v : Encodable("kind", v) <=> v \in DOMAIN KindTag
  BY DEF Encodable
<1>2. \A v, b : PutField("kind", v) = <<KindTag[v]>> /\ TakeField("kind", b) = kind_from_wire(b)
  BY DEF PutField, TakeField
<1>3. ASSUME NEW v \in DOMAIN KindTag PROVE Taken("kind", v)
  <2>1. KindTag[v] \in Nat
    BY KindTags DEF Tags
  <2>2. ASSUME NEW r \in Strings PROVE kind_from_wire(<<KindTag[v]>> \o r) = Took(v, r)
    <3>1. PICK b, t : b = <<KindTag[v]>> \o r /\ t = take_fixed(b)
      OBVIOUS
    <3>2. t = Took(KindTag[v], r)
      BY <2>1, <3>1, FixedTaken
    <3>3. t.ok /\ t.value = KindTag[v] /\ t.rest = r
      BY <3>2, Outcomes
    <3>4. /\ {l \in DOMAIN KindTag : t.ok /\ KindTag[l] = t.value} = {v}
          /\ (CHOOSE l \in {v} : TRUE) = v
      BY <3>3, KindTags, TagKind
    <3>5. kind_from_wire(b) = Took(v, t.rest)
      BY <3>1, <3>4 DEF kind_from_wire
    <3> QED BY <3>1, <3>3, <3>5
  <2> QED BY <1>2, <2>1, <2>2, OneToken DEF Taken
<1>4. ASSUME NEW b \in Strings PROVE Recognised("kind", b)
  <2> SUFFICES ASSUME TakeField("kind", b) # Fail
               PROVE  \E v, r : /\ Encodable("kind", v) /\ r \in Strings
                                /\ b = PutField("kind", v) \o r
    BY DEF Recognised
  <2>1. PICK t : t = take_fixed(b)
    OBVIOUS
  <2>2. PICK k \in DOMAIN KindTag : t.ok /\ KindTag[k] = t.value
    <3>1. {l \in DOMAIN KindTag : t.ok /\ KindTag[l] = t.value} # {}
      BY <1>2, <2>1 DEF kind_from_wire
    <3> QED BY <3>1
  <2>3. t # Fail
    BY <2>2, Outcomes
  <2>4. PICK n \in Nat, r \in Strings : b = <<n>> \o r /\ t = Took(n, r)
    BY <2>1, <2>3, FixedIs
  <2>5. n = KindTag[k]
    BY <2>2, <2>4, Outcomes
  <2> QED BY <1>1, <1>2, <2>4, <2>5
<1> QED BY <1>1, <1>3, <1>4

\* The pointers that some tokens stand for.
PointerAt(w, i) ==
  [published_level |-> w[3 * i - 2], slot_index |-> w[3 * i - 1], payload_len |-> w[3 * i]]
PointersOf(w) == [i \in 1..(Len(w) \div 3) |-> PointerAt(w, i)]

LEMMA ChunkList ==
  ASSUME NEW b, NEW items, items = decode_tze(take_dynamic(b, MaxChunks))
  PROVE  kernel_dal_chunk_list_from_wire(b) =
           IF \/ ~items.ok \/ Len(items.value) \div 3 = 0
              \/ Len(items.value) # 3 * (Len(items.value) \div 3)
           THEN Fail ELSE Took(PointersOf(items.value), <<>>)
BY DEF kernel_dal_chunk_list_from_wire, PointersOf, PointerAt

LEMMA ChunksWhole ==
  ASSUME NEW v \in Seq(Pointer), 1 <= Len(v), 3 * Len(v) <= MaxChunks
  PROVE  /\ kernel_dal_chunk_list_from_wire(put_dynamic(Triples(v))) = Took(v, <<>>)
         /\ Triples(v) \in Strings /\ Len(Triples(v)) = 3 * Len(v)
<1>1. PICK w, b, items, n : w = Triples(v) /\ b = put_dynamic(w) /\ n = Len(v)
                         /\ items = decode_tze(take_dynamic(b, MaxChunks))
  OBVIOUS
<1>2. /\ w \in Strings /\ Len(w) = 3 * n /\ n \in Nat
      /\ \A i \in 1..n : /\ w[3 * i - 2] = v[i].published_level
                         /\ w[3 * i - 1] = v[i].slot_index
                         /\ w[3 * i] = v[i].payload_len
  BY <1>1, TriplesAre, LenProperties DEF AreTriples
<1>3. items = Took(w, <<>>)
  <2>1. MaxChunks \in Nat /\ Len(w) <= MaxChunks
    BY <1>1, <1>2, WireAssumption
  <2> QED BY <1>1, <1>2, <2>1, DynamicWhole
<1>4. items.ok /\ items.value = w
  BY <1>3, Outcomes
<1>5. Len(w) \div 3 = n /\ n # 0
  BY <1>1, <1>2
<1>6. kernel_dal_chunk_list_from_wire(b) = Took(PointersOf(w), <<>>)
  BY <1>1, <1>2, <1>4, <1>5, ChunkList
<1>7. PointersOf(w) = v
  <2>1. PointersOf(w) = [i \in 1..n |-> PointerAt(w, i)]
    BY <1>5 DEF PointersOf
  <2>2. v = [i \in 1..n |-> v[i]] /\ \A i \in 1..n : v[i] \in Pointer
    BY <1>1, LenProperties, ElementOfSeq
  <2>3. ASSUME NEW i \in 1..n PROVE PointerAt(w, i) = v[i]
    <3>1. v[i] \in Pointer
      BY <2>2
    <3>2. v[i] = [published_level |-> v[i].published_level, slot_index |-> v[i].slot_index,
                  payload_len |-> v[i].payload_len]
      BY <3>1 DEF Pointer
    <3> QED BY <1>2, <3>2 DEF PointerAt
  <2> QED BY <2>1, <2>2, <2>3
<1> QED BY <1>1, <1>2, <1>6, <1>7

LEMMA ChunksWholeIs ==
  ASSUME NEW b \in Strings, kernel_dal_chunk_list_from_wire(b) # Fail
  PROVE  \E v \in Seq(Pointer) : /\ b = put_dynamic(Triples(v)) /\ 1 <= Len(v)
                                 /\ 3 * Len(v) <= MaxChunks
<1>1. PICK items : items = decode_tze(take_dynamic(b, MaxChunks))
  OBVIOUS
<1>2. /\ items.ok /\ Len(items.value) \div 3 # 0
      /\ Len(items.value) = 3 * (Len(items.value) \div 3)
  BY <1>1, ChunkList
<1>3. items # Fail /\ MaxChunks \in Nat
  BY <1>2, Outcomes, WireAssumption
<1>4. PICK w \in Strings : b = put_dynamic(w) /\ Len(w) <= MaxChunks
  BY <1>1, <1>3, DynamicWholeIs
<1>5. items = Took(w, <<>>)
  BY <1>1, <1>3, <1>4, DynamicWhole
<1>6. items.value = w
  BY <1>5, Outcomes
<1>7. PICK n, v : n = Len(w) \div 3 /\ v = PointersOf(w)
  OBVIOUS
<1>8. n \in Nat \ {0} /\ Len(w) = 3 * n /\ w \in Seq(Nat)
  BY <1>2, <1>6, <1>7, LenProperties DEF Strings
<1>9. v \in Seq(Pointer) /\ Len(v) = n /\ \A i \in 1..n : v[i] = PointerAt(w, i)
  <2>1. ASSUME NEW i \in 1..n PROVE PointerAt(w, i) \in Pointer
    <3>1. 3 * i - 2 \in 1..Len(w) /\ 3 * i - 1 \in 1..Len(w) /\ 3 * i \in 1..Len(w)
      BY <1>8
    <3>2. w[3 * i - 2] \in Nat /\ w[3 * i - 1] \in Nat /\ w[3 * i] \in Nat
      BY <1>8, <3>1, ElementOfSeq
    <3> QED BY <3>2 DEF PointerAt, Pointer
  <2>2. v = [i \in 1..n |-> PointerAt(w, i)]
    BY <1>7 DEF PointersOf
  <2>3. v \in [1..n -> Pointer]
    BY <2>1, <2>2
  <2> QED BY <1>8, <2>2, <2>3, FunctionIsSeq
<1>10. PICK u : u = Triples(v)
  OBVIOUS
<1>11. /\ u \in Seq(Nat) /\ Len(u) = 3 * n
       /\ \A i \in 1..n : /\ u[3 * i - 2] = w[3 * i - 2]
                          /\ u[3 * i - 1] = w[3 * i - 1]
                          /\ u[3 * i] = w[3 * i]
  <2>1. AreTriples(v)
    BY <1>9, TriplesAre
  <2>2. \A i \in 1..n : /\ v[i].published_level = w[3 * i - 2]
                        /\ v[i].slot_index = w[3 * i - 1]
                        /\ v[i].payload_len = w[3 * i]
    BY <1>9 DEF PointerAt
  <2> QED BY <1>9, <1>10, <2>1, <2>2 DEF AreTriples, Strings
<1>12. ASSUME NEW j \in 1..(3 * n) PROVE u[j] = w[j]
  <2>1. PICK i \in 1..n : j = 3 * i - 2 \/ j = 3 * i - 1 \/ j = 3 * i
    <3>1. /\ (j + 2) \div 3 \in 1..n
          /\ \/ j = 3 * ((j + 2) \div 3) - 2 \/ j = 3 * ((j + 2) \div 3) - 1
             \/ j = 3 * ((j + 2) \div 3)
      BY <1>8
    <3> QED BY <3>1
  <2> QED BY <1>11, <2>1
<1>13. u = w
  BY <1>8, <1>11, <1>12, SeqEqual
<1>14. b = put_dynamic(Triples(v))
  BY <1>4, <1>10, <1>13
<1>15. 1 <= Len(v) /\ 3 * Len(v) <= MaxChunks
  BY <1>4, <1>8, <1>9
<1> QED BY <1>9, <1>14, <1>15

LEMMA ChunksField ==
  /\ \A v : Encodable("chunks", v) => Taken("chunks", v)
  /\ \A b \in Strings : Recognised("chunks", b)
<1>1. \A v : Encodable("chunks", v) <=>
               /\ v \in Seq(Pointer) /\ 1 <= Len(v)
               /\ 3 * Len(v) <= MaxChunks /\ 3 * Len(v) + 1 <= MaxBytes
  BY DEF Encodable
<1>2. \A v, b : /\ PutField("chunks", v) = put_dynamic(put_dynamic(Triples(v)))
                /\ TakeField("chunks", b) =
                     Inner(take_dynamic(b, MaxBytes),
                           kernel_dal_chunk_list_from_wire(take_dynamic(b, MaxBytes).value))
  BY DEF PutField, TakeField, Triples, Triple
<1>3. ASSUME NEW v, Encodable("chunks", v) PROVE Taken("chunks", v)
  <2>1. PICK w, u : w = Triples(v) /\ u = put_dynamic(w)
    OBVIOUS
  <2>2. /\ kernel_dal_chunk_list_from_wire(u) = Took(v, <<>>)
        /\ w \in Strings /\ Len(w) = 3 * Len(v)
    BY <1>1, <1>3, <2>1, ChunksWhole
  <2>3. u \in Strings /\ Len(u) <= MaxBytes
    <3>1. u \in Strings /\ Len(u) = Len(w) + 1
      BY <2>1, <2>2, DynamicPut
    <3> QED BY <1>1, <1>3, <2>2, <3>1
  <2>4. ASSUME NEW r \in Strings PROVE TakeField("chunks", put_dynamic(u) \o r) = Took(v, r)
    <3>1. take_dynamic(put_dynamic(u) \o r, MaxBytes) = Took(u, r)
      BY <2>3, DynamicTaken, WireAssumption
    <3>2. take_dynamic(put_dynamic(u) \o r, MaxBytes).value = u
      BY <3>1, Outcomes
    <3> QED BY <1>2, <2>2, <3>1, <3>2, InnerIs
  <2> QED BY <1>2, <2>1, <2>3, <2>4, DynamicPut DEF Taken
<1>4. ASSUME NEW b \in Strings PROVE Recognised("chunks", b)
  <2> SUFFICES ASSUME TakeField("chunks", b) # Fail
               PROVE  \E v, r : /\ Encodable("chunks", v) /\ r \in Strings
                                /\ b = PutField("chunks", v) \o r
    BY DEF Recognised
  <2>1. PICK t : t = take_dynamic(b, MaxBytes)
    OBVIOUS
  <2>2. t # Fail /\ kernel_dal_chunk_list_from_wire(t.value) # Fail
    BY <1>2, <2>1, InnerIs
  <2>3. PICK u \in Strings, r \in Strings :
          b = put_dynamic(u) \o r /\ Len(u) <= MaxBytes /\ t = Took(u, r)
    BY <2>1, <2>2, DynamicIs, WireAssumption
  <2>4. t.value = u
    BY <2>3, Outcomes
  <2>5. PICK v \in Seq(Pointer) : /\ u = put_dynamic(Triples(v)) /\ 1 <= Len(v)
                                  /\ 3 * Len(v) <= MaxChunks
    BY <2>2, <2>4, ChunksWholeIs
  <2>6. 3 * Len(v) + 1 <= MaxBytes
    <3>1. Triples(v) \in Strings /\ Len(Triples(v)) = 3 * Len(v)
      BY <2>5, ChunksWhole
    <3>2. Len(u) = Len(Triples(v)) + 1
      BY <2>5, <3>1, DynamicPut
    <3> QED BY <2>3, <3>1, <3>2
  <2>7. Encodable("chunks", v)
    BY <1>1, <2>5, <2>6
  <2> QED BY <1>2, <2>3, <2>5, <2>7
<1> QED BY <1>3, <1>4

-----------------------------------------------------------------------------
(***************************************************************************)
(* A whole layout.                                                         *)
(***************************************************************************)
FieldTypes ==
  {"fixed", "string", "felts", "proof", "note", "optional note", "optional", "kind", "chunks"}

LEMMA AnyField ==
  ASSUME NEW field \in FieldTypes
  PROVE  /\ \A v : Encodable(field, v) => Taken(field, v)
         /\ \A b \in Strings : Recognised(field, b)
BY FixedField, StringField, FeltsField, ProofField, NoteField, OptionalNoteField,
   OptionalField, KindField, ChunksField DEF FieldTypes

FieldValues ==
  ((Nat \cup Strings) \cup (Strings \X Strings)) \cup (Kinds \cup Seq(Pointer))

LEMMA ValueIs ==
  ASSUME NEW field \in FieldTypes, NEW v, Encodable(field, v)
  PROVE  v \in FieldValues
<1>1. CASE field = "fixed"
  BY <1>1 DEF Encodable, FieldValues
<1>2. CASE field = "string"
  BY <1>2 DEF Encodable, FieldValues
<1>3. CASE field = "felts"
  BY <1>3 DEF Encodable, FieldValues
<1>4. CASE field = "proof"
  <2>1. v = <<v[1], v[2]>> /\ v[1] \in Strings /\ v[2] \in Strings
    BY <1>4 DEF Encodable
  <2>2. v \in Strings \X Strings
    BY <2>1
  <2> QED BY <2>2 DEF FieldValues
<1>5. CASE field = "note"
  BY <1>5 DEF Encodable, FieldValues
<1>6. CASE field \in {"optional note", "optional"}
  <2>1. v = <<>> \/ (v = <<v[1]>> /\ v[1] \in Nat)
    BY <1>6 DEF Encodable
  <2>2. v \in Strings
    BY <2>1, OneToken, NothingFollows
  <2> QED BY <2>2 DEF FieldValues
<1>7. CASE field = "kind"
  BY <1>7, KindTags DEF Encodable, FieldValues
<1>8. CASE field = "chunks"
  BY <1>8 DEF Encodable, FieldValues
<1> QED BY <1>1, <1>2, <1>3, <1>4, <1>5, <1>6, <1>7, <1>8 DEF FieldTypes

\* A value for each of the first n fields of a layout.
Typed(layout, fields, n) ==
  /\ fields \in Seq(FieldValues) /\ Len(fields) = n
  /\ \A i \in 1..n : Encodable(layout[i], fields[i])

Encodings(layout, fields) == [i \in DOMAIN fields |-> PutField(layout[i], fields[i])]

LEMMA EncodingsAre ==
  ASSUME NEW layout \in Seq(FieldTypes), NEW n \in 0..Len(layout), NEW fields, Typed(layout, fields, n)
  PROVE  /\ Encodings(layout, fields) \in Seq(Strings) /\ Len(Encodings(layout, fields)) = n
         /\ \A i \in 1..n : Encodings(layout, fields)[i] = PutField(layout[i], fields[i])
         /\ PutFields(layout, fields) = FlattenSeq(Encodings(layout, fields))
         /\ PutFields(layout, fields) \in Strings
<1>1. n \in Nat /\ DOMAIN fields = 1..n
  BY LenProperties DEF Typed
<1>2. PICK e : e = Encodings(layout, fields)
  OBVIOUS
<1>3. e = [i \in 1..n |-> PutField(layout[i], fields[i])]
  BY <1>1, <1>2 DEF Encodings
<1>4. ASSUME NEW i \in 1..n PROVE PutField(layout[i], fields[i]) \in Strings
  <2>1. i \in 1..Len(layout)
    BY <1>1, LenProperties
  <2>2. layout[i] \in FieldTypes /\ Encodable(layout[i], fields[i])
    BY <2>1, ElementOfSeq DEF Typed
  <2> QED BY <2>2, AnyField DEF Taken
<1>5. e \in [1..n -> Strings]
  BY <1>3, <1>4
<1>6. e \in Seq(Strings) /\ Len(e) = n
  BY <1>1, <1>5, FunctionIsSeq
<1>7. PutFields(layout, fields) = FlattenSeq(e)
  BY <1>2 DEF PutFields, Encodings
<1>8. FlattenSeq(e) \in Strings
  BY <1>6, FlattenIs
<1> QED BY <1>2, <1>3, <1>6, <1>7, <1>8

LEMMA NoFields ==
  ASSUME NEW layout \in Seq(FieldTypes), NEW fields, Typed(layout, fields, 0)
  PROVE  fields = <<>> /\ PutFields(layout, fields) = <<>>
<1>1. fields = <<>>
  BY EmptySeq DEF Typed
<1>2. 0 \in 0..Len(layout)
  BY LenProperties
<1>3. PutFields(layout, fields) = FlattenSeq(Encodings(layout, fields))
      /\ Encodings(layout, fields) \in Seq(Strings) /\ Len(Encodings(layout, fields)) = 0
  BY <1>2, EncodingsAre
<1> QED BY <1>1, <1>3, FlattenEmpty

LEMMA NoneTyped ==
  ASSUME NEW layout
  PROVE  Typed(layout, <<>>, 0)
<1>1. <<>> \in Seq(FieldValues) /\ Len(<<>>) = 0 /\ 1..0 = {}
  BY EmptySeq
<1> QED BY <1>1 DEF Typed

LEMMA OneMore ==
  ASSUME NEW layout \in Seq(FieldTypes), NEW n \in Nat, n + 1 <= Len(layout),
         NEW fields, Typed(layout, fields, n), NEW v, Encodable(layout[n + 1], v)
  PROVE  /\ Typed(layout, Append(fields, v), n + 1)
         /\ PutFields(layout, fields) \in Strings /\ PutField(layout[n + 1], v) \in Strings
         /\ PutFields(layout, Append(fields, v)) = PutFields(layout, fields) \o PutField(layout[n + 1], v)
<1>1. /\ n + 1 \in 1..Len(layout) /\ n \in 0..Len(layout) /\ n + 1 \in 0..Len(layout)
      /\ layout[n + 1] \in FieldTypes
  <2>1. Len(layout) \in Nat
    BY LenProperties
  <2>2. n + 1 \in 1..Len(layout)
    BY <2>1
  <2> QED BY <2>1, <2>2, ElementOfSeq
<1>2. v \in FieldValues /\ PutField(layout[n + 1], v) \in Strings
  BY <1>1, ValueIs, AnyField DEF Taken
<1>3. PICK g, p : g = Append(fields, v) /\ p = PutField(layout[n + 1], v)
  OBVIOUS
<1>4. /\ g \in Seq(FieldValues) /\ Len(g) = n + 1
      /\ \A i \in 1..n : g[i] = fields[i]
      /\ g[n + 1] = v
  BY <1>2, <1>3, AppendProperties DEF Typed
<1>5. Typed(layout, g, n + 1)
  <2>1. ASSUME NEW i \in 1..(n + 1) PROVE Encodable(layout[i], g[i])
    <3>1. CASE i = n + 1
      BY <1>4, <3>1
    <3>2. CASE i # n + 1
      <4>1. i \in 1..n
        BY <3>2
      <4> QED BY <1>4, <4>1 DEF Typed
    <3> QED BY <3>1, <3>2
  <2> QED BY <1>4, <2>1 DEF Typed
<1>6. PICK e, f : e = Encodings(layout, fields) /\ f = Encodings(layout, g)
  OBVIOUS
<1>7. /\ e \in Seq(Strings) /\ Len(e) = n
      /\ \A i \in 1..n : e[i] = PutField(layout[i], fields[i])
      /\ PutFields(layout, fields) = FlattenSeq(e)
      /\ PutFields(layout, fields) \in Strings
  BY <1>1, <1>6, EncodingsAre
<1>8. /\ f \in Seq(Strings) /\ Len(f) = n + 1
      /\ \A i \in 1..(n + 1) : f[i] = PutField(layout[i], g[i])
      /\ PutFields(layout, g) = FlattenSeq(f)
  BY <1>1, <1>5, <1>6, EncodingsAre
<1>9. f = Append(e, p)
  <2>1. PICK a : a = Append(e, p)
    OBVIOUS
  <2>2. /\ a \in Seq(Strings) /\ Len(a) = n + 1
        /\ \A i \in 1..n : a[i] = e[i]
        /\ a[n + 1] = p
    BY <1>2, <1>3, <1>7, <2>1, AppendProperties
  <2>3. ASSUME NEW i \in 1..(n + 1) PROVE f[i] = a[i]
    <3>1. CASE i = n + 1
      BY <1>3, <1>4, <1>8, <2>2, <3>1
    <3>2. CASE i # n + 1
      <4>1. i \in 1..n
        BY <3>2
      <4> QED BY <1>4, <1>7, <1>8, <2>2, <4>1
    <3> QED BY <3>1, <3>2
  <2>4. f = a
    BY <1>8, <2>2, <2>3, SeqEqual
  <2> QED BY <2>1, <2>4
<1>10. FlattenSeq(f) = FlattenSeq(e) \o p
  BY <1>2, <1>3, <1>7, <1>9, FlattenAppend
<1> QED BY <1>2, <1>3, <1>5, <1>7, <1>8, <1>10

LEMMA OneLess ==
  ASSUME NEW layout \in Seq(FieldTypes), NEW n \in Nat, NEW fields, Typed(layout, fields, n + 1)
  PROVE  \E g, v : /\ fields = Append(g, v) /\ Typed(layout, g, n) /\ Encodable(layout[n + 1], v)
<1>1. fields \in Seq(FieldValues) /\ Len(fields) = n + 1 /\ fields # <<>>
  BY EmptySeq DEF Typed
<1>2. PICK g \in Seq(FieldValues), v \in FieldValues : fields = Append(g, v)
  BY <1>1, SequenceEmptyOrAppend
<1>3. /\ Len(g) \in Nat /\ Len(fields) = Len(g) + 1
      /\ \A i \in 1..Len(g) : fields[i] = g[i]
      /\ fields[Len(g) + 1] = v
  BY <1>2, AppendProperties, LenProperties
<1>4. Len(g) = n
  BY <1>1, <1>3
<1>5. Typed(layout, g, n)
  <2>1. ASSUME NEW i \in 1..n PROVE Encodable(layout[i], g[i])
    <3>1. i \in 1..(n + 1) /\ fields[i] = g[i]
      BY <1>3, <1>4
    <3> QED BY <3>1 DEF Typed
  <2> QED BY <1>2, <1>4, <2>1 DEF Typed
<1>6. Encodable(layout[n + 1], v)
  <2>1. n + 1 \in 1..(n + 1)
    OBVIOUS
  <2>2. Encodable(layout[n + 1], fields[n + 1])
    BY <2>1 DEF Typed
  <2> QED BY <1>3, <1>4, <2>2
<1> QED BY <1>2, <1>5, <1>6

LEMMA PrefixSteps ==
  ASSUME NEW layout \in Seq(FieldTypes), NEW b
  PROVE  /\ TakePrefixes(layout, b)[0] = Took(<<>>, b)
         /\ \A i \in 1..Len(layout) :
              TakePrefixes(layout, b)[i] = TakeNext(TakePrefixes(layout, b)[i - 1], layout[i])
<1> DEFINE Is(m, f) == f = [i \in 0..m |-> IF i = 0 THEN Took(<<>>, b) ELSE TakeNext(f[i - 1], layout[i])]
           T == {m \in Nat : \E f : Is(m, f)}
           f0 == CHOOSE f : Is(Len(layout), f)
<1>f. TakePrefixes(layout, b) = f0
  BY DEF TakePrefixes
<1>1. 0 \in T
  <2>1. Is(0, [i \in 0..0 |-> Took(<<>>, b)])
    OBVIOUS
  <2> HIDE DEF Is
  <2> QED BY <2>1
<1>2. ASSUME NEW m \in Nat, m \in T PROVE m + 1 \in T
  <2>1. PICK f : Is(m, f)
    BY <1>2
  <2> DEFINE g == [i \in 0..(m + 1) |-> IF i = m + 1 THEN TakeNext(f[m], layout[m + 1]) ELSE f[i]]
  <2>2. ASSUME NEW i \in 0..(m + 1)
        PROVE  g[i] = IF i = 0 THEN Took(<<>>, b) ELSE TakeNext(g[i - 1], layout[i])
    <3>1. CASE i = m + 1
      <4>1. i - 1 = m /\ i - 1 \in 0..(m + 1) /\ i - 1 # m + 1 /\ i # 0
        BY <3>1
      <4>2. g[i - 1] = f[m] /\ g[i] = TakeNext(f[m], layout[m + 1])
        BY <3>1, <4>1
      <4> HIDE DEF g
      <4> QED BY <3>1, <4>1, <4>2
    <3>2. CASE i # m + 1
      <4>1. i \in 0..m /\ g[i] = f[i]
        BY <3>2
      <4>2. f[i] = IF i = 0 THEN Took(<<>>, b) ELSE TakeNext(f[i - 1], layout[i])
        BY <2>1, <4>1
      <4>3. i # 0 => i - 1 \in 0..(m + 1) /\ i - 1 # m + 1
        BY <4>1
      <4>4. i # 0 => g[i - 1] = f[i - 1]
        BY <4>3
      <4> HIDE DEF g
      <4> QED BY <4>1, <4>2, <4>4
    <3> QED BY <3>1, <3>2
  <2>3. g = [i \in 0..(m + 1) |-> g[i]]
    OBVIOUS
  <2> HIDE DEF g
  <2>4. Is(m + 1, g)
    BY <2>2, <2>3
  <2> HIDE DEF Is
  <2> QED BY <2>4
<1> HIDE DEF T
<1>3. Nat \subseteq T
  BY <1>1, <1>2, SetInduction
<1>4. \E f : Is(Len(layout), f)
  <2>1. Len(layout) \in T
    BY <1>3, LenProperties
  <2> HIDE DEF Is
  <2> QED BY <2>1 DEF T
<1>5. Is(Len(layout), f0)
  <2> HIDE DEF Is
  <2> QED BY <1>4
<1> HIDE DEF f0
<1>6. \A i \in 0..Len(layout) : f0[i] = IF i = 0 THEN Took(<<>>, b) ELSE TakeNext(f0[i - 1], layout[i])
  BY <1>5
<1>7. f0[0] = Took(<<>>, b)
  <2>1. 0 \in 0..Len(layout)
    BY LenProperties
  <2> QED BY <1>6, <2>1
<1>8. ASSUME NEW i \in 1..Len(layout) PROVE f0[i] = TakeNext(f0[i - 1], layout[i])
  <2>1. i \in 0..Len(layout) /\ i # 0
    BY LenProperties
  <2> QED BY <1>6, <2>1
<1> QED BY <1>f, <1>7, <1>8

LEMMA NextIs ==
  ASSUME NEW fields, NEW q, NEW field
  PROVE  /\ TakeNext(Fail, field) = Fail
         /\ TakeField(field, q) = Fail => TakeNext(Took(fields, q), field) = Fail
         /\ \A v, r : TakeField(field, q) = Took(v, r) =>
              TakeNext(Took(fields, q), field) = Took(Append(fields, v), r)
<1>1. PICK t, n : t = Took(fields, q) /\ n = TakeField(field, t.rest)
  OBVIOUS
<1>2. t.ok /\ t.value = fields /\ t.rest = q
  BY <1>1, Outcomes
<1>3. TakeNext(t, field) = IF n.ok THEN Took(Append(fields, n.value), n.rest) ELSE Fail
  BY <1>1, <1>2 DEF TakeNext, Taking
<1>4. TakeNext(Fail, field) = Fail
  BY Outcomes DEF TakeNext, Taking
<1>5. TakeField(field, q) = Fail => ~n.ok
  BY <1>1, <1>2, Outcomes
<1>6. ASSUME NEW v, NEW r, TakeField(field, q) = Took(v, r)
      PROVE  TakeNext(t, field) = Took(Append(fields, v), r)
  <2>1. n = Took(v, r)
    BY <1>1, <1>2, <1>6
  <2>2. n.ok /\ n.value = v /\ n.rest = r
    BY <2>1, Outcomes
  <2> QED BY <1>3, <2>2
<1> QED BY <1>1, <1>3, <1>4, <1>5, <1>6

\* What is read of an encoding of fields is the fields.
LEMMA FieldsTaken ==
  ASSUME NEW layout \in Seq(FieldTypes), NEW fields, Typed(layout, fields, Len(layout)), NEW r \in Strings
  PROVE  TakeFields(layout, PutFields(layout, fields) \o r) = Took(fields, r)
<1> DEFINE Read(n, g, s) == TakePrefixes(layout, PutFields(layout, g) \o s)[n] = Took(g, s)
           T == {n \in Nat : \A g : \A s \in Strings : Typed(layout, g, n) => Read(n, g, s)}
<1>0. Len(layout) \in Nat
  BY LenProperties
<1>1. 0 \in T
  <2> SUFFICES ASSUME NEW g, NEW s \in Strings, Typed(layout, g, 0) PROVE Read(0, g, s)
    OBVIOUS
  <2>1. g = <<>> /\ PutFields(layout, g) = <<>> /\ <<>> \o s = s
    BY NoFields, NothingFollows
  <2>2. TakePrefixes(layout, s)[0] = Took(<<>>, s)
    BY PrefixSteps
  <2> QED BY <2>1, <2>2
<1>2. ASSUME NEW n \in 0..(Len(layout) - 1), n \in T PROVE n + 1 \in T
  <2> SUFFICES ASSUME NEW g, NEW s \in Strings, Typed(layout, g, n + 1) PROVE Read(n + 1, g, s)
    OBVIOUS
  <2>0. n \in Nat /\ n + 1 <= Len(layout) /\ n + 1 \in 1..Len(layout) /\ (n + 1) - 1 = n
    BY <1>0
  <2>1. PICK u, v : g = Append(u, v) /\ Typed(layout, u, n) /\ Encodable(layout[n + 1], v)
    BY <2>0, OneLess
  <2>2. PICK a, p, w, b : /\ a = PutFields(layout, u) /\ p = PutField(layout[n + 1], v)
                          /\ w = p \o s /\ b = PutFields(layout, g) \o s
    OBVIOUS
  <2>3. a \in Strings /\ p \in Strings /\ PutFields(layout, g) = a \o p
    BY <2>0, <2>1, <2>2, OneMore
  <2>4. w \in Strings
    BY <2>2, <2>3, Regroup
  <2>5. b = a \o w
    <3>1. a \o (p \o s) = (a \o p) \o s
      BY <2>3, RegroupAll
    <3> QED BY <2>2, <2>3, <3>1
  <2>6. TakePrefixes(layout, b)[n] = Took(u, w)
    <3>1. Read(n, u, w)
      BY <1>2, <2>1, <2>4
    <3> QED BY <2>2, <2>5, <3>1
  <2>7. TakeField(layout[n + 1], w) = Took(v, s)
    <3>1. layout[n + 1] \in FieldTypes
      BY <2>0, ElementOfSeq
    <3> QED BY <2>1, <2>2, <3>1, AnyField DEF Taken
  <2>8. TakePrefixes(layout, b)[n + 1] = TakeNext(TakePrefixes(layout, b)[n], layout[n + 1])
    BY <2>0, PrefixSteps
  <2>9. TakeNext(Took(u, w), layout[n + 1]) = Took(Append(u, v), s)
    BY <2>7, NextIs
  <2> QED BY <2>1, <2>2, <2>6, <2>8, <2>9
<1> HIDE DEF T
<1>3. 0..Len(layout) \subseteq T
  BY <1>0, <1>1, <1>2, UpTo
<1>4. Len(layout) \in T
  BY <1>0, <1>3
<1>5. Read(Len(layout), fields, r)
  BY <1>4 DEF T
<1> QED BY <1>5 DEF TakeFields

\* Fields that were read are a value for each field of the layout, and their
\* encoding is what was read.
Parsed(layout, n, b, t) ==
  \E fields, r : /\ Typed(layout, fields, n) /\ r \in Strings
                 /\ t = Took(fields, r) /\ b = PutFields(layout, fields) \o r

LEMMA FieldsAre ==
  ASSUME NEW layout \in Seq(FieldTypes), NEW b \in Strings, TakeFields(layout, b) # Fail
  PROVE  Parsed(layout, Len(layout), b, TakeFields(layout, b))
<1> DEFINE Good(n, t) == t = Fail \/ Parsed(layout, n, b, t)
           T == {n \in Nat : Good(n, TakePrefixes(layout, b)[n])}
<1>0. Len(layout) \in Nat
  BY LenProperties
<1>1. 0 \in T
  <2>1. TakePrefixes(layout, b)[0] = Took(<<>>, b)
    BY PrefixSteps
  <2>2. Typed(layout, <<>>, 0)
    BY NoneTyped
  <2>3. PutFields(layout, <<>>) = <<>> /\ <<>> \o b = b
    BY <2>2, NoFields, NothingFollows
  <2>4. b = PutFields(layout, <<>>) \o b
    BY <2>3
  <2>5. Parsed(layout, 0, b, Took(<<>>, b))
    BY <2>2, <2>4 DEF Parsed
  <2> QED BY <2>1, <2>5
<1>2. ASSUME NEW n \in 0..(Len(layout) - 1), n \in T PROVE n + 1 \in T
  <2>0. n \in Nat /\ n + 1 <= Len(layout) /\ n + 1 \in 1..Len(layout) /\ (n + 1) - 1 = n
    BY <1>0
  <2>1. PICK t, field : t = TakePrefixes(layout, b)[n] /\ field = layout[n + 1]
    OBVIOUS
  <2>2. TakePrefixes(layout, b)[n + 1] = TakeNext(t, field) /\ field \in FieldTypes
    BY <2>0, <2>1, PrefixSteps, ElementOfSeq
  <2>3. Good(n, t)
    BY <1>2, <2>1
  <2>4. Good(n + 1, TakeNext(t, field))
    <3>1. CASE t = Fail
      BY <3>1, NextIs
    <3>2. CASE Parsed(layout, n, b, t)
      <4>1. PICK fields, q : /\ Typed(layout, fields, n) /\ q \in Strings
                             /\ t = Took(fields, q) /\ b = PutFields(layout, fields) \o q
        BY <3>2 DEF Parsed
      <4>2. CASE TakeField(field, q) = Fail
        BY <4>1, <4>2, NextIs
      <4>3. CASE TakeField(field, q) # Fail
        <5>1. PICK v, r : Encodable(field, v) /\ r \in Strings /\ q = PutField(field, v) \o r
          BY <2>2, <4>1, <4>3, AnyField DEF Recognised
        <5>2. TakeField(field, q) = Took(v, r)
          BY <2>2, <5>1, AnyField DEF Taken
        <5>3. TakeNext(t, field) = Took(Append(fields, v), r)
          BY <4>1, <5>2, NextIs
        <5>4. PICK a, p, g : a = PutFields(layout, fields) /\ p = PutField(field, v)
                             /\ g = Append(fields, v)
          OBVIOUS
        <5>5. /\ Typed(layout, g, n + 1) /\ a \in Strings /\ p \in Strings
              /\ PutFields(layout, g) = a \o p
          BY <2>0, <2>1, <4>1, <5>1, <5>4, OneMore
        <5>6. b = PutFields(layout, g) \o r
          <6>1. a \o (p \o r) = (a \o p) \o r
            BY <5>1, <5>5, RegroupAll
          <6> QED BY <4>1, <5>1, <5>4, <5>5, <6>1
        <5> QED BY <5>1, <5>3, <5>4, <5>5, <5>6 DEF Parsed
      <4> QED BY <4>2, <4>3
    <3> QED BY <2>3, <3>1, <3>2
  <2> HIDE DEF Good
  <2> QED BY <2>0, <2>2, <2>4
<1> HIDE DEF T
<1>3. 0..Len(layout) \subseteq T
  BY <1>0, <1>1, <1>2, UpTo
<1>4. Len(layout) \in T
  BY <1>0, <1>3
<1> QED BY <1>4 DEF T, TakeFields

LEMMA WholeFields ==
  ASSUME NEW layout \in Seq(FieldTypes), NEW fields, Typed(layout, fields, Len(layout))
  PROVE  /\ PutFields(layout, fields) \in Strings
         /\ decode_tze(TakeFields(layout, PutFields(layout, fields))) = Took(fields, <<>>)
         /\ \A r \in Strings : r # <<>> =>
              decode_tze(TakeFields(layout, PutFields(layout, fields) \o r)) = Fail
<1>1. PICK p : p = PutFields(layout, fields)
  OBVIOUS
<1>2. p \in Strings
  <2>1. Len(layout) \in 0..Len(layout)
    BY LenProperties
  <2> QED BY <1>1, <2>1, EncodingsAre
<1>3. \A r \in Strings : TakeFields(layout, p \o r) = Took(fields, r)
  BY <1>1, FieldsTaken
<1>4. p \o <<>> = p /\ <<>> \in Strings
  BY <1>2, NothingFollows
<1>5. TakeFields(layout, p) = Took(fields, <<>>)
  <2>1. TakeFields(layout, p \o <<>>) = Took(fields, <<>>)
    BY <1>3, <1>4
  <2> QED BY <1>4, <2>1
<1> QED BY <1>1, <1>2, <1>3, <1>5, Whole

LEMMA WholeFieldsAre ==
  ASSUME NEW layout \in Seq(FieldTypes), NEW b \in Strings, decode_tze(TakeFields(layout, b)) # Fail
  PROVE  \E fields : Typed(layout, fields, Len(layout)) /\ b = PutFields(layout, fields)
<1>1. TakeFields(layout, b) # Fail
  BY Whole
<1>2. PICK fields, r : /\ Typed(layout, fields, Len(layout)) /\ r \in Strings
                       /\ TakeFields(layout, b) = Took(fields, r)
                       /\ b = PutFields(layout, fields) \o r
  BY <1>1, FieldsAre DEF Parsed
<1>3. r = <<>>
  BY <1>2, Whole
<1>4. PutFields(layout, fields) \in Strings
  BY <1>2, WholeFields
<1> QED BY <1>2, <1>3, <1>4, NothingFollows

-----------------------------------------------------------------------------
(***************************************************************************)
(* The version and the tag.                                                *)
(***************************************************************************)
Version == <<KERNEL_WIRE_VERSION>>

LEMMA VersionIs == Version \in Strings /\ KERNEL_WIRE_VERSION \in Nat
<1>1. KERNEL_WIRE_VERSION \in Nat
  BY DEF KERNEL_WIRE_VERSION
<1> QED BY <1>1, OneToken DEF Version

LEMMA EnvelopeTaken ==
  ASSUME NEW tags, Tags(tags), NEW k \in DOMAIN tags, NEW r \in Strings
  PROVE  TakeEnvelope(<<KERNEL_WIRE_VERSION, tags[k]>> \o r, tags) = Took(k, r)
<1>1. PICK n, h, q, b : /\ n = tags[k] /\ h = <<n>> /\ q = h \o r
                        /\ b = <<KERNEL_WIRE_VERSION, n>> \o r
  OBVIOUS
<1>2. n \in Nat /\ h \in Strings
  BY <1>1, OneToken DEF Tags
<1>3. b = Version \o q /\ q \in Strings
  <2>1. <<KERNEL_WIRE_VERSION, n>> = Version \o h
    BY <1>1, <1>2, VersionIs, TwoTokens DEF Version
  <2>2. Version \o (h \o r) = (Version \o h) \o r
    BY <1>2, VersionIs, RegroupAll
  <2>3. q \in Strings
    BY <1>1, <1>2, Regroup
  <2> QED BY <1>1, <2>1, <2>2, <2>3
<1>4. PICK version, tag : version = take_fixed(b) /\ tag = take_fixed(version.rest)
  OBVIOUS
<1>5. version = Took(KERNEL_WIRE_VERSION, q)
  BY <1>3, <1>4, FixedTaken, VersionIs DEF Version
<1>6. version.ok /\ version.value = KERNEL_WIRE_VERSION /\ version.rest = q
  BY <1>5, Outcomes
<1>7. tag = Took(n, r)
  BY <1>1, <1>2, <1>4, <1>6, FixedTaken
<1>8. tag.ok /\ tag.value = tags[k] /\ tag.rest = r
  BY <1>1, <1>7, Outcomes
<1>9. /\ {l \in DOMAIN tags : tag.ok /\ tags[l] = tag.value} = {k}
      /\ (CHOOSE l \in {k} : TRUE) = k
  BY <1>8, TagKind
<1>10. TakeEnvelope(b, tags) = Took(k, tag.rest)
  BY <1>4, <1>6, <1>9 DEF TakeEnvelope
<1> QED BY <1>1, <1>8, <1>10

LEMMA EnvelopeIs ==
  ASSUME NEW tags, Tags(tags), NEW b \in Strings, TakeEnvelope(b, tags) # Fail
  PROVE  \E k \in DOMAIN tags, r \in Strings : b = <<KERNEL_WIRE_VERSION, tags[k]>> \o r
<1>1. PICK version, tag : version = take_fixed(b) /\ tag = take_fixed(version.rest)
  OBVIOUS
<1>2. /\ version.ok /\ version.value = KERNEL_WIRE_VERSION
      /\ {l \in DOMAIN tags : tag.ok /\ tags[l] = tag.value} # {}
  BY <1>1 DEF TakeEnvelope
<1>3. PICK k \in DOMAIN tags : tag.ok /\ tags[k] = tag.value
  BY <1>2
<1>4. version # Fail /\ tag # Fail
  BY <1>2, <1>3, Outcomes
<1>5. PICK n \in Nat, q \in Strings : b = <<n>> \o q /\ version = Took(n, q)
  BY <1>1, <1>4, FixedIs
<1>6. n = KERNEL_WIRE_VERSION /\ version.rest = q
  BY <1>2, <1>5, Outcomes
<1>7. PICK m \in Nat, r \in Strings : q = <<m>> \o r /\ tag = Took(m, r)
  BY <1>1, <1>4, <1>6, FixedIs
<1>8. m = tags[k]
  BY <1>3, <1>7, Outcomes
<1>9. PICK h : h = <<m>>
  OBVIOUS
<1>10. b = Version \o (h \o r) /\ h \in Strings
  BY <1>5, <1>6, <1>7, <1>9, OneToken DEF Version
<1>11. Version \o (h \o r) = (Version \o h) \o r
  BY <1>10, VersionIs, RegroupAll
<1>12. <<KERNEL_WIRE_VERSION, m>> = Version \o h
  BY <1>9, VersionIs, TwoTokens DEF Version
<1> QED BY <1>8, <1>10, <1>11, <1>12

-----------------------------------------------------------------------------
(***************************************************************************)
(* Messages and results.                                                   *)
(***************************************************************************)
LEMMA Layouts ==
  /\ \A k \in DOMAIN MessageTag : InboxMessage[k] \in Seq(FieldTypes)
  /\ \A k \in DOMAIN ResultTag : KernelResult[k] \in Seq(FieldTypes)
<1>1. /\ SignedVerifierConfig \in Seq(FieldTypes) /\ SignedBridgeConfig \in Seq(FieldTypes)
      /\ DalPayloadPointer \in Seq(FieldTypes)
  BY DEF SignedVerifierConfig, SignedBridgeConfig, DalPayloadPointer, FieldTypes
<1>2. ShieldReq \in Seq(FieldTypes)
  BY DEF ShieldReq, FieldTypes
<1>3. TransferReq \in Seq(FieldTypes)
  BY DEF TransferReq, FieldTypes
<1>4. UnshieldReq \in Seq(FieldTypes)
  BY DEF UnshieldReq, FieldTypes
<1>5. /\ ShieldResp \in Seq(FieldTypes) /\ TransferResp \in Seq(FieldTypes)
      /\ UnshieldResp \in Seq(FieldTypes) /\ <<>> \in Seq(FieldTypes)
      /\ <<"string">> \in Seq(FieldTypes)
  BY DEF ShieldResp, TransferResp, UnshieldResp, FieldTypes
<1>6. ASSUME NEW k \in DOMAIN MessageTag PROVE InboxMessage[k] \in Seq(FieldTypes)
  BY <1>1, <1>2, <1>3, <1>4, MessageTags DEF InboxMessage, Kinds
<1>7. ASSUME NEW k \in DOMAIN ResultTag PROVE KernelResult[k] \in Seq(FieldTypes)
  <2>1. /\ KernelResult["Configured"] = <<>> /\ KernelResult["Deposit"] = <<>>
        /\ KernelResult["Shield"] = ShieldResp /\ KernelResult["Transfer"] = TransferResp
        /\ KernelResult["Unshield"] = UnshieldResp /\ KernelResult["Error"] = <<"string">>
    BY DEF KernelResult
  <2> QED BY <1>5, <2>1, ResultTags
<1> QED BY <1>6, <1>7

LEMMA EncodableTyped ==
  ASSUME NEW layout \in Seq(FieldTypes), NEW fields
  PROVE  EncodableFields(layout, fields) <=> Typed(layout, fields, Len(layout))
<1>0. PICK n : n = Len(layout)
  OBVIOUS
<1>1. n \in Nat /\ \A i \in 1..n : layout[i] \in FieldTypes
  BY <1>0, LenProperties, ElementOfSeq
<1>2. ASSUME EncodableFields(layout, fields) PROVE Typed(layout, fields, n)
  <2>1. fields = [i \in 1..n |-> fields[i]] /\ \A i \in 1..n : Encodable(layout[i], fields[i])
    BY <1>0, <1>2 DEF EncodableFields
  <2>2. \A i \in 1..n : fields[i] \in FieldValues
    BY <1>1, <2>1, ValueIs
  <2>3. fields \in [1..n -> FieldValues]
    BY <2>1, <2>2
  <2>4. fields \in Seq(FieldValues) /\ Len(fields) = n
    BY <1>1, <2>3, FunctionIsSeq
  <2> QED BY <2>1, <2>4 DEF Typed
<1>3. ASSUME Typed(layout, fields, n) PROVE EncodableFields(layout, fields)
  <2>1. fields \in [1..n -> FieldValues]
    BY <1>3, LenProperties DEF Typed
  <2>2. fields = [i \in 1..n |-> fields[i]]
    BY <2>1
  <2> QED BY <1>0, <1>3, <2>2 DEF EncodableFields, Typed
<1> QED BY <1>0, <1>2, <1>3

LEMMA MessageDecoded ==
  ASSUME NEW k, NEW q, NEW fields
  PROVE  /\ Decoded(Fail, fields) = Fail
         /\ Decoded(Took(k, q), Fail) = Fail
         /\ \A f, r : fields = Took(f, r) =>
              Decoded(Took(k, q), fields) = Took([kind |-> k, fields |-> f], <<>>)
<1>1. PICK t : t = Took(k, q)
  OBVIOUS
<1>2. t.ok /\ t.value = k
  BY <1>1, Outcomes
<1>3. ASSUME NEW f, NEW r, fields = Took(f, r)
      PROVE  Decoded(t, fields) = Took([kind |-> k, fields |-> f], <<>>)
  <2>1. fields.ok /\ fields.value = f
    BY <1>3, Outcomes
  <2> QED BY <1>2, <2>1 DEF Decoded
<1>4. Decoded(Fail, fields) = Fail /\ Decoded(t, Fail) = Fail
  BY Outcomes DEF Decoded
<1> QED BY <1>1, <1>3, <1>4

\* What follows the envelope of a kind, and what it decodes to.
Body(k, q) ==
  LET outer == take_dynamic(q, MaxBytes)
  IN  IF k \in Wrapped
      THEN decode_tze(Inner(outer, decode_tze(TakeFields(InboxMessage[k], outer.value))))
      ELSE decode_tze(TakeFields(InboxMessage[k], q))

PutBody(k, fields) ==
  IF k \in Wrapped THEN put_dynamic(PutFields(InboxMessage[k], fields))
  ELSE PutFields(InboxMessage[k], fields)

EncodableBody(k, fields) ==
  /\ EncodableFields(InboxMessage[k], fields)
  /\ k \in Wrapped => Len(PutFields(InboxMessage[k], fields)) <= MaxBytes

LEMMA BodyTaken ==
  ASSUME NEW k \in DOMAIN MessageTag, NEW fields, EncodableBody(k, fields)
  PROVE  PutBody(k, fields) \in Strings /\ Body(k, PutBody(k, fields)) = Took(fields, <<>>)
<1>1. PICK layout, p : layout = InboxMessage[k] /\ p = PutFields(layout, fields)
  OBVIOUS
<1>2. layout \in Seq(FieldTypes)
  BY <1>1, Layouts
<1>3. Typed(layout, fields, Len(layout))
  BY <1>1, <1>2, EncodableTyped DEF EncodableBody
<1>4. p \in Strings /\ decode_tze(TakeFields(layout, p)) = Took(fields, <<>>)
  BY <1>1, <1>2, <1>3, WholeFields
<1>5. CASE k \in Wrapped
  <2>1. PICK b, outer : b = put_dynamic(p) /\ outer = take_dynamic(b, MaxBytes)
    OBVIOUS
  <2>2. b \in Strings /\ b \o <<>> = b /\ <<>> \in Strings /\ PutBody(k, fields) = b
    BY <1>1, <1>4, <1>5, <2>1, DynamicPut, NothingFollows DEF PutBody
  <2>3. outer = Took(p, <<>>)
    <3>1. Len(p) <= MaxBytes
      BY <1>1, <1>5 DEF EncodableBody
    <3>2. take_dynamic(put_dynamic(p) \o <<>>, MaxBytes) = Took(p, <<>>)
      BY <1>4, <2>2, <3>1, DynamicTaken, WireAssumption
    <3> QED BY <2>1, <2>2, <3>2
  <2>4. outer.value = p
    BY <2>3, Outcomes
  <2>5. Body(k, b) = decode_tze(Inner(outer, decode_tze(TakeFields(layout, p))))
    BY <1>1, <1>5, <2>1, <2>4 DEF Body
  <2>6. Inner(outer, decode_tze(TakeFields(layout, p))) = Took(fields, <<>>)
    BY <1>4, <2>3, InnerIs
  <2> QED BY <2>2, <2>5, <2>6, Whole
<1>6. CASE k \notin Wrapped
  BY <1>1, <1>4, <1>6 DEF Body, PutBody
<1> QED BY <1>5, <1>6

LEMMA BodyIs ==
  ASSUME NEW k \in DOMAIN MessageTag, NEW q \in Strings, Body(k, q) # Fail
  PROVE  \E fields : EncodableBody(k, fields) /\ q = PutBody(k, fields)
<1>1. PICK layout : layout = InboxMessage[k]
  OBVIOUS
<1>2. layout \in Seq(FieldTypes)
  BY <1>1, Layouts
<1>3. CASE k \in Wrapped
  <2>1. PICK outer : outer = take_dynamic(q, MaxBytes)
    OBVIOUS
  <2>2. Body(k, q) = decode_tze(Inner(outer, decode_tze(TakeFields(layout, outer.value))))
    BY <1>1, <1>3, <2>1 DEF Body
  <2>3. Inner(outer, decode_tze(TakeFields(layout, outer.value))) # Fail
    BY <2>2, Whole
  <2>4. outer # Fail /\ decode_tze(TakeFields(layout, outer.value)) # Fail
    BY <2>3, InnerIs
  <2>5. PICK u \in Strings, r \in Strings :
          q = put_dynamic(u) \o r /\ Len(u) <= MaxBytes /\ outer = Took(u, r)
    BY <2>1, <2>4, DynamicIs, WireAssumption
  <2>6. outer.value = u
    BY <2>5, Outcomes
  <2>7. PICK fields : Typed(layout, fields, Len(layout)) /\ u = PutFields(layout, fields)
    BY <1>2, <2>4, <2>6, WholeFieldsAre
  <2>8. decode_tze(TakeFields(layout, u)) = Took(fields, <<>>)
    BY <1>2, <2>7, WholeFields
  <2>9. Inner(outer, decode_tze(TakeFields(layout, outer.value))) = Took(fields, r)
    BY <2>5, <2>6, <2>8, InnerIs
  <2>10. r = <<>>
    BY <2>2, <2>9, Whole
  <2>11. q = put_dynamic(u)
    BY <2>5, <2>10, DynamicPut, NothingFollows
  <2>12. EncodableBody(k, fields)
    BY <1>1, <1>2, <2>5, <2>7, EncodableTyped DEF EncodableBody
  <2>13. q = PutBody(k, fields)
    BY <1>1, <1>3, <2>7, <2>11 DEF PutBody
  <2> QED BY <2>12, <2>13
<1>4. CASE k \notin Wrapped
  <2>1. decode_tze(TakeFields(layout, q)) # Fail
    BY <1>1, <1>4 DEF Body
  <2>2. PICK fields : Typed(layout, fields, Len(layout)) /\ q = PutFields(layout, fields)
    BY <1>2, <2>1, WholeFieldsAre
  <2>3. EncodableBody(k, fields)
    BY <1>1, <1>2, <1>4, <2>2, EncodableTyped DEF EncodableBody
  <2>4. q = PutBody(k, fields)
    BY <1>1, <1>4, <2>2 DEF PutBody
  <2> QED BY <2>3, <2>4
<1> QED BY <1>3, <1>4

LEMMA EncodedMessage ==
  ASSUME NEW m, EncodableMessage(m)
  PROVE  /\ m.kind \in DOMAIN MessageTag /\ EncodableBody(m.kind, m.fields)
         /\ encode_kernel_inbox_message(m) =
              <<KERNEL_WIRE_VERSION, MessageTag[m.kind]>> \o PutBody(m.kind, m.fields)
BY DEF EncodableMessage, EncodableBody, encode_kernel_inbox_message, PutBody

LEMMA HeaderIs ==
  ASSUME NEW tags, Tags(tags), NEW k \in DOMAIN tags
  PROVE  <<KERNEL_WIRE_VERSION, tags[k]>> \in Strings
<1>1. tags[k] \in Nat
  BY DEF Tags
<1> QED BY <1>1, VersionIs DEF Strings

\* A message reads back as it was.
LEMMA MessageReadsBack ==
  ASSUME NEW m, EncodableMessage(m)
  PROVE  /\ encode_kernel_inbox_message(m) \in Strings
         /\ decode_kernel_inbox_message(encode_kernel_inbox_message(m)) = Took(m, <<>>)
<1>1. PICK k, fields, q, b : /\ k = m.kind /\ fields = m.fields /\ q = PutBody(k, fields)
                             /\ b = encode_kernel_inbox_message(m)
  OBVIOUS
<1>2. /\ k \in DOMAIN MessageTag /\ EncodableBody(k, fields)
      /\ b = <<KERNEL_WIRE_VERSION, MessageTag[k]>> \o q
  BY <1>1, EncodedMessage
<1>3. q \in Strings /\ Body(k, q) = Took(fields, <<>>)
  BY <1>1, <1>2, BodyTaken
<1>4. PICK envelope : envelope = TakeEnvelope(b, MessageTag)
  OBVIOUS
<1>5. envelope = Took(k, q)
  BY <1>2, <1>3, <1>4, EnvelopeTaken, MessageTags
<1>6. envelope.value = k /\ envelope.rest = q
  BY <1>5, Outcomes
<1>7. decode_kernel_inbox_message(b) = Decoded(envelope, Body(k, q))
  BY <1>4, <1>6 DEF decode_kernel_inbox_message, Body
<1>8. decode_kernel_inbox_message(b) = Took([kind |-> k, fields |-> fields], <<>>)
  BY <1>3, <1>5, <1>7, MessageDecoded
<1>9. [kind |-> k, fields |-> fields] = m
  BY <1>1 DEF EncodableMessage
<1>10. b \in Strings
  BY <1>2, <1>3, HeaderIs, MessageTags, Regroup
<1> QED BY <1>1, <1>8, <1>9, <1>10

\* Only an encoding is read as a message.
LEMMA MessageIs ==
  ASSUME NEW b \in Strings, decode_kernel_inbox_message(b).ok
  PROVE  \E m : /\ EncodableMessage(m) /\ decode_kernel_inbox_message(b) = Took(m, <<>>)
                /\ b = encode_kernel_inbox_message(m)
<1>1. PICK envelope : envelope = TakeEnvelope(b, MessageTag)
  OBVIOUS
<1>2. decode_kernel_inbox_message(b) = Decoded(envelope, Body(envelope.value, envelope.rest))
  BY <1>1 DEF decode_kernel_inbox_message, Body
<1>3. envelope # Fail
  BY <1>2, MessageDecoded, Outcomes
<1>4. PICK k \in DOMAIN MessageTag, q \in Strings : b = <<KERNEL_WIRE_VERSION, MessageTag[k]>> \o q
  BY <1>1, <1>3, EnvelopeIs, MessageTags
<1>5. envelope = Took(k, q)
  BY <1>1, <1>4, EnvelopeTaken, MessageTags
<1>6. envelope.value = k /\ envelope.rest = q
  BY <1>5, Outcomes
<1>7. Body(k, q) # Fail
  BY <1>2, <1>5, <1>6, MessageDecoded, Outcomes
<1>8. PICK fields : EncodableBody(k, fields) /\ q = PutBody(k, fields)
  BY <1>7, BodyIs
<1>9. PICK m : m = [kind |-> k, fields |-> fields]
  OBVIOUS
<1>10. m.kind = k /\ m.fields = fields /\ m = [kind |-> m.kind, fields |-> m.fields]
  BY <1>9
<1>11. EncodableMessage(m)
  BY <1>8, <1>10 DEF EncodableMessage, EncodableBody
<1>12. b = encode_kernel_inbox_message(m)
  BY <1>4, <1>8, <1>10, <1>11, EncodedMessage
<1> QED BY <1>11, <1>12, MessageReadsBack

\* A result reads back as it was, and with something behind it not at all.
LEMMA ResultReadsBack ==
  ASSUME NEW r, EncodableResult(r)
  PROVE  /\ encode_kernel_result(r) \in Strings
         /\ decode_kernel_result(encode_kernel_result(r)) = Took(r, <<>>)
         /\ \A s \in Strings : s # <<>> => decode_kernel_result(encode_kernel_result(r) \o s) = Fail
<1>1. PICK k, fields, layout, h, q, b :
        /\ k = r.kind /\ fields = r.fields /\ layout = KernelResult[k]
        /\ h = <<KERNEL_WIRE_VERSION, ResultTag[k]>>
        /\ q = PutFields(layout, fields) /\ b = encode_kernel_result(r)
  OBVIOUS
<1>2. k \in DOMAIN ResultTag /\ EncodableFields(layout, fields) /\ b = h \o q
  BY <1>1 DEF EncodableResult, encode_kernel_result
<1>3. layout \in Seq(FieldTypes)
  BY <1>1, <1>2, Layouts
<1>4. Typed(layout, fields, Len(layout))
  BY <1>2, <1>3, EncodableTyped
<1>5. /\ q \in Strings /\ decode_tze(TakeFields(layout, q)) = Took(fields, <<>>)
      /\ \A s \in Strings : s # <<>> => decode_tze(TakeFields(layout, q \o s)) = Fail
  BY <1>1, <1>3, <1>4, WholeFields
<1>6. h \in Strings
  BY <1>1, <1>2, HeaderIs, ResultTags
<1>7. ASSUME NEW z \in Strings
      PROVE  decode_kernel_result(h \o z) = Decoded(Took(k, z), decode_tze(TakeFields(layout, z)))
  <2>1. PICK envelope, c : c = h \o z /\ envelope = TakeEnvelope(c, ResultTag)
    OBVIOUS
  <2>2. envelope = Took(k, z)
    BY <1>1, <1>2, <2>1, EnvelopeTaken, ResultTags
  <2>3. envelope.value = k /\ envelope.rest = z
    BY <2>2, Outcomes
  <2>4. decode_kernel_result(c) = Decoded(envelope, decode_tze(TakeFields(layout, z)))
    BY <1>1, <2>1, <2>3 DEF decode_kernel_result
  <2> QED BY <2>1, <2>2, <2>4
<1>8. decode_kernel_result(b) = Took(r, <<>>)
  <2>1. decode_kernel_result(b) = Took([kind |-> k, fields |-> fields], <<>>)
    BY <1>2, <1>5, <1>7, MessageDecoded
  <2>2. [kind |-> k, fields |-> fields] = r
    BY <1>1 DEF EncodableResult
  <2> QED BY <2>1, <2>2
<1>9. ASSUME NEW s \in Strings, s # <<>> PROVE decode_kernel_result(b \o s) = Fail
  <2>1. h \o (q \o s) = (h \o q) \o s
    BY <1>5, <1>6, RegroupAll
  <2>2. q \o s \in Strings
    BY <1>5, Regroup
  <2>3. PICK z : z = q \o s
    OBVIOUS
  <2>4. b \o s = h \o z
    BY <1>2, <2>1, <2>3
  <2>5. decode_tze(TakeFields(layout, z)) = Fail
    BY <1>5, <1>9, <2>3
  <2>6. decode_kernel_result(h \o z) = Decoded(Took(k, z), Fail)
    BY <1>7, <2>2, <2>3, <2>5
  <2> QED BY <2>4, <2>6, MessageDecoded
<1>10. b \in Strings
  BY <1>2, <1>5, <1>6, Regroup
<1> QED BY <1>1, <1>8, <1>9, <1>10

\* Only an encoding is read as a result.
LEMMA ResultIs ==
  ASSUME NEW b \in Strings, decode_kernel_result(b).ok
  PROVE  \E r : EncodableResult(r) /\ b = encode_kernel_result(r)
<1>1. PICK envelope : envelope = TakeEnvelope(b, ResultTag)
  OBVIOUS
<1>2. decode_kernel_result(b) =
        Decoded(envelope, decode_tze(TakeFields(KernelResult[envelope.value], envelope.rest)))
  BY <1>1 DEF decode_kernel_result
<1>3. envelope # Fail
  BY <1>2, MessageDecoded, Outcomes
<1>4. PICK k \in DOMAIN ResultTag, q \in Strings : b = <<KERNEL_WIRE_VERSION, ResultTag[k]>> \o q
  BY <1>1, <1>3, EnvelopeIs, ResultTags
<1>5. envelope = Took(k, q)
  BY <1>1, <1>4, EnvelopeTaken, ResultTags
<1>6. envelope.value = k /\ envelope.rest = q
  BY <1>5, Outcomes
<1>7. PICK layout : layout = KernelResult[k]
  OBVIOUS
<1>8. layout \in Seq(FieldTypes)
  BY <1>7, Layouts
<1>9. decode_tze(TakeFields(layout, q)) # Fail
  BY <1>2, <1>5, <1>6, <1>7, MessageDecoded, Outcomes
<1>10. PICK fields : Typed(layout, fields, Len(layout)) /\ q = PutFields(layout, fields)
  BY <1>8, <1>9, WholeFieldsAre
<1>11. PICK r : r = [kind |-> k, fields |-> fields]
  OBVIOUS
<1>12. r.kind = k /\ r.fields = fields /\ r = [kind |-> r.kind, fields |-> r.fields]
  BY <1>11
<1>13. EncodableResult(r)
  BY <1>7, <1>8, <1>10, <1>12, EncodableTyped DEF EncodableResult
<1>14. b = encode_kernel_result(r)
  BY <1>4, <1>7, <1>10, <1>12 DEF encode_kernel_result
<1> QED BY <1>13, <1>14

LEMMA FrontOfAppend ==
  ASSUME NEW s \in Seq(Nat), NEW x \in Nat
  PROVE  Front(Append(s, x)) = s
<1>1. PICK b, n : b = Append(s, x) /\ n = Len(s)
  OBVIOUS
<1>2. /\ n \in Nat /\ b \in Seq(Nat) /\ Len(b) = n + 1
      /\ \A i \in 1..n : b[i] = s[i]
  BY <1>1, AppendProperties, LenProperties
<1>3. Front(b) = SubSeq(b, 1, n)
  BY <1>2 DEF Front
<1>4. \A i \in 1..n : b[i] \in Nat
  BY <1>2, ElementOfSeq
<1>5. PICK u : u = SubSeq(b, 1, n)
  OBVIOUS
<1>6. /\ u \in Seq(Nat) /\ Len(u) = IF 1 <= n THEN n - 1 + 1 ELSE 0
      /\ \A i \in 1..(n - 1 + 1) : u[i] = b[1 + i - 1]
  BY <1>2, <1>4, <1>5, SubSeqProperties
<1>7. Len(u) = n /\ \A i \in 1..n : u[i] = s[i]
  BY <1>2, <1>6
<1>8. u = s
  BY <1>1, <1>2, <1>6, <1>7, SeqEqual
<1> QED BY <1>1, <1>3, <1>5, <1>8

\* No result is read from less than its encoding or from more.
LEMMA ResultIsWhole ==
  ASSUME NEW r, EncodableResult(r), NEW bytes, bytes = encode_kernel_result(r)
  PROVE  /\ decode_kernel_result(bytes) = Took(r, <<>>)
         /\ ~decode_kernel_result(Front(bytes)).ok
         /\ ~decode_kernel_result(Append(bytes, 0)).ok
<1>1. /\ bytes \in Strings /\ decode_kernel_result(bytes) = Took(r, <<>>)
      /\ \A s \in Strings : s # <<>> => decode_kernel_result(bytes \o s) = Fail
  BY ResultReadsBack
<1>2. ASSUME NEW s \in Strings, NEW x \in Nat
      PROVE  Append(s, x) = s \o <<x>> /\ <<x>> \in Strings /\ <<x>> # <<>>
  BY AppendIsConcat, OneToken, OneOf DEF Strings
<1>3. ~decode_kernel_result(Append(bytes, 0)).ok
  <2>1. decode_kernel_result(Append(bytes, 0)) = Fail
    BY <1>1, <1>2
  <2> QED BY <2>1, Outcomes
<1>4. ASSUME decode_kernel_result(Front(bytes)).ok PROVE FALSE
  <2>1. bytes # <<>>
    <3>1. CASE bytes = <<>>
      <4>1. take_fixed(bytes) = Fail
        BY <3>1 DEF take_fixed
      <4>2. TakeEnvelope(bytes, ResultTag) = Fail
        BY <4>1, Outcomes DEF TakeEnvelope
      <4>3. decode_kernel_result(bytes) = Fail
        BY <4>2, MessageDecoded DEF decode_kernel_result
      <4> QED BY <1>1, <4>3, Outcomes
    <3> QED BY <3>1
  <2>2. Front(bytes) \in Strings /\ \E x \in Nat : bytes = Append(Front(bytes), x)
    <3>1. PICK s \in Seq(Nat), x \in Nat : bytes = Append(s, x)
      BY <1>1, <2>1, SequenceEmptyOrAppend DEF Strings
    <3>2. Front(bytes) = s
      BY <3>1, FrontOfAppend
    <3> QED BY <3>1, <3>2 DEF Strings
  <2>3. PICK s, x : s = Front(bytes) /\ x \in Nat /\ bytes = Append(s, x) /\ s \in Strings
    BY <2>2
  <2>4. PICK a : EncodableResult(a) /\ s = encode_kernel_result(a)
    BY <1>4, <2>3, ResultIs
  <2>5. decode_kernel_result(s \o <<x>>) = Fail
    <3>1. \A z \in Strings : z # <<>> => decode_kernel_result(s \o z) = Fail
      BY <2>4, ResultReadsBack
    <3>2. <<x>> \in Strings /\ <<x>> # <<>>
      BY <1>2, <2>3
    <3> QED BY <3>1, <3>2
  <2> QED BY <1>1, <1>2, <2>3, <2>5, Outcomes
<1> QED BY <1>1, <1>3, <1>4

-----------------------------------------------------------------------------
(***************************************************************************)
(* What the kernel reads.                                                  *)
(***************************************************************************)
PointerFields == {"kind", "chunks", "payload_len", "payload_hash"}

\* Whoever posts the pointer, it carries the hash of what was published, and
\* whatever was published is some bytes.
PendingInv(p) ==
  \/ p = NoMessage
  \/ /\ {"message", "bytes", "size", "edits", "pointer", "attested"} \subseteq DOMAIN p
     /\ p.message \in Message /\ p.bytes \in Strings /\ p.size \in ChunkSize
     /\ DOMAIN p.pointer = PointerFields
     /\ p.pointer.payload_hash = hash(p.bytes)

LEMMA PublicationIs ==
  ASSUME NEW m \in Message, NEW bytes \in Strings, NEW size \in ChunkSize, NEW n
  PROVE  /\ PendingInv(Publication(m, bytes, size))
         /\ PendingInv([Publication(m, bytes, size) EXCEPT !.edits = n])
<1> DEFINE pointer == dal_pointer_from_submission(kernel_message_kind(m), bytes, size)
<1>1. DOMAIN pointer = PointerFields /\ pointer.payload_hash = hash(bytes)
  BY DEF dal_pointer_from_submission, PointerFields
<1>2. Publication(m, bytes, size) =
        [message |-> m, bytes |-> bytes, size |-> size, edits |-> 0,
         pointer |-> pointer, attested |-> DOMAIN pointer.chunks]
  BY DEF Publication
<1> HIDE DEF pointer
<1> QED BY <1>1, <1>2 DEF PendingInv

LEMMA PointersKeepHash ==
  ASSUME NEW p, DOMAIN p = PointerFields, NEW q \in Pointers(p)
  PROVE  DOMAIN q = PointerFields /\ q.payload_hash = p.payload_hash
<1>1. CASE \E k : q = [p EXCEPT !.kind = k]
  BY <1>1 DEF PointerFields
<1>2. CASE \E c : q = [p EXCEPT !.chunks = c]
  BY <1>2 DEF PointerFields
<1>3. CASE \E c, l : q = [p EXCEPT !.chunks = c, !.payload_len = l]
  BY <1>3 DEF PointerFields
<1>4. CASE q \in OtherKind(p)
  BY <1>1, <1>4 DEF OtherKind
<1>5. CASE q \in OtherChunks(p)
  BY <1>2, <1>5 DEF OtherChunks
<1>6. CASE q \in LongerChunk(p)
  BY <1>2, <1>6 DEF LongerChunk
<1>7. CASE q \in ShorterPayload(p)
  BY <1>3, <1>7 DEF ShorterPayload
<1>8. CASE q \in OtherSlot(p)
  BY <1>2, <1>8 DEF OtherSlot
<1> QED BY <1>4, <1>5, <1>6, <1>7, <1>8 DEF Pointers

LEMMA MisdirectKeeps ==
  ASSUME PendingInv(pending), NEW pointer, NEW attested, Misdirect(pointer, attested),
         DOMAIN pointer = PointerFields, pointer.payload_hash = pending.pointer.payload_hash
  PROVE  PendingInv(pending')
<1>1. /\ {"message", "bytes", "size", "edits", "pointer", "attested"} \subseteq DOMAIN pending
      /\ pending.message \in Message /\ pending.bytes \in Strings /\ pending.size \in ChunkSize
      /\ pending.pointer.payload_hash = hash(pending.bytes)
  BY DEF Misdirect, PendingInv
<1>2. pending' = [pending EXCEPT !.pointer = pointer, !.attested = attested]
  BY DEF Misdirect
<1>3. /\ DOMAIN pending' = DOMAIN pending /\ pending'.pointer = pointer
      /\ pending'.bytes = pending.bytes /\ pending'.message = pending.message
      /\ pending'.size = pending.size
  BY <1>1, <1>2
<1> QED BY <1>1, <1>3 DEF PendingInv

LEMMA EditIsString ==
  ASSUME NEW b \in Strings, NEW bytes \in Edits(b)
  PROVE  bytes \in Strings
<1>1. b \in Seq(Nat) /\ DOMAIN b = 1..Len(b) /\ Len(b) \in Nat
      /\ \A i \in 1..Len(b) : b[i] \in Nat
  BY LenProperties, ElementOfSeq DEF Strings
<1>2. ASSUME NEW i \in DOMAIN b, NEW t \in Nat PROVE [b EXCEPT ![i] = t] \in Strings
  <2>1. [b EXCEPT ![i] = t] \in Seq(Nat)
    BY <1>1, ExceptSeq
  <2> QED BY <2>1 DEF Strings
<1>3. CASE \E i \in DOMAIN b, t \in 0..3 : bytes = [b EXCEPT ![i] = t]
  <2>1. PICK i \in DOMAIN b, t \in 0..3 : bytes = [b EXCEPT ![i] = t]
    BY <1>3
  <2>2. t \in Nat
    OBVIOUS
  <2> QED BY <1>2, <2>1, <2>2
<1>4. CASE \E i \in DOMAIN b : bytes = [b EXCEPT ![i] = @ + 1]
  <2>1. PICK i, t : i \in DOMAIN b /\ t = b[i] + 1 /\ bytes = [b EXCEPT ![i] = t]
    BY <1>4
  <2>2. t \in Nat
    BY <1>1, <2>1
  <2> QED BY <1>2, <2>1, <2>2
<1>5. CASE \E i \in DOMAIN b : bytes = [b EXCEPT ![i] = IF @ > 0 THEN @ - 1 ELSE Present]
  <2>1. PICK i, t : /\ i \in DOMAIN b /\ t = IF b[i] > 0 THEN b[i] - 1 ELSE Present
                    /\ bytes = [b EXCEPT ![i] = t]
    BY <1>5
  <2>2. t \in Nat
    BY <1>1, <2>1, Presence
  <2> QED BY <1>2, <2>1, <2>2
<1>6. Append(b, 0) \in Strings
  BY <1>1, AppendProperties DEF Strings
<1>7. Front(b) \in Strings
  <2>1. Front(b) = SubSeq(b, 1, Len(b) - 1)
    BY DEF Front
  <2>2. \A i \in 1..(Len(b) - 1) : b[i] \in Nat
    BY <1>1
  <2>3. SubSeq(b, 1, Len(b) - 1) \in Seq(Nat)
    <3>1. 1 \in Int /\ Len(b) - 1 \in Int
      BY <1>1
    <3> QED BY <2>2, <3>1, SubSeqProperties
  <2> QED BY <2>1, <2>3 DEF Strings
<1>8. CASE bytes \in {Append(b, 0), Front(b)}
  BY <1>6, <1>7, <1>8
<1> QED BY <1>3, <1>4, <1>5, <1>8 DEF Edits

LEMMA PendingStep ==
  ASSUME PendingInv(pending), [Next]_vars
  PROVE  PendingInv(pending')
<1>1. CASE UNCHANGED pending
  BY <1>1
<1>2. CASE pending' = NoMessage
  BY <1>2 DEF PendingInv
<1>3. ASSUME NEW m \in Message, NEW size \in ChunkSize, Publish(m, size) PROVE PendingInv(pending')
  <2>1. encode_kernel_inbox_message(m) \in Strings
    BY SubmissionAssumption, MessageReadsBack
  <2> QED BY <1>3, <2>1, PublicationIs DEF Publish
<1>4. ASSUME pending # NoMessage, NEW bytes \in Edits(pending.bytes), Edit(bytes)
      PROVE  PendingInv(pending')
  <2>1. pending.message \in Message /\ bytes \in Strings /\ pending.size \in ChunkSize
    BY <1>4, EditIsString DEF PendingInv
  <2> QED BY <1>4, <2>1, PublicationIs DEF Edit
<1>5. ASSUME pending # NoMessage, NEW pointer \in Pointers(pending.pointer),
             Misdirect(pointer, pending.attested)
      PROVE  PendingInv(pending')
  <2>1. DOMAIN pending.pointer = PointerFields
    BY <1>5 DEF PendingInv
  <2> QED BY <1>5, <2>1, PointersKeepHash, MisdirectKeeps
<1>6. ASSUME pending # NoMessage, NEW level, Misdirect(pending.pointer, pending.attested \ {level})
      PROVE  PendingInv(pending')
  <2>1. DOMAIN pending.pointer = PointerFields
    BY <1>6 DEF PendingInv
  <2> QED BY <1>6, <2>1, MisdirectKeeps
<1>7. CASE Deliver
  BY <1>2, <1>7 DEF Deliver
<1>8. ASSUME NEW m, PublishAndDeliver(m) PROVE UNCHANGED pending
  BY <1>8 DEF PublishAndDeliver
<1>9. ASSUME NEW n, Reorg(n) PROVE UNCHANGED pending
  BY <1>9 DEF Reorg
<1>10. ASSUME NEW mode, NEW k, WatchInit(mode, k) PROVE UNCHANGED pending
  BY <1>10 DEF WatchInit
<1>11. ASSUME NEW off, Fetch(off) PROVE UNCHANGED pending
  <2>1. FetchNote(off) \/ FetchChunk(off)
    BY <1>11 DEF Fetch
  <2>2. CASE FetchNote(off)
    BY <2>2, Zenon DEF FetchNote
  <2>3. CASE FetchChunk(off)
    BY <2>3, Zenon DEF FetchChunk
  <2> QED BY <2>1, <2>2, <2>3
<1>12. CASE SyncStart \/ SyncFinish \/ SyncNothing \/ SyncAbort
  BY <1>1, <1>12 DEF SyncStart, SyncFinish, SyncNothing, SyncAbort, vars
<1>13. CASE SyncStep
  BY <1>1, <1>11, <1>12, <1>13 DEF SyncStep, detect_service_sync_once
<1>14. CASE cmd_watch_sync
  BY <1>12, <1>14 DEF cmd_watch_sync
<1>15. CASE UNCHANGED vars
  BY <1>1, <1>15 DEF vars
<1> QED BY <1>1, <1>3, <1>4, <1>5, <1>6, <1>7, <1>8, <1>9, <1>10, <1>12, <1>13, <1>14, <1>15 DEF Next

LEMMA PendingIsInvariant == Spec => []PendingInv(pending)
<1>1. Init => PendingInv(pending)
  BY DEF Init, PendingInv
<1>2. PendingInv(pending) /\ [Next]_vars => PendingInv(pending)'
  BY PendingStep
<1> QED BY <1>1, <1>2, PTL DEF Spec

\* What was read is decoded from a payload with the pointer's hash.
ReadFrom(got, pointer) ==
  \E payload : got = decode_kernel_inbox_message(payload) /\ hash(payload) = pointer.payload_hash

LEMMA FetchIs ==
  ASSUME NEW slots, NEW attested, NEW pointer, NEW got,
         got = fetch_kernel_message_from_dal(slots, attested, pointer), got.ok
  PROVE  ReadFrom(got, pointer)
<1>2. PICK payload : payload = fetch_payload(slots, attested, pointer.chunks)
  OBVIOUS
<1>3. got = IF /\ pointer.chunks # <<>>
               /\ pointer.payload_len \in 1 .. MaxDalPayload
               /\ declared_total(pointer.chunks) = pointer.payload_len
               /\ payload.ok
               /\ payload_matches(payload.value, pointer)
               /\ decode_kernel_inbox_message(payload.value).ok
               /\ decode_kernel_inbox_message(payload.value).value.kind = pointer.kind
            THEN decode_kernel_inbox_message(payload.value)
            ELSE Fail
  BY <1>2 DEF fetch_kernel_message_from_dal
<1>4. ~Fail.ok
  BY DEF Fail
<1> QED BY <1>3, <1>4 DEF payload_matches, ReadFrom

\* What is fetched is fetched through a pointer with the posted hash.
LEMMA FetchedThrough ==
  ASSUME NEW p, Fetched(p).ok
  PROVE  \E got, slots, pointer :
           /\ got = Fetched(p) /\ got.ok /\ slots = publish(p.bytes, p.size)
           /\ got = fetch_kernel_message_from_dal(slots, p.attested, pointer)
           /\ pointer.payload_hash = p.pointer.payload_hash
<1>1. PICK m, posted, pointer, slots, got :
        /\ m = pointer_to_wire(p.pointer) /\ slots = publish(p.bytes, p.size)
        /\ posted = decode_kernel_inbox_message(encode_kernel_inbox_message(m))
        /\ pointer = pointer_from_wire(posted.value, p.pointer.payload_hash)
        /\ got = Fetched(p)
  OBVIOUS
<1>2. got = IF EncodableMessage(m) /\ posted.ok
            THEN fetch_kernel_message_from_dal(slots, p.attested, pointer) ELSE Fail
  BY <1>1 DEF Fetched
<1>3. ~Fail.ok /\ got.ok
  BY <1>1 DEF Fail
<1>4. pointer.payload_hash = p.pointer.payload_hash
  BY <1>1 DEF pointer_from_wire
<1> QED BY <1>1, <1>2, <1>3, <1>4

\* fetch_kernel_message_from_dal: whatever the pointer says of kinds, chunks,
\* lengths and slots, and however much of them is attested, the kernel reads
\* the published payload or nothing, because the pointer's hash is compared
\* with the hash of what was read.
THEOREM KernelReadsPublished == Spec => []DeliveredOrNone
<1>3. ASSUME PendingInv(pending) PROVE DeliveredOrNone
  <2> SUFFICES ASSUME pending # NoMessage, Fetched(pending).ok
               PROVE  Fetched(pending) = decode_kernel_inbox_message(pending.bytes)
    BY DEF DeliveredOrNone
  <2>1. pending.pointer.payload_hash = hash(pending.bytes)
    BY <1>3 DEF PendingInv
  <2>2. PICK got, slots, pointer :
          /\ got = Fetched(pending) /\ got.ok /\ slots = publish(pending.bytes, pending.size)
          /\ got = fetch_kernel_message_from_dal(slots, pending.attested, pointer)
          /\ pointer.payload_hash = pending.pointer.payload_hash
    BY FetchedThrough
  <2>4. PICK payload : got = decode_kernel_inbox_message(payload)
                       /\ hash(payload) = pending.pointer.payload_hash
    <3>2. ReadFrom(got, pointer)
      BY <2>2, FetchIs
    <3> QED BY <2>2, <3>2 DEF ReadFrom
  <2>5. payload = pending.bytes
    BY <2>1, <2>4 DEF hash
  <2> QED BY <2>2, <2>4, <2>5
<1> QED BY <1>3, PendingIsInvariant, PTL

\* The answer to a message that was decoded can be encoded.
LEMMA AnswerEncodable ==
  ASSUME NEW m, EncodableMessage(m), Len(notes) \in Nat
  PROVE  EncodableResult(ResultOf(m))
<1>1. PICK at, r, f : at = Len(notes) /\ r = ResultOf(m) /\ f = m.fields
  OBVIOUS
<1>2. at \in Nat /\ at + 1 \in Nat /\ at + 2 \in Nat
  BY <1>1
<1>3. m.kind \in DOMAIN MessageTag /\ EncodableFields(InboxMessage[m.kind], f)
  BY <1>1 DEF EncodableMessage
<1>4. \A n \in Nat : Encodable("fixed", n)
  BY DEF Encodable
<1>5. CASE m.kind = "Shield"
  <2>1. r = [kind |-> "Shield", fields |-> <<f[6], at, f[8], at + 1>>]
    BY <1>1, <1>5 DEF ResultOf
  <2>2. f[6] \in Nat /\ f[8] \in Nat
    <3>1. InboxMessage["Shield"] = ShieldReq
      BY DEF InboxMessage
    <3>2. Len(ShieldReq) = 9 /\ ShieldReq[6] = "fixed" /\ ShieldReq[8] = "fixed"
      BY DEF ShieldReq
    <3>3. Encodable("fixed", f[6]) /\ Encodable("fixed", f[8])
      BY <1>3, <1>5, <3>1, <3>2 DEF EncodableFields
    <3> QED BY <3>3 DEF Encodable
  <2>3. PICK g : g = <<f[6], at, f[8], at + 1>>
    OBVIOUS
  <2>4. g = [i \in 1..4 |-> g[i]] /\ \A i \in 1..4 : g[i] \in Nat
    BY <1>2, <2>2, <2>3
  <2>5. KernelResult["Shield"] = ShieldResp /\ Len(ShieldResp) = 4
        /\ \A i \in 1..4 : ShieldResp[i] = "fixed"
    BY DEF KernelResult, ShieldResp
  <2>6. EncodableFields(ShieldResp, g)
    BY <1>4, <2>4, <2>5 DEF EncodableFields
  <2>7. r.kind = "Shield" /\ r.fields = g /\ r = [kind |-> r.kind, fields |-> r.fields]
    BY <2>1, <2>3
  <2> QED BY <1>1, <2>5, <2>6, <2>7, ResultTags DEF EncodableResult
<1>6. CASE m.kind = "Transfer"
  <2>1. r = [kind |-> "Transfer", fields |-> <<at, at + 1, at + 2>>]
    BY <1>1, <1>6 DEF ResultOf
  <2>3. PICK g : g = <<at, at + 1, at + 2>>
    OBVIOUS
  <2>4. g = [i \in 1..3 |-> g[i]] /\ \A i \in 1..3 : g[i] \in Nat
    BY <1>2, <2>3
  <2>5. KernelResult["Transfer"] = TransferResp /\ Len(TransferResp) = 3
        /\ \A i \in 1..3 : TransferResp[i] = "fixed"
    BY DEF KernelResult, TransferResp
  <2>6. EncodableFields(TransferResp, g)
    BY <1>4, <2>4, <2>5 DEF EncodableFields
  <2>7. r.kind = "Transfer" /\ r.fields = g /\ r = [kind |-> r.kind, fields |-> r.fields]
    BY <2>1, <2>3
  <2> QED BY <1>1, <2>5, <2>6, <2>7, ResultTags DEF EncodableResult
<1>7. CASE m.kind = "Unshield"
  <2>1. PICK o, n : /\ r = [kind |-> "Unshield", fields |-> <<o, n>>]
                    /\ n \in Nat /\ (o = <<>> \/ o = <<at>>)
    <3>1. f[8] = <<>> => r = [kind |-> "Unshield", fields |-> <<<<>>, at>>]
      BY <1>1, <1>7 DEF ResultOf
    <3>2. f[8] # <<>> => r = [kind |-> "Unshield", fields |-> <<<<at>>, at + 1>>]
      BY <1>1, <1>7 DEF ResultOf
    <3> QED BY <1>2, <3>1, <3>2
  <2>2. Encodable("optional", o)
    <3>1. o = <<>> \/ (o = <<o[1]>> /\ o[1] \in Nat)
      BY <1>2, <2>1, OneOf
    <3> QED BY <3>1 DEF Encodable
  <2>3. PICK g : g = <<o, n>>
    OBVIOUS
  <2>4. g = [i \in 1..2 |-> g[i]] /\ g[1] = o /\ g[2] = n
    BY <2>3
  <2>5. KernelResult["Unshield"] = UnshieldResp /\ Len(UnshieldResp) = 2
        /\ UnshieldResp[1] = "optional" /\ UnshieldResp[2] = "fixed"
    BY DEF KernelResult, UnshieldResp
  <2>6. EncodableFields(UnshieldResp, g)
    <3>1. \A i \in 1..2 : i = 1 \/ i = 2
      OBVIOUS
    <3> QED BY <1>4, <2>1, <2>2, <2>4, <2>5, <3>1 DEF EncodableFields
  <2>7. r.kind = "Unshield" /\ r.fields = g /\ r = [kind |-> r.kind, fields |-> r.fields]
    BY <2>1, <2>3
  <2> QED BY <1>1, <2>5, <2>6, <2>7, ResultTags DEF EncodableResult
<1>8. CASE m.kind \notin {"Shield", "Transfer", "Unshield"}
  <2>1. r = [kind |-> "Configured", fields |-> <<>>]
    BY <1>1, <1>8 DEF ResultOf
  <2>2. r.kind = "Configured" /\ r.fields = <<>> /\ r = [kind |-> r.kind, fields |-> r.fields]
    BY <2>1
  <2>3. KernelResult["Configured"] = <<>>
    BY DEF KernelResult
  <2>4. EncodableFields(<<>>, <<>>)
    <3>1. Len(<<>>) = 0 /\ 1..0 = {} /\ \A g : [i \in {} |-> g[i]] = <<>>
      OBVIOUS
    <3> QED BY <3>1 DEF EncodableFields
  <2> QED BY <1>1, <2>2, <2>3, <2>4, ResultTags DEF EncodableResult
<1> QED BY <1>5, <1>6, <1>7, <1>8

LEMMA RefusalEncodable == EncodableResult(Refused)
<1>1. PICK g, s : s = <<0>> /\ g = <<s>>
  OBVIOUS
<1>2. Refused.kind = "Error" /\ Refused.fields = g
      /\ Refused = [kind |-> Refused.kind, fields |-> Refused.fields]
  BY <1>1 DEF Refused
<1>3. PICK layout : layout = KernelResult["Error"]
  OBVIOUS
<1>4. Len(layout) = 1 /\ layout[1] = "string"
  BY <1>3 DEF KernelResult
<1>5. Encodable("string", s)
  BY <1>1, OneToken, WireAssumption DEF Encodable
<1>6. g[1] = s /\ g = [i \in 1..1 |-> g[i]]
  BY <1>1
<1>7. EncodableFields(layout, g)
  BY <1>4, <1>5, <1>6 DEF EncodableFields
<1> QED BY <1>2, <1>3, <1>7, ResultTags DEF EncodableResult

\* encode_kernel_inbox_message and decode_kernel_inbox_message, and their
\* counterparts for results: no two strings of bytes decode to one message,
\* whatever was published, and an answer of the kernel reads back as it was,
\* from no less and no more than its encoding.
THEOREM EncodingIsUnique == Spec => []UniqueEncoding
<1>1. ASSUME PendingInv(pending), DeliveryInv PROVE UniqueEncoding
  <2> SUFFICES ASSUME pending # NoMessage, decode_kernel_inbox_message(pending.bytes).ok
               PROVE  /\ encode_kernel_inbox_message(decode_kernel_inbox_message(pending.bytes).value)
                           = pending.bytes
                      /\ \A r \in {ResultOf(decode_kernel_inbox_message(pending.bytes).value), Refused} :
                           /\ decode_kernel_result(encode_kernel_result(r)) = Took(r, <<>>)
                           /\ ~decode_kernel_result(Front(encode_kernel_result(r))).ok
                           /\ ~decode_kernel_result(Append(encode_kernel_result(r), 0)).ok
    BY Zenon DEF UniqueEncoding
  <2>1. pending.bytes \in Strings
    BY <1>1 DEF PendingInv
  <2>2. PICK m : /\ EncodableMessage(m) /\ decode_kernel_inbox_message(pending.bytes) = Took(m, <<>>)
                 /\ pending.bytes = encode_kernel_inbox_message(m)
    BY <2>1, MessageIs
  <2>3. decode_kernel_inbox_message(pending.bytes).value = m
    BY <2>2, Outcomes
  <2>4. Len(notes) \in Nat
    BY <1>1, LenProperties DEF DeliveryInv, NotesInv
  <2>5. EncodableResult(ResultOf(m)) /\ EncodableResult(Refused)
    BY <2>2, <2>4, AnswerEncodable, RefusalEncodable
  <2>6. ASSUME NEW r \in {ResultOf(m), Refused}
        PROVE  /\ decode_kernel_result(encode_kernel_result(r)) = Took(r, <<>>)
               /\ ~decode_kernel_result(Front(encode_kernel_result(r))).ok
               /\ ~decode_kernel_result(Append(encode_kernel_result(r), 0)).ok
    <3>1. EncodableResult(r)
      BY <2>5
    <3> QED BY <3>1, ResultIsWhole
  <2> QED BY <2>2, <2>3, <2>6
<1> QED BY <1>1, PendingIsInvariant, DeliveryIsInvariant, PTL

-----------------------------------------------------------------------------
(***************************************************************************)
(* A payload cut into chunks and slots, and put together again.            *)
(***************************************************************************)
LEMMA TimesMonotone ==
  ASSUME NEW a \in Nat, NEW b \in Nat, NEW z \in Nat, a <= b
  PROVE  a * z <= b * z
<1>1. PICK c \in Nat : b = a + c
  <2>1. b - a \in Nat /\ b = a + (b - a)
    OBVIOUS
  <2> QED BY <2>1
<1>2. (a + c) * z = a * z + c * z /\ a * z \in Nat /\ c * z \in Nat
  OBVIOUS
<1>3. a * z <= a * z + c * z
  BY <1>2
<1> QED BY <1>1, <1>2, <1>3

LEMMA CeilIs ==
  ASSUME NEW l \in Nat \ {0}, NEW z \in Nat \ {0}, NEW n, n = div_ceil(l, z)
  PROVE  n \in Nat \ {0} /\ (n - 1) * z < l /\ l <= n * z
<1>1. PICK q, r : q = (l + z - 1) \div z /\ r = (l + z - 1) % z
  OBVIOUS
<1>2. q \in Nat /\ r \in 0..(z - 1) /\ l + z - 1 = z * q + r
  BY <1>1
<1>3. n = q
  BY <1>1 DEF div_ceil
<1>4. z * q = q * z /\ (q - 1) * z = q * z - z /\ q * z \in Nat
  BY <1>2
<1>5. q # 0
  <2> SUFFICES ASSUME q = 0 PROVE FALSE
    OBVIOUS
  <2>1. q * z = 0
    OBVIOUS
  <2> QED BY <1>2, <1>4, <2>1
<1> HIDE DEF div_ceil
<1> QED BY <1>2, <1>3, <1>4, <1>5

\* The end of the i-th piece of a payload.
Upto(l, z, i) == IF i * z < l THEN i * z ELSE l

LEMMA UptoIs ==
  ASSUME NEW l \in Nat \ {0}, NEW z \in Nat \ {0}, NEW n, n = div_ceil(l, z)
  PROVE  /\ n \in Nat \ {0} /\ Upto(l, z, 0) = 0 /\ Upto(l, z, n) = l
         /\ \A i \in 0..n : Upto(l, z, i) \in 0..l
         /\ \A i \in 1..n : /\ Upto(l, z, i - 1) = (i - 1) * z
                            /\ Upto(l, z, i - 1) < Upto(l, z, i)
                            /\ Upto(l, z, i) - Upto(l, z, i - 1) <= z
<1>1. n \in Nat \ {0} /\ (n - 1) * z < l /\ l <= n * z
  BY CeilIs
<1>2. Upto(l, z, 0) = 0
  <2>1. 0 * z = 0
    OBVIOUS
  <2> QED BY <2>1 DEF Upto
<1>3. Upto(l, z, n) = l
  <2>1. n * z \in Nat
    BY <1>1
  <2> QED BY <1>1, <2>1 DEF Upto
<1>4. ASSUME NEW i \in 0..n PROVE Upto(l, z, i) \in 0..l
  <2>1. i * z \in Nat
    BY <1>1
  <2> QED BY <2>1 DEF Upto
<1>5. ASSUME NEW i \in 1..n
      PROVE  /\ Upto(l, z, i - 1) = (i - 1) * z
             /\ Upto(l, z, i - 1) < Upto(l, z, i)
             /\ Upto(l, z, i) - Upto(l, z, i - 1) <= z
  <2>1. i - 1 \in Nat /\ n - 1 \in Nat /\ i - 1 <= n - 1 /\ i \in Nat
    BY <1>1
  <2>2. (i - 1) * z <= (n - 1) * z
    BY <2>1, TimesMonotone
  <2>3. i * z = (i - 1) * z + z /\ (i - 1) * z \in Nat /\ i * z \in Nat /\ (n - 1) * z \in Nat
    BY <2>1
  <2>4. (i - 1) * z < l
    BY <1>1, <2>2, <2>3
  <2>5. PICK x, y : x = (i - 1) * z /\ y = i * z
    OBVIOUS
  <2>6. Upto(l, z, i - 1) = x /\ Upto(l, z, i) = IF y < l THEN y ELSE l
    BY <2>4, <2>5 DEF Upto
  <2>7. y = x + z /\ x \in Nat /\ y \in Nat /\ x < l
    BY <2>3, <2>4, <2>5
  <2> QED BY <2>5, <2>6, <2>7
<1> QED BY <1>1, <1>2, <1>3, <1>4, <1>5

LEMMA SubString ==
  ASSUME NEW s \in Strings, NEW a \in 0..Len(s), NEW b \in 0..Len(s), a <= b
  PROVE  /\ SubSeq(s, a + 1, b) \in Strings /\ Len(SubSeq(s, a + 1, b)) = b - a
         /\ \A j \in 1..(b - a) : SubSeq(s, a + 1, b)[j] = s[a + j]
<1>1. s \in Seq(Nat) /\ Len(s) \in Nat /\ a + 1 \in Int /\ b \in Int
  BY LenProperties DEF Strings
<1>2. \A i \in (a + 1)..b : s[i] \in Nat
  BY <1>1, ElementOfSeq
<1>3. PICK m, t : m = a + 1 /\ t = SubSeq(s, a + 1, b)
  OBVIOUS
<1>4. /\ t \in Seq(Nat) /\ Len(t) = IF m <= b THEN b - m + 1 ELSE 0
      /\ \A i \in 1..(b - m + 1) : t[i] = s[m + i - 1]
  BY <1>1, <1>2, <1>3, SubSeqProperties
<1>5. b - m + 1 = b - a /\ (m <= b \/ b - a = 0)
  BY <1>1, <1>3
<1>6. \A j \in 1..(b - a) : m + j - 1 = a + j
  BY <1>1, <1>3
<1> QED BY <1>1, <1>3, <1>4, <1>5, <1>6 DEF Strings

\* A string cut where E says.
Pieces(parts, s, n, E) ==
  /\ E \in [0..n -> 0..Len(s)] /\ E[0] = 0 /\ \A i \in 1..n : E[i - 1] <= E[i]
  /\ parts = [i \in 1..n |-> SubSeq(s, E[i - 1] + 1, E[i])]

LEMMA PiecesJoin ==
  ASSUME NEW s \in Strings, NEW n \in Nat \ {0}, NEW E, NEW parts, Pieces(parts, s, n, E)
  PROVE  FlattenSeq(parts) = SubSeq(s, 1, E[n])
<1> USE DEF Pieces
<1>1. s \in Seq(Nat) /\ Len(s) \in Nat
  BY LenProperties DEF Strings
<1>2. ASSUME NEW i \in 1..n PROVE SubSeq(s, E[i - 1] + 1, E[i]) \in Strings
  <2>1. i \in 0..n /\ i - 1 \in 0..n
    OBVIOUS
  <2>2. E[i - 1] \in 0..Len(s) /\ E[i] \in 0..Len(s) /\ E[i - 1] <= E[i]
    BY <2>1
  <2> QED BY <2>2, SubString
<1>3. parts \in [1..n -> Strings]
  BY <1>2
<1>4. parts \in Seq(Strings) /\ Len(parts) = n
  BY <1>3, FunctionIsSeq
<1> HIDE DEF Pieces
<1>5. PICK f : /\ f[1] = parts[1]
               /\ \A i \in 2..n : f[i] = f[i - 1] \o parts[i]
               /\ FlattenSeq(parts) = f[n]
  BY <1>4, FlattenSteps
<1>6. PICK k \in Nat : n = k + 1
  <2>1. n - 1 \in Nat /\ n = (n - 1) + 1
    OBVIOUS
  <2> QED BY <2>1
<1> DEFINE T == {i \in Nat : f[i + 1] = SubSeq(s, 1, E[i + 1])}
<1>7. 0 \in T
  <2>1. 1 \in 1..n /\ 1 - 1 = 0 /\ 0 + 1 = 1
    OBVIOUS
  <2>2. parts[1] = SubSeq(s, E[0] + 1, E[1]) /\ E[0] = 0
    BY <2>1 DEF Pieces
  <2> QED BY <1>5, <2>1, <2>2
<1>8. ASSUME NEW i \in 0..(k - 1), i \in T PROVE i + 1 \in T
  <2>1. /\ i + 2 \in 2..n /\ i + 2 \in 1..n /\ i + 1 \in 0..n /\ i + 2 \in 0..n
        /\ (i + 2) - 1 = i + 1 /\ (i + 1) + 1 = i + 2
    BY <1>6
  <2>2. PICK a, b : a = E[i + 1] /\ b = E[i + 2]
    OBVIOUS
  <2>3. a \in 0..Len(s) /\ b \in 0..Len(s) /\ a <= b
    BY <2>1, <2>2 DEF Pieces
  <2>4. f[i + 2] = SubSeq(s, 1, a) \o SubSeq(s, a + 1, b)
    <3>1. parts[i + 2] = SubSeq(s, a + 1, b)
      BY <2>1, <2>2 DEF Pieces
    <3>2. f[i + 2] = f[i + 1] \o parts[i + 2]
      BY <1>5, <2>1
    <3>3. f[i + 1] = SubSeq(s, 1, a)
      BY <1>8, <2>2
    <3> QED BY <3>1, <3>2, <3>3
  <2>5. SubSeq(s, 1, a) \o SubSeq(s, a + 1, b) = SubSeq(s, 1, b)
    <3>1. 1 \in 1..(Len(s) + 1) /\ a \in (1 - 1)..Len(s) /\ b \in a..Len(s)
      BY <1>1, <2>3
    <3> QED BY <1>1, <3>1, ConcatAdjacentSubSeq
  <2>6. f[i + 2] = SubSeq(s, 1, E[i + 2])
    BY <2>2, <2>4, <2>5
  <2>7. f[(i + 1) + 1] = SubSeq(s, 1, E[(i + 1) + 1])
    BY <2>1, <2>6
  <2> QED BY <2>1, <2>7
<1> HIDE DEF T
<1>9. k \in T
  <2>1. 0..k \subseteq T
    BY <1>7, <1>8, UpTo
  <2> QED BY <2>1
<1> QED BY <1>4, <1>5, <1>6, <1>9 DEF T

\* The chunks of a payload.
LEMMA ChunksAre ==
  ASSUME NEW b \in Strings, NEW z \in Nat \ {0}, Len(b) # 0,
         NEW n, n = div_ceil(Len(b), z)
  PROVE  /\ n \in Nat \ {0}
         /\ \A i \in 1..n : /\ chunk_bytes(b, z, i) \in Strings
                            /\ Len(chunk_bytes(b, z, i)) \in 1..z
                            /\ Len(chunk_bytes(b, z, i)) =
                                 Upto(Len(b), z, i) - Upto(Len(b), z, i - 1)
         /\ FlattenSeq([i \in 1..n |-> chunk_bytes(b, z, i)]) = b
<1>1. PICK l : l = Len(b)
  OBVIOUS
<1>2. l \in Nat \ {0} /\ b \in Seq(Nat)
  BY <1>1, LenProperties DEF Strings
<1>3. /\ n \in Nat \ {0} /\ Upto(l, z, 0) = 0 /\ Upto(l, z, n) = l
      /\ \A i \in 0..n : Upto(l, z, i) \in 0..l
      /\ \A i \in 1..n : /\ Upto(l, z, i - 1) = (i - 1) * z
                         /\ Upto(l, z, i - 1) < Upto(l, z, i)
                         /\ Upto(l, z, i) - Upto(l, z, i - 1) <= z
  BY <1>1, <1>2, UptoIs
<1> DEFINE E == [i \in 0..n |-> Upto(l, z, i)]
<1>4. ASSUME NEW i \in 1..n
      PROVE  chunk_bytes(b, z, i) = SubSeq(b, Upto(l, z, i - 1) + 1, Upto(l, z, i))
  BY <1>1, <1>3 DEF chunk_bytes, Upto
<1>5. ASSUME NEW i \in 1..n
      PROVE  /\ chunk_bytes(b, z, i) \in Strings
             /\ Len(chunk_bytes(b, z, i)) \in 1..z
             /\ Len(chunk_bytes(b, z, i)) = Upto(l, z, i) - Upto(l, z, i - 1)
  <2>1. PICK x, y : x = Upto(l, z, i - 1) /\ y = Upto(l, z, i)
    OBVIOUS
  <2>2. x \in 0..Len(b) /\ y \in 0..Len(b) /\ x < y /\ y - x <= z
    <3>1. i \in 0..n /\ i - 1 \in 0..n
      BY <1>3
    <3> QED BY <1>1, <1>3, <2>1, <3>1
  <2>3. SubSeq(b, x + 1, y) \in Strings /\ Len(SubSeq(b, x + 1, y)) = y - x
    BY <2>2, SubString
  <2>4. chunk_bytes(b, z, i) = SubSeq(b, x + 1, y)
    BY <1>4, <2>1
  <2>5. y - x \in 1..z
    BY <2>2
  <2> QED BY <2>1, <2>3, <2>4, <2>5
<1>6. E \in [0..n -> 0..Len(b)] /\ E[0] = 0 /\ E[n] = l /\ \A i \in 1..n : E[i - 1] <= E[i]
  <2>1. E \in [0..n -> 0..Len(b)]
    BY <1>1, <1>3
  <2>2. 0 \in 0..n /\ n \in 0..n
    BY <1>3
  <2>3. E[0] = 0 /\ E[n] = l
    BY <1>3, <2>2
  <2>4. ASSUME NEW i \in 1..n PROVE E[i - 1] <= E[i]
    <3>1. i \in 0..n /\ i - 1 \in 0..n
      BY <1>3
    <3>2. E[i - 1] = Upto(l, z, i - 1) /\ E[i] = Upto(l, z, i)
      BY <3>1
    <3>3. Upto(l, z, i - 1) \in 0..l /\ Upto(l, z, i) \in 0..l /\ Upto(l, z, i - 1) < Upto(l, z, i)
      BY <1>3, <3>1
    <3> HIDE DEF E
    <3> QED BY <3>2, <3>3
  <2> QED BY <2>1, <2>3, <2>4
<1>7. [i \in 1..n |-> chunk_bytes(b, z, i)] = [i \in 1..n |-> SubSeq(b, E[i - 1] + 1, E[i])]
  <2>1. ASSUME NEW i \in 1..n
        PROVE  chunk_bytes(b, z, i) = SubSeq(b, E[i - 1] + 1, E[i])
    <3>1. i \in 0..n /\ i - 1 \in 0..n
      BY <1>3
    <3>2. E[i - 1] = Upto(l, z, i - 1) /\ E[i] = Upto(l, z, i)
      BY <3>1
    <3> HIDE DEF E
    <3> QED BY <1>4, <3>2
  <2> HIDE DEF E
  <2> QED BY <2>1
<1> HIDE DEF E
<1>8. FlattenSeq([i \in 1..n |-> SubSeq(b, E[i - 1] + 1, E[i])]) = SubSeq(b, 1, l)
  <2>1. PICK F, parts : F = E /\ parts = [i \in 1..n |-> SubSeq(b, F[i - 1] + 1, F[i])]
    OBVIOUS
  <2>2. F \in [0..n -> 0..Len(b)] /\ F[0] = 0 /\ \A i \in 1..n : F[i - 1] <= F[i]
    BY <1>6, <2>1
  <2>3. n \in Nat \ {0} /\ Pieces(parts, b, n, F)
    BY <1>3, <2>1, <2>2 DEF Pieces
  <2>4. FlattenSeq(parts) = SubSeq(b, 1, F[n])
    BY <2>3, PiecesJoin
  <2> QED BY <1>6, <2>1, <2>4
<1>9. SubSeq(b, 1, l) = b
  BY <1>1, <1>2, SubSeqFull
<1> QED BY <1>1, <1>3, <1>5, <1>7, <1>8, <1>9

\* A slot holds its chunk, then zeros.
LEMMA SlotIs ==
  ASSUME NEW c \in Strings, Len(c) <= SlotSize
  PROVE  /\ post_dal_slot(c) \in Strings /\ Len(post_dal_slot(c)) = SlotSize
         /\ \A i \in 1..Len(c) : post_dal_slot(c)[i] = c[i]
         /\ \A i \in (Len(c) + 1)..SlotSize : post_dal_slot(c)[i] = 0
<1>1. SlotSize \in Nat
  BY DalAssumption
<1>2. PICK m, k : m = Len(c) /\ k = SlotSize - Len(c)
  OBVIOUS
<1>3. c \in Seq(Nat) /\ m \in Nat /\ k \in Nat /\ m + k = SlotSize
  BY <1>1, <1>2, LenProperties DEF Strings
<1>4. PICK zeros : zeros = [i \in 1..k |-> 0]
  OBVIOUS
<1>5. zeros \in [1..k -> Nat]
  BY <1>4
<1>6. zeros \in Seq(Nat) /\ Len(zeros) = k
  BY <1>3, <1>5, FunctionIsSeq
<1>7. PICK s : s = c \o zeros
  OBVIOUS
<1>8. /\ s \in Seq(Nat) /\ Len(s) = m + k
      /\ \A i \in 1..(m + k) : s[i] = IF i <= m THEN c[i] ELSE zeros[i - m]
  <2>1. /\ s \in Seq(Nat) /\ Len(s) = Len(c) + Len(zeros)
        /\ \A i \in 1..(Len(c) + Len(zeros)) :
             s[i] = IF i <= Len(c) THEN c[i] ELSE zeros[i - Len(c)]
    BY <1>3, <1>6, <1>7, ConcatProperties
  <2> QED BY <1>2, <1>6, <2>1
<1>9. post_dal_slot(c) = s
  BY <1>2, <1>4, <1>7 DEF post_dal_slot
<1>10. ASSUME NEW i \in 1..m PROVE s[i] = c[i]
  <2>1. i \in 1..(m + k) /\ i <= m
    BY <1>3
  <2> QED BY <1>8, <2>1
<1>11. ASSUME NEW i \in (m + 1)..SlotSize PROVE s[i] = 0
  <2>1. i \in 1..(m + k) /\ ~(i <= m) /\ i - m \in 1..k
    BY <1>3
  <2> QED BY <1>4, <1>8, <2>1
<1> QED BY <1>2, <1>3, <1>8, <1>9, <1>10, <1>11 DEF Strings

\* The pages that hold a chunk are pages of its slot.
LEMMA PagesFit ==
  ASSUME NEW len \in 1..SlotSize, NEW n, n = div_ceil(len, PageSize)
  PROVE  n \in Nat \ {0} /\ len <= n * PageSize /\ n * PageSize <= SlotSize
<1>1. SlotSize \in Nat \ {0} /\ PageSize \in Nat \ {0} /\ SlotSize % PageSize = 0
  BY DalAssumption
<1>2. len \in Nat \ {0}
  BY <1>1
<1>3. n \in Nat \ {0} /\ (n - 1) * PageSize < len /\ len <= n * PageSize
  BY <1>1, <1>2, CeilIs
<1>4. PICK q \in Nat : SlotSize = q * PageSize
  <2>1. PICK q, r : q = SlotSize \div PageSize /\ r = SlotSize % PageSize
    OBVIOUS
  <2>2. q \in Nat /\ r = 0 /\ SlotSize = PageSize * q + r
    BY <1>1, <2>1
  <2>3. PageSize * q = q * PageSize /\ q * PageSize \in Nat
    BY <1>1, <2>2
  <2> QED BY <1>1, <2>2, <2>3
<1>5. n <= q
  <2> SUFFICES ASSUME ~(n <= q) PROVE FALSE
    OBVIOUS
  <2>1. n - 1 \in Nat /\ q <= n - 1
    BY <1>3
  <2>2. q * PageSize <= (n - 1) * PageSize
    BY <1>1, <2>1, TimesMonotone
  <2>3. q * PageSize \in Nat /\ (n - 1) * PageSize \in Nat
    BY <1>1, <2>1
  <2> QED BY <1>1, <1>2, <1>3, <1>4, <2>2, <2>3
<1>6. n * PageSize <= q * PageSize
  BY <1>1, <1>3, <1>5, TimesMonotone
<1> QED BY <1>3, <1>4, <1>6

LEMMA PagesRead ==
  ASSUME NEW slot \in Strings, Len(slot) = SlotSize, NEW len \in 1..SlotSize,
         NEW n, n = div_ceil(len, PageSize)
  PROVE  FlattenSeq([p \in 1..n |-> SubSeq(slot, (p - 1) * PageSize + 1, ((p - 1) + 1) * PageSize)])
           = SubSeq(slot, 1, n * PageSize)
<1>1. n \in Nat \ {0} /\ n * PageSize <= SlotSize
  BY PagesFit
<1>2. PageSize \in Nat \ {0} /\ SlotSize \in Nat
  BY DalAssumption
<1>3. PICK E, pages :
        /\ E = [i \in 0..n |-> i * PageSize]
        /\ pages = [p \in 1..n |-> SubSeq(slot, (p - 1) * PageSize + 1, ((p - 1) + 1) * PageSize)]
  OBVIOUS
<1>4. ASSUME NEW i \in 0..n PROVE E[i] = i * PageSize /\ E[i] \in 0..Len(slot)
  <2>1. i \in Nat /\ i <= n
    BY <1>1
  <2>2. i * PageSize <= n * PageSize
    BY <1>1, <1>2, <2>1, TimesMonotone
  <2>3. i * PageSize \in Nat /\ n * PageSize \in Nat
    BY <1>1, <1>2, <2>1
  <2>4. i * PageSize \in 0..SlotSize
    BY <1>1, <1>2, <2>2, <2>3
  <2> QED BY <1>3, <2>4
<1>5. E \in [0..n -> 0..Len(slot)]
  BY <1>3, <1>4
<1>6. E[0] = 0 /\ E[n] = n * PageSize
  <2>1. 0 \in 0..n /\ n \in 0..n /\ 0 * PageSize = 0
    BY <1>1, <1>2
  <2> QED BY <1>4, <2>1
<1>7. ASSUME NEW i \in 1..n
      PROVE  /\ E[i - 1] <= E[i] /\ E[i - 1] = (i - 1) * PageSize
             /\ E[i] = ((i - 1) + 1) * PageSize
  <2>1. i \in 0..n /\ i - 1 \in 0..n /\ i - 1 \in Nat /\ i \in Nat /\ i - 1 <= i /\ (i - 1) + 1 = i
    BY <1>1
  <2>2. (i - 1) * PageSize <= i * PageSize
    BY <1>2, <2>1, TimesMonotone
  <2> QED BY <1>4, <2>1, <2>2
<1>8. ASSUME NEW p \in 1..n
      PROVE  SubSeq(slot, (p - 1) * PageSize + 1, ((p - 1) + 1) * PageSize)
               = SubSeq(slot, E[p - 1] + 1, E[p])
  BY <1>7
<1>9. pages = [p \in 1..n |-> SubSeq(slot, E[p - 1] + 1, E[p])]
  BY <1>3, <1>8
<1>10. Pieces(pages, slot, n, E)
  BY <1>5, <1>6, <1>7, <1>9 DEF Pieces
<1>11. FlattenSeq(pages) = SubSeq(slot, 1, E[n])
  BY <1>1, <1>10, PiecesJoin
<1> QED BY <1>3, <1>6, <1>11

\* A pointer to a chunk in its slot.
PointsAt(chunk, slots, attested, c) ==
  /\ chunk.slot_index = SlotIndex /\ chunk.published_level \in attested
  /\ slots[chunk.published_level] = post_dal_slot(c)
  /\ chunk.payload_len = Len(c)

LEMMA ChunkFetched ==
  ASSUME NEW slots, NEW attested, NEW chunk, NEW c \in Strings, Len(c) \in 1..SlotSize,
         PointsAt(chunk, slots, attested, c)
  PROVE  fetch_chunk(slots, attested, chunk) = Took(c, <<>>)
<1>1. PICK len, n, slot, pages, bytes :
        /\ len = Len(c) /\ n = div_ceil(len, PageSize) /\ slot = post_dal_slot(c)
        /\ pages = [p \in 1..n |-> reveal_dal_page(slots, attested, chunk, p - 1)]
        /\ bytes = FlattenSeq(pages)
  OBVIOUS
<1>2. fetch_chunk(slots, attested, chunk) =
        IF \/ len = 0 \/ len > SlotSize
           \/ SlotIndex >= NumberOfSlots
           \/ Len(bytes) < len
           \/ \E i \in len + 1 .. Len(bytes) : bytes[i] # 0
        THEN Fail ELSE Took(SubSeq(bytes, 1, len), <<>>)
  BY <1>1 DEF fetch_chunk, page_count, PointsAt
<1>3. /\ SlotSize \in Nat /\ SlotIndex \in 0..(NumberOfSlots - 1) /\ NumberOfSlots \in Nat
      /\ PageSize \in Nat \ {0}
  BY DalAssumption
<1>4. len \in 1..SlotSize
  BY <1>1
<1>5. n \in Nat \ {0} /\ len <= n * PageSize /\ n * PageSize <= SlotSize
  BY <1>1, <1>4, PagesFit
<1>6. /\ slot \in Strings /\ Len(slot) = SlotSize
      /\ \A i \in 1..len : slot[i] = c[i]
      /\ \A i \in (len + 1)..SlotSize : slot[i] = 0
  <2>1. Len(c) <= SlotSize
    BY <1>3
  <2> QED BY <1>1, <2>1, SlotIs
<1>7. \A p : reveal_dal_page(slots, attested, chunk, p)
               = SubSeq(slot, p * PageSize + 1, (p + 1) * PageSize)
  BY <1>1 DEF reveal_dal_page, PointsAt
<1>8. pages = [p \in 1..n |-> SubSeq(slot, (p - 1) * PageSize + 1, ((p - 1) + 1) * PageSize)]
  BY <1>1, <1>7
<1>9. bytes = SubSeq(slot, 1, n * PageSize)
  BY <1>1, <1>4, <1>6, <1>8, PagesRead
<1>10. PICK m \in Nat : m = n * PageSize
  BY <1>3, <1>5
<1>11. bytes \in Strings /\ Len(bytes) = m /\ \A j \in 1..m : bytes[j] = slot[j]
  <2>1. 0 \in 0..Len(slot) /\ m \in 0..Len(slot) /\ 0 <= m /\ 0 + 1 = 1 /\ m - 0 = m
    BY <1>3, <1>5, <1>6, <1>10
  <2>2. /\ SubSeq(slot, 0 + 1, m) \in Strings /\ Len(SubSeq(slot, 0 + 1, m)) = m - 0
        /\ \A j \in 1..(m - 0) : SubSeq(slot, 0 + 1, m)[j] = slot[0 + j]
    BY <1>6, <2>1, SubString
  <2>3. \A j \in 1..m : 0 + j = j
    OBVIOUS
  <2> QED BY <1>9, <1>10, <2>1, <2>2, <2>3
<1>12. ASSUME NEW i \in (len + 1)..Len(bytes) PROVE bytes[i] = 0
  <2>1. i \in (len + 1)..SlotSize /\ i \in 1..m
    BY <1>3, <1>4, <1>5, <1>10, <1>11
  <2> QED BY <1>6, <1>11, <2>1
<1>13. SubSeq(bytes, 1, len) = c
  <2>1. 0 \in 0..Len(bytes) /\ len \in 0..Len(bytes) /\ 0 <= len /\ 0 + 1 = 1 /\ len - 0 = len
    BY <1>3, <1>4, <1>5, <1>10, <1>11
  <2>2. /\ SubSeq(bytes, 0 + 1, len) \in Strings /\ Len(SubSeq(bytes, 0 + 1, len)) = len - 0
        /\ \A j \in 1..(len - 0) : SubSeq(bytes, 0 + 1, len)[j] = bytes[0 + j]
    BY <1>11, <2>1, SubString
  <2>3. PICK t : t = SubSeq(bytes, 1, len)
    OBVIOUS
  <2>4. t \in Seq(Nat) /\ c \in Seq(Nat) /\ Len(t) = len
    BY <2>1, <2>2, <2>3 DEF Strings
  <2>5. ASSUME NEW j \in 1..len PROVE t[j] = c[j]
    <3>1. 0 + j = j /\ j \in 1..m
      BY <1>4, <1>5, <1>10
    <3> QED BY <1>6, <1>11, <2>1, <2>2, <2>3, <3>1
  <2> QED BY <1>1, <2>3, <2>4, <2>5, SeqEqual
<1>14. ~(len = 0) /\ ~(len > SlotSize) /\ ~(SlotIndex >= NumberOfSlots) /\ ~(Len(bytes) < len)
  BY <1>3, <1>4, <1>5, <1>10, <1>11
<1> QED BY <1>2, <1>12, <1>13, <1>14

LEMMA TotalSteps ==
  ASSUME NEW chunks, Len(chunks) \in Nat
  PROVE  \E f : /\ f[0] = 0
                /\ \A i \in 1..Len(chunks) : f[i] = f[i - 1] + chunks[i].payload_len
                /\ declared_total(chunks) = f[Len(chunks)]
<1> DEFINE Is(m, f) == f = [i \in 0..m |-> IF i = 0 THEN 0 ELSE f[i - 1] + chunks[i].payload_len]
           T == {m \in Nat : \E f : Is(m, f)}
           f0 == CHOOSE f : Is(Len(chunks), f)
<1>f. declared_total(chunks) = f0[Len(chunks)]
  BY DEF declared_total
<1>1. 0 \in T
  <2>1. Is(0, [i \in 0..0 |-> 0])
    OBVIOUS
  <2> HIDE DEF Is
  <2> QED BY <2>1
<1>2. ASSUME NEW m \in Nat, m \in T PROVE m + 1 \in T
  <2>1. PICK f : Is(m, f)
    BY <1>2
  <2> DEFINE g == [i \in 0..(m + 1) |-> IF i = m + 1 THEN f[m] + chunks[m + 1].payload_len ELSE f[i]]
  <2>2. ASSUME NEW i \in 0..(m + 1)
        PROVE  g[i] = IF i = 0 THEN 0 ELSE g[i - 1] + chunks[i].payload_len
    <3>1. CASE i = m + 1
      <4>1. i - 1 = m /\ i - 1 \in 0..(m + 1) /\ i - 1 # m + 1 /\ i # 0
        BY <3>1
      <4>2. g[i - 1] = f[m] /\ g[i] = f[m] + chunks[m + 1].payload_len
        BY <3>1, <4>1
      <4> HIDE DEF g
      <4> QED BY <3>1, <4>1, <4>2
    <3>2. CASE i # m + 1
      <4>1. i \in 0..m /\ g[i] = f[i]
        BY <3>2
      <4>2. f[i] = IF i = 0 THEN 0 ELSE f[i - 1] + chunks[i].payload_len
        BY <2>1, <4>1
      <4>3. i # 0 => i - 1 \in 0..(m + 1) /\ i - 1 # m + 1
        BY <4>1
      <4>4. i # 0 => g[i - 1] = f[i - 1]
        BY <4>3
      <4> HIDE DEF g
      <4> QED BY <4>1, <4>2, <4>4
    <3> QED BY <3>1, <3>2
  <2>3. g = [i \in 0..(m + 1) |-> g[i]]
    OBVIOUS
  <2> HIDE DEF g
  <2>4. Is(m + 1, g)
    BY <2>2, <2>3
  <2> HIDE DEF Is
  <2> QED BY <2>4
<1> HIDE DEF T
<1>3. Nat \subseteq T
  BY <1>1, <1>2, SetInduction
<1>4. \E f : Is(Len(chunks), f)
  <2>1. Len(chunks) \in T
    BY <1>3
  <2> HIDE DEF Is
  <2> QED BY <2>1 DEF T
<1>5. Is(Len(chunks), f0)
  <2> HIDE DEF Is
  <2> QED BY <1>4
<1> HIDE DEF f0
<1>6. \A i \in 0..Len(chunks) : f0[i] = IF i = 0 THEN 0 ELSE f0[i - 1] + chunks[i].payload_len
  BY <1>5
<1>7. f0[0] = 0
  <2>1. 0 \in 0..Len(chunks)
    OBVIOUS
  <2> QED BY <1>6, <2>1
<1>8. ASSUME NEW i \in 1..Len(chunks) PROVE f0[i] = f0[i - 1] + chunks[i].payload_len
  <2>1. i \in 0..Len(chunks) /\ i # 0
    OBVIOUS
  <2> QED BY <1>6, <2>1
<1> QED BY <1>f, <1>7, <1>8

\* The operator's pointer to a payload.
LEMMA PointerIs ==
  ASSUME NEW b \in Strings, NEW z \in Nat \ {0}, Len(b) # 0, NEW kind, NEW n, NEW chunks,
         n = div_ceil(Len(b), z), chunks = dal_pointer_from_submission(kind, b, z).chunks
  PROVE  /\ DOMAIN chunks = 1..n /\ Len(chunks) = n /\ chunks # <<>>
         /\ \A i \in 1..n : /\ chunks[i].published_level = i
                            /\ chunks[i].slot_index = SlotIndex
                            /\ chunks[i].payload_len = Len(chunk_bytes(b, z, i))
         /\ declared_total(chunks) = Len(b)
<1>1. /\ n \in Nat \ {0}
      /\ \A i \in 1..n : Len(chunk_bytes(b, z, i)) = Upto(Len(b), z, i) - Upto(Len(b), z, i - 1)
  BY ChunksAre
<1> DEFINE At(i) == [published_level |-> i, slot_index |-> SlotIndex,
                     payload_len |-> Len(chunk_bytes(b, z, i))]
<1>2. chunks = [i \in 1..n |-> At(i)]
  BY DEF dal_pointer_from_submission
<1>3. /\ DOMAIN chunks = 1..n
      /\ \A i \in 1..n : /\ chunks[i].published_level = i
                         /\ chunks[i].slot_index = SlotIndex
                         /\ chunks[i].payload_len = Len(chunk_bytes(b, z, i))
  BY <1>2
<1>4. Len(chunks) = n /\ chunks # <<>>
  <2>1. PICK S : S = {At(i) : i \in 1..n}
    OBVIOUS
  <2>2. chunks \in [1..n -> S]
    <3> HIDE DEF At
    <3> QED BY <1>2, <2>1
  <2>3. chunks \in Seq(S) /\ Len(chunks) = n
    BY <1>1, <2>2, FunctionIsSeq
  <2> QED BY <1>1, <2>3, EmptySeq
<1> HIDE DEF At
<1>5. PICK f : /\ f[0] = 0
               /\ \A i \in 1..n : f[i] = f[i - 1] + chunks[i].payload_len
               /\ declared_total(chunks) = f[n]
  BY <1>1, <1>4, TotalSteps
<1>6. PICK l : l = Len(b)
  OBVIOUS
<1>7. l \in Nat \ {0}
  BY <1>6, LenProperties DEF Strings
<1>8. /\ Upto(l, z, 0) = 0 /\ Upto(l, z, n) = l
      /\ \A i \in 0..n : Upto(l, z, i) \in 0..l
  BY <1>6, <1>7, UptoIs
<1> DEFINE T == {i \in 0..n : f[i] = Upto(l, z, i)}
<1>9. 0 \in T
  BY <1>1, <1>5, <1>8
<1>10. ASSUME NEW i \in 0..(n - 1), i \in T PROVE i + 1 \in T
  <2>1. i + 1 \in 1..n /\ (i + 1) - 1 = i /\ i + 1 \in 0..n /\ i \in 0..n
    BY <1>1
  <2>2. f[i + 1] = f[i] + chunks[i + 1].payload_len
    BY <1>5, <2>1
  <2>3. chunks[i + 1].payload_len = Upto(l, z, i + 1) - Upto(l, z, i)
    BY <1>1, <1>3, <1>6, <2>1
  <2>4. f[i] = Upto(l, z, i)
    BY <1>10
  <2>5. PICK x, y : x = Upto(l, z, i) /\ y = Upto(l, z, i + 1)
    OBVIOUS
  <2>6. x \in Int /\ y \in Int
    BY <1>7, <1>8, <2>1, <2>5
  <2>7. f[i + 1] = x + (y - x)
    BY <2>2, <2>3, <2>4, <2>5
  <2>8. f[i + 1] = y
    BY <2>6, <2>7
  <2> QED BY <2>1, <2>5, <2>8
<1> HIDE DEF T
<1>11. n \in T
  <2>1. 0..n \subseteq T
    BY <1>1, <1>9, <1>10, UpTo
  <2> QED BY <1>1, <2>1
<1>12. declared_total(chunks) = l
  BY <1>5, <1>8, <1>11 DEF T
<1> QED BY <1>3, <1>4, <1>6, <1>12

\* The kernel gets the payload from its slots.
LEMMA PayloadFetched ==
  ASSUME NEW b \in Strings, NEW z \in 1..SlotSize, Len(b) # 0, NEW kind, NEW chunks,
         chunks = dal_pointer_from_submission(kind, b, z).chunks
  PROVE  fetch_payload(publish(b, z), DOMAIN chunks, chunks) = Took(b, <<>>)
<1>0. z \in Nat \ {0} /\ SlotSize \in Nat
  BY DalAssumption
<1>1. PICK n, slots : n = div_ceil(Len(b), z) /\ slots = publish(b, z)
  OBVIOUS
<1>2. /\ DOMAIN chunks = 1..n
      /\ \A i \in 1..n : /\ chunks[i].published_level = i
                         /\ chunks[i].slot_index = SlotIndex
                         /\ chunks[i].payload_len = Len(chunk_bytes(b, z, i))
  BY <1>0, <1>1, PointerIs
<1>3. /\ \A i \in 1..n : /\ chunk_bytes(b, z, i) \in Strings
                         /\ Len(chunk_bytes(b, z, i)) \in 1..z
      /\ FlattenSeq([i \in 1..n |-> chunk_bytes(b, z, i)]) = b
  BY <1>0, <1>1, ChunksAre
<1>4. ASSUME NEW i \in 1..n
      PROVE  fetch_chunk(slots, 1..n, chunks[i]) = Took(chunk_bytes(b, z, i), <<>>)
  <2>1. PICK c, chunk : c = chunk_bytes(b, z, i) /\ chunk = chunks[i]
    OBVIOUS
  <2>2. slots[i] = post_dal_slot(c)
    BY <1>1, <2>1 DEF publish
  <2>3. c \in Strings /\ Len(c) \in 1..SlotSize
    BY <1>0, <1>3, <2>1
  <2>4. PointsAt(chunk, slots, 1..n, c)
    BY <1>2, <2>1, <2>2 DEF PointsAt
  <2> QED BY <2>1, <2>3, <2>4, ChunkFetched
<1>5. PICK got : got = [i \in DOMAIN chunks |-> fetch_chunk(slots, 1..n, chunks[i])]
  OBVIOUS
<1>6. DOMAIN got = 1..n /\ \A i \in 1..n : got[i].ok /\ got[i].value = chunk_bytes(b, z, i)
  BY <1>2, <1>4, <1>5, Outcomes
<1>7. fetch_payload(slots, 1..n, chunks) =
        IF \E i \in DOMAIN got : ~got[i].ok THEN Fail
        ELSE Took(FlattenSeq([i \in DOMAIN got |-> got[i].value]), <<>>)
  BY <1>5 DEF fetch_payload
<1>8. [i \in DOMAIN got |-> got[i].value] = [i \in 1..n |-> chunk_bytes(b, z, i)]
  BY <1>6
<1> QED BY <1>1, <1>2, <1>3, <1>6, <1>7, <1>8

LEMMA NothingDecodes == decode_kernel_inbox_message(<<>>) = Fail
<1>1. take_fixed(<<>>) = Fail
  BY DEF take_fixed
<1>2. TakeEnvelope(<<>>, MessageTag) = Fail
  BY <1>1, Outcomes DEF TakeEnvelope
<1>3. \A fields : Decoded(Fail, fields) = Fail
  BY MessageDecoded
<1> QED BY <1>2, <1>3 DEF decode_kernel_inbox_message

\* fetch_kernel_message_from_dal on the operator's pointer.
LEMMA Reassembled ==
  ASSUME NEW b \in Strings, NEW z \in 1..SlotSize, NEW kind, NEW pointer, NEW m,
         pointer = dal_pointer_from_submission(kind, b, z),
         m = decode_kernel_inbox_message(b), m.ok
  PROVE  fetch_kernel_message_from_dal(publish(b, z), DOMAIN pointer.chunks, pointer) =
           IF Len(b) <= MaxDalPayload /\ m.value.kind = kind THEN m ELSE Fail
<1>1. Len(b) \in Nat \ {0}
  <2>1. b # <<>>
    BY NothingDecodes, Outcomes
  <2> QED BY <2>1, LenProperties, EmptySeq DEF Strings
<1>2. PICK chunks, slots, payload :
        /\ chunks = pointer.chunks /\ slots = publish(b, z)
        /\ payload = fetch_payload(slots, DOMAIN chunks, chunks)
  OBVIOUS
<1>3. pointer.kind = kind /\ pointer.payload_len = Len(b) /\ pointer.payload_hash = hash(b)
  BY DEF dal_pointer_from_submission
<1>4. z \in Nat \ {0} /\ MaxDalPayload \in Nat
  BY DalAssumption
<1>5. PICK n : n = div_ceil(Len(b), z)
  OBVIOUS
<1>6. chunks # <<>> /\ declared_total(chunks) = Len(b)
  BY <1>1, <1>2, <1>4, <1>5, PointerIs
<1>7. payload = Took(b, <<>>)
  BY <1>1, <1>2, PayloadFetched
<1>8. payload.ok /\ payload.value = b
  BY <1>7, Outcomes
<1>9. fetch_kernel_message_from_dal(slots, DOMAIN chunks, pointer) =
        IF /\ chunks # <<>>
           /\ Len(b) \in 1 .. MaxDalPayload
           /\ declared_total(chunks) = Len(b)
           /\ payload.ok
           /\ payload_matches(payload.value, pointer)
           /\ decode_kernel_inbox_message(payload.value).ok
           /\ decode_kernel_inbox_message(payload.value).value.kind = kind
        THEN decode_kernel_inbox_message(payload.value)
        ELSE Fail
  BY <1>2, <1>3 DEF fetch_kernel_message_from_dal
<1>10. payload_matches(b, pointer)
  BY <1>3 DEF payload_matches
<1>11. Len(b) \in 1..MaxDalPayload <=> Len(b) <= MaxDalPayload
  BY <1>1, <1>4
<1> QED BY <1>2, <1>6, <1>8, <1>9, <1>10, <1>11

\* The operator's pointer can be posted just when it has few enough chunks, and
\* is then read as it was.
LEMMA PointerPosted ==
  ASSUME NEW b \in Strings, NEW z \in 1..SlotSize, NEW kind \in DOMAIN KindTag, NEW pointer,
         b # <<>>, pointer = dal_pointer_from_submission(kind, b, z), NEW m,
         m = pointer_to_wire(pointer)
  PROVE  /\ EncodableMessage(m) <=> 3 * Len(pointer.chunks) <= MaxChunks
         /\ EncodableMessage(m) =>
              pointer_from_wire(m, pointer.payload_hash) = pointer
<1>1. PICK chunks, n, f : chunks = pointer.chunks /\ n = Len(chunks) /\ f = m.fields
  OBVIOUS
<1>2. /\ m = [kind |-> "DalPointer", fields |-> <<kind, chunks, 0, Len(b)>>]
      /\ pointer = [kind |-> kind, chunks |-> chunks, payload_len |-> Len(b),
                     payload_hash |-> pointer.payload_hash]
  BY <1>1 DEF pointer_to_wire, dal_pointer_from_submission
<1>3. /\ m.kind = "DalPointer" /\ f = <<kind, chunks, 0, Len(b)>>
      /\ m = [kind |-> m.kind, fields |-> m.fields]
  BY <1>1, <1>2
<1>4. f[1] = kind /\ f[2] = chunks /\ f[3] = 0 /\ f[4] = Len(b)
      /\ f = [i \in 1..4 |-> f[i]]
  BY <1>3
<1>5. Len(b) \in Nat \ {0} /\ z \in Nat \ {0}
  BY LenProperties, EmptySeq, DalAssumption DEF Strings
<1>6. chunks \in Seq(Pointer) /\ n \in Nat \ {0}
  <2>1. PICK k : k = div_ceil(Len(b), z)
    OBVIOUS
  <2>2. chunks = [i \in 1..k |-> [published_level |-> i, slot_index |-> SlotIndex,
                                  payload_len |-> Len(chunk_bytes(b, z, i))]]
    BY <1>1, <2>1 DEF dal_pointer_from_submission
  <2>3. k \in Nat \ {0} /\ \A i \in 1..k : Len(chunk_bytes(b, z, i)) \in 1..z
    BY <1>5, <2>1, ChunksAre
  <2>4. SlotIndex \in Nat
    BY DalAssumption
  <2>5. chunks \in [1..k -> Pointer]
    BY <2>2, <2>3, <2>4 DEF Pointer
  <2>6. chunks \in Seq(Pointer) /\ Len(chunks) = k
    BY <2>3, <2>5, FunctionIsSeq
  <2> QED BY <1>1, <2>3, <2>6
<1>7. /\ InboxMessage["DalPointer"] = DalPayloadPointer /\ Len(DalPayloadPointer) = 4
      /\ DalPayloadPointer[1] = "kind" /\ DalPayloadPointer[2] = "chunks"
      /\ DalPayloadPointer[3] = "fixed" /\ DalPayloadPointer[4] = "fixed"
      /\ "DalPointer" \in DOMAIN MessageTag /\ "DalPointer" \notin Wrapped
  BY DEF InboxMessage, DalPayloadPointer, MessageTag, Wrapped
<1>8. Encodable("kind", kind) /\ Encodable("fixed", 0) /\ Encodable("fixed", Len(b))
  BY <1>5 DEF Encodable
<1>9. Encodable("chunks", chunks) <=> 3 * n <= MaxChunks
  <2>1. Encodable("chunks", chunks) <=>
          /\ chunks \in Seq(Pointer) /\ 1 <= Len(chunks)
          /\ 3 * Len(chunks) <= MaxChunks /\ 3 * Len(chunks) + 1 <= MaxBytes
    BY DEF Encodable
  <2> QED BY <1>1, <1>6, <2>1, WireAssumption
<1>10. EncodableFields(DalPayloadPointer, f) <=> Encodable("chunks", chunks)
  <2>1. EncodableFields(DalPayloadPointer, f) <=>
          \A i \in 1..4 : Encodable(DalPayloadPointer[i], f[i])
    BY <1>4, <1>7 DEF EncodableFields
  <2>2. \A i \in 1..4 : i = 1 \/ i = 2 \/ i = 3 \/ i = 4
    OBVIOUS
  <2>3. 1 \in 1..4 /\ 2 \in 1..4 /\ 3 \in 1..4 /\ 4 \in 1..4
    OBVIOUS
  <2> QED BY <1>4, <1>7, <1>8, <2>1, <2>2, <2>3, Zenon
<1>11. EncodableMessage(m) <=> EncodableFields(DalPayloadPointer, f)
  BY <1>1, <1>3, <1>7 DEF EncodableMessage
<1>12. pointer_from_wire(m, pointer.payload_hash) = pointer
  BY <1>1, <1>2, <1>4 DEF pointer_from_wire
<1> QED BY <1>1, <1>9, <1>10, <1>11, <1>12

\* What the kernel gets through the operator's pointer.
LEMMA PointedFetched ==
  ASSUME NEW p, NEW b \in Strings, NEW z \in 1..SlotSize, NEW kind \in DOMAIN KindTag,
         p.bytes = b, p.size = z, p.pointer = dal_pointer_from_submission(kind, b, z),
         p.attested = DOMAIN p.pointer.chunks, NEW d, d = decode_kernel_inbox_message(b), d.ok
  PROVE  Fetched(p) = IF Carried(p) /\ d.value.kind = kind THEN d ELSE Fail
<1>1. PICK m, e, posted, pointer, slots :
        /\ m = pointer_to_wire(pointer) /\ pointer = p.pointer
        /\ slots = publish(b, z) /\ e = encode_kernel_inbox_message(m)
        /\ posted = decode_kernel_inbox_message(e)
  OBVIOUS
<1>2. Fetched(p) = IF EncodableMessage(m) /\ posted.ok
                   THEN fetch_kernel_message_from_dal(slots, p.attested,
                          pointer_from_wire(posted.value, pointer.payload_hash))
                   ELSE Fail
  BY <1>1 DEF Fetched
<1>3. b # <<>>
  BY NothingDecodes, Outcomes
<1>4. /\ EncodableMessage(m) <=> 3 * Len(pointer.chunks) <= MaxChunks
      /\ EncodableMessage(m) => pointer_from_wire(m, pointer.payload_hash) = pointer
  BY <1>1, <1>3, PointerPosted
<1>5. EncodableMessage(m) => posted.ok /\ posted.value = m
  <2>1. EncodableMessage(m) => posted = Took(m, <<>>)
    BY <1>1, MessageReadsBack
  <2> QED BY <2>1, Outcomes
<1>6. fetch_kernel_message_from_dal(slots, p.attested, pointer) =
        IF Len(b) <= MaxDalPayload /\ d.value.kind = kind THEN d ELSE Fail
  BY <1>1, Reassembled
<1>7. Carried(p) <=> Len(b) <= MaxDalPayload /\ 3 * Len(pointer.chunks) <= MaxChunks
  BY <1>1 DEF Carried
<1>8. CASE EncodableMessage(m)
  <2>1. Fetched(p) = fetch_kernel_message_from_dal(slots, p.attested, pointer)
    BY <1>2, <1>4, <1>5, <1>8
  <2> QED BY <1>4, <1>6, <1>7, <1>8, <2>1
<1>9. CASE ~EncodableMessage(m)
  BY <1>2, <1>4, <1>7, <1>9
<1> QED BY <1>8, <1>9

\* validate_fee_note_against_policy: a note that passes it is the operator's,
\* and its commitment is the one stored with it.
LEMMA FeeNotePays ==
  ASSUME NEW cm, NEW enc, NEW fee,
         validate_fee_note_against_policy(load_dal_fee_policy, cm, enc, fee)
  PROVE  cm = enc /\ PaysOperator(enc)
<1>1. PICK account, policy, opened :
        /\ account = derive_account(OperatorKey) /\ policy = load_dal_fee_policy
        /\ opened = decrypt_memo(Output[enc].enc, policy.keys.v)
  OBVIOUS
<1>2. /\ policy.amount = RequiredDalFee
      /\ policy.keys = derive_kem_keys(account.incoming_seed, FeeIndex)
      /\ policy.address = payment_address(account, FeeIndex)
  BY <1>1 DEF load_dal_fee_policy
<1>3. /\ enc \in Token /\ cm \in Token /\ opened # <<>>
      /\ opened[1].v = RequiredDalFee
      /\ note_commitment(policy.address, opened[1].v, opened[1].rseed) = Output[cm].cm
  BY <1>1, <1>2 DEF validate_fee_note_against_policy, Token
<1>4. opened = decrypt_memo(Output[enc].enc, derive_kem_view_seed(account.incoming_seed, FeeIndex))
  BY <1>1, <1>2 DEF derive_kem_keys
<1>5. opened = IF Plain[enc].to = OperatorKey /\ Plain[enc].j = FeeIndex
               THEN <<[v |-> Plain[enc].v, rseed |-> enc]>> ELSE <<>>
  BY <1>1, <1>3, <1>4, OwnOpens
<1>6. Plain[enc].to = OperatorKey /\ Plain[enc].j = FeeIndex
  BY <1>3, <1>5
<1>7. opened[1].v = Plain[enc].v /\ opened[1].rseed = enc
  BY <1>5, <1>6
<1>8. policy.address = AddressOf(enc)
  BY <1>1, <1>2, <1>6 DEF AddressOf
<1>9. Output[cm].cm = Output[enc].cm
  BY <1>3, <1>7, <1>8, OutputCm
<1>10. cm = enc
  BY <1>3, <1>9, OutputCmApart
<1> QED BY <1>3, <1>6, <1>7, <1>10 DEF PaysOperator, Token

\* A spend that the operator takes stores a note that pays it.
LEMMA AcceptedPays ==
  ASSUME NEW m, enforce_dal_fee_policy(load_dal_fee_policy, m)
  PROVE  \E note \in Range(published_notes(m)) : note[1] = note[2] /\ PaysOperator(note[2])
<1>1. PICK n \in FeeNote(load_dal_fee_policy, m) :
        validate_fee_note_against_policy(load_dal_fee_policy, n.cm, n.enc, n.fee)
  BY DEF enforce_dal_fee_policy
<1>2. n.cm = n.enc /\ PaysOperator(n.enc)
  BY <1>1, FeeNotePays
<1>3. PICK f, note, added : f = m.fields /\ note = <<n.cm, n.enc>> /\ added = published_notes(m)
  OBVIOUS
<1>4. note[1] = note[2] /\ PaysOperator(note[2])
  BY <1>2, <1>3
<1>5. CASE m.kind = "Shield"
  <2>1. n.cm = f[8] /\ n.enc = f[9]
    BY <1>1, <1>3, <1>5 DEF FeeNote
  <2>2. added = <<<<f[6], f[7]>>, note>>
    BY <1>3, <1>5, <2>1 DEF published_notes
  <2>3. 2 \in DOMAIN added /\ added[2] = note
    BY <2>2
  <2> QED BY <1>3, <1>4, <2>3 DEF Range
<1>6. CASE m.kind = "Transfer"
  <2>1. n.cm = f[6] /\ n.enc = f[10]
    BY <1>1, <1>3, <1>6 DEF FeeNote
  <2>2. added = <<<<f[4], f[8]>>, <<f[5], f[9]>>, note>>
    BY <1>3, <1>6, <2>1 DEF published_notes
  <2>3. 3 \in DOMAIN added /\ added[3] = note
    BY <2>2
  <2> QED BY <1>3, <1>4, <2>3 DEF Range
<1>7. CASE m.kind = "Unshield"
  <2>1. n.cm = f[9] /\ n.enc = f[10]
    BY <1>1, <1>3, <1>7 DEF FeeNote
  <2>2. f[8] = <<>> => added = <<>> \o <<note>>
    BY <1>3, <1>7, <2>1 DEF published_notes
  <2>3. f[8] # <<>> => added = <<<<f[6], f[8][1]>>>> \o <<note>>
    BY <1>3, <1>7, <2>1 DEF published_notes
  <2>4. \E i \in DOMAIN added : added[i] = note
    <3>1. CASE f[8] = <<>>
      <4>1. added = <<note>>
        BY <2>2, <3>1
      <4> QED BY <4>1
    <3>2. CASE f[8] # <<>>
      <4>1. PICK x : x = <<f[6], f[8][1]>>
        OBVIOUS
      <4>2. added = <<x, note>>
        BY <2>3, <3>2, <4>1
      <4> QED BY <4>2
    <3> QED BY <3>1, <3>2
  <2> QED BY <1>3, <1>4, <2>4 DEF Range
<1>8. CASE m.kind \notin {"Shield", "Transfer", "Unshield"}
  BY <1>1, <1>8 DEF FeeNote
<1> QED BY <1>5, <1>6, <1>7, <1>8

LEMMA ExactIs ==
  ASSUME NEW p, Exact(p), NEW b, b = encode_kernel_inbox_message(p.message)
  PROVE  /\ p.bytes = b
         /\ p.pointer = dal_pointer_from_submission(kernel_message_kind(p.message), b, p.size)
         /\ p.attested = DOMAIN p.pointer.chunks
<1>1. PICK m, z, pointer : /\ m = p.message /\ z = p.size
                           /\ pointer = dal_pointer_from_submission(kernel_message_kind(m), b, z)
  OBVIOUS
<1>2. p = [message |-> m, bytes |-> b, size |-> z, edits |-> 0,
           pointer |-> pointer, attested |-> DOMAIN pointer.chunks]
  BY <1>1 DEF Exact, Publication
<1>3. p.bytes = b /\ p.pointer = pointer /\ p.attested = DOMAIN pointer.chunks
  BY <1>2
<1> QED BY <1>1, <1>3

LEMMA ExactDelivered ==
  ASSUME PendingInv(pending), pending # NoMessage, Exact(pending), NEW got, got = Fetched(pending)
  PROVE  (got.ok /\ got.value = pending.message) =
           (pending.message.kind # "DalPointer" /\ Carried(pending))
<1>1. PICK m, b, z, kind : /\ m = pending.message /\ b = pending.bytes /\ z = pending.size
                           /\ kind = kernel_message_kind(m)
  OBVIOUS
<1>2. m \in Message /\ b \in Strings /\ z \in 1..SlotSize
  BY <1>1, DeliveryAssumption DEF PendingInv
<1>3. b = encode_kernel_inbox_message(m)
  BY <1>1, ExactIs
<1>4. pending.pointer = dal_pointer_from_submission(kind, b, z)
      /\ pending.attested = DOMAIN pending.pointer.chunks
  BY <1>1, <1>3, ExactIs
<1>5. decode_kernel_inbox_message(b) = Took(m, <<>>)
  BY <1>2, <1>3, SubmissionAssumption, MessageReadsBack
<1>6. PICK d : d = Took(m, <<>>)
  OBVIOUS
<1>7. d.ok /\ d.value = m /\ ~Fail.ok
  BY <1>6, Outcomes
<1>8. got = IF Carried(pending) /\ m.kind = kind THEN d ELSE Fail
  <2>1. kind \in DOMAIN KindTag
    <3>1. m.kind \in DOMAIN MessageTag
      BY <1>2, SubmissionAssumption DEF EncodableMessage
    <3> QED BY <1>1, <3>1 DEF kernel_message_kind, MessageTag, KindTag
  <2>2. d = decode_kernel_inbox_message(b)
    BY <1>5, <1>6
  <2> QED BY <1>1, <1>2, <1>4, <1>7, <2>1, <2>2, PointedFetched
<1>9. m.kind = kind <=> m.kind # "DalPointer"
  BY <1>1 DEF kernel_message_kind
<1>10. (got.ok /\ got.value = m) <=> (m.kind # "DalPointer" /\ Carried(pending))
  BY <1>7, <1>8, <1>9
<1> QED BY <1>1, <1>10

LEMMA AcceptedDelivered ==
  ASSUME PendingInv(pending), pending # NoMessage, NEW got, got = Fetched(pending), NEW whole,
         whole = dal_pointer_from_submission(pending.pointer.kind, pending.bytes, pending.size),
         accepts_for_dal(pending.pointer.kind, pending.bytes), Carried(pending),
         pending.pointer = whole, pending.attested = DOMAIN whole.chunks
  PROVE  got.ok /\ PaidMessage(got.value)
<1>1. PICK b, z, kind : b = pending.bytes /\ z = pending.size /\ kind = pending.pointer.kind
  OBVIOUS
<1>2. b \in Strings /\ z \in 1..SlotSize
  BY <1>1, DeliveryAssumption DEF PendingInv
<1>3. PICK d, v : d = decode_kernel_inbox_message(b)
                  /\ v = decode_and_validate_submission_payload(kind, b)
  OBVIOUS
<1>4. v.ok /\ (submission_kind_requires_dal_fee_policy(kind) =>
                 enforce_dal_fee_policy(load_dal_fee_policy, v.value))
  BY <1>1, <1>3 DEF accepts_for_dal
<1>5. v = d /\ d.ok /\ d.value.kind = kind /\ kind \in DOMAIN KindTag
  BY <1>3, <1>4, Outcomes DEF decode_and_validate_submission_payload,
     kernel_message_matches_submission_kind
<1>6. got = d
  <2>1. pending.pointer = dal_pointer_from_submission(kind, b, z)
        /\ pending.attested = DOMAIN pending.pointer.chunks
    BY <1>1
  <2>2. Fetched(pending) = IF Carried(pending) /\ d.value.kind = kind THEN d ELSE Fail
    BY <1>1, <1>2, <1>3, <1>5, <2>1, PointedFetched
  <2> QED BY <1>5, <2>2
<1>7. submission_kind_requires_dal_fee_policy(kind) =>
        \E note \in Range(published_notes(d.value)) : note[1] = note[2] /\ PaysOperator(note[2])
  BY <1>4, <1>5, AcceptedPays
<1> QED BY <1>1, <1>5, <1>6, <1>7 DEF PaidMessage

\* fetch_kernel_message_from_dal, for the operator's own pointers with every
\* slot attested: at every chunk size and every length the kernel gets the
\* message just when the payload is within its limit and the chunks are few
\* enough for the wire's list of pointers.  So what the operator accepts and
\* can point at arrives with its declared kind, and a spend among it stores
\* the note that pays the operator.
THEOREM DeliveryIsExact == Spec => []DeliveredExact
<1>1. ASSUME PendingInv(pending) PROVE DeliveredExact
  <2> SUFFICES ASSUME pending # NoMessage, NEW got, got = Fetched(pending), NEW whole,
                      whole = dal_pointer_from_submission(pending.pointer.kind, pending.bytes,
                                                          pending.size)
               PROVE  /\ Exact(pending) =>
                           (got.ok /\ got.value = pending.message) =
                             (pending.message.kind # "DalPointer" /\ Carried(pending))
                      /\ /\ accepts_for_dal(pending.pointer.kind, pending.bytes)
                         /\ Carried(pending)
                         /\ pending.pointer = whole /\ pending.attested = DOMAIN whole.chunks
                         => got.ok /\ PaidMessage(got.value)
    BY Zenon DEF DeliveredExact
  <2>1. Exact(pending) =>
          (got.ok /\ got.value = pending.message) =
            (pending.message.kind # "DalPointer" /\ Carried(pending))
    BY <1>1, ExactDelivered
  <2>2. /\ accepts_for_dal(pending.pointer.kind, pending.bytes)
        /\ Carried(pending)
        /\ pending.pointer = whole /\ pending.attested = DOMAIN whole.chunks
        => got.ok /\ PaidMessage(got.value)
    BY <1>1, AcceptedDelivered
  <2> QED BY <2>1, <2>2
<1> QED BY <1>1, PendingIsInvariant, PTL
=============================================================================
