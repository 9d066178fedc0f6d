--------------------------- MODULE OperatorProofs ---------------------------
(***************************************************************************)
(* Proofs about the operator, for any number of submissions, any payload   *)
(* and chunk sizes, and any number of crashes, retries and failing calls.  *)
(*                                                                         *)
(* Inv says that every copy of a submission that can be read, in its file, *)
(* in its tmp file or in a thread, is sound: its chunks name publications  *)
(* on L1 that hold the payload's ranges in order, and its status is not    *)
(* ahead of what was done.  It holds whether clients wait or leave,        *)
(* because what is on L1 only grows: a copy that is sound stays sound      *)
(* whatever the other threads do, and so a step only has to care for the   *)
(* copy of its own thread.                                                 *)
(*                                                                         *)
(* Exclusive and Undisturbed say what the lock is for: while clients wait, *)
(* a thread that works has the lock and works on a file that can still     *)
(* change, and the tmp file that it renames is the one that it wrote.      *)
(***************************************************************************)
EXTENDS Operator, Induction

-----------------------------------------------------------------------------
(***************************************************************************)
(* Published is the sum of the chunks' lengths.                            *)
(***************************************************************************)
\* The lengths of the first i chunks together.
IsSum(c, n, s) ==
  s = [i \in 0..n |-> IF i = 0 THEN 0 ELSE s[i - 1] + c[i].payload_len]

\* It exists.
LEMMA SumExists ==
  ASSUME NEW c, NEW n \in Nat
  PROVE  \E s : IsSum(c, n, s)
<1> DEFINE T == {k \in Nat : \E s : IsSum(c, k, s)}
<1>1. 0 \in T
  <2>1. IsSum(c, 0, [i \in 0..0 |-> 0])
    BY DEF IsSum
  <2> QED BY <2>1
<1>2. ASSUME NEW k \in Nat, k \in T PROVE k + 1 \in T
  <2>1. PICK s : IsSum(c, k, s)
    BY <1>2
  <2> DEFINE t == [i \in 0..(k + 1) |-> IF i <= k THEN s[i] ELSE s[k] + c[k + 1].payload_len]
  <2>2. \A i \in 0..k : s[i] = IF i = 0 THEN 0 ELSE s[i - 1] + c[i].payload_len
    BY <2>1 DEF IsSum
  <2>3. ASSUME NEW i \in 0..(k + 1)
        PROVE  t[i] = IF i = 0 THEN 0 ELSE t[i - 1] + c[i].payload_len
    BY <2>2
  <2>4. IsSum(c, k + 1, t)
    BY <2>3 DEF IsSum
  <2> QED BY <2>4
<1>3. Nat \subseteq T
  BY <1>1, <1>2, SetInduction
<1> QED BY <1>3

\* Published is the last of these sums.
LEMMA PublishedSum ==
  ASSUME NEW c \in Seq(Chunk)
  PROVE  \E s : IsSum(c, Len(c), s) /\ Published(c) = s[Len(c)]
<1>1. \E s : IsSum(c, Len(c), s)
  BY SumExists, LenProperties
<1>2. IsSum(c, Len(c), CHOOSE s : IsSum(c, Len(c), s))
  BY <1>1
<1>3. Published(c) = (CHOOSE s : IsSum(c, Len(c), s))[Len(c)]
  BY DEF Published, IsSum
<1> QED BY <1>2, <1>3

\* Sums over the same lengths are the same.
LEMMA SumsAgree ==
  ASSUME NEW c \in Seq(Chunk), NEW d \in Seq(Chunk), NEW s, NEW t,
         IsSum(c, Len(c), s), IsSum(d, Len(d), t), NEW n \in Nat,
         n <= Len(c), n <= Len(d),
         \A i \in 1..n : c[i].payload_len = d[i].payload_len
  PROVE  s[n] \in Nat /\ s[n] = t[n]
<1> DEFINE T == {k \in 0..n : s[k] \in Nat /\ s[k] = t[k]}
<1>0. Len(c) \in Nat /\ Len(d) \in Nat /\ \A i \in 1..Len(c) : c[i].payload_len \in Nat
  <2>1. Len(c) \in Nat /\ Len(d) \in Nat
    BY LenProperties
  <2>2. \A i \in 1..Len(c) : c[i] \in Chunk
    BY ElementOfSeq
  <2> QED BY <2>1, <2>2 DEF Chunk
<1>1. /\ \A i \in 0..Len(c) : s[i] = IF i = 0 THEN 0 ELSE s[i - 1] + c[i].payload_len
      /\ \A i \in 0..Len(d) : t[i] = IF i = 0 THEN 0 ELSE t[i - 1] + d[i].payload_len
  BY DEF IsSum
<1>2. 0 \in T
  BY <1>0, <1>1
<1>3. ASSUME NEW k \in 0..(n - 1), k \in T PROVE k + 1 \in T
  <2>1. k + 1 \in 1..n /\ k + 1 \in 0..Len(c) /\ k + 1 \in 0..Len(d) /\ k + 1 - 1 = k
        /\ k + 1 # 0 /\ k + 1 \in 1..Len(c)
    BY <1>0
  <2>2. s[k + 1] = s[k] + c[k + 1].payload_len /\ t[k + 1] = t[k] + d[k + 1].payload_len
    BY <1>1, <2>1
  <2> QED BY <1>0, <1>3, <2>1, <2>2
<1> HIDE DEF T
<1>4. 0..n \subseteq T
  BY <1>2, <1>3, UpTo
<1> QED BY <1>4 DEF T

\* Chunks of the same lengths hold as much.
LEMMA SameLengths ==
  ASSUME NEW c \in Seq(Chunk), NEW d \in Seq(Chunk), Len(c) = Len(d),
         \A i \in 1..Len(c) : c[i].payload_len = d[i].payload_len
  PROVE  Published(c) \in Nat /\ Published(c) = Published(d)
<1>1. PICK s : IsSum(c, Len(c), s) /\ Published(c) = s[Len(c)]
  BY PublishedSum
<1>2. PICK t : IsSum(d, Len(d), t) /\ Published(d) = t[Len(d)]
  BY PublishedSum
<1>3. Len(c) \in Nat /\ Len(c) <= Len(c)
  BY LenProperties
<1>4. PICK n \in Nat : n = Len(c) /\ n <= Len(d)
  BY <1>3
<1>5. s[n] \in Nat /\ s[n] = t[n]
  BY <1>1, <1>2, <1>3, <1>4, SumsAgree
<1> QED BY <1>1, <1>2, <1>4, <1>5

\* One more chunk adds its length,
LEMMA PublishedAppend ==
  ASSUME NEW c \in Seq(Chunk), NEW x \in Chunk
  PROVE  Published(Append(c, x)) = Published(c) + x.payload_len
<1>0. PICK d : d = Append(c, x)
  OBVIOUS
<1>1. /\ d \in Seq(Chunk) /\ Len(d) = Len(c) + 1 /\ d[Len(c) + 1] = x
      /\ \A i \in 1..Len(c) : d[i] = c[i]
  BY <1>0, AppendProperties, LenProperties
<1>2. PICK s : IsSum(c, Len(c), s) /\ Published(c) = s[Len(c)]
  BY PublishedSum
<1>3. PICK t : IsSum(d, Len(d), t) /\ Published(d) = t[Len(d)]
  BY <1>1, PublishedSum
<1>4. PICK n \in Nat : n = Len(c) /\ n <= Len(c) /\ n <= Len(d)
  BY <1>1, LenProperties
<1>5. s[n] = t[n]
  BY <1>1, <1>2, <1>3, <1>4, SumsAgree
<1>6. \A i \in 0..Len(d) : t[i] = IF i = 0 THEN 0 ELSE t[i - 1] + d[i].payload_len
  BY <1>3 DEF IsSum
<1>7. t[n + 1] = t[n] + d[n + 1].payload_len
  <2>1. n + 1 \in 0..Len(d) /\ n + 1 # 0 /\ n + 1 - 1 = n
    BY <1>1, <1>4
  <2> QED BY <1>6, <2>1
<1> QED BY <1>0, <1>1, <1>2, <1>3, <1>4, <1>5, <1>7

\* and no chunk holds nothing.
LEMMA PublishedEmpty == Published(<<>>) = 0
<1>1. <<>> \in Seq(Chunk) /\ Len(<<>>) = 0
  BY EmptySeq
<1>2. PICK s : IsSum(<<>>, 0, s) /\ Published(<<>>) = s[0]
  BY <1>1, PublishedSum
<1> QED BY <1>2 DEF IsSum

\* The beginning of a list of chunks.
LEMMA Beginning ==
  ASSUME NEW c \in Seq(Chunk), NEW n \in 0..Len(c)
  PROVE  /\ SubSeq(c, 1, n) \in Seq(Chunk) /\ Len(SubSeq(c, 1, n)) = n
         /\ \A i \in 1..n : SubSeq(c, 1, n)[i] = c[i]
<1>1. Len(c) \in Nat /\ \A i \in 1..n : c[i] \in Chunk
  BY LenProperties
<1> QED BY <1>1, SubSeqProperties

\* What comes before a chunk depends on the lengths before it only.
LEMMA SameStart ==
  ASSUME NEW c \in Seq(Chunk), NEW d \in Seq(Chunk), NEW n \in 0..Len(c), n <= Len(d),
         \A i \in 1..n : c[i].payload_len = d[i].payload_len
  PROVE  Published(SubSeq(c, 1, n)) = Published(SubSeq(d, 1, n))
<1>0. n \in 0..Len(d)
  BY LenProperties
<1>1. PICK a : a = SubSeq(c, 1, n)
  OBVIOUS
<1>2. PICK b : b = SubSeq(d, 1, n)
  OBVIOUS
<1>3. /\ a \in Seq(Chunk) /\ b \in Seq(Chunk) /\ Len(a) = n /\ Len(b) = n
      /\ \A i \in 1..n : a[i] = c[i] /\ b[i] = d[i]
  BY <1>0, <1>1, <1>2, Beginning
<1>4. Published(a) = Published(b)
  BY <1>3, SameLengths
<1> QED BY <1>1, <1>2, <1>4

-----------------------------------------------------------------------------
(***************************************************************************)
(* retry_indices lists the chunks of S, and all of them.                   *)
(***************************************************************************)
\* The list after the first i chunks.
IsPushed(S, n, p) ==
  p = [i \in 0..n |-> IF i = 0 THEN <<>> ELSE push(p[i - 1], S, i)]

\* It exists.
LEMMA PushedExists ==
  ASSUME NEW S, NEW n \in Nat
  PROVE  \E p : IsPushed(S, n, p)
<1> DEFINE T == {k \in Nat : \E p : IsPushed(S, k, p)}
<1>1. 0 \in T
  <2>1. IsPushed(S, 0, [i \in 0..0 |-> <<>>])
    BY DEF IsPushed
  <2> QED BY <2>1
<1>2. ASSUME NEW k \in Nat, k \in T PROVE k + 1 \in T
  <2>1. PICK p : IsPushed(S, k, p)
    BY <1>2
  <2> DEFINE q == [i \in 0..(k + 1) |-> IF i <= k THEN p[i] ELSE push(p[k], S, k + 1)]
  <2>2. \A i \in 0..k : p[i] = IF i = 0 THEN <<>> ELSE push(p[i - 1], S, i)
    BY <2>1 DEF IsPushed
  <2>3. ASSUME NEW i \in 0..(k + 1)
        PROVE  q[i] = IF i = 0 THEN <<>> ELSE push(q[i - 1], S, i)
    BY <2>2
  <2>4. IsPushed(S, k + 1, q)
    BY <2>3 DEF IsPushed
  <2> QED BY <2>4
<1>3. Nat \subseteq T
  BY <1>1, <1>2, SetInduction
<1> QED BY <1>3

\* The list of retry_indices: chunks only, and empty only if S has none of them.
LEMMA RetryFacts ==
  ASSUME NEW S, NEW n \in Nat
  PROVE  /\ retry_indices(S, n) \in Seq(1..n)
         /\ retry_indices(S, n) = <<>> => \A i \in 1..n : i \notin S
<1> DEFINE p == CHOOSE f : IsPushed(S, n, f)
           T == {k \in 0..n : /\ p[k] \in Seq(1..n)
                              /\ p[k] = <<>> => \A i \in 1..k : i \notin S}
<1>1. IsPushed(S, n, p)
  BY PushedExists
<1>2. retry_indices(S, n) = p[n]
  BY DEF retry_indices, IsPushed
<1> HIDE DEF p
<1>3. \A i \in 0..n : p[i] = IF i = 0 THEN <<>> ELSE push(p[i - 1], S, i)
  BY <1>1 DEF IsPushed
<1>4. 0 \in T
  <2>1. p[0] = <<>> /\ 0 \in 0..n
    BY <1>3
  <2>2. p[0] \in Seq(1..n)
    BY <2>1, EmptySeq
  <2>3. \A i \in 1..0 : i \notin S
    OBVIOUS
  <2> QED BY <2>1, <2>2, <2>3
<1>5. ASSUME NEW k \in 0..(n - 1), k \in T PROVE k + 1 \in T
  <2>1. k + 1 \in 0..n /\ k + 1 # 0 /\ k + 1 - 1 = k /\ k + 1 \in 1..n
    OBVIOUS
  <2>2. p[k + 1] = push(p[k], S, k + 1)
    BY <1>3, <2>1
  <2>3. p[k] \in Seq(1..n) /\ (p[k] = <<>> => \A i \in 1..k : i \notin S)
    BY <1>5
  <2>4. CASE k + 1 \in S
    <3>1. p[k + 1] = Append(p[k], k + 1)
      BY <2>2, <2>4 DEF push
    <3>2. p[k + 1] \in Seq(1..n) /\ p[k + 1] # <<>>
      BY <2>1, <2>3, <3>1, AppendProperties
    <3> QED BY <2>1, <3>2
  <2>5. CASE k + 1 \notin S
    <3>1. p[k + 1] = p[k]
      BY <2>2, <2>5 DEF push
    <3>2. ASSUME p[k] = <<>>, NEW i \in 1..(k + 1) PROVE i \notin S
      <4>1. i \in 1..k \/ i = k + 1
        OBVIOUS
      <4> QED BY <2>3, <2>5, <3>2, <4>1
    <3> QED BY <2>1, <2>3, <3>1, <3>2
  <2> QED BY <2>4, <2>5
<1> HIDE DEF T
<1>6. 0..n \subseteq T
  BY <1>4, <1>5, UpTo
<1> QED BY <1>2, <1>6 DEF T

\* The reconciler's next submission is one of those left.
LEMMA FirstOf ==
  ASSUME NEW S \in SUBSET Nat, S # {}
  PROVE  Min(S) \in S
<1> DEFINE Smaller == {k \in Nat : \A i \in 0..k : i \notin S}
<1>1. \E x \in S : \A y \in S : x <= y
  <2> SUFFICES ASSUME ~ \E x \in S : \A y \in S : x <= y PROVE FALSE
    OBVIOUS
  <2>1. 0 \in Smaller
    <3>1. \A y \in S : 0 <= y
      OBVIOUS
    <3>2. 0 \notin S
      BY <3>1
    <3> QED BY <3>2
  <2>2. ASSUME NEW k \in Nat, k \in Smaller PROVE k + 1 \in Smaller
    <3>1. ASSUME k + 1 \in S PROVE FALSE
      <4>1. ASSUME NEW y \in S PROVE k + 1 <= y
        BY <2>2
      <4>2. \E x \in S : \A y \in S : x <= y
        BY <3>1, <4>1
      <4> QED BY <4>2
    <3> QED BY <2>2, <3>1
  <2> HIDE DEF Smaller
  <2>3. Nat \subseteq Smaller
    BY <2>1, <2>2, SetInduction
  <2>4. PICK x \in S : x \in Nat
    OBVIOUS
  <2>5. x \in 0..x
    OBVIOUS
  <2>6. x \in Smaller
    BY <2>3, <2>4
  <2> QED BY <2>4, <2>5, <2>6 DEF Smaller
<1> QED BY <1>1 DEF Min

-----------------------------------------------------------------------------
(***************************************************************************)
(* The inductive invariant.                                                *)
(***************************************************************************)
SlotState == {"waiting_attestation", "stale", "attested", "unattested"}
Slot == [id : Id, start : Nat, payload_len : Nat, status : SlotState]
Message == [id : Id, chunks : Seq(Chunk)]

\* The places a thread can be at, and those where it has no copy of a submission.
Free == {"new", "done", "idle", "next"}
Request_place == {"accept", "failed", "publish", "persist_chunk", "persist", "inject"}
Place == Free \cup Request_place \cup {"status", "republish"}
Task == [pc : Place, stored : Submission \cup {None}, retry : Seq(Nat)]

\* What a file, or a missing one, holds.
Body == Submission \cup {None, Empty, Torn}

\* The type invariant.
TypeOK ==
  /\ config \in Config
  /\ file \in [Id -> Body] /\ tmp \in [Id -> Body]
  /\ task \in [Thread -> Task]
  /\ todo \subseteq Id
  /\ dal \in Seq(Slot)
  /\ inbox \in Seq(Message)

\* Chunks name publications of d that hold their ranges of the payload of id.
InPlaceIn(id, chunks, d) ==
  \A i \in 1..Len(chunks) :
    /\ chunks[i].at \in 1..Len(d)
    /\ d[chunks[i].at].id = id
    /\ d[chunks[i].at].start = Published(SubSeq(chunks, 1, i - 1))
    /\ d[chunks[i].at].payload_len = chunks[i].payload_len

\* What holds of a submission wherever a copy of it is, given the publications d
\* and the inbox b.
SoundIn(s, d, b) ==
  /\ s \in Submission
  /\ InPlaceIn(s.id, s.chunks, d)
  /\ Published(s.chunks) <= PayloadLen
  /\ s.status \in {"PendingDal", "CommitmentIncluded"} => s.payload
  /\ s.status = "CommitmentIncluded" => Published(s.chunks) = PayloadLen
  /\ s.status = "SubmittedToL1" => \E k \in 1..Len(b) : b[k].id = s.id

\* The file of id, one of the files f, is such a submission if it can be read.
KeptIn(id, f, d, b) == Readable(f[id]) => SoundIn(f[id], d, b) /\ f[id].id = id

\* All chunks are attested.
AttestedIn(chunks, d) ==
  \A i \in 1..Len(chunks) : d[chunks[i].at].status = "attested"

\* What holds of the copy of thread t, which is at r.
TaskIn(t, r, d, b) ==
  r.pc \notin Free =>
    /\ SoundIn(r.stored, d, b)
    /\ t \in Id => r.stored.id = t /\ r.pc \in Request_place
    /\ r.pc = "accept" => r.stored.chunks = <<>>
    /\ r.pc \in {"accept", "publish", "persist_chunk"} => r.stored.status = "PendingDal"
    /\ r.pc \in {"status", "republish"} => r.stored.status = "CommitmentIncluded"
    /\ r.pc = "republish" => /\ r.retry \in Seq(1..Len(r.stored.chunks))
                             /\ r.retry # <<>>
    /\ r.pc = "inject" => \/ r.stored.id \in Direct
                          \/ /\ r.stored.status = "CommitmentIncluded"
                             /\ AttestedIn(r.stored.chunks, d)

\* A message in the inbox is the payload, or points at it.
PointerIn(m, d) ==
  m.id \notin Direct =>
    /\ Len(m.chunks) <= MaxPointers /\ Published(m.chunks) = PayloadLen
    /\ InPlaceIn(m.id, m.chunks, d)
    /\ AttestedIn(m.chunks, d)

\* The invariant: every copy of a submission that can be read, in a file or in a
\* thread, is sound.
Inv ==
  /\ TypeOK
  /\ \A id \in Id : KeptIn(id, file, dal, inbox) /\ KeptIn(id, tmp, dal, inbox)
  /\ \A t \in Thread : TaskIn(t, task[t], dal, inbox)
  /\ \A k \in 1..Len(inbox) : PointerIn(inbox[k], dal)

-----------------------------------------------------------------------------
(***************************************************************************)
(* L1 only grows.                                                          *)
(***************************************************************************)
\* Publications stay, with what they hold, and an attestation is final.
Grows(d, e) ==
  /\ d \in Seq(Slot) /\ e \in Seq(Slot)
  /\ Len(d) <= Len(e)
  /\ \A k \in 1..Len(d) :
       /\ e[k].id = d[k].id /\ e[k].start = d[k].start /\ e[k].payload_len = d[k].payload_len
       /\ d[k].status = "attested" => e[k].status = "attested"

\* Messages stay in the inbox.
Extends(b, c) ==
  Len(b) \in Nat /\ Len(c) \in Nat /\ Len(b) <= Len(c) /\ \A k \in 1..Len(b) : c[k] = b[k]

\* Chunks stay where they are,
LEMMA InPlaceGrows ==
  ASSUME NEW d, NEW e, Grows(d, e), NEW id, NEW c, InPlaceIn(id, c, d)
  PROVE  InPlaceIn(id, c, e)
<1>1. Len(d) \in Nat /\ Len(e) \in Nat
  BY LenProperties DEF Grows
<1>2. \A k \in 1..Len(d) : k \in 1..Len(e)
  BY <1>1 DEF Grows
<1> QED BY <1>2 DEF Grows, InPlaceIn

\* and attested,
LEMMA AttestedGrows ==
  ASSUME NEW d, NEW e, Grows(d, e), NEW id, NEW c, InPlaceIn(id, c, d), AttestedIn(c, d)
  PROVE  AttestedIn(c, e)
BY DEF Grows, InPlaceIn, AttestedIn

\* so a sound copy stays sound.
LEMMA SoundGrows ==
  ASSUME NEW d, NEW e, Grows(d, e), NEW b, NEW c, Extends(b, c), NEW s, SoundIn(s, d, b)
  PROVE  SoundIn(s, e, c)
<1>1. InPlaceIn(s.id, s.chunks, e)
  BY InPlaceGrows DEF SoundIn
<1>2. s.status = "SubmittedToL1" => \E k \in 1..Len(c) : c[k].id = s.id
  <2> SUFFICES ASSUME s.status = "SubmittedToL1" PROVE \E k \in 1..Len(c) : c[k].id = s.id
    OBVIOUS
  <2>1. PICK k \in 1..Len(b) : b[k].id = s.id
    BY DEF SoundIn
  <2>2. k \in 1..Len(c) /\ c[k] = b[k]
    BY DEF Extends
  <2> QED BY <2>1, <2>2
<1> QED BY <1>1, <1>2 DEF SoundIn

\* A thread's copy stays what it was while the others work,
LEMMA TaskGrows ==
  ASSUME NEW d, NEW e, Grows(d, e), NEW b, NEW c, Extends(b, c),
         NEW t, NEW r, TaskIn(t, r, d, b)
  PROVE  TaskIn(t, r, e, c)
<1> SUFFICES ASSUME r.pc \notin Free PROVE TaskIn(t, r, e, c)
  BY DEF TaskIn
<1>1. SoundIn(r.stored, e, c)
  BY SoundGrows DEF TaskIn
<1>3. r.pc = "inject" => \/ r.stored.id \in Direct
                         \/ /\ r.stored.status = "CommitmentIncluded"
                            /\ AttestedIn(r.stored.chunks, e)
  <2>1. InPlaceIn(r.stored.id, r.stored.chunks, d)
    BY DEF TaskIn, SoundIn
  <2> QED BY <2>1, AttestedGrows DEF TaskIn
<1> QED BY <1>1, <1>3 DEF TaskIn

\* and so does a file that nobody writes.
LEMMA KeptGrows ==
  ASSUME NEW d, NEW e, Grows(d, e), NEW b, NEW c, Extends(b, c), NEW f, NEW g, NEW id,
         KeptIn(id, f, d, b), g[id] = f[id] \/ KeptIn(id, g, e, c)
  PROVE  KeptIn(id, g, e, c)
<1>1. Readable(f[id]) => SoundIn(f[id], e, c)
  BY SoundGrows DEF KeptIn
<1> QED BY <1>1 DEF KeptIn

\* Nothing happens to L1.
LEMMA GrowsSame ==
  ASSUME NEW d \in Seq(Slot) PROVE Grows(d, d)
BY LenProperties DEF Grows

\* nor to the inbox.
LEMMA ExtendsSame ==
  ASSUME NEW b \in Seq(Message) PROVE Extends(b, b)
BY LenProperties DEF Extends

\* A step of thread t, which ends at r, keeps the invariant if r and the files it
\* writes are as they should be: nobody else's copy suffers.
LEMMA Preserved ==
  ASSUME Inv, NEW t \in Thread, NEW r \in Task, task' = [task EXCEPT ![t] = r],
         config' \in Config, file' \in [Id -> Body], tmp' \in [Id -> Body],
         Grows(dal, dal'), inbox' \in Seq(Message), Extends(inbox, inbox'),
         \A id \in Id : file'[id] = file[id] \/ KeptIn(id, file', dal', inbox'),
         \A id \in Id : tmp'[id] = tmp[id] \/ KeptIn(id, tmp', dal', inbox'),
         todo' \subseteq Id,
         \A k \in 1..Len(inbox') : k \in 1..Len(inbox) \/ PointerIn(inbox'[k], dal'),
         TaskIn(t, r, dal', inbox')
  PROVE  Inv'
<1>1. TypeOK'
  BY DEF Inv, TypeOK, Grows
<1>2. ASSUME NEW id \in Id
      PROVE  KeptIn(id, file', dal', inbox') /\ KeptIn(id, tmp', dal', inbox')
  <2>1. KeptIn(id, file, dal, inbox) /\ KeptIn(id, tmp, dal, inbox)
    BY DEF Inv
  <2>2. KeptIn(id, file', dal', inbox')
    BY <2>1, KeptGrows
  <2>3. KeptIn(id, tmp', dal', inbox')
    BY <2>1, KeptGrows
  <2> QED BY <2>2, <2>3
<1>5. ASSUME NEW u \in Thread PROVE TaskIn(u, task'[u], dal', inbox')
  <2>1. CASE u = t
    BY <2>1 DEF Inv, TypeOK
  <2>2. CASE u # t
    <3>1. task'[u] = task[u] /\ TaskIn(u, task[u], dal, inbox)
      BY <2>2 DEF Inv, TypeOK
    <3>2. TaskIn(u, task[u], dal', inbox')
      BY <3>1, TaskGrows
    <3> QED BY <3>1, <3>2
  <2> QED BY <2>1, <2>2
<1>6. ASSUME NEW k \in 1..Len(inbox') PROVE PointerIn(inbox'[k], dal')
  <2>1. CASE k \in 1..Len(inbox)
    <3>1. inbox'[k] = inbox[k] /\ PointerIn(inbox[k], dal)
      BY <2>1 DEF Extends, Inv
    <3>2. PointerIn(inbox[k], dal')
      BY <3>1, InPlaceGrows, AttestedGrows DEF PointerIn
    <3> QED BY <3>1, <3>2
  <2> QED BY <1>6, <2>1
<1> QED BY <1>1, <1>2, <1>5, <1>6 DEF Inv

\* A step that touches neither files nor L1 only has to care about its own copy.
LEMMA QuietPreserved ==
  ASSUME Inv, NEW t \in Thread, NEW r \in Task, task' = [task EXCEPT ![t] = r],
         UNCHANGED <<config, file, tmp, dal, inbox>>, todo' \subseteq Id,
         TaskIn(t, r, dal, inbox)
  PROVE  Inv'
<1>1. /\ config' \in Config /\ file' \in [Id -> Body] /\ tmp' \in [Id -> Body]
      /\ Grows(dal, dal') /\ inbox' \in Seq(Message) /\ Extends(inbox, inbox')
  BY GrowsSame, ExtendsSame DEF Inv, TypeOK
<1>2. /\ \A id \in Id : file'[id] = file[id] \/ KeptIn(id, file', dal', inbox')
      /\ \A id \in Id : tmp'[id] = tmp[id] \/ KeptIn(id, tmp', dal', inbox')
      /\ \A k \in 1..Len(inbox') : k \in 1..Len(inbox) \/ PointerIn(inbox'[k], dal')
      /\ TaskIn(t, r, dal', inbox')
  OBVIOUS
<1> QED BY <1>1, <1>2, Preserved

\* A thread without a copy has nothing to care about.
LEMMA FreeTask ==
  ASSUME NEW t, NEW pc \in Free, NEW d, NEW b
  PROVE  /\ [pc |-> pc, stored |-> None, retry |-> <<>>] \in Task
         /\ TaskIn(t, [pc |-> pc, stored |-> None, retry |-> <<>>], d, b)
<1>1. <<>> \in Seq(Nat)
  BY EmptySeq
<1> QED BY <1>1 DEF Task, Place, TaskIn

\* A copy taken to pc is a thread's state.
LEMMA CopyTask ==
  ASSUME NEW pc \in Place, NEW s \in Submission
  PROVE  [pc |-> pc, stored |-> s, retry |-> <<>>] \in Task
<1>1. <<>> \in Seq(Nat)
  BY EmptySeq
<1> QED BY <1>1 DEF Task

\* A copy of which nothing but soundness is asked.
LEMMA PersistTask ==
  ASSUME NEW t, NEW s, NEW d, NEW b, SoundIn(s, d, b), t \in Id => s.id = t
  PROVE  /\ [pc |-> "persist", stored |-> s, retry |-> <<>>] \in Task
         /\ TaskIn(t, [pc |-> "persist", stored |-> s, retry |-> <<>>], d, b)
<1>1. [pc |-> "persist", stored |-> s, retry |-> <<>>] \in Task
  BY CopyTask DEF SoundIn, Place, Request_place
<1> QED BY <1>1 DEF TaskIn, Free, Request_place

\* A submission that nothing has been done for is sound.
LEMMA FreshSound ==
  ASSUME NEW id \in Id, NEW status \in {"PendingDal", "Failed"}, NEW payload \in BOOLEAN,
         status = "PendingDal" => payload, NEW d, NEW b
  PROVE  SoundIn([id |-> id, status |-> status, chunks |-> <<>>, payload |-> payload], d, b)
<1>1. <<>> \in Seq(Chunk) /\ Len(<<>>) = 0 /\ Published(<<>>) = 0
  BY EmptySeq, PublishedEmpty
<1>2. InPlaceIn(id, <<>>, d)
  BY <1>1 DEF InPlaceIn
<1>3. 0 <= PayloadLen
  BY OperatorAssumption
<1> QED BY <1>1, <1>2, <1>3 DEF SoundIn, Submission, Status

\* A failed submission is as sound as it was.
LEMMA FailedSound ==
  ASSUME NEW s, NEW d, NEW b, SoundIn(s, d, b)
  PROVE  SoundIn([s EXCEPT !.status = "Failed"], d, b) /\ [s EXCEPT !.status = "Failed"].id = s.id
<1>1. PICK x : x = [s EXCEPT !.status = "Failed"]
  OBVIOUS
<1>2. /\ x \in Submission /\ x.id = s.id /\ x.chunks = s.chunks /\ x.status = "Failed"
  BY <1>1 DEF SoundIn, Submission, Status
<1>3. SoundIn(x, d, b)
  BY <1>2 DEF SoundIn
<1> QED BY <1>1, <1>2, <1>3

-----------------------------------------------------------------------------
(***************************************************************************)
(* Requests.                                                               *)
(***************************************************************************)
\* The end of a request, or of the reconciler's work on a submission.
LEMMA ReturnInv ==
  ASSUME Inv, NEW t \in Thread, Return(t), UNCHANGED <<config, file, tmp, todo, dal, inbox>>
  PROVE  Inv'
<1>1. PICK pc \in Free : task' = [task EXCEPT ![t] = [pc |-> pc, stored |-> None, retry |-> <<>>]]
  BY DEF Return, Goto, Free
<1>2. todo' \subseteq Id
  BY DEF Inv, TypeOK
<1>3. PICK r : r = [pc |-> pc, stored |-> None, retry |-> <<>>]
  OBVIOUS
<1>4. r \in Task /\ TaskIn(t, r, dal, inbox)
  BY <1>3, FreeTask
<1> QED BY <1>1, <1>2, <1>3, <1>4, QuietPreserved

\* An error while publishing.
LEMMA ErrorTask ==
  ASSUME Inv, NEW t \in Thread, Advance_error(t),
         task[t].pc \in {"publish", "persist_chunk", "republish", "inject"},
         task[t].pc \in {"republish", "inject"} => t = Reconciler
  PROVE  \E r \in Task : /\ task' = [task EXCEPT ![t] = r]
                         /\ TaskIn(t, r, dal, inbox)
<1>1. CASE t = Reconciler
  <2>1. PICK r : r = [pc |-> "next", stored |-> None, retry |-> <<>>]
    OBVIOUS
  <2>2. r \in Task /\ TaskIn(t, r, dal, inbox)
    BY <2>1, FreeTask DEF Free
  <2> QED BY <1>1, <2>1, <2>2 DEF Advance_error, Goto
<1>2. CASE t # Reconciler
  <2>1. PICK s : s = stored(t)
    OBVIOUS
  <2>2. PICK r : r = [pc |-> "failed", stored |-> s, retry |-> <<>>]
    OBVIOUS
  <2>3. SoundIn(s, dal, inbox) /\ t \in Id /\ s.id = t
    BY <1>2, <2>1 DEF Inv, TaskIn, stored, Thread, Free
  <2>4. r \in Task
    BY <2>2, <2>3, CopyTask DEF SoundIn, Place, Request_place
  <2>5. TaskIn(t, r, dal, inbox)
    BY <2>2, <2>3 DEF TaskIn, Request_place, Free
  <2> QED BY <1>2, <2>1, <2>2, <2>4, <2>5 DEF Advance_error, Goto
<1> QED BY <1>1, <1>2

\* A new request.
LEMMA RequestInv ==
  ASSUME Inv, NEW id \in Id, Request(id)
  PROVE  Inv'
<1> DEFINE s == [id |-> id, status |-> "PendingDal", chunks |-> <<>>, payload |-> TRUE]
           x == [s EXCEPT !.status = "Failed"]
<1>0. id \in Thread /\ todo' \subseteq Id /\ UNCHANGED <<config, file, tmp, todo, dal, inbox>>
  BY DEF Thread, Inv, TypeOK, Request
<1>7. SoundIn(s, dal, inbox) /\ s.id = id /\ s.chunks = <<>> /\ s.status = "PendingDal"
  BY FreshSound
<1>1. SoundIn(x, dal, inbox) /\ x.id = id /\ SoundIn(s, dal, inbox)
      /\ s.id = id /\ s.chunks = <<>> /\ s.status = "PendingDal"
  <2> HIDE DEF s
  <2> QED BY <1>7, FailedSound
<1>3. \/ id \in Direct /\ Goto(id, "inject", s)
      \/ Goto(id, "persist", x)
      \/ Goto(id, "accept", s)
  BY DEF Request
<1> HIDE DEF s, x
<1>4. CASE Goto(id, "persist", x)
  <2>1. PICK r : r = [pc |-> "persist", stored |-> x, retry |-> <<>>]
    OBVIOUS
  <2>2. r \in Task /\ TaskIn(id, r, dal, inbox)
    BY <1>1, <2>1, PersistTask
  <2> QED BY <1>0, <1>4, <2>1, <2>2, QuietPreserved DEF Goto
<1>5. CASE \E pc \in {"inject", "accept"} : /\ Goto(id, pc, s)
                                            /\ pc = "inject" => id \in Direct
  <2>0. PICK pc \in {"inject", "accept"} : /\ Goto(id, pc, s)
                                           /\ pc = "inject" => id \in Direct
    BY <1>5
  <2>1. PICK r : r = [pc |-> pc, stored |-> s, retry |-> <<>>]
    OBVIOUS
  <2>2. r \in Task
    BY <1>1, <2>1, CopyTask DEF SoundIn, Place, Request_place
  <2>3. TaskIn(id, r, dal, inbox)
    BY <1>1, <2>0, <2>1 DEF TaskIn, Request_place, Free
  <2> QED BY <1>0, <2>0, <2>1, <2>2, <2>3, QuietPreserved DEF Goto
<1> QED BY <1>3, <1>4, <1>5

\* What persist_submission leaves of a sound copy is sound.
LEMMA PersistedSound ==
  ASSUME NEW s, NEW d, NEW b, SoundIn(s, d, b)
  PROVE  SoundIn(persisted(s), d, b) /\ persisted(s).id = s.id
<1>1. CASE s.status = "SubmittedToL1"
  <2>1. PICK x : x = [s EXCEPT !.payload = FALSE]
    OBVIOUS
  <2>2. x \in Submission /\ x.id = s.id /\ x.chunks = s.chunks /\ x.status = s.status
    BY <2>1 DEF SoundIn, Submission
  <2>3. SoundIn(x, d, b)
    BY <1>1, <2>2 DEF SoundIn
  <2> QED BY <1>1, <2>1, <2>2, <2>3 DEF persisted
<1>2. CASE s.status # "SubmittedToL1"
  BY <1>2 DEF persisted
<1> QED BY <1>1, <1>2

\* The files f and g differ in the file of id alone, where g has c.
LEMMA OneChanged ==
  ASSUME Inv, NEW f \in [Id -> Body], NEW id \in Id, NEW c \in Body, NEW g,
         g = [f EXCEPT ![id] = c], Readable(c) => SoundIn(c, dal, inbox) /\ c.id = id
  PROVE  g \in [Id -> Body] /\ \A i \in Id : g[i] = f[i] \/ KeptIn(i, g, dal, inbox)
<1>1. g \in [Id -> Body] /\ g[id] = c /\ \A i \in Id : i # id => g[i] = f[i]
  OBVIOUS
<1> QED BY <1>1 DEF KeptIn

\* Files f become g, which are as sound.
SoundStep(f, g) ==
  g \in [Id -> Body] /\ \A id \in Id : g[id] = f[id] \/ KeptIn(id, g, dal, inbox)

\* What File::create and a failing write leave cannot be read.
LEMMA BrokenSound ==
  ASSUME Inv, NEW f \in [Id -> Body], NEW id \in Id, NEW c \in {Empty, Torn, None}, NEW g,
         g = [f EXCEPT ![id] = c]
  PROVE  SoundStep(f, g)
<1>1. c \in Body /\ ~Readable(c)
  BY DEF Body, Readable
<1> QED BY <1>1, OneChanged DEF SoundStep

\* A sound copy is written over a file.
LEMMA OverwrittenSound ==
  ASSUME Inv, NEW f \in [Id -> Body], NEW s, SoundIn(s, dal, inbox),
         NEW g \in overwritten(f, s)
  PROVE  SoundStep(f, g)
<1>1. PICK x : x = persisted(s)
  OBVIOUS
<1>2. SoundIn(x, dal, inbox) /\ x.id = s.id
  BY <1>1, PersistedSound
<1>3. x \in Body /\ s.id \in Id
  BY <1>2 DEF SoundIn, Submission, Body
<1>4. PICK id \in Id : id = s.id
  BY <1>3
<1>5. g = [f EXCEPT ![id] = x] \/ g = [f EXCEPT ![id] = Torn]
  BY <1>1, <1>4 DEF overwritten
<1>6. CASE g = [f EXCEPT ![id] = x]
  BY <1>2, <1>3, <1>4, <1>6, OneChanged DEF SoundStep
<1>7. CASE g = [f EXCEPT ![id] = Torn]
  BY <1>7, BrokenSound
<1> QED BY <1>5, <1>6, <1>7

\* The tmp file becomes the file.
LEMMA RenamedSound ==
  ASSUME Inv, NEW t \in Thread, SoundIn(stored(t), dal, inbox), persist_submission(t)
  PROVE  SoundStep(file, file') /\ SoundStep(tmp, tmp')
<1>1. PICK id : id = stored(t).id
  OBVIOUS
<1>2. id \in Id /\ file \in [Id -> Body] /\ tmp \in [Id -> Body]
  BY <1>1 DEF SoundIn, Submission, Inv, TypeOK
<1>3. PICK c : c = tmp[id]
  OBVIOUS
<1>4. file' = [file EXCEPT ![id] = c] /\ tmp' = [tmp EXCEPT ![id] = None]
  BY <1>1, <1>3 DEF persist_submission
<1>5. c \in Body /\ (Readable(c) => SoundIn(c, dal, inbox) /\ c.id = id)
  BY <1>2, <1>3 DEF Inv, KeptIn
<1>6. SoundStep(file, file')
  BY <1>2, <1>4, <1>5, OneChanged DEF SoundStep
<1>7. SoundStep(tmp, tmp')
  BY <1>2, <1>4, BrokenSound
<1> QED BY <1>6, <1>7

\* Nothing, or a part of the copy, is written.
LEMMA ErrorSound ==
  ASSUME Inv, NEW t \in Thread, SoundIn(stored(t), dal, inbox), persist_error(t)
  PROVE  SoundStep(file, file') /\ SoundStep(tmp, tmp')
<1>1. PICK id : id = stored(t).id
  OBVIOUS
<1>2. id \in Id /\ file \in [Id -> Body] /\ tmp \in [Id -> Body]
  BY <1>1 DEF SoundIn, Submission, Inv, TypeOK
<1>3. /\ file' = file \/ file' = [file EXCEPT ![id] = Torn]
      /\ tmp' = tmp \/ tmp' = [tmp EXCEPT ![id] = Torn]
  BY <1>1 DEF persist_error
<1>4. SoundStep(file, file) /\ SoundStep(tmp, tmp)
  BY <1>2 DEF SoundStep
<1>5. SoundStep(file, file')
  BY <1>2, <1>3, <1>4, BrokenSound
<1>6. SoundStep(tmp, tmp')
  BY <1>2, <1>3, <1>4, BrokenSound
<1> QED BY <1>5, <1>6

\* A thread that has written, or tried to, and goes on to r.
LEMMA WritePreserved ==
  ASSUME Inv, NEW t \in Thread, NEW r \in Task, task' = [task EXCEPT ![t] = r],
         SoundStep(file, file'), SoundStep(tmp, tmp'),
         UNCHANGED <<config, dal, inbox>>, todo' \subseteq todo,
         TaskIn(t, r, dal, inbox)
  PROVE  Inv'
<1>1. /\ config' \in Config /\ Grows(dal, dal') /\ inbox' \in Seq(Message)
      /\ Extends(inbox, inbox') /\ todo' \subseteq Id
  BY GrowsSame, ExtendsSame DEF Inv, TypeOK
<1>2. /\ file' \in [Id -> Body] /\ tmp' \in [Id -> Body]
      /\ \A id \in Id : file'[id] = file[id] \/ KeptIn(id, file', dal', inbox')
      /\ \A id \in Id : tmp'[id] = tmp[id] \/ KeptIn(id, tmp', dal', inbox')
  BY DEF SoundStep
<1>3. /\ \A k \in 1..Len(inbox') : k \in 1..Len(inbox) \/ PointerIn(inbox'[k], dal')
      /\ TaskIn(t, r, dal', inbox')
  OBVIOUS
<1> QED BY <1>1, <1>2, <1>3, Preserved

\* The tmp file is made, and written.
LEMMA TmpInv ==
  ASSUME Inv, NEW t \in Thread, CreateTmp(t) \/ WriteTmp(t)
  PROVE  Inv'
<1>1. PICK s : s = stored(t)
  OBVIOUS
<1>2. /\ task[t].pc \notin Free /\ UNCHANGED <<config, task, todo, dal, inbox>>
      /\ task[t] \in Task /\ TaskIn(t, task[t], dal, inbox) /\ todo' \subseteq todo
  BY DEF CreateTmp, WriteTmp, Writing, Free, Inv, TypeOK
<1>3. SoundIn(s, dal, inbox) /\ file \in [Id -> Body] /\ tmp \in [Id -> Body]
  BY <1>1, <1>2 DEF TaskIn, stored, Inv, TypeOK
<1>4. s.id \in Id
  BY <1>3 DEF SoundIn, Submission
<1>5. SoundStep(file, file) /\ SoundStep(tmp, tmp)
  BY <1>3 DEF SoundStep
<1>6. SoundStep(file, file') /\ SoundStep(tmp, tmp')
  <2>1. CASE CreateTmp(t)
    <3>1. UNCHANGED file /\ tmp' = [tmp EXCEPT ![s.id] = Empty]
      BY <1>1, <2>1 DEF CreateTmp
    <3>2. SoundStep(tmp, tmp')
      BY <1>3, <1>4, <3>1, BrokenSound
    <3> QED BY <1>5, <3>1, <3>2
  <2>2. CASE WriteTmp(t)
    <3>1. (file' = file \/ file' \in overwritten(file, s)) /\ (tmp' = tmp \/ tmp' \in overwritten(tmp, s))
      BY <1>1, <2>2 DEF WriteTmp
    <3>2. SoundStep(file, file')
      BY <1>3, <1>5, <3>1, OverwrittenSound
    <3>3. SoundStep(tmp, tmp')
      BY <1>3, <1>5, <3>1, OverwrittenSound
    <3> QED BY <3>2, <3>3
  <2> QED BY <2>1, <2>2
<1>7. PICK r \in Task : r = task[t] /\ TaskIn(t, r, dal, inbox)
  BY <1>2
<1>8. task' = [task EXCEPT ![t] = r]
  BY <1>2, <1>7 DEF Inv, TypeOK
<1> QED BY <1>2, <1>6, <1>7, <1>8, WritePreserved

\* The payload is refused.
LEMMA RefuseInv ==
  ASSUME Inv, NEW id \in Id, Refuse(id)
  PROVE  Inv'
<1>1. id \in Thread
  BY DEF Thread
<1> QED BY <1>1, ReturnInv DEF Refuse

\* What a copy that is published from satisfies.
LEMMA PublishTask ==
  ASSUME NEW t, NEW s, NEW d, NEW b, SoundIn(s, d, b), s.status = "PendingDal",
         NEW pc \in {"publish", "persist_chunk"},
         t \in Id => s.id = t
  PROVE  /\ [pc |-> pc, stored |-> s, retry |-> <<>>] \in Task
         /\ TaskIn(t, [pc |-> pc, stored |-> s, retry |-> <<>>], d, b)
<1>1. [pc |-> pc, stored |-> s, retry |-> <<>>] \in Task
  BY CopyTask DEF SoundIn, Place, Request_place
<1> QED BY <1>1 DEF TaskIn, Free, Request_place

\* The payload is accepted and stored.
LEMMA AcceptInv ==
  ASSUME Inv, NEW id \in Id, Accept(id)
  PROVE  Inv'
<1>1. id \in Thread
  BY DEF Thread
<1>2. PICK s : s = stored(id)
  OBVIOUS
<1>3. SoundIn(s, dal, inbox) /\ s.id = id /\ s.status = "PendingDal"
  BY <1>1, <1>2 DEF Inv, TaskIn, Accept, At, stored, Free
<1>4. SoundStep(file, file') /\ SoundStep(tmp, tmp')
  BY <1>1, <1>2, <1>3, RenamedSound, ErrorSound DEF Accept
<1>5. UNCHANGED <<config, dal, inbox>> /\ todo' \subseteq todo
  BY DEF Accept
<1>6. CASE Return(id)
  <2>1. PICK pc \in Free : task' = [task EXCEPT ![id] = [pc |-> pc, stored |-> None, retry |-> <<>>]]
    BY <1>6 DEF Return, Goto, Free
  <2>2. PICK r : r = [pc |-> pc, stored |-> None, retry |-> <<>>]
    OBVIOUS
  <2>3. r \in Task /\ TaskIn(id, r, dal, inbox)
    BY <2>2, FreeTask
  <2> QED BY <1>1, <1>4, <1>5, <2>1, <2>2, <2>3, WritePreserved
<1>7. CASE Goto(id, "publish", s)
  <2>1. PICK r : r = [pc |-> "publish", stored |-> s, retry |-> <<>>]
    OBVIOUS
  <2>2. r \in Task /\ TaskIn(id, r, dal, inbox)
    BY <1>3, <2>1, PublishTask
  <2>3. task' = [task EXCEPT ![id] = r]
    BY <1>7, <2>1 DEF Goto
  <2> QED BY <1>1, <1>4, <1>5, <2>2, <2>3, WritePreserved
<1> QED BY <1>2, <1>6, <1>7 DEF Accept

\* A request that failed.
LEMMA MarkFailedInv ==
  ASSUME Inv, NEW id \in Id, MarkFailed(id)
  PROVE  Inv'
<1>1. id \in Thread /\ UNCHANGED <<config, file, tmp, todo, dal, inbox>> /\ todo' \subseteq Id
  BY DEF Thread, MarkFailed, Inv, TypeOK
<1>2. SoundIn(stored(id), dal, inbox) /\ stored(id).id = id /\ KeptIn(id, file, dal, inbox)
  BY <1>1 DEF Inv, TaskIn, MarkFailed, At, stored, Free
<1>3. PICK x : /\ Goto(id, "persist", x)
               /\ \/ x = [file[id] EXCEPT !.status = "Failed"] /\ Readable(file[id])
                  \/ x = [stored(id) EXCEPT !.status = "Failed", !.chunks = <<>>]
  BY DEF MarkFailed, load_stored_submission
<1>4. SoundIn(x, dal, inbox) /\ x.id = id
  <2>1. CASE x = [file[id] EXCEPT !.status = "Failed"] /\ Readable(file[id])
    BY <1>2, <2>1, FailedSound DEF KeptIn
  <2>2. CASE x = [stored(id) EXCEPT !.status = "Failed", !.chunks = <<>>]
    <3>0. <<>> \in Seq(Chunk) /\ Len(<<>>) = 0 /\ Published(<<>>) = 0 /\ 0 <= PayloadLen
      BY EmptySeq, PublishedEmpty, OperatorAssumption
    <3>1. x \in Submission /\ x.id = id /\ x.chunks = <<>> /\ x.status = "Failed"
      BY <1>2, <2>2, <3>0 DEF SoundIn, Submission, Status
    <3>2. InPlaceIn(x.id, x.chunks, dal)
      BY <3>0, <3>1 DEF InPlaceIn
    <3> QED BY <3>0, <3>1, <3>2 DEF SoundIn
  <2> QED BY <1>3, <2>1, <2>2
<1>5. PICK r : r = [pc |-> "persist", stored |-> x, retry |-> <<>>]
  OBVIOUS
<1>6. r \in Task /\ TaskIn(id, r, dal, inbox)
  BY <1>4, <1>5, PersistTask
<1> QED BY <1>1, <1>3, <1>5, <1>6, QuietPreserved DEF Goto

-----------------------------------------------------------------------------
(***************************************************************************)
(* Publishing.                                                             *)
(***************************************************************************)
\* One more publication.
LEMMA GrowsAppend ==
  ASSUME NEW d \in Seq(Slot), NEW p \in Slot
  PROVE  /\ Grows(d, Append(d, p)) /\ Len(Append(d, p)) = Len(d) + 1
         /\ Append(d, p)[Len(d) + 1] = p
<1>1. PICK e : e = Append(d, p)
  OBVIOUS
<1>2. /\ e \in Seq(Slot) /\ Len(e) = Len(d) + 1 /\ e[Len(d) + 1] = p
      /\ \A k \in 1..Len(d) : e[k] = d[k]
  BY <1>1, AppendProperties, LenProperties
<1>3. Len(d) \in Nat
  BY LenProperties
<1> QED BY <1>1, <1>2, <1>3 DEF Grows

\* One more chunk of a copy.
WithNext(s, x) == [s EXCEPT !.chunks = Append(@, x)]

\* The publication of the payload's next range, recorded as a chunk, leaves the
\* copy sound.
LEMMA ChunkAdded ==
  ASSUME NEW s, NEW d \in Seq(Slot), NEW b, SoundIn(s, d, b), s.status = "PendingDal",
         NEW len \in Nat, Published(s.chunks) + len <= PayloadLen, NEW p \in Slot,
         p.id = s.id, p.start = Published(s.chunks), p.payload_len = len,
         NEW x \in Chunk, x.payload_len = len, x.at = Len(d) + 1
  PROVE  /\ SoundIn(WithNext(s, x), Append(d, p), b) /\ WithNext(s, x).id = s.id
         /\ WithNext(s, x).status = "PendingDal"
<1>0. PICK y : y = WithNext(s, x)
  OBVIOUS
<1>1. PICK e : e = Append(d, p)
  OBVIOUS
<1>2. Grows(d, e) /\ Len(e) = Len(d) + 1 /\ e[Len(d) + 1] = p /\ Len(d) \in Nat
  BY <1>1, GrowsAppend, LenProperties
<1>3. PICK c : c = s.chunks
  OBVIOUS
<1>4. c \in Seq(Chunk) /\ Len(c) \in Nat /\ x \in Chunk /\ x.payload_len = len /\ x.at = Len(d) + 1
  BY <1>2, <1>3, LenProperties DEF SoundIn, Submission, Chunk
<1>5. PICK g : g = Append(c, x)
  OBVIOUS
<1>6. /\ g \in Seq(Chunk) /\ Len(g) = Len(c) + 1 /\ g[Len(c) + 1] = x
      /\ \A i \in 1..Len(c) : g[i] = c[i]
  BY <1>4, <1>5, AppendProperties
<1>7. Published(g) = Published(c) + len
  BY <1>4, <1>5, PublishedAppend
<1>8. InPlaceIn(s.id, c, e)
  BY <1>2, <1>3, InPlaceGrows DEF SoundIn
<1>9. InPlaceIn(s.id, g, e)
  <2> SUFFICES ASSUME NEW i \in 1..Len(g)
               PROVE  /\ g[i].at \in 1..Len(e) /\ e[g[i].at].id = s.id
                      /\ e[g[i].at].start = Published(SubSeq(g, 1, i - 1))
                      /\ e[g[i].at].payload_len = g[i].payload_len
    BY DEF InPlaceIn
  <2>1. PICK n \in 0..Len(c) : n = i - 1 /\ n <= Len(g)
    BY <1>4, <1>6
  <2>2. Published(SubSeq(c, 1, n)) = Published(SubSeq(g, 1, n))
    <3>1. \A j \in 1..n : c[j].payload_len = g[j].payload_len
      BY <1>4, <1>6
    <3> QED BY <1>4, <1>6, <2>1, <3>1, SameStart
  <2>3. CASE i \in 1..Len(c)
    BY <1>6, <1>8, <2>1, <2>2, <2>3 DEF InPlaceIn
  <2>4. CASE i = Len(c) + 1
    <3>1. SubSeq(c, 1, n) = c
      BY <1>4, <2>1, <2>4, SubSeqFull
    <3>2. g[i] = x /\ e[g[i].at] = p /\ g[i].at \in 1..Len(e)
      BY <1>2, <1>4, <1>6, <2>4
    <3>3. Published(SubSeq(g, 1, i - 1)) = Published(c)
      BY <2>1, <2>2, <3>1
    <3> QED BY <1>3, <1>4, <3>2, <3>3
  <2> QED BY <1>4, <1>6, <2>3, <2>4
<1>10. y = [s EXCEPT !.chunks = g]
  BY <1>0, <1>3, <1>5 DEF WithNext
<1>11. /\ y \in Submission /\ y.id = s.id /\ y.chunks = g /\ y.status = "PendingDal"
       /\ y.payload = s.payload
  BY <1>6, <1>10 DEF SoundIn, Submission
<1>12. SoundIn(y, e, b)
  BY <1>3, <1>7, <1>9, <1>11 DEF SoundIn
<1> QED BY <1>0, <1>1, <1>11, <1>12

\* Chunk i of a copy replaced.
WithChunk(s, i, x) == [s EXCEPT !.chunks[i] = x]

\* A chunk published again, in its place in the list, leaves the copy sound.
LEMMA ChunkReplaced ==
  ASSUME NEW s, NEW d \in Seq(Slot), NEW b, SoundIn(s, d, b), NEW i \in 1..Len(s.chunks),
         NEW p \in Slot, p.id = s.id, p.start = Published(SubSeq(s.chunks, 1, i - 1)),
         p.payload_len = s.chunks[i].payload_len, NEW x \in Chunk,
         x.payload_len = s.chunks[i].payload_len, x.at = Len(d) + 1
  PROVE  /\ SoundIn(WithChunk(s, i, x), Append(d, p), b) /\ WithChunk(s, i, x).id = s.id
         /\ WithChunk(s, i, x).status = s.status
         /\ Len(WithChunk(s, i, x).chunks) = Len(s.chunks)
<1>0. PICK y : y = WithChunk(s, i, x)
  OBVIOUS
<1>1. PICK e : e = Append(d, p)
  OBVIOUS
<1>2. Grows(d, e) /\ Len(e) = Len(d) + 1 /\ e[Len(d) + 1] = p /\ Len(d) \in Nat
  BY <1>1, GrowsAppend, LenProperties
<1>3. PICK c : c = s.chunks
  OBVIOUS
<1>4. c \in Seq(Chunk) /\ Len(c) \in Nat /\ i \in 1..Len(c) /\ c[i] \in Chunk
  BY <1>3, LenProperties, ElementOfSeq DEF SoundIn, Submission
<1>5. x.payload_len = c[i].payload_len /\ x.at = Len(d) + 1
  BY <1>3
<1>6. PICK g : g = [c EXCEPT ![i] = x]
  OBVIOUS
<1>7. /\ g \in Seq(Chunk) /\ Len(g) = Len(c)
      /\ \A j \in 1..Len(c) : g[j] = IF j = i THEN x ELSE c[j]
  BY <1>4, <1>5, <1>6, ExceptSeq
<1>8. \A j \in 1..Len(c) : c[j].payload_len = g[j].payload_len
  BY <1>5, <1>7
<1>9. Published(g) = Published(c)
  BY <1>4, <1>7, <1>8, SameLengths
<1>10. InPlaceIn(s.id, c, e)
  BY <1>2, <1>3, InPlaceGrows DEF SoundIn
<1>11. InPlaceIn(s.id, g, e)
  <2> SUFFICES ASSUME NEW j \in 1..Len(g)
               PROVE  /\ g[j].at \in 1..Len(e) /\ e[g[j].at].id = s.id
                      /\ e[g[j].at].start = Published(SubSeq(g, 1, j - 1))
                      /\ e[g[j].at].payload_len = g[j].payload_len
    BY DEF InPlaceIn
  <2>1. PICK m \in 0..Len(c) : m = j - 1 /\ m <= Len(g)
    BY <1>4, <1>7
  <2>2. Published(SubSeq(c, 1, m)) = Published(SubSeq(g, 1, m))
    <3>1. \A k \in 1..m : c[k].payload_len = g[k].payload_len
      BY <1>4, <1>8
    <3> QED BY <1>4, <1>7, <2>1, <3>1, SameStart
  <2>3. CASE j # i
    BY <1>7, <1>10, <2>1, <2>2, <2>3 DEF InPlaceIn
  <2>4. CASE j = i
    <3>1. g[j] = x /\ e[g[j].at] = p /\ g[j].at \in 1..Len(e)
      BY <1>2, <1>5, <1>7, <2>4
    <3>2. Published(SubSeq(g, 1, j - 1)) = Published(SubSeq(c, 1, i - 1))
      BY <2>1, <2>2, <2>4
    <3> QED BY <1>3, <1>5, <3>1, <3>2
  <2> QED BY <2>3, <2>4
<1>12. y = [s EXCEPT !.chunks = g]
  BY <1>0, <1>3, <1>6 DEF WithChunk
<1>13. /\ y \in Submission /\ y.id = s.id /\ y.chunks = g /\ y.status = s.status
       /\ y.payload = s.payload
  BY <1>7, <1>12 DEF SoundIn, Submission
<1>14. SoundIn(y, e, b)
  BY <1>3, <1>9, <1>11, <1>13 DEF SoundIn
<1> QED BY <1>0, <1>1, <1>3, <1>7, <1>13, <1>14

\* A thread that has published, and goes on to r.
LEMMA PublishPreserved ==
  ASSUME Inv, NEW t \in Thread, NEW r \in Task, task' = [task EXCEPT ![t] = r],
         Grows(dal, dal'), UNCHANGED <<config, file, tmp, todo, inbox>>,
         TaskIn(t, r, dal', inbox)
  PROVE  Inv'
<1>1. /\ config' \in Config /\ file' \in [Id -> Body] /\ tmp' \in [Id -> Body]
      /\ inbox' \in Seq(Message) /\ Extends(inbox, inbox') /\ todo' \subseteq Id
  BY ExtendsSame DEF Inv, TypeOK
<1>2. /\ \A id \in Id : file'[id] = file[id] \/ KeptIn(id, file', dal', inbox')
      /\ \A id \in Id : tmp'[id] = tmp[id] \/ KeptIn(id, tmp', dal', inbox')
      /\ \A k \in 1..Len(inbox') : k \in 1..Len(inbox) \/ PointerIn(inbox'[k], dal')
      /\ TaskIn(t, r, dal', inbox')
  OBVIOUS
<1> QED BY <1>1, <1>2, Preserved

\* A publication that fails, before or after its effect.
LEMMA PublishFails ==
  ASSUME Inv, NEW t \in Thread, Advance_error(t), Grows(dal, dal'),
         task[t].pc \in {"publish", "persist_chunk", "republish", "inject"},
         task[t].pc \in {"republish", "inject"} => t = Reconciler,
         UNCHANGED <<config, file, tmp, todo, inbox>>
  PROVE  Inv'
<1>1. PICK r \in Task : task' = [task EXCEPT ![t] = r] /\ TaskIn(t, r, dal, inbox)
  BY ErrorTask
<1>2. Extends(inbox, inbox)
  BY ExtendsSame DEF Inv, TypeOK
<1>3. TaskIn(t, r, dal', inbox)
  BY <1>1, <1>2, TaskGrows
<1> QED BY <1>1, <1>3, PublishPreserved

\* The next chunk is published, or fails.
LEMMA PublishNextInv ==
  ASSUME Inv, NEW t \in Thread, PublishNext(t)
  PROVE  Inv'
<1>1. PICK s : s = stored(t)
  OBVIOUS
<1>2. PICK start : start = Published(s.chunks)
  OBVIOUS
<1>3. PICK len : len = IF PayloadLen - start < config.chunk_size
                       THEN PayloadLen - start ELSE config.chunk_size
  OBVIOUS
<1>4. PICK range : range = [start |-> start, len |-> len]
  OBVIOUS
<1>5. PICK p : p = Publication(s, range)
  OBVIOUS
<1>6. PICK x : x = chunk(range, 1)
  OBVIOUS
<1>7. /\ task[t].pc = "publish" /\ start < PayloadLen
      /\ \/ dal' = Append(dal, p) /\ Goto(t, "persist_chunk", [s EXCEPT !.chunks = Append(@, x)])
         \/ dal' \in {dal, Append(dal, p)} /\ Advance_error(t)
      /\ UNCHANGED <<config, file, tmp, todo, inbox>>
  BY <1>1, <1>2, <1>3, <1>4, <1>5, <1>6 DEF PublishNext, At
<1>8. /\ SoundIn(s, dal, inbox) /\ s.status = "PendingDal"
      /\ t \in Id => s.id = t
  BY <1>1, <1>7 DEF Inv, TaskIn, stored, Free
<1>9. start \in Nat
  BY <1>2, <1>8, SameLengths DEF SoundIn, Submission
<1>10. PayloadLen \in Nat /\ config.chunk_size \in Nat
  BY OperatorAssumption DEF Inv, TypeOK, Config
<1>11. len \in Nat /\ start + len <= PayloadLen
  BY <1>3, <1>7, <1>9, <1>10
<1>12. /\ p \in Slot /\ p.id = s.id /\ p.start = start /\ p.payload_len = len
  BY <1>4, <1>5, <1>8, <1>9, <1>11 DEF Publication, Slot, SlotState, SoundIn, Submission
<1>13. dal \in Seq(Slot) /\ Grows(dal, Append(dal, p)) /\ Grows(dal, dal)
  BY <1>12, GrowsAppend, GrowsSame DEF Inv, TypeOK
<1>14. CASE dal' \in {dal, Append(dal, p)} /\ Advance_error(t)
  <2>1. Grows(dal, dal')
    BY <1>13, <1>14
  <2> QED BY <1>7, <1>14, <2>1, PublishFails
<1>15. CASE dal' = Append(dal, p) /\ Goto(t, "persist_chunk", [s EXCEPT !.chunks = Append(@, x)])
  <2>1. x = [payload_len |-> len, at |-> Len(dal) + 1, attempts |-> 1]
    BY <1>4, <1>6 DEF chunk
  <2>2. PICK y : y = [s EXCEPT !.chunks = Append(@, x)]
    OBVIOUS
  <2>3. SoundIn(y, dal', inbox) /\ y.id = s.id /\ y.status = "PendingDal"
    <3>1. Published(s.chunks) + len <= PayloadLen /\ p.start = Published(s.chunks)
      BY <1>2, <1>11, <1>12
    <3>2. SoundIn(y, Append(dal, p), inbox) /\ y.id = s.id /\ y.status = "PendingDal"
      <4>1. SoundIn(s, dal, inbox) /\ s.status = "PendingDal" /\ len \in Nat /\ dal \in Seq(Slot)
        BY <1>8, <1>11, <1>13
      <4>2. p \in Slot /\ p.id = s.id /\ p.payload_len = len
        BY <1>12
      <4>3. x \in Chunk /\ x.payload_len = len /\ x.at = Len(dal) + 1
        BY <2>1, <4>1, LenProperties DEF Chunk
      <4>4. y = WithNext(s, x)
        BY <2>2 DEF WithNext
      <4>5. /\ SoundIn(WithNext(s, x), Append(dal, p), inbox) /\ WithNext(s, x).id = s.id
            /\ WithNext(s, x).status = "PendingDal"
        BY <3>1, <4>1, <4>2, <4>3, ChunkAdded
      <4> QED BY <4>4, <4>5
    <3> QED BY <1>15, <3>2
  <2>4. t \in Id => y.id = t
    BY <1>8, <2>3
  <2>5. PICK r : r = [pc |-> "persist_chunk", stored |-> y, retry |-> <<>>]
    OBVIOUS
  <2>6. r \in Task /\ TaskIn(t, r, dal', inbox)
    BY <2>3, <2>4, <2>5, PublishTask
  <2>7. task' = [task EXCEPT ![t] = r] /\ Grows(dal, dal')
    BY <1>13, <1>15, <2>2, <2>5 DEF Goto
  <2> QED BY <1>7, <2>6, <2>7, PublishPreserved
<1> QED BY <1>7, <1>14, <1>15

\* The chunk is recorded in the file.
LEMMA PersistChunkInv ==
  ASSUME Inv, NEW t \in Thread, PersistChunk(t)
  PROVE  Inv'
<1>1. PICK s : s = stored(t)
  OBVIOUS
<1>2. /\ task[t].pc = "persist_chunk"
      /\ Goto(t, "publish", s) \/ Advance_error(t)
      /\ persist_submission(t) \/ persist_error(t)
      /\ UNCHANGED <<config, dal, inbox>> /\ todo' \subseteq todo
  BY <1>1 DEF PersistChunk, At
<1>3. /\ SoundIn(s, dal, inbox) /\ s.status = "PendingDal" /\ (t \in Id => s.id = t)
  BY <1>1, <1>2 DEF Inv, TaskIn, stored, Free
<1>4. SoundStep(file, file') /\ SoundStep(tmp, tmp')
  BY <1>1, <1>2, <1>3, RenamedSound, ErrorSound
<1>5. CASE Advance_error(t)
  <2>1. PICK r \in Task : task' = [task EXCEPT ![t] = r] /\ TaskIn(t, r, dal, inbox)
    BY <1>2, <1>5, ErrorTask
  <2> QED BY <1>2, <1>4, <2>1, WritePreserved
<1>6. CASE Goto(t, "publish", s)
  <2>1. PICK r : r = [pc |-> "publish", stored |-> s, retry |-> <<>>]
    OBVIOUS
  <2>2. r \in Task /\ TaskIn(t, r, dal, inbox)
    BY <1>3, <2>1, PublishTask
  <2>3. task' = [task EXCEPT ![t] = r]
    BY <1>6, <2>1 DEF Goto
  <2> QED BY <1>2, <1>4, <2>2, <2>3, WritePreserved
<1> QED BY <1>2, <1>5, <1>6

\* All chunks are published.
LEMMA AllPublishedInv ==
  ASSUME Inv, NEW t \in Thread, AllPublished(t)
  PROVE  Inv'
<1>1. PICK s : s = stored(t)
  OBVIOUS
<1>2. PICK y : y = [s EXCEPT !.status = "CommitmentIncluded"]
  OBVIOUS
<1>3. /\ task[t].pc = "publish" /\ s.payload /\ Published(s.chunks) = PayloadLen
      /\ Goto(t, "persist", y) /\ UNCHANGED <<config, file, tmp, todo, dal, inbox>>
  BY <1>1, <1>2 DEF AllPublished, At
<1>4. SoundIn(s, dal, inbox) /\ (t \in Id => s.id = t)
  BY <1>1, <1>3 DEF Inv, TaskIn, stored, Free
<1>5. /\ y \in Submission /\ y.id = s.id /\ y.chunks = s.chunks /\ y.payload = s.payload
      /\ y.status = "CommitmentIncluded"
  BY <1>2, <1>4 DEF SoundIn, Submission, Status
<1>6. SoundIn(y, dal, inbox)
  BY <1>3, <1>4, <1>5 DEF SoundIn
<1>7. PICK r : r = [pc |-> "persist", stored |-> y, retry |-> <<>>]
  OBVIOUS
<1>8. r \in Task /\ TaskIn(t, r, dal, inbox)
  BY <1>4, <1>5, <1>6, <1>7, PersistTask
<1>9. task' = [task EXCEPT ![t] = r] /\ todo' \subseteq Id
  BY <1>3, <1>7 DEF Goto, Inv, TypeOK
<1> QED BY <1>3, <1>8, <1>9, QuietPreserved

\* There is no node to publish at.
LEMMA CannotPublishInv ==
  ASSUME Inv, NEW t \in Thread, CannotPublish(t)
  PROVE  Inv'
<1>1. Grows(dal, dal')
  BY GrowsSame DEF Inv, TypeOK, CannotPublish
<1> QED BY <1>1, PublishFails DEF CannotPublish, At

-----------------------------------------------------------------------------
(***************************************************************************)
(* The reconciler.                                                         *)
(***************************************************************************)
\* A pass begins.
LEMMA TickInv ==
  ASSUME Inv, Tick
  PROVE  Inv'
<1>1. Reconciler \in Thread /\ UNCHANGED <<config, file, tmp, dal, inbox>>
  BY DEF Thread, Tick
<1>2. todo' \subseteq Id
  BY DEF Tick, submission_paths
<1>3. PICK r : r = [pc |-> "next", stored |-> None, retry |-> <<>>]
  OBVIOUS
<1>4. r \in Task /\ TaskIn(Reconciler, r, dal, inbox)
  BY <1>3, FreeTask DEF Free
<1>5. task' = [task EXCEPT ![Reconciler] = r]
  BY <1>3 DEF Tick, Goto
<1> QED BY <1>1, <1>2, <1>4, <1>5, QuietPreserved

\* The next submission of the pass is taken up, or skipped.
LEMMA NextSubmissionInv ==
  ASSUME Inv, NextSubmission
  PROVE  Inv'
<1>1. PICK id : id = Min(todo)
  OBVIOUS
<1>2. PICK s : s = file[id]
  OBVIOUS
<1>3. /\ Reconciler \in Thread /\ Reconciler \notin Id /\ todo' = todo \ {id}
      /\ UNCHANGED <<config, file, tmp, dal, inbox>>
      /\ \/ Goto(Reconciler, "next", None)
         \/ /\ Readable(s) /\ pending(s.status)
            /\ Goto(Reconciler, IF s.status = "PendingDal" THEN "publish" ELSE "status", s)
         \/ UNCHANGED task
  BY <1>1, <1>2, OperatorAssumption DEF NextSubmission, load_stored_submission, Thread
<1>4. todo \subseteq Id /\ todo # {} /\ todo \subseteq Nat
  BY OperatorAssumption DEF Inv, TypeOK, NextSubmission
<1>5. id \in todo
  BY <1>1, <1>4, FirstOf
<1>6. Readable(s) => SoundIn(s, dal, inbox)
  BY <1>2, <1>4, <1>5 DEF Inv, KeptIn
<1>7. todo' \subseteq Id
  BY <1>3, <1>4
<1>8. CASE Goto(Reconciler, "next", None)
  <2>1. PICK r : r = [pc |-> "next", stored |-> None, retry |-> <<>>]
    OBVIOUS
  <2>2. r \in Task /\ TaskIn(Reconciler, r, dal, inbox)
    BY <2>1, FreeTask DEF Free
  <2> QED BY <1>3, <1>7, <1>8, <2>1, <2>2, QuietPreserved DEF Goto
<1>9. CASE /\ Readable(s) /\ pending(s.status)
           /\ Goto(Reconciler, IF s.status = "PendingDal" THEN "publish" ELSE "status", s)
  <2>1. PICK pc : pc = IF s.status = "PendingDal" THEN "publish" ELSE "status"
    OBVIOUS
  <2>2. PICK r : r = [pc |-> pc, stored |-> s, retry |-> <<>>]
    OBVIOUS
  <2>3. r \in Task
    BY <1>6, <1>9, <2>1, <2>2, CopyTask DEF SoundIn, Place, Request_place
  <2>4. s.status = "PendingDal" \/ s.status = "CommitmentIncluded"
    BY <1>9 DEF pending
  <2>5. TaskIn(Reconciler, r, dal, inbox)
    BY <1>3, <1>6, <1>9, <2>1, <2>2, <2>4 DEF TaskIn, Free
  <2> QED BY <1>3, <1>7, <1>9, <2>1, <2>2, <2>3, <2>5, QuietPreserved DEF Goto
<1>10. CASE UNCHANGED task
  <2>1. PICK r \in Task : r = task[Reconciler] /\ TaskIn(Reconciler, r, dal, inbox)
    BY <1>3 DEF Inv, TypeOK
  <2>2. task' = [task EXCEPT ![Reconciler] = r]
    BY <1>3, <1>10, <2>1 DEF Inv, TypeOK
  <2> QED BY <1>3, <1>7, <2>1, <2>2, QuietPreserved
<1> QED BY <1>3, <1>8, <1>9, <1>10

\* The pass ends.
LEMMA EndPassInv ==
  ASSUME Inv, EndPass
  PROVE  Inv'
<1>1. /\ Reconciler \in Thread /\ UNCHANGED <<config, file, tmp, todo, dal, inbox>>
      /\ todo' \subseteq Id
  BY DEF Thread, EndPass, Inv, TypeOK
<1>2. PICK r : r = [pc |-> "idle", stored |-> None, retry |-> <<>>]
  OBVIOUS
<1>3. r \in Task /\ TaskIn(Reconciler, r, dal, inbox)
  BY <1>2, FreeTask DEF Free
<1>4. task' = [task EXCEPT ![Reconciler] = r]
  BY <1>2 DEF EndPass, Goto
<1> QED BY <1>1, <1>3, <1>4, QuietPreserved

\* The DAL node does not answer.
LEMMA NoStatusInv ==
  ASSUME Inv, NoStatus
  PROVE  Inv'
<1>1. Reconciler \in Thread
  BY DEF Thread
<1> QED BY <1>1, ReturnInv DEF NoStatus

\* Attempts ran out.
LEMMA GiveUpInv ==
  ASSUME Inv, GiveUp
  PROVE  Inv'
<1>1. PICK s : s = stored(Reconciler)
  OBVIOUS
<1>2. PICK y : y = [s EXCEPT !.status = "Failed"]
  OBVIOUS
<1>3. /\ Reconciler \in Thread /\ Reconciler \notin Id /\ task[Reconciler].pc = "republish"
      /\ Goto(Reconciler, "persist", y) /\ UNCHANGED <<config, file, tmp, todo, dal, inbox>>
      /\ todo' \subseteq Id
  BY <1>1, <1>2, OperatorAssumption DEF GiveUp, At, Thread, Inv, TypeOK
<1>4. SoundIn(s, dal, inbox)
  BY <1>1, <1>3 DEF Inv, TaskIn, stored, Free
<1>5. SoundIn(y, dal, inbox)
  BY <1>2, <1>4, FailedSound
<1>6. PICK r : r = [pc |-> "persist", stored |-> y, retry |-> <<>>]
  OBVIOUS
<1>7. r \in Task /\ TaskIn(Reconciler, r, dal, inbox)
  BY <1>3, <1>5, <1>6, PersistTask
<1> QED BY <1>3, <1>6, <1>7, QuietPreserved DEF Goto

\* A chunk is published again, or fails.
LEMMA RepublishInv ==
  ASSUME Inv, Republish
  PROVE  Inv'
<1>0. Reconciler \in Thread /\ Reconciler \notin Id /\ task[Reconciler].pc = "republish"
  BY OperatorAssumption DEF Republish, At, Thread
<1>1. PICK s : s = stored(Reconciler)
  OBVIOUS
<1>2. PICK retry : retry = task[Reconciler].retry
  OBVIOUS
<1>3. PICK i : i = Head(retry)
  OBVIOUS
<1>4. PICK range : range = submission_chunk_bytes(s, i)
  OBVIOUS
<1>5. PICK attempts : attempts = s.chunks[i].attempts
  OBVIOUS
<1>6. PICK p : p = Publication(s, range)
  OBVIOUS
<1>7. PICK x : x = chunk(range, attempts + 1)
  OBVIOUS
<1>8. PICK y : y = [s EXCEPT !.chunks[i] = x]
  OBVIOUS
<1>9. PICK r : r = [pc |-> IF Tail(retry) = <<>> THEN "persist" ELSE "republish",
                    stored |-> y, retry |-> Tail(retry)]
  OBVIOUS
<1>10. /\ \/ dal' = Append(dal, p) /\ task' = [task EXCEPT ![Reconciler] = r]
          \/ dal' \in {dal, Append(dal, p)} /\ Advance_error(Reconciler)
       /\ UNCHANGED <<config, file, tmp, todo, inbox>>
  BY <1>1, <1>2, <1>3, <1>4, <1>5, <1>6, <1>7, <1>8, <1>9 DEF Republish
<1>11. /\ SoundIn(s, dal, inbox) /\ s.status = "CommitmentIncluded"
       /\ retry \in Seq(1..Len(s.chunks)) /\ retry # <<>>
  BY <1>0, <1>1, <1>2 DEF Inv, TaskIn, stored, Free
<1>12. i \in 1..Len(s.chunks) /\ Tail(retry) \in Seq(1..Len(s.chunks))
  BY <1>3, <1>11, HeadTailProperties
<1>13. s.chunks \in Seq(Chunk) /\ s.chunks[i] \in Chunk /\ s.id \in Id
  BY <1>11, <1>12, ElementOfSeq DEF SoundIn, Submission
<1>14. PICK start \in Nat : start = Published(SubSeq(s.chunks, 1, i - 1))
  <2>1. i - 1 \in 0..Len(s.chunks)
    BY <1>12, <1>13, LenProperties
  <2>2. PICK c : c = SubSeq(s.chunks, 1, i - 1)
    OBVIOUS
  <2>3. c \in Seq(Chunk)
    BY <1>13, <2>1, <2>2, Beginning
  <2>4. Published(c) \in Nat
    BY <2>3, SameLengths
  <2> QED BY <2>2, <2>4
<1>15. range = [start |-> start, len |-> s.chunks[i].payload_len]
  BY <1>4, <1>14 DEF submission_chunk_bytes
<1>16. /\ p \in Slot /\ p.id = s.id /\ p.start = start
       /\ p.payload_len = s.chunks[i].payload_len
  BY <1>6, <1>13, <1>14, <1>15 DEF Publication, Slot, SlotState, Chunk
<1>17. dal \in Seq(Slot) /\ Grows(dal, Append(dal, p)) /\ Grows(dal, dal)
  BY <1>16, GrowsAppend, GrowsSame DEF Inv, TypeOK
<1>18. CASE dal' \in {dal, Append(dal, p)} /\ Advance_error(Reconciler)
  <2>1. Grows(dal, dal')
    BY <1>17, <1>18
  <2> QED BY <1>0, <1>10, <1>18, <2>1, PublishFails
<1>19. CASE dal' = Append(dal, p) /\ task' = [task EXCEPT ![Reconciler] = r]
  <2>1. PICK n \in Nat : n = attempts + 1
    BY <1>5, <1>13 DEF Chunk
  <2>2. x = [payload_len |-> s.chunks[i].payload_len, at |-> Len(dal) + 1, attempts |-> n]
    BY <1>7, <1>15, <2>1 DEF chunk
  <2>3. /\ SoundIn(y, Append(dal, p), inbox) /\ y.id = s.id /\ y.status = s.status
        /\ Len(y.chunks) = Len(s.chunks)
    <3>1. p.start = Published(SubSeq(s.chunks, 1, i - 1))
      BY <1>14, <1>16
    <3>2. y = WithChunk(s, i, x)
      BY <1>8 DEF WithChunk
    <3>3. /\ SoundIn(WithChunk(s, i, x), Append(dal, p), inbox) /\ WithChunk(s, i, x).id = s.id
          /\ WithChunk(s, i, x).status = s.status
          /\ Len(WithChunk(s, i, x).chunks) = Len(s.chunks)
      <4>1. x \in Chunk /\ x.payload_len = s.chunks[i].payload_len /\ x.at = Len(dal) + 1
        BY <1>13, <1>17, <2>2, LenProperties DEF Chunk
      <4> QED BY <1>11, <1>12, <1>16, <1>17, <3>1, <4>1, ChunkReplaced
    <3> QED BY <3>2, <3>3
  <2>4. r \in Task
    <3>1. Tail(retry) \in Seq(Nat)
      <4>1. 1..Len(s.chunks) \subseteq Nat
        OBVIOUS
      <4> QED BY <1>12, <4>1, SeqMonotonic
    <3> QED BY <1>9, <2>3, <3>1 DEF Task, Place, Request_place, SoundIn
  <2>5. TaskIn(Reconciler, r, dal', inbox)
    <3>1. SoundIn(y, dal', inbox) /\ y.status = "CommitmentIncluded"
      BY <1>11, <1>19, <2>3
    <3>2. r.pc = "republish" => r.retry \in Seq(1..Len(y.chunks)) /\ r.retry # <<>>
      BY <1>9, <1>12, <2>3
    <3> QED BY <1>0, <1>9, <3>1, <3>2 DEF TaskIn
  <2>6. Grows(dal, dal')
    BY <1>17, <1>19
  <2> QED BY <1>0, <1>10, <1>19, <2>4, <2>5, <2>6, PublishPreserved
<1> QED BY <1>10, <1>18, <1>19

\* The publications d once the DAL node has said st of chunks c.
Answered(d, c, st) ==
  [k \in DOMAIN d |->
     IF \E i \in DOMAIN c : c[i].at = k
     THEN [d[k] EXCEPT !.status = st[CHOOSE i \in DOMAIN c : c[i].at = k]]
     ELSE d[k]]

\* Publications stay, and chunks the node says are attested are.
LEMMA StatusGrows ==
  ASSUME NEW d \in Seq(Slot), NEW c, NEW st,
         \A i \in DOMAIN c : c[i].at \in 1..Len(d) /\ st[i] \in SlotStatus(d[c[i].at])
  PROVE  /\ Grows(d, Answered(d, c, st))
         /\ (\A i \in DOMAIN c : st[i] = "attested") =>
              \A i \in DOMAIN c : Answered(d, c, st)[c[i].at].status = "attested"
<1>0. PICK e : e = Answered(d, c, st)
  OBVIOUS
<1>1. DOMAIN d = 1..Len(d) /\ Len(d) \in Nat /\ \A k \in 1..Len(d) : d[k] \in Slot
  BY LenProperties, ElementOfSeq
<1>2. ASSUME NEW k \in 1..Len(d)
      PROVE  /\ e[k] \in Slot /\ e[k].id = d[k].id /\ e[k].start = d[k].start
             /\ e[k].payload_len = d[k].payload_len
             /\ d[k].status = "attested" => e[k].status = "attested"
             /\ (\E i \in DOMAIN c : c[i].at = k) /\ (\A i \in DOMAIN c : st[i] = "attested")
                  => e[k].status = "attested"
  <2>1. CASE \E i \in DOMAIN c : c[i].at = k
    <3>1. PICK j : j = CHOOSE i \in DOMAIN c : c[i].at = k
      OBVIOUS
    <3>2. j \in DOMAIN c /\ c[j].at = k
      BY <2>1, <3>1
    <3>3. e[k] = [d[k] EXCEPT !.status = st[j]]
      BY <1>0, <1>1, <2>1, <3>1 DEF Answered
    <3>4. st[j] \in SlotStatus(d[k]) /\ d[k] \in Slot
      BY <1>1, <3>2
    <3>5. st[j] \in SlotState /\ (d[k].status = "attested" => st[j] = "attested")
      BY <3>4 DEF SlotStatus, Slot, SlotState
    <3>6. /\ e[k] \in Slot /\ e[k].id = d[k].id /\ e[k].start = d[k].start
          /\ e[k].payload_len = d[k].payload_len /\ e[k].status = st[j]
      BY <3>3, <3>4, <3>5 DEF Slot
    <3> QED BY <3>2, <3>5, <3>6
  <2>2. CASE ~ \E i \in DOMAIN c : c[i].at = k
    <3>1. e[k] = d[k]
      BY <1>0, <1>1, <2>2 DEF Answered
    <3> QED BY <1>1, <2>2, <3>1
  <2> QED BY <2>1, <2>2
<1>3. e \in Seq(Slot) /\ Len(e) = Len(d)
  <2>1. DOMAIN e = 1..Len(d) /\ e = [k \in DOMAIN e |-> e[k]]
    BY <1>0, <1>1 DEF Answered
  <2>2. e \in [1..Len(d) -> Slot]
    BY <1>2, <2>1
  <2> QED BY <1>1, <2>2, FunctionIsSeq
<1>4. Grows(d, e)
  BY <1>1, <1>2, <1>3 DEF Grows
<1> QED BY <1>0, <1>2, <1>4

\* The reconciler has asked for the status of the chunks.
LEMMA CheckStatusInv ==
  ASSUME Inv, CheckStatus
  PROVE  Inv'
<1>0. Reconciler \in Thread /\ Reconciler \notin Id /\ task[Reconciler].pc = "status"
  BY OperatorAssumption DEF CheckStatus, At, Thread
<1> DEFINE s == stored(Reconciler)
           c == s.chunks
           n == Len(c)
<1>4. /\ SoundIn(s, dal, inbox) /\ s.status = "CommitmentIncluded" /\ c \in Seq(Chunk)
      /\ DOMAIN c = 1..n /\ n \in Nat /\ dal \in Seq(Slot) /\ inbox \in Seq(Message)
      /\ task \in [Thread -> Task]
  <2>1. SoundIn(s, dal, inbox) /\ s.status = "CommitmentIncluded"
    BY <1>0 DEF Inv, TaskIn, stored, Free
  <2>2. c \in Seq(Chunk)
    BY <2>1 DEF SoundIn, Submission
  <2> QED BY <2>1, <2>2, LenProperties DEF Inv, TypeOK
<1>5. PICK status \in [DOMAIN c -> UNION {SlotStatus(p) : p \in Range(dal)}],
           head_known \in BOOLEAN :
        LET waiting == {i \in DOMAIN c : status[i] \notin {"attested", "unattested"}}
            late == {i \in waiting : stale(status[i], head_known)}
            retry == retry_indices({i \in DOMAIN c : unattested(status[i])}, n)
                       \o retry_indices(late, n)
        IN  /\ \A i \in DOMAIN c : status[i] \in SlotStatus(dal[c[i].at])
            /\ dal' = Answered(dal, c, status)
            /\ \/ /\ retry # <<>>
                  /\ task' = [task EXCEPT ![Reconciler].pc = "republish",
                                          ![Reconciler].retry = retry]
               \/ /\ retry = <<>> /\ waiting # {}
                  /\ \E pc \in {"persist", "next"} :
                       Goto(Reconciler, pc, IF pc = "persist" THEN s ELSE None)
               \/ /\ retry = <<>> /\ waiting = {}
                  /\ Goto(Reconciler, "inject", s)
  BY DEF CheckStatus, Answered
<1>6. UNCHANGED <<config, file, tmp, todo, inbox>>
  BY DEF CheckStatus
<1>1. s = stored(Reconciler) /\ c = s.chunks /\ n = Len(c)
  OBVIOUS
<1> HIDE DEF s, c, n
<1> DEFINE waiting == {i \in DOMAIN c : status[i] \notin {"attested", "unattested"}}
           late == {i \in waiting : stale(status[i], head_known)}
           lost == {i \in DOMAIN c : unattested(status[i])}
<1>7. PICK retry : retry = retry_indices(lost, n) \o retry_indices(late, n)
  OBVIOUS
<1>8. retry \in Seq(1..n) /\ (retry = <<>> => \A i \in 1..n : i \notin lost)
  <2>1. PICK a : a = retry_indices(lost, n)
    OBVIOUS
  <2>2. PICK b : b = retry_indices(late, n)
    OBVIOUS
  <2>3. a \in Seq(1..n) /\ b \in Seq(1..n) /\ (a = <<>> => \A i \in 1..n : i \notin lost)
    <3> HIDE DEF lost, late
    <3> QED BY <1>4, <2>1, <2>2, RetryFacts
  <2>4. retry \in Seq(1..n) /\ (retry = <<>> => a = <<>>)
    <3> HIDE DEF lost, late
    <3>1. retry = a \o b
      BY <1>7, <2>1, <2>2
    <3> QED BY <2>3, <3>1, ConcatProperties, ConcatEmptySeq, LenProperties, EmptySeq
  <2> HIDE DEF lost, late
  <2> QED BY <2>3, <2>4
<1>9. \A i \in DOMAIN c : c[i].at \in 1..Len(dal) /\ status[i] \in SlotStatus(dal[c[i].at])
  BY <1>1, <1>4, <1>5 DEF SoundIn, InPlaceIn
<1>10. /\ Grows(dal, dal')
       /\ (\A i \in DOMAIN c : status[i] = "attested") =>
            \A i \in DOMAIN c : dal'[c[i].at].status = "attested"
  <2>1. dal' = Answered(dal, c, status)
    BY <1>5
  <2>2. /\ Grows(dal, Answered(dal, c, status))
        /\ (\A i \in DOMAIN c : status[i] = "attested") =>
             \A i \in DOMAIN c : Answered(dal, c, status)[c[i].at].status = "attested"
    BY <1>4, <1>9, StatusGrows
  <2> QED BY <2>1, <2>2
<1>11. SoundIn(s, dal', inbox)
  BY <1>4, <1>10, SoundGrows, ExtendsSame
<1>12. CASE retry # <<>> /\ task' = [task EXCEPT ![Reconciler].pc = "republish",
                                                ![Reconciler].retry = retry]
  <2>1. PICK r : r = [task[Reconciler] EXCEPT !.pc = "republish", !.retry = retry]
    OBVIOUS
  <2>2. task' = [task EXCEPT ![Reconciler] = r]
    BY <1>0, <1>4, <1>12, <2>1
  <2>3. retry \in Seq(Nat)
    <3>1. 1..n \subseteq Nat
      BY <1>4
    <3> QED BY <1>8, <3>1, SeqMonotonic
  <2>4. r \in Task /\ r.pc = "republish" /\ r.stored = s /\ r.retry = retry
    BY <1>0, <1>1, <1>4, <2>1, <2>3 DEF Task, Place, stored
  <2>5. TaskIn(Reconciler, r, dal', inbox)
    BY <1>0, <1>1, <1>4, <1>8, <1>11, <1>12, <2>4 DEF TaskIn
  <2> QED BY <1>0, <1>6, <1>10, <2>2, <2>4, <2>5, PublishPreserved
<1>13. CASE \E pc \in {"persist", "next"} :
              Goto(Reconciler, pc, IF pc = "persist" THEN s ELSE None)
  <2>1. CASE Goto(Reconciler, "persist", s)
    <3>1. PICK r : r = [pc |-> "persist", stored |-> s, retry |-> <<>>]
      OBVIOUS
    <3>2. r \in Task /\ TaskIn(Reconciler, r, dal', inbox)
      BY <1>0, <1>11, <3>1, PersistTask
    <3> QED BY <1>0, <1>6, <1>10, <2>1, <3>1, <3>2, PublishPreserved DEF Goto
  <2>2. CASE Goto(Reconciler, "next", None)
    <3>1. PICK r : r = [pc |-> "next", stored |-> None, retry |-> <<>>]
      OBVIOUS
    <3>2. r \in Task /\ TaskIn(Reconciler, r, dal', inbox)
      BY <3>1, FreeTask DEF Free
    <3> QED BY <1>0, <1>6, <1>10, <2>2, <3>1, <3>2, PublishPreserved DEF Goto
  <2> QED BY <1>13, <2>1, <2>2
<1>14. CASE retry = <<>> /\ waiting = {} /\ Goto(Reconciler, "inject", s)
  <2>1. \A i \in DOMAIN c : status[i] = "attested"
    BY <1>4, <1>8, <1>14 DEF unattested
  <2>2. AttestedIn(s.chunks, dal')
    BY <1>1, <1>4, <1>10, <2>1 DEF AttestedIn
  <2>3. PICK r : r = [pc |-> "inject", stored |-> s, retry |-> <<>>]
    OBVIOUS
  <2>4. r \in Task
    BY <1>11, <2>3, CopyTask DEF SoundIn, Place, Request_place
  <2>5. TaskIn(Reconciler, r, dal', inbox)
    BY <1>0, <1>4, <1>11, <2>2, <2>3 DEF TaskIn
  <2> QED BY <1>0, <1>6, <1>10, <1>14, <2>3, <2>4, <2>5, PublishPreserved DEF Goto
<1> QED BY <1>5, <1>7, <1>12, <1>13, <1>14

-----------------------------------------------------------------------------
(***************************************************************************)
(* Injecting and persisting.                                               *)
(***************************************************************************)
\* One more message.
LEMMA ExtendsAppend ==
  ASSUME NEW b \in Seq(Message), NEW m \in Message
  PROVE  /\ Extends(b, Append(b, m)) /\ Append(b, m) \in Seq(Message)
         /\ Len(Append(b, m)) = Len(b) + 1 /\ Append(b, m)[Len(b) + 1] = m
<1>1. PICK c : c = Append(b, m)
  OBVIOUS
<1>2. /\ c \in Seq(Message) /\ Len(c) = Len(b) + 1 /\ c[Len(b) + 1] = m
      /\ \A k \in 1..Len(b) : c[k] = b[k]
  BY <1>1, AppendProperties, LenProperties
<1>3. Len(b) \in Nat
  BY LenProperties
<1> QED BY <1>1, <1>2, <1>3 DEF Extends

\* A thread that has injected, or tried to, and goes on to r.
LEMMA InjectPreserved ==
  ASSUME Inv, NEW t \in Thread, NEW r \in Task, task' = [task EXCEPT ![t] = r],
         NEW m \in Message, PointerIn(m, dal), inbox' \in {inbox, Append(inbox, m)},
         UNCHANGED <<config, file, tmp, todo, dal>>,
         TaskIn(t, r, dal, inbox')
  PROVE  Inv'
<1>1. /\ config' \in Config /\ file' \in [Id -> Body] /\ tmp' \in [Id -> Body]
      /\ Grows(dal, dal') /\ inbox \in Seq(Message) /\ todo' \subseteq Id
  BY GrowsSame DEF Inv, TypeOK
<1>2. /\ inbox' \in Seq(Message) /\ Extends(inbox, inbox')
      /\ \A k \in 1..Len(inbox') : k \in 1..Len(inbox) \/ PointerIn(inbox'[k], dal')
  <2>1. CASE inbox' = inbox
    BY <1>1, <2>1, ExtendsSame
  <2>2. CASE inbox' = Append(inbox, m)
    <3>1. /\ inbox' \in Seq(Message) /\ Extends(inbox, inbox')
          /\ Len(inbox') = Len(inbox) + 1 /\ inbox'[Len(inbox) + 1] = m
      BY <1>1, <2>2, ExtendsAppend
    <3>2. Len(inbox) \in Nat
      BY <1>1, LenProperties
    <3>3. ASSUME NEW k \in 1..Len(inbox')
          PROVE  k \in 1..Len(inbox) \/ PointerIn(inbox'[k], dal')
      <4>1. k \in 1..Len(inbox) \/ k = Len(inbox) + 1
        BY <3>1, <3>2
      <4> QED BY <3>1, <4>1
    <3> QED BY <3>1, <3>3
  <2> QED BY <2>1, <2>2
<1>3. /\ \A id \in Id : file'[id] = file[id] \/ KeptIn(id, file', dal', inbox')
      /\ \A id \in Id : tmp'[id] = tmp[id] \/ KeptIn(id, tmp', dal', inbox')
      /\ TaskIn(t, r, dal', inbox')
  OBVIOUS
<1> QED BY <1>1, <1>2, <1>3, Preserved

\* The message, or the pointer, is injected.
LEMMA InjectInv ==
  ASSUME Inv, NEW t \in Thread, Inject(t)
  PROVE  Inv'
<1>1. PICK s : s = stored(t)
  OBVIOUS
<1>2. PICK m : m = dal_pointer_from_submission(s)
  OBVIOUS
<1>3. /\ task[t].pc = "inject" /\ encodes(s) /\ UNCHANGED <<config, file, tmp, todo, dal>>
      /\ \/ /\ inbox' = Append(inbox, m)
            /\ Goto(t, "persist", [s EXCEPT !.status = "SubmittedToL1"])
         \/ /\ inbox' \in {inbox, Append(inbox, m)}
            /\ \/ t = Reconciler /\ Advance_error(t)
               \/ Goto(t, "persist", inject_error(s))
  BY <1>1, <1>2 DEF Inject, At, inject_direct_message
<1>4. /\ SoundIn(s, dal, inbox) /\ (t \in Id => s.id = t)
      /\ \/ s.id \in Direct
         \/ s.status = "CommitmentIncluded" /\ AttestedIn(s.chunks, dal)
  BY <1>1, <1>3 DEF Inv, TaskIn, stored, Free
<1>5. m \in Message /\ m.id = s.id /\ m.chunks = s.chunks
  BY <1>2, <1>4 DEF dal_pointer_from_submission, Message, SoundIn, Submission
<1>6. PointerIn(m, dal)
  BY <1>3, <1>4, <1>5 DEF PointerIn, SoundIn, encodes
<1>7. dal \in Seq(Slot) /\ inbox \in Seq(Message)
  BY DEF Inv, TypeOK
<1>8. Grows(dal, dal) /\ Extends(inbox, inbox')
  BY <1>3, <1>5, <1>7, GrowsSame, ExtendsSame, ExtendsAppend
<1>9. SoundIn(s, dal, inbox')
  BY <1>4, <1>8, SoundGrows
<1>10. CASE /\ inbox' = Append(inbox, m)
            /\ Goto(t, "persist", [s EXCEPT !.status = "SubmittedToL1"])
  <2>1. PICK y : y = [s EXCEPT !.status = "SubmittedToL1"]
    OBVIOUS
  <2>2. y \in Submission /\ y.id = s.id /\ y.chunks = s.chunks /\ y.status = "SubmittedToL1"
    BY <1>4, <2>1 DEF SoundIn, Submission, Status
  <2>3. \E k \in 1..Len(inbox') : inbox'[k].id = y.id
    <3>1. Len(inbox') = Len(inbox) + 1 /\ inbox'[Len(inbox) + 1] = m /\ Len(inbox) \in Nat
      BY <1>5, <1>7, <1>10, ExtendsAppend, LenProperties
    <3>2. Len(inbox) + 1 \in 1..Len(inbox')
      BY <3>1
    <3> QED BY <1>5, <2>2, <3>1, <3>2
  <2>4. SoundIn(y, dal, inbox')
    BY <1>4, <2>2, <2>3 DEF SoundIn
  <2>5. PICK r : r = [pc |-> "persist", stored |-> y, retry |-> <<>>]
    OBVIOUS
  <2>6. r \in Task /\ TaskIn(t, r, dal, inbox')
    BY <1>4, <2>2, <2>4, <2>5, PersistTask
  <2>7. task' = [task EXCEPT ![t] = r]
    BY <1>10, <2>1, <2>5 DEF Goto
  <2> QED BY <1>3, <1>5, <1>6, <1>10, <2>6, <2>7, InjectPreserved
<1>11. CASE /\ inbox' \in {inbox, Append(inbox, m)}
            /\ t = Reconciler /\ Advance_error(t)
  <2>1. PICK r \in Task : task' = [task EXCEPT ![t] = r] /\ TaskIn(t, r, dal, inbox)
    BY <1>3, <1>11, ErrorTask
  <2>2. TaskIn(t, r, dal, inbox')
    BY <1>8, <2>1, TaskGrows
  <2> QED BY <1>3, <1>5, <1>6, <1>11, <2>1, <2>2, InjectPreserved
<1>12. CASE /\ inbox' \in {inbox, Append(inbox, m)}
            /\ Goto(t, "persist", inject_error(s))
  <2>1. PICK y : y = [s EXCEPT !.status = "Failed"]
    OBVIOUS
  <2>2. SoundIn(y, dal, inbox') /\ y.id = s.id
    BY <1>9, <2>1, FailedSound
  <2>3. PICK r : r = [pc |-> "persist", stored |-> y, retry |-> <<>>]
    OBVIOUS
  <2>4. r \in Task /\ TaskIn(t, r, dal, inbox')
    BY <1>4, <2>2, <2>3, PersistTask
  <2>5. task' = [task EXCEPT ![t] = r]
    BY <1>12, <2>1, <2>3 DEF Goto, inject_error
  <2> QED BY <1>3, <1>5, <1>6, <1>12, <2>4, <2>5, InjectPreserved
<1> QED BY <1>3, <1>10, <1>11, <1>12

\* The copy is written, or lost.
LEMMA PersistInv ==
  ASSUME Inv, NEW t \in Thread, Persist(t)
  PROVE  Inv'
<1>1. PICK s : s = stored(t)
  OBVIOUS
<1>2. PICK pc \in Free :
        task' = [task EXCEPT ![t] = [pc |-> pc, stored |-> None, retry |-> <<>>]]
  BY DEF Persist, Return, Goto, Free
<1>3. PICK r : r = [pc |-> pc, stored |-> None, retry |-> <<>>]
  OBVIOUS
<1>4. /\ task[t].pc = "persist" /\ UNCHANGED <<config, dal, inbox>> /\ todo' \subseteq todo
      /\ persist_submission(t) \/ persist_error(t)
  BY <1>1 DEF Persist, At
<1>5. r \in Task /\ TaskIn(t, r, dal, inbox)
  BY <1>3, FreeTask
<1>6. SoundIn(s, dal, inbox) /\ todo' \subseteq Id
  BY <1>1, <1>4 DEF Inv, TypeOK, TaskIn, stored, Free
<1>7. SoundStep(file, file') /\ SoundStep(tmp, tmp')
  BY <1>1, <1>4, <1>6, RenamedSound, ErrorSound
<1> QED BY <1>2, <1>3, <1>4, <1>5, <1>6, <1>7, WritePreserved

\* The pointer does not encode.
LEMMA CannotPointInv ==
  ASSUME Inv, CannotPoint
  PROVE  Inv'
<1>1. Reconciler \in Thread /\ Grows(dal, dal')
  BY GrowsSame DEF Inv, TypeOK, CannotPoint, Thread
<1> QED BY <1>1, PublishFails DEF CannotPoint, At

-----------------------------------------------------------------------------
(***************************************************************************)
(* The process and L1.                                                     *)
(***************************************************************************)
\* After a crash no thread has a copy, and the files are what they were.
LEMMA CrashInv ==
  ASSUME Inv, Crash
  PROVE  Inv'
<1>1. ASSUME NEW t \in Thread
      PROVE  task'[t] \in Task /\ TaskIn(t, task'[t], dal, inbox)
  <2>1. PICK pc \in Free : task'[t] = [pc |-> pc, stored |-> None, retry |-> <<>>]
    BY DEF Crash, Free
  <2> QED BY <2>1, FreeTask
<1>2. task' \in [Thread -> Task]
  BY <1>1 DEF Crash
<1>3. /\ UNCHANGED <<file, dal, inbox>> /\ todo' = {} /\ config' \in Config
      /\ tmp' = [id \in Id |-> None]
  BY DEF Crash
<1>4. TypeOK' /\ \A id \in Id : KeptIn(id, tmp', dal, inbox)
  BY <1>2, <1>3 DEF Inv, TypeOK, KeptIn, Readable, Body
<1> QED BY <1>1, <1>3, <1>4 DEF Inv

\* Levels are baked.
LEMMA BakeInv ==
  ASSUME Inv, Bake
  PROVE  Inv'
<1>1. /\ dal \in Seq(Slot) /\ DOMAIN dal = 1..Len(dal) /\ Len(dal) \in Nat
      /\ \A k \in 1..Len(dal) : dal[k] \in Slot
  BY LenProperties, ElementOfSeq DEF Inv, TypeOK
<1>2. UNCHANGED <<config, file, tmp, lock, task, todo, inbox, faults>>
  BY DEF Bake
<1>3. ASSUME NEW k \in 1..Len(dal)
      PROVE  /\ dal'[k] \in Slot /\ dal'[k].id = dal[k].id /\ dal'[k].start = dal[k].start
             /\ dal'[k].payload_len = dal[k].payload_len
             /\ dal[k].status = "attested" => dal'[k].status = "attested"
  <2>1. dal'[k] = dal[k] \/ (/\ dal[k].status = "waiting_attestation"
                             /\ dal'[k] = [dal[k] EXCEPT !.status = "stale"])
    BY <1>1 DEF Bake
  <2> QED BY <1>1, <2>1 DEF Slot, SlotState
<1>4. dal' \in [1..Len(dal) -> Slot]
  <2>1. DOMAIN dal' = 1..Len(dal) /\ dal' = [k \in DOMAIN dal' |-> dal'[k]]
    BY <1>1 DEF Bake
  <2> QED BY <1>3, <2>1
<1>5. dal' \in Seq(Slot) /\ Len(dal') = Len(dal)
  BY <1>1, <1>4, FunctionIsSeq
<1>6. Grows(dal, dal')
  BY <1>1, <1>3, <1>5 DEF Grows
<1>7. PICK r \in Task : r = task[Reconciler] /\ TaskIn(Reconciler, r, dal, inbox)
  BY DEF Inv, TypeOK, Thread
<1>8. Reconciler \in Thread /\ task' = [task EXCEPT ![Reconciler] = r]
  BY <1>2, <1>7 DEF Inv, TypeOK, Thread
<1>9. TaskIn(Reconciler, r, dal', inbox)
  <2>1. Extends(inbox, inbox) /\ Reconciler \notin Id
    BY ExtendsSame, OperatorAssumption DEF Inv, TypeOK
  <2> QED BY <1>6, <1>7, <2>1, TaskGrows
<1> QED BY <1>2, <1>6, <1>7, <1>8, <1>9, PublishPreserved

\* What leaves everything but the lock and the faults alone.
LEMMA SameInv ==
  ASSUME Inv, UNCHANGED <<config, file, tmp, task, todo, dal, inbox>>
  PROVE  Inv'
BY DEF Inv, TypeOK

\* The invariant holds at first.
LEMMA InitInv ==
  ASSUME Init
  PROVE  Inv
<1>1. /\ <<>> \in Seq(Slot) /\ <<>> \in Seq(Message) /\ Len(<<>>) = 0
  BY EmptySeq
<1>2. ASSUME NEW t \in Thread
      PROVE  task[t] \in Task /\ TaskIn(t, task[t], dal, inbox)
  <2>1. PICK pc \in Free : task[t] = [pc |-> pc, stored |-> None, retry |-> <<>>]
    BY DEF Init, Free
  <2> QED BY <2>1, FreeTask
<1>3. TypeOK
  BY <1>1, <1>2 DEF Init, TypeOK, Body
<1>4. \A id \in Id : KeptIn(id, file, dal, inbox) /\ KeptIn(id, tmp, dal, inbox)
  BY DEF Init, KeptIn, Readable
<1>5. todo = {} /\ \A k \in 1..Len(inbox) : FALSE
  BY <1>1 DEF Init
<1> QED BY <1>2, <1>3, <1>4, <1>5 DEF Inv

\* Every step keeps it.
LEMMA StepInv ==
  ASSUME Inv, [Next]_vars
  PROVE  Inv'
<1>1. Reconciler \in Thread /\ \A id \in Id : id \in Thread
  BY DEF Thread
<1>2. ASSUME NEW t \in Thread, Advance(t) PROVE Inv'
  BY <1>2, PublishNextInv, PersistChunkInv, AllPublishedInv, CannotPublishInv, InjectInv,
     PersistInv, TmpInv DEF Advance
<1>3. ASSUME NEW id \in Id, Request(id) \/ process_submission(id) \/ Disconnect(id) PROVE Inv'
  <2>1. CASE Disconnect(id)
    BY <2>1, SameInv DEF Disconnect
  <2> QED BY <1>1, <1>2, <1>3, <2>1, RequestInv, RefuseInv, AcceptInv, MarkFailedInv
          DEF process_submission
<1>4. ASSUME reconcile_loop PROVE Inv'
  BY <1>1, <1>2, <1>4, TickInv, NextSubmissionInv, EndPassInv, CheckStatusInv, NoStatusInv,
     RepublishInv, GiveUpInv, CannotPointInv DEF reconcile_loop
<1>5. CASE UNCHANGED vars
  BY <1>5, SameInv DEF vars
<1> QED BY <1>3, <1>4, <1>5, CrashInv, BakeInv DEF Next

\* Two safety properties follow from it, and a third if files can be read.
LEMMA InvImplies ==
  ASSUME Inv
  PROVE  /\ PointersDeliverable /\ SubmittedIsInjected
         /\ (\A id \in Id : file[id] \notin {Empty, Torn}) => Resumable
<1>1. inbox \in Seq(Message) /\ DOMAIN inbox = 1..Len(inbox)
  BY LenProperties DEF Inv, TypeOK
<1>2. ASSUME NEW m \in Range(inbox) PROVE \E k \in 1..Len(inbox) : m = inbox[k]
  BY <1>1, <1>2 DEF Range
<1>3. ASSUME NEW id, NEW c \in Seq(Chunk), InPlaceIn(id, c, dal) PROVE InPlace(id, c)
  <2>1. DOMAIN c = 1..Len(c)
    BY LenProperties
  <2> QED BY <1>3, <2>1 DEF InPlace, InPlaceIn
<1>4. PointersDeliverable
  <2> SUFFICES ASSUME NEW m \in Range(inbox), m.id \notin Direct
               PROVE  /\ Len(m.chunks) <= MaxPointers
                      /\ Published(m.chunks) = PayloadLen /\ InPlace(m.id, m.chunks)
                      /\ \A i \in DOMAIN m.chunks : dal[m.chunks[i].at].status = "attested"
    BY DEF PointersDeliverable
  <2>1. PICK k \in 1..Len(inbox) : m = inbox[k]
    BY <1>2
  <2>2. PointerIn(m, dal) /\ m \in Message
    BY <1>1, <2>1, ElementOfSeq DEF Inv
  <2>3. m.chunks \in Seq(Chunk) /\ DOMAIN m.chunks = 1..Len(m.chunks)
    BY <2>2, LenProperties DEF Message
  <2> QED BY <1>3, <2>2, <2>3 DEF PointerIn, AttestedIn
<1>5. SubmittedIsInjected
  <2> SUFFICES ASSUME NEW id \in Id, Readable(file[id]), file[id].status = "SubmittedToL1"
               PROVE  \E m \in Range(inbox) : m.id = id
    BY DEF SubmittedIsInjected, HasStatus
  <2>1. PICK k \in 1..Len(inbox) : inbox[k].id = id
    BY DEF Inv, KeptIn, SoundIn
  <2> QED BY <1>1, <2>1 DEF Range
<1>6. ASSUME \A id \in Id : file[id] \notin {Empty, Torn} PROVE Resumable
  <2> SUFFICES ASSUME NEW id \in Id, file[id] # None,
                      ~HasStatus(id, {"SubmittedToL1", "Failed"})
               PROVE  /\ Readable(file[id]) /\ file[id].payload /\ InPlace(id, file[id].chunks)
                      /\ Published(file[id].chunks) <= PayloadLen
                      /\ file[id].status = "CommitmentIncluded"
                           => Published(file[id].chunks) = PayloadLen
    BY DEF Resumable
  <2>1. Readable(file[id])
    BY <1>6 DEF Readable
  <2>2. SoundIn(file[id], dal, inbox) /\ file[id].id = id
    BY <2>1 DEF Inv, KeptIn
  <2>3. file[id].chunks \in Seq(Chunk) /\ file[id].status \in {"PendingDal", "CommitmentIncluded"}
    BY <2>1, <2>2 DEF SoundIn, Submission, Status, HasStatus
  <2> QED BY <1>3, <2>1, <2>2, <2>3 DEF SoundIn
<1> QED BY <1>4, <1>5, <1>6

\* A pointer in the inbox names attested chunks that make up exactly the payload,
\* in order: for any number of submissions, any payload and chunk sizes (the
\* process may come back with another one), any number of crashes and failures,
\* and whether clients wait or not (Inject, after CheckStatus and Republish).
THEOREM PointersAreDeliverable == Spec => []PointersDeliverable
<1>1. Init => Inv
  BY InitInv
<1>2. Inv /\ [Next]_vars => Inv'
  BY StepInv
<1>3. Inv => PointersDeliverable
  BY InvImplies
<1> QED BY <1>1, <1>2, <1>3, PTL DEF Spec

\* A submission whose file says SubmittedToL1 is in the inbox: the status is set
\* only after the injection, and an injection that fails is never one of them.
THEOREM SubmittedWasInjected == Spec => []SubmittedIsInjected
<1>1. Init => Inv
  BY InitInv
<1>2. Inv /\ [Next]_vars => Inv'
  BY StepInv
<1>3. Inv => SubmittedIsInjected
  BY InvImplies
<1> QED BY <1>1, <1>2, <1>3, PTL DEF Spec

-----------------------------------------------------------------------------
(***************************************************************************)
(* While clients wait for their answers, the lock keeps threads apart.     *)
(***************************************************************************)
\* At r a thread has the lock, and at r it has a copy of a submission.
Busy(r) == r.pc \notin {"new", "done", "idle"}
Working(r) == r.pc \notin Free

\* The file of id, one of the files f, can still change.
OpenIn(id, f) == f[id] = None \/ pending(f[id].status)

\* The file of id says that it is on L1, or a thread of k is about to write so.
SettledIn(id, f, k) ==
  \/ f[id] # None /\ f[id].status = "SubmittedToL1"
  \/ \E t \in Thread : /\ k[t].pc = "persist" /\ k[t].stored.id = id
                       /\ k[t].stored.status = "SubmittedToL1"

\* How often the inbox b has id.
CountIn(id, b) == Cardinality({i \in 1..Len(b) : b[i].id = id})

\* Once for every one of the n faults, and once more when it is settled.
OnceIn(id, f, k, b, n) ==
  CountIn(id, b) <= n + 1 /\ (~SettledIn(id, f, k) => CountIn(id, b) <= n)

\* A request that has not begun left no trace, and nobody works for it.
FreshIn(id, f, k, todos) ==
  k[id].pc = "new" =>
    /\ f[id] = None /\ id \notin todos
    /\ \A t \in Thread : Working(k[t]) => k[t].stored.id # id

\* The invariant of the lock: a thread that works has it, works on a file that
\* can still change, and no submission is injected more often than calls fail.
Exclusive ==
  /\ faults \in Nat
  /\ \A t \in Thread : Busy(task[t]) => lock = t
  /\ \A t \in Thread : Working(task[t]) => OpenIn(task[t].stored.id, file)
  /\ \A id \in Id : FreshIn(id, file, task, todo)
  /\ \A id \in Id : OnceIn(id, file, task, inbox, faults)

\* The file of s becomes what persist_submission makes of s.
Stores(s) == file' = [file EXCEPT ![s.id] = persisted(s)]

\* How a step of thread t writes files: not at all, or its copy.
Writes(t) ==
  \/ UNCHANGED file
  \/ Working(task[t]) /\ Stores(task[t].stored)

\* A step of thread t to r, by the rules: it has the lock or nobody has, and it
\* goes on with its copy, takes up a file that can change, or begins.
Orderly(t, r) ==
  /\ task' = [task EXCEPT ![t] = r]
  /\ lock \in {t, None}
  /\ Busy(r) => lock' = t
  /\ r.pc # "new"
  /\ Working(r) =>
       \/ /\ Working(task[t]) /\ r.stored.id = task[t].stored.id
          /\ UNCHANGED file \/ pending(task[t].stored.status)
       \/ /\ r.stored.id \in todo /\ pending(file[r.stored.id].status)
          /\ UNCHANGED file
       \/ t \in Id /\ task[t].pc = "new" /\ r.stored.id = t /\ UNCHANGED file
  /\ Writes(t)
  /\ todo' \subseteq todo \/ todo' = submission_paths
  /\ faults' \in {faults, faults + 1}

\* A thread at r, where its file is at d, persists undisturbed: the tmp file is
\* what it has made of it.
AloneIn(r, d, f) ==
  d # "closed" =>
    /\ r.pc \in Writing
    /\ \/ d = "tmp" /\ f[r.stored.id] = Empty
       \/ d = "written" /\ f[r.stored.id] = persisted(r.stored)

\* What the lock means for the files: nobody disturbs a thread that persists, and
\* all files can be read.
Undisturbed ==
  /\ \A t \in Thread : AloneIn(task[t], fd[t], tmp)
  /\ \A id \in Id : file[id] \notin {Empty, Torn}
  /\ fd \in [Thread -> {"closed", "tmp", "written", "file", "gone"}]

\* So a rename stores the copy of its thread,
LEMMA RenameStores ==
  ASSUME Undisturbed, NEW t \in Thread, persist_submission(t)
  PROVE  Stores(task[t].stored)
<1>1. AloneIn(task[t], fd[t], tmp) /\ fd[t] = "written"
  BY DEF Undisturbed, persist_submission
<1>2. tmp[task[t].stored.id] = persisted(task[t].stored)
  BY <1>1 DEF AloneIn
<1> QED BY <1>2 DEF persist_submission, Stores, stored

\* and an error is a fault that leaves the files alone.
LEMMA ErrorStores ==
  ASSUME Inv, Undisturbed, NEW t \in Thread, task[t].pc \in Writing, persist_error(t)
  PROVE  UNCHANGED file /\ faults' = faults + 1
<1>1. AloneIn(task[t], fd[t], tmp)
  BY DEF Undisturbed
<1>2. fd[t] # "file"
  BY <1>1 DEF AloneIn
<1>3. SoundIn(stored(t), dal, inbox)
  BY DEF Inv, TaskIn, stored, Writing, Free
<1>4. persisted(stored(t)) # None
  <2>1. persisted(stored(t)) \in Submission
    BY <1>3 DEF persisted, SoundIn, Submission
  <2> QED BY <2>1, OperatorAssumption
<1>5. ~(fd[t] = "written" /\ tmp[stored(t).id] = None)
  BY <1>1, <1>4 DEF AloneIn, stored
<1> QED BY <1>2, <1>5 DEF persist_error, Fault

\* While a thread has the lock no other one works.
LEMMA OthersIdle ==
  ASSUME Exclusive, NEW t \in Thread, lock \in {t, None}, NEW u \in Thread, u # t
  PROVE  ~Busy(task[u]) /\ ~Working(task[u])
<1>1. u # None
  BY OperatorAssumption DEF Thread
<1> QED BY <1>1 DEF Exclusive, Busy, Working, Free

\* What a working thread writes.
LEMMA Written ==
  ASSUME Inv, NEW t \in Thread, Working(task[t]), Stores(task[t].stored)
  PROVE  /\ task[t].stored.id \in Id
         /\ file'[task[t].stored.id] # None
         /\ file'[task[t].stored.id].status = task[t].stored.status
         /\ \A id \in Id : id # task[t].stored.id => file'[id] = file[id]
<1>1. PICK s : s = task[t].stored
  OBVIOUS
<1>2. SoundIn(s, dal, inbox)
  BY <1>1 DEF Inv, TaskIn, Working
<1>3. PICK x : x = persisted(s)
  OBVIOUS
<1>4. x \in Submission /\ x.status = s.status /\ s.id \in Id
  BY <1>2, <1>3 DEF persisted, SoundIn, Submission
<1>5. file' = [file EXCEPT ![s.id] = x] /\ file \in [Id -> Body]
  BY <1>1, <1>3 DEF Stores, Inv, TypeOK
<1>6. x # None
  BY <1>4, OperatorAssumption
<1> QED BY <1>1, <1>4, <1>5, <1>6

\* An orderly step keeps the lock's invariant, if no submission is injected too
\* often.
LEMMA OrderlyExclusive ==
  ASSUME Inv, Exclusive, NEW t \in Thread, NEW r, Orderly(t, r),
         \A id \in Id : OnceIn(id, file', task', inbox', faults')
  PROVE  Exclusive'
<1>1. /\ task'[t] = r /\ \A u \in Thread : u # t => task'[u] = task[u]
  BY DEF Orderly, Inv, TypeOK
<1>2. \A u \in Thread : u # t => ~Busy(task'[u]) /\ ~Working(task'[u])
  BY <1>1, OthersIdle DEF Orderly
<1>3. faults' \in Nat
  BY DEF Exclusive, Orderly
<1>4. \A u \in Thread : Busy(task'[u]) => lock' = u
  BY <1>1, <1>2 DEF Orderly
<1>5. ASSUME Working(r) PROVE OpenIn(r.stored.id, file')
  <2>1. CASE /\ Working(task[t]) /\ r.stored.id = task[t].stored.id
             /\ UNCHANGED file \/ pending(task[t].stored.status)
    <3>1. CASE UNCHANGED file
      BY <2>1, <3>1 DEF Exclusive, OpenIn
    <3>2. CASE Stores(task[t].stored) /\ pending(task[t].stored.status)
      BY <2>1, <3>2, Written DEF OpenIn
    <3> QED BY <2>1, <3>1, <3>2 DEF Orderly, Writes
  <2>2. CASE pending(file[r.stored.id].status) /\ UNCHANGED file
    BY <2>2 DEF OpenIn
  <2>3. CASE t \in Id /\ task[t].pc = "new" /\ r.stored.id = t /\ UNCHANGED file
    BY <2>3 DEF OpenIn, Exclusive, FreshIn
  <2> QED BY <1>5, <2>1, <2>2, <2>3 DEF Orderly
<1>6. \A u \in Thread : Working(task'[u]) => OpenIn(task'[u].stored.id, file')
  BY <1>1, <1>2, <1>5
<1>7. ASSUME NEW id \in Id, task'[id].pc = "new"
      PROVE  /\ file'[id] = None /\ id \notin todo'
             /\ \A u \in Thread : Working(task'[u]) => task'[u].stored.id # id
  <2>1. id \in Thread /\ id # t /\ task[id].pc = "new"
    BY <1>1, <1>7 DEF Orderly, Thread
  <2>2. /\ file[id] = None /\ id \notin todo
        /\ Working(task[t]) => task[t].stored.id # id
    BY <2>1 DEF Exclusive, FreshIn
  <2>3. file'[id] = None
    BY <2>2, Written DEF Orderly, Writes
  <2>4. id \notin todo'
    BY <2>2 DEF Orderly, submission_paths
  <2>5. Working(r) => r.stored.id # id
    BY <2>1, <2>2 DEF Orderly
  <2> QED BY <1>1, <1>2, <2>3, <2>4, <2>5
<1>8. \A id \in Id : FreshIn(id, file', task', todo')
  BY <1>7 DEF FreshIn
<1> QED BY <1>3, <1>4, <1>6, <1>8 DEF Exclusive

\* If what is settled stays settled, or something fails, nothing changes in how
\* often submissions may be injected.
LEMMA OnceKept ==
  ASSUME NEW id, NEW f, NEW k, NEW g, NEW l, NEW b, NEW n \in Nat, NEW m \in Nat,
         OnceIn(id, f, k, b, n), m \in {n, n + 1}, CountIn(id, b) \in Nat,
         SettledIn(id, f, k) => SettledIn(id, g, l) \/ m = n + 1
  PROVE  OnceIn(id, g, l, b, m)
BY DEF OnceIn

\* A submission's occurrences are a number.
LEMMA CountType ==
  ASSUME NEW b \in Seq(Message), NEW id
  PROVE  CountIn(id, b) \in Nat
<1>1. IsFiniteSet(1..Len(b))
  BY LenProperties, FS_Interval
<1>2. IsFiniteSet({i \in 1..Len(b) : b[i].id = id})
  <2>1. {i \in 1..Len(b) : b[i].id = id} \subseteq 1..Len(b)
    OBVIOUS
  <2> QED BY <1>1, <2>1, FS_Subset
<1> QED BY <1>2, FS_CardinalityType DEF CountIn

\* One more message is one more occurrence of its submission.
LEMMA CountAppend ==
  ASSUME NEW b \in Seq(Message), NEW m \in Message, NEW id
  PROVE  CountIn(id, Append(b, m)) = IF m.id = id THEN CountIn(id, b) + 1 ELSE CountIn(id, b)
<1> DEFINE S == {i \in 1..Len(b) : b[i].id = id}
<1>1. PICK c : c = Append(b, m)
  OBVIOUS
<1> DEFINE U == {i \in 1..Len(c) : c[i].id = id}
<1>2. /\ Len(c) = Len(b) + 1 /\ c[Len(b) + 1] = m /\ Len(b) \in Nat
      /\ \A k \in 1..Len(b) : c[k] = b[k]
  BY <1>1, AppendProperties, LenProperties
<1>3. IsFiniteSet(S) /\ Len(b) + 1 \notin S
  <2>1. S \subseteq 1..Len(b) /\ IsFiniteSet(1..Len(b))
    BY <1>2, FS_Interval
  <2> QED BY <1>2, <2>1, FS_Subset
<1>4. Cardinality(S \cup {Len(b) + 1}) = Cardinality(S) + 1
  <2> HIDE DEF S
  <2> QED BY <1>3, FS_AddElement
<1>5. \A i : i \in U <=> i \in S \/ (i = Len(b) + 1 /\ m.id = id)
  <2>1. \A i : i \in 1..Len(c) <=> i \in 1..Len(b) \/ i = Len(b) + 1
    BY <1>2
  <2> QED BY <1>2, <2>1
<1>6. U = IF m.id = id THEN S \cup {Len(b) + 1} ELSE S
  <2> HIDE DEF U, S
  <2> QED BY <1>5
<1>7. CountIn(id, c) = Cardinality(U) /\ CountIn(id, b) = Cardinality(S)
  BY DEF CountIn
<1> HIDE DEF U, S
<1> QED BY <1>1, <1>4, <1>6, <1>7

\* A step of a thread that is not about to persist keeps it, if it injects nothing.
LEMMA QuietExclusive ==
  ASSUME Inv, Exclusive, NEW t \in Thread, task[t].pc # "persist", UNCHANGED inbox,
         NEW r, Orderly(t, r)
  PROVE  Exclusive'
<1>1. \A u \in Thread : u # t => task'[u] = task[u]
  BY DEF Orderly, Inv, TypeOK
<1>2. faults \in Nat /\ faults' \in Nat /\ faults' \in {faults, faults + 1}
  BY DEF Exclusive, Orderly
<1>3. ASSUME NEW id \in Id PROVE OnceIn(id, file', task', inbox', faults')
  <2>1. CountIn(id, inbox) \in Nat /\ OnceIn(id, file, task, inbox, faults)
    BY CountType DEF Inv, TypeOK, Exclusive
  <2>2. ASSUME file[id] # None, file[id].status = "SubmittedToL1" PROVE file'[id] = file[id]
    <3>1. CASE UNCHANGED file
      BY <3>1
    <3>2. CASE Working(task[t]) /\ Stores(task[t].stored)
      <4>1. id # task[t].stored.id
        BY <2>2, <3>2 DEF Exclusive, OpenIn, pending
      <4> QED BY <3>2, <4>1, Written
    <3> QED BY <3>1, <3>2 DEF Orderly, Writes
  <2>3. SettledIn(id, file, task) => SettledIn(id, file', task')
    BY <1>1, <2>2 DEF SettledIn
  <2>4. OnceIn(id, file', task', inbox, faults')
    BY <1>2, <2>1, <2>3, OnceKept
  <2> QED BY <2>4
<1> QED BY <1>3, OrderlyExclusive

\* A thread that persists its copy, or fails to, keeps it.
LEMMA PersistExclusive ==
  ASSUME Inv, Exclusive, NEW t \in Thread, task[t].pc = "persist", UNCHANGED inbox,
         NEW r, Orderly(t, r), Stores(task[t].stored) \/ faults' = faults + 1
  PROVE  Exclusive'
<1>0. Working(task[t])
  BY DEF Working, Free
<1>1. \A u \in Thread : u # t => task'[u] = task[u]
  BY DEF Orderly, Inv, TypeOK
<1>2. faults \in Nat /\ faults' \in Nat /\ faults' \in {faults, faults + 1}
  BY DEF Exclusive, Orderly
<1>3. ASSUME NEW id \in Id PROVE OnceIn(id, file', task', inbox', faults')
  <2>1. CountIn(id, inbox) \in Nat /\ OnceIn(id, file, task, inbox, faults)
    BY CountType DEF Inv, TypeOK, Exclusive
  <2>2. SettledIn(id, file, task) => SettledIn(id, file', task') \/ faults' = faults + 1
    <3> SUFFICES ASSUME SettledIn(id, file, task), Stores(task[t].stored)
                 PROVE  SettledIn(id, file', task')
      OBVIOUS
    <3>1. CASE file[id] # None /\ file[id].status = "SubmittedToL1"
      <4>1. id # task[t].stored.id
        BY <1>0, <3>1 DEF Exclusive, OpenIn, pending
      <4>2. file'[id] = file[id]
        BY <1>0, <4>1, Written
      <4> QED BY <3>1, <4>2 DEF SettledIn
    <3>2. CASE \E u \in Thread : /\ task[u].pc = "persist" /\ task[u].stored.id = id
                                 /\ task[u].stored.status = "SubmittedToL1"
      <4>1. PICK u \in Thread : /\ task[u].pc = "persist" /\ task[u].stored.id = id
                                /\ task[u].stored.status = "SubmittedToL1"
        BY <3>2
      <4>2. CASE u = t
        BY <1>0, <4>1, <4>2, Written DEF SettledIn
      <4>3. CASE u # t
        BY <1>1, <4>1, <4>3 DEF SettledIn
      <4> QED BY <4>2, <4>3
    <3> QED BY <3>1, <3>2 DEF SettledIn
  <2>3. OnceIn(id, file', task', inbox, faults')
    BY <1>2, <2>1, <2>2, OnceKept
  <2> QED BY <2>3
<1> QED BY <1>3, OrderlyExclusive

\* A thread that injects its message keeps it: until then the submission was not
\* settled, and now it is, or the call has failed.
LEMMA InjectExclusive ==
  ASSUME Inv, Exclusive, NEW t \in Thread, task[t].pc = "inject", UNCHANGED file,
         NEW r, Orderly(t, r), NEW m \in Message, m.id = task[t].stored.id,
         inbox' \in {inbox, Append(inbox, m)},
         \/ faults' = faults + 1
         \/ /\ r.pc = "persist" /\ r.stored.id = m.id
            /\ r.stored.status = "SubmittedToL1"
  PROVE  Exclusive'
<1>0. Working(task[t])
  BY DEF Working, Free
<1>1. task'[t] = r /\ \A u \in Thread : u # t => task'[u] = task[u]
  BY DEF Orderly, Inv, TypeOK
<1>2. faults \in Nat /\ faults' \in Nat /\ faults' \in {faults, faults + 1}
  BY DEF Exclusive, Orderly
<1>3. ASSUME NEW id \in Id PROVE OnceIn(id, file', task', inbox', faults')
  <2>1. CountIn(id, inbox) \in Nat /\ OnceIn(id, file, task, inbox, faults)
    BY CountType DEF Inv, TypeOK, Exclusive
  <2>2. \/ inbox' = inbox
        \/ CountIn(id, inbox') = IF m.id = id THEN CountIn(id, inbox) + 1
                                 ELSE CountIn(id, inbox)
    <3>1. inbox \in Seq(Message)
      BY DEF Inv, TypeOK
    <3>2. CountIn(id, Append(inbox, m)) = IF m.id = id THEN CountIn(id, inbox) + 1
                                          ELSE CountIn(id, inbox)
      BY <3>1, CountAppend
    <3> QED BY <3>2
  <2>3. SettledIn(id, file, task) => SettledIn(id, file', task')
    BY <1>1 DEF SettledIn
  <2>4. CASE id # m.id
    <3>1. CountIn(id, inbox') = CountIn(id, inbox)
      BY <2>2, <2>4
    <3> QED BY <1>2, <2>1, <2>3, <3>1 DEF OnceIn
  <2>5. CASE id = m.id
    <3>1. ~SettledIn(id, file, task)
      <4>1. ~(file[id] # None /\ file[id].status = "SubmittedToL1")
        BY <1>0, <2>5 DEF Exclusive, OpenIn, pending
      <4>2. ASSUME NEW u \in Thread, task[u].pc = "persist" PROVE FALSE
        <5>1. u # t /\ Busy(task[u]) /\ lock \in {t, None}
          BY <4>2 DEF Busy, Orderly
        <5> QED BY <5>1, OthersIdle
      <4> QED BY <4>1, <4>2 DEF SettledIn
    <3>2. CountIn(id, inbox) <= faults
      BY <2>1, <3>1 DEF OnceIn
    <3>3. CountIn(id, inbox') \in Nat /\ CountIn(id, inbox') <= faults + 1
      BY <1>2, <2>1, <2>2, <2>5, <3>2
    <3>4. CASE faults' = faults + 1
      BY <1>2, <3>3, <3>4 DEF OnceIn
    <3>5. CASE r.pc = "persist" /\ r.stored.id = m.id /\ r.stored.status = "SubmittedToL1"
      <4>1. SettledIn(id, file', task')
        BY <1>1, <2>5, <3>5 DEF SettledIn
      <4> QED BY <1>2, <3>3, <4>1 DEF OnceIn
    <3> QED BY <3>4, <3>5
  <2> QED BY <2>4, <2>5
<1> QED BY <1>3, OrderlyExclusive

\* A thread that works goes on with its copy, or ends its work.
LEMMA GotoOrderly ==
  ASSUME Exclusive, NEW t \in Thread, Working(task[t]), NEW pc, NEW s, Goto(t, pc, s),
         pc # "new", pc \notin {"done", "idle"} => lock' = lock,
         pc \notin Free => /\ s.id = task[t].stored.id
                           /\ UNCHANGED file \/ pending(task[t].stored.status),
         Writes(t), todo' \subseteq todo, faults' \in {faults, faults + 1}
  PROVE  \E r : /\ Orderly(t, r) /\ r.pc = pc /\ r.stored = s
<1>1. PICK r : r = [pc |-> pc, stored |-> s, retry |-> <<>>]
  OBVIOUS
<1>2. r.pc = pc /\ r.stored = s
  BY <1>1
<1>3. lock = t
  BY DEF Exclusive, Working, Busy, Free
<1>4. task' = [task EXCEPT ![t] = r]
  BY <1>1 DEF Goto
<1> QED BY <1>2, <1>3, <1>4 DEF Orderly, Busy, Working

\* So does one that returns,
LEMMA ReturnOrderly ==
  ASSUME Exclusive, NEW t \in Thread, Working(task[t]), Return(t), Writes(t),
         todo' \subseteq todo, faults' \in {faults, faults + 1}
  PROVE  \E r : Orderly(t, r)
<1>1. CASE t = Reconciler
  <2>1. Goto(t, "next", None) /\ lock' = lock
    BY <1>1 DEF Return
  <2>2. PICK pc : pc = "next"
    OBVIOUS
  <2> QED BY <2>1, <2>2, GotoOrderly DEF Free
<1>2. CASE t # Reconciler
  <2>1. Goto(t, "done", None)
    BY <1>2 DEF Return
  <2> QED BY <2>1, GotoOrderly DEF Free
<1> QED BY <1>1, <1>2

\* and one that cannot advance.
LEMMA ErrorOrderly ==
  ASSUME Exclusive, NEW t \in Thread, Working(task[t]), Advance_error(t), UNCHANGED file,
         todo' \subseteq todo, faults' \in {faults, faults + 1}
  PROVE  \E r : Orderly(t, r)
<1>1. Writes(t) /\ lock' = lock
  BY DEF Writes, Advance_error
<1>2. CASE t = Reconciler
  <2>1. Goto(t, "next", None)
    BY <1>2 DEF Advance_error
  <2> QED BY <1>1, <2>1, GotoOrderly DEF Free
<1>3. CASE t # Reconciler
  <2>1. Goto(t, "failed", task[t].stored)
    BY <1>3 DEF Advance_error, stored
  <2> QED BY <1>1, <2>1, GotoOrderly DEF Free
<1> QED BY <1>2, <1>3

\* What holds of the copy of a thread that works.
LEMMA CopyOf ==
  ASSUME Inv, NEW t \in Thread, Working(task[t])
  PROVE  /\ task[t].stored \in Submission /\ stored(t) = task[t].stored
         /\ t \in Id => task[t].stored.id = t
         /\ task[t].pc \in {"accept", "publish", "persist_chunk"} =>
              task[t].stored.status = "PendingDal"
BY DEF Inv, TaskIn, SoundIn, Working, stored

\* Another status or other chunks leave the name of a submission alone.
LEMMA SameName ==
  ASSUME NEW s \in Submission, NEW x
  PROVE  /\ [s EXCEPT !.status = x].id = s.id
         /\ [s EXCEPT !.chunks = x].id = s.id
BY DEF Submission

\* Requests keep the lock's invariant.
LEMMA RequestExclusive ==
  ASSUME Inv, Exclusive, NEW id \in Id, Request(id)
  PROVE  Exclusive'
<1>0. PICK s : s = [id |-> id, status |-> "PendingDal", chunks |-> <<>>, payload |-> TRUE]
  OBVIOUS
<1>1. PICK pc \in {"inject", "persist", "accept"}, x \in {s, [s EXCEPT !.status = "Failed"]} :
        Goto(id, pc, x)
  BY <1>0 DEF Request
<1>2. x.id = id
  BY <1>0
<1>3. PICK r : r = [pc |-> pc, stored |-> x, retry |-> <<>>]
  OBVIOUS
<1>4. /\ task' = [task EXCEPT ![id] = r] /\ r.pc \in {"inject", "persist", "accept"}
      /\ r.stored.id = id
  BY <1>1, <1>2, <1>3 DEF Goto
<1>5. /\ id \in Thread /\ task[id].pc = "new" /\ lock = None /\ lock' = id
      /\ UNCHANGED <<file, todo, inbox, faults>>
  BY DEF Request, At, Thread
<1>6. Orderly(id, r)
  BY <1>4, <1>5 DEF Orderly, Writes
<1> QED BY <1>5, <1>6, QuietExclusive

\* A payload that is refused, or stored.
LEMMA AcceptExclusive ==
  ASSUME Inv, Exclusive, Undisturbed, NEW id \in Id,
         Refuse(id) \/ Accept(id) \/ MarkFailed(id)
  PROVE  Exclusive'
<1>0. /\ id \in Thread /\ task[id].pc \in {"accept", "failed"} /\ Working(task[id])
      /\ UNCHANGED <<todo, inbox>> /\ task[id].pc # "persist" /\ todo' \subseteq todo
  BY DEF Refuse, Accept, MarkFailed, At, Thread, Working, Free
<1>6. \/ Return(id) /\ UNCHANGED file /\ faults' \in {faults, faults + 1}
      \/ MarkFailed(id)
      \/ /\ task[id].pc = "accept" /\ Stores(task[id].stored)
         /\ Goto(id, "publish", stored(id)) /\ UNCHANGED <<lock, faults>>
  <2>1. CASE Accept(id)
    <3>1. task[id].pc = "accept" /\ task[id].pc \in Writing
      BY <2>1 DEF Accept, At, Writing
    <3>2. CASE persist_submission(id) /\ Goto(id, "publish", stored(id)) /\ UNCHANGED <<lock, faults>>
      BY <1>0, <3>1, <3>2, RenameStores
    <3>3. CASE persist_error(id) /\ Return(id)
      BY <1>0, <3>1, <3>3, ErrorStores
    <3> QED BY <2>1, <3>2, <3>3 DEF Accept
  <2> QED BY <2>1 DEF Refuse
<1>1. /\ id \in Thread /\ task[id].pc \in {"accept", "failed"} /\ Working(task[id])
      /\ UNCHANGED <<todo, inbox>> /\ task[id].pc # "persist" /\ todo' \subseteq todo
      /\ faults' \in {faults, faults + 1}
  BY <1>0, <1>6 DEF MarkFailed, Fault
<1>2. /\ task[id].stored \in Submission /\ stored(id) = task[id].stored
      /\ task[id].stored.id = id
      /\ task[id].pc = "accept" => task[id].stored.status = "PendingDal"
  BY <1>1, CopyOf
<1>3. CASE Return(id) /\ UNCHANGED file
  <2>1. PICK r : Orderly(id, r)
    BY <1>1, <1>3, ReturnOrderly DEF Writes
  <2> QED BY <1>1, <2>1, QuietExclusive
<1>4. CASE /\ task[id].pc = "accept" /\ Stores(task[id].stored)
           /\ Goto(id, "publish", stored(id)) /\ UNCHANGED lock
  <2>1. Writes(id) /\ Goto(id, "publish", task[id].stored) /\ pending(task[id].stored.status)
    BY <1>1, <1>2, <1>4 DEF Writes, pending
  <2>3. PICK r : Orderly(id, r)
    BY <1>1, <1>4, <2>1, GotoOrderly DEF Free
  <2> QED BY <1>1, <2>3, QuietExclusive
<1>5. CASE MarkFailed(id)
  <2>2. Readable(file[id]) => file[id] \in Submission /\ file[id].id = id
    BY DEF Inv, KeptIn, SoundIn
  <2>3. PICK x : /\ Goto(id, "persist", x)
                 /\ \/ x = [file[id] EXCEPT !.status = "Failed"] /\ Readable(file[id])
                    \/ x = [stored(id) EXCEPT !.status = "Failed", !.chunks = <<>>]
    BY <1>5 DEF MarkFailed, load_stored_submission
  <2>4. x.id = task[id].stored.id
    BY <1>2, <2>2, <2>3 DEF Submission
  <2>5. Writes(id) /\ UNCHANGED file /\ lock' = lock
    BY <1>5 DEF Writes, MarkFailed
  <2>6. PICK r : Orderly(id, r)
    BY <1>1, <2>3, <2>4, <2>5, GotoOrderly DEF Free
  <2> QED BY <1>1, <2>6, QuietExclusive
<1> QED BY <1>3, <1>4, <1>5, <1>6

\* Publishing keeps it.
LEMMA PublishExclusive ==
  ASSUME Inv, Exclusive, Undisturbed, NEW t \in Thread,
         PublishNext(t) \/ PersistChunk(t) \/ AllPublished(t) \/ CannotPublish(t)
  PROVE  Exclusive'
<1>0. /\ task[t].pc \in {"publish", "persist_chunk"} /\ Working(task[t])
      /\ UNCHANGED <<todo, inbox>> /\ task[t].pc # "persist" /\ todo' \subseteq todo
  BY DEF PublishNext, PersistChunk, AllPublished, CannotPublish, At, Working, Free
<1>9. ASSUME PersistChunk(t)
      PROVE  \/ Stores(task[t].stored) /\ Goto(t, "publish", stored(t)) /\ UNCHANGED <<lock, faults>>
             \/ UNCHANGED file /\ faults' = faults + 1 /\ Advance_error(t)
  <2>1. task[t].pc \in Writing
    BY <1>9 DEF PersistChunk, At, Writing
  <2>2. persist_submission(t) => Stores(task[t].stored)
    BY RenameStores
  <2>3. persist_error(t) => UNCHANGED file /\ faults' = faults + 1
    BY <2>1, ErrorStores
  <2> QED BY <1>9, <2>2, <2>3 DEF PersistChunk
<1>1. /\ task[t].pc \in {"publish", "persist_chunk"} /\ Working(task[t])
      /\ UNCHANGED <<todo, inbox>> /\ task[t].pc # "persist" /\ todo' \subseteq todo
      /\ faults' \in {faults, faults + 1}
  BY <1>0, <1>9 DEF PublishNext, AllPublished, CannotPublish, Fault
<1>2. /\ task[t].stored \in Submission /\ stored(t) = task[t].stored
      /\ pending(task[t].stored.status)
  BY <1>1, CopyOf DEF pending
<1>3. CASE Advance_error(t) /\ UNCHANGED file
  <2>1. PICK r : Orderly(t, r)
    BY <1>1, <1>3, ErrorOrderly
  <2> QED BY <1>1, <2>1, QuietExclusive
<1>4. CASE \E x : \E pc \in {"persist_chunk", "publish", "persist"} :
             /\ Goto(t, pc, x) /\ x.id = task[t].stored.id /\ UNCHANGED lock
             /\ UNCHANGED file \/ Stores(task[t].stored)
  <2>1. PICK x : \E pc \in {"persist_chunk", "publish", "persist"} :
             /\ Goto(t, pc, x) /\ x.id = task[t].stored.id /\ UNCHANGED lock
             /\ UNCHANGED file \/ Stores(task[t].stored)
    BY <1>4
  <2>2. PICK pc \in {"persist_chunk", "publish", "persist"} :
             /\ Goto(t, pc, x) /\ x.id = task[t].stored.id /\ UNCHANGED lock
             /\ UNCHANGED file \/ Stores(task[t].stored)
    BY <2>1
  <2>3. Writes(t) /\ pc # "new"
    BY <1>1, <2>2 DEF Writes
  <2>4. PICK r : Orderly(t, r)
    BY <1>1, <1>2, <2>2, <2>3, GotoOrderly
  <2> QED BY <1>1, <2>4, QuietExclusive
<1>5. CASE PublishNext(t)
  <2>1. \/ Advance_error(t)
        \/ (\E c : Goto(t, "persist_chunk", [stored(t) EXCEPT !.chunks = c])) /\ UNCHANGED lock
    BY <1>5 DEF PublishNext
  <2>2. \A c : [stored(t) EXCEPT !.chunks = c].id = task[t].stored.id
    BY <1>2, SameName
  <2>3. UNCHANGED file
    BY <1>5 DEF PublishNext
  <2> QED BY <1>3, <1>4, <2>1, <2>2, <2>3
<1>6. CASE PersistChunk(t)
  BY <1>2, <1>3, <1>4, <1>6, <1>9
<1>7. CASE AllPublished(t)
  <2>1. [stored(t) EXCEPT !.status = "CommitmentIncluded"].id = task[t].stored.id
    BY <1>2, SameName
  <2>2. /\ Goto(t, "persist", [stored(t) EXCEPT !.status = "CommitmentIncluded"])
        /\ UNCHANGED <<file, lock>>
    BY <1>7 DEF AllPublished
  <2> QED BY <1>4, <2>1, <2>2
<1>8. CASE CannotPublish(t)
  BY <1>3, <1>8 DEF CannotPublish
<1> QED BY <1>5, <1>6, <1>7, <1>8

\* Injecting keeps it.
LEMMA InjectKeepsExclusive ==
  ASSUME Inv, Exclusive, NEW t \in Thread, Inject(t)
  PROVE  Exclusive'
<1>1. /\ task[t].pc = "inject" /\ Working(task[t]) /\ UNCHANGED <<file, todo>>
      /\ faults' \in {faults, faults + 1} /\ todo' \subseteq todo /\ Writes(t)
  BY DEF Inject, At, Working, Free, Fault, Writes
<1>2. task[t].stored \in Submission /\ stored(t) = task[t].stored
  BY <1>1, CopyOf
<1>3. PICK m : m = dal_pointer_from_submission(task[t].stored)
  OBVIOUS
<1>4. m \in Message /\ m.id = task[t].stored.id
  BY <1>2, <1>3 DEF dal_pointer_from_submission, Message, Submission
<1>5. /\ inbox' \in {inbox, Append(inbox, m)}
      /\ \/ /\ Goto(t, "persist", [task[t].stored EXCEPT !.status = "SubmittedToL1"])
            /\ UNCHANGED lock
         \/ /\ faults' = faults + 1
            /\ \/ Advance_error(t)
               \/ /\ Goto(t, "persist", [task[t].stored EXCEPT !.status = "Failed"])
                  /\ UNCHANGED lock
  BY <1>2, <1>3 DEF Inject, inject_direct_message, inject_error, Fault
<1>6. CASE faults' = faults + 1 /\ Advance_error(t)
  <2>1. PICK r : Orderly(t, r)
    BY <1>1, <1>6, ErrorOrderly
  <2> QED BY <1>1, <1>4, <1>5, <1>6, <2>1, InjectExclusive
<1>7. CASE /\ Goto(t, "persist", [task[t].stored EXCEPT !.status = "SubmittedToL1"])
           /\ UNCHANGED lock
  <2>1. PICK x : x = [task[t].stored EXCEPT !.status = "SubmittedToL1"]
    OBVIOUS
  <2>2. x.id = task[t].stored.id /\ x.status = "SubmittedToL1"
    BY <1>2, <2>1 DEF Submission
  <2>3. PICK r : Orderly(t, r) /\ r.pc = "persist" /\ r.stored = x
    <3>1. Goto(t, "persist", x) /\ lock' = lock
      BY <1>7, <2>1
    <3> QED BY <1>1, <2>2, <3>1, GotoOrderly
  <2> QED BY <1>1, <1>4, <1>5, <2>2, <2>3, InjectExclusive
<1>8. CASE /\ faults' = faults + 1 /\ UNCHANGED lock
           /\ Goto(t, "persist", [task[t].stored EXCEPT !.status = "Failed"])
  <2>1. PICK x : x = [task[t].stored EXCEPT !.status = "Failed"]
    OBVIOUS
  <2>2. x.id = task[t].stored.id
    BY <1>2, <2>1, SameName
  <2>3. PICK r : Orderly(t, r)
    BY <1>1, <1>8, <2>1, <2>2, GotoOrderly
  <2> QED BY <1>1, <1>4, <1>5, <1>8, <2>3, InjectExclusive
<1> QED BY <1>5, <1>6, <1>7, <1>8

\* Persisting keeps it.
LEMMA PersistKeepsExclusive ==
  ASSUME Inv, Exclusive, Undisturbed, NEW t \in Thread, Persist(t)
  PROVE  Exclusive'
<1>0. /\ task[t].pc = "persist" /\ Working(task[t]) /\ UNCHANGED inbox /\ todo' \subseteq todo
      /\ task[t].pc \in Writing
  BY DEF Persist, At, Working, Free, Writing
<1>5. persist_submission(t) => Stores(task[t].stored)
  BY RenameStores
<1>6. persist_error(t) => UNCHANGED file /\ faults' = faults + 1
  BY <1>0, ErrorStores
<1>1. /\ task[t].pc = "persist" /\ Working(task[t]) /\ UNCHANGED inbox /\ todo' \subseteq todo
      /\ faults' \in {faults, faults + 1}
  BY <1>0, <1>6 DEF Persist
<1>2. /\ Writes(t) /\ (Stores(task[t].stored) \/ faults' = faults + 1)
      /\ Return(t) \/ Goto(t, "idle", None)
  BY <1>1, <1>5, <1>6 DEF Writes, Persist
<1>3. CASE Return(t)
  <2>1. PICK r : Orderly(t, r)
    BY <1>1, <1>2, <1>3, ReturnOrderly
  <2> QED BY <1>1, <1>2, <2>1, PersistExclusive
<1>4. CASE Goto(t, "idle", None)
  <2>1. PICK r : Orderly(t, r)
    BY <1>1, <1>2, <1>4, GotoOrderly DEF Free
  <2> QED BY <1>1, <1>2, <2>1, PersistExclusive
<1> QED BY <1>2, <1>3, <1>4

\* The reconciler keeps it: a pass begins with nobody at work,
LEMMA PassExclusive ==
  ASSUME Inv, Exclusive, Tick \/ EndPass
  PROVE  Exclusive'
<1>1. PICK r : /\ task' = [task EXCEPT ![Reconciler] = r]
               /\ (r.pc = "next" /\ Tick) \/ (r.pc = "idle" /\ EndPass)
  <2>1. CASE Tick
    <3>1. PICK r : r = [pc |-> "next", stored |-> None, retry |-> <<>>]
      OBVIOUS
    <3>2. task' = [task EXCEPT ![Reconciler] = r] /\ r.pc = "next"
      BY <2>1, <3>1 DEF Tick, Goto
    <3> QED BY <2>1, <3>2
  <2>2. CASE EndPass
    <3>1. PICK r : r = [pc |-> "idle", stored |-> None, retry |-> <<>>]
      OBVIOUS
    <3>2. task' = [task EXCEPT ![Reconciler] = r] /\ r.pc = "idle"
      BY <2>2, <3>1 DEF EndPass, Goto
    <3> QED BY <2>2, <3>2
  <2> QED BY <2>1, <2>2
<1>2. /\ Reconciler \in Thread /\ UNCHANGED <<file, inbox, faults>>
      /\ task[Reconciler].pc # "persist" /\ lock \in {Reconciler, None}
  <2>1. Reconciler \in Thread
    BY DEF Thread
  <2>2. EndPass => lock = Reconciler
    BY <2>1 DEF EndPass, At, Exclusive, Busy
  <2> QED BY <2>1, <2>2 DEF Tick, EndPass, At
<1>3. Orderly(Reconciler, r)
  BY <1>1, <1>2 DEF Orderly, Writes, Busy, Working, Free, Tick, EndPass
<1> QED BY <1>2, <1>3, QuietExclusive

\* takes up files that can change,
LEMMA NextExclusive ==
  ASSUME Inv, Exclusive, NextSubmission
  PROVE  Exclusive'
<1>1. PICK id : id = Min(todo)
  OBVIOUS
<1>2. /\ Reconciler \in Thread /\ task[Reconciler].pc = "next" /\ todo' \subseteq todo
      /\ UNCHANGED <<file, lock, inbox>> /\ faults' \in {faults, faults + 1}
  BY DEF NextSubmission, At, Thread, Fault
<1>3. id \in todo
  <2>1. todo \subseteq Nat /\ todo # {}
    BY OperatorAssumption DEF Inv, TypeOK, NextSubmission
  <2> QED BY <1>1, <2>1, FirstOf
<1>4. Readable(file[id]) => file[id].id = id
  BY <1>3 DEF Inv, TypeOK, KeptIn
<1>5. lock = Reconciler
  BY <1>2 DEF Exclusive, Busy
<1>6. \/ Goto(Reconciler, "next", None)
      \/ /\ Readable(file[id]) /\ pending(file[id].status)
         /\ \E pc \in {"publish", "status"} : Goto(Reconciler, pc, file[id])
      \/ UNCHANGED task
  BY <1>1 DEF NextSubmission, load_stored_submission
<1>7. \E r : /\ task' = [task EXCEPT ![Reconciler] = r]
             /\ \/ r.pc = "next"
                \/ /\ r.pc \in {"publish", "status"} /\ r.stored = file[id]
                   /\ Readable(file[id]) /\ pending(file[id].status)
  <2>1. CASE Goto(Reconciler, "next", None)
    <3>1. PICK r : r = [pc |-> "next", stored |-> None, retry |-> <<>>]
      OBVIOUS
    <3>2. task' = [task EXCEPT ![Reconciler] = r] /\ r.pc = "next"
      BY <2>1, <3>1 DEF Goto
    <3> QED BY <3>2
  <2>2. CASE /\ Readable(file[id]) /\ pending(file[id].status)
             /\ \E pc \in {"publish", "status"} : Goto(Reconciler, pc, file[id])
    <3>1. PICK pc \in {"publish", "status"} : Goto(Reconciler, pc, file[id])
      BY <2>2
    <3>2. PICK r : r = [pc |-> pc, stored |-> file[id], retry |-> <<>>]
      OBVIOUS
    <3>3. /\ task' = [task EXCEPT ![Reconciler] = r]
          /\ r.pc \in {"publish", "status"} /\ r.stored = file[id]
      BY <3>1, <3>2 DEF Goto
    <3> QED BY <2>2, <3>3
  <2>3. CASE UNCHANGED task
    <3>1. PICK r : r = task[Reconciler]
      OBVIOUS
    <3>2. task' = [task EXCEPT ![Reconciler] = r]
      BY <1>2, <2>3, <3>1 DEF Inv, TypeOK
    <3> QED BY <1>2, <3>1, <3>2
  <2> QED BY <1>6, <2>1, <2>2, <2>3
<1>8. PICK r : /\ task' = [task EXCEPT ![Reconciler] = r]
               /\ \/ r.pc = "next"
                  \/ /\ r.pc \in {"publish", "status"} /\ r.stored = file[id]
                     /\ Readable(file[id]) /\ pending(file[id].status)
  BY <1>7
<1>9. Orderly(Reconciler, r)
  BY <1>2, <1>3, <1>4, <1>5, <1>8 DEF Orderly, Writes, Working, Free
<1> QED BY <1>2, <1>9, QuietExclusive

\* and goes on with its copy.
LEMMA AdvanceExclusive ==
  ASSUME Inv, Exclusive, CheckStatus \/ NoStatus \/ Republish \/ GiveUp \/ CannotPoint
  PROVE  Exclusive'
<1>1. /\ Reconciler \in Thread /\ task[Reconciler].pc \in {"status", "republish", "inject"}
      /\ Working(task[Reconciler]) /\ UNCHANGED <<file, todo, inbox>>
      /\ task[Reconciler].pc # "persist" /\ Writes(Reconciler) /\ todo' \subseteq todo
  BY DEF CheckStatus, NoStatus, Republish, GiveUp, CannotPoint, At, Thread, Working, Free,
     Writes
<1>2. faults' \in {faults, faults + 1}
  BY DEF CheckStatus, NoStatus, Republish, GiveUp, CannotPoint, Fault
<1>3. PICK s : s = stored(Reconciler)
  OBVIOUS
<1>4. s \in Submission /\ s = task[Reconciler].stored
  BY <1>1, <1>3, CopyOf
<1>5. lock = Reconciler
  BY <1>1 DEF Exclusive, Working, Busy, Free
<1>6. CASE Return(Reconciler) \/ Advance_error(Reconciler)
  <2>1. PICK r : Orderly(Reconciler, r)
    BY <1>1, <1>2, <1>6, ReturnOrderly, ErrorOrderly
  <2> QED BY <1>1, <2>1, QuietExclusive
<1>7. CASE /\ UNCHANGED lock
           /\ \E x : \E pc \in {"persist", "next", "inject"} :
                Goto(Reconciler, pc, x) /\ (pc # "next" => x.id = s.id)
  <2>1. PICK x : \E pc \in {"persist", "next", "inject"} :
          Goto(Reconciler, pc, x) /\ (pc # "next" => x.id = s.id)
    BY <1>7
  <2>2. PICK pc \in {"persist", "next", "inject"} :
          Goto(Reconciler, pc, x) /\ (pc # "next" => x.id = s.id)
    BY <2>1
  <2>3. PICK r : Orderly(Reconciler, r)
    BY <1>1, <1>2, <1>4, <1>7, <2>2, GotoOrderly DEF Free
  <2> QED BY <1>1, <2>3, QuietExclusive
<1>8. CASE /\ UNCHANGED lock
           /\ \E r : /\ task' = [task EXCEPT ![Reconciler] = r]
                     /\ r.pc \in {"persist", "republish"} /\ r.stored.id = s.id
  <2>1. PICK r : /\ task' = [task EXCEPT ![Reconciler] = r]
                 /\ r.pc \in {"persist", "republish"} /\ r.stored.id = s.id
    BY <1>8
  <2>2. Orderly(Reconciler, r)
    BY <1>1, <1>2, <1>4, <1>5, <1>8, <2>1 DEF Orderly
  <2> QED BY <1>1, <2>2, QuietExclusive
<1>9. CASE CheckStatus
  <2>1. /\ UNCHANGED lock
        /\ \/ \E retry : task' = [task EXCEPT ![Reconciler].pc = "republish",
                                              ![Reconciler].retry = retry]
           \/ Goto(Reconciler, "persist", s)
           \/ Goto(Reconciler, "next", None)
           \/ Goto(Reconciler, "inject", s)
    BY <1>3, <1>9 DEF CheckStatus
  <2>2. ASSUME NEW retry, task' = [task EXCEPT ![Reconciler].pc = "republish",
                                               ![Reconciler].retry = retry]
        PROVE  \E r : /\ task' = [task EXCEPT ![Reconciler] = r]
                      /\ r.pc \in {"persist", "republish"} /\ r.stored.id = s.id
    <3>1. PICK r : r = [task[Reconciler] EXCEPT !.pc = "republish", !.retry = retry]
      OBVIOUS
    <3>2. task' = [task EXCEPT ![Reconciler] = r]
      BY <1>1, <2>2, <3>1 DEF Inv, TypeOK
    <3>3. r.pc = "republish" /\ r.stored = s
      BY <1>1, <1>4, <3>1 DEF Inv, TypeOK, Task
    <3> QED BY <3>2, <3>3
  <2> QED BY <1>7, <1>8, <2>1, <2>2
<1>10. CASE Republish
  <2>1. PICK i : i = Head(task[Reconciler].retry)
    OBVIOUS
  <2>2. PICK rest : rest = Tail(task[Reconciler].retry)
    OBVIOUS
  <2>3. PICK c : c = chunk(submission_chunk_bytes(s, i), s.chunks[i].attempts + 1)
    OBVIOUS
  <2>4. PICK x : x = [s EXCEPT !.chunks[i] = c]
    OBVIOUS
  <2>5. PICK r : r = [pc |-> IF rest = <<>> THEN "persist" ELSE "republish",
                      stored |-> x, retry |-> rest]
    OBVIOUS
  <2>6. \/ Advance_error(Reconciler)
        \/ UNCHANGED lock /\ task' = [task EXCEPT ![Reconciler] = r]
    BY <1>3, <1>10, <2>1, <2>2, <2>3, <2>4, <2>5 DEF Republish
  <2>7. x.id = s.id
    BY <1>4, <2>4 DEF Submission
  <2>8. r.pc \in {"persist", "republish"} /\ r.stored.id = s.id
    BY <2>5, <2>7
  <2> QED BY <1>6, <1>8, <2>6, <2>8
<1>11. CASE GiveUp
  <2>1. /\ Goto(Reconciler, "persist", [s EXCEPT !.status = "Failed"]) /\ UNCHANGED lock
        /\ [s EXCEPT !.status = "Failed"].id = s.id
    BY <1>3, <1>4, <1>11, SameName DEF GiveUp
  <2> QED BY <1>7, <2>1
<1> QED BY <1>6, <1>9, <1>10, <1>11 DEF NoStatus, CannotPoint

\* It holds at first: nobody works, and the inbox is empty.
LEMMA InitExclusive ==
  ASSUME Init
  PROVE  Exclusive
<1>1. \A t \in Thread : ~Busy(task[t]) /\ ~Working(task[t])
  BY DEF Init, Busy, Working, Free
<1>2. \A id \in Id : FreshIn(id, file, task, todo)
  BY <1>1 DEF Init, FreshIn
<1>3. ASSUME NEW id \in Id PROVE CountIn(id, inbox) = 0
  <2>1. Len(inbox) = 0
    BY EmptySeq DEF Init
  <2>2. {i \in 1..Len(inbox) : inbox[i].id = id} = {}
    BY <2>1
  <2> QED BY <2>2, FS_EmptySet DEF CountIn
<1>4. \A id \in Id : OnceIn(id, file, task, inbox, faults)
  BY <1>3 DEF Init, OnceIn
<1>5. faults \in Nat
  BY DEF Init
<1> QED BY <1>1, <1>2, <1>4, <1>5 DEF Exclusive

\* A crash forgets all copies, and is a fault.
LEMMA CrashExclusive ==
  ASSUME Inv, Exclusive, Crash
  PROVE  Exclusive'
<1>1. \A t \in Thread : ~Busy(task'[t]) /\ ~Working(task'[t])
  BY DEF Crash, Busy, Working, Free
<1>2. ASSUME NEW id \in Id, task'[id].pc = "new" PROVE task[id].pc = "new"
  <2>1. id \in Thread /\ id # Reconciler
    BY OperatorAssumption DEF Thread
  <2> QED BY <1>2, <2>1 DEF Crash, At
<1>3. \A id \in Id : FreshIn(id, file', task', todo')
  BY <1>1, <1>2 DEF Crash, FreshIn, Exclusive
<1>4. ASSUME NEW id \in Id PROVE OnceIn(id, file', task', inbox', faults')
  <2>1. CountIn(id, inbox) \in Nat /\ OnceIn(id, file, task, inbox, faults)
    BY CountType DEF Inv, TypeOK, Exclusive
  <2>2. faults \in Nat /\ faults' = faults + 1 /\ inbox' = inbox
    BY DEF Exclusive, Crash, Fault
  <2> QED BY <2>1, <2>2 DEF OnceIn
<1>5. faults' \in Nat
  BY DEF Exclusive, Crash, Fault
<1> QED BY <1>1, <1>3, <1>4, <1>5 DEF Exclusive

\* What leaves the operator alone keeps it.
LEMMA SameExclusive ==
  ASSUME Exclusive, UNCHANGED <<file, lock, task, todo, inbox, faults>>
  PROVE  Exclusive'
BY DEF Exclusive

\* Only the lock's holder has a file open.
LEMMA OthersClosed ==
  ASSUME Exclusive, Undisturbed, NEW t \in Thread, lock \in {t, None}, NEW u \in Thread, u # t
  PROVE  fd[u] = "closed"
<1>1. ~Working(task[u])
  BY OthersIdle
<1> QED BY <1>1 DEF Undisturbed, AloneIn, Working, Writing, Free

\* A thread that persists has the lock.
LEMMA WriterHolds ==
  ASSUME Exclusive, NEW t \in Thread, task[t].pc \in Writing
  PROVE  lock = t
BY DEF Exclusive, Busy, Writing

\* Nobody is disturbed by a step that leaves the files alone,
LEMMA QuietUndisturbed ==
  ASSUME Inv, Undisturbed, NEW t \in Thread, NEW r, task' = [task EXCEPT ![t] = r],
         fd[t] = "closed", UNCHANGED <<file, tmp, fd>>
  PROVE  Undisturbed'
<1>1. \A u \in Thread : u # t => task'[u] = task[u]
  BY DEF Inv, TypeOK
<1> QED BY <1>1 DEF Undisturbed, AloneIn

\* by one that makes or writes a tmp file,
LEMMA TmpAlone ==
  ASSUME Inv, Exclusive, Undisturbed, NEW t \in Thread, CreateTmp(t) \/ WriteTmp(t)
  PROVE  Undisturbed' /\ UNCHANGED <<file, task>>
<1>1. task[t].pc \in Writing /\ UNCHANGED task
  BY DEF CreateTmp, WriteTmp
<1>2. lock = t
  BY <1>1, WriterHolds
<1>3. \A u \in Thread : u # t => fd[u] = "closed"
  BY <1>2, OthersClosed
<1>4. AloneIn(task[t], fd[t], tmp)
  BY DEF Undisturbed
<1>5. PICK id : id = task[t].stored.id
  OBVIOUS
<1>6. id \in Id
  BY <1>1, <1>5 DEF Inv, TaskIn, SoundIn, Submission, Writing, Free
<1>7. PICK d : fd' = [fd EXCEPT ![t] = d] /\ d \in {"tmp", "written"}
  BY DEF CreateTmp, WriteTmp
<1>8. AloneIn(task[t], d, tmp') /\ UNCHANGED file
  <2>1. CASE CreateTmp(t)
    <3>1. d = "tmp" /\ tmp' = [tmp EXCEPT ![id] = Empty] /\ UNCHANGED file
      BY <1>5, <1>7, <2>1 DEF CreateTmp, stored, Undisturbed
    <3> QED BY <1>1, <1>5, <1>6, <3>1 DEF AloneIn, Inv, TypeOK
  <2>2. CASE WriteTmp(t)
    <3>1. fd[t] = "tmp" /\ tmp[id] = Empty /\ d = "written" /\ UNCHANGED file
      BY <1>4, <1>5, <1>7, <2>2 DEF WriteTmp, AloneIn, Undisturbed
    <3>2. tmp' \in overwritten(tmp, task[t].stored)
      BY <2>2, <3>1 DEF WriteTmp, stored
    <3>3. tmp' = [tmp EXCEPT ![id] = persisted(task[t].stored)]
      BY <1>5, <3>1, <3>2 DEF overwritten
    <3> QED BY <1>1, <1>5, <1>6, <3>1, <3>3 DEF AloneIn, Inv, TypeOK
  <2> QED BY <2>1, <2>2
<1>9. fd' \in [Thread -> {"closed", "tmp", "written", "file", "gone"}]
  BY <1>7 DEF Undisturbed
<1>10. ASSUME NEW u \in Thread PROVE AloneIn(task'[u], fd'[u], tmp')
  <2>1. CASE u = t
    BY <1>1, <1>7, <1>8, <2>1 DEF Undisturbed
  <2>2. CASE u # t
    <3>1. fd'[u] = "closed"
      BY <1>3, <1>7, <2>2 DEF Undisturbed
    <3> QED BY <3>1 DEF AloneIn
  <2> QED BY <2>1, <2>2
<1> QED BY <1>1, <1>8, <1>9, <1>10 DEF Undisturbed

\* nor by one that ends the work on it.
LEMMA ClosedUndisturbed ==
  ASSUME Inv, Exclusive, Undisturbed, NEW t \in Thread, task[t].pc \in Writing,
         persist_submission(t) \/ persist_error(t)
  PROVE  Undisturbed'
<1>1. lock = t
  BY WriterHolds
<1>2. \A u \in Thread : u # t => fd[u] = "closed"
  BY <1>1, OthersClosed
<1>3. fd' = [u \in Thread |-> "closed"]
  <2>1. fd' \in [Thread -> {"closed"}]
    <3>1. CASE persist_submission(t)
      BY <1>2, <3>1 DEF persist_submission, renamed
    <3>2. CASE persist_error(t)
      BY <1>2, <3>2 DEF persist_error, Undisturbed
    <3> QED BY <3>1, <3>2
  <2> QED BY <2>1
<1>4. \A id \in Id : file'[id] \notin {Empty, Torn}
  <2>1. CASE persist_error(t)
    BY <2>1, ErrorStores DEF Undisturbed
  <2>2. CASE persist_submission(t)
    <3>1. Working(task[t])
      BY DEF Working, Writing, Free
    <3>2. Stores(task[t].stored)
      BY <2>2, RenameStores
    <3>3. PICK s : s = task[t].stored
      OBVIOUS
    <3>4. SoundIn(s, dal, inbox)
      BY <3>1, <3>3 DEF Inv, TaskIn, Working
    <3>5. PICK x : x = persisted(s)
      OBVIOUS
    <3>6. x \in Submission /\ s.id \in Id
      BY <3>4, <3>5 DEF persisted, SoundIn, Submission
    <3>7. file' = [file EXCEPT ![s.id] = x]
      BY <3>2, <3>3, <3>5 DEF Stores
    <3>8. x \notin {Empty, Torn}
      BY <3>6, OperatorAssumption
    <3> QED BY <3>6, <3>7, <3>8 DEF Undisturbed, Inv, TypeOK
  <2> QED BY <2>1, <2>2
<1>5. \A u \in Thread : AloneIn(task'[u], fd'[u], tmp')
  BY <1>3 DEF AloneIn
<1>6. fd' \in [Thread -> {"closed", "tmp", "written", "file", "gone"}]
  BY <1>3
<1> QED BY <1>4, <1>5, <1>6 DEF Undisturbed

\* A thread at another place than its calls of persist_submission has no file open.
LEMMA ElsewhereClosed ==
  ASSUME Undisturbed, NEW t \in Thread, task[t].pc \notin Writing
  PROVE  fd[t] = "closed"
BY DEF Undisturbed, AloneIn

\* How a step that leaves the files alone changes the threads: one of them, that
\* has no file open, goes on.
LEMMA QuietSteps ==
  ASSUME Inv, Undisturbed, NEW t \in Thread,
         \/ t \in Id /\ (Request(t) \/ Refuse(t) \/ MarkFailed(t))
         \/ PublishNext(t) \/ AllPublished(t) \/ CannotPublish(t) \/ Inject(t)
         \/ /\ t = Reconciler
            /\ \/ Tick \/ NextSubmission \/ EndPass \/ CheckStatus \/ NoStatus
               \/ Republish \/ GiveUp \/ CannotPoint
  PROVE  Undisturbed'
<1>1. UNCHANGED <<file, tmp, fd>>
  BY DEF Request, Refuse, MarkFailed, PublishNext, AllPublished, CannotPublish, Inject, Tick,
     NextSubmission, EndPass, CheckStatus, NoStatus, Republish, GiveUp, CannotPoint
<1>2. task[t].pc \notin Writing \/ fd[t] = "closed"
  BY DEF Request, Refuse, MarkFailed, PublishNext, AllPublished, CannotPublish, Inject, Tick,
     NextSubmission, EndPass, CheckStatus, NoStatus, Republish, GiveUp, CannotPoint, At, Writing
<1>3. \E r : task' = [task EXCEPT ![t] = r]
  <2>1. CASE \E pc, x : Goto(t, pc, x)
    BY <2>1 DEF Goto
  <2>2. CASE UNCHANGED task
    <3>1. task' = [task EXCEPT ![t] = task[t]]
      BY <2>2 DEF Inv, TypeOK
    <3> QED BY <3>1
  <2>3. CASE \E retry : task' = [task EXCEPT ![t].pc = "republish", ![t].retry = retry]
    <3>1. PICK retry : task' = [task EXCEPT ![t].pc = "republish", ![t].retry = retry]
      BY <2>3
    <3>2. PICK r : r = [task[t] EXCEPT !.pc = "republish", !.retry = retry]
      OBVIOUS
    <3>3. task' = [task EXCEPT ![t] = r]
      BY <3>1, <3>2 DEF Inv, TypeOK
    <3> QED BY <3>3
  <2>4. CASE t \in Id /\ (Request(t) \/ Refuse(t) \/ MarkFailed(t))
    BY <2>1, <2>4 DEF Request, Refuse, MarkFailed, Return
  <2>5. CASE PublishNext(t) \/ AllPublished(t) \/ CannotPublish(t) \/ Inject(t)
    BY <2>1, <2>5 DEF PublishNext, AllPublished, CannotPublish, Inject, Advance_error
  <2>6. CASE t = Reconciler /\ (Tick \/ NextSubmission \/ EndPass \/ NoStatus \/ GiveUp \/ CannotPoint)
    BY <2>1, <2>2, <2>6 DEF Tick, NextSubmission, EndPass, NoStatus, GiveUp, CannotPoint,
       Return, Advance_error
  <2>7. CASE t = Reconciler /\ CheckStatus
    <3>1. \/ \E retry : task' = [task EXCEPT ![t].pc = "republish", ![t].retry = retry]
          \/ \E pc, x : Goto(t, pc, x)
      BY <2>7 DEF CheckStatus
    <3> QED BY <2>1, <2>3, <3>1
  <2>8. CASE t = Reconciler /\ Republish
    BY <2>1, <2>8 DEF Republish, Advance_error
  <2> QED BY <2>4, <2>5, <2>6, <2>7, <2>8
<1>4. PICK r : task' = [task EXCEPT ![t] = r]
  BY <1>3
<1>5. fd[t] = "closed"
  BY <1>2, ElsewhereClosed
<1> QED BY <1>1, <1>4, <1>5, QuietUndisturbed

\* Every step keeps it, if no client leaves.
LEMMA StepUndisturbed ==
  ASSUME MayDisconnect = {}, Inv, Exclusive, Undisturbed, [Next]_vars
  PROVE  Undisturbed'
<1>1. Reconciler \in Thread /\ \A id \in Id : id \in Thread
  BY DEF Thread
<1>2. ASSUME NEW t \in Thread, Advance(t) PROVE Undisturbed'
  <2>1. CASE CreateTmp(t) \/ WriteTmp(t)
    BY <2>1, TmpAlone
  <2>2. CASE PersistChunk(t) \/ Persist(t)
    BY <2>2, ClosedUndisturbed DEF PersistChunk, Persist, At, Writing
  <2>3. CASE PublishNext(t) \/ AllPublished(t) \/ CannotPublish(t) \/ Inject(t)
    BY <2>3, QuietSteps
  <2> QED BY <1>2, <2>1, <2>2, <2>3 DEF Advance
<1>3. ASSUME NEW id \in Id, Request(id) \/ process_submission(id) \/ Disconnect(id)
      PROVE  Undisturbed'
  <2>1. CASE Accept(id)
    BY <1>1, <2>1, ClosedUndisturbed DEF Accept, At, Writing
  <2>2. CASE Request(id) \/ Refuse(id) \/ MarkFailed(id)
    BY <1>1, <2>2, QuietSteps
  <2> QED BY <1>1, <1>2, <1>3, <2>1, <2>2 DEF process_submission, Disconnect
<1>4. ASSUME reconcile_loop PROVE Undisturbed'
  BY <1>1, <1>2, <1>4, QuietSteps DEF reconcile_loop
<1>5. CASE UNCHANGED vars \/ Bake
  BY <1>5 DEF vars, Bake, Undisturbed
<1>6. CASE Crash
  <2>1. \A t \in Thread : fd'[t] = "closed"
    BY <1>6 DEF Crash
  <2> QED BY <1>6, <2>1 DEF Crash, Undisturbed, AloneIn
<1> QED BY <1>3, <1>4, <1>5, <1>6 DEF Next

\* Every step keeps it, if no client leaves.
LEMMA StepExclusive ==
  ASSUME MayDisconnect = {}, Inv, Exclusive, Undisturbed, [Next]_vars
  PROVE  Exclusive'
<1>1. Reconciler \in Thread /\ \A id \in Id : id \in Thread
  BY DEF Thread
<1>2. ASSUME NEW t \in Thread, Advance(t) PROVE Exclusive'
  <2>1. CASE CreateTmp(t) \/ WriteTmp(t)
    BY <2>1, TmpAlone, SameExclusive DEF CreateTmp, WriteTmp
  <2> QED BY <1>2, <2>1, PublishExclusive, InjectKeepsExclusive, PersistKeepsExclusive
          DEF Advance
<1>3. ASSUME NEW id \in Id, Request(id) \/ process_submission(id) \/ Disconnect(id)
      PROVE  Exclusive'
  BY <1>1, <1>2, <1>3, RequestExclusive, AcceptExclusive DEF process_submission, Disconnect
<1>4. ASSUME reconcile_loop PROVE Exclusive'
  BY <1>1, <1>2, <1>4, PassExclusive, NextExclusive, AdvanceExclusive DEF reconcile_loop
<1>5. CASE UNCHANGED vars \/ Bake
  BY <1>5, SameExclusive DEF vars, Bake
<1> QED BY <1>3, <1>4, <1>5, CrashExclusive DEF Next

\* Only the copy of a thread that works is ever written.
LEMMA StepWrites ==
  ASSUME Inv, Exclusive, Undisturbed, [Next]_vars
  PROVE  \E t \in Thread : Writes(t)
<1>1. Reconciler \in Thread /\ \A id \in Id : id \in Thread
  BY DEF Thread
<1>2. ASSUME NEW t \in Thread, task[t].pc \in Writing, persist_submission(t) \/ persist_error(t)
      PROVE  Writes(t)
  <2>1. Working(task[t])
    BY <1>2 DEF Working, Writing, Free
  <2> QED BY <1>2, <2>1, RenameStores, ErrorStores DEF Writes
<1>3. ASSUME NEW t \in Thread, Advance(t) PROVE Writes(t)
  <2>1. CASE CreateTmp(t) \/ WriteTmp(t)
    BY <2>1, TmpAlone DEF Writes
  <2>2. CASE PersistChunk(t) \/ Persist(t)
    BY <1>2, <2>2 DEF PersistChunk, Persist, At, Writing
  <2>3. CASE PublishNext(t) \/ AllPublished(t) \/ CannotPublish(t) \/ Inject(t)
    BY <2>3 DEF PublishNext, AllPublished, CannotPublish, Inject, Writes
  <2> QED BY <1>3, <2>1, <2>2, <2>3 DEF Advance
<1>4. ASSUME NEW id \in Id, Request(id) \/ process_submission(id) \/ Disconnect(id)
      PROVE  Writes(id)
  <2>1. CASE Accept(id)
    BY <1>1, <1>2, <2>1 DEF Accept, At, Writing
  <2>2. CASE Request(id) \/ Refuse(id) \/ MarkFailed(id) \/ Disconnect(id)
    BY <2>2 DEF Request, Refuse, MarkFailed, Disconnect, Writes
  <2> QED BY <1>1, <1>3, <1>4, <2>1, <2>2 DEF process_submission
<1>5. ASSUME reconcile_loop PROVE Writes(Reconciler)
  BY <1>1, <1>3, <1>5 DEF reconcile_loop, Tick, NextSubmission, EndPass, CheckStatus,
     NoStatus, Republish, GiveUp, CannotPoint, Writes
<1>6. CASE UNCHANGED vars \/ Bake \/ Crash
  BY <1>1, <1>6 DEF vars, Bake, Crash, Writes
<1> QED BY <1>1, <1>4, <1>5, <1>6 DEF Next

\* The three invariants together.
Guarded == Inv /\ Exclusive /\ Undisturbed

\* They hold at first,
LEMMA InitGuarded == Init => Guarded
<1> SUFFICES ASSUME Init PROVE Guarded
  OBVIOUS
<1>1. Undisturbed
  BY OperatorAssumption DEF Init, Undisturbed, AloneIn
<1> QED BY <1>1, InitInv, InitExclusive DEF Guarded

\* and always, if no client leaves.
LEMMA StepGuarded ==
  ASSUME MayDisconnect = {}
  PROVE  Guarded /\ [Next]_vars => Guarded'
<1> SUFFICES ASSUME Guarded, [Next]_vars PROVE Guarded'
  OBVIOUS
<1>1. Inv /\ Exclusive /\ Undisturbed
  BY DEF Guarded
<1>2. Inv' /\ Exclusive' /\ Undisturbed'
  BY <1>1, StepInv, StepExclusive, StepUndisturbed
<1> QED BY <1>2 DEF Guarded

\* While clients wait for their answers, a submission that is not finished can be
\* taken up from its file alone, wherever the process died: the file can be read,
\* it has the payload, and its chunks are the payload's beginning, or all of it
\* once the commitment is included (persist_submission under advance_lock).
THEOREM FilesAreResumable ==
  ASSUME MayDisconnect = {}
  PROVE  Spec => []Resumable
<1>1. Init => Guarded
  BY InitGuarded
<1>2. Guarded /\ [Next]_vars => Guarded'
  BY StepGuarded
<1>3. Guarded => Resumable
  BY InvImplies DEF Guarded, Undisturbed
<1> QED BY <1>1, <1>2, <1>3, PTL DEF Spec

\* While clients wait for their answers, a submission is in the inbox at most once
\* more than there were failures: a retry after a crash or a lost answer may
\* inject it again (Inject, Persist), the interleaving of requests and the
\* reconciler never does.
THEOREM OnlyFaultsDuplicate ==
  ASSUME MayDisconnect = {}
  PROVE  Spec => []DuplicatesNeedFaults
<1>1. Init => Guarded
  BY InitGuarded
<1>2. Guarded /\ [Next]_vars => Guarded'
  BY StepGuarded
<1>3. Guarded => DuplicatesNeedFaults
  <2> SUFFICES ASSUME Inv, Exclusive, NEW id \in Id
               PROVE  Cardinality({i \in DOMAIN inbox : inbox[i].id = id}) <= 1 + faults
    BY DEF DuplicatesNeedFaults, Guarded
  <2>1. inbox \in Seq(Message) /\ DOMAIN inbox = 1..Len(inbox) /\ faults \in Nat
    BY LenProperties DEF Inv, TypeOK, Exclusive
  <2>2. CountIn(id, inbox) <= faults + 1 /\ CountIn(id, inbox) \in Nat
    BY <2>1, CountType DEF Exclusive, OnceIn
  <2>3. Cardinality({i \in DOMAIN inbox : inbox[i].id = id}) = CountIn(id, inbox)
    BY <2>1 DEF CountIn
  <2> QED BY <2>1, <2>2, <2>3
<1> QED BY <1>1, <1>2, <1>3, PTL DEF Spec

\* While clients wait for their answers, a file that says SubmittedToL1 or Failed
\* says so for ever: persist_submission is only ever called for a copy taken while
\* the submission was pending, under a lock that nobody else had since.
THEOREM TerminalStaysFinal ==
  ASSUME MayDisconnect = {}
  PROVE  Spec => TerminalIsFinal
<1>1. Init => Guarded
  BY InitGuarded
<1>2. Guarded /\ [Next]_vars => Guarded'
  BY StepGuarded
<1>3. Guarded /\ [Next]_vars =>
        [\A id \in Id : \A status \in {"SubmittedToL1", "Failed"} :
           HasStatus(id, {status}) => HasStatus(id, {status})']_vars
  <2> SUFFICES ASSUME Guarded, [Next]_vars, NEW id \in Id,
                      NEW status \in {"SubmittedToL1", "Failed"}, HasStatus(id, {status})
               PROVE  file'[id] = file[id]
    BY DEF HasStatus
  <2>0. Inv /\ Exclusive /\ Undisturbed
    BY DEF Guarded
  <2>1. PICK t \in Thread : Writes(t)
    BY <2>0, StepWrites
  <2>2. CASE Working(task[t]) /\ Stores(task[t].stored)
    <3>1. id # task[t].stored.id
      BY <2>0, <2>2 DEF Exclusive, OpenIn, HasStatus, Readable, pending
    <3> QED BY <2>0, <2>2, <3>1, Written
  <2> QED BY <2>1, <2>2 DEF Writes
<1> QED BY <1>1, <1>2, <1>3, PTL DEF Spec, TerminalIsFinal
=============================================================================
