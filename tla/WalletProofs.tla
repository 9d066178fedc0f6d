---------------------------- MODULE WalletProofs ----------------------------
(***************************************************************************)
(* Proofs, for every value of the constants, that the wallet's commands    *)
(* lose no note, no deposit and no record of a spend, whatever the chain   *)
(* does between their steps, wherever they fail, and whichever copy of the *)
(* wallet file the user restores.                                          *)
(***************************************************************************)
EXTENDS Wallet, Induction

(***************************************************************************)
(* Types.                                                                  *)
(***************************************************************************)
Leaves == [to : Nat \cup {Other}, v : Int, cm : Nat]
Transaction ==
  [id : Nat, inputs : SUBSET Nat, pool : Pool \cup {NoPool}, draw : Nat,
   outputs : Seq(Leaves)]
HeadState == [size : Nat, spent : SUBSET Nat, balance : [Pool -> Nat]]
PendingDeposit == [pool : Pool, cm : Nat]
WalletFile ==
  [addr : Nat \cup {-1}, keys : Nat, notes : SUBSET Nat, scanned : Nat,
   pending : SUBSET SUBSET Nat, deposits : SUBSET PendingDeposit, nonce : Nat]
Floor == [addr : Nat \ {0}, keys : Nat]

\* The places of a command: before its first save, after it, with a transaction.
Reading == {"sync", "yield", "scan"}
Spending == {"prove", "wait", "record"}
Saved == {"show", "preflight", "ticket", "recover"} \cup Spending
Job == [pc : {"idle"} \cup Reading \cup Saved, pin : HeadState, from : Nat,
        tx : Transaction, pool : Int \X Nat]

\* The type invariant.
TypeOK ==
  /\ tree \in Seq(Leaves) /\ spent \in SUBSET Nat /\ balance \in [Pool -> Nat]
  /\ inbox \in SUBSET Transaction /\ tickets \in SUBSET Pool
  /\ file \in WalletFile /\ floor \in Floor
  /\ backup \in WalletFile /\ early \in SUBSET Nat
  /\ job \in Job
  /\ events \in Nat
  /\ public \in [addresses : SUBSET Nat, pools : SUBSET Pool]

-----------------------------------------------------------------------------
(***************************************************************************)
(* The inductive invariant.                                                *)
(***************************************************************************)
\* Would a file load over this floor?
Loads(w, fl) == w.addr >= fl.addr /\ w.keys >= fl.keys

\* Pools that hold money, or may come to hold some.
Live == {p \in Pool : balance[p] > 0} \cup tickets \cup public.pools

\* Every address that a note can come to was saved with the floor before it was
\* used.
Owned(leaves, fl) == \A i \in DOMAIN leaves : leaves[i].to < fl.addr
Known(fl) ==
  /\ Owned(tree, fl)
  /\ \A t \in inbox : Owned(t.outputs, fl)
  /\ \A a \in public.addresses : a < fl.addr
  /\ \A p \in Live : p[1] < fl.addr

\* A file and its notes, which stays true as the chain goes on.
Content(w) ==
  /\ w.scanned <= Len(tree)
  /\ Unspent(1..w.scanned, spent) \subseteq w.notes
  /\ w.notes \subseteq Unspent(1..w.scanned, {})

\* The entries of a file are in the grid of its counters.
Entries(w, fl) == \A d \in w.deposits : d.pool[1] < fl.addr /\ d.pool[2] < w.nonce

\* The inputs of transactions that were applied or may be.
Taken == spent \cup UNION {t.inputs : t \in inbox}

\* The inputs of the transaction that was submitted and is not recorded yet.
Open(j) == IF j.pc \in {"wait", "record"} THEN j.tx.inputs ELSE {}

\* A file knows of every taken note that it is taken.
Records(w, open) ==
  /\ Taken \subseteq 1..w.scanned
  /\ Taken \cap w.notes \subseteq (UNION w.pending) \cup open

\* What a file that loads must also have: the nonces of the live pools (the last one
\* may still be the next to use, in a copy made between the saves of a deposit) and,
\* until a record is lost, the records of all spends but those named open.
Ready(w, open) ==
  /\ \A p \in Live : p[2] <= w.nonce
  /\ ~lost => Records(w, open)

Fits(w, fl, open) == Content(w) /\ Entries(w, fl) /\ (Loads(w, fl) => Ready(w, open))

\* What a command at each place relies on.  A deposit and a spend have moved the
\* floor past the backup before they show a pool or submit, unless it was made since:
\* then it has the nonce of the deposit, and is marked with the inputs of the spend.
JobFits(j, w, fl) ==
  /\ j.pc # "idle" => Loads(w, fl)
  /\ j.pc \in Saved => fl = wallet_xmss_floor(w)
  /\ j.pc \in {"sync", "yield"} =>
       /\ j.pin.spent \subseteq spent
       /\ w.scanned <= j.pin.size /\ j.pin.size <= Len(tree)
       /\ Unspent(1..w.scanned, j.pin.spent) \subseteq w.notes
  /\ j.pc = "scan" => j.pin.size <= Len(tree)
  /\ j.pc = "preflight" =>
       /\ w.addr \in 1..MaxAddr
       /\ Loads(backup, fl) => w.nonce <= backup.nonce
  /\ j.pc = "ticket" =>
       /\ j.pool \in Pool /\ j.pool[1] < fl.addr /\ j.pool[2] < w.nonce
       /\ Loads(backup, fl) => j.pool[2] <= backup.nonce
  /\ j.pc = "recover" => j.pool[1] < fl.addr
  /\ j.pc \in Spending =>
       /\ Owned(j.tx.outputs, fl)
       /\ j.tx.inputs \subseteq 1..w.scanned
       /\ j.tx.inputs # {} /\ Loads(backup, fl) =>
            early = j.tx.inputs /\ j.tx.inputs \subseteq 1..backup.scanned
  /\ j.pc = "prove" /\ ~lost => j.tx.inputs \cap Taken = {}
  /\ j.pc \in {"wait", "record"} /\ net = "ledger" => j.tx.inputs \subseteq spent

\* Until a record is lost no two transactions take one note.
Disjoint ==
  /\ \A t \in inbox : t.inputs \cap spent = {}
  /\ \A t, u \in inbox : t # u => t.inputs \cap u.inputs = {}

\* A file never goes back behind the user's copy.
Ahead(w) == backup.addr <= w.addr /\ backup.keys <= w.keys

Inv ==
  /\ TypeOK
  /\ Ahead(file)
  /\ Known(floor)
  /\ Fits(file, floor, Open(job))
  /\ Fits(backup, floor, early)
  /\ JobFits(job, file, floor)
  /\ ~lost => Disjoint
  /\ RefusedOnlyAfterLoss

-----------------------------------------------------------------------------
(***************************************************************************)
(* What notes are worth is a number.                                       *)
(***************************************************************************)
Pick(s) == CHOOSE x \in s : TRUE

\* A function on the subsets of S that satisfies the equation of the sum.
IsSum(f, S) ==
  f = [s \in SUBSET S |->
         IF s = {} THEN 0
         ELSE tree[Pick(s)].v + f[s \ {Pick(s)}]]

\* It exists: the recursion ends.
LEMMA SumExists ==
  ASSUME NEW S, IsFiniteSet(S)
  PROVE  \E f : IsSum(f, S)
<1> DEFINE Small(n) == {s \in SUBSET S : Cardinality(s) <= n}
           Eq(f, n) == f = [s \in Small(n) |->
                              IF s = {} THEN 0
                              ELSE tree[Pick(s)].v
                                     + f[s \ {Pick(s)}]]
           T == {n \in Nat : \E f : Eq(f, n)}
<1>1. \A s \in SUBSET S : IsFiniteSet(s) /\ Cardinality(s) \in Nat
  BY FS_Subset, FS_CardinalityType
<1>2. \A s \in SUBSET S : s # {} =>
        /\ s \ {Pick(s)} \in SUBSET S
        /\ Cardinality(s \ {Pick(s)}) = Cardinality(s) - 1
  <2> SUFFICES ASSUME NEW s \in SUBSET S, s # {}
               PROVE  /\ s \ {Pick(s)} \in SUBSET S
                      /\ Cardinality(s \ {Pick(s)}) = Cardinality(s) - 1
    OBVIOUS
  <2>1. Pick(s) \in s
    BY DEF Pick
  <2> QED BY <1>1, <2>1, FS_RemoveElement
<1>3. 0 \in T
  <2> DEFINE g == [s \in Small(0) |-> 0]
  <2>1. \A s \in Small(0) : s = {}
    BY <1>1, FS_EmptySet
  <2>2. Eq(g, 0)
    BY <2>1
  <2> QED BY <2>2
<1>4. ASSUME NEW n \in Nat, n \in T PROVE n + 1 \in T
  <2>1. PICK f : Eq(f, n)
    BY <1>4
  <2> DEFINE g == [s \in Small(n + 1) |->
                     IF s = {} THEN 0
                     ELSE tree[Pick(s)].v
                            + f[s \ {Pick(s)}]]
  <2>2. \A s \in Small(n) : s \in Small(n + 1) /\ g[s] = f[s]
    <3>1. Small(n) \subseteq Small(n + 1)
      BY <1>1
    <3> HIDE DEF Small
    <3> QED BY <2>1, <3>1
  <2>3. \A s \in Small(n + 1) : s # {} => s \ {Pick(s)} \in Small(n)
    BY <1>1, <1>2
  <2>4. \A s \in Small(n + 1) :
          g[s] = IF s = {} THEN 0
                 ELSE tree[Pick(s)].v + g[s \ {Pick(s)}]
    <3> HIDE DEF Small
    <3> QED BY <2>2, <2>3
  <2>5. \E h : Eq(h, n + 1)
    <3>1. g = [s \in Small(n + 1) |-> g[s]]
      OBVIOUS
    <3> HIDE DEF Small, g
    <3>2. Eq(g, n + 1)
      BY <2>4, <3>1
    <3> QED BY <3>2
  <2> HIDE DEF Eq
  <2> QED BY <2>5
<1> HIDE DEF T
<1>5. Nat \subseteq T
  BY <1>3, <1>4, SetInduction
<1>6. Cardinality(S) \in T
  BY <1>5, FS_CardinalityType
<1>7. SUBSET S = Small(Cardinality(S))
  BY <1>1, FS_Subset
<1> QED BY <1>6, <1>7 DEF T, IsSum

LEMMA SumIsInt ==
  ASSUME NEW S, IsFiniteSet(S), \A i \in S : tree[i].v \in Int
  PROVE  ValueOf(S) \in Int
<1> DEFINE f == CHOOSE g : IsSum(g, S)
           T == {n \in Nat : \A s \in SUBSET S : Cardinality(s) = n => f[s] \in Int}
<1>1. IsSum(f, S)
  BY SumExists
<1>2. ValueOf(S) = f[S]
  BY DEF ValueOf, MapThenSumSet, MapThenFoldSet, IsSum, Pick
<1> HIDE DEF f
<1>3. \A s \in SUBSET S : IsFiniteSet(s) /\ Cardinality(s) \in Nat
  BY FS_Subset, FS_CardinalityType
<1>4. 0 \in T
  <2>1. \A s \in SUBSET S : Cardinality(s) = 0 => s = {}
    BY <1>3, FS_EmptySet
  <2>2. f[{}] = 0
    BY <1>1 DEF IsSum
  <2> QED BY <2>1, <2>2
<1>5. ASSUME NEW n \in Nat, n \in T PROVE n + 1 \in T
  <2> SUFFICES ASSUME NEW s \in SUBSET S, Cardinality(s) = n + 1 PROVE f[s] \in Int
    OBVIOUS
  <2> DEFINE x == Pick(s)
  <2>1. s # {}
    BY FS_EmptySet
  <2>2. x \in s
    BY <2>1 DEF Pick
  <2>3. Cardinality(s \ {x}) = n
    BY <1>3, <2>2, FS_RemoveElement
  <2>4. f[s \ {x}] \in Int
    BY <1>5, <2>3
  <2>5. f[s] = tree[x].v + f[s \ {x}]
    BY <1>1, <2>1 DEF IsSum
  <2> HIDE DEF x
  <2> QED BY <2>2, <2>4, <2>5
<1> HIDE DEF T
<1>6. Nat \subseteq T
  BY <1>4, <1>5, SetInduction
<1> QED BY <1>2, <1>3, <1>6 DEF T

-----------------------------------------------------------------------------
(***************************************************************************)
(* What stays true as the chain goes on.                                   *)
(***************************************************************************)
\* Notes and nullifiers are only added.
Grows ==
  /\ tree \in Seq(Leaves) /\ tree' \in Seq(Leaves)
  /\ Len(tree) <= Len(tree')
  /\ \A i \in 1..Len(tree) : tree'[i] = tree[i]
  /\ spent \subseteq spent'

LEMMA ContentStable ==
  ASSUME Grows, NEW w \in WalletFile, Content(w)
  PROVE  Content(w)'
<1>1. Len(tree) \in Nat /\ Len(tree') \in Nat
  BY DEF Grows
<1>2. w.scanned \in Nat /\ w.scanned <= Len(tree)
  BY DEF Content, WalletFile
<1>3. \A i \in 1..w.scanned : tree'[i] = tree[i]
  BY <1>1, <1>2 DEF Grows
<1>4. w.scanned <= Len(tree')
  BY <1>1, <1>2 DEF Grows
<1>5. Unspent(1..w.scanned, spent)' \subseteq w.notes
  BY <1>3 DEF Grows, Content, Unspent
<1>6. w.notes \subseteq Unspent(1..w.scanned, {})'
  BY <1>3 DEF Content, Unspent
<1> QED BY <1>4, <1>5, <1>6 DEF Content

LEMMA ReadyStable ==
  ASSUME Live' \subseteq Live, Taken' \subseteq Taken, lost => lost',
         NEW w, NEW open, Ready(w, open)
  PROVE  Ready(w, open)'
BY DEF Ready, Records

LEMMA FitsStable ==
  ASSUME Grows, Live' \subseteq Live, Taken' \subseteq Taken, lost => lost',
         NEW w \in WalletFile, NEW fl, NEW open, Fits(w, fl, open)
  PROVE  Fits(w, fl, open)'
BY ContentStable, ReadyStable DEF Fits, Entries, Loads

LEMMA JobStable ==
  ASSUME Grows, Taken' \subseteq Taken, lost => lost', net' = net,
         backup' = backup, early' = early,
         NEW j \in Job, NEW w \in WalletFile, NEW fl, JobFits(j, w, fl)
  PROVE  JobFits(j, w, fl)'
<1>1. Len(tree) \in Nat /\ Len(tree') \in Nat
  BY DEF Grows
<1>2. j.pc \in {"sync", "yield"} =>
        (/\ j.pin.spent \subseteq spent
         /\ w.scanned <= j.pin.size /\ j.pin.size <= Len(tree)
         /\ Unspent(1..w.scanned, j.pin.spent) \subseteq w.notes)'
  <2> SUFFICES ASSUME j.pc \in {"sync", "yield"}
               PROVE  (/\ j.pin.spent \subseteq spent
                       /\ w.scanned <= j.pin.size /\ j.pin.size <= Len(tree)
                       /\ Unspent(1..w.scanned, j.pin.spent) \subseteq w.notes)'
    OBVIOUS
  <2>1. w.scanned \in Nat /\ j.pin.size \in Nat
    BY DEF WalletFile, Job, HeadState
  <2>2. /\ j.pin.spent \subseteq spent
        /\ w.scanned <= j.pin.size /\ j.pin.size <= Len(tree)
        /\ Unspent(1..w.scanned, j.pin.spent) \subseteq w.notes
    BY DEF JobFits
  <2>3. \A i \in 1..w.scanned : tree'[i] = tree[i]
    BY <1>1, <2>1, <2>2 DEF Grows
  <2> QED BY <1>1, <2>1, <2>2, <2>3 DEF Grows, Unspent
<1>3. j.pc = "scan" => (j.pin.size <= Len(tree))'
  BY <1>1 DEF JobFits, Grows, Job, HeadState
<1>4. j.pc = "prove" /\ ~lost' => (j.tx.inputs \cap Taken = {})'
  BY DEF JobFits
<1>5. j.pc = "preflight" =>
        w.addr \in 1..MaxAddr /\ (Loads(backup', fl) => w.nonce <= backup'.nonce)
  BY DEF JobFits
<1>6. j.pc = "ticket" => (Loads(backup', fl) => j.pool[2] <= backup'.nonce)
  BY DEF JobFits
<1>7. j.pc \in Spending /\ j.tx.inputs # {} /\ Loads(backup', fl) =>
        early' = j.tx.inputs /\ j.tx.inputs \subseteq 1..backup'.scanned
  BY DEF JobFits
<1>8. j.pc \in {"wait", "record"} /\ net' = "ledger" => j.tx.inputs \subseteq spent'
  BY DEF JobFits, Grows
<1> QED BY <1>2, <1>3, <1>4, <1>5, <1>6, <1>7, <1>8 DEF JobFits, Owned, Loads

\* Files that a step leaves alone.
LEMMA BackupStays ==
  ASSUME Inv, Grows, Live' \subseteq Live, Taken' \subseteq Taken, lost => lost',
         UNCHANGED <<floor, backup, early>>
  PROVE  Fits(backup, floor, early)'
<1>1. PICK w, fl, open : w = backup /\ fl = floor /\ open = early
  OBVIOUS
<1>2. w \in WalletFile /\ Fits(w, fl, open)
  BY <1>1 DEF Inv, TypeOK
<1>3. Fits(w, fl, open)'
  BY <1>2, FitsStable
<1> QED BY <1>1, <1>3

LEMMA FileStays ==
  ASSUME Inv, Grows, Live' \subseteq Live, Taken' \subseteq Taken, lost => lost',
         UNCHANGED <<file, floor>>, Open(job)' = Open(job)
  PROVE  Fits(file, floor, Open(job))'
<1>1. PICK w, fl, open : w = file /\ fl = floor /\ open = Open(job)
  OBVIOUS
<1>2. w \in WalletFile /\ Fits(w, fl, open)
  BY <1>1 DEF Inv, TypeOK
<1>3. Fits(w, fl, open)'
  BY <1>2, FitsStable
<1> QED BY <1>1, <1>3

-----------------------------------------------------------------------------
(***************************************************************************)
(* The initial state.                                                      *)
(***************************************************************************)
LEMMA FirstFile == FirstWallet \in WalletFile /\ NoWallet \in WalletFile
BY DEF FirstWallet, NoWallet, WalletFile

LEMMA IdleJob == Idle \in Job /\ Idle.pc = "idle" /\ Open(Idle) = {}
BY EmptySeq DEF Idle, Job, NoHead, HeadState, NoTx, Tx, Transaction, NoPool, Other, Open

LEMMA IdleFits == \A w, fl : JobFits(Idle, w, fl)
BY IdleJob DEF JobFits, Saved, Spending

LEMMA IdleFitsNext == \A w, fl : JobFits(Idle, w, fl)'
BY IdleJob DEF JobFits, Saved, Spending

LEMMA InitInv == Init => Inv
<1> SUFFICES ASSUME Init PROVE Inv
  OBVIOUS
<1>1. FirstNotes \in Seq(Nat)
  BY WalletAssumption
<1>2. tree \in [1..Len(FirstNotes) -> Leaves]
  BY <1>1 DEF Init, Leaf, Leaves, NoCm
<1>3. tree \in Seq(Leaves) /\ Len(tree) \in Nat /\ \A i \in DOMAIN tree : tree[i].to = 0
  <2>1. Len(FirstNotes) \in Nat
    BY <1>1
  <2>2. tree \in Seq(Leaves)
    BY <1>2, <2>1, FunctionIsSeq
  <2> QED BY <2>2 DEF Init, Leaf
<1>4. file = FirstWallet /\ backup = NoWallet /\ early = {} /\ job = Idle
  BY DEF Init
<1>5. floor = [addr |-> 1, keys |-> 0]
  BY DEF Init, wallet_xmss_floor, FirstWallet
<1>6. TypeOK
  BY <1>3, <1>4, <1>5, FirstFile, IdleJob DEF TypeOK, Init, Floor
<1>7. Ahead(file)
  BY <1>4 DEF Ahead, FirstWallet, NoWallet
<1>8. Live = {} /\ Taken = {}
  BY DEF Init, Live, Taken
<1>9. Known(floor)
  BY <1>3, <1>5, <1>8 DEF Known, Owned, Init
<1>10. ASSUME NEW w \in WalletFile, w.notes = {}, w.scanned = 0, w.deposits = {}
       PROVE  Fits(w, floor, {})
  BY <1>3, <1>8, <1>10 DEF Fits, Content, Unspent, Entries, Ready, Records
<1>11. Fits(file, floor, Open(job)) /\ Fits(backup, floor, early)
  BY <1>4, <1>10, FirstFile, IdleJob DEF FirstWallet, NoWallet
<1>12. Disjoint /\ RefusedOnlyAfterLoss
  BY DEF Init, Disjoint, RefusedOnlyAfterLoss
<1> QED BY <1>4, <1>6, <1>7, <1>9, <1>11, <1>12, IdleFits DEF Inv

-----------------------------------------------------------------------------
(***************************************************************************)
(* The chain's steps: notes come, the inputs of applied transactions are   *)
(* spent, tickets become balances.  The set of taken notes, and that of    *)
(* live pools, do not grow.                                                *)
(***************************************************************************)
LEMMA WorldStep ==
  ASSUME Inv, Grows, Live' \subseteq Live, Taken' \subseteq Taken, Owned(tree, floor)',
         inbox' \subseteq inbox, TypeOK',
         UNCHANGED <<net, file, floor, backup, early, job, public, lost>>,
         ~lost => Disjoint', RefusedOnlyAfterLoss'
  PROVE  Inv'
<1>1. TypeOK
  BY DEF Inv
<1>2. file \in WalletFile /\ backup \in WalletFile /\ job \in Job
  BY <1>1 DEF TypeOK
<1>3. Fits(file, floor, Open(job))'
  BY FileStays DEF Open
<1>4. Fits(backup, floor, early)'
  BY BackupStays
<1>5. JobFits(job, file, floor)'
  BY <1>2, JobStable DEF Inv
<1>6. Known(floor)'
  BY DEF Inv, Known, Owned
<1>7. Ahead(file)'
  BY DEF Inv, Ahead
<1> QED BY <1>3, <1>4, <1>5, <1>6, <1>7 DEF Inv

\* Appending notes.
LEMMA Appended ==
  ASSUME NEW s \in Seq(Leaves), NEW t \in Seq(Leaves), NEW fl, Owned(s, fl), Owned(t, fl)
  PROVE  /\ s \o t \in Seq(Leaves) /\ Len(s) <= Len(s \o t)
         /\ \A i \in 1..Len(s) : (s \o t)[i] = s[i]
         /\ Owned(s \o t, fl)
<1>1. s \o t \in Seq(Leaves) /\ Len(s \o t) = Len(s) + Len(t)
      /\ Len(s) \in Nat /\ Len(t) \in Nat
  OBVIOUS
<1>2. \A i \in 1..(Len(s) + Len(t)) :
        (s \o t)[i] = IF i <= Len(s) THEN s[i] ELSE t[i - Len(s)]
  OBVIOUS
<1>3. Owned(s \o t, fl)
  <2> SUFFICES ASSUME NEW i \in 1..(Len(s) + Len(t)) PROVE (s \o t)[i].to < fl.addr
    BY <1>1 DEF Owned
  <2>1. CASE i <= Len(s)
    BY <1>1, <1>2, <2>1 DEF Owned
  <2>2. CASE ~(i <= Len(s))
    <3>1. i - Len(s) \in 1..Len(t)
      BY <1>1, <2>2
    <3> QED BY <1>2, <2>2, <3>1 DEF Owned
  <2> QED BY <2>1, <2>2
<1> QED BY <1>1, <1>2, <1>3

\* What applying a transaction does to the chain.
LEMMA Applied ==
  ASSUME TypeOK, NEW t \in Transaction, Owned(tree, floor), Owned(t.outputs, floor),
         Applicable(t), Apply(t)
  PROVE  /\ Grows /\ Owned(tree', floor)
         /\ spent' = spent \cup t.inputs /\ spent' \in SUBSET Nat
         /\ balance' \in [Pool -> Nat] /\ \A p \in Pool : balance'[p] <= balance[p]
         /\ conflict' = conflict
<1>1. tree' = tree \o t.outputs /\ spent' = spent \cup t.inputs /\ conflict' = conflict
      /\ balance' = [p \in Pool |-> balance[p] - IF p = t.pool THEN t.draw ELSE 0]
  BY DEF Apply
<1>2. tree \in Seq(Leaves) /\ t.outputs \in Seq(Leaves) /\ t.inputs \in SUBSET Nat
      /\ spent \in SUBSET Nat /\ t.draw \in Nat /\ balance \in [Pool -> Nat]
  BY DEF TypeOK, Transaction
<1>3. Grows /\ Owned(tree', floor)
  BY <1>1, <1>2, Appended DEF Grows
<1>4. ASSUME NEW p \in Pool PROVE balance'[p] \in Nat /\ balance'[p] <= balance[p]
  <2>1. balance[p] \in Nat /\ balance'[p] = balance[p] - IF p = t.pool THEN t.draw ELSE 0
    BY <1>1, <1>2
  <2>2. CASE p = t.pool
    <3>1. t.pool # NoPool
      BY <2>2 DEF Pool, NoPool, Other, Addr
    <3>2. balance[p] >= t.draw
      BY <2>2, <3>1 DEF Applicable
    <3> QED BY <1>2, <2>1, <2>2, <3>2
  <2>3. CASE p # t.pool
    BY <2>1, <2>3
  <2> QED BY <2>2, <2>3
<1>5. balance' \in [Pool -> Nat]
  BY <1>1, <1>4
<1> QED BY <1>1, <1>2, <1>3, <1>4, <1>5

LEMMA Refused ==
  ASSUME NEW t, ~Applicable(t), Apply(t)
  PROVE  UNCHANGED chain /\ conflict' = (conflict \/ t.inputs \cap spent # {})
BY DEF Apply

LEMMA DeliverStep ==
  ASSUME Inv, NEW t \in inbox, Deliver(t)
  PROVE  Inv'
<1>1. TypeOK /\ t \in Transaction /\ t.inputs \in SUBSET Nat
  BY DEF Inv, TypeOK, Transaction
<1>2. /\ inbox' = inbox \ {t}
      /\ UNCHANGED <<net, tickets, file, floor, backup, early, job, events, public, lost>>
  BY DEF Deliver, setup
<1>3. Owned(tree, floor) /\ Owned(t.outputs, floor)
  BY DEF Inv, Known
<1>4. CASE Apply(t) /\ Applicable(t)
  <2>1. /\ Grows /\ Owned(tree', floor)
        /\ spent' = spent \cup t.inputs /\ spent' \in SUBSET Nat
        /\ balance' \in [Pool -> Nat] /\ \A p \in Pool : balance'[p] <= balance[p]
        /\ conflict' = conflict
    BY <1>1, <1>3, <1>4, Applied
  <2>2. TypeOK'
    BY <1>1, <1>2, <2>1 DEF TypeOK, Grows
  <2>3. Live' \subseteq Live
    BY <1>1, <1>2, <2>1 DEF Live, TypeOK
  <2>4. Taken' \subseteq Taken
    BY <1>2, <2>1 DEF Taken
  <2>5. ~lost => Disjoint'
    BY <1>2, <2>1 DEF Inv, Disjoint
  <2>6. RefusedOnlyAfterLoss'
    BY <1>2, <2>1 DEF Inv, RefusedOnlyAfterLoss
  <2>7. Owned(tree, floor)'
    BY <1>2, <2>1
  <2> QED BY <1>2, <2>1, <2>2, <2>3, <2>4, <2>5, <2>6, <2>7, WorldStep
<1>5. CASE UNCHANGED chain /\ (conflict' = conflict \/ (Apply(t) /\ ~Applicable(t)))
  <2>1. UNCHANGED <<tree, spent, balance>>
    BY <1>5 DEF chain
  <2>2. Grows
    BY <1>1, <2>1 DEF Grows, TypeOK
  <2>3. TypeOK'
    BY <1>1, <1>2, <2>1 DEF TypeOK
  <2>4. Live' \subseteq Live /\ Taken' \subseteq Taken
    BY <1>2, <2>1 DEF Live, Taken
  <2>5. ~lost => Disjoint'
    BY <1>2, <2>1 DEF Inv, Disjoint
  <2>6. RefusedOnlyAfterLoss'
    <3>1. ~lost => t.inputs \cap spent = {}
      BY DEF Inv, Disjoint
    <3>2. ~lost /\ conflict' => conflict
      BY <1>5, <3>1, Refused
    <3> QED BY <1>2, <3>2 DEF Inv, RefusedOnlyAfterLoss
  <2>7. Owned(tree, floor)'
    BY <1>2, <1>3, <2>1
  <2> QED BY <1>2, <2>2, <2>3, <2>4, <2>5, <2>6, <2>7, WorldStep
<1> QED BY <1>4, <1>5, Refused DEF Deliver

LEMMA TicketArrivesStep ==
  ASSUME Inv, NEW p \in tickets, TicketArrives(p)
  PROVE  Inv'
<1>1. TypeOK /\ p \in Pool
  BY DEF Inv, TypeOK
<1>2. /\ tickets' = tickets \ {p}
      /\ UNCHANGED <<net, tree, spent, inbox, file, floor, backup, early, job, events, public,
                     lost, conflict>>
  BY DEF TicketArrives, ghosts, setup
<1>3. balance' \in [Pool -> Nat] /\ \A q \in Pool : q # p => balance'[q] = balance[q]
  <2>1. balance \in [Pool -> Nat] /\ balance[p] + Ticket \in Nat
    BY <1>1, WalletAssumption DEF TypeOK
  <2>2. balance' = [balance EXCEPT ![p] = balance[p] + Ticket] \/ balance' = balance
    BY DEF TicketArrives
  <2> QED BY <1>1, <2>1, <2>2
<1>4. Grows
  BY <1>1, <1>2 DEF Grows, TypeOK
<1>5. TypeOK'
  BY <1>1, <1>2, <1>3 DEF TypeOK
<1>6. Live' \subseteq Live /\ Taken' \subseteq Taken
  BY <1>1, <1>2, <1>3 DEF Live, Taken
<1>7. ~lost => Disjoint'
  BY <1>2 DEF Inv, Disjoint
<1>8. RefusedOnlyAfterLoss'
  BY <1>2 DEF Inv, RefusedOnlyAfterLoss
<1>9. Owned(tree, floor)'
  BY <1>2 DEF Inv, Known, Owned
<1> QED BY <1>2, <1>4, <1>5, <1>6, <1>7, <1>8, <1>9, WorldStep

LEMMA GiftStep ==
  ASSUME Inv, NEW a \in public.addresses, Gift(a)
  PROVE  Inv'
<1>1. TypeOK /\ a \in Nat /\ a < floor.addr /\ Owned(tree, floor)
  BY DEF Inv, TypeOK, Known
<1>2. /\ tree' = Append(tree, Leaf(a, Amount + Fee, NoCm))
      /\ UNCHANGED <<net, spent, balance, inbox, tickets, file, floor, backup, early, job, public,
                     lost, conflict>>
      /\ events' = events + 1
  BY DEF Gift, Event, ghosts, setup
<1>3. Leaf(a, Amount + Fee, NoCm) \in Leaves
  BY <1>1, WalletAssumption DEF Leaf, Leaves, NoCm
<1>4. /\ tree' \in Seq(Leaves) /\ Len(tree') = Len(tree) + 1 /\ Len(tree) \in Nat
      /\ \A i \in 1..Len(tree) : tree'[i] = tree[i]
      /\ tree'[Len(tree) + 1].to = a
  BY <1>1, <1>2, <1>3 DEF TypeOK, Leaf
<1>5. Grows
  BY <1>1, <1>2, <1>4 DEF Grows, TypeOK
<1>6. TypeOK'
  BY <1>1, <1>2, <1>4 DEF TypeOK
<1>7. Live' \subseteq Live /\ Taken' \subseteq Taken
  BY <1>2 DEF Live, Taken
<1>8. Owned(tree, floor)'
  BY <1>1, <1>2, <1>4 DEF Owned
<1>9. ~lost => Disjoint'
  BY <1>2 DEF Inv, Disjoint
<1>10. RefusedOnlyAfterLoss'
  BY <1>2 DEF Inv, RefusedOnlyAfterLoss
<1> QED BY <1>2, <1>5, <1>6, <1>7, <1>8, <1>9, <1>10, WorldStep

LEMMA TopUpStep ==
  ASSUME Inv, NEW p \in public.pools, TopUp(p)
  PROVE  Inv'
<1>1. TypeOK /\ p \in Pool
  BY DEF Inv, TypeOK
<1>2. /\ tickets' = tickets \cup {p} /\ events' = events + 1
      /\ UNCHANGED <<net, tree, spent, balance, inbox, file, floor, backup, early, job, public,
                     lost, conflict>>
  BY DEF TopUp, Event, ghosts, chain, setup
<1>3. Grows
  BY <1>1, <1>2 DEF Grows, TypeOK
<1>4. TypeOK'
  BY <1>1, <1>2 DEF TypeOK
<1>5. Live' \subseteq Live /\ Taken' \subseteq Taken
  BY <1>1, <1>2 DEF Live, Taken
<1>6. ~lost => Disjoint'
  BY <1>2 DEF Inv, Disjoint
<1>7. RefusedOnlyAfterLoss'
  BY <1>2 DEF Inv, RefusedOnlyAfterLoss
<1>8. Owned(tree, floor)'
  BY <1>2 DEF Inv, Known, Owned
<1> QED BY <1>2, <1>3, <1>4, <1>5, <1>6, <1>7, <1>8, WorldStep

-----------------------------------------------------------------------------
(***************************************************************************)
(* Saving.  A higher floor leaves what fits: addresses stay known, and     *)
(* fewer files load.                                                       *)
(***************************************************************************)
LEMMA LeavesTo ==
  ASSUME NEW s \in Seq(Leaves), NEW i \in DOMAIN s
  PROVE  s[i].to \in Int
<1>1. s[i] \in Leaves
  OBVIOUS
<1> QED BY <1>1 DEF Leaves, Other

LEMMA FileTypes ==
  ASSUME NEW w \in WalletFile
  PROVE  w.addr \in Int /\ w.keys \in Nat /\ w.scanned \in Nat /\ w.nonce \in Nat
BY DEF WalletFile

LEMMA KnownHigher ==
  ASSUME TypeOK, NEW fl \in Floor, fl.addr >= floor.addr, Known(floor)
  PROVE  Known(fl)
<1>1. floor.addr \in Nat /\ fl.addr \in Nat
  BY DEF TypeOK, Floor
<1>2. ASSUME NEW s \in Seq(Leaves), Owned(s, floor) PROVE Owned(s, fl)
  <2>1. \A i \in DOMAIN s : s[i].to \in Int
    BY LeavesTo
  <2> QED BY <1>1, <1>2, <2>1 DEF Owned
<1>3. \A t \in inbox : t.outputs \in Seq(Leaves)
  BY DEF TypeOK, Transaction
<1>4. \A p \in Live : p[1] \in Int
  BY DEF TypeOK, Live, Pool, Addr
<1>5. tree \in Seq(Leaves) /\ \A a \in public.addresses : a \in Nat
  BY DEF TypeOK
<1> QED BY <1>1, <1>2, <1>3, <1>4, <1>5 DEF Known

LEMMA FitsHigher ==
  ASSUME TypeOK, NEW fl \in Floor, fl.addr >= floor.addr, fl.keys >= floor.keys,
         NEW w \in WalletFile, NEW open, Fits(w, floor, open)
  PROVE  Fits(w, fl, open)
<1>1. /\ floor.addr \in Nat /\ fl.addr \in Nat /\ floor.keys \in Nat /\ fl.keys \in Nat
      /\ w.addr \in Int /\ w.keys \in Nat
  BY DEF TypeOK, Floor, WalletFile
<1>2. Loads(w, fl) => Loads(w, floor)
  BY <1>1 DEF Loads
<1>3. \A d \in w.deposits : d.pool[1] \in Int
  BY DEF WalletFile, PendingDeposit, Pool, Addr
<1>4. Entries(w, fl)
  BY <1>1, <1>3 DEF Fits, Entries
<1> QED BY <1>2, <1>4 DEF Fits

\* A step that leaves the chain alone is a case of the facts above.
LEMMA Still ==
  ASSUME TypeOK, UNCHANGED <<tree, spent, balance, inbox, tickets, public, lost>>
  PROVE  Grows /\ Live' \subseteq Live /\ Taken' \subseteq Taken /\ (lost => lost')
BY DEF TypeOK, Grows, Live, Taken

LEMMA KnownStill ==
  ASSUME UNCHANGED <<tree, spent, balance, inbox, tickets, public, lost>>, NEW fl, Known(fl)
  PROVE  Known(fl)'
BY DEF Known, Live, Owned

\* A save of a file that is ahead, with its notes, entries and records right, for a
\* command that goes on at a place which fits it.
LEMMA SaveStep ==
  ASSUME Inv, NEW w \in WalletFile, NEW next \in Job, save_wallet(w, next),
         UNCHANGED <<setup, chain, outside, backup, early, public, ghosts>>, events' \in Nat,
         Loads(file, floor), Open(job) = {}, Open(next) = {},
         w.addr >= file.addr, w.keys >= file.keys,
         Content(w), Entries(w, floor), Ready(w, {}),
         JobFits(next, w, wallet_xmss_floor(w))
  PROVE  Inv'
<1> DEFINE fl == wallet_xmss_floor(w)
<1>1. TypeOK
  BY DEF Inv
<1>2. UNCHANGED <<net, tree, spent, balance, inbox, tickets, backup, early, public, lost, conflict>>
  BY DEF setup, chain, outside, ghosts
<1>3. /\ file.addr \in Int /\ file.keys \in Nat /\ w.addr \in Int /\ w.keys \in Nat
      /\ backup.addr \in Int /\ backup.keys \in Nat
      /\ floor.addr \in Nat \ {0} /\ floor.keys \in Nat
      /\ file \in WalletFile /\ backup \in WalletFile /\ job \in Job /\ floor \in Floor
  BY <1>1, FileTypes DEF TypeOK, Floor
<1>4. fl \in Floor /\ fl.addr >= floor.addr /\ fl.keys >= floor.keys
  BY <1>3 DEF wallet_xmss_floor, Floor, Loads
<1>5. Ahead(w) /\ Ahead(file)
  BY <1>3 DEF Inv, Ahead
<1>6. (~lost => Disjoint)' /\ RefusedOnlyAfterLoss'
  BY <1>2 DEF Inv, Disjoint, RefusedOnlyAfterLoss
<1>7. Grows /\ Live' \subseteq Live /\ Taken' \subseteq Taken /\ (lost => lost')
  BY <1>1, <1>2, Still
<1>8. Fits(w, floor, {})
  BY DEF Fits
<1>9. Fits(backup, floor, early) /\ Fits(file, floor, {})
  BY DEF Inv
<1> HIDE DEF fl
<1>10. Fits(w, fl, {}) /\ Fits(backup, fl, early)
  BY <1>1, <1>3, <1>4, <1>8, <1>9, FitsHigher
<1>11. Known(floor) /\ Known(fl)
  BY <1>1, <1>4, KnownHigher DEF Inv
<1>12. CASE file' = w /\ floor' = fl /\ job' = next
  <2>1. TypeOK'
    BY <1>1, <1>2, <1>4, <1>12 DEF TypeOK
  <2>2. Fits(file, floor, Open(job))' /\ Fits(backup, floor, early)'
    <3>1. Open(job)' = {}
      BY <1>12 DEF Open
    <3>2. PICK e : e = early
      OBVIOUS
    <3>3. PICK b : b = backup
      OBVIOUS
    <3>4. Fits(w, fl, {})' /\ Fits(b, fl, e)'
      <4>1. PICK f : f = fl
        OBVIOUS
      <4>2. Fits(w, f, {})' /\ Fits(b, f, e)'
        BY <1>3, <1>7, <1>10, <3>2, <3>3, <4>1, FitsStable
      <4> QED BY <4>1, <4>2 DEF fl, wallet_xmss_floor
    <3> QED BY <1>2, <1>12, <3>1, <3>2, <3>3, <3>4 DEF fl, wallet_xmss_floor
  <2>3. JobFits(job, file, floor)'
    BY <1>2, <1>7, <1>12, JobStable DEF fl
  <2>4. Known(floor)'
    BY <1>2, <1>11, <1>12, KnownStill
  <2>5. Ahead(file)'
    BY <1>2, <1>5, <1>12 DEF Ahead
  <2> QED BY <1>6, <2>1, <2>2, <2>3, <2>4, <2>5 DEF Inv
<1>13. CASE file' \in {w, file} /\ floor' = floor /\ job' = Idle
  <2>1. TypeOK'
    BY <1>1, <1>2, <1>3, <1>13, IdleJob DEF TypeOK
  <2>2. Fits(w, floor, {})' /\ Fits(file, floor, {})' /\ Fits(backup, floor, early)'
    <3>1. PICK c : c = file
      OBVIOUS
    <3>2. PICK f : f = floor
      OBVIOUS
    <3>3. PICK b : b = backup
      OBVIOUS
    <3>4. PICK e : e = early
      OBVIOUS
    <3>5. Fits(w, f, {})' /\ Fits(c, f, {})' /\ Fits(b, f, e)'
      BY <1>3, <1>7, <1>8, <1>9, <3>1, <3>2, <3>3, <3>4, FitsStable
    <3> QED BY <1>2, <1>13, <3>1, <3>2, <3>3, <3>4, <3>5
  <2>3. JobFits(job, file, floor)'
    BY <1>13, IdleFitsNext
  <2>4. Known(floor)'
    BY <1>2, <1>11, <1>13, KnownStill
  <2>5. Ahead(file)'
    BY <1>2, <1>5, <1>13 DEF Ahead
  <2>6. Open(job)' = {}
    BY <1>13, IdleJob DEF Open
  <2> QED BY <1>6, <1>13, <2>1, <2>2, <2>3, <2>4, <2>5, <2>6 DEF Inv
<1> QED BY <1>12, <1>13 DEF save_wallet, fl

-----------------------------------------------------------------------------
(***************************************************************************)
(* The files that commands make.                                           *)
(***************************************************************************)
\* All that a file must have once every transaction is recorded.
Good(w) == Content(w) /\ Entries(w, floor) /\ Ready(w, {})

LEMMA FileGood ==
  ASSUME Inv, Loads(file, floor), Open(job) = {}
  PROVE  Good(file)
BY DEF Inv, Fits, Good

\* Only counters that name addresses and keys differ.
LEMMA CountersGood ==
  ASSUME NEW w \in WalletFile, Good(w), NEW u,
         u.notes = w.notes, u.scanned = w.scanned, u.pending = w.pending,
         u.deposits = w.deposits, u.nonce = w.nonce
  PROVE  Good(u)
BY DEF Good, Content, Entries, Ready, Records

\* A batch: the cursor moves, and every note it passes is looked at with all
\* addresses a note can have.
LEMMA BatchGood ==
  ASSUME TypeOK, Owned(tree, floor),
         NEW w \in WalletFile, Good(w), Loads(w, floor),
         NEW end \in Nat, w.scanned <= end, end <= Len(tree)
  PROVE  /\ recover_batch(w, end) \in WalletFile
         /\ Good(recover_batch(w, end))
         /\ recover_batch(w, end).addr = w.addr /\ recover_batch(w, end).keys = w.keys
         /\ recover_batch(w, end).scanned = end
         /\ \A gone : Unspent(1..w.scanned, gone) \subseteq w.notes =>
              Unspent(1..end, gone) \subseteq recover_batch(w, end).notes
<1> DEFINE new == {i \in fetch(w.scanned, end) : try_recover_note(w, i)}
           u == recover_batch(w, end)
<1>1. /\ u.notes = w.notes \cup new /\ u.scanned = end /\ u.addr = w.addr
      /\ u.keys = w.keys /\ u.pending = w.pending /\ u.deposits = w.deposits
      /\ u.nonce = w.nonce
  BY DEF recover_batch, WalletFile
<1>2. w.scanned \in Nat /\ w.addr \in Int /\ w.notes \in SUBSET Nat /\ floor.addr \in Nat
      /\ Len(tree) \in Nat
  BY DEF WalletFile, TypeOK, Floor
<1>3. u \in WalletFile
  <2>1. w.notes \cup new \in SUBSET Nat
    BY <1>2 DEF fetch
  <2> HIDE DEF new
  <2> QED BY <2>1 DEF recover_batch, new, WalletFile
<1>4. \A i \in 1..Len(tree) : tree[i].to # Other <=> try_recover_note(w, i)
  <2> SUFFICES ASSUME NEW i \in 1..Len(tree)
               PROVE  tree[i].to # Other <=> try_recover_note(w, i)
    OBVIOUS
  <2>1. tree[i] \in Leaves /\ tree[i].to < floor.addr
    BY DEF TypeOK, Owned
  <2>2. tree[i].to \in Nat \cup {-1}
    BY <2>1 DEF Leaves, Other
  <2> QED BY <1>2, <2>1, <2>2 DEF try_recover_note, Loads, Other
<1>5. \A i : i \in new <=> i \in (w.scanned + 1)..end /\ tree[i].to # Other
  BY <1>2, <1>4 DEF fetch
<1> HIDE DEF new, u
<1>6. ASSUME NEW gone, Unspent(1..w.scanned, gone) \subseteq w.notes
      PROVE  Unspent(1..end, gone) \subseteq u.notes
  <2> SUFFICES ASSUME NEW i \in 1..end, tree[i].to # Other, i \notin gone PROVE i \in u.notes
    BY DEF Unspent
  <2>1. CASE i <= w.scanned
    BY <1>1, <1>2, <1>6, <2>1 DEF Unspent
  <2>2. CASE ~(i <= w.scanned)
    BY <1>1, <1>2, <1>5, <2>2
  <2> QED BY <2>1, <2>2
<1>7. Content(u)
  <2>1. Unspent(1..end, spent) \subseteq u.notes
    BY <1>6 DEF Good, Content
  <2>2. u.notes \subseteq Unspent(1..end, {})
    BY <1>1, <1>2, <1>5 DEF Good, Content, Unspent
  <2> QED BY <1>1, <2>1, <2>2 DEF Content
<1>8. Ready(u, {})
  <2>1. ASSUME ~lost PROVE Records(u, {})
    <3>1. Taken \subseteq 1..w.scanned /\ Taken \cap w.notes \subseteq UNION w.pending
      BY <2>1 DEF Good, Ready, Records
    <3>2. Taken \cap new = {}
      BY <1>2, <1>5, <3>1
    <3>3. Taken \subseteq 1..end
      BY <1>2, <3>1
    <3> QED BY <1>1, <3>1, <3>2, <3>3 DEF Records
  <2> QED BY <1>1, <2>1 DEF Good, Ready
<1>9. Entries(u, floor)
  BY <1>1 DEF Good, Entries
<1> QED BY <1>1, <1>3, <1>6, <1>7, <1>8, <1>9 DEF Good, u

\* The end of a scan: what is dropped is spent at some head that was read.
LEMMA FinalizeGood ==
  ASSUME NEW w \in WalletFile, Good(w), NEW cms, NEW head, head.spent \subseteq spent
  PROVE  /\ finalize(w, cms, head) \in WalletFile
         /\ Good(finalize(w, cms, head))
         /\ finalize(w, cms, head).addr = w.addr /\ finalize(w, cms, head).keys = w.keys
         /\ finalize(w, cms, head).notes = w.notes \ head.spent
<1> DEFINE u == finalize(w, cms, head)
           gone(d) == head.balance[d.pool] = 0 /\ d.cm \in cms \cup Cms(w.notes)
<1>1. /\ u.notes = w.notes \ head.spent /\ u.scanned = w.scanned /\ u.addr = w.addr
      /\ u.keys = w.keys /\ u.nonce = w.nonce
      /\ u.pending = {p \in w.pending : ~ p \subseteq head.spent}
      /\ u.deposits = {d \in w.deposits : ~gone(d)}
  BY DEF finalize, WalletFile
<1> HIDE DEF gone
<1>2. u \in WalletFile
  BY DEF finalize, WalletFile
<1> HIDE DEF u
<1>3. Content(u)
  BY <1>1 DEF Good, Content, Unspent
<1>4. Entries(u, floor)
  BY <1>1 DEF Good, Entries
<1>5. Ready(u, {})
  <2>1. ASSUME ~lost PROVE Records(u, {})
    <3>1. Taken \subseteq 1..w.scanned /\ Taken \cap w.notes \subseteq UNION w.pending
      BY <2>1 DEF Good, Ready, Records
    <3>2. Taken \cap u.notes \subseteq UNION u.pending
      BY <1>1, <3>1
    <3> QED BY <1>1, <3>1, <3>2 DEF Records
  <2> QED BY <1>1, <2>1 DEF Good, Ready
<1> QED BY <1>1, <1>2, <1>3, <1>4, <1>5 DEF Good, u

\* The selected notes are candidates.
LEMMA SelectedNotes ==
  ASSUME NEW w, NEW need
  PROVE  select_notes(w, need) \subseteq w.notes \ UNION w.pending
BY DEF select_notes, Prefix

-----------------------------------------------------------------------------
(***************************************************************************)
(* Steps of a command that only move it on.                                *)
(***************************************************************************)
LEMMA JobStep ==
  ASSUME Inv, NEW next \in Job, job' = next, Open(next) = Open(job),
         JobFits(next, file, floor),
         UNCHANGED <<setup, chain, outside, file, floor, backup, early, events, public, ghosts>>
  PROVE  Inv'
<1>1. TypeOK /\ UNCHANGED <<net, tree, spent, balance, inbox, tickets, public, lost, conflict>>
  BY DEF Inv, setup, chain, outside, ghosts
<1>2. Grows /\ Live' \subseteq Live /\ Taken' \subseteq Taken /\ (lost => lost')
  BY <1>1, Still
<1>3. file \in WalletFile /\ backup \in WalletFile /\ floor \in Floor
  BY <1>1 DEF TypeOK
<1>4. TypeOK'
  BY <1>1 DEF TypeOK
<1>5. Open(job)' = Open(job)
  BY DEF Open
<1>6. Fits(file, floor, Open(job))' /\ Fits(backup, floor, early)'
  BY <1>2, <1>5, FileStays, BackupStays
<1>7. JobFits(job, file, floor)'
  BY <1>1, <1>2, <1>3, JobStable
<1>8. Known(floor)'
  BY <1>1, KnownStill DEF Inv
<1>9. (~lost => Disjoint)' /\ RefusedOnlyAfterLoss' /\ Ahead(file)'
  BY <1>1 DEF Inv, Disjoint, RefusedOnlyAfterLoss, Ahead
<1> QED BY <1>4, <1>6, <1>7, <1>8, <1>9 DEF Inv

LEMMA StartSyncStep ==
  ASSUME Inv, StartSync
  PROVE  Inv'
<1> DEFINE next == [Idle EXCEPT !.pc = "sync", !.pin = PinnedHead, !.from = file.scanned]
<1>1. TypeOK /\ job.pc = "idle" /\ Loads(file, floor) /\ file.scanned <= Len(tree)
  BY DEF Inv, StartSync, Start, load_wallet, Loads
<1>2. PinnedHead \in HeadState /\ PinnedHead.spent = spent /\ PinnedHead.size = Len(tree)
  BY <1>1 DEF PinnedHead, HeadState, TypeOK
<1>3. next \in Job /\ next.pc = "sync" /\ next.pin = PinnedHead
  BY <1>1, <1>2, IdleJob DEF Job, TypeOK, WalletFile, Reading
<1>4. Open(next) = {} /\ Open(job) = {}
  BY <1>1, <1>3 DEF Open
<1>5. Unspent(1..file.scanned, spent) \subseteq file.notes
  BY DEF Inv, Fits, Content
<1>6. Len(tree) <= Len(tree)
  BY <1>1 DEF TypeOK
<1> HIDE DEF next
<1>7. JobFits(next, file, floor)
  BY <1>1, <1>2, <1>3, <1>5, <1>6 DEF JobFits, Saved, Spending
<1>8. /\ job' = next
      /\ UNCHANGED <<setup, chain, outside, file, floor, backup, early, events, public, ghosts>>
  BY DEF StartSync, next
<1> QED BY <1>3, <1>4, <1>7, <1>8, JobStep

LEMMA StartScanStep ==
  ASSUME Inv, StartScan
  PROVE  Inv'
<1> DEFINE next == [Idle EXCEPT !.pc = "scan", !.pin.size = notes_handler,
                                !.from = file.scanned]
<1>1. TypeOK /\ job.pc = "idle" /\ Loads(file, floor)
  BY DEF Inv, StartScan, Start, load_wallet, Loads
<1>2. Len(tree) \in Nat /\ Len(tree) <= Len(tree) /\ file.scanned \in Nat
  BY <1>1 DEF TypeOK, WalletFile
<1>3. next \in Job /\ next.pc = "scan" /\ next.pin.size = Len(tree)
  BY <1>2, IdleJob DEF Job, HeadState, Reading, notes_handler
<1>4. Open(next) = {} /\ Open(job) = {}
  BY <1>1, <1>3 DEF Open
<1> HIDE DEF next
<1>5. JobFits(next, file, floor)
  BY <1>1, <1>2, <1>3 DEF JobFits, Saved, Spending
<1>6. /\ job' = next
      /\ UNCHANGED <<setup, chain, outside, file, floor, backup, early, events, public, ghosts>>
  BY DEF StartScan, next
<1> QED BY <1>3, <1>4, <1>5, <1>6, JobStep

LEMMA WaitStep ==
  ASSUME Inv, wait_for_operator_terminal
  PROVE  Inv'
<1>1. TypeOK /\ job.pc = "wait" /\ job \in Job
  BY DEF Inv, wait_for_operator_terminal, TypeOK
<1>2. Becomes("record") \in Job /\ Becomes("record").pc = "record"
      /\ Becomes("record").tx = job.tx
  BY <1>1 DEF Becomes, Job, Saved, Spending
<1>3. Open(Becomes("record")) = Open(job)
  BY <1>1, <1>2 DEF Open
<1>4. JobFits(Becomes("record"), file, floor)
  BY <1>1, <1>2 DEF Inv, JobFits, Saved, Spending
<1>5. /\ job' = Becomes("record")
      /\ UNCHANGED <<setup, chain, outside, file, floor, backup, early, events, public, ghosts>>
  BY DEF wait_for_operator_terminal
<1> QED BY <1>2, <1>3, <1>4, <1>5, JobStep

\* The command ends: the inputs that were open are lost, or there were none.
LEMMA CommandEndsStep ==
  ASSUME Inv, CommandEnds
  PROVE  Inv'
<1>1. TypeOK /\ job \in Job
  BY DEF Inv, TypeOK
<1>2. /\ job' = Idle /\ lost' = (lost \/ Open(job) # {})
      /\ UNCHANGED <<tree, spent, balance, inbox, tickets, public, conflict, file, floor,
                     backup, early, events>>
  BY DEF CommandEnds, Open, chain, outside
<1>3. Grows /\ Live' \subseteq Live /\ Taken' \subseteq Taken /\ (lost => lost')
  <2>1. Grows
    BY <1>1, <1>2 DEF Grows, TypeOK
  <2>2. Live' \subseteq Live /\ Taken' \subseteq Taken
    BY <1>2 DEF Live, Taken
  <2>3. lost => lost'
    BY <1>2
  <2> QED BY <2>1, <2>2, <2>3
<1>4. TypeOK'
  BY <1>1, <1>2, IdleJob DEF TypeOK
<1>5. Fits(file, floor, Open(job))'
  <2>1. Content(file)'
    BY <1>1, <1>2, <1>3, ContentStable DEF Inv, Fits, TypeOK
  <2>2. Open(job)' = {}
    BY <1>2, IdleJob DEF Open
  <2>3. Loads(file, floor)' => Ready(file, {})'
    BY <1>2, <1>3 DEF Inv, Fits, Ready, Records, Loads
  <2>4. Entries(file, floor)'
    BY <1>2 DEF Inv, Fits, Entries
  <2> QED BY <2>1, <2>2, <2>3, <2>4 DEF Fits
<1>6. Fits(backup, floor, early)'
  BY <1>2, <1>3, BackupStays
<1>7. JobFits(job, file, floor)'
  BY <1>2, IdleFitsNext
<1>8. Known(floor)'
  BY <1>2 DEF Inv, Known, Live, Owned
<1>9. (~lost => Disjoint)' /\ RefusedOnlyAfterLoss' /\ Ahead(file)'
  BY <1>2 DEF Inv, Disjoint, RefusedOnlyAfterLoss, Ahead
<1> QED BY <1>4, <1>5, <1>6, <1>7, <1>8, <1>9 DEF Inv

-----------------------------------------------------------------------------
(***************************************************************************)
(* Scanning.                                                               *)
(***************************************************************************)
LEMMA SyncBatchStep ==
  ASSUME Inv, SyncBatch
  PROVE  Inv'
<1> DEFINE end == Min({file.scanned + CheckpointEvery, job.pin.size})
           w == recover_batch(file, end)
<1>1. TypeOK /\ job \in Job /\ file \in WalletFile /\ job.pc = "sync"
      /\ file.scanned < job.pin.size
  BY DEF Inv, TypeOK, SyncBatch
<1>2. /\ Loads(file, floor) /\ Open(job) = {}
      /\ job.pin.spent \subseteq spent /\ job.pin.size <= Len(tree)
      /\ Unspent(1..file.scanned, job.pin.spent) \subseteq file.notes
  BY <1>1 DEF Inv, JobFits, Open
<1>3. file.scanned \in Nat /\ job.pin.size \in Nat /\ Len(tree) \in Nat
  BY <1>1 DEF TypeOK, WalletFile, Job, HeadState
<1>4. end \in Nat /\ file.scanned <= end /\ end <= job.pin.size /\ end <= Len(tree)
  <2>1. /\ file.scanned + CheckpointEvery \in Nat
        /\ file.scanned <= file.scanned + CheckpointEvery
    BY <1>3, WalletAssumption
  <2>2. \A a, b \in Nat : Min({a, b}) \in {a, b} /\ Min({a, b}) <= b
    BY DEF Min
  <2> HIDE DEF end
  <2> QED BY <1>1, <1>2, <1>3, <2>1, <2>2 DEF end
<1> HIDE DEF end
<1>5. Good(file) /\ Owned(tree, floor)
  BY <1>2, FileGood DEF Inv, Known
<1>6. /\ w \in WalletFile /\ Good(w) /\ w.addr = file.addr /\ w.keys = file.keys
      /\ w.scanned = end
      /\ Unspent(1..end, job.pin.spent) \subseteq w.notes
  BY <1>1, <1>2, <1>4, <1>5, BatchGood
<1> HIDE DEF w
<1>7. PICK next : next \in {Becomes("sync"), Becomes("yield"), Idle} /\ save_wallet(w, next)
  BY DEF SyncBatch, w, end, AfterCheckpoint
<1>8. next \in Job /\ Open(next) = {} /\ JobFits(next, w, wallet_xmss_floor(w))
  <2>1. CASE next \in {Becomes("sync"), Becomes("yield")}
    <3>1. next \in Job /\ next.pc \in {"sync", "yield"} /\ next.pin = job.pin
      BY <1>1, <2>1 DEF Becomes, Job, Reading
    <3>2. Loads(w, wallet_xmss_floor(w))
      BY <1>6 DEF Loads, wallet_xmss_floor, WalletFile
    <3> QED BY <1>2, <1>4, <1>6, <3>1, <3>2 DEF JobFits, Open, Saved, Spending
  <2>2. CASE next = Idle
    BY <2>2, IdleJob, IdleFits
  <2> QED BY <1>7, <2>1, <2>2
<1>9. UNCHANGED <<setup, chain, outside, backup, early, public, ghosts>> /\ events' \in Nat
  BY <1>1 DEF SyncBatch, TypeOK
<1>10. w.addr >= file.addr /\ w.keys >= file.keys
  BY <1>1, <1>6 DEF WalletFile
<1> QED BY <1>2, <1>6, <1>7, <1>8, <1>9, <1>10, SaveStep DEF Good

\* A save that ends its command.
LEMMA LastSave ==
  ASSUME Inv, NEW w \in WalletFile, save_wallet(w, Idle), Loads(file, floor), Open(job) = {},
         w.addr = file.addr, w.keys = file.keys, Good(w),
         UNCHANGED <<setup, chain, outside, backup, early, events, public, ghosts>>
  PROVE  Inv'
<1>1. w.addr >= file.addr /\ w.keys >= file.keys /\ events' \in Nat
  BY DEF WalletFile, Inv, TypeOK
<1> QED BY <1>1, IdleJob, IdleFits, SaveStep DEF Good

LEMMA SyncFinalizeStep ==
  ASSUME Inv, SyncFinalize
  PROVE  Inv'
<1> DEFINE w == finalize(file, Cms(fetch(job.from, file.scanned)), job.pin)
<1>1. file \in WalletFile /\ job.pc \in {"sync", "yield"}
  BY DEF Inv, TypeOK, SyncFinalize
<1>2. Loads(file, floor) /\ Open(job) = {} /\ job.pin.spent \subseteq spent
  BY <1>1 DEF Inv, JobFits, Open
<1>3. Good(file)
  BY <1>2, FileGood
<1>4. w \in WalletFile /\ Good(w) /\ w.addr = file.addr /\ w.keys = file.keys
  BY <1>1, <1>2, <1>3, FinalizeGood
<1>5. /\ save_wallet(w, Idle)
      /\ UNCHANGED <<setup, chain, outside, backup, early, events, public, ghosts>>
  BY DEF SyncFinalize
<1> HIDE DEF w
<1> QED BY <1>2, <1>4, <1>5, LastSave

LEMMA ScanStep ==
  ASSUME Inv, apply_scan_feed
  PROVE  Inv'
<1> DEFINE end == Max({job.pin.size, file.scanned})
           head == [spent |-> nullifiers_handler, balance |-> fetch_pool_balances_http]
           u == recover_batch(file, end)
           w == finalize(u, Cms(fetch(job.from, end)), head)
<1>1. TypeOK /\ job \in Job /\ file \in WalletFile /\ job.pc = "scan"
  BY DEF Inv, TypeOK, apply_scan_feed
<1>2. Loads(file, floor) /\ Open(job) = {} /\ job.pin.size <= Len(tree)
  BY <1>1 DEF Inv, JobFits, Open
<1>3. file.scanned \in Nat /\ job.pin.size \in Nat /\ Len(tree) \in Nat
      /\ file.scanned <= Len(tree)
  BY <1>1 DEF TypeOK, WalletFile, Job, HeadState, Inv, Fits, Content
<1>4. end \in Nat /\ file.scanned <= end /\ end <= Len(tree)
  <2>1. \A a, b \in Nat : Max({a, b}) \in {a, b} /\ b <= Max({a, b})
    BY DEF Max
  <2> QED BY <1>2, <1>3, <2>1
<1>5. Good(file) /\ Owned(tree, floor)
  BY <1>2, FileGood DEF Inv, Known
<1>6. head.spent \subseteq spent
  BY DEF nullifiers_handler
<1>7. /\ save_wallet(w, Idle)
      /\ UNCHANGED <<setup, chain, outside, backup, early, events, public, ghosts>>
  BY DEF apply_scan_feed
<1> HIDE DEF end, head
<1>8. u \in WalletFile /\ Good(u) /\ u.addr = file.addr /\ u.keys = file.keys
  BY <1>1, <1>2, <1>4, <1>5, BatchGood
<1> HIDE DEF u
<1>9. w \in WalletFile /\ Good(w) /\ w.addr = file.addr /\ w.keys = file.keys
  BY <1>6, <1>8, FinalizeGood
<1> HIDE DEF w
<1> QED BY <1>2, <1>7, <1>9, LastSave

-----------------------------------------------------------------------------
(***************************************************************************)
(* Spending.                                                               *)
(***************************************************************************)
\* The inputs of a spend are notes of the tree that no other transaction takes.
LEMMA Inputs ==
  ASSUME Inv, Loads(file, floor), Open(job) = {},
         NEW S, S \subseteq file.notes \ UNION file.pending
  PROVE  /\ S \in SUBSET Nat /\ S \subseteq 1..file.scanned
         /\ IsFiniteSet(S) /\ ValueOf(S) \in Int
         /\ ~lost => S \cap Taken = {}
<1>1. TypeOK /\ Good(file)
  BY FileGood DEF Inv
<1>2. file.notes \in SUBSET Nat /\ file.scanned \in Nat /\ Len(tree) \in Nat
      /\ tree \in Seq(Leaves)
  BY <1>1 DEF TypeOK, WalletFile
<1>3. S \subseteq 1..file.scanned /\ file.scanned <= Len(tree)
  BY <1>1 DEF Good, Content, Unspent
<1>4. IsFiniteSet(S)
  <2>1. IsFiniteSet(1..file.scanned)
    BY <1>2, FS_Interval
  <2> QED BY <1>3, <2>1, FS_Subset
<1>5. \A i \in S : tree[i].v \in Int
  <2>1. \A i \in S : i \in 1..Len(tree)
    BY <1>2, <1>3
  <2>2. \A i \in 1..Len(tree) : tree[i] \in Leaves
    BY <1>2
  <2> QED BY <2>1, <2>2 DEF Leaves
<1>6. ValueOf(S) \in Int
  BY <1>4, <1>5, SumIsInt
<1>7. ~lost => S \cap Taken = {}
  BY <1>1 DEF Good, Ready, Records
<1> QED BY <1>2, <1>3, <1>4, <1>6, <1>7

\* A spend that may have a new address for its change.
LEMMA PersistStep ==
  ASSUME Inv, job.pc = "idle", Loads(file, floor), NEW k \in {0, 1},
         NEW S, S \subseteq file.notes \ UNION file.pending,
         NEW outputs \in Seq(Leaves), \A i \in DOMAIN outputs : outputs[i].to < file.addr + k,
         persist_wallet_and_make_proof([file EXCEPT !.addr = @ + k], S, outputs)
  PROVE  Inv'
<1> DEFINE w == [[file EXCEPT !.addr = @ + k] EXCEPT !.keys = @ + Cardinality(S)]
           tx == Tx(events', S, NoPool, 0, outputs)
           next == [Idle EXCEPT !.pc = "prove", !.tx = tx]
<1>1. TypeOK /\ file \in WalletFile /\ backup \in WalletFile /\ events \in Nat
  BY DEF Inv, TypeOK
<1>2. Open(job) = {}
  BY DEF Open
<1>3. /\ S \in SUBSET Nat /\ S \subseteq 1..file.scanned
      /\ IsFiniteSet(S) /\ (~lost => S \cap Taken = {})
  BY <1>2, Inputs
<1>4. /\ S # {} /\ events' = events + 1 /\ save_wallet(w, next)
      /\ UNCHANGED <<setup, chain, outside, backup, early, public, ghosts>>
  BY DEF persist_wallet_and_make_proof, Event
<1>5. Cardinality(S) \in Nat /\ Cardinality(S) # 0
  BY <1>3, <1>4, FS_CardinalityType, FS_EmptySet
<1>6. file.addr \in Nat /\ file.keys \in Nat /\ backup.addr \in Int /\ backup.keys \in Nat
      /\ floor.addr \in Nat \ {0}
  BY <1>1 DEF TypeOK, WalletFile, Floor, Loads
<1>7. /\ w.addr = file.addr + k /\ w.keys = file.keys + Cardinality(S)
      /\ w.notes = file.notes /\ w.scanned = file.scanned /\ w.pending = file.pending
      /\ w.deposits = file.deposits /\ w.nonce = file.nonce
  BY <1>1 DEF WalletFile
<1>8. w \in WalletFile
  <2>1. file.addr + k \in Nat /\ file.keys + Cardinality(S) \in Nat
    BY <1>5, <1>6
  <2>2. [file EXCEPT !.addr = @ + k] \in WalletFile
    BY <1>1, <2>1 DEF WalletFile
  <2>3. [file EXCEPT !.addr = @ + k].keys = file.keys
    BY <1>1 DEF WalletFile
  <2> QED BY <2>1, <2>2, <2>3 DEF WalletFile
<1>9. tx \in Transaction /\ tx.inputs = S /\ tx.outputs = outputs
  BY <1>1, <1>3, <1>4 DEF Tx, Transaction
<1> HIDE DEF tx
<1>10. next \in Job /\ next.pc = "prove" /\ next.tx = tx
  BY <1>9, IdleJob DEF Job, Saved, Spending
<1> HIDE DEF w, next
<1>11. Good(w)
  BY <1>1, <1>2, <1>7, FileGood, CountersGood
<1>12. ~Loads(backup, wallet_xmss_floor(w))
  <2>1. backup.keys <= file.keys
    BY DEF Inv, Ahead
  <2> QED BY <1>5, <1>6, <1>7, <2>1 DEF Loads, wallet_xmss_floor
<1>13. JobFits(next, w, wallet_xmss_floor(w))
  <2>1. Loads(w, wallet_xmss_floor(w))
    BY <1>5, <1>6, <1>7 DEF Loads, wallet_xmss_floor
  <2>2. Owned(outputs, wallet_xmss_floor(w))
    BY <1>7 DEF Owned, wallet_xmss_floor
  <2> QED BY <1>3, <1>7, <1>9, <1>10, <1>12, <2>1, <2>2 DEF JobFits, Saved, Spending
<1>14. Open(next) = {} /\ w.addr >= file.addr /\ w.keys >= file.keys /\ events' \in Nat
  BY <1>1, <1>4, <1>5, <1>6, <1>7, <1>10 DEF Open
<1> QED BY <1>2, <1>4, <1>8, <1>10, <1>11, <1>13, <1>14, SaveStep DEF Good

LEMMA SpendStep ==
  ASSUME Inv, job.pc = "idle", Loads(file, floor), Transfer \/ Unshield
  PROVE  Inv'
<1> DEFINE S == select_notes(file, TotalSpend)
           change == Change(S)
<1>1. S \subseteq file.notes \ UNION file.pending
  BY SelectedNotes
<1>2. change \in Int
  <2>1. ValueOf(S) \in Int
    <3>1. Open(job) = {}
      BY DEF Open
    <3> HIDE DEF S
    <3> QED BY <1>1, <3>1, Inputs
  <2> QED BY <2>1, WalletAssumption DEF Change, TotalSpend
<1>3. file.addr \in Nat /\ file \in WalletFile
  BY DEF Inv, TypeOK, WalletFile, Loads, Floor
<1>4. CASE Transfer
  <2> DEFINE outputs == transfer_outputs(file.addr, change)
  <2>1. persist_wallet_and_make_proof([file EXCEPT !.addr = @ + 1], S, outputs)
    BY <1>4 DEF Transfer
  <2> HIDE DEF change, S
  <2>2. outputs \in Seq(Leaves) /\ \A i \in DOMAIN outputs : outputs[i].to < file.addr + 1
    <3>1. /\ Leaf(Other, Amount, NoCm) \in Leaves /\ Leaf(Other, DalFee, NoCm) \in Leaves
          /\ Leaf(file.addr, change, NoCm) \in Leaves
      BY <1>2, <1>3, WalletAssumption DEF Leaf, Leaves, Other, NoCm
    <3>2. /\ Leaf(Other, Amount, NoCm).to = -1 /\ Leaf(Other, DalFee, NoCm).to = -1
          /\ Leaf(file.addr, change, NoCm).to = file.addr
      BY DEF Leaf, Other
    <3> QED BY <1>3, <3>1, <3>2 DEF transfer_outputs
  <2> HIDE DEF outputs
  <2> QED BY <1>1, <2>1, <2>2, PersistStep
<1>5. CASE Unshield
  <2> DEFINE k == IF change > 0 THEN 1 ELSE 0
             outputs == unshield_outputs(file.addr, change)
  <2>1. persist_wallet_and_make_proof([file EXCEPT !.addr = @ + k], S, outputs)
    BY <1>5 DEF Unshield
  <2> HIDE DEF change, S
  <2>2. outputs \in Seq(Leaves) /\ \A i \in DOMAIN outputs : outputs[i].to < file.addr + k
    <3>1. /\ Leaf(Other, DalFee, NoCm) \in Leaves
          /\ Leaf(file.addr, change, NoCm) \in Leaves
      BY <1>2, <1>3, WalletAssumption DEF Leaf, Leaves, Other, NoCm
    <3>2. /\ Leaf(Other, DalFee, NoCm).to = -1
          /\ Leaf(file.addr, change, NoCm).to = file.addr
      BY DEF Leaf, Other
    <3>3. CASE change > 0
      <4>1. outputs = <<Leaf(file.addr, change, NoCm)>> \o <<Leaf(Other, DalFee, NoCm)>>
        BY <3>3 DEF unshield_outputs
      <4>2. Owned(<<Leaf(file.addr, change, NoCm)>>, [addr |-> file.addr + 1])
            /\ Owned(<<Leaf(Other, DalFee, NoCm)>>, [addr |-> file.addr + 1])
        BY <1>3, <3>2 DEF Owned
      <4>3. <<Leaf(file.addr, change, NoCm)>> \in Seq(Leaves)
            /\ <<Leaf(Other, DalFee, NoCm)>> \in Seq(Leaves)
        BY <3>1
      <4> HIDE DEF outputs
      <4>4. outputs \in Seq(Leaves) /\ Owned(outputs, [addr |-> file.addr + 1])
        BY <4>1, <4>2, <4>3, Appended
      <4> QED BY <3>3, <4>4 DEF Owned
    <3>4. CASE ~(change > 0)
      <4>1. outputs = <<Leaf(Other, DalFee, NoCm)>>
        BY <3>1, <3>4 DEF unshield_outputs
      <4> HIDE DEF outputs
      <4> QED BY <1>3, <3>1, <3>2, <3>4, <4>1
    <3> QED BY <3>3, <3>4
  <2>3. k \in {0, 1}
    OBVIOUS
  <2> HIDE DEF outputs, k
  <2> QED BY <1>1, <2>1, <2>2, <2>3, PersistStep
<1> QED BY <1>4, <1>5

LEMMA ShieldStep ==
  ASSUME Inv, NEW p \in Pool, cmd_shield_rollup(p)
  PROVE  Inv'
<1>1. TypeOK /\ file \in WalletFile /\ events \in Nat /\ balance[p] \in Nat
      /\ file.addr \in Int /\ file.keys \in Nat
  <2>1. TypeOK
    BY DEF Inv
  <2>2. file \in WalletFile /\ events \in Nat /\ balance \in [Pool -> Nat]
    BY <2>1 DEF TypeOK
  <2>3. file.addr \in Int /\ file.keys \in Nat
    BY <2>2 DEF WalletFile
  <2> QED BY <2>1, <2>2, <2>3
<1>2. job.pc = "idle" /\ Loads(file, floor) /\ Open(job) = {}
  BY DEF cmd_shield_rollup, Start, load_wallet, Loads, Open
<1>3. PICK v \in {Amount, balance[p] - Fee - DalFee} :
        /\ v >= 0 /\ v + Fee + DalFee <= balance[p]
        /\ select_pending_deposit_by_pubkey_hash(file, p) # {}
        /\ Event
        /\ save_wallet([file EXCEPT !.keys = @ + 1],
             [Idle EXCEPT !.pc = "prove",
                          !.tx = Tx(events', {}, p, v + Fee + DalFee,
                                    <<Leaf(p[1], v, events'), Leaf(Other, DalFee, NoCm)>>)])
  BY DEF cmd_shield_rollup
<1> DEFINE outputs == <<Leaf(p[1], v, events'), Leaf(Other, DalFee, NoCm)>>
           tx == Tx(events', {}, p, v + Fee + DalFee, outputs)
           next == [Idle EXCEPT !.pc = "prove", !.tx = tx]
           w == [file EXCEPT !.keys = @ + 1]
<1>4. v \in Nat /\ v + Fee + DalFee \in Nat /\ events' \in Nat
  <2>1. Amount \in Nat /\ Fee \in Nat /\ DalFee \in Nat
    BY WalletAssumption
  <2>2. v \in Int /\ v >= 0
    BY <1>1, <1>3, <2>1
  <2>3. events' = events + 1
    BY <1>3 DEF Event
  <2> QED BY <1>1, <2>1, <2>2, <2>3
<1>5. p[1] \in Nat /\ p[1] < floor.addr
  <2>1. PICK d \in file.deposits : d.pool = p
    BY <1>3 DEF select_pending_deposit_by_pubkey_hash
  <2> QED BY <2>1 DEF Inv, Fits, Entries, Pool, Addr
<1>6. outputs \in Seq(Leaves) /\ Owned(outputs, floor)
  <2>1. Leaf(p[1], v, events') \in Leaves /\ Leaf(Other, DalFee, NoCm) \in Leaves
    BY <1>4, <1>5, WalletAssumption DEF Leaf, Leaves, Other, NoCm
  <2>2. Leaf(p[1], v, events').to = p[1] /\ Leaf(Other, DalFee, NoCm).to = -1
    BY DEF Leaf, Other
  <2>3. floor.addr \in Nat
    BY <1>1 DEF TypeOK, Floor
  <2> QED BY <1>5, <2>1, <2>2, <2>3 DEF Owned
<1> HIDE DEF outputs
<1>7. tx \in Transaction /\ tx.inputs = {} /\ tx.outputs = outputs
  BY <1>4, <1>6 DEF Tx, Transaction
<1>8. save_wallet(w, next)
  BY <1>3 DEF outputs
<1> HIDE DEF tx
<1>9. next \in Job /\ next.pc = "prove" /\ next.tx = tx
  BY <1>7, IdleJob DEF Job, Saved, Spending
<1>10. /\ w \in WalletFile /\ w.addr = file.addr /\ w.keys = file.keys + 1
       /\ w.notes = file.notes /\ w.scanned = file.scanned /\ w.pending = file.pending
       /\ w.deposits = file.deposits /\ w.nonce = file.nonce
  BY <1>1 DEF WalletFile
<1> HIDE DEF w, next
<1>11. Good(w)
  BY <1>1, <1>2, <1>10, FileGood, CountersGood
<1>12. JobFits(next, w, wallet_xmss_floor(w))
  <2>1. Loads(w, wallet_xmss_floor(w))
    BY <1>1, <1>10 DEF Loads, wallet_xmss_floor
  <2>2. Owned(outputs, wallet_xmss_floor(w))
    <3>1. /\ \A i \in DOMAIN outputs : outputs[i].to \in Int
          /\ floor.addr \in Nat /\ w.addr >= floor.addr
      BY <1>1, <1>2, <1>6, <1>10, LeavesTo DEF TypeOK, Floor, Loads
    <3> QED BY <1>1, <1>6, <1>10, <3>1 DEF Owned, wallet_xmss_floor
  <2> QED BY <1>7, <1>9, <2>1, <2>2 DEF JobFits, Saved, Spending
<1>13. Open(next) = {} /\ w.addr >= file.addr /\ w.keys >= file.keys
  BY <1>1, <1>9, <1>10 DEF Open
<1>14. UNCHANGED <<setup, chain, outside, backup, early, public, ghosts>>
  BY DEF cmd_shield_rollup
<1> QED BY <1>2, <1>4, <1>8, <1>9, <1>10, <1>11, <1>12, <1>13, <1>14, SaveStep DEF Good

\* A transaction is handed over: its inputs become taken, and the command waits to
\* record them; or the command ends, and if they were taken the record is lost.
LEMMA TakeStep ==
  ASSUME Inv, job.pc = "prove", Grows, Live' \subseteq Live,
         Taken' \subseteq Taken \cup job.tx.inputs,
         TypeOK', Known(floor)', ~lost => Disjoint', RefusedOnlyAfterLoss',
         UNCHANGED <<file, floor, backup, early>>, lost => lost',
         \/ /\ job' \in {Becomes("wait"), Becomes("record")}
            /\ net' = "ledger" => job.tx.inputs \subseteq spent'
         \/ job' = Idle /\ (~lost' => Taken' \subseteq Taken)
  PROVE  Inv'
<1>1. TypeOK /\ file \in WalletFile /\ backup \in WalletFile /\ job \in Job
  BY DEF Inv, TypeOK
<1>2. /\ Loads(file, floor) /\ floor = wallet_xmss_floor(file)
      /\ Owned(job.tx.outputs, floor) /\ job.tx.inputs \subseteq 1..file.scanned
      /\ job.tx.inputs # {} /\ Loads(backup, floor) =>
           early = job.tx.inputs /\ job.tx.inputs \subseteq 1..backup.scanned
  BY DEF Inv, JobFits, Saved, Spending
<1>3. /\ Content(file) /\ Entries(file, floor) /\ Ready(file, {})
      /\ Content(backup) /\ Entries(backup, floor)
      /\ Loads(backup, floor) => Ready(backup, early)
  BY <1>2 DEF Inv, Fits, Open
<1>4. Content(file)' /\ Content(backup)'
  BY <1>1, <1>3, ContentStable
<1>5. Entries(file, floor)' /\ Entries(backup, floor)'
  BY <1>3 DEF Entries
<1>6. Ahead(file)' /\ (~lost => Disjoint)'
  BY DEF Inv, Ahead
<1>7. CASE /\ job' \in {Becomes("wait"), Becomes("record")}
           /\ net' = "ledger" => job.tx.inputs \subseteq spent'
  <2>1. job'.pc \in {"wait", "record"} /\ job'.tx = job.tx
    BY <1>1, <1>7 DEF Becomes, Job
  <2>2. Open(job)' = job.tx.inputs
    BY <2>1 DEF Open
  <2>3. Ready(file, Open(job))'
    <3>1. \A p \in Live' : p[2] <= file'.nonce
      BY <1>3 DEF Ready
    <3>2. ASSUME ~lost' PROVE Records(file, Open(job))'
      <4>1. Records(file, {})
        BY <1>3, <3>2 DEF Ready
      <4>2. Taken' \subseteq 1..file.scanned
        BY <1>2, <4>1 DEF Records
      <4>3. Taken' \cap file.notes \subseteq (UNION file.pending) \cup job.tx.inputs
        <5>1. Taken \cap file.notes \subseteq UNION file.pending
          BY <4>1 DEF Records
        <5> SUFFICES ASSUME NEW i \in Taken', i \in file.notes, i \notin job.tx.inputs
                     PROVE  i \in UNION file.pending
          OBVIOUS
        <5>2. i \in Taken
          OBVIOUS
        <5> QED BY <5>1, <5>2
      <4> QED BY <2>2, <4>2, <4>3 DEF Records
    <3> QED BY <3>1, <3>2 DEF Ready
  <2>4. Loads(backup, floor)' => Ready(backup, early)'
    <3> SUFFICES ASSUME Loads(backup, floor) PROVE Ready(backup, early)'
      BY DEF Loads
    <3>1. \A p \in Live' : p[2] <= backup'.nonce
      BY <1>3 DEF Ready
    <3>2. ASSUME ~lost' PROVE Records(backup, early)'
      <4>1. Records(backup, early)
        BY <1>3, <3>2 DEF Ready
      <4>2. job.tx.inputs \subseteq early /\ job.tx.inputs \subseteq 1..backup.scanned
        BY <1>2
      <4>3. Taken' \subseteq 1..backup.scanned
        BY <4>1, <4>2 DEF Records
      <4>4. Taken' \cap backup.notes \subseteq (UNION backup.pending) \cup early
        BY <4>1, <4>2 DEF Records
      <4> QED BY <4>3, <4>4 DEF Records
    <3> QED BY <3>1, <3>2 DEF Ready
  <2>5. Fits(file, floor, Open(job))' /\ Fits(backup, floor, early)'
    BY <1>4, <1>5, <2>3, <2>4 DEF Fits
  <2>6. JobFits(job, file, floor)'
    BY <1>2, <1>7, <2>1 DEF JobFits, Saved, Spending, Loads, Owned
  <2> QED BY <1>6, <2>5, <2>6 DEF Inv
<1>8. CASE job' = Idle /\ (~lost' => Taken' \subseteq Taken)
  <2>1. Open(job)' = {}
    BY <1>8, IdleJob DEF Open
  <2>2. Ready(file, Open(job))'
    BY <1>3, <1>8, <2>1 DEF Ready, Records
  <2>3. Loads(backup, floor)' => Ready(backup, early)'
    BY <1>3, <1>8 DEF Ready, Records, Loads
  <2>4. Fits(file, floor, Open(job))' /\ Fits(backup, floor, early)'
    BY <1>4, <1>5, <2>2, <2>3 DEF Fits
  <2>5. JobFits(job, file, floor)'
    BY <1>8, IdleFitsNext
  <2> QED BY <1>6, <2>4, <2>5 DEF Inv
<1> QED BY <1>7, <1>8

LEMMA SubmitStep ==
  ASSUME Inv, submit_kernel_message
  PROVE  Inv'
<1>1. TypeOK /\ job \in Job /\ job.tx \in Transaction /\ job.pc = "prove"
  BY DEF Inv, TypeOK, Job, submit_kernel_message
<1>2. /\ net' = "rollup"
      /\ UNCHANGED <<tree, spent, balance, tickets, file, floor, backup, early, events, public,
                     conflict>>
  BY DEF submit_kernel_message, chain, setup
<1>3. inbox' \in {inbox, inbox \cup {job.tx}}
  BY DEF submit_kernel_message, run_octez_client
<1>4. Grows /\ Live' \subseteq Live
  BY <1>1, <1>2 DEF Grows, Live, TypeOK
<1>5. Taken' \subseteq Taken \cup job.tx.inputs
  BY <1>2, <1>3 DEF Taken
<1>6. /\ Owned(job.tx.outputs, floor)
      /\ ~lost => job.tx.inputs \cap Taken = {}
  BY <1>1 DEF Inv, JobFits, Spending
<1>7. Known(floor)'
  BY <1>2, <1>3, <1>6 DEF Inv, Known, Owned, Live
<1>8. ~lost => Disjoint'
  BY <1>2, <1>3, <1>6 DEF Inv, Disjoint, Taken
<1>9. CASE /\ inbox' = inbox \cup {job.tx}
           /\ job' = Becomes(IF profile.operator_url THEN "wait" ELSE "record")
           /\ UNCHANGED lost
  <2>1. job' \in {Becomes("wait"), Becomes("record")}
    BY <1>9
  <2>2. job' \in Job
    BY <1>1, <2>1 DEF Becomes, Job, Saved, Spending
  <2>3. TypeOK'
    BY <1>1, <1>2, <1>3, <2>2 DEF TypeOK
  <2>4. RefusedOnlyAfterLoss'
    BY <1>2, <1>9 DEF Inv, RefusedOnlyAfterLoss
  <2> QED BY <1>1, <1>2, <1>4, <1>5, <1>7, <1>8, <1>9, <2>1, <2>3, <2>4, TakeStep
<1>10. CASE job' = Idle /\ lost' = (lost \/ (inbox' # inbox /\ IsSpend(job.tx)))
  <2>1. TypeOK'
    BY <1>1, <1>2, <1>3, <1>10, IdleJob DEF TypeOK
  <2>2. RefusedOnlyAfterLoss'
    BY <1>2, <1>10 DEF Inv, RefusedOnlyAfterLoss
  <2>3. ~lost' => Taken' \subseteq Taken
    BY <1>2, <1>5, <1>10 DEF Taken, IsSpend
  <2> QED BY <1>1, <1>2, <1>4, <1>5, <1>7, <1>8, <1>10, <2>1, <2>2, <2>3, TakeStep
<1> QED BY <1>9, <1>10 DEF submit_kernel_message

LEMMA PostStep ==
  ASSUME Inv, post_to_ledger
  PROVE  Inv'
<1>1. TypeOK /\ job \in Job /\ job.tx \in Transaction /\ job.pc = "prove"
  BY DEF Inv, TypeOK, Job, post_to_ledger
<1>2. UNCHANGED <<inbox, tickets, file, floor, backup, early, events, public>> /\ Apply(job.tx)
  BY DEF post_to_ledger, outside
<1>3. \/ Applicable(job.tx) /\ job' = Becomes("record") /\ lost' = lost
      \/ job' = Idle /\ lost' = (lost \/ Applicable(job.tx))
  BY DEF post_to_ledger
<1>4. /\ Owned(tree, floor) /\ Owned(job.tx.outputs, floor)
      /\ ~lost => job.tx.inputs \cap Taken = {}
  BY <1>1 DEF Inv, JobFits, Spending, Known
<1>5. job' \in Job
  <2>1. Becomes("record") \in Job
    BY <1>1 DEF Becomes, Job, Saved, Spending
  <2> QED BY <1>3, <2>1, IdleJob
<1>6. CASE Applicable(job.tx)
  <2>1. /\ Grows /\ Owned(tree', floor)
        /\ spent' = spent \cup job.tx.inputs /\ spent' \in SUBSET Nat
        /\ balance' \in [Pool -> Nat] /\ \A p \in Pool : balance'[p] <= balance[p]
        /\ conflict' = conflict
    BY <1>1, <1>2, <1>4, <1>6, Applied
  <2>2. TypeOK'
    BY <1>1, <1>2, <1>5, <2>1 DEF TypeOK, Grows
  <2>3. Live' \subseteq Live /\ Taken' \subseteq Taken \cup job.tx.inputs
    BY <1>1, <1>2, <2>1 DEF Live, Taken, TypeOK
  <2>4. Known(floor)'
    BY <1>2, <2>1, <2>3 DEF Inv, Known, Owned
  <2>5. ~lost => Disjoint'
    BY <1>2, <1>4, <2>1 DEF Inv, Disjoint, Taken
  <2>6. RefusedOnlyAfterLoss'
    BY <1>3, <2>1 DEF Inv, RefusedOnlyAfterLoss
  <2>7. /\ lost => lost'
        /\ \/ /\ job' \in {Becomes("wait"), Becomes("record")}
              /\ job.tx.inputs \subseteq spent'
           \/ job' = Idle /\ (~lost' => Taken' \subseteq Taken)
    <3>1. CASE job' = Becomes("record") /\ lost' = lost
      BY <2>1, <3>1
    <3>2. CASE job' = Idle /\ lost' = (lost \/ Applicable(job.tx))
      <4>1. lost'
        BY <1>6, <3>2
      <4> QED BY <3>2, <4>1
    <3> QED BY <1>3, <3>1, <3>2
  <2> QED BY <1>1, <1>2, <2>1, <2>2, <2>3, <2>4, <2>5, <2>6, <2>7, TakeStep
<1>7. CASE ~Applicable(job.tx)
  <2>1. /\ UNCHANGED <<tree, spent, balance>>
        /\ conflict' = (conflict \/ job.tx.inputs \cap spent # {})
    BY <1>2, <1>7, Refused DEF chain
  <2>2. job' = Idle /\ (lost' <=> lost)
    BY <1>3, <1>7
  <2>3. Grows /\ Live' \subseteq Live /\ Taken' \subseteq Taken
    BY <1>1, <1>2, <2>1 DEF Grows, Live, Taken, TypeOK
  <2>4. TypeOK'
    BY <1>1, <1>2, <1>5, <2>1, <2>2 DEF TypeOK
  <2>5. Known(floor)'
    BY <1>2, <2>1 DEF Inv, Known, Owned, Live
  <2>6. ~lost => Disjoint'
    BY <1>2, <2>1 DEF Inv, Disjoint
  <2>7. RefusedOnlyAfterLoss'
    BY <1>4, <2>1, <2>2 DEF Inv, RefusedOnlyAfterLoss, Taken
  <2> QED BY <1>1, <1>2, <2>2, <2>3, <2>4, <2>5, <2>6, <2>7, TakeStep
<1> QED BY <1>6, <1>7

\* What is recorded: the file knows of the inputs that they are taken.
LEMMA RecordGood ==
  ASSUME Inv, job.pc = "record", NEW w,
         w = CASE ~IsSpend(job.tx) -> note_shielded_cm(file, job.tx)
               [] IsSpend(job.tx) /\ net = "rollup" -> register_pending_spend(file, job.tx)
               [] IsSpend(job.tx) /\ net = "ledger" -> finalize_successful_spend(file, job.tx),
         net \in {"rollup", "ledger"}
  PROVE  /\ w \in WalletFile /\ Good(w)
         /\ w.addr = file.addr /\ w.keys = file.keys
<1> DEFINE S == job.tx.inputs
<1>1. TypeOK /\ file \in WalletFile /\ job.tx \in Transaction /\ S \in SUBSET Nat
  BY DEF Inv, TypeOK, Job, Transaction
<1>2. Loads(file, floor) /\ (net = "ledger" => S \subseteq spent)
  BY DEF Inv, JobFits
<1>3. Content(file) /\ Entries(file, floor) /\ Ready(file, S)
  BY <1>2 DEF Inv, Fits, Open
<1>4. CASE ~IsSpend(job.tx)
  <2> DEFINE noted(d) == IF d.pool = job.tx.pool THEN [d EXCEPT !.cm = job.tx.id] ELSE d
  <2>1. S = {}
    BY <1>4 DEF IsSpend
  <2>2. w = [file EXCEPT !.deposits = {noted(d) : d \in file.deposits}]
    <3>1. w = note_shielded_cm(file, job.tx)
      BY <1>4
    <3> QED BY <3>1 DEF note_shielded_cm
  <2>3. \A d \in file.deposits : noted(d) \in PendingDeposit /\ noted(d).pool = d.pool
    <3>1. job.tx.id \in Nat /\ \A d \in file.deposits : d \in PendingDeposit
      BY <1>1 DEF WalletFile, Transaction
    <3> QED BY <3>1 DEF PendingDeposit
  <2> HIDE DEF noted
  <2>4. /\ w \in WalletFile /\ w.addr = file.addr /\ w.keys = file.keys
        /\ w.notes = file.notes /\ w.scanned = file.scanned /\ w.pending = file.pending
        /\ w.nonce = file.nonce /\ w.deposits = {noted(d) : d \in file.deposits}
    BY <1>1, <2>2, <2>3 DEF WalletFile
  <2>5. Entries(w, floor)
    BY <1>3, <2>3, <2>4 DEF Entries
  <2>6. Content(w) /\ Ready(w, {})
    BY <1>3, <2>1, <2>4 DEF Content, Ready, Records
  <2> QED BY <2>4, <2>5, <2>6 DEF Good
<1>5. CASE IsSpend(job.tx) /\ net = "rollup"
  <2>1. w = [file EXCEPT !.pending = file.pending \cup {S}]
    BY <1>1, <1>5 DEF register_pending_spend
  <2>2. /\ w \in WalletFile /\ w.addr = file.addr /\ w.keys = file.keys
        /\ w.notes = file.notes /\ w.scanned = file.scanned /\ w.nonce = file.nonce
        /\ w.deposits = file.deposits /\ w.pending = file.pending \cup {S}
    BY <1>1, <2>1 DEF WalletFile
  <2>3. UNION w.pending = (UNION file.pending) \cup S
    BY <2>2
  <2>4. Content(w) /\ Entries(w, floor) /\ Ready(w, {})
    BY <1>3, <2>2, <2>3 DEF Content, Entries, Ready, Records
  <2> QED BY <2>2, <2>4 DEF Good
<1>6. CASE IsSpend(job.tx) /\ net = "ledger"
  <2>1. w = [file EXCEPT !.notes = file.notes \ S]
    BY <1>1, <1>6 DEF finalize_successful_spend
  <2>2. /\ w \in WalletFile /\ w.addr = file.addr /\ w.keys = file.keys
        /\ w.notes = file.notes \ S /\ w.scanned = file.scanned /\ w.nonce = file.nonce
        /\ w.deposits = file.deposits /\ w.pending = file.pending
    BY <1>1, <2>1 DEF WalletFile
  <2>3. Content(w)
    BY <1>2, <1>3, <1>6, <2>2 DEF Content, Unspent
  <2>4. Entries(w, floor) /\ Ready(w, {})
    BY <1>3, <2>2 DEF Entries, Ready, Records
  <2> QED BY <2>2, <2>3, <2>4 DEF Good
<1> QED BY <1>4, <1>5, <1>6

LEMMA RecordStep ==
  ASSUME Inv, Record, net \in {"rollup", "ledger"}
  PROVE  Inv'
<1> DEFINE S == job.tx.inputs
<1>0. PICK w : w = CASE ~IsSpend(job.tx) -> note_shielded_cm(file, job.tx)
                     [] IsSpend(job.tx) /\ net = "rollup" -> register_pending_spend(file, job.tx)
                     [] IsSpend(job.tx) /\ net = "ledger" ->
                          finalize_successful_spend(file, job.tx)
  OBVIOUS
<1>1. TypeOK /\ file \in WalletFile /\ backup \in WalletFile /\ job.pc = "record"
  BY DEF Inv, TypeOK, Record
<1>2. /\ w \in WalletFile /\ Good(w)
      /\ w.addr = file.addr /\ w.keys = file.keys
  BY <1>0, <1>1, RecordGood
<1>3. Loads(file, floor) /\ floor = wallet_xmss_floor(file) /\ Open(job) = S
  BY <1>1 DEF Inv, JobFits, Saved, Spending, Open
<1>4. /\ save_wallet(w, Idle) /\ lost' = (lost \/ (file' = file /\ IsSpend(job.tx)))
      /\ UNCHANGED <<net, tree, spent, balance, inbox, tickets, backup, early, events, public, conflict>>
  BY <1>0 DEF Record, setup, chain, outside
<1>5. file' \in {w, file} /\ floor' = floor /\ job' = Idle
  BY <1>2, <1>3, <1>4 DEF save_wallet, wallet_xmss_floor
<1>6. Grows /\ Live' \subseteq Live /\ Taken' \subseteq Taken
  BY <1>1, <1>4 DEF Grows, Live, Taken, TypeOK
<1>7. lost => lost'
  BY <1>4
<1>8. TypeOK'
  BY <1>1, <1>2, <1>4, <1>5, IdleJob DEF TypeOK
<1>9. Open(job)' = {}
  BY <1>5, IdleJob DEF Open
<1>10. Content(file)'
  <2>1. PICK c : c = file
    OBVIOUS
  <2>2. Content(w) /\ Content(c)
    BY <1>2, <2>1 DEF Good, Inv, Fits
  <2>3. Content(w)' /\ Content(c)'
    BY <1>1, <1>2, <1>6, <2>1, <2>2, ContentStable
  <2> QED BY <1>5, <2>1, <2>3
<1>11. Entries(file, floor)'
  BY <1>2, <1>4, <1>5 DEF Good, Inv, Fits, Entries
<1>12. Ready(file, {})'
  <2>1. CASE file' = w
    <3>1. Ready(w, {})'
      BY <1>2, <1>6, <1>7, ReadyStable DEF Good
    <3> QED BY <2>1, <3>1
  <2>2. CASE file' = file /\ ~IsSpend(job.tx)
    <3>1. Ready(file, {})
      BY <1>3, <2>2 DEF Inv, Fits, IsSpend
    <3> QED BY <1>6, <1>7, <2>2, <3>1 DEF Ready, Records
  <2>3. CASE file' = file /\ IsSpend(job.tx)
    <3>1. lost'
      BY <1>4, <2>3
    <3>2. \A p \in Live : p[2] <= file.nonce
      BY <1>3 DEF Inv, Fits, Ready
    <3> QED BY <1>6, <2>3, <3>1, <3>2 DEF Ready
  <2> QED BY <1>5, <2>1, <2>2, <2>3
<1>13. Fits(backup, floor, early)'
  BY <1>4, <1>5, <1>6, <1>7, BackupStays
<1>14. Fits(file, floor, Open(job))'
  BY <1>9, <1>10, <1>11, <1>12 DEF Fits
<1>15. JobFits(job, file, floor)'
  BY <1>5, IdleFitsNext
<1>16. Known(floor)'
  BY <1>4, <1>5 DEF Inv, Known, Live, Owned
<1>17. (~lost => Disjoint)' /\ RefusedOnlyAfterLoss'
  BY <1>4, <1>7 DEF Inv, Disjoint, RefusedOnlyAfterLoss
<1>18. Ahead(file)'
  BY <1>2, <1>4, <1>5 DEF Inv, Ahead
<1> QED BY <1>8, <1>13, <1>14, <1>15, <1>16, <1>17, <1>18 DEF Inv

-----------------------------------------------------------------------------
(***************************************************************************)
(* Addresses and deposits.                                                 *)
(***************************************************************************)
\* The first save of a command that makes addresses: the floor passes them before
\* anybody sees them.
LEMMA AddressStep ==
  ASSUME Inv, job.pc = "idle", Loads(file, floor), NEW n \in Nat, n >= file.addr,
         NEW next \in Job, next.pc \in {"show", "preflight", "recover"},
         next.pc = "preflight" => n \in 1..MaxAddr /\ n > file.addr,
         next.pc = "recover" => next.pool[1] < n,
         save_wallet([file EXCEPT !.addr = n], next), events' \in Nat,
         UNCHANGED <<setup, chain, outside, backup, early, public, ghosts>>
  PROVE  Inv'
<1> DEFINE w == [file EXCEPT !.addr = n]
<1>1. TypeOK /\ file \in WalletFile /\ backup \in WalletFile
  BY DEF Inv, TypeOK
<1>2. /\ w \in WalletFile /\ w.addr = n /\ w.keys = file.keys
      /\ w.notes = file.notes /\ w.scanned = file.scanned /\ w.pending = file.pending
      /\ w.deposits = file.deposits /\ w.nonce = file.nonce
  BY <1>1 DEF WalletFile
<1>3. Open(job) = {} /\ Open(next) = {}
  BY DEF Open
<1> HIDE DEF w
<1>4. Good(w)
  BY <1>1, <1>2, <1>3, FileGood, CountersGood
<1>5. /\ wallet_xmss_floor(w).addr = n /\ wallet_xmss_floor(w).keys = file.keys
      /\ file.keys \in Nat /\ file.addr \in Int /\ backup.addr \in Int
  BY <1>1, <1>2, FileTypes DEF wallet_xmss_floor
<1>6. Loads(w, wallet_xmss_floor(w))
      /\ (next.pc = "preflight" => ~Loads(backup, wallet_xmss_floor(w)))
  <2>1. backup.addr <= file.addr
    BY DEF Inv, Ahead
  <2> QED BY <1>2, <1>5, <2>1 DEF Loads
<1>7. JobFits(next, w, wallet_xmss_floor(w))
  BY <1>2, <1>5, <1>6 DEF JobFits, Saved, Spending
<1>8. w.addr >= file.addr /\ w.keys >= file.keys
  BY <1>2, <1>5
<1>9. save_wallet(w, next)
  BY DEF w
<1> QED BY <1>2, <1>3, <1>4, <1>7, <1>8, <1>9, SaveStep DEF Good

LEMMA JobMoves ==
  ASSUME job \in Job, NEW pc \in {"show", "preflight"}
  PROVE  Becomes(pc) \in Job /\ Becomes(pc).pc = pc
BY DEF Becomes, Job, Saved

LEMMA NextAddressStep ==
  ASSUME Inv, cmd_address \/ StartDeposit
  PROVE  Inv'
<1>1. /\ job.pc = "idle" /\ Loads(file, floor) /\ file.addr < MaxAddr
      /\ events' = events + 1
      /\ UNCHANGED <<setup, chain, outside, backup, early, public, ghosts>>
      /\ \E pc \in {"show", "preflight"} : save_wallet([file EXCEPT !.addr = @ + 1], Becomes(pc))
  BY DEF cmd_address, StartDeposit, Start, load_wallet, Loads, Event
<1>2. file \in WalletFile /\ job \in Job /\ events \in Nat /\ floor.addr \in Nat \ {0}
  BY DEF Inv, TypeOK, Floor
<1>3. file.addr \in Int /\ file.addr >= 1 /\ file.addr + 1 \in 1..MaxAddr
  <2>1. file.addr \in Int /\ MaxAddr \in Nat
    BY <1>2, FileTypes, WalletAssumption
  <2>2. file.addr >= floor.addr /\ file.addr < MaxAddr
    BY <1>1 DEF Loads
  <2> QED BY <1>2, <2>1, <2>2
<1>4. PICK pc \in {"show", "preflight"} : save_wallet([file EXCEPT !.addr = @ + 1], Becomes(pc))
  BY <1>1
<1>5. save_wallet([file EXCEPT !.addr = file.addr + 1], Becomes(pc))
  BY <1>2, <1>4
<1>6. Becomes(pc) \in Job /\ Becomes(pc).pc = pc
  BY <1>2, JobMoves
<1>7. file.addr + 1 \in Nat /\ file.addr + 1 >= file.addr /\ events' \in Nat
      /\ file.addr + 1 > file.addr
  BY <1>1, <1>2, <1>3
<1>8. Becomes(pc).pc \in {"show", "preflight", "recover"} /\ Becomes(pc).pc # "recover"
  BY <1>6
<1> QED BY <1>1, <1>3, <1>5, <1>6, <1>7, <1>8, AddressStep

\* A step that shows something and ends its command.
LEMMA ShowStep ==
  ASSUME Inv, job.pc \in {"show", "ticket"}, job' = Idle, TypeOK', Known(floor)',
         UNCHANGED <<setup, chain, inbox, file, floor, backup, early, events, ghosts>>,
         \A p \in Live' : p[2] <= file.nonce,
         Loads(backup, floor) => \A p \in Live' : p[2] <= backup.nonce
  PROVE  Inv'
<1>1. UNCHANGED <<net, tree, spent, balance, lost, conflict>>
  BY DEF setup, chain, ghosts
<1>2. TypeOK /\ file \in WalletFile /\ backup \in WalletFile
  BY DEF Inv, TypeOK
<1>3. Open(job) = {} /\ Open(job)' = {}
  BY IdleJob DEF Open
<1>4. Taken' = Taken
  BY <1>1 DEF Taken
<1>5. Content(file)' /\ Content(backup)'
  BY <1>1 DEF Inv, Fits, Content, Unspent
<1>6. Entries(file, floor)' /\ Entries(backup, floor)'
  BY DEF Inv, Fits, Entries
<1>7. Loads(file, floor)' => Ready(file, {})'
  BY <1>1, <1>3, <1>4 DEF Inv, Fits, Ready, Records, Loads
<1>8. Loads(backup, floor)' => Ready(backup, early)'
  BY <1>1, <1>4 DEF Inv, Fits, Ready, Records, Loads
<1>9. Fits(file, floor, Open(job))' /\ Fits(backup, floor, early)'
  BY <1>3, <1>5, <1>6, <1>7, <1>8 DEF Fits
<1>10. JobFits(job, file, floor)'
  BY IdleFitsNext
<1>11. (~lost => Disjoint)' /\ RefusedOnlyAfterLoss' /\ Ahead(file)'
  BY <1>1 DEF Inv, Disjoint, RefusedOnlyAfterLoss, Ahead
<1> QED BY <1>9, <1>10, <1>11 DEF Inv

LEMMA ShowAddressStep ==
  ASSUME Inv, ShowAddress
  PROVE  Inv'
<1>1. /\ job.pc = "show" /\ job' = Idle
      /\ public' = [public EXCEPT !.addresses = @ \cup {file.addr - 1}]
      /\ UNCHANGED <<setup, chain, outside, file, floor, backup, early, events, ghosts>>
  BY DEF ShowAddress
<1>2. UNCHANGED <<tree, spent, balance, inbox, tickets>>
  BY <1>1 DEF chain, outside
<1>3. TypeOK /\ file \in WalletFile /\ floor.addr \in Nat \ {0}
      /\ public \in [addresses : SUBSET Nat, pools : SUBSET Pool]
  BY DEF Inv, TypeOK, Floor
<1>4. Loads(file, floor) /\ floor = wallet_xmss_floor(file)
  BY <1>1 DEF Inv, JobFits, Saved
<1>5. floor.addr = file.addr /\ file.addr - 1 \in Nat /\ file.addr - 1 < floor.addr
  <2>1. floor.addr = file.addr
    BY <1>4 DEF wallet_xmss_floor
  <2> QED BY <1>3, <2>1
<1>6. /\ public'.addresses = public.addresses \cup {file.addr - 1}
      /\ public'.pools = public.pools
      /\ public' \in [addresses : SUBSET Nat, pools : SUBSET Pool]
  BY <1>1, <1>3, <1>5
<1>7. TypeOK'
  BY <1>1, <1>2, <1>3, <1>6, IdleJob DEF TypeOK
<1>8. Live' = Live
  BY <1>2, <1>6 DEF Live
<1>9. Known(floor)'
  BY <1>1, <1>2, <1>5, <1>6, <1>8 DEF Inv, Known, Owned
<1>10. /\ \A p \in Live' : p[2] <= file.nonce
       /\ Loads(backup, floor) => \A p \in Live' : p[2] <= backup.nonce
  BY <1>4, <1>8 DEF Inv, Fits, Ready
<1> QED BY <1>1, <1>2, <1>7, <1>9, <1>10, ShowStep

LEMMA PreflightStep ==
  ASSUME Inv, Preflight
  PROVE  Inv'
<1> DEFINE pool == <<file.addr - 1, file.nonce>>
           w == DepositEntry(file, pool)
           next == [Idle EXCEPT !.pc = "ticket", !.pool = pool]
<1>1. TypeOK /\ file \in WalletFile /\ backup \in WalletFile /\ job.pc = "preflight"
      /\ file.nonce < MaxNonce /\ file.nonce \in Nat /\ file.addr \in Int /\ file.keys \in Nat
  BY FileTypes DEF Inv, TypeOK, Preflight
<1>2. /\ Loads(file, floor) /\ floor = wallet_xmss_floor(file) /\ Open(job) = {}
      /\ file.addr \in 1..MaxAddr
      /\ Loads(backup, floor) => file.nonce <= backup.nonce
  BY <1>1 DEF Inv, JobFits, Saved, Open
<1>3. pool \in Pool /\ pool[1] = file.addr - 1 /\ pool[2] = file.nonce
  <2>1. file.addr - 1 \in Addr /\ file.nonce \in 0..(MaxNonce - 1)
    BY <1>1, <1>2, WalletAssumption DEF Addr
  <2> QED BY <2>1 DEF Pool
<1>4. pool \in Int \X Nat
  BY <1>1
<1>5. /\ save_wallet(w, next)
      /\ UNCHANGED <<setup, chain, outside, backup, early, events, public, ghosts>>
  BY DEF Preflight
<1> HIDE DEF pool
<1>6. Entry(pool) \in PendingDeposit /\ Entry(pool).pool = pool
  BY <1>3 DEF Entry, PendingDeposit, NoCm
<1>7. /\ w \in WalletFile /\ w.addr = file.addr /\ w.keys = file.keys
      /\ w.notes = file.notes /\ w.scanned = file.scanned /\ w.pending = file.pending
      /\ w.deposits = file.deposits \cup {Entry(pool)} /\ w.nonce = file.nonce + 1
  <2>1. file.nonce + 1 \in Nat /\ file.deposits \cup {Entry(pool)} \in SUBSET PendingDeposit
    BY <1>1, <1>6 DEF WalletFile
  <2> QED BY <1>1, <2>1 DEF DepositEntry, WalletFile
<1>8. next \in Job /\ next.pc = "ticket" /\ next.pool = pool
  BY <1>4, IdleJob DEF Job, Saved
<1> HIDE DEF w, next
<1>9. Good(file)
  BY <1>2, FileGood
<1>10. floor.addr = file.addr /\ wallet_xmss_floor(w) = floor
  BY <1>2, <1>7 DEF wallet_xmss_floor
<1>11. Entries(w, floor)
  <2> SUFFICES ASSUME NEW d \in w.deposits PROVE d.pool[1] < floor.addr /\ d.pool[2] < w.nonce
    BY DEF Entries
  <2>1. CASE d \in file.deposits
    <3>1. d.pool \in Pool /\ d.pool[1] < floor.addr /\ d.pool[2] < file.nonce
      BY <1>1, <1>9, <2>1 DEF Good, Entries, WalletFile, PendingDeposit
    <3>2. d.pool[2] \in Int
      BY <3>1 DEF Pool
    <3> QED BY <1>1, <1>7, <3>1, <3>2
  <2>2. CASE d = Entry(pool)
    BY <1>1, <1>3, <1>6, <1>7, <1>10, <2>2
  <2> QED BY <1>7, <2>1, <2>2
<1>12. Content(w) /\ Ready(w, {})
  <2>1. \A p \in Live : p[2] \in Int
    BY <1>1 DEF Live, TypeOK, Pool
  <2>2. \A p \in Live : p[2] <= w.nonce
    BY <1>1, <1>7, <1>9, <2>1 DEF Good, Ready
  <2> QED BY <1>7, <1>9, <2>2 DEF Good, Content, Ready, Records
<1>13. Loads(backup, floor) => pool[2] <= backup.nonce
  BY <1>2, <1>3
<1>14. JobFits(next, w, wallet_xmss_floor(w))
  <2>1. Loads(w, floor)
    BY <1>2, <1>7 DEF Loads
  <2>2. pool[1] < floor.addr /\ pool[2] < w.nonce
    BY <1>1, <1>3, <1>7, <1>10
  <2> QED BY <1>3, <1>8, <1>10, <1>13, <2>1, <2>2 DEF JobFits, Saved, Spending
<1>15. /\ Open(next) = {} /\ w.addr >= file.addr /\ w.keys >= file.keys /\ events' \in Nat
  BY <1>1, <1>5, <1>7, <1>8 DEF Open, TypeOK
<1> QED BY <1>2, <1>5, <1>7, <1>8, <1>11, <1>12, <1>14, <1>15, SaveStep

LEMMA SendTicketStep ==
  ASSUME Inv, SendTicket
  PROVE  Inv'
<1> DEFINE q == job.pool
<1>1. /\ job.pc = "ticket" /\ job' = Idle
      /\ tickets' \in {tickets, tickets \cup {q}}
      /\ public' = [public EXCEPT !.pools = @ \cup {q}]
      /\ UNCHANGED <<setup, chain, inbox, file, floor, backup, early, events, ghosts>>
  BY DEF SendTicket, deposit_to_bridge, run_octez_client
<1>2. UNCHANGED <<tree, spent, balance>>
  BY <1>1 DEF chain
<1>3. TypeOK /\ public \in [addresses : SUBSET Nat, pools : SUBSET Pool]
  BY DEF Inv, TypeOK
<1>4. /\ Loads(file, floor) /\ (Loads(backup, floor) => q[2] <= backup.nonce)
      /\ q \in Pool /\ q[1] < floor.addr /\ q[2] < file.nonce
  BY <1>1 DEF Inv, JobFits
<1> HIDE DEF q
<1>5. /\ public'.addresses = public.addresses /\ public'.pools = public.pools \cup {q}
      /\ public' \in [addresses : SUBSET Nat, pools : SUBSET Pool]
  BY <1>1, <1>3, <1>4
<1>6. TypeOK'
  BY <1>1, <1>2, <1>3, <1>4, <1>5, IdleJob DEF TypeOK
<1>7. Live' \subseteq Live \cup {q}
  BY <1>1, <1>2, <1>5 DEF Live
<1>8. Known(floor)'
  BY <1>1, <1>2, <1>4, <1>5, <1>7 DEF Inv, Known, Owned
<1>9. \A p \in Live' : p[2] <= file.nonce
  <2>1. q[2] <= file.nonce
    BY <1>3, <1>4, FileTypes DEF Pool, TypeOK
  <2> QED BY <1>4, <1>7, <2>1 DEF Inv, Fits, Ready
<1>10. Loads(backup, floor) => \A p \in Live' : p[2] <= backup.nonce
  BY <1>4, <1>7 DEF Inv, Fits, Ready
<1> QED BY <1>1, <1>6, <1>8, <1>9, <1>10, ShowStep

LEMMA StartRecoverStep ==
  ASSUME Inv, StartRecover
  PROVE  Inv'
<1>1. PICK max \in {file.addr - 1, MaxAddr - 1} :
        save_wallet([file EXCEPT !.addr = Max({@, max + 1})],
                    [Idle EXCEPT !.pc = "recover", !.pin.balance = balance,
                                 !.pool = <<max, file.nonce>>])
  BY DEF StartRecover
<1> DEFINE n == Max({file.addr, max + 1})
           next == [Idle EXCEPT !.pc = "recover", !.pin.balance = balance,
                                !.pool = <<max, file.nonce>>]
<1>2. TypeOK /\ file \in WalletFile /\ events \in Nat /\ floor.addr \in Nat \ {0}
      /\ balance \in [Pool -> Nat] /\ file.addr \in Int /\ file.nonce \in Nat
  BY FileTypes DEF Inv, TypeOK, Floor
<1>3. /\ job.pc = "idle" /\ Loads(file, floor)
      /\ UNCHANGED <<setup, chain, outside, backup, early, events, public, ghosts>>
  BY DEF StartRecover, Start, load_wallet, Loads
<1>4. file.addr \in Nat /\ max \in Int
  BY <1>2, <1>3, WalletAssumption DEF Loads
<1>5. n \in Nat /\ n >= file.addr /\ max < n
  <2>1. \A a, b \in Int : Max({a, b}) \in {a, b} /\ a <= Max({a, b}) /\ b <= Max({a, b})
    BY DEF Max
  <2>2. max + 1 \in Int /\ file.addr \in Int
    BY <1>4
  <2>3. n \in {file.addr, max + 1} /\ file.addr <= n /\ max + 1 <= n
    BY <2>1, <2>2, Zenon
  <2> HIDE DEF n
  <2> QED BY <1>4, <2>3
<1>6. next \in Job /\ next.pc = "recover" /\ next.pool[1] = max
  BY <1>2, <1>4, IdleJob DEF Job, HeadState, Saved
<1>7. save_wallet([file EXCEPT !.addr = n], next)
  BY <1>1, <1>2
<1> HIDE DEF n, next
<1> QED BY <1>2, <1>3, <1>5, <1>6, <1>7, AddressStep

\* A bounded set of numbers has a largest one.
LEMMA LargestOf ==
  ASSUME NEW S \in SUBSET Nat, S # {}, NEW n \in Nat, \A x \in S : x <= n
  PROVE  Max(S) \in S /\ \A x \in S : Max(S) >= x
<1> DEFINE T == {k \in Nat : (\A x \in S : x <= k) => \E m \in S : \A x \in S : m >= x}
<1>1. 0 \in T
  <2> SUFFICES ASSUME \A x \in S : x <= 0 PROVE \E m \in S : \A x \in S : m >= x
    OBVIOUS
  <2>1. PICK m \in S : TRUE
    OBVIOUS
  <2>2. m = 0 /\ \A x \in S : x = 0
    OBVIOUS
  <2> QED BY <2>2
<1>2. ASSUME NEW k \in Nat, k \in T PROVE k + 1 \in T
  <2> SUFFICES ASSUME \A x \in S : x <= k + 1 PROVE \E m \in S : \A x \in S : m >= x
    OBVIOUS
  <2>1. CASE k + 1 \in S
    BY <2>1
  <2>2. CASE k + 1 \notin S
    <3>1. \A x \in S : x <= k
      BY <2>2
    <3> QED BY <1>2, <3>1
  <2> QED BY <2>1, <2>2
<1> HIDE DEF T
<1>3. n \in T
  BY <1>1, <1>2, SetInduction
<1>4. \E m \in S : \A x \in S : m >= x
  BY <1>3 DEF T
<1> QED BY <1>4 DEF Max

LEMMA RecoverDepositsStep ==
  ASSUME Inv, RecoverDeposits
  PROVE  Inv'
<1> DEFINE found == Found(file, job.pin, job.pool)
           nonces == {file.nonce} \cup {p[2] + 1 : p \in found}
           w == [file EXCEPT !.deposits = @ \cup {Entry(p) : p \in found},
                             !.nonce = Max({@} \cup {p[2] + 1 : p \in found})]
<1>1. TypeOK /\ file \in WalletFile /\ job \in Job /\ job.pc = "recover"
      /\ file.addr \in Int /\ file.keys \in Nat /\ file.nonce \in Nat
  BY FileTypes DEF Inv, TypeOK, RecoverDeposits
<1>2. Loads(file, floor) /\ Open(job) = {} /\ job.pool[1] < floor.addr
  BY <1>1 DEF Inv, JobFits, Open
<1>3. floor.addr \in Nat /\ job.pool[1] \in Int
  BY <1>1 DEF TypeOK, Floor, Job
<1>4. \A p \in found : p \in Pool /\ p[1] < floor.addr /\ p[2] \in 0..(MaxNonce - 1)
  <2> SUFFICES ASSUME NEW p \in found
               PROVE  p \in Pool /\ p[1] < floor.addr /\ p[2] \in 0..(MaxNonce - 1)
    OBVIOUS
  <2>1. p \in Pool /\ p[1] <= job.pool[1]
    BY DEF Found
  <2>2. p[1] \in Int /\ p[2] \in 0..(MaxNonce - 1)
    BY <2>1 DEF Pool, Addr
  <2> QED BY <1>2, <1>3, <2>1, <2>2
<1>5. /\ save_wallet(w, Idle)
      /\ UNCHANGED <<setup, chain, outside, backup, early, events, public, ghosts>>
  BY DEF RecoverDeposits
<1> HIDE DEF found
<1>6. Max(nonces) \in nonces /\ \A x \in nonces : Max(nonces) >= x
  <2>1. nonces \in SUBSET Nat /\ nonces # {}
    BY <1>1, <1>4
  <2>2. file.nonce + MaxNonce \in Nat /\ \A x \in nonces : x <= file.nonce + MaxNonce
    BY <1>1, <1>4, WalletAssumption
  <2> HIDE DEF nonces
  <2> QED BY <2>1, <2>2, LargestOf
<1>7. Max(nonces) \in Nat /\ Max(nonces) >= file.nonce /\ \A p \in found : p[2] < Max(nonces)
  <2>1. nonces \in SUBSET Nat
    BY <1>1, <1>4
  <2>2. Max(nonces) \in Nat
    BY <1>6, <2>1
  <2>3. file.nonce \in nonces /\ \A p \in found : p[2] + 1 \in nonces
    OBVIOUS
  <2> HIDE DEF nonces
  <2> QED BY <1>4, <1>6, <2>2, <2>3
<1>8. \A p \in found : Entry(p) \in PendingDeposit /\ Entry(p).pool = p
  BY <1>4 DEF Entry, PendingDeposit, NoCm
<1>9. /\ w \in WalletFile /\ w.addr = file.addr /\ w.keys = file.keys
      /\ w.notes = file.notes /\ w.scanned = file.scanned /\ w.pending = file.pending
      /\ w.deposits = file.deposits \cup {Entry(p) : p \in found} /\ w.nonce = Max(nonces)
  <2> DEFINE more == {Entry(p) : p \in found}
  <2>1. file.deposits \cup more \in SUBSET PendingDeposit
    BY <1>1, <1>8 DEF WalletFile
  <2>2. w = [file EXCEPT !.deposits = file.deposits \cup more, !.nonce = Max(nonces)]
    BY <1>1 DEF WalletFile
  <2> HIDE DEF more, nonces, w
  <2>3. /\ w \in WalletFile /\ w.addr = file.addr /\ w.keys = file.keys
        /\ w.notes = file.notes /\ w.scanned = file.scanned /\ w.pending = file.pending
        /\ w.deposits = file.deposits \cup more /\ w.nonce = Max(nonces)
    BY <1>1, <1>7, <2>1, <2>2 DEF WalletFile
  <2> QED BY <2>3 DEF more
<1> HIDE DEF w, nonces
<1>10. Good(file)
  BY <1>2, FileGood
<1>11. Entries(w, floor)
  <2> SUFFICES ASSUME NEW d \in w.deposits PROVE d.pool[1] < floor.addr /\ d.pool[2] < w.nonce
    BY DEF Entries
  <2>1. CASE d \in file.deposits
    <3>1. d.pool \in Pool /\ d.pool[1] < floor.addr /\ d.pool[2] < file.nonce
      BY <1>1, <1>10, <2>1 DEF Good, Entries, WalletFile, PendingDeposit
    <3>2. d.pool[2] \in Int
      BY <3>1 DEF Pool
    <3> QED BY <1>1, <1>7, <1>9, <3>1, <3>2
  <2>2. CASE \E p \in found : d = Entry(p)
    BY <1>4, <1>7, <1>8, <1>9, <2>2
  <2> QED BY <1>9, <2>1, <2>2
<1>12. Content(w) /\ Ready(w, {})
  <2>1. \A p \in Live : p[2] \in Int
    BY <1>1 DEF Live, TypeOK, Pool
  <2>2. \A p \in Live : p[2] <= w.nonce
    BY <1>1, <1>7, <1>9, <1>10, <2>1 DEF Good, Ready
  <2> QED BY <1>9, <1>10, <2>2 DEF Good, Content, Ready, Records
<1> QED BY <1>2, <1>5, <1>9, <1>11, <1>12, LastSave DEF Good

-----------------------------------------------------------------------------
(***************************************************************************)
(* The user's copy, the profile, and steps that change nothing.            *)
(***************************************************************************)
\* Nothing is asked of a command that does not run.
LEMMA NoCommand ==
  ASSUME job'.pc = "idle"
  PROVE  JobFits(job, file, floor)'
BY DEF JobFits, Saved, Spending

\* A copy is made: it has all that the file has, and the spend that runs is marked.
LEMMA BackUpStep ==
  ASSUME Inv, BackUp
  PROVE  Inv'
<1>1. /\ UNCHANGED <<net, tree, spent, balance, inbox, tickets, file, floor, job, events, public,
                     lost, conflict>>
      /\ backup' = file
      /\ early' = IF job.pc \in Spending THEN job.tx.inputs ELSE {}
  BY DEF BackUp, Spending, setup, chain, outside, ghosts
<1>2. TypeOK /\ file \in WalletFile /\ job \in Job /\ job.tx.inputs \in SUBSET Nat
  BY DEF Inv, TypeOK, Job, Transaction
<1>3. TypeOK'
  BY <1>1, <1>2 DEF TypeOK
<1>4. Grows /\ Live' \subseteq Live /\ Taken' \subseteq Taken /\ (lost => lost')
  BY <1>1, <1>2, Still
<1>5. Open(job) \subseteq early' /\ Open(job)' = Open(job)
  BY <1>1 DEF Open, Spending
<1>6. Fits(file, floor, Open(job))'
  BY <1>1, <1>4, <1>5, FileStays
<1>7. Fits(backup, floor, early)'
  <2>1. Content(backup)' /\ Entries(backup, floor)'
    BY <1>1, <1>6 DEF Fits, Content, Entries, Unspent
  <2>2. Loads(backup, floor)' => Ready(backup, early)'
    BY <1>1, <1>5, <1>6 DEF Fits, Loads, Ready, Records
  <2> QED BY <2>1, <2>2 DEF Fits
<1>8. JobFits(job, file, floor)'
  <2>1. /\ file.nonce <= file.nonce
        /\ job.pc = "ticket" => job.pool[2] <= file.nonce
    <3>1. file.nonce \in Nat
      BY <1>2, FileTypes
    <3>2. job.pc = "ticket" => job.pool \in Pool /\ job.pool[2] < file.nonce
      BY DEF Inv, JobFits
    <3> QED BY <3>1, <3>2 DEF Pool
  <2>2. job.pc \in Spending => early' = job.tx.inputs /\ job.tx.inputs \subseteq 1..file.scanned
    BY <1>1 DEF Inv, JobFits
  <2> QED BY <1>1, <1>4, <2>1, <2>2 DEF Inv, JobFits, Unspent, Owned, Loads
<1>9. Known(floor)'
  BY <1>1, KnownStill DEF Inv
<1>10. Ahead(file)'
  BY <1>1, <1>2, FileTypes DEF Ahead
<1>11. (~lost => Disjoint)' /\ RefusedOnlyAfterLoss'
  BY <1>1 DEF Inv, Disjoint, RefusedOnlyAfterLoss
<1> QED BY <1>3, <1>6, <1>7, <1>8, <1>9, <1>10, <1>11 DEF Inv

\* A copy is put back: it does not load, or it was not made during a spend, or the
\* record of that spend is now lost.
LEMMA RestoreStep ==
  ASSUME Inv, Restore
  PROVE  Inv'
<1>1. /\ job.pc = "idle" /\ file' = backup
      /\ UNCHANGED <<tree, spent, balance, inbox, tickets, floor, backup, early, job, events, public,
                     conflict>>
      /\ lost' = (lost \/ (early # {} /\ Loads(backup, floor)))
  BY DEF Restore, chain, outside, load_wallet, Loads
<1>2. TypeOK /\ backup \in WalletFile
  BY DEF Inv, TypeOK
<1>3. TypeOK'
  BY <1>1, <1>2 DEF TypeOK
<1>4. Grows /\ Live' \subseteq Live /\ Taken' \subseteq Taken /\ (lost => lost')
  <2>1. Grows
    BY <1>1, <1>2 DEF Grows, TypeOK
  <2>2. Live' \subseteq Live /\ Taken' \subseteq Taken
    BY <1>1 DEF Live, Taken
  <2>3. lost => lost'
    BY <1>1
  <2> QED BY <2>1, <2>2, <2>3
<1>5. Fits(backup, floor, early)'
  BY <1>1, <1>4, BackupStays
<1>6. Fits(file, floor, Open(job))'
  <2>1. Open(job)' = {}
    BY <1>1 DEF Open
  <2>2. Content(file)' /\ Entries(file, floor)'
    BY <1>1, <1>5 DEF Fits, Content, Entries, Unspent
  <2>3. Loads(file, floor)' => Ready(file, {})'
    <3> SUFFICES ASSUME Loads(backup, floor) PROVE Ready(file, {})'
      BY <1>1 DEF Loads
    <3>1. Ready(backup, early)'
      BY <1>1, <1>5 DEF Fits, Loads
    <3>2. early = {} \/ lost'
      BY <1>1
    <3> QED BY <1>1, <3>1, <3>2 DEF Ready, Records
  <2> QED BY <2>1, <2>2, <2>3 DEF Fits
<1>7. JobFits(job, file, floor)'
  BY <1>1, NoCommand
<1>8. Known(floor)'
  BY <1>1 DEF Inv, Known, Live, Owned
<1>9. Ahead(file)'
  BY <1>1, <1>2, FileTypes DEF Ahead
<1>10. (~lost => Disjoint)' /\ RefusedOnlyAfterLoss'
  BY <1>1 DEF Inv, Disjoint, RefusedOnlyAfterLoss
<1> QED BY <1>3, <1>5, <1>6, <1>7, <1>8, <1>9, <1>10 DEF Inv

LEMMA SameStep ==
  ASSUME Inv, net' = net,
         UNCHANGED <<tree, spent, balance, inbox, tickets, file, floor, backup, early, job,
                     events, public, lost, conflict>>
  PROVE  Inv'
<1>1. UNCHANGED <<chain, outside, ghosts>>
  BY DEF chain, outside, ghosts
<1>2. TypeOK /\ file \in WalletFile /\ backup \in WalletFile /\ job \in Job
  BY DEF Inv, TypeOK
<1>3. Grows /\ Live' \subseteq Live /\ Taken' \subseteq Taken /\ (lost => lost')
  BY <1>2, Still
<1>4. TypeOK' /\ (~lost => Disjoint') /\ RefusedOnlyAfterLoss'
  BY <1>2 DEF Inv, TypeOK, Disjoint, RefusedOnlyAfterLoss
<1>5. Owned(tree, floor)'
  BY DEF Inv, Known, Owned
<1> QED BY <1>3, <1>4, <1>5, WorldStep

-----------------------------------------------------------------------------
(***************************************************************************)
(* Every step keeps the invariant.                                         *)
(***************************************************************************)
\* With the network, which no step changes.
WalletInv == Inv /\ net \in {"rollup", "ledger"}

LEMMA WalletInit == Init => WalletInv
BY InitInv DEF Init, WalletInv

LEMMA NetStays == ASSUME [Next]_vars PROVE net' = net
BY DEF Next, Command, Chain, vars, setup, Deliver, TicketArrives, Gift, TopUp, BackUp,
       Restore, run_user_profile, StartSync, SyncBatch, SyncFinalize, StartScan,
       apply_scan_feed, cmd_transfer, cmd_unshield, cmd_transfer_rollup,
       cmd_unshield_rollup, Transfer, Unshield, persist_wallet_and_make_proof,
       cmd_shield_rollup, submit_kernel_message, wait_for_operator_terminal,
       post_to_ledger, Record, cmd_address, ShowAddress, StartDeposit, Preflight,
       SendTicket, StartRecover, RecoverDeposits, CommandEnds

LEMMA CommandStep ==
  ASSUME WalletInv, Command
  PROVE  Inv'
<1> USE DEF WalletInv
<1>1. CASE run_user_profile
  <2>1. net' = net /\ UNCHANGED <<tree, spent, balance, inbox, tickets, file, floor, backup, early,
                                  job, events, public, lost, conflict>>
    BY <1>1 DEF run_user_profile, chain, outside, ghosts
  <2> QED BY <2>1, SameStep
<1>2. CASE StartSync \/ SyncBatch \/ SyncFinalize
  BY <1>2, StartSyncStep, SyncBatchStep, SyncFinalizeStep
<1>3. CASE StartScan \/ apply_scan_feed
  BY <1>3, StartScanStep, ScanStep
<1>4. CASE cmd_transfer \/ cmd_unshield \/ cmd_transfer_rollup \/ cmd_unshield_rollup
  <2>1. job.pc = "idle" /\ Loads(file, floor) /\ (Transfer \/ Unshield)
    BY <1>4 DEF cmd_transfer, cmd_unshield, cmd_transfer_rollup, cmd_unshield_rollup, Start,
                load_wallet, Loads
  <2> QED BY <2>1, SpendStep
<1>5. CASE \E p \in Pool : cmd_shield_rollup(p)
  BY <1>5, ShieldStep
<1>6. CASE submit_kernel_message \/ wait_for_operator_terminal \/ post_to_ledger \/ Record
  BY <1>6, SubmitStep, WaitStep, PostStep, RecordStep
<1>7. CASE cmd_address \/ ShowAddress
  BY <1>7, NextAddressStep, ShowAddressStep
<1>8. CASE StartDeposit \/ Preflight \/ SendTicket
  BY <1>8, NextAddressStep, PreflightStep, SendTicketStep
<1>9. CASE StartRecover \/ RecoverDeposits
  BY <1>9, StartRecoverStep, RecoverDepositsStep
<1>10. CASE CommandEnds
  BY <1>10, CommandEndsStep
<1> QED BY <1>1, <1>2, <1>3, <1>4, <1>5, <1>6, <1>7, <1>8, <1>9, <1>10 DEF Command

LEMMA WalletNext == WalletInv /\ [Next]_vars => WalletInv'
<1> SUFFICES ASSUME WalletInv, [Next]_vars PROVE WalletInv'
  OBVIOUS
<1>1. net' = net
  BY NetStays
<1>2. ASSUME Command PROVE Inv'
  BY <1>2, CommandStep
<1>3. ASSUME Chain PROVE Inv'
  BY <1>3, DeliverStep, TicketArrivesStep, GiftStep, TopUpStep DEF Chain, WalletInv
<1>4. ASSUME BackUp \/ Restore PROVE Inv'
  BY <1>4, BackUpStep, RestoreStep DEF WalletInv
<1>5. ASSUME UNCHANGED vars PROVE Inv'
  BY <1>5, SameStep DEF vars, WalletInv
<1>6. Inv'
  BY <1>2, <1>3, <1>4, <1>5 DEF Next
<1> QED BY <1>1, <1>6 DEF WalletInv

\* The wallet's state is well formed through all its commands: files, floor,
\* transaction and pinned head of a running command, and what is on its way.
THEOREM WalletTypes == Spec => []TypeOK
<1>1. WalletInv => TypeOK
  BY DEF WalletInv, Inv
<1> QED BY <1>1, WalletInit, WalletNext, PTL DEF Spec

\* A wallet file that loads holds every unspent note sent to the wallet up to its
\* cursor, and nothing but such notes and spent ones (apply_scan_feed_recover_batch,
\* apply_scan_feed_finalize, finalize_successful_spend), with any checkpoint
\* interval, and after any sequence of failed saves, crashes and restored copies.
THEOREM NotesAreKept == Spec => []NotesKept
<1>1. WalletInv => NotesKept
  BY DEF WalletInv, Inv, Fits, Content, NotesKept
<1> QED BY <1>1, WalletInit, WalletNext, PTL DEF Spec

\* A pool with money, or with a ticket on its way, lies in the grid of the counters
\* of any wallet file that loads, so recover-deposits finds it: cmd_bridge_deposit
\* saves address and entry, and with them the floor, before the ticket is sent.  The
\* bound on the nonce is inclusive, and has to be: a copy made between those saves
\* loads, and has the address without the entry.
THEOREM PoolsAreRecoverable == Spec => []PoolsRecoverable
<1>1. WalletInv => PoolsRecoverable
  <2> SUFFICES ASSUME WalletInv, load_wallet, NEW p \in Pool, balance[p] > 0 \/ p \in tickets
               PROVE  p[1] < file.addr /\ p[2] <= file.nonce
    BY DEF PoolsRecoverable
  <2>1. p \in Live /\ Loads(file, floor)
    BY DEF Live, load_wallet, Loads
  <2>2. p[1] < floor.addr /\ p[2] <= file.nonce
    BY <2>1 DEF WalletInv, Inv, Known, Fits, Ready
  <2>3. p[1] \in Int /\ floor.addr \in Nat /\ file.addr \in Int
    BY FileTypes DEF WalletInv, Inv, TypeOK, Floor, Pool, Addr
  <2> QED BY <2>1, <2>2, <2>3 DEF Loads
<1> QED BY <1>1, WalletInit, WalletNext, PTL DEF Spec

\* The chain refuses a spend for a spent input only if the record of an earlier
\* spend was lost: select_notes leaves out what register_pending_spend reserved, no
\* copy from before a spend loads over the floor the spend has saved, and a copy made
\* during a spend, which does load without the record, counts as its loss.
THEOREM RefusalsFollowLoss == Spec => []RefusedOnlyAfterLoss
<1>1. WalletInv => RefusedOnlyAfterLoss
  BY DEF WalletInv, Inv
<1> QED BY <1>1, WalletInit, WalletNext, PTL DEF Spec

\* Only the end of a sync changes the file at the pinned head.
LEMMA SyncEnds ==
  ASSUME Inv, Next, job.pc = "sync", file.scanned = job.pin.size, file' # file
  PROVE  SyncFinalize
<1>1. ~Chain
  BY DEF Chain, Deliver, TicketArrives, Gift, TopUp
<1>2. ~BackUp /\ ~Restore
  BY DEF BackUp, Restore
<1>3. ~SyncBatch
  BY DEF SyncBatch, Inv, TypeOK, WalletFile
<1>4. /\ ~run_user_profile /\ ~StartSync /\ ~StartScan /\ ~apply_scan_feed
      /\ ~cmd_transfer /\ ~cmd_unshield /\ ~cmd_transfer_rollup /\ ~cmd_unshield_rollup
      /\ ~(\E p \in Pool : cmd_shield_rollup(p))
  BY DEF run_user_profile, StartSync, StartScan, apply_scan_feed, cmd_transfer,
         cmd_unshield, cmd_transfer_rollup, cmd_unshield_rollup, cmd_shield_rollup, Start
<1>5. /\ ~submit_kernel_message /\ ~wait_for_operator_terminal /\ ~post_to_ledger /\ ~Record
      /\ ~cmd_address /\ ~ShowAddress /\ ~StartDeposit /\ ~Preflight /\ ~SendTicket
      /\ ~StartRecover /\ ~RecoverDeposits /\ ~CommandEnds
  BY DEF submit_kernel_message, wait_for_operator_terminal, post_to_ledger, Record,
         cmd_address, ShowAddress, StartDeposit, Preflight, SendTicket, StartRecover,
         RecoverDeposits, CommandEnds, Start
<1> QED BY <1>1, <1>2, <1>3, <1>4, <1>5 DEF Next, Command

\* A sync that comes to its end leaves exactly the unspent notes of the head it
\* pinned (cmd_rollup_sync), although the chain went on while it ran.
THEOREM SyncIsExact == Spec => SyncExact
<1>1. ASSUME WalletInv, Next, job.pc = "sync", file.scanned = job.pin.size, file' # file
      PROVE  file'.notes = Unspent(1..job.pin.size, job.pin.spent)
  <2> DEFINE w == finalize(file, Cms(fetch(job.from, file.scanned)), job.pin)
  <2>1. Inv /\ file \in WalletFile
    BY <1>1 DEF WalletInv, Inv, TypeOK
  <2>2. SyncFinalize
    BY <1>1, <2>1, SyncEnds
  <2>3. file' = w
    BY <1>1, <2>2 DEF SyncFinalize, save_wallet
  <2>4. w.notes = file.notes \ job.pin.spent
    BY <2>1 DEF finalize, WalletFile
  <2>5. /\ Unspent(1..job.pin.size, job.pin.spent) \subseteq file.notes
        /\ file.notes \subseteq Unspent(1..job.pin.size, {})
    BY <1>1, <2>1 DEF Inv, JobFits, Fits, Content
  <2> HIDE DEF w
  <2> QED BY <2>3, <2>4, <2>5 DEF Unspent
<1>2. WalletInv /\ [Next]_vars
      => [job.pc = "sync" /\ file.scanned = job.pin.size /\ file' # file
          => file'.notes = Unspent(1..job.pin.size, job.pin.spent)]_vars
  BY <1>1
<1> QED BY <1>2, WalletInit, WalletNext, PTL DEF Spec, SyncExact
=============================================================================
