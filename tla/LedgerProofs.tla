---------------------------- MODULE LedgerProofs ----------------------------
(***************************************************************************)
(* Proofs, for every value of the constants, of the safety properties of   *)
(* Ledger.  The inductive invariant IndInv adds to the properties what     *)
(* they need of each other: a nullifier names a leaf of the tree, no       *)
(* accepted root is ahead of the tree, and the replay set is the set of    *)
(* the applied shields.                                                    *)
(***************************************************************************)
EXTENDS Ledger, FiniteSetTheorems, SequenceTheorems, TLAPS

-----------------------------------------------------------------------------
(***************************************************************************)
(* Facts about Total, the sum of a family of u64 values, on which the      *)
(* conservation of value rests.                                            *)
(***************************************************************************)
\* The coins of a finite family are finitely many, so its total is a number
\* (the circuits' u128 sums never wrap).
LEMMA TotalIsNat ==
  ASSUME NEW S, IsFiniteSet(S), NEW f \in [S -> Amount]
  PROVE  IsFiniteSet(Coins(f)) /\ Total(f) \in Nat
<1>1. IsFiniteSet(1..U64Max)
  BY CircuitsAssumption, FS_Interval
<1>2. IsFiniteSet(S \X (1..U64Max))
  BY <1>1, FS_Product
<1>3. Coins(f) \subseteq S \X (1..U64Max)
  BY DEF Coins
<1> QED
  BY <1>2, <1>3, FS_Subset, FS_CardinalityType DEF Total

\* f is g on S and h on T, two disjoint sets.
Splits(f, g, S, h, T) ==
  /\ IsFiniteSet(S) /\ IsFiniteSet(T) /\ S \cap T = {}
  /\ f \in [S \cup T -> Amount] /\ g \in [S -> Amount] /\ h \in [T -> Amount]
  /\ \A x \in S : f[x] = g[x]
  /\ \A x \in T : f[x] = h[x]

\* The total over two disjoint index sets is the sum of the two totals.
LEMMA TotalUnion ==
  ASSUME NEW S, NEW T, NEW f, NEW g, NEW h, Splits(f, g, S, h, T)
  PROVE  Total(f) = Total(g) + Total(h)
<1> USE DEF Splits
<1>1. IsFiniteSet(Coins(g)) /\ IsFiniteSet(Coins(h))
  BY TotalIsNat
<1>2. Coins(f) = Coins(g) \cup Coins(h)
  BY DEF Coins
<1>3. Coins(g) \cap Coins(h) = {}
  BY DEF Coins
<1>4. Cardinality(Coins(f)) =
        Cardinality(Coins(g)) + Cardinality(Coins(h)) - Cardinality({})
  BY <1>1, <1>2, <1>3, FS_Union
<1> QED
  BY <1>4, FS_EmptySet, TotalIsNat DEF Total

\* The total of a single value is that value.
LEMMA TotalSingle ==
  ASSUME NEW x, NEW f \in [{x} -> Amount]
  PROVE  Total(f) = f[x]
<1>1. f[x] \in 0..U64Max /\ U64Max \in Nat
  BY CircuitsAssumption DEF Amount
<1>2. Coins(f) = {x} \X (1..f[x])
  BY <1>1 DEF Coins
<1>3. IsFiniteSet(1..f[x]) /\ Cardinality(1..f[x]) = f[x]
  BY <1>1, FS_Interval
<1>4. IsFiniteSet({x}) /\ Cardinality({x}) = 1
  BY FS_Singleton
<1>5. Cardinality({x} \X (1..f[x])) = Cardinality({x}) * Cardinality(1..f[x])
  BY <1>3, <1>4, FS_Product
<1> QED
  BY <1>1, <1>2, <1>3, <1>4, <1>5 DEF Total

\* One more index adds its value.
LEMMA TotalAdd ==
  ASSUME NEW S, IsFiniteSet(S), NEW x, x \notin S,
         NEW f \in [S \cup {x} -> Amount], NEW g \in [S -> Amount],
         \A y \in S : f[y] = g[y]
  PROVE  Total(f) = Total(g) + f[x]
<1> DEFINE h == [y \in {x} |-> f[x]]
<1>1. h \in [{x} -> Amount] /\ h[x] = f[x]
  OBVIOUS
<1>2. IsFiniteSet({x}) /\ S \cap {x} = {}
  BY FS_Singleton
<1>3. \A y \in {x} : f[y] = h[y]
  OBVIOUS
<1>4. Splits(f, g, S, h, {x})
  BY <1>1, <1>2, <1>3 DEF Splits
<1>5. Total(f) = Total(g) + Total(h)
  BY <1>4, TotalUnion
<1> QED
  BY <1>1, <1>5, TotalSingle

\* Changing one value changes the total by the difference.
LEMMA TotalUpdate ==
  ASSUME NEW S, IsFiniteSet(S), NEW x \in S, NEW f \in [S -> Amount],
         NEW v \in Amount
  PROVE  Total([f EXCEPT ![x] = v]) = Total(f) - f[x] + v
<1> DEFINE g == [y \in S \ {x} |-> f[y]]
           f1 == [f EXCEPT ![x] = v]
<1>1. IsFiniteSet(S \ {x}) /\ x \notin S \ {x} /\ S = (S \ {x}) \cup {x}
  BY FS_RemoveElement
<1>2. g \in [S \ {x} -> Amount]
  OBVIOUS
<1>3. Total(f) = Total(g) + f[x]
  <2>1. f \in [(S \ {x}) \cup {x} -> Amount] /\ \A y \in S \ {x} : f[y] = g[y]
    BY <1>1
  <2> QED BY <1>1, <1>2, <2>1, TotalAdd
<1>4. Total(f1) = Total(g) + f1[x]
  <2>1. f1 \in [(S \ {x}) \cup {x} -> Amount] /\ \A y \in S \ {x} : f1[y] = g[y]
    BY <1>1
  <2> HIDE DEF f1, g
  <2> QED BY <1>1, <1>2, <2>1, TotalAdd
<1>5. f1[x] = v /\ Total(g) \in Nat /\ f[x] \in Int /\ v \in Int
  BY <1>1, <1>2, TotalIsNat, CircuitsAssumption DEF Amount
<1> HIDE DEF f1, g
<1>6. Total(f1) = Total(f) - f[x] + v
  BY <1>3, <1>4, <1>5
<1> QED
  BY <1>6 DEF f1

\* g lists the values of f in another order, that of the bijection b.
Reorders(g, T, f, S, b) ==
  /\ IsFiniteSet(S)
  /\ f \in [S -> Amount] /\ g \in [T -> Amount] /\ b \in [T -> S]
  /\ \A t, u \in T : b[t] = b[u] => t = u
  /\ \A s \in S : \E t \in T : b[t] = s
  /\ \A t \in T : g[t] = f[b[t]]

\* The total does not depend on how the values are indexed.
LEMMA TotalReindex ==
  ASSUME NEW S, NEW T, NEW f, NEW g, NEW b, Reorders(g, T, f, S, b)
  PROVE  Total(g) = Total(f)
<1> USE DEF Reorders
<1> DEFINE B == [c \in Coins(g) |-> <<b[c[1]], c[2]>>]
<1>1. B \in [Coins(g) -> Coins(f)]
  BY DEF Coins
<1>2. \A c, d \in Coins(g) : B[c] = B[d] => c = d
  BY DEF Coins
<1>3. \A c \in Coins(f) : \E d \in Coins(g) : B[d] = c
  <2> TAKE c \in Coins(f)
  <2>1. PICK t \in T : b[t] = c[1]
    BY DEF Coins
  <2>2. <<t, c[2]>> \in Coins(g) /\ c = <<b[t], c[2]>>
    BY <2>1 DEF Coins
  <2> QED BY <2>2
<1> HIDE DEF B
<1>4. B \in Injection(Coins(g), Coins(f))
  BY <1>1, <1>2 DEF Injection, IsInjective
<1>5. B \in Surjection(Coins(g), Coins(f))
  BY <1>1, <1>3 DEF Surjection
<1>6. IsFiniteSet(Coins(f))
  BY TotalIsNat
<1> QED
  BY <1>4, <1>5, <1>6, FS_Injection DEF Total

-----------------------------------------------------------------------------
(***************************************************************************)
(* What a list of new commitments is worth.                                *)
(***************************************************************************)
Worth(cms) == Total([i \in 1..Len(cms) |-> Value[cms[i]]])

\* It is a number.
LEMMA WorthIsNat ==
  ASSUME NEW cms \in Seq(Commitment)
  PROVE  Worth(cms) \in Nat
<1> DEFINE w == [i \in 1..Len(cms) |-> Value[cms[i]]]
<1>1. Len(cms) \in Nat /\ \A i \in 1..Len(cms) : cms[i] \in Commitment
  OBVIOUS
<1>2. w \in [1..Len(cms) -> Amount]
  BY <1>1, CircuitsAssumption DEF Amount
<1>3. IsFiniteSet(1..Len(cms))
  BY <1>1, FS_Interval
<1>4. Total(w) \in Nat
  <2> HIDE DEF w
  <2> QED BY <1>2, <1>3, TotalIsNat
<1> QED
  BY <1>4 DEF Worth

\* The worth of one output, of two and of three is the sum of their values.
LEMMA WorthOne ==
  ASSUME NEW a \in Commitment
  PROVE  Worth(<<a>>) = Value[a]
<1> DEFINE f == [i \in 1..1 |-> Value[<<a>>[i]]]
<1>1. f \in [{1} -> Amount] /\ f[1] = Value[a]
  BY CircuitsAssumption DEF Amount
<1>2. Worth(<<a>>) = Total(f)
  BY DEF Worth
<1> HIDE DEF f
<1> QED
  BY <1>1, <1>2, TotalSingle

LEMMA WorthTwo ==
  ASSUME NEW a \in Commitment, NEW b \in Commitment
  PROVE  Worth(<<a, b>>) = Value[a] + Value[b]
<1> DEFINE f == [i \in 1..2 |-> Value[<<a, b>>[i]]]
           g == [i \in 1..1 |-> Value[<<a>>[i]]]
<1>1. /\ f \in [{1} \cup {2} -> Amount] /\ g \in [{1} -> Amount]
      /\ \A y \in {1} : f[y] = g[y]
      /\ f[2] = Value[b]
  BY CircuitsAssumption DEF Amount
<1>2. Worth(<<a, b>>) = Total(f) /\ Worth(<<a>>) = Total(g)
  BY DEF Worth
<1>3. IsFiniteSet({1}) /\ 2 \notin {1}
  BY FS_Singleton
<1> HIDE DEF f, g
<1>4. Total(f) = Total(g) + f[2]
  BY <1>1, <1>3, TotalAdd
<1> QED
  BY <1>1, <1>2, <1>4, WorthOne

LEMMA WorthThree ==
  ASSUME NEW a \in Commitment, NEW b \in Commitment, NEW c \in Commitment
  PROVE  Worth(<<a, b, c>>) = Value[a] + Value[b] + Value[c]
<1> DEFINE f == [i \in 1..3 |-> Value[<<a, b, c>>[i]]]
           g == [i \in 1..2 |-> Value[<<a, b>>[i]]]
<1>1. /\ f \in [{1, 2} \cup {3} -> Amount] /\ g \in [{1, 2} -> Amount]
      /\ \A y \in {1, 2} : f[y] = g[y]
      /\ f[3] = Value[c]
  BY CircuitsAssumption DEF Amount
<1>2. Worth(<<a, b, c>>) = Total(f) /\ Worth(<<a, b>>) = Total(g)
  BY DEF Worth
<1>3. IsFiniteSet({1, 2}) /\ 3 \notin {1, 2}
  <2>1. IsFiniteSet({1} \cup {2})
    BY FS_Singleton, FS_AddElement
  <2>2. {1} \cup {2} = {1, 2} /\ 3 \notin {1, 2}
    OBVIOUS
  <2> QED BY <2>1, <2>2
<1> HIDE DEF f, g
<1>4. Total(f) = Total(g) + f[3]
  BY <1>1, <1>3, TotalAdd
<1> QED
  BY <1>1, <1>2, <1>4, WorthTwo

-----------------------------------------------------------------------------
(***************************************************************************)
(* The value of the notes at some positions of the tree.                   *)
(***************************************************************************)
LEMMA ValuesType ==
  ASSUME NEW ns \in Seq(Note), NEW P \in SUBSET (1..Len(ns))
  PROVE  IsFiniteSet(P) /\ ValuesAt(ns, P) \in [P -> Amount]
<1>1. Len(ns) \in Nat /\ \A i \in 1..Len(ns) : ns[i].cm \in Commitment
  <2>1. Len(ns) \in Nat /\ \A i \in 1..Len(ns) : ns[i] \in Note
    OBVIOUS
  <2> QED BY <2>1 DEF Note
<1>2. IsFiniteSet(1..Len(ns))
  BY <1>1, FS_Interval
<1>3. IsFiniteSet(P)
  BY <1>2, FS_Subset
<1>4. \A i \in P : Value[ns[i].cm] \in Amount
  BY <1>1, CircuitsAssumption DEF Amount
<1> QED
  BY <1>3, <1>4 DEF ValuesAt

\* Values of disjoint sets of positions add up.
LEMMA ValuesSplit ==
  ASSUME NEW ns \in Seq(Note), NEW P \in SUBSET (1..Len(ns)),
         NEW Q \in SUBSET (1..Len(ns)), P \cap Q = {}
  PROVE  Total(ValuesAt(ns, P \cup Q)) = Total(ValuesAt(ns, P)) + Total(ValuesAt(ns, Q))
<1> DEFINE f == ValuesAt(ns, P \cup Q)
           g == ValuesAt(ns, P)
           h == ValuesAt(ns, Q)
<1>1. IsFiniteSet(P) /\ g \in [P -> Amount]
  BY ValuesType
<1>2. IsFiniteSet(Q) /\ h \in [Q -> Amount]
  BY ValuesType
<1>3. P \cup Q \in SUBSET (1..Len(ns))
  OBVIOUS
<1>4. f \in [P \cup Q -> Amount]
  BY <1>3, ValuesType
<1>5. (\A x \in P : f[x] = g[x]) /\ (\A x \in Q : f[x] = h[x])
  BY DEF ValuesAt
<1> HIDE DEF f, g, h
<1>6. Splits(f, g, P, h, Q)
  BY <1>1, <1>2, <1>4, <1>5 DEF Splits
<1>7. Total(f) = Total(g) + Total(h)
  BY <1>6, TotalUnion
<1> QED
  BY <1>7 DEF f, g, h

\* Distinct nullifiers sum to the value of the positions they name.
LEMMA SumInDistinct ==
  ASSUME NEW ns \in Seq(Note), NEW k \in Nat, NEW nfs \in [1..k -> 1..Len(ns)],
         \A i, j \in 1..k : nfs[i] = nfs[j] => i = j
  PROVE  SumIn(ns, nfs) = Total(ValuesAt(ns, {nfs[i] : i \in 1..k}))
<1> DEFINE N == {nfs[i] : i \in 1..k}
           w == [i \in 1..k |-> Value[ns[nfs[i]].cm]]
           h == ValuesAt(ns, N)
<1>1. N \in SUBSET (1..Len(ns))
  OBVIOUS
<1>2. IsFiniteSet(N) /\ h \in [N -> Amount]
  BY <1>1, ValuesType
<1>3. nfs \in [1..k -> N] /\ \A s \in N : \E t \in 1..k : nfs[t] = s
  OBVIOUS
<1>4. w = [t \in 1..k |-> h[nfs[t]]]
  BY <1>3 DEF ValuesAt
<1>5. SumIn(ns, nfs) = Total(w)
  BY DEF SumIn
<1> HIDE DEF w, h, N
<1>6. w \in [1..k -> Amount] /\ \A t \in 1..k : w[t] = h[nfs[t]]
  BY <1>2, <1>3, <1>4
<1>7. Reorders(w, 1..k, h, N, nfs)
  BY <1>2, <1>3, <1>6 DEF Reorders
<1>8. Total(w) = Total(h)
  BY <1>7, TotalReindex
<1> QED
  BY <1>5, <1>8 DEF h, N

\* The leaves ms are the leaves ns followed by the commitments cms.
Extended(ms, ns, cms) ==
  /\ ns \in Seq(Note) /\ ms \in Seq(Note) /\ cms \in Seq(Commitment)
  /\ Len(ms) = Len(ns) + Len(cms)
  /\ \A i \in 1..Len(ns) : ms[i] = ns[i]
  /\ \A i \in 1..Len(cms) : ms[Len(ns) + i].cm = cms[i]

\* The new leaves are worth what their commitments are worth, and the old
\* ones keep their value.
LEMMA ValuesAppended ==
  ASSUME NEW ns, NEW ms, NEW cms, Extended(ms, ns, cms),
         NEW P \in SUBSET (1..Len(ns))
  PROVE  Total(ValuesAt(ms, P \cup ((Len(ns) + 1)..Len(ms)))) =
           Total(ValuesAt(ns, P)) + Worth(cms)
<1> USE DEF Extended
<1> DEFINE n == Len(ns)
           m == Len(cms)
           Q == (Len(ns) + 1)..Len(ms)
           h == ValuesAt(ms, Q)
           w == [i \in 1..m |-> Value[cms[i]]]
           b == [i \in 1..m |-> n + i]
<1>1. n \in Nat /\ m \in Nat /\ Len(ms) = n + m
  OBVIOUS
<1>2. Q \in SUBSET (1..Len(ms)) /\ P \in SUBSET (1..Len(ms)) /\ P \cap Q = {}
  BY <1>1
<1>3. Total(ValuesAt(ms, P \cup Q)) = Total(ValuesAt(ms, P)) + Total(h)
  <2> HIDE DEF Q
  <2> QED BY <1>2, ValuesSplit
<1>4. ValuesAt(ms, P) = ValuesAt(ns, P)
  BY DEF ValuesAt
<1>5. IsFiniteSet(Q) /\ h \in [Q -> Amount]
  BY <1>2, ValuesType
<1>6. \A i \in 1..m : cms[i] \in Commitment
  OBVIOUS
<1>7. w \in [1..m -> Amount]
  BY <1>6, CircuitsAssumption DEF Amount
<1>8. b \in [1..m -> Q] /\ \A t, u \in 1..m : b[t] = b[u] => t = u
  BY <1>1
<1>9. \A s \in Q : s - n \in 1..m /\ b[s - n] = s
  BY <1>1
<1>10. \A t \in 1..m : w[t] = h[b[t]]
  BY <1>8 DEF ValuesAt
<1>11. Worth(cms) = Total(w)
  BY DEF Worth
<1> HIDE DEF h, w, b, Q
<1>12. \A s \in Q : \E t \in 1..m : b[t] = s
  BY <1>9
<1>13. Reorders(w, 1..m, h, Q, b)
  BY <1>5, <1>7, <1>8, <1>10, <1>12 DEF Reorders
<1>14. Total(w) = Total(h)
  BY <1>13, TotalReindex
<1> QED
  BY <1>3, <1>4, <1>11, <1>14 DEF Q

-----------------------------------------------------------------------------
(***************************************************************************)
(* The inductive invariant.                                                *)
(***************************************************************************)
RootsInTree == \A i \in 1..Len(root_history) : root_history[i] <= Len(notes)

\* The notes that an owner's proof claimed a payment for are spent.
ClaimsSpent == \A i \in 1..Len(claims) : claims[i].spent \subseteq nullifiers

\* What the properties need of each other.
Safe ==
  /\ nullifiers \subseteq 1..Len(notes)
  /\ RootsInTree
  /\ RootWindow
  /\ applied_shield_cms = {shields[i] : i \in 1..Len(shields)}
  /\ ShieldOnce
  /\ NotesRecoverable
  /\ WithdrawalsAsSigned
  /\ ClaimsSpent

IndInv == TypeOK /\ Safe /\ Conservation

-----------------------------------------------------------------------------
(***************************************************************************)
(* An applied request is the proof's own, made for this deployment, and a  *)
(* spend's root is one the tree had.                                       *)
(***************************************************************************)
LEMMA ShieldCase ==
  ASSUME ShieldStep
  PROVE  \E k \in PoolKey, cm \in Commitment, producer_cm \in Commitment,
            fee \in TxFee :
           LET p == ShieldProof(k, cm, producer_cm, fee)
           IN  ShieldProvable(p) /\ Shield(p, p, Here)
BY DEF ShieldStep, Shield, prepare_shield, bound, LedgerState

\* An opening under an accepted root is one of leaves of the tree.
LEMMA OpeningInTree ==
  ASSUME TypeOK, NEW o \in Openings(notes), o.root \in valid_roots
  PROVE  /\ o.root \in 1..Len(notes)
         /\ o.nullifiers \in NullifierLists(o.root)
         /\ o.sum_in = SumIn(notes, o.nullifiers)
<1>1. o.root # Forged
  BY DEF TypeOK, Forged
<1>2. \A i : o # Opening(notes, Forged, <<i>>)
  BY <1>1 DEF Opening
<1>3. PICK root \in 1..Len(notes) : \E nfs \in NullifierLists(root) :
        o = Opening(notes, root, nfs)
  BY <1>2 DEF Openings
<1> QED
  BY <1>3 DEF Opening

\* The same of transfers,
LEMMA TransferCase ==
  ASSUME TypeOK, TransferStep
  PROVE  \E o \in Openings(notes), cm \in [1..3 -> Commitment] :
           LET p == TransferProof(o, cm)
           IN  /\ TransferProvable(p, o.sum_in)
               /\ Transfer(p, p, Here)
               /\ o.root \in valid_roots
<1>1. PICK o \in Openings(notes), cm \in [1..3 -> Commitment] :
        LET p == TransferProof(o, cm)
        IN  /\ TransferProvable(p, o.sum_in)
            /\ \E d \in Domain :
                 \E r \in RelayedSpend(p, OtherTransfer(p, Len(notes)), d) :
                   Transfer(r, p, d)
  BY DEF TransferStep
<1> DEFINE p == TransferProof(o, cm)
<1>2. Transfer(p, p, Here)
  BY <1>1 DEF Transfer, prepare_transfer, bound, LedgerState
<1>3. p.root \in valid_roots
  BY <1>2 DEF Transfer, prepare_transfer, spendable, LedgerState
<1> QED
  BY <1>1, <1>2, <1>3 DEF TransferProof

\* and of unshields.
LEMMA UnshieldCase ==
  ASSUME TypeOK, UnshieldStep
  PROVE  \E o \in Openings(notes), fee \in TxFee, recipient \in Recipient,
            cm_change \in Commitment \cup {ZERO}, cm_fee \in Commitment :
           LET p == UnshieldProof(o, fee, recipient, cm_change, cm_fee)
           IN  /\ UnshieldProvable(p, o.sum_in)
               /\ Unshield(p, p, Here)
               /\ o.root \in valid_roots
<1>1. PICK o \in Openings(notes), fee \in TxFee, recipient \in Recipient,
           cm_change \in Commitment \cup {ZERO}, cm_fee \in Commitment :
        LET p == UnshieldProof(o, fee, recipient, cm_change, cm_fee)
        IN  /\ UnshieldProvable(p, o.sum_in)
            /\ \E d \in Domain :
                 \E r \in RelayedSpend(p, OtherUnshield(p, Len(notes)), d) :
                   Unshield(r, p, d)
  BY DEF UnshieldStep
<1> DEFINE p == UnshieldProof(o, fee, recipient, cm_change, cm_fee)
<1>2. Unshield(p, p, Here)
  BY <1>1 DEF Unshield, prepare_unshield, bound, LedgerState
<1>3. p.root \in valid_roots
  BY <1>2 DEF Unshield, prepare_unshield, spendable, LedgerState
<1> QED
  BY <1>1, <1>2, <1>3 DEF UnshieldProof

-----------------------------------------------------------------------------
(***************************************************************************)
(* Appending leaves and recording the root.                                *)
(***************************************************************************)
\* What append_and_snapshot does to the tree.
LEMMA AppendNotes ==
  ASSUME TypeOK, NEW cms \in Seq(Commitment), NEW enc \in {Sealed, Altered},
         append_and_snapshot(cms, enc)
  PROVE  /\ notes' \in Seq(Note)
         /\ Len(notes') = Len(notes) + Len(cms)
         /\ \A i \in 1..Len(notes) : notes'[i] = notes[i]
         /\ \A i \in 1..Len(cms) :
               notes'[Len(notes) + i] = [cm |-> cms[i], enc |-> enc]
<1> DEFINE new == [i \in 1..Len(cms) |-> [cm |-> cms[i], enc |-> enc]]
<1>1. new \in Seq(Note) /\ Len(new) = Len(cms)
  BY DEF Note
<1>2. notes' = notes \o new
  BY DEF append_and_snapshot
<1>3. notes \in Seq(Note) /\ Len(notes) \in Nat /\ Len(cms) \in Nat
  BY DEF TypeOK
<1>4. \A i \in 1..Len(cms) : new[i] = [cm |-> cms[i], enc |-> enc]
  OBVIOUS
<1> HIDE DEF new
<1>5. /\ notes' \in Seq(Note)
      /\ Len(notes') = Len(notes) + Len(cms)
      /\ \A i \in 1..(Len(notes) + Len(cms)) :
           notes'[i] = IF i <= Len(notes) THEN notes[i] ELSE new[i - Len(notes)]
  <2>1. /\ notes \o new \in Seq(Note)
        /\ Len(notes \o new) = Len(notes) + Len(new)
    BY <1>1, <1>3, ConcatProperties
  <2>2. \A i \in 1..(Len(notes) + Len(new)) : (notes \o new)[i] =
           IF i <= Len(notes) THEN notes[i] ELSE new[i - Len(notes)]
    BY <1>1, <1>3, ConcatProperties
  <2> QED BY <1>1, <1>2, <2>1, <2>2
<1>6. \A i \in 1..Len(notes) : notes'[i] = notes[i]
  BY <1>3, <1>5
<1>7. \A i \in 1..Len(cms) : notes'[Len(notes) + i] = new[i]
  BY <1>3, <1>5
<1> QED
  BY <1>4, <1>5, <1>6, <1>7

\* Recording a root keeps the window: the current root is the last entry,
\* the history is the accepted set, and its length is bounded.
LEMMA SnapshotRoot ==
  ASSUME TypeOK, RootsInTree, RootWindow,
         NEW cms \in Seq(Commitment), Len(cms) > 0,
         NEW enc \in {Sealed, Altered}, append_and_snapshot(cms, enc)
  PROVE  /\ valid_roots' \subseteq Nat
         /\ root_history' \in Seq(Nat)
         /\ RootsInTree'
         /\ RootWindow'
<1> DEFINE n == Len(notes) + Len(cms)
           H == root_history
           A == Append(root_history, n)
           L == Len(root_history) + 1
<1>1. Len(notes') = n /\ n \in Nat /\ n > Len(notes) /\ Len(notes) \in Nat
  BY AppendNotes DEF TypeOK
<1>2. H \in Seq(Nat) /\ Len(H) \in Nat /\ Len(H) <= MaxValidRoots
  BY DEF TypeOK, RootWindow
<1>3. n \notin valid_roots
  BY <1>1, <1>2 DEF RootWindow, RootsInTree
<1>4. /\ A \in Seq(Nat) /\ Len(A) = L /\ L \in Nat
      /\ \A i \in 1..Len(H) : A[i] = H[i]
      /\ A[L] = n
  BY <1>1, <1>2
<1>5. \A i, j \in 1..L : i < j => A[i] < A[j]
  <2> SUFFICES ASSUME NEW i \in 1..L, NEW j \in 1..L, i < j
               PROVE  A[i] < A[j]
    OBVIOUS
  <2>1. A[i] = H[i] /\ H[i] \in Nat /\ H[i] <= Len(notes)
    BY <1>2, <1>4 DEF RootsInTree
  <2>2. CASE j = L
    BY <2>1, <2>2, <1>1, <1>4
  <2>3. CASE j # L
    <3>1. j \in 1..Len(H) /\ i \in 1..Len(H)
      BY <2>3, <1>2
    <3> QED BY <3>1, <2>1, <1>4 DEF RootWindow
  <2> QED BY <2>2, <2>3
<1>6. \A i \in 1..L : A[i] <= n
  BY <1>5, <1>4, <1>1
<1>7. {A[i] : i \in 1..L} = valid_roots \cup {n}
  <2>1. {A[i] : i \in 1..L} = {H[i] : i \in 1..Len(H)} \cup {n}
    BY <1>2, <1>4
  <2> QED BY <2>1 DEF RootWindow
<1> DEFINE e == IF L > MaxValidRoots THEN L - MaxValidRoots ELSE 0
<1>8. /\ root_history' = SubSeq(A, e + 1, L)
      /\ valid_roots' = (valid_roots \cup {n}) \ {A[i] : i \in 1..e}
  BY <1>3, <1>4 DEF append_and_snapshot
<1>9. e \in 0..1 /\ L - e <= MaxValidRoots /\ e < L
  BY <1>2, LedgerAssumption
<1> HIDE DEF A, e, L, n
<1>10. /\ root_history' \in Seq(Nat) /\ Len(root_history') = L - e
       /\ \A i \in 1..(L - e) : root_history'[i] = A[i + e]
  <2>1. \A i \in (e+1)..L : A[i] \in Nat
    BY <1>4, <1>9
  <2>2. e + 1 \in Int /\ L \in Int /\ e + 1 <= L
    BY <1>4, <1>9
  <2>3. /\ SubSeq(A, e + 1, L) \in Seq(Nat)
        /\ Len(SubSeq(A, e + 1, L)) = IF e + 1 <= L THEN L - (e + 1) + 1 ELSE 0
        /\ \A i \in 1..(L - (e + 1) + 1) : SubSeq(A, e + 1, L)[i] = A[(e + 1) + i - 1]
    BY <2>1, <2>2, SubSeqProperties
  <2>4. L - (e + 1) + 1 = L - e /\ \A i \in 1..(L - e) : (e + 1) + i - 1 = i + e
    BY <1>4, <1>9
  <2>5. root_history' = SubSeq(A, e + 1, L)
    BY <1>8
  <2>6. root_history' \in Seq(Nat) /\ Len(root_history') = L - e
    BY <2>2, <2>3, <2>4, <2>5
  <2>7. \A i \in 1..(L - e) : root_history'[i] = A[i + e]
    BY <2>3, <2>4, <2>5
  <2> QED BY <2>6, <2>7
<1>11. valid_roots' = {A[i] : i \in (e+1)..L}
  <2>1. {A[i] : i \in 1..L} \ {A[i] : i \in 1..e} = {A[i] : i \in (e+1)..L}
    <3>1. \A i \in 1..e, j \in (e+1)..L : A[i] < A[j] /\ A[i] \in Nat /\ A[j] \in Nat
      BY <1>4, <1>5, <1>9
    <3>2. \A i \in 1..e, j \in (e+1)..L : A[i] # A[j]
      BY <3>1
    <3>3. 1..L = (1..e) \cup ((e+1)..L)
      BY <1>4, <1>9
    <3> QED BY <3>2, <3>3
  <2> QED BY <1>7, <1>8, <2>1
<1>12. valid_roots' = {root_history'[i] : i \in 1..Len(root_history')}
  <2>1. \A i \in (e+1)..L : i - e \in 1..(L-e) /\ root_history'[i - e] = A[i]
    BY <1>10, <1>9, <1>4
  <2>2. \A i \in 1..(L-e) : i + e \in (e+1)..L
    BY <1>9, <1>4
  <2> QED BY <1>10, <1>11, <2>1, <2>2
<1>13. n \in valid_roots'
  BY <1>11, <1>4, <1>9
<1>14. \A i, j \in 1..(L - e) : i < j => root_history'[i] < root_history'[j]
  <2> SUFFICES ASSUME NEW i \in 1..(L-e), NEW j \in 1..(L-e), i < j
               PROVE  root_history'[i] < root_history'[j]
    OBVIOUS
  <2>1. i + e \in 1..L /\ j + e \in 1..L /\ i + e < j + e
    BY <1>9, <1>4
  <2> QED BY <2>1, <1>5, <1>10
<1>15. RootWindow'
  BY <1>1, <1>9, <1>10, <1>12, <1>13, <1>14 DEF RootWindow, Root
<1>16. RootsInTree'
  <2>1. \A i \in 1..(L-e) : i + e \in 1..L
    BY <1>9, <1>4
  <2> QED BY <2>1, <1>1, <1>6, <1>10 DEF RootsInTree
<1>17. valid_roots' \subseteq Nat
  BY <1>4, <1>9, <1>11
<1> QED
  BY <1>10, <1>15, <1>16, <1>17

-----------------------------------------------------------------------------
(***************************************************************************)
(* The value of the unspent notes.                                         *)
(***************************************************************************)
LEMMA AppendedExtends ==
  ASSUME TypeOK, NEW cms \in Seq(Commitment), NEW enc \in {Sealed, Altered},
         append_and_snapshot(cms, enc)
  PROVE  Extended(notes', notes, cms)
<1>1. notes \in Seq(Note)
  BY DEF TypeOK
<1>2. \A i \in 1..Len(cms) : [cm |-> cms[i], enc |-> enc].cm = cms[i]
  OBVIOUS
<1> QED
  BY <1>1, <1>2, AppendNotes DEF Extended

\* Spending the positions N and appending cms.
LEMMA UnspentValue ==
  ASSUME TypeOK, nullifiers \subseteq 1..Len(notes),
         NEW cms \in Seq(Commitment), NEW enc \in {Sealed, Altered},
         append_and_snapshot(cms, enc),
         NEW N \in SUBSET Unspent, nullifiers' = nullifiers \cup N
  PROVE  /\ nullifiers' \subseteq 1..Len(notes')
         /\ Total(ValuesAt(notes, Unspent)) \in Nat
         /\ Total(ValuesAt(notes, N)) \in Nat
         /\ Total(ValuesAt(notes', Unspent')) =
              Total(ValuesAt(notes, Unspent)) - Total(ValuesAt(notes, N)) + Worth(cms)
<1> DEFINE U == Unspent
           R == Unspent \ N
           Q == (Len(notes) + 1)..Len(notes')
<1>1. Extended(notes', notes, cms)
  BY AppendedExtends
<1>2. /\ notes \in Seq(Note) /\ Len(notes) \in Nat /\ Len(cms) \in Nat
      /\ Len(notes') = Len(notes) + Len(cms)
  BY <1>1 DEF Extended
<1>3. N \in SUBSET (1..Len(notes)) /\ R \in SUBSET (1..Len(notes)) /\ R \cap N = {}
      /\ R \cup N = U /\ U \in SUBSET (1..Len(notes))
  BY DEF Unspent
<1>4. Total(ValuesAt(notes, R \cup N)) =
        Total(ValuesAt(notes, R)) + Total(ValuesAt(notes, N))
  BY <1>2, <1>3, ValuesSplit
<1>5. /\ Total(ValuesAt(notes, U)) \in Nat
      /\ Total(ValuesAt(notes, R)) \in Nat
      /\ Total(ValuesAt(notes, N)) \in Nat
  BY <1>2, <1>3, ValuesType, TotalIsNat
<1>6. nullifiers' \subseteq 1..Len(notes')
  BY <1>2, <1>3
<1>7. Unspent' = R \cup Q
  BY <1>2, <1>3 DEF Unspent
<1>8. Total(ValuesAt(notes', R \cup Q)) = Total(ValuesAt(notes, R)) + Worth(cms)
  <2> HIDE DEF R
  <2> QED BY <1>1, <1>3, ValuesAppended
<1>9. Worth(cms) \in Nat
  BY WorthIsNat
<1>10. Total(ValuesAt(notes', Unspent')) =
         Total(ValuesAt(notes, Unspent)) - Total(ValuesAt(notes, N)) + Worth(cms)
  <2>1. Total(ValuesAt(notes', Unspent')) = Total(ValuesAt(notes, R)) + Worth(cms)
    BY <1>7, <1>8
  <2>2. Total(ValuesAt(notes, Unspent)) =
          Total(ValuesAt(notes, R)) + Total(ValuesAt(notes, N))
    BY <1>3, <1>4
  <2> HIDE DEF R
  <2> QED BY <2>1, <2>2, <1>5, <1>9
<1> QED
  BY <1>5, <1>6, <1>10

\* No notes are worth nothing.
LEMMA NothingSpent == Total(ValuesAt(notes, {})) = 0
<1>1. Coins(ValuesAt(notes, {})) = {}
  BY DEF Coins, ValuesAt
<1> QED
  BY <1>1, FS_EmptySet DEF Total

\* A spend's inputs are unspent leaves and are worth sum_in.
LEMMA SpentValue ==
  ASSUME TypeOK, NEW r, NEW root \in 1..Len(notes),
         r.nullifiers \in NullifierLists(root), spendable(LedgerState, r), insert_nullifiers(r)
  PROVE  \E N \in SUBSET Unspent :
           /\ nullifiers' = nullifiers \cup N
           /\ Total(ValuesAt(notes, N)) = SumIn(notes, r.nullifiers)
<1> DEFINE nfs == r.nullifiers
<1>1. PICK k \in 1..MaxInputs : nfs \in [1..k -> 1..root]
  BY DEF NullifierLists
<1>2. k \in Nat /\ nfs \in [1..k -> 1..Len(notes)] /\ DOMAIN nfs = 1..k
  BY <1>1, CircuitsAssumption DEF TypeOK
<1>3. \A i, j \in 1..k : nfs[i] = nfs[j] => i = j
  BY <1>2 DEF spendable, LedgerState
<1>4. {nfs[i] : i \in 1..k} \in SUBSET Unspent
  BY <1>2 DEF spendable, LedgerState, Unspent
<1>5. nullifiers' = nullifiers \cup {nfs[i] : i \in 1..k}
  BY <1>2 DEF insert_nullifiers
<1>6. notes \in Seq(Note)
  BY DEF TypeOK
<1>7. SumIn(notes, nfs) = Total(ValuesAt(notes, {nfs[i] : i \in 1..k}))
  BY <1>2, <1>3, <1>6, SumInDistinct
<1> QED
  BY <1>4, <1>5, <1>7

-----------------------------------------------------------------------------
(***************************************************************************)
(* One lemma per action.                                                   *)
(***************************************************************************)
LEMMA InitInv ==
  ASSUME Init
  PROVE  IndInv
<1> USE DEF Init
<1>1. TypeOK
  BY CircuitsAssumption, CapacityAssumption, LedgerAssumption DEF TypeOK, Amount
<1>2. Safe
  BY LedgerAssumption DEF Safe, RootsInTree, RootWindow, Root, ShieldOnce,
     NotesRecoverable, WithdrawalsAsSigned, ClaimsSpent
<1>3. Conservation
  <2>1. Total(deposit_balances) = 0
    <3>1. Coins(deposit_balances) = {}
      BY CircuitsAssumption DEF Coins
    <3> QED BY <3>1, FS_EmptySet DEF Total
  <2>2. Total(ValuesAt(notes, Unspent)) = 0
    <3>1. Unspent = {}
      BY DEF Unspent
    <3> QED BY <3>1, NothingSpent
  <2>3. Total(Withdrawn) = 0
    <3>1. Coins(Withdrawn) = {}
      BY DEF Coins, Withdrawn
    <3> QED BY <3>1, FS_EmptySet DEF Total
  <2> QED BY <2>1, <2>2, <2>3 DEF Conservation
<1> QED
  BY <1>1, <1>2, <1>3 DEF IndInv

\* The three totals of Conservation are numbers.
LEMMA TotalsAreNat ==
  ASSUME TypeOK
  PROVE  /\ Total(deposit_balances) \in Nat
         /\ Total(ValuesAt(notes, Unspent)) \in Nat
         /\ Total(Withdrawn) \in Nat
<1>1. Total(deposit_balances) \in Nat
  BY CircuitsAssumption, TotalIsNat DEF TypeOK
<1>2. Total(ValuesAt(notes, Unspent)) \in Nat
  <2>1. notes \in Seq(Note) /\ Unspent \in SUBSET (1..Len(notes))
    BY DEF TypeOK, Unspent
  <2> QED BY <2>1, ValuesType, TotalIsNat
<1>3. Total(Withdrawn) \in Nat
  <2>1. Len(withdrawals) \in Nat /\ \A i \in 1..Len(withdrawals) :
          withdrawals[i] \in Withdrawal
    BY DEF TypeOK
  <2>2. Withdrawn \in [1..Len(withdrawals) -> Amount]
    BY <2>1 DEF Withdrawn, Withdrawal
  <2>3. IsFiniteSet(1..Len(withdrawals))
    BY <2>1, FS_Interval
  <2> QED BY <2>2, <2>3, TotalIsNat
<1> QED
  BY <1>1, <1>2, <1>3

\* The pools are worth the difference more, or less.
LEMMA BalanceUpdate ==
  ASSUME deposit_balances \in [PoolKey -> Amount], NEW k \in PoolKey,
         NEW v \in Amount,
         deposit_balances' = [deposit_balances EXCEPT ![k] = v]
  PROVE  Total(deposit_balances') = Total(deposit_balances) - deposit_balances[k] + v
<1>1. IsFiniteSet(PoolKey)
  BY CircuitsAssumption
<1> QED
  BY <1>1, TotalUpdate

\* A deposit keeps the invariant: the pools gain what L1 brought in.
LEMMA DepositInv ==
  ASSUME IndInv, NEW k \in PoolKey, NEW amount \in Amount, Deposit(k, amount)
  PROVE  IndInv'
<1> USE DEF IndInv
<1>1. TypeOK'
  BY CircuitsAssumption, LedgerAssumption DEF Deposit, TypeOK, Amount
<1>2. Safe'
  BY DEF Safe, Deposit, RootsInTree, RootWindow, Root, ShieldOnce,
     NotesRecoverable, WithdrawalsAsSigned, ClaimsSpent
<1>3. Conservation'
  <2>1. /\ deposit_balances \in [PoolKey -> Amount]
        /\ deposit_balances[k] + amount \in Amount
        /\ deposit_balances[k] \in Nat /\ amount \in Nat
        /\ deposit_balances' = [deposit_balances EXCEPT ![k] = deposit_balances[k] + amount]
    BY CircuitsAssumption DEF TypeOK, Amount, Deposit
  <2>2. Total(deposit_balances') =
          Total(deposit_balances) - deposit_balances[k] + (deposit_balances[k] + amount)
    BY <2>1, BalanceUpdate
  <2>3. Unspent' = Unspent /\ Withdrawn' = Withdrawn /\ notes' = notes
        /\ burned' = burned /\ deposited' = deposited + amount
    BY DEF Unspent, Withdrawn, Deposit
  <2>4. burned \in Nat /\ deposited \in Nat
    BY LedgerAssumption DEF TypeOK
  <2> QED
    BY <2>1, <2>2, <2>3, <2>4, TotalsAreNat DEF Conservation
<1> QED
  BY <1>1, <1>2, <1>3

\* The tree's part of the invariant, for the three actions that append.
LEMMA AppendSafe ==
  ASSUME IndInv, NEW cms \in Seq(Commitment), Len(cms) > 0,
         ensure_note_capacity(LedgerState, Len(cms)), append_and_snapshot(cms, Sealed)
  PROVE  /\ notes' \in Seq(Note) /\ Len(notes') <= Capacity
         /\ valid_roots' \subseteq Nat /\ root_history' \in Seq(Nat)
         /\ RootsInTree' /\ RootWindow' /\ NotesRecoverable'
<1> USE DEF IndInv, Safe
<1>1. /\ notes' \in Seq(Note)
      /\ Len(notes') = Len(notes) + Len(cms)
      /\ \A i \in 1..Len(notes) : notes'[i] = notes[i]
      /\ \A i \in 1..Len(cms) : notes'[Len(notes) + i] = [cm |-> cms[i], enc |-> Sealed]
  BY AppendNotes
<1>2. Len(notes) \in Nat /\ Len(cms) \in Nat /\ Len(notes') <= Capacity
  BY <1>1 DEF TypeOK, ensure_note_capacity, LedgerState
<1>3. NotesRecoverable'
  <2> SUFFICES ASSUME NEW i \in 1..Len(notes')
               PROVE  notes'[i].enc = Sealed
    BY DEF NotesRecoverable
  <2>1. CASE i <= Len(notes)
    BY <1>1, <1>2, <2>1 DEF NotesRecoverable
  <2>2. CASE i > Len(notes)
    <3>1. i - Len(notes) \in 1..Len(cms) /\ i = Len(notes) + (i - Len(notes))
      BY <1>1, <1>2, <2>2
    <3>2. notes'[i] = [cm |-> cms[i - Len(notes)], enc |-> Sealed]
      BY <1>1, <3>1
    <3> QED BY <3>2
  <2> QED BY <1>1, <1>2, <2>1, <2>2
<1> QED
  BY <1>1, <1>2, <1>3, SnapshotRoot

\* A shield: the pool's loss is two notes and a fee.
LEMMA ShieldInv ==
  ASSUME IndInv, NEW k \in PoolKey, NEW cm \in Commitment,
         NEW producer_cm \in Commitment, NEW fee \in TxFee,
         Shield(ShieldProof(k, cm, producer_cm, fee),
                ShieldProof(k, cm, producer_cm, fee), Here)
  PROVE  IndInv'
<1> USE DEF IndInv
<1> DEFINE p == ShieldProof(k, cm, producer_cm, fee)
           cms == <<cm, producer_cm>>
           owed == Value[cm] + fee + Value[producer_cm]
<1>1. /\ p.pubkey_hash = k /\ p.v = Value[cm] /\ p.fee = fee
      /\ p.producer_fee = Value[producer_cm] /\ p.client_cm = cm
      /\ p.producer_cm = producer_cm /\ p.enc = Sealed
  BY DEF ShieldProof
<1> HIDE DEF p
<1>2. /\ deposit_balances[k] >= owed
      /\ deposit_balances' = [deposit_balances EXCEPT ![k] = deposit_balances[k] - owed]
      /\ cm \notin applied_shield_cms
      /\ applied_shield_cms' = applied_shield_cms \cup {cm}
      /\ ensure_note_capacity(LedgerState, 2)
      /\ append_and_snapshot(cms, Sealed)
      /\ burned' = burned + fee
      /\ shields' = Append(shields, cm)
      /\ UNCHANGED <<nullifiers, withdrawals, deposited, claims>>
  <2>1. Shield(p, p, Here)
    BY DEF p
  <2> QED BY <2>1, <1>1 DEF Shield, prepare_shield, commit_prepared_shield, debit,
            shield_outputs, LedgerState
<1>3. cms \in Seq(Commitment) /\ Len(cms) = 2
  OBVIOUS
<1>4. /\ notes' \in Seq(Note) /\ Len(notes') <= Capacity
      /\ valid_roots' \subseteq Nat /\ root_history' \in Seq(Nat)
      /\ RootsInTree' /\ RootWindow' /\ NotesRecoverable'
  <2>1. Len(cms) > 0 /\ ensure_note_capacity(LedgerState, Len(cms)) /\ append_and_snapshot(cms, Sealed)
    BY <1>2, <1>3
  <2> HIDE DEF cms
  <2> QED BY <1>2, <1>3, <2>1, AppendSafe
<1>5. /\ Value[cm] \in Nat /\ Value[producer_cm] \in Nat /\ fee \in Nat
      /\ deposit_balances \in [PoolKey -> Amount] /\ deposit_balances[k] \in Nat
      /\ deposit_balances[k] - owed \in Amount
  <2>1. deposit_balances \in [PoolKey -> Amount] /\ deposit_balances[k] \in Amount
    BY DEF TypeOK
  <2>2. Value[cm] \in Nat /\ Value[producer_cm] \in Nat /\ fee \in Nat
    BY CircuitsAssumption
  <2>3. deposit_balances[k] >= owed
    BY <1>2
  <2> QED BY <2>1, <2>2, <2>3, CircuitsAssumption DEF Amount
<1>6. TypeOK'
  <2>1. deposit_balances' \in [PoolKey -> Amount] /\ burned' \in Nat
    BY <1>2, <1>5 DEF TypeOK
  <2>2. shields' \in Seq(Commitment) /\ applied_shield_cms' \subseteq Commitment
    BY <1>2 DEF TypeOK
  <2>3. UNCHANGED <<nullifiers, withdrawals, deposited, claims>>
    BY <1>2
  <2> QED BY <1>4, <2>1, <2>2, <2>3 DEF TypeOK
<1>7. /\ nullifiers' \subseteq 1..Len(notes')
      /\ Total(ValuesAt(notes', Unspent')) =
           Total(ValuesAt(notes, Unspent)) + Worth(cms)
  <2>1. {} \in SUBSET Unspent /\ nullifiers' = nullifiers \cup {}
    BY <1>2
  <2>2. nullifiers \subseteq 1..Len(notes)
    BY DEF Safe
  <2>3. append_and_snapshot(cms, Sealed) /\ Sealed \in {Sealed, Altered}
    BY <1>2
  <2> HIDE DEF cms
  <2>4. /\ nullifiers' \subseteq 1..Len(notes')
        /\ Total(ValuesAt(notes, Unspent)) \in Nat
        /\ Total(ValuesAt(notes', Unspent')) =
             Total(ValuesAt(notes, Unspent)) - Total(ValuesAt(notes, {})) + Worth(cms)
    BY <1>3, <2>1, <2>2, <2>3, UnspentValue
  <2> QED BY <1>3, <2>4, NothingSpent, WorthIsNat
<1>8. /\ applied_shield_cms' = {shields'[i] : i \in 1..Len(shields')}
      /\ ShieldOnce'
  <2>1. shields \in Seq(Commitment) /\ Len(shields) \in Nat
    BY DEF TypeOK
  <2>2. /\ Len(shields') = Len(shields) + 1 /\ shields'[Len(shields) + 1] = cm
        /\ \A i \in 1..Len(shields) : shields'[i] = shields[i]
    BY <1>2, <2>1
  <2>3. 1..Len(shields') = (1..Len(shields)) \cup {Len(shields) + 1}
    BY <2>1, <2>2
  <2>4. /\ applied_shield_cms = {shields[i] : i \in 1..Len(shields)}
        /\ \A i \in 1..Len(shields) : shields[i] # cm
    BY <1>2 DEF Safe
  <2>5. applied_shield_cms' = {shields'[i] : i \in 1..Len(shields')}
    BY <1>2, <2>2, <2>3, <2>4
  <2>6. ShieldOnce'
    BY <2>2, <2>3, <2>4 DEF ShieldOnce, Safe
  <2> QED BY <2>5, <2>6
<1>9. Safe'
  BY <1>2, <1>4, <1>7, <1>8 DEF Safe, WithdrawalsAsSigned, ClaimsSpent
<1>10. Conservation'
  <2>1. Total(deposit_balances') =
          Total(deposit_balances) - deposit_balances[k] + (deposit_balances[k] - owed)
    BY <1>2, <1>5, BalanceUpdate
  <2>2. Worth(cms) = Value[cm] + Value[producer_cm]
    BY WorthTwo
  <2>3. Withdrawn' = Withdrawn
    BY <1>2 DEF Withdrawn
  <2>4. burned \in Nat /\ deposited \in Nat
    BY LedgerAssumption DEF TypeOK
  <2>5. Total(deposit_balances') = Total(deposit_balances) - owed
    BY <1>5, <2>1, TotalsAreNat
  <2>6. /\ Total(ValuesAt(notes', Unspent')) =
             Total(ValuesAt(notes, Unspent)) + Value[cm] + Value[producer_cm]
        /\ burned' = burned + fee /\ deposited' = deposited
    BY <1>2, <1>5, <1>7, <2>2, TotalsAreNat
  <2> QED
    BY <1>5, <2>3, <2>4, <2>5, <2>6, TotalsAreNat DEF Conservation
<1> QED
  BY <1>6, <1>9, <1>10

\* A transfer: the spent notes are worth the new ones and the fee.
LEMMA TransferInv ==
  ASSUME IndInv, NEW o \in Openings(notes), NEW cm \in [1..3 -> Commitment],
         o.root \in valid_roots,
         TransferProvable(TransferProof(o, cm), o.sum_in),
         Transfer(TransferProof(o, cm), TransferProof(o, cm), Here)
  PROVE  IndInv'
<1> USE DEF IndInv
<1> DEFINE p == TransferProof(o, cm)
           cms == <<cm[1], cm[2], cm[3]>>
<1>1. /\ o.root \in 1..Len(notes)
      /\ o.nullifiers \in NullifierLists(o.root)
      /\ o.sum_in = SumIn(notes, o.nullifiers)
  BY OpeningInTree
<1>2. /\ p.root = o.root /\ p.nullifiers = o.nullifiers
      /\ p.cm_1 = cm[1] /\ p.cm_2 = cm[2] /\ p.cm_3 = cm[3] /\ p.enc = Sealed
  BY DEF TransferProof
<1>3. p.fee \in Amount /\ TransferProvable(p, o.sum_in) /\ Transfer(p, p, Here)
  BY DEF TransferProvable
<1> HIDE DEF p
<1>4. o.sum_in = Value[cm[1]] + Value[cm[2]] + Value[cm[3]] + p.fee
  BY <1>1, <1>2, <1>3 DEF TransferProvable, Forged, TypeOK
<1>5. /\ spendable(LedgerState, p) /\ insert_nullifiers(p)
      /\ ensure_note_capacity(LedgerState, 3)
      /\ append_and_snapshot(cms, Sealed)
      /\ burned' = burned + p.fee
      /\ UNCHANGED <<deposit_balances, applied_shield_cms, withdrawals,
                     deposited, shields, claims>>
  BY <1>2, <1>3 DEF Transfer, prepare_transfer, transfer_outputs
<1>6. cms \in Seq(Commitment) /\ Len(cms) = 3
  OBVIOUS
<1>7. /\ notes' \in Seq(Note) /\ Len(notes') <= Capacity
      /\ valid_roots' \subseteq Nat /\ root_history' \in Seq(Nat)
      /\ RootsInTree' /\ RootWindow' /\ NotesRecoverable'
  <2>1. Len(cms) > 0 /\ ensure_note_capacity(LedgerState, Len(cms)) /\ append_and_snapshot(cms, Sealed)
    BY <1>5, <1>6
  <2> HIDE DEF cms
  <2> QED BY <1>5, <1>6, <2>1, AppendSafe
<1>8. PICK N \in SUBSET Unspent :
        /\ nullifiers' = nullifiers \cup N
        /\ Total(ValuesAt(notes, N)) = o.sum_in
  BY <1>1, <1>2, <1>5, SpentValue
<1>9. /\ nullifiers' \subseteq 1..Len(notes')
      /\ Total(ValuesAt(notes', Unspent')) =
           Total(ValuesAt(notes, Unspent)) - o.sum_in + Worth(cms)
  <2>1. nullifiers \subseteq 1..Len(notes)
    BY DEF Safe
  <2>2. append_and_snapshot(cms, Sealed) /\ Sealed \in {Sealed, Altered}
    BY <1>5
  <2> HIDE DEF cms
  <2> QED BY <1>6, <1>8, <2>1, <2>2, UnspentValue
<1>10. TypeOK'
  <2>1. burned' \in Nat
    <3>1. burned \in Nat
      BY DEF TypeOK
    <3>2. p.fee \in Nat
      BY <1>3, CircuitsAssumption DEF Amount
    <3>3. burned' = burned + p.fee
      BY <1>5
    <3> QED BY <3>1, <3>2, <3>3
  <2>2. nullifiers' \subseteq Nat
    <3>1. Len(notes') \in Nat
      BY <1>7
    <3> QED BY <1>9, <3>1
  <2> QED BY <1>5, <1>7, <2>1, <2>2 DEF TypeOK
<1>11. Safe'
  BY <1>5, <1>7, <1>8, <1>9 DEF Safe, WithdrawalsAsSigned, ClaimsSpent, ShieldOnce
<1>12. Conservation'
  <2>1. Worth(cms) = Value[cm[1]] + Value[cm[2]] + Value[cm[3]]
    BY WorthThree
  <2>2. Withdrawn' = Withdrawn
    BY <1>5 DEF Withdrawn
  <2>3. /\ burned \in Nat /\ deposited \in Nat /\ p.fee \in Nat
        /\ Value[cm[1]] \in Nat /\ Value[cm[2]] \in Nat /\ Value[cm[3]] \in Nat
    BY <1>3, LedgerAssumption, CircuitsAssumption DEF TypeOK, Amount
  <2>4. /\ Total(ValuesAt(notes', Unspent')) = Total(ValuesAt(notes, Unspent)) - p.fee
        /\ burned' = burned + p.fee
    <3>1. Total(ValuesAt(notes, Unspent)) \in Nat
      BY TotalsAreNat
    <3>2. burned' = burned + p.fee
      BY <1>5
    <3>3. Total(ValuesAt(notes', Unspent')) =
            Total(ValuesAt(notes, Unspent)) - o.sum_in + Worth(cms)
      BY <1>9
    <3> HIDE DEF cms
    <3> QED BY <1>4, <2>1, <2>3, <3>1, <3>2, <3>3
  <2>5. deposited' = deposited /\ deposit_balances' = deposit_balances
    BY <1>5
  <2> QED
    BY <2>2, <2>3, <2>4, <2>5, TotalsAreNat DEF Conservation
<1> QED
  BY <1>10, <1>11, <1>12

\* A queued withdrawal adds its amount to what was withdrawn.
LEMMA WithdrawalAdded ==
  ASSUME TypeOK, NEW w \in Withdrawal, withdrawals' = Append(withdrawals, w)
  PROVE  Total(Withdrawn') = Total(Withdrawn) + w.amount
<1> DEFINE n == Len(withdrawals)
           f == Withdrawn'
           g == Withdrawn
<1>1. /\ withdrawals \in Seq(Withdrawal) /\ n \in Nat
      /\ withdrawals' \in Seq(Withdrawal)
      /\ Len(withdrawals') = n + 1
      /\ withdrawals'[n + 1] = w
      /\ \A i \in 1..n : withdrawals'[i] = withdrawals[i]
  BY DEF TypeOK
<1>2. 1..(n + 1) = (1..n) \cup {n + 1} /\ n + 1 \notin 1..n
  BY <1>1
<1>3. \A i \in 1..(n + 1) : withdrawals'[i] \in Withdrawal
  BY <1>1
<1>4. /\ f \in [1..(n + 1) -> Amount]
      /\ g \in [1..n -> Amount]
      /\ \A i \in 1..n : f[i] = g[i]
      /\ f[n + 1] = w.amount
  BY <1>1, <1>3 DEF Withdrawn, Withdrawal
<1>5. IsFiniteSet(1..n)
  BY <1>1, FS_Interval
<1> HIDE DEF f, g, n
<1> DEFINE S == 1..n
           x == n + 1
<1>6. /\ IsFiniteSet(S) /\ x \notin S
      /\ f \in [S \cup {x} -> Amount] /\ g \in [S -> Amount]
      /\ \A y \in S : f[y] = g[y]
  BY <1>2, <1>4, <1>5
<1> HIDE DEF S, x
<1>7. Total(f) = Total(g) + f[x]
  BY <1>6, TotalAdd
<1> QED
  BY <1>4, <1>7 DEF f, g, x

\* A claim that is paid, for notes that were not spent.
LEMMA ClaimAdded ==
  ASSUME TypeOK, WithdrawalsAsSigned, ClaimsSpent, NEW w \in Withdrawal,
         NEW c \in [recipient : Recipient, amount : Amount, spent : SUBSET Nat],
         withdrawals' = Append(withdrawals, w), claims' = Append(claims, c),
         w.recipient = c.recipient, w.amount = c.amount,
         nullifiers' = nullifiers \cup c.spent, c.spent \cap nullifiers = {}
  PROVE  WithdrawalsAsSigned' /\ ClaimsSpent'
<1>1. PICK n : n = Len(claims) /\ n = Len(withdrawals) /\ n \in Nat
  BY DEF WithdrawalsAsSigned, TypeOK
<1>2. /\ Len(claims') = n + 1 /\ claims'[n + 1] = c
      /\ \A i \in 1..n : claims'[i] = claims[i]
  <2>1. PICK T : T = [recipient : Recipient, amount : Amount, spent : SUBSET Nat]
    OBVIOUS
  <2>2. claims \in Seq(T) /\ c \in T
    BY <2>1 DEF TypeOK
  <2>3. PICK q, x : q = claims /\ x = Append(q, c) /\ x = claims'
    OBVIOUS
  <2>4. Len(x) = n + 1 /\ x[n + 1] = c /\ \A i \in 1..n : x[i] = q[i]
    <3>1. q \in Seq(T) /\ Len(q) = n /\ n \in Nat
      BY <1>1, <2>2, <2>3
    <3>2. Append(q, c)[n + 1] = c /\ Len(Append(q, c)) = n + 1
      BY <2>2, <3>1, AppendProperties
    <3>3. \A i \in 1..n : Append(q, c)[i] = q[i]
      BY <2>2, <3>1, AppendProperties
    <3> QED BY <2>3, <3>2, <3>3
  <2> QED BY <2>3, <2>4
<1>3. /\ Len(withdrawals') = n + 1 /\ withdrawals'[n + 1] = w
      /\ \A i \in 1..n : withdrawals'[i] = withdrawals[i]
  <2>1. withdrawals \in Seq(Withdrawal)
    BY DEF TypeOK
  <2> QED BY <1>1, <2>1, AppendProperties
<1>4. \A i \in 1..(n + 1) : i \in 1..n \/ i = n + 1
  BY <1>1
<1>5. ClaimsSpent'
  BY <1>1, <1>2, <1>4 DEF ClaimsSpent
<1>6. \A i \in 1..(n + 1) : /\ withdrawals'[i].recipient = claims'[i].recipient
                           /\ withdrawals'[i].amount = claims'[i].amount
  BY <1>1, <1>2, <1>3, <1>4 DEF WithdrawalsAsSigned
<1>7. \A i, j \in 1..(n + 1) : i # j => claims'[i].spent \cap claims'[j].spent = {}
  <2>1. \A i \in 1..n : claims'[i].spent \cap c.spent = {}
    BY <1>1, <1>2 DEF ClaimsSpent
  <2>2. \A i, j \in 1..n : i # j => claims'[i].spent \cap claims'[j].spent = {}
    BY <1>1, <1>2 DEF WithdrawalsAsSigned
  <2> QED BY <1>2, <1>4, <2>1, <2>2
<1> QED BY <1>2, <1>3, <1>5, <1>6, <1>7 DEF WithdrawalsAsSigned

\* An unshield: part of the spent notes becomes a withdrawal.
LEMMA UnshieldInv ==
  ASSUME IndInv, NEW o \in Openings(notes), NEW fee \in TxFee,
         NEW recipient \in Recipient, NEW cm_change \in Commitment \cup {ZERO},
         NEW cm_fee \in Commitment, o.root \in valid_roots,
         UnshieldProvable(UnshieldProof(o, fee, recipient, cm_change, cm_fee), o.sum_in),
         Unshield(UnshieldProof(o, fee, recipient, cm_change, cm_fee),
                  UnshieldProof(o, fee, recipient, cm_change, cm_fee), Here)
  PROVE  IndInv'
<1> USE DEF IndInv
<1> DEFINE p == UnshieldProof(o, fee, recipient, cm_change, cm_fee)
           cms == unshield_outputs(p)
           w == [recipient |-> recipient, amount |-> p.v_pub]
<1>1. /\ o.root \in 1..Len(notes)
      /\ o.nullifiers \in NullifierLists(o.root)
      /\ o.sum_in = SumIn(notes, o.nullifiers)
  BY OpeningInTree
<1>2. /\ p.root = o.root /\ p.nullifiers = o.nullifiers /\ p.fee = fee
      /\ p.recipient = recipient /\ p.cm_change = cm_change /\ p.cm_fee = cm_fee
      /\ p.enc = Sealed
  BY DEF UnshieldProof
<1>3. p.v_pub \in Amount /\ UnshieldProvable(p, o.sum_in) /\ Unshield(p, p, Here)
  BY DEF UnshieldProvable
<1> HIDE DEF p
<1>4. o.sum_in = p.v_pub + ValueOrZero(cm_change) + Value[cm_fee] + fee
  BY <1>1, <1>2, <1>3 DEF UnshieldProvable, Forged, TypeOK
<1>5. /\ spendable(LedgerState, p) /\ insert_nullifiers(p)
      /\ ensure_note_capacity(LedgerState, Len(cms))
      /\ append_and_snapshot(cms, Sealed)
      /\ withdrawals' = Append(withdrawals, w)
      /\ claims' = Append(claims, Claim(p))
      /\ burned' = burned + fee
      /\ UNCHANGED <<deposit_balances, applied_shield_cms, deposited, shields>>
  BY <1>2, <1>3 DEF Unshield, prepare_unshield, commit_prepared_unshield
<1>6. /\ cms \in Seq(Commitment) /\ Len(cms) > 0
      /\ Worth(cms) = ValueOrZero(cm_change) + Value[cm_fee]
      /\ ValueOrZero(cm_change) \in Nat /\ Value[cm_fee] \in Nat
  <2>1. Value[cm_fee] \in Nat
    BY CircuitsAssumption
  <2>2. CASE cm_change = ZERO
    <3>1. cms = <<cm_fee>> /\ ValueOrZero(cm_change) = 0
      BY <1>2, <2>2 DEF unshield_outputs, ValueOrZero
    <3>2. Worth(<<cm_fee>>) = Value[cm_fee]
      BY WorthOne
    <3> QED BY <2>1, <3>1, <3>2
  <2>3. CASE cm_change # ZERO
    <3>1. /\ cms = <<cm_change, cm_fee>> /\ cm_change \in Commitment
          /\ ValueOrZero(cm_change) = Value[cm_change]
      BY <1>2, <2>3 DEF unshield_outputs, ValueOrZero
    <3>2. Worth(<<cm_change, cm_fee>>) = Value[cm_change] + Value[cm_fee]
      BY <3>1, WorthTwo
    <3>3. Value[cm_change] \in Nat
      BY <3>1, CircuitsAssumption
    <3> QED BY <2>1, <3>1, <3>2, <3>3
  <2> QED BY <2>2, <2>3
<1> HIDE DEF cms
<1>7. /\ notes' \in Seq(Note) /\ Len(notes') <= Capacity
      /\ valid_roots' \subseteq Nat /\ root_history' \in Seq(Nat)
      /\ RootsInTree' /\ RootWindow' /\ NotesRecoverable'
  BY <1>5, <1>6, AppendSafe
<1>8. PICK N \in SUBSET Unspent :
        /\ nullifiers' = nullifiers \cup N
        /\ Total(ValuesAt(notes, N)) = o.sum_in
  BY <1>1, <1>2, <1>5, SpentValue
<1>9. /\ nullifiers' \subseteq 1..Len(notes')
      /\ Total(ValuesAt(notes', Unspent')) =
           Total(ValuesAt(notes, Unspent)) - o.sum_in + Worth(cms)
  <2>1. nullifiers \subseteq 1..Len(notes)
    BY DEF Safe
  <2> QED BY <1>5, <1>6, <1>8, <2>1, UnspentValue
<1>10. w \in Withdrawal
       /\ Claim(p) \in [recipient : Recipient, amount : Amount, spent : SUBSET Nat]
  <2>1. w \in Withdrawal
    BY <1>3 DEF Withdrawal
  <2>2. {p.nullifiers[i] : i \in DOMAIN p.nullifiers} \subseteq Nat
    BY <1>1, <1>2, CircuitsAssumption DEF NullifierLists
  <2> QED BY <1>2, <1>3, <2>1, <2>2 DEF Claim
<1>14. WithdrawalsAsSigned' /\ ClaimsSpent'
  <2>1. w.recipient = recipient /\ w.amount = p.v_pub
    OBVIOUS
  <2>2. PICK c : c = Claim(p) /\ c.recipient = recipient /\ c.amount = p.v_pub
                 /\ c.spent = {p.nullifiers[i] : i \in DOMAIN p.nullifiers}
    <3>1. PICK S : S = {p.nullifiers[i] : i \in DOMAIN p.nullifiers}
      OBVIOUS
    <3>2. Claim(p) = [recipient |-> recipient, amount |-> p.v_pub, spent |-> S]
      BY <1>2, <3>1 DEF Claim
    <3>3. PICK c : c = [recipient |-> recipient, amount |-> p.v_pub, spent |-> S]
      OBVIOUS
    <3> QED BY <3>1, <3>2, <3>3
  <2>3. nullifiers' = nullifiers \cup c.spent /\ c.spent \cap nullifiers = {}
    BY <1>5, <2>2 DEF insert_nullifiers, spendable, LedgerState
  <2> HIDE DEF w
  <2> QED BY <1>5, <1>10, <2>1, <2>2, <2>3, ClaimAdded DEF Safe
<1> HIDE DEF w
<1>11. TypeOK'
  <2>1. burned' \in Nat
    BY <1>5, CircuitsAssumption DEF TypeOK
  <2>2. nullifiers' \subseteq Nat
    <3>1. Len(notes') \in Nat
      BY <1>7
    <3> QED BY <1>9, <3>1
  <2>3. /\ withdrawals' \in Seq(Withdrawal)
        /\ claims' \in Seq([recipient : Recipient, amount : Amount, spent : SUBSET Nat])
    BY <1>5, <1>10 DEF TypeOK
  <2> QED BY <1>5, <1>7, <2>1, <2>2, <2>3 DEF TypeOK
<1>12. Safe'
  BY <1>5, <1>7, <1>9, <1>14 DEF Safe, ShieldOnce
<1>13. Conservation'
  <2>1. Total(Withdrawn') = Total(Withdrawn) + p.v_pub
    <3>1. w.amount = p.v_pub
      BY DEF w
    <3> QED BY <1>5, <1>10, <3>1, WithdrawalAdded
  <2>2. burned \in Nat /\ deposited \in Nat /\ fee \in Nat /\ p.v_pub \in Nat
    BY <1>3, LedgerAssumption, CircuitsAssumption DEF TypeOK, Amount
  <2>3. /\ Total(ValuesAt(notes', Unspent')) =
             Total(ValuesAt(notes, Unspent)) - p.v_pub - fee
        /\ burned' = burned + fee
    <3>1. Total(ValuesAt(notes, Unspent)) \in Nat
      BY TotalsAreNat
    <3>2. burned' = burned + fee
      BY <1>5
    <3> QED BY <1>4, <1>6, <1>9, <2>2, <3>1, <3>2
  <2>4. deposited' = deposited /\ deposit_balances' = deposit_balances
    BY <1>5
  <2> QED
    BY <2>1, <2>2, <2>3, <2>4, TotalsAreNat DEF Conservation
<1> QED
  BY <1>11, <1>12, <1>13

-----------------------------------------------------------------------------
\* Every step keeps it.
LEMMA StepInv ==
  ASSUME IndInv, [Next]_vars
  PROVE  IndInv'
<1>1. CASE DepositStep
  BY <1>1, DepositInv DEF DepositStep
<1>2. CASE ShieldStep
  BY <1>2, ShieldCase, ShieldInv
<1>3. CASE TransferStep
  BY <1>3, TransferCase, TransferInv DEF IndInv
<1>4. CASE UnshieldStep
  BY <1>4, UnshieldCase, UnshieldInv DEF IndInv
<1>5. CASE UNCHANGED vars
  <2>1. TypeOK'
    BY <1>5 DEF IndInv, vars, TypeOK
  <2>2. Safe'
    BY <1>5 DEF IndInv, vars, Safe, RootsInTree, RootWindow, Root, ShieldOnce,
       NotesRecoverable, WithdrawalsAsSigned, ClaimsSpent
  <2>3. Conservation'
    BY <1>5 DEF IndInv, vars, Conservation, Unspent, Withdrawn
  <2> QED BY <2>1, <2>2, <2>3 DEF IndInv
<1> QED
  BY <1>1, <1>2, <1>3, <1>4, <1>5 DEF Next

\* The inductive invariant holds in every reachable state.
THEOREM Invariance == Spec => []IndInv
<1>1. Init => IndInv
  BY InitInv
<1>2. IndInv /\ [Next]_vars => IndInv'
  BY StepInv
<1> QED
  BY <1>1, <1>2, PTL DEF Spec

\* Every variable keeps its type; in particular no pool balance leaves u64.
THEOREM TypeCorrect == Spec => []TypeOK
<1>1. IndInv => TypeOK
  BY DEF IndInv
<1> QED
  BY <1>1, Invariance, PTL

\* No accepted sequence of deposits, shields, transfers and unshields creates
\* or loses value, whatever the commitments, values, fees, tree size and
\* number of inputs.
THEOREM ValueConserved == Spec => []Conservation
<1>1. IndInv => Conservation
  BY DEF IndInv
<1> QED
  BY <1>1, Invariance, PTL

\* The queued withdrawals are the ones the notes' owners signed for, and no two
\* of them are paid for with one note.
THEOREM WithdrawalsSigned == Spec => []WithdrawalsAsSigned
<1>1. IndInv => WithdrawalsAsSigned
  BY DEF IndInv, Safe
<1> QED
  BY <1>1, Invariance, PTL

\* A shielded client commitment is never shielded again.
THEOREM ShieldsOnce == Spec => []ShieldOnce
<1>1. IndInv => ShieldOnce
  BY DEF IndInv, Safe
<1> QED
  BY <1>1, Invariance, PTL

\* Every leaf carries the ciphertext its proof committed to.
THEOREM NotesAreRecoverable == Spec => []NotesRecoverable
<1>1. IndInv => NotesRecoverable
  BY DEF IndInv, Safe
<1> QED
  BY <1>1, Invariance, PTL

\* The window of accepted roots ends with the current root, has no stale
\* entry and stays within its limit.
THEOREM RootsWindowed == Spec => []RootWindow
<1>1. IndInv => RootWindow
  BY DEF IndInv, Safe
<1> QED
  BY <1>1, Invariance, PTL

\* Appending keeps the leaves that are there.
LEMMA LeavesKept ==
  ASSUME TypeOK, NEW cms \in Seq(Commitment), NEW enc \in {Sealed, Altered},
         append_and_snapshot(cms, enc)
  PROVE  Len(notes) <= Len(notes') /\ \A i \in 1..Len(notes) : notes'[i] = notes[i]
<1>1. Len(notes) \in Nat /\ Len(cms) \in Nat
  BY DEF TypeOK
<1> QED
  BY <1>1, AppendNotes

\* A spent note stays spent and a leaf stays where it is.
THEOREM LedgerAppendOnly == Spec => AppendOnly
<1> DEFINE A == /\ nullifiers \subseteq nullifiers'
                /\ Len(notes) <= Len(notes')
                /\ \A i \in 1..Len(notes) : notes'[i] = notes[i]
<1>1. ASSUME IndInv, Next
      PROVE  A
  <2>1. TypeOK /\ Len(notes) \in Nat
    BY <1>1 DEF IndInv, TypeOK
  <2>2. CASE DepositStep
    BY <2>1, <2>2 DEF DepositStep, Deposit
  <2>3. CASE ShieldStep
    <3>1. PICK k \in PoolKey, cm \in Commitment, producer_cm \in Commitment,
               fee \in TxFee :
            Shield(ShieldProof(k, cm, producer_cm, fee),
                   ShieldProof(k, cm, producer_cm, fee), Here)
      BY <2>3, ShieldCase
    <3>2. /\ append_and_snapshot(<<cm, producer_cm>>, Sealed)
          /\ nullifiers' = nullifiers
      BY <3>1 DEF Shield, commit_prepared_shield, shield_outputs, ShieldProof
    <3>3. <<cm, producer_cm>> \in Seq(Commitment)
      OBVIOUS
    <3> QED BY <2>1, <3>2, <3>3, LeavesKept
  <2>4. CASE TransferStep
    <3>1. PICK o \in Openings(notes), cm \in [1..3 -> Commitment] :
            Transfer(TransferProof(o, cm), TransferProof(o, cm), Here)
      BY <2>1, <2>4, TransferCase
    <3>2. /\ append_and_snapshot(<<cm[1], cm[2], cm[3]>>, Sealed)
          /\ nullifiers \subseteq nullifiers'
      BY <3>1 DEF Transfer, transfer_outputs, TransferProof, insert_nullifiers
    <3>3. <<cm[1], cm[2], cm[3]>> \in Seq(Commitment)
      OBVIOUS
    <3> QED BY <2>1, <3>2, <3>3, LeavesKept
  <2>5. CASE UnshieldStep
    <3>1. PICK o \in Openings(notes), fee \in TxFee, recipient \in Recipient,
               cm_change \in Commitment \cup {ZERO}, cm_fee \in Commitment :
            Unshield(UnshieldProof(o, fee, recipient, cm_change, cm_fee),
                     UnshieldProof(o, fee, recipient, cm_change, cm_fee), Here)
      BY <2>1, <2>5, UnshieldCase
    <3> DEFINE p == UnshieldProof(o, fee, recipient, cm_change, cm_fee)
    <3>2. p.cm_change = cm_change /\ p.cm_fee = cm_fee /\ p.enc = Sealed
      BY DEF UnshieldProof
    <3> HIDE DEF p
    <3>3. /\ append_and_snapshot(unshield_outputs(p), Sealed)
          /\ nullifiers \subseteq nullifiers'
      <4>1. Unshield(p, p, Here)
        BY <3>1 DEF p
      <4> QED
        BY <3>2, <4>1 DEF Unshield, commit_prepared_unshield, insert_nullifiers
    <3>4. unshield_outputs(p) \in Seq(Commitment)
      BY <3>2 DEF unshield_outputs
    <3> QED BY <2>1, <3>3, <3>4, LeavesKept
  <2> QED
    BY <1>1, <2>2, <2>3, <2>4, <2>5 DEF Next
<1>2. IndInv /\ [Next]_vars => [A]_vars
  BY <1>1
<1> QED
  BY <1>2, Invariance, PTL DEF Spec, AppendOnly
=============================================================================
