------------------------------- MODULE XmssBds -------------------------------
(***************************************************************************)
(* The authentication tree of one wallet address (apps/wallet/src/lib.rs): *)
(* 2^Depth one-time keys, used in order.  The wallet never keeps the tree. *)
(* XmssBdsState holds the path of the next key and just enough nodes to    *)
(* move to the following key in a few hashes: a node kept per level, one   *)
(* tree hash per low level that is built while keys are used, and the      *)
(* right nodes of the K top levels.  The circuit accepts a signature only  *)
(* if the path it comes with leads to the address's root                   *)
(* (cairo/src/xmss_common.cairo), so a wrong or missing node makes a coin  *)
(* unspendable.                                                            *)
(*                                                                         *)
(* The hash is collision-free, and the nodes of the true tree have short   *)
(* names: <<height, position>>.                                            *)
(***************************************************************************)
EXTENDS Integers, Sequences, FiniteSetsExt

CONSTANTS
  Depth,    \* height of the tree (AUTH_DEPTH, 16 in the code)
  K,        \* top levels whose right nodes are all retained (XMSS_BDS_K)
  Targets   \* the indices from_index is asked for

ASSUME BdsAssumption ==
  /\ Depth \in Nat \ {0} /\ K \in Nat /\ K < Depth
  /\ Targets \subseteq 0..2^Depth

AUTH_TREE_SIZE == 2^Depth
Levels == 0..(Depth - 1)
TreehashLevels == 0..(Depth - K - 1)

NoNode == <<>>                       \* FeltSlot::none()

\* auth_leaf_hash_with_pub_seed
leaf(i) == <<0, i>>

xmss_tree_node_hash(level, node_idx, left, right) ==
  IF left = <<level, 2 * node_idx>> /\ right = <<level, 2 * node_idx + 1>>
  THEN <<level + 1, node_idx>>
  ELSE <<level, node_idx, left, right>>

XmssNode(start, h, v) == [start_idx |-> start, height |-> h, value |-> v]

-----------------------------------------------------------------------------
(***************************************************************************)
(* Pushing a leaf on a stack of nodes: as long as the top of the stack has *)
(* the height of the new node, the two become their parent.                *)
(***************************************************************************)
Parent(left, node) ==
  XmssNode(left.start_idx, node.height + 1,
           xmss_tree_node_hash(node.height,
                               left.start_idx \div 2^(node.height + 1),
                               left.value, node.value))

\* The number of nodes a leaf absorbs.
Merges(stack) ==
  Min({n \in 0..Len(stack) :
         n = Len(stack) \/ stack[Len(stack) - n].height # n})

\* The new node after absorbing the h topmost nodes of the stack.
Climb(stack, idx) ==
  LET up[h \in 0..Len(stack)] ==
        IF h = 0 THEN XmssNode(idx, 0, leaf(idx))
        ELSE Parent(stack[Len(stack) - h + 1], up[h - 1])
  IN  up

-----------------------------------------------------------------------------
(***************************************************************************)
(* TreeHashState: one node of a low level, built leaf by leaf.  (Its       *)
(* node_start_idx and node_height are written and never read.)             *)
(***************************************************************************)
TreeHashState(h) ==
  [target_height |-> h, start_idx |-> 0, next_idx |-> 0,
   initialized |-> FALSE, finished |-> FALSE, node |-> NoNode, stack |-> <<>>]

clear(t) ==
  [t EXCEPT !.initialized = FALSE, !.finished = FALSE, !.node = NoNode,
            !.stack = <<>>]

seed_completed(t, n) ==
  [t EXCEPT !.initialized = FALSE, !.finished = TRUE, !.node = n.value,
            !.next_idx = n.start_idx, !.stack = <<>>]

start(t, i) ==
  [t EXCEPT !.start_idx = i, !.next_idx = i, !.initialized = TRUE,
            !.finished = FALSE, !.node = NoNode, !.stack = <<>>]

take_ready(t) ==
  [t EXCEPT !.node = NoNode, !.finished = FALSE, !.initialized = FALSE]

Running(t) == t.initialized /\ ~t.finished

lowest_node_height(t) ==
  IF t.stack = <<>> THEN t.target_height
  ELSE Min({t.stack[i].height : i \in DOMAIN t.stack})

step(t) ==
  LET m == Merges(t.stack)
      node == Climb(t.stack, t.next_idx)[m]
  IN  IF node.height = t.target_height
      THEN [t EXCEPT !.next_idx = @ + 1, !.finished = TRUE,
                     !.node = node.value, !.stack = <<>>]
      ELSE [t EXCEPT !.next_idx = @ + 1,
                     !.stack = Append(SubSeq(@, 1, Len(@) - m), node)]

-----------------------------------------------------------------------------
(***************************************************************************)
(* advance: from the path of key next_index to that of the following one.  *)
(***************************************************************************)
trailing_ones(i) == Min({h \in 0..Depth : (i \div 2^h) % 2 = 0})

\* Mutant: nothing is kept below the top.
keeps_never(index, tau) == tau = Depth - 2

\* Is the node leaving the path at level tau needed again?
keeps(index, tau) == tau < Depth - 1 /\ (index \div 2^(tau + 1)) % 2 = 0

\* Mutant: the next tree hash starts one subtree early.
next_start_early(index, h) == index + 1 + 2 * 2^h
next_start(index, h) == index + 1 + 3 * 2^h

StepBudget == Cardinality(TreehashLevels) \div 2

\* The instance to step: least lowest node, then least start, then lowest level.
best_idx(th) ==
  LET running == {h \in TreehashLevels : Running(th[h])}
      before(g, h) ==
        LET a == lowest_node_height(th[g])
            b == lowest_node_height(th[h])
        IN  \/ a < b
            \/ a = b /\ th[g].start_idx < th[h].start_idx
            \/ a = b /\ th[g].start_idx = th[h].start_idx /\ g <= h
  IN  CHOOSE h \in running : \A g \in running : before(h, g)

Spend(treehash) ==
  LET S[n \in 0..StepBudget] ==
        IF n = 0 THEN treehash
        ELSE LET th == S[n - 1]
             IN  IF \E h \in TreehashLevels : Running(th[h])
                 THEN [th EXCEPT ![best_idx(th)] = step(@)]
                 ELSE th
  IN  S[StepBudget]

\* The nodes advance takes from the state are all there (else it is an error);
\* with the last key (all ones) it takes none.
NodesPresent(b) ==
  LET tau == trailing_ones(b.next_index)
      keep == IF keeps(b.next_index, tau)
              THEN [b.keep EXCEPT ![tau] = b.auth_path[tau]] ELSE b.keep
  IN  tau \in 1..(Depth - 1) =>
        /\ keep[tau - 1] # NoNode
        /\ \A h \in 0..(tau - 1) :
             IF h \in TreehashLevels THEN b.treehash[h].node # NoNode
                                     ELSE b.retain[h] # <<>>

\* The state for the following key; after the last one no path is left.
advance(b) ==
  LET index == b.next_index
      tau == trailing_ones(index)
      kept == IF keeps(index, tau)
              THEN [b.keep EXCEPT ![tau] = b.auth_path[tau]] ELSE b.keep
      restarted(h) == IF next_start(index, h) < AUTH_TREE_SIZE
                      THEN start(take_ready(b.treehash[h]), next_start(index, h))
                      ELSE clear(take_ready(b.treehash[h]))
      left == xmss_tree_node_hash(tau - 1, (index + 1 - 2^tau) \div 2^tau,
                                  b.auth_path[tau - 1], kept[tau - 1])
      below(h) == IF h \in TreehashLevels THEN b.treehash[h].node
                                          ELSE Head(b.retain[h])
  IN  IF index = AUTH_TREE_SIZE - 1
      THEN [b EXCEPT !.next_index = @ + 1, !.auth_path = <<>>]
      ELSE IF tau = 0
      THEN [b EXCEPT !.next_index = @ + 1, !.keep = kept,
                     !.auth_path[0] = leaf(index),
                     !.treehash = Spend(@)]
      ELSE [next_index |-> index + 1,
            auth_path |-> [h \in Levels |-> IF h < tau THEN below(h)
                                            ELSE IF h = tau THEN left
                                            ELSE b.auth_path[h]],
            keep |-> [kept EXCEPT ![tau - 1] = NoNode],
            treehash |-> Spend([h \in TreehashLevels |->
                                  IF h < tau THEN restarted(h) ELSE b.treehash[h]]),
            retain |-> [h \in Levels |->
                          IF h < tau /\ h \notin TreehashLevels
                          THEN Tail(b.retain[h]) ELSE b.retain[h]]]

-----------------------------------------------------------------------------
(***************************************************************************)
(* The life of an address: new_with_params hashes every leaf once and sets *)
(* aside what the traversal starts from; from_index advances to the index  *)
(* the wallet file records; reserve_next_auth hands out key after key.     *)
(***************************************************************************)
VARIABLES
  phase,    \* "build", "skip" (from_index) or "ready"
  target,   \* the index from_index was asked for
  built,    \* new_with_params: leaves hashed, and the stack of its loop
  bds,      \* XmssBdsState
  root,     \* WalletAddressState.auth_root
  handed,   \* the last key handed out, with its path
  failed    \* did advance miss a node?

vars == <<phase, target, built, bds, root, handed, failed>>

NoKey == [key_idx |-> -1, path |-> <<>>]

Init ==
  /\ phase = "build"
  /\ target = 0
  /\ built = [idx |-> 0, stack |-> <<>>]
  /\ bds = [next_index |-> 0,
            auth_path |-> [h \in Levels |-> NoNode],
            keep |-> [h \in Levels |-> NoNode],
            treehash |-> [h \in TreehashLevels |-> TreeHashState(h)],
            retain |-> [h \in Levels |-> <<>>]]
  /\ root = NoNode
  /\ handed = NoKey
  /\ failed = FALSE

\* The levels whose later right nodes are retained.
retained(h) == h >= Depth - K /\ h < Depth - 1

\* One leaf of new_with_params, with every node it completes.
BuildLeaf ==
  LET idx == built.idx
      m == Merges(built.stack)
      up == Climb(built.stack, idx)
      at(h, position) == h < m /\ idx \div 2^h = position
      stack == Append(SubSeq(built.stack, 1, Len(built.stack) - m), up[m])
  IN  /\ phase = "build" /\ idx < AUTH_TREE_SIZE
      /\ built' = [idx |-> idx + 1, stack |-> stack]
      /\ bds' = [bds EXCEPT
           !.auth_path = [h \in Levels |-> IF at(h, 1) THEN up[h].value ELSE @[h]],
           !.treehash = [h \in TreehashLevels |->
                           IF at(h, 3) THEN seed_completed(@[h], up[h]) ELSE @[h]],
           !.retain = [h \in Levels |->
                         IF /\ h < m /\ retained(h)
                            /\ idx \div 2^h >= 3 /\ (idx \div 2^h) % 2 = 1
                         THEN Append(@[h], up[h].value) ELSE @[h]]]
      /\ UNCHANGED <<phase, target, root, handed, failed>>

\* The root is what is left on the stack; from_index starts to advance.
FinishBuild ==
  /\ phase = "build" /\ built.idx = AUTH_TREE_SIZE
  /\ phase' = "skip"
  /\ root' = built.stack[Len(built.stack)].value
  /\ built' = [idx |-> 0, stack |-> <<>>]
  /\ target' \in Targets
  /\ UNCHANGED <<bds, handed, failed>>

SkipKey ==
  /\ phase = "skip" /\ bds.next_index < target /\ ~failed
  /\ failed' = ~NodesPresent(bds)
  /\ bds' = IF NodesPresent(bds) THEN advance(bds) ELSE bds
  /\ UNCHANGED <<phase, target, built, root, handed>>

AddressReady ==
  /\ phase = "skip" /\ bds.next_index = target
  /\ phase' = "ready"
  /\ target' = 0
  /\ UNCHANGED <<built, bds, root, handed, failed>>

\* Refused once the keys are exhausted.
reserve_next_auth ==
  /\ phase = "ready" /\ bds.next_index < AUTH_TREE_SIZE /\ ~failed
  /\ failed' = ~NodesPresent(bds)
  /\ bds' = IF NodesPresent(bds) THEN advance(bds) ELSE bds
  /\ handed' = IF NodesPresent(bds)
               THEN [key_idx |-> bds.next_index, path |-> bds.auth_path]
               ELSE handed
  /\ UNCHANGED <<phase, target, built, root>>

Next == BuildLeaf \/ FinishBuild \/ SkipKey \/ AddressReady \/ reserve_next_auth

Spec == Init /\ [][Next]_vars

-----------------------------------------------------------------------------
(***************************************************************************)
(* xmss_verify_auth of the circuits.                                       *)
(***************************************************************************)
xmss_verify_auth(value, auth_root, key_idx, siblings) ==
  LET up[l \in 0..Depth] ==
        IF l = 0 THEN value
        ELSE LET idx == key_idx \div 2^(l - 1)
             IN  IF idx % 2 = 1
                 THEN xmss_tree_node_hash(l - 1, idx \div 2, siblings[l - 1], up[l - 1])
                 ELSE xmss_tree_node_hash(l - 1, idx \div 2, up[l - 1], siblings[l - 1])
  IN  /\ DOMAIN siblings = Levels
      /\ key_idx \div AUTH_TREE_SIZE = 0
      /\ up[Depth] = auth_root

(***************************************************************************)
(* The whole tree, as core/src/lib.rs computes it.  Its nodes have the     *)
(* short names, which is what the recursion of the code comes to:          *)
(* SubtreeAssumption is that recursion, checked for every subtree.         *)
(***************************************************************************)
xmss_subtree_root(i, height) == <<height, i \div 2^height>>

ASSUME SubtreeAssumption ==
  \A height \in 0..Depth : \A n \in 0..(2^(Depth - height) - 1) :
    LET first == n * 2^height
        split == 2^(height - 1)
    IN  xmss_subtree_root(first, height) =
          IF height = 0 THEN leaf(first)
          ELSE xmss_tree_node_hash(height - 1, n,
                                   xmss_subtree_root(first, height - 1),
                                   xmss_subtree_root(first + split, height - 1))

\* At each level the subtree next to the one that holds the key.
auth_root_and_path(index) ==
  [root |-> xmss_subtree_root(0, Depth),
   path |-> [h \in Levels |->
               LET first == index - (index % 2^h)
               IN  xmss_subtree_root(IF (index \div 2^h) % 2 = 0 THEN first + 2^h
                                                                 ELSE first - 2^h, h)]]

\* Every key handed out by reserve_next_auth comes with the path the circuit
\* accepts for it under the address's root, which is the root and the path of the
\* whole tree, whether the address was used key by key or rebuilt at an index.
PathsAccepted ==
  handed # NoKey =>
    /\ xmss_verify_auth(leaf(handed.key_idx), root, handed.key_idx, handed.path)
    /\ auth_root_and_path(handed.key_idx) = [root |-> root, path |-> handed.path]

\* advance never misses a node ("missing BDS keep/treehash/retain node"): the
\* hashing done per key is enough for every tree hash to be done in time.
NeverMissing == ~failed
=============================================================================
