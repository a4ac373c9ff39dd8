----------------------------- MODULE NoteTrees ------------------------------
(***************************************************************************)
(* The checkpoints of the shielded pools' note commitment trees: what a    *)
(* scanned batch adds and prunes, and how the three ways of going back     *)
(* (truncate_to_height, truncate_to_chain_state, rewind_to_chain_state)    *)
(* choose a height that every tree can be brought to.                      *)
(*                                                                         *)
(* A tree is abstracted to the heights it is checkpointed at, the heights  *)
(* registered as retained anchors, and the heights of the wallet's notes   *)
(* whose witness data it holds.  Hashes, shards and the leaves of others   *)
(* do not influence which height is chosen.                                *)
(***************************************************************************)
EXTENDS Integers, FiniteSets, FiniteSetsExt

CONSTANTS
    Pools,            \* the shielded pools
    PoolActivation,   \* [Pools -> Nat]: the height a pool's outputs begin at
    InitialPools,     \* pools whose tree tables exist from the start
    MaxHeight,        \* bound: the highest block
    PRUNING_DEPTH,    \* checkpoints a tree keeps, and blocks a rewind may remove
    Anchors,          \* heights the anchor retention policy retains
    Chains            \* chains: commitments and wallet notes, by pool and height

Heights == 0..MaxHeight
None    == -1

ASSUME TreeAssumption ==
    /\ PRUNING_DEPTH \in Nat \ {0}
    /\ MaxHeight \in Nat
    /\ InitialPools \subseteq Pools
    /\ \A c \in Chains, p \in Pools :
          /\ c.notes[p] \subseteq c.commits[p]
          /\ c.commits[p] \subseteq PoolActivation[p]..MaxHeight
          /\ c.commits[p] \subseteq 1..MaxHeight

VARIABLES
    chain,     \* the chain the wallet follows
    open,      \* pools whose tables exist
    wallet     \* the wallet's rows; the fields are those of Init

vars == <<chain, open, wallet>>

MaxOr(S, d) == IF S = {} THEN d ELSE Max(S)
MinOr(S, d) == IF S = {} THEN d ELSE Min(S)
UpTo(S, h)  == {x \in S : x <= h}

Init ==
    /\ chain \in Chains
    /\ open = InitialPools
    /\ wallet = [cp     |-> [p \in Pools |-> {}],   \* <pool>_tree_checkpoints
                 kept   |-> [p \in Pools |-> {}],   \* <pool>_tree_retained_checkpoints
                 marks  |-> [p \in Pools |-> {}],   \* notes with witness data in the tree
                 notes  |-> [p \in Pools |-> {}],   \* notes with a position, by mined height
                 blocks |-> {},                     \* blocks
                 toScan |-> {},                     \* scan_queue above Scanned
                 tip    |-> 0]                      \* the end of scan_queue

-----------------------------------------------------------------------------
(* Checkpoints of one tree.                                                *)

(* A checkpoint of an empty tree state has no position. *)
Positionless(p, h) == UpTo(chain.commits[p], h) = {}

(* How many of the ordinary checkpoints exceed the budget, oldest first. *)
Excess(cp, kept) ==
    LET ordinary == cp \ kept
    IN  {u \in ordinary :
            Cardinality(UpTo(ordinary, u)) <= Cardinality(ordinary) - PRUNING_DEPTH}

PruneOldestAnchorsToo(cp, kept) == cp \ Excess(cp, {})

(* ShardTree prunes after an insertion; anchors are outside the budget. *)
PruneOldest(cp, kept) == cp \ Excess(cp, kept)

PrunePositionless(p, cp, kept) ==
    cp \ {u \in Excess(cp, kept) :
             \A v \in UpTo(cp \ kept, u) : Positionless(p, v)}

(* insert_frontier with checkpoint retention; an empty frontier only adds  *)
(* its checkpoint.                                                         *)
InsertFrontier(p, cp, kept, f) ==
    IF Positionless(p, f) THEN cp \cup {f} ELSE PruneOldest(cp \cup {f}, kept)

PrunedWithoutNewer(p, f, t) ==
    /\ wallet.kept[p] \cap (f + 1)..t = {}
    /\ Cardinality(wallet.cp[p]) >= PRUNING_DEPTH

(* Would the tree prune checkpoints in (f, t] as soon as they were added?  *)
CheckpointsPrunedOnInsert(p, f, t) ==
    LET cp == wallet.cp[p]  kept == wallet.kept[p]
    IN  /\ kept \cap (f + 1)..t = {}
        /\ Cardinality(cp) >= PRUNING_DEPTH
        /\ Cardinality({c \in cp \ kept : c > t}) >= PRUNING_DEPTH

CheckpointsDropped(f, t) ==
    /\ Anchors \cap (f + 1)..t = {}
    /\ \A p \in open : CheckpointsPrunedOnInsert(p, f, t)

(* The checkpoints a pool's own commitments of the batch carry. *)
OwnCheckpoints(p, f, t) ==
    IF CheckpointsDropped(f, t) THEN {} ELSE chain.commits[p] \cap (f + 1)..t

(* The other pools' checkpoint heights and the anchors of the range. *)
EnsureHeights(p, f, t) ==
    (UNION {OwnCheckpoints(q, f, t) : q \in open \ {p}}) \cup (Anchors \cap (f + 1)..t)

(* update_tree: the checkpoints and anchors of pool p after the batch. *)
UpdateTree(p, f, t) ==
    LET own      == OwnCheckpoints(p, f, t)
        inserted == chain.commits[p] \cap (f + 1)..t # {}
        cp1      == InsertFrontier(p, wallet.cp[p], wallet.kept[p], f)
        kept1    == wallet.kept[p] \cup ((own \cup {f}) \cap Anchors)
        cp2      == IF inserted THEN PruneOldest(cp1 \cup own, kept1) ELSE cp1
        missing  == {g \in EnsureHeights(p, f, t) \ own : g > MinOr(cp2, f)}
        kept2    == kept1 \cup (missing \cap Anchors)
        cp3      == cp2 \cup missing
    IN  [cp   |-> IF inserted THEN cp3 ELSE PrunePositionless(p, cp3, kept2),
         kept |-> kept2]

(* put_blocks: the blocks f+1 to t, scanned from the chain state at f. *)
PutBlocks(f, t) ==
    LET range == (f + 1)..t
        found == [p \in Pools |-> IF p \in open THEN chain.notes[p] \cap range ELSE {}]
        tree  == [p \in open |-> UpdateTree(p, f, t)]
    IN  /\ f < t
        /\ range \subseteq wallet.toScan
        /\ wallet' = [wallet EXCEPT
              !.cp     = [p \in Pools |-> IF p \in open THEN tree[p].cp ELSE @[p]],
              !.kept   = [p \in Pools |-> IF p \in open THEN tree[p].kept ELSE @[p]],
              !.marks  = [p \in Pools |-> @[p] \cup found[p]],
              !.notes  = [p \in Pools |-> @[p] \cup found[p]],
              !.blocks = @ \cup range,
              !.toScan = @ \ range]
        /\ UNCHANGED <<chain, open>>

(* update_chain_tip: the new blocks are queued. *)
UpdateChainTip(t) ==
    /\ t > wallet.tip
    /\ wallet' = [wallet EXCEPT !.tip = t,
                                !.toScan = @ \cup (wallet.tip + 1)..t]
    /\ UNCHANGED <<chain, open>>

(* The migration that creates a pool's tables requeues the blocks from its *)
(* activation.                                                             *)
MigratePool(p) ==
    /\ p \notin open
    /\ open' = open \cup {p}
    /\ wallet' = [wallet EXCEPT
          !.toScan = @ \cup {h \in 1..wallet.tip : h >= PoolActivation[p]}]
    /\ UNCHANGED chain

-----------------------------------------------------------------------------
(* Choosing a height.                                                      *)

(* plan_tree_truncation, in the wallet state s. *)
Plan(s, p, h, rescanFloor) ==
    LET above == {c \in s.cp[p] : c > h}
        below == {c \in s.cp[p] : c < h}
    IN  CASE h \in s.cp[p]                   -> "ToCheckpoint"
          [] h \notin s.cp[p] /\ above = {}  -> "Unaffected"
          [] h \notin s.cp[p] /\ above # {} /\ below = {} ->
                IF UpTo(s.notes[p], rescanFloor) # {}
                THEN "WouldDestroyWitnesses" ELSE "ResetToSubtreeRoots"
          [] OTHER                           -> "DivergedCheckpoints"

Executable == {"ToCheckpoint", "Unaffected", "ResetToSubtreeRoots"}

ToleratesAnyNotes(s, p, h) ==
    \/ h \in s.cp[p]
    \/ \A c \in s.cp[p] : c <= h
    \/ \A c \in s.cp[p] : c >= h

(* pool_truncation_tolerance_sql *)
Tolerates(s, p, h) ==
    \/ h \in s.cp[p]
    \/ \A c \in s.cp[p] : c <= h
    \/ /\ \A c \in s.cp[p] : c >= h
       /\ UpTo(s.notes[p], h) = {}

(* min_shared_checkpoint_height *)
MinSharedCheckpointHeight(s) ==
    MinOr({h \in UNION {s.cp[p] : p \in Pools} :
              \A p \in Pools : h \in s.cp[p] \/ s.cp[p] = {}}, None)

SelectTruncationHeight(s, requested, checkpointCandidates) ==
    LET candidates == s.blocks \cup
                      IF checkpointCandidates THEN UNION {s.cp[p] : p \in Pools} ELSE {}
    IN  MaxOr({h \in UpTo(candidates, requested) : \A p \in Pools : Tolerates(s, p, h)},
              None)

(* rewind_truncation_height: heights that a pool straddles with nothing    *)
(* but anchors below are skipped, unless a pool straddles them with an     *)
(* ordinary checkpoint below.                                              *)
HasOrdinaryCheckpointBelow(s, p, h) == \E c \in s.cp[p] \ s.kept[p] : c < h

RewindTruncationHeight(s, floor, rescanFloor) ==
    LET candidates  == {c \in UNION {s.cp[p] : p \in open} : c >= floor}
        Straddles(p, c) == Plan(s, p, c, rescanFloor) = "DivergedCheckpoints"
        Skipped(c)  == /\ \E p \in open : Straddles(p, c)
                       /\ \A p \in open :
                             Straddles(p, c) => ~HasOrdinaryCheckpointBelow(s, p, c)
    IN  MinOr({c \in candidates : ~Skipped(c)}, None)

-----------------------------------------------------------------------------
(* Going back.                                                             *)

LastScanned(s) == MaxOr(s.blocks, 0)

TreesAffectedBelow(s, h) == h + 1 < LastScanned(s)

TreesAffected(s, h) == h < LastScanned(s)

CanTruncate(s, h, rescanFloor) ==
    TreesAffected(s, h) => \A p \in Pools : Plan(s, p, h, rescanFloor) \in Executable

TruncatedTree(s, p, field, h, rescanFloor) ==
    CASE Plan(s, p, h, rescanFloor) = "ToCheckpoint"        -> UpTo(s[field][p], h)
      [] Plan(s, p, h, rescanFloor) = "ResetToSubtreeRoots" -> {}
      [] OTHER                                              -> s[field][p]

TruncateKeepingQueue(s, h, rescanFloor) ==
    [s EXCEPT !.notes  = [p \in Pools |-> UpTo(@[p], h)],
              !.tip    = IF @ < h THEN @ ELSE h,
              !.cp     = [p \in Pools |-> TruncatedTree(s, p, "cp", h, rescanFloor)],
              !.marks  = [p \in Pools |-> TruncatedTree(s, p, "marks", h, rescanFloor)],
              !.blocks = UpTo(@, h)]

(* truncate_to_height_internal, where CanTruncate holds: the scan queue is *)
(* trimmed and transactions above h are un-mined in any case.              *)
TruncateInternal(s, h, rescanFloor) ==
    LET unmined == [s EXCEPT !.notes  = [p \in Pools |-> UpTo(@[p], h)],
                             !.toScan = UpTo(@, h),
                             !.tip    = IF @ < h THEN @ ELSE h]
        Trees(field) == [p \in Pools |-> TruncatedTree(s, p, field, h, rescanFloor)]
    IN  IF TreesAffected(s, h)
        THEN [unmined EXCEPT !.cp     = Trees("cp"),
                             !.marks  = Trees("marks"),
                             !.blocks = UpTo(@, h)]
        ELSE unmined

(* The chain above h may have been replaced by the time it is scanned. *)
ReplacedAbove(h) ==
    chain' \in {c \in Chains : \A p \in Pools :
                   /\ UpTo(c.commits[p], h) = UpTo(chain.commits[p], h)
                   /\ UpTo(c.notes[p], h) = UpTo(chain.notes[p], h)}

TruncateToHeight(requested) ==
    LET h == SelectTruncationHeight(wallet, requested, TRUE)
    IN  /\ h # None
        /\ CanTruncate(wallet, h, h)
        /\ wallet' = TruncateInternal(wallet, h, h)
        /\ ReplacedAbove(h)
        /\ UNCHANGED open

(* truncate_to_chain_state: when no scanned block qualifies, the trees are *)
(* first cut back to the minimum shared checkpoint to make room for the    *)
(* checkpoint at the target.                                               *)
TruncatesTrees(t) == wallet.blocks # {} /\ Max(wallet.blocks) > t

FirstCut(t) ==
    IF SelectTruncationHeight(wallet, t, FALSE) = None
    THEN MinSharedCheckpointHeight(wallet) ELSE None

Cut(t) ==
    IF FirstCut(t) = None THEN wallet
    ELSE TruncateInternal(wallet, FirstCut(t), FirstCut(t))

WithFrontier(s, t) ==
    [s EXCEPT !.cp = [p \in Pools |->
        IF p \in open THEN InsertFrontier(p, @[p], s.kept[p], t) ELSE @[p]]]

Prepared(t) ==
    IF ~TruncatesTrees(t) \/ SelectTruncationHeight(wallet, t, FALSE) = t
    THEN wallet ELSE WithFrontier(Cut(t), t)

CanTruncateToChainState(t) ==
    /\ TruncatesTrees(t) /\ FirstCut(t) # None
          => CanTruncate(wallet, FirstCut(t), FirstCut(t))
    /\ CanTruncate(Prepared(t), t, t)

TruncateToChainState(t) ==
    /\ CanTruncateToChainState(t)
    /\ wallet' = TruncateInternal(Prepared(t), t, t)
    /\ ReplacedAbove(t)
    /\ UNCHANGED open

FloorOfScanned == Max({0, LastScanned(wallet) - (PRUNING_DEPTH - 1)})

(* rewind_to_chain_state: blocks are removed down to the pruning floor at  *)
(* most, and everything above the target is queued again.                  *)
PruningFloor ==
    LET top == Max({wallet.tip, LastScanned(wallet)})
    IN  Max({0, top - (PRUNING_DEPTH - 1)})

RewindHeight(t) ==
    LET target == Max({t, PruningFloor})
        found  == RewindTruncationHeight(wallet, target, t)
    IN  IF found = None THEN target ELSE found

Rewinds(t) == wallet.blocks # {} /\ t < Max(wallet.blocks)

RewindQueuesRemoved(t) ==
    LET cut    == IF Rewinds(t) THEN TruncateInternal(wallet, RewindHeight(t), t) ELSE wallet
        tip    == wallet.tip
    IN  /\ Rewinds(t) => CanTruncate(wallet, RewindHeight(t), t)
        /\ wallet' = [cut EXCEPT !.toScan = @ \cup (cut.tip + 1)..tip,
                                 !.tip = IF t < tip THEN tip ELSE @]
        /\ UNCHANGED <<chain, open>>

RewindToChainState(t) ==
    LET cut    == IF Rewinds(t) THEN TruncateInternal(wallet, RewindHeight(t), t) ELSE wallet
        tip    == wallet.tip
    IN  /\ Rewinds(t) => CanTruncate(wallet, RewindHeight(t), t)
        /\ wallet' = [cut EXCEPT !.toScan = @ \cup (t + 1)..tip, !.tip = IF t < tip THEN tip ELSE @]
        /\ UNCHANGED <<chain, open>>

Next ==
    \/ \E f, t \in Heights : PutBlocks(f, t)
    \/ \E t \in Heights : UpdateChainTip(t)
    \/ \E p \in Pools : MigratePool(p)
    \/ \E h \in Heights : TruncateToHeight(h)
    \/ \E t \in Heights : TruncateToChainState(t)
    \/ \E t \in Heights : RewindToChainState(t)

Spec == Init /\ [][Next]_vars

-----------------------------------------------------------------------------
(* Properties.                                                             *)

(* The rows have their types; nothing is queued above the tip, whatever    *)
(* mixture of scans and truncations went before.                           *)
TypeOK ==
    /\ chain \in Chains
    /\ open \in SUBSET Pools
    /\ \A f \in {"cp", "kept", "marks", "notes"} : wallet[f] \in [Pools -> SUBSET Heights]
    /\ wallet.blocks \subseteq Heights
    /\ wallet.toScan \subseteq 1..wallet.tip
    /\ wallet.tip \in Heights

(* The SQL that chooses a height (pool_truncation_tolerance_sql) and the   *)
(* code that executes it (plan_tree_truncation) agree on every height of   *)
(* every reachable wallet, so a chosen height never fails in a tree.       *)
PlannersAgree ==
    \A p \in Pools, h \in Heights :
        Tolerates(wallet, p, h) <=> Plan(wallet, p, h, h) \in Executable

(* No sequence of scans, truncations and rewinds loses the witness data of *)
(* a mined note for good: where plan_tree_truncation discards a tree, the  *)
(* note's block is queued for scanning again.                              *)
WitnessesKept ==
    \A p \in Pools : \A n \in wallet.notes[p] :
        n \in wallet.marks[p] \/ n \in wallet.toScan

(* A tree holds nothing above its newest checkpoint, which is why a        *)
(* truncation may leave a tree without checkpoints above it untouched      *)
(* (TreeTruncation::Unaffected), although history is inserted without      *)
(* checkpoints and the oldest are pruned.                                  *)
MarksCovered ==
    \A p \in Pools : \A n \in wallet.marks[p] : \E c \in wallet.cp[p] : c >= n

(* A truncation below the last scanned block, to a height that a block row *)
(* qualifies for (the tip is lowered to it), leaves no block, checkpoint   *)
(* or witness data above that height, also in the pools whose tree it left *)
(* alone.                                                                  *)
TruncationRemoves ==
    [][LET h == wallet'.tip
       IN  h < LastScanned(wallet) /\ SelectTruncationHeight(wallet, h, FALSE) = h =>
             /\ wallet'.blocks \subseteq 0..h
             /\ \A p \in Pools : wallet'.cp[p] \cup wallet'.marks[p] \subseteq 0..h]_vars

(* A step that keeps the tip (scans, and rewind_to_chain_state) removes no *)
(* block below the pruning window of the chain tip, however many rewinds   *)
(* follow each other without a scan between them.                          *)
RewindKeepsFloor ==
    [][wallet'.tip = wallet.tip =>
          {b \in wallet.blocks : b <= wallet.tip - (PRUNING_DEPTH - 1)}
             \subseteq wallet'.blocks]_vars

(* A retained anchor that is checkpointed survives every step that removes *)
(* no block: batches larger than the checkpoint budget, and history        *)
(* inserted below newer checkpoints.                                       *)
AnchorsSurviveScans ==
    [][wallet.blocks \subseteq wallet'.blocks =>
          \A p \in Pools : wallet.cp[p] \cap wallet.kept[p] \subseteq wallet'.cp[p]]_vars

(* What batch_ensure_heights promises: a scanned batch leaves a checkpoint *)
(* in every pool at every height the policy retains within it.             *)
AnchorsEnsured ==
    [][\A f, t \in Heights : PutBlocks(f, t) =>
          \A p \in open : Anchors \cap (f + 1)..t \subseteq wallet'.cp[p]]_vars

(* What truncate_to_chain_state promises: a missing checkpoint at the      *)
(* target height is recovered from and is no error.                        *)
ChainStateReachable ==
    \A t \in Heights : TruncatesTrees(t) => CanTruncateToChainState(t)

(* What truncate_to_chain_state promises of its outcome: the trees end at  *)
(* the target height, so no checkpoint of the abandoned blocks is left.    *)
ChainStateIsExact ==
    [][\A t \in Heights : TruncateToChainState(t) /\ TruncatesTrees(t) =>
          \A p \in Pools : wallet'.cp[p] \subseteq 0..t]_vars

(* What DivergedCheckpoints stands for, corrupted data, is not found by a  *)
(* rewind of a wallet that only ever scanned and truncated.                *)
RewindNeverDiverged ==
    \A t \in Heights : Rewinds(t) =>
        \A p \in Pools : Plan(wallet, p, RewindHeight(t), t) # "DivergedCheckpoints"

(* truncate_to_chain_state's comment on a missing safe rewind height: no   *)
(* tree has a checkpoint then.                                             *)
NoSharedMeansNone ==
    MinSharedCheckpointHeight(wallet) = None => \A p \in Pools : wallet.cp[p] = {}

=============================================================================
