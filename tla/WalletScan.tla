----------------------------- MODULE WalletScan -----------------------------
(***************************************************************************)
(* The wallet's scanning state: which blocks are stored, which heights are *)
(* queued and how urgently, and how account birthdays, chain tip updates,  *)
(* scanned batches, truncations, rewinds and pruning move them.            *)
(*                                                                         *)
(* Every action is one call of the WalletWrite interface, which the SQLite *)
(* backend runs in one database transaction.  The queue is looked at       *)
(* height by height (module ScanPriority).                                 *)
(***************************************************************************)
EXTENDS ScanPriority, FiniteSets, FiniteSetsExt

CONSTANTS
    Accounts,               \* account identifiers
    Pools,                  \* shielded pools, each with its commitment tree
    PoolActivation,         \* [Pools -> Heights]: where each tree starts
    SaplingActivation,      \* the first height a shielded wallet scans
    PRUNING_DEPTH,          \* reorganisations never go deeper
    VERIFY_LOOKAHEAD,       \* blocks verified above the scanned ones
    RetainPriorities,       \* thresholds handed to prune_scan_queue_below
    RescanPriorities,       \* priorities handed to queue_rescans
    MaxSubtrees,            \* bound on the subtrees reported for a pool
    StaleTip                \* may accounts and rewinds find an outdated tip?

ASSUME ScanAssumption ==
    /\ PoolActivation \in [Pools -> Heights]
    /\ SaplingActivation \in Heights
    /\ PRUNING_DEPTH \in Nat \ {0}
    /\ VERIFY_LOOKAHEAD \in Nat
    /\ RetainPriorities \subseteq Priorities \cup {RetainNothing}
    /\ RescanPriorities \subseteq {p \in Priorities : p >= Historic}
    /\ MaxSubtrees \in Nat
    /\ StaleTip \in BOOLEAN

VARIABLES
    queue,          \* table scan_queue, as a priority for every height
    blocks,         \* table blocks: the heights whose block is stored
    birthdays,      \* table accounts: the birthday of every account
    shards          \* tables *_tree_shards: the known ends of subtrees

vars == << queue, blocks, birthdays, shards >>

NoHeight == -1      \* the absence of a height, and of an account

MaxOrNone(S) == IF S = {} THEN NoHeight ELSE Max(S)
MinOrNone(S) == IF S = {} THEN NoHeight ELSE Min(S)

TypeOK ==
    /\ queue \in Cells
    /\ blocks \subseteq Heights
    /\ birthdays \in [Accounts -> Heights \cup {NoHeight}]
    /\ shards \in [Pools -> SUBSET Heights]

-----------------------------------------------------------------------------
(* chain_tip_height: the end of the queue, less one.                       *)
Tip == MaxOrNone(Covered(queue))

(* block_height_extrema and block_max_scanned                              *)
MaxScanned == MaxOrNone(blocks)

KnownBirthdays == {birthdays[a] : a \in Accounts} \ {NoHeight}

(* wallet_birthday                                                         *)
WalletBirthday == MinOrNone(KnownBirthdays)

Lower(x, y)  == IF x < y THEN x ELSE y
Higher(x, y) == IF x < y THEN y ELSE x

SaturatingSub(x, y) == Higher(x - y, 0)

Init ==
    /\ queue = [h \in Heights |-> NoRow]
    /\ blocks = {}
    /\ birthdays = [a \in Accounts |-> NoHeight]
    /\ shards = [p \in Pools |-> {}]

-----------------------------------------------------------------------------
(* update_chain_tip                                                        *)

ShardTips == {Max(shards[p]) : p \in {q \in Pools : shards[q] # {}}}

MinShardTip == MinOrNone(ShardTips)

HasTipShard(t) == MinShardTip # NoHeight /\ MinShardTip < t + 1

TipShardEntry(t) ==
    ScanRange(Higher(WalletBirthday, MinShardTip), t + 1, ChainTip)

(* The part of tip_entry that depends on the blocks scanned so far: the    *)
(* range up to the new tip, or only the blocks that confirm the last       *)
(* scanned one when that lies below the reach of reorganisations.          *)
ConnectingEntry(t) ==
    LET minUnscanned == MaxScanned + 1
        stable       == SaturatingSub(t, PRUNING_DEPTH)
    IN  IF ~HasTipShard(t) THEN ScanRange(minUnscanned, t + 1, Historic)
        ELSE IF MaxScanned > stable THEN ScanRange(minUnscanned, t + 1, ChainTip)
        ELSE ScanRange(minUnscanned,
                       Lower(stable + 1, minUnscanned + VERIFY_LOOKAHEAD), Verify)

TipEntry(t) ==
    IF blocks # {} THEN ConnectingEntry(t)
    ELSE IF WalletBirthday = NoHeight
    THEN ScanRange(SaplingActivation, t + 1, Ignored)
    ELSE ScanRange(WalletBirthday, t + 1, Historic)

TipQuery(t) ==
    IF HasTipShard(t)
    THEN ScanRange(Lower(TipShardEntry(t).start, TipEntry(t).start), t + 1, ChainTip)
    ELSE TipEntry(t)

(* Fault: the link to the scanned blocks is left out.                      *)
FaultyTipQueue(t) ==
    IF HasTipShard(t)
    THEN InsertCells(queue, TipShardEntry(t), TipShardEntry(t), FALSE)
    ELSE InsertCells(queue, TipEntry(t), TipQuery(t), FALSE)

TipQueue(t) ==
    IF HasTipShard(t)
    THEN ReplaceTwo(queue, TipShardEntry(t), TipEntry(t), TipQuery(t), FALSE)
    ELSE InsertCells(queue, TipEntry(t), TipQuery(t), FALSE)

(* A tip below Sapling activation or below the scanned blocks is ignored.  *)
(* A tip below the block before the wallet birthday is not reported: the   *)
(* chain that the birthday came from was at least that high, and the code  *)
(* would panic on an inverted range.                                       *)
UpdateChainTip(t) ==
    /\ SaplingActivation <= t
    /\ MaxScanned <= t
    /\ WalletBirthday <= t + 1
    /\ queue' = TipQueue(t)
    /\ UNCHANGED << blocks, birthdays, shards >>

-----------------------------------------------------------------------------
(* put_blocks and scan_complete                                            *)

(* A subtree of pool p, named by the end of the subtree before it          *)
(* (NoHeight for the first one), can hold a note of the block at height h. *)
HoldsNotesOf(p, prev, h) ==
    /\ prev <= h
    /\ \A end \in shards[p] : prev < end => h <= end

(* The subtrees in which a batch [s, e) may find notes of the wallet.      *)
SubtreesOf(s, e) ==
    {x \in Pools \X (Heights \cup {NoHeight}) :
        /\ x[2] = NoHeight \/ x[2] \in shards[x[1]]
        /\ \E h \in s .. e - 1 : HoldsNotesOf(x[1], x[2], h)}

(* The bounds that a subtree puts on the blocks needed for a witness: from *)
(* the end of the subtree before it, but not from below the birthday, to   *)
(* its own end where that is known.                                        *)
SubtreeStart(x) ==
    Higher(WalletBirthday,
           IF x[2] = NoHeight THEN PoolActivation[x[1]] ELSE x[2])

SubtreeEnds(x) == {end + 1 : end \in {h \in shards[x[1]] : x[2] < h}}

(* extend_range over the pools                                             *)
ExtendedStart(s, found) == Min({s} \cup {SubtreeStart(x) : x \in found})

ExtendedEnd(e, found) ==
    Max({e} \cup {Min(SubtreeEnds(x)) : x \in {y \in found : SubtreeEnds(y) # {}}})

ScannedQueue(s, e, found) ==
    LET b == ExtendedStart(s, found)
        a == ExtendedEnd(e, found)
    IN  ReplaceThree(queue, ScanRange(s, e, Scanned), ScanRange(b, s, FoundNote),
                     ScanRange(e, a, FoundNote), ScanRange(b, a, Scanned), FALSE)

(* A batch of blocks [s, e) is scanned and stored; found are the subtrees  *)
(* of the notes in it.  The queue asks for these blocks, or has them       *)
(* scanned already: no caller scans what the queue ignores.                *)
PutBlocks(s, e, found) ==
    /\ s < e
    /\ \A h \in s .. e - 1 : queue[h] >= Scanned
    /\ queue' = ScannedQueue(s, e, found)
    /\ blocks' = blocks \cup s .. e - 1
    /\ UNCHANGED << birthdays, shards >>

(* put_*_subtree_roots: the server reports one more completed subtree.     *)
PutSubtreeRoot(p, end) ==
    /\ Cardinality(shards[p]) < MaxSubtrees
    /\ PoolActivation[p] <= end
    /\ \A known \in shards[p] : known < end
    /\ shards' = [shards EXCEPT ![p] = @ \cup {end}]
    /\ UNCHANGED << queue, blocks, birthdays >>

-----------------------------------------------------------------------------
(* truncate_to_height and truncate_to_chain_state: the queue is trimmed    *)
(* and the block rows above the height are deleted.  Which heights can be  *)
(* truncated to depends on the commitment trees; here it is any of them.   *)
(* Fault: the row of the block right above the height stays.               *)
FaultyTruncatedBlocks(height) == {h \in blocks : h <= height + 1}

TruncatedBlocks(height) == {h \in blocks : h <= height}

TruncateToHeight(height) ==
    /\ queue' = TrimCells(queue, height)
    /\ blocks' = TruncatedBlocks(height)
    /\ UNCHANGED << birthdays, shards >>

(* A truncation or pruning of the whole queue loses the tip, until the     *)
(* next tip update.                                                        *)
TipKnown == blocks = {} \/ Covered(queue) # {}

(* rewind_to_chain_state: data is truncated only above the pruning floor,  *)
(* and every height above the target is queued again, up to the tip.       *)
TruncationNeeded(target) == target < MaxScanned

TruncationTarget(target) ==
    Higher(target, SaturatingSub(Higher(Tip, MaxScanned), PRUNING_DEPTH - 1))

(* The checkpoint at or above the truncation target, or the target itself. *)
TruncationHeight(target, height) ==
    IF TruncationNeeded(target) THEN TruncationTarget(target) <= height
    ELSE height = target

RewoundQueue(target, height) ==
    LET trimmed == IF TruncationNeeded(target) THEN TrimCells(queue, height)
                   ELSE queue
        rescan  == ScanRange(target + 1, Tip + 1, Historic)
    IN  IF target < Tip THEN InsertCells(trimmed, rescan, rescan, TRUE)
        ELSE trimmed

RewoundBlocks(target, height) ==
    IF TruncationNeeded(target) THEN TruncatedBlocks(height) ELSE blocks

(* Fault: the birthday is reset even where it lies below the target.       *)
FaultyResetBirthdays(target, reset) ==
    [a \in Accounts |-> IF a \in reset THEN target + 1 ELSE birthdays[a]]

(* Birthdays above the target are lowered for the accounts in reset.       *)
ResetBirthdays(target, reset) ==
    [a \in Accounts |-> IF a \in reset THEN Lower(birthdays[a], target + 1)
                        ELSE birthdays[a]]

RewindToChainState(target, height, reset) ==
    /\ \A a \in reset : birthdays[a] # NoHeight
    /\ reset # {} \/ \E b \in KnownBirthdays : b <= target + 1
    /\ StaleTip \/ TipKnown
    /\ TruncationHeight(target, height)
    /\ queue' = RewoundQueue(target, height)
    /\ blocks' = RewoundBlocks(target, height)
    /\ birthdays' = ResetBirthdays(target, reset)
    /\ UNCHANGED shards

-----------------------------------------------------------------------------
(* Fault: the heights before the birthday are queued as an ignored range   *)
(* that displaces the work of other accounts.                              *)
FaultyAccountQueue(b, height) ==
    [h \in Heights |-> IF h < b THEN Ignored ELSE RewoundQueue(b - 1, height)[h]]

(* add_account: rewind to the block before the birthday, then ignore the   *)
(* heights below the birthday unless they are queued already.              *)
AccountQueue(b, height) ==
    LET ignored == ScanRange(SaplingActivation, b, Ignored)
    IN  IF SaplingActivation < b
        THEN InsertCells(RewoundQueue(b - 1, height), ignored, ignored, FALSE)
        ELSE RewoundQueue(b - 1, height)

AddAccount(a, b, height) ==
    /\ birthdays[a] = NoHeight
    /\ SaplingActivation <= b /\ 0 < b
    /\ StaleTip \/ (TipKnown /\ (KnownBirthdays = {} \/ b <= Tip + 1))
    /\ TruncationHeight(b - 1, height)
    /\ queue' = AccountQueue(b, height)
    /\ blocks' = RewoundBlocks(b - 1, height)
    /\ birthdays' = [birthdays EXCEPT ![a] = b]
    /\ UNCHANGED shards

(* delete_account leaves the queue as it is.                               *)
DeleteAccount(a) ==
    /\ birthdays[a] # NoHeight
    /\ birthdays' = [birthdays EXCEPT ![a] = NoHeight]
    /\ UNCHANGED << queue, blocks, shards >>

(* prune_scan_queue_below, used as documented: at or below the birthday.   *)
PruneScanQueueBelow(height, retain) ==
    /\ KnownBirthdays # {}
    /\ height <= WalletBirthday
    /\ queue' = PruneCells(queue, height, retain)
    /\ UNCHANGED << blocks, birthdays, shards >>

(* queue_rescans, on a range that the queue covers.                        *)
QueueRescans(s, e, p) ==
    /\ s < e
    /\ s .. e - 1 \subseteq Covered(queue)
    /\ queue' = InsertCells(queue, ScanRange(s, e, p), ScanRange(s, e, p), TRUE)
    /\ UNCHANGED << blocks, birthdays, shards >>

-----------------------------------------------------------------------------
Next ==
    \/ \E t \in Heights : UpdateChainTip(t)
    \/ \E s \in Heights, e \in 1 .. MaxHeight + 1 :
            \E found \in SUBSET SubtreesOf(s, e) : PutBlocks(s, e, found)
    \/ \E p \in Pools, end \in Heights : PutSubtreeRoot(p, end)
    \/ \E height \in Heights : TruncateToHeight(height)
    \/ \E target, height \in Heights, reset \in SUBSET Accounts :
            RewindToChainState(target, height, reset)
    \/ \E a \in Accounts, b, height \in Heights : AddAccount(a, b, height)
    \/ \E a \in Accounts : DeleteAccount(a)
    \/ \E height \in Heights, retain \in RetainPriorities :
            PruneScanQueueBelow(height, retain)
    \/ \E s \in Heights, e \in 1 .. MaxHeight + 1, p \in RescanPriorities :
            QueueRescans(s, e, p)

Spec == Init /\ [][Next]_vars

-----------------------------------------------------------------------------
(* fully_scanned_height: the end of the first scanned row, if that row     *)
(* starts at or below the birthday.                                        *)
ScannedHeights == {h \in Heights : queue[h] = Scanned}

FirstScannedRow ==
    {h \in ScannedHeights : \A g \in Heights :
        Min(ScannedHeights) <= g /\ g <= h => queue[g] = Scanned}

(* Fault: the highest scanned block (block_max_scanned) is taken instead.  *)
FaultyFullyScannedHeight ==
    IF \/ KnownBirthdays = {}
       \/ ScannedHeights = {}
       \/ Min(ScannedHeights) > WalletBirthday
    THEN NoHeight
    ELSE Max(ScannedHeights)

FullyScannedHeight ==
    IF \/ KnownBirthdays = {}
       \/ ScannedHeights = {}
       \/ Min(ScannedHeights) > WalletBirthday
    THEN NoHeight
    ELSE Max(FirstScannedRow)

-----------------------------------------------------------------------------
(* No block is lost: every height from the birthday of an account up to    *)
(* the wallet's tip is scanned or waits to be, never ignored and never     *)
(* missing.                                                                *)
NothingSkipped ==
    \A a \in Accounts, h \in Heights :
        birthdays[a] # NoHeight /\ birthdays[a] <= h /\ h <= Tip
            => queue[h] \notin {NoRow, Ignored}

(* A height counts as scanned only while its block is stored.  Truncations *)
(* delete block rows and trim the queue in separate statements, and a deep *)
(* rewind keeps rows that the queue asks to scan again.                    *)
ScannedIsStored == ScannedHeights \subseteq blocks

(* The height reported as fully scanned: every block from the wallet       *)
(* birthday up to it is stored and scanned.                                *)
FullyScannedSound ==
    FullyScannedHeight # NoHeight =>
        \A h \in Heights :
            WalletBirthday <= h /\ h <= FullyScannedHeight
                => queue[h] = Scanned /\ h \in blocks

(* A stored block whose height is not queued lies below the whole queue    *)
(* and below every birthday: only pruning removes the queue entry of a     *)
(* block that stays, and neither pruning nor a later truncation, rewind or *)
(* merge leaves such a block above queued heights or where an account      *)
(* needs it.  So the tip never falls behind the blocks while it is known.  *)
BlocksQueuedOrPruned ==
    \A b \in blocks :
        \/ queue[b] # NoRow
        \/ /\ \A g \in Covered(queue) : b < g
           /\ \A k \in KnownBirthdays : b < k

Contiguous(cells) ==
    \A lo, hi \in Covered(cells) : \A h \in Heights :
        lo < h /\ h < hi => cells[h] # NoRow

(* The coverage of the queue stays without holes under pruning, scanning,  *)
(* truncating, rewinding and adding accounts: a later merge would refill a *)
(* hole as Historic work (prune_scan_queue_below promises not to open      *)
(* one).  Only two steps may leave heights uncovered, below every birthday *)
(* (NothingSkipped): a tip update that resumes far from a truncated queue, *)
(* and an account added while the whole queue lies below Sapling           *)
(* activation, where its ignored range starts.                             *)
OnlyResumingOpensHoles ==
    [][Contiguous(queue) /\ ~Contiguous(queue')
         => \/ \E t \in Heights : UpdateChainTip(t)
            \/ /\ Tip < SaplingActivation - 1
               /\ \E a \in Accounts, b, height \in Heights : AddAccount(a, b, height)]_vars

(* Only a step that goes back queues a scanned block again: a truncation,  *)
(* a rewind, an account added with its rewind, or an explicit rescan.  A   *)
(* new tip, a scanned batch or pruning never do.  The Verify range of      *)
(* update_chain_tip dominates Scanned, so this depends on where it starts. *)
GoesBack ==
    \/ \E height \in Heights : TruncateToHeight(height)
    \/ \E target, height \in Heights, reset \in SUBSET Accounts :
            RewindToChainState(target, height, reset)
    \/ \E a \in Accounts, b, height \in Heights : AddAccount(a, b, height)
    \/ \E s \in Heights, e \in 1 .. MaxHeight + 1, p \in RescanPriorities :
            QueueRescans(s, e, p)

ScannedSurvives ==
    [][(\E h \in ScannedHeights : queue'[h] > Scanned) => GoesBack]_vars

(* update_chain_tip's comment: "Any gap between stable_height and          *)
(* shard_start_height will be filled by the scan range merging logic with  *)
(* a Historic range."  Stated for the heights at or above the wallet       *)
(* birthday.                                                               *)
TipUpdateFillsGap ==
    [][\A t \in Heights :
        LET stable == SaturatingSub(t, PRUNING_DEPTH)
        IN  /\ UpdateChainTip(t)
            /\ HasTipShard(t) /\ blocks # {} /\ MaxScanned <= stable
            => \A h \in Heights :
                    /\ KnownBirthdays # {} /\ WalletBirthday <= h
                    /\ stable < h /\ h < TipShardEntry(t).start
                    => queue'[h] >= Historic]_vars

AllScanned == \A h \in Heights : queue[h] <= Scanned

(* fully_scanned_height returns "the height to which the wallet is FULLY   *)
(* scanned (every block from the wallet birthday through it has been       *)
(* scanned)": a wallet with nothing left to scan is fully scanned to its   *)
(* tip.                                                                    *)
FullyScannedReachesTip ==
    AllScanned /\ KnownBirthdays # {} /\ WalletBirthday <= Tip
        => FullyScannedHeight = Tip

-----------------------------------------------------------------------------
(* The sync loop: suggest_scan_ranges lists the ranges of priority at      *)
(* least Historic, the most urgent first and the highest first among equal *)
(* ones, and the loop scans a batch from the start of the first.           *)
Urgency == Max({queue[h] : h \in Heights})

(* Fault: the lowest priority that asks for a scan is left out.            *)
FaultySuggested(s, e) ==
    /\ Urgency > Historic
    /\ s < e /\ \A h \in s .. e - 1 : queue[h] = Urgency
    /\ 0 < s => queue[s - 1] # Urgency

Suggested(s, e) ==
    /\ Urgency >= Historic
    /\ s < e /\ \A h \in s .. e - 1 : queue[h] = Urgency
    /\ 0 < s => queue[s - 1] # Urgency
    /\ \A h \in Heights : h >= e /\ queue[h] = Urgency
            => \A g \in e .. h : queue[g] = Urgency

ScanSuggested ==
    \E s \in Heights, e \in 1 .. MaxHeight + 1 :
        /\ Suggested(s, e)
        /\ \E found \in SUBSET SubtreesOf(s, e) : PutBlocks(s, e, found)

(* A running sync loop keeps scanning what is suggested.                   *)
FairSpec == Spec /\ WF_vars(ScanSuggested)

(* Once the wallet only scans suggested ranges, it ends up fully scanned:  *)
(* the FoundNote ranges that scanning itself adds do not keep it busy      *)
(* forever.                                                                *)
SyncCompletes == <>[][ScanSuggested]_vars => <>[]AllScanned

=============================================================================
