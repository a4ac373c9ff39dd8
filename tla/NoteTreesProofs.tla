-------------------------- MODULE NoteTreesProofs ---------------------------
(***************************************************************************)
(* What holds of the note commitment trees for every number of pools,      *)
(* every chain, every pruning depth and every anchor retention policy.     *)
(***************************************************************************)
EXTENDS NoteTrees, Extrema, FiniteSetTheorems, TLAPS

(* The rows of the wallet. *)
Rows ==
    [cp     : [Pools -> SUBSET Heights],
     kept   : [Pools -> SUBSET Heights],
     marks  : [Pools -> SUBSET Heights],
     notes  : [Pools -> SUBSET Heights],
     blocks : SUBSET Heights,
     toScan : SUBSET Heights,
     tip    : Heights]

(* The checkpoints `cp` reach up to the height n. *)
Covers(cp, n) == \E c \in cp : c >= n

(* The wallet state s of a wallet with the tables of `pools`, on chain c.  *)
(* A note is on the chain, in a pool that has tables, and not above the    *)
(* tip; so is a block.  Without the first three a scan that takes a note's *)
(* block from the queue need not find the note again.                      *)
Sound(s, c, pools) ==
    /\ s \in Rows
    /\ s.toScan \subseteq 1 .. s.tip
    /\ s.blocks \subseteq 0 .. s.tip
    /\ \A p \in Pools : \A n \in s.marks[p] : Covers(s.cp[p], n)
    /\ \A p \in Pools : \A n \in s.notes[p] :
          /\ n \in s.marks[p] \/ n \in s.toScan
          /\ n <= s.tip
          /\ p \in pools
          /\ n \in c.notes[p]

IInv ==
    /\ chain \in Chains
    /\ open \in SUBSET Pools
    /\ Sound(wallet, chain, open)

-----------------------------------------------------------------------------
(* Sets of heights.                                                        *)

LEMMA HeightsNat == Heights \subseteq Nat /\ PRUNING_DEPTH \in Nat /\ PRUNING_DEPTH >= 1
<1>1. MaxHeight \in Nat /\ PRUNING_DEPTH \in Nat \ {0}
  BY TreeAssumption
<1> QED
  BY <1>1 DEF Heights

LEMMA MaxOfHeights ==
    ASSUME NEW S \in SUBSET Heights, S # {}
    PROVE  Max(S) \in S /\ \A x \in S : x <= Max(S)
BY MaxBounded, TreeAssumption, Zenon DEF Heights

LEMMA MinOfHeights ==
    ASSUME NEW S \in SUBSET Heights, S # {}
    PROVE  Min(S) \in S /\ \A x \in S : Min(S) <= x
<1>1. S \subseteq Nat
  BY HeightsNat
<1> QED
  BY <1>1, MinHeight, Zenon

LEMMA HeightsFinite ==
    ASSUME NEW S \in SUBSET Heights
    PROVE  IsFiniteSet(S) /\ Cardinality(S) \in Nat
<1>1. IsFiniteSet(Heights)
  <2>1. 0 \in Int /\ MaxHeight \in Int
    BY TreeAssumption
  <2>2. IsFiniteSet(0 .. MaxHeight)
    BY <2>1, FS_Interval
  <2> QED
    BY <2>2 DEF Heights
<1>2. IsFiniteSet(S)
  BY <1>1, FS_Subset
<1> QED
  BY <1>2, FS_CardinalityType

-----------------------------------------------------------------------------
(* Pruning.                                                                *)

(* The newest checkpoint is never in excess of the budget. *)
LEMMA NewestNotExcess ==
    ASSUME NEW cp \in SUBSET Heights, NEW kept, cp # {}
    PROVE  Max(cp) \notin Excess(cp, kept)
<1> DEFINE ordinary == cp \ kept
<1>1. Max(cp) \in cp /\ \A x \in cp : x <= Max(cp)
  BY MaxOfHeights
<1>2. Max(cp) \in ordinary => UpTo(ordinary, Max(cp)) = ordinary
  BY <1>1 DEF UpTo
<1>3. Cardinality(ordinary) \in Nat
  BY HeightsFinite
<1>4. ~(Cardinality(ordinary) <= Cardinality(ordinary) - PRUNING_DEPTH)
  BY <1>3, HeightsNat
<1> QED
  BY <1>2, <1>4 DEF Excess

(* Removing checkpoints that are in excess leaves what is covered covered, *)
(* and the retained anchors in place.                                      *)
LEMMA PruningCovers ==
    ASSUME NEW cp \in SUBSET Heights, NEW kept, NEW D \in SUBSET Excess(cp, kept),
           NEW n \in Heights, Covers(cp, n)
    PROVE  Covers(cp \ D, n)
<1>1. PICK c \in cp : c >= n
  BY DEF Covers
<1>2. PICK m \in cp : m = Max(cp) /\ c <= m
  BY <1>1, MaxOfHeights
<1>3. m \in cp \ D
  BY <1>2, NewestNotExcess
<1>4. m >= n
  <2>1. m \in Nat /\ c \in Nat /\ n \in Nat
    BY HeightsNat
  <2> QED
    BY <1>1, <1>2, <2>1
<1> QED
  BY <1>3, <1>4 DEF Covers

LEMMA ExcessOrdinary ==
    ASSUME NEW cp, NEW kept
    PROVE  Excess(cp, kept) \subseteq cp \ kept
BY DEF Excess

(* insert_frontier keeps the anchors, and what is covered. *)
LEMMA InsertFrontierSound ==
    ASSUME NEW p, NEW cp \in SUBSET Heights, NEW kept, NEW f \in Heights
    PROVE  /\ InsertFrontier(p, cp, kept, f) \in SUBSET Heights
           /\ cp \cap kept \subseteq InsertFrontier(p, cp, kept, f)
           /\ \A n \in Heights : Covers(cp, n) => Covers(InsertFrontier(p, cp, kept, f), n)
<1> DEFINE all == cp \cup {f}
<1>1. all \in SUBSET Heights /\ \A n \in Heights : Covers(cp, n) => Covers(all, n)
  BY DEF Covers
<1>2. InsertFrontier(p, cp, kept, f) \in {all, all \ Excess(all, kept)}
  BY DEF InsertFrontier, PruneOldest
<1>3. cp \cap kept \subseteq all \ Excess(all, kept)
  BY ExcessOrdinary
<1>4. \A n \in Heights : Covers(cp, n) => Covers(all \ Excess(all, kept), n)
  BY <1>1, PruningCovers, Zenon
<1> HIDE DEF all
<1> QED
  BY <1>1, <1>2, <1>3, <1>4, ExcessOrdinary DEF InsertFrontier

-----------------------------------------------------------------------------
(* update_tree: the anchors of the tree survive the batch, and its newest  *)
(* checkpoint covers the notes found in it, also when the batch carries no *)
(* checkpoints because newer ones fill the budget.                         *)
LEMMA UpdateTreeSound ==
    ASSUME chain \in Chains, open \in SUBSET Pools, wallet \in Rows,
           \A q \in Pools : \A n \in wallet.marks[q] : Covers(wallet.cp[q], n),
           NEW p \in open, NEW f \in Heights, NEW t \in Heights, f < t
    PROVE  /\ UpdateTree(p, f, t).cp \in SUBSET Heights
           /\ UpdateTree(p, f, t).kept \in SUBSET Heights
           /\ wallet.cp[p] \cap wallet.kept[p] \subseteq UpdateTree(p, f, t).cp
           /\ \A n \in wallet.marks[p] \cup (chain.notes[p] \cap (f + 1)..t) :
                 Covers(UpdateTree(p, f, t).cp, n)
<1> DEFINE cp0      == wallet.cp[p]
           kept0    == wallet.kept[p]
           own      == OwnCheckpoints(p, f, t)
           inserted == chain.commits[p] \cap (f + 1)..t # {}
           cp1      == InsertFrontier(p, cp0, kept0, f)
           kept1    == kept0 \cup ((own \cup {f}) \cap Anchors)
           cp2      == IF inserted THEN PruneOldest(cp1 \cup own, kept1) ELSE cp1
           missing  == {g \in EnsureHeights(p, f, t) \ own : g > MinOr(cp2, f)}
           kept2    == kept1 \cup (missing \cap Anchors)
           cp3      == cp2 \cup missing
           positionless == {u \in Excess(cp3, kept2) :
                              \A v \in UpTo(cp3 \ kept2, u) : Positionless(p, v)}
           cp4      == IF inserted THEN cp3 ELSE cp3 \ positionless
<1>1. UpdateTree(p, f, t).cp = cp4 /\ UpdateTree(p, f, t).kept = kept2
  BY Zenon DEF UpdateTree, PrunePositionless
<1>2. cp0 \in SUBSET Heights /\ kept0 \in SUBSET Heights /\ wallet.marks[p] \in SUBSET Heights
  BY DEF Rows
<1>3. (f + 1) .. t \subseteq Heights
  BY TreeAssumption DEF Heights
<1>4. \A q \in Pools : OwnCheckpoints(q, f, t) \in SUBSET Heights
  BY <1>3 DEF OwnCheckpoints
<1>5. EnsureHeights(p, f, t) \in SUBSET Heights
  BY <1>3, <1>4, SMTT(40) DEF EnsureHeights
<1>6. /\ cp1 \in SUBSET Heights /\ cp0 \cap kept0 \subseteq cp1
      /\ \A n \in Heights : Covers(cp0, n) => Covers(cp1, n)
  <2> HIDE DEF cp0, kept0
  <2> QED
    BY <1>2, InsertFrontierSound, Zenon
<1>7. own \in SUBSET Heights /\ kept1 \in SUBSET Heights /\ kept0 \subseteq kept1
  BY <1>2, <1>4
<1> HIDE DEF own, cp1, kept1, inserted
<1>8. /\ cp2 \in SUBSET Heights /\ cp0 \cap kept0 \subseteq cp2
      /\ \A n \in Heights : Covers(cp0, n) => Covers(cp2, n)
      /\ inserted => \A n \in own : Covers(cp2, n)
  <2> DEFINE all == cp1 \cup own
  <2>1. /\ all \in SUBSET Heights
        /\ \A n \in Heights : Covers(cp1, n) => Covers(all, n)
        /\ \A n \in own : Covers(all, n)
    <3>1. \A n \in own : n >= n
      BY <1>7, HeightsNat
    <3> QED
      BY <1>6, <1>7, <3>1 DEF Covers
  <2>2. \A n \in Heights : Covers(all, n) => Covers(all \ Excess(all, kept1), n)
    BY <2>1, PruningCovers, Zenon
  <2>3. cp0 \cap kept0 \subseteq all \ Excess(all, kept1)
    BY <1>6, <1>7, ExcessOrdinary
  <2>4. cp2 = IF inserted THEN all \ Excess(all, kept1) ELSE cp1
    BY DEF PruneOldest
  <2> HIDE DEF all, cp2
  <2> QED
    BY <1>6, <1>7, <2>1, <2>2, <2>3, <2>4
<1> HIDE DEF cp2
<1>9. /\ cp3 \in SUBSET Heights /\ cp0 \cap kept0 \subseteq cp3
      /\ \A n \in Heights : Covers(cp2, n) => Covers(cp3, n)
      /\ kept2 \in SUBSET Heights /\ kept0 \subseteq kept2
  BY <1>5, <1>7, <1>8 DEF Covers
<1> HIDE DEF missing, cp3, kept2
<1>10. positionless \in SUBSET Excess(cp3, kept2)
  OBVIOUS
<1> HIDE DEF positionless
<1>11. /\ cp4 \in SUBSET Heights /\ cp0 \cap kept0 \subseteq cp4
       /\ \A n \in Heights : Covers(cp3, n) => Covers(cp4, n)
  <2>1. \A n \in Heights : Covers(cp3, n) => Covers(cp3 \ positionless, n)
    BY <1>9, <1>10, PruningCovers, Zenon
  <2>2. cp0 \cap kept0 \subseteq cp3 \ positionless
    BY <1>9, <1>10, ExcessOrdinary
  <2> QED
    BY <1>9, <2>1, <2>2, Zenon
<1> HIDE DEF cp4
<1>12. ASSUME NEW n \in wallet.marks[p] PROVE Covers(cp4, n)
  BY <1>2, <1>8, <1>9, <1>11
<1>13. ASSUME NEW n \in chain.notes[p] \cap (f + 1)..t PROVE Covers(cp4, n)
  <2>1. n \in Heights /\ n \in chain.commits[p] \cap (f + 1)..t
    BY <1>3, TreeAssumption
  <2>2. CASE CheckpointsDropped(f, t)
    <3> DEFINE newer == {c \in cp0 \ kept0 : c > t}
    <3>1. Cardinality(newer) >= PRUNING_DEPTH
      BY <2>2 DEF CheckpointsDropped, CheckpointsPrunedOnInsert
    <3>2. newer # {}
      <4>1. Cardinality({}) = 0
        BY FS_EmptySet
      <4>2. ~(Cardinality({}) >= PRUNING_DEPTH)
        BY <4>1, HeightsNat
      <4> HIDE DEF newer
      <4> QED
        BY <3>1, <4>2, Zenon
    <3>3. Covers(cp0, n)
      <4>1. PICK c \in cp0 : c > t
        BY <3>2
      <4>2. c \in Heights /\ t \in Heights /\ n \in Heights /\ n \in (f + 1)..t
        BY <1>2, <2>1
      <4>3. c \in Nat /\ t \in Nat /\ n \in Nat /\ f \in Nat
        BY <4>2, HeightsNat
      <4> QED
        BY <4>1, <4>2, <4>3 DEF Covers
    <3> QED
      BY <1>8, <1>9, <1>11, <2>1, <3>3
  <2>3. CASE ~CheckpointsDropped(f, t)
    <3>1. n \in own /\ inserted
      BY <2>1, <2>3, SMTT(40) DEF own, inserted, OwnCheckpoints
    <3> QED
      BY <1>8, <1>9, <1>11, <2>1, <3>1
  <2> QED
    BY <2>2, <2>3
<1> QED
  BY <1>1, <1>9, <1>11, <1>12, <1>13

-----------------------------------------------------------------------------
(* truncate_to_height_internal, field by field. *)
LEMMA TruncateFields ==
    ASSUME NEW s \in Rows, NEW h \in Heights, NEW floor
    PROVE  LET after == TruncateInternal(s, h, floor)
               Trees(field) == [p \in Pools |-> TruncatedTree(s, p, field, h, floor)]
           IN  /\ after.notes  = [p \in Pools |-> UpTo(s.notes[p], h)]
               /\ after.toScan = UpTo(s.toScan, h)
               /\ after.tip    = IF s.tip < h THEN s.tip ELSE h
               /\ after.kept   = s.kept
               /\ TreesAffected(s, h) =>
                     /\ after.cp = Trees("cp") /\ after.marks = Trees("marks")
                     /\ after.blocks = UpTo(s.blocks, h)
               /\ ~TreesAffected(s, h) =>
                     /\ after.cp = s.cp /\ after.marks = s.marks
                     /\ after.blocks = s.blocks
               /\ after \in Rows
<1> DEFINE unmined == [s EXCEPT !.notes  = [p \in Pools |-> UpTo(@[p], h)],
                                !.toScan = UpTo(@, h),
                                !.tip    = IF @ < h THEN @ ELSE h]
           Trees(field) == [p \in Pools |-> TruncatedTree(s, p, field, h, floor)]
           cut == [unmined EXCEPT !.cp = Trees("cp"), !.marks = Trees("marks"),
                                  !.blocks = UpTo(@, h)]
<1>1. TruncateInternal(s, h, floor) = IF TreesAffected(s, h) THEN cut ELSE unmined
  BY DEF TruncateInternal
<1>2. /\ unmined.notes  = [p \in Pools |-> UpTo(s.notes[p], h)]
      /\ unmined.toScan = UpTo(s.toScan, h)
      /\ unmined.tip    = IF s.tip < h THEN s.tip ELSE h
      /\ unmined.kept = s.kept /\ unmined.cp = s.cp /\ unmined.marks = s.marks
      /\ unmined.blocks = s.blocks
  BY SMTT(40) DEF Rows
<1>3. unmined \in Rows
  <2>1. [p \in Pools |-> UpTo(s.notes[p], h)] \in [Pools -> SUBSET Heights]
    BY DEF Rows, UpTo
  <2>2. UpTo(s.toScan, h) \in SUBSET Heights
    BY DEF Rows, UpTo
  <2>3. (IF s.tip < h THEN s.tip ELSE h) \in Heights
    BY DEF Rows
  <2> QED
    BY <2>1, <2>2, <2>3, Zenon DEF Rows
<1>4. Trees("cp") \in [Pools -> SUBSET Heights] /\ Trees("marks") \in [Pools -> SUBSET Heights]
  <2>1. ASSUME NEW p \in Pools
        PROVE  /\ TruncatedTree(s, p, "cp", h, floor) \in SUBSET s.cp[p]
               /\ TruncatedTree(s, p, "marks", h, floor) \in SUBSET s.marks[p]
    BY DEF TruncatedTree, UpTo
  <2> QED
    BY <2>1 DEF Rows
<1> HIDE DEF unmined, Trees
<1>5. /\ cut.notes = unmined.notes /\ cut.toScan = unmined.toScan
      /\ cut.tip = unmined.tip /\ cut.kept = unmined.kept
      /\ cut.cp = Trees("cp") /\ cut.marks = Trees("marks")
      /\ cut.blocks = UpTo(unmined.blocks, h)
  BY <1>3 DEF Rows
<1>6. cut \in Rows
  <2>1. UpTo(unmined.blocks, h) \in SUBSET Heights
    BY <1>3 DEF Rows, UpTo
  <2> QED
    BY <1>3, <1>4, <2>1, ZenonT(40) DEF Rows
<1> HIDE DEF cut
<1> QED
  BY <1>1, <1>2, <1>3, <1>5, <1>6 DEF Trees

(* Of these, the blocks and the tip. *)
LEMMA TruncateBlocks ==
    ASSUME NEW s \in Rows, NEW h \in Heights, NEW floor
    PROVE  /\ TruncateInternal(s, h, floor) \in Rows
           /\ TruncateInternal(s, h, floor).tip = IF s.tip < h THEN s.tip ELSE h
           /\ TreesAffected(s, h) => TruncateInternal(s, h, floor).blocks = UpTo(s.blocks, h)
           /\ ~TreesAffected(s, h) =>
                 /\ TruncateInternal(s, h, floor).blocks = s.blocks
                 /\ TruncateInternal(s, h, floor).cp = s.cp
<1> DEFINE after == TruncateInternal(s, h, floor)
<1>1. /\ after.notes  = [p \in Pools |-> UpTo(s.notes[p], h)]
      /\ after.toScan = UpTo(s.toScan, h)
      /\ after.tip    = IF s.tip < h THEN s.tip ELSE h
      /\ TreesAffected(s, h) =>
            /\ after.cp = [p \in Pools |-> TruncatedTree(s, p, "cp", h, floor)]
            /\ after.marks = [p \in Pools |-> TruncatedTree(s, p, "marks", h, floor)]
            /\ after.blocks = UpTo(s.blocks, h)
      /\ ~TreesAffected(s, h) =>
            after.cp = s.cp /\ after.marks = s.marks /\ after.blocks = s.blocks
      /\ after \in Rows
  BY TruncateFields
<1> HIDE DEF after
<1>2. /\ after \in Rows
      /\ after.tip = IF s.tip < h THEN s.tip ELSE h
      /\ TreesAffected(s, h) => after.blocks = UpTo(s.blocks, h)
      /\ ~TreesAffected(s, h) => after.blocks = s.blocks /\ after.cp = s.cp
  BY <1>1
<1> QED
  BY <1>2 DEF after

(* Truncating a sound wallet to h leaves it sound on every chain that      *)
(* agrees with its own up to h, except that notes above rescanFloor may    *)
(* have lost their witness data with their tree.                           *)
LEMMA TruncateSound ==
    ASSUME NEW s, NEW c, NEW d, NEW pools, Sound(s, c, pools),
           NEW h \in Heights, NEW floor \in Heights, floor <= h,
           \A p \in Pools : UpTo(c.notes[p], h) = UpTo(d.notes[p], h)
    PROVE  LET after == TruncateInternal(s, h, floor)
           IN  /\ after \in Rows
               /\ after.toScan \subseteq 1 .. after.tip
               /\ after.blocks \subseteq 0 .. after.tip
               /\ \A p \in Pools : \A n \in after.marks[p] : Covers(after.cp[p], n)
               /\ \A p \in Pools : \A n \in after.notes[p] :
                     /\ n \in after.marks[p] \/ n \in after.toScan \/ n > floor
                     /\ n <= after.tip /\ n <= h /\ n \in s.notes[p]
                     /\ p \in pools
                     /\ n \in d.notes[p]
<1> DEFINE after == TruncateInternal(s, h, floor)
<1>0. s \in Rows
  BY SMTT(40) DEF Sound
<1>1. /\ after.notes  = [p \in Pools |-> UpTo(s.notes[p], h)]
      /\ after.toScan = UpTo(s.toScan, h)
      /\ after.tip    = IF s.tip < h THEN s.tip ELSE h
      /\ TreesAffected(s, h) =>
            /\ after.cp = [p \in Pools |-> TruncatedTree(s, p, "cp", h, floor)]
            /\ after.marks = [p \in Pools |-> TruncatedTree(s, p, "marks", h, floor)]
            /\ after.blocks = UpTo(s.blocks, h)
      /\ ~TreesAffected(s, h) =>
            after.cp = s.cp /\ after.marks = s.marks /\ after.blocks = s.blocks
      /\ after \in Rows
  BY <1>0, TruncateFields, SMTT(40)
<1> HIDE DEF after
<1>2. s.tip \in Nat /\ h \in Nat /\ floor \in Nat
  BY <1>0, HeightsNat, SMTT(40) DEF Rows
<1>3. after.toScan \subseteq 1 .. after.tip
  <2>1. s.toScan \subseteq 1 .. s.tip
    BY DEF Sound
  <2> QED
    BY <1>1, <1>2, <2>1 DEF UpTo
<1>4. after.blocks \subseteq 0 .. after.tip
  <2>1. s.blocks \subseteq 0 .. s.tip /\ s.blocks \in SUBSET Heights
    BY <1>0 DEF Sound, Rows
  <2>2. CASE TreesAffected(s, h)
    BY <1>1, <1>2, <2>1, <2>2, SMTT(40) DEF UpTo
  <2>3. CASE ~TreesAffected(s, h)
    <3>1. \A b \in s.blocks : b <= h
      <4> SUFFICES ASSUME NEW b \in s.blocks PROVE b <= h
        OBVIOUS
      <4>1. ~(h < Max(s.blocks)) /\ Max(s.blocks) \in s.blocks /\ b <= Max(s.blocks)
        BY <2>1, <2>3, MaxOfHeights DEF TreesAffected, LastScanned, MaxOr
      <4> QED
        BY <1>2, <2>1, <4>1
    <3> QED
      BY <1>1, <1>2, <2>1, <2>3, <3>1
  <2> QED
    BY <2>2, <2>3
<1>5. ASSUME NEW p \in Pools, NEW n \in after.marks[p] PROVE Covers(after.cp[p], n)
  <2>1. ASSUME n \in s.marks[p] PROVE Covers(s.cp[p], n)
    BY <2>1, SMTT(40) DEF Sound
  <2>2. CASE ~TreesAffected(s, h)
    BY <1>1, <1>5, <2>1, <2>2, SMTT(40)
  <2>3. CASE TreesAffected(s, h)
    <3>1. /\ after.cp[p] = TruncatedTree(s, p, "cp", h, floor)
          /\ after.marks[p] = TruncatedTree(s, p, "marks", h, floor)
      BY <1>1, <2>3
    <3>2. CASE Plan(s, p, h, floor) = "ToCheckpoint"
      <4>1. h \in s.cp[p]
        BY <3>2 DEF Plan
      <4>2. h \in after.cp[p] /\ n <= h
        BY <1>2, <1>5, <3>1, <3>2, <4>1, SMTT(40) DEF TruncatedTree, UpTo
      <4>3. n \in Nat
        BY <1>0, <1>1, <1>5, HeightsNat DEF Rows
      <4> QED
        BY <1>2, <4>2, <4>3 DEF Covers
    <3>3. CASE Plan(s, p, h, floor) = "ResetToSubtreeRoots"
      BY <1>5, <3>1, <3>3 DEF TruncatedTree
    <3>4. CASE Plan(s, p, h, floor) \notin {"ToCheckpoint", "ResetToSubtreeRoots"}
      BY <1>5, <2>1, <3>1, <3>4, SMTT(40) DEF TruncatedTree
    <3> QED
      BY <3>2, <3>3, <3>4, SMTT(40)
  <2> QED
    BY <2>2, <2>3
<1>6. ASSUME NEW p \in Pools, NEW n \in after.notes[p]
      PROVE  /\ n \in after.marks[p] \/ n \in after.toScan \/ n > floor
             /\ n <= after.tip /\ n <= h /\ n \in s.notes[p]
             /\ p \in pools
             /\ n \in d.notes[p]
  <2>1. n \in s.notes[p] /\ n <= h
    BY <1>1, <1>6 DEF UpTo
  <2>2. /\ n \in s.marks[p] \/ n \in s.toScan
        /\ n <= s.tip /\ p \in pools /\ n \in c.notes[p]
    BY <2>1 DEF Sound
  <2>3. n \in Nat
    BY <1>0, <2>1, HeightsNat DEF Rows
  <2>4. n \in d.notes[p]
    BY <2>1, <2>2, SMTT(40) DEF UpTo
  <2>5. n <= after.tip
    BY <1>1, <1>2, <2>1, <2>2, SMTT(40)
  <2>6. CASE n \in s.toScan
    BY <1>1, <2>1, <2>2, <2>4, <2>5, <2>6, SMTT(40) DEF UpTo
  <2>7. CASE n \in s.marks[p] /\ ~TreesAffected(s, h)
    BY <1>1, <2>1, <2>2, <2>4, <2>5, <2>7, SMTT(40)
  <2>8. CASE n \in s.marks[p] /\ TreesAffected(s, h)
    <3>1. after.marks[p] = TruncatedTree(s, p, "marks", h, floor)
      BY <1>1, <2>8
    <3>2. CASE Plan(s, p, h, floor) = "ToCheckpoint"
      BY <2>1, <2>2, <2>4, <2>5, <2>8, <3>1, <3>2, SMTT(40) DEF TruncatedTree, UpTo
    <3>3. CASE Plan(s, p, h, floor) = "ResetToSubtreeRoots"
      <4>1. UpTo(s.notes[p], floor) = {}
        BY <3>3 DEF Plan
      <4>2. n > floor
        BY <1>2, <2>1, <2>3, <4>1 DEF UpTo
      <4> QED
        BY <2>1, <2>2, <2>4, <2>5, <4>2
    <3>4. CASE Plan(s, p, h, floor) \notin {"ToCheckpoint", "ResetToSubtreeRoots"}
      BY <2>1, <2>2, <2>4, <2>5, <2>8, <3>1, <3>4, SMTT(40) DEF TruncatedTree
    <3> QED
      BY <3>2, <3>3, <3>4, SMTT(40)
  <2> QED
    BY <2>2, <2>6, <2>7, <2>8, SMTT(40)
<1> QED
  BY <1>1, <1>3, <1>4, <1>5, <1>6, SMTT(40) DEF after

(* With the target as the floor, nothing is lost. *)
LEMMA TruncateToSound ==
    ASSUME NEW s, NEW c, NEW d, NEW pools, Sound(s, c, pools), NEW h \in Heights,
           \A p \in Pools : UpTo(c.notes[p], h) = UpTo(d.notes[p], h)
    PROVE  Sound(TruncateInternal(s, h, h), d, pools)
<1>1. h <= h /\ h \in Nat
  BY HeightsNat
<1>2. s \in Rows
  BY SMTT(40) DEF Sound
<1> DEFINE after == TruncateInternal(s, h, h)
<1>3. /\ after \in Rows
      /\ after.toScan \subseteq 1 .. after.tip
      /\ after.blocks \subseteq 0 .. after.tip
      /\ \A p \in Pools : \A n \in after.marks[p] : Covers(after.cp[p], n)
      /\ \A p \in Pools : \A n \in after.notes[p] :
            /\ n \in after.marks[p] \/ n \in after.toScan \/ n > h
            /\ n <= after.tip /\ n <= h /\ n \in s.notes[p]
            /\ p \in pools
            /\ n \in d.notes[p]
  BY <1>1, TruncateSound, ZenonT(40)
<1> HIDE DEF after
<1>4. ASSUME NEW p \in Pools, NEW n \in after.notes[p] PROVE ~(n > h)
  <2>1. n \in Nat /\ n <= h
    BY <1>3, HeightsNat DEF Rows
  <2> QED
    BY <1>1, <2>1
<1>5. Sound(after, d, pools)
  BY <1>3, <1>4 DEF Sound
<1> QED
  BY <1>5 DEF after

-----------------------------------------------------------------------------
(* The steps.                                                              *)

LEMMA PutBlocksSound ==
    ASSUME IInv, NEW f \in Heights, NEW t \in Heights, PutBlocks(f, t)
    PROVE  IInv'
<1> DEFINE range == (f + 1)..t
           found == [p \in Pools |-> IF p \in open THEN chain.notes[p] \cap range ELSE {}]
           tree  == [p \in open |-> UpdateTree(p, f, t)]
           cps   == [p \in Pools |-> IF p \in open THEN tree[p].cp ELSE wallet.cp[p]]
           kepts == [p \in Pools |-> IF p \in open THEN tree[p].kept ELSE wallet.kept[p]]
           marks == [p \in Pools |-> wallet.marks[p] \cup found[p]]
           notes == [p \in Pools |-> wallet.notes[p] \cup found[p]]
<1>1. /\ wallet \in Rows /\ chain \in Chains /\ open \in SUBSET Pools /\ Sound(wallet, chain, open)
      /\ wallet.toScan \subseteq 1 .. wallet.tip /\ wallet.blocks \subseteq 0 .. wallet.tip
      /\ \A q \in Pools : \A n \in wallet.marks[q] : Covers(wallet.cp[q], n)
  BY DEF IInv, Sound
<1>2. /\ f < t /\ range \subseteq wallet.toScan /\ UNCHANGED << chain, open >>
      /\ wallet' = [wallet EXCEPT !.cp = cps, !.kept = kepts, !.marks = marks, !.notes = notes,
                                  !.blocks = @ \cup range, !.toScan = @ \ range]
  BY DEF PutBlocks
<1>3. ASSUME NEW p \in open
      PROVE  /\ tree[p].cp \in SUBSET Heights /\ tree[p].kept \in SUBSET Heights
             /\ \A n \in wallet.marks[p] \cup (chain.notes[p] \cap range) : Covers(tree[p].cp, n)
  BY <1>1, <1>2, UpdateTreeSound
<1>4. range \subseteq Heights /\ wallet.tip \in Nat /\ range \subseteq 1 .. wallet.tip
  BY <1>1, <1>2, HeightsNat DEF Rows
<1>5. \A p \in Pools : found[p] \in SUBSET Heights /\ found[p] \subseteq range
  BY <1>4, SMTT(40)
<1> HIDE DEF tree
<1>6. /\ cps \in [Pools -> SUBSET Heights] /\ kepts \in [Pools -> SUBSET Heights]
      /\ marks \in [Pools -> SUBSET Heights] /\ notes \in [Pools -> SUBSET Heights]
  <2> HIDE DEF found
  <2> QED
    BY <1>1, <1>3, <1>5, SMTT(40) DEF Rows
<1>7. \A p \in Pools : /\ cps[p] = IF p \in open THEN tree[p].cp ELSE wallet.cp[p]
                       /\ marks[p] = wallet.marks[p] \cup found[p]
                       /\ notes[p] = wallet.notes[p] \cup found[p]
                       /\ found[p] = IF p \in open THEN chain.notes[p] \cap range ELSE {}
  OBVIOUS
<1> HIDE DEF cps, kepts, marks, notes, found
<1>8. /\ wallet'.cp = cps /\ wallet'.marks = marks /\ wallet'.notes = notes
      /\ wallet'.blocks = wallet.blocks \cup range /\ wallet'.toScan = wallet.toScan \ range
      /\ wallet'.tip = wallet.tip
      /\ wallet' \in Rows
  <2>1. wallet.blocks \cup range \in SUBSET Heights /\ wallet.toScan \ range \in SUBSET Heights
    BY <1>1, <1>4 DEF Rows
  <2> HIDE DEF range
  <2> QED
    BY <1>1, <1>2, <1>6, <2>1, Zenon DEF Rows
<1>9. wallet'.toScan \subseteq 1 .. wallet'.tip /\ wallet'.blocks \subseteq 0 .. wallet'.tip
  BY <1>1, <1>4, <1>8
<1>10. ASSUME NEW p \in Pools, NEW n \in wallet'.marks[p] PROVE Covers(wallet'.cp[p], n)
  BY <1>1, <1>3, <1>7, <1>8, <1>10, ZenonT(40)
<1>11. ASSUME NEW p \in Pools, NEW n \in wallet'.notes[p]
       PROVE  /\ n \in wallet'.marks[p] \/ n \in wallet'.toScan
              /\ n <= wallet'.tip /\ p \in open' /\ n \in chain'.notes[p]
  <2>1. CASE n \in found[p]
    <3>1. p \in open /\ n \in chain.notes[p] /\ n \in range
      BY <1>7, <2>1, Zenon
    <3>2. n <= wallet'.tip
      BY <1>4, <1>8, <3>1
    <3>3. n \in wallet'.marks[p]
      BY <1>7, <1>8, <2>1, Zenon
    <3> QED
      BY <1>2, <3>1, <3>2, <3>3, SMTT(40)
  <2>2. CASE n \in wallet.notes[p]
    <3>1. /\ n \in wallet.marks[p] \/ n \in wallet.toScan
          /\ n <= wallet.tip /\ p \in open /\ n \in chain.notes[p]
      BY <2>2 DEF IInv, Sound
    <3>2. n \in range => n \in found[p]
      BY <1>7, <3>1, Zenon
    <3> HIDE DEF range
    <3> QED
      BY <1>2, <1>7, <1>8, <3>1, <3>2, Zenon
  <2> QED
    BY <1>7, <1>8, <1>11, <2>1, <2>2, Zenon
<1> QED
  BY <1>1, <1>2, <1>8, <1>9, <1>10, <1>11 DEF IInv, Sound

(* More of the queue, and a higher tip, keep the rest as it is. *)
LEMMA QueueSound ==
    ASSUME NEW s, NEW s2, NEW c, NEW pools, NEW pools2, Sound(s, c, pools), s2 \in Rows,
           s2.cp = s.cp, s2.marks = s.marks, s2.notes = s.notes, s2.blocks = s.blocks,
           s.toScan \subseteq s2.toScan, s2.toScan \subseteq 1 .. s2.tip, s.tip <= s2.tip,
           pools \subseteq pools2
    PROVE  Sound(s2, c, pools2)
<1>1. s.tip \in Nat /\ s2.tip \in Nat
  BY HeightsNat, Zenon DEF Sound, Rows
<1>2. s2.blocks \subseteq 0 .. s2.tip
  BY <1>1 DEF Sound
<1>3. ASSUME NEW p \in Pools, NEW n \in s2.notes[p]
      PROVE  /\ n \in s2.marks[p] \/ n \in s2.toScan
             /\ n <= s2.tip /\ p \in pools2 /\ n \in c.notes[p]
  <2>1. n \in Nat
    BY HeightsNat DEF Rows
  <2> QED
    BY <1>1, <1>3, <2>1 DEF Sound
<1>4. \A p \in Pools : \A n \in s2.marks[p] : Covers(s2.cp[p], n)
  BY DEF Sound
<1> QED
  BY <1>2, <1>3, <1>4 DEF Sound

LEMMA UpdateChainTipSound ==
    ASSUME IInv, NEW t \in Heights, UpdateChainTip(t)
    PROVE  IInv'
<1> DEFINE queue == wallet.toScan \cup (wallet.tip + 1)..t
<1>1. wallet \in Rows /\ wallet.toScan \subseteq 1 .. wallet.tip /\ wallet.tip \in Nat /\ t \in Nat
  BY HeightsNat, Zenon DEF IInv, Sound, Rows
<1>2. t > wallet.tip /\ wallet' = [wallet EXCEPT !.tip = t, !.toScan = queue]
      /\ UNCHANGED << chain, open >>
  BY DEF UpdateChainTip
<1>3. queue \in SUBSET Heights /\ queue \subseteq 1 .. t /\ wallet.toScan \subseteq queue
  BY <1>1, <1>2, TreeAssumption DEF Rows, Heights
<1> HIDE DEF queue
<1>4. /\ wallet' \in Rows /\ wallet'.cp = wallet.cp /\ wallet'.marks = wallet.marks
      /\ wallet'.notes = wallet.notes /\ wallet'.blocks = wallet.blocks
      /\ wallet'.tip = t /\ wallet'.toScan = queue
  BY <1>1, <1>2, <1>3, Zenon DEF Rows
<1>5. wallet.tip <= wallet'.tip /\ wallet'.toScan \subseteq 1 .. wallet'.tip
      /\ wallet.toScan \subseteq wallet'.toScan
  BY <1>1, <1>2, <1>3, <1>4
<1>6. Sound(wallet', chain, open)
  BY <1>4, <1>5, QueueSound DEF IInv
<1> QED
  BY <1>2, <1>6, SMTT(40) DEF IInv, Sound

LEMMA MigratePoolSound ==
    ASSUME IInv, NEW p \in Pools, MigratePool(p)
    PROVE  IInv'
<1> DEFINE queue == wallet.toScan \cup {h \in 1..wallet.tip : h >= PoolActivation[p]}
<1>1. wallet \in Rows /\ wallet.toScan \subseteq 1 .. wallet.tip /\ wallet.tip \in Heights
  BY DEF IInv, Sound, Rows
<1>2. wallet' = [wallet EXCEPT !.toScan = queue] /\ open' = open \cup {p} /\ chain' = chain
  BY DEF MigratePool
<1>3. queue \subseteq 1 .. wallet.tip /\ wallet.toScan \subseteq queue
  BY <1>1, SMTT(40)
<1>4. queue \in SUBSET Heights /\ wallet.tip <= wallet.tip
  BY <1>1, <1>3, TreeAssumption DEF Heights
<1> HIDE DEF queue
<1>5. /\ wallet' \in Rows /\ wallet'.cp = wallet.cp /\ wallet'.marks = wallet.marks
      /\ wallet'.notes = wallet.notes /\ wallet'.blocks = wallet.blocks
      /\ wallet'.tip = wallet.tip /\ wallet'.toScan = queue
  BY <1>1, <1>2, <1>4 DEF Rows
<1>6. Sound(wallet', chain, open')
  BY <1>2, <1>3, <1>4, <1>5, QueueSound, Zenon DEF IInv
<1> QED
  BY <1>2, <1>6, SMTT(40) DEF IInv, Sound

(* The heights that are chosen are heights. *)
LEMMA ChosenHeights ==
    ASSUME NEW s \in Rows, NEW t \in Heights
    PROVE  /\ \A b \in BOOLEAN : SelectTruncationHeight(s, t, b) \in Heights \cup {None}
           /\ MinSharedCheckpointHeight(s) \in Heights \cup {None}
<1>1. UNION {s.cp[p] : p \in Pools} \in SUBSET Heights /\ s.blocks \in SUBSET Heights
  BY DEF Rows
<1>2. ASSUME NEW b \in BOOLEAN PROVE SelectTruncationHeight(s, t, b) \in Heights \cup {None}
  <2> DEFINE candidates == s.blocks \cup IF b THEN UNION {s.cp[p] : p \in Pools} ELSE {}
             S == {h \in UpTo(candidates, t) : \A p \in Pools : Tolerates(s, p, h)}
  <2>1. S \in SUBSET Heights
    BY <1>1 DEF UpTo
  <2>2. SelectTruncationHeight(s, t, b) = MaxOr(S, None)
    BY DEF SelectTruncationHeight
  <2> HIDE DEF S
  <2> QED
    BY <2>1, <2>2, MaxOfHeights DEF MaxOr
<1>3. MinSharedCheckpointHeight(s) \in Heights \cup {None}
  <2> DEFINE S == {h \in UNION {s.cp[p] : p \in Pools} :
                      \A p \in Pools : h \in s.cp[p] \/ s.cp[p] = {}}
  <2>1. S \in SUBSET Heights
    BY <1>1
  <2>2. MinSharedCheckpointHeight(s) = MinOr(S, None)
    BY DEF MinSharedCheckpointHeight
  <2> HIDE DEF S
  <2> QED
    BY <2>1, <2>2, MinOfHeights, SMTT(40) DEF MinOr
<1> QED
  BY <1>2, <1>3

LEMMA NoneNotHeight == None \notin Heights
BY HeightsNat DEF None

(* ReplacedAbove: the next chain agrees with this one up to h. *)
LEMMA ReplacedAgrees ==
    ASSUME NEW h, ReplacedAbove(h)
    PROVE  /\ chain' \in Chains
           /\ \A p \in Pools : UpTo(chain.notes[p], h) = UpTo(chain'.notes[p], h)
BY SMTT(40) DEF ReplacedAbove

LEMMA TruncateToHeightSound ==
    ASSUME IInv, NEW requested \in Heights, TruncateToHeight(requested)
    PROVE  IInv'
<1>1. wallet \in Rows /\ Sound(wallet, chain, open)
  BY Zenon DEF IInv, Sound
<1>2. PICK h \in Heights : /\ h = SelectTruncationHeight(wallet, requested, TRUE)
                           /\ wallet' = TruncateInternal(wallet, h, h)
                           /\ ReplacedAbove(h) /\ UNCHANGED open
  BY <1>1, ChosenHeights, Zenon DEF TruncateToHeight
<1>3. Sound(TruncateInternal(wallet, h, h), chain', open)
  BY <1>1, <1>2, ReplacedAgrees, TruncateToSound, Zenon
<1> QED
  BY <1>2, <1>3, ReplacedAgrees, ZenonT(40) DEF IInv, Sound

(* The wallet from which truncate_to_chain_state makes its last cut.       *)
LEMMA PreparedSound ==
    ASSUME IInv, NEW t \in Heights
    PROVE  Sound(Prepared(t), chain, open)
<1>1. wallet \in Rows /\ Sound(wallet, chain, open)
  BY DEF IInv, Sound
<1>2. Sound(Cut(t), chain, open)
  <2>1. CASE FirstCut(t) = None
    BY <1>1, <2>1 DEF Cut
  <2>2. CASE FirstCut(t) # None
    <3>1. FirstCut(t) \in Heights
      BY <1>1, <2>2, ChosenHeights, Zenon DEF FirstCut
    <3>2. Cut(t) = TruncateInternal(wallet, FirstCut(t), FirstCut(t))
      BY <2>2 DEF Cut
    <3> QED
      BY <1>1, <3>1, <3>2, TruncateToSound, Zenon
  <2> QED
    BY <2>1, <2>2
<1>3. Sound(WithFrontier(Cut(t), t), chain, open)
  <2> DEFINE s == Cut(t)
             cps == [p \in Pools |-> IF p \in open THEN InsertFrontier(p, s.cp[p], s.kept[p], t)
                                     ELSE s.cp[p]]
             after == [s EXCEPT !.cp = cps]
  <2>1. s \in Rows
    BY <1>2 DEF Sound
  <2>2. WithFrontier(s, t) = after
    BY DEF WithFrontier
  <2> HIDE DEF s
  <2>3. ASSUME NEW p \in Pools
        PROVE  /\ cps[p] \in SUBSET Heights
               /\ \A n \in Heights : Covers(s.cp[p], n) => Covers(cps[p], n)
    BY <2>1, InsertFrontierSound, SMTT(40) DEF Rows
  <2>4. cps \in [Pools -> SUBSET Heights]
    BY <2>3
  <2> HIDE DEF cps
  <2>5. /\ after \in Rows /\ after.cp = cps /\ after.marks = s.marks /\ after.notes = s.notes
        /\ after.toScan = s.toScan /\ after.tip = s.tip /\ after.blocks = s.blocks
    BY <2>1, <2>4 DEF Rows
  <2> HIDE DEF after
  <2>6. Sound(s, chain, open)
    BY <1>2 DEF s
  <2>7. ASSUME NEW p \in Pools, NEW n \in after.marks[p] PROVE Covers(after.cp[p], n)
    <3>1. Covers(s.cp[p], n) /\ n \in Heights
      BY <2>1, <2>5, <2>6, <2>7, SMTT(40) DEF Sound, Rows
    <3> QED
      BY <2>3, <2>5, <3>1, SMTT(40)
  <2>8. Sound(after, chain, open)
    BY <2>5, <2>6, <2>7, SMTT(40) DEF Sound
  <2> QED
    BY <2>2, <2>8, SMTT(40) DEF s
<1> QED
  BY <1>1, <1>3, Zenon DEF Prepared

LEMMA TruncateToChainStateSound ==
    ASSUME IInv, NEW t \in Heights, TruncateToChainState(t)
    PROVE  IInv'
<1>1. Sound(TruncateInternal(Prepared(t), t, t), chain', open)
  BY PreparedSound, ReplacedAgrees, TruncateToSound, Zenon DEF TruncateToChainState
<1>2. wallet' = TruncateInternal(Prepared(t), t, t) /\ UNCHANGED open /\ chain' \in Chains
  BY ReplacedAgrees DEF TruncateToChainState
<1> QED
  BY <1>1, <1>2 DEF IInv, Sound

(* The last scanned block is a height, and none is above it. *)
LEMMA LastScannedBounds ==
    ASSUME NEW s \in Rows
    PROVE  /\ LastScanned(s) \in Heights
           /\ \A b \in s.blocks : b <= LastScanned(s)
           /\ s.blocks # {} => LastScanned(s) \in s.blocks /\ LastScanned(s) = Max(s.blocks)
<1>1. s.blocks \in SUBSET Heights /\ 0 \in Heights
  BY TreeAssumption DEF Rows, Heights
<1>2. CASE s.blocks = {}
  BY <1>1, <1>2 DEF LastScanned, MaxOr
<1>3. CASE s.blocks # {}
  <2>1. LastScanned(s) = Max(s.blocks)
    BY <1>3 DEF LastScanned, MaxOr
  <2> QED
    BY <1>1, <1>3, <2>1, MaxOfHeights
<1> QED
  BY <1>2, <1>3

(* rewind_to_chain_state cuts at a height at or above its target and the   *)
(* pruning floor of the chain tip.                                         *)
LEMMA RewindHeightBounds ==
    ASSUME wallet \in Rows, open \in SUBSET Pools, NEW t \in Heights
    PROVE  /\ RewindHeight(t) \in Heights
           /\ RewindHeight(t) >= t
           /\ RewindHeight(t) >= wallet.tip - (PRUNING_DEPTH - 1)
<1> DEFINE top    == Max({wallet.tip, LastScanned(wallet)})
           low    == top - (PRUNING_DEPTH - 1)
           target == Max({t, PruningFloor})
           found  == RewindTruncationHeight(wallet, target, t)
<1>1. /\ wallet.tip \in Heights /\ LastScanned(wallet) \in Heights
      /\ t \in Nat /\ wallet.tip \in Nat /\ LastScanned(wallet) \in Nat /\ PRUNING_DEPTH \in Nat
      /\ PRUNING_DEPTH >= 1
  BY LastScannedBounds, HeightsNat, Zenon DEF Rows
<1>2. top \in {wallet.tip, LastScanned(wallet)} /\ top >= wallet.tip
  <2>1. wallet.tip \in Int /\ LastScanned(wallet) \in Int
    BY <1>1
  <2> QED
    BY <2>1, MaxOfTwo, Zenon
<1>3. top \in Heights /\ top \in Nat
  BY <1>1, <1>2, HeightsNat
<1>4. PruningFloor = Max({0, low})
  BY DEF PruningFloor
<1> HIDE DEF top
<1>5. PruningFloor \in {0, low} /\ PruningFloor >= 0 /\ PruningFloor >= low
  <2>1. 0 \in Int /\ low \in Int
    BY <1>1, <1>3
  <2> HIDE DEF low
  <2> QED
    BY <1>4, <2>1, MaxOfTwo, Zenon
<1>6. PruningFloor \in Heights
  BY <1>1, <1>3, <1>5, TreeAssumption DEF Heights
<1>7. target \in {t, PruningFloor} /\ target >= t /\ target >= PruningFloor
  BY <1>1, <1>6, HeightsNat, MaxOfTwo
<1> HIDE DEF target
<1>8. target \in Heights
  BY <1>6, <1>7
<1>9. found \in Heights \cup {None} /\ (found # None => found >= target)
  <2> DEFINE candidates == {c \in UNION {wallet.cp[p] : p \in open} : c >= target}
             Straddles(p, c) == Plan(wallet, p, c, t) = "DivergedCheckpoints"
             Skipped(c) == /\ \E p \in open : Straddles(p, c)
                           /\ \A p \in open :
                                 Straddles(p, c) => ~HasOrdinaryCheckpointBelow(wallet, p, c)
             S == {c \in candidates : ~Skipped(c)}
  <2>1. found = MinOr(S, None)
    BY DEF RewindTruncationHeight
  <2>2. S \subseteq UNION {wallet.cp[p] : p \in open} /\ \A c \in S : c >= target
    <3> HIDE DEF Skipped
    <3> QED
      OBVIOUS
  <2> HIDE DEF S
  <2>3. CASE S = {}
    BY <2>1, <2>3 DEF MinOr
  <2>4. CASE S # {}
    <3>1. S \in SUBSET Heights
      BY <2>2 DEF Rows
    <3>2. Min(S) \in S
      BY <2>4, <3>1, MinOfHeights
    <3> QED
      BY <2>1, <2>2, <2>4, <3>1, <3>2 DEF MinOr
  <2> QED
    BY <2>3, <2>4, SMTT(40)
<1> HIDE DEF found
<1>10. RewindHeight(t) = IF found = None THEN target ELSE found
  BY DEF RewindHeight, found, target
<1>11. RewindHeight(t) \in Heights /\ RewindHeight(t) >= target
  BY <1>8, <1>9, <1>10, HeightsNat
<1>12. RewindHeight(t) \in Nat /\ target \in Nat
  BY <1>8, <1>11, HeightsNat, Zenon
<1> QED
  BY <1>1, <1>2, <1>3, <1>5, <1>7, <1>11, <1>12, SMTT(40)

LEMMA RewindSound ==
    ASSUME IInv, NEW t \in Heights, RewindToChainState(t)
    PROVE  IInv'
<1> DEFINE cut   == IF Rewinds(t) THEN TruncateInternal(wallet, RewindHeight(t), t) ELSE wallet
           queue == cut.toScan \cup (t + 1)..wallet.tip
           tip   == IF t < wallet.tip THEN wallet.tip ELSE cut.tip
<1>1. /\ wallet \in Rows /\ Sound(wallet, chain, open) /\ open \in SUBSET Pools /\ chain \in Chains
      /\ wallet.tip \in Heights /\ wallet.tip \in Nat /\ t \in Nat
  BY HeightsNat, Zenon DEF IInv, Sound, Rows
<1>2. wallet' = [cut EXCEPT !.toScan = queue, !.tip = tip] /\ UNCHANGED << chain, open >>
  BY DEF RewindToChainState
<1>3. /\ cut \in Rows
      /\ cut.toScan \subseteq 1 .. cut.tip
      /\ cut.blocks \subseteq 0 .. cut.tip
      /\ \A p \in Pools : \A n \in cut.marks[p] : Covers(cut.cp[p], n)
      /\ \A p \in Pools : \A n \in cut.notes[p] :
            /\ n \in cut.marks[p] \/ n \in cut.toScan \/ n > t
            /\ n <= cut.tip /\ n <= wallet.tip
            /\ p \in open /\ n \in chain.notes[p]
  <2>1. CASE ~Rewinds(t)
    <3>1. cut = wallet
      BY <2>1, SMTT(40)
    <3> HIDE DEF cut
    <3> QED
      BY <1>1, <3>1 DEF Sound
  <2>2. CASE Rewinds(t)
    <3>1. RewindHeight(t) \in Heights /\ t <= RewindHeight(t)
      BY <1>1, RewindHeightBounds, HeightsNat, SMTT(40)
    <3> DEFINE after == TruncateInternal(wallet, RewindHeight(t), t)
    <3>2. /\ after \in Rows
          /\ after.toScan \subseteq 1 .. after.tip
          /\ after.blocks \subseteq 0 .. after.tip
          /\ \A p \in Pools : \A n \in after.marks[p] : Covers(after.cp[p], n)
          /\ \A p \in Pools : \A n \in after.notes[p] :
                /\ n \in after.marks[p] \/ n \in after.toScan \/ n > t
                /\ n <= after.tip /\ n <= RewindHeight(t) /\ n \in wallet.notes[p]
                /\ p \in open
                /\ n \in chain.notes[p]
      BY <1>1, <3>1, TruncateSound, Zenon
    <3>3. cut = after
      BY <2>2
    <3> HIDE DEF cut, after
    <3>4. \A p \in Pools : \A n \in wallet.notes[p] : n <= wallet.tip
      BY <1>1 DEF Sound
    <3> QED
      BY <3>2, <3>3, <3>4
  <2> QED
    BY <2>1, <2>2, Zenon
<1>4. cut.tip <= wallet.tip
  <2>1. CASE ~Rewinds(t)
    BY <1>1, <2>1
  <2>2. CASE Rewinds(t)
    <3>1. RewindHeight(t) \in Heights
      BY <1>1, RewindHeightBounds
    <3>2. cut.tip = IF wallet.tip < RewindHeight(t) THEN wallet.tip ELSE RewindHeight(t)
      <4>1. cut = TruncateInternal(wallet, RewindHeight(t), t)
        BY <2>2
      <4>2. PICK h \in Heights : h = RewindHeight(t)
        BY <3>1, SMTT(40)
      <4>3. TruncateInternal(wallet, h, t).tip = IF wallet.tip < h THEN wallet.tip ELSE h
        BY <1>1, TruncateBlocks
      <4> HIDE DEF cut
      <4> QED
        BY <4>1, <4>2, <4>3
    <3>3. RewindHeight(t) \in Nat
      BY <3>1, HeightsNat, Zenon
    <3> HIDE DEF cut
    <3> QED
      BY <1>1, <3>2, <3>3
  <2> QED
    BY <2>1, <2>2
<1> HIDE DEF cut
<1>5. cut.tip \in Nat /\ cut.tip \in Heights
  BY <1>3, HeightsNat, Zenon DEF Rows
<1>6. tip \in Heights /\ tip \in Nat /\ cut.tip <= tip
  BY <1>1, <1>4, <1>5
<1>7. queue \subseteq 1 .. tip /\ cut.toScan \subseteq queue
  <2>1. CASE t < wallet.tip
    BY <1>1, <1>3, <1>4, <1>5, <2>1, SMTT(40)
  <2>2. CASE ~(t < wallet.tip)
    <3>1. (t + 1)..wallet.tip = {}
      BY <1>1, <2>2
    <3> QED
      BY <1>3, <2>2, <3>1
  <2> QED
    BY <2>1, <2>2, SMTT(40)
<1>8. queue \in SUBSET Heights
  BY <1>6, <1>7, TreeAssumption DEF Heights
<1> HIDE DEF queue, tip
<1>9. /\ wallet' \in Rows /\ wallet'.cp = cut.cp /\ wallet'.marks = cut.marks
      /\ wallet'.notes = cut.notes /\ wallet'.blocks = cut.blocks
      /\ wallet'.tip = tip /\ wallet'.toScan = queue
  BY <1>2, <1>3, <1>6, <1>8, Zenon DEF Rows
<1>10. wallet'.blocks \subseteq 0 .. wallet'.tip /\ wallet'.toScan \subseteq 1 .. wallet'.tip
  BY <1>3, <1>5, <1>6, <1>7, <1>9
<1>11. ASSUME NEW p \in Pools, NEW n \in wallet'.notes[p]
       PROVE  /\ n \in wallet'.marks[p] \/ n \in wallet'.toScan
              /\ n <= wallet'.tip /\ p \in open' /\ n \in chain'.notes[p]
  <2>1. /\ n \in cut.marks[p] \/ n \in cut.toScan \/ n > t
        /\ n <= cut.tip /\ n <= wallet.tip
        /\ p \in open /\ n \in chain.notes[p]
    BY <1>3, <1>9, <1>11
  <2>2. n \in Nat
    BY <1>9, <1>11, HeightsNat, SMTT(40) DEF Rows
  <2>3. n > t => n \in queue
    BY <1>1, <2>1, <2>2 DEF queue
  <2>4. n <= wallet'.tip
    BY <1>5, <1>6, <1>9, <2>1, <2>2, SMTT(40)
  <2> QED
    BY <1>2, <1>7, <1>9, <2>1, <2>3, <2>4
<1>12. \A p \in Pools : \A n \in wallet'.marks[p] : Covers(wallet'.cp[p], n)
  BY <1>3, <1>9
<1> QED
  BY <1>1, <1>2, <1>9, <1>10, <1>11, <1>12 DEF IInv, Sound

LEMMA InitSound ==
    ASSUME Init
    PROVE  IInv
<1>1. 0 \in Heights /\ open \in SUBSET Pools /\ chain \in Chains
  BY TreeAssumption DEF Init, Heights
<1>2. [p \in Pools |-> {}] \in [Pools -> SUBSET Heights]
  BY SMTT(40)
<1>3. wallet \in Rows
  BY <1>1, <1>2 DEF Init, Rows
<1>4. /\ wallet.toScan = {} /\ wallet.blocks = {}
      /\ \A p \in Pools : wallet.marks[p] = {} /\ wallet.notes[p] = {}
  BY DEF Init
<1> QED
  BY <1>1, <1>3, <1>4, SMTT(40) DEF IInv, Sound

LEMMA IInvAlways == Spec => []IInv
<1>1. Init => IInv
  BY InitSound
<1>2. IInv /\ [Next]_vars => IInv'
  <2>1. ASSUME IInv, Next PROVE IInv'
    BY <2>1, PutBlocksSound, UpdateChainTipSound, MigratePoolSound, TruncateToHeightSound,
       TruncateToChainStateSound, RewindSound, SMTT(40) DEF Next
  <2>2. ASSUME IInv, UNCHANGED vars PROVE IInv'
    BY <2>2 DEF vars, IInv, Sound
  <2> QED
    BY <2>1, <2>2
<1> QED
  BY <1>1, <1>2, PTL DEF Spec

(* The rows keep their types, and nothing is queued above the chain tip,   *)
(* through scans, migrations, truncations and rewinds in any order.        *)
THEOREM TypesKept == Spec => []TypeOK
<1>1. IInv => TypeOK
  <2> SUFFICES ASSUME IInv PROVE TypeOK
    OBVIOUS
  <2>1. wallet \in Rows /\ wallet.toScan \subseteq 1 .. wallet.tip
        /\ chain \in Chains /\ open \in SUBSET Pools
    BY DEF IInv, Sound
  <2>2. \A f \in {"cp", "kept", "marks", "notes"} : wallet[f] \in [Pools -> SUBSET Heights]
    BY <2>1 DEF Rows
  <2>3. wallet.blocks \subseteq Heights /\ wallet.tip \in Heights
    BY <2>1 DEF Rows
  <2> QED
    BY <2>1, <2>2, <2>3 DEF TypeOK
<1> QED
  BY <1>1, IInvAlways, PTL

(* update_tree and truncate_to_height_internal: a tree holds witness data  *)
(* only up to its newest checkpoint, whatever was pruned.                  *)
THEOREM MarksCoveredAlways == Spec => []MarksCovered
<1>1. IInv => MarksCovered
  BY DEF IInv, Sound, MarksCovered, Covers
<1> QED
  BY <1>1, IInvAlways, PTL

(* put_blocks, truncate_to_height, truncate_to_chain_state and             *)
(* rewind_to_chain_state: a mined note of the wallet has its witness data, *)
(* or its block is queued for scanning.                                    *)
THEOREM WitnessesKeptAlways == Spec => []WitnessesKept
<1>1. IInv => WitnessesKept
  BY DEF IInv, Sound, WitnessesKept
<1> QED
  BY <1>1, IInvAlways, PTL

(* pool_truncation_tolerance_sql and plan_tree_truncation agree.           *)
THEOREM PlannersAgreeAlways == Spec => []PlannersAgree
<1>1. IInv => PlannersAgree
  <2> SUFFICES ASSUME IInv, NEW p \in Pools, NEW h \in Heights
               PROVE  Tolerates(wallet, p, h) <=> Plan(wallet, p, h, h) \in Executable
    BY DEF PlannersAgree
  <2> DEFINE cp == wallet.cp[p]
             none == UpTo(wallet.notes[p], h) = {}
  <2>1. h \in Nat /\ \A c \in cp : c \in Nat
    BY HeightsNat DEF IInv, Sound, Rows
  <2>2. Tolerates(wallet, p, h) <=> \/ h \in cp
                                    \/ \A c \in cp : c <= h
                                    \/ (\A c \in cp : c >= h) /\ none
    BY DEF Tolerates
  <2>3. Plan(wallet, p, h, h) =
          CASE h \in cp -> "ToCheckpoint"
            [] h \notin cp /\ {c \in cp : c > h} = {} -> "Unaffected"
            [] h \notin cp /\ {c \in cp : c > h} # {} /\ {c \in cp : c < h} = {} ->
                  IF none THEN "ResetToSubtreeRoots" ELSE "WouldDestroyWitnesses"
            [] OTHER -> "DivergedCheckpoints"
    BY DEF Plan
  <2>4. {c \in cp : c > h} = {} <=> \A c \in cp : c <= h
    BY <2>1
  <2>5. {c \in cp : c < h} = {} <=> \A c \in cp : c >= h
    BY <2>1
  <2> HIDE DEF cp, none
  <2>6. CASE h \in cp
    BY <2>2, <2>3, <2>6 DEF Executable
  <2>7. CASE h \notin cp /\ {c \in cp : c > h} = {}
    BY <2>2, <2>3, <2>4, <2>7 DEF Executable
  <2>8. CASE h \notin cp /\ {c \in cp : c > h} # {} /\ {c \in cp : c < h} = {}
    BY <2>2, <2>3, <2>4, <2>5, <2>8 DEF Executable
  <2>9. CASE h \notin cp /\ {c \in cp : c > h} # {} /\ {c \in cp : c < h} # {}
    BY <2>2, <2>3, <2>4, <2>5, <2>9, SMTT(40) DEF Executable
  <2> QED
    BY <2>6, <2>7, <2>8, <2>9
<1> QED
  BY <1>1, IInvAlways, PTL

-----------------------------------------------------------------------------
(* What a step may do.                                                     *)

(* A truncation that affects the trees removes the last scanned block. *)
LEMMA TruncationRemovesLast ==
    ASSUME NEW s \in Rows, NEW h \in Heights, NEW floor, TreesAffected(s, h)
    PROVE  LastScanned(s) \in s.blocks \ TruncateInternal(s, h, floor).blocks
<1>1. h < LastScanned(s)
  BY DEF TreesAffected
<1>2. s.blocks # {}
  BY <1>1, HeightsNat, SMTT(40) DEF LastScanned, MaxOr
<1>3. LastScanned(s) \in s.blocks /\ LastScanned(s) \in Heights
  BY <1>2, LastScannedBounds
<1>4. TruncateInternal(s, h, floor).blocks = UpTo(s.blocks, h)
  BY TruncateBlocks
<1>5. h \in Nat /\ LastScanned(s) \in Nat
  BY <1>3, HeightsNat, Zenon
<1> QED
  BY <1>1, <1>3, <1>4, <1>5 DEF UpTo

(* No block is added by a truncation. *)
LEMMA TruncationAddsNone ==
    ASSUME NEW s \in Rows, NEW h \in Heights, NEW floor
    PROVE  /\ TruncateInternal(s, h, floor).blocks \subseteq s.blocks
           /\ \A b \in s.blocks : b <= h => b \in TruncateInternal(s, h, floor).blocks
<1>1. \/ TruncateInternal(s, h, floor).blocks = UpTo(s.blocks, h)
      \/ TruncateInternal(s, h, floor).blocks = s.blocks
  BY TruncateBlocks
<1> QED
  BY <1>1 DEF UpTo

(* Where the last cut of truncate_to_chain_state starts. *)
LEMMA PreparedFields ==
    ASSUME IInv, NEW t \in Heights
    PROVE  /\ Prepared(t) \in Rows
           /\ \/ Prepared(t) = wallet
              \/ /\ TruncatesTrees(t)
                 /\ Prepared(t).blocks = Cut(t).blocks /\ Prepared(t).tip = Cut(t).tip
           /\ ~TruncatesTrees(t) => Prepared(t) = wallet
           /\ Cut(t) \in Rows
           /\ \/ Cut(t) = wallet
              \/ \E h \in Heights : h = FirstCut(t) /\ Cut(t) = TruncateInternal(wallet, h, h)
<1>1. wallet \in Rows
  BY DEF IInv, Sound
<1>2. Prepared(t) \in Rows
  BY PreparedSound DEF Sound
<1>3. \/ Cut(t) = wallet
      \/ \E h \in Heights : h = FirstCut(t) /\ Cut(t) = TruncateInternal(wallet, h, h)
  <2>1. CASE FirstCut(t) = None
    BY <2>1 DEF Cut
  <2>2. CASE FirstCut(t) # None
    <3>1. FirstCut(t) \in Heights
      BY <1>1, <2>2, ChosenHeights, Zenon DEF FirstCut
    <3> QED
      BY <2>2, <3>1 DEF Cut
  <2> QED
    BY <2>1, <2>2
<1>4. Cut(t) \in Rows
  BY <1>1, <1>3, TruncateBlocks
<1>5. WithFrontier(Cut(t), t).blocks = Cut(t).blocks /\ WithFrontier(Cut(t), t).tip = Cut(t).tip
  BY <1>4 DEF WithFrontier, Rows
<1> QED
  BY <1>2, <1>3, <1>4, <1>5, Zenon DEF Prepared

(* The blocks and the tip after each of the steps that queue or scan. *)
LEMMA ForwardBlocks ==
    ASSUME IInv,
           \/ \E f, t \in Heights : PutBlocks(f, t)
           \/ \E t \in Heights : UpdateChainTip(t)
           \/ \E p \in Pools : MigratePool(p)
    PROVE  wallet.blocks \subseteq wallet'.blocks /\ wallet'.tip >= wallet.tip
<1>1. wallet \in Rows /\ wallet.tip \in Nat
  BY HeightsNat, ZenonT(40) DEF IInv, Sound, Rows
<1>2. ASSUME NEW f \in Heights, NEW t \in Heights, PutBlocks(f, t)
      PROVE  wallet'.blocks = wallet.blocks \cup (f + 1)..t /\ wallet'.tip = wallet.tip
  BY <1>1, <1>2, Zenon DEF PutBlocks, Rows
<1>3. ASSUME NEW t \in Heights, UpdateChainTip(t)
      PROVE  wallet'.blocks = wallet.blocks /\ wallet'.tip = t /\ t > wallet.tip
  BY <1>1, <1>3, Zenon DEF UpdateChainTip, Rows
<1>4. ASSUME NEW p \in Pools, MigratePool(p)
      PROVE  wallet'.blocks = wallet.blocks /\ wallet'.tip = wallet.tip
  BY <1>1, <1>4 DEF MigratePool, Rows
<1>5. \A t \in Heights : t > wallet.tip => t >= wallet.tip
  BY <1>1, HeightsNat
<1>6. wallet.tip >= wallet.tip
  BY <1>1, SMTT(40)
<1> QED
  BY <1>2, <1>3, <1>4, <1>5, <1>6

(* The blocks and the tip after a rewind. *)
LEMMA RewindBlocks ==
    ASSUME IInv, NEW t \in Heights, RewindToChainState(t)
    PROVE  /\ wallet'.tip = wallet.tip
           /\ Rewinds(t) => wallet'.blocks = TruncateInternal(wallet, RewindHeight(t), t).blocks
           /\ Rewinds(t) => wallet'.cp = TruncateInternal(wallet, RewindHeight(t), t).cp
           /\ ~Rewinds(t) => wallet'.blocks = wallet.blocks /\ wallet'.cp = wallet.cp
<1> DEFINE cut   == IF Rewinds(t) THEN TruncateInternal(wallet, RewindHeight(t), t) ELSE wallet
           queue == cut.toScan \cup (t + 1)..wallet.tip
           tip   == IF t < wallet.tip THEN wallet.tip ELSE cut.tip
<1>1. /\ wallet \in Rows /\ open \in SUBSET Pools
      /\ wallet.tip \in Nat /\ t \in Nat /\ wallet.blocks \subseteq 0 .. wallet.tip
  BY HeightsNat, Zenon DEF IInv, Sound, Rows
<1>2. wallet' = [cut EXCEPT !.toScan = queue, !.tip = tip]
  BY DEF RewindToChainState
<1>3. cut \in Rows
  BY <1>1, RewindHeightBounds, TruncateBlocks, Zenon
<1>4. tip = wallet.tip
  <2>1. CASE Rewinds(t)
    <3>1. wallet.blocks # {} /\ t < Max(wallet.blocks) /\ Max(wallet.blocks) \in wallet.blocks
      BY <1>1, <2>1, LastScannedBounds, SMTT(40) DEF Rewinds
    <3>2. t < wallet.tip
      BY <1>1, <3>1
    <3> QED
      BY <3>2
  <2>2. CASE ~Rewinds(t)
    BY <2>2
  <2> QED
    BY <2>1, <2>2
<1> HIDE DEF queue, tip
<1>5. wallet'.tip = tip /\ wallet'.blocks = cut.blocks /\ wallet'.cp = cut.cp
  <2> HIDE DEF cut
  <2> QED
    BY <1>2, <1>3 DEF Rows
<1> QED
  BY <1>4, <1>5, SMTT(40)

(* rewind_to_chain_state: a step that keeps the chain tip removes no block *)
(* below the pruning window of that tip.                                   *)
THEOREM RewindKeepsFloorAlways == Spec => RewindKeepsFloor
<1> DEFINE A == wallet'.tip = wallet.tip =>
                   {b \in wallet.blocks : b <= wallet.tip - (PRUNING_DEPTH - 1)}
                      \subseteq wallet'.blocks
<1>1. ASSUME IInv, [Next]_vars PROVE [A]_vars
  <2> SUFFICES ASSUME Next, wallet'.tip = wallet.tip, NEW b \in wallet.blocks,
                      b <= wallet.tip - (PRUNING_DEPTH - 1)
               PROVE  b \in wallet'.blocks
    BY <1>1, SMTT(40)
  <2>1. /\ wallet \in Rows /\ open \in SUBSET Pools
        /\ wallet.tip \in Nat /\ b \in Nat /\ PRUNING_DEPTH \in Nat /\ PRUNING_DEPTH >= 1
    BY <1>1, HeightsNat, Zenon DEF IInv, Sound, Rows
  <2>2. CASE \/ \E f, t \in Heights : PutBlocks(f, t)
             \/ \E t \in Heights : UpdateChainTip(t)
             \/ \E p \in Pools : MigratePool(p)
    BY <1>1, <2>2, ForwardBlocks
  <2>3. ASSUME NEW s \in Rows, NEW h \in Heights, NEW floor, b \in s.blocks,
               wallet' = TruncateInternal(s, h, floor), s.tip <= wallet.tip
        PROVE  b \in wallet'.blocks
    <3>1. s.tip \in Nat /\ h \in Nat
      BY <2>3, HeightsNat, ZenonT(40) DEF Rows
    <3>2. wallet.tip = IF s.tip < h THEN s.tip ELSE h
      BY <2>3, TruncateBlocks
    <3>3. b <= h
      BY <2>1, <3>1, <3>2
    <3> QED
      BY <2>3, <3>3, TruncationAddsNone
  <2>4. ASSUME NEW requested \in Heights, TruncateToHeight(requested) PROVE b \in wallet'.blocks
    <3>1. PICK h \in Heights : wallet' = TruncateInternal(wallet, h, h)
      BY <2>1, <2>4, ChosenHeights, ZenonT(40) DEF TruncateToHeight
    <3> QED
      BY <2>1, <2>3, <3>1
  <2>5. ASSUME NEW t \in Heights, TruncateToChainState(t) PROVE b \in wallet'.blocks
    <3>1. wallet' = TruncateInternal(Prepared(t), t, t) /\ Prepared(t) \in Rows
      BY <1>1, <2>5, PreparedFields DEF TruncateToChainState
    <3>2. b \in Prepared(t).blocks /\ Prepared(t).tip <= wallet.tip
      <4>1. wallet'.tip = IF Prepared(t).tip < t THEN Prepared(t).tip ELSE t
        BY <3>1, TruncateBlocks
      <4>2. Prepared(t).tip \in Nat /\ t \in Nat
        BY <3>1, HeightsNat, SMTT(40) DEF Rows
      <4>3. CASE Prepared(t) = wallet
        BY <2>1, <4>3, SMTT(40)
      <4>4. CASE Prepared(t).blocks = Cut(t).blocks /\ Prepared(t).tip = Cut(t).tip
        <5>1. CASE Cut(t) = wallet
          BY <2>1, <4>4, <5>1, SMTT(40)
        <5>2. ASSUME NEW h \in Heights, Cut(t) = TruncateInternal(wallet, h, h)
              PROVE  b \in Prepared(t).blocks /\ Prepared(t).tip <= wallet.tip
          <6>1. Cut(t).tip = IF wallet.tip < h THEN wallet.tip ELSE h
            BY <2>1, <5>2, TruncateBlocks
          <6>2. h \in Nat
            BY HeightsNat, SMTT(40)
          <6>3. Cut(t).tip <= wallet.tip /\ b <= h
            BY <2>1, <4>1, <4>2, <4>4, <6>1, <6>2, SMTT(40)
          <6> QED
            BY <2>1, <4>4, <5>2, <6>3, TruncationAddsNone, SMTT(40)
        <5> QED
          BY <1>1, <5>1, <5>2, PreparedFields, SMTT(40)
      <4> QED
        BY <1>1, <4>3, <4>4, PreparedFields
    <3> QED
      BY <2>3, <3>1, <3>2
  <2>6. ASSUME NEW t \in Heights, RewindToChainState(t) PROVE b \in wallet'.blocks
    <3>1. /\ RewindHeight(t) \in Heights
          /\ RewindHeight(t) >= wallet.tip - (PRUNING_DEPTH - 1)
      BY <2>1, RewindHeightBounds
    <3>2. b <= RewindHeight(t)
      <4>1. RewindHeight(t) \in Nat
        BY <3>1, HeightsNat, ZenonT(40)
      <4> QED
        BY <2>1, <3>1, <4>1
    <3>3. b \in TruncateInternal(wallet, RewindHeight(t), t).blocks
      BY <2>1, <3>1, <3>2, TruncationAddsNone
    <3> QED
      BY <1>1, <2>6, <3>3, RewindBlocks
  <2> QED
    BY <2>2, <2>4, <2>5, <2>6, SMTT(40) DEF Next
<1> HIDE DEF A
<1>2. Spec => [][A]_vars
  BY <1>1, IInvAlways, PTL DEF Spec
<1> QED
  BY <1>2, PTL DEF A, RewindKeepsFloor

(* update_tree and the truncations: a retained anchor that is checkpointed *)
(* stays checkpointed in every step that removes no block.                 *)
THEOREM AnchorsSurviveScansAlways == Spec => AnchorsSurviveScans
<1> DEFINE A == wallet.blocks \subseteq wallet'.blocks =>
                   \A p \in Pools : wallet.cp[p] \cap wallet.kept[p] \subseteq wallet'.cp[p]
<1>1. ASSUME IInv, [Next]_vars PROVE [A]_vars
  <2> SUFFICES ASSUME Next, wallet.blocks \subseteq wallet'.blocks, NEW p \in Pools
               PROVE  wallet.cp[p] \cap wallet.kept[p] \subseteq wallet'.cp[p]
    BY <1>1, SMTT(40)
  <2>1. /\ wallet \in Rows /\ open \in SUBSET Pools /\ chain \in Chains
        /\ \A q \in Pools : \A n \in wallet.marks[q] : Covers(wallet.cp[q], n)
    BY <1>1 DEF IInv, Sound
  <2>2. ASSUME wallet'.cp = wallet.cp
        PROVE  wallet.cp[p] \cap wallet.kept[p] \subseteq wallet'.cp[p]
    BY <2>2
  <2>3. ASSUME NEW f \in Heights, NEW t \in Heights, PutBlocks(f, t)
        PROVE  wallet.cp[p] \cap wallet.kept[p] \subseteq wallet'.cp[p]
    <3>1. wallet'.cp = [q \in Pools |-> IF q \in open THEN [r \in open |-> UpdateTree(r, f, t)][q].cp
                                        ELSE wallet.cp[q]]
      BY <2>1, <2>3, SMTT(40) DEF PutBlocks, Rows
    <3>2. wallet'.cp[p] = IF p \in open THEN UpdateTree(p, f, t).cp ELSE wallet.cp[p]
      BY <3>1
    <3>3. f < t
      BY <2>3, SMTT(40) DEF PutBlocks
    <3>4. CASE p \in open
      BY <2>1, <3>2, <3>3, <3>4, UpdateTreeSound, SMTT(40)
    <3>5. CASE p \notin open
      BY <3>2, <3>5, SMTT(40)
    <3> QED
      BY <3>4, <3>5
  <2>4. ASSUME \/ \E t \in Heights : UpdateChainTip(t)
               \/ \E q \in Pools : MigratePool(q)
        PROVE  wallet'.cp = wallet.cp
    BY <2>1, <2>4, ZenonT(40) DEF UpdateChainTip, MigratePool, Rows
  <2>5. ASSUME NEW h \in Heights, NEW floor,
               wallet'.blocks = TruncateInternal(wallet, h, floor).blocks,
               wallet'.cp = TruncateInternal(wallet, h, floor).cp
        PROVE  wallet'.cp = wallet.cp
    <3>1. ~TreesAffected(wallet, h)
      BY <2>1, <2>5, TruncationRemovesLast, SMTT(40)
    <3> QED
      BY <2>1, <2>5, <3>1, TruncateBlocks, SMTT(40)
  <2>6. ASSUME NEW requested \in Heights, TruncateToHeight(requested) PROVE wallet'.cp = wallet.cp
    <3>1. PICK h \in Heights : wallet' = TruncateInternal(wallet, h, h)
      BY <2>1, <2>6, ChosenHeights, Zenon DEF TruncateToHeight
    <3> QED
      BY <2>5, <3>1, SMTT(40)
  <2>7. ASSUME NEW t \in Heights, TruncateToChainState(t) PROVE wallet'.cp = wallet.cp
    <3>1. wallet' = TruncateInternal(Prepared(t), t, t) /\ Prepared(t) \in Rows
      BY <1>1, <2>7, PreparedFields DEF TruncateToChainState
    <3>2. wallet'.blocks \subseteq Prepared(t).blocks
      BY <3>1, TruncationAddsNone, SMTT(40)
    <3>3. CASE Prepared(t) = wallet
      BY <2>5, <3>1, <3>3, SMTT(40)
    <3>4. CASE TruncatesTrees(t) /\ Prepared(t).blocks = Cut(t).blocks
      <4>1. Cut(t).blocks = wallet.blocks
        <5>1. CASE Cut(t) = wallet
          BY <5>1
        <5>2. ASSUME NEW h \in Heights, Cut(t) = TruncateInternal(wallet, h, h)
              PROVE  Cut(t).blocks = wallet.blocks
          <6>1. Cut(t).blocks \subseteq wallet.blocks
            BY <2>1, <5>2, TruncationAddsNone
          <6> QED
            BY <3>2, <3>4, <6>1, ZenonT(40)
        <5> QED
          BY <1>1, <5>1, <5>2, PreparedFields, SMTT(40)
      <4>2. LastScanned(Prepared(t)) = Max(wallet.blocks)
        BY <3>4, <4>1 DEF LastScanned, MaxOr, TruncatesTrees
      <4>3. TreesAffected(Prepared(t), t)
        <5>1. wallet.blocks # {} /\ Max(wallet.blocks) > t /\ Max(wallet.blocks) \in Heights
          BY <2>1, <3>4, LastScannedBounds, SMTT(40) DEF TruncatesTrees
        <5> QED
          BY <4>2, <5>1, HeightsNat DEF TreesAffected
      <4> QED
        BY <3>1, <3>4, <4>1, <4>3, TruncationRemovesLast, SMTT(40)
    <3> QED
      BY <1>1, <3>3, <3>4, PreparedFields
  <2>8. ASSUME NEW t \in Heights, RewindToChainState(t) PROVE wallet'.cp = wallet.cp
    <3>1. RewindHeight(t) \in Heights
      BY <2>1, RewindHeightBounds, SMTT(40)
    <3> QED
      BY <1>1, <2>5, <2>8, <3>1, RewindBlocks, SMTT(40)
  <2> QED
    BY <2>2, <2>3, <2>4, <2>6, <2>7, <2>8 DEF Next
<1> HIDE DEF A
<1>2. Spec => [][A]_vars
  BY <1>1, IInvAlways, PTL DEF Spec
<1> QED
  BY <1>2 DEF A, AnchorsSurviveScans

(* A cut that the planner allows leaves no checkpoint above its height,    *)
(* also in a tree that it leaves alone.                                    *)
LEMMA NoCheckpointAbove ==
    ASSUME NEW s \in Rows, NEW h \in Heights, TreesAffected(s, h), CanTruncate(s, h, h),
           NEW p \in Pools, NEW c \in TruncateInternal(s, h, h).cp[p]
    PROVE  c <= h
<1>1. TruncateInternal(s, h, h).cp[p] = TruncatedTree(s, p, "cp", h, h)
  <2> DEFINE after == TruncateInternal(s, h, h)
  <2>1. /\ after.notes  = [q \in Pools |-> UpTo(s.notes[q], h)]
        /\ after.toScan = UpTo(s.toScan, h)
        /\ after.tip    = IF s.tip < h THEN s.tip ELSE h
        /\ TreesAffected(s, h) =>
              /\ after.cp = [q \in Pools |-> TruncatedTree(s, q, "cp", h, h)]
              /\ after.marks = [q \in Pools |-> TruncatedTree(s, q, "marks", h, h)]
              /\ after.blocks = UpTo(s.blocks, h)
        /\ ~TreesAffected(s, h) =>
              after.cp = s.cp /\ after.marks = s.marks /\ after.blocks = s.blocks
        /\ after \in Rows
    BY TruncateFields, SMTT(40)
  <2> HIDE DEF after
  <2>2. after.cp[p] = TruncatedTree(s, p, "cp", h, h)
    BY <2>1, ZenonT(40)
  <2> QED
    BY <2>2, Zenon DEF after
<1>2. Plan(s, p, h, h) \in {"ToCheckpoint", "Unaffected", "ResetToSubtreeRoots"}
  BY Zenon DEF CanTruncate, Executable
<1>3. CASE Plan(s, p, h, h) = "ToCheckpoint"
  BY <1>1, <1>3 DEF TruncatedTree, UpTo
<1>4. CASE Plan(s, p, h, h) = "ResetToSubtreeRoots"
  BY <1>1, <1>4 DEF TruncatedTree
<1>5. CASE Plan(s, p, h, h) = "Unaffected"
  <2>1. c \in s.cp[p]
    BY <1>1, <1>5 DEF TruncatedTree
  <2>2. {x \in s.cp[p] : x > h} = {}
    BY <1>5, SMTT(40) DEF Plan
  <2>3. c \in Nat /\ h \in Nat
    BY <2>1, HeightsNat DEF Rows
  <2> QED
    BY <2>1, <2>2, <2>3
<1> QED
  BY <1>2, <1>3, <1>4, <1>5, SMTT(40)

(* A height that qualifies qualifies for every later target. *)
LEMMA QualifiesLater ==
    ASSUME NEW s \in Rows, NEW h \in Heights, NEW t \in Heights, h <= t,
           SelectTruncationHeight(s, h, FALSE) = h
    PROVE  SelectTruncationHeight(s, t, FALSE) # None
<1> DEFINE S(r) == {x \in UpTo(s.blocks, r) : \A p \in Pools : Tolerates(s, p, x)}
<1>1. ASSUME NEW r \in Heights
      PROVE  SelectTruncationHeight(s, r, FALSE) = MaxOr(S(r), None) /\ S(r) \in SUBSET Heights
  <2>1. s.blocks \cup (IF FALSE THEN UNION {s.cp[p] : p \in Pools} ELSE {}) = s.blocks
    OBVIOUS
  <2>2. S(r) \in SUBSET Heights
    BY DEF Rows, UpTo
  <2> QED
    BY <2>1, <2>2 DEF SelectTruncationHeight
<1>2. h \in S(h)
  <2> HIDE DEF S
  <2>1. S(h) # {}
    BY <1>1, NoneNotHeight, Zenon DEF MaxOr
  <2> QED
    BY <1>1, <2>1, MaxOfHeights, Zenon DEF MaxOr
<1>3. h \in S(t)
  BY <1>2 DEF UpTo
<1> HIDE DEF S
<1>4. Max(S(t)) \in Heights
  BY <1>1, <1>3, MaxOfHeights, Zenon
<1> QED
  BY <1>1, <1>3, <1>4, NoneNotHeight, Zenon DEF MaxOr

(* truncate_to_height_internal: a truncation below the last scanned block, *)
(* to a height that a block qualifies for, leaves nothing above it.        *)
THEOREM TruncationRemovesAlways == Spec => TruncationRemoves
<1> DEFINE A == LET h == wallet'.tip
                IN  h < LastScanned(wallet) /\ SelectTruncationHeight(wallet, h, FALSE) = h =>
                      /\ wallet'.blocks \subseteq 0..h
                      /\ \A p \in Pools : wallet'.cp[p] \cup wallet'.marks[p] \subseteq 0..h
<1>1. ASSUME IInv, IInv', [Next]_vars PROVE [A]_vars
  <2> PICK h : h = wallet'.tip
    OBVIOUS
  <2> SUFFICES ASSUME Next, h < LastScanned(wallet), SelectTruncationHeight(wallet, h, FALSE) = h
               PROVE  /\ wallet'.blocks \subseteq 0..h
                      /\ \A p \in Pools : wallet'.cp[p] \cup wallet'.marks[p] \subseteq 0..h
    BY <1>1, Zenon
  <2>1. /\ wallet \in Rows /\ wallet' \in Rows /\ open \in SUBSET Pools
        /\ h \in Heights /\ h \in Nat /\ wallet.tip \in Nat
        /\ wallet'.blocks \subseteq 0..h
        /\ \A p \in Pools : \A n \in wallet'.marks[p] : Covers(wallet'.cp[p], n)
    BY <1>1, HeightsNat, ZenonT(40) DEF IInv, Sound, Rows
  <2>2. h < wallet.tip /\ TreesAffected(wallet, h)
    <3>1. LastScanned(wallet) \in Nat
      BY <2>1, LastScannedBounds, HeightsNat, SMTT(40)
    <3>2. LastScanned(wallet) \in wallet.blocks
      BY <2>1, <3>1, LastScannedBounds, SMTT(40) DEF LastScanned, MaxOr
    <3>3. LastScanned(wallet) <= wallet.tip
      BY <1>1, <2>1, <3>2, SMTT(40) DEF IInv, Sound
    <3> QED
      BY <2>1, <3>1, <3>3 DEF TreesAffected
  <2>3. ASSUME \A p \in Pools : \A c \in wallet'.cp[p] : c <= h
        PROVE  \A p \in Pools : wallet'.cp[p] \cup wallet'.marks[p] \subseteq 0..h
    <3> SUFFICES ASSUME NEW p \in Pools, NEW n \in wallet'.cp[p] \cup wallet'.marks[p]
                 PROVE  n \in 0..h
      BY SMTT(40)
    <3>1. n \in Nat /\ \A c \in wallet'.cp[p] : c \in Nat
      BY <2>1, HeightsNat, SMTT(40) DEF Rows
    <3>2. n <= h
      BY <2>1, <2>3, <3>1, SMTT(40) DEF Covers
    <3> QED
      BY <2>1, <3>1, <3>2, SMTT(40)
  <2>4. ASSUME NEW g \in Heights, wallet' = TruncateInternal(wallet, g, g), CanTruncate(wallet, g, g)
        PROVE  \A p \in Pools : \A c \in wallet'.cp[p] : c <= h
    <3>1. h = IF wallet.tip < g THEN wallet.tip ELSE g
      BY <2>1, <2>4, TruncateBlocks, SMTT(40)
    <3>2. g = h
      BY <2>1, <2>2, <3>1, HeightsNat, SMTT(40)
    <3> QED
      BY <2>1, <2>2, <2>4, <3>2, NoCheckpointAbove, SMTT(40)
  <2>5. ASSUME wallet'.tip >= wallet.tip PROVE FALSE
    BY <2>1, <2>2, <2>5, SMTT(40)
  <2>6. ASSUME NEW requested \in Heights, TruncateToHeight(requested)
        PROVE  \A p \in Pools : \A c \in wallet'.cp[p] : c <= h
    <3>1. PICK g \in Heights : wallet' = TruncateInternal(wallet, g, g) /\ CanTruncate(wallet, g, g)
      BY <2>1, <2>6, ChosenHeights, ZenonT(40) DEF TruncateToHeight
    <3> QED
      BY <2>4, <3>1, SMTT(40)
  <2>7. ASSUME NEW t \in Heights, TruncateToChainState(t)
        PROVE  \A p \in Pools : \A c \in wallet'.cp[p] : c <= h
    <3>1. /\ wallet' = TruncateInternal(Prepared(t), t, t) /\ Prepared(t) \in Rows
          /\ CanTruncate(Prepared(t), t, t)
      BY <1>1, <2>7, PreparedFields, SMTT(40) DEF TruncateToChainState, CanTruncateToChainState
    <3>2. h = IF Prepared(t).tip < t THEN Prepared(t).tip ELSE t
      BY <3>1, TruncateBlocks, SMTT(40)
    <3>3. t \in Nat /\ Prepared(t).tip \in Nat
      BY <3>1, HeightsNat, Zenon DEF Rows
    <3>4. SelectTruncationHeight(wallet, t, FALSE) # None
      <4>1. h <= t
        BY <3>2, <3>3
      <4> QED
        BY <2>1, <4>1, QualifiesLater, Zenon
    <3>5. Cut(t) = wallet
      BY <3>4 DEF Cut, FirstCut
    <3>6. Prepared(t).tip = wallet.tip
      BY <1>1, <3>5, PreparedFields, SMTT(40)
    <3>7. h = t
      BY <2>1, <2>2, <3>2, <3>3, <3>6, SMTT(40)
    <3>8. Prepared(t) = wallet
      BY <3>7, SMTT(40) DEF Prepared
    <3> QED
      BY <2>4, <3>1, <3>8
  <2>8. ASSUME NEW t \in Heights, RewindToChainState(t) PROVE FALSE
    BY <1>1, <2>1, <2>5, <2>8, RewindBlocks, SMTT(40)
  <2>9. ASSUME \/ \E f, t \in Heights : PutBlocks(f, t)
               \/ \E t \in Heights : UpdateChainTip(t)
               \/ \E p \in Pools : MigratePool(p)
        PROVE  FALSE
    BY <1>1, <2>5, <2>9, ForwardBlocks
  <2> QED
    BY <2>1, <2>3, <2>6, <2>7, <2>8, <2>9, Zenon DEF Next
<1> HIDE DEF A
<1>2. Spec => [][A]_vars
  BY <1>1, IInvAlways, PTL DEF Spec
<1> QED
  BY <1>2, PTL DEF A, TruncationRemoves

=============================================================================
