-------------------------- MODULE WalletScanProofs --------------------------
(***************************************************************************)
(* What holds of the wallet's scanning state for every number of heights,  *)
(* accounts and pools, and every pruning depth.                            *)
(***************************************************************************)
EXTENDS WalletScan, Extrema, TLAPS

-----------------------------------------------------------------------------
Ranges == {r \in [start : Int, end : Int, priority : Priorities] : r.start <= r.end}

(* What the insertion of one range does to the cells, as far as the        *)
(* invariants are concerned.                                               *)
LEMMA InsertType ==
    ASSUME NEW c \in Cells, NEW r \in Ranges, NEW q \in Ranges,
           NEW force \in BOOLEAN
    PROVE  InsertCells(c, r, q, force) \in Cells
<1> DEFINE T == Touched(c, q)
<1> HIDE DEF T
<1> SUFFICES ASSUME NEW h \in Heights
             PROVE  InsertCells(c, r, q, force)[h] \in StoredPriorities \cup {NoRow}
  BY DEF Cells, InsertCells
<1>1. c[h] \in StoredPriorities \cup {NoRow} /\ r.priority \in Priorities
  BY DEF Cells, Ranges
<1> QED
  BY <1>1 DEF InsertCells, Dominance, Stored, StoredPriorities, Priorities,
     Ignored, Scanned, Historic, LatestPoolActivation, OpenAdjacent, FoundNote,
     ChainTip, Verify, NoRow

(* A height that is covered stays covered, and one that is not ignored     *)
(* does not become ignored.                                                *)
LEMMA InsertKeeps ==
    ASSUME NEW c \in Cells, NEW r \in Ranges, NEW q \in Ranges,
           NEW force \in BOOLEAN, NEW h \in Heights, c[h] # NoRow
    PROVE  /\ InsertCells(c, r, q, force)[h] # NoRow
           /\ c[h] # Ignored => InsertCells(c, r, q, force)[h] # Ignored
<1>1. c[h] \in StoredPriorities \cup {NoRow} /\ r.priority \in Priorities
  BY DEF Cells, Ranges
<1> QED
  BY <1>1 DEF InsertCells, Dominance, Stored, StoredPriorities, Priorities,
     Ignored, Scanned, Historic, LatestPoolActivation, OpenAdjacent, FoundNote,
     ChainTip, Verify, NoRow

(* The heights of the range are covered afterwards, and not ignored unless *)
(* the range is.                                                           *)
LEMMA InsertInRange ==
    ASSUME NEW c \in Cells, NEW r \in Ranges, NEW q \in Ranges,
           NEW force \in BOOLEAN, NEW h \in Heights, InRange(h, r)
    PROVE  /\ InsertCells(c, r, q, force)[h] # NoRow
           /\ r.priority # Ignored => InsertCells(c, r, q, force)[h] # Ignored
<1>1. c[h] \in StoredPriorities \cup {NoRow} /\ r.priority \in Priorities
  BY DEF Cells, Ranges
<1> QED
  BY <1>1 DEF InsertCells, Dominance, Stored, StoredPriorities, Priorities,
     Ignored, Scanned, Historic, LatestPoolActivation, OpenAdjacent, FoundNote,
     ChainTip, Verify, NoRow

(* A height becomes scanned only by a range of scanned blocks.             *)
LEMMA InsertScanned ==
    ASSUME NEW c \in Cells, NEW r \in Ranges, NEW q \in Ranges,
           NEW force \in BOOLEAN, NEW h \in Heights,
           InsertCells(c, r, q, force)[h] = Scanned
    PROVE  c[h] = Scanned \/ (InRange(h, r) /\ r.priority = Scanned)
<1>1. c[h] \in StoredPriorities \cup {NoRow} /\ r.priority \in Priorities
  BY DEF Cells, Ranges
<1> QED
  BY <1>1 DEF InsertCells, Dominance, Stored, StoredPriorities, Priorities,
     Ignored, Scanned, Historic, LatestPoolActivation, OpenAdjacent, FoundNote,
     ChainTip, Verify, NoRow

(* Coverage grows only up to the end of the range or of the rows, and only *)
(* down to the start of the range or of the rows.                          *)
LEMMA InsertBounds ==
    ASSUME NEW c \in Cells, NEW r \in Ranges, NEW q \in Ranges,
           NEW force \in BOOLEAN, NEW h \in Heights,
           InsertCells(c, r, q, force)[h] # NoRow
    PROVE  /\ h < r.end \/ \E g \in Heights : c[g] # NoRow /\ h <= g
           /\ r.start <= h \/ \E g \in Heights : c[g] # NoRow /\ g <= h
<1>1. \/ c[h] # NoRow
      \/ Between(h, Touched(c, q))
      \/ InRange(h, r)
      \/ InGap(h, r, Touched(c, q))
  BY DEF InsertCells
<1>2. h \in Int /\ r.start \in Int /\ r.end \in Int /\ r.start <= r.end
  BY MaxHeightAssumption DEF Heights, Ranges
<1>3. \A g \in Touched(c, q) : g \in Heights /\ g \in Int /\ c[g] # NoRow
  BY MaxHeightAssumption DEF Touched, Heights
<1>4. \A g \in Heights : g \in Int
  BY MaxHeightAssumption DEF Heights
<1>5. CASE c[h] # NoRow
  BY <1>5, <1>2
<1>6. CASE Between(h, Touched(c, q))
  <2>1. PICK f \in Touched(c, q) : f < h
    BY <1>6 DEF Between
  <2>2. PICK g \in Touched(c, q) : h < g
    BY <1>6 DEF Between
  <2>3. f <= h /\ h <= g
    BY <2>1, <2>2, <1>2, <1>3
  <2> QED BY <2>3, <1>3
<1>7. CASE InRange(h, r)
  BY <1>7, <1>2 DEF InRange
<1>8. CASE InGap(h, r, Touched(c, q))
  <2>1. CASE r.end <= h /\ \E g \in Touched(c, q) : h < g
    <3>1. PICK g \in Touched(c, q) : h < g
      BY <2>1
    <3>2. h <= g
      BY <3>1, <1>2, <1>3
    <3> QED BY <2>1, <3>2, <1>2, <1>3
  <2>2. CASE h < r.start /\ \E g \in Touched(c, q) : g < h
    <3>1. PICK g \in Touched(c, q) : g < h
      BY <2>2
    <3>2. g <= h
      BY <3>1, <1>2, <1>3
    <3>3. g \in Heights /\ c[g] # NoRow
      BY <1>3
    <3>4. h < r.end
      BY <2>2, <1>2
    <3> QED BY <3>2, <3>3, <3>4
  <2> QED BY <1>8, <2>1, <2>2 DEF InGap
<1> QED
  BY <1>1, <1>5, <1>6, <1>7, <1>8

(* A hole between a range and the rows read above it is filled.            *)
LEMMA InsertFillsGapAbove ==
    ASSUME NEW c \in Cells, NEW r \in Ranges, NEW q \in Ranges,
           NEW force \in BOOLEAN, NEW h \in Heights, r.end <= h,
           c[h] = NoRow, NEW g \in Heights, c[g] # NoRow, h < g,
           q.start - 1 <= g, g <= q.end
    PROVE  InsertCells(c, r, q, force)[h] = Historic
<1>1. g \in Touched(c, q)
  BY DEF Touched
<1>2. h \in Int /\ r.end \in Int
  BY MaxHeightAssumption DEF Heights, Ranges
<1> QED
  BY <1>1, <1>2 DEF InsertCells, InRange, InGap, Historic, NoRow

(* Outside of the range, an uncovered height stays so or becomes Historic. *)
LEMMA InsertOutside ==
    ASSUME NEW c \in Cells, NEW r \in Ranges, NEW q \in Ranges,
           NEW force \in BOOLEAN, NEW h \in Heights, c[h] = NoRow, ~InRange(h, r)
    PROVE  InsertCells(c, r, q, force)[h] \in {NoRow, Historic}
  BY DEF InsertCells

-----------------------------------------------------------------------------
(* The extrema the code reads from its tables.                             *)
LEMMA HeightsAreNat == Heights \subseteq Nat /\ \A h \in Heights : h <= MaxHeight
  BY MaxHeightAssumption DEF Heights

(* MAX(..) of a table column: an element that bounds the others, or none.  *)
LEMMA MaxOrNoneIs ==
    ASSUME NEW S, S \subseteq Heights
    PROVE  /\ MaxOrNone(S) \in Heights \cup {NoHeight}
           /\ S # {} => MaxOrNone(S) \in S
           /\ S = {} => MaxOrNone(S) = NoHeight
           /\ \A y \in S : y <= MaxOrNone(S)
<1>1. CASE S = {}
  BY <1>1 DEF MaxOrNone
<1>2. CASE S # {}
  <2>1. S \subseteq 0 .. MaxHeight
    BY DEF Heights
  <2>2. Max(S) \in S /\ \A y \in S : y <= Max(S)
    BY <1>2, <2>1, MaxBounded, MaxHeightAssumption, Zenon
  <2> QED BY <1>2, <2>2 DEF MaxOrNone
<1> QED BY <1>1, <1>2

(* MIN(..) of a table column.                                              *)
LEMMA MinOrNoneIs ==
    ASSUME NEW S, S \subseteq Heights
    PROVE  /\ MinOrNone(S) \in Heights \cup {NoHeight}
           /\ S # {} => MinOrNone(S) \in S
           /\ S = {} => MinOrNone(S) = NoHeight
           /\ \A y \in S : MinOrNone(S) <= y
<1>1. CASE S = {}
  BY <1>1 DEF MinOrNone
<1>2. CASE S # {}
  <2>1. S \subseteq Nat
    BY HeightsAreNat
  <2>2. PICK m \in S : \A y \in S : m <= y
    BY <1>2, <2>1, MinHeight, Zenon
  <2>3. \A y \in S : y \in Int /\ m \in Int
    BY <2>1
  <2>4. Min(S) \in S /\ \A y \in S : Min(S) <= y
    BY <2>2 DEF Min
  <2> QED BY <1>2, <2>4 DEF MinOrNone
<1> QED BY <1>1, <1>2

(* chain_tip_height: the highest covered height, if any.                   *)
LEMMA TipIs ==
    ASSUME NEW c \in Cells
    PROVE  /\ MaxOrNone(Covered(c)) \in Heights \cup {NoHeight}
           /\ \A g \in Heights : c[g] # NoRow =>
                /\ g <= MaxOrNone(Covered(c))
                /\ MaxOrNone(Covered(c)) # NoHeight
           /\ MaxOrNone(Covered(c)) # NoHeight =>
                c[MaxOrNone(Covered(c))] # NoRow
<1>1. Covered(c) \subseteq Heights
  BY DEF Covered
<1>2. \A g \in Heights : c[g] # NoRow <=> g \in Covered(c)
  BY DEF Covered
<1>3. \A g \in Heights : g # NoHeight
  BY HeightsAreNat DEF NoHeight
<1> QED BY <1>1, <1>2, <1>3, MaxOrNoneIs

(* wallet_birthday: a lower bound of the birthdays, known if one is.       *)
LEMMA BirthdayIs ==
    ASSUME TypeOK
    PROVE  /\ WalletBirthday \in Heights \cup {NoHeight}
           /\ KnownBirthdays = {} => WalletBirthday = NoHeight
           /\ \A a \in Accounts : birthdays[a] # NoHeight =>
                /\ birthdays[a] \in KnownBirthdays
                /\ WalletBirthday # NoHeight
                /\ WalletBirthday <= birthdays[a]
<1>1. KnownBirthdays \subseteq Heights
  BY DEF TypeOK, KnownBirthdays
<1>2. \A a \in Accounts : birthdays[a] # NoHeight => birthdays[a] \in KnownBirthdays
  BY DEF KnownBirthdays
<1>3. \A g \in Heights : g # NoHeight
  BY HeightsAreNat DEF NoHeight
<1> QED BY <1>1, <1>2, <1>3, MinOrNoneIs DEF WalletBirthday

(* The lowest last subtree end over the pools is a height, if there is     *)
(* one.                                                                    *)
LEMMA MinShardTipIs ==
    ASSUME TypeOK
    PROVE  MinShardTip \in Heights \cup {NoHeight}
<1>1. ShardTips \subseteq Heights
  <2> SUFFICES ASSUME NEW p \in Pools, shards[p] # {}
               PROVE  Max(shards[p]) \in Heights
    BY DEF ShardTips
  <2>1. shards[p] \subseteq 0 .. MaxHeight
    BY DEF TypeOK, Heights
  <2> QED BY <2>1, MaxBounded, MaxHeightAssumption DEF Heights
<1> QED BY <1>1, MinOrNoneIs DEF MinShardTip

-----------------------------------------------------------------------------
(* The inductive invariant, with the tip of the queue replaced by the      *)
(* covered heights it stands for.                                          *)
Wanted(c, h) == c[h] # NoRow /\ c[h] # Ignored

NoSkip(c, bd) ==
    \A a \in Accounts, h, g \in Heights :
        bd[a] # NoHeight /\ bd[a] <= h /\ h <= g /\ c[g] # NoRow => Wanted(c, h)

ScannedIn(c, B) == \A h \in Heights : c[h] = Scanned => h \in B

BelowAll(c, b) == \A g \in Heights : c[g] # NoRow => b < g

KeptIn(c, B) == \A b \in B : c[b] # NoRow \/ BelowAll(c, b)

OwnIn(c, B, bd) ==
    \A b \in B, a \in Accounts : bd[a] # NoHeight /\ bd[a] <= b => c[b] # NoRow

IInv ==
    /\ TypeOK
    /\ NoSkip(queue, birthdays)
    /\ ScannedIn(queue, blocks)
    /\ KeptIn(queue, blocks)
    /\ OwnIn(queue, blocks, birthdays)

(* The invariant is the conjunction of properties that TLC checks.         *)
LEMMA IInvImplies ==
    IInv => NothingSkipped /\ ScannedIsStored /\ BlocksQueuedOrPruned
<1> SUFFICES ASSUME IInv
             PROVE  NothingSkipped /\ ScannedIsStored /\ BlocksQueuedOrPruned
  OBVIOUS
<1>1. queue \in Cells
  BY DEF IInv, TypeOK
<1>2. Tip \in Heights \cup {NoHeight} /\ (Tip # NoHeight => queue[Tip] # NoRow)
  BY <1>1, TipIs DEF Tip
<1>3. \A h \in Heights : h <= Tip => Tip \in Heights
  BY <1>2, HeightsAreNat DEF NoHeight
<1>4. NothingSkipped
  BY <1>2, <1>3, HeightsAreNat DEF NothingSkipped, IInv, NoSkip, Wanted, NoHeight
<1>5. ScannedIsStored
  BY DEF IInv, ScannedIn, ScannedIsStored, ScannedHeights
<1>6. BlocksQueuedOrPruned
  <2> SUFFICES ASSUME NEW b \in blocks, queue[b] = NoRow
               PROVE  /\ \A g \in Covered(queue) : b < g
                      /\ \A k \in KnownBirthdays : b < k
    BY DEF BlocksQueuedOrPruned
  <2>1. \A g \in Covered(queue) : b < g
    BY DEF IInv, KeptIn, BelowAll, Covered
  <2>2. ASSUME NEW a \in Accounts, birthdays[a] # NoHeight PROVE b < birthdays[a]
    <3>1. ~(birthdays[a] <= b)
      BY <2>2 DEF IInv, OwnIn
    <3>2. b \in Heights /\ birthdays[a] \in Heights
      BY <2>2 DEF IInv, TypeOK
    <3>3. b \in Int /\ birthdays[a] \in Int
      BY <3>2, MaxHeightAssumption DEF Heights
    <3> QED BY <3>1, <3>3
  <2> QED BY <2>1, <2>2 DEF KnownBirthdays
<1> QED BY <1>4, <1>5, <1>6

(* A known tip is at or above every stored block.                          *)
LEMMA BlocksBelowKnownTip ==
    ASSUME IInv, TipKnown, NEW b \in blocks
    PROVE  b <= Tip
<1>1. queue \in Cells /\ b \in Heights
  BY DEF IInv, TypeOK
<1>2. Tip \in Heights \cup {NoHeight}
  BY <1>1, TipIs DEF Tip
<1>3. \A g \in Heights : queue[g] # NoRow => g <= Tip
  BY <1>1, TipIs DEF Tip
<1>4. Tip \in Int /\ b \in Int /\ \A g \in Heights : g \in Int
  BY <1>1, <1>2, MaxHeightAssumption DEF Heights, NoHeight
<1>5. CASE queue[b] # NoRow
  BY <1>1, <1>3, <1>5
<1>6. CASE BelowAll(queue, b)
  <2>1. PICK g \in Heights : queue[g] # NoRow
    BY DEF TipKnown, Covered
  <2>2. b < g /\ g <= Tip
    BY <1>3, <1>6, <2>1 DEF BelowAll
  <2> QED BY <2>2, <1>4
<1> QED BY <1>5, <1>6 DEF IInv, KeptIn

(* An empty wallet satisfies the invariant.                                *)
LEMMA InitIInv == Init => IInv
<1> SUFFICES ASSUME Init PROVE IInv
  OBVIOUS
<1>1. \A h \in Heights : queue[h] = NoRow /\ NoRow # Scanned
  BY DEF Init, NoRow, Scanned
<1>2. TypeOK
  BY DEF Init, TypeOK, Cells
<1> QED
  BY <1>1, <1>2 DEF Init, IInv, NoSkip, ScannedIn, KeptIn, OwnIn

(* A block stays queued or below the queue when a range is inserted that   *)
(* covers it or starts above it.                                           *)
LEMMA InsertKept ==
    ASSUME NEW c \in Cells, NEW r \in Ranges, NEW q \in Ranges,
           NEW force \in BOOLEAN, NEW b \in Heights,
           c[b] # NoRow \/ BelowAll(c, b),
           c[b] # NoRow \/ InRange(b, r) \/ b < r.start
    PROVE  \/ InsertCells(c, r, q, force)[b] # NoRow
           \/ BelowAll(InsertCells(c, r, q, force), b)
<1> DEFINE d == InsertCells(c, r, q, force)
<1>1. CASE c[b] # NoRow
  BY <1>1, InsertKeeps
<1>2. CASE InRange(b, r)
  BY <1>2, InsertInRange
<1>3. CASE BelowAll(c, b) /\ b < r.start
  <2>1. ASSUME NEW g \in Heights, d[g] # NoRow PROVE b < g
    <3>1. r.start <= g \/ \E f \in Heights : c[f] # NoRow /\ f <= g
      BY <2>1, InsertBounds
    <3>2. r.start \in Int /\ g \in Int /\ b \in Int
      BY HeightsAreNat DEF Ranges
    <3>3. CASE r.start <= g
      BY <3>2, <3>3, <1>3
    <3>4. CASE \E f \in Heights : c[f] # NoRow /\ f <= g
      BY <3>2, <3>4, <1>3, HeightsAreNat DEF BelowAll
    <3> QED BY <3>1, <3>3, <3>4
  <2> QED BY <2>1 DEF BelowAll
<1> QED BY <1>1, <1>2, <1>3

-----------------------------------------------------------------------------
(* Inserting a range keeps what the invariant says, provided that every    *)
(* height of an account above the queued ones that becomes covered is      *)
(* wanted.  The blocks must be covered by the range or lie below it.       *)
LEMMA InsertNoSkip ==
    ASSUME NEW c \in Cells, NEW r \in Ranges, NEW q \in Ranges,
           NEW force \in BOOLEAN,
           NEW bd \in [Accounts -> Heights \cup {NoHeight}],
           NoSkip(c, bd),
           \A a \in Accounts, h \in Heights :
                /\ bd[a] # NoHeight /\ bd[a] <= h /\ h < r.end
                /\ \A g \in Heights : c[g] # NoRow => g < h
                => Wanted(InsertCells(c, r, q, force), h)
    PROVE  NoSkip(InsertCells(c, r, q, force), bd)
<1> DEFINE d == InsertCells(c, r, q, force)
<1> SUFFICES ASSUME NEW a \in Accounts, NEW h \in Heights, NEW g \in Heights,
                    bd[a] # NoHeight, bd[a] <= h, h <= g, d[g] # NoRow
             PROVE  Wanted(d, h)
  BY DEF NoSkip
<1>1. CASE \E f \in Heights : c[f] # NoRow /\ h <= f
  <2>1. Wanted(c, h)
    BY <1>1 DEF NoSkip
  <2> QED BY <2>1, InsertKeeps DEF Wanted
<1>2. CASE \A f \in Heights : ~(c[f] # NoRow /\ h <= f)
  <2>1. \A f \in Heights : c[f] # NoRow => f < h
    BY <1>2, HeightsAreNat
  <2>2. h \in Int /\ g \in Int /\ r.end \in Int
    BY HeightsAreNat DEF Ranges
  <2>3. g < r.end
    <3>1. g < r.end \/ \E f \in Heights : c[f] # NoRow /\ g <= f
      BY InsertBounds
    <3>2. ASSUME NEW f \in Heights, c[f] # NoRow, g <= f PROVE FALSE
      <4>1. f \in Int /\ h <= f
        BY <3>2, <2>2, HeightsAreNat
      <4> QED BY <4>1, <3>2, <1>2
    <3> QED BY <3>1, <3>2
  <2>4. h < r.end
    BY <2>2, <2>3
  <2> QED BY <2>1, <2>4
<1> QED BY <1>1, <1>2

(* The ranges that update_chain_tip inserts.                               *)
LEMMA TipRanges ==
    ASSUME TypeOK, NEW t \in Heights,
           SaplingActivation <= t, MaxScanned <= t, WalletBirthday <= t + 1
    PROVE  /\ TipEntry(t) \in Ranges
           /\ TipEntry(t).priority # Scanned
           /\ HasTipShard(t) => TipShardEntry(t) \in Ranges
           /\ TipQuery(t) \in Ranges
           /\ TipEntry(t).end <= t + 1
           /\ TipShardEntry(t).priority = ChainTip
<1>1. /\ MaxScanned \in Int /\ WalletBirthday \in Int /\ MinShardTip \in Int
      /\ t \in Nat /\ SaplingActivation \in Int /\ MaxScanned >= -1
  <2>1. MaxScanned \in Heights \cup {NoHeight}
    BY MaxOrNoneIs DEF TypeOK, MaxScanned
  <2>2. WalletBirthday \in Heights \cup {NoHeight}
    BY BirthdayIs
  <2>3. MinShardTip \in Heights \cup {NoHeight}
    BY MinShardTipIs
  <2> QED BY <2>1, <2>2, <2>3, HeightsAreNat, ScanAssumption DEF NoHeight
<1>2. TipEntry(t) \in Ranges /\ TipEntry(t).end <= t + 1 /\ TipEntry(t).priority # Scanned
  BY <1>1, ScanAssumption
     DEF TipEntry, ConnectingEntry, ScanRange, Ranges, Lower, Higher, SaturatingSub,
         Priorities, Ignored, Scanned, Historic, ChainTip, Verify
<1>3. HasTipShard(t) => TipShardEntry(t) \in Ranges
  BY <1>1 DEF HasTipShard, TipShardEntry, ScanRange, Ranges, Higher, Priorities
<1>4. TipQuery(t) \in Ranges
  BY <1>1, <1>2, <1>3
     DEF TipQuery, HasTipShard, TipShardEntry, ScanRange, Ranges, Lower, Higher, Priorities
<1>5. TipShardEntry(t).priority = ChainTip
  BY DEF TipShardEntry, ScanRange
<1> QED BY <1>2, <1>3, <1>4, <1>5

(* update_chain_tip keeps the invariant.  A height above the queue that    *)
(* becomes covered is in one of the two entries, or in the gap between     *)
(* them, which the merge of the second entry fills as Historic.            *)
LEMMA UpdateChainTipSafe ==
    ASSUME IInv, NEW t \in Heights, UpdateChainTip(t)
    PROVE  IInv'
<1> DEFINE e1 == TipShardEntry(t)
           e2 == TipEntry(t)
           q  == TipQuery(t)
           c1 == IF HasTipShard(t) THEN InsertCells(queue, e1, q, FALSE) ELSE queue
           c2 == InsertCells(c1, e2, q, FALSE)
<1>1. TypeOK /\ queue \in Cells /\ birthdays \in [Accounts -> Heights \cup {NoHeight}]
  BY DEF IInv, TypeOK
<1>2. /\ SaplingActivation <= t /\ MaxScanned <= t /\ WalletBirthday <= t + 1
      /\ blocks' = blocks /\ birthdays' = birthdays /\ shards' = shards
  BY DEF UpdateChainTip
<1>3. queue' = c2
  BY Zenon DEF UpdateChainTip, TipQueue, ReplaceTwo
<1>4. /\ e2 \in Ranges /\ q \in Ranges /\ (HasTipShard(t) => e1 \in Ranges)
      /\ e2.priority # Scanned /\ e1.priority = ChainTip /\ e2.end <= t + 1
      /\ e1.end = t + 1
  BY <1>1, <1>2, TipRanges DEF TipShardEntry, ScanRange
<1>5. c1 \in Cells
  BY <1>1, <1>4, InsertType, Zenon
<1>6. c2 \in Cells
  BY <1>4, <1>5, InsertType, Zenon
<1>7. /\ t \in Int /\ e2.start \in Int /\ e2.end \in Int /\ q.start \in Int /\ q.end \in Int
      /\ MaxScanned \in Heights \cup {NoHeight} /\ WalletBirthday \in Heights \cup {NoHeight}
      /\ MaxScanned \in Int /\ WalletBirthday \in Int
      /\ (HasTipShard(t) => e1.start \in Int)
  <2>1. MaxScanned \in Heights \cup {NoHeight}
    BY <1>1, MaxOrNoneIs DEF TypeOK, MaxScanned
  <2>2. WalletBirthday \in Heights \cup {NoHeight}
    BY <1>1, BirthdayIs
  <2> QED BY <2>1, <2>2, <1>4, HeightsAreNat DEF NoHeight, Ranges
<1> HIDE DEF e1, e2, q, c1, c2
<1>8. \A h \in Heights : queue[h] # NoRow => c1[h] # NoRow /\ c2[h] # NoRow
  <2>1. \A h \in Heights : queue[h] # NoRow => c1[h] # NoRow
    BY <1>1, <1>4, InsertKeeps, Zenon DEF c1
  <2> QED BY <2>1, <1>4, <1>5, InsertKeeps, Zenon DEF c2
<1>9. \A h \in Heights : Wanted(c1, h) => Wanted(c2, h)
  BY <1>4, <1>5, InsertKeeps, Zenon DEF Wanted, c2
<1>10. \A h \in Heights : Wanted(queue, h) => Wanted(c1, h)
  BY <1>1, <1>4, InsertKeeps, Zenon DEF Wanted, c1
<1>11. ScannedIn(queue', blocks')
  <2> SUFFICES ASSUME NEW h \in Heights, c2[h] = Scanned PROVE h \in blocks
    BY <1>2, <1>3 DEF ScannedIn
  <2>1. c1[h] = Scanned
    BY <1>4, <1>5, InsertScanned, Zenon DEF c2
  <2>2. queue[h] = Scanned
    <3>1. ChainTip # Scanned
      BY DEF ChainTip, Scanned
    <3>2. CASE HasTipShard(t)
      <4>1. c1 = InsertCells(queue, e1, q, FALSE) /\ e1 \in Ranges
        BY <3>2, <1>4 DEF c1
      <4> QED BY <4>1, <3>1, <2>1, <1>1, <1>4, InsertScanned, Zenon
    <3>3. CASE ~HasTipShard(t)
      BY <3>3, <2>1 DEF c1
    <3> QED BY <3>2, <3>3
  <2> QED BY <2>2 DEF IInv, ScannedIn
<1>12. KeptIn(queue', blocks')
  <2> SUFFICES ASSUME NEW b \in blocks PROVE c2[b] # NoRow \/ BelowAll(c2, b)
    BY <1>2, <1>3 DEF KeptIn
  <2>1. b \in Heights /\ b \in Int /\ b <= MaxScanned /\ blocks # {}
    <3>1. blocks \subseteq Heights
      BY <1>1 DEF TypeOK
    <3>2. b <= MaxScanned
      BY <3>1, MaxOrNoneIs DEF MaxScanned
    <3> QED BY <3>1, <3>2, HeightsAreNat
  <2>2. queue[b] # NoRow \/ BelowAll(queue, b)
    BY DEF IInv, KeptIn
  <2>3. c1[b] # NoRow \/ BelowAll(c1, b)
    <3>1. CASE HasTipShard(t)
      <4>1. InRange(b, e1) \/ b < e1.start
        BY <3>1, <2>1, <1>2, <1>4, <1>7 DEF InRange
      <4> QED BY <3>1, <4>1, <2>1, <2>2, <1>1, <1>4, InsertKept, Zenon DEF c1
    <3>2. CASE ~HasTipShard(t)
      BY <3>2, <2>2 DEF c1
    <3> QED BY <3>1, <3>2
  <2>4. b < e2.start
    <3>1. e2.start = MaxScanned + 1
      BY <2>1 DEF e2, TipEntry, ConnectingEntry, ScanRange
    <3> QED BY <3>1, <2>1, <1>7
  <2> QED BY <2>1, <2>3, <2>4, <1>4, <1>5, InsertKept, Zenon DEF c2
<1>13. NoSkip(queue', birthdays')
  <2> SUFFICES ASSUME NEW a \in Accounts, NEW h \in Heights, NEW g \in Heights,
                      birthdays[a] # NoHeight, birthdays[a] <= h, h <= g,
                      c2[g] # NoRow
               PROVE  Wanted(c2, h)
    BY <1>2, <1>3 DEF NoSkip
  <2>1. CASE \E f \in Heights : queue[f] # NoRow /\ h <= f
    BY <2>1, <1>9, <1>10 DEF IInv, NoSkip
  <2>2. CASE \A f \in Heights : ~(queue[f] # NoRow /\ h <= f)
    <3>1. h \in Int /\ g \in Int /\ \A f \in Heights : f \in Int
      BY HeightsAreNat
    <3>2. \A f \in Heights : queue[f] # NoRow => f < h
      <4> SUFFICES ASSUME NEW f \in Heights, queue[f] # NoRow PROVE f < h
        OBVIOUS
      <4>1. ~(h <= f)
        BY <2>2
      <4> QED BY <4>1, <3>1
    <3>3. \A f \in Heights : c1[f] # NoRow /\ h <= f => f < t + 1
      <4> SUFFICES ASSUME NEW f \in Heights, c1[f] # NoRow, h <= f PROVE f < t + 1
        OBVIOUS
      <4>1. CASE HasTipShard(t)
        <5>1. f < t + 1 \/ \E i \in Heights : queue[i] # NoRow /\ f <= i
          BY <4>1, <1>1, <1>4, InsertBounds, Zenon DEF c1
        <5>2. ASSUME NEW i \in Heights, queue[i] # NoRow, f <= i PROVE FALSE
          <6>1. i < h /\ i \in Int /\ f \in Int /\ h \in Int
            BY <5>2, <3>1, <3>2, Zenon
          <6> QED
            BY <5>2, <6>1
        <5> QED BY <5>1, <5>2, Zenon
      <4>2. CASE ~HasTipShard(t)
        BY <4>2, <2>2 DEF c1
      <4> QED BY <4>1, <4>2
    <3>4. h < t + 1
      <4>1. g < e2.end \/ \E i \in Heights : c1[i] # NoRow /\ g <= i
        BY <1>4, <1>5, InsertBounds, Zenon DEF c2
      <4>2. CASE g < e2.end
        BY <4>2, <1>4, <1>7, <3>1
      <4>3. ASSUME NEW i \in Heights, c1[i] # NoRow, g <= i PROVE h < t + 1
        <5>1. h <= i
          BY <4>3, <3>1
        <5>2. i < t + 1
          BY <5>1, <4>3, <3>3
        <5>3. i \in Int
          BY <3>1
        <5> QED BY <5>1, <5>2, <5>3, <3>1, <1>7
      <4> QED BY <4>1, <4>2, <4>3
    <3>5. CASE InRange(h, e2)
      <4>1. e2.priority # Ignored
        BY <1>1, <1>7, BirthdayIs
           DEF e2, TipEntry, ConnectingEntry, ScanRange, Ignored, Historic, ChainTip, Verify
      <4> QED BY <4>1, <3>5, <1>4, <1>5, InsertInRange, Zenon DEF c2, Wanted
    <3>6. CASE HasTipShard(t) /\ InRange(h, e1)
      <4>1. Wanted(c1, h)
        <5>1. ChainTip # Ignored
          BY DEF ChainTip, Ignored
        <5>2. c1 = InsertCells(queue, e1, q, FALSE) /\ e1 \in Ranges /\ q \in Ranges
          BY <3>6, <1>4 DEF c1
        <5> QED BY <5>1, <5>2, <3>6, <1>1, <1>4, InsertInRange, Zenon DEF Wanted
      <4> QED BY <4>1, <1>9
    <3>7. CASE ~InRange(h, e2) /\ ~(HasTipShard(t) /\ InRange(h, e1))
      <4>1. blocks # {}
        <5> SUFFICES ASSUME blocks = {} PROVE FALSE
          OBVIOUS
        <5>1. WalletBirthday # NoHeight /\ WalletBirthday <= birthdays[a]
          BY <1>1, BirthdayIs
        <5>2. birthdays[a] \in Heights /\ birthdays[a] \in Int
          <6>1. birthdays[a] \in Heights
            BY <1>1
          <6> QED BY <6>1, MaxHeightAssumption DEF Heights
        <5>3. InRange(h, ScanRange(WalletBirthday, t + 1, Historic))
          BY <5>1, <5>2, <3>1, <3>4, <1>7 DEF InRange, ScanRange
        <5> QED BY <5>1, <5>3, <3>7 DEF e2, TipEntry
      <4>2. MaxScanned \in blocks /\ MaxScanned \in Heights
        BY <4>1, <1>1, MaxOrNoneIs, SMTT(40) DEF TypeOK, MaxScanned
      <4>3. e2.start = MaxScanned + 1
        BY <4>1 DEF e2, TipEntry, ConnectingEntry, ScanRange
      <4>4. queue[h] = NoRow
        BY <3>1, <3>2, SMTT(40)
      <4>5. CASE MaxScanned < h
        <5>1. HasTipShard(t)
          <6> SUFFICES ASSUME ~HasTipShard(t) PROVE FALSE
            OBVIOUS
          <6>1. e2.end = t + 1
            BY <4>1 DEF e2, TipEntry, ConnectingEntry, ScanRange
          <6> QED BY <6>1, <4>3, <4>5, <3>1, <3>4, <3>7, <1>7 DEF InRange
        <5>2. h < e1.start
          BY <5>1, <3>7, <3>4, <3>1, <1>4, <1>7 DEF InRange
        <5>3. e2.end <= h
          BY <4>3, <4>5, <3>1, <3>7, <1>7, SMTT(40) DEF InRange
        <5>4. c1[h] = NoRow \/ c1[h] = Historic
          BY <5>1, <5>2, <4>4, <3>1, <3>7, <1>1, <1>4, InsertOutside, ZenonT(40) DEF c1
        <5>5. e1.start \in Heights /\ InRange(e1.start, e1)
          <6>1. e1.start \in Int /\ h < e1.start
            BY <5>1, <5>2, <1>7
          <6>2. e1.start < t + 1
            <7>1. WalletBirthday <= h
              <8>1. WalletBirthday <= birthdays[a]
                BY <1>1, BirthdayIs
              <8>2. birthdays[a] \in Heights
                BY <1>1
              <8>3. birthdays[a] \in Int
                BY <8>2, MaxHeightAssumption DEF Heights
              <8> QED BY <8>1, <8>3, <3>1, <1>7
            <7> QED BY <7>1, <6>1, <5>1, <3>1, <1>7
                    DEF e1, TipShardEntry, ScanRange, Higher, HasTipShard
          <6> QED BY <6>1, <6>2, <3>1, <1>4, <1>7, MaxHeightAssumption
                  DEF InRange, Heights
        <5>6. c1[e1.start] # NoRow
          BY <5>1, <5>5, <1>1, <1>4, InsertInRange, Zenon DEF c1
        <5>7. q.start - 1 <= e1.start /\ e1.start <= q.end
          <6>1. q.start <= e1.start /\ q.end = t + 1
            BY <5>1, <1>7, <1>4 DEF q, e1, e2, TipQuery, ScanRange, Lower
          <6> QED BY <6>1, <5>1, <5>5, <1>4, <1>7 DEF InRange
        <5>8. CASE c1[h] = NoRow
          <6>1. c2[h] = Historic
            BY <5>2, <5>3, <5>5, <5>6, <5>7, <5>8, <1>4, <1>5, InsertFillsGapAbove, ZenonT(40) DEF c2
          <6> QED BY <6>1 DEF Wanted, Historic, NoRow, Ignored
        <5>9. CASE c1[h] = Historic
          BY <5>9, <1>9 DEF Wanted, Historic, NoRow, Ignored
        <5> QED BY <5>4, <5>8, <5>9
      <4>6. CASE h <= MaxScanned
        <5>1. birthdays[a] <= MaxScanned
          <6>1. birthdays[a] \in Heights
            BY <1>1
          <6>2. birthdays[a] \in Int
            BY <6>1, MaxHeightAssumption DEF Heights
          <6> QED BY <6>2, <4>6, <3>1, <1>7
        <5>2. queue[MaxScanned] # NoRow
          BY <5>1, <4>2 DEF IInv, OwnIn
        <5> QED BY <5>2, <4>2, <4>6, <2>2
      <4> QED BY <4>5, <4>6, <3>1, <1>7
    <3> QED BY <3>5, <3>6, <3>7
  <2> QED BY <2>1, <2>2
<1>14. TypeOK'
  BY <1>1, <1>2, <1>3, <1>6 DEF TypeOK
<1>15. OwnIn(queue', blocks', birthdays')
  BY <1>1, <1>2, <1>3, <1>8 DEF IInv, OwnIn, TypeOK
<1> QED BY <1>11, <1>12, <1>13, <1>14, <1>15 DEF IInv

-----------------------------------------------------------------------------
(* The extensions of a scanned range.                                      *)
LEMMA SubtreeBounds ==
    ASSUME TypeOK, NEW s \in Heights, NEW e \in 1 .. MaxHeight + 1,
           NEW found \in SUBSET SubtreesOf(s, e)
    PROVE  /\ ExtendedStart(s, found) \in Int /\ ExtendedStart(s, found) <= s
           /\ ExtendedEnd(e, found) \in Int /\ e <= ExtendedEnd(e, found)
<1>1. WalletBirthday \in Int
  <2>1. WalletBirthday \in Heights \cup {NoHeight}
    BY BirthdayIs
  <2> QED BY <2>1, MaxHeightAssumption DEF Heights, NoHeight
<1>2. \A x \in found : SubtreeStart(x) \in Nat
  <2> SUFFICES ASSUME NEW x \in found PROVE SubtreeStart(x) \in Nat
    OBVIOUS
  <2>1. x[1] \in Pools /\ x[2] \in Heights \cup {NoHeight}
    BY DEF SubtreesOf
  <2>2. PoolActivation[x[1]] \in Nat
    BY <2>1, ScanAssumption, HeightsAreNat, Zenon
  <2>3. x[2] = NoHeight \/ x[2] \in Nat
    BY <2>1, HeightsAreNat, Zenon
  <2> QED BY <2>2, <2>3, <1>1 DEF SubtreeStart, Higher
<1>3. ExtendedStart(s, found) \in Int /\ ExtendedStart(s, found) <= s
  <2> DEFINE S == {s} \cup {SubtreeStart(x) : x \in found}
  <2>1. S \subseteq Nat /\ s \in S
    BY <1>2, HeightsAreNat
  <2>2. PICK m \in S : \A y \in S : m <= y
    BY <2>1, MinHeight, Zenon
  <2>3. Min(S) \in S /\ \A y \in S : Min(S) <= y
    BY <2>2 DEF Min
  <2> HIDE DEF S
  <2>4. Min(S) \in Nat /\ Min(S) <= s
    BY <2>1, <2>3, Zenon
  <2> QED BY <2>4 DEF ExtendedStart, S
<1>4. \A x \in found : SubtreeEnds(x) # {} => Min(SubtreeEnds(x)) \in 0 .. MaxHeight + 1
  <2> SUFFICES ASSUME NEW x \in found, SubtreeEnds(x) # {}
               PROVE  Min(SubtreeEnds(x)) \in 0 .. MaxHeight + 1
    OBVIOUS
  <2>1. shards[x[1]] \subseteq Heights
    BY DEF SubtreesOf, TypeOK
  <2>2. SubtreeEnds(x) \subseteq 0 .. MaxHeight + 1
    <3> SUFFICES ASSUME NEW end \in shards[x[1]] PROVE end + 1 \in 0 .. MaxHeight + 1
      BY DEF SubtreeEnds
    <3>1. end \in 0 .. MaxHeight
      BY <2>1 DEF Heights
    <3> QED BY <3>1, MaxHeightAssumption
  <2>3. SubtreeEnds(x) \subseteq Nat
    BY <2>2, MaxHeightAssumption
  <2>4. PICK m \in SubtreeEnds(x) : \A y \in SubtreeEnds(x) : m <= y
    BY <2>3, MinHeight
  <2>5. Min(SubtreeEnds(x)) \in SubtreeEnds(x)
    BY <2>4 DEF Min
  <2> QED BY <2>2, <2>5
<1>5. ExtendedEnd(e, found) \in Int /\ e <= ExtendedEnd(e, found)
  <2> DEFINE S == {e} \cup {Min(SubtreeEnds(x)) :
                                x \in {y \in found : SubtreeEnds(y) # {}}}
  <2>1. S \subseteq 0 .. MaxHeight + 1 /\ e \in S
    BY <1>4, MaxHeightAssumption
  <2> HIDE DEF S
  <2>2. MaxHeight + 1 \in Nat /\ S # {}
    BY <2>1, MaxHeightAssumption
  <2> DEFINE N == MaxHeight + 1
  <2>3. N \in Nat /\ S \subseteq 0 .. N
    BY <2>1, <2>2
  <2> HIDE DEF N
  <2>4. Max(S) \in S /\ \A y \in S : y <= Max(S)
    BY <2>2, <2>3, MaxBounded, Zenon
  <2>5. Max(S) \in 0 .. N
    BY <2>3, <2>4, Zenon
  <2>6. Max(S) \in Int /\ e <= Max(S)
    BY <2>1, <2>3, <2>4, <2>5
  <2> QED BY <2>6 DEF ExtendedEnd, S
<1> QED BY <1>3, <1>5

LEMMA RangeType ==
    ASSUME NEW x \in Int, NEW y \in Int, x <= y, NEW p \in Priorities
    PROVE  ScanRange(x, y, p) \in Ranges
BY DEF ScanRange, Ranges

(* The ranges scan_complete writes are ranges: a batch, its extensions on  *)
(* both sides and the range the query reads.                               *)
LEMMA BatchRanges ==
    ASSUME TypeOK, NEW s \in Heights, NEW e \in 1 .. MaxHeight + 1,
           NEW found \in SUBSET SubtreesOf(s, e), s < e
    PROVE  /\ ExtendedStart(s, found) \in Int /\ ExtendedStart(s, found) <= s
           /\ ExtendedEnd(e, found) \in Int /\ e <= ExtendedEnd(e, found)
           /\ s \in Nat /\ e \in Nat
           /\ ScanRange(s, e, Scanned) \in Ranges
           /\ ScanRange(ExtendedStart(s, found), s, FoundNote) \in Ranges
           /\ ScanRange(e, ExtendedEnd(e, found), FoundNote) \in Ranges
           /\ ScanRange(ExtendedStart(s, found), ExtendedEnd(e, found), Scanned) \in Ranges
<1> PICK b, a : b = ExtendedStart(s, found) /\ a = ExtendedEnd(e, found)
  BY Zenon
<1>1. b \in Int /\ b <= s /\ a \in Int /\ e <= a
  BY SubtreeBounds, Zenon
<1>2. s \in Nat /\ e \in Nat
  BY HeightsAreNat, MaxHeightAssumption
<1>3. s <= e /\ b <= a
  BY <1>1, <1>2
<1>4. s \in Int /\ e \in Int
  BY <1>2
<1>5. Scanned \in Priorities /\ FoundNote \in Priorities
  BY Zenon DEF Priorities
<1>6. ScanRange(s, e, Scanned) \in Ranges /\ ScanRange(b, s, FoundNote) \in Ranges
  BY <1>1, <1>3, <1>4, <1>5, RangeType, Zenon
<1>7. ScanRange(e, a, FoundNote) \in Ranges /\ ScanRange(b, a, Scanned) \in Ranges
  BY <1>1, <1>3, <1>4, <1>5, RangeType, Zenon
<1> QED
  BY <1>1, <1>2, <1>6, <1>7, Zenon

(* put_blocks keeps the invariant: the batch and its FoundNote extensions  *)
(* touch heights that the queue covers or adjoin them.                     *)
LEMMA PutBlocksSafe ==
    ASSUME IInv, NEW s \in Heights, NEW e \in 1 .. MaxHeight + 1,
           NEW found \in SUBSET SubtreesOf(s, e), PutBlocks(s, e, found)
    PROVE  IInv'
<1> DEFINE b  == ExtendedStart(s, found)
           a  == ExtendedEnd(e, found)
           r1 == ScanRange(s, e, Scanned)
           r2 == ScanRange(b, s, FoundNote)
           r3 == ScanRange(e, a, FoundNote)
           q  == ScanRange(b, a, Scanned)
           c1 == InsertCells(queue, r1, q, FALSE)
           c2 == InsertCells(c1, r2, q, FALSE)
           c3 == InsertCells(c2, r3, q, FALSE)
<1>1. TypeOK /\ queue \in Cells /\ birthdays \in [Accounts -> Heights \cup {NoHeight}]
  BY DEF IInv, TypeOK
<1>2. /\ s < e /\ queue' = c3 /\ blocks' = blocks \cup s .. e - 1
      /\ birthdays' = birthdays /\ shards' = shards
  BY DEF PutBlocks, ScannedQueue, ReplaceThree, ReplaceTwo
<1>3. b \in Int /\ b <= s /\ a \in Int /\ e <= a /\ s \in Nat /\ e \in Nat
  BY <1>1, <1>2, BatchRanges, Zenon
<1>4. s .. e - 1 \subseteq Heights
  BY <1>3, MaxHeightAssumption DEF Heights
<1>5. \A h \in s .. e - 1 : queue[h] # NoRow
  <2> SUFFICES ASSUME NEW h \in s .. e - 1 PROVE queue[h] # NoRow
    OBVIOUS
  <2>1. queue[h] >= Scanned
    BY DEF PutBlocks
  <2> QED BY <2>1 DEF Scanned, NoRow
<1>6. r1 \in Ranges /\ r2 \in Ranges /\ r3 \in Ranges /\ q \in Ranges
  BY <1>1, <1>2, BatchRanges, Zenon
<1> HIDE DEF b, a
<1>7. /\ r1.start = s /\ r1.end = e /\ r2.start = b /\ r2.end = s
      /\ r3.start = e /\ r3.end = a
      /\ r2.priority = FoundNote /\ r3.priority = FoundNote
  BY DEF ScanRange
<1> HIDE DEF r1, r2, r3, q
<1>8. c1 \in Cells /\ c2 \in Cells /\ c3 \in Cells
  BY <1>1, <1>6, InsertType, Zenon
<1> HIDE DEF c1, c2, c3
<1>9. \A h \in Heights : queue[h] # NoRow => c1[h] # NoRow
  BY <1>1, <1>6, InsertKeeps, Zenon DEF c1
<1>10. \A h \in Heights : c1[h] # NoRow => c2[h] # NoRow
  BY <1>6, <1>8, InsertKeeps, Zenon DEF c2
<1>11. \A h \in Heights : c2[h] # NoRow => c3[h] # NoRow
  BY <1>6, <1>8, InsertKeeps, Zenon DEF c3
<1>12. FoundNote # Scanned /\ FoundNote # Ignored
  BY DEF FoundNote, Scanned, Ignored
<1>13. ScannedIn(queue', blocks')
  <2> SUFFICES ASSUME NEW h \in Heights, c3[h] = Scanned
               PROVE  h \in blocks \/ h \in s .. e - 1
    BY <1>2, SMTT(40) DEF ScannedIn
  <2>1. c2[h] = Scanned
    BY <1>6, <1>7, <1>8, <1>12, InsertScanned, Zenon DEF c3
  <2>2. c1[h] = Scanned
    BY <2>1, <1>6, <1>7, <1>8, <1>12, InsertScanned, ZenonT(40) DEF c2
  <2>3. queue[h] = Scanned \/ InRange(h, r1)
    BY <2>2, <1>1, <1>6, InsertScanned, Zenon DEF c1
  <2>4. h \in Int
    BY MaxHeightAssumption DEF Heights
  <2> QED BY <2>3, <2>4, <1>3, <1>7 DEF IInv, ScannedIn, InRange
<1>14. KeptIn(queue', blocks')
  <2> SUFFICES ASSUME NEW x \in blocks \cup s .. e - 1
               PROVE  c3[x] # NoRow \/ BelowAll(c3, x)
    BY <1>2 DEF KeptIn
  <2>1. x \in Heights
    BY <1>1, <1>4 DEF TypeOK
  <2>2. x \in Int
    BY <2>1, MaxHeightAssumption, SMTT(40) DEF Heights
  <2>3. CASE queue[x] # NoRow
    BY <2>1, <2>3, <1>9, <1>10, <1>11
  <2>4. CASE queue[x] = NoRow
    <3>1. BelowAll(queue, x)
      BY <2>4, <1>5 DEF IInv, KeptIn
    <3>2. x < s
      <4>1. s \in s .. e - 1
        BY <1>2, <1>3
      <4> QED BY <4>1, <3>1, <1>4, <1>5 DEF BelowAll
    <3>3. c1[x] # NoRow \/ BelowAll(c1, x)
      BY <3>1, <3>2, <2>1, <1>1, <1>6, <1>7, InsertKept, Zenon DEF c1
    <3>4. InRange(x, r2) \/ x < r2.start
      BY <3>2, <2>2, <1>3, <1>7 DEF InRange
    <3>5. c2[x] # NoRow \/ BelowAll(c2, x)
      BY <3>3, <3>4, <2>1, <1>6, <1>8, InsertKept, Zenon DEF c2
    <3>6. x < r3.start
      BY <3>2, <2>2, <1>2, <1>3, <1>7
    <3> QED BY <3>5, <3>6, <2>1, <1>6, <1>8, InsertKept, Zenon DEF c3
  <2> QED BY <2>3, <2>4
<1>15. NoSkip(queue', birthdays')
  <2>1. NoSkip(c1, birthdays)
    <3>1. ASSUME NEW x \in Accounts, NEW h \in Heights, h < r1.end,
                 \A g \in Heights : queue[g] # NoRow => g < h
          PROVE  FALSE
      <4>1. e - 1 \in s .. e - 1 /\ e - 1 \in Heights /\ h \in Int
        BY <1>2, <1>3, <1>4, MaxHeightAssumption DEF Heights
      <4>2. e - 1 < h
        BY <4>1, <3>1, <1>5
      <4> QED BY <4>1, <4>2, <3>1, <1>3, <1>7
    <3> QED BY <3>1, <1>1, <1>6, InsertNoSkip, Zenon DEF c1, IInv
  <2>2. NoSkip(c2, birthdays)
    <3>1. ASSUME NEW x \in Accounts, NEW h \in Heights, h < r2.end,
                 \A g \in Heights : c1[g] # NoRow => g < h
          PROVE  FALSE
      <4>1. s \in s .. e - 1 /\ h \in Int
        BY <1>2, <1>3, MaxHeightAssumption DEF Heights
      <4>2. c1[s] # NoRow
        BY <4>1, <1>5, <1>9
      <4> QED BY <4>1, <4>2, <3>1, <1>3, <1>7
    <3> QED BY <3>1, <2>1, <1>1, <1>6, <1>8, InsertNoSkip, Zenon DEF c2
  <2>3. NoSkip(c3, birthdays)
    <3>1. ASSUME NEW x \in Accounts, NEW h \in Heights, h < r3.end,
                 \A g \in Heights : c2[g] # NoRow => g < h
          PROVE  Wanted(c3, h)
      <4>1. e - 1 \in s .. e - 1 /\ e - 1 \in Heights /\ h \in Int
        BY <1>2, <1>3, <1>4, MaxHeightAssumption DEF Heights
      <4>2. c2[e - 1] # NoRow
        BY <4>1, <1>5, <1>9, <1>10
      <4>3. e - 1 < h
        BY <4>1, <4>2, <3>1
      <4>4. InRange(h, r3)
        BY <4>1, <4>3, <3>1, <1>3, <1>7 DEF InRange
      <4> QED BY <4>4, <1>6, <1>7, <1>8, <1>12, InsertInRange, ZenonT(40) DEF c3, Wanted
    <3> QED BY <3>1, <2>2, <1>1, <1>6, <1>8, InsertNoSkip, Zenon DEF c3
  <2> QED BY <2>3, <1>2
<1>16. TypeOK'
  BY <1>1, <1>2, <1>4, <1>8, SMTT(40) DEF TypeOK
<1>17. OwnIn(queue', blocks', birthdays')
  BY <1>1, <1>2, <1>4, <1>5, <1>9, <1>10, <1>11 DEF IInv, OwnIn, TypeOK
<1> QED BY <1>13, <1>14, <1>15, <1>16, <1>17 DEF IInv

-----------------------------------------------------------------------------
(* trim_scan_queue_to changes nothing up to the height.                    *)
LEMMA TrimSafe ==
    ASSUME NEW c \in Cells, NEW height \in Heights
    PROVE  /\ TrimCells(c, height) \in Cells
           /\ \A h \in Heights : h <= height => TrimCells(c, height)[h] = c[h]
           /\ \A h \in Heights : TrimCells(c, height)[h] # NoRow =>
                    h <= height /\ TrimCells(c, height)[h] = c[h]
  BY DEF TrimCells, Cells

(* Truncations keep the invariant.                                         *)
LEMMA TruncateToHeightSafe ==
    ASSUME IInv, NEW height \in Heights, TruncateToHeight(height)
    PROVE  IInv'
<1> DEFINE c == TrimCells(queue, height)
<1>1. queue \in Cells /\ TypeOK
  BY DEF IInv, TypeOK
<1>2. /\ queue' = c /\ blocks' = {h \in blocks : h <= height}
      /\ birthdays' = birthdays /\ shards' = shards
  BY DEF TruncateToHeight, TruncatedBlocks
<1>3. /\ c \in Cells
      /\ \A h \in Heights : h <= height => c[h] = queue[h]
      /\ \A h \in Heights : c[h] # NoRow => h <= height /\ c[h] = queue[h]
  BY <1>1, TrimSafe
<1> HIDE DEF c
<1>4. TypeOK'
  BY <1>1, <1>2, <1>3, SMTT(40) DEF TypeOK
<1>5. NoSkip(queue', birthdays')
  <2> SUFFICES ASSUME NEW a \in Accounts, NEW h \in Heights, NEW g \in Heights,
                      birthdays[a] # NoHeight, birthdays[a] <= h, h <= g, c[g] # NoRow
               PROVE  Wanted(c, h)
    BY <1>2 DEF NoSkip
  <2>1. h <= height
    <3>1. g <= height
      BY <1>3
    <3> QED BY <3>1, MaxHeightAssumption DEF Heights
  <2>2. queue[g] # NoRow
    BY <1>3
  <2> QED BY <2>1, <2>2, <1>3 DEF IInv, NoSkip, Wanted
<1>6. ScannedIn(queue', blocks')
  <2>1. Scanned # NoRow
    BY DEF Scanned, NoRow
  <2> QED BY <2>1, <1>2, <1>3 DEF IInv, ScannedIn
<1>7. KeptIn(queue', blocks')
  <2> SUFFICES ASSUME NEW b \in blocks, b <= height PROVE c[b] # NoRow \/ BelowAll(c, b)
    BY <1>2 DEF KeptIn
  <2>1. b \in Heights
    BY <1>1 DEF TypeOK
  <2>2. CASE queue[b] # NoRow
    BY <2>1, <2>2, <1>3
  <2>3. CASE BelowAll(queue, b)
    BY <2>3, <1>3 DEF BelowAll
  <2> QED BY <2>2, <2>3 DEF IInv, KeptIn
<1>8. OwnIn(queue', blocks', birthdays')
  BY <1>1, <1>2, <1>3 DEF IInv, OwnIn, TypeOK
<1> QED BY <1>4, <1>5, <1>6, <1>7, <1>8 DEF IInv

(* A rewind, as rewind_to_chain_state and add_account use it: what becomes *)
(* of the queue and the blocks for the birthdays known before.             *)
LEMMA RewoundSafe ==
    ASSUME IInv, TipKnown, NEW target \in Heights, NEW height \in Heights,
           TruncationHeight(target, height)
    PROVE  /\ RewoundQueue(target, height) \in Cells
           /\ RewoundBlocks(target, height) \subseteq blocks
           /\ NoSkip(RewoundQueue(target, height), birthdays)
           /\ ScannedIn(RewoundQueue(target, height), RewoundBlocks(target, height))
           /\ KeptIn(RewoundQueue(target, height), RewoundBlocks(target, height))
           /\ OwnIn(RewoundQueue(target, height), RewoundBlocks(target, height), birthdays)
           /\ \A b \in RewoundBlocks(target, height) :
                    target < b => RewoundQueue(target, height)[b] # NoRow
           /\ \A h \in Heights : RewoundQueue(target, height)[h] # NoRow => h <= Tip
           /\ \A h \in Heights : target < h /\ h <= Tip =>
                    Wanted(RewoundQueue(target, height), h)
           /\ target <= Tip => RewoundQueue(target, height)[Tip] # NoRow
<1> DEFINE trimmed == IF TruncationNeeded(target) THEN TrimCells(queue, height) ELSE queue
           rescan  == ScanRange(target + 1, Tip + 1, Historic)
           c       == IF target < Tip THEN InsertCells(trimmed, rescan, rescan, TRUE)
                      ELSE trimmed
           B       == RewoundBlocks(target, height)
<1>1. TypeOK /\ queue \in Cells /\ blocks \subseteq Heights
  BY DEF IInv, TypeOK
<1>2. RewoundQueue(target, height) = c
  BY DEF RewoundQueue
<1>3. B \subseteq blocks /\ (~TruncationNeeded(target) => B = blocks)
      /\ (TruncationNeeded(target) => B = {h \in blocks : h <= height})
  BY DEF RewoundBlocks, TruncatedBlocks
<1>4. Tip \in Heights \cup {NoHeight} /\ (Tip # NoHeight => queue[Tip] # NoRow)
  BY <1>1, TipIs DEF Tip
<1>5. \A g \in Heights : queue[g] # NoRow => g <= Tip
  BY <1>1, TipIs DEF Tip
<1>6. /\ Tip \in Int /\ target \in Int /\ height \in Int /\ \A h \in Heights : h \in Int
      /\ \A h \in Heights : h <= Tip => Tip \in Heights
  BY <1>4, MaxHeightAssumption DEF Heights, NoHeight
<1>7. target <= height
  <2>1. MaxScanned \in Heights \cup {NoHeight}
    BY <1>1, MaxOrNoneIs DEF MaxScanned
  <2>2. MaxScanned \in Int
    BY <2>1, MaxHeightAssumption DEF Heights, NoHeight
  <2>3. PRUNING_DEPTH \in Int
    BY ScanAssumption, SMTT(40)
  <2> QED BY <2>2, <2>3, <1>6 DEF TruncationHeight, TruncationTarget, Higher, SaturatingSub
<1>8. trimmed \in Cells /\ \A h \in Heights :
        /\ h <= target => trimmed[h] = queue[h]
        /\ trimmed[h] # NoRow => trimmed[h] = queue[h]
        /\ TruncationNeeded(target) /\ trimmed[h] # NoRow => h <= height
        /\ h <= height => trimmed[h] = queue[h]
        /\ ~TruncationNeeded(target) => trimmed[h] = queue[h]
  <2>1. CASE TruncationNeeded(target)
    <3>1. \A h \in Heights : h <= target => h <= height
      BY <1>6, <1>7
    <3> QED BY <3>1, <2>1, <1>1, TrimSafe
  <2>2. CASE ~TruncationNeeded(target)
    BY <2>2, <1>1
  <2> QED BY <2>1, <2>2
<1> HIDE DEF trimmed, c, B
<1>9. target < Tip => rescan \in Ranges
  BY <1>6 DEF Ranges, ScanRange, Priorities
<1>10. /\ rescan.start = target + 1 /\ rescan.end = Tip + 1 /\ rescan.priority = Historic
       /\ \A h \in Heights : InRange(h, rescan) <=> (target < h /\ h <= Tip)
  BY <1>6 DEF ScanRange, InRange
<1> HIDE DEF rescan
<1>11. c \in Cells
  BY <1>8, <1>9, InsertType, Zenon DEF c
<1>12. \A h \in Heights : c[h] # NoRow => h <= Tip
  <2> SUFFICES ASSUME NEW h \in Heights, c[h] # NoRow PROVE h <= Tip
    OBVIOUS
  <2>1. CASE target < Tip
    <3>1. h < rescan.end \/ \E g \in Heights : trimmed[g] # NoRow /\ h <= g
      BY <2>1, <1>8, <1>9, InsertBounds, Zenon DEF c
    <3>2. ASSUME NEW g \in Heights, trimmed[g] # NoRow, h <= g PROVE h <= Tip
      <4>1. g <= Tip
        BY <3>2, <1>5, <1>8
      <4> QED BY <4>1, <3>2, <1>6
    <3> QED BY <3>1, <3>2, <1>6, <1>10
  <2>2. CASE ~(target < Tip)
    BY <2>2, <1>5, <1>8 DEF c
  <2> QED BY <2>1, <2>2
<1>13. \A h \in Heights : target < h /\ h <= Tip => Wanted(c, h)
  <2> SUFFICES ASSUME NEW h \in Heights, target < h, h <= Tip PROVE Wanted(c, h)
    OBVIOUS
  <2>1. target < Tip
    BY <1>6
  <2>2. InRange(h, rescan)
    BY <1>10
  <2>3. Historic # Ignored
    BY DEF Historic, Ignored
  <2>4. c = InsertCells(trimmed, rescan, rescan, TRUE)
    BY <2>1 DEF c
  <2> QED BY <2>1, <2>2, <2>3, <2>4, <1>8, <1>9, <1>10, InsertInRange, Zenon DEF Wanted
<1>14. \A h \in Heights : trimmed[h] # NoRow =>
            c[h] # NoRow /\ (trimmed[h] # Ignored => c[h] # Ignored)
  BY <1>8, <1>9, InsertKeeps, ZenonT(40) DEF c
<1>15. NoSkip(c, birthdays)
  <2> SUFFICES ASSUME NEW a \in Accounts, NEW h \in Heights, NEW g \in Heights,
                      birthdays[a] # NoHeight, birthdays[a] <= h, h <= g, c[g] # NoRow
               PROVE  Wanted(c, h)
    BY DEF NoSkip
  <2>1. g <= Tip
    BY <1>12
  <2>2. h <= Tip
    BY <2>1, <1>6
  <2>3. CASE target < h
    BY <2>2, <2>3, <1>13
  <2>4. CASE h <= target
    <3>1. Wanted(queue, h)
      <4>1. Tip \in Heights /\ Tip # NoHeight
        <5>1. h \in 0 .. MaxHeight
          BY Zenon DEF Heights
        <5> QED BY <5>1, <2>2, <1>6, MaxHeightAssumption DEF Heights, NoHeight
      <4>2. queue[Tip] # NoRow
        BY <4>1, <1>4, Zenon
      <4> QED BY <4>1, <4>2, <2>2 DEF IInv, NoSkip
    <3> QED BY <3>1, <2>4, <1>8, <1>14, Zenon DEF Wanted
  <2> QED BY <2>3, <2>4, <1>6
<1>16. ScannedIn(c, B)
  <2> SUFFICES ASSUME NEW h \in Heights, c[h] = Scanned PROVE h \in B
    BY DEF ScannedIn
  <2>1. trimmed[h] = Scanned
    <3>1. Historic # Scanned
      BY DEF Historic, Scanned
    <3> QED BY <3>1, <1>8, <1>9, <1>10, InsertScanned, Zenon DEF c
  <2>2. Scanned # NoRow
    BY DEF Scanned, NoRow
  <2>3. h \in blocks
    BY <2>1, <2>2, <1>8 DEF IInv, ScannedIn
  <2> QED BY <2>1, <2>2, <2>3, <1>3, <1>8
<1>17. KeptIn(c, B)
  <2> SUFFICES ASSUME NEW b \in B PROVE c[b] # NoRow \/ BelowAll(c, b)
    BY DEF KeptIn
  <2>1. b \in Heights /\ b \in blocks
    BY <1>1, <1>3
  <2>2. b <= Tip
    BY <2>1, BlocksBelowKnownTip
  <2>3. CASE target < b
    BY <2>1, <2>2, <2>3, <1>13 DEF Wanted
  <2>4. CASE b <= target /\ queue[b] # NoRow
    BY <2>1, <2>4, <1>8, <1>14
  <2>5. CASE b <= target /\ BelowAll(queue, b)
    <3>2. ASSUME NEW g \in Heights, c[g] # NoRow PROVE b < g
      <4>1. target < g \/ \E f \in Heights : trimmed[f] # NoRow /\ f <= g
        <5>1. CASE target < Tip
          <6>1. rescan.start <= g \/ \E f \in Heights : trimmed[f] # NoRow /\ f <= g
            BY <5>1, <3>2, <1>8, <1>9, InsertBounds, Zenon DEF c
          <6> QED BY <6>1, <1>6, <1>10, SMTT(40)
        <5>2. CASE ~(target < Tip)
          BY <5>2, <3>2, <1>6 DEF c
        <5> QED BY <5>1, <5>2
      <4>2. CASE target < g
        BY <4>2, <2>1, <2>5, <1>6
      <4>3. ASSUME NEW f \in Heights, trimmed[f] # NoRow, f <= g PROVE b < g
        <5>1. b < f
          BY <4>3, <2>5, <1>8 DEF BelowAll
        <5> QED BY <5>1, <4>3, <2>1, <1>6
      <4> QED BY <4>1, <4>2, <4>3
    <3> QED BY <3>2 DEF BelowAll
  <2>6. queue[b] # NoRow \/ BelowAll(queue, b)
    BY <2>1 DEF IInv, KeptIn
  <2> QED BY <2>1, <2>3, <2>4, <2>5, <2>6, <1>6
<1>18. target <= Tip => c[Tip] # NoRow
  <2> SUFFICES ASSUME target <= Tip PROVE c[Tip] # NoRow
    OBVIOUS
  <2>1. Tip \in Heights /\ Tip # NoHeight
    BY <1>6, MaxHeightAssumption DEF Heights, NoHeight
  <2>2. CASE target < Tip
    BY <2>1, <2>2, <1>6, <1>13, SMTT(40) DEF Wanted
  <2>3. CASE target = Tip
    BY <2>1, <2>3, <1>4, <1>6, <1>8, <1>14
  <2> QED BY <2>2, <2>3, <1>6
<1>19. \A b \in B : target < b => c[b] # NoRow
  BY <1>1, <1>3, <1>13, BlocksBelowKnownTip DEF Wanted
<1>20. OwnIn(c, B, birthdays)
  <2> SUFFICES ASSUME NEW b \in B, NEW a \in Accounts,
                      birthdays[a] # NoHeight, birthdays[a] <= b
               PROVE  c[b] # NoRow
    BY DEF OwnIn
  <2>1. b \in Heights /\ b \in blocks /\ queue[b] # NoRow
    BY <1>1, <1>3 DEF IInv, OwnIn
  <2>2. CASE target < b
    BY <2>2, <1>19
  <2>3. CASE b <= target
    BY <2>1, <2>3, <1>8, <1>14, SMTT(40)
  <2> QED BY <2>1, <2>2, <2>3, <1>6
<1> QED
  BY <1>2, <1>3, <1>11, <1>12, <1>13, <1>15, <1>16, <1>17, <1>18, <1>19, <1>20, SMTT(40) DEF B

(* rewind_to_chain_state keeps the invariant, the lowered birthdays        *)
(* included: everything above the target is queued up to the tip.          *)
LEMMA RewindToChainStateSafe ==
    ASSUME StaleTip = FALSE, IInv, NEW target \in Heights, NEW height \in Heights,
           NEW reset \in SUBSET Accounts, RewindToChainState(target, height, reset)
    PROVE  IInv'
<1> DEFINE c == RewoundQueue(target, height)
           B == RewoundBlocks(target, height)
<1>1. TypeOK /\ blocks \subseteq Heights
  BY DEF IInv, TypeOK
<1>2. /\ TruncationHeight(target, height) /\ queue' = c /\ blocks' = B /\ shards' = shards
      /\ birthdays' = [a \in Accounts |->
                        IF a \in reset THEN Lower(birthdays[a], target + 1)
                        ELSE birthdays[a]]
      /\ (\A a \in reset : birthdays[a] # NoHeight) /\ TipKnown
  BY SMTT(40) DEF RewindToChainState, ResetBirthdays
<1>3. /\ c \in Cells /\ B \subseteq blocks /\ NoSkip(c, birthdays) /\ ScannedIn(c, B)
      /\ KeptIn(c, B) /\ OwnIn(c, B, birthdays) /\ \A b \in B : target < b => c[b] # NoRow
  BY <1>2, RewoundSafe, ZenonT(40)
<1>4. \A h \in Heights : c[h] # NoRow => h <= Tip
  BY <1>2, RewoundSafe, ZenonT(40)
<1>5. \A h \in Heights : target < h /\ h <= Tip => Wanted(c, h)
  BY <1>2, RewoundSafe, Zenon
<1> HIDE DEF c, B
<1>6. \A a \in Accounts : birthdays'[a] \in Heights \cup {NoHeight}
  <2> SUFFICES ASSUME NEW a \in Accounts PROVE birthdays'[a] \in Heights \cup {NoHeight}
    OBVIOUS
  <2>1. birthdays[a] \in Heights \cup {NoHeight}
    BY <1>1 DEF TypeOK
  <2>2. CASE a \in reset
    <3>1. birthdays[a] \in Heights /\ birthdays'[a] = Lower(birthdays[a], target + 1)
      BY <2>1, <2>2, <1>2
    <3> QED BY <3>1, MaxHeightAssumption DEF Heights, Lower
  <2>3. CASE a \notin reset
    BY <2>1, <2>3, <1>2, SMTT(40)
  <2> QED BY <2>2, <2>3
<1>7. TypeOK'
  BY <1>1, <1>2, <1>3, <1>6 DEF TypeOK
<1>8. NoSkip(queue', birthdays')
  <2> SUFFICES ASSUME NEW a \in Accounts, NEW h \in Heights, NEW g \in Heights,
                      birthdays'[a] # NoHeight, birthdays'[a] <= h, h <= g, c[g] # NoRow
               PROVE  Wanted(c, h)
    BY <1>2, SMTT(40) DEF NoSkip
  <2>1. CASE birthdays'[a] = birthdays[a]
    BY <2>1, <1>3 DEF NoSkip
  <2>2. CASE birthdays'[a] = target + 1
    <3>1. g <= Tip
      BY <1>4
    <3>2. Tip \in Int /\ h \in Int /\ g \in Int /\ target \in Int
      <4>1. Tip \in Heights \cup {NoHeight}
        BY <1>1, TipIs DEF Tip, TypeOK
      <4> QED BY <4>1, MaxHeightAssumption, SMTT(40) DEF Heights, NoHeight
    <3>3. target < h /\ h <= Tip
      BY <2>2, <3>1, <3>2
    <3> QED BY <3>3, <1>5
  <2> QED BY <2>1, <2>2, <1>2 DEF Lower
<1>9. OwnIn(queue', blocks', birthdays')
  <2> SUFFICES ASSUME NEW b \in B, NEW a \in Accounts,
                      birthdays'[a] # NoHeight, birthdays'[a] <= b
               PROVE  c[b] # NoRow
    BY <1>2 DEF OwnIn
  <2>1. CASE birthdays'[a] = birthdays[a]
    BY <2>1, <1>3 DEF OwnIn
  <2>2. CASE birthdays'[a] = target + 1
    <3>1. b \in Int /\ target \in Int
      BY <1>1, <1>3, HeightsAreNat
    <3>2. target < b
      BY <2>2, <3>1
    <3> QED BY <3>2, <1>3
  <2> QED BY <2>1, <2>2, <1>2 DEF Lower
<1> QED BY <1>2, <1>3, <1>7, <1>8, <1>9 DEF IInv

(* add_account keeps the invariant: below the new birthday the ignored     *)
(* range only fills heights that no other account asks for.                *)
LEMMA AddAccountSafe ==
    ASSUME StaleTip = FALSE, IInv, NEW a \in Accounts, NEW b \in Heights,
           NEW height \in Heights, AddAccount(a, b, height)
    PROVE  IInv'
<1> DEFINE c == RewoundQueue(b - 1, height)
           B == RewoundBlocks(b - 1, height)
           r == ScanRange(SaplingActivation, b, Ignored)
           d == IF SaplingActivation < b THEN InsertCells(c, r, r, FALSE) ELSE c
           bd == [birthdays EXCEPT ![a] = b]
<1>1. TypeOK /\ blocks \subseteq Heights
      /\ birthdays \in [Accounts -> Heights \cup {NoHeight}]
  BY DEF IInv, TypeOK
<1>2. /\ TruncationHeight(b - 1, height) /\ queue' = d /\ blocks' = B
      /\ shards' = shards /\ birthdays' = bd /\ 0 < b
      /\ KnownBirthdays = {} \/ b <= Tip + 1
      /\ SaplingActivation <= b /\ TipKnown
  BY DEF AddAccount, AccountQueue
<1>3. b - 1 \in Heights
  BY <1>2, MaxHeightAssumption, SMTT(40) DEF Heights
<1>4. /\ c \in Cells /\ B \subseteq blocks /\ NoSkip(c, birthdays) /\ ScannedIn(c, B)
      /\ KeptIn(c, B) /\ OwnIn(c, B, birthdays) /\ \A x \in B : b - 1 < x => c[x] # NoRow
  BY <1>2, <1>3, RewoundSafe, SMTT(40)
<1>5. \A h \in Heights : c[h] # NoRow => h <= Tip
  BY <1>2, <1>3, RewoundSafe, SMTT(40)
<1>6. \A h \in Heights : b - 1 < h /\ h <= Tip => Wanted(c, h)
  BY <1>2, <1>3, RewoundSafe, SMTT(40)
<1>7. b - 1 <= Tip => c[Tip] # NoRow
  BY <1>2, <1>3, RewoundSafe
<1>8. /\ Tip \in Int /\ b \in Int /\ \A h \in Heights : h \in Int
      /\ Tip \in Heights \cup {NoHeight}
  <2>1. Tip \in Heights \cup {NoHeight}
    BY <1>1, TipIs DEF Tip, TypeOK
  <2> QED BY <2>1, MaxHeightAssumption DEF Heights, NoHeight
<1>9. SaplingActivation < b => r \in Ranges
  <2>1. SaplingActivation \in Int
    BY <1>8, ScanAssumption
  <2> QED BY <2>1, <1>8 DEF Ranges, ScanRange, Priorities
<1>10. r.start = SaplingActivation /\ r.end = b /\ r.priority = Ignored
  BY DEF ScanRange
<1>11. bd \in [Accounts -> Heights \cup {NoHeight}]
       /\ \A x \in Accounts : bd[x] = IF x = a THEN b ELSE birthdays[x]
  BY <1>1
<1> HIDE DEF c, B, r, d, bd
<1>12. d \in Cells
  BY <1>4, <1>9, InsertType, Zenon DEF d
<1>13. TypeOK'
  BY <1>1, <1>2, <1>4, <1>11, <1>12 DEF TypeOK
<1>14. NoSkip(c, bd)
  <2> SUFFICES ASSUME NEW x \in Accounts, NEW h \in Heights, NEW g \in Heights,
                      bd[x] # NoHeight, bd[x] <= h, h <= g, c[g] # NoRow
               PROVE  Wanted(c, h)
    BY DEF NoSkip
  <2>1. CASE x = a
    <3>1. b <= h /\ g <= Tip
      BY <2>1, <1>5, <1>11
    <3>2. b - 1 < h /\ h <= Tip
      BY <3>1, <1>8
    <3> QED BY <3>2, <1>6
  <2>2. CASE x # a
    BY <2>2, <1>4, <1>11 DEF NoSkip
  <2> QED BY <2>1, <2>2
<1>15. NoSkip(d, bd)
  <2>1. CASE ~(SaplingActivation < b)
    BY <2>1, <1>14, SMTT(40) DEF d
  <2>2. CASE SaplingActivation < b
    <3>1. ASSUME NEW x \in Accounts, NEW h \in Heights, bd[x] # NoHeight,
                 bd[x] <= h, h < r.end, \A g \in Heights : c[g] # NoRow => g < h
          PROVE  FALSE
      <4>1. h < b /\ h \in Int
        BY <3>1, <1>8, <1>10
      <4>2. x # a
        BY <4>1, <3>1, <1>8, <1>11
      <4>3. KnownBirthdays # {}
        BY <4>2, <3>1, <1>1, <1>11, BirthdayIs
      <4>4. b <= Tip + 1
        BY <4>3, <1>2
      <4>5. Tip \in Heights /\ b - 1 <= Tip
        BY <4>4, <1>2, <1>8 DEF NoHeight
      <4>6. Tip < h
        BY <4>5, <3>1, <1>7
      <4> QED BY <4>1, <4>4, <4>6, <1>8
    <3>2. d = InsertCells(c, r, r, FALSE) /\ r \in Ranges
      BY <2>2, <1>9 DEF d
    <3>3. \A x \in Accounts, h \in Heights :
            /\ bd[x] # NoHeight /\ bd[x] <= h /\ h < r.end
            /\ \A g \in Heights : c[g] # NoRow => g < h
            => Wanted(InsertCells(c, r, r, FALSE), h)
      BY <3>1, SMTT(40)
    <3> QED BY <3>2, <3>3, <1>4, <1>11, <1>14, InsertNoSkip, Zenon
  <2> QED BY <2>1, <2>2
<1>16. ScannedIn(d, B)
  <2>1. Ignored # Scanned
    BY DEF Ignored, Scanned
  <2> QED BY <2>1, <1>4, <1>9, <1>10, InsertScanned, Zenon DEF d, ScannedIn
<1>17. KeptIn(d, B)
  <2> SUFFICES ASSUME NEW x \in B PROVE d[x] # NoRow \/ BelowAll(d, x)
    BY DEF KeptIn
  <2>1. x \in Heights /\ x \in blocks /\ x \in Int
    BY <1>1, <1>4, <1>8
  <2>2. x <= Tip
    BY <2>1, <1>2, BlocksBelowKnownTip
  <2>3. c[x] # NoRow \/ BelowAll(c, x)
    BY <1>4 DEF KeptIn
  <2>4. CASE ~(SaplingActivation < b)
    BY <2>3, <2>4, SMTT(40) DEF d
  <2>5. CASE SaplingActivation < b
    <3>1. c[x] # NoRow \/ InRange(x, r) \/ x < r.start
      <4>1. CASE b <= x
        <5>1. b - 1 < x
          BY <4>1, <2>1, <1>8
        <5> QED BY <5>1, <2>1, <2>2, <1>6 DEF Wanted
      <4>2. CASE x < b
        <5>1. SaplingActivation \in Int
          BY <1>8, ScanAssumption
        <5> QED BY <5>1, <4>2, <2>1, <1>10 DEF InRange
      <4> QED BY <4>1, <4>2, <2>1, <1>8
    <3> QED BY <3>1, <2>1, <2>3, <2>5, <1>4, <1>9, InsertKept, Zenon DEF d
  <2> QED BY <2>4, <2>5
<1>18. OwnIn(d, B, bd)
  <2> SUFFICES ASSUME NEW x \in B, NEW y \in Accounts, bd[y] # NoHeight, bd[y] <= x
               PROVE  d[x] # NoRow
    BY DEF OwnIn
  <2>1. x \in Heights /\ x \in Int
    BY <1>1, <1>4, <1>8
  <2>2. c[x] # NoRow
    <3>1. CASE y = a
      <4>1. b - 1 < x
        BY <3>1, <2>1, <1>8, <1>11
      <4> QED BY <4>1, <1>4
    <3>2. CASE y # a
      BY <3>2, <1>4, <1>11 DEF OwnIn
    <3> QED BY <3>1, <3>2
  <2> QED BY <2>1, <2>2, <1>4, <1>9, InsertKeeps, Zenon DEF d
<1> QED BY <1>2, <1>13, <1>15, <1>16, <1>17, <1>18 DEF IInv

(* delete_account keeps the invariant.                                     *)
LEMMA DeleteAccountSafe ==
    ASSUME IInv, NEW a \in Accounts, DeleteAccount(a)
    PROVE  IInv'
<1>1. /\ queue' = queue /\ blocks' = blocks /\ shards' = shards
      /\ birthdays' = [birthdays EXCEPT ![a] = NoHeight]
  BY DEF DeleteAccount
<1>2. TypeOK'
  BY <1>1 DEF IInv, TypeOK
<1>3. \A x \in Accounts : birthdays'[x] # NoHeight => birthdays'[x] = birthdays[x]
  BY <1>1 DEF IInv, TypeOK
<1>4. NoSkip(queue', birthdays')
  BY <1>1, <1>3 DEF IInv, NoSkip
<1>5. OwnIn(queue', blocks', birthdays')
  BY <1>1, <1>3 DEF IInv, OwnIn
<1> QED BY <1>1, <1>2, <1>4, <1>5 DEF IInv

(* Pruning at or below the wallet birthday keeps the invariant.            *)
LEMMA PruneScanQueueBelowSafe ==
    ASSUME IInv, NEW height \in Heights, NEW retain \in RetainPriorities,
           PruneScanQueueBelow(height, retain)
    PROVE  IInv'
<1> DEFINE c == PruneCells(queue, height, retain)
<1>1. TypeOK /\ queue \in Cells /\ blocks \subseteq Heights
      /\ birthdays \in [Accounts -> Heights \cup {NoHeight}]
  BY DEF IInv, TypeOK
<1>2. /\ queue' = c /\ blocks' = blocks /\ birthdays' = birthdays /\ shards' = shards
      /\ height <= WalletBirthday /\ KnownBirthdays # {}
  BY DEF PruneScanQueueBelow
<1>3. c \in Cells
  BY <1>1 DEF PruneCells, Cells, StoredPriorities, Priorities, Ignored, LatestPoolActivation
<1>4. \A h \in Heights : height <= h => c[h] = queue[h]
  BY DEF PruneCells
<1>5. \A h \in Heights : c[h] # NoRow => queue[h] # NoRow
  BY DEF PruneCells
<1>6. \A h \in Heights : c[h] = Scanned => queue[h] = Scanned
  BY DEF PruneCells, Scanned, Ignored, NoRow
<1>7. \A h \in Heights : queue[h] # NoRow /\ c[h] = NoRow =>
        ~IsRetained(queue[h], retain) /\ ~FloorBelow(queue, h, height, retain)
            /\ ~(height <= h)
  BY DEF PruneCells, Ignored, NoRow
<1>8. \A h \in Heights : c[h] # NoRow /\ ~(height <= h) =>
        IsRetained(queue[h], retain) \/ FloorBelow(queue, h, height, retain)
  BY DEF PruneCells
<1> HIDE DEF c
<1>9. \A h \in Heights : h \in Int
  BY MaxHeightAssumption DEF Heights
<1>11. NoSkip(queue', birthdays')
  <2> SUFFICES ASSUME NEW a \in Accounts, NEW h \in Heights, NEW g \in Heights,
                      birthdays[a] # NoHeight, birthdays[a] <= h, h <= g, c[g] # NoRow
               PROVE  Wanted(c, h)
    BY <1>2 DEF NoSkip
  <2>1. WalletBirthday <= birthdays[a] /\ WalletBirthday \in Heights
    BY <1>1, BirthdayIs
  <2>2. birthdays[a] \in Heights
    BY <1>1
  <2>3. height <= h
    BY <2>1, <2>2, <1>2, <1>9, SMTT(40)
  <2>4. Wanted(queue, h)
    BY <1>5, SMTT(40) DEF IInv, NoSkip
  <2> QED BY <2>3, <2>4, <1>4 DEF Wanted
<1>12. ScannedIn(queue', blocks')
  BY <1>2, <1>6, SMTT(40) DEF IInv, ScannedIn
<1>13. KeptIn(queue', blocks')
  <2> SUFFICES ASSUME NEW b \in blocks, c[b] = NoRow PROVE BelowAll(c, b)
    BY <1>2 DEF KeptIn
  <2>1. b \in Heights
    BY <1>1, SMTT(40)
  <2>2. CASE queue[b] = NoRow
    BY <2>2, <1>5 DEF IInv, KeptIn, BelowAll
  <2>3. CASE queue[b] # NoRow
    <3>1. ASSUME NEW g \in Heights, c[g] # NoRow, ~(b < g) PROVE FALSE
      <4>1. ~(height <= b) /\ ~FloorBelow(queue, b, height, retain)
        BY <2>1, <2>3, <1>7
      <4>2. g < b /\ ~(height <= g)
        BY <4>1, <3>1, <2>1, <1>9, SMTT(40)
      <4>3. CASE IsRetained(queue[g], retain)
        <5>1. g < height /\ queue[g] # NoRow
          BY <4>2, <3>1, <1>5, <1>9, SMTT(40)
        <5> QED BY <5>1, <4>1, <4>2, <4>3, SMTT(40) DEF FloorBelow
      <4>4. CASE FloorBelow(queue, g, height, retain)
        <5>1. PICK f \in Heights : /\ f < g /\ f < height
                                   /\ queue[f] # NoRow /\ IsRetained(queue[f], retain)
          BY <4>4 DEF FloorBelow
        <5>2. f < b
          BY <5>1, <4>2, <2>1, <1>9
        <5> QED BY <5>1, <5>2, <4>1, SMTT(40) DEF FloorBelow
      <4> QED BY <4>2, <4>3, <4>4, <3>1, <1>8, Zenon
    <3> QED BY <3>1 DEF BelowAll
  <2> QED BY <2>2, <2>3
<1>14. TypeOK'
  BY <1>1, <1>2, <1>3 DEF TypeOK
<1>15. OwnIn(queue', blocks', birthdays')
  <2> SUFFICES ASSUME NEW b \in blocks, NEW a \in Accounts,
                      birthdays[a] # NoHeight, birthdays[a] <= b
               PROVE  c[b] # NoRow
    BY <1>2 DEF OwnIn
  <2>1. WalletBirthday <= birthdays[a] /\ WalletBirthday \in Heights
    BY <1>1, BirthdayIs
  <2>2. birthdays[a] \in Heights /\ b \in Heights /\ queue[b] # NoRow
    BY <1>1 DEF IInv, OwnIn
  <2>3. height <= b
    BY <2>1, <2>2, <1>2, <1>9
  <2> QED BY <2>2, <2>3, <1>4
<1> QED BY <1>11, <1>12, <1>13, <1>14, <1>15 DEF IInv

(* queue_rescans keeps the invariant.                                      *)
LEMMA QueueRescansSafe ==
    ASSUME IInv, NEW s \in Heights, NEW e \in 1 .. MaxHeight + 1,
           NEW p \in RescanPriorities, QueueRescans(s, e, p)
    PROVE  IInv'
<1> DEFINE r == ScanRange(s, e, p)
           c == InsertCells(queue, r, r, TRUE)
<1>1. TypeOK /\ queue \in Cells /\ blocks \subseteq Heights
      /\ birthdays \in [Accounts -> Heights \cup {NoHeight}]
  BY DEF IInv, TypeOK
<1>2. /\ queue' = c /\ blocks' = blocks /\ birthdays' = birthdays /\ shards' = shards
      /\ s < e /\ \A h \in s .. e - 1 : h \in Heights /\ queue[h] # NoRow
  BY DEF QueueRescans, Covered
<1>3. s \in Int /\ e \in Int /\ p \in Priorities /\ p # Scanned
  BY ScanAssumption, MaxHeightAssumption DEF Heights, Historic, Scanned
<1>4. r \in Ranges /\ r.start = s /\ r.end = e /\ r.priority = p
  BY <1>2, <1>3 DEF Ranges, ScanRange
<1> HIDE DEF r
<1>5. c \in Cells
  BY <1>1, <1>4, InsertType, Zenon
<1> HIDE DEF c
<1>6. s \in s .. e - 1 /\ e - 1 \in s .. e - 1
  BY <1>2, <1>3
<1>7. \A h \in Heights : h \in Int
  BY MaxHeightAssumption DEF Heights
<1>8. NoSkip(queue', birthdays')
  <2>1. ASSUME NEW h \in Heights, h < r.end,
               \A g \in Heights : queue[g] # NoRow => g < h
        PROVE  FALSE
    <3>1. e - 1 < h
      BY <2>1, <1>2, <1>6
    <3> QED BY <3>1, <2>1, <1>3, <1>4, <1>7
  <2> QED BY <2>1, <1>1, <1>2, <1>4, InsertNoSkip, Zenon DEF IInv, c
<1>9. ScannedIn(queue', blocks')
  BY <1>1, <1>2, <1>3, <1>4, InsertScanned, Zenon DEF IInv, ScannedIn, c
<1>10. KeptIn(queue', blocks')
  <2> SUFFICES ASSUME NEW b \in blocks PROVE c[b] # NoRow \/ BelowAll(c, b)
    BY <1>2 DEF KeptIn
  <2>1. b \in Heights /\ (queue[b] # NoRow \/ BelowAll(queue, b))
    BY <1>1 DEF IInv, KeptIn
  <2>2. BelowAll(queue, b) => b < s
    BY <1>2, <1>6 DEF BelowAll
  <2> QED BY <2>1, <2>2, <1>1, <1>4, InsertKept, Zenon DEF c
<1>11. TypeOK'
  BY <1>1, <1>2, <1>5 DEF TypeOK
<1>12. OwnIn(queue', blocks', birthdays')
  BY <1>1, <1>2, <1>4, InsertKeeps, Zenon DEF IInv, OwnIn, c
<1> QED BY <1>8, <1>9, <1>10, <1>11, <1>12 DEF IInv

(* New subtree roots leave the queue and the blocks alone.                 *)
LEMMA PutSubtreeRootSafe ==
    ASSUME IInv, NEW p \in Pools, NEW end \in Heights, PutSubtreeRoot(p, end)
    PROVE  IInv'
<1>1. /\ queue' = queue /\ blocks' = blocks /\ birthdays' = birthdays
      /\ shards' = [shards EXCEPT ![p] = @ \cup {end}]
  BY DEF PutSubtreeRoot
<1>2. TypeOK'
  BY <1>1, SMTT(40) DEF IInv, TypeOK
<1> QED BY <1>1, <1>2 DEF IInv

-----------------------------------------------------------------------------
(* Every step of the wallet preserves the inductive invariant, as long as  *)
(* no account is added with a birthday above the known tip.                *)
LEMMA NextIInv ==
    ASSUME StaleTip = FALSE, IInv, [Next]_vars
    PROVE  IInv'
<1>1. CASE \E t \in Heights : UpdateChainTip(t)
  BY <1>1, UpdateChainTipSafe
<1>2. CASE \E s \in Heights, e \in 1 .. MaxHeight + 1 :
                \E found \in SUBSET SubtreesOf(s, e) : PutBlocks(s, e, found)
  BY <1>2, PutBlocksSafe
<1>3. CASE \E p \in Pools, end \in Heights : PutSubtreeRoot(p, end)
  BY <1>3, PutSubtreeRootSafe
<1>4. CASE \E height \in Heights : TruncateToHeight(height)
  BY <1>4, TruncateToHeightSafe
<1>5. CASE \E target, height \in Heights, reset \in SUBSET Accounts :
                RewindToChainState(target, height, reset)
  BY <1>5, RewindToChainStateSafe, Zenon
<1>6. CASE \E a \in Accounts, b, height \in Heights : AddAccount(a, b, height)
  BY <1>6, AddAccountSafe, Zenon
<1>7. CASE \E a \in Accounts : DeleteAccount(a)
  BY <1>7, DeleteAccountSafe
<1>8. CASE \E height \in Heights, retain \in RetainPriorities :
                PruneScanQueueBelow(height, retain)
  BY <1>8, PruneScanQueueBelowSafe
<1>9. CASE \E s \in Heights, e \in 1 .. MaxHeight + 1, p \in RescanPriorities :
                QueueRescans(s, e, p)
  BY <1>9, QueueRescansSafe
<1>10. CASE UNCHANGED vars
  BY <1>10 DEF vars, IInv, TypeOK
<1> QED
  BY <1>1, <1>2, <1>3, <1>4, <1>5, <1>6, <1>7, <1>8, <1>9, <1>10 DEF Next

(* The inductive invariant holds throughout.                               *)
LEMMA IInvAlways ==
    ASSUME StaleTip = FALSE
    PROVE  Spec => []IInv
<1>1. Init => IInv
  BY InitIInv
<1>2. IInv /\ [Next]_vars => IInv'
  BY NextIInv
<1> QED BY <1>1, <1>2, PTL DEF Spec

(* The scanning state keeps its types: the priorities stored, the blocks,  *)
(* the birthdays and the subtrees of every pool.                           *)
THEOREM TypeCorrect ==
    ASSUME StaleTip = FALSE
    PROVE  Spec => []TypeOK
<1>1. Spec => []IInv
  BY IInvAlways
<1>2. IInv => TypeOK
  BY DEF IInv
<1> QED BY <1>1, <1>2, PTL

(* No block is lost: whatever the order of tip updates, scanned batches,   *)
(* truncations, rewinds, imports, deletions, pruning and rescans, every    *)
(* height from a birthday to the tip is scanned or waits to be.            *)
THEOREM BlocksAreNotSkipped ==
    ASSUME StaleTip = FALSE
    PROVE  Spec => []NothingSkipped
<1>1. Spec => []IInv
  BY IInvAlways
<1>2. IInv => NothingSkipped
  BY IInvImplies
<1> QED BY <1>1, <1>2, PTL

(* A height counts as scanned only while its block is stored.              *)
THEOREM ScannedBlocksAreStored ==
    ASSUME StaleTip = FALSE
    PROVE  Spec => []ScannedIsStored
<1>1. Spec => []IInv
  BY IInvAlways
<1>2. IInv => ScannedIsStored
  BY IInvImplies
<1> QED BY <1>1, <1>2, PTL

(* A stored block is queued or lies below the whole queue, so the tip that *)
(* the queue reports, while there is one, is never below a stored block.   *)
THEOREM BlocksStayQueued ==
    ASSUME StaleTip = FALSE
    PROVE  Spec => []BlocksQueuedOrPruned
<1>1. Spec => []IInv
  BY IInvAlways
<1>2. IInv => BlocksQueuedOrPruned
  BY IInvImplies, SMTT(40)
<1> QED BY <1>1, <1>2, PTL

-----------------------------------------------------------------------------
(* An unforced insertion leaves a scanned height scanned, unless it is a   *)
(* Verify range over that height.                                          *)
LEMMA InsertLeavesScanned ==
    ASSUME NEW c \in Cells, NEW r \in Ranges, NEW q \in Ranges, NEW h \in Heights,
           c[h] = Scanned, InRange(h, r) => r.priority # Verify
    PROVE  InsertCells(c, r, q, FALSE)[h] = Scanned
<1>1. r.priority \in Priorities
  BY SMTT(40) DEF Ranges
<1> QED
  BY <1>1 DEF InsertCells, Dominance, Stored, Priorities, Ignored, Scanned, Historic,
     LatestPoolActivation, OpenAdjacent, FoundNote, ChainTip, Verify, NoRow

(* update_chain_tip queues no scanned block again: its Verify range starts *)
(* above the scanned blocks.                                               *)
LEMMA TipLeavesScanned ==
    ASSUME IInv, NEW t \in Heights, UpdateChainTip(t), NEW h \in Heights,
           queue[h] = Scanned
    PROVE  queue'[h] = Scanned
<1> DEFINE e1 == TipShardEntry(t)
           e2 == TipEntry(t)
           q  == TipQuery(t)
           c1 == IF HasTipShard(t) THEN InsertCells(queue, e1, q, FALSE) ELSE queue
           c2 == InsertCells(c1, e2, q, FALSE)
<1>1. TypeOK /\ queue \in Cells /\ blocks \subseteq Heights
  BY DEF IInv, TypeOK
<1>2. SaplingActivation <= t /\ MaxScanned <= t /\ WalletBirthday <= t + 1
  BY DEF UpdateChainTip
<1>3. queue' = c2
  BY Zenon DEF UpdateChainTip, TipQueue, ReplaceTwo
<1>4. /\ e2 \in Ranges /\ q \in Ranges /\ (HasTipShard(t) => e1 \in Ranges)
      /\ e1.priority = ChainTip
  BY <1>1, <1>2, TipRanges
<1>5. h \in blocks /\ h <= MaxScanned
  <2>1. h \in blocks
    BY DEF IInv, ScannedIn
  <2> QED BY <2>1, <1>1, MaxOrNoneIs DEF MaxScanned
<1>6. ~InRange(h, e2)
  <2>1. MaxScanned \in Int /\ h \in Int
    <3>1. MaxScanned \in Heights
      BY <1>5, <1>1, MaxOrNoneIs, SMTT(40) DEF MaxScanned
    <3> QED BY <3>1, MaxHeightAssumption DEF Heights
  <2>2. e2.start = MaxScanned + 1
    BY <1>5, SMTT(40) DEF TipEntry, ConnectingEntry, ScanRange
  <2> QED BY <2>1, <2>2, <1>5 DEF InRange
<1> HIDE DEF e1, e2, q
<1>7. c1 \in Cells
  BY <1>1, <1>4, InsertType, Zenon
<1>8. c1[h] = Scanned
  <2>1. ChainTip # Verify
    BY DEF ChainTip, Verify
  <2>2. CASE HasTipShard(t)
    <3>1. e1 \in Ranges /\ e1.priority # Verify
      BY <2>1, <2>2, <1>4
    <3>2. InsertCells(queue, e1, q, FALSE)[h] = Scanned
      BY <3>1, <1>1, <1>4, InsertLeavesScanned, Zenon
    <3> QED BY <3>2, <2>2, Zenon
  <2>3. CASE ~HasTipShard(t)
    BY <2>3
  <2> QED BY <2>2, <2>3, Zenon
<1> HIDE DEF c1
<1> QED BY <1>3, <1>4, <1>6, <1>7, <1>8, InsertLeavesScanned, Zenon

(* scan_complete queues no scanned block again.                            *)
LEMMA BatchLeavesScanned ==
    ASSUME IInv, NEW s \in Heights, NEW e \in 1 .. MaxHeight + 1,
           NEW found \in SUBSET SubtreesOf(s, e), PutBlocks(s, e, found),
           NEW h \in Heights, queue[h] = Scanned
    PROVE  queue'[h] = Scanned
<1> DEFINE b  == ExtendedStart(s, found)
           a  == ExtendedEnd(e, found)
           r1 == ScanRange(s, e, Scanned)
           r2 == ScanRange(b, s, FoundNote)
           r3 == ScanRange(e, a, FoundNote)
           q  == ScanRange(b, a, Scanned)
           c1 == InsertCells(queue, r1, q, FALSE)
           c2 == InsertCells(c1, r2, q, FALSE)
           c3 == InsertCells(c2, r3, q, FALSE)
<1>1. TypeOK /\ queue \in Cells
  BY DEF IInv, TypeOK
<1>2. s < e /\ queue' = c3
  BY DEF PutBlocks, ScannedQueue, ReplaceThree, ReplaceTwo
<1>3. b \in Int /\ b <= s /\ a \in Int /\ e <= a /\ s \in Nat /\ e \in Nat
  BY <1>1, <1>2, BatchRanges, Zenon
<1>4. r1 \in Ranges /\ r2 \in Ranges /\ r3 \in Ranges /\ q \in Ranges
  BY <1>1, <1>2, BatchRanges, Zenon
<1> HIDE DEF b, a
<1>5. r1.priority # Verify /\ r2.priority # Verify /\ r3.priority # Verify
  BY DEF ScanRange, Scanned, FoundNote, Verify
<1> HIDE DEF r1, r2, r3, q
<1>6. c1 \in Cells /\ c2 \in Cells
  BY <1>1, <1>4, InsertType, Zenon
<1> HIDE DEF c1, c2
<1>7. c1[h] = Scanned
  BY <1>1, <1>4, <1>5, InsertLeavesScanned, Zenon DEF c1
<1>8. c2[h] = Scanned
  BY <1>4, <1>5, <1>6, <1>7, InsertLeavesScanned, ZenonT(40) DEF c2
<1> QED BY <1>2, <1>4, <1>5, <1>6, <1>8, InsertLeavesScanned, ZenonT(40)

(* Tip updates, scanned batches, reported subtrees, deleted accounts and   *)
(* pruning never queue a scanned block again; only the steps that go back  *)
(* do.                                                                     *)
THEOREM ScannedBlocksSurvive ==
    ASSUME StaleTip = FALSE
    PROVE  Spec => ScannedSurvives
<1>1. Spec => []IInv
  BY IInvAlways
<1>2. IInv /\ [Next]_vars
        => [(\E h \in ScannedHeights : queue'[h] > Scanned) => GoesBack]_vars
  <2> SUFFICES ASSUME IInv, Next, NEW h \in Heights, queue[h] = Scanned,
                      queue'[h] > Scanned
               PROVE  GoesBack
    BY DEF ScannedHeights
  <2>1. CASE \E t \in Heights : UpdateChainTip(t)
    BY <2>1, TipLeavesScanned DEF Scanned
  <2>2. CASE \E s \in Heights, e \in 1 .. MaxHeight + 1 :
                \E found \in SUBSET SubtreesOf(s, e) : PutBlocks(s, e, found)
    BY <2>2, BatchLeavesScanned DEF Scanned
  <2>3. CASE \/ \E p \in Pools, end \in Heights : PutSubtreeRoot(p, end)
             \/ \E a \in Accounts : DeleteAccount(a)
    BY <2>3 DEF PutSubtreeRoot, DeleteAccount, Scanned
  <2>4. CASE \E height \in Heights, retain \in RetainPriorities :
                PruneScanQueueBelow(height, retain)
    BY <2>4, SMTT(40) DEF PruneScanQueueBelow, PruneCells, Scanned, Ignored, NoRow
  <2> QED BY <2>1, <2>2, <2>3, <2>4, Zenon DEF Next, GoesBack
<1> QED BY <1>1, <1>2, PTL DEF Spec, ScannedSurvives

-----------------------------------------------------------------------------
(* fully_scanned_height.                                                   *)

(* The first scanned row starts at the lowest scanned height and ends at   *)
(* a height up to which everything from there is scanned.                  *)
LEMMA FirstScannedRowIs ==
    ASSUME TypeOK, ScannedHeights # {}
    PROVE  /\ Min(ScannedHeights) \in ScannedHeights
           /\ Max(FirstScannedRow) \in ScannedHeights
           /\ \A g \in Heights :
                Min(ScannedHeights) <= g /\ g <= Max(FirstScannedRow)
                    => queue[g] = Scanned
<1>1. ScannedHeights \subseteq Heights /\ FirstScannedRow \subseteq ScannedHeights
  BY DEF ScannedHeights, FirstScannedRow
<1>2. ScannedHeights \subseteq Nat
  BY <1>1, HeightsAreNat
<1>3. PICK m \in ScannedHeights : \A y \in ScannedHeights : m <= y
  BY <1>2, MinHeight, Zenon
<1>4. \A y \in ScannedHeights : y \in Int /\ m \in Int
  BY <1>2
<1>5. Min(ScannedHeights) \in ScannedHeights
  BY <1>3 DEF Min
<1> DEFINE low == Min(ScannedHeights)
<1> HIDE DEF low
<1>6. low \in ScannedHeights /\ low \in Heights /\ queue[low] = Scanned
  BY <1>1, <1>5 DEF low, ScannedHeights
<1>7. \A g \in Heights : low <= g /\ g <= low => g = low
  BY <1>6, HeightsAreNat
<1>8. low \in FirstScannedRow
  BY <1>6, <1>7 DEF FirstScannedRow, low
<1>9. FirstScannedRow \subseteq 0 .. MaxHeight /\ FirstScannedRow # {}
  BY <1>1, <1>8 DEF Heights
<1>10. Max(FirstScannedRow) \in FirstScannedRow
  BY <1>9, MaxBounded, MaxHeightAssumption, Zenon
<1> QED BY <1>1, <1>5, <1>10 DEF FirstScannedRow

(* What fully_scanned_height reports is scanned and stored down to the     *)
(* wallet birthday, although it only reads the queue.                      *)
LEMMA FullyScannedFollows == IInv => FullyScannedSound
<1> SUFFICES ASSUME IInv, FullyScannedHeight # NoHeight, NEW h \in Heights,
                    WalletBirthday <= h, h <= FullyScannedHeight
             PROVE  queue[h] = Scanned /\ h \in blocks
  BY DEF FullyScannedSound
<1>1. TypeOK
  BY DEF IInv
<1>2. /\ ScannedHeights # {} /\ KnownBirthdays # {}
      /\ ~(Min(ScannedHeights) > WalletBirthday)
      /\ FullyScannedHeight = Max(FirstScannedRow)
  BY DEF FullyScannedHeight
<1>3. /\ Min(ScannedHeights) \in Heights
      /\ \A g \in Heights : Min(ScannedHeights) <= g /\ g <= Max(FirstScannedRow)
                => queue[g] = Scanned
  BY <1>1, <1>2, FirstScannedRowIs DEF ScannedHeights
<1>4. WalletBirthday \in Int /\ Min(ScannedHeights) \in Int /\ h \in Int
  <2>1. WalletBirthday \in Heights \cup {NoHeight}
    BY <1>1, BirthdayIs
  <2> QED BY <2>1, <1>3, MaxHeightAssumption DEF Heights, NoHeight
<1>5. Min(ScannedHeights) <= h
  BY <1>2, <1>4
<1>6. queue[h] = Scanned
  BY <1>2, <1>3, <1>5
<1> QED BY <1>6 DEF IInv, ScannedIn

(* The height reported as fully scanned is honest: every block from the    *)
(* wallet birthday up to it is stored and scanned, whatever was truncated, *)
(* rewound, pruned or imported before.                                     *)
THEOREM FullyScannedIsHonest ==
    ASSUME StaleTip = FALSE
    PROVE  Spec => []FullyScannedSound
<1>1. Spec => []IInv
  BY IInvAlways
<1>2. IInv => FullyScannedSound
  BY FullyScannedFollows, SMTT(40)
<1> QED BY <1>1, <1>2, PTL

-----------------------------------------------------------------------------
(* Holes in the coverage of the queue.                                     *)

(* A range inserted next to rows that the query reads, or into an empty    *)
(* queue, leaves no hole.                                                  *)
LEMMA InsertContiguous ==
    ASSUME NEW c \in Cells, NEW r \in Ranges, NEW q \in Ranges,
           NEW force \in BOOLEAN, Contiguous(c),
           Touched(c, q) # {} \/ Covered(c) = {}
    PROVE  Contiguous(InsertCells(c, r, q, force))
<1> DEFINE d == InsertCells(c, r, q, force)
<1>1. d \in Cells
  BY InsertType, Zenon
<1>2. \A g \in Heights : c[g] # NoRow => d[g] # NoRow
  BY InsertKeeps, SMTT(40)
<1>3. \A g \in Heights : InRange(g, r) => d[g] # NoRow
  BY InsertInRange, Zenon
<1>4. \A g \in Heights : d[g] # NoRow =>
        /\ g < r.end \/ \E x \in Heights : c[x] # NoRow /\ g <= x
        /\ r.start <= g \/ \E x \in Heights : c[x] # NoRow /\ x <= g
  BY InsertBounds, SMTT(40)
<1>5. \A g \in Heights :
        c[g] = NoRow /\ ~InRange(g, r) /\ InGap(g, r, Touched(c, q)) => d[g] # NoRow
  BY DEF InsertCells, Historic, NoRow
<1> HIDE DEF d
<1>6. r.start \in Int /\ r.end \in Int /\ \A g \in Heights : g \in Int
  BY HeightsAreNat, SMTT(40) DEF Ranges
<1>7. SUFFICES ASSUME NEW lo \in Heights, NEW hi \in Heights, NEW h \in Heights,
                      d[lo] # NoRow, d[hi] # NoRow, lo < h, h < hi, d[h] = NoRow
               PROVE  FALSE
  BY ZenonT(40) DEF Contiguous, Covered, d
<1>8. c[h] = NoRow /\ ~InRange(h, r) /\ ~InGap(h, r, Touched(c, q))
  BY <1>2, <1>3, <1>5, <1>7, SMTT(40)
<1>9. \A x, y \in Heights : c[x] # NoRow /\ c[y] # NoRow /\ x < h /\ h < y => FALSE
  BY <1>8 DEF Contiguous, Covered
<1>10. CASE /\ \E x \in Heights : c[x] # NoRow /\ x <= lo
            /\ \E y \in Heights : c[y] # NoRow /\ hi <= y
  <2>1. PICK x \in Heights : c[x] # NoRow /\ x <= lo
    BY <1>10
  <2>2. PICK y \in Heights : c[y] # NoRow /\ hi <= y
    BY <1>10, SMTT(40)
  <2>3. x < h /\ h < y
    BY <2>1, <2>2, <1>6, <1>7, SMTT(40)
  <2> QED BY <2>1, <2>2, <2>3, <1>9, SMTT(40)
<1>11. CASE r.start <= lo /\ hi < r.end
  BY <1>6, <1>7, <1>8, <1>11 DEF InRange
<1>12. ASSUME NEW x \in Heights, c[x] # NoRow PROVE \E g \in Touched(c, q) : TRUE
  BY <1>12 DEF Covered
<1>13. \A g \in Touched(c, q) : g \in Heights /\ c[g] # NoRow /\ g \in Int
  BY <1>6 DEF Touched
<1>14. CASE (\E x \in Heights : c[x] # NoRow /\ x <= lo) /\ hi < r.end
  <2>1. PICK x \in Heights : c[x] # NoRow /\ x <= lo
    BY <1>14
  <2>2. PICK g \in Touched(c, q) : TRUE
    BY <2>1, <1>12, Zenon
  <2>3. h < r.start
    BY <1>6, <1>7, <1>8, <1>14, SMTT(40) DEF InRange
  <2>4. x < h
    BY <2>1, <1>6, <1>7, SMTT(40)
  <2>5. ~(g < h)
    BY <2>2, <2>3, <1>8, SMTT(40) DEF InGap
  <2>6. h < g
    BY <2>2, <2>5, <1>6, <1>8, <1>13, SMTT(40)
  <2> QED BY <2>1, <2>4, <2>6, <1>9, <1>13, SMTT(40)
<1>15. CASE r.start <= lo /\ \E y \in Heights : c[y] # NoRow /\ hi <= y
  <2>1. PICK y \in Heights : c[y] # NoRow /\ hi <= y
    BY <1>15
  <2>2. PICK g \in Touched(c, q) : TRUE
    BY <2>1, <1>12, Zenon
  <2>3. r.end <= h
    BY <1>6, <1>7, <1>8, <1>15, SMTT(40) DEF InRange
  <2>4. h < y
    BY <2>1, <1>6, <1>7, SMTT(40)
  <2>5. ~(h < g)
    BY <2>2, <2>3, <1>8, SMTT(40) DEF InGap
  <2>6. g < h
    BY <2>2, <2>5, <1>6, <1>8, <1>13, SMTT(40)
  <2> QED BY <2>1, <2>4, <2>6, <1>9, <1>13, SMTT(40)
<1> QED BY <1>4, <1>7, <1>10, <1>11, <1>14, <1>15, SMTT(40)

(* scan_complete: the batch it marks was queued, so the three ranges join  *)
(* what is there.                                                          *)
LEMMA BatchContiguous ==
    ASSUME TypeOK, NEW s \in Heights, NEW e \in 1 .. MaxHeight + 1,
           NEW found \in SUBSET SubtreesOf(s, e), PutBlocks(s, e, found),
           Contiguous(queue)
    PROVE  Contiguous(queue')
<1> DEFINE b  == ExtendedStart(s, found)
           a  == ExtendedEnd(e, found)
           r1 == ScanRange(s, e, Scanned)
           r2 == ScanRange(b, s, FoundNote)
           r3 == ScanRange(e, a, FoundNote)
           q  == ScanRange(b, a, Scanned)
           c1 == InsertCells(queue, r1, q, FALSE)
           c2 == InsertCells(c1, r2, q, FALSE)
           c3 == InsertCells(c2, r3, q, FALSE)
<1>1. queue \in Cells
  BY DEF TypeOK
<1>2. s < e /\ queue' = c3 /\ \A h \in s .. e - 1 : queue[h] >= Scanned
  BY DEF PutBlocks, ScannedQueue, ReplaceThree, ReplaceTwo
<1>3. b \in Int /\ b <= s /\ a \in Int /\ e <= a /\ s \in Nat /\ e \in Nat
  BY <1>2, BatchRanges, Zenon
<1>4. r1 \in Ranges /\ r2 \in Ranges /\ r3 \in Ranges /\ q \in Ranges
  BY <1>2, BatchRanges, Zenon
<1> HIDE DEF b, a
<1>5. q.start - 1 <= s /\ s <= q.end
  <2>1. q.start = b /\ q.end = a
    BY DEF ScanRange
  <2>2. b - 1 <= s /\ s <= a
    <3> HIDE DEF r1, r2, r3, q
    <3> QED BY <1>2, <1>3, SMTT(40)
  <2> QED BY <2>1, <2>2, Zenon
<1> HIDE DEF r1, r2, r3, q
<1>6. s \in s .. e - 1
  BY <1>2, <1>3
<1>7. queue[s] # NoRow
  BY <1>2, <1>6 DEF Scanned, NoRow
<1>8. c1 \in Cells /\ c1[s] # NoRow
  BY <1>1, <1>4, <1>7, InsertType, InsertKeeps, Zenon
<1>9. Contiguous(c1)
  <2>1. Touched(queue, q) # {}
    BY <1>5, <1>7 DEF Touched
  <2> QED BY <2>1, <1>1, <1>4, InsertContiguous, Zenon
<1> HIDE DEF c1
<1>10. c2 \in Cells /\ c2[s] # NoRow
  BY <1>4, <1>8, InsertType, InsertKeeps, Zenon
<1>11. Contiguous(c2)
  <2>1. Touched(c1, q) # {}
    BY <1>5, <1>8 DEF Touched
  <2> QED BY <2>1, <1>4, <1>8, <1>9, InsertContiguous, Zenon
<1> HIDE DEF c2
<1>12. Touched(c2, q) # {}
  BY <1>5, <1>10 DEF Touched
<1> QED BY <1>2, <1>4, <1>10, <1>11, <1>12, InsertContiguous, ZenonT(40)

(* Cutting the queue at a height opens no hole.                            *)
LEMMA TrimContiguous ==
    ASSUME NEW c \in Cells, NEW height \in Heights, Contiguous(c)
    PROVE  Contiguous(TrimCells(c, height))
<1> DEFINE d == TrimCells(c, height)
<1>1. /\ \A h \in Heights : h <= height => d[h] = c[h]
      /\ \A h \in Heights : d[h] # NoRow => h <= height /\ d[h] = c[h]
  BY TrimSafe, SMTT(40)
<1> HIDE DEF d
<1>2. SUFFICES ASSUME NEW lo \in Heights, NEW hi \in Heights, NEW h \in Heights,
                      d[lo] # NoRow, d[hi] # NoRow, lo < h, h < hi
               PROVE  d[h] # NoRow
  BY DEF Contiguous, Covered, d
<1>3. c[lo] # NoRow /\ c[hi] # NoRow /\ hi <= height
  BY <1>1, <1>2
<1>4. c[h] # NoRow
  BY <1>2, <1>3 DEF Contiguous, Covered
<1>5. h <= height
  BY <1>2, <1>3, HeightsAreNat, SMTT(40)
<1> QED BY <1>1, <1>4, <1>5

(* A rewind opens no hole: the rescan range reaches from the target, where *)
(* a truncated queue ends at the earliest, up to the tip.                  *)
LEMMA RewoundContiguous ==
    ASSUME TypeOK, NEW target \in Heights, NEW height \in Heights,
           TruncationHeight(target, height), Contiguous(queue)
    PROVE  /\ RewoundQueue(target, height) \in Cells
           /\ Contiguous(RewoundQueue(target, height))
           /\ Tip <= target => RewoundQueue(target, height) = queue
           /\ target < Tip => \A h \in Heights : target < h /\ h <= Tip
                    => RewoundQueue(target, height)[h] # NoRow
<1> DEFINE trimmed == IF TruncationNeeded(target) THEN TrimCells(queue, height) ELSE queue
           rescan  == ScanRange(target + 1, Tip + 1, Historic)
<1>1. queue \in Cells /\ blocks \subseteq Heights
  BY DEF TypeOK
<1>2. /\ Tip \in Heights \cup {NoHeight}
      /\ Tip # NoHeight => queue[Tip] # NoRow
      /\ \A g \in Heights : queue[g] # NoRow => g <= Tip
  BY <1>1, TipIs DEF Tip
<1>3. /\ Tip \in Int /\ target \in Nat /\ height \in Nat /\ \A h \in Heights : h \in Nat
  BY <1>2, HeightsAreNat DEF NoHeight
<1>4. target <= height
  <2>1. MaxScanned \in Heights \cup {NoHeight}
    BY <1>1, MaxOrNoneIs DEF MaxScanned
  <2>2. MaxScanned \in Int
    BY <2>1, MaxHeightAssumption DEF Heights, NoHeight
  <2>3. PRUNING_DEPTH \in Int
    BY ScanAssumption
  <2> QED BY <2>2, <2>3, <1>3 DEF TruncationHeight, TruncationTarget, Higher, SaturatingSub
<1>5. trimmed \in Cells /\ Contiguous(trimmed)
  BY <1>1, TrimSafe, TrimContiguous, SMTT(40)
<1>6. \A h \in Heights : h <= height => trimmed[h] = queue[h]
  BY <1>1, TrimSafe, SMTT(40)
<1>7. \A h \in Heights : trimmed[h] # NoRow => trimmed[h] = queue[h]
  BY <1>1, TrimSafe, SMTT(40)
<1>8. RewoundQueue(target, height) =
        IF target < Tip THEN InsertCells(trimmed, rescan, rescan, TRUE) ELSE trimmed
  BY DEF RewoundQueue
<1> HIDE DEF trimmed
<1>9. CASE target < Tip
  <2>1. /\ rescan \in Ranges /\ rescan.start = target + 1 /\ rescan.end = Tip + 1
    BY <1>3, <1>9 DEF Ranges, ScanRange, Priorities
  <2>2. \A h \in Heights : target < h /\ h <= Tip => InRange(h, rescan)
    BY <1>3 DEF ScanRange, InRange
  <2> HIDE DEF rescan
  <2>3. Tip \in Heights /\ queue[Tip] # NoRow
    BY <1>2, <1>3, <1>9 DEF NoHeight
  <2>4. Touched(trimmed, rescan) # {} \/ Covered(trimmed) = {}
    <3> SUFFICES ASSUME NEW g \in Heights, trimmed[g] # NoRow
                 PROVE  \E x \in Heights : /\ rescan.start - 1 <= x /\ x <= rescan.end
                                           /\ trimmed[x] # NoRow
      BY DEF Covered, Touched
    <3>1. queue[g] # NoRow
      BY <1>7
    <3>2. CASE Tip <= height
      BY <3>2, <2>1, <2>3, <1>3, <1>6, <1>9, SMTT(40)
    <3>3. CASE height < Tip /\ g < height
      <4>1. queue[height] # NoRow
        BY <3>1, <3>3, <2>3, SMTT(40) DEF Contiguous, Covered
      <4>2. trimmed[height] # NoRow
        BY <4>1, <1>3, <1>6
      <4> QED BY <4>2, <3>3, <2>1, <1>3, <1>4, SMTT(40)
    <3>4. CASE height < Tip /\ height <= g
      <4>1. target <= g /\ g <= Tip
        BY <3>1, <3>4, <1>2, <1>3, <1>4
      <4> QED BY <4>1, <2>1, <1>3
    <3> QED BY <3>2, <3>3, <3>4, <1>3
  <2>5. InsertCells(trimmed, rescan, rescan, TRUE) \in Cells
    BY <2>1, <1>5, InsertType, Zenon
  <2>6. Contiguous(InsertCells(trimmed, rescan, rescan, TRUE))
    BY <2>1, <2>4, <1>5, InsertContiguous, Zenon
  <2>7. \A h \in Heights : target < h /\ h <= Tip
            => InsertCells(trimmed, rescan, rescan, TRUE)[h] # NoRow
    BY <2>1, <2>2, <1>5, InsertInRange, Zenon
  <2>8. ~(Tip <= target)
    BY <1>3, <1>9
  <2>9. RewoundQueue(target, height) = InsertCells(trimmed, rescan, rescan, TRUE)
    BY <1>8, <1>9
  <2> QED BY <2>5, <2>6, <2>7, <2>8, <2>9, Zenon
<1>10. CASE ~(target < Tip)
  <2>1. \A h \in Heights : trimmed[h] = queue[h]
    <3> SUFFICES ASSUME NEW h \in Heights PROVE trimmed[h] = queue[h]
      OBVIOUS
    <3>1. CASE h <= height
      BY <3>1, <1>6
    <3>2. CASE height < h
      <4>1. queue[h] = NoRow
        BY <3>2, <1>2, <1>3, <1>4, <1>10
      <4> QED BY <4>1, <1>7
    <3>3. h \in Int /\ height \in Int
      BY <1>3
    <3> QED BY <3>1, <3>2, <3>3
  <2>2. trimmed = queue
    BY <2>1, <1>1, <1>5 DEF Cells
  <2> QED BY <2>2, <1>5, <1>8, <1>10
<1> QED BY <1>9, <1>10

(* add_account opens a hole only over a queue that ends below Sapling      *)
(* activation.                                                             *)
LEMMA AddAccountContiguous ==
    ASSUME TypeOK, NEW a \in Accounts, NEW b \in Heights, NEW height \in Heights,
           AddAccount(a, b, height), Contiguous(queue), ~(Tip < SaplingActivation - 1)
    PROVE  Contiguous(queue')
<1> DEFINE c == RewoundQueue(b - 1, height)
           r == ScanRange(SaplingActivation, b, Ignored)
<1>1. /\ 0 < b /\ TruncationHeight(b - 1, height)
      /\ queue' = IF SaplingActivation < b THEN InsertCells(c, r, r, FALSE) ELSE c
  BY DEF AddAccount, AccountQueue
<1>2. b - 1 \in Heights
  BY <1>1, MaxHeightAssumption, SMTT(40) DEF Heights
<1>3. c \in Cells /\ Contiguous(c)
  BY <1>1, <1>2, RewoundContiguous, SMTT(40)
<1>4. Tip <= b - 1 => c = queue
  BY <1>1, <1>2, RewoundContiguous, SMTT(40)
<1>5. b - 1 < Tip => \A h \in Heights : b - 1 < h /\ h <= Tip => c[h] # NoRow
  BY <1>1, <1>2, RewoundContiguous, SMTT(40)
<1> HIDE DEF c
<1>6. /\ Tip \in Heights \cup {NoHeight} /\ queue \in Cells
      /\ \A g \in Heights : queue[g] # NoRow => Tip # NoHeight
      /\ Tip # NoHeight => queue[Tip] # NoRow
  BY TipIs DEF Tip, TypeOK
<1>7. Tip \in Int /\ b \in Nat /\ SaplingActivation \in Nat
  BY <1>6, HeightsAreNat, ScanAssumption DEF NoHeight
<1>8. CASE ~(SaplingActivation < b)
  BY <1>1, <1>3, <1>8, SMTT(40)
<1>9. CASE SaplingActivation < b
  <2>1. r \in Ranges /\ r.start = SaplingActivation /\ r.end = b
    BY <1>7, <1>9 DEF Ranges, ScanRange, Priorities
  <2> HIDE DEF r
  <2>2. Touched(c, r) # {} \/ Covered(c) = {}
    <3>1. CASE b - 1 < Tip
      <4>1. c[b] # NoRow
        BY <3>1, <1>5, <1>7
      <4>2. r.start - 1 <= b /\ b <= r.end
        BY <2>1, <1>7, <1>9
      <4> QED BY <4>1, <4>2 DEF Touched
    <3>2. CASE Tip <= b - 1 /\ Tip = NoHeight
      BY <3>2, <1>4, <1>6 DEF Covered
    <3>3. CASE Tip <= b - 1 /\ Tip # NoHeight
      <4>1. Tip \in Heights /\ c[Tip] # NoRow
        BY <3>3, <1>4, <1>6
      <4>2. r.start - 1 <= Tip /\ Tip <= r.end
        BY <3>3, <2>1, <1>7
      <4> QED BY <4>1, <4>2 DEF Touched
    <3> QED BY <3>1, <3>2, <3>3, <1>7
  <2> QED BY <2>1, <2>2, <1>1, <1>3, <1>9, InsertContiguous, Zenon
<1> QED BY <1>8, <1>9, SMTT(40)

(* Pruning opens no hole: what it deletes lies below everything it keeps.  *)
LEMMA PruneContiguous ==
    ASSUME NEW c \in Cells, NEW height \in Heights, NEW retain, Contiguous(c)
    PROVE  Contiguous(PruneCells(c, height, retain))
<1> DEFINE d == PruneCells(c, height, retain)
<1>1. \A h \in Heights : d[h] # NoRow => c[h] # NoRow
  BY DEF PruneCells
<1>2. \A h \in Heights : c[h] # NoRow /\ d[h] = NoRow =>
        ~(height <= h) /\ ~FloorBelow(c, h, height, retain)
  BY DEF PruneCells, Ignored, NoRow
<1>3. \A h \in Heights : d[h] # NoRow /\ ~(height <= h) =>
        IsRetained(c[h], retain) \/ FloorBelow(c, h, height, retain)
  BY Zenon DEF PruneCells
<1> HIDE DEF d
<1>4. SUFFICES ASSUME NEW lo \in Heights, NEW hi \in Heights, NEW h \in Heights,
                      d[lo] # NoRow, d[hi] # NoRow, lo < h, h < hi, d[h] = NoRow
               PROVE  FALSE
  BY SMTT(40) DEF Contiguous, Covered, d
<1>5. c[lo] # NoRow /\ c[h] # NoRow
  BY <1>1, <1>4, SMTT(40) DEF Contiguous, Covered
<1>6. ~(height <= h) /\ ~FloorBelow(c, h, height, retain)
  BY <1>2, <1>4, <1>5
<1>7. lo < height /\ \A g \in Heights : g < lo => g < h
  BY <1>4, <1>6, HeightsAreNat
<1>8. IsRetained(c[lo], retain) \/ FloorBelow(c, lo, height, retain)
  BY <1>3, <1>4, <1>7, HeightsAreNat, SMTT(40)
<1>9. FloorBelow(c, h, height, retain)
  BY <1>4, <1>5, <1>7, <1>8 DEF FloorBelow
<1> QED BY <1>6, <1>9

(* Only a tip update that resumes away from the queue, and an account      *)
(* added to a queue that ends below Sapling activation, leave a hole in    *)
(* the coverage of the queue.  Scanning, truncating, rewinding, pruning    *)
(* and rescanning never do.                                                *)
THEOREM HolesOpenOnlyOnResuming ==
    ASSUME StaleTip = FALSE
    PROVE  Spec => OnlyResumingOpensHoles
<1> DEFINE Resumes ==
             \/ \E t \in Heights : UpdateChainTip(t)
             \/ /\ Tip < SaplingActivation - 1
                /\ \E a \in Accounts, b, height \in Heights : AddAccount(a, b, height)
           Opens == Contiguous(queue) /\ ~Contiguous(queue')
<1>1. TypeOK /\ [Next]_vars => [Opens => Resumes]_vars
  <2> SUFFICES ASSUME TypeOK, Next, Contiguous(queue), ~Contiguous(queue')
               PROVE  Resumes
    OBVIOUS
  <2>1. queue \in Cells
    BY DEF TypeOK
  <2>2. CASE \E s \in Heights, e \in 1 .. MaxHeight + 1 :
                \E found \in SUBSET SubtreesOf(s, e) : PutBlocks(s, e, found)
    BY <2>2, BatchContiguous
  <2>3. CASE \/ \E p \in Pools, end \in Heights : PutSubtreeRoot(p, end)
             \/ \E a \in Accounts : DeleteAccount(a)
    BY <2>3 DEF PutSubtreeRoot, DeleteAccount
  <2>4. CASE \E height \in Heights : TruncateToHeight(height)
    BY <2>1, <2>4, TrimContiguous DEF TruncateToHeight
  <2>5. CASE \E target, height \in Heights, reset \in SUBSET Accounts :
                RewindToChainState(target, height, reset)
    BY <2>5, RewoundContiguous DEF RewindToChainState
  <2>6. CASE \E a \in Accounts, b, height \in Heights : AddAccount(a, b, height)
    BY <2>6, AddAccountContiguous
  <2>7. CASE \E height \in Heights, retain \in RetainPriorities :
                PruneScanQueueBelow(height, retain)
    BY <2>1, <2>7, PruneContiguous DEF PruneScanQueueBelow
  <2>8. CASE \E s \in Heights, e \in 1 .. MaxHeight + 1, p \in RescanPriorities :
                QueueRescans(s, e, p)
    <3>1. PICK s \in Heights, e \in 1 .. MaxHeight + 1, p \in RescanPriorities :
                QueueRescans(s, e, p)
      BY <2>8
    <3> DEFINE r == ScanRange(s, e, p)
    <3>2. s < e /\ s .. e - 1 \subseteq Covered(queue)
          /\ queue' = InsertCells(queue, r, r, TRUE)
      BY <3>1 DEF QueueRescans
    <3>3. s \in Int /\ e \in Int /\ p \in Priorities
      BY ScanAssumption, MaxHeightAssumption DEF Heights
    <3>4. r \in Ranges /\ r.start = s /\ r.end = e
      BY <3>2, <3>3 DEF Ranges, ScanRange
    <3> HIDE DEF r
    <3>5. s \in Covered(queue) /\ r.start - 1 <= s /\ s <= r.end
      BY <3>2, <3>3, <3>4
    <3>6. Touched(queue, r) # {}
      BY <3>5 DEF Touched, Covered
    <3> QED BY <2>1, <3>2, <3>4, <3>6, InsertContiguous, Zenon
  <2> QED BY <2>2, <2>3, <2>4, <2>5, <2>6, <2>7, <2>8 DEF Next
<1>2. Spec => []TypeOK
  BY TypeCorrect
<1> QED BY <1>1, <1>2, PTL DEF Spec, OnlyResumingOpensHoles

=============================================================================
