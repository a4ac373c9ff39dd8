---------------------------- MODULE ScanPriority ----------------------------
(***************************************************************************)
(* Scan priorities and the effect of a merge on the scan queue, height by  *)
(* height.                                                                 *)
(*                                                                         *)
(* The table scan_queue holds half-open ranges [start, end) of heights,    *)
(* each with a priority.  This module looks at the table as a function     *)
(* from heights to the priority of the row that covers the height, NoRow   *)
(* where no row does.  ScanQueueTable models the rows themselves and the   *)
(* spanning tree that merges them, and is checked to implement this view.  *)
(***************************************************************************)
EXTENDS Integers

CONSTANT MaxHeight      \* the highest block height of the instance

ASSUME MaxHeightAssumption == MaxHeight \in Nat

Heights == 0 .. MaxHeight

(* priority_code: the integers the table stores, in the order of the enum. *)
Ignored              == 0
Scanned              == 10
Historic             == 20
LatestPoolActivation == 25
OpenAdjacent         == 30
FoundNote            == 40
ChainTip             == 50
Verify               == 60

Priorities == {Ignored, Scanned, Historic, LatestPoolActivation,
               OpenAdjacent, FoundNote, ChainTip, Verify}

(* insert_queue_entries never persists LatestPoolActivation: it is a label *)
(* that reading derives from Historic coverage.                            *)
StoredPriorities == Priorities \ {LatestPoolActivation}

Stored(p) == IF p = LatestPoolActivation THEN Historic ELSE p

NoRow == -1

Cells == [Heights -> StoredPriorities \cup {NoRow}]

Covered(cells) == {h \in Heights : cells[h] # NoRow}

-----------------------------------------------------------------------------
(* Fault: the higher priority always stays, so scanned blocks are queued   *)
(* again by any later range that covers them.                              *)
FaultyDominance(current, inserted, force) ==
    IF inserted \in {Verify, Scanned} THEN inserted
    ELSE IF current < inserted THEN inserted ELSE current

(* dominance: the priority left on a height whose current priority meets   *)
(* an inserted one.  Verify and Scanned replace whatever is there; Scanned *)
(* yields only to a forced rescan; otherwise the higher priority stays.    *)
Dominance(current, inserted, force) ==
    IF inserted \in {Verify, Scanned} THEN inserted
    ELSE IF current = Scanned /\ ~force THEN current
    ELSE IF current < inserted THEN inserted ELSE current

(* A range handed to the queue.  Empty ranges (start = end) are legal.     *)
ScanRange(start, end, priority) ==
    [start |-> start, end |-> end, priority |-> priority]

InRange(h, r) == r.start <= h /\ h < r.end

(* The heights of the rows that overlap or touch the query range, as far   *)
(* as the query range and its neighbours go.                               *)
Touched(cells, query) ==
    {g \in Heights : /\ query.start - 1 <= g /\ g <= query.end
                     /\ cells[g] # NoRow}

Between(h, S) == (\E g \in S : g < h) /\ (\E g \in S : h < g)

(* The hole between the rows read and an inserted range.                   *)
InGap(h, r, S) ==
    \/ r.end <= h /\ \E g \in S : h < g
    \/ h < r.start /\ \E g \in S : g < h

(* What SpanningTree::insert of one range does to every height: a hole     *)
(* between two rows, or between the rows and the range, becomes Historic.  *)
InsertCells(cells, r, query, force) ==
    LET touched == Touched(cells, query)
    IN  [h \in Heights |->
            LET found   == cells[h]
                current == IF found = NoRow /\ Between(h, touched)
                           THEN Historic ELSE found
            IN  IF InRange(h, r)
                THEN IF current = NoRow THEN Stored(r.priority)
                     ELSE Dominance(current, Stored(r.priority), force)
                ELSE IF current # NoRow THEN current
                ELSE IF InGap(h, r, touched) THEN Historic
                ELSE NoRow]

(* replace_queue_entries on its entries in turn: the range linking the     *)
(* scanned blocks to the tip after the tip shard (update_chain_tip), and   *)
(* the FoundNote extensions after the scanned range (scan_complete).       *)
ReplaceTwo(cells, first, second, query, force) ==
    InsertCells(InsertCells(cells, first, query, force), second, query, force)

ReplaceThree(cells, first, second, third, query, force) ==
    InsertCells(ReplaceTwo(cells, first, second, query, force),
                third, query, force)

-----------------------------------------------------------------------------
(* prune_scan_queue_below: which priorities survive below the height.      *)
(* RetainNothing stands for the None of the optional priority.             *)
RetainNothing == -1

IsRetained(p, retain) == retain # RetainNothing /\ (p <= Scanned \/ retain <= p)

(* A retained row lies below h.                                            *)
FloorBelow(cells, h, height, retain) ==
    \E g \in Heights : /\ g < h /\ g < height
                       /\ cells[g] # NoRow /\ IsRetained(cells[g], retain)

(* Fault: pruned coverage is always deleted.                               *)
FaultyPruneCells(cells, height, retain) ==
    [h \in Heights |->
        IF height <= h \/ cells[h] = NoRow \/ IsRetained(cells[h], retain)
        THEN cells[h]
        ELSE NoRow]

(* Pruned coverage is relabelled Ignored above the lowest retained row and *)
(* deleted below it.                                                       *)
PruneCells(cells, height, retain) ==
    [h \in Heights |->
        IF height <= h \/ cells[h] = NoRow \/ IsRetained(cells[h], retain)
        THEN cells[h]
        ELSE IF FloorBelow(cells, h, height, retain) THEN Ignored
        ELSE NoRow]

(* Fault: the range is cut one height too late.                            *)
FaultyTrimCells(cells, height) ==
    [h \in Heights |-> IF h <= height + 1 THEN cells[h] ELSE NoRow]

(* trim_scan_queue_to: nothing stays queued above the height.              *)
TrimCells(cells, height) ==
    [h \in Heights |-> IF h <= height THEN cells[h] ELSE NoRow]

=============================================================================
