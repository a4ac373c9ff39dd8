--------------------------- MODULE ScanQueueTable ---------------------------
(***************************************************************************)
(* The table scan_queue as a set of rows, changed as the code changes it:  *)
(* the rows that meet the query range are read in the order of their ends  *)
(* into a spanning tree, the new entries are inserted, the rows read are   *)
(* deleted and the tree is written back.                                   *)
(***************************************************************************)
EXTENDS SpanningTree, ScanQueueCalls, FiniteSets, SequencesExt

VARIABLES rows,         \* the rows of the table
          call          \* the call made last

vars == << rows, call >>

Rows == {r \in [start : Bounds, end : Bounds, priority : StoredPriorities] :
            r.start < r.end}

ByEnd(S)   == SetToSortSeq(S, LAMBDA x, y : x.end < y.end)
ByStart(S) == SetToSortSeq(S, LAMBDA x, y : x.start < y.start)

(* insert_queue_entries: empty entries are skipped.                        *)
Persisted(ranges) ==
    {[ranges[i] EXCEPT !.priority = Stored(ranges[i].priority)] :
        i \in {j \in 1 .. Len(ranges) : ~IsEmptyRange(ranges[j])}}

(* Fault: the query misses the rows adjacent to the range.                 *)
FaultyMeets(r, query) == ~(r.start >= query.end \/ query.start >= r.end)

(* The rows that overlap the query range or are adjacent to it.            *)
Meets(r, query) == ~(r.start > query.end \/ query.start > r.end)

RECURSIVE InsertAll(_, _, _)
InsertAll(tree, ranges, force) ==
    IF ranges = << >> THEN tree
    ELSE InsertAll(TreeInsert(tree, ranges[1], force), Tail(ranges), force)

(* replace_queue_entries                                                   *)
ReplaceQueueEntries(query, entries, force) ==
    LET touched == {r \in rows : Meets(r, query)}
        ranges  == ByEnd(touched) \o entries
        tree    == InsertAll(Leaf(ranges[1]), Tail(ranges), force)
        deleted == {r \in rows : \E t \in touched : r.end = t.end}
    IN  (rows \ deleted) \cup Persisted(IntoVec(tree))

-----------------------------------------------------------------------------
(* Fault: coverage above the lowest retained row is deleted as well.       *)
FaultyPrunedRow(r, height, retain, retained) ==
    IF IsRetained(r.priority, retain) THEN << r >>
    ELSE IF r.end > height THEN << [r EXCEPT !.start = height] >> ELSE << >>

(* prune_scan_queue_below: the entries that replace one row, given the     *)
(* start of the lowest retained row (or none).                             *)
PrunedRow(r, height, retain, retained) ==
    IF IsRetained(r.priority, retain) THEN << r >>
    ELSE LET cut  == IF height < r.end THEN height ELSE r.end
             kept == IF r.end > height
                     THEN << [r EXCEPT !.start = height] >> ELSE << >>
         IN  IF \E f \in retained : f.start < cut
             THEN << ScanRange(r.start, cut, Ignored) >> \o kept
             ELSE kept

RECURSIVE MergeEqual(_, _)
MergeEqual(acc, ranges) ==
    IF ranges = << >> THEN acc
    ELSE LET n == Len(acc)
         IN  IF /\ n > 0
                /\ acc[n].priority = ranges[1].priority
                /\ acc[n].end = ranges[1].start
             THEN MergeEqual([acc EXCEPT ![n].end = ranges[1].end], Tail(ranges))
             ELSE MergeEqual(Append(acc, ranges[1]), Tail(ranges))

PruneScanQueueBelow(height, retain) ==
    LET below    == {r \in rows : r.start < height}
        existing == ByStart(below)
        retained == {r \in below : IsRetained(r.priority, retain)}
        pieces   == [i \in 1 .. Len(existing) |->
                        PrunedRow(existing[i], height, retain, retained)]
    IN  (rows \ below) \cup Persisted(MergeEqual(<< >>, FlattenSeq(pieces)))

(* Fault: a row that starts right above the height is kept.                *)
FaultyTrimScanQueueTo(height) ==
    {[r EXCEPT !.end = IF r.end > height + 1 THEN height + 1 ELSE r.end] :
        r \in {q \in rows : q.start <= height + 1}}

(* trim_scan_queue_to                                                      *)
TrimScanQueueTo(height) ==
    {[r EXCEPT !.end = IF r.end > height + 1 THEN height + 1 ELSE r.end] :
        r \in {q \in rows : q.start < height + 1}}

-----------------------------------------------------------------------------
Init ==
    /\ rows = {}
    /\ call = [op |-> "none"]

ReplaceStep(c) ==
    /\ c.op = "replace"
    /\ call' = c
    /\ rows' = ReplaceQueueEntries(c.query, c.entries, c.force)

PruneStep(c) ==
    /\ c.op = "prune"
    /\ call' = c
    /\ rows' = PruneScanQueueBelow(c.height, c.retain)

TrimStep(c) ==
    /\ c.op = "trim"
    /\ call' = c
    /\ rows' = TrimScanQueueTo(c.height)

Next == \E c \in Calls : ReplaceStep(c) \/ PruneStep(c) \/ TrimStep(c)

Spec == Init /\ [][Next]_vars

-----------------------------------------------------------------------------
(* The rows are well formed, and the table's UNIQUE constraints on the     *)
(* bounds of a range hold with room to spare: no height is in two rows.    *)
TypeOK ==
    /\ rows \subseteq Rows
    /\ \A r, q \in rows : r # q => r.end <= q.start \/ q.end <= r.start

(* The queue as the abstract specification sees it.                        *)
CellsOf(S) ==
    [h \in Heights |->
        IF \E r \in S : InRange(h, r)
        THEN (CHOOSE r \in S : InRange(h, r)).priority
        ELSE NoRow]

Abstract == INSTANCE ScanQueueCells WITH cells <- CellsOf(rows)

(* Every change of the rows, through the spanning tree and back, is the    *)
(* change that the abstract queue makes height by height: no merge loses a *)
(* height, duplicates one, or gives it a priority the dominance rule does  *)
(* not give (replace_queue_entries, prune_scan_queue_below,                *)
(* trim_scan_queue_to).                                                    *)
ImplementsCells == Abstract!Spec

(* Two scanned rows are never adjacent: every merge coalesces them.  This  *)
(* is what lets fully_scanned_height read "the height to which all blocks  *)
(* are scanned" from a single row.                                         *)
ScannedRowsMaximal ==
    \A r, q \in rows :
        r.priority = Scanned /\ q.priority = Scanned => r.end # q.start

=============================================================================
