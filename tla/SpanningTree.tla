---------------------------- MODULE SpanningTree ----------------------------
(***************************************************************************)
(* The spanning tree that merges scan ranges (spanning_tree.rs): a binary  *)
(* tree whose leaves are contiguous ranges, into which ranges are inserted *)
(* one at a time, and which is read back as a sequence of ranges.          *)
(*                                                                         *)
(* A joined result (One, Two or Three ranges) is a sequence of ranges.  An *)
(* expect() or assert! of the code is an Assert here, so that an input the *)
(* code would panic on is an error of the model too.                       *)
(***************************************************************************)
EXTENDS ScanPriority, Sequences, TLC

IsEmptyRange(r) == r.start = r.end

(* ScanRange::truncate_start and truncate_end: None is the empty sequence. *)
TruncateStart(r, h) ==
    IF h >= r.end \/ IsEmptyRange(r) THEN << >>
    ELSE << [r EXCEPT !.start = IF h > r.start THEN h ELSE r.start] >>

TruncateEnd(r, h) ==
    IF h <= r.start \/ IsEmptyRange(r) THEN << >>
    ELSE << [r EXCEPT !.end = IF h < r.end THEN h ELSE r.end] >>

(* ScanRange::split_at, which the tree only calls strictly inside a range. *)
SplitAt(r, h) ==
    IF Assert(r.start < h /\ h < r.end, "split point outside of the range")
    THEN << [r EXCEPT !.end = h], [r EXCEPT !.start = h] >>
    ELSE << >>

-----------------------------------------------------------------------------
(* Two adjacent ranges, merged when their priorities agree.                *)
JoinAdjacent(left, right) ==
    IF left.priority = right.priority THEN << [left EXCEPT !.end = right.end] >>
    ELSE << left, right >>

(* join_nonoverlapping: a gap between the two becomes a Historic range.    *)
JoinNonoverlapping(left, right) ==
    IF left.end = right.start THEN JoinAdjacent(left, right)
    ELSE LET gap    == ScanRange(left.end, right.start, Historic)
             merged == JoinAdjacent(left, gap)
         IN  IF Len(merged) = 1 THEN JoinAdjacent(merged[1], right)
             ELSE << left >> \o JoinAdjacent(gap, right)

(* join_overlapping: the dominant range keeps its extent, the other one    *)
(* keeps what sticks out of it.                                            *)
JoinOverlapping(left, right, insertedIsLeft, force) ==
    LET current  == IF insertedIsLeft THEN right ELSE left
        inserted == IF insertedIsLeft THEN left ELSE right
        winner   == Dominance(current.priority, inserted.priority, force)
    IN  IF left.priority = right.priority
        THEN << [left EXCEPT !.end = IF right.end > left.end THEN right.end
                                     ELSE left.end] >>
        ELSE IF winner = left.priority
        THEN << left >> \o TruncateStart(right, left.end)
        ELSE TruncateEnd(left, right.start) \o << right >>
               \o TruncateStart(left, right.end)

(* insert: the case analysis on how two ranges lie to each other.          *)
JoinRanges(current, inserted, force) ==
    IF inserted.end <= current.start THEN JoinNonoverlapping(inserted, current)
    ELSE IF current.end <= inserted.start
    THEN JoinNonoverlapping(current, inserted)
    ELSE IF inserted.start = current.start /\ inserted.end = current.end
    THEN << [inserted EXCEPT !.priority =
                Dominance(current.priority, inserted.priority, force)] >>
    ELSE IF \/ inserted.start < current.start
            \/ inserted.start = current.start /\ inserted.end > current.end
    THEN JoinOverlapping(inserted, current, TRUE, force)
    ELSE JoinOverlapping(current, inserted, FALSE, force)

-----------------------------------------------------------------------------
Leaf(r) == [leaf |-> TRUE, span |-> r]

Parent(left, right) ==
    [leaf  |-> FALSE,
     span  |-> [start |-> left.span.start, end |-> right.span.end],
     left  |-> left, right |-> right]

FromJoined(joined) ==
    CASE Len(joined) = 1 -> Leaf(joined[1])
      [] Len(joined) = 2 -> Parent(Leaf(joined[1]), Leaf(joined[2]))
      [] OTHER -> Parent(Leaf(joined[1]),
                         Parent(Leaf(joined[2]), Leaf(joined[3])))

RECURSIVE TreeInsert(_, _, _)

(* from_split: the inserted range is cut at the boundary of the children   *)
(* and each half goes to its side.                                         *)
FromSplit(tree, r, force) ==
    LET halves == SplitAt(r, tree.left.span.end)
    IN  Parent(TreeInsert(tree.left, halves[1], force),
               TreeInsert(tree.right, halves[2], force))

IntoLeft(tree, r, force)  == Parent(TreeInsert(tree.left, r, force), tree.right)
IntoRight(tree, r, force) == Parent(tree.left, TreeInsert(tree.right, r, force))

(* SpanningTree::insert, by RangeOrdering::cmp of the span and the range.  *)
TreeInsert(tree, r, force) ==
    LET s     == tree.span
        split == IF tree.leaf THEN 0 ELSE tree.left.span.end
    IN  IF tree.leaf THEN FromJoined(JoinRanges(s, r, force))
        ELSE IF s.end <= r.start THEN IntoRight(tree, r, force)
        ELSE IF r.end <= s.start THEN IntoLeft(tree, r, force)
        ELSE IF s.start = r.start /\ s.end = r.end
        THEN IF split > r.start THEN FromSplit(tree, r, force)
             ELSE TreeInsert(tree.right, r, force)
        ELSE IF s.start < r.start /\ s.end < r.end
        THEN IF split > r.start THEN FromSplit(tree, r, force)
             ELSE IntoRight(tree, r, force)
        ELSE IF s.start <= r.start /\ r.end <= s.end
        THEN IF r.start >= split THEN IntoRight(tree, r, force)
             ELSE IF r.end <= split THEN IntoLeft(tree, r, force)
             ELSE FromSplit(tree, r, force)
        ELSE IF r.start <= s.start /\ s.end <= r.end
        THEN FromSplit(tree, r, force)
        ELSE IF split < r.end THEN FromSplit(tree, r, force)
             ELSE IntoLeft(tree, r, force)

RECURSIVE Leaves(_)
Leaves(tree) ==
    IF tree.leaf
    THEN IF IsEmptyRange(tree.span) THEN << >> ELSE << tree.span >>
    ELSE Leaves(tree.left) \o Leaves(tree.right)

RECURSIVE Coalesce(_, _)
Coalesce(acc, ranges) ==
    IF ranges = << >> THEN acc
    ELSE IF acc = << >> THEN Coalesce(<< ranges[1] >>, Tail(ranges))
    ELSE LET last   == Len(acc)
             joined == JoinNonoverlapping(acc[last], ranges[1])
         IN  IF Assert(Len(joined) <= 2, "a gap between two leaves")
             THEN Coalesce(SubSeq(acc, 1, last - 1) \o joined, Tail(ranges))
             ELSE << >>

(* into_vec: the ranges in order, adjacent ones of one priority merged.    *)
IntoVec(tree) == Coalesce(<< >>, Leaves(tree))

=============================================================================
