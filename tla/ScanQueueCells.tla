--------------------------- MODULE ScanQueueCells ---------------------------
(***************************************************************************)
(* What the scan queue promises, height by height: the abstract            *)
(* specification of the table scan_queue and of the calls that change it.  *)
(* ScanQueueTable implements it with rows and a spanning tree, and         *)
(* WalletScan uses the same operators for the wallet's own state.          *)
(***************************************************************************)
EXTENDS ScanQueueCalls

VARIABLES cells,        \* the priority of every height
          call          \* the call made last

ReplaceCells(c) ==
    CASE Len(c.entries) = 1 ->
            InsertCells(cells, c.entries[1], c.query, c.force)
      [] Len(c.entries) = 2 ->
            ReplaceTwo(cells, c.entries[1], c.entries[2], c.query, c.force)
      [] Len(c.entries) = 3 ->
            ReplaceThree(cells, c.entries[1], c.entries[2], c.entries[3],
                         c.query, c.force)

Apply(c) ==
    CASE c.op = "replace" -> ReplaceCells(c)
      [] c.op = "prune"   -> PruneCells(cells, c.height, c.retain)
      [] c.op = "trim"    -> TrimCells(cells, c.height)

Init ==
    /\ cells = [h \in Heights |-> NoRow]
    /\ call = [op |-> "none"]

Next ==
    /\ call' \in Calls
    /\ cells' = Apply(call')

Spec == Init /\ [][Next]_<<cells, call>>

=============================================================================
