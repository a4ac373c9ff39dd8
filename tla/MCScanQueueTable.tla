-------------------------- MODULE MCScanQueueTable --------------------------
(* The scan queue on a handful of heights.                                 *)
EXTENDS ScanQueueTable

MCEntryPriorities  == {Ignored, Scanned, Historic, FoundNote, Verify}
MCRetainPriorities == {RetainNothing, FoundNote}

(* The call is only a label of the step that led to a state.               *)
RowsView == rows

=============================================================================
