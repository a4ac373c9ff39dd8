--------------------------- MODULE ScanQueueCalls ---------------------------
(***************************************************************************)
(* The calls that the wallet makes on the scan queue, as values: which     *)
(* entries replace_queue_entries is given, over which query range, and the *)
(* arguments of prune_scan_queue_below and trim_scan_queue_to.             *)
(***************************************************************************)
EXTENDS ScanPriority, Sequences

CONSTANTS EntryPriorities,      \* priorities that callers hand to the queue
          RetainPriorities      \* thresholds handed to prune_scan_queue_below

ASSUME EntryPrioritiesAssumption  == EntryPriorities \subseteq Priorities
ASSUME RetainPrioritiesAssumption ==
    RetainPriorities \subseteq Priorities \cup {RetainNothing}

Bounds == 0 .. MaxHeight + 1

Replace(query, entries, force) ==
    [op |-> "replace", query |-> query, entries |-> entries, force |-> force]

NonEmpty(r) == IF r.start = r.end THEN << >> ELSE << r >>

(* One range, as queue_rescans, add_account and a rewind insert it.        *)
EntryCall(s, e, p, force) ==
    Replace(ScanRange(s, e, p), << ScanRange(s, e, p) >>, force)

(* scan_complete: the range [s, e) is scanned; the notes found extend it   *)
(* to [b, a).  Empty extensions are left out.                              *)
ScanCompleteCall(b, s, e, a) ==
    Replace(ScanRange(b, a, Scanned),
            << ScanRange(s, e, Scanned) >> \o NonEmpty(ScanRange(b, s, FoundNote))
                                           \o NonEmpty(ScanRange(e, a, FoundNote)),
            FALSE)

(* update_chain_tip: the tip shard [s, e), then the range [m, n) linking   *)
(* the scanned blocks to the tip, which may be empty.                      *)
ChainTipCall(s, e, m, n, p) ==
    Replace(ScanRange(IF m < s THEN m ELSE s, e, ChainTip),
            << ScanRange(s, e, ChainTip), ScanRange(m, n, p) >>, FALSE)

Calls ==
    {EntryCall(c[1], c[2], p, force) :
        c \in {x \in Bounds \X Bounds : x[1] <= x[2]},
        p \in EntryPriorities, force \in BOOLEAN}
    \cup
    {ScanCompleteCall(c[1], c[2], c[3], c[4]) :
        c \in {x \in Bounds \X Bounds \X Bounds \X Bounds :
                 x[1] <= x[2] /\ x[2] < x[3] /\ x[3] <= x[4]}}
    \cup
    {ChainTipCall(c[1], c[2], c[3], c[4], p) :
        c \in {x \in Bounds \X Bounds \X Bounds \X Bounds :
                 x[1] < x[2] /\ x[3] <= x[4] /\ x[4] <= x[2]},
        p \in EntryPriorities \cap {Historic, ChainTip, Verify}}
    \cup
    [op : {"prune"}, height : Bounds, retain : RetainPriorities]
    \cup
    [op : {"trim"}, height : Heights]

=============================================================================
