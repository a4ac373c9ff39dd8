--------------------------- MODULE OneTimeLookups ---------------------------
(***************************************************************************)
(* The lookup requests of one-time receivers: what the functions of        *)
(* one_time_ivk/restore/queue.rs and one_time_rewind.rs do to the wallet   *)
(* database of one account.  Every operator takes the database d and       *)
(* returns the database after the call, so that a public entry point,      *)
(* which is one SQLite transaction, is a composition of these calls in the *)
(* order of the code.                                                      *)
(*                                                                         *)
(* Receive keys are their indexes 0..MaxIndex, refund keys are the members *)
(* of RefundKeys.  A block holds at most one item that matters here: a     *)
(* transaction paying a one-time key, or the funding memo of a refund key  *)
(* (the key itself stands for it).  Heights start at ACTIVATION; NULL is   *)
(* below every height, so a comparison with it is false as in SQL.         *)
(***************************************************************************)
EXTENDS Integers, Sequences, FiniteSets, FiniteSetsExt, SequencesExt

CONSTANTS
    Txs,                 \* transactions paying a one-time key
    Pays,                \* the key each of them pays
    MaxIndex,            \* the largest receive index the instance derives
    RefundKeys,          \* refund keys another device may have funded
    RECEIVE_GAP,         \* unpaid receive indexes derived past the last paid one
    STEP_BUDGET,         \* cursor entries one progress step may advance
    MEMO_REFUND_WINDOW   \* blocks a memo-only refund key is monitored

ACTIVATION == 1
NULL == -1
ReceiveKeys == 0..MaxIndex
Keys == ReceiveKeys \cup RefundKeys
NoItem == NULL

NoCursor == [end |-> NULL, shard |-> 0, last |-> 0]

NoLookup == [exists |-> FALSE, target |-> NULL, reasons |-> {}, start |-> 0,
             checked |-> NULL, cursor |-> NoCursor, read |-> FALSE,
             done |-> NULL, from |-> NULL]

NoWork == [key |-> NULL, from |-> 0, through |-> 0, cursor |-> NoCursor]
NoCapture == [taken |-> FALSE, keys |-> {}]

Greater(a, b) == IF a > b THEN a ELSE b
Lesser(a, b) == IF a < b THEN a ELSE b

(* The highest block the wallet holds, 0 if it holds none. *)
Tip(d) == Len(d.chain)

(* The account's generation only ever gates answers captured under an      *)
(* earlier one, by equality.  Advancing it drops what a worker captured.   *)
Unfenced(d) == d
Bump(d) == [d EXCEPT !.work = NoWork, !.capture = NoCapture]

Candidates(d, k) == \E c \in d.cands : Pays[c.tx] = k

-----------------------------------------------------------------------------
(* enqueue: what a request of [from, through] can build on. *)
Covered(l, from) == IF l.done # NULL /\ l.from <= from THEN l.done ELSE NULL

(* enqueue returned true: completed coverage answers the request. *)
Settles(d, k, from, through) ==
    LET l == d.look[k]
    IN  /\ l.exists
        /\ l.target = NULL
        /\ Covered(l, from) >= through
        /\ ~Candidates(d, k)

Enqueue(d, k, from, through, reason) ==
    LET l == d.look[k]
        covered == Covered(l, from)
        begin == IF covered # NULL /\ from <= covered + 1 THEN covered + 1 ELSE from
        lowered == begin < l.start
        new == CASE ~l.exists ->
                      [NoLookup EXCEPT !.exists = TRUE, !.target = through,
                                       !.reasons = reason, !.start = from]
                 [] l.exists /\ Settles(d, k, from, through) ->
                      [l EXCEPT !.read = TRUE, !.reasons = @ \ {"invalidated"}]
                 [] l.exists /\ l.target = NULL /\ ~Settles(d, k, from, through) ->
                      [l EXCEPT !.target = through, !.reasons = @ \cup reason,
                                !.start = begin, !.checked = NULL, !.cursor = NoCursor,
                                !.read = covered >= through]
                 [] l.exists /\ l.target # NULL ->
                      [l EXCEPT !.target = Greater(@, through), !.reasons = @ \cup reason,
                                !.start = Lesser(@, begin),
                                !.checked = IF lowered THEN NULL ELSE @,
                                !.cursor = IF lowered THEN NoCursor ELSE @,
                                !.read = /\ @
                                         /\ ~lowered
                                         /\ covered >= Greater(through, l.target)]
    IN  [d EXCEPT !.look[k] = new]

(* rewind_lookup: read k's history again from height h on. *)
RewindLookup(d, k, h) ==
    LET r == d.look[k].reasons
        e == Enqueue(d, k, h, h, IF r \cap {"auto", "manual"} # {} THEN r ELSE {"auto"})
        l == e.look[k]
        void == l.done >= h
    IN  [e EXCEPT !.look[k] =
            [l EXCEPT !.start = Lesser(@, h),
                      !.checked = IF @ >= h THEN h - 1 ELSE @,
                      !.from = IF void /\ ~(@ < h) THEN NULL ELSE @,
                      !.done = IF void THEN IF l.from < h THEN h - 1 ELSE NULL ELSE @,
                      !.cursor = NoCursor,
                      !.read = FALSE]]

Invalidate(d, k) ==
    [d EXCEPT !.look[k].reasons = IF d.look[k].exists THEN @ \cup {"invalidated"} ELSE @]

DropWitness(d, c) ==
    [d EXCEPT !.cands = {IF x = c THEN [c EXCEPT !.witness = NULL] ELSE x : x \in @}]
RefreshWitness(d, c) ==
    RewindLookup([d EXCEPT !.cands = {IF x = c THEN [c EXCEPT !.witness = NULL] ELSE x : x \in @}],
                 Pays[c.tx], c.height)

(* The processed frontier: the higher of the marker and the highest block. *)
Frontier(d) == Greater(d.marker, Tip(d))

QueueHistory(d, k, from) == Enqueue(d, k, from, Greater(Frontier(d), 0), {"auto"})

(* queue_invalidated: a hold never stands without work that can lift it. *)
Unqueued(d, cap) == d
QueueInvalidated(d, cap) ==
    LET through == IF cap = NULL THEN Frontier(d) ELSE Lesser(cap, Frontier(d))
        due(k) == /\ "invalidated" \in d.look[k].reasons
                  /\ \/ d.look[k].target = NULL
                     \/ d.look[k].reasons \cap {"auto", "manual"} = {}
                  /\ \/ k \in ReceiveKeys /\ k < d.end
                     \/ k \in RefundKeys /\ d.funding[k] # NULL
        again(l) == [l EXCEPT !.reasons = @ \cup {"auto"},
                              !.read = FALSE,
                              !.checked = CASE l.target # NULL -> @
                                            [] l.target = NULL /\ l.from # NULL /\ l.from <= l.start -> l.done
                                            [] OTHER -> NULL,
                              !.target = Greater(Greater(@, 0), through)]
    IN  [d EXCEPT !.look = [k \in Keys |-> IF due(k) THEN again(@[k]) ELSE @[k]]]

-----------------------------------------------------------------------------
(* Monitoring. *)

Credited(n) == n.label # "none" /\ n.mined # NULL

HistoryStart(d, k) ==
    IF k \in RefundKeys THEN Greater(d.funding[k], ACTIVATION) ELSE ACTIVATION

(* REPAIR_KEY: a receipt of k is unmined, unplaced or disputed.  No         *)
(* transaction of the model has a known expiry height.                      *)
RepairKey(d, k) ==
    \E tx \in Txs : /\ Pays[tx] = k
                    /\ d.notes[tx].label # "none"
                    /\ \/ d.notes[tx].mined = NULL
                       \/ ~d.notes[tx].placed
                       \/ d.notes[tx].disputed

(* UNSETTLED: a promised receipt that no reported transaction delivered. *)
Unsettled(d, k) ==
    /\ k \in RefundKeys
    /\ d.op[k] = "promised"
    /\ ~\E tx \in d.reported : /\ Pays[tx] = k
                               /\ Credited(d.notes[tx])
                               /\ d.notes[tx].label = "true"
                               /\ ~d.notes[tx].disputed

RefundRetired(d, k) ==
    /\ IF d.op[k] = "absent"
         THEN d.marker >= d.funding[k] + MEMO_REFUND_WINDOW
         ELSE d.op[k] \in {"noreceipt", "promised"}
    /\ ~Unsettled(d, k)
    /\ ~RepairKey(d, k)
    /\ ~Candidates(d, k)

Monitored(d) ==
    {k \in d.keys : \/ k \in ReceiveKeys /\ k < d.end
                    \/ k \in RefundKeys /\ d.funding[k] # NULL /\ ~RefundRetired(d, k)}

(* fencing_monitoring: `after` is the database once the change ran on       *)
(* `before`.  Keys that enter monitoring get their history queued, and any  *)
(* change of the set advances the generation.                               *)
FencingMonitoring(before, after) ==
    LET old == Monitored(before)
        new == Monitored(after)
        queued == FoldSet(LAMBDA k, e : QueueHistory(e, k, HistoryStart(after, k)),
                          after, new \ old)
    IN  IF new = old THEN queued ELSE Bump(queued)

=============================================================================
