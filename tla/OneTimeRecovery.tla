-------------------------- MODULE OneTimeRecovery --------------------------
(***************************************************************************)
(* Private recovery of payments to one-time receivers: the public entry    *)
(* points of one_time_ivk/restore.rs and the issue of receive addresses in *)
(* swap/reservations.rs, over the lookup requests of OneTimeLookups, while *)
(* blocks arrive, the chain is rewound and the receiver directory corrects *)
(* its index.                                                              *)
(*                                                                         *)
(* db is the wallet's database, with the work and the filter capture a     *)
(* worker holds outside it.  A publication is the directory's index of the *)
(* wallet's chain up to a height `end`; one that is not a prefix of it is  *)
(* refused by `accepts` and changes nothing.  Its history is cut into      *)
(* shards of ShardWidth blocks.  Under revision 0 it leaves out the        *)
(* payments omitted, which a corrected index lists.   A record names its *)
(* payment's transaction; the directory may mislabel some.               *)
(***************************************************************************)
EXTENDS OneTimeLookups

CONSTANTS
    ShardWidth,    \* blocks per shard
    FreshLag,      \* how far the marker may trail when an address is issued
    MaxHeight,     \* bound on the chain
    Scenarios      \* what the surroundings may do, see Scenario

(* A scenario is fixed at the start: *)
Scenario ==
    [items      : SUBSET (Txs \cup RefundKeys),  \* what blocks may hold
     omitted    : SUBSET Txs,    \* payments the index of revision 0 leaves out
     mislabeled : SUBSET Txs,    \* payments a record may label with a wrong transaction
     revisions  : Nat,           \* bound on corrections
     rewinds    : Nat,           \* bound on rewinds of the chain
     calls      : SUBSET {"begin", "filter", "issue", "manual", "reset", "birthday", "upgrade"}]

VARIABLE db

vars == <<db>>

Labels == {"true", "wrong"}
NoNote == [label |-> "none", mined |-> NULL, placed |-> FALSE, disputed |-> FALSE]

Init == \E s \in Scenarios :
    db = [scenario |-> s, chain |-> <<>>, rewinds |-> 0, enabled |-> FALSE, rev |-> 0, marker |-> NULL,
          walk |-> [height |-> NULL, next |-> 0, gap |-> 0, done |-> FALSE],
          manual |-> [active |-> FALSE, refunds |-> FALSE, next |-> 0, end |-> NULL, height |-> NULL],
          end |-> 0, upgrade |-> FALSE, birthday |-> 2,
          keys |-> {}, used |-> {}, hold |-> [k \in ReceiveKeys |-> "never"],
          funding |-> [k \in RefundKeys |-> NULL], op |-> [k \in RefundKeys |-> "absent"],
          reported |-> {}, memos |-> {},
          look |-> [k \in Keys |-> NoLookup], cands |-> {},
          notes |-> [tx \in Txs |-> NoNote], raw |-> {},
          work |-> NoWork, capture |-> NoCapture]

(* The payments to k between heights a and b that a publication of the      *)
(* account's revision lists.                                                *)
Visible(d, tx) == d.rev > 0 \/ tx \notin d.scenario.omitted
Listed(d, k, a, b) ==
    {h \in Greater(a, 1)..Lesser(b, Tip(d)) :
        /\ d.chain[h] \in Txs
        /\ Pays[d.chain[h]] = k
        /\ Visible(d, d.chain[h])}

-----------------------------------------------------------------------------
(* Keys and windows. *)

(* register *)
QueuedOnly(d, k) == IF k \in ReceiveKeys THEN QueueHistory(d, k, ACTIVATION) ELSE d
Register(d, k) ==
    IF k \in d.keys THEN d
    ELSE LET e == Bump([d EXCEPT !.keys = @ \cup {k}])
         IN  IF k \in ReceiveKeys THEN QueueHistory(e, k, ACTIVATION) ELSE e

Paid(d) == {k \in d.keys \cap ReceiveKeys : \E tx \in Txs : Pays[tx] = k /\ Credited(d.notes[tx])}

RecoveryEnd(d) == RECEIVE_GAP + (IF Paid(d) = {} THEN 0 ELSE Max(Paid(d)) + 1)

AutomaticEnd(d) == Greater(RecoveryEnd(d), d.end)

Enroll(d, end) == IF end <= d.end THEN d ELSE FencingMonitoring(d, [d EXCEPT !.end = end])

EnsureWindow(d) ==
    LET end == RecoveryEnd(d)
        registered == FoldSet(LAMBDA k, e : Register(e, k), d, (end - RECEIVE_GAP)..(end - 1))
    IN  IF end <= d.end THEN d ELSE Enroll(registered, end)

(* funded *)
Funded(d, k, h) ==
    LET new == d.funding[k] = NULL \/ d.funding[k] > h
        after == QueueHistory([d EXCEPT !.funding[k] = h], k, h)
    IN  FencingMonitoring(d, IF new THEN after ELSE d)

(* recover_refund_memos, for memos within the index gap. *)
RecoverRefundMemos(d) ==
    LET mined == {h \in DOMAIN d.chain : d.chain[h] \in d.memos}
        accepted(e, h) == e.funding[e.chain[h]] # NULL /\ e.funding[e.chain[h]] <= h
    IN  FoldSet(LAMBDA h, e : IF accepted(e, h) THEN e
                              ELSE Funded(Register(e, e.chain[h]), e.chain[h], h),
                d, mined)

EnableOn(d) ==
    RecoverRefundMemos(EnsureWindow(IF d.enabled THEN d ELSE Bump([d EXCEPT !.enabled = TRUE])))

(* accept_memo_evidence *)
AcceptMemoEvidence(d) == IF d.enabled THEN RecoverRefundMemos(d) ELSE EnableOn(d)

-----------------------------------------------------------------------------
(* Progress. *)

(* CHECKED_THROUGH: the key's history is complete from activation through h. *)
CheckedThrough(d, k, h) ==
    LET l == d.look[k]
    IN  /\ k \in d.keys
        /\ l.done >= h /\ l.from # NULL /\ l.from <= ACTIVATION
        /\ l.read
        /\ l.target = NULL
        /\ ~Candidates(d, k)

(* hand_off: a key whose history is complete carries the continuation. *)
DroppedHandOff(d, handed, reason) == d
HandOff(d, handed, reason) ==
    IF handed.key = NULL THEN d
    ELSE [d EXCEPT !.look[handed.key] =
             [@ EXCEPT !.target = Greater(Greater(@, 0), handed.height),
                       !.reasons = @ \cup {reason}, !.cursor.last = 0, !.read = FALSE]]

Nobody == [key |-> NULL, height |-> 0]

(* One turn of progress's loop over the seed walk. *)
WalkTurn(s) ==
    LET w == s.d.walk
        k == w.next
        d == Enroll(Register(s.d, k), k + 1)
        gap == IF k \in d.used THEN 0 ELSE w.gap + 1
    IN  CASE ~s.go -> s
          [] s.go /\ (w.height = NULL \/ w.done) -> [d |-> s.d, handed |-> Nobody, go |-> FALSE]
          [] s.go /\ w.height # NULL /\ ~w.done /\ ~CheckedThrough(d, k, w.height) ->
               LET settled == Settles(d, k, ACTIVATION, w.height)
               IN  [d |-> Enqueue(d, k, ACTIVATION, w.height, {"auto"}),
                    handed |-> IF settled THEN [key |-> k, height |-> w.height] ELSE Nobody,
                    go |-> settled]
          [] OTHER ->
               [d |-> [d EXCEPT !.walk = [@ EXCEPT !.next = k + 1, !.gap = gap, !.done = gap = RECEIVE_GAP]],
                handed |-> IF gap = RECEIVE_GAP THEN Nobody ELSE [key |-> k, height |-> w.height],
                go |-> gap # RECEIVE_GAP]

(* The first receive index at or above the job's cursor that is not checked. *)
FirstUnchecked(d) ==
    LET m == d.manual
    IN  Min({m.end} \cup {i \in m.next..(m.end - 1) : ~CheckedThrough(d, i, m.height)})

(* One turn of manual_progress's loop: funded refund keys, then receive     *)
(* indexes up to the job's end.                                             *)
ManualTurn(s) ==
    LET m == s.d.manual
        refunds == {k \in RefundKeys \cap s.d.keys :
                        /\ s.d.funding[k] # NULL
                        /\ k - MaxIndex - 1 >= m.next
                        /\ ~CheckedThrough(s.d, k, m.height)}
        first == FirstUnchecked(s.d)
        ask(d, k) ==
            LET settled == Settles(d, k, ACTIVATION, m.height)
            IN  [d |-> Enqueue(d, k, ACTIVATION, m.height, {"manual"}),
                 handed |-> IF settled THEN [key |-> k, height |-> m.height] ELSE Nobody,
                 go |-> settled]
        derived(k) ==
            LET d == Register(s.d, k)
            IN  IF k \notin s.d.keys /\ k >= AutomaticEnd(d)
                  THEN [d EXCEPT !.look[k].reasons = {"manual"}] ELSE d
    IN  CASE ~s.go -> s
          [] s.go /\ ~(s.d.enabled /\ m.active) -> [s EXCEPT !.handed = Nobody, !.go = FALSE]
          [] s.go /\ s.d.enabled /\ m.active /\ ~m.refunds ->
               IF refunds # {} THEN ask(s.d, Min(refunds))
               ELSE [s EXCEPT !.d.manual.refunds = TRUE, !.d.manual.next = 0]
          [] s.go /\ s.d.enabled /\ m.active /\ m.refunds /\ m.next >= m.end ->
               [d |-> [s.d EXCEPT !.manual.active = FALSE], handed |-> Nobody, go |-> FALSE]
          [] OTHER ->
               IF first > m.next
                 THEN [s EXCEPT !.d.manual.next = first,
                                !.handed = [key |-> first - 1, height |-> m.height]]
                 ELSE ask(derived(m.next), m.next)

(* A loop of STEP_BUDGET turns that leaves a continuation if it runs out. *)
Budgeted(Turn(_), d, reason) ==
    LET s == FoldLeft(LAMBDA t, i : Turn(t), [d |-> d, handed |-> Nobody, go |-> TRUE],
                      [i \in 1..STEP_BUDGET |-> i])
    IN  HandOff(s.d, s.handed, reason)

ManualProgress(d) == Budgeted(ManualTurn, d, "manual")

(* A request its completed history answers, with no payment left to decide. *)
Answered(d, k) ==
    LET l == d.look[k]
    IN  l.target # NULL /\ l.read /\ l.done >= l.target /\ ~Candidates(d, k)

(* Use evidence that the replacement history no longer holds. *)
OrphanedWhenRead(d, k) == Answered(d, k) /\ ~Unsettled(d, k)
Orphaned(d, k) ==
    /\ Answered(d, k)
    /\ ~Unsettled(d, k)
    /\ ~\E tx \in Txs : Pays[tx] = k /\ Credited(d.notes[tx])

Progress(d) ==
    LET e == [d EXCEPT !.used = {k \in @ : ~Orphaned(d, k)},
                       !.look = [k \in Keys |-> IF Answered(d, k)
                                                  THEN [@[k] EXCEPT !.target = NULL, !.reasons = {}]
                                                  ELSE @[k]]]
    IN  IF e.enabled THEN ManualProgress(EnsureWindow(Budgeted(WalkTurn, e, "auto"))) ELSE e

-----------------------------------------------------------------------------
(* Admission. *)

(* apply_payment and what admit_waiting does with its answer, once the scan *)
(* state and the local tree let it decide as `verdict` says.  A note stored *)
(* under another label is left alone unless raw bytes disputed that label.  *)
ApplyPayment(d, c, verdict) ==
    LET k == Pays[c.tx]
        n == d.notes[c.tx]
        elsewhere == n.label \notin {"none", c.label}
        dequeued == [d EXCEPT !.cands = @ \ {c}]
        stored == [dequeued EXCEPT !.notes[c.tx] =
                      [label |-> c.label, mined |-> c.height, placed |-> TRUE, disputed |-> FALSE]]
        contradicted == c.label = "wrong" /\ c.tx \in d.raw
    IN  CASE elsewhere /\ ~n.disputed -> dequeued
          [] ~(elsewhere /\ ~n.disputed) /\ verdict = "waiting" -> d
          [] ~(elsewhere /\ ~n.disputed) /\ verdict = "stale" -> RefreshWitness(d, c)
          [] ~(elsewhere /\ ~n.disputed) /\ verdict = "decided" /\ contradicted ->
               QueueInvalidated(Invalidate(RewindLookup(dequeued, k, ACTIVATION), k), NULL)
          [] ~(elsewhere /\ ~n.disputed) /\ verdict = "decided" /\ ~contradicted ->
               IF elsewhere THEN stored ELSE [stored EXCEPT !.used = @ \cup {k}]

Verdicts == {"waiting", "stale", "decided"}

Admit(d, verdict) ==
    LET waiting == {c \in d.cands : /\ c.witness # NULL
                                    /\ d.look[Pays[c.tx]].reasons \cap {"auto", "manual"} # {}}
    IN  FencingMonitoring(d, FoldSet(LAMBDA c, e : ApplyPayment(e, c, verdict), d, waiting))

(* admitted: the record names a receipt mined and placed where it says. *)
AdmittedAnywhere(d, tx, label, h) == d.notes[tx].label = label
Admitted(d, tx, label, h) ==
    d.notes[tx] = [label |-> label, mined |-> h, placed |-> TRUE, disputed |-> FALSE]

-----------------------------------------------------------------------------
(* Corrections and publications. *)

Unfinished(m) == m.end # NULL /\ ~(m.refunds /\ m.next >= m.end)

Restarted(m) == IF Unfinished(m) THEN [m EXCEPT !.refunds = FALSE, !.next = 0] ELSE m

RewalkFrom0(w) == IF w.done THEN w ELSE [w EXCEPT !.next = 0, !.gap = 0]

Reserved(d, k) == d.hold[k] \in {"draft", "kept"}

(* correct: a lookup that read the old index starts over. *)
Void(l) ==
    [l EXCEPT !.cursor = NoCursor, !.checked = NULL,
              !.start = IF l.target # NULL THEN Lesser(@, ACTIVATION) ELSE @,
              !.done = NULL, !.from = NULL, !.read = FALSE,
              !.reasons = IF l.target # NULL /\ (l.done # NULL \/ l.checked # NULL)
                            THEN @ \cup {"invalidated"} ELSE @]

Correct(d, rev, height) ==
    LET voided == Bump([d EXCEPT !.rev = rev, !.marker = NULL, !.walk = RewalkFrom0(@),
                                 !.manual = Restarted(@), !.cands = {},
                                 !.look = [k \in Keys |-> Void(@[k])]])
        held == {k \in Monitored(voided) \cap ReceiveKeys : k \notin d.used /\ Reserved(d, k)}
    IN  QueueInvalidated(
            FoldSet(LAMBDA k, e : Enqueue(e, k, ACTIVATION, height, {"auto", "invalidated"}),
                    voided, held),
            height)

(* complete_marker, when the wallet is fully scanned to height s (NULL: nowhere). *)
CompleteMarker(end, s) == IF s = NULL THEN NULL ELSE Lesser(end, s)

(* first_bootstraps: the untouched receive requests queued past `end`. *)
Bootstraps(d, end) ==
    {k \in d.keys \cap ReceiveKeys :
        /\ d.look[k].target > end
        /\ [d.look[k] EXCEPT !.target = NULL, !.start = 0] =
              [NoLookup EXCEPT !.exists = TRUE, !.reasons = {"auto"}]
        /\ k \notin d.used
        /\ d.hold[k] = "never"
        /\ k < d.end
        /\ \A tx \in Txs : Pays[tx] = k => d.notes[tx].label = "none"
        /\ ~Candidates(d, k)}

LowerBootstraps(d, end) ==
    LET keys == Bootstraps(d, end)
    IN  IF keys = {} THEN d
        ELSE Bump([d EXCEPT !.look = [k \in Keys |-> IF k \in keys THEN [@[k] EXCEPT !.target = end]
                                                                 ELSE @[k]]])

(* begin, once the account is ready: the walk starts, an unstarted account   *)
(* lowers its first requests, and a complete publication, or the first one   *)
(* whose requests were lowered, asks for every monitored key and moves the   *)
(* marker.                                                                  *)
StartWalk(d, end) == [d EXCEPT !.walk.height = IF @ = NULL THEN end ELSE @]

AskMonitored(d, end) ==
    FoldSet(LAMBDA k, e : Enqueue(e, k, HistoryStart(e, k), end, {"auto"}), d, Monitored(d))

MoveMarker(d, marker) ==
    IF marker # NULL /\ Greater(d.marker, 0) <= marker THEN [d EXCEPT !.marker = marker] ELSE d

Ask(d, end, marker, asks) ==
    IF asks THEN FencingMonitoring(d, MoveMarker(AskMonitored(d, end), marker)) ELSE d

BeginReady(d, end, marker, try, complete) ==
    Ask(IF try THEN LowerBootstraps(d, end) ELSE d, end, marker,
        complete \/ (try /\ Bootstraps(d, end) # {}))

(* begin, with a publication the wallet accepts. *)
BeginOn(d, end, rev, complete, s) ==
    LET unstarted == d.walk.height = NULL /\ d.marker = NULL /\ d.manual.end = NULL
        marker == CompleteMarker(end, s)
        corrected == IF rev > d.rev THEN Correct(d, rev, end) ELSE d
        ready == RecoverRefundMemos(EnsureWindow([corrected EXCEPT !.upgrade = FALSE]))
    IN  Progress(BeginReady(StartWalk(ready, end), end, marker, unstarted /\ marker # NULL, complete))

(* manual, after its begin accepted the publication. *)
StartManual(d, end, bound) ==
    LET m == d.manual
        resume == m.end # NULL /\ (~m.refunds \/ m.next < m.end)
        wanted == IF bound = NULL THEN AutomaticEnd(d) ELSE bound
    IN  ManualProgress(Bump([d EXCEPT !.manual =
            IF resume
              THEN [m EXCEPT !.active = TRUE, !.end = Greater(wanted, @)]
              ELSE [active |-> TRUE, refunds |-> FALSE, next |-> 0, end |-> wanted, height |-> end]]))

ManualOn(d, end, rev, s, bound) == StartManual(BeginOn(d, end, rev, FALSE, s), end, bound)

(* A publication of the wallet's own chain that `accepts` takes. *)
Accepts(d, end, rev) == end \in 1..Tip(d) /\ rev >= d.rev

Scanned(d) == {NULL, Tip(d)}

-----------------------------------------------------------------------------
(* Actions: the calls of the application and its worker. *)

Enable ==
    /\ ~db.enabled
    /\ db' = EnableOn(db)

Begin(end, rev, complete, s) ==
    /\ "begin" \in db.scenario.calls
    /\ db.enabled
    /\ Accepts(db, end, rev)
    /\ db' = BeginOn(db, end, rev, complete, s)

CaptureReceivers ==
    /\ "filter" \in db.scenario.calls
    /\ db.enabled
    /\ ~db.capture.taken
    /\ db' = [db EXCEPT !.capture = [taken |-> TRUE, keys |-> Monitored(db)]]

(* record_filter_span: the span continues the marker up to a fully scanned  *)
(* block.  Filters have no false negatives; `extra` is a false positive.    *)
RecordFilterSpan(end, extra) ==
    LET from == IF db.marker = NULL THEN ACTIVATION ELSE db.marker + 1
        hits == {<<k, h>> \in db.capture.keys \X (from..end) : h \in Listed(db, k, from, end)}
                    \cup {<<k, end>> : k \in extra \cap db.capture.keys}
        queued == FoldSet(LAMBDA x, e : Enqueue(e, x[1], HistoryStart(e, x[1]), x[2],
                                                {"auto", "invalidated"}),
                          db, hits)
    IN  /\ db.enabled
        /\ db.capture.taken
        /\ end \in from..Tip(db)
        /\ db' = Progress(FencingMonitoring(db, [queued EXCEPT !.marker = end]))

(* record_filter_span, with a span of a newer revision. *)
CorrectByFilter(rev) ==
    /\ db.enabled
    /\ rev > db.rev
    /\ db' = Correct(db, rev, Tip(db))

(* status: a pending lookup handed to the worker. *)
SkippingHeight(l) == IF l.checked = NULL THEN l.start ELSE Greater(l.start, l.checked + 2)
NextHeight(l) == IF l.checked = NULL THEN l.start ELSE Greater(l.start, l.checked + 1)

Due(l) == l.target # NULL /\ l.reasons \cap {"auto", "manual"} # {} /\ ~l.read

(* Whether record_lookup still takes a step for w. *)
Current(d, w) ==
    /\ w.key # NULL
    /\ Due(d.look[w.key])
    /\ d.look[w.key].target >= w.through
    /\ NextHeight(d.look[w.key]) = w.from
    /\ d.look[w.key].cursor = w.cursor

CaptureLookup(k) ==
    /\ db.enabled
    /\ ~db.upgrade
    /\ k \in db.keys
    /\ Due(db.look[k])
    /\ ~Current(db, db.work)
    /\ db' = [db EXCEPT !.work = [key |-> k, from |-> NextHeight(db.look[k]),
                                  through |-> db.look[k].target, cursor |-> db.look[k].cursor]]

(* The one step valid_step allows from w's position in the publication      *)
(* ending at `end`, when it reads m records: the heights read, the height   *)
(* checked through and the next cursor.  Steps that skip several excluded   *)
(* shards at once are sequences of these.                                   *)
Step(d, w, end, m) ==
    LET resumed == w.cursor.end = end
        shard == IF resumed THEN w.cursor.shard ELSE (Greater(w.from, 1) - 1) \div ShardWidth
        last == (end - 1) \div ShardWidth
        high == Lesser(ShardWidth * (shard + 1), end)
        records == SetToSortSeq(Listed(d, w.key, ShardWidth * shard + 1, high), <)
        skip == IF resumed THEN w.cursor.last ELSE 0
    IN  IF w.from > end
          THEN [valid |-> m = 0, read |-> {}, checked |-> NULL, next |-> NoCursor]
          ELSE [valid |-> IF skip < Len(records) THEN m \in 1..(Len(records) - skip) ELSE m = 0,
                read |-> {records[i] : i \in (skip + 1)..Lesser(skip + m, Len(records))},
                checked |-> IF skip + m < Len(records) THEN NULL ELSE high,
                next |-> CASE skip + m < Len(records) -> [end |-> end, shard |-> shard, last |-> skip + m]
                           [] skip + m >= Len(records) /\ shard < last ->
                                [end |-> end, shard |-> shard + 1, last |-> 0]
                           [] OTHER -> NoCursor]

(* queue_payment for each record read that is not admitted already. *)
QueuePayments(d, k, heights, wrong, end) ==
    LET label(tx) == IF tx \in wrong THEN "wrong" ELSE "true"
        new == {h \in heights : h >= d.birthday /\ ~Admitted(d, d.chain[h], label(d.chain[h]), h)}
        fresh == {[tx |-> d.chain[h], label |-> label(d.chain[h]), height |-> h, witness |-> end] : h \in new}
    IN  [d EXCEPT !.cands = {c \in @ : \A f \in fresh : <<c.tx, c.label>> # <<f.tx, f.label>>} \cup fresh]

(* record_lookup: a read that leaves a candidate unbound rewinds to it. *)
RecordStep(d, k, step, end) ==
    LET l == d.look[k]
        joined == IF l.done # NULL /\ l.from <= l.start /\ l.start <= l.done + 1 THEN l.from ELSE l.start
        unbound == {c.height : c \in {x \in d.cands : Pays[x.tx] = k /\ x.witness = NULL}}
        finished == [d EXCEPT !.look[k] = [l EXCEPT !.checked = end, !.cursor = NoCursor,
                                                    !.read = end >= l.target,
                                                    !.done = end, !.from = joined]]
    IN  CASE step.next # NoCursor ->
               [d EXCEPT !.look[k] = [l EXCEPT !.checked = IF step.checked = NULL THEN @ ELSE step.checked,
                                               !.cursor = step.next]]
          [] step.next = NoCursor /\ unbound = {} -> finished
          [] step.next = NoCursor /\ unbound # {} -> RewindLookup(finished, k, Min(unbound))

RecordLookup(end, m, wrong, verdict) ==
    LET w == db.work
        step == Step(db, w, end, m)
        read == QueuePayments([db EXCEPT !.work = NoWork], w.key, step.read, wrong, end)
    IN  /\ db.enabled
        /\ Current(db, w)
        /\ Accepts(db, end, db.rev)
        /\ end >= w.through
        /\ step.valid
        /\ db' = Progress(Admit(FencingMonitoring(db, RecordStep(read, w.key, step, end)), verdict))

Manual(end, rev, s, bound) ==
    /\ "manual" \in db.scenario.calls
    /\ db.enabled
    /\ Accepts(db, end, rev)
    /\ db' = ManualOn(db, end, rev, s, bound)

CancelManual ==
    /\ "manual" \in db.scenario.calls
    /\ db.manual.active
    /\ db' = QueueInvalidated(
                Bump([db EXCEPT !.manual.active = FALSE,
                                !.look = [k \in Keys |-> [@[k] EXCEPT !.reasons = @ \ {"manual"}]]]),
                NULL)

Reset ==
    /\ "reset" \in db.scenario.calls
    /\ db.enabled
    /\ db' = Correct(db, db.rev, Tip(db))

Recheck(end, s) ==
    /\ "manual" \in db.scenario.calls
    /\ db.enabled
    /\ Accepts(db, end, db.rev)
    /\ db' = ManualOn(IF Unfinished(db.manual) THEN db ELSE Correct(db, db.rev, Tip(db)),
                      end, db.rev, s, NULL)

RequireUpgrade ==
    /\ "upgrade" \in db.scenario.calls
    /\ db.enabled
    /\ ~db.upgrade
    /\ db' = [db EXCEPT !.upgrade = TRUE]

-----------------------------------------------------------------------------
(* Issue of receive addresses. *)

(* RECEIVE_PENDING: the key may have been paid already. *)
ReceivePending(d, k) == "invalidated" \in d.look[k].reasons \/ Candidates(d, k)

Fresh(d) == d.marker # NULL /\ Tip(d) - d.marker <= FreshLag

ReadOnce(l) == l.done # NULL
(* Its own history was read to completion since it was last queued. *)
ReadNow(l) == l.target = NULL /\ l.read /\ l.done # NULL

(* The lowest index that is not paid, a candidate's or held by a quote. *)
LowestFree(d) ==
    Min({i \in 0..(MaxIndex + 1) :
            \/ i \notin d.keys
            \/ i \notin d.used /\ ~Candidates(d, i) /\ d.hold[i] # "kept"})

(* prepare_receive_reservation: a draft is resumed, or a new address issued *)
(* once its own history was read to completion.                             *)
Issue(d, k) ==
    IF ReadNow(d.look[k]) /\ ~Candidates(d, k) /\ Fresh(d) THEN [d EXCEPT !.hold[k] = "draft"] ELSE d

PrepareKey(d, k) ==
    IF k >= RecoveryEnd(d) \/ (k \in d.keys /\ d.hold[k] = "draft") THEN d ELSE Issue(Register(d, k), k)

PrepareOn(d) == PrepareKey(d, LowestFree(d))

Prepare ==
    /\ "issue" \in db.scenario.calls
    /\ db.enabled
    /\ db' = PrepareOn(EnsureWindow(db))

(* A draft becomes a quote whose instructions were shown, or expires. *)
Quote(k) ==
    /\ db.hold[k] = "draft"
    /\ k \notin db.used
    /\ ~ReceivePending(db, k)
    /\ db' = [db EXCEPT !.hold[k] = "kept"]

(* release, whenever the operations on the key let go of it. *)
Release(k) ==
    /\ Reserved(db, k)
    /\ db' = [db EXCEPT !.hold[k] = "released"]

-----------------------------------------------------------------------------
(* The chain and the rest of the wallet. *)

(* put_blocks, with after_blocks_stored. *)
StoreBlock(item, verdict) ==
    LET d == [db EXCEPT !.chain = Append(@, item)]
        e == IF item \in d.memos THEN AcceptMemoEvidence(d) ELSE d
    IN  /\ Tip(db) < MaxHeight
        /\ item = NoItem \/ \A h \in DOMAIN db.chain : db.chain[h] # item
        /\ db' = IF e.enabled THEN Progress(Admit(e, verdict)) ELSE e

(* one_time_rewind::truncate and the un-mining that follows it. *)
Truncate(floor) ==
    LET above(h) == h > floor
        orphaned(k) == \E tx \in Txs : Pays[tx] = k /\ above(db.notes[tx].mined)
        lose(l, k) == IF ~orphaned(k) THEN l
                      ELSE [l EXCEPT !.exists = TRUE, !.target = Greater(Greater(@, 0), Tip(db)),
                                     !.reasons = @ \cup {"auto", "invalidated"},
                                     !.start = IF l.target = NULL THEN floor + 1 ELSE Lesser(@, floor + 1)]
        reach(l) == \/ above(l.done) \/ above(l.target) \/ above(l.checked)
                    \/ l.start > floor + 1 \/ l.cursor # NoCursor
        clip(l) == IF ~reach(l) THEN l
                   ELSE [l EXCEPT !.cursor = NoCursor, !.read = FALSE,
                                  !.reasons = IF above(l.done) \/ above(l.checked)
                                                THEN @ \cup {"invalidated"} ELSE @,
                                  !.start = Lesser(@, floor + 1),
                                  !.checked = Lesser(@, floor),
                                  !.from = IF above(l.done) /\ ~(@ <= floor) THEN NULL ELSE @,
                                  !.done = IF above(@) THEN IF l.from <= floor THEN floor ELSE NULL ELSE @]
        w == db.walk
        rewound == [db EXCEPT
            !.marker = IF above(@) THEN IF floor = 0 THEN NULL ELSE floor ELSE @,
            !.walk = IF above(w.height) THEN RewalkFrom0(w) ELSE w,
            !.manual = IF above(@.height) THEN Restarted(@) ELSE @,
            !.look = [k \in Keys |-> clip(lose(@[k], k))],
            !.funding = [k \in RefundKeys |-> IF above(@[k]) THEN NULL ELSE @[k]],
            !.notes = [tx \in Txs |-> IF above(@[tx].mined) THEN [@[tx] EXCEPT !.placed = FALSE] ELSE @[tx]],
            !.cands = {c \in @ : ~above(c.height)}]
        stale == {c \in rewound.cands : above(c.witness)}
        queued == QueueInvalidated(
                      FoldSet(LAMBDA c, e : RefreshWitness(e, c), Bump(rewound), stale), floor)
    IN  /\ db.rewinds < db.scenario.rewinds
        /\ floor \in 0..(Tip(db) - 1)
        /\ db' = [queued EXCEPT
                     !.chain = SubSeq(@, 1, floor),
                     !.rewinds = @ + 1,
                     !.notes = [tx \in Txs |-> IF above(@[tx].mined) THEN [@[tx] EXCEPT !.mined = NULL]
                                                                     ELSE @[tx]]]

(* reopen_discovery, when the account's birthday is lowered. *)
LowerBirthday ==
    LET redo(l) == [NoLookup EXCEPT !.exists = TRUE, !.target = Greater(Greater(l.target, 0), Tip(db)),
                                    !.reasons = l.reasons \cup {"auto", "invalidated"}]
        known(k) == k \in db.keys /\ (k \in RefundKeys => db.funding[k] # NULL)
    IN  /\ "birthday" \in db.scenario.calls
        /\ db.birthday > 1
        /\ db' = QueueInvalidated(
                    Bump([db EXCEPT !.birthday = 1, !.marker = NULL, !.cands = {},
                                    !.walk = [height |-> NULL, next |-> 0, gap |-> 0, done |-> FALSE],
                                    !.look = [k \in Keys |-> IF known(k) THEN redo(@[k]) ELSE @[k]]]),
                    NULL)

(* check_raw_receipts: the bytes of the transaction a wrong label names. *)
StoreRaw(tx) ==
    LET k == Pays[tx]
        d == [db EXCEPT !.raw = @ \cup {tx}]
        disputed == [d EXCEPT !.notes[tx].disputed = TRUE]
        again == QueueInvalidated(
                    QueueHistory(Invalidate(RewindLookup(disputed, k, ACTIVATION), k), k, ACTIVATION),
                    NULL)
    IN  /\ tx \in db.scenario.mislabeled \ db.raw
        /\ db' = IF db.notes[tx].label = "wrong" THEN FencingMonitoring(db, again) ELSE d

(* A stored transaction brings the memo of a mined funding transaction. *)
RetrieveMemo(k) ==
    /\ k \in RefundKeys \ db.memos
    /\ \E h \in DOMAIN db.chain : db.chain[h] = k
    /\ db' = AcceptMemoEvidence([db EXCEPT !.memos = @ \cup {k}])

(* lifecycle::record on k's operation, and record_operation the first time. *)
RecordStatus(k, op, reported) ==
    /\ k \in db.keys \cap RefundKeys
    /\ IF db.op[k] = "absent" THEN op = "open" /\ reported = {}
                              ELSE op \in {"open", "noreceipt", "promised"}
    /\ db' = FencingMonitoring(db, [db EXCEPT !.op[k] = op, !.reported = @ \cup reported])

Next ==
    \/ Enable
    \/ \E end \in 1..Tip(db), rev \in db.rev..db.scenario.revisions, complete \in BOOLEAN, s \in Scanned(db) :
          Begin(end, rev, complete, s)
    \/ CaptureReceivers
    \/ \E end \in 1..Tip(db), extra \in {{}} \cup {{k} : k \in Keys} : RecordFilterSpan(end, extra)
    \/ \E rev \in 1..db.scenario.revisions : CorrectByFilter(rev)
    \/ \E k \in Keys : CaptureLookup(k)
    \/ \E end \in 1..Tip(db), m \in 0..MaxHeight, wrong \in {{}, db.scenario.mislabeled}, verdict \in Verdicts :
          RecordLookup(end, m, wrong, verdict)
    \/ \E end \in 1..Tip(db), s \in Scanned(db), bound \in {NULL, MaxIndex + 1} :
          Manual(end, db.rev, s, bound)
    \/ CancelManual
    \/ Reset
    \/ \E end \in 1..Tip(db), s \in Scanned(db) : Recheck(end, s)
    \/ RequireUpgrade
    \/ Prepare
    \/ \E k \in ReceiveKeys : Quote(k) \/ Release(k)
    \/ \E item \in db.scenario.items \cup {NoItem}, verdict \in Verdicts : StoreBlock(item, verdict)
    \/ \E floor \in 0..MaxHeight : Truncate(floor)
    \/ LowerBirthday
    \/ \E tx \in db.scenario.mislabeled : StoreRaw(tx)
    \/ \E k \in RefundKeys : RetrieveMemo(k)
    \/ \E k \in RefundKeys, op \in {"open", "noreceipt", "promised"} :
          \E reported \in {{}, {tx \in Txs : Pays[tx] = k}} : RecordStatus(k, op, reported)

Spec == Init /\ [][Next]_vars

(* The worker keeps taking due lookups, and its steps under the newest       *)
(* publication are not always refused: their witnesses are checked against a *)
(* tree that ordinary sync completes.  The last conjunct is strong fairness  *)
(* of Answers, with ENABLED written out.                                    *)
Answers == \E m \in 0..MaxHeight : RecordLookup(Tip(db), m, {}, "decided")

Answerable == db.enabled /\ Current(db, db.work) /\ Tip(db) >= Greater(db.work.through, 1)

FairSpec ==
    /\ Spec
    /\ WF_vars(\E k \in Keys : CaptureLookup(k))
    /\ []<>Answerable => []<><<Answers>>_vars

-----------------------------------------------------------------------------
(* Properties. *)

Heights == {NULL} \cup 0..MaxHeight
Reasons == {"auto", "manual", "invalidated"}

TypeOK ==
    /\ db.scenario \in Scenarios
    /\ Tip(db) <= MaxHeight
    /\ db.marker \in {NULL} \cup 1..Tip(db)
    /\ db.end \in 0..(MaxIndex + 1)
    /\ db.keys \subseteq Keys
    /\ db.used \subseteq db.keys
    /\ \A k \in Keys :
          LET l == db.look[k]
          IN  /\ {l.target, l.checked, l.done, l.from} \subseteq Heights
              /\ l.reasons \subseteq Reasons
              /\ (l.done = NULL) = (l.from = NULL)
              /\ l.exists => k \in db.keys

(* The payment in block h is credited where the block is, or waits for admission. *)
Held(d, h) ==
    LET n == d.notes[d.chain[h]]
    IN  \/ n.mined = h /\ n.placed /\ ~n.disputed
        \/ \E c \in d.cands : c.tx = d.chain[h] /\ c.height = h

(* Completed and partial coverage never claim history that hides a payment:  *)
(* each one the directory lists inside it is credited or a candidate.        *)
CoverageSound ==
    \A k \in db.keys :
        LET l == db.look[k]
            claimed == (IF l.done = NULL THEN {} ELSE l.from..l.done)
                           \cup (IF l.checked = NULL THEN {} ELSE l.start..l.checked)
        IN  \A h \in claimed : h \in Listed(db, k, db.birthday, Tip(db)) => Held(db, h)

(* A lookup that will still read height h for k. *)
Owed(d, k, h) ==
    LET l == d.look[k]
    IN  Due(l) /\ h <= l.target /\ NextHeight(l) <= h

(* The marker never passes a payment to a monitored key that nobody reads. *)
MarkerSound ==
    \A k \in Monitored(db) :
        \A h \in Listed(db, k, Greater(db.birthday, HistoryStart(db, k)), db.marker) :
            Held(db, h) \/ Owed(db, k, h)

(* A filter request captured with an old receiver set cannot commit. *)
CaptureCurrent == db.capture.taken => db.capture.keys = Monitored(db)

(* A receiver held by invalidated history has a lookup that reads it again   *)
(* or a payment being decided.                                               *)
Lifting(d, k) == Due(d.look[k]) \/ Candidates(d, k)
HoldsHaveWork ==
    \A k \in Monitored(db) : "invalidated" \in db.look[k].reasons => Lifting(db, k)

(* A hold that no work can lift is lifted by the next progress, at the       *)
(* latest when a block is stored.                                            *)
HoldsLift ==
    \A k \in Monitored(db) :
        "invalidated" \in db.look[k].reasons /\ ~Lifting(db, k) =>
            "invalidated" \notin Progress(db).look[k].reasons

Active(l) == l.reasons \cap {"auto", "manual"} # {}

(* A completed read keeps no cursor, and a candidate without a witness has   *)
(* an unread lookup to bind it again, unless the user paused that lookup.    *)
ReadsConsistent ==
    /\ \A c \in db.cands : LET l == db.look[Pays[c.tx]]
                           IN  c.witness = NULL /\ Active(l) => l.target # NULL /\ ~l.read
    /\ \A k \in db.keys : db.look[k].read => db.look[k].cursor = NoCursor

Stalled(d) ==
    /\ d.enabled /\ ~d.upgrade
    /\ \A k \in d.keys : ~Due(d.look[k])
    /\ d.manual.active \/ (~d.walk.done /\ d.walk.height # NULL)
    /\ \A c \in d.cands : c.witness = NULL

(* Recovery never stalls: while it is enabled and the service understood, it *)
(* exposes a lookup, waits for sync or a first publication, or is complete.  *)
(* A rewind may leave an answered request behind, which the progress of the  *)
(* next stored block settles.                                                *)
NoStall ==
    Stalled(db) => (\E k \in db.keys : Answered(db, k)) /\ ~Stalled(Progress(db))

(* A paid address is marked used. *)
PaidUsed == \A tx \in Txs : Credited(db.notes[tx]) => Pays[tx] \in db.used

(* A newly issued address has no payment at or below the marker. *)
IssuedUnpaid ==
    [][\A k \in ReceiveKeys : db'.hold[k] = "draft" /\ db.hold[k] # "draft" =>
            Listed(db, k, db.birthday, db.marker) = {}]_vars

OnChainAt(tx, h) == h \in DOMAIN db.chain /\ db.chain[h] = tx

Marked(tx) ==
    /\ Pays[tx] \in Monitored(db)
    /\ Visible(db, tx)
    /\ \E h \in db.birthday..db.marker : OnChainAt(tx, h)

Resolved(tx) ==
    \/ Credited(db.notes[tx])
    \/ \E c \in db.cands : c.tx = tx /\ c.witness # NULL
    \/ \A h \in 1..MaxHeight : ~OnChainAt(tx, h)

(* A payment to a monitored receiver that the marker passed is eventually    *)
(* credited or waits for ordinary sync alone, unless the chain drops it.     *)
Recovers == \A tx \in Txs : Marked(tx) ~> Resolved(tx)
=============================================================================
