-------------------------- MODULE SwapReservations --------------------------
(***************************************************************************)
(* Incoming swap quotes: which receive index is reserved, which quote of a *)
(* reservation was shown to the user, what the provider reported about it, *)
(* and when the index may go to another quote.                             *)
(*                                                                         *)
(* Every call of the wallet is one database transaction.  Around it, true  *)
(* time passes, the device clock is off by a fixed skew, blocks carry the  *)
(* true time at which they were mined, and the provider takes deposits,    *)
(* pays out and answers status requests, in any order of arrival.  The     *)
(* recovery of payments (module OneTimeRecovery) is seen through the       *)
(* columns it writes: a key is used, or its history is pending.            *)
(***************************************************************************)
EXTENDS Integers, Sequences, FiniteSets, FiniteSetsExt

CONSTANTS
    RECEIVE_GAP,        \* indexes issued above the highest paid one
    STATUS_FRESH,       \* STATUS_FRESH_SECONDS
    STATUS_GRACE,       \* STARTED_STATUS_GRACE_SECONDS
    Lifetimes,          \* how long after the request a deadline may lie
    Skews,              \* how far the device clock may be off
    MaxIndex,           \* bound: the highest index
    MaxOperations,      \* bound: quotes requested
    MaxBusy,            \* bound: quotes requested, plus statuses on their way
    MaxReorgs,          \* bound: payouts dropped from the chain
    MaxTime             \* bound: true time

ASSUME SwapAssumption ==
    /\ {RECEIVE_GAP, STATUS_FRESH, STATUS_GRACE, MaxIndex} \subseteq Nat
    /\ Lifetimes \subseteq Nat /\ Skews \subseteq Int

VARIABLES
    time,       \* true time
    skew,       \* the device clock, less true time
    block,      \* time of the latest stored block
    keys,       \* rows of ironwood_one_time_keys with purpose 1, by index
    ops,        \* table ironwood_one_time_operations, by id
    provider,   \* what the provider knows of every operation
    answers,    \* statuses on their way to the wallet
    reorgs

wallet == << keys, ops >>
vars   == << time, skew, block, wallet, provider, answers, reorgs >>

Indexes == 0 .. MaxIndex

(* The column expectation. *)
Active       == 0
NoReceipt    == 1
Receipt      == 2
Inconclusive == 3
Awaiting     == 4

Key ==
    [reserved : BOOLEAN,    \* RESERVED
     floor    : Nat,        \* reservation_floor
     used     : BOOLEAN,
     pending  : {"no", "invalidated", "candidate"}]     \* RECEIVE_PENDING

Operation ==
    [key : Indexes, deadline : Int, begun : Int, observed : Int,
     reference : BOOLEAN, rejected : BOOLEAN, started : BOOLEAN, funded : BOOLEAN,
     expectation : Active .. Awaiting, reported : BOOLEAN]

Provided ==
    [state : {"idle", "active", "paid", "none"}, deadline : Int, mined : BOOLEAN]

Answer ==
    [op : Nat, status : Active .. Awaiting, funded : BOOLEAN, reported : BOOLEAN, at : Int]

TypeOK ==
    /\ time \in Nat /\ skew \in Int /\ block \in Nat /\ reorgs \in Nat
    /\ keys \in [Indexes -> Key]
    /\ ops \in Seq(Operation)
    /\ provider \in Seq(Provided)
    /\ Len(provider) = Len(ops)
    /\ answers \subseteq Answer

Init ==
    /\ time = 0 /\ block = 0 /\ reorgs = 0
    /\ skew \in Skews
    /\ keys = [k \in Indexes |->
                 [reserved |-> FALSE, floor |-> 0, used |-> FALSE, pending |-> "no"]]
    /\ ops = << >> /\ provider = << >>
    /\ answers = {}

-----------------------------------------------------------------------------
Lesser(a, b)  == IF a <= b THEN a ELSE b
Greater(a, b) == IF a >= b THEN a ELSE b

Now == time + skew

(* deadline_clock *)
DeviceClock(now) == now
DeadlineClock(now) == Lesser(now, block)

Of(k) == {o \in DOMAIN ops : ops[o].key = k}

(* The quotes of the key's current reservation. *)
Current(k) == {o \in Of(k) : o > keys[k].floor}

(* STARTED *)
Started(k) == \E o \in Current(k) : ops[o].started

(* LATEST_DEADLINE is none, or above the clock. *)
Live(k, clock) == Current(k) # {} => ops[Max(Current(k))].deadline > clock

Pending(k) == keys[k].pending # "no"

(* recovery_end: payments mined on the current chain justify the window. *)
PaidOut(k) == \E o \in Of(k) : provider[o].mined
RecoveryEnd ==
    LET paid == {k \in Indexes : keys[k].used /\ PaidOut(k)}
    IN  RECEIVE_GAP + (IF paid = {} THEN 0 ELSE Max(paid) + 1)

(* UNSETTLED *)
Unsettled(k) ==
    \E o \in Of(k) :
        /\ \/ ops[o].expectation = Receipt
           \/ ops[o].expectation = Inconclusive /\ ops[o].funded
        /\ ~(ops[o].reported /\ provider[o].mined)

-----------------------------------------------------------------------------
(* reap: which reservations are released, in a database where the          *)
(* operations are `rows`.                                                  *)

(* A recent status from which no payment of the operation is to come. *)
Conclusive(o, used, now) ==
    /\ o.observed \in (now - STATUS_FRESH) .. now
    /\ \/ o.expectation = NoReceipt
       \/ ~o.funded /\ o.expectation \in {Inconclusive, Awaiting}
       \/ used /\ o.expectation \in {Receipt, Inconclusive}

Unexpired(o, clock) == o.deadline > clock

Owes(o, used) == o.funded /\ o.expectation # NoReceipt /\ ~used

Owns(o, k, now) ==
    LET clock == DeadlineClock(now)
        used  == keys[k].used
    IN  \/ Unexpired(o, clock)
        \/ o.reference /\ o.expectation = Active
        \/ Owes(o, used)
        \/ /\ o.started
           /\ Unexpired(o, clock - STATUS_GRACE) \/ used \/ Pending(k)
           /\ ~Conclusive(o, used, now)

Reapable(rows, now) ==
    {k \in Indexes : /\ keys[k].reserved
                     /\ Current(k) # {}
                     /\ \A o \in Current(k) : ~Owns(rows[o], k, now)}

Reap(rows, now) ==
    [k \in Indexes |-> [keys[k] EXCEPT !.reserved = @ /\ k \notin Reapable(rows, now)]]

-----------------------------------------------------------------------------
(* The calls. *)

(* prepare: after reap, the lowest index in the window that is neither paid *)
(* nor taken by a live quote is resumed or newly reserved.                  *)
Resumable(held, k) ==
    held[k].reserved /\ ~Started(k) /\ Live(k, DeadlineClock(Now))

Eligible(held) ==
    {k \in Indexes : /\ k < RecoveryEnd
                     /\ ~held[k].used
                     /\ held[k].pending # "candidate"
                     /\ ~held[k].reserved \/ Resumable(held, k)}

FloorOrNull(k) == IF Of(k) = {} THEN -1 ELSE Max(Of(k))
NewFloor(k) == IF Of(k) = {} THEN 0 ELSE Max(Of(k))

(* A new reservation needs the key's own lookup to be complete and the      *)
(* filters to be fresh, so the wallet knows of a payout that is mined       *)
(* (OneTimeRecovery!IssuedUnpaid).                                          *)
Checked(k) == ~Pending(k) /\ (PaidOut(k) => keys[k].used)

Prepare(fresh) ==
    LET held == Reap(ops, Now)
        next == Min(Eligible(held))
        issues == /\ Eligible(held) # {}
                  /\ ~held[next].reserved
                  /\ Checked(next) /\ fresh
    IN  /\ keys' = IF issues
                   THEN [held EXCEPT ![next].reserved = TRUE, ![next].floor = NewFloor(next)]
                   ELSE held
        /\ UNCHANGED << time, skew, block, ops, provider, answers, reorgs >>

Begin(k, lifetime) ==
    /\ Len(ops) < MaxOperations
    /\ keys[k].reserved /\ ~keys[k].used /\ ~Started(k)
    /\ Live(k, DeadlineClock(Now))
    /\ ~Pending(k)
    /\ k < RecoveryEnd
    /\ ops' = Append(ops, [key |-> k, deadline |-> Now + lifetime, begun |-> Now,
                           observed |-> Now, reference |-> FALSE, rejected |-> FALSE,
                           started |-> FALSE, funded |-> FALSE, expectation |-> Active,
                           reported |-> FALSE])
    /\ provider' = Append(provider, [state |-> "idle", deadline |-> 0, mined |-> FALSE])
    /\ UNCHANGED << time, skew, block, keys, answers, reorgs >>

(* finish, Accepted: the provider names its own deadline.                   *)
Accepted(row, deadline) ==
    [row EXCEPT !.reference = TRUE,
                !.expectation = IF @ = Active /\ ~row.funded THEN Awaiting ELSE @,
                !.deadline = Lesser(@, deadline)]

Accept(o, deadline) ==
    /\ deadline > Lesser(ops[o].begun, block)
    /\ ~ops[o].rejected
    /\ ~ops[o].reference
    /\ ops' = [ops EXCEPT ![o] = Accepted(@, deadline)]
    /\ provider' = [provider EXCEPT ![o].deadline = deadline]
    /\ UNCHANGED << time, skew, block, keys, answers, reorgs >>

(* finish, Rejected *)
Reject(o) ==
    /\ ~ops[o].reference
    /\ ~ops[o].rejected
    /\ ops' = [ops EXCEPT ![o].rejected = TRUE]
    /\ UNCHANGED << time, skew, block, keys, provider, answers, reorgs >>

LaterStarted(o) == \E p \in Current(ops[o].key) : p > o /\ ops[p].started
OtherStarted(o) == \E p \in Current(ops[o].key) : p # o /\ ops[p].started

Start(o) ==
    LET k == ops[o].key IN
    /\ ops[o].reference
    /\ keys[k].reserved /\ o > keys[k].floor /\ ~keys[k].used
    /\ ~Pending(k)
    /\ ~OtherStarted(o)
    /\ ops[o].deadline > DeadlineClock(Now)
    /\ ~ops[o].started
    /\ ops' = [ops EXCEPT ![o].started = TRUE]
    /\ UNCHANGED << time, skew, block, keys, provider, answers, reorgs >>

(* record: an older status only adds its evidence.  In the same second, a   *)
(* promised receipt stays promised and an inconclusive end stays so.        *)
NotOlder(o, a) == o.observed <= a.at
Newer(o, a) ==
    \/ o.observed < a.at
    \/ /\ o.observed = a.at
       /\ ~(o.expectation = Receipt /\ a.status # Receipt)
       /\ ~(o.expectation = Inconclusive /\ a.status = NoReceipt)

Record(o, a) ==
    LET seen == [o EXCEPT !.funded = @ \/ a.funded, !.reported = @ \/ a.reported]
    IN  IF Newer(o, a) THEN [seen EXCEPT !.observed = a.at, !.expectation = a.status] ELSE seen

(* The operations a status may update. *)
Updates(a) ==
    LET k == ops[a.op].key
    IN  keys[k].reserved \/ (keys[k].used /\ (ops[a.op].funded \/ a.funded))

(* record_status, called with the time at which the status was requested.   *)
RecordStatus(a) ==
    LET rows == IF Updates(a) THEN [ops EXCEPT ![a.op] = Record(@, a)] ELSE ops
    IN  /\ a \in answers
        /\ answers' = answers \ {a}
        /\ ops' = rows
        /\ keys' = Reap(rows, a.at)
        /\ UNCHANGED << time, skew, block, provider, reorgs >>

-----------------------------------------------------------------------------
(* The environment. *)

Tick ==
    /\ time < MaxTime
    /\ time' = time + 1
    /\ UNCHANGED << skew, block, wallet, provider, answers, reorgs >>

(* A block mined now is stored. *)
StoreBlock ==
    /\ block < time
    /\ block' = time
    /\ UNCHANGED << time, skew, wallet, provider, answers, reorgs >>

(* The user follows the instructions they were shown while the provider     *)
(* takes the deposit.                                                       *)
Deposit(o) ==
    /\ ops[o].started
    /\ provider[o].state = "idle" /\ time < provider[o].deadline
    /\ provider' = [provider EXCEPT ![o].state = "active"]
    /\ UNCHANGED << time, skew, block, wallet, answers, reorgs >>

(* The provider pays the receiver, or returns the deposit elsewhere.        *)
Conclude(o) ==
    /\ provider[o].state = "active"
    /\ \/ provider' = [provider EXCEPT ![o].state = "paid", ![o].mined = TRUE]
       \/ provider' = [provider EXCEPT ![o].state = "none"]
    /\ UNCHANGED << time, skew, block, wallet, answers, reorgs >>

(* What the provider may report of an operation.  An end without a payout   *)
(* may be reported as inconclusive.                                         *)
Reports(p) ==
    CASE p.state = "idle"   -> {Awaiting} \cup (IF time < p.deadline THEN {} ELSE {NoReceipt, Inconclusive})
      [] p.state = "active" -> {Active}
      [] p.state = "paid"   -> {Receipt}
      [] p.state = "none"   -> {NoReceipt, Inconclusive}

(* The wallet asks about the quotes whose instructions it showed.           *)
Poll(o) ==
    /\ ops[o].started
    /\ Len(ops) + Cardinality(answers) < MaxBusy
    /\ \E status \in Reports(provider[o]) :
          answers' = answers \cup
             {[op |-> o, status |-> status, funded |-> provider[o].state # "idle",
               reported |-> status = Receipt, at |-> Now]}
    /\ UNCHANGED << time, skew, block, wallet, provider, reorgs >>

(* A payout leaves the chain, with the block that holds it.                *)
Reorg(o) ==
    /\ reorgs < MaxReorgs
    /\ provider[o].mined
    /\ provider' = [provider EXCEPT ![o].mined = FALSE]
    /\ keys' = [keys EXCEPT ![ops[o].key].pending = "invalidated"]
    /\ block' = Greater(block - 1, 0)
    /\ reorgs' = reorgs + 1
    /\ UNCHANGED << time, skew, ops, answers >>

(* Recovery: a filter hit makes the key's history pending, its read may     *)
(* leave a candidate, and settling it tells whether the key is paid.        *)
Hit(k) ==
    /\ keys[k].pending = "no"
    /\ PaidOut(k) /\ ~keys[k].used
    /\ keys' = [keys EXCEPT ![k].pending = "candidate"]
    /\ UNCHANGED << time, skew, block, ops, provider, answers, reorgs >>

UsedAfter(k) == PaidOut(k) \/ (keys[k].used /\ Unsettled(k))

Settle(k) ==
    /\ keys[k].pending # "no"
    /\ keys' = [keys EXCEPT ![k].pending = "no", ![k].used = UsedAfter(k)]
    /\ UNCHANGED << time, skew, block, ops, provider, answers, reorgs >>

-----------------------------------------------------------------------------
Deadlines == {time + l : l \in Lifetimes}

Next ==
    \/ Tick
    \/ StoreBlock
    \/ \E fresh \in BOOLEAN : Prepare(fresh)
    \/ \E k \in Indexes, l \in Lifetimes : Begin(k, l)
    \/ \E o \in DOMAIN ops, d \in Deadlines : Accept(o, d)
    \/ \E o \in DOMAIN ops : \/ Reject(o) \/ Start(o) \/ Poll(o)
                             \/ Deposit(o) \/ Conclude(o) \/ Reorg(o)
    \/ \E a \in answers : RecordStatus(a)
    \/ \E k \in Indexes : Hit(k) \/ Settle(k)

Spec == Init /\ [][Next]_vars

-----------------------------------------------------------------------------
(* Deposit instructions are shown for at most one quote of a reservation.   *)
OneQuoteShown ==
    \A k \in Indexes : \A o, p \in Current(k) : ops[o].started /\ ops[p].started => o = p

(* A reservation is never released before the deadlines of its quotes, in   *)
(* true time, however fast the device clock is and however late a status    *)
(* arrives.                                                                 *)
NoEarlyRelease ==
    [][\A k \in Indexes : keys[k].reserved /\ ~keys'[k].reserved
            => \A o \in Current(k) : ops[o].deadline <= time]_vars

(* The quote's address is held for it: it is reserved, or it counts as paid *)
(* and a receipt of this quote is still promised.                           *)
Kept(o) ==
    LET k == ops[o].key
    IN  \/ keys[k].reserved /\ o > keys[k].floor
        \/ keys[k].used /\ ops[o].expectation = Receipt

(* Once the wallet knows of a deposit that the provider does not return,    *)
(* the address is kept for that quote, through the release of the           *)
(* reservation, late and reordered statuses, and a reorganisation that      *)
(* drops the payout.                                                        *)
OwedNotReissued ==
    [][\A o \in DOMAIN ops :
          /\ Kept(o)
          /\ ops'[o].funded
          /\ provider'[o].state \in {"active", "paid"}
          => Kept(o)']_vars

(* Releases expired reservations only when no current request can still own *)
(* them: what reap's comment says, with the provider's word on ownership.   *)
ReleasedUnowned ==
    [][\A k \in Indexes : keys[k].reserved /\ ~keys'[k].reserved
            => \A o \in Current(k) : provider[o].state # "active"]_vars
=============================================================================
