----------------------- MODULE SwapReservationsProofs -----------------------
(***************************************************************************)
(* What holds of swap reservations for every number of quotes, indexes and *)
(* statuses on their way, and every clock skew.                            *)
(***************************************************************************)
EXTENDS SwapReservations, Extrema, SequenceTheorems, TLAPS

(* The operations of a key are rows of the table, so the highest id bounds *)
(* them all: a reservation made above it starts without quotes.            *)
LEMMA FloorAbove ==
    ASSUME TypeOK, NEW k \in Indexes
    PROVE  NewFloor(k) \in Nat /\ \A o \in Of(k) : o <= NewFloor(k)
<1>1. Of(k) \subseteq 0 .. Len(ops) /\ Len(ops) \in Nat
  BY LenProperties DEF Of, TypeOK
<1>2. CASE Of(k) = {}
  BY <1>2 DEF NewFloor
<1>3. CASE Of(k) # {}
  <2>1. Max(Of(k)) \in Of(k) /\ \A o \in Of(k) : o <= Max(Of(k))
    BY <1>1, <1>3, MaxBounded, Zenon
  <2> QED
    BY <1>1, <1>3, <2>1 DEF NewFloor
<1> QED
  BY <1>2, <1>3

(* The deadlines a provider names are times. *)
LEMMA DeadlineIsInt ==
    ASSUME TypeOK, NEW d \in Deadlines
    PROVE  d \in Int
<1>1. time \in Int /\ Lifetimes \subseteq Int
  BY SwapAssumption DEF TypeOK
<1> QED
  BY <1>1 DEF Deadlines

(* A row updated by a status keeps its key, its deadline and what was      *)
(* shown to the user, and only gains evidence.                             *)
LEMMA RecordFields ==
    ASSUME NEW o \in Operation, NEW a \in Answer
    PROVE  /\ Record(o, a) \in Operation
           /\ Record(o, a).key = o.key /\ Record(o, a).deadline = o.deadline
           /\ Record(o, a).started = o.started /\ Record(o, a).reference = o.reference
           /\ Record(o, a).funded = (o.funded \/ a.funded)
           /\ ~Newer(o, a) => /\ Record(o, a).expectation = o.expectation
                              /\ Record(o, a).observed = o.observed
           /\ Newer(o, a) => /\ Record(o, a).expectation = a.status
                             /\ Record(o, a).observed = a.at
<1> DEFINE seen == [o EXCEPT !.funded = @ \/ a.funded, !.reported = @ \/ a.reported]
<1>1. /\ (o.funded \/ a.funded) \in BOOLEAN /\ (o.reported \/ a.reported) \in BOOLEAN
  BY DEF Operation, Answer
<1>2. /\ seen \in Operation
      /\ seen.key = o.key /\ seen.deadline = o.deadline
      /\ seen.started = o.started /\ seen.reference = o.reference
      /\ seen.funded = (o.funded \/ a.funded)
      /\ seen.expectation = o.expectation /\ seen.observed = o.observed
  BY <1>1, Zenon DEF Operation
<1>3. Record(o, a) = IF Newer(o, a) THEN [seen EXCEPT !.observed = a.at, !.expectation = a.status]
                     ELSE seen
  BY DEF Record
<1> HIDE DEF seen
<1>4. a.at \in Int /\ a.status \in Active .. Awaiting
  BY Zenon DEF Answer
<1> QED
  BY <1>2, <1>3, <1>4, ZenonT(40) DEF Operation

(* An accepted row keeps its key, what was shown and what is known of the  *)
(* provider, and its deadline does not move back.                          *)
LEMMA AcceptedFields ==
    ASSUME NEW row \in Operation, NEW d \in Int
    PROVE  /\ Accepted(row, d) \in Operation
           /\ Accepted(row, d).reference = TRUE
           /\ Accepted(row, d).key = row.key /\ Accepted(row, d).started = row.started
           /\ Accepted(row, d).funded = row.funded /\ Accepted(row, d).observed = row.observed
           /\ Accepted(row, d).deadline <= row.deadline
           /\ Accepted(row, d).expectation \in {row.expectation, Awaiting}
           /\ Accepted(row, d).expectation # row.expectation => row.expectation = Active
<1> DEFINE e == IF row.expectation = Active /\ ~row.funded THEN Awaiting ELSE row.expectation
           m == Lesser(row.deadline, d)
<1>1. e \in Active .. Awaiting /\ e \in {row.expectation, Awaiting}
      /\ (e # row.expectation => row.expectation = Active)
  BY DEF Operation, Active, Awaiting
<1>2. m \in Int /\ m <= row.deadline
  BY DEF Operation, Lesser
<1>3. Accepted(row, d) = [row EXCEPT !.reference = TRUE, !.expectation = e, !.deadline = m]
  BY DEF Accepted
<1> HIDE DEF e, m
<1> QED
  BY <1>1, <1>2, <1>3, Zenon DEF Operation

(* What a call does to a row keeps the row's type. *)
LEMMA ReapType ==
    ASSUME TypeOK, NEW rows, NEW now
    PROVE  /\ Reap(rows, now) \in [Indexes -> Key]
           /\ \A k \in Indexes :
                 /\ Reap(rows, now)[k].floor = keys[k].floor
                 /\ Reap(rows, now)[k].used = keys[k].used
                 /\ Reap(rows, now)[k].pending = keys[k].pending
                 /\ Reap(rows, now)[k].reserved = (keys[k].reserved /\ k \notin Reapable(rows, now))
<1> SUFFICES ASSUME NEW k \in Indexes
             PROVE  /\ Reap(rows, now)[k] \in Key
                    /\ Reap(rows, now)[k].floor = keys[k].floor
                    /\ Reap(rows, now)[k].used = keys[k].used
                    /\ Reap(rows, now)[k].pending = keys[k].pending
                    /\ Reap(rows, now)[k].reserved = (keys[k].reserved /\ k \notin Reapable(rows, now))
  BY DEF Reap
<1>1. keys[k] \in Key
  BY DEF TypeOK
<1>2. Reap(rows, now)[k] = [keys[k] EXCEPT !.reserved = @ /\ k \notin Reapable(rows, now)]
  BY DEF Reap
<1>3. (keys[k].reserved /\ k \notin Reapable(rows, now)) \in BOOLEAN
  BY <1>1 DEF Key
<1> QED
  BY <1>1, <1>2, <1>3, Zenon DEF Key

-----------------------------------------------------------------------------
(* The inductive invariant.                                                *)

(* No payout of this operation is to come any more. *)
Over(p) == p.state = "none" \/ (p.state = "idle" /\ time >= p.deadline)

(* What a row says of the provider is true and stays true: only a quote    *)
(* that was shown is funded, and an end without a payout, or a payout, is  *)
(* final.                                                                  *)
RowSound(o) ==
    /\ ops[o].funded => ops[o].started
    /\ ops[o].started => ops[o].reference
    /\ ops[o].expectation \in {NoReceipt, Inconclusive} => ops[o].started /\ Over(provider[o])
    /\ ops[o].expectation = Receipt => provider[o].state = "paid"
    /\ ops[o].observed <= Now

(* So is a status on its way, and no status requested after a payout was   *)
(* reported says anything else.                                            *)
AnswerSound(a) ==
    /\ a.op \in DOMAIN ops
    /\ ops[a.op].started
    /\ a.at <= Now
    /\ a.status \in {NoReceipt, Inconclusive} => Over(provider[a.op])
    /\ a.status = Receipt => provider[a.op].state = "paid"
    /\ ops[a.op].expectation = Receipt /\ ops[a.op].observed < a.at => a.status = Receipt
    /\ \A b \in answers : b.op = a.op /\ b.status = Receipt /\ b.at < a.at => a.status = Receipt

IInv ==
    /\ TypeOK
    /\ block <= time
    /\ OneQuoteShown
    /\ \A o \in DOMAIN ops : RowSound(o)
    /\ \A a \in answers : AnswerSound(a)

-----------------------------------------------------------------------------
(* Types.                                                                  *)

LEMMA RowTypes ==
    ASSUME TypeOK
    PROVE  /\ \A k \in Indexes : keys[k] \in Key
           /\ \A o \in DOMAIN ops : ops[o] \in Operation /\ provider[o] \in Provided
           /\ DOMAIN provider = DOMAIN ops /\ DOMAIN ops = 1 .. Len(ops) /\ Len(ops) \in Nat
           /\ Now \in Int
BY LenProperties, ElementOfSeq DEF TypeOK, Now

(* Replacing one row of a table keeps its shape. *)
LEMMA UpdateSeq ==
    ASSUME NEW T, NEW s \in Seq(T), NEW i \in DOMAIN s, NEW e \in T
    PROVE  /\ [s EXCEPT ![i] = e] \in Seq(T)
           /\ Len([s EXCEPT ![i] = e]) = Len(s)
           /\ DOMAIN [s EXCEPT ![i] = e] = DOMAIN s
<1>1. DOMAIN s = 1 .. Len(s) /\ Len(s) \in Nat
  BY LenProperties, Zenon
<1>2. [s EXCEPT ![i] = e] \in Seq(T) /\ Len([s EXCEPT ![i] = e]) = Len(s)
  BY <1>1, ExceptSeq, Zenon
<1> QED
  BY <1>1, <1>2, Zenon

LEMMA PrepareType ==
    ASSUME TypeOK, NEW fresh \in BOOLEAN, Prepare(fresh)
    PROVE  TypeOK'
<1> DEFINE held == Reap(ops, Now)
           next == Min(Eligible(held))
<1>1. held \in [Indexes -> Key]
  BY ReapType, Zenon
<1>2. \/ keys' = held
      \/ /\ Eligible(held) # {}
         /\ keys' = [held EXCEPT ![next].reserved = TRUE, ![next].floor = NewFloor(next)]
  BY DEF Prepare
<1>3. ASSUME Eligible(held) # {} PROVE next \in Indexes
  <2>1. Eligible(held) \subseteq Nat /\ Eligible(held) \subseteq Indexes
    BY DEF Eligible, Indexes
  <2> QED
    BY <1>3, <2>1, MinHeight, Zenon
<1> HIDE DEF held, next
<1>4. keys' \in [Indexes -> Key]
  <2>1. ASSUME Eligible(held) # {},
               keys' = [held EXCEPT ![next].reserved = TRUE, ![next].floor = NewFloor(next)]
        PROVE  keys' \in [Indexes -> Key]
    <3>1. NewFloor(next) \in Nat /\ held[next] \in Key
      BY <2>1, <1>1, <1>3, FloorAbove, Zenon
    <3> QED
      BY <2>1, <3>1, <1>1, <1>3, Zenon DEF Key
  <2> QED
    BY <1>1, <1>2, <2>1, Zenon
<1> QED
  BY <1>4, Zenon DEF Prepare, TypeOK

LEMMA CallTypes ==
    ASSUME TypeOK
    PROVE  /\ \A k \in Indexes, l \in Lifetimes : Begin(k, l) => TypeOK'
           /\ \A o \in DOMAIN ops, d \in Deadlines : Accept(o, d) => TypeOK'
           /\ \A o \in DOMAIN ops : Reject(o) \/ Start(o) => TypeOK'
           /\ \A a \in answers : AnswerSound(a) /\ RecordStatus(a) => TypeOK'
<1> USE RowTypes
<1>1. ASSUME NEW k \in Indexes, NEW l \in Lifetimes, Begin(k, l) PROVE TypeOK'
  <2> DEFINE row == [key |-> k, deadline |-> Now + l, begun |-> Now, observed |-> Now,
                     reference |-> FALSE, rejected |-> FALSE, started |-> FALSE,
                     funded |-> FALSE, expectation |-> Active, reported |-> FALSE]
             new == [state |-> "idle", deadline |-> 0, mined |-> FALSE]
  <2>1. row \in Operation /\ new \in Provided
    BY SwapAssumption DEF Operation, Provided, Active, Awaiting
  <2>2. ops' = Append(ops, row) /\ provider' = Append(provider, new)
    BY <1>1, Zenon DEF Begin
  <2> HIDE DEF row, new
  <2>3. /\ ops' \in Seq(Operation) /\ provider' \in Seq(Provided)
        /\ Len(ops') = Len(ops) + 1 /\ Len(provider') = Len(provider) + 1
    BY <2>1, <2>2, AppendProperties DEF TypeOK
  <2> QED
    BY <1>1, <2>3, Zenon DEF Begin, TypeOK
<1>2. ASSUME NEW o \in DOMAIN ops, NEW d \in Deadlines, Accept(o, d) PROVE TypeOK'
  <2> DEFINE row == Accepted(ops[o], d)
             new == [provider[o] EXCEPT !.deadline = d]
  <2>1. d \in Int
    BY DeadlineIsInt, Zenon
  <2>2. row \in Operation /\ new \in Provided
    BY <2>1, AcceptedFields, Zenon DEF Provided
  <2>3. ops' = [ops EXCEPT ![o] = row] /\ provider' = [provider EXCEPT ![o] = new]
    BY <1>2 DEF Accept, TypeOK
  <2> HIDE DEF row, new
  <2>4. /\ ops' \in Seq(Operation) /\ provider' \in Seq(Provided)
        /\ Len(ops') = Len(ops) /\ Len(provider') = Len(provider)
    BY <2>2, <2>3, UpdateSeq DEF TypeOK
  <2> QED
    BY <1>2, <2>4, Zenon DEF Accept, TypeOK
<1>3. ASSUME NEW o \in DOMAIN ops, Reject(o) PROVE TypeOK'
  <2> DEFINE row == [ops[o] EXCEPT !.rejected = TRUE]
  <2>1. row \in Operation
    BY Zenon DEF Operation
  <2>2. ops' = [ops EXCEPT ![o] = row]
    BY <1>3 DEF Reject, TypeOK
  <2> HIDE DEF row
  <2>3. ops' \in Seq(Operation) /\ Len(ops') = Len(ops)
    BY <2>1, <2>2, UpdateSeq DEF TypeOK
  <2> QED
    BY <1>3, <2>3 DEF Reject, TypeOK
<1>4. ASSUME NEW o \in DOMAIN ops, Start(o) PROVE TypeOK'
  <2> DEFINE row == [ops[o] EXCEPT !.started = TRUE]
  <2>1. row \in Operation
    BY Zenon DEF Operation
  <2>2. ops' = [ops EXCEPT ![o] = row]
    BY <1>4 DEF Start, TypeOK
  <2> HIDE DEF row
  <2>3. ops' \in Seq(Operation) /\ Len(ops') = Len(ops)
    BY <2>1, <2>2, UpdateSeq DEF TypeOK
  <2> QED
    BY <1>4, <2>3, Zenon DEF Start, TypeOK
<1>5. ASSUME NEW a \in answers, AnswerSound(a), RecordStatus(a) PROVE TypeOK'
  <2>1. PICK rows : /\ rows = IF Updates(a) THEN [ops EXCEPT ![a.op] = Record(@, a)] ELSE ops
                    /\ ops' = rows /\ keys' = Reap(rows, a.at)
    BY <1>5, Zenon DEF RecordStatus
  <2>2. a \in Answer /\ a.op \in DOMAIN ops
    BY <1>5 DEF TypeOK, AnswerSound
  <2>3. Record(ops[a.op], a) \in Operation
    BY <2>2, RecordFields
  <2>4. rows \in Seq(Operation) /\ Len(rows) = Len(ops)
    BY <2>1, <2>2, <2>3, UpdateSeq DEF TypeOK
  <2>5. keys' \in [Indexes -> Key]
    BY <2>1, ReapType, Zenon
  <2> QED
    BY <1>5, <2>1, <2>4, <2>5, Zenon DEF RecordStatus, TypeOK
<1> QED
  BY <1>1, <1>2, <1>3, <1>4, <1>5

LEMMA EnvironmentTypes ==
    ASSUME TypeOK
    PROVE  /\ Tick \/ StoreBlock => TypeOK'
           /\ \A o \in DOMAIN ops : Poll(o) \/ Deposit(o) \/ Conclude(o) \/ Reorg(o) => TypeOK'
           /\ \A k \in Indexes : Hit(k) \/ Settle(k) => TypeOK'
<1> USE RowTypes
<1>1. ASSUME Tick \/ StoreBlock PROVE TypeOK'
  BY <1>1 DEF Tick, StoreBlock, TypeOK, wallet
<1>2. ASSUME NEW o \in DOMAIN ops, Poll(o) PROVE TypeOK'
  <2>1. PICK status \in Reports(provider[o]) :
           answers' = answers \cup
             {[op |-> o, status |-> status, funded |-> provider[o].state # "idle",
               reported |-> status = Receipt, at |-> Now]}
    BY <1>2 DEF Poll
  <2>2. status \in Active .. Awaiting
    <3>1. provider[o].state \in {"idle", "active", "paid", "none"}
      BY Zenon DEF Provided
    <3> QED
      BY <3>1 DEF Reports, Active, NoReceipt, Receipt, Inconclusive, Awaiting
  <2>3. ASSUME NEW f \in BOOLEAN, NEW r \in BOOLEAN
        PROVE  [op |-> o, status |-> status, funded |-> f, reported |-> r, at |-> Now] \in Answer
    BY <2>2 DEF Answer
  <2>4. (provider[o].state # "idle") \in BOOLEAN /\ (status = Receipt) \in BOOLEAN
    BY Zenon
  <2>5. answers' \subseteq Answer
    BY <2>1, <2>3, <2>4, Zenon DEF TypeOK
  <2> QED
    BY <1>2, <2>5, Zenon DEF Poll, TypeOK, wallet
<1>3. ASSUME NEW o \in DOMAIN ops, NEW new \in Provided, provider' = [provider EXCEPT ![o] = new]
      PROVE  provider' \in Seq(Provided) /\ Len(provider') = Len(provider)
  BY <1>3, UpdateSeq DEF TypeOK
<1>4. ASSUME NEW o \in DOMAIN ops, Deposit(o) PROVE TypeOK'
  <2>1. [provider[o] EXCEPT !.state = "active"] \in Provided
    BY DEF Provided
  <2>2. provider' = [provider EXCEPT ![o] = [provider[o] EXCEPT !.state = "active"]]
    BY <1>4 DEF Deposit, TypeOK
  <2> QED
    BY <1>3, <1>4, <2>1, <2>2 DEF Deposit, TypeOK, wallet
<1>5. ASSUME NEW o \in DOMAIN ops, Conclude(o) PROVE TypeOK'
  <2>1. /\ [provider[o] EXCEPT !.state = "paid", !.mined = TRUE] \in Provided
        /\ [provider[o] EXCEPT !.state = "none"] \in Provided
    BY Zenon DEF Provided
  <2>2. \/ provider' = [provider EXCEPT ![o] = [provider[o] EXCEPT !.state = "paid", !.mined = TRUE]]
        \/ provider' = [provider EXCEPT ![o] = [provider[o] EXCEPT !.state = "none"]]
    BY <1>5, Zenon DEF Conclude, TypeOK
  <2> QED
    BY <1>3, <1>5, <2>1, <2>2, Zenon DEF Conclude, TypeOK, wallet
<1>6. ASSUME NEW o \in DOMAIN ops, Reorg(o) PROVE TypeOK'
  <2>1. [provider[o] EXCEPT !.mined = FALSE] \in Provided
    BY Zenon DEF Provided
  <2>2. provider' = [provider EXCEPT ![o] = [provider[o] EXCEPT !.mined = FALSE]]
    BY <1>6 DEF Reorg, TypeOK
  <2>3. ops[o].key \in Indexes
    BY DEF Operation
  <2>4. keys' \in [Indexes -> Key]
    BY <1>6, <2>3, Zenon DEF Reorg, TypeOK, Key
  <2>5. block' \in Nat /\ reorgs' \in Nat
    BY <1>6 DEF Reorg, TypeOK, Greater
  <2> QED
    BY <1>3, <1>6, <2>1, <2>2, <2>4, <2>5, Zenon DEF Reorg, TypeOK
<1>7. ASSUME NEW k \in Indexes, Hit(k) \/ Settle(k) PROVE TypeOK'
  <2>1. UsedAfter(k) \in BOOLEAN
    BY DEF UsedAfter, PaidOut
  <2>2. keys' \in [Indexes -> Key]
    <3>1. CASE Hit(k)
      BY <3>1, Zenon DEF Hit, TypeOK, Key
    <3>2. CASE Settle(k)
      BY <2>1, <3>2, Zenon DEF Settle, TypeOK, Key
    <3> QED
      BY <1>7, <3>1, <3>2, Zenon
  <2> QED
    BY <1>7, <2>2, Zenon DEF Hit, Settle, TypeOK
<1> QED
  BY <1>1, <1>2, <1>4, <1>5, <1>6, <1>7, Zenon

-----------------------------------------------------------------------------
(* One quote of a reservation is shown.                                    *)

(* Rows that keep their keys and show nothing new, under floors that only  *)
(* rise, still show one quote.                                             *)
LEMMA ShownKept ==
    ASSUME TypeOK, OneQuoteShown,
           \A k \in Indexes : \A o \in Current(k)' :
               ops'[o].started => o \in Current(k) /\ ops[o].started
    PROVE  OneQuoteShown'
BY DEF OneQuoteShown

LEMMA OneQuoteStep ==
    ASSUME IInv, Next, TypeOK'
    PROVE  OneQuoteShown'
<1>1. CASE UNCHANGED << keys, ops >>
  BY <1>1 DEF OneQuoteShown, Current, Of, IInv
<1>2. ASSUME UNCHANGED ops, \A k \in Indexes : keys'[k].floor = keys[k].floor
      PROVE  OneQuoteShown'
  BY <1>2 DEF OneQuoteShown, Current, Of, IInv
<1>3. ASSUME NEW fresh \in BOOLEAN, Prepare(fresh) PROVE OneQuoteShown'
  <2> DEFINE held == Reap(ops, Now)
             next == Min(Eligible(held))
  <2>1. \A k \in Indexes : held[k].floor = keys[k].floor
    BY ReapType DEF IInv
  <2>2. \/ keys' = held
        \/ /\ Eligible(held) # {}
           /\ keys' = [held EXCEPT ![next].reserved = TRUE, ![next].floor = NewFloor(next)]
    BY <1>3 DEF Prepare
  <2>3. held \in [Indexes -> Key]
    BY ReapType DEF IInv
  <2>4. Eligible(held) # {} => next \in Indexes
    <3>1. Eligible(held) \subseteq Nat /\ Eligible(held) \subseteq Indexes
      BY DEF Eligible, Indexes
    <3> QED
      BY <3>1, MinHeight
  <2>5. ops' = ops
    BY <1>3 DEF Prepare
  <2> HIDE DEF held, next
  <2>6. CASE keys' = held
    BY <1>2, <2>1, <2>5, <2>6
  <2>7. ASSUME Eligible(held) # {},
               keys' = [held EXCEPT ![next].reserved = TRUE, ![next].floor = NewFloor(next)],
               NEW k \in Indexes, NEW o \in Current(k)'
        PROVE  o \in Current(k)
    <3>1. Of(k)' = Of(k) /\ o \in Of(k) /\ o > keys'[k].floor
      BY <2>5, Zenon DEF Current, Of
    <3>2. CASE k # next
      BY <2>1, <2>3, <2>4, <2>7, <3>1, <3>2, Zenon DEF Current
    <3>3. CASE k = next
      <4>1. keys'[k].floor = NewFloor(k)
        BY <2>3, <2>4, <2>7, <3>3, Zenon DEF Key, IInv
      <4>2. o <= NewFloor(k) /\ NewFloor(k) \in Nat /\ o \in Nat
        BY <3>1, FloorAbove, RowTypes DEF Of, IInv
      <4> QED
        BY <3>1, <4>1, <4>2
    <3> QED
      BY <3>2, <3>3
  <2> QED
    BY <2>2, <2>5, <2>6, <2>7, ShownKept, Zenon DEF IInv
<1>4. ASSUME NEW k \in Indexes, NEW l \in Lifetimes, Begin(k, l) PROVE OneQuoteShown'
  <2>1. /\ \A o \in DOMAIN ops : ops'[o] = ops[o]
        /\ DOMAIN ops' = DOMAIN ops \cup {Len(ops) + 1}
        /\ ops'[Len(ops) + 1].started = FALSE
    BY <1>4, AppendProperties, LenProperties DEF Begin, TypeOK, IInv
  <2>2. keys' = keys
    BY <1>4, Zenon DEF Begin
  <2>3. ASSUME NEW j \in Indexes, NEW o \in Current(j)', ops'[o].started
        PROVE  o \in Current(j) /\ ops[o].started
    BY <2>1, <2>2, <2>3, Zenon DEF Current, Of
  <2> QED
    BY <2>3, ShownKept DEF IInv
<1>5. ASSUME NEW o \in DOMAIN ops, NEW row \in Operation, ops' = [ops EXCEPT ![o] = row],
             row.key = ops[o].key, row.started => ops[o].started,
             \A k \in Indexes : keys'[k].floor = keys[k].floor
      PROVE  OneQuoteShown'
  <2>1. DOMAIN ops' = DOMAIN ops /\ \A p \in DOMAIN ops : ops'[p].key = ops[p].key
                                       /\ (ops'[p].started => ops[p].started)
    BY <1>5
  <2>2. ASSUME NEW k \in Indexes, NEW p \in Current(k)', ops'[p].started
        PROVE  p \in Current(k) /\ ops[p].started
    BY <1>5, <2>1, <2>2 DEF Current, Of
  <2> QED
    BY <2>2, ShownKept, Zenon DEF IInv
<1>6. ASSUME NEW o \in DOMAIN ops, NEW d \in Deadlines, Accept(o, d) PROVE OneQuoteShown'
  <2>1. d \in Int
    BY DeadlineIsInt DEF IInv
  <2>2. ops' = [ops EXCEPT ![o] = Accepted(ops[o], d)] /\ keys' = keys
    BY <1>6 DEF Accept
  <2> QED
    BY <1>5, <2>1, <2>2, AcceptedFields, RowTypes, Zenon DEF IInv
<1>7. ASSUME NEW o \in DOMAIN ops, Reject(o) PROVE OneQuoteShown'
  <2>1. ops' = [ops EXCEPT ![o] = [ops[o] EXCEPT !.rejected = TRUE]] /\ keys' = keys
    BY <1>7 DEF Reject
  <2>2. /\ [ops[o] EXCEPT !.rejected = TRUE] \in Operation
        /\ [ops[o] EXCEPT !.rejected = TRUE].key = ops[o].key
        /\ [ops[o] EXCEPT !.rejected = TRUE].started = ops[o].started
    BY RowTypes, Zenon DEF Operation, IInv
  <2> QED
    BY <1>5, <2>1, <2>2, Zenon
<1>8. ASSUME NEW o \in DOMAIN ops, Start(o) PROVE OneQuoteShown'
  <2>1. /\ ops' = [ops EXCEPT ![o] = [ops[o] EXCEPT !.started = TRUE]] /\ keys' = keys
        /\ ~OtherStarted(o)
    BY <1>8 DEF Start, IInv
  <2>2. [ops[o] EXCEPT !.started = TRUE].key = ops[o].key
    BY DEF Operation
  <2>3. /\ DOMAIN ops' = DOMAIN ops /\ \A p \in DOMAIN ops : ops'[p].key = ops[p].key
        /\ \A p \in DOMAIN ops : p # o => ops'[p] = ops[p]
    BY <2>1, <2>2, Zenon
  <2>4. \A k \in Indexes : Current(k)' = Current(k)
    BY <2>1, <2>3 DEF Current, Of
  <2>5. ASSUME NEW k \in Indexes, NEW p \in Current(k), NEW q \in Current(k),
               ops'[p].started, ops'[q].started
        PROVE  p = q
    <3>1. p \in DOMAIN ops /\ q \in DOMAIN ops /\ ops[p].key = k /\ ops[q].key = k
      BY Zenon DEF Current, Of, IInv
    <3>2. CASE p # o /\ q # o
      BY <2>3, <2>5, <3>1, <3>2, Zenon DEF OneQuoteShown, IInv
    <3>3. CASE p = o \/ q = o
      <4>1. Current(ops[o].key) = Current(k)
        BY <3>1, <3>3
      <4>2. \A r \in Current(k) : r # o => ~ops[r].started
        BY <2>1, <4>1 DEF OtherStarted
      <4> QED
        BY <2>3, <2>5, <3>1, <3>3, <4>2
    <3> QED
      BY <3>2, <3>3, Zenon
  <2> QED
    BY <2>4, <2>5 DEF OneQuoteShown
<1>9. ASSUME NEW a \in answers, RecordStatus(a) PROVE OneQuoteShown'
  <2>1. a \in Answer /\ a.op \in DOMAIN ops
    BY DEF TypeOK, AnswerSound, IInv
  <2>2. \/ ops' = ops
        \/ ops' = [ops EXCEPT ![a.op] = Record(ops[a.op], a)]
    BY <1>9 DEF RecordStatus
  <2>3. \A k \in Indexes : keys'[k].floor = keys[k].floor
    <3>1. PICK rows : keys' = Reap(rows, a.at)
      BY <1>9 DEF RecordStatus
    <3> QED
      BY <3>1, ReapType DEF IInv
  <2> QED
    <3>1. CASE ops' = ops
      BY <1>2, <2>3, <3>1, Zenon
    <3>2. CASE ops' = [ops EXCEPT ![a.op] = Record(ops[a.op], a)]
      <4>1. ops[a.op] \in Operation
        BY <2>1, RowTypes, Zenon DEF IInv
      <4>2. /\ Record(ops[a.op], a) \in Operation
            /\ Record(ops[a.op], a).key = ops[a.op].key
            /\ Record(ops[a.op], a).started = ops[a.op].started
        BY <2>1, <4>1, RecordFields, Zenon
      <4> QED
        BY <1>5, <2>1, <2>3, <3>2, <4>2, Zenon
    <3> QED
      BY <2>2, <3>1, <3>2
<1>10. ASSUME NEW o \in DOMAIN ops, Reorg(o) PROVE OneQuoteShown'
  <2>1. ops' = ops /\ keys' = [keys EXCEPT ![ops[o].key].pending = "invalidated"]
    BY <1>10 DEF Reorg
  <2>2. \A k \in Indexes : keys'[k].floor = keys[k].floor
    BY <2>1 DEF TypeOK, Key
  <2> QED
    BY <1>2, <2>1, <2>2
<1>11. ASSUME NEW k \in Indexes, Hit(k) \/ Settle(k) PROVE OneQuoteShown'
  <2>1. /\ ops' = ops
        /\ \/ keys' = [keys EXCEPT ![k].pending = "candidate"]
           \/ keys' = [keys EXCEPT ![k].pending = "no", ![k].used = UsedAfter(k)]
    BY <1>11, Zenon DEF Hit, Settle
  <2>2. ASSUME NEW j \in Indexes PROVE keys'[j].floor = keys[j].floor
    <3>1. CASE j = k
      BY <2>1, <3>1 DEF TypeOK, Key
    <3>2. CASE j # k
      BY <2>1, <3>2, Zenon DEF TypeOK
    <3> QED
      BY <3>1, <3>2, Zenon
  <2> QED
    BY <1>2, <2>1, <2>2 DEF IInv
<1>12. ASSUME \/ Tick \/ StoreBlock
              \/ \E o \in DOMAIN ops : Poll(o) \/ Deposit(o) \/ Conclude(o)
       PROVE  OneQuoteShown'
  BY <1>1, <1>12, Zenon DEF Tick, StoreBlock, Poll, Deposit, Conclude, wallet
<1> QED
  BY <1>3, <1>4, <1>6, <1>7, <1>8, <1>9, <1>10, <1>11, <1>12 DEF Next

-----------------------------------------------------------------------------
(* What the wallet knows of the provider stays true.                       *)

(* Whatever happens, a quote that was shown stays shown, and an operation  *)
(* that is over or paid stays so.                                          *)
Lasting(o) ==
    /\ o \in DOMAIN ops'
    /\ ops[o].started => ops'[o].started
    /\ ops[o].started /\ Over(provider[o]) => Over(provider[o])'
    /\ provider[o].state = "paid" => provider'[o].state = "paid"

LEMMA LastingStep ==
    ASSUME IInv, Next, NEW o \in DOMAIN ops
    PROVE  Lasting(o) /\ Now <= Now'
<1>0. /\ ops[o] \in Operation /\ provider[o] \in Provided /\ time \in Nat /\ skew \in Int
      /\ provider \in Seq(Provided) /\ ops \in Seq(Operation)
  BY RowTypes DEF TypeOK, IInv
<1>1. ASSUME UNCHANGED << time, skew, ops, provider >> PROVE Lasting(o) /\ Now <= Now'
  BY <1>0, <1>1 DEF Lasting, Over, Now
<1>2. CASE Tick
  BY <1>0, <1>2, RowTypes DEF Tick, Lasting, Over, Now, wallet, Provided
<1>3. CASE StoreBlock
  BY <1>1, <1>3 DEF StoreBlock, wallet, IInv
<1>4. ASSUME NEW fresh \in BOOLEAN, Prepare(fresh) PROVE Lasting(o) /\ Now <= Now'
  BY <1>1, <1>4, Zenon DEF Prepare
<1>5. ASSUME NEW k \in Indexes, NEW l \in Lifetimes, Begin(k, l) PROVE Lasting(o) /\ Now <= Now'
  <2>1. ops'[o] = ops[o] /\ provider'[o] = provider[o] /\ o \in DOMAIN ops'
    BY <1>0, <1>5, AppendProperties, LenProperties, RowTypes DEF Begin, IInv
  <2>2. UNCHANGED << time, skew >>
    BY <1>5 DEF Begin
  <2> QED
    BY <1>0, <2>1, <2>2, RowTypes DEF Lasting, Over, Now
<1>6. ASSUME NEW p \in DOMAIN ops, NEW d \in Deadlines, Accept(p, d) PROVE Lasting(o) /\ Now <= Now'
  <2>1. /\ ops' = [ops EXCEPT ![p] = Accepted(ops[p], d)]
        /\ provider' = [provider EXCEPT ![p].deadline = d]
        /\ ~ops[p].reference /\ UNCHANGED << time, skew >>
    BY <1>6 DEF Accept
  <2>2. ~ops[p].started
    BY <2>1 DEF RowSound, IInv
  <2>3. CASE o = p
    BY <1>0, <2>1, <2>2, <2>3 DEF Lasting, Now, Provided
  <2>4. CASE o # p
    BY <1>0, <2>1, <2>4 DEF Lasting, Over, Now
  <2> QED
    BY <2>3, <2>4
<1>7. ASSUME NEW p \in DOMAIN ops, NEW row \in Operation, ops' = [ops EXCEPT ![p] = row],
             ops[p].started => row.started, UNCHANGED << time, skew, provider >>
      PROVE  Lasting(o) /\ Now <= Now'
  BY <1>0, <1>7 DEF Lasting, Over, Now, IInv
<1>8. ASSUME NEW p \in DOMAIN ops, Reject(p) PROVE Lasting(o) /\ Now <= Now'
  <2>1. [ops[p] EXCEPT !.rejected = TRUE] \in Operation
        /\ [ops[p] EXCEPT !.rejected = TRUE].started = ops[p].started
    BY RowTypes, Zenon DEF Operation, IInv
  <2> QED
    BY <1>7, <1>8, <2>1, Zenon DEF Reject
<1>9. ASSUME NEW p \in DOMAIN ops, Start(p) PROVE Lasting(o) /\ Now <= Now'
  <2>1. [ops[p] EXCEPT !.started = TRUE] \in Operation
        /\ [ops[p] EXCEPT !.started = TRUE].started = TRUE
    BY RowTypes, Zenon DEF Operation, IInv
  <2> QED
    BY <1>7, <1>9, <2>1, Zenon DEF Start
<1>10. ASSUME NEW a \in answers, RecordStatus(a) PROVE Lasting(o) /\ Now <= Now'
  <2>1. a \in Answer /\ a.op \in DOMAIN ops
    BY DEF TypeOK, AnswerSound, IInv
  <2>2. \/ ops' = ops
        \/ ops' = [ops EXCEPT ![a.op] = Record(ops[a.op], a)]
    BY <1>10 DEF RecordStatus
  <2>3. UNCHANGED << time, skew, provider >>
    BY <1>10 DEF RecordStatus
  <2> QED
    BY <1>1, <1>7, <2>1, <2>2, <2>3, RecordFields, RowTypes, Zenon DEF IInv
<1>11. ASSUME NEW p \in DOMAIN ops, Poll(p) PROVE Lasting(o) /\ Now <= Now'
  BY <1>1, <1>11, Zenon DEF Poll, wallet
<1>12. ASSUME NEW p \in DOMAIN ops, NEW new \in Provided, provider' = [provider EXCEPT ![p] = new],
              ~Over(provider[p]), provider[p].state = "paid" => new.state = "paid",
              UNCHANGED << time, skew, ops >>
       PROVE  Lasting(o) /\ Now <= Now'
  <2>1. CASE o = p
    BY <1>0, <1>12, <2>1 DEF Lasting, Now
  <2>2. CASE o # p
    BY <1>0, <1>12, <2>2, RowTypes DEF Lasting, Over, Now
  <2> QED
    BY <2>1, <2>2, Zenon
<1>13. ASSUME NEW p \in DOMAIN ops, Deposit(p) PROVE Lasting(o) /\ Now <= Now'
  <2>1. /\ provider' = [provider EXCEPT ![p] = [provider[p] EXCEPT !.state = "active"]]
        /\ provider[p].state = "idle" /\ time < provider[p].deadline
        /\ UNCHANGED << time, skew, ops >>
    BY <1>13 DEF Deposit, wallet
  <2>2. [provider[p] EXCEPT !.state = "active"] \in Provided /\ provider[p].deadline \in Int
    BY RowTypes DEF Provided, IInv
  <2>3. ~Over(provider[p])
    BY <1>0, <2>1, <2>2 DEF Over
  <2> QED
    BY <1>12, <2>1, <2>2, <2>3, Zenon DEF IInv
<1>14. ASSUME NEW p \in DOMAIN ops, Conclude(p) PROVE Lasting(o) /\ Now <= Now'
  <2>1. /\ \/ provider' = [provider EXCEPT ![p] = [provider[p] EXCEPT !.state = "paid", !.mined = TRUE]]
           \/ provider' = [provider EXCEPT ![p] = [provider[p] EXCEPT !.state = "none"]]
        /\ provider[p].state = "active"
        /\ UNCHANGED << time, skew, ops >>
    BY <1>0, <1>14, Zenon DEF Conclude, wallet
  <2>2. /\ [provider[p] EXCEPT !.state = "paid", !.mined = TRUE] \in Provided
        /\ [provider[p] EXCEPT !.state = "none"] \in Provided
    BY RowTypes, Zenon DEF Provided, IInv
  <2>3. ~Over(provider[p])
    BY <2>1 DEF Over
  <2> QED
    BY <1>12, <2>1, <2>2, <2>3
<1>15. ASSUME NEW p \in DOMAIN ops, Reorg(p) PROVE Lasting(o) /\ Now <= Now'
  <2>1. /\ provider' = [provider EXCEPT ![p] = [provider[p] EXCEPT !.mined = FALSE]]
        /\ UNCHANGED << time, skew, ops >>
    BY <1>15, Zenon DEF Reorg
  <2>2. /\ provider'[o].state = provider[o].state
        /\ provider'[o].deadline = provider[o].deadline
    BY <1>0, <2>1 DEF Provided, IInv
  <2> QED
    BY <1>0, <2>1, <2>2 DEF Lasting, Over, Now
<1>16. ASSUME NEW k \in Indexes, Hit(k) \/ Settle(k) PROVE Lasting(o) /\ Now <= Now'
  BY <1>1, <1>16, Zenon DEF Hit, Settle
<1> QED
  BY <1>2, <1>3, <1>4, <1>5, <1>6, <1>8, <1>9, <1>10, <1>11, <1>13, <1>14, <1>15, <1>16, Zenon DEF Next

(* A row that does not change stays sound. *)
LEMMA RowKept ==
    ASSUME IInv, Next, TypeOK', NEW o \in DOMAIN ops,
           ops'[o].funded = ops[o].funded \/ ops'[o].started,
           ops'[o].started => ops'[o].reference,
           ops'[o].expectation \in {NoReceipt, Inconclusive, Receipt}
              => ops'[o].expectation = ops[o].expectation,
           ops'[o].observed = ops[o].observed
    PROVE  RowSound(o)'
<1>1. Lasting(o) /\ Now <= Now' /\ RowSound(o)
  BY LastingStep, Zenon DEF IInv
<1>2. Now \in Int /\ Now' \in Int
  BY DEF IInv, TypeOK, Now
<1>3. ops[o].observed \in Int
  BY RowTypes, Zenon DEF IInv, Operation
<1> QED
  BY <1>1, <1>2, <1>3 DEF RowSound, Lasting, NoReceipt, Inconclusive, Receipt

LEMMA RowSoundStep ==
    ASSUME IInv, Next, TypeOK'
    PROVE  \A o \in DOMAIN ops' : RowSound(o)'
<1>1. ASSUME ops' = ops PROVE \A o \in DOMAIN ops' : RowSound(o)'
  BY <1>1, RowKept, Zenon DEF RowSound, IInv
<1>2. ASSUME NEW k \in Indexes, NEW l \in Lifetimes, Begin(k, l)
      PROVE  \A o \in DOMAIN ops' : RowSound(o)'
  <2> PICK n : n = Len(ops) + 1
    OBVIOUS
  <2>1. /\ \A o \in DOMAIN ops : ops'[o] = ops[o]
        /\ DOMAIN ops' = DOMAIN ops \cup {n}
        /\ ops'[n] =
              [key |-> k, deadline |-> Now + l, begun |-> Now, observed |-> Now,
               reference |-> FALSE, rejected |-> FALSE, started |-> FALSE,
               funded |-> FALSE, expectation |-> Active, reported |-> FALSE]
    BY <1>2, AppendProperties, LenProperties DEF Begin, TypeOK
  <2>2. UNCHANGED << time, skew >>
    BY <1>2, Zenon DEF Begin
  <2>3. RowSound(n)'
    <3>1. Now \in Int
      BY RowTypes, Zenon DEF TypeOK, Now, IInv
    <3> QED
      BY <2>1, <2>2, <3>1 DEF RowSound, Active, NoReceipt, Inconclusive, Receipt, Now
  <2>4. ASSUME NEW o \in DOMAIN ops PROVE RowSound(o)'
    BY <2>1, RowKept, Zenon DEF RowSound, IInv
  <2> QED
    BY <2>1, <2>3, <2>4
<1>3. ASSUME NEW p \in DOMAIN ops, NEW row \in Operation, ops' = [ops EXCEPT ![p] = row],
             row.funded = ops[p].funded \/ row.started, row.started => row.reference,
             row.expectation \in {NoReceipt, Inconclusive, Receipt}
                => row.expectation = ops[p].expectation,
             row.observed = ops[p].observed
      PROVE  \A o \in DOMAIN ops' : RowSound(o)'
  <2>1. DOMAIN ops' = DOMAIN ops /\ ops'[p] = row
        /\ \A o \in DOMAIN ops : o # p => ops'[o] = ops[o]
    BY <1>3, Zenon
  <2>2. RowSound(p)'
    BY <1>3, <2>1, RowKept, Zenon
  <2>3. ASSUME NEW o \in DOMAIN ops, o # p PROVE RowSound(o)'
    BY <2>1, <2>3, RowKept, Zenon DEF RowSound, IInv
  <2> QED
    BY <2>1, <2>2, <2>3, Zenon
<1>4. ASSUME NEW o \in DOMAIN ops, NEW d \in Deadlines, Accept(o, d)
      PROVE  \A p \in DOMAIN ops' : RowSound(p)'
  <2>1. d \in Int
    BY DeadlineIsInt DEF IInv
  <2>2. ops' = [ops EXCEPT ![o] = Accepted(ops[o], d)]
    BY <1>4 DEF Accept, IInv
  <2>0. ops[o] \in Operation
    BY RowTypes DEF IInv
  <2>3. Accepted(ops[o], d).expectation \in {NoReceipt, Inconclusive, Receipt}
           => Accepted(ops[o], d).expectation = ops[o].expectation
    <3>1. Accepted(ops[o], d).expectation \in {ops[o].expectation, Awaiting}
      BY <2>0, <2>1, AcceptedFields, Zenon
    <3> QED
      BY <3>1 DEF Awaiting, NoReceipt, Inconclusive, Receipt
  <2> QED
    BY <1>3, <2>1, <2>2, <2>3, AcceptedFields, RowTypes, Zenon DEF IInv
<1>5. ASSUME NEW o \in DOMAIN ops, Reject(o) PROVE \A p \in DOMAIN ops' : RowSound(p)'
  <2> DEFINE row == [ops[o] EXCEPT !.rejected = TRUE]
  <2>1. /\ row \in Operation /\ row.funded = ops[o].funded /\ row.started = ops[o].started
        /\ row.reference = ops[o].reference /\ row.expectation = ops[o].expectation
        /\ row.observed = ops[o].observed
    BY RowTypes, Zenon DEF Operation, IInv
  <2>2. ops' = [ops EXCEPT ![o] = row]
    BY <1>5 DEF Reject
  <2> HIDE DEF row
  <2> QED
    BY <1>3, <2>1, <2>2, Zenon DEF RowSound, IInv
<1>6. ASSUME NEW o \in DOMAIN ops, Start(o) PROVE \A p \in DOMAIN ops' : RowSound(p)'
  <2> DEFINE row == [ops[o] EXCEPT !.started = TRUE]
  <2>1. /\ row \in Operation /\ row.started = TRUE
        /\ row.reference = ops[o].reference /\ row.expectation = ops[o].expectation
        /\ row.observed = ops[o].observed
    BY RowTypes, Zenon DEF Operation, IInv
  <2>2. ops' = [ops EXCEPT ![o] = row] /\ ops[o].reference
    BY <1>6 DEF Start
  <2> HIDE DEF row
  <2> QED
    BY <1>3, <2>1, <2>2, Zenon
<1>7. ASSUME NEW a \in answers, RecordStatus(a) PROVE \A o \in DOMAIN ops' : RowSound(o)'
  <2>1. a \in Answer /\ a.op \in DOMAIN ops /\ AnswerSound(a)
    BY Zenon DEF TypeOK, AnswerSound, IInv
  <2>2. \/ ops' = ops
        \/ ops' = [ops EXCEPT ![a.op] = Record(ops[a.op], a)]
    BY <1>7 DEF RecordStatus
  <2>3. CASE ops' = ops
    BY <1>1, <2>3
  <2>4. CASE ops' = [ops EXCEPT ![a.op] = Record(ops[a.op], a)]
    <3> DEFINE row == Record(ops[a.op], a)
    <3>1. /\ row.started = ops[a.op].started /\ row.reference = ops[a.op].reference
          /\ ~Newer(ops[a.op], a) => /\ row.expectation = ops[a.op].expectation
                                     /\ row.observed = ops[a.op].observed
          /\ Newer(ops[a.op], a) => row.expectation = a.status /\ row.observed = a.at
      BY <2>1, RecordFields, RowTypes, Zenon DEF IInv
    <3>2. /\ DOMAIN ops' = DOMAIN ops /\ ops'[a.op] = row
          /\ \A o \in DOMAIN ops : o # a.op => ops'[o] = ops[o]
      BY <2>1, <2>4
    <3> HIDE DEF row
    <3>3. UNCHANGED << time, skew, provider >>
      BY <1>7 DEF RecordStatus
    <3>4. ops[a.op].started /\ RowSound(a.op)
      BY <2>1, Zenon DEF AnswerSound, IInv
    <3>5. RowSound(a.op)'
      <4>1. CASE ~Newer(ops[a.op], a)
        BY <3>1, <3>2, <3>3, <3>4, <4>1, Zenon DEF RowSound, Over, Now
      <4>2. CASE Newer(ops[a.op], a)
        BY <2>1, <3>1, <3>2, <3>3, <3>4, <4>2, Zenon DEF RowSound, AnswerSound, Over, Now
      <4> QED
        BY <4>1, <4>2
    <3>6. ASSUME NEW o \in DOMAIN ops, o # a.op PROVE RowSound(o)'
      BY <3>2, <3>6, RowKept, Zenon DEF RowSound, IInv
    <3> QED
      BY <3>2, <3>5, <3>6
  <2> QED
    BY <2>2, <2>3, <2>4 DEF IInv
<1>8. ASSUME \/ Tick \/ StoreBlock \/ \E fresh \in BOOLEAN : Prepare(fresh)
             \/ \E o \in DOMAIN ops : Poll(o) \/ Deposit(o) \/ Conclude(o) \/ Reorg(o)
             \/ \E k \in Indexes : Hit(k) \/ Settle(k)
      PROVE  ops' = ops
  BY <1>8, Zenon DEF Tick, StoreBlock, Prepare, Poll, Deposit, Conclude, Reorg, Hit, Settle, wallet
<1> QED
  BY <1>1, <1>2, <1>4, <1>5, <1>6, <1>7, <1>8, Zenon DEF Next

(* A status on its way stays sound while the row it is about keeps, or     *)
(* takes over from another status, what it says of a receipt.              *)
LEMMA AnswerKept ==
    ASSUME IInv, Next, TypeOK', NEW a \in answers, a \in answers',
           ops'[a.op].expectation = Receipt =>
              \/ ops[a.op].expectation = Receipt /\ ops'[a.op].observed = ops[a.op].observed
              \/ \E b \in answers : b.op = a.op /\ b.status = Receipt /\ ops'[a.op].observed = b.at,
           \A b \in answers' : b \in answers \/ b.at >= a.at
    PROVE  AnswerSound(a)'
<1>1. AnswerSound(a) /\ a.op \in DOMAIN ops
  BY Zenon DEF IInv, AnswerSound
<1>2. Lasting(a.op) /\ Now <= Now'
  BY <1>1, LastingStep, Zenon
<1>3. /\ Now \in Int /\ Now' \in Int /\ a.at \in Int
      /\ \A b \in answers' : b.at \in Int
  <2>1. Now \in Int /\ Now' \in Int
    BY DEF IInv, TypeOK, Now
  <2>2. \A b \in answers' : b \in Answer
    BY Zenon DEF TypeOK
  <2>3. \A b \in Answer : b.at \in Int
    BY DEF Answer
  <2> QED
    BY <2>1, <2>2, <2>3, Zenon
<1>4. a.at <= Now' /\ a.op \in DOMAIN ops' /\ ops'[a.op].started
  <2>1. a.at <= Now /\ ops[a.op].started
    BY <1>1, Zenon DEF AnswerSound
  <2>2. a.op \in DOMAIN ops' /\ ops'[a.op].started
    BY <1>2, <2>1, Zenon DEF Lasting
  <2> QED
    BY <1>2, <1>3, <2>1, <2>2
<1>5. a.status \in {NoReceipt, Inconclusive} => Over(provider[a.op])'
  BY <1>1, <1>2, Zenon DEF AnswerSound, Lasting
<1>6. a.status = Receipt => provider'[a.op].state = "paid"
  BY <1>1, <1>2, Zenon DEF AnswerSound, Lasting
<1>7. ops'[a.op].expectation = Receipt /\ ops'[a.op].observed < a.at => a.status = Receipt
  BY <1>1, Zenon DEF AnswerSound
<1>8. ASSUME NEW b \in answers', b.op = a.op, b.status = Receipt, b.at < a.at
      PROVE  a.status = Receipt
  BY <1>1, <1>3, <1>8 DEF AnswerSound
<1> QED
  BY <1>4, <1>5, <1>6, <1>7, <1>8 DEF AnswerSound

LEMMA AnswerSoundStep ==
    ASSUME IInv, Next, TypeOK'
    PROVE  \A a \in answers' : AnswerSound(a)'
<1>0. \A a \in answers : a \in Answer /\ a.op \in DOMAIN ops /\ AnswerSound(a)
  BY Zenon DEF TypeOK, AnswerSound, IInv
<1>1. ASSUME answers' = answers,
             \A o \in DOMAIN ops : ops'[o].expectation = Receipt
                => ops[o].expectation = Receipt /\ ops'[o].observed = ops[o].observed
      PROVE  \A a \in answers' : AnswerSound(a)'
  BY <1>0, <1>1, AnswerKept
<1>2. ASSUME NEW o \in DOMAIN ops, Poll(o) PROVE \A a \in answers' : AnswerSound(a)'
  <2>1. PICK status \in Reports(provider[o]) :
           answers' = answers \cup
             {[op |-> o, status |-> status, funded |-> provider[o].state # "idle",
               reported |-> status = Receipt, at |-> Now]}
    BY <1>2 DEF Poll
  <2> PICK new : new = [op |-> o, status |-> status, funded |-> provider[o].state # "idle",
                        reported |-> status = Receipt, at |-> Now]
    BY Zenon
  <2>2. new.op = o /\ new.status = status /\ new.at = Now /\ answers' = answers \cup {new}
    BY <2>1
  <2>3. UNCHANGED << time, skew, ops, provider >> /\ ops[o].started
    BY <1>2 DEF Poll, wallet
  <2>4. provider[o].state \in {"idle", "active", "paid", "none"} /\ time \in Nat
        /\ provider[o].deadline \in Int
    BY RowTypes, Zenon DEF Provided, TypeOK, IInv
  <2>5. /\ status \in {NoReceipt, Inconclusive} => Over(provider[o])
        /\ status = Receipt <=> provider[o].state = "paid"
    BY <2>4 DEF Reports, Over, NoReceipt, Inconclusive, Receipt, Awaiting, Active
  <2>6. AnswerSound(new)'
    <3>1. ops[o].expectation = Receipt => provider[o].state = "paid"
      BY Zenon DEF RowSound, IInv
    <3>2. \A b \in answers : b.op = o /\ b.status = Receipt => provider[o].state = "paid"
      BY <1>0 DEF AnswerSound
    <3> QED
      <4>1. Now' = Now /\ Now \in Int
        BY <2>3, RowTypes DEF Now, IInv
      <4>2. status \in {NoReceipt, Inconclusive} => Over(provider[o])'
        BY <2>3, <2>5 DEF Over
      <4>3. \A b \in answers' : b.op = o /\ b.status = Receipt => status = Receipt
        BY <2>2, <2>5, <3>2, Zenon
      <4> QED
        <5>1. Now <= Now'
          BY <4>1
        <5> QED
          BY <2>2, <2>3, <2>5, <3>1, <4>1, <4>2, <4>3, <5>1, Zenon DEF AnswerSound
  <2>7. ASSUME NEW a \in answers PROVE AnswerSound(a)'
    <3>1. \A b \in answers' : b \in answers \/ b.at >= a.at
      <4>1. a.at \in Int /\ a.at <= Now
        BY <1>0, RowTypes, Zenon DEF Answer, AnswerSound
      <4> QED
        BY <2>2, <4>1, RowTypes, Zenon
    <3> QED
      BY <2>2, <2>3, <3>1, AnswerKept, Zenon
  <2> QED
    BY <2>2, <2>6, <2>7, Zenon
<1>3. ASSUME NEW a \in answers, RecordStatus(a) PROVE \A b \in answers' : AnswerSound(b)'
  <2>1. \/ ops' = ops
        \/ ops' = [ops EXCEPT ![a.op] = Record(ops[a.op], a)]
    BY <1>3 DEF RecordStatus
  <2>2. answers' = answers \ {a}
    BY <1>3, RowTypes, Zenon DEF RecordStatus
  <2>3. ASSUME NEW b \in answers'
        PROVE  ops'[b.op].expectation = Receipt =>
                 \/ ops[b.op].expectation = Receipt /\ ops'[b.op].observed = ops[b.op].observed
                 \/ \E c \in answers : c.op = b.op /\ c.status = Receipt /\ ops'[b.op].observed = c.at
    <3>1. CASE ops' = ops
      BY <3>1, RowTypes, Zenon
    <3>2. CASE ops' = [ops EXCEPT ![a.op] = Record(ops[a.op], a)] /\ b.op # a.op
      BY <1>0, <2>2, <3>2, RowTypes, Zenon
    <3>3. CASE ops' = [ops EXCEPT ![a.op] = Record(ops[a.op], a)] /\ b.op = a.op
      <4>1. ops'[b.op] = Record(ops[a.op], a)
        BY <1>0, <2>2, <3>3
      <4> QED
        <5>1. a \in Answer /\ ops[a.op] \in Operation
          BY <1>0, RowTypes, Zenon DEF IInv
        <5>2. \/ /\ ops'[b.op].expectation = ops[a.op].expectation
                 /\ ops'[b.op].observed = ops[a.op].observed
              \/ ops'[b.op].expectation = a.status /\ ops'[b.op].observed = a.at
          <6> PICK old : old = ops[a.op]
            BY Zenon
          <6>1. old \in Operation
            BY <5>1, Zenon
          <6>2. \/ /\ Record(old, a).expectation = old.expectation
                   /\ Record(old, a).observed = old.observed
                \/ Record(old, a).expectation = a.status /\ Record(old, a).observed = a.at
            BY <5>1, <6>1, RecordFields
          <6> QED
            BY <4>1, <6>2, Zenon
        <5> QED
          BY <3>3, <5>2, Zenon
    <3> QED
      BY <2>1, <3>1, <3>2, <3>3, RowTypes, Zenon
  <2> QED
    BY <2>2, <2>3, AnswerKept, RowTypes, Zenon
<1>4. ASSUME NEW p \in DOMAIN ops, NEW row \in Operation, ops' = [ops EXCEPT ![p] = row],
             row.expectation = Receipt => ops[p].expectation = Receipt,
             row.observed = ops[p].observed
      PROVE  \A o \in DOMAIN ops : ops'[o].expectation = Receipt
                => ops[o].expectation = Receipt /\ ops'[o].observed = ops[o].observed
  BY <1>4
<1>5. ASSUME NEW o \in DOMAIN ops, NEW d \in Deadlines, Accept(o, d)
      PROVE  \A a \in answers' : AnswerSound(a)'
  <2>1. d \in Int
    BY DeadlineIsInt DEF IInv
  <2>2. ops' = [ops EXCEPT ![o] = Accepted(ops[o], d)] /\ answers' = answers
    BY <1>5 DEF Accept
  <2>0. ops[o] \in Operation
    BY RowTypes DEF IInv
  <2>3. Accepted(ops[o], d).expectation = Receipt => ops[o].expectation = Receipt
    <3>1. Accepted(ops[o], d).expectation \in {ops[o].expectation, Awaiting}
      BY <2>0, <2>1, AcceptedFields, Zenon
    <3> QED
      BY <3>1 DEF Awaiting, Receipt
  <2> QED
    <3>1. Accepted(ops[o], d) \in Operation /\ Accepted(ops[o], d).observed = ops[o].observed
      BY <2>0, <2>1, AcceptedFields, Zenon
    <3> QED
      BY <1>1, <1>4, <2>2, <2>3, <3>1, Zenon
<1>6. ASSUME NEW o \in DOMAIN ops, Reject(o) \/ Start(o)
      PROVE  \A a \in answers' : AnswerSound(a)'
  <2> DEFINE r1 == [ops[o] EXCEPT !.rejected = TRUE]
             r2 == [ops[o] EXCEPT !.started = TRUE]
  <2>1. /\ r1 \in Operation /\ r1.expectation = ops[o].expectation /\ r1.observed = ops[o].observed
        /\ r2 \in Operation /\ r2.expectation = ops[o].expectation /\ r2.observed = ops[o].observed
    BY RowTypes, Zenon DEF Operation, IInv
  <2>2. answers' = answers /\ (ops' = [ops EXCEPT ![o] = r1] \/ ops' = [ops EXCEPT ![o] = r2])
    BY <1>6 DEF Reject, Start
  <2> HIDE DEF r1, r2
  <2> QED
    BY <1>1, <1>4, <2>1, <2>2, Zenon
<1>7. ASSUME NEW k \in Indexes, NEW l \in Lifetimes, Begin(k, l)
      PROVE  \A a \in answers' : AnswerSound(a)'
  <2>1. \A o \in DOMAIN ops : ops'[o] = ops[o]
    BY <1>7, AppendProperties, LenProperties DEF Begin, TypeOK
  <2>2. answers' = answers
    BY <1>7, Zenon DEF Begin
  <2>3. \A o \in DOMAIN ops : ops'[o].expectation = Receipt
                => ops[o].expectation = Receipt /\ ops'[o].observed = ops[o].observed
    BY <2>1, Zenon
  <2> QED
    BY <1>1, <2>1, <2>2, <2>3, Zenon
<1>8. ASSUME \/ Tick \/ StoreBlock \/ \E fresh \in BOOLEAN : Prepare(fresh)
             \/ \E o \in DOMAIN ops : Deposit(o) \/ Conclude(o) \/ Reorg(o)
             \/ \E k \in Indexes : Hit(k) \/ Settle(k)
      PROVE  ops' = ops /\ answers' = answers
  BY <1>8, Zenon DEF Tick, StoreBlock, Prepare, Deposit, Conclude, Reorg, Hit, Settle, wallet
<1> QED
  BY <1>1, <1>2, <1>3, <1>5, <1>6, <1>7, <1>8, Zenon DEF Next

-----------------------------------------------------------------------------
(* The invariant is kept by every step.                                    *)

LEMMA TypeStep ==
    ASSUME IInv, Next
    PROVE  TypeOK'
<1>1. \A a \in answers : AnswerSound(a)
  BY DEF IInv
<1> QED
  BY <1>1, CallTypes, PrepareType, EnvironmentTypes DEF Next, IInv

LEMMA BlockStep ==
    ASSUME IInv, Next
    PROVE  block' <= time'
<1>1. time \in Nat /\ block \in Nat /\ block <= time
  BY Zenon DEF IInv, TypeOK
<1>2. CASE Tick
  BY <1>1, <1>2 DEF Tick
<1>3. CASE StoreBlock
  BY <1>1, <1>3 DEF StoreBlock
<1>4. ASSUME NEW o \in DOMAIN ops, Reorg(o) PROVE block' <= time'
  <2>1. block' = Greater(block - 1, 0) /\ time' = time
    BY <1>4, Zenon DEF Reorg
  <2> QED
    BY <1>1, <2>1 DEF Greater
<1>5. ASSUME \/ \E fresh \in BOOLEAN : Prepare(fresh)
             \/ \E k \in Indexes, l \in Lifetimes : Begin(k, l)
             \/ \E o \in DOMAIN ops, d \in Deadlines : Accept(o, d)
             \/ \E o \in DOMAIN ops : Reject(o) \/ Start(o) \/ Poll(o) \/ Deposit(o) \/ Conclude(o)
             \/ \E a \in answers : RecordStatus(a)
             \/ \E k \in Indexes : Hit(k) \/ Settle(k)
      PROVE  UNCHANGED << time, block >>
  BY <1>5, Zenon DEF Prepare, Begin, Accept, Reject, Start, Poll, Deposit, Conclude, RecordStatus,
              Hit, Settle
<1> QED
  BY <1>1, <1>2, <1>3, <1>4, <1>5 DEF Next

LEMMA InitIInv ==
    ASSUME Init
    PROVE  IInv
<1>1. TypeOK
  <2>1. [k \in Indexes |-> [reserved |-> FALSE, floor |-> 0, used |-> FALSE, pending |-> "no"]]
           \in [Indexes -> Key]
    BY DEF Key
  <2>2. << >> \in Seq(Operation) /\ << >> \in Seq(Provided)
    BY EmptySeq, Zenon
  <2> QED
    BY <2>1, <2>2, SwapAssumption DEF Init, TypeOK
<1>2. DOMAIN ops = {}
  BY DEF Init
<1>3. answers = {} /\ block <= time
  BY DEF Init
<1>4. OneQuoteShown
  BY <1>2, Zenon DEF OneQuoteShown, Current, Of
<1> QED
  BY <1>1, <1>2, <1>3, <1>4 DEF IInv

LEMMA StutterIInv ==
    ASSUME IInv, UNCHANGED vars
    PROVE  IInv'
<1>1. UNCHANGED << time, skew, block, keys, ops, provider, answers, reorgs >>
  BY Zenon DEF vars, wallet
<1>2. TypeOK' /\ OneQuoteShown' /\ block' <= time'
  BY <1>1 DEF IInv, TypeOK, OneQuoteShown, Current, Of
<1>3. \A o \in DOMAIN ops' : RowSound(o)'
  BY <1>1, Zenon DEF IInv, RowSound, Over, Now
<1>4. \A a \in answers' : AnswerSound(a)'
  BY <1>1 DEF IInv, AnswerSound, Over, Now
<1> QED
  BY <1>2, <1>3, <1>4, Zenon DEF IInv

LEMMA IInvAlways == Spec => []IInv
<1>1. Init => IInv
  BY InitIInv, Zenon
<1>2. IInv /\ [Next]_vars => IInv'
  <2>1. ASSUME IInv, Next PROVE IInv'
    <3>1. TypeOK'
      BY <2>1, TypeStep, Zenon
    <3> QED
      BY <2>1, <3>1, BlockStep, OneQuoteStep, RowSoundStep, AnswerSoundStep, Zenon DEF IInv
  <2> QED
    BY <2>1, StutterIInv, Zenon
<1> QED
  BY <1>1, <1>2, PTL DEF Spec

(* Keys, operations and statuses keep their types through every call, in   *)
(* any number of them.                                                     *)
THEOREM TypesKept == Spec => []TypeOK
BY IInvAlways, PTL DEF IInv

(* start: deposit instructions are shown for at most one quote of a        *)
(* reservation, however many quotes were requested for it.                 *)
THEOREM OneQuoteShownAlways == Spec => []OneQuoteShown
BY IInvAlways, PTL DEF IInv

-----------------------------------------------------------------------------
(* What a step may do to a reservation and to a promised receipt.          *)

(* A reservation stays as it is, or reap found that none of its quotes, as *)
(* the call leaves them, owns it.  The same prepare may reserve the index  *)
(* again, when it is not used.                                             *)
LEMMA ReservationStep ==
    ASSUME IInv, Next, NEW k \in Indexes, keys[k].reserved
    PROVE  \/ keys'[k].reserved /\ keys'[k].floor = keys[k].floor
           \/ /\ \E now \in Int : k \in Reapable(ops', now)
              /\ keys'[k].reserved => ~keys[k].used
              /\ keys'[k].used = keys[k].used
              /\ \A o \in DOMAIN ops : ops'[o].deadline = ops[o].deadline
<1>1. ASSUME keys' = keys PROVE keys'[k].reserved /\ keys'[k].floor = keys[k].floor
  BY <1>1, Zenon
<1>2. ASSUME NEW now \in Int, keys' = Reap(ops', now), \A o \in DOMAIN ops : ops'[o].deadline = ops[o].deadline
      PROVE  \/ keys'[k].reserved /\ keys'[k].floor = keys[k].floor
             \/ /\ \E t \in Int : k \in Reapable(ops', t)
                /\ keys'[k].reserved => ~keys[k].used
                /\ keys'[k].used = keys[k].used
                /\ \A o \in DOMAIN ops : ops'[o].deadline = ops[o].deadline
  <2>1. /\ keys'[k].floor = keys[k].floor /\ keys'[k].used = keys[k].used
        /\ keys'[k].reserved = (keys[k].reserved /\ k \notin Reapable(ops', now))
    BY <1>2, ReapType, RowTypes DEF IInv
  <2> QED
    BY <1>2, <2>1, Zenon
<1>3. ASSUME NEW fresh \in BOOLEAN, Prepare(fresh)
      PROVE  \/ keys'[k].reserved /\ keys'[k].floor = keys[k].floor
             \/ /\ \E t \in Int : k \in Reapable(ops', t)
                /\ keys'[k].reserved => ~keys[k].used
                /\ keys'[k].used = keys[k].used
                /\ \A o \in DOMAIN ops : ops'[o].deadline = ops[o].deadline
  <2> DEFINE held == Reap(ops, Now)
             next == Min(Eligible(held))
  <2>1. \/ keys' = held
        \/ /\ Eligible(held) # {} /\ ~held[next].reserved
           /\ keys' = [held EXCEPT ![next].reserved = TRUE, ![next].floor = NewFloor(next)]
    BY <1>3 DEF Prepare
  <2>2. ops' = ops
    BY <1>3 DEF Prepare
  <2>3. /\ held \in [Indexes -> Key]
        /\ held[k].floor = keys[k].floor /\ held[k].used = keys[k].used
        /\ held[k].reserved = (keys[k].reserved /\ k \notin Reapable(ops, Now))
    <3>1. TypeOK
      BY Zenon DEF IInv
    <3> QED
      BY <3>1, ReapType
  <2>4. ASSUME Eligible(held) # {} PROVE next \in Indexes /\ ~held[next].used
    <3>1. Eligible(held) \subseteq Nat
      BY DEF Eligible, Indexes
    <3>2. next \in Eligible(held)
      BY <2>4, <3>1, MinHeight, Zenon
    <3> QED
      BY <3>2 DEF Eligible
  <2> HIDE DEF held, next
  <2>5. CASE keys' = held
    BY <2>2, <2>3, <2>5, RowTypes, Zenon DEF IInv
  <2>6. CASE /\ Eligible(held) # {} /\ ~held[next].reserved
             /\ keys' = [held EXCEPT ![next].reserved = TRUE, ![next].floor = NewFloor(next)]
    <3>1. CASE k = next
      <4>1. keys'[k].used = held[k].used
        BY <2>3, <2>4, <2>6, <3>1 DEF Key
      <4> QED
        BY <2>2, <2>3, <2>4, <2>6, <3>1, <4>1, RowTypes, Zenon DEF IInv
    <3>2. CASE k # next
      <4>1. keys'[k] = held[k]
        BY <2>3, <2>6, <3>2
      <4> QED
        BY <2>2, <2>3, <4>1, RowTypes, Zenon DEF IInv
    <3> QED
      BY <3>1, <3>2
  <2> QED
    BY <2>1, <2>5, <2>6, Zenon
<1>4. ASSUME NEW a \in answers, RecordStatus(a)
      PROVE  a.at \in Int /\ keys' = Reap(ops', a.at) /\ \A o \in DOMAIN ops : ops'[o].deadline = ops[o].deadline
  <2>1. a \in Answer /\ a.op \in DOMAIN ops
    BY Zenon DEF TypeOK, AnswerSound, IInv
  <2>2. /\ keys' = Reap(ops', a.at)
        /\ \/ ops' = ops
           \/ ops' = [ops EXCEPT ![a.op] = Record(ops[a.op], a)]
    BY <1>4 DEF RecordStatus
  <2>3. Record(ops[a.op], a).deadline = ops[a.op].deadline
    BY <2>1, RecordFields, RowTypes, Zenon DEF IInv
  <2>4. a.at \in Int
    BY <2>1 DEF Answer
  <2> QED
    BY <2>1, <2>2, <2>3, <2>4
<1>5. ASSUME NEW o \in DOMAIN ops, Reorg(o)
      PROVE  keys'[k].reserved /\ keys'[k].floor = keys[k].floor
  <2>1. keys' = [keys EXCEPT ![ops[o].key].pending = "invalidated"] /\ keys \in [Indexes -> Key]
    BY <1>5 DEF Reorg, TypeOK, IInv
  <2> QED
    BY <2>1 DEF Key
<1>6. ASSUME NEW j \in Indexes, Hit(j) \/ Settle(j)
      PROVE  keys'[k].reserved /\ keys'[k].floor = keys[k].floor
  <2>1. /\ keys \in [Indexes -> Key]
        /\ \/ keys' = [keys EXCEPT ![j].pending = "candidate"]
           \/ keys' = [keys EXCEPT ![j].pending = "no", ![j].used = UsedAfter(j)]
    BY <1>6, Zenon DEF Hit, Settle, TypeOK, IInv
  <2> QED
    BY <2>1 DEF Key
<1>7. ASSUME \/ Tick \/ StoreBlock
             \/ \E j \in Indexes, l \in Lifetimes : Begin(j, l)
             \/ \E o \in DOMAIN ops, d \in Deadlines : Accept(o, d)
             \/ \E o \in DOMAIN ops : Reject(o) \/ Start(o) \/ Poll(o) \/ Deposit(o) \/ Conclude(o)
      PROVE  keys' = keys
  BY <1>7, Zenon DEF Tick, StoreBlock, Begin, Accept, Reject, Start, Poll, Deposit, Conclude, wallet
<1> QED
  BY <1>1, <1>2, <1>3, <1>4, <1>5, <1>6, <1>7, Zenon DEF Next

(* A row keeps its key, and a promised receipt stays promised: no status   *)
(* that is recorded after it says anything else.                           *)
LEMMA PromiseStep ==
    ASSUME IInv, Next, NEW o \in DOMAIN ops
    PROVE  /\ ops'[o].key = ops[o].key
           /\ ops[o].expectation = Receipt => ops'[o].expectation = Receipt
<1>1. ASSUME ops' = ops \/ ops'[o] = ops[o]
      PROVE  /\ ops'[o].key = ops[o].key
             /\ ops[o].expectation = Receipt => ops'[o].expectation = Receipt
  BY <1>1, Zenon
<1>2. ASSUME NEW p \in DOMAIN ops, NEW row, ops' = [ops EXCEPT ![p] = row],
             row.key = ops[p].key, ops[p].expectation = Receipt => row.expectation = Receipt
      PROVE  /\ ops'[o].key = ops[o].key
             /\ ops[o].expectation = Receipt => ops'[o].expectation = Receipt
  BY <1>2, Zenon
<1>3. ASSUME NEW k \in Indexes, NEW l \in Lifetimes, Begin(k, l) PROVE ops'[o] = ops[o]
  BY <1>3, AppendProperties, LenProperties DEF Begin, TypeOK
<1>4. ASSUME NEW p \in DOMAIN ops, NEW d \in Deadlines, Accept(p, d)
      PROVE  /\ ops'[o].key = ops[o].key
             /\ ops[o].expectation = Receipt => ops'[o].expectation = Receipt
  <2>0. d \in Int
    BY DeadlineIsInt, Zenon DEF IInv
  <2>1. d \in Int /\ ops[p] \in Operation
    BY <2>0, RowTypes, Zenon DEF IInv
  <2>2. ops' = [ops EXCEPT ![p] = Accepted(ops[p], d)]
    BY <1>4 DEF Accept, IInv
  <2>3. /\ Accepted(ops[p], d).key = ops[p].key
        /\ Accepted(ops[p], d).expectation # ops[p].expectation => ops[p].expectation = Active
    BY <2>1, AcceptedFields, Zenon
  <2>4. ops[p].expectation = Receipt => Accepted(ops[p], d).expectation = Receipt
    <3>1. Active # Receipt
      BY DEF Active, Receipt
    <3> QED
      BY <2>3, <3>1
  <2> QED
    BY <1>2, <2>2, <2>3, <2>4, Zenon
<1>5. ASSUME NEW p \in DOMAIN ops, Reject(p) \/ Start(p)
      PROVE  /\ ops'[o].key = ops[o].key
             /\ ops[o].expectation = Receipt => ops'[o].expectation = Receipt
  <2> DEFINE r1 == [ops[p] EXCEPT !.rejected = TRUE]
             r2 == [ops[p] EXCEPT !.started = TRUE]
  <2>1. /\ r1.key = ops[p].key /\ r1.expectation = ops[p].expectation
        /\ r2.key = ops[p].key /\ r2.expectation = ops[p].expectation
    BY DEF Operation
  <2>2. ops' = [ops EXCEPT ![p] = r1] \/ ops' = [ops EXCEPT ![p] = r2]
    BY <1>5 DEF Reject, Start
  <2> HIDE DEF r1, r2
  <2> QED
    BY <1>2, <2>1, <2>2
<1>6. ASSUME NEW a \in answers, RecordStatus(a)
      PROVE  /\ ops'[o].key = ops[o].key
             /\ ops[o].expectation = Receipt => ops'[o].expectation = Receipt
  <2>1. a \in Answer /\ a.op \in DOMAIN ops /\ AnswerSound(a) /\ ops[a.op] \in Operation
    BY RowTypes, Zenon DEF TypeOK, AnswerSound, IInv
  <2>2. \/ ops' = ops
        \/ ops' = [ops EXCEPT ![a.op] = Record(ops[a.op], a)]
    BY <1>6 DEF RecordStatus
  <2>3. Record(ops[a.op], a).key = ops[a.op].key
    BY <2>1, RecordFields
  <2>4. ASSUME ops[a.op].expectation = Receipt PROVE Record(ops[a.op], a).expectation = Receipt
    <3>1. CASE ~Newer(ops[a.op], a)
      BY <2>1, <2>4, <3>1, RecordFields, Zenon DEF IInv
    <3>2. CASE Newer(ops[a.op], a)
      <4>1. a.status = Receipt
        BY <2>1, <2>4, <3>2, Zenon DEF Newer, AnswerSound, IInv
      <4> QED
        BY <2>1, <3>2, <4>1, RecordFields, Zenon DEF IInv
    <3> QED
      BY <3>1, <3>2, Zenon DEF IInv
  <2> QED
    BY <1>1, <1>2, <2>1, <2>2, <2>3, <2>4, Zenon
<1>7. ASSUME \/ Tick \/ StoreBlock \/ \E fresh \in BOOLEAN : Prepare(fresh)
             \/ \E p \in DOMAIN ops : Poll(p) \/ Deposit(p) \/ Conclude(p) \/ Reorg(p)
             \/ \E k \in Indexes : Hit(k) \/ Settle(k)
      PROVE  ops' = ops
  BY <1>7, Zenon DEF Tick, StoreBlock, Prepare, Poll, Deposit, Conclude, Reorg, Hit, Settle, wallet, IInv
<1> QED
  BY <1>1, <1>3, <1>4, <1>5, <1>6, <1>7 DEF Next

(* A used key with a promised receipt stays used: settling its history     *)
(* finds the payout on the chain, or the promise unsettled.                *)
LEMMA UsedStep ==
    ASSUME IInv, Next, NEW o \in DOMAIN ops, ops[o].expectation = Receipt, keys[ops[o].key].used
    PROVE  keys'[ops[o].key].used
<1> PICK k : k = ops[o].key
  BY Zenon DEF IInv
<1>0. k \in Indexes /\ keys \in [Indexes -> Key] /\ keys[k].used
  BY RowTypes, Zenon DEF Operation, TypeOK, IInv
<1>1. ASSUME NEW rows, NEW now PROVE Reap(rows, now)[k].used
  BY <1>0, ReapType DEF IInv
<1>2. ASSUME NEW fresh \in BOOLEAN, Prepare(fresh) PROVE keys'[k].used
  <2> DEFINE held == Reap(ops, Now)
             next == Min(Eligible(held))
  <2>1. \/ keys' = held
        \/ keys' = [held EXCEPT ![next].reserved = TRUE, ![next].floor = NewFloor(next)]
    BY <1>2, Zenon DEF Prepare
  <2>2. held \in [Indexes -> Key] /\ held[k].used
    <3>1. TypeOK
      BY Zenon DEF IInv
    <3> QED
      BY <1>1, <3>1, ReapType, Zenon
  <2> HIDE DEF held, next
  <2>3. ASSUME keys' = [held EXCEPT ![next].reserved = TRUE, ![next].floor = NewFloor(next)]
        PROVE  keys'[k].used = held[k].used
    <3>1. CASE k = next
      <4>1. next \in Indexes /\ held[next] \in Key
        BY <1>0, <2>2, <3>1
      <4> QED
        BY <2>2, <2>3, <3>1, <4>1, Zenon DEF Key, IInv
    <3>2. CASE k # next
      BY <1>0, <2>2, <2>3, <3>2, Zenon DEF IInv
    <3> QED
      BY <3>1, <3>2
  <2> QED
    BY <2>1, <2>2, <2>3, Zenon
<1>3. ASSUME NEW a \in answers, RecordStatus(a) PROVE keys'[k].used
  BY <1>1, <1>3 DEF RecordStatus
<1>4. ASSUME NEW p \in DOMAIN ops, Reorg(p) PROVE keys'[k].used
  <2>1. keys' = [keys EXCEPT ![ops[p].key].pending = "invalidated"]
    BY <1>4 DEF Reorg
  <2> QED
    BY <1>0, <2>1 DEF Key
<1>5. ASSUME NEW j \in Indexes, Hit(j) PROVE keys'[k].used
  <2>1. keys' = [keys EXCEPT ![j].pending = "candidate"]
    BY <1>5, Zenon DEF Hit
  <2> QED
    BY <1>0, <2>1 DEF Key
<1>6. ASSUME NEW j \in Indexes, Settle(j) PROVE keys'[k].used
  <2>1. keys' = [keys EXCEPT ![j].pending = "no", ![j].used = UsedAfter(j)]
    BY <1>6, Zenon DEF Settle
  <2>2. UsedAfter(k)
    BY <1>0, Zenon DEF UsedAfter, PaidOut, Unsettled, Of
  <2> QED
    BY <1>0, <2>1, <2>2, Zenon DEF Key
<1>7. ASSUME \/ Tick \/ StoreBlock
             \/ \E j \in Indexes, l \in Lifetimes : Begin(j, l)
             \/ \E p \in DOMAIN ops, d \in Deadlines : Accept(p, d)
             \/ \E p \in DOMAIN ops : Reject(p) \/ Start(p) \/ Poll(p) \/ Deposit(p) \/ Conclude(p)
      PROVE  keys' = keys
  BY <1>7, Zenon DEF Tick, StoreBlock, Begin, Accept, Reject, Start, Poll, Deposit, Conclude, wallet
<1> QED
  BY <1>0, <1>2, <1>3, <1>4, <1>5, <1>6, <1>7 DEF Next

-----------------------------------------------------------------------------
(* reap, with deadline_clock: a reservation is not released, by a call or  *)
(* by a late status, before the deadlines of all its quotes have passed in *)
(* true time, whatever the skew of the device clock.                       *)
THEOREM NoEarlyReleaseAlways == Spec => NoEarlyRelease
<1> DEFINE A == \A k \in Indexes : keys[k].reserved /\ ~keys'[k].reserved
                   => \A o \in Current(k) : ops[o].deadline <= time
<1>1. ASSUME IInv, [Next]_vars PROVE [A]_vars
  <2> SUFFICES ASSUME Next, NEW k \in Indexes, keys[k].reserved, ~keys'[k].reserved,
                      NEW o \in Current(k)
               PROVE  ops[o].deadline <= time
    BY <1>1
  <2>1. PICK now \in Int : k \in Reapable(ops', now)
    BY <1>1, ReservationStep
  <2>2. o \in DOMAIN ops /\ ops'[o].deadline = ops[o].deadline
    BY <1>1, ReservationStep, Zenon DEF Current, Of
  <2>3. ~Unexpired(ops'[o], DeadlineClock(now))
    BY <2>1, Zenon DEF Reapable, Owns
  <2>4. time \in Nat /\ block \in Nat /\ block <= time
    BY <1>1, Zenon DEF IInv, TypeOK
  <2>5. ops[o].deadline \in Int
    BY <1>1, <2>2, RowTypes, Zenon DEF IInv, Operation
  <2> QED
    BY <2>2, <2>3, <2>4, <2>5 DEF Unexpired, DeadlineClock, Lesser
<1> HIDE DEF A
<1>2. Spec => [][A]_vars
  BY <1>1, IInvAlways, PTL DEF Spec
<1> QED
  BY <1>2 DEF A, NoEarlyRelease

(* record_status, reap, prepare and the settling of histories together:    *)
(* once the wallet knows of a deposit that the provider does not return,   *)
(* the address of that quote is not given to another one.                  *)
THEOREM OwedNotReissuedAlways == Spec => OwedNotReissued
<1> DEFINE A == \A o \in DOMAIN ops :
                   /\ Kept(o)
                   /\ ops'[o].funded
                   /\ provider'[o].state \in {"active", "paid"}
                   => Kept(o)'
<1>1. ASSUME IInv, [Next]_vars PROVE [A]_vars
  <2> SUFFICES ASSUME Next, NEW o \in DOMAIN ops, Kept(o), ops'[o].funded,
                      provider'[o].state \in {"active", "paid"}
               PROVE  Kept(o)'
    BY <1>1, Zenon
  <2> PICK k : k = ops[o].key
    BY Zenon
  <2>1. TypeOK' /\ k \in Indexes /\ ops'[o].key = k /\ o \in DOMAIN ops'
    BY <1>1, TypeStep, RowTypes, PromiseStep, LastingStep, Zenon DEF IInv, Operation, Lasting
  <2>2. /\ ops'[o].started
        /\ ops'[o].expectation \notin {NoReceipt, Inconclusive}
    <3>1. RowSound(o)'
      BY <1>1, <2>1, RowSoundStep, Zenon
    <3>2. ~Over(provider[o])'
      BY Zenon DEF Over
    <3> QED
      BY <3>1, <3>2, Zenon DEF RowSound
  <2>3. CASE keys[k].reserved /\ o > keys[k].floor
    <3>1. CASE keys'[k].reserved /\ keys'[k].floor = keys[k].floor
      BY <2>1, <2>3, <3>1, Zenon DEF Kept
    <3>2. CASE \E now : k \in Reapable(ops', now)
      <4>1. PICK now : k \in Reapable(ops', now)
        BY <3>2, Zenon
      <4>2. o \in Current(k)
        BY <2>3, Zenon DEF Current, Of
      <4>3. ~Owns(ops'[o], k, now)
        BY <4>1, <4>2, Zenon DEF Reapable
      <4>4. keys[k].used
        BY <2>2, <4>3, Zenon DEF Owns, Owes
      <4>5. Conclusive(ops'[o], keys[k].used, now)
        BY <2>2, <4>3, <4>4, Zenon DEF Owns
      <4>6. ops'[o].expectation = Receipt
        BY <2>2, <4>5 DEF Conclusive
      <4>7. \/ keys'[k].used
            \/ keys'[k].reserved /\ keys'[k].floor = keys[k].floor
        BY <1>1, <2>1, <2>3, <4>4, ReservationStep, Zenon
      <4> QED
        BY <2>1, <2>3, <4>6, <4>7, Zenon DEF Kept
    <3> QED
      BY <1>1, <2>1, <2>3, <3>1, <3>2, ReservationStep, Zenon
  <2>4. CASE keys[k].used /\ ops[o].expectation = Receipt
    BY <1>1, <2>1, <2>4, PromiseStep, UsedStep DEF Kept
  <2> QED
    BY <2>3, <2>4, Zenon DEF Kept
<1> HIDE DEF A
<1>2. Spec => [][A]_vars
  BY <1>1, IInvAlways, PTL DEF Spec
<1> QED
  BY <1>2, Zenon DEF A, OwedNotReissued

=============================================================================
