---------------------------- MODULE OutputLocks -----------------------------
(***************************************************************************)
(* Advisory locks on received outputs.  Several payment flows share one    *)
(* wallet database: each selects inputs, locks them, builds a transaction  *)
(* and stores it, and any of them may stop half way.  The storage layer    *)
(* makes each call atomic; the calls of different flows interleave.        *)
(*                                                                         *)
(* The four received-output tables are one set of outputs of equal value,  *)
(* of one account; every flow has its own LockOwner.                       *)
(***************************************************************************)
EXTENDS Integers, FiniteSets

CONSTANTS
    Outputs,        \* received outputs of the account
    Flows,          \* payment flows; a flow is also its LockOwner
    Policies,       \* [Flows -> set of locked-input policies]
    Requests,       \* [Flows -> lock requests: for_blocks, or NoRequest]
    ExpiryDelta,    \* default_tx_expiry_delta
    MaxHeight,      \* bound: the highest chain tip
    MaxInputs,      \* bound: inputs of a proposal
    MaxTxs,         \* bound: stored transactions
    NoOwner         \* a lock_owner that is NULL

None      == [owner |-> NoOwner, expiry |-> 0]    \* both lock columns are NULL
NoRequest == -1                                   \* lock_inputs is None

ASSUME LocksAssumption ==
    /\ NoOwner \notin Flows
    /\ Requests \in [Flows -> SUBSET (Nat \cup {NoRequest})]
    /\ MaxHeight \in Nat /\ MaxTxs \in Nat /\ MaxInputs \in Nat
    /\ ExpiryDelta \in Nat \ {0}

VARIABLES
    tip,      \* chain_tip_height
    locks,    \* lock_owner and lock_expiry_height of each output
    flow,     \* what each flow remembers between its calls
    txs       \* stored transactions and their spend records

vars == <<tip, locks, flow, txs>>

Idle     == [phase |-> "idle", inputs |-> {}, target |-> 0, expiry |-> 0]
Exclude  == [owners |-> {}, locked |-> FALSE]
Target   == tip + 1
Locks    == {None} \cup [owner : Flows, expiry : Nat]

Init ==
    /\ tip = 0
    /\ locks = [o \in Outputs |-> None]
    /\ flow = [f \in Flows |-> Idle]
    /\ txs = {}

-----------------------------------------------------------------------------
(* Predicates on one output, as the SQL fragments state them.              *)

(* is_locked_at *)
IsLockedAt(o, target) == locks[o] # None /\ locks[o].expiry >= target

(* output_eligible_condition under a policy *)
Eligible(o, target, policy) ==
    \/ locks[o] = None
    \/ locks[o].expiry < target
    \/ locks[o].owner \in policy.owners

LockableLate(o, owner) ==
    locks[o] = None \/ locks[o].expiry <= tip + 1 \/ locks[o].owner = owner

(* output_lockable_condition *)
Lockable(o, owner) ==
    locks[o] = None \/ locks[o].expiry <= tip \/ locks[o].owner = owner

(* tx_unexpired_condition: such a spend hides the output from selection. *)
Unexpired(t, target) == (t.mined > 0 /\ t.mined < target) \/ t.expiry >= target

Spent(o, target) == \E t \in txs : o \in t.inputs /\ Unexpired(t, target)

(* The inputs a selection may return: locked_tier_expr orders the eligible *)
(* outputs, and the query stops once the value is reached.                 *)
Selections(target, policy) ==
    LET eligible == {o \in Outputs : Eligible(o, target, policy) /\ ~Spent(o, target)}
        preferred == {o \in eligible : IsLockedAt(o, target) = policy.locked}
    IN  {S \in SUBSET eligible :
            /\ Cardinality(S) \in 1..MaxInputs
            /\ S \subseteq preferred \/ preferred \subseteq S}

-----------------------------------------------------------------------------
(* One flow.                                                               *)

(* propose_*: the heights and the inputs are read; without a lock request  *)
(* that is all ...                                                         *)
Select(f) ==
    /\ flow[f].phase = "idle"
    /\ \E policy \in Policies[f], request \in Requests[f] :
         \E S \in Selections(Target, policy) :
            flow' = [flow EXCEPT ![f] =
                [phase  |-> IF request = NoRequest THEN "proposed" ELSE "selected",
                 inputs |-> S, target |-> Target,
                 expiry |-> IF request = NoRequest THEN 0 ELSE Target + request]]
    /\ UNCHANGED <<tip, locks, txs>>

LockPartly(f) ==
    /\ flow[f].phase = "selected"
    /\ LET inputs == flow[f].inputs
           free   == {o \in inputs : Lockable(o, f)}
       IN  /\ locks' = [o \in Outputs |->
                  IF o \in free THEN [owner |-> f, expiry |-> flow[f].expiry]
                                ELSE locks[o]]
           /\ flow' = [flow EXCEPT ![f] =
                  IF free = inputs THEN [@ EXCEPT !.phase = "proposed"] ELSE Idle]
    /\ UNCHANGED <<tip, txs>>

(* ... and then lock_proposal_inputs locks them in a transaction that      *)
(* fails as a whole when one of them is not lockable (InputsLocked).       *)
Lock(f) ==
    /\ flow[f].phase = "selected"
    /\ LET inputs == flow[f].inputs IN
       IF \A o \in inputs : Lockable(o, f)
       THEN /\ locks' = [o \in Outputs |->
                   IF o \in inputs THEN [owner |-> f, expiry |-> flow[f].expiry]
                                   ELSE locks[o]]
            /\ flow' = [flow EXCEPT ![f].phase = "proposed"]
       ELSE /\ flow' = [flow EXCEPT ![f] = Idle]
            /\ UNCHANGED locks
    /\ UNCHANGED <<tip, txs>>

TxExpiry(f) == flow[f].target + ExpiryDelta

(* create_proposed_transactions refuses a proposal whose transaction would *)
(* be expired already; proving then takes a while.                         *)
Build(f) ==
    /\ flow[f].phase = "proposed"
    /\ TxExpiry(f) >= Target
    /\ flow' = [flow EXCEPT ![f].phase = "built"]
    /\ UNCHANGED <<tip, locks, txs>>

(* store_transaction_to_be_sent records the spends and removes the locks   *)
(* of the spent outputs, whoever owns them.                                *)
Store(f) ==
    /\ flow[f].phase = "built"
    /\ Cardinality(txs) < MaxTxs
    /\ txs' = txs \cup {[inputs |-> flow[f].inputs, expiry |-> TxExpiry(f), mined |-> 0]}
    /\ locks' = [o \in Outputs |-> IF o \in flow[f].inputs THEN None ELSE locks[o]]
    /\ flow' = [flow EXCEPT ![f] = Idle]
    /\ UNCHANGED tip

UnlockAny(f, o) ==
    /\ flow[f].phase \in {"proposed", "built", "releasing"}
    /\ o \in flow[f].inputs
    /\ locks' = [locks EXCEPT ![o] = None]
    /\ LET rest == flow[f].inputs \ {o}
       IN  flow' = [flow EXCEPT ![f] =
              IF rest = {} THEN Idle ELSE [@ EXCEPT !.phase = "releasing", !.inputs = rest]]
    /\ UNCHANGED <<tip, txs>>

(* unlock_proposal_inputs: one unlock_output, in a transaction of its own, *)
(* for each input; a lock of another owner stays.                          *)
Unlock(f, o) ==
    /\ flow[f].phase \in {"proposed", "built", "releasing"}
    /\ o \in flow[f].inputs
    /\ locks' = [locks EXCEPT ![o] = IF @ # None /\ @.owner = f THEN None ELSE @]
    /\ LET rest == flow[f].inputs \ {o}
       IN  flow' = [flow EXCEPT ![f] =
              IF rest = {} THEN Idle ELSE [@ EXCEPT !.phase = "releasing", !.inputs = rest]]
    /\ UNCHANGED <<tip, txs>>

(* The application stops: the flow is forgotten, its locks stay. *)
Crash(f) ==
    /\ flow[f].phase # "idle"
    /\ flow' = [flow EXCEPT ![f] = Idle]
    /\ UNCHANGED <<tip, locks, txs>>

(* clear_locked_outputs *)
ClearLockedOutputs ==
    /\ locks # [o \in Outputs |-> None]
    /\ locks' = [o \in Outputs |-> None]
    /\ UNCHANGED <<tip, flow, txs>>

-----------------------------------------------------------------------------
(* The chain.                                                              *)

(* The next block is scanned; it may hold one of the wallet's stored       *)
(* transactions whose inputs no other mined transaction spends.            *)
ScanBlock ==
    /\ tip < MaxHeight
    /\ tip' = tip + 1
    /\ \/ UNCHANGED txs
       \/ \E t \in txs :
             /\ t.mined = 0 /\ t.expiry >= tip + 1
             /\ \A u \in txs : u.mined > 0 => u.inputs \cap t.inputs = {}
             /\ txs' = (txs \ {t}) \cup {[t EXCEPT !.mined = tip + 1]}
    /\ UNCHANGED <<locks, flow>>

TruncateKeepsMined(h) ==
    /\ h < tip
    /\ tip' = h
    /\ UNCHANGED <<locks, flow, txs>>

(* truncate_to_height: transactions above it are no longer mined, the lock *)
(* columns are not touched.                                                *)
Truncate(h) ==
    /\ h < tip
    /\ tip' = h
    /\ txs' = {[t EXCEPT !.mined = IF @ > h THEN 0 ELSE @] : t \in txs}
    /\ UNCHANGED <<locks, flow>>

Next ==
    \/ \E f \in Flows : \/ Select(f) \/ Lock(f) \/ Build(f) \/ Store(f) \/ Crash(f)
                        \/ \E o \in Outputs : Unlock(f, o)
    \/ ClearLockedOutputs
    \/ ScanBlock
    \/ \E h \in 0..MaxHeight : Truncate(h)

Spec == Init /\ [][Next]_vars

-----------------------------------------------------------------------------
(* Properties.                                                             *)

FlowStates == [phase  : {"idle", "selected", "proposed", "built", "releasing"},
               inputs : SUBSET Outputs, target : Nat, expiry : Nat]

(* Rows and flows have their types, and no transaction is mined above the  *)
(* chain tip.                                                              *)
TypeOK ==
    /\ tip \in 0..MaxHeight
    /\ locks \in [Outputs -> Locks]
    /\ flow \in [Flows -> FlowStates]
    /\ txs \subseteq [inputs : SUBSET Outputs, expiry : Nat, mined : 0..tip]

ForeignLockKept(o) ==
    (locks[o] # None /\ locks'[o] # None /\ locks'[o].owner # locks[o].owner)
        => Eligible(o, Target, Exclude)

(* No stealing: a lock passes to another owner only once every caller, even*)
(* one that excludes locked outputs, could have selected the output.       *)
NoStealing == [][\A o \in Outputs : ForeignLockKept(o)]_vars

BatchLocked(f, o) ==
    (locks'[o] # locks[o] /\ locks'[o] # None /\ locks'[o].owner = f)
        => /\ flow'[f].phase = "proposed"
           /\ \A i \in flow'[f].inputs : locks'[i] = locks'[o]

(* All or nothing: when a call gives a flow a lock, the flow holds all the *)
(* inputs of its proposal, and with the same expiry.                       *)
AllOrNothing == [][\A f \in Flows, o \in Outputs : BatchLocked(f, o)]_vars

Holds(f) == \A o \in flow[f].inputs :
                locks[o] = [owner |-> f, expiry |-> flow[f].expiry]

StillHolds(f) ==
    (/\ flow[f].phase \in {"proposed", "built"}
     /\ flow'[f].phase \in {"proposed", "built"}
     /\ Holds(f) /\ flow[f].expiry > tip)
    => \/ Holds(f)'
       \/ \A o \in Outputs : locks'[o] = None
       \/ \E g \in Flows : /\ flow[g].phase = "built" /\ flow'[g] = Idle
                           /\ flow[g].inputs \cap flow[f].inputs # {}
                           /\ UNCHANGED tip

(* A flow that holds its inputs keeps them: no lock, unlock or failure of  *)
(* another flow, no block and no truncation takes them away while the      *)
(* window is open.  Only the owner-agnostic clearing does, and the store of*)
(* a transaction that spends one of them (proposed before this flow locked *)
(* it, or through a policy that names this owner).                         *)
HoldPersists == [][\A f \in Flows : StillHolds(f)]_vars

(* locking.rs: of two callers that select overlapping outputs, the second  *)
(* to lock them fails.  Checked as: a lock that is in force never covers an*)
(* output that a stored, unexpired transaction of another flow spends.     *)
SecondCallerFails ==
    \A f \in Flows :
        (flow[f].phase = "proposed" /\ Holds(f) /\ flow[f].expiry > tip)
            => \A o \in flow[f].inputs : ~Spent(o, Target)

(* locking.rs: a locked output is released only by its owner or by         *)
(* clear_locked_outputs.                                                   *)
ReleasedByOwner ==
    [][\A o \in Outputs :
          (IsLockedAt(o, Target) /\ locks'[o] = None)
             => \/ locks' = [x \in Outputs |-> None] /\ flow' = flow
                \/ flow'[locks[o].owner] # flow[locks[o].owner]]_vars

=============================================================================
