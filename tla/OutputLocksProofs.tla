------------------------- MODULE OutputLocksProofs --------------------------
(* Proofs about the output locks, for any number of outputs and flows.     *)
EXTENDS OutputLocks, TLAPS

(* Rows and flows keep their types whatever the flows and the chain do. *)
THEOREM TypeCorrect == Spec => []TypeOK
<1>1. Init => TypeOK
  BY LocksAssumption DEF Init, TypeOK, FlowStates, Idle, Locks
<1>2. TypeOK /\ [Next]_vars => TypeOK'
  <2> SUFFICES ASSUME TypeOK, [Next]_vars PROVE TypeOK'
    OBVIOUS
  <2> USE LocksAssumption
  <2>0. Idle \in FlowStates /\ None \in Locks
    BY DEF Idle, FlowStates, Locks
  <2>1. ASSUME NEW f \in Flows, Select(f) PROVE TypeOK'
    <3>1. PICK policy \in Policies[f], request \in Requests[f] :
             \E S \in Selections(Target, policy) :
                flow' = [flow EXCEPT ![f] =
                    [phase  |-> IF request = NoRequest THEN "proposed" ELSE "selected",
                     inputs |-> S, target |-> Target,
                     expiry |-> IF request = NoRequest THEN 0 ELSE Target + request]]
      BY <2>1, Zenon DEF Select
    <3>2. PICK S \in Selections(Target, policy) :
                flow' = [flow EXCEPT ![f] =
                    [phase  |-> IF request = NoRequest THEN "proposed" ELSE "selected",
                     inputs |-> S, target |-> Target,
                     expiry |-> IF request = NoRequest THEN 0 ELSE Target + request]]
      BY <3>1, Zenon
    <3>3. S \in SUBSET Outputs
      BY DEF Selections
    <3>4. Target \in Nat
      BY DEF TypeOK, Target
    <3>5. (IF request = NoRequest THEN 0 ELSE Target + request) \in Nat
      BY <3>4 DEF NoRequest
    <3>6. flow' \in [Flows -> FlowStates]
      BY <3>2, <3>3, <3>4, <3>5 DEF TypeOK, FlowStates
    <3> QED
      BY <2>1, <3>6 DEF Select, TypeOK
  <2>2. ASSUME NEW f \in Flows, Lock(f) PROVE TypeOK'
    <3>1. flow[f].expiry \in Nat
      BY DEF TypeOK, FlowStates
    <3>2. locks' \in [Outputs -> Locks]
      BY <2>2, <3>1 DEF Lock, TypeOK, Locks
    <3>3. flow' \in [Flows -> FlowStates]
      BY <2>2, <2>0, SMTT(40) DEF Lock, TypeOK, FlowStates
    <3> QED
      BY <2>2, <3>2, <3>3 DEF Lock, TypeOK
  <2>3. ASSUME NEW f \in Flows, Build(f) PROVE TypeOK'
    BY <2>3 DEF Build, TypeOK, FlowStates
  <2>4. ASSUME NEW f \in Flows, Store(f) PROVE TypeOK'
    <3>1. flow[f].inputs \in SUBSET Outputs /\ TxExpiry(f) \in Nat
      BY DEF TypeOK, FlowStates, TxExpiry
    <3>2. locks' \in [Outputs -> Locks]
      BY <2>4, <2>0 DEF Store, TypeOK
    <3>3. flow' \in [Flows -> FlowStates]
      BY <2>4, <2>0 DEF Store, TypeOK
    <3>4. txs' \subseteq [inputs : SUBSET Outputs, expiry : Nat, mined : 0..tip]
      BY <2>4, <3>1 DEF Store, TypeOK
    <3> QED
      BY <2>4, <3>2, <3>3, <3>4 DEF Store, TypeOK
  <2>5. ASSUME NEW f \in Flows, Crash(f) PROVE TypeOK'
    BY <2>5, <2>0 DEF Crash, TypeOK
  <2>6. ASSUME NEW f \in Flows, NEW o \in Outputs, Unlock(f, o) PROVE TypeOK'
    <3>1. locks' \in [Outputs -> Locks]
      BY <2>6, <2>0 DEF Unlock, TypeOK
    <3>2. flow' \in [Flows -> FlowStates]
      BY <2>6, <2>0, ZenonT(40) DEF Unlock, TypeOK, FlowStates
    <3> QED
      BY <2>6, <3>1, <3>2 DEF Unlock, TypeOK
  <2>7. CASE ClearLockedOutputs
    BY <2>7, <2>0 DEF ClearLockedOutputs, TypeOK
  <2>8. CASE ScanBlock
    <3>1. tip' \in 0..MaxHeight /\ 0..tip \subseteq 0..tip' /\ tip + 1 \in 0..tip'
      BY <2>8 DEF ScanBlock, TypeOK
    <3>2. txs' \subseteq [inputs : SUBSET Outputs, expiry : Nat, mined : 0..tip']
      <4>1. CASE UNCHANGED txs
        BY <4>1, <3>1 DEF TypeOK
      <4>2. CASE \E t \in txs : txs' = (txs \ {t}) \cup {[t EXCEPT !.mined = tip + 1]}
        BY <4>2, <3>1 DEF TypeOK
      <4> QED
        BY <4>1, <4>2, <2>8 DEF ScanBlock
    <3> QED
      BY <2>8, <3>1, <3>2 DEF ScanBlock, TypeOK
  <2>9. ASSUME NEW h \in 0..MaxHeight, Truncate(h) PROVE TypeOK'
    <3>1. tip' = h /\ tip' \in 0..MaxHeight
      BY <2>9 DEF Truncate
    <3>2. ASSUME NEW t \in txs
          PROVE  [t EXCEPT !.mined = IF @ > h THEN 0 ELSE @]
                    \in [inputs : SUBSET Outputs, expiry : Nat, mined : 0..h]
      <4>1. t \in [inputs : SUBSET Outputs, expiry : Nat, mined : 0..tip]
        BY DEF TypeOK
      <4>2. (IF t.mined > h THEN 0 ELSE t.mined) \in 0..h
        BY <4>1 DEF TypeOK
      <4> QED
        BY <4>1, <4>2
    <3>3. txs' \subseteq [inputs : SUBSET Outputs, expiry : Nat, mined : 0..tip']
      BY <2>9, <3>1, <3>2 DEF Truncate
    <3> QED
      BY <2>9, <3>1, <3>3 DEF Truncate, TypeOK
  <2>10. CASE UNCHANGED vars
    BY <2>10 DEF vars, TypeOK
  <2> QED
    BY <2>1, <2>2, <2>3, <2>4, <2>5, <2>6, <2>7, <2>8, <2>9, <2>10 DEF Next
<1> QED
  BY <1>1, <1>2, PTL DEF Spec

(* Every kind of step that changes a lock column, by what it does to it. *)
LEMMA LockSteps ==
    ASSUME Next
    PROVE  \/ UNCHANGED locks
           \/ \E f \in Flows : Lock(f) /\ \A o \in flow[f].inputs : Lockable(o, f)
           \/ \E f \in Flows : Store(f)
           \/ \E f \in Flows, o \in Outputs : Unlock(f, o)
           \/ ClearLockedOutputs
<1>1. ASSUME NEW f \in Flows, Lock(f)
      PROVE  UNCHANGED locks \/ \A o \in flow[f].inputs : Lockable(o, f)
  BY <1>1 DEF Lock
<1>2. ASSUME NEW f \in Flows, Select(f) \/ Build(f) \/ Crash(f) PROVE UNCHANGED locks
  BY <1>2 DEF Select, Build, Crash
<1>3. ASSUME ScanBlock \/ \E h \in 0..MaxHeight : Truncate(h) PROVE UNCHANGED locks
  BY <1>3 DEF ScanBlock, Truncate
<1> QED
  BY <1>1, <1>2, <1>3 DEF Next

(* A lock passes to another owner only once the output is selectable by    *)
(* everybody: lock_outputs, unlock_output, clear_locked_outputs and the    *)
(* unlock on store never take over a lock that is in force.                *)
THEOREM LocksNotStolen == Spec => NoStealing
<1>1. ASSUME TypeOK, Next, NEW o \in Outputs PROVE ForeignLockKept(o)
  <2> USE LocksAssumption
  <2>0. locks \in [Outputs -> Locks] /\ tip \in Nat
    BY <1>1 DEF TypeOK
  <2>1. CASE UNCHANGED locks
    BY <2>1 DEF ForeignLockKept
  <2>2. ASSUME NEW f \in Flows, Lock(f), \A i \in flow[f].inputs : Lockable(i, f)
        PROVE  ForeignLockKept(o)
    <3>1. CASE o \in flow[f].inputs
      <4>1. locks'[o].owner = f
        BY <2>2, <3>1 DEF Lock
      <4>2. locks[o] = None \/ locks[o].expiry <= tip \/ locks[o].owner = f
        BY <2>2, <3>1 DEF Lockable
      <4>3. locks[o] # None => locks[o].expiry \in Nat
        BY <2>0 DEF Locks
      <4> QED
        BY <4>1, <4>2, <4>3, <2>0 DEF ForeignLockKept, Eligible, Target
    <3>2. CASE o \notin flow[f].inputs
      BY <2>2, <3>2 DEF Lock, ForeignLockKept
    <3> QED
      BY <3>1, <3>2
  <2>3. ASSUME NEW f \in Flows, Store(f) PROVE ForeignLockKept(o)
    BY <2>3 DEF Store, ForeignLockKept
  <2>4. ASSUME NEW f \in Flows, NEW i \in Outputs, Unlock(f, i) PROVE ForeignLockKept(o)
    BY <2>4, <2>0 DEF Unlock, ForeignLockKept
  <2>5. CASE ClearLockedOutputs
    BY <2>5 DEF ClearLockedOutputs, ForeignLockKept
  <2> QED
    BY <2>1, <2>2, <2>3, <2>4, <2>5, <1>1, LockSteps
<1>2. TypeOK /\ [Next]_vars => [\A o \in Outputs : ForeignLockKept(o)]_vars
  BY <1>1
<1> QED
  BY <1>2, TypeCorrect, PTL DEF Spec, NoStealing

(* Whoever is given a lock holds the whole batch: a failing lock_outputs   *)
(* leaves no lock of the batch behind.                                     *)
THEOREM BatchesAtomic == Spec => AllOrNothing
<1>1. ASSUME TypeOK, Next, NEW g \in Flows, NEW o \in Outputs PROVE BatchLocked(g, o)
  <2> USE LocksAssumption
  <2>0. locks \in [Outputs -> Locks] /\ flow \in [Flows -> FlowStates]
    BY <1>1 DEF TypeOK
  <2>1. CASE UNCHANGED locks
    BY <2>1 DEF BatchLocked
  <2>2. ASSUME NEW f \in Flows, Lock(f), \A i \in flow[f].inputs : Lockable(i, f)
        PROVE  BatchLocked(g, o)
    <3>1. /\ locks' = [x \in Outputs |->
                 IF x \in flow[f].inputs THEN [owner |-> f, expiry |-> flow[f].expiry]
                                         ELSE locks[x]]
          /\ flow' = [flow EXCEPT ![f].phase = "proposed"]
      BY <2>2 DEF Lock
    <3>2. flow'[f].phase = "proposed" /\ flow'[f].inputs = flow[f].inputs
      BY <3>1, <2>0 DEF FlowStates
    <3>3. flow[f].inputs \subseteq Outputs
      BY <2>0 DEF FlowStates
    <3> QED
      BY <3>1, <3>2, <3>3 DEF BatchLocked
  <2>3. ASSUME NEW f \in Flows, Store(f) PROVE BatchLocked(g, o)
    BY <2>3 DEF Store, BatchLocked
  <2>4. ASSUME NEW f \in Flows, NEW i \in Outputs, Unlock(f, i) PROVE BatchLocked(g, o)
    BY <2>4, <2>0 DEF Unlock, BatchLocked
  <2>5. CASE ClearLockedOutputs
    BY <2>5 DEF ClearLockedOutputs, BatchLocked
  <2> QED
    BY <2>1, <2>2, <2>3, <2>4, <2>5, <1>1, LockSteps
<1>2. TypeOK /\ [Next]_vars => [\A f \in Flows, o \in Outputs : BatchLocked(f, o)]_vars
  BY <1>1
<1> QED
  BY <1>2, TypeCorrect, PTL DEF Spec, AllOrNothing

(* While its window is open a flow keeps the inputs it holds: only the     *)
(* owner-agnostic clearing, or the store of a transaction that spends one  *)
(* of them, ends the hold.                                                 *)
THEOREM HoldsKept == Spec => HoldPersists
<1>1. ASSUME TypeOK, Next, NEW f \in Flows PROVE StillHolds(f)
  <2> SUFFICES ASSUME flow[f].phase \in {"proposed", "built"},
                      flow'[f].phase \in {"proposed", "built"},
                      Holds(f), flow[f].expiry > tip
               PROVE  \/ Holds(f)'
                      \/ \A o \in Outputs : locks'[o] = None
                      \/ \E g \in Flows : /\ flow[g].phase = "built" /\ flow'[g] = Idle
                                          /\ flow[g].inputs \cap flow[f].inputs # {}
                                          /\ UNCHANGED tip
    BY DEF StillHolds
  <2> USE LocksAssumption
  <2>0. /\ locks \in [Outputs -> Locks] /\ flow \in [Flows -> FlowStates]
        /\ tip \in Nat /\ flow[f].inputs \subseteq Outputs /\ flow[f].expiry \in Nat
    BY <1>1 DEF TypeOK, FlowStates
  <2>1. flow'[f].inputs = flow[f].inputs /\ flow'[f].expiry = flow[f].expiry
    <3>1. ASSUME NEW g \in Flows, Select(g) PROVE flow'[f] = flow[f]
      BY <3>1, <2>0 DEF Select
    <3>2. ASSUME NEW g \in Flows, Lock(g) PROVE flow'[f] = flow[f]
      BY <3>2, <2>0 DEF Lock
    <3>3. ASSUME NEW g \in Flows, Build(g)
          PROVE  flow'[f].inputs = flow[f].inputs /\ flow'[f].expiry = flow[f].expiry
      BY <3>3, <2>0 DEF Build, FlowStates
    <3>4. ASSUME NEW g \in Flows, Store(g) \/ Crash(g) PROVE flow'[f] = flow[f]
      BY <3>4, <2>0 DEF Store, Crash, Idle
    <3>5. ASSUME NEW g \in Flows, NEW o \in Outputs, Unlock(g, o) PROVE flow'[f] = flow[f]
      <4>1. CASE g = f
        <5>1. flow'[f].phase \in {"idle", "releasing"}
          BY <3>5, <4>1, <2>0 DEF Unlock, Idle, FlowStates
        <5> QED
          BY <5>1
      <4>2. CASE g # f
        BY <3>5, <4>2, <2>0 DEF Unlock
      <4> QED
        BY <4>1, <4>2
    <3>6. ASSUME ClearLockedOutputs \/ ScanBlock \/ \E h \in 0..MaxHeight : Truncate(h)
          PROVE  flow'[f] = flow[f]
      BY <3>6 DEF ClearLockedOutputs, ScanBlock, Truncate
    <3> QED
      BY <1>1, <3>1, <3>2, <3>3, <3>4, <3>5, <3>6 DEF Next
  <2>2. ASSUME \A o \in flow[f].inputs : locks'[o] = locks[o] PROVE Holds(f)'
    BY <2>1, <2>2 DEF Holds
  <2>3. CASE UNCHANGED locks
    BY <2>2, <2>3
  <2>4. ASSUME NEW g \in Flows, Lock(g), \A o \in flow[g].inputs : Lockable(o, g)
        PROVE  Holds(f)'
    <3>1. ASSUME NEW o \in flow[f].inputs, o \in flow[g].inputs PROVE g = f
      <4>1. locks[o] = [owner |-> f, expiry |-> flow[f].expiry] /\ Lockable(o, g)
        BY <2>4, <3>1 DEF Holds
      <4>2. locks[o] # None
        BY <4>1 DEF None
      <4> QED
        BY <4>1, <4>2, <2>0 DEF Lockable
    <3>2. g # f
      BY <2>4 DEF Lock
    <3> QED
      BY <2>2, <2>4, <2>0, <3>1, <3>2 DEF Lock
  <2>5. ASSUME NEW g \in Flows, Store(g)
        PROVE  \/ Holds(f)'
               \/ /\ flow[g].phase = "built" /\ flow'[g] = Idle
                  /\ flow[g].inputs \cap flow[f].inputs # {}
                  /\ UNCHANGED tip
    <3>1. flow[g].phase = "built" /\ flow'[g] = Idle /\ UNCHANGED tip
      BY <2>5, <2>0 DEF Store
    <3>2. ASSUME flow[g].inputs \cap flow[f].inputs = {}
          PROVE  \A o \in flow[f].inputs : locks'[o] = locks[o]
      BY <2>5, <2>0, <3>2 DEF Store
    <3> QED
      BY <2>2, <3>1, <3>2
  <2>6. ASSUME NEW g \in Flows, NEW o \in Outputs, Unlock(g, o) PROVE Holds(f)'
    <3>1. g # f
      BY <2>6, <2>0 DEF Unlock, Idle, FlowStates
    <3>2. o \in flow[f].inputs => locks[o].owner = f
      BY DEF Holds
    <3> QED
      BY <2>2, <2>6, <2>0, <3>1, <3>2 DEF Unlock
  <2>7. CASE ClearLockedOutputs
    BY <2>7 DEF ClearLockedOutputs
  <2> QED
    BY <2>3, <2>4, <2>5, <2>6, <2>7, <1>1, LockSteps
<1>2. TypeOK /\ [Next]_vars => [\A f \in Flows : StillHolds(f)]_vars
  BY <1>1
<1> QED
  BY <1>2, TypeCorrect, PTL DEF Spec, HoldPersists

=============================================================================
