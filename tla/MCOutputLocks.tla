--------------------------- MODULE MCOutputLocks ----------------------------
(* Two flows over two or three outputs; the second may draw on the locks   *)
(* of the first.                                                           *)
EXTENDS OutputLocks, TLC

CONSTANTS f1, f2, o1, o2

PreferUnlocked(owners) == [owners |-> owners, locked |-> FALSE]
PreferLocked(owners)   == [owners |-> owners, locked |-> TRUE]

MCPolicies == [f \in Flows |->
    IF f = f1 THEN {PreferUnlocked({f1})} ELSE {Exclude, PreferLocked({f1})}]

MCRequests == [f \in Flows |-> IF f = f1 THEN {0, 1} ELSE {1, NoRequest}]

AnyOutput == Permutations(Outputs)

Excluding == [f \in Flows |-> {Exclude}]
Locking   == [f \in Flows |-> {0, 1}]

=============================================================================
