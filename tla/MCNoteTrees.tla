---------------------------- MODULE MCNoteTrees -----------------------------
(* Small instances of the note commitment trees: two pools, a few chains   *)
(* that agree and differ at different heights.                             *)
EXTENDS NoteTrees

CONSTANTS sapling, ironwood

MCActivation == [p \in Pools |-> IF p = sapling THEN 1 ELSE 2]

Chain(cs, ns, ci, ni) ==
    [commits |-> [p \in Pools |-> IF p = sapling THEN cs ELSE ci],
     notes   |-> [p \in Pools |-> IF p = sapling THEN ns ELSE ni]]

MCChains == {Chain({1, 3, 4}, {1}, {2, 5}, {2}),
             Chain({1, 2, 3, 4, 5}, {3}, {4}, {}),
             Chain({1, 3}, {1}, {3, 5}, {3})}

=============================================================================
