---------------------------- MODULE MCWalletScan ----------------------------
(* Small instances of the wallet's scanning state.                         *)
EXTENDS WalletScan, TLC

CONSTANTS a1, a2, sapling, orchard

MCPoolActivation  == [p \in Pools |-> IF p = sapling THEN 0 ELSE 1]
MCRetain          == {OpenAdjacent, RetainNothing}
MCRescan          == {Historic, Verify}
MCNoPriorities    == {}

Symmetry == Permutations({a1, a2})

=============================================================================
