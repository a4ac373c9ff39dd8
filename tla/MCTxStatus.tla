----------------------------- MODULE MCTxStatus -----------------------------
(***************************************************************************)
(* TxStatus on small chains: MaxHeight heights, MaxBlocks blocks over all  *)
(* branches.                                                               *)
(***************************************************************************)
EXTENDS TxStatus
=============================================================================
