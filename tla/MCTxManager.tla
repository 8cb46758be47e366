--------------------------- MODULE MCTxManager ---------------------------
(***************************************************************************)
(* Model-checking instance of TxManager.  Goroutines of the ticker, and     *)
(* payloads, are interchangeable: nothing in TxManager tells them apart.    *)
(***************************************************************************)
EXTENDS TxManager

Symmetry == Permutations(Workers) \cup Permutations(Payloads)
============================================================================
