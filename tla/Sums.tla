-------------------------------- MODULE Sums --------------------------------
(***************************************************************************)
(* The sum of the values that a function has on a finite set.              *)
(***************************************************************************)
EXTENDS Functions

Total(f, S) == FoldFunctionOnSet(+, 0, f, S)
=============================================================================
