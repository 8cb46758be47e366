--------------------------- MODULE MCOperatorNode ---------------------------
(* Small instances of OperatorNode for model checking. *)
EXTENDS OperatorNode
=============================================================================
