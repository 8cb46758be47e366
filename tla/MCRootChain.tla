---------------------------- MODULE MCRootChain ----------------------------
(* Model-checking instance of RootChain. *)
EXTENDS RootChain
=============================================================================
