------------------------- MODULE RootChainPipeline -------------------------
(***************************************************************************)
(* RootChain implements RequestPipeline.  The stages are read off the      *)
(* contract's storage: the request ranges of the epochs, the request       *)
(* blocks of the submitted chain, and EROIdToFinalize.                     *)
(***************************************************************************)
EXTENDS RootChain, FiniteSetsExt

filledEpochs ==
  {e \in Epochs : fork.epochs[e].isRequest /\ ~fork.epochs[e].isEmpty}

(* requests up to the last one of the last of a set of request blocks *)
requestsUpTo(bs) ==
  IF bs = {} THEN 0
  ELSE ORB(fork.blocks[Max(bs)].requestBlockId).requestEnd + 1

Pipeline == INSTANCE RequestPipeline WITH
  isExit    <- [k \in 1 .. Len(EROs) |-> EROs[k].isExit],
  cancelled <- [k \in 1 .. Len(EROs) |-> EROs[k].challenged],
  effects   <- [k \in 1 .. Len(EROs) |-> EROs[k].applied],
  assigned  <- IF filledEpochs = {} THEN 0
               ELSE fork.epochs[Max(filledEpochs)].requestEnd + 1,
  included  <- requestsUpTo(RequestBlocks),
  final     <- requestsUpTo({b \in RequestBlocks : fork.blocks[b].finalized}),
  settled   <- EROIdToFinalize

(* Every behaviour of the contract is one of the request pipeline: no      *)
(* request is skipped, reordered, settled before its block is final, or    *)
(* applied other than once.                                                *)
ImplementsPipeline == Pipeline!Spec
=============================================================================
