------------------------------ MODULE RootChain ------------------------------
(***************************************************************************)
(* The RootChain contract of the operator's fork (fork 0; user activated   *)
(* forks are disabled in the source: prepareToSubmitURB and submitURB      *)
(* revert).  Users create enter and exit requests; the contract packs them *)
(* into request blocks (ORBs), assigns runs of ORBs to request epochs      *)
(* (OREs, even numbers) that alternate with non-request epochs (NREs, odd  *)
(* numbers) of NRELength blocks; the operator submits epochs in order; a   *)
(* submitted block is finalized after its challenge period; a request is   *)
(* finalized, in order, once its block has been final for CP_EXIT.         *)
(*                                                                         *)
(* Every action is one successful external call (a call that reverts is    *)
(* no step).  Merkle roots, payloads, costs and events are left out.  The  *)
(* receipts root of a request block is the set of its requests whose       *)
(* child-chain transaction failed.                                         *)
(***************************************************************************)
EXTENDS Integers, Sequences, FiniteSets

CONSTANTS
  NRELength,       \* number of blocks of a non-request epoch
  MAX_REQUESTS,    \* capacity of a request block
  CP_COMPUTATION,  \* challenge period of a request block
  CP_WITHHOLDING,  \* challenge period of a non-request epoch
  CP_EXIT,         \* period in which an exit of a final block is challenged
  development,     \* the contract's development flag
  MaxEROs,         \* bound: number of requests
  MaxEpoch,        \* bound: highest epoch number with storage
  MaxBlock,        \* bound: highest block number with storage
  MaxTime          \* bound: highest block timestamp

ASSUME ParamsAssumption ==
  /\ NRELength \in Nat \ {0}
  /\ MAX_REQUESTS \in Nat \ {0, 1}
  /\ CP_COMPUTATION \in Nat
  /\ CP_WITHHOLDING \in Nat
  /\ CP_EXIT \in Nat
  /\ development \in BOOLEAN

ASSUME BoundsAssumption ==
  /\ MaxEROs \in Nat
  /\ MaxEpoch \in Nat /\ MaxEpoch >= 3
  /\ MaxBlock \in Nat
  /\ MaxTime \in Nat

VARIABLES
  fork,                       \* forks[0]: epochs, blocks and its cursors
  EROs,                       \* requests; request i is EROs[i + 1]
  ORBs,                       \* request blocks; block i is ORBs[i + 1]
  numEnterForORB,             \* enters since the last prepareORE
  firstFilledORENumber,
  firstNonEmptyRequestEpoch,
  lastNonEmptyRequestEpoch,
  EROIdToFinalize,            \* next request to finalize
  lastAppliedEpochNumber,     \* the finalization cursor: epoch ...
  lastAppliedBlockNumber,     \* ... and block
  now                         \* block.timestamp

vars == <<fork, EROs, ORBs, numEnterForORB, firstFilledORENumber,
          firstNonEmptyRequestEpoch, lastNonEmptyRequestEpoch,
          EROIdToFinalize, lastAppliedEpochNumber, lastAppliedBlockNumber,
          now>>

requestVars == <<EROs, ORBs, numEnterForORB>>
epochVars == <<firstFilledORENumber, firstNonEmptyRequestEpoch,
               lastNonEmptyRequestEpoch>>
cursorVars == <<EROIdToFinalize, lastAppliedEpochNumber,
                lastAppliedBlockNumber>>

Epochs == 0 .. MaxEpoch
Blocks == 0 .. MaxBlock

(***************************************************************************)
(* Storage layout.  The RE and NRE parts of an Epoch are flattened.        *)
(* challenging/challenged of blocks and epochs are never set by the source *)
(* and are left out, as are the timestamps nothing reads in fork 0.        *)
(***************************************************************************)
Epoch == [startBlockNumber : Nat, endBlockNumber : Nat,
          isEmpty : BOOLEAN, initialized : BOOLEAN, isRequest : BOOLEAN,
          requestStart : Nat, requestEnd : Nat, firstRequestBlockId : Nat,
          numEnter : Nat, nextEnterEpoch : Nat, nextEpoch : Nat,
          submittedAt : Nat, finalized : BOOLEAN]

PlasmaBlock == [epochNumber : Nat, requestBlockId : Nat, timestamp : Nat,
                finalizedAt : Nat, isRequest : BOOLEAN, finalized : BOOLEAN,
                failed : SUBSET Nat]

Request == [isExit : BOOLEAN, challenged : BOOLEAN, finalized : BOOLEAN,
            applied : Nat]

RequestBlock == [submitted : BOOLEAN, numEnter : Nat, requestStart : Nat,
                 requestEnd : Nat]

Fork == [epochs : [Epochs -> Epoch], blocks : [Blocks -> PlasmaBlock],
         lastEpoch : Nat, lastBlock : Nat, lastFinalizedEpoch : Nat,
         lastFinalizedBlock : Nat, firstEnterEpoch : Nat,
         lastEnterEpoch : Nat]

ZeroEpoch == [startBlockNumber |-> 0, endBlockNumber |-> 0,
              isEmpty |-> FALSE, initialized |-> FALSE, isRequest |-> FALSE,
              requestStart |-> 0, requestEnd |-> 0,
              firstRequestBlockId |-> 0, numEnter |-> 0,
              nextEnterEpoch |-> 0, nextEpoch |-> 0,
              submittedAt |-> 0, finalized |-> FALSE]

ZeroBlock == [epochNumber |-> 0, requestBlockId |-> 0, timestamp |-> 0,
              finalizedAt |-> 0, isRequest |-> FALSE, finalized |-> FALSE,
              failed |-> {}]

ZeroORB == [submitted |-> FALSE, numEnter |-> 0, requestStart |-> 0,
            requestEnd |-> 0]

ERO(i) == EROs[i + 1]
ORB(i) == ORBs[i + 1]

(* Math.divCeil *)
divCeil(n, d) == IF n % d = 0 THEN n \div d ELSE n \div d + 1

-----------------------------------------------------------------------------
(***************************************************************************)
(* prepareNRE: open the non-request epoch after lastEpoch.                 *)
(***************************************************************************)
prepareNRE(f) ==
  LET n == f.lastEpoch + 1
      s == IF n = 1 THEN 1 ELSE f.epochs[f.lastEpoch].endBlockNumber + 1
  IN [f EXCEPT !.epochs[n].initialized = TRUE,
               !.epochs[n].startBlockNumber = s,
               !.epochs[n].endBlockNumber = s + NRELength - 1]

(***************************************************************************)
(* The constructor: genesis block and epoch are final, ORE 2 is empty and  *)
(* NRE 1 is open.                                                          *)
(***************************************************************************)
GenesisFork ==
  [epochs |-> [e \in Epochs |->
      IF e = 0 THEN [ZeroEpoch EXCEPT !.initialized = TRUE,
                                      !.finalized = TRUE]
      ELSE IF e = 2 THEN [ZeroEpoch EXCEPT !.isEmpty = TRUE,
                                           !.isRequest = TRUE]
      ELSE ZeroEpoch],
   blocks |-> [b \in Blocks |-> [ZeroBlock EXCEPT !.finalized = (b = 0)]],
   lastEpoch |-> 0, lastBlock |-> 0,
   lastFinalizedEpoch |-> 0, lastFinalizedBlock |-> 0,
   firstEnterEpoch |-> 0, lastEnterEpoch |-> 0]

InitFork == prepareNRE(GenesisFork)

Init ==
  /\ fork = InitFork
  /\ EROs = <<>>
  /\ ORBs = <<>>
  /\ numEnterForORB = 0
  /\ firstFilledORENumber = 0
  /\ firstNonEmptyRequestEpoch = 0
  /\ lastNonEmptyRequestEpoch = 0
  /\ EROIdToFinalize = 0
  /\ lastAppliedEpochNumber = 0
  /\ lastAppliedBlockNumber = 0
  /\ now = 0

-----------------------------------------------------------------------------
(***************************************************************************)
(* Block finalization.  _finalizeBlock finalizes the next request block,   *)
(* or the whole next non-request epoch, or nothing.                        *)
(***************************************************************************)
nextNREToFinalize(f) ==
  CHOOSE e \in Epochs :
    /\ e > f.lastFinalizedEpoch
    /\ ~f.epochs[e].isRequest
    /\ \A d \in Epochs : d > f.lastFinalizedEpoch /\ d < e
                             => f.epochs[d].isRequest

(* Mutant of doFinalizeBlock: lastFinalizedBlock is not advanced. *)
doFinalizeBlock_cursorKept(f, b) ==
  [f EXCEPT !.blocks[b].finalized = TRUE,
            !.blocks[b].finalizedAt = now,
            !.lastFinalizedEpoch = f.blocks[b].epochNumber]

doFinalizeBlock(f, b) ==
  [f EXCEPT !.blocks[b].finalized = TRUE,
            !.blocks[b].finalizedAt = now,
            !.lastFinalizedBlock = b,
            !.lastFinalizedEpoch = f.blocks[b].epochNumber]

doFinalizeNRE(f, e) ==
  [f EXCEPT !.epochs[e].finalized = TRUE,
            !.lastFinalizedBlock = f.epochs[e].endBlockNumber,
            !.lastFinalizedEpoch = e]

checkFinalizableNRE(f, e) ==
  /\ e <= f.lastEpoch
  /\ f.epochs[e].initialized
  /\ ~f.epochs[e].isRequest
  /\ f.epochs[e].submittedAt + CP_WITHHOLDING <= now

CanFinalizeORB(f) ==
  LET b == f.lastFinalizedBlock + 1
  IN /\ b <= f.lastBlock
     /\ f.blocks[b].isRequest
     /\ f.blocks[b].timestamp + CP_COMPUTATION <= now

CanFinalizeNRE(f) ==
  LET b == f.lastFinalizedBlock + 1
  IN /\ b <= f.lastBlock
     /\ ~f.blocks[b].isRequest
     /\ checkFinalizableNRE(f, nextNREToFinalize(f))

finalizeBlock(f) ==
  IF CanFinalizeORB(f)
  THEN doFinalizeBlock(f, f.lastFinalizedBlock + 1)
  ELSE IF CanFinalizeNRE(f)
       THEN doFinalizeNRE(f, nextNREToFinalize(f))
       ELSE f

(* the finalizeBlocks modifier of the submit functions *)
finalizeBlocks(f) == IF development THEN f ELSE finalizeBlock(f)

-----------------------------------------------------------------------------
(***************************************************************************)
(* Submission.  Data.insertNRE and Data.insertBlock check the position the *)
(* operator submits and append to the fork.                                *)
(***************************************************************************)
CanInsertNRE(f) ==
  LET n == f.lastEpoch + 1
  IN /\ ~f.epochs[n].isRequest
     /\ f.epochs[n].startBlockNumber = f.lastBlock + 1

insertNRE(f) ==
  LET n == f.lastEpoch + 1
  IN [f EXCEPT !.epochs[n].submittedAt = now,
               !.lastEpoch = n,
               !.lastBlock = f.epochs[n].endBlockNumber]

(* the epoch that the next block belongs to *)
epochOfNextBlock(f) ==
  IF f.lastBlock + 1 = f.epochs[f.lastEpoch].endBlockNumber + 1
  THEN f.lastEpoch + 1
  ELSE f.lastEpoch

CanInsertBlock(f) ==
  LET ep == f.epochs[epochOfNextBlock(f)]
      b == f.lastBlock + 1
  IN /\ ep.startBlockNumber <= b
     /\ b <= ep.endBlockNumber
     /\ ep.isRequest

(* Mutant of requestBlockIdOfNextBlock: the position of the block in its   *)
(* epoch is not added.                                                     *)
requestBlockIdOfNextBlock_first(f) ==
  f.epochs[epochOfNextBlock(f)].firstRequestBlockId

requestBlockIdOfNextBlock(f) ==
  LET ep == f.epochs[epochOfNextBlock(f)]
  IN ep.firstRequestBlockId + f.lastBlock + 1 - ep.startBlockNumber

insertBlock(f, failed) ==
  LET n == epochOfNextBlock(f)
      b == f.lastBlock + 1
  IN [f EXCEPT !.blocks[b] =
                 [@ EXCEPT !.epochNumber = n,
                           !.requestBlockId = requestBlockIdOfNextBlock(f),
                           !.timestamp = now,
                           !.isRequest = TRUE,
                           !.failed = failed],
               !.lastEpoch = n,
               !.lastBlock = b]

-----------------------------------------------------------------------------
(***************************************************************************)
(* prepareORE, run after NRE n - 1 has been submitted: fix the block range *)
(* of request epoch n, whose requests were chosen two epochs ago, and      *)
(* choose the requests of request epoch n + 2.                             *)
(***************************************************************************)
numBlocks(ep) ==
  IF ep.isEmpty THEN 0
  ELSE divCeil(ep.requestEnd - ep.requestStart + 1, MAX_REQUESTS)

(* link epoch n into the list of epochs with enter requests *)
linkEnterEpoch(f, n) ==
  IF f.epochs[n].numEnter = 0 THEN f
  ELSE IF f.firstEnterEpoch = 0
       THEN [f EXCEPT !.firstEnterEpoch = n, !.lastEnterEpoch = n]
       ELSE [f EXCEPT !.epochs[f.lastEnterEpoch].nextEnterEpoch = n,
                      !.lastEnterEpoch = n]

(* start and end block of request epoch n *)
closeORE(f, n) ==
  LET ep == f.epochs[n]
      prevEnd == f.epochs[n - 1].endBlockNumber
  IN [f EXCEPT !.epochs[n].initialized = TRUE,
               !.epochs[n].startBlockNumber =
                   IF ep.isEmpty THEN prevEnd ELSE prevEnd + 1,
               !.epochs[n].endBlockNumber = prevEnd + numBlocks(ep)]

firstFilled(f, n) ==
  IF firstFilledORENumber = 0 /\ ~f.epochs[n].isEmpty
  THEN n ELSE firstFilledORENumber

(* no request was created after the last one of request epoch ep *)
nextIsEmpty(ep) == Len(EROs) = 0 \/ Len(EROs) - 1 = ep.requestEnd

(* Mutant of nextRequestStart: the first filled epoch is no special case. *)
nextRequestStart_noFirstCase(f, n) ==
  LET ep == f.epochs[n]
  IN IF nextIsEmpty(ep) THEN ep.requestEnd ELSE ep.requestEnd + 1

nextRequestStart(f, n) ==
  LET ep == f.epochs[n]
  IN IF nextIsEmpty(ep) \/ firstFilled(f, n) = 0
     THEN ep.requestEnd
     ELSE ep.requestEnd + 1

(* Mutant of nextFirstRequestBlockId: an empty epoch is handled like a     *)
(* filled one without blocks.                                              *)
nextFirstRequestBlockId_noEmptyCase(f, n) ==
  LET ep == f.epochs[n]
  IN IF nextIsEmpty(ep) THEN ep.firstRequestBlockId + numBlocks(ep) - 1
     ELSE ep.firstRequestBlockId + numBlocks(ep)

nextFirstRequestBlockId(f, n) ==
  LET ep == f.epochs[n]
  IN IF nextIsEmpty(ep)
     THEN IF ep.isEmpty THEN ep.firstRequestBlockId
          ELSE ep.firstRequestBlockId + numBlocks(ep) - 1
     ELSE IF firstFilled(f, n) = 0 THEN ep.firstRequestBlockId
     ELSE IF ep.isEmpty THEN ep.firstRequestBlockId + 1
          ELSE ep.firstRequestBlockId + numBlocks(ep)

(* the requests of request epoch n + 2 *)
openNextORE(f, n) ==
  LET ep == f.epochs[n]
  IN [f EXCEPT !.epochs[n + 2] =
       [@ EXCEPT !.isRequest = TRUE,
                 !.numEnter = numEnterForORB,
                 !.isEmpty = nextIsEmpty(ep),
                 !.requestStart = nextRequestStart(f, n),
                 !.requestEnd = IF nextIsEmpty(ep) THEN nextRequestStart(f, n)
                                ELSE Len(EROs) - 1,
                 !.firstRequestBlockId = nextFirstRequestBlockId(f, n)]]

(* Mutant of linkNonEmpty: the previous non-empty epoch is not linked. *)
linkNonEmpty_dropped(f, n) == f

(* link epoch n into the list of non-empty request epochs *)
linkNonEmpty(f, n) ==
  IF f.epochs[n].isEmpty \/ lastNonEmptyRequestEpoch = 0 THEN f
  ELSE [f EXCEPT !.epochs[lastNonEmptyRequestEpoch].nextEpoch = n]

(* Mutant of skipEmptyORE: the next NRE is not prepared. *)
skipEmptyORE_noPrepare(f, n) ==
  IF f.epochs[n].isEmpty THEN [f EXCEPT !.lastEpoch = n] ELSE f

(* an empty request epoch needs no block: pass on to the next NRE *)
skipEmptyORE(f, n) ==
  IF f.epochs[n].isEmpty THEN prepareNRE([f EXCEPT !.lastEpoch = n]) ELSE f

(* seal the last ORB when its requests have been given to an epoch *)
sealLastORB(ep) ==
  IF nextIsEmpty(ep) THEN ORBs
  ELSE [ORBs EXCEPT ![Len(ORBs)].submitted = TRUE]

prepareORE(f) ==
  LET n == f.lastEpoch + 1
  IN skipEmptyORE(
       linkNonEmpty(
         openNextORE(closeORE(linkEnterEpoch(f, n), n), n), n), n)

PrepareORE(f) ==
  LET n == f.lastEpoch + 1
      ep == f.epochs[n]
  IN /\ fork' = prepareORE(f)
     /\ numEnterForORB' = 0
     /\ ORBs' = sealLastORB(ep)
     /\ firstFilledORENumber' = firstFilled(f, n)
     /\ firstNonEmptyRequestEpoch' =
          IF ~ep.isEmpty /\ firstNonEmptyRequestEpoch = 0
          THEN n ELSE firstNonEmptyRequestEpoch
     /\ lastNonEmptyRequestEpoch' =
          IF ep.isEmpty THEN lastNonEmptyRequestEpoch ELSE n

-----------------------------------------------------------------------------
(***************************************************************************)
(* _storeRequest: append the request, and pack it into the last ORB or, if *)
(* that one is sealed or full, into a new one.                             *)
(***************************************************************************)
orbIsFull(rb) == rb.requestEnd - rb.requestStart + 1 = MAX_REQUESTS

(* Mutant of orbIsClosed: a sealed ORB still takes requests. *)
orbIsClosed_ignoreSeal(rb) == orbIsFull(rb)

orbIsClosed(rb) == rb.submitted \/ orbIsFull(rb)

addToLastORB(rbs, id, isExit) ==
  [rbs EXCEPT ![Len(rbs)].requestEnd = id,
              ![Len(rbs)].numEnter = IF isExit THEN @ ELSE @ + 1]

packRequest(isExit) ==
  LET id == Len(EROs)
      rbs == IF ORBs = <<>> THEN <<ZeroORB>> ELSE ORBs
      last == Len(rbs)
      new == IF orbIsClosed(rbs[last])
             THEN Append([rbs EXCEPT ![last].submitted = TRUE],
                         [ZeroORB EXCEPT !.requestStart = id])
             ELSE rbs
  IN addToLastORB(new, id, isExit)

newRequest(isExit) ==
  [isExit |-> isExit, challenged |-> FALSE, finalized |-> FALSE,
   applied |-> IF isExit THEN 0 ELSE 1]

storeRequest(isExit) ==
  /\ Len(EROs) < MaxEROs
  /\ ORBs' = packRequest(isExit)
  /\ EROs' = Append(EROs, newRequest(isExit))
  /\ UNCHANGED <<fork, epochVars, cursorVars, now>>

startEnter ==
  /\ storeRequest(FALSE)
  /\ numEnterForORB' = numEnterForORB + 1

startExit ==
  /\ storeRequest(TRUE)
  /\ UNCHANGED numEnterForORB

(* Storage bounds of the model: epochs up to lastEpoch + 4 and the first   *)
(* block of the next request epoch are addressable.                        *)
InBounds(f) ==
  /\ f.lastEpoch + 4 <= MaxEpoch
  /\ f.epochs[f.lastEpoch + 1].endBlockNumber < MaxBlock

CanSubmitNRE == CanInsertNRE(finalizeBlocks(fork))
CanSubmitORB == CanInsertBlock(finalizeBlocks(fork))

submitNRE ==
  LET f == finalizeBlocks(fork)
  IN /\ CanSubmitNRE
     /\ InBounds(f)
     /\ PrepareORE(insertNRE(f))
     /\ UNCHANGED <<EROs, cursorVars, now>>

(* numEnter is accumulated into the epoch, and the last block of the epoch *)
(* opens the next non-request epoch                                        *)
afterORB(f) ==
  LET n == f.lastEpoch
      b == f.lastBlock
      g == [f EXCEPT !.epochs[n].numEnter =
                        @ + ORB(f.blocks[b].requestBlockId).numEnter]
  IN IF b = f.epochs[n].endBlockNumber THEN prepareNRE(g) ELSE g

submitORB ==
  LET f == finalizeBlocks(fork)
      rb == ORB(requestBlockIdOfNextBlock(f))
  IN /\ CanSubmitORB
     /\ f.lastBlock < MaxBlock
     /\ \E failed \in SUBSET (rb.requestStart .. rb.requestEnd) :
          fork' = afterORB(insertBlock(f, failed))
     /\ UNCHANGED <<requestVars, epochVars, cursorVars, now>>

finalizeBlockExternal ==
  /\ CanFinalizeORB(fork) \/ CanFinalizeNRE(fork)
  /\ fork' = finalizeBlock(fork)
  /\ UNCHANGED <<requestVars, epochVars, cursorVars, now>>

(***************************************************************************)
(* challengeExit: while the block is final for less than CP_EXIT, a        *)
(* request whose receipt says it failed can be cancelled.                  *)
(***************************************************************************)
(* Mutant of challengeIsOpen: no end of the challenge period. *)
challengeIsOpen_always(pb) == TRUE

challengeIsOpen(pb) == pb.finalizedAt + CP_EXIT > now

CanChallengeExit(b, i) ==
  LET pb == fork.blocks[b]
      id == ORB(pb.requestBlockId).requestStart + i
  IN /\ pb.isRequest
     /\ pb.finalized
     /\ id <= ORB(pb.requestBlockId).requestEnd
     /\ id \in 0 .. Len(EROs) - 1
     /\ challengeIsOpen(pb)
     /\ ~ERO(id).challenged
     /\ ~ERO(id).finalized
     /\ development \/ id \in pb.failed

challengeExit(b, i) ==
  LET id == ORB(fork.blocks[b].requestBlockId).requestStart + i
  IN /\ CanChallengeExit(b, i)
     /\ EROs' = [EROs EXCEPT ![id + 1].challenged = TRUE]
     /\ UNCHANGED <<fork, ORBs, numEnterForORB, epochVars, cursorVars, now>>

(***************************************************************************)
(* finalizeRequest: the cursor (lastAppliedEpochNumber,                    *)
(* lastAppliedBlockNumber) walks the request blocks of the non-empty       *)
(* request epochs; EROIdToFinalize walks the requests.  An unchallenged    *)
(* exit is applied in the root chain.  finalizeRequests(n) is n of these   *)
(* steps.  An application that reverts reverts the call: no step.          *)
(***************************************************************************)
cursorOnRequestBlock == fork.blocks[lastAppliedBlockNumber].isRequest

epochToApply ==
  IF cursorOnRequestBlock THEN fork.blocks[lastAppliedBlockNumber].epochNumber
  ELSE IF lastAppliedEpochNumber = 0 THEN firstNonEmptyRequestEpoch
  ELSE fork.epochs[lastAppliedEpochNumber].nextEpoch

blockToApply ==
  IF cursorOnRequestBlock THEN lastAppliedBlockNumber
  ELSE fork.epochs[epochToApply].startBlockNumber

(* Mutant of isExitFinal: the challenge period is not awaited. *)
isExitFinal_noPeriod(pb) == pb.finalized

(* Mutant of isExitFinal: the block need not be final. *)
isExitFinal_notFinalized(pb) == pb.finalizedAt + CP_EXIT <= now

(* the block is final and its exits can no longer be challenged *)
isExitFinal(pb) == pb.finalized /\ pb.finalizedAt + CP_EXIT <= now

CanFinalizeRequest ==
  LET ep == fork.epochs[epochToApply]
      pb == fork.blocks[blockToApply]
      id == EROIdToFinalize
      rb == ORB(pb.requestBlockId)
  IN /\ lastAppliedBlockNumber <= fork.lastBlock
     /\ epochToApply # 0
     /\ ~ep.isEmpty
     /\ ep.isRequest
     /\ pb.isRequest
     /\ isExitFinal(pb)
     /\ Len(EROs) > id
     /\ rb.requestStart <= id /\ id <= rb.requestEnd

(* Mutant of settle: a challenged exit is applied as well. *)
settle_ignoreChallenge(r) ==
  [r EXCEPT !.finalized = TRUE,
            !.applied = IF r.isExit THEN @ + 1 ELSE @]

settle(r) ==
  [r EXCEPT !.finalized = TRUE,
            !.applied = IF r.isExit /\ ~r.challenged THEN @ + 1 ELSE @]

finalizeRequest ==
  LET id == EROIdToFinalize
      rb == ORB(fork.blocks[blockToApply].requestBlockId)
  IN /\ CanFinalizeRequest
     /\ lastAppliedEpochNumber' = epochToApply
     /\ lastAppliedBlockNumber' =
          IF id = rb.requestEnd THEN blockToApply + 1 ELSE blockToApply
     /\ EROIdToFinalize' = id + 1
     /\ EROs' = [EROs EXCEPT ![id + 1] = settle(@)]
     /\ UNCHANGED <<fork, ORBs, numEnterForORB, epochVars, now>>

Tick ==
  /\ now < MaxTime
  /\ now' = now + 1
  /\ UNCHANGED <<fork, requestVars, epochVars, cursorVars>>

Next ==
  \/ startEnter
  \/ startExit
  \/ submitNRE
  \/ submitORB
  \/ finalizeBlockExternal
  \/ \E b \in Blocks, i \in 0 .. MAX_REQUESTS - 1 : challengeExit(b, i)
  \/ finalizeRequest
  \/ Tick

Spec == Init /\ [][Next]_vars

-----------------------------------------------------------------------------
(* Every storage variable has its declared type. *)
TypeOK ==
  /\ fork \in Fork
  /\ EROs \in Seq(Request)
  /\ ORBs \in Seq(RequestBlock)
  /\ numEnterForORB \in Nat
  /\ firstFilledORENumber \in Nat
  /\ firstNonEmptyRequestEpoch \in Nat
  /\ lastNonEmptyRequestEpoch \in Nat
  /\ EROIdToFinalize \in Nat
  /\ lastAppliedEpochNumber \in Nat
  /\ lastAppliedBlockNumber \in Nat
  /\ now \in Nat

(***************************************************************************)
(* Safety properties.                                                      *)
(***************************************************************************)
RequestBlocks == {b \in 1 .. fork.lastBlock : fork.blocks[b].isRequest}

(* Request i is in block b. *)
InBlock(i, b) ==
  LET rb == ORB(fork.blocks[b].requestBlockId)
  IN rb.requestStart <= i /\ i <= rb.requestEnd

(* The block of request i has been final for CP_EXIT. *)
Matured(i) ==
  \E b \in RequestBlocks :
    /\ InBlock(i, b)
    /\ fork.blocks[b].finalized
    /\ fork.blocks[b].finalizedAt + CP_EXIT <= now

(* At every moment the contract accepts exactly one of submitNRE and       *)
(* submitORB from the operator: the epochs that prepareORE and prepareNRE  *)
(* lay out never leave the chain without a legal next submission, nor with *)
(* two of them.                                                            *)
OneSubmission == CanSubmitNRE <=> ~CanSubmitORB

(* The k-th request block submitted is ORB k - 1, and it is sealed: the    *)
(* firstRequestBlockId that prepareORE computes two epochs ahead, the      *)
(* number of blocks it derives from the request range, and the packing of  *)
(* _storeRequest agree, so that every ORB is mined once and in order.      *)
RequestBlocksInOrder ==
  \A b \in RequestBlocks :
    /\ fork.blocks[b].requestBlockId =
         Cardinality({c \in RequestBlocks : c < b})
    /\ fork.blocks[b].requestBlockId < Len(ORBs)
    /\ ORB(fork.blocks[b].requestBlockId).submitted

(* The blocks of a request epoch hold exactly the request range the epoch  *)
(* was given, and the ranges of the non-empty epochs follow each other     *)
(* without gap or overlap (prepareORE's two-epoch delay).                  *)
EpochRequests ==
  LET filled == {e \in Epochs : /\ fork.epochs[e].isRequest
                                /\ ~fork.epochs[e].isEmpty}
  IN \A e \in filled :
       LET ep == fork.epochs[e]
           before == {d \in filled : d < e}
       IN /\ ep.requestStart <= ep.requestEnd
          /\ ep.requestEnd < Len(EROs)
          /\ before = {} => ep.requestStart = 0
          /\ \A d \in before : (\A c \in before : c <= d)
                => ep.requestStart = fork.epochs[d].requestEnd + 1
          /\ ep.firstRequestBlockId + numBlocks(ep) <= Len(ORBs)
          /\ ORB(ep.firstRequestBlockId).requestStart = ep.requestStart
          /\ ORB(ep.firstRequestBlockId + numBlocks(ep) - 1).requestEnd
               = ep.requestEnd

(* Finalization is a prefix of the submitted chain: a request block is     *)
(* final iff it is not above lastFinalizedBlock, an NRE iff its last block *)
(* is not, whichever of submitNRE, submitORB and finalizeBlock advanced    *)
(* _finalizeBlock.                                                         *)
FinalizedPrefix ==
  /\ fork.lastFinalizedBlock <= fork.lastBlock
  /\ \A b \in RequestBlocks :
       fork.blocks[b].finalized <=> b <= fork.lastFinalizedBlock
  /\ \A e \in 1 .. fork.lastEpoch :
       ~fork.epochs[e].isRequest =>
         (fork.epochs[e].finalized
            <=> fork.epochs[e].endBlockNumber <= fork.lastFinalizedBlock)

(* A request is finalized exactly when the cursor has passed it, and only  *)
(* after its block has been final for CP_EXIT.                             *)
FinalizedRequestsMatured ==
  \A i \in 0 .. Len(EROs) - 1 :
    /\ ERO(i).finalized <=> i < EROIdToFinalize
    /\ ERO(i).finalized => Matured(i)

(* The cursor of finalizeRequest never gets stuck: when the next request's *)
(* block has matured, finalizeRequest accepts.                             *)
MaturedIsFinalizable == Matured(EROIdToFinalize) => CanFinalizeRequest

(* An enter is applied in the root chain exactly once, when it is made; an *)
(* exit at most once, when it is finalized, and iff it was not challenged. *)
AppliedOnce ==
  \A i \in 0 .. Len(EROs) - 1 :
    LET r == ERO(i)
    IN r.applied = IF ~r.isExit \/ (r.finalized /\ ~r.challenged)
                   THEN 1 ELSE 0

(* Once the block of a request has matured no challenge can change its     *)
(* outcome, so challengeExit never races finalizeRequest.                  *)
ChallengeWindow ==
  [][\A i \in 0 .. Len(EROs) - 1 :
       Matured(i) => ERO(i)'.challenged = ERO(i).challenged]_vars

(* The requests of a request block that an epoch owns never change: a new  *)
(* request is never added to a sealed ORB, whose transactions the operator *)
(* may already have mined.                                                 *)
SealedFrozen ==
  [][\A k \in 1 .. Len(ORBs) :
       ORBs[k].submitted => ORBs'[k] = ORBs[k]]_vars

(* What the comments say and the code does not do. *)

(* Data.sol: "isEmpty: true if request epoch has no request block".  When  *)
(* submitNRE opens an empty request epoch, no unsealed ORB is waiting.     *)
EmptyHasNoRequestBlock ==
  [][LET e == fork.lastEpoch + 4
     IN submitNRE /\ fork'.epochs[e].isEmpty
          => \A k \in 1 .. Len(ORBs') : ORBs'[k].submitted]_vars
=============================================================================
