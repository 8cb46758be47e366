------------------------- MODULE RootChainRequests -------------------------
(***************************************************************************)
(* Proofs about the requests of RootChain and the request blocks that hold *)
(* them, for every value of the constants: requests are applied once,      *)
(* sealed request blocks are frozen, request blocks are submitted in order *)
(* and a matured request can no longer be challenged.                      *)
(***************************************************************************)
EXTENDS RootChainFinality, FiniteSetTheorems

-----------------------------------------------------------------------------
(* Requests are applied at most once.                                      *)

RequestTypes == EROs \in Seq(Request) /\ EROIdToFinalize \in 0 .. Len(EROs)

FinalizedBelowCursor ==
  \A i \in 0 .. Len(EROs) - 1 : ERO(i).finalized <=> i < EROIdToFinalize

AppliedInv == RequestTypes /\ FinalizedBelowCursor /\ AppliedOnce

LEMMA ChallengedType ==
  ASSUME NEW r \in Request
  PROVE  [r EXCEPT !.challenged = TRUE] \in Request
BY ZenonT(30) DEF Request

LEMMA SettleType == ASSUME NEW r \in Request PROVE settle(r) \in Request
<1> DEFINE a == IF r.isExit /\ ~r.challenged THEN r.applied + 1 ELSE r.applied
<1>1. a \in Nat
  BY DEF Request
<1>2. settle(r) = [r EXCEPT !.finalized = TRUE, !.applied = a]
  BY DEF settle
<1> HIDE DEF a
<1> QED BY ZenonT(30), <1>1, <1>2 DEF Request

LEMMA AppliedInit == Init => AppliedInv
  BY DEF Init, AppliedInv, RequestTypes, FinalizedBelowCursor, AppliedOnce

LEMMA AppliedStore ==
  ASSUME AppliedInv, NEW x \in BOOLEAN, storeRequest(x)
  PROVE  AppliedInv'
<1> DEFINE r == newRequest(x)
<1>1. /\ r \in Request
      /\ r.isExit = x /\ ~r.finalized
      /\ r.applied = IF x THEN 0 ELSE 1
  BY DEF newRequest, Request
<1>2. EROs' = Append(EROs, r) /\ EROIdToFinalize' = EROIdToFinalize
  BY DEF storeRequest, cursorVars
<1> HIDE DEF r
<1>3. RequestTypes'
  BY <1>1, <1>2 DEF AppliedInv, RequestTypes
<1>4. FinalizedBelowCursor'
  BY <1>1, <1>2 DEF AppliedInv, RequestTypes, FinalizedBelowCursor, ERO
<1>5. AppliedOnce'
  BY <1>1, <1>2 DEF AppliedInv, RequestTypes, AppliedOnce, ERO
<1> QED BY <1>3, <1>4, <1>5 DEF AppliedInv

LEMMA AppliedChallenge ==
  ASSUME AppliedInv, NEW b, NEW i, challengeExit(b, i)
  PROVE  AppliedInv'
<1> DEFINE k == ORB(fork.blocks[b].requestBlockId).requestStart + i + 1
<1>1. /\ EROs' = [EROs EXCEPT ![k].challenged = TRUE]
      /\ ~EROs[k].finalized
      /\ k \in 1 .. Len(EROs)
      /\ EROIdToFinalize' = EROIdToFinalize
  <2>1. /\ EROs' = [EROs EXCEPT ![k].challenged = TRUE]
        /\ EROIdToFinalize' = EROIdToFinalize
    BY DEF challengeExit, cursorVars
  <2>2. ~EROs[k].finalized /\ k \in 1 .. Len(EROs)
    <3> DEFINE id == ORB(fork.blocks[b].requestBlockId).requestStart + i
    <3>1. id \in 0 .. Len(EROs) - 1 /\ ~EROs[id + 1].finalized
      BY DEF challengeExit, CanChallengeExit, ERO
    <3>2. Len(EROs) \in Nat
      BY DEF AppliedInv, RequestTypes
    <3>3. k = id + 1
      OBVIOUS
    <3> HIDE DEF id, k
    <3> QED BY <3>1, <3>2, <3>3
  <2> QED BY <2>1, <2>2
<1> HIDE DEF k
<1>2. RequestTypes'
  BY <1>1, ChallengedType DEF AppliedInv, RequestTypes
<1>5. /\ Len(EROs') = Len(EROs)
      /\ \A j \in 1 .. Len(EROs) :
           /\ EROs'[j].isExit = EROs[j].isExit
           /\ EROs'[j].finalized = EROs[j].finalized
           /\ EROs'[j].applied = EROs[j].applied
           /\ j # k => EROs'[j] = EROs[j]
  BY <1>1 DEF AppliedInv, RequestTypes, Request
<1>3. FinalizedBelowCursor'
  BY <1>1, <1>5 DEF AppliedInv, FinalizedBelowCursor, RequestTypes, ERO
<1>4. AppliedOnce'
  BY <1>1, <1>5 DEF AppliedInv, AppliedOnce, RequestTypes, ERO
<1> QED BY <1>2, <1>3, <1>4 DEF AppliedInv

LEMMA AppliedFinalize ==
  ASSUME AppliedInv, finalizeRequest
  PROVE  AppliedInv'
<1> DEFINE k == EROIdToFinalize + 1
<1>1. /\ EROs' = [EROs EXCEPT ![k] = settle(EROs[k])]
      /\ Len(EROs) > EROIdToFinalize
      /\ EROIdToFinalize' = EROIdToFinalize + 1
  BY DEF finalizeRequest, CanFinalizeRequest
<1>2. k \in 1 .. Len(EROs) /\ EROs[k] \in Request
  BY <1>1 DEF AppliedInv, RequestTypes
<1>3. /\ settle(EROs[k]).finalized
      /\ settle(EROs[k]).isExit = EROs[k].isExit
      /\ settle(EROs[k]).challenged = EROs[k].challenged
      /\ settle(EROs[k]).applied =
           IF EROs[k].isExit /\ ~EROs[k].challenged
           THEN EROs[k].applied + 1 ELSE EROs[k].applied
  BY <1>2 DEF settle, Request
<1>4. /\ ~EROs[k].finalized
      /\ EROs[k].applied = IF EROs[k].isExit THEN 0 ELSE 1
  BY <1>1, <1>2 DEF AppliedInv, RequestTypes, FinalizedBelowCursor,
                    AppliedOnce, ERO
<1>5. /\ EROs' \in Seq(Request)
      /\ Len(EROs') = Len(EROs)
      /\ EROs'[k] = settle(EROs[k])
      /\ \A j \in 1 .. Len(EROs) : j # k => EROs'[j] = EROs[j]
  BY <1>1, <1>2, SettleType DEF AppliedInv, RequestTypes
<1>6. RequestTypes'
  BY <1>1, <1>5 DEF AppliedInv, RequestTypes
<1>7. FinalizedBelowCursor'
  BY <1>1, <1>2, <1>3, <1>5 DEF AppliedInv, FinalizedBelowCursor,
                                 RequestTypes, ERO
<1>8. AppliedOnce'
  BY <1>1, <1>2, <1>3, <1>4, <1>5 DEF AppliedInv, AppliedOnce,
                                       RequestTypes, ERO
<1> QED BY <1>6, <1>7, <1>8 DEF AppliedInv

LEMMA AppliedFrame ==
  ASSUME AppliedInv, UNCHANGED <<EROs, EROIdToFinalize>>
  PROVE  AppliedInv'
BY DEF AppliedInv, RequestTypes, FinalizedBelowCursor, AppliedOnce, ERO

(* An enter is applied in the root chain once, at creation; an exit once,  *)
(* when finalizeRequest reaches it, iff challengeExit did not cancel it.   *)
THEOREM AppliedOnceThm == Spec => []AppliedOnce
<1>1. AppliedInv /\ [Next]_vars => AppliedInv'
  <2> SUFFICES ASSUME AppliedInv, [Next]_vars PROVE AppliedInv'
    OBVIOUS
  <2>1. CASE startEnter
    BY ZenonT(30), <2>1, AppliedStore DEF startEnter
  <2>2. CASE startExit
    BY ZenonT(30), <2>2, AppliedStore DEF startExit
  <2>3. CASE submitNRE
    BY <2>3, AppliedFrame DEF submitNRE, cursorVars
  <2>4. CASE submitORB
    BY <2>4, AppliedFrame DEF submitORB, cursorVars, requestVars
  <2>5. CASE finalizeBlockExternal
    BY <2>5, AppliedFrame DEF finalizeBlockExternal, cursorVars, requestVars
  <2>6. ASSUME NEW b \in Blocks, NEW i \in 0 .. MAX_REQUESTS - 1,
               challengeExit(b, i)
        PROVE AppliedInv'
    BY <2>6, AppliedChallenge
  <2>7. CASE finalizeRequest
    BY <2>7, AppliedFinalize
  <2>8. CASE Tick
    BY <2>8, AppliedFrame DEF Tick, cursorVars, requestVars
  <2>9. CASE UNCHANGED vars
    BY <2>9, AppliedFrame DEF vars
  <2> QED
    BY <2>1, <2>2, <2>3, <2>4, <2>5, <2>6, <2>7, <2>8, <2>9 DEF Next
<1>2. AppliedInv => AppliedOnce
  BY DEF AppliedInv
<1> QED BY AppliedInit, <1>1, <1>2, PTL DEF Spec

-----------------------------------------------------------------------------
(* What a step does to the request blocks that are sealed: nothing. *)
Frozen(old, new) ==
  \A k \in 1 .. Len(old) : old[k].submitted => new[k] = old[k]

(* Sealing the last request block, sealed or not, leaves the sealed ones. *)
LEMMA SealFrozen ==
  ASSUME NEW rbs \in Seq(RequestBlock), rbs # <<>>
  PROVE  LET new == [rbs EXCEPT ![Len(rbs)].submitted = TRUE]
         IN  /\ new \in Seq(RequestBlock) /\ Len(new) = Len(rbs)
             /\ Frozen(rbs, new)
<1> DEFINE L == Len(rbs)
           rb == [rbs[L] EXCEPT !.submitted = TRUE]
           new == [rbs EXCEPT ![L].submitted = TRUE]
<1>1. L \in Nat /\ L \in 1 .. Len(rbs)
  OBVIOUS
<1>2. rbs[L] \in RequestBlock
  BY <1>1
<1>3. rb \in RequestBlock
  BY ZenonT(30), <1>2 DEF RequestBlock
<1>4. rbs[L].submitted => rb = rbs[L]
  BY <1>2, Zenon DEF RequestBlock
<1>5. new = [rbs EXCEPT ![L] = rb]
  BY ZenonT(30), <1>1
<1> HIDE DEF rb, new
<1>6. new \in Seq(RequestBlock) /\ Len(new) = Len(rbs)
  BY <1>1, <1>3, <1>5
<1>7. ASSUME NEW k \in 1 .. Len(rbs), rbs[k].submitted
      PROVE  new[k] = rbs[k]
  BY <1>1, <1>4, <1>5, <1>7
<1> QED BY <1>6, <1>7 DEF new, Frozen

(* _storeRequest writes to the last request block only when it is open. *)
LEMMA PackFrozen ==
  ASSUME ORBs \in Seq(RequestBlock), EROs \in Seq(Request),
         NEW isExit \in BOOLEAN
  PROVE  Frozen(ORBs, packRequest(isExit))
<1> DEFINE id == Len(EROs)
           fresh == [ZeroORB EXCEPT !.requestStart = id]
           seal == [ORBs EXCEPT ![Len(ORBs)].submitted = TRUE]
<1>1. CASE ORBs = <<>>
  BY <1>1 DEF Frozen
<1>2. CASE ORBs # <<>> /\ orbIsClosed(ORBs[Len(ORBs)])
  <2>1. packRequest(isExit) = addToLastORB(Append(seal, fresh), id, isExit)
    BY <1>2, Zenon DEF packRequest
  <2>2. /\ seal \in Seq(RequestBlock) /\ Len(seal) = Len(ORBs)
        /\ Frozen(ORBs, seal)
    BY <1>2, SealFrozen, Zenon
  <2> HIDE DEF seal, fresh
  <2> DEFINE base == Append(seal, fresh)
  <2>3. /\ Len(base) = Len(ORBs) + 1 /\ DOMAIN base = 1 .. Len(ORBs) + 1
        /\ \A k \in 1 .. Len(ORBs) : base[k] = seal[k]
    BY <2>2
  <2> HIDE DEF base
  <2>4. \A k \in 1 .. Len(ORBs) : addToLastORB(base, id, isExit)[k] = base[k]
    BY <2>3 DEF addToLastORB
  <2> QED BY <2>1, <2>2, <2>3, <2>4 DEF base, Frozen
<1>3. CASE ORBs # <<>> /\ ~orbIsClosed(ORBs[Len(ORBs)])
  <2>1. packRequest(isExit) = addToLastORB(ORBs, id, isExit)
    BY <1>3, Zenon DEF packRequest
  <2>2. ~ORBs[Len(ORBs)].submitted
    BY <1>3 DEF orbIsClosed
  <2>3. \A k \in 1 .. Len(ORBs) :
          k # Len(ORBs) => addToLastORB(ORBs, id, isExit)[k] = ORBs[k]
    BY DEF addToLastORB
  <2> QED BY <2>1, <2>2, <2>3 DEF Frozen
<1> QED BY <1>1, <1>2, <1>3

(* A request block that is sealed, hence owned by an epoch and possibly mined  *)
(* already, never changes: _storeRequest opens a new one, and prepareORE seals *)
(* the last one at most once more (RootChain.sol, EpochHandler.sol).           *)
THEOREM SealedFrozenThm == Spec => SealedFrozen
<1>1. ASSUME TypeOK, [Next]_vars
      PROVE  Frozen(ORBs, ORBs')
  <2>1. ORBs \in Seq(RequestBlock) /\ EROs \in Seq(Request)
    BY <1>1 DEF TypeOK
  <2>2. UNCHANGED ORBs => Frozen(ORBs, ORBs')
    BY DEF Frozen
  <2>3. CASE startEnter \/ startExit
    BY <2>1, <2>3, PackFrozen, Zenon DEF startEnter, startExit, storeRequest
  <2>4. CASE submitNRE
    <3>1. PICK ep : ORBs' = sealLastORB(ep)
      BY <2>4, Zenon DEF submitNRE, PrepareORE
    <3>2. CASE ORBs = <<>>
      BY <3>2 DEF Frozen
    <3>3. CASE ORBs # <<>>
      <4> DEFINE new == [ORBs EXCEPT ![Len(ORBs)].submitted = TRUE]
      <4>1. Frozen(ORBs, new)
        BY <2>1, <3>3, SealFrozen
      <4>2. ORBs' = ORBs \/ ORBs' = new
        BY <3>1, Zenon DEF sealLastORB
      <4> HIDE DEF new
      <4> QED BY <2>2, <4>1, <4>2
    <3> QED BY <3>2, <3>3
  <2>5. CASE submitORB \/ finalizeBlockExternal \/ Tick
    BY <2>2, <2>5 DEF submitORB, finalizeBlockExternal, Tick, requestVars
  <2>6. ASSUME NEW b \in Blocks, NEW i \in 0 .. MAX_REQUESTS - 1, challengeExit(b, i)
        PROVE  Frozen(ORBs, ORBs')
    BY <2>2, <2>6, Zenon DEF challengeExit
  <2>7. CASE finalizeRequest
    BY <2>2, <2>7 DEF finalizeRequest
  <2>8. CASE UNCHANGED vars
    BY <2>2, <2>8 DEF vars
  <2> QED BY <1>1, <2>3, <2>4, <2>5, <2>6, <2>7, <2>8 DEF Next
<1>2. TypeOK /\ [Next]_vars =>
        [\A k \in 1 .. Len(ORBs) : ORBs[k].submitted => ORBs'[k] = ORBs[k]]_vars
  BY <1>1 DEF Frozen
<1> QED BY <1>2, TypeOKThm, PTL DEF Spec, SealedFrozen

-----------------------------------------------------------------------------
(* The request blocks of a fork. *)
RequestBlocksOf(f) == {b \in 1 .. f.lastBlock : f.blocks[b].isRequest}

Before(f, b) == {c \in RequestBlocksOf(f) : c < b}

(* A request block's ORB id is the number of request blocks before it. *)
IdsCount(f) ==
  \A b \in RequestBlocksOf(f) :
    f.blocks[b].requestBlockId = Cardinality(Before(f, b))

(* ownedORBs for the value ff of firstFilledORENumber: the ORBs of the     *)
(* request epochs up to n.                                                 *)
ORBsUpTo(f, ff, n) ==
  IF ff = 0 /\ (f.epochs[n].isEmpty \/ n = 0) THEN 0
  ELSE f.epochs[n].firstRequestBlockId
         + IF f.epochs[n].isEmpty THEN 1 ELSE numBlocks(f.epochs[n])

(* The request epoch that is being submitted, or was submitted last. *)
Current(f) == LastOpened(f) - 2

(* The ORBs up to the current epoch are the request blocks submitted and   *)
(* those that are still missing in the epoch's block range.                *)
CountInv(f, ff) ==
  Cardinality(RequestBlocksOf(f)) + (end(f, Current(f)) - f.lastBlock)
    = ORBsUpTo(f, ff, Current(f))

(* The epoch opened last takes up the ORBs where the current one ends. *)
OpenedNext(f, ff) ==
  LET n == LastOpened(f)
  IN IF f.epochs[n].isEmpty
     THEN ORBsUpTo(f, ff, n) = ORBsUpTo(f, ff, Current(f))
     ELSE f.epochs[n].firstRequestBlockId = ORBsUpTo(f, ff, Current(f))

OrderInv(f, ff) == IdsCount(f) /\ CountInv(f, ff) /\ OpenedNext(f, ff)

(* ORBs hold disjoint ranges of requests, in order; all but the last are   *)
(* sealed.                                                                 *)
RangesOrdered(rbs, len) ==
  /\ \A k \in 1 .. Len(rbs) : rbs[k].requestEnd < len
  /\ \A j, k \in 1 .. Len(rbs) :
       j < k => rbs[j].submitted /\ rbs[j].requestEnd < rbs[k].requestStart

-----------------------------------------------------------------------------
(* Counting request blocks. *)

LEMMA StrictSubset ==
  ASSUME NEW S, IsFiniteSet(S), NEW T \in SUBSET S, NEW x \in S, x \notin T
  PROVE  Cardinality(T) < Cardinality(S)
<1>1. /\ Cardinality(S) \in Nat
      /\ IsFiniteSet(T) /\ Cardinality(T) <= Cardinality(S)
      /\ Cardinality(S) = Cardinality(T) => S = T
  BY FS_Subset, FS_CardinalityType
<1>2. Cardinality(T) \in Nat /\ S # T
  BY <1>1, FS_CardinalityType
<1> QED BY <1>1, <1>2

LEMMA RequestBlocksFinite ==
  ASSUME NEW f \in Fork
  PROVE  /\ IsFiniteSet(RequestBlocksOf(f))
         /\ Cardinality(RequestBlocksOf(f)) \in Nat
         /\ \A b : /\ IsFiniteSet(Before(f, b))
                   /\ Cardinality(Before(f, b)) \in Nat
<1>1. f.lastBlock \in Nat
  BY DEF Fork
<1>2. IsFiniteSet(1 .. f.lastBlock)
  BY <1>1, FS_Interval
<1>3. RequestBlocksOf(f) \in SUBSET (1 .. f.lastBlock)
  BY DEF RequestBlocksOf
<1>4. IsFiniteSet(RequestBlocksOf(f))
  BY <1>2, <1>3, FS_Subset, Zenon
<1>5. \A b : Before(f, b) \in SUBSET RequestBlocksOf(f)
  BY SMTT(30) DEF Before
<1>6. \A b : IsFiniteSet(Before(f, b))
  BY <1>4, <1>5, FS_Subset
<1> QED BY <1>4, <1>6, FS_CardinalityType

(* A block has fewer request blocks before it than there are, and than a   *)
(* later block has.                                                        *)
LEMMA BeforeIsFewer ==
  ASSUME NEW f \in Fork, NEW b \in RequestBlocksOf(f)
  PROVE  /\ Cardinality(Before(f, b)) < Cardinality(RequestBlocksOf(f))
         /\ \A c \in RequestBlocksOf(f) :
              b < c => Cardinality(Before(f, b)) < Cardinality(Before(f, c))
<1>1. \A c \in RequestBlocksOf(f) : c \in Nat
  BY DEF RequestBlocksOf, Fork
<1>2. b \notin Before(f, b)
  BY <1>1 DEF Before
<1>3. Before(f, b) \in SUBSET RequestBlocksOf(f)
  BY DEF Before
<1>4. Cardinality(Before(f, b)) < Cardinality(RequestBlocksOf(f))
  BY <1>2, <1>3, StrictSubset, RequestBlocksFinite
<1>5. ASSUME NEW c \in RequestBlocksOf(f), b < c
      PROVE  Cardinality(Before(f, b)) < Cardinality(Before(f, c))
  <2>1. Before(f, b) \in SUBSET Before(f, c) /\ b \in Before(f, c)
    BY <1>1, <1>5 DEF Before
  <2> QED BY <1>2, <2>1, StrictSubset, RequestBlocksFinite
<1> QED BY <1>4, <1>5

-----------------------------------------------------------------------------
(* Positions of the current epoch. *)

LEMMA CurrentIs ==
  ASSUME NEW f, ForkInv(f)
  PROVE  /\ Current(f) \in Nat /\ Current(f) \in Epochs
         /\ Current(f) = IF Odd(f.lastEpoch) THEN f.lastEpoch + 1
                         ELSE f.lastEpoch
         /\ LastOpened(f) \in Epochs /\ LastOpened(f) = Current(f) + 2
<1>1. /\ f \in Fork /\ f.lastEpoch \in Nat /\ f.lastEpoch \in Epochs
      /\ f.lastEpoch + 1 \in Epochs /\ LastOpened(f) \in Epochs
  BY EpochIndices DEF ForkInv
<1> QED BY <1>1 DEF Current, LastOpened

LEMMA OwnedIs ==
  ASSUME NEW f, NEW n \in Nat, firstFilledORENumber \in Nat
  PROVE  ownedORBs(f, n) = ORBsUpTo(f, firstFilledORENumber, n)
BY DEF ownedORBs, firstFilled, ORBsUpTo

(* The requests of the epochs, their block ranges and the positions of the *)
(* request blocks are all that OrderInv looks at.                          *)
LEMMA SameORBsUpTo ==
  ASSUME NEW f, NEW g, NEW ff, NEW n,
         SameRequests(g.epochs[n], f.epochs[n])
  PROVE  ORBsUpTo(g, ff, n) = ORBsUpTo(f, ff, n)
<1>1. numBlocks(g.epochs[n]) = numBlocks(f.epochs[n])
  BY SameNumBlocks
<1> QED BY <1>1 DEF SameRequests, ORBsUpTo

LEMMA OrderKept ==
  ASSUME NEW f, NEW g, NEW ff, ForkInv(f), OrderInv(f, ff), SameLayout(f, g),
         \A e \in Epochs : SameRequests(g.epochs[e], f.epochs[e])
  PROVE  OrderInv(g, ff)
<1>1. /\ f \in Fork /\ f.lastBlock \in Nat /\ f.lastBlock <= MaxBlock
      /\ Current(f) \in Epochs /\ LastOpened(f) \in Epochs
  BY CurrentIs DEF ForkInv, WithinBounds, Fork
<1>2. LastOpened(g) = LastOpened(f) /\ Current(g) = Current(f)
  BY DEF SameLayout, LastOpened, Current
<1>3. \A b \in 1 .. f.lastBlock : b \in Blocks
  BY <1>1, BoundsAssumption DEF Blocks
<1>4. RequestBlocksOf(g) = RequestBlocksOf(f)
  BY <1>3 DEF SameLayout, RequestBlocksOf
<1>5. \A b : Before(g, b) = Before(f, b)
  BY <1>4 DEF Before
<1>6. \A b \in RequestBlocksOf(f) :
        g.blocks[b].requestBlockId = f.blocks[b].requestBlockId
  BY <1>3 DEF SameLayout, RequestBlocksOf
<1>7. IdsCount(g)
  BY <1>4, <1>5, <1>6 DEF OrderInv, IdsCount
<1>8. /\ ORBsUpTo(g, ff, Current(f)) = ORBsUpTo(f, ff, Current(f))
      /\ ORBsUpTo(g, ff, LastOpened(f)) = ORBsUpTo(f, ff, LastOpened(f))
  BY <1>1, SameORBsUpTo
<1>9. end(g, Current(f)) = end(f, Current(f)) /\ g.lastBlock = f.lastBlock
  BY <1>1 DEF SameLayout
<1>10. CountInv(g, ff)
  BY <1>2, <1>4, <1>8, <1>9, SMTT(30) DEF OrderInv, CountInv
<1>11. OpenedNext(g, ff)
  <2>1. /\ g.epochs[LastOpened(f)].isEmpty = f.epochs[LastOpened(f)].isEmpty
        /\ g.epochs[LastOpened(f)].firstRequestBlockId
             = f.epochs[LastOpened(f)].firstRequestBlockId
    BY <1>1 DEF SameRequests
  <2> QED BY <1>2, <1>8, <2>1, Zenon DEF OrderInv, OpenedNext
<1> QED BY <1>7, <1>10, <1>11 DEF OrderInv

LEMMA FinalizeOrder ==
  ASSUME NEW f, ForkInv(f), now \in Nat, NEW ff, OrderInv(f, ff)
  PROVE  OrderInv(finalizeBlock(f), ff) /\ OrderInv(finalizeBlocks(f), ff)
<1> DEFINE g == finalizeBlock(f)
<1>1. f \in Fork /\ WithinBounds(f) /\ RequestParity(f)
  BY DEF ForkInv
<1>2. \A e \in Epochs : SameRequests(g.epochs[e], f.epochs[e])
  BY <1>1, FinalizeBlockFacts DEF FinalizedOnly, SameEpoch
<1>3. SameLayout(f, g)
  <2>1. CASE CanFinalizeORB(f)
    <3> DEFINE b == f.lastFinalizedBlock + 1
    <3>1. b \in Blocks
      BY <1>1, <2>1, BoundsAssumption
         DEF CanFinalizeORB, WithinBounds, Fork, Blocks
    <3> QED BY <1>1, <2>1, <3>1, FinalizeORBFlags DEF finalizeBlock
  <2>2. CASE ~CanFinalizeORB(f) /\ CanFinalizeNRE(f)
    BY <1>1, <2>2, NextNREExists, FinalizeNREFlags DEF finalizeBlock
  <2>3. CASE ~CanFinalizeORB(f) /\ ~CanFinalizeNRE(f)
    BY <2>3 DEF finalizeBlock, SameLayout
  <2> QED BY <2>1, <2>2, <2>3
<1> HIDE DEF g
<1>4. OrderInv(g, ff)
  BY <1>2, <1>3, OrderKept
<1> QED BY <1>4 DEF g, finalizeBlocks

-----------------------------------------------------------------------------
(* submitNRE: epoch n becomes current, epoch n + 2 is opened. *)

LEMMA AfterNREOrder ==
  ASSUME TypeOK, ORBsCover, NEW f, NEW g, ForkInv(f), RangesExist(f),
         OpenTail(f), Layout(f), CanInsertNRE(f), InBounds(f),
         AfterNRE(f, g, f.lastEpoch + 2), OrderInv(f, firstFilledORENumber)
  PROVE  OrderInv(g, firstFilled(f, f.lastEpoch + 2))
<1> DEFINE l == f.lastEpoch
           n == l + 2
           ep == f.epochs[n]
           ff == firstFilledORENumber
           ff2 == firstFilled(f, n)
           C == Cardinality(RequestBlocksOf(f))
           U == ORBsUpTo(f, ff, n)
<1>1. /\ f \in Fork /\ WithinBounds(f) /\ l \in Nat /\ n \in Nat /\ n # 0
      /\ n \in Epochs
      /\ f.lastBlock \in Nat /\ ff \in Nat /\ NRELength \in Nat
  <2>1. /\ f \in Fork /\ WithinBounds(f) /\ l \in Nat /\ f.lastBlock \in Nat
    BY DEF ForkInv, Fork
  <2>2. l + 4 <= MaxEpoch
    BY DEF InBounds
  <2> QED BY <2>1, <2>2, BoundsAssumption, ParamsAssumption DEF TypeOK, Epochs
<1>2. ~Odd(l) /\ f.lastBlock = end(f, l)
  BY NREPosition DEF end
<1>3. LastOpened(f) = n /\ Current(f) = l
  BY <1>1, <1>2 DEF LastOpened, Current
<1>4. /\ ForkInv(g) /\ g \in Fork /\ LastOpened(g) = n + 2
      /\ Current(g) = n /\ n + 2 \in Epochs
  <2>1. ForkInv(g) /\ LastOpened(g) = l + 4
    BY AfterNREForkInv
  <2> QED BY <1>1, <2>1, CurrentIs DEF ForkInv
<1>5. /\ g.blocks = f.blocks
      /\ g.lastBlock = f.lastBlock + NRELength
      /\ end(g, n) = g.lastBlock + numBlocks(ep)
      /\ SameRequests(g.epochs[n], ep)
      /\ OpenedAfter(g.epochs[n + 2], f, n)
  BY <1>1 DEF AfterNRE, end
<1>6. C \in Nat
  BY <1>1, RequestBlocksFinite
<1>7. numBlocks(ep) \in Nat /\ (ep.isEmpty => numBlocks(ep) = 0)
  <2>1. ep \in Epoch
    BY <1>1 DEF Fork
  <2> QED BY <1>1, <2>1, NumBlocksPositive DEF RangesExist, numBlocks
<1>8. ep.firstRequestBlockId \in Nat
  BY <1>1 DEF Fork, Epoch
<1> HIDE DEF n
<1>9. RequestBlocksOf(g) = RequestBlocksOf(f)
  <2>1. g.lastBlock \in Nat /\ g.lastBlock <= MaxBlock
    BY <1>4 DEF ForkInv, WithinBounds, Fork
  <2>2. \A b \in 1 .. g.lastBlock : b \in Blocks
    BY <2>1, BoundsAssumption DEF Blocks
  <2>3. \A b \in 1 .. g.lastBlock : f.blocks[b].isRequest => b <= f.lastBlock
    BY <2>2 DEF Layout, BlocksPlaced
  <2>4. \A b \in 1 .. f.lastBlock : b \in 1 .. g.lastBlock
    BY <1>1, <1>5
  <2> QED BY <1>1, <1>5, <2>3, <2>4 DEF RequestBlocksOf
<1>10. IdsCount(g)
  <2>1. \A b : Before(g, b) = Before(f, b)
    BY <1>9 DEF Before
  <2> QED BY <1>5, <1>9, <2>1 DEF OrderInv, IdsCount
<1>11. C = ORBsUpTo(f, ff, l)
  BY <1>1, <1>2, <1>3, <1>6 DEF OrderInv, CountInv
<1>12. /\ ORBsUpTo(g, ff2, n) = U
       /\ U = ownedORBs(f, n)
       /\ ff2 = 0 => U = 0
  <2>1. ORBsUpTo(g, ff2, n) = ORBsUpTo(f, ff2, n)
    BY <1>5, SameORBsUpTo
  <2>2. ORBsUpTo(f, ff2, n) = U
    BY <1>1 DEF ORBsUpTo, firstFilled
  <2>3. U = ownedORBs(f, n)
    BY <1>1, OwnedIs
  <2>4. ff2 = 0 => ownedORBs(f, n) = 0
    BY DEF ownedORBs
  <2> QED BY <2>1, <2>2, <2>3, <2>4
<1>13. C + numBlocks(ep) = U
  <2>1. CASE ep.isEmpty
    BY <1>3, <1>6, <1>7, <1>11, <2>1 DEF OrderInv, OpenedNext
  <2>2. CASE ~ep.isEmpty
    <3>1. ep.firstRequestBlockId = C
      BY <1>3, <1>11, <2>2 DEF OrderInv, OpenedNext
    <3>2. U = ep.firstRequestBlockId + numBlocks(ep)
      BY <1>1, <2>2 DEF ORBsUpTo
    <3> QED BY <3>1, <3>2
  <2> QED BY <2>1, <2>2
<1> HIDE DEF C, U, ep, ff, ff2
<1>14. CountInv(g, ff2)
  <2>1. g.lastBlock \in Nat
    BY <1>4 DEF Fork
  <2>2. end(g, n) - g.lastBlock = numBlocks(ep)
    BY <1>5, <1>7, <2>1
  <2> QED BY <1>4, <1>9, <1>12, <1>13, <2>2 DEF CountInv, C
<1>15. OpenedNext(g, ff2)
  <2> DEFINE q == g.epochs[n + 2]
  <2>1. /\ q.isEmpty = nextIsEmpty(ep)
        /\ q.firstRequestBlockId = nextFirstRequestBlockId(f, n)
    BY <1>5 DEF OpenedAfter, ep
  <2>2. CASE nextIsEmpty(ep)
    <3>1. /\ ff2 = 0 => q.firstRequestBlockId = 0
          /\ ff2 # 0 => q.firstRequestBlockId + 1 = U
      BY <1>1, <1>3, <1>12, <2>1, <2>2, OpenedOwnsNothing DEF ep, ff2
    <3>2. ORBsUpTo(g, ff2, n + 2) =
            IF ff2 = 0 THEN 0 ELSE q.firstRequestBlockId + 1
      BY <2>1, <2>2 DEF ORBsUpTo
    <3> HIDE DEF q
    <3>3. ORBsUpTo(g, ff2, n + 2) = U
      BY <1>12, <3>1, <3>2
    <3> QED BY <1>4, <1>12, <2>1, <2>2, <3>3 DEF OpenedNext, q
  <2>3. CASE ~nextIsEmpty(ep)
    <3>1. q.firstRequestBlockId = U
      BY <1>1, <1>3, <1>12, <2>1, <2>3, OpenedOwnsTail DEF ep
    <3> QED BY <1>4, <1>12, <2>1, <2>3, <3>1 DEF OpenedNext
  <2> QED BY <2>2, <2>3
<1> QED BY <1>10, <1>14, <1>15 DEF OrderInv, ff2, n

-----------------------------------------------------------------------------
(* submitORB: the next request block of the current epoch. *)

LEMMA AfterORBOrder ==
  ASSUME NEW f, NEW g, NEW ff, ForkInv(f), RangesExist(f), CanInsertBlock(f),
         f.lastBlock < MaxBlock, AfterORB(f, g, epochOfNextBlock(f)),
         OneBlockAdded(f, g), OrderInv(f, ff)
  PROVE  OrderInv(g, ff)
<1> DEFINE n == epochOfNextBlock(f)
           ep == f.epochs[n]
           b == f.lastBlock + 1
           R == RequestBlocksOf(f)
           C == Cardinality(R)
<1>1. /\ n \in Nat /\ ~Odd(n) /\ n >= 2 /\ n + 2 = LastOpened(f)
      /\ n \in Epochs
      /\ ~ep.isEmpty
      /\ ep.endBlockNumber + 1 = ep.startBlockNumber + numBlocks(ep)
  BY ORBPosition
<1>2. f \in Fork /\ f.lastBlock \in Nat /\ b \in Nat
  BY DEF ForkInv, Fork
<1>3. /\ ep \in Epoch /\ ep.startBlockNumber \in Nat
      /\ ep.endBlockNumber \in Nat /\ ep.firstRequestBlockId \in Nat
  BY <1>1, <1>2 DEF Fork, Epoch
<1>4. numBlocks(ep) \in Nat
  BY <1>1, <1>3, NumBlocksPositive DEF RangesExist
<1>5. C \in Nat /\ IsFiniteSet(R)
  BY <1>2, RequestBlocksFinite
<1>6. /\ g.lastBlock = b /\ g.lastEpoch = n
      /\ \A e \in Epochs : SameRequests(g.epochs[e], f.epochs[e])
      /\ end(g, n) = ep.endBlockNumber
  <2>1. n # n + 1
    BY <1>1
  <2> QED BY <1>1, <2>1 DEF AfterORB, SameRange, end
<1>7. LastOpened(g) = n + 2 /\ LastOpened(f) \in Epochs
  BY <1>1, <1>6, CurrentIs DEF LastOpened
<1>8. Current(f) = n /\ Current(g) = n
  BY <1>1, <1>7 DEF Current
<1>9. /\ g.blocks[b].isRequest
      /\ g.blocks[b].requestBlockId
           = ep.firstRequestBlockId + f.lastBlock + 1 - ep.startBlockNumber
      /\ \A c \in 1 .. f.lastBlock : g.blocks[c] = f.blocks[c]
  <2>1. \A c \in 1 .. f.lastBlock : c \in Blocks /\ c # b
    BY <1>2, BoundsAssumption DEF Blocks
  <2> QED BY <2>1 DEF OneBlockAdded, requestBlockIdOfNextBlock
<1> HIDE DEF n, ep
<1>10. RequestBlocksOf(g) = R \cup {b} /\ b \notin R
  <2>1. 1 .. g.lastBlock = (1 .. f.lastBlock) \cup {b}
    BY <1>2, <1>6
  <2>2. b \notin 1 .. f.lastBlock
    BY <1>2
  <2> QED BY <1>9, <2>1, <2>2 DEF RequestBlocksOf
<1>11. \A c \in R : c \in Nat /\ c < b /\ c \in 1 .. f.lastBlock
  BY <1>2 DEF RequestBlocksOf
<1>12. Before(g, b) = R /\ \A c \in R : Before(g, c) = Before(f, c)
  BY <1>2, <1>10, <1>11 DEF Before
<1>13. ORBsUpTo(f, ff, n) = ep.firstRequestBlockId + numBlocks(ep)
  BY <1>1 DEF ORBsUpTo, ep
<1>14. C + (ep.endBlockNumber - f.lastBlock)
         = ep.firstRequestBlockId + numBlocks(ep)
  BY <1>8, <1>13 DEF OrderInv, CountInv, end, ep
<1>15. ORBsUpTo(g, ff, n) = ORBsUpTo(f, ff, n)
       /\ ORBsUpTo(g, ff, n + 2) = ORBsUpTo(f, ff, n + 2)
  BY <1>1, <1>6, <1>7, SameORBsUpTo
<1> HIDE DEF C, b, R
<1>16. IdsCount(g)
  <2>1. g.blocks[b].requestBlockId = C
    BY <1>1, <1>2, <1>3, <1>4, <1>5, <1>9, <1>14
  <2>2. \A c \in R : g.blocks[c].requestBlockId = Cardinality(Before(g, c))
    BY <1>9, <1>11, <1>12 DEF OrderInv, IdsCount, R
  <2> QED BY <1>10, <1>12, <2>1, <2>2 DEF IdsCount, C
<1>17. CountInv(g, ff)
  <2>1. Cardinality(RequestBlocksOf(g)) = C + 1
    BY <1>5, <1>10, FS_AddElement DEF C
  <2>2. C + 1 + (ep.endBlockNumber - b) = ORBsUpTo(g, ff, n)
    BY <1>2, <1>3, <1>4, <1>5, <1>13, <1>14, <1>15 DEF b
  <2> QED BY <1>6, <1>8, <2>1, <2>2 DEF CountInv
<1>18. OpenedNext(g, ff)
  <2>1. /\ g.epochs[n + 2].isEmpty = f.epochs[n + 2].isEmpty
        /\ g.epochs[n + 2].firstRequestBlockId
             = f.epochs[n + 2].firstRequestBlockId
    BY <1>1, <1>6, <1>7 DEF SameRequests
  <2> QED BY <1>1, <1>7, <1>8, <1>15, <2>1 DEF OrderInv, OpenedNext
<1> QED BY <1>16, <1>17, <1>18 DEF OrderInv

-----------------------------------------------------------------------------
(* _storeRequest and the seal of prepareORE keep the ranges in order. *)

LEMMA PackKeeps ==
  ASSUME ORBs \in Seq(RequestBlock), EROs \in Seq(Request),
         NEW isExit \in BOOLEAN
  PROVE  LET new == packRequest(isExit)
         IN \A k \in 1 .. Len(new) - 1 :
              /\ k \in 1 .. Len(ORBs)
              /\ new[k].requestStart = ORBs[k].requestStart
              /\ new[k].requestEnd = ORBs[k].requestEnd
              /\ ORBs[k].submitted \/ k = Len(ORBs) => new[k].submitted
<1> DEFINE L == Len(ORBs)
           id == Len(EROs)
           fresh == [ZeroORB EXCEPT !.requestStart = id]
           rb == [ORBs[L] EXCEPT !.submitted = TRUE]
           seal == [ORBs EXCEPT ![L].submitted = TRUE]
           new == packRequest(isExit)
<1>1. /\ L \in Nat /\ Len(new) \in Nat
      /\ \/ L = 0 /\ Len(new) = 1
         \/ L > 0 /\ orbIsClosed(ORBs[L]) /\ Len(new) = L + 1
         \/ L > 0 /\ ~orbIsClosed(ORBs[L]) /\ Len(new) = L
  BY PackRequestFacts
<1>2. CASE L = 0
  <2> HIDE DEF new, L
  <2>1. Len(new) = 1
    BY <1>1, <1>2
  <2>2. 1 .. Len(new) - 1 = {}
    BY <2>1
  <2> QED BY <2>2 DEF new
<1>3. CASE L > 0 /\ orbIsClosed(ORBs[L])
  <2> ORBs # <<>>
    BY <1>3
  <2>1. new = addToLastORB(Append(seal, fresh), id, isExit)
    BY <1>3, Zenon DEF packRequest
  <2>2. L \in 1 .. Len(ORBs) /\ ORBs[L] \in RequestBlock
    BY <1>1, <1>3
  <2>3. /\ rb \in RequestBlock /\ rb.submitted
        /\ rb.requestStart = ORBs[L].requestStart
        /\ rb.requestEnd = ORBs[L].requestEnd
    BY ZenonT(30), <2>2 DEF RequestBlock
  <2>4. seal = [ORBs EXCEPT ![L] = rb]
    BY ZenonT(30), <2>2
  <2> HIDE DEF rb, seal, fresh, new
  <2>5. /\ seal \in Seq(RequestBlock) /\ Len(seal) = L /\ seal[L] = rb
        /\ \A k \in 1 .. L : k # L => seal[k] = ORBs[k]
    BY <2>2, <2>3, <2>4
  <2> DEFINE base == Append(seal, fresh)
  <2>6. /\ Len(base) = L + 1 /\ DOMAIN base = 1 .. L + 1
        /\ \A k \in 1 .. L : base[k] = seal[k]
    BY <1>1, <2>5
  <2> HIDE DEF base
  <2>7. \A k \in 1 .. L : addToLastORB(base, id, isExit)[k] = base[k]
    BY <1>1, <2>6 DEF addToLastORB
  <2>8. \A k \in 1 .. L : new[k] = seal[k]
    BY <2>1, <2>6, <2>7 DEF base
  <2>9. Len(new) - 1 = L
    BY <1>1, <1>3
  <2> QED BY <2>3, <2>5, <2>8, <2>9 DEF new
<1>4. CASE L > 0 /\ ~orbIsClosed(ORBs[L])
  <2> ORBs # <<>>
    BY <1>4
  <2>1. new = addToLastORB(ORBs, id, isExit)
    BY <1>4, Zenon DEF packRequest
  <2> HIDE DEF new
  <2>2. \A k \in 1 .. L : k # L => new[k] = ORBs[k]
    BY <2>1 DEF addToLastORB
  <2>3. \A k \in 1 .. Len(new) - 1 : k \in 1 .. L /\ k # L
    BY <1>1, <1>4
  <2> QED BY <2>2, <2>3 DEF new
<1> QED BY <1>1, <1>2, <1>3, <1>4

LEMMA PackOrdered ==
  ASSUME ORBs \in Seq(RequestBlock), EROs \in Seq(Request),
         NEW isExit \in BOOLEAN, RangesOrdered(ORBs, Len(EROs))
  PROVE  RangesOrdered(packRequest(isExit), Len(EROs) + 1)
<1> DEFINE new == packRequest(isExit)
           M == Len(new)
           L == Len(ORBs)
           last == new[M]
<1>1. /\ L \in Nat /\ M \in Nat /\ M > 0 /\ Len(EROs) \in Nat
      /\ last.requestEnd = Len(EROs)
      /\ \/ L = 0 /\ M = 1
         \/ L > 0 /\ M = L + 1 /\ last.requestStart = Len(EROs)
         \/ L > 0 /\ M = L /\ last.requestStart = ORBs[L].requestStart
  BY PackRequestFacts
<1>2. \A k \in 1 .. M - 1 :
        /\ k \in 1 .. L
        /\ new[k].requestStart = ORBs[k].requestStart
        /\ new[k].requestEnd = ORBs[k].requestEnd
        /\ ORBs[k].submitted \/ k = L => new[k].submitted
  BY PackKeeps
<1>3. /\ \A k \in 1 .. L : ORBs[k].requestEnd < Len(EROs)
      /\ \A j, k \in 1 .. L :
           j < k => ORBs[j].submitted /\ ORBs[j].requestEnd < ORBs[k].requestStart
  BY DEF RangesOrdered
<1>4. \A k \in 1 .. L : ORBs[k].requestEnd \in Nat
  <2>1. \A k \in 1 .. L : ORBs[k] \in RequestBlock
    OBVIOUS
  <2> QED BY <2>1 DEF RequestBlock
<1> HIDE DEF L, last, new, M
<1>5. ASSUME NEW k \in 1 .. M
      PROVE  new[k].requestEnd < Len(EROs) + 1
  <2>1. CASE k = M
    BY <1>1, <2>1 DEF last
  <2>2. CASE k # M
    <3>1. k \in 1 .. M - 1
      BY <1>1, <2>2
    <3> QED BY <1>1, <1>2, <1>3, <1>4, <3>1
  <2> QED BY <2>1, <2>2
<1>6. ASSUME NEW j \in 1 .. M, NEW k \in 1 .. M, j < k
      PROVE  new[j].submitted /\ new[j].requestEnd < new[k].requestStart
  <2>1. j \in 1 .. M - 1 /\ j \in 1 .. L
    BY <1>1, <1>2, <1>6
  <2>2. CASE k # M
    <3>1. k \in 1 .. M - 1
      BY <1>1, <2>2
    <3> QED BY <1>2, <1>3, <1>6, <2>1, <3>1
  <2>3. CASE k = M /\ M = L + 1
    <3>1. last.requestStart = Len(EROs)
      BY <1>1, <2>1, <2>3
    <3>2. ORBs[j].submitted \/ j = L
      BY <1>1, <1>3, <2>1
    <3> QED BY <1>2, <1>3, <2>1, <2>3, <3>1, <3>2 DEF last
  <2>4. CASE k = M /\ M = L
    <3>1. last.requestStart = ORBs[L].requestStart /\ L \in 1 .. L
      BY <1>1, <2>1, <2>4
    <3> QED BY <1>2, <1>3, <1>6, <2>1, <2>4, <3>1 DEF last
  <2> QED BY <1>1, <2>1, <2>2, <2>3, <2>4
<1> QED BY <1>5, <1>6 DEF RangesOrdered, new, M

LEMMA SealOrdered ==
  ASSUME ORBs \in Seq(RequestBlock), NEW len, RangesOrdered(ORBs, len),
         NEW ep
  PROVE  RangesOrdered(sealLastORB(ep), len)
<1> DEFINE L == Len(ORBs)
           rb == [ORBs[L] EXCEPT !.submitted = TRUE]
           new == sealLastORB(ep)
<1>1. CASE nextIsEmpty(ep)
  BY <1>1 DEF sealLastORB
<1>2. CASE ~nextIsEmpty(ep) /\ L = 0
  <2>1. new = ORBs
    BY <1>2 DEF sealLastORB
  <2> QED BY <2>1
<1>3. CASE ~nextIsEmpty(ep) /\ L # 0
  <2>1. L \in 1 .. Len(ORBs) /\ ORBs[L] \in RequestBlock
    BY <1>3
  <2>2. /\ rb \in RequestBlock /\ rb.submitted
        /\ rb.requestStart = ORBs[L].requestStart
        /\ rb.requestEnd = ORBs[L].requestEnd
    BY ZenonT(30), <2>1 DEF RequestBlock
  <2>3. new = [ORBs EXCEPT ![L] = rb]
    BY <1>3 DEF sealLastORB
  <2> HIDE DEF rb, new
  <2>4. /\ Len(new) = L
        /\ \A k \in 1 .. L : /\ new[k].requestStart = ORBs[k].requestStart
                             /\ new[k].requestEnd = ORBs[k].requestEnd
                             /\ ORBs[k].submitted => new[k].submitted
    BY <2>1, <2>2, <2>3
  <2> QED BY <2>4 DEF RangesOrdered, new
<1> QED BY <1>1, <1>2, <1>3

-----------------------------------------------------------------------------
(* The constructor, and the steps. *)

LEMMA InitOrder ==
  ASSUME Init
  PROVE  /\ OrderInv(fork, firstFilledORENumber)
         /\ RangesOrdered(ORBs, Len(EROs))
<1>1. /\ fork.lastEpoch = 0 /\ fork.lastBlock = 0
      /\ firstFilledORENumber = 0 /\ ORBs = <<>>
      /\ \A e \in Epochs :
           /\ fork.epochs[e].isEmpty = (e = 2)
           /\ fork.epochs[e].endBlockNumber = IF e = 1 THEN NRELength ELSE 0
  BY InitForkFacts DEF Init
<1>2. 0 \in Epochs /\ 2 \in Epochs
  BY BoundsAssumption DEF Epochs
<1>3. LastOpened(fork) = 2 /\ Current(fork) = 0
  BY <1>1 DEF LastOpened, Current, Odd
<1>4. RequestBlocksOf(fork) = {}
  BY <1>1 DEF RequestBlocksOf
<1>5. IdsCount(fork)
  BY <1>4 DEF IdsCount
<1>6. ORBsUpTo(fork, 0, 0) = 0 /\ ORBsUpTo(fork, 0, 2) = 0
  BY <1>1, <1>2 DEF ORBsUpTo
<1>7. CountInv(fork, 0)
  BY <1>1, <1>2, <1>3, <1>4, <1>6, FS_EmptySet DEF CountInv, end
<1>8. OpenedNext(fork, 0)
  BY <1>1, <1>2, <1>3, <1>6 DEF OpenedNext
<1>9. RangesOrdered(ORBs, Len(EROs))
  BY <1>1 DEF RangesOrdered
<1> QED BY <1>1, <1>5, <1>7, <1>8, <1>9 DEF OrderInv

LEMMA SubmitNREOrder ==
  ASSUME IInv, FinalityInv(fork), OrderInv(fork, firstFilledORENumber),
         submitNRE
  PROVE  OrderInv(fork', firstFilledORENumber')
<1> DEFINE f == finalizeBlocks(fork)
           h == insertNRE(f)
<1>1. /\ TypeOK /\ ForkInv(fork) /\ RangesExist(fork) /\ ORBsCover
      /\ OpenTail(fork) /\ EpochCursors
  BY DEF IInv
<1>2. FinalizedOnly(fork, f)
  BY <1>1, FinalizeBlocksFacts DEF TypeOK, ForkInv
<1>3. Layout(f) /\ OrderInv(f, firstFilledORENumber)
  BY <1>1, FinalizeBlockFinality, FinalizeOrder DEF TypeOK, FinalityInv
<1>4. /\ CanInsertNRE(f) /\ InBounds(f)
      /\ fork' = prepareORE(h)
      /\ firstFilledORENumber' = firstFilled(h, h.lastEpoch + 1)
  BY DEF submitNRE, CanSubmitNRE, PrepareORE
<1> HIDE DEF f
<1>5. ForkInv(f) /\ RangesExist(f) /\ OpenTail(f)
  BY <1>1, <1>2, FinalizedOnlyKeeps
<1>6. AfterNRE(f, fork', f.lastEpoch + 2)
  BY <1>1, <1>4, <1>5, SubmitNREFacts
<1>7. firstFilledORENumber' = firstFilled(f, f.lastEpoch + 2)
  <2>1. /\ f \in Fork /\ f.lastEpoch \in Nat /\ f.lastEpoch + 1 \in Epochs
        /\ f.lastEpoch + 4 <= MaxEpoch
    BY <1>4, <1>5, EpochIndices DEF ForkInv, InBounds
  <2>2. /\ h.lastEpoch = f.lastEpoch + 1
        /\ \A e \in Epochs : SameEpoch(h.epochs[e], f.epochs[e])
    BY <1>1, <2>1, InsertNREFacts DEF TypeOK
  <2>3. h.lastEpoch + 1 = f.lastEpoch + 2 /\ f.lastEpoch + 2 \in Epochs
    BY <2>1, <2>2, BoundsAssumption DEF Epochs
  <2> HIDE DEF h
  <2>4. h.epochs[f.lastEpoch + 2].isEmpty = f.epochs[f.lastEpoch + 2].isEmpty
    BY <2>2, <2>3 DEF SameEpoch, SameRequests
  <2> QED BY <1>4, <2>3, <2>4 DEF firstFilled
<1> QED BY <1>1, <1>3, <1>4, <1>5, <1>6, <1>7, AfterNREOrder

LEMMA SubmitORBOrder ==
  ASSUME IInv, OrderInv(fork, firstFilledORENumber), submitORB
  PROVE  OrderInv(fork', firstFilledORENumber')
<1> DEFINE f == finalizeBlocks(fork)
           rb == ORB(requestBlockIdOfNextBlock(f))
<1>1. TypeOK /\ ForkInv(fork) /\ RangesExist(fork) /\ OpenTail(fork)
  BY DEF IInv
<1>2. FinalizedOnly(fork, f)
  BY <1>1, FinalizeBlocksFacts DEF TypeOK, ForkInv
<1>3. OrderInv(f, firstFilledORENumber)
  BY <1>1, FinalizeOrder DEF TypeOK
<1>4. /\ CanInsertBlock(f) /\ f.lastBlock < MaxBlock
      /\ firstFilledORENumber' = firstFilledORENumber
  BY DEF submitORB, CanSubmitORB, epochVars
<1>5. PICK failed \in SUBSET (rb.requestStart .. rb.requestEnd) :
        fork' = afterORB(insertBlock(f, failed))
  BY DEF submitORB
<1> HIDE DEF f
<1>6. ForkInv(f) /\ RangesExist(f)
  BY <1>1, <1>2, FinalizedOnlyKeeps
<1>7. rb \in RequestBlock
  BY <1>1, <1>4, <1>6, NextORBExists DEF TypeOK
<1>8. failed \in SUBSET Nat
  BY <1>5, <1>7 DEF RequestBlock
<1> HIDE DEF rb
<1>9. AfterORB(f, fork', epochOfNextBlock(f))
  BY <1>1, <1>4, <1>5, <1>6, <1>8, SubmitORBFacts DEF TypeOK
<1>10. OneBlockAdded(f, fork')
  BY <1>1, <1>4, <1>5, <1>6, <1>8, SubmitORBFinality DEF TypeOK
<1> QED BY <1>3, <1>4, <1>6, <1>9, <1>10, AfterORBOrder

LEMMA NextOrder ==
  ASSUME IInv, FinalityInv(fork), OrderInv(fork, firstFilledORENumber),
         [Next]_vars
  PROVE  OrderInv(fork', firstFilledORENumber')
<1>1. CASE submitNRE
  BY <1>1, SubmitNREOrder
<1>2. CASE submitORB
  BY <1>2, SubmitORBOrder
<1>3. CASE finalizeBlockExternal
  BY <1>3, FinalizeOrder DEF finalizeBlockExternal, IInv, TypeOK, epochVars
<1>4. CASE startEnter \/ startExit
  BY <1>4 DEF startEnter, startExit, storeRequest, epochVars
<1>5. CASE \E b \in Blocks, i \in 0 .. MAX_REQUESTS - 1 : challengeExit(b, i)
  BY <1>5 DEF challengeExit, epochVars
<1>6. CASE finalizeRequest
  BY <1>6 DEF finalizeRequest, epochVars
<1>7. CASE Tick
  BY <1>7 DEF Tick, epochVars
<1>8. CASE UNCHANGED vars
  BY <1>8 DEF vars
<1> QED BY <1>1, <1>2, <1>3, <1>4, <1>5, <1>6, <1>7, <1>8 DEF Next

LEMMA NextRanges ==
  ASSUME TypeOK, RangesOrdered(ORBs, Len(EROs)), [Next]_vars
  PROVE  RangesOrdered(ORBs', Len(EROs'))
<1>1. ORBs \in Seq(RequestBlock) /\ EROs \in Seq(Request)
  BY DEF TypeOK
<1>2. CASE startEnter \/ startExit
  <2>1. PICK isExit \in BOOLEAN : storeRequest(isExit)
    BY <1>2 DEF startEnter, startExit
  <2>2. /\ ORBs' = packRequest(isExit)
        /\ EROs' = Append(EROs, newRequest(isExit))
    BY <2>1 DEF storeRequest
  <2>3. Len(EROs') = Len(EROs) + 1
    BY <1>1, <2>2
  <2> QED BY <1>1, <2>2, <2>3, PackOrdered
<1>3. CASE submitNRE
  <2>1. EROs' = EROs /\ \E ep : ORBs' = sealLastORB(ep)
    BY <1>3, Zenon DEF submitNRE, PrepareORE
  <2> QED BY <1>1, <2>1, SealOrdered
<1>4. CASE submitORB \/ finalizeBlockExternal \/ Tick
  BY <1>4 DEF submitORB, finalizeBlockExternal, Tick, requestVars
<1>5. CASE \E b \in Blocks, i \in 0 .. MAX_REQUESTS - 1 : challengeExit(b, i)
  <2>1. PICK k : EROs' = [EROs EXCEPT ![k].challenged = TRUE] /\ ORBs' = ORBs
    BY <1>5, Zenon DEF challengeExit
  <2> QED BY <1>1, <2>1
<1>6. CASE finalizeRequest
  <2>1. PICK k : EROs' = [EROs EXCEPT ![k] = settle(@)] /\ ORBs' = ORBs
    BY <1>6, Zenon DEF finalizeRequest
  <2> QED BY <1>1, <2>1
<1>7. CASE UNCHANGED vars
  BY <1>7 DEF vars
<1> QED BY <1>2, <1>3, <1>4, <1>5, <1>6, <1>7 DEF Next

-----------------------------------------------------------------------------
(* What the invariant gives. *)

LEMMA InOrderFollows ==
  ASSUME IInv, OrderInv(fork, firstFilledORENumber),
         RangesOrdered(ORBs, Len(EROs))
  PROVE  RequestBlocksInOrder
<1> DEFINE n == LastOpened(fork)
           cur == Current(fork)
           ff == firstFilledORENumber
           C == Cardinality(RequestBlocksOf(fork))
           U == ORBsUpTo(fork, ff, cur)
           G == ownedORBs(fork, n)
           A == ownedRequests(fork, n)
           ep == fork.epochs[n]
<1>1. /\ fork \in Fork /\ ForkInv(fork) /\ RangesExist(fork)
      /\ fork.lastBlock \in Nat /\ fork.lastEpoch \in Nat /\ ff \in Nat
      /\ Len(EROs) \in Nat /\ Len(ORBs) \in Nat
  BY DEF IInv, TypeOK, Fork
<1>2. /\ n \in Nat /\ n \in Epochs /\ cur \in Nat /\ cur \in Epochs
      /\ n # 0
      /\ cur = IF Odd(fork.lastEpoch) THEN fork.lastEpoch + 1
               ELSE fork.lastEpoch
  BY <1>1, CurrentIs
<1>3. C \in Nat
  BY <1>1, RequestBlocksFinite
<1>4. /\ \A e \in Epochs : fork.epochs[e] \in Epoch
      /\ \A e \in Epochs : /\ end(fork, e) \in Nat
                           /\ numBlocks(fork.epochs[e]) \in Nat
                           /\ fork.epochs[e].firstRequestBlockId \in Nat
                           /\ fork.epochs[e].requestEnd \in Nat
  <2>1. \A e \in Epochs : fork.epochs[e] \in Epoch
    BY <1>1 DEF Fork
  <2>2. \A e \in Epochs : numBlocks(fork.epochs[e]) \in Nat
    BY <1>1, <2>1, NumBlocksPositive DEF RangesExist
  <2>3. \A e \in Epochs : fork.epochs[e].firstRequestBlockId \in Nat
                          /\ fork.epochs[e].requestEnd \in Nat
    BY <2>1 DEF Epoch
  <2> QED BY <1>1, <2>1, <2>2, <2>3, EndIsNat
<1>5. fork.lastBlock <= end(fork, cur)
  <2>1. ChainShape(fork)
    BY <1>1 DEF ForkInv
  <2>2. end(fork, cur) \in Nat /\ numBlocks(fork.epochs[cur]) \in Nat
    BY <1>2, <1>4
  <2> HIDE DEF cur
  <2>3. CASE Odd(fork.lastEpoch)
    <3>1. cur = fork.lastEpoch + 1
      BY <1>2, <2>3
    <3>2. fork.epochs[cur].endBlockNumber
            = fork.lastBlock + numBlocks(fork.epochs[cur])
      BY <2>1, <2>3, <3>1 DEF ChainShape
    <3>3. end(fork, cur) = fork.lastBlock + numBlocks(fork.epochs[cur])
      BY <3>2 DEF end
    <3> QED BY <1>1, <2>2, <3>3
  <2>4. CASE ~Odd(fork.lastEpoch)
    <3>1. cur = fork.lastEpoch
      BY <1>2, <2>4
    <3>2. \/ fork.lastBlock = fork.epochs[cur].endBlockNumber
          \/ fork.lastBlock < fork.epochs[cur].endBlockNumber
      BY <2>1, <2>4, <3>1 DEF ChainShape
    <3> QED BY <1>1, <2>2, <3>2 DEF end
  <2> QED BY <2>3, <2>4
<1>6. G = ORBsUpTo(fork, ff, n)
  BY <1>1, <1>2, OwnedIs
<1>7. U \in Nat
  <2> DEFINE q == fork.epochs[cur]
  <2>1. U \in {0, q.firstRequestBlockId + 1,
               q.firstRequestBlockId + numBlocks(q)}
    BY DEF ORBsUpTo
  <2>2. q.firstRequestBlockId \in Nat /\ numBlocks(q) \in Nat
    BY <1>2, <1>4
  <2> HIDE DEF U, q
  <2> QED BY <2>1, <2>2
<1>8. C <= U
  <2>1. C + (end(fork, cur) - fork.lastBlock) = U
    BY DEF OrderInv, CountInv
  <2> HIDE DEF C, U, cur
  <2> QED BY <1>1, <1>2, <1>3, <1>4, <1>5, <1>7, <2>1, SMTT(30)
<1>9. U <= G
  <2>1. CASE ep.isEmpty
    <3>1. G = U
      BY <1>6, <2>1 DEF OrderInv, OpenedNext
    <3> QED BY <1>7, <3>1
  <2>2. CASE ~ep.isEmpty
    <3>1. ep.firstRequestBlockId = U
      BY <2>2 DEF OrderInv, OpenedNext
    <3>2. G = ep.firstRequestBlockId + numBlocks(ep)
      BY <1>2, <1>6, <2>2 DEF ORBsUpTo
    <3>3. numBlocks(ep) \in Nat
      BY <1>2, <1>4
    <3> HIDE DEF U, G, ep
    <3> QED BY <1>7, <3>1, <3>2, <3>3
  <2> QED BY <2>1, <2>2
<1>10. /\ A \in Nat /\ A <= Len(EROs)
       /\ Len(EROs) > A => Len(ORBs) > G
       /\ Len(EROs) = A => /\ Len(ORBs) = G
                           /\ Len(ORBs) > 0 => ORBs[Len(ORBs)].submitted
  <2>1. A \in Nat
    BY <1>2, <1>4 DEF ownedRequests
  <2> QED BY <2>1 DEF IInv, OpenTail
<1>11. G \in Nat
  BY <1>2, <1>4 DEF ownedORBs
<1>12. RequestBlocks = RequestBlocksOf(fork)
  BY DEF RequestBlocks, RequestBlocksOf
<1> HIDE DEF n, cur, ff, C, U, G, A, ep
<1>13. ASSUME NEW b \in RequestBlocks
       PROVE  LET id == fork.blocks[b].requestBlockId
              IN /\ id = Cardinality({c \in RequestBlocks : c < b})
                 /\ id < Len(ORBs)
                 /\ ORB(id).submitted
  <2> DEFINE id == fork.blocks[b].requestBlockId
  <2>1. id = Cardinality(Before(fork, b))
    BY <1>12, <1>13 DEF OrderInv, IdsCount
  <2>2. id \in Nat /\ id < C
    BY <1>1, <1>12, <1>13, <2>1, RequestBlocksFinite, BeforeIsFewer DEF C
  <2> HIDE DEF id
  <2>3. id < G
    BY <1>3, <1>7, <1>8, <1>9, <1>11, <2>2
  <2>4. id < Len(ORBs)
    BY <1>1, <1>10, <1>11, <2>2, <2>3
  <2>5. ORBs[id + 1].submitted
    <3>1. CASE id + 1 < Len(ORBs)
      <4>1. id + 1 \in 1 .. Len(ORBs) /\ Len(ORBs) \in 1 .. Len(ORBs)
        BY <1>1, <2>2, <3>1
      <4> QED BY <3>1, <4>1 DEF RangesOrdered
    <3>2. CASE id + 1 = Len(ORBs)
      <4>1. Len(EROs) = A
        BY <1>1, <1>10, <1>11, <2>2, <2>3, <3>2
      <4> QED BY <1>1, <1>10, <2>2, <3>2, <4>1
    <3> QED BY <1>1, <2>2, <2>4, <3>1, <3>2
  <2> QED BY <1>12, <2>1, <2>4, <2>5 DEF id, ORB, Before
<1> QED BY <1>13 DEF RequestBlocksInOrder

(* No two request blocks hold the same request. *)
LEMMA OneBlockPerRequest ==
  ASSUME fork \in Fork, ORBs \in Seq(RequestBlock), RequestBlocksInOrder,
         RangesOrdered(ORBs, Len(EROs)),
         NEW i \in Nat, NEW b \in RequestBlocks, NEW c \in RequestBlocks,
         InBlock(i, b), InBlock(i, c)
  PROVE  b = c
<1> DEFINE x == fork.blocks[b].requestBlockId
           y == fork.blocks[c].requestBlockId
<1>1. RequestBlocks = RequestBlocksOf(fork)
  BY DEF RequestBlocks, RequestBlocksOf
<1>2. b \in Nat /\ c \in Nat
  BY DEF RequestBlocks, Fork
<1>3. x = Cardinality(Before(fork, b)) /\ y = Cardinality(Before(fork, c))
  BY <1>1 DEF RequestBlocksInOrder, Before
<1>4. x \in Nat /\ y \in Nat
  BY <1>3, RequestBlocksFinite
<1>5. x < Len(ORBs) /\ y < Len(ORBs)
  BY DEF RequestBlocksInOrder
<1>6. /\ ORBs[x + 1].requestStart <= i /\ i <= ORBs[x + 1].requestEnd
      /\ ORBs[y + 1].requestStart <= i /\ i <= ORBs[y + 1].requestEnd
  BY DEF InBlock, ORB
<1> HIDE DEF x, y
<1>7. x + 1 \in 1 .. Len(ORBs) /\ y + 1 \in 1 .. Len(ORBs)
  BY <1>4, <1>5
<1>8. /\ ORBs[x + 1].requestStart \in Nat /\ ORBs[x + 1].requestEnd \in Nat
      /\ ORBs[y + 1].requestStart \in Nat /\ ORBs[y + 1].requestEnd \in Nat
  <2>1. ORBs[x + 1] \in RequestBlock /\ ORBs[y + 1] \in RequestBlock
    BY <1>7
  <2> QED BY <2>1 DEF RequestBlock
<1>9. /\ x + 1 < y + 1 => ORBs[x + 1].requestEnd < ORBs[y + 1].requestStart
      /\ y + 1 < x + 1 => ORBs[y + 1].requestEnd < ORBs[x + 1].requestStart
  BY <1>7 DEF RangesOrdered
<1>10. x = y
  BY <1>4, <1>6, <1>8, <1>9
<1>11. /\ b < c => x < y
       /\ c < b => y < x
  BY <1>1, <1>3, BeforeIsFewer
<1> QED BY <1>2, <1>4, <1>10, <1>11

LEMMA ChallengeKeepsMatured ==
  ASSUME IInv, Layout(fork), RequestBlocksInOrder,
         RangesOrdered(ORBs, Len(EROs)),
         NEW b \in Blocks, NEW k \in 0 .. MAX_REQUESTS - 1, challengeExit(b, k),
         NEW i \in 0 .. Len(EROs) - 1, Matured(i)
  PROVE  EROs'[i + 1].challenged = EROs[i + 1].challenged
<1> DEFINE pb == fork.blocks[b]
           rb == ORB(pb.requestBlockId)
           id == rb.requestStart + k
<1>1. /\ fork \in Fork /\ ORBs \in Seq(RequestBlock) /\ EROs \in Seq(Request)
      /\ fork.lastEpoch \in Nat /\ fork.lastBlock \in Nat
      /\ now \in Nat /\ CP_EXIT \in Nat /\ MAX_REQUESTS \in Nat
  BY ParamsAssumption DEF IInv, TypeOK, Fork
<1>2. /\ pb.isRequest /\ id <= rb.requestEnd /\ id \in 0 .. Len(EROs) - 1
      /\ pb.finalizedAt + CP_EXIT > now
      /\ EROs' = [EROs EXCEPT ![id + 1].challenged = TRUE]
  BY DEF challengeExit, CanChallengeExit, challengeIsOpen
<1>3. b \in RequestBlocks
  <2> DEFINE n == pb.epochNumber
  <2>1. /\ b <= fork.lastBlock /\ n \in 1 .. fork.lastEpoch
        /\ end(fork, n - 1) < b
    BY <1>2 DEF Layout, BlocksPlaced, Within
  <2>2. fork.lastEpoch \in Epochs
    BY EpochIndices DEF IInv, ForkInv
  <2>3. n - 1 \in Epochs
    BY <1>1, <2>1, <2>2, BoundsAssumption DEF Epochs
  <2>4. end(fork, n - 1) \in Nat
    BY <1>1, <2>3, EndIsNat
  <2>5. b \in 1 .. fork.lastBlock
    BY <1>1, <2>1, <2>4, BoundsAssumption DEF Blocks
  <2> QED BY <1>2, <2>5 DEF RequestBlocks
<1>4. rb \in RequestBlock
  <2>1. pb.requestBlockId < Len(ORBs) /\ pb.requestBlockId \in Nat
    BY <1>1, <1>3 DEF RequestBlocksInOrder, Fork, PlasmaBlock
  <2>2. pb.requestBlockId + 1 \in 1 .. Len(ORBs)
    BY <1>1, <2>1
  <2> QED BY <1>1, <2>2 DEF ORB
<1>5. rb.requestStart \in Nat /\ rb.requestStart <= id
  BY <1>1, <1>4 DEF RequestBlock
<1>6. InBlock(id, b)
  BY <1>2, <1>5 DEF InBlock
<1>7. pb.finalizedAt \in Nat
  BY <1>1 DEF Fork, PlasmaBlock
<1> HIDE DEF pb, rb, id
<1>8. id # i
  <2> SUFFICES ASSUME id = i PROVE FALSE
    OBVIOUS
  <2>1. PICK c \in RequestBlocks :
          /\ InBlock(i, c)
          /\ fork.blocks[c].finalizedAt + CP_EXIT <= now
    BY DEF Matured
  <2>2. i \in Nat
    BY <1>1
  <2>3. b = c
    BY <1>1, <1>3, <1>6, <2>1, <2>2, OneBlockPerRequest
  <2> QED BY <1>1, <1>2, <1>7, <2>1, <2>3 DEF pb
<1>9. id + 1 # i + 1
  BY <1>1, <1>2, <1>8
<1>10. i + 1 \in DOMAIN EROs
  BY <1>1
<1> QED BY <1>2, <1>9, <1>10

LEMMA FinalizeRequestKeepsChallenged ==
  ASSUME EROs \in Seq(Request), EROIdToFinalize \in Nat, finalizeRequest,
         NEW i \in 0 .. Len(EROs) - 1
  PROVE  EROs'[i + 1].challenged = EROs[i + 1].challenged
<1> DEFINE k == EROIdToFinalize + 1
<1>1. /\ Len(EROs) > EROIdToFinalize
      /\ EROs' = [EROs EXCEPT ![k] = settle(EROs[k])]
  BY DEF finalizeRequest, CanFinalizeRequest
<1>2. k \in 1 .. Len(EROs) /\ i + 1 \in 1 .. Len(EROs)
  BY <1>1
<1>3. settle(EROs[k]).challenged = EROs[k].challenged
  <2>1. EROs[k] \in Request
    BY <1>2
  <2> HIDE DEF k
  <2> QED BY ZenonT(30), <2>1 DEF settle, Request
<1> HIDE DEF k
<1> QED BY <1>1, <1>2, <1>3

(* The k-th request block of the chain is ORB k - 1, and it is sealed, for *)
(* all epoch lengths and ORB capacities: the ids prepareORE computes two   *)
(* epochs ahead agree with what _storeRequest packs in the meantime.       *)
THEOREM RequestBlocksInOrderThm == Spec => []RequestBlocksInOrder
<1> DEFINE I == /\ OrderInv(fork, firstFilledORENumber)
                /\ RangesOrdered(ORBs, Len(EROs))
<1>1. Init => I
  BY InitOrder
<1>2. IInv /\ FinalityInv(fork) /\ I /\ [Next]_vars => I'
  BY NextOrder, NextRanges DEF IInv
<1>3. IInv /\ I => RequestBlocksInOrder
  BY InOrderFollows
<1> HIDE DEF I
<1> QED BY <1>1, <1>2, <1>3, IInvThm, FinalityInvThm, PTL DEF Spec

LEMMA RangesOrderedThm == Spec => []RangesOrdered(ORBs, Len(EROs))
<1>1. Init => RangesOrdered(ORBs, Len(EROs))
  BY InitOrder
<1>2. TypeOK /\ RangesOrdered(ORBs, Len(EROs)) /\ [Next]_vars
        => RangesOrdered(ORBs, Len(EROs))'
  BY NextRanges
<1> QED BY <1>1, <1>2, TypeOKThm, PTL DEF Spec

(* For all challenge periods and epoch lengths, challengeExit never        *)
(* cancels a request whose block has been final for CP_EXIT, the moment    *)
(* from which finalizeRequest accepts it: a request lies in one block      *)
(* only, so no other block can reopen its challenge.                       *)
THEOREM ChallengeWindowThm == Spec => ChallengeWindow
<1> DEFINE Keeps == \A i \in 0 .. Len(EROs) - 1 :
                      Matured(i) => ERO(i)'.challenged = ERO(i).challenged
           J == /\ IInv /\ FinalityInv(fork) /\ RequestBlocksInOrder
                /\ RangesOrdered(ORBs, Len(EROs))
<1>1. ASSUME J, [Next]_vars PROVE Keeps
  <2> SUFFICES ASSUME NEW i \in 0 .. Len(EROs) - 1, Matured(i)
               PROVE  EROs'[i + 1].challenged = EROs[i + 1].challenged
    BY DEF ERO
  <2>1. /\ IInv /\ Layout(fork) /\ RequestBlocksInOrder
        /\ RangesOrdered(ORBs, Len(EROs))
        /\ EROs \in Seq(Request) /\ EROIdToFinalize \in Nat
    BY <1>1 DEF FinalityInv, IInv, TypeOK
  <2>2. CASE startEnter \/ startExit
    <3>1. \E r : EROs' = Append(EROs, r)
      BY <2>2 DEF startEnter, startExit, storeRequest
    <3>2. EROs'[i + 1] = EROs[i + 1]
      BY <2>1, <3>1
    <3> QED BY <3>2
  <2>3. CASE submitNRE \/ submitORB \/ finalizeBlockExternal \/ Tick
    BY <2>3 DEF submitNRE, submitORB, finalizeBlockExternal, Tick, requestVars
  <2>4. CASE \E b \in Blocks, k \in 0 .. MAX_REQUESTS - 1 : challengeExit(b, k)
    BY <2>1, <2>4, ChallengeKeepsMatured
  <2>5. CASE finalizeRequest
    BY <2>1, <2>5, FinalizeRequestKeepsChallenged
  <2>6. CASE UNCHANGED vars
    BY <2>6 DEF vars
  <2> QED BY <1>1, <2>2, <2>3, <2>4, <2>5, <2>6 DEF Next
<1>2. J /\ [Next]_vars => [Keeps]_vars
  BY <1>1
<1>3. Spec => []J
  BY IInvThm, FinalityInvThm, RequestBlocksInOrderThm, RangesOrderedThm, PTL
<1> HIDE DEF J
<1> QED BY <1>2, <1>3, PTL DEF Spec, ChallengeWindow
=============================================================================
