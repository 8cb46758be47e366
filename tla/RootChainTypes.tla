--------------------------- MODULE RootChainTypes ---------------------------
(***************************************************************************)
(* TypeOK and OneSubmission of RootChain, for every value of its           *)
(* constants: the inductive invariant IInv, one lemma per action, and the  *)
(* two properties that follow from it.                                     *)
(***************************************************************************)
EXTENDS RootChain, TLAPS

-----------------------------------------------------------------------------
(* Arithmetic of divCeil.                                                  *)

LEMMA DivMod ==
  ASSUME NEW n \in Nat, NEW d \in Nat, d > 0
  PROVE  /\ n \div d \in Nat
         /\ n % d \in 0 .. d - 1
         /\ n = d * (n \div d) + (n % d)
<1> DEFINE q == n \div d
           r == n % d
<1>1. q \in Int /\ r \in Int
  OBVIOUS
<1>2. q >= 0
  OBVIOUS
<1>3. r >= 0
  OBVIOUS
<1>4. r < d
  OBVIOUS
<1>5. n = d * q + r
  OBVIOUS
<1> HIDE DEF q, r
<1>6. q \in Nat /\ r \in 0 .. d - 1
  BY <1>1, <1>2, <1>3, <1>4
<1> QED BY <1>5, <1>6 DEF q, r

LEMMA TimesMonotone ==
  ASSUME NEW a \in Int, NEW b \in Int, NEW d \in Nat, a <= b
  PROVE  a * d <= b * d
OBVIOUS

LEMMA TimesSuccessor ==
  ASSUME NEW a \in Int, NEW d \in Nat
  PROVE  (a + 1) * d = a * d + d
OBVIOUS

(* t is the quotient of n by d, rounded up *)
LEMMA RoundedUp ==
  ASSUME NEW n \in Nat, NEW d \in Nat, d > 0,
         NEW q \in Nat, NEW r \in 0 .. d - 1, n = d * q + r,
         NEW t \in Nat, t >= 1, (t - 1) * d < n, n <= t * d
  PROVE  t = IF r = 0 THEN q ELSE q + 1
<1>1. CASE r = 0
  <2>1. ASSUME q <= t - 1 PROVE FALSE
    BY <1>1, <2>1, TimesMonotone
  <2>2. ASSUME t + 1 <= q PROVE FALSE
    <3>1. (t + 1) * d <= q * d BY <2>2, TimesMonotone
    <3>2. (t + 1) * d = t * d + d BY TimesSuccessor
    <3> QED BY <3>1, <3>2, <1>1
  <2> QED BY <2>1, <2>2, <1>1
<1>2. CASE r # 0
  <2>1. ASSUME q + 1 <= t - 1 PROVE FALSE
    <3>1. (q + 1) * d <= (t - 1) * d BY <2>1, TimesMonotone
    <3>2. (q + 1) * d = q * d + d BY TimesSuccessor
    <3> QED BY <3>1, <3>2, <1>2
  <2>2. ASSUME t <= q PROVE FALSE
    BY <1>2, <2>2, TimesMonotone
  <2> QED BY <2>1, <2>2, <1>2
<1> QED BY <1>1, <1>2

LEMMA DivCeilIs ==
  ASSUME NEW n \in Nat, NEW d \in Nat, d > 0,
         NEW t \in Nat, t >= 1, (t - 1) * d < n, n <= t * d
  PROVE  divCeil(n, d) = t
<1> DEFINE q == n \div d
           r == n % d
<1>1. q \in Nat /\ r \in 0 .. d - 1 /\ n = d * q + r
  BY DivMod
<1> HIDE DEF q, r
<1>2. t = IF r = 0 THEN q ELSE q + 1
  BY <1>1, RoundedUp
<1> QED BY <1>2 DEF divCeil, q, r

LEMMA DivCeilPositive ==
  ASSUME NEW n \in Nat, NEW d \in Nat, d > 0, n > 0
  PROVE  divCeil(n, d) \in Nat /\ divCeil(n, d) >= 1
<1> DEFINE q == n \div d
           r == n % d
<1>1. q \in Nat /\ r \in 0 .. d - 1 /\ n = d * q + r
  BY DivMod
<1> HIDE DEF q, r
<1>2. r = 0 => q > 0
  BY <1>1
<1> QED BY <1>1, <1>2 DEF divCeil, q, r

LEMMA NumBlocksPositive ==
  ASSUME NEW ep \in Epoch, ep.requestStart <= ep.requestEnd
  PROVE  /\ numBlocks(ep) \in Nat
         /\ ~ep.isEmpty => numBlocks(ep) >= 1
<1>1. /\ ep.requestEnd - ep.requestStart + 1 \in Nat
      /\ ep.requestEnd - ep.requestStart + 1 > 0
  BY DEF Epoch
<1>2. MAX_REQUESTS \in Nat /\ MAX_REQUESTS > 0
  BY ParamsAssumption
<1>3. /\ divCeil(ep.requestEnd - ep.requestStart + 1, MAX_REQUESTS) \in Nat
      /\ divCeil(ep.requestEnd - ep.requestStart + 1, MAX_REQUESTS) >= 1
  BY ZenonT(30), <1>1, <1>2, DivCeilPositive
<1> QED BY <1>3 DEF numBlocks

-----------------------------------------------------------------------------
(***************************************************************************)
(* The inductive invariant behind TypeOK and OneSubmission.                *)
(*                                                                         *)
(* Reading storage that was never written is what could break the types:   *)
(* submitORB reads ORBs[requestBlockId], and that the id exists rests on   *)
(* the agreement between the packing of _storeRequest and the arithmetic   *)
(* of prepareORE.  OpenTail states that agreement for the requests that no *)
(* epoch owns yet.                                                         *)
(***************************************************************************)
Odd(n) == n % 2 = 1

(* the last request epoch whose requests have been chosen *)
LastOpened(f) == IF Odd(f.lastEpoch) THEN f.lastEpoch + 3 ELSE f.lastEpoch + 2

WithinBounds(f) ==
  /\ f.lastBlock <= MaxBlock
  /\ LastOpened(f) <= MaxEpoch
  /\ f.lastFinalizedEpoch <= f.lastEpoch
  /\ f.lastEnterEpoch <= MaxEpoch
  /\ \A b \in Blocks : f.blocks[b].epochNumber <= f.lastEpoch
  /\ \A e \in Epochs : f.epochs[e].nextEpoch <= MaxEpoch

RequestParity(f) ==
  \A e \in Epochs :
    f.epochs[e].isRequest <=> ~Odd(e) /\ 2 <= e /\ e <= LastOpened(f)

(* Block numbers: the epoch being submitted and its successor. *)
ChainShape(f) ==
  LET n == f.lastEpoch
      ep == f.epochs[n]
      next == f.epochs[n + 1]
  IN /\ \A e \in Epochs : e > n + 1 => f.epochs[e].startBlockNumber = 0
     /\ Odd(n) => /\ ep.endBlockNumber = f.lastBlock
                  /\ ~next.isEmpty
                  /\ next.startBlockNumber = f.lastBlock + 1
                  /\ next.endBlockNumber = f.lastBlock + numBlocks(next)
     /\ ~Odd(n) /\ f.lastBlock = ep.endBlockNumber =>
          /\ next.startBlockNumber = f.lastBlock + 1
          /\ next.endBlockNumber = f.lastBlock + NRELength
     /\ ~Odd(n) /\ f.lastBlock # ep.endBlockNumber =>
          /\ n >= 2
          /\ f.lastBlock < ep.endBlockNumber
          /\ ep.startBlockNumber <= f.lastBlock
          /\ ~ep.isEmpty
          /\ ep.endBlockNumber + 1 = ep.startBlockNumber + numBlocks(ep)
          /\ next.startBlockNumber = 0

ForkInv(f) ==
  f \in Fork /\ WithinBounds(f) /\ RequestParity(f) /\ ChainShape(f)

(* Request ranges and ORB ids of the epochs lie within what exists. *)
RangesExist(f) ==
  \A e \in Epochs :
    LET ep == f.epochs[e]
    IN /\ ep.requestStart <= ep.requestEnd
       /\ ep.requestEnd = 0 \/ ep.requestEnd < Len(EROs)
       /\ ep.isRequest /\ ~ep.isEmpty =>
            ep.firstRequestBlockId + numBlocks(ep) <= Len(ORBs)

ORBsCover ==
  /\ Len(ORBs) = 0 <=> Len(EROs) = 0
  /\ Len(ORBs) > 0 =>
       LET rb == ORBs[Len(ORBs)]
       IN /\ rb.requestEnd = Len(EROs) - 1
          /\ rb.requestStart <= rb.requestEnd
          /\ rb.requestEnd < rb.requestStart + MAX_REQUESTS

(* requests and ORBs that belong to epochs up to n *)
ownedRequests(f, n) ==
  IF firstFilled(f, n) = 0 THEN 0 ELSE f.epochs[n].requestEnd + 1
ownedORBs(f, n) ==
  IF firstFilled(f, n) = 0 THEN 0
  ELSE f.epochs[n].firstRequestBlockId
         + IF f.epochs[n].isEmpty THEN 1 ELSE numBlocks(f.epochs[n])

(* The requests that no epoch owns fill ORBs of their own: all are full    *)
(* but the last, which is not sealed.                                      *)
OpenTail(f) ==
  LET n == LastOpened(f)
      A == ownedRequests(f, n)
      G == ownedORBs(f, n)
      last == ORBs[Len(ORBs)]
  IN /\ firstFilled(f, n) = 0 => /\ f.epochs[n].isEmpty
                                 /\ f.epochs[n].requestEnd = 0
                                 /\ f.epochs[n].firstRequestBlockId = 0
     /\ A <= Len(EROs)
     /\ Len(EROs) > A =>
          /\ Len(ORBs) > G
          /\ ~last.submitted
          /\ last.requestStart = A + (Len(ORBs) - G - 1) * MAX_REQUESTS
     /\ Len(EROs) = A =>
          /\ Len(ORBs) = G
          /\ Len(ORBs) > 0 => last.submitted

EpochCursors ==
  /\ firstNonEmptyRequestEpoch <= MaxEpoch
  /\ lastNonEmptyRequestEpoch <= MaxEpoch
  /\ lastAppliedEpochNumber <= MaxEpoch

IInv ==
  /\ TypeOK
  /\ ForkInv(fork)
  /\ RangesExist(fork)
  /\ ORBsCover
  /\ OpenTail(fork)
  /\ EpochCursors

-----------------------------------------------------------------------------
(***************************************************************************)
(* What each operation on the fork changes and what it leaves alone.       *)
(***************************************************************************)

(* the fields of an epoch that prepareORE fixes when it opens it *)
SameRequests(a, b) ==
  /\ a.isRequest = b.isRequest
  /\ a.isEmpty = b.isEmpty
  /\ a.requestStart = b.requestStart
  /\ a.requestEnd = b.requestEnd
  /\ a.firstRequestBlockId = b.firstRequestBlockId

SameRange(a, b) ==
  /\ a.startBlockNumber = b.startBlockNumber
  /\ a.endBlockNumber = b.endBlockNumber

SameCursors(f, g) ==
  /\ g.blocks = f.blocks
  /\ g.lastBlock = f.lastBlock
  /\ g.lastFinalizedEpoch = f.lastFinalizedEpoch
  /\ g.lastFinalizedBlock = f.lastFinalizedBlock

(* epochs a and b differ at most in fields no proof below looks at *)
SameEpoch(a, b) ==
  SameRequests(a, b) /\ SameRange(a, b) /\ a.nextEpoch = b.nextEpoch

LEMMA PrepareNREFacts ==
  ASSUME NEW f \in Fork, f.lastEpoch + 1 \in Epochs
  PROVE  LET g == prepareNRE(f)
             n == f.lastEpoch + 1
         IN /\ g \in Fork
            /\ SameCursors(f, g)
            /\ g.lastEpoch = f.lastEpoch
            /\ g.lastEnterEpoch = f.lastEnterEpoch
            /\ \A e \in Epochs : e # n => g.epochs[e] = f.epochs[e]
            /\ SameRequests(g.epochs[n], f.epochs[n])
            /\ g.epochs[n].nextEpoch = f.epochs[n].nextEpoch
            /\ g.epochs[n].startBlockNumber =
                 IF n = 1 THEN 1 ELSE f.epochs[n - 1].endBlockNumber + 1
            /\ g.epochs[n].endBlockNumber =
                 g.epochs[n].startBlockNumber + NRELength - 1
<1> DEFINE n == f.lastEpoch + 1
           s == IF n = 1 THEN 1 ELSE f.epochs[f.lastEpoch].endBlockNumber + 1
           ep == [f.epochs[n] EXCEPT !.initialized = TRUE,
                                     !.startBlockNumber = s,
                                     !.endBlockNumber = s + NRELength - 1]
<1>1. /\ f.lastEpoch \in Epochs /\ n \in Epochs
      /\ f.epochs[n] \in Epoch
      /\ n - 1 = f.lastEpoch
  <2>1. f.lastEpoch \in Nat /\ f.epochs \in [Epochs -> Epoch]
    BY DEF Fork
  <2>2. f.lastEpoch \in Epochs /\ n - 1 = f.lastEpoch
    BY <2>1, BoundsAssumption DEF Epochs
  <2> QED BY <2>1, <2>2
<1>2. s \in Nat /\ s >= 1 /\ s + NRELength - 1 \in Nat
  BY <1>1, ParamsAssumption DEF Fork, Epoch
<1>3. prepareNRE(f) = [f EXCEPT !.epochs = [f.epochs EXCEPT ![n] = ep]]
  BY ZenonT(60), <1>1 DEF prepareNRE, Fork
<1> HIDE DEF s
<1>4. /\ ep \in Epoch
      /\ SameRequests(ep, f.epochs[n])
      /\ ep.nextEpoch = f.epochs[n].nextEpoch
      /\ ep.startBlockNumber = s
      /\ ep.endBlockNumber = s + NRELength - 1
  BY ZenonT(30), <1>1, <1>2 DEF Epoch, SameRequests
<1> HIDE DEF ep
<1>5. LET g == prepareNRE(f)
      IN /\ g \in Fork
         /\ SameCursors(f, g)
         /\ g.lastEpoch = f.lastEpoch
         /\ g.lastEnterEpoch = f.lastEnterEpoch
         /\ \A e \in Epochs : e # n => g.epochs[e] = f.epochs[e]
         /\ g.epochs[n] = ep
  BY <1>1, <1>3, <1>4 DEF Fork, SameCursors
<1> QED BY <1>1, <1>4, <1>5 DEF s

LEMMA NextNREExists ==
  ASSUME NEW f \in Fork, WithinBounds(f), RequestParity(f)
  PROVE  nextNREToFinalize(f) \in Epochs
<1> DEFINE l == f.lastFinalizedEpoch
           P(e) == /\ e > l
                   /\ ~f.epochs[e].isRequest
                   /\ \A d \in Epochs : d > l /\ d < e => f.epochs[d].isRequest
<1>1. l \in Nat /\ l + 1 \in Epochs /\ l + 2 \in Epochs
  <2>1. l \in Nat /\ f.lastEpoch \in Nat
    BY DEF Fork
  <2>2. l <= f.lastEpoch /\ LastOpened(f) <= MaxEpoch
    BY DEF WithinBounds
  <2>3. f.lastEpoch + 2 <= LastOpened(f) /\ LastOpened(f) \in Nat
    BY <2>1 DEF LastOpened
  <2> QED BY <2>1, <2>2, <2>3, BoundsAssumption DEF Epochs
<1>2. CASE ~f.epochs[l + 1].isRequest
  <2>1. P(l + 1)
    BY <1>1, <1>2 DEF Epochs
  <2> QED BY <2>1, <1>1 DEF nextNREToFinalize
<1>3. CASE f.epochs[l + 1].isRequest
  <2>1. ~f.epochs[l + 2].isRequest
    BY <1>1, <1>3 DEF RequestParity, Odd
  <2>2. \A d \in Epochs : d > l /\ d < l + 2 => d = l + 1
    BY <1>1 DEF Epochs
  <2>3. P(l + 2)
    BY <2>1, <2>2, <1>1, <1>3
  <2> QED BY <2>3, <1>1 DEF nextNREToFinalize
<1> QED BY <1>2, <1>3

LEMMA DoFinalizeBlockFacts ==
  ASSUME NEW f \in Fork, NEW b \in Blocks, now \in Nat
  PROVE  LET g == doFinalizeBlock(f, b)
         IN /\ g \in Fork
            /\ g.epochs = f.epochs
            /\ g.lastEpoch = f.lastEpoch
            /\ g.lastBlock = f.lastBlock
            /\ g.lastEnterEpoch = f.lastEnterEpoch
            /\ g.lastFinalizedEpoch = f.blocks[b].epochNumber
            /\ \A c \in Blocks :
                 g.blocks[c].epochNumber = f.blocks[c].epochNumber
<1> DEFINE pb == [f.blocks[b] EXCEPT !.finalized = TRUE, !.finalizedAt = now]
<1>1. f.blocks[b] \in PlasmaBlock
  BY DEF Fork
<1>2. doFinalizeBlock(f, b) =
        [f EXCEPT !.blocks = [f.blocks EXCEPT ![b] = pb],
                  !.lastFinalizedBlock = b,
                  !.lastFinalizedEpoch = f.blocks[b].epochNumber]
  BY ZenonT(30), <1>1 DEF doFinalizeBlock, Fork
<1>3. pb \in PlasmaBlock /\ pb.epochNumber = f.blocks[b].epochNumber
  BY ZenonT(30), <1>1 DEF PlasmaBlock
<1>4. b \in Nat /\ f.blocks[b].epochNumber \in Nat
  BY <1>1 DEF PlasmaBlock, Blocks
<1> HIDE DEF pb
<1> DEFINE bs == [f.blocks EXCEPT ![b] = pb]
<1>5. /\ bs \in [Blocks -> PlasmaBlock]
      /\ \A c \in Blocks : bs[c].epochNumber = f.blocks[c].epochNumber
  BY <1>3 DEF Fork
<1> HIDE DEF bs
<1>6. doFinalizeBlock(f, b) =
        [f EXCEPT !.blocks = bs,
                  !.lastFinalizedBlock = b,
                  !.lastFinalizedEpoch = f.blocks[b].epochNumber]
  BY <1>2 DEF bs
<1> QED BY ZenonT(30), <1>4, <1>5, <1>6 DEF Fork

LEMMA DoFinalizeNREFacts ==
  ASSUME NEW f \in Fork, NEW e \in Epochs
  PROVE  LET g == doFinalizeNRE(f, e)
         IN /\ g \in Fork
            /\ g.blocks = f.blocks
            /\ g.lastEpoch = f.lastEpoch
            /\ g.lastBlock = f.lastBlock
            /\ g.lastEnterEpoch = f.lastEnterEpoch
            /\ g.lastFinalizedEpoch = e
            /\ \A d \in Epochs : SameEpoch(g.epochs[d], f.epochs[d])
<1> DEFINE ep == [f.epochs[e] EXCEPT !.finalized = TRUE]
<1>1. f.epochs[e] \in Epoch
  BY DEF Fork
<1>2. doFinalizeNRE(f, e) =
        [f EXCEPT !.epochs = [f.epochs EXCEPT ![e] = ep],
                  !.lastFinalizedBlock = f.epochs[e].endBlockNumber,
                  !.lastFinalizedEpoch = e]
  BY <1>1 DEF doFinalizeNRE, Fork
<1>3. ep \in Epoch /\ SameEpoch(ep, f.epochs[e])
  BY ZenonT(30), <1>1 DEF Epoch, SameEpoch, SameRequests, SameRange
<1>4. e \in Nat /\ f.epochs[e].endBlockNumber \in Nat
  BY <1>1 DEF Epoch, Epochs
<1>5. \A d \in Epochs : SameEpoch(f.epochs[d], f.epochs[d])
  BY DEF SameEpoch, SameRequests, SameRange
<1> HIDE DEF ep
<1> DEFINE es == [f.epochs EXCEPT ![e] = ep]
<1>6. /\ es \in [Epochs -> Epoch]
      /\ \A d \in Epochs : SameEpoch(es[d], f.epochs[d])
  BY <1>3, <1>5 DEF Fork
<1> HIDE DEF es
<1>7. doFinalizeNRE(f, e) =
        [f EXCEPT !.epochs = es,
                  !.lastFinalizedBlock = f.epochs[e].endBlockNumber,
                  !.lastFinalizedEpoch = e]
  BY <1>2 DEF es
<1> QED BY ZenonT(30), <1>4, <1>6, <1>7 DEF Fork

(* g is f after finalizing at most one block or epoch *)
FinalizedOnly(f, g) ==
  /\ g \in Fork
  /\ g.lastEpoch = f.lastEpoch
  /\ g.lastBlock = f.lastBlock
  /\ g.lastEnterEpoch = f.lastEnterEpoch
  /\ g.lastFinalizedEpoch <= f.lastEpoch
  /\ \A d \in Epochs : SameEpoch(g.epochs[d], f.epochs[d])
  /\ \A c \in Blocks : g.blocks[c].epochNumber = f.blocks[c].epochNumber

LEMMA FinalizeBlockFacts ==
  ASSUME NEW f \in Fork, WithinBounds(f), RequestParity(f), now \in Nat
  PROVE  FinalizedOnly(f, finalizeBlock(f))
<1>1. CASE CanFinalizeORB(f)
  <2> DEFINE b == f.lastFinalizedBlock + 1
  <2>1. b \in Blocks
    BY <1>1, BoundsAssumption
       DEF CanFinalizeORB, WithinBounds, Fork, Blocks
  <2>2. finalizeBlock(f) = doFinalizeBlock(f, b)
    BY <1>1 DEF finalizeBlock
  <2>3. f.blocks[b].epochNumber <= f.lastEpoch
    BY <2>1 DEF WithinBounds
  <2>4. \A d \in Epochs : SameEpoch(f.epochs[d], f.epochs[d])
    BY DEF SameEpoch, SameRequests, SameRange
  <2> HIDE DEF b
  <2> QED BY <2>1, <2>2, <2>3, <2>4, DoFinalizeBlockFacts DEF FinalizedOnly
<1>2. CASE ~CanFinalizeORB(f) /\ CanFinalizeNRE(f)
  <2> DEFINE e == nextNREToFinalize(f)
  <2>1. e \in Epochs
    BY NextNREExists
  <2>2. finalizeBlock(f) = doFinalizeNRE(f, e)
    BY <1>2 DEF finalizeBlock
  <2>3. e <= f.lastEpoch
    BY <1>2 DEF CanFinalizeNRE, checkFinalizableNRE
  <2> HIDE DEF e
  <2> QED BY <2>1, <2>2, <2>3, DoFinalizeNREFacts DEF FinalizedOnly
<1>3. CASE ~CanFinalizeORB(f) /\ ~CanFinalizeNRE(f)
  BY <1>3 DEF finalizeBlock, FinalizedOnly, WithinBounds, SameEpoch,
              SameRequests, SameRange
<1> QED BY <1>1, <1>2, <1>3

LEMMA FinalizeBlocksFacts ==
  ASSUME NEW f \in Fork, WithinBounds(f), RequestParity(f), now \in Nat
  PROVE  FinalizedOnly(f, finalizeBlocks(f))
<1>1. CASE development
  BY <1>1 DEF finalizeBlocks, FinalizedOnly, WithinBounds, SameEpoch,
              SameRequests, SameRange
<1>2. CASE ~development
  BY <1>2, FinalizeBlockFacts DEF finalizeBlocks
<1> QED BY <1>1, <1>2

LEMMA EpochIndices ==
  ASSUME NEW f \in Fork, WithinBounds(f)
  PROVE  /\ f.lastEpoch \in Nat
         /\ f.lastEpoch \in Epochs /\ f.lastEpoch + 1 \in Epochs
         /\ LastOpened(f) \in Epochs
<1>1. f.lastEpoch \in Nat
  BY DEF Fork
<1>2. LastOpened(f) \in {f.lastEpoch + 2, f.lastEpoch + 3}
  BY DEF LastOpened
<1>3. LastOpened(f) <= MaxEpoch
  BY DEF WithinBounds
<1> QED BY <1>1, <1>2, <1>3, BoundsAssumption DEF Epochs

LEMMA SameNumBlocks ==
  ASSUME NEW a, NEW b, SameRequests(a, b)
  PROVE  numBlocks(a) = numBlocks(b)
BY DEF SameRequests, numBlocks

(* Finalization keeps every part of the invariant that speaks of the fork. *)
LEMMA FinalizedOnlyKeeps ==
  ASSUME NEW f, NEW g, ForkInv(f), RangesExist(f), OpenTail(f),
         FinalizedOnly(f, g)
  PROVE  ForkInv(g) /\ RangesExist(g) /\ OpenTail(g)
<1>1. /\ f \in Fork /\ g \in Fork
      /\ g.lastEpoch = f.lastEpoch /\ g.lastBlock = f.lastBlock
      /\ LastOpened(g) = LastOpened(f)
  BY DEF ForkInv, FinalizedOnly, LastOpened
<1>2. /\ f.lastEpoch \in Epochs /\ f.lastEpoch + 1 \in Epochs
      /\ LastOpened(f) \in Epochs
  BY <1>1, EpochIndices DEF ForkInv
<1>3. \A d \in Epochs : /\ SameEpoch(g.epochs[d], f.epochs[d])
                        /\ numBlocks(g.epochs[d]) = numBlocks(f.epochs[d])
  BY SameNumBlocks DEF FinalizedOnly, SameEpoch
<1>4. WithinBounds(g)
  BY <1>1, <1>3 DEF ForkInv, WithinBounds, FinalizedOnly, SameEpoch
<1>5. RequestParity(g)
  BY <1>1, <1>3 DEF ForkInv, RequestParity, SameEpoch, SameRequests
<1>6. ChainShape(g)
  BY <1>1, <1>2, <1>3, SMTT(30) DEF ForkInv, ChainShape, SameEpoch, SameRequests,
                          SameRange
<1>7. RangesExist(g)
  BY <1>3 DEF RangesExist, SameEpoch, SameRequests
<1>8. OpenTail(g)
  <2> DEFINE n == LastOpened(f)
  <2>1. /\ n \in Epochs
        /\ SameRequests(g.epochs[n], f.epochs[n])
        /\ numBlocks(g.epochs[n]) = numBlocks(f.epochs[n])
    BY <1>2, <1>3 DEF SameEpoch
  <2> HIDE DEF n
  <2>2. firstFilled(g, n) = firstFilled(f, n)
    BY <2>1 DEF firstFilled, SameRequests
  <2>3. /\ ownedRequests(g, n) = ownedRequests(f, n)
        /\ ownedORBs(g, n) = ownedORBs(f, n)
    BY <2>1, <2>2 DEF ownedRequests, ownedORBs, SameRequests
  <2>4. LastOpened(g) = n /\ LastOpened(f) = n
    BY <1>1 DEF n
  <2> QED BY <2>1, <2>2, <2>3, <2>4 DEF OpenTail, SameRequests
<1> QED BY <1>1, <1>4, <1>5, <1>6, <1>7, <1>8 DEF ForkInv

LEMMA InsertNREFacts ==
  ASSUME NEW f \in Fork, f.lastEpoch + 1 \in Epochs, now \in Nat
  PROVE  LET g == insertNRE(f)
             n == f.lastEpoch + 1
         IN /\ g \in Fork
            /\ g.blocks = f.blocks
            /\ g.lastEpoch = n
            /\ g.lastBlock = f.epochs[n].endBlockNumber
            /\ g.lastEnterEpoch = f.lastEnterEpoch
            /\ g.lastFinalizedEpoch = f.lastFinalizedEpoch
            /\ g.lastFinalizedBlock = f.lastFinalizedBlock
            /\ \A e \in Epochs : SameEpoch(g.epochs[e], f.epochs[e])
<1> DEFINE n == f.lastEpoch + 1
           ep == [f.epochs[n] EXCEPT !.submittedAt = now]
<1>1. n \in Epochs /\ n \in Nat /\ f.epochs[n] \in Epoch
  BY BoundsAssumption DEF Fork, Epochs
<1>2. insertNRE(f) = [f EXCEPT !.epochs = [f.epochs EXCEPT ![n] = ep],
                               !.lastEpoch = n,
                               !.lastBlock = f.epochs[n].endBlockNumber]
  BY <1>1 DEF insertNRE, Fork
<1>3. ep \in Epoch /\ SameEpoch(ep, f.epochs[n])
  BY <1>1 DEF Epoch, SameEpoch, SameRequests, SameRange
<1>4. f.epochs[n].endBlockNumber \in Nat
  BY <1>1 DEF Epoch
<1>5. \A d \in Epochs : SameEpoch(f.epochs[d], f.epochs[d])
  BY DEF SameEpoch, SameRequests, SameRange
<1> HIDE DEF ep, n
<1> DEFINE es == [f.epochs EXCEPT ![n] = ep]
<1>6. /\ es \in [Epochs -> Epoch]
      /\ \A d \in Epochs : SameEpoch(es[d], f.epochs[d])
  BY <1>1, <1>3, <1>5 DEF Fork
<1> HIDE DEF es
<1>7. insertNRE(f) = [f EXCEPT !.epochs = es, !.lastEpoch = n,
                               !.lastBlock = f.epochs[n].endBlockNumber]
  BY <1>2 DEF es
<1>8. LET g == insertNRE(f)
      IN /\ g \in Fork
         /\ g.blocks = f.blocks
         /\ g.lastEpoch = n
         /\ g.lastBlock = f.epochs[n].endBlockNumber
         /\ g.lastEnterEpoch = f.lastEnterEpoch
         /\ g.lastFinalizedEpoch = f.lastFinalizedEpoch
         /\ g.lastFinalizedBlock = f.lastFinalizedBlock
         /\ \A e \in Epochs : SameEpoch(g.epochs[e], f.epochs[e])
  BY ZenonT(30), <1>1, <1>4, <1>6, <1>7 DEF Fork
<1> QED BY <1>8 DEF n

(* g is f with epoch n linked into a list of epochs *)
LinkedOnly(f, g, n) ==
  /\ g \in Fork
  /\ SameCursors(f, g)
  /\ g.lastEpoch = f.lastEpoch
  /\ g.lastEnterEpoch \in {f.lastEnterEpoch, n}
  /\ \A e \in Epochs :
       /\ SameRequests(g.epochs[e], f.epochs[e])
       /\ SameRange(g.epochs[e], f.epochs[e])
       /\ g.epochs[e].nextEpoch \in {f.epochs[e].nextEpoch, n}

LEMMA LinkEnterFacts ==
  ASSUME NEW f \in Fork, NEW n \in Epochs, f.lastEnterEpoch <= MaxEpoch
  PROVE  LinkedOnly(f, linkEnterEpoch(f, n), n)
<1> DEFINE l == f.lastEnterEpoch
           ep == [f.epochs[l] EXCEPT !.nextEnterEpoch = n]
<1>0. \A d \in Epochs : /\ SameRequests(f.epochs[d], f.epochs[d])
                        /\ SameRange(f.epochs[d], f.epochs[d])
  BY DEF SameRequests, SameRange
<1>1. n \in Nat /\ l \in Epochs /\ f.epochs[l] \in Epoch
  BY BoundsAssumption DEF Fork, Epochs
<1>2. CASE f.epochs[n].numEnter = 0
  BY <1>0, <1>2 DEF linkEnterEpoch, LinkedOnly, SameCursors
<1>3. CASE f.epochs[n].numEnter # 0 /\ f.firstEnterEpoch = 0
  <2>1. linkEnterEpoch(f, n) =
          [f EXCEPT !.firstEnterEpoch = n, !.lastEnterEpoch = n]
    BY <1>3 DEF linkEnterEpoch
  <2> QED BY ZenonT(30), <1>0, <1>1, <2>1 DEF LinkedOnly, SameCursors, Fork
<1>4. CASE f.epochs[n].numEnter # 0 /\ f.firstEnterEpoch # 0
  <2>1. linkEnterEpoch(f, n) =
          [f EXCEPT !.epochs = [f.epochs EXCEPT ![l] = ep],
                    !.lastEnterEpoch = n]
    BY <1>1, <1>4 DEF linkEnterEpoch, Fork
  <2>2. /\ ep \in Epoch
        /\ SameRequests(ep, f.epochs[l])
        /\ SameRange(ep, f.epochs[l])
        /\ ep.nextEpoch = f.epochs[l].nextEpoch
    BY <1>1 DEF Epoch, SameRequests, SameRange
  <2> HIDE DEF ep
  <2> DEFINE es == [f.epochs EXCEPT ![l] = ep]
  <2>3. /\ es \in [Epochs -> Epoch]
        /\ \A e \in Epochs : /\ SameRequests(es[e], f.epochs[e])
                             /\ SameRange(es[e], f.epochs[e])
                             /\ es[e].nextEpoch = f.epochs[e].nextEpoch
    BY <1>0, <1>1, <2>2 DEF Fork
  <2> HIDE DEF es
  <2>4. linkEnterEpoch(f, n) =
          [f EXCEPT !.epochs = es, !.lastEnterEpoch = n]
    BY <2>1 DEF es
  <2> QED BY ZenonT(30), <1>1, <2>3, <2>4 DEF LinkedOnly, SameCursors, Fork
<1> QED BY <1>2, <1>3, <1>4

LEMMA LinkNonEmptyFacts ==
  ASSUME NEW f \in Fork, NEW n \in Epochs,
         lastNonEmptyRequestEpoch \in Epochs
  PROVE  LinkedOnly(f, linkNonEmpty(f, n), n)
<1> DEFINE l == lastNonEmptyRequestEpoch
           ep == [f.epochs[l] EXCEPT !.nextEpoch = n]
<1>0. \A d \in Epochs : /\ SameRequests(f.epochs[d], f.epochs[d])
                        /\ SameRange(f.epochs[d], f.epochs[d])
  BY DEF SameRequests, SameRange
<1>1. n \in Nat /\ l \in Epochs /\ f.epochs[l] \in Epoch
  BY BoundsAssumption DEF Fork, Epochs
<1>2. CASE f.epochs[n].isEmpty \/ l = 0
  BY <1>0, <1>2 DEF linkNonEmpty, LinkedOnly, SameCursors
<1>3. CASE ~(f.epochs[n].isEmpty \/ l = 0)
  <2>1. linkNonEmpty(f, n) = [f EXCEPT !.epochs = [f.epochs EXCEPT ![l] = ep]]
    BY <1>1, <1>3 DEF linkNonEmpty, Fork
  <2>2. /\ ep \in Epoch
        /\ SameRequests(ep, f.epochs[l])
        /\ SameRange(ep, f.epochs[l])
        /\ ep.nextEpoch = n
    BY <1>1 DEF Epoch, SameRequests, SameRange
  <2> HIDE DEF ep
  <2> DEFINE es == [f.epochs EXCEPT ![l] = ep]
  <2>3. /\ es \in [Epochs -> Epoch]
        /\ \A e \in Epochs : /\ SameRequests(es[e], f.epochs[e])
                             /\ SameRange(es[e], f.epochs[e])
                             /\ es[e].nextEpoch \in {f.epochs[e].nextEpoch, n}
    BY <1>0, <1>1, <2>2 DEF Fork
  <2> HIDE DEF es
  <2>4. linkNonEmpty(f, n) = [f EXCEPT !.epochs = es]
    BY <2>1 DEF es
  <2> QED BY <1>1, <2>3, <2>4 DEF LinkedOnly, SameCursors, Fork
<1> QED BY <1>2, <1>3

LEMMA CloseOREFacts ==
  ASSUME NEW f \in Fork, NEW n \in Epochs, n - 1 \in Epochs,
         numBlocks(f.epochs[n]) \in Nat
  PROVE  LET g == closeORE(f, n)
             prevEnd == f.epochs[n - 1].endBlockNumber
         IN /\ g \in Fork
            /\ SameCursors(f, g)
            /\ g.lastEpoch = f.lastEpoch
            /\ g.lastEnterEpoch = f.lastEnterEpoch
            /\ \A e \in Epochs : e # n => g.epochs[e] = f.epochs[e]
            /\ SameRequests(g.epochs[n], f.epochs[n])
            /\ g.epochs[n].nextEpoch = f.epochs[n].nextEpoch
            /\ g.epochs[n].startBlockNumber =
                 IF f.epochs[n].isEmpty THEN prevEnd ELSE prevEnd + 1
            /\ g.epochs[n].endBlockNumber = prevEnd + numBlocks(f.epochs[n])
<1> DEFINE prevEnd == f.epochs[n - 1].endBlockNumber
           s == IF f.epochs[n].isEmpty THEN prevEnd ELSE prevEnd + 1
           t == prevEnd + numBlocks(f.epochs[n])
           ep == [f.epochs[n] EXCEPT !.initialized = TRUE,
                                     !.startBlockNumber = s,
                                     !.endBlockNumber = t]
<1>1. /\ f.epochs[n] \in Epoch
      /\ f.epochs[n - 1] \in Epoch
      /\ prevEnd \in Nat
  BY DEF Fork, Epoch
<1>2. s \in Nat /\ t \in Nat
  BY <1>1
<1>3. closeORE(f, n) = [f EXCEPT !.epochs = [f.epochs EXCEPT ![n] = ep]]
  BY ZenonT(60), <1>1 DEF closeORE, Fork
<1> HIDE DEF s, t
<1>4. /\ ep \in Epoch
      /\ SameRequests(ep, f.epochs[n])
      /\ ep.nextEpoch = f.epochs[n].nextEpoch
      /\ ep.startBlockNumber = s
      /\ ep.endBlockNumber = t
  BY ZenonT(30), <1>1, <1>2 DEF Epoch, SameRequests
<1> HIDE DEF ep
<1>5. LET g == closeORE(f, n)
      IN /\ g \in Fork
         /\ SameCursors(f, g)
         /\ g.lastEpoch = f.lastEpoch
         /\ g.lastEnterEpoch = f.lastEnterEpoch
         /\ \A e \in Epochs : e # n => g.epochs[e] = f.epochs[e]
         /\ g.epochs[n] = ep
  BY <1>1, <1>3, <1>4 DEF Fork, SameCursors
<1> QED BY <1>4, <1>5 DEF s, t

nextRequestEnd(f, n) ==
  IF nextIsEmpty(f.epochs[n]) THEN nextRequestStart(f, n) ELSE Len(EROs) - 1

LEMMA NextRangeTypes ==
  ASSUME NEW f \in Fork, NEW n \in Epochs, EROs \in Seq(Request),
         f.epochs[n].requestStart <= f.epochs[n].requestEnd
  PROVE  /\ nextRequestStart(f, n) \in Nat
         /\ nextRequestEnd(f, n) \in Nat
         /\ nextFirstRequestBlockId(f, n) \in Nat
<1> DEFINE ep == f.epochs[n]
<1>1. ep \in Epoch
  BY DEF Fork
<1>2. ep.requestEnd \in Nat /\ ep.firstRequestBlockId \in Nat
  BY <1>1, SMTT(30) DEF Epoch
<1>3. numBlocks(ep) \in Nat /\ (~ep.isEmpty => numBlocks(ep) >= 1)
  BY <1>1, NumBlocksPositive
<1>4. nextRequestStart(f, n) \in Nat
  BY <1>2 DEF nextRequestStart
<1>5. nextRequestEnd(f, n) \in Nat
  BY <1>4 DEF nextRequestEnd, nextIsEmpty
<1>6. nextFirstRequestBlockId(f, n) \in Nat
  BY <1>2, <1>3, SMTT(30) DEF nextFirstRequestBlockId
<1> QED BY <1>4, <1>5, <1>6

LEMMA OpenNextOREFacts ==
  ASSUME NEW f \in Fork, NEW n \in Epochs, n + 2 \in Epochs,
         numEnterForORB \in Nat, EROs \in Seq(Request),
         f.epochs[n].requestStart <= f.epochs[n].requestEnd
  PROVE  LET g == openNextORE(f, n)
             next == g.epochs[n + 2]
         IN /\ g \in Fork
            /\ SameCursors(f, g)
            /\ g.lastEpoch = f.lastEpoch
            /\ g.lastEnterEpoch = f.lastEnterEpoch
            /\ \A e \in Epochs : e # n + 2 => g.epochs[e] = f.epochs[e]
            /\ SameRange(next, f.epochs[n + 2])
            /\ next.nextEpoch = f.epochs[n + 2].nextEpoch
            /\ next.isRequest
            /\ next.isEmpty = nextIsEmpty(f.epochs[n])
            /\ next.requestStart = nextRequestStart(f, n)
            /\ next.requestEnd = nextRequestEnd(f, n)
            /\ next.firstRequestBlockId = nextFirstRequestBlockId(f, n)
<1> DEFINE em == nextIsEmpty(f.epochs[n])
           rs == nextRequestStart(f, n)
           re == nextRequestEnd(f, n)
           id == nextFirstRequestBlockId(f, n)
           ep == [f.epochs[n + 2] EXCEPT !.isRequest = TRUE,
                                         !.numEnter = numEnterForORB,
                                         !.isEmpty = em,
                                         !.requestStart = rs,
                                         !.requestEnd = re,
                                         !.firstRequestBlockId = id]
<1>1. f.epochs[n + 2] \in Epoch
  BY DEF Fork
<1>2. rs \in Nat /\ re \in Nat /\ id \in Nat
  BY NextRangeTypes
<1>3. em \in BOOLEAN
  BY DEF nextIsEmpty
<1>4. openNextORE(f, n) =
        [f EXCEPT !.epochs = [f.epochs EXCEPT ![n + 2] = ep]]
  BY <1>1 DEF openNextORE, nextRequestEnd, Fork
<1> HIDE DEF em, rs, re, id
<1>5. /\ ep \in Epoch
      /\ SameRange(ep, f.epochs[n + 2])
      /\ ep.nextEpoch = f.epochs[n + 2].nextEpoch
      /\ ep.isRequest
      /\ ep.isEmpty = em
      /\ ep.requestStart = rs
      /\ ep.requestEnd = re
      /\ ep.firstRequestBlockId = id
  BY ZenonT(30), <1>1, <1>2, <1>3 DEF Epoch, SameRange
<1> HIDE DEF ep
<1> DEFINE es == [f.epochs EXCEPT ![n + 2] = ep]
<1>6. /\ es \in [Epochs -> Epoch]
      /\ es[n + 2] = ep
      /\ \A e \in Epochs : e # n + 2 => es[e] = f.epochs[e]
  BY <1>5 DEF Fork
<1> HIDE DEF es
<1>7. openNextORE(f, n) = [f EXCEPT !.epochs = es]
  BY <1>4 DEF es
<1>8. LET g == openNextORE(f, n)
      IN /\ g \in Fork
         /\ SameCursors(f, g)
         /\ g.lastEpoch = f.lastEpoch
         /\ g.lastEnterEpoch = f.lastEnterEpoch
         /\ \A e \in Epochs : e # n + 2 => g.epochs[e] = f.epochs[e]
         /\ g.epochs[n + 2] = ep
  BY <1>6, <1>7, Zenon DEF Fork, SameCursors
<1> QED BY <1>5, <1>8 DEF em, rs, re, id

LEMMA SameNext ==
  ASSUME NEW f, NEW g, NEW n, SameRequests(g.epochs[n], f.epochs[n])
  PROVE  /\ numBlocks(g.epochs[n]) = numBlocks(f.epochs[n])
         /\ nextIsEmpty(g.epochs[n]) = nextIsEmpty(f.epochs[n])
         /\ nextRequestStart(g, n) = nextRequestStart(f, n)
         /\ nextRequestEnd(g, n) = nextRequestEnd(f, n)
         /\ nextFirstRequestBlockId(g, n) = nextFirstRequestBlockId(f, n)
<1>1. numBlocks(g.epochs[n]) = numBlocks(f.epochs[n])
  BY SameNumBlocks
<1>2. nextIsEmpty(g.epochs[n]) = nextIsEmpty(f.epochs[n])
  BY DEF nextIsEmpty, SameRequests
<1>3. firstFilled(g, n) = firstFilled(f, n)
  BY DEF firstFilled, SameRequests
<1>4. nextRequestStart(g, n) = nextRequestStart(f, n)
  BY <1>2, <1>3 DEF nextRequestStart, SameRequests
<1>5. nextRequestEnd(g, n) = nextRequestEnd(f, n)
  BY <1>2, <1>4 DEF nextRequestEnd
<1>6. nextFirstRequestBlockId(g, n) = nextFirstRequestBlockId(f, n)
  BY <1>1, <1>2, <1>3 DEF nextFirstRequestBlockId, SameRequests
<1> QED BY <1>1, <1>2, <1>4, <1>5, <1>6

(* The request fields of the epoch that prepareORE opens after epoch n. *)
OpenedAfter(next, f, n) ==
  /\ next.isRequest
  /\ next.isEmpty = nextIsEmpty(f.epochs[n])
  /\ next.requestStart = nextRequestStart(f, n)
  /\ next.requestEnd = nextRequestEnd(f, n)
  /\ next.firstRequestBlockId = nextFirstRequestBlockId(f, n)

(* What prepareORE does to the fork, short of passing over an empty epoch. *)
LEMMA LayOutFacts ==
  ASSUME NEW f \in Fork, NEW n \in Epochs, n = f.lastEpoch + 1,
         n + 2 \in Epochs, n - 1 \in Epochs,
         f.lastEnterEpoch <= MaxEpoch,
         lastNonEmptyRequestEpoch \in Epochs,
         numEnterForORB \in Nat, EROs \in Seq(Request),
         f.epochs[n].requestStart <= f.epochs[n].requestEnd
  PROVE  LET g == linkNonEmpty(
                    openNextORE(closeORE(linkEnterEpoch(f, n), n), n), n)
             prevEnd == f.epochs[n - 1].endBlockNumber
         IN /\ g \in Fork
            /\ SameCursors(f, g)
            /\ g.lastEpoch = f.lastEpoch
            /\ g.lastEnterEpoch \in {f.lastEnterEpoch, n}
            /\ \A e \in Epochs :
                 /\ e # n + 2 => SameRequests(g.epochs[e], f.epochs[e])
                 /\ e # n => SameRange(g.epochs[e], f.epochs[e])
                 /\ g.epochs[e].nextEpoch \in {f.epochs[e].nextEpoch, n}
            /\ OpenedAfter(g.epochs[n + 2], f, n)
            /\ g.epochs[n].startBlockNumber =
                 IF f.epochs[n].isEmpty THEN prevEnd ELSE prevEnd + 1
            /\ g.epochs[n].endBlockNumber = prevEnd + numBlocks(f.epochs[n])
<1> DEFINE f1 == linkEnterEpoch(f, n)
           f2 == closeORE(f1, n)
           f3 == openNextORE(f2, n)
           g == linkNonEmpty(f3, n)
           prevEnd == f.epochs[n - 1].endBlockNumber
<1>0. n \in Nat /\ n # n + 2 /\ n - 1 # n + 2 /\ n - 1 # n
  BY BoundsAssumption, SMTT(30) DEF Epochs
<1>1. LinkedOnly(f, f1, n)
  BY LinkEnterFacts
<1> HIDE DEF f1
<1>2. /\ f1 \in Fork
      /\ SameRequests(f1.epochs[n], f.epochs[n])
      /\ numBlocks(f1.epochs[n]) = numBlocks(f.epochs[n])
      /\ f1.epochs[n - 1].endBlockNumber = prevEnd
      /\ f1.epochs[n].isEmpty = f.epochs[n].isEmpty
  <2>1. /\ f1 \in Fork
        /\ SameRequests(f1.epochs[n], f.epochs[n])
        /\ SameRange(f1.epochs[n - 1], f.epochs[n - 1])
    BY <1>1 DEF LinkedOnly
  <2>2. numBlocks(f1.epochs[n]) = numBlocks(f.epochs[n])
    BY <2>1, SameNumBlocks
  <2> QED BY <2>1, <2>2 DEF SameRange, SameRequests
<1>3. numBlocks(f1.epochs[n]) \in Nat
  BY ZenonT(30), <1>2, NumBlocksPositive DEF Fork
<1>4. /\ f2 \in Fork
      /\ SameCursors(f1, f2)
      /\ f2.lastEpoch = f1.lastEpoch
      /\ f2.lastEnterEpoch = f1.lastEnterEpoch
      /\ \A e \in Epochs : e # n => f2.epochs[e] = f1.epochs[e]
      /\ SameRequests(f2.epochs[n], f1.epochs[n])
      /\ f2.epochs[n].nextEpoch = f1.epochs[n].nextEpoch
      /\ f2.epochs[n].startBlockNumber =
           IF f.epochs[n].isEmpty THEN prevEnd ELSE prevEnd + 1
      /\ f2.epochs[n].endBlockNumber = prevEnd + numBlocks(f.epochs[n])
  <2> HIDE DEF prevEnd
  <2>1. /\ f2 \in Fork
        /\ SameCursors(f1, f2)
        /\ f2.lastEpoch = f1.lastEpoch
        /\ f2.lastEnterEpoch = f1.lastEnterEpoch
        /\ \A e \in Epochs : e # n => f2.epochs[e] = f1.epochs[e]
        /\ SameRequests(f2.epochs[n], f1.epochs[n])
        /\ f2.epochs[n].nextEpoch = f1.epochs[n].nextEpoch
        /\ f2.epochs[n].startBlockNumber =
             IF f1.epochs[n].isEmpty THEN f1.epochs[n - 1].endBlockNumber
             ELSE f1.epochs[n - 1].endBlockNumber + 1
        /\ f2.epochs[n].endBlockNumber =
             f1.epochs[n - 1].endBlockNumber + numBlocks(f1.epochs[n])
    BY ZenonT(30), <1>2, <1>3, CloseOREFacts
  <2> HIDE DEF f2
  <2> QED BY <2>1, <1>2, Zenon
<1> HIDE DEF f2
<1>5. SameRequests(f2.epochs[n], f.epochs[n])
  BY <1>2, <1>4, Zenon DEF SameRequests
<1>6. f2.epochs[n].requestStart <= f2.epochs[n].requestEnd
  BY <1>5 DEF SameRequests
<1>7. /\ f3 \in Fork
      /\ SameCursors(f2, f3)
      /\ f3.lastEpoch = f2.lastEpoch
      /\ f3.lastEnterEpoch = f2.lastEnterEpoch
      /\ \A e \in Epochs : e # n + 2 => f3.epochs[e] = f2.epochs[e]
      /\ SameRange(f3.epochs[n + 2], f2.epochs[n + 2])
      /\ f3.epochs[n + 2].nextEpoch = f2.epochs[n + 2].nextEpoch
      /\ OpenedAfter(f3.epochs[n + 2], f2, n)
  <2>1. f2 \in Fork
    BY <1>4
  <2> QED BY <2>1, <1>6, OpenNextOREFacts, ZenonT(60) DEF OpenedAfter
<1> HIDE DEF f3
<1>8. OpenedAfter(f3.epochs[n + 2], f, n)
  <2>1. /\ nextIsEmpty(f2.epochs[n]) = nextIsEmpty(f.epochs[n])
        /\ nextRequestStart(f2, n) = nextRequestStart(f, n)
        /\ nextRequestEnd(f2, n) = nextRequestEnd(f, n)
        /\ nextFirstRequestBlockId(f2, n) = nextFirstRequestBlockId(f, n)
    BY ZenonT(30), <1>5, SameNext
  <2> QED BY <1>7, <2>1 DEF OpenedAfter
<1>9. LinkedOnly(f3, g, n)
  BY <1>7, LinkNonEmptyFacts
<1> HIDE DEF g, prevEnd
<1>10. /\ g \in Fork
       /\ SameCursors(f, g)
       /\ g.lastEpoch = f.lastEpoch
       /\ g.lastEnterEpoch \in {f.lastEnterEpoch, n}
  BY <1>1, <1>4, <1>7, <1>9, Zenon DEF LinkedOnly, SameCursors
<1>11. \A e \in Epochs : e # n + 2 => SameRequests(g.epochs[e], f.epochs[e])
  <2> SUFFICES ASSUME NEW e \in Epochs, e # n + 2
               PROVE  SameRequests(g.epochs[e], f.epochs[e])
    OBVIOUS
  <2>1. SameRequests(g.epochs[e], f2.epochs[e])
    BY <1>7, <1>9 DEF LinkedOnly
  <2>2. SameRequests(f2.epochs[e], f.epochs[e])
    BY <1>1, <1>4, <1>5 DEF LinkedOnly
  <2> QED BY <2>1, <2>2 DEF SameRequests
<1>12. \A e \in Epochs : e # n => SameRange(g.epochs[e], f.epochs[e])
  <2> SUFFICES ASSUME NEW e \in Epochs, e # n
               PROVE  SameRange(g.epochs[e], f.epochs[e])
    OBVIOUS
  <2>1. SameRange(g.epochs[e], f3.epochs[e])
    BY <1>9 DEF LinkedOnly
  <2>2. SameRange(f3.epochs[e], f2.epochs[e])
    <3>1. CASE e = n + 2
      BY <1>7, <3>1
    <3>2. CASE e # n + 2
      <4>1. f3.epochs[e] = f2.epochs[e]
        BY <1>7, <3>2
      <4> QED BY <4>1 DEF SameRange
    <3> QED BY <3>1, <3>2
  <2>3. f2.epochs[e] = f1.epochs[e]
    BY <1>4
  <2>4. SameRange(f1.epochs[e], f.epochs[e])
    BY <1>1 DEF LinkedOnly
  <2> QED BY <2>1, <2>2, <2>3, <2>4 DEF SameRange
<1>13. \A e \in Epochs :
         g.epochs[e].nextEpoch \in {f.epochs[e].nextEpoch, n}
  <2> TAKE e \in Epochs
  <2>1. f2.epochs[e].nextEpoch = f1.epochs[e].nextEpoch
    BY <1>4
  <2>2. f3.epochs[e].nextEpoch = f2.epochs[e].nextEpoch
    BY <1>7
  <2> QED BY ZenonT(30), <1>1, <1>9, <2>1, <2>2 DEF LinkedOnly
<1>14. OpenedAfter(g.epochs[n + 2], f, n)
  BY <1>8, <1>9 DEF LinkedOnly, OpenedAfter, SameRequests
<1>15. /\ g.epochs[n].startBlockNumber =
            IF f.epochs[n].isEmpty THEN prevEnd ELSE prevEnd + 1
       /\ g.epochs[n].endBlockNumber = prevEnd + numBlocks(f.epochs[n])
  <2>1. f3.epochs[n] = f2.epochs[n]
    BY <1>0, <1>7
  <2>2. SameRange(g.epochs[n], f3.epochs[n])
    BY <1>9 DEF LinkedOnly
  <2> QED BY <1>4, <2>1, <2>2 DEF SameRange
<1> QED BY ZenonT(30), <1>10, <1>11, <1>12, <1>13, <1>14, <1>15
        DEF g, f3, f2, f1, prevEnd

-----------------------------------------------------------------------------
(***************************************************************************)
(* The epoch that prepareORE opens owns exactly the open tail.             *)
(***************************************************************************)
LEMMA OpenedOwnsTail ==
  ASSUME TypeOK, NEW f \in Fork, WithinBounds(f), RangesExist(f), ORBsCover,
         OpenTail(f), NEW n, n = LastOpened(f), ~nextIsEmpty(f.epochs[n])
  PROVE  /\ Len(EROs) > ownedRequests(f, n)
         /\ Len(ORBs) > 0
         /\ nextRequestStart(f, n) = ownedRequests(f, n)
         /\ nextRequestEnd(f, n) = Len(EROs) - 1
         /\ nextFirstRequestBlockId(f, n) = ownedORBs(f, n)
         /\ divCeil(Len(EROs) - ownedRequests(f, n), MAX_REQUESTS)
              = Len(ORBs) - ownedORBs(f, n)
<1> DEFINE ep == f.epochs[n]
           A == ownedRequests(f, n)
           G == ownedORBs(f, n)
           last == ORBs[Len(ORBs)]
           t == Len(ORBs) - G
<1>1. /\ n \in Epochs /\ ep \in Epoch
      /\ ep.requestEnd \in Nat /\ ep.firstRequestBlockId \in Nat
  BY EpochIndices DEF Fork, Epoch
<1>2. Len(EROs) \in Nat /\ Len(ORBs) \in Nat
  BY DEF TypeOK
<1>3. numBlocks(ep) \in Nat
  BY <1>1, NumBlocksPositive DEF RangesExist
<1>4. A \in Nat /\ G \in Nat
  BY <1>1, <1>3 DEF ownedRequests, ownedORBs
<1>5. Len(EROs) > A
  BY SMTT(60), <1>1, <1>2, <1>4 DEF OpenTail, ownedRequests, nextIsEmpty
<1>6. /\ Len(ORBs) > G
      /\ last.requestStart = A + (t - 1) * MAX_REQUESTS
  BY <1>5 DEF OpenTail
<1>7. /\ last.requestEnd = Len(EROs) - 1
      /\ last.requestStart <= last.requestEnd
      /\ last.requestEnd < last.requestStart + MAX_REQUESTS
  BY <1>2, <1>4, <1>6 DEF ORBsCover
<1>8. nextRequestStart(f, n) = A /\ nextRequestEnd(f, n) = Len(EROs) - 1
  BY DEF OpenTail, nextRequestStart, nextRequestEnd, ownedRequests
<1>9. nextFirstRequestBlockId(f, n) = G
  BY DEF OpenTail, nextFirstRequestBlockId, ownedORBs
<1>10. MAX_REQUESTS \in Nat /\ MAX_REQUESTS > 0
  BY ParamsAssumption
<1>11. t \in Nat /\ t >= 1
  BY <1>2, <1>4, <1>6
<1> HIDE DEF A, G, t, last
<1>12. t * MAX_REQUESTS = (t - 1) * MAX_REQUESTS + MAX_REQUESTS
  <2>1. ((t - 1) + 1) * MAX_REQUESTS = (t - 1) * MAX_REQUESTS + MAX_REQUESTS
    BY <1>10, <1>11, TimesSuccessor
  <2>2. (t - 1) + 1 = t
    BY <1>11
  <2> QED BY <2>1, <2>2
<1>13. (t - 1) * MAX_REQUESTS \in Int
  BY <1>10, <1>11
<1> DEFINE p == (t - 1) * MAX_REQUESTS
<1>14. /\ p < Len(EROs) - A
       /\ Len(EROs) - A <= t * MAX_REQUESTS
       /\ Len(EROs) - A \in Nat
  <2>1. /\ p \in Int
        /\ last.requestStart = A + p
        /\ t * MAX_REQUESTS = p + MAX_REQUESTS
    BY <1>6, <1>12, <1>13
  <2> HIDE DEF p
  <2> QED BY <2>1, <1>2, <1>4, <1>5, <1>7, <1>10
<1>15. divCeil(Len(EROs) - A, MAX_REQUESTS) = t
  BY <1>10, <1>11, <1>14, DivCeilIs
<1>16. Len(ORBs) > 0
  BY <1>2, <1>4, <1>6 DEF G
<1> QED BY <1>5, <1>8, <1>9, <1>15, <1>16 DEF A, G, t

(* Otherwise there is no tail, or it is the single first request. *)
LEMMA OpenedOwnsNothing ==
  ASSUME TypeOK, NEW f \in Fork, WithinBounds(f), RangesExist(f),
         OpenTail(f), NEW n, n = LastOpened(f), nextIsEmpty(f.epochs[n])
  PROVE  /\ nextRequestStart(f, n) = f.epochs[n].requestEnd
         /\ nextRequestEnd(f, n) = f.epochs[n].requestEnd
         /\ firstFilled(f, n) = 0 => nextFirstRequestBlockId(f, n) = 0
         /\ firstFilled(f, n) # 0 =>
              nextFirstRequestBlockId(f, n) + 1 = ownedORBs(f, n)
<1> DEFINE ep == f.epochs[n]
<1>1. /\ n \in Epochs /\ ep \in Epoch
      /\ ep.requestEnd \in Nat /\ ep.firstRequestBlockId \in Nat
  BY EpochIndices DEF Fork, Epoch
<1>2. numBlocks(ep) \in Nat
  BY <1>1, NumBlocksPositive DEF RangesExist
<1>3. firstFilled(f, n) = 0 => ep.isEmpty /\ ep.firstRequestBlockId = 0
  BY DEF OpenTail
<1>4. nextRequestStart(f, n) = ep.requestEnd
  BY DEF nextRequestStart
<1> QED BY <1>1, <1>2, <1>3, <1>4
        DEF nextRequestEnd, nextFirstRequestBlockId, ownedORBs

-----------------------------------------------------------------------------
(* submitNRE is accepted only between a finished request epoch and the     *)
(* prepared non-request epoch.                                             *)
LEMMA NREPosition ==
  ASSUME NEW f, ForkInv(f), CanInsertNRE(f)
  PROVE  /\ ~Odd(f.lastEpoch)
         /\ f.lastBlock = f.epochs[f.lastEpoch].endBlockNumber
<1>1. f \in Fork /\ f.lastEpoch \in Nat /\ f.lastEpoch + 1 \in Epochs
  BY EpochIndices DEF ForkInv
<1>2. ~f.epochs[f.lastEpoch + 1].isRequest
  BY DEF CanInsertNRE
<1>3. ~Odd(f.lastEpoch)
  <2> SUFFICES ASSUME Odd(f.lastEpoch) PROVE FALSE
    OBVIOUS
  <2>1. f.lastEpoch >= 1 /\ ~Odd(f.lastEpoch + 1)
    BY <1>1 DEF Odd
  <2>2. f.epochs[f.lastEpoch + 1].isRequest
    BY <1>1, <2>1 DEF ForkInv, RequestParity, LastOpened
  <2> QED BY <1>2, <2>2
<1>4. f.lastBlock = f.epochs[f.lastEpoch].endBlockNumber
  <2> SUFFICES ASSUME f.lastBlock # f.epochs[f.lastEpoch].endBlockNumber
               PROVE  FALSE
    OBVIOUS
  <2>1. f.epochs[f.lastEpoch + 1].startBlockNumber = 0
    BY <1>3 DEF ForkInv, ChainShape
  <2>2. f.epochs[f.lastEpoch + 1].startBlockNumber = f.lastBlock + 1
    BY DEF CanInsertNRE
  <2> QED BY <1>1, <2>1, <2>2 DEF Fork
<1> QED BY <1>3, <1>4

(* The fork after submitNRE: n is the request epoch whose blocks are next. *)
AfterNRE(f, g, n) ==
  LET ep == f.epochs[n]
      end == f.lastBlock + NRELength
  IN /\ g \in Fork
     /\ g.blocks = f.blocks
     /\ g.lastFinalizedEpoch = f.lastFinalizedEpoch
     /\ g.lastEnterEpoch \in {f.lastEnterEpoch, n}
     /\ g.lastBlock = end
     /\ g.lastEpoch = IF ep.isEmpty THEN n ELSE n - 1
     /\ \A e \in Epochs :
          /\ e # n + 2 => SameRequests(g.epochs[e], f.epochs[e])
          /\ e # n /\ (e # n + 1 \/ ~ep.isEmpty) =>
               SameRange(g.epochs[e], f.epochs[e])
          /\ g.epochs[e].nextEpoch \in {f.epochs[e].nextEpoch, n}
     /\ OpenedAfter(g.epochs[n + 2], f, n)
     /\ g.epochs[n - 1].endBlockNumber = end
     /\ g.epochs[n].startBlockNumber = IF ep.isEmpty THEN end ELSE end + 1
     /\ g.epochs[n].endBlockNumber = end + numBlocks(ep)
     /\ ep.isEmpty =>
          /\ g.epochs[n + 1].startBlockNumber = end + 1
          /\ g.epochs[n + 1].endBlockNumber = end + NRELength

LEMMA SubmitNREFacts ==
  ASSUME TypeOK, EpochCursors, NEW f, ForkInv(f), RangesExist(f),
         CanInsertNRE(f), InBounds(f)
  PROVE  AfterNRE(f, prepareORE(insertNRE(f)), f.lastEpoch + 2)
<1> DEFINE n == f.lastEpoch + 2
           h == insertNRE(f)
           k == linkNonEmpty(
                  openNextORE(closeORE(linkEnterEpoch(h, n), n), n), n)
           end == f.lastBlock + NRELength
<1>1. /\ f \in Fork /\ f.lastEpoch \in Nat /\ f.lastBlock \in Nat
      /\ n \in Nat /\ n \in Epochs
      /\ n - 1 \in Epochs /\ n + 1 \in Epochs /\ n + 2 \in Epochs
      /\ n - 1 = f.lastEpoch + 1
  <2>1. f \in Fork /\ f.lastEpoch \in Nat /\ f.lastBlock \in Nat
    BY DEF ForkInv, Fork
  <2>2. f.lastEpoch + 4 <= MaxEpoch
    BY DEF InBounds
  <2> QED BY <2>1, <2>2, BoundsAssumption DEF Epochs
<1>2. /\ ~Odd(f.lastEpoch)
      /\ f.lastBlock = f.epochs[f.lastEpoch].endBlockNumber
  BY NREPosition
<1>3. f.epochs[n - 1].endBlockNumber = end
  BY <1>1, <1>2 DEF ForkInv, ChainShape
<1>4. now \in Nat /\ numEnterForORB \in Nat /\ EROs \in Seq(Request)
  BY DEF TypeOK
<1>5. lastNonEmptyRequestEpoch \in Epochs
  BY BoundsAssumption DEF TypeOK, EpochCursors, Epochs
<1>6. /\ h \in Fork
      /\ h.blocks = f.blocks
      /\ h.lastEpoch = n - 1
      /\ h.lastBlock = end
      /\ h.lastEnterEpoch = f.lastEnterEpoch
      /\ h.lastFinalizedEpoch = f.lastFinalizedEpoch
      /\ \A e \in Epochs : SameEpoch(h.epochs[e], f.epochs[e])
  <2> HIDE DEF n, end
  <2> QED BY <1>1, <1>3, <1>4, InsertNREFacts
<1> HIDE DEF h, end
<1>7. /\ h.lastEpoch + 1 = n
      /\ h.lastEnterEpoch <= MaxEpoch
      /\ h.epochs[n].requestStart <= h.epochs[n].requestEnd
      /\ h.epochs[n - 1].endBlockNumber = end
      /\ SameRequests(h.epochs[n], f.epochs[n])
  <2>1. h.lastEpoch + 1 = n
    BY <1>1, <1>6
  <2> HIDE DEF n
  <2>2. h.lastEnterEpoch <= MaxEpoch
    BY <1>6 DEF ForkInv, WithinBounds
  <2>3. SameRequests(h.epochs[n], f.epochs[n])
    BY <1>1, <1>6 DEF SameEpoch
  <2>4. f.epochs[n].requestStart <= f.epochs[n].requestEnd
    BY <1>1 DEF RangesExist
  <2>5. h.epochs[n - 1].endBlockNumber = end
    BY <1>1, <1>3, <1>6 DEF SameEpoch, SameRange
  <2> QED BY <2>1, <2>2, <2>3, <2>4, <2>5 DEF SameRequests
<1>8. /\ numBlocks(h.epochs[n]) = numBlocks(f.epochs[n])
      /\ h.epochs[n].isEmpty = f.epochs[n].isEmpty
  BY <1>7, SameNumBlocks DEF SameRequests
<1> HIDE DEF n
<1>9. /\ k \in Fork
      /\ SameCursors(h, k)
      /\ k.lastEpoch = h.lastEpoch
      /\ k.lastEnterEpoch \in {h.lastEnterEpoch, n}
      /\ \A e \in Epochs :
           /\ e # n + 2 => SameRequests(k.epochs[e], h.epochs[e])
           /\ e # n => SameRange(k.epochs[e], h.epochs[e])
           /\ k.epochs[e].nextEpoch \in {h.epochs[e].nextEpoch, n}
      /\ OpenedAfter(k.epochs[n + 2], h, n)
      /\ k.epochs[n].startBlockNumber =
           IF h.epochs[n].isEmpty THEN h.epochs[n - 1].endBlockNumber
           ELSE h.epochs[n - 1].endBlockNumber + 1
      /\ k.epochs[n].endBlockNumber =
           h.epochs[n - 1].endBlockNumber + numBlocks(h.epochs[n])
  <2>1. /\ h \in Fork /\ n \in Epochs /\ n = h.lastEpoch + 1
        /\ n + 2 \in Epochs /\ n - 1 \in Epochs
        /\ h.lastEnterEpoch <= MaxEpoch
        /\ lastNonEmptyRequestEpoch \in Epochs
        /\ numEnterForORB \in Nat /\ EROs \in Seq(Request)
        /\ h.epochs[n].requestStart <= h.epochs[n].requestEnd
    BY <1>1, <1>4, <1>5, <1>6, <1>7
  <2> QED BY <2>1, LayOutFacts, ZenonT(60)
<1>10. prepareORE(h) = skipEmptyORE(k, n)
  BY <1>7 DEF prepareORE
<1> HIDE DEF k
<1>11. OpenedAfter(k.epochs[n + 2], f, n)
  <2>1. /\ nextIsEmpty(h.epochs[n]) = nextIsEmpty(f.epochs[n])
        /\ nextRequestStart(h, n) = nextRequestStart(f, n)
        /\ nextRequestEnd(h, n) = nextRequestEnd(f, n)
        /\ nextFirstRequestBlockId(h, n) = nextFirstRequestBlockId(f, n)
    BY <1>7, SameNext
  <2> QED BY <1>9, <2>1 DEF OpenedAfter
<1>12. /\ k.blocks = f.blocks
       /\ k.lastBlock = end
       /\ k.lastEpoch = n - 1
       /\ k.lastFinalizedEpoch = f.lastFinalizedEpoch
       /\ k.lastEnterEpoch \in {f.lastEnterEpoch, n}
       /\ k.epochs[n].startBlockNumber =
            IF f.epochs[n].isEmpty THEN end ELSE end + 1
       /\ k.epochs[n].endBlockNumber = end + numBlocks(f.epochs[n])
       /\ k.epochs[n - 1].endBlockNumber = end
       /\ k.epochs[n].isEmpty = f.epochs[n].isEmpty
  <2>1. /\ k.blocks = h.blocks
        /\ k.lastBlock = h.lastBlock
        /\ k.lastFinalizedEpoch = h.lastFinalizedEpoch
    BY <1>9 DEF SameCursors
  <2>2. n # n + 2 /\ n - 1 # n
    BY <1>1
  <2>3. SameRequests(k.epochs[n], h.epochs[n])
    BY <1>1, <1>9, <2>2
  <2>4. SameRange(k.epochs[n - 1], h.epochs[n - 1])
    BY <1>1, <1>9, <2>2
  <2>5. /\ k.epochs[n].isEmpty = f.epochs[n].isEmpty
        /\ k.epochs[n - 1].endBlockNumber = end
    BY <1>7, <1>8, <2>3, <2>4 DEF SameRequests, SameRange
  <2> QED BY <1>6, <1>7, <1>8, <1>9, <2>1, <2>5
<1>13. \A e \in Epochs :
         /\ e # n + 2 => SameRequests(k.epochs[e], f.epochs[e])
         /\ e # n => SameRange(k.epochs[e], f.epochs[e])
         /\ k.epochs[e].nextEpoch \in {f.epochs[e].nextEpoch, n}
  <2> TAKE e \in Epochs
  <2>1. /\ SameRequests(h.epochs[e], f.epochs[e])
        /\ SameRange(h.epochs[e], f.epochs[e])
        /\ h.epochs[e].nextEpoch = f.epochs[e].nextEpoch
    BY <1>6 DEF SameEpoch
  <2>2. /\ e # n + 2 => SameRequests(k.epochs[e], h.epochs[e])
        /\ e # n => SameRange(k.epochs[e], h.epochs[e])
        /\ k.epochs[e].nextEpoch \in {h.epochs[e].nextEpoch, n}
    BY <1>9
  <2> QED BY <2>1, <2>2 DEF SameRequests, SameRange
<1>14. CASE ~f.epochs[n].isEmpty
  <2>1. skipEmptyORE(k, n) = k
    BY <1>12, <1>14 DEF skipEmptyORE
  <2>2. AfterNRE(f, k, n)
    BY ZenonT(30), <1>9, <1>11, <1>12, <1>13, <1>14 DEF AfterNRE, end
  <2> QED BY <1>10, <2>1, <2>2 DEF n, h
<1>15. CASE f.epochs[n].isEmpty
  <2> DEFINE m == [k EXCEPT !.lastEpoch = n]
             g == prepareNRE(m)
  <2>1. skipEmptyORE(k, n) = g
    BY <1>12, <1>15 DEF skipEmptyORE
  <2>2. /\ m \in Fork
        /\ m.lastEpoch = n
        /\ m.epochs = k.epochs
        /\ m.blocks = k.blocks
        /\ m.lastBlock = k.lastBlock
        /\ m.lastFinalizedEpoch = k.lastFinalizedEpoch
        /\ m.lastEnterEpoch = k.lastEnterEpoch
    BY <1>1, <1>9 DEF Fork
  <2> HIDE DEF m
  <2>p. /\ g \in Fork
        /\ SameCursors(m, g)
        /\ g.lastEpoch = m.lastEpoch
        /\ g.lastEnterEpoch = m.lastEnterEpoch
        /\ \A e \in Epochs : e # m.lastEpoch + 1 => g.epochs[e] = m.epochs[e]
        /\ SameRequests(g.epochs[m.lastEpoch + 1], m.epochs[m.lastEpoch + 1])
        /\ g.epochs[m.lastEpoch + 1].nextEpoch = m.epochs[m.lastEpoch + 1].nextEpoch
        /\ g.epochs[m.lastEpoch + 1].startBlockNumber =
             IF m.lastEpoch + 1 = 1 THEN 1 ELSE m.epochs[m.lastEpoch + 1 - 1].endBlockNumber + 1
        /\ g.epochs[m.lastEpoch + 1].endBlockNumber =
             g.epochs[m.lastEpoch + 1].startBlockNumber + NRELength - 1
    BY SMTT(60), <1>1, <2>2, PrepareNREFacts
  <2> HIDE DEF g
  <2>3. /\ g \in Fork
        /\ SameCursors(m, g)
        /\ g.lastEpoch = m.lastEpoch
        /\ g.lastEnterEpoch = m.lastEnterEpoch
        /\ \A e \in Epochs : e # n + 1 => g.epochs[e] = m.epochs[e]
        /\ SameRequests(g.epochs[n + 1], m.epochs[n + 1])
        /\ g.epochs[n + 1].nextEpoch = m.epochs[n + 1].nextEpoch
        /\ g.epochs[n + 1].startBlockNumber =
             IF n + 1 = 1 THEN 1 ELSE m.epochs[n + 1 - 1].endBlockNumber + 1
        /\ g.epochs[n + 1].endBlockNumber =
             g.epochs[n + 1].startBlockNumber + NRELength - 1
    BY <2>2, <2>p
  <2>4. n + 1 # 1 /\ n + 1 - 1 = n /\ n # n + 1 /\ n - 1 # n + 1
        /\ n + 2 # n + 1
    BY <1>1 DEF n
  <2>5. numBlocks(f.epochs[n]) = 0
    BY <1>15 DEF numBlocks
  <2>6. end \in Nat /\ NRELength \in Nat
    BY <1>1, ParamsAssumption DEF end
  <2>7. /\ g.epochs[n + 1].startBlockNumber = end + 1
        /\ g.epochs[n + 1].endBlockNumber = end + NRELength
    BY <1>12, <2>2, <2>3, <2>4, <2>5, <2>6
  <2>8. \A e \in Epochs :
          /\ e # n + 2 => SameRequests(g.epochs[e], f.epochs[e])
          /\ e # n /\ e # n + 1 => SameRange(g.epochs[e], f.epochs[e])
          /\ g.epochs[e].nextEpoch \in {f.epochs[e].nextEpoch, n}
    <3> TAKE e \in Epochs
    <3>1. /\ e # n + 2 => SameRequests(k.epochs[e], f.epochs[e])
          /\ e # n => SameRange(k.epochs[e], f.epochs[e])
          /\ k.epochs[e].nextEpoch \in {f.epochs[e].nextEpoch, n}
      BY <1>13
    <3>2. CASE e = n + 1
      BY <2>2, <2>3, <3>1, <3>2 DEF SameRequests
    <3>3. CASE e # n + 1
      <4>1. g.epochs[e] = k.epochs[e]
        BY <2>2, <2>3, <3>3
      <4> QED BY <3>1, <3>3, <4>1
    <3> QED BY <3>2, <3>3
  <2>9. /\ g.epochs[n] = k.epochs[n]
        /\ g.epochs[n - 1] = k.epochs[n - 1]
        /\ g.epochs[n + 2] = k.epochs[n + 2]
    BY <1>1, <2>2, <2>3, <2>4
  <2>10. /\ g.blocks = f.blocks
         /\ g.lastBlock = end
         /\ g.lastEpoch = n
         /\ g.lastFinalizedEpoch = f.lastFinalizedEpoch
         /\ g.lastEnterEpoch \in {f.lastEnterEpoch, n}
    <3>1. /\ g.blocks = m.blocks
          /\ g.lastBlock = m.lastBlock
          /\ g.lastFinalizedEpoch = m.lastFinalizedEpoch
      BY <2>3 DEF SameCursors
    <3>2. g.lastEpoch = n /\ g.lastEnterEpoch = k.lastEnterEpoch
      BY <2>2, <2>3
    <3>3. /\ k.blocks = f.blocks
          /\ k.lastBlock = end
          /\ k.lastFinalizedEpoch = f.lastFinalizedEpoch
          /\ k.lastEnterEpoch \in {f.lastEnterEpoch, n}
      BY <1>12
    <3> QED BY <2>2, <3>1, <3>2, <3>3
  <2>11. /\ g.epochs[n - 1].endBlockNumber = end
         /\ g.epochs[n].startBlockNumber = end
         /\ g.epochs[n].endBlockNumber = end + numBlocks(f.epochs[n])
         /\ OpenedAfter(g.epochs[n + 2], f, n)
    BY <1>11, <1>12, <1>15, <2>9
  <2>12. AfterNRE(f, g, n)
    BY ZenonT(30), <1>15, <2>3, <2>7, <2>8, <2>10, <2>11 DEF AfterNRE, end
  <2> QED BY <1>10, <2>1, <2>12 DEF n, h
<1> QED BY <1>14, <1>15

-----------------------------------------------------------------------------
(* submitNRE. *)

LEMMA Parity ==
  ASSUME NEW m \in Nat, ~Odd(m)
  PROVE  /\ Odd(m + 1) /\ ~Odd(m + 2)
         /\ Odd(m + 3) /\ ~Odd(m + 4)
BY DEF Odd

LEMMA AfterNREForkInv ==
  ASSUME NEW f, NEW g, ForkInv(f), CanInsertNRE(f), InBounds(f),
         AfterNRE(f, g, f.lastEpoch + 2)
  PROVE  ForkInv(g) /\ LastOpened(g) = f.lastEpoch + 4
<1> DEFINE n == f.lastEpoch + 2
           ep == f.epochs[n]
           end == f.lastBlock + NRELength
<1>1. f \in Fork /\ f.lastEpoch \in Nat /\ f.lastBlock \in Nat
  BY DEF ForkInv, Fork
<1>2. f.lastEpoch + 4 <= MaxEpoch /\ MaxEpoch \in Nat
  BY BoundsAssumption DEF InBounds
<1>3. /\ ~Odd(f.lastEpoch)
      /\ f.lastBlock = f.epochs[f.lastEpoch].endBlockNumber
  BY NREPosition
<1>4. f.epochs[f.lastEpoch + 1].endBlockNumber = end
  BY <1>3 DEF ForkInv, ChainShape
<1>5. end < MaxBlock
  BY <1>4 DEF InBounds
<1>6. /\ Odd(n - 1) /\ ~Odd(n) /\ Odd(n + 1) /\ ~Odd(n + 2)
  <2>1. n - 1 = f.lastEpoch + 1 /\ n + 1 = f.lastEpoch + 3
        /\ n + 2 = f.lastEpoch + 4
    BY <1>1
  <2> QED BY <1>1, <1>3, <2>1, Parity
<1>7. /\ n \in Nat /\ n >= 2 /\ n + 2 <= MaxEpoch /\ n + 2 = f.lastEpoch + 4
      /\ n \in Epochs /\ n - 1 \in Epochs /\ n + 1 \in Epochs
      /\ n + 2 \in Epochs
  BY <1>1, <1>2 DEF Epochs
<1>8. LastOpened(f) = n
  BY <1>3 DEF LastOpened
<1>9. AfterNRE(f, g, n)
  OBVIOUS
<1>10. f.lastEpoch + 1 = n - 1 /\ f.lastEpoch <= n /\ f.lastEpoch <= n - 1
  BY <1>1
<1>11. end \in Nat
  BY <1>1, ParamsAssumption
<1> HIDE DEF n, ep, end
<1>12. g \in Fork /\ g.lastBlock = end /\ g.blocks = f.blocks
       /\ g.lastFinalizedEpoch = f.lastFinalizedEpoch
       /\ g.lastEnterEpoch \in {f.lastEnterEpoch, n}
       /\ g.lastEpoch = IF ep.isEmpty THEN n ELSE n - 1
  BY <1>9 DEF AfterNRE, ep, end
<1>13. LastOpened(g) = n + 2
  BY <1>6, <1>7, <1>12 DEF LastOpened
<1>14. \A e \in Epochs :
          /\ e # n + 2 => SameRequests(g.epochs[e], f.epochs[e])
          /\ e # n /\ (e # n + 1 \/ ~ep.isEmpty) =>
               SameRange(g.epochs[e], f.epochs[e])
          /\ g.epochs[e].nextEpoch \in {f.epochs[e].nextEpoch, n}
  BY <1>9 DEF AfterNRE, ep
<1>15. WithinBounds(g)
  <2>1. g.lastBlock <= MaxBlock
    BY <1>5, <1>11, <1>12, BoundsAssumption
  <2>2. g.lastFinalizedEpoch <= g.lastEpoch
    <3>1. f.lastFinalizedEpoch <= f.lastEpoch /\ f.lastFinalizedEpoch \in Nat
      BY <1>1 DEF ForkInv, WithinBounds, Fork
    <3> QED BY <1>1, <1>7, <1>10, <1>12, <3>1
  <2>3. g.lastEnterEpoch <= MaxEpoch
    BY <1>2, <1>7, <1>12 DEF ForkInv, WithinBounds
  <2>4. \A b \in Blocks : g.blocks[b].epochNumber <= g.lastEpoch
    <3> TAKE b \in Blocks
    <3>1. f.blocks[b].epochNumber <= f.lastEpoch
      BY DEF ForkInv, WithinBounds
    <3>2. f.blocks[b].epochNumber \in Nat
      BY <1>1 DEF Fork, PlasmaBlock
    <3>3. f.lastEpoch <= g.lastEpoch /\ g.lastEpoch \in Nat
      BY <1>7, <1>10, <1>12
    <3> QED BY <1>1, <1>12, <3>1, <3>2, <3>3
  <2>5. \A e \in Epochs : g.epochs[e].nextEpoch <= MaxEpoch
    <3> TAKE e \in Epochs
    <3>1. f.epochs[e].nextEpoch <= MaxEpoch
      BY DEF ForkInv, WithinBounds
    <3> QED BY <1>2, <1>7, <1>14, <3>1
  <2> QED BY <1>7, <1>13, <2>1, <2>2, <2>3, <2>4, <2>5 DEF WithinBounds
<1>16. RequestParity(g)
  <2> SUFFICES ASSUME NEW e \in Epochs
               PROVE  g.epochs[e].isRequest
                        <=> ~Odd(e) /\ 2 <= e /\ e <= n + 2
    BY <1>13 DEF RequestParity
  <2>1. e \in Nat
    BY DEF Epochs
  <2>2. CASE e = n + 2
    <3>1. g.epochs[n + 2].isRequest
      BY <1>9 DEF AfterNRE, OpenedAfter
    <3> QED BY <1>6, <1>7, <2>1, <2>2, <3>1
  <2>3. CASE e # n + 2
    <3>1. g.epochs[e].isRequest = f.epochs[e].isRequest
      BY <1>14, <2>3 DEF SameRequests
    <3>2. f.epochs[e].isRequest <=> ~Odd(e) /\ 2 <= e /\ e <= n
      BY <1>8 DEF ForkInv, RequestParity
    <3>3. ~Odd(e) => (e <= n <=> e <= n + 2)
      BY <1>6, <1>7, <2>1, <2>3
    <3> QED BY <3>1, <3>2, <3>3
  <2> QED BY <2>2, <2>3
<1>17. \A e \in Epochs : e > n - 1 => f.epochs[e].startBlockNumber = 0
  BY <1>1, <1>10 DEF ForkInv, ChainShape
<1>18. /\ g.epochs[n - 1].endBlockNumber = end
       /\ g.epochs[n].startBlockNumber = IF ep.isEmpty THEN end ELSE end + 1
       /\ g.epochs[n].endBlockNumber = end + numBlocks(ep)
       /\ ep.isEmpty =>
            /\ g.epochs[n + 1].startBlockNumber = end + 1
            /\ g.epochs[n + 1].endBlockNumber = end + NRELength
  BY <1>9 DEF AfterNRE, ep, end
<1>19. ChainShape(g)
  <2>1. CASE ep.isEmpty
    <3>1. g.lastEpoch = n /\ numBlocks(ep) = 0
      BY <1>12, <2>1 DEF numBlocks
    <3>2. g.epochs[n].endBlockNumber = g.lastBlock
      BY <1>11, <1>12, <1>18, <3>1
    <3>3. \A e \in Epochs : e > n + 1 => g.epochs[e].startBlockNumber = 0
      BY <1>7, <1>14, <1>17 DEF SameRange, Epochs
    <3> QED BY <1>6, <1>12, <1>18, <2>1, <3>1, <3>2, <3>3 DEF ChainShape
  <2>2. CASE ~ep.isEmpty
    <3>1. g.lastEpoch = n - 1 /\ n - 1 + 1 = n
      BY <1>7, <1>12, <2>2
    <3>2. \A e \in Epochs : e > n => g.epochs[e].startBlockNumber = 0
      BY <1>7, <1>14, <1>17, <2>2 DEF SameRange, Epochs
    <3>3. SameRequests(g.epochs[n], ep)
      BY <1>7, <1>14 DEF ep
    <3>4. /\ numBlocks(g.epochs[n]) = numBlocks(ep)
          /\ ~g.epochs[n].isEmpty
      BY <2>2, <3>3, SameNumBlocks DEF SameRequests
    <3> QED BY <1>6, <1>12, <1>18, <2>2, <3>1, <3>2, <3>4 DEF ChainShape
  <2> QED BY <2>1, <2>2
<1> QED BY <1>7, <1>12, <1>13, <1>15, <1>16, <1>19 DEF ForkInv

(* The parts of the invariant that speak of requests, after submitNRE. *)
LEMMA SubmitNREInv ==
  ASSUME IInv, submitNRE
  PROVE  IInv'
<1> DEFINE f == finalizeBlocks(fork)
           h == insertNRE(f)
           g == prepareORE(h)
           n == f.lastEpoch + 2
           ep == f.epochs[n]
<1>1. /\ TypeOK /\ ForkInv(fork) /\ RangesExist(fork) /\ ORBsCover
      /\ OpenTail(fork) /\ EpochCursors
  BY DEF IInv
<1>2. ForkInv(f) /\ RangesExist(f) /\ OpenTail(f)
  <2>1. FinalizedOnly(fork, f)
    BY <1>1, FinalizeBlocksFacts DEF TypeOK, ForkInv
  <2> HIDE DEF f
  <2> QED BY <1>1, <2>1, FinalizedOnlyKeeps
<1>3. CanInsertNRE(f) /\ InBounds(f)
  BY DEF submitNRE, CanSubmitNRE
<1>4. /\ fork' = g
      /\ numEnterForORB' = 0
      /\ ORBs' = sealLastORB(h.epochs[h.lastEpoch + 1])
      /\ firstFilledORENumber' = firstFilled(h, h.lastEpoch + 1)
      /\ firstNonEmptyRequestEpoch' \in
           {h.lastEpoch + 1, firstNonEmptyRequestEpoch}
      /\ lastNonEmptyRequestEpoch' \in
           {h.lastEpoch + 1, lastNonEmptyRequestEpoch}
      /\ EROs' = EROs
      /\ UNCHANGED <<EROIdToFinalize, lastAppliedEpochNumber,
                     lastAppliedBlockNumber, now>>
  BY DEF submitNRE, PrepareORE, cursorVars
<1> HIDE DEF f
<1>5. /\ f \in Fork /\ WithinBounds(f) /\ f.lastEpoch \in Nat
      /\ f.lastEpoch + 1 \in Epochs
  BY <1>2, EpochIndices DEF ForkInv
<1>6. f.lastEpoch + 4 <= MaxEpoch
  BY <1>3 DEF InBounds
<1>7. /\ n \in Nat /\ n \in Epochs /\ n + 2 \in Epochs
      /\ n <= MaxEpoch /\ n # 0 /\ n + 2 # 0 /\ n + 2 = f.lastEpoch + 4
  BY <1>5, <1>6, BoundsAssumption DEF Epochs
<1>8. h.lastEpoch = f.lastEpoch + 1
      /\ \A e \in Epochs : SameEpoch(h.epochs[e], f.epochs[e])
  BY <1>1, <1>5, InsertNREFacts DEF TypeOK
<1>9. h.lastEpoch + 1 = n /\ SameRequests(h.epochs[n], ep)
  BY <1>5, <1>7, <1>8 DEF SameEpoch
<1>10. AfterNRE(f, g, n)
  BY <1>1, <1>2, <1>3, SubmitNREFacts
<1> HIDE DEF h, g
<1>11. ForkInv(g) /\ LastOpened(g) = n + 2
  BY <1>2, <1>3, <1>7, <1>10, AfterNREForkInv
<1>12. LastOpened(f) = n
  BY <1>2, <1>3, NREPosition DEF LastOpened
<1> HIDE DEF n
<1>13. ep \in Epoch /\ ep.requestEnd \in Nat /\ ep.isEmpty \in BOOLEAN
  BY <1>5, <1>7 DEF Fork, Epoch
<1> HIDE DEF ep
<1>14. /\ ORBs' = sealLastORB(ep)
       /\ firstFilledORENumber' = firstFilled(f, n)
  BY <1>4, <1>9 DEF sealLastORB, nextIsEmpty, firstFilled, SameRequests, ep
<1>15. OpenedAfter(g.epochs[n + 2], f, n)
  BY <1>10 DEF AfterNRE
<1>16. /\ Len(EROs) \in Nat /\ Len(ORBs) \in Nat
       /\ ORBs \in Seq(RequestBlock)
  BY <1>1 DEF TypeOK
<1>17. ASSUME ~nextIsEmpty(ep)
       PROVE  /\ Len(EROs) > ownedRequests(f, n)
              /\ Len(ORBs) > 0
              /\ nextRequestStart(f, n) = ownedRequests(f, n)
              /\ nextRequestEnd(f, n) = Len(EROs) - 1
              /\ nextFirstRequestBlockId(f, n) = ownedORBs(f, n)
              /\ divCeil(Len(EROs) - ownedRequests(f, n), MAX_REQUESTS)
                   = Len(ORBs) - ownedORBs(f, n)
  <2>1. ~nextIsEmpty(f.epochs[n])
    BY <1>17 DEF ep
  <2> QED BY <1>1, <1>2, <1>5, <1>12, <2>1, OpenedOwnsTail
<1>18. ASSUME nextIsEmpty(ep)
       PROVE  /\ nextRequestStart(f, n) = ep.requestEnd
              /\ nextRequestEnd(f, n) = ep.requestEnd
              /\ firstFilled(f, n) = 0 => nextFirstRequestBlockId(f, n) = 0
              /\ firstFilled(f, n) # 0 =>
                   nextFirstRequestBlockId(f, n) + 1 = ownedORBs(f, n)
  <2>1. nextIsEmpty(f.epochs[n])
    BY <1>18 DEF ep
  <2> QED BY <1>1, <1>2, <1>5, <1>12, <2>1, OpenedOwnsNothing DEF ep
<1>19. /\ Len(ORBs') = Len(ORBs)
       /\ ORBs' \in Seq(RequestBlock)
       /\ nextIsEmpty(ep) => ORBs' = ORBs
       /\ ~nextIsEmpty(ep) =>
            /\ ORBs'[Len(ORBs)].submitted
            /\ ORBs'[Len(ORBs)].requestStart = ORBs[Len(ORBs)].requestStart
            /\ ORBs'[Len(ORBs)].requestEnd = ORBs[Len(ORBs)].requestEnd
  <2>1. CASE nextIsEmpty(ep)
    BY <1>14, <1>16, <2>1 DEF sealLastORB
  <2>2. CASE ~nextIsEmpty(ep)
    <3> DEFINE L == Len(ORBs)
               rb == [ORBs[L] EXCEPT !.submitted = TRUE]
    <3>1. L \in 1 .. Len(ORBs) /\ L \in Nat
      BY <1>16, <1>17, <2>2
    <3>2. ORBs[L] \in RequestBlock
      BY <1>16, <3>1
    <3>3. ORBs' = [ORBs EXCEPT ![L] = rb]
      BY <1>14, <2>2 DEF sealLastORB
    <3>4. /\ rb \in RequestBlock /\ rb.submitted
          /\ rb.requestStart = ORBs[L].requestStart
          /\ rb.requestEnd = ORBs[L].requestEnd
      BY ZenonT(30), <3>2 DEF RequestBlock
    <3> HIDE DEF rb
    <3>5. /\ Len(ORBs') = Len(ORBs) /\ ORBs' \in Seq(RequestBlock)
          /\ ORBs'[L] = rb
      BY <1>16, <3>1, <3>3, <3>4
    <3> QED BY <2>2, <3>4, <3>5
  <2> QED BY <2>1, <2>2
<1>20. TypeOK'
  <2>1. fork' \in Fork
    BY <1>4, <1>11 DEF ForkInv
  <2>2. firstFilledORENumber' \in Nat
    BY <1>1, <1>7, <1>14 DEF TypeOK, firstFilled
  <2> QED BY <1>1, <1>4, <1>7, <1>9, <1>19, <2>1, <2>2 DEF TypeOK
<1>21. ORBsCover'
  BY <1>1, <1>4, <1>19 DEF ORBsCover
<1>22. RangesExist(fork)'
  <2> SUFFICES ASSUME NEW e \in Epochs
               PROVE  LET q == g.epochs[e]
                      IN /\ q.requestStart <= q.requestEnd
                         /\ q.requestEnd = 0 \/ q.requestEnd < Len(EROs)
                         /\ q.isRequest /\ ~q.isEmpty =>
                              q.firstRequestBlockId + numBlocks(q)
                                <= Len(ORBs)
    BY <1>4, <1>19, Zenon DEF RangesExist, Epochs, numBlocks, divCeil
  <2>1. CASE e # n + 2
    <3>1. SameRequests(g.epochs[e], f.epochs[e])
      BY <1>10, <2>1 DEF AfterNRE
    <3>2. numBlocks(g.epochs[e]) = numBlocks(f.epochs[e])
      BY <3>1, SameNumBlocks
    <3> QED BY <1>2, <3>1, <3>2 DEF RangesExist, SameRequests
  <2>2. CASE e = n + 2 /\ nextIsEmpty(ep)
    <3>1. ep.requestEnd = 0 \/ ep.requestEnd < Len(EROs)
      BY <1>2, <1>7 DEF RangesExist, ep
    <3>2. /\ g.epochs[e].isEmpty
          /\ g.epochs[e].requestStart = ep.requestEnd
          /\ g.epochs[e].requestEnd = ep.requestEnd
      BY ZenonT(30), <1>15, <1>18, <2>2 DEF OpenedAfter, ep
    <3> QED BY <1>13, <3>1, <3>2
  <2>3. CASE e = n + 2 /\ ~nextIsEmpty(ep)
    <3> DEFINE q == g.epochs[e]
    <3>1. /\ q.requestStart = ownedRequests(f, n)
          /\ q.requestEnd = Len(EROs) - 1
          /\ q.firstRequestBlockId = ownedORBs(f, n)
          /\ ~q.isEmpty
      BY <1>15, <1>17, <2>3 DEF OpenedAfter, ep
    <3>2. g \in Fork /\ q \in Epoch /\ q.requestStart \in Nat
          /\ q.firstRequestBlockId \in Nat
      BY <1>11 DEF ForkInv, Fork, Epoch
    <3>3. q.requestEnd - q.requestStart + 1 = Len(EROs) - ownedRequests(f, n)
      BY <1>16, <3>1, <3>2
    <3>4. numBlocks(q) = Len(ORBs) - ownedORBs(f, n)
      BY <1>17, <2>3, <3>1, <3>3 DEF numBlocks
    <3> HIDE DEF q
    <3>5. /\ q.requestStart <= q.requestEnd
          /\ q.requestEnd < Len(EROs)
          /\ q.firstRequestBlockId + numBlocks(q) <= Len(ORBs)
      BY <1>16, <1>17, <2>3, <3>1, <3>2, <3>4
    <3> QED BY <3>5 DEF q
  <2> QED BY <2>1, <2>2, <2>3
<1>23. OpenTail(fork)'
  <2> DEFINE q == g.epochs[n + 2]
             ff == firstFilled(f, n)
             A == ownedRequests(f, n)
             G == ownedORBs(f, n)
             ff2 == IF ff = 0 /\ ~q.isEmpty THEN n + 2 ELSE ff
             A2 == IF ff2 = 0 THEN 0 ELSE q.requestEnd + 1
             G2 == IF ff2 = 0 THEN 0
                   ELSE q.firstRequestBlockId
                          + IF q.isEmpty THEN 1 ELSE numBlocks(q)
             last2 == ORBs'[Len(ORBs)]
  <2>2. LastOpened(fork)' = n + 2
    BY <1>4, <1>11 DEF LastOpened
  <2>4. /\ A = IF ff = 0 THEN 0 ELSE ep.requestEnd + 1
        /\ ff = 0 => G = 0
    BY DEF ownedRequests, ownedORBs, ep
  <2>5. /\ ff = 0 => ep.requestEnd = 0
        /\ A <= Len(EROs)
        /\ Len(EROs) > A =>
             /\ Len(ORBs) > G
             /\ ~ORBs[Len(ORBs)].submitted
             /\ ORBs[Len(ORBs)].requestStart
                  = A + (Len(ORBs) - G - 1) * MAX_REQUESTS
        /\ Len(EROs) = A =>
             /\ Len(ORBs) = G
             /\ Len(ORBs) > 0 => ORBs[Len(ORBs)].submitted
    BY <1>2, <1>12 DEF OpenTail, ep
  <2>6. SUFFICES
          /\ ff2 = 0 => /\ q.isEmpty
                        /\ q.requestEnd = 0
                        /\ q.firstRequestBlockId = 0
          /\ A2 <= Len(EROs)
          /\ Len(EROs) > A2 =>
               /\ Len(ORBs) > G2
               /\ ~last2.submitted
               /\ last2.requestStart
                    = A2 + (Len(ORBs) - G2 - 1) * MAX_REQUESTS
          /\ Len(EROs) = A2 =>
               /\ Len(ORBs) = G2
               /\ Len(ORBs) > 0 => last2.submitted
    <3>1. ff = firstFilledORENumber'
      BY <1>14, Zenon
    <3> QED BY ZenonT(30), <1>4, <1>19, <2>2, <3>1
            DEF OpenTail, ownedRequests, ownedORBs, firstFilled, numBlocks,
                divCeil
  <2>7. q.firstRequestBlockId \in Nat /\ q.requestEnd \in Nat
    BY <1>7, <1>11 DEF ForkInv, Fork, Epoch
  <2> HIDE DEF ff, A, G
  <2>8. CASE nextIsEmpty(ep)
    <3>1. /\ q.isEmpty /\ q.requestEnd = ep.requestEnd
          /\ ff = 0 => q.firstRequestBlockId = 0
          /\ ff # 0 => q.firstRequestBlockId + 1 = G
          /\ ORBs' = ORBs
      BY <1>15, <1>18, <1>19, <2>8 DEF OpenedAfter, ff, G, ep
    <3> HIDE DEF q
    <3>2. A2 = A /\ G2 = G /\ ff2 = ff
      BY <2>4, <3>1
    <3> QED BY <2>5, <3>1, <3>2, Zenon
  <2>9. CASE ~nextIsEmpty(ep)
    <3>1. /\ ~q.isEmpty
          /\ q.requestStart = A
          /\ q.requestEnd = Len(EROs) - 1
          /\ q.firstRequestBlockId = G
      BY <1>15, <1>17, <2>9, Zenon DEF OpenedAfter, A, G, ep
    <3>2. q.requestEnd - q.requestStart + 1 = Len(EROs) - A
      <4>1. A \in Nat
        BY <1>13, <2>4
      <4> QED BY <1>16, <3>1, <4>1
    <3>3. numBlocks(q) = Len(ORBs) - G
      BY <1>17, <2>9, <3>1, <3>2 DEF numBlocks, A, G
    <3> HIDE DEF q
    <3>4. ff2 # 0
      BY <1>7, <3>1
    <3>5. A2 = Len(EROs) /\ G2 = Len(ORBs)
      BY <1>16, <2>7, <3>1, <3>3, <3>4
    <3> QED BY <1>16, <1>19, <2>9, <3>4, <3>5, SMTT(30)
  <2> QED BY <2>8, <2>9, Zenon
<1>24. EpochCursors'
  BY <1>1, <1>4, <1>7, <1>9 DEF EpochCursors
<1>25. ForkInv(fork)'
  BY <1>4, <1>11, Zenon DEF ForkInv, WithinBounds, RequestParity, ChainShape,
                     LastOpened, Fork
<1> QED BY <1>20, <1>21, <1>22, <1>23, <1>24, <1>25 DEF IInv

-----------------------------------------------------------------------------
(* submitORB. *)

(* Where the next request block goes. *)
LEMMA ORBPosition ==
  ASSUME NEW f, ForkInv(f), RangesExist(f), CanInsertBlock(f)
  PROVE  LET n == epochOfNextBlock(f)
             ep == f.epochs[n]
             b == f.lastBlock + 1
         IN /\ n \in Nat /\ ~Odd(n) /\ n >= 2 /\ n + 2 = LastOpened(f)
            /\ n \in {f.lastEpoch, f.lastEpoch + 1}
            /\ n \in Epochs /\ n + 1 \in Epochs
            /\ ep.isRequest /\ ~ep.isEmpty
            /\ ep.startBlockNumber <= b /\ b <= ep.endBlockNumber
            /\ ep.endBlockNumber + 1 = ep.startBlockNumber + numBlocks(ep)
            /\ f.epochs[n + 1].startBlockNumber = 0
<1> DEFINE l == f.lastEpoch
           n == epochOfNextBlock(f)
           ep == f.epochs[n]
           b == f.lastBlock + 1
<1>1. /\ f \in Fork /\ l \in Nat /\ l \in Epochs /\ l + 1 \in Epochs
      /\ f.lastBlock \in Nat /\ LastOpened(f) \in Epochs
  BY EpochIndices DEF ForkInv, Fork
<1>2. /\ f.epochs[l] \in Epoch /\ f.epochs[l].endBlockNumber \in Nat
      /\ f.epochs[l + 1] \in Epoch
      /\ f.epochs[l + 1].startBlockNumber \in Nat
  BY <1>1 DEF Fork, Epoch
<1>3. ep.isRequest /\ ep.startBlockNumber <= b /\ b <= ep.endBlockNumber
  BY DEF CanInsertBlock
<1>4. CASE f.lastBlock = f.epochs[l].endBlockNumber
  <2>1. n = l + 1
    BY <1>4 DEF epochOfNextBlock
  <2>2. Odd(l)
    <3> SUFFICES ASSUME ~Odd(l) PROVE FALSE
      OBVIOUS
    <3>1. Odd(l + 1)
      BY <1>1, Parity
    <3>2. ~f.epochs[l + 1].isRequest
      BY <1>1, <3>1 DEF ForkInv, RequestParity
    <3> QED BY <1>3, <2>1, <3>2
  <2>3. /\ ~Odd(l + 1) /\ l >= 1 /\ LastOpened(f) = l + 3
    BY <1>1, <2>2 DEF Odd, LastOpened
  <2>4. /\ ~ep.isEmpty /\ ep.startBlockNumber = f.lastBlock + 1
        /\ ep.endBlockNumber = f.lastBlock + numBlocks(ep)
    BY <2>1, <2>2, Zenon DEF ForkInv, ChainShape
  <2>5. l + 2 \in Epochs /\ l + 2 > l + 1
    BY <1>1, <2>3, BoundsAssumption DEF Epochs
  <2>6. f.epochs[l + 2].startBlockNumber = 0
    BY <2>5, Zenon DEF ForkInv, ChainShape
  <2>7. numBlocks(ep) \in Nat
    BY <1>1, <1>2, <2>1, NumBlocksPositive DEF RangesExist
  <2>8. ep.endBlockNumber + 1 = ep.startBlockNumber + numBlocks(ep)
    <3> HIDE DEF ep
    <3> QED BY <1>1, <2>4, <2>7
  <2>9. /\ n \in Nat /\ ~Odd(n) /\ n >= 2 /\ n + 2 = LastOpened(f)
        /\ n + 1 = l + 2 /\ n \in Epochs
    BY <1>1, <2>1, <2>3
  <2> QED BY <1>3, <2>1, <2>4, <2>5, <2>6, <2>8, <2>9, Zenon
<1>5. CASE f.lastBlock # f.epochs[l].endBlockNumber
  <2>1. n = l
    BY <1>1, <1>2, <1>5 DEF epochOfNextBlock
  <2>2. ~Odd(l)
    BY <1>5, Zenon DEF ForkInv, ChainShape
  <2>3. /\ l >= 2 /\ ~ep.isEmpty
        /\ ep.endBlockNumber + 1 = ep.startBlockNumber + numBlocks(ep)
        /\ f.epochs[l + 1].startBlockNumber = 0
    BY <1>5, <2>1, <2>2, Zenon DEF ForkInv, ChainShape
  <2>4. l + 2 = LastOpened(f)
    BY <2>2 DEF LastOpened
  <2> QED BY <1>1, <1>3, <2>1, <2>2, <2>3, <2>4, Zenon
<1> QED BY <1>4, <1>5, Zenon

(* The fork after submitORB, whose block goes into epoch n. *)
AfterORB(f, g, n) ==
  LET ep == f.epochs[n]
      b == f.lastBlock + 1
  IN /\ g \in Fork
     /\ g.lastFinalizedEpoch = f.lastFinalizedEpoch
     /\ g.lastEnterEpoch = f.lastEnterEpoch
     /\ g.lastBlock = b
     /\ g.lastEpoch = n
     /\ \A c \in Blocks :
          g.blocks[c].epochNumber \in {f.blocks[c].epochNumber, n}
     /\ \A e \in Epochs :
          /\ SameRequests(g.epochs[e], f.epochs[e])
          /\ e # n + 1 \/ b # ep.endBlockNumber =>
               SameRange(g.epochs[e], f.epochs[e])
          /\ g.epochs[e].nextEpoch = f.epochs[e].nextEpoch
     /\ b = ep.endBlockNumber =>
          /\ g.epochs[n + 1].startBlockNumber = b + 1
          /\ g.epochs[n + 1].endBlockNumber = b + NRELength

LEMMA InsertBlockFacts ==
  ASSUME NEW f, ForkInv(f), RangesExist(f), CanInsertBlock(f),
         f.lastBlock < MaxBlock,
         now \in Nat, NEW failed \in SUBSET Nat
  PROVE  LET g == insertBlock(f, failed)
             n == epochOfNextBlock(f)
             b == f.lastBlock + 1
         IN /\ g \in Fork
            /\ g.epochs = f.epochs
            /\ g.lastFinalizedEpoch = f.lastFinalizedEpoch
            /\ g.lastEnterEpoch = f.lastEnterEpoch
            /\ g.lastBlock = b
            /\ g.lastEpoch = n
            /\ g.blocks[b].requestBlockId = requestBlockIdOfNextBlock(f)
            /\ \A c \in Blocks :
                 g.blocks[c].epochNumber \in {f.blocks[c].epochNumber, n}
<1> DEFINE n == epochOfNextBlock(f)
           b == f.lastBlock + 1
           id == requestBlockIdOfNextBlock(f)
           ep == f.epochs[n]
           pb == [f.blocks[b] EXCEPT !.epochNumber = n,
                                     !.requestBlockId = id,
                                     !.timestamp = now,
                                     !.isRequest = TRUE,
                                     !.failed = failed]
           bs == [f.blocks EXCEPT ![b] = pb]
<1>1. n \in Nat /\ n \in Epochs /\ ep.startBlockNumber <= b
  BY ORBPosition
<1>2. f \in Fork /\ f.lastBlock \in Nat /\ b \in Nat
  BY DEF ForkInv, Fork
<1>3. b \in Blocks
  BY <1>2, BoundsAssumption DEF Blocks
<1>4. ep \in Epoch /\ ep.startBlockNumber \in Nat
      /\ ep.firstRequestBlockId \in Nat
  BY <1>1, <1>2 DEF Fork, Epoch
<1>5. id = ep.firstRequestBlockId + f.lastBlock + 1 - ep.startBlockNumber
  BY DEF requestBlockIdOfNextBlock
<1>6. id \in Nat
  BY <1>1, <1>2, <1>4, <1>5
<1>7. f.blocks[b] \in PlasmaBlock
  BY <1>2, <1>3 DEF Fork
<1>8. insertBlock(f, failed) =
        [f EXCEPT !.blocks = bs, !.lastEpoch = n, !.lastBlock = b]
  BY <1>2 DEF insertBlock, Fork
<1> HIDE DEF n, id
<1>9. /\ pb \in PlasmaBlock /\ pb.epochNumber = n
      /\ pb.requestBlockId = id
  BY ZenonT(30), <1>1, <1>6, <1>7 DEF PlasmaBlock
<1> HIDE DEF pb
<1>10. /\ bs \in [Blocks -> PlasmaBlock]
       /\ bs[b] = pb
       /\ \A c \in Blocks : c # b => bs[c] = f.blocks[c]
  BY <1>2, <1>3, <1>9 DEF Fork
<1> HIDE DEF bs
<1>11. \A c \in Blocks :
         bs[c].epochNumber \in {f.blocks[c].epochNumber, n}
  BY <1>9, <1>10
<1>12. LET g == insertBlock(f, failed)
       IN /\ g \in Fork
          /\ g.epochs = f.epochs
          /\ g.lastFinalizedEpoch = f.lastFinalizedEpoch
          /\ g.lastEnterEpoch = f.lastEnterEpoch
          /\ g.lastBlock = b
          /\ g.lastEpoch = n
          /\ g.blocks = bs
  BY ZenonT(30), <1>1, <1>2, <1>8, <1>10 DEF Fork
<1> QED BY <1>9, <1>10, <1>11, <1>12, Zenon DEF n, id

LEMMA NthOfRun ==
  ASSUME NEW x \in Nat, NEW l \in Nat, NEW a \in Nat, NEW z \in Nat,
         NEW k \in Nat, NEW len \in Nat,
         a <= l + 1, l + 1 <= z, z + 1 = a + k, x + k <= len
  PROVE  /\ x + l + 1 - a \in Nat
         /\ (x + l + 1 - a) + 1 \in 1 .. len
OBVIOUS

(* The ORB that submitORB reads exists. *)
LEMMA NextORBExists ==
  ASSUME ORBs \in Seq(RequestBlock), NEW f, ForkInv(f), RangesExist(f),
         CanInsertBlock(f)
  PROVE  ORB(requestBlockIdOfNextBlock(f)) \in RequestBlock
<1> DEFINE n == epochOfNextBlock(f)
           ep == f.epochs[n]
           b == f.lastBlock + 1
           id == requestBlockIdOfNextBlock(f)
<1>1. /\ n \in Epochs /\ ep.isRequest /\ ~ep.isEmpty
      /\ ep.startBlockNumber <= b /\ b <= ep.endBlockNumber
      /\ ep.endBlockNumber + 1 = ep.startBlockNumber + numBlocks(ep)
  BY ORBPosition, Zenon
<1>2. f \in Fork /\ f.lastBlock \in Nat
  BY DEF ForkInv, Fork
<1>3. /\ ep \in Epoch /\ ep.firstRequestBlockId \in Nat
      /\ ep.startBlockNumber \in Nat /\ ep.endBlockNumber \in Nat
  BY SMTT(60), <1>1, <1>2, Zenon DEF Fork, Epoch
<1>4. ep.firstRequestBlockId + numBlocks(ep) <= Len(ORBs)
  BY <1>1 DEF RangesExist
<1>5. numBlocks(ep) \in Nat
  BY <1>1, <1>3, NumBlocksPositive DEF RangesExist
<1>6. id = ep.firstRequestBlockId + f.lastBlock + 1 - ep.startBlockNumber
  BY DEF requestBlockIdOfNextBlock
<1>7. Len(ORBs) \in Nat
  OBVIOUS
<1> HIDE DEF n, ep, id
<1>8. id + 1 \in 1 .. Len(ORBs)
  BY ZenonT(30), <1>1, <1>2, <1>3, <1>4, <1>5, <1>6, <1>7, NthOfRun
<1> QED BY <1>8 DEF ORB, id

LEMMA SubmitORBFacts ==
  ASSUME ORBs \in Seq(RequestBlock), now \in Nat,
         NEW f, ForkInv(f), RangesExist(f), CanInsertBlock(f),
         f.lastBlock < MaxBlock, NEW failed \in SUBSET Nat
  PROVE  AfterORB(f, afterORB(insertBlock(f, failed)), epochOfNextBlock(f))
<1> DEFINE n == epochOfNextBlock(f)
           ep == f.epochs[n]
           b == f.lastBlock + 1
           id == requestBlockIdOfNextBlock(f)
           h == insertBlock(f, failed)
           ne == ep.numEnter + ORB(id).numEnter
           eq == [ep EXCEPT !.numEnter = ne]
           k == [h EXCEPT !.epochs = [f.epochs EXCEPT ![n] = eq]]
<1>1. /\ n \in Nat /\ ~Odd(n) /\ n >= 2
      /\ n \in Epochs /\ n + 1 \in Epochs
      /\ ep.isRequest /\ ~ep.isEmpty
      /\ ep.startBlockNumber <= b /\ b <= ep.endBlockNumber
      /\ ep.endBlockNumber + 1 = ep.startBlockNumber + numBlocks(ep)
  BY ORBPosition, Zenon
<1>2. f \in Fork /\ f.lastBlock \in Nat /\ b \in Nat
  BY DEF ForkInv, Fork
<1>3. /\ ep \in Epoch /\ ep.firstRequestBlockId \in Nat
      /\ ep.startBlockNumber \in Nat /\ ep.endBlockNumber \in Nat
      /\ ep.numEnter \in Nat
  BY ZenonT(30), <1>1, <1>2 DEF Fork, Epoch
<1>4. /\ h \in Fork
      /\ h.epochs = f.epochs
      /\ h.lastFinalizedEpoch = f.lastFinalizedEpoch
      /\ h.lastEnterEpoch = f.lastEnterEpoch
      /\ h.lastBlock = b
      /\ h.lastEpoch = n
      /\ h.blocks[b].requestBlockId = id
      /\ \A c \in Blocks :
           h.blocks[c].epochNumber \in {f.blocks[c].epochNumber, n}
  BY ZenonT(30), InsertBlockFacts
<1>5. ORB(id) \in RequestBlock
  BY NextORBExists
<1> HIDE DEF n, ep, id, h
<1>10. ne \in Nat
  BY <1>3, <1>5 DEF RequestBlock
<1> HIDE DEF ne
<1>11. /\ eq \in Epoch /\ SameRequests(eq, ep) /\ SameRange(eq, ep)
       /\ eq.nextEpoch = ep.nextEpoch
  BY SMTT(60), <1>3, <1>10, Zenon DEF Epoch, SameRequests, SameRange
<1>12. afterORB(h) =
         IF b = ep.endBlockNumber THEN prepareNRE(k) ELSE k
  <2>1. [h EXCEPT !.epochs[n].numEnter = @ + ORB(id).numEnter] = k
    BY <1>1, <1>2, <1>3, <1>4 DEF Fork, ep, ne
  <2> HIDE DEF k
  <2> QED BY <1>4, <2>1 DEF afterORB, ep
<1> DEFINE es == [f.epochs EXCEPT ![n] = eq]
<1> HIDE DEF eq
<1>13. /\ es \in [Epochs -> Epoch]
       /\ es[n] = eq
       /\ \A e \in Epochs : e # n => es[e] = f.epochs[e]
  BY <1>1, <1>2, <1>11 DEF Fork
<1> HIDE DEF es
<1>14. /\ k \in Fork
       /\ k.epochs = es
       /\ k.blocks = h.blocks
       /\ k.lastFinalizedEpoch = f.lastFinalizedEpoch
       /\ k.lastEnterEpoch = f.lastEnterEpoch
       /\ k.lastBlock = b
       /\ k.lastEpoch = n
  <2>1. k = [h EXCEPT !.epochs = es]
    BY DEF es
  <2> HIDE DEF k
  <2> QED BY SMTT(60), <1>4, <1>13, <2>1 DEF Fork
<1> HIDE DEF k
<1>15. \A e \in Epochs : /\ SameRequests(k.epochs[e], f.epochs[e])
                         /\ SameRange(k.epochs[e], f.epochs[e])
                         /\ k.epochs[e].nextEpoch = f.epochs[e].nextEpoch
  <2> TAKE e \in Epochs
  <2>1. CASE e = n
    BY <1>11, <1>13, <1>14, <2>1 DEF ep
  <2>2. CASE e # n
    BY <1>13, <1>14, <2>2 DEF SameRequests, SameRange
  <2> QED BY <2>1, <2>2
<1>16. CASE b # ep.endBlockNumber
  <2>1. AfterORB(f, k, n)
    BY <1>4, <1>14, <1>15, <1>16 DEF AfterORB, ep
  <2> QED BY <1>12, <1>16, <2>1 DEF n, h
<1>17. CASE b = ep.endBlockNumber
  <2> DEFINE g == prepareNRE(k)
  <2>p. /\ g \in Fork
        /\ SameCursors(k, g)
        /\ g.lastEpoch = k.lastEpoch
        /\ g.lastEnterEpoch = k.lastEnterEpoch
        /\ \A e \in Epochs : e # k.lastEpoch + 1 =>
                              g.epochs[e] = k.epochs[e]
        /\ SameRequests(g.epochs[k.lastEpoch + 1], k.epochs[k.lastEpoch + 1])
        /\ g.epochs[k.lastEpoch + 1].nextEpoch
             = k.epochs[k.lastEpoch + 1].nextEpoch
        /\ g.epochs[k.lastEpoch + 1].startBlockNumber =
             IF k.lastEpoch + 1 = 1 THEN 1
             ELSE k.epochs[k.lastEpoch + 1 - 1].endBlockNumber + 1
        /\ g.epochs[k.lastEpoch + 1].endBlockNumber =
             g.epochs[k.lastEpoch + 1].startBlockNumber + NRELength - 1
    BY <1>1, <1>14, PrepareNREFacts
  <2> HIDE DEF g
  <2>1. n + 1 # 1 /\ n + 1 - 1 = n
    BY <1>1
  <2>2. k.epochs[n].endBlockNumber = b
    BY <1>1, <1>15, <1>17 DEF SameRange, ep
  <2>3. /\ g.epochs[n + 1].startBlockNumber = b + 1
        /\ g.epochs[n + 1].endBlockNumber = b + 1 + NRELength - 1
    BY <1>14, <2>p, <2>1, <2>2
  <2>4. b + 1 + NRELength - 1 = b + NRELength
    BY <1>2, ParamsAssumption
  <2>5. \A e \in Epochs :
          /\ SameRequests(g.epochs[e], f.epochs[e])
          /\ e # n + 1 => SameRange(g.epochs[e], f.epochs[e])
          /\ g.epochs[e].nextEpoch = f.epochs[e].nextEpoch
    <3> TAKE e \in Epochs
    <3>1. CASE e = n + 1
      BY <1>14, <1>15, <2>p, <3>1 DEF SameRequests
    <3>2. CASE e # n + 1
      BY <1>14, <1>15, <2>p, <3>2
    <3> QED BY <3>1, <3>2
  <2>6. /\ g.blocks = h.blocks
        /\ g.lastFinalizedEpoch = f.lastFinalizedEpoch
        /\ g.lastEnterEpoch = f.lastEnterEpoch
        /\ g.lastBlock = b
        /\ g.lastEpoch = n
    BY <1>14, <2>p DEF SameCursors
  <2>7. AfterORB(f, g, n)
    BY ZenonT(30), <1>4, <1>17, <2>p, <2>3, <2>4, <2>5, <2>6 DEF AfterORB, ep
  <2> QED BY <1>12, <1>17, <2>7 DEF n, h, g
<1> QED BY <1>16, <1>17

LEMMA AfterORBForkInv ==
  ASSUME NEW f, NEW g, ForkInv(f), RangesExist(f), CanInsertBlock(f),
         f.lastBlock < MaxBlock, AfterORB(f, g, epochOfNextBlock(f))
  PROVE  ForkInv(g) /\ LastOpened(g) = LastOpened(f)
<1> DEFINE n == epochOfNextBlock(f)
           ep == f.epochs[n]
           b == f.lastBlock + 1
<1>1. /\ n \in Nat /\ ~Odd(n) /\ n >= 2 /\ n + 2 = LastOpened(f)
      /\ n \in {f.lastEpoch, f.lastEpoch + 1}
      /\ n \in Epochs /\ n + 1 \in Epochs
      /\ ep.isRequest /\ ~ep.isEmpty
      /\ ep.startBlockNumber <= b /\ b <= ep.endBlockNumber
      /\ ep.endBlockNumber + 1 = ep.startBlockNumber + numBlocks(ep)
      /\ f.epochs[n + 1].startBlockNumber = 0
  BY ORBPosition
<1>2. AfterORB(f, g, n)
  OBVIOUS
<1>3. f \in Fork /\ f.lastEpoch \in Nat /\ f.lastBlock \in Nat /\ b \in Nat
  BY DEF ForkInv, Fork
<1>4. b <= MaxBlock
  BY <1>3, BoundsAssumption
<1> HIDE DEF n, ep
<1>5. /\ g \in Fork
      /\ g.lastFinalizedEpoch = f.lastFinalizedEpoch
      /\ g.lastEnterEpoch = f.lastEnterEpoch
      /\ g.lastBlock = b
      /\ g.lastEpoch = n
  BY <1>2 DEF AfterORB
<1>6. LastOpened(g) = LastOpened(f)
  BY <1>1, <1>5 DEF LastOpened
<1>7. \A e \in Epochs :
          /\ SameRequests(g.epochs[e], f.epochs[e])
          /\ e # n + 1 \/ b # ep.endBlockNumber =>
               SameRange(g.epochs[e], f.epochs[e])
          /\ g.epochs[e].nextEpoch = f.epochs[e].nextEpoch
  BY <1>2 DEF AfterORB, ep
<1>8. f.lastEpoch <= n
  BY <1>1, <1>3
<1>9. WithinBounds(g)
  <2>1. g.lastFinalizedEpoch <= g.lastEpoch
    <3>1. f.lastFinalizedEpoch <= f.lastEpoch /\ f.lastFinalizedEpoch \in Nat
      BY <1>3 DEF ForkInv, WithinBounds, Fork
    <3> QED BY <1>1, <1>3, <1>5, <1>8, <3>1
  <2>2. \A c \in Blocks : g.blocks[c].epochNumber <= g.lastEpoch
    <3> TAKE c \in Blocks
    <3>1. f.blocks[c].epochNumber <= f.lastEpoch
      BY DEF ForkInv, WithinBounds
    <3>2. f.blocks[c].epochNumber \in Nat
      BY <1>3 DEF Fork, PlasmaBlock
    <3>3. g.blocks[c].epochNumber \in {f.blocks[c].epochNumber, n}
      BY <1>2 DEF AfterORB
    <3> QED BY <1>1, <1>3, <1>5, <1>8, <3>1, <3>2, <3>3
  <2> QED BY <1>4, <1>5, <1>6, <1>7, <2>1, <2>2 DEF ForkInv, WithinBounds
<1>10. RequestParity(g)
  BY <1>6, <1>7 DEF ForkInv, RequestParity, SameRequests
<1>11. ChainShape(g)
  <2>1. \A e \in Epochs : e > n + 1 => g.epochs[e].startBlockNumber = 0
    <3> SUFFICES ASSUME NEW e \in Epochs, e > n + 1
                 PROVE  g.epochs[e].startBlockNumber = 0
      OBVIOUS
    <3>1. e > f.lastEpoch + 1 /\ e # n + 1
      BY <1>1, <1>3, <1>8 DEF Epochs
    <3>2. f.epochs[e].startBlockNumber = 0
      BY <3>1 DEF ForkInv, ChainShape
    <3> QED BY <1>7, <3>1, <3>2 DEF SameRange
  <2>2. /\ numBlocks(g.epochs[n]) = numBlocks(ep)
        /\ ~g.epochs[n].isEmpty
        /\ g.epochs[n].startBlockNumber = ep.startBlockNumber
        /\ g.epochs[n].endBlockNumber = ep.endBlockNumber
    BY <1>1, <1>7, SameNumBlocks DEF SameRequests, SameRange, ep
  <2>3. CASE b = ep.endBlockNumber
    <3>1. /\ g.epochs[n + 1].startBlockNumber = b + 1
          /\ g.epochs[n + 1].endBlockNumber = b + NRELength
      BY <1>2, <2>3 DEF AfterORB, ep
    <3> QED BY <1>1, <1>5, <2>1, <2>2, <2>3, <3>1 DEF ChainShape
  <2>4. CASE b # ep.endBlockNumber
    <3>1. g.epochs[n + 1].startBlockNumber = 0
      BY <1>1, <1>7, <2>4 DEF SameRange
    <3>2. ep.endBlockNumber \in Nat
      BY <1>1, <1>3 DEF Fork, Epoch, ep
    <3>3. b < ep.endBlockNumber
      BY <1>1, <1>3, <2>4, <3>2
    <3> QED BY <1>1, <1>5, <2>1, <2>2, <2>4, <3>1, <3>3 DEF ChainShape
  <2> QED BY <2>3, <2>4
<1> QED BY <1>5, <1>6, <1>9, <1>10, <1>11 DEF ForkInv

LEMMA SameRequestsKeep ==
  ASSUME NEW f, NEW g, ForkInv(f), RangesExist(f), OpenTail(f),
         LastOpened(g) = LastOpened(f),
         \A e \in Epochs : SameRequests(g.epochs[e], f.epochs[e])
  PROVE  RangesExist(g) /\ OpenTail(g)
<1>1. LastOpened(f) \in Epochs
  BY EpochIndices DEF ForkInv
<1>2. \A e \in Epochs : numBlocks(g.epochs[e]) = numBlocks(f.epochs[e])
  BY SameNumBlocks
<1>3. RangesExist(g)
  BY <1>2 DEF RangesExist, SameRequests
<1>4. OpenTail(g)
  BY ZenonT(30), <1>1, <1>2 DEF OpenTail, ownedRequests, ownedORBs, firstFilled,
                    SameRequests
<1> QED BY <1>3, <1>4

(* A step that only replaces the fork by one with the same requests. *)
LEMMA ForkStepInv ==
  ASSUME IInv, ForkInv(fork'), RangesExist(fork'), OpenTail(fork'),
         UNCHANGED <<EROs, ORBs, numEnterForORB, firstFilledORENumber,
                     firstNonEmptyRequestEpoch, lastNonEmptyRequestEpoch,
                     EROIdToFinalize, lastAppliedEpochNumber,
                     lastAppliedBlockNumber, now>>
  PROVE  IInv'
<1>1. TypeOK'
  BY DEF IInv, TypeOK, ForkInv
<1>2. ForkInv(fork)'
  BY DEF ForkInv, WithinBounds, RequestParity, ChainShape, LastOpened, Fork
<1>3. RangesExist(fork)'
  BY DEF RangesExist, numBlocks, divCeil
<1>4. ORBsCover'
  BY DEF IInv, ORBsCover
<1>5. OpenTail(fork)'
  BY ZenonT(30) DEF OpenTail, ownedRequests, ownedORBs, firstFilled, numBlocks, divCeil,
         LastOpened
<1>6. EpochCursors'
  BY DEF IInv, EpochCursors
<1> QED BY <1>1, <1>2, <1>3, <1>4, <1>5, <1>6 DEF IInv

LEMMA SubmitORBInv ==
  ASSUME IInv, submitORB
  PROVE  IInv'
<1> DEFINE f == finalizeBlocks(fork)
           rb == ORB(requestBlockIdOfNextBlock(f))
<1>1. TypeOK /\ ForkInv(fork) /\ RangesExist(fork) /\ OpenTail(fork)
  BY DEF IInv
<1>2. ForkInv(f) /\ RangesExist(f) /\ OpenTail(f)
  <2>1. FinalizedOnly(fork, f)
    BY <1>1, FinalizeBlocksFacts DEF TypeOK, ForkInv
  <2> HIDE DEF f
  <2> QED BY <1>1, <2>1, FinalizedOnlyKeeps
<1>3. CanInsertBlock(f) /\ f.lastBlock < MaxBlock
  BY DEF submitORB, CanSubmitORB
<1>4. PICK failed \in SUBSET (rb.requestStart .. rb.requestEnd) :
        fork' = afterORB(insertBlock(f, failed))
  BY DEF submitORB
<1>5. rb \in RequestBlock
  <2> HIDE DEF f
  <2> QED BY <1>1, <1>2, <1>3, NextORBExists DEF TypeOK
<1>6. failed \in SUBSET Nat
  BY <1>4, <1>5 DEF RequestBlock
<1> HIDE DEF f, rb
<1>7. AfterORB(f, fork', epochOfNextBlock(f))
  BY <1>1, <1>2, <1>3, <1>4, <1>6, SubmitORBFacts DEF TypeOK
<1>8. ForkInv(fork') /\ LastOpened(fork') = LastOpened(f)
  BY <1>2, <1>3, <1>7, AfterORBForkInv
<1>9. \A e \in Epochs : SameRequests(fork'.epochs[e], f.epochs[e])
  BY <1>7 DEF AfterORB
<1>10. RangesExist(fork') /\ OpenTail(fork')
  BY <1>2, <1>8, <1>9, SameRequestsKeep
<1>11. UNCHANGED <<EROs, ORBs, numEnterForORB, firstFilledORENumber,
                   firstNonEmptyRequestEpoch, lastNonEmptyRequestEpoch,
                   EROIdToFinalize, lastAppliedEpochNumber,
                   lastAppliedBlockNumber, now>>
  BY DEF submitORB, requestVars, epochVars, cursorVars
<1> QED BY <1>8, <1>10, <1>11, ForkStepInv

LEMMA FinalizeBlockInv ==
  ASSUME IInv, finalizeBlockExternal
  PROVE  IInv'
<1>1. TypeOK /\ ForkInv(fork) /\ RangesExist(fork) /\ OpenTail(fork)
  BY DEF IInv
<1>2. fork' = finalizeBlock(fork)
  BY DEF finalizeBlockExternal
<1>3. FinalizedOnly(fork, fork')
  BY <1>1, <1>2, FinalizeBlockFacts DEF TypeOK, ForkInv
<1>4. ForkInv(fork') /\ RangesExist(fork') /\ OpenTail(fork')
  BY <1>1, <1>3, FinalizedOnlyKeeps
<1>5. UNCHANGED <<EROs, ORBs, numEnterForORB, firstFilledORENumber,
                  firstNonEmptyRequestEpoch, lastNonEmptyRequestEpoch,
                  EROIdToFinalize, lastAppliedEpochNumber,
                  lastAppliedBlockNumber, now>>
  BY DEF finalizeBlockExternal, requestVars, epochVars, cursorVars
<1> QED BY <1>4, <1>5, ForkStepInv

-----------------------------------------------------------------------------
(* startEnter and startExit. *)

(* The last ORB of rbs after _storeRequest has put request id into it. *)
LEMMA IntoLastORB ==
  ASSUME NEW rbs \in Seq(RequestBlock), Len(rbs) >= 1, NEW id \in Nat,
         NEW isExit \in BOOLEAN
  PROVE  LET new == addToLastORB(rbs, id, isExit)
             last == new[Len(rbs)]
         IN /\ new \in Seq(RequestBlock)
            /\ Len(new) = Len(rbs)
            /\ last.requestEnd = id
            /\ last.submitted = rbs[Len(rbs)].submitted
            /\ last.requestStart = rbs[Len(rbs)].requestStart
<1> DEFINE L == Len(rbs)
           ne == IF isExit THEN rbs[L].numEnter ELSE rbs[L].numEnter + 1
           rb == [rbs[L] EXCEPT !.requestEnd = id, !.numEnter = ne]
           new == addToLastORB(rbs, id, isExit)
<1>1. L \in Nat /\ L \in 1 .. Len(rbs)
  OBVIOUS
<1>2. rbs[L] \in RequestBlock
  BY <1>1
<1>3. ne \in Nat
  BY <1>2 DEF RequestBlock
<1>4. new = [rbs EXCEPT ![L] = rb]
  BY ZenonT(30), <1>1, <1>2 DEF RequestBlock, addToLastORB
<1> HIDE DEF ne, new
<1>5. /\ rb \in RequestBlock
      /\ rb.requestEnd = id
      /\ rb.submitted = rbs[L].submitted
      /\ rb.requestStart = rbs[L].requestStart
  BY ZenonT(30), <1>2, <1>3 DEF RequestBlock
<1> HIDE DEF rb
<1>6. new \in Seq(RequestBlock) /\ Len(new) = L /\ new[L] = rb
  BY <1>1, <1>4, <1>5
<1> QED BY <1>5, <1>6 DEF new

LEMMA PackRequestFacts ==
  ASSUME ORBs \in Seq(RequestBlock), EROs \in Seq(Request),
         NEW isExit \in BOOLEAN
  PROVE  LET new == packRequest(isExit)
             last == new[Len(new)]
             L == Len(ORBs)
         IN /\ new \in Seq(RequestBlock)
            /\ Len(new) > 0
            /\ last.requestEnd = Len(EROs)
            /\ ~last.submitted
            /\ \/ /\ L = 0
                  /\ Len(new) = 1
                  /\ last.requestStart = 0
               \/ /\ L > 0 /\ orbIsClosed(ORBs[L])
                  /\ Len(new) = L + 1
                  /\ last.requestStart = Len(EROs)
               \/ /\ L > 0 /\ ~orbIsClosed(ORBs[L])
                  /\ Len(new) = L
                  /\ last.requestStart = ORBs[L].requestStart
<1> DEFINE L == Len(ORBs)
           id == Len(EROs)
           rbs == IF ORBs = <<>> THEN <<ZeroORB>> ELSE ORBs
           M == Len(rbs)
           fresh == [ZeroORB EXCEPT !.requestStart = id]
           seal == [rbs EXCEPT ![M].submitted = TRUE]
           base == IF orbIsClosed(rbs[M]) THEN Append(seal, fresh) ELSE rbs
<1>1. L \in Nat /\ id \in Nat
  OBVIOUS
<1>2. /\ ZeroORB \in RequestBlock /\ ~ZeroORB.submitted
      /\ ZeroORB.requestStart = 0 /\ ~orbIsClosed(ZeroORB)
  BY ParamsAssumption DEF ZeroORB, RequestBlock, orbIsClosed, orbIsFull
<1>3. /\ fresh \in RequestBlock /\ ~fresh.submitted
      /\ fresh.requestStart = id
  BY ZenonT(30), <1>1 DEF ZeroORB, RequestBlock
<1>4. packRequest(isExit) =
        addToLastORB(base, id, isExit)
  BY DEF packRequest
<1>5. /\ base \in Seq(RequestBlock)
      /\ Len(base) >= 1
      /\ ~base[Len(base)].submitted
      /\ \/ /\ L = 0
            /\ Len(base) = 1
            /\ base[Len(base)].requestStart = 0
         \/ /\ L > 0 /\ orbIsClosed(ORBs[L])
            /\ Len(base) = L + 1
            /\ base[Len(base)].requestStart = id
         \/ /\ L > 0 /\ ~orbIsClosed(ORBs[L])
            /\ Len(base) = L
            /\ base[Len(base)].requestStart = ORBs[L].requestStart
  <2> HIDE DEF fresh
  <2>1. CASE ORBs = <<>>
    <3>1. rbs = <<ZeroORB>> /\ M = 1 /\ rbs[M] = ZeroORB /\ L = 0
      BY <2>1
    <3>2. base = <<ZeroORB>>
      BY <1>2, <3>1
    <3> QED BY <1>2, <3>1, <3>2
  <2>2. CASE ORBs # <<>> /\ ~orbIsClosed(ORBs[L])
    <3>1. rbs = ORBs /\ M = L /\ L > 0
      BY <1>1, <2>2
    <3>2. base = ORBs
      BY <2>2, <3>1
    <3>3. ~ORBs[L].submitted
      BY <2>2 DEF orbIsClosed
    <3>4. L > 0
      BY <3>1
    <3> HIDE DEF base, rbs, L
    <3> QED BY <1>1, <2>2, <3>2, <3>3, <3>4 DEF L
  <2>3. CASE ORBs # <<>> /\ orbIsClosed(ORBs[L])
    <3>1. rbs = ORBs /\ M = L /\ L > 0 /\ L \in 1 .. Len(ORBs)
      BY <1>1, <2>3
    <3> DEFINE rb == [ORBs[L] EXCEPT !.submitted = TRUE]
    <3>2. ORBs[L] \in RequestBlock
      BY <3>1
    <3>3. rb \in RequestBlock
      BY ZenonT(30), <3>2 DEF RequestBlock
    <3>4. seal = [ORBs EXCEPT ![L] = rb]
      BY ZenonT(30), <3>1
    <3> HIDE DEF rb, seal
    <3>5. seal \in Seq(RequestBlock) /\ Len(seal) = L
      BY <3>1, <3>3, <3>4
    <3>6. base = Append(seal, fresh)
      BY ZenonT(30), <2>3, <3>1 DEF seal
    <3> HIDE DEF base
    <3>7. /\ base \in Seq(RequestBlock) /\ Len(base) = L + 1
          /\ base[L + 1] = fresh
      BY <1>1, <1>3, <3>5, <3>6
    <3> QED BY <1>1, <1>3, <2>3, <3>1, <3>7
  <2> QED BY ZenonT(30), <2>1, <2>2, <2>3
<1> HIDE DEF base
<1> DEFINE new == addToLastORB(base, id, isExit)
<1>6. /\ new \in Seq(RequestBlock)
      /\ Len(new) = Len(base)
      /\ new[Len(base)].requestEnd = id
      /\ new[Len(base)].submitted = base[Len(base)].submitted
      /\ new[Len(base)].requestStart = base[Len(base)].requestStart
  BY ZenonT(30), <1>1, <1>5, IntoLastORB
<1> HIDE DEF new
<1>7. Len(base) \in Nat
  BY <1>5
<1>8. packRequest(isExit) = new
  BY <1>4 DEF new
<1> DEFINE last == new[Len(new)]
<1>9. /\ Len(new) > 0
      /\ last.requestEnd = id
      /\ ~last.submitted
      /\ last.requestStart = base[Len(base)].requestStart
  BY <1>5, <1>6, <1>7
<1> HIDE DEF last, L
<1>10. \/ /\ L = 0
          /\ Len(new) = 1
          /\ last.requestStart = 0
       \/ /\ L > 0 /\ orbIsClosed(ORBs[L])
          /\ Len(new) = L + 1
          /\ last.requestStart = id
       \/ /\ L > 0 /\ ~orbIsClosed(ORBs[L])
          /\ Len(new) = L
          /\ last.requestStart = ORBs[L].requestStart
  BY <1>5, <1>6, <1>9
<1> QED BY ZenonT(30), <1>6, <1>8, <1>9, <1>10 DEF last, L

LEMMA StoreRequestInv ==
  ASSUME IInv, NEW isExit \in BOOLEAN, storeRequest(isExit),
         numEnterForORB' \in Nat
  PROVE  IInv'
<1> DEFINE L == Len(ORBs)
           N == Len(EROs)
           last == ORBs'[Len(ORBs')]
<1>1. /\ TypeOK /\ ForkInv(fork) /\ RangesExist(fork) /\ ORBsCover
      /\ OpenTail(fork) /\ EpochCursors
  BY DEF IInv
<1>2. /\ ORBs' = packRequest(isExit)
      /\ EROs' = Append(EROs, newRequest(isExit))
      /\ UNCHANGED <<fork, firstFilledORENumber, firstNonEmptyRequestEpoch,
                     lastNonEmptyRequestEpoch, EROIdToFinalize,
                     lastAppliedEpochNumber, lastAppliedBlockNumber, now>>
  BY DEF storeRequest, epochVars, cursorVars
<1>3. /\ ORBs \in Seq(RequestBlock) /\ EROs \in Seq(Request)
      /\ L \in Nat /\ N \in Nat
  BY <1>1 DEF TypeOK
<1>4. newRequest(isExit) \in Request
  BY DEF newRequest, Request
<1>5. EROs' \in Seq(Request) /\ Len(EROs') = N + 1
  BY <1>2, <1>3, <1>4
<1>6. /\ ORBs' \in Seq(RequestBlock)
      /\ Len(ORBs') > 0
      /\ last.requestEnd = N
      /\ ~last.submitted
      /\ \/ L = 0 /\ Len(ORBs') = 1 /\ last.requestStart = 0
         \/ /\ L > 0 /\ orbIsClosed(ORBs[L])
            /\ Len(ORBs') = L + 1 /\ last.requestStart = N
         \/ /\ L > 0 /\ ~orbIsClosed(ORBs[L])
            /\ Len(ORBs') = L /\ last.requestStart = ORBs[L].requestStart
  BY <1>2, <1>3, PackRequestFacts
<1>7. L > 0 => /\ ORBs[L].requestEnd = N - 1
               /\ ORBs[L].requestStart <= N - 1
               /\ N - 1 < ORBs[L].requestStart + MAX_REQUESTS
               /\ ORBs[L].requestStart \in Nat
  <2>1. L > 0 => ORBs[L] \in RequestBlock
    BY <1>3
  <2> QED BY <1>1, <2>1 DEF ORBsCover, RequestBlock
<1>8. L = 0 <=> N = 0
  BY <1>1 DEF ORBsCover
<1>9. MAX_REQUESTS \in Nat /\ MAX_REQUESTS >= 2
  BY ParamsAssumption
<1> HIDE DEF L, N, last
<1>10. TypeOK'
  BY <1>1, <1>2, <1>5, <1>6 DEF TypeOK
<1>11. Len(ORBs') \in Nat /\ Len(ORBs') >= L
  BY <1>3, <1>6
<1>12. ForkInv(fork)'
  BY ZenonT(30), <1>1, <1>2 DEF ForkInv, WithinBounds, RequestParity, ChainShape,
                    LastOpened, Fork, numBlocks, divCeil
<1>13. RangesExist(fork)'
  <2> SUFFICES ASSUME NEW e \in Epochs
               PROVE  LET q == fork.epochs[e]
                      IN /\ q.requestStart <= q.requestEnd
                         /\ q.requestEnd = 0 \/ q.requestEnd < N + 1
                         /\ q.isRequest /\ ~q.isEmpty =>
                              q.firstRequestBlockId + numBlocks(q)
                                <= Len(ORBs')
    BY <1>2, <1>5 DEF RangesExist, Epochs, numBlocks, divCeil
  <2> DEFINE q == fork.epochs[e]
  <2>1. /\ q.requestStart <= q.requestEnd
        /\ q.requestEnd = 0 \/ q.requestEnd < N
        /\ q.isRequest /\ ~q.isEmpty =>
             q.firstRequestBlockId + numBlocks(q) <= L
    BY <1>1 DEF RangesExist, L, N
  <2>2. /\ q \in Epoch /\ q.requestEnd \in Nat
        /\ q.firstRequestBlockId \in Nat
    BY SMTT(60), <1>1 DEF TypeOK, Fork, Epoch
  <2>3. numBlocks(q) \in Nat
    BY <2>1, <2>2, NumBlocksPositive
  <2> HIDE DEF q
  <2>4. /\ q.requestEnd = 0 \/ q.requestEnd < N + 1
        /\ q.isRequest /\ ~q.isEmpty =>
             q.firstRequestBlockId + numBlocks(q) <= Len(ORBs')
    BY <1>3, <1>11, <2>1, <2>2, <2>3
  <2> QED BY <2>1, <2>4 DEF q
<1>14. /\ last.requestStart <= N
       /\ N < last.requestStart + MAX_REQUESTS
  <2>1. CASE L = 0
    BY <1>3, <1>6, <1>8, <1>9, <2>1
  <2>2. CASE L > 0 /\ orbIsClosed(ORBs[L])
    BY <1>3, <1>6, <1>9, <2>2
  <2>3. CASE L > 0 /\ ~orbIsClosed(ORBs[L])
    <3>1. ORBs[L].requestEnd - ORBs[L].requestStart + 1 # MAX_REQUESTS
      BY <2>3 DEF orbIsClosed, orbIsFull
    <3>2. last.requestStart = ORBs[L].requestStart
      BY <1>3, <1>6, <2>3
    <3> QED BY SMTT(60), <1>3, <1>7, <1>9, <2>3, <3>1, <3>2
  <2> QED BY <1>3, <2>1, <2>2, <2>3
<1>15. ORBsCover'
  <2>1. Len(ORBs') # 0 /\ Len(EROs') # 0 /\ Len(EROs') - 1 = N
    BY <1>3, <1>5, <1>6
  <2> QED BY <1>6, <1>14, <2>1 DEF ORBsCover, last
<1>16. OpenTail(fork)'
  <2> DEFINE n == LastOpened(fork)
             A == ownedRequests(fork, n)
             G == ownedORBs(fork, n)
  <2>1. /\ LastOpened(fork)' = n
        /\ firstFilled(fork, LastOpened(fork))' = firstFilled(fork, n)
        /\ ownedRequests(fork, LastOpened(fork))' = A
        /\ ownedORBs(fork, LastOpened(fork))' = G
    BY ZenonT(30), <1>2 DEF LastOpened, ownedRequests, ownedORBs, firstFilled, numBlocks,
                divCeil
  <2>2. /\ firstFilled(fork, n) = 0 => /\ fork.epochs[n].isEmpty
                                       /\ fork.epochs[n].requestEnd = 0
                                       /\ fork.epochs[n].firstRequestBlockId
                                            = 0
        /\ A <= N
        /\ N > A => /\ L > G
                    /\ ~ORBs[L].submitted
                    /\ ORBs[L].requestStart = A + (L - G - 1) * MAX_REQUESTS
        /\ N = A => L = G /\ (L > 0 => ORBs[L].submitted)
    BY <1>1 DEF OpenTail, L, N
  <2>3. A \in Nat /\ G \in Nat
    <3>1. n \in Epochs /\ fork \in Fork
      BY <1>1, EpochIndices DEF ForkInv
    <3>2. /\ fork.epochs[n] \in Epoch /\ fork.epochs[n].requestEnd \in Nat
          /\ fork.epochs[n].firstRequestBlockId \in Nat
      BY <3>1 DEF Fork, Epoch
    <3>3. numBlocks(fork.epochs[n]) \in Nat
      BY <1>1, <3>1, <3>2, NumBlocksPositive DEF RangesExist
    <3> QED BY <3>2, <3>3 DEF ownedRequests, ownedORBs
  <2> HIDE DEF A, G, n
  <2>4. /\ Len(ORBs') > G
        /\ last.requestStart = A + (Len(ORBs') - G - 1) * MAX_REQUESTS
    <3>1. CASE L = 0
      <4>1. A = 0 /\ G = 0
        BY <1>8, <2>2, <2>3, <3>1
      <4>2. Len(ORBs') = 1 /\ last.requestStart = 0
        BY <1>3, <1>6, <3>1
      <4>3. Len(ORBs') - G - 1 = 0 /\ Len(ORBs') > G
        BY <4>1, <4>2
      <4>4. 0 = 0 + 0 * MAX_REQUESTS
        BY <1>9
      <4> QED BY <4>1, <4>2, <4>3, <4>4
    <3>2. CASE L > 0 /\ ORBs[L].submitted
      <4>1. N = A /\ L = G
        BY <1>3, <2>2, <2>3, <3>2
      <4>2. Len(ORBs') = L + 1 /\ last.requestStart = N
        BY <1>3, <1>6, <3>2 DEF orbIsClosed
      <4>3. Len(ORBs') - G - 1 = 0 /\ Len(ORBs') > G
        BY <1>3, <4>1, <4>2
      <4>4. N = N + 0 * MAX_REQUESTS
        BY <1>3, <1>9
      <4> QED BY <4>1, <4>2, <4>3, <4>4
    <3>3. CASE L > 0 /\ ~ORBs[L].submitted /\ orbIsFull(ORBs[L])
      <4>1. L > G /\ ORBs[L].requestStart = A + (L - G - 1) * MAX_REQUESTS
        BY <1>3, <2>2, <2>3, <3>3
      <4>2. Len(ORBs') = L + 1 /\ last.requestStart = N
        BY <1>3, <1>6, <3>3 DEF orbIsClosed
      <4>3. N = ORBs[L].requestStart + MAX_REQUESTS
        BY SMTT(60), <1>3, <1>7, <1>9, <3>3 DEF orbIsFull
      <4> DEFINE t == L - G - 1
      <4>4. t \in Int /\ L + 1 - G - 1 = t + 1
        BY <1>3, <2>3
      <4>5. (t + 1) * MAX_REQUESTS = t * MAX_REQUESTS + MAX_REQUESTS
            /\ t * MAX_REQUESTS \in Int
        BY <1>9, <4>4, TimesSuccessor
      <4> DEFINE p == t * MAX_REQUESTS
      <4>6. N = A + (p + MAX_REQUESTS)
        <5>1. p \in Int /\ ORBs[L].requestStart = A + p
          BY <4>1, <4>5
        <5> HIDE DEF p
        <5> QED BY <1>9, <2>3, <4>3, <5>1
      <4> HIDE DEF t
      <4> QED BY <1>3, <2>3, <4>1, <4>2, <4>4, <4>5, <4>6
    <3>4. CASE L > 0 /\ ~ORBs[L].submitted /\ ~orbIsFull(ORBs[L])
      <4>1. L > G /\ ORBs[L].requestStart = A + (L - G - 1) * MAX_REQUESTS
        BY <1>3, <2>2, <2>3, <3>4
      <4>2. Len(ORBs') = L /\ last.requestStart = ORBs[L].requestStart
        BY <1>3, <1>6, <3>4 DEF orbIsClosed
      <4> QED BY <4>1, <4>2
    <3> QED BY <1>3, <3>1, <3>2, <3>3, <3>4
  <2>5. N + 1 > A /\ N + 1 # A /\ A <= N + 1
    BY <1>3, <2>2, <2>3
  <2> QED BY <1>2, <1>5, <1>6, <2>1, <2>2, <2>4, <2>5 DEF OpenTail, last
<1>17. EpochCursors'
  BY <1>1, <1>2 DEF EpochCursors
<1> QED BY <1>10, <1>12, <1>13, <1>15, <1>16, <1>17 DEF IInv

-----------------------------------------------------------------------------
(* challengeExit, finalizeRequest and the passing of time. *)

(* A step that only updates fields of requests and the request cursor. *)
LEMMA RequestStepInv ==
  ASSUME IInv, EROs' \in Seq(Request), Len(EROs') = Len(EROs),
         EROIdToFinalize' \in Nat,
         lastAppliedEpochNumber' \in Epochs, lastAppliedBlockNumber' \in Nat,
         now' \in Nat,
         UNCHANGED <<fork, ORBs, numEnterForORB, firstFilledORENumber,
                     firstNonEmptyRequestEpoch, lastNonEmptyRequestEpoch>>
  PROVE  IInv'
<1>1. TypeOK'
  BY DEF IInv, TypeOK, Epochs
<1>2. ForkInv(fork)'
  BY ZenonT(30) DEF IInv, ForkInv, WithinBounds, RequestParity, ChainShape, LastOpened,
         Fork, numBlocks, divCeil
<1>3. RangesExist(fork)'
  BY ZenonT(30) DEF IInv, RangesExist, numBlocks, divCeil
<1>4. ORBsCover'
  BY ZenonT(30) DEF IInv, ORBsCover
<1>5. OpenTail(fork)'
  BY ZenonT(30) DEF IInv, OpenTail, ownedRequests, ownedORBs, firstFilled, numBlocks,
         divCeil, LastOpened
<1>6. EpochCursors'
  BY BoundsAssumption DEF IInv, EpochCursors, Epochs
<1> QED BY <1>1, <1>2, <1>3, <1>4, <1>5, <1>6 DEF IInv

LEMMA AppliedEpoch ==
  ASSUME IInv
  PROVE  /\ lastAppliedEpochNumber \in Epochs
         /\ firstNonEmptyRequestEpoch \in Epochs
BY BoundsAssumption DEF IInv, TypeOK, EpochCursors, Epochs

LEMMA ChallengeExitInv ==
  ASSUME IInv, NEW b, NEW i, challengeExit(b, i)
  PROVE  IInv'
<1> DEFINE id == ORB(fork.blocks[b].requestBlockId).requestStart + i
           r == [EROs[id + 1] EXCEPT !.challenged = TRUE]
<1>1. /\ id \in 0 .. Len(EROs) - 1
      /\ EROs' = [EROs EXCEPT ![id + 1].challenged = TRUE]
      /\ UNCHANGED <<fork, ORBs, numEnterForORB, firstFilledORENumber,
                     firstNonEmptyRequestEpoch, lastNonEmptyRequestEpoch,
                     EROIdToFinalize, lastAppliedEpochNumber,
                     lastAppliedBlockNumber, now>>
  BY DEF challengeExit, CanChallengeExit, epochVars, cursorVars
<1> HIDE DEF id
<1>2. EROs \in Seq(Request)
  BY DEF IInv, TypeOK
<1>3. id + 1 \in 1 .. Len(EROs)
  BY <1>1, <1>2
<1>4. EROs' = [EROs EXCEPT ![id + 1] = r]
  BY <1>1
<1>5. r \in Request
  <2>1. EROs[id + 1] \in Request
    BY <1>2, <1>3
  <2> QED BY ZenonT(30), <2>1 DEF Request
<1> HIDE DEF r
<1>6. EROs' \in Seq(Request) /\ Len(EROs') = Len(EROs)
  BY <1>2, <1>3, <1>4, <1>5
<1>7. /\ EROIdToFinalize' \in Nat /\ lastAppliedEpochNumber' \in Epochs
      /\ lastAppliedBlockNumber' \in Nat /\ now' \in Nat
  BY <1>1, AppliedEpoch DEF IInv, TypeOK
<1> QED BY <1>1, <1>6, <1>7, RequestStepInv

LEMMA FinalizeRequestInv ==
  ASSUME IInv, finalizeRequest
  PROVE  IInv'
<1> DEFINE id == EROIdToFinalize
<1>1. TypeOK /\ ForkInv(fork)
  BY DEF IInv
<1>2. /\ lastAppliedBlockNumber <= fork.lastBlock
      /\ Len(EROs) > id
      /\ lastAppliedEpochNumber' = epochToApply
      /\ lastAppliedBlockNumber' \in {blockToApply, blockToApply + 1}
      /\ EROIdToFinalize' = id + 1
      /\ EROs' = [EROs EXCEPT ![id + 1] = settle(EROs[id + 1])]
      /\ UNCHANGED <<fork, ORBs, numEnterForORB, firstFilledORENumber,
                     firstNonEmptyRequestEpoch, lastNonEmptyRequestEpoch,
                     now>>
  BY DEF finalizeRequest, CanFinalizeRequest, epochVars
<1>3. /\ fork \in Fork /\ lastAppliedBlockNumber \in Nat
      /\ id \in Nat /\ EROs \in Seq(Request) /\ now \in Nat
  BY <1>1 DEF TypeOK
<1>4. lastAppliedBlockNumber \in Blocks
  BY <1>1, <1>2, <1>3, BoundsAssumption
     DEF ForkInv, WithinBounds, Fork, Blocks
<1>5. epochToApply \in Epochs
  <2>1. CASE cursorOnRequestBlock
    <3>1. /\ fork.blocks[lastAppliedBlockNumber].epochNumber \in Nat
          /\ fork.blocks[lastAppliedBlockNumber].epochNumber <= fork.lastEpoch
      BY <1>1, <1>3, <1>4 DEF ForkInv, WithinBounds, Fork, PlasmaBlock
    <3>2. fork.lastEpoch \in Nat /\ fork.lastEpoch <= MaxEpoch
      BY <1>1, EpochIndices, BoundsAssumption DEF ForkInv, Epochs
    <3>3. epochToApply = fork.blocks[lastAppliedBlockNumber].epochNumber
      BY <2>1 DEF epochToApply
    <3> QED BY <3>1, <3>2, <3>3, BoundsAssumption DEF Epochs
  <2>2. CASE ~cursorOnRequestBlock
    <3>1. /\ lastAppliedEpochNumber \in Epochs
          /\ firstNonEmptyRequestEpoch \in Epochs
      BY AppliedEpoch
    <3>2. /\ fork.epochs[lastAppliedEpochNumber].nextEpoch <= MaxEpoch
          /\ fork.epochs[lastAppliedEpochNumber].nextEpoch \in Nat
      BY <1>1, <1>3, <3>1 DEF ForkInv, WithinBounds, Fork, Epoch
    <3>3. fork.epochs[lastAppliedEpochNumber].nextEpoch \in Epochs
      BY <3>2, BoundsAssumption DEF Epochs
    <3> QED BY <2>2, <3>1, <3>3 DEF epochToApply
  <2> QED BY <2>1, <2>2
<1>6. blockToApply \in Nat
  BY <1>3, <1>5 DEF blockToApply, Fork, Epoch
<1>7. id + 1 \in 1 .. Len(EROs)
  BY <1>2, <1>3
<1>8. settle(EROs[id + 1]) \in Request
  <2> DEFINE r == EROs[id + 1]
  <2>1. r \in Request
    BY <1>3, <1>7
  <2> HIDE DEF r
  <2>2. settle(r) \in Request
    <3> DEFINE a == IF r.isExit /\ ~r.challenged
                    THEN r.applied + 1 ELSE r.applied
    <3>1. a \in Nat
      BY <2>1 DEF Request
    <3>2. settle(r) = [r EXCEPT !.finalized = TRUE, !.applied = a]
      BY <2>1 DEF settle, Request
    <3> HIDE DEF a
    <3> QED BY ZenonT(30), <2>1, <3>1, <3>2 DEF Request
  <2> QED BY <2>2 DEF r
<1>9. EROs' \in Seq(Request) /\ Len(EROs') = Len(EROs)
  BY <1>2, <1>3, <1>7, <1>8
<1>10. lastAppliedBlockNumber' \in Nat /\ EROIdToFinalize' \in Nat
  BY <1>2, <1>3, <1>6
<1> QED BY <1>2, <1>3, <1>5, <1>9, <1>10, RequestStepInv

LEMMA TickInv ==
  ASSUME IInv, Tick
  PROVE  IInv'
<1>1. /\ now' = now + 1
      /\ UNCHANGED <<fork, EROs, ORBs, numEnterForORB, firstFilledORENumber,
                     firstNonEmptyRequestEpoch, lastNonEmptyRequestEpoch,
                     EROIdToFinalize, lastAppliedEpochNumber,
                     lastAppliedBlockNumber>>
  BY DEF Tick, requestVars, epochVars, cursorVars
<1>2. /\ EROs' \in Seq(Request) /\ EROIdToFinalize' \in Nat
      /\ lastAppliedBlockNumber' \in Nat /\ now' \in Nat
  BY <1>1 DEF IInv, TypeOK
<1>3. lastAppliedEpochNumber' \in Epochs
  BY <1>1, AppliedEpoch
<1> QED BY <1>1, <1>2, <1>3, RequestStepInv

-----------------------------------------------------------------------------
(* The constructor. *)
LEMMA InitForkFacts ==
  /\ InitFork \in Fork
  /\ InitFork.lastEpoch = 0 /\ InitFork.lastBlock = 0
  /\ InitFork.lastFinalizedEpoch = 0 /\ InitFork.lastEnterEpoch = 0
  /\ \A b \in Blocks : InitFork.blocks[b].epochNumber = 0
  /\ \A e \in Epochs :
       LET ep == InitFork.epochs[e]
       IN /\ ep.isRequest = (e = 2) /\ ep.isEmpty = (e = 2)
          /\ ep.requestStart = 0 /\ ep.requestEnd = 0
          /\ ep.firstRequestBlockId = 0 /\ ep.nextEpoch = 0
          /\ ep.startBlockNumber = IF e = 1 THEN 1 ELSE 0
          /\ ep.endBlockNumber = IF e = 1 THEN NRELength ELSE 0
<1> DEFINE f == GenesisFork
           g == InitFork
<1>1. ZeroEpoch \in Epoch /\ ZeroBlock \in PlasmaBlock
  BY ZenonT(30) DEF ZeroEpoch, Epoch, ZeroBlock, PlasmaBlock
<1>2. /\ [ZeroEpoch EXCEPT !.initialized = TRUE, !.finalized = TRUE] \in Epoch
      /\ [ZeroEpoch EXCEPT !.isEmpty = TRUE, !.isRequest = TRUE] \in Epoch
      /\ \A x \in BOOLEAN : [ZeroBlock EXCEPT !.finalized = x] \in PlasmaBlock
  BY ZenonT(30), <1>1 DEF Epoch, PlasmaBlock
<1>3. /\ f \in Fork
      /\ f.lastEpoch = 0 /\ f.lastBlock = 0
      /\ f.lastFinalizedEpoch = 0 /\ f.lastEnterEpoch = 0
  <2>1. f.epochs \in [Epochs -> Epoch]
    BY <1>1, <1>2 DEF GenesisFork
  <2>2. f.blocks \in [Blocks -> PlasmaBlock]
    BY ZenonT(30), <1>2 DEF GenesisFork
  <2> QED BY <2>1, <2>2 DEF GenesisFork, Fork
<1>4. \A b \in Blocks : f.blocks[b].epochNumber = 0
  BY DEF GenesisFork, ZeroBlock
<1>5. \A e \in Epochs :
        LET ep == f.epochs[e]
        IN /\ ep.isRequest = (e = 2) /\ ep.isEmpty = (e = 2)
           /\ ep.requestStart = 0 /\ ep.requestEnd = 0
           /\ ep.firstRequestBlockId = 0 /\ ep.nextEpoch = 0
           /\ ep.startBlockNumber = 0 /\ ep.endBlockNumber = 0
  <2> TAKE e \in Epochs
  <2>1. CASE e = 0
    <3>1. f.epochs[e] = [ZeroEpoch EXCEPT !.initialized = TRUE,
                                          !.finalized = TRUE]
      BY <2>1 DEF GenesisFork
    <3>2. (e = 2) = FALSE
      BY <2>1
    <3> HIDE DEF f
    <3>3. /\ f.epochs[e].isRequest = FALSE /\ f.epochs[e].isEmpty = FALSE
          /\ f.epochs[e].requestStart = 0 /\ f.epochs[e].requestEnd = 0
          /\ f.epochs[e].firstRequestBlockId = 0
          /\ f.epochs[e].nextEpoch = 0
          /\ f.epochs[e].startBlockNumber = 0
          /\ f.epochs[e].endBlockNumber = 0
      BY <3>1 DEF ZeroEpoch
    <3> QED BY ZenonT(30), <3>2, <3>3
  <2>2. CASE e = 2
    <3>1. f.epochs[e] = [ZeroEpoch EXCEPT !.isEmpty = TRUE,
                                          !.isRequest = TRUE]
      BY <2>2 DEF GenesisFork
    <3> HIDE DEF f
    <3> QED BY ZenonT(30), <2>2, <3>1 DEF ZeroEpoch
  <2>3. CASE e # 0 /\ e # 2
    BY ZenonT(30), <2>3 DEF GenesisFork, ZeroEpoch
  <2> QED BY <2>1, <2>2, <2>3
<1>6. 0 + 1 \in Epochs /\ 0 + 1 = 1
  BY BoundsAssumption DEF Epochs
<1>7. g = prepareNRE(f)
  BY DEF InitFork
<1> HIDE DEF f, g
<1>8. /\ g \in Fork
      /\ SameCursors(f, g)
      /\ g.lastEpoch = 0
      /\ g.lastEnterEpoch = f.lastEnterEpoch
      /\ \A e \in Epochs : e # 1 => g.epochs[e] = f.epochs[e]
      /\ SameRequests(g.epochs[1], f.epochs[1])
      /\ g.epochs[1].nextEpoch = f.epochs[1].nextEpoch
      /\ g.epochs[1].startBlockNumber = 1
      /\ g.epochs[1].endBlockNumber = 1 + NRELength - 1
  BY <1>3, <1>6, <1>7, PrepareNREFacts
<1>9. 1 + NRELength - 1 = NRELength
  BY ParamsAssumption
<1>10. \A e \in Epochs :
        LET ep == g.epochs[e]
        IN /\ ep.isRequest = (e = 2) /\ ep.isEmpty = (e = 2)
           /\ ep.requestStart = 0 /\ ep.requestEnd = 0
           /\ ep.firstRequestBlockId = 0 /\ ep.nextEpoch = 0
           /\ ep.startBlockNumber = (IF e = 1 THEN 1 ELSE 0)
           /\ ep.endBlockNumber = (IF e = 1 THEN NRELength ELSE 0)
  <2> TAKE e \in Epochs
  <2>1. CASE e = 1
    BY <1>5, <1>8, <1>9, <2>1 DEF SameRequests
  <2>2. CASE e # 1
    BY <1>5, <1>8, <2>2
  <2> QED BY <2>1, <2>2
<1> QED BY SMTT(60), <1>3, <1>4, <1>8, <1>10 DEF SameCursors, g

LEMMA InitInv == Init => IInv
<1> SUFFICES ASSUME Init PROVE IInv
  OBVIOUS
<1>1. /\ fork = InitFork /\ EROs = <<>> /\ ORBs = <<>>
      /\ numEnterForORB = 0 /\ firstFilledORENumber = 0
      /\ firstNonEmptyRequestEpoch = 0 /\ lastNonEmptyRequestEpoch = 0
      /\ EROIdToFinalize = 0 /\ lastAppliedEpochNumber = 0
      /\ lastAppliedBlockNumber = 0 /\ now = 0
  BY DEF Init
<1>2. /\ fork \in Fork
      /\ fork.lastEpoch = 0 /\ fork.lastBlock = 0
      /\ fork.lastFinalizedEpoch = 0 /\ fork.lastEnterEpoch = 0
      /\ \A b \in Blocks : fork.blocks[b].epochNumber = 0
      /\ \A e \in Epochs :
           LET ep == fork.epochs[e]
           IN /\ ep.isRequest = (e = 2) /\ ep.isEmpty = (e = 2)
              /\ ep.requestStart = 0 /\ ep.requestEnd = 0
              /\ ep.firstRequestBlockId = 0 /\ ep.nextEpoch = 0
              /\ ep.startBlockNumber = IF e = 1 THEN 1 ELSE 0
              /\ ep.endBlockNumber = IF e = 1 THEN NRELength ELSE 0
  BY <1>1, InitForkFacts
<1>3. ~Odd(0) /\ ~Odd(2) /\ LastOpened(fork) = 2
  BY <1>2 DEF Odd, LastOpened
<1>4. 0 \in Epochs /\ 1 \in Epochs /\ 2 \in Epochs /\ MaxEpoch >= 3
      /\ MaxEpoch \in Nat /\ MaxBlock \in Nat
  BY BoundsAssumption DEF Epochs
<1>5. TypeOK
  BY <1>1, <1>2 DEF TypeOK
<1>6. WithinBounds(fork)
  BY <1>2, <1>3, <1>4 DEF WithinBounds
<1>7. RequestParity(fork)
  <2> SUFFICES ASSUME NEW e \in Epochs
               PROVE  e = 2 <=> ~Odd(e) /\ 2 <= e /\ e <= 2
    BY ZenonT(60), <1>2, <1>3 DEF RequestParity
  <2>1. e \in Nat
    BY DEF Epochs
  <2> QED BY <1>3, <2>1
<1>8. ChainShape(fork)
  <2>1. /\ fork.epochs[0].endBlockNumber = 0
        /\ fork.epochs[0 + 1].startBlockNumber = 0 + 1
        /\ fork.epochs[0 + 1].endBlockNumber = 0 + NRELength
    BY <1>2, <1>4, ParamsAssumption
  <2>2. \A e \in Epochs : e > 0 + 1 => fork.epochs[e].startBlockNumber = 0
    BY <1>2 DEF Epochs
  <2> QED BY <1>2, <1>3, <2>1, <2>2 DEF ChainShape
<1>9. RangesExist(fork)
  BY <1>2 DEF RangesExist
<1>10. ORBsCover
  BY <1>1 DEF ORBsCover
<1>11. OpenTail(fork)
  <2>1. firstFilled(fork, 2) = 0
    BY ZenonT(30), <1>1, <1>2, <1>4 DEF firstFilled
  <2>2. ownedRequests(fork, 2) = 0 /\ ownedORBs(fork, 2) = 0
    BY <2>1 DEF ownedRequests, ownedORBs
  <2>3. Len(EROs) = 0 /\ Len(ORBs) = 0
    BY <1>1
  <2>4. /\ fork.epochs[2].isEmpty /\ fork.epochs[2].requestEnd = 0
        /\ fork.epochs[2].firstRequestBlockId = 0
    BY ZenonT(30), <1>2, <1>4
  <2> QED BY <1>3, <2>2, <2>3, <2>4 DEF OpenTail
<1>12. EpochCursors
  BY <1>1, <1>4 DEF EpochCursors
<1> QED BY <1>2, <1>5, <1>6, <1>7, <1>8, <1>9, <1>10, <1>11, <1>12
        DEF IInv, ForkInv

-----------------------------------------------------------------------------
LEMMA NextInv ==
  ASSUME IInv, [Next]_vars
  PROVE  IInv'
<1>1. CASE startEnter
  <2>1. numEnterForORB' \in Nat
    BY <1>1 DEF startEnter, IInv, TypeOK
  <2> QED BY ZenonT(30), <1>1, <2>1, StoreRequestInv DEF startEnter
<1>2. CASE startExit
  <2>1. numEnterForORB' \in Nat
    BY <1>2 DEF startExit, IInv, TypeOK
  <2> QED BY ZenonT(30), <1>2, <2>1, StoreRequestInv DEF startExit
<1>3. CASE submitNRE
  BY <1>3, SubmitNREInv
<1>4. CASE submitORB
  BY <1>4, SubmitORBInv
<1>5. CASE finalizeBlockExternal
  BY <1>5, FinalizeBlockInv
<1>6. CASE \E b \in Blocks, i \in 0 .. MAX_REQUESTS - 1 : challengeExit(b, i)
  BY <1>6, ChallengeExitInv
<1>7. CASE finalizeRequest
  BY <1>7, FinalizeRequestInv
<1>8. CASE Tick
  BY <1>8, TickInv
<1>9. CASE UNCHANGED vars
  <2>1. UNCHANGED <<fork, EROs, ORBs, numEnterForORB, firstFilledORENumber,
                    firstNonEmptyRequestEpoch, lastNonEmptyRequestEpoch,
                    EROIdToFinalize, lastAppliedEpochNumber,
                    lastAppliedBlockNumber, now>>
    BY <1>9 DEF vars
  <2>2. /\ EROs' \in Seq(Request) /\ EROIdToFinalize' \in Nat
        /\ lastAppliedBlockNumber' \in Nat /\ now' \in Nat
    BY <2>1 DEF IInv, TypeOK
  <2>3. lastAppliedEpochNumber' \in Epochs
    BY <2>1, AppliedEpoch
  <2> QED BY <2>1, <2>2, <2>3, RequestStepInv
<1> QED BY <1>1, <1>2, <1>3, <1>4, <1>5, <1>6, <1>7, <1>8, <1>9 DEF Next

(* IInv holds in every reachable state of the contract. *)
THEOREM IInvThm == Spec => []IInv
<1>1. IInv /\ [Next]_vars => IInv'
  BY NextInv
<1> QED BY <1>1, InitInv, PTL DEF Spec

(* Every storage variable keeps its declared type, whatever the sizes of   *)
(* epochs and request blocks: in particular submitORB never reads an ORB,  *)
(* and finalizeRequest never an epoch or block, that does not exist.       *)
THEOREM TypeOKThm == Spec => []TypeOK
<1>1. IInv => TypeOK
  BY DEF IInv
<1> QED BY <1>1, IInvThm, PTL

(* In every reachable state exactly one of submitNRE and submitORB is      *)
(* accepted: prepareNRE and prepareORE never leave the operator without a  *)
(* legal submission, nor with a choice.                                    *)
THEOREM OneSubmissionThm == Spec => []OneSubmission
<1>1. ASSUME IInv PROVE OneSubmission
  <2> DEFINE f == finalizeBlocks(fork)
             l == f.lastEpoch
  <2>1. TypeOK /\ ForkInv(fork) /\ RangesExist(fork) /\ OpenTail(fork)
    BY <1>1 DEF IInv
  <2>2. FinalizedOnly(fork, f)
    BY <2>1, FinalizeBlocksFacts DEF TypeOK, ForkInv
  <2> SUFFICES CanInsertNRE(f) <=> ~CanInsertBlock(f)
    BY DEF OneSubmission, CanSubmitNRE, CanSubmitORB
  <2> HIDE DEF f
  <2>3. ForkInv(f) /\ RangesExist(f)
    BY <2>1, <2>2, FinalizedOnlyKeeps
  <2>4. /\ f \in Fork /\ l \in Nat /\ l \in Epochs /\ l + 1 \in Epochs
        /\ f.lastBlock \in Nat
    BY <2>3, EpochIndices DEF ForkInv, Fork
  <2>5. /\ f.epochs[l] \in Epoch /\ f.epochs[l + 1] \in Epoch
        /\ f.epochs[l].endBlockNumber \in Nat
        /\ f.epochs[l].startBlockNumber \in Nat
    BY <2>4 DEF Fork, Epoch
  <2>6. CASE Odd(l)
    <3>1. /\ f.epochs[l].endBlockNumber = f.lastBlock
          /\ ~f.epochs[l + 1].isEmpty
          /\ f.epochs[l + 1].startBlockNumber = f.lastBlock + 1
          /\ f.epochs[l + 1].endBlockNumber
               = f.lastBlock + numBlocks(f.epochs[l + 1])
      BY ZenonT(30), <2>3, <2>6 DEF ForkInv, ChainShape
    <3>2. numBlocks(f.epochs[l + 1]) \in Nat
          /\ numBlocks(f.epochs[l + 1]) >= 1
      BY <2>3, <2>4, <2>5, <3>1, NumBlocksPositive DEF RangesExist
    <3>3. ~Odd(l + 1) /\ 2 <= l + 1 /\ l + 1 <= l + 3
      BY <2>4, <2>6 DEF Odd
    <3>4. f.epochs[l + 1].isRequest
      BY <2>3, <2>4, <2>6, <3>3 DEF ForkInv, RequestParity, LastOpened
    <3>5. epochOfNextBlock(f) = l + 1
      BY <3>1 DEF epochOfNextBlock
    <3>6. f.lastBlock + 1 <= f.epochs[l + 1].endBlockNumber
      BY <2>4, <3>1, <3>2
    <3>7. CanInsertBlock(f)
      BY <2>4, <3>1, <3>4, <3>5, <3>6 DEF CanInsertBlock
    <3> QED BY <3>4, <3>7 DEF CanInsertNRE
  <2>7. CASE ~Odd(l) /\ f.lastBlock = f.epochs[l].endBlockNumber
    <3>1. f.epochs[l + 1].startBlockNumber = f.lastBlock + 1
      BY ZenonT(30), <2>3, <2>7 DEF ForkInv, ChainShape
    <3>2. ~f.epochs[l + 1].isRequest
      <4>1. Odd(l + 1)
        BY <2>4, <2>7, Parity
      <4> QED BY <2>3, <2>4, <4>1 DEF ForkInv, RequestParity
    <3>3. epochOfNextBlock(f) = l + 1
      BY <2>7 DEF epochOfNextBlock
    <3> QED BY <3>1, <3>2, <3>3 DEF CanInsertNRE, CanInsertBlock
  <2>8. CASE ~Odd(l) /\ f.lastBlock # f.epochs[l].endBlockNumber
    <3>1. /\ l >= 2
          /\ f.lastBlock < f.epochs[l].endBlockNumber
          /\ f.epochs[l].startBlockNumber <= f.lastBlock
          /\ f.epochs[l + 1].startBlockNumber = 0
      BY <2>3, <2>8 DEF ForkInv, ChainShape
    <3>2. f.epochs[l].isRequest
      <4>1. 2 <= l /\ l <= l + 2
        BY <2>4, <3>1
      <4> QED BY <2>3, <2>4, <2>8, <4>1 DEF ForkInv, RequestParity, LastOpened
    <3>3. epochOfNextBlock(f) = l
      BY <2>4, <2>5, <2>8 DEF epochOfNextBlock
    <3>4. /\ f.epochs[l].startBlockNumber <= f.lastBlock + 1
          /\ f.lastBlock + 1 <= f.epochs[l].endBlockNumber
          /\ f.epochs[l + 1].startBlockNumber # f.lastBlock + 1
      BY <2>4, <2>5, <3>1
    <3> QED BY <3>2, <3>3, <3>4 DEF CanInsertNRE, CanInsertBlock
  <2> QED BY <2>6, <2>7, <2>8
<1> QED BY <1>1, IInvThm, PTL
=============================================================================
