-------------------------- MODULE RootChainFinality --------------------------
(***************************************************************************)
(* FinalizedPrefix of RootChain, for every value of its constants.         *)
(***************************************************************************)
EXTENDS RootChainTypes

end(f, e) == f.epochs[e].endBlockNumber

(* Block b lies in the range of epoch n. *)
Within(f, b, n) == end(f, n - 1) < b /\ b <= end(f, n)

(* The submitted epochs cover the submitted blocks in order, every NRE     *)
(* with at least one block.                                                *)
EpochsOrdered(f) ==
  /\ end(f, 0) = 0
  /\ \A d, e \in 0 .. f.lastEpoch :
       d < e => /\ end(f, d) <= end(f, e)
                /\ Odd(e) => end(f, d) < end(f, e)
                /\ end(f, d) <= f.lastBlock
  /\ f.lastBlock <= end(f, f.lastEpoch)

(* A request block names the request epoch it lies in ... *)
BlocksPlaced(f) ==
  \A b \in Blocks : f.blocks[b].isRequest =>
    LET n == f.blocks[b].epochNumber
    IN /\ b <= f.lastBlock
       /\ n \in 1 .. f.lastEpoch /\ ~Odd(n) /\ Within(f, b, n)

(* ... and every submitted block of a request epoch is a request block. *)
EpochsFilled(f) ==
  \A n \in 1 .. f.lastEpoch, b \in Blocks :
    ~Odd(n) /\ Within(f, b, n) /\ b <= f.lastBlock => f.blocks[b].isRequest

NothingAhead(f) ==
  \A b \in Blocks : b > f.lastBlock => ~f.blocks[b].finalized

Layout(f) ==
  EpochsOrdered(f) /\ BlocksPlaced(f) /\ EpochsFilled(f) /\ NothingAhead(f)

(* The cursors of _finalizeBlock point into the same epoch, and what they  *)
(* have passed is what is final.                                           *)
CursorsAgree(f) ==
  /\ f.lastFinalizedBlock <= f.lastBlock
  /\ f.lastFinalizedEpoch <= f.lastEpoch
  /\ IF Odd(f.lastFinalizedEpoch) \/ f.lastFinalizedEpoch = 0
     THEN f.lastFinalizedBlock = end(f, f.lastFinalizedEpoch)
     ELSE Within(f, f.lastFinalizedBlock, f.lastFinalizedEpoch)

PassedIsFinal(f) ==
  /\ \A b \in Blocks : f.blocks[b].isRequest =>
       (f.blocks[b].finalized <=> b <= f.lastFinalizedBlock)
  /\ \A e \in Epochs : Odd(e) =>
       (f.epochs[e].finalized <=> e <= f.lastFinalizedEpoch)

FinalityInv(f) == Layout(f) /\ CursorsAgree(f) /\ PassedIsFinal(f)

-----------------------------------------------------------------------------
(* Where the cursors stand among the epochs. *)

LEMMA EndIsNat ==
  ASSUME NEW f \in Fork, NEW e \in Epochs
  PROVE  end(f, e) \in Nat
BY SMTT(30) DEF Fork, Epoch, end

LEMMA PassedEpochs ==
  ASSUME NEW f, ForkInv(f), Layout(f), CursorsAgree(f)
  PROVE  /\ \A e \in 0 .. f.lastEpoch :
              e < f.lastFinalizedEpoch => end(f, e) <= f.lastFinalizedBlock
         /\ \A e \in 0 .. f.lastEpoch :
              e > f.lastFinalizedEpoch /\ Odd(e) =>
                f.lastFinalizedBlock < end(f, e)
         /\ Odd(f.lastFinalizedEpoch) =>
              end(f, f.lastFinalizedEpoch) = f.lastFinalizedBlock
<1> DEFINE l == f.lastFinalizedEpoch
           E(e) == end(f, e)
<1>1. /\ f \in Fork /\ l \in Nat /\ f.lastFinalizedBlock \in Nat
      /\ f.lastEpoch \in Nat /\ f.lastEpoch \in Epochs
  BY EpochIndices, Zenon DEF ForkInv, Fork
<1>2. \A e \in 0 .. f.lastEpoch : e \in Epochs /\ E(e) \in Nat
  <2> TAKE e \in 0 .. f.lastEpoch
  <2>1. e \in Epochs
    BY <1>1, BoundsAssumption DEF Epochs
  <2> QED BY <1>1, <2>1, EndIsNat
<1>3. \A d, e \in 0 .. f.lastEpoch :
        d < e => E(d) <= E(e) /\ (Odd(e) => E(d) < E(e))
  BY DEF Layout, EpochsOrdered
<1>4. /\ l <= f.lastEpoch
      /\ Odd(l) \/ l = 0 => f.lastFinalizedBlock = E(l)
      /\ ~(Odd(l) \/ l = 0) => /\ E(l - 1) < f.lastFinalizedBlock
                               /\ f.lastFinalizedBlock <= E(l)
  BY DEF CursorsAgree, Within
<1> HIDE DEF E
<1>5. ASSUME NEW e \in 0 .. f.lastEpoch, e < l
      PROVE  E(e) <= f.lastFinalizedBlock
  <2>1. CASE Odd(l) \/ l = 0
    BY <1>1, <1>2, <1>3, <1>4, <1>5, <2>1
  <2>2. CASE ~(Odd(l) \/ l = 0)
    <3>1. l - 1 \in 0 .. f.lastEpoch /\ (e < l - 1 \/ e = l - 1)
      BY <1>1, <1>4, <1>5
    <3>2. E(e) <= E(l - 1)
      BY <1>2, <1>3, <3>1
    <3> QED BY <1>1, <1>2, <1>4, <2>2, <3>1, <3>2
  <2> QED BY <2>1, <2>2
<1>6. ASSUME NEW e \in 0 .. f.lastEpoch, e > l, Odd(e)
      PROVE  f.lastFinalizedBlock < E(e)
  <2>1. l \in 0 .. f.lastEpoch /\ E(l) < E(e)
    BY <1>1, <1>3, <1>4, <1>6
  <2> QED BY <1>1, <1>2, <1>4, <2>1
<1> QED BY <1>4, <1>5, <1>6 DEF E

LEMMA PrefixFollows ==
  ASSUME ForkInv(fork), FinalityInv(fork)
  PROVE  FinalizedPrefix
<1>1. /\ fork \in Fork /\ fork.lastEpoch \in Nat /\ fork.lastEpoch \in Epochs
      /\ fork.lastBlock \in Nat /\ fork.lastFinalizedEpoch \in Nat
      /\ fork.lastFinalizedBlock \in Nat
  BY EpochIndices DEF ForkInv, Fork
<1>2. fork.lastFinalizedBlock <= fork.lastBlock
  BY DEF FinalityInv, CursorsAgree
<1>3. ASSUME NEW b \in RequestBlocks
      PROVE  fork.blocks[b].finalized <=> b <= fork.lastFinalizedBlock
  <2>1. fork.lastBlock <= MaxBlock
    BY DEF ForkInv, WithinBounds
  <2>2. b \in Blocks /\ fork.blocks[b].isRequest
    BY <1>1, <1>3, <2>1, BoundsAssumption DEF RequestBlocks, Blocks
  <2> QED BY <2>2 DEF FinalityInv, PassedIsFinal
<1>4. ASSUME NEW e \in 1 .. fork.lastEpoch, ~fork.epochs[e].isRequest
      PROVE  fork.epochs[e].finalized
               <=> fork.epochs[e].endBlockNumber <= fork.lastFinalizedBlock
  <2>1. e \in Nat /\ e \in Epochs /\ e \in 0 .. fork.lastEpoch
    BY <1>1, BoundsAssumption DEF Epochs
  <2>2. fork.lastEpoch + 2 <= LastOpened(fork) /\ LastOpened(fork) \in Nat
    BY <1>1 DEF LastOpened
  <2>3. Odd(e)
    <3> SUFFICES ASSUME ~Odd(e) PROVE FALSE
      OBVIOUS
    <3>1. 2 <= e /\ e <= LastOpened(fork)
      BY <1>1, <2>1, <2>2 DEF Odd
    <3> QED BY <1>4, <2>1, <3>1 DEF ForkInv, RequestParity
  <2>4. fork.epochs[e].finalized <=> e <= fork.lastFinalizedEpoch
    BY <2>1, <2>3 DEF FinalityInv, PassedIsFinal
  <2>5. end(fork, e) \in Nat
    BY <1>1, <2>1, EndIsNat
  <2>6. /\ e < fork.lastFinalizedEpoch =>
             end(fork, e) <= fork.lastFinalizedBlock
        /\ e > fork.lastFinalizedEpoch =>
             fork.lastFinalizedBlock < end(fork, e)
        /\ e = fork.lastFinalizedEpoch =>
             end(fork, e) = fork.lastFinalizedBlock
    BY <2>1, <2>3, PassedEpochs DEF FinalityInv
  <2>7. e <= fork.lastFinalizedEpoch <=> end(fork, e) <= fork.lastFinalizedBlock
    BY <1>1, <2>1, <2>5, <2>6
  <2> QED BY <2>4, <2>7 DEF end
<1> QED BY <1>2, <1>3, <1>4 DEF FinalizedPrefix

-----------------------------------------------------------------------------
(* _finalizeBlock. *)

(* The parts of the fork that finalization never changes. *)
SameLayout(f, g) ==
  /\ g.lastEpoch = f.lastEpoch
  /\ g.lastBlock = f.lastBlock
  /\ \A e \in Epochs : end(g, e) = end(f, e)
  /\ \A b \in Blocks : /\ g.blocks[b].isRequest = f.blocks[b].isRequest
                       /\ g.blocks[b].epochNumber = f.blocks[b].epochNumber
                       /\ g.blocks[b].requestBlockId
                            = f.blocks[b].requestBlockId

LEMMA FinalizeORBFlags ==
  ASSUME NEW f \in Fork, NEW b \in Blocks
  PROVE  LET g == doFinalizeBlock(f, b)
         IN /\ SameLayout(f, g)
            /\ g.epochs = f.epochs
            /\ g.lastFinalizedBlock = b
            /\ g.lastFinalizedEpoch = f.blocks[b].epochNumber
            /\ g.blocks[b].finalized
            /\ \A c \in Blocks : c # b => g.blocks[c] = f.blocks[c]
<1> DEFINE pb == [f.blocks[b] EXCEPT !.finalized = TRUE, !.finalizedAt = now]
           bs == [f.blocks EXCEPT ![b] = pb]
<1>1. f.blocks[b] \in PlasmaBlock
  BY DEF Fork
<1>2. doFinalizeBlock(f, b) =
        [f EXCEPT !.blocks = bs,
                  !.lastFinalizedBlock = b,
                  !.lastFinalizedEpoch = f.blocks[b].epochNumber]
  BY ZenonT(30), <1>1 DEF doFinalizeBlock, Fork
<1>3. /\ pb.finalized
      /\ pb.isRequest = f.blocks[b].isRequest
      /\ pb.epochNumber = f.blocks[b].epochNumber
      /\ pb.requestBlockId = f.blocks[b].requestBlockId
  BY ZenonT(30), <1>1 DEF PlasmaBlock
<1> HIDE DEF pb
<1>4. bs[b] = pb /\ \A c \in Blocks : c # b => bs[c] = f.blocks[c]
  BY DEF Fork
<1> HIDE DEF bs
<1>5. LET g == doFinalizeBlock(f, b)
      IN /\ g.epochs = f.epochs
         /\ g.blocks = bs
         /\ g.lastEpoch = f.lastEpoch
         /\ g.lastBlock = f.lastBlock
         /\ g.lastFinalizedBlock = b
         /\ g.lastFinalizedEpoch = f.blocks[b].epochNumber
  BY ZenonT(30), <1>2 DEF Fork
<1> QED BY <1>3, <1>4, <1>5 DEF SameLayout, end

LEMMA FinalizeNREFlags ==
  ASSUME NEW f \in Fork, NEW e \in Epochs
  PROVE  LET g == doFinalizeNRE(f, e)
         IN /\ SameLayout(f, g)
            /\ g.blocks = f.blocks
            /\ g.lastFinalizedBlock = end(f, e)
            /\ g.lastFinalizedEpoch = e
            /\ g.epochs[e].finalized
            /\ \A d \in Epochs : d # e => g.epochs[d] = f.epochs[d]
<1> DEFINE ep == [f.epochs[e] EXCEPT !.finalized = TRUE]
           es == [f.epochs EXCEPT ![e] = ep]
<1>1. f.epochs[e] \in Epoch
  BY DEF Fork
<1>2. doFinalizeNRE(f, e) =
        [f EXCEPT !.epochs = es,
                  !.lastFinalizedBlock = f.epochs[e].endBlockNumber,
                  !.lastFinalizedEpoch = e]
  BY <1>1 DEF doFinalizeNRE, Fork
<1>3. ep.finalized /\ ep.endBlockNumber = f.epochs[e].endBlockNumber
  BY ZenonT(30), <1>1 DEF Epoch
<1> HIDE DEF ep
<1>4. es[e] = ep /\ \A d \in Epochs : d # e => es[d] = f.epochs[d]
  BY DEF Fork
<1> HIDE DEF es
<1>5. LET g == doFinalizeNRE(f, e)
      IN /\ g.epochs = es
         /\ g.blocks = f.blocks
         /\ g.lastEpoch = f.lastEpoch
         /\ g.lastBlock = f.lastBlock
         /\ g.lastFinalizedBlock = f.epochs[e].endBlockNumber
         /\ g.lastFinalizedEpoch = e
  BY ZenonT(30), <1>2 DEF Fork
<1> QED BY <1>3, <1>4, <1>5 DEF SameLayout, end

(* Layout says nothing of final blocks up to lastBlock. *)
LEMMA LayoutKept ==
  ASSUME NEW f, NEW g, ForkInv(f), Layout(f), SameLayout(f, g),
         \A b \in Blocks : b > f.lastBlock =>
                             g.blocks[b].finalized = f.blocks[b].finalized
  PROVE  Layout(g)
<1>1. f.lastEpoch \in Nat /\ f.lastEpoch \in Epochs /\ 0 \in Epochs
  BY EpochIndices, BoundsAssumption DEF ForkInv, Epochs
<1>2. \A e \in 0 .. f.lastEpoch : e \in Epochs
  BY <1>1, BoundsAssumption DEF Epochs
<1>3. \A e \in 1 .. f.lastEpoch : e \in Epochs /\ e - 1 \in Epochs
  BY <1>1, BoundsAssumption DEF Epochs
<1>4. \A n \in 1 .. f.lastEpoch, b \in Blocks :
        Within(g, b, n) = Within(f, b, n)
  BY <1>3 DEF SameLayout, Within
<1>5. EpochsOrdered(g)
  BY <1>1, <1>2 DEF Layout, SameLayout, EpochsOrdered
<1>6. BlocksPlaced(g)
  BY <1>4 DEF Layout, SameLayout, BlocksPlaced
<1>7. EpochsFilled(g)
  BY <1>4 DEF Layout, SameLayout, EpochsFilled
<1>8. NothingAhead(g)
  BY DEF Layout, SameLayout, NothingAhead
<1> QED BY <1>5, <1>6, <1>7, <1>8 DEF Layout

(* The next request block becomes final: it lies in the epoch of the last  *)
(* final block, or in the next one with blocks and no NRE is in between.   *)
LEMMA FinalizeORBFinality ==
  ASSUME NEW f, ForkInv(f), FinalityInv(f), CanFinalizeORB(f)
  PROVE  FinalityInv(doFinalizeBlock(f, f.lastFinalizedBlock + 1))
<1> DEFINE b == f.lastFinalizedBlock + 1
           n == f.blocks[b].epochNumber
           l == f.lastFinalizedEpoch
           E(e) == end(f, e)
           g == doFinalizeBlock(f, b)
<1>1. /\ f \in Fork /\ l \in Nat /\ f.lastFinalizedBlock \in Nat
      /\ f.lastEpoch \in Nat /\ f.lastEpoch \in Epochs /\ f.lastBlock \in Nat
      /\ f.lastBlock <= MaxBlock
  BY EpochIndices DEF ForkInv, WithinBounds, Fork
<1>2. b <= f.lastBlock /\ f.blocks[b].isRequest /\ b \in Blocks
  BY <1>1, BoundsAssumption DEF CanFinalizeORB, Blocks
<1>3. /\ n \in 1 .. f.lastEpoch /\ ~Odd(n)
      /\ E(n - 1) < b /\ b <= E(n)
  BY <1>2 DEF FinalityInv, Layout, BlocksPlaced, Within
<1>4. \A e \in 0 .. f.lastEpoch : e \in Epochs /\ E(e) \in Nat
  <2> TAKE e \in 0 .. f.lastEpoch
  <2>1. e \in Epochs
    BY <1>1, BoundsAssumption DEF Epochs
  <2> QED BY <1>1, <2>1, EndIsNat
<1>5. /\ \A e \in 0 .. f.lastEpoch : e < l => E(e) <= f.lastFinalizedBlock
      /\ \A e \in 0 .. f.lastEpoch :
           e > l /\ Odd(e) => f.lastFinalizedBlock < E(e)
  BY PassedEpochs DEF FinalityInv
<1>6. \A d, e \in 0 .. f.lastEpoch : d < e => E(d) <= E(e)
  BY DEF FinalityInv, Layout, EpochsOrdered
<1>7. /\ SameLayout(f, g)
      /\ g.epochs = f.epochs
      /\ g.lastFinalizedBlock = b
      /\ g.lastFinalizedEpoch = n
      /\ g.blocks[b].finalized
      /\ \A c \in Blocks : c # b => g.blocks[c] = f.blocks[c]
  <2> HIDE DEF b
  <2> QED BY <1>1, <1>2, FinalizeORBFlags
<1> HIDE DEF E, n, g
<1>8. l <= n
  <2> SUFFICES ASSUME n < l PROVE FALSE
    BY <1>1, <1>3
  <2>1. n \in 0 .. f.lastEpoch
    BY <1>1, <1>3
  <2> QED BY <1>1, <1>3, <1>4, <1>5, <2>1
<1>9. ASSUME NEW e \in Epochs, Odd(e)
      PROVE  e <= n <=> e <= l
  <2> SUFFICES ASSUME e <= n, e > l PROVE FALSE
    BY <1>1, <1>3, <1>8 DEF Epochs
  <2>1. e \in Nat /\ e # n
    BY <1>3, <1>9 DEF Epochs
  <2>2. /\ e \in 0 .. f.lastEpoch /\ n - 1 \in 0 .. f.lastEpoch
        /\ e < n - 1 \/ e = n - 1
    BY <1>1, <1>3, <2>1
  <2>3. E(e) <= E(n - 1)
    BY <1>4, <1>6, <2>2
  <2>4. f.lastFinalizedBlock < E(e)
    BY <1>5, <1>9, <2>2
  <2> QED BY <1>1, <1>3, <1>4, <2>2, <2>3, <2>4
<1>10. Layout(g)
  <2>1. \A c \in Blocks : c > f.lastBlock => c # b
    BY <1>1, <1>2 DEF Blocks
  <2> QED BY <1>7, <2>1, LayoutKept DEF FinalityInv
<1>11. CursorsAgree(g)
  <2>1. n \in Nat /\ n \in Epochs /\ n - 1 \in Epochs /\ n # 0
        /\ n <= f.lastEpoch
    BY <1>1, <1>3, BoundsAssumption DEF Epochs
  <2>2. end(g, n) = E(n) /\ end(g, n - 1) = E(n - 1)
    BY <1>7, <2>1 DEF SameLayout, E
  <2>3. g.lastEpoch = f.lastEpoch /\ g.lastBlock = f.lastBlock
    BY <1>7 DEF SameLayout
  <2> QED BY <1>2, <1>3, <1>7, <2>1, <2>2, <2>3 DEF CursorsAgree, Within
<1>12. PassedIsFinal(g)
  <2>1. ASSUME NEW c \in Blocks, g.blocks[c].isRequest
        PROVE  g.blocks[c].finalized <=> c <= b
    <3>1. CASE c = b
      BY <1>1, <1>7, <3>1
    <3>2. CASE c # b
      <4>1. g.blocks[c] = f.blocks[c]
        BY <1>7, <3>2
      <4>2. f.blocks[c].finalized <=> c <= f.lastFinalizedBlock
        BY <2>1, <4>1 DEF FinalityInv, PassedIsFinal
      <4>3. c <= f.lastFinalizedBlock <=> c <= b
        BY <1>1, <3>2 DEF Blocks
      <4> QED BY <4>1, <4>2, <4>3
    <3> QED BY <3>1, <3>2
  <2>2. ASSUME NEW e \in Epochs, Odd(e)
        PROVE  g.epochs[e].finalized <=> e <= n
    <3>1. f.epochs[e].finalized <=> e <= l
      BY <2>2 DEF FinalityInv, PassedIsFinal
    <3> QED BY <1>7, <1>9, <2>2, <3>1
  <2> QED BY <1>7, <2>1, <2>2 DEF PassedIsFinal
<1> QED BY <1>10, <1>11, <1>12 DEF FinalityInv, g

(* The NRE that _finalizeBlock looks for: the least odd number above       *)
(* lastFinalizedEpoch.                                                     *)
LEMMA NextNREIs ==
  ASSUME NEW f, ForkInv(f)
  PROVE  LET l == f.lastFinalizedEpoch
         IN nextNREToFinalize(f) = IF Odd(l) THEN l + 2 ELSE l + 1
<1> DEFINE l == f.lastFinalizedEpoch
           P(e) == /\ e > l
                   /\ ~f.epochs[e].isRequest
                   /\ \A d \in Epochs : d > l /\ d < e => f.epochs[d].isRequest
           m == IF Odd(l) THEN l + 2 ELSE l + 1
<1>1. /\ f \in Fork /\ l \in Nat /\ f.lastEpoch \in Nat
      /\ l <= f.lastEpoch /\ LastOpened(f) <= MaxEpoch
      /\ RequestParity(f)
  BY DEF ForkInv, WithinBounds, Fork
<1>2. LastOpened(f) \in Nat /\ f.lastEpoch + 2 <= LastOpened(f)
  BY <1>1 DEF LastOpened
<1>3. m \in Epochs /\ l + 1 \in Epochs /\ m \in Nat /\ m > l
  BY <1>1, <1>2, BoundsAssumption DEF Epochs
<1>4. Odd(m)
  BY <1>1 DEF Odd
<1>5. ~f.epochs[m].isRequest
  BY <1>1, <1>3, <1>4 DEF RequestParity
<1>6. ASSUME NEW d \in Epochs, d > l, d < m PROVE f.epochs[d].isRequest
  <2>1. Odd(l) /\ d = l + 1
    BY <1>1, <1>6 DEF Epochs
  <2>2. ~Odd(l + 1) /\ 2 <= l + 1 /\ l + 1 <= LastOpened(f)
    BY <1>1, <1>2, <2>1 DEF Odd
  <2> QED BY <1>1, <1>3, <2>1, <2>2 DEF RequestParity
<1>7. P(m)
  BY <1>3, <1>5, <1>6
<1>8. ASSUME NEW e \in Epochs, P(e) PROVE e = m
  <2>1. ~(m < e)
    BY <1>3, <1>5, <1>8
  <2>2. ~(e < m)
    BY <1>6, <1>8
  <2> QED BY <1>3, <2>1, <2>2 DEF Epochs
<1>9. nextNREToFinalize(f) = CHOOSE e \in Epochs : P(e)
  BY DEF nextNREToFinalize
<1> HIDE DEF P, m
<1>10. nextNREToFinalize(f) = m
  BY <1>3, <1>7, <1>8, <1>9
<1> QED BY <1>10 DEF m

(* The next NRE becomes final: the block after the last final one is none  *)
(* of a request epoch, so no request block is passed over.                 *)
LEMMA FinalizeNREFinality ==
  ASSUME NEW f, ForkInv(f), FinalityInv(f), CanFinalizeNRE(f)
  PROVE  FinalityInv(doFinalizeNRE(f, nextNREToFinalize(f)))
<1> DEFINE b == f.lastFinalizedBlock
           l == f.lastFinalizedEpoch
           e == nextNREToFinalize(f)
           E(d) == end(f, d)
           g == doFinalizeNRE(f, e)
<1>1. /\ f \in Fork /\ l \in Nat /\ b \in Nat
      /\ f.lastEpoch \in Nat /\ f.lastEpoch \in Epochs /\ f.lastBlock \in Nat
      /\ f.lastBlock <= MaxBlock
  BY EpochIndices DEF ForkInv, WithinBounds, Fork
<1>2. /\ b + 1 <= f.lastBlock /\ ~f.blocks[b + 1].isRequest
      /\ e <= f.lastEpoch
  BY DEF CanFinalizeNRE, checkFinalizableNRE
<1>3. e = IF Odd(l) THEN l + 2 ELSE l + 1
  BY NextNREIs
<1> HIDE DEF e
<1>4. e \in Nat /\ Odd(e) /\ e > l /\ e \in Epochs /\ e \in 0 .. f.lastEpoch
      /\ e >= 1
  <2>1. e \in Nat /\ Odd(e) /\ e > l
    BY <1>1, <1>3 DEF Odd
  <2> QED BY <1>1, <1>2, <2>1, BoundsAssumption DEF Epochs
<1>5. \A d \in 0 .. f.lastEpoch : d \in Epochs /\ E(d) \in Nat
  <2> TAKE d \in 0 .. f.lastEpoch
  <2>1. d \in Epochs
    BY <1>1, BoundsAssumption DEF Epochs
  <2> QED BY <1>1, <2>1, EndIsNat
<1>6. /\ \A d \in 0 .. f.lastEpoch : d < l => E(d) <= b
      /\ b < E(e)
      /\ Odd(l) => E(l) = b
  BY <1>4, PassedEpochs DEF FinalityInv
<1>7. \A c, d \in 0 .. f.lastEpoch :
        c < d => E(c) <= E(d) /\ E(c) <= f.lastBlock
  BY DEF FinalityInv, Layout, EpochsOrdered
<1>8. /\ SameLayout(f, g)
      /\ g.blocks = f.blocks
      /\ g.lastFinalizedBlock = E(e)
      /\ g.lastFinalizedEpoch = e
      /\ g.epochs[e].finalized
      /\ \A d \in Epochs : d # e => g.epochs[d] = f.epochs[d]
  BY <1>1, <1>4, FinalizeNREFlags
<1>9. ~Odd(l) /\ l # 0 => E(l - 1) < b
  BY DEF FinalityInv, CursorsAgree, Within
<1>10. b + 1 \in Blocks
  BY <1>1, <1>2, BoundsAssumption DEF Blocks
<1>11. \A n \in 1 .. f.lastEpoch :
         ~(~Odd(n) /\ E(n - 1) <= b /\ b < E(n))
  <2> SUFFICES ASSUME NEW n \in 1 .. f.lastEpoch,
                      ~Odd(n), E(n - 1) <= b, b < E(n)
               PROVE  FALSE
    OBVIOUS
  <2>1. n \in 0 .. f.lastEpoch /\ n - 1 \in 0 .. f.lastEpoch
    BY <1>1
  <2>2. E(n - 1) < b + 1 /\ b + 1 <= E(n)
    BY <1>1, <1>5, <2>1
  <2>3. f.blocks[b + 1].isRequest
    BY <1>2, <1>10, <2>2 DEF FinalityInv, Layout, EpochsFilled, Within
  <2> QED BY <1>2, <2>3
<1>12. E(e) <= f.lastBlock
  <2>1. CASE e < f.lastEpoch
    BY <1>1, <1>4, <1>7, <2>1
  <2>2. CASE e = f.lastEpoch
    <3>1. E(e) = f.lastBlock
      BY <1>4, <2>2 DEF ForkInv, ChainShape, end
    <3> QED BY <1>1, <3>1
  <2> QED BY <1>1, <1>2, <1>4, <2>1, <2>2
<1>13. ASSUME NEW c \in Blocks, f.blocks[c].isRequest
       PROVE  c <= E(e) <=> c <= b
  <2> DEFINE n == f.blocks[c].epochNumber
  <2>1. /\ n \in 1 .. f.lastEpoch /\ ~Odd(n)
        /\ E(n - 1) < c /\ c <= E(n)
    BY <1>13 DEF FinalityInv, Layout, BlocksPlaced, Within
  <2> HIDE DEF n, E
  <2> SUFFICES ASSUME c <= E(e), c > b PROVE FALSE
    BY <1>1, <1>4, <1>5, <1>6 DEF Blocks
  <2>2. /\ n \in Nat /\ n \in 0 .. f.lastEpoch /\ n - 1 \in 0 .. f.lastEpoch
        /\ E(n) \in Nat /\ E(n - 1) \in Nat /\ E(e) \in Nat /\ c \in Nat
        /\ n # e
    BY <1>1, <1>4, <1>5, <2>1 DEF Blocks
  <2>3. n < e
    <3> SUFFICES ASSUME n > e PROVE FALSE
      BY <1>4, <2>2
    <3>1. e < n - 1 \/ e = n - 1
      BY <1>4, <2>2
    <3>2. E(e) <= E(n - 1)
      BY <1>4, <1>7, <2>2, <3>1
    <3> QED BY <2>1, <2>2, <3>2
  <2>4. ~(n < l)
    BY <1>1, <1>6, <2>1, <2>2
  <2>5. b < E(n)
    BY <1>1, <2>1, <2>2
  <2>6. CASE Odd(l)
    <3>1. n = l + 1
      BY <1>1, <1>3, <2>1, <2>2, <2>3, <2>4, <2>6
    <3>2. E(n - 1) <= b
      BY <1>1, <1>6, <2>6, <3>1
    <3> QED BY <1>11, <2>1, <2>5, <3>2
  <2>7. CASE ~Odd(l)
    <3>1. n = l /\ l # 0
      BY <1>1, <1>3, <2>1, <2>2, <2>3, <2>4, <2>7
    <3>2. E(n - 1) <= b
      BY <1>1, <1>9, <2>2, <2>7, <3>1
    <3> QED BY <1>11, <2>1, <2>5, <3>2
  <2> QED BY <2>6, <2>7
<1>14. ASSUME NEW d \in Epochs, Odd(d), d # e
       PROVE  d <= e <=> d <= l
  <2>1. d \in Nat /\ (Odd(l) => d # l + 1)
    BY <1>1, <1>14 DEF Epochs, Odd
  <2> QED BY <1>1, <1>3, <1>14, <2>1 DEF Epochs
<1> HIDE DEF g, E
<1>15. Layout(g)
  BY <1>8, LayoutKept DEF FinalityInv
<1>16. CursorsAgree(g)
  <2>1. end(g, e) = E(e) /\ g.lastEpoch = f.lastEpoch
        /\ g.lastBlock = f.lastBlock
    BY <1>4, <1>8 DEF SameLayout, E
  <2> QED BY <1>2, <1>4, <1>8, <1>12, <2>1 DEF CursorsAgree
<1>17. PassedIsFinal(g)
  <2>1. ASSUME NEW c \in Blocks, g.blocks[c].isRequest
        PROVE  g.blocks[c].finalized <=> c <= E(e)
    <3>1. f.blocks[c].isRequest
      BY <1>8, <2>1
    <3>2. f.blocks[c].finalized <=> c <= b
      BY <3>1 DEF FinalityInv, PassedIsFinal
    <3> QED BY <1>8, <1>13, <3>1, <3>2
  <2>2. ASSUME NEW d \in Epochs, Odd(d)
        PROVE  g.epochs[d].finalized <=> d <= e
    <3>1. CASE d = e
      BY <1>4, <1>8, <3>1
    <3>2. CASE d # e
      <4>1. f.epochs[d].finalized <=> d <= l
        BY <2>2 DEF FinalityInv, PassedIsFinal
      <4> QED BY <1>8, <1>14, <2>2, <3>2, <4>1
    <3> QED BY <3>1, <3>2
  <2> QED BY <1>8, <2>1, <2>2 DEF PassedIsFinal
<1> QED BY <1>15, <1>16, <1>17 DEF FinalityInv, g, e

LEMMA FinalizeBlockFinality ==
  ASSUME NEW f, ForkInv(f), FinalityInv(f)
  PROVE  FinalityInv(finalizeBlock(f)) /\ FinalityInv(finalizeBlocks(f))
<1>1. FinalityInv(finalizeBlock(f))
  BY FinalizeORBFinality, FinalizeNREFinality DEF finalizeBlock
<1> QED BY <1>1 DEF finalizeBlocks

-----------------------------------------------------------------------------
(* The submissions leave finality alone. *)

SameFinality(f, g) ==
  /\ g.lastFinalizedBlock = f.lastFinalizedBlock
  /\ \A e \in Epochs : g.epochs[e].finalized = f.epochs[e].finalized

LEMMA OneEpochChanged ==
  ASSUME NEW f \in Fork, NEW n \in Epochs, NEW ep, NEW g,
         ep.finalized = f.epochs[n].finalized,
         g.epochs = [f.epochs EXCEPT ![n] = ep],
         g.lastFinalizedBlock = f.lastFinalizedBlock
  PROVE  SameFinality(f, g)
<1> DEFINE es == [f.epochs EXCEPT ![n] = ep]
<1>1. es[n] = ep /\ \A e \in Epochs : e # n => es[e] = f.epochs[e]
  BY DEF Fork
<1> HIDE DEF es
<1>2. g.epochs = es
  BY DEF es
<1> QED BY <1>1, <1>2 DEF SameFinality

LEMMA PrepareNREFinality ==
  ASSUME NEW f \in Fork, f.lastEpoch + 1 \in Epochs
  PROVE  SameFinality(f, prepareNRE(f))
<1> DEFINE n == f.lastEpoch + 1
           s == IF n = 1 THEN 1 ELSE f.epochs[f.lastEpoch].endBlockNumber + 1
           ep == [f.epochs[n] EXCEPT !.initialized = TRUE,
                                     !.startBlockNumber = s,
                                     !.endBlockNumber = s + NRELength - 1]
           g == prepareNRE(f)
<1>1. f.epochs[n] \in Epoch
  BY DEF Fork
<1>2. g = [f EXCEPT !.epochs = [f.epochs EXCEPT ![n] = ep]]
  BY ZenonT(60), <1>1 DEF prepareNRE, Fork
<1> HIDE DEF s, n
<1>3. ep.finalized = f.epochs[n].finalized
  BY ZenonT(30), <1>1 DEF Epoch
<1> HIDE DEF ep, g
<1>4. /\ g.epochs = [f.epochs EXCEPT ![n] = ep]
      /\ g.lastFinalizedBlock = f.lastFinalizedBlock
  BY <1>2 DEF Fork
<1>5. n \in Epochs
  BY DEF n
<1> QED BY <1>3, <1>4, <1>5, OneEpochChanged DEF g

LEMMA InsertNREFinality ==
  ASSUME NEW f \in Fork, f.lastEpoch + 1 \in Epochs
  PROVE  SameFinality(f, insertNRE(f))
<1> DEFINE n == f.lastEpoch + 1
           ep == [f.epochs[n] EXCEPT !.submittedAt = now]
           g == insertNRE(f)
<1>1. f.epochs[n] \in Epoch
  BY DEF Fork
<1>2. g = [f EXCEPT !.epochs = [f.epochs EXCEPT ![n] = ep],
                    !.lastEpoch = n,
                    !.lastBlock = f.epochs[n].endBlockNumber]
  BY <1>1 DEF insertNRE, Fork
<1> HIDE DEF n
<1>3. ep.finalized = f.epochs[n].finalized
  BY ZenonT(30), <1>1 DEF Epoch
<1> HIDE DEF ep, g
<1>4. /\ g.epochs = [f.epochs EXCEPT ![n] = ep]
      /\ g.lastFinalizedBlock = f.lastFinalizedBlock
  BY <1>2 DEF Fork
<1>5. n \in Epochs
  BY DEF n
<1> QED BY <1>3, <1>4, <1>5, OneEpochChanged DEF g

LEMMA LinkEnterFinality ==
  ASSUME NEW f \in Fork, NEW n, f.lastEnterEpoch \in Epochs
  PROVE  SameFinality(f, linkEnterEpoch(f, n))
<1> DEFINE l == f.lastEnterEpoch
           ep == [f.epochs[l] EXCEPT !.nextEnterEpoch = n]
           g == linkEnterEpoch(f, n)
<1>1. f.epochs[l] \in Epoch
  BY DEF Fork
<1>2. CASE f.epochs[n].numEnter = 0
  BY <1>2 DEF linkEnterEpoch, SameFinality
<1>3. CASE f.epochs[n].numEnter # 0 /\ f.firstEnterEpoch = 0
  <2>1. g = [f EXCEPT !.firstEnterEpoch = n, !.lastEnterEpoch = n]
    BY <1>3 DEF linkEnterEpoch
  <2> QED BY ZenonT(30), <2>1 DEF Fork, SameFinality
<1>4. CASE f.epochs[n].numEnter # 0 /\ f.firstEnterEpoch # 0
  <2>1. g = [f EXCEPT !.epochs = [f.epochs EXCEPT ![l] = ep],
                      !.lastEnterEpoch = n]
    BY <1>1, <1>4 DEF linkEnterEpoch, Fork
  <2>2. ep.finalized = f.epochs[l].finalized
    BY ZenonT(30), <1>1 DEF Epoch
  <2> HIDE DEF ep, g
  <2>3. /\ g.epochs = [f.epochs EXCEPT ![l] = ep]
        /\ g.lastFinalizedBlock = f.lastFinalizedBlock
    BY <2>1 DEF Fork
  <2> QED BY <2>2, <2>3, OneEpochChanged DEF g
<1> QED BY <1>2, <1>3, <1>4

LEMMA LinkNonEmptyFinality ==
  ASSUME NEW f \in Fork, NEW n, lastNonEmptyRequestEpoch \in Epochs
  PROVE  SameFinality(f, linkNonEmpty(f, n))
<1> DEFINE l == lastNonEmptyRequestEpoch
           ep == [f.epochs[l] EXCEPT !.nextEpoch = n]
           g == linkNonEmpty(f, n)
<1>1. f.epochs[l] \in Epoch
  BY DEF Fork
<1>2. CASE f.epochs[n].isEmpty \/ l = 0
  BY <1>2 DEF linkNonEmpty, SameFinality
<1>3. CASE ~(f.epochs[n].isEmpty \/ l = 0)
  <2>1. g = [f EXCEPT !.epochs = [f.epochs EXCEPT ![l] = ep]]
    BY <1>1, <1>3 DEF linkNonEmpty, Fork
  <2>2. ep.finalized = f.epochs[l].finalized
    BY ZenonT(30), <1>1 DEF Epoch
  <2> HIDE DEF ep, g
  <2>3. /\ g.epochs = [f.epochs EXCEPT ![l] = ep]
        /\ g.lastFinalizedBlock = f.lastFinalizedBlock
    BY <2>1 DEF Fork
  <2> QED BY <2>2, <2>3, OneEpochChanged DEF g
<1> QED BY <1>2, <1>3

LEMMA CloseOREFinality ==
  ASSUME NEW f \in Fork, NEW n \in Epochs
  PROVE  SameFinality(f, closeORE(f, n))
<1> DEFINE prevEnd == f.epochs[n - 1].endBlockNumber
           s == IF f.epochs[n].isEmpty THEN prevEnd ELSE prevEnd + 1
           t == prevEnd + numBlocks(f.epochs[n])
           ep == [f.epochs[n] EXCEPT !.initialized = TRUE,
                                     !.startBlockNumber = s,
                                     !.endBlockNumber = t]
           g == closeORE(f, n)
<1>1. f.epochs[n] \in Epoch
  BY DEF Fork
<1>2. g = [f EXCEPT !.epochs = [f.epochs EXCEPT ![n] = ep]]
  BY ZenonT(60), <1>1 DEF closeORE, Fork
<1> HIDE DEF s, t
<1>3. ep.finalized = f.epochs[n].finalized
  BY ZenonT(30), <1>1 DEF Epoch
<1> HIDE DEF ep, g
<1>4. /\ g.epochs = [f.epochs EXCEPT ![n] = ep]
      /\ g.lastFinalizedBlock = f.lastFinalizedBlock
  BY <1>2 DEF Fork
<1> QED BY <1>3, <1>4, OneEpochChanged DEF g

LEMMA OpenNextOREFinality ==
  ASSUME NEW f \in Fork, NEW n \in Epochs, n + 2 \in Epochs
  PROVE  SameFinality(f, openNextORE(f, n))
<1> DEFINE em == nextIsEmpty(f.epochs[n])
           rs == nextRequestStart(f, n)
           re == nextRequestEnd(f, n)
           id == nextFirstRequestBlockId(f, n)
           ep == [f.epochs[n + 2] EXCEPT !.isRequest = TRUE,
                                         !.numEnter = numEnterForORB,
                                         !.isEmpty = em,
                                         !.requestStart = rs,
                                         !.requestEnd = re,
                                         !.firstRequestBlockId = id]
           g == openNextORE(f, n)
<1>1. f.epochs[n + 2] \in Epoch
  BY DEF Fork
<1>2. g = [f EXCEPT !.epochs = [f.epochs EXCEPT ![n + 2] = ep]]
  BY <1>1 DEF openNextORE, nextRequestEnd, Fork
<1> HIDE DEF em, rs, re, id
<1>3. ep.finalized = f.epochs[n + 2].finalized
  BY ZenonT(30), <1>1 DEF Epoch
<1> HIDE DEF ep, g
<1>4. /\ g.epochs = [f.epochs EXCEPT ![n + 2] = ep]
      /\ g.lastFinalizedBlock = f.lastFinalizedBlock
  BY <1>2 DEF Fork
<1> QED BY <1>3, <1>4, OneEpochChanged DEF g

LEMMA SubmitNREFinality ==
  ASSUME TypeOK, EpochCursors, NEW f, ForkInv(f), RangesExist(f), InBounds(f)
  PROVE  SameFinality(f, prepareORE(insertNRE(f)))
<1> DEFINE n == f.lastEpoch + 2
           h == insertNRE(f)
           f1 == linkEnterEpoch(h, n)
           f2 == closeORE(f1, n)
           f3 == openNextORE(f2, n)
           k == linkNonEmpty(f3, n)
<1>1. /\ f \in Fork /\ f.lastEpoch \in Nat
      /\ n \in Nat /\ n \in Epochs
      /\ n - 1 \in Epochs /\ n + 1 \in Epochs /\ n + 2 \in Epochs
      /\ n - 1 = f.lastEpoch + 1
  <2>1. f \in Fork /\ f.lastEpoch \in Nat
    BY DEF ForkInv, Fork
  <2>2. f.lastEpoch + 4 <= MaxEpoch
    BY DEF InBounds
  <2> QED BY <2>1, <2>2, BoundsAssumption DEF Epochs
<1>2. now \in Nat /\ numEnterForORB \in Nat /\ EROs \in Seq(Request)
  BY DEF TypeOK
<1>3. lastNonEmptyRequestEpoch \in Epochs
  BY BoundsAssumption DEF TypeOK, EpochCursors, Epochs
<1>4. /\ h \in Fork
      /\ h.lastEpoch = f.lastEpoch + 1
      /\ h.lastEnterEpoch = f.lastEnterEpoch
      /\ \A e \in Epochs : SameEpoch(h.epochs[e], f.epochs[e])
      /\ SameFinality(f, h)
  <2>1. f.lastEpoch + 1 \in Epochs
    BY <1>1
  <2> HIDE DEF n
  <2> QED BY <1>1, <1>2, <2>1, InsertNREFacts, InsertNREFinality
<1>5. h.lastEnterEpoch \in Epochs /\ h.lastEnterEpoch <= MaxEpoch
  BY <1>1, <1>4, BoundsAssumption DEF ForkInv, WithinBounds, Fork, Epochs
<1>6. h.lastEpoch + 1 = n
  BY <1>1, <1>4
<1>7. prepareORE(h) = skipEmptyORE(k, n)
  BY <1>6 DEF prepareORE
<1>8. /\ SameRequests(h.epochs[n], f.epochs[n])
      /\ f.epochs[n].requestStart <= f.epochs[n].requestEnd
  BY <1>1, <1>4 DEF SameEpoch, RangesExist
<1> HIDE DEF n, h
<1>9. /\ f1 \in Fork
      /\ f1.lastEpoch = h.lastEpoch
      /\ SameRequests(f1.epochs[n], h.epochs[n])
      /\ SameFinality(h, f1)
  <2>1. LinkedOnly(h, f1, n)
    BY <1>1, <1>4, <1>5, LinkEnterFacts
  <2> QED BY <1>1, <1>4, <1>5, <2>1, LinkEnterFinality DEF LinkedOnly
<1> HIDE DEF f1
<1>10. f1.epochs[n].requestStart <= f1.epochs[n].requestEnd
  BY <1>8, <1>9 DEF SameRequests
<1>11. numBlocks(f1.epochs[n]) \in Nat
  BY <1>1, <1>9, <1>10, NumBlocksPositive DEF Fork
<1>12. /\ f2 \in Fork
       /\ f2.lastEpoch = f1.lastEpoch
       /\ SameRequests(f2.epochs[n], f1.epochs[n])
       /\ SameFinality(f1, f2)
  BY ZenonT(30), <1>1, <1>9, <1>11, CloseOREFacts, CloseOREFinality
<1> HIDE DEF f2
<1>13. f2.epochs[n].requestStart <= f2.epochs[n].requestEnd
  BY <1>10, <1>12 DEF SameRequests
<1>14. /\ f3 \in Fork
       /\ f3.lastEpoch = f2.lastEpoch
       /\ SameFinality(f2, f3)
  <2>1. f2 \in Fork
    BY <1>12
  <2> QED BY ZenonT(60), <1>1, <1>2, <1>13, <2>1, OpenNextOREFacts,
             OpenNextOREFinality
<1> HIDE DEF f3
<1>15. /\ k \in Fork
       /\ k.lastEpoch = f3.lastEpoch
       /\ SameFinality(f3, k)
  BY <1>1, <1>3, <1>14, LinkNonEmptyFacts, LinkNonEmptyFinality
     DEF LinkedOnly
<1> HIDE DEF k
<1>16. SameFinality(f, k)
  BY <1>4, <1>9, <1>12, <1>14, <1>15 DEF SameFinality
<1>17. SameFinality(k, skipEmptyORE(k, n))
  <2> DEFINE m == [k EXCEPT !.lastEpoch = n]
  <2>1. CASE ~k.epochs[n].isEmpty
    BY <2>1 DEF skipEmptyORE, SameFinality
  <2>2. CASE k.epochs[n].isEmpty
    <3>1. skipEmptyORE(k, n) = prepareNRE(m)
      BY <2>2 DEF skipEmptyORE
    <3>2. /\ m \in Fork /\ m.lastEpoch = n
          /\ m.epochs = k.epochs
          /\ m.lastFinalizedBlock = k.lastFinalizedBlock
      BY <1>1, <1>15 DEF Fork
    <3> HIDE DEF m
    <3>3. SameFinality(m, prepareNRE(m))
      BY <1>1, <3>2, PrepareNREFinality
    <3> QED BY <3>1, <3>2, <3>3 DEF SameFinality
  <2> QED BY <2>1, <2>2
<1> QED BY <1>7, <1>16, <1>17 DEF SameFinality, h

(* After submitNRE the layout has one more NRE, and possibly an empty      *)
(* request epoch on top of it.                                             *)
LEMMA AfterNREFinality ==
  ASSUME NEW f, NEW g, ForkInv(f), FinalityInv(f), CanInsertNRE(f),
         InBounds(f), AfterNRE(f, g, f.lastEpoch + 2), SameFinality(f, g)
  PROVE  FinalityInv(g)
<1> DEFINE o == f.lastEpoch
           n == o + 2
           em == f.epochs[n].isEmpty
           E(e) == end(f, e)
           G(e) == end(g, e)
           last == f.lastBlock + NRELength
<1>1. /\ f \in Fork /\ g \in Fork /\ o \in Nat /\ f.lastBlock \in Nat
      /\ f.lastFinalizedBlock \in Nat /\ f.lastFinalizedEpoch \in Nat
      /\ NRELength \in Nat /\ NRELength > 0
  BY ParamsAssumption DEF ForkInv, Fork, AfterNRE
<1>2. \A e \in 0 .. n + 2 : e \in Epochs
  BY <1>1, BoundsAssumption DEF InBounds, Epochs
<1>3. ~Odd(o) /\ Odd(o + 1) /\ ~Odd(n) /\ E(o) = f.lastBlock
  BY <1>1, NREPosition, Parity DEF end
<1>4. \A e \in 0 .. o : G(e) = E(e) /\ E(e) \in Nat /\ e \in Epochs
  <2> TAKE e \in 0 .. o
  <2>1. e \in Epochs /\ e # n /\ e # n + 1
    BY <1>1, <1>2
  <2>2. SameRange(g.epochs[e], f.epochs[e])
    BY <2>1 DEF AfterNRE
  <2> QED BY <1>1, <2>1, <2>2, EndIsNat DEF SameRange, end
<1>5. /\ G(o + 1) = last
      /\ em => G(n) = last
      /\ g.lastBlock = last
      /\ g.lastEpoch = IF em THEN n ELSE o + 1
      /\ g.blocks = f.blocks
      /\ g.lastFinalizedEpoch = f.lastFinalizedEpoch
      /\ g.lastFinalizedBlock = f.lastFinalizedBlock
  <2>1. n - 1 = o + 1
    BY <1>1
  <2>2. em => numBlocks(f.epochs[n]) = 0
    BY DEF numBlocks
  <2>3. last + 0 = last
    BY <1>1
  <2> QED BY <2>1, <2>2, <2>3 DEF AfterNRE, SameFinality, end
<1>6. \A d, e \in 0 .. o :
        d < e => /\ E(d) <= E(e)
                 /\ Odd(e) => E(d) < E(e)
  BY DEF FinalityInv, Layout, EpochsOrdered
<1>7. \A e \in 0 .. o : E(e) <= f.lastBlock /\ E(e) < last
  <2> TAKE e \in 0 .. o
  <2>1. E(e) <= f.lastBlock
    BY <1>1, <1>3, <1>4, <1>6
  <2> QED BY <1>1, <1>4, <2>1
<1>8. ASSUME NEW e \in 0 .. g.lastEpoch
      PROVE  \/ e \in 0 .. o
             \/ e = o + 1
             \/ e = n /\ em
  BY <1>1, <1>5
<1> HIDE DEF E, G, em, last
<1>9. last \in Nat /\ last > f.lastBlock
  BY <1>1 DEF last
<1>10. ASSUME NEW d \in 0 .. g.lastEpoch, NEW e \in 0 .. g.lastEpoch, d < e
       PROVE  G(d) <= G(e) /\ (Odd(e) => G(d) < G(e)) /\ G(d) <= last
  <2>1. CASE e \in 0 .. o
    <3>1. d \in 0 .. o
      BY <1>1, <1>10, <2>1
    <3> QED BY <1>1, <1>4, <1>6, <1>7, <1>9, <1>10, <2>1, <3>1
  <2>2. CASE e = o + 1
    <3>1. d \in 0 .. o
      BY <1>1, <1>10, <2>2
    <3> QED BY <1>4, <1>5, <1>7, <1>9, <2>2, <3>1
  <2>3. CASE e = n /\ em
    <3>1. d \in 0 .. o \/ d = o + 1
      BY <1>1, <1>10, <2>3
    <3> QED BY <1>3, <1>4, <1>5, <1>7, <1>9, <2>3, <3>1
  <2> QED BY <1>8, <2>1, <2>2, <2>3
<1>11. G(g.lastEpoch) = last
  BY <1>5
<1>12. ASSUME NEW b \in Blocks, f.blocks[b].isRequest
       PROVE  LET m == f.blocks[b].epochNumber
              IN /\ b <= last
                 /\ m \in 1 .. g.lastEpoch /\ ~Odd(m) /\ Within(g, b, m)
  <2> DEFINE m == f.blocks[b].epochNumber
  <2>1. /\ b <= f.lastBlock /\ m \in 1 .. o /\ ~Odd(m)
        /\ E(m - 1) < b /\ b <= E(m)
    BY <1>12 DEF FinalityInv, Layout, BlocksPlaced, Within, E
  <2>2. m \in 0 .. o /\ m - 1 \in 0 .. o /\ m \in 1 .. g.lastEpoch
    BY <1>1, <1>5, <2>1
  <2>3. b <= last
    BY <1>1, <1>9, <2>1 DEF Blocks
  <2> QED BY <1>4, <2>1, <2>2, <2>3 DEF Within, G
<1>13. ASSUME NEW m \in 1 .. g.lastEpoch, NEW b \in Blocks, ~Odd(m),
              Within(g, b, m)
       PROVE  f.blocks[b].isRequest
  <2>1. m \in 0 .. g.lastEpoch /\ m # o + 1 /\ m - 1 \in 0 .. g.lastEpoch
    BY <1>1, <1>3, <1>5, <1>13
  <2>2. CASE m \in 0 .. o
    <3>1. m - 1 \in 0 .. o /\ m \in 1 .. o
      BY <1>1, <1>13, <2>2
    <3>2. Within(f, b, m)
      BY <1>4, <1>13, <2>2, <3>1 DEF Within, E, G
    <3>3. b <= f.lastBlock
      BY <1>1, <1>4, <1>7, <2>2, <3>2 DEF Within, E, Blocks
    <3> QED BY <3>1, <3>2, <3>3, <1>13 DEF FinalityInv, Layout, EpochsFilled
  <2>3. CASE m = n /\ em
    <3>1. m - 1 = o + 1
      BY <1>1, <2>3
    <3>2. G(m - 1) = last /\ G(m) = last
      BY <1>5, <2>3, <3>1
    <3> QED BY <1>9, <1>13, <3>2 DEF Within, G, Blocks
  <2> QED BY <1>8, <2>1, <2>2, <2>3
<1>14. Layout(g)
  <2>1. G(0) = 0
    <3>1. 0 \in 0 .. o /\ E(0) = 0
      BY <1>1 DEF FinalityInv, Layout, EpochsOrdered, E
    <3> QED BY <1>4, <3>1
  <2>2. \A b \in Blocks : b > last => ~f.blocks[b].finalized
    <3>1. \A b \in Blocks : b > last => b > f.lastBlock
      BY <1>1, <1>9 DEF Blocks
    <3> QED BY <3>1 DEF FinalityInv, Layout, NothingAhead
  <2>3. last <= G(g.lastEpoch)
    BY <1>9, <1>11
  <2>4. EpochsOrdered(g)
    BY <1>5, <1>10, <2>1, <2>3 DEF EpochsOrdered, G
  <2>5. BlocksPlaced(g)
    BY <1>5, <1>12 DEF BlocksPlaced
  <2>6. EpochsFilled(g)
    BY <1>5, <1>13 DEF EpochsFilled
  <2>7. NothingAhead(g)
    BY <1>5, <2>2 DEF NothingAhead
  <2> QED BY <2>4, <2>5, <2>6, <2>7 DEF Layout
<1>15. CursorsAgree(g)
  <2> DEFINE l == f.lastFinalizedEpoch
  <2>1. l \in 0 .. o /\ f.lastFinalizedBlock <= f.lastBlock
    BY <1>1 DEF FinalityInv, CursorsAgree
  <2>2. l # 0 => l - 1 \in 0 .. o
    BY <1>1, <2>1
  <2>3. G(l) = E(l) /\ (l # 0 => G(l - 1) = E(l - 1))
    BY <1>4, <2>1, <2>2
  <2>4. l <= g.lastEpoch /\ f.lastFinalizedBlock <= last
    BY <1>1, <1>5, <1>9, <2>1
  <2>5. IF Odd(l) \/ l = 0 THEN f.lastFinalizedBlock = E(l)
        ELSE E(l - 1) < f.lastFinalizedBlock /\ f.lastFinalizedBlock <= E(l)
    BY DEF FinalityInv, CursorsAgree, Within, E
  <2> HIDE DEF l
  <2>6. IF Odd(l) \/ l = 0 THEN f.lastFinalizedBlock = G(l)
        ELSE G(l - 1) < f.lastFinalizedBlock /\ f.lastFinalizedBlock <= G(l)
    BY <2>3, <2>5
  <2> QED BY <1>5, <2>4, <2>6 DEF CursorsAgree, Within, G, l
<1>16. PassedIsFinal(g)
  BY <1>5 DEF FinalityInv, PassedIsFinal, SameFinality
<1> QED BY <1>14, <1>15, <1>16 DEF FinalityInv

(* The block that submitORB appends; no other block changes. *)
OneBlockAdded(f, g) ==
  LET b == f.lastBlock + 1
  IN /\ g.blocks[b].isRequest
     /\ g.blocks[b].epochNumber = epochOfNextBlock(f)
     /\ g.blocks[b].requestBlockId = requestBlockIdOfNextBlock(f)
     /\ g.blocks[b].finalized = f.blocks[b].finalized
     /\ \A c \in Blocks : c # b => g.blocks[c] = f.blocks[c]

LEMMA InsertBlockFinality ==
  ASSUME NEW f, ForkInv(f), RangesExist(f), CanInsertBlock(f),
         f.lastBlock < MaxBlock, NEW failed
  PROVE  LET g == insertBlock(f, failed)
         IN OneBlockAdded(f, g) /\ SameFinality(f, g)
<1> DEFINE n == epochOfNextBlock(f)
           b == f.lastBlock + 1
           id == requestBlockIdOfNextBlock(f)
           pb == [f.blocks[b] EXCEPT !.epochNumber = n,
                                     !.requestBlockId = id,
                                     !.timestamp = now,
                                     !.isRequest = TRUE,
                                     !.failed = failed]
           bs == [f.blocks EXCEPT ![b] = pb]
<1>1. f \in Fork /\ f.lastBlock \in Nat /\ b \in Nat
  BY DEF ForkInv, Fork
<1>2. b \in Blocks
  BY <1>1, BoundsAssumption DEF Blocks
<1>3. f.blocks[b] \in PlasmaBlock
  BY <1>1, <1>2 DEF Fork
<1>4. insertBlock(f, failed) =
        [f EXCEPT !.blocks = bs, !.lastEpoch = n, !.lastBlock = b]
  BY <1>1 DEF insertBlock, Fork
<1> HIDE DEF n, id
<1>5. /\ pb.isRequest /\ pb.epochNumber = n /\ pb.requestBlockId = id
      /\ pb.finalized = f.blocks[b].finalized
  BY ZenonT(30), <1>3 DEF PlasmaBlock
<1> HIDE DEF pb
<1>6. bs[b] = pb /\ \A c \in Blocks : c # b => bs[c] = f.blocks[c]
  BY <1>1, <1>2 DEF Fork
<1> HIDE DEF bs
<1>7. LET g == insertBlock(f, failed)
      IN /\ g.epochs = f.epochs
         /\ g.blocks = bs
         /\ g.lastFinalizedBlock = f.lastFinalizedBlock
  BY ZenonT(30), <1>1, <1>4 DEF Fork
<1> QED BY <1>5, <1>6, <1>7 DEF OneBlockAdded, SameFinality, n, id

LEMMA SubmitORBFinality ==
  ASSUME ORBs \in Seq(RequestBlock), now \in Nat,
         NEW f, ForkInv(f), RangesExist(f), CanInsertBlock(f),
         f.lastBlock < MaxBlock, NEW failed \in SUBSET Nat
  PROVE  LET g == afterORB(insertBlock(f, failed))
         IN OneBlockAdded(f, g) /\ SameFinality(f, g)
<1> DEFINE n == epochOfNextBlock(f)
           b == f.lastBlock + 1
           id == requestBlockIdOfNextBlock(f)
           h == insertBlock(f, failed)
           ne == f.epochs[n].numEnter + ORB(id).numEnter
           eq == [f.epochs[n] EXCEPT !.numEnter = ne]
           k == [h EXCEPT !.epochs = [f.epochs EXCEPT ![n] = eq]]
<1>1. n \in Nat /\ n \in Epochs /\ n + 1 \in Epochs
  BY ORBPosition
<1>2. f \in Fork
  BY DEF ForkInv
<1>3. f.epochs[n] \in Epoch /\ f.epochs[n].numEnter \in Nat
  BY ZenonT(30), <1>1, <1>2 DEF Fork, Epoch
<1>4. /\ h \in Fork
      /\ h.epochs = f.epochs
      /\ h.lastBlock = b
      /\ h.lastEpoch = n
      /\ h.blocks[b].requestBlockId = id
  BY ZenonT(30), InsertBlockFacts
<1>5. OneBlockAdded(f, h) /\ SameFinality(f, h)
  BY InsertBlockFinality
<1>6. ORB(id) \in RequestBlock
  BY NextORBExists
<1> HIDE DEF n, id, h
<1>7. ne \in Nat
  BY <1>3, <1>6 DEF RequestBlock
<1>8. afterORB(h) =
        IF b = f.epochs[n].endBlockNumber THEN prepareNRE(k) ELSE k
  <2>1. [h EXCEPT !.epochs[n].numEnter = @ + ORB(id).numEnter] = k
    BY <1>1, <1>2, <1>3, <1>4 DEF Fork
  <2> HIDE DEF k
  <2> QED BY <1>4, <2>1 DEF afterORB
<1> HIDE DEF ne
<1>9. eq \in Epoch /\ eq.finalized = f.epochs[n].finalized
  BY ZenonT(30), <1>3, <1>7 DEF Epoch
<1> DEFINE es == [f.epochs EXCEPT ![n] = eq]
<1> HIDE DEF eq
<1>10. es \in [Epochs -> Epoch]
  BY <1>1, <1>2, <1>9 DEF Fork
<1> HIDE DEF es
<1>11. /\ k \in Fork
       /\ k.epochs = es
       /\ k.blocks = h.blocks
       /\ k.lastEpoch = n
       /\ k.lastFinalizedBlock = h.lastFinalizedBlock
  <2>1. k = [h EXCEPT !.epochs = es]
    BY DEF es
  <2> HIDE DEF k
  <2> QED BY SMTT(60), <1>4, <1>10, <2>1 DEF Fork
<1> HIDE DEF k
<1>12. SameFinality(f, k)
  <2>1. k.lastFinalizedBlock = f.lastFinalizedBlock
    BY <1>5, <1>11 DEF SameFinality
  <2>2. k.epochs = [f.epochs EXCEPT ![n] = eq]
    BY <1>11 DEF es
  <2> QED BY <1>1, <1>2, <1>9, <2>1, <2>2, OneEpochChanged
<1>13. OneBlockAdded(f, k)
  BY <1>5, <1>11 DEF OneBlockAdded
<1>14. SameFinality(k, prepareNRE(k)) /\ prepareNRE(k).blocks = k.blocks
  BY <1>1, <1>11, PrepareNREFacts, PrepareNREFinality DEF SameCursors
<1>15. /\ SameFinality(f, prepareNRE(k))
       /\ OneBlockAdded(f, prepareNRE(k))
  BY <1>12, <1>13, <1>14 DEF SameFinality, OneBlockAdded
<1> QED BY <1>8, <1>12, <1>13, <1>15 DEF h

LEMMA AfterORBFinality ==
  ASSUME NEW f, NEW g, ForkInv(f), RangesExist(f), FinalityInv(f),
         CanInsertBlock(f), f.lastBlock < MaxBlock,
         AfterORB(f, g, epochOfNextBlock(f)),
         OneBlockAdded(f, g), SameFinality(f, g)
  PROVE  FinalityInv(g)
<1> DEFINE o == f.lastEpoch
           n == epochOfNextBlock(f)
           b == f.lastBlock + 1
           E(e) == end(f, e)
           G(e) == end(g, e)
<1>1. /\ f \in Fork /\ g \in Fork /\ o \in Nat /\ f.lastBlock \in Nat
      /\ f.lastFinalizedBlock \in Nat /\ f.lastFinalizedEpoch \in Nat
  BY DEF ForkInv, Fork, AfterORB
<1>2. /\ n \in Nat /\ ~Odd(n) /\ n >= 2 /\ n \in {o, o + 1}
      /\ n \in Epochs /\ b <= E(n)
  BY ORBPosition DEF end
<1>3. b \in Blocks /\ b \in Nat
  BY <1>1, BoundsAssumption DEF Blocks
<1>4. n = o + 1 => E(o) = f.lastBlock
  <2>1. E(o) \in Nat
    BY <1>1, EpochIndices, EndIsNat DEF ForkInv
  <2>2. n = o + 1 => b = E(o) + 1
    BY <1>1 DEF epochOfNextBlock, end
  <2> QED BY <1>1, <2>1, <2>2
<1>5. \A e \in 0 .. n : G(e) = E(e) /\ E(e) \in Nat /\ e \in Epochs
  <2> TAKE e \in 0 .. n
  <2>1. e \in Epochs /\ e # n + 1
    BY <1>2, BoundsAssumption DEF Epochs
  <2>2. SameRange(g.epochs[e], f.epochs[e])
    BY <2>1 DEF AfterORB
  <2> QED BY <1>1, <2>1, <2>2, EndIsNat DEF SameRange, end
<1>6. /\ g.lastBlock = b /\ g.lastEpoch = n
      /\ g.lastFinalizedEpoch = f.lastFinalizedEpoch
      /\ g.lastFinalizedBlock = f.lastFinalizedBlock
  BY DEF AfterORB, SameFinality
<1>7. \A d, e \in 0 .. o :
        d < e => /\ E(d) <= E(e)
                 /\ Odd(e) => E(d) < E(e)
                 /\ E(d) <= f.lastBlock
  BY DEF FinalityInv, Layout, EpochsOrdered
<1>8. /\ g.blocks[b].isRequest
      /\ g.blocks[b].epochNumber = n
      /\ g.blocks[b].finalized = f.blocks[b].finalized
      /\ \A c \in Blocks : c # b => g.blocks[c] = f.blocks[c]
  BY DEF OneBlockAdded
<1> HIDE DEF E, G, n
<1>9. \A e \in 0 .. n : e \in 0 .. o \/ (e = n /\ n = o + 1)
  BY <1>1, <1>2
<1>10. \A d \in 0 .. n : d < n => E(d) <= f.lastBlock
  <2> SUFFICES ASSUME NEW d \in 0 .. n, d < n PROVE E(d) <= f.lastBlock
    OBVIOUS
  <2>1. CASE n = o
    BY <1>1, <1>2, <1>7, <2>1
  <2>2. CASE n = o + 1
    <3>1. d \in 0 .. o /\ o \in 0 .. o /\ (d < o \/ d = o)
      BY <1>1, <2>2
    <3> QED BY <1>1, <1>4, <1>7, <2>2, <3>1
  <2> QED BY <1>2, <2>1, <2>2
<1>11. ASSUME NEW d \in 0 .. n, NEW e \in 0 .. n, d < e
       PROVE  G(d) <= G(e) /\ (Odd(e) => G(d) < G(e)) /\ G(d) <= b
  <2>1. d < n /\ E(d) <= f.lastBlock
    BY <1>2, <1>10, <1>11
  <2>2. CASE e = n
    BY <1>1, <1>2, <1>3, <1>5, <2>1, <2>2
  <2>3. CASE e # n
    <3>1. e \in 0 .. o /\ d \in 0 .. o
      BY <1>1, <1>2, <1>11, <2>3
    <3> QED BY <1>1, <1>3, <1>5, <1>7, <1>11, <2>1, <3>1
  <2> QED BY <2>2, <2>3
<1>12. n - 1 \in 0 .. n /\ E(n - 1) < b
  <2>1. n - 1 \in 0 .. n /\ n - 1 < n
    BY <1>2
  <2> QED BY <1>1, <1>3, <1>5, <1>10, <2>1
<1>13. ASSUME NEW c \in Blocks, g.blocks[c].isRequest
       PROVE  LET m == g.blocks[c].epochNumber
              IN /\ c <= b
                 /\ m \in 1 .. n /\ ~Odd(m) /\ Within(g, c, m)
  <2>1. CASE c = b
    <3>1. n \in 0 .. n /\ n \in 1 .. n
      BY <1>2
    <3>2. G(n) = E(n) /\ G(n - 1) = E(n - 1)
      BY <1>5, <1>12, <3>1
    <3>3. Within(g, b, n)
      BY <1>2, <1>12, <3>2 DEF Within, G
    <3>4. b <= b
      BY <1>3
    <3> QED BY <1>2, <1>8, <2>1, <3>1, <3>3, <3>4
  <2>2. CASE c # b
    <3> DEFINE m == f.blocks[c].epochNumber
    <3>1. g.blocks[c] = f.blocks[c]
      BY <1>8, <2>2
    <3>2. /\ c <= f.lastBlock /\ m \in 1 .. o /\ ~Odd(m)
          /\ E(m - 1) < c /\ c <= E(m)
      BY <1>13, <3>1 DEF FinalityInv, Layout, BlocksPlaced, Within, E
    <3> HIDE DEF m
    <3>3. m \in 0 .. n /\ m - 1 \in 0 .. n /\ m \in 1 .. n /\ c <= b
      BY <1>1, <1>2, <3>2 DEF Blocks
    <3>4. Within(g, c, m)
      BY <1>5, <3>2, <3>3 DEF Within, G
    <3> QED BY <3>1, <3>2, <3>3, <3>4 DEF m
  <2> QED BY <2>1, <2>2
<1>14. ASSUME NEW m \in 1 .. n, NEW c \in Blocks, ~Odd(m), Within(g, c, m),
              c <= b
       PROVE  g.blocks[c].isRequest
  <2>1. CASE c = b
    BY <1>8, <2>1
  <2>2. CASE c # b
    <3>1. m \in 0 .. n /\ m - 1 \in 0 .. n /\ m - 1 < n
      BY <1>2
    <3>2. E(m - 1) < c /\ c <= E(m)
      BY <1>5, <1>14, <3>1 DEF Within, G
    <3>3. c <= f.lastBlock /\ c \in Nat
      BY <1>1, <1>14, <2>2 DEF Blocks
    <3>4. m \in 1 .. o
      <4> SUFFICES ASSUME m = o + 1 PROVE FALSE
        BY <1>1, <1>2
      <4>1. n = o + 1 /\ m - 1 = o
        BY <1>1, <1>2
      <4> QED BY <1>1, <1>4, <3>2, <3>3, <4>1
    <3>5. Within(f, c, m)
      BY <3>2 DEF Within, E
    <3>6. f.blocks[c].isRequest
      BY <1>14, <3>3, <3>4, <3>5 DEF FinalityInv, Layout, EpochsFilled
    <3> QED BY <1>8, <2>2, <3>6
  <2> QED BY <2>1, <2>2
<1>15. Layout(g)
  <2>1. G(0) = 0
    <3>1. 0 \in 0 .. n /\ E(0) = 0
      BY <1>2 DEF FinalityInv, Layout, EpochsOrdered, E
    <3> QED BY <1>5, <3>1
  <2>2. \A c \in Blocks : c > b => ~g.blocks[c].finalized
    <3>1. \A c \in Blocks : c > b => c > f.lastBlock /\ c # b
      BY <1>1 DEF Blocks
    <3> QED BY <1>8, <3>1 DEF FinalityInv, Layout, NothingAhead
  <2>3. b <= G(n)
    BY <1>2, <1>5
  <2>4. EpochsOrdered(g)
    BY <1>6, <1>11, <2>1, <2>3 DEF EpochsOrdered, G
  <2>5. BlocksPlaced(g)
    BY <1>6, <1>13 DEF BlocksPlaced
  <2>6. EpochsFilled(g)
    BY <1>6, <1>14 DEF EpochsFilled
  <2>7. NothingAhead(g)
    BY <1>6, <2>2 DEF NothingAhead
  <2> QED BY <2>4, <2>5, <2>6, <2>7 DEF Layout
<1>16. CursorsAgree(g)
  <2> DEFINE l == f.lastFinalizedEpoch
  <2>1. l \in 0 .. o /\ f.lastFinalizedBlock <= f.lastBlock
    BY <1>1 DEF FinalityInv, CursorsAgree
  <2>2. l \in 0 .. n /\ (l # 0 => l - 1 \in 0 .. n)
    BY <1>1, <1>2, <2>1
  <2>3. G(l) = E(l) /\ (l # 0 => G(l - 1) = E(l - 1))
    BY <1>5, <2>2
  <2>4. l <= n /\ f.lastFinalizedBlock <= b
    BY <1>1, <1>2, <2>1
  <2>5. IF Odd(l) \/ l = 0 THEN f.lastFinalizedBlock = E(l)
        ELSE E(l - 1) < f.lastFinalizedBlock /\ f.lastFinalizedBlock <= E(l)
    BY DEF FinalityInv, CursorsAgree, Within, E
  <2> HIDE DEF l
  <2>6. IF Odd(l) \/ l = 0 THEN f.lastFinalizedBlock = G(l)
        ELSE G(l - 1) < f.lastFinalizedBlock /\ f.lastFinalizedBlock <= G(l)
    BY <2>3, <2>5
  <2> QED BY <1>6, <2>4, <2>6 DEF CursorsAgree, Within, G, l
<1>17. PassedIsFinal(g)
  <2>1. ASSUME NEW c \in Blocks, g.blocks[c].isRequest
        PROVE  g.blocks[c].finalized <=> c <= f.lastFinalizedBlock
    <3>1. CASE c = b
      <4>1. ~f.blocks[b].finalized
        <5>1. b > f.lastBlock
          BY <1>1
        <5> QED BY <1>3, <5>1 DEF FinalityInv, Layout, NothingAhead
      <4>2. ~(b <= f.lastFinalizedBlock)
        BY <1>1 DEF FinalityInv, CursorsAgree
      <4> QED BY <1>8, <3>1, <4>1, <4>2
    <3>2. CASE c # b
      BY <1>8, <2>1, <3>2 DEF FinalityInv, PassedIsFinal
    <3> QED BY <3>1, <3>2
  <2> QED BY <1>6, <2>1 DEF FinalityInv, PassedIsFinal, SameFinality
<1> QED BY <1>15, <1>16, <1>17 DEF FinalityInv

-----------------------------------------------------------------------------
(* The constructor, and the steps. *)

LEMMA InitFinality == Init => FinalityInv(fork)
<1> SUFFICES ASSUME Init PROVE FinalityInv(fork)
  OBVIOUS
<1> DEFINE f == GenesisFork
<1>1. fork = prepareNRE(f)
  BY DEF Init, InitFork
<1>2. /\ fork \in Fork /\ fork.lastEpoch = 0 /\ fork.lastBlock = 0
      /\ fork.lastFinalizedEpoch = 0
      /\ \A e \in Epochs :
           fork.epochs[e].endBlockNumber = IF e = 1 THEN NRELength ELSE 0
  BY InitForkFacts DEF Init
<1>3. ZeroEpoch \in Epoch /\ ZeroBlock \in PlasmaBlock
  BY ZenonT(30) DEF ZeroEpoch, Epoch, ZeroBlock, PlasmaBlock
<1>4. \A x \in BOOLEAN :
        LET pb == [ZeroBlock EXCEPT !.finalized = x]
        IN pb \in PlasmaBlock /\ pb.isRequest = FALSE /\ pb.finalized = x
  BY ZenonT(30) DEF ZeroBlock, PlasmaBlock
<1>5. \A b \in Blocks : /\ f.blocks[b] \in PlasmaBlock
                        /\ f.blocks[b].isRequest = FALSE
                        /\ f.blocks[b].finalized = (b = 0)
  <2> TAKE b \in Blocks
  <2>1. f.blocks[b] = [ZeroBlock EXCEPT !.finalized = (b = 0)]
    BY DEF GenesisFork
  <2>2. (b = 0) \in BOOLEAN
    OBVIOUS
  <2> HIDE DEF f
  <2> QED BY ZenonT(30), <1>4, <2>1, <2>2
<1>6. /\ [ZeroEpoch EXCEPT !.initialized = TRUE, !.finalized = TRUE] \in Epoch
      /\ [ZeroEpoch EXCEPT !.isEmpty = TRUE, !.isRequest = TRUE] \in Epoch
      /\ [ZeroEpoch EXCEPT !.isEmpty = TRUE, !.isRequest = TRUE].finalized
           = FALSE
      /\ ZeroEpoch.finalized = FALSE
  BY ZenonT(30), <1>3 DEF Epoch, ZeroEpoch
<1>7. \A e \in Epochs : /\ f.epochs[e] \in Epoch
                        /\ e # 0 => f.epochs[e].finalized = FALSE
  BY ZenonT(30), <1>3, <1>6 DEF GenesisFork
<1>8. f \in Fork
  <2>1. f.epochs \in [Epochs -> Epoch]
    BY <1>7 DEF GenesisFork
  <2>2. f.blocks \in [Blocks -> PlasmaBlock]
    BY ZenonT(30), <1>5 DEF GenesisFork
  <2> QED BY <2>1, <2>2 DEF GenesisFork, Fork
<1>9. f.lastEpoch = 0 /\ f.lastFinalizedBlock = 0 /\ 0 + 1 \in Epochs
  BY BoundsAssumption DEF GenesisFork, Epochs
<1> HIDE DEF f
<1>10. SameFinality(f, fork) /\ fork.blocks = f.blocks
  BY <1>1, <1>8, <1>9, PrepareNREFacts, PrepareNREFinality DEF SameCursors
<1>11. /\ fork.lastFinalizedBlock = 0
       /\ \A e \in Epochs : e # 0 => ~fork.epochs[e].finalized
       /\ \A b \in Blocks : /\ ~fork.blocks[b].isRequest
                            /\ b > 0 => ~fork.blocks[b].finalized
  <2>1. \A b \in Blocks : b > 0 => b # 0
    BY DEF Blocks
  <2> QED BY <1>5, <1>7, <1>9, <1>10, <2>1 DEF SameFinality
<1>12. end(fork, 0) = 0
  BY <1>2, BoundsAssumption DEF end, Epochs
<1>13. Layout(fork)
  BY <1>2, <1>11, <1>12 DEF Layout, EpochsOrdered, BlocksPlaced, EpochsFilled,
                            NothingAhead
<1>14. CursorsAgree(fork)
  BY <1>2, <1>11, <1>12 DEF CursorsAgree
<1>15. PassedIsFinal(fork)
  <2>1. \A e \in Epochs : Odd(e) => e # 0 /\ ~(e <= 0)
    BY DEF Epochs, Odd
  <2> QED BY <1>2, <1>11, <2>1 DEF PassedIsFinal
<1> QED BY <1>13, <1>14, <1>15 DEF FinalityInv

LEMMA SubmitNREKeeps ==
  ASSUME IInv, FinalityInv(fork), submitNRE
  PROVE  FinalityInv(fork')
<1> DEFINE f == finalizeBlocks(fork)
<1>1. /\ TypeOK /\ ForkInv(fork) /\ RangesExist(fork) /\ OpenTail(fork)
      /\ EpochCursors
  BY DEF IInv
<1>2. FinalizedOnly(fork, f)
  BY <1>1, FinalizeBlocksFacts DEF TypeOK, ForkInv
<1>3. FinalityInv(f)
  BY <1>1, FinalizeBlockFinality
<1>4. /\ CanInsertNRE(f) /\ InBounds(f)
      /\ fork' = prepareORE(insertNRE(f))
  BY DEF submitNRE, CanSubmitNRE, PrepareORE
<1> HIDE DEF f
<1>5. ForkInv(f) /\ RangesExist(f)
  BY <1>1, <1>2, FinalizedOnlyKeeps
<1>6. AfterNRE(f, fork', f.lastEpoch + 2)
  BY <1>1, <1>4, <1>5, SubmitNREFacts
<1>7. SameFinality(f, fork')
  BY <1>1, <1>4, <1>5, SubmitNREFinality
<1> QED BY <1>3, <1>4, <1>5, <1>6, <1>7, AfterNREFinality

LEMMA SubmitORBKeeps ==
  ASSUME IInv, FinalityInv(fork), submitORB
  PROVE  FinalityInv(fork')
<1> DEFINE f == finalizeBlocks(fork)
           rb == ORB(requestBlockIdOfNextBlock(f))
<1>1. TypeOK /\ ForkInv(fork) /\ RangesExist(fork) /\ OpenTail(fork)
  BY DEF IInv
<1>2. FinalizedOnly(fork, f)
  BY <1>1, FinalizeBlocksFacts DEF TypeOK, ForkInv
<1>3. FinalityInv(f)
  BY <1>1, FinalizeBlockFinality
<1>4. CanInsertBlock(f) /\ f.lastBlock < MaxBlock
  BY DEF submitORB, CanSubmitORB
<1>5. PICK failed \in SUBSET (rb.requestStart .. rb.requestEnd) :
        fork' = afterORB(insertBlock(f, failed))
  BY DEF submitORB
<1> HIDE DEF f
<1>6. ForkInv(f) /\ RangesExist(f)
  BY <1>1, <1>2, FinalizedOnlyKeeps
<1>7. rb \in RequestBlock
  BY <1>1, <1>4, <1>6, NextORBExists DEF TypeOK
<1>8. failed \in SUBSET Nat
  BY <1>5, <1>7 DEF RequestBlock
<1> HIDE DEF rb
<1>9. AfterORB(f, fork', epochOfNextBlock(f))
  BY <1>1, <1>4, <1>5, <1>6, <1>8, SubmitORBFacts DEF TypeOK
<1>10. OneBlockAdded(f, fork') /\ SameFinality(f, fork')
  BY <1>1, <1>4, <1>5, <1>6, <1>8, SubmitORBFinality DEF TypeOK
<1> QED BY <1>3, <1>4, <1>6, <1>9, <1>10, AfterORBFinality

LEMMA NextFinality ==
  ASSUME IInv, FinalityInv(fork), [Next]_vars
  PROVE  FinalityInv(fork')
<1>1. CASE submitNRE
  BY <1>1, SubmitNREKeeps
<1>2. CASE submitORB
  BY <1>2, SubmitORBKeeps
<1>3. CASE finalizeBlockExternal
  BY <1>3, FinalizeBlockFinality DEF finalizeBlockExternal, IInv
<1>4. CASE startEnter \/ startExit
  BY <1>4 DEF startEnter, startExit, storeRequest
<1>5. CASE \E b \in Blocks, i \in 0 .. MAX_REQUESTS - 1 : challengeExit(b, i)
  BY <1>5 DEF challengeExit
<1>6. CASE finalizeRequest
  BY <1>6 DEF finalizeRequest
<1>7. CASE Tick
  BY <1>7 DEF Tick
<1>8. CASE UNCHANGED vars
  BY <1>8 DEF vars
<1> QED BY <1>1, <1>2, <1>3, <1>4, <1>5, <1>6, <1>7, <1>8 DEF Next

LEMMA FinalityInvThm == Spec => []FinalityInv(fork)
<1>1. FinalityInv(fork) /\ IInv /\ [Next]_vars => FinalityInv(fork)'
  BY NextFinality
<1> QED BY <1>1, InitFinality, IInvThm, PTL DEF Spec

(* The request blocks and non-request epochs that are final are exactly    *)
(* those up to lastFinalizedBlock, for all epoch lengths and challenge     *)
(* periods, although _finalizeBlock keeps its position in two cursors and  *)
(* jumps over an epoch's blocks at once.                                   *)
THEOREM FinalizedPrefixThm == Spec => []FinalizedPrefix
<1>1. IInv /\ FinalityInv(fork) => FinalizedPrefix
  BY PrefixFollows DEF IInv
<1> QED BY <1>1, FinalityInvThm, IInvThm, PTL
=============================================================================
