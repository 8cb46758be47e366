------------------------- MODULE OperatorNodeProofs -------------------------
(***************************************************************************)
(* Proofs about OperatorNode for every epoch length, every bound, every    *)
(* schedule of its goroutines and any number of faults of every kind.      *)
(***************************************************************************)
EXTENDS OperatorNode, FiniteSetTheorems, TLAPS

-----------------------------------------------------------------------------
(***************************************************************************)
(* Types, and that what the goroutines refer to exists.                    *)
(***************************************************************************)
Block == [number : Nat \ {0}, request : BOOLEAN, body : Seq(Nat), whole : BOOLEAN]

EpochType == [isRequest : BOOLEAN, isEmpty : BOOLEAN, start : Nat, end : Nat, at : Nat]

EnvType == [epochNumber : Nat, isRequest : BOOLEAN, completed : BOOLEAN,
            numBlockMined : Nat, epochLength : Int, start : Nat, end : Nat]

StarterType == [pc : {"kind", "count", "range", "resume", "stop"}, epoch : Nat]

HandlerType == [pc : {"idle", "fetch", "wait", "relock"}, epoch : Nat, mined : Nat,
                live : BOOLEAN]

ResultType == [pc : {"idle", "count", "submitter", "handler"}, block : Block \cup {None},
               handler : Nat]

\* The epochs announced; a non-request epoch has a first block.
EpochsInv ==
  /\ epochs \in Seq(EpochType) /\ Len(epochs) >= 1 /\ rootBlock \in Nat
  /\ \A e \in 1 .. Len(epochs) :
       ~epochs[e].isRequest => 1 <= epochs[e].start /\ epochs[e].start <= epochs[e].end

\* The epochs that events and goroutines are about have been announced.
RefsInv ==
  /\ inbox \in Seq(Nat) /\ \A i \in 1 .. Len(inbox) : inbox[i] \in 1 .. Len(epochs)
  /\ past \in Seq(Nat) /\ \A i \in 1 .. Len(past) : past[i] \in 1 .. Len(epochs)
  /\ starters \subseteq StarterType
  /\ \A s \in starters :
       s.pc \in {"kind", "count", "range"} => s.epoch \in 1 .. Len(epochs)
  /\ handler \in HandlerType
  /\ handler.pc # "idle" => handler.epoch \in 1 .. Len(epochs)

EnvInv ==
  /\ env \in EnvType
  /\ db \in [env : EnvType, rootchainBlockNumber : Nat]
  /\ pendingRtx \in Seq(Nat)

TypeInv == EpochsInv /\ RefsInv /\ EnvInv

(***************************************************************************)
(* Where blocks are.  Mined: on the chain, at its number.  Offered: at most *)
(* one number above the head, so that when it is above the head it is next. *)
(***************************************************************************)
Mined(b) == b \in Block /\ b.number <= Len(chain) /\ chain[b.number] = b

Offered(b) == b \in Block /\ b.number <= Len(chain) + 1

ChainInv == chain \in Seq(Block) /\ \A n \in 1 .. Len(chain) : chain[n].number = n

WorkerInv ==
  /\ building = None \/ Offered(building)
  /\ sealing = None \/ Offered(sealing)
  /\ results \in Seq(Block) /\ \A i \in 1 .. Len(results) : Offered(results[i])
  /\ result \in ResultType
  /\ result.pc # "idle" => Mined(result.block)
  /\ submitter = None \/ Mined(submitter)

(***************************************************************************)
(* A submission of a request block is a block of the chain.  One of a       *)
(* non-request epoch may have been made of blocks that did not exist yet;   *)
(* if its first and its last exist, it is a part of the chain.              *)
(***************************************************************************)
RawType == [func : {"submitNRE", "submitORB"}, epoch : Nat,
            blocks : Seq(Block \cup {None, NRB(0)})]

Contiguous(bs) ==
  \A i \in 1 .. Len(bs) : Mined(bs[i]) /\ bs[i].number = bs[1].number + i - 1

RawOK(r) ==
  /\ r \in RawType
  /\ r.func = "submitORB" => Len(r.blocks) = 1 /\ Mined(r.blocks[1])
  /\ r.func = "submitNRE" /\ r.blocks # <<>> /\ r.blocks[1].number # 0
       /\ r.blocks[Len(r.blocks)].number # 0 => Contiguous(r.blocks)

RawsInv ==
  /\ raws \in Seq(RawType)
  /\ \A i \in 1 .. Len(raws) : RawOK(raws[i])
  /\ sent \in 0 .. Len(raws)

AcceptedInv ==
  /\ accepted \in Seq(Block) /\ Len(accepted) <= Len(chain)
  /\ \A n \in 1 .. Len(accepted) : accepted[n] = chain[n]

MinedInv == ChainInv /\ WorkerInv /\ RawsInv /\ AcceptedInv

IInv == TypeInv /\ MinedInv

-----------------------------------------------------------------------------
(***************************************************************************)
(* The types: one lemma per action that changes a variable of TypeInv.     *)
(***************************************************************************)
LEMMA FieldsOfEpoch ==
  ASSUME NEW e \in EpochType
  PROVE  /\ e.isRequest \in BOOLEAN /\ e.isEmpty \in BOOLEAN
         /\ e.start \in Nat /\ e.end \in Nat /\ e.at \in Nat
  BY DEF EpochType

LEMMA ConcatSeq ==
  ASSUME NEW S, NEW s \in Seq(S), NEW t \in Seq(S)
  PROVE  s \o t \in Seq(S) /\ Len(s \o t) = Len(s) + Len(t)
  OBVIOUS

\* The epochs only grow, so that what refers to one keeps doing so.
LEMMA AnnounceTypes ==
  ASSUME TypeInv, NEW n \in 0 .. MaxORBs, NEW nre \in BOOLEAN, Announce(Prepared(nre, n)),
         rootBlock' \in Nat, UNCHANGED <<past, starters, handler>>
  PROVE  EpochsInv' /\ RefsInv'
  <1> DEFINE new == Prepared(nre, n)
             b   == epochs[Len(epochs)].end
  <1>1. /\ epochs \in Seq(EpochType) /\ Len(epochs) >= 1 /\ rootBlock \in Nat
        /\ inbox \in Seq(Nat)
    BY DEF TypeInv, EpochsInv, RefsInv
  <1>2. b \in Nat
    <2>1. epochs[Len(epochs)] \in EpochType
      BY <1>1
    <2> QED BY <2>1, FieldsOfEpoch
  <1>3. n \in Nat /\ NRELength \in Nat /\ NRELength >= 1
    BY OperatorNodeAssumptions
  <1> HIDE DEF new, b
  <1>4. /\ new \in Seq(EpochType) /\ Len(new) \in 1 .. 2
        /\ \A i \in 1 .. Len(new) :
             ~new[i].isRequest => 1 <= new[i].start /\ new[i].start <= new[i].end
    <2> DEFINE x == Epoch(FALSE, b + 1, b + NRELength, rootBlock + 1)
               y == EmptyEpoch(b, rootBlock + 1)
               z == Epoch(TRUE, b + 1, b + n, rootBlock + 1)
    <2>1. /\ x \in EpochType /\ y \in EpochType /\ z \in EpochType
          /\ x.start = b + 1 /\ x.end = b + NRELength /\ y.isRequest /\ z.isRequest
      <3>1. /\ rootBlock + 1 \in Nat /\ b + 1 \in Nat /\ b + NRELength \in Nat
            /\ b + n \in Nat
        BY <1>1, <1>2, <1>3
      <3>2. x \in EpochType /\ x.start = b + 1 /\ x.end = b + NRELength
        BY <3>1, Zenon DEF Epoch, EpochType
      <3>3. y \in EpochType /\ y.isRequest
        BY <1>2, <3>1, Zenon DEF EmptyEpoch, EpochType
      <3>4. z \in EpochType /\ z.isRequest
        BY <3>1, Zenon DEF Epoch, EpochType
      <3> QED BY <3>2, <3>3, <3>4, Zenon
    <2>2. new = <<x>> \/ new = <<y, x>> \/ new = <<z>>
      BY Zenon DEF Prepared, LastEpoch, new, b
    <2>3. b + 1 >= 1 /\ b + 1 <= b + NRELength
      BY <1>2, <1>3
    <2> HIDE DEF x, y, z
    <2>4. CASE new = <<x>>
      BY <2>1, <2>3, <2>4
    <2>5. CASE new = <<y, x>>
      BY <2>1, <2>3, <2>5
    <2>6. CASE new = <<z>>
      BY <2>1, <2>6
    <2> QED BY <2>2, <2>4, <2>5, <2>6
  <1>5. /\ epochs' = epochs \o new
        /\ inbox' = inbox \/ inbox' = inbox \o [i \in 1 .. Len(new) |-> Len(epochs) + i]
    BY DEF Announce, new
  <1>6. /\ epochs' \in Seq(EpochType) /\ Len(epochs') = Len(epochs) + Len(new)
        /\ \A e \in 1 .. Len(epochs') :
             \/ e \in 1 .. Len(epochs) /\ epochs'[e] = epochs[e]
             \/ e - Len(epochs) \in 1 .. Len(new) /\ epochs'[e] = new[e - Len(epochs)]
    BY <1>1, <1>4, <1>5
  <1>7. EpochsInv'
    <2>1. ASSUME NEW e \in 1 .. Len(epochs'), ~epochs'[e].isRequest
          PROVE  1 <= epochs'[e].start /\ epochs'[e].start <= epochs'[e].end
      BY <1>4, <1>6, <2>1, SMTT(30) DEF TypeInv, EpochsInv
    <2> QED BY <1>1, <1>4, <1>6, <2>1 DEF EpochsInv
  <1>8. Len(epochs') \in Nat /\ Len(epochs') >= Len(epochs)
    BY <1>1, <1>4, <1>6
  <1>9. inbox' \in Seq(Nat) /\ \A i \in 1 .. Len(inbox') : inbox'[i] \in 1 .. Len(epochs')
    <2>1. CASE inbox' = inbox
      BY <1>1, <1>8, <2>1 DEF TypeInv, RefsInv
    <2>2. CASE inbox' = inbox \o [i \in 1 .. Len(new) |-> Len(epochs) + i]
      <3> DEFINE ids == [i \in 1 .. Len(new) |-> Len(epochs) + i]
      <3>1. ids \in Seq(Nat) /\ Len(ids) = Len(new)
            /\ \A i \in 1 .. Len(ids) : ids[i] = Len(epochs) + i
        BY <1>1, <1>4
      <3>2. inbox' = inbox \o ids
        BY <2>2
      <3> HIDE DEF ids
      <3>3. inbox' \in Seq(Nat) /\ Len(inbox') = Len(inbox) + Len(ids)
        BY <1>1, <3>1, <3>2, ConcatSeq, Zenon
      <3>4. ASSUME NEW i \in 1 .. Len(inbox')
            PROVE  inbox'[i] \in 1 .. Len(epochs')
        <4>1. CASE i <= Len(inbox)
          <5>1. inbox'[i] = inbox[i] /\ i \in 1 .. Len(inbox)
            BY <1>1, <3>1, <3>2, <3>3, <4>1
          <5>2. inbox[i] \in 1 .. Len(epochs)
            BY <5>1 DEF TypeInv, RefsInv
          <5> QED BY <1>1, <1>8, <5>1, <5>2
        <4>2. CASE i > Len(inbox)
          <5>1. inbox'[i] = ids[i - Len(inbox)] /\ i - Len(inbox) \in 1 .. Len(ids)
            BY <1>1, <3>1, <3>2, <3>3, <4>2
          <5>2. ids[i - Len(inbox)] = Len(epochs) + (i - Len(inbox))
            BY <3>1, <5>1
          <5>3. Len(epochs) \in Nat /\ Len(new) \in Nat /\ Len(inbox) \in Nat
            BY <1>1, <1>4
          <5> QED BY <1>6, <3>1, <5>1, <5>2, <5>3, SMTT(30)
        <4> QED BY <1>1, <3>3, <4>1, <4>2
      <3> QED BY <3>3, <3>4
    <2> QED BY <1>5, <2>1, <2>2, Zenon
  <1>10. RefsInv'
    BY <1>1, <1>8, <1>9 DEF TypeInv, RefsInv
  <1> QED BY <1>7, <1>10

LEMMA EnvFields ==
  ASSUME EpochsInv, NEW v \in EnvType, NEW e \in 1 .. Len(epochs)
  PROVE  /\ [v EXCEPT !.isRequest = epochs[e].isRequest] \in EnvType
         /\ SetCount(v, e) \in EnvType
         /\ SetRange(v, e) \in EnvType
  <1>1. epochs[e] \in EpochType /\ e \in Nat
    BY DEF EpochsInv
  <1>2. /\ epochs[e].isRequest \in BOOLEAN /\ epochs[e].start \in Nat
        /\ epochs[e].end \in Nat
    BY <1>1, FieldsOfEpoch
  <1>3. epochs[e].end - epochs[e].start + 1 \in Int
    BY <1>2
  <1>7. [v EXCEPT !.isRequest = epochs[e].isRequest] \in EnvType
    BY <1>2 DEF EnvType
  <1>8. SetCount(v, e) \in EnvType
    BY <1>3, Zenon DEF SetCount, EnvType
  <1>9. SetRange(v, e) \in EnvType
    BY <1>1, <1>2, Zenon DEF SetRange, EnvType
  <1> QED BY <1>7, <1>8, <1>9

LEMMA CountedType ==
  ASSUME NEW v \in EnvType
  PROVE  Counted(v) \in EnvType
  <1>1. v.numBlockMined \in Nat /\ v.completed \in BOOLEAN
    BY DEF EnvType
  <1>2. v.numBlockMined + 1 \in Nat
    BY <1>1
  <1> QED BY <1>1, <1>2, Zenon DEF Counted, EnvType

LEMMA NewEnvType == NewEnv \in EnvType
  BY DEF NewEnv, EnvType

LEMMA TailKeeps ==
  ASSUME NEW S, NEW q \in Seq(Nat), q # <<>>, \A i \in 1 .. Len(q) : q[i] \in S
  PROVE  /\ Tail(q) \in Seq(Nat) /\ \A i \in 1 .. Len(Tail(q)) : Tail(q)[i] \in S
         /\ Head(q) \in S
  OBVIOUS

LEMMA ExecuteTypes ==
  ASSUME TypeInv, Execute
  PROVE  TypeInv'
  <1>1. EnvInv'
    BY DEF Execute, TypeInv, EnvInv
  <1>2. rootBlock' \in Nat /\ UNCHANGED <<past, starters, handler>>
    BY DEF Execute, TypeInv, EpochsInv
  <1>3. CASE \E n \in 0 .. MaxORBs :
               Announce(Prepared(Head(raws).func = "submitNRE", n))
    <2> PICK n \in 0 .. MaxORBs : Announce(Prepared(Head(raws).func = "submitNRE", n))
      BY <1>3
    <2>1. EpochsInv' /\ RefsInv'
      BY <1>2, AnnounceTypes, Zenon
    <2> QED BY <1>1, <2>1 DEF TypeInv
  <1>4. CASE UNCHANGED <<epochs, inbox>>
    BY <1>1, <1>2, <1>4 DEF TypeInv, EpochsInv, RefsInv
  <1> QED BY <1>3, <1>4 DEF Execute

\* The environment of a starter is set from an epoch that exists.
LEMMA MinerStartTypes ==
  ASSUME TypeInv, MinerStart
  PROVE  TypeInv'
  <1> PICK s \in starters :
        StartRefused(s) \/ StartKind(s) \/ StartCount(s) \/ StartRange(s)
        \/ Resume(s) \/ ResumeStop(s)
    BY DEF MinerStart
  <1>1. s \in StarterType /\ starters \subseteq StarterType
    BY DEF TypeInv, RefsInv
  <1>2. s.pc \in {"kind", "count", "range"} => s.epoch \in 1 .. Len(epochs)
    BY DEF TypeInv, RefsInv
  <1>3. /\ env \in EnvType /\ db \in [env : EnvType, rootchainBlockNumber : Nat]
        /\ EpochsInv
    BY DEF TypeInv, EnvInv
  <1>4. UNCHANGED <<epochs, rootBlock, inbox, past, handler, pendingRtx>>
    BY DEF MinerStart, contract, manager
  <1>5. EpochsInv'
    BY <1>4 DEF TypeInv, EpochsInv
  <1>6. ASSUME env' \in EnvType, db' = db \/ db' = [db EXCEPT !.env = env']
        PROVE  EnvInv'
    <2>1. db' \in [env : EnvType, rootchainBlockNumber : Nat]
      BY <1>3, <1>6
    <2> QED BY <1>4, <1>6, <2>1 DEF TypeInv, EnvInv
  <1>7. ASSUME \A t \in starters' :
                 \/ t \in starters
                 \/ /\ t \in StarterType /\ t.epoch = s.epoch
                    /\ t.pc \in {"count", "range"} => s.pc \in {"kind", "count"}
                    /\ t.pc # "kind"
        PROVE  RefsInv'
    <2>1. starters' \subseteq StarterType
      BY <1>1, <1>7
    <2>2. ASSUME NEW t \in starters', t.pc \in {"kind", "count", "range"}
          PROVE  t.epoch \in 1 .. Len(epochs)
      BY <1>2, <1>7, <2>2 DEF TypeInv, RefsInv
    <2> QED BY <1>4, <2>1, <2>2 DEF TypeInv, RefsInv
  <1>8. CASE StartRefused(s) \/ ResumeStop(s)
    <2>1. env' \in EnvType /\ db' = db /\ starters' = starters \ {s}
      BY <1>3, <1>8 DEF StartRefused, ResumeStop
    <2> QED BY <1>5, <1>6, <1>7, <2>1 DEF TypeInv
  <1>9. CASE StartKind(s)
    <2>1. env' \in EnvType
      BY <1>2, <1>3, <1>9, EnvFields DEF StartKind, SetKind
    <2>2. /\ [s EXCEPT !.pc = "count"] \in StarterType
          /\ [s EXCEPT !.pc = "count"].epoch = s.epoch
          /\ [s EXCEPT !.pc = "count"].pc = "count"
      BY <1>1 DEF StarterType
    <2> QED BY <1>5, <1>6, <1>7, <1>9, <2>1, <2>2, Zenon DEF StartKind, TypeInv
  <1>10. CASE StartCount(s)
    <2>1. env' \in EnvType
      BY <1>2, <1>3, <1>10, EnvFields, Zenon DEF StartCount
    <2>2. /\ [s EXCEPT !.pc = "range"] \in StarterType
          /\ [s EXCEPT !.pc = "range"].epoch = s.epoch
          /\ [s EXCEPT !.pc = "range"].pc = "range"
      BY <1>1 DEF StarterType
    <2> QED BY <1>5, <1>6, <1>7, <1>10, <2>1, <2>2, Zenon DEF StartCount, TypeInv
  <1>11. CASE StartRange(s)
    <2>1. s.epoch \in 1 .. Len(epochs)
      BY <1>2, <1>11 DEF StartRange
    <2>2. env' \in EnvType
      <3>1. SetKind(s.epoch) \in EnvType
        BY <1>3, <2>1, EnvFields DEF SetKind
      <3>2. SetCount(SetKind(s.epoch), s.epoch) \in EnvType
        BY <1>3, <2>1, <3>1, EnvFields, Zenon
      <3>3. SetRange(SetCount(SetKind(s.epoch), s.epoch), s.epoch) \in EnvType
        BY <1>3, <2>1, <3>2, EnvFields, Zenon
      <3>4. SetRange(env, s.epoch) \in EnvType
        BY <1>3, <2>1, EnvFields, Zenon
      <3> QED BY <1>11, <3>3, <3>4 DEF StartRange
    <2> QED BY <1>5, <1>6, <1>7, <1>11, <2>2 DEF StartRange, TypeInv
  <1>12. CASE Resume(s)
    <2>1. /\ [s EXCEPT !.pc = "stop"] \in StarterType
          /\ [s EXCEPT !.pc = "stop"].epoch = s.epoch
          /\ [s EXCEPT !.pc = "stop"].pc = "stop"
      BY <1>1 DEF StarterType
    <2>2. \A t \in starters' : t \in starters \/ t = [s EXCEPT !.pc = "stop"]
      BY <1>12 DEF Resume
    <2>3. env' \in EnvType /\ db' = db
      BY <1>3, <1>12 DEF Resume
    <2> QED BY <1>5, <1>6, <1>7, <2>1, <2>2, <2>3, Zenon DEF TypeInv
  <1> QED BY <1>8, <1>9, <1>10, <1>11, <1>12

LEMMA EventsSinceRefs ==
  ASSUME epochs \in Seq(EpochType), NEW n \in Nat
  PROVE  /\ EventsSince(n) \in Seq(Nat)
         /\ \A i \in 1 .. Len(EventsSince(n)) : EventsSince(n)[i] \in 1 .. Len(epochs)
  <1> DEFINE S == {i \in DOMAIN epochs : epochs[i].at < n}
             k == Cardinality(S)
  <1>1. Len(epochs) \in Nat /\ S \subseteq 1 .. Len(epochs)
    OBVIOUS
  <1>2. IsFiniteSet(1 .. Len(epochs)) /\ Cardinality(1 .. Len(epochs)) = Len(epochs)
    <2>1. /\ IsFiniteSet(1 .. Len(epochs))
          /\ Cardinality(1 .. Len(epochs)) =
               IF 1 > Len(epochs) THEN 0 ELSE Len(epochs) - 1 + 1
      <3>1. 1 \in Int /\ Len(epochs) \in Int
        BY <1>1
      <3> HIDE DEF S, k
      <3> QED BY ONLY <3>1, FS_Interval
    <2>2. (IF 1 > Len(epochs) THEN 0 ELSE Len(epochs) - 1 + 1) = Len(epochs)
      BY <1>1
    <2> QED BY <2>1, <2>2
  <1>3. IsFiniteSet(S) /\ k <= Len(epochs)
    BY <1>1, <1>2, FS_Subset
  <1>4. k \in Nat
    BY <1>3, FS_CardinalityType
  <1>5. EventsSince(n) = [i \in 1 .. (Len(epochs) - k) |-> k + i]
    BY DEF EventsSince
  <1> HIDE DEF S, k
  <1>6. Len(epochs) - k \in Nat
    BY <1>1, <1>3, <1>4
  <1>7. EventsSince(n) \in Seq(Nat) /\ Len(EventsSince(n)) = Len(epochs) - k
    BY <1>4, <1>5, <1>6
  <1> QED BY <1>1, <1>4, <1>5, <1>6, <1>7

LEMMA HandledType ==
  ASSUME TypeInv, NEW live, NEW e \in 1 .. Len(epochs)
  PROVE  Handled(live, e) \in [env : EnvType, rootchainBlockNumber : Nat]
  <1>1. epochs[e].at \in Nat
    BY FieldsOfEpoch DEF TypeInv, EpochsInv
  <1> QED BY <1>1 DEF Handled, TypeInv, EnvInv

LEMMA HandleTypes ==
  ASSUME TypeInv, HandleNext
  PROVE  TypeInv'
  <1>1. UNCHANGED <<epochs, rootBlock, env, pendingRtx>>
    BY DEF HandleNext, contract
  <1> DEFINE live == watch # "iterate"
             e == IF live THEN Head(inbox) ELSE Head(past)
  <1>2. /\ HandleEpochPrepared(e, live)
        /\ live \in BOOLEAN
        /\ \/ past # <<>> /\ past' = Tail(past) /\ inbox' = inbox /\ e = Head(past)
           \/ inbox # <<>> /\ inbox' = Tail(inbox) /\ past' = past /\ e = Head(inbox)
    BY Zenon DEF HandleNext
  <1> HIDE DEF e, live
  <1>3. /\ inbox' \in Seq(Nat) /\ \A i \in 1 .. Len(inbox') : inbox'[i] \in 1 .. Len(epochs)
        /\ past' \in Seq(Nat) /\ \A i \in 1 .. Len(past') : past'[i] \in 1 .. Len(epochs)
        /\ e \in 1 .. Len(epochs)
    BY <1>2, TailKeeps, ZenonT(30) DEF TypeInv, RefsInv
  <1>4. e \in Nat
    BY <1>3
  <1>5. [pc |-> "kind", epoch |-> e] \in StarterType
    BY <1>4 DEF StarterType
  <1>6. [pc |-> "fetch", epoch |-> e, mined |-> 0, live |-> live] \in HandlerType
    BY <1>2, <1>4 DEF HandlerType
  <1>7. /\ starters' = starters \/ starters' = starters \cup {[pc |-> "kind", epoch |-> e]}
        /\ \/ handler' = handler
           \/ handler' = [pc |-> "fetch", epoch |-> e, mined |-> 0, live |-> live]
        /\ db' = db \/ db' = Handled(live, e)
    BY <1>2 DEF HandleEpochPrepared
  <1>8. /\ starters' \subseteq StarterType
        /\ \A s \in starters' :
             s.pc \in {"kind", "count", "range"} => s.epoch \in 1 .. Len(epochs)
    BY <1>3, <1>5, <1>7 DEF TypeInv, RefsInv
  <1>9. /\ handler' \in HandlerType
        /\ handler'.pc # "idle" => handler'.epoch \in 1 .. Len(epochs)
    BY <1>3, <1>6, <1>7 DEF TypeInv, RefsInv
  <1>10. db' \in [env : EnvType, rootchainBlockNumber : Nat]
    BY <1>3, <1>7, HandledType DEF TypeInv, EnvInv
  <1> QED BY <1>1, <1>3, <1>8, <1>9, <1>10 DEF TypeInv, EpochsInv, RefsInv, EnvInv

LEMMA EnqueueType ==
  ASSUME TypeInv, handler.pc # "idle", NEW k \in Nat
  PROVE  Enqueue(k) \in Seq(Nat)
  <1>1. epochs[handler.epoch].start \in Nat
    BY FieldsOfEpoch DEF TypeInv, EpochsInv, RefsInv
  <1>2. epochs[handler.epoch].start + k \in Nat /\ pendingRtx \in Seq(Nat)
    BY <1>1 DEF TypeInv, EnvInv
  <1> QED BY <1>2 DEF Enqueue

\* The steps of the event handler.
LEMMA HandlerTypes ==
  ASSUME TypeInv, FetchRequests \/ FetchFails \/ PostToHandler \/ FinishRequestEpoch
  PROVE  TypeInv'
  <1>1. UNCHANGED <<epochs, rootBlock, inbox, past, starters, env>>
    BY DEF FetchRequests, FetchFails, PostToHandler, FinishRequestEpoch, contract
  <1>2. handler \in HandlerType /\ handler.mined \in Nat /\ handler.mined + 1 \in Nat
    BY DEF TypeInv, RefsInv, HandlerType
  <1>3. /\ handler' \in HandlerType
        /\ handler'.pc # "idle" => handler.pc # "idle" /\ handler'.epoch = handler.epoch
    <2>1. CASE FetchFails \/ FinishRequestEpoch
      <3>1. handler' = Idle
        BY <2>1 DEF FetchFails, FinishRequestEpoch
      <3>2. Idle \in HandlerType /\ Idle.pc = "idle"
        BY DEF Idle, HandlerType
      <3> QED BY <3>1, <3>2
    <2>2. CASE FetchRequests
      BY <1>2, <2>2 DEF FetchRequests, HandlerType
    <2>3. CASE PostToHandler
      <3>1. \/ handler' = [handler EXCEPT !.mined = handler.mined + 1]
            \/ handler' = [handler EXCEPT !.mined = handler.mined + 1, !.pc = "relock"]
        BY <2>3 DEF PostToHandler
      <3>2. handler.pc = "wait"
        BY <2>3 DEF PostToHandler
      <3> QED BY <1>2, <3>1, <3>2, Zenon DEF HandlerType
    <2> QED BY <2>1, <2>2, <2>3
  <1>4. pendingRtx' \in Seq(Nat)
    <2>1. CASE FetchFails \/ FinishRequestEpoch
      BY <2>1 DEF FetchFails, FinishRequestEpoch, TypeInv, EnvInv
    <2>2. CASE FetchRequests
      BY <2>2, EnqueueType DEF FetchRequests
    <2>3. CASE PostToHandler
      <3>1. pendingRtx' = pendingRtx \/ pendingRtx' = Enqueue(handler.mined + 1)
        BY <2>3 DEF PostToHandler
      <3>2. handler.pc # "idle"
        BY <2>3 DEF PostToHandler
      <3> QED BY <1>2, <3>1, <3>2, EnqueueType, SMTT(30) DEF TypeInv, EnvInv
    <2> QED BY <2>1, <2>2, <2>3
  <1>5. db' \in [env : EnvType, rootchainBlockNumber : Nat]
    <2>1. CASE FinishRequestEpoch
      <3>1. handler.epoch \in 1 .. Len(epochs)
        BY <2>1 DEF FinishRequestEpoch, TypeInv, RefsInv
      <3> QED BY <2>1, <3>1, HandledType DEF FinishRequestEpoch
    <2>2. CASE ~FinishRequestEpoch
      BY <2>2 DEF FetchRequests, FetchFails, PostToHandler, TypeInv, EnvInv
    <2> QED BY <2>1, <2>2
  <1> QED BY <1>1, <1>3, <1>4, <1>5 DEF TypeInv, EpochsInv, RefsInv, EnvInv

LEMMA DownTypes ==
  ASSUME TypeInv, Down
  PROVE  TypeInv'
  <1>1. Idle \in HandlerType /\ Idle.pc = "idle"
    BY DEF Idle, HandlerType
  <1>2. UNCHANGED <<epochs, rootBlock, db>>
    BY DEF Down, contract
  <1>3. /\ handler' = Idle /\ inbox' = <<>> /\ past' = <<>> /\ starters' = {}
        /\ pendingRtx' = <<>> /\ env' = NewEnv
    BY DEF Down
  <1> QED BY <1>1, <1>2, <1>3, NewEnvType DEF TypeInv, EpochsInv, RefsInv, EnvInv

LEMMA BootTypes ==
  ASSUME TypeInv, Boot
  PROVE  TypeInv'
  <1>1. /\ db.env \in EnvType /\ db.rootchainBlockNumber \in Nat
        /\ epochs \in Seq(EpochType)
    BY DEF TypeInv, EpochsInv, EnvInv
  <1>2. past' \in Seq(Nat) /\ \A i \in 1 .. Len(past') : past'[i] \in 1 .. Len(epochs)
    BY <1>1, EventsSinceRefs, Zenon DEF Boot
  <1>3. /\ UNCHANGED <<epochs, rootBlock, inbox, starters, handler, db, pendingRtx>>
        /\ env' \in EnvType
    BY <1>1 DEF Boot, contract
  <1> QED BY <1>2, <1>3 DEF TypeInv, EpochsInv, RefsInv, EnvInv

LEMMA SubscribeTypes ==
  ASSUME TypeInv, Subscribe
  PROVE  TypeInv'
  <1>1. /\ [pc |-> "resume", epoch |-> 0] \in StarterType
        /\ [pc |-> "resume", epoch |-> 0].pc = "resume"
    BY DEF StarterType
  <1>2. UNCHANGED <<epochs, rootBlock, inbox, past, handler, db, env, pendingRtx>>
    BY DEF Subscribe, contract
  <1>3. starters' = starters \cup {[pc |-> "resume", epoch |-> 0]}
    BY DEF Subscribe
  <1>4. /\ starters' \subseteq StarterType
        /\ \A s \in starters' :
             s.pc \in {"kind", "count", "range"} => s.epoch \in 1 .. Len(epochs)
    BY <1>1, <1>3 DEF TypeInv, RefsInv
  <1> QED BY <1>2, <1>4 DEF TypeInv, EpochsInv, RefsInv, EnvInv

LEMMA CountBlockTypes ==
  ASSUME TypeInv, CountBlock
  PROVE  TypeInv'
  <1>1. UNCHANGED <<epochs, rootBlock, inbox, past, starters, handler>>
    BY DEF CountBlock, contract, manager
  <1>2. env' \in EnvType
    BY CountedType DEF CountBlock, TypeInv, EnvInv
  <1>3. /\ db' \in [env : EnvType, rootchainBlockNumber : Nat]
        /\ pendingRtx' \in Seq(Nat)
    BY <1>2, SMTT(30) DEF CountBlock, TypeInv, EnvInv
  <1> QED BY <1>1, <1>2, <1>3 DEF TypeInv, EpochsInv, RefsInv, EnvInv

\* The other steps change nothing of what TypeInv is about.
LEMMA QuietTypes ==
  ASSUME TypeInv,
         UNCHANGED <<epochs, rootBlock, inbox, past, starters, handler, env, db,
                     pendingRtx>>
  PROVE  TypeInv'
  BY DEF TypeInv, EpochsInv, RefsInv, EnvInv

LEMMA TypesStep ==
  ASSUME TypeInv, [Next]_vars
  PROVE  TypeInv'
  <1>1. CASE SyncStarts \/ SyncEnds \/ BuildBlock \/ NothingToBuild \/ CommitBlock
             \/ SealBlock \/ WriteBlock \/ PostToSubmitter \/ PostToNobody
             \/ WatchEnds \/ Submit
    <2>1. UNCHANGED <<epochs, rootBlock, inbox, past, starters, handler, env, db,
                      pendingRtx>>
      BY <1>1, Zenon DEF SyncStarts, SyncEnds, BuildBlock, NothingToBuild, CommitBlock,
           SealBlock, WriteBlock, PostToSubmitter, PostToNobody, WatchEnds, Submit,
           contract, manager
    <2> QED BY <2>1, QuietTypes
  <1>2. CASE UNCHANGED vars
    BY <1>2, QuietTypes DEF vars, contract, manager
  <1>3. CASE Crash \/ PostOtherBlock
    BY <1>3, DownTypes DEF Crash, PostOtherBlock
  <1> QED BY <1>1, <1>2, <1>3, ExecuteTypes, MinerStartTypes, CountBlockTypes,
             BootTypes, SubscribeTypes, HandleTypes, HandlerTypes DEF Next

-----------------------------------------------------------------------------
(***************************************************************************)
(* The blocks.  The chain only grows, so a mined block stays mined and an   *)
(* offered one stays offered.                                              *)
(***************************************************************************)
Grows ==
  /\ chain' \in Seq(Block) /\ Len(chain') >= Len(chain)
  /\ \A n \in 1 .. Len(chain) : chain'[n] = chain[n]

LEMMA MinedStays ==
  ASSUME ChainInv, Grows, NEW b, Mined(b)
  PROVE  Mined(b)'
  <1>1. b \in Block /\ b.number \in Nat /\ b.number >= 1 /\ b.number <= Len(chain)
    BY DEF Mined, Block
  <1>2. Len(chain) \in Nat /\ Len(chain') \in Nat
    BY DEF ChainInv, Grows
  <1> QED BY <1>1, <1>2 DEF Mined, Grows

LEMMA OfferedStays ==
  ASSUME ChainInv, Grows, NEW b, Offered(b)
  PROVE  Offered(b)'
  <1>1. b \in Block /\ b.number \in Nat
    BY DEF Offered, Block
  <1>2. Len(chain) \in Nat /\ Len(chain') \in Nat
    BY DEF ChainInv, Grows
  <1> QED BY <1>1, <1>2 DEF Offered, Grows

LEMMA MinedIsOffered ==
  ASSUME ChainInv, NEW b, Mined(b)
  PROVE  Offered(b)
  <1>1. b \in Block /\ b.number \in Nat
    BY DEF Mined, Block
  <1>2. Len(chain) \in Nat
    BY DEF ChainInv
  <1> QED BY <1>1, <1>2 DEF Mined, Offered

LEMMA RawStays ==
  ASSUME ChainInv, Grows, NEW r, RawOK(r)
  PROVE  RawOK(r)'
  <1>1. \A b : Mined(b) => Mined(b)'
    BY MinedStays
  <1> QED BY <1>1 DEF RawOK, Contiguous

LEMMA SameGrows ==
  ASSUME ChainInv, UNCHANGED chain
  PROVE  Grows /\ ChainInv'
  BY DEF ChainInv, Grows

LEMMA RawsStay ==
  ASSUME ChainInv, Grows, RawsInv, UNCHANGED <<raws, sent>>
  PROVE  RawsInv'
  BY RawStays DEF RawsInv

LEMMA AcceptedStay ==
  ASSUME ChainInv, Grows, AcceptedInv, UNCHANGED accepted
  PROVE  AcceptedInv'
  <1>1. Len(chain) \in Nat /\ Len(chain') \in Nat /\ Len(accepted) \in Nat
    BY DEF ChainInv, Grows, AcceptedInv
  <1> QED BY <1>1 DEF AcceptedInv, Grows

LEMMA WorkerStays ==
  ASSUME ChainInv, Grows, WorkerInv,
         UNCHANGED <<building, sealing, results, result, submitter>>
  PROVE  WorkerInv'
  <1>1. \A b : (Mined(b) => Mined(b)') /\ (Offered(b) => Offered(b)')
    BY MinedStays, OfferedStays
  <1> QED BY <1>1 DEF WorkerInv

\* Steps that touch neither chain nor contract nor raw transactions.
LEMMA WorkerSteps ==
  ASSUME MinedInv, WorkerInv', UNCHANGED <<chain, raws, sent, accepted>>
  PROVE  MinedInv'
  BY SameGrows, RawsStay, AcceptedStay DEF MinedInv

LEMMA BuildBlockMined ==
  ASSUME TypeInv, MinedInv, BuildBlock
  PROVE  MinedInv'
  <1>1. UNCHANGED <<chain, raws, sent, accepted, sealing, results, result, submitter>>
    BY DEF BuildBlock, contract, txManager, manager
  <1>2. Len(chain) \in Nat /\ pendingRtx \in Seq(Nat)
    BY DEF MinedInv, ChainInv, TypeInv, EnvInv
  <1>3. Offered(building')
    <2>1. /\ ORB(Len(chain) + 1, pendingRtx, TRUE) \in Block
          /\ ORB(Len(chain) + 1, pendingRtx, TRUE).number = Len(chain) + 1
      BY <1>2 DEF ORB, Block
    <2>2. NRB(Len(chain) + 1) \in Block /\ NRB(Len(chain) + 1).number = Len(chain) + 1
      BY <1>2 DEF NRB, Block
    <2>3. building' \in Block /\ building'.number = Len(chain) + 1
      BY <2>1, <2>2, Zenon DEF BuildBlock
    <2> QED BY <1>2, <2>3 DEF Offered
  <1>5. WorkerInv'
    BY <1>1, <1>3 DEF WorkerInv, MinedInv, Offered, Mined
  <1> QED BY <1>1, <1>5, WorkerSteps

LEMMA CommitBlockMined ==
  ASSUME MinedInv, CommitBlock
  PROVE  MinedInv'
  <1>1. /\ UNCHANGED <<chain, raws, sent, accepted, results, result, submitter>>
        /\ building' = None
    BY DEF CommitBlock, contract, txManager, manager
  <1>2. building \in Block /\ Offered(building) /\ building.whole \in BOOLEAN
    BY DEF CommitBlock, MinedInv, WorkerInv, Offered, Block
  <1>3. sealing' = None \/ Offered(sealing')
    <2>1. ASSUME NEW w \in BOOLEAN
          PROVE  Offered([building EXCEPT !.whole = w])
      <3>1. /\ [building EXCEPT !.whole = w] \in Block
            /\ [building EXCEPT !.whole = w].number = building.number
        BY <1>2 DEF Block
      <3> QED BY <1>2, <3>1 DEF Offered
    <2>2. \/ sealing' = sealing
          \/ \E w \in BOOLEAN : sealing' = [building EXCEPT !.whole = w]
      BY <1>2, Zenon DEF CommitBlock
    <2> QED BY <2>1, <2>2 DEF MinedInv, WorkerInv
  <1>4. WorkerInv'
    BY <1>1, <1>3 DEF WorkerInv, MinedInv, Offered, Mined
  <1> QED BY <1>1, <1>4, WorkerSteps

LEMMA SealBlockMined ==
  ASSUME MinedInv, SealBlock
  PROVE  MinedInv'
  <1>1. /\ UNCHANGED <<chain, raws, sent, accepted, building, result, submitter>>
        /\ sealing' = None
    BY DEF SealBlock, contract, txManager, manager
  <1>2. sealing \in Block /\ Offered(sealing) /\ results \in Seq(Block)
    BY DEF SealBlock, MinedInv, WorkerInv, Offered
  <1>3. results' = Append(results, sealing) \/ results' = results
    BY DEF SealBlock
  <1>4. results' \in Seq(Block) /\ \A i \in 1 .. Len(results') : Offered(results'[i])
    BY <1>2, <1>3 DEF MinedInv, WorkerInv
  <1>5. WorkerInv'
    BY <1>1, <1>4 DEF WorkerInv, MinedInv, Offered, Mined
  <1> QED BY <1>1, <1>5, WorkerSteps

\* The step the chain grows by: an offered block above the head is the next.
LEMMA WriteBlockMined ==
  ASSUME MinedInv, WriteBlock
  PROVE  MinedInv'
  <1>0. PICK b : b = Head(results)
    OBVIOUS
  <1>1. /\ UNCHANGED <<raws, sent, accepted, building, sealing, submitter>>
        /\ results # <<>> /\ results' = Tail(results)
    BY DEF WriteBlock, contract, txManager, manager
  <1>2. /\ ChainInv /\ Len(chain) \in Nat /\ results \in Seq(Block) /\ WorkerInv
        /\ chain \in Seq(Block)
    BY DEF MinedInv, WorkerInv, ChainInv
  <1>3. /\ results' \in Seq(Block) /\ \A i \in 1 .. Len(results') : Offered(results'[i])
        /\ b \in Block /\ Offered(b)
    <2>1. /\ \A i \in 1 .. Len(Tail(results)) : Tail(results)[i] = results[i + 1]
          /\ Len(Tail(results)) = Len(results) - 1 /\ Tail(results) \in Seq(Block)
          /\ Len(results) \in Nat /\ Len(results) >= 1 /\ b = results[1]
      BY <1>0, <1>1, <1>2
    <2> QED BY <1>1, <1>2, <2>1 DEF WorkerInv, Offered
  <1>4. CASE UNCHANGED <<chain, result>>
    <2>1. WorkerInv'
      BY <1>1, <1>2, <1>3, <1>4 DEF WorkerInv, Offered, Mined
    <2> QED BY <1>1, <1>4, <2>1, WorkerSteps
  <1>5. CASE /\ b.number > Len(chain) /\ chain' = Append(chain, b)
             /\ result' = [pc |-> "count", block |-> b, handler |-> 0]
    <2>1. b.number = Len(chain) + 1
      BY <1>2, <1>3, <1>5 DEF Offered, Block
    <2>2. /\ chain' \in Seq(Block) /\ Len(chain') = Len(chain) + 1
          /\ \A n \in 1 .. Len(chain) : chain'[n] = chain[n]
          /\ chain'[Len(chain) + 1] = b
      BY <1>2, <1>3, <1>5
    <2>3. Grows
      BY <1>2, <2>2 DEF Grows
    <2>4. ChainInv'
      BY <1>2, <2>1, <2>2 DEF ChainInv
    <2>5. Mined(b)'
      BY <1>2, <1>3, <2>1, <2>2 DEF Mined
    <2>6. result'.block = b /\ result' \in ResultType
      BY <1>3, <1>5 DEF ResultType
    <2>7. \A c : (Mined(c) => Mined(c)') /\ (Offered(c) => Offered(c)')
      BY <1>2, <2>3, MinedStays, OfferedStays
    <2>8. WorkerInv'
      BY <1>1, <1>2, <1>3, <2>5, <2>6, <2>7 DEF WorkerInv
    <2> QED BY <1>1, <1>2, <2>3, <2>4, <2>8, RawsStay, AcceptedStay DEF MinedInv
  <1> QED BY <1>0, <1>4, <1>5 DEF WriteBlock

\* The block the result loop has written is counted and posted.
LEMMA ResultMined ==
  ASSUME MinedInv, CountBlock \/ PostToSubmitter \/ PostToNobody \/ PostToHandler,
         TypeInv
  PROVE  MinedInv'
  <1>1. UNCHANGED <<chain, raws, sent, accepted, building, sealing, results>>
    BY DEF CountBlock, PostToSubmitter, PostToNobody, PostToHandler, contract, txManager
  <1>2. result \in ResultType /\ result.pc # "idle" /\ Mined(result.block)
    BY DEF CountBlock, PostToSubmitter, PostToNobody, PostToHandler, MinedInv, WorkerInv
  <1>3. Waiting \in ResultType /\ Waiting.pc = "idle"
    BY DEF Waiting, ResultType
  <1>4. handler.epoch \in Nat
    BY DEF TypeInv, RefsInv, HandlerType
  <1>5. \/ result' = Waiting
        \/ result' = [result EXCEPT !.pc = "handler"]
        \/ result' = [result EXCEPT !.pc = "submitter", !.handler = handler.epoch]
    BY DEF CountBlock, PostToSubmitter, PostToNobody, PostToHandler
  <1>6. result' \in ResultType /\ (result'.pc # "idle" => result'.block = result.block)
    BY <1>2, <1>3, <1>4, <1>5, Zenon DEF ResultType
  <1>7. submitter' = submitter \/ submitter' = result.block
    BY DEF CountBlock, PostToSubmitter, PostToNobody, PostToHandler, manager
  <1>8. WorkerInv'
    BY <1>1, <1>2, <1>6, <1>7 DEF WorkerInv, MinedInv, Offered, Mined
  <1> QED BY <1>1, <1>8, WorkerSteps

LEMMA DownMined ==
  ASSUME MinedInv, Down
  PROVE  MinedInv'
  <1>1. UNCHANGED <<chain, raws, sent, accepted>>
    BY DEF Down, contract, txManager
  <1>2. Waiting \in ResultType /\ Waiting.pc = "idle"
    BY DEF Waiting, ResultType
  <1>3. /\ building' = None /\ sealing' = None /\ results' = <<>> /\ result' = Waiting
        /\ submitter' = None
    BY DEF Down
  <1>4. WorkerInv'
    BY <1>2, <1>3 DEF WorkerInv
  <1> QED BY <1>1, <1>4, WorkerSteps

LEMMA SubscribeMined ==
  ASSUME MinedInv, Subscribe
  PROVE  MinedInv'
  <1>1. /\ UNCHANGED <<chain, raws, accepted, building, sealing, results, result,
                       submitter>>
        /\ sent' = Len(raws)
    BY DEF Subscribe, contract, worker
  <1>2. Grows /\ ChainInv'
    BY <1>1, SameGrows DEF MinedInv
  <1>3. RawsInv'
    BY <1>1, <1>2, RawStays DEF MinedInv, RawsInv
  <1> QED BY <1>1, <1>2, <1>3, WorkerStays, AcceptedStay DEF MinedInv

\* A submission is made of the mined block, or read from the chain.
LEMMA SubmissionOK ==
  ASSUME TypeInv, MinedInv, Mined(submitter)
  PROVE  \A r \in Submission(submitter) : RawOK(r)
  <1> DEFINE orb == [func |-> "submitORB", epoch |-> 0, blocks |-> <<submitter>>]
             bs  == [i \in 1 .. (env.end - env.start + 1) |-> BlockAt(env.start + i - 1)]
             nre == [func |-> "submitNRE", epoch |-> env.epochNumber, blocks |-> bs]
             B   == Block \cup {None, NRB(0)}
  <1>1. /\ env.start \in Nat /\ env.end \in Nat /\ env.epochNumber \in Nat
        /\ ChainInv /\ chain \in Seq(Block) /\ Len(chain) \in Nat
    BY DEF TypeInv, EnvInv, EnvType, MinedInv, ChainInv
  <1>2. submitter \in Block
    BY DEF Mined
  <1>3. RawOK(orb)
    <2>1. /\ <<submitter>> \in Seq(B) /\ Len(<<submitter>>) = 1
          /\ <<submitter>>[1] = submitter
      BY <1>2
    <2>2. orb \in RawType
      BY <2>1 DEF RawType
    <2> QED BY <2>1, <2>2 DEF RawOK
  <1>4. \A m \in Nat : BlockAt(m) \in B
    BY <1>1 DEF BlockAt
  <1>5. PICK L \in Nat : /\ bs = [i \in 1 .. L |-> BlockAt(env.start + i - 1)]
                         /\ L # 0 => L = env.end - env.start + 1
    <2>1. CASE env.end - env.start + 1 \in Nat
      BY <2>1
    <2>2. CASE env.end - env.start + 1 < 0
      <3>1. 1 .. (env.end - env.start + 1) = 1 .. 0
        BY <1>1, <2>2
      <3>2. bs = [i \in 1 .. 0 |-> BlockAt(env.start + i - 1)]
        BY <3>1
      <3> QED BY <3>2, Zenon
    <2> QED BY <1>1, <2>1, <2>2
  <1> HIDE DEF bs, B
  <1>6. bs \in Seq(B) /\ Len(bs) = L
    <2>1. \A i \in 1 .. L : env.start + i - 1 \in Nat
      BY <1>1
    <2>2. \A i \in 1 .. L : BlockAt(env.start + i - 1) \in B
      BY <1>4, <2>1
    <2> QED BY <1>5, <2>2
  <1>7. ASSUME bs # <<>>, bs[1].number # 0, bs[Len(bs)].number # 0
        PROVE  Contiguous(bs)
    <2>1. Len(bs) >= 1 /\ L # 0
      BY <1>6, <1>7
    <2>2. Len(bs) = env.end - env.start + 1
      BY <1>5, <1>6, <2>1
    <2>3. \A i \in 1 .. Len(bs) : bs[i] = BlockAt(env.start + i - 1)
      BY <1>5, <1>6
    <2>4. bs[1] = BlockAt(env.start) /\ bs[Len(bs)] = BlockAt(env.end)
      <3>1. env.start + 1 - 1 = env.start /\ env.start + Len(bs) - 1 = env.end
        BY <1>1, <2>2, <2>1
      <3>2. 1 \in 1 .. Len(bs) /\ Len(bs) \in 1 .. Len(bs)
        BY <1>1, <2>1, <2>2
      <3> QED BY <2>3, <3>1, <3>2
    <2>5. \A m : BlockAt(m).number # 0 => m \in 1 .. Len(chain)
      BY <1>1 DEF BlockAt, None, NRB
    <2>6. env.start \in 1 .. Len(chain) /\ env.end \in 1 .. Len(chain)
      BY <1>7, <2>4, <2>5
    <2>7. \A m \in 1 .. Len(chain) : Mined(BlockAt(m)) /\ BlockAt(m).number = m
      BY <1>1 DEF BlockAt, ChainInv, Mined
    <2>8. ASSUME NEW i \in 1 .. Len(bs)
          PROVE  Mined(bs[i]) /\ bs[i].number = env.start + i - 1
      <3>1. env.start + i - 1 \in 1 .. Len(chain)
        BY <1>1, <2>2, <2>6
      <3> QED BY <2>3, <2>7, <3>1
    <2>9. bs[1].number = env.start
      BY <2>4, <2>6, <2>7
    <2> QED BY <2>8, <2>9 DEF Contiguous
  <1>8. RawOK(nre)
    <2>1. nre \in RawType
      BY <1>1, <1>6 DEF RawType, B
    <2> QED BY <1>7, <2>1 DEF RawOK
  <1>9. \/ Submission(submitter) = {orb} \/ Submission(submitter) = {nre}
        \/ Submission(submitter) = {}
    BY DEF Submission, bs
  <1> HIDE DEF orb, nre
  <1> QED BY <1>3, <1>8, <1>9

LEMMA SubmitMined ==
  ASSUME TypeInv, MinedInv, Submit
  PROVE  MinedInv'
  <1>1. /\ UNCHANGED <<chain, accepted, building, sealing, results, result>>
        /\ submitter # None /\ submitter' = None
        /\ Add(Submission(submitter))
        /\ sent' = sent \/ sent' = Len(raws')
    BY DEF Submit, contract, worker
  <1>2. Grows /\ ChainInv' /\ ChainInv
    BY <1>1, SameGrows DEF MinedInv
  <1>3. Mined(submitter)
    BY <1>1 DEF MinedInv, WorkerInv
  <1>4. \/ raws' = raws
        \/ \E r : RawOK(r) /\ raws' = Append(raws, r)
    BY <1>1, <1>3, SubmissionOK DEF Add
  <1>5. /\ raws \in Seq(RawType) /\ Len(raws) \in Nat /\ sent \in 0 .. Len(raws)
        /\ \A i \in 1 .. Len(raws) : RawOK(raws[i])
    BY DEF MinedInv, RawsInv
  <1>6. /\ raws' \in Seq(RawType) /\ Len(raws') \in Nat /\ Len(raws') >= Len(raws)
        /\ \A i \in 1 .. Len(raws') : RawOK(raws'[i])
    <2>1. ASSUME NEW r, RawOK(r), raws' = Append(raws, r)
          PROVE  /\ raws' \in Seq(RawType) /\ Len(raws') \in Nat
                 /\ Len(raws') >= Len(raws)
                 /\ \A i \in 1 .. Len(raws') : RawOK(raws'[i])
      <3>1. r \in RawType
        BY <2>1 DEF RawOK
      <3>2. /\ raws' \in Seq(RawType) /\ Len(raws') = Len(raws) + 1
            /\ \A i \in 1 .. Len(raws) : raws'[i] = raws[i]
            /\ raws'[Len(raws) + 1] = r
        BY <1>5, <2>1, <3>1
      <3> QED BY <1>5, <2>1, <3>2
    <2> QED BY <1>4, <1>5, <2>1
  <1>7. \A x : RawOK(x) => RawOK(x)'
    BY <1>2, RawStays
  <1>8. sent' \in 0 .. Len(raws')
    BY <1>1, <1>5, <1>6
  <1>9. RawsInv'
    BY <1>6, <1>7, <1>8 DEF RawsInv
  <1>10. WorkerInv'
    BY <1>1 DEF MinedInv, WorkerInv, Mined, Offered
  <1> QED BY <1>1, <1>2, <1>9, <1>10, AcceptedStay DEF MinedInv

\* What the contract accepts continues what it has accepted with blocks of the
\* chain.
LEMMA AcceptedMined ==
  ASSUME TypeInv, MinedInv, NEW raw, RawOK(raw),
         IF raw.func = "submitNRE" THEN AcceptsNRE(raw) ELSE AcceptsORB(raw)
  PROVE  /\ raw.blocks \in Seq(Block) /\ Len(raw.blocks) >= 1
         /\ \A i \in 1 .. Len(raw.blocks) :
              Mined(raw.blocks[i]) /\ raw.blocks[i].number = Len(accepted) + i
  <1> DEFINE bs == raw.blocks
  <1>1. /\ raw.func = "submitNRE" \/ raw.func = "submitORB"
        /\ bs \in Seq(Block \cup {None, NRB(0)}) /\ Len(bs) \in Nat
    BY DEF RawOK, RawType
  <1>2. accepted \in Seq(Block) /\ Len(accepted) \in Nat
    BY DEF MinedInv, AcceptedInv
  <1> HIDE DEF bs
  <1>3. CASE raw.func = "submitORB"
    <2>1. Len(bs) = 1 /\ Mined(bs[1]) /\ bs[1].number = Len(accepted) + 1
      BY <1>3 DEF RawOK, AcceptsORB, bs
    <2>2. bs[1] \in Block
      BY <2>1 DEF Mined
    <2>3. bs \in Seq(Block)
      <3>1. \A i \in 1 .. Len(bs) : bs[i] \in Block
        BY <2>1, <2>2
      <3> QED BY <1>1, <3>1
    <2> QED BY <2>1, <2>3 DEF bs
  <1>4. CASE raw.func = "submitNRE"
    <2>1. /\ bs # <<>> /\ bs[1].number = Len(accepted) + 1
          /\ bs[Len(bs)].number = epochs[Len(epochs)].end
          /\ ~epochs[Len(epochs)].isRequest
      BY <1>4 DEF AcceptsNRE, LastEpoch, bs
    <2>2. epochs[Len(epochs)].end # 0
      <3>1. Len(epochs) \in 1 .. Len(epochs) /\ epochs \in Seq(EpochType)
        BY DEF TypeInv, EpochsInv
      <3>2. epochs[Len(epochs)] \in EpochType
        BY <3>1
      <3>3. epochs[Len(epochs)].start \in Nat /\ epochs[Len(epochs)].end \in Nat
        BY <3>2, FieldsOfEpoch
      <3> QED BY <2>1, <3>1, <3>3 DEF TypeInv, EpochsInv
    <2>3. bs[1].number # 0
      BY <1>2, <2>1
    <2>4. Contiguous(bs)
      BY <1>4, <2>1, <2>2, <2>3 DEF RawOK, bs
    <2>5. \A i \in 1 .. Len(bs) : Mined(bs[i]) /\ bs[i].number = Len(accepted) + 1 + i - 1
      BY <2>1, <2>4 DEF Contiguous
    <2>6. \A i \in 1 .. Len(bs) : bs[i] \in Block /\ bs[i].number = Len(accepted) + i
      BY <1>1, <1>2, <2>5 DEF Mined
    <2>7. bs \in Seq(Block) /\ Len(bs) >= 1
      BY <1>1, <2>1, <2>6
    <2> QED BY <2>5, <2>6, <2>7 DEF bs
  <1> QED BY <1>1, <1>3, <1>4

LEMMA ExecuteMined ==
  ASSUME TypeInv, MinedInv, Execute
  PROVE  MinedInv'
  <1>1. /\ UNCHANGED <<chain, building, sealing, results, result, submitter>>
        /\ raws' = Tail(raws) /\ sent' = sent - 1 /\ sent > 0
    BY DEF Execute, worker
  <1>2. Grows /\ ChainInv' /\ ChainInv
    BY <1>1, SameGrows DEF MinedInv
  <1>3. /\ raws \in Seq(RawType) /\ sent \in 0 .. Len(raws) /\ raws # <<>>
        /\ \A i \in 1 .. Len(raws) : RawOK(raws[i])
    BY <1>1 DEF MinedInv, RawsInv
  <1>4. /\ Len(Tail(raws)) = Len(raws) - 1 /\ Tail(raws) \in Seq(RawType)
        /\ Len(raws) \in Nat /\ Len(raws) >= 1
        /\ \A i \in 1 .. Len(Tail(raws)) : Tail(raws)[i] = raws[i + 1]
        /\ Head(raws) = raws[1]
    BY <1>3
  <1>5. RawsInv'
    <2>1. \A x : RawOK(x) => RawOK(x)'
      BY <1>2, RawStays
    <2>2. \A i \in 1 .. Len(raws') : RawOK(raws'[i])
      BY <1>1, <1>3, <1>4
    <2>3. sent' \in 0 .. Len(raws')
      BY <1>1, <1>3, <1>4
    <2> QED BY <1>1, <1>4, <2>1, <2>2, <2>3 DEF RawsInv
  <1>6. AcceptedInv'
    <2>1. CASE accepted' = accepted
      BY <1>2, <2>1, AcceptedStay DEF MinedInv
    <2>2. CASE accepted' # accepted
      <3>1. PICK raw : raw = Head(raws)
        OBVIOUS
      <3>2. /\ IF raw.func = "submitNRE" THEN AcceptsNRE(raw) ELSE AcceptsORB(raw)
            /\ accepted' = accepted \o raw.blocks
        BY <2>2, <3>1 DEF Execute
      <3>3. RawOK(raw)
        BY <1>3, <1>4, <3>1
      <3> DEFINE bs == raw.blocks
      <3>4. /\ bs \in Seq(Block) /\ Len(bs) >= 1
            /\ \A i \in 1 .. Len(bs) : Mined(bs[i]) /\ bs[i].number = Len(accepted) + i
        BY <3>2, <3>3, AcceptedMined
      <3>5. accepted' = accepted \o bs
        BY <3>2
      <3> HIDE DEF bs
      <3>6. /\ accepted \in Seq(Block) /\ Len(accepted) \in Nat /\ Len(bs) \in Nat
            /\ Len(chain) \in Nat
        BY <3>4 DEF MinedInv, AcceptedInv, ChainInv
      <3>7. \A i \in 1 .. Len(bs) :
              Len(accepted) + i <= Len(chain) /\ chain[Len(accepted) + i] = bs[i]
        BY <3>4 DEF Mined
      <3>8. accepted' \in Seq(Block) /\ Len(accepted') = Len(accepted) + Len(bs)
        BY <3>4, <3>5, <3>6
      <3>9. Len(accepted') <= Len(chain)
        BY <3>4, <3>6, <3>7, <3>8
      <3>10. ASSUME NEW n \in 1 .. Len(accepted')
             PROVE  accepted'[n] = chain[n]
        <4>1. CASE n <= Len(accepted)
          <5>1. accepted'[n] = accepted[n]
            BY <3>4, <3>5, <3>6, <3>8, <4>1
          <5>2. n \in 1 .. Len(accepted)
            BY <3>6, <3>8, <4>1
          <5> QED BY <5>1, <5>2 DEF MinedInv, AcceptedInv
        <4>2. CASE n > Len(accepted)
          <5>1. accepted'[n] = bs[n - Len(accepted)] /\ n - Len(accepted) \in 1 .. Len(bs)
            BY <3>4, <3>5, <3>6, <3>8, <4>2
          <5>2. Len(accepted) + (n - Len(accepted)) = n
            BY <3>6, <3>8
          <5> QED BY <3>7, <5>1, <5>2
        <4> QED BY <3>6, <3>8, <4>1, <4>2
      <3> QED BY <1>1, <3>8, <3>9, <3>10 DEF AcceptedInv
    <2> QED BY <2>1, <2>2
  <1> QED BY <1>1, <1>2, <1>5, <1>6, WorkerStays DEF MinedInv

LEMMA MinedStep ==
  ASSUME TypeInv, MinedInv, [Next]_vars
  PROVE  MinedInv'
  <1>1. CASE MinerStart \/ SyncStarts \/ SyncEnds \/ NothingToBuild \/ Boot \/ WatchEnds
             \/ HandleNext \/ FetchRequests \/ FetchFails \/ FinishRequestEpoch
             \/ UNCHANGED vars
    <2>1. UNCHANGED <<chain, raws, sent, accepted, building, sealing, results, result,
                      submitter>>
      BY <1>1, Zenon DEF MinerStart, SyncStarts, SyncEnds, NothingToBuild, Boot, WatchEnds,
           HandleNext, FetchRequests, FetchFails, FinishRequestEpoch, vars,
           contract, txManager, worker, manager
    <2>2. WorkerInv'
      BY <2>1, SameGrows, WorkerStays DEF MinedInv
    <2> QED BY <2>1, <2>2, WorkerSteps
  <1>2. CASE Crash \/ PostOtherBlock
    BY <1>2, DownMined DEF Crash, PostOtherBlock
  <1> QED BY <1>1, <1>2, ExecuteMined, BuildBlockMined, CommitBlockMined,
             SealBlockMined, WriteBlockMined, ResultMined, SubscribeMined, SubmitMined
          DEF Next

-----------------------------------------------------------------------------
LEMMA InitInv == Init => IInv
  <1> SUFFICES ASSUME Init PROVE IInv
    OBVIOUS
  <1>1. NRELength \in Nat /\ NRELength >= 1
    BY OperatorNodeAssumptions
  <1>2. PICK x : x = Epoch(FALSE, 1, NRELength, 0)
    BY Zenon
  <1>3. x \in EpochType /\ x.start = 1 /\ x.end = NRELength
    BY <1>1, <1>2 DEF Epoch, EpochType
  <1>4. Idle \in HandlerType /\ Idle.pc = "idle"
    BY DEF Idle, HandlerType
  <1>5. Waiting \in ResultType /\ Waiting.pc = "idle"
    BY DEF Waiting, ResultType
  <1>6. EpochsInv
    <2>1. epochs = <<x>> /\ rootBlock = 0
      BY <1>2 DEF Init
    <2>2. epochs \in Seq(EpochType) /\ Len(epochs) = 1 /\ epochs[1] = x
      BY <1>3, <2>1
    <2> QED BY <1>1, <1>3, <2>1, <2>2 DEF EpochsInv
  <1>7. RefsInv
    BY <1>4 DEF Init, RefsInv
  <1>8. EnvInv
    BY NewEnvType DEF Init, EnvInv
  <1>9. ChainInv /\ WorkerInv /\ RawsInv /\ AcceptedInv
    BY <1>5 DEF Init, ChainInv, WorkerInv, RawsInv, AcceptedInv
  <1> QED BY <1>6, <1>7, <1>8, <1>9 DEF IInv, TypeInv, MinedInv

(***************************************************************************)
(* Whatever the goroutines interleave, whatever fails and however often the *)
(* node restarts, the blocks the contract has accepted are the blocks of    *)
(* the node's chain, each at its number: submitBlockOrEpoch never gets      *)
(* accepted what the node has not mined.                                   *)
(***************************************************************************)
THEOREM AcceptedIsMinedThm == Spec => []AcceptedIsMined
  <1>1. IInv /\ [Next]_vars => IInv'
    BY TypesStep, MinedStep DEF IInv
  <1>2. IInv => AcceptedIsMined
    BY DEF IInv, MinedInv, AcceptedInv, AcceptedIsMined
  <1> QED BY <1>1, <1>2, InitInv, PTL DEF Spec

=============================================================================
