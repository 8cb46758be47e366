-------------------------- MODULE RequestPipeline --------------------------
(***************************************************************************)
(* What the RootChain contract promises to the author of a request.        *)
(* Requests are numbered in the order of creation and pass, in that order, *)
(* through four stages: assigned to a request epoch, included in a         *)
(* submitted block, included in a final block, settled.  A stage takes in  *)
(* only requests that had left the previous stage in an earlier call; an   *)
(* epoch takes all requests that wait.  An enter takes effect in the root  *)
(* chain when it is created; an exit when it is settled, unless it was     *)
(* cancelled while its block was final and it was not settled yet.         *)
(***************************************************************************)
EXTENDS Naturals, Sequences

VARIABLES
  isExit,      \* isExit[i + 1]: request i is an exit
  cancelled,   \* cancelled[i + 1]: request i was challenged
  effects,     \* effects[i + 1]: how often request i was applied
  assigned,    \* number of requests assigned to request epochs
  included,    \* ... in submitted blocks
  final,       \* ... in final blocks
  settled      \* ... settled

vars == <<isExit, cancelled, effects, assigned, included, final, settled>>

Init ==
  /\ isExit = <<>>
  /\ cancelled = <<>>
  /\ effects = <<>>
  /\ assigned = 0 /\ included = 0 /\ final = 0 /\ settled = 0

Create(exit) ==
  /\ isExit' = Append(isExit, exit)
  /\ cancelled' = Append(cancelled, FALSE)
  /\ effects' = Append(effects, IF exit THEN 0 ELSE 1)
  /\ UNCHANGED <<assigned, included, final, settled>>

(* One call may move several stages (submitNRE also finalizes a block).    *)
Advance ==
  /\ assigned' \in {assigned, Len(isExit)}
  /\ included' \in included .. assigned
  /\ final' \in final .. included
  /\ UNCHANGED <<isExit, cancelled, effects, settled>>

Cancel(i) ==
  /\ settled <= i /\ i < final
  /\ ~cancelled[i + 1]
  /\ cancelled' = [cancelled EXCEPT ![i + 1] = TRUE]
  /\ UNCHANGED <<isExit, effects, assigned, included, final, settled>>

Settle ==
  /\ settled < final
  /\ settled' = settled + 1
  /\ effects' = [effects EXCEPT ![settled + 1] =
                   IF isExit[settled + 1] /\ ~cancelled[settled + 1]
                   THEN @ + 1 ELSE @]
  /\ UNCHANGED <<isExit, cancelled, assigned, included, final>>

Next ==
  \/ \E exit \in BOOLEAN : Create(exit)
  \/ Advance
  \/ \E i \in 0 .. Len(isExit) - 1 : Cancel(i)
  \/ Settle

Spec == Init /\ [][Next]_vars
=============================================================================
