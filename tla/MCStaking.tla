------------------------------ MODULE MCStaking ------------------------------
(***************************************************************************)
(* Staking for TLC.                                                        *)
(***************************************************************************)
EXTENDS Staking, TLC

CONSTANTS op, ann

Symmetry == Permutations(Rootchains)

\* The operator has no WTON of its own and gets stake as commission only.
MCInitialWTON == op :> 0 @@ ann :> 2

(***************************************************************************)
(* Three ways to spend the bounds, chosen at the start: two root chains    *)
(* with a request of each account; one staker with several requests; one   *)
(* staker and pauses.                                                      *)
(***************************************************************************)
VARIABLE scenario

MCInit == Init /\ scenario \in {"rootchains", "requests", "pauses"}

OneStaker == /\ Cardinality(rootchains \cup coinages) <= 1
             /\ \A r \in Rootchains : coinage[r][Operator] = 0
OneRequest == \A r \in Rootchains, a \in Accounts : Len(withdrawalRequests[r][a]) <= 1

WithinBounds ==
  \/ scenario = "rootchains" /\ ~paused /\ OneRequest /\ blockNumber <= 3
  \/ scenario = "requests" /\ ~paused /\ ~powerton /\ OneStaker
  \/ scenario = "pauses" /\ ~powerton /\ OneStaker /\ OneRequest

MCNext == Next /\ UNCHANGED scenario /\ WithinBounds'

MCSpec == MCInit /\ [][MCNext]_<<vars, scenario>>
=============================================================================
