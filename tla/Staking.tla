------------------------------- MODULE Staking -------------------------------
(***************************************************************************)
(* Staking on the root chain: DepositManager, SeigManager,                 *)
(* RootChainRegistry and the power that PowerTON keeps of every account.   *)
(*                                                                         *)
(* Stake is kept twice.  The token {tot} says what each root chain holds,  *)
(* the coinage of a root chain what each account holds there; seigniorage  *)
(* enters {tot} for all root chains when any of them commits, and enters a *)
(* coinage only when that root chain commits.  DepositManager keeps the    *)
(* WTON behind the stake and a queue of withdrawal requests per root chain *)
(* and account.                                                            *)
(*                                                                         *)
(* A transaction is one step and reverts when a requirement fails.  The    *)
(* amounts of seigniorage are abstracted: any growth of {tot} up to the    *)
(* maximal seigniorage stands for the staked rate, and any division of a   *)
(* root chain's seigniorage among its stakers and its operator stands for  *)
(* shares, commission rates of either sign and their rounding.             *)
(***************************************************************************)
EXTENDS Integers, Sequences, FiniteSets, Sums

CONSTANTS
  Rootchains,
  Accounts,
  Operator,           \* operator of the root chains
  DepositManager,     \* address of the contract, which holds WTON
  WITHDRAWAL_DELAY,
  SeigPerBlock,
  UINT128,            \* 2^128, the width of a request's block number and amount
  InitialWTON,        \* WTON of the accounts at the start
  Amounts,            \* amounts passed to deposit and requestWithdrawal
  MaxBlock,           \* bound on the block number
  MaxRequests,        \* bound on the requests of an account on a root chain
  MaxTot              \* bound on the supply of {tot}

ASSUME StakingConfig ==
  /\ IsFiniteSet(Rootchains) /\ IsFiniteSet(Accounts)
  /\ Operator \in Accounts /\ DepositManager \notin Accounts
  /\ WITHDRAWAL_DELAY \in Nat /\ SeigPerBlock \in Nat /\ UINT128 \in Nat \ {0}
  /\ InitialWTON \in [Accounts -> Nat] /\ Amounts \subseteq Nat
  /\ MaxBlock \in Nat /\ MaxRequests \in Nat /\ MaxTot \in Nat
  /\ MaxBlock + WITHDRAWAL_DELAY < UINT128

VARIABLES
  rootchains,               \* registry: the registered root chains
  coinages,                 \* root chains whose coinage token is deployed
  accStaked,                \* books of DepositManager, see EmptyBook
  pendingUnstaked,
  accUnstaked,
  withdrawalRequests,       \* root chain -> account -> requests
  withdrawalRequestIndex,   \* root chain -> account -> requests already settled
  wton,                     \* balances of the accounts and of DepositManager
  tot,                      \* root chain -> balance of {tot}
  coinage,                  \* root chain -> account -> balance of the coinage
  totalSupply,              \* root chain -> supply of the coinage
  powerton,                 \* whether PowerTON is set
  power,                    \* account -> stake in the sortition tree
  totalDeposits,            \* PowerTON's sum of these stakes
  blockNumber,
  paused,
  pausedBlock,
  unpausedBlock,
  lastSeigBlock,
  active,                   \* history: unpaused blocks since lastSeigBlock
  pauses                    \* history: pauses ended since seigniorage was given last

registryVars == <<rootchains, coinages>>
depositVars == <<accStaked, pendingUnstaked, accUnstaked, withdrawalRequests,
                 withdrawalRequestIndex>>
tokenVars == <<tot, coinage, totalSupply>>
powerVars == <<power, totalDeposits>>
pauseVars == <<paused, pausedBlock, unpausedBlock>>
seigVars == <<lastSeigBlock, active, pauses>>
vars == <<registryVars, depositVars, wton, tokenVars, powerton, powerVars, blockNumber,
          pauseVars, seigVars>>

(***************************************************************************)
(* An amount that DepositManager books by root chain and account, by root  *)
(* chain and by account.                                                   *)
(***************************************************************************)
EmptyBook == [each      |-> [r \in Rootchains |-> [a \in Accounts |-> 0]],
              rootchain |-> [r \in Rootchains |-> 0],
              account   |-> [a \in Accounts |-> 0]]

\* Mutant of Booked: the view by account is forgotten.
Booked_noAccount(book, r, a, v) ==
  [book EXCEPT !.each[r][a] = @ + v, !.rootchain[r] = @ + v]

Booked(book, r, a, v) ==
  [book EXCEPT !.each[r][a] = @ + v, !.rootchain[r] = @ + v, !.account[a] = @ + v]

\* SafeMath reverts when a book would fall below zero.
CanUnbook(book, r, a, v) ==
  v \in (0 .. book.each[r][a]) \cap (0 .. book.rootchain[r]) \cap (0 .. book.account[a])

Init ==
  /\ rootchains = {} /\ coinages = {}
  /\ accStaked = EmptyBook /\ pendingUnstaked = EmptyBook /\ accUnstaked = EmptyBook
  /\ withdrawalRequests = [r \in Rootchains |-> [a \in Accounts |-> << >>]]
  /\ withdrawalRequestIndex = [r \in Rootchains |-> [a \in Accounts |-> 0]]
  /\ wton = [a \in Accounts \cup {DepositManager} |->
               IF a = DepositManager THEN 0 ELSE InitialWTON[a]]
  /\ tot = [r \in Rootchains |-> 0]
  /\ coinage = [r \in Rootchains |-> [a \in Accounts |-> 0]]
  /\ totalSupply = [r \in Rootchains |-> 0]
  /\ powerton = FALSE
  /\ power = [a \in Accounts |-> 0] /\ totalDeposits = 0
  /\ blockNumber = 1 /\ lastSeigBlock = 1
  /\ paused = FALSE /\ pausedBlock = 0 /\ unpausedBlock = 0
  /\ active = 0 /\ pauses = 0

-----------------------------------------------------------------------------
(***************************************************************************)
(* RootChainRegistry.  A coinage is deployed for a root chain with or      *)
(* without its registration, once.                                         *)
(***************************************************************************)
register(r) ==
  /\ r \notin rootchains
  /\ rootchains' = rootchains \cup {r}
  /\ UNCHANGED coinages

deployCoinage(r) ==
  /\ r \notin coinages
  /\ coinages' = coinages \cup {r}
  /\ UNCHANGED rootchains

registerAndDeployCoinage(r) ==
  /\ r \notin rootchains /\ r \notin coinages
  /\ rootchains' = rootchains \cup {r}
  /\ coinages' = coinages \cup {r}

unregister(r) ==
  /\ r \in rootchains
  /\ rootchains' = rootchains \ {r}
  /\ UNCHANGED coinages

Registry ==
  /\ \E r \in Rootchains :
       register(r) \/ deployCoinage(r) \/ registerAndDeployCoinage(r) \/ unregister(r)
  /\ UNCHANGED <<depositVars, wton, tokenVars, powerton, powerVars, blockNumber,
                 pauseVars, seigVars>>

-----------------------------------------------------------------------------
(***************************************************************************)
(* SeigManager.onDeposit and onWithdraw, called by DepositManager, with    *)
(* PowerTON's callbacks.  A withdrawal also burns the part of the root     *)
(* chain's uncommitted seigniorage that belongs to the amount.             *)
(***************************************************************************)
PowerIncreased(a, amount) ==
  IF powerton THEN /\ power' = [power EXCEPT ![a] = @ + amount]
                   /\ totalDeposits' = totalDeposits + amount
              ELSE UNCHANGED powerVars

\* Mutant of LostPower: the whole amount is taken.
LostPower_noFloor(a, amount) == amount

\* _sub0: an account may withdraw more than it deposited, its power stops at 0.
LostPower(a, amount) == IF power[a] > amount THEN amount ELSE power[a]

\* Mutant of PowerDecreased: the sum loses the amount asked for.
PowerDecreased_amount(a, amount) ==
  IF powerton THEN /\ power' = [power EXCEPT ![a] = @ - LostPower(a, amount)]
                   /\ totalDeposits' = totalDeposits - amount
              ELSE UNCHANGED powerVars

PowerDecreased(a, amount) ==
  IF powerton THEN /\ power' = [power EXCEPT ![a] = @ - LostPower(a, amount)]
                   /\ totalDeposits' = totalDeposits - LostPower(a, amount)
              ELSE UNCHANGED powerVars

onDeposit(r, a, amount) ==
  /\ r \in coinages
  /\ tot' = [tot EXCEPT ![r] = @ + amount]
  /\ coinage' = [coinage EXCEPT ![r][a] = @ + amount]
  /\ totalSupply' = [totalSupply EXCEPT ![r] = @ + amount]
  /\ PowerIncreased(a, amount)

\* Mutant of additionalTotBurnAmount: uncommitted seigniorage stays.
additionalTotBurnAmount_none(r, amount) == 0

\* Rounded to the nearest unit, as rmul and rdiv do.
additionalTotBurnAmount(r, amount) ==
  (2 * (tot[r] - totalSupply[r]) * amount + totalSupply[r]) \div (2 * totalSupply[r])

onWithdraw(r, a, amount) ==
  /\ r \in coinages
  /\ amount <= coinage[r][a]
  /\ totalSupply[r] <= tot[r]
  /\ amount + additionalTotBurnAmount(r, amount) <= tot[r]
  /\ amount <= totalSupply[r]
  /\ tot' = [tot EXCEPT ![r] = @ - amount - additionalTotBurnAmount(r, amount)]
  /\ coinage' = [coinage EXCEPT ![r][a] = @ - amount]
  /\ totalSupply' = [totalSupply EXCEPT ![r] = @ - amount]
  /\ PowerDecreased(a, amount)

-----------------------------------------------------------------------------
(***************************************************************************)
(* DepositManager.                                                         *)
(***************************************************************************)
Paid(from, to, amount) == [wton EXCEPT ![from] = @ - amount, ![to] = @ + amount]

Deposit(r, a, amount) ==
  /\ r \in rootchains
  /\ amount <= wton[a]
  /\ Total(tot, Rootchains) + amount <= MaxTot
  /\ accStaked' = Booked(accStaked, r, a, amount)
  /\ wton' = Paid(a, DepositManager, amount)
  /\ onDeposit(r, a, amount)
  /\ UNCHANGED <<registryVars, pendingUnstaked, accUnstaked, withdrawalRequests,
                 withdrawalRequestIndex, powerton, blockNumber, pauseVars, seigVars>>

\* The next n requests of an account, and what they add up to.
NextRequests(r, a, n) ==
  withdrawalRequestIndex[r][a] + 1 .. withdrawalRequestIndex[r][a] + n

NextAmount(r, a, n) ==
  Total([i \in NextRequests(r, a, n) |-> withdrawalRequests[r][a][i].amount],
        NextRequests(r, a, n))

\* Mutant of Settled: only the first of several requests is marked.
Settled_first(r, a, n) ==
  [withdrawalRequests EXCEPT ![r][a][withdrawalRequestIndex[r][a] + 1].processed = TRUE]

Settled(r, a, n) ==
  [withdrawalRequests EXCEPT ![r][a] =
     [i \in DOMAIN @ |-> IF i \in NextRequests(r, a, n)
                         THEN [@[i] EXCEPT !.processed = TRUE] ELSE @[i]]]

\* redeposit and redepositMulti put the next n requests back, matured or not.
Redeposit(r, a, n) ==
  LET next == NextRequests(r, a, n)
      accAmount == NextAmount(r, a, n)
  IN /\ r \in rootchains
     /\ withdrawalRequests[r][a] # << >>
     /\ n <= Len(withdrawalRequests[r][a]) - withdrawalRequestIndex[r][a]
     /\ \A i \in next : /\ ~withdrawalRequests[r][a][i].processed
                        /\ withdrawalRequests[r][a][i].amount > 0
     /\ CanUnbook(pendingUnstaked, r, a, accAmount)
     /\ Total(tot, Rootchains) + accAmount <= MaxTot
     /\ withdrawalRequests' = Settled(r, a, n)
     /\ withdrawalRequestIndex' = [withdrawalRequestIndex EXCEPT ![r][a] = @ + n]
     /\ accStaked' = Booked(accStaked, r, a, accAmount)
     /\ pendingUnstaked' = Booked(pendingUnstaked, r, a, -accAmount)
     /\ onDeposit(r, a, accAmount)
     /\ UNCHANGED <<registryVars, accUnstaked, wton, powerton, blockNumber, pauseVars, seigVars>>

newRequest(amount) ==
  [withdrawableBlockNumber |-> (blockNumber + WITHDRAWAL_DELAY) % UINT128,
   amount |-> amount % UINT128, processed |-> FALSE]

RequestWithdrawal(r, a, amount) ==
  /\ r \in rootchains
  /\ amount > 0
  /\ Len(withdrawalRequests[r][a]) < MaxRequests
  /\ withdrawalRequests' = [withdrawalRequests EXCEPT ![r][a] = Append(@, newRequest(amount))]
  /\ pendingUnstaked' = Booked(pendingUnstaked, r, a, amount)
  /\ onWithdraw(r, a, amount)
  /\ UNCHANGED <<registryVars, accStaked, accUnstaked, withdrawalRequestIndex, wton,
                 powerton, blockNumber, pauseVars, seigVars>>

\* Mutant of CanProcess: as for deposits, the root chain must be registered.
CanProcess_registered(r, a, n) ==
  /\ r \in rootchains
  /\ withdrawalRequestIndex[r][a] + n <= Len(withdrawalRequests[r][a])
  /\ \A i \in NextRequests(r, a, n) :
       withdrawalRequests[r][a][i].withdrawableBlockNumber <= blockNumber
  /\ CanUnbook(pendingUnstaked, r, a, NextAmount(r, a, n))
  /\ NextAmount(r, a, n) <= wton[DepositManager]

\* Requests whose delay is over, whether or not the root chain is still registered.
CanProcess(r, a, n) ==
  /\ withdrawalRequestIndex[r][a] + n <= Len(withdrawalRequests[r][a])
  /\ \A i \in NextRequests(r, a, n) :
       withdrawalRequests[r][a][i].withdrawableBlockNumber <= blockNumber
  /\ CanUnbook(pendingUnstaked, r, a, NextAmount(r, a, n))
  /\ NextAmount(r, a, n) <= wton[DepositManager]

\* processRequest and processRequests.  With receiveTON the WTON is burnt and
\* the account paid in TON.
ProcessRequests(r, a, n, receiveTON) ==
  LET amount == NextAmount(r, a, n)
  IN /\ CanProcess(r, a, n)
     /\ withdrawalRequests' = Settled(r, a, n)
     /\ withdrawalRequestIndex' = [withdrawalRequestIndex EXCEPT ![r][a] = @ + n]
     /\ pendingUnstaked' = Booked(pendingUnstaked, r, a, -amount)
     /\ accUnstaked' = Booked(accUnstaked, r, a, amount)
     /\ wton' = IF receiveTON THEN [wton EXCEPT ![DepositManager] = @ - amount]
                              ELSE Paid(DepositManager, a, amount)
     /\ UNCHANGED <<registryVars, accStaked, tokenVars, powerton, powerVars, blockNumber,
                    pauseVars, seigVars>>

User(r, a) ==
  \/ \E amount \in Amounts : Deposit(r, a, amount)
  \/ \E n \in 1 .. MaxRequests : Redeposit(r, a, n)
  \/ \E amount \in Amounts \cup {coinage[r][a]} : RequestWithdrawal(r, a, amount)
  \/ \E n \in 1 .. MaxRequests, receiveTON \in BOOLEAN : ProcessRequests(r, a, n, receiveTON)

-----------------------------------------------------------------------------
(***************************************************************************)
(* SeigManager.                                                            *)
(***************************************************************************)
span == blockNumber - lastSeigBlock

\* Mutant of calcNumSeigBlocks: pauses are not looked at.
calcNumSeigBlocks_noPause == span

\* _calcNumSeigBlocks.  The subtraction is unchecked: below zero it wraps to a
\* number whose product with the seigniorage per block reverts.
calcNumSeigBlocks ==
  IF unpausedBlock < lastSeigBlock THEN span ELSE span - (unpausedBlock - pausedBlock)

(***************************************************************************)
(* _increaseTot: the {tot} balances it may leave behind, none when it      *)
(* reverts.  maxSeig times the staked rate is divided among the root       *)
(* chains that hold {tot}.                                                 *)
(***************************************************************************)
GivesSeig == blockNumber # lastSeigBlock

increaseTot ==
  IF ~GivesSeig \/ Total(tot, Rootchains) = 0 THEN {tot}
  ELSE {next \in [Rootchains -> 0 .. MaxTot] :
          /\ calcNumSeigBlocks >= 0
          /\ \A r \in Rootchains : tot[r] <= next[r] /\ (tot[r] = 0 => next[r] = 0)
          /\ Total(next, Rootchains)
               <= Total(tot, Rootchains) + calcNumSeigBlocks * SeigPerBlock}

\* The coinage of a root chain after its seigniorage has been handed out.
Distributions(r, seigs) ==
  {next \in [Accounts -> 0 .. MaxTot] :
     /\ \A a \in Accounts : /\ coinage[r][a] <= next[a]
                            /\ a # Operator /\ coinage[r][a] = 0 => next[a] = 0
     /\ Total(next, Accounts) = Total(coinage[r], Accounts) + seigs}

\* Mutant of Minted: no WTON is minted for the stakers.
Minted_none(seigs) == wton

Minted(seigs) == [wton EXCEPT ![DepositManager] = @ + seigs]

\* A commit of a paused SeigManager changes nothing.
onCommit(r) ==
  /\ r \in coinages
  /\ ~paused
  /\ tot' \in increaseTot
  /\ lastSeigBlock' = blockNumber
  /\ IF GivesSeig THEN active' = 0 /\ pauses' = 0 ELSE UNCHANGED <<active, pauses>>
  /\ \/ /\ tot'[r] <= totalSupply[r]
        /\ UNCHANGED <<coinage, totalSupply, wton>>
     \/ /\ tot'[r] > totalSupply[r] /\ totalSupply[r] > 0
        /\ \E next \in Distributions(r, tot'[r] - totalSupply[r]) :
             coinage' = [coinage EXCEPT ![r] = next]
        /\ totalSupply' = [totalSupply EXCEPT ![r] = tot'[r]]
        /\ wton' = Minted(tot'[r] - totalSupply[r])
  /\ UNCHANGED <<registryVars, depositVars, powerton, powerVars, blockNumber, pauseVars>>

pause ==
  /\ ~paused
  /\ paused' = TRUE
  /\ pausedBlock' = blockNumber
  /\ UNCHANGED <<unpausedBlock, pauses>>

unpause ==
  /\ paused
  /\ paused' = FALSE
  /\ unpausedBlock' = blockNumber
  /\ pauses' = IF pauses < 2 THEN pauses + 1 ELSE pauses
  /\ UNCHANGED pausedBlock

Pausing ==
  /\ pause \/ unpause
  /\ UNCHANGED <<registryVars, depositVars, wton, tokenVars, powerton, powerVars, blockNumber,
                 lastSeigBlock, active>>

setPowerTON ==
  /\ ~powerton
  /\ powerton' = TRUE
  /\ UNCHANGED <<registryVars, depositVars, wton, tokenVars, powerVars, blockNumber,
                 pauseVars, seigVars>>

NextBlock ==
  /\ blockNumber < MaxBlock
  /\ blockNumber' = blockNumber + 1
  /\ active' = IF paused THEN active ELSE active + 1
  /\ UNCHANGED <<registryVars, depositVars, wton, tokenVars, powerton, powerVars, pauseVars,
                 lastSeigBlock, pauses>>

Next ==
  \/ Registry
  \/ \E r \in Rootchains, a \in Accounts : User(r, a)
  \/ \E r \in Rootchains : onCommit(r)
  \/ Pausing
  \/ setPowerTON
  \/ NextBlock

Spec == Init /\ [][Next]_vars

-----------------------------------------------------------------------------
Request == [withdrawableBlockNumber : Nat, amount : Nat, processed : BOOLEAN]
Book == [each : [Rootchains -> [Accounts -> Nat]], rootchain : [Rootchains -> Nat],
         account : [Accounts -> Nat]]

\* Types; in particular no balance and no book falls below zero.
TypeOK ==
  /\ rootchains \subseteq Rootchains /\ coinages \subseteq Rootchains
  /\ accStaked \in Book /\ pendingUnstaked \in Book /\ accUnstaked \in Book
  /\ withdrawalRequests \in [Rootchains -> [Accounts -> Seq(Request)]]
  /\ withdrawalRequestIndex \in [Rootchains -> [Accounts -> Nat]]
  /\ wton \in [Accounts \cup {DepositManager} -> Nat]
  /\ tot \in [Rootchains -> Nat] /\ totalSupply \in [Rootchains -> Nat]
  /\ coinage \in [Rootchains -> [Accounts -> Nat]]
  /\ powerton \in BOOLEAN /\ power \in [Accounts -> Nat] /\ totalDeposits \in Nat
  /\ blockNumber \in Nat /\ lastSeigBlock \in Nat
  /\ paused \in BOOLEAN /\ pausedBlock \in Nat /\ unpausedBlock \in Nat
  /\ active \in Nat /\ pauses \in 0 .. 2

\* DepositManager's three views of an amount agree, and what is pending is what
\* the requests not yet processed ask for.
BooksAgree ==
  /\ \A book \in {accStaked, pendingUnstaked, accUnstaked} :
       /\ \A r \in Rootchains : book.rootchain[r] = Total(book.each[r], Accounts)
       /\ \A a \in Accounts :
            book.account[a] = Total([r \in Rootchains |-> book.each[r][a]], Rootchains)
  /\ \A r \in Rootchains, a \in Accounts :
       pendingUnstaked.each[r][a] =
         NextAmount(r, a, Len(withdrawalRequests[r][a]) - withdrawalRequestIndex[r][a])

\* The WTON of DepositManager is the stake of all accounts, committed
\* seigniorage included, and what they wait for.
StakeBacked ==
  /\ \A r \in Rootchains : totalSupply[r] = Total(coinage[r], Accounts)
  /\ wton[DepositManager] = Total(totalSupply, Rootchains)
                            + Total(pendingUnstaked.rootchain, Rootchains)

\* The weights of the lottery: they add up to totalDeposits, by which the draw is
\* reduced, and no account keeps a weight for stake it has withdrawn.
PowerWithinStake ==
  /\ totalDeposits = Total(power, Accounts)
  /\ \A a \in Accounts :
       power[a] <= Total([r \in Rootchains |-> coinage[r][a]], Rootchains)

\* Redepositing and paying share one index: exactly the requests below it are
\* processed, so that no request is both put back and paid, or served twice.
RequestsInOrder ==
  \A r \in Rootchains, a \in Accounts :
    /\ withdrawalRequestIndex[r][a] <= Len(withdrawalRequests[r][a])
    /\ \A i \in DOMAIN withdrawalRequests[r][a] :
         withdrawalRequests[r][a][i].processed <=> i <= withdrawalRequestIndex[r][a]

\* A root chain holds at least the {tot} of its stakers, so that a withdrawal
\* does not revert, and none when it has no stakers, so that its commits, which
\* scale the coinage by tot / totalSupply, never divide by zero.
TotCoversCoinage ==
  \A r \in Rootchains : /\ totalSupply[r] <= tot[r]
                        /\ totalSupply[r] = 0 => tot[r] = 0

\* Seigniorage is given for the blocks in which SeigManager was not paused.
\* The code is exact when at most one pause ended since seigniorage was given.
\* After several it counts only the last of them and gives too much; and when
\* seigniorage was given in the very block of an unpause it subtracts that
\* pause again.
SeigBlocksExact ==
  ~paused => \/ calcNumSeigBlocks = active
             \/ pauses > 1 /\ calcNumSeigBlocks > active
             \/ pauses = 0 /\ unpausedBlock = lastSeigBlock

\* A request whose delay is over is paid whatever else happened: the books, the
\* WTON held, a pause and an unregistered root chain do not stand in the way.
MaturedIsPayable ==
  \A r \in Rootchains, a \in Accounts :
    LET i == withdrawalRequestIndex[r][a] + 1
    IN /\ i <= Len(withdrawalRequests[r][a])
       /\ withdrawalRequests[r][a][i].withdrawableBlockNumber <= blockNumber
       => CanProcess(r, a, 1)

\* WTON leaves DepositManager only for the next requests of an account, in the
\* amount they ask for, and only once each of them has waited for the delay.
PaidAfterDelay ==
  [][wton'[DepositManager] < wton[DepositManager] =>
       \E r \in Rootchains, a \in Accounts :
         LET n == withdrawalRequestIndex'[r][a] - withdrawalRequestIndex[r][a]
         IN /\ wton[DepositManager] - wton'[DepositManager] = NextAmount(r, a, n)
            /\ \A i \in NextRequests(r, a, n) :
                 withdrawalRequests[r][a][i].withdrawableBlockNumber <= blockNumber]_vars
=============================================================================
