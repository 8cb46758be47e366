------------------------------- MODULE Stamina -------------------------------
(***************************************************************************)
(* Fee delegation on the child chain: the Stamina contract and the gas     *)
(* accounting of a transaction (core/state_transition.go), which reads and *)
(* writes that contract around the execution of the transaction.           *)
(*                                                                         *)
(* A transaction is one step.  It picks who pays (the delegatee's stamina  *)
(* when it covers the up-front cost, otherwise the sender's balance), buys *)
(* the gas, runs at most one call of the contract, and gives the unused    *)
(* gas back.  The call therefore sees a contract whose stamina is already  *)
(* charged, and the refund sees whatever the call left behind.             *)
(***************************************************************************)
EXTENDS Integers, Sequences, FiniteSets, Sums

CONSTANTS
  Accounts,               \* externally owned accounts
  Operator,               \* the account whose stamina is set in the genesis block
  Coinbase,               \* receives the fees of the non-request blocks
  NullAddress,            \* address 0: sender of request transactions, and the
                          \* delegatee of every account that has none
  StaminaAddress,         \* the contract
  OperatorStamina,        \* params.DefaultOperatorStamina
  MIN_DEPOSIT,
  RECOVER_EPOCH_LENGTH,
  WITHDRAWAL_DELAY,
  UINT128,                \* 2^128, the width of a withdrawal's amount
  InitialBalance,         \* ether of every account in the genesis block
  GasLimit,               \* gas of a block
  IntrinsicGas,
  TxGas,                  \* gas limits of the transactions considered
  GasPrices,
  RequestTxGasLimit,      \* gas limit and price of request transactions
  RequestTxGasPrice,
  MAX_REQUESTS,           \* requests of a request block
  Delegators,             \* accounts passed to setDelegator
  DepositTargets,         \* delegatees passed to deposit and requestWithdrawal
  DepositAmounts,         \* amounts passed to deposit
  Amounts,                \* amounts passed to requestWithdrawal
  MaxBlock,               \* bound on the block number
  MaxWithdrawals          \* bound on the withdrawal requests of a depositor

Delegatees == Accounts \cup {NullAddress}

(***************************************************************************)
(* init and the checks of the deploy command.                              *)
(***************************************************************************)
ASSUME StaminaConfig ==
  /\ MIN_DEPOSIT \in Nat \ {0}
  /\ RECOVER_EPOCH_LENGTH \in Nat \ {0}
  /\ WITHDRAWAL_DELAY \in Nat \ {0}
  /\ RECOVER_EPOCH_LENGTH * 2 < WITHDRAWAL_DELAY

ASSUME Environment ==
  /\ IsFiniteSet(Accounts)
  /\ Operator \in Accounts /\ Coinbase \in Accounts
  /\ NullAddress \notin Accounts /\ StaminaAddress \notin Delegatees
  /\ OperatorStamina \in Nat /\ InitialBalance \in Nat
  /\ UINT128 \in Nat \ {0}
  /\ GasLimit \in Nat /\ IntrinsicGas \in Nat
  /\ RequestTxGasLimit \in Nat /\ RequestTxGasPrice \in Nat /\ MAX_REQUESTS \in Nat
  /\ TxGas \subseteq Nat /\ GasPrices \subseteq Nat /\ Amounts \subseteq Nat
  /\ DepositAmounts \subseteq Nat
  /\ Delegators \subseteq Delegatees /\ DepositTargets \subseteq Delegatees
  /\ MaxBlock \in Nat /\ MaxWithdrawals \in Nat

VARIABLES
  storage,      \* the contract's mappings
  balance,      \* ether of the accounts and of the contract
  blockNumber,
  gasPool,      \* gas left in the block under construction
  isRequest,    \* whether the block under construction is a request block
  requests,     \* request transactions in it
  spent,        \* history: delegatee -> gas paid from its stamina since its last recovery
  undeposited   \* history: delegatee -> deposit taken back since its last recovery

vars == <<storage, balance, blockNumber, gasPool, isRequest,
          requests, spent, undeposited>>

(***************************************************************************)
(* GenesisStaminaAccount: the contract is placed in the genesis block with *)
(* its parameters, the operator's stamina and the operator as its own      *)
(* delegator; all other mappings are empty.                                *)
(***************************************************************************)
GenesisStamina(d) == IF d = Operator THEN OperatorStamina ELSE 0

GenesisStaminaAccount ==
  [delegatee                 |-> [a \in Delegatees |->
                                    IF a = Operator THEN Operator ELSE NullAddress],
   stamina                   |-> [d \in Delegatees |-> GenesisStamina(d)],
   total_deposit             |-> [d \in Delegatees |-> 0],
   deposit                   |-> [a \in Accounts |-> [d \in Delegatees |-> 0]],
   last_recovery_block       |-> [d \in Delegatees |-> 0],
   withdrawal                |-> [a \in Accounts |-> << >>],
   last_processed_withdrawal |-> [a \in Accounts |-> 0],
   num_recovery              |-> [d \in Delegatees |-> 0]]

Init ==
  /\ storage = GenesisStaminaAccount
  /\ balance = [a \in Delegatees \cup {StaminaAddress} |->
                  IF a \in Accounts THEN InitialBalance ELSE 0]
  /\ blockNumber = 1
  /\ gasPool = GasLimit
  /\ spent = [d \in Delegatees |-> 0]
  /\ undeposited = [d \in Delegatees |-> 0]
  /\ isRequest = FALSE
  /\ requests = 0

-----------------------------------------------------------------------------
(***************************************************************************)
(* The contract.  A function is a predicate for its requirements and an    *)
(* operator from storage to storage for its effect; a call whose           *)
(* requirements fail reverts.                                              *)
(***************************************************************************)
setDelegator(s, sender, delegator) == [s EXCEPT !.delegatee[delegator] = sender]

canDeposit(value) == value >= MIN_DEPOSIT

deposit(s, sender, d, value) ==
  [s EXCEPT !.total_deposit[d] = @ + value,
            !.deposit[sender][d] = @ + value,
            !.stamina[d] = @ + value,
            !.last_recovery_block[d] = IF @ = 0 THEN blockNumber ELSE @]

canRequestWithdrawal(s, sender, d, amount) ==
  /\ amount > 0
  /\ s.deposit[sender][d] > 0
  /\ amount <= s.total_deposit[d]
  /\ amount <= s.deposit[sender][d]

newWithdrawal(d, amount) ==
  [amount |-> amount % UINT128, requestBlockNumber |-> blockNumber, delegatee |-> d,
   processed |-> FALSE]

\* Mutant of requestWithdrawal: the total deposit keeps the amount.
requestWithdrawal_keepsTotal(s, sender, d, amount) ==
  [s EXCEPT !.deposit[sender][d] = @ - amount,
            !.stamina[d] = IF @ > amount THEN @ - amount ELSE 0,
            !.withdrawal[sender] = Append(@, newWithdrawal(d, amount))]

requestWithdrawal(s, sender, d, amount) ==
  [s EXCEPT !.total_deposit[d] = @ - amount,
            !.deposit[sender][d] = @ - amount,
            !.stamina[d] = IF @ > amount THEN @ - amount ELSE 0,
            !.withdrawal[sender] = Append(@, newWithdrawal(d, amount))]

\* Mutant of withdrawalIndex: always the one after the stored index.
withdrawalIndex_next(s, sender) == s.last_processed_withdrawal[sender] + 1

\* Mutant of withdrawalIndex: a stored 0 always means that none was processed.
withdrawalIndex_zero(s, sender) ==
  LET last == s.last_processed_withdrawal[sender] IN IF last = 0 THEN 0 ELSE last + 1

\* Position of the withdrawal that withdraw() processes.  The index stored by
\* the contract starts at 0 both before and after the first withdrawal.
withdrawalIndex(s, sender) ==
  LET ws   == s.withdrawal[sender]
      last == s.last_processed_withdrawal[sender]
  IN IF last = 0 /\ ~ws[1].processed THEN 0 ELSE last + 1

canWithdraw(s, sender) ==
  LET ws == s.withdrawal[sender] IN
  /\ Len(ws) > 0
  /\ LET i == withdrawalIndex(s, sender) IN
     /\ i < Len(ws)
     /\ ~ws[i + 1].processed
     /\ ws[i + 1].requestBlockNumber + WITHDRAWAL_DELAY <= blockNumber
     /\ ws[i + 1].amount <= balance[StaminaAddress]

withdraw(s, sender) ==
  LET i == withdrawalIndex(s, sender) IN
  [s EXCEPT !.withdrawal[sender][i + 1].processed = TRUE,
            !.last_processed_withdrawal[sender] = i]

withdrawnAmount(s, sender) == s.withdrawal[sender][withdrawalIndex(s, sender) + 1].amount

\* The two functions reserved to the chain.  An amount of 0 fails the overflow
\* checks, so the call reverts, which the node ignores.
recovers(s, d) == s.last_recovery_block[d] + RECOVER_EPOCH_LENGTH <= blockNumber

\* Mutant of addStamina: the refund is added to a recovery.
addStamina_onTop(s, d, amount) ==
  IF recovers(s, d)
  THEN [s EXCEPT !.stamina[d] = s.total_deposit[d] + amount,
                 !.last_recovery_block[d] = blockNumber,
                 !.num_recovery[d] = @ + 1]
  ELSE [s EXCEPT !.stamina[d] = IF @ + amount > s.total_deposit[d]
                                THEN s.total_deposit[d] ELSE @ + amount]

\* Mutant of addStamina: a recovery does not restart the clock.
addStamina_noClock(s, d, amount) ==
  IF recovers(s, d)
  THEN [s EXCEPT !.stamina[d] = s.total_deposit[d], !.num_recovery[d] = @ + 1]
  ELSE [s EXCEPT !.stamina[d] = IF @ + amount > s.total_deposit[d]
                                THEN s.total_deposit[d] ELSE @ + amount]

\* Mutant of addStamina: the refund is not capped.
addStamina_noCap(s, d, amount) ==
  IF recovers(s, d)
  THEN [s EXCEPT !.stamina[d] = s.total_deposit[d],
                 !.last_recovery_block[d] = blockNumber,
                 !.num_recovery[d] = @ + 1]
  ELSE [s EXCEPT !.stamina[d] = @ + amount]

addStamina(s, d, amount) ==
  IF recovers(s, d)
  THEN [s EXCEPT !.stamina[d] = s.total_deposit[d],
                 !.last_recovery_block[d] = blockNumber,
                 !.num_recovery[d] = @ + 1]
  ELSE IF amount = 0 THEN s
  ELSE [s EXCEPT !.stamina[d] = IF @ + amount > s.total_deposit[d]
                                THEN s.total_deposit[d] ELSE @ + amount]

subtractStamina(s, d, amount) ==
  IF amount > 0 /\ amount <= s.stamina[d]
  THEN [s EXCEPT !.stamina[d] = @ - amount] ELSE s

-----------------------------------------------------------------------------
(***************************************************************************)
(* Calls of the contract by a transaction.  "none" stands for a            *)
(* transaction that does not touch the contract, and for a call that       *)
(* reverts: both leave the storage as the purchase of gas left it.         *)
(***************************************************************************)
Calls ==
       [fn : {"none", "withdraw"}]
  \cup [fn : {"setDelegator"}, delegator : Delegators]
  \cup [fn : {"deposit"}, delegatee : DepositTargets, amount : DepositAmounts]
  \cup [fn : {"requestWithdrawal"}, delegatee : DepositTargets, amount : Amounts]

callValue(call) == IF call.fn = "deposit" THEN call.amount ELSE 0

callOK(s, from, call) ==
  CASE call.fn = "none"              -> TRUE
    [] call.fn = "setDelegator"      -> TRUE
    [] call.fn = "deposit"           -> canDeposit(call.amount)
    [] call.fn = "requestWithdrawal" -> /\ canRequestWithdrawal(s, from, call.delegatee, call.amount)
                                        /\ Len(s.withdrawal[from]) < MaxWithdrawals
    [] call.fn = "withdraw"          -> canWithdraw(s, from)

callEffect(s, from, call) ==
  CASE call.fn = "none"              -> s
    [] call.fn = "setDelegator"      -> setDelegator(s, from, call.delegator)
    [] call.fn = "deposit"           -> deposit(s, from, call.delegatee, call.amount)
    [] call.fn = "requestWithdrawal" -> requestWithdrawal(s, from, call.delegatee, call.amount)
    [] call.fn = "withdraw"          -> withdraw(s, from)

\* Ether that the call moves into the contract (negative: out of it).
callTransfer(s, from, call) ==
  CASE call.fn = "deposit"  -> call.amount
    [] call.fn = "withdraw" -> -withdrawnAmount(s, from)
    [] OTHER                -> 0

-----------------------------------------------------------------------------
(***************************************************************************)
(* TransitionDb.  A transaction that returns an error is not included: the *)
(* worker goes back to its snapshot of the state, but not of the gas pool. *)
(***************************************************************************)
\* gasUsed() after the refund counter, which is capped to half of the gas used.
GasOutcomes(gas) ==
  {x \in 0 .. gas : \E u \in IntrinsicGas .. gas : \E r \in 0 .. u \div 2 : x = u - r}

paysWithStamina(from, cost) == storage.stamina[storage.delegatee[from]] >= cost

\* Request blocks are mined for address 0 (commitNewWorkForORB).
coinbase == IF isRequest THEN NullAddress ELSE Coinbase

\* The sender's payments to the contract and for gas, and the fee of the coinbase.
MoveEther(from, toContract, gasFee, fee) ==
  balance' = [a \in DOMAIN balance |->
                balance[a] + (IF a = StaminaAddress THEN toContract ELSE 0)
                           + (IF a = coinbase THEN fee ELSE 0)
                           - (IF a = from THEN toContract + gasFee ELSE 0)]

\* What the history remembers of a transaction that ran call and, when charged
\* is a delegatee, paid fee from its stamina.
Remember(call, charged, recovered, fee) ==
  /\ spent' = [d \in Delegatees |->
                 IF d # charged THEN spent[d] ELSE IF recovered THEN 0 ELSE spent[d] + fee]
  /\ undeposited' = [d \in Delegatees |->
                 IF d = charged /\ recovered THEN 0
                 ELSE IF call.fn = "requestWithdrawal" /\ call.delegatee = d
                      THEN undeposited[d] + call.amount ELSE undeposited[d]]

DelegatedTransaction(from, gas, price, used, call) ==
  LET d      == storage.delegatee[from]
      cost   == gas * price
      bought == subtractStamina(storage, d, cost)
      ran    == callEffect(bought, from, call)
  IN /\ paysWithStamina(from, cost)
     /\ gas <= gasPool
     /\ callValue(call) <= balance[from]
     /\ callOK(bought, from, call)
     /\ storage' = addStamina(ran, d, (gas - used) * price)
     /\ MoveEther(from, callTransfer(bought, from, call), 0, used * price)
     /\ gasPool' = gasPool - used
     /\ Remember(call, d, recovers(ran, d), used * price)
     /\ UNCHANGED <<blockNumber, isRequest>>

OrdinaryTransaction(from, gas, price, used, call) ==
  LET cost == gas * price IN
  /\ ~paysWithStamina(from, cost)
  /\ cost <= balance[from]
  /\ gas <= gasPool
  /\ callValue(call) <= balance[from] - cost
  /\ callOK(storage, from, call)
  /\ storage' = callEffect(storage, from, call)
  /\ MoveEther(from, callTransfer(storage, from, call), used * price, used * price)
  /\ gasPool' = gasPool - used
  /\ Remember(call, StaminaAddress, FALSE, 0)
  /\ UNCHANGED <<blockNumber, isRequest, requests>>

\* A request transaction that no stamina pays for: its gas is neither bought
\* nor refunded, and does not come out of the block's gas pool.
FreeRequestTransaction(gas, price, used) ==
  /\ ~paysWithStamina(NullAddress, gas * price)
  /\ MoveEther(NullAddress, 0, 0, used * price)
  /\ UNCHANGED <<storage, blockNumber, gasPool, isRequest, spent, undeposited>>

\* The gas was bought, then the transaction failed: not enough gas for its data,
\* or not enough ether for its value.
FailedTransaction(from, gas, price, value) ==
  LET cost  == gas * price
      funds == IF paysWithStamina(from, cost) THEN balance[from] ELSE balance[from] - cost
  IN /\ funds >= 0
     /\ gas <= gasPool
     /\ gas < IntrinsicGas \/ funds < value
     /\ gasPool' = gasPool - gas
     /\ UNCHANGED <<storage, balance, blockNumber, isRequest, requests, spent,
                    undeposited>>

NextBlock ==
  /\ blockNumber < MaxBlock
  /\ blockNumber' = blockNumber + 1
  /\ gasPool' = GasLimit
  /\ isRequest' \in BOOLEAN
  /\ requests' = 0
  /\ UNCHANGED <<storage, balance, spent, undeposited>>

UserTransaction ==
  /\ ~isRequest
  /\ \E from \in Accounts, gas \in TxGas, price \in GasPrices :
       \/ \E call \in Calls, used \in GasOutcomes(gas) :
            \/ /\ DelegatedTransaction(from, gas, price, used, call)
               /\ UNCHANGED requests
            \/ OrdinaryTransaction(from, gas, price, used, call)
       \/ \E value \in DepositAmounts : FailedTransaction(from, gas, price, value)

RequestTransaction ==
  /\ isRequest
  /\ requests < MAX_REQUESTS
  /\ requests' = requests + 1
  /\ \/ \E used \in GasOutcomes(RequestTxGasLimit) :
          DelegatedTransaction(NullAddress, RequestTxGasLimit, RequestTxGasPrice, used,
                               [fn |-> "none"])
     \/ \E used \in IntrinsicGas .. RequestTxGasLimit :
          FreeRequestTransaction(RequestTxGasLimit, RequestTxGasPrice, used)

Next == UserTransaction \/ RequestTransaction \/ NextBlock

Spec == Init /\ [][Next]_vars

-----------------------------------------------------------------------------
Withdrawal == [amount : Nat, requestBlockNumber : Nat, delegatee : Delegatees, processed : BOOLEAN]

Storage ==
  [delegatee                 : [Delegatees -> Delegatees],
   stamina                   : [Delegatees -> Nat],
   total_deposit             : [Delegatees -> Nat],
   deposit                   : [Accounts -> [Delegatees -> Nat]],
   last_recovery_block       : [Delegatees -> Nat],
   withdrawal                : [Accounts -> Seq(Withdrawal)],
   last_processed_withdrawal : [Accounts -> Nat],
   num_recovery              : [Delegatees -> Nat]]

TypeOK ==
  /\ storage \in Storage
  /\ balance \in [Delegatees \cup {StaminaAddress} -> Nat]
  /\ blockNumber \in Nat
  /\ gasPool \in Nat
  /\ spent \in [Delegatees -> Nat]
  /\ undeposited \in [Delegatees -> Nat]
  /\ isRequest \in BOOLEAN
  /\ requests \in Nat

\* Between two recoveries, the gas that transactions pay from a delegatee's
\* stamina and the stamina it has left stay within what is deposited for it,
\* counting the deposit taken back meanwhile: no order of purchases, refunds,
\* deposits and withdrawal requests lets the chain pay more gas than was
\* deposited (Stamina.sol addStamina, "The upper bound of stamina is total
\* deposit").  The genesis stamina of the operator comes on top.
SpendingBounded ==
  \A d \in Delegatees :
    storage.stamina[d] + spent[d] <= storage.total_deposit[d] + undeposited[d] + GenesisStamina(d)

\* What an account has deposited, and what it has asked back and not received.
held(deposits) == Total(deposits, Delegatees)
owed(ws) ==
  Total([i \in 1 .. Len(ws) |-> IF ws[i].processed THEN 0 ELSE ws[i].amount], 1 .. Len(ws))

\* The contract can pay what it owes: its ether is the sum of the deposits and
\* of the withdrawals not yet processed, and the total deposit of a delegatee is
\* the sum of the deposits made for it.
DepositsBacked ==
  /\ balance[StaminaAddress] =
       Total([a \in Accounts |-> held(storage.deposit[a]) + owed(storage.withdrawal[a])],
             Accounts)
  /\ \A d \in Delegatees :
       storage.total_deposit[d] = Total([a \in Accounts |-> storage.deposit[a][d]], Accounts)

InOrder(s) ==
  \A a \in Accounts :
    /\ s.last_processed_withdrawal[a] = 0 \/ s.last_processed_withdrawal[a] < Len(s.withdrawal[a])
    /\ \A i \in 1 .. Len(s.withdrawal[a]) :
         s.withdrawal[a][i].processed <=>
           /\ i <= s.last_processed_withdrawal[a] + 1
           /\ s.last_processed_withdrawal[a] = 0 => s.withdrawal[a][1].processed

\* Withdrawals of a depositor are processed in the order of the requests, each
\* once: the processed ones are a prefix, and the index of the contract, whose
\* value 0 means both "none" and "the first", designates its last element.
WithdrawnInOrder == InOrder(storage)

\* A withdrawal request whose delay has passed and whose predecessors are
\* processed can be withdrawn now: neither the index nor the contract's ether
\* stands in the way.
MaturedIsPayable ==
  \A a \in Accounts :
    LET ws == storage.withdrawal[a] IN
    \A i \in 1 .. Len(ws) :
      (/\ ~ws[i].processed
       /\ \A j \in 1 .. i - 1 : ws[j].processed
       /\ ws[i].requestBlockNumber + WITHDRAWAL_DELAY <= blockNumber)
      => canWithdraw(storage, a) /\ withdrawalIndex(storage, a) + 1 = i

\* Recoveries of a delegatee are at least RECOVER_EPOCH_LENGTH blocks apart, so
\* over the life of the chain they are at most one per epoch.
OneRecoveryPerEpoch ==
  \A d \in Delegatees :
    storage.num_recovery[d] * RECOVER_EPOCH_LENGTH <= storage.last_recovery_block[d]

\* Ether leaves the contract only for a withdrawal requested at least
\* WITHDRAWAL_DELAY blocks earlier, in the amount of that request.
PaidAfterDelay ==
  [][ balance'[StaminaAddress] < balance[StaminaAddress] =>
        \E a \in Accounts : \E i \in 1 .. Len(storage.withdrawal[a]) :
          LET w == storage.withdrawal[a][i] IN
          /\ ~w.processed /\ storage'.withdrawal[a][i].processed
          /\ w.requestBlockNumber + WITHDRAWAL_DELAY <= blockNumber
          /\ balance'[StaminaAddress] = balance[StaminaAddress] - w.amount ]_vars

\* A delegated transaction takes from the stamina of its delegatee exactly the
\* gas it used, unless it also recovers, deposits or takes back a deposit
\* (stamina_test.go, "failed precise stamina subtract"), when that stamina is
\* within the deposit, which it is for every delegatee but the operator living
\* on its genesis stamina; and once within the deposit, it stays within it.
PreciseSubtractWithinDeposit ==
  [][ \A d \in Delegatees :
        storage.stamina[d] <= storage.total_deposit[d] =>
          /\ storage'.stamina[d] <= storage'.total_deposit[d]
          /\ (/\ storage'.num_recovery[d] = storage.num_recovery[d]
              /\ storage'.total_deposit[d] = storage.total_deposit[d])
             => storage'.stamina[d] + spent'[d] = storage.stamina[d] + spent[d] ]_vars
=============================================================================
