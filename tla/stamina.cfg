SPECIFICATION Spec
CONSTANTS
  op = op
  ann = ann
  Accounts = {op, ann}
  Operator = op
  Coinbase = op
  NullAddress = nul
  nul = nul
  StaminaAddress = contract
  OperatorStamina = 2
  MIN_DEPOSIT = 1
  RECOVER_EPOCH_LENGTH = 2
  WITHDRAWAL_DELAY = 5
  UINT128 = 100
  InitialBalance = 2
  GasLimit = 2
  IntrinsicGas = 1
  TxGas = {2}
  GasPrices = {1}
  RequestTxGasLimit = 1
  RequestTxGasPrice = 1
  MAX_REQUESTS = 1
  Delegators = {ann}
  DepositTargets = {nul}
  Amounts = {1, 2}
  DepositAmounts = {2}
  MaxBlock = 8
  MaxWithdrawals = 2
INVARIANT SpendingBounded
INVARIANT DepositsBacked
INVARIANT WithdrawnInOrder
INVARIANT MaturedIsPayable
INVARIANT OneRecoveryPerEpoch
PROPERTY PreciseSubtractWithinDeposit
CHECK_DEADLOCK FALSE
