SPECIFICATION MCSpec
CONSTANTS
  op = op
  ann = ann
  Rootchains = {r1, r2}
  Accounts = {op, ann}
  Operator = op
  DepositManager = vault
  WITHDRAWAL_DELAY = 2
  SeigPerBlock = 1
  UINT128 = 100
  InitialWTON <- MCInitialWTON
  Amounts = {1}
  MaxBlock = 6
  MaxRequests = 2
  MaxTot = 4
INVARIANT TypeOK
INVARIANT BooksAgree
INVARIANT RequestsInOrder
 
INVARIANT StakeBacked
INVARIANT SeigBlocksExact
INVARIANT MaturedIsPayable
INVARIANT PowerWithinStake
SYMMETRY Symmetry
CHECK_DEADLOCK FALSE
