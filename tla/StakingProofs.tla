---------------------------- MODULE StakingProofs ----------------------------
(***************************************************************************)
(* Proofs about Staking for every set of root chains and accounts, every   *)
(* configuration and every bound.  First three parts of the state that     *)
(* keep their own inductive invariant: the clock of the seigniorage, the   *)
(* tokens, and the queues of withdrawal requests.  Then the ledger:        *)
(* DepositManager's books against the queues, the stake of the accounts    *)
(* and the WTON behind it, and the power of PowerTON.                      *)
(***************************************************************************)
EXTENDS Staking, SumTheorems, TLAPS

clockVars == <<blockNumber, pauseVars, seigVars>>

(***************************************************************************)
(* The clock: while paused, active counts the blocks up to the pause that  *)
(* earlier pauses did not cover; otherwise it is the span without the last *)
(* pause when that is the only one, and no more when there were others.    *)
(***************************************************************************)
ClockInv ==
  /\ blockNumber \in Nat /\ lastSeigBlock \in Nat /\ pausedBlock \in Nat
  /\ unpausedBlock \in Nat /\ active \in Nat /\ pauses \in 0 .. 2 /\ paused \in BOOLEAN
  /\ lastSeigBlock <= blockNumber /\ pausedBlock <= blockNumber
  /\ unpausedBlock <= blockNumber
  /\ paused => /\ lastSeigBlock <= pausedBlock
               /\ active <= pausedBlock - lastSeigBlock
               /\ pauses = 0 => active = pausedBlock - lastSeigBlock
  /\ ~paused => /\ pausedBlock <= unpausedBlock
                /\ pauses = 0 => active = span /\ unpausedBlock <= lastSeigBlock
                /\ pauses > 0 => /\ lastSeigBlock <= pausedBlock
                                 /\ active <= span - (unpausedBlock - pausedBlock)
                /\ pauses = 1 => active = span - (unpausedBlock - pausedBlock)

TokensInv ==
  /\ tot \in [Rootchains -> Nat] /\ totalSupply \in [Rootchains -> Nat]
  /\ coinage \in [Rootchains -> [Accounts -> Nat]]
  /\ TotCoversCoinage

QueueInv ==
  /\ withdrawalRequests \in [Rootchains -> [Accounts -> Seq(Request)]]
  /\ withdrawalRequestIndex \in [Rootchains -> [Accounts -> Nat]]
  /\ RequestsInOrder

WtonInv == wton \in [Accounts \cup {DepositManager} -> Nat]

IInv == ClockInv /\ TokensInv /\ QueueInv /\ WtonInv

LEMMA InitInv == Init => IInv
<1> SUFFICES ASSUME Init PROVE IInv
  OBVIOUS
<1>1. ClockInv
  <2>1. /\ blockNumber = 1 /\ lastSeigBlock = 1 /\ ~paused /\ pausedBlock = 0
        /\ unpausedBlock = 0 /\ active = 0 /\ pauses = 0 /\ paused \in BOOLEAN
    BY Zenon DEF Init
  <2> QED
    BY <2>1 DEF ClockInv, span
<1>2. TokensInv
  BY DEF Init, TokensInv, TotCoversCoinage
<1>3. QueueInv
  BY DEF Init, QueueInv, RequestsInOrder
<1>4. WtonInv
  BY StakingConfig DEF Init, WtonInv
<1> QED
  BY <1>1, <1>2, <1>3, <1>4 DEF IInv

-----------------------------------------------------------------------------
(***************************************************************************)
(* The clock moves with commits, pauses and blocks only.                   *)
(***************************************************************************)
LEMMA ClockStutter == ClockInv /\ UNCHANGED clockVars => ClockInv'
BY DEF ClockInv, clockVars, pauseVars, seigVars, span

LEMMA ClockCommit ==
  ASSUME ClockInv, NEW r \in Rootchains, onCommit(r)
  PROVE  ClockInv'
<1>1. /\ ~paused /\ lastSeigBlock' = blockNumber
      /\ IF GivesSeig THEN active' = 0 /\ pauses' = 0 ELSE UNCHANGED <<active, pauses>>
      /\ UNCHANGED <<blockNumber, paused, pausedBlock, unpausedBlock>>
  BY DEF onCommit, pauseVars
<1>2. CASE GivesSeig
  BY <1>1, <1>2 DEF ClockInv, span
<1>3. CASE ~GivesSeig
  <2>1. lastSeigBlock' = lastSeigBlock
    BY <1>1, <1>3 DEF GivesSeig
  <2> QED
    BY <1>1, <1>3, <2>1, ClockStutter DEF clockVars, pauseVars, seigVars
<1> QED
  BY <1>2, <1>3

LEMMA ClockPausing ==
  ASSUME ClockInv, Pausing
  PROVE  ClockInv'
<1>1. CASE pause
  BY <1>1 DEF Pausing, pause, ClockInv, span
<1>2. CASE unpause
  <2>1. /\ paused /\ ~paused' /\ paused' \in BOOLEAN /\ unpausedBlock' = blockNumber
        /\ pauses' = IF pauses < 2 THEN pauses + 1 ELSE pauses
        /\ UNCHANGED <<pausedBlock, blockNumber, lastSeigBlock, active>>
    BY <1>2, Zenon DEF Pausing, unpause
  <2>2. pauses' \in 1 .. 2 /\ (pauses' = 1 => pauses = 0)
    BY <2>1 DEF ClockInv
  <2> QED
    BY <2>1, <2>2 DEF ClockInv, span
<1> QED
  BY <1>1, <1>2 DEF Pausing

LEMMA ClockBlock ==
  ASSUME ClockInv, NextBlock
  PROVE  ClockInv'
BY DEF NextBlock, ClockInv, span, pauseVars

\* Transactions of the stakers and of the registry happen within a block.
LEMMA ClockUser ==
  ASSUME NEW r \in Rootchains, NEW a \in Accounts, User(r, a)
  PROVE  UNCHANGED clockVars
<1>1. CASE \E amount \in Amounts : Deposit(r, a, amount)
  BY <1>1 DEF Deposit, clockVars
<1>2. CASE \E n \in 1 .. MaxRequests : Redeposit(r, a, n)
  BY <1>2 DEF Redeposit, clockVars
<1>3. CASE \E amount \in Amounts \cup {coinage[r][a]} : RequestWithdrawal(r, a, amount)
  BY <1>3 DEF RequestWithdrawal, clockVars
<1>4. CASE \E n \in 1 .. MaxRequests, receiveTON \in BOOLEAN :
             ProcessRequests(r, a, n, receiveTON)
  BY <1>4 DEF ProcessRequests, clockVars
<1> QED
  BY <1>1, <1>2, <1>3, <1>4 DEF User

LEMMA ClockStep == ClockInv /\ [Next]_vars => ClockInv'
<1> SUFFICES ASSUME ClockInv, [Next]_vars PROVE ClockInv'
  OBVIOUS
<1>1. CASE Registry
  BY <1>1, ClockStutter DEF Registry, clockVars
<1>2. CASE \E r \in Rootchains, a \in Accounts : User(r, a)
  BY <1>2, ClockUser, ClockStutter
<1>3. CASE \E r \in Rootchains : onCommit(r)
  BY <1>3, ClockCommit
<1>4. CASE Pausing
  BY <1>4, ClockPausing
<1>5. CASE setPowerTON
  BY <1>5, ClockStutter DEF setPowerTON, clockVars
<1>6. CASE NextBlock
  BY <1>6, ClockBlock
<1>7. CASE UNCHANGED vars
  BY <1>7, ClockStutter DEF vars, clockVars
<1> QED
  BY <1>1, <1>2, <1>3, <1>4, <1>5, <1>6, <1>7 DEF Next

LEMMA ClockExact == ClockInv => SeigBlocksExact
BY DEF ClockInv, SeigBlocksExact, calcNumSeigBlocks, span

-----------------------------------------------------------------------------
(***************************************************************************)
(* The tokens.  What a withdrawal burns beyond its amount is at most the   *)
(* uncommitted seigniorage of the root chain, and all of it when the last  *)
(* stake goes.                                                             *)
(***************************************************************************)
LEMMA BurnBound ==
  ASSUME NEW d \in Nat, NEW s \in Nat \ {0}, NEW v \in 0 .. s
  PROVE  LET q == (2 * d * v + s) \div (2 * s)
         IN  q \in 0 .. d /\ (v = s => q = d)
<1> DEFINE x == 2 * d * v + s
           q == x \div (2 * s)
<1>1. d * v \in Nat /\ d * s \in Nat /\ d * v <= d * s
  OBVIOUS
<1>2. x \in Nat /\ 2 * s \in Nat \ {0} /\ x = 2 * (d * v) + s
  BY <1>1
<1>3. q \in Nat /\ 2 * s * q <= x /\ x < 2 * s * (q + 1)
  BY <1>2
<1>4. q <= d
  <2> SUFFICES ASSUME d + 1 <= q PROVE FALSE
    BY <1>3
  <2>1. 2 * s * (d + 1) <= 2 * s * q
    BY <1>3
  <2>2. 2 * s * (d + 1) = 2 * (d * s) + 2 * s
    OBVIOUS
  <2> QED
    BY <1>1, <1>2, <1>3, <2>1, <2>2
<1>5. ASSUME v = s PROVE d <= q
  <2> SUFFICES ASSUME q + 1 <= d PROVE FALSE
    BY <1>3
  <2>1. 2 * s * (q + 1) <= 2 * s * d
    BY <1>3
  <2>2. 2 * s * d = 2 * (d * s)
    OBVIOUS
  <2> QED
    BY <1>2, <1>3, <1>5, <2>1, <2>2
<1> QED
  BY <1>3, <1>4, <1>5

LEMMA TokensStutter == TokensInv /\ UNCHANGED tokenVars => TokensInv'
BY DEF TokensInv, TotCoversCoinage, tokenVars

LEMMA TokensDeposit ==
  ASSUME TokensInv, NEW r \in Rootchains, NEW a \in Accounts, NEW amount \in Nat,
         onDeposit(r, a, amount)
  PROVE  TokensInv'
BY DEF TokensInv, TotCoversCoinage, onDeposit

LEMMA TokensWithdraw ==
  ASSUME TokensInv, NEW r \in Rootchains, NEW a \in Accounts, NEW amount \in Nat \ {0},
         onWithdraw(r, a, amount)
  PROVE  TokensInv'
<1> DEFINE s == totalSupply[r]
           d == tot[r] - s
           q == additionalTotBurnAmount(r, amount)
<1>1. d \in Nat /\ s \in Nat \ {0} /\ amount \in 0 .. s
  BY DEF TokensInv, onWithdraw
<1>2. q \in 0 .. d /\ (amount = s => q = d)
  BY <1>1, BurnBound, Zenon DEF additionalTotBurnAmount
<1>3. /\ tot' = [tot EXCEPT ![r] = @ - amount - q]
      /\ totalSupply' = [totalSupply EXCEPT ![r] = @ - amount]
      /\ coinage' = [coinage EXCEPT ![r][a] = @ - amount]
      /\ amount <= coinage[r][a]
  BY DEF onWithdraw
<1> HIDE DEF q
<1>4. tot[r] - amount - q \in Nat /\ s - amount \in Nat
      /\ s - amount <= tot[r] - amount - q
      /\ (s - amount = 0 => tot[r] - amount - q = 0)
  <2>1. tot[r] \in Nat /\ q \in Nat /\ q <= tot[r] - s /\ (amount = s => q = tot[r] - s)
    BY <1>1, <1>2 DEF TokensInv
  <2>2. s \in Nat /\ amount \in Nat /\ amount <= s
    BY <1>1
  <2> HIDE DEF s
  <2> QED
    BY <2>1, <2>2
<1>5. tot' \in [Rootchains -> Nat] /\ totalSupply' \in [Rootchains -> Nat]
  BY <1>3, <1>4 DEF TokensInv
<1>6. coinage' \in [Rootchains -> [Accounts -> Nat]]
  BY <1>3 DEF TokensInv
<1>7. TotCoversCoinage'
  BY <1>3, <1>4 DEF TokensInv, TotCoversCoinage
<1> QED
  BY <1>5, <1>6, <1>7 DEF TokensInv

LEMMA TokensCommit ==
  ASSUME TokensInv, NEW r \in Rootchains, onCommit(r)
  PROVE  TokensInv'
<1>1. /\ tot' \in [Rootchains -> Nat]
      /\ \A s \in Rootchains : tot[s] <= tot'[s] /\ (tot[s] = 0 => tot'[s] = 0)
  <2>1. tot' \in increaseTot
    BY DEF onCommit
  <2>2. CASE tot' = tot
    BY <2>2 DEF TokensInv
  <2>3. CASE tot' # tot
    BY <2>1, <2>3, StakingConfig DEF increaseTot
  <2> QED
    BY <2>2, <2>3
<1>2. CASE UNCHANGED <<coinage, totalSupply, wton>>
  BY <1>1, <1>2 DEF TokensInv, TotCoversCoinage
<1>3. CASE /\ tot'[r] > totalSupply[r] /\ totalSupply[r] > 0
           /\ \E next \in Distributions(r, tot'[r] - totalSupply[r]) :
                coinage' = [coinage EXCEPT ![r] = next]
           /\ totalSupply' = [totalSupply EXCEPT ![r] = tot'[r]]
  <2>1. coinage' \in [Rootchains -> [Accounts -> Nat]]
    <3>1. PICK next \in Distributions(r, tot'[r] - totalSupply[r]) :
                 coinage' = [coinage EXCEPT ![r] = next]
      BY <1>3, Zenon
    <3>2. next \in [Accounts -> Nat]
      BY StakingConfig DEF Distributions
    <3> QED
      BY <3>1, <3>2 DEF TokensInv
  <2>2. totalSupply' \in [Rootchains -> Nat]
    BY <1>1, <1>3 DEF TokensInv
  <2>3. TotCoversCoinage'
    BY <1>1, <1>3 DEF TokensInv, TotCoversCoinage
  <2> QED
    BY <1>1, <2>1, <2>2, <2>3 DEF TokensInv
<1> QED
  BY <1>2, <1>3 DEF onCommit

LEMMA TokensUser ==
  ASSUME TokensInv, NEW r \in Rootchains, NEW a \in Accounts, User(r, a)
  PROVE  TokensInv'
<1>1. CASE \E amount \in Amounts : Deposit(r, a, amount)
  BY <1>1, TokensDeposit, StakingConfig DEF Deposit
<1>2. CASE \E n \in 1 .. MaxRequests : Redeposit(r, a, n)
  <2>1. PICK n \in 1 .. MaxRequests : Redeposit(r, a, n)
    BY <1>2
  <2>2. NextAmount(r, a, n) \in Nat
    BY <2>1 DEF Redeposit, CanUnbook
  <2> QED
    BY <2>1, <2>2, TokensDeposit DEF Redeposit
<1>3. CASE \E amount \in Amounts \cup {coinage[r][a]} : RequestWithdrawal(r, a, amount)
  <2>1. PICK amount \in Amounts \cup {coinage[r][a]} : RequestWithdrawal(r, a, amount)
    BY <1>3
  <2>2. amount \in Nat \ {0} /\ onWithdraw(r, a, amount)
    BY <2>1, StakingConfig DEF RequestWithdrawal, TokensInv
  <2> QED
    BY <2>2, TokensWithdraw
<1>4. CASE \E n \in 1 .. MaxRequests, receiveTON \in BOOLEAN :
             ProcessRequests(r, a, n, receiveTON)
  BY <1>4, TokensStutter DEF ProcessRequests
<1> QED
  BY <1>1, <1>2, <1>3, <1>4 DEF User

LEMMA TokensStep == TokensInv /\ [Next]_vars => TokensInv'
<1> SUFFICES ASSUME TokensInv, [Next]_vars PROVE TokensInv'
  OBVIOUS
<1>1. CASE Registry
  BY <1>1, TokensStutter DEF Registry
<1>2. CASE \E r \in Rootchains, a \in Accounts : User(r, a)
  BY <1>2, TokensUser
<1>3. CASE \E r \in Rootchains : onCommit(r)
  BY <1>3, TokensCommit
<1>4. CASE Pausing
  BY <1>4, TokensStutter DEF Pausing
<1>5. CASE setPowerTON
  BY <1>5, TokensStutter DEF setPowerTON
<1>6. CASE NextBlock
  BY <1>6, TokensStutter DEF NextBlock
<1>7. CASE UNCHANGED vars
  BY <1>7, TokensStutter DEF vars
<1> QED
  BY <1>1, <1>2, <1>3, <1>4, <1>5, <1>6, <1>7 DEF Next

-----------------------------------------------------------------------------
(***************************************************************************)
(* The queues.                                                             *)
(***************************************************************************)
queueVars == <<withdrawalRequests, withdrawalRequestIndex>>

\* The queue q of one account, the first i of its requests processed.
QueueOK(q, i) ==
  /\ q \in Seq(Request) /\ i \in Nat /\ i <= Len(q)
  /\ \A j \in DOMAIN q : q[j].processed <=> j <= i

LEMMA QueueInvOK ==
  QueueInv <=>
    /\ withdrawalRequests \in [Rootchains -> [Accounts -> Seq(Request)]]
    /\ withdrawalRequestIndex \in [Rootchains -> [Accounts -> Nat]]
    /\ \A r \in Rootchains, a \in Accounts :
         QueueOK(withdrawalRequests[r][a], withdrawalRequestIndex[r][a])
BY DEF QueueInv, RequestsInOrder, QueueOK

LEMMA QueueStutter == QueueInv /\ UNCHANGED queueVars => QueueInv'
BY DEF QueueInv, RequestsInOrder, queueVars

\* A step that replaces one account's queue by a good one.
LEMMA QueueUpdate ==
  ASSUME QueueInv, NEW r \in Rootchains, NEW a \in Accounts, NEW q, NEW i, QueueOK(q, i),
         withdrawalRequests' = [withdrawalRequests EXCEPT ![r][a] = q],
         withdrawalRequestIndex' = [withdrawalRequestIndex EXCEPT ![r][a] = i]
  PROVE  QueueInv'
<1>1. withdrawalRequests' \in [Rootchains -> [Accounts -> Seq(Request)]]
  BY DEF QueueInv, QueueOK
<1>2. withdrawalRequestIndex' \in [Rootchains -> [Accounts -> Nat]]
  BY DEF QueueInv, QueueOK
<1>3. ASSUME NEW s \in Rootchains, NEW b \in Accounts
      PROVE  QueueOK(withdrawalRequests'[s][b], withdrawalRequestIndex'[s][b])
  <2>1. QueueOK(withdrawalRequests[s][b], withdrawalRequestIndex[s][b])
    BY QueueInvOK
  <2>2. CASE s = r /\ b = a
    BY <2>2 DEF QueueInv
  <2>3. CASE ~(s = r /\ b = a)
    <3>1. /\ withdrawalRequests'[s][b] = withdrawalRequests[s][b]
          /\ withdrawalRequestIndex'[s][b] = withdrawalRequestIndex[s][b]
      BY <2>3 DEF QueueInv
    <3> QED
      BY <2>1, <3>1
  <2> QED
    BY <2>2, <2>3
<1> QED
  BY <1>1, <1>2, <1>3 DEF QueueInv, RequestsInOrder, QueueOK

LEMMA QueueAppend ==
  ASSUME NEW q, NEW i, QueueOK(q, i), NEW e \in Request, ~e.processed
  PROVE  QueueOK(Append(q, e), i)
<1> DEFINE p == Append(q, e)
<1>1. p \in Seq(Request) /\ Len(p) = Len(q) + 1 /\ DOMAIN q = 1 .. Len(q)
      /\ DOMAIN p = 1 .. Len(q) + 1
  BY DEF QueueOK
<1>2. \A j \in DOMAIN q : p[j] = q[j]
  BY <1>1 DEF QueueOK
<1>3. p[Len(q) + 1] = e
  BY DEF QueueOK
<1> HIDE DEF p
<1>4. ASSUME NEW j \in DOMAIN p PROVE p[j].processed <=> j <= i
  <2>1. CASE j \in DOMAIN q
    BY <1>2, <2>1 DEF QueueOK
  <2>2. CASE j = Len(q) + 1
    BY <1>3, <2>2 DEF QueueOK
  <2> QED
    BY <1>1, <2>1, <2>2 DEF QueueOK
<1>5. i \in Nat /\ i <= Len(p)
  BY <1>1 DEF QueueOK
<1> QED
  BY <1>1, <1>4, <1>5 DEF QueueOK, p

\* The queue after its requests i + 1 to i + n are marked as processed.
Marked(q, i, n) ==
  [j \in DOMAIN q |-> IF j \in i + 1 .. i + n THEN [q[j] EXCEPT !.processed = TRUE]
                                              ELSE q[j]]

LEMMA QueueMark ==
  ASSUME NEW q, NEW i, QueueOK(q, i), NEW n \in Nat, i + n <= Len(q)
  PROVE  QueueOK(Marked(q, i, n), i + n)
<1> DEFINE p == Marked(q, i, n)
<1>1. DOMAIN q = 1 .. Len(q) /\ Len(q) \in Nat /\ i \in Nat
      /\ \A j \in DOMAIN q : q[j] \in Request
  BY DEF QueueOK
<1>2. \A j \in DOMAIN q : p[j] \in Request
  BY <1>1, Zenon DEF Marked, Request
<1>3. p \in Seq(Request) /\ Len(p) = Len(q) /\ DOMAIN p = DOMAIN q
  <2>1. p = [j \in 1 .. Len(q) |-> p[j]] /\ \A j \in 1 .. Len(q) : p[j] \in Request
    BY <1>1, <1>2 DEF Marked
  <2> HIDE DEF p
  <2>2. p \in [1 .. Len(q) -> Request]
    BY <2>1
  <2> QED
    BY <1>1, <2>2
<1>4. ASSUME NEW j \in DOMAIN q PROVE p[j].processed <=> j <= i + n
  <2>1. CASE j \in i + 1 .. i + n
    <3>1. p[j].processed = TRUE
      BY <1>1, <2>1 DEF Marked, Request
    <3> QED
      BY <1>1, <2>1, <3>1
  <2>2. CASE j \notin i + 1 .. i + n
    <3>1. p[j] = q[j] /\ (q[j].processed <=> j <= i)
      BY <2>2 DEF Marked, QueueOK
    <3> QED
      BY <1>1, <2>2, <3>1
  <2> QED
    BY <2>1, <2>2
<1>5. i + n \in Nat
  BY <1>1
<1> QED
  BY <1>3, <1>4, <1>5 DEF QueueOK

\* Both redepositing and paying mark the next n requests and move the index.
LEMMA QueueSettle ==
  ASSUME QueueInv, NEW r \in Rootchains, NEW a \in Accounts, NEW n \in Nat,
         withdrawalRequestIndex[r][a] + n <= Len(withdrawalRequests[r][a]),
         withdrawalRequests' = Settled(r, a, n),
         withdrawalRequestIndex' = [withdrawalRequestIndex EXCEPT ![r][a] = @ + n]
  PROVE  QueueInv'
<1> DEFINE q == withdrawalRequests[r][a]
           i == withdrawalRequestIndex[r][a]
<1>1. QueueOK(q, i)
  BY QueueInvOK
<1>2. QueueOK(Marked(q, i, n), i + n)
  BY <1>1, QueueMark
<1>3. withdrawalRequests' = [withdrawalRequests EXCEPT ![r][a] = Marked(q, i, n)]
  BY DEF Settled, Marked, NextRequests, QueueInv
<1>4. withdrawalRequestIndex' = [withdrawalRequestIndex EXCEPT ![r][a] = i + n]
  BY DEF QueueInv
<1> DEFINE p == Marked(q, i, n)
           k == i + n
<1>5. /\ QueueOK(p, k)
      /\ withdrawalRequests' = [withdrawalRequests EXCEPT ![r][a] = p]
      /\ withdrawalRequestIndex' = [withdrawalRequestIndex EXCEPT ![r][a] = k]
  BY <1>2, <1>3, <1>4
<1> HIDE DEF p, k
<1> QED
  BY <1>5, QueueUpdate, Zenon

LEMMA QueueRequest ==
  ASSUME QueueInv, NEW r \in Rootchains, NEW a \in Accounts, NEW amount \in Nat,
         blockNumber \in Nat, RequestWithdrawal(r, a, amount)
  PROVE  QueueInv'
<1> DEFINE q == withdrawalRequests[r][a]
           i == withdrawalRequestIndex[r][a]
<1>1. newRequest(amount) \in Request /\ ~newRequest(amount).processed
  <2>1. (blockNumber + WITHDRAWAL_DELAY) % UINT128 \in Nat /\ amount % UINT128 \in Nat
    BY StakingConfig
  <2> QED
    BY <2>1 DEF newRequest, Request
<1>2. QueueOK(Append(q, newRequest(amount)), i)
  BY <1>1, QueueInvOK, QueueAppend
<1>3. withdrawalRequests' = [withdrawalRequests EXCEPT ![r][a] = Append(q, newRequest(amount))]
  BY DEF RequestWithdrawal, QueueInv
<1>4. withdrawalRequestIndex' = [withdrawalRequestIndex EXCEPT ![r][a] = i]
  BY DEF RequestWithdrawal, QueueInv
<1> QED
  BY <1>2, <1>3, <1>4, QueueUpdate, Zenon

LEMMA QueueUser ==
  ASSUME IInv, NEW r \in Rootchains, NEW a \in Accounts, User(r, a)
  PROVE  QueueInv'
<1> USE DEF IInv
<1>1. CASE \E amount \in Amounts : Deposit(r, a, amount)
  BY <1>1, QueueStutter DEF Deposit, queueVars
<1>2. CASE \E n \in 1 .. MaxRequests : Redeposit(r, a, n)
  <2>1. PICK n \in 1 .. MaxRequests : Redeposit(r, a, n)
    BY <1>2
  <2>2. n \in Nat /\ withdrawalRequestIndex[r][a] + n <= Len(withdrawalRequests[r][a])
    BY <2>1, StakingConfig DEF Redeposit, QueueInv
  <2> QED
    BY <2>1, <2>2, QueueSettle, Zenon DEF Redeposit
<1>3. CASE \E amount \in Amounts \cup {coinage[r][a]} : RequestWithdrawal(r, a, amount)
  <2>1. PICK amount \in Amounts \cup {coinage[r][a]} : RequestWithdrawal(r, a, amount)
    BY <1>3
  <2>2. amount \in Nat /\ blockNumber \in Nat
    BY StakingConfig DEF TokensInv, ClockInv
  <2> QED
    BY <2>1, <2>2, QueueRequest
<1>4. CASE \E n \in 1 .. MaxRequests, receiveTON \in BOOLEAN :
             ProcessRequests(r, a, n, receiveTON)
  <2>1. PICK n \in 1 .. MaxRequests, receiveTON \in BOOLEAN :
               ProcessRequests(r, a, n, receiveTON)
    BY <1>4
  <2>2. n \in Nat /\ withdrawalRequestIndex[r][a] + n <= Len(withdrawalRequests[r][a])
    BY <2>1, StakingConfig DEF ProcessRequests, CanProcess
  <2> QED
    BY <2>1, <2>2, QueueSettle, Zenon DEF ProcessRequests
<1> QED
  BY <1>1, <1>2, <1>3, <1>4 DEF User

LEMMA QueueStep == IInv /\ [Next]_vars => QueueInv'
<1> SUFFICES ASSUME IInv, [Next]_vars PROVE QueueInv'
  OBVIOUS
<1> USE DEF IInv
<1>1. CASE Registry
  BY <1>1, QueueStutter DEF Registry, depositVars, queueVars
<1>2. CASE \E r \in Rootchains, a \in Accounts : User(r, a)
  BY <1>2, QueueUser
<1>3. CASE \E r \in Rootchains : onCommit(r)
  BY <1>3, QueueStutter DEF onCommit, depositVars, queueVars
<1>4. CASE Pausing
  BY <1>4, QueueStutter DEF Pausing, depositVars, queueVars
<1>5. CASE setPowerTON
  BY <1>5, QueueStutter DEF setPowerTON, depositVars, queueVars
<1>6. CASE NextBlock
  BY <1>6, QueueStutter DEF NextBlock, depositVars, queueVars
<1>7. CASE UNCHANGED vars
  BY <1>7, QueueStutter DEF vars, depositVars, queueVars
<1> QED
  BY <1>1, <1>2, <1>3, <1>4, <1>5, <1>6, <1>7 DEF Next

-----------------------------------------------------------------------------
(***************************************************************************)
(* WTON.  DepositManager pays in ProcessRequests only.                     *)
(***************************************************************************)
OnlyRequestsPaid ==
  wton'[DepositManager] < wton[DepositManager] =>
    \E r \in Rootchains, a \in Accounts :
      LET n == withdrawalRequestIndex'[r][a] - withdrawalRequestIndex[r][a]
      IN /\ wton[DepositManager] - wton'[DepositManager] = NextAmount(r, a, n)
         /\ \A i \in NextRequests(r, a, n) :
              withdrawalRequests[r][a][i].withdrawableBlockNumber <= blockNumber

LEMMA WtonStutter == WtonInv /\ UNCHANGED wton => WtonInv' /\ OnlyRequestsPaid
BY DEF WtonInv, OnlyRequestsPaid

LEMMA WtonDeposit ==
  ASSUME WtonInv, NEW r \in Rootchains, NEW a \in Accounts, NEW amount \in Nat,
         Deposit(r, a, amount)
  PROVE  WtonInv' /\ OnlyRequestsPaid
<1>1. amount <= wton[a] /\ wton' = Paid(a, DepositManager, amount) /\ a # DepositManager
  BY StakingConfig DEF Deposit
<1>2. WtonInv'
  BY <1>1 DEF WtonInv, Paid
<1>3. wton'[DepositManager] = wton[DepositManager] + amount
  BY <1>1 DEF WtonInv, Paid
<1> QED
  BY <1>2, <1>3 DEF WtonInv, OnlyRequestsPaid

LEMMA WtonProcess ==
  ASSUME WtonInv, QueueInv, NEW r \in Rootchains, NEW a \in Accounts, NEW n \in Nat,
         NEW receiveTON \in BOOLEAN, ProcessRequests(r, a, n, receiveTON)
  PROVE  WtonInv' /\ OnlyRequestsPaid
<1> DEFINE amount == NextAmount(r, a, n)
<1>1. /\ amount \in Nat /\ amount <= wton[DepositManager] /\ a # DepositManager
      /\ wton' = IF receiveTON THEN [wton EXCEPT ![DepositManager] = @ - amount]
                               ELSE Paid(DepositManager, a, amount)
  BY StakingConfig DEF ProcessRequests, CanProcess, CanUnbook
<1> HIDE DEF amount
<1>2. WtonInv'
  BY <1>1 DEF WtonInv, Paid
<1>3. wton[DepositManager] - wton'[DepositManager] = amount
  BY <1>1 DEF WtonInv, Paid
<1>4. withdrawalRequestIndex'[r][a] - withdrawalRequestIndex[r][a] = n
  BY DEF ProcessRequests, QueueInv
<1>5. \A i \in NextRequests(r, a, n) :
        withdrawalRequests[r][a][i].withdrawableBlockNumber <= blockNumber
  BY DEF ProcessRequests, CanProcess
<1> QED
  BY <1>2, <1>3, <1>4, <1>5 DEF OnlyRequestsPaid, amount

LEMMA WtonCommit ==
  ASSUME WtonInv, TokensInv, NEW r \in Rootchains, onCommit(r)
  PROVE  WtonInv' /\ OnlyRequestsPaid
<1>1. CASE UNCHANGED wton
  BY <1>1, WtonStutter
<1>2. CASE tot'[r] > totalSupply[r] /\ wton' = Minted(tot'[r] - totalSupply[r])
  <2>1. tot'[r] - totalSupply[r] \in Nat
    BY <1>2, TokensCommit DEF TokensInv
  <2>2. WtonInv' /\ wton'[DepositManager] >= wton[DepositManager]
    BY <1>2, <2>1 DEF WtonInv, Minted
  <2> QED
    BY <2>2 DEF WtonInv, OnlyRequestsPaid
<1> QED
  BY <1>1, <1>2 DEF onCommit

LEMMA WtonUser ==
  ASSUME IInv, NEW r \in Rootchains, NEW a \in Accounts, User(r, a)
  PROVE  WtonInv' /\ OnlyRequestsPaid
<1> USE DEF IInv
<1>1. CASE \E amount \in Amounts : Deposit(r, a, amount)
  BY <1>1, WtonDeposit, StakingConfig
<1>2. CASE \E n \in 1 .. MaxRequests : Redeposit(r, a, n)
  BY <1>2, WtonStutter DEF Redeposit
<1>3. CASE \E amount \in Amounts \cup {coinage[r][a]} : RequestWithdrawal(r, a, amount)
  BY <1>3, WtonStutter DEF RequestWithdrawal
<1>4. CASE \E n \in 1 .. MaxRequests, receiveTON \in BOOLEAN :
             ProcessRequests(r, a, n, receiveTON)
  BY <1>4, WtonProcess, StakingConfig
<1> QED
  BY <1>1, <1>2, <1>3, <1>4 DEF User

LEMMA WtonStep == IInv /\ [Next]_vars => WtonInv' /\ OnlyRequestsPaid
<1> SUFFICES ASSUME IInv, [Next]_vars PROVE WtonInv' /\ OnlyRequestsPaid
  OBVIOUS
<1> USE DEF IInv
<1>1. CASE Registry
  BY <1>1, WtonStutter DEF Registry
<1>2. CASE \E r \in Rootchains, a \in Accounts : User(r, a)
  BY <1>2, WtonUser
<1>3. CASE \E r \in Rootchains : onCommit(r)
  BY <1>3, WtonCommit
<1>4. CASE Pausing
  BY <1>4, WtonStutter DEF Pausing
<1>5. CASE setPowerTON
  BY <1>5, WtonStutter DEF setPowerTON
<1>6. CASE NextBlock
  BY <1>6, WtonStutter DEF NextBlock
<1>7. CASE UNCHANGED vars
  BY <1>7, WtonStutter DEF vars
<1> QED
  BY <1>1, <1>2, <1>3, <1>4, <1>5, <1>6, <1>7 DEF Next

-----------------------------------------------------------------------------
LEMMA NextInv == IInv /\ [Next]_vars => IInv'
BY ClockStep, TokensStep, QueueStep, WtonStep DEF IInv

\* The inductive invariant of the contracts holds in every reachable state.
THEOREM StakingInvThm == Spec => []IInv
BY InitInv, NextInv, PTL DEF Spec

\* Seigniorage is given for exactly the unpaused blocks, except after several
\* pauses (too many) and after seigniorage in the block of an unpause.
THEOREM SeigBlocksExactThm == Spec => []SeigBlocksExact
<1>1. IInv => SeigBlocksExact
  BY ClockExact DEF IInv
<1> QED
  BY <1>1, StakingInvThm, PTL

\* {tot} covers the coinage of every root chain, and a root chain without
\* stakers holds none: withdrawals and commits do not revert on either.
THEOREM TotCoversCoinageThm == Spec => []TotCoversCoinage
<1>1. IInv => TotCoversCoinage
  BY DEF IInv, TokensInv
<1> QED
  BY <1>1, StakingInvThm, PTL

\* Withdrawal requests are settled in order and once, by redepositing or paying.
THEOREM RequestsInOrderThm == Spec => []RequestsInOrder
<1>1. IInv => RequestsInOrder
  BY DEF IInv, QueueInv
<1> QED
  BY <1>1, StakingInvThm, PTL

\* DepositManager pays the next requests of an account, after their delay.
THEOREM PaidAfterDelayThm == Spec => PaidAfterDelay
<1>1. IInv /\ [Next]_vars => [OnlyRequestsPaid]_vars
  BY WtonStep
<1> QED
  BY <1>1, StakingInvThm, PTL DEF Spec, PaidAfterDelay, OnlyRequestsPaid

-----------------------------------------------------------------------------
(***************************************************************************)
(* The books.  Each keeps its three views in agreement.                    *)
(***************************************************************************)
column(f, a) == [r \in Rootchains |-> f[r][a]]

BookOK(book) ==
  /\ book \in Book
  /\ \A r \in Rootchains : book.rootchain[r] = Total(book.each[r], Accounts)
  /\ \A a \in Accounts : book.account[a] = Total(column(book.each, a), Rootchains)

LEMMA FiniteParts == IsFiniteSet(Rootchains) /\ IsFiniteSet(Accounts)
BY StakingConfig

LEMMA EmptyBookOK == BookOK(EmptyBook)
<1>1. EmptyBook \in Book
  BY DEF EmptyBook, Book
<1>2. ASSUME NEW r \in Rootchains
      PROVE  EmptyBook.rootchain[r] = Total(EmptyBook.each[r], Accounts)
  <2>1. \A a \in Accounts : EmptyBook.each[r][a] = 0
    BY DEF EmptyBook
  <2>2. EmptyBook.rootchain[r] = 0
    BY DEF EmptyBook
  <2> QED
    BY <2>1, <2>2, TotalZero, FiniteParts
<1>3. ASSUME NEW a \in Accounts
      PROVE  EmptyBook.account[a] = Total(column(EmptyBook.each, a), Rootchains)
  <2>1. \A r \in Rootchains : column(EmptyBook.each, a)[r] = 0
    BY DEF EmptyBook, column
  <2>2. EmptyBook.account[a] = 0
    BY DEF EmptyBook
  <2> QED
    BY <2>1, <2>2, TotalZero, FiniteParts
<1> QED
  BY <1>1, <1>2, <1>3 DEF BookOK

\* A change of one entry of a table changes the sum of its row by as much.
LEMMA RowChange ==
  ASSUME NEW f \in [Rootchains -> [Accounts -> Int]],
         NEW r \in Rootchains, NEW a \in Accounts, NEW v \in Int, NEW s \in Rootchains
  PROVE  Total([f EXCEPT ![r][a] = @ + v][s], Accounts) =
           IF s = r THEN Total(f[r], Accounts) + v ELSE Total(f[s], Accounts)
<1>1. CASE s # r
  BY <1>1
<1>2. CASE s = r
  <2> DEFINE row == f[r]
  <2>1. [f EXCEPT ![r][a] = @ + v][s] = [row EXCEPT ![a] = @ + v]
    BY <1>2
  <2>2. row \in [Accounts -> Int]
    OBVIOUS
  <2> HIDE DEF row
  <2>3. Total([row EXCEPT ![a] = @ + v], Accounts) = Total(row, Accounts) + v
    BY <2>2, TotalIncrement, FiniteParts, ZenonT(20)
  <2> QED
    BY <1>2, <2>1, <2>3 DEF row
<1> QED
  BY <1>1, <1>2

LEMMA BookedOK ==
  ASSUME NEW book, BookOK(book), NEW r \in Rootchains, NEW a \in Accounts, NEW v \in Int,
         book.each[r][a] + v \in Nat, book.rootchain[r] + v \in Nat,
         book.account[a] + v \in Nat
  PROVE  BookOK(Booked(book, r, a, v))
<1> DEFINE old == book.each
           each == [old EXCEPT ![r][a] = @ + v]
           rootchain == [book.rootchain EXCEPT ![r] = @ + v]
           account == [book.account EXCEPT ![a] = @ + v]
           new == Booked(book, r, a, v)
<1>1. /\ book \in Book /\ old \in [Rootchains -> [Accounts -> Nat]]
      /\ book.rootchain \in [Rootchains -> Nat] /\ book.account \in [Accounts -> Nat]
  BY DEF BookOK, Book
<1>2. new = [book EXCEPT !.each = each, !.rootchain = rootchain, !.account = account]
  BY DEF Booked
<1>3. /\ each \in [Rootchains -> [Accounts -> Nat]]
      /\ rootchain \in [Rootchains -> Nat] /\ account \in [Accounts -> Nat]
  BY <1>1
<1>4. old \in [Rootchains -> [Accounts -> Int]]
  BY <1>1
<1>5. \A s \in Rootchains : rootchain[s] = Total(each[s], Accounts)
  <2> TAKE s \in Rootchains
  <2>1. rootchain[s] = IF s = r THEN book.rootchain[r] + v ELSE book.rootchain[s]
    BY <1>1
  <2>2. book.rootchain[s] = Total(old[s], Accounts)
    BY DEF BookOK
  <2>3. Total(each[s], Accounts) = IF s = r THEN Total(old[r], Accounts) + v
                                   ELSE Total(old[s], Accounts)
    BY <1>4, RowChange, Zenon
  <2> HIDE DEF each, old, rootchain
  <2> QED
    BY <2>1, <2>2, <2>3
<1>6. \A b \in Accounts : account[b] = Total(column(each, b), Rootchains)
  <2> TAKE b \in Accounts
  <2>1. account[b] = IF b = a THEN book.account[a] + v ELSE book.account[b]
    BY <1>1
  <2>2. book.account[b] = Total(column(old, b), Rootchains)
    BY DEF BookOK
  <2>3. Total(column(each, b), Rootchains) =
          IF b = a THEN Total(column(old, a), Rootchains) + v
          ELSE Total(column(old, b), Rootchains)
    <3> DEFINE col == column(old, a)
    <3>1. CASE b # a
      <4>1. column(each, b) = column(old, b)
        BY <1>1, <3>1 DEF column
      <4> QED
        BY <3>1, <4>1
    <3>2. CASE b = a
      <4>1. column(each, b) = [col EXCEPT ![r] = @ + v]
        BY <1>1, <3>2, Zenon DEF column
      <4>2. col \in [Rootchains -> Int]
        BY <1>1 DEF column
      <4> HIDE DEF col, each
      <4>3. Total([col EXCEPT ![r] = @ + v], Rootchains) = Total(col, Rootchains) + v
        BY <4>2, TotalIncrement, FiniteParts, ZenonT(20)
      <4> QED
        BY <3>2, <4>1, <4>3 DEF col
    <3> QED
      BY <3>1, <3>2
  <2> HIDE DEF each, old, account
  <2> QED
    BY <2>1, <2>2, <2>3
<1> HIDE DEF each, rootchain, account, new
<1>7. new \in Book
  BY <1>1, <1>2, <1>3, ZenonT(30) DEF Book
<1>8. new.each = each /\ new.rootchain = rootchain /\ new.account = account
  BY <1>1, <1>2 DEF Book
<1> QED
  BY <1>5, <1>6, <1>7, <1>8 DEF BookOK, new

\* Amounts are added, and taken away when SafeMath lets them.
LEMMA BookedMore ==
  ASSUME NEW book, BookOK(book), NEW r \in Rootchains, NEW a \in Accounts, NEW v \in Nat
  PROVE  BookOK(Booked(book, r, a, v))
<1>1. book.each[r][a] \in Nat /\ book.rootchain[r] \in Nat /\ book.account[a] \in Nat
  BY DEF BookOK, Book
<1> QED
  BY <1>1, BookedOK

LEMMA BookedLess ==
  ASSUME NEW book, BookOK(book), NEW r \in Rootchains, NEW a \in Accounts, NEW v,
         CanUnbook(book, r, a, v)
  PROVE  v \in Nat /\ BookOK(Booked(book, r, a, -v))
<1>1. book.each[r][a] \in Nat /\ book.rootchain[r] \in Nat /\ book.account[a] \in Nat
  BY DEF BookOK, Book
<1>2. v \in Nat /\ v <= book.each[r][a] /\ v <= book.rootchain[r] /\ v <= book.account[a]
  BY <1>1 DEF CanUnbook
<1>3. /\ -v \in Int /\ book.each[r][a] + (-v) \in Nat /\ book.rootchain[r] + (-v) \in Nat
      /\ book.account[a] + (-v) \in Nat
  BY <1>1, <1>2
<1> DEFINE w == -v
<1> HIDE DEF w
<1>4. BookOK(Booked(book, r, a, w))
  BY <1>3, BookedOK DEF w
<1> QED
  BY <1>2, <1>4 DEF w

\* What a book says of one root chain is at least what it says of an account there.
LEMMA EntryBelow ==
  ASSUME NEW book, BookOK(book), NEW r \in Rootchains, NEW a \in Accounts
  PROVE  /\ book.each[r][a] <= book.rootchain[r]
         /\ book.each[r][a] <= book.account[a]
         /\ book.rootchain[r] <= Total(book.rootchain, Rootchains)
<1>1. /\ \A b \in Accounts : book.each[r][b] \in Nat
      /\ \A s \in Rootchains : column(book.each, a)[s] \in Nat
      /\ \A s \in Rootchains : book.rootchain[s] \in Nat
      /\ column(book.each, a)[r] = book.each[r][a]
  BY DEF BookOK, Book, column
<1>2. book.each[r][a] <= Total(book.each[r], Accounts)
  BY <1>1, TotalMember, FiniteParts
<1>3. column(book.each, a)[r] <= Total(column(book.each, a), Rootchains)
  BY <1>1, TotalMember, FiniteParts
<1>4. book.rootchain[r] <= Total(book.rootchain, Rootchains)
  BY <1>1, TotalMember, FiniteParts
<1> QED
  BY <1>1, <1>2, <1>3, <1>4 DEF BookOK


-----------------------------------------------------------------------------
(***************************************************************************)
(* What is pending.  A book entry covers what the requests not yet         *)
(* processed ask for, and is equal to it when no amount of stake is cut to *)
(* 128 bits in a request.                                                  *)
(***************************************************************************)
AmountOf(q, lo, hi) == Total([j \in lo .. hi |-> q[j].amount], lo .. hi)

Waiting(q, i) == AmountOf(q, i + 1, Len(q))

\* The entry e of pendingUnstaked against the queue q whose first i requests are done.
PendingOK(e, q, i) == Waiting(q, i) <= e /\ (MaxTot < UINT128 => e = Waiting(q, i))

LEMMA RequestAmount ==
  ASSUME NEW q \in Seq(Request), NEW j \in 1 .. Len(q)
  PROVE  q[j].amount \in Nat
<1>1. q[j] \in Request
  OBVIOUS
<1> QED
  BY <1>1 DEF Request

LEMMA AmountNat ==
  ASSUME NEW q \in Seq(Request), NEW lo \in Nat \ {0}, NEW hi \in Nat, hi <= Len(q)
  PROVE  AmountOf(q, lo, hi) \in Nat
<1> DEFINE f == [j \in lo .. hi |-> q[j].amount]
<1>0. \A j \in lo .. hi : j \in 1 .. Len(q)
  OBVIOUS
<1>1. \A j \in lo .. hi : f[j] \in Nat
  BY <1>0, RequestAmount
<1>2. IsFiniteSet(lo .. hi)
  BY FS_Interval
<1> HIDE DEF f
<1>3. Total(f, lo .. hi) \in Nat
  BY <1>1, <1>2, TotalNat
<1> QED
  BY <1>3 DEF AmountOf, f

LEMMA AmountSame ==
  ASSUME NEW q, NEW p, NEW lo \in Int, NEW hi \in Int,
         \A j \in lo .. hi : p[j].amount = q[j].amount
  PROVE  AmountOf(p, lo, hi) = AmountOf(q, lo, hi)
BY DEF AmountOf

LEMMA AmountSplit ==
  ASSUME NEW q \in Seq(Request), NEW i \in Nat, NEW n \in Nat, i + n <= Len(q)
  PROVE  Waiting(q, i) = AmountOf(q, i + 1, i + n) + Waiting(q, i + n)
<1> DEFINE f == [j \in i + 1 .. Len(q) |-> q[j].amount]
           g == [j \in i + 1 .. i + n |-> q[j].amount]
           h == [j \in i + n + 1 .. Len(q) |-> q[j].amount]
<1>0. \A j \in i + 1 .. Len(q) : j \in 1 .. Len(q)
  OBVIOUS
<1>1. \A j \in i + 1 .. Len(q) : f[j] \in Int
  BY <1>0, RequestAmount
<1>2. (\A j \in i + 1 .. i + n : f[j] = g[j]) /\ (\A j \in i + n + 1 .. Len(q) : f[j] = h[j])
  OBVIOUS
<1>3. IsFiniteSet(i + 1 .. i + n) /\ IsFiniteSet(i + n + 1 .. Len(q))
  BY FS_Interval
<1>4. i + 1 \in Int /\ i + n \in Int /\ Len(q) \in Int /\ i + 1 <= (i + n) + 1
  OBVIOUS
<1>5. /\ AmountOf(q, i + 1, i + n) = Total(g, i + 1 .. i + n)
      /\ Waiting(q, i + n) = Total(h, i + n + 1 .. Len(q))
      /\ Waiting(q, i) = Total(f, i + 1 .. Len(q))
  BY DEF Waiting, AmountOf
<1> HIDE DEF f, g, h
<1>6. Total(f, i + 1 .. Len(q)) = Total(f, i + 1 .. i + n) + Total(f, i + n + 1 .. Len(q))
  BY <1>1, <1>4, TotalInterval
<1>7. Total(f, i + 1 .. i + n) = Total(g, i + 1 .. i + n)
  BY <1>2, <1>3, TotalSame, Zenon
<1>8. Total(f, i + n + 1 .. Len(q)) = Total(h, i + n + 1 .. Len(q))
  BY <1>2, <1>3, TotalSame, Zenon
<1> QED
  BY <1>5, <1>6, <1>7, <1>8

LEMMA WaitingAppend ==
  ASSUME NEW q \in Seq(Request), NEW i \in 0 .. Len(q), NEW e \in Request
  PROVE  Waiting(Append(q, e), i) = Waiting(q, i) + e.amount
<1> DEFINE p == Append(q, e)
           last == Len(q) + 1
           f == [j \in i + 1 .. last |-> p[j].amount]
           g == [j \in i + 1 .. Len(q) |-> q[j].amount]
           S == i + 1 .. Len(q)
<1>1. p \in Seq(Request) /\ Len(p) = last /\ last \in Nat /\ p[last] = e
  OBVIOUS
<1>2. \A j \in 1 .. Len(q) : p[j] = q[j]
  OBVIOUS
<1>3. Waiting(p, i) = Total(f, i + 1 .. last) /\ Waiting(q, i) = Total(g, S)
  BY <1>1 DEF Waiting, AmountOf
<1> HIDE DEF p
<1>4. \A j \in i + 1 .. last : f[j] \in Int
  <2>1. \A j \in i + 1 .. last : j \in 1 .. Len(p)
    BY <1>1
  <2> QED
    BY <1>1, <2>1, RequestAmount
<1>5. f[last] = e.amount /\ e.amount \in Int
  BY <1>1 DEF Request
<1>6. \A j \in S : f[j] = g[j]
  BY <1>2
<1>7. i + 1 .. last = S \cup {last} /\ last \notin S /\ IsFiniteSet(S)
  <2>1. Len(q) \in Nat /\ i \in Nat /\ i <= Len(q)
    OBVIOUS
  <2>2. IsFiniteSet(S)
    BY <2>1, FS_Interval
  <2>3. i + 1 .. last = S \cup {last} /\ last \notin S
    BY <2>1
  <2> QED
    BY <2>2, <2>3
<1>8. \A j \in S : g[j] \in Int
  <2>1. \A j \in S : j \in 1 .. Len(q)
    OBVIOUS
  <2> QED
    BY <2>1, RequestAmount
<1> HIDE DEF f, g, S, last
<1>9. Total(f, S \cup {last}) = f[last] + Total(f, S)
  BY <1>4, <1>7, TotalAdd, Zenon
<1>10. Total(f, S) = Total(g, S) /\ Total(g, S) \in Int
  BY <1>6, <1>7, <1>8, TotalSame, TotalType
<1>11. Waiting(p, i) = f[last] + Total(f, S)
  BY <1>3, <1>7, <1>9, Zenon
<1>12. Waiting(p, i) = Waiting(q, i) + e.amount
  BY <1>3, <1>5, <1>10, <1>11
<1> QED
  BY <1>12 DEF p

LEMMA WaitingEmpty == Waiting(<< >>, 0) = 0
<1>1. 0 + 1 .. Len(<< >>) = {}
  OBVIOUS
<1> QED
  BY <1>1, TotalEmpty DEF Waiting, AmountOf

\* Marking the next n requests takes their amount from what is waited for.
LEMMA WaitingMark ==
  ASSUME NEW q, NEW i, QueueOK(q, i), NEW n \in Nat, i + n <= Len(q)
  PROVE  Waiting(q, i) = AmountOf(q, i + 1, i + n) + Waiting(Marked(q, i, n), i + n)
<1> DEFINE p == Marked(q, i, n)
<1>1. q \in Seq(Request) /\ i \in Nat /\ Len(q) \in Nat
  BY DEF QueueOK
<1>2. DOMAIN p = DOMAIN q
  BY DEF Marked
<1>3. Len(p) = Len(q)
  <2>1. QueueOK(p, i + n)
    BY QueueMark
  <2> HIDE DEF p
  <2>2. p \in Seq(Request)
    BY <2>1 DEF QueueOK
  <2>3. DOMAIN p = 1 .. Len(p) /\ DOMAIN q = 1 .. Len(q) /\ Len(p) \in Nat
    BY <1>1, <2>2
  <2>4. 1 .. Len(p) = 1 .. Len(q)
    BY <1>2, <2>3, Zenon
  <2>5. \A m, k \in Nat : 1 .. m = 1 .. k => m = k
    <3> TAKE m, k \in Nat
    <3> HAVE 1 .. m = 1 .. k
    <3>1. m > 0 => m \in 1 .. k
      OBVIOUS
    <3>2. k > 0 => k \in 1 .. m
      OBVIOUS
    <3> QED
      BY <3>1, <3>2
  <2> QED
    BY <1>1, <2>3, <2>4, <2>5, Zenon
<1>4. \A j \in i + n + 1 .. Len(q) : p[j].amount = q[j].amount
  BY <1>1 DEF Marked
<1> HIDE DEF p
<1>5. AmountOf(p, i + n + 1, Len(q)) = AmountOf(q, i + n + 1, Len(q))
  BY <1>1, <1>4, AmountSame
<1>6. Waiting(p, i + n) = Waiting(q, i + n)
  BY <1>3, <1>5 DEF Waiting
<1>7. Waiting(q, i) = AmountOf(q, i + 1, i + n) + Waiting(q, i + n)
  BY <1>1, AmountSplit, Zenon
<1> QED
  BY <1>6, <1>7 DEF p

-----------------------------------------------------------------------------
(***************************************************************************)
(* The ledger: books, queues, tokens, power and the WTON behind them.      *)
(***************************************************************************)
BooksInv == BookOK(accStaked) /\ BookOK(pendingUnstaked) /\ BookOK(accUnstaked)

PendingInv ==
  \A r \in Rootchains, a \in Accounts :
    PendingOK(pendingUnstaked.each[r][a], withdrawalRequests[r][a],
              withdrawalRequestIndex[r][a])

CoinsOK == \A r \in Rootchains : totalSupply[r] = Total(coinage[r], Accounts)

Backing == wton[DepositManager] = Total(totalSupply, Rootchains)
                                  + Total(pendingUnstaked.rootchain, Rootchains)

StakeOf(a) == Total(column(coinage, a), Rootchains)

\* Without PowerTON nobody has power, so that it cannot lag behind a withdrawal.
PowerInv ==
  /\ powerton \in BOOLEAN /\ power \in [Accounts -> Nat]
  /\ totalDeposits = Total(power, Accounts)
  /\ \A a \in Accounts : power[a] <= StakeOf(a) /\ (~powerton => power[a] = 0)

TotInv == \A r \in Rootchains : tot[r] <= MaxTot

RegistryInv == rootchains \subseteq Rootchains /\ coinages \subseteq Rootchains

LedgerInv ==
  BooksInv /\ PendingInv /\ CoinsOK /\ Backing /\ PowerInv /\ TotInv /\ RegistryInv

LEMMA InitLedger == Init => LedgerInv
<1> SUFFICES ASSUME Init PROVE LedgerInv
  OBVIOUS
<1>1. BooksInv
  BY EmptyBookOK DEF Init, BooksInv
<1>2. PendingInv
  <2> SUFFICES ASSUME NEW r \in Rootchains, NEW a \in Accounts
               PROVE  PendingOK(pendingUnstaked.each[r][a], withdrawalRequests[r][a],
                                withdrawalRequestIndex[r][a])
    BY DEF PendingInv
  <2>1. /\ pendingUnstaked.each[r][a] = 0 /\ withdrawalRequests[r][a] = << >>
        /\ withdrawalRequestIndex[r][a] = 0
    BY DEF Init, EmptyBook
  <2> QED
    BY <2>1, WaitingEmpty DEF PendingOK
<1>3. CoinsOK
  <2> SUFFICES ASSUME NEW r \in Rootchains PROVE totalSupply[r] = Total(coinage[r], Accounts)
    BY DEF CoinsOK
  <2>1. totalSupply[r] = 0 /\ \A a \in Accounts : coinage[r][a] = 0
    BY DEF Init
  <2> QED
    BY <2>1, TotalZero, FiniteParts
<1>4. Backing
  <2>1. wton[DepositManager] = 0 /\ \A r \in Rootchains : totalSupply[r] = 0
    BY DEF Init
  <2>2. \A r \in Rootchains : pendingUnstaked.rootchain[r] = 0
    BY DEF Init, EmptyBook
  <2>3. Total(totalSupply, Rootchains) = 0
    BY <2>1, TotalZero, FiniteParts
  <2>4. Total(pendingUnstaked.rootchain, Rootchains) = 0
    BY <2>2, TotalZero, FiniteParts
  <2> QED
    BY <2>1, <2>3, <2>4 DEF Backing
<1>5. PowerInv
  <2>1. /\ powerton = FALSE /\ power \in [Accounts -> Nat] /\ totalDeposits = 0
        /\ \A a \in Accounts : power[a] = 0
    BY DEF Init
  <2>2. \A a \in Accounts : StakeOf(a) = 0
    <3> TAKE a \in Accounts
    <3>1. \A r \in Rootchains : column(coinage, a)[r] = 0
      BY DEF Init, column
    <3> QED
      BY <3>1, TotalZero, FiniteParts DEF StakeOf
  <2>3. Total(power, Accounts) = 0
    BY <2>1, TotalZero, FiniteParts
  <2>4. powerton \in BOOLEAN /\ totalDeposits = Total(power, Accounts)
    BY <2>1, <2>3, Zenon
  <2>5. \A a \in Accounts : power[a] <= StakeOf(a) /\ (~powerton => power[a] = 0)
    BY <2>1, <2>2
  <2> QED
    BY <2>1, <2>4, <2>5, Zenon DEF PowerInv
<1>6. TotInv /\ RegistryInv
  BY StakingConfig DEF Init, TotInv, RegistryInv
<1> QED
  BY <1>1, <1>2, <1>3, <1>4, <1>5, <1>6 DEF LedgerInv

\* The parts that follow the deposits, the tokens and the power.
BooksPart == BooksInv /\ PendingInv
TokensPart == CoinsOK /\ TotInv

LEMMA BooksStutter == BooksPart /\ UNCHANGED depositVars => BooksPart'
BY DEF BooksPart, BooksInv, PendingInv, depositVars

LEMMA TokensPartStutter == TokensPart /\ UNCHANGED tokenVars => TokensPart'
BY DEF TokensPart, CoinsOK, TotInv, tokenVars

LEMMA BackingStutter == Backing /\ UNCHANGED <<wton, totalSupply, pendingUnstaked>> => Backing'
BY DEF Backing

-----------------------------------------------------------------------------
\* One account's stake on one root chain changes by v.
LEMMA CoinsChange ==
  ASSUME TokensInv, CoinsOK, NEW r \in Rootchains, NEW a \in Accounts, NEW v \in Int,
         coinage' = [coinage EXCEPT ![r][a] = @ + v],
         totalSupply' = [totalSupply EXCEPT ![r] = @ + v]
  PROVE  /\ CoinsOK'
         /\ Total(totalSupply', Rootchains) = Total(totalSupply, Rootchains) + v
         /\ \A b \in Accounts : StakeOf(b)' = IF b = a THEN StakeOf(a) + v ELSE StakeOf(b)
<1>1. /\ coinage \in [Rootchains -> [Accounts -> Int]]
      /\ totalSupply \in [Rootchains -> Int]
  BY DEF TokensInv
<1>2. CoinsOK'
  <2> SUFFICES ASSUME NEW s \in Rootchains
               PROVE  totalSupply'[s] = Total(coinage'[s], Accounts)
    BY DEF CoinsOK
  <2>1. totalSupply'[s] = IF s = r THEN totalSupply[r] + v ELSE totalSupply[s]
    BY <1>1
  <2>2. totalSupply[s] = Total(coinage[s], Accounts)
    BY DEF CoinsOK
  <2>3. CASE s # r
    BY <1>1, <2>1, <2>2, <2>3
  <2>4. CASE s = r
    <3> DEFINE row == coinage[r]
    <3>1. coinage'[s] = [row EXCEPT ![a] = @ + v] /\ row \in [Accounts -> Int]
      BY <1>1, <2>4
    <3> HIDE DEF row
    <3>2. Total([row EXCEPT ![a] = @ + v], Accounts) = Total(row, Accounts) + v
      BY <3>1, TotalIncrement, FiniteParts, ZenonT(20)
    <3> QED
      BY <2>1, <2>2, <2>4, <3>1, <3>2 DEF row
  <2> QED
    BY <2>3, <2>4
<1>3. Total(totalSupply', Rootchains) = Total(totalSupply, Rootchains) + v
  <2>1. Total([totalSupply EXCEPT ![r] = @ + v], Rootchains) = Total(totalSupply, Rootchains) + v
    BY <1>1, TotalIncrement, FiniteParts, ZenonT(20)
  <2> QED
    BY <2>1
<1>4. ASSUME NEW b \in Accounts
      PROVE  StakeOf(b)' = IF b = a THEN StakeOf(a) + v ELSE StakeOf(b)
  <2>1. CASE b # a
    <3>1. column(coinage', b) = column(coinage, b)
      BY <1>1, <2>1 DEF column
    <3> QED
      BY <2>1, <3>1 DEF StakeOf
  <2>2. CASE b = a
    <3> DEFINE col == column(coinage, a)
    <3>1. column(coinage', b) = [col EXCEPT ![r] = @ + v]
      BY <1>1, <2>2, Zenon DEF column
    <3>2. col \in [Rootchains -> Int]
      BY <1>1 DEF column
    <3> HIDE DEF col
    <3>3. Total([col EXCEPT ![r] = @ + v], Rootchains) = Total(col, Rootchains) + v
      BY <3>2, TotalIncrement, FiniteParts, ZenonT(20)
    <3> QED
      BY <2>2, <3>1, <3>3 DEF col, StakeOf
  <2> QED
    BY <2>1, <2>2
<1> QED
  BY <1>2, <1>3, <1>4

\* The tokens' part of a deposit: the power grows at most with the stake.
LEMMA DepositTokens ==
  ASSUME TokensInv, CoinsOK, PowerInv, NEW r \in Rootchains, NEW a \in Accounts,
         NEW amount \in Nat, onDeposit(r, a, amount)
  PROVE  /\ CoinsOK'
         /\ Total(totalSupply', Rootchains) = Total(totalSupply, Rootchains) + amount
         /\ powerton' = powerton => PowerInv'
<1>0. amount \in Int
  OBVIOUS
<1>1. /\ coinage' = [coinage EXCEPT ![r][a] = @ + amount]
      /\ totalSupply' = [totalSupply EXCEPT ![r] = @ + amount]
      /\ PowerIncreased(a, amount)
  BY DEF onDeposit
<1>2. /\ CoinsOK'
      /\ Total(totalSupply', Rootchains) = Total(totalSupply, Rootchains) + amount
      /\ \A b \in Accounts :
           StakeOf(b)' = IF b = a THEN StakeOf(a) + amount ELSE StakeOf(b)
  BY <1>0, <1>1, CoinsChange, Zenon
<1>3. \A b \in Accounts : StakeOf(b) \in Nat
  <2> TAKE b \in Accounts
  <2>1. \A s \in Rootchains : column(coinage, b)[s] \in Nat
    BY DEF TokensInv, column
  <2> QED
    BY <2>1, TotalNat, FiniteParts DEF StakeOf
<1>4. ASSUME powerton' = powerton PROVE PowerInv'
  <2>1. CASE powerton
    <3>1. /\ power' = [power EXCEPT ![a] = @ + amount]
          /\ totalDeposits' = totalDeposits + amount
      BY <1>1, <2>1 DEF PowerIncreased
    <3>2. power \in [Accounts -> Int] /\ power \in [Accounts -> Nat]
      BY DEF PowerInv
    <3>3. Total([power EXCEPT ![a] = @ + amount], Accounts) = Total(power, Accounts) + amount
      BY <1>0, <3>2, TotalIncrement, FiniteParts, ZenonT(20)
    <3>4. totalDeposits' = Total(power', Accounts)
      BY <3>1, <3>3 DEF PowerInv
    <3>5. power' \in [Accounts -> Nat]
      BY <3>1, <3>2
    <3>6. \A b \in Accounts : power'[b] <= StakeOf(b)'
      <4> TAKE b \in Accounts
      <4>1. power'[b] = IF b = a THEN power[a] + amount ELSE power[b]
        BY <3>1, <3>2
      <4>2. power[b] <= StakeOf(b) /\ power[b] \in Nat
        BY <3>2 DEF PowerInv
      <4> QED
        BY <1>2, <1>3, <4>1, <4>2
    <3> QED
      BY <1>4, <2>1, <3>4, <3>5, <3>6 DEF PowerInv
  <2>2. CASE ~powerton
    <3>1. power' = power /\ totalDeposits' = totalDeposits
      BY <1>1, <2>2 DEF PowerIncreased, powerVars
    <3>2. \A b \in Accounts : power[b] \in Nat /\ power[b] <= StakeOf(b)
      BY DEF PowerInv
    <3>3. \A b \in Accounts : power[b] <= StakeOf(b)'
      BY <1>2, <1>3, <3>2
    <3> QED
      BY <1>4, <3>1, <3>3 DEF PowerInv
  <2> QED
    BY <2>1, <2>2
<1> QED
  BY <1>2, <1>4, Zenon

\* The tokens' part of a withdrawal: the power falls with the stake.
LEMMA WithdrawTokens ==
  ASSUME TokensInv, CoinsOK, PowerInv, NEW r \in Rootchains, NEW a \in Accounts,
         NEW amount \in Nat, onWithdraw(r, a, amount)
  PROVE  /\ CoinsOK'
         /\ Total(totalSupply', Rootchains) = Total(totalSupply, Rootchains) - amount
         /\ powerton' = powerton => PowerInv'
<1> DEFINE v == -amount
<1>1. /\ coinage' = [coinage EXCEPT ![r][a] = @ - amount]
      /\ totalSupply' = [totalSupply EXCEPT ![r] = @ - amount]
      /\ PowerDecreased(a, amount) /\ amount <= coinage[r][a]
  BY DEF onWithdraw
<1>2. v \in Int /\ v = -amount
  OBVIOUS
<1>3. coinage \in [Rootchains -> [Accounts -> Nat]] /\ totalSupply \in [Rootchains -> Nat]
  BY DEF TokensInv
<1>4. coinage[r][a] - amount = coinage[r][a] + v /\ totalSupply[r] - amount = totalSupply[r] + v
  BY <1>3
<1>5. /\ coinage' = [coinage EXCEPT ![r][a] = @ + v]
      /\ totalSupply' = [totalSupply EXCEPT ![r] = @ + v]
  BY <1>1, <1>4, Zenon
<1> HIDE DEF v
<1>6. /\ CoinsOK'
      /\ Total(totalSupply', Rootchains) = Total(totalSupply, Rootchains) + v
      /\ \A b \in Accounts : StakeOf(b)' = IF b = a THEN StakeOf(a) + v ELSE StakeOf(b)
  BY <1>2, <1>5, CoinsChange, Zenon
<1>7. Total(totalSupply', Rootchains) = Total(totalSupply, Rootchains) - amount
  <2>1. Total(totalSupply, Rootchains) \in Nat
    BY <1>3, TotalNat, FiniteParts
  <2> QED
    BY <1>2, <1>6, <2>1
<1>8. \A b \in Accounts : StakeOf(b) \in Nat /\ StakeOf(b)' \in Int
  <2> TAKE b \in Accounts
  <2>1. \A s \in Rootchains : column(coinage, b)[s] \in Nat
    BY <1>3 DEF column
  <2>2. StakeOf(b) \in Nat
    BY <2>1, TotalNat, FiniteParts DEF StakeOf
  <2>3. \A s \in Rootchains : column(coinage, a)[s] \in Nat
    BY <1>3 DEF column
  <2>4. StakeOf(a) \in Nat
    BY <2>3, TotalNat, FiniteParts DEF StakeOf
  <2> QED
    BY <1>2, <1>6, <2>2, <2>4
<1>9. amount <= StakeOf(a)
  <2>1. \A s \in Rootchains : column(coinage, a)[s] \in Nat
    BY <1>3 DEF column
  <2>2. column(coinage, a)[r] = coinage[r][a]
    BY DEF column
  <2>3. column(coinage, a)[r] <= StakeOf(a)
    BY <2>1, TotalMember, FiniteParts DEF StakeOf
  <2> QED
    BY <1>1, <1>3, <1>8, <2>2, <2>3
<1>10. ASSUME powerton' = powerton PROVE PowerInv'
  <2>1. CASE powerton
    <3> DEFINE lost == LostPower(a, amount)
               w == -lost
    <3>0. power \in [Accounts -> Nat] /\ power[a] \in Nat /\ power[a] <= StakeOf(a)
      BY DEF PowerInv
    <3>1. /\ power' = [power EXCEPT ![a] = @ - lost]
          /\ totalDeposits' = totalDeposits - lost
      BY <1>1, <2>1 DEF PowerDecreased
    <3>2. lost \in Nat /\ lost <= power[a] /\ power[a] - lost <= StakeOf(a) - amount
      BY <3>0, <1>8, <1>9 DEF LostPower
    <3> HIDE DEF lost
    <3>3. power \in [Accounts -> Int] /\ w \in Int /\ power' = [power EXCEPT ![a] = @ + w]
      <4>1. w \in Int /\ power[a] - lost = power[a] + w
        BY <3>0, <3>2
      <4>2. power \in [Accounts -> Int]
        BY <3>0
      <4> HIDE DEF w
      <4>3. power' = [power EXCEPT ![a] = @ + w]
        BY <3>1, <4>1, Zenon
      <4> QED
        BY <4>1, <4>2, <4>3
    <3>4. w = -lost
      OBVIOUS
    <3> HIDE DEF w
    <3>5. Total([power EXCEPT ![a] = @ + w], Accounts) = Total(power, Accounts) + w
      BY <3>3, TotalIncrement, FiniteParts, ZenonT(20)
    <3>6. totalDeposits = Total(power, Accounts) /\ Total(power, Accounts) \in Nat
      BY <3>0, TotalNat, FiniteParts DEF PowerInv
    <3>7. totalDeposits' = Total(power', Accounts)
      BY <3>1, <3>2, <3>3, <3>4, <3>5, <3>6, Zenon
    <3>8. power' \in [Accounts -> Nat]
      BY <3>0, <3>1, <3>2
    <3>9. \A b \in Accounts : power'[b] <= StakeOf(b)'
      <4> TAKE b \in Accounts
      <4>1. power'[b] = IF b = a THEN power[a] - lost ELSE power[b]
        BY <3>0, <3>1
      <4>2. power[b] <= StakeOf(b) /\ power[b] \in Nat
        BY DEF PowerInv
      <4> QED
        BY <1>2, <1>6, <1>8, <3>0, <3>2, <4>1, <4>2
    <3> QED
      BY <1>10, <2>1, <3>7, <3>8, <3>9 DEF PowerInv
  <2>2. CASE ~powerton
    <3>1. power' = power /\ totalDeposits' = totalDeposits
      BY <1>1, <2>2 DEF PowerDecreased, powerVars
    <3>2. \A b \in Accounts : power[b] = 0
      BY <2>2 DEF PowerInv
    <3>3. \A b \in Accounts : StakeOf(b)' >= 0
      BY <1>2, <1>6, <1>8, <1>9
    <3>4. \A b \in Accounts : power[b] <= StakeOf(b)'
      BY <3>2, <3>3, <1>8
    <3> QED
      BY <1>10, <3>1, <3>2, <3>4 DEF PowerInv
  <2> QED
    BY <2>1, <2>2
<1> QED
  BY <1>6, <1>7, <1>10

-----------------------------------------------------------------------------
(***************************************************************************)
(* The books and queues under the transactions of DepositManager.          *)
(***************************************************************************)
LEMMA BookedSum ==
  ASSUME NEW book \in Book, NEW r \in Rootchains, NEW a \in Accounts, NEW v \in Int
  PROVE  Total(Booked(book, r, a, v).rootchain, Rootchains)
           = Total(book.rootchain, Rootchains) + v
<1> DEFINE f == book.rootchain
<1>1. f \in [Rootchains -> Int]
  BY DEF Book
<1>2. Booked(book, r, a, v).rootchain = [f EXCEPT ![r] = @ + v]
  BY DEF Booked, Book
<1> HIDE DEF f
<1>3. Total([f EXCEPT ![r] = @ + v], Rootchains) = Total(f, Rootchains) + v
  BY <1>1, TotalIncrement, FiniteParts, ZenonT(20)
<1> QED
  BY <1>2, <1>3 DEF f

\* A step that changes one entry of pendingUnstaked together with its queue.
LEMMA PendingUpdate ==
  ASSUME QueueInv, PendingInv, pendingUnstaked \in Book,
         NEW r \in Rootchains, NEW a \in Accounts, NEW q, NEW i, NEW e, PendingOK(e, q, i),
         withdrawalRequests' = [withdrawalRequests EXCEPT ![r][a] = q],
         withdrawalRequestIndex' = [withdrawalRequestIndex EXCEPT ![r][a] = i],
         pendingUnstaked'.each = [pendingUnstaked.each EXCEPT ![r][a] = e]
  PROVE  PendingInv'
<1> SUFFICES ASSUME NEW s \in Rootchains, NEW b \in Accounts
             PROVE  PendingOK(pendingUnstaked'.each[s][b], withdrawalRequests'[s][b],
                              withdrawalRequestIndex'[s][b])
  BY DEF PendingInv
<1>1. /\ withdrawalRequests \in [Rootchains -> [Accounts -> Seq(Request)]]
      /\ withdrawalRequestIndex \in [Rootchains -> [Accounts -> Nat]]
      /\ pendingUnstaked.each \in [Rootchains -> [Accounts -> Nat]]
  BY Zenon DEF QueueInv, Book
<1>2. PendingOK(pendingUnstaked.each[s][b], withdrawalRequests[s][b],
                withdrawalRequestIndex[s][b])
  BY DEF PendingInv
<1>3. CASE s = r /\ b = a
  <2>1. /\ pendingUnstaked'.each[s][b] = e /\ withdrawalRequests'[s][b] = q
        /\ withdrawalRequestIndex'[s][b] = i
    BY <1>1, <1>3
  <2> QED
    BY <2>1
<1>4. CASE ~(s = r /\ b = a)
  <2>1. /\ pendingUnstaked'.each[s][b] = pendingUnstaked.each[s][b]
        /\ withdrawalRequests'[s][b] = withdrawalRequests[s][b]
        /\ withdrawalRequestIndex'[s][b] = withdrawalRequestIndex[s][b]
    BY <1>1, <1>4, SMTT(30)
  <2> QED
    BY <1>2, <2>1
<1> QED
  BY <1>3, <1>4

LEMMA NextAmountOf ==
  ASSUME NEW r, NEW a, NEW n
  PROVE  NextAmount(r, a, n) =
           AmountOf(withdrawalRequests[r][a], withdrawalRequestIndex[r][a] + 1,
                    withdrawalRequestIndex[r][a] + n)
BY DEF NextAmount, NextRequests, AmountOf

\* Redepositing and paying take the same amount from the book and from the queue.
LEMMA PendingSettle ==
  ASSUME QueueInv, PendingInv, BookOK(pendingUnstaked), NEW r \in Rootchains,
         NEW a \in Accounts, NEW n \in Nat,
         withdrawalRequestIndex[r][a] + n <= Len(withdrawalRequests[r][a]),
         withdrawalRequests' = Settled(r, a, n),
         withdrawalRequestIndex' = [withdrawalRequestIndex EXCEPT ![r][a] = @ + n],
         pendingUnstaked' = Booked(pendingUnstaked, r, a, -NextAmount(r, a, n)),
         NextAmount(r, a, n) \in Nat
  PROVE  PendingInv'
<1> DEFINE q == withdrawalRequests[r][a]
           i == withdrawalRequestIndex[r][a]
           amount == NextAmount(r, a, n)
           p == Marked(q, i, n)
           k == i + n
           e == pendingUnstaked.each[r][a] + (-amount)
<1>1. QueueOK(q, i)
  BY QueueInvOK
<1>2. QueueOK(p, k)
  BY <1>1, QueueMark
<1>3. withdrawalRequests' = [withdrawalRequests EXCEPT ![r][a] = p]
  BY DEF Settled, Marked, NextRequests, QueueInv
<1>4. withdrawalRequestIndex' = [withdrawalRequestIndex EXCEPT ![r][a] = k]
  BY DEF QueueInv
<1>5. -amount \in Int /\ pendingUnstaked \in Book /\ pendingUnstaked.each[r][a] \in Nat
  BY DEF BookOK, Book
<1>6. pendingUnstaked'.each = [pendingUnstaked.each EXCEPT ![r][a] = e]
  BY <1>5 DEF Booked, Book
<1>7. Waiting(q, i) = amount + Waiting(p, k)
  BY <1>1, WaitingMark, NextAmountOf
<1>8. Waiting(p, k) \in Nat
  <2>1. p \in Seq(Request) /\ k + 1 \in Nat \ {0} /\ Len(p) \in Nat
    BY <1>2 DEF QueueOK
  <2> QED
    BY <2>1, AmountNat DEF Waiting
<1>9. PendingOK(pendingUnstaked.each[r][a], q, i)
  BY DEF PendingInv
<1> HIDE DEF p, k, amount, q, i
<1>10. PendingOK(e, p, k)
  <2> DEFINE x == pendingUnstaked.each[r][a]
             w == Waiting(p, k)
  <2>1. x \in Nat /\ w \in Nat /\ amount \in Nat /\ e = x + (-amount)
    BY <1>5, <1>8 DEF amount
  <2>2. amount + w <= x /\ (MaxTot < UINT128 => x = amount + w)
    BY <1>7, <1>9 DEF PendingOK
  <2> HIDE DEF x, w, e
  <2>3. w <= e /\ (MaxTot < UINT128 => e = w)
    BY <2>1, <2>2
  <2> QED
    BY <2>3 DEF PendingOK, w
<1> HIDE DEF e
<1> QED
  BY <1>3, <1>4, <1>5, <1>6, <1>10, PendingUpdate, Zenon

\* Cutting an amount to its width.
LEMMA Cut ==
  ASSUME NEW m \in Nat, NEW u \in Nat \ {0}
  PROVE  m % u \in Nat /\ m % u <= m /\ (m < u => m % u = m)
OBVIOUS

LEMMA PendingRequest ==
  ASSUME QueueInv, PendingInv, BookOK(pendingUnstaked), blockNumber \in Nat,
         NEW r \in Rootchains, NEW a \in Accounts, NEW amount \in Nat,
         amount <= MaxTot, RequestWithdrawal(r, a, amount)
  PROVE  PendingInv'
<1> DEFINE q == withdrawalRequests[r][a]
           i == withdrawalRequestIndex[r][a]
           req == newRequest(amount)
           p == Append(q, req)
           e == pendingUnstaked.each[r][a] + amount
<1>1. QueueOK(q, i)
  BY QueueInvOK
<1>2. /\ amount % UINT128 \in Nat /\ amount % UINT128 <= amount
      /\ (amount < UINT128 => amount % UINT128 = amount)
  BY StakingConfig, Cut
<1>3. req \in Request /\ req.amount = amount % UINT128
  <2>1. (blockNumber + WITHDRAWAL_DELAY) % UINT128 \in Nat
    BY StakingConfig
  <2> QED
    BY <1>2, <2>1 DEF newRequest, Request
<1>4. withdrawalRequests' = [withdrawalRequests EXCEPT ![r][a] = p]
  BY DEF RequestWithdrawal, QueueInv
<1>5. withdrawalRequestIndex' = [withdrawalRequestIndex EXCEPT ![r][a] = i]
  BY DEF RequestWithdrawal, QueueInv
<1>6. amount \in Int /\ pendingUnstaked \in Book /\ pendingUnstaked.each[r][a] \in Nat
  BY DEF BookOK, Book
<1>7. pendingUnstaked'.each = [pendingUnstaked.each EXCEPT ![r][a] = e]
  BY <1>6 DEF RequestWithdrawal, Booked, Book
<1>8. PendingOK(pendingUnstaked.each[r][a], q, i)
  BY DEF PendingInv
<1>9. q \in Seq(Request) /\ i \in 0 .. Len(q) /\ i + 1 \in Nat \ {0} /\ Len(q) \in Nat
  BY <1>1 DEF QueueOK
<1> HIDE DEF q, i, req
<1>10. Waiting(p, i) = Waiting(q, i) + req.amount
  BY <1>3, <1>9, WaitingAppend
<1>11. Waiting(q, i) \in Nat
  BY <1>9, AmountNat DEF Waiting
<1> HIDE DEF p
<1>12. PendingOK(e, p, i)
  <2> DEFINE x == pendingUnstaked.each[r][a]
             w == Waiting(q, i)
             c == amount % UINT128
  <2>1. x \in Nat /\ w \in Nat /\ e = x + amount /\ c \in Nat /\ c <= amount
        /\ (amount < UINT128 => c = amount)
    BY <1>2, <1>6, <1>11
  <2>2. w <= x /\ (MaxTot < UINT128 => x = w)
    BY <1>8 DEF PendingOK
  <2>3. Waiting(p, i) = w + c /\ MaxTot \in Nat /\ UINT128 \in Nat
    BY <1>3, <1>10, StakingConfig
  <2> HIDE DEF x, w, e, c
  <2>4. w + c <= e /\ (MaxTot < UINT128 => e = w + c)
    BY <2>1, <2>2, <2>3
  <2> QED
    BY <2>3, <2>4 DEF PendingOK
<1> HIDE DEF e
<1> QED
  BY <1>4, <1>5, <1>6, <1>7, <1>12, PendingUpdate, Zenon

-----------------------------------------------------------------------------
(***************************************************************************)
(* The ledger under every action.                                          *)
(***************************************************************************)
\* No account stakes more than the bound on {tot}.
LEMMA StakeBound ==
  ASSUME TokensInv, CoinsOK, TotInv, NEW r \in Rootchains, NEW a \in Accounts
  PROVE  coinage[r][a] \in Nat /\ coinage[r][a] <= MaxTot
<1> DEFINE row == coinage[r]
<1>1. /\ \A b \in Accounts : row[b] \in Nat
      /\ totalSupply[r] \in Nat /\ tot[r] \in Nat /\ MaxTot \in Nat
  BY StakingConfig DEF TokensInv
<1>2. totalSupply[r] = Total(row, Accounts) /\ totalSupply[r] <= tot[r] /\ tot[r] <= MaxTot
  <2>1. totalSupply[r] = Total(row, Accounts)
    BY DEF CoinsOK
  <2>2. totalSupply[r] <= tot[r]
    BY DEF TokensInv, TotCoversCoinage
  <2>3. tot[r] <= MaxTot
    BY DEF TotInv
  <2> QED
    BY <2>1, <2>2, <2>3
<1> HIDE DEF row
<1>3. row[a] <= Total(row, Accounts) /\ row[a] \in Nat
  BY <1>1, TotalMember, FiniteParts
<1>4. row[a] <= MaxTot
  BY <1>1, <1>2, <1>3
<1> QED
  BY <1>3, <1>4 DEF row

LEMMA TotDeposit ==
  ASSUME TokensInv, TotInv, NEW r \in Rootchains, NEW a, NEW amount \in Nat,
         Total(tot, Rootchains) + amount <= MaxTot, onDeposit(r, a, amount)
  PROVE  TotInv'
<1>1. tot \in [Rootchains -> Nat] /\ tot' = [tot EXCEPT ![r] = @ + amount] /\ MaxTot \in Nat
  BY StakingConfig DEF TokensInv, onDeposit
<1>2. tot[r] <= Total(tot, Rootchains) /\ Total(tot, Rootchains) \in Nat
  BY <1>1, TotalMember, TotalNat, FiniteParts
<1>3. tot[r] + amount <= MaxTot
  BY <1>1, <1>2
<1> QED
  BY <1>1, <1>3 DEF TotInv

LEMMA TotWithdraw ==
  ASSUME TokensInv, TotInv, NEW r \in Rootchains, NEW a \in Accounts,
         NEW amount \in Nat \ {0}, onWithdraw(r, a, amount)
  PROVE  TotInv'
<1> DEFINE s == totalSupply[r]
           d == tot[r] - s
           q == additionalTotBurnAmount(r, amount)
<1>1. d \in Nat /\ s \in Nat \ {0} /\ amount \in 0 .. s
  BY DEF TokensInv, onWithdraw
<1>2. q \in 0 .. d
  BY <1>1, BurnBound, Zenon DEF additionalTotBurnAmount
<1>3. tot' = [tot EXCEPT ![r] = @ - amount - q]
  BY DEF onWithdraw
<1>4. q \in Nat
  BY <1>1, <1>2
<1> HIDE DEF q
<1>5. /\ tot \in [Rootchains -> Nat] /\ tot[r] \in Nat /\ tot[r] <= MaxTot
      /\ MaxTot \in Nat
  BY StakingConfig DEF TokensInv, TotInv
<1>6. tot[r] - amount - q <= MaxTot
  BY <1>4, <1>5
<1> QED
  BY <1>3, <1>5, <1>6 DEF TotInv

LEMMA SumsNat ==
  ASSUME TokensInv, BookOK(pendingUnstaked)
  PROVE  /\ Total(totalSupply, Rootchains) \in Nat
         /\ Total(pendingUnstaked.rootchain, Rootchains) \in Nat
<1>1. \A r \in Rootchains : totalSupply[r] \in Nat
  BY DEF TokensInv
<1>2. \A r \in Rootchains : pendingUnstaked.rootchain[r] \in Nat
  BY DEF BookOK, Book
<1> QED
  BY <1>1, <1>2, TotalNat, FiniteParts

LEMMA LedgerDeposit ==
  ASSUME IInv, LedgerInv, NEW r \in Rootchains, NEW a \in Accounts, NEW amount \in Nat,
         Deposit(r, a, amount)
  PROVE  LedgerInv'
<1>1. /\ TokensInv /\ WtonInv /\ BooksInv /\ PendingInv /\ CoinsOK /\ Backing /\ PowerInv
      /\ TotInv /\ RegistryInv
  BY DEF IInv, LedgerInv
<1>2. /\ accStaked' = Booked(accStaked, r, a, amount) /\ onDeposit(r, a, amount)
      /\ wton' = Paid(a, DepositManager, amount)
      /\ Total(tot, Rootchains) + amount <= MaxTot
      /\ UNCHANGED <<registryVars, pendingUnstaked, accUnstaked, withdrawalRequests,
                     withdrawalRequestIndex, powerton>>
  BY DEF Deposit
<1>3. BooksInv'
  BY <1>1, <1>2, BookedMore DEF BooksInv
<1>4. PendingInv'
  BY <1>1, <1>2 DEF PendingInv
<1>5. /\ CoinsOK' /\ PowerInv'
      /\ Total(totalSupply', Rootchains) = Total(totalSupply, Rootchains) + amount
  BY <1>1, <1>2, DepositTokens
<1>6. wton'[DepositManager] = wton[DepositManager] + amount
  BY <1>1, <1>2, StakingConfig DEF Paid, WtonInv
<1>7. Backing'
  <2> DEFINE x == Total(totalSupply, Rootchains)
             y == Total(pendingUnstaked.rootchain, Rootchains)
  <2>1. x \in Nat /\ y \in Nat
    BY <1>1, SumsNat DEF BooksInv
  <2>2. wton[DepositManager] = x + y
    BY <1>1 DEF Backing
  <2>3. Total(totalSupply', Rootchains) = x + amount
    BY <1>5
  <2>4. Total(pendingUnstaked'.rootchain, Rootchains) = y
    BY <1>2
  <2> HIDE DEF x, y
  <2> QED
    BY <1>6, <2>1, <2>2, <2>3, <2>4 DEF Backing
<1>8. TotInv'
  BY <1>1, <1>2, TotDeposit
<1>9. RegistryInv'
  BY <1>1, <1>2 DEF RegistryInv, registryVars
<1> QED
  BY <1>3, <1>4, <1>5, <1>7, <1>8, <1>9 DEF LedgerInv

LEMMA LedgerRedeposit ==
  ASSUME IInv, LedgerInv, NEW r \in Rootchains, NEW a \in Accounts,
         NEW n \in 1 .. MaxRequests, Redeposit(r, a, n)
  PROVE  LedgerInv'
<1> DEFINE amount == NextAmount(r, a, n)
           minus == -amount
<1>1. /\ TokensInv /\ QueueInv /\ BooksInv /\ PendingInv /\ CoinsOK /\ Backing /\ PowerInv
      /\ TotInv /\ RegistryInv
  BY DEF IInv, LedgerInv
<1>2. /\ accStaked' = Booked(accStaked, r, a, amount) /\ onDeposit(r, a, amount)
      /\ pendingUnstaked' = Booked(pendingUnstaked, r, a, minus)
      /\ CanUnbook(pendingUnstaked, r, a, amount)
      /\ Total(tot, Rootchains) + amount <= MaxTot
      /\ withdrawalRequests' = Settled(r, a, n)
      /\ withdrawalRequestIndex' = [withdrawalRequestIndex EXCEPT ![r][a] = @ + n]
      /\ UNCHANGED <<registryVars, accUnstaked, wton, powerton>>
  BY DEF Redeposit
<1>3. n \in Nat /\ withdrawalRequestIndex[r][a] + n <= Len(withdrawalRequests[r][a])
  <2>1. n \in Nat
    BY StakingConfig
  <2>2. n <= Len(withdrawalRequests[r][a]) - withdrawalRequestIndex[r][a]
    BY DEF Redeposit
  <2>3. Len(withdrawalRequests[r][a]) \in Nat /\ withdrawalRequestIndex[r][a] \in Nat
    BY <1>1 DEF QueueInv
  <2> QED
    BY <2>1, <2>2, <2>3
<1>4. PendingInv' /\ amount \in Nat /\ BookOK(Booked(pendingUnstaked, r, a, minus))
  <2>1. amount \in Nat /\ BookOK(Booked(pendingUnstaked, r, a, minus))
    BY <1>1, <1>2, BookedLess DEF BooksInv
  <2>2. PendingInv'
    BY <1>1, <1>2, <1>3, <2>1, PendingSettle, Zenon DEF BooksInv
  <2> QED
    BY <2>1, <2>2
<1> HIDE DEF amount
<1>5. minus \in Int /\ minus = -amount
  BY <1>4
<1> HIDE DEF minus
<1>6. BooksInv'
  BY <1>1, <1>2, <1>4, BookedMore DEF BooksInv
<1>7. /\ CoinsOK' /\ PowerInv'
      /\ Total(totalSupply', Rootchains) = Total(totalSupply, Rootchains) + amount
  BY <1>1, <1>2, <1>4, DepositTokens
<1>8. Total(pendingUnstaked'.rootchain, Rootchains)
        = Total(pendingUnstaked.rootchain, Rootchains) + minus
  <2>1. pendingUnstaked \in Book
    BY <1>1 DEF BooksInv, BookOK
  <2> QED
    BY <1>2, <1>5, <2>1, BookedSum
<1>9. Backing'
  <2> DEFINE x == Total(totalSupply, Rootchains)
             y == Total(pendingUnstaked.rootchain, Rootchains)
  <2>1. x \in Nat /\ y \in Nat
    BY <1>1, SumsNat DEF BooksInv
  <2>2. wton'[DepositManager] = x + y
    BY <1>1, <1>2 DEF Backing
  <2>3. Total(totalSupply', Rootchains) = x + amount
    BY <1>7
  <2>4. Total(pendingUnstaked'.rootchain, Rootchains) = y + minus
    BY <1>8
  <2> HIDE DEF x, y
  <2> QED
    BY <1>4, <1>5, <2>1, <2>2, <2>3, <2>4 DEF Backing
<1>10. TotInv'
  BY <1>1, <1>2, <1>4, TotDeposit
<1>11. RegistryInv'
  BY <1>1, <1>2 DEF RegistryInv, registryVars
<1> QED
  BY <1>4, <1>6, <1>7, <1>9, <1>10, <1>11 DEF LedgerInv

LEMMA LedgerRequest ==
  ASSUME IInv, LedgerInv, NEW r \in Rootchains, NEW a \in Accounts, NEW amount \in Nat \ {0},
         RequestWithdrawal(r, a, amount)
  PROVE  LedgerInv'
<1>1. /\ TokensInv /\ QueueInv /\ BooksInv /\ PendingInv /\ CoinsOK /\ Backing /\ PowerInv
      /\ TotInv /\ RegistryInv /\ blockNumber \in Nat
  BY DEF IInv, LedgerInv, ClockInv
<1>2. /\ pendingUnstaked' = Booked(pendingUnstaked, r, a, amount) /\ onWithdraw(r, a, amount)
      /\ UNCHANGED <<registryVars, accStaked, accUnstaked, wton, powerton>>
  BY DEF RequestWithdrawal
<1>3. amount \in Nat /\ amount \in Int /\ amount <= MaxTot
  <2>1. amount <= coinage[r][a]
    BY <1>2 DEF onWithdraw
  <2> QED
    BY <1>1, <2>1, StakeBound, StakingConfig
<1>4. PendingInv'
  BY <1>1, <1>3, PendingRequest DEF BooksInv
<1>5. BooksInv'
  BY <1>1, <1>2, <1>3, BookedMore DEF BooksInv
<1>6. /\ CoinsOK' /\ PowerInv'
      /\ Total(totalSupply', Rootchains) = Total(totalSupply, Rootchains) - amount
  BY <1>1, <1>2, <1>3, WithdrawTokens
<1>7. Total(pendingUnstaked'.rootchain, Rootchains)
        = Total(pendingUnstaked.rootchain, Rootchains) + amount
  <2>1. pendingUnstaked \in Book
    BY <1>1 DEF BooksInv, BookOK
  <2> QED
    BY <1>2, <1>3, <2>1, BookedSum
<1>8. Backing'
  <2>1. Total(totalSupply, Rootchains) \in Nat
        /\ Total(pendingUnstaked.rootchain, Rootchains) \in Nat
    BY <1>1, SumsNat DEF BooksInv
  <2>2. wton' = wton
    BY <1>2
  <2> QED
    BY <1>1, <1>3, <1>6, <1>7, <2>1, <2>2 DEF Backing
<1>9. TotInv'
  BY <1>1, <1>2, TotWithdraw
<1>10. RegistryInv'
  BY <1>1, <1>2 DEF RegistryInv, registryVars
<1> QED
  BY <1>4, <1>5, <1>6, <1>8, <1>9, <1>10 DEF LedgerInv

LEMMA LedgerProcess ==
  ASSUME IInv, LedgerInv, NEW r \in Rootchains, NEW a \in Accounts,
         NEW n \in 1 .. MaxRequests, NEW receiveTON \in BOOLEAN,
         ProcessRequests(r, a, n, receiveTON)
  PROVE  LedgerInv'
<1> DEFINE amount == NextAmount(r, a, n)
           minus == -amount
<1>1. /\ WtonInv /\ QueueInv /\ TokensInv /\ BooksInv /\ PendingInv /\ CoinsOK /\ Backing
      /\ PowerInv /\ TotInv /\ RegistryInv
  BY DEF IInv, LedgerInv
<1>2. /\ CanProcess(r, a, n)
      /\ pendingUnstaked' = Booked(pendingUnstaked, r, a, minus)
      /\ accUnstaked' = Booked(accUnstaked, r, a, amount)
      /\ withdrawalRequests' = Settled(r, a, n)
      /\ withdrawalRequestIndex' = [withdrawalRequestIndex EXCEPT ![r][a] = @ + n]
      /\ wton' = IF receiveTON THEN [wton EXCEPT ![DepositManager] = @ - amount]
                               ELSE Paid(DepositManager, a, amount)
      /\ UNCHANGED <<registryVars, accStaked, tokenVars, powerton, powerVars>>
  BY DEF ProcessRequests
<1>3. /\ n \in Nat /\ withdrawalRequestIndex[r][a] + n <= Len(withdrawalRequests[r][a])
      /\ CanUnbook(pendingUnstaked, r, a, amount)
  <2>1. n \in Nat
    BY StakingConfig
  <2> QED
    BY <1>2, <2>1 DEF CanProcess
<1>4. PendingInv' /\ amount \in Nat /\ BookOK(Booked(pendingUnstaked, r, a, minus))
  <2>1. amount \in Nat /\ BookOK(Booked(pendingUnstaked, r, a, minus))
    BY <1>1, <1>3, BookedLess DEF BooksInv
  <2>2. PendingInv'
    BY <1>1, <1>2, <1>3, <2>1, PendingSettle, Zenon DEF BooksInv
  <2> QED
    BY <2>1, <2>2
<1> HIDE DEF amount
<1>5. minus \in Int /\ minus = -amount
  BY <1>4
<1> HIDE DEF minus
<1>6. BooksInv'
  BY <1>1, <1>2, <1>4, BookedMore DEF BooksInv
<1>7. CoinsOK' /\ TotInv'
  BY <1>1, <1>2, TokensPartStutter DEF TokensPart
<1>8. PowerInv'
  BY <1>1, <1>2 DEF PowerInv, StakeOf, tokenVars, powerVars
<1>9. wton'[DepositManager] = wton[DepositManager] - amount
  BY <1>1, <1>2, StakingConfig DEF Paid, WtonInv
<1>10. Total(pendingUnstaked'.rootchain, Rootchains)
        = Total(pendingUnstaked.rootchain, Rootchains) + minus
  <2>1. pendingUnstaked \in Book
    BY <1>1 DEF BooksInv, BookOK
  <2> QED
    BY <1>2, <1>5, <2>1, BookedSum
<1>11. Backing'
  <2> DEFINE x == Total(totalSupply, Rootchains)
             y == Total(pendingUnstaked.rootchain, Rootchains)
  <2>1. x \in Nat /\ y \in Nat
    BY <1>1, SumsNat DEF BooksInv
  <2>2. wton[DepositManager] = x + y
    BY <1>1 DEF Backing
  <2>3. Total(totalSupply', Rootchains) = x
    BY <1>2 DEF tokenVars
  <2>4. Total(pendingUnstaked'.rootchain, Rootchains) = y + minus
    BY <1>10
  <2> HIDE DEF x, y
  <2>5. wton'[DepositManager] = x + (y + minus)
    BY <1>4, <1>5, <1>9, <2>1, <2>2
  <2> QED
    BY <2>3, <2>4, <2>5 DEF Backing
<1>12. RegistryInv'
  BY <1>1, <1>2 DEF RegistryInv, registryVars
<1> QED
  BY <1>4, <1>6, <1>7, <1>8, <1>11, <1>12 DEF LedgerInv

\* The seigniorage of a commit goes to the stakers, and as much WTON is minted.
LEMMA LedgerDistribute ==
  ASSUME TokensInv, WtonInv, CoinsOK, Backing, PowerInv, BookOK(pendingUnstaked),
         NEW r \in Rootchains, NEW seigs \in Nat, NEW next \in Distributions(r, seigs),
         coinage' = [coinage EXCEPT ![r] = next],
         totalSupply' = [totalSupply EXCEPT ![r] = @ + seigs],
         wton' = Minted(seigs), UNCHANGED <<pendingUnstaked, powerton, powerVars>>
  PROVE  CoinsOK' /\ Backing' /\ PowerInv'
<1>1. /\ next \in [Accounts -> Nat] /\ \A a \in Accounts : coinage[r][a] <= next[a]
      /\ Total(next, Accounts) = Total(coinage[r], Accounts) + seigs
  BY StakingConfig, SMTT(30) DEF Distributions
<1>2. /\ coinage \in [Rootchains -> [Accounts -> Nat]]
      /\ totalSupply \in [Rootchains -> Int] /\ seigs \in Int
  BY DEF TokensInv
<1>3. CoinsOK'
  <2> SUFFICES ASSUME NEW s \in Rootchains
               PROVE  totalSupply'[s] = Total(coinage'[s], Accounts)
    BY DEF CoinsOK
  <2>1. totalSupply[s] = Total(coinage[s], Accounts)
    BY DEF CoinsOK
  <2>2. CASE s = r
    <3>1. totalSupply'[s] = totalSupply[s] + seigs /\ coinage'[s] = next
      BY <1>2, <2>2
    <3> QED
      BY <1>1, <2>1, <2>2, <3>1
  <2>3. CASE s # r
    <3>1. totalSupply'[s] = totalSupply[s] /\ coinage'[s] = coinage[s]
      BY <1>2, <2>3
    <3> QED
      BY <2>1, <3>1
  <2> QED
    BY <2>2, <2>3
<1>4. Total([totalSupply EXCEPT ![r] = @ + seigs], Rootchains)
        = Total(totalSupply, Rootchains) + seigs
  BY <1>2, TotalIncrement, FiniteParts, ZenonT(20)
<1>5. wton'[DepositManager] = wton[DepositManager] + seigs
  BY DEF Minted, WtonInv
<1>6. Backing'
  <2>1. Total(totalSupply', Rootchains) = Total(totalSupply, Rootchains) + seigs
    BY <1>4
  <2>2. pendingUnstaked' = pendingUnstaked
    OBVIOUS
  <2> QED
    BY <1>5, <2>1, <2>2, SumsNat, SMTT(30) DEF Backing
<1>7. ASSUME NEW a \in Accounts PROVE power[a] <= StakeOf(a)'
  <2>1. \A s \in Rootchains : /\ column(coinage, a)[s] \in Int
                              /\ column(coinage', a)[s] \in Int
                              /\ column(coinage, a)[s] <= column(coinage', a)[s]
    BY <1>1, <1>2 DEF column
  <2>2. Total(column(coinage, a), Rootchains) <= Total(column(coinage', a), Rootchains)
    BY <2>1, TotalLeq, FiniteParts, Zenon
  <2>3. /\ Total(column(coinage, a), Rootchains) \in Int
        /\ Total(column(coinage', a), Rootchains) \in Int
    BY <2>1, TotalType, FiniteParts, Zenon
  <2>4. power[a] \in Nat /\ power[a] <= Total(column(coinage, a), Rootchains)
    BY DEF PowerInv, StakeOf
  <2> QED
    BY <2>2, <2>3, <2>4 DEF StakeOf
<1>8. PowerInv'
  BY <1>7 DEF PowerInv, powerVars
<1> QED
  BY <1>3, <1>6, <1>8

LEMMA LedgerCommit ==
  ASSUME IInv, LedgerInv, NEW r \in Rootchains, onCommit(r)
  PROVE  LedgerInv'
<1>1. /\ WtonInv /\ TokensInv /\ BooksPart /\ CoinsOK /\ Backing /\ PowerInv /\ TotInv
      /\ RegistryInv /\ BookOK(pendingUnstaked)
  BY DEF IInv, LedgerInv, BooksPart, BooksInv
<1>2. /\ tot' \in increaseTot /\ UNCHANGED <<registryVars, depositVars, powerton, powerVars>>
      /\ pendingUnstaked' = pendingUnstaked
  BY Zenon DEF onCommit, depositVars
<1>3. BooksPart' /\ RegistryInv'
  BY <1>1, <1>2, BooksStutter DEF RegistryInv, registryVars
<1>4. TotInv' /\ tot' \in [Rootchains -> Nat]
  <2>1. CASE tot' = tot
    BY <1>1, <2>1 DEF TotInv, TokensInv
  <2>2. CASE tot' # tot
    <3>1. tot' \in [Rootchains -> 0 .. MaxTot]
      BY <1>2, <2>2 DEF increaseTot
    <3> QED
      BY <3>1, StakingConfig DEF TotInv
  <2> QED
    BY <2>1, <2>2
<1>5. CoinsOK' /\ Backing' /\ PowerInv'
  <2>1. CASE UNCHANGED <<coinage, totalSupply, wton>>
    BY <1>1, <1>2, <2>1, Zenon DEF CoinsOK, Backing, PowerInv, StakeOf, powerVars
  <2>2. CASE /\ tot'[r] > totalSupply[r]
             /\ \E next \in Distributions(r, tot'[r] - totalSupply[r]) :
                  coinage' = [coinage EXCEPT ![r] = next]
             /\ totalSupply' = [totalSupply EXCEPT ![r] = tot'[r]]
             /\ wton' = Minted(tot'[r] - totalSupply[r])
    <3> DEFINE seigs == tot'[r] - totalSupply[r]
    <3>1. /\ totalSupply \in [Rootchains -> Nat] /\ totalSupply[r] \in Nat /\ tot'[r] \in Nat
      BY <1>1, <1>4 DEF TokensInv
    <3>2. seigs \in Nat /\ tot'[r] = totalSupply[r] + seigs
      BY <2>2, <3>1
    <3>3. PICK next \in Distributions(r, seigs) : coinage' = [coinage EXCEPT ![r] = next]
      BY <2>2, Zenon
    <3>4. wton' = Minted(seigs)
      BY <2>2
    <3> HIDE DEF seigs
    <3>5. totalSupply' = [totalSupply EXCEPT ![r] = @ + seigs]
      BY <2>2, <3>2
    <3> QED
      BY <1>1, <1>2, <3>2, <3>3, <3>4, <3>5, LedgerDistribute, Zenon
  <2> QED
    BY <2>1, <2>2 DEF onCommit
<1> QED
  BY <1>3, <1>4, <1>5 DEF LedgerInv, BooksPart

LEMMA LedgerStutter ==
  ASSUME LedgerInv, RegistryInv', powerton \in BOOLEAN => powerton' \in {powerton, TRUE},
         UNCHANGED <<depositVars, wton, tokenVars, powerVars>>
  PROVE  LedgerInv'
<1>1. BooksInv' /\ PendingInv'
  BY BooksStutter DEF LedgerInv, BooksPart
<1>2. CoinsOK' /\ TotInv'
  BY TokensPartStutter DEF LedgerInv, TokensPart
<1>3. Backing'
  BY BackingStutter DEF LedgerInv, depositVars, tokenVars
<1>4. PowerInv'
  <2>1. PowerInv /\ powerton' \in {powerton, TRUE}
    BY Zenon DEF LedgerInv, PowerInv
  <2>2. \A a \in Accounts : StakeOf(a)' = StakeOf(a)
    BY DEF StakeOf, tokenVars
  <2>3. power' = power /\ totalDeposits' = totalDeposits
    BY DEF powerVars
  <2> QED
    BY <2>1, <2>2, <2>3, Zenon DEF PowerInv
<1> QED
  BY <1>1, <1>2, <1>3, <1>4 DEF LedgerInv

LEMMA LedgerUser ==
  ASSUME IInv, LedgerInv, NEW r \in Rootchains, NEW a \in Accounts, User(r, a)
  PROVE  LedgerInv'
<1>1. CASE \E amount \in Amounts : Deposit(r, a, amount)
  BY <1>1, LedgerDeposit, StakingConfig
<1>2. CASE \E n \in 1 .. MaxRequests : Redeposit(r, a, n)
  BY <1>2, LedgerRedeposit
<1>3. CASE \E amount \in Amounts \cup {coinage[r][a]} : RequestWithdrawal(r, a, amount)
  <2>1. PICK amount \in Amounts \cup {coinage[r][a]} : RequestWithdrawal(r, a, amount)
    BY <1>3
  <2>2. amount \in Nat \ {0}
    BY <2>1, StakingConfig, SMTT(30) DEF RequestWithdrawal, TokensInv, IInv
  <2> QED
    BY <2>1, <2>2, LedgerRequest
<1>4. CASE \E n \in 1 .. MaxRequests, receiveTON \in BOOLEAN :
             ProcessRequests(r, a, n, receiveTON)
  BY <1>4, LedgerProcess
<1> QED
  BY <1>1, <1>2, <1>3, <1>4 DEF User

LEMMA LedgerStep == IInv /\ LedgerInv /\ [Next]_vars => LedgerInv'
<1> SUFFICES ASSUME IInv, LedgerInv, [Next]_vars PROVE LedgerInv'
  OBVIOUS
<1>0. RegistryInv /\ powerton \in BOOLEAN
  BY DEF LedgerInv, PowerInv
<1>1. CASE Registry
  <2>1. RegistryInv'
    BY <1>0, <1>1 DEF Registry, register, deployCoinage, registerAndDeployCoinage, unregister,
                      RegistryInv
  <2> QED
    BY <1>1, <2>1, LedgerStutter DEF Registry
<1>2. CASE \E r \in Rootchains, a \in Accounts : User(r, a)
  BY <1>2, LedgerUser
<1>3. CASE \E r \in Rootchains : onCommit(r)
  BY <1>3, LedgerCommit
<1>4. CASE Pausing
  BY <1>0, <1>4, LedgerStutter DEF Pausing, RegistryInv, registryVars
<1>5. CASE setPowerTON
  BY <1>0, <1>5, LedgerStutter DEF setPowerTON, RegistryInv, registryVars
<1>6. CASE NextBlock
  BY <1>0, <1>6, LedgerStutter DEF NextBlock, RegistryInv, registryVars
<1>7. CASE UNCHANGED vars
  BY <1>0, <1>7, LedgerStutter DEF vars, RegistryInv, registryVars
<1> QED
  BY <1>1, <1>2, <1>3, <1>4, <1>5, <1>6, <1>7 DEF Next

-----------------------------------------------------------------------------
LEMMA BooksFollow ==
  ASSUME IInv, LedgerInv, MaxTot < UINT128
  PROVE  BooksAgree
<1>1. BooksInv /\ PendingInv /\ QueueInv
  BY DEF IInv, LedgerInv
<1>2. ASSUME NEW book \in {accStaked, pendingUnstaked, accUnstaked}
      PROVE  /\ \A r \in Rootchains : book.rootchain[r] = Total(book.each[r], Accounts)
             /\ \A a \in Accounts :
                  book.account[a] = Total([r \in Rootchains |-> book.each[r][a]], Rootchains)
  <2>1. BookOK(book)
    BY <1>1 DEF BooksInv
  <2>2. \A r \in Rootchains : book.rootchain[r] = Total(book.each[r], Accounts)
    BY <2>1 DEF BookOK
  <2>3. \A a \in Accounts : book.account[a] = Total(column(book.each, a), Rootchains)
    BY <2>1 DEF BookOK
  <2>4. \A a \in Accounts : column(book.each, a) = [r \in Rootchains |-> book.each[r][a]]
    BY DEF column
  <2>5. \A a \in Accounts :
          book.account[a] = Total([r \in Rootchains |-> book.each[r][a]], Rootchains)
    <3> TAKE a \in Accounts
    <3> QED
      BY <2>3, <2>4, Zenon
  <2> QED
    BY <2>2, <2>5, Zenon
<1>3. ASSUME NEW r \in Rootchains, NEW a \in Accounts
      PROVE  pendingUnstaked.each[r][a] =
               NextAmount(r, a, Len(withdrawalRequests[r][a]) - withdrawalRequestIndex[r][a])
  <2> DEFINE q == withdrawalRequests[r][a]
             i == withdrawalRequestIndex[r][a]
             n == Len(q) - i
  <2>1. QueueOK(q, i)
    BY <1>1, QueueInvOK
  <2>2. i + n = Len(q)
    BY <2>1 DEF QueueOK
  <2>3. PendingOK(pendingUnstaked.each[r][a], q, i)
    BY <1>1 DEF PendingInv
  <2>4. NextAmount(r, a, n) = AmountOf(q, i + 1, i + n)
    BY NextAmountOf, Zenon
  <2>5. AmountOf(q, i + 1, i + n) = Waiting(q, i)
    BY <2>2 DEF Waiting
  <2>6. pendingUnstaked.each[r][a] = Waiting(q, i)
    BY <2>3, Zenon DEF PendingOK
  <2> QED
    BY <2>4, <2>5, <2>6, Zenon
<1> QED
  BY <1>2, <1>3, Zenon DEF BooksAgree

LEMMA PayableFollows ==
  ASSUME IInv, LedgerInv
  PROVE  MaturedIsPayable
<1> SUFFICES ASSUME NEW r \in Rootchains, NEW a \in Accounts,
                    withdrawalRequestIndex[r][a] + 1 <= Len(withdrawalRequests[r][a]),
                    withdrawalRequests[r][a][withdrawalRequestIndex[r][a] + 1]
                      .withdrawableBlockNumber <= blockNumber
             PROVE  CanProcess(r, a, 1)
  BY Zenon DEF MaturedIsPayable
<1> DEFINE q == withdrawalRequests[r][a]
           i == withdrawalRequestIndex[r][a]
           amount == NextAmount(r, a, 1)
           book == pendingUnstaked
<1>1. BooksInv /\ PendingInv /\ QueueInv /\ Backing /\ TokensInv /\ WtonInv
  BY DEF IInv, LedgerInv
<1>2. QueueOK(q, i)
  BY <1>1, QueueInvOK
<1>3. q \in Seq(Request) /\ i \in Nat /\ Len(q) \in Nat /\ i + 1 <= Len(q)
  BY <1>2, SMTT(30) DEF QueueOK
<1>4. NextRequests(r, a, 1) = {i + 1}
  BY <1>3 DEF NextRequests
<1>5. amount = AmountOf(q, i + 1, i + 1)
  BY NextAmountOf, Zenon
<1>6. amount \in Nat
  <2>1. i + 1 \in Nat \ {0} /\ i + 1 \in Nat
    BY <1>3
  <2> QED
    BY <1>3, <1>5, <2>1, AmountNat, Zenon
<1>7. Waiting(q, i) = amount + Waiting(q, i + 1)
  BY <1>3, <1>5, AmountSplit, SMTT(30)
<1>8. Waiting(q, i + 1) \in Nat
  <2>1. i + 1 + 1 \in Nat \ {0} /\ Len(q) <= Len(q)
    BY <1>3, SMTT(30)
  <2> QED
    BY <1>3, <2>1, AmountNat, Zenon DEF Waiting
<1>9. Waiting(q, i) <= book.each[r][a]
  BY <1>1, Zenon DEF PendingInv, PendingOK
<1>10. BookOK(book)
  BY <1>1, Zenon DEF BooksInv
<1>11. /\ book.each[r][a] \in Nat /\ book.rootchain[r] \in Nat /\ book.account[a] \in Nat
  BY <1>10, Zenon DEF BookOK, Book
<1>12. /\ book.each[r][a] <= book.rootchain[r] /\ book.each[r][a] <= book.account[a]
       /\ book.rootchain[r] <= Total(book.rootchain, Rootchains)
  BY <1>10, EntryBelow, Zenon
<1>13. wton[DepositManager] \in Nat /\ Total(book.rootchain, Rootchains) <= wton[DepositManager]
       /\ Total(book.rootchain, Rootchains) \in Nat
  BY <1>1, SumsNat, SMTT(30) DEF Backing, WtonInv, BooksInv
<1> HIDE DEF amount
<1>14. amount <= book.each[r][a]
  BY <1>6, <1>7, <1>8, <1>9, <1>11, SMTT(30)
<1>15. /\ amount \in 0 .. book.each[r][a] /\ amount \in 0 .. book.rootchain[r]
       /\ amount \in 0 .. book.account[a] /\ amount <= wton[DepositManager]
  <2>1. amount <= book.rootchain[r] /\ amount <= book.account[a]
    BY <1>6, <1>11, <1>12, <1>14, SMTT(30)
  <2>2. amount <= wton[DepositManager]
    BY <1>6, <1>11, <1>12, <1>13, <2>1, SMTT(30)
  <2> QED
    BY <1>6, <1>11, <1>14, <2>1, <2>2, SMTT(30)
<1>16. CanUnbook(book, r, a, amount) /\ amount <= wton[DepositManager]
  BY <1>15, Zenon DEF CanUnbook
<1>17. \A j \in NextRequests(r, a, 1) :
         withdrawalRequests[r][a][j].withdrawableBlockNumber <= blockNumber
  BY <1>4
<1> QED
  BY <1>16, <1>17, Zenon DEF CanProcess, amount

LEMMA TypesFollow == IInv /\ LedgerInv => TypeOK
<1> SUFFICES ASSUME IInv, LedgerInv PROVE TypeOK
  OBVIOUS
<1>1. ClockInv /\ TokensInv /\ QueueInv /\ WtonInv /\ BooksInv /\ PowerInv /\ RegistryInv
  BY DEF IInv, LedgerInv
<1>2. accStaked \in Book /\ pendingUnstaked \in Book /\ accUnstaked \in Book
  BY <1>1, Zenon DEF BooksInv, BookOK
<1>3. powerton \in BOOLEAN /\ power \in [Accounts -> Nat]
  BY <1>1 DEF PowerInv
<1>4. totalDeposits \in Nat
  <2>1. totalDeposits = Total(power, Accounts) /\ \A a \in Accounts : power[a] \in Nat
    BY <1>1 DEF PowerInv
  <2> QED
    BY <2>1, TotalNat, FiniteParts
<1>5. /\ tot \in [Rootchains -> Nat] /\ totalSupply \in [Rootchains -> Nat]
      /\ coinage \in [Rootchains -> [Accounts -> Nat]]
  BY <1>1 DEF TokensInv
<1>6. /\ withdrawalRequests \in [Rootchains -> [Accounts -> Seq(Request)]]
      /\ withdrawalRequestIndex \in [Rootchains -> [Accounts -> Nat]]
  BY <1>1 DEF QueueInv
<1>7. /\ blockNumber \in Nat /\ lastSeigBlock \in Nat /\ paused \in BOOLEAN
      /\ pausedBlock \in Nat /\ unpausedBlock \in Nat /\ active \in Nat /\ pauses \in 0 .. 2
  BY <1>1 DEF ClockInv
<1>8. /\ rootchains \subseteq Rootchains /\ coinages \subseteq Rootchains
      /\ wton \in [Accounts \cup {DepositManager} -> Nat]
  BY <1>1 DEF RegistryInv, WtonInv
<1> QED
  BY <1>2, <1>3, <1>4, <1>5, <1>6, <1>7, <1>8 DEF TypeOK

\* The ledger invariant: books, requests, tokens, power and WTON fit together
\* after every transaction.
THEOREM LedgerThm == Spec => [](IInv /\ LedgerInv)
<1>1. Init => IInv /\ LedgerInv
  BY InitInv, InitLedger
<1>2. IInv /\ LedgerInv /\ [Next]_vars => (IInv /\ LedgerInv)'
  BY NextInv, LedgerStep
<1> QED
  BY <1>1, <1>2, PTL DEF Spec

\* Types; in particular no balance and no book of DepositManager, SeigManager
\* and PowerTON falls below zero.
THEOREM TypeOKThm == Spec => []TypeOK
BY LedgerThm, TypesFollow, PTL

\* Provided the supply of {tot} stays below 2^128, DepositManager's views of an
\* amount agree, and what is pending is what the open requests ask for.
THEOREM BooksAgreeThm == MaxTot < UINT128 => (Spec => []BooksAgree)
<1> SUFFICES ASSUME MaxTot < UINT128 PROVE Spec => []BooksAgree
  OBVIOUS
<1>1. IInv /\ LedgerInv => BooksAgree
  BY BooksFollow
<1> QED
  BY <1>1, LedgerThm, PTL

\* The WTON of DepositManager is the stake of all accounts and what they wait for.
THEOREM StakeBackedThm == Spec => []StakeBacked
<1>1. LedgerInv => StakeBacked
  BY DEF LedgerInv, CoinsOK, Backing, StakeBacked
<1> QED
  BY <1>1, LedgerThm, PTL

\* The weights of PowerTON's lottery add up to totalDeposits, and none exceeds
\* the account's stake, whenever PowerTON was set.
THEOREM PowerWithinStakeThm == Spec => []PowerWithinStake
<1>1. LedgerInv => PowerWithinStake
  <2> SUFFICES ASSUME LedgerInv PROVE PowerWithinStake
    OBVIOUS
  <2>1. totalDeposits = Total(power, Accounts)
    BY DEF LedgerInv, PowerInv
  <2>2. ASSUME NEW a \in Accounts
        PROVE  power[a] <= Total([r \in Rootchains |-> coinage[r][a]], Rootchains)
    <3>1. power[a] <= StakeOf(a)
      BY DEF LedgerInv, PowerInv
    <3> QED
      BY <3>1 DEF StakeOf, column
  <2> QED
    BY <2>1, <2>2 DEF PowerWithinStake
<1> QED
  BY <1>1, LedgerThm, PTL

\* A request whose delay is over can always be processed: the books cover it,
\* even where its amount was cut to 128 bits, and DepositManager holds the WTON.
THEOREM MaturedIsPayableThm == Spec => []MaturedIsPayable
<1>1. IInv /\ LedgerInv => MaturedIsPayable
  BY PayableFollows
<1> QED
  BY <1>1, LedgerThm, PTL
=============================================================================
