---------------------------- MODULE StaminaProofs ----------------------------
(***************************************************************************)
(* Proofs about Stamina for every finite set of accounts and every         *)
(* configuration.                                                          *)
(***************************************************************************)
EXTENDS Stamina, TLAPS

-----------------------------------------------------------------------------
(***************************************************************************)
(* The storage of the contract and what its functions do to each field.    *)
(***************************************************************************)
LEMMA StorageFields ==
  ASSUME NEW s \in Storage
  PROVE  /\ s.delegatee \in [Delegatees -> Delegatees]
         /\ s.stamina \in [Delegatees -> Nat]
         /\ s.total_deposit \in [Delegatees -> Nat]
         /\ s.deposit \in [Accounts -> [Delegatees -> Nat]]
         /\ s.last_recovery_block \in [Delegatees -> Nat]
         /\ s.withdrawal \in [Accounts -> Seq(Withdrawal)]
         /\ s.last_processed_withdrawal \in [Accounts -> Nat]
         /\ s.num_recovery \in [Delegatees -> Nat]
  BY DEF Storage

LEMMA SetDelegatorStorage ==
  ASSUME NEW s \in Storage, NEW a \in Accounts, NEW x \in Delegatees
  PROVE  LET t == setDelegator(s, a, x) IN
         /\ t \in Storage
         /\ t.stamina = s.stamina /\ t.total_deposit = s.total_deposit
         /\ t.last_recovery_block = s.last_recovery_block /\ t.num_recovery = s.num_recovery
         /\ t.withdrawal = s.withdrawal
         /\ t.last_processed_withdrawal = s.last_processed_withdrawal
  <1> DEFINE f == [s.delegatee EXCEPT ![x] = a]
  <1>1. f \in [Delegatees -> Delegatees]
    BY StorageFields DEF Delegatees
  <1>2. setDelegator(s, a, x) = [s EXCEPT !.delegatee = f]
    BY StorageFields DEF setDelegator
  <1> HIDE DEF f
  <1>3. [s EXCEPT !.delegatee = f] \in Storage
    BY <1>1, Zenon DEF Storage
  <1> QED BY <1>2, <1>3, Zenon DEF Storage

LEMMA DepositStorage ==
  ASSUME NEW s \in Storage, NEW a \in Accounts, NEW d \in Delegatees, NEW v \in Nat,
         blockNumber \in Nat
  PROVE  LET t == deposit(s, a, d, v) IN
         /\ t \in Storage
         /\ t.stamina = [s.stamina EXCEPT ![d] = @ + v]
         /\ t.total_deposit = [s.total_deposit EXCEPT ![d] = @ + v]
         /\ t.last_recovery_block =
              [s.last_recovery_block EXCEPT ![d] = IF @ = 0 THEN blockNumber ELSE @]
         /\ t.num_recovery = s.num_recovery
         /\ t.withdrawal = s.withdrawal
         /\ t.last_processed_withdrawal = s.last_processed_withdrawal
  <1> DEFINE f == [s.stamina EXCEPT ![d] = @ + v]
             g == [s.total_deposit EXCEPT ![d] = @ + v]
             h == [s.deposit EXCEPT ![a][d] = @ + v]
             l == [s.last_recovery_block EXCEPT ![d] = IF @ = 0 THEN blockNumber ELSE @]
  <1>1. f \in [Delegatees -> Nat] /\ g \in [Delegatees -> Nat]
    BY StorageFields
  <1>2. h \in [Accounts -> [Delegatees -> Nat]]
    BY StorageFields
  <1>3. l \in [Delegatees -> Nat]
    BY StorageFields
  <1>4. deposit(s, a, d, v) = [s EXCEPT !.total_deposit = g, !.deposit = h, !.stamina = f,
                                        !.last_recovery_block = l]
    BY StorageFields DEF deposit
  <1> HIDE DEF f, g, h, l
  <1>5. [s EXCEPT !.total_deposit = g, !.deposit = h, !.stamina = f,
                  !.last_recovery_block = l] \in Storage
    BY <1>1, <1>2, <1>3, Zenon DEF Storage
  <1>6. /\ deposit(s, a, d, v).stamina = f
        /\ deposit(s, a, d, v).total_deposit = g
        /\ deposit(s, a, d, v).last_recovery_block = l
        /\ deposit(s, a, d, v).num_recovery = s.num_recovery
        /\ deposit(s, a, d, v).withdrawal = s.withdrawal
        /\ deposit(s, a, d, v).last_processed_withdrawal = s.last_processed_withdrawal
    BY <1>4 DEF Storage
  <1> QED BY <1>4, <1>5, <1>6 DEF f, g, l

LEMMA SubtractStorage ==
  ASSUME NEW s \in Storage, NEW d \in Delegatees, NEW amount \in Nat, amount <= s.stamina[d]
  PROVE  LET t == subtractStamina(s, d, amount) IN
         /\ t \in Storage
         /\ t.stamina = [s.stamina EXCEPT ![d] = @ - amount]
         /\ t.total_deposit = s.total_deposit
         /\ t.deposit = s.deposit
         /\ t.delegatee = s.delegatee
         /\ t.last_recovery_block = s.last_recovery_block /\ t.num_recovery = s.num_recovery
         /\ t.withdrawal = s.withdrawal
         /\ t.last_processed_withdrawal = s.last_processed_withdrawal
  <1> DEFINE f == [s.stamina EXCEPT ![d] = @ - amount]
  <1>1. f \in [Delegatees -> Nat]
    BY StorageFields
  <1>2. amount = 0 => f = s.stamina
    <2>1. s.stamina \in [Delegatees -> Nat]
      BY StorageFields
    <2>2. amount = 0 => \A e \in Delegatees : f[e] = s.stamina[e]
      BY <2>1
    <2> QED BY <1>1, <2>1, <2>2
  <1>3. amount # 0 => subtractStamina(s, d, amount) = [s EXCEPT !.stamina = f]
    BY StorageFields DEF subtractStamina
  <1>4. amount = 0 => subtractStamina(s, d, amount) = s
    BY DEF subtractStamina
  <1> HIDE DEF f
  <1>5. [s EXCEPT !.stamina = f] \in Storage
    BY <1>1, Zenon DEF Storage
  <1>6. CASE amount = 0
    BY <1>2, <1>4, <1>6 DEF f
  <1>7. CASE amount # 0
    <2>1. /\ [s EXCEPT !.stamina = f].stamina = f
          /\ \A x \in {"total_deposit", "deposit", "delegatee", "last_recovery_block",
                       "num_recovery", "withdrawal", "last_processed_withdrawal"} :
               [s EXCEPT !.stamina = f][x] = s[x]
      BY DEF Storage
    <2> QED BY <1>3, <1>5, <1>7, <2>1, Zenon DEF f
  <1> QED BY <1>6, <1>7

LEMMA RecoveredStorage ==
  ASSUME NEW s \in Storage, NEW d \in Delegatees, NEW amount, blockNumber \in Nat,
         recovers(s, d)
  PROVE  LET t == addStamina(s, d, amount) IN
         /\ t \in Storage
         /\ t.stamina = [s.stamina EXCEPT ![d] = s.total_deposit[d]]
         /\ t.last_recovery_block = [s.last_recovery_block EXCEPT ![d] = blockNumber]
         /\ t.num_recovery = [s.num_recovery EXCEPT ![d] = @ + 1]
         /\ t.total_deposit = s.total_deposit
         /\ t.withdrawal = s.withdrawal
         /\ t.last_processed_withdrawal = s.last_processed_withdrawal
  <1> DEFINE f == [s.stamina EXCEPT ![d] = s.total_deposit[d]]
             l == [s.last_recovery_block EXCEPT ![d] = blockNumber]
             n == [s.num_recovery EXCEPT ![d] = @ + 1]
             t == [s EXCEPT !.stamina = f, !.last_recovery_block = l, !.num_recovery = n]
  <1>1. f \in [Delegatees -> Nat] /\ l \in [Delegatees -> Nat] /\ n \in [Delegatees -> Nat]
    BY StorageFields, SMTT(30)
  <1>2. addStamina(s, d, amount) = t
    BY StorageFields DEF addStamina
  <1> HIDE DEF f, l, n
  <1>3. t \in Storage
    BY <1>1, Zenon DEF Storage
  <1>4. /\ t.stamina = f /\ t.last_recovery_block = l /\ t.num_recovery = n
        /\ t.total_deposit = s.total_deposit /\ t.withdrawal = s.withdrawal
        /\ t.last_processed_withdrawal = s.last_processed_withdrawal
    BY DEF Storage
  <1> QED BY <1>2, <1>3, <1>4 DEF f, l, n

\* The stamina of d after a refund of amount.
RefundedTo(s, d, amount) ==
  IF amount = 0 THEN s.stamina[d]
  ELSE IF s.stamina[d] + amount > s.total_deposit[d]
       THEN s.total_deposit[d] ELSE s.stamina[d] + amount

LEMMA RefundedStorage ==
  ASSUME NEW s \in Storage, NEW d \in Delegatees, NEW amount \in Nat, blockNumber \in Nat,
         ~recovers(s, d)
  PROVE  LET t == addStamina(s, d, amount) IN
         /\ t \in Storage
         /\ t.stamina = [s.stamina EXCEPT ![d] = RefundedTo(s, d, amount)]
         /\ t.last_recovery_block = s.last_recovery_block
         /\ t.num_recovery = s.num_recovery
         /\ t.total_deposit = s.total_deposit
         /\ t.withdrawal = s.withdrawal
         /\ t.last_processed_withdrawal = s.last_processed_withdrawal
  <1> DEFINE v == RefundedTo(s, d, amount)
             f == [s.stamina EXCEPT ![d] = v]
             t == [s EXCEPT !.stamina = f]
  <1>1. v \in Nat
    BY StorageFields DEF RefundedTo
  <1>2. amount = 0 => f = s.stamina
    BY StorageFields, Zenon DEF RefundedTo
  <1>3. f \in [Delegatees -> Nat]
    BY <1>1, StorageFields
  <1>4. CASE amount = 0
    <2>1. addStamina(s, d, amount) = s
      BY <1>4 DEF addStamina
    <2> HIDE DEF f, v
    <2> QED BY <1>2, <1>4, <2>1, Zenon DEF f, v
  <1>5. CASE amount # 0
    <2>1. addStamina(s, d, amount) = t
      BY <1>5, StorageFields DEF addStamina, RefundedTo
    <2> HIDE DEF f, v
    <2>2. t \in Storage
      BY <1>3, Zenon DEF Storage
    <2>3. /\ t.stamina = f
          /\ t.last_recovery_block = s.last_recovery_block /\ t.num_recovery = s.num_recovery
          /\ t.total_deposit = s.total_deposit /\ t.withdrawal = s.withdrawal
          /\ t.last_processed_withdrawal = s.last_processed_withdrawal
      BY DEF Storage
    <2> QED BY <2>1, <2>2, <2>3 DEF f, v
  <1> QED BY <1>4, <1>5

LEMMA NewWithdrawalType ==
  ASSUME NEW d \in Delegatees, NEW amount \in Nat, blockNumber \in Nat
  PROVE  newWithdrawal(d, amount) \in Withdrawal /\ ~newWithdrawal(d, amount).processed
  <1>1. amount % UINT128 \in Nat
    BY Environment
  <1> QED BY <1>1 DEF newWithdrawal, Withdrawal

\* The effects of requestWithdrawal on stamina, total deposit and the withdrawals.
Lowered(f, d, amount) == [f EXCEPT ![d] = IF @ > amount THEN @ - amount ELSE 0]
Taken(f, d, amount) == [f EXCEPT ![d] = @ - amount]
Queued(f, a, w) == [f EXCEPT ![a] = Append(@, w)]

LEMMA RequestStorage ==
  ASSUME NEW s \in Storage, NEW a \in Accounts, NEW d \in Delegatees, NEW amount \in Nat,
         blockNumber \in Nat, canRequestWithdrawal(s, a, d, amount)
  PROVE  LET t == requestWithdrawal(s, a, d, amount) IN
         /\ t \in Storage
         /\ t.stamina = Lowered(s.stamina, d, amount)
         /\ t.total_deposit = Taken(s.total_deposit, d, amount)
         /\ t.last_recovery_block = s.last_recovery_block /\ t.num_recovery = s.num_recovery
         /\ t.withdrawal = Queued(s.withdrawal, a, newWithdrawal(d, amount))
         /\ t.last_processed_withdrawal = s.last_processed_withdrawal
  <1> DEFINE f == [s.stamina EXCEPT ![d] = IF @ > amount THEN @ - amount ELSE 0]
             g == [s.total_deposit EXCEPT ![d] = @ - amount]
             h == [s.deposit EXCEPT ![a][d] = @ - amount]
             w == newWithdrawal(d, amount)
             q == [s.withdrawal EXCEPT ![a] = Append(@, w)]
             t == [s EXCEPT !.total_deposit = g, !.deposit = h, !.stamina = f, !.withdrawal = q]
  <1>1. f \in [Delegatees -> Nat]
    BY StorageFields
  <1>2. g \in [Delegatees -> Nat]
    BY StorageFields DEF canRequestWithdrawal
  <1>3. h \in [Accounts -> [Delegatees -> Nat]]
    BY StorageFields DEF canRequestWithdrawal
  <1>5. w \in Withdrawal
    BY NewWithdrawalType
  <1>6. requestWithdrawal(s, a, d, amount) = t
    BY StorageFields DEF requestWithdrawal
  <1> HIDE DEF f, g, h, w
  <1>7. q \in [Accounts -> Seq(Withdrawal)]
    BY <1>5, StorageFields
  <1> HIDE DEF q
  <1>8. t \in Storage
    BY <1>1, <1>2, <1>3, <1>7, Zenon DEF Storage
  <1>9. /\ t.stamina = f /\ t.total_deposit = g /\ t.withdrawal = q
        /\ t.last_recovery_block = s.last_recovery_block /\ t.num_recovery = s.num_recovery
        /\ t.last_processed_withdrawal = s.last_processed_withdrawal
    BY DEF Storage
  <1> QED BY <1>6, <1>8, <1>9 DEF f, g, q, w, Lowered, Taken, Queued

LEMMA WithdrawStorage ==
  ASSUME NEW s \in Storage, NEW a \in Accounts, canWithdraw(s, a)
  PROVE  LET t == withdraw(s, a)
             i == withdrawalIndex(s, a)
         IN
         /\ i \in Nat /\ i + 1 \in 1 .. Len(s.withdrawal[a])
         /\ t \in Storage
         /\ t.stamina = s.stamina /\ t.total_deposit = s.total_deposit
         /\ t.last_recovery_block = s.last_recovery_block /\ t.num_recovery = s.num_recovery
         /\ t.withdrawal = [s.withdrawal EXCEPT ![a][i + 1].processed = TRUE]
         /\ t.last_processed_withdrawal = [s.last_processed_withdrawal EXCEPT ![a] = i]
  <1> DEFINE i == withdrawalIndex(s, a)
             q == [s.withdrawal EXCEPT ![a][i + 1].processed = TRUE]
             l == [s.last_processed_withdrawal EXCEPT ![a] = i]
             t == [s EXCEPT !.withdrawal = q, !.last_processed_withdrawal = l]
  <1>1. i \in Nat
    BY StorageFields DEF withdrawalIndex
  <1>2. i + 1 \in 1 .. Len(s.withdrawal[a])
    BY <1>1, StorageFields DEF canWithdraw
  <1>3. withdraw(s, a) = t
    BY StorageFields DEF withdraw
  <1> HIDE DEF i
  <1>4. [s.withdrawal[a] EXCEPT ![i + 1].processed = TRUE] \in Seq(Withdrawal)
    <2>1. s.withdrawal[a] \in Seq(Withdrawal) /\ s.withdrawal[a][i + 1] \in Withdrawal
      BY <1>2, StorageFields
    <2>2. [s.withdrawal[a][i + 1] EXCEPT !.processed = TRUE] \in Withdrawal
      BY <2>1, Zenon DEF Withdrawal
    <2> QED BY <1>2, <2>1, <2>2
  <1>5. q \in [Accounts -> Seq(Withdrawal)] /\ l \in [Accounts -> Nat]
    BY <1>1, <1>4, StorageFields
  <1> HIDE DEF q, l
  <1>6. t \in Storage
    BY <1>5, Zenon DEF Storage
  <1>7. /\ t.withdrawal = q /\ t.last_processed_withdrawal = l
        /\ t.stamina = s.stamina /\ t.total_deposit = s.total_deposit
        /\ t.last_recovery_block = s.last_recovery_block /\ t.num_recovery = s.num_recovery
    BY DEF Storage
  <1> QED BY <1>1, <1>2, <1>3, <1>6, <1>7 DEF q, l, i

\* The two functions reserved to the chain leave the ledger alone.
SameLedger(s, t) ==
  /\ t.deposit = s.deposit
  /\ t.total_deposit = s.total_deposit
  /\ t.withdrawal = s.withdrawal

LEMMA AddLedger ==
  ASSUME NEW s \in Storage, NEW d \in Delegatees, NEW amount
  PROVE  SameLedger(s, addStamina(s, d, amount))
  <1>1. PICK f, l, n : \/ addStamina(s, d, amount) = s
                       \/ addStamina(s, d, amount) = [s EXCEPT !.stamina = f]
                       \/ addStamina(s, d, amount) = [s EXCEPT !.stamina = f, !.last_recovery_block = l,
                                                               !.num_recovery = n]
    <2>1. addStamina(s, d, amount) =
            IF recovers(s, d)
            THEN [s EXCEPT !.stamina = [s.stamina EXCEPT ![d] = s.total_deposit[d]],
                           !.last_recovery_block = [s.last_recovery_block EXCEPT ![d] = blockNumber],
                           !.num_recovery = [s.num_recovery EXCEPT ![d] = @ + 1]]
            ELSE IF amount = 0 THEN s
            ELSE [s EXCEPT !.stamina = [s.stamina EXCEPT ![d] = IF @ + amount > s.total_deposit[d]
                                THEN s.total_deposit[d] ELSE @ + amount]]
      BY DEF addStamina
    <2> QED BY <2>1, ZenonT(30)
  <1> QED BY <1>1 DEF SameLedger, Storage

LEMMA SubtractLedger ==
  ASSUME NEW s \in Storage, NEW d \in Delegatees, NEW amount
  PROVE  SameLedger(s, subtractStamina(s, d, amount))
  <1>1. subtractStamina(s, d, amount) =
          IF amount > 0 /\ amount <= s.stamina[d]
          THEN [s EXCEPT !.stamina = [s.stamina EXCEPT ![d] = @ - amount]] ELSE s
    BY DEF subtractStamina
  <1>2. PICK f : subtractStamina(s, d, amount) = s \/ subtractStamina(s, d, amount) = [s EXCEPT !.stamina = f]
    BY <1>1, ZenonT(30)
  <1> QED BY <1>2 DEF SameLedger, Storage

LEMMA SetDelegatorLedger ==
  ASSUME NEW s \in Storage, NEW a, NEW x
  PROVE  SameLedger(s, setDelegator(s, a, x))
  <1>1. PICK f : setDelegator(s, a, x) = [s EXCEPT !.delegatee = f]
    BY DEF setDelegator
  <1> QED BY <1>1 DEF SameLedger, Storage

LEMMA DepositLedger ==
  ASSUME NEW s \in Storage, NEW a \in Accounts, NEW d \in Delegatees, NEW v \in Nat
  PROVE  LET t == deposit(s, a, d, v) IN
         /\ t.deposit = [s.deposit EXCEPT ![a][d] = @ + v]
         /\ t.total_deposit = [s.total_deposit EXCEPT ![d] = @ + v]
         /\ t.withdrawal = s.withdrawal
  <1> DEFINE g == [s.total_deposit EXCEPT ![d] = @ + v]
             h == [s.deposit EXCEPT ![a][d] = @ + v]
             f == [s.stamina EXCEPT ![d] = @ + v]
             l == [s.last_recovery_block EXCEPT ![d] = IF @ = 0 THEN blockNumber ELSE @]
  <1>1. deposit(s, a, d, v) = [s EXCEPT !.total_deposit = g, !.deposit = h, !.stamina = f,
                                                    !.last_recovery_block = l]
    BY StorageFields DEF deposit
  <1> HIDE DEF f, g, h, l
  <1>2. /\ deposit(s, a, d, v).deposit = h /\ deposit(s, a, d, v).total_deposit = g
        /\ deposit(s, a, d, v).withdrawal = s.withdrawal
    BY <1>1 DEF Storage
  <1> QED BY <1>2 DEF g, h

LEMMA RequestLedger ==
  ASSUME NEW s \in Storage, NEW a \in Accounts, NEW d \in Delegatees, NEW v \in Nat
  PROVE  LET t == requestWithdrawal(s, a, d, v) IN
         /\ t.deposit = [s.deposit EXCEPT ![a][d] = @ - v]
         /\ t.total_deposit = [s.total_deposit EXCEPT ![d] = @ - v]
         /\ t.withdrawal = Queued(s.withdrawal, a, newWithdrawal(d, v))
  <1> DEFINE g == [s.total_deposit EXCEPT ![d] = @ - v]
             h == [s.deposit EXCEPT ![a][d] = @ - v]
             q == [s.withdrawal EXCEPT ![a] = Append(@, newWithdrawal(d, v))]
             f == [s.stamina EXCEPT ![d] = IF @ > v THEN @ - v ELSE 0]
  <1>1. requestWithdrawal(s, a, d, v) = [s EXCEPT !.total_deposit = g, !.deposit = h,
                                                           !.stamina = f, !.withdrawal = q]
    BY StorageFields DEF requestWithdrawal
  <1> HIDE DEF f, g, h, q
  <1>2. /\ requestWithdrawal(s, a, d, v).deposit = h
        /\ requestWithdrawal(s, a, d, v).total_deposit = g
        /\ requestWithdrawal(s, a, d, v).withdrawal = q
    BY <1>1 DEF Storage
  <1> QED BY <1>2 DEF g, h, q, Queued

LEMMA WithdrawLedger ==
  ASSUME NEW s \in Storage, NEW a
  PROVE  withdraw(s, a).deposit = s.deposit
  <1>1. PICK q, l : withdraw(s, a) = [s EXCEPT !.withdrawal = q, !.last_processed_withdrawal = l]
    BY DEF withdraw
  <1> QED BY <1>1 DEF Storage

-----------------------------------------------------------------------------
(***************************************************************************)
(* The calls a transaction can make.                                       *)
(***************************************************************************)
LEMMA CallFields ==
  ASSUME NEW call \in Calls
  PROVE  /\ call.fn \in {"none", "withdraw", "setDelegator", "deposit", "requestWithdrawal"}
         /\ call.fn = "setDelegator" => call.delegator \in Delegatees
         /\ call.fn \in {"deposit", "requestWithdrawal"} =>
              call.delegatee \in Delegatees /\ call.amount \in Nat
  BY Environment, Zenon DEF Calls

Back(call, e) == IF call.fn = "requestWithdrawal" /\ call.delegatee = e THEN call.amount ELSE 0

LEMMA BackNat == ASSUME NEW call \in Calls, NEW e PROVE Back(call, e) \in Nat
  BY CallFields DEF Back

\* Purchases aside, stamina and total deposit of a delegatee move together; the
\* clock of recoveries only ever starts; the order of withdrawals is kept.
CallKeeps(s, t, call) ==
  /\ \A e \in Delegatees :
       /\ t.stamina[e] + s.total_deposit[e] <= s.stamina[e] + t.total_deposit[e] + Back(call, e)
       /\ s.stamina[e] <= s.total_deposit[e] => t.stamina[e] <= t.total_deposit[e]
       /\ t.total_deposit[e] = s.total_deposit[e] => t.stamina[e] = s.stamina[e]
       /\ s.last_recovery_block[e] <= t.last_recovery_block[e]
  /\ t.num_recovery = s.num_recovery
  /\ InOrder(s) => InOrder(t)

LEMMA WithdrawOrder ==
  ASSUME NEW s \in Storage, NEW a \in Accounts, canWithdraw(s, a), InOrder(s)
  PROVE  InOrder(withdraw(s, a))
  <1> DEFINE t == withdraw(s, a)
             i == withdrawalIndex(s, a)
             ws == s.withdrawal[a]
  <1>1. /\ i \in Nat /\ i + 1 \in 1 .. Len(ws)
        /\ t.withdrawal = [s.withdrawal EXCEPT ![a][i + 1].processed = TRUE]
        /\ t.last_processed_withdrawal = [s.last_processed_withdrawal EXCEPT ![a] = i]
    BY WithdrawStorage
  <1>2. ws \in Seq(Withdrawal) /\ s.last_processed_withdrawal[a] \in Nat
    BY StorageFields
  <1>3. i = (IF s.last_processed_withdrawal[a] = 0 /\ ~ws[1].processed
             THEN 0 ELSE s.last_processed_withdrawal[a] + 1)
    BY DEF withdrawalIndex
  <1> HIDE DEF i, t
  <1>4. ASSUME NEW b \in Accounts, b # a
        PROVE  t.withdrawal[b] = s.withdrawal[b]
               /\ t.last_processed_withdrawal[b] = s.last_processed_withdrawal[b]
    BY <1>1, <1>4, StorageFields
  <1>5. t.last_processed_withdrawal[a] = i
    BY <1>1, StorageFields
  <1>6. t.withdrawal[a] = [ws EXCEPT ![i + 1] = [ws[i + 1] EXCEPT !.processed = TRUE]]
    BY <1>1, StorageFields
  <1>7. Len(t.withdrawal[a]) = Len(ws)
    BY <1>1, <1>2, <1>6
  <1>8. ASSUME NEW j \in 1 .. Len(ws)
        PROVE  t.withdrawal[a][j].processed <=> (j = i + 1 \/ ws[j].processed)
    <2>1. ws[j] \in Withdrawal
      BY <1>2
    <2>2. CASE j = i + 1
      <3>0. i + 1 \in DOMAIN ws
        BY <1>1, <1>2
      <3>1. t.withdrawal[a][j] = [ws[i + 1] EXCEPT !.processed = TRUE]
        BY <1>6, <2>2, <3>0, Zenon
      <3> QED BY <2>1, <2>2, <3>1 DEF Withdrawal
    <2>3. CASE j # i + 1
      <3>1. t.withdrawal[a][j] = ws[j]
        BY <1>1, <1>2, <1>6, <2>3
      <3> QED BY <2>3, <3>1
    <2> QED BY <2>2, <2>3
  <1>9. ASSUME NEW j \in 1 .. Len(ws)
        PROVE  ws[j].processed <=> /\ j <= s.last_processed_withdrawal[a] + 1
                                   /\ s.last_processed_withdrawal[a] = 0 => ws[1].processed
    BY DEF InOrder
  <1>10. 1 \in 1 .. Len(ws)
    BY <1>1, <1>2
  <1>11. ASSUME NEW j \in 1 .. Len(t.withdrawal[a])
         PROVE  t.withdrawal[a][j].processed <=>
                  /\ j <= t.last_processed_withdrawal[a] + 1
                  /\ t.last_processed_withdrawal[a] = 0 => t.withdrawal[a][1].processed
    <2>1. j \in 1 .. Len(ws)
      BY <1>7
    <2>2. CASE s.last_processed_withdrawal[a] = 0 /\ ~ws[1].processed
      <3>1. i = 0
        BY <1>3, <2>2
      <3>2. ~ws[j].processed
        BY <1>9, <2>1, <2>2
      <3>3. t.withdrawal[a][1].processed
        BY <1>8, <1>10, <3>1
      <3>4. t.withdrawal[a][j].processed <=> j = 1
        BY <1>8, <2>1, <3>1, <3>2
      <3> QED BY <1>5, <2>1, <3>1, <3>3, <3>4
    <2>3. CASE ~(s.last_processed_withdrawal[a] = 0 /\ ~ws[1].processed)
      <3>1. i = s.last_processed_withdrawal[a] + 1
        BY <1>3, <2>3
      <3>2. ws[j].processed <=> j <= s.last_processed_withdrawal[a] + 1
        BY <1>9, <2>1, <2>3
      <3>3. t.withdrawal[a][j].processed <=> (j = i + 1 \/ j <= i)
        BY <1>8, <2>1, <3>1, <3>2
      <3> QED BY <1>1, <1>2, <1>5, <2>1, <3>1, <3>3
    <2> QED BY <2>2, <2>3
  <1>12. InOrder(t)
    <2> SUFFICES ASSUME NEW b \in Accounts
                 PROVE  /\ \/ t.last_processed_withdrawal[b] = 0
                           \/ t.last_processed_withdrawal[b] < Len(t.withdrawal[b])
                        /\ \A j \in 1 .. Len(t.withdrawal[b]) :
                             t.withdrawal[b][j].processed <=>
                               /\ j <= t.last_processed_withdrawal[b] + 1
                               /\ t.last_processed_withdrawal[b] = 0 => t.withdrawal[b][1].processed
      BY Zenon DEF InOrder
    <2>1. CASE b = a
      <3>1. i < Len(ws)
        BY <1>1, <1>2
      <3> QED BY <1>5, <1>7, <1>11, <2>1, <3>1
    <2>2. CASE b # a
      BY <1>4, <2>2 DEF InOrder
    <2> QED BY <2>1, <2>2
  <1> QED BY <1>12 DEF t

LEMMA RequestOrder ==
  ASSUME NEW s \in Storage, NEW a \in Accounts, NEW t, NEW w \in Withdrawal, ~w.processed,
         t.withdrawal = Queued(s.withdrawal, a, w),
         t.last_processed_withdrawal = s.last_processed_withdrawal,
         InOrder(s)
  PROVE  InOrder(t)
  <1> DEFINE ws == s.withdrawal[a]
             us == t.withdrawal[a]
             last == s.last_processed_withdrawal[a]
  <1>1. ws \in Seq(Withdrawal) /\ last \in Nat /\ us = Append(ws, w)
    BY StorageFields DEF Queued
  <1>2. ASSUME NEW b \in Accounts, b # a PROVE t.withdrawal[b] = s.withdrawal[b]
    BY <1>2, StorageFields DEF Queued
  <1>3. /\ last = 0 \/ last < Len(ws)
        /\ \A i \in 1 .. Len(ws) :
             ws[i].processed <=> i <= last + 1 /\ (last = 0 => ws[1].processed)
    BY DEF InOrder
  <1> HIDE DEF ws, us, last
  <1>4. Len(us) = Len(ws) + 1 /\ us[Len(us)] = w
        /\ \A i \in 1 .. Len(ws) : us[i] = ws[i]
    BY <1>1
  <1>5. ASSUME NEW j \in 1 .. Len(us)
        PROVE  us[j].processed <=> j <= last + 1 /\ (last = 0 => us[1].processed)
    <2>1. CASE j \in 1 .. Len(ws)
      <3>1. 1 \in 1 .. Len(ws)
        BY <1>1, <2>1
      <3> QED BY <1>3, <1>4, <2>1, <3>1
    <2>2. CASE j = Len(us)
      <3>1. ~us[j].processed
        BY <1>4, <2>2
      <3>2. CASE last # 0
        BY <1>1, <1>3, <1>4, <2>2, <3>1, <3>2
      <3>3. CASE last = 0 /\ Len(ws) = 0
        BY <1>1, <1>4, <2>2, <3>1, <3>3
      <3>4. CASE last = 0 /\ Len(ws) > 0
        BY <1>1, <1>4, <2>2, <3>1, <3>4
      <3> QED BY <1>1, <3>2, <3>3, <3>4
    <2> QED BY <1>1, <1>4, <2>1, <2>2
  <1>6. last = 0 \/ last < Len(us)
    BY <1>1, <1>3, <1>4
  <1> SUFFICES ASSUME NEW b \in Accounts
               PROVE  /\ \/ t.last_processed_withdrawal[b] = 0
                         \/ t.last_processed_withdrawal[b] < Len(t.withdrawal[b])
                      /\ \A j \in 1 .. Len(t.withdrawal[b]) :
                           t.withdrawal[b][j].processed <=>
                             /\ j <= t.last_processed_withdrawal[b] + 1
                             /\ t.last_processed_withdrawal[b] = 0 => t.withdrawal[b][1].processed
    BY Zenon DEF InOrder
  <1>7. CASE b = a
    BY <1>5, <1>6, <1>7 DEF us, last
  <1>8. CASE b # a
    BY <1>2, <1>8 DEF InOrder
  <1> QED BY <1>7, <1>8

LEMMA CallStorage ==
  ASSUME NEW s \in Storage, NEW a \in Accounts, NEW call \in Calls, blockNumber \in Nat,
         callOK(s, a, call)
  PROVE  callEffect(s, a, call) \in Storage /\ CallKeeps(s, callEffect(s, a, call), call)
  <1> DEFINE t == callEffect(s, a, call)
  <1>0. /\ s.stamina \in [Delegatees -> Nat] /\ s.total_deposit \in [Delegatees -> Nat]
        /\ s.last_recovery_block \in [Delegatees -> Nat]
    BY StorageFields
  <1>z. \A e \in Delegatees : Back(call, e) \in Nat
    BY BackNat
  <1>1. CASE call.fn = "none"
    <2>1. t = s
      BY <1>1 DEF callEffect
    <2>9. t \in Storage /\ CallKeeps(s, t, call)
      BY <1>1, <2>1, <1>0, <1>z DEF CallKeeps
    <2> QED BY <2>9 DEF t
  <1>2. CASE call.fn = "setDelegator"
    <2>1. t = setDelegator(s, a, call.delegator)
      BY <1>2 DEF callEffect
    <2> HIDE DEF t
    <2>2. /\ t \in Storage
          /\ t.stamina = s.stamina /\ t.total_deposit = s.total_deposit
          /\ t.last_recovery_block = s.last_recovery_block /\ t.num_recovery = s.num_recovery
          /\ t.withdrawal = s.withdrawal
          /\ t.last_processed_withdrawal = s.last_processed_withdrawal
      BY <1>2, <2>1, CallFields, SetDelegatorStorage
    <2>3. InOrder(s) => InOrder(t)
      BY <2>2, Zenon DEF InOrder
    <2>9. t \in Storage /\ CallKeeps(s, t, call)
      BY <1>2, <2>2, <2>3, <1>0, <1>z DEF CallKeeps
    <2> QED BY <2>9 DEF t
  <1>3. CASE call.fn = "deposit"
    <2> DEFINE d == call.delegatee
               v == call.amount
    <2>1. t = deposit(s, a, d, v) /\ d \in Delegatees /\ v \in Nat /\ v # 0
      BY <1>3, CallFields, StaminaConfig DEF callEffect, callOK, canDeposit
    <2> HIDE DEF t
    <2>2. /\ t \in Storage
          /\ t.stamina = [s.stamina EXCEPT ![d] = @ + v]
          /\ t.total_deposit = [s.total_deposit EXCEPT ![d] = @ + v]
          /\ t.last_recovery_block =
               [s.last_recovery_block EXCEPT ![d] = IF @ = 0 THEN blockNumber ELSE @]
          /\ t.num_recovery = s.num_recovery
          /\ t.withdrawal = s.withdrawal
          /\ t.last_processed_withdrawal = s.last_processed_withdrawal
      BY <2>1, DepositStorage
    <2>3. InOrder(s) => InOrder(t)
      BY <2>2, Zenon DEF InOrder
    <2> HIDE DEF d, v
    <2>4. ASSUME NEW e \in Delegatees
          PROVE  /\ t.stamina[e] \in Nat /\ t.total_deposit[e] \in Nat
                 /\ t.stamina[e] + s.total_deposit[e] <= s.stamina[e] + t.total_deposit[e]
                 /\ s.stamina[e] <= s.total_deposit[e] => t.stamina[e] <= t.total_deposit[e]
                 /\ t.total_deposit[e] = s.total_deposit[e] => t.stamina[e] = s.stamina[e]
                 /\ s.last_recovery_block[e] <= t.last_recovery_block[e]
      BY <2>1, <2>2, <1>0
    <2>9. t \in Storage /\ CallKeeps(s, t, call)
      BY <1>3, <2>2, <2>3, <2>4, <1>0, <1>z DEF CallKeeps
    <2> QED BY <2>9 DEF t
  <1>4. CASE call.fn = "requestWithdrawal"
    <2> DEFINE d == call.delegatee
               v == call.amount
    <2>1. t = requestWithdrawal(s, a, d, v) /\ d \in Delegatees /\ v \in Nat
          /\ canRequestWithdrawal(s, a, d, v)
      BY <1>4, CallFields DEF callEffect, callOK
    <2> HIDE DEF t
    <2>2. /\ t \in Storage
          /\ t.stamina = Lowered(s.stamina, d, v)
          /\ t.total_deposit = Taken(s.total_deposit, d, v)
          /\ t.last_recovery_block = s.last_recovery_block /\ t.num_recovery = s.num_recovery
          /\ t.withdrawal = Queued(s.withdrawal, a, newWithdrawal(d, v))
          /\ t.last_processed_withdrawal = s.last_processed_withdrawal
      BY <2>1, RequestStorage
    <2>3. v > 0 /\ v <= s.total_deposit[d]
      BY <2>1 DEF canRequestWithdrawal
    <2>4. InOrder(s) => InOrder(t)
      BY <2>1, <2>2, RequestOrder, NewWithdrawalType
    <2> HIDE DEF d, v
    <2>5. ASSUME NEW e \in Delegatees
          PROVE  /\ t.stamina[e] + s.total_deposit[e]
                      <= s.stamina[e] + t.total_deposit[e] + (IF d = e THEN v ELSE 0)
                 /\ s.stamina[e] <= s.total_deposit[e] => t.stamina[e] <= t.total_deposit[e]
                 /\ t.total_deposit[e] = s.total_deposit[e] => t.stamina[e] = s.stamina[e]
                 /\ s.last_recovery_block[e] <= t.last_recovery_block[e]
      BY <2>1, <2>2, <2>3, <1>0 DEF Lowered, Taken
    <2>6. \A e \in Delegatees : Back(call, e) = IF d = e THEN v ELSE 0
      BY <1>4 DEF Back, d, v
    <2>9. t \in Storage /\ CallKeeps(s, t, call)
      BY <2>2, <2>4, <2>5, <2>6 DEF CallKeeps
    <2> QED BY <2>9 DEF t
  <1>5. CASE call.fn = "withdraw"
    <2>1. t = withdraw(s, a) /\ canWithdraw(s, a)
      BY <1>5 DEF callEffect, callOK
    <2> HIDE DEF t
    <2>2. /\ t \in Storage
          /\ t.stamina = s.stamina /\ t.total_deposit = s.total_deposit
          /\ t.last_recovery_block = s.last_recovery_block /\ t.num_recovery = s.num_recovery
      BY <2>1, WithdrawStorage, Zenon
    <2>3. InOrder(s) => InOrder(t)
      BY <2>1, WithdrawOrder
    <2>9. t \in Storage /\ CallKeeps(s, t, call)
      BY <1>5, <2>2, <2>3, <1>0, <1>z DEF CallKeeps
    <2> QED BY <2>9 DEF t
  <1> QED BY <1>1, <1>2, <1>3, <1>4, <1>5, CallFields

-----------------------------------------------------------------------------
(***************************************************************************)
(* A transaction as a whole, from storage s to t: it runs call and charges *)
(* fee to the stamina of d (no delegatee when the sender pays); recovered  *)
(* says whether the refund was a recovery.                                 *)
(***************************************************************************)
TxKeepsAt(s, t, d, recovered, fee, call, e) ==
  /\ e = d /\ recovered => t.stamina[e] = t.total_deposit[e]
  /\ e = d /\ ~recovered =>
       t.stamina[e] + fee + s.total_deposit[e]
         <= s.stamina[e] + t.total_deposit[e] + Back(call, e)
  /\ e # d =>
       t.stamina[e] + s.total_deposit[e]
         <= s.stamina[e] + t.total_deposit[e] + Back(call, e)
  /\ s.stamina[e] <= s.total_deposit[e] => t.stamina[e] <= t.total_deposit[e]
  /\ s.stamina[e] <= s.total_deposit[e] /\ t.total_deposit[e] = s.total_deposit[e]
       /\ ~(e = d /\ recovered)
       => t.stamina[e] + (IF e = d THEN fee ELSE 0) = s.stamina[e]
  /\ \/ /\ ~(e = d /\ recovered)
        /\ t.num_recovery[e] = s.num_recovery[e]
        /\ s.last_recovery_block[e] <= t.last_recovery_block[e]
     \/ /\ e = d /\ recovered
        /\ t.num_recovery[e] = s.num_recovery[e] + 1
        /\ s.last_recovery_block[e] + RECOVER_EPOCH_LENGTH <= t.last_recovery_block[e]

TxKeeps(s, t, d, recovered, fee, call) ==
  /\ \A e \in Delegatees : TxKeepsAt(s, t, d, recovered, fee, call, e)
  /\ InOrder(s) => InOrder(t)

LEMMA OrdinaryKeeps ==
  ASSUME NEW s \in Storage, NEW a \in Accounts, NEW call \in Calls, blockNumber \in Nat,
         callOK(s, a, call)
  PROVE  TxKeeps(s, callEffect(s, a, call), StaminaAddress, FALSE, 0, call)
  <1> DEFINE t == callEffect(s, a, call)
  <1>1. t \in Storage /\ CallKeeps(s, t, call)
    BY CallStorage
  <1> HIDE DEF t
  <1>2. \A e \in Delegatees : e # StaminaAddress
    BY Environment
  <1>3. /\ s.stamina \in [Delegatees -> Nat] /\ t.stamina \in [Delegatees -> Nat]
    BY <1>1, StorageFields
  <1>4. TxKeeps(s, t, StaminaAddress, FALSE, 0, call)
    BY <1>1, <1>2, <1>3 DEF CallKeeps, TxKeeps, TxKeepsAt
  <1> QED BY <1>4, Zenon DEF t

\* What the refund does at its delegatee d and at the others.
AddKeeps(s, t, d, amount) ==
  /\ t.total_deposit = s.total_deposit
  /\ t.withdrawal = s.withdrawal /\ t.last_processed_withdrawal = s.last_processed_withdrawal
  /\ \A e \in Delegatees \ {d} :
       /\ t.stamina[e] = s.stamina[e]
       /\ t.num_recovery[e] = s.num_recovery[e]
       /\ t.last_recovery_block[e] = s.last_recovery_block[e]
  /\ recovers(s, d) =>
       /\ t.stamina[d] = s.total_deposit[d]
       /\ t.num_recovery[d] = s.num_recovery[d] + 1
       /\ s.last_recovery_block[d] + RECOVER_EPOCH_LENGTH <= t.last_recovery_block[d]
  /\ ~recovers(s, d) =>
       /\ t.num_recovery[d] = s.num_recovery[d]
       /\ t.last_recovery_block[d] = s.last_recovery_block[d]
       /\ t.stamina[d] <= s.stamina[d] + amount
       /\ s.stamina[d] + amount <= s.total_deposit[d] => t.stamina[d] = s.stamina[d] + amount
       /\ s.stamina[d] <= s.total_deposit[d] => t.stamina[d] <= s.total_deposit[d]

LEMMA AddKept ==
  ASSUME NEW s \in Storage, NEW d \in Delegatees, NEW amount \in Nat, blockNumber \in Nat
  PROVE  /\ addStamina(s, d, amount) \in Storage
         /\ AddKeeps(s, addStamina(s, d, amount), d, amount)
  <1> DEFINE t == addStamina(s, d, amount)
  <1>0. /\ s.stamina \in [Delegatees -> Nat] /\ s.last_recovery_block \in [Delegatees -> Nat]
        /\ s.num_recovery \in [Delegatees -> Nat] /\ s.total_deposit \in [Delegatees -> Nat]
    BY StorageFields
  <1>2. CASE recovers(s, d)
    <2>1. /\ t \in Storage
          /\ t.stamina = [s.stamina EXCEPT ![d] = s.total_deposit[d]]
          /\ t.last_recovery_block = [s.last_recovery_block EXCEPT ![d] = blockNumber]
          /\ t.num_recovery = [s.num_recovery EXCEPT ![d] = @ + 1]
          /\ t.total_deposit = s.total_deposit
          /\ t.withdrawal = s.withdrawal
          /\ t.last_processed_withdrawal = s.last_processed_withdrawal
      BY <1>2, RecoveredStorage, Zenon
    <2>2. s.last_recovery_block[d] + RECOVER_EPOCH_LENGTH <= blockNumber
      BY <1>2 DEF recovers
    <2> HIDE DEF t
    <2>3. AddKeeps(s, t, d, amount)
      BY <1>0, <1>2, <2>1, <2>2 DEF AddKeeps
    <2> QED BY <2>1, <2>3 DEF t
  <1>3. CASE ~recovers(s, d)
    <2> DEFINE v == RefundedTo(s, d, amount)
    <2>1. /\ t \in Storage
          /\ t.stamina = [s.stamina EXCEPT ![d] = v]
          /\ t.last_recovery_block = s.last_recovery_block /\ t.num_recovery = s.num_recovery
          /\ t.total_deposit = s.total_deposit
          /\ t.withdrawal = s.withdrawal
          /\ t.last_processed_withdrawal = s.last_processed_withdrawal
      BY <1>3, RefundedStorage, Zenon
    <2>2. /\ v <= s.stamina[d] + amount
          /\ s.stamina[d] + amount <= s.total_deposit[d] => v = s.stamina[d] + amount
          /\ s.stamina[d] <= s.total_deposit[d] => v <= s.total_deposit[d]
      BY <1>0 DEF RefundedTo
    <2> HIDE DEF t, v
    <2>3. AddKeeps(s, t, d, amount)
      BY <1>0, <1>3, <2>1, <2>2 DEF AddKeeps
    <2> QED BY <2>1, <2>3 DEF t
  <1> QED BY <1>2, <1>3

LEMMA FeeSplit ==
  ASSUME NEW gas \in Nat, NEW price \in Nat, NEW used \in Nat, used <= gas
  PROVE  /\ gas * price \in Nat /\ used * price \in Nat /\ (gas - used) * price \in Nat
         /\ gas * price = used * price + (gas - used) * price
  <1>1. gas - used \in Nat
    BY Z3
  <1>2. \A x, y \in Nat : x * y \in Nat
    BY Z3
  <1>3. (gas - used) * price = gas * price - used * price
    BY Z3
  <1>4. gas * price \in Nat /\ used * price \in Nat /\ (gas - used) * price \in Nat
    BY <1>1, <1>2
  <1> QED BY <1>3, <1>4

\* The three steps of a delegated transaction on the contract, put together.
Charged(s, a, d, cost, fee, refund, call) ==
  LET bought == subtractStamina(s, d, cost)
      ran    == callEffect(bought, a, call)
      t      == addStamina(ran, d, refund)
  IN /\ bought \in Storage /\ ran \in Storage /\ t \in Storage
     /\ bought.withdrawal = s.withdrawal
     /\ t.withdrawal = ran.withdrawal
     /\ TxKeeps(s, t, d, recovers(ran, d), fee, call)

LEMMA DelegatedKeeps ==
  ASSUME NEW s \in Storage, NEW a \in Delegatees, NEW call \in Calls, blockNumber \in Nat,
         NEW d \in Delegatees, NEW cost \in Nat, NEW fee \in Nat, NEW refund \in Nat,
         cost = fee + refund, cost <= s.stamina[d],
         a \in Accounts \/ call.fn = "none",
         callOK(subtractStamina(s, d, cost), a, call)
  PROVE  Charged(s, a, d, cost, fee, refund, call)
  <1> DEFINE bought == subtractStamina(s, d, cost)
             ran    == callEffect(bought, a, call)
             t      == addStamina(ran, d, refund)
  <1>1. /\ bought \in Storage
        /\ bought.stamina = [s.stamina EXCEPT ![d] = @ - cost]
        /\ bought.total_deposit = s.total_deposit
        /\ bought.last_recovery_block = s.last_recovery_block
        /\ bought.num_recovery = s.num_recovery
        /\ bought.withdrawal = s.withdrawal
        /\ bought.last_processed_withdrawal = s.last_processed_withdrawal
    BY SubtractStorage
  <1> HIDE DEF bought
  <1>0. /\ s.stamina \in [Delegatees -> Nat] /\ s.total_deposit \in [Delegatees -> Nat]
        /\ s.last_recovery_block \in [Delegatees -> Nat]
        /\ s.num_recovery \in [Delegatees -> Nat]
    BY StorageFields
  <1>2. ran \in Storage /\ CallKeeps(bought, ran, call)
    <2>1. CASE call.fn = "none"
      <3>1. ran = bought
        BY <2>1 DEF callEffect
      <3>2. /\ bought.stamina \in [Delegatees -> Nat]
            /\ bought.total_deposit \in [Delegatees -> Nat]
            /\ bought.last_recovery_block \in [Delegatees -> Nat]
        BY <1>1, StorageFields, Zenon
      <3>3. \A e \in Delegatees : Back(call, e) \in Nat
        BY BackNat
      <3> HIDE DEF ran
      <3> QED BY <1>1, <3>1, <3>2, <3>3 DEF CallKeeps
    <2>2. CASE a \in Accounts
      BY <1>1, <2>2, CallStorage DEF bought
    <2> QED BY <2>1, <2>2
  <1> HIDE DEF ran
  <1>3. t \in Storage /\ AddKeeps(ran, t, d, refund)
    BY <1>2, AddKept
  <1> HIDE DEF t
  <1>4. /\ ran.stamina \in [Delegatees -> Nat] /\ ran.total_deposit \in [Delegatees -> Nat]
        /\ ran.last_recovery_block \in [Delegatees -> Nat]
        /\ ran.num_recovery \in [Delegatees -> Nat]
    BY <1>2, StorageFields, Zenon
  <1>5. /\ t.stamina \in [Delegatees -> Nat]
        /\ t.last_recovery_block \in [Delegatees -> Nat]
        /\ t.num_recovery \in [Delegatees -> Nat]
    BY <1>3, StorageFields
  <1>6. InOrder(s) => InOrder(t)
    <2>1. InOrder(s) => InOrder(bought)
      BY <1>1, Zenon DEF InOrder
    <2>2. InOrder(bought) => InOrder(ran)
      BY <1>2 DEF CallKeeps
    <2>3. /\ t.withdrawal = ran.withdrawal
          /\ t.last_processed_withdrawal = ran.last_processed_withdrawal
      BY <1>3 DEF AddKeeps
    <2>4. InOrder(ran) => InOrder(t)
      BY <2>3, Zenon DEF InOrder
    <2> QED BY <2>1, <2>2, <2>4
  <1>7. \A e \in Delegatees : Back(call, e) \in Nat
    BY BackNat
  <1>8. RECOVER_EPOCH_LENGTH \in Nat
    BY StaminaConfig
  <1>e. ASSUME NEW e \in Delegatees
        PROVE  /\ ran.stamina[e] + s.total_deposit[e]
                    <= bought.stamina[e] + ran.total_deposit[e] + Back(call, e)
               /\ bought.stamina[e] <= s.total_deposit[e] => ran.stamina[e] <= ran.total_deposit[e]
               /\ ran.total_deposit[e] = s.total_deposit[e] => ran.stamina[e] = bought.stamina[e]
               /\ s.last_recovery_block[e] <= ran.last_recovery_block[e]
               /\ ran.num_recovery[e] = s.num_recovery[e]
               /\ bought.stamina[e] = IF e = d THEN s.stamina[e] - cost ELSE s.stamina[e]
               /\ t.total_deposit[e] = ran.total_deposit[e]
    BY <1>0, <1>1, <1>2, <1>3 DEF CallKeeps, AddKeeps
  <1>9. TxKeeps(s, t, d, recovers(ran, d), fee, call)
    <2>1. ASSUME NEW e \in Delegatees, e # d
          PROVE  TxKeepsAt(s, t, d, recovers(ran, d), fee, call, e)
      <3>1. /\ t.stamina[e] = ran.stamina[e] /\ t.num_recovery[e] = ran.num_recovery[e]
            /\ t.last_recovery_block[e] = ran.last_recovery_block[e]
        BY <1>3, <2>1 DEF AddKeeps
      <3>2. bought.stamina[e] = s.stamina[e]
        BY <1>e, <2>1
      <3> QED BY <1>0, <1>4, <1>7, <1>e, <2>1, <3>1, <3>2 DEF TxKeepsAt
    <2>2. ASSUME recovers(ran, d)
          PROVE  TxKeepsAt(s, t, d, TRUE, fee, call, d)
      <3>1. /\ t.stamina[d] = ran.total_deposit[d]
            /\ t.num_recovery[d] = ran.num_recovery[d] + 1
            /\ ran.last_recovery_block[d] + RECOVER_EPOCH_LENGTH <= t.last_recovery_block[d]
        BY <1>3, <2>2 DEF AddKeeps
      <3> QED BY <1>0, <1>4, <1>5, <1>8, <1>e, <3>1 DEF TxKeepsAt
    <2>3. ASSUME ~recovers(ran, d)
          PROVE  TxKeepsAt(s, t, d, FALSE, fee, call, d)
      <3>1. /\ t.num_recovery[d] = ran.num_recovery[d]
            /\ t.last_recovery_block[d] = ran.last_recovery_block[d]
            /\ t.stamina[d] <= ran.stamina[d] + refund
            /\ ran.stamina[d] + refund <= ran.total_deposit[d] =>
                 t.stamina[d] = ran.stamina[d] + refund
            /\ ran.stamina[d] <= ran.total_deposit[d] => t.stamina[d] <= ran.total_deposit[d]
        BY <1>3, <2>3 DEF AddKeeps
      <3>2. bought.stamina[d] = s.stamina[d] - cost
        BY <1>e
      <3>3. /\ t.stamina[d] \in Nat /\ ran.stamina[d] \in Nat /\ s.stamina[d] \in Nat
            /\ s.total_deposit[d] \in Nat /\ ran.total_deposit[d] \in Nat
            /\ Back(call, d) \in Nat
        BY <1>0, <1>4, <1>5, <1>7
      <3> QED BY <1>e, <3>1, <3>2, <3>3 DEF TxKeepsAt
    <2>4. TxKeepsAt(s, t, d, recovers(ran, d), fee, call, d)
      <3>1. recovers(ran, d) \in BOOLEAN
        BY DEF recovers
      <3> QED BY <2>2, <2>3, <3>1, Zenon
    <2> QED BY <1>6, <2>1, <2>4 DEF TxKeeps
  <1>10. t.withdrawal = ran.withdrawal
    BY <1>3 DEF AddKeeps
  <1> QED BY <1>1, <1>2, <1>3, <1>9, <1>10 DEF bought, ran, t, Charged

-----------------------------------------------------------------------------
(***************************************************************************)
(* The ether of a transaction.                                             *)
(***************************************************************************)
LEMMA TransferBounds ==
  ASSUME NEW s \in Storage, NEW a, NEW call \in Calls, balance[StaminaAddress] \in Nat,
         a \in Accounts \/ call.fn = "none", callOK(s, a, call)
  PROVE  /\ callTransfer(s, a, call) \in Int
         /\ callValue(call) \in Nat
         /\ callTransfer(s, a, call) <= callValue(call)
         /\ 0 <= balance[StaminaAddress] + callTransfer(s, a, call)
         /\ callTransfer(s, a, call) < 0 => call.fn = "withdraw"
  <1>1. CASE call.fn = "withdraw"
    <2>1. a \in Accounts /\ canWithdraw(s, a)
      BY <1>1 DEF callOK
    <2> DEFINE i == withdrawalIndex(s, a) + 1
    <2>2. i \in 1 .. Len(s.withdrawal[a])
      BY <2>1, WithdrawStorage, Zenon
    <2>3. s.withdrawal[a][i].amount <= balance[StaminaAddress]
      BY <2>1 DEF canWithdraw
    <2> HIDE DEF i
    <2>4. s.withdrawal[a][i] \in Withdrawal
      BY <2>1, <2>2, StorageFields
    <2>5. s.withdrawal[a][i].amount \in Nat
      BY <2>4 DEF Withdrawal
    <2>6. callTransfer(s, a, call) = -s.withdrawal[a][i].amount /\ callValue(call) = 0
      BY <1>1 DEF callTransfer, callValue, withdrawnAmount, i
    <2> QED BY <1>1, <2>3, <2>5, <2>6
  <1>2. CASE call.fn = "deposit"
    BY <1>2, CallFields DEF callTransfer, callValue
  <1>3. CASE call.fn \notin {"withdraw", "deposit"}
    BY <1>3 DEF callTransfer, callValue
  <1> QED BY <1>1, <1>2, <1>3

LEMMA MoveEtherType ==
  ASSUME balance \in [Delegatees \cup {StaminaAddress} -> Nat],
         NEW from \in Delegatees, NEW to \in Int, NEW gasFee \in Nat, NEW fee \in Nat,
         0 <= balance[StaminaAddress] + to, to + gasFee <= balance[from],
         MoveEther(from, to, gasFee, fee)
  PROVE  /\ balance' \in [Delegatees \cup {StaminaAddress} -> Nat]
         /\ balance'[StaminaAddress] = balance[StaminaAddress] + to
  <1>1. coinbase # StaminaAddress /\ from # StaminaAddress
    BY Environment DEF coinbase, Delegatees
  <1>2. ASSUME NEW x \in Delegatees \cup {StaminaAddress}
        PROVE  /\ balance'[x] = balance[x] + (IF x = StaminaAddress THEN to ELSE 0)
                                           + (IF x = coinbase THEN fee ELSE 0)
                                           - (IF x = from THEN to + gasFee ELSE 0)
               /\ balance'[x] \in Nat
    <2>1. balance'[x] = balance[x] + (IF x = StaminaAddress THEN to ELSE 0)
                                   + (IF x = coinbase THEN fee ELSE 0)
                                   - (IF x = from THEN to + gasFee ELSE 0)
      BY DEF MoveEther
    <2> QED BY <1>1, <2>1
  <1>3. DOMAIN balance' = Delegatees \cup {StaminaAddress}
        /\ balance' = [x \in Delegatees \cup {StaminaAddress} |-> balance'[x]]
    BY DEF MoveEther
  <1>4. balance' \in [Delegatees \cup {StaminaAddress} -> Nat]
    BY <1>2, <1>3
  <1>5. balance'[StaminaAddress] = balance[StaminaAddress] + to
    BY <1>1, <1>2
  <1> QED BY <1>4, <1>5

-----------------------------------------------------------------------------
(***************************************************************************)
(* The inductive invariant, and what a transaction does to it.             *)
(***************************************************************************)
IInv == TypeOK /\ SpendingBounded /\ WithdrawnInOrder /\ OneRecoveryPerEpoch

PreciseStep ==
  \A d \in Delegatees :
    storage.stamina[d] <= storage.total_deposit[d] =>
      /\ storage'.stamina[d] <= storage'.total_deposit[d]
      /\ (/\ storage'.num_recovery[d] = storage.num_recovery[d]
          /\ storage'.total_deposit[d] = storage.total_deposit[d])
         => storage'.stamina[d] + spent'[d] = storage.stamina[d] + spent[d]

LEMMA EpochStep ==
  ASSUME NEW n \in Nat, NEW m \in Nat, NEW k \in Nat, NEW last \in Nat,
         m * RECOVER_EPOCH_LENGTH <= last, k = m + 1, last + RECOVER_EPOCH_LENGTH <= n
  PROVE  k * RECOVER_EPOCH_LENGTH <= n
  <1>1. RECOVER_EPOCH_LENGTH \in Nat
    BY StaminaConfig
  <1>2. k * RECOVER_EPOCH_LENGTH = m * RECOVER_EPOCH_LENGTH + RECOVER_EPOCH_LENGTH
    BY <1>1, Z3
  <1>3. m * RECOVER_EPOCH_LENGTH \in Int
    BY <1>1, Z3
  <1> QED BY <1>1, <1>2, <1>3

LEMMA TransactionKeeps ==
  ASSUME IInv, NEW call \in Calls, NEW d, NEW recovered \in BOOLEAN, NEW fee \in Nat,
         storage' \in Storage, TxKeeps(storage, storage', d, recovered, fee, call),
         Remember(call, d, recovered, fee)
  PROVE  /\ spent' \in [Delegatees -> Nat] /\ undeposited' \in [Delegatees -> Nat]
         /\ SpendingBounded' /\ WithdrawnInOrder' /\ OneRecoveryPerEpoch'
         /\ PreciseStep
  <1>0. /\ spent \in [Delegatees -> Nat] /\ undeposited \in [Delegatees -> Nat]
        /\ storage \in Storage
    BY DEF IInv, TypeOK
  <1>1. /\ storage.stamina \in [Delegatees -> Nat] /\ storage.total_deposit \in [Delegatees -> Nat]
        /\ storage.last_recovery_block \in [Delegatees -> Nat]
        /\ storage.num_recovery \in [Delegatees -> Nat]
    BY <1>0, StorageFields
  <1>2. /\ storage'.stamina \in [Delegatees -> Nat]
        /\ storage'.total_deposit \in [Delegatees -> Nat]
        /\ storage'.last_recovery_block \in [Delegatees -> Nat]
        /\ storage'.num_recovery \in [Delegatees -> Nat]
    BY StorageFields
  <1>3. /\ spent' = [e \in Delegatees |->
                       IF e # d THEN spent[e] ELSE IF recovered THEN 0 ELSE spent[e] + fee]
        /\ undeposited' = [e \in Delegatees |->
                       IF e = d /\ recovered THEN 0 ELSE undeposited[e] + Back(call, e)]
    <2>1. \A e \in Delegatees :
            (IF e = d /\ recovered THEN 0
             ELSE IF call.fn = "requestWithdrawal" /\ call.delegatee = e
                  THEN undeposited[e] + call.amount ELSE undeposited[e])
            = IF e = d /\ recovered THEN 0 ELSE undeposited[e] + Back(call, e)
      BY <1>0, CallFields DEF Back
    <2> QED BY <2>1 DEF Remember
  <1>4. \A e \in Delegatees : Back(call, e) \in Nat
    BY BackNat
  <1>5. spent' \in [Delegatees -> Nat] /\ undeposited' \in [Delegatees -> Nat]
    BY <1>0, <1>3, <1>4
  <1>6. SpendingBounded'
    <2>1. \A e \in Delegatees : GenesisStamina(e) \in Nat
      BY Environment DEF GenesisStamina
    <2>2. \A e \in Delegatees :
            storage.stamina[e] + spent[e]
              <= storage.total_deposit[e] + undeposited[e] + GenesisStamina(e)
      BY DEF IInv, SpendingBounded
    <2>3. ASSUME NEW e \in Delegatees
          PROVE  storage'.stamina[e] + spent'[e]
                   <= storage'.total_deposit[e] + undeposited'[e] + GenesisStamina(e)
      <3>1. CASE e = d /\ recovered
        BY <1>2, <1>3, <2>1, <3>1 DEF TxKeeps, TxKeepsAt
      <3>2. CASE e = d /\ ~recovered
        BY <1>0, <1>1, <1>2, <1>3, <1>4, <2>1, <2>2, <3>2 DEF TxKeeps, TxKeepsAt
      <3>3. CASE e # d
        BY <1>0, <1>1, <1>2, <1>3, <1>4, <2>1, <2>2, <3>3 DEF TxKeeps, TxKeepsAt
      <3> QED BY <3>1, <3>2, <3>3
    <2> QED BY <2>3 DEF SpendingBounded, GenesisStamina
  <1>7. WithdrawnInOrder'
    BY Zenon DEF IInv, WithdrawnInOrder, TxKeeps, InOrder
  <1>8. OneRecoveryPerEpoch'
    <2>1. ASSUME NEW e \in Delegatees
          PROVE  storage'.num_recovery[e] * RECOVER_EPOCH_LENGTH <= storage'.last_recovery_block[e]
      <3>1. storage.num_recovery[e] * RECOVER_EPOCH_LENGTH <= storage.last_recovery_block[e]
        BY DEF IInv, OneRecoveryPerEpoch
      <3>2. CASE /\ storage'.num_recovery[e] = storage.num_recovery[e]
                 /\ storage.last_recovery_block[e] <= storage'.last_recovery_block[e]
        <4>1. storage.num_recovery[e] * RECOVER_EPOCH_LENGTH \in Int
          BY <1>1, StaminaConfig
        <4> QED BY <1>1, <1>2, <3>1, <3>2, <4>1
      <3>3. CASE /\ storage'.num_recovery[e] = storage.num_recovery[e] + 1
                 /\ storage.last_recovery_block[e] + RECOVER_EPOCH_LENGTH
                      <= storage'.last_recovery_block[e]
        BY <1>1, <1>2, <3>1, <3>3, EpochStep
      <3> QED BY <3>2, <3>3 DEF TxKeeps, TxKeepsAt
    <2> QED BY <2>1 DEF OneRecoveryPerEpoch
  <1>9. PreciseStep
    <2>1. ASSUME NEW e \in Delegatees,
                 storage.stamina[e] <= storage.total_deposit[e]
          PROVE  /\ storage'.stamina[e] <= storage'.total_deposit[e]
                 /\ (/\ storage'.num_recovery[e] = storage.num_recovery[e]
                     /\ storage'.total_deposit[e] = storage.total_deposit[e])
                    => storage'.stamina[e] + spent'[e] = storage.stamina[e] + spent[e]
      BY <1>0, <1>1, <1>2, <1>3, <2>1 DEF TxKeeps, TxKeepsAt
    <2> QED BY <2>1 DEF PreciseStep
  <1> QED BY <1>5, <1>6, <1>7, <1>8, <1>9

PaidStep ==
  balance'[StaminaAddress] < balance[StaminaAddress] =>
    \E a \in Accounts : \E i \in 1 .. Len(storage.withdrawal[a]) :
      LET w == storage.withdrawal[a][i] IN
      /\ ~w.processed /\ storage'.withdrawal[a][i].processed
      /\ w.requestBlockNumber + WITHDRAWAL_DELAY <= blockNumber
      /\ balance'[StaminaAddress] = balance[StaminaAddress] - w.amount

LEMMA PaidByCall ==
  ASSUME NEW s \in Storage, NEW a, NEW call \in Calls, callOK(s, a, call),
         a \in Accounts \/ call.fn = "none",
         s.withdrawal = storage.withdrawal,
         storage'.withdrawal = callEffect(s, a, call).withdrawal,
         balance[StaminaAddress] \in Nat,
         balance'[StaminaAddress] = balance[StaminaAddress] + callTransfer(s, a, call)
  PROVE  PaidStep
  <1> SUFFICES ASSUME balance'[StaminaAddress] < balance[StaminaAddress]
               PROVE  \E i \in 1 .. Len(storage.withdrawal[a]) :
                        LET w == storage.withdrawal[a][i] IN
                        /\ a \in Accounts
                        /\ ~w.processed /\ storage'.withdrawal[a][i].processed
                        /\ w.requestBlockNumber + WITHDRAWAL_DELAY <= blockNumber
                        /\ balance'[StaminaAddress] = balance[StaminaAddress] - w.amount
    BY DEF PaidStep
  <1>1. callTransfer(s, a, call) < 0 /\ call.fn = "withdraw"
    BY TransferBounds
  <1>2. a \in Accounts /\ canWithdraw(s, a) /\ callEffect(s, a, call) = withdraw(s, a)
    BY <1>1 DEF callOK, callEffect
  <1> DEFINE i == withdrawalIndex(s, a) + 1
             w == s.withdrawal[a][i]
  <1>3. /\ i \in 1 .. Len(s.withdrawal[a])
        /\ withdraw(s, a).withdrawal = [s.withdrawal EXCEPT ![a][i].processed = TRUE]
    BY <1>2, WithdrawStorage, Zenon
  <1>4. ~w.processed /\ w.requestBlockNumber + WITHDRAWAL_DELAY <= blockNumber
    BY <1>2 DEF canWithdraw
  <1>5. callTransfer(s, a, call) = -w.amount
    BY <1>1 DEF callTransfer, withdrawnAmount
  <1> HIDE DEF i
  <1>6. s.withdrawal \in [Accounts -> Seq(Withdrawal)] /\ w \in Withdrawal
    BY <1>2, <1>3, StorageFields
  <1>7. storage'.withdrawal[a][i] = [w EXCEPT !.processed = TRUE]
    <2>1. storage'.withdrawal[a] = [s.withdrawal[a] EXCEPT ![i] = [w EXCEPT !.processed = TRUE]]
      BY <1>2, <1>3, <1>6
    <2>2. s.withdrawal[a] \in Seq(Withdrawal)
      BY <1>2, <1>6
    <2> QED BY <1>3, <2>1, <2>2
  <1>8. storage'.withdrawal[a][i].processed /\ w.amount \in Nat
    BY <1>6, <1>7 DEF Withdrawal
  <1> HIDE DEF w
  <1>9. balance'[StaminaAddress] = balance[StaminaAddress] - w.amount
    BY <1>5, <1>8
  <1> QED BY <1>2, <1>3, <1>4, <1>8, <1>9 DEF w

\* What every step does to the contract, the stamina of the delegatees aside: at
\* most one call, and the ether this call moves.
ContractStep ==
  \E s \in Storage, a \in Delegatees, call \in Calls :
    /\ a \in Accounts \/ call.fn = "none"
    /\ callOK(s, a, call)
    /\ SameLedger(storage, s)
    /\ SameLedger(callEffect(s, a, call), storage')
    /\ balance'[StaminaAddress] = balance[StaminaAddress] + callTransfer(s, a, call)

LEMMA IdleContract ==
  ASSUME IInv, storage' = storage, balance'[StaminaAddress] = balance[StaminaAddress]
  PROVE  ContractStep
  <1> DEFINE call == [fn |-> "none"]
  <1>1. call \in Calls /\ call.fn = "none" /\ NullAddress \in Delegatees
    BY DEF Calls, Delegatees
  <1> HIDE DEF call
  <1>2. callOK(storage, NullAddress, call) /\ callTransfer(storage, NullAddress, call) = 0
        /\ callEffect(storage, NullAddress, call) = storage
    BY <1>1 DEF callOK, callTransfer, callEffect
  <1>3. storage \in Storage /\ balance[StaminaAddress] \in Nat
    BY DEF IInv, TypeOK
  <1>4. SameLedger(storage, storage) /\ SameLedger(storage, storage')
    BY DEF SameLedger
  <1>5. balance'[StaminaAddress] = balance[StaminaAddress] + callTransfer(storage, NullAddress, call)
    BY <1>2, <1>3
  <1> QED BY <1>1, <1>2, <1>3, <1>4, <1>5 DEF ContractStep

LEMMA ContractPaid ==
  ASSUME IInv, ContractStep
  PROVE  PaidStep
  <1>1. PICK s \in Storage, a \in Delegatees, call \in Calls :
          /\ a \in Accounts \/ call.fn = "none"
          /\ callOK(s, a, call)
          /\ SameLedger(storage, s)
          /\ SameLedger(callEffect(s, a, call), storage')
          /\ balance'[StaminaAddress] = balance[StaminaAddress] + callTransfer(s, a, call)
    BY DEF ContractStep
  <1>2. s.withdrawal = storage.withdrawal /\ storage'.withdrawal = callEffect(s, a, call).withdrawal
    BY <1>1 DEF SameLedger
  <1>3. balance[StaminaAddress] \in Nat
    BY DEF IInv, TypeOK
  <1> QED BY <1>1, <1>2, <1>3, PaidByCall, Zenon

LEMMA GasOutcomeType ==
  ASSUME NEW gas \in Nat, NEW used \in GasOutcomes(gas)
  PROVE  used \in Nat /\ used <= gas
  BY DEF GasOutcomes

\* A transaction paid with stamina, of an account or a request.
LEMMA DelegatedStep ==
  ASSUME IInv, NEW from \in Delegatees, NEW gas \in Nat, NEW price \in Nat, NEW used \in Nat,
         used <= gas, NEW call \in Calls, from \in Accounts \/ call.fn = "none",
         requests' \in Nat, DelegatedTransaction(from, gas, price, used, call)
  PROVE  IInv' /\ PreciseStep /\ ContractStep
  <1> DEFINE d      == storage.delegatee[from]
             cost   == gas * price
             fee    == used * price
             refund == (gas - used) * price
             bought == subtractStamina(storage, d, cost)
             ran    == callEffect(bought, from, call)
  <1>0. storage \in Storage /\ blockNumber \in Nat
        /\ balance \in [Delegatees \cup {StaminaAddress} -> Nat]
        /\ gasPool \in Nat /\ isRequest \in BOOLEAN
    BY DEF IInv, TypeOK
  <1>1. d \in Delegatees
    BY <1>0, StorageFields
  <1>2. cost \in Nat /\ fee \in Nat /\ refund \in Nat /\ cost = fee + refund
    BY FeeSplit
  <1>3. cost <= storage.stamina[d]
    <2>1. storage.stamina[d] \in Nat
      BY <1>0, <1>1, StorageFields
    <2> QED BY <1>2, <2>1, Zenon DEF DelegatedTransaction, paysWithStamina
  <1>4. /\ gas <= gasPool
        /\ callValue(call) <= balance[from]
        /\ callOK(bought, from, call)
        /\ storage' = addStamina(ran, d, refund)
        /\ MoveEther(from, callTransfer(bought, from, call), 0, fee)
        /\ gasPool' = gasPool - used
        /\ Remember(call, d, recovers(ran, d), fee)
        /\ blockNumber' = blockNumber /\ isRequest' = isRequest
    BY Zenon DEF DelegatedTransaction
  <1> HIDE DEF d, cost, fee, refund
  <1>5. /\ bought \in Storage
        /\ storage' \in Storage
        /\ ran \in Storage
        /\ TxKeeps(storage, storage', d, recovers(ran, d), fee, call)
    <2>1. Charged(storage, from, d, cost, fee, refund, call)
      BY <1>0, <1>1, <1>2, <1>3, <1>4, DelegatedKeeps, Zenon
    <2> QED BY <1>4, <2>1, Zenon DEF Charged
  <1> HIDE DEF bought
  <1>6. /\ callTransfer(bought, from, call) \in Int
        /\ callTransfer(bought, from, call) + 0 <= balance[from]
        /\ 0 <= balance[StaminaAddress] + callTransfer(bought, from, call)
    <2>1. balance[StaminaAddress] \in Nat /\ balance[from] \in Nat
      BY <1>0
    <2>2. /\ callTransfer(bought, from, call) \in Int /\ callValue(call) \in Nat
          /\ callTransfer(bought, from, call) <= callValue(call)
          /\ 0 <= balance[StaminaAddress] + callTransfer(bought, from, call)
      BY <1>4, <1>5, <2>1, TransferBounds, Zenon
    <2> QED BY <1>4, <2>1, <2>2
  <1>7. /\ balance' \in [Delegatees \cup {StaminaAddress} -> Nat]
        /\ balance'[StaminaAddress] = balance[StaminaAddress] + callTransfer(bought, from, call)
    BY <1>0, <1>2, <1>4, <1>6, MoveEtherType
  <1>8. ContractStep
    <2>1. SameLedger(storage, bought)
      BY <1>0, <1>1, SubtractLedger DEF bought
    <2>2. SameLedger(ran, storage')
      BY <1>1, <1>4, <1>5, AddLedger
    <2> QED BY <1>4, <1>5, <1>7, <2>1, <2>2, Zenon DEF ContractStep
  <1>9. recovers(ran, d) \in BOOLEAN
    BY DEF recovers
  <1> HIDE DEF ran
  <1>10. /\ spent' \in [Delegatees -> Nat] /\ undeposited' \in [Delegatees -> Nat]
         /\ SpendingBounded' /\ WithdrawnInOrder' /\ OneRecoveryPerEpoch'
         /\ PreciseStep
    BY <1>2, <1>4, <1>5, <1>9, TransactionKeeps, Zenon
  <1>11. gasPool' \in Nat
    BY <1>0, <1>2, <1>4
  <1>12. TypeOK'
    BY <1>0, <1>4, <1>5, <1>7, <1>10, <1>11, Zenon DEF TypeOK, Storage, Withdrawal
  <1> QED BY <1>8, <1>10, <1>12 DEF IInv

LEMMA OrdinaryStep ==
  ASSUME IInv, NEW from \in Accounts, NEW gas \in Nat, NEW price \in Nat, NEW used \in Nat,
         used <= gas, NEW call \in Calls, OrdinaryTransaction(from, gas, price, used, call)
  PROVE  IInv' /\ PreciseStep /\ ContractStep
  <1> DEFINE cost == gas * price
             fee  == used * price
             ran  == callEffect(storage, from, call)
             to   == callTransfer(storage, from, call)
  <1>0. /\ storage \in Storage /\ blockNumber \in Nat
        /\ balance \in [Delegatees \cup {StaminaAddress} -> Nat]
        /\ gasPool \in Nat /\ isRequest \in BOOLEAN
        /\ requests \in Nat
    BY DEF IInv, TypeOK
  <1>1. from \in Delegatees
    BY DEF Delegatees
  <1>2. cost \in Nat /\ fee \in Nat /\ fee <= cost
    <2>1. cost \in Nat /\ fee \in Nat /\ (gas - used) * price \in Nat
          /\ cost = fee + (gas - used) * price
      BY FeeSplit
    <2> HIDE DEF cost, fee
    <2> QED BY <2>1
  <1>3. /\ gas <= gasPool
        /\ callValue(call) <= balance[from] - cost
        /\ callOK(storage, from, call)
        /\ storage' = ran
        /\ MoveEther(from, to, fee, fee)
        /\ gasPool' = gasPool - used
        /\ Remember(call, StaminaAddress, FALSE, 0)
        /\ blockNumber' = blockNumber /\ isRequest' = isRequest
        /\ requests' = requests
    BY Zenon DEF OrdinaryTransaction
  <1> HIDE DEF cost, fee
  <1>4. storage' \in Storage
    BY <1>0, <1>3, CallStorage
  <1>5. TxKeeps(storage, storage', StaminaAddress, FALSE, 0, call)
    BY <1>0, <1>3, OrdinaryKeeps, Zenon
  <1>6. /\ spent' \in [Delegatees -> Nat] /\ undeposited' \in [Delegatees -> Nat]
        /\ SpendingBounded' /\ WithdrawnInOrder' /\ OneRecoveryPerEpoch'
        /\ PreciseStep
    <2>1. FALSE \in BOOLEAN /\ 0 \in Nat
      OBVIOUS
    <2> QED BY <1>3, <1>4, <1>5, <2>1, TransactionKeeps, Zenon
  <1>7. to \in Int /\ to + fee <= balance[from] /\ 0 <= balance[StaminaAddress] + to
    <2>1. balance[StaminaAddress] \in Nat /\ balance[from] \in Nat
      BY <1>0, <1>1
    <2>2. /\ to \in Int /\ callValue(call) \in Nat /\ to <= callValue(call)
          /\ 0 <= balance[StaminaAddress] + to
      BY <1>0, <1>3, <2>1, TransferBounds
    <2> HIDE DEF to
    <2> QED BY <1>2, <1>3, <2>1, <2>2
  <1>8. /\ balance' \in [Delegatees \cup {StaminaAddress} -> Nat]
        /\ balance'[StaminaAddress] = balance[StaminaAddress] + to
    <2> HIDE DEF to
    <2> QED BY <1>0, <1>1, <1>2, <1>3, <1>7, MoveEtherType
  <1>9. ContractStep
    <2>1. SameLedger(storage, storage) /\ SameLedger(ran, storage')
      BY <1>3 DEF SameLedger
    <2> QED BY <1>0, <1>1, <1>3, <1>8, <2>1, Zenon DEF ContractStep
  <1>10. gasPool' \in Nat
    BY <1>0, <1>3
  <1>11. TypeOK'
    BY <1>0, <1>3, <1>4, <1>6, <1>8, <1>10, Zenon DEF TypeOK, Storage, Withdrawal
  <1> QED BY <1>6, <1>9, <1>11 DEF IInv

\* The steps that leave the contract and its history alone.
LEMMA QuietStep ==
  ASSUME IInv, storage' = storage, spent' = spent, undeposited' = undeposited
  PROVE  /\ SpendingBounded' /\ WithdrawnInOrder' /\ OneRecoveryPerEpoch'
         /\ PreciseStep
  <1>1. SpendingBounded' /\ WithdrawnInOrder' /\ OneRecoveryPerEpoch'
    BY DEF IInv, SpendingBounded, WithdrawnInOrder, InOrder, OneRecoveryPerEpoch, GenesisStamina
  <1>2. PreciseStep
    BY DEF PreciseStep
  <1> QED BY <1>1, <1>2

LEMMA FreeRequestStep ==
  ASSUME IInv, NEW gas \in Nat, NEW price \in Nat, NEW used \in Nat, requests' \in Nat,
         FreeRequestTransaction(gas, price, used)
  PROVE  IInv' /\ PreciseStep /\ ContractStep
  <1>1. balance \in [Delegatees \cup {StaminaAddress} -> Nat]
    BY DEF IInv, TypeOK
  <1>2. used * price \in Nat
    BY FeeSplit
  <1>3. /\ balance' \in [Delegatees \cup {StaminaAddress} -> Nat]
        /\ balance'[StaminaAddress] = balance[StaminaAddress] + 0
    <2>1. NullAddress \in Delegatees
      BY DEF Delegatees
    <2>2. balance[StaminaAddress] \in Nat /\ balance[NullAddress] \in Nat
      BY <1>1, <2>1
    <2>3. MoveEther(NullAddress, 0, 0, used * price)
      BY DEF FreeRequestTransaction
    <2> QED BY <1>1, <1>2, <2>1, <2>2, <2>3, MoveEtherType
  <1>4. ContractStep
    <2>1. balance'[StaminaAddress] = balance[StaminaAddress] /\ storage' = storage
      BY <1>1, <1>3 DEF FreeRequestTransaction
    <2> QED BY <2>1, IdleContract
  <1>5. SpendingBounded' /\ WithdrawnInOrder' /\ OneRecoveryPerEpoch' /\ PreciseStep
    BY QuietStep DEF FreeRequestTransaction
  <1>7. TypeOK'
    BY <1>3, Zenon DEF IInv, TypeOK, FreeRequestTransaction, Storage, Withdrawal
  <1> QED BY <1>4, <1>5, <1>7 DEF IInv

LEMMA FailedStep ==
  ASSUME IInv, NEW from, NEW gas \in Nat, NEW price, NEW value,
         FailedTransaction(from, gas, price, value)
  PROVE  IInv' /\ PreciseStep /\ ContractStep
  <1>1. SpendingBounded' /\ WithdrawnInOrder' /\ OneRecoveryPerEpoch' /\ PreciseStep
    BY QuietStep DEF FailedTransaction
  <1>2. TypeOK'
    <2>1. gasPool' \in Nat
      BY DEF IInv, TypeOK, FailedTransaction
    <2>2. UNCHANGED <<storage, balance, blockNumber, isRequest, requests, spent,
                      undeposited>>
      BY DEF FailedTransaction
    <2> QED BY <2>1, <2>2, Zenon DEF IInv, TypeOK, Storage, Withdrawal
  <1>3. ContractStep
    BY IdleContract DEF FailedTransaction
  <1> QED BY <1>1, <1>2, <1>3 DEF IInv

LEMMA NextBlockStep ==
  ASSUME IInv, NextBlock
  PROVE  IInv' /\ PreciseStep /\ ContractStep
  <1>1. SpendingBounded' /\ WithdrawnInOrder' /\ OneRecoveryPerEpoch' /\ PreciseStep
    BY QuietStep DEF NextBlock
  <1>2. TypeOK'
    <2>1. blockNumber' \in Nat /\ gasPool' \in Nat /\ requests' \in Nat
          /\ isRequest' \in BOOLEAN
      BY Environment DEF IInv, TypeOK, NextBlock
    <2>2. UNCHANGED <<storage, balance, spent, undeposited>>
      BY DEF NextBlock
    <2> QED BY <2>1, <2>2, Zenon DEF IInv, TypeOK, Storage, Withdrawal
  <1>3. ContractStep
    BY IdleContract DEF NextBlock
  <1> QED BY <1>1, <1>2, <1>3 DEF IInv

-----------------------------------------------------------------------------
LEMMA InitIInv == Init => IInv
  <1> SUFFICES ASSUME Init PROVE IInv
    OBVIOUS
  <1> DEFINE g == GenesisStaminaAccount
  <1>1. \A d \in Delegatees : GenesisStamina(d) \in Nat
    BY Environment DEF GenesisStamina
  <1>2. << >> \in Seq(Withdrawal)
    OBVIOUS
  <1>3. /\ [x \in Delegatees |-> IF x = Operator THEN Operator ELSE NullAddress]
             \in [Delegatees -> Delegatees]
        /\ [d \in Delegatees |-> GenesisStamina(d)] \in [Delegatees -> Nat]
    BY <1>1, Environment DEF Delegatees
  <1>4. g \in Storage
    BY <1>2, <1>3 DEF GenesisStaminaAccount, Storage
  <1>5. /\ \A d \in Delegatees : /\ g.stamina[d] = GenesisStamina(d) /\ g.total_deposit[d] = 0
                                 /\ g.num_recovery[d] = 0 /\ g.last_recovery_block[d] = 0
        /\ \A x \in Accounts : g.withdrawal[x] = << >> /\ g.last_processed_withdrawal[x] = 0
    BY DEF GenesisStaminaAccount
  <1> HIDE DEF g
  <1>6. storage = g
    BY DEF Init, g
  <1>7. TypeOK
    <2>1. balance \in [Delegatees \cup {StaminaAddress} -> Nat]
      BY Environment DEF Init
    <2> QED BY <1>4, <1>6, <2>1, Environment, Zenon DEF Init, TypeOK
  <1>8. SpendingBounded
    <2>1. \A d \in Delegatees : spent[d] = 0 /\ undeposited[d] = 0
      BY DEF Init
    <2> QED BY <1>1, <1>5, <1>6, <2>1, SMTT(30) DEF SpendingBounded
  <1>9. WithdrawnInOrder
    BY <1>5, <1>6 DEF WithdrawnInOrder, InOrder
  <1>10. OneRecoveryPerEpoch
    BY <1>5, <1>6, StaminaConfig DEF OneRecoveryPerEpoch
  <1> QED BY <1>7, <1>8, <1>9, <1>10 DEF IInv

LEMMA NextStep ==
  ASSUME IInv, Next
  PROVE  IInv' /\ PreciseStep /\ ContractStep
  <1>0. requests \in Nat
    BY DEF IInv, TypeOK
  <1>1. CASE UserTransaction
    <2>1. PICK from \in Accounts, gas \in TxGas, price \in GasPrices :
            \/ \E call \in Calls, used \in GasOutcomes(gas) :
                 \/ DelegatedTransaction(from, gas, price, used, call) /\ UNCHANGED requests
                 \/ OrdinaryTransaction(from, gas, price, used, call)
            \/ \E value \in DepositAmounts : FailedTransaction(from, gas, price, value)
      BY <1>1 DEF UserTransaction
    <2>2. gas \in Nat /\ price \in Nat /\ from \in Delegatees
      BY Environment DEF Delegatees
    <2>3. ASSUME NEW call \in Calls, NEW used \in GasOutcomes(gas),
                 DelegatedTransaction(from, gas, price, used, call), UNCHANGED requests
          PROVE  IInv' /\ PreciseStep /\ ContractStep
      <3>1. used \in Nat /\ used <= gas
        BY <2>2, GasOutcomeType
      <3>2. requests' \in Nat
        BY <1>0, <2>3
      <3> QED BY <2>2, <2>3, <3>1, <3>2, DelegatedStep
    <2>4. ASSUME NEW call \in Calls, NEW used \in GasOutcomes(gas),
                 OrdinaryTransaction(from, gas, price, used, call)
          PROVE  IInv' /\ PreciseStep /\ ContractStep
      <3>1. used \in Nat /\ used <= gas
        BY <2>2, GasOutcomeType
      <3> QED BY <2>2, <2>4, <3>1, OrdinaryStep
    <2>5. ASSUME NEW value \in DepositAmounts, FailedTransaction(from, gas, price, value)
          PROVE  IInv' /\ PreciseStep /\ ContractStep
      BY <2>2, <2>5, FailedStep
    <2> QED BY <2>1, <2>3, <2>4, <2>5
  <1>2. CASE RequestTransaction
    <2>1. requests' \in Nat
      BY <1>0, <1>2 DEF RequestTransaction
    <2>2. RequestTxGasLimit \in Nat /\ RequestTxGasPrice \in Nat /\ IntrinsicGas \in Nat
      BY Environment
    <2>3. ASSUME NEW used \in GasOutcomes(RequestTxGasLimit),
                 DelegatedTransaction(NullAddress, RequestTxGasLimit, RequestTxGasPrice, used,
                                      [fn |-> "none"])
          PROVE  IInv' /\ PreciseStep /\ ContractStep
      <3> DEFINE call == [fn |-> "none"]
      <3>1. used \in Nat /\ used <= RequestTxGasLimit
        BY <2>2, GasOutcomeType
      <3>2. call \in Calls /\ call.fn = "none" /\ NullAddress \in Delegatees
        BY DEF Calls, Delegatees
      <3> HIDE DEF call
      <3>3. DelegatedTransaction(NullAddress, RequestTxGasLimit, RequestTxGasPrice, used, call)
        BY <2>3 DEF call
      <3> QED BY <2>1, <2>2, <3>1, <3>2, <3>3, DelegatedStep
    <2>4. ASSUME NEW used \in IntrinsicGas .. RequestTxGasLimit,
                 FreeRequestTransaction(RequestTxGasLimit, RequestTxGasPrice, used)
          PROVE  IInv' /\ PreciseStep /\ ContractStep
      <3>1. used \in Nat
        BY <2>2
      <3> QED BY <2>1, <2>2, <2>4, <3>1, FreeRequestStep
    <2> QED BY <1>2, <2>3, <2>4 DEF RequestTransaction
  <1>3. CASE NextBlock
    BY <1>3, NextBlockStep
  <1> QED BY <1>1, <1>2, <1>3 DEF Next

LEMMA Stutter == IInv /\ UNCHANGED vars => IInv'
  BY Zenon DEF IInv, vars, TypeOK, SpendingBounded, WithdrawnInOrder, InOrder, OneRecoveryPerEpoch,
         GenesisStamina, Storage, Withdrawal

\* The inductive invariant holds in every reachable state, for every set of
\* accounts, every gas price and limit, and every configuration of the contract
\* that init accepts.
THEOREM StaminaIInvThm == Spec => []IInv
  <1>1. IInv /\ [Next]_vars => IInv'
    BY NextStep, Stutter
  <1> QED BY <1>1, InitIInv, PTL DEF Spec

\* The gas that transactions pay from a delegatee's stamina between two
\* recoveries is bounded by its deposit (addStamina's cap, subtractStamina and
\* requestWithdrawal, in any order).
THEOREM SpendingBoundedThm == Spec => []SpendingBounded
  <1>1. IInv => SpendingBounded
    BY DEF IInv
  <1> QED BY <1>1, StaminaIInvThm, PTL

\* Withdrawals are processed in the order of the requests, each once (withdraw's
\* index, whose 0 is ambiguous).
THEOREM WithdrawnInOrderThm == Spec => []WithdrawnInOrder
  <1>1. IInv => WithdrawnInOrder
    BY DEF IInv
  <1> QED BY <1>1, StaminaIInvThm, PTL

\* A delegatee recovers at most once per RECOVER_EPOCH_LENGTH blocks of the
\* chain's life (addStamina's clock, which the first deposit starts).
THEOREM OneRecoveryPerEpochThm == Spec => []OneRecoveryPerEpoch
  <1>1. IInv => OneRecoveryPerEpoch
    BY DEF IInv
  <1> QED BY <1>1, StaminaIInvThm, PTL

\* A delegatee whose stamina is within its deposit is charged exactly the gas
\* used, and stays within its deposit (buyDelegateeGas, refundDelegateeGas).
THEOREM PreciseSubtractThm == Spec => PreciseSubtractWithinDeposit
  <1>1. IInv /\ [Next]_vars => [PreciseStep]_vars
    BY NextStep
  <1> QED BY <1>1, StaminaIInvThm, PTL DEF Spec, PreciseSubtractWithinDeposit, PreciseStep

\* Ether leaves the contract only for a withdrawal whose delay has passed, in
\* the amount requested (withdraw).
THEOREM PaidAfterDelayThm == Spec => PaidAfterDelay
  <1>1. IInv /\ [Next]_vars => [PaidStep]_vars
    BY NextStep, ContractPaid
  <1> QED BY <1>1, StaminaIInvThm, PTL DEF Spec, PaidAfterDelay, PaidStep
=============================================================================
