---------------------------- MODULE StaminaLedger ----------------------------
(***************************************************************************)
(* Proofs about the ledger of Stamina: the contract's ether against the    *)
(* deposits and the withdrawals it has not paid yet, for every finite set  *)
(* of accounts.                                                            *)
(***************************************************************************)
EXTENDS StaminaProofs, SumTheorems

-----------------------------------------------------------------------------
(***************************************************************************)
(* The deposits and the open withdrawals of an account, as sums.           *)
(***************************************************************************)
LEMMA FiniteParts == IsFiniteSet(Accounts) /\ IsFiniteSet(Delegatees)
  BY Environment, FS_AddElement DEF Delegatees

LEMMA HeldType ==
  ASSUME NEW f \in [Delegatees -> Nat]
  PROVE  held(f) \in Nat
  BY FiniteParts, TotalNat DEF held

LEMMA HeldChange ==
  ASSUME NEW f \in [Delegatees -> Nat], NEW h \in [Delegatees -> Nat], NEW d \in Delegatees,
         \A e \in Delegatees \ {d} : h[e] = f[e]
  PROVE  held(h) = held(f) - f[d] + h[d]
  <1>1. \A e \in Delegatees : f[e] \in Int /\ h[e] \in Int
    OBVIOUS
  <1> QED BY <1>1, FiniteParts, TotalChange DEF held

open(ws) == [i \in 1 .. Len(ws) |-> IF ws[i].processed THEN 0 ELSE ws[i].amount]

LEMMA OpenType ==
  ASSUME NEW ws \in Seq(Withdrawal)
  PROVE  /\ Len(ws) \in Nat /\ IsFiniteSet(1 .. Len(ws))
         /\ \A i \in 1 .. Len(ws) :
              open(ws)[i] \in Nat /\ open(ws)[i] = IF ws[i].processed THEN 0 ELSE ws[i].amount
         /\ owed(ws) = Total(open(ws), 1 .. Len(ws))
         /\ owed(ws) \in Nat
  <1>1. Len(ws) \in Nat
    OBVIOUS
  <1>2. IsFiniteSet(1 .. Len(ws))
    BY <1>1, FS_Interval
  <1>3. ASSUME NEW i \in 1 .. Len(ws)
        PROVE  open(ws)[i] \in Nat /\ open(ws)[i] = IF ws[i].processed THEN 0 ELSE ws[i].amount
    <2>1. ws[i] \in Withdrawal
      OBVIOUS
    <2>2. ws[i].amount \in Nat
      BY <2>1 DEF Withdrawal
    <2> QED BY <2>2 DEF open
  <1>4. owed(ws) = Total(open(ws), 1 .. Len(ws))
    BY DEF owed, open
  <1>5. owed(ws) \in Nat
    BY <1>2, <1>3, <1>4, TotalNat
  <1> QED BY <1>1, <1>2, <1>3, <1>4, <1>5

LEMMA OwedAppend ==
  ASSUME NEW ws \in Seq(Withdrawal), NEW w \in Withdrawal, ~w.processed
  PROVE  owed(Append(ws, w)) = owed(ws) + w.amount
  <1> DEFINE us == Append(ws, w)
             n  == Len(ws)
  <1>1. us \in Seq(Withdrawal) /\ Len(us) = n + 1 /\ n \in Nat /\ us[n + 1] = w
        /\ \A i \in 1 .. n : us[i] = ws[i]
    OBVIOUS
  <1> HIDE DEF us
  <1>2. 1 .. n + 1 = (1 .. n) \cup {n + 1} /\ n + 1 \notin 1 .. n
    BY <1>1
  <1>3. /\ owed(us) = Total(open(us), 1 .. n + 1) /\ owed(ws) = Total(open(ws), 1 .. n)
        /\ IsFiniteSet(1 .. n)
        /\ \A i \in 1 .. n + 1 : open(us)[i] \in Nat /\ open(us)[i] = IF us[i].processed THEN 0 ELSE us[i].amount
        /\ \A i \in 1 .. n : open(ws)[i] = IF ws[i].processed THEN 0 ELSE ws[i].amount
    BY <1>1, OpenType
  <1>4. open(us)[n + 1] = w.amount /\ \A i \in 1 .. n : open(us)[i] = open(ws)[i]
    BY <1>1, <1>2, <1>3
  <1>5. Total(open(us), (1 .. n) \cup {n + 1}) = open(us)[n + 1] + Total(open(us), 1 .. n)
    <2>1. \A i \in (1 .. n) \cup {n + 1} : open(us)[i] \in Int
      BY <1>2, <1>3
    <2> HIDE DEF n
    <2> QED BY <1>2, <1>3, <2>1, TotalAdd
  <1>6. Total(open(us), 1 .. n) = Total(open(ws), 1 .. n)
    <2> HIDE DEF n
    <2> QED BY <1>3, <1>4, TotalSame
  <1>7. owed(ws) \in Nat /\ w.amount \in Nat
    BY OpenType DEF Withdrawal
  <1>8. owed(us) = w.amount + owed(ws)
    BY <1>2, <1>3, <1>4, <1>5, <1>6
  <1> QED BY <1>7, <1>8 DEF us

LEMMA OwedProcessed ==
  ASSUME NEW ws \in Seq(Withdrawal), NEW us \in Seq(Withdrawal), NEW i \in 1 .. Len(ws),
         Len(us) = Len(ws), ~ws[i].processed, us[i].processed,
         \A j \in 1 .. Len(ws) : j # i => us[j] = ws[j]
  PROVE  owed(us) = owed(ws) - ws[i].amount
  <1> DEFINE n == Len(ws)
  <1>1. /\ owed(us) = Total(open(us), 1 .. n) /\ owed(ws) = Total(open(ws), 1 .. n)
        /\ IsFiniteSet(1 .. n) /\ n \in Nat
        /\ \A j \in 1 .. n : open(us)[j] \in Nat /\ open(us)[j] = IF us[j].processed THEN 0 ELSE us[j].amount
        /\ \A j \in 1 .. n : open(ws)[j] \in Nat /\ open(ws)[j] = IF ws[j].processed THEN 0 ELSE ws[j].amount
    BY OpenType
  <1>2. /\ open(us)[i] = 0 /\ open(ws)[i] = ws[i].amount
        /\ \A j \in (1 .. n) \ {i} : open(us)[j] = open(ws)[j]
    BY <1>1
  <1>3. \A j \in 1 .. n : open(ws)[j] \in Int /\ open(us)[j] \in Int
    BY <1>1
  <1>4. i \in 1 .. n
    OBVIOUS
  <1> HIDE DEF n
  <1>5. Total(open(us), 1 .. n) = Total(open(ws), 1 .. n) - open(ws)[i] + open(us)[i]
    <2>1. PICK f, h, S, x : f = open(ws) /\ h = open(us) /\ S = 1 .. n /\ x = i
      OBVIOUS
    <2>2. IsFiniteSet(S) /\ x \in S
      BY <1>1, <1>4, <2>1, Zenon
    <2>3. \A j \in S : f[j] \in Int /\ h[j] \in Int
      BY <1>3, <2>1, Zenon
    <2>4. \A j \in S \ {x} : h[j] = f[j]
      BY <1>2, <2>1, Zenon
    <2>5. Total(h, S) = Total(f, S) - f[x] + h[x]
      BY <2>2, <2>3, <2>4, TotalChange
    <2> QED BY <2>1, <2>5, Zenon
  <1>6. owed(ws) \in Nat /\ ws[i].amount \in Nat
    BY <1>1, <1>2, <1>4, OpenType
  <1> QED BY <1>1, <1>2, <1>5, <1>6

-----------------------------------------------------------------------------
(***************************************************************************)
(* What the contract owes to an account and to all, and the deposits made  *)
(* for a delegatee.                                                        *)
(***************************************************************************)
Liability(s, a) == held(s.deposit[a]) + owed(s.withdrawal[a])
Liabilities(s) == Total([a \in Accounts |-> held(s.deposit[a]) + owed(s.withdrawal[a])], Accounts)
DepositsFor(s, d) == Total([a \in Accounts |-> s.deposit[a][d]], Accounts)
TotalsAdd(s) == \A d \in Delegatees : s.total_deposit[d] = DepositsFor(s, d)

LEMMA LiabilityType ==
  ASSUME NEW s \in Storage
  PROVE  /\ \A a \in Accounts : /\ held(s.deposit[a]) \in Nat /\ owed(s.withdrawal[a]) \in Nat
                                /\ Liability(s, a) \in Nat
         /\ Liabilities(s) \in Nat
  <1>1. ASSUME NEW a \in Accounts
        PROVE  held(s.deposit[a]) \in Nat /\ owed(s.withdrawal[a]) \in Nat
    <2>1. s.deposit[a] \in [Delegatees -> Nat] /\ s.withdrawal[a] \in Seq(Withdrawal)
      BY StorageFields
    <2> QED BY <2>1, HeldType, OpenType
  <1>2. \A a \in Accounts : Liability(s, a) \in Nat
    BY <1>1 DEF Liability
  <1> DEFINE f == [a \in Accounts |-> held(s.deposit[a]) + owed(s.withdrawal[a])]
  <1>3. \A a \in Accounts : f[a] \in Nat
    BY <1>1
  <1> HIDE DEF f
  <1>4. Total(f, Accounts) \in Nat
    BY <1>3, FiniteParts, TotalNat
  <1> QED BY <1>1, <1>2, <1>4 DEF f, Liabilities

LEMMA LiabilitiesChange ==
  ASSUME NEW s \in Storage, NEW t \in Storage, NEW a \in Accounts,
         \A b \in Accounts \ {a} : t.deposit[b] = s.deposit[b] /\ t.withdrawal[b] = s.withdrawal[b]
  PROVE  Liabilities(t) = Liabilities(s) - Liability(s, a) + Liability(t, a)
  <1> DEFINE f == [b \in Accounts |-> held(s.deposit[b]) + owed(s.withdrawal[b])]
             h == [b \in Accounts |-> held(t.deposit[b]) + owed(t.withdrawal[b])]
  <1>1. \A b \in Accounts : f[b] = Liability(s, b) /\ h[b] = Liability(t, b)
    BY DEF Liability
  <1>2. \A b \in Accounts \ {a} : h[b] = f[b]
    OBVIOUS
  <1>3. Liabilities(s) = Total(f, Accounts) /\ Liabilities(t) = Total(h, Accounts)
    BY DEF Liabilities
  <1> HIDE DEF f, h
  <1>4. \A b \in Accounts : f[b] \in Int /\ h[b] \in Int
    BY <1>1, LiabilityType
  <1>5. Total(h, Accounts) = Total(f, Accounts) - f[a] + h[a]
    BY <1>2, <1>4, FiniteParts, TotalChange
  <1> QED BY <1>1, <1>3, <1>5, Zenon

LEMMA DepositsForChange ==
  ASSUME NEW s \in Storage, NEW t \in Storage, NEW a \in Accounts, NEW d \in Delegatees,
         \A b \in Accounts \ {a} : t.deposit[b][d] = s.deposit[b][d]
  PROVE  /\ DepositsFor(s, d) \in Nat
         /\ DepositsFor(t, d) = DepositsFor(s, d) - s.deposit[a][d] + t.deposit[a][d]
  <1> DEFINE f == [b \in Accounts |-> s.deposit[b][d]]
             h == [b \in Accounts |-> t.deposit[b][d]]
  <1>1. \A b \in Accounts : f[b] = s.deposit[b][d] /\ h[b] = t.deposit[b][d]
    OBVIOUS
  <1>2. \A b \in Accounts \ {a} : h[b] = f[b]
    OBVIOUS
  <1>3. DepositsFor(s, d) = Total(f, Accounts) /\ DepositsFor(t, d) = Total(h, Accounts)
    BY DEF DepositsFor
  <1> HIDE DEF f, h
  <1>4. \A b \in Accounts : f[b] \in Nat /\ h[b] \in Nat
    BY <1>1, StorageFields
  <1>5. \A b \in Accounts : f[b] \in Int /\ h[b] \in Int
    BY <1>4
  <1>6. Total(h, Accounts) = Total(f, Accounts) - f[a] + h[a]
    BY <1>2, <1>5, FiniteParts, TotalChange
  <1>7. Total(f, Accounts) \in Nat
    BY <1>4, FiniteParts, TotalNat
  <1> QED BY <1>1, <1>3, <1>6, <1>7, Zenon

LEMMA SameLedgerTotals ==
  ASSUME NEW s \in Storage, NEW t \in Storage, SameLedger(s, t)
  PROVE  Liabilities(t) = Liabilities(s) /\ (TotalsAdd(s) => TotalsAdd(t))
  BY DEF SameLedger, Liabilities, TotalsAdd, DepositsFor

\* No amount asked back is cut to the 128 bits of a withdrawal.
Fits == \A x \in Amounts : x < UINT128

\* From s to t the contract received x and its liabilities grew by as much, or by
\* less where an amount was cut.
Settles(s, t, x) ==
  /\ TotalsAdd(s) => TotalsAdd(t)
  /\ Liabilities(t) <= Liabilities(s) + x
  /\ Fits => Liabilities(t) = Liabilities(s) + x

LEMMA DepositSettles ==
  ASSUME NEW s \in Storage, NEW a \in Accounts, NEW d \in Delegatees, NEW v \in Nat,
         NEW t \in Storage, t = deposit(s, a, d, v)
  PROVE  Settles(s, t, v)
  <1>1. /\ t.deposit = [s.deposit EXCEPT ![a][d] = @ + v]
        /\ t.total_deposit = [s.total_deposit EXCEPT ![d] = @ + v]
        /\ t.withdrawal = s.withdrawal
    BY DepositLedger
  <1>2. s.deposit \in [Accounts -> [Delegatees -> Nat]] /\ t.deposit \in [Accounts -> [Delegatees -> Nat]]
        /\ s.total_deposit \in [Delegatees -> Nat]
    BY StorageFields
  <1>3. /\ \A b \in Accounts \ {a} : t.deposit[b] = s.deposit[b]
        /\ \A e \in Delegatees \ {d} : t.deposit[a][e] = s.deposit[a][e]
        /\ t.deposit[a][d] = s.deposit[a][d] + v
    BY <1>1, <1>2
  <1>4. held(t.deposit[a]) = held(s.deposit[a]) + v
    <2>1. PICK f, h : f = s.deposit[a] /\ h = t.deposit[a]
      OBVIOUS
    <2>2. f \in [Delegatees -> Nat] /\ h \in [Delegatees -> Nat]
      BY <1>2, <2>1
    <2>3. h[d] = f[d] + v /\ \A e \in Delegatees \ {d} : h[e] = f[e]
      BY <1>3, <2>1
    <2>4. held(h) = held(f) - f[d] + h[d]
      BY <2>2, <2>3, HeldChange
    <2>5. held(f) \in Nat /\ f[d] \in Nat
      BY <2>2, HeldType
    <2> QED BY <2>1, <2>3, <2>4, <2>5
  <1>5. Liabilities(t) = Liabilities(s) - Liability(s, a) + Liability(t, a)
    <2>1. \A b \in Accounts \ {a} : t.deposit[b] = s.deposit[b] /\ t.withdrawal[b] = s.withdrawal[b]
      BY <1>1, <1>3, Zenon
    <2> QED BY <2>1, LiabilitiesChange
  <1>6. Liabilities(t) = Liabilities(s) + v
    BY <1>1, <1>4, <1>5, LiabilityType DEF Liability
  <1>7. ASSUME TotalsAdd(s), NEW e \in Delegatees
        PROVE  t.total_deposit[e] = DepositsFor(t, e)
    <2>1. s.total_deposit[e] = DepositsFor(s, e)
      BY <1>7 DEF TotalsAdd
    <2>2. /\ DepositsFor(s, e) \in Nat
          /\ DepositsFor(t, e) = DepositsFor(s, e) - s.deposit[a][e] + t.deposit[a][e]
      BY <1>3, DepositsForChange
    <2>3. s.deposit[a][e] \in Nat /\ s.total_deposit[e] \in Nat
      BY <1>2
    <2>4. CASE e = d
      <3>1. t.total_deposit[e] = s.total_deposit[e] + v /\ t.deposit[a][e] = s.deposit[a][e] + v
        BY <1>1, <1>2, <1>3, <2>4
      <3> QED BY <2>1, <2>2, <2>3, <3>1
    <2>5. CASE e # d
      <3>1. t.total_deposit[e] = s.total_deposit[e] /\ t.deposit[a][e] = s.deposit[a][e]
        BY <1>1, <1>2, <1>3, <2>5
      <3> QED BY <2>1, <2>2, <2>3, <3>1
    <2> QED BY <2>4, <2>5
  <1>8. Liabilities(s) \in Nat
    BY LiabilityType
  <1> QED BY <1>6, <1>7, <1>8 DEF Settles, TotalsAdd

LEMMA RequestSettles ==
  ASSUME NEW s \in Storage, NEW a \in Accounts, NEW d \in Delegatees, NEW v \in Amounts,
         blockNumber \in Nat, canRequestWithdrawal(s, a, d, v),
         NEW t \in Storage, t = requestWithdrawal(s, a, d, v)
  PROVE  Settles(s, t, 0)
  <1>0. v \in Nat
    BY Environment
  <1>1. /\ t.deposit = [s.deposit EXCEPT ![a][d] = @ - v]
        /\ t.total_deposit = [s.total_deposit EXCEPT ![d] = @ - v]
        /\ t.withdrawal = [s.withdrawal EXCEPT ![a] = Append(@, newWithdrawal(d, v))]
    <2>1. /\ t.deposit = [s.deposit EXCEPT ![a][d] = @ - v]
          /\ t.total_deposit = [s.total_deposit EXCEPT ![d] = @ - v]
          /\ t.withdrawal = Queued(s.withdrawal, a, newWithdrawal(d, v))
      BY <1>0, RequestLedger
    <2> QED BY <2>1, Zenon DEF Queued
  <1>2. /\ s.deposit \in [Accounts -> [Delegatees -> Nat]] /\ t.deposit \in [Accounts -> [Delegatees -> Nat]]
        /\ s.total_deposit \in [Delegatees -> Nat]
        /\ s.withdrawal \in [Accounts -> Seq(Withdrawal)]
    BY StorageFields
  <1>3. /\ \A b \in Accounts \ {a} : t.deposit[b] = s.deposit[b]
        /\ \A e \in Delegatees \ {d} : t.deposit[a][e] = s.deposit[a][e]
        /\ t.deposit[a][d] = s.deposit[a][d] - v
    BY <1>0, <1>1, <1>2
  <1>4. held(t.deposit[a]) = held(s.deposit[a]) - v
    <2>1. PICK f, h : f = s.deposit[a] /\ h = t.deposit[a]
      OBVIOUS
    <2>2. f \in [Delegatees -> Nat] /\ h \in [Delegatees -> Nat]
      BY <1>2, <2>1
    <2>3. h[d] = f[d] - v /\ \A e \in Delegatees \ {d} : h[e] = f[e]
      BY <1>3, <2>1
    <2>4. held(h) = held(f) - f[d] + h[d]
      BY <2>2, <2>3, HeldChange
    <2>5. held(f) \in Nat /\ f[d] \in Nat
      BY <2>2, HeldType
    <2> QED BY <1>0, <2>1, <2>3, <2>4, <2>5
  <1>5. /\ \A b \in Accounts \ {a} : t.withdrawal[b] = s.withdrawal[b]
        /\ owed(t.withdrawal[a]) = owed(s.withdrawal[a]) + (v % UINT128)
    <2>1. PICK w : w = newWithdrawal(d, v)
      OBVIOUS
    <2>2. w \in Withdrawal /\ ~w.processed
      BY <1>0, <2>1, NewWithdrawalType
    <2>3. w.amount = v % UINT128
      BY <2>1 DEF newWithdrawal
    <2>4. /\ \A b \in Accounts \ {a} : t.withdrawal[b] = s.withdrawal[b]
          /\ t.withdrawal[a] = Append(s.withdrawal[a], w)
      BY <1>1, <1>2, <2>1, Zenon
    <2>5. s.withdrawal[a] \in Seq(Withdrawal)
      BY <1>2
    <2>6. owed(Append(s.withdrawal[a], w)) = owed(s.withdrawal[a]) + w.amount
      BY <2>2, <2>5, OwedAppend
    <2> QED BY <2>3, <2>4, <2>6, Zenon
  <1>6. Liabilities(t) = Liabilities(s) - Liability(s, a) + Liability(t, a)
    <2>1. \A b \in Accounts \ {a} : t.deposit[b] = s.deposit[b] /\ t.withdrawal[b] = s.withdrawal[b]
      BY <1>3, <1>5, Zenon
    <2> QED BY <2>1, LiabilitiesChange
  <1>7. v % UINT128 \in Nat /\ v % UINT128 <= v /\ (v < UINT128 => v % UINT128 = v)
    <2>1. UINT128 \in Nat /\ UINT128 > 0
      BY Environment
    <2> QED BY <1>0, <2>1
  <1>8. Liabilities(t) = Liabilities(s) - v + (v % UINT128)
    <2>1. /\ held(s.deposit[a]) \in Nat /\ owed(s.withdrawal[a]) \in Nat
          /\ Liabilities(s) \in Nat
      BY LiabilityType
    <2>2. PICK m : m = v % UINT128
      OBVIOUS
    <2>3. m \in Nat /\ owed(t.withdrawal[a]) = owed(s.withdrawal[a]) + m
      BY <1>5, <1>7, <2>2
    <2>4. Liabilities(t) = Liabilities(s) - v + m
      BY <1>0, <1>4, <1>6, <2>1, <2>3 DEF Liability
    <2> QED BY <2>2, <2>4
  <1>9. ASSUME TotalsAdd(s), NEW e \in Delegatees
        PROVE  t.total_deposit[e] = DepositsFor(t, e)
    <2>1. s.total_deposit[e] = DepositsFor(s, e)
      BY <1>9 DEF TotalsAdd
    <2>2. /\ DepositsFor(s, e) \in Nat
          /\ DepositsFor(t, e) = DepositsFor(s, e) - s.deposit[a][e] + t.deposit[a][e]
      BY <1>3, DepositsForChange
    <2>3. s.deposit[a][e] \in Nat /\ s.total_deposit[e] \in Nat
      BY <1>2
    <2>4. CASE e = d
      <3>1. t.total_deposit[e] = s.total_deposit[e] - v /\ t.deposit[a][e] = s.deposit[a][e] - v
        BY <1>1, <1>2, <1>3, <2>4
      <3> QED BY <1>0, <2>1, <2>2, <2>3, <3>1
    <2>5. CASE e # d
      <3>1. t.total_deposit[e] = s.total_deposit[e] /\ t.deposit[a][e] = s.deposit[a][e]
        BY <1>1, <1>2, <1>3, <2>5
      <3> QED BY <2>1, <2>2, <2>3, <3>1
    <2> QED BY <2>4, <2>5
  <1>10. Liabilities(t) <= Liabilities(s) + 0 /\ (Fits => Liabilities(t) = Liabilities(s) + 0)
    <2>1. Liabilities(s) \in Nat
      BY LiabilityType
    <2>2. PICK m : m = v % UINT128
      OBVIOUS
    <2>3. m \in Nat /\ m <= v /\ (Fits => m = v)
      BY <1>7, <2>2 DEF Fits
    <2>4. Liabilities(t) = Liabilities(s) - v + m
      BY <1>8, <2>2
    <2> QED BY <1>0, <2>1, <2>3, <2>4
  <1> QED BY <1>9, <1>10 DEF Settles, TotalsAdd

LEMMA WithdrawSettles ==
  ASSUME NEW s \in Storage, NEW a \in Accounts, canWithdraw(s, a),
         NEW t \in Storage, t = withdraw(s, a)
  PROVE  Settles(s, t, -withdrawnAmount(s, a))
  <1> DEFINE i  == withdrawalIndex(s, a) + 1
             ws == s.withdrawal[a]
             us == t.withdrawal[a]
  <1>1. /\ i \in 1 .. Len(ws)
        /\ t.withdrawal = [s.withdrawal EXCEPT ![a][i].processed = TRUE]
        /\ t.total_deposit = s.total_deposit
    BY WithdrawStorage, Zenon
  <1>2. t.deposit = s.deposit
    BY WithdrawLedger
  <1>3. ~ws[i].processed /\ withdrawnAmount(s, a) = ws[i].amount
    BY DEF canWithdraw, withdrawnAmount
  <1>4. s.withdrawal \in [Accounts -> Seq(Withdrawal)] /\ t.withdrawal \in [Accounts -> Seq(Withdrawal)]
    BY StorageFields
  <1> HIDE DEF i
  <1>5. us = [ws EXCEPT ![i] = [ws[i] EXCEPT !.processed = TRUE]]
        /\ \A b \in Accounts \ {a} : t.withdrawal[b] = s.withdrawal[b]
    BY <1>1, <1>4
  <1>6. ws \in Seq(Withdrawal) /\ us \in Seq(Withdrawal)
    BY <1>4
  <1>7. ws[i] \in Withdrawal
    BY <1>1, <1>6
  <1>8. Len(us) = Len(ws) /\ us[i] = [ws[i] EXCEPT !.processed = TRUE]
        /\ \A j \in 1 .. Len(ws) : j # i => us[j] = ws[j]
    <2> HIDE DEF ws, us
    <2>1. PICK w : w = [ws[i] EXCEPT !.processed = TRUE]
      OBVIOUS
    <2>2. us = [ws EXCEPT ![i] = w]
      BY <1>5, <2>1, Zenon
    <2>3. Len(us) = Len(ws) /\ us[i] = w /\ \A j \in 1 .. Len(ws) : j # i => us[j] = ws[j]
      BY <1>1, <1>6, <2>2
    <2> QED BY <2>1, <2>3, Zenon
  <1>9. us[i].processed
    BY <1>7, <1>8 DEF Withdrawal
  <1>10. owed(us) = owed(ws) - ws[i].amount
    <2> HIDE DEF ws, us
    <2> QED BY <1>1, <1>3, <1>6, <1>8, <1>9, OwedProcessed
  <1>11. Liabilities(t) = Liabilities(s) - Liability(s, a) + Liability(t, a)
    <2>1. \A b \in Accounts \ {a} : t.deposit[b] = s.deposit[b] /\ t.withdrawal[b] = s.withdrawal[b]
      BY <1>2, <1>5, Zenon
    <2> QED BY <2>1, LiabilitiesChange
  <1>12. ws[i].amount \in Nat
    BY <1>7 DEF Withdrawal
  <1>13. Liabilities(t) = Liabilities(s) - ws[i].amount
    <2>1. /\ held(s.deposit[a]) \in Nat /\ owed(s.withdrawal[a]) \in Nat
          /\ Liabilities(s) \in Nat
      BY LiabilityType
    <2>2. PICK m : m = ws[i].amount
      OBVIOUS
    <2>3. owed(t.withdrawal[a]) = owed(s.withdrawal[a]) - m /\ m \in Nat
      BY <1>10, <1>12, <2>2
    <2>4. Liabilities(t) = Liabilities(s) - m
      BY <1>2, <1>11, <2>1, <2>3 DEF Liability
    <2> QED BY <2>2, <2>4
  <1>14. TotalsAdd(s) => TotalsAdd(t)
    BY <1>1, <1>2 DEF TotalsAdd, DepositsFor
  <1>15. Liabilities(s) \in Nat
    BY LiabilityType
  <1> HIDE DEF ws
  <1> QED BY <1>3, <1>12, <1>13, <1>14, <1>15 DEF Settles

LEMMA CallSettles ==
  ASSUME NEW s \in Storage, NEW a, NEW call \in Calls, blockNumber \in Nat,
         a \in Accounts \/ call.fn = "none", callOK(s, a, call)
  PROVE  /\ callEffect(s, a, call) \in Storage
         /\ Settles(s, callEffect(s, a, call), callTransfer(s, a, call))
  <1> DEFINE t == callEffect(s, a, call)
             x == callTransfer(s, a, call)
  <1>0. Liabilities(s) \in Nat
    BY LiabilityType
  <1>1. CASE call.fn = "none"
    <2>1. t = s /\ x = 0
      BY <1>1 DEF callEffect, callTransfer
    <2> QED BY <1>0, <2>1 DEF Settles
  <1>2. CASE call.fn # "none"
    <2>0. a \in Accounts
      BY <1>2
    <2>1. t \in Storage
      BY <2>0, CallStorage
    <2>2. CASE call.fn = "setDelegator"
      <3>1. t = setDelegator(s, a, call.delegator) /\ x = 0
        BY <2>2 DEF callEffect, callTransfer
      <3>2. SameLedger(s, t)
        BY <3>1, SetDelegatorLedger
      <3> HIDE DEF t, x
      <3>3. Liabilities(t) = Liabilities(s) /\ (TotalsAdd(s) => TotalsAdd(t))
        BY <2>1, <3>2, SameLedgerTotals
      <3>4. Settles(s, t, x)
        BY <1>0, <3>1, <3>3 DEF Settles
      <3> QED BY <2>1, <3>4 DEF t, x
    <2>3. CASE call.fn = "deposit"
      <3>1. t = deposit(s, a, call.delegatee, call.amount) /\ x = call.amount
        BY <2>3 DEF callEffect, callTransfer
      <3>2. call.delegatee \in Delegatees /\ call.amount \in Nat
        BY <2>3, CallFields
      <3> HIDE DEF t, x
      <3>3. Settles(s, t, x)
        BY <2>0, <2>1, <3>1, <3>2, DepositSettles
      <3> QED BY <2>1, <3>3 DEF t, x
    <2>4. CASE call.fn = "requestWithdrawal"
      <3>1. t = requestWithdrawal(s, a, call.delegatee, call.amount) /\ x = 0
        BY <2>4 DEF callEffect, callTransfer
      <3>2. call.delegatee \in Delegatees /\ call.amount \in Amounts
        BY <2>4, Environment DEF Calls
      <3>3. canRequestWithdrawal(s, a, call.delegatee, call.amount)
        BY <2>4 DEF callOK
      <3> HIDE DEF t, x
      <3>4. Settles(s, t, x)
        BY <2>0, <2>1, <3>1, <3>2, <3>3, RequestSettles
      <3> QED BY <2>1, <3>4 DEF t, x
    <2>5. CASE call.fn = "withdraw"
      <3>1. t = withdraw(s, a) /\ x = -withdrawnAmount(s, a) /\ canWithdraw(s, a)
        BY <2>5 DEF callEffect, callTransfer, callOK
      <3> HIDE DEF t, x
      <3>2. Settles(s, t, x)
        BY <2>0, <2>1, <3>1, WithdrawSettles
      <3> QED BY <2>1, <3>2 DEF t, x
    <2> QED BY <1>2, <2>2, <2>3, <2>4, <2>5 DEF Calls
  <1> QED BY <1>1, <1>2

-----------------------------------------------------------------------------
(***************************************************************************)
(* The contract can pay what it owes.                                      *)
(***************************************************************************)
\* The contract holds at least what it owes, and exactly that when no request is
\* cut to the width of a withdrawal's amount.
Backed ==
  /\ TotalsAdd(storage)
  /\ Liabilities(storage) <= balance[StaminaAddress]
  /\ Fits => balance[StaminaAddress] = Liabilities(storage)

LEMMA InitBacked == Init => Backed
  <1> SUFFICES ASSUME Init PROVE Backed
    OBVIOUS
  <1>1. /\ storage.deposit = [a \in Accounts |-> [d \in Delegatees |-> 0]]
        /\ storage.withdrawal = [a \in Accounts |-> << >>]
        /\ storage.total_deposit = [d \in Delegatees |-> 0]
        /\ balance[StaminaAddress] = 0
    BY Environment DEF Init, GenesisStaminaAccount, Delegatees
  <1>2. ASSUME NEW a \in Accounts
        PROVE  held(storage.deposit[a]) + owed(storage.withdrawal[a]) = 0
    <2>1. held(storage.deposit[a]) = 0
      <3> DEFINE f == [d \in Delegatees |-> 0]
      <3>1. \A d \in Delegatees : f[d] = 0
        OBVIOUS
      <3> HIDE DEF f
      <3>2. Total(f, Delegatees) = 0
        BY <3>1, FiniteParts, TotalZero
      <3> QED BY <1>1, <3>2 DEF held, f
    <2>2. owed(storage.withdrawal[a]) = 0
      <3> DEFINE ws == storage.withdrawal[a]
                 f  == [j \in 1 .. Len(ws) |-> IF ws[j].processed THEN 0 ELSE ws[j].amount]
      <3>1. Len(ws) = 0
        BY <1>1
      <3>2. 1 .. Len(ws) = {}
        BY <3>1
      <3> HIDE DEF f
      <3>3. Total(f, {}) = 0
        BY TotalEmpty
      <3> QED BY <3>2, <3>3 DEF owed, f
    <2> QED BY <2>1, <2>2
  <1>3. Liabilities(storage) = 0
    <2> DEFINE f == [a \in Accounts |-> held(storage.deposit[a]) + owed(storage.withdrawal[a])]
    <2>1. \A a \in Accounts : f[a] = 0
      BY <1>2
    <2> HIDE DEF f
    <2>2. Total(f, Accounts) = 0
      BY <2>1, FiniteParts, TotalZero
    <2> QED BY <2>2 DEF f, Liabilities
  <1>4. TotalsAdd(storage)
    <2>1. ASSUME NEW d \in Delegatees
          PROVE  storage.total_deposit[d] = DepositsFor(storage, d)
      <3> DEFINE f == [a \in Accounts |-> storage.deposit[a][d]]
      <3>1. \A a \in Accounts : f[a] = 0
        BY <1>1
      <3> HIDE DEF f
      <3>2. Total(f, Accounts) = 0
        BY <3>1, FiniteParts, TotalZero
      <3> QED BY <1>1, <3>2 DEF f, DepositsFor
    <2> QED BY <2>1 DEF TotalsAdd
  <1> QED BY <1>1, <1>3, <1>4 DEF Backed

LEMMA ContractBacked ==
  ASSUME IInv, Backed, IInv', ContractStep
  PROVE  Backed'
  <1>1. PICK s \in Storage, a \in Delegatees, call \in Calls :
          /\ a \in Accounts \/ call.fn = "none"
          /\ callOK(s, a, call)
          /\ SameLedger(storage, s)
          /\ SameLedger(callEffect(s, a, call), storage')
          /\ balance'[StaminaAddress] = balance[StaminaAddress] + callTransfer(s, a, call)
    BY DEF ContractStep
  <1>2. /\ storage \in Storage /\ blockNumber \in Nat /\ balance[StaminaAddress] \in Nat
        /\ balance'[StaminaAddress] \in Nat
    BY DEF IInv, TypeOK
  <1>3. storage' \in Storage
    BY Zenon DEF IInv, TypeOK, Storage, Withdrawal
  <1>4. PICK r, x, u : /\ r = callEffect(s, a, call) /\ x = callTransfer(s, a, call)
                       /\ u = storage'
    OBVIOUS
  <1>5. r \in Storage /\ Settles(s, r, x)
    BY <1>1, <1>2, <1>4, CallSettles, Zenon
  <1>6. /\ Liabilities(s) = Liabilities(storage)
        /\ TotalsAdd(storage) => TotalsAdd(s)
    BY <1>1, <1>2, SameLedgerTotals
  <1>7. u \in Storage /\ SameLedger(r, u)
    BY <1>1, <1>3, <1>4
  <1>8. Liabilities(u) = Liabilities(r) /\ (TotalsAdd(r) => TotalsAdd(u))
    BY <1>5, <1>7, SameLedgerTotals
  <1>9. x \in Int
    BY <1>1, <1>2, <1>4, TransferBounds, Zenon
  <1>10. Liabilities(s) \in Nat /\ Liabilities(r) \in Nat
    BY <1>5, LiabilityType
  <1>11. TotalsAdd(u)
    BY <1>5, <1>6, <1>8 DEF Backed, Settles
  <1>12. balance'[StaminaAddress] = balance[StaminaAddress] + x
    BY <1>1, <1>4
  <1>13. Liabilities(u) <= balance'[StaminaAddress]
    BY <1>2, <1>5, <1>6, <1>8, <1>9, <1>10, <1>12 DEF Backed, Settles
  <1>14. Fits => balance'[StaminaAddress] = Liabilities(u)
    BY <1>2, <1>5, <1>6, <1>8, <1>9, <1>10, <1>12 DEF Backed, Settles
  <1>15. TotalsAdd(storage)' /\ Liabilities(storage)' = Liabilities(u)
    BY <1>4, <1>11 DEF TotalsAdd, DepositsFor, Liabilities, held, owed
  <1> QED BY <1>13, <1>14, <1>15 DEF Backed, Fits

\* In every reachable state the contract holds at least the ether it owes, for
\* any amounts asked back.
THEOREM BackedThm == Spec => []Backed
  <1>1. IInv /\ Backed /\ IInv' /\ [Next]_vars => Backed'
    <2>1. CASE Next
      BY <2>1, NextStep, ContractBacked
    <2>2. CASE UNCHANGED vars
      BY <2>2 DEF vars, Backed, Fits, TotalsAdd, DepositsFor, Liabilities, held, owed
    <2> QED BY <2>1, <2>2
  <1> QED BY <1>1, InitBacked, StaminaIInvThm, PTL DEF Spec

\* The ether of the contract is the deposits and the withdrawals still open, and
\* the totals per delegatee add up, when every amount asked back fits in the 128
\* bits in which requestWithdrawal stores it (deposit, requestWithdrawal,
\* withdraw and the payment of gas, in any order).
THEOREM DepositsBackedThm ==
  ASSUME \A x \in Amounts : x < UINT128
  PROVE  Spec => []DepositsBacked
  <1>1. Fits
    BY DEF Fits
  <1>2. Backed => DepositsBacked
    BY <1>1 DEF Backed, DepositsBacked, Liabilities, TotalsAdd, DepositsFor
  <1> QED BY <1>2, BackedThm, PTL

\* What the contract owes to one account for one request is within what it owes.
LEMMA OpenIsCovered ==
  ASSUME IInv, Backed, NEW a \in Accounts, NEW i \in 1 .. Len(storage.withdrawal[a]),
         ~storage.withdrawal[a][i].processed
  PROVE  storage.withdrawal[a][i].amount <= balance[StaminaAddress]
  <1> DEFINE ws == storage.withdrawal[a]
             w  == ws[i].amount
  <1>1. storage \in Storage /\ balance[StaminaAddress] \in Nat
    BY DEF IInv, TypeOK
  <1>2. ws \in Seq(Withdrawal)
    BY <1>1, StorageFields
  <1>3. /\ IsFiniteSet(1 .. Len(ws)) /\ owed(ws) = Total(open(ws), 1 .. Len(ws))
        /\ owed(ws) \in Nat /\ open(ws)[i] = w /\ w \in Nat
        /\ \A j \in 1 .. Len(ws) : open(ws)[j] \in Nat
    BY <1>2, OpenType
  <1>4. w <= owed(ws)
    <2>1. PICK f, S, x : f = open(ws) /\ S = 1 .. Len(ws) /\ x = i
      OBVIOUS
    <2>2. IsFiniteSet(S) /\ x \in S /\ \A j \in S : f[j] \in Nat
      BY <1>3, <2>1, Zenon
    <2>3. f[x] <= Total(f, S)
      BY <2>2, TotalMember
    <2> QED BY <1>3, <2>1, <2>3, Zenon
  <1>5. owed(ws) <= Liability(storage, a)
    BY <1>1, <1>3, LiabilityType DEF Liability
  <1>6. Liability(storage, a) <= Liabilities(storage)
    <2> DEFINE f == [b \in Accounts |-> held(storage.deposit[b]) + owed(storage.withdrawal[b])]
    <2>1. \A b \in Accounts : f[b] = Liability(storage, b)
      BY DEF Liability
    <2>2. Liabilities(storage) = Total(f, Accounts)
      BY DEF Liabilities
    <2> HIDE DEF f
    <2>3. \A b \in Accounts : f[b] \in Nat
      BY <1>1, <2>1, LiabilityType
    <2>4. f[a] <= Total(f, Accounts)
      BY <2>3, FiniteParts, TotalMember
    <2> QED BY <2>1, <2>2, <2>4, Zenon
  <1>7. Liability(storage, a) \in Nat /\ Liabilities(storage) \in Nat
    BY <1>1, LiabilityType
  <1> HIDE DEF w, ws
  <1>8. w <= balance[StaminaAddress]
    BY <1>1, <1>3, <1>4, <1>5, <1>6, <1>7 DEF Backed
  <1> QED BY <1>8 DEF w, ws

\* A withdrawal request whose delay has passed and whose predecessors are
\* processed can be withdrawn at once, whatever the other accounts did (withdraw:
\* neither its index nor the transfer stands in the way).
THEOREM MaturedIsPayableThm == Spec => []MaturedIsPayable
  <1>1. ASSUME IInv, Backed PROVE MaturedIsPayable
    <2> SUFFICES ASSUME NEW a \in Accounts, NEW i \in 1 .. Len(storage.withdrawal[a]),
                        ~storage.withdrawal[a][i].processed,
                        \A j \in 1 .. i - 1 : storage.withdrawal[a][j].processed,
                        storage.withdrawal[a][i].requestBlockNumber + WITHDRAWAL_DELAY <= blockNumber
                 PROVE  canWithdraw(storage, a) /\ withdrawalIndex(storage, a) + 1 = i
      BY DEF MaturedIsPayable
    <2> DEFINE ws   == storage.withdrawal[a]
               last == storage.last_processed_withdrawal[a]
    <2>1. storage \in Storage
      BY <1>1 DEF IInv, TypeOK
    <2>2. ws \in Seq(Withdrawal) /\ last \in Nat
      BY <2>1, StorageFields
    <2>3. /\ last = 0 \/ last < Len(ws)
          /\ \A j \in 1 .. Len(ws) : ws[j].processed <=> j <= last + 1 /\ (last = 0 => ws[1].processed)
      BY <1>1 DEF IInv, WithdrawnInOrder, InOrder
    <2>4. ws[i].amount <= balance[StaminaAddress]
      BY <1>1, OpenIsCovered
    <2>5. withdrawalIndex(storage, a) = IF last = 0 /\ ~ws[1].processed THEN 0 ELSE last + 1
      BY DEF withdrawalIndex
    <2> HIDE DEF last, ws
    <2>6. /\ i \in 1 .. Len(ws) /\ ~ws[i].processed
          /\ \A j \in 1 .. i - 1 : ws[j].processed
          /\ ws[i].requestBlockNumber + WITHDRAWAL_DELAY <= blockNumber
      BY DEF ws
    <2>7. withdrawalIndex(storage, a) + 1 = i
      <3>1. CASE i = 1
        BY <2>2, <2>3, <2>5, <2>6, <3>1
      <3>2. CASE i # 1
        <4>1. 1 \in 1 .. i - 1 /\ i - 1 \in 1 .. i - 1 /\ i - 1 \in 1 .. Len(ws) /\ i \in Nat
          BY <2>2, <2>6, <3>2
        <4>2. ws[1].processed /\ ws[i - 1].processed
          BY <2>6, <4>1
        <4>3. i - 1 <= last + 1 /\ ~(i <= last + 1)
          BY <2>3, <2>6, <4>1, <4>2
        <4>4. i = last + 2
          BY <2>2, <4>1, <4>3
        <4> QED BY <2>2, <2>5, <4>2, <4>4
      <3> QED BY <3>1, <3>2
    <2>8. withdrawalIndex(storage, a) \in Nat /\ withdrawalIndex(storage, a) < Len(ws) /\ Len(ws) > 0
      BY <2>2, <2>5, <2>6, <2>7
    <2>9. canWithdraw(storage, a)
      BY <2>4, <2>6, <2>7, <2>8 DEF canWithdraw, ws
    <2> QED BY <2>7, <2>9
  <1>2. IInv /\ Backed => MaturedIsPayable
    BY <1>1
  <1> QED BY <1>2, BackedThm, StaminaIInvThm, PTL
=============================================================================
