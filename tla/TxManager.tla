---------------------------- MODULE TxManager ----------------------------
(***************************************************************************)
(* The transaction manager of the operator node (tx/manager.go, tx/types.go,*)
(* tx/rawdb.go): it queues the operator's raw transactions, sends them to   *)
(* the root chain one at a time with a nonce and a gas price, follows them  *)
(* until they are mined and Confirmation blocks deep, and resends those a   *)
(* reorganisation removed.                                                 *)
(*                                                                         *)
(* One account is modelled; accounts share nothing but the gas price.  The  *)
(* actors are the goroutines the ticker starts (Workers, which may overlap: *)
(* the ticker does not wait for the previous one), the confirmation loop,   *)
(* the caller of Add, and the root chain provider with its transaction      *)
(* pool.  Each critical section of tm.lock is one action: nothing else      *)
(* reads or writes the queues meanwhile, and the receipts of one section    *)
(* are read from one state of the chain.  A crash inside a section, between *)
(* two database writes, is an action of its own.                           *)
(*                                                                         *)
(* A block holds at most one transaction of the account.  Left out: logs,   *)
(* captions, ResendCount, ConfirmedIndex, MinedBlockNumber and Reverted     *)
(* (no branch that changes state reads them), signing errors, and           *)
(* numKnownErr, whose two outcomes are both allowed.                        *)
(***************************************************************************)
EXTENDS Integers, Sequences, FiniteSets, SequencesExt

CONSTANTS
  Payloads,          \* what a raw transaction does: recipient, amount, data
  Foreign,           \* the payload of transactions sent before the manager
  NoTx,              \* the zero hash; an empty block
  Workers,           \* goroutines of the ticker that can be alive at once
  Duplicates,        \* the values callers pass for Add's duplicate flag
  MaxNumPending, Confirmation, ConfirmationDelay, SendDelay,
  MinGasPrice, MaxGasPrice, DefaultGasPrice,
  MaxRaws,           \* bound: calls of Add that store an index
  MaxNonce,          \* bound: transactions of the account on the chain
  InitialNonces,     \* how many transactions the account has sent before
  IdleBlocks,        \* bound: empty blocks above the highest transaction
  ReorgDepth,        \* blocks a reorganisation replaces at most
  MaxReorgs, MaxRestarts,
  Faults             \* what may go wrong, a subset of FaultKinds

FaultKinds == {"send", "funds", "receipt", "nonceAt", "header", "crash",
               "tornAdd", "tornQueue"}

ASSUME TxManagerAssumptions ==
  /\ {MaxNumPending, Confirmation, ConfirmationDelay, SendDelay, MinGasPrice,
      MaxGasPrice, DefaultGasPrice, MaxRaws, MaxNonce, IdleBlocks, ReorgDepth,
      MaxReorgs, MaxRestarts} \cup InitialNonces \subseteq Nat
  /\ MinGasPrice <= MaxGasPrice
  /\ Duplicates \subseteq BOOLEAN
  /\ Faults \subseteq FaultKinds

VARIABLES
  tm,      \* the manager's memory: its raw transactions by index, the queues
           \* (sequences of indices), nonce, gas price, last header seen
  db,      \* the database
  worker,  \* the ticker's goroutines
  loop,    \* the confirmation loop
  chain,   \* the root chain: one transaction or NoTx per block
  pool,    \* the provider's transaction pool
  left     \* reorganisations and restarts still allowed

vars == <<tm, db, worker, loop, chain, pool, left>>

----------------------------------------------------------------------------
(* The root chain provider. *)

Executed == {chain[b] : b \in {b \in DOMAIN chain : chain[b] # NoTx}}

\* The account nonce: TransactionReceipt and NonceAt answer from the chain.
NonceAt == Cardinality({b \in DOMAIN chain : chain[b] # NoTx})

TopTx == LET B == {b \in DOMAIN chain : chain[b] # NoTx}
         IN  IF B = {} THEN 0 ELSE Max(B)

BlockOf(tx) == CHOOSE b \in DOMAIN chain : chain[b] = tx

SameNonce(tx) == {t \in pool : t.nonce = tx.nonce}

\* Replacing a pooled transaction takes a tenth more.
Underpriced(tx) ==
  \E t \in SameNonce(tx) : tx.price <= t.price \/ tx.price * 10 < t.price * 11

Accept(tx) == (pool \ SameNonce(tx)) \cup {tx}

Mine ==
  /\ NonceAt < MaxNonce
  /\ \E tx \in pool :
       /\ tx.nonce = NonceAt
       /\ chain' = Append(chain, tx)
       /\ pool' = pool \ {tx}
  /\ UNCHANGED <<tm, db, worker, loop, left>>

MineEmpty ==
  /\ Len(chain) < TopTx + IdleBlocks
  /\ chain' = Append(chain, NoTx)
  /\ UNCHANGED <<tm, db, worker, loop, pool, left>>

\* The last d blocks are replaced.  Their transactions return to the pool,
\* where a transaction with the same nonce keeps its place.
Reorg ==
  /\ left.reorgs > 0
  /\ \E d \in 1..ReorgDepth :
       LET new     == [b \in DOMAIN chain |->
                         IF b > Len(chain) - d THEN NoTx ELSE chain[b]]
           dropped == {chain[b] : b \in {b \in DOMAIN chain : chain[b] # new[b]}}
       IN  /\ d <= Len(chain)
           /\ dropped # {}
           /\ \A t \in dropped : t.payload # Foreign
           /\ chain' = new
           /\ pool' = pool \cup {t \in dropped : SameNonce(t) = {}}
  /\ left' = [left EXCEPT !.reorgs = @ - 1]
  /\ UNCHANGED <<tm, db, worker, loop>>

----------------------------------------------------------------------------
(* Raw transactions. *)

NewRaw(i, p, n) == [index |-> i, payload |-> p, nonce |-> n, pendingTxs |-> <<>>,
                    minedTx |-> NoTx, lastSent |-> 0]

ToTransaction(raw, price) ==
  [payload |-> raw.payload, nonce |-> raw.nonce, price |-> price]

Mined(raw) == raw.minedTx # NoTx

\* CheckMined asks for the receipt of every pending transaction, in order.
MinedPending(raw) == SelectSeq(raw.pendingTxs, LAMBDA tx : tx \in Executed)

CheckMined(raw) ==
  IF Mined(raw) \/ MinedPending(raw) = <<>> THEN raw
  ELSE [raw EXCEPT !.minedTx = MinedPending(raw)[1], !.pendingTxs = <<>>]

Removed(raw) == raw.minedTx \notin Executed

PrepareToResend(raw) ==
  [raw EXCEPT !.nonce = 0, !.minedTx = NoTx, !.pendingTxs = <<>>, !.lastSent = 0]

\* Mutant: a receipt is enough, however recent its block.
Confirmed_AnyDepth(raw, current) ==
  raw.minedTx \in Executed /\ BlockOf(raw.minedTx) <= current

Confirmed(raw, current) ==
  /\ raw.minedTx \in Executed
  /\ BlockOf(raw.minedTx) + Confirmation <= current

----------------------------------------------------------------------------
(* The gas price. *)

\* Mutant: the upper limit is not applied.
InRange_NoMax(price) == IF price < MinGasPrice THEN MinGasPrice ELSE price

InRange(price) ==
  IF price < MinGasPrice THEN MinGasPrice
  ELSE IF price > MaxGasPrice THEN MaxGasPrice ELSE price

\* adjustGasPrice does nothing for a mined raw transaction whose transaction
\* the provider no longer has in a block.
adjustGasPrice(price, raw, decrease) ==
  IF Mined(raw) /\ raw.minedTx \notin Executed THEN price
  ELSE InRange((price \div 10) * (IF decrease THEN 4 ELSE 12))
----------------------------------------------------------------------------
(* The database, and what a start of the manager loads from it. *)

Records(raws, queue) == [k \in DOMAIN queue |-> raws[queue[k]]]

Indices(records) == [k \in DOMAIN records |-> records[k].index]

\* Mutant: the unconfirmed queue is not saved.
WriteUnconfirmed_Skipped(d, t) == d

WritePending(d, t)     == [d EXCEPT !.pending = Records(t.raws, t.pending)]
WriteUnconfirmed(d, t) == [d EXCEPT !.unconfirmed = Records(t.raws, t.unconfirmed)]
WriteConfirmed(d, t)   == [d EXCEPT !.confirmed = Records(t.raws, t.confirmed)]

EmptyDB == [account |-> FALSE, hashes |-> {}, numRaws |-> 0, nonce |-> 0,
            gasPrice |-> DefaultGasPrice, pending |-> <<>>, unconfirmed |-> <<>>,
            confirmed |-> <<>>]

\* Of two records with one index the later queue's is the one still used.
Stored(d, i) ==
  LET all == d.confirmed \o d.unconfirmed \o d.pending
  IN  {k \in DOMAIN all : all[k].index = i}

LoadRaw(d, t, i) ==
  LET all == d.confirmed \o d.unconfirmed \o d.pending
  IN  IF Stored(d, i) = {} THEN t.raws[i] ELSE all[Max(Stored(d, i))]

\* NewTransactionManager: only accounts stored with WriteAddr are loaded; a
\* stored nonce of 0 is taken for a missing one.
LoadNonce(d) == IF d.account /\ d.nonce = 0 THEN NonceAt ELSE d.nonce

Load(d, t) ==
  [raws               |-> [i \in DOMAIN t.raws |-> LoadRaw(d, t, i)],
   pending            |-> Indices(d.pending),
   unconfirmed        |-> Indices(d.unconfirmed),
   confirmed          |-> Indices(d.confirmed),
   nonce              |-> LoadNonce(d),
   gasPrice           |-> InRange(d.gasPrice),
   currentBlockNumber |-> 0]

NoWork == [pc |-> "idle", queue |-> <<>>, raw |-> 0, tx |-> NoTx, err |-> "none",
           again |-> FALSE]

NoLoop == [pc |-> "idle", lastConfirmed |-> 0]

Init ==
  /\ db = EmptyDB
  /\ \E n \in InitialNonces :
       chain = [b \in 1..n |-> [payload |-> Foreign, nonce |-> b - 1,
                                price |-> MinGasPrice]]
  /\ tm = Load(EmptyDB, [raws |-> <<>>])
  /\ worker = [w \in Workers |-> NoWork]
  /\ loop = NoLoop
  /\ pool = {}
  /\ left = [reorgs |-> MaxReorgs, restarts |-> MaxRestarts]

\* The process dies with the database d and is started again.
RestartFrom(d, t) ==
  /\ left.restarts > 0
  /\ left' = [left EXCEPT !.restarts = @ - 1]
  /\ tm' = Load(d, t)
  /\ db' = [d EXCEPT !.nonce = LoadNonce(d)]
  /\ worker' = [w \in Workers |-> NoWork]
  /\ loop' = NoLoop
  /\ UNCHANGED <<chain, pool>>

\* Stop waits for the goroutines; a crash does not.
StopAndStart ==
  /\ \A w \in Workers : worker[w].pc = "idle"
  /\ loop.pc = "idle"
  /\ RestartFrom(db, tm)

Crash ==
  /\ "crash" \in Faults
  /\ RestartFrom(db, tm)

----------------------------------------------------------------------------
(* Add. *)

CanAdd(p, duplicate) == (p \in db.hashes) <=> duplicate

addToQueue(p) ==
  LET i == db.numRaws + 1
  IN  [tm EXCEPT !.raws = Append(@, NewRaw(i, p, tm.nonce)),
                 !.nonce = @ + 1,
                 !.pending = Append(@, i)]

\* The database after WriteRawTxHash, after WriteNumRawTxs, after
\* WriteAddrNonce and after WritePendingTxs.
afterHash(p)  == [db EXCEPT !.account = TRUE, !.hashes = @ \cup {p}]
afterIndex(p) == [afterHash(p) EXCEPT !.numRaws = @ + 1]
afterNonce(p) == [afterIndex(p) EXCEPT !.nonce = tm.nonce + 1]

Add(p, duplicate) ==
  /\ Len(tm.raws) < MaxRaws
  /\ CanAdd(p, duplicate)
  /\ tm' = addToQueue(p)
  /\ db' = WritePending(afterNonce(p), addToQueue(p))
  /\ UNCHANGED <<worker, loop, chain, pool, left>>

AddTorn(p, duplicate) ==
  /\ "tornAdd" \in Faults
  /\ Len(tm.raws) < MaxRaws
  /\ CanAdd(p, duplicate)
  /\ \/ RestartFrom(afterHash(p), tm)
     \/ RestartFrom(afterIndex(p), addToQueue(p))
     \/ RestartFrom(afterNonce(p), addToQueue(p))

----------------------------------------------------------------------------
(* clearQueue: the mined prefix of pending moves to unconfirmed. *)

SeenMined(raw) == Mined(CheckMined(raw))

\* How many raw transactions CheckMined reports mined before it stops; a failed
\* receipt call looks like a missing receipt.
MinedPrefixes ==
  LET ok(n)      == \A k \in 1..n : SeenMined(tm.raws[tm.pending[k]])
      already(n) == \A k \in 1..n : Mined(tm.raws[tm.pending[k]])
      N          == 0..Len(tm.pending)
      longest    == Max({n \in N : ok(n)})
  IN  IF "receipt" \in Faults THEN Max({n \in N : already(n)})..longest
      ELSE {longest}

clear(n) ==
  LET mined == SubSeq(tm.pending, 1, n)
      raws  == [i \in DOMAIN tm.raws |->
                  IF i \in Range(mined) THEN CheckMined(tm.raws[i]) ELSE tm.raws[i]]
  IN  [tm EXCEPT !.raws = raws,
                 !.pending = SubSeq(@, n + 1, Len(@)),
                 !.unconfirmed = @ \o mined,
                 !.gasPrice = FoldLeft(LAMBDA g, i : adjustGasPrice(g, raws[i], TRUE),
                                       @, mined)]

WriteGasPrice(d, t) == [d EXCEPT !.gasPrice = t.gasPrice]

clearQueue(w) ==
  /\ worker[w].pc = "clear"
  /\ \E n \in MinedPrefixes :
       /\ tm' = clear(n)
       /\ db' = IF n = 0 THEN db
                ELSE WriteUnconfirmed(
                       WritePending(WriteGasPrice(db, clear(n)), clear(n)), clear(n))
  /\ worker' = [worker EXCEPT ![w].pc = "confirm"]
  /\ UNCHANGED <<loop, chain, pool, left>>

\* Mutant: unconfirmed is written before pending.
clearQueueTorn_Swapped(w) ==
  /\ "tornQueue" \in Faults
  /\ worker[w].pc = "clear"
  /\ \E n \in MinedPrefixes \ {0} :
       RestartFrom(WriteUnconfirmed(WriteGasPrice(db, clear(n)), clear(n)), clear(n))

\* The process dies between WritePendingTxs and WriteUnconfirmedTxs.
clearQueueTorn(w) ==
  /\ "tornQueue" \in Faults
  /\ worker[w].pc = "clear"
  /\ \E n \in MinedPrefixes \ {0} :
       RestartFrom(WritePending(WriteGasPrice(db, clear(n)), clear(n)), clear(n))

----------------------------------------------------------------------------
(* confirmQueue: removed raw transactions return to pending, those deep      *)
(* enough become confirmed.                                                 *)

ByIndex(i, j) == i < j

\* Mutant: a removed raw transaction stays in unconfirmed too.
takeRemoved_Kept(n) ==
  LET out == SelectSeq(SubSeq(tm.unconfirmed, 1, n), LAMBDA i : Removed(tm.raws[i]))
  IN  [tm EXCEPT !.raws = [i \in DOMAIN @ |->
                             IF i \in Range(out) THEN PrepareToResend(@[i]) ELSE @[i]],
                 !.pending = SortSeq(@ \o out, ByIndex)]

\* The first loop, when its first n receipt calls succeed: the raw transaction
\* whose call fails ends it, and those not reached are not carried over.
takeRemoved(n) ==
  LET seen    == SubSeq(tm.unconfirmed, 1, n)
      isOut(i) == Removed(tm.raws[i])
      out     == SelectSeq(seen, isOut)
  IN  IF n = 0 THEN tm
      ELSE [tm EXCEPT
             !.raws = [i \in DOMAIN @ |->
                         IF i \in Range(out) THEN PrepareToResend(@[i]) ELSE @[i]],
             !.unconfirmed = SelectSeq(seen, LAMBDA i : ~isOut(i)),
             !.pending = SortSeq(@ \o out, ByIndex)]

Checked == IF "receipt" \in Faults THEN 0..Len(tm.unconfirmed)
           ELSE {Len(tm.unconfirmed)}

\* The second loop stops at the first that is not confirmed.
ConfirmedPrefixes(t) ==
  LET ok(n)   == \A k \in 1..n : Confirmed(t.raws[t.unconfirmed[k]],
                                           t.currentBlockNumber)
      longest == Max({n \in 0..Len(t.unconfirmed) : ok(n)})
  IN  IF "receipt" \in Faults THEN 0..longest ELSE {longest}

takeConfirmed(t, n) ==
  [t EXCEPT !.confirmed = @ \o SubSeq(t.unconfirmed, 1, n),
            !.unconfirmed = SubSeq(@, n + 1, Len(@))]

confirmQueue(n, c) ==
  LET t1 == takeRemoved(n)
      d1 == IF n = 0 THEN db ELSE WritePending(WriteUnconfirmed(db, t1), t1)
      t2 == takeConfirmed(t1, c)
  IN  /\ tm' = t2
      /\ db' = IF c = 0 THEN d1 ELSE WriteUnconfirmed(WriteConfirmed(d1, t2), t2)

confirm ==
  \E n \in Checked : \E c \in ConfirmedPrefixes(takeRemoved(n)) : confirmQueue(n, c)

\* The process dies between the two writes of the first or of the second loop.
confirmTorn ==
  /\ "tornQueue" \in Faults
  /\ \E n \in Checked :
       LET t1 == takeRemoved(n)
           d1 == IF n = 0 THEN db ELSE WritePending(WriteUnconfirmed(db, t1), t1)
       IN  \/ n # 0 /\ RestartFrom(WriteUnconfirmed(db, t1), t1)
           \/ \E c \in ConfirmedPrefixes(t1) \ {0} :
                RestartFrom(WriteConfirmed(d1, takeConfirmed(t1, c)),
                            takeConfirmed(t1, c))

confirmQueueTorn ==
  /\ \/ loop.pc = "confirm"
     \/ \E w \in Workers : worker[w].pc = "confirm"
  /\ confirmTorn

----------------------------------------------------------------------------
(* confirmLoop. *)

\* Mutant: a header too far ahead is skipped before its number is recorded.
newHeader_SkippedEarly ==
  LET h    == Len(chain)
      last == IF loop.lastConfirmed = 0 THEN h ELSE loop.lastConfirmed
  IN  /\ loop.pc = "idle"
      /\ h # tm.currentBlockNumber
      /\ last + ConfirmationDelay >= h
      /\ tm' = [tm EXCEPT !.currentBlockNumber = h]
      /\ loop' = [pc |-> "confirm", lastConfirmed |-> h]
      /\ UNCHANGED <<db, worker, chain, pool, left>>

newHeader ==
  LET h    == Len(chain)
      last == IF loop.lastConfirmed = 0 THEN h ELSE loop.lastConfirmed
  IN  /\ loop.pc = "idle"
      /\ h # tm.currentBlockNumber
      /\ tm' = [tm EXCEPT !.currentBlockNumber = h]
      /\ loop' = IF last + ConfirmationDelay < h
                 THEN [loop EXCEPT !.lastConfirmed = last]
                 ELSE [pc |-> "confirm", lastConfirmed |-> h]
      /\ UNCHANGED <<db, worker, chain, pool, left>>

\* BlockByHash fails: the header is ignored.
headerFails ==
  /\ "header" \in Faults
  /\ loop.pc = "idle"
  /\ loop.lastConfirmed = 0
  /\ loop' = [loop EXCEPT !.lastConfirmed = Len(chain)]
  /\ UNCHANGED <<tm, db, worker, chain, pool, left>>

confirmQueueByLoop ==
  /\ loop.pc = "confirm"
  /\ confirm
  /\ loop' = [loop EXCEPT !.pc = "idle"]
  /\ UNCHANGED <<worker, chain, pool, left>>

----------------------------------------------------------------------------
(* The goroutine of one tick. *)

\* The queue is read before clearQueue and confirmQueue, without the lock.
tick(w) ==
  /\ worker[w].pc = "idle"
  /\ worker' = [worker EXCEPT ![w] = [NoWork EXCEPT !.pc = "clear",
                                                    !.queue = tm.pending]]
  /\ UNCHANGED <<tm, db, loop, chain, pool, left>>

\* The captured slice may share its array with tm.pending, which confirmQueue
\* sorts in place: the goroutine sees the old order or the new one.
Views(w) == IF worker[w].queue = <<>> THEN {<<>>} ELSE {worker[w].queue, tm'.pending}

\* Mutant: the queue is searched from its end.
NotMined_FromEnd(queue) == SelectSeq(Reverse(queue), LAMBDA i : ~Mined(tm'.raws[i]))

NotMined(queue) == SelectSeq(queue, LAMBDA i : ~Mined(tm'.raws[i]))

\* confirmQueue, then the choice of the first raw transaction that is not mined.
confirmAndChoose(w) ==
  /\ worker[w].pc = "confirm"
  /\ confirm
  /\ \E queue \in Views(w) :
       worker' = [worker EXCEPT ![w] =
         IF NotMined(queue) = <<>> THEN NoWork
         ELSE [NoWork EXCEPT !.pc = "send", !.raw = NotMined(queue)[1]]]
  /\ UNCHANGED <<loop, chain, pool, left>>

\* send has returned: the first time the goroutine looks at the result, the
\* second time it ends.
returned(w, tx, err) ==
  IF worker[w].again THEN NoWork
  ELSE [worker[w] EXCEPT !.pc = "check", !.tx = tx, !.err = err]

TooEarly(raw) ==
  /\ raw.lastSent # 0
  /\ raw.lastSent + SendDelay <= tm.currentBlockNumber

HasPending(raw, tx) == tx \in Range(raw.pendingTxs)

\* Mutant: the transaction is sent without being recorded.
AddPending_Forgotten(raw, tx) == [raw EXCEPT !.lastSent = tm.currentBlockNumber]

AddPending(raw, tx) ==
  [raw EXCEPT !.pendingTxs = Append(@, tx), !.lastSent = tm.currentBlockNumber]

\* f up to SendTransaction: the transaction is stored before it is sent.
prepare(w) ==
  LET r   == worker[w].raw
      raw == tm.raws[r]
      tx  == ToTransaction(raw, tm.gasPrice)
      new == [tm EXCEPT !.raws[r] = AddPending(raw, tx)]
  IN  \/ /\ TooEarly(raw)
         /\ tm' = [tm EXCEPT !.raws[r].lastSent = tm.currentBlockNumber]
         /\ worker' = [worker EXCEPT ![w] = returned(w, NoTx, "none")]
         /\ UNCHANGED db
      \/ /\ ~TooEarly(raw)
         /\ HasPending(raw, tx)
         /\ worker' = [worker EXCEPT ![w] = returned(w, tx, "none")]
         /\ UNCHANGED <<tm, db>>
      \/ /\ ~TooEarly(raw)
         /\ ~HasPending(raw, tx)
         /\ Len(raw.pendingTxs) >= MaxNumPending
         /\ worker' = [worker EXCEPT ![w] = returned(w, tx, "other")]
         /\ UNCHANGED <<tm, db>>
      \/ /\ ~TooEarly(raw)
         /\ ~HasPending(raw, tx)
         /\ Len(raw.pendingTxs) < MaxNumPending
         /\ tm' = new
         /\ db' = WritePending(db, new)
         /\ worker' = [worker EXCEPT ![w].pc = "submit", ![w].tx = tx]

\* raw.sendLock is held from prepare to the end of send.
SendLockFree(r) ==
  \A w \in Workers : worker[w].raw = r => worker[w].pc \notin {"submit", "retry"}

send(w) ==
  /\ worker[w].pc = "send"
  /\ SendLockFree(worker[w].raw)
  /\ IF Mined(tm.raws[worker[w].raw])
     THEN /\ worker' = [worker EXCEPT ![w] =
                          returned(w, tm.raws[worker[w].raw].minedTx, "none")]
          /\ UNCHANGED <<tm, db>>
     ELSE prepare(w)
  /\ UNCHANGED <<loop, chain, pool, left>>

\* f calls itself after the nonce was too low; it does not ask again whether
\* the raw transaction is mined.
retry(w) ==
  /\ worker[w].pc = "retry"
  /\ prepare(w)
  /\ UNCHANGED <<loop, chain, pool, left>>

NonceTooLow(tx) == tx.nonce < NonceAt

submitAccepted(w) ==
  LET tx == worker[w].tx
  IN  /\ worker[w].pc = "submit"
      /\ ~NonceTooLow(tx) /\ tx \notin pool /\ ~Underpriced(tx)
      /\ pool' = Accept(tx)
      /\ \E err \in {"none"} \cup ({"send"} \cap Faults) :
           worker' = [worker EXCEPT ![w] =
                        returned(w, tx, IF err = "none" THEN "none" ELSE "other")]
      /\ UNCHANGED <<tm, db, loop, chain, left>>

submitRefused(w) ==
  LET tx  == worker[w].tx
      low == NonceTooLow(tx)
  IN  /\ worker[w].pc = "submit"
      /\ \E err \in (IF ~low /\ tx \in pool THEN {"known"} ELSE {})
              \cup (IF ~low /\ tx \notin pool /\ Underpriced(tx)
                    THEN {"underpriced"} ELSE {})
              \cup (IF "funds" \in Faults THEN {"funds"} ELSE {})
              \cup (IF "send" \in Faults THEN {"other"} ELSE {}) :
           worker' = [worker EXCEPT ![w] = returned(w, tx, err)]
      /\ UNCHANGED <<tm, db, loop, chain, pool, left>>

\* A failing NonceAt leaves 0 in tm.nonce and the raw transaction's nonce alone.
submitNonceTooLow(w) ==
  /\ worker[w].pc = "submit"
  /\ NonceTooLow(worker[w].tx)
  /\ \/ /\ tm' = [tm EXCEPT !.nonce = NonceAt, !.raws[worker[w].raw].nonce = NonceAt]
        /\ db' = [db EXCEPT !.nonce = NonceAt]
     \/ /\ "nonceAt" \in Faults
        /\ tm' = [tm EXCEPT !.nonce = 0]
        /\ UNCHANGED db
  /\ worker' = [worker EXCEPT ![w].pc = "retry"]
  /\ UNCHANGED <<loop, chain, pool, left>>

\* After the first send: stop when the transaction is mined or known, else
\* raise the gas price where the code does and send once more.
checkSent(w) ==
  LET raw    == tm.raws[worker[w].raw]
      err    == worker[w].err
      raised == adjustGasPrice(tm.gasPrice, raw, FALSE)
      fails  == "receipt" \in Faults
      repeat == [worker EXCEPT ![w].pc = "send", ![w].again = TRUE, ![w].tx = NoTx,
                               ![w].err = "none"]
      raise  == /\ tm' = [tm EXCEPT !.gasPrice = raised]
                /\ db' = WriteGasPrice(db, tm')
                /\ worker' = repeat
      hold   == /\ UNCHANGED <<tm, db>>
                /\ worker' = repeat
      stop   == /\ worker' = [worker EXCEPT ![w] = NoWork]
                /\ UNCHANGED <<tm, db>>
      mined  == worker[w].tx \in Executed
  IN  /\ worker[w].pc = "check"
      /\ \/ err = "underpriced" /\ raise
         \/ err = "funds" /\ hold
         \/ err \notin {"underpriced", "funds"} /\ mined /\ stop
         \/ err = "known" /\ (~mined \/ fails) /\ stop
         \/ err \notin {"underpriced", "funds"} /\ ~mined /\ raise
         \/ err \in {"none", "known"} /\ fails /\ hold
         \/ err = "other" /\ fails /\ raise
      /\ UNCHANGED <<loop, chain, pool, left>>

----------------------------------------------------------------------------
Provider == Mine \/ MineEmpty \/ Reorg

Restarts == StopAndStart \/ Crash \/ confirmQueueTorn

Loop == newHeader \/ headerFails \/ confirmQueueByLoop

Goroutine(w) ==
  \/ tick(w) \/ clearQueue(w) \/ confirmAndChoose(w)
  \/ send(w) \/ retry(w) \/ checkSent(w)
  \/ submitAccepted(w) \/ submitRefused(w) \/ submitNonceTooLow(w)

Next ==
  \/ \E p \in Payloads, duplicate \in Duplicates : Add(p, duplicate) \/ AddTorn(p, duplicate)
  \/ \E w \in Workers : Goroutine(w) \/ clearQueueTorn(w)
  \/ Loop
  \/ Provider
  \/ Restarts

Spec == Init /\ [][Next]_vars

\* The ticker keeps starting goroutines and each runs to its end, headers keep
\* arriving, and the root chain includes what its pool offers.
Fairness ==
  /\ \A w \in Workers : WF_vars(Goroutine(w))
  /\ WF_vars(Loop)
  /\ WF_vars(Mine)
  /\ WF_vars(MineEmpty)

FairSpec == Spec /\ Fairness
----------------------------------------------------------------------------
(* Properties. *)

Indexes == DOMAIN tm.raws

\* The types of the manager's memory; in particular the gas price stays in
\* [MinGasPrice, MaxGasPrice] through every adjustment and restart, and no raw
\* transaction holds more than MaxNumPending pending ones (AddPending).
TypeOK ==
  /\ \A i \in Indexes :
       /\ tm.raws[i].index = i
       /\ tm.raws[i].payload \in Payloads
       /\ tm.raws[i].nonce \in 0..(MaxNonce + MaxRaws)
       /\ Len(tm.raws[i].pendingTxs) <= MaxNumPending
  /\ Range(tm.pending \o tm.unconfirmed \o tm.confirmed) \subseteq Indexes
  /\ tm.nonce \in 0..(MaxNonce + MaxRaws)
  /\ tm.gasPrice \in MinGasPrice..MaxGasPrice
  /\ tm.currentBlockNumber \in 0..Len(chain)
  /\ db.numRaws = Len(tm.raws)
  /\ \A t \in pool : t.payload \in Payloads

\* Every raw transaction Add accepted is in exactly one of pending,
\* unconfirmed and confirmed, exactly once, whatever clearQueue, confirmQueue
\* (from two goroutines) and reorganisations do: none is lost, none is
\* handled twice.
EachQueuedOnce ==
  \A i \in Indexes :
    Cardinality({k \in DOMAIN (tm.pending \o tm.unconfirmed \o tm.confirmed) :
                   (tm.pending \o tm.unconfirmed \o tm.confirmed)[k] = i}) = 1

\* Wherever a crash falls between two database writes, no raw transaction is in
\* pending and unconfirmed at once, nor twice in either: a torn write can lose
\* one but never makes the manager follow two copies.
NeverFollowedTwice ==
  IsInjective(tm.pending \o tm.unconfirmed)

\* A raw transaction that is not confirmed stays in pending or unconfirmed, so
\* that it is (re)sent when its transaction is removed: what the comments on
\* clearQueue and confirmQueue say.
UnconfirmedReturns ==
  \A i \in Indexes :
    i \notin Range(tm.confirmed) => i \in Range(tm.pending) \cup Range(tm.unconfirmed)

\* A raw transaction in confirmed stays executed on the root chain although
\* receipts were read before later reorganisations, the header number is older
\* than the receipts, and the confirming goroutine raced the resending one.
ConfirmedFinal ==
  \A k \in DOMAIN tm.confirmed :
    tm.raws[tm.confirmed[k]].minedTx \in Executed

\* The stored queues are the queues in memory, in order, and a stored raw
\* transaction is marked mined exactly when the one in memory is: a restart
\* between two operations resumes where the manager stopped.
RestartKeepsQueues ==
  /\ Indices(db.pending) = tm.pending
  /\ Indices(db.unconfirmed) = tm.unconfirmed
  /\ Indices(db.confirmed) = tm.confirmed
  /\ \A k \in DOMAIN db.unconfirmed :
       db.unconfirmed[k].minedTx = tm.raws[tm.unconfirmed[k]].minedTx
  /\ \A k \in DOMAIN db.pending : ~Mined(db.pending[k])

\* Whatever the provider was given for a pending raw transaction is among the
\* stored pending transactions of that raw transaction: after a restart
\* CheckMined recognises it and the raw transaction is not executed again.
SentIsStored ==
  \A k \in DOMAIN db.pending : \A t \in pool \cup Executed :
    t.payload = db.pending[k].payload => t \in Range(db.pending[k].pendingTxs)

\* Raw transactions are first executed in the order Add accepted them, however
\* overlapping goroutines reassign their nonces and whatever calls fail: the
\* contract only accepts epochs in order.  A raw transaction a crash lost
\* from the queues is not waited for.
ExecutedInOrder ==
  \A b \in DOMAIN chain : \A i, j \in Indexes :
    /\ chain[b] # NoTx
    /\ i < j
    /\ chain[b].payload = tm.raws[j].payload
    /\ i \in Range(tm.pending \o tm.unconfirmed \o tm.confirmed)
    => \E a \in 1..(b - 1) : /\ chain[a] # NoTx
                             /\ chain[a].payload = tm.raws[i].payload

\* Every raw transaction Add accepts is eventually confirmed, unless the instance
\* runs out of nonces: through price adjustments, nonce corrections and
\* resending after a reorganisation the manager never stops short of it.
EventuallyConfirmed ==
  \A i \in 1..MaxRaws :
    i \in Indexes ~> i \in Range(tm.confirmed) \/ NonceAt = MaxNonce
============================================================================
