---------------------------- MODULE OperatorNode ----------------------------
(***************************************************************************)
(* The operator node between the root chain contract and its own plasma     *)
(* chain: the RootChainManager (pls/rootchain_manager.go), which turns each *)
(* EpochPrepared event into mining work and each mined block into a submit  *)
(* transaction; the miner with its epoch environment (miner/miner.go,       *)
(* miner/epoch/epoch.go); and the loops of the worker that build, seal and  *)
(* write blocks (miner/worker.go).                                         *)
(*                                                                         *)
(* Every goroutine of the code is an actor here: the event handler, the     *)
(* goroutines running miner.Start, the worker's main, seal and result       *)
(* loops, and the submitter.  They share the epoch environment and the      *)
(* worker's running flag without a common lock, so each is cut into the     *)
(* steps between which another may run.                                    *)
(*                                                                         *)
(* The contract is reduced to what the node sees of it: the epochs it has   *)
(* announced, and which submissions it accepts (RootChain models it).  The  *)
(* transaction manager is a queue whose transactions execute once and in    *)
(* order (TxManager says when that holds).                                 *)
(*                                                                         *)
(* The content of a request block is the sequence of request blocks of the  *)
(* contract whose requests it holds, each named by the number of the block  *)
(* it belongs in.  Left out: forks and rebasing, user nodes, URBs, headers, *)
(* fees, the recommit interval, and the zero-period development mode.       *)
(***************************************************************************)
EXTENDS Integers, Sequences, FiniteSets

CONSTANTS
  NRELength,   \* blocks of a non-request epoch
  MaxORBs,     \* bound: request blocks of a request epoch
  MaxEpochs,   \* bound: epochs the contract announces
  MaxBlocks,   \* bound: blocks the node mines
  ResultQueue, \* capacity of resultCh (resultQueueSize)
  MaxSignals,  \* bound: signals told apart; more are served as one
  Racing,      \* FALSE: the worker's loops and the goroutines of miner.Start
               \* are faster than everything else
  Faults,      \* what may go wrong, a subset of FaultKinds
  MaxFaults    \* how often

FaultKinds == {"crash", "rpc", "subscription", "sync"}

ASSUME OperatorNodeAssumptions ==
  /\ NRELength \in Nat \ {0}
  /\ {MaxORBs, MaxEpochs, MaxBlocks, ResultQueue, MaxSignals, MaxFaults}
       \subseteq Nat
  /\ Racing \in BOOLEAN
  /\ Faults \subseteq FaultKinds

VARIABLES
  epochs,     \* contract: the epochs announced, with the root block of each
  accepted,   \* contract: the blocks accepted, by number
  reverted,   \* contract: the submissions that failed
  rootBlock,  \* number of the last root block
  raws,       \* transaction manager: the submissions not executed yet
  sent,       \* how many of them have been sent
  added,      \* transaction manager: every raw transaction ever added
  chain,      \* the plasma chain
  db,         \* the epoch environment and root block number stored
  env,        \* the epoch environment, shared by miner, worker and manager
  miner,      \* running, canStart, shouldStart
  starters,   \* goroutines running miner.Start
  signals,    \* start and chain head events the new work loop has to serve
  building,   \* main loop: the block being built, or none
  sealing,    \* consensus engine: the block being sealed, or none
  results,    \* resultCh: sealed blocks
  result,     \* result loop: where it is, with which block
  submitter,  \* submitter: the mined block it has received, or none
  handler,    \* handleEpochPrepared: where it is, with which epoch
  pendingRtx, \* transaction pool: the request transactions to mine
  inbox,      \* events delivered by the subscription and not handled
  past,       \* events found at startup and not handled
  watch,      \* state of watchEvents
  left        \* faults that may still happen

contract == <<epochs, accepted, reverted, rootBlock>>
txManager == <<raws, sent, added>>
worker == <<signals, building, sealing, results, result>>
manager == <<submitter, handler, inbox, past, watch>>
vars == <<contract, txManager, worker, manager, chain, db, env, miner,
          starters, pendingRtx, left>>

None == [number |-> 0]
Idle == [pc |-> "idle", epoch |-> 0, mined |-> 0, live |-> FALSE]
Waiting == [pc |-> "idle", block |-> None, handler |-> 0]

\* A block: its number, and for a request block the request blocks of the
\* contract it holds; whole is FALSE when some request is missing.
NRB(n) == [number |-> n, request |-> FALSE, body |-> <<>>, whole |-> TRUE]
ORB(n, body, whole) ==
  [number |-> n, request |-> TRUE, body |-> body, whole |-> whole]

NewEnv ==
  [epochNumber |-> 0, isRequest |-> FALSE, completed |-> FALSE,
   numBlockMined |-> 0, epochLength |-> 0, start |-> 0, end |-> 0]

Epoch(request, start, end, at) ==
  [isRequest |-> request, isEmpty |-> FALSE, start |-> start, end |-> end,
   at |-> at]
EmptyEpoch(start, at) ==
  [isRequest |-> TRUE, isEmpty |-> TRUE, start |-> start, end |-> start,
   at |-> at]

Init ==
  /\ epochs = <<Epoch(FALSE, 1, NRELength, 0)>>
  /\ accepted = <<>> /\ reverted = {} /\ rootBlock = 0
  /\ raws = <<>> /\ sent = 0 /\ added = {}
  /\ chain = <<>>
  /\ db = [env |-> NewEnv, rootchainBlockNumber |-> 0]
  /\ env = NewEnv
  /\ miner = [running |-> FALSE, canStart |-> TRUE, shouldStart |-> FALSE]
  /\ starters = {}
  /\ signals = 0 /\ building = None /\ sealing = None /\ results = <<>>
  /\ result = Waiting
  /\ submitter = None /\ handler = Idle
  /\ pendingRtx = <<>>
  /\ inbox = <<>> /\ past = <<>> /\ watch = "down"
  /\ left = MaxFaults

Fault(kind) == kind \in Faults /\ left > 0 /\ left' = left - 1

-----------------------------------------------------------------------------
(* The contract and the transaction manager. *)

LastEpoch == epochs[Len(epochs)]

\* submitNRE: the epoch to submit is the last announced, and the range must
\* be the announced one.
AcceptsNRE(raw) ==
  LET e == LastEpoch IN
    /\ raw.epoch = Len(epochs)
    /\ ~e.isRequest
    /\ raw.blocks # <<>>
    /\ Len(accepted) + 1 = raw.blocks[1].number
    /\ e.start = raw.blocks[1].number
    /\ e.end = raw.blocks[Len(raw.blocks)].number

\* Mutant: the number of the submitted block is not compared.
AcceptsORB_AnyNumber(raw) ==
  /\ LastEpoch.isRequest
  /\ Len(accepted) < LastEpoch.end
  /\ raw.blocks[1].request

\* submitORB: the next block, in a request epoch, with the transactions root
\* of its requests.
AcceptsORB(raw) ==
  LET e == LastEpoch
      b == raw.blocks[1] IN
    /\ Len(accepted) + 1 = b.number
    /\ e.isRequest
    /\ e.start <= b.number /\ b.number <= e.end
    /\ b.request /\ b.whole /\ b.body = <<b.number>>

\* The epochs announced when a submission completes an epoch: after an NRE a
\* request epoch of n blocks, or an empty one and the next NRE with it.
Prepared(afterNRE, n) ==
  LET b == LastEpoch.end
      nre == Epoch(FALSE, b + 1, b + NRELength, rootBlock + 1) IN
    IF ~afterNRE THEN <<nre>>
    ELSE IF n = 0 THEN <<EmptyEpoch(b, rootBlock + 1), nre>>
    ELSE <<Epoch(TRUE, b + 1, b + n, rootBlock + 1)>>

\* The log subscription delivers the events of new blocks only.
Announce(new) ==
  /\ epochs' = epochs \o new
  /\ inbox' = IF watch = "watch"
              THEN inbox \o [i \in 1..Len(new) |-> Len(epochs) + i]
              ELSE inbox

\* A root block takes longer than miner.Start needs to set its fields.
Settled == \A s \in starters : s.pc \in {"kind", "resume"}

\* A root block executes the oldest transaction sent.
Execute ==
  /\ sent > 0
  /\ Settled
  /\ raws' = Tail(raws)
  /\ sent' = sent - 1
  /\ rootBlock' = rootBlock + 1
  /\ LET raw == Head(raws)
         accepts == IF raw.func = "submitNRE" THEN AcceptsNRE(raw)
                    ELSE AcceptsORB(raw) IN
       \/ /\ accepts
          /\ accepted' = accepted \o raw.blocks
          /\ IF Len(accepted') = LastEpoch.end /\ Len(epochs) < MaxEpochs
             THEN \E n \in 0..MaxORBs : Announce(Prepared(raw.func = "submitNRE", n))
             ELSE UNCHANGED <<epochs, inbox>>
          /\ UNCHANGED reverted
       \/ /\ ~accepts
          /\ reverted' = reverted \cup {raw}
          /\ UNCHANGED <<epochs, inbox, accepted>>
  /\ UNCHANGED <<added, worker, submitter, handler, past, watch, chain, db, env,
                 miner, starters, pendingRtx, left>>

-----------------------------------------------------------------------------
(* The miner: goroutines of miner.Start, and the downloader's events. *)

\* worker.start and a new chain head signal the new work loop.
Signalled == IF signals < MaxSignals THEN signals + 1 ELSE signals

Stopped(m) == [m EXCEPT !.running = FALSE, !.shouldStart = FALSE]
Started(m) == [m EXCEPT !.running = TRUE, !.shouldStart = TRUE]

\* Start sets the fields one by one; three groups are told apart here.
SetKind(e) == [env EXCEPT !.isRequest = epochs[e].isRequest]
SetCount(v, e) ==
  [v EXCEPT !.completed = FALSE, !.numBlockMined = 0,
            !.epochLength = epochs[e].end - epochs[e].start + 1]
SetRange(v, e) ==
  [v EXCEPT !.epochNumber = e, !.start = epochs[e].start, !.end = epochs[e].end]

\* Start(e, empty = false) while the downloader syncs leaves a mark only.
StartRefused(s) ==
  /\ s.pc = "kind"
  /\ ~miner.canStart
  /\ starters' = starters \ {s}
  /\ miner' = [miner EXCEPT !.shouldStart = TRUE]
  /\ UNCHANGED <<env, db, signals>>

StartKind(s) ==
  /\ s.pc = "kind"
  /\ miner.canStart
  /\ Racing
  /\ env' = SetKind(s.epoch)
  /\ miner' = [miner EXCEPT !.shouldStart = TRUE]
  /\ starters' = (starters \ {s}) \cup {[s EXCEPT !.pc = "count"]}
  /\ UNCHANGED <<db, signals>>

StartCount(s) ==
  /\ s.pc = "count"
  /\ env' = SetCount(env, s.epoch)
  /\ starters' = (starters \ {s}) \cup {[s EXCEPT !.pc = "range"]}
  /\ UNCHANGED <<db, miner, signals>>

\* The last fields, the database, and worker.start.
StartRange(s) ==
  /\ \/ s.pc = "range" /\ env' = SetRange(env, s.epoch)
     \/ /\ s.pc = "kind" /\ miner.canStart /\ ~Racing
        /\ building = None
        /\ env' = SetRange(SetCount(SetKind(s.epoch), s.epoch), s.epoch)
  /\ db' = [db EXCEPT !.env = env']
  /\ miner' = Started(miner)
  /\ signals' = Signalled
  /\ starters' = starters \ {s}

\* Start(_, empty = true): resume an epoch that is not complete.
Resumable == env.epochLength # 0 /\ ~env.completed

Resume(s) ==
  /\ s.pc = "resume"
  /\ UNCHANGED <<env, db>>
  /\ IF ~miner.canStart
     THEN /\ miner' = [miner EXCEPT !.shouldStart = TRUE]
          /\ starters' = starters \ {s}
          /\ UNCHANGED signals
     ELSE IF Resumable
     THEN /\ miner' = Started(miner)
          /\ signals' = Signalled
          /\ starters' = starters \ {s}
     ELSE /\ miner' = IF Racing THEN [miner EXCEPT !.shouldStart = TRUE]
                      ELSE Stopped(miner)
          /\ starters' = (starters \ {s}) \cup
                         (IF Racing THEN {[s EXCEPT !.pc = "stop"]} ELSE {})
          /\ UNCHANGED signals

\* Nothing to resume: the environment was read one step before.
ResumeStop(s) ==
  /\ s.pc = "stop"
  /\ miner' = Stopped(miner)
  /\ starters' = starters \ {s}
  /\ UNCHANGED <<env, db, signals>>

MinerStart ==
  /\ \E s \in starters :
       \/ StartRefused(s) \/ StartKind(s) \/ StartCount(s) \/ StartRange(s)
       \/ Resume(s) \/ ResumeStop(s)
  /\ UNCHANGED <<contract, txManager, building, sealing, results, result,
                 manager, chain, pendingRtx, left>>

\* miner.update: a sync starts and stops the miner; it ends once, and mining
\* resumes if it was asked for meanwhile.
SyncStarts ==
  /\ watch # "down"
  /\ Fault("sync")
  /\ miner.canStart
  /\ miner' = IF miner.running
              THEN [running |-> FALSE, canStart |-> FALSE, shouldStart |-> TRUE]
              ELSE [miner EXCEPT !.canStart = FALSE]
  /\ UNCHANGED <<contract, txManager, worker, manager, chain, db, env, starters,
                 pendingRtx>>

SyncEnds ==
  /\ ~miner.canStart
  /\ LET m == [miner EXCEPT !.canStart = TRUE, !.shouldStart = FALSE] IN
       \/ ~miner.shouldStart /\ miner' = m /\ UNCHANGED signals
       \/ /\ miner.shouldStart /\ Resumable
          /\ miner' = Started(m) /\ signals' = Signalled
       \/ /\ miner.shouldStart /\ ~Resumable
          /\ miner' = Stopped(m) /\ UNCHANGED signals
  /\ UNCHANGED <<contract, txManager, building, sealing, results, result,
                 manager, chain, db, env, starters, pendingRtx, left>>

-----------------------------------------------------------------------------
(* The worker: newWorkLoop and mainLoop, taskLoop with the consensus engine, *)
(* and resultLoop.                                                           *)

\* Without races a signal is served when the block before it has been counted,
\* posted and submitted.
CaughtUp == result = Waiting /\ submitter = None /\ results = <<>>

\* The recommit timer serves a running epoch that is not complete.
TimerCommits ==
  miner.running /\ ~env.completed /\ (env.isRequest => pendingRtx # <<>>)

\* commitNewWork and commitNewWorkForORB up to the end of execution: the
\* block on top of the current head.
BuildBlock ==
  /\ building = None
  /\ Len(chain) < MaxBlocks
  /\ ~Racing => CaughtUp
  /\ \/ signals > 0 /\ signals' = signals - 1
     \/ TimerCommits /\ UNCHANGED signals
  /\ env.isRequest => pendingRtx # <<>>
  /\ building' = IF env.isRequest THEN ORB(Len(chain) + 1, pendingRtx, TRUE)
                 ELSE NRB(Len(chain) + 1)
  /\ UNCHANGED <<contract, txManager, sealing, results, result, manager, chain,
                 db, env, miner, starters, pendingRtx, left>>

\* No transaction to mine: no block is built.
NothingToBuild ==
  /\ building = None
  /\ ~Racing => CaughtUp
  /\ signals > 0 /\ signals' = signals - 1
  /\ env.isRequest => pendingRtx = <<>>
  /\ UNCHANGED <<contract, txManager, building, sealing, results, result,
                 manager, chain, db, env, miner, starters, pendingRtx, left>>

\* commit: a running worker passes the block to the task loop, which
\* interrupts the sealing of the one before.  A newer signal may have cut the
\* execution of the request transactions short.
CommitBlock ==
  /\ building # None
  /\ building' = None
  /\ \/ ~miner.running /\ UNCHANGED sealing
     \/ /\ miner.running
        /\ \E whole \in {building.whole} \cup
                        (IF Racing /\ signals > 0 /\ building.request THEN {FALSE} ELSE {}) :
             sealing' = [building EXCEPT !.whole = whole]
  /\ UNCHANGED <<contract, txManager, signals, results, result, manager, chain,
                 db, env, miner, starters, pendingRtx, left>>

\* Seal: the result is sent when the block's time has come, and dropped when
\* the channel is full.
SealBlock ==
  /\ sealing # None
  /\ sealing' = None
  /\ results' = IF Len(results) < ResultQueue THEN Append(results, sealing)
                ELSE results
  /\ UNCHANGED <<contract, txManager, signals, building, result, manager, chain,
                 db, env, miner, starters, pendingRtx, left>>

\* resultLoop: a block not above the head is skipped, any other is written
\* and becomes the head.
WriteBlock ==
  /\ result = Waiting
  /\ results # <<>>
  /\ results' = Tail(results)
  /\ LET block == Head(results) IN
       \/ /\ block.number <= Len(chain)
          /\ UNCHANGED <<chain, signals, result>>
       \/ /\ block.number > Len(chain)
          /\ chain' = Append(chain, block)
          /\ signals' = Signalled
          /\ result' = [pc |-> "count", block |-> block, handler |-> 0]
  /\ UNCHANGED <<contract, txManager, building, sealing, manager, db, env, miner,
                 starters, pendingRtx, left>>

\* Mutant: an epoch is complete one block early.
Counted_Early(v) ==
  LET n == v.numBlockMined + 1 IN
    [v EXCEPT !.numBlockMined = n, !.completed = @ \/ n + 1 >= v.epochLength]

Counted(v) ==
  LET n == v.numBlockMined + 1 IN
    [v EXCEPT !.numBlockMined = n, !.completed = @ \/ n = v.epochLength]

\* Mutant: the pending requests are kept.
CountBlock_KeepRequests ==
  /\ result.pc = "count"
  /\ env' = Counted(env)
  /\ db' = [db EXCEPT !.env = env']
  /\ result' = [result EXCEPT !.pc = "submitter", !.handler = handler.epoch]
  /\ UNCHANGED <<contract, txManager, signals, building, sealing, results,
                 manager, chain, miner, starters, pendingRtx, left>>

\* The block is counted, the environment stored, the pending requests dropped,
\* and the block posted to whoever is subscribed now.
CountBlock ==
  /\ result.pc = "count"
  /\ env' = Counted(env)
  /\ db' = [db EXCEPT !.env = env']
  /\ pendingRtx' = <<>>
  /\ result' = [result EXCEPT !.pc = "submitter", !.handler = handler.epoch]
  /\ UNCHANGED <<contract, txManager, signals, building, sealing, results,
                 manager, chain, miner, starters, left>>

\* Post waits until the submitter receives the block, then the handler.
PostToSubmitter ==
  /\ result.pc = "submitter"
  /\ submitter = None
  /\ submitter' = result.block
  /\ result' = IF result.handler = 0 THEN Waiting
               ELSE [result EXCEPT !.pc = "handler"]
  /\ UNCHANGED <<contract, txManager, signals, building, sealing, results,
                 handler, inbox, past, watch, chain, db, env, miner, starters,
                 pendingRtx, left>>

\* The handler has unsubscribed meanwhile.
PostToNobody ==
  /\ result.pc = "handler"
  /\ handler.epoch # result.handler
  /\ result' = Waiting
  /\ UNCHANGED <<contract, txManager, signals, building, sealing, results,
                 manager, chain, db, env, miner, starters, pendingRtx, left>>

-----------------------------------------------------------------------------
(* The RootChainManager. *)

\* The process ends: what is left is the database, the chain and the
\* transactions sent.
Down ==
  /\ watch' = "down"
  /\ miner' = [running |-> FALSE, canStart |-> TRUE, shouldStart |-> FALSE]
  /\ env' = NewEnv
  /\ starters' = {}
  /\ signals' = 0 /\ building' = None /\ sealing' = None /\ results' = <<>>
  /\ result' = Waiting
  /\ submitter' = None /\ handler' = Idle
  /\ pendingRtx' = <<>> /\ inbox' = <<>> /\ past' = <<>>
  /\ UNCHANGED <<contract, txManager, chain, db>>

Crash ==
  /\ watch # "down"
  /\ Fault("crash")
  /\ Down

\* The events since root block n; their blocks ascend.
EventsSince(n) ==
  LET k == Cardinality({i \in DOMAIN epochs : epochs[i].at < n})
  IN  [i \in 1..(Len(epochs) - k) |-> k + i]

\* Startup: the environment is read from the database, and watchEvents finds
\* the events since the root block number stored.
Boot ==
  /\ watch = "down"
  /\ watch' = "iterate"
  /\ env' = db.env
  /\ past' = EventsSince(db.rootchainBlockNumber)
  /\ UNCHANGED <<contract, txManager, worker, submitter, handler, inbox, chain,
                 db, miner, starters, pendingRtx, left>>

\* All past events are handled: subscribe, start the transaction manager,
\* which sends what it has, and let the miner resume.
Subscribe ==
  /\ watch = "iterate"
  /\ past = <<>> /\ handler = Idle
  /\ watch' = "watch"
  /\ sent' = Len(raws)
  /\ starters' = starters \cup {[pc |-> "resume", epoch |-> 0]}
  /\ UNCHANGED <<contract, raws, added, worker, submitter, handler, inbox, past,
                 chain, db, env, miner, pendingRtx, left>>

\* An error of the BlockFinalized subscription ends the watching goroutine.
WatchEnds ==
  /\ watch = "watch"
  /\ Fault("subscription")
  /\ watch' = "dead"
  /\ UNCHANGED <<contract, txManager, worker, submitter, handler, inbox, past,
                 chain, db, env, miner, starters, pendingRtx>>

\* A handler that succeeds on a live event stores its root block number.
Handled(live, e) ==
  IF live
  THEN [db EXCEPT !.rootchainBlockNumber =
          IF @ < epochs[e].at THEN epochs[e].at ELSE @]
  ELSE db

\* Mutant: events of earlier epochs are handled again.
HandleEpochPrepared_NoCheck(e, live) ==
  /\ handler = Idle
  /\ starters' = IF epochs[e].isEmpty THEN starters
                 ELSE starters \cup {[pc |-> "kind", epoch |-> e]}
  /\ handler' = IF epochs[e].isRequest /\ ~epochs[e].isEmpty
                THEN [pc |-> "fetch", epoch |-> e, mined |-> 0, live |-> live]
                ELSE handler
  /\ db' = IF epochs[e].isRequest THEN db ELSE Handled(live, e)

\* handleEpochPrepared up to the point where it waits for mined blocks.
HandleEpochPrepared(e, live) ==
  /\ handler = Idle
  /\ \/ /\ env.epochNumber >= e
        /\ UNCHANGED <<db, starters, handler>>
     \/ /\ env.epochNumber < e /\ epochs[e].isEmpty
        /\ db' = Handled(live, e)
        /\ UNCHANGED <<starters, handler>>
     \/ /\ env.epochNumber < e /\ ~epochs[e].isEmpty
        /\ starters' = starters \cup {[pc |-> "kind", epoch |-> e]}
        /\ IF epochs[e].isRequest
           THEN /\ handler' = [pc |-> "fetch", epoch |-> e, mined |-> 0,
                               live |-> live]
                /\ UNCHANGED db
           ELSE /\ db' = Handled(live, e)
                /\ UNCHANGED handler

HandleNext ==
  /\ \/ /\ watch = "iterate" /\ past # <<>>
        /\ past' = Tail(past) /\ UNCHANGED inbox
        /\ HandleEpochPrepared(Head(past), FALSE)
     \/ /\ watch # "iterate" /\ inbox # <<>>
        /\ inbox' = Tail(inbox) /\ UNCHANGED past
        /\ HandleEpochPrepared(Head(inbox), TRUE)
  /\ UNCHANGED <<contract, txManager, worker, submitter, watch, chain, env,
                 miner, pendingRtx, left>>

\* EnqueueReqeustTxs of the k-th body of the handler's epoch.
Enqueue(k) == Append(pendingRtx, epochs[handler.epoch].start + k)

\* The requests of all blocks are read, rcm.lock is released, and the first
\* body enqueued.
FetchRequests ==
  /\ handler.pc = "fetch"
  /\ handler' = [handler EXCEPT !.pc = "wait"]
  /\ pendingRtx' = Enqueue(0)
  /\ UNCHANGED <<contract, txManager, worker, submitter, inbox, past, watch,
                 chain, db, env, miner, starters, left>>

\* A call of the provider fails: the handler gives the epoch up.
FetchFails ==
  /\ handler.pc = "fetch"
  /\ Fault("rpc")
  /\ handler' = Idle
  /\ UNCHANGED <<contract, txManager, worker, submitter, inbox, past, watch,
                 chain, db, env, miner, starters, pendingRtx>>

\* Mutant: only the first body is enqueued.
PostToHandler_FirstBody ==
  /\ result.pc = "handler" /\ handler.epoch = result.handler
  /\ handler.pc = "wait"
  /\ result.block.request
  /\ result' = Waiting
  /\ handler' = [handler EXCEPT !.mined = @ + 1,
       !.pc = IF handler.mined + 1 < epochs[handler.epoch].end -
                                     epochs[handler.epoch].start + 1
              THEN "wait" ELSE "relock"]
  /\ UNCHANGED <<contract, txManager, signals, building, sealing, results,
                 submitter, inbox, past, watch, chain, db, env, miner, starters,
                 pendingRtx, left>>

\* The handler receives a request block and enqueues the next body.
PostToHandler ==
  /\ result.pc = "handler" /\ handler.epoch = result.handler
  /\ handler.pc = "wait"
  /\ result.block.request
  /\ result' = Waiting
  /\ LET n == handler.mined + 1
         e == epochs[handler.epoch] IN
       IF n < e.end - e.start + 1
       THEN /\ handler' = [handler EXCEPT !.mined = n]
            /\ pendingRtx' = Enqueue(n)
       ELSE /\ handler' = [handler EXCEPT !.mined = n, !.pc = "relock"]
            /\ UNCHANGED pendingRtx
  /\ UNCHANGED <<contract, txManager, signals, building, sealing, results,
                 submitter, inbox, past, watch, chain, db, env, miner, starters,
                 left>>

\* Any other block ends the handler, whose deferred Unlock of a mutex it does
\* not hold ends the process.
PostOtherBlock ==
  /\ result.pc = "handler" /\ handler.epoch = result.handler
  /\ handler.pc = "wait"
  /\ ~result.block.request
  /\ Down
  /\ UNCHANGED left

\* All request blocks are mined.
FinishRequestEpoch ==
  /\ handler.pc = "relock"
  /\ handler' = Idle
  /\ db' = Handled(handler.live, handler.epoch)
  /\ UNCHANGED <<contract, txManager, worker, submitter, inbox, past, watch,
                 chain, env, miner, starters, pendingRtx, left>>

\* GetBlockByNumber: block 0 is the genesis block, which holds no transaction.
BlockAt(n) ==
  IF n \in DOMAIN chain THEN chain[n] ELSE IF n = 0 THEN NRB(0) ELSE None

\* Mutant: a complete epoch is submitted up to the head of the chain.
Submission_ToHead(block) ==
  IF env.isRequest
  THEN {[func |-> "submitORB", epoch |-> 0, blocks |-> <<block>>]}
  ELSE IF env.completed
  THEN {[func |-> "submitNRE", epoch |-> env.epochNumber,
         blocks |-> [i \in 1..(Len(chain) - env.start + 1) |->
                       BlockAt(env.start + i - 1)]]}
  ELSE {}

\* The submission of a mined block: the block itself in a request epoch, all
\* blocks of the epoch's range once a non-request epoch is complete.
Submission(block) ==
  IF env.isRequest
  THEN {[func |-> "submitORB", epoch |-> 0, blocks |-> <<block>>]}
  ELSE IF env.completed
  THEN {[func |-> "submitNRE", epoch |-> env.epochNumber,
         blocks |-> [i \in 1..(env.end - env.start + 1) |->
                       BlockAt(env.start + i - 1)]]}
  ELSE {}

\* txManager.Add refuses a raw transaction it has seen.  A running manager
\* sends the new one; whether it does so at once makes no difference to when
\* the root chain may execute it.
Add(new) ==
  /\ added' = added \cup new
  /\ \/ new \subseteq added /\ UNCHANGED raws
     \/ \E raw \in new \ added : raws' = Append(raws, raw)

\* submitBlockOrEpoch, under rcm.lock, which the handler holds while it
\* fetches.
Submit ==
  /\ submitter # None
  /\ handler.pc # "fetch"
  /\ submitter' = None
  /\ miner' = IF env.completed THEN Stopped(miner) ELSE miner
  /\ Add(Submission(submitter))
  /\ sent' = IF watch = "iterate" THEN sent ELSE Len(raws')
  /\ UNCHANGED <<contract, worker, handler, inbox, past, watch, chain, db,
                 env, starters, pendingRtx, left>>

-----------------------------------------------------------------------------
Next ==
  \/ Execute
  \/ MinerStart \/ SyncStarts \/ SyncEnds
  \/ BuildBlock \/ NothingToBuild \/ CommitBlock \/ SealBlock
  \/ WriteBlock \/ CountBlock \/ PostToSubmitter \/ PostToNobody
  \/ Crash \/ Boot \/ Subscribe \/ WatchEnds
  \/ HandleNext \/ FetchRequests \/ FetchFails
  \/ PostToHandler \/ PostOtherBlock \/ FinishRequestEpoch
  \/ Submit

Spec == Init /\ [][Next]_vars

\* Every goroutine is scheduled, the root chain executes what is sent, and
\* transactions of users keep arriving, so that a worker with work builds.
Fairness ==
  /\ WF_vars(Execute) /\ WF_vars(MinerStart)
  /\ WF_vars(BuildBlock) /\ WF_vars(CommitBlock) /\ WF_vars(SealBlock)
  /\ WF_vars(WriteBlock) /\ WF_vars(CountBlock) /\ WF_vars(PostToSubmitter)
  /\ WF_vars(PostToNobody) /\ WF_vars(PostToHandler)
  /\ WF_vars(Boot) /\ WF_vars(Subscribe) /\ WF_vars(HandleNext)
  /\ WF_vars(FetchRequests) /\ WF_vars(FinishRequestEpoch) /\ WF_vars(Submit)

FairSpec == Spec /\ Fairness

-----------------------------------------------------------------------------
\* What the contract has accepted is what the node has mined, block by block:
\* whatever the goroutines interleave, a submission is made of blocks of the
\* chain at the numbers the contract takes them for (submitBlockOrEpoch).
AcceptedIsMined ==
  /\ Len(accepted) <= Len(chain)
  /\ \A n \in DOMAIN accepted : accepted[n] = chain[n]

\* No two different submissions for one epoch, or for one block, are ever
\* added to the transaction manager, whatever is mined past the end of an
\* epoch and however often the node restarts.
SubmissionsAgree ==
  \A r, s \in added :
    /\ r.func = s.func
    /\ r.func = "submitNRE" => r.epoch = s.epoch
    /\ r.func = "submitORB" => r.blocks[1].number = s.blocks[1].number
    => r = s

\* A complete epoch has all its blocks: submitBlockOrEpoch reads the range
\* start..end of a complete epoch from the chain without looking for gaps.
CompleteIsMined == env.completed => Len(chain) >= env.end

\* The epoch environment never falls back to an earlier epoch: an event of
\* the past is not handled twice, and goroutines of miner.Start do not
\* overtake each other (handleEpochPrepared's check of EpochNumber).
EpochsAdvance == [][watch' # "down" /\ watch # "down"
                    => env'.epochNumber >= env.epochNumber]_vars

\* Every block of the chain stands at its number and is of the kind the
\* contract announced for it, a request block holds exactly the requests of its number, and
\* nothing is mined past the last announced epoch.
BlocksFollowEpochs ==
  \A n \in DOMAIN chain :
    /\ chain[n].number = n
    /\ \E e \in DOMAIN epochs :
         /\ ~epochs[e].isEmpty
         /\ epochs[e].start <= n /\ n <= epochs[e].end
         /\ chain[n].request = epochs[e].isRequest
         /\ chain[n].request => chain[n].body = <<n>> /\ chain[n].whole

\* No submission is refused by the contract.
NothingReverted == reverted = {}

\* "if the epoch is completed, stop mining operation and wait next epoch":
\* no block is mined past the end of the last epoch announced.
StopsAtEpochEnd == Len(chain) <= LastEpoch.end

\* Every epoch announced is mined, submitted and accepted in the end.
EpochsAccepted ==
  \A e \in 1..MaxEpochs :
    (e \in DOMAIN epochs) ~> (e \in DOMAIN epochs /\ Len(accepted) >= epochs[e].end)

=============================================================================
