-------------------------- MODULE DelegatorLifecycle --------------------------
(***************************************************************************)
(* delegations.DelegatorLifecycle: one delegation from the position it was *)
(* given to its withdrawal, processed by jobs of the engine's worker pool. *)
(* Jobs of one lifecycle overlap: Process reads the status before it takes *)
(* d.mu and again, in a deferred call, after it has released it.           *)
(*                                                                         *)
(* The chain is external: blocks, the validator delegated to, the mempool  *)
(* and the staker contract's answer to the three transactions.  The code   *)
(* sees the validator through a snapshot (contract.Service) that lags.     *)
(***************************************************************************)
EXTENDS LifecycleConfig, FiniteSets

CONSTANTS Slots,           \* jobs of this lifecycle the pool holds at a time
          Expiration,      \* stack.DefaultExpiration, in blocks
          QueueBlock,      \* first block the delegation may be queued at
          StakingPeriods,  \* periods to stay before the exit is signalled
          WithdrawDelay,   \* blocks between exit and withdrawal
          PeriodLength,    \* blocks of a staking period
          MaxHeight,       \* bound: the chain's height stops growing here
          MaxTx,           \* bound: transactions alive at a time
          LossUntil,       \* last block that may leave a transaction waiting
          MaxFailures,     \* bound: requests to the node that fail
          BlocksWait       \* do blocks come slowly: only when every job is done?

ASSUME DelegatorAssumption ==
  /\ {Expiration, QueueBlock, StakingPeriods, WithdrawDelay, MaxFailures} \subseteq Nat
  /\ {PeriodLength, MaxHeight, MaxTx, LossUntil} \subseteq Nat \ {0}
  /\ BlocksWait \in BOOLEAN

VARIABLES
  status,          \* d.status
  activatedBlock, startPeriod,
  id,              \* d.id: the transaction that added the delegation, or NoId
  queuedTx, exitTx, withdrawTx,
  slotHeld,        \* does the position manager still book the position?
  jobs,            \* slot -> [pc, block, branch]
  height, ticked,  \* best block; has the engine seen it?
  validator, view, \* the validator delegated to, and the snapshot of it
  txs,             \* transaction id -> what became of it
  staked,          \* id of the adding transaction -> delegation on chain
  failures         \* requests that failed so far

own   == <<status, activatedBlock, startPeriod, id, queuedTx, exitTx, withdrawTx>>
chain == <<height, ticked, validator, staked>>
vars  == <<own, slotHeld, jobs, chain, view, txs, failures>>

Pending == 0
Queued == 1
Active == 2
ExitSignalled == 3
Withdrawn == 4

NoId == 0
TxIds == 1..MaxTx
NoReceipt == [block |-> 0, result |-> "none"]
NoTx == [id |-> NoId, receipt |-> NoReceipt, pollAttempts |-> 0]  \* tx.reset()
Free == [kind |-> "free", age |-> 0, receipt |-> NoReceipt]
NoView == [status |-> "none", completed |-> 0, exiting |-> FALSE]
Idle == [pc |-> "idle", block |-> 0, branch |-> Pending]

-----------------------------------------------------------------------------
(* The chain. *)

CurrentPeriod(v) == IF v.status = "active" THEN v.completed + 1 ELSE v.completed

Started(v, d) == CurrentPeriod(v) >= d.start
Ended(v, d) == \/ v.status = "exit" /\ Started(v, d)
               \/ d.last # 0 /\ CurrentPeriod(v) > d.last

Answer(result, delegations) == [result |-> result, staked |-> delegations]

\* addDelegation: starts with the next period, at a validator that is there.  A
\* validator on its way out may be refused, with either answer, or not.
AddOutcomes(v, t) ==
  LET new == [start |-> CurrentPeriod(v) + 1, last |-> 0, out |-> FALSE]
  IN  (IF v.status = "active"
         THEN {Answer("ok", [staked EXCEPT ![t] = new])} ELSE {})
      \cup (IF v.status = "exit" \/ v.exiting
              THEN {Answer(why, staked) : why \in {"notQueuedOrActive", "other"}}
              ELSE {})

\* signalDelegationExit: a running delegation ends with the current period.
ExitOutcome(v, d) ==
  CASE ~Started(v, d) -> Answer("notStarted", staked)
    [] Started(v, d) /\ Ended(v, d) -> Answer("ended", staked)
    [] Started(v, d) /\ ~Ended(v, d) /\ d.last # 0 -> Answer("other", staked)
    [] OTHER -> Answer("ok", [staked EXCEPT ![id].last = CurrentPeriod(v)])

\* withdrawDelegation: a delegation that has not started or that has ended, once.
WithdrawOutcome(v, d) ==
  IF d.out \/ (Started(v, d) /\ ~Ended(v, d))
    THEN Answer("other", staked)
    ELSE Answer("ok", [staked EXCEPT ![id].out = TRUE])

Outcomes(v, t) ==
  CASE txs[t].kind = "add"      -> AddOutcomes(v, t)
    [] txs[t].kind = "exit"     -> {ExitOutcome(v, staked[id])}
    [] txs[t].kind = "withdraw" -> {WithdrawOutcome(v, staked[id])}

Unmined(tx) == tx.kind # "free" /\ tx.receipt = NoReceipt
InMempool(t) == Unmined(txs[t]) /\ txs[t].age < Expiration

Least(n) == IF n < MaxHeight THEN n ELSE MaxHeight

\* A block makes every waiting transaction older; none is mined once it expired.
Aged == [t \in TxIds |-> IF Unmined(txs[t]) /\ txs[t].age <= Expiration
                           THEN [txs[t] EXCEPT !.age = @ + 1] ELSE txs[t]]

\* The validator after the next block: a period may end with it, and one that
\* signalled its exit leaves at the end of a period.
ValidatorAfterBlock ==
  IF (height + 1) % PeriodLength = 0 /\ validator.status = "active" /\ height < MaxHeight
    THEN [validator EXCEPT !.completed = @ + 1,
                           !.status = IF validator.exiting THEN "exit" ELSE @]
    ELSE validator

NewBlock ==
  /\ BlocksWait => /\ \A s \in Slots : jobs[s] = Idle
                   /\ ticked \/ status = Withdrawn
                   /\ view = validator
  /\ height' = Least(height + 1)
  /\ ticked' = FALSE
  /\ validator' = ValidatorAfterBlock
  /\ UNCHANGED <<own, slotHeld, jobs, view, failures>>

\* A block with none of this lifecycle's transactions in it.
EmptyBlock ==
  /\ height < LossUntil \/ \A t \in TxIds : ~InMempool(t)
  /\ NewBlock
  /\ txs' = Aged
  /\ UNCHANGED staked

\* A block that includes transaction t.
BlockWith(t) ==
  /\ InMempool(t)
  /\ NewBlock
  /\ \E o \in Outcomes(ValidatorAfterBlock, t) :
       /\ txs' = [Aged EXCEPT ![t].receipt = [block |-> height', result |-> o.result]]
       /\ staked' = o.staked

ValidatorSignalsExit ==
  /\ validator.status = "active" /\ ~validator.exiting
  /\ validator' = [validator EXCEPT !.exiting = TRUE]
  /\ UNCHANGED <<own, slotHeld, jobs, view, txs, height, ticked, staked, failures>>

Failure == failures < MaxFailures /\ failures' = failures + 1

\* contract.Service refreshes its snapshot; for a validator that left the lists
\* a failing request leaves nothing (a nil) until a later poll.
PollView ==
  /\ \/ view' = validator /\ UNCHANGED failures
     \/ validator.status = "exit" /\ view' = NoView /\ Failure
  /\ view' # view
  /\ UNCHANGED <<own, slotHeld, jobs, chain, txs>>

-----------------------------------------------------------------------------
(* Sending a transaction and polling for its receipt. *)

\* A transaction no field refers to and that can no longer change the chain is
\* dropped from the model when its id is needed again.
Forgotten(t) ==
  /\ t \notin {id, queuedTx.id, exitTx.id, withdrawTx.id}
  /\ ~InMempool(t)
  /\ staked[t].start = 0

Unused(t) == txs[t].kind = "free" \/ Forgotten(t)

\* sendTransaction: the mempool takes it, tx.id is set, there is no receipt yet.
\* A request that fails may still have reached the mempool.
SendsAs(tx, newTx, kind, fails) ==
  \/ \E t \in TxIds :
       /\ Unused(t) /\ \A u \in TxIds : u < t => ~Unused(u)
       /\ txs' = [txs EXCEPT ![t] = [Free EXCEPT !.kind = kind]]
       /\ newTx = IF fails THEN tx ELSE [tx EXCEPT !.id = t]
  \/ fails /\ newTx = tx /\ UNCHANGED txs

\* What a poll leaves of tx, and the receipt to act on, if any.
Poll(tx, receipt) == [tx |-> tx, receipt |-> receipt]

Recorded(poll) ==
  IF poll.receipt = NoReceipt THEN poll.tx ELSE [poll.tx EXCEPT !.receipt = poll.receipt]

\* Fault: a transaction is never given up.
handleReceiptErrorForever(tx) == Poll([tx EXCEPT !.pollAttempts = @ + 1], NoReceipt)

\* Fault: a transaction is given up one poll too early.
handleReceiptErrorEarly(tx) ==
  Poll(IF tx.pollAttempts >= Expiration THEN NoTx ELSE [tx EXCEPT !.pollAttempts = @ + 1],
       NoReceipt)

\* handleReceiptError: a receipt not found, or a request that failed.
handleReceiptError(tx) ==
  Poll(IF tx.pollAttempts > Expiration THEN NoTx ELSE [tx EXCEPT !.pollAttempts = @ + 1],
       NoReceipt)

\* Fault: a reverted transaction counts as done.
processReceiptAny(tx, receipt, allowedReverts, fails) == Poll(tx, receipt)

\* Fault: a reverted transaction is not reset, so it is never sent again.
processReceiptNoReset(tx, receipt, allowedReverts, fails) ==
  Poll(tx, IF receipt.result \in {"ok"} \cup allowedReverts THEN receipt ELSE NoReceipt)

\* processReceipt: the reason of a revert is asked for, a request that may fail.
processReceipt(tx, receipt, allowedReverts, fails) ==
  IF receipt.result = "ok" \/ (receipt.result \in allowedReverts /\ ~fails)
    THEN Poll(tx, receipt) ELSE Poll(NoTx, NoReceipt)

\* pollTransactionReceipt.
Polls(tx, allowedReverts, fails) ==
  LET receipt == txs[tx.id].receipt
  IN  (IF receipt = NoReceipt \/ fails THEN {handleReceiptError(tx)} ELSE {})
      \cup (IF receipt # NoReceipt
              THEN {processReceipt(tx, receipt, allowedReverts, fails)} ELSE {})

-----------------------------------------------------------------------------
(* The handlers, each in one critical section of d.mu; fails: one of the        *)
(* requests the handler makes fails.                                         *)

isValidationUnavailable == view.status = "exit" \/ view.exiting

\* handleQueueReceipt; the request for the period details may fail.
handleQueueReceipt(receipt, fails) ==
  \/ /\ receipt.result # "ok"
     /\ status' = Withdrawn
     /\ UNCHANGED <<startPeriod, id>>
  \/ /\ receipt.result = "ok" /\ ~fails
     /\ startPeriod' = staked[queuedTx.id].start
     /\ id' = queuedTx.id
     /\ status' = Queued
  \/ /\ receipt.result = "ok" /\ fails
     /\ UNCHANGED <<status, startPeriod, id>>

queueDelegation(fails) ==
  \/ /\ queuedTx.id = NoId
     /\ SendsAs(queuedTx, queuedTx', "add", fails)
     /\ UNCHANGED <<status, startPeriod, id>>
  \/ /\ queuedTx.id # NoId
     /\ \E poll \in Polls(queuedTx, {"notQueuedOrActive"}, fails) :
          IF poll.receipt = NoReceipt
            THEN queuedTx' = poll.tx /\ UNCHANGED <<status, startPeriod, id>>
            ELSE /\ handleQueueReceipt(poll.receipt, fails)
                 /\ queuedTx' = IF status' = Queued
                                  THEN [poll.tx EXCEPT !.receipt = poll.receipt]
                                  ELSE poll.tx
     /\ UNCHANGED txs

\* Fault: a job that comes late handles the receipt a second time.
processPendingStateAgain(block, fails) ==
  /\ block >= QueueBlock /\ view # NoView /\ queueDelegation(fails)
  /\ UNCHANGED <<activatedBlock, exitTx, withdrawTx>>

processPendingState(block, fails) ==
  /\ queuedTx.receipt = NoReceipt /\ block >= QueueBlock /\ view # NoView
  /\ \/ /\ isValidationUnavailable
        /\ status' = Withdrawn
        /\ UNCHANGED <<queuedTx, startPeriod, id, txs>>
     \/ /\ ~isValidationUnavailable
        /\ queueDelegation(fails)
  /\ UNCHANGED <<activatedBlock, exitTx, withdrawTx>>

\* With no completed period the subtraction wraps to the largest uint32.
hasStarted == startPeriod >= uint32(view.completed - 1)

checkForActivation ==
  /\ hasStarted
  /\ status' = Active
  /\ activatedBlock' = uint32(startPeriod * PeriodLength)  \* the validator starts at 0

processQueuedState ==
  /\ status >= Queued /\ activatedBlock = 0 /\ view # NoView
  /\ checkForActivation
  /\ UNCHANGED <<startPeriod, id, queuedTx, exitTx, withdrawTx, txs>>

shouldSignalExit(block) ==
  \/ block >= MinExitBlock(StakingPeriods, activatedBlock, PeriodLength)
  \/ view.status = "exit"

\* Fault: the exit counts as signalled once the transaction is sent.
signalExitEager(fails) ==
  /\ exitTx.id = NoId
  /\ SendsAs(exitTx, exitTx', "exit", fails)
  /\ status' = ExitSignalled

signalExit(fails) ==
  \/ /\ exitTx.id = NoId
     /\ SendsAs(exitTx, exitTx', "exit", fails)
     /\ UNCHANGED status
  \/ /\ exitTx.id # NoId
     /\ \E poll \in Polls(exitTx, {"ended", "notStarted"}, fails) :
          /\ exitTx' = Recorded(poll)
          /\ status' = IF poll.receipt = NoReceipt THEN status ELSE ExitSignalled
     /\ UNCHANGED txs

\* Fault: a job that comes late polls the exit again.
processActiveStateAgain(block, fails) ==
  /\ view # NoView /\ shouldSignalExit(block) /\ signalExit(fails)
  /\ UNCHANGED <<activatedBlock, startPeriod, id, queuedTx, withdrawTx>>

processActiveState(block, fails) ==
  /\ status # ExitSignalled /\ exitTx.receipt = NoReceipt /\ view # NoView
  /\ shouldSignalExit(block)
  /\ signalExit(fails)
  /\ UNCHANGED <<activatedBlock, startPeriod, id, queuedTx, withdrawTx>>

canWithdraw == exitTx.receipt # NoReceipt /\ status = ExitSignalled

withdrawDelegation(fails) ==
  \/ /\ withdrawTx.id = NoId
     /\ SendsAs(withdrawTx, withdrawTx', "withdraw", fails)
     /\ UNCHANGED status
  \/ /\ withdrawTx.id # NoId
     /\ \E poll \in Polls(withdrawTx, {}, fails) :
          /\ withdrawTx' = Recorded(poll)
          /\ status' = IF poll.receipt = NoReceipt THEN status ELSE Withdrawn
     /\ UNCHANGED txs

processExitedState(block, fails) ==
  /\ withdrawTx.receipt = NoReceipt /\ canWithdraw
  /\ block >= MinWithdrawBlock(exitTx.receipt.block, WithdrawDelay)
  /\ withdrawDelegation(fails)
  /\ UNCHANGED <<activatedBlock, startPeriod, id, queuedTx, exitTx>>

-----------------------------------------------------------------------------
(* Jobs of the engine. *)

\* Engine.Run submits one job for each block it sees, until the lifecycle is done.
Submit(s) ==
  /\ ~ticked /\ jobs[s] = Idle /\ status # Withdrawn
  /\ jobs' = [jobs EXCEPT ![s] = [pc |-> "queued", block |-> height, branch |-> Pending]]
  /\ ticked' = TRUE
  /\ UNCHANGED <<own, slotHeld, height, validator, staked, view, txs, failures>>

\* Process: the switch reads d.status without d.mu.
ReadStatus(s) ==
  /\ jobs[s].pc = "queued"
  /\ jobs' = [jobs EXCEPT ![s].pc = "locked", ![s].branch = status]
  /\ UNCHANGED <<own, slotHeld, chain, view, txs, failures>>

Handler(block, branch, fails) ==
  \/ branch = Pending       /\ processPendingState(block, fails)
  \/ branch = Queued        /\ processQueuedState /\ ~fails
  \/ branch = Active        /\ processActiveState(block, fails)
  \/ branch = ExitSignalled /\ processExitedState(block, fails)

\* A handler that returns early changes nothing.
Returns(block, branch) ==
  \/ /\ branch = Pending
     /\ queuedTx.receipt # NoReceipt \/ block < QueueBlock \/ view = NoView
  \/ /\ branch = Queued
     /\ status < Queued \/ activatedBlock # 0 \/ view = NoView \/ ~hasStarted
  \/ /\ branch = Active
     /\ \/ status = ExitSignalled \/ exitTx.receipt # NoReceipt \/ view = NoView
        \/ ~shouldSignalExit(block)
  \/ /\ branch = ExitSignalled
     /\ \/ withdrawTx.receipt # NoReceipt \/ ~canWithdraw
        \/ block < MinWithdrawBlock(exitTx.receipt.block, WithdrawDelay)
  \/ branch = Withdrawn

Handle(s) ==
  /\ jobs[s].pc = "locked"
  /\ \/ \E fails \in BOOLEAN :
          /\ Handler(jobs[s].block, jobs[s].branch, fails)
          /\ IF fails THEN Failure ELSE UNCHANGED failures
     \/ /\ Returns(jobs[s].block, jobs[s].branch)
        /\ UNCHANGED <<own, txs, failures>>
  /\ jobs' = [jobs EXCEPT ![s].pc = "cleanup"]
  /\ UNCHANGED <<slotHeld, chain, view>>

\* cleanupIfComplete, deferred: reads d.status without d.mu.
Cleanup(s) ==
  /\ jobs[s].pc = "cleanup"
  /\ slotHeld' = (slotHeld /\ status \notin {ExitSignalled, Withdrawn})
  /\ jobs' = [jobs EXCEPT ![s] = Idle]
  /\ UNCHANGED <<own, chain, view, txs, failures>>

-----------------------------------------------------------------------------
Init ==
  /\ status = Pending /\ activatedBlock = 0 /\ startPeriod = 0 /\ id = NoId
  /\ queuedTx = NoTx /\ exitTx = NoTx /\ withdrawTx = NoTx
  /\ slotHeld = TRUE
  /\ jobs = [s \in Slots |-> Idle]
  /\ height = 0 /\ ticked = FALSE
  /\ validator = [status |-> "active", completed |-> 0, exiting |-> FALSE]
  /\ view = validator
  /\ txs = [t \in TxIds |-> Free]
  /\ staked = [t \in TxIds |-> [start |-> 0, last |-> 0, out |-> FALSE]]
  /\ failures = 0

Job(s) == Submit(s) \/ ReadStatus(s) \/ Handle(s) \/ Cleanup(s)

Environment == \/ EmptyBlock
               \/ \E t \in TxIds : BlockWith(t)
               \/ ValidatorSignalsExit
               \/ PollView

Next == \/ \E s \in Slots : Job(s)
        \/ Environment

Spec == Init /\ [][Next]_vars

\* The workers run every job, the engine hears of blocks, contract.Service polls
\* and the chain goes on: it includes a transaction within the given number of
\* blocks, which LossUntil says.
Fairness == /\ \A s \in Slots : WF_vars(Submit(s)) /\ WF_vars(ReadStatus(s))
                                /\ WF_vars(Handle(s)) /\ WF_vars(Cleanup(s))
            /\ WF_vars(EmptyBlock \/ \E t \in TxIds : BlockWith(t))
            /\ WF_vars(PollView)

FairSpec == Spec /\ Fairness

-----------------------------------------------------------------------------
(* Properties. *)

Receipts == [block : 0..MaxHeight,
             result : {"none", "ok", "notQueuedOrActive", "notStarted", "ended", "other"}]
SentTxs == [id : TxIds \cup {NoId}, receipt : Receipts, pollAttempts : 0..(Expiration + 1)]
Validations == [status : {"active", "exit"}, completed : 0..MaxHeight, exiting : BOOLEAN]

\* Every field has its type; a transaction is polled at most Expiration + 2 times
\* before it is given up (handleReceiptError).
TypeOK ==
  /\ status \in Pending..Withdrawn
  /\ activatedBlock \in Nat /\ startPeriod \in Nat /\ id \in TxIds \cup {NoId}
  /\ {queuedTx, exitTx, withdrawTx} \subseteq SentTxs
  /\ slotHeld \in BOOLEAN /\ ticked \in BOOLEAN
  /\ jobs \in [Slots -> [pc : {"idle", "queued", "locked", "cleanup"},
                         block : 0..MaxHeight, branch : Pending..Withdrawn]]
  /\ height \in 0..MaxHeight /\ validator \in Validations
  /\ view \in Validations \cup {NoView}
  /\ txs \in [TxIds -> [kind : {"free", "add", "exit", "withdraw"},
                        age : 0..(Expiration + 1), receipt : Receipts]]
  /\ failures \in 0..MaxFailures
  /\ staked \in [TxIds -> [start : Nat, last : Nat, out : BOOLEAN]]

\* A job that chose its handler by a status read before it got d.mu (Process)
\* never takes the lifecycle back to an earlier status.
StatusNeverBack == [][status' >= status]_vars

\* A receipt the lifecycle acted on stays (Process, reset): a late job or a failing
\* request does not make it forget the transaction and send it once more.
ReceiptsStay ==
  [][\A r \in {<<queuedTx.receipt, queuedTx'.receipt>>, <<exitTx.receipt, exitTx'.receipt>>,
                <<withdrawTx.receipt, withdrawTx'.receipt>>} :
       r[1] # NoReceipt => r[2] = r[1]]_vars

OnChain == {t \in TxIds : staked[t].start # 0}

\* The stake is not locked twice: a transaction given up after its polls
\* (handleReceiptError) has expired and is not mined beside the one sent next.
\* A failed request can break this, so it is said of a node that answers.
AddedAtMostOnce == failures = 0 => Cardinality(OnChain) <= 1

\* The lifecycle records a withdrawal only when the stake has left the contract.
WithdrawnOnChain == withdrawTx.receipt # NoReceipt => staked[id].out

\* A position is given back (cleanupIfComplete) only when the delegation that
\* holds it can not go on: it signalled its exit, ended, or never starts.
ReleasedIsStopping ==
  ~slotHeld /\ id # NoId =>
     \/ staked[id].out \/ staked[id].last # 0 \/ Ended(validator, staked[id])
     \/ validator.status = "exit"

\* A delegation whose delegator is done does not stay staked (delegator.go:48: the
\* lifecycle is managed "from pending to withdrawn").
WithdrawnIsClean ==
  status = Withdrawn => \A t \in TxIds : staked[t].start # 0 => staked[t].out

\* Every delegator is withdrawn in the end and its position is free again.
EventuallyReleased == <>[](status = Withdrawn /\ ~slotHeld)
=============================================================================
