-------------------------- MODULE ValidatorLifecycle --------------------------
(***************************************************************************)
(* validators.ValidatorLifecycle with its state, transaction and event     *)
(* managers: each validator queued, activated, exited and withdrawn by the *)
(* jobs of the engine's workers, which hold v.mu from beginning to end.    *)
(*                                                                         *)
(* A job stops where it waits for the network: between the two reads of    *)
(* the first check, and in SendTransactionAndWait, up to a minute.  The    *)
(* program may be killed and run again on the same network: lifecycles     *)
(* then begin anew and find out what the chain knows of them.              *)
(***************************************************************************)
EXTENDS ContractService, LifecycleConfig

CONSTANTS MaxWorkers,      \* jobs running at a time
          QueueBlock,      \* first block a validator may be queued at
          StakingPeriods,  \* periods to stay before the exit is signalled
          WithdrawDelay,   \* blocks between exit and withdrawal
          BlocksWait       \* do blocks come slowly: only when jobs and poll are done?

ASSUME ValidatorAssumption ==
  /\ MaxWorkers \in Nat \ {0}
  /\ {QueueBlock, StakingPeriods, WithdrawDelay} \subseteq Nat
  /\ BlocksWait \in BOOLEAN

VARIABLES
  status, activatedBlock, firstProcessed,        \* StateManager
  queuedReceipt, exitReceipt, withdrawReceipt,   \* TransactionManager
  registered,  \* is the validator open for delegations in the position manager?
  job,         \* where the validator's job is: idle, check, handle or send
  ticked       \* has the engine submitted a job for this block?

receipts == <<queuedReceipt, exitReceipt, withdrawReceipt>>
state == <<status, activatedBlock, receipts>>
vars == <<chainVars, serviceVars, faults, state, firstProcessed, registered, job, ticked>>

Pending == 0
Queued == 1
Active == 2
ExitSignalled == 3
Withdrawn == 4

All(x) == [v \in Validators |-> x]

\* NewValidatorLifecycle, NewStateManager, NewTransactionManager.
LifecyclesInit ==
  /\ status = All(Pending) /\ activatedBlock = All(0) /\ firstProcessed = All(FALSE)
  /\ queuedReceipt = All(FALSE) /\ exitReceipt = All(0) /\ withdrawReceipt = All(FALSE)
  /\ registered = All(FALSE)
  /\ job = All("idle") /\ ticked = All(FALSE)

Init ==
  /\ height = 0 /\ validation = All(Unknown) /\ sent = All(Nothing) /\ orphans = {}
  /\ ServiceInit /\ faults = 0
  /\ LifecyclesInit

-----------------------------------------------------------------------------
(* StateManager.  What a check finds: the fields it may set.                 *)

Found(v) == [status |-> status[v], activated |-> activatedBlock[v],
             queued |-> queuedReceipt[v], err |-> FALSE]

\* HandleExistingValidator; the period details or the receipt may not be had.
HandleExistingValidator(v, found, fails) ==
  CASE fails = "details" -> found
    [] fails = "receipt" -> [found EXCEPT !.activated = validation[v].start,
                                          !.status = Queued]
    [] OTHER             -> [found EXCEPT !.activated = validation[v].start,
                                          !.status = Queued, !.queued = TRUE]

\* CheckAlreadyExited: one that has signalled its exit counts as withdrawn.  An
\* exit event without an exit block does not exist, so its receipt finds nothing.
CheckAlreadyExited(v, found, fails) ==
  IF fails = "exited" THEN [found EXCEPT !.err = TRUE]
  ELSE IF Status(v) \in {"absent", "exiting", "exit"}
    THEN [found EXCEPT !.status = Withdrawn]
    ELSE found

\* The rest of performInitialStateCheck, existing being what its first read said.
InitialState(v, existing, fails) ==
  LET known == HandleExistingValidator(v, Found(v), fails)
      active == IF existing \notin {"active", "exiting"} THEN known
                ELSE IF fails = "active" THEN [known EXCEPT !.err = TRUE]
                ELSE [known EXCEPT !.activated = validation[v].start, !.status = Active]
  IN  IF active.err \/ ~active.queued THEN active ELSE CheckAlreadyExited(v, active, fails)

Take(v, found) ==
  /\ status' = [status EXCEPT ![v] = found.status]
  /\ activatedBlock' = [activatedBlock EXCEPT ![v] = found.activated]
  /\ queuedReceipt' = [queuedReceipt EXCEPT ![v] = found.queued]
  /\ UNCHANGED <<exitReceipt, withdrawReceipt>>

TransitionTo(v, newStatus) ==
  /\ status' = [status EXCEPT ![v] = newStatus]
  /\ UNCHANGED activatedBlock

\* Which request fails: none, or one of those named.
OneOf(requests) == {"none"} \cup requests
Counted(fails) == IF fails = "none" THEN UNCHANGED faults ELSE Fault

-----------------------------------------------------------------------------
(* Jobs.  Process(block) with block the engine's best: a job that comes late *)
(* has a smaller one, and then does what it would have done earlier or nothing. *)

Busy == {v \in Validators : job[v] # "idle"}

MayStart(v) ==
  /\ job[v] = "idle" /\ ~ticked[v] /\ status[v] # Withdrawn
  /\ Cardinality(Busy) < MaxWorkers

Starts(v) == MayStart(v) /\ ticked' = [ticked EXCEPT ![v] = TRUE]

Goes(v, place) == job' = [job EXCEPT ![v] = place]

\* RefreshState, the first time: GetValidation.
FirstCheck(v) ==
  /\ Starts(v) /\ ~firstProcessed[v]
  /\ firstProcessed' = [firstProcessed EXCEPT ![v] = TRUE]
  /\ \/ Goes(v, IF Status(v) = "absent" THEN "handle" ELSE Status(v)) /\ UNCHANGED faults
     \/ Goes(v, "idle") /\ Fault
  /\ UNCHANGED <<chainVars, serviceVars, state, registered>>

\* ... and for one that exists, everything after it.
CheckExisting(v) ==
  /\ job[v] \in {"queued", "active", "exiting", "exit"}
  /\ \E fails \in OneOf({"details", "receipt", "active", "exited"}) :
       LET found == InitialState(v, job[v], fails)
       IN  Counted(fails) /\ Take(v, found) /\ Goes(v, IF found.err THEN "idle" ELSE "handle")
  /\ UNCHANGED <<chainVars, serviceVars, firstProcessed, registered, ticked>>

\* Fault: a validator that has exited stays open.
handleDelegationRegistrationOnly(v) ==
  registered' = [registered EXCEPT ![v] = @ \/ LookupAddress(v) \in {"active", "exiting"}]

\* handleDelegationRegistration, on an entry that is not nil.
handleDelegationRegistration(v) ==
  registered' = [registered EXCEPT ![v] =
    CASE LookupAddress(v) = "exit"                   -> FALSE
      [] LookupAddress(v) \in {"active", "exiting"}  -> TRUE
      [] OTHER                                       -> @]

\* stack.SendTransactionAndWait: the transaction is on its way.  A request that
\* fails may still have brought it to the mempool.
SendTransactionAndWait(v, kind) ==
  \/ /\ sent' = [sent EXCEPT ![v] = [kind |-> kind, result |-> "waiting"]]
     /\ Goes(v, "send")
     /\ UNCHANGED <<orphans, faults>>
  \/ /\ Fault
     /\ orphans' \in {orphans, orphans \cup {<<v, kind>>}}
     /\ Goes(v, "idle")
     /\ UNCHANGED sent

Returns(v) == Goes(v, "idle") /\ UNCHANGED <<sent, orphans>>

processPending(v) ==
  /\ status[v] = Pending
  /\ UNCHANGED <<exitReceipt, withdrawReceipt>>
  /\ \/ /\ queuedReceipt[v] \/ height < QueueBlock
        /\ Returns(v) /\ UNCHANGED <<status, activatedBlock, queuedReceipt, faults>>
     \/ /\ ~queuedReceipt[v] /\ height >= QueueBlock
        /\ \/ /\ Fault  \* CheckValidatorStatus
              /\ Returns(v) /\ UNCHANGED <<status, activatedBlock, queuedReceipt>>
           \/ /\ Status(v) # "absent"
              /\ \E fails \in OneOf({"details", "receipt"}) :
                   Counted(fails) /\ Take(v, HandleExistingValidator(v, Found(v), fails))
              /\ Returns(v)
           \/ /\ Status(v) = "absent"
              /\ SendTransactionAndWait(v, "add")
              /\ UNCHANGED <<status, activatedBlock, queuedReceipt>>

processQueued(v) ==
  /\ status[v] = Queued
  /\ Returns(v)
  /\ \/ /\ activatedBlock[v] # 0 \/ LookupAddress(v) \in {"queued", "exit"}
        /\ UNCHANGED <<state, faults>>
     \/ /\ activatedBlock[v] = 0 /\ LookupAddress(v) = "absent"
        /\ \E fails \in OneOf({"exited"}) :
             Counted(fails) /\ Take(v, CheckAlreadyExited(v, Found(v), fails))
     \/ /\ activatedBlock[v] = 0 /\ LookupAddress(v) \in {"active", "exiting"}
        /\ status' = [status EXCEPT ![v] = Active]
        /\ activatedBlock' = [activatedBlock EXCEPT ![v] = validation[v].start]
        /\ UNCHANGED <<receipts, faults>>

minValidators == 1

\* Fault: the periods are not counted from the activation.
ExitDueAnyTime(v) == height >= MinExitBlock(StakingPeriods, 0, PeriodLength)

ExitDue(v) == height >= MinExitBlock(StakingPeriods, activatedBlock[v], PeriodLength)

\* Before its exit is due, a validator changes its stake now and then (ChangeStake),
\* by a transaction whose fate nobody looks at.
processActive(v) ==
  /\ status[v] = Active
  /\ UNCHANGED state
  /\ \/ /\ exitReceipt[v] # 0 \/ GetActiveCount <= minValidators \/ ~ExitDue(v)
        /\ Returns(v) /\ UNCHANGED faults
     \/ /\ exitReceipt[v] = 0 /\ GetActiveCount > minValidators /\ ExitDue(v)
        /\ SendTransactionAndWait(v, "exit")

\* Fault: the period that still runs after the exit was signalled is left out.
minWithdrawBlockShort(v) ==
  uint32(MinWithdrawBlock(exitReceipt[v], WithdrawDelay) + CooldownPeriod)

minWithdrawBlock(v) ==
  LET exited == uint32(MinWithdrawBlock(exitReceipt[v], WithdrawDelay)
                         + PeriodLength + CooldownPeriod)
  IN  IF activatedBlock[v] # 0 THEN uint32(exited + CooldownPeriod) ELSE exited

processExitSignalled(v) ==
  /\ status[v] = ExitSignalled
  /\ UNCHANGED state
  /\ \/ /\ withdrawReceipt[v] \/ exitReceipt[v] = 0 \/ height < minWithdrawBlock(v)
        /\ Returns(v) /\ UNCHANGED faults
     \/ /\ ~withdrawReceipt[v] /\ exitReceipt[v] # 0 /\ height >= minWithdrawBlock(v)
        /\ SendTransactionAndWait(v, "withdraw")

\* processCurrentState; RefreshState may just have found out that all is done.
processCurrentState(v) ==
  \/ processPending(v) \/ processQueued(v) \/ processActive(v) \/ processExitSignalled(v)
  \/ status[v] = Withdrawn /\ Returns(v) /\ UNCHANGED <<state, faults>>

Process(v) ==
  /\ \/ job[v] = "handle" /\ UNCHANGED ticked
     \/ Starts(v) /\ firstProcessed[v]
  /\ LookupAddress(v) # "nil"
  /\ handleDelegationRegistration(v)
  /\ processCurrentState(v)
  /\ UNCHANGED <<height, validation, serviceVars, firstProcessed>>

-----------------------------------------------------------------------------
(* The end of SendTransactionAndWait. *)

\* Fault: what a transaction came to is kept after it was dealt with.
AnsweredAgain(v) ==
  /\ job[v] = "send" /\ ~Waiting(v)
  /\ Goes(v, "idle")
  /\ UNCHANGED <<chainVars, serviceVars, firstProcessed, registered, ticked>>

Answered(v) ==
  /\ job[v] = "send"
  /\ Goes(v, "idle")
  /\ sent' = [sent EXCEPT ![v] = Nothing]
  /\ UNCHANGED <<height, validation, serviceVars, firstProcessed, registered, ticked>>

\* The receipt of a transaction that did not revert, kept by QueueValidator,
\* SignalExit or WithdrawStake, and the transition that follows.
Confirmed(v) ==
  /\ sent[v].result = "ok"
  /\ Answered(v)
  /\ \/ /\ sent[v].kind = "add"
        /\ queuedReceipt' = [queuedReceipt EXCEPT ![v] = TRUE]
        /\ TransitionTo(v, Queued)
        /\ UNCHANGED <<exitReceipt, withdrawReceipt>>
     \/ /\ sent[v].kind = "exit"
        /\ exitReceipt' = [exitReceipt EXCEPT ![v] = validation[v].signalled]
        /\ TransitionTo(v, ExitSignalled)
        /\ UNCHANGED <<queuedReceipt, withdrawReceipt>>
     \/ /\ sent[v].kind = "withdraw"
        /\ withdrawReceipt' = [withdrawReceipt EXCEPT ![v] = TRUE]
        /\ TransitionTo(v, Withdrawn)
        /\ UNCHANGED <<queuedReceipt, exitReceipt>>
  /\ UNCHANGED <<orphans, faults>>

\* A revert leaves everything to the next job, but "validator already exists".
Reverted(v) ==
  /\ sent[v].result = "reverted"
  /\ Answered(v)
  /\ UNCHANGED orphans
  /\ IF sent[v].kind = "add"
       THEN \E fails \in OneOf({"details", "receipt"}) :
              Counted(fails) /\ Take(v, HandleExistingValidator(v, Found(v), fails))
       ELSE UNCHANGED <<state, faults>>

\* Fault: a transaction nobody has seen mined counts as done.
TimeoutAsDone(v) ==
  /\ sent[v].result = "expired" /\ Answered(v)
  /\ TransitionTo(v, status[v] + 1)
  /\ UNCHANGED <<orphans, faults, receipts>>

\* The minute is over: the transaction has expired, or may still be mined, blocks
\* having been missed.
Timeout(v) ==
  /\ Answered(v)
  /\ UNCHANGED state
  /\ \/ sent[v].result = "expired" /\ UNCHANGED <<orphans, faults>>
     \/ sent[v].result = "waiting" /\ Fault /\ orphans' = orphans \cup {<<v, sent[v].kind>>}

-----------------------------------------------------------------------------
(* The program's life. *)

\* Everything in memory is gone; transactions that were sent are not.
BeginsAnew ==
  /\ orphans' = orphans \cup {<<v, sent[v].kind>> : v \in {w \in Validators : Waiting(w)}}
  /\ sent' = All(Nothing)
  /\ idLookup' = Nobody /\ activeCount' = 0 /\ polling' = "due" /\ fetched' = Nobody
  /\ status' = All(Pending) /\ activatedBlock' = All(0) /\ firstProcessed' = All(FALSE)
  /\ queuedReceipt' = All(FALSE) /\ exitReceipt' = All(0) /\ withdrawReceipt' = All(FALSE)
  /\ registered' = All(FALSE) /\ job' = All("idle") /\ ticked' = All(FALSE)
  /\ UNCHANGED <<height, validation>>

Restart == Fault /\ BeginsAnew

\* LookupAddress says ok and returns nil, which handleDelegationRegistration and
\* processQueued read through: the panic in the worker ends the program.
Panic(v) ==
  /\ job[v] = "handle" \/ (MayStart(v) /\ firstProcessed[v])
  /\ LookupAddress(v) = "nil"
  /\ BeginsAnew
  /\ UNCHANGED faults

\* With blocks every ten seconds, poll has had its turn and every lifecycle its job,
\* unless that job waits for the network or all workers do.
CaughtUp ==
  /\ polling \in {"fetched", "stored"}
  /\ \A v \in Validators : \/ Waiting(v) \/ (ticked[v] /\ job[v] # "send") \/ status[v] = Withdrawn
                            \/ (job[v] = "idle" /\ Cardinality(Busy) = MaxWorkers)

NewBlock ==
  /\ BlocksWait => CaughtUp
  /\ \E activated, mined \in SUBSET Validators :
     \E orphan \in [Validators -> Kinds \cup {"none"}] : Block(activated, mined, orphan)
  /\ polling' = PollAfterBlock
  /\ ticked' = [v \in Validators |-> FALSE]
  /\ UNCHANGED <<idLookup, activeCount, fetched, faults, state, firstProcessed,
                 registered, job>>

Lifecycle(v) ==
  FirstCheck(v) \/ CheckExisting(v) \/ Process(v) \/ Confirmed(v) \/ Reverted(v)
  \/ Timeout(v) \/ Panic(v)

Poll ==
  /\ (PollFetch /\ UNCHANGED faults) \/ PollFails \/ PollStore
  /\ UNCHANGED <<chainVars, state, firstProcessed, registered, job, ticked>>

Mempool ==
  /\ (\E v \in Validators : Expire(v)) \/ (\E o \in orphans : ExpireOrphan(o))
  /\ UNCHANGED <<serviceVars, faults, state, firstProcessed, registered, job, ticked>>

Next ==
  \/ \E v \in Validators : Lifecycle(v)
  \/ Poll \/ NewBlock \/ Mempool \/ Restart

Spec == Init /\ [][Next]_vars

\* Workers run jobs, poll goes round, blocks come.
FairSpec ==
  /\ Spec /\ WF_vars(Poll) /\ WF_vars(NewBlock)
  /\ \A v \in Validators : WF_vars(Lifecycle(v))

-----------------------------------------------------------------------------
TypeOK ==
  /\ height \in Blocks /\ validation \in [Validators -> Records]
  /\ sent \in [Validators -> Transactions] /\ orphans \subseteq Validators \X Kinds
  /\ idLookup \in [Validators -> Entries] /\ fetched \in [Validators -> Entries]
  /\ activeCount \in Nat /\ polling \in {"due", "fetched", "late", "stored"}
  /\ faults \in 0..MaxFaults
  /\ status \in [Validators -> Pending..Withdrawn]
  /\ activatedBlock \in [Validators -> Blocks] /\ exitReceipt \in [Validators -> Blocks]
  /\ {queuedReceipt, withdrawReceipt, firstProcessed, registered, ticked}
       \subseteq [Validators -> BOOLEAN]
  /\ job \in [Validators -> {"idle", "handle", "send"} \cup Entries]
  /\ \A v \in Validators : (job[v] = "send") = (sent[v] # Nothing)

\* What a lifecycle believes of its validator is true, through timeouts, lost
\* answers and restarts: no status is ahead of the chain (processQueued,
\* performInitialStateCheck and the three transitions after a receipt).
StatusWasTrue ==
  \A v \in Validators :
    /\ status[v] >= Queued => validation[v].added
    /\ status[v] = Active => activatedBlock[v] = validation[v].start /\ validation[v].start # 0
    /\ status[v] >= ExitSignalled => validation[v].signalled # 0
    /\ exitReceipt[v] # 0 => exitReceipt[v] = validation[v].signalled
    /\ withdrawReceipt[v] => validation[v].withdrawn

\* A validator stays as many periods as it was configured to, whoever signals its
\* exit: an earlier job, one that was timed out, or the program after a restart
\* (processActive's guard against MinExitBlock).
StaysItsPeriods ==
  \A v \in Validators :
    validation[v].signalled # 0 =>
      validation[v].signalled >= MinExitBlock(StakingPeriods, validation[v].start, PeriodLength)

\* A withdrawal is only sent when the staker contract has the stake ready
\* (processExitSignalled's minWithdrawBlock, computed from the exit's receipt,
\* against the end of the period and the cooldown the contract goes by).
WithdrawInTime ==
  \A v \in Validators :
    sent[v].kind = "withdraw" => Withdrawable(validation[v], height)

\* With a network that answers, a validator whose lifecycle is over is closed for
\* delegations: after that nobody would close it (handleDelegationRegistration
\* sees the exit in the snapshot before the withdrawal ends the jobs).
ClosedWhenDone ==
  \A v \in Validators : status[v] = Withdrawn /\ faults = 0 => ~registered[v]

\* While the program runs, a snapshot's entry never falls back to an earlier state
\* (poll stores what it fetched blocks ago, over what checkExited said).
Rank == [absent |-> 0, queued |-> 1, active |-> 2, exiting |-> 3, exit |-> 4]
LookupNeverBack ==
  [][\A v \in Validators :
       idLookup[v] # "nil" /\ idLookup'[v] # "nil" /\ idLookup' # Nobody
         => Rank[idLookup'[v]] >= Rank[idLookup[v]]]_vars

\* Every validator ends withdrawn, its transactions expiring at times, as long as
\* no request fails, no answer comes late and the program is not restarted.
EventuallyWithdrawn ==
  \A v \in Validators :
    <>(faults > 0 \/ (status[v] = Withdrawn /\ validation[v].withdrawn))

\* processActive: "preventing validator exit to maintain minimum active validators".
MinimumStays ==
  (\E v \in Validators : validation[v].signalled # 0)
    => Others + Cardinality({v \in Validators : Status(v) = "active"}) >= minValidators
==============================================================================
