-------------------------------- MODULE Engine --------------------------------
(***************************************************************************)
(* lifecycle.Engine: one goroutine that seeds the lifecycles, flushes them *)
(* to a status and then, block after block, generates new ones and hands a *)
(* job for each to the worker pool without waiting for any.                *)
(*                                                                         *)
(* A lifecycle is external here (DelegatorLifecycle models one): it has a  *)
(* status that only advances, and a lock that Process and Status need.     *)
(***************************************************************************)
EXTENDS WorkerPool

CONSTANTS Validators, Delegators, \* accounts the generator can use, once each
          Seeds,                  \* validators added before Flush
          FlushStatus,            \* the status Flush waits for
          MaxBlockProposers,
          MinQueued,              \* 3 in the code
          MaxHeight               \* bound: block numbers stop growing here

Lifecycles == Validators \cup Delegators

ASSUME EngineAssumption ==
  /\ IsFiniteSet(Lifecycles) /\ Validators \cap Delegators = {}
  /\ Seeds \subseteq Validators
  /\ {MaxBlockProposers, MinQueued, MaxHeight} \subseteq Nat \ {0}
  /\ FlushStatus \in 0..4

VARIABLES
  lifecycles,  \* e.lifecycles
  status,      \* Status() of each lifecycle
  unused,      \* accounts the generator has left
  phase,       \* where the engine's goroutine is
  todo,        \* lifecycles its loop has still to visit
  sending,     \* the job it is handing to the pool, or NoJob
  toRemove,
  counted,     \* lifecycles counted so far (generateValidatorCycles)
  processed,   \* Flush's flag
  height,      \* best block of the chain, as a number up to MaxHeight
  fresh,       \* is it newer than the one the ticker saw last?
  best,        \* best.Number of the current round
  cancelled    \* the context is done

loop  == <<phase, todo, sending, toRemove, counted, processed, best>>
chain == <<height, fresh, cancelled>>
pool  == <<jobQueue, working>>
vars  == <<lifecycles, status, unused, loop, chain, pool>>

Pending == 0
Queued == 1
Active == 2
ExitSignalled == 3
Withdrawn == 4

\* Status() waits for the lock that Process holds.
Readable(l) == \A w \in Workers : ~(working[w].lifecycle = l /\ working[w].locked)

-----------------------------------------------------------------------------
(* Hand the jobs of a round to the pool. *)

Job(l) == [lifecycle |-> l, block |-> best, locked |-> FALSE]

Submit ==
  /\ sending # NoJob
  /\ RunJob(sending)
  /\ sending' = NoJob
  /\ UNCHANGED <<lifecycles, status, unused, phase, todo, toRemove, counted,
                 processed, best, chain>>

Go(from, to, next) ==
  /\ phase = from /\ sending = NoJob /\ todo = {}
  /\ phase' = to /\ todo' = next

\* Ticker.Wait returns a newer block, ...
NewBest(from, to) ==
  /\ fresh
  /\ Go(from, to, lifecycles)
  /\ best' = height /\ fresh' = FALSE
  /\ UNCHANGED <<lifecycles, status, unused, sending, toRemove, counted, processed,
                 height, cancelled, pool>>

-----------------------------------------------------------------------------
(* Flush. *)

\* A job for every lifecycle, whatever its status.
FlushRuns(l) ==
  /\ phase = "flush" /\ sending = NoJob /\ l \in todo
  /\ sending' = Job(l) /\ todo' = todo \ {l}
  /\ UNCHANGED <<lifecycles, status, unused, phase, toRemove, counted, processed,
                 best, chain, pool>>

FlushStartsCheck ==
  /\ Go("flush", "check", lifecycles)
  /\ processed' = TRUE
  /\ UNCHANGED <<lifecycles, status, unused, sending, toRemove, counted, best, chain, pool>>

\* Fault: processed is not reset before the statuses are read.
FlushChecksLast(l) ==
  /\ phase = "check" /\ l \in todo /\ Readable(l)
  /\ processed' = (status[l] >= FlushStatus)
  /\ todo' = todo \ {l}
  /\ UNCHANGED <<lifecycles, status, unused, phase, sending, toRemove, counted, best,
                 chain, pool>>

\* Fault: a lifecycle that is further than the status counts as not there yet.
FlushChecksEqual(l) ==
  /\ phase = "check" /\ l \in todo /\ Readable(l)
  /\ processed' = (processed /\ status[l] = FlushStatus)
  /\ todo' = todo \ {l}
  /\ UNCHANGED <<lifecycles, status, unused, phase, sending, toRemove, counted, best,
                 chain, pool>>

FlushChecks(l) ==
  /\ phase = "check" /\ l \in todo /\ Readable(l)
  /\ processed' = (processed /\ status[l] >= FlushStatus)
  /\ todo' = todo \ {l}
  /\ UNCHANGED <<lifecycles, status, unused, phase, sending, toRemove, counted, best,
                 chain, pool>>

FlushReturns ==
  /\ Go("check", IF processed THEN "loop" ELSE "flushWait", {})
  /\ UNCHANGED <<lifecycles, status, unused, sending, toRemove, counted, processed,
                 best, chain, pool>>

-----------------------------------------------------------------------------
(* Run. *)

\* Fault: the loop does not look at the context.
LooksAway ==
  /\ phase = "loop"
  /\ phase' = "wait"
  /\ UNCHANGED <<lifecycles, status, unused, todo, sending, toRemove, counted,
                 processed, best, chain, pool>>

\* The loop looks at the context before it waits; ...
Look ==
  /\ phase = "loop"
  /\ phase' = IF cancelled THEN "stopped" ELSE "wait"
  /\ UNCHANGED <<lifecycles, status, unused, todo, sending, toRemove, counted,
                 processed, best, chain, pool>>

\* ... without a newer block the wait ends after its timeout.
TimeOut ==
  /\ phase = "wait" /\ ~fresh
  /\ phase' = "loop"
  /\ UNCHANGED <<lifecycles, status, unused, todo, sending, toRemove, counted,
                 processed, best, chain, pool>>

\* Fault: lifecycles that are not active yet are not counted.
CountActive(l) ==
  /\ phase = "count" /\ l \in todo /\ Readable(l)
  /\ counted' = counted + IF l \in Validators /\ status[l] = Active THEN 1 ELSE 0
  /\ todo' = todo \ {l}
  /\ UNCHANGED <<lifecycles, status, unused, phase, sending, toRemove, processed, best,
                 chain, pool>>

\* generateValidatorCycles counts, one lifecycle at a time, ...
Count(l) ==
  /\ phase = "count" /\ l \in todo /\ Readable(l)
  /\ counted' = counted + IF l \in Validators /\ status[l] < ExitSignalled THEN 1 ELSE 0
  /\ todo' = todo \ {l}
  /\ UNCHANGED <<lifecycles, status, unused, phase, sending, toRemove, processed, best,
                 chain, pool>>

RandomBetween(min, max) == IF min >= max THEN {min} ELSE min..(max - 1)

DesiredQueued ==
  {IF n < MinQueued THEN MinQueued ELSE n : n \in RandomBetween(0, MaxBlockProposers \div 8)}

\* ... and then makes some of the missing validators.  generateDelegatorCycles
\* makes delegators, as many as the positions (PositionManager) and a limit allow.
Generate ==
  /\ \E desired \in DesiredQueued, new \in SUBSET unused :
       /\ LET left == Cardinality(unused \cap Validators)
          IN  \E amount \in RandomBetween(0, MaxBlockProposers + desired - counted) :
                Cardinality(new \cap Validators) = IF amount < left THEN amount ELSE left
       /\ lifecycles' = lifecycles \cup new
       /\ unused' = unused \ new
  /\ Go("count", "pass", lifecycles')
  /\ counted' = 0
  /\ UNCHANGED <<status, sending, toRemove, processed, best, chain, pool>>

\* Before the first validator is active nothing is generated.
SkipGeneration ==
  /\ phase = "count" /\ todo = lifecycles
  /\ phase' = "pass"
  /\ UNCHANGED <<lifecycles, status, unused, todo, sending, toRemove, counted,
                 processed, best, chain, pool>>

\* Fault: a lifecycle is dropped once its exit is signalled.
VisitExited(l) ==
  /\ phase = "pass" /\ sending = NoJob /\ l \in todo /\ Readable(l)
  /\ IF status[l] < ExitSignalled
       THEN sending' = Job(l) /\ UNCHANGED toRemove
       ELSE toRemove' = toRemove \cup {l} /\ UNCHANGED sending
  /\ todo' = todo \ {l}
  /\ UNCHANGED <<lifecycles, status, unused, phase, counted, processed, best, chain, pool>>

Visit(l) ==
  /\ phase = "pass" /\ sending = NoJob /\ l \in todo /\ Readable(l)
  /\ IF status[l] # Withdrawn
       THEN sending' = Job(l) /\ UNCHANGED toRemove
       ELSE toRemove' = toRemove \cup {l} /\ UNCHANGED sending
  /\ todo' = todo \ {l}
  /\ UNCHANGED <<lifecycles, status, unused, phase, counted, processed, best, chain, pool>>

\* Fault: what is to be removed stays on the list.
EndRoundKeepsList ==
  /\ Go("pass", "loop", {})
  /\ lifecycles' = lifecycles \ toRemove
  /\ UNCHANGED <<status, unused, sending, toRemove, counted, processed, best, chain, pool>>

EndRound ==
  /\ Go("pass", "loop", {})
  /\ lifecycles' = lifecycles \ toRemove
  /\ toRemove' = {}
  /\ UNCHANGED <<status, unused, sending, counted, processed, best, chain, pool>>

-----------------------------------------------------------------------------
(* The workers, and the lifecycles they process. *)

WorkerReceives(w) ==
  /\ Receive(w)
  /\ UNCHANGED <<lifecycles, status, unused, loop, chain>>

\* Process gets the lifecycle's lock, ...
Lock(w) ==
  /\ working[w] # NoJob /\ ~working[w].locked /\ Readable(working[w].lifecycle)
  /\ working' = [working EXCEPT ![w] = [@ EXCEPT !.locked = TRUE]]
  /\ UNCHANGED <<lifecycles, status, unused, loop, chain, jobQueue>>

\* ... and it returns having done nothing, or having taken the lifecycle further.
ProcessInVain(w) ==
  /\ working[w].locked
  /\ JobDone(w)
  /\ UNCHANGED <<lifecycles, status, unused, loop, chain>>

Advance(w, l) ==
  /\ working[w].locked /\ working[w].lifecycle = l
  /\ status[l] # Withdrawn
  /\ \E s \in (status[l] + 1)..Withdrawn : status' = [status EXCEPT ![l] = s]
  /\ JobDone(w)
  /\ UNCHANGED <<lifecycles, unused, loop, chain>>

NewBlock ==
  /\ ~fresh
  /\ height' = (IF height < MaxHeight THEN height + 1 ELSE height)
  /\ fresh' = TRUE
  /\ UNCHANGED <<lifecycles, status, unused, loop, cancelled, pool>>

Cancel ==
  /\ ~cancelled /\ cancelled' = TRUE
  /\ UNCHANGED <<lifecycles, status, unused, loop, height, fresh, pool>>

-----------------------------------------------------------------------------
\* NewEngine and AddLifecycle for each seed.
Init ==
  /\ PoolInit
  /\ lifecycles = Seeds /\ unused = Lifecycles \ Seeds
  /\ status = [l \in Lifecycles |-> Pending]
  /\ phase = "flushWait" /\ todo = {} /\ sending = NoJob /\ toRemove = {}
  /\ counted = 0 /\ processed = FALSE
  /\ height = 0 /\ fresh = FALSE /\ best = 0 /\ cancelled = FALSE

Flush == \/ NewBest("flushWait", "flush")
         \/ FlushStartsCheck
         \/ FlushReturns
         \/ \E l \in Lifecycles : FlushRuns(l) \/ FlushChecks(l)

Run == \/ NewBest("wait", "count")
       \/ Look
       \/ TimeOut
       \/ Generate
       \/ SkipGeneration
       \/ EndRound
       \/ \E l \in Lifecycles : Count(l) \/ Visit(l)

Work(w) == \/ WorkerReceives(w)
           \/ Lock(w)
           \/ ProcessInVain(w)
           \/ \E l \in Lifecycles : Advance(w, l)

Next == \/ Submit \/ Flush \/ Run
        \/ \E w \in Workers : Work(w)
        \/ NewBlock \/ Cancel

Spec == Init /\ [][Next]_vars

\* The engine's goroutine and the workers go on, blocks come, and a lifecycle that
\* is processed again and again gets further in the end, until the context is done,
\* with which the polling of the chain and the waiting for receipts stop.
Fairness ==
  /\ WF_vars(Submit \/ Flush \/ Run)
  /\ WF_vars(NewBlock)
  /\ \A w \in Workers : /\ WF_vars(WorkerReceives(w))
                        /\ WF_vars(Lock(w))
                        /\ WF_vars(ProcessInVain(w) \/ \E l \in Lifecycles : Advance(w, l))
  /\ \A l \in Lifecycles : SF_vars(~cancelled /\ \E w \in Workers : Advance(w, l))

FairSpec == Spec /\ Fairness

-----------------------------------------------------------------------------
(* Properties. *)

Jobs == [lifecycle : Lifecycles, block : 0..MaxHeight, locked : BOOLEAN] \cup {NoJob}
Phases == {"flushWait", "flush", "check", "loop", "wait", "count", "pass", "stopped"}

\* Every field has its type, and the channel is never overfull.
TypeOK ==
  /\ lifecycles \subseteq Lifecycles /\ unused \subseteq Lifecycles
  /\ status \in [Lifecycles -> Pending..Withdrawn]
  /\ phase \in Phases /\ todo \subseteq lifecycles /\ toRemove \subseteq lifecycles
  /\ sending \in Jobs /\ counted \in Nat /\ processed \in BOOLEAN
  /\ height \in 0..MaxHeight /\ best \in 0..MaxHeight
  /\ fresh \in BOOLEAN /\ cancelled \in BOOLEAN
  /\ jobQueue \in Seq(Jobs \ {NoJob}) /\ Len(jobQueue) <= QueueSize
  /\ working \in [Workers -> Jobs]

Flushing == phase \in {"flushWait", "flush", "check"}

\* Flush does what its comment says: when it has returned, every lifecycle it was
\* given has the status it waits for, although it read the statuses one by one
\* while the workers changed them.
FlushReached == ~Flushing => \A l \in Seeds : status[l] >= FlushStatus

Alive == {l \in lifecycles \cap Validators : status[l] < ExitSignalled}

MaxAlive == LET most == CHOOSE n \in DesiredQueued : \A m \in DesiredQueued : m <= n
            IN  MaxBlockProposers + most - 1

\* generateValidatorCycles never makes more validators than there are spaces for,
\* although the number it counted is stale by then.
ValidatorsBounded ==
  Cardinality(Alive) <= MaxAlive \/ Cardinality(Alive) <= Cardinality(Seeds)

\* A lifecycle that is no longer in the engine's map is done: nobody will process
\* it again, so its stake is out.
DroppedAreDone ==
  \A l \in Lifecycles : l \notin lifecycles \cup unused => status[l] = Withdrawn

Waits(l) == {i \in 1..Len(jobQueue) : jobQueue[i].lifecycle = l}

\* Jobs outlive their round, and those of one lifecycle are still started in the
\* order of their blocks: none that waits is older than one that runs.
BlocksInOrder ==
  \A l \in Lifecycles :
    /\ \A w \in Workers, i \in Waits(l) :
         working[w].lifecycle = l => working[w].block <= jobQueue[i].block
    /\ \A i, k \in Waits(l) : i < k => jobQueue[i].block <= jobQueue[k].block

\* Every lifecycle is withdrawn and dropped in the end, unless the program is
\* interrupted: Run and Flush wait for no job, and no job starves.
EveryoneLeaves ==
  \A l \in Lifecycles : l \in lifecycles ~> l \notin lifecycles \/ cancelled

\* An interrupt ends Run, also while no block comes and jobs are stuck.
CancelStopsRun == cancelled /\ ~Flushing ~> phase = "stopped"
=============================================================================
