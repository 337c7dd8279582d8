----------------------------- MODULE EngineProofs -----------------------------
(* What the engine promises, for every number of workers and lifecycles. *)
EXTENDS Engine, FiniteSetTheorems, TLAPS

\* What the properties rest on.  Flush is given the seeds and nothing is made or
\* removed while it runs; what it has checked is far enough and stays so; what is
\* to be removed is done.
FlushInv ==
  /\ Flushing => lifecycles = Seeds /\ toRemove = {}
  /\ phase = "check" /\ processed =>
       \A l \in lifecycles \ todo : status[l] >= FlushStatus
  /\ \A l \in toRemove : status[l] = Withdrawn

\* The channel holds jobs in the order of their rounds, behind those that run and
\* before the one in the engine's hand.
OrderInv ==
  /\ best <= height
  /\ sending # NoJob => sending.block = best
  /\ \A i \in 1..Len(jobQueue) : jobQueue[i].block <= best
  /\ \A i, k \in 1..Len(jobQueue) : i < k => jobQueue[i].block <= jobQueue[k].block
  /\ \A w \in Workers, i \in 1..Len(jobQueue) :
       working[w] # NoJob => working[w].block <= jobQueue[i].block
  /\ \A w \in Workers : working[w].block <= best

IInv == TypeOK /\ FlushInv /\ FlushReached /\ DroppedAreDone /\ OrderInv

-----------------------------------------------------------------------------
LEMMA QueueSizePositive == QueueSize \in Nat \ {0}
<1>1. Cardinality(Workers) \in Nat /\ Cardinality(Workers) # 0
  BY WorkersAssumption, FS_CardinalityType, FS_EmptySet
<1>2. QED BY <1>1 DEF QueueSize

LEMMA InitInv == Init => IInv
<1> SUFFICES ASSUME Init PROVE IInv
  OBVIOUS
<1> USE DEF Init, PoolInit
<1>1. TypeOK
  <2>1. jobQueue \in Seq(Jobs \ {NoJob}) /\ Len(jobQueue) = 0
    OBVIOUS
  <2>2. Seeds \subseteq Lifecycles
    BY EngineAssumption DEF Lifecycles
  <2>3. working \in [Workers -> Jobs] /\ sending \in Jobs
    BY DEF Jobs
  <2>4. status \in [Lifecycles -> Pending..Withdrawn]
    BY DEF Pending, Withdrawn
  <2>5. height \in 0..MaxHeight /\ best \in 0..MaxHeight
    BY EngineAssumption
  <2>6. Len(jobQueue) <= QueueSize
    BY <2>1, QueueSizePositive
  <2>7. QED
    BY <2>1, <2>2, <2>3, <2>4, <2>5, <2>6 DEF TypeOK, Phases
<1>2. FlushInv /\ FlushReached /\ DroppedAreDone
  BY DEF FlushInv, FlushReached, DroppedAreDone, Flushing
<1>3. OrderInv
  BY DEF OrderInv, NoJob
<1>4. QED BY <1>1, <1>2, <1>3 DEF IInv

-----------------------------------------------------------------------------
(* Types. *)

LEMMA TypeStep == TypeOK /\ [Next]_vars => TypeOK'
<1> SUFFICES ASSUME TypeOK, [Next]_vars PROVE TypeOK'
  OBVIOUS
<1> USE DEF TypeOK
<1>1. CASE Submit
  <2>1. sending \in Jobs \ {NoJob}
    BY <1>1 DEF Submit
  <2>2. jobQueue' \in Seq(Jobs \ {NoJob}) /\ Len(jobQueue') <= QueueSize
    BY <1>1, <2>1, QueueSizePositive DEF Submit, RunJob
  <2>3. sending' \in Jobs
    BY <1>1 DEF Submit, Jobs
  <2>4. QED BY <1>1, <2>2, <2>3 DEF Submit, RunJob, chain
<1>2. CASE Flush
  <2> USE DEF chain, pool
  <2>1. CASE NewBest("flushWait", "flush")
    BY <2>1 DEF NewBest, Go, Phases
  <2>2. CASE FlushStartsCheck
    BY <2>2 DEF FlushStartsCheck, Go, Phases
  <2>3. CASE FlushReturns
    BY <2>3 DEF FlushReturns, Go, Phases
  <2>4. ASSUME NEW l \in Lifecycles, FlushRuns(l) PROVE TypeOK'
    BY <2>4 DEF FlushRuns, Job, Jobs
  <2>5. ASSUME NEW l \in Lifecycles, FlushChecks(l) PROVE TypeOK'
    BY <2>5 DEF FlushChecks
  <2>6. QED BY <1>2, <2>1, <2>2, <2>3, <2>4, <2>5 DEF Flush
<1>3. CASE Run
  <2> USE DEF chain, pool
  <2>1. CASE NewBest("wait", "count")
    BY <2>1 DEF NewBest, Go, Phases
  <2>2. CASE Look \/ TimeOut
    BY <2>2 DEF Look, TimeOut, Phases
  <2>3. CASE Generate
    BY <2>3 DEF Generate, Go, Phases
  <2>4. CASE SkipGeneration
    BY <2>4 DEF SkipGeneration, Phases
  <2>5. CASE EndRound
    BY <2>5 DEF EndRound, Go, Phases
  <2>6. ASSUME NEW l \in Lifecycles, Count(l) PROVE TypeOK'
    <3>1. counted' \in Nat
      BY <2>6 DEF Count
    <3>2. QED BY <2>6, <3>1 DEF Count
  <2>7. ASSUME NEW l \in Lifecycles, Visit(l) PROVE TypeOK'
    <3>1. Job(l) \in Jobs
      BY DEF Job, Jobs
    <3>2. sending' \in Jobs /\ toRemove' \subseteq lifecycles /\ todo' \subseteq lifecycles
      BY <2>7, <3>1 DEF Visit
    <3>3. QED BY <2>7, <3>2 DEF Visit
  <2>8. QED BY <1>3, <2>1, <2>2, <2>3, <2>4, <2>5, <2>6, <2>7 DEF Run
<1>4. ASSUME NEW w \in Workers, Work(w) PROVE TypeOK'
  <2>1. CASE WorkerReceives(w)
    <3>1. Head(jobQueue) \in Jobs /\ Tail(jobQueue) \in Seq(Jobs \ {NoJob})
          /\ Len(Tail(jobQueue)) <= QueueSize
      BY <2>1, QueueSizePositive DEF WorkerReceives, Receive
    <3>2. QED BY <2>1, <3>1 DEF WorkerReceives, Receive, loop, chain
  <2>2. CASE Lock(w)
    BY <2>2 DEF Lock, loop, chain, Jobs
  <2>3. CASE ProcessInVain(w)
    BY <2>3 DEF ProcessInVain, JobDone, loop, chain, Jobs
  <2>4. ASSUME NEW l \in Lifecycles, Advance(w, l) PROVE TypeOK'
    BY <2>4 DEF Advance, JobDone, loop, chain, Jobs, Pending, Withdrawn
  <2>5. QED BY <1>4, <2>1, <2>2, <2>3, <2>4 DEF Work
<1>5. CASE NewBlock
  BY <1>5, EngineAssumption DEF NewBlock, loop, pool
<1>6. CASE Cancel
  BY <1>6 DEF Cancel, loop, pool
<1>7. CASE UNCHANGED vars
  BY <1>7 DEF vars, loop, chain, pool
<1>8. QED BY <1>1, <1>2, <1>3, <1>4, <1>5, <1>6, <1>7 DEF Next

-----------------------------------------------------------------------------
(* Statuses only advance, and what was read of them stays true. *)

LEMMA StatusesAdvance ==
  TypeOK /\ [Next]_vars => \A l \in Lifecycles : status'[l] >= status[l]
<1> SUFFICES ASSUME TypeOK, [Next]_vars, NEW l \in Lifecycles
             PROVE  status'[l] >= status[l]
  OBVIOUS
<1>1. status[l] \in Pending..Withdrawn
  BY DEF TypeOK
<1>2. ASSUME NEW w \in Workers, NEW k \in Lifecycles, Advance(w, k)
      PROVE  status'[l] >= status[l]
  BY <1>1, <1>2 DEF Advance, TypeOK, Pending, Withdrawn
<1>3. ASSUME status' = status PROVE status'[l] >= status[l]
  BY <1>1, <1>3 DEF Pending, Withdrawn
<1>4. (\E w \in Workers, k \in Lifecycles : Advance(w, k)) \/ status' = status
  BY DEF Next, vars, Submit, Flush, NewBest, FlushStartsCheck, FlushReturns, FlushRuns,
         FlushChecks, Run, Look, TimeOut, Generate, SkipGeneration, EndRound, Count,
         Visit, Work, WorkerReceives, Lock, ProcessInVain, NewBlock, Cancel
<1>5. QED BY <1>2, <1>3, <1>4

LEMMA WithdrawnStays ==
  TypeOK /\ [Next]_vars =>
    \A l \in Lifecycles : status[l] = Withdrawn => status'[l] = Withdrawn
<1> SUFFICES ASSUME TypeOK, [Next]_vars, NEW l \in Lifecycles, status[l] = Withdrawn
             PROVE  status'[l] = Withdrawn
  OBVIOUS
<1>1. status'[l] \in Pending..Withdrawn
  BY TypeStep DEF TypeOK
<1>2. QED BY <1>1, StatusesAdvance DEF Pending, Withdrawn

LEMMA FarEnoughStays ==
  TypeOK /\ [Next]_vars =>
    \A l \in Lifecycles : status[l] >= FlushStatus => status'[l] >= FlushStatus
<1> SUFFICES ASSUME TypeOK, [Next]_vars, NEW l \in Lifecycles, status[l] >= FlushStatus
             PROVE  status'[l] >= FlushStatus
  OBVIOUS
<1>1. status[l] \in Int /\ status'[l] \in Int
  BY TypeStep DEF TypeOK, Pending, Withdrawn
<1>2. FlushStatus \in Int
  BY EngineAssumption
<1>3. QED BY <1>1, <1>2, StatusesAdvance

-----------------------------------------------------------------------------
(* Flush and the map of lifecycles. *)

LEMMA FlushStep ==
  TypeOK /\ FlushInv /\ FlushReached /\ DroppedAreDone /\ [Next]_vars =>
    FlushInv' /\ FlushReached' /\ DroppedAreDone'
<1> SUFFICES ASSUME TypeOK, FlushInv, FlushReached, DroppedAreDone, [Next]_vars
             PROVE  FlushInv' /\ FlushReached' /\ DroppedAreDone'
  OBVIOUS
<1> DEFINE Done(l) == status[l] = Withdrawn
           Far(l) == status[l] >= FlushStatus
<1>1. \A l \in Lifecycles : Done(l) => Done(l)'
  BY WithdrawnStays
<1>2. \A l \in Lifecycles : Far(l) => Far(l)'
  BY FarEnoughStays
<1>3. /\ Seeds \subseteq Lifecycles /\ lifecycles \subseteq Lifecycles
      /\ toRemove \subseteq Lifecycles
  BY EngineAssumption DEF TypeOK, Lifecycles
<1>4. ASSUME UNCHANGED <<lifecycles, unused, phase, todo, toRemove, processed>>
      PROVE  FlushInv' /\ FlushReached' /\ DroppedAreDone'
  BY <1>1, <1>2, <1>3, <1>4 DEF FlushInv, FlushReached, DroppedAreDone, Flushing
<1> USE DEF FlushInv, FlushReached, DroppedAreDone, Flushing
<1>5. CASE Flush
  <2>1. CASE NewBest("flushWait", "flush")
    BY <1>1, <1>2, <1>3, <2>1 DEF NewBest, Go
  <2>2. CASE FlushStartsCheck
    BY <1>1, <1>2, <1>3, <2>2 DEF FlushStartsCheck, Go
  <2>3. CASE FlushReturns
    BY <1>1, <1>2, <1>3, <2>3 DEF FlushReturns, Go
  <2>4. ASSUME NEW l \in Lifecycles, FlushRuns(l)
        PROVE  FlushInv' /\ FlushReached' /\ DroppedAreDone'
    BY <1>1, <1>2, <1>3, <2>4 DEF FlushRuns
  <2>5. ASSUME NEW l \in Lifecycles, FlushChecks(l)
        PROVE  FlushInv' /\ FlushReached' /\ DroppedAreDone'
    BY <1>1, <1>2, <1>3, <2>5 DEF FlushChecks
  <2>6. QED BY <1>5, <2>1, <2>2, <2>3, <2>4, <2>5 DEF Flush
<1>6. CASE Run
  <2>1. CASE NewBest("wait", "count")
    BY <1>1, <1>2, <1>3, <2>1 DEF NewBest, Go
  <2>2. CASE Look \/ TimeOut
    BY <1>1, <1>2, <1>3, <2>2 DEF Look, TimeOut
  <2>3. CASE Generate
    BY <1>1, <1>2, <1>3, <2>3 DEF Generate, Go
  <2>4. CASE SkipGeneration
    BY <1>1, <1>2, <1>3, <2>4 DEF SkipGeneration
  <2>5. CASE EndRound
    BY <1>1, <1>2, <1>3, <2>5 DEF EndRound, Go
  <2>6. ASSUME NEW l \in Lifecycles, Count(l)
        PROVE  FlushInv' /\ FlushReached' /\ DroppedAreDone'
    BY <1>1, <1>2, <1>3, <2>6 DEF Count
  <2>7. ASSUME NEW l \in Lifecycles, Visit(l)
        PROVE  FlushInv' /\ FlushReached' /\ DroppedAreDone'
    BY <1>1, <1>2, <1>3, <2>7 DEF Visit
  <2>8. QED BY <1>6, <2>1, <2>2, <2>3, <2>4, <2>5, <2>6, <2>7 DEF Run
<1>7. CASE Submit
  BY <1>4, <1>7 DEF Submit
<1>8. ASSUME NEW w \in Workers, Work(w)
      PROVE  UNCHANGED <<lifecycles, unused, phase, todo, toRemove, processed>>
  BY <1>8 DEF Work, WorkerReceives, Lock, ProcessInVain, Advance, loop
<1>9. CASE NewBlock \/ Cancel \/ UNCHANGED vars
  BY <1>4, <1>9 DEF NewBlock, Cancel, vars, loop
<1>10. QED BY <1>4, <1>5, <1>6, <1>7, <1>8, <1>9 DEF Next

-----------------------------------------------------------------------------
(* The order of the jobs. *)

LEMMA OrderStep == TypeOK /\ OrderInv /\ [Next]_vars => OrderInv'
<1> SUFFICES ASSUME TypeOK, OrderInv, [Next]_vars PROVE OrderInv'
  OBVIOUS
<1>1. /\ best \in Nat /\ height \in Nat /\ MaxHeight \in Nat
      /\ \A w \in Workers : working[w] \in Jobs /\ working[w].block \in Nat
      /\ sending.block \in Nat
  BY EngineAssumption DEF TypeOK, Jobs, NoJob
<1>2. /\ Len(jobQueue) \in Nat
      /\ \A i \in 1..Len(jobQueue) : jobQueue[i] \in Jobs \ {NoJob} /\ jobQueue[i].block \in Nat
  BY DEF TypeOK, Jobs, NoJob
<1>3. ASSUME UNCHANGED <<jobQueue, working, sending, best>>, height <= height'
      PROVE  OrderInv'
  BY <1>1, <1>3, TypeStep, EngineAssumption DEF OrderInv, TypeOK
<1>4. ASSUME UNCHANGED <<jobQueue, working, best, height>>,
             sending' # NoJob => sending'.block = best
      PROVE  OrderInv'
  BY <1>4 DEF OrderInv
<1>5. CASE Submit
  <2>1. jobQueue' = Append(jobQueue, sending) /\ sending.block = best
    BY <1>5 DEF Submit, RunJob, OrderInv
  <2>2. Len(jobQueue') = Len(jobQueue) + 1
        /\ \A i \in 1..Len(jobQueue') :
             IF i = Len(jobQueue) + 1 THEN jobQueue'[i].block = best
                                      ELSE i \in 1..Len(jobQueue) /\ jobQueue'[i] = jobQueue[i]
    BY <1>2, <2>1 DEF TypeOK
  <2>3. UNCHANGED <<working, best, height>> /\ sending' = NoJob
    BY <1>5 DEF Submit, RunJob, chain
  <2>4. ASSUME NEW i \in 1..Len(jobQueue'), NEW k \in 1..Len(jobQueue'), i < k
        PROVE  jobQueue'[i].block <= jobQueue'[k].block
    <3>1. i \in 1..Len(jobQueue) /\ jobQueue'[i] = jobQueue[i]
      BY <1>2, <2>2, <2>4
    <3>2. CASE k = Len(jobQueue) + 1
      BY <2>2, <3>1, <3>2 DEF OrderInv
    <3>3. CASE k # Len(jobQueue) + 1
      BY <2>2, <2>4, <3>1, <3>3 DEF OrderInv
    <3>4. QED BY <3>2, <3>3
  <2>5. \A i \in 1..Len(jobQueue') : jobQueue'[i].block <= best'
    BY <1>1, <1>2, <2>2, <2>3 DEF OrderInv
  <2>6. \A w \in Workers, i \in 1..Len(jobQueue') :
          working'[w] # NoJob => working'[w].block <= jobQueue'[i].block
    BY <1>1, <1>2, <2>2, <2>3 DEF OrderInv
  <2>7. QED BY <2>3, <2>4, <2>5, <2>6 DEF OrderInv
<1>6. ASSUME NEW from, NEW to, NewBest(from, to) PROVE OrderInv'
  <2>1. sending' = NoJob /\ UNCHANGED <<jobQueue, working, height>> /\ best' = height
    BY <1>6 DEF NewBest, Go, pool
  <2>2. \A i \in 1..Len(jobQueue) : jobQueue[i].block <= best'
    BY <1>1, <1>2, <2>1 DEF OrderInv
  <2>3. \A w \in Workers : working[w].block <= best'
    BY <1>1, <2>1 DEF OrderInv
  <2>4. QED BY <1>1, <2>1, <2>2, <2>3 DEF OrderInv
<1>7. ASSUME NEW w \in Workers, Work(w) PROVE OrderInv'
  <2>1. CASE WorkerReceives(w)
    <3>1. jobQueue # <<>> /\ working' = [working EXCEPT ![w] = jobQueue[1]]
          /\ jobQueue' = Tail(jobQueue) /\ UNCHANGED <<sending, best, height>>
      BY <2>1 DEF WorkerReceives, Receive, loop, chain, TypeOK
    <3>2. Len(jobQueue') = Len(jobQueue) - 1
          /\ \A i \in 1..Len(jobQueue') : i + 1 \in 1..Len(jobQueue)
                                         /\ jobQueue'[i] = jobQueue[i + 1]
      BY <1>2, <3>1 DEF TypeOK
    <3>3. 1 \in 1..Len(jobQueue)
      BY <1>2, <3>1 DEF TypeOK
    <3>4. \A v \in Workers : working'[v] = IF v = w THEN jobQueue[1] ELSE working[v]
      BY <3>1 DEF TypeOK
    <3>5. \A i \in 1..Len(jobQueue') : jobQueue'[i].block <= best'
      BY <3>1, <3>2 DEF OrderInv
    <3>6. ASSUME NEW i \in 1..Len(jobQueue'), NEW k \in 1..Len(jobQueue'), i < k
          PROVE  jobQueue'[i].block <= jobQueue'[k].block
      <4>1. i + 1 \in 1..Len(jobQueue) /\ k + 1 \in 1..Len(jobQueue) /\ i + 1 < k + 1
        BY <3>2, <3>6
      <4>2. jobQueue[i + 1].block <= jobQueue[k + 1].block
        BY <4>1 DEF OrderInv
      <4>3. QED BY <3>2, <4>2
    <3>7. \A v \in Workers, i \in 1..Len(jobQueue') :
            working'[v] # NoJob => working'[v].block <= jobQueue'[i].block
      BY <1>2, <3>2, <3>3, <3>4 DEF OrderInv
    <3>8. \A v \in Workers : working'[v].block <= best'
      BY <3>1, <3>3, <3>4 DEF OrderInv
    <3>9. QED BY <3>1, <3>5, <3>6, <3>7, <3>8 DEF OrderInv
  <2>2. CASE Lock(w)
    <3>1. working' = [working EXCEPT ![w] = [working[w] EXCEPT !.locked = TRUE]]
          /\ working[w] # NoJob
          /\ UNCHANGED <<jobQueue, sending, best, height>>
      BY <2>2 DEF Lock, loop, chain
    <3>2. \A v \in Workers : working'[v].block = working[v].block
                           /\ (working'[v] # NoJob => working[v] # NoJob)
      BY <1>1, <3>1 DEF TypeOK, Jobs, NoJob
    <3>3. QED BY <3>1, <3>2 DEF OrderInv
  <2>3. ASSUME JobDone(w), UNCHANGED <<sending, best, height>> PROVE OrderInv'
    <3>1. \A v \in Workers : working'[v] = IF v = w THEN NoJob ELSE working[v]
      BY <2>3 DEF JobDone, TypeOK
    <3>2. UNCHANGED jobQueue
      BY <2>3 DEF JobDone
    <3>3. \A v \in Workers : working'[v].block <= best'
      BY <1>1, <2>3, <3>1 DEF OrderInv, NoJob
    <3>4. QED BY <2>3, <3>1, <3>2, <3>3 DEF OrderInv
  <2>4. CASE ProcessInVain(w)
    BY <2>3, <2>4 DEF ProcessInVain, loop, chain
  <2>5. ASSUME NEW l \in Lifecycles, Advance(w, l) PROVE OrderInv'
    BY <2>3, <2>5 DEF Advance, loop, chain
  <2>6. QED BY <1>7, <2>1, <2>2, <2>4, <2>5 DEF Work
<1>8. CASE Flush
  <2>1. ASSUME NEW l \in Lifecycles, FlushRuns(l) PROVE OrderInv'
    BY <1>4, <2>1 DEF FlushRuns, Job, pool, chain
  <2>2. ASSUME NEW l \in Lifecycles, FlushChecks(l) PROVE OrderInv'
    BY <1>1, <1>3, <2>2 DEF FlushChecks, pool, chain
  <2>3. CASE FlushStartsCheck \/ FlushReturns
    BY <1>1, <1>3, <2>3 DEF FlushStartsCheck, FlushReturns, pool, chain
  <2>4. QED BY <1>6, <1>8, <2>1, <2>2, <2>3 DEF Flush
<1>9. CASE Run
  <2>1. ASSUME NEW l \in Lifecycles, Visit(l) PROVE OrderInv'
    <3>1. sending' # NoJob => sending'.block = best
      BY <2>1 DEF Visit, Job
    <3>2. QED BY <1>4, <2>1, <3>1 DEF Visit, pool, chain
  <2>2. ASSUME NEW l \in Lifecycles, Count(l) PROVE OrderInv'
    BY <1>1, <1>3, <2>2 DEF Count, pool, chain
  <2>3. CASE Look \/ TimeOut \/ Generate \/ SkipGeneration \/ EndRound
    BY <1>1, <1>3, <2>3
       DEF Look, TimeOut, Generate, SkipGeneration, EndRound, pool, chain
  <2>4. QED BY <1>6, <1>9, <2>1, <2>2, <2>3 DEF Run
<1>10. CASE NewBlock \/ Cancel \/ UNCHANGED vars
  <2>1. height <= height' /\ UNCHANGED <<jobQueue, working, sending, best>>
    BY <1>1, <1>10 DEF NewBlock, Cancel, vars, pool, loop, chain
  <2>2. QED BY <1>3, <2>1
<1>11. QED BY <1>5, <1>7, <1>8, <1>9, <1>10 DEF Next

-----------------------------------------------------------------------------
LEMMA InvariantHolds == Spec => []IInv
<1>1. Init => IInv
  BY InitInv
<1>2. IInv /\ [Next]_vars => IInv'
  BY TypeStep, FlushStep, OrderStep DEF IInv
<1>3. QED BY <1>1, <1>2, PTL DEF Spec

\* Every field keeps its type, whatever the engine and the workers do; the channel
\* is never overfull.
THEOREM EngineTypeCorrect == Spec => []TypeOK
<1>1. IInv => TypeOK
  BY DEF IInv
<1>2. QED BY <1>1, InvariantHolds, PTL

\* Flush keeps the promise of its comment for every status it may wait for.
THEOREM FlushKeepsPromise == Spec => []FlushReached
<1>1. IInv => FlushReached
  BY DEF IInv
<1>2. QED BY <1>1, InvariantHolds, PTL

\* The engine drops no lifecycle before it is withdrawn.
THEOREM NoneDroppedEarly == Spec => []DroppedAreDone
<1>1. IInv => DroppedAreDone
  BY DEF IInv
<1>2. QED BY <1>1, InvariantHolds, PTL

\* Jobs of a lifecycle are started in the order of their blocks, with any number of
\* workers.
THEOREM JobsStartInOrder == Spec => []BlocksInOrder
<1>1. ASSUME TypeOK, OrderInv PROVE BlocksInOrder
  <2>1. ASSUME NEW l \in Lifecycles, NEW w \in Workers, NEW i \in Waits(l),
               working[w].lifecycle = l
        PROVE  working[w].block <= jobQueue[i].block
    <3>1. CASE working[w] # NoJob
      BY <1>1, <2>1, <3>1 DEF OrderInv, Waits
    <3>2. CASE working[w] = NoJob
      <4>1. working[w].block = 0
        BY <3>2 DEF NoJob
      <4>2. jobQueue[i] \in Jobs
        BY <1>1 DEF TypeOK, Waits
      <4>3. jobQueue[i].block \in Nat
        BY <4>2, EngineAssumption DEF Jobs, NoJob
      <4>4. QED BY <4>1, <4>3
    <3>3. QED BY <3>1, <3>2
  <2>2. \A l \in Lifecycles : \A i, k \in Waits(l) :
          i < k => jobQueue[i].block <= jobQueue[k].block
    BY <1>1 DEF OrderInv, Waits
  <2>3. QED BY <2>1, <2>2 DEF BlocksInOrder
<1>2. IInv => BlocksInOrder
  BY <1>1 DEF IInv
<1>3. QED BY <1>2, InvariantHolds, PTL

-----------------------------------------------------------------------------
(* The number of validators.  While they are counted the count falls behind by  *)
(* none of those visited, since statuses only advance; what is generated fills   *)
(* the spaces it left at most.                                                   *)

CountInv == phase = "count" => Cardinality(Alive \ todo) <= counted

LEMMA AliveIsFinite ==
  TypeOK => /\ IsFiniteSet(Alive) /\ Cardinality(Alive) \in Nat
            /\ \A S \in SUBSET Alive : IsFiniteSet(S) /\ Cardinality(S) \in Nat
<1> SUFFICES ASSUME TypeOK
             PROVE  IsFiniteSet(Alive) /\ \A S \in SUBSET Alive : IsFiniteSet(S)
  BY FS_CardinalityType
<1>1. Alive \subseteq Lifecycles
  BY DEF Alive, TypeOK
<1>2. QED BY <1>1, EngineAssumption, FS_Subset

\* The largest number of queued validators the generator can ask for.
LEMMA MostDesired ==
  /\ DesiredQueued \subseteq Nat
  /\ MaxAlive \in Int
  /\ \A n \in DesiredQueued : MaxBlockProposers + n - 1 <= MaxAlive
<1> DEFINE room == MaxBlockProposers \div 8
           top == IF room - 1 < MinQueued THEN MinQueued ELSE room - 1
           most == CHOOSE n \in DesiredQueued : \A m \in DesiredQueued : m <= n
<1>1. MinQueued \in Nat \ {0} /\ MaxBlockProposers \in Nat \ {0}
  BY EngineAssumption
<1>2. room \in Nat
  BY <1>1
<1>3. RandomBetween(0, room) = IF room <= 0 THEN {0} ELSE 0..(room - 1)
  BY <1>2 DEF RandomBetween
<1> HIDE DEF room
<1>4. DesiredQueued = {IF n < MinQueued THEN MinQueued ELSE n : n \in RandomBetween(0, room)}
  BY DEF DesiredQueued, room
<1>5. DesiredQueued \subseteq Nat
  BY <1>1, <1>2, <1>3, <1>4
<1>6. \A m \in DesiredQueued : m <= top
  BY <1>1, <1>2, <1>3, <1>4
<1>7. top \in DesiredQueued
  <2>1. CASE room <= 0
    <3>1. 0 \in RandomBetween(0, room)
      BY <1>3, <2>1
    <3>2. top = MinQueued
      BY <1>1, <1>2, <2>1
    <3>3. (IF 0 < MinQueued THEN MinQueued ELSE 0) = MinQueued
      BY <1>1
    <3>4. (IF 0 < MinQueued THEN MinQueued ELSE 0) \in DesiredQueued
      BY <1>4, <3>1
    <3>5. QED BY <3>2, <3>3, <3>4
  <2>2. CASE room > 0
    <3>1. room - 1 \in RandomBetween(0, room)
      BY <1>2, <1>3, <2>2
    <3>2. QED BY <1>4, <3>1
  <2>3. QED BY <1>2, <2>1, <2>2
<1>8. most \in DesiredQueued /\ \A m \in DesiredQueued : m <= most
  BY <1>6, <1>7
<1>9. MaxAlive = MaxBlockProposers + most - 1
  BY DEF MaxAlive
<1> HIDE DEF most
<1>10. QED BY <1>1, <1>5, <1>8, <1>9

LEMMA CountStep ==
  TypeOK /\ CountInv /\ ValidatorsBounded /\ [Next]_vars => CountInv' /\ ValidatorsBounded'
<1> SUFFICES ASSUME TypeOK, CountInv, ValidatorsBounded, [Next]_vars
             PROVE  CountInv' /\ ValidatorsBounded'
  OBVIOUS
<1>1. TypeOK'
  BY TypeStep
<1>2. IsFiniteSet(Alive) /\ Cardinality(Alive) \in Nat
  BY AliveIsFinite
<1>3. Cardinality(Alive') \in Nat
  <2>1. Alive' \subseteq Lifecycles
    BY <1>1 DEF Alive, TypeOK
  <2>2. QED BY <2>1, EngineAssumption, FS_Subset, FS_CardinalityType
<1>4. Cardinality(Seeds) \in Nat /\ MaxAlive \in Int
  <2>1. Seeds \subseteq Lifecycles
    BY EngineAssumption DEF Lifecycles
  <2>2. QED BY <2>1, EngineAssumption, MostDesired, FS_Subset, FS_CardinalityType
<1>5. \A l \in Lifecycles : status'[l] < ExitSignalled => status[l] < ExitSignalled
  <2>1. \A l \in Lifecycles : status[l] \in Int /\ status'[l] \in Int
    BY <1>1 DEF TypeOK, Pending, Withdrawn
  <2>2. QED BY <2>1, StatusesAdvance DEF ExitSignalled
<1>6. ASSUME lifecycles' \subseteq lifecycles PROVE Alive' \subseteq Alive
  BY <1>1, <1>5, <1>6 DEF Alive, TypeOK
<1>7. ASSUME Alive' \subseteq Alive PROVE ValidatorsBounded'
  <2>1. Cardinality(Alive') <= Cardinality(Alive)
    BY <1>2, <1>7, FS_Subset
  <2>2. QED
    BY <1>2, <1>3, <1>4, <2>1 DEF ValidatorsBounded, MaxAlive, DesiredQueued
<1>8. ASSUME lifecycles' \subseteq lifecycles, phase' # "count" PROVE CountInv' /\ ValidatorsBounded'
  BY <1>6, <1>7, <1>8 DEF CountInv
<1>9. ASSUME UNCHANGED <<lifecycles, phase, todo, counted>> PROVE CountInv' /\ ValidatorsBounded'
  <2>1. Alive' \subseteq Alive
    BY <1>6, <1>9
  <2>2. Alive' \ todo' \subseteq Alive \ todo
    BY <1>9, <2>1
  <2>3. IsFiniteSet(Alive \ todo) /\ Cardinality(Alive \ todo) \in Nat
    BY AliveIsFinite
  <2>4. Cardinality(Alive' \ todo') <= Cardinality(Alive \ todo) /\ Cardinality(Alive' \ todo') \in Nat
    BY <2>2, <2>3, FS_Subset, FS_CardinalityType
  <2>5. counted \in Nat
    BY DEF TypeOK
  <2>6. CountInv'
    BY <1>9, <2>3, <2>4, <2>5 DEF CountInv
  <2>7. QED BY <1>7, <2>1, <2>6
<1>10. CASE NewBest("wait", "count")
  <2>1. lifecycles' = lifecycles /\ todo' = lifecycles /\ counted' = counted
    BY <1>10 DEF NewBest, Go
  <2>2. Alive' \ todo' = {}
    BY <2>1 DEF Alive
  <2>3. Cardinality(Alive' \ todo') = 0
    BY <2>2, FS_EmptySet
  <2>4. counted' \in Nat
    BY <1>1 DEF TypeOK
  <2>5. QED BY <1>6, <1>7, <2>1, <2>3, <2>4 DEF CountInv
<1>11. ASSUME NEW l \in Lifecycles, Count(l) PROVE CountInv' /\ ValidatorsBounded'
  <2>1. /\ phase = "count" /\ todo' = todo \ {l} /\ l \in lifecycles
        /\ Alive' = Alive
        /\ counted' = counted + IF l \in Validators /\ status[l] < ExitSignalled THEN 1 ELSE 0
    BY <1>11 DEF Count, Alive, TypeOK
  <2>2. IsFiniteSet(Alive \ todo) /\ Cardinality(Alive \ todo) \in Nat
    BY AliveIsFinite
  <2>3. counted \in Nat /\ Cardinality(Alive \ todo) <= counted
    BY <2>1 DEF TypeOK, CountInv
  <2>4. Cardinality(Alive' \ todo') <= counted'
    <3>1. CASE l \in Alive
      <4>1. Alive' \ todo' \subseteq (Alive \ todo) \cup {l} /\ counted' = counted + 1
        BY <2>1, <3>1 DEF Alive
      <4>2. /\ IsFiniteSet((Alive \ todo) \cup {l})
            /\ Cardinality((Alive \ todo) \cup {l}) <= Cardinality(Alive \ todo) + 1
            /\ Cardinality((Alive \ todo) \cup {l}) \in Nat
        <5>1. /\ IsFiniteSet((Alive \ todo) \cup {l})
              /\ Cardinality((Alive \ todo) \cup {l})
                   = IF l \in Alive \ todo THEN Cardinality(Alive \ todo)
                                          ELSE Cardinality(Alive \ todo) + 1
          BY <2>2, FS_AddElement
        <5>2. QED BY <2>2, <5>1, FS_CardinalityType
      <4>3. /\ Cardinality(Alive' \ todo') <= Cardinality((Alive \ todo) \cup {l})
            /\ Cardinality(Alive' \ todo') \in Nat
        BY <4>1, <4>2, FS_Subset, FS_CardinalityType
      <4>4. QED BY <2>2, <2>3, <4>1, <4>2, <4>3
    <3>2. CASE l \notin Alive
      <4>1. Alive' \ todo' = Alive \ todo
        BY <2>1, <3>2
      <4>2. counted' >= counted
        BY <2>1, <2>3
      <4>3. counted' \in Nat
        BY <1>1 DEF TypeOK
      <4>4. QED BY <2>2, <2>3, <4>1, <4>2, <4>3
    <3>3. QED BY <3>1, <3>2
  <2>5. QED BY <1>7, <2>1, <2>4 DEF CountInv
<1>12. CASE Generate
  <2>1. PICK desired \in DesiredQueued, new \in SUBSET unused :
          /\ LET left == Cardinality(unused \cap Validators)
             IN  \E amount \in RandomBetween(0, MaxBlockProposers + desired - counted) :
                   Cardinality(new \cap Validators) = IF amount < left THEN amount ELSE left
          /\ lifecycles' = lifecycles \cup new
          /\ unused' = unused \ new
    BY <1>12 DEF Generate
  <2> DEFINE made == new \cap Validators
  <2>2. PICK amount \in RandomBetween(0, MaxBlockProposers + desired - counted) :
          Cardinality(made) = IF amount < Cardinality(unused \cap Validators)
                                THEN amount ELSE Cardinality(unused \cap Validators)
    BY <2>1
  <2>3. /\ phase = "count" /\ todo = {} /\ phase' = "pass" /\ UNCHANGED status
    BY <1>12 DEF Generate, Go
  <2>4. IsFiniteSet(made) /\ Cardinality(made) \in Nat
        /\ Cardinality(unused \cap Validators) \in Nat
    <3>1. made \subseteq Lifecycles /\ unused \cap Validators \subseteq Lifecycles
      BY DEF TypeOK
    <3>2. QED BY <3>1, EngineAssumption, FS_Subset, FS_CardinalityType
  <2> HIDE DEF made
  <2>5. counted \in Nat /\ Cardinality(Alive) <= counted
    <3>1. Alive \ todo = Alive
      BY <2>3
    <3>2. QED BY <2>3, <3>1 DEF CountInv, TypeOK
  <2>6. desired \in Nat /\ MaxBlockProposers + desired - 1 <= MaxAlive
    BY MostDesired
  <2>7. MaxBlockProposers \in Nat
    BY EngineAssumption
  <2>8. Alive' \subseteq Alive \cup made
    BY <2>1, <2>3 DEF Alive, made
  <2>9. CountInv'
    BY <2>3 DEF CountInv
  <2>10. CASE 0 >= MaxBlockProposers + desired - counted
    <3>1. amount = 0
      BY <2>10 DEF RandomBetween
    <3>2. Cardinality(made) = 0
      BY <2>2, <2>4, <3>1
    <3>3. made = {}
      BY <2>4, <3>2, FS_EmptySet
    <3>4. QED BY <1>7, <2>8, <2>9, <3>3
  <2>11. CASE ~(0 >= MaxBlockProposers + desired - counted)
    <3>1. amount \in 0..(MaxBlockProposers + desired - counted - 1)
      <4> DEFINE missing == MaxBlockProposers + desired - counted
      <4>1. amount \in RandomBetween(0, missing)
        BY <2>2
      <4>2. ~(0 >= missing)
        BY <2>11
      <4> HIDE DEF missing
      <4>3. amount \in 0..(missing - 1)
        BY <4>1, <4>2 DEF RandomBetween
      <4>4. QED BY <2>5, <2>6, <2>7, <4>3 DEF missing
    <3>2. Cardinality(made) <= MaxBlockProposers + desired - counted - 1
      <4> DEFINE limit == MaxBlockProposers + desired - counted - 1
      <4>1. limit \in Int /\ amount \in 0..limit
        BY <2>5, <2>6, <2>7, <3>1
      <4> HIDE DEF limit
      <4>2. Cardinality(made) <= amount
        BY <2>2, <2>4, <4>1
      <4>3. Cardinality(made) <= limit
        BY <2>4, <4>1, <4>2
      <4>4. QED BY <4>3 DEF limit
    <3>3. IsFiniteSet(Alive \cup made)
      BY <1>2, <2>4, FS_Union
    <3>4. Cardinality(Alive \cup made) \in Nat
      BY <3>3, FS_CardinalityType
    <3>5. Cardinality(Alive \cup made) <= Cardinality(Alive) + Cardinality(made)
      <4>1. /\ Cardinality(Alive \cup made)
                 = Cardinality(Alive) + Cardinality(made) - Cardinality(Alive \cap made)
            /\ IsFiniteSet(Alive \cap made)
        BY <1>2, <2>4, FS_Union, FS_Intersection
      <4>2. Cardinality(Alive \cap made) \in Nat
        BY <4>1, FS_CardinalityType
      <4>3. QED BY <1>2, <2>4, <4>1, <4>2
    <3>6. Cardinality(Alive') <= Cardinality(Alive \cup made)
      BY <2>8, <3>3, FS_Subset
    <3>7. Cardinality(Alive') <= MaxAlive
      BY <1>2, <1>3, <1>4, <2>4, <2>5, <2>6, <2>7, <3>2, <3>4, <3>5, <3>6
    <3>8. ValidatorsBounded'
      BY <3>7 DEF ValidatorsBounded, MaxAlive, DesiredQueued
    <3>9. QED BY <2>9, <3>8
  <2>12. QED BY <2>10, <2>11
<1>13. CASE Flush
  <2>1. lifecycles' = lifecycles /\ phase' # "count"
    BY <1>13 DEF Flush, NewBest, Go, FlushStartsCheck, FlushReturns, FlushRuns, FlushChecks
  <2>2. QED BY <1>8, <2>1
<1>14. CASE Look \/ TimeOut \/ SkipGeneration \/ EndRound
  <2>1. lifecycles' \subseteq lifecycles /\ phase' # "count"
    BY <1>14 DEF Look, TimeOut, SkipGeneration, EndRound, Go
  <2>2. QED BY <1>8, <2>1
<1>15. ASSUME NEW l \in Lifecycles, Visit(l) PROVE CountInv' /\ ValidatorsBounded'
  <2>1. lifecycles' = lifecycles /\ phase' # "count"
    BY <1>15 DEF Visit
  <2>2. QED BY <1>8, <2>1
<1>16. ASSUME NEW w \in Workers, Work(w)
       PROVE  UNCHANGED <<lifecycles, phase, todo, counted>>
  BY <1>16 DEF Work, WorkerReceives, Lock, ProcessInVain, Advance, loop
<1>17. CASE Submit \/ NewBlock \/ Cancel \/ UNCHANGED vars
  <2>1. UNCHANGED <<lifecycles, phase, todo, counted>>
    BY <1>17 DEF Submit, NewBlock, Cancel, vars, loop
  <2>2. QED BY <1>9, <2>1
<1>18. QED
  BY <1>9, <1>10, <1>11, <1>12, <1>13, <1>14, <1>15, <1>16, <1>17 DEF Next, Run

\* The generator never makes more validators than the network has room for: the
\* bound holds for every number of them and although workers change the statuses
\* while they are counted.
THEOREM GeneratorKeepsBound == Spec => []ValidatorsBounded
<1>1. Init => CountInv /\ ValidatorsBounded
  <2> SUFFICES ASSUME Init PROVE CountInv /\ ValidatorsBounded
    OBVIOUS
  <2>1. TypeOK
    BY InitInv DEF IInv
  <2>2. Alive \subseteq Seeds /\ phase = "flushWait"
    BY DEF Init, Alive
  <2>3. IsFiniteSet(Seeds)
    BY EngineAssumption, FS_Subset DEF Lifecycles
  <2>4. Cardinality(Alive) <= Cardinality(Seeds)
    BY <2>2, <2>3, FS_Subset
  <2>5. QED BY <2>2, <2>4 DEF CountInv, ValidatorsBounded
<1>2. TypeOK /\ CountInv /\ ValidatorsBounded /\ [Next]_vars
        => CountInv' /\ ValidatorsBounded'
  BY CountStep
<1>3. Spec => []TypeOK
  BY EngineTypeCorrect
<1>4. QED BY <1>1, <1>2, <1>3, PTL DEF Spec
=============================================================================
