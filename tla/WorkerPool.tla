------------------------------ MODULE WorkerPool ------------------------------
(* lifecycle.WorkerPool, as the engine uses it: started once, then Run. *)
EXTENDS Integers, Sequences, FiniteSets

CONSTANT Workers   \* the worker goroutines, maxWorkers of them

ASSUME WorkersAssumption == IsFiniteSet(Workers) /\ Workers # {}

VARIABLES jobQueue, \* the buffered channel
          working   \* worker -> the job it runs, or NoJob

NoJob == [lifecycle |-> "none", block |-> 0, locked |-> FALSE]

QueueSize == 2 * Cardinality(Workers)

PoolInit == jobQueue = <<>> /\ working = [w \in Workers |-> NoJob]

\* Run blocks while the channel is full.
RunJob(job) ==
  /\ Len(jobQueue) < QueueSize
  /\ jobQueue' = Append(jobQueue, job)
  /\ UNCHANGED working

\* Fault: a worker takes the job that came last.
ReceiveLast(w) ==
  /\ working[w] = NoJob /\ jobQueue # <<>>
  /\ working' = [working EXCEPT ![w] = jobQueue[Len(jobQueue)]]
  /\ jobQueue' = SubSeq(jobQueue, 1, Len(jobQueue) - 1)

\* worker: receives the next job, ...
Receive(w) ==
  /\ working[w] = NoJob /\ jobQueue # <<>>
  /\ working' = [working EXCEPT ![w] = Head(jobQueue)]
  /\ jobQueue' = Tail(jobQueue)

\* ... and is free when the job returns.
JobDone(w) ==
  /\ working' = [working EXCEPT ![w] = NoJob]
  /\ UNCHANGED jobQueue
=============================================================================
