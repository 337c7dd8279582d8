-------------------------------- MODULE Devnet -------------------------------
(***************************************************************************)
(* The program against the devnet, run again and again: setStargate, the   *)
(* authorities' flush and the wait for dPoS, the cleanup of what earlier   *)
(* programs left, the engine until the program is interrupted, and the     *)
(* cleanup of what this one leaves.  A crash ends it anywhere.             *)
(***************************************************************************)
EXTENDS StargateParam, DevnetCleanup

CONSTANT MaxFaults  \* bound: failures once the delegator contract's address is set

ASSUME FaultsAssumption == MaxFaults \in Nat

VARIABLES adds,   \* delegations sent and not mined
          faults

vars == <<setVars, cleanupVars, adds, faults>>

Init == SetInit /\ CleanupInit /\ adds = 0 /\ faults = 0

Counted(fault) == faults < MaxFaults /\ fault /\ faults' = faults + 1

\* setStargate may fail as often as it likes, until the address is there to be found.
SetStargate ==
  /\ setStargate \/ SetChain
  /\ IF at = "start" /\ param = "stargate" /\ at' = "exit" THEN Counted(TRUE)
                                                        ELSE UNCHANGED faults
  /\ UNCHANGED <<cleanupVars, adds>>

\* engine.Flush(Queued), the best block and WaitForPOS, which can fail; then Cleanup.Run.
Flushed ==
  /\ at = "flush"
  /\ \/ Counted(Fail) /\ UNCHANGED step
     \/ Goes("cleanup") /\ step' = "find" /\ UNCHANGED faults
  /\ UNCHANGED <<param, stray, chainVars, previousCleaned, currentID, lastID, locked, withdrawable,
                 adds>>

Cleaning == ((Run /\ UNCHANGED faults) \/ Counted(RunFails)) /\ UNCHANGED <<setVars, adds>>

\* However the first cleanup ended the engine starts; the last one ends the program.
Cleaned ==
  /\ step = "returned" /\ step' = "idle"
  /\ \/ at = "cleanup" /\ Goes("engine") /\ UNCHANGED previousCleaned
     \/ at = "final" /\ Fail /\ previousCleaned' = 0
  /\ UNCHANGED <<param, stray, chainVars, currentID, lastID, locked, withdrawable, adds, faults>>

\* A delegator's lifecycle sends its registration.
Delegate ==
  /\ at = "engine" /\ Cardinality(Added) + adds < MaxID /\ adds' = adds + 1
  /\ UNCHANGED <<setVars, cleanupVars, faults>>

MineAdd ==
  /\ adds > 0 /\ adds' = adds - 1
  /\ delegation' = [delegation EXCEPT ![LastAdded + 1] = "queued"]
  /\ UNCHANGED <<setVars, pool, runVars, faults>>

\* The context is done: Run of the engine returns, the stop function is called.
Interrupt ==
  /\ at = "engine" /\ Goes("final") /\ step' = "find"
  /\ UNCHANGED <<param, stray, chainVars, previousCleaned, currentID, lastID, locked, withdrawable,
                 adds, faults>>

\* What the process knows is gone.
Crash ==
  /\ at # "exit" /\ Counted(Fail) /\ stray' = (stray \/ execute = "waiting")
  /\ step' = "idle" /\ previousCleaned' = 0 /\ currentID' = 0 /\ lastID' = 0
  /\ locked' = {} /\ withdrawable' = {}
  /\ UNCHANGED <<param, chainVars, adds>>

Rerun == at = "exit" /\ Leave("start") /\ UNCHANGED <<param, stray, cleanupVars, adds, faults>>

Calls == {"exit", "withdraw"} \X IDs
Chain(op) == op /\ UNCHANGED <<setVars, adds>>

Next ==
  \/ SetStargate \/ Flushed \/ Cleaning \/ Cleaned
  \/ Delegate \/ MineAdd \/ Interrupt \/ Crash \/ Rerun
  \/ \E id \in IDs : Chain(PeriodEnds(id) \/ ValidatorExits(id)) /\ UNCHANGED faults
  \/ \E call \in Calls : Chain(Mine(call)) /\ UNCHANGED faults
  \/ \E call \in Calls : Chain(Counted(Expire(call)))

Spec == Init /\ [][Next]_vars

\* The program is interrupted and started again and again, it goes on wherever it is,
\* periods end, and a call in the mempool is mined or expires.
FairSpec ==
  /\ Spec
  /\ WF_vars(SetStargate \/ Flushed \/ Cleaning \/ Cleaned \/ Interrupt \/ Rerun)
  /\ \A id \in IDs : WF_vars(Chain(PeriodEnds(id)) /\ UNCHANGED faults)
  /\ \A call \in Calls : WF_vars(Chain(Mine(call)) /\ UNCHANGED faults)

-----------------------------------------------------------------------------
Places == {"start", "propose", "approve", "polling", "execute", "executing",
           "flush", "cleanup", "engine", "final", "exit"}

TypeOK ==
  /\ at \in Places /\ param \in {"other", "stargate"} /\ stray \in BOOLEAN
  /\ approval \in [Executors -> TxResults] /\ approved \subseteq Executors
  /\ round \in 0..Rounds /\ minuteOver \in BOOLEAN /\ execute \in TxResults
  /\ delegation \in [IDs -> Stages] /\ pool \subseteq Calls
  /\ step \in {"idle", "find", "fetch", "returned"}
  /\ previousCleaned \in 0..MaxID + 1 /\ currentID \in 0..MaxID + 1 /\ lastID \in 0..MaxID
  /\ locked \subseteq IDs /\ withdrawable \subseteq IDs
  /\ adds \in 0..MaxID /\ faults \in 0..MaxFaults

\* The set-up keeps its order through timeouts, crashes and executions that are mined
\* for a program that is gone: the proposal is executed when every executor's approval
\* is on chain, and nothing is delegated before the delegator contract's address is
\* set (setStargate, startAgainstDevnet).
SetUpInOrder ==
  /\ execute # "none" => AllApproved
  /\ at \in {"flush", "cleanup", "engine", "final"} \/ adds > 0 \/ Added # {}
       => param = "stargate"

\* Nothing stays delegated for ever: whatever one program leaves, for it crashed, a
\* page or a send failed or its delegation was mined too late, a later one takes back,
\* unless the validator has gone before it (Run: "cleanup old delegation positions
\* from previous runs").
EventuallyClean ==
  \A id \in IDs : delegation[id] # "none" ~> delegation[id] \in {"withdrawn", "stranded"}
===============================================================================
