---------------------------- MODULE DevnetCleanup ----------------------------
(***************************************************************************)
(* devnetcleanup.Cleanup: Run looks through the delegations in pages,      *)
(* signals the exit of those that are locked and withdraws those that can  *)
(* be withdrawn.  It sends and does not wait for receipts.                 *)
(*                                                                         *)
(* External: the delegations on chain and the mempool.  A delegation whose *)
(* validator exits without its own exit signalled is stranded: not locked, *)
(* and its last period is not over (getLockedDelegators).                  *)
(***************************************************************************)
EXTENDS FiniteSetsExt, Integers

CONSTANTS MaxID,    \* bound: delegations ever added
          PageSize  \* searchLimit + 1

ASSUME CleanupAssumption == {MaxID, PageSize} \subseteq Nat \ {0}

VARIABLES
  delegation,  \* what the staker contract knows of each delegation
  pool,        \* the cleanup's calls in the mempool
  step,        \* where Run is
  previousCleaned,  \* 0: nil
  currentID, lastID,
  locked, withdrawable  \* what was found and is not dealt with

chainVars == <<delegation, pool>>
runVars == <<step, previousCleaned, currentID, lastID, locked, withdrawable>>
cleanupVars == <<chainVars, runVars>>

IDs == 1..MaxID
Stages == {"none", "queued", "locked", "exiting", "ended", "stranded", "withdrawn"}
Added == {id \in IDs : delegation[id] # "none"}
LastAdded == Max(Added \cup {0})

CleanupInit ==
  /\ delegation = [id \in IDs |-> "none"] /\ pool = {}
  /\ step = "idle" /\ previousCleaned = 0
  /\ currentID = 0 /\ lastID = 0 /\ locked = {} /\ withdrawable = {}

Returns ==
  /\ step' = "returned" /\ currentID' = 0 /\ lastID' = 0
  /\ locked' = {} /\ withdrawable' = {}

\* Fault: the cursor, which has moved in place, is moved again.
FirstIDTwice == previousCleaned + 2

\* big.Int.Add works in place: the cursor has moved before anything is cleaned.
FirstID == previousCleaned + 1

FindLast ==
  /\ step = "find"
  /\ \/ Added = {} /\ Returns /\ UNCHANGED previousCleaned
     \/ /\ Added # {}
        /\ lastID' = LastAdded /\ currentID' = FirstID /\ step' = "fetch"
        /\ previousCleaned' = IF previousCleaned = 0 THEN 0 ELSE FirstID
        /\ UNCHANGED <<locked, withdrawable>>
  /\ UNCHANGED chainVars

\* getLockedDelegators: it stops at the first number that is no delegation.
Page(first, last) ==
  {id \in Added : first <= id /\ id <= last /\ \A i \in first..id : i \in Added}

\* Whether a delegation that has not begun can be withdrawn depends on its validator.
FetchLockedDelegators ==
  /\ step = "fetch" /\ currentID <= lastID
  /\ LET end == Min({currentID + PageSize - 1, lastID})
         found == Page(currentID, end)
         in(stages) == {id \in found : delegation[id] \in stages}
     IN  /\ currentID' = end + 1
         /\ locked' = locked \cup in({"locked", "exiting"})
         /\ \E early \in SUBSET in({"queued"}) :
              withdrawable' = withdrawable \cup in({"ended"}) \cup early
  /\ UNCHANGED <<chainVars, step, previousCleaned, lastID>>

\* The events, or a page, cannot be read: Run returns the error.
FetchFails ==
  /\ step = "find" \/ (step = "fetch" /\ currentID <= lastID)
  /\ Returns /\ UNCHANGED <<chainVars, previousCleaned>>

\* One transaction after the other; one that cannot be sent is logged.
SignalDelegationExit(sent) ==
  /\ step = "fetch" /\ currentID > lastID /\ locked # {}
  /\ LET id == Min(locked)
     IN  /\ locked' = locked \ {id}
         /\ pool' = IF sent THEN pool \cup {<<"exit", id>>} ELSE pool
  /\ UNCHANGED <<delegation, step, previousCleaned, currentID, lastID, withdrawable>>

WithdrawDelegation(sent) ==
  /\ step = "fetch" /\ currentID > lastID /\ locked = {} /\ withdrawable # {}
  /\ LET id == Min(withdrawable)
     IN  /\ withdrawable' = withdrawable \ {id}
         /\ pool' = IF sent THEN pool \cup {<<"withdraw", id>>} ELSE pool
  /\ UNCHANGED <<delegation, step, previousCleaned, currentID, lastID, locked>>

Completed ==
  /\ step = "fetch" /\ currentID > lastID /\ locked = {} /\ withdrawable = {}
  /\ Returns /\ previousCleaned' = lastID
  /\ UNCHANGED chainVars

Run == FindLast \/ FetchLockedDelegators \/ SignalDelegationExit(TRUE) \/ WithdrawDelegation(TRUE)
         \/ Completed
RunFails == FetchFails \/ SignalDelegationExit(FALSE) \/ WithdrawDelegation(FALSE)

-----------------------------------------------------------------------------
Becomes(id, stage) ==
  /\ delegation' = [delegation EXCEPT ![id] = stage]
  /\ UNCHANGED <<pool, runVars>>

PeriodEnds(id) ==
  \/ delegation[id] = "queued" /\ Becomes(id, "locked")
  \/ delegation[id] = "exiting" /\ Becomes(id, "ended")

ValidatorExits(id) == delegation[id] = "locked" /\ Becomes(id, "stranded")

\* A call is mined, or expires.  One the delegation is not ready for is reverted.
Mine(call) ==
  /\ call \in pool /\ pool' = pool \ {call}
  /\ LET id == call[2]
         stage == delegation[id]
     IN  delegation' = [delegation EXCEPT ![id] =
           CASE call[1] = "exit" /\ stage = "locked" -> "exiting"
             [] call[1] = "withdraw" /\ stage \in {"queued", "ended", "stranded"} -> "withdrawn"
             [] OTHER -> stage]
  /\ UNCHANGED runVars

Expire(call) == call \in pool /\ pool' = pool \ {call} /\ UNCHANGED <<delegation, runVars>>
==============================================================================
