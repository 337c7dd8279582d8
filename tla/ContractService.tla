--------------------------- MODULE ContractService ---------------------------
(***************************************************************************)
(* contract.Service: the snapshot of the staker contract all lifecycles    *)
(* read.  poll fetches every queued and active validator at a block, and   *)
(* later stores what it fetched; validators that have left the lists are   *)
(* looked up one by one.                                                   *)
(*                                                                         *)
(* Every access holds s.mu, which is also held while poll looks them up.   *)
(* FetchAll keeps answers by block id; a block's answer does not change,   *)
(* so the cache does not show here.                                        *)
(***************************************************************************)
EXTENDS StakerChain, FiniteSets

CONSTANT Others,     \* active validators somebody else runs
         MaxFaults   \* bound: requests that fail, late answers and restarts

ASSUME ServiceAssumption ==
  /\ IsFiniteSet(Validators)
  /\ {Others, MaxFaults} \subseteq Nat

VARIABLES
  idLookup,     \* s.idLookup: what is known of a validator, "absent" without entry
  activeCount,  \* len(s.active)
  polling,      \* where poll is; "late": a block came since it fetched
  fetched,      \* validators by id, as FetchAll returned them
  faults        \* faults so far

serviceVars == <<idLookup, activeCount, polling, fetched>>

Entries == {"absent", "nil", "queued", "active", "exiting", "exit"}
Nobody == [v \in Validators |-> "absent"]

ServiceInit ==
  /\ idLookup = Nobody
  /\ activeCount = 0
  /\ polling = "due"
  /\ fetched = Nobody

Fault == faults < MaxFaults /\ faults' = faults + 1

\* FetchAll: the lists hold no validator that has exited.
FetchAll ==
  [v \in Validators |-> IF Status(v) = "exit" THEN "absent" ELSE Status(v)]

PollFetch ==
  /\ polling = "due"
  /\ polling' = "fetched"
  /\ fetched' = FetchAll
  /\ UNCHANGED <<idLookup, activeCount>>

\* The wait for a block or the fetch fails: no refresh before the next block.
PollFails ==
  /\ polling = "due" /\ Fault
  /\ polling' = "stored"
  /\ UNCHANGED <<idLookup, activeCount, fetched>>

\* checkExited asks for a validator's state of now; s.exited is never written, so
\* it is asked again at every poll.
Left == {v \in Validators : idLookup[v] # "absent" /\ fetched[v] = "absent"}

\* Fault: what is known of a validator already is kept.
LookupAfterKept(failing) ==
  [v \in Validators |-> IF idLookup[v] # "absent" /\ v \notin Left THEN idLookup[v]
                        ELSE IF v \in failing THEN "nil"
                        ELSE IF v \in Left THEN Status(v) ELSE fetched[v]]

\* Fault: validators that have left the lists are forgotten.
LookupAfterFetched(failing) == fetched

\* A failing lookup leaves a nil behind; maps.Copy then adds what was fetched.
LookupAfter(failing) ==
  [v \in Validators |-> IF v \in failing THEN "nil"
                        ELSE IF v \in Left THEN Status(v) ELSE fetched[v]]

PollStore ==
  /\ polling \in {"fetched", "late"}
  /\ activeCount' = Others + Cardinality({v \in Validators : fetched[v] = "active"})
  /\ \/ idLookup' = LookupAfter({}) /\ UNCHANGED faults
     \/ \E v \in Left : idLookup' = LookupAfter({v}) /\ Fault
  /\ polling' = IF polling = "late" THEN "due" ELSE "stored"
  /\ fetched' = Nobody

\* A new block: ticker.Wait returns, or poll is still at the block before.
PollAfterBlock ==
  CASE polling = "stored"  -> "due"
    [] polling = "fetched" -> "late"
    [] OTHER               -> polling

\* GetActiveCount and LookupAddress.
GetActiveCount == activeCount
LookupAddress(v) == idLookup[v]
==============================================================================
