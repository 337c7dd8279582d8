------------------------------- MODULE Stargate -------------------------------
(***************************************************************************)
(* hayabusa/stargate/stargate.sol: the contract through which delegators   *)
(* stake and which shares each staking period's rewards among them.  A     *)
(* transaction is one action; one that reverts changes nothing, so what    *)
(* the code requires is the guard.  getClaimable is called without a       *)
(* transaction only.                                                       *)
(*                                                                         *)
(* External: the staker contract and the periods of its validators.  The   *)
(* contract has all stakes and never withdraws them.  Amounts are far      *)
(* below 2^256.                                                            *)
(***************************************************************************)
EXTENDS Integers, FiniteSets, Functions

CONSTANTS
  Validators, Delegators,
  Value, Multiplier,  \* what each delegator adds its delegation with
  DelegatorsRewards,  \* the staker's rewards by validator and period
  MaxPeriod           \* bound on the periods a validator completes

\* The periods that the maps are read and written at.  Never is MaxUint32.
Periods == 0 .. MaxPeriod + 2
Never == MaxPeriod + 3

ASSUME StargateAssumption ==
  /\ IsFiniteSet(Delegators)
  /\ MaxPeriod \in Nat
  /\ Value \in [Delegators -> Nat] /\ Multiplier \in [Delegators -> Nat]
  /\ DelegatorsRewards \in [Validators -> [Periods -> Nat]]

VARIABLES
  status, completed,  \* of the validators, in the staker
  delegation,         \* of the delegators: delegationIDs and the staker's record
  weights, reductions, rewards,  \* by validator and period
  populatedWeights,   \* by validator
  claims,             \* by delegator: the last period claimed
  paid,               \* by delegator and period: the VTHO transferred for it
  inStep              \* history, which nothing reads: has no claim been for less
                      \* than was populated already?

stakerVars == <<status, completed>>
claimVars == <<rewards, populatedWeights, claims, paid, inStep>>
vars == <<stakerVars, delegation, weights, reductions, claimVars>>

NoDelegation == [validator |-> "none"]
Delegates == {d \in Delegators : delegation[d] # NoDelegation}

Init ==
  /\ status \in [Validators -> {"queued", "active"}]
  /\ completed = [v \in Validators |-> 0]
  /\ delegation = [d \in Delegators |-> NoDelegation]
  /\ weights = [v \in Validators |-> [p \in Periods |-> 0]]
  /\ reductions = weights /\ rewards = weights
  /\ populatedWeights = [v \in Validators |-> 0]
  /\ claims = [d \in Delegators |-> 0]
  /\ paid = [d \in Delegators |-> [p \in Periods |-> 0]]
  /\ inStep = TRUE

-----------------------------------------------------------------------------
(* The staker. *)

\* A delegation starts with the period after the one that is running.
StartPeriod(v) == IF status[v] = "queued" THEN 1 ELSE completed[v] + 2

\* What the staker asks of a delegation whose exit is signalled.
CanSignal(d) ==
  LET v == delegation[d].validator
  IN /\ status[v] = "active"
     /\ delegation[d].start <= completed[v] + 1
     /\ delegation[d].end = Never

Activate(v) ==
  /\ status[v] = "queued"
  /\ status' = [status EXCEPT ![v] = "active"]
  /\ UNCHANGED <<completed, delegation, weights, reductions, claimVars>>

PeriodEnds(v) ==
  /\ status[v] = "active" /\ completed[v] < MaxPeriod
  /\ completed' = [completed EXCEPT ![v] = @ + 1]
  /\ \E s \in {"active", "exited"} : status' = [status EXCEPT ![v] = s]
  /\ UNCHANGED <<delegation, weights, reductions, claimVars>>

-----------------------------------------------------------------------------
(* The contract. *)

weight(d) == (Value[d] * Multiplier[d]) \div 100

\* Fault: the weight is put in place of the one of others who start then.
addDelegatorAlone(d, v) ==
  LET start == StartPeriod(v)
  IN /\ d \notin Delegates /\ Value[d] > 0
     /\ status[v] # "exited"
     /\ delegation' = [delegation EXCEPT ![d] =
                         [validator |-> v, start |-> start, end |-> Never]]
     /\ weights' = [weights EXCEPT ![v][start] = weight(d)]
     /\ UNCHANGED <<stakerVars, reductions, claimVars>>

addDelegator(d, v) ==
  LET start == StartPeriod(v)
  IN /\ d \notin Delegates /\ Value[d] > 0
     /\ status[v] # "exited"
     /\ delegation' = [delegation EXCEPT ![d] =
                         [validator |-> v, start |-> start, end |-> Never]]
     /\ weights' = [weights EXCEPT ![v][start] = @ + weight(d)]
     /\ UNCHANGED <<stakerVars, reductions, claimVars>>

disableAutoRenew(d) ==
  /\ d \in Delegates
  /\ CanSignal(d)
  /\ LET v == delegation[d].validator
         lastPeriod == completed[v] + 1
     IN /\ delegation' = [delegation EXCEPT ![d].end = lastPeriod]
        /\ reductions' = [reductions EXCEPT ![v][lastPeriod + 1] = @ + weight(d)]
  /\ UNCHANGED <<stakerVars, weights, claimVars>>

\* Fault: the last period claimed is claimed again.
firstClaimableAgain(d) == IF claims[d] = 0 THEN delegation[d].start ELSE claims[d]

firstClaimable(d) == IF claims[d] = 0 THEN delegation[d].start ELSE claims[d] + 1

\* Fault: the period that is running counts.
maxClaimableRunning(d) ==
  LET done == completed[delegation[d].validator] + 1
  IN IF delegation[d].end < done THEN delegation[d].end ELSE done

maxClaimable(d) ==
  LET done == completed[delegation[d].validator]
  IN IF delegation[d].end < done THEN delegation[d].end ELSE done

HasClaim(d) == maxClaimable(d) # 0 /\ firstClaimable(d) <= maxClaimable(d)

\* Fault: the cursor is not looked at.
UnpopulatedAgain(v, last) == 1 .. last

\* The periods that a claim up to the last populates.
Unpopulated(v, last) == populatedWeights[v] + 1 .. last

\* _updateWeights over all of them: what is added and what is taken off by
\* period becomes the weight that all delegators have in it.
updatedWeights(v, last) ==
  LET w[p \in Periods] ==
        IF p \in Unpopulated(v, last)
        THEN LET new == w[p - 1] + weights[v][p] - reductions[v][p]
             IN IF new = 0 THEN weights[v][p] ELSE new
        ELSE weights[v][p]
  IN w

\* The subtraction is checked: if it went below zero the claim would revert.
NoUnderflow(v, last, w) ==
  \A p \in Unpopulated(v, last) : w[p - 1] + weights[v][p] >= reductions[v][p]

\* _updateRewards over all of them.
updatedRewards(v, last, w) ==
  [p \in Periods |-> IF p \in Unpopulated(v, last) /\ w[p] # 0
                     THEN DelegatorsRewards[v][p] ELSE rewards[v][p]]

calculatePeriodRewards(d, allWeight, allRewards) ==
  IF allWeight = 0 THEN 0 ELSE (allRewards * weight(d)) \div allWeight

claimRewards(d) ==
  /\ d \in Delegates
  /\ HasClaim(d)
  /\ LET v == delegation[d].validator
         last == maxClaimable(d)
         w == updatedWeights(v, last)
         r == updatedRewards(v, last, w)
         share == [p \in Periods |->
                     IF p \in firstClaimable(d) .. last
                     THEN calculatePeriodRewards(d, w[p], r[p]) ELSE 0]
     IN /\ NoUnderflow(v, last, w)
        /\ \E p \in Periods : share[p] > 0
        /\ claims' = [claims EXCEPT ![d] = last]
        /\ weights' = [weights EXCEPT ![v] = w]
        /\ rewards' = [rewards EXCEPT ![v] = r]
        /\ populatedWeights' = [populatedWeights EXCEPT ![v] = last]
        /\ inStep' = (inStep /\ populatedWeights[v] <= last)
        /\ paid' = [paid EXCEPT ![d] = [p \in Periods |-> @[p] + share[p]]]
  /\ UNCHANGED <<stakerVars, delegation, reductions>>

Next ==
  \/ \E v \in Validators : Activate(v) \/ PeriodEnds(v)
  \/ \E d \in Delegators, v \in Validators : addDelegator(d, v)
  \/ \E d \in Delegators : disableAutoRenew(d) \/ claimRewards(d)

Spec == Init /\ [][Next]_vars

-----------------------------------------------------------------------------
(* What the contract promises. *)

\* The cursors stay behind the validators' periods, and no map goes negative.
TypeOK ==
  /\ status \in [Validators -> {"queued", "active", "exited"}]
  /\ completed \in [Validators -> 0 .. MaxPeriod]
  /\ delegation \in [Delegators ->
       {NoDelegation} \cup [validator : Validators, start : Periods, end : Periods \cup {Never}]]
  /\ weights \in [Validators -> [Periods -> Nat]]
  /\ reductions \in [Validators -> [Periods -> Nat]]
  /\ rewards \in [Validators -> [Periods -> Nat]]
  /\ populatedWeights \in [Validators -> Nat]
  /\ \A v \in Validators : populatedWeights[v] <= completed[v]
  /\ claims \in [Delegators -> 0 .. MaxPeriod]
  /\ paid \in [Delegators -> [Periods -> Nat]] /\ inStep \in BOOLEAN

\* A reference that needs no cursor: who is delegated in a period, and with
\* what weight altogether.
Within(d, v, p) ==
  /\ d \in Delegates
  /\ delegation[d].validator = v
  /\ delegation[d].start <= p /\ p <= delegation[d].end

WeightWithin(v, p) ==
  SumFunction([d \in Delegators |-> IF Within(d, v, p) THEN weight(d) ELSE 0])

PaidAt(v, p) ==
  SumFunction([d \in Delegators |->
    IF d \in Delegates /\ delegation[d].validator = v THEN paid[d][p] ELSE 0])

\* Whatever the order of the claims, the claims for a period never come to more
\* than the staker gave the contract for it, so the transfer of
\* claimRewards is always covered.
Solvent ==
  \A v \in Validators, p \in Periods : PaidAt(v, p) <= DelegatorsRewards[v][p]

\* Nobody's claim reverts over the weights: the checked subtraction of
\* _updateWeights, which runs through everybody's additions and reductions,
\* never goes below zero, and every period to be claimed has at least the
\* claimer's weight to share by.
NeverBlocked ==
  \A d \in Delegates :
    HasClaim(d) =>
      LET v == delegation[d].validator
          w == updatedWeights(v, maxClaimable(d))
      IN /\ NoUnderflow(v, maxClaimable(d), w)
         /\ \A p \in firstClaimable(d) .. maxClaimable(d) : w[p] >= weight(d)

\* Who has claimed has for every period the share that its weight is of the
\* weight of all those delegated in it, however many claims it took, as long as
\* no claim has set a validator's cursor back.
SharesPaid ==
  \A d \in Delegates :
    LET v == delegation[d].validator
    IN \A p \in delegation[d].start .. claims[d] :
         WeightWithin(v, p) > 0 =>
           paid[d][p] = (DelegatorsRewards[v][p] * weight(d)) \div WeightWithin(v, p)

PaidInFull == inStep => SharesPaid

\* "only called once per validator per staking period" (stargate.sol:152): the
\* weight of a period whose rewards are populated is not accumulated again.
WeightsStay ==
  \A v \in Validators, p \in Periods : rewards[v][p] # 0 => weights'[v][p] = weights[v][p]

PopulatedOnce == [][WeightsStay]_vars

\* The same up to the first claim that sets a cursor back, and including it.
OnceInStep == [][inStep => WeightsStay]_vars
=============================================================================
