--------------------------- MODULE PositionManager ---------------------------
(***************************************************************************)
(* xnodes.PositionManager: the book of delegation positions the simulator  *)
(* hands out.  Every method runs under pm.mu, so each is one action.       *)
(*                                                                         *)
(* A missing key of a Go map[string]int reads as 0 and the code stores no  *)
(* allocation of 0, so the inner maps are total functions here.            *)
(* Allocations are computed in exact arithmetic: float64 rounding can only *)
(* tip a tie between an address and the remainder it is compared with.     *)
(***************************************************************************)
EXTENDS Integers, FiniteSets, Functions

CONSTANTS Validators, PositionNames, DelegationIDs,
          MainnetUsed,           \* [PositionNames -> Nat]
          maxLeaderGroupLength,
          distributionType,      \* "even", "skewed" or an unknown type
          lastByte,              \* [Validators -> 0..255], address byte 19
          score,                 \* [Validators -> 0..ScoreScale]: the leading
          ScoreScale,            \*   address bytes on a scale of ScoreScale
          MayReturn              \* may a validator come back while delegations
                                 \*   from before it left are still held?

ASSUME PositionsAssumption ==
  /\ MainnetUsed \in [PositionNames -> Nat]
  /\ maxLeaderGroupLength \in Nat \ {0}
  /\ ScoreScale \in Nat \ {0}
  /\ lastByte \in [Validators -> 0..255]
  /\ score \in [Validators -> 0..ScoreScale]
  /\ MayReturn \in BOOLEAN
  /\ IsFiniteSet(DelegationIDs)

VARIABLES delegations,         \* id -> [Position, Validator]
          validatorAvailable,  \* validator -> [PositionNames -> Int]
          validatorOriginal,   \* validator -> [PositionNames -> Nat]
          totalActive          \* [PositionNames -> Int]

vars == <<delegations, validatorAvailable, validatorOriginal, totalActive>>

-----------------------------------------------------------------------------
(* Allocation of positions to a validator. *)

\* Fault: a position of the remainder is taken away and not added.
calculateEvenMaxShort(p, v) ==
  LET base      == MainnetUsed[p] \div maxLeaderGroupLength
      remainder == MainnetUsed[p] % maxLeaderGroupLength
  IN  IF lastByte[v] * maxLeaderGroupLength < remainder * 255
        THEN base - 1 ELSE base

calculateEvenMax(p, v) ==
  LET base      == MainnetUsed[p] \div maxLeaderGroupLength
      remainder == MainnetUsed[p] % maxLeaderGroupLength
  IN  IF lastByte[v] * maxLeaderGroupLength < remainder * 255
        THEN base + 1 ELSE base

\* base * (1 + 2 * skew), rounded down, where skew = (1 - score) cubed.
calculateSkewedMax(p, v) ==
  LET cube(x) == x * x * x
  IN  (MainnetUsed[p] * (cube(ScoreScale) + 2 * cube(ScoreScale - score[v])))
        \div (maxLeaderGroupLength * cube(ScoreScale))

makeValidatorsAvailablePositions(v) ==
  [p \in PositionNames |->
     CASE distributionType = "even"   -> calculateEvenMax(p, v)
       [] distributionType = "skewed" -> calculateSkewedMax(p, v)
       [] OTHER                       -> 0]

-----------------------------------------------------------------------------
(* Map updates. *)

Put(map, key, value) ==
  [k \in DOMAIN map \cup {key} |-> IF k = key THEN value ELSE map[k]]

Delete(map, key) == [k \in DOMAIN map \ {key} |-> map[k]]

Empty == [k \in {} |-> {}]

-----------------------------------------------------------------------------
(* The operations.  With no position configured every one of them returns  *)
(* at once, which the set PositionNames = {} gives.                        *)

Init == /\ delegations = Empty
        /\ validatorAvailable = Empty
        /\ validatorOriginal = Empty
        /\ totalActive = [p \in PositionNames |-> 0]

RegisterValidator(v) ==
  /\ PositionNames # {}
  /\ v \notin DOMAIN validatorAvailable
  /\ LET allocation == makeValidatorsAvailablePositions(v)
     IN  /\ validatorAvailable' = Put(validatorAvailable, v, allocation)
         /\ validatorOriginal' = Put(validatorOriginal, v, allocation)
  /\ UNCHANGED <<delegations, totalActive>>

\* The validator of the delegation is not registered: only forget it.
UnregisterDelegatorOfGone(id) ==
  /\ id \in DOMAIN delegations
  /\ delegations[id].Validator \notin DOMAIN validatorAvailable
  /\ delegations' = Delete(delegations, id)
  /\ UNCHANGED <<validatorAvailable, validatorOriginal, totalActive>>

\* Fault: the slot is not given back to the validator.
UnregisterDelegatorLosingSlot(id) ==
  /\ id \in DOMAIN delegations
  /\ delegations[id].Validator \in DOMAIN validatorAvailable
  /\ totalActive' = [totalActive EXCEPT ![delegations[id].Position] = @ - 1]
  /\ delegations' = Delete(delegations, id)
  /\ UNCHANGED <<validatorAvailable, validatorOriginal>>

\* Fault: the position is not given back to the cap.
UnregisterDelegatorStillActive(id) ==
  /\ id \in DOMAIN delegations
  /\ LET v == delegations[id].Validator
         p == delegations[id].Position
     IN  /\ v \in DOMAIN validatorAvailable
         /\ validatorAvailable' = [validatorAvailable EXCEPT ![v][p] = @ + 1]
  /\ delegations' = Delete(delegations, id)
  /\ UNCHANGED <<validatorOriginal, totalActive>>

\* The validator is registered: its slot and the cap get the position back.
UnregisterDelegatorOfRegistered(id) ==
  /\ id \in DOMAIN delegations
  /\ LET v == delegations[id].Validator
         p == delegations[id].Position
     IN  /\ v \in DOMAIN validatorAvailable
         /\ validatorAvailable' = [validatorAvailable EXCEPT ![v][p] = @ + 1]
         /\ totalActive' = [totalActive EXCEPT ![p] = @ - 1]
  /\ delegations' = Delete(delegations, id)
  /\ UNCHANGED validatorOriginal

UnregisterDelegator(id) == \/ UnregisterDelegatorOfGone(id)
                           \/ UnregisterDelegatorOfRegistered(id)

\* How many positions p of validator v the code takes for used.
used(v, p) == validatorOriginal[v][p] - validatorAvailable[v][p]

\* Fault: the positions of the validator stay counted as active.
UnregisterValidatorStillActive(v) ==
  /\ v \in DOMAIN validatorAvailable
  /\ validatorAvailable' = Delete(validatorAvailable, v)
  /\ validatorOriginal' = Delete(validatorOriginal, v)
  /\ UNCHANGED <<totalActive, delegations>>

UnregisterValidator(v) ==
  /\ PositionNames # {}
  /\ v \in DOMAIN validatorAvailable
  /\ validatorAvailable' = Delete(validatorAvailable, v)
  /\ IF v \in DOMAIN validatorOriginal
       THEN /\ totalActive' =
                 [p \in PositionNames |-> totalActive[p] - used(v, p)]
            /\ validatorOriginal' = Delete(validatorOriginal, v)
       ELSE UNCHANGED <<totalActive, validatorOriginal>>
  /\ UNCHANGED delegations

\* Fault: the cap of the position is not looked at.
NewPositionUncapped(id, v, p) ==
  /\ id \notin DOMAIN delegations
  /\ v \in DOMAIN validatorAvailable
  /\ validatorAvailable[v][p] > 0
  /\ validatorAvailable' = [validatorAvailable EXCEPT ![v][p] = @ - 1]
  /\ totalActive' = [totalActive EXCEPT ![p] = @ + 1]
  /\ delegations' = Put(delegations, id, [Position |-> p, Validator |-> v])
  /\ UNCHANGED validatorOriginal

\* Fault: a validator with no slot left still gets a delegation.
NewPositionOverdrawn(id, v, p) ==
  /\ id \notin DOMAIN delegations
  /\ v \in DOMAIN validatorAvailable
  /\ totalActive[p] < MainnetUsed[p]
  /\ validatorAvailable[v][p] >= 0
  /\ validatorAvailable' = [validatorAvailable EXCEPT ![v][p] = @ - 1]
  /\ totalActive' = [totalActive EXCEPT ![p] = @ + 1]
  /\ delegations' = Put(delegations, id, [Position |-> p, Validator |-> v])
  /\ UNCHANGED validatorOriginal

\* The two shuffles make the choice of v and p random; RandomHash is fresh.
NewPosition(id, v, p) ==
  /\ id \notin DOMAIN delegations
  /\ v \in DOMAIN validatorAvailable
  /\ totalActive[p] < MainnetUsed[p]
  /\ validatorAvailable[v][p] > 0
  /\ validatorAvailable' = [validatorAvailable EXCEPT ![v][p] = @ - 1]
  /\ totalActive' = [totalActive EXCEPT ![p] = @ + 1]
  /\ delegations' = Put(delegations, id, [Position |-> p, Validator |-> v])
  /\ UNCHANGED validatorOriginal

-----------------------------------------------------------------------------
(* The callers.  ValidatorLifecycle.handleDelegationRegistration registers *)
(* Active validators and unregisters exited or offline ones; an Active     *)
(* validator that missed a block is unregistered and registered again by   *)
(* the same call, delegations still held.  MayReturn = FALSE is a network  *)
(* where no validator goes offline while it holds delegations.             *)

HeldBy(v) == {id \in DOMAIN delegations : delegations[id].Validator = v}

handleRegistration(v) ==
  \/ /\ MayReturn \/ HeldBy(v) = {}
     /\ RegisterValidator(v)
  \/ UnregisterValidator(v)

Next == \/ \E v \in Validators : handleRegistration(v)
        \/ \E id \in DelegationIDs, v \in Validators, p \in PositionNames :
             NewPosition(id, v, p)
        \/ \E id \in DelegationIDs : UnregisterDelegator(id)

Spec == Init /\ [][Next]_vars

-----------------------------------------------------------------------------
(* Properties. *)

HeldAt(v, p) == {id \in HeldBy(v) : delegations[id].Position = p}

\* The delegations of position p on registered validators.
Counted(p) ==
  {id \in DOMAIN delegations :
     /\ delegations[id].Validator \in DOMAIN validatorAvailable
     /\ delegations[id].Position = p}

\* The maps hold what the code puts there.
TypeOK ==
  /\ DOMAIN validatorAvailable \subseteq Validators
  /\ validatorAvailable \in [DOMAIN validatorAvailable -> [PositionNames -> Int]]
  /\ DOMAIN validatorOriginal \subseteq Validators
  /\ validatorOriginal \in [DOMAIN validatorOriginal -> [PositionNames -> Nat]]
  /\ DOMAIN delegations \subseteq DelegationIDs
  /\ delegations \in [DOMAIN delegations ->
                        [Position : PositionNames, Validator : Validators]]
  /\ totalActive \in [PositionNames -> Int]

\* UnregisterValidator takes "original - available" for the number of positions
\* actually used (position_manager.go:170).  It is that number only while every
\* held delegation of the validator was placed since its registration.
UsedIsHeld ==
  \A v \in DOMAIN validatorAvailable, p \in PositionNames :
    used(v, p) = Cardinality(HeldAt(v, p))

\* totalActive, which NewPosition, Available and Summary read, is the number of
\* held delegations on registered validators, whatever the order in which
\* validators and delegators came and went.
TotalIsCounted ==
  \A p \in PositionNames : totalActive[p] = Cardinality(Counted(p))

\* The delegations on registered validators never exceed the position's cap,
\* so Available never goes negative (its square root is taken by the engine).
CapRespected ==
  \A p \in PositionNames : Cardinality(Counted(p)) <= MainnetUsed[p]

\* Even when validators come back with delegations outstanding, a validator is
\* never overdrawn, and no slot is lost: what is neither available nor held by
\* a delegation was never allocated.
NoSlotLost ==
  \A v \in DOMAIN validatorAvailable, p \in PositionNames :
    /\ validatorAvailable[v][p] >= 0
    /\ validatorAvailable[v][p] + Cardinality(HeldAt(v, p)) >= validatorOriginal[v][p]

\* The active total of a position is, at every moment and even when validators
\* come back, what the registered validators have handed out: unregistering
\* one takes back exactly its part, so an empty registry leaves a total of 0.
TotalIsSumOfUsed ==
  \A p \in PositionNames :
    totalActive[p] = SumFunction([v \in DOMAIN validatorAvailable |-> used(v, p)])

\* The counters implement the ledger that has none.
Ledger == INSTANCE PositionLedger
            WITH held  <- delegations,
                 open  <- DOMAIN validatorAvailable,
                 Share <- [v \in Validators |-> makeValidatorsAvailablePositions(v)]

\* Every step of the manager is a step the ledger allows: the counters never
\* permit a position that the set of held delegations would refuse.
ImplementsLedger == Ledger!Spec
=============================================================================
