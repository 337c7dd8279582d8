--------------------------- MODULE LifecycleConfig ---------------------------
(* lifecycle.Config: when a lifecycle may exit and withdraw, in uint32. *)
EXTENDS Integers

CONSTANT MaxUint32   \* math.MaxUint32

ASSUME MaxUint32Assumption == MaxUint32 \in Nat \ {0}

uint32(n) == n % (MaxUint32 + 1)

\* MaxUint32 stands for never, which is also what too many periods come to.
MinExitBlock(stakingPeriods, activatedBlock, stakingPeriodLength) ==
  IF \/ stakingPeriods = MaxUint32
     \/ MaxUint32 \div stakingPeriodLength <= stakingPeriods
    THEN MaxUint32
    ELSE uint32(activatedBlock + stakingPeriods * stakingPeriodLength)

\* The delay's epochs are counted in its blocks.
MinWithdrawBlock(exitBlock, withdrawDelay) == uint32(exitBlock + withdrawDelay)
=============================================================================
