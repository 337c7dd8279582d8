------------------------ MODULE PositionManagerProofs ------------------------
(***************************************************************************)
(* What is proved of the position manager for every set of validators,     *)
(* positions and delegations, every cap and every address.                 *)
(***************************************************************************)
EXTENDS PositionManager, SumProofs, TLAPS

-----------------------------------------------------------------------------
(* Allocations. *)

LEMMA DivNat ==
  ASSUME NEW a \in Nat, NEW b \in Nat \ {0}
  PROVE  a \div b \in Nat
  OBVIOUS

LEMMA TimesNat == \A a, b \in Nat : a * b \in Nat
  OBVIOUS

LEMMA TimesPositive == \A a, b \in Nat \ {0} : a * b \in Nat \ {0}
  OBVIOUS

\* An even share is the whole part of the exact share, or one more.
LEMMA EvenType ==
  ASSUME NEW p \in PositionNames, NEW v \in Validators
  PROVE  calculateEvenMax(p, v) \in Nat
  <1>1. MainnetUsed[p] \in Nat /\ maxLeaderGroupLength \in Nat \ {0}
    BY PositionsAssumption
  <1>2. MainnetUsed[p] \div maxLeaderGroupLength \in Nat
    BY <1>1, DivNat
  <1>. QED
    BY <1>2 DEF calculateEvenMax

\* A skewed share is a natural number.
LEMMA SkewedType ==
  ASSUME NEW p \in PositionNames, NEW v \in Validators
  PROVE  calculateSkewedMax(p, v) \in Nat
  <1>. DEFINE K    == ScoreScale
              gap  == ScoreScale - score[v]
              base == K * K * K
              top  == gap * gap * gap
  <1>1. MainnetUsed[p] \in Nat /\ maxLeaderGroupLength \in Nat \ {0}
    BY PositionsAssumption
  <1>2. K \in Nat \ {0} /\ gap \in Nat
    BY PositionsAssumption
  <1>3. base \in Nat \ {0}
    <2>1. K * K \in Nat \ {0}
      BY <1>2, TimesPositive
    <2>. HIDE DEF K
    <2>. QED
      BY <1>2, <2>1, TimesPositive
  <1>4. top \in Nat
    <2>1. gap * gap \in Nat
      BY <1>2, TimesNat
    <2>. HIDE DEF gap
    <2>. QED
      BY <1>2, <2>1, TimesNat
  <1>5. MainnetUsed[p] * (base + 2 * top) \in Nat
    <2>. HIDE DEF base, top
    <2>1. base + 2 * top \in Nat
      BY <1>3, <1>4
    <2>. QED
      BY <1>1, <2>1, TimesNat
  <1>6. maxLeaderGroupLength * base \in Nat \ {0}
    <2>. HIDE DEF base
    <2>. QED
      BY <1>1, <1>3, TimesPositive
  <1>7. calculateSkewedMax(p, v)
          = (MainnetUsed[p] * (base + 2 * top)) \div (maxLeaderGroupLength * base)
    BY DEF calculateSkewedMax
  <1>. QED
    <2>. HIDE DEF base, top
    <2>. QED
      BY <1>5, <1>6, <1>7, DivNat

LEMMA AllocationType ==
  ASSUME NEW v \in Validators
  PROVE  makeValidatorsAvailablePositions(v) \in [PositionNames -> Nat]
  BY EvenType, SkewedType DEF makeValidatorsAvailablePositions

-----------------------------------------------------------------------------
(* Type correctness. *)

LEMMA InitType == Init => TypeOK
  BY DEF Init, TypeOK, Empty

LEMMA RegisterType ==
  ASSUME TypeOK, NEW v \in Validators, RegisterValidator(v)
  PROVE  TypeOK'
  BY AllocationType DEF TypeOK, RegisterValidator, Put

LEMMA UnregisterType ==
  ASSUME TypeOK, NEW v \in Validators, UnregisterValidator(v)
  PROVE  TypeOK'
  BY DEF TypeOK, UnregisterValidator, Delete, used

LEMMA NewPositionType ==
  ASSUME TypeOK, NEW id \in DelegationIDs, NEW v \in Validators,
         NEW p \in PositionNames, NewPosition(id, v, p)
  PROVE  TypeOK'
  BY DEF TypeOK, NewPosition, Put

LEMMA ReleaseType ==
  ASSUME TypeOK, NEW id \in DelegationIDs, UnregisterDelegator(id)
  PROVE  TypeOK'
  BY DEF TypeOK, UnregisterDelegator, UnregisterDelegatorOfGone,
         UnregisterDelegatorOfRegistered, Delete

\* The maps always hold what the code puts there.
THEOREM TypeCorrect == Spec => []TypeOK
  <1>1. TypeOK /\ [Next]_vars => TypeOK'
    <2>. SUFFICES ASSUME TypeOK, [Next]_vars PROVE TypeOK'
      OBVIOUS
    <2>1. CASE \E v \in Validators : handleRegistration(v)
      BY <2>1, RegisterType, UnregisterType DEF handleRegistration
    <2>2. CASE \E id \in DelegationIDs, v \in Validators, p \in PositionNames :
                 NewPosition(id, v, p)
      BY <2>2, NewPositionType
    <2>3. CASE \E id \in DelegationIDs : UnregisterDelegator(id)
      BY <2>3, ReleaseType
    <2>4. CASE UNCHANGED vars
      BY <2>4 DEF vars, TypeOK
    <2>. QED
      BY <2>1, <2>2, <2>3, <2>4 DEF Next
  <1>. QED
    BY InitType, <1>1, PTL DEF Spec

-----------------------------------------------------------------------------
(* How each operation changes the sets of held delegations. *)

LEMMA HeldFinite ==
  ASSUME TypeOK
  PROVE  /\ \A v, p : IsFiniteSet(HeldAt(v, p))
         /\ \A p : IsFiniteSet(Counted(p))
  <1>1. ASSUME NEW S, S \subseteq DOMAIN delegations
        PROVE  IsFiniteSet(S)
    BY <1>1, FS_Subset, PositionsAssumption DEF TypeOK
  <1>2. ASSUME NEW v, NEW p PROVE HeldAt(v, p) \subseteq DOMAIN delegations
    BY DEF HeldAt, HeldBy
  <1>3. ASSUME NEW p PROVE Counted(p) \subseteq DOMAIN delegations
    BY DEF Counted
  <1>. QED
    BY <1>1, <1>2, <1>3

LEMMA HeldAfterNew ==
  ASSUME TypeOK, NEW id \in DelegationIDs, NEW v \in Validators,
         NEW p \in PositionNames, NewPosition(id, v, p)
  PROVE  /\ DOMAIN validatorAvailable' = DOMAIN validatorAvailable
         /\ id \notin DOMAIN delegations
         /\ \A w, q : HeldAt(w, q)' = IF w = v /\ q = p THEN HeldAt(w, q) \cup {id}
                                                       ELSE HeldAt(w, q)
         /\ \A q : Counted(q)' = IF q = p THEN Counted(q) \cup {id} ELSE Counted(q)
  <1>1. /\ DOMAIN delegations' = DOMAIN delegations \cup {id}
        /\ id \notin DOMAIN delegations
        /\ delegations'[id] = [Position |-> p, Validator |-> v]
        /\ \A i \in DOMAIN delegations : delegations'[i] = delegations[i]
        /\ DOMAIN validatorAvailable' = DOMAIN validatorAvailable
        /\ v \in DOMAIN validatorAvailable
    BY DEF TypeOK, NewPosition, Put
  <1>. QED
    BY <1>1 DEF HeldAt, HeldBy, Counted

LEMMA HeldAfterRelease ==
  ASSUME TypeOK, NEW id \in DelegationIDs, UnregisterDelegator(id)
  PROVE  /\ DOMAIN validatorAvailable' = DOMAIN validatorAvailable
         /\ \A w, q : HeldAt(w, q)' = HeldAt(w, q) \ {id}
         /\ \A q : Counted(q)' = Counted(q) \ {id}
  <1>1. /\ DOMAIN delegations' = DOMAIN delegations \ {id}
        /\ \A i \in DOMAIN delegations' : delegations'[i] = delegations[i]
    BY DEF UnregisterDelegator, UnregisterDelegatorOfGone,
           UnregisterDelegatorOfRegistered, Delete
  <1>2. DOMAIN validatorAvailable' = DOMAIN validatorAvailable
    BY DEF TypeOK, UnregisterDelegator, UnregisterDelegatorOfGone,
           UnregisterDelegatorOfRegistered
  <1>. QED
    BY <1>1, <1>2 DEF HeldAt, HeldBy, Counted

-----------------------------------------------------------------------------
(* No slot is lost, however validators come and go. *)

\* Each registered validator has an original allocation, its counters never go
\* below zero, and what is missing from them is held by some delegation.
SlotInv == /\ TypeOK
           /\ DOMAIN validatorOriginal = DOMAIN validatorAvailable
           /\ NoSlotLost

LEMMA SlotRegister ==
  ASSUME SlotInv, NEW v \in Validators, RegisterValidator(v)
  PROVE  SlotInv'
  <1>1. TypeOK'
    BY RegisterType DEF SlotInv
  <1>2. (DOMAIN validatorOriginal = DOMAIN validatorAvailable)'
    BY DEF SlotInv, RegisterValidator, Put
  <1>3. NoSlotLost'
    <2>. SUFFICES ASSUME NEW w \in DOMAIN validatorAvailable', NEW p \in PositionNames
                  PROVE  /\ validatorAvailable'[w][p] >= 0
                         /\ validatorAvailable'[w][p] + Cardinality(HeldAt(w, p)')
                              >= validatorOriginal'[w][p]
      BY DEF NoSlotLost
    <2>1. HeldAt(w, p)' = HeldAt(w, p)
      BY DEF RegisterValidator, HeldAt, HeldBy
    <2>2. Cardinality(HeldAt(w, p)) \in Nat
      BY HeldFinite, FS_CardinalityType DEF SlotInv
    <2>3. CASE w = v
      <3>1. /\ validatorAvailable'[w] = makeValidatorsAvailablePositions(v)
            /\ validatorOriginal'[w] = makeValidatorsAvailablePositions(v)
        BY <2>3 DEF RegisterValidator, Put
      <3>. QED
        BY <2>1, <2>2, <3>1, AllocationType
    <2>4. CASE w # v
      <3>1. /\ w \in DOMAIN validatorAvailable
            /\ validatorAvailable'[w] = validatorAvailable[w]
            /\ validatorOriginal'[w] = validatorOriginal[w]
        BY <2>4 DEF RegisterValidator, Put, SlotInv
      <3>. QED
        BY <2>1, <3>1 DEF SlotInv, NoSlotLost
    <2>. QED
      BY <2>3, <2>4
  <1>. QED
    BY <1>1, <1>2, <1>3 DEF SlotInv

LEMMA SlotUnregister ==
  ASSUME SlotInv, NEW v \in Validators, UnregisterValidator(v)
  PROVE  SlotInv'
  <1>1. TypeOK'
    BY UnregisterType DEF SlotInv
  <1>2. (DOMAIN validatorOriginal = DOMAIN validatorAvailable)'
    BY DEF SlotInv, UnregisterValidator, Delete
  <1>3. \A w, p : HeldAt(w, p)' = HeldAt(w, p)
    BY DEF UnregisterValidator, HeldAt, HeldBy
  <1>4. \A w \in DOMAIN validatorAvailable' :
          /\ w \in DOMAIN validatorAvailable
          /\ validatorAvailable'[w] = validatorAvailable[w]
          /\ validatorOriginal'[w] = validatorOriginal[w]
    BY DEF UnregisterValidator, Delete, SlotInv
  <1>. QED
    BY <1>1, <1>2, <1>3, <1>4 DEF SlotInv, NoSlotLost

LEMMA SlotNew ==
  ASSUME SlotInv, NEW id \in DelegationIDs, NEW v \in Validators,
         NEW p \in PositionNames, NewPosition(id, v, p)
  PROVE  SlotInv'
  <1>1. TypeOK /\ TypeOK'
    BY NewPositionType DEF SlotInv
  <1>2. (DOMAIN validatorOriginal = DOMAIN validatorAvailable)'
    BY <1>1 DEF SlotInv, NewPosition, TypeOK
  <1>3. NoSlotLost'
    <2>. SUFFICES ASSUME NEW w \in DOMAIN validatorAvailable', NEW q \in PositionNames
                  PROVE  /\ validatorAvailable'[w][q] >= 0
                         /\ validatorAvailable'[w][q] + Cardinality(HeldAt(w, q)')
                              >= validatorOriginal'[w][q]
      BY DEF NoSlotLost
    <2>1. w \in DOMAIN validatorAvailable /\ w \in DOMAIN validatorOriginal
      BY <1>1, HeldAfterNew DEF SlotInv
    <2>2. /\ validatorAvailable[w][q] \in Int
          /\ validatorOriginal'[w][q] = validatorOriginal[w][q]
          /\ validatorOriginal[w][q] \in Nat
      BY <1>1, <2>1 DEF NewPosition, TypeOK
    <2>5. /\ validatorAvailable[w][q] >= 0
          /\ validatorAvailable[w][q] + Cardinality(HeldAt(w, q))
               >= validatorOriginal[w][q]
      BY <2>1 DEF SlotInv, NoSlotLost
    <2>6. Cardinality(HeldAt(w, q)) \in Nat
      BY <1>1, HeldFinite, FS_CardinalityType
    <2>3. CASE w = v /\ q = p
      <3>1. /\ validatorAvailable[w][q] > 0
            /\ validatorAvailable'[w][q] = validatorAvailable[w][q] - 1
        BY <1>1, <2>1, <2>3 DEF NewPosition, TypeOK
      <3>2. HeldAt(w, q)' = HeldAt(w, q) \cup {id} /\ id \notin HeldAt(w, q)
        BY <1>1, <2>3, HeldAfterNew DEF HeldAt, HeldBy
      <3>3. Cardinality(HeldAt(w, q)') = Cardinality(HeldAt(w, q)) + 1
        BY <1>1, <3>2, HeldFinite, FS_AddElement
      <3>. QED
        BY <2>2, <2>5, <2>6, <3>1, <3>3
    <2>4. CASE ~(w = v /\ q = p)
      <3>1. validatorAvailable'[w][q] = validatorAvailable[w][q]
        BY <1>1, <2>1, <2>4 DEF NewPosition, TypeOK
      <3>2. HeldAt(w, q)' = HeldAt(w, q)
        BY <1>1, <2>4, HeldAfterNew
      <3>. QED
        BY <2>2, <2>5, <2>6, <3>1, <3>2
    <2>. QED
      BY <2>3, <2>4
  <1>. QED
    BY <1>1, <1>2, <1>3 DEF SlotInv

LEMMA SlotRelease ==
  ASSUME SlotInv, NEW id \in DelegationIDs, UnregisterDelegator(id)
  PROVE  SlotInv'
  <1>1. TypeOK /\ TypeOK'
    BY ReleaseType DEF SlotInv
  <1>2. validatorOriginal' = validatorOriginal
    BY DEF UnregisterDelegator, UnregisterDelegatorOfGone,
           UnregisterDelegatorOfRegistered
  <1>3. DOMAIN validatorAvailable' = DOMAIN validatorAvailable
    BY <1>1, HeldAfterRelease
  <1>4. NoSlotLost'
    <2>. SUFFICES ASSUME NEW w \in DOMAIN validatorAvailable', NEW q \in PositionNames
                  PROVE  /\ validatorAvailable'[w][q] >= 0
                         /\ validatorAvailable'[w][q] + Cardinality(HeldAt(w, q)')
                              >= validatorOriginal'[w][q]
      BY DEF NoSlotLost
    <2>1. /\ validatorAvailable[w][q] \in Int
          /\ validatorAvailable'[w][q] \in Int
          /\ validatorOriginal[w][q] \in Nat
      BY <1>1, <1>3 DEF TypeOK, SlotInv
    <2>2. /\ validatorAvailable[w][q] >= 0
          /\ validatorAvailable[w][q] + Cardinality(HeldAt(w, q))
               >= validatorOriginal[w][q]
      BY <1>3 DEF SlotInv, NoSlotLost
    <2>3. /\ HeldAt(w, q)' = HeldAt(w, q) \ {id}
          /\ Cardinality(HeldAt(w, q)) \in Nat
          /\ Cardinality(HeldAt(w, q) \ {id})
               = IF id \in HeldAt(w, q) THEN Cardinality(HeldAt(w, q)) - 1
                                        ELSE Cardinality(HeldAt(w, q))
      BY <1>1, HeldAfterRelease, HeldFinite, FS_RemoveElement, FS_CardinalityType
    <2>4. CASE id \in HeldAt(w, q)
      <3>1. /\ delegations[id].Validator = w
            /\ delegations[id].Position = q
            /\ w \in DOMAIN validatorAvailable
        BY <1>3, <2>4 DEF HeldAt, HeldBy
      <3>2. UnregisterDelegatorOfRegistered(id)
        BY <3>1 DEF UnregisterDelegator, UnregisterDelegatorOfGone
      <3>3. validatorAvailable'[w][q] = validatorAvailable[w][q] + 1
        BY <1>1, <3>1, <3>2 DEF UnregisterDelegatorOfRegistered, TypeOK
      <3>. QED
        BY <1>2, <2>1, <2>2, <2>3, <2>4, <3>3
    <2>5. CASE id \notin HeldAt(w, q)
      <3>1. ~(/\ delegations[id].Validator = w
              /\ delegations[id].Position = q)
        BY <2>5 DEF HeldAt, HeldBy, UnregisterDelegator,
                    UnregisterDelegatorOfGone, UnregisterDelegatorOfRegistered
      <3>2. validatorAvailable'[w][q] = validatorAvailable[w][q]
        BY <1>1, <1>3, <3>1 DEF UnregisterDelegator, UnregisterDelegatorOfGone,
           UnregisterDelegatorOfRegistered, TypeOK
      <3>. QED
        BY <1>2, <2>1, <2>2, <2>3, <2>5, <3>2
    <2>. QED
      BY <2>4, <2>5
  <1>. QED
    BY <1>1, <1>2, <1>3, <1>4 DEF SlotInv

\* No slot is lost and no validator overdrawn, for every network, and also when
\* validators come back with delegations outstanding.
THEOREM SlotsSafe == Spec => []NoSlotLost
  <1>1. Init => SlotInv
    BY InitType DEF SlotInv, Init, NoSlotLost, Empty
  <1>2. SlotInv /\ [Next]_vars => SlotInv'
    <2>. SUFFICES ASSUME SlotInv, [Next]_vars PROVE SlotInv'
      OBVIOUS
    <2>1. CASE \E v \in Validators : handleRegistration(v)
      BY <2>1, SlotRegister, SlotUnregister DEF handleRegistration
    <2>2. CASE \E id \in DelegationIDs, v \in Validators, p \in PositionNames :
                 NewPosition(id, v, p)
      BY <2>2, SlotNew
    <2>3. CASE \E id \in DelegationIDs : UnregisterDelegator(id)
      BY <2>3, SlotRelease
    <2>4. CASE UNCHANGED vars
      <3>1. TypeOK'
        BY <2>4 DEF vars, SlotInv, TypeOK
      <3>2. \A w, q : HeldAt(w, q)' = HeldAt(w, q)
        BY <2>4 DEF vars, HeldAt, HeldBy
      <3>. QED
        BY <2>4, <3>1, <3>2 DEF vars, SlotInv, NoSlotLost
    <2>. QED
      BY <2>1, <2>2, <2>3, <2>4 DEF Next
  <1>3. SlotInv => NoSlotLost
    BY DEF SlotInv
  <1>. QED
    BY <1>1, <1>2, <1>3, PTL DEF Spec

-----------------------------------------------------------------------------
(* The total of a position is the sum of what registered validators use. *)

Sum(p) == SumFunctionOnSet([v \in DOMAIN validatorAvailable |-> used(v, p)],
                           DOMAIN validatorAvailable)

SumInv == /\ TypeOK
          /\ DOMAIN validatorOriginal = DOMAIN validatorAvailable
          /\ IsFiniteSet(DOMAIN validatorAvailable)
          /\ \A p \in PositionNames : totalActive[p] = Sum(p)

LEMMA SumIsOfUsed == SumInv => TotalIsSumOfUsed
  BY DEF SumInv, Sum, TotalIsSumOfUsed, SumFunction

LEMMA UsedType ==
  ASSUME TypeOK, DOMAIN validatorOriginal = DOMAIN validatorAvailable,
         NEW v \in DOMAIN validatorAvailable, NEW p \in PositionNames
  PROVE  used(v, p) \in Int
  BY DEF TypeOK, used

LEMMA SumRegister ==
  ASSUME SumInv, NEW v \in Validators, RegisterValidator(v)
  PROVE  SumInv'
  <1>. DEFINE D == DOMAIN validatorAvailable
  <1>1. TypeOK /\ TypeOK'
    BY RegisterType DEF SumInv
  <1>2. /\ D' = D \cup {v} /\ v \notin D /\ DOMAIN validatorOriginal' = D'
        /\ IsFiniteSet(D) /\ IsFiniteSet(D')
    BY FS_AddElement DEF RegisterValidator, Put, SumInv
  <1>3. ASSUME NEW p \in PositionNames
        PROVE  totalActive'[p] = Sum(p)'
    <2>. DEFINE f == [w \in D |-> used(w, p)]
                g == [w \in D' |-> used(w, p)']
    <2>1. \A w \in D : g[w] = f[w] /\ f[w] \in Int
      BY <1>1, <1>2, UsedType DEF RegisterValidator, Put, used, SumInv
    <2>2. g[v] = 0
      <3>1. makeValidatorsAvailablePositions(v)[p] \in Nat
        BY AllocationType
      <3>. QED
        BY <1>2, <3>1 DEF RegisterValidator, Put, used
    <2>3. SumFunctionOnSet(g, D \cup {v}) = g[v] + SumFunctionOnSet(g, D)
      BY <1>2, <2>1, <2>2, SumAdd
    <2>4. SumFunctionOnSet(g, D) = SumFunctionOnSet(f, D)
      BY <1>2, <2>1, SumSame
    <2>5. SumFunctionOnSet(f, D) \in Int
      BY <1>2, <2>1, SumInt
    <2>6. Sum(p)' = Sum(p)
      BY <1>2, <2>2, <2>3, <2>4, <2>5 DEF Sum
    <2>. QED
      BY <2>6 DEF RegisterValidator, SumInv
  <1>. QED
    BY <1>1, <1>2, <1>3 DEF SumInv

LEMMA SumUnregister ==
  ASSUME SumInv, NEW v \in Validators, UnregisterValidator(v)
  PROVE  SumInv'
  <1>. DEFINE D == DOMAIN validatorAvailable
  <1>1. TypeOK /\ TypeOK'
    BY UnregisterType DEF SumInv
  <1>2. /\ D' = D \ {v} /\ v \in D /\ DOMAIN validatorOriginal' = D'
        /\ IsFiniteSet(D) /\ IsFiniteSet(D')
    BY FS_RemoveElement DEF UnregisterValidator, Delete, SumInv
  <1>3. ASSUME NEW p \in PositionNames
        PROVE  totalActive'[p] = Sum(p)'
    <2>. DEFINE f == [w \in D |-> used(w, p)]
                g == [w \in D' |-> used(w, p)']
    <2>1. /\ \A w \in D : f[w] \in Int
          /\ \A w \in D' : g[w] = f[w]
      BY <1>1, <1>2, UsedType DEF UnregisterValidator, Delete, used, SumInv
    <2>2. SumFunctionOnSet(f, D) = f[v] + SumFunctionOnSet(f, D')
      BY <1>2, <2>1, SumWithout
    <2>3. SumFunctionOnSet(g, D') = SumFunctionOnSet(f, D')
      BY <1>2, <2>1, SumSame
    <2>4. SumFunctionOnSet(f, D') \in Int /\ f[v] \in Int
      BY <1>2, <2>1, SumInt
    <2>5. totalActive'[p] = totalActive[p] - f[v]
      BY <1>2 DEF UnregisterValidator, SumInv
    <2>6. totalActive[p] = SumFunctionOnSet(f, D)
      BY DEF SumInv, Sum
    <2>. QED
      BY <2>2, <2>3, <2>4, <2>5, <2>6 DEF Sum
  <1>. QED
    BY <1>1, <1>2, <1>3 DEF SumInv

\* One validator uses n positions q more, and the total counts them.
LEMMA SumChanges ==
  ASSUME SumInv, TypeOK', NEW v \in DOMAIN validatorAvailable, NEW q \in PositionNames,
         NEW n \in Int, validatorOriginal' = validatorOriginal,
         validatorAvailable' =
           [validatorAvailable EXCEPT ![v][q] = validatorAvailable[v][q] - n],
         totalActive' = [totalActive EXCEPT ![q] = totalActive[q] + n]
  PROVE  SumInv'
  <1>. DEFINE D == DOMAIN validatorAvailable
  <1>1. /\ D' = D /\ DOMAIN validatorOriginal = D /\ IsFiniteSet(D)
        /\ validatorAvailable \in [D -> [PositionNames -> Int]]
        /\ totalActive \in [PositionNames -> Int]
    BY DEF SumInv, TypeOK
  <1>2. ASSUME NEW p \in PositionNames
        PROVE  totalActive'[p] = Sum(p)'
    <2>. DEFINE f == [w \in D |-> used(w, p)]
                g == [w \in D |-> used(w, p)']
    <2>1. \A w \in D : f[w] \in Int /\ used(w, p)' \in Int
      BY <1>1, UsedType DEF SumInv, TypeOK, used
    <2>2. /\ \A w \in D \ {v} : g[w] = f[w]
          /\ g[v] = IF p = q THEN f[v] + n ELSE f[v]
      BY <1>1, <2>1 DEF used, SumInv, TypeOK
    <2>3. SumFunctionOnSet(g, D) = SumFunctionOnSet(f, D) + g[v] - f[v]
      BY <1>1, <2>1, <2>2, SumReplaced
    <2>4. SumFunctionOnSet(f, D) \in Int
      BY <1>1, <2>1, SumInt
    <2>5. totalActive[p] = SumFunctionOnSet(f, D)
      BY DEF SumInv, Sum
    <2>6. totalActive'[p] = IF p = q THEN totalActive[p] + n ELSE totalActive[p]
      BY <1>1
    <2>7. Sum(p)' = SumFunctionOnSet(g, D)
      BY <1>1 DEF Sum
    <2>8. f[v] \in Int
      BY <2>1
    <2>. QED
      <3>. HIDE DEF f, g, D
      <3>. QED
        BY <2>2, <2>3, <2>4, <2>5, <2>6, <2>7, <2>8
  <1>. QED
    BY <1>1, <1>2 DEF SumInv

LEMMA SumStep == SumInv /\ [Next]_vars => SumInv'
  <1>. SUFFICES ASSUME SumInv, [Next]_vars PROVE SumInv'
    OBVIOUS
  <1>1. CASE \E v \in Validators : handleRegistration(v)
    BY <1>1, SumRegister, SumUnregister DEF handleRegistration
  <1>2. ASSUME NEW id \in DelegationIDs, NEW v \in Validators, NEW p \in PositionNames,
               NewPosition(id, v, p)
        PROVE  SumInv'
    <2>1. TypeOK'
      BY <1>2, NewPositionType DEF SumInv
    <2>2. /\ v \in DOMAIN validatorAvailable /\ 1 \in Int
          /\ validatorOriginal' = validatorOriginal
          /\ validatorAvailable' =
               [validatorAvailable EXCEPT ![v][p] = validatorAvailable[v][p] - 1]
          /\ totalActive' = [totalActive EXCEPT ![p] = totalActive[p] + 1]
      BY <1>2 DEF NewPosition
    <2>. QED
      BY <2>1, <2>2, SumChanges
  <1>3. ASSUME NEW id \in DelegationIDs, UnregisterDelegatorOfGone(id)
        PROVE  SumInv'
    <2>1. TypeOK'
      BY <1>3, ReleaseType DEF SumInv, UnregisterDelegator
    <2>. QED
      BY <1>3, <2>1 DEF UnregisterDelegatorOfGone, SumInv, Sum, used
  <1>4. ASSUME NEW id \in DelegationIDs, UnregisterDelegatorOfRegistered(id)
        PROVE  SumInv'
    <2>1. TypeOK /\ TypeOK'
      BY <1>4, ReleaseType DEF SumInv, UnregisterDelegator
    <2>2. PICK v \in DOMAIN validatorAvailable, q \in PositionNames :
                 v = delegations[id].Validator /\ q = delegations[id].Position
      BY <1>4, <2>1 DEF UnregisterDelegatorOfRegistered, TypeOK
    <2>3. validatorAvailable[v][q] \in Int /\ totalActive[q] \in Int
      BY <2>1, <2>2 DEF TypeOK
    <2>4. PICK n \in Int : \A i \in Int : i + 1 = i - n /\ i - 1 = i + n
      <3>1. -1 \in Int /\ \A i \in Int : i + 1 = i - (-1) /\ i - 1 = i + (-1)
        OBVIOUS
      <3>. QED
        BY <3>1
    <2>5. /\ validatorAvailable' =
               [validatorAvailable EXCEPT ![v][q] = validatorAvailable[v][q] - n]
          /\ totalActive' = [totalActive EXCEPT ![q] = totalActive[q] + n]
          /\ validatorOriginal' = validatorOriginal
      BY <1>4, <2>2, <2>3, <2>4 DEF UnregisterDelegatorOfRegistered
    <2>. QED
      BY <2>1, <2>2, <2>5, SumChanges
  <1>5. CASE UNCHANGED vars
    BY <1>5 DEF vars, SumInv, TypeOK, Sum, used
  <1>. QED
    BY <1>1, <1>2, <1>3, <1>4, <1>5 DEF Next, UnregisterDelegator

\* The active total of a position is the sum of what the registered validators
\* have handed out, also when validators come back (UnregisterValidator takes
\* back exactly its part).
THEOREM TotalIsTheSum == Spec => []TotalIsSumOfUsed
  <1>1. Init => SumInv
    <2>. SUFFICES ASSUME Init PROVE SumInv
      OBVIOUS
    <2>1. DOMAIN validatorAvailable = {} /\ DOMAIN validatorOriginal = {}
      BY DEF Init, Empty
    <2>2. IsFiniteSet({})
      BY FS_EmptySet
    <2>3. \A p \in PositionNames : Sum(p) = 0
      BY <2>1, SumEmpty DEF Sum
    <2>. QED
      BY <2>1, <2>2, <2>3, InitType DEF SumInv, Init
  <1>. QED
    BY <1>1, SumStep, SumIsOfUsed, PTL DEF Spec

-----------------------------------------------------------------------------
(* While no validator comes back with delegations outstanding, the counters *)
(* say exactly what is held.  The invariant is inductive because it relates *)
(* each counter to a set: the sum the total stands for never appears.       *)

ExactInv ==
  /\ TypeOK
  /\ DOMAIN validatorOriginal = DOMAIN validatorAvailable
  /\ \A v \in DOMAIN validatorOriginal :
       validatorOriginal[v] = makeValidatorsAvailablePositions(v)
  /\ \A v \in DOMAIN validatorAvailable, p \in PositionNames :
       validatorAvailable[v][p] >= 0
  /\ UsedIsHeld
  /\ TotalIsCounted
  /\ CapRespected

LEMMA ExactRegister ==
  ASSUME ExactInv, NEW v \in Validators, RegisterValidator(v), HeldBy(v) = {}
  PROVE  ExactInv'
  <1>. DEFINE allocation == makeValidatorsAvailablePositions(v)
  <1>1. TypeOK /\ TypeOK'
    BY RegisterType DEF ExactInv
  <1>2. allocation \in [PositionNames -> Nat]
    BY AllocationType
  <1>3. /\ DOMAIN validatorAvailable' = DOMAIN validatorAvailable \cup {v}
        /\ DOMAIN validatorOriginal' = DOMAIN validatorOriginal \cup {v}
        /\ validatorAvailable'[v] = allocation
        /\ validatorOriginal'[v] = allocation
        /\ \A w \in DOMAIN validatorAvailable :
             /\ w # v
             /\ validatorAvailable'[w] = validatorAvailable[w]
             /\ validatorOriginal'[w] = validatorOriginal[w]
    BY DEF RegisterValidator, Put, ExactInv
  <1>4. \A w, p : HeldAt(w, p)' = HeldAt(w, p)
    BY DEF RegisterValidator, HeldAt, HeldBy
  <1>5. \A p : Counted(p)' = Counted(p)
    BY <1>3 DEF RegisterValidator, Counted, HeldBy
  <1>. HIDE DEF allocation
  <1>6. UsedIsHeld'
    <2>. SUFFICES ASSUME NEW w \in DOMAIN validatorAvailable', NEW p \in PositionNames
                  PROVE  used(w, p)' = Cardinality(HeldAt(w, p)')
      BY DEF UsedIsHeld
    <2>1. CASE w = v
      <3>1. HeldAt(w, p) = {}
        BY <2>1 DEF HeldAt
      <3>2. used(w, p)' = 0
        BY <1>2, <1>3, <2>1 DEF used
      <3>. QED
        BY <1>4, <3>1, <3>2, FS_EmptySet
    <2>2. CASE w # v
      BY <1>3, <1>4, <2>2 DEF ExactInv, UsedIsHeld, used
    <2>. QED
      BY <2>1, <2>2
  <1>7. TotalIsCounted' /\ CapRespected'
    BY <1>5 DEF ExactInv, TotalIsCounted, CapRespected, RegisterValidator
  <1>8. \A w \in DOMAIN validatorAvailable', p \in PositionNames :
          validatorAvailable'[w][p] >= 0
    BY <1>2, <1>3 DEF ExactInv
  <1>9. \A w \in DOMAIN validatorOriginal' :
          validatorOriginal'[w] = makeValidatorsAvailablePositions(w)
    BY <1>3 DEF ExactInv, allocation
  <1>. QED
    BY <1>1, <1>3, <1>6, <1>7, <1>8, <1>9 DEF ExactInv

LEMMA ExactUnregister ==
  ASSUME ExactInv, NEW v \in Validators, UnregisterValidator(v)
  PROVE  ExactInv'
  <1>1. TypeOK /\ TypeOK'
    BY UnregisterType DEF ExactInv
  <1>2. /\ v \in DOMAIN validatorAvailable
        /\ DOMAIN validatorAvailable' = DOMAIN validatorAvailable \ {v}
        /\ DOMAIN validatorOriginal' = DOMAIN validatorOriginal \ {v}
        /\ \A w \in DOMAIN validatorAvailable' :
             /\ validatorAvailable'[w] = validatorAvailable[w]
             /\ validatorOriginal'[w] = validatorOriginal[w]
        /\ totalActive' = [p \in PositionNames |-> totalActive[p] - used(v, p)]
    BY DEF UnregisterValidator, Delete, ExactInv
  <1>3. \A w, p : HeldAt(w, p)' = HeldAt(w, p)
    BY DEF UnregisterValidator, HeldAt, HeldBy
  <1>4. UsedIsHeld'
    BY <1>2, <1>3 DEF ExactInv, UsedIsHeld, used
  <1>5. ASSUME NEW p \in PositionNames
        PROVE  /\ totalActive'[p] = Cardinality(Counted(p)')
               /\ Cardinality(Counted(p)') <= MainnetUsed[p]
    <2>1. /\ Counted(p) = Counted(p)' \cup HeldAt(v, p)
          /\ Counted(p)' \cap HeldAt(v, p) = {}
      BY <1>2 DEF Counted, HeldAt, HeldBy, UnregisterValidator
    <2>2. /\ IsFiniteSet(HeldAt(v, p))
          /\ IsFiniteSet(Counted(p)')
      <3>1. Counted(p)' \subseteq Counted(p)
        BY <2>1
      <3>. QED
        BY <1>1, <3>1, HeldFinite, FS_Subset
    <2>3. /\ Cardinality(HeldAt(v, p)) \in Nat
          /\ Cardinality(Counted(p)') \in Nat
      BY <2>2, FS_CardinalityType
    <2>4. Cardinality(Counted(p))
            = Cardinality(Counted(p)') + Cardinality(HeldAt(v, p))
      <3>1. Cardinality(Counted(p)' \cup HeldAt(v, p))
              = Cardinality(Counted(p)') + Cardinality(HeldAt(v, p))
                  - Cardinality(Counted(p)' \cap HeldAt(v, p))
        BY <2>2, FS_Union
      <3>2. Cardinality(Counted(p)' \cap HeldAt(v, p)) = 0
        BY <2>1, FS_EmptySet
      <3>. QED
        BY <2>1, <2>3, <3>1, <3>2
    <2>5. /\ totalActive[p] = Cardinality(Counted(p))
          /\ Cardinality(Counted(p)) <= MainnetUsed[p]
          /\ used(v, p) = Cardinality(HeldAt(v, p))
      BY <1>2 DEF ExactInv, TotalIsCounted, CapRespected, UsedIsHeld
    <2>6. MainnetUsed[p] \in Nat
      BY PositionsAssumption
    <2>7. totalActive'[p] = totalActive[p] - used(v, p)
      BY <1>2
    <2>. QED
      BY <2>3, <2>4, <2>5, <2>6, <2>7
  <1>6. TotalIsCounted' /\ CapRespected'
    BY <1>5 DEF TotalIsCounted, CapRespected
  <1>. QED
    BY <1>1, <1>2, <1>4, <1>6 DEF ExactInv

LEMMA ExactNew ==
  ASSUME ExactInv, NEW id \in DelegationIDs, NEW v \in Validators,
         NEW p \in PositionNames, NewPosition(id, v, p)
  PROVE  ExactInv'
  <1>1. TypeOK /\ TypeOK'
    BY NewPositionType DEF ExactInv
  <1>2. /\ DOMAIN validatorAvailable' = DOMAIN validatorAvailable
        /\ validatorOriginal' = validatorOriginal
        /\ v \in DOMAIN validatorAvailable
    BY <1>1, HeldAfterNew DEF NewPosition
  <1>3. ASSUME NEW w \in DOMAIN validatorAvailable, NEW q \in PositionNames
        PROVE  /\ validatorAvailable'[w][q] >= 0
               /\ used(w, q)' = Cardinality(HeldAt(w, q)')
    <2>1. /\ validatorAvailable[w][q] \in Int
          /\ validatorOriginal[w][q] \in Nat
      BY <1>1 DEF TypeOK, ExactInv
    <2>2. /\ validatorAvailable[w][q] >= 0
          /\ used(w, q) = Cardinality(HeldAt(w, q))
      BY DEF ExactInv, UsedIsHeld
    <2>3. Cardinality(HeldAt(w, q)) \in Nat
      BY <1>1, HeldFinite, FS_CardinalityType
    <2>4. CASE w = v /\ q = p
      <3>1. /\ validatorAvailable[w][q] > 0
            /\ validatorAvailable'[w][q] = validatorAvailable[w][q] - 1
        BY <1>1, <2>4 DEF NewPosition, TypeOK
      <3>2. HeldAt(w, q)' = HeldAt(w, q) \cup {id} /\ id \notin HeldAt(w, q)
        BY <1>1, <2>4, HeldAfterNew DEF HeldAt, HeldBy
      <3>3. Cardinality(HeldAt(w, q)') = Cardinality(HeldAt(w, q)) + 1
        BY <1>1, <3>2, HeldFinite, FS_AddElement
      <3>. QED
        BY <1>2, <2>1, <2>2, <2>3, <3>1, <3>3 DEF used
    <2>5. CASE ~(w = v /\ q = p)
      <3>1. validatorAvailable'[w][q] = validatorAvailable[w][q]
        BY <1>1, <2>5 DEF NewPosition, TypeOK
      <3>2. HeldAt(w, q)' = HeldAt(w, q)
        BY <1>1, <2>5, HeldAfterNew
      <3>. QED
        BY <1>2, <2>2, <3>1, <3>2 DEF used
    <2>. QED
      BY <2>4, <2>5
  <1>4. ASSUME NEW q \in PositionNames
        PROVE  /\ totalActive'[q] = Cardinality(Counted(q)')
               /\ Cardinality(Counted(q)') <= MainnetUsed[q]
    <2>1. /\ totalActive[q] = Cardinality(Counted(q))
          /\ Cardinality(Counted(q)) <= MainnetUsed[q]
          /\ MainnetUsed[q] \in Nat
      BY PositionsAssumption DEF ExactInv, TotalIsCounted, CapRespected
    <2>2. Cardinality(Counted(q)) \in Nat
      BY <1>1, HeldFinite, FS_CardinalityType
    <2>3. CASE q = p
      <3>1. /\ totalActive[q] < MainnetUsed[q]
            /\ totalActive'[q] = totalActive[q] + 1
        BY <1>1, <2>3 DEF NewPosition, TypeOK
      <3>2. Counted(q)' = Counted(q) \cup {id} /\ id \notin Counted(q)
        BY <1>1, <2>3, HeldAfterNew DEF Counted
      <3>3. Cardinality(Counted(q)') = Cardinality(Counted(q)) + 1
        BY <1>1, <3>2, HeldFinite, FS_AddElement
      <3>. QED
        BY <2>1, <2>2, <3>1, <3>3
    <2>4. CASE q # p
      <3>1. totalActive'[q] = totalActive[q]
        BY <1>1, <2>4 DEF NewPosition, TypeOK
      <3>2. Counted(q)' = Counted(q)
        BY <1>1, <2>4, HeldAfterNew
      <3>. QED
        BY <2>1, <3>1, <3>2
    <2>. QED
      BY <2>3, <2>4
  <1>5. UsedIsHeld' /\ TotalIsCounted' /\ CapRespected'
    BY <1>2, <1>3, <1>4 DEF UsedIsHeld, TotalIsCounted, CapRespected
  <1>. QED
    BY <1>1, <1>2, <1>3, <1>5 DEF ExactInv

LEMMA ExactRelease ==
  ASSUME ExactInv, NEW id \in DelegationIDs, UnregisterDelegator(id)
  PROVE  ExactInv'
  <1>. DEFINE v == delegations[id].Validator
              p == delegations[id].Position
  <1>1. TypeOK /\ TypeOK'
    BY ReleaseType DEF ExactInv
  <1>2. /\ DOMAIN validatorAvailable' = DOMAIN validatorAvailable
        /\ validatorOriginal' = validatorOriginal
        /\ id \in DOMAIN delegations
        /\ p \in PositionNames
    BY <1>1, HeldAfterRelease DEF UnregisterDelegator, UnregisterDelegatorOfGone,
       UnregisterDelegatorOfRegistered, TypeOK
  <1>3. ASSUME NEW w \in DOMAIN validatorAvailable, NEW q \in PositionNames
        PROVE  validatorAvailable'[w][q] = validatorAvailable[w][q]
                                             + IF w = v /\ q = p THEN 1 ELSE 0
    <2>1. validatorAvailable[w][q] \in Int
      BY <1>1 DEF TypeOK
    <2>. QED
      BY <1>1, <2>1 DEF TypeOK, UnregisterDelegator, UnregisterDelegatorOfGone,
                        UnregisterDelegatorOfRegistered
  <1>4. ASSUME NEW q \in PositionNames
        PROVE  totalActive'[q] =
                 totalActive[q] - IF v \in DOMAIN validatorAvailable /\ q = p
                                    THEN 1 ELSE 0
    <2>1. totalActive[q] \in Int
      BY <1>1 DEF TypeOK
    <2>. QED
      BY <1>1, <2>1 DEF TypeOK, UnregisterDelegator, UnregisterDelegatorOfGone,
                        UnregisterDelegatorOfRegistered
  <1>5. \A w, q : id \in HeldAt(w, q) <=> w = v /\ q = p
    BY <1>2 DEF HeldAt, HeldBy
  <1>6. \A q : id \in Counted(q) <=> v \in DOMAIN validatorAvailable /\ q = p
    BY <1>2 DEF Counted
  <1>. HIDE DEF v, p
  <1>7. ASSUME NEW w \in DOMAIN validatorAvailable, NEW q \in PositionNames
        PROVE  /\ validatorAvailable'[w][q] >= 0
               /\ used(w, q)' = Cardinality(HeldAt(w, q)')
    <2>1. /\ validatorAvailable[w][q] \in Int
          /\ validatorOriginal[w][q] \in Nat
      BY <1>1 DEF TypeOK, ExactInv
    <2>2. /\ validatorAvailable[w][q] >= 0
          /\ used(w, q) = Cardinality(HeldAt(w, q))
      BY DEF ExactInv, UsedIsHeld
    <2>3. Cardinality(HeldAt(w, q)') = Cardinality(HeldAt(w, q))
                                         - IF w = v /\ q = p THEN 1 ELSE 0
      <3>1. /\ IsFiniteSet(HeldAt(w, q))
            /\ Cardinality(HeldAt(w, q)) \in Nat
            /\ HeldAt(w, q)' = HeldAt(w, q) \ {id}
        BY <1>1, HeldFinite, HeldAfterRelease, FS_CardinalityType
      <3>2. Cardinality(HeldAt(w, q) \ {id})
              = IF id \in HeldAt(w, q) THEN Cardinality(HeldAt(w, q)) - 1
                                       ELSE Cardinality(HeldAt(w, q))
        BY <3>1, FS_RemoveElement
      <3>. QED
        BY <1>5, <3>1, <3>2
    <2>4. Cardinality(HeldAt(w, q)) \in Nat
      BY <1>1, HeldFinite, FS_CardinalityType
    <2>. QED
      BY <1>2, <1>3, <2>1, <2>2, <2>3, <2>4 DEF used
  <1>8. ASSUME NEW q \in PositionNames
        PROVE  /\ totalActive'[q] = Cardinality(Counted(q)')
               /\ Cardinality(Counted(q)') <= MainnetUsed[q]
    <2>1. /\ totalActive[q] = Cardinality(Counted(q))
          /\ Cardinality(Counted(q)) <= MainnetUsed[q]
          /\ MainnetUsed[q] \in Nat
      BY PositionsAssumption DEF ExactInv, TotalIsCounted, CapRespected
    <2>2. /\ IsFiniteSet(Counted(q))
          /\ Cardinality(Counted(q)) \in Nat
          /\ Counted(q)' = Counted(q) \ {id}
      BY <1>1, HeldFinite, HeldAfterRelease, FS_CardinalityType
    <2>3. Cardinality(Counted(q) \ {id})
            = IF id \in Counted(q) THEN Cardinality(Counted(q)) - 1
                                   ELSE Cardinality(Counted(q))
      BY <2>2, FS_RemoveElement
    <2>. QED
      BY <1>4, <1>6, <2>1, <2>2, <2>3
  <1>9. UsedIsHeld' /\ TotalIsCounted' /\ CapRespected'
    BY <1>2, <1>7, <1>8 DEF UsedIsHeld, TotalIsCounted, CapRespected
  <1>. QED
    BY <1>1, <1>2, <1>7, <1>9 DEF ExactInv

LEMMA ExactInit == Init => ExactInv
  <1>. SUFFICES ASSUME Init PROVE ExactInv
    OBVIOUS
  <1>1. \A p : Counted(p) = {}
    BY DEF Init, Counted, Empty
  <1>2. ASSUME NEW p \in PositionNames
        PROVE  /\ totalActive[p] = Cardinality(Counted(p))
               /\ Cardinality(Counted(p)) <= MainnetUsed[p]
    <2>1. Cardinality(Counted(p)) = 0
      BY <1>1, FS_EmptySet
    <2>2. MainnetUsed[p] \in Nat
      BY PositionsAssumption
    <2>. QED
      BY <2>1, <2>2 DEF Init
  <1>3. TotalIsCounted /\ CapRespected
    BY <1>2 DEF TotalIsCounted, CapRespected
  <1>. QED
    BY <1>3, InitType DEF ExactInv, Init, UsedIsHeld, Empty

LEMMA ExactStep ==
  ASSUME ~MayReturn, ExactInv, [Next]_vars
  PROVE  ExactInv'
  <1>1. CASE \E v \in Validators : handleRegistration(v)
    BY <1>1, ExactRegister, ExactUnregister DEF handleRegistration
  <1>2. CASE \E id \in DelegationIDs, v \in Validators, p \in PositionNames :
               NewPosition(id, v, p)
    BY <1>2, ExactNew
  <1>3. CASE \E id \in DelegationIDs : UnregisterDelegator(id)
    BY <1>3, ExactRelease
  <1>4. CASE UNCHANGED vars
    <2>1. TypeOK'
      BY <1>4 DEF vars, ExactInv, TypeOK
    <2>2. /\ \A w, q : HeldAt(w, q)' = HeldAt(w, q)
          /\ \A q : Counted(q)' = Counted(q)
      BY <1>4 DEF vars, HeldAt, HeldBy, Counted
    <2>. QED
      BY <1>4, <2>1, <2>2 DEF vars, ExactInv, UsedIsHeld, used, TotalIsCounted,
                              CapRespected
  <1>. QED
    BY <1>1, <1>2, <1>3, <1>4 DEF Next

LEMMA ExactHolds ==
  ASSUME ~MayReturn
  PROVE  Spec => []ExactInv
  <1>1. ExactInv /\ [Next]_vars => ExactInv'
    BY ExactStep
  <1>. QED
    BY ExactInit, <1>1, PTL DEF Spec

\* On a network where no validator comes back with delegations outstanding,
\* "original - available", which UnregisterValidator gives back, is what the
\* validator holds.
THEOREM UsedStaysExact ==
  ASSUME ~MayReturn
  PROVE  Spec => []UsedIsHeld
  <1>1. ExactInv => UsedIsHeld
    BY DEF ExactInv
  <1>. QED
    BY ExactHolds, <1>1, PTL

\* On such a network totalActive is the number of delegations held on registered
\* validators, in whatever order they come and go.
THEOREM TotalStaysExact ==
  ASSUME ~MayReturn
  PROVE  Spec => []TotalIsCounted
  <1>1. ExactInv => TotalIsCounted
    BY DEF ExactInv
  <1>. QED
    BY ExactHolds, <1>1, PTL

\* On such a network no position exceeds its cap, for every set of caps.
THEOREM CapsStayRespected ==
  ASSUME ~MayReturn
  PROVE  Spec => []CapRespected
  <1>1. ExactInv => CapRespected
    BY DEF ExactInv
  <1>. QED
    BY ExactHolds, <1>1, PTL

-----------------------------------------------------------------------------
(* The counters implement the ledger. *)

\* The ledger counts as this module does.
LEMMA LedgerCardinality ==
  ASSUME NEW S
  PROVE  Ledger!Cardinality(S) = Cardinality(S)
  BY DEF Ledger!Cardinality, Cardinality, Ledger!IsFiniteSet, IsFiniteSet

\* On such a network every behaviour of the manager is one of the ledger: the
\* counters never hand out a position that the set of held delegations, the
\* shares and the caps would refuse.
THEOREM ManagerImplementsLedger ==
  ASSUME ~MayReturn
  PROVE  Spec => ImplementsLedger
  <1>1. Init => Ledger!Init
    BY DEF Init, Ledger!Init, Empty
  <1>2. ASSUME ExactInv, [Next]_vars
        PROVE  [Ledger!Next]_(Ledger!ledgerVars)
    <2>1. ASSUME NEW v \in Validators, RegisterValidator(v), HeldBy(v) = {}
          PROVE  Ledger!Open(v)
      <3>1. \A p \in PositionNames : Ledger!HeldAt(v, p) = {}
        BY <2>1 DEF HeldBy, Ledger!HeldAt
      <3>. QED
        BY <2>1, <3>1 DEF RegisterValidator, Put, Ledger!Open
    <2>2. ASSUME NEW v \in Validators, UnregisterValidator(v)
          PROVE  Ledger!Close(v)
      BY <2>2 DEF UnregisterValidator, Delete, Ledger!Close
    <2>3. ASSUME NEW id \in DelegationIDs, NEW v \in Validators,
                 NEW p \in PositionNames, NewPosition(id, v, p)
          PROVE  Ledger!Take(id, v, p)
      <3>1. TypeOK
        BY <1>2 DEF ExactInv
      <3>2. /\ Ledger!HeldAt(v, p) = HeldAt(v, p)
            /\ Ledger!Counted(p) = Counted(p)
        BY DEF Ledger!HeldAt, Ledger!Counted, HeldAt, HeldBy, Counted
      <3>3. Cardinality(HeldAt(v, p)) < makeValidatorsAvailablePositions(v)[p]
        <4>1. /\ v \in DOMAIN validatorAvailable
              /\ validatorAvailable[v][p] > 0
          BY <2>3 DEF NewPosition
        <4>2. /\ validatorAvailable[v][p] \in Int
              /\ validatorOriginal[v][p] \in Nat
              /\ validatorOriginal[v] = makeValidatorsAvailablePositions(v)
          BY <1>2, <3>1, <4>1 DEF TypeOK, ExactInv
        <4>3. validatorOriginal[v][p] - validatorAvailable[v][p]
                = Cardinality(HeldAt(v, p))
          BY <1>2, <4>1 DEF ExactInv, UsedIsHeld, used
        <4>. QED
          BY <4>1, <4>2, <4>3
      <3>4. Cardinality(Counted(p)) < MainnetUsed[p]
        BY <1>2, <2>3 DEF NewPosition, ExactInv, TotalIsCounted
      <3>5. DOMAIN validatorAvailable' = DOMAIN validatorAvailable
        BY <2>3, <3>1, HeldAfterNew
      <3>6. /\ v \in DOMAIN validatorAvailable
            /\ id \notin DOMAIN delegations
            /\ delegations' = Put(delegations, id, [Position |-> p, Validator |-> v])
        BY <2>3 DEF NewPosition
      <3>7. [w \in Validators |-> makeValidatorsAvailablePositions(w)][v][p]
              = makeValidatorsAvailablePositions(v)[p]
        OBVIOUS
      <3>8. Ledger!Cardinality(Ledger!HeldAt(v, p))
              < [w \in Validators |-> makeValidatorsAvailablePositions(w)][v][p]
        BY <3>2, <3>3, <3>7, LedgerCardinality
      <3>9. Ledger!Cardinality(Ledger!Counted(p)) < MainnetUsed[p]
        BY <3>2, <3>4, LedgerCardinality
      <3>10. delegations' = [i \in DOMAIN delegations \cup {id} |->
                              IF i = id THEN [Position |-> p, Validator |-> v]
                                        ELSE delegations[i]]
        BY <3>6 DEF Put
      <3>. QED
        BY <3>5, <3>6, <3>8, <3>9, <3>10 DEF Ledger!Take
    <2>4. ASSUME NEW id \in DelegationIDs, UnregisterDelegator(id)
          PROVE  Ledger!Release(id)
      <3>1. DOMAIN validatorAvailable' = DOMAIN validatorAvailable
        BY <1>2, <2>4, HeldAfterRelease DEF ExactInv
      <3>. QED
        BY <2>4, <3>1 DEF UnregisterDelegator, UnregisterDelegatorOfGone,
           UnregisterDelegatorOfRegistered, Delete, Ledger!Release
    <2>5. CASE \E v \in Validators : handleRegistration(v)
      BY <2>1, <2>2, <2>5 DEF handleRegistration, Ledger!Next
    <2>6. CASE \E id \in DelegationIDs, v \in Validators, p \in PositionNames :
                 NewPosition(id, v, p)
      BY <2>3, <2>6 DEF Ledger!Next
    <2>7. CASE \E id \in DelegationIDs : UnregisterDelegator(id)
      BY <2>4, <2>7 DEF Ledger!Next
    <2>8. CASE UNCHANGED vars
      BY <2>8 DEF vars, Ledger!ledgerVars
    <2>. QED
      BY <1>2, <2>5, <2>6, <2>7, <2>8 DEF Next
  <1>3. ExactInv /\ [Next]_vars => ExactInv'
    BY ExactStep
  <1>. QED
    BY ExactInit, <1>1, <1>2, <1>3, PTL DEF Spec, ImplementsLedger, Ledger!Spec
=============================================================================
