---------------------------- MODULE StargateProofs ----------------------------
(***************************************************************************)
(* What the Stargate contract promises its delegators, for any number of   *)
(* them, any stakes, rewards and periods, and any order of the calls.      *)
(***************************************************************************)
EXTENDS Stargate, SumProofs, TLAPS

(* Weights and shares. *)

LEMMA WeightNat == ASSUME NEW d \in Delegators PROVE weight(d) \in Nat
<1>1. Value[d] \in Nat /\ Multiplier[d] \in Nat
  BY StargateAssumption
<1>2. ASSUME NEW i \in Nat, NEW j \in Nat PROVE i * j \in Nat
  OBVIOUS
<1>3. ASSUME NEW i \in Nat PROVE i \div 100 \in Nat
  OBVIOUS
<1>4. QED BY <1>1, <1>2, <1>3 DEF weight

LEMMA Quotient ==
  ASSUME NEW i \in Nat, NEW j \in Nat \ {0}
  PROVE  (i \div j) \in Nat /\ (i \div j) * j <= i
<1> DEFINE q == i \div j
           r == i % j
<1>1. q \in Int /\ r \in Nat /\ i = j * q + r
  OBVIOUS
<1>2. q >= 0
  <2>1. SUFFICES ASSUME q < 0 PROVE FALSE
    BY <1>1
  <2>2. r < j
    OBVIOUS
  <2>3. PICK m \in Nat : q = -1 - m
    <3>1. -1 - q \in Nat /\ q = -1 - (-1 - q)
      BY <1>1, <2>1
    <3>2. QED BY <3>1
  <2>4. j * q = -j - j * m
    BY <2>3
  <2>5. ASSUME NEW a \in Nat, NEW b \in Nat PROVE a * b \in Nat
    OBVIOUS
  <2>6. j * m \in Nat
    BY <2>3, <2>5
  <2> HIDE DEF q, r
  <2>7. QED BY <1>1, <2>2, <2>4, <2>6
<1>3. j * q = q * j
  BY <1>1
<1> HIDE DEF q, r
<1>4. q \in Nat /\ q * j \in Int
  BY <1>1, <1>2
<1>5. q * j <= i
  BY <1>1, <1>3, <1>4
<1>6. QED BY <1>4, <1>5 DEF q

\* A smaller weight of all and greater rewards only make a share smaller.
LEMMA ShareStaysFair ==
  ASSUME NEW s \in Nat, NEW all \in Nat, NEW less \in Nat, NEW r \in Nat, NEW R \in Nat,
         NEW k \in Nat, less <= all, r <= R, s * all <= r * k
  PROVE  s * less <= R * k
<1>1. PICK m \in Nat : all = less + m
  <2>1. all - less \in Nat /\ all = less + (all - less)
    OBVIOUS
  <2>2. QED BY <2>1
<1>2. PICK n \in Nat : R = r + n
  <2>1. R - r \in Nat /\ R = r + (R - r)
    OBVIOUS
  <2>2. QED BY <2>1
<1>3. ASSUME NEW i \in Nat, NEW j \in Nat PROVE i * j \in Nat
  OBVIOUS
<1>4. s * m \in Nat /\ n * k \in Nat /\ s * less \in Nat /\ r * k \in Nat
  BY <1>3
<1>5. s * all = s * less + s * m /\ R * k = r * k + n * k
  BY <1>1, <1>2
<1>6. QED BY <1>4, <1>5

LEMMA Cancelled ==
  ASSUME NEW i \in Int, NEW j \in Int, NEW k \in Nat \ {0}, k * i <= j * k
  PROVE  i <= j
<1>1. SUFFICES ASSUME i > j PROVE FALSE
  OBVIOUS
<1>2. PICK m \in Nat : i = j + 1 + m
  <2>1. i - j - 1 \in Nat /\ i = j + 1 + (i - j - 1)
    BY <1>1
  <2>2. QED BY <2>1
<1>3. k * i = j * k + k + k * m
  BY <1>2
<1>4. ASSUME NEW a \in Nat, NEW b \in Nat PROVE a * b \in Nat
  OBVIOUS
<1>5. k * m \in Nat /\ j * k \in Int
  BY <1>4
<1>6. QED BY <1>3, <1>5

-----------------------------------------------------------------------------
(* _updateWeights, period by period. *)

NextWeight(g, x, y, from, last, p) ==
  IF p \in from + 1 .. last
  THEN LET new == g[p - 1] + x[p] - y[p] IN IF new = 0 THEN x[p] ELSE new
  ELSE x[p]

Populates(g, x, y, from, last) ==
  g = [p \in Periods |-> NextWeight(g, x, y, from, last, p)]

LEMMA WeightsExist ==
  ASSUME NEW x, NEW y, NEW from \in Nat, NEW last \in Nat
  PROVE  \E g : Populates(g, x, y, from, last)
<1> DEFINE N == MaxPeriod + 2
           Follows(g, n) == /\ g = [p \in Periods |-> g[p]]
                            /\ \A p \in 0..n : g[p] = NextWeight(g, x, y, from, last, p)
           Bad == {n \in 0..N : ~\E g : Follows(g, n)}
<1>1. N \in Nat /\ Periods = 0..N
  BY StargateAssumption DEF Periods
<1> HIDE DEF N
<1>2. Bad = {}
  <2>1. SUFFICES ASSUME Bad # {} PROVE FALSE
    OBVIOUS
  <2>2. PICK n \in Bad : \A m \in Bad : n <= m
    BY <1>1, <2>1, LeastNumber
  <2>3. n # 0
    <3>1. SUFFICES ASSUME n = 0 PROVE FALSE
      OBVIOUS
    <3> DEFINE g == [p \in Periods |-> x[p]]
    <3>2. 0 \in Periods /\ 0 \notin from + 1 .. last
      BY <1>1
    <3>3. Follows(g, 0)
      BY <3>2 DEF NextWeight
    <3>4. QED BY <2>2, <3>1, <3>3
  <2>4. n \in 1..N /\ n - 1 \in 0..N /\ n - 1 \notin Bad
    BY <1>1, <2>2, <2>3
  <2>5. PICK g : Follows(g, n - 1)
    BY <2>4
  <2> DEFINE h == [g EXCEPT ![n] = NextWeight(g, x, y, from, last, n)]
  <2>6. h = [p \in Periods |-> h[p]]
    BY <2>5
  <2>7. ASSUME NEW p \in 0..n PROVE h[p] = NextWeight(h, x, y, from, last, p)
    <3>1. p \in Periods /\ n \in Periods
      BY <1>1, <2>4
    <3>2. h[p] = NextWeight(g, x, y, from, last, p)
      <4>1. CASE p = n
        BY <2>5, <3>1, <4>1
      <4>2. CASE p # n
        BY <2>4, <2>5, <3>1, <4>2
      <4>3. QED BY <4>1, <4>2
    <3>3. p \in from + 1 .. last => h[p - 1] = g[p - 1]
      BY <1>1, <2>4, <2>5, <3>1
    <3>4. QED BY <3>2, <3>3 DEF NextWeight
  <2>8. Follows(h, n)
    BY <2>6, <2>7
  <2>9. QED BY <2>2, <2>8
<1>3. PICK g : Follows(g, N)
  BY <1>1, <1>2
<1>4. Populates(g, x, y, from, last)
  BY <1>1, <1>3 DEF Populates
<1>5. QED BY <1>4

\* The recursive function is what its equation says.
LEMMA UpdatedWeights ==
  ASSUME TypeOK, NEW v \in Validators, NEW last \in Nat
  PROVE  LET w == updatedWeights(v, last)
         IN /\ w = [p \in Periods |-> w[p]]
            /\ \A p \in Periods : w[p] =
                 NextWeight(w, weights[v], reductions[v], populatedWeights[v], last, p)
<1> DEFINE w == updatedWeights(v, last)
           Is(g) == Populates(g, weights[v], reductions[v], populatedWeights[v], last)
<1>1. w = CHOOSE g : Is(g)
  BY DEF updatedWeights, NextWeight, Unpopulated, Populates
<1>2. populatedWeights[v] \in Nat
  BY DEF TypeOK
<1>3. \E g : Is(g)
  BY <1>2, WeightsExist
<1>4. Is(w)
  BY <1>1, <1>3
<1> HIDE DEF w
<1>5. /\ w = [p \in Periods |-> w[p]]
      /\ \A p \in Periods : w[p] =
           NextWeight(w, weights[v], reductions[v], populatedWeights[v], last, p)
  BY <1>4 DEF Populates
<1>6. QED BY <1>5 DEF w

-----------------------------------------------------------------------------
(* The invariant. *)

\* Who starts in a period, who has left with the period before, and their weights.
StartsAt(d, v, p) ==
  d \in Delegates /\ delegation[d].validator = v /\ delegation[d].start = p

EndsBefore(d, v, p) ==
  d \in Delegates /\ delegation[d].validator = v /\ delegation[d].end + 1 = p

WeightStarting(v, p) ==
  SumFunction([d \in Delegators |-> IF StartsAt(d, v, p) THEN weight(d) ELSE 0])

WeightLeaving(v, p) ==
  SumFunction([d \in Delegators |-> IF EndsBefore(d, v, p) THEN weight(d) ELSE 0])

\* The staker's periods and the contract's: a delegation starts with the next period
\* at the earliest and ends with a running one, and what is claimed is completed.
PeriodsInOrder ==
  /\ \A v \in Validators : status[v] = "queued" => completed[v] = 0
  /\ \A d \in Delegates :
       LET v == delegation[d].validator
       IN /\ 1 <= delegation[d].start /\ delegation[d].start <= completed[v] + 2
          /\ delegation[d].start <= delegation[d].end
          /\ delegation[d].end = Never \/ delegation[d].end <= completed[v] + 1
          /\ claims[d] <= completed[v] /\ claims[d] <= delegation[d].end
          /\ claims[d] = 0 \/ delegation[d].start <= claims[d]
  /\ \A d \in Delegators \ Delegates : claims[d] = 0

\* The reductions are the weights that leave; the weights are at least those
\* that start, and up to the cursor at least those within.
WeightsCover ==
  \A v \in Validators, p \in Periods :
    /\ reductions[v][p] = WeightLeaving(v, p)
    /\ p > populatedWeights[v] => weights[v][p] >= WeightStarting(v, p)
    /\ p <= populatedWeights[v] => weights[v][p] >= WeightWithin(v, p)

\* If claims are in step, neither more nor less, and the rewards are there.
WeightsExact ==
  \A v \in Validators, p \in Periods :
    /\ p > populatedWeights[v] => weights[v][p] = WeightStarting(v, p) /\ rewards[v][p] = 0
    /\ p <= populatedWeights[v] =>
         /\ weights[v][p] = WeightWithin(v, p)
         /\ weights[v][p] # 0 => rewards[v][p] = DelegatorsRewards[v][p]

\* Rewards that are populated are the staker's.
RewardsKnown ==
  \A v \in Validators, p \in Periods : rewards[v][p] \in {0, DelegatorsRewards[v][p]}

\* Nobody has been paid more for a period than the share of its weight.
PaidFairly ==
  \A d \in Delegators, p \in Periods :
    paid[d][p] # 0 =>
      /\ d \in Delegates /\ delegation[d].start <= p /\ p <= claims[d] /\ weight(d) > 0
      /\ \A v \in Validators : v = delegation[d].validator =>
           paid[d][p] * WeightWithin(v, p) <= DelegatorsRewards[v][p] * weight(d)

\* What holds in any order of the claims, and what their being in step adds.
IInv == TypeOK /\ PeriodsInOrder /\ WeightsCover /\ RewardsKnown /\ PaidFairly
StepInv == WeightsExact /\ SharesPaid

-----------------------------------------------------------------------------
(* The sums of weights. *)

LEMMA DelegateType ==
  ASSUME TypeOK, NEW d \in Delegates
  PROVE  /\ d \in Delegators
         /\ delegation[d].validator \in Validators
         /\ delegation[d].start \in Nat /\ delegation[d].end \in Nat
         /\ delegation[d].start \in Periods /\ delegation[d].end \in Periods \cup {Never}
<1>1. d \in Delegators /\ delegation[d] # NoDelegation
  BY DEF Delegates
<1>2. delegation[d] \in
        [validator : Validators, start : Periods, end : Periods \cup {Never}]
  BY <1>1 DEF TypeOK
<1>3. Periods \subseteq Nat /\ Never \in Nat
  BY StargateAssumption DEF Periods, Never
<1>4. QED BY <1>1, <1>2, <1>3

LEMMA WeightsNat ==
  ASSUME NEW v, NEW p
  PROVE  WeightWithin(v, p) \in Nat /\ WeightStarting(v, p) \in Nat /\ WeightLeaving(v, p) \in Nat
<1> DEFINE f == [d \in Delegators |-> IF Within(d, v, p) THEN weight(d) ELSE 0]
           g == [d \in Delegators |-> IF StartsAt(d, v, p) THEN weight(d) ELSE 0]
           h == [d \in Delegators |-> IF EndsBefore(d, v, p) THEN weight(d) ELSE 0]
<1>1. \A d \in Delegators : f[d] \in Nat /\ g[d] \in Nat /\ h[d] \in Nat
  BY WeightNat
<1>2. /\ SumFunctionOnSet(f, Delegators) \in Nat /\ SumFunctionOnSet(g, Delegators) \in Nat
      /\ SumFunctionOnSet(h, Delegators) \in Nat
  BY <1>1, SumCovers, StargateAssumption
<1>3. QED BY <1>2 DEF WeightWithin, WeightStarting, WeightLeaving, SumFunction

LEMMA WithinCovers ==
  ASSUME NEW v, NEW p, NEW d \in Delegators, Within(d, v, p)
  PROVE  weight(d) <= WeightWithin(v, p)
<1> DEFINE f == [c \in Delegators |-> IF Within(c, v, p) THEN weight(c) ELSE 0]
<1>1. \A c \in Delegators : f[c] \in Nat
  BY WeightNat
<1>2. f[d] <= SumFunctionOnSet(f, Delegators)
  BY <1>1, SumCovers, StargateAssumption
<1>3. QED BY <1>2 DEF WeightWithin, SumFunction

LEMMA StartingBelow ==
  ASSUME TypeOK, PeriodsInOrder, NEW v, NEW p \in Periods
  PROVE  WeightStarting(v, p) <= WeightWithin(v, p)
<1> DEFINE f == [d \in Delegators |-> IF Within(d, v, p) THEN weight(d) ELSE 0]
           g == [d \in Delegators |-> IF StartsAt(d, v, p) THEN weight(d) ELSE 0]
<1>1. \A d \in Delegators : StartsAt(d, v, p) => Within(d, v, p)
  BY DelegateType DEF StartsAt, Within, PeriodsInOrder
<1>2. \A d \in Delegators : f[d] \in Int /\ g[d] \in Int /\ g[d] <= f[d]
  BY <1>1, WeightNat
<1>3. SumFunctionOnSet(g, Delegators) <= SumFunctionOnSet(f, Delegators)
  BY <1>2, SumOrdered, StargateAssumption
<1>4. QED BY <1>3 DEF WeightWithin, WeightStarting, SumFunction

\* From one period to the next: who starts comes in, who has ended goes out.
LEMMA Balance ==
  ASSUME TypeOK, PeriodsInOrder, NEW v, NEW p \in Periods, p >= 1
  PROVE  WeightWithin(v, p) + WeightLeaving(v, p)
           = WeightWithin(v, p - 1) + WeightStarting(v, p)
<1> DEFINE now(d) == IF Within(d, v, p) THEN weight(d) ELSE 0
           before(d) == IF Within(d, v, p - 1) THEN weight(d) ELSE 0
           comes(d) == IF StartsAt(d, v, p) THEN weight(d) ELSE 0
           goes(d) == IF EndsBefore(d, v, p) THEN weight(d) ELSE 0
           both(d) == now(d) + goes(d)
           f == [d \in Delegators |-> now(d)]
           g == [d \in Delegators |-> before(d)]
           s == [d \in Delegators |-> comes(d)]
           l == [d \in Delegators |-> goes(d)]
           b == [d \in Delegators |-> both(d)]
<1>1. \A d \in Delegators : now(d) + goes(d) = before(d) + comes(d)
  <2>1. TAKE d \in Delegators
  <2>2. weight(d) \in Nat /\ p \in Int
    BY WeightNat, StargateAssumption DEF Periods
  <2>3. CASE d \notin Delegates \/ delegation[d].validator # v
    BY <2>3 DEF Within, StartsAt, EndsBefore
  <2>4. CASE d \in Delegates /\ delegation[d].validator = v
    <3>1. /\ delegation[d].start \in Int /\ delegation[d].end \in Int
          /\ delegation[d].start <= delegation[d].end
      BY <2>4, DelegateType DEF PeriodsInOrder
    <3>2. QED BY <2>2, <2>4, <3>1 DEF Within, StartsAt, EndsBefore
  <2>5. QED BY <2>3, <2>4
<1>2. \A d \in Delegators : /\ now(d) \in Int /\ before(d) \in Int
                            /\ comes(d) \in Int /\ goes(d) \in Int
  BY WeightNat
<1> HIDE DEF now, before, comes, goes
<1>3. SumFunctionOnSet(b, Delegators)
        = SumFunctionOnSet(f, Delegators) + SumFunctionOnSet(l, Delegators)
  <2>1. \A d \in Delegators : f[d] \in Int /\ l[d] \in Int /\ b[d] = f[d] + l[d]
    BY <1>2
  <2>2. QED BY <2>1, SumOfSums, StargateAssumption
<1>4. SumFunctionOnSet(b, Delegators)
        = SumFunctionOnSet(g, Delegators) + SumFunctionOnSet(s, Delegators)
  <2>1. \A d \in Delegators : g[d] \in Int /\ s[d] \in Int /\ b[d] = g[d] + s[d]
    BY <1>1, <1>2
  <2>2. QED BY <2>1, SumOfSums, StargateAssumption
<1>5. QED
  BY <1>3, <1>4 DEF WeightWithin, WeightLeaving, WeightStarting, SumFunction,
                    now, before, comes, goes

-----------------------------------------------------------------------------
(* How the sums change with the delegations. *)

LEMMA SameSums ==
  ASSUME NEW v, NEW p, delegation' = delegation
  PROVE  /\ WeightWithin(v, p)' = WeightWithin(v, p)
         /\ WeightStarting(v, p)' = WeightStarting(v, p)
         /\ WeightLeaving(v, p)' = WeightLeaving(v, p)
BY DEF WeightWithin, WeightStarting, WeightLeaving, Within, StartsAt, EndsBefore, Delegates,
       weight

LEMMA IsDelegation ==
  ASSUME NEW v, NEW s, NEW e
  PROVE  [validator |-> v, start |-> s, end |-> e] # NoDelegation
<1>1. "start" \in DOMAIN [validator |-> v, start |-> s, end |-> e]
  OBVIOUS
<1>2. "start" \notin DOMAIN NoDelegation
  BY DEF NoDelegation
<1>3. QED BY <1>1, <1>2

LEMMA StartPeriodIn ==
  ASSUME TypeOK, PeriodsInOrder, NEW v \in Validators
  PROVE  /\ StartPeriod(v) \in Periods /\ StartPeriod(v) \in Nat
         /\ completed[v] + 1 <= StartPeriod(v) /\ StartPeriod(v) <= completed[v] + 2
<1>1. completed[v] \in 0 .. MaxPeriod /\ (status[v] = "queued" => completed[v] = 0)
  BY DEF TypeOK, PeriodsInOrder
<1>2. QED BY <1>1, StargateAssumption DEF StartPeriod, Periods

LEMMA AddedDelegation ==
  ASSUME TypeOK, NEW d \in Delegators, NEW v \in Validators, addDelegator(d, v)
  PROVE  /\ d \notin Delegates /\ Delegates' = Delegates \cup {d}
         /\ delegation'[d] = [validator |-> v, start |-> StartPeriod(v), end |-> Never]
         /\ \A c \in Delegators \ {d} : delegation'[c] = delegation[c]
<1>1. /\ d \notin Delegates
      /\ delegation' = [delegation EXCEPT ![d] =
           [validator |-> v, start |-> StartPeriod(v), end |-> Never]]
  BY DEF addDelegator
<1>2. delegation = [c \in Delegators |-> delegation[c]]
  BY DEF TypeOK
<1>3. /\ delegation'[d] = [validator |-> v, start |-> StartPeriod(v), end |-> Never]
      /\ \A c \in Delegators \ {d} : delegation'[c] = delegation[c]
  BY <1>1, <1>2
<1>4. delegation'[d] # NoDelegation
  BY <1>3, IsDelegation
<1>5. Delegates' = Delegates \cup {d}
  BY <1>3, <1>4 DEF Delegates
<1>6. QED BY <1>1, <1>3, <1>5

LEMMA AddedSums ==
  ASSUME TypeOK, PeriodsInOrder, NEW d \in Delegators, NEW v \in Validators, addDelegator(d, v),
         NEW u \in Validators, NEW p \in Periods
  PROVE  /\ WeightStarting(u, p)' = WeightStarting(u, p) +
              (IF u = v /\ p = StartPeriod(v) THEN weight(d) ELSE 0)
         /\ WeightLeaving(u, p)' = WeightLeaving(u, p)
         /\ p < StartPeriod(v) \/ u # v => WeightWithin(u, p)' = WeightWithin(u, p)
<1> DEFINE f == [c \in Delegators |-> IF Within(c, u, p) THEN weight(c) ELSE 0]
           g == [c \in Delegators |-> IF StartsAt(c, u, p) THEN weight(c) ELSE 0]
           h == [c \in Delegators |-> IF EndsBefore(c, u, p) THEN weight(c) ELSE 0]
           f1 == [c \in Delegators |-> IF Within(c, u, p)' THEN weight(c) ELSE 0]
           g1 == [c \in Delegators |-> IF StartsAt(c, u, p)' THEN weight(c) ELSE 0]
           h1 == [c \in Delegators |-> IF EndsBefore(c, u, p)' THEN weight(c) ELSE 0]
<1>1. /\ d \notin Delegates /\ Delegates' = Delegates \cup {d}
      /\ delegation'[d].validator = v /\ delegation'[d].start = StartPeriod(v)
      /\ delegation'[d].end = Never
      /\ \A c \in Delegators \ {d} : delegation'[c] = delegation[c]
  <2>1. delegation'[d] = [validator |-> v, start |-> StartPeriod(v), end |-> Never]
    BY AddedDelegation
  <2>2. /\ delegation'[d].validator = v /\ delegation'[d].start = StartPeriod(v)
        /\ delegation'[d].end = Never
    BY <2>1
  <2>3. QED BY <2>2, AddedDelegation
<1>2. StartPeriod(v) \in Nat /\ p \in Int /\ p # Never + 1 /\ Never \in Nat
  BY StartPeriodIn, StargateAssumption DEF Periods, Never
<1>3. \A c \in Delegators \ {d} : f1[c] = f[c] /\ g1[c] = g[c] /\ h1[c] = h[c]
  BY <1>1 DEF Within, StartsAt, EndsBefore
<1>4. /\ f[d] = 0 /\ g[d] = 0 /\ h[d] = 0 /\ h1[d] = 0
      /\ g1[d] = IF u = v /\ p = StartPeriod(v) THEN weight(d) ELSE 0
      /\ p < StartPeriod(v) \/ u # v => f1[d] = 0
  <2>1. ~Within(d, u, p) /\ ~StartsAt(d, u, p) /\ ~EndsBefore(d, u, p)
    BY <1>1 DEF Within, StartsAt, EndsBefore
  <2>2. ~EndsBefore(d, u, p)'
    BY <1>1, <1>2 DEF EndsBefore
  <2>3. StartsAt(d, u, p)' <=> u = v /\ p = StartPeriod(v)
    BY <1>1 DEF StartsAt
  <2>4. p < StartPeriod(v) \/ u # v => ~Within(d, u, p)'
    BY <1>1, <1>2 DEF Within
  <2>5. QED BY <2>1, <2>2, <2>3, <2>4
<1>5. \A c \in Delegators : /\ f[c] \in Int /\ f1[c] \in Int /\ g[c] \in Int /\ g1[c] \in Int
                            /\ h[c] \in Int /\ h1[c] \in Int
  BY WeightNat
<1>6. /\ WeightWithin(u, p) = SumFunctionOnSet(f, Delegators)
      /\ WeightStarting(u, p) = SumFunctionOnSet(g, Delegators)
      /\ WeightLeaving(u, p) = SumFunctionOnSet(h, Delegators)
  BY DEF WeightWithin, WeightStarting, WeightLeaving, SumFunction
<1>7. /\ WeightWithin(u, p)' = SumFunctionOnSet(f1, Delegators)
      /\ WeightStarting(u, p)' = SumFunctionOnSet(g1, Delegators)
      /\ WeightLeaving(u, p)' = SumFunctionOnSet(h1, Delegators)
  BY DEF WeightWithin, WeightStarting, WeightLeaving, SumFunction, weight
<1> HIDE DEF f, g, h, f1, g1, h1
<1>8. SumFunctionOnSet(g1, Delegators) = SumFunctionOnSet(g, Delegators) + g1[d] - g[d]
  BY <1>3, <1>5, SumReplaced, StargateAssumption
<1>9. SumFunctionOnSet(h1, Delegators) = SumFunctionOnSet(h, Delegators)
  BY <1>3, <1>4, SumSame, StargateAssumption
<1>10. p < StartPeriod(v) \/ u # v =>
         SumFunctionOnSet(f1, Delegators) = SumFunctionOnSet(f, Delegators)
  BY <1>3, <1>4, SumSame, StargateAssumption
<1>11. WeightStarting(u, p) \in Int /\ weight(d) \in Int
  BY WeightsNat, WeightNat
<1>12. QED BY <1>4, <1>6, <1>7, <1>8, <1>9, <1>10, <1>11

LEMMA DisabledDelegation ==
  ASSUME TypeOK, NEW d \in Delegators, disableAutoRenew(d), NEW v \in Validators,
         delegation[d].validator = v
  PROVE  /\ d \in Delegates /\ Delegates' = Delegates
         /\ delegation'[d].validator = v /\ delegation'[d].start = delegation[d].start
         /\ delegation[d].end = Never /\ delegation'[d].end = completed[v] + 1
         /\ delegation'[d] \in
              [validator : Validators, start : Periods, end : Periods \cup {Never}]
         /\ \A c \in Delegators \ {d} : delegation'[c] = delegation[c]
<1>1. /\ d \in Delegates /\ delegation[d].end = Never
      /\ delegation' = [delegation EXCEPT ![d].end = completed[v] + 1]
  BY DEF disableAutoRenew, CanSignal
<1>2. delegation = [c \in Delegators |-> delegation[c]]
  BY DEF TypeOK
<1>3. delegation[d] \in [validator : Validators, start : Periods, end : Periods \cup {Never}]
  BY <1>1 DEF TypeOK, Delegates
<1>4. completed[v] + 1 \in Periods
  <2>1. completed[v] \in 0 .. MaxPeriod
    BY DEF TypeOK
  <2>2. QED BY <2>1, StargateAssumption DEF Periods
<1>5. /\ delegation'[d] = [delegation[d] EXCEPT !.end = completed[v] + 1]
      /\ \A c \in Delegators \ {d} : delegation'[c] = delegation[c]
  BY <1>1, <1>2
<1>6. /\ delegation'[d].validator = v /\ delegation'[d].start = delegation[d].start
      /\ delegation'[d].end = completed[v] + 1
      /\ delegation'[d] \in [validator : Validators, start : Periods, end : Periods \cup {Never}]
  BY <1>3, <1>4, <1>5
<1>7. delegation'[d] # NoDelegation
  <2>1. delegation'[d] = [validator |-> v, start |-> delegation[d].start, end |-> completed[v] + 1]
    BY <1>6
  <2>2. QED BY <2>1, IsDelegation
<1>8. Delegates' = Delegates
  BY <1>1, <1>5, <1>7 DEF Delegates
<1>9. QED BY <1>1, <1>5, <1>6, <1>8

LEMMA DisabledSums ==
  ASSUME TypeOK, PeriodsInOrder, NEW d \in Delegators, disableAutoRenew(d), NEW v \in Validators,
         delegation[d].validator = v, NEW u \in Validators, NEW p \in Periods
  PROVE  /\ WeightStarting(u, p)' = WeightStarting(u, p)
         /\ WeightLeaving(u, p)' = WeightLeaving(u, p) +
              (IF u = v /\ p = completed[v] + 2 THEN weight(d) ELSE 0)
         /\ p <= completed[v] + 1 \/ u # v => WeightWithin(u, p)' = WeightWithin(u, p)
<1> DEFINE f == [c \in Delegators |-> IF Within(c, u, p) THEN weight(c) ELSE 0]
           g == [c \in Delegators |-> IF StartsAt(c, u, p) THEN weight(c) ELSE 0]
           h == [c \in Delegators |-> IF EndsBefore(c, u, p) THEN weight(c) ELSE 0]
           f1 == [c \in Delegators |-> IF Within(c, u, p)' THEN weight(c) ELSE 0]
           g1 == [c \in Delegators |-> IF StartsAt(c, u, p)' THEN weight(c) ELSE 0]
           h1 == [c \in Delegators |-> IF EndsBefore(c, u, p)' THEN weight(c) ELSE 0]
<1>1. /\ d \in Delegates /\ Delegates' = Delegates
      /\ delegation'[d].validator = v /\ delegation'[d].start = delegation[d].start
      /\ delegation[d].end = Never /\ delegation'[d].end = completed[v] + 1
      /\ \A c \in Delegators \ {d} : delegation'[c] = delegation[c]
  BY DisabledDelegation
<1>2. /\ completed[v] \in Nat /\ p \in Int /\ p <= Never /\ p # Never + 1 /\ Never \in Nat
  BY StargateAssumption DEF Periods, Never, TypeOK
<1>3. \A c \in Delegators \ {d} : f1[c] = f[c] /\ g1[c] = g[c] /\ h1[c] = h[c]
  BY <1>1 DEF Within, StartsAt, EndsBefore
<1>4. /\ g1[d] = g[d] /\ h[d] = 0
      /\ h1[d] = IF u = v /\ p = completed[v] + 2 THEN weight(d) ELSE 0
      /\ p <= completed[v] + 1 \/ u # v => f1[d] = f[d]
  <2>1. ~EndsBefore(d, u, p)
    BY <1>1, <1>2 DEF EndsBefore
  <2>2. EndsBefore(d, u, p)' <=> u = v /\ p = completed[v] + 2
    BY <1>1, <1>2 DEF EndsBefore
  <2>3. StartsAt(d, u, p)' <=> StartsAt(d, u, p)
    BY <1>1 DEF StartsAt
  <2>4. p <= completed[v] + 1 \/ u # v => (Within(d, u, p)' <=> Within(d, u, p))
    BY <1>1, <1>2 DEF Within
  <2>5. QED BY <2>1, <2>2, <2>3, <2>4
<1>5. \A c \in Delegators : /\ f[c] \in Int /\ f1[c] \in Int /\ g[c] \in Int /\ g1[c] \in Int
                            /\ h[c] \in Int /\ h1[c] \in Int
  BY WeightNat
<1>6. /\ WeightWithin(u, p) = SumFunctionOnSet(f, Delegators)
      /\ WeightStarting(u, p) = SumFunctionOnSet(g, Delegators)
      /\ WeightLeaving(u, p) = SumFunctionOnSet(h, Delegators)
  BY DEF WeightWithin, WeightStarting, WeightLeaving, SumFunction
<1>7. /\ WeightWithin(u, p)' = SumFunctionOnSet(f1, Delegators)
      /\ WeightStarting(u, p)' = SumFunctionOnSet(g1, Delegators)
      /\ WeightLeaving(u, p)' = SumFunctionOnSet(h1, Delegators)
  BY DEF WeightWithin, WeightStarting, WeightLeaving, SumFunction, weight
<1> HIDE DEF f, g, h, f1, g1, h1
<1>8. SumFunctionOnSet(g1, Delegators) = SumFunctionOnSet(g, Delegators)
  BY <1>3, <1>4, SumSame, StargateAssumption
<1>9. SumFunctionOnSet(h1, Delegators) = SumFunctionOnSet(h, Delegators) + h1[d] - h[d]
  BY <1>3, <1>5, SumReplaced, StargateAssumption
<1>10. p <= completed[v] + 1 \/ u # v =>
         SumFunctionOnSet(f1, Delegators) = SumFunctionOnSet(f, Delegators)
  BY <1>3, <1>4, SumSame, StargateAssumption
<1>11. WeightLeaving(u, p) \in Int /\ weight(d) \in Int
  BY WeightsNat, WeightNat
<1>12. QED BY <1>4, <1>6, <1>7, <1>8, <1>9, <1>10, <1>11

-----------------------------------------------------------------------------
(* What a claim makes of the weights. *)

LEMMA Cursor ==
  ASSUME TypeOK, NEW v \in Validators
  PROVE  /\ populatedWeights[v] \in Nat /\ completed[v] \in 0 .. MaxPeriod
         /\ populatedWeights[v] <= completed[v]
         /\ 0 .. completed[v] \subseteq Periods /\ Periods \subseteq Nat
         /\ completed[v] + 2 \in Periods
<1>1. /\ populatedWeights[v] \in Nat /\ completed[v] \in 0 .. MaxPeriod
      /\ populatedWeights[v] <= completed[v]
  BY DEF TypeOK
<1>2. QED BY <1>1, StargateAssumption DEF Periods

\* One period: if the weight before covers those within, so does the next one.
LEMMA NextCovers ==
  ASSUME TypeOK, PeriodsInOrder, WeightsCover, NEW v \in Validators, NEW p \in Periods,
         p > populatedWeights[v], NEW before \in Nat, before >= WeightWithin(v, p - 1)
  PROVE  LET new == before + weights[v][p] - reductions[v][p]
             w == IF new = 0 THEN weights[v][p] ELSE new
         IN /\ new >= 0
            /\ w \in Nat /\ w >= WeightWithin(v, p)
            /\ before = WeightWithin(v, p - 1) /\ weights[v][p] = WeightStarting(v, p)
                 => w = WeightWithin(v, p)
<1> DEFINE new == before + weights[v][p] - reductions[v][p]
<1>1. /\ weights[v][p] \in Nat /\ reductions[v][p] \in Nat
      /\ reductions[v][p] = WeightLeaving(v, p) /\ weights[v][p] >= WeightStarting(v, p)
  BY DEF TypeOK, WeightsCover
<1>2. p \in Nat /\ p >= 1
  BY Cursor
<1>3. WeightWithin(v, p) + WeightLeaving(v, p) = WeightWithin(v, p - 1) + WeightStarting(v, p)
  BY <1>2, Balance
<1>4. /\ WeightWithin(v, p) \in Nat /\ WeightWithin(v, p - 1) \in Nat
      /\ WeightStarting(v, p) \in Nat /\ WeightLeaving(v, p) \in Nat
  BY WeightsNat
<1>5. WeightStarting(v, p) <= WeightWithin(v, p)
  BY StartingBelow
<1>6. new \in Int /\ new >= WeightWithin(v, p)
  BY <1>1, <1>3, <1>4
<1>7. ASSUME before = WeightWithin(v, p - 1), weights[v][p] = WeightStarting(v, p)
      PROVE  new = WeightWithin(v, p)
  BY <1>1, <1>3, <1>4, <1>7
<1> HIDE DEF new
<1>8. QED BY <1>1, <1>4, <1>5, <1>6, <1>7 DEF new

LEMMA UpdatedCovers ==
  ASSUME TypeOK, PeriodsInOrder, WeightsCover, NEW v \in Validators,
         NEW last \in Nat, last <= completed[v]
  PROVE  LET w == updatedWeights(v, last)
         IN /\ w \in [Periods -> Nat]
            /\ NoUnderflow(v, last, w)
            /\ \A p \in Periods :
                 /\ p <= last \/ p <= populatedWeights[v] => w[p] >= WeightWithin(v, p)
                 /\ p \notin Unpopulated(v, last) => w[p] = weights[v][p]
<1> DEFINE w == updatedWeights(v, last)
           a == populatedWeights[v]
           Fits(p) == w[p - 1] + weights[v][p] >= reductions[v][p]
           Bad == {p \in a + 1 .. last : ~(w[p] \in Nat /\ w[p] >= WeightWithin(v, p) /\ Fits(p))}
<1>1. /\ w = [p \in Periods |-> w[p]]
      /\ \A p \in Periods : w[p] = NextWeight(w, weights[v], reductions[v], a, last, p)
  BY UpdatedWeights
<1>2. /\ a \in Nat /\ completed[v] \in 0 .. MaxPeriod /\ a <= completed[v]
      /\ a + 1 .. last \subseteq 0 .. last /\ 0 .. last \subseteq Periods /\ Periods \subseteq Nat
      /\ a \in Periods
  BY Cursor
<1>3. \A p \in Periods : weights[v][p] \in Nat /\ reductions[v][p] \in Nat
  BY DEF TypeOK
<1> HIDE DEF w, a
<1>4. \A p \in Periods : p \notin a + 1 .. last => w[p] = weights[v][p]
  BY <1>1 DEF NextWeight
<1>5. \A p \in Periods : p <= a => w[p] = weights[v][p] /\ w[p] >= WeightWithin(v, p)
  BY <1>2, <1>4 DEF WeightsCover, a
<1>6. Bad = {}
  <2>1. SUFFICES ASSUME Bad # {} PROVE FALSE
    OBVIOUS
  <2>2. Bad \in SUBSET (0 .. last)
    BY <1>2
  <2>3. PICK p \in Bad : \A q \in Bad : p <= q
    BY <2>1, <2>2, LeastNumber
  <2>4. p \in a + 1 .. last /\ p \in Periods /\ p - 1 \in Periods /\ p - 1 \notin Bad /\ p > a
    BY <1>2, <2>3
  <2>5. w[p - 1] \in Nat /\ w[p - 1] >= WeightWithin(v, p - 1)
    <3>1. CASE p - 1 <= a
      BY <1>3, <1>5, <2>4, <3>1
    <3>2. CASE p - 1 \in a + 1 .. last
      BY <2>4, <3>2
    <3>3. QED BY <1>2, <2>4, <3>1, <3>2
  <2>6. w[p] = LET new == w[p - 1] + weights[v][p] - reductions[v][p]
               IN IF new = 0 THEN weights[v][p] ELSE new
    BY <1>1, <2>4 DEF NextWeight
  <2>7. PICK before \in Nat : before = w[p - 1]
    BY <2>5
  <2>8. /\ before + weights[v][p] - reductions[v][p] >= 0
        /\ w[p] \in Nat /\ w[p] >= WeightWithin(v, p)
    BY <2>4, <2>5, <2>6, <2>7, NextCovers DEF a
  <2>9. Fits(p)
    BY <1>3, <2>4, <2>7, <2>8
  <2>10. QED BY <2>3, <2>8, <2>9
<1>7. \A p \in a + 1 .. last : w[p] \in Nat /\ w[p] >= WeightWithin(v, p) /\ Fits(p)
  BY <1>6
<1>8. w \in [Periods -> Nat]
  <2>1. \A p \in Periods : w[p] \in Nat
    BY <1>3, <1>4, <1>7
  <2>2. QED BY <1>1, <2>1
<1>9. NoUnderflow(v, last, w)
  BY <1>7 DEF NoUnderflow, Unpopulated, a
<1>10. \A p \in Periods : p <= last \/ p <= a => w[p] >= WeightWithin(v, p)
  BY <1>2, <1>5, <1>7
<1>11. QED BY <1>4, <1>8, <1>9, <1>10 DEF w, a, Unpopulated

LEMMA UpdatedExact ==
  ASSUME TypeOK, PeriodsInOrder, WeightsCover, WeightsExact, NEW v \in Validators,
         NEW last \in Nat, last <= completed[v], populatedWeights[v] <= last
  PROVE  \A p \in Periods : p <= last => updatedWeights(v, last)[p] = WeightWithin(v, p)
<1> DEFINE w == updatedWeights(v, last)
           a == populatedWeights[v]
           Bad == {p \in a + 1 .. last : w[p] # WeightWithin(v, p)}
<1>1. \A p \in Periods : w[p] = NextWeight(w, weights[v], reductions[v], a, last, p)
  BY UpdatedWeights
<1>2. /\ a \in Nat /\ completed[v] \in 0 .. MaxPeriod /\ a <= completed[v]
      /\ a + 1 .. last \subseteq 0 .. last /\ 0 .. last \subseteq Periods /\ Periods \subseteq Nat
      /\ a \in Periods
  BY Cursor
<1> HIDE DEF w, a
<1>3. \A p \in Periods : p <= a => w[p] = WeightWithin(v, p)
  BY <1>1, <1>2 DEF NextWeight, WeightsExact, a
<1>4. Bad = {}
  <2>1. SUFFICES ASSUME Bad # {} PROVE FALSE
    OBVIOUS
  <2>2. Bad \in SUBSET (0 .. last)
    BY <1>2
  <2>3. PICK p \in Bad : \A q \in Bad : p <= q
    BY <2>1, <2>2, LeastNumber
  <2>4. p \in a + 1 .. last /\ p \in Periods /\ p - 1 \in Periods /\ p - 1 \notin Bad /\ p > a
    BY <1>2, <2>3
  <2>5. w[p - 1] = WeightWithin(v, p - 1)
    <3>1. CASE p - 1 <= a
      BY <1>3, <2>4, <3>1
    <3>2. CASE p - 1 \in a + 1 .. last
      BY <2>4, <3>2
    <3>3. QED BY <1>2, <2>4, <3>1, <3>2
  <2>6. w[p] = LET new == w[p - 1] + weights[v][p] - reductions[v][p]
               IN IF new = 0 THEN weights[v][p] ELSE new
    BY <1>1, <2>4 DEF NextWeight
  <2>7. PICK before \in Nat : before = w[p - 1]
    BY <2>5, WeightsNat
  <2>8. before >= WeightWithin(v, p - 1)
    BY <2>5, <2>7, WeightsNat
  <2>9. weights[v][p] = WeightStarting(v, p)
    BY <2>4 DEF WeightsExact, a
  <2>10. w[p] = WeightWithin(v, p)
    BY <2>4, <2>5, <2>6, <2>7, <2>8, <2>9, NextCovers DEF a
  <2>11. QED BY <2>3, <2>10
<1>5. QED BY <1>2, <1>3, <1>4 DEF w

-----------------------------------------------------------------------------
(* What the invariant says of claims and payments. *)

LEMMA ClaimPeriods ==
  ASSUME TypeOK, PeriodsInOrder, NEW d \in Delegates, NEW v \in Validators,
         delegation[d].validator = v, HasClaim(d)
  PROVE  /\ maxClaimable(d) \in 1 .. completed[v] /\ maxClaimable(d) \in Nat
         /\ maxClaimable(d) <= delegation[d].end
         /\ firstClaimable(d) \in Nat /\ firstClaimable(d) <= maxClaimable(d)
         /\ firstClaimable(d) > claims[d]
         /\ \/ firstClaimable(d) = claims[d] + 1
            \/ firstClaimable(d) = delegation[d].start /\ claims[d] = 0
         /\ \A p \in firstClaimable(d) .. maxClaimable(d) : p \in Periods
         /\ \A p \in firstClaimable(d) .. maxClaimable(d) : Within(d, v, p)
<1>1. /\ d \in Delegators /\ delegation[d].start \in Nat /\ delegation[d].end \in Nat
  BY DelegateType
<1>2. /\ completed[v] \in Nat /\ 0 .. completed[v] \subseteq Periods
  BY Cursor
<1>3. /\ 1 <= delegation[d].start /\ delegation[d].start <= delegation[d].end
      /\ claims[d] \in Nat /\ (claims[d] = 0 \/ delegation[d].start <= claims[d])
  <2>1. claims[d] \in 0 .. MaxPeriod
    BY <1>1 DEF TypeOK
  <2>2. QED BY <2>1, StargateAssumption DEF PeriodsInOrder
<1>4. /\ maxClaimable(d) = IF delegation[d].end < completed[v] THEN delegation[d].end
                                                                ELSE completed[v]
      /\ firstClaimable(d) = IF claims[d] = 0 THEN delegation[d].start ELSE claims[d] + 1
      /\ maxClaimable(d) # 0 /\ firstClaimable(d) <= maxClaimable(d)
  BY DEF maxClaimable, firstClaimable, HasClaim
<1>5. /\ maxClaimable(d) \in 1 .. completed[v] /\ maxClaimable(d) \in Nat
      /\ maxClaimable(d) <= delegation[d].end /\ firstClaimable(d) \in Nat
      /\ firstClaimable(d) > claims[d] /\ firstClaimable(d) >= delegation[d].start
  <2>1. maxClaimable(d) \in Nat
    BY <1>1, <1>2, <1>4
  <2>2. QED BY <1>1, <1>2, <1>3, <1>4, <2>1
<1>6. ASSUME NEW p \in firstClaimable(d) .. maxClaimable(d)
      PROVE  p \in Periods /\ Within(d, v, p)
  <2>1. p \in 0 .. completed[v] /\ delegation[d].start <= p /\ p <= delegation[d].end
    BY <1>1, <1>2, <1>5
  <2>2. QED BY <1>2, <2>1 DEF Within
<1>7. \/ firstClaimable(d) = claims[d] + 1
      \/ firstClaimable(d) = delegation[d].start /\ claims[d] = 0
  BY <1>4
<1>8. firstClaimable(d) <= maxClaimable(d)
  BY <1>4
<1>9. QED BY <1>5, <1>6, <1>7, <1>8, Zenon

LEMMA ClaimedPeriods ==
  ASSUME TypeOK, PeriodsInOrder, NEW d \in Delegates
  PROVE  \A p \in delegation[d].start .. claims[d] : p \in Periods /\ p <= claims[d]
<1>1. claims[d] \in 0 .. MaxPeriod /\ delegation[d].start \in Nat
  BY DelegateType DEF TypeOK, Delegates
<1>2. QED BY <1>1, StargateAssumption DEF Periods

LEMMA BlocksNobody == TypeOK /\ PeriodsInOrder /\ WeightsCover => NeverBlocked
<1> SUFFICES ASSUME TypeOK, PeriodsInOrder, WeightsCover, NEW d \in Delegates, HasClaim(d)
             PROVE  LET v == delegation[d].validator
                        w == updatedWeights(v, maxClaimable(d))
                    IN /\ NoUnderflow(v, maxClaimable(d), w)
                       /\ \A p \in firstClaimable(d) .. maxClaimable(d) : w[p] >= weight(d)
  BY DEF NeverBlocked
<1>1. PICK v \in Validators : delegation[d].validator = v
  BY DelegateType
<1>2. PICK last \in Nat : last = maxClaimable(d)
  BY <1>1, ClaimPeriods
<1> DEFINE w == updatedWeights(v, last)
<1>3. last <= completed[v] /\ d \in Delegators
  <2>1. maxClaimable(d) \in 1 .. completed[v]
    BY <1>1, ClaimPeriods
  <2>2. QED BY <1>2, <2>1, DelegateType
<1>4. /\ NoUnderflow(v, last, w) /\ w \in [Periods -> Nat]
      /\ \A p \in Periods : p <= last => w[p] >= WeightWithin(v, p)
  BY <1>3, UpdatedCovers
<1> HIDE DEF w
<1>5. ASSUME NEW p \in firstClaimable(d) .. last PROVE w[p] >= weight(d)
  <2>1. p \in Periods /\ Within(d, v, p) /\ p <= last
    BY <1>1, <1>2, ClaimPeriods
  <2>2. w[p] >= WeightWithin(v, p) /\ weight(d) <= WeightWithin(v, p)
    BY <1>3, <1>4, <2>1, WithinCovers
  <2>3. w[p] \in Int /\ weight(d) \in Int /\ WeightWithin(v, p) \in Int
    BY <1>3, <1>4, <2>1, WeightNat, WeightsNat
  <2>4. QED BY <2>2, <2>3
<1>6. QED BY <1>1, <1>2, <1>4, <1>5 DEF w

\* Fair shares add up to no more than there is: over the weight that all have.
LEMMA StaysSolvent == TypeOK /\ PeriodsInOrder /\ PaidFairly => Solvent
<1> SUFFICES ASSUME TypeOK, PeriodsInOrder, PaidFairly, NEW v \in Validators, NEW p \in Periods
             PROVE  PaidAt(v, p) <= DelegatorsRewards[v][p]
  BY DEF Solvent
<1> DEFINE Got(d) == IF d \in Delegates /\ delegation[d].validator = v THEN paid[d][p] ELSE 0
           Had(d) == IF Within(d, v, p) THEN weight(d) ELSE 0
           f == [d \in Delegators |-> Got(d)]
           g == [d \in Delegators |-> Had(d)]
           all == WeightWithin(v, p)
           R == DelegatorsRewards[v][p]
<1>1. R \in Nat /\ all \in Nat
  BY StargateAssumption, WeightsNat
<1>2. PaidAt(v, p) = SumFunctionOnSet(f, Delegators) /\ all = SumFunctionOnSet(g, Delegators)
  BY DEF PaidAt, WeightWithin, SumFunction
<1>3. \A d \in Delegators : Got(d) \in Nat /\ Had(d) \in Nat
  BY WeightNat DEF TypeOK
<1>4. ASSUME NEW d \in Delegators, Got(d) # 0
      PROVE  Within(d, v, p) /\ weight(d) > 0 /\ Got(d) * all <= R * weight(d)
  <2>1. d \in Delegates /\ delegation[d].validator = v /\ Got(d) = paid[d][p]
    BY <1>4
  <2>2. /\ delegation[d].start <= p /\ p <= claims[d] /\ weight(d) > 0
        /\ claims[d] <= delegation[d].end
        /\ Got(d) * all <= R * weight(d)
    BY <1>4, <2>1 DEF PaidFairly, PeriodsInOrder
  <2>3. p \in Int /\ claims[d] \in Int /\ delegation[d].end \in Int
    <3>1. claims[d] \in 0 .. MaxPeriod
      BY DEF TypeOK
    <3>2. QED BY <2>1, <3>1, DelegateType, StargateAssumption DEF Periods
  <2>4. QED BY <2>1, <2>2, <2>3 DEF Within
<1>5. CASE \E d \in Delegators : Got(d) # 0
  <2>1. all > 0
    <3>1. PICK d \in Delegators : Within(d, v, p) /\ weight(d) > 0
      BY <1>4, <1>5
    <3>2. QED BY <1>1, <3>1, WithinCovers, WeightNat
  <2>2. \A d \in Delegators : all * Got(d) <= R * Had(d)
    <3>1. TAKE d \in Delegators
    <3>2. CASE Got(d) = 0
      <4>1. \A i \in Nat : i * 0 = 0
        OBVIOUS
      <4>2. \A i \in Nat, j \in Nat : i * j \in Nat
        OBVIOUS
      <4>3. all * Got(d) = 0 /\ R * Had(d) \in Nat
        BY <1>1, <1>3, <3>2, <4>1, <4>2
      <4>4. QED BY <4>3
    <3>3. CASE Got(d) # 0
      <4>1. Had(d) = weight(d) /\ Got(d) * all <= R * weight(d)
        BY <1>4, <3>3
      <4>2. \A i \in Nat, j \in Nat : i * j = j * i
        OBVIOUS
      <4>3. all * Got(d) = Got(d) * all
        BY <1>1, <1>3, <4>2
      <4>4. QED BY <4>1, <4>3
    <3>4. QED BY <3>2, <3>3
  <2> HIDE DEF Got, Had, all, R
  <2>3. \A d \in Delegators : f[d] \in Int /\ g[d] \in Int /\ all * f[d] <= R * g[d]
    BY <1>3, <2>2
  <2>4. all * SumFunctionOnSet(f, Delegators) <= R * SumFunctionOnSet(g, Delegators)
    BY <1>1, <2>3, SumScaled, StargateAssumption
  <2>5. SumFunctionOnSet(f, Delegators) \in Int
    BY <2>3, SumInt, StargateAssumption
  <2>6. all * PaidAt(v, p) <= R * all /\ PaidAt(v, p) \in Int
    BY <1>2, <2>4, <2>5
  <2>7. PaidAt(v, p) <= R
    BY <1>1, <2>1, <2>6, Cancelled
  <2>8. QED BY <2>7 DEF R
<1>6. CASE \A d \in Delegators : Got(d) = 0
  <2>1. PaidAt(v, p) = 0
    BY <1>2, <1>6, SumOfNothing, StargateAssumption
  <2>2. QED BY <1>1, <2>1
<1>7. QED BY <1>5, <1>6

-----------------------------------------------------------------------------
(* The invariant holds initially and the staker keeps it. *)

Inv == IInv /\ (inStep => StepInv)

LEMMA NobodyWithin ==
  ASSUME NEW v, NEW p, Delegates = {}
  PROVE  WeightWithin(v, p) = 0 /\ WeightStarting(v, p) = 0 /\ WeightLeaving(v, p) = 0
<1> DEFINE f == [d \in Delegators |-> IF Within(d, v, p) THEN weight(d) ELSE 0]
           g == [d \in Delegators |-> IF StartsAt(d, v, p) THEN weight(d) ELSE 0]
           h == [d \in Delegators |-> IF EndsBefore(d, v, p) THEN weight(d) ELSE 0]
<1>1. \A d \in Delegators : f[d] = 0 /\ g[d] = 0 /\ h[d] = 0
  BY DEF Within, StartsAt, EndsBefore
<1>2. /\ SumFunctionOnSet(f, Delegators) = 0 /\ SumFunctionOnSet(g, Delegators) = 0
      /\ SumFunctionOnSet(h, Delegators) = 0
  BY <1>1, SumOfNothing, StargateAssumption
<1>3. QED BY <1>2 DEF WeightWithin, WeightStarting, WeightLeaving, SumFunction

LEMMA InitInv == Init => Inv
<1> SUFFICES ASSUME Init PROVE Inv
  OBVIOUS
<1>1. /\ 0 \in Periods /\ 0 \in 0 .. MaxPeriod
  BY StargateAssumption DEF Periods
<1>2. TypeOK
  BY <1>1 DEF Init, TypeOK
<1>3. Delegates = {}
  BY DEF Init, Delegates
<1>4. \A v, p : WeightWithin(v, p) = 0 /\ WeightStarting(v, p) = 0 /\ WeightLeaving(v, p) = 0
  BY <1>3, NobodyWithin
<1>5. \A v \in Validators, p \in Periods :
        weights[v][p] = 0 /\ reductions[v][p] = 0 /\ rewards[v][p] = 0 /\ populatedWeights[v] = 0
  BY DEF Init
<1>6. PeriodsInOrder
  BY <1>3 DEF Init, PeriodsInOrder
<1>7. WeightsCover
  BY <1>4, <1>5 DEF WeightsCover
<1>8. RewardsKnown
  BY <1>5 DEF RewardsKnown
<1>9. PaidFairly
  BY DEF Init, PaidFairly
<1>10. WeightsExact
  BY <1>4, <1>5 DEF WeightsExact
<1>11. SharesPaid
  BY <1>3 DEF SharesPaid
<1>12. QED BY <1>2, <1>6, <1>7, <1>8, <1>9, <1>10, <1>11 DEF Inv, IInv, StepInv

LEMMA ContractKept ==
  ASSUME Inv, UNCHANGED <<delegation, weights, reductions, claimVars>>, TypeOK', PeriodsInOrder'
  PROVE  Inv'
<1>1. \A v, p : /\ WeightWithin(v, p)' = WeightWithin(v, p)
                /\ WeightStarting(v, p)' = WeightStarting(v, p)
                /\ WeightLeaving(v, p)' = WeightLeaving(v, p)
  BY SameSums
<1>2. Delegates' = Delegates
  BY DEF Delegates
<1>3. WeightsCover' /\ RewardsKnown' /\ PaidFairly'
  BY <1>1, <1>2 DEF Inv, IInv, WeightsCover, RewardsKnown, PaidFairly, claimVars, weight
<1>4. inStep' => StepInv'
  BY <1>1, <1>2 DEF Inv, StepInv, WeightsExact, SharesPaid, claimVars, weight
<1>5. QED BY <1>3, <1>4 DEF Inv, IInv

LEMMA ActivateKeeps ==
  ASSUME Inv, NEW v \in Validators, Activate(v) PROVE Inv'
<1>1. /\ UNCHANGED <<completed, delegation, weights, reductions, claimVars>>
      /\ status' = [status EXCEPT ![v] = "active"]
  BY DEF Activate
<1>2. TypeOK'
  BY <1>1 DEF Inv, IInv, TypeOK, claimVars
<1>3. PeriodsInOrder'
  BY <1>1 DEF Inv, IInv, TypeOK, PeriodsInOrder, Delegates, claimVars
<1>4. QED BY <1>1, <1>2, <1>3, ContractKept

LEMMA PeriodEndsKeeps ==
  ASSUME Inv, NEW v \in Validators, PeriodEnds(v) PROVE Inv'
<1>1. /\ UNCHANGED <<delegation, weights, reductions, claimVars>>
      /\ completed[v] < MaxPeriod /\ completed' = [completed EXCEPT ![v] = completed[v] + 1]
  BY DEF PeriodEnds
<1>2. PICK s \in {"active", "exited"} : status' = [status EXCEPT ![v] = s]
  BY DEF PeriodEnds
<1>3. TypeOK /\ PeriodsInOrder
  BY DEF Inv, IInv
<1>4. /\ completed' \in [Validators -> 0 .. MaxPeriod]
      /\ \A u \in Validators : completed'[u] >= completed[u]
      /\ \A u \in Validators : completed[u] \in Nat /\ completed'[u] \in Nat
  <2>1. completed \in [Validators -> 0 .. MaxPeriod]
    BY <1>3 DEF TypeOK
  <2>2. QED BY <1>1, <2>1, StargateAssumption
<1>5. status' \in [Validators -> {"queued", "active", "exited"}]
  BY <1>2, <1>3 DEF TypeOK
<1>6. \A u \in Validators : populatedWeights'[u] <= completed'[u]
  BY <1>1, <1>3, <1>4 DEF TypeOK, claimVars
<1>7. TypeOK'
  BY <1>1, <1>3, <1>4, <1>5, <1>6 DEF TypeOK, claimVars
<1>8. ASSUME NEW u \in Validators, status'[u] = "queued" PROVE completed'[u] = 0
  <2>1. u # v /\ status[u] = "queued"
    BY <1>2, <1>3, <1>8 DEF TypeOK
  <2>2. completed[u] = 0
    BY <1>3, <2>1 DEF PeriodsInOrder
  <2>3. QED BY <1>1, <1>3, <2>1, <2>2 DEF TypeOK
<1>9. Delegates' = Delegates /\ claims' = claims /\ delegation' = delegation
  BY <1>1 DEF Delegates, claimVars
<1>10. ASSUME NEW d \in Delegates
       PROVE  LET u == delegation[d].validator
              IN /\ 1 <= delegation[d].start /\ delegation[d].start <= completed'[u] + 2
                 /\ delegation[d].start <= delegation[d].end
                 /\ delegation[d].end = Never \/ delegation[d].end <= completed'[u] + 1
                 /\ claims[d] <= completed'[u] /\ claims[d] <= delegation[d].end
                 /\ claims[d] = 0 \/ delegation[d].start <= claims[d]
  <2>1. PICK u \in Validators : u = delegation[d].validator
    BY <1>3, DelegateType
  <2>2. /\ delegation[d].start \in Int /\ delegation[d].end \in Int /\ claims[d] \in Int
        /\ d \in Delegators
    <3>1. d \in Delegators
      BY DEF Delegates
    <3>2. claims[d] \in 0 .. MaxPeriod
      BY <1>3, <3>1 DEF TypeOK
    <3>3. QED BY <1>3, <3>1, <3>2, DelegateType, StargateAssumption
  <2>3. /\ 1 <= delegation[d].start /\ delegation[d].start <= completed[u] + 2
        /\ delegation[d].start <= delegation[d].end
        /\ delegation[d].end = Never \/ delegation[d].end <= completed[u] + 1
        /\ claims[d] <= completed[u] /\ claims[d] <= delegation[d].end
        /\ claims[d] = 0 \/ delegation[d].start <= claims[d]
    BY <1>3, <2>1 DEF PeriodsInOrder
  <2>4. completed'[u] >= completed[u] /\ completed[u] \in Int /\ completed'[u] \in Int
    BY <1>4
  <2>5. QED BY <2>1, <2>2, <2>3, <2>4
<1>11. PeriodsInOrder'
  BY <1>3, <1>8, <1>9, <1>10 DEF PeriodsInOrder
<1>12. QED BY <1>1, <1>7, <1>11, ContractKept

-----------------------------------------------------------------------------
(* A new delegation: it concerns periods beyond the cursor and all claims. *)

LEMMA AddKeeps ==
  ASSUME Inv, NEW d \in Delegators, NEW v \in Validators, addDelegator(d, v) PROVE Inv'
<1> DEFINE start == StartPeriod(v)
<1>1. TypeOK /\ PeriodsInOrder /\ WeightsCover /\ RewardsKnown /\ PaidFairly
  BY DEF Inv, IInv
<1>2. /\ start \in Periods /\ start \in Nat
      /\ completed[v] + 1 <= start /\ start <= completed[v] + 2
      /\ completed[v] \in Nat /\ populatedWeights[v] \in Nat /\ populatedWeights[v] < start
      /\ Never \in Nat /\ start <= Never /\ Periods \subseteq Nat
  <2>1. Never \in Nat /\ \A p \in Periods : p \in Nat /\ p <= Never
    BY StargateAssumption DEF Periods, Never
  <2>2. QED BY <1>1, <2>1, StartPeriodIn, Cursor
<1>3. /\ d \notin Delegates /\ Delegates' = Delegates \cup {d}
      /\ delegation'[d] = [validator |-> v, start |-> start, end |-> Never]
      /\ \A c \in Delegators \ {d} : delegation'[c] = delegation[c]
  BY <1>1, AddedDelegation
<1>4. /\ UNCHANGED <<status, completed, reductions, rewards, populatedWeights, claims,
                  paid, inStep>>
      /\ weights' = [weights EXCEPT ![v][start] = weights[v][start] + weight(d)]
      /\ delegation' = [delegation EXCEPT ![d] =
           [validator |-> v, start |-> start, end |-> Never]]
  BY DEF addDelegator, stakerVars, claimVars
<1>5. \A u \in Validators, p \in Periods :
        /\ WeightStarting(u, p)' = WeightStarting(u, p) +
             (IF u = v /\ p = start THEN weight(d) ELSE 0)
        /\ WeightLeaving(u, p)' = WeightLeaving(u, p)
        /\ p < start \/ u # v => WeightWithin(u, p)' = WeightWithin(u, p)
  BY <1>1, AddedSums
<1> HIDE DEF start
<1>6. weight(d) \in Nat
  BY WeightNat
<1>7. /\ weights' \in [Validators -> [Periods -> Nat]]
      /\ \A u \in Validators, p \in Periods : weights'[u][p] =
           IF u = v /\ p = start THEN weights[u][p] + weight(d) ELSE weights[u][p]
  <2>1. weights \in [Validators -> [Periods -> Nat]]
    BY <1>1 DEF TypeOK
  <2>2. weights[v][start] + weight(d) \in Nat
    BY <1>2, <1>6, <2>1
  <2>3. QED BY <1>2, <1>4, <2>1, <2>2
<1>8. TypeOK'
  <2>1. delegation' \in [Delegators -> {NoDelegation} \cup
          [validator : Validators, start : Periods, end : Periods \cup {Never}]]
    <3>1. [validator |-> v, start |-> start, end |-> Never] \in
            [validator : Validators, start : Periods, end : Periods \cup {Never}]
      BY <1>2
    <3>2. QED BY <1>1, <1>4, <3>1 DEF TypeOK
  <2>2. QED BY <1>1, <1>4, <1>7, <2>1 DEF TypeOK
<1>9. claims[d] = 0
  BY <1>1, <1>3 DEF PeriodsInOrder
<1>10. PeriodsInOrder'
  <2>1. ASSUME NEW c \in Delegates'
        PROVE  LET u == delegation'[c].validator
               IN /\ 1 <= delegation'[c].start /\ delegation'[c].start <= completed[u] + 2
                  /\ delegation'[c].start <= delegation'[c].end
                  /\ delegation'[c].end = Never \/ delegation'[c].end <= completed[u] + 1
                  /\ claims[c] <= completed[u] /\ claims[c] <= delegation'[c].end
                  /\ claims[c] = 0 \/ delegation'[c].start <= claims[c]
    <3>1. CASE c = d
      <4>1. /\ delegation'[c].validator = v /\ delegation'[c].start = start
            /\ delegation'[c].end = Never
        BY <1>3, <3>1
      <4>2. QED BY <1>2, <1>9, <3>1, <4>1
    <3>2. CASE c # d
      <4>1. c \in Delegates /\ delegation'[c] = delegation[c]
        BY <1>3, <2>1, <3>2 DEF Delegates
      <4>2. QED BY <1>1, <4>1 DEF PeriodsInOrder
    <3>3. QED BY <3>1, <3>2
  <2>2. QED BY <1>1, <1>3, <1>4, <2>1 DEF PeriodsInOrder
<1>11. WeightsCover'
  <2>1. ASSUME NEW u \in Validators, NEW p \in Periods
        PROVE  /\ reductions[u][p] = WeightLeaving(u, p)'
               /\ p > populatedWeights[u] => weights'[u][p] >= WeightStarting(u, p)'
               /\ p <= populatedWeights[u] => weights'[u][p] >= WeightWithin(u, p)'
    <3>1. /\ reductions[u][p] = WeightLeaving(u, p)
          /\ p > populatedWeights[u] => weights[u][p] >= WeightStarting(u, p)
          /\ p <= populatedWeights[u] => weights[u][p] >= WeightWithin(u, p)
      BY <1>1 DEF WeightsCover
    <3>2. /\ WeightStarting(u, p) \in Nat /\ weights[u][p] \in Nat /\ p \in Nat
      BY <1>1, <1>2, WeightsNat DEF TypeOK
    <3>3. CASE u = v /\ p = start
      BY <1>2, <1>5, <1>6, <1>7, <3>1, <3>2, <3>3
    <3>4. CASE ~(u = v /\ p = start)
      <4>1. /\ WeightStarting(u, p)' = WeightStarting(u, p) /\ weights'[u][p] = weights[u][p]
            /\ WeightLeaving(u, p)' = WeightLeaving(u, p)
            /\ p <= populatedWeights[u] => WeightWithin(u, p)' = WeightWithin(u, p)
        BY <1>2, <1>5, <1>7, <3>2, <3>4
      <4>2. QED BY <3>1, <4>1
    <3>5. QED BY <3>3, <3>4
  <2>2. QED BY <1>4, <2>1 DEF WeightsCover
<1>12. RewardsKnown'
  BY <1>1, <1>4 DEF RewardsKnown
<1>13. ASSUME NEW c \in Delegates, NEW p \in Periods, p <= claims[c], NEW u \in Validators,
              u = delegation[c].validator
       PROVE  WeightWithin(u, p)' = WeightWithin(u, p)
  <2>1. claims[c] <= completed[u] /\ completed[u] \in Nat
    BY <1>1, <1>13, Cursor DEF PeriodsInOrder
  <2>2. claims[c] \in Int
    <3>1. claims[c] \in 0 .. MaxPeriod
      BY <1>1 DEF TypeOK, Delegates
    <3>2. QED BY <3>1
  <2>3. p < start \/ u # v
    BY <1>2, <1>13, <2>1, <2>2
  <2>4. QED BY <1>5, <2>3
<1>14. PaidFairly'
  <2>1. ASSUME NEW c \in Delegators, NEW p \in Periods, paid[c][p] # 0
        PROVE  /\ c \in Delegates' /\ delegation'[c].start <= p /\ p <= claims[c]
               /\ weight(c) > 0
               /\ \A u \in Validators : u = delegation'[c].validator =>
                    paid[c][p] * WeightWithin(u, p)' <= DelegatorsRewards[u][p] * weight(c)
    <3>1. /\ c \in Delegates /\ delegation[c].start <= p /\ p <= claims[c] /\ weight(c) > 0
          /\ \A u \in Validators : u = delegation[c].validator =>
               paid[c][p] * WeightWithin(u, p) <= DelegatorsRewards[u][p] * weight(c)
      BY <1>1, <2>1 DEF PaidFairly
    <3>2. c # d /\ c \in Delegates' /\ delegation'[c] = delegation[c]
      BY <1>3, <3>1
    <3>3. QED BY <1>13, <3>1, <3>2
  <2>2. QED BY <1>4, <2>1 DEF PaidFairly, weight
<1>15. ASSUME inStep' PROVE WeightsExact' /\ SharesPaid'
  <2>1. WeightsExact /\ SharesPaid
    BY <1>4, <1>15 DEF Inv, StepInv
  <2>2. ASSUME NEW u \in Validators, NEW p \in Periods
        PROVE  /\ p > populatedWeights[u] =>
                    weights'[u][p] = WeightStarting(u, p)' /\ rewards[u][p] = 0
               /\ p <= populatedWeights[u] =>
                    /\ weights'[u][p] = WeightWithin(u, p)'
                    /\ weights'[u][p] # 0 => rewards[u][p] = DelegatorsRewards[u][p]
    <3>1. /\ p > populatedWeights[u] =>
               weights[u][p] = WeightStarting(u, p) /\ rewards[u][p] = 0
          /\ p <= populatedWeights[u] =>
               /\ weights[u][p] = WeightWithin(u, p)
               /\ weights[u][p] # 0 => rewards[u][p] = DelegatorsRewards[u][p]
      BY <2>1 DEF WeightsExact
    <3>2. p \in Nat /\ populatedWeights[u] \in Nat
      BY <1>1, <1>2 DEF TypeOK
    <3>3. CASE u = v /\ p = start
      BY <1>2, <1>5, <1>7, <3>1, <3>2, <3>3
    <3>4. CASE ~(u = v /\ p = start)
      <4>1. /\ WeightStarting(u, p)' = WeightStarting(u, p) /\ weights'[u][p] = weights[u][p]
            /\ p <= populatedWeights[u] => WeightWithin(u, p)' = WeightWithin(u, p)
        <5>1. WeightStarting(u, p) \in Nat
          BY WeightsNat
        <5>2. QED BY <1>2, <1>5, <1>7, <3>2, <3>4, <5>1
      <4>2. QED BY <3>1, <4>1
    <3>5. QED BY <3>3, <3>4
  <2>3. WeightsExact'
    BY <1>4, <2>2 DEF WeightsExact
  <2>4. ASSUME NEW c \in Delegates', NEW u \in Validators, u = delegation'[c].validator,
               NEW p \in delegation'[c].start .. claims[c], WeightWithin(u, p)' > 0
        PROVE  paid[c][p] = (DelegatorsRewards[u][p] * weight(c)) \div WeightWithin(u, p)'
    <3>1. CASE c = d
      <4>1. delegation'[c].start = start
        BY <1>3, <3>1
      <4>2. QED BY <1>2, <1>9, <2>4, <3>1, <4>1
    <3>2. CASE c # d
      <4>1. c \in Delegates /\ delegation'[c] = delegation[c] /\ u = delegation[c].validator
        BY <1>3, <2>4, <3>2 DEF Delegates
      <4>2. p \in delegation[c].start .. claims[c]
        BY <2>4, <4>1
      <4>3. p \in Periods /\ p <= claims[c]
        BY <1>1, <4>1, <4>2, ClaimedPeriods
      <4>4. WeightWithin(u, p)' = WeightWithin(u, p)
        BY <1>13, <4>1, <4>3
      <4>5. QED BY <2>1, <2>4, <4>1, <4>2, <4>4 DEF SharesPaid
    <3>3. QED BY <3>1, <3>2
  <2>5. \A c \in Delegates' : delegation'[c].validator \in Validators
    <3>1. delegation'[d].validator = v
      BY <1>3
    <3>2. \A c \in Delegates' \ {d} : c \in Delegates /\ delegation'[c] = delegation[c]
      BY <1>3 DEF Delegates
    <3>3. QED BY <1>1, <3>1, <3>2, DelegateType
  <2>6. SharesPaid'
    BY <1>4, <2>4, <2>5 DEF SharesPaid, weight
  <2>7. QED BY <2>3, <2>6
<1>16. QED BY <1>8, <1>10, <1>11, <1>12, <1>14, <1>15 DEF Inv, IInv, StepInv

-----------------------------------------------------------------------------
(* A delegation's end: the reduction is beyond the cursor, too. *)

LEMMA DisableKeeps ==
  ASSUME Inv, NEW d \in Delegators, disableAutoRenew(d) PROVE Inv'
<1>1. TypeOK /\ PeriodsInOrder /\ WeightsCover /\ RewardsKnown /\ PaidFairly
  BY DEF Inv, IInv
<1>2. d \in Delegates
  BY DEF disableAutoRenew
<1>3. PICK v \in Validators : delegation[d].validator = v
  BY <1>1, <1>2, DelegateType
<1> DEFINE first == completed[v] + 2
<1>4. /\ first \in Periods /\ completed[v] \in Nat /\ populatedWeights[v] \in Nat
      /\ populatedWeights[v] <= completed[v] /\ Periods \subseteq Nat
  BY <1>1, Cursor
<1>5. /\ Delegates' = Delegates
      /\ delegation'[d].validator = v /\ delegation'[d].start = delegation[d].start
      /\ delegation[d].end = Never /\ delegation'[d].end = completed[v] + 1
      /\ delegation'[d] \in
           [validator : Validators, start : Periods, end : Periods \cup {Never}]
      /\ \A c \in Delegators \ {d} : delegation'[c] = delegation[c]
  BY <1>1, <1>3, DisabledDelegation
<1>6. /\ UNCHANGED <<status, completed, weights, rewards, populatedWeights, claims,
                  paid, inStep>>
      /\ delegation' = [delegation EXCEPT ![d].end = completed[v] + 1]
      /\ delegation[d].start <= completed[v] + 1
  BY <1>3 DEF disableAutoRenew, CanSignal, stakerVars, claimVars
<1>7. reductions' = [reductions EXCEPT ![v][first] = reductions[v][first] + weight(d)]
  <2>1. completed[v] + 1 + 1 = first
    BY <1>4
  <2>2. reductions' = [reductions EXCEPT ![v][completed[v] + 1 + 1] = @ + weight(d)]
    BY <1>3 DEF disableAutoRenew
  <2>3. QED BY <2>1, <2>2
<1>8. \A u \in Validators, p \in Periods :
        /\ WeightStarting(u, p)' = WeightStarting(u, p)
        /\ WeightLeaving(u, p)' = WeightLeaving(u, p) +
             (IF u = v /\ p = first THEN weight(d) ELSE 0)
        /\ p <= completed[v] + 1 \/ u # v => WeightWithin(u, p)' = WeightWithin(u, p)
  BY <1>1, <1>3, DisabledSums
<1> HIDE DEF first
<1>9. weight(d) \in Nat
  BY WeightNat
<1>10. /\ reductions' \in [Validators -> [Periods -> Nat]]
       /\ \A u \in Validators, p \in Periods : reductions'[u][p] =
            IF u = v /\ p = first THEN reductions[u][p] + weight(d) ELSE reductions[u][p]
  <2>1. reductions \in [Validators -> [Periods -> Nat]]
    BY <1>1 DEF TypeOK
  <2>2. reductions[v][first] + weight(d) \in Nat
    BY <1>4, <1>9, <2>1
  <2>3. QED BY <1>4, <1>7, <2>1, <2>2
<1>11. TypeOK'
  <2>1. delegation' \in [Delegators -> {NoDelegation} \cup
          [validator : Validators, start : Periods, end : Periods \cup {Never}]]
    <3>1. /\ delegation \in [Delegators -> {NoDelegation} \cup
               [validator : Validators, start : Periods, end : Periods \cup {Never}]]
          /\ delegation' = [c \in Delegators |-> delegation'[c]]
      BY <1>1, <1>6 DEF TypeOK
    <3>2. QED BY <1>5, <3>1
  <2>2. QED BY <1>1, <1>6, <1>10, <2>1 DEF TypeOK
<1>12. \A c \in Delegators : claims[c] \in Nat
  <2>1. \A c \in Delegators : claims[c] \in 0 .. MaxPeriod
    BY <1>1 DEF TypeOK
  <2>2. QED BY <2>1
<1>13. PeriodsInOrder'
  <2>1. ASSUME NEW c \in Delegates
        PROVE  LET u == delegation'[c].validator
               IN /\ 1 <= delegation'[c].start /\ delegation'[c].start <= completed[u] + 2
                  /\ delegation'[c].start <= delegation'[c].end
                  /\ delegation'[c].end = Never \/ delegation'[c].end <= completed[u] + 1
                  /\ claims[c] <= completed[u] /\ claims[c] <= delegation'[c].end
                  /\ claims[c] = 0 \/ delegation'[c].start <= claims[c]
    <3>1. LET u == delegation[c].validator
          IN /\ 1 <= delegation[c].start /\ delegation[c].start <= completed[u] + 2
             /\ delegation[c].start <= delegation[c].end
             /\ delegation[c].end = Never \/ delegation[c].end <= completed[u] + 1
             /\ claims[c] <= completed[u] /\ claims[c] <= delegation[c].end
             /\ claims[c] = 0 \/ delegation[c].start <= claims[c]
      BY <1>1 DEF PeriodsInOrder
    <3>2. CASE c = d
      <4>1. claims[d] \in Nat /\ delegation[d].start \in Nat
        BY <1>1, <1>2, <1>12, DelegateType
      <4>2. QED BY <1>3, <1>4, <1>5, <1>6, <3>1, <3>2, <4>1
    <3>3. CASE c # d
      <4>1. delegation'[c] = delegation[c]
        BY <1>5, <3>3 DEF Delegates
      <4>2. QED BY <3>1, <4>1
    <3>4. QED BY <3>2, <3>3
  <2>2. QED BY <1>1, <1>5, <1>6, <2>1 DEF PeriodsInOrder
<1>14. \A u \in Validators, p \in Periods :
         p <= populatedWeights[u] => WeightWithin(u, p)' = WeightWithin(u, p)
  <2>1. TAKE u \in Validators, p \in Periods
  <2>2. HAVE p <= populatedWeights[u]
  <2>3. p \in Nat
    BY <1>4
  <2>4. p <= completed[v] + 1 \/ u # v
    BY <1>4, <2>2, <2>3
  <2>5. QED BY <1>8, <2>4
<1>15. WeightsCover'
  <2>1. ASSUME NEW u \in Validators, NEW p \in Periods
        PROVE  reductions'[u][p] = WeightLeaving(u, p)'
    <3>1. reductions[u][p] = WeightLeaving(u, p) /\ WeightLeaving(u, p) \in Nat
      BY <1>1, WeightsNat DEF WeightsCover
    <3>2. QED BY <1>8, <1>10, <3>1
  <2>2. QED BY <1>1, <1>6, <1>8, <1>14, <2>1 DEF WeightsCover
<1>16. RewardsKnown'
  BY <1>1, <1>6 DEF RewardsKnown
<1>17. ASSUME NEW c \in Delegates, NEW p \in Periods, p <= claims[c], NEW u \in Validators,
              u = delegation[c].validator
       PROVE  WeightWithin(u, p)' = WeightWithin(u, p)
  <2>1. claims[c] <= completed[u] /\ claims[c] \in Nat
    BY <1>1, <1>12, <1>17 DEF PeriodsInOrder, Delegates
  <2>2. p <= completed[v] + 1 \/ u # v
    BY <1>4, <1>17, <2>1
  <2>3. QED BY <1>8, <2>2
<1>18. \A c \in Delegates : /\ delegation'[c].validator = delegation[c].validator
                            /\ delegation'[c].start = delegation[c].start
  BY <1>3, <1>5 DEF Delegates
<1>19. PaidFairly'
  <2>1. ASSUME NEW c \in Delegators, NEW p \in Periods, paid[c][p] # 0
        PROVE  /\ c \in Delegates /\ delegation'[c].start <= p /\ p <= claims[c]
               /\ weight(c) > 0
               /\ \A u \in Validators : u = delegation'[c].validator =>
                    paid[c][p] * WeightWithin(u, p)' <= DelegatorsRewards[u][p] * weight(c)
    <3>1. /\ c \in Delegates /\ delegation[c].start <= p /\ p <= claims[c] /\ weight(c) > 0
          /\ \A u \in Validators : u = delegation[c].validator =>
               paid[c][p] * WeightWithin(u, p) <= DelegatorsRewards[u][p] * weight(c)
      BY <1>1, <2>1 DEF PaidFairly
    <3>2. QED BY <1>17, <1>18, <3>1
  <2>2. QED BY <1>5, <1>6, <2>1 DEF PaidFairly, weight
<1>20. ASSUME inStep' PROVE WeightsExact' /\ SharesPaid'
  <2>1. WeightsExact /\ SharesPaid
    BY <1>6, <1>20 DEF Inv, StepInv
  <2>2. WeightsExact'
    BY <1>6, <1>8, <1>14, <2>1 DEF WeightsExact
  <2>3. ASSUME NEW c \in Delegates, NEW u \in Validators, u = delegation[c].validator,
               NEW p \in delegation[c].start .. claims[c], WeightWithin(u, p)' > 0
        PROVE  paid[c][p] = (DelegatorsRewards[u][p] * weight(c)) \div WeightWithin(u, p)'
    <3>1. p \in Periods /\ p <= claims[c]
      BY <1>1, ClaimedPeriods
    <3>2. WeightWithin(u, p)' = WeightWithin(u, p)
      BY <1>17, <2>3, <3>1
    <3>3. QED BY <2>1, <2>3, <3>2 DEF SharesPaid
  <2>4. \A c \in Delegates : delegation[c].validator \in Validators
    BY <1>1, DelegateType
  <2>5. SharesPaid'
    BY <1>5, <1>6, <1>18, <2>3, <2>4 DEF SharesPaid, weight
  <2>6. QED BY <2>2, <2>5
<1>21. QED BY <1>11, <1>13, <1>15, <1>16, <1>19, <1>20 DEF Inv, IInv, StepInv

-----------------------------------------------------------------------------
(* A claim. *)

LEMMA ShareIs ==
  ASSUME NEW d \in Delegators, NEW all \in Nat, NEW r \in Nat
  PROVE  /\ calculatePeriodRewards(d, all, r) \in Nat
         /\ calculatePeriodRewards(d, all, r) * all <= r * weight(d)
         /\ calculatePeriodRewards(d, all, r) # 0 => weight(d) > 0
         /\ all # 0 => calculatePeriodRewards(d, all, r) = (r * weight(d)) \div all
<1>1. weight(d) \in Nat
  BY WeightNat
<1>2. \A i, j \in Nat : i * j \in Nat
  OBVIOUS
<1>3. r * weight(d) \in Nat
  BY <1>1, <1>2
<1>4. CASE all = 0
  <2>1. calculatePeriodRewards(d, all, r) = 0 /\ 0 * all = 0
    BY <1>4 DEF calculatePeriodRewards
  <2>2. QED BY <1>3, <1>4, <2>1
<1>5. CASE all # 0
  <2>1. calculatePeriodRewards(d, all, r) = (r * weight(d)) \div all
    BY <1>5 DEF calculatePeriodRewards
  <2>2. PICK i \in Nat : i = r * weight(d)
    BY <1>3
  <2>3. (i \div all) \in Nat /\ (i \div all) * all <= i
    BY <1>5, Quotient
  <2>4. i = 0 => i \div all = 0
    <3>1. \A n \in Nat \ {0} : 0 \div n = 0
      OBVIOUS
    <3>2. QED BY <1>5, <3>1
  <2>5. weight(d) = 0 => i = 0
    BY <1>1, <2>2
  <2>6. QED BY <1>1, <1>5, <2>1, <2>2, <2>3, <2>4, <2>5
<1>6. QED BY <1>4, <1>5

\* What a claim changes, with names for what it goes by.
Claims(d, v, first, last, w, r) ==
  /\ d \in Delegates /\ HasClaim(d) /\ v = delegation[d].validator
  /\ first = firstClaimable(d) /\ last = maxClaimable(d)
  /\ w = updatedWeights(v, last)
  /\ r = [p \in Periods |-> IF p \in Unpopulated(v, last) /\ w[p] # 0
                            THEN DelegatorsRewards[v][p] ELSE rewards[v][p]]
  /\ inStep' = (inStep /\ populatedWeights[v] <= last)
  /\ claims' = [claims EXCEPT ![d] = last]
  /\ weights' = [weights EXCEPT ![v] = w]
  /\ rewards' = [rewards EXCEPT ![v] = r]
  /\ populatedWeights' = [populatedWeights EXCEPT ![v] = last]
  /\ paid' = [paid EXCEPT ![d] = [p \in Periods |-> paid[d][p] +
       IF p \in first .. last THEN calculatePeriodRewards(d, w[p], r[p]) ELSE 0]]
  /\ UNCHANGED <<status, completed, delegation, reductions>>

LEMMA ClaimIs ==
  ASSUME TypeOK, PeriodsInOrder, NEW d \in Delegators, claimRewards(d)
  PROVE  \E v \in Validators, first \in Nat, last \in Nat :
           \E w, r : Claims(d, v, first, last, w, r)
<1>1. d \in Delegates /\ HasClaim(d)
  BY DEF claimRewards
<1>2. PICK v \in Validators : v = delegation[d].validator
  BY <1>1, DelegateType
<1>3. PICK first \in Nat, last \in Nat : first = firstClaimable(d) /\ last = maxClaimable(d)
  <2>1. firstClaimable(d) \in Nat /\ maxClaimable(d) \in Nat
    BY <1>1, <1>2, ClaimPeriods
  <2>2. QED BY <2>1
<1>4. PICK w : w = updatedWeights(v, last)
  OBVIOUS
<1>5. PICK r : r = updatedRewards(v, last, w)
  OBVIOUS
<1> DEFINE share == [p \in Periods |->
                       IF p \in first .. last THEN calculatePeriodRewards(d, w[p], r[p]) ELSE 0]
<1>6. /\ inStep' = (inStep /\ populatedWeights[v] <= last)
      /\ claims' = [claims EXCEPT ![d] = last]
      /\ weights' = [weights EXCEPT ![v] = w]
      /\ rewards' = [rewards EXCEPT ![v] = r]
      /\ populatedWeights' = [populatedWeights EXCEPT ![v] = last]
      /\ paid' = [paid EXCEPT ![d] = [p \in Periods |-> paid[d][p] + share[p]]]
      /\ UNCHANGED <<status, completed, delegation, reductions>>
  BY <1>2, <1>3, <1>4, <1>5 DEF claimRewards, stakerVars
<1>7. [p \in Periods |-> paid[d][p] + share[p]] = [p \in Periods |-> paid[d][p] +
         IF p \in first .. last THEN calculatePeriodRewards(d, w[p], r[p]) ELSE 0]
  OBVIOUS
<1>8. r = [p \in Periods |-> IF p \in Unpopulated(v, last) /\ w[p] # 0
                             THEN DelegatorsRewards[v][p] ELSE rewards[v][p]]
  BY <1>5 DEF updatedRewards
<1>9. paid' = [paid EXCEPT ![d] = [p \in Periods |-> paid[d][p] +
         IF p \in first .. last THEN calculatePeriodRewards(d, w[p], r[p]) ELSE 0]]
  BY <1>6, <1>7
<1> HIDE DEF share
<1>10. QED
  <2>1. Claims(d, v, first, last, w, r)
    BY <1>1, <1>2, <1>3, <1>4, <1>6, <1>8, <1>9 DEF Claims
  <2>2. QED BY <2>1

LEMMA ClaimKeeps ==
  ASSUME Inv, NEW d \in Delegators, claimRewards(d) PROVE Inv'
<1>1. TypeOK /\ PeriodsInOrder /\ WeightsCover /\ RewardsKnown /\ PaidFairly
  BY DEF Inv, IInv
<1>2. PICK v \in Validators, first \in Nat, last \in Nat :
        \E w, r : Claims(d, v, first, last, w, r)
  BY <1>1, ClaimIs
<1>3. PICK w, r : Claims(d, v, first, last, w, r)
  BY <1>2
<1>4. /\ d \in Delegates /\ HasClaim(d) /\ delegation[d].validator = v
      /\ first = firstClaimable(d) /\ last = maxClaimable(d)
      /\ w = updatedWeights(v, last)
      /\ r = [p \in Periods |-> IF p \in Unpopulated(v, last) /\ w[p] # 0
                                THEN DelegatorsRewards[v][p] ELSE rewards[v][p]]
      /\ inStep' = (inStep /\ populatedWeights[v] <= last)
  BY <1>3 DEF Claims
<1>5. /\ claims' = [claims EXCEPT ![d] = last]
      /\ weights' = [weights EXCEPT ![v] = w]
      /\ rewards' = [rewards EXCEPT ![v] = r]
      /\ populatedWeights' = [populatedWeights EXCEPT ![v] = last]
      /\ paid' = [paid EXCEPT ![d] = [p \in Periods |-> paid[d][p] +
           IF p \in first .. last THEN calculatePeriodRewards(d, w[p], r[p]) ELSE 0]]
      /\ UNCHANGED <<status, completed, delegation, reductions>>
  BY <1>3 DEF Claims
<1>6. /\ last \in 1 .. completed[v] /\ last <= delegation[d].end
      /\ first <= last /\ first > claims[d]
      /\ first = claims[d] + 1 \/ (first = delegation[d].start /\ claims[d] = 0)
      /\ \A p \in first .. last : p \in Periods /\ Within(d, v, p)
  BY <1>1, <1>4, ClaimPeriods
<1>7. /\ populatedWeights[v] \in Nat /\ completed[v] \in 0 .. MaxPeriod /\ completed[v] \in Nat
      /\ 0 .. completed[v] \subseteq Periods /\ Periods \subseteq Nat
  <2>1. completed[v] \in 0 .. MaxPeriod
    BY <1>1 DEF TypeOK
  <2>2. QED BY <1>1, <2>1, Cursor
<1>8. /\ last <= completed[v]
      /\ w \in [Periods -> Nat]
      /\ \A p \in Periods :
           /\ p <= last \/ p <= populatedWeights[v] => w[p] >= WeightWithin(v, p)
           /\ p \notin Unpopulated(v, last) => w[p] = weights[v][p]
  <2>1. last <= completed[v]
    BY <1>6, <1>7
  <2>2. QED BY <1>1, <1>4, <2>1, UpdatedCovers
<1>9. \A p \in Periods :
        /\ r[p] \in {0, DelegatorsRewards[v][p]}
        /\ DelegatorsRewards[v][p] \in Nat /\ r[p] \in Nat /\ r[p] <= DelegatorsRewards[v][p]
  <2>1. \A p \in Periods : DelegatorsRewards[v][p] \in Nat
    BY StargateAssumption
  <2>2. \A p \in Periods : r[p] \in {0, DelegatorsRewards[v][p]}
    BY <1>1, <1>4 DEF RewardsKnown
  <2>3. QED BY <2>1, <2>2
<1>10. /\ Delegates' = Delegates
       /\ \A u, p : /\ WeightWithin(u, p)' = WeightWithin(u, p)
                    /\ WeightStarting(u, p)' = WeightStarting(u, p)
                    /\ WeightLeaving(u, p)' = WeightLeaving(u, p)
  BY <1>5, SameSums DEF Delegates
<1>11. \A u, p : WeightWithin(u, p) \in Nat /\ WeightStarting(u, p) \in Nat
  BY WeightsNat
<1>12. PICK share : share = [p \in Periods |->
         IF p \in first .. last THEN calculatePeriodRewards(d, w[p], r[p]) ELSE 0]
  OBVIOUS
<1>13. \A p \in Periods : /\ share[p] \in Nat
                          /\ p \notin first .. last => share[p] = 0
                          /\ share[p] * w[p] <= r[p] * weight(d)
                          /\ share[p] # 0 => weight(d) > 0
                          /\ p \in first .. last /\ w[p] # 0 =>
                               share[p] = (r[p] * weight(d)) \div w[p]
  <2>1. TAKE p \in Periods
  <2>2. PICK all \in Nat, R \in Nat : all = w[p] /\ R = r[p]
    BY <1>8, <1>9
  <2>3. CASE p \in first .. last
    <3>1. share[p] = calculatePeriodRewards(d, all, R)
      BY <1>12, <2>2, <2>3
    <3>2. QED BY <2>2, <2>3, <3>1, ShareIs
  <2>4. CASE p \notin first .. last
    <3>1. share[p] = 0
      BY <1>12, <2>4
    <3>2. \A i, j \in Nat : 0 * i = 0 /\ i * j \in Nat
      OBVIOUS
    <3>3. 0 * all = 0 /\ R * weight(d) \in Nat
      BY <3>2, WeightNat
    <3>4. QED BY <2>2, <2>4, <3>1, <3>3
  <2>5. QED BY <2>3, <2>4
<1>14. /\ paid \in [Delegators -> [Periods -> Nat]]
       /\ paid' = [paid EXCEPT ![d] = [p \in Periods |-> paid[d][p] + share[p]]]
  <2>1. [p \in Periods |-> paid[d][p] +
           IF p \in first .. last THEN calculatePeriodRewards(d, w[p], r[p]) ELSE 0]
          = [p \in Periods |-> paid[d][p] + share[p]]
    BY <1>12
  <2>2. QED BY <1>1, <1>5, <2>1 DEF TypeOK
<1>15. /\ paid' \in [Delegators -> [Periods -> Nat]]
       /\ \A p \in Periods : paid'[d][p] = paid[d][p] + share[p]
       /\ \A c \in Delegators \ {d} : paid'[c] = paid[c]
  <2>1. [p \in Periods |-> paid[d][p] + share[p]] \in [Periods -> Nat]
    BY <1>13, <1>14
  <2>2. QED BY <1>14, <2>1
<1>16. /\ claims \in [Delegators -> 0 .. MaxPeriod] /\ claims' \in [Delegators -> 0 .. MaxPeriod]
       /\ claims'[d] = last /\ \A c \in Delegators \ {d} : claims'[c] = claims[c]
  <2>1. claims \in [Delegators -> 0 .. MaxPeriod]
    BY <1>1 DEF TypeOK
  <2>2. last \in 0 .. MaxPeriod
    BY <1>6, <1>7, StargateAssumption
  <2>3. QED BY <1>5, <2>1, <2>2
<1>17. /\ weights'[v] = w /\ rewards'[v] = r /\ populatedWeights'[v] = last
       /\ weights' \in [Validators -> [Periods -> Nat]]
       /\ rewards' \in [Validators -> [Periods -> Nat]]
       /\ populatedWeights' \in [Validators -> Nat]
       /\ \A u \in Validators \ {v} : /\ weights'[u] = weights[u] /\ rewards'[u] = rewards[u]
                                      /\ populatedWeights'[u] = populatedWeights[u]
  <2>1. /\ weights \in [Validators -> [Periods -> Nat]]
        /\ rewards \in [Validators -> [Periods -> Nat]]
        /\ populatedWeights \in [Validators -> Nat]
    BY <1>1 DEF TypeOK
  <2>2. r \in [Periods -> Nat]
    BY <1>4, <1>9
  <2>3. QED BY <1>5, <1>8, <2>1, <2>2
<1>18. TypeOK'
  <2>1. \A u \in Validators : populatedWeights'[u] <= completed'[u]
    BY <1>1, <1>5, <1>8, <1>17 DEF TypeOK
  <2>2. inStep' \in BOOLEAN
    BY <1>4
  <2>3. QED BY <1>1, <1>5, <1>15, <1>16, <1>17, <2>1, <2>2 DEF TypeOK
<1>19. /\ delegation[d].start \in Nat /\ delegation[d].end \in Nat /\ claims[d] \in Nat
       /\ delegation[d].start <= last /\ claims[d] < last /\ last \in Nat
       /\ \A p \in first .. last : delegation[d].start <= p
  <2>1. delegation[d].start \in Nat /\ delegation[d].end \in Nat
    BY <1>1, <1>4, DelegateType
  <2>2. claims[d] \in Nat
    BY <1>16
  <2>3. \A p \in first .. last : delegation[d].start <= p
    BY <1>6 DEF Within
  <2>4. last \in first .. last
    BY <1>6
  <2>5. QED BY <1>6, <2>1, <2>2, <2>3, <2>4
<1>20. PeriodsInOrder'
  <2>1. ASSUME NEW c \in Delegates
        PROVE  LET u == delegation[c].validator
               IN /\ 1 <= delegation[c].start /\ delegation[c].start <= completed[u] + 2
                  /\ delegation[c].start <= delegation[c].end
                  /\ delegation[c].end = Never \/ delegation[c].end <= completed[u] + 1
                  /\ claims'[c] <= completed[u] /\ claims'[c] <= delegation[c].end
                  /\ claims'[c] = 0 \/ delegation[c].start <= claims'[c]
    <3>1. LET u == delegation[c].validator
          IN /\ 1 <= delegation[c].start /\ delegation[c].start <= completed[u] + 2
             /\ delegation[c].start <= delegation[c].end
             /\ delegation[c].end = Never \/ delegation[c].end <= completed[u] + 1
             /\ claims[c] <= completed[u] /\ claims[c] <= delegation[c].end
             /\ claims[c] = 0 \/ delegation[c].start <= claims[c]
      BY <1>1 DEF PeriodsInOrder
    <3>2. CASE c = d
      BY <1>4, <1>6, <1>8, <1>16, <1>19, <3>1, <3>2
    <3>3. CASE c # d
      <4>1. claims'[c] = claims[c]
        BY <1>16, <3>3 DEF Delegates
      <4>2. QED BY <3>1, <4>1
    <3>4. QED BY <3>2, <3>3
  <2>2. ASSUME NEW c \in Delegators \ Delegates PROVE claims'[c] = 0
    BY <1>1, <1>4, <1>16, <2>2 DEF PeriodsInOrder
  <2>3. QED BY <1>1, <1>5, <1>10, <2>1, <2>2 DEF PeriodsInOrder
<1>21. WeightsCover'
  <2>1. ASSUME NEW u \in Validators, NEW p \in Periods
        PROVE  /\ p > populatedWeights'[u] => weights'[u][p] >= WeightStarting(u, p)
               /\ p <= populatedWeights'[u] => weights'[u][p] >= WeightWithin(u, p)
    <3>1. /\ p > populatedWeights[u] => weights[u][p] >= WeightStarting(u, p)
          /\ p <= populatedWeights[u] => weights[u][p] >= WeightWithin(u, p)
      BY <1>1 DEF WeightsCover
    <3>2. CASE u # v
      BY <1>17, <3>1, <3>2
    <3>3. CASE u = v
      <4>1. p <= last => w[p] >= WeightWithin(v, p)
        BY <1>8
      <4>2. ASSUME p > last PROVE w[p] >= WeightStarting(v, p)
        <5>1. p \notin Unpopulated(v, last)
          BY <1>7, <1>19, <4>2 DEF Unpopulated
        <5>2. w[p] = weights[v][p]
          BY <1>8, <5>1
        <5>3. WeightStarting(v, p) <= WeightWithin(v, p)
          BY <1>1, StartingBelow
        <5>4. w[p] \in Int /\ WeightStarting(v, p) \in Int /\ WeightWithin(v, p) \in Int
          BY <1>8, <1>11
        <5>5. p > populatedWeights[v] \/ p <= populatedWeights[v]
          BY <1>7
        <5>6. QED BY <3>1, <3>3, <5>2, <5>3, <5>4, <5>5
      <4>3. QED BY <1>17, <3>3, <4>1, <4>2
    <3>4. QED BY <3>2, <3>3
  <2>2. \A u \in Validators, p \in Periods : reductions[u][p] = WeightLeaving(u, p)
    BY <1>1 DEF WeightsCover
  <2>3. QED BY <1>5, <1>10, <2>1, <2>2 DEF WeightsCover
<1>22. RewardsKnown'
  BY <1>1, <1>9, <1>17 DEF RewardsKnown
<1>23. PaidFairly'
  <2>1. ASSUME NEW c \in Delegators, NEW p \in Periods, paid'[c][p] # 0
        PROVE  /\ c \in Delegates /\ delegation[c].start <= p /\ p <= claims'[c]
               /\ weight(c) > 0
               /\ \A u \in Validators : u = delegation[c].validator =>
                    paid'[c][p] * WeightWithin(u, p) <= DelegatorsRewards[u][p] * weight(c)
    <3>1. paid[c][p] # 0 =>
            /\ c \in Delegates /\ delegation[c].start <= p /\ p <= claims[c] /\ weight(c) > 0
            /\ \A u \in Validators : u = delegation[c].validator =>
                 paid[c][p] * WeightWithin(u, p) <= DelegatorsRewards[u][p] * weight(c)
      BY <1>1 DEF PaidFairly
    <3>2. CASE c # d
      BY <1>15, <1>16, <2>1, <3>1, <3>2
    <3>3. CASE c = d /\ p \notin first .. last
      <4>1. paid'[c][p] = paid[c][p]
        BY <1>13, <1>14, <1>15, <3>3
      <4>2. p <= claims[c] => p <= claims'[c]
        BY <1>7, <1>16, <1>19, <3>3
      <4>3. QED BY <2>1, <3>1, <4>1, <4>2
    <3>4. CASE c = d /\ p \in first .. last
      <4>1. paid[d][p] = 0
        BY <1>6, <1>7, <1>19, <3>1, <3>4
      <4>2. paid'[d][p] = share[p]
        BY <1>13, <1>15, <4>1
      <4>3. weight(d) > 0 /\ p <= claims'[d] /\ delegation[d].start <= p
        BY <1>13, <1>16, <1>19, <2>1, <3>4, <4>2
      <4>4. w[p] >= WeightWithin(v, p)
        BY <1>8, <3>4
      <4>5. share[p] * WeightWithin(v, p) <= DelegatorsRewards[v][p] * weight(d)
        BY <1>8, <1>9, <1>11, <1>13, <4>4, WeightNat, ShareStaysFair
      <4>6. QED BY <1>4, <3>4, <4>2, <4>3, <4>5
    <3>5. QED BY <3>2, <3>3, <3>4
  <2>2. QED BY <1>5, <1>10, <2>1 DEF PaidFairly, weight
<1>24. ASSUME inStep' PROVE WeightsExact' /\ SharesPaid'
  <2>1. WeightsExact /\ SharesPaid /\ populatedWeights[v] <= last
    <3>1. inStep /\ populatedWeights[v] <= last
      BY <1>4, <1>24, Zenon
    <3>2. WeightsExact /\ SharesPaid
      BY <3>1 DEF Inv, StepInv
    <3>3. QED BY <3>1, <3>2
  <2>2. \A p \in Periods : p <= last => w[p] = WeightWithin(v, p)
    BY <1>1, <1>4, <1>8, <2>1, UpdatedExact
  <2>3. \A p \in Periods : p > last => /\ p > populatedWeights[v]
                                       /\ p \notin Unpopulated(v, last)
    <3>1. TAKE p \in Periods
    <3>2. /\ p \in Nat /\ last \in Nat /\ populatedWeights[v] \in Nat
          /\ populatedWeights[v] <= last
      BY <1>7, <1>19, <2>1
    <3>3. QED BY <3>2 DEF Unpopulated
  <2>4. \A p \in Periods : p <= last /\ w[p] # 0 => r[p] = DelegatorsRewards[v][p]
    <3>1. SUFFICES ASSUME NEW p \in Periods, p <= last, w[p] # 0
                   PROVE  r[p] = DelegatorsRewards[v][p]
      OBVIOUS
    <3>2. CASE p \in Unpopulated(v, last)
      BY <1>4, <3>1, <3>2
    <3>3. CASE p \notin Unpopulated(v, last)
      <4>1. p <= populatedWeights[v]
        BY <1>7, <1>19, <3>1, <3>3 DEF Unpopulated
      <4>2. w[p] = weights[v][p] /\ r[p] = rewards[v][p]
        BY <1>4, <1>8, <3>3
      <4>3. QED BY <2>1, <3>1, <4>1, <4>2 DEF WeightsExact
    <3>4. QED BY <3>2, <3>3
  <2>5. ASSUME NEW u \in Validators, NEW p \in Periods
        PROVE  /\ p > populatedWeights'[u] =>
                    weights'[u][p] = WeightStarting(u, p) /\ rewards'[u][p] = 0
               /\ p <= populatedWeights'[u] =>
                    /\ weights'[u][p] = WeightWithin(u, p)
                    /\ weights'[u][p] # 0 => rewards'[u][p] = DelegatorsRewards[u][p]
    <3>1. /\ p > populatedWeights[u] =>
               weights[u][p] = WeightStarting(u, p) /\ rewards[u][p] = 0
          /\ p <= populatedWeights[u] =>
               /\ weights[u][p] = WeightWithin(u, p)
               /\ weights[u][p] # 0 => rewards[u][p] = DelegatorsRewards[u][p]
      BY <2>1 DEF WeightsExact
    <3>2. CASE u # v
      BY <1>17, <3>1, <3>2
    <3>3. CASE u = v
      <4>1. ASSUME p > last PROVE w[p] = WeightStarting(v, p) /\ r[p] = 0
        <5>1. p > populatedWeights[v] /\ w[p] = weights[v][p] /\ r[p] = rewards[v][p]
          BY <1>4, <1>8, <2>3, <4>1
        <5>2. QED BY <3>1, <3>3, <5>1
      <4>2. QED BY <1>17, <2>2, <2>4, <3>3, <4>1
    <3>4. QED BY <3>2, <3>3
  <2>6. WeightsExact'
    BY <1>10, <2>5 DEF WeightsExact
  <2>7. ASSUME NEW c \in Delegates, NEW u \in Validators, u = delegation[c].validator,
               NEW p \in delegation[c].start .. claims'[c], WeightWithin(u, p) > 0
        PROVE  paid'[c][p] = (DelegatorsRewards[u][p] * weight(c)) \div WeightWithin(u, p)
    <3>1. CASE c # d
      <4>1. claims'[c] = claims[c] /\ paid'[c] = paid[c]
        BY <1>15, <1>16, <3>1 DEF Delegates
      <4>2. QED BY <2>1, <2>7, <4>1 DEF SharesPaid
    <3>2. CASE c = d /\ p \in first .. last
      <4>1. p \in Periods /\ u = v /\ p <= last
        BY <1>4, <1>6, <2>7, <3>2
      <4>2. w[p] = WeightWithin(v, p) /\ w[p] # 0 /\ r[p] = DelegatorsRewards[v][p]
        <5>1. w[p] = WeightWithin(v, p) /\ w[p] # 0
          BY <1>11, <2>2, <2>7, <4>1
        <5>2. QED BY <2>4, <4>1, <5>1
      <4>3. paid[d][p] = 0
        <5>1. paid[d][p] # 0 => p <= claims[d]
          BY <1>1, <4>1 DEF PaidFairly
        <5>2. QED BY <1>6, <1>7, <1>19, <3>2, <4>1, <5>1
      <4>4. paid'[d][p] = share[p]
        BY <1>13, <1>15, <4>1, <4>3
      <4>5. share[p] = (r[p] * weight(d)) \div w[p]
        BY <1>13, <3>2, <4>1, <4>2
      <4>6. QED BY <3>2, <4>1, <4>2, <4>4, <4>5
    <3>3. CASE c = d /\ p \notin first .. last
      <4>1. p \in delegation[d].start .. last
        BY <1>16, <2>7, <3>3
      <4>2. first = claims[d] + 1 /\ p \in delegation[d].start .. claims[d]
        BY <1>6, <1>19, <3>3, <4>1
      <4>3. p \in Periods
        BY <1>1, <1>4, <4>2, ClaimedPeriods
      <4>4. paid'[d][p] = paid[d][p]
        BY <1>13, <1>14, <1>15, <3>3, <4>3
      <4>5. QED BY <1>4, <2>1, <2>7, <3>3, <4>2, <4>4 DEF SharesPaid
    <3>4. QED BY <3>1, <3>2, <3>3
  <2>8. \A c \in Delegates : delegation[c].validator \in Validators
    BY <1>1, DelegateType
  <2>9. \A c \in Delegates : LET u == delegation[c].validator
                          IN \A p \in delegation[c].start .. claims'[c] :
                               WeightWithin(u, p) > 0 =>
                                 paid'[c][p] = (DelegatorsRewards[u][p] * weight(c))
                                                 \div WeightWithin(u, p)
    BY <2>7, <2>8
  <2>10. delegation' = delegation
    BY <1>5
  <2>11. SharesPaid'
    BY <1>10, <2>9, <2>10 DEF SharesPaid, weight
  <2>12. QED BY <2>6, <2>11
<1>25. QED BY <1>18, <1>20, <1>21, <1>22, <1>23, <1>24 DEF Inv, IInv, StepInv

-----------------------------------------------------------------------------
(* What holds always. *)

LEMMA NextInv == Inv /\ [Next]_vars => Inv'
<1>1. SUFFICES ASSUME Inv, [Next]_vars PROVE Inv'
  OBVIOUS
<1>2. ASSUME NEW v \in Validators, Activate(v) PROVE Inv'
  BY <1>1, <1>2, ActivateKeeps
<1>3. ASSUME NEW v \in Validators, PeriodEnds(v) PROVE Inv'
  BY <1>1, <1>3, PeriodEndsKeeps
<1>4. ASSUME NEW d \in Delegators, NEW v \in Validators, addDelegator(d, v) PROVE Inv'
  BY <1>1, <1>4, AddKeeps
<1>5. ASSUME NEW d \in Delegators, disableAutoRenew(d) PROVE Inv'
  BY <1>1, <1>5, DisableKeeps
<1>6. ASSUME NEW d \in Delegators, claimRewards(d) PROVE Inv'
  BY <1>1, <1>6, ClaimKeeps
<1>7. CASE UNCHANGED vars
  <2>1. UNCHANGED <<delegation, weights, reductions, claimVars, status, completed>>
    BY <1>7 DEF vars, stakerVars
  <2>2. TypeOK' /\ PeriodsInOrder'
    BY <1>1, <2>1 DEF Inv, IInv, TypeOK, PeriodsInOrder, Delegates, claimVars
  <2>3. QED BY <1>1, <2>1, <2>2, ContractKept
<1>8. QED BY <1>1, <1>2, <1>3, <1>4, <1>5, <1>6, <1>7 DEF Next

LEMMA InvHolds == Spec => []Inv
BY InitInv, NextInv, PTL DEF Spec

\* The cursors stay behind the validators' periods and no map of the contract goes
\* negative, in any order of the calls.
THEOREM StargateTypeCorrect == Spec => []TypeOK
<1>1. Inv => TypeOK
  BY DEF Inv, IInv
<1>2. QED BY <1>1, InvHolds, PTL

\* In any order of the claims, also where one sets populatedWeights back: the claims
\* for a period come to no more than the staker gave for it (vtho.transfer).
THEOREM ContractStaysSolvent == Spec => []Solvent
<1>1. Inv => Solvent
  BY StaysSolvent DEF Inv, IInv
<1>2. QED BY <1>1, InvHolds, PTL

\* In any order of the claims: the checked subtraction of _updateWeights never makes
\* one revert, and every period claimed has at least the claimer's weight.
THEOREM NobodyIsBlocked == Spec => []NeverBlocked
<1>1. Inv => NeverBlocked
  BY BlocksNobody DEF Inv, IInv
<1>2. QED BY <1>1, InvHolds, PTL

\* Claims of those whose delegation has not ended are in step by themselves.
LEMMA OnlyEndedLag ==
  ASSUME TypeOK, NEW d \in Delegates, NEW v \in Validators, delegation[d].validator = v,
         delegation[d].end >= completed[v]
  PROVE  populatedWeights[v] <= maxClaimable(d)
<1>1. /\ populatedWeights[v] <= completed[v]
      /\ completed[v] \in Nat /\ delegation[d].end \in Nat
  BY Cursor, DelegateType
<1>2. maxClaimable(d) = completed[v]
  BY <1>1 DEF maxClaimable
<1>3. QED BY <1>1, <1>2

\* As long as no claim was for less than had been populated already, whoever claims
\* gets the whole share of its weight in every period, in however many claims.
THEOREM EveryoneIsPaid == Spec => []PaidInFull
<1>1. Inv => PaidInFull
  BY DEF Inv, StepInv, PaidInFull
<1>2. QED BY <1>1, InvHolds, PTL

\* As long, too, the weight of a period whose rewards are there stays
\* (_updateWeights is "only called once per validator per staking period").
THEOREM PopulatedOnceInStep == Spec => OnceInStep
<1>1. ASSUME Inv, inStep, NEW d \in Delegators, NEW u \in Validators, addDelegator(d, u)
      PROVE  WeightsStay
  <2>1. TypeOK /\ PeriodsInOrder /\ WeightsExact
    BY <1>1 DEF Inv, IInv, StepInv
  <2>2. /\ weights' = [weights EXCEPT ![u][StartPeriod(u)] = @ + weight(d)]
        /\ weights \in [Validators -> [Periods -> Nat]]
    BY <1>1, <2>1 DEF addDelegator, TypeOK
  <2>3. StartPeriod(u) \in Nat /\ StartPeriod(u) > populatedWeights[u]
    BY <2>1, StartPeriodIn, Cursor
  <2>4. ASSUME NEW v \in Validators, NEW p \in Periods, rewards[v][p] # 0
        PROVE  ~(v = u /\ p = StartPeriod(u))
    BY <2>1, <2>3, <2>4 DEF WeightsExact
  <2>5. QED BY <2>2, <2>4 DEF WeightsStay
<1>2. ASSUME Inv, inStep, NEW d \in Delegators, claimRewards(d)
      PROVE  WeightsStay
  <2>1. TypeOK /\ PeriodsInOrder /\ WeightsCover /\ WeightsExact
    BY <1>2 DEF Inv, IInv, StepInv
  <2>2. PICK u \in Validators, first \in Nat, last \in Nat :
          \E w, r : Claims(d, u, first, last, w, r)
    BY <1>2, <2>1, ClaimIs
  <2>3. PICK w, r : Claims(d, u, first, last, w, r)
    BY <2>2
  <2>4. /\ w = updatedWeights(u, last) /\ weights' = [weights EXCEPT ![u] = w]
        /\ weights \in [Validators -> [Periods -> Nat]]
    BY <2>1, <2>3 DEF Claims, TypeOK
  <2>5. last <= completed[u]
    <3>1. d \in Delegates /\ delegation[d].validator = u /\ HasClaim(d) /\ last = maxClaimable(d)
      BY <2>3 DEF Claims
    <3>2. last \in 1 .. completed[u]
      BY <2>1, <3>1, ClaimPeriods
    <3>3. QED BY <3>2
  <2>6. \A p \in Periods : p \notin Unpopulated(u, last) => w[p] = weights[u][p]
    BY <2>1, <2>4, <2>5, UpdatedCovers
  <2>7. ASSUME NEW p \in Periods, rewards[u][p] # 0 PROVE p \notin Unpopulated(u, last)
    <3>1. p \in Nat /\ populatedWeights[u] \in Nat
      BY <2>1, Cursor
    <3>2. p <= populatedWeights[u]
      BY <2>1, <2>7, <3>1 DEF WeightsExact
    <3>3. QED BY <3>1, <3>2 DEF Unpopulated
  <2>8. QED BY <2>4, <2>6, <2>7 DEF WeightsStay
<1>3. ASSUME Inv, inStep, Next PROVE WeightsStay
  <2>1. ASSUME NEW v \in Validators, Activate(v) \/ PeriodEnds(v) PROVE WeightsStay
    BY <2>1 DEF Activate, PeriodEnds, WeightsStay
  <2>2. ASSUME NEW d \in Delegators, disableAutoRenew(d) PROVE WeightsStay
    BY <2>2 DEF disableAutoRenew, WeightsStay
  <2>3. QED BY <1>1, <1>2, <1>3, <2>1, <2>2 DEF Next
<1>4. Inv /\ [Next]_vars => [inStep => WeightsStay]_vars
  BY <1>3
<1>5. QED BY <1>4, InvHolds, PTL DEF Spec, OnceInStep
=============================================================================
