---------------------------- MODULE ValidatorProofs ----------------------------
(***************************************************************************)
(* What the validator lifecycles promise, for any number of validators,    *)
(* workers, blocks and faults.                                             *)
(***************************************************************************)
EXTENDS ValidatorLifecycle, FiniteSetTheorems, TLAPS

(* What the guards of lifecycle.Config.MinExitBlock achieve. *)

\* Below the quotient a product fits: what the division in MinExitBlock is for.
LEMMA ProductBelowQuotient ==
  ASSUME NEW periods \in Nat, NEW length \in Nat \ {0},
         periods < MaxUint32 \div length
  PROVE  periods * length <= MaxUint32 - length
<1> DEFINE q == MaxUint32 \div length
           r == MaxUint32 % length
<1>1. q \in Nat /\ r \in Nat /\ MaxUint32 = length * q + r
  BY MaxUint32Assumption
<1>2. (q - (periods + 1)) \in Nat
  BY <1>1
<1>3. length * (q - (periods + 1)) \in Nat
  <2>1. ASSUME NEW a \in Nat, NEW b \in Nat PROVE a * b \in Nat
    BY <2>1
  <2>2. QED BY <1>2, <2>1
<1>4. length * (q - (periods + 1)) = length * q - (periods * length + length)
  BY <1>1
<1>5. QED BY <1>1, <1>3, <1>4

\* The product in MinExitBlock never wraps: an exit block that is not "never" is
\* the activation block plus the periods asked for, unless that sum itself
\* leaves uint32, and then it is off by 2^32 and no more.
THEOREM ExitBlockIsExact ==
  ASSUME NEW periods \in 0..MaxUint32, NEW activated \in 0..MaxUint32,
         NEW length \in 1..MaxUint32,
         MinExitBlock(periods, activated, length) # MaxUint32
  PROVE  /\ periods * length \in 0..MaxUint32
         /\ activated + periods * length <= MaxUint32 =>
              MinExitBlock(periods, activated, length) = activated + periods * length
         /\ activated + periods * length > MaxUint32 =>
              MinExitBlock(periods, activated, length)
                = activated + periods * length - (MaxUint32 + 1)
<1> DEFINE product == periods * length
<1>1. periods < MaxUint32 \div length
  <2>1. MaxUint32 \div length \in Int
    BY MaxUint32Assumption
  <2>2. ~(MaxUint32 \div length <= periods)
    BY DEF MinExitBlock
  <2>3. QED BY <2>1, <2>2
<1>2. product <= MaxUint32 - length
  BY <1>1, ProductBelowQuotient
<1>3. product \in Nat
  BY <1>1
<1>4. product \in 0..MaxUint32
  BY <1>2, <1>3, MaxUint32Assumption
<1>5. MinExitBlock(periods, activated, length) = uint32(activated + product)
  BY DEF MinExitBlock
<1> HIDE DEF product
<1>6. ASSUME activated + product <= MaxUint32
      PROVE  uint32(activated + product) = activated + product
  BY <1>4, <1>6, MaxUint32Assumption DEF uint32
<1>7. ASSUME activated + product > MaxUint32
      PROVE  uint32(activated + product) = activated + product - (MaxUint32 + 1)
  BY <1>4, <1>7, MaxUint32Assumption DEF uint32
<1>8. QED BY <1>4, <1>5, <1>6, <1>7 DEF product

-----------------------------------------------------------------------------
(* What the properties rest on. *)

\* The contract's records are filled in the order of a validator's life.
InOrder(r, block) ==
  /\ r.start # 0 => r.added
  /\ r.signalled # 0 => r.start # 0 /\ r.start <= r.signalled
  /\ r.withdrawn => r.signalled # 0
  /\ r.start <= block /\ r.signalled <= block

RecordsInOrder == \A v \in Validators : InOrder(validation[v], height)

\* What was read of a validator was true, and records only grow.
SaysTrue(v, entry) ==
  /\ entry \in {"queued", "active", "exiting", "exit"} => validation[v].added
  /\ entry \in {"active", "exiting", "exit"} => validation[v].start # 0
  /\ entry \in {"exiting", "exit"} => validation[v].signalled # 0
  /\ entry = "exit" => Exited(validation[v], height)

\* What poll fetched is newer than what it will replace.
ReadsTrue ==
  \A v \in Validators :
    /\ SaysTrue(v, idLookup[v]) /\ SaysTrue(v, fetched[v]) /\ SaysTrue(v, job[v])
    /\ fetched[v] \notin {"nil", "exit"}
    /\ fetched[v] # "absent" /\ idLookup[v] # "nil" => Rank[fetched[v]] >= Rank[idLookup[v]]

\* A receipt says what the contract has done.
AnswersTrue ==
  \A v \in Validators :
    /\ sent[v].kind = "add" /\ sent[v].result \in {"ok", "reverted"} => validation[v].added
    /\ sent[v].kind = "exit" /\ sent[v].result = "ok" => validation[v].signalled # 0
    /\ sent[v].kind = "withdraw" /\ sent[v].result = "ok" => validation[v].withdrawn

KeptTrue ==
  \A v \in Validators :
    /\ queuedReceipt[v] => validation[v].added
    /\ activatedBlock[v] # 0 => activatedBlock[v] = validation[v].start

\* An exit, waited for or forgotten, was sent when it was due.
ExitIsDue(v) ==
  /\ validation[v].start # 0
  /\ height >= MinExitBlock(StakingPeriods, validation[v].start, PeriodLength)

ExitsInTime ==
  \A v \in Validators :
    sent[v].kind = "exit" \/ <<v, "exit">> \in orphans => ExitIsDue(v)

Truth == RecordsInOrder /\ ReadsTrue /\ AnswersTrue /\ KeptTrue /\ StatusWasTrue

IInv == TypeOK /\ Truth /\ ExitsInTime /\ StaysItsPeriods

\* Nothing goes wrong: how old the snapshot may be, in blocks, ...
Age == IF polling = "stored" THEN 0 ELSE IF polling = "late" THEN 2 ELSE 1
FetchedAge == IF polling = "late" THEN 1 ELSE 0

SnapshotFresh ==
  \A v \in Validators :
    /\ idLookup[v] \in {"queued", "active", "exiting"} => ~Exited(validation[v], height - Age)
    /\ fetched[v] # "absent" => /\ polling \in {"fetched", "late"}
                                /\ ~Exited(validation[v], height - FetchedAge)

\* ... what a first check finds, that a validator that has been active is in it, and
\* that one whose stake is on its way out is closed.
Undisturbed(v) ==
  /\ job[v] \in {"idle", "handle", "send"}
  /\ ~firstProcessed[v] => ~validation[v].added /\ job[v] = "idle" /\ status[v] = Pending
  /\ job[v] = "handle" => status[v] # Withdrawn
  /\ idLookup[v] # "nil"
  /\ sent[v].kind = "exit" => status[v] = Active
  /\ status[v] = ExitSignalled => activatedBlock[v] # 0
  /\ status[v] \in {Active, ExitSignalled} \/ validation[v].signalled # 0 =>
       idLookup[v] # "absent"
  /\ sent[v].kind = "withdraw" \/ status[v] = Withdrawn => ~registered[v]

FaultlessInv ==
  /\ orphans = {}
  /\ SnapshotFresh
  /\ \A v \in Validators : Undisturbed(v)

WhenFaultless == faults = 0 => FaultlessInv

-----------------------------------------------------------------------------
(* The staker contract's records. *)

LEMMA Numbers == /\ MaxHeight \in Nat \ {0} /\ PeriodLength \in Nat \ {0}
                 /\ CooldownPeriod \in Nat /\ StakingPeriods \in Nat
                 /\ WithdrawDelay \in Nat /\ QueueBlock \in Nat /\ MaxFaults \in Nat
                 /\ 0 \in Blocks /\ Blocks \subseteq Nat
BY ChainAssumption, ValidatorAssumption, ServiceAssumption DEF Blocks

\* Who signals the exit leaves with the period: after the signal, at most a period later.
LEMMA ExitBlockBounds ==
  ASSUME NEW r \in Records, NEW block \in Blocks, InOrder(r, block), r.signalled # 0
  PROVE  /\ ExitBlock(r) \in Nat
         /\ r.signalled < ExitBlock(r)
         /\ ExitBlock(r) <= r.signalled + PeriodLength
<1> DEFINE stayed == r.signalled - r.start
           q == stayed \div PeriodLength
           m == stayed % PeriodLength
<1>1. r.start \in Nat /\ r.signalled \in Nat /\ stayed \in Nat
  <2>1. r.start \in Blocks /\ r.signalled \in Blocks /\ r.start <= r.signalled
    BY DEF InOrder, Records
  <2>2. QED BY <2>1, Numbers DEF Blocks
<1>2. q \in Nat /\ m \in Nat /\ m < PeriodLength /\ stayed = PeriodLength * q + m
  <2> HIDE DEF stayed
  <2> QED BY <1>1, Numbers
<1>3. (q + 1) * PeriodLength = stayed - m + PeriodLength
  <2> HIDE DEF stayed
  <2>1. (q + 1) * PeriodLength = PeriodLength * q + PeriodLength
    BY <1>2, Numbers
  <2>2. PeriodLength * q \in Int
    BY <1>2, Numbers
  <2>3. QED BY <1>1, <1>2, <2>1, <2>2, Numbers
<1>4. ExitBlock(r) = r.start + (stayed - m + PeriodLength)
  BY <1>3 DEF ExitBlock
<1>5. QED
  <2> HIDE DEF q, m
  <2> QED BY <1>1, <1>2, <1>4, Numbers

LEMMA ExitedLater ==
  ASSUME NEW r \in Records, NEW block \in Blocks, InOrder(r, block),
         NEW b \in Int, NEW c \in Int, b <= c, Exited(r, b)
  PROVE  Exited(r, c)
BY ExitBlockBounds DEF Exited

\* What a call does to a record.
Grows(r, s) ==
  /\ r.added => s.added
  /\ r.start # 0 => s.start = r.start
  /\ r.signalled # 0 => s.signalled = r.signalled
  /\ r.withdrawn => s.withdrawn

Done(s, kind) ==
  /\ kind = "add" => s.added
  /\ kind = "exit" => s.signalled # 0
  /\ kind = "withdraw" => s.withdrawn

LEMMA AfterCall ==
  ASSUME NEW r \in Records, NEW block \in Blocks \ {0}, InOrder(r, block),
         NEW kind \in Kinds \cup {"none"}
  PROVE  LET s == After(r, kind, block)
         IN  /\ s \in Records /\ InOrder(s, block) /\ Grows(r, s)
             /\ s.start = r.start
             /\ s.added # r.added => kind = "add"
             /\ s.signalled # r.signalled => kind = "exit" /\ s.signalled = block
             /\ Accepts(r, kind, block) => Done(s, kind)
             /\ kind = "add" => s.added
<1>1. CASE ~Accepts(r, kind, block)
  <2>1. After(r, kind, block) = r
    BY <1>1 DEF After
  <2>2. kind = "add" => r.added
    BY <1>1 DEF Accepts
  <2>3. QED BY <1>1, <2>1, <2>2 DEF Grows
<1>2. CASE Accepts(r, kind, block) /\ kind = "add"
  BY <1>2 DEF After, Grows, Accepts, Done, Records, InOrder
<1>3. CASE Accepts(r, kind, block) /\ kind = "exit"
  BY <1>3, Numbers DEF After, Grows, Accepts, Done, Records, InOrder
<1>4. CASE Accepts(r, kind, block) /\ kind = "withdraw"
  BY <1>4 DEF After, Grows, Accepts, Done, Records, InOrder, Withdrawable
<1>5. CASE Accepts(r, kind, block) /\ kind = "none"
  BY <1>5 DEF Accepts
<1>6. QED BY <1>1, <1>2, <1>3, <1>4, <1>5 DEF Kinds

\* A block activates validators that are queued.
LEMMA Started ==
  ASSUME NEW r \in Records, NEW b \in Blocks, b + 1 \in Blocks, InOrder(r, b),
         StatusAt(r, b) = "queued"
  PROVE  LET s == [r EXCEPT !.start = b + 1]
         IN  /\ s \in Records /\ InOrder(s, b + 1) /\ Grows(r, s)
             /\ s.added = r.added /\ s.signalled = r.signalled
<1>1. r.added /\ r.start = 0
  BY DEF StatusAt
<1>2. r.signalled = 0 /\ ~r.withdrawn
  BY <1>1 DEF InOrder
<1> DEFINE s == [r EXCEPT !.start = b + 1]
<1>3. /\ s \in Records /\ s.start = b + 1 /\ s.added = r.added
      /\ s.signalled = r.signalled /\ s.withdrawn = r.withdrawn
  BY DEF Records
<1> HIDE DEF s
<1>4. InOrder(s, b + 1) /\ Grows(r, s)
  BY <1>1, <1>2, <1>3 DEF InOrder, Grows, Blocks
<1>5. QED
  BY <1>3, <1>4 DEF s

LEMMA OrderStays ==
  ASSUME NEW r \in Records, NEW b \in Blocks, b + 1 \in Blocks, InOrder(r, b)
  PROVE  InOrder(r, b + 1) /\ Grows(r, r)
BY DEF InOrder, Grows, Records, Blocks

\* What a block does to one validator and to the transaction its job waits for.
BlockDoes(v) ==
  LET r == validation[v]
      s == validation'[v]
  IN  /\ s \in Records /\ InOrder(s, height') /\ Grows(r, s)
      /\ s.signalled # r.signalled =>
           s.signalled = height' /\ (sent[v].kind = "exit" \/ <<v, "exit">> \in orphans)
      /\ s.added # r.added => sent[v].kind = "add" \/ <<v, "add">> \in orphans
      /\ sent'[v] \in Transactions /\ sent'[v].kind = sent[v].kind
      /\ (sent'[v] = Nothing) = (sent[v] = Nothing)
      /\ sent'[v] # sent[v] =>
           /\ sent'[v].result = "ok" => Done(s, sent[v].kind)
           /\ sent[v].kind = "add" => s.added

LEMMA GrowsOn ==
  ASSUME NEW r \in Records, NEW s \in Records, NEW t \in Records, Grows(r, s), Grows(s, t)
  PROVE  Grows(r, t)
BY DEF Grows

LEMMA BlockStep ==
  ASSUME TypeOK, RecordsInOrder,
         NEW activated \in SUBSET Validators, NEW mined \in SUBSET Validators,
         NEW orphan \in [Validators -> Kinds \cup {"none"}],
         Block(activated, mined, orphan)
  PROVE  /\ height' = height + 1 /\ height' \in Blocks \ {0} /\ orphans' \subseteq orphans
         /\ validation' \in [Validators -> Records] /\ sent' \in [Validators -> Transactions]
         /\ \A v \in Validators : BlockDoes(v)
<1>1. height' = height + 1 /\ height' \in Blocks \ {0} /\ height \in Blocks
  BY Numbers DEF TypeOK, Block, Blocks
<1>2. ASSUME NEW v \in Validators PROVE BlockDoes(v)
  <2> DEFINE r == validation[v]
             started == IF v \in activated THEN [r EXCEPT !.start = height + 1] ELSE r
             first == After(started, orphan[v], height + 1)
             s == IF v \in mined THEN After(first, sent[v].kind, height + 1) ELSE first
  <2>1. r \in Records /\ InOrder(r, height) /\ sent[v] \in Transactions
    BY DEF TypeOK, RecordsInOrder
  <2>2. /\ started \in Records /\ InOrder(started, height + 1) /\ Grows(r, started)
        /\ started.added = r.added /\ started.signalled = r.signalled
    <3>1. CASE v \in activated
      <4>1. StatusAt(r, height) = "queued"
        BY <3>1 DEF Block, Status
      <4> HIDE DEF r
      <4>2. QED BY <1>1, <2>1, <3>1, <4>1, Started
    <3>2. CASE v \notin activated
      <4> HIDE DEF r
      <4> QED BY <1>1, <2>1, <3>2, OrderStays
    <3>3. QED BY <3>1, <3>2
  <2>3. /\ first \in Records /\ InOrder(first, height + 1) /\ Grows(started, first)
        /\ first.added # started.added => orphan[v] = "add"
        /\ first.signalled # started.signalled =>
             orphan[v] = "exit" /\ first.signalled = height + 1
    <3> HIDE DEF started
    <3> QED BY <1>1, <2>2, AfterCall
  <2>4. orphan[v] # "none" => <<v, orphan[v]>> \in orphans
    BY DEF Block
  <2>5. validation'[v] = s
    BY DEF Block
  <2>6. CASE v \in mined
    <3>1. sent[v].result = "waiting"
      BY <2>6 DEF Block, Waiting
    <3>2. sent[v].kind \in Kinds /\ sent[v] \in [kind : Kinds, result : Results]
      BY <2>1, <3>1 DEF Transactions, Nothing
    <3> DEFINE accepted == Accepts(first, sent[v].kind, height + 1)
    <3>3. sent'[v] = [sent[v] EXCEPT !.result = IF accepted THEN "ok" ELSE "reverted"]
      BY <2>6 DEF Block
    <3> HIDE DEF started, first
    <3>4. /\ s \in Records /\ InOrder(s, height + 1) /\ Grows(first, s)
          /\ s.added # first.added => sent[v].kind = "add"
          /\ s.signalled # first.signalled =>
               sent[v].kind = "exit" /\ s.signalled = height + 1
          /\ accepted => Done(s, sent[v].kind)
          /\ sent[v].kind = "add" => s.added
      <4>1. s = After(first, sent[v].kind, height + 1)
        BY <2>6
      <4> HIDE DEF s
      <4>2. QED BY <1>1, <2>3, <3>2, <4>1, AfterCall
    <3> HIDE DEF accepted
    <3>5. /\ sent'[v] \in Transactions /\ sent'[v].kind = sent[v].kind
          /\ sent'[v] # Nothing /\ sent[v] # Nothing
          /\ sent'[v].result = "ok" => accepted
      BY <3>2, <3>3 DEF Transactions, Nothing, Results, Kinds
    <3> HIDE DEF s, r
    <3>6. Grows(r, s)
      BY <2>1, <2>2, <2>3, <3>4, GrowsOn
    <3>7. QED
      BY <1>1, <2>2, <2>3, <2>4, <2>5, <3>4, <3>5, <3>6 DEF BlockDoes, r
  <2>7. CASE v \notin mined
    <3>1. sent'[v] = sent[v] /\ s = first
      BY <2>7 DEF Block
    <3> HIDE DEF s, r, started, first
    <3>2. Grows(r, s)
      BY <2>1, <2>2, <2>3, <3>1, GrowsOn
    <3>3. QED
      BY <1>1, <2>1, <2>2, <2>3, <2>4, <2>5, <3>1, <3>2 DEF BlockDoes, r
  <2>8. QED BY <2>6, <2>7
<1>3. validation' \in [Validators -> Records] /\ sent' \in [Validators -> Transactions]
  <2>1. /\ validation' = [v \in Validators |-> validation'[v]]
        /\ sent' = [v \in Validators |-> sent'[v]]
    BY DEF Block
  <2>2. \A v \in Validators : validation'[v] \in Records /\ sent'[v] \in Transactions
    BY <1>2 DEF BlockDoes
  <2>3. QED BY <2>1, <2>2
<1>4. orphans' \subseteq orphans
  BY DEF Block
<1>5. QED BY <1>1, <1>2, <1>3, <1>4

-----------------------------------------------------------------------------
(* What a check finds is true. *)

Statuses == Pending..Withdrawn

LEMMA StatusNumbers == /\ Statuses = 0..4 /\ Pending = 0 /\ Queued = 1 /\ Active = 2
                       /\ ExitSignalled = 3 /\ Withdrawn = 4
BY DEF Statuses, Pending, Queued, Active, ExitSignalled, Withdrawn

LifeTypes ==
  /\ status \in [Validators -> Statuses]
  /\ activatedBlock \in [Validators -> Blocks] /\ exitReceipt \in [Validators -> Blocks]
  /\ queuedReceipt \in [Validators -> BOOLEAN]
  /\ withdrawReceipt \in [Validators -> BOOLEAN]

LifeInv == LifeTypes /\ KeptTrue /\ StatusWasTrue

LEMMA LifeInvNow == TypeOK /\ Truth => LifeInv
BY DEF TypeOK, Truth, LifeInv, LifeTypes, Statuses

\* The chain's answer about a validator is one of the entries, and true.
LEMMA StatusIsTrue ==
  ASSUME TypeOK, RecordsInOrder, NEW v \in Validators
  PROVE  /\ Status(v) \in Entries \ {"nil"}
         /\ (Status(v) = "absent") = ~validation[v].added
         /\ SaysTrue(v, Status(v))
         /\ Exited(validation[v], height) => Status(v) = "exit"
<1> DEFINE r == validation[v]
<1>1. r \in Records /\ InOrder(r, height)
  BY DEF TypeOK, RecordsInOrder
<1>2. r.added \in BOOLEAN /\ (Exited(r, height) => r.signalled # 0)
  BY <1>1 DEF Records, Exited
<1>3. (r.signalled # 0 => r.start # 0) /\ (r.start # 0 => r.added)
  BY <1>1 DEF InOrder
<1>4. SaysTrue(v, Status(v)) = SaysTrue(v, StatusAt(r, height))
  BY DEF Status
<1>5. QED
  BY <1>2, <1>3 DEF Status, StatusAt, SaysTrue, Entries

Findings == [status : Statuses, activated : Blocks, queued : BOOLEAN, err : BOOLEAN]

Good(v, found) ==
  /\ found \in Findings
  /\ found.status >= Queued => validation[v].added
  /\ found.status = Active =>
       found.activated = validation[v].start /\ validation[v].start # 0
  /\ found.status >= ExitSignalled => validation[v].signalled # 0
  /\ found.queued => validation[v].added
  /\ found.activated # 0 => found.activated = validation[v].start

LEMMA FoundIsGood ==
  ASSUME LifeInv, NEW v \in Validators
  PROVE  Good(v, Found(v))
BY DEF LifeInv, LifeTypes, KeptTrue, StatusWasTrue, Good, Found, Findings

With(found, a, s) == [found EXCEPT !.activated = a, !.status = s]
WithReceipt(found, a, s) == [found EXCEPT !.activated = a, !.status = s, !.queued = TRUE]

LEMMA FindingWith ==
  ASSUME NEW found \in Findings, NEW a \in Blocks, NEW s \in Statuses
  PROVE  LET g == With(found, a, s)
             h == WithReceipt(found, a, s)
         IN  /\ g \in Findings /\ g.activated = a /\ g.status = s /\ g.queued = found.queued
             /\ h \in Findings /\ h.activated = a /\ h.status = s /\ h.queued
BY DEF Findings, With, WithReceipt

LEMMA ExistingIsGood ==
  ASSUME TypeOK, NEW v \in Validators, NEW found, Good(v, found), validation[v].added,
         NEW fails
  PROVE  Good(v, HandleExistingValidator(v, found, fails))
<1> DEFINE begun == validation[v].start
<1>1. begun \in Blocks
  BY DEF TypeOK, Records
<1>2. CASE fails = "details"
  BY <1>2 DEF HandleExistingValidator
<1>3. CASE fails = "receipt"
  <2> DEFINE h == With(found, begun, Queued)
  <2>1. /\ h \in Findings /\ h.status = Queued /\ h.queued = found.queued
        /\ h.activated = begun
    <3>1. found \in Findings /\ Queued \in Statuses
      BY DEF Good, Statuses, Pending, Queued, Withdrawn
    <3> HIDE DEF begun
    <3>2. QED BY <1>1, <3>1, FindingWith
  <2>2. HandleExistingValidator(v, found, fails) = h
    BY <1>3 DEF HandleExistingValidator, With
  <2> HIDE DEF h
  <2>3. QED BY <2>1, <2>2 DEF Good, Queued, Active, ExitSignalled
<1>4. CASE fails # "details" /\ fails # "receipt"
  <2> DEFINE h == WithReceipt(found, begun, Queued)
  <2>1. /\ h \in Findings /\ h.status = Queued /\ h.queued
        /\ h.activated = begun
    <3>1. found \in Findings /\ Queued \in Statuses
      BY DEF Good, Statuses, Pending, Queued, Withdrawn
    <3> HIDE DEF begun
    <3>2. QED BY <1>1, <3>1, FindingWith
  <2>2. HandleExistingValidator(v, found, fails) = h
    BY <1>4 DEF HandleExistingValidator, WithReceipt
  <2> HIDE DEF h
  <2>3. QED BY <2>1, <2>2 DEF Good, Queued, Active, ExitSignalled
<1>5. QED BY <1>2, <1>3, <1>4

LEMMA AlreadyExitedIsGood ==
  ASSUME TypeOK, RecordsInOrder, NEW v \in Validators, NEW found, Good(v, found),
         validation[v].added, NEW fails
  PROVE  Good(v, CheckAlreadyExited(v, found, fails))
<1>1. Status(v) \in {"absent", "exiting", "exit"} => validation[v].signalled # 0
  BY StatusIsTrue DEF SaysTrue
<1>2. CASE fails = "exited"
  <2> DEFINE failed == [found EXCEPT !.err = TRUE]
  <2>1. /\ failed \in Findings /\ failed.status = found.status
        /\ failed.activated = found.activated /\ failed.queued = found.queued
    BY DEF Good, Findings
  <2>2. CheckAlreadyExited(v, found, fails) = failed
    BY <1>2 DEF CheckAlreadyExited
  <2> HIDE DEF failed
  <2>3. QED BY <2>1, <2>2 DEF Good
<1>3. CASE fails # "exited" /\ Status(v) \in {"absent", "exiting", "exit"}
  <2> DEFINE left == [found EXCEPT !.status = Withdrawn]
  <2>1. /\ left \in Findings /\ left.status = 4
        /\ left.activated = found.activated /\ left.queued = found.queued
    BY DEF Good, Findings, Statuses, Pending, Withdrawn
  <2>2. CheckAlreadyExited(v, found, fails) = left
    BY <1>3 DEF CheckAlreadyExited
  <2> HIDE DEF left
  <2>3. QED BY <1>1, <1>3, <2>1, <2>2 DEF Good, Active
<1>4. CASE fails # "exited" /\ Status(v) \notin {"absent", "exiting", "exit"}
  BY <1>4 DEF CheckAlreadyExited
<1>5. QED BY <1>2, <1>3, <1>4

LEMMA InitialStateIsGood ==
  ASSUME TypeOK, Truth, NEW v \in Validators,
         NEW existing \in {"queued", "active", "exiting", "exit"}, SaysTrue(v, existing),
         NEW fails
  PROVE  Good(v, InitialState(v, existing, fails))
<1> DEFINE known == HandleExistingValidator(v, Found(v), fails)
           active == IF existing \notin {"active", "exiting"} THEN known
                     ELSE IF fails = "active" THEN [known EXCEPT !.err = TRUE]
                     ELSE [known EXCEPT !.activated = validation[v].start, !.status = Active]
<1>1. validation[v].added /\ RecordsInOrder
  BY DEF SaysTrue, Truth
<1>2. Good(v, known)
  BY <1>1, LifeInvNow, FoundIsGood, ExistingIsGood
<1> HIDE DEF known
<1>3. Good(v, active)
  <2> DEFINE begun == validation[v].start
  <2>1. begun \in Blocks
    BY DEF TypeOK, Records
  <2>2. existing \in {"active", "exiting"} => validation[v].start # 0
    BY DEF SaysTrue
  <2>3. CASE existing \notin {"active", "exiting"}
    BY <1>2, <2>3
  <2>4. CASE existing \in {"active", "exiting"} /\ fails = "active"
    <3> DEFINE failed == [known EXCEPT !.err = TRUE]
    <3>1. /\ failed \in Findings /\ failed.status = known.status
          /\ failed.activated = known.activated /\ failed.queued = known.queued
      BY <1>2 DEF Good, Findings
    <3>2. active = failed
      BY <2>4
    <3> HIDE DEF failed, active
    <3>3. QED BY <1>2, <3>1, <3>2 DEF Good
  <2>5. CASE existing \in {"active", "exiting"} /\ fails # "active"
    <3> DEFINE found == With(known, begun, Active)
    <3>1. /\ found \in Findings /\ found.status = Active
          /\ found.activated = begun /\ found.queued = known.queued
      <4>1. known \in Findings /\ Active \in Statuses
        BY <1>2 DEF Good, Statuses, Pending, Active, Withdrawn
      <4> HIDE DEF begun
      <4>2. QED BY <2>1, <4>1, FindingWith
    <3>2. active = found
      BY <2>5 DEF With
    <3> HIDE DEF found, active
    <3>3. QED BY <1>1, <1>2, <2>2, <2>5, <3>1, <3>2 DEF Good, Queued, Active, ExitSignalled
  <2>6. QED BY <2>3, <2>4, <2>5
<1> HIDE DEF active
<1>4. InitialState(v, existing, fails)
        = IF active.err \/ ~active.queued THEN active ELSE CheckAlreadyExited(v, active, fails)
  BY DEF InitialState, active, known
<1>5. QED BY <1>1, <1>3, <1>4, AlreadyExitedIsGood

\* Nothing changes but what is found.
LEMMA TakeStep ==
  ASSUME LifeInv, NEW v \in Validators, NEW found, Good(v, found), Take(v, found),
         UNCHANGED validation
  PROVE  LifeInv'
<1>1. LifeTypes'
  BY DEF LifeInv, LifeTypes, Take, Good, Findings
<1>2. (KeptTrue /\ StatusWasTrue)'
  <2> SUFFICES ASSUME NEW w \in Validators
               PROVE  /\ queuedReceipt'[w] => validation'[w].added
                      /\ activatedBlock'[w] # 0 => activatedBlock'[w] = validation'[w].start
                      /\ status'[w] >= Queued => validation'[w].added
                      /\ status'[w] = Active => /\ activatedBlock'[w] = validation'[w].start
                                                /\ validation'[w].start # 0
                      /\ status'[w] >= ExitSignalled => validation'[w].signalled # 0
                      /\ exitReceipt'[w] # 0 => exitReceipt'[w] = validation'[w].signalled
                      /\ withdrawReceipt'[w] => validation'[w].withdrawn
    BY DEF KeptTrue, StatusWasTrue, Queued, Active, ExitSignalled
  <2>1. CASE w = v
    BY <2>1 DEF LifeInv, LifeTypes, KeptTrue, StatusWasTrue, Take, Good
  <2>2. CASE w # v
    BY <2>2 DEF LifeInv, LifeTypes, KeptTrue, StatusWasTrue, Take
  <2>3. QED BY <2>1, <2>2
<1>3. QED BY <1>1, <1>2 DEF LifeInv

LEMMA LifeStays ==
  ASSUME LifeInv, UNCHANGED <<state, validation>>
  PROVE  LifeInv'
BY DEF LifeInv, LifeTypes, KeptTrue, StatusWasTrue, state, receipts

-----------------------------------------------------------------------------
(* What a job does. *)

FaultsCounted == faults' \in 0..MaxFaults /\ (faults' = 0 => faults = 0)

LEMMA FaultStep ==
  ASSUME TypeOK, NEW fails, Fault \/ Counted(fails) \/ UNCHANGED faults
  PROVE  FaultsCounted
BY Numbers DEF TypeOK, Fault, Counted, FaultsCounted

\* The condition a transaction is sent on.
MaySend(v, kind) ==
  /\ kind = "exit" => status[v] = Active /\ ExitDue(v)
  /\ kind = "withdraw" =>
       status[v] = ExitSignalled /\ exitReceipt[v] # 0 /\ height >= minWithdrawBlock(v)

Sends(v) ==
  \E kind \in Kinds : SendTransactionAndWait(v, kind) /\ UNCHANGED state /\ MaySend(v, kind)

ProcessDoes(v) ==
  /\ LifeInv' /\ FaultsCounted
  /\ Returns(v) \/ Sends(v)

LEMMA PendingStep ==
  ASSUME TypeOK, Truth, NEW v \in Validators, processPending(v), UNCHANGED validation
  PROVE  ProcessDoes(v)
<1>1. CASE /\ Returns(v) /\ UNCHANGED <<status, activatedBlock, queuedReceipt, faults>>
  <2>1. UNCHANGED state
    BY <1>1 DEF processPending, state, receipts
  <2>2. QED BY <1>1, <2>1, LifeInvNow, LifeStays, FaultStep DEF ProcessDoes
<1>2. CASE Fault /\ Returns(v) /\ UNCHANGED <<status, activatedBlock, queuedReceipt>>
  <2>1. UNCHANGED state
    BY <1>2 DEF processPending, state, receipts
  <2>2. QED BY <1>2, <2>1, LifeInvNow, LifeStays, FaultStep DEF ProcessDoes
<1>3. ASSUME NEW fails, Status(v) # "absent", Returns(v), Counted(fails),
             Take(v, HandleExistingValidator(v, Found(v), fails))
      PROVE  ProcessDoes(v)
  <2>1. validation[v].added
    BY <1>3, StatusIsTrue DEF Truth
  <2>2. Good(v, HandleExistingValidator(v, Found(v), fails))
    BY <2>1, LifeInvNow, FoundIsGood, ExistingIsGood
  <2>3. LifeInv'
    BY <1>3, <2>2, LifeInvNow, TakeStep
  <2>4. QED BY <1>3, <2>3, FaultStep DEF ProcessDoes
<1>4. CASE /\ SendTransactionAndWait(v, "add")
           /\ UNCHANGED <<status, activatedBlock, queuedReceipt>>
  <2>1. UNCHANGED state
    BY <1>4 DEF processPending, state, receipts
  <2>2. Fault \/ UNCHANGED faults
    BY <1>4 DEF SendTransactionAndWait
  <2>3. Sends(v)
    BY <1>4, <2>1 DEF Sends, MaySend, Kinds
  <2>4. QED BY <2>1, <2>2, <2>3, LifeInvNow, LifeStays, FaultStep DEF ProcessDoes
<1>5. QED BY <1>1, <1>2, <1>3, <1>4 DEF processPending

LEMMA QueuedStep ==
  ASSUME TypeOK, Truth, NEW v \in Validators, processQueued(v), SaysTrue(v, idLookup[v]),
         UNCHANGED validation
  PROVE  ProcessDoes(v)
<1>1. CASE UNCHANGED <<state, faults>>
  BY <1>1, LifeInvNow, LifeStays, FaultStep DEF ProcessDoes, processQueued
<1>2. ASSUME NEW fails, Counted(fails), Take(v, CheckAlreadyExited(v, Found(v), fails))
      PROVE  ProcessDoes(v)
  <2>1. validation[v].added
    BY DEF processQueued, Truth, StatusWasTrue, Queued
  <2>2. Good(v, CheckAlreadyExited(v, Found(v), fails))
    BY <2>1, LifeInvNow, FoundIsGood, AlreadyExitedIsGood DEF Truth
  <2>3. LifeInv'
    BY <1>2, <2>2, LifeInvNow, TakeStep
  <2>4. QED BY <1>2, <2>3, FaultStep DEF ProcessDoes, processQueued
<1>3. CASE /\ LookupAddress(v) \in {"active", "exiting"}
           /\ status' = [status EXCEPT ![v] = Active]
           /\ activatedBlock' = [activatedBlock EXCEPT ![v] = validation[v].start]
           /\ UNCHANGED <<receipts, faults>>
  <2> DEFINE found == With(Found(v), validation[v].start, Active)
  <2>1. validation[v].start # 0 /\ validation[v].added /\ validation[v].start \in Blocks
    BY <1>3 DEF SaysTrue, LookupAddress, TypeOK, Records
  <2>2. Good(v, Found(v))
    BY LifeInvNow, FoundIsGood
  <2>3. Active \in Statuses
    BY DEF Statuses, Pending, Active, Withdrawn
  <2>4. /\ found \in Findings /\ found.activated = validation[v].start
        /\ found.status = Active /\ found.queued = Found(v).queued
    BY <2>1, <2>2, <2>3, FindingWith DEF Good
  <2>5. Found(v).queued = queuedReceipt[v]
    BY DEF Found
  <2> HIDE DEF found
  <2>6. Good(v, found)
    BY <2>1, <2>2, <2>4 DEF Good, Queued, Active, ExitSignalled
  <2>7. queuedReceipt' = [queuedReceipt EXCEPT ![v] = queuedReceipt[v]]
    BY <1>3 DEF TypeOK, receipts
  <2>8. Take(v, found)
    BY <1>3, <2>4, <2>5, <2>7 DEF Take, receipts
  <2>9. LifeInv'
    BY <2>6, <2>8, LifeInvNow, TakeStep
  <2>10. QED BY <1>3, <2>9, FaultStep DEF ProcessDoes, processQueued
<1>4. QED BY <1>1, <1>2, <1>3 DEF processQueued

LEMMA ActiveStep ==
  ASSUME TypeOK, Truth, NEW v \in Validators, processActive(v), UNCHANGED validation
  PROVE  ProcessDoes(v)
<1>1. LifeInv'
  BY LifeInvNow, LifeStays DEF processActive
<1>2. CASE Returns(v) /\ UNCHANGED faults
  BY <1>1, <1>2, FaultStep DEF ProcessDoes
<1>3. CASE SendTransactionAndWait(v, "exit") /\ ExitDue(v)
  <2>1. Fault \/ UNCHANGED faults
    BY <1>3 DEF SendTransactionAndWait
  <2>2. Sends(v)
    BY <1>3 DEF processActive, Sends, MaySend, Kinds
  <2>3. QED BY <1>1, <2>1, <2>2, FaultStep DEF ProcessDoes
<1>4. QED BY <1>2, <1>3 DEF processActive

LEMMA ExitSignalledStep ==
  ASSUME TypeOK, Truth, NEW v \in Validators, processExitSignalled(v), UNCHANGED validation
  PROVE  ProcessDoes(v)
<1>1. LifeInv'
  BY LifeInvNow, LifeStays DEF processExitSignalled
<1>2. CASE Returns(v) /\ UNCHANGED faults
  BY <1>1, <1>2, FaultStep DEF ProcessDoes
<1>3. CASE /\ SendTransactionAndWait(v, "withdraw")
           /\ exitReceipt[v] # 0 /\ height >= minWithdrawBlock(v)
  <2>1. Fault \/ UNCHANGED faults
    BY <1>3 DEF SendTransactionAndWait
  <2>2. Sends(v)
    BY <1>3 DEF processExitSignalled, Sends, MaySend, Kinds
  <2>3. QED BY <1>1, <2>1, <2>2, FaultStep DEF ProcessDoes
<1>4. QED BY <1>2, <1>3 DEF processExitSignalled

LEMMA ProcessStep ==
  ASSUME TypeOK, Truth, NEW v \in Validators, Process(v)
  PROVE  ProcessDoes(v)
<1>1. UNCHANGED validation /\ SaysTrue(v, idLookup[v])
  BY DEF Process, Truth, ReadsTrue
<1>2. CASE processPending(v) \/ processQueued(v) \/ processActive(v) \/ processExitSignalled(v)
  BY <1>1, <1>2, PendingStep, QueuedStep, ActiveStep, ExitSignalledStep
<1>3. CASE Returns(v) /\ UNCHANGED <<state, faults>>
  BY <1>1, <1>3, LifeInvNow, LifeStays, FaultStep DEF ProcessDoes
<1>4. QED BY <1>2, <1>3 DEF Process, processCurrentState

LEMMA ConfirmedStep ==
  ASSUME TypeOK, Truth, NEW v \in Validators, Confirmed(v)
  PROVE  LifeInv'
<1>1. LifeInv /\ validation' = validation
  BY LifeInvNow DEF Confirmed, Answered
<1>2. /\ sent[v].kind = "add" => validation[v].added
      /\ sent[v].kind = "exit" => validation[v].signalled # 0
      /\ sent[v].kind = "withdraw" => validation[v].withdrawn
  BY DEF Confirmed, Truth, AnswersTrue
<1>3. /\ validation[v].signalled \in Blocks
      /\ validation[v].withdrawn => validation[v].signalled # 0
      /\ validation[v].signalled # 0 => validation[v].added
  BY DEF TypeOK, Truth, RecordsInOrder, InOrder, Records
<1>4. Queued \in Statuses /\ ExitSignalled \in Statuses /\ Withdrawn \in Statuses
  BY DEF Statuses, Pending, Queued, ExitSignalled, Withdrawn
<1>5. CASE /\ sent[v].kind = "add"
           /\ queuedReceipt' = [queuedReceipt EXCEPT ![v] = TRUE]
           /\ TransitionTo(v, Queued)
           /\ UNCHANGED <<exitReceipt, withdrawReceipt>>
  <2>1. LifeTypes'
    BY <1>1, <1>4, <1>5 DEF LifeInv, LifeTypes, TransitionTo
  <2>2. (KeptTrue /\ StatusWasTrue)'
    BY <1>1, <1>2, <1>5 DEF LifeInv, LifeTypes, TransitionTo, KeptTrue, StatusWasTrue,
                            Queued, Active, ExitSignalled
  <2>3. QED BY <2>1, <2>2 DEF LifeInv
<1>6. CASE /\ sent[v].kind = "exit"
           /\ exitReceipt' = [exitReceipt EXCEPT ![v] = validation[v].signalled]
           /\ TransitionTo(v, ExitSignalled)
           /\ UNCHANGED <<queuedReceipt, withdrawReceipt>>
  <2>1. LifeTypes'
    BY <1>1, <1>3, <1>4, <1>6 DEF LifeInv, LifeTypes, TransitionTo
  <2>2. (KeptTrue /\ StatusWasTrue)'
    BY <1>1, <1>2, <1>3, <1>6 DEF LifeInv, LifeTypes, TransitionTo, KeptTrue, StatusWasTrue,
                                  Queued, Active, ExitSignalled
  <2>3. QED BY <2>1, <2>2 DEF LifeInv
<1>7. CASE /\ sent[v].kind = "withdraw"
           /\ withdrawReceipt' = [withdrawReceipt EXCEPT ![v] = TRUE]
           /\ TransitionTo(v, Withdrawn)
           /\ UNCHANGED <<queuedReceipt, exitReceipt>>
  <2>1. LifeTypes'
    BY <1>1, <1>4, <1>7 DEF LifeInv, LifeTypes, TransitionTo
  <2>2. (KeptTrue /\ StatusWasTrue)'
    BY <1>1, <1>2, <1>3, <1>7 DEF LifeInv, LifeTypes, TransitionTo, KeptTrue, StatusWasTrue,
                                  Queued, Active, ExitSignalled, Withdrawn
  <2>3. QED BY <2>1, <2>2 DEF LifeInv
<1>8. QED BY <1>5, <1>6, <1>7 DEF Confirmed

LEMMA RevertedStep ==
  ASSUME TypeOK, Truth, NEW v \in Validators, Reverted(v)
  PROVE  LifeInv' /\ FaultsCounted
<1>1. LifeInv /\ UNCHANGED validation
  BY LifeInvNow DEF Reverted, Answered
<1>2. CASE UNCHANGED <<state, faults>>
  BY <1>1, <1>2, LifeStays, FaultStep
<1>3. ASSUME NEW fails, sent[v].kind = "add", Counted(fails),
             Take(v, HandleExistingValidator(v, Found(v), fails))
      PROVE  LifeInv' /\ FaultsCounted
  <2>1. validation[v].added
    BY <1>3 DEF Reverted, Truth, AnswersTrue
  <2>2. Good(v, HandleExistingValidator(v, Found(v), fails))
    BY <1>1, <2>1, FoundIsGood, ExistingIsGood
  <2>3. QED BY <1>1, <1>3, <2>2, TakeStep, FaultStep
<1>4. QED BY <1>2, <1>3 DEF Reverted

\* Where the jobs are, and what they have sent.
Places == {"idle", "handle", "send"} \cup Entries

JobTypes ==
  /\ sent \in [Validators -> Transactions] /\ orphans \subseteq Validators \X Kinds
  /\ registered \in [Validators -> BOOLEAN] /\ firstProcessed \in [Validators -> BOOLEAN]
  /\ ticked \in [Validators -> BOOLEAN] /\ job \in [Validators -> Places]
  /\ \A v \in Validators : (job[v] = "send") = (sent[v] # Nothing)

LEMMA TypesApart ==
  TypeOK <=> /\ height \in Blocks /\ validation \in [Validators -> Records]
             /\ idLookup \in [Validators -> Entries] /\ fetched \in [Validators -> Entries]
             /\ activeCount \in Nat /\ polling \in {"due", "fetched", "late", "stored"}
             /\ faults \in 0..MaxFaults
             /\ LifeTypes /\ JobTypes
BY DEF TypeOK, LifeTypes, JobTypes, Statuses, Places

\* A step that leaves the chain's records and the snapshot alone.
LEMMA QuietStep ==
  ASSUME IInv, UNCHANGED <<height, validation, idLookup, activeCount, polling, fetched>>,
         FaultsCounted, LifeInv', JobTypes',
         \A w \in Validators :
           /\ SaysTrue(w, job'[w])
           /\ sent'[w].result \in {"ok", "reverted"} => sent'[w] = sent[w]
           /\ sent'[w].kind = "exit" \/ <<w, "exit">> \in orphans' => ExitIsDue(w)
  PROVE  IInv'
<1>1. TypeOK'
  <2>1. /\ height' \in Blocks /\ validation' \in [Validators -> Records]
        /\ idLookup' \in [Validators -> Entries] /\ fetched' \in [Validators -> Entries]
        /\ activeCount' \in Nat /\ polling' \in {"due", "fetched", "late", "stored"}
    BY DEF IInv, TypeOK
  <2>2. faults' \in 0..MaxFaults /\ LifeTypes'
    BY DEF FaultsCounted, LifeInv
  <2>3. QED BY <2>1, <2>2 DEF TypeOK, LifeTypes, JobTypes, Statuses, Places
<1>2. RecordsInOrder'
  BY DEF IInv, Truth, RecordsInOrder
<1>3. ReadsTrue'
  BY DEF IInv, Truth, ReadsTrue, SaysTrue
<1>4. AnswersTrue'
  BY DEF IInv, Truth, AnswersTrue
<1>5. ExitsInTime'
  BY DEF ExitsInTime, ExitIsDue
<1>6. StaysItsPeriods'
  BY DEF IInv, StaysItsPeriods
<1>7. QED BY <1>1, <1>2, <1>3, <1>4, <1>5, <1>6 DEF IInv, Truth, LifeInv

LEMMA PlacesSayNothing ==
  \A w \in Validators : \A place \in {"idle", "handle", "send"} : SaysTrue(w, place)
BY DEF SaysTrue

\* The job of v goes somewhere, its transaction and those of the others stay.
LEMMA GoesStep ==
  ASSUME IInv, NEW v \in Validators, NEW place \in Places \ {"send"}, Goes(v, place),
         SaysTrue(v, place), job[v] # "send" \/ sent'[v] = Nothing,
         sent' = sent \/ sent' = [sent EXCEPT ![v] = Nothing]
  PROVE  /\ sent' \in [Validators -> Transactions] /\ job' \in [Validators -> Places]
         /\ \A w \in Validators :
              /\ (job'[w] = "send") = (sent'[w] # Nothing)
              /\ SaysTrue(w, job'[w])
              /\ sent'[w].result \in {"ok", "reverted"} => sent'[w] = sent[w]
              /\ sent'[w].kind = "exit" => ExitIsDue(w)
<1>1. /\ job \in [Validators -> Places] /\ sent \in [Validators -> Transactions]
      /\ \A w \in Validators : (job[w] = "send") = (sent[w] # Nothing)
  BY TypesApart DEF IInv, JobTypes
<1>2. \A w \in Validators : SaysTrue(w, job[w]) /\ (sent[w].kind = "exit" => ExitIsDue(w))
  BY DEF IInv, Truth, ReadsTrue, ExitsInTime
<1>3. Nothing \in Transactions /\ Nothing.kind = "none" /\ Nothing.result = "none"
  BY DEF Transactions, Nothing
<1>4. /\ job' \in [Validators -> Places] /\ sent' \in [Validators -> Transactions]
      /\ job'[v] = place /\ \A w \in Validators \ {v} : job'[w] = job[w]
      /\ \A w \in Validators \ {v} : sent'[w] = sent[w]
  BY <1>1, <1>3 DEF Goes
<1>5. sent'[v] = Nothing
  BY <1>1
<1>6. QED BY <1>1, <1>2, <1>3, <1>4, <1>5

LEMMA BooleanWith ==
  ASSUME NEW f \in [Validators -> BOOLEAN], NEW v \in Validators, NEW b \in BOOLEAN
  PROVE  [f EXCEPT ![v] = b] \in [Validators -> BOOLEAN]
OBVIOUS

LEMMA FirstCheckStep ==
  ASSUME IInv, NEW v \in Validators, FirstCheck(v)
  PROVE  IInv'
<1>1. TypeOK /\ Truth /\ JobTypes
  BY TypesApart DEF IInv
<1>2. PICK place \in {"idle", "handle"} \cup (Entries \ {"nil"}) :
        Goes(v, place) /\ SaysTrue(v, place)
  <2>1. CASE Goes(v, IF Status(v) = "absent" THEN "handle" ELSE Status(v))
    BY <1>1, <2>1, StatusIsTrue, PlacesSayNothing DEF Truth
  <2>2. CASE Goes(v, "idle")
    BY <2>2, PlacesSayNothing
  <2>3. QED BY <2>1, <2>2 DEF FirstCheck
<1>3. /\ sent' = sent /\ orphans' = orphans /\ registered' = registered
      /\ job[v] # "send" /\ ticked' = [ticked EXCEPT ![v] = TRUE]
      /\ firstProcessed' = [firstProcessed EXCEPT ![v] = TRUE]
      /\ UNCHANGED <<state, height, validation, idLookup, activeCount, polling, fetched>>
  BY DEF FirstCheck, Starts, MayStart, chainVars, serviceVars
<1>4. place \in Places \ {"send"}
  BY DEF Places, Entries
<1>5. /\ sent' \in [Validators -> Transactions] /\ job' \in [Validators -> Places]
      /\ \A w \in Validators :
           /\ (job'[w] = "send") = (sent'[w] # Nothing)
           /\ SaysTrue(w, job'[w])
           /\ sent'[w].result \in {"ok", "reverted"} => sent'[w] = sent[w]
           /\ sent'[w].kind = "exit" => ExitIsDue(w)
  BY <1>2, <1>3, <1>4, GoesStep
<1>6. JobTypes'
  BY <1>1, <1>3, <1>5, BooleanWith DEF JobTypes
<1>7. LifeInv'
  BY <1>1, <1>3, LifeInvNow, LifeStays
<1>8. FaultsCounted
  BY <1>1, FaultStep DEF FirstCheck
<1>9. \A w \in Validators : <<w, "exit">> \in orphans' => ExitIsDue(w)
  BY <1>3 DEF IInv, ExitsInTime
<1>10. QED BY <1>3, <1>5, <1>6, <1>7, <1>8, <1>9, QuietStep

LEMMA CheckExistingStep ==
  ASSUME IInv, NEW v \in Validators, CheckExisting(v)
  PROVE  IInv'
<1>1. TypeOK /\ Truth /\ JobTypes
  BY TypesApart DEF IInv
<1>2. /\ sent' = sent /\ orphans' = orphans /\ registered' = registered /\ ticked' = ticked
      /\ firstProcessed' = firstProcessed /\ job[v] # "send"
      /\ UNCHANGED <<height, validation, idLookup, activeCount, polling, fetched>>
  BY DEF CheckExisting, chainVars, serviceVars
<1>3. PICK fails : LET found == InitialState(v, job[v], fails)
                   IN  /\ Counted(fails) /\ Take(v, found)
                       /\ Goes(v, IF found.err THEN "idle" ELSE "handle")
  BY DEF CheckExisting
<1>4. Good(v, InitialState(v, job[v], fails))
  <2>1. job[v] \in {"queued", "active", "exiting", "exit"} /\ SaysTrue(v, job[v])
    BY <1>1 DEF CheckExisting, Truth, ReadsTrue
  <2>2. QED BY <1>1, <2>1, InitialStateIsGood
<1>5. LifeInv'
  BY <1>1, <1>2, <1>3, <1>4, LifeInvNow, TakeStep
<1>6. PICK place \in {"idle", "handle"} : Goes(v, place)
  BY <1>3
<1>7. /\ sent' \in [Validators -> Transactions] /\ job' \in [Validators -> Places]
      /\ \A w \in Validators :
           /\ (job'[w] = "send") = (sent'[w] # Nothing)
           /\ SaysTrue(w, job'[w])
           /\ sent'[w].result \in {"ok", "reverted"} => sent'[w] = sent[w]
           /\ sent'[w].kind = "exit" => ExitIsDue(w)
  <2>1. place \in Places \ {"send"} /\ SaysTrue(v, place)
    BY PlacesSayNothing DEF Places
  <2>2. QED BY <1>2, <1>6, <2>1, GoesStep
<1>8. JobTypes'
  BY <1>1, <1>2, <1>7 DEF JobTypes
<1>9. FaultsCounted
  BY <1>1, <1>3, FaultStep
<1>10. \A w \in Validators : <<w, "exit">> \in orphans' => ExitIsDue(w)
  BY <1>2 DEF IInv, ExitsInTime
<1>11. QED BY <1>2, <1>5, <1>7, <1>8, <1>9, <1>10, QuietStep

LEMMA RegistrationTypes ==
  ASSUME registered \in [Validators -> BOOLEAN], NEW v \in Validators,
         handleDelegationRegistration(v)
  PROVE  registered' \in [Validators -> BOOLEAN]
<1>1. CASE LookupAddress(v) = "exit"
  <2>1. registered' = [registered EXCEPT ![v] = FALSE]
    BY <1>1 DEF handleDelegationRegistration
  <2>2. QED BY <2>1
<1>2. CASE LookupAddress(v) \in {"active", "exiting"}
  <2>1. registered' = [registered EXCEPT ![v] = TRUE]
    BY <1>2 DEF handleDelegationRegistration
  <2>2. QED BY <2>1
<1>3. CASE LookupAddress(v) \notin {"active", "exiting", "exit"}
  <2>1. registered' = [registered EXCEPT ![v] = registered[v]]
    BY <1>3 DEF handleDelegationRegistration
  <2>2. QED BY <2>1
<1>4. QED BY <1>1, <1>2, <1>3

LEMMA SentExitIsDue ==
  ASSUME IInv, NEW v \in Validators, MaySend(v, "exit")
  PROVE  ExitIsDue(v)
<1>1. status[v] = Active /\ ExitDue(v)
  BY DEF MaySend
<1>2. activatedBlock[v] = validation[v].start /\ validation[v].start # 0
  BY <1>1 DEF IInv, Truth, StatusWasTrue
<1>3. QED BY <1>1, <1>2 DEF ExitDue, ExitIsDue

LEMMA ProcessPreserves ==
  ASSUME IInv, NEW v \in Validators, Process(v)
  PROVE  IInv'
<1>1. TypeOK /\ Truth /\ JobTypes
  BY TypesApart DEF IInv
<1>2. ProcessDoes(v)
  BY <1>1, ProcessStep
<1>3. /\ job[v] \in {"idle", "handle"} /\ firstProcessed' = firstProcessed
      /\ UNCHANGED <<height, validation, idLookup, activeCount, polling, fetched>>
      /\ ticked' = ticked \/ ticked' = [ticked EXCEPT ![v] = TRUE]
  BY DEF Process, Starts, MayStart, serviceVars
<1>4. registered' \in [Validators -> BOOLEAN]
  BY <1>1, RegistrationTypes DEF JobTypes, Process
<1>5. firstProcessed' \in [Validators -> BOOLEAN] /\ ticked' \in [Validators -> BOOLEAN]
  BY <1>1, <1>3, BooleanWith DEF JobTypes
<1> DEFINE Apart ==
      /\ sent' \in [Validators -> Transactions] /\ job' \in [Validators -> Places]
      /\ \A w \in Validators :
           /\ (job'[w] = "send") = (sent'[w] # Nothing)
           /\ SaysTrue(w, job'[w])
           /\ sent'[w].result \in {"ok", "reverted"} => sent'[w] = sent[w]
           /\ sent'[w].kind = "exit" => ExitIsDue(w)
<1>6. ASSUME Goes(v, "idle"), sent' = sent PROVE Apart
  <2>1. "idle" \in Places \ {"send"} /\ SaysTrue(v, "idle") /\ job[v] # "send"
    BY <1>3, PlacesSayNothing DEF Places
  <2>2. QED BY <1>6, <2>1, GoesStep
<1>7. orphans \subseteq Validators \X Kinds
      /\ \A w \in Validators : <<w, "exit">> \in orphans => ExitIsDue(w)
  BY <1>1 DEF JobTypes, IInv, ExitsInTime
<1>8. /\ Apart /\ orphans' \subseteq Validators \X Kinds
      /\ \A w \in Validators : <<w, "exit">> \in orphans' => ExitIsDue(w)
  <2>1. CASE Returns(v)
    BY <1>6, <1>7, <2>1 DEF Returns
  <2>2. ASSUME NEW kind \in Kinds, SendTransactionAndWait(v, kind), MaySend(v, kind)
        PROVE  /\ Apart /\ orphans' \subseteq Validators \X Kinds
               /\ \A w \in Validators : <<w, "exit">> \in orphans' => ExitIsDue(w)
    <3>1. kind = "exit" => ExitIsDue(v)
      BY <2>2, SentExitIsDue
    <3>2. CASE /\ sent' = [sent EXCEPT ![v] = [kind |-> kind, result |-> "waiting"]]
               /\ Goes(v, "send") /\ UNCHANGED orphans
      <4>1. /\ job \in [Validators -> Places] /\ sent \in [Validators -> Transactions]
            /\ \A w \in Validators : (job[w] = "send") = (sent[w] # Nothing)
        BY <1>1 DEF JobTypes
      <4>2. \A w \in Validators :
              SaysTrue(w, job[w]) /\ (sent[w].kind = "exit" => ExitIsDue(w))
        BY DEF IInv, Truth, ReadsTrue, ExitsInTime
      <4> DEFINE tx == [kind |-> kind, result |-> "waiting"]
      <4>3. /\ tx \in Transactions /\ tx # Nothing /\ tx.kind = kind
            /\ tx.result = "waiting"
        BY DEF Transactions, Nothing, Results, Kinds
      <4> HIDE DEF tx
      <4>4. /\ sent' \in [Validators -> Transactions] /\ sent'[v] = tx
            /\ \A w \in Validators \ {v} : sent'[w] = sent[w]
        BY <3>2, <4>1, <4>3 DEF tx
      <4>5. /\ job' \in [Validators -> Places] /\ job'[v] = "send"
            /\ \A w \in Validators \ {v} : job'[w] = job[w]
        BY <3>2, <4>1 DEF Goes, Places
      <4>6. SaysTrue(v, "send")
        BY PlacesSayNothing
      <4>7. Apart
        BY <3>1, <4>1, <4>2, <4>3, <4>4, <4>5, <4>6
      <4>8. QED BY <1>7, <3>2, <4>7
    <3>3. CASE /\ orphans' \in {orphans, orphans \cup {<<v, kind>>}}
               /\ Goes(v, "idle") /\ UNCHANGED sent
      <4> HIDE DEF Apart
      <4>1. Apart
        BY <1>6, <3>3
      <4>2. orphans' \subseteq Validators \X Kinds
        BY <1>7, <3>3
      <4>3. \A w \in Validators : <<w, "exit">> \in orphans' => ExitIsDue(w)
        BY <1>7, <3>1, <3>3
      <4>4. QED BY <4>1, <4>2, <4>3
    <3>4. QED BY <2>2, <3>2, <3>3 DEF SendTransactionAndWait
  <2>3. QED BY <1>2, <2>1, <2>2 DEF ProcessDoes, Sends
<1>9. JobTypes'
  BY <1>4, <1>5, <1>8 DEF JobTypes
<1>10. QED BY <1>2, <1>3, <1>8, <1>9, QuietStep DEF ProcessDoes

LEMMA WaitingKind ==
  ASSUME NEW tx \in Transactions, tx.result # "none"
  PROVE  tx.kind \in Kinds
BY DEF Transactions, Nothing

LEMMA AnsweredPreserves ==
  ASSUME IInv, NEW v \in Validators, Answered(v), LifeInv', FaultsCounted,
         \/ orphans' = orphans
         \/ sent[v].result = "waiting" /\ orphans' = orphans \cup {<<v, sent[v].kind>>}
  PROVE  IInv'
<1>1. TypeOK /\ Truth /\ JobTypes
  BY TypesApart DEF IInv
<1>2. /\ sent' = [sent EXCEPT ![v] = Nothing] /\ Goes(v, "idle")
      /\ firstProcessed' = firstProcessed /\ ticked' = ticked /\ registered' = registered
      /\ UNCHANGED <<height, validation, idLookup, activeCount, polling, fetched>>
  BY DEF Answered, serviceVars
<1>3. sent \in [Validators -> Transactions]
  BY <1>1 DEF JobTypes
<1>4. /\ sent' \in [Validators -> Transactions] /\ job' \in [Validators -> Places]
      /\ \A w \in Validators :
           /\ (job'[w] = "send") = (sent'[w] # Nothing)
           /\ SaysTrue(w, job'[w])
           /\ sent'[w].result \in {"ok", "reverted"} => sent'[w] = sent[w]
           /\ sent'[w].kind = "exit" => ExitIsDue(w)
  <2>1. "idle" \in Places \ {"send"} /\ SaysTrue(v, "idle")
    BY PlacesSayNothing DEF Places
  <2>2. sent'[v] = Nothing
    BY <1>2, <1>3
  <2>3. QED BY <1>2, <2>1, <2>2, GoesStep
<1>5. /\ orphans' \subseteq Validators \X Kinds
      /\ \A w \in Validators : <<w, "exit">> \in orphans' => ExitIsDue(w)
  <2>1. /\ orphans \subseteq Validators \X Kinds
        /\ \A w \in Validators :
             <<w, "exit">> \in orphans \/ sent[w].kind = "exit" => ExitIsDue(w)
    BY <1>1 DEF JobTypes, IInv, ExitsInTime
  <2>2. CASE orphans' = orphans
    BY <2>1, <2>2
  <2>3. CASE sent[v].result = "waiting" /\ orphans' = orphans \cup {<<v, sent[v].kind>>}
    <3>1. sent[v].kind \in Kinds
      BY <1>3, <2>3, WaitingKind
    <3>2. QED BY <2>1, <2>3, <3>1
  <2>4. QED BY <2>2, <2>3
<1>6. JobTypes'
  BY <1>1, <1>2, <1>4, <1>5 DEF JobTypes
<1>7. QED BY <1>2, <1>4, <1>5, <1>6, QuietStep

LEMMA AnswersPreserve ==
  ASSUME IInv, NEW v \in Validators, Confirmed(v) \/ Reverted(v) \/ Timeout(v)
  PROVE  IInv'
<1>1. TypeOK /\ Truth
  BY DEF IInv
<1>2. CASE Confirmed(v)
  <2>1. LifeInv' /\ FaultsCounted /\ Answered(v) /\ orphans' = orphans
    BY <1>1, <1>2, ConfirmedStep, FaultStep DEF Confirmed
  <2>2. QED BY <2>1, AnsweredPreserves
<1>3. CASE Reverted(v)
  <2>1. LifeInv' /\ FaultsCounted /\ Answered(v) /\ orphans' = orphans
    BY <1>1, <1>3, RevertedStep DEF Reverted
  <2>2. QED BY <2>1, AnsweredPreserves
<1>4. CASE Timeout(v)
  <2>1. FaultsCounted
    BY <1>1, <1>4, FaultStep DEF Timeout
  <2>2. LifeInv' /\ Answered(v)
    BY <1>1, <1>4, LifeInvNow, LifeStays DEF Timeout, Answered
  <2>3. \/ orphans' = orphans
        \/ sent[v].result = "waiting" /\ orphans' = orphans \cup {<<v, sent[v].kind>>}
    BY <1>4 DEF Timeout
  <2>4. QED BY <2>1, <2>2, <2>3, AnsweredPreserves
<1>5. QED BY <1>2, <1>3, <1>4

-----------------------------------------------------------------------------
(* The program's life, poll, blocks and the mempool. *)

LEMMA NewLifecycles ==
  ASSUME \A v \in Validators : /\ status[v] = 0 /\ activatedBlock[v] = 0 /\ ~queuedReceipt[v]
                                /\ exitReceipt[v] = 0 /\ ~withdrawReceipt[v]
  PROVE  KeptTrue /\ StatusWasTrue
BY DEF KeptTrue, StatusWasTrue, Queued, Active, ExitSignalled

LEMMA InitInv == Init => IInv
<1> SUFFICES ASSUME Init PROVE IInv
  OBVIOUS
<1> USE DEF Init, LifecyclesInit, ServiceInit
<1>1. LifeInv
  <2>1. LifeTypes
    BY Numbers DEF LifeTypes, All, Statuses, Pending, Withdrawn
  <2>2. \A v \in Validators :
          /\ status[v] = 0 /\ activatedBlock[v] = 0 /\ ~queuedReceipt[v]
          /\ exitReceipt[v] = 0 /\ ~withdrawReceipt[v]
    BY DEF All, Pending
  <2>3. KeptTrue /\ StatusWasTrue
    BY <2>2, NewLifecycles
  <2>4. QED BY <2>1, <2>3 DEF LifeInv
<1>2. Unknown \in Records /\ InOrder(Unknown, 0)
  BY Numbers DEF Unknown, Records, InOrder
<1>3. \A v \in Validators :
        /\ validation[v] = Unknown /\ sent[v] = Nothing /\ job[v] = "idle"
        /\ idLookup[v] = "absent" /\ fetched[v] = "absent"
  BY DEF All, Nobody
<1>4. JobTypes
  <2>1. Nothing \in Transactions /\ {"idle"} \subseteq Places
    BY DEF Transactions, Places
  <2>2. QED BY <1>3, <2>1 DEF JobTypes, All
<1>5. TypeOK
  <2>1. height \in Blocks /\ validation \in [Validators -> Records]
    BY <1>2, Numbers DEF All
  <2>2. idLookup \in [Validators -> Entries] /\ fetched \in [Validators -> Entries]
    BY DEF Nobody, Entries
  <2>3. faults \in 0..MaxFaults
    BY Numbers
  <2>4. QED BY <1>1, <1>4, <2>1, <2>2, <2>3, TypesApart DEF LifeInv
<1>6. RecordsInOrder
  BY <1>2, <1>3 DEF RecordsInOrder
<1>7. ReadsTrue
  BY <1>3 DEF ReadsTrue, SaysTrue
<1>8. AnswersTrue /\ ExitsInTime
  BY <1>3 DEF AnswersTrue, ExitsInTime, Nothing
<1>9. StaysItsPeriods
  BY <1>3 DEF StaysItsPeriods, Unknown
<1>10. QED BY <1>1, <1>5, <1>6, <1>7, <1>8, <1>9 DEF IInv, Truth, LifeInv

LEMMA BeginsAnewPreserves ==
  ASSUME IInv, BeginsAnew, FaultsCounted
  PROVE  IInv'
<1>1. TypeOK /\ Truth /\ JobTypes
  BY TypesApart DEF IInv
<1>2. LifeInv'
  <2>1. /\ status' = All(Pending) /\ activatedBlock' = All(0) /\ queuedReceipt' = All(FALSE)
        /\ exitReceipt' = All(0) /\ withdrawReceipt' = All(FALSE)
    BY DEF BeginsAnew
  <2>2. LifeTypes'
    BY <2>1, Numbers DEF LifeTypes, All, Statuses, Pending, Withdrawn
  <2>3. \A v \in Validators :
          /\ status'[v] = 0 /\ activatedBlock'[v] = 0 /\ ~queuedReceipt'[v]
          /\ exitReceipt'[v] = 0 /\ ~withdrawReceipt'[v]
    BY <2>1 DEF All, Pending
  <2>4. (KeptTrue /\ StatusWasTrue)'
    BY <2>3 DEF KeptTrue, StatusWasTrue, Queued, Active, ExitSignalled
  <2>5. QED BY <2>2, <2>4 DEF LifeInv
<1>3. \A w \in Validators :
        /\ sent'[w] = Nothing /\ job'[w] = "idle"
        /\ idLookup'[w] = "absent" /\ fetched'[w] = "absent"
  BY DEF BeginsAnew, All, Nobody
<1>4. /\ orphans' \subseteq Validators \X Kinds
      /\ \A w \in Validators : <<w, "exit">> \in orphans' => ExitIsDue(w)
  <2>1. /\ orphans \subseteq Validators \X Kinds /\ sent \in [Validators -> Transactions]
        /\ \A w \in Validators :
             <<w, "exit">> \in orphans \/ sent[w].kind = "exit" => ExitIsDue(w)
    BY <1>1 DEF JobTypes, IInv, ExitsInTime
  <2>2. \A w \in Validators : Waiting(w) => sent[w].kind \in Kinds
    BY <2>1, WaitingKind DEF Waiting
  <2>3. orphans' = orphans \cup {<<w, sent[w].kind>> : w \in {x \in Validators : Waiting(x)}}
    BY DEF BeginsAnew
  <2>4. QED BY <2>1, <2>2, <2>3
<1>5. JobTypes'
  <2>1. Nothing \in Transactions /\ "idle" \in Places
    BY DEF Transactions, Places
  <2>2. sent' \in [Validators -> Transactions] /\ job' \in [Validators -> Places]
    BY <2>1 DEF BeginsAnew, All
  <2>3. /\ registered' \in [Validators -> BOOLEAN] /\ firstProcessed' \in [Validators -> BOOLEAN]
        /\ ticked' \in [Validators -> BOOLEAN]
    BY DEF BeginsAnew, All
  <2>4. QED BY <1>3, <1>4, <2>2, <2>3 DEF JobTypes
<1>6. TypeOK'
  <2>1. height' \in Blocks /\ validation' \in [Validators -> Records]
    BY <1>1 DEF TypeOK, BeginsAnew
  <2>2. /\ idLookup' \in [Validators -> Entries] /\ fetched' \in [Validators -> Entries]
        /\ activeCount' \in Nat /\ polling' \in {"due", "fetched", "late", "stored"}
    BY DEF BeginsAnew, Nobody, Entries
  <2>3. QED BY <1>2, <1>5, <2>1, <2>2
          DEF TypeOK, LifeTypes, JobTypes, Statuses, Places, LifeInv, FaultsCounted
<1>7. RecordsInOrder' /\ StaysItsPeriods'
  BY DEF BeginsAnew, IInv, Truth, RecordsInOrder, StaysItsPeriods
<1>8. ReadsTrue'
  BY <1>3 DEF ReadsTrue, SaysTrue
<1>9. AnswersTrue'
  BY <1>3 DEF AnswersTrue, Nothing
<1>10. ExitsInTime'
  BY <1>3, <1>4 DEF BeginsAnew, ExitsInTime, ExitIsDue, Nothing
<1>11. QED BY <1>2, <1>6, <1>7, <1>8, <1>9, <1>10 DEF IInv, Truth, LifeInv

\* A validator's state only advances, so what was true of it ranks below its state.
LEMMA RankNumbers ==
  /\ Rank["absent"] = 0 /\ Rank["queued"] = 1 /\ Rank["active"] = 2
  /\ Rank["exiting"] = 3 /\ Rank["exit"] = 4
BY DEF Rank

LEMMA TrueRanksBelow ==
  ASSUME TypeOK, RecordsInOrder, NEW v \in Validators, NEW entry \in Entries \ {"nil"},
         SaysTrue(v, entry)
  PROVE  Rank[Status(v)] >= Rank[entry]
<1>1. /\ Status(v) \in {"absent", "queued", "active", "exiting", "exit"}
      /\ entry \in {"absent", "queued", "active", "exiting", "exit"}
  BY StatusIsTrue DEF Entries
<1>2. entry = "exit" => Status(v) = "exit"
  BY StatusIsTrue DEF SaysTrue
<1>3. entry = "exiting" => Status(v) \in {"exiting", "exit"}
  BY DEF SaysTrue, Status, StatusAt
<1>4. entry = "active" => Status(v) \in {"active", "exiting", "exit"}
  BY DEF SaysTrue, Status, StatusAt
<1>5. entry = "queued" => Status(v) # "absent"
  BY StatusIsTrue DEF SaysTrue
<1>6. QED BY <1>1, <1>2, <1>3, <1>4, <1>5, RankNumbers

LEMMA LookupAfterIs ==
  ASSUME TypeOK, Truth, NEW failing \in SUBSET Left, NEW v \in Validators
  PROVE  /\ LookupAfter(failing)[v] \in Entries
         /\ LookupAfter(failing)[v] = "nil" \/ SaysTrue(v, LookupAfter(failing)[v])
         /\ LookupAfter(failing)[v] # "nil" /\ v \in Left =>
              LookupAfter(failing)[v] = Status(v)
         /\ v \notin Left => LookupAfter(failing)[v] = fetched[v]
<1>1. LookupAfter(failing)[v] = IF v \in failing THEN "nil"
                                ELSE IF v \in Left THEN Status(v) ELSE fetched[v]
  BY DEF LookupAfter
<1>2. Status(v) \in Entries /\ SaysTrue(v, Status(v))
  BY StatusIsTrue DEF Truth
<1>3. fetched[v] \in Entries /\ SaysTrue(v, fetched[v])
  BY DEF TypeOK, Truth, ReadsTrue
<1>4. "nil" \in Entries
  BY DEF Entries
<1>5. QED BY <1>1, <1>2, <1>3, <1>4

LEMMA PollStep ==
  ASSUME IInv, Poll
  PROVE  IInv'
<1>1. TypeOK /\ Truth /\ RecordsInOrder
  BY DEF IInv, Truth
<1>2. /\ UNCHANGED <<height, validation, sent, orphans>>
      /\ UNCHANGED <<state, firstProcessed, registered, job, ticked>>
  BY DEF Poll, chainVars
<1>3. FaultsCounted
  BY <1>1, FaultStep DEF Poll, PollFails, PollStore
<1>4. /\ idLookup' \in [Validators -> Entries] /\ fetched' \in [Validators -> Entries]
      /\ activeCount' \in Nat /\ polling' \in {"due", "fetched", "late", "stored"}
      /\ \A v \in Validators :
           /\ SaysTrue(v, idLookup'[v]) /\ SaysTrue(v, fetched'[v])
           /\ fetched'[v] \notin {"nil", "exit"}
           /\ fetched'[v] # "absent" /\ idLookup'[v] # "nil" =>
                Rank[fetched'[v]] >= Rank[idLookup'[v]]
  <2>1. CASE PollFetch
    <3>1. /\ idLookup' = idLookup /\ activeCount' = activeCount /\ polling' = "fetched"
          /\ fetched' = FetchAll
      BY <2>1 DEF PollFetch
    <3>2. \A v \in Validators :
            /\ fetched'[v] \in Entries /\ SaysTrue(v, fetched'[v])
            /\ fetched'[v] \notin {"nil", "exit"}
            /\ fetched'[v] # "absent" => fetched'[v] = Status(v)
      <4> SUFFICES ASSUME NEW v \in Validators
                   PROVE  /\ fetched'[v] \in Entries /\ SaysTrue(v, fetched'[v])
                          /\ fetched'[v] \notin {"nil", "exit"}
                          /\ fetched'[v] # "absent" => fetched'[v] = Status(v)
        OBVIOUS
      <4>1. fetched'[v] = IF Status(v) = "exit" THEN "absent" ELSE Status(v)
        BY <3>1 DEF FetchAll
      <4>2. SaysTrue(v, "absent") /\ "absent" \in Entries
        BY DEF SaysTrue, Entries
      <4>3. QED BY <1>1, <4>1, <4>2, StatusIsTrue
    <3>3. \A v \in Validators : fetched'[v] # "absent" /\ idLookup[v] # "nil" =>
                                  Rank[fetched'[v]] >= Rank[idLookup[v]]
      <4> SUFFICES ASSUME NEW v \in Validators, idLookup[v] # "nil"
                   PROVE  Rank[Status(v)] >= Rank[idLookup[v]]
        BY <3>2
      <4>1. idLookup[v] \in Entries \ {"nil"} /\ SaysTrue(v, idLookup[v])
        BY <1>1 DEF TypeOK, Truth, ReadsTrue
      <4>2. QED BY <1>1, <4>1, TrueRanksBelow
    <3>4. \A v \in Validators : SaysTrue(v, idLookup[v])
      BY <1>1 DEF Truth, ReadsTrue
    <3>5. fetched' \in [Validators -> Entries]
      BY <3>1, <3>2 DEF FetchAll
    <3>6. QED BY <1>1, <3>1, <3>2, <3>3, <3>4, <3>5 DEF TypeOK
  <2>2. CASE PollFails
    BY <1>1, <2>2 DEF PollFails, TypeOK, Truth, ReadsTrue
  <2>3. CASE PollStore
    <3>1. PICK failing \in SUBSET Left : idLookup' = LookupAfter(failing)
      BY <2>3 DEF PollStore
    <3>2. /\ fetched' = Nobody /\ polling' \in {"due", "stored"}
          /\ activeCount' = Others + Cardinality({v \in Validators : fetched[v] = "active"})
      BY <2>3 DEF PollStore
    <3>3. activeCount' \in Nat
      <4>1. Cardinality({v \in Validators : fetched[v] = "active"}) \in Nat
        BY ServiceAssumption, FS_Subset, FS_CardinalityType
      <4>2. QED BY <3>2, <4>1, ServiceAssumption
    <3>4. \A v \in Validators : fetched'[v] = "absent"
      BY <3>2 DEF Nobody
    <3>5. fetched' \in [Validators -> Entries]
      BY <3>2 DEF Nobody, Entries
    <3>6. \A v \in Validators : idLookup'[v] \in Entries /\ SaysTrue(v, idLookup'[v])
      <4>1. \A v \in Validators : SaysTrue(v, "nil")
        BY DEF SaysTrue
      <4>2. QED BY <1>1, <3>1, <4>1, LookupAfterIs
    <3>7. idLookup' \in [Validators -> Entries]
      BY <3>1, <3>6 DEF LookupAfter
    <3>8. \A v \in Validators : SaysTrue(v, "absent")
      BY DEF SaysTrue
    <3>9. QED BY <3>2, <3>3, <3>4, <3>5, <3>6, <3>7, <3>8
  <2>4. QED BY <2>1, <2>2, <2>3 DEF Poll
<1>5. LifeInv'
  BY <1>1, <1>2, LifeInvNow, LifeStays
<1>6. JobTypes'
  BY <1>1, <1>2, TypesApart DEF JobTypes
<1>7. TypeOK'
  BY <1>1, <1>2, <1>3, <1>4, <1>5, <1>6
     DEF TypeOK, LifeTypes, JobTypes, Statuses, Places, LifeInv, FaultsCounted
<1>8. ReadsTrue'
  BY <1>1, <1>2, <1>4 DEF Truth, ReadsTrue, SaysTrue
<1>9. (RecordsInOrder /\ AnswersTrue /\ ExitsInTime /\ StaysItsPeriods)'
  BY <1>2 DEF IInv, Truth, RecordsInOrder, AnswersTrue, ExitsInTime, ExitIsDue, StaysItsPeriods
<1>10. QED BY <1>5, <1>7, <1>8, <1>9 DEF IInv, Truth, LifeInv

LEMMA MinExitIsInteger == \A n \in Blocks : MinExitBlock(StakingPeriods, n, PeriodLength) \in Int
BY Numbers, MaxUint32Assumption DEF MinExitBlock, uint32

LEMMA NewBlockStep ==
  ASSUME IInv, NewBlock
  PROVE  IInv'
<1>1. TypeOK /\ Truth /\ RecordsInOrder /\ LifeInv /\ JobTypes
  BY LifeInvNow, TypesApart DEF IInv, Truth
<1>2. PICK activated \in SUBSET Validators, mined \in SUBSET Validators,
           orphan \in [Validators -> Kinds \cup {"none"}] : Block(activated, mined, orphan)
  BY DEF NewBlock
<1>3. /\ height' = height + 1 /\ height' \in Blocks \ {0} /\ orphans' \subseteq orphans
      /\ validation' \in [Validators -> Records] /\ sent' \in [Validators -> Transactions]
      /\ \A v \in Validators : BlockDoes(v)
  BY <1>1, <1>2, BlockStep
<1>4. /\ UNCHANGED <<idLookup, activeCount, fetched, faults, state>>
      /\ UNCHANGED <<firstProcessed, registered, job>>
      /\ ticked' = [v \in Validators |-> FALSE]
      /\ polling' \in {polling, "due", "late"}
  BY DEF NewBlock, PollAfterBlock
<1>5. \A v \in Validators :
        /\ Grows(validation[v], validation'[v]) /\ InOrder(validation'[v], height')
        /\ InOrder(validation[v], height) /\ validation[v] \in Records
        /\ validation'[v] \in Records
  BY <1>1, <1>3 DEF BlockDoes, RecordsInOrder, TypeOK
<1>6. LifeInv'
  <2>1. LifeTypes'
    BY <1>1, <1>4 DEF LifeInv, LifeTypes, state, receipts
  <2>2. (KeptTrue /\ StatusWasTrue)'
    BY <1>1, <1>4, <1>5 DEF LifeInv, KeptTrue, StatusWasTrue, Grows, state, receipts
  <2>3. QED BY <2>1, <2>2 DEF LifeInv
<1>7. TypeOK'
  <2>1. orphans' \subseteq Validators \X Kinds
    BY <1>1, <1>3 DEF JobTypes
  <2>2. \A v \in Validators : (job'[v] = "send") = (sent'[v] # Nothing)
    BY <1>1, <1>3, <1>4 DEF JobTypes, BlockDoes
  <2>3. ticked' \in [Validators -> BOOLEAN]
    BY <1>4
  <2>4. JobTypes'
    BY <1>1, <1>3, <1>4, <2>1, <2>2, <2>3 DEF JobTypes
  <2>5. polling' \in {"due", "fetched", "late", "stored"} /\ height' \in Blocks
    BY <1>1, <1>3, <1>4 DEF TypeOK
  <2>6. QED BY <1>1, <1>3, <1>4, <1>6, <2>4, <2>5
          DEF TypeOK, LifeTypes, JobTypes, Statuses, Places, LifeInv
<1>8. RecordsInOrder'
  BY <1>5 DEF RecordsInOrder
<1>9. ReadsTrue'
  <2>1. \A v \in Validators : Exited(validation[v], height) =>
                                Exited(validation'[v], height')
    <3> SUFFICES ASSUME NEW v \in Validators, Exited(validation[v], height)
                 PROVE  Exited(validation'[v], height')
      OBVIOUS
    <3> DEFINE r == validation[v]
               s == validation'[v]
    <3>1. r.signalled # 0 /\ r.start # 0
      BY <1>5 DEF Exited, InOrder
    <3>2. s.signalled = r.signalled /\ s.start = r.start
      BY <1>5, <3>1 DEF Grows
    <3>3. Exited(r, height')
      <4>1. height \in Blocks /\ height \in Int /\ height' \in Int /\ height <= height'
        BY <1>1, <1>3, Numbers DEF TypeOK, Blocks
      <4> HIDE DEF r
      <4>2. r \in Records /\ InOrder(r, height) /\ Exited(r, height)
        BY <1>5 DEF r
      <4>3. QED BY <4>1, <4>2, ExitedLater
    <3>4. QED BY <3>2, <3>3 DEF Exited, ExitBlock
  <2>2. \A v \in Validators :
          /\ validation[v].added => validation'[v].added
          /\ validation[v].start # 0 => validation'[v].start # 0
          /\ validation[v].signalled # 0 => validation'[v].signalled # 0
    BY <1>5 DEF Grows
  <2>3. \A v \in Validators, entry \in Places : SaysTrue(v, entry) => SaysTrue(v, entry)'
    BY <2>1, <2>2 DEF SaysTrue
  <2>4. \A v \in Validators :
          idLookup[v] \in Places /\ fetched[v] \in Places /\ job[v] \in Places
    BY <1>1 DEF TypeOK, JobTypes, Places
  <2>5. QED BY <1>1, <1>4, <2>3, <2>4 DEF Truth, ReadsTrue, SaysTrue
<1>10. AnswersTrue'
  <2> SUFFICES ASSUME NEW v \in Validators
               PROVE  /\ sent'[v].kind = "add" /\ sent'[v].result \in {"ok", "reverted"} =>
                           validation'[v].added
                      /\ sent'[v].kind = "exit" /\ sent'[v].result = "ok" =>
                           validation'[v].signalled # 0
                      /\ sent'[v].kind = "withdraw" /\ sent'[v].result = "ok" =>
                           validation'[v].withdrawn
    BY DEF AnswersTrue
  <2>1. CASE sent'[v] = sent[v]
    BY <1>1, <1>5, <2>1 DEF Truth, AnswersTrue, Grows
  <2>2. CASE sent'[v] # sent[v]
    BY <1>3, <2>2 DEF BlockDoes, Done
  <2>3. QED BY <2>1, <2>2
<1>11. \A v \in Validators : ExitIsDue(v) => ExitIsDue(v)' /\ validation'[v].start = validation[v].start
  <2> SUFFICES ASSUME NEW v \in Validators, ExitIsDue(v)
               PROVE  ExitIsDue(v)' /\ validation'[v].start = validation[v].start
    OBVIOUS
  <2>1. validation'[v].start = validation[v].start /\ validation[v].start # 0
    BY <1>5 DEF ExitIsDue, Grows
  <2>2. MinExitBlock(StakingPeriods, validation[v].start, PeriodLength) \in Int
    BY <1>5, MinExitIsInteger DEF Records
  <2>3. height' >= MinExitBlock(StakingPeriods, validation[v].start, PeriodLength)
    BY <1>1, <1>3, <2>2, Numbers DEF ExitIsDue, TypeOK, Blocks
  <2>4. QED BY <2>1, <2>3 DEF ExitIsDue
<1>12. ExitsInTime'
  <2>1. \A v \in Validators : sent'[v].kind = sent[v].kind
    BY <1>3 DEF BlockDoes
  <2>2. \A v \in Validators :
          sent'[v].kind = "exit" \/ <<v, "exit">> \in orphans' => ExitIsDue(v)
    BY <1>3, <2>1 DEF IInv, ExitsInTime
  <2>3. QED BY <1>11, <2>2 DEF ExitsInTime
<1>13. StaysItsPeriods'
  <2> SUFFICES ASSUME NEW v \in Validators, validation'[v].signalled # 0
               PROVE  validation'[v].signalled >=
                        MinExitBlock(StakingPeriods, validation'[v].start, PeriodLength)
    BY DEF StaysItsPeriods
  <2>1. CASE validation[v].signalled # 0
    <3>1. /\ validation'[v].signalled = validation[v].signalled
          /\ validation'[v].start = validation[v].start
      BY <1>5, <2>1 DEF Grows, InOrder
    <3>2. QED BY <2>1, <3>1 DEF IInv, StaysItsPeriods
  <2>2. CASE validation[v].signalled = 0
    <3>1. /\ validation'[v].signalled = height'
          /\ sent[v].kind = "exit" \/ <<v, "exit">> \in orphans
      BY <1>3, <2>2 DEF BlockDoes
    <3>2. ExitIsDue(v)
      BY <3>1 DEF IInv, ExitsInTime
    <3>3. ExitIsDue(v)'
      BY <1>11, <3>2
    <3>4. QED BY <3>1, <3>3 DEF ExitIsDue
  <2>3. QED BY <2>1, <2>2
<1>14. QED BY <1>6, <1>7, <1>8, <1>9, <1>10, <1>12, <1>13 DEF IInv, Truth, LifeInv

LEMMA MempoolStep ==
  ASSUME IInv, Mempool
  PROVE  IInv'
<1>1. TypeOK /\ Truth /\ JobTypes
  BY TypesApart DEF IInv
<1>2. /\ UNCHANGED <<height, validation, idLookup, activeCount, polling, fetched>>
      /\ UNCHANGED <<faults, state, registered, firstProcessed, job, ticked>>
  BY DEF Mempool, Expire, ExpireOrphan, serviceVars
<1>3. /\ orphans' \subseteq orphans /\ sent' \in [Validators -> Transactions]
      /\ \A w \in Validators :
           /\ sent'[w].kind = sent[w].kind /\ (sent'[w] = Nothing) = (sent[w] = Nothing)
           /\ sent'[w].result \in {"ok", "reverted"} => sent'[w] = sent[w]
  <2>1. CASE \E o \in orphans : ExpireOrphan(o)
    BY <1>1, <2>1 DEF ExpireOrphan, JobTypes
  <2>2. ASSUME NEW v \in Validators, Expire(v)
        PROVE  /\ orphans' \subseteq orphans /\ sent' \in [Validators -> Transactions]
               /\ \A w \in Validators :
                    /\ sent'[w].kind = sent[w].kind /\ (sent'[w] = Nothing) = (sent[w] = Nothing)
                    /\ sent'[w].result \in {"ok", "reverted"} => sent'[w] = sent[w]
    <3>1. /\ sent \in [Validators -> Transactions] /\ sent[v].result = "waiting"
          /\ sent' = [sent EXCEPT ![v].result = "expired"] /\ orphans' = orphans
      BY <1>1, <2>2 DEF Expire, Waiting, JobTypes
    <3> DEFINE tx == [sent[v] EXCEPT !.result = "expired"]
    <3>2. sent[v] \in [kind : Kinds, result : Results] /\ sent[v] # Nothing
      BY <3>1 DEF Transactions, Nothing
    <3>3. /\ tx \in Transactions /\ tx # Nothing /\ tx.kind = sent[v].kind
          /\ tx.result = "expired"
      BY <3>2 DEF Transactions, Nothing, Results, Kinds
    <3>4. sent'[v] = tx /\ \A w \in Validators \ {v} : sent'[w] = sent[w]
      BY <3>1
    <3>5. sent' \in [Validators -> Transactions]
      <4>1. sent' = [sent EXCEPT ![v] = tx]
        BY <3>1
      <4> HIDE DEF tx
      <4>2. QED BY <3>1, <3>3, <4>1
    <3> HIDE DEF tx
    <3>6. QED BY <3>1, <3>2, <3>3, <3>4, <3>5
  <2>3. QED BY <2>1, <2>2 DEF Mempool
<1>4. LifeInv' /\ FaultsCounted
  BY <1>1, <1>2, LifeInvNow, LifeStays, FaultStep
<1>5. JobTypes'
  BY <1>1, <1>2, <1>3 DEF JobTypes
<1>6. \A w \in Validators :
        /\ SaysTrue(w, job'[w])
        /\ sent'[w].kind = "exit" \/ <<w, "exit">> \in orphans' => ExitIsDue(w)
  BY <1>1, <1>2, <1>3 DEF IInv, Truth, ReadsTrue, ExitsInTime
<1>7. QED BY <1>2, <1>3, <1>4, <1>5, <1>6, QuietStep

LEMMA StutterStep ==
  ASSUME IInv, UNCHANGED vars
  PROVE  IInv'
BY DEF IInv, TypeOK, Truth, RecordsInOrder, ReadsTrue, SaysTrue, AnswersTrue, KeptTrue,
       StatusWasTrue, ExitsInTime, ExitIsDue, StaysItsPeriods, vars, chainVars, serviceVars,
       state, receipts

LEMMA NextStep ==
  ASSUME IInv, [Next]_vars
  PROVE  IInv'
<1>1. TypeOK
  BY DEF IInv
<1>2. ASSUME NEW v \in Validators, Lifecycle(v) PROVE IInv'
  <2>1. CASE FirstCheck(v)
    BY <2>1, FirstCheckStep
  <2>2. CASE CheckExisting(v)
    BY <2>2, CheckExistingStep
  <2>3. CASE Process(v)
    BY <2>3, ProcessPreserves
  <2>4. CASE Confirmed(v) \/ Reverted(v) \/ Timeout(v)
    BY <2>4, AnswersPreserve
  <2>5. CASE Panic(v)
    BY <1>1, <2>5, FaultStep, BeginsAnewPreserves DEF Panic
  <2>6. QED BY <1>2, <2>1, <2>2, <2>3, <2>4, <2>5 DEF Lifecycle
<1>3. CASE Poll
  BY <1>3, PollStep
<1>4. CASE NewBlock
  BY <1>4, NewBlockStep
<1>5. CASE Mempool
  BY <1>5, MempoolStep
<1>6. CASE Restart
  BY <1>1, <1>6, FaultStep, BeginsAnewPreserves DEF Restart
<1>7. CASE UNCHANGED vars
  BY <1>7, StutterStep
<1>8. QED BY <1>2, <1>3, <1>4, <1>5, <1>6, <1>7 DEF Next

LEMMA Inductive == Spec => []IInv
<1>1. IInv /\ [Next]_vars => IInv'
  BY NextStep
<1>2. QED BY InitInv, <1>1, PTL DEF Spec

\* Every field of the lifecycles, the snapshot and the chain keeps its type, and a
\* job waits for the network exactly while it has a transaction on its way.
THEOREM ValidatorTypeCorrect == Spec => []TypeOK
<1>1. IInv => TypeOK
  BY DEF IInv
<1>2. QED BY Inductive, <1>1, PTL

\* No lifecycle's status, activation block or receipt is ahead of what the staker
\* contract has done, whatever is lost, late, repeated or restarted.
THEOREM StatusStaysTrue == Spec => []StatusWasTrue
<1>1. IInv => StatusWasTrue
  BY DEF IInv, Truth
<1>2. QED BY Inductive, <1>1, PTL

\* Whoever signals a validator's exit, the periods it was configured to stay are
\* over: MinExitBlock counted from its activation.
THEOREM NobodyLeavesEarly == Spec => []StaysItsPeriods
<1>1. IInv => StaysItsPeriods
  BY DEF IInv
<1>2. QED BY Inductive, <1>1, PTL

-----------------------------------------------------------------------------
(* What the snapshot says never goes back while the program runs. *)

LEMMA LookupStep ==
  ASSUME IInv, Next, NEW v \in Validators, idLookup[v] # "nil", idLookup'[v] # "nil",
         idLookup' # Nobody
  PROVE  Rank[idLookup'[v]] >= Rank[idLookup[v]]
<1>1. TypeOK /\ Truth /\ RecordsInOrder
  BY DEF IInv, Truth
<1>2. idLookup[v] \in Entries \ {"nil"} /\ SaysTrue(v, idLookup[v])
  BY <1>1 DEF TypeOK, Truth, ReadsTrue
<1>3. CASE idLookup' = idLookup
  BY <1>2, <1>3, RankNumbers DEF Entries
<1>4. CASE PollStore
  <2>1. PICK failing \in SUBSET Left : idLookup' = LookupAfter(failing)
    BY <1>4 DEF PollStore
  <2>2. CASE v \in Left
    <3>1. idLookup'[v] = Status(v)
      BY <1>1, <2>1, <2>2, LookupAfterIs
    <3>2. QED BY <1>1, <1>2, <3>1, TrueRanksBelow
  <2>3. CASE v \notin Left
    <3>1. idLookup'[v] = fetched[v] /\ fetched[v] \in Entries \ {"nil"}
      BY <1>1, <2>1, <2>3, LookupAfterIs DEF TypeOK, Truth, ReadsTrue
    <3>2. idLookup[v] = "absent" \/ fetched[v] # "absent"
      BY <2>3 DEF Left
    <3>3. fetched[v] # "absent" => Rank[fetched[v]] >= Rank[idLookup[v]]
      BY <1>1 DEF Truth, ReadsTrue
    <3>4. idLookup[v] = "absent" => Rank[fetched[v]] >= Rank[idLookup[v]]
      BY <3>1, RankNumbers DEF Entries
    <3>5. QED BY <3>1, <3>2, <3>3, <3>4
  <2>4. QED BY <2>2, <2>3
<1>5. idLookup' = idLookup \/ idLookup' = Nobody \/ PollStore
  <2>1. ASSUME NEW w \in Validators, Lifecycle(w)
        PROVE  idLookup' = idLookup \/ idLookup' = Nobody
    BY <2>1 DEF Lifecycle, FirstCheck, CheckExisting, Process, Confirmed, Reverted, Timeout,
                Answered, Panic, BeginsAnew, serviceVars
  <2>2. CASE Poll
    BY <2>2 DEF Poll, PollFetch, PollFails
  <2>3. CASE NewBlock \/ Mempool
    BY <2>3 DEF NewBlock, Mempool, serviceVars
  <2>4. CASE Restart
    BY <2>4 DEF Restart, BeginsAnew
  <2>5. QED BY <2>1, <2>2, <2>3, <2>4 DEF Next
<1>6. QED BY <1>3, <1>4, <1>5

\* A snapshot stored blocks after it was fetched, over what checkExited has said
\* since, never takes a validator back to an earlier state.
THEOREM LookupStaysForward == Spec => LookupNeverBack
<1>1. IInv /\ [Next]_vars =>
        [\A v \in Validators :
           idLookup[v] # "nil" /\ idLookup'[v] # "nil" /\ idLookup' # Nobody
             => Rank[idLookup'[v]] >= Rank[idLookup[v]]]_vars
  BY LookupStep
<1>2. QED BY Inductive, <1>1, PTL DEF Spec, LookupNeverBack

-----------------------------------------------------------------------------
(* Withdrawals are in time, as long as block numbers do not wrap. *)

\* uint32 holds the last block and all that is ever added to it.
BlocksFit == MaxHeight + WithdrawDelay + PeriodLength + 2 * CooldownPeriod <= MaxUint32

LEMMA FitsUint32 ==
  ASSUME NEW n \in Nat, n <= MaxUint32
  PROVE  uint32(n) = n
BY MaxUint32Assumption DEF uint32

LEMMA MinWithdrawBlockIs ==
  ASSUME BlocksFit, TypeOK, NEW v \in Validators
  PROVE  minWithdrawBlock(v) =
           exitReceipt[v] + WithdrawDelay + PeriodLength + CooldownPeriod
             + (IF activatedBlock[v] # 0 THEN CooldownPeriod ELSE 0)
<1> DEFINE e == exitReceipt[v]
<1>1. e \in Nat /\ e <= MaxHeight /\ MaxUint32 \in Nat
  BY MaxUint32Assumption, Numbers DEF TypeOK, Blocks
<1> HIDE DEF e
<1>2. uint32(e + WithdrawDelay) = e + WithdrawDelay
  <2>1. e + WithdrawDelay \in Nat /\ e + WithdrawDelay <= MaxUint32
    BY <1>1, Numbers DEF BlocksFit
  <2>2. QED BY <2>1, FitsUint32
<1> DEFINE exited == e + WithdrawDelay + PeriodLength + CooldownPeriod
<1>3. uint32(MinWithdrawBlock(exitReceipt[v], WithdrawDelay) + PeriodLength + CooldownPeriod)
        = exited
  <2>1. exited \in Nat /\ exited <= MaxUint32
    BY <1>1, Numbers DEF BlocksFit
  <2>2. uint32(exited) = exited
    <3> HIDE DEF exited
    <3> QED BY <2>1, FitsUint32
  <2>3. QED BY <1>2, <2>2 DEF MinWithdrawBlock, e
<1>4. uint32(exited + CooldownPeriod) = exited + CooldownPeriod
  <2>1. exited + CooldownPeriod \in Nat /\ exited + CooldownPeriod <= MaxUint32
    BY <1>1, Numbers DEF BlocksFit
  <2>2. QED BY <2>1, FitsUint32
<1>5. exited \in Nat
  BY <1>1, Numbers
<1>6. minWithdrawBlock(v) = IF activatedBlock[v] # 0 THEN exited + CooldownPeriod ELSE exited
  BY <1>3, <1>4 DEF minWithdrawBlock
<1>7. QED BY <1>5, <1>6, Numbers DEF e

\* When a withdrawal is sent, the validator has exited a cooldown ago; with an
\* activation that is known, two.
LEMMA SentWithdrawal ==
  ASSUME BlocksFit, IInv, NEW v \in Validators, MaySend(v, "withdraw")
  PROVE  /\ validation[v].signalled # 0 /\ ExitBlock(validation[v]) \in Nat
         /\ height >= ExitBlock(validation[v]) + CooldownPeriod + WithdrawDelay
                        + (IF activatedBlock[v] # 0 THEN CooldownPeriod ELSE 0)
<1> DEFINE r == validation[v]
           known == IF activatedBlock[v] # 0 THEN CooldownPeriod ELSE 0
           x == ExitBlock(r)
<1>1. /\ exitReceipt[v] # 0 /\ height >= minWithdrawBlock(v)
      /\ exitReceipt[v] = r.signalled
  BY DEF MaySend, IInv, Truth, StatusWasTrue
<1>2. r \in Records /\ InOrder(r, height) /\ height \in Blocks
  BY DEF IInv, TypeOK, Truth, RecordsInOrder
<1>3. x \in Nat /\ x <= r.signalled + PeriodLength
  <2> HIDE DEF r
  <2> QED BY <1>1, <1>2, ExitBlockBounds
<1>4. minWithdrawBlock(v) = r.signalled + WithdrawDelay + PeriodLength + CooldownPeriod + known
  BY <1>1, MinWithdrawBlockIs DEF IInv
<1>5. r.signalled \in Blocks
  BY <1>2 DEF Records
<1>6. r.signalled \in Nat /\ height \in Nat /\ known \in Nat
  BY <1>2, <1>5, Numbers DEF Blocks
<1> HIDE DEF known, x, r
<1>7. height >= x + CooldownPeriod + WithdrawDelay + known
  BY <1>1, <1>3, <1>4, <1>6, Numbers
<1>8. QED BY <1>1, <1>3, <1>7 DEF known, x, r

\* Where a transaction comes from.
LEMMA WhoSends ==
  ASSUME IInv, [Next]_vars, NEW v \in Validators, sent'[v].kind \in Kinds
  PROVE  \/ sent'[v].kind = sent[v].kind
         \/ /\ Process(v) /\ MaySend(v, sent'[v].kind)
            /\ UNCHANGED <<height, validation, state>>
<1>1. TypeOK /\ Truth /\ sent \in [Validators -> Transactions]
  BY DEF IInv, TypeOK
<1>2. Nothing.kind \notin Kinds
  BY DEF Nothing, Kinds
<1>3. ASSUME NEW w \in Validators, Process(w)
      PROVE  \/ sent'[v].kind = sent[v].kind
             \/ /\ w = v /\ MaySend(v, sent'[v].kind)
                /\ UNCHANGED <<height, validation, state>>
  <2>1. ProcessDoes(w) /\ UNCHANGED <<height, validation>>
    BY <1>1, <1>3, ProcessStep DEF Process
  <2>2. CASE sent' = sent
    BY <2>2
  <2>3. ASSUME NEW kind \in Kinds, MaySend(w, kind), UNCHANGED state,
               sent' = [sent EXCEPT ![w] = [kind |-> kind, result |-> "waiting"]]
        PROVE  \/ sent'[v].kind = sent[v].kind
               \/ /\ w = v /\ MaySend(v, sent'[v].kind)
                  /\ UNCHANGED <<height, validation, state>>
    <3>1. CASE w = v
      <4>1. sent'[v].kind = kind
        BY <1>1, <2>3, <3>1
      <4>2. QED BY <2>1, <2>3, <3>1, <4>1
    <3>2. CASE w # v
      BY <1>1, <2>3, <3>2
    <3>3. QED BY <3>1, <3>2
  <2>4. QED BY <2>1, <2>2, <2>3 DEF ProcessDoes, Returns, Sends, SendTransactionAndWait
<1>4. ASSUME NEW w \in Validators, Answered(w) PROVE sent'[v].kind = sent[v].kind
  <2>1. w # v
    BY <1>1, <1>2, <1>4 DEF Answered
  <2>2. QED BY <1>1, <1>4, <2>1 DEF Answered
<1>5. CASE BeginsAnew
  BY <1>2, <1>5 DEF BeginsAnew, All
<1>6. CASE NewBlock
  BY <1>1, <1>6, BlockStep DEF NewBlock, Truth, BlockDoes
<1>7. CASE Mempool
  <2>1. ASSUME NEW w \in Validators, Expire(w) PROVE sent'[v].kind = sent[v].kind
    <3>1. CASE w = v
      BY <1>1, <2>1, <3>1 DEF Expire, Transactions, Nothing
    <3>2. CASE w # v
      BY <1>1, <2>1, <3>2 DEF Expire
    <3>3. QED BY <3>1, <3>2
  <2>2. QED BY <1>7, <2>1 DEF Mempool, ExpireOrphan
<1>8. CASE sent' = sent
  BY <1>8
<1>9. ASSUME NEW w \in Validators, Lifecycle(w)
      PROVE  sent' = sent \/ Process(w) \/ Answered(w) \/ BeginsAnew
  BY <1>9 DEF Lifecycle, FirstCheck, CheckExisting, Confirmed, Reverted, Timeout, Panic,
              chainVars
<1>10. CASE Next
  BY <1>3, <1>4, <1>5, <1>6, <1>7, <1>8, <1>9, <1>10 DEF Next, Poll, Restart, chainVars
<1>11. CASE UNCHANGED vars
  BY <1>8, <1>11 DEF vars, chainVars
<1>12. QED BY <1>10, <1>11

\* A record changes only with a block, and then as BlockDoes says.
LEMMA RecordsStep ==
  ASSUME IInv, [Next]_vars, NEW v \in Validators
  PROVE  \/ UNCHANGED <<height, validation>>
         \/ /\ Grows(validation[v], validation'[v]) /\ height' = height + 1
            /\ BlockDoes(v) /\ NewBlock
<1>1. CASE NewBlock
  BY <1>1, BlockStep DEF NewBlock, IInv, Truth, BlockDoes
<1>2. ASSUME NEW w \in Validators, Lifecycle(w)
      PROVE  UNCHANGED <<height, validation>>
  BY <1>2 DEF Lifecycle, FirstCheck, CheckExisting, Process, Confirmed, Reverted, Timeout,
              Answered, Panic, BeginsAnew, chainVars
<1>3. CASE Poll \/ Mempool \/ Restart \/ UNCHANGED vars
  BY <1>3 DEF Poll, Mempool, Expire, ExpireOrphan, Restart, BeginsAnew, vars, chainVars
<1>4. QED BY <1>1, <1>2, <1>3 DEF Next

LEMMA WithdrawStep ==
  ASSUME BlocksFit, IInv, WithdrawInTime, [Next]_vars
  PROVE  WithdrawInTime'
<1> SUFFICES ASSUME NEW v \in Validators, sent'[v].kind = "withdraw"
             PROVE  Withdrawable(validation'[v], height')
  BY DEF WithdrawInTime
<1> DEFINE r == validation[v]
<1>1. height \in Blocks /\ r \in Records /\ InOrder(r, height)
  BY DEF IInv, TypeOK, Truth, RecordsInOrder
<1>2. sent'[v].kind \in Kinds
  BY DEF Kinds
<1>3. CASE sent'[v].kind = sent[v].kind
  <2>1. Withdrawable(r, height)
    BY <1>3 DEF WithdrawInTime
  <2>2. CASE UNCHANGED <<height, validation>>
    BY <2>1, <2>2
  <2>3. CASE Grows(r, validation'[v]) /\ height' = height + 1
    <3>1. r.signalled # 0 /\ r.start # 0
      BY <1>1, <2>1 DEF Withdrawable, InOrder
    <3>2. validation'[v].signalled = r.signalled /\ validation'[v].start = r.start
      BY <2>3, <3>1 DEF Grows
    <3>3. ExitBlock(r) \in Nat
      <4> HIDE DEF r
      <4> QED BY <1>1, <3>1, ExitBlockBounds
    <3>4. ExitBlock(validation'[v]) = ExitBlock(r)
      BY <3>2 DEF ExitBlock
    <3>5. height >= ExitBlock(r) + CooldownPeriod /\ height \in Nat
      BY <1>1, <2>1 DEF Withdrawable, Blocks
    <3>6. height' >= ExitBlock(r) + CooldownPeriod
      <4> HIDE DEF r
      <4> QED BY <2>3, <3>3, <3>5, Numbers
    <3>7. QED BY <3>1, <3>2, <3>4, <3>6 DEF Withdrawable
  <2>4. QED BY <2>2, <2>3, RecordsStep
<1>4. CASE MaySend(v, sent'[v].kind) /\ UNCHANGED <<height, validation, state>>
  <2> DEFINE x == ExitBlock(r)
             known == IF activatedBlock[v] # 0 THEN CooldownPeriod ELSE 0
  <2>1. /\ r.signalled # 0 /\ x \in Nat
        /\ height >= x + CooldownPeriod + WithdrawDelay + known
    BY <1>4, SentWithdrawal
  <2>2. known \in Nat /\ height \in Nat
    BY <1>1, Numbers DEF Blocks
  <2>3. height >= x + CooldownPeriod
    <3> HIDE DEF x, known
    <3> QED BY <2>1, <2>2, Numbers
  <2>4. QED BY <1>4, <2>1, <2>3 DEF Withdrawable
<1>5. QED BY <1>2, <1>3, <1>4, WhoSends

\* No withdrawal is sent before the staker contract has the stake ready, provided
\* that uint32 holds the block numbers minWithdrawBlock computes.
THEOREM WithdrawalsInTime ==
  ASSUME BlocksFit
  PROVE  Spec => []WithdrawInTime
<1>1. Init => WithdrawInTime
  BY DEF Init, WithdrawInTime, All, Nothing
<1>2. IInv /\ WithdrawInTime /\ [Next]_vars => WithdrawInTime'
  BY WithdrawStep
<1>3. QED BY Inductive, <1>1, <1>2, PTL DEF Spec

-----------------------------------------------------------------------------
(* With a network that answers, whose lifecycle is over is closed.           *)

\* One lifecycle's step leaves what is known of the others alone.
LEMMA OthersUndisturbed ==
  ASSUME NEW w \in Validators, Undisturbed(w),
         /\ job'[w] = job[w] /\ firstProcessed'[w] = firstProcessed[w]
         /\ validation'[w] = validation[w] /\ status'[w] = status[w]
         /\ idLookup'[w] = idLookup[w] /\ sent'[w].kind = sent[w].kind
         /\ activatedBlock'[w] = activatedBlock[w] /\ registered'[w] = registered[w]
  PROVE  Undisturbed(w)'
BY DEF Undisturbed

\* Two blocks after the exit, and not before, the snapshot must know of it.
SlowEnough == BlocksWait /\ 2 * CooldownPeriod + WithdrawDelay >= 2

LEMMA AgeIs == Age \in 0..2 /\ FetchedAge \in 0..1
BY DEF Age, FetchedAge

LEMMA SentWhenExited ==
  ASSUME BlocksFit, SlowEnough, IInv, FaultlessInv, NEW v \in Validators,
         MaySend(v, "withdraw")
  PROVE  idLookup[v] = "exit"
<1> DEFINE r == validation[v]
           x == ExitBlock(r)
<1>1. status[v] = ExitSignalled /\ Undisturbed(v)
  BY DEF MaySend, FaultlessInv
<1>2. activatedBlock[v] # 0 /\ idLookup[v] \notin {"nil", "absent"}
  BY <1>1 DEF Undisturbed
<1>3. /\ r.signalled # 0 /\ x \in Nat
      /\ height >= x + CooldownPeriod + WithdrawDelay + CooldownPeriod
  BY <1>2, SentWithdrawal
<1>4. height \in Nat
  BY DEF IInv, TypeOK, Blocks
<1>5. height - Age >= x
  <2> HIDE DEF x
  <2>1. height - 2 >= x
    BY <1>3, <1>4, Numbers DEF SlowEnough
  <2>2. QED BY <1>3, <1>4, <2>1, AgeIs
<1>6. Exited(r, height - Age)
  BY <1>3, <1>5 DEF Exited
<1>7. idLookup[v] \notin {"queued", "active", "exiting"}
  BY <1>6 DEF FaultlessInv, SnapshotFresh
<1>8. QED BY <1>2, <1>7 DEF IInv, TypeOK, Entries

\* A step of one lifecycle, but for the requests that fail.
LocalStep(v) ==
  /\ orphans' = orphans
  /\ UNCHANGED <<height, validation, idLookup, polling, fetched>>
  /\ \A w \in Validators \ {v} :
       /\ job'[w] = job[w] /\ firstProcessed'[w] = firstProcessed[w]
       /\ status'[w] = status[w] /\ sent'[w].kind = sent[w].kind
       /\ activatedBlock'[w] = activatedBlock[w] /\ registered'[w] = registered[w]

LEMMA LocalPreserves ==
  ASSUME FaultlessInv, NEW v \in Validators, LocalStep(v), Undisturbed(v)'
  PROVE  FaultlessInv'
<1>1. \A w \in Validators : Undisturbed(w)'
  <2> SUFFICES ASSUME NEW w \in Validators, w # v PROVE Undisturbed(w)'
    OBVIOUS
  <2>1. QED BY OthersUndisturbed DEF LocalStep, FaultlessInv
<1>2. SnapshotFresh'
  BY DEF LocalStep, FaultlessInv, SnapshotFresh, Age, FetchedAge
<1>3. QED BY <1>1, <1>2 DEF LocalStep, FaultlessInv

LEMMA NoFault == ASSUME TypeOK, faults' = 0 PROVE ~Fault
BY DEF TypeOK, Fault

LEMMA CountedNone == ASSUME TypeOK, faults' = 0, NEW fails, Counted(fails) PROVE fails = "none"
BY NoFault DEF Counted

LEMMA FaultlessFirstCheck ==
  ASSUME IInv, FaultlessInv, faults' = 0, NEW v \in Validators, FirstCheck(v)
  PROVE  FaultlessInv'
<1>1. TypeOK /\ Truth /\ Undisturbed(v)
  BY DEF IInv, FaultlessInv
<1>2. Status(v) = "absent" /\ status[v] = Pending
  BY <1>1, StatusIsTrue DEF FirstCheck, Undisturbed, Truth
<1>3. job' = [job EXCEPT ![v] = "handle"]
  BY <1>1, <1>2, NoFault DEF FirstCheck, Goes
<1>4. /\ UNCHANGED <<height, validation, sent, orphans, idLookup, polling, fetched>>
      /\ UNCHANGED <<status, activatedBlock, registered>>
      /\ firstProcessed' = [firstProcessed EXCEPT ![v] = TRUE]
  BY DEF FirstCheck, chainVars, serviceVars, state
<1>5. LocalStep(v)
  BY <1>1, <1>3, <1>4 DEF LocalStep, TypeOK
<1>6. Undisturbed(v)'
  <2>1. job'[v] = "handle" /\ firstProcessed'[v]
    BY <1>1, <1>3, <1>4 DEF TypeOK
  <2>2. Pending # Withdrawn
    BY DEF Pending, Withdrawn
  <2>3. QED BY <1>1, <1>2, <1>4, <2>1, <2>2 DEF Undisturbed
<1>7. QED BY <1>5, <1>6, LocalPreserves

\* Without a failing request a lifecycle is not taken to the end by what it reads.
LEMMA FaultlessState ==
  ASSUME IInv, FaultlessInv, faults' = 0, NEW v \in Validators, Process(v)
  PROVE  /\ status'[v] # Withdrawn
         /\ status'[v] \in {Active, ExitSignalled} => idLookup[v] # "absent"
         /\ status'[v] = ExitSignalled => status[v] = ExitSignalled
         /\ status'[v] = ExitSignalled => activatedBlock'[v] = activatedBlock[v]
         /\ \A w \in Validators \ {v} :
              status'[w] = status[w] /\ activatedBlock'[w] = activatedBlock[w]
<1>1. TypeOK /\ Truth /\ Undisturbed(v) /\ LifeInv /\ LifeTypes
  BY LifeInvNow DEF IInv, FaultlessInv, LifeInv
<1>2. status[v] # Withdrawn
  BY <1>1 DEF Process, Starts, MayStart, Undisturbed
<1>3. CASE UNCHANGED <<status, activatedBlock>>
  BY <1>1, <1>2, <1>3 DEF Undisturbed
<1>4. ASSUME NEW fails, Counted(fails), Take(v, HandleExistingValidator(v, Found(v), fails))
      PROVE  /\ status'[v] = Queued
             /\ \A w \in Validators \ {v} :
                  status'[w] = status[w] /\ activatedBlock'[w] = activatedBlock[w]
  <2>1. fails = "none"
    BY <1>1, <1>4, CountedNone
  <2>2. HandleExistingValidator(v, Found(v), fails).status = Queued
    BY <2>1 DEF HandleExistingValidator, Found
  <2>3. QED BY <1>1, <1>4, <2>2 DEF Take, LifeTypes
<1>5. ASSUME NEW fails, Take(v, CheckAlreadyExited(v, Found(v), fails)), processQueued(v),
             Counted(fails), LookupAddress(v) = "absent"
      PROVE  UNCHANGED <<status, activatedBlock>>
  <2>1. fails = "none"
    BY <1>1, <1>5, CountedNone
  <2>2. validation[v].added /\ validation[v].signalled = 0
    BY <1>1, <1>5 DEF processQueued, Truth, StatusWasTrue, Queued, Undisturbed, LookupAddress
  <2>3. Status(v) \notin {"absent", "exiting", "exit"}
    BY <1>1, <2>2, StatusIsTrue DEF Truth, SaysTrue
  <2>4. CheckAlreadyExited(v, Found(v), fails) = Found(v)
    BY <2>1, <2>3 DEF CheckAlreadyExited
  <2>5. QED BY <1>1, <1>5, <2>4 DEF Take, Found, LifeTypes
<1>6. CASE /\ LookupAddress(v) \in {"active", "exiting"}
           /\ status' = [status EXCEPT ![v] = Active]
           /\ activatedBlock' = [activatedBlock EXCEPT ![v] = validation[v].start]
  BY <1>1, <1>6 DEF LifeTypes, LookupAddress, Active, ExitSignalled, Withdrawn
<1>7. Queued \notin {Active, ExitSignalled, Withdrawn}
  BY DEF Queued, Active, ExitSignalled, Withdrawn
<1>8. CASE processPending(v)
  BY <1>3, <1>4, <1>7, <1>8 DEF processPending
<1>9. CASE processQueued(v)
  BY <1>3, <1>5, <1>6, <1>9 DEF processQueued, state
<1>10. CASE processActive(v) \/ processExitSignalled(v) \/ UNCHANGED state
  BY <1>3, <1>10 DEF processActive, processExitSignalled, state
<1>11. QED BY <1>8, <1>9, <1>10 DEF Process, processCurrentState

LEMMA FaultlessProcess ==
  ASSUME BlocksFit, SlowEnough, IInv, FaultlessInv, faults' = 0,
         NEW v \in Validators, Process(v)
  PROVE  FaultlessInv'
<1>1. TypeOK /\ Truth /\ JobTypes /\ Undisturbed(v) /\ ProcessDoes(v)
  BY TypesApart, ProcessStep DEF IInv, FaultlessInv
<1>2. /\ job[v] \in {"idle", "handle"} /\ firstProcessed[v] /\ firstProcessed' = firstProcessed
      /\ UNCHANGED <<height, validation, idLookup, polling, fetched>>
  BY <1>1 DEF Process, Starts, MayStart, serviceVars, Undisturbed
<1>3. sent[v] = Nothing /\ sent[v].kind = "none"
  BY <1>1, <1>2 DEF JobTypes, Nothing
<1>4. /\ status'[v] # Withdrawn
      /\ status'[v] \in {Active, ExitSignalled} => idLookup[v] # "absent"
      /\ status'[v] = ExitSignalled => status[v] = ExitSignalled
      /\ status'[v] = ExitSignalled => activatedBlock'[v] = activatedBlock[v]
      /\ \A w \in Validators \ {v} :
           status'[w] = status[w] /\ activatedBlock'[w] = activatedBlock[w]
  BY FaultlessState
<1>5. \A w \in Validators \ {v} : registered'[w] = registered[w]
  BY <1>1 DEF Process, handleDelegationRegistration, JobTypes
<1>6. /\ orphans' = orphans /\ job'[v] \in {"idle", "send"}
      /\ \A w \in Validators \ {v} : job'[w] = job[w] /\ sent'[w].kind = sent[w].kind
      /\ sent'[v].kind = "exit" => status'[v] = Active
      /\ sent'[v].kind = "withdraw" => idLookup[v] = "exit"
  <2>1. CASE Returns(v)
    BY <1>1, <1>3, <2>1 DEF Returns, Goes, JobTypes
  <2>2. ASSUME NEW kind \in Kinds, MaySend(v, kind), UNCHANGED <<state, orphans>>,
               sent' = [sent EXCEPT ![v] = [kind |-> kind, result |-> "waiting"]],
               Goes(v, "send")
        PROVE  /\ orphans' = orphans /\ job'[v] \in {"idle", "send"}
               /\ \A w \in Validators \ {v} : job'[w] = job[w] /\ sent'[w].kind = sent[w].kind
               /\ sent'[v].kind = "exit" => status'[v] = Active
               /\ sent'[v].kind = "withdraw" => idLookup[v] = "exit"
    <3>1. sent'[v].kind = kind
      BY <1>1, <2>2 DEF JobTypes
    <3>2. kind = "exit" => status'[v] = Active
      BY <2>2 DEF MaySend, state
    <3>3. kind = "withdraw" => idLookup[v] = "exit"
      BY <2>2, SentWhenExited
    <3>4. QED BY <1>1, <2>2, <3>1, <3>2, <3>3 DEF JobTypes, Goes
  <2>3. ~Fault
    BY <1>1, NoFault
  <2>4. QED BY <1>1, <2>1, <2>2, <2>3 DEF ProcessDoes, Sends, SendTransactionAndWait
<1>7. LocalStep(v)
  BY <1>2, <1>4, <1>5, <1>6 DEF LocalStep
<1>8. idLookup[v] = "exit" => ~registered'[v]
  <2> SUFFICES ASSUME idLookup[v] = "exit" PROVE ~registered'[v]
    OBVIOUS
  <2>1. registered' = [registered EXCEPT ![v] = FALSE]
    BY DEF Process, handleDelegationRegistration, LookupAddress
  <2>2. QED BY <1>1, <2>1 DEF JobTypes
<1>9. Undisturbed(v)'
  BY <1>1, <1>2, <1>4, <1>6, <1>8 DEF Undisturbed
<1>10. QED BY <1>7, <1>9, LocalPreserves

LEMMA FaultlessAnswers ==
  ASSUME IInv, FaultlessInv, faults' = 0, NEW v \in Validators,
         Confirmed(v) \/ Reverted(v) \/ Timeout(v)
  PROVE  FaultlessInv'
<1>1. TypeOK /\ Truth /\ JobTypes /\ LifeTypes /\ Undisturbed(v) /\ ~Fault
  BY TypesApart, NoFault DEF IInv, FaultlessInv
<1>2. /\ job[v] = "send" /\ job' = [job EXCEPT ![v] = "idle"]
      /\ sent' = [sent EXCEPT ![v] = Nothing]
      /\ UNCHANGED <<height, validation, idLookup, polling, fetched>>
      /\ UNCHANGED <<firstProcessed, registered>>
  BY DEF Confirmed, Reverted, Timeout, Answered, Goes, serviceVars
<1>3. orphans' = orphans
  BY <1>1 DEF Confirmed, Reverted, Timeout
<1>4. /\ job'[v] = "idle" /\ sent'[v].kind = "none" /\ firstProcessed[v]
      /\ \A w \in Validators \ {v} : job'[w] = job[w] /\ sent'[w] = sent[w]
  BY <1>1, <1>2 DEF JobTypes, Nothing, Undisturbed
<1>5. /\ status'[v] = Withdrawn => status[v] = Withdrawn \/ sent[v].kind = "withdraw"
      /\ status'[v] = Active => status[v] = Active
      /\ status'[v] = ExitSignalled =>
           /\ status[v] = ExitSignalled \/ sent[v].kind = "exit"
           /\ activatedBlock'[v] = activatedBlock[v]
      /\ \A w \in Validators \ {v} :
           status'[w] = status[w] /\ activatedBlock'[w] = activatedBlock[w]
  <2>1. CASE UNCHANGED state
    BY <2>1 DEF state
  <2>2. CASE sent[v].kind = "add" /\ TransitionTo(v, Queued)
    BY <1>1, <2>2 DEF TransitionTo, LifeTypes, Queued, Active, ExitSignalled, Withdrawn
  <2>3. CASE sent[v].kind = "exit" /\ TransitionTo(v, ExitSignalled)
    BY <1>1, <2>3 DEF TransitionTo, LifeTypes, Queued, Active, ExitSignalled, Withdrawn
  <2>4. CASE sent[v].kind = "withdraw" /\ TransitionTo(v, Withdrawn)
    BY <1>1, <2>4 DEF TransitionTo, LifeTypes, Queued, Active, ExitSignalled, Withdrawn
  <2>5. ASSUME NEW fails, Counted(fails), Take(v, HandleExistingValidator(v, Found(v), fails))
        PROVE  /\ status'[v] = Queued
               /\ \A w \in Validators \ {v} :
                    status'[w] = status[w] /\ activatedBlock'[w] = activatedBlock[w]
    <3>1. fails = "none"
      BY <1>1, <2>5, CountedNone
    <3>2. HandleExistingValidator(v, Found(v), fails).status = Queued
      BY <3>1 DEF HandleExistingValidator, Found
    <3>3. QED BY <1>1, <2>5, <3>2 DEF Take, LifeTypes
  <2>6. Queued \notin {Active, ExitSignalled, Withdrawn}
    BY DEF Queued, Active, ExitSignalled, Withdrawn
  <2>7. CASE Confirmed(v)
    BY <2>2, <2>3, <2>4, <2>7 DEF Confirmed
  <2>8. CASE Reverted(v) \/ Timeout(v)
    BY <2>1, <2>5, <2>6, <2>8 DEF Reverted, Timeout
  <2>9. QED BY <2>7, <2>8
<1>6. LocalStep(v)
  BY <1>2, <1>3, <1>4, <1>5 DEF LocalStep
<1>7. /\ sent[v].kind = "exit" => activatedBlock[v] # 0 /\ status[v] = Active
      /\ sent[v].kind = "withdraw" \/ status[v] = Withdrawn => ~registered[v]
  BY <1>1 DEF Undisturbed, Truth, StatusWasTrue
<1>8. Undisturbed(v)'
  BY <1>1, <1>2, <1>4, <1>5, <1>7 DEF Undisturbed
<1>9. QED BY <1>6, <1>8, LocalPreserves

LEMMA FaultlessPoll ==
  ASSUME IInv, FaultlessInv, faults' = 0, Poll
  PROVE  FaultlessInv'
<1>1. TypeOK /\ Truth /\ RecordsInOrder /\ ~Fault
  BY NoFault DEF IInv, Truth
<1>2. /\ UNCHANGED <<height, validation, sent, orphans, status, activatedBlock>>
      /\ UNCHANGED <<firstProcessed, registered, job>>
  BY DEF Poll, chainVars, state
<1>3. \A v \in Validators :
        /\ height \in Int /\ height \in Blocks
        /\ validation[v] \in Records /\ InOrder(validation[v], height)
        /\ Status(v) # "exit" => ~Exited(validation[v], height)
        /\ Status(v) # "nil" /\ (Status(v) = "absent" => ~validation[v].added)
  BY <1>1, StatusIsTrue, Numbers DEF TypeOK, RecordsInOrder, Blocks
<1>4. \A v \in Validators : Status(v) # "exit" =>
        ~Exited(validation[v], height - 1) /\ ~Exited(validation[v], height - 0)
  <2> SUFFICES ASSUME NEW v \in Validators, ~Exited(validation[v], height)
               PROVE  ~Exited(validation[v], height - 1) /\ ~Exited(validation[v], height - 0)
    BY <1>3
  <2>1. /\ height - 1 \in Int /\ height - 0 \in Int /\ height - 1 <= height
        /\ height - 0 <= height /\ height \in Int
    BY <1>3
  <2>2. QED BY <1>3, <2>1, ExitedLater
<1>5. \A v \in Validators : Undisturbed(v)
  BY DEF FaultlessInv
<1>6. CASE PollFetch
  <2>1. /\ polling = "due" /\ polling' = "fetched" /\ idLookup' = idLookup
        /\ \A v \in Validators : fetched'[v] = IF Status(v) = "exit" THEN "absent" ELSE Status(v)
    BY <1>6 DEF PollFetch, FetchAll
  <2>2. Age = 1 /\ Age' = 1 /\ FetchedAge' = 0
    BY <2>1 DEF Age, FetchedAge
  <2>3. SnapshotFresh'
    BY <1>2, <1>4, <2>1, <2>2 DEF SnapshotFresh, FaultlessInv
  <2>4. \A v \in Validators : Undisturbed(v)'
    BY <1>2, <1>5, <2>1 DEF Undisturbed
  <2>5. QED BY <1>2, <2>3, <2>4 DEF FaultlessInv
<1>7. CASE PollStore
  <2>1. /\ polling \in {"fetched", "late"} /\ fetched' = Nobody
        /\ polling' = IF polling = "late" THEN "due" ELSE "stored"
        /\ idLookup' = LookupAfter({})
    BY <1>1, <1>7 DEF PollStore
  <2>2. \A v \in Validators : idLookup'[v] = IF v \in Left THEN Status(v) ELSE fetched[v]
    BY <2>1 DEF LookupAfter
  <2>3. Age' = FetchedAge /\ FetchedAge \in {0, 1}
    BY <2>1 DEF Age, FetchedAge
  <2>4. \A v \in Validators : fetched'[v] = "absent"
    BY <2>1 DEF Nobody
  <2>5. SnapshotFresh'
    <3> SUFFICES ASSUME NEW v \in Validators,
                        idLookup'[v] \in {"queued", "active", "exiting"}
                 PROVE  ~Exited(validation[v], height - FetchedAge)
      BY <1>2, <2>3, <2>4 DEF SnapshotFresh
    <3>1. CASE v \in Left
      <4>1. Status(v) # "exit"
        BY <2>2, <3>1
      <4>2. QED BY <1>4, <2>3, <4>1
    <3>2. CASE v \notin Left
      <4>1. fetched[v] # "absent"
        BY <2>2, <3>2
      <4>2. QED BY <4>1 DEF FaultlessInv, SnapshotFresh
    <3>3. QED BY <3>1, <3>2
  <2>6. \A v \in Validators :
          /\ idLookup'[v] # "nil"
          /\ idLookup[v] # "absent" => idLookup'[v] # "absent"
    <3> SUFFICES ASSUME NEW v \in Validators
                 PROVE  /\ idLookup'[v] # "nil"
                        /\ idLookup[v] # "absent" => idLookup'[v] # "absent"
      OBVIOUS
    <3>1. CASE v \in Left
      <4>1. idLookup[v] \notin {"absent", "nil"} /\ idLookup[v] \in Entries
        BY <1>1, <1>5, <3>1 DEF Left, Undisturbed, TypeOK
      <4>2. validation[v].added
        BY <1>1, <4>1 DEF Truth, ReadsTrue, SaysTrue, Entries
      <4>3. QED BY <1>3, <2>2, <3>1, <4>2
    <3>2. CASE v \notin Left
      BY <1>1, <2>2, <3>2 DEF Left, Truth, ReadsTrue
    <3>3. QED BY <3>1, <3>2
  <2>7. \A v \in Validators : Undisturbed(v)'
    BY <1>2, <1>5, <2>6 DEF Undisturbed
  <2>8. QED BY <1>2, <2>5, <2>7 DEF FaultlessInv
<1>8. QED BY <1>1, <1>6, <1>7 DEF Poll, PollFails

LEMMA FaultlessNewBlock ==
  ASSUME SlowEnough, IInv, FaultlessInv, NewBlock
  PROVE  FaultlessInv'
<1>1. TypeOK /\ Truth /\ RecordsInOrder /\ JobTypes
  BY TypesApart DEF IInv, Truth
<1>2. PICK activated \in SUBSET Validators, mined \in SUBSET Validators,
           orphan \in [Validators -> Kinds \cup {"none"}] : Block(activated, mined, orphan)
  BY DEF NewBlock
<1>3. /\ height' = height + 1 /\ orphans' \subseteq orphans
      /\ \A v \in Validators : BlockDoes(v)
  BY <1>1, <1>2, BlockStep
<1>4. /\ UNCHANGED <<idLookup, fetched, status, activatedBlock>>
      /\ UNCHANGED <<firstProcessed, registered, job>>
  BY DEF NewBlock, state
<1>5. orphans = {} /\ orphans' = {} /\ \A v \in Validators : Undisturbed(v)
  BY <1>3 DEF FaultlessInv
<1>6. /\ polling \in {"fetched", "stored"}
      /\ polling' = IF polling = "stored" THEN "due" ELSE "late"
  BY DEF NewBlock, SlowEnough, CaughtUp, PollAfterBlock
<1>7. /\ Age' = Age + 1 /\ Age \in {0, 1}
      /\ polling = "fetched" => FetchedAge' = FetchedAge + 1 /\ FetchedAge = 0
  BY <1>6 DEF Age, FetchedAge
<1>8. ASSUME NEW v \in Validators, NEW age \in {0, 1}, ~Exited(validation[v], height - age)
      PROVE  ~Exited(validation'[v], height' - (age + 1))
  <2> DEFINE r == validation[v]
             s == validation'[v]
  <2>1. /\ Grows(r, s) /\ s \in Records /\ InOrder(s, height') /\ height' \in Blocks
        /\ InOrder(r, height)
        /\ s.signalled # r.signalled => s.signalled = height'
    BY <1>1, <1>2, <1>3, BlockStep DEF BlockDoes, RecordsInOrder
  <2>2. height' - (age + 1) = height - age /\ height - age <= height /\ height \in Nat
    BY <1>1, <1>3 DEF TypeOK, Blocks
  <2>3. CASE r.signalled # 0
    <3>1. s.signalled = r.signalled /\ s.start = r.start
      BY <2>1, <2>3 DEF Grows, InOrder
    <3>2. ExitBlock(s) = ExitBlock(r)
      BY <3>1 DEF ExitBlock
    <3>3. QED BY <1>8, <2>2, <3>1, <3>2 DEF Exited
  <2>4. CASE r.signalled = 0 /\ s.signalled # 0
    <3>1. s.signalled = height'
      BY <2>1, <2>4
    <3>2. ExitBlock(s) \in Nat /\ s.signalled < ExitBlock(s)
      <4> HIDE DEF s
      <4> QED BY <2>1, <2>4, ExitBlockBounds
    <3> DEFINE x == ExitBlock(s)
    <3>3. ~(height' - (age + 1) >= x)
      <4>1. height' < x /\ x \in Nat
        BY <3>1, <3>2
      <4> HIDE DEF x
      <4>2. QED BY <1>3, <2>2, <4>1
    <3>4. QED BY <3>3 DEF Exited
  <2>5. CASE s.signalled = 0
    BY <2>5 DEF Exited
  <2>6. QED BY <2>3, <2>4, <2>5
<1>9. SnapshotFresh'
  <2> SUFFICES ASSUME NEW v \in Validators
               PROVE  /\ idLookup'[v] \in {"queued", "active", "exiting"} =>
                           ~Exited(validation'[v], height' - Age')
                      /\ fetched'[v] # "absent" =>
                           /\ polling' \in {"fetched", "late"}
                           /\ ~Exited(validation'[v], height' - FetchedAge')
    BY DEF SnapshotFresh
  <2>1. /\ idLookup[v] \in {"queued", "active", "exiting"} =>
             ~Exited(validation[v], height - Age)
        /\ fetched[v] # "absent" => /\ polling \in {"fetched", "late"}
                                    /\ ~Exited(validation[v], height - FetchedAge)
    BY DEF FaultlessInv, SnapshotFresh
  <2>2. idLookup'[v] \in {"queued", "active", "exiting"} =>
          ~Exited(validation'[v], height' - Age')
    BY <1>4, <1>7, <1>8, <2>1
  <2>3. fetched'[v] # "absent" => ~Exited(validation'[v], height' - FetchedAge')
    <3> SUFFICES ASSUME fetched[v] # "absent"
                 PROVE  ~Exited(validation'[v], height' - FetchedAge')
      BY <1>4
    <3>1. polling = "fetched" /\ ~Exited(validation[v], height - FetchedAge)
      BY <1>6, <2>1
    <3>2. QED BY <1>7, <1>8, <3>1
  <2>4. fetched'[v] # "absent" => polling' = "late"
    BY <1>4, <1>6, <2>1
  <2>5. QED BY <2>2, <2>3, <2>4
<1>10. \A v \in Validators : Undisturbed(v)'
  <2> SUFFICES ASSUME NEW v \in Validators PROVE Undisturbed(v)'
    OBVIOUS
  <2>1. /\ sent'[v].kind = sent[v].kind
        /\ validation'[v].added # validation[v].added => sent[v].kind = "add"
        /\ validation'[v].signalled # validation[v].signalled => sent[v].kind = "exit"
    BY <1>3, <1>5 DEF BlockDoes
  <2>2. Undisturbed(v)
    BY <1>5
  <2>3. job[v] = "idle" => sent[v].kind # "add"
    BY <1>1 DEF JobTypes, Nothing
  <2>4. ~firstProcessed[v] => ~validation'[v].added
    BY <2>1, <2>2, <2>3 DEF Undisturbed
  <2>5. validation'[v].signalled # 0 => idLookup[v] # "absent"
    BY <2>1, <2>2 DEF Undisturbed
  <2>6. QED BY <1>4, <2>1, <2>2, <2>4, <2>5 DEF Undisturbed
<1>11. QED BY <1>5, <1>9, <1>10 DEF FaultlessInv

LEMMA FaultlessMempool ==
  ASSUME IInv, FaultlessInv, Mempool
  PROVE  FaultlessInv'
<1>1. PICK v \in Validators : Expire(v)
  BY DEF Mempool, FaultlessInv
<1>2. /\ UNCHANGED <<height, validation, orphans, idLookup, polling, fetched>>
      /\ UNCHANGED <<status, activatedBlock, firstProcessed, registered, job>>
  BY <1>1 DEF Mempool, Expire, serviceVars, state
<1>3. \A w \in Validators : sent'[w].kind = sent[w].kind
  <2>1. sent \in [Validators -> Transactions]
    BY DEF IInv, TypeOK
  <2>2. sent[v] \in [kind : Kinds, result : Results]
    BY <1>1, <2>1 DEF Expire, Waiting, Transactions, Nothing
  <2>3. QED BY <1>1, <2>1, <2>2 DEF Expire
<1>4. \A w \in Validators : Undisturbed(w)'
  BY <1>2, <1>3 DEF FaultlessInv, Undisturbed
<1>5. SnapshotFresh'
  BY <1>2 DEF FaultlessInv, SnapshotFresh, Age, FetchedAge
<1>6. QED BY <1>2, <1>4, <1>5 DEF FaultlessInv

LEMMA FaultlessStep ==
  ASSUME BlocksFit, SlowEnough, IInv, WhenFaultless, [Next]_vars
  PROVE  WhenFaultless'
<1> SUFFICES ASSUME faults' = 0 PROVE FaultlessInv'
  BY DEF WhenFaultless
<1>1. TypeOK /\ ~Fault
  BY NoFault DEF IInv
<1>2. faults = 0
  <2>1. ASSUME NEW v \in Validators, Lifecycle(v) PROVE FaultsCounted
    <3>1. CASE Process(v)
      BY <3>1, ProcessStep DEF ProcessDoes, IInv
    <3>2. CASE Reverted(v)
      BY <3>2, RevertedStep DEF IInv
    <3>3. CASE FirstCheck(v) \/ CheckExisting(v) \/ Confirmed(v) \/ Timeout(v) \/ Panic(v)
      BY <1>1, <3>3, FaultStep DEF FirstCheck, CheckExisting, Confirmed, Timeout, Panic
    <3>4. QED BY <2>1, <3>1, <3>2, <3>3 DEF Lifecycle
  <2>2. CASE Poll
    BY <1>1, <2>2, FaultStep DEF Poll, PollFails, PollStore, FaultsCounted
  <2>3. CASE NewBlock \/ Mempool \/ UNCHANGED vars
    BY <2>3 DEF NewBlock, Mempool, vars
  <2>4. QED BY <1>1, <2>1, <2>2, <2>3 DEF Next, Restart, FaultsCounted
<1>3. FaultlessInv
  BY <1>2 DEF WhenFaultless
<1>4. ASSUME NEW v \in Validators, Lifecycle(v) PROVE FaultlessInv'
  <2>1. Undisturbed(v)
    BY <1>3 DEF FaultlessInv
  <2>2. ~CheckExisting(v) /\ ~Panic(v)
    BY <2>1 DEF CheckExisting, Panic, Undisturbed, LookupAddress
  <2>3. QED BY <1>3, <1>4, <2>2, FaultlessFirstCheck, FaultlessProcess, FaultlessAnswers
          DEF Lifecycle
<1>5. CASE UNCHANGED vars
  BY <1>3, <1>5 DEF FaultlessInv, SnapshotFresh, Age, FetchedAge, Undisturbed, vars, chainVars,
                    serviceVars, state
<1>6. QED BY <1>1, <1>3, <1>4, <1>5, FaultlessPoll, FaultlessNewBlock, FaultlessMempool
        DEF Next, Restart

\* With a network that answers, and blocks that wait for jobs and poll, a validator
\* whose lifecycle is over is closed for delegations, provided that the withdrawal
\* waits two blocks after the exit: the snapshot may be that old.
THEOREM DoneIsClosed ==
  ASSUME BlocksFit, SlowEnough
  PROVE  Spec => []ClosedWhenDone
<1>1. Init => WhenFaultless
  <2> SUFFICES ASSUME Init PROVE FaultlessInv
    BY DEF WhenFaultless
  <2>1. \A v \in Validators :
          /\ validation[v] = Unknown /\ sent[v] = Nothing /\ job[v] = "idle"
          /\ idLookup[v] = "absent" /\ fetched[v] = "absent" /\ status[v] = Pending
          /\ ~registered[v]
    BY DEF Init, LifecyclesInit, ServiceInit, All, Nobody
  <2>2. SnapshotFresh
    BY <2>1 DEF SnapshotFresh
  <2>3. \A v \in Validators : Undisturbed(v)
    <3>1. \A v \in Validators :
            ~validation[v].added /\ validation[v].signalled = 0 /\ sent[v].kind = "none"
      <4>1. ~Unknown.added /\ Unknown.signalled = 0 /\ Nothing.kind = "none"
        BY DEF Unknown, Nothing
      <4>2. QED BY <2>1, <4>1
    <3>2. Pending # Active /\ Pending # ExitSignalled /\ Pending # Withdrawn
      BY StatusNumbers
    <3>3. QED BY <2>1, <3>1, <3>2 DEF Undisturbed
  <2>4. QED BY <2>2, <2>3 DEF FaultlessInv, Init
<1>2. IInv /\ WhenFaultless /\ [Next]_vars => WhenFaultless'
  BY FaultlessStep
<1>3. WhenFaultless => ClosedWhenDone
  BY DEF WhenFaultless, FaultlessInv, Undisturbed, ClosedWhenDone
<1>4. QED BY Inductive, <1>1, <1>2, <1>3, PTL DEF Spec
=============================================================================
