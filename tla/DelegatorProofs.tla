---------------------------- MODULE DelegatorProofs ----------------------------
(***************************************************************************)
(* What a delegator's lifecycle promises, for any block, period, delay and *)
(* number of failing requests; some of it for any number of jobs that      *)
(* overlap, the rest for as many as it bears.                              *)
(***************************************************************************)
EXTENDS DelegatorLifecycle, FiniteSetTheorems, TLAPS

(* What the properties rest on. *)

\* Periods end every PeriodLength blocks while the validator is active.
PeriodsInv ==
  /\ validator.completed <= height
  /\ validator.completed * PeriodLength <= height
  /\ validator.status = "active" => height < (validator.completed + 1) * PeriodLength

\* The snapshot was true, and a validator that is gone stays gone.
ViewInv ==
  /\ view.status = "exit" => validator.status = "exit"
  /\ view.exiting => validator.exiting
  /\ view = NoView => validator.status = "exit"
  /\ validator.status = "exit" => validator.exiting

\* Who is staked was added by a transaction, in a period that was to come.
StakedInv ==
  \A t \in TxIds :
    /\ staked[t].start # 0 <=> txs[t].kind = "add" /\ txs[t].receipt.result = "ok"
    /\ staked[t].start * PeriodLength <= MaxHeight + 2 * PeriodLength

\* What a field refers to was sent for it, and its receipt is the transaction's.
Refers(tx, kind) ==
  /\ tx.id # NoId => txs[tx.id].kind = kind
  /\ tx.receipt # NoReceipt => tx.id # NoId /\ tx.receipt = txs[tx.id].receipt

\* A delegation has an id from the moment its receipt is recorded, and only then is
\* anything else sent for it.
FieldsInv ==
  /\ Refers(queuedTx, "add") /\ Refers(exitTx, "exit") /\ Refers(withdrawTx, "withdraw")
  /\ queuedTx.receipt # NoReceipt => queuedTx.receipt.result = "ok"
  /\ withdrawTx.receipt # NoReceipt => withdrawTx.receipt.result = "ok"
  /\ id = IF queuedTx.receipt = NoReceipt THEN NoId ELSE queuedTx.id
  /\ id # NoId => staked[id].start # 0 /\ startPeriod = staked[id].start
  /\ status \in Queued..ExitSignalled => id # NoId
  /\ \A s \in Slots : jobs[s].branch \in Queued..ExitSignalled => id # NoId
  /\ \A t \in TxIds : txs[t].kind \in {"exit", "withdraw"} => id # NoId
  /\ \A t \in TxIds : txs[t].receipt # NoReceipt => txs[t].receipt.result # "none"

WithdrawInv ==
  \A t \in TxIds : txs[t].kind = "withdraw" /\ txs[t].receipt.result = "ok" => staked[id].out

IInv == TypeOK /\ PeriodsInv /\ ViewInv /\ StakedInv /\ FieldsInv /\ WithdrawInv

\* The blocks the lifecycle computes with fit in 32 bits.
StaysFor == IF StakingPeriods = MaxUint32 THEN 0 ELSE StakingPeriods * PeriodLength
BlocksFit == MaxHeight + 2 * PeriodLength + StaysFor <= MaxUint32

\* Each status was reached by the ones before it.
StatusInv ==
  /\ activatedBlock # 0 => id # NoId /\ activatedBlock = startPeriod * PeriodLength
  /\ id # NoId => status >= Queued
  /\ id # NoId /\ status >= Active => activatedBlock # 0
  /\ id # NoId /\ status >= ExitSignalled => exitTx.receipt # NoReceipt
  /\ exitTx.receipt # NoReceipt => status >= ExitSignalled
  /\ withdrawTx.receipt # NoReceipt => exitTx.receipt # NoReceipt
  /\ \A s \in Slots : /\ jobs[s].branch \in Active..ExitSignalled => activatedBlock # 0
                      /\ jobs[s].block <= height

\* Jobs that chose the handler of Pending and have not run it.
Late == {s \in Slots : jobs[s].pc = "locked" /\ jobs[s].branch = Pending}

FewJobs == IsFiniteSet(Slots) /\ Cardinality(Slots) <= 3

\* All but n of the jobs a lifecycle can have are late, or fewer.
LateBut(n) == FewJobs /\ Cardinality(Late) <= Cardinality(Slots) - n

Gone == view = NoView \/ view.status = "exit" \/ view.exiting
Refused == queuedTx.id # NoId /\ txs[queuedTx.id].receipt.result = "notQueuedOrActive"

\* A lifecycle that ends before its delegation begins is not begun by a late job: its
\* validator is gone for good, or its transaction was refused.  A job can forget that
\* and a second one send the transaction again, but then no third is left to see it.
LateInv ==
  status = Withdrawn /\ id = NoId =>
    \/ Gone
    \/ Refused /\ (MaxFailures = 0 \/ LateBut(1))
    \/ queuedTx.id = NoId /\ LateBut(2)
    \/ LateBut(3)

\* An exit is sent when the delegation has started or the validator has left.
ExitInv ==
  /\ ~slotHeld => status >= ExitSignalled
  /\ \A t \in TxIds : txs[t].kind = "exit" =>
       /\ validator.status = "exit" \/ Started(validator, staked[id])
       /\ txs[t].receipt # NoReceipt => staked[id].last # 0 \/ validator.status = "exit"

ForwardInv == StatusInv /\ LateInv /\ ExitInv

\* Without failing requests there is one transaction that adds the delegation: it is
\* polled once by each job, and jobs are made as blocks are.  Due: the polls that the
\* jobs there are and the block that is not yet seen can still come to.
TwoJobs == IsFiniteSet(Slots) /\ Cardinality(Slots) <= 2

Busy == {s \in Slots : jobs[s].pc \in {"queued", "locked"}}
Due == Cardinality(Busy) + (IF ticked THEN 0 ELSE 1)

OnceInv ==
  /\ queuedTx.id = NoId => queuedTx.pollAttempts = 0
  /\ failures = 0 =>
       /\ \A t \in TxIds : txs[t].kind = "add" /\ (InMempool(t) \/ staked[t].start # 0) =>
            t = queuedTx.id
       /\ queuedTx.id # NoId /\ InMempool(queuedTx.id) =>
            queuedTx.pollAttempts + Due <= Cardinality(Slots) + txs[queuedTx.id].age

-----------------------------------------------------------------------------
(* Numbers and records. *)

Txs == [kind : {"free", "add", "exit", "withdraw"}, age : 0..(Expiration + 1),
        receipt : Receipts]
Stakes == [start : Nat, last : Nat, out : BOOLEAN]
JobRecords == [pc : {"idle", "queued", "locked", "cleanup"},
               block : 0..MaxHeight, branch : Pending..Withdrawn]
Kinds == {"add", "exit", "withdraw"}

LEMMA Numbers ==
  /\ {Expiration, QueueBlock, StakingPeriods, WithdrawDelay, MaxFailures} \subseteq Nat
  /\ {PeriodLength, MaxHeight, MaxTx, LossUntil} \subseteq Nat \ {0}
  /\ MaxUint32 \in Nat \ {0}
  /\ NoId \notin TxIds /\ TxIds \subseteq Nat
BY DelegatorAssumption, MaxUint32Assumption DEF NoId, TxIds

LEMMA Uint32Type == ASSUME NEW n \in Int PROVE uint32(n) \in Nat
BY MaxUint32Assumption DEF uint32

LEMMA Uint32Fits ==
  ASSUME NEW n \in Nat, n <= MaxUint32 PROVE uint32(n) = n
BY MaxUint32Assumption DEF uint32

LEMMA TimesNat == \A a, b \in Nat : a * b \in Nat
OBVIOUS

LEMMA TimesGrows == \A a, b, c \in Nat : a <= b => a * c <= b * c
OBVIOUS

LEMMA TimesPositive == \A a, b \in Nat \ {0} : a * b \in Nat \ {0} /\ a <= a * b
OBVIOUS

\* The next period begins at the next multiple of its length, and not before.
LEMMA PeriodEnds ==
  ASSUME NEW k \in Nat, NEW n \in Nat, NEW P \in Nat \ {0},
         k * P <= n, n < (k + 1) * P
  PROVE  /\ (n + 1) % P = 0 => n + 1 = (k + 1) * P
         /\ (n + 1) % P # 0 => n + 1 < (k + 1) * P
         /\ (k + 2) * P = (k + 1) * P + P
         /\ (k + 1) * P = k * P + P
<1> DEFINE a == k * P
<1>1. a \in Nat /\ (k + 1) * P = a + P /\ (k + 2) * P = a + P + P
  BY TimesNat
<1>2. a % P = 0 /\ (a + P) % P = 0
  <2>1. \A q \in Nat : (P * q) % P = 0
    OBVIOUS
  <2>2. a = P * k /\ a + P = P * (k + 1)
    BY <1>1
  <2>3. QED BY <2>1, <2>2
<1> DEFINE r == n - a
<1>3. r \in Nat /\ r < P /\ n = a + r
  BY <1>1
<1>4. CASE n + 1 = a + P
  BY <1>1, <1>2, <1>4
<1>5. CASE n + 1 # a + P
  <2>1. r + 1 \in 1..(P - 1) /\ n + 1 = a + (r + 1)
    BY <1>1, <1>3, <1>5
  <2>2. (n + 1) % P = r + 1
    <3> DEFINE q == (n + 1) \div P
               m == (n + 1) % P
    <3>1. q \in Nat /\ m \in Nat /\ m < P /\ n + 1 = P * q + m
      OBVIOUS
    <3>2. n + 1 = k * P + (r + 1) /\ r \in Nat /\ r + 1 < P
      BY <1>1, <1>3, <2>1
    <3> SUFFICES m = r + 1
      OBVIOUS
    <3> HIDE DEF q, m, r
    <3>3. P * q = q * P /\ q * P \in Nat
      BY <3>1
    <3>4. CASE q = k
      BY <3>1, <3>2, <3>3, <3>4
    <3>5. CASE q < k
      <4>1. (q + 1) * P <= k * P /\ (q + 1) * P = q * P + P
        BY <3>1, <3>5, TimesGrows
      <4>2. QED BY <1>1, <3>1, <3>2, <3>3, <4>1
    <3>6. CASE k < q
      <4>1. (k + 1) * P <= q * P
        BY <3>1, <3>6, TimesGrows
      <4>2. QED BY <1>1, <3>1, <3>2, <3>3, <4>1
    <3>7. QED BY <3>1, <3>4, <3>5, <3>6
  <2>3. QED BY <1>1, <1>3, <2>1, <2>2
<1>6. QED BY <1>4, <1>5

LEMMA RecordTypes ==
  /\ NoReceipt \in Receipts /\ NoReceipt.result = "none"
  /\ NoTx \in SentTxs /\ NoTx.id = NoId /\ NoTx.receipt = NoReceipt /\ NoTx.pollAttempts = 0
  /\ Free \in Txs /\ Free.receipt = NoReceipt /\ Free.kind = "free" /\ Free.age = 0
  /\ NoView.status = "none" /\ NoView.exiting = FALSE
  /\ Idle \in JobRecords /\ Idle.pc = "idle" /\ Idle.branch = Pending /\ Idle.block = 0
<1>1. NoReceipt \in Receipts /\ NoReceipt.result = "none"
  BY Numbers DEF NoReceipt, Receipts
<1>2. NoTx \in SentTxs /\ NoTx.id = NoId /\ NoTx.receipt = NoReceipt /\ NoTx.pollAttempts = 0
  <2> HIDE DEF NoReceipt
  <2>1. QED BY <1>1, Numbers DEF NoTx, SentTxs
<1>3. Free \in Txs /\ Free.receipt = NoReceipt /\ Free.kind = "free" /\ Free.age = 0
  BY <1>1, Numbers DEF Free, Txs
<1>4. NoView.status = "none" /\ NoView.exiting = FALSE
  BY DEF NoView
<1>5. Idle \in JobRecords /\ Idle.pc = "idle" /\ Idle.branch = Pending /\ Idle.block = 0
  BY Numbers DEF Idle, JobRecords, Pending, Withdrawn
<1>6. QED BY <1>1, <1>2, <1>3, <1>4, <1>5

-----------------------------------------------------------------------------
(* What the operations do to the fields. *)

Sending(tx, newTx, kind, fails) ==
  /\ tx.id = NoId
  /\ \/ fails /\ newTx = tx /\ txs' = txs
     \/ \E t \in TxIds :
          /\ Unused(t)
          /\ txs' = [txs EXCEPT ![t] = txs'[t]]
          /\ txs'[t] \in Txs /\ txs'[t].kind = kind /\ txs'[t].receipt = NoReceipt
          /\ txs'[t].age = 0
          /\ \/ fails /\ newTx = tx
             \/ /\ ~fails
                /\ newTx \in SentTxs /\ newTx.id = t /\ newTx.receipt = tx.receipt
                /\ newTx.pollAttempts = tx.pollAttempts

\* A transaction that is sent takes an id no field refers to.
LEMMA SendEffect ==
  ASSUME txs \in [TxIds -> Txs], NEW tx \in SentTxs, NEW newTx, NEW kind \in Kinds,
         NEW fails \in BOOLEAN, tx.id = NoId, SendsAs(tx, newTx, kind, fails)
  PROVE  Sending(tx, newTx, kind, fails)
<1>1. ASSUME NEW t \in TxIds, Unused(t),
             txs' = [txs EXCEPT ![t] = [Free EXCEPT !.kind = kind]],
             newTx = IF fails THEN tx ELSE [tx EXCEPT !.id = t]
      PROVE  /\ txs' = [txs EXCEPT ![t] = txs'[t]]
             /\ txs'[t] \in Txs /\ txs'[t].kind = kind /\ txs'[t].receipt = NoReceipt
             /\ txs'[t].age = 0
             /\ \/ fails /\ newTx = tx
                \/ /\ ~fails
                   /\ newTx \in SentTxs /\ newTx.id = t /\ newTx.receipt = tx.receipt
                   /\ newTx.pollAttempts = tx.pollAttempts
  <2> DEFINE new == [Free EXCEPT !.kind = kind]
  <2>1. new \in Txs /\ new.kind = kind /\ new.receipt = NoReceipt /\ new.age = 0
    BY RecordTypes DEF Txs, Kinds
  <2> HIDE DEF new
  <2>2. txs' = [txs EXCEPT ![t] = new]
    BY <1>1 DEF new
  <2>3. txs'[t] = new
    BY <2>2
  <2>4. ASSUME ~fails
        PROVE  /\ newTx \in SentTxs /\ newTx.id = t /\ newTx.receipt = tx.receipt
               /\ newTx.pollAttempts = tx.pollAttempts
    BY <1>1, <2>4 DEF SentTxs
  <2>5. QED BY <1>1, <2>1, <2>2, <2>3, <2>4
<1>2. CASE fails /\ newTx = tx /\ UNCHANGED txs
  BY <1>2 DEF Sending
<1>3. ASSUME NEW t \in TxIds, Unused(t),
             txs' = [txs EXCEPT ![t] = [Free EXCEPT !.kind = kind]],
             newTx = IF fails THEN tx ELSE [tx EXCEPT !.id = t]
      PROVE  Sending(tx, newTx, kind, fails)
  <2>1. /\ txs' = [txs EXCEPT ![t] = txs'[t]]
        /\ txs'[t] \in Txs /\ txs'[t].kind = kind /\ txs'[t].receipt = NoReceipt
        /\ txs'[t].age = 0
        /\ \/ fails /\ newTx = tx
           \/ /\ ~fails
              /\ newTx \in SentTxs /\ newTx.id = t /\ newTx.receipt = tx.receipt
              /\ newTx.pollAttempts = tx.pollAttempts
    BY <1>1, <1>3
  <2>2. Unused(t)
    BY <1>3
  <2>3. QED BY <2>1, <2>2 DEF Sending
<1>4. QED BY <1>2, <1>3 DEF SendsAs

\* A poll leaves the transaction without a receipt, or finds one to act on.
LEMMA PollEffect ==
  ASSUME txs \in [TxIds -> Txs], NEW tx \in SentTxs, tx.id # NoId, tx.receipt = NoReceipt,
         NEW allowed, NEW fails \in BOOLEAN, NEW poll \in Polls(tx, allowed, fails)
  PROVE  /\ poll.tx \in SentTxs /\ poll.receipt \in Receipts
         /\ poll.tx.receipt = NoReceipt
         /\ \/ /\ poll.receipt = NoReceipt
               /\ \/ /\ poll.tx.id = tx.id
                     /\ poll.tx.pollAttempts = tx.pollAttempts + 1
                     /\ txs[tx.id].receipt = NoReceipt \/ fails
                  \/ /\ poll.tx = NoTx
                     /\ \/ tx.pollAttempts > Expiration /\ (txs[tx.id].receipt = NoReceipt \/ fails)
                        \/ /\ txs[tx.id].receipt # NoReceipt
                           /\ txs[tx.id].receipt.result # "ok"
                           /\ txs[tx.id].receipt.result \notin allowed \/ fails
            \/ /\ poll.receipt # NoReceipt /\ poll.receipt = txs[tx.id].receipt
               /\ poll.tx = tx
               /\ \/ poll.receipt.result = "ok"
                  \/ poll.receipt.result \in allowed /\ ~fails
<1> DEFINE receipt == txs[tx.id].receipt
<1>1. tx.id \in TxIds /\ txs[tx.id] \in Txs /\ receipt \in Receipts
      /\ tx.pollAttempts \in 0..(Expiration + 1)
  BY DEF SentTxs, Txs
<1> HIDE DEF receipt
<1>2. \A a, b : Poll(a, b).tx = a /\ Poll(a, b).receipt = b
  BY DEF Poll
<1>3. CASE poll = handleReceiptError(tx) /\ (receipt = NoReceipt \/ fails)
  <2>1. CASE tx.pollAttempts > Expiration
    <3>1. poll = Poll(NoTx, NoReceipt)
      BY <1>3, <2>1 DEF handleReceiptError
    <3>2. QED BY <1>2, <1>3, <2>1, <3>1, RecordTypes DEF receipt
  <2>2. CASE ~(tx.pollAttempts > Expiration)
    <3> DEFINE more == [tx EXCEPT !.pollAttempts = @ + 1]
    <3>1. tx.pollAttempts + 1 \in 0..(Expiration + 1)
      BY <1>1, <2>2, Numbers
    <3>2. more \in SentTxs /\ more.receipt = NoReceipt /\ more.id = tx.id
          /\ more.pollAttempts = tx.pollAttempts + 1
      BY <3>1 DEF SentTxs
    <3>3. poll = Poll(more, NoReceipt)
      BY <1>3, <2>2 DEF handleReceiptError
    <3> HIDE DEF more
    <3>4. QED BY <1>2, <1>3, <3>2, <3>3, RecordTypes DEF receipt
  <2>3. QED BY <2>1, <2>2
<1>4. CASE receipt # NoReceipt /\ poll = processReceipt(tx, receipt, allowed, fails)
  <2>1. CASE receipt.result = "ok" \/ (receipt.result \in allowed /\ ~fails)
    <3>1. poll = Poll(tx, receipt)
      BY <1>4, <2>1 DEF processReceipt
    <3>2. QED BY <1>1, <1>2, <1>4, <2>1, <3>1 DEF receipt
  <2>2. CASE ~(receipt.result = "ok" \/ (receipt.result \in allowed /\ ~fails))
    <3>1. poll = Poll(NoTx, NoReceipt)
      BY <1>4, <2>2 DEF processReceipt
    <3>2. QED BY <1>2, <1>4, <2>2, <3>1, RecordTypes DEF receipt
  <2>3. QED BY <2>1, <2>2
<1>5. QED BY <1>3, <1>4 DEF Polls, receipt

-----------------------------------------------------------------------------
(* What a block does. *)

LEMMA TypeParts ==
  ASSUME TypeOK
  PROVE  /\ txs \in [TxIds -> Txs] /\ staked \in [TxIds -> Stakes]
         /\ jobs \in [Slots -> JobRecords]
         /\ queuedTx \in SentTxs /\ exitTx \in SentTxs /\ withdrawTx \in SentTxs
         /\ height \in Nat /\ height <= MaxHeight /\ MaxHeight \in Nat \ {0}
         /\ validator.completed \in Nat /\ validator.status \in {"active", "exit"}
         /\ validator.exiting \in BOOLEAN /\ validator \in Validations
BY Numbers DEF TypeOK, Txs, Stakes, JobRecords, Validations

\* A period may end with a block; the number of the current one never decreases.
LEMMA ValidatorEffect ==
  ASSUME TypeOK, PeriodsInv
  PROVE  /\ Least(height + 1) \in 0..MaxHeight /\ height <= Least(height + 1)
         /\ ValidatorAfterBlock \in Validations
         /\ ValidatorAfterBlock.exiting = validator.exiting
         /\ validator.status = "exit" => ValidatorAfterBlock = validator
         /\ ValidatorAfterBlock.status = "exit" => validator.status = "exit" \/ validator.exiting
         /\ CurrentPeriod(validator) \in Nat /\ CurrentPeriod(ValidatorAfterBlock) \in Nat
         /\ CurrentPeriod(validator) <= CurrentPeriod(ValidatorAfterBlock)
         /\ ValidatorAfterBlock.completed <= Least(height + 1)
         /\ ValidatorAfterBlock.completed * PeriodLength <= Least(height + 1)
         /\ ValidatorAfterBlock.status = "active" =>
              Least(height + 1) < (ValidatorAfterBlock.completed + 1) * PeriodLength
<1> DEFINE next == Least(height + 1)
<1>1. /\ height \in Nat /\ height <= MaxHeight /\ MaxHeight \in Nat \ {0}
      /\ validator.completed \in Nat /\ validator.status \in {"active", "exit"}
      /\ validator.exiting \in BOOLEAN /\ validator \in Validations
      /\ PeriodLength \in Nat \ {0}
  BY TypeParts, Numbers
<1>2. next = (IF height < MaxHeight THEN height + 1 ELSE height)
  BY <1>1 DEF Least
<1>3. next \in 0..MaxHeight /\ height <= next
  BY <1>1, <1>2
<1> HIDE DEF next
<1>4. validator.completed * PeriodLength \in Nat
  BY <1>1, TimesNat
<1>5. /\ validator.completed <= height
      /\ validator.completed * PeriodLength <= height
      /\ validator.status = "active" => height < (validator.completed + 1) * PeriodLength
  BY DEF PeriodsInv
<1>6. CASE (height + 1) % PeriodLength = 0 /\ validator.status = "active" /\ height < MaxHeight
  <2> DEFINE v == ValidatorAfterBlock
  <2>1. v = [validator EXCEPT !.completed = @ + 1,
                              !.status = IF validator.exiting THEN "exit" ELSE @]
    BY <1>6 DEF ValidatorAfterBlock
  <2>2. /\ v.completed = validator.completed + 1 /\ v.exiting = validator.exiting
        /\ v.status = IF validator.exiting THEN "exit" ELSE "active"
        /\ v = [status |-> v.status, completed |-> v.completed, exiting |-> v.exiting]
    BY <1>1, <1>6, <2>1 DEF Validations
  <2>3. v.completed \in 0..MaxHeight
    BY <1>1, <1>5, <1>6, <2>2
  <2>4. v \in Validations
    BY <1>1, <2>2, <2>3 DEF Validations
  <2> HIDE DEF v
  <2>5. next = height + 1 /\ height + 1 = (validator.completed + 1) * PeriodLength
        /\ (validator.completed + 2) * PeriodLength = (validator.completed + 1) * PeriodLength + PeriodLength
    BY <1>1, <1>2, <1>5, <1>6, PeriodEnds
  <2>6. v.completed <= next /\ v.completed * PeriodLength <= next
    BY <1>1, <1>5, <2>2, <2>5
  <2>7. next < (v.completed + 1) * PeriodLength
    <3>1. v.completed + 1 = validator.completed + 2
      BY <1>1, <2>2
    <3>2. QED BY <1>1, <1>3, <2>5, <3>1
  <2>8. /\ CurrentPeriod(validator) = validator.completed + 1
        /\ CurrentPeriod(v) \in {validator.completed + 1, validator.completed + 2}
    BY <1>1, <1>6, <2>2 DEF CurrentPeriod
  <2>9. QED BY <1>1, <1>3, <1>6, <2>2, <2>4, <2>6, <2>7, <2>8 DEF v, next
<1>7. CASE ~((height + 1) % PeriodLength = 0 /\ validator.status = "active" /\ height < MaxHeight)
  <2>1. ValidatorAfterBlock = validator
    BY <1>7 DEF ValidatorAfterBlock
  <2>2. CurrentPeriod(validator) \in Nat
    BY <1>1 DEF CurrentPeriod
  <2>3. validator.status = "active" => next < (validator.completed + 1) * PeriodLength
    <3>1. CASE height < MaxHeight /\ validator.status = "active"
      BY <1>1, <1>2, <1>5, <1>7, <3>1, PeriodEnds
    <3>2. CASE ~(height < MaxHeight)
      BY <1>2, <1>5, <3>2
    <3>3. QED BY <3>1, <3>2
  <2>4. QED BY <1>1, <1>3, <1>4, <1>5, <2>1, <2>2, <2>3 DEF next
<1>8. QED BY <1>6, <1>7

\* Waiting transactions age.
LEMMA AgedEffect ==
  ASSUME txs \in [TxIds -> Txs]
  PROVE  /\ Aged \in [TxIds -> Txs]
         /\ \A t \in TxIds :
              /\ Aged[t].kind = txs[t].kind /\ Aged[t].receipt = txs[t].receipt
              /\ txs[t].age <= Aged[t].age
              /\ InMempool(t) => Aged[t].age = txs[t].age + 1
<1> SUFFICES ASSUME NEW t \in TxIds
             PROVE  /\ Aged[t] \in Txs
                    /\ Aged[t].kind = txs[t].kind /\ Aged[t].receipt = txs[t].receipt
                    /\ txs[t].age <= Aged[t].age
                    /\ InMempool(t) => Aged[t].age = txs[t].age + 1
  BY DEF Aged
<1>1. txs[t] \in Txs /\ txs[t].age \in 0..(Expiration + 1) /\ Expiration \in Nat
  BY Numbers DEF Txs
<1>2. CASE Unmined(txs[t]) /\ txs[t].age <= Expiration
  <2> DEFINE older == [txs[t] EXCEPT !.age = @ + 1]
  <2>1. txs[t].age + 1 \in 0..(Expiration + 1)
    BY <1>1, <1>2
  <2>2. /\ older \in Txs /\ older.kind = txs[t].kind /\ older.receipt = txs[t].receipt
        /\ older.age = txs[t].age + 1
    BY <1>1, <2>1 DEF Txs
  <2>3. Aged[t] = older
    BY <1>2 DEF Aged
  <2> HIDE DEF older
  <2>4. QED BY <1>1, <2>2, <2>3
<1>3. CASE ~(Unmined(txs[t]) /\ txs[t].age <= Expiration)
  <2>1. Aged[t] = txs[t]
    BY <1>3 DEF Aged
  <2>2. ~InMempool(t)
    BY <1>1, <1>3 DEF InMempool
  <2>3. QED BY <1>1, <2>1, <2>2
<1>4. QED BY <1>2, <1>3

\* What the contract does with the transactions of a block, by their kind: only what
\* is written of the delegation concerned changes.
AddMined(t) ==
  /\ txs[t].kind = "add"
  /\ \/ /\ txs'[t].receipt.result = "ok" /\ validator'.status = "active"
        /\ staked' = [staked EXCEPT ![t] = staked'[t]]
        /\ staked'[t] \in Stakes
        /\ staked'[t].start = CurrentPeriod(validator') + 1
     \/ /\ txs'[t].receipt.result # "ok" /\ staked' = staked

ExitMined(t) ==
  /\ txs[t].kind = "exit"
  /\ \/ /\ staked' = [staked EXCEPT ![id] = staked'[id]]
        /\ staked'[id] \in Stakes
        /\ staked'[id].start = staked[id].start /\ staked'[id].out = staked[id].out
        /\ staked'[id].last # 0
     \/ /\ staked' = staked
        /\ \/ ~Started(validator', staked[id])
           \/ staked[id].last # 0
           \/ validator'.status = "exit"

WithdrawMined(t) ==
  /\ txs[t].kind = "withdraw"
  /\ \/ /\ staked' = [staked EXCEPT ![id] = staked'[id]]
        /\ staked'[id] \in Stakes
        /\ staked'[id].start = staked[id].start /\ staked'[id].last = staked[id].last
        /\ staked'[id].out = TRUE
     \/ /\ staked' = staked /\ txs'[t].receipt.result # "ok"

\* Each outcome is of one of these kinds.
LEMMA OutcomeEffect ==
  ASSUME TypeOK, NEW t \in TxIds, id \in TxIds \/ txs[t].kind = "add",
         NEW v \in Validations, CurrentPeriod(v) \in Nat, Unmined(txs[t]),
         NEW o \in Outcomes(v, t)
  PROVE  /\ o.result \in {"ok", "notQueuedOrActive", "notStarted", "ended", "other"}
         /\ \/ /\ txs[t].kind = "add"
               /\ \/ /\ o.result = "ok" /\ v.status = "active"
                     /\ o.staked = [staked EXCEPT ![t] =
                                      [start |-> CurrentPeriod(v) + 1, last |-> 0, out |-> FALSE]]
                  \/ o.result # "ok" /\ o.staked = staked
            \/ /\ txs[t].kind = "exit"
               /\ \/ /\ CurrentPeriod(v) # 0
                     /\ o.staked = [staked EXCEPT ![id] = [@ EXCEPT !.last = CurrentPeriod(v)]]
                  \/ /\ o.staked = staked
                     /\ ~Started(v, staked[id]) \/ staked[id].last # 0 \/ v.status = "exit"
            \/ /\ txs[t].kind = "withdraw"
               /\ \/ o.staked = [staked EXCEPT ![id] = [@ EXCEPT !.out = TRUE]]
                  \/ o.staked = staked /\ o.result # "ok"
<1>1. \A r, s : Answer(r, s).result = r /\ Answer(r, s).staked = s
  BY DEF Answer
<1>2. txs[t].kind \in Kinds
  BY TypeParts DEF Unmined, Kinds, Txs
<1>3. CASE txs[t].kind = "add"
  <2> DEFINE new == [start |-> CurrentPeriod(v) + 1, last |-> 0, out |-> FALSE]
  <2>1. o \in AddOutcomes(v, t)
    BY <1>3 DEF Outcomes
  <2>2. \/ v.status = "active" /\ o = Answer("ok", [staked EXCEPT ![t] = new])
        \/ o = Answer("notQueuedOrActive", staked)
        \/ o = Answer("other", staked)
    BY <2>1 DEF AddOutcomes
  <2> HIDE DEF new
  <2>3. QED BY <1>1, <1>3, <2>2 DEF new
<1>4. CASE txs[t].kind = "exit"
  <2> DEFINE d == staked[id]
             started == Started(v, d)
             ended == Ended(v, d)
             ending == [staked EXCEPT ![id].last = CurrentPeriod(v)]
  <2>1. o = ExitOutcome(v, d) /\ id \in TxIds
    BY <1>4 DEF Outcomes
  <2>2. ending = [staked EXCEPT ![id] = [@ EXCEPT !.last = CurrentPeriod(v)]]
    BY <1>4, TypeParts
  <2>3. ended => v.status = "exit" \/ d.last # 0
    BY DEF Ended
  <2>4. started /\ ~ended => v.status # "exit"
    BY DEF Ended
  <2>5. v.status \in {"active", "exit"} /\ (v.status # "exit" => CurrentPeriod(v) # 0)
    BY DEF Validations, CurrentPeriod
  <2>6. \/ ~started /\ o = Answer("notStarted", staked)
        \/ started /\ ended /\ o = Answer("ended", staked)
        \/ started /\ ~ended /\ d.last # 0 /\ o = Answer("other", staked)
        \/ started /\ ~ended /\ d.last = 0 /\ o = Answer("ok", ending)
    BY <2>1 DEF ExitOutcome
  <2> HIDE DEF started, ended, ending
  <2>7. CASE started /\ ~ended /\ d.last = 0 /\ o = Answer("ok", ending)
    BY <1>1, <1>4, <2>2, <2>4, <2>5, <2>7
  <2>8. CASE o.staked = staked /\ (~started \/ d.last # 0 \/ v.status = "exit")
             /\ o.result \in {"notStarted", "ended", "other"}
    BY <1>4, <2>8 DEF started
  <2>9. QED BY <1>1, <2>3, <2>6, <2>7, <2>8
<1>5. CASE txs[t].kind = "withdraw"
  <2> DEFINE leaving == [staked EXCEPT ![id].out = TRUE]
  <2>1. o = WithdrawOutcome(v, staked[id]) /\ id \in TxIds
    BY <1>5 DEF Outcomes
  <2>2. leaving = [staked EXCEPT ![id] = [@ EXCEPT !.out = TRUE]]
    BY TypeParts
  <2>3. o = Answer("other", staked) \/ o = Answer("ok", leaving)
    BY <2>1 DEF WithdrawOutcome
  <2> HIDE DEF leaving
  <2>4. QED BY <1>1, <1>5, <2>2, <2>3
<1>6. QED BY <1>2, <1>3, <1>4, <1>5 DEF Kinds

\* A block with a transaction ages the others and answers that one.
LEMMA BlockWithEffect ==
  ASSUME TypeOK, PeriodsInv, NEW t \in TxIds, BlockWith(t),
         txs[t].kind \in {"exit", "withdraw"} => id \in TxIds
  PROVE  /\ InMempool(t)
         /\ txs' \in [TxIds -> Txs] /\ staked' \in [TxIds -> Stakes]
         /\ \A u \in TxIds : /\ txs'[u].kind = txs[u].kind /\ txs[u].age <= txs'[u].age
                             /\ InMempool(u) => txs'[u].age = txs[u].age + 1
                             /\ u # t => txs'[u].receipt = txs[u].receipt
         /\ txs'[t].receipt.result \in {"ok", "notQueuedOrActive", "notStarted", "ended", "other"}
         /\ txs'[t].receipt # NoReceipt
         /\ AddMined(t) \/ ExitMined(t) \/ WithdrawMined(t)
<1> DEFINE v == ValidatorAfterBlock
<1>1. v \in Validations /\ CurrentPeriod(v) \in Nat /\ Least(height + 1) \in 0..MaxHeight
  BY ValidatorEffect
<1>2. InMempool(t) /\ validator' = v /\ height' = Least(height + 1)
  BY DEF BlockWith, NewBlock
<1> HIDE DEF v
<1>3. PICK o \in Outcomes(v, t) :
        /\ txs' = [Aged EXCEPT ![t].receipt = [block |-> height', result |-> o.result]]
        /\ staked' = o.staked
  BY DEF BlockWith, v
<1>4. Unmined(txs[t])
  BY <1>2 DEF InMempool
<1>5. txs[t].kind \in Kinds
  BY <1>4, TypeParts DEF Unmined, Kinds, Txs
<1>6. txs[t].kind = "add" \/ id \in TxIds
  BY <1>5 DEF Kinds
<1> DEFINE receipt == [block |-> height', result |-> o.result]
<1>7. /\ o.result \in {"ok", "notQueuedOrActive", "notStarted", "ended", "other"}
      /\ \/ /\ txs[t].kind = "add"
            /\ \/ /\ o.result = "ok" /\ v.status = "active"
                  /\ o.staked = [staked EXCEPT ![t] =
                                   [start |-> CurrentPeriod(v) + 1, last |-> 0, out |-> FALSE]]
               \/ o.result # "ok" /\ o.staked = staked
         \/ /\ txs[t].kind = "exit"
            /\ \/ /\ CurrentPeriod(v) # 0
                  /\ o.staked = [staked EXCEPT ![id] = [@ EXCEPT !.last = CurrentPeriod(v)]]
               \/ /\ o.staked = staked
                  /\ ~Started(v, staked[id]) \/ staked[id].last # 0 \/ v.status = "exit"
         \/ /\ txs[t].kind = "withdraw"
            /\ \/ o.staked = [staked EXCEPT ![id] = [@ EXCEPT !.out = TRUE]]
               \/ o.staked = staked /\ o.result # "ok"
  BY <1>1, <1>4, <1>6, OutcomeEffect
<1>8. receipt \in Receipts /\ receipt.result = o.result /\ receipt # NoReceipt
  BY <1>1, <1>2, <1>7, RecordTypes DEF Receipts
<1> HIDE DEF receipt
<1>9. Aged \in [TxIds -> Txs]
  BY TypeParts, AgedEffect
<1>10. /\ txs' = [Aged EXCEPT ![t] = txs'[t]] /\ txs'[t] \in Txs
       /\ txs'[t].kind = Aged[t].kind /\ txs'[t].age = Aged[t].age
       /\ txs'[t].receipt = receipt
  <2> DEFINE new == [Aged[t] EXCEPT !.receipt = receipt]
  <2>1. new \in Txs /\ new.kind = Aged[t].kind /\ new.age = Aged[t].age /\ new.receipt = receipt
    BY <1>8, <1>9 DEF Txs
  <2>2. txs' = [Aged EXCEPT ![t] = new]
    BY <1>3, <1>9 DEF receipt
  <2> HIDE DEF new
  <2>3. txs'[t] = new
    BY <1>9, <2>2
  <2>4. QED BY <2>1, <2>2, <2>3
<1>11. \A u \in TxIds : /\ txs'[u].kind = txs[u].kind /\ txs[u].age <= txs'[u].age
                        /\ InMempool(u) => txs'[u].age = txs[u].age + 1
                        /\ u # t => txs'[u].receipt = txs[u].receipt
  BY <1>9, <1>10, TypeParts, AgedEffect
<1>12. txs' \in [TxIds -> Txs]
  BY <1>9, <1>10
<1>13. CASE txs[t].kind = "add"
  <2> DEFINE new == [start |-> CurrentPeriod(v) + 1, last |-> 0, out |-> FALSE]
  <2>1. new \in Stakes /\ new.start = CurrentPeriod(v) + 1
    BY <1>1 DEF Stakes
  <2>2. \/ /\ o.result = "ok" /\ v.status = "active" /\ staked' = [staked EXCEPT ![t] = new]
        \/ o.result # "ok" /\ staked' = staked
    BY <1>3, <1>7, <1>13
  <2> HIDE DEF new
  <2>3. staked' \in [TxIds -> Stakes] /\ AddMined(t)
    BY <1>2, <1>8, <1>10, <1>13, <2>1, <2>2, TypeParts DEF AddMined, CurrentPeriod
  <2>4. QED BY <1>2, <1>7, <1>8, <1>10, <1>11, <1>12, <2>3
<1>14. CASE txs[t].kind = "exit"
  <2> DEFINE new == [staked[id] EXCEPT !.last = CurrentPeriod(v)]
  <2>1. id \in TxIds /\ staked[id] \in Stakes
    BY <1>14, TypeParts
  <2>2. new \in Stakes /\ new.start = staked[id].start /\ new.out = staked[id].out
        /\ new.last = CurrentPeriod(v)
    BY <1>1, <2>1 DEF Stakes
  <2>3. \/ CurrentPeriod(v) # 0 /\ staked' = [staked EXCEPT ![id] = new]
        \/ /\ staked' = staked
           /\ ~Started(v, staked[id]) \/ staked[id].last # 0 \/ v.status = "exit"
    BY <1>3, <1>7, <1>14
  <2> HIDE DEF new
  <2>4. staked' \in [TxIds -> Stakes] /\ ExitMined(t)
    BY <1>2, <1>14, <2>1, <2>2, <2>3, TypeParts DEF ExitMined, Started, CurrentPeriod
  <2>5. QED BY <1>2, <1>7, <1>8, <1>10, <1>11, <1>12, <2>4
<1>15. CASE txs[t].kind = "withdraw"
  <2> DEFINE new == [staked[id] EXCEPT !.out = TRUE]
  <2>1. id \in TxIds /\ staked[id] \in Stakes
    BY <1>15, TypeParts
  <2>2. new \in Stakes /\ new.start = staked[id].start /\ new.last = staked[id].last
        /\ new.out = TRUE
    BY <1>1, <2>1 DEF Stakes
  <2>3. \/ staked' = [staked EXCEPT ![id] = new]
        \/ staked' = staked /\ o.result # "ok"
    BY <1>3, <1>7, <1>15
  <2> HIDE DEF new
  <2>4. staked' \in [TxIds -> Stakes] /\ WithdrawMined(t)
    BY <1>8, <1>10, <1>15, <2>1, <2>2, <2>3, TypeParts DEF WithdrawMined
  <2>5. QED BY <1>2, <1>7, <1>8, <1>10, <1>11, <1>12, <2>4
<1>16. QED BY <1>5, <1>13, <1>14, <1>15 DEF Kinds

-----------------------------------------------------------------------------
(* What the handlers do: send a transaction, poll in vain, or find its receipt. *)

Waiting(tx, newTx, allowed, fails) ==
  /\ tx.id # NoId /\ txs' = txs
  /\ newTx \in SentTxs /\ newTx.receipt = NoReceipt
  /\ \/ /\ newTx.id = tx.id /\ newTx.pollAttempts = tx.pollAttempts + 1
        /\ txs[tx.id].receipt = NoReceipt \/ fails
     \/ /\ newTx.id = NoId /\ newTx.pollAttempts = 0
        /\ \/ tx.pollAttempts > Expiration /\ (txs[tx.id].receipt = NoReceipt \/ fails)
           \/ /\ txs[tx.id].receipt # NoReceipt
              /\ txs[tx.id].receipt.result # "ok"
              /\ txs[tx.id].receipt.result \notin allowed \/ fails

Finding(tx, newTx, allowed, fails) ==
  /\ tx.id # NoId /\ txs' = txs
  /\ txs[tx.id].receipt # NoReceipt
  /\ newTx \in SentTxs /\ newTx.id = tx.id /\ newTx.receipt = txs[tx.id].receipt
  /\ newTx.pollAttempts = tx.pollAttempts
  /\ \/ newTx.receipt.result = "ok"
     \/ newTx.receipt.result \in allowed /\ ~fails

LEMMA RecordedEffect ==
  ASSUME txs \in [TxIds -> Txs], NEW tx \in SentTxs, tx.id # NoId, tx.receipt = NoReceipt,
         NEW allowed, NEW fails \in BOOLEAN, NEW poll \in Polls(tx, allowed, fails),
         txs' = txs
  PROVE  /\ poll.receipt = NoReceipt =>
              Recorded(poll) = poll.tx /\ Waiting(tx, poll.tx, allowed, fails)
         /\ poll.receipt # NoReceipt => Finding(tx, Recorded(poll), allowed, fails)
<1>1. CASE poll.receipt = NoReceipt
  <2>1. Recorded(poll) = poll.tx
    BY <1>1 DEF Recorded
  <2>2. Waiting(tx, poll.tx, allowed, fails)
    BY <1>1, PollEffect, RecordTypes DEF Waiting
  <2>3. QED BY <1>1, <2>1, <2>2
<1>2. CASE poll.receipt # NoReceipt
  <2>1. /\ poll.receipt = txs[tx.id].receipt /\ poll.receipt \in Receipts
        /\ poll.tx = tx
        /\ \/ poll.receipt.result = "ok"
           \/ poll.receipt.result \in allowed /\ ~fails
    BY <1>2, PollEffect
  <2> DEFINE new == [tx EXCEPT !.receipt = poll.receipt]
  <2>2. Recorded(poll) = new
    BY <1>2, <2>1 DEF Recorded
  <2>3. new \in SentTxs /\ new.id = tx.id /\ new.receipt = poll.receipt
        /\ new.pollAttempts = tx.pollAttempts
    BY <2>1 DEF SentTxs
  <2> HIDE DEF new
  <2>4. QED BY <1>2, <2>1, <2>2, <2>3 DEF Finding
<1>3. QED BY <1>1, <1>2

\* processPendingState.
PendingDoes(fails) ==
  /\ queuedTx.receipt = NoReceipt /\ view # NoView
  /\ isValidationUnavailable =>
       status' = Withdrawn /\ UNCHANGED <<queuedTx, startPeriod, id, txs>>
  /\ UNCHANGED <<activatedBlock, exitTx, withdrawTx>>
  /\ \/ /\ isValidationUnavailable /\ status' = Withdrawn
        /\ UNCHANGED <<queuedTx, startPeriod, id, txs>>
     \/ /\ Sending(queuedTx, queuedTx', "add", fails)
        /\ UNCHANGED <<status, startPeriod, id>>
     \/ /\ Waiting(queuedTx, queuedTx', {"notQueuedOrActive"}, fails)
        /\ UNCHANGED <<status, startPeriod, id>>
     \/ /\ queuedTx.id # NoId /\ ~fails
        /\ txs[queuedTx.id].receipt.result = "notQueuedOrActive"
        /\ status' = Withdrawn
        /\ UNCHANGED <<queuedTx, startPeriod, id, txs>>
     \/ /\ Finding(queuedTx, queuedTx', {"notQueuedOrActive"}, fails) /\ ~fails
        /\ queuedTx'.receipt.result = "ok"
        /\ status' = Queued /\ id' = queuedTx.id /\ startPeriod' = staked[queuedTx.id].start
     \/ /\ fails /\ UNCHANGED <<status, queuedTx, startPeriod, id, txs>>

LEMMA PendingEffect ==
  ASSUME TypeOK, FieldsInv, NEW block, NEW fails \in BOOLEAN,
         processPendingState(block, fails)
  PROVE  PendingDoes(fails)
<1>1. /\ txs \in [TxIds -> Txs] /\ queuedTx \in SentTxs
  BY TypeParts
<1>2. /\ queuedTx.receipt = NoReceipt /\ view # NoView
      /\ isValidationUnavailable =>
           status' = Withdrawn /\ UNCHANGED <<queuedTx, startPeriod, id, txs>>
      /\ UNCHANGED <<activatedBlock, exitTx, withdrawTx>>
  BY DEF processPendingState
<1>3. CASE isValidationUnavailable /\ status' = Withdrawn
           /\ UNCHANGED <<queuedTx, startPeriod, id, txs>>
  BY <1>2, <1>3 DEF PendingDoes
<1>4. CASE /\ queuedTx.id = NoId
           /\ SendsAs(queuedTx, queuedTx', "add", fails)
           /\ UNCHANGED <<status, startPeriod, id>>
  <2>1. "add" \in Kinds
    BY DEF Kinds
  <2>2. Sending(queuedTx, queuedTx', "add", fails)
    BY <1>1, <1>4, <2>1, SendEffect
  <2>3. QED BY <1>2, <1>4, <2>2 DEF PendingDoes
<1>5. ASSUME queuedTx.id # NoId, UNCHANGED txs,
             NEW poll \in Polls(queuedTx, {"notQueuedOrActive"}, fails),
             poll.receipt = NoReceipt,
             queuedTx' = poll.tx /\ UNCHANGED <<status, startPeriod, id>>
      PROVE  PendingDoes(fails)
  <2>1. Waiting(queuedTx, queuedTx', {"notQueuedOrActive"}, fails)
    BY <1>1, <1>2, <1>5, RecordedEffect
  <2>2. QED BY <1>2, <1>5, <2>1 DEF PendingDoes
<1>6. ASSUME queuedTx.id # NoId, UNCHANGED txs,
             NEW poll \in Polls(queuedTx, {"notQueuedOrActive"}, fails),
             poll.receipt # NoReceipt,
             handleQueueReceipt(poll.receipt, fails),
             queuedTx' = IF status' = Queued THEN [poll.tx EXCEPT !.receipt = poll.receipt]
                                             ELSE poll.tx
      PROVE  PendingDoes(fails)
  <2>1. Finding(queuedTx, Recorded(poll), {"notQueuedOrActive"}, fails)
        /\ Recorded(poll) = [poll.tx EXCEPT !.receipt = poll.receipt]
    BY <1>1, <1>2, <1>6, RecordedEffect DEF Recorded
  <2>2. poll.tx = queuedTx /\ poll.receipt = txs[queuedTx.id].receipt
    BY <1>1, <1>2, <1>6, PollEffect
  <2>3. Recorded(poll).receipt = poll.receipt
    BY <2>1, <2>2 DEF Finding
  <2>4. CASE poll.receipt.result # "ok" /\ status' = Withdrawn /\ UNCHANGED <<startPeriod, id>>
    <3>1. poll.receipt.result = "notQueuedOrActive" /\ ~fails
      BY <2>1, <2>3, <2>4 DEF Finding
    <3>2. queuedTx' = queuedTx
      BY <1>6, <2>2, <2>4 DEF Withdrawn, Queued
    <3>3. QED BY <1>2, <1>6, <2>2, <2>4, <3>1, <3>2 DEF PendingDoes
  <2>5. CASE /\ poll.receipt.result = "ok" /\ ~fails
             /\ startPeriod' = staked[queuedTx.id].start
             /\ id' = queuedTx.id
             /\ status' = Queued
    <3>1. queuedTx' = Recorded(poll)
      BY <1>6, <2>1, <2>5
    <3>2. QED BY <1>2, <1>6, <2>1, <2>3, <2>5, <3>1 DEF PendingDoes
  <2>6. CASE fails /\ UNCHANGED <<status, startPeriod, id>>
    <3>1. status # Queued
      BY <1>2, RecordTypes DEF FieldsInv, Queued, ExitSignalled
    <3>2. queuedTx' = queuedTx
      BY <1>6, <2>2, <2>6, <3>1
    <3>3. QED BY <1>2, <1>6, <2>6, <3>2 DEF PendingDoes
  <2>7. QED BY <1>6, <2>4, <2>5, <2>6 DEF handleQueueReceipt
<1>7. \/ /\ isValidationUnavailable
         /\ status' = Withdrawn
         /\ UNCHANGED <<queuedTx, startPeriod, id, txs>>
      \/ queueDelegation(fails)
  BY DEF processPendingState
<1>8. ASSUME NEW poll \in Polls(queuedTx, {"notQueuedOrActive"}, fails),
             queuedTx.id # NoId, UNCHANGED txs,
             IF poll.receipt = NoReceipt
               THEN queuedTx' = poll.tx /\ UNCHANGED <<status, startPeriod, id>>
               ELSE /\ handleQueueReceipt(poll.receipt, fails)
                    /\ queuedTx' = IF status' = Queued
                                     THEN [poll.tx EXCEPT !.receipt = poll.receipt]
                                     ELSE poll.tx
      PROVE  PendingDoes(fails)
  BY <1>5, <1>6, <1>8
<1>9. QED BY <1>3, <1>4, <1>7, <1>8 DEF queueDelegation

\* processQueuedState.
QueuedDoes ==
  /\ status >= Queued /\ activatedBlock = 0
  /\ status' = Active /\ activatedBlock' = uint32(startPeriod * PeriodLength)
  /\ UNCHANGED <<startPeriod, id, queuedTx, exitTx, withdrawTx, txs>>

LEMMA QueuedEffect == processQueuedState => QueuedDoes
BY DEF processQueuedState, checkForActivation, QueuedDoes

\* processActiveState.
ActiveDoes(block, fails) ==
  /\ status # ExitSignalled /\ exitTx.receipt = NoReceipt /\ view # NoView
  /\ shouldSignalExit(block)
  /\ UNCHANGED <<activatedBlock, startPeriod, id, queuedTx, withdrawTx>>
  /\ \/ Sending(exitTx, exitTx', "exit", fails) /\ UNCHANGED status
     \/ Waiting(exitTx, exitTx', {"ended", "notStarted"}, fails) /\ UNCHANGED status
     \/ Finding(exitTx, exitTx', {"ended", "notStarted"}, fails) /\ status' = ExitSignalled

LEMMA ActiveEffect ==
  ASSUME TypeOK, NEW block, NEW fails \in BOOLEAN, processActiveState(block, fails)
  PROVE  ActiveDoes(block, fails)
<1>1. txs \in [TxIds -> Txs] /\ exitTx \in SentTxs
  BY TypeParts
<1>2. /\ status # ExitSignalled /\ exitTx.receipt = NoReceipt /\ view # NoView
      /\ shouldSignalExit(block) /\ signalExit(fails)
      /\ UNCHANGED <<activatedBlock, startPeriod, id, queuedTx, withdrawTx>>
  BY DEF processActiveState
<1>3. CASE exitTx.id = NoId /\ SendsAs(exitTx, exitTx', "exit", fails) /\ UNCHANGED status
  <2>1. "exit" \in Kinds
    BY DEF Kinds
  <2>2. Sending(exitTx, exitTx', "exit", fails)
    BY <1>1, <1>3, <2>1, SendEffect
  <2>3. QED BY <1>2, <1>3, <2>2 DEF ActiveDoes
<1>4. ASSUME exitTx.id # NoId, UNCHANGED txs,
             NEW poll \in Polls(exitTx, {"ended", "notStarted"}, fails),
             exitTx' = Recorded(poll),
             status' = IF poll.receipt = NoReceipt THEN status ELSE ExitSignalled
      PROVE  ActiveDoes(block, fails)
  <2>1. /\ poll.receipt = NoReceipt => Waiting(exitTx, exitTx', {"ended", "notStarted"}, fails)
        /\ poll.receipt # NoReceipt => Finding(exitTx, exitTx', {"ended", "notStarted"}, fails)
    BY <1>1, <1>2, <1>4, RecordedEffect
  <2>2. QED BY <1>2, <1>4, <2>1 DEF ActiveDoes
<1>5. QED BY <1>2, <1>3, <1>4 DEF signalExit

\* processExitedState.
ExitedDoes(fails) ==
  /\ withdrawTx.receipt = NoReceipt /\ exitTx.receipt # NoReceipt /\ status = ExitSignalled
  /\ UNCHANGED <<activatedBlock, startPeriod, id, queuedTx, exitTx>>
  /\ \/ Sending(withdrawTx, withdrawTx', "withdraw", fails) /\ UNCHANGED status
     \/ Waiting(withdrawTx, withdrawTx', {}, fails) /\ UNCHANGED status
     \/ Finding(withdrawTx, withdrawTx', {}, fails) /\ status' = Withdrawn

LEMMA ExitedEffect ==
  ASSUME TypeOK, NEW block, NEW fails \in BOOLEAN, processExitedState(block, fails)
  PROVE  ExitedDoes(fails)
<1>1. txs \in [TxIds -> Txs] /\ withdrawTx \in SentTxs
  BY TypeParts
<1>2. /\ withdrawTx.receipt = NoReceipt /\ exitTx.receipt # NoReceipt /\ status = ExitSignalled
      /\ withdrawDelegation(fails)
      /\ UNCHANGED <<activatedBlock, startPeriod, id, queuedTx, exitTx>>
  BY DEF processExitedState, canWithdraw
<1>3. CASE withdrawTx.id = NoId /\ SendsAs(withdrawTx, withdrawTx', "withdraw", fails)
           /\ UNCHANGED status
  <2>1. "withdraw" \in Kinds
    BY DEF Kinds
  <2>2. Sending(withdrawTx, withdrawTx', "withdraw", fails)
    BY <1>1, <1>3, <2>1, SendEffect
  <2>3. QED BY <1>2, <1>3, <2>2 DEF ExitedDoes
<1>4. ASSUME withdrawTx.id # NoId, UNCHANGED txs,
             NEW poll \in Polls(withdrawTx, {}, fails),
             withdrawTx' = Recorded(poll),
             status' = IF poll.receipt = NoReceipt THEN status ELSE Withdrawn
      PROVE  ExitedDoes(fails)
  <2>1. /\ poll.receipt = NoReceipt => Waiting(withdrawTx, withdrawTx', {}, fails)
        /\ poll.receipt # NoReceipt => Finding(withdrawTx, withdrawTx', {}, fails)
    BY <1>1, <1>2, <1>4, RecordedEffect
  <2>2. QED BY <1>2, <1>4, <2>1 DEF ExitedDoes
<1>5. QED BY <1>2, <1>3, <1>4 DEF withdrawDelegation

\* A job runs the handler it chose and then cleans up.
Moves(s) ==
  /\ jobs[s].pc = "locked"
  /\ jobs' = [jobs EXCEPT ![s] = jobs'[s]]
  /\ jobs'[s] \in JobRecords /\ jobs'[s].pc = "cleanup"
  /\ jobs'[s].branch = jobs[s].branch /\ jobs'[s].block = jobs[s].block
  /\ UNCHANGED <<slotHeld, chain, view>>

JobDoes(s) ==
  /\ Moves(s)
  /\ \/ UNCHANGED <<own, txs, failures>>
     \/ \E fails \in BOOLEAN :
          /\ IF fails THEN Failure ELSE failures' = failures
          /\ \/ jobs[s].branch = Pending /\ PendingDoes(fails)
             \/ jobs[s].branch = Queued /\ QueuedDoes
             \/ jobs[s].branch = Active /\ ActiveDoes(jobs[s].block, fails)
             \/ jobs[s].branch = ExitSignalled /\ ExitedDoes(fails)

LEMMA HandleEffect ==
  ASSUME TypeOK, FieldsInv, NEW s \in Slots, Handle(s)
  PROVE  JobDoes(s)
<1> DEFINE new == [jobs[s] EXCEPT !.pc = "cleanup"]
<1>1. jobs[s] \in JobRecords /\ jobs \in [Slots -> JobRecords]
  BY TypeParts
<1>2. /\ new \in JobRecords /\ new.pc = "cleanup"
      /\ new.branch = jobs[s].branch /\ new.block = jobs[s].block
  BY <1>1 DEF JobRecords
<1>3. jobs' = [jobs EXCEPT ![s] = new]
  BY <1>1 DEF Handle
<1> HIDE DEF new
<1>4. jobs'[s] = new
  BY <1>1, <1>3
<1>5. jobs[s].pc = "locked" /\ UNCHANGED <<slotHeld, chain, view>>
  BY DEF Handle
<1> Moves(s)
  BY <1>2, <1>3, <1>4, <1>5 DEF Moves
<1>6. CASE UNCHANGED <<own, txs, failures>>
  BY <1>6 DEF JobDoes
<1>7. ASSUME NEW fails \in BOOLEAN,
             Handler(jobs[s].block, jobs[s].branch, fails),
             IF fails THEN Failure ELSE UNCHANGED failures
      PROVE  JobDoes(s)
  <2>1. \/ jobs[s].branch = Pending /\ PendingDoes(fails)
        \/ jobs[s].branch = Queued /\ QueuedDoes
        \/ jobs[s].branch = Active /\ ActiveDoes(jobs[s].block, fails)
        \/ jobs[s].branch = ExitSignalled /\ ExitedDoes(fails)
    BY <1>7, PendingEffect, QueuedEffect, ActiveEffect, ExitedEffect DEF Handler
  <2>2. QED BY <1>7, <2>1 DEF JobDoes
<1>8. QED BY <1>6, <1>7 DEF Handle

-----------------------------------------------------------------------------
(* Types, and what fields and records say of one another. *)

LEMMA InitInv == Init => IInv
<1> SUFFICES ASSUME Init PROVE IInv
  OBVIOUS
<1> USE DEF Init
<1>1. TypeOK
  <2>1. /\ txs \in [TxIds -> Txs] /\ jobs \in [Slots -> JobRecords]
        /\ {queuedTx, exitTx, withdrawTx} \subseteq SentTxs
    BY RecordTypes
  <2>2. staked \in [TxIds -> [start : Nat, last : Nat, out : BOOLEAN]]
    OBVIOUS
  <2>3. validator \in Validations /\ view \in Validations
    BY Numbers DEF Validations
  <2>4. height \in 0..MaxHeight /\ failures \in 0..MaxFailures
    BY Numbers
  <2>5. /\ status \in Pending..Withdrawn /\ id \in TxIds \cup {NoId}
        /\ activatedBlock \in Nat /\ startPeriod \in Nat
    BY DEF Pending, Withdrawn
  <2>6. slotHeld \in BOOLEAN /\ ticked \in BOOLEAN
    BY Zenon
  <2> HIDE DEF Init
  <2>7. QED
    BY <2>1, <2>2, <2>3, <2>4, <2>5, <2>6 DEF TypeOK, Txs, JobRecords
<1>2. PeriodsInv /\ ViewInv
  BY Numbers, RecordTypes DEF PeriodsInv, ViewInv
<1>3. StakedInv
  BY RecordTypes, Numbers DEF StakedInv
<1>4. FieldsInv /\ WithdrawInv
  BY RecordTypes DEF FieldsInv, WithdrawInv, Refers, Pending, Queued, ExitSignalled
<1>5. QED BY <1>1, <1>2, <1>3, <1>4 DEF IInv

\* Nothing refers to the id that a transaction is sent under.
SendsAt(t, tx, newTx, kind, fails) ==
  /\ t \notin {queuedTx.id, exitTx.id, withdrawTx.id, id}
  /\ staked[t].start = 0 /\ ~InMempool(t)
  /\ \A u \in TxIds : u # t => txs'[u] = txs[u]
  /\ txs'[t].kind = kind /\ txs'[t].receipt = NoReceipt /\ txs'[t].age = 0
  /\ \/ fails /\ newTx = tx
     \/ /\ ~fails
        /\ newTx.id = t /\ newTx.receipt = tx.receipt /\ newTx.pollAttempts = tx.pollAttempts

LEMMA SendKeeps ==
  ASSUME TypeOK, FieldsInv, StakedInv,
         NEW tx \in SentTxs, NEW newTx, NEW kind \in Kinds, NEW fails \in BOOLEAN,
         Sending(tx, newTx, kind, fails)
  PROVE  /\ txs' \in [TxIds -> Txs] /\ newTx \in SentTxs
         /\ tx.id = NoId
         /\ \/ fails /\ newTx = tx /\ txs' = txs
            \/ \E t \in TxIds : SendsAt(t, tx, newTx, kind, fails)
<1>1. txs \in [TxIds -> Txs]
  BY TypeParts
<1>2. CASE fails /\ newTx = tx /\ txs' = txs
  BY <1>1, <1>2 DEF Sending
<1>3. ASSUME NEW t \in TxIds, Unused(t),
             txs' = [txs EXCEPT ![t] = txs'[t]],
             txs'[t] \in Txs /\ txs'[t].kind = kind /\ txs'[t].receipt = NoReceipt,
             txs'[t].age = 0,
             \/ fails /\ newTx = tx
             \/ /\ ~fails
                /\ newTx \in SentTxs /\ newTx.id = t /\ newTx.receipt = tx.receipt
                /\ newTx.pollAttempts = tx.pollAttempts
      PROVE  /\ txs' \in [TxIds -> Txs] /\ newTx \in SentTxs
             /\ SendsAt(t, tx, newTx, kind, fails)
  <2>1. txs' \in [TxIds -> Txs] /\ newTx \in SentTxs
    BY <1>1, <1>3
  <2>2. /\ t \notin {queuedTx.id, exitTx.id, withdrawTx.id, id}
        /\ staked[t].start = 0 /\ ~InMempool(t)
    <3>1. CASE txs[t].kind = "free"
      <4>1. t # NoId
        BY Numbers
      <4>2. t \notin {queuedTx.id, exitTx.id, withdrawTx.id, id}
        BY <3>1, <4>1 DEF FieldsInv, Refers
      <4>3. staked[t].start = 0 /\ ~InMempool(t)
        BY <3>1 DEF StakedInv, InMempool, Unmined
      <4>4. QED BY <4>2, <4>3
    <3>2. CASE Forgotten(t)
      BY <3>2 DEF Forgotten
    <3>3. QED BY <1>3, <3>1, <3>2 DEF Unused
  <2>3. \A u \in TxIds : u # t => txs'[u] = txs[u]
    BY <1>1, <1>3
  <2>4. QED BY <1>3, <2>1, <2>2, <2>3 DEF SendsAt
<1>4. QED BY <1>2, <1>3 DEF Sending

LEMMA MovesTypes ==
  ASSUME TypeOK, NEW s \in Slots, Moves(s)
  PROVE  /\ jobs' \in [Slots -> JobRecords]
         /\ jobs[s].pc = "locked" /\ jobs'[s].pc = "cleanup"
         /\ \A u \in Slots : jobs'[u].branch = jobs[u].branch /\ jobs'[u].block = jobs[u].block
         /\ \A u \in Slots : u # s => jobs'[u] = jobs[u]
         /\ UNCHANGED <<slotHeld, height, ticked, validator, staked, view>>
BY TypeParts DEF Moves, chain

\* A step of a job that leaves the chain alone keeps what is said of it.
LEMMA OwnStep ==
  ASSUME TypeOK, UNCHANGED <<slotHeld, height, ticked, validator, staked, view>>,
         jobs' \in [Slots -> JobRecords], txs' \in [TxIds -> Txs],
         {queuedTx', exitTx', withdrawTx'} \subseteq SentTxs,
         status' \in Pending..Withdrawn, activatedBlock' \in Nat, startPeriod' \in Nat,
         id' \in TxIds \cup {NoId}, failures' \in 0..MaxFailures
  PROVE  TypeOK'
BY DEF TypeOK, JobRecords, Txs

LEMMA FailuresType ==
  ASSUME TypeOK, NEW fails \in BOOLEAN, IF fails THEN Failure ELSE failures' = failures
  PROVE  failures' \in 0..MaxFailures
<1>1. failures \in 0..MaxFailures /\ MaxFailures \in Nat
  BY Numbers DEF TypeOK
<1>2. CASE fails
  BY <1>1, <1>2 DEF Failure
<1>3. CASE ~fails
  BY <1>1, <1>3
<1>4. QED BY <1>2, <1>3

\* The first steps of a job and its last: they touch only the jobs.
JobsMove ==
  /\ jobs' \in [Slots -> JobRecords] /\ slotHeld' \in BOOLEAN /\ ticked' \in BOOLEAN
  /\ \A u \in Slots :
       /\ jobs'[u].branch \in {Pending, status, jobs[u].branch}
       /\ jobs'[u].block \in {0, height, jobs[u].block}
       /\ jobs'[u].pc = "locked" => jobs'[u] = jobs[u] \/ jobs'[u].branch = status
  /\ ~slotHeld' => ~slotHeld \/ status >= ExitSignalled
  /\ UNCHANGED <<own, height, validator, staked, view, txs, failures>>

LEMMA JobsMoveEffect ==
  ASSUME TypeOK, NEW s \in Slots, Submit(s) \/ ReadStatus(s) \/ Cleanup(s)
  PROVE  JobsMove
<1>1. /\ jobs \in [Slots -> JobRecords] /\ height \in 0..MaxHeight
      /\ status \in Pending..Withdrawn
  BY TypeParts DEF TypeOK
<1>2. slotHeld \in BOOLEAN /\ ticked \in BOOLEAN
  BY DEF TypeOK
<1>3. ASSUME NEW new \in JobRecords, jobs' = [jobs EXCEPT ![s] = new],
             new.branch \in {Pending, status}, new.block \in {0, height, jobs[s].block},
             new.pc = "locked" => new.branch = status,
             slotHeld' \in BOOLEAN, ticked' \in BOOLEAN,
             ~slotHeld' => ~slotHeld \/ status >= ExitSignalled,
             UNCHANGED <<own, height, validator, staked, view, txs, failures>>
      PROVE  JobsMove
  <2>1. jobs' \in [Slots -> JobRecords]
    BY <1>1, <1>3
  <2>2. \A u \in Slots : jobs'[u] = IF u = s THEN new ELSE jobs[u]
    BY <1>1, <1>3
  <2>3. \A u \in Slots :
          /\ jobs'[u].branch \in {Pending, status, jobs[u].branch}
          /\ jobs'[u].block \in {0, height, jobs[u].block}
          /\ jobs'[u].pc = "locked" => jobs'[u] = jobs[u] \/ jobs'[u].branch = status
    BY <1>3, <2>2
  <2>4. QED BY <1>3, <2>1, <2>3 DEF JobsMove
<1>4. CASE Submit(s)
  <2> DEFINE new == [pc |-> "queued", block |-> height, branch |-> Pending]
  <2>1. new \in JobRecords /\ new.branch = Pending /\ new.block = height /\ new.pc = "queued"
    BY <1>1 DEF JobRecords, Pending, Withdrawn
  <2>2. jobs' = [jobs EXCEPT ![s] = new]
    BY <1>4 DEF Submit
  <2> HIDE DEF new
  <2>3. /\ ticked' = TRUE /\ slotHeld' = slotHeld
        /\ UNCHANGED <<own, height, validator, staked, view, txs, failures>>
    BY <1>4 DEF Submit
  <2>4. ticked' \in BOOLEAN /\ slotHeld' \in BOOLEAN
    BY <1>2, <2>3
  <2>5. QED BY <1>3, <2>1, <2>2, <2>3, <2>4
<1>5. CASE ReadStatus(s)
  <2> DEFINE new == [jobs[s] EXCEPT !.pc = "locked", !.branch = status]
  <2>1. new \in JobRecords /\ new.branch = status /\ new.block = jobs[s].block
    BY <1>1 DEF JobRecords
  <2>2. jobs' = [jobs EXCEPT ![s] = new]
    BY <1>1, <1>5 DEF ReadStatus
  <2> HIDE DEF new
  <2>3. UNCHANGED <<own, slotHeld, ticked, height, validator, staked, view, txs, failures>>
    BY <1>5 DEF ReadStatus, chain
  <2>4. ticked' \in BOOLEAN /\ slotHeld' \in BOOLEAN
    BY <1>2, <2>3
  <2>5. QED BY <1>3, <2>1, <2>2, <2>3, <2>4
<1>6. CASE Cleanup(s)
  <2>1. /\ jobs' = [jobs EXCEPT ![s] = Idle]
        /\ UNCHANGED <<own, ticked, height, validator, staked, view, txs, failures>>
    BY <1>6 DEF Cleanup, chain
  <2>2. slotHeld' \in BOOLEAN
    BY <1>6 DEF Cleanup
  <2>3. ~slotHeld' => ~slotHeld \/ status \in {ExitSignalled, Withdrawn}
    BY <1>2, <1>6 DEF Cleanup
  <2>4. ~slotHeld' => ~slotHeld \/ status >= ExitSignalled
    BY <2>3 DEF ExitSignalled, Withdrawn
  <2>5. ticked' \in BOOLEAN
    BY <1>2, <2>1
  <2>6. QED BY <1>3, <2>1, <2>2, <2>4, <2>5, RecordTypes
<1>7. QED BY <1>4, <1>5, <1>6

LEMMA JobsMoveKeeps ==
  ASSUME IInv, JobsMove
  PROVE  IInv'
<1> USE DEF IInv
<1>1. UNCHANGED <<own, height, validator, staked, view, txs, failures>>
  BY DEF JobsMove
<1>2. TypeOK'
  BY <1>1 DEF TypeOK, JobsMove, JobRecords, own
<1>3. PeriodsInv' /\ ViewInv' /\ StakedInv' /\ WithdrawInv'
  BY <1>1 DEF PeriodsInv, ViewInv, StakedInv, WithdrawInv, own
<1>4. \A u \in Slots : jobs'[u].branch \in Queued..ExitSignalled => id' # NoId
  BY <1>1 DEF JobsMove, FieldsInv, own, Pending, Queued, ExitSignalled
<1>5. FieldsInv'
  BY <1>1, <1>4 DEF FieldsInv, Refers, own
<1>6. QED BY <1>2, <1>3, <1>5

\* What a handler needs to show, when it sends nothing.
LEMMA SameTxsKeeps ==
  ASSUME IInv, NEW s \in Slots, Moves(s), txs' = txs, failures' \in 0..MaxFailures,
         {queuedTx', exitTx', withdrawTx'} \subseteq SentTxs,
         status' \in Pending..Withdrawn, activatedBlock' \in Nat, startPeriod' \in Nat,
         id' \in TxIds \cup {NoId}, id # NoId => id' = id
  PROVE  TypeOK' /\ PeriodsInv' /\ ViewInv' /\ StakedInv' /\ WithdrawInv'
<1> USE DEF IInv
<1>1. /\ jobs' \in [Slots -> JobRecords] /\ txs' \in [TxIds -> Txs]
      /\ UNCHANGED <<slotHeld, height, ticked, validator, staked, view>>
  BY MovesTypes, TypeParts
<1>2. TypeOK'
  BY <1>1, OwnStep
<1>3. PeriodsInv' /\ ViewInv' /\ StakedInv'
  BY <1>1 DEF PeriodsInv, ViewInv, StakedInv
<1>4. WithdrawInv'
  BY <1>1 DEF WithdrawInv, FieldsInv
<1>5. QED BY <1>2, <1>3, <1>4

\* What a handler needs to show, when it sends transaction t.
LEMMA SentTxKeeps ==
  ASSUME IInv, NEW s \in Slots, Moves(s), NEW t \in TxIds, NEW tx, NEW newTx,
         NEW kind \in Kinds, NEW fails \in BOOLEAN, SendsAt(t, tx, newTx, kind, fails),
         txs' \in [TxIds -> Txs], failures' \in 0..MaxFailures,
         {queuedTx', exitTx', withdrawTx'} \subseteq SentTxs,
         UNCHANGED <<status, activatedBlock, startPeriod, id>>,
         kind # "add" => id # NoId
  PROVE  /\ TypeOK' /\ PeriodsInv' /\ ViewInv' /\ StakedInv' /\ WithdrawInv'
         /\ \A u \in TxIds : txs'[u].kind \in {"exit", "withdraw"} => id' # NoId
         /\ \A u \in TxIds : txs'[u].receipt # NoReceipt => txs'[u].receipt.result # "none"
         /\ Refers(queuedTx, "add") /\ queuedTx' = queuedTx => Refers(queuedTx, "add")'
         /\ Refers(exitTx, "exit") /\ exitTx' = exitTx => Refers(exitTx, "exit")'
         /\ Refers(withdrawTx, "withdraw") /\ withdrawTx' = withdrawTx =>
              Refers(withdrawTx, "withdraw")'
<1> USE DEF IInv
<1>1. /\ jobs' \in [Slots -> JobRecords]
      /\ UNCHANGED <<slotHeld, height, ticked, validator, staked, view>>
  BY MovesTypes
<1>2. TypeOK'
  <2>1. /\ status' \in Pending..Withdrawn /\ activatedBlock' \in Nat /\ startPeriod' \in Nat
        /\ id' \in TxIds \cup {NoId}
    BY DEF TypeOK
  <2>2. QED BY <1>1, <2>1, OwnStep
<1>3. PeriodsInv' /\ ViewInv'
  BY <1>1 DEF PeriodsInv, ViewInv
<1>4. /\ t \notin {queuedTx.id, exitTx.id, withdrawTx.id, id} /\ staked[t].start = 0
      /\ \A u \in TxIds : u # t => txs'[u] = txs[u]
      /\ txs'[t].kind = kind /\ txs'[t].receipt = NoReceipt
  BY DEF SendsAt
<1>5. NoReceipt.result = "none"
  BY RecordTypes
<1>6. StakedInv'
  BY <1>1, <1>4, <1>5 DEF StakedInv
<1>7. WithdrawInv'
  BY <1>1, <1>4, <1>5 DEF WithdrawInv
<1>8. /\ \A u \in TxIds : txs'[u].kind \in {"exit", "withdraw"} => id' # NoId
      /\ \A u \in TxIds : txs'[u].receipt # NoReceipt => txs'[u].receipt.result # "none"
  BY <1>4, <1>5 DEF FieldsInv, Kinds
<1>9. /\ queuedTx.id \in TxIds \cup {NoId} /\ exitTx.id \in TxIds \cup {NoId}
      /\ withdrawTx.id \in TxIds \cup {NoId}
  BY TypeParts DEF SentTxs
<1>10. /\ Refers(queuedTx, "add") /\ queuedTx' = queuedTx => Refers(queuedTx, "add")'
       /\ Refers(exitTx, "exit") /\ exitTx' = exitTx => Refers(exitTx, "exit")'
       /\ Refers(withdrawTx, "withdraw") /\ withdrawTx' = withdrawTx =>
            Refers(withdrawTx, "withdraw")'
  BY <1>4, <1>9 DEF Refers
<1>11. QED BY <1>2, <1>3, <1>6, <1>7, <1>8, <1>10

\* What the field holds after its transaction is sent under t refers to it.
LEMMA SentRefers ==
  ASSUME NEW t \in TxIds, NEW tx, NEW newTx, NEW kind \in Kinds, NEW fails \in BOOLEAN,
         SendsAt(t, tx, newTx, kind, fails), tx.id = NoId, tx.receipt = NoReceipt
  PROVE  newTx.receipt = NoReceipt /\ (newTx.id # NoId => txs'[newTx.id].kind = kind)
BY Numbers DEF SendsAt

\* The conditions on the jobs' branches and on the statuses.
LEMMA BranchesKeep ==
  ASSUME FieldsInv, NEW s \in Slots, TypeOK, Moves(s), id' # NoId \/ id' = id
  PROVE  \A u \in Slots : jobs'[u].branch \in Queued..ExitSignalled => id' # NoId
BY MovesTypes DEF FieldsInv

LEMMA PendingKeeps ==
  ASSUME IInv, NEW s \in Slots, Moves(s), NEW fails \in BOOLEAN,
         failures' \in 0..MaxFailures, PendingDoes(fails)
  PROVE  IInv'
<1> USE DEF IInv
<1>1. /\ queuedTx \in SentTxs /\ exitTx \in SentTxs /\ withdrawTx \in SentTxs
      /\ queuedTx.receipt = NoReceipt /\ id = NoId
      /\ status \in Pending..Withdrawn /\ activatedBlock \in Nat /\ startPeriod \in Nat
      /\ queuedTx.id \in TxIds \cup {NoId}
  BY TypeParts DEF PendingDoes, FieldsInv, TypeOK, SentTxs
<1>2. UNCHANGED <<activatedBlock, exitTx, withdrawTx, staked>>
  BY MovesTypes DEF PendingDoes
<1>3. \A t \in TxIds : txs[t].kind \notin {"exit", "withdraw"}
  BY <1>1 DEF FieldsInv
<1>4. CASE status' \in {status, Withdrawn} /\ UNCHANGED <<queuedTx, startPeriod, id, txs>>
  <2>1. TypeOK' /\ PeriodsInv' /\ ViewInv' /\ StakedInv' /\ WithdrawInv'
    <3>1. status' \in Pending..Withdrawn
      BY <1>1, <1>4 DEF Pending, Withdrawn
    <3>2. QED BY <1>1, <1>2, <1>4, <3>1, SameTxsKeeps
  <2>2. FieldsInv'
    <3>1. status' \in Queued..ExitSignalled => id' # NoId
      BY <1>1, <1>4 DEF FieldsInv, Withdrawn, Queued, ExitSignalled
    <3>2. \A u \in Slots : jobs'[u].branch \in Queued..ExitSignalled => id' # NoId
      BY <1>4, BranchesKeep
    <3>3. QED BY <1>1, <1>2, <1>4, <3>1, <3>2 DEF FieldsInv, Refers
  <2>3. QED BY <2>1, <2>2
<1>5. CASE Sending(queuedTx, queuedTx', "add", fails) /\ UNCHANGED <<status, startPeriod, id>>
  <2>1. "add" \in Kinds
    BY DEF Kinds
  <2>2. /\ txs' \in [TxIds -> Txs] /\ queuedTx' \in SentTxs
        /\ queuedTx.id = NoId
        /\ \/ fails /\ queuedTx' = queuedTx /\ txs' = txs
           \/ \E t \in TxIds : SendsAt(t, queuedTx, queuedTx', "add", fails)
    BY <1>1, <1>5, <2>1, SendKeeps
  <2>3. ASSUME NEW t \in TxIds, SendsAt(t, queuedTx, queuedTx', "add", fails)
        PROVE  IInv'
    <3>1. /\ TypeOK' /\ PeriodsInv' /\ ViewInv' /\ StakedInv' /\ WithdrawInv'
          /\ \A u \in TxIds : txs'[u].kind \in {"exit", "withdraw"} => id' # NoId
          /\ \A u \in TxIds : txs'[u].receipt # NoReceipt => txs'[u].receipt.result # "none"
          /\ Refers(exitTx, "exit") /\ exitTx' = exitTx => Refers(exitTx, "exit")'
          /\ Refers(withdrawTx, "withdraw") /\ withdrawTx' = withdrawTx =>
               Refers(withdrawTx, "withdraw")'
      BY <1>1, <1>2, <1>5, <2>1, <2>2, <2>3, SentTxKeeps
    <3>2. Refers(exitTx, "exit")' /\ Refers(withdrawTx, "withdraw")'
      BY <1>2, <3>1 DEF FieldsInv
    <3>3. queuedTx'.receipt = NoReceipt /\ Refers(queuedTx, "add")'
      BY <1>1, <2>1, <2>2, <2>3, SentRefers DEF Refers
    <3>4. \A u \in Slots : jobs'[u].branch \in Queued..ExitSignalled => id' # NoId
      BY <1>5, BranchesKeep
    <3>5. FieldsInv'
      BY <1>1, <1>2, <1>5, <3>1, <3>2, <3>3, <3>4 DEF FieldsInv
    <3>6. QED BY <3>1, <3>5
  <2>4. QED BY <1>4, <1>5, <2>2, <2>3
<1>6. CASE Waiting(queuedTx, queuedTx', {"notQueuedOrActive"}, fails)
           /\ UNCHANGED <<status, startPeriod, id>>
  <2>1. /\ txs' = txs /\ queuedTx' \in SentTxs /\ queuedTx'.receipt = NoReceipt
        /\ queuedTx'.id \in {NoId, queuedTx.id}
    BY <1>6 DEF Waiting
  <2>2. TypeOK' /\ PeriodsInv' /\ ViewInv' /\ StakedInv' /\ WithdrawInv'
    BY <1>1, <1>2, <1>6, <2>1, SameTxsKeeps
  <2>3. FieldsInv'
    <3>1. \A u \in Slots : jobs'[u].branch \in Queued..ExitSignalled => id' # NoId
      BY <1>6, BranchesKeep
    <3>2. QED BY <1>1, <1>2, <1>6, <2>1, <3>1 DEF FieldsInv, Refers
  <2>4. QED BY <2>2, <2>3
<1>7. CASE /\ Finding(queuedTx, queuedTx', {"notQueuedOrActive"}, fails)
           /\ queuedTx'.receipt.result = "ok"
           /\ status' = Queued /\ id' = queuedTx.id /\ startPeriod' = staked[queuedTx.id].start
  <2>1. /\ txs' = txs /\ queuedTx' \in SentTxs /\ queuedTx.id # NoId
        /\ queuedTx'.id = queuedTx.id /\ queuedTx'.receipt = txs[queuedTx.id].receipt
        /\ queuedTx'.receipt # NoReceipt
    BY <1>7 DEF Finding
  <2>2. /\ queuedTx.id \in TxIds /\ startPeriod' \in Nat /\ status' \in Pending..Withdrawn
        /\ txs[queuedTx.id].kind = "add" /\ staked[queuedTx.id].start # 0
    BY <1>1, <1>7, <2>1, TypeParts
       DEF Stakes, FieldsInv, Refers, StakedInv, Pending, Queued, Withdrawn
  <2>3. TypeOK' /\ PeriodsInv' /\ ViewInv' /\ StakedInv' /\ WithdrawInv'
    BY <1>1, <1>2, <1>7, <2>1, <2>2, SameTxsKeeps
  <2>4. id' # NoId /\ id' = queuedTx'.id /\ startPeriod' = staked'[id'].start
        /\ staked'[id'].start # 0
    BY <1>2, <1>7, <2>1, <2>2
  <2>5. Refers(queuedTx, "add")' /\ Refers(exitTx, "exit")' /\ Refers(withdrawTx, "withdraw")'
    BY <1>2, <2>1, <2>2 DEF FieldsInv, Refers
  <2>6. FieldsInv'
    BY <1>2, <1>7, <2>1, <2>4, <2>5 DEF FieldsInv
  <2>7. QED BY <2>3, <2>6
<1>8. QED BY <1>4, <1>5, <1>6, <1>7 DEF PendingDoes

LEMMA QueuedKeeps ==
  ASSUME IInv, NEW s \in Slots, Moves(s), failures' \in 0..MaxFailures, QueuedDoes,
         jobs[s].branch = Queued
  PROVE  IInv'
<1> USE DEF IInv
<1>1. /\ queuedTx \in SentTxs /\ exitTx \in SentTxs /\ withdrawTx \in SentTxs
      /\ id \in TxIds \cup {NoId} /\ startPeriod \in Nat /\ id # NoId
  BY TypeParts DEF TypeOK, FieldsInv, Queued, ExitSignalled
<1>2. status' \in Pending..Withdrawn /\ activatedBlock' \in Nat
  <2>1. startPeriod * PeriodLength \in Nat
    BY <1>1, TimesNat, Numbers
  <2>2. uint32(startPeriod * PeriodLength) \in Nat
    BY <2>1, Uint32Type
  <2>3. QED BY <2>2 DEF QueuedDoes, Pending, Active, Withdrawn
<1>3. TypeOK' /\ PeriodsInv' /\ ViewInv' /\ StakedInv' /\ WithdrawInv'
  BY <1>1, <1>2, SameTxsKeeps DEF QueuedDoes
<1>4. FieldsInv'
  <2>1. UNCHANGED <<startPeriod, id, queuedTx, exitTx, withdrawTx, txs, staked>>
    BY MovesTypes DEF QueuedDoes
  <2>2. QED BY <1>1, <2>1 DEF FieldsInv, Refers
<1>5. QED BY <1>3, <1>4

LEMMA ActiveKeeps ==
  ASSUME IInv, NEW s \in Slots, Moves(s), NEW fails \in BOOLEAN,
         failures' \in 0..MaxFailures, ActiveDoes(jobs[s].block, fails),
         jobs[s].branch = Active
  PROVE  IInv'
<1> USE DEF IInv
<1>1. /\ queuedTx \in SentTxs /\ exitTx \in SentTxs /\ withdrawTx \in SentTxs
      /\ exitTx.receipt = NoReceipt
      /\ status \in Pending..Withdrawn /\ activatedBlock \in Nat /\ startPeriod \in Nat
      /\ id \in TxIds \cup {NoId} /\ exitTx.id \in TxIds \cup {NoId}
  BY TypeParts DEF ActiveDoes, TypeOK, SentTxs
<1>2. UNCHANGED <<activatedBlock, startPeriod, id, queuedTx, withdrawTx, staked>>
  BY MovesTypes DEF ActiveDoes
<1>3. id # NoId
  BY DEF FieldsInv, Queued, Active, ExitSignalled
<1>4. CASE Sending(exitTx, exitTx', "exit", fails) /\ UNCHANGED status
  <2>1. "exit" \in Kinds
    BY DEF Kinds
  <2>2. /\ txs' \in [TxIds -> Txs] /\ exitTx' \in SentTxs
        /\ exitTx.id = NoId
        /\ \/ fails /\ exitTx' = exitTx /\ txs' = txs
           \/ \E t \in TxIds : SendsAt(t, exitTx, exitTx', "exit", fails)
    BY <1>1, <1>4, <2>1, SendKeeps
  <2>3. ASSUME NEW t \in TxIds, SendsAt(t, exitTx, exitTx', "exit", fails)
        PROVE  IInv'
    <3>1. /\ TypeOK' /\ PeriodsInv' /\ ViewInv' /\ StakedInv' /\ WithdrawInv'
          /\ \A u \in TxIds : txs'[u].receipt # NoReceipt => txs'[u].receipt.result # "none"
          /\ Refers(queuedTx, "add") /\ queuedTx' = queuedTx => Refers(queuedTx, "add")'
          /\ Refers(withdrawTx, "withdraw") /\ withdrawTx' = withdrawTx =>
               Refers(withdrawTx, "withdraw")'
      BY <1>1, <1>2, <1>3, <1>4, <2>1, <2>2, <2>3, SentTxKeeps
    <3>2. Refers(queuedTx, "add")' /\ Refers(withdrawTx, "withdraw")'
      BY <1>2, <3>1 DEF FieldsInv
    <3>3. Refers(exitTx, "exit")'
      BY <1>1, <2>1, <2>2, <2>3, SentRefers DEF Refers
    <3>4. FieldsInv'
      BY <1>1, <1>2, <1>3, <3>1, <3>2, <3>3 DEF FieldsInv
    <3>5. QED BY <3>1, <3>4
  <2>4. CASE exitTx' = exitTx /\ txs' = txs
    <3>1. TypeOK' /\ PeriodsInv' /\ ViewInv' /\ StakedInv' /\ WithdrawInv'
      BY <1>1, <1>2, <1>4, <2>4, SameTxsKeeps
    <3>2. FieldsInv'
      BY <1>2, <1>3, <2>4 DEF FieldsInv, Refers
    <3>3. QED BY <3>1, <3>2
  <2>5. QED BY <2>2, <2>3, <2>4
<1>5. ASSUME txs' = txs, exitTx' \in SentTxs, exitTx'.id \in {NoId, exitTx.id},
             \/ exitTx'.receipt = NoReceipt
             \/ exitTx.id # NoId /\ exitTx'.id = exitTx.id
                /\ exitTx'.receipt = txs[exitTx.id].receipt,
             status' \in {status, ExitSignalled}
      PROVE  IInv'
  <2>1. status' \in Pending..Withdrawn
    BY <1>1, <1>5 DEF Pending, ExitSignalled, Withdrawn
  <2>2. TypeOK' /\ PeriodsInv' /\ ViewInv' /\ StakedInv' /\ WithdrawInv'
    BY <1>1, <1>2, <1>5, <2>1, SameTxsKeeps
  <2>3. Refers(queuedTx, "add")' /\ Refers(withdrawTx, "withdraw")' /\ Refers(exitTx, "exit")'
    BY <1>2, <1>5 DEF FieldsInv, Refers
  <2>4. FieldsInv'
    BY <1>2, <1>3, <1>5, <2>3 DEF FieldsInv
  <2>5. QED BY <2>2, <2>4
<1>6. CASE Waiting(exitTx, exitTx', {"ended", "notStarted"}, fails) /\ UNCHANGED status
  BY <1>5, <1>6 DEF Waiting
<1>7. CASE Finding(exitTx, exitTx', {"ended", "notStarted"}, fails) /\ status' = ExitSignalled
  BY <1>5, <1>7 DEF Finding
<1>8. QED BY <1>4, <1>6, <1>7 DEF ActiveDoes

LEMMA ExitedKeeps ==
  ASSUME IInv, NEW s \in Slots, Moves(s), NEW fails \in BOOLEAN,
         failures' \in 0..MaxFailures, ExitedDoes(fails)
  PROVE  IInv'
<1> USE DEF IInv
<1>1. /\ queuedTx \in SentTxs /\ exitTx \in SentTxs /\ withdrawTx \in SentTxs
      /\ withdrawTx.receipt = NoReceipt /\ status = ExitSignalled
      /\ status \in Pending..Withdrawn /\ activatedBlock \in Nat /\ startPeriod \in Nat
      /\ id \in TxIds \cup {NoId} /\ withdrawTx.id \in TxIds \cup {NoId}
  BY TypeParts DEF ExitedDoes, TypeOK, SentTxs
<1>2. UNCHANGED <<activatedBlock, startPeriod, id, queuedTx, exitTx, staked>>
  BY MovesTypes DEF ExitedDoes
<1>3. id # NoId
  BY <1>1 DEF FieldsInv, Queued, ExitSignalled
<1>4. CASE Sending(withdrawTx, withdrawTx', "withdraw", fails) /\ UNCHANGED status
  <2>1. "withdraw" \in Kinds
    BY DEF Kinds
  <2>2. /\ txs' \in [TxIds -> Txs] /\ withdrawTx' \in SentTxs
        /\ withdrawTx.id = NoId
        /\ \/ fails /\ withdrawTx' = withdrawTx /\ txs' = txs
           \/ \E t \in TxIds : SendsAt(t, withdrawTx, withdrawTx', "withdraw", fails)
    BY <1>1, <1>4, <2>1, SendKeeps
  <2>3. ASSUME NEW t \in TxIds, SendsAt(t, withdrawTx, withdrawTx', "withdraw", fails)
        PROVE  IInv'
    <3>1. /\ TypeOK' /\ PeriodsInv' /\ ViewInv' /\ StakedInv' /\ WithdrawInv'
          /\ \A u \in TxIds : txs'[u].receipt # NoReceipt => txs'[u].receipt.result # "none"
          /\ Refers(queuedTx, "add") /\ queuedTx' = queuedTx => Refers(queuedTx, "add")'
          /\ Refers(exitTx, "exit") /\ exitTx' = exitTx => Refers(exitTx, "exit")'
      BY <1>1, <1>2, <1>3, <1>4, <2>1, <2>2, <2>3, SentTxKeeps
    <3>2. Refers(queuedTx, "add")' /\ Refers(exitTx, "exit")'
      BY <1>2, <3>1 DEF FieldsInv
    <3>3. withdrawTx'.receipt = NoReceipt /\ Refers(withdrawTx, "withdraw")'
      BY <1>1, <2>1, <2>2, <2>3, SentRefers DEF Refers
    <3>4. FieldsInv'
      BY <1>1, <1>2, <1>3, <3>1, <3>2, <3>3 DEF FieldsInv
    <3>5. QED BY <3>1, <3>4
  <2>4. CASE withdrawTx' = withdrawTx /\ txs' = txs
    <3>1. TypeOK' /\ PeriodsInv' /\ ViewInv' /\ StakedInv' /\ WithdrawInv'
      BY <1>1, <1>2, <1>4, <2>4, SameTxsKeeps
    <3>2. FieldsInv'
      BY <1>2, <1>3, <2>4 DEF FieldsInv, Refers
    <3>3. QED BY <3>1, <3>2
  <2>5. QED BY <2>2, <2>3, <2>4
<1>5. ASSUME txs' = txs, withdrawTx' \in SentTxs, withdrawTx'.id \in {NoId, withdrawTx.id},
             \/ withdrawTx'.receipt = NoReceipt
             \/ /\ withdrawTx.id # NoId /\ withdrawTx'.id = withdrawTx.id
                /\ withdrawTx'.receipt = txs[withdrawTx.id].receipt
                /\ withdrawTx'.receipt.result = "ok",
             status' \in {status, Withdrawn}
      PROVE  IInv'
  <2>1. status' \in Pending..Withdrawn
    BY <1>1, <1>5 DEF Pending, Withdrawn
  <2>2. TypeOK' /\ PeriodsInv' /\ ViewInv' /\ StakedInv' /\ WithdrawInv'
    BY <1>1, <1>2, <1>5, <2>1, SameTxsKeeps
  <2>3. Refers(queuedTx, "add")' /\ Refers(withdrawTx, "withdraw")' /\ Refers(exitTx, "exit")'
    BY <1>2, <1>5 DEF FieldsInv, Refers
  <2>4. FieldsInv'
    BY <1>2, <1>3, <1>5, <2>3 DEF FieldsInv
  <2>5. QED BY <2>2, <2>4
<1>6. CASE Waiting(withdrawTx, withdrawTx', {}, fails) /\ UNCHANGED status
  BY <1>5, <1>6 DEF Waiting
<1>7. CASE Finding(withdrawTx, withdrawTx', {}, fails) /\ status' = Withdrawn
  BY <1>5, <1>7 DEF Finding
<1>8. QED BY <1>4, <1>6, <1>7 DEF ExitedDoes

LEMMA HandleKeeps ==
  ASSUME IInv, NEW s \in Slots, Handle(s)
  PROVE  IInv'
<1>1. TypeOK /\ FieldsInv
  BY DEF IInv
<1>2. JobDoes(s) /\ Moves(s)
  BY <1>1, HandleEffect DEF JobDoes
<1>3. CASE UNCHANGED <<own, txs, failures>>
  <2>1. TypeOK' /\ PeriodsInv' /\ ViewInv' /\ StakedInv' /\ WithdrawInv'
    <3>1. /\ {queuedTx', exitTx', withdrawTx'} \subseteq SentTxs /\ txs' = txs
          /\ status' \in Pending..Withdrawn /\ activatedBlock' \in Nat /\ startPeriod' \in Nat
          /\ id' \in TxIds \cup {NoId} /\ id' = id /\ failures' \in 0..MaxFailures
      BY <1>1, <1>3 DEF TypeOK, own
    <3>2. QED BY <1>2, <3>1, SameTxsKeeps
  <2>2. FieldsInv'
    <3>1. UNCHANGED <<status, startPeriod, id, queuedTx, exitTx, withdrawTx, txs, staked>>
      BY <1>1, <1>2, <1>3, MovesTypes DEF own
    <3>2. \A u \in Slots : jobs'[u].branch \in Queued..ExitSignalled => id' # NoId
      BY <1>1, <1>2, <3>1, BranchesKeep
    <3>3. QED BY <1>1, <3>1, <3>2 DEF FieldsInv, Refers
  <2>3. QED BY <2>1, <2>2 DEF IInv
<1>4. ASSUME NEW fails \in BOOLEAN,
             IF fails THEN Failure ELSE failures' = failures,
             \/ jobs[s].branch = Pending /\ PendingDoes(fails)
             \/ jobs[s].branch = Queued /\ QueuedDoes
             \/ jobs[s].branch = Active /\ ActiveDoes(jobs[s].block, fails)
             \/ jobs[s].branch = ExitSignalled /\ ExitedDoes(fails)
      PROVE  IInv'
  <2>1. failures' \in 0..MaxFailures
    BY <1>1, <1>4, FailuresType
  <2>2. QED BY <1>2, <1>4, <2>1, PendingKeeps, QueuedKeeps, ActiveKeeps, ExitedKeeps
<1>5. QED BY <1>2, <1>3, <1>4 DEF JobDoes

\* A block, whatever is in it.
LEMMA NewBlockKeeps ==
  ASSUME IInv, NewBlock, txs' \in [TxIds -> Txs], staked' \in [TxIds -> Stakes]
  PROVE  TypeOK' /\ PeriodsInv' /\ ViewInv'
<1> USE DEF IInv
<1>1. /\ validator' = ValidatorAfterBlock /\ height' = Least(height + 1) /\ ticked' = FALSE
      /\ UNCHANGED <<own, slotHeld, jobs, view, failures>>
  BY DEF NewBlock
<1>2. /\ height' \in 0..MaxHeight /\ validator' \in Validations /\ PeriodsInv'
  BY <1>1, ValidatorEffect DEF PeriodsInv
<1>3. TypeOK'
  <2>1. ticked' \in BOOLEAN
    BY <1>1
  <2>2. QED BY <1>1, <1>2, <2>1 DEF TypeOK, own, Txs, Stakes
<1>4. ViewInv'
  <2>1. /\ validator'.exiting = validator.exiting
        /\ validator.status = "exit" => validator' = validator
        /\ validator'.status = "exit" => validator.status = "exit" \/ validator.exiting
    BY <1>1, ValidatorEffect
  <2>2. view' = view
    BY <1>1
  <2>3. QED BY <2>1, <2>2 DEF ViewInv
<1>5. QED BY <1>2, <1>3, <1>4

LEMMA EmptyBlockKeeps ==
  ASSUME IInv, EmptyBlock
  PROVE  IInv'
<1> USE DEF IInv
<1>1. NewBlock /\ txs' = Aged /\ staked' = staked
  BY DEF EmptyBlock
<1>2. /\ txs' \in [TxIds -> Txs] /\ staked' \in [TxIds -> Stakes]
      /\ \A t \in TxIds : txs'[t].kind = txs[t].kind /\ txs'[t].receipt = txs[t].receipt
  BY <1>1, TypeParts, AgedEffect
<1>3. TypeOK' /\ PeriodsInv' /\ ViewInv'
  BY <1>1, <1>2, NewBlockKeeps
<1>4. UNCHANGED <<own, jobs, staked>>
  BY <1>1 DEF NewBlock
<1>5. StakedInv' /\ WithdrawInv'
  BY <1>2, <1>4 DEF StakedInv, WithdrawInv, own
<1>6. queuedTx.id \in TxIds \cup {NoId} /\ exitTx.id \in TxIds \cup {NoId}
      /\ withdrawTx.id \in TxIds \cup {NoId}
  BY TypeParts DEF SentTxs
<1>7. Refers(queuedTx, "add")' /\ Refers(withdrawTx, "withdraw")' /\ Refers(exitTx, "exit")'
  BY <1>2, <1>4, <1>6 DEF FieldsInv, Refers, own
<1>8. FieldsInv'
  BY <1>2, <1>4, <1>7 DEF FieldsInv, own
<1>9. QED BY <1>3, <1>5, <1>8

LEMMA BlockWithKeeps ==
  ASSUME IInv, NEW t \in TxIds, BlockWith(t)
  PROVE  IInv'
<1> USE DEF IInv
<1>1. id \in TxIds \cup {NoId}
  BY DEF TypeOK
<1>2. txs[t].kind \in {"exit", "withdraw"} => id \in TxIds
  BY <1>1 DEF FieldsInv
<1>3. /\ InMempool(t)
      /\ txs' \in [TxIds -> Txs] /\ staked' \in [TxIds -> Stakes]
      /\ \A u \in TxIds : /\ txs'[u].kind = txs[u].kind
                          /\ u # t => txs'[u].receipt = txs[u].receipt
      /\ txs'[t].receipt.result \in {"ok", "notQueuedOrActive", "notStarted", "ended", "other"}
      /\ txs'[t].receipt # NoReceipt
      /\ AddMined(t) \/ ExitMined(t) \/ WithdrawMined(t)
  BY <1>2, BlockWithEffect
<1>4. NewBlock
  BY DEF BlockWith
<1>5. TypeOK' /\ PeriodsInv' /\ ViewInv'
  BY <1>3, <1>4, NewBlockKeeps
<1>6. UNCHANGED <<own, jobs>>
  BY <1>4 DEF NewBlock
<1>7. txs[t].receipt = NoReceipt /\ NoReceipt.result = "none"
  BY <1>3, RecordTypes DEF InMempool, Unmined
<1>8. /\ queuedTx.id \in TxIds \cup {NoId} /\ exitTx.id \in TxIds \cup {NoId}
      /\ withdrawTx.id \in TxIds \cup {NoId} /\ staked \in [TxIds -> Stakes]
  BY TypeParts DEF SentTxs
<1>9. /\ queuedTx.receipt # NoReceipt => queuedTx.id # t
      /\ exitTx.receipt # NoReceipt => exitTx.id # t
      /\ withdrawTx.receipt # NoReceipt => withdrawTx.id # t
      /\ id # NoId => id = queuedTx.id /\ id # t
  BY <1>7 DEF FieldsInv, Refers
<1>10. staked[t].start = 0
  BY <1>7 DEF StakedInv
<1>11. Refers(queuedTx, "add")' /\ Refers(withdrawTx, "withdraw")' /\ Refers(exitTx, "exit")'
  BY <1>3, <1>6, <1>8, <1>9 DEF FieldsInv, Refers, own
<1>12. /\ \A u \in TxIds : txs'[u].kind \in {"exit", "withdraw"} => id' # NoId
       /\ \A u \in TxIds : txs'[u].receipt # NoReceipt => txs'[u].receipt.result # "none"
  BY <1>3, <1>6 DEF FieldsInv, own
<1>13. ASSUME id # NoId => staked'[id].start = staked[id].start
       PROVE  FieldsInv'
  <2>1. id' # NoId => staked'[id'].start # 0 /\ startPeriod' = staked'[id'].start
    BY <1>6, <1>13 DEF FieldsInv, own
  <2>2. QED BY <1>6, <1>11, <1>12, <2>1 DEF FieldsInv, own
<1>14. CASE AddMined(t)
  <2>1. \A u \in TxIds : u # t => staked'[u] = staked[u]
    BY <1>8, <1>14 DEF AddMined
  <2>2. id # NoId => staked'[id] = staked[id]
    BY <1>1, <1>9, <2>1
  <2>3. FieldsInv'
    BY <1>13, <2>2
  <2>4. /\ staked'[t].start # 0 <=> txs'[t].receipt.result = "ok"
        /\ staked'[t].start * PeriodLength <= MaxHeight + 2 * PeriodLength
    <3>1. CASE staked' = staked /\ txs'[t].receipt.result # "ok"
      BY <1>10, <3>1, Numbers
    <3>2. CASE /\ txs'[t].receipt.result = "ok" /\ validator'.status = "active"
               /\ staked'[t].start = CurrentPeriod(validator') + 1
      <4> DEFINE done == validator'.completed
                 begin == staked'[t].start
      <4>1. /\ done \in Nat /\ PeriodLength \in Nat \ {0} /\ MaxHeight \in Nat
            /\ done * PeriodLength <= height' /\ height' <= MaxHeight /\ height' \in Nat
        BY <1>5, Numbers DEF PeriodsInv, TypeOK, Validations
      <4>2. begin = done + 2
        BY <3>2, <4>1 DEF CurrentPeriod
      <4> HIDE DEF done, begin
      <4>3. begin * PeriodLength = done * PeriodLength + 2 * PeriodLength
            /\ done * PeriodLength \in Nat
        BY <4>1, <4>2, TimesNat
      <4>4. begin # 0 /\ begin * PeriodLength <= MaxHeight + 2 * PeriodLength
        BY <4>1, <4>2, <4>3
      <4>5. QED BY <3>2, <4>4 DEF begin
    <3>3. QED BY <1>14, <3>1, <3>2 DEF AddMined
  <2>5. StakedInv'
    BY <1>3, <1>14, <2>1, <2>4 DEF StakedInv, AddMined
  <2>6. WithdrawInv'
    <3>1. SUFFICES ASSUME NEW u \in TxIds, txs'[u].kind = "withdraw",
                          txs'[u].receipt.result = "ok"
                   PROVE  staked'[id'].out
      BY DEF WithdrawInv
    <3>2. u # t /\ txs[u].kind = "withdraw" /\ txs[u].receipt.result = "ok"
      BY <1>3, <1>14, <3>1 DEF AddMined
    <3>3. staked[id].out /\ id # NoId
      BY <3>2 DEF WithdrawInv, FieldsInv
    <3>4. QED BY <1>6, <2>2, <3>3 DEF own
  <2>7. QED BY <1>5, <2>3, <2>5, <2>6
<1>15. CASE ExitMined(t) \/ WithdrawMined(t)
  <2>1. id \in TxIds /\ txs[t].kind # "add" /\ id # NoId
    BY <1>2, <1>15, Numbers DEF ExitMined, WithdrawMined
  <2>2. /\ \A u \in TxIds : u # id => staked'[u] = staked[u]
        /\ staked'[id].start = staked[id].start
        /\ staked[id].out => staked'[id].out
    BY <1>8, <1>15, <2>1 DEF ExitMined, WithdrawMined
  <2>3. FieldsInv'
    BY <1>13, <2>2
  <2>4. StakedInv'
    <3>1. \A u \in TxIds : staked'[u].start = staked[u].start
      BY <2>2
    <3>2. QED BY <1>3, <1>10, <2>1, <3>1 DEF StakedInv
  <2>5. WithdrawInv'
    <3>1. SUFFICES ASSUME NEW u \in TxIds, txs'[u].kind = "withdraw",
                          txs'[u].receipt.result = "ok"
                   PROVE  staked'[id'].out
      BY DEF WithdrawInv
    <3>2. CASE u = t
      BY <1>3, <1>6, <1>15, <3>1, <3>2 DEF ExitMined, WithdrawMined, own
    <3>3. CASE u # t
      <4>1. staked[id].out
        BY <1>3, <3>1, <3>3 DEF WithdrawInv
      <4>2. QED BY <1>6, <2>2, <4>1 DEF own
    <3>4. QED BY <3>2, <3>3
  <2>6. QED BY <1>5, <2>3, <2>4, <2>5
<1>16. QED BY <1>3, <1>14, <1>15

LEMMA SignalsExitKeeps ==
  ASSUME IInv, ValidatorSignalsExit
  PROVE  IInv'
<1> USE DEF IInv
<1> DEFINE v == [validator EXCEPT !.exiting = TRUE]
<1>1. validator \in Validations
  BY TypeParts
<1>2. v \in Validations /\ v.status = validator.status /\ v.completed = validator.completed
      /\ v.exiting = TRUE
  BY <1>1 DEF Validations
<1>3. validator' = v /\ validator.status = "active"
      /\ UNCHANGED <<own, slotHeld, jobs, view, txs, height, ticked, staked, failures>>
  BY DEF ValidatorSignalsExit
<1> HIDE DEF v
<1>4. TypeOK'
  BY <1>2, <1>3 DEF TypeOK, own
<1>5. PeriodsInv' /\ ViewInv'
  BY <1>2, <1>3 DEF PeriodsInv, ViewInv
<1>6. StakedInv' /\ WithdrawInv'
  BY <1>3 DEF StakedInv, WithdrawInv, own
<1>7. FieldsInv'
  BY <1>3 DEF FieldsInv, Refers, own
<1>8. QED BY <1>4, <1>5, <1>6, <1>7

LEMMA PollViewKeeps ==
  ASSUME IInv, PollView
  PROVE  IInv'
<1> USE DEF IInv
<1>1. /\ view' = validator \/ (validator.status = "exit" /\ view' = NoView)
      /\ UNCHANGED <<own, slotHeld, jobs, height, ticked, validator, staked, txs>>
  BY DEF PollView, chain
<1>2. failures' \in 0..MaxFailures
  <2>1. failures \in 0..MaxFailures /\ MaxFailures \in Nat
    BY Numbers DEF TypeOK
  <2>2. failures' = failures \/ Failure
    BY DEF PollView
  <2>3. QED BY <2>1, <2>2 DEF Failure
<1>3. TypeOK'
  BY <1>1, <1>2 DEF TypeOK, own
<1>4. PeriodsInv'
  BY <1>1 DEF PeriodsInv
<1>5. ViewInv'
  <2>1. NoView.status = "none" /\ NoView.exiting = FALSE
    BY RecordTypes
  <2>2. validator.status \in {"active", "exit"}
    BY TypeParts
  <2>3. validator # NoView
    BY <2>1, <2>2
  <2>4. QED BY <1>1, <2>1, <2>2, <2>3 DEF ViewInv
<1>6. StakedInv' /\ WithdrawInv'
  BY <1>1 DEF StakedInv, WithdrawInv, own
<1>7. FieldsInv'
  BY <1>1 DEF FieldsInv, Refers, own
<1>8. QED BY <1>3, <1>4, <1>5, <1>6, <1>7

LEMMA NextKeeps ==
  ASSUME IInv, [Next]_vars
  PROVE  IInv'
<1>1. TypeOK
  BY DEF IInv
<1>2. ASSUME NEW s \in Slots, Job(s)
      PROVE  IInv'
  BY <1>1, <1>2, JobsMoveEffect, JobsMoveKeeps, HandleKeeps DEF Job
<1>3. CASE Environment
  BY <1>3, EmptyBlockKeeps, BlockWithKeeps, SignalsExitKeeps, PollViewKeeps DEF Environment
<1>4. CASE UNCHANGED vars
  BY <1>4 DEF IInv, TypeOK, PeriodsInv, ViewInv, StakedInv, FieldsInv, Refers, WithdrawInv,
              vars, own, chain
<1>5. QED BY <1>2, <1>3, <1>4 DEF Next

LEMMA IInvHolds == Spec => []IInv
BY InitInv, NextKeeps, PTL DEF Spec

-----------------------------------------------------------------------------
(* The theorems that hold of any number of jobs. *)

\* Every field has its type: a transaction is given up before it is polled more than
\* Expiration + 2 times (handleReceiptError).
THEOREM DelegatorTypeCorrect == Spec => []TypeOK
<1>1. IInv => TypeOK
  BY DEF IInv
<1>2. QED BY <1>1, IInvHolds, PTL

\* The lifecycle records a withdrawal (withdrawDelegation) only when the stake has
\* left the contract.
THEOREM WithdrawalsAreReal == Spec => []WithdrawnOnChain
<1>1. ASSUME IInv
      PROVE  WithdrawnOnChain
  <2>1. SUFFICES ASSUME withdrawTx.receipt # NoReceipt
                 PROVE  staked[id].out
    BY DEF WithdrawnOnChain
  <2>2. /\ withdrawTx.id # NoId /\ withdrawTx.id \in TxIds \cup {NoId}
        /\ txs[withdrawTx.id].kind = "withdraw"
        /\ txs[withdrawTx.id].receipt.result = "ok"
    BY <1>1, <2>1, TypeParts DEF IInv, FieldsInv, Refers, SentTxs
  <2>3. QED BY <1>1, <2>2 DEF IInv, WithdrawInv
<1>2. QED BY <1>1, IInvHolds, PTL

\* What a step may do to the three transactions.
LEMMA FieldsStep ==
  ASSUME IInv, [Next]_vars
  PROVE  /\ queuedTx' = queuedTx \/ queuedTx.receipt = NoReceipt
         /\ exitTx' = exitTx \/ exitTx.receipt = NoReceipt
         /\ withdrawTx' = withdrawTx \/ withdrawTx.receipt = NoReceipt
<1>1. TypeOK /\ FieldsInv
  BY DEF IInv
<1>2. ASSUME NEW s \in Slots, Handle(s)
      PROVE  /\ queuedTx' = queuedTx \/ queuedTx.receipt = NoReceipt
             /\ exitTx' = exitTx \/ exitTx.receipt = NoReceipt
             /\ withdrawTx' = withdrawTx \/ withdrawTx.receipt = NoReceipt
  <2>1. JobDoes(s)
    BY <1>1, <1>2, HandleEffect
  <2>2. CASE UNCHANGED <<own, txs, failures>>
    BY <2>2 DEF own
  <2>3. ASSUME NEW fails \in BOOLEAN,
               \/ PendingDoes(fails)
               \/ QueuedDoes
               \/ ActiveDoes(jobs[s].block, fails)
               \/ ExitedDoes(fails)
        PROVE  /\ queuedTx' = queuedTx \/ queuedTx.receipt = NoReceipt
               /\ exitTx' = exitTx \/ exitTx.receipt = NoReceipt
               /\ withdrawTx' = withdrawTx \/ withdrawTx.receipt = NoReceipt
    BY <2>3 DEF PendingDoes, QueuedDoes, ActiveDoes, ExitedDoes
  <2>4. QED BY <2>1, <2>2, <2>3 DEF JobDoes
<1>3. ASSUME NEW s \in Slots, Submit(s) \/ ReadStatus(s) \/ Cleanup(s)
      PROVE  UNCHANGED own
  BY <1>3 DEF Submit, ReadStatus, Cleanup
<1>4. Environment => UNCHANGED own
  BY DEF Environment, EmptyBlock, BlockWith, NewBlock, ValidatorSignalsExit, PollView
<1>5. UNCHANGED vars => UNCHANGED own
  BY DEF vars
<1>6. QED BY <1>2, <1>3, <1>4, <1>5 DEF Next, Job, own

\* A receipt the lifecycle acted on stays (Process, reset): no late job and no failing
\* request makes it forget the transaction and send it once more.
THEOREM ReceiptsAreKept == Spec => ReceiptsStay
<1> DEFINE Kept == \A r \in {<<queuedTx.receipt, queuedTx'.receipt>>,
                             <<exitTx.receipt, exitTx'.receipt>>,
                             <<withdrawTx.receipt, withdrawTx'.receipt>>} :
                     r[1] # NoReceipt => r[2] = r[1]
<1>1. IInv /\ [Next]_vars => [Kept]_vars
  BY FieldsStep
<1>2. QED BY <1>1, IInvHolds, PTL DEF Spec, ReceiptsStay

-----------------------------------------------------------------------------
(* The lifecycle goes on, if blocks fit in 32 bits. *)

\* Whoever is told to exit has reached the block it was activated at.
LEMMA ExitDue ==
  ASSUME BlocksFit, NEW a \in Nat, a <= MaxHeight + 2 * PeriodLength,
         NEW block \in Nat, block <= MaxHeight,
         block >= MinExitBlock(StakingPeriods, a, PeriodLength)
  PROVE  a <= block
<1> DEFINE stay == StakingPeriods * PeriodLength
           never == StakingPeriods = MaxUint32
           many == MaxUint32 \div PeriodLength <= StakingPeriods
<1>1. /\ StakingPeriods \in Nat /\ PeriodLength \in Nat \ {0} /\ MaxHeight \in Nat
      /\ MaxUint32 \in Nat
  BY Numbers
<1>2. stay \in Nat
  BY <1>1, TimesNat
<1> HIDE DEF stay, many
<1>3. CASE never \/ many
  <2>1. block >= MaxUint32
    BY <1>3 DEF MinExitBlock, many
  <2>2. StaysFor \in Nat
    BY <1>2 DEF StaysFor, stay
  <2>3. QED BY <1>1, <2>1, <2>2 DEF BlocksFit
<1>4. CASE ~never /\ ~many
  <2>1. block >= uint32(a + stay)
    BY <1>4 DEF MinExitBlock, many, stay
  <2>2. StaysFor = stay
    BY <1>4 DEF StaysFor, stay
  <2>3. a + stay \in Nat /\ a + stay <= MaxUint32
    BY <1>1, <1>2, <2>2 DEF BlocksFit
  <2>4. uint32(a + stay) = a + stay
    BY <2>3, Uint32Fits
  <2>5. QED BY <1>2, <2>1, <2>4
<1>5. QED BY <1>3, <1>4

\* The block of activation is the first of the period the delegation starts with.
LEMMA ActivationFits ==
  ASSUME IInv, BlocksFit, id # NoId
  PROVE  /\ startPeriod \in Nat \ {0}
         /\ startPeriod * PeriodLength \in Nat \ {0}
         /\ startPeriod * PeriodLength <= MaxHeight + 2 * PeriodLength
         /\ uint32(startPeriod * PeriodLength) = startPeriod * PeriodLength
<1> DEFINE start == startPeriod * PeriodLength
<1>1. id \in TxIds /\ startPeriod = staked[id].start /\ staked[id].start # 0
      /\ startPeriod \in Nat
  BY DEF IInv, TypeOK, FieldsInv
<1>2. start <= MaxHeight + 2 * PeriodLength
  BY <1>1 DEF IInv, StakedInv
<1>3. PeriodLength \in Nat \ {0} /\ MaxHeight \in Nat /\ StakingPeriods \in Nat
      /\ MaxUint32 \in Nat
  BY Numbers
<1>4. start \in Nat \ {0}
  BY <1>1, <1>3, TimesPositive
<1>5. StaysFor \in Nat
  BY <1>3, TimesNat DEF StaysFor
<1> HIDE DEF start
<1>6. start <= MaxUint32
  BY <1>2, <1>3, <1>4, <1>5 DEF BlocksFit
<1>7. uint32(start) = start
  BY <1>4, <1>6, Uint32Fits
<1>8. QED BY <1>1, <1>2, <1>4, <1>7 DEF start

LEMMA InitForward == Init => ForwardInv
<1> SUFFICES ASSUME Init PROVE ForwardInv
  OBVIOUS
<1>1. StatusInv
  BY Numbers, RecordTypes
     DEF Init, StatusInv, Pending, Queued, Active, ExitSignalled
<1>2. LateInv
  BY DEF Init, LateInv, Pending, Withdrawn
<1>3. ExitInv
  BY RecordTypes DEF Init, ExitInv
<1>4. QED BY <1>1, <1>2, <1>3 DEF ForwardInv

\* Fields that have a receipt have an id before them.
LEMMA ExitNeedsId ==
  ASSUME IInv
  PROVE  /\ exitTx.receipt # NoReceipt => id # NoId
         /\ withdrawTx.receipt # NoReceipt => id # NoId
         /\ status \in Pending..Withdrawn /\ status \in Int
<1>1. exitTx.id \in TxIds \cup {NoId} /\ withdrawTx.id \in TxIds \cup {NoId}
  BY TypeParts DEF IInv, SentTxs
<1>2. status \in Pending..Withdrawn
  BY DEF IInv, TypeOK
<1>3. QED BY <1>1, <1>2 DEF IInv, FieldsInv, Refers, Pending, Withdrawn

\* How many jobs are late.
LEMMA LateShrinks ==
  ASSUME Late' \subseteq Late
  PROVE  /\ LateBut(1) => LateBut(1)'
         /\ LateBut(2) => LateBut(2)'
         /\ LateBut(3) => LateBut(3)'
<1> SUFFICES ASSUME FewJobs
             PROVE  /\ LateBut(1) => LateBut(1)'
                    /\ LateBut(2) => LateBut(2)'
                    /\ LateBut(3) => LateBut(3)'
  BY DEF LateBut
<1>1. IsFiniteSet(Slots) /\ Late \subseteq Slots
  BY DEF FewJobs, Late
<1>2. IsFiniteSet(Late)
  BY <1>1, FS_Subset
<1>3. Cardinality(Late') <= Cardinality(Late) /\ Cardinality(Late) \in Nat
      /\ Cardinality(Late') \in Nat /\ Cardinality(Slots) \in Nat
  BY <1>1, <1>2, FS_Subset, FS_CardinalityType
<1>4. QED BY <1>3 DEF LateBut

LEMMA LateLess ==
  ASSUME NEW s \in Late, Late' \subseteq Late \ {s}
  PROVE  /\ FewJobs => LateBut(1)'
         /\ LateBut(1) => LateBut(2)'
         /\ LateBut(2) => LateBut(3)'
         /\ ~LateBut(3)
<1> SUFFICES ASSUME FewJobs
             PROVE  /\ LateBut(1)'
                    /\ LateBut(1) => LateBut(2)'
                    /\ LateBut(2) => LateBut(3)'
                    /\ ~LateBut(3)
  BY DEF LateBut
<1>1. IsFiniteSet(Slots) /\ Late \subseteq Slots /\ Cardinality(Slots) <= 3
  BY DEF FewJobs, Late
<1>2. IsFiniteSet(Late) /\ Cardinality(Late) <= Cardinality(Slots)
  BY <1>1, FS_Subset
<1>3. IsFiniteSet(Late \ {s}) /\ Cardinality(Late \ {s}) = Cardinality(Late) - 1
  BY <1>2, FS_RemoveElement
<1>4. Cardinality(Late') <= Cardinality(Late \ {s}) /\ IsFiniteSet(Late')
  BY <1>3, FS_Subset
<1>5. /\ Cardinality(Late) \in Nat /\ Cardinality(Late') \in Nat
      /\ Cardinality(Late \ {s}) \in Nat /\ Cardinality(Slots) \in Nat
  BY <1>1, <1>2, <1>3, <1>4, FS_CardinalityType
<1>6. Cardinality(Late') <= Cardinality(Late) - 1 /\ Cardinality(Late) >= 1
  BY <1>3, <1>4, <1>5
<1>7. QED BY <1>1, <1>2, <1>5, <1>6 DEF LateBut

\* What is said of the statuses stays while the lifecycle does nothing.
LEMMA StatusKept ==
  ASSUME IInv, StatusInv, UNCHANGED own, height' \in Nat, height <= height',
         \A u \in Slots : /\ jobs'[u].branch \in {Pending, status, jobs[u].branch}
                          /\ jobs'[u].block \in {0, height, jobs[u].block}
  PROVE  StatusInv'
<1>1. height \in Nat /\ jobs \in [Slots -> JobRecords]
  BY TypeParts DEF IInv
<1>2. \A u \in Slots : jobs[u].block \in Nat
  BY <1>1 DEF JobRecords
<1>3. \A u \in Slots : jobs'[u].block <= height'
  BY <1>1, <1>2 DEF StatusInv
<1>4. status \in Active..ExitSignalled => activatedBlock # 0
  BY DEF StatusInv, IInv, FieldsInv, Queued, Active, ExitSignalled
<1>5. \A u \in Slots : jobs'[u].branch \in Active..ExitSignalled => activatedBlock # 0
  BY <1>4 DEF StatusInv, Pending, Active, ExitSignalled
<1>6. QED BY <1>3, <1>5 DEF StatusInv, own

LEMMA LateKept ==
  ASSUME LateInv, UNCHANGED own, Gone => Gone', Refused => Refused',
         status = Withdrawn => Late' \subseteq Late
  PROVE  LateInv'
<1> SUFFICES ASSUME status = Withdrawn, id = NoId
             PROVE  LateInv'
  BY DEF LateInv, own
<1>1. /\ LateBut(1) => LateBut(1)'
      /\ LateBut(2) => LateBut(2)'
      /\ LateBut(3) => LateBut(3)'
  BY LateShrinks
<1>2. \/ Gone
      \/ Refused /\ (MaxFailures = 0 \/ LateBut(1))
      \/ queuedTx.id = NoId /\ LateBut(2)
      \/ LateBut(3)
  BY DEF LateInv
<1>3. queuedTx' = queuedTx
  BY DEF own
<1>4. QED BY <1>1, <1>2, <1>3 DEF LateInv

\* A late job does not begin a lifecycle that has ended.
LEMMA PendingLate ==
  ASSUME IInv, LateInv, FewJobs \/ MaxFailures = 0,
         NEW s \in Slots, Moves(s), jobs[s].branch = Pending,
         NEW fails \in BOOLEAN, IF fails THEN Failure ELSE failures' = failures,
         PendingDoes(fails)
  PROVE  LateInv' /\ status' >= status
<1>1. /\ queuedTx.receipt = NoReceipt /\ view # NoView /\ id = NoId
      /\ queuedTx.id \in TxIds \cup {NoId}
      /\ status \in Pending..Withdrawn /\ failures \in 0..MaxFailures
  BY TypeParts DEF IInv, TypeOK, FieldsInv, PendingDoes, SentTxs
<1>2. status \in {Pending, Withdrawn}
  BY <1>1 DEF IInv, FieldsInv, Pending, Queued, ExitSignalled, Withdrawn
<1>3. s \in Late /\ Late' \subseteq Late \ {s} /\ view' = view
  <2>1. /\ jobs[s].pc = "locked" /\ jobs'[s].pc = "cleanup"
        /\ \A u \in Slots : u # s => jobs'[u] = jobs[u]
        /\ view' = view
    BY MovesTypes DEF IInv
  <2>2. QED BY <2>1 DEF Late
<1>4. /\ FewJobs => LateBut(1)'
      /\ LateBut(1) => LateBut(2)'
      /\ LateBut(2) => LateBut(3)'
      /\ ~LateBut(3)
  BY <1>3, LateLess
<1>5. MaxFailures = 0 \/ LateBut(1)'
  BY <1>4
<1>6. fails => MaxFailures # 0
  BY <1>1, Numbers DEF Failure
<1>7. NoReceipt.result = "none"
  BY RecordTypes
<1>8. CASE isValidationUnavailable
  <2>1. status' = Withdrawn /\ Gone'
    BY <1>3, <1>8 DEF PendingDoes, isValidationUnavailable, Gone
  <2>2. QED BY <1>2, <2>1 DEF LateInv, Pending, Withdrawn
<1>9. CASE ~isValidationUnavailable
  <2>1. ~Gone
    BY <1>1, <1>9 DEF Gone, isValidationUnavailable
  <2>2. status = Withdrawn =>
          \/ Refused /\ (MaxFailures = 0 \/ LateBut(1))
          \/ queuedTx.id = NoId /\ LateBut(2)
    BY <1>1, <1>4, <2>1 DEF LateInv
  <2>3. CASE Sending(queuedTx, queuedTx', "add", fails) /\ status' = status
    <3>1. queuedTx.id = NoId
      BY <2>3 DEF Sending
    <3>2. status = Withdrawn => LateBut(3)'
      BY <1>4, <2>2, <3>1 DEF Refused
    <3>3. QED BY <1>2, <2>3, <3>2 DEF LateInv, Pending, Withdrawn
  <2>4. CASE Waiting(queuedTx, queuedTx', {"notQueuedOrActive"}, fails) /\ status' = status
    <3>1. ASSUME status = Withdrawn
          PROVE  LateInv'
      <4>1. /\ queuedTx.id # NoId /\ txs' = txs
            /\ txs[queuedTx.id].receipt.result = "notQueuedOrActive"
            /\ MaxFailures = 0 \/ LateBut(1)
        BY <2>2, <2>4, <3>1 DEF Waiting, Refused
      <4>2. CASE queuedTx'.id = queuedTx.id
        <5>1. Refused'
          BY <4>1, <4>2 DEF Refused
        <5>2. QED BY <1>5, <5>1 DEF LateInv
      <4>3. CASE queuedTx'.id # queuedTx.id
        <5>1. queuedTx'.id = NoId /\ fails
          BY <1>7, <2>4, <4>1, <4>3 DEF Waiting
        <5>2. LateBut(2)'
          BY <1>4, <1>6, <4>1, <5>1
        <5>3. QED BY <5>1, <5>2 DEF LateInv
      <4>4. QED BY <4>2, <4>3
    <3>2. QED BY <1>2, <2>4, <3>1 DEF LateInv, Pending, Withdrawn
  <2>5. CASE /\ queuedTx.id # NoId /\ txs[queuedTx.id].receipt.result = "notQueuedOrActive"
             /\ status' = Withdrawn /\ queuedTx' = queuedTx /\ txs' = txs
    <3>1. Refused'
      BY <2>5 DEF Refused
    <3>2. QED BY <1>2, <1>5, <2>5, <3>1 DEF LateInv, Pending, Withdrawn
  <2>6. CASE /\ Finding(queuedTx, queuedTx', {"notQueuedOrActive"}, fails)
             /\ queuedTx'.receipt.result = "ok" /\ status' = Queued
    <3>1. queuedTx.id # NoId /\ txs[queuedTx.id].receipt.result = "ok"
      BY <2>6 DEF Finding
    <3>2. status # Withdrawn
      BY <2>2, <3>1 DEF Refused
    <3>3. QED BY <1>2, <2>6, <3>2 DEF LateInv, Pending, Queued, Withdrawn
  <2>7. CASE UNCHANGED <<status, queuedTx, txs>>
    <3>1. /\ Refused => Refused'
          /\ LateBut(2) => LateBut(3)'
          /\ queuedTx' = queuedTx
      BY <1>4, <2>7 DEF Refused
    <3>2. status = Withdrawn => LateInv'
      BY <1>5, <2>2, <3>1 DEF LateInv
    <3>3. QED BY <1>2, <2>7, <3>2 DEF LateInv, Pending, Withdrawn
  <2>8. QED BY <1>9, <2>3, <2>4, <2>5, <2>6, <2>7 DEF PendingDoes
<1>10. QED BY <1>8, <1>9

LEMMA PendingForward ==
  ASSUME IInv, IInv', StatusInv, ExitInv, status' >= status,
         NEW s \in Slots, Moves(s), NEW fails \in BOOLEAN, PendingDoes(fails)
  PROVE  StatusInv' /\ ExitInv'
<1>1. /\ queuedTx.receipt = NoReceipt /\ id = NoId
      /\ UNCHANGED <<activatedBlock, exitTx, withdrawTx>>
      /\ \/ UNCHANGED id
         \/ status' = Queued /\ txs' = txs
  BY DEF PendingDoes, IInv, FieldsInv, Finding
<1>2. activatedBlock = 0 /\ exitTx.receipt = NoReceipt /\ withdrawTx.receipt = NoReceipt
  BY <1>1, ExitNeedsId DEF StatusInv
<1>3. /\ \A u \in Slots : jobs'[u].branch = jobs[u].branch /\ jobs'[u].block = jobs[u].block
      /\ UNCHANGED <<slotHeld, height, validator, staked>>
  BY MovesTypes DEF IInv
<1>4. StatusInv'
  BY <1>1, <1>2, <1>3 DEF StatusInv, Queued, Active, ExitSignalled
<1>5. \A t \in TxIds : txs[t].kind # "exit"
  BY <1>1 DEF IInv, FieldsInv
<1>6. \A t \in TxIds : txs'[t].kind # "exit"
  BY <1>1, <1>5 DEF IInv, FieldsInv
<1>7. status \in Int /\ status' \in Int
  BY DEF IInv, TypeOK, Pending, Withdrawn
<1>8. ~slotHeld' => status' >= ExitSignalled
  BY <1>3, <1>7 DEF ExitInv, ExitSignalled
<1>9. ExitInv'
  BY <1>6, <1>8 DEF ExitInv
<1>10. QED BY <1>4, <1>9

LEMMA QueuedForward ==
  ASSUME IInv, IInv', StatusInv, ExitInv, BlocksFit, NEW s \in Slots, Moves(s), QueuedDoes,
         jobs[s].branch = Queued
  PROVE  StatusInv' /\ ExitInv' /\ status' >= status /\ id' # NoId
<1>1. id # NoId /\ status \in Int
  BY DEF IInv, TypeOK, FieldsInv, Queued, ExitSignalled, Pending, Withdrawn
<1>2. /\ activatedBlock = 0 /\ status >= Queued /\ status' = Active
      /\ UNCHANGED <<startPeriod, id, queuedTx, exitTx, withdrawTx, txs>>
      /\ activatedBlock' = startPeriod * PeriodLength /\ activatedBlock' # 0
  BY <1>1, ActivationFits DEF QueuedDoes
<1>3. status = Queued
  BY <1>1, <1>2 DEF StatusInv, Active, Queued
<1>4. exitTx.receipt = NoReceipt
  BY <1>3 DEF StatusInv, ExitSignalled, Queued
<1>5. /\ \A u \in Slots : jobs'[u].branch = jobs[u].branch /\ jobs'[u].block = jobs[u].block
      /\ UNCHANGED <<slotHeld, height, validator, staked>>
  BY MovesTypes DEF IInv
<1>6. StatusInv'
  BY <1>1, <1>2, <1>4, <1>5 DEF StatusInv, Queued, Active, ExitSignalled
<1>7. ExitInv'
  BY <1>2, <1>3, <1>5 DEF ExitInv, Queued, ExitSignalled
<1>8. QED BY <1>1, <1>2, <1>3, <1>6, <1>7 DEF Queued, Active

\* An exit is sent in time.
LEMMA ExitAtStart ==
  ASSUME IInv, StatusInv, BlocksFit, NEW s \in Slots, jobs[s].branch = Active,
         shouldSignalExit(jobs[s].block)
  PROVE  validator.status = "exit" \/ Started(validator, staked[id])
<1>1. /\ id # NoId /\ activatedBlock = startPeriod * PeriodLength
      /\ jobs[s].block <= height
  BY DEF StatusInv, Active, ExitSignalled
<1>2. /\ activatedBlock \in Nat /\ activatedBlock <= MaxHeight + 2 * PeriodLength
      /\ startPeriod = staked[id].start /\ startPeriod \in Nat
  BY <1>1, ActivationFits DEF IInv, FieldsInv
<1>3. /\ height \in Nat /\ height <= MaxHeight /\ jobs[s].block \in Nat /\ MaxHeight \in Nat
      /\ validator.completed \in Nat /\ validator.status \in {"active", "exit"}
      /\ PeriodLength \in Nat \ {0}
  BY TypeParts, Numbers DEF IInv, JobRecords
<1>4. CASE view.status = "exit"
  BY <1>4 DEF IInv, ViewInv
<1>5. CASE jobs[s].block >= MinExitBlock(StakingPeriods, activatedBlock, PeriodLength)
           /\ validator.status = "active"
  <2> DEFINE block == jobs[s].block
             done == validator.completed
             start == startPeriod
  <2>1. activatedBlock <= block
    BY <1>1, <1>2, <1>3, <1>5, ExitDue
  <2>2. height < (done + 1) * PeriodLength
    BY <1>5 DEF IInv, PeriodsInv
  <2>3. start \in Nat /\ done \in Nat /\ block \in Nat /\ block <= height
        /\ start * PeriodLength = activatedBlock
    BY <1>1, <1>2, <1>3
  <2> HIDE DEF block, done, start
  <2>4. (done + 1) * PeriodLength \in Nat
    BY <1>3, <2>3, TimesNat
  <2>5. start * PeriodLength < (done + 1) * PeriodLength
    BY <1>2, <1>3, <2>1, <2>2, <2>3, <2>4
  <2>6. start < done + 1
    <3>1. SUFFICES ASSUME done + 1 <= start
                   PROVE  FALSE
      BY <2>3
    <3>2. (done + 1) * PeriodLength <= start * PeriodLength
      BY <1>3, <2>3, <3>1, TimesGrows
    <3>3. QED BY <1>2, <2>3, <2>4, <2>5, <3>2
  <2>7. CurrentPeriod(validator) = done + 1
    BY <1>5 DEF CurrentPeriod, done
  <2>8. CurrentPeriod(validator) >= startPeriod
    BY <2>3, <2>6, <2>7 DEF start
  <2>9. QED BY <1>2, <2>8 DEF Started
<1>6. QED BY <1>3, <1>4, <1>5 DEF shouldSignalExit

LEMMA ActiveForward ==
  ASSUME IInv, IInv', StatusInv, ExitInv, BlocksFit, NEW s \in Slots, Moves(s),
         NEW fails \in BOOLEAN, ActiveDoes(jobs[s].block, fails), jobs[s].branch = Active
  PROVE  StatusInv' /\ ExitInv' /\ status' >= status /\ id' # NoId
<1>1. /\ activatedBlock # 0 /\ id # NoId /\ status \in Int /\ status' \in Int
  BY DEF StatusInv, IInv, TypeOK, Active, ExitSignalled, Pending, Withdrawn
<1>2. /\ status # ExitSignalled /\ exitTx.receipt = NoReceipt
      /\ shouldSignalExit(jobs[s].block)
      /\ UNCHANGED <<activatedBlock, startPeriod, id, queuedTx, withdrawTx>>
  BY DEF ActiveDoes
<1>3. /\ \A u \in Slots : jobs'[u].branch = jobs[u].branch /\ jobs'[u].block = jobs[u].block
      /\ UNCHANGED <<slotHeld, height, validator, staked>>
  BY MovesTypes DEF IInv
<1>4. status < ExitSignalled
  BY <1>1, <1>2 DEF StatusInv, ExitSignalled
<1>5. validator.status = "exit" \/ Started(validator, staked[id])
  BY <1>2, ExitAtStart
<1>6. ASSUME \/ status' = status /\ exitTx'.receipt = NoReceipt
             \/ status' = ExitSignalled /\ exitTx'.receipt # NoReceipt,
             \A t \in TxIds : txs'[t].kind = "exit" =>
               txs'[t].receipt = NoReceipt \/ txs'[t] = txs[t]
      PROVE  StatusInv' /\ ExitInv' /\ status' >= status /\ id' # NoId
  <2>1. status' >= status
    BY <1>1, <1>4, <1>6 DEF ExitSignalled
  <2>2. StatusInv'
    BY <1>1, <1>2, <1>3, <1>4, <1>6 DEF StatusInv, Queued, Active, ExitSignalled
  <2>3. ~slotHeld' => status' >= ExitSignalled
    BY <1>1, <1>3, <2>1 DEF ExitInv, ExitSignalled
  <2>4. ASSUME NEW t \in TxIds, txs'[t].kind = "exit"
        PROVE  /\ validator'.status = "exit" \/ Started(validator, staked[id])'
               /\ txs'[t].receipt # NoReceipt => staked'[id'].last # 0 \/ validator'.status = "exit"
    <3>1. validator'.status = "exit" \/ Started(validator, staked[id])'
      BY <1>2, <1>3, <1>5
    <3>2. CASE txs'[t] = txs[t]
      BY <1>2, <1>3, <2>4, <3>1, <3>2 DEF ExitInv
    <3>3. CASE txs'[t].receipt = NoReceipt
      BY <3>1, <3>3
    <3>4. QED BY <1>6, <2>4, <3>2, <3>3
  <2>5. ExitInv'
    BY <2>3, <2>4 DEF ExitInv
  <2>6. QED BY <1>1, <1>2, <2>1, <2>2, <2>5
<1>7. CASE Sending(exitTx, exitTx', "exit", fails) /\ UNCHANGED status
  <2>1. exitTx \in SentTxs /\ "exit" \in Kinds /\ TypeOK /\ FieldsInv /\ StakedInv
    BY TypeParts DEF IInv, Kinds
  <2>2. /\ exitTx.id = NoId
        /\ \/ fails /\ exitTx' = exitTx /\ txs' = txs
           \/ \E t \in TxIds : SendsAt(t, exitTx, exitTx', "exit", fails)
    BY <1>7, <2>1, SendKeeps
  <2>3. ASSUME NEW t \in TxIds, SendsAt(t, exitTx, exitTx', "exit", fails)
        PROVE  /\ exitTx'.receipt = NoReceipt
               /\ \A u \in TxIds : txs'[u].receipt = NoReceipt \/ txs'[u] = txs[u]
    BY <1>2, <2>3 DEF SendsAt
  <2>4. /\ exitTx'.receipt = NoReceipt /\ status' = status
        /\ \A u \in TxIds : txs'[u].receipt = NoReceipt \/ txs'[u] = txs[u]
    BY <1>2, <1>7, <2>2, <2>3
  <2>5. QED BY <1>6, <2>4
<1>8. CASE Waiting(exitTx, exitTx', {"ended", "notStarted"}, fails) /\ UNCHANGED status
  <2>1. exitTx'.receipt = NoReceipt /\ status' = status /\ txs' = txs
    BY <1>8 DEF Waiting
  <2>2. QED BY <1>6, <2>1
<1>9. CASE Finding(exitTx, exitTx', {"ended", "notStarted"}, fails) /\ status' = ExitSignalled
  <2>1. exitTx'.receipt # NoReceipt /\ status' = ExitSignalled /\ txs' = txs
    BY <1>9 DEF Finding
  <2>2. QED BY <1>6, <2>1
<1>10. QED BY <1>7, <1>8, <1>9 DEF ActiveDoes

LEMMA ExitedForward ==
  ASSUME IInv, IInv', StatusInv, ExitInv, NEW s \in Slots, Moves(s),
         NEW fails \in BOOLEAN, ExitedDoes(fails)
  PROVE  StatusInv' /\ ExitInv' /\ status' >= status /\ id' # NoId
<1>1. /\ status = ExitSignalled /\ exitTx.receipt # NoReceipt /\ id # NoId
      /\ UNCHANGED <<activatedBlock, startPeriod, id, queuedTx, exitTx>>
  BY DEF ExitedDoes, IInv, FieldsInv, Queued, ExitSignalled
<1>2. /\ \A u \in Slots : jobs'[u].branch = jobs[u].branch /\ jobs'[u].block = jobs[u].block
      /\ UNCHANGED <<slotHeld, height, validator, staked>>
  BY MovesTypes DEF IInv
<1>3. status' \in {ExitSignalled, Withdrawn}
  BY <1>1 DEF ExitedDoes
<1>4. StatusInv'
  BY <1>1, <1>2, <1>3 DEF StatusInv, Queued, Active, ExitSignalled, Withdrawn
<1>5. \A t \in TxIds : txs'[t].kind = "exit" => txs'[t] = txs[t]
  <2>1. CASE txs' = txs
    BY <2>1
  <2>2. CASE Sending(withdrawTx, withdrawTx', "withdraw", fails)
    <3>1. withdrawTx \in SentTxs /\ "withdraw" \in Kinds /\ TypeOK /\ FieldsInv /\ StakedInv
      BY TypeParts DEF IInv, Kinds
    <3>2. \/ txs' = txs
          \/ \E t \in TxIds : SendsAt(t, withdrawTx, withdrawTx', "withdraw", fails)
      BY <2>2, <3>1, SendKeeps
    <3>3. QED BY <3>2 DEF SendsAt
  <2>3. QED BY <2>1, <2>2 DEF ExitedDoes, Waiting, Finding
<1>6. ExitInv'
  BY <1>1, <1>2, <1>3, <1>5 DEF ExitInv, ExitSignalled, Withdrawn
<1>7. QED BY <1>1, <1>3, <1>4, <1>6 DEF ExitSignalled, Withdrawn

LEMMA HandleForward ==
  ASSUME IInv, ForwardInv, BlocksFit, FewJobs \/ MaxFailures = 0, NEW s \in Slots, Handle(s)
  PROVE  ForwardInv' /\ status' >= status
<1>1. TypeOK /\ FieldsInv /\ StatusInv /\ LateInv /\ ExitInv
  BY DEF IInv, ForwardInv
<1>2. JobDoes(s) /\ Moves(s)
  BY <1>1, HandleEffect DEF JobDoes
<1>3. IInv'
  BY HandleKeeps
<1>4. status \in Int
  BY ExitNeedsId
<1>5. CASE UNCHANGED <<own, txs, failures>>
  <2>1. /\ \A u \in Slots : jobs'[u].branch = jobs[u].branch /\ jobs'[u].block = jobs[u].block
        /\ \A u \in Slots : u # s => jobs'[u] = jobs[u]
        /\ jobs'[s].pc = "cleanup"
        /\ UNCHANGED <<slotHeld, height, ticked, validator, staked, view>>
    BY <1>1, <1>2, MovesTypes
  <2>2. height \in Nat
    BY <1>1, TypeParts
  <2>3. StatusInv'
    BY <1>1, <1>5, <2>1, <2>2, StatusKept
  <2>4. /\ Late' \subseteq Late
        /\ Gone => Gone'
        /\ Refused => Refused'
    BY <1>5, <2>1 DEF Late, Gone, Refused, own
  <2>5. LateInv'
    BY <1>1, <1>5, <2>4, LateKept
  <2>6. ExitInv'
    BY <1>1, <1>5, <2>1 DEF ExitInv, own
  <2>7. status' >= status
    BY <1>4, <1>5 DEF own
  <2>8. QED BY <2>3, <2>5, <2>6, <2>7 DEF ForwardInv
<1>6. ASSUME NEW fails \in BOOLEAN,
             IF fails THEN Failure ELSE failures' = failures,
             \/ jobs[s].branch = Pending /\ PendingDoes(fails)
             \/ jobs[s].branch = Queued /\ QueuedDoes
             \/ jobs[s].branch = Active /\ ActiveDoes(jobs[s].block, fails)
             \/ jobs[s].branch = ExitSignalled /\ ExitedDoes(fails)
      PROVE  ForwardInv' /\ status' >= status
  <2>1. CASE jobs[s].branch = Pending /\ PendingDoes(fails)
    <3>1. LateInv' /\ status' >= status
      BY <1>1, <1>2, <1>6, <2>1, PendingLate
    <3>2. StatusInv' /\ ExitInv'
      BY <1>1, <1>2, <1>3, <2>1, <3>1, PendingForward
    <3>3. QED BY <3>1, <3>2 DEF ForwardInv
  <2>2. CASE \/ jobs[s].branch = Queued /\ QueuedDoes
             \/ jobs[s].branch = Active /\ ActiveDoes(jobs[s].block, fails)
             \/ jobs[s].branch = ExitSignalled /\ ExitedDoes(fails)
    <3>1. StatusInv' /\ ExitInv' /\ status' >= status /\ id' # NoId
      BY <1>1, <1>2, <1>3, <2>2, QueuedForward, ActiveForward, ExitedForward
    <3>2. LateInv'
      BY <3>1 DEF LateInv
    <3>3. QED BY <3>1, <3>2 DEF ForwardInv
  <2>3. QED BY <1>6, <2>1, <2>2
<1>7. QED BY <1>2, <1>5, <1>6 DEF JobDoes

LEMMA JobsMoveForward ==
  ASSUME IInv, ForwardInv, JobsMove
  PROVE  ForwardInv' /\ status' >= status
<1>1. StatusInv /\ LateInv /\ ExitInv /\ height \in Nat /\ status \in Int
  BY TypeParts, ExitNeedsId DEF IInv, ForwardInv
<1>2. /\ UNCHANGED <<own, height, validator, staked, view, txs, failures>>
      /\ \A u \in Slots :
           /\ jobs'[u].branch \in {Pending, status, jobs[u].branch}
           /\ jobs'[u].block \in {0, height, jobs[u].block}
           /\ jobs'[u].pc = "locked" => jobs'[u] = jobs[u] \/ jobs'[u].branch = status
      /\ ~slotHeld' => ~slotHeld \/ status >= ExitSignalled
  BY DEF JobsMove
<1>3. StatusInv'
  BY <1>1, <1>2, StatusKept
<1>4. LateInv'
  <2>1. status = Withdrawn => Late' \subseteq Late
    BY <1>2 DEF Late, Pending, Withdrawn
  <2>2. (Gone => Gone') /\ (Refused => Refused')
    BY <1>2 DEF Gone, Refused, own
  <2>3. QED BY <1>1, <1>2, <2>1, <2>2, LateKept
<1>5. ExitInv'
  BY <1>1, <1>2 DEF ExitInv, own
<1>6. QED BY <1>1, <1>2, <1>3, <1>4, <1>5 DEF ForwardInv, own

\* A delegation that has started, or whose validator has left, does not go back.
LEMMA NewBlockStarts ==
  ASSUME IInv, NewBlock, id # NoId, staked'[id].start = staked[id].start
  PROVE  /\ validator.status = "exit" => validator'.status = "exit"
         /\ Started(validator, staked[id]) => Started(validator', staked'[id'])
<1>1. /\ validator' = ValidatorAfterBlock /\ id' = id
  BY DEF NewBlock, own
<1>2. /\ validator.status = "exit" => validator' = validator
      /\ CurrentPeriod(validator) \in Nat /\ CurrentPeriod(validator') \in Nat
      /\ CurrentPeriod(validator) <= CurrentPeriod(validator')
  BY <1>1, ValidatorEffect DEF IInv
<1>3. staked[id].start \in Nat
  BY TypeParts DEF IInv, TypeOK, Stakes
<1>4. QED BY <1>1, <1>2, <1>3 DEF Started

\* A block leaves what the lifecycle knows, but for the receipts.
LEMMA NewBlockForward ==
  ASSUME IInv, IInv', ForwardInv, NewBlock,
         \A t \in TxIds : txs[t].receipt # NoReceipt => txs'[t].receipt = txs[t].receipt
  PROVE  StatusInv' /\ LateInv' /\ status' >= status
<1>1. /\ StatusInv /\ LateInv /\ height \in Nat /\ status \in Int
      /\ queuedTx.id \in TxIds \cup {NoId}
  BY TypeParts, ExitNeedsId DEF IInv, ForwardInv, SentTxs
<1>2. UNCHANGED <<own, slotHeld, jobs, view>>
  BY DEF NewBlock
<1>3. height' \in Nat /\ height <= height'
  BY ValidatorEffect DEF NewBlock, IInv
<1>4. StatusInv'
  BY <1>1, <1>2, <1>3, StatusKept
<1>5. Late' \subseteq Late /\ (Gone => Gone')
  BY <1>2 DEF Late, Gone
<1>6. Refused => Refused'
  <2>1. SUFFICES ASSUME Refused PROVE Refused'
    OBVIOUS
  <2>2. queuedTx.id \in TxIds /\ txs[queuedTx.id].receipt # NoReceipt
    BY <1>1, <2>1, RecordTypes DEF Refused
  <2>3. QED BY <1>2, <2>1, <2>2 DEF Refused, own
<1>7. LateInv'
  BY <1>1, <1>2, <1>5, <1>6, LateKept
<1>8. QED BY <1>1, <1>2, <1>4, <1>7 DEF own

LEMMA EmptyBlockForward ==
  ASSUME IInv, ForwardInv, EmptyBlock
  PROVE  ForwardInv' /\ status' >= status
<1>1. NewBlock /\ txs' = Aged /\ staked' = staked /\ IInv'
  BY EmptyBlockKeeps DEF EmptyBlock
<1>2. \A t \in TxIds : txs'[t].kind = txs[t].kind /\ txs'[t].receipt = txs[t].receipt
  BY <1>1, TypeParts, AgedEffect DEF IInv
<1>3. StatusInv' /\ LateInv' /\ status' >= status
  BY <1>1, <1>2, NewBlockForward
<1>4. UNCHANGED <<own, slotHeld>>
  BY <1>1 DEF NewBlock
<1>5. ExitInv'
  <2>1. ~slotHeld' => status' >= ExitSignalled
    BY <1>4 DEF ForwardInv, ExitInv, own
  <2>2. ASSUME NEW t \in TxIds, txs'[t].kind = "exit"
        PROVE  /\ validator'.status = "exit" \/ Started(validator', staked'[id'])
               /\ txs'[t].receipt # NoReceipt =>
                    staked'[id'].last # 0 \/ validator'.status = "exit"
    <3>1. txs[t].kind = "exit" /\ id # NoId /\ id' = id
      BY <1>2, <1>4, <2>2 DEF IInv, FieldsInv, own
    <3>2. /\ validator.status = "exit" => validator'.status = "exit"
          /\ Started(validator, staked[id]) => Started(validator', staked'[id'])
      BY <1>1, <3>1, NewBlockStarts
    <3>3. QED BY <1>1, <1>2, <3>1, <3>2 DEF ForwardInv, ExitInv
  <2>3. QED BY <2>1, <2>2 DEF ExitInv
<1>6. QED BY <1>3, <1>5 DEF ForwardInv

LEMMA BlockWithForward ==
  ASSUME IInv, ForwardInv, NEW t \in TxIds, BlockWith(t)
  PROVE  ForwardInv' /\ status' >= status
<1>1. NewBlock /\ IInv'
  BY BlockWithKeeps DEF BlockWith
<1>2. id \in TxIds \cup {NoId} /\ staked \in [TxIds -> Stakes]
  BY TypeParts DEF IInv, TypeOK
<1>3. txs[t].kind \in {"exit", "withdraw"} => id \in TxIds
  BY <1>2 DEF IInv, FieldsInv
<1>4. /\ InMempool(t)
      /\ \A u \in TxIds : /\ txs'[u].kind = txs[u].kind
                          /\ u # t => txs'[u].receipt = txs[u].receipt
      /\ AddMined(t) \/ ExitMined(t) \/ WithdrawMined(t)
  BY <1>3, BlockWithEffect DEF IInv
<1>5. txs[t].receipt = NoReceipt
  BY <1>4 DEF InMempool, Unmined
<1>6. StatusInv' /\ LateInv' /\ status' >= status
  BY <1>1, <1>4, <1>5, NewBlockForward
<1>7. UNCHANGED <<own, slotHeld>>
  BY <1>1 DEF NewBlock
<1>8. id # NoId => id # t /\ id \in TxIds
  BY <1>2, <1>5 DEF IInv, FieldsInv, Refers
<1>9. id # NoId => staked'[id].start = staked[id].start
                   /\ (staked[id].last # 0 => staked'[id].last # 0)
  BY <1>2, <1>4, <1>8 DEF AddMined, ExitMined, WithdrawMined
<1>10. ASSUME NEW u \in TxIds, txs'[u].kind = "exit"
       PROVE  /\ validator'.status = "exit" \/ Started(validator', staked'[id'])
              /\ txs'[u].receipt # NoReceipt =>
                   staked'[id'].last # 0 \/ validator'.status = "exit"
  <2>1. txs[u].kind = "exit" /\ id # NoId /\ id' = id
    BY <1>4, <1>7, <1>10 DEF IInv, FieldsInv, own
  <2>2. /\ validator.status = "exit" => validator'.status = "exit"
        /\ Started(validator, staked[id]) => Started(validator', staked'[id'])
    BY <1>1, <1>9, <2>1, NewBlockStarts
  <2>3. validator'.status = "exit" \/ Started(validator', staked'[id'])
    BY <2>1, <2>2 DEF ForwardInv, ExitInv
  <2>4. CASE u # t
    <3>1. txs'[u].receipt = txs[u].receipt
      BY <1>4, <2>4
    <3>2. QED BY <1>9, <2>1, <2>2, <2>3, <3>1 DEF ForwardInv, ExitInv
  <2>5. CASE u = t
    <3>1. ExitMined(t)
      BY <1>4, <2>1, <2>5 DEF AddMined, WithdrawMined
    <3>2. CASE staked'[id].last # 0
      BY <2>1, <2>3, <3>2
    <3>3. CASE staked' = staked
      BY <1>9, <2>1, <2>3, <3>1, <3>3 DEF ExitMined
    <3>4. QED BY <3>1, <3>2, <3>3 DEF ExitMined
  <2>6. QED BY <2>4, <2>5
<1>11. ~slotHeld' => status' >= ExitSignalled
  BY <1>7 DEF ForwardInv, ExitInv, own
<1>12. ExitInv'
  BY <1>10, <1>11 DEF ExitInv
<1>13. QED BY <1>6, <1>12 DEF ForwardInv

LEMMA SignalsExitForward ==
  ASSUME IInv, ForwardInv, ValidatorSignalsExit
  PROVE  ForwardInv' /\ status' >= status
<1> DEFINE v == [validator EXCEPT !.exiting = TRUE]
<1>1. validator \in Validations /\ height \in Nat /\ status \in Int
  BY TypeParts, ExitNeedsId DEF IInv
<1>2. v.status = validator.status /\ v.completed = validator.completed
  BY <1>1 DEF Validations
<1>3. validator' = v
      /\ UNCHANGED <<own, slotHeld, jobs, view, txs, height, ticked, staked, failures>>
  BY DEF ValidatorSignalsExit
<1> HIDE DEF v
<1>4. StatusInv'
  BY <1>1, <1>3, StatusKept DEF ForwardInv
<1>5. Late' \subseteq Late /\ (Gone => Gone') /\ (Refused => Refused')
  BY <1>3 DEF Late, Gone, Refused, own
<1>6. LateInv'
  BY <1>3, <1>5, LateKept DEF ForwardInv
<1>7. CurrentPeriod(validator') = CurrentPeriod(validator) /\ validator'.status = validator.status
  BY <1>2, <1>3 DEF CurrentPeriod
<1>8. ExitInv'
  BY <1>3, <1>7 DEF ForwardInv, ExitInv, Started, own
<1>9. QED BY <1>1, <1>3, <1>4, <1>6, <1>8 DEF ForwardInv, own

LEMMA PollViewForward ==
  ASSUME IInv, ForwardInv, PollView
  PROVE  ForwardInv' /\ status' >= status
<1>1. /\ view' = validator \/ view' = NoView
      /\ UNCHANGED <<own, slotHeld, jobs, height, ticked, validator, staked, txs>>
  BY DEF PollView, chain
<1>2. height \in Nat /\ status \in Int
  BY TypeParts, ExitNeedsId DEF IInv
<1>3. StatusInv'
  BY <1>1, <1>2, StatusKept DEF ForwardInv
<1>4. Late' \subseteq Late /\ (Refused => Refused')
  BY <1>1 DEF Late, Refused, own
<1>5. Gone => Gone'
  <2>1. Gone => validator.status = "exit" \/ validator.exiting
    BY DEF Gone, IInv, ViewInv
  <2>2. QED BY <1>1, <2>1 DEF Gone
<1>6. LateInv'
  BY <1>1, <1>4, <1>5, LateKept DEF ForwardInv
<1>7. ExitInv'
  BY <1>1 DEF ForwardInv, ExitInv, own
<1>8. QED BY <1>1, <1>2, <1>3, <1>6, <1>7 DEF ForwardInv, own

LEMMA NextForward ==
  ASSUME IInv, ForwardInv, BlocksFit, FewJobs \/ MaxFailures = 0, [Next]_vars
  PROVE  ForwardInv' /\ status' >= status
<1>1. TypeOK
  BY DEF IInv
<1>2. ASSUME NEW s \in Slots, Job(s)
      PROVE  ForwardInv' /\ status' >= status
  BY <1>1, <1>2, JobsMoveEffect, JobsMoveForward, HandleForward DEF Job
<1>3. CASE Environment
  BY <1>3, EmptyBlockForward, BlockWithForward, SignalsExitForward, PollViewForward
     DEF Environment
<1>4. CASE UNCHANGED vars
  <2>1. UNCHANGED <<own, slotHeld, jobs, height, validator, view, txs, staked>>
    BY <1>4 DEF vars, chain
  <2>2. height \in Nat /\ status \in Int
    BY <1>1, TypeParts, ExitNeedsId
  <2>3. StatusInv'
    BY <2>1, <2>2, StatusKept DEF ForwardInv
  <2>4. Late' \subseteq Late /\ (Gone => Gone') /\ (Refused => Refused')
    BY <2>1 DEF Late, Gone, Refused, own
  <2>5. LateInv'
    BY <2>1, <2>4, LateKept DEF ForwardInv
  <2>6. ExitInv'
    BY <2>1 DEF ForwardInv, ExitInv, own
  <2>7. QED BY <2>1, <2>2, <2>3, <2>5, <2>6 DEF ForwardInv, own
<1>5. QED BY <1>2, <1>3, <1>4 DEF Next

\* A job that chose its handler by a status read before it got d.mu (Process) never
\* takes the lifecycle back to an earlier status: as long as no more than three jobs
\* overlap, or the node answers every request.
THEOREM NeverBack ==
  ASSUME BlocksFit, FewJobs \/ MaxFailures = 0
  PROVE  Spec => StatusNeverBack
<1>1. Init => ForwardInv
  BY InitForward
<1>2. IInv /\ ForwardInv /\ [Next]_vars => ForwardInv' /\ [status' >= status]_vars
  BY NextForward
<1>3. QED BY <1>1, <1>2, IInvHolds, PTL DEF Spec, StatusNeverBack

\* A position is given back (cleanupIfComplete) only when the delegation that holds it
\* can not go on: it signalled its exit, ended, or never starts.
THEOREM ReleasesAreFinal ==
  ASSUME BlocksFit, FewJobs \/ MaxFailures = 0
  PROVE  Spec => []ReleasedIsStopping
<1>1. Init => ForwardInv
  BY InitForward
<1>2. IInv /\ ForwardInv /\ [Next]_vars => ForwardInv'
  BY NextForward
<1>3. ASSUME IInv, ForwardInv
      PROVE  ReleasedIsStopping
  <2>1. SUFFICES ASSUME ~slotHeld, id # NoId
                 PROVE  staked[id].last # 0 \/ validator.status = "exit"
    BY DEF ReleasedIsStopping
  <2>2. status >= ExitSignalled
    BY <1>3, <2>1 DEF ForwardInv, ExitInv
  <2>3. exitTx.receipt # NoReceipt
    BY <1>3, <2>1, <2>2 DEF ForwardInv, StatusInv
  <2>4. /\ exitTx.id \in TxIds /\ txs[exitTx.id].kind = "exit"
        /\ txs[exitTx.id].receipt # NoReceipt
    BY <1>3, <2>3, TypeParts DEF IInv, FieldsInv, Refers, SentTxs
  <2>5. QED BY <1>3, <2>4 DEF ForwardInv, ExitInv
<1>4. QED BY <1>1, <1>2, <1>3, IInvHolds, PTL DEF Spec

-----------------------------------------------------------------------------
(* The delegation is added once, if jobs overlap in pairs. *)

LEMMA DueType ==
  ASSUME IsFiniteSet(Slots)
  PROVE  Cardinality(Slots) \in Nat /\ IsFiniteSet(Busy) /\ Cardinality(Busy) \in Nat
         /\ Due \in Nat
<1>1. Busy \subseteq Slots
  BY DEF Busy
<1>2. IsFiniteSet(Busy)
  BY <1>1, FS_Subset
<1>3. Cardinality(Slots) \in Nat /\ Cardinality(Busy) \in Nat
  BY <1>2, FS_CardinalityType
<1>4. QED BY <1>2, <1>3 DEF Due

\* A job is made for the block that was due.
LEMMA DueMoves ==
  ASSUME TypeOK, IsFiniteSet(Slots), NEW s \in Slots, Submit(s) \/ ReadStatus(s) \/ Cleanup(s)
  PROVE  Due' = Due
<1>1. jobs \in [Slots -> JobRecords]
  BY TypeParts
<1>2. CASE Submit(s)
  <2> DEFINE new == [pc |-> "queued", block |-> height, branch |-> Pending]
  <2>1. new.pc = "queued"
    OBVIOUS
  <2>2. jobs' = [jobs EXCEPT ![s] = new] /\ jobs[s] = Idle /\ ticked' = TRUE /\ ~ticked
    BY <1>2 DEF Submit
  <2> HIDE DEF new
  <2>3. Busy' = Busy \cup {s} /\ s \notin Busy
    BY <1>1, <2>1, <2>2, RecordTypes DEF Busy
  <2>4. Cardinality(Busy') = Cardinality(Busy) + 1
    BY <2>3, DueType, FS_AddElement
  <2>5. QED BY <2>2, <2>4, DueType DEF Due
<1>3. CASE ReadStatus(s)
  <2> DEFINE new == [jobs[s] EXCEPT !.pc = "locked", !.branch = status]
  <2>1. new.pc = "locked"
    BY <1>1 DEF JobRecords
  <2>2. jobs' = [jobs EXCEPT ![s] = new] /\ jobs[s].pc = "queued" /\ ticked' = ticked
    BY <1>1, <1>3 DEF ReadStatus, chain
  <2> HIDE DEF new
  <2>3. Busy' = Busy
    BY <1>1, <2>1, <2>2 DEF Busy
  <2>4. QED BY <2>2, <2>3 DEF Due
<1>4. CASE Cleanup(s)
  <2>1. jobs' = [jobs EXCEPT ![s] = Idle] /\ jobs[s].pc = "cleanup" /\ ticked' = ticked
    BY <1>4 DEF Cleanup, chain
  <2>2. Busy' = Busy
    BY <1>1, <2>1, RecordTypes DEF Busy
  <2>3. QED BY <2>1, <2>2 DEF Due
<1>5. QED BY <1>2, <1>3, <1>4

\* A job polls once.
LEMMA DueHandle ==
  ASSUME TypeOK, IsFiniteSet(Slots), NEW s \in Slots, Moves(s)
  PROVE  Due' + 1 = Due /\ Due' <= Cardinality(Slots) /\ Due' \in Nat
<1>1. /\ jobs[s].pc = "locked" /\ jobs'[s].pc = "cleanup"
      /\ \A u \in Slots : u # s => jobs'[u] = jobs[u]
      /\ ticked' = ticked
  BY MovesTypes
<1>2. Busy' = Busy \ {s} /\ s \in Busy /\ Busy \subseteq Slots
  BY <1>1 DEF Busy
<1>3. Cardinality(Busy') = Cardinality(Busy) - 1
  BY <1>2, DueType, FS_RemoveElement
<1>4. Cardinality(Busy) <= Cardinality(Slots)
  BY <1>2, FS_Subset
<1>5. Cardinality(Busy) # 0
  BY <1>2, DueType, FS_EmptySet
<1>6. QED BY <1>1, <1>3, <1>4, <1>5, DueType DEF Due

\* Another block is to come.
LEMMA DueBlock ==
  ASSUME IsFiniteSet(Slots), NewBlock
  PROVE  Due' <= Due + 1 /\ Due' \in Nat
<1>1. Busy' = Busy /\ ticked' = FALSE
  BY DEF NewBlock, Busy
<1>2. QED BY <1>1, DueType DEF Due

\* A step that leaves the transaction that adds the delegation.
LEMMA OnceKept ==
  ASSUME OnceInv, queuedTx' = queuedTx, failures' = 0 => failures = 0,
         \A t \in TxIds : /\ txs'[t].kind = "add" => txs[t].kind = "add"
                          /\ txs'[t].kind = "add" /\ InMempool(t)' => InMempool(t)
                          /\ txs'[t].kind = "add" /\ staked'[t].start # 0 =>
                               InMempool(t) \/ staked[t].start # 0,
         queuedTx.id # NoId /\ InMempool(queuedTx.id)' =>
           /\ InMempool(queuedTx.id)
           /\ queuedTx.pollAttempts + Due <= Cardinality(Slots) + txs[queuedTx.id].age =>
                queuedTx.pollAttempts + Due' <= Cardinality(Slots) + txs'[queuedTx.id].age
  PROVE  OnceInv'
<1>1. queuedTx'.id = NoId => queuedTx'.pollAttempts = 0
  BY DEF OnceInv
<1>2. ASSUME failures' = 0
      PROVE  /\ \A t \in TxIds :
                  txs'[t].kind = "add" /\ (InMempool(t)' \/ staked'[t].start # 0) =>
                    t = queuedTx'.id
             /\ queuedTx'.id # NoId /\ InMempool(queuedTx.id)' =>
                  queuedTx'.pollAttempts + Due' <= Cardinality(Slots) + txs'[queuedTx'.id].age
  BY <1>2 DEF OnceInv, InMempool, Unmined
<1>3. QED BY <1>1, <1>2 DEF OnceInv, InMempool, Unmined

LEMMA TxNumbers ==
  ASSUME TypeOK
  PROVE  /\ \A t \in TxIds : txs[t].age \in Nat
         /\ queuedTx.pollAttempts \in Nat /\ queuedTx.id \in TxIds \cup {NoId}
         /\ Expiration \in Nat /\ failures \in Nat
<1>1. Expiration \in Nat /\ MaxFailures \in Nat
  BY Numbers
<1>2. \A t \in TxIds : txs[t] \in Txs
  BY TypeParts
<1>3. \A t \in TxIds : txs[t].age \in 0..(Expiration + 1)
  BY <1>2 DEF Txs
<1>4. queuedTx.pollAttempts \in 0..(Expiration + 1) /\ queuedTx.id \in TxIds \cup {NoId}
  BY TypeParts DEF SentTxs
<1>5. failures \in 0..MaxFailures
  BY DEF TypeOK
<1>6. QED BY <1>1, <1>3, <1>4, <1>5

\* The transactions that add the delegation and the stakes stay, and as much is due.
LEMMA OnceSame ==
  ASSUME IInv, OnceInv, IsFiniteSet(Slots), queuedTx' = queuedTx, staked' = staked,
         failures' = 0 => failures = 0, Due' \in Nat, Due' <= Due,
         \A t \in TxIds : txs'[t] = txs[t] \/ (txs'[t].kind # "add" /\ t # queuedTx.id)
  PROVE  OnceInv'
<1>1. queuedTx.id \in TxIds \cup {NoId} /\ queuedTx.pollAttempts \in Nat
      /\ Due \in Nat /\ Cardinality(Slots) \in Nat
  BY TxNumbers, DueType DEF IInv
<1>2. \A t \in TxIds : /\ txs'[t].kind = "add" => txs[t].kind = "add"
                       /\ txs'[t].kind = "add" /\ InMempool(t)' => InMempool(t)
                       /\ txs'[t].kind = "add" /\ staked'[t].start # 0 =>
                            InMempool(t) \/ staked[t].start # 0
  BY DEF InMempool, Unmined
<1>3. ASSUME queuedTx.id # NoId, InMempool(queuedTx.id)'
      PROVE  /\ InMempool(queuedTx.id)
             /\ queuedTx.pollAttempts + Due <= Cardinality(Slots) + txs[queuedTx.id].age =>
                  queuedTx.pollAttempts + Due' <= Cardinality(Slots) + txs'[queuedTx.id].age
  <2>1. queuedTx.id \in TxIds /\ txs'[queuedTx.id] = txs[queuedTx.id]
    BY <1>1, <1>3
  <2>2. InMempool(queuedTx.id)
    BY <1>3, <2>1 DEF InMempool, Unmined
  <2>3. txs[queuedTx.id].age \in Nat
    BY <2>1, TxNumbers DEF IInv
  <2>4. QED BY <1>1, <2>1, <2>2, <2>3
<1>4. QED BY <1>2, <1>3, OnceKept

\* What the handler of Pending does when every request is answered.
LEMMA OncePending ==
  ASSUME IInv, OnceInv, TwoJobs, NEW s \in Slots, Moves(s), NEW fails \in BOOLEAN,
         IF fails THEN Failure ELSE failures' = failures, PendingDoes(fails)
  PROVE  OnceInv'
<1>1. /\ queuedTx.id \in TxIds \cup {NoId} /\ queuedTx.pollAttempts \in Nat
      /\ queuedTx \in SentTxs /\ txs \in [TxIds -> Txs] /\ Due \in Nat
      /\ Cardinality(Slots) \in Nat /\ Cardinality(Slots) <= 2 /\ IsFiniteSet(Slots)
      /\ Expiration \in Nat /\ failures \in Nat
      /\ TypeOK /\ FieldsInv /\ StakedInv
  BY TypeParts, TxNumbers, DueType DEF IInv, TwoJobs
<1>2. /\ Due' + 1 = Due /\ Due' <= Cardinality(Slots) /\ Due' \in Nat
      /\ Due' <= Due /\ Due >= 1
  <2>1. Due' + 1 = Due /\ Due' <= Cardinality(Slots) /\ Due' \in Nat
    BY <1>1, DueHandle
  <2>2. Due \in Nat
    BY <1>1
  <2>3. Due' <= Due /\ Due >= 1
    BY <2>1, <2>2 DEF Due
  <2>4. QED BY <2>1, <2>3
<1>3. staked' = staked
  BY <1>1, MovesTypes
<1>4. failures' = 0 => ~fails /\ failures = 0
  BY <1>1 DEF Failure
<1>5. CASE queuedTx' = queuedTx /\ txs' = txs
  <2>1. \A t \in TxIds : txs'[t] = txs[t] \/ (txs'[t].kind # "add" /\ t # queuedTx.id)
    BY <1>5
  <2>2. QED BY <1>1, <1>2, <1>3, <1>4, <1>5, <2>1, OnceSame
<1>6. CASE Sending(queuedTx, queuedTx', "add", fails)
  <2>1. "add" \in Kinds
    BY DEF Kinds
  <2>2. /\ queuedTx.id = NoId
        /\ \/ fails /\ queuedTx' = queuedTx /\ txs' = txs
           \/ \E t \in TxIds : SendsAt(t, queuedTx, queuedTx', "add", fails)
    BY <1>1, <1>6, <2>1, SendKeeps
  <2>3. ASSUME NEW t \in TxIds, SendsAt(t, queuedTx, queuedTx', "add", fails)
        PROVE  OnceInv'
    <3>1. queuedTx.pollAttempts = 0
      BY <2>2 DEF OnceInv
    <3>2. queuedTx'.pollAttempts = 0
      BY <2>3, <3>1 DEF SendsAt
    <3>3. /\ \A u \in TxIds : u # t => txs'[u] = txs[u]
          /\ txs'[t].age = 0
          /\ ~fails => queuedTx'.id = t
      BY <2>3 DEF SendsAt
    <3>4. ASSUME failures' = 0
          PROVE  /\ \A u \in TxIds :
                      txs'[u].kind = "add" /\ (InMempool(u)' \/ staked'[u].start # 0) =>
                        u = queuedTx'.id
                 /\ queuedTx'.pollAttempts + Due' <= Cardinality(Slots) + txs'[queuedTx'.id].age
      <4>1. \A u \in TxIds : txs[u].kind = "add" => ~InMempool(u) /\ staked[u].start = 0
        BY <1>4, <2>2, <3>4, Numbers DEF OnceInv
      <4>2. \A u \in TxIds : u # t =>
              ~(txs'[u].kind = "add" /\ (InMempool(u)' \/ staked'[u].start # 0))
        BY <1>3, <3>3, <4>1 DEF InMempool, Unmined
      <4>3. queuedTx'.id = t
        BY <1>4, <3>3, <3>4
      <4>4. QED BY <1>1, <1>2, <3>2, <3>3, <4>2, <4>3
    <3>5. QED BY <3>2, <3>4 DEF OnceInv
  <2>4. QED BY <1>5, <2>2, <2>3
<1>7. CASE Waiting(queuedTx, queuedTx', {"notQueuedOrActive"}, fails)
  <2> DEFINE q == queuedTx.id
  <2>1. q # NoId /\ q \in TxIds /\ txs' = txs
    BY <1>1, <1>7 DEF Waiting
  <2>2. txs[q].age \in Nat
    BY <1>1, <2>1, TxNumbers
  <2>3. CASE queuedTx'.id = q /\ queuedTx'.pollAttempts = queuedTx.pollAttempts + 1
    <3>1. ASSUME failures' = 0
          PROVE  /\ \A u \in TxIds :
                      txs'[u].kind = "add" /\ (InMempool(u)' \/ staked'[u].start # 0) =>
                        u = queuedTx'.id
                 /\ InMempool(q) =>
                      queuedTx'.pollAttempts + Due' <= Cardinality(Slots) + txs'[q].age
      <4>1. /\ \A u \in TxIds :
                 txs[u].kind = "add" /\ (InMempool(u) \/ staked[u].start # 0) => u = q
            /\ InMempool(q) =>
                 queuedTx.pollAttempts + Due <= Cardinality(Slots) + txs[q].age
        BY <1>4, <2>1, <3>1 DEF OnceInv
      <4>2. InMempool(q) =>
              queuedTx'.pollAttempts + Due' <= Cardinality(Slots) + txs'[q].age
        BY <1>1, <1>2, <2>1, <2>2, <2>3, <4>1 DEF Due
      <4>3. \A u \in TxIds :
              txs'[u].kind = "add" /\ (InMempool(u)' \/ staked'[u].start # 0) => u = queuedTx'.id
        BY <1>3, <2>1, <2>3, <4>1 DEF InMempool, Unmined
      <4>4. QED BY <4>2, <4>3
    <3>2. InMempool(queuedTx.id)' => InMempool(q)
      BY <2>1, <2>3 DEF InMempool, Unmined
    <3>3. QED BY <2>1, <2>3, <3>1, <3>2 DEF OnceInv, InMempool, Unmined
  <2>4. CASE queuedTx'.id # q \/ queuedTx'.pollAttempts # queuedTx.pollAttempts + 1
    <3>1. /\ queuedTx'.id = NoId /\ queuedTx'.pollAttempts = 0
          /\ \/ queuedTx.pollAttempts > Expiration /\ (txs[q].receipt = NoReceipt \/ fails)
             \/ /\ txs[q].receipt # NoReceipt
                /\ txs[q].receipt.result # "ok"
      BY <1>7, <2>4 DEF Waiting
    <3>2. ASSUME failures' = 0, NEW u \in TxIds, txs'[u].kind = "add"
          PROVE  ~InMempool(u)' /\ staked'[u].start = 0
      <4>1. u # q => ~InMempool(u) /\ staked[u].start = 0
        BY <1>4, <2>1, <3>2 DEF OnceInv
      <4>2. CASE txs[q].receipt # NoReceipt /\ txs[q].receipt.result # "ok"
        <5>1. ~InMempool(q) /\ staked[q].start = 0
          BY <1>1, <2>1, <4>2 DEF InMempool, Unmined, StakedInv
        <5>2. ~InMempool(u) /\ staked[u].start = 0
          BY <4>1, <5>1
        <5>3. QED BY <1>3, <2>1, <5>2 DEF InMempool, Unmined
      <4>3. CASE queuedTx.pollAttempts > Expiration /\ txs[q].receipt = NoReceipt
        <5>1. staked[q].start = 0
          BY <1>1, <2>1, <4>3, RecordTypes DEF StakedInv
        <5>2. ~InMempool(q)
          <6>1. SUFFICES ASSUME InMempool(q) PROVE FALSE
            OBVIOUS
          <6>2. queuedTx.pollAttempts + Due <= Cardinality(Slots) + txs[q].age
            BY <1>4, <2>1, <3>2, <6>1 DEF OnceInv
          <6>3. txs[q].age < Expiration
            BY <6>1 DEF InMempool
          <6> DEFINE age == txs[q].age
                     polls == queuedTx.pollAttempts
                     slots == Cardinality(Slots)
          <6>4. /\ age \in Nat /\ polls \in Nat /\ slots \in Nat /\ slots <= 2
                /\ Expiration \in Nat /\ Due \in Nat /\ Due >= 1
                /\ polls > Expiration /\ polls + Due <= slots + age /\ age < Expiration
            BY <1>1, <1>2, <2>2, <4>3, <6>2, <6>3
          <6> HIDE DEF age, polls, slots
          <6>5. QED BY <6>4
        <5>3. ~InMempool(u) /\ staked[u].start = 0
          BY <4>1, <5>1, <5>2
        <5>4. QED BY <1>3, <2>1, <5>3 DEF InMempool, Unmined
      <4>4. QED BY <1>4, <3>1, <3>2, <4>2, <4>3
    <3>3. QED BY <3>1, <3>2 DEF OnceInv
  <2>5. QED BY <2>3, <2>4
<1>8. CASE Finding(queuedTx, queuedTx', {"notQueuedOrActive"}, fails)
  <2>1. /\ queuedTx'.id = queuedTx.id /\ queuedTx.id # NoId /\ txs' = txs
        /\ txs[queuedTx.id].receipt # NoReceipt
    BY <1>8 DEF Finding
  <2>2. ~InMempool(queuedTx.id) /\ ~InMempool(queuedTx.id)'
    BY <2>1 DEF InMempool, Unmined
  <2>3. \A u \in TxIds : InMempool(u)' <=> InMempool(u)
    BY <2>1 DEF InMempool, Unmined
  <2>4. failures' = 0 =>
          \A t \in TxIds : txs'[t].kind = "add" /\ (InMempool(t)' \/ staked'[t].start # 0) =>
            t = queuedTx'.id
    BY <1>3, <1>4, <2>1, <2>3 DEF OnceInv
  <2>5. QED BY <2>1, <2>2, <2>4 DEF OnceInv
<1>9. QED BY <1>5, <1>6, <1>7, <1>8 DEF PendingDoes

\* Another transaction is sent under an id of its own.
LEMMA OnceSending ==
  ASSUME IInv, OnceInv, IsFiniteSet(Slots), queuedTx' = queuedTx, staked' = staked,
         failures' = 0 => failures = 0, Due' \in Nat, Due' <= Due,
         NEW tx \in SentTxs, NEW newTx, NEW kind \in {"exit", "withdraw"},
         NEW fails \in BOOLEAN, Sending(tx, newTx, kind, fails)
  PROVE  OnceInv'
<1>1. kind \in Kinds /\ kind # "add"
  BY DEF Kinds
<1>2. \/ txs' = txs
      \/ \E t \in TxIds : SendsAt(t, tx, newTx, kind, fails)
  BY <1>1, SendKeeps DEF IInv
<1>3. \A t \in TxIds : txs'[t] = txs[t] \/ (txs'[t].kind # "add" /\ t # queuedTx.id)
  BY <1>1, <1>2 DEF SendsAt
<1>4. QED BY <1>3, OnceSame

LEMMA OnceHandle ==
  ASSUME IInv, OnceInv, TwoJobs, NEW s \in Slots, Handle(s)
  PROVE  OnceInv'
<1>1. /\ JobDoes(s) /\ Moves(s) /\ IsFiniteSet(Slots) /\ TypeOK
  BY HandleEffect DEF JobDoes, IInv, TwoJobs
<1>2. Due' + 1 = Due /\ Due' \in Nat /\ Due \in Nat
  BY <1>1, DueHandle, DueType
<1>3. Due' <= Due
  BY <1>2 DEF Due
<1>4. staked' = staked
  BY <1>1, MovesTypes
<1>5. CASE UNCHANGED <<own, txs, failures>>
  <2>1. /\ queuedTx' = queuedTx /\ failures' = failures
        /\ \A t \in TxIds : txs'[t] = txs[t] \/ (txs'[t].kind # "add" /\ t # queuedTx.id)
    BY <1>5 DEF own
  <2>2. QED BY <1>1, <1>2, <1>3, <1>4, <2>1, OnceSame
<1>6. ASSUME NEW fails \in BOOLEAN,
             IF fails THEN Failure ELSE failures' = failures,
             \/ jobs[s].branch = Pending /\ PendingDoes(fails)
             \/ jobs[s].branch = Queued /\ QueuedDoes
             \/ jobs[s].branch = Active /\ ActiveDoes(jobs[s].block, fails)
             \/ jobs[s].branch = ExitSignalled /\ ExitedDoes(fails)
      PROVE  OnceInv'
  <2>1. failures' = 0 => failures = 0
    <3>1. failures \in Nat
      BY <1>1, TxNumbers
    <3>2. CASE fails
      BY <1>6, <3>1, <3>2 DEF Failure
    <3>3. CASE ~fails
      BY <1>6, <3>3
    <3>4. QED BY <3>2, <3>3
  <2>2. CASE PendingDoes(fails)
    BY <1>1, <1>6, <2>2, OncePending
  <2>3. CASE queuedTx' = queuedTx /\ txs' = txs
    <3>1. \A t \in TxIds : txs'[t] = txs[t] \/ (txs'[t].kind # "add" /\ t # queuedTx.id)
      BY <2>3
    <3>2. QED BY <1>1, <1>2, <1>3, <1>4, <2>1, <2>3, <3>1, OnceSame
  <2>4. CASE queuedTx' = queuedTx /\ Sending(exitTx, exitTx', "exit", fails)
    <3>1. exitTx \in SentTxs
      BY <1>1, TypeParts
    <3>2. QED BY <1>1, <1>2, <1>3, <1>4, <2>1, <2>4, <3>1, OnceSending
  <2>5. CASE queuedTx' = queuedTx /\ Sending(withdrawTx, withdrawTx', "withdraw", fails)
    <3>1. withdrawTx \in SentTxs
      BY <1>1, TypeParts
    <3>2. QED BY <1>1, <1>2, <1>3, <1>4, <2>1, <2>5, <3>1, OnceSending
  <2>6. CASE QueuedDoes
    BY <2>3, <2>6 DEF QueuedDoes
  <2>7. CASE ActiveDoes(jobs[s].block, fails)
    BY <2>3, <2>4, <2>7 DEF ActiveDoes, Waiting, Finding
  <2>8. CASE ExitedDoes(fails)
    BY <2>3, <2>5, <2>8 DEF ExitedDoes, Waiting, Finding
  <2>9. QED BY <1>6, <2>2, <2>6, <2>7, <2>8
<1>7. QED BY <1>1, <1>5, <1>6 DEF JobDoes

\* In a block, what waits gets older.
LEMMA OnceBlock ==
  ASSUME IInv, OnceInv, IsFiniteSet(Slots), NewBlock,
         \A t \in TxIds : /\ txs'[t].kind = txs[t].kind
                          /\ txs[t].age <= txs'[t].age
                          /\ InMempool(t) => txs'[t].age = txs[t].age + 1
                          /\ txs[t].receipt # NoReceipt => txs'[t].receipt # NoReceipt,
         txs' \in [TxIds -> Txs],
         \A t \in TxIds : txs[t].kind = "add" /\ staked'[t].start # 0 =>
                            InMempool(t) \/ staked[t].start # 0
  PROVE  OnceInv'
<1>1. /\ queuedTx.id \in TxIds \cup {NoId} /\ queuedTx.pollAttempts \in Nat
      /\ \A t \in TxIds : txs[t].age \in Nat
      /\ Due \in Nat /\ Cardinality(Slots) \in Nat /\ Expiration \in Nat
  BY TxNumbers, DueType DEF IInv
<1>2. queuedTx' = queuedTx /\ failures' = failures
  BY DEF NewBlock, own
<1>3. Due' <= Due + 1 /\ Due' \in Nat
  BY DueBlock
<1>4. \A t \in TxIds : txs'[t].age \in Nat
  <2>1. \A t \in TxIds : txs'[t].age \in 0..(Expiration + 1)
    BY DEF Txs
  <2>2. QED BY <1>1, <2>1
<1>5. \A t \in TxIds : InMempool(t)' => InMempool(t)
  <2>1. SUFFICES ASSUME NEW t \in TxIds, InMempool(t)' PROVE InMempool(t)
    OBVIOUS
  <2>2. txs'[t].age < Expiration /\ txs'[t].kind # "free" /\ txs'[t].receipt = NoReceipt
    BY <2>1 DEF InMempool, Unmined
  <2>3. txs[t].age < Expiration
    BY <1>1, <1>4, <2>2
  <2>4. QED BY <2>2, <2>3 DEF InMempool, Unmined
<1>6. ASSUME queuedTx.id # NoId, InMempool(queuedTx.id)'
      PROVE  /\ InMempool(queuedTx.id)
             /\ queuedTx.pollAttempts + Due <= Cardinality(Slots) + txs[queuedTx.id].age =>
                  queuedTx.pollAttempts + Due' <= Cardinality(Slots) + txs'[queuedTx.id].age
  <2>1. queuedTx.id \in TxIds
    BY <1>1, <1>6
  <2>2. InMempool(queuedTx.id)
    BY <1>2, <1>5, <1>6, <2>1 DEF InMempool, Unmined
  <2>3. txs'[queuedTx.id].age = txs[queuedTx.id].age + 1
    BY <2>1, <2>2
  <2>4. txs[queuedTx.id].age \in Nat
    BY <1>1, <2>1
  <2>5. QED BY <1>1, <1>3, <2>2, <2>3, <2>4 DEF Due
<1>7. \A t \in TxIds : /\ txs'[t].kind = "add" => txs[t].kind = "add"
                       /\ txs'[t].kind = "add" /\ InMempool(t)' => InMempool(t)
                       /\ txs'[t].kind = "add" /\ staked'[t].start # 0 =>
                            InMempool(t) \/ staked[t].start # 0
  BY <1>5
<1>8. QED BY <1>2, <1>6, <1>7, OnceKept

LEMMA NextOnce ==
  ASSUME IInv, OnceInv, TwoJobs, [Next]_vars
  PROVE  OnceInv'
<1>1. TypeOK /\ IsFiniteSet(Slots) /\ Due \in Nat
  BY DueType DEF IInv, TwoJobs
<1>2. ASSUME UNCHANGED <<own, staked, txs>>, Due' = Due, failures' = 0 => failures = 0
      PROVE  OnceInv'
  <2>1. queuedTx' = queuedTx /\ staked' = staked
        /\ \A t \in TxIds : txs'[t] = txs[t] \/ (txs'[t].kind # "add" /\ t # queuedTx.id)
    BY <1>2 DEF own
  <2>2. Due' \in Nat /\ Due' <= Due
    BY <1>1, <1>2 DEF Due
  <2>3. QED BY <1>1, <1>2, <2>1, <2>2, OnceSame
<1>3. ASSUME NEW s \in Slots, Job(s)
      PROVE  OnceInv'
  <2>1. CASE Handle(s)
    BY <2>1, OnceHandle
  <2>2. CASE Submit(s) \/ ReadStatus(s) \/ Cleanup(s)
    <3>1. UNCHANGED <<own, staked, txs, failures>>
      BY <2>2 DEF Submit, ReadStatus, Cleanup, chain
    <3>2. Due' = Due
      BY <1>1, <2>2, DueMoves
    <3>3. QED BY <1>2, <3>1, <3>2
  <2>3. QED BY <1>3, <2>1, <2>2 DEF Job
<1>4. CASE EmptyBlock
  <2>1. NewBlock /\ txs' = Aged /\ staked' = staked
    BY <1>4 DEF EmptyBlock
  <2>2. QED BY <1>1, <2>1, TypeParts, AgedEffect, OnceBlock
<1>5. ASSUME NEW t \in TxIds, BlockWith(t)
      PROVE  OnceInv'
  <2>1. NewBlock
    BY <1>5 DEF BlockWith
  <2>2. id \in TxIds \cup {NoId} /\ staked \in [TxIds -> Stakes]
    BY TypeParts DEF IInv, TypeOK
  <2>3. txs[t].kind \in {"exit", "withdraw"} => id \in TxIds
    BY <2>2 DEF IInv, FieldsInv
  <2>4. /\ InMempool(t) /\ txs' \in [TxIds -> Txs] /\ txs'[t].receipt # NoReceipt
        /\ \A u \in TxIds : /\ txs'[u].kind = txs[u].kind /\ txs[u].age <= txs'[u].age
                            /\ InMempool(u) => txs'[u].age = txs[u].age + 1
                            /\ u # t => txs'[u].receipt = txs[u].receipt
        /\ AddMined(t) \/ ExitMined(t) \/ WithdrawMined(t)
    BY <1>5, <2>3, BlockWithEffect DEF IInv
  <2>5. \A u \in TxIds : txs[u].receipt # NoReceipt => txs'[u].receipt # NoReceipt
    BY <2>4
  <2>6. \A u \in TxIds : staked'[u].start # 0 => u = t \/ staked[u].start # 0
    BY <2>2, <2>3, <2>4 DEF AddMined, ExitMined, WithdrawMined
  <2>7. \A u \in TxIds : txs[u].kind = "add" /\ staked'[u].start # 0 =>
                           InMempool(u) \/ staked[u].start # 0
    BY <2>4, <2>6
  <2>8. QED BY <1>1, <2>1, <2>4, <2>5, <2>7, OnceBlock
<1>6. CASE ValidatorSignalsExit \/ PollView
  <2>1. UNCHANGED <<own, staked, txs, jobs, ticked>>
    BY <1>6 DEF ValidatorSignalsExit, PollView, chain
  <2>2. Due' = Due
    BY <2>1 DEF Due, Busy
  <2>3. failures' = 0 => failures = 0
    <3>1. failures \in Nat /\ (failures' = failures \/ Failure)
      BY <1>1, <1>6, TxNumbers DEF ValidatorSignalsExit, PollView
    <3>2. QED BY <3>1 DEF Failure
  <2>4. QED BY <1>2, <2>1, <2>2, <2>3
<1>7. CASE UNCHANGED vars
  BY <1>2, <1>7 DEF vars, chain, Due, Busy
<1>8. QED BY <1>3, <1>4, <1>5, <1>6, <1>7 DEF Next, Environment

LEMMA InitOnce == Init => OnceInv
<1> SUFFICES ASSUME Init PROVE OnceInv
  OBVIOUS
<1>1. queuedTx.id = NoId /\ queuedTx.pollAttempts = 0
  BY RecordTypes DEF Init
<1>2. \A t \in TxIds : txs[t].kind # "add"
  BY RecordTypes DEF Init
<1>3. QED BY <1>1, <1>2 DEF OnceInv

\* The stake is not locked twice: a transaction given up after its polls
\* (handleReceiptError) has expired and is not mined beside the one sent next, if the
\* node answers and no more than two jobs overlap.
THEOREM AddedOnce ==
  ASSUME TwoJobs
  PROVE  Spec => []AddedAtMostOnce
<1>1. Init => OnceInv
  BY InitOnce
<1>2. IInv /\ OnceInv /\ [Next]_vars => OnceInv'
  BY NextOnce
<1>3. ASSUME IInv, OnceInv
      PROVE  AddedAtMostOnce
  <2>1. SUFFICES ASSUME failures = 0
                 PROVE  Cardinality(OnChain) <= 1
    BY DEF AddedAtMostOnce
  <2>2. OnChain \subseteq {queuedTx.id}
    BY <1>3, <2>1 DEF OnChain, OnceInv, IInv, StakedInv
  <2>3. IsFiniteSet({queuedTx.id}) /\ Cardinality({queuedTx.id}) = 1
    BY FS_Singleton
  <2>4. QED BY <2>2, <2>3, FS_Subset, FS_CardinalityType
<1>4. QED BY <1>1, <1>2, <1>3, IInvHolds, PTL DEF Spec
=============================================================================
