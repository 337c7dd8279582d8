----------------------------- MODULE StakerChain -----------------------------
(***************************************************************************)
(* External: the network as validators/ and contract/ meet it.  Blocks,    *)
(* the staker contract's record of each validator, and the mempool.  What  *)
(* is said here is taken from the answers the code in src/ expects.        *)
(***************************************************************************)
EXTENDS Integers

CONSTANTS Validators,      \* the validators this program manages
          PeriodLength,    \* blocks of a staking period
          CooldownPeriod,  \* blocks from the exit to the first withdrawal
          MaxHeight,       \* bound: the chain's height stops growing here
          LossUntil        \* last block that may leave a transaction waiting

ASSUME ChainAssumption ==
  /\ {PeriodLength, MaxHeight} \subseteq Nat \ {0}
  /\ {CooldownPeriod, LossUntil} \subseteq Nat

VARIABLES
  height,      \* number of the best block
  validation,  \* the staker contract's record of each validator
  sent,        \* the transaction its job waits for, and what became of it
  orphans      \* transactions in the mempool that nobody waits for any more

chainVars == <<height, validation, sent, orphans>>

Kinds == {"add", "exit", "withdraw"}
Results == {"waiting", "expired", "ok", "reverted"}
Nothing == [kind |-> "none", result |-> "none"]
Transactions == {Nothing} \cup [kind : Kinds, result : Results]

\* start and signalled are block numbers, 0 for not yet.
Unknown == [added |-> FALSE, start |-> 0, signalled |-> 0, withdrawn |-> FALSE]
Blocks == 0..MaxHeight
Records == [added : BOOLEAN, start : Blocks, signalled : Blocks, withdrawn : BOOLEAN]

\* A validator that signalled its exit leaves with the period it is in.
ExitBlock(r) == r.start + ((r.signalled - r.start) \div PeriodLength + 1) * PeriodLength

Exited(r, block) == r.signalled # 0 /\ block >= ExitBlock(r)
Withdrawable(r, block) == r.signalled # 0 /\ block >= ExitBlock(r) + CooldownPeriod

StatusAt(r, block) ==
  IF ~r.added              THEN "absent"
  ELSE IF Exited(r, block) THEN "exit"
  ELSE IF r.start = 0      THEN "queued"
  ELSE IF r.signalled # 0  THEN "exiting"   \* Active, with an ExitBlock
  ELSE                          "active"

Status(v) == StatusAt(validation[v], height)

\* The three calls: what the contract accepts, and the record after it.
Accepts(r, kind, block) ==
  \/ kind = "add" /\ ~r.added
  \/ kind = "exit" /\ r.start # 0 /\ r.signalled = 0
  \/ kind = "withdraw" /\ Withdrawable(r, block) /\ ~r.withdrawn

After(r, kind, block) ==
  IF ~Accepts(r, kind, block) THEN r
  ELSE CASE kind = "add"      -> [r EXCEPT !.added = TRUE]
         [] kind = "exit"     -> [r EXCEPT !.signalled = block]
         [] kind = "withdraw" -> [r EXCEPT !.withdrawn = TRUE]

Waiting(v) == sent[v].result = "waiting"

\* A block: queued validators may become active; of each validator at most one
\* transaction without a waiting job is mined, before the one that has one.
Block(activated, mined, orphan) ==
  LET block == height + 1
      started(v) == IF v \in activated THEN [validation[v] EXCEPT !.start = block]
                                       ELSE validation[v]
      first(v) == After(started(v), orphan[v], block)
  IN  /\ height < MaxHeight
      /\ height' = block
      /\ \A v \in activated : Status(v) = "queued"
      /\ \A v \in mined : Waiting(v)
      /\ \A v \in Validators : orphan[v] = "none" \/ <<v, orphan[v]>> \in orphans
      /\ height >= LossUntil => /\ mined = {v \in Validators : Waiting(v)}
                                /\ activated = {v \in Validators : Status(v) = "queued"}
      /\ validation' = [v \in Validators |->
           IF v \in mined THEN After(first(v), sent[v].kind, block) ELSE first(v)]
      /\ sent' = [v \in Validators |->
           IF v \in mined
             THEN [sent[v] EXCEPT !.result =
                     IF Accepts(first(v), sent[v].kind, block) THEN "ok" ELSE "reverted"]
             ELSE sent[v]]
      /\ orphans' = orphans \ {<<v, orphan[v]>> : v \in Validators}

\* A transaction expires without having been mined.
Expire(v) ==
  /\ Waiting(v) /\ height < LossUntil
  /\ sent' = [sent EXCEPT ![v].result = "expired"]
  /\ UNCHANGED <<height, validation, orphans>>

ExpireOrphan(o) ==
  /\ orphans' = orphans \ {o}
  /\ UNCHANGED <<height, validation, sent>>
==============================================================================
