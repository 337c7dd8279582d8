---------------------------- MODULE StargateParam ----------------------------
(***************************************************************************)
(* setStargate of the devnet program: the delegator contract's address is  *)
(* proposed, approved by every executor and executed, unless the network's *)
(* parameters have it already.  Any failure ends the program (os.Exit).    *)
(*                                                                         *)
(* External: the params and executor contracts and the mempool.  What an   *)
(* earlier program left of a proposal concerns no later one, but for an    *)
(* execution that is still in the mempool (stray).                         *)
(***************************************************************************)
EXTENDS Naturals

CONSTANTS Executors, Rounds  \* how often the receipts are looked for: 6

ASSUME StargateParamAssumption == Executors # {} /\ Rounds \in Nat \ {0}

VARIABLES
  at,          \* where the program is
  param,       \* the delegator contract's address: stargate or another
  approval,    \* each executor's approval of the proposal, and what became of it
  approved,    \* the approvals the program has seen
  round,
  minuteOver,  \* is the context of setStargate done?
  execute,     \* the execution it waits for
  stray        \* is an execution without a waiting program in the mempool?

programVars == <<at, approval, approved, round, minuteOver, execute>>
setVars == <<programVars, param, stray>>

TxResults == {"none", "waiting", "ok", "reverted"}
Unsent == [e \in Executors |-> "none"]

SetInit ==
  /\ at = "start" /\ param = "other" /\ stray = FALSE
  /\ approval = Unsent /\ approved = {} /\ round = 0
  /\ minuteOver = FALSE /\ execute = "none"

\* What setStargate knows is gone with its return.
Leave(place) ==
  /\ at' = place /\ approval' = Unsent /\ approved' = {} /\ round' = 0
  /\ minuteOver' = FALSE /\ execute' = "none"

Fail == Leave("exit")
Goes(place) == at' = place /\ UNCHANGED <<approval, approved, round, minuteOver, execute>>

CheckExisting ==
  /\ at = "start"
  /\ \/ Fail
     \/ Goes(IF param = "stargate" THEN "flush" ELSE "propose")
  /\ UNCHANGED <<param, stray>>

Propose ==
  /\ at = "propose"
  /\ Fail \/ Goes("approve")
  /\ UNCHANGED <<param, stray>>

\* The approvals are sent one after the other, without waiting.
Approve ==
  /\ at = "approve"
  /\ \/ Fail
     \/ /\ \E e \in {x \in Executors : approval[x] = "none"} :
             approval' = [approval EXCEPT ![e] = "waiting"]
        /\ at' = IF \E e \in Executors : approval'[e] = "none" THEN "approve" ELSE "polling"
        /\ UNCHANGED <<approved, round, minuteOver, execute>>
  /\ UNCHANGED <<param, stray>>

\* A round: a block or 20 seconds, then every receipt that is missing is asked for.
Poll ==
  LET found == {e \in Executors \ approved : approval[e] \in {"ok", "reverted"}}
  IN  /\ at = "polling" /\ round < Rounds /\ approved # Executors
      /\ \/ Fail  \* a receipt could not be asked for
         \/ (\E e \in found : approval[e] = "reverted") /\ Fail
         \/ /\ \A e \in found : approval[e] = "ok"
            /\ approved' = approved \cup found /\ round' = round + 1
            /\ UNCHANGED <<at, approval, minuteOver, execute>>
      /\ UNCHANGED <<param, stray>>

\* Fault: it is not asked whether all have approved.
PolledEnough ==
  /\ at = "polling" /\ (round = Rounds \/ approved = Executors)
  /\ Goes("execute") /\ UNCHANGED <<param, stray>>

Polled ==
  /\ at = "polling"
  /\ \/ approved = Executors /\ Goes("execute")
     \/ approved # Executors /\ round = Rounds /\ Fail
  /\ UNCHANGED <<param, stray>>

\* The context of the execution comes from the one the proposal was made with: when
\* that is done, the receipt is not waited for, whether or not the call was sent.
Execute ==
  /\ at = "execute"
  /\ \/ Fail /\ UNCHANGED stray
     \/ minuteOver /\ Fail /\ stray' = TRUE
     \/ /\ ~minuteOver /\ at' = "executing" /\ execute' = "waiting"
        /\ UNCHANGED <<approval, approved, round, minuteOver, stray>>
  /\ UNCHANGED param

Executed ==
  /\ at = "executing"
  /\ \/ execute = "ok" /\ Goes("flush") /\ UNCHANGED stray
     \/ execute = "reverted" /\ Fail /\ UNCHANGED stray
     \/ execute = "waiting" /\ Fail /\ stray' = TRUE  \* a minute, or the context
  /\ UNCHANGED param

setStargate ==
  CheckExisting \/ Propose \/ Approve \/ Poll \/ Polled \/ Execute \/ Executed

-----------------------------------------------------------------------------
MinuteOver ==
  /\ at \in {"approve", "polling", "execute"} /\ ~minuteOver /\ minuteOver' = TRUE
  /\ UNCHANGED <<at, approval, approved, round, execute, param, stray>>

MineApproval(e) ==
  /\ approval[e] = "waiting"
  /\ \E r \in {"ok", "reverted"} : approval' = [approval EXCEPT ![e] = r]
  /\ UNCHANGED <<at, approved, round, minuteOver, execute, param, stray>>

AllApproved == \A e \in Executors : approval[e] = "ok"

MineExecute ==
  /\ execute = "waiting"
  /\ IF AllApproved THEN execute' = "ok" /\ param' = "stargate"
                    ELSE execute' = "reverted" /\ UNCHANGED param
  /\ UNCHANGED <<at, approval, approved, round, minuteOver, stray>>

MineStray == stray /\ stray' = FALSE /\ param' = "stargate" /\ UNCHANGED programVars

SetChain ==
  \/ MinuteOver \/ MineExecute \/ MineStray
  \/ \E e \in Executors : MineApproval(e)
==============================================================================
