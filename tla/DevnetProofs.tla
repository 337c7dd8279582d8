----------------------------- MODULE DevnetProofs -----------------------------
(* The devnet program and its cleanup, for any number of executors and delegations. *)
EXTENDS Devnet, SumProofs, TLAPS

LEMMA LeastIsIn ==
  ASSUME NEW N \in Nat, NEW S \in SUBSET (0..N), S # {}
  PROVE  Min(S) \in S /\ \A y \in S : Min(S) <= y
BY LeastNumber DEF Min

LEMMA GreatestIsIn ==
  ASSUME NEW N \in Nat, NEW S \in SUBSET (0..N), S # {}
  PROVE  Max(S) \in S /\ \A y \in S : Max(S) >= y
<1>1. PICK x \in S : \A y \in S : ~Inside(y..N, x..N)
  <2>1. {z..N : z \in S} \in SUBSET SUBSET (0..N)
    <3>1. \A z \in S : z..N \subseteq 0..N
      OBVIOUS
    <3>2. QED BY <3>1
  <2>2. {z..N : z \in S} # {}
    OBVIOUS
  <2>3. PICK t \in {z..N : z \in S} : \A y \in {z..N : z \in S} : ~Inside(y, t)
    <3>1. IsFiniteSet(0..N)
      BY 0 \in Int, N \in Int, FS_Interval
    <3>2. QED BY <2>1, <2>2, <3>1, SmallestSubset
  <2>4. QED BY <2>3
<1>2. ASSUME NEW y \in S, y > x PROVE FALSE
  BY <1>1, <1>2, x \in x..N, x \notin y..N DEF Inside
<1>3. \A y \in S : x >= y
  BY <1>2
<1>4. QED BY <1>3 DEF Max

-----------------------------------------------------------------------------
\* setStargate: what the program has seen approved is approved, it executes when it
\* has seen all of it, and an execution that came through has set the address.
ApprovalsSeen ==
  /\ \A e \in approved : approval[e] = "ok"
  /\ at \in {"execute", "executing"} \/ execute # "none" => approved = Executors
  /\ execute = "ok" => param = "stargate"

\* Run is only under way where the program calls it, and its cursor, which moves
\* before anything is fetched, is never beyond what it fetches next.
CursorInv ==
  /\ step # "idle" => at \in {"cleanup", "final"}
  /\ IF step = "fetch" THEN previousCleaned <= currentID ELSE previousCleaned <= MaxID

\* Beyond setStargate the address is there.
AddressSet ==
  at \in {"flush", "cleanup", "engine", "final"} \/ adds > 0 \/ Added # {} => param = "stargate"

\* TypeOK in parts: the program, the chain, Run, and the bounds.
SetTypes ==
  /\ at \in Places /\ param \in {"other", "stargate"} /\ stray \in BOOLEAN
  /\ approval \in [Executors -> TxResults] /\ approved \subseteq Executors
  /\ round \in 0..Rounds /\ minuteOver \in BOOLEAN /\ execute \in TxResults

ChainTypes == delegation \in [IDs -> Stages] /\ pool \subseteq Calls

RunTypes ==
  /\ step \in {"idle", "find", "fetch", "returned"}
  /\ previousCleaned \in 0..MaxID + 1 /\ currentID \in 0..MaxID + 1 /\ lastID \in 0..MaxID
  /\ locked \subseteq IDs /\ withdrawable \subseteq IDs

IInv ==
  /\ SetTypes /\ ChainTypes /\ RunTypes /\ adds \in 0..MaxID /\ faults \in 0..MaxFaults
  /\ ApprovalsSeen /\ CursorInv /\ AddressSet

LEMMA UnsentTyped == Unsent \in [Executors -> TxResults]
BY DEF Unsent, TxResults

LEMMA InitInv == Init => IInv
<1> SUFFICES ASSUME Init PROVE IInv
  OBVIOUS
<1> USE StargateParamAssumption, CleanupAssumption, FaultsAssumption
        DEF Init, SetInit, CleanupInit
<1>1. SetTypes
  <2>1. approval \in [Executors -> TxResults]
    BY UnsentTyped
  <2>2. round \in 0..Rounds
    OBVIOUS
  <2>3. approved \subseteq Executors /\ minuteOver \in BOOLEAN
    OBVIOUS
  <2>4. at \in Places /\ execute \in TxResults /\ stray \in BOOLEAN
    BY DEF Places, TxResults
  <2>5. QED BY <2>1, <2>2, <2>3, <2>4 DEF SetTypes
<1>2. ChainTypes /\ Added = {}
  BY DEF ChainTypes, IDs, Stages, Calls, Added
<1>3. RunTypes /\ CursorInv
  BY DEF RunTypes, CursorInv
<1>4. ApprovalsSeen /\ AddressSet
  BY <1>2 DEF ApprovalsSeen, AddressSet
<1>5. QED BY <1>1, <1>2, <1>3, <1>4 DEF IInv

-----------------------------------------------------------------------------
(* setStargate, and what the chain does meanwhile. *)

\* What a step of the set-up keeps and does, for whoever goes on after it.
SetKept ==
  /\ SetTypes' /\ ApprovalsSeen'
  /\ param = "stargate" => param' = "stargate"
  /\ at' # at => at' \in {"propose", "approve", "polling", "execute", "executing", "flush", "exit"}
  /\ at' = "flush" /\ at # "flush" => param' = "stargate"

LEMMA SetStargateStep ==
  ASSUME SetTypes, ApprovalsSeen, setStargate \/ SetChain
  PROVE  SetKept
<1> USE StargateParamAssumption DEF SetKept, SetTypes, ApprovalsSeen, Places, TxResults
<1>1. ASSUME NEW place \in {"flush", "exit"}, Leave(place), UNCHANGED param, stray' \in BOOLEAN,
             place = "flush" => param = "stargate"
      PROVE  SetKept
  <2>1. /\ at' = place /\ approval' = Unsent /\ approved' = {} /\ round' = 0
        /\ minuteOver' = FALSE /\ execute' = "none"
    BY <1>1 DEF Leave
  <2>2. SetTypes'
    <3>1. approval' \in [Executors -> TxResults]
      BY <2>1, UnsentTyped
    <3>2. at' \in Places /\ approved' \subseteq Executors /\ execute' \in TxResults
      BY <2>1
    <3>3. round' \in 0..Rounds
      BY <2>1
    <3>4. minuteOver' \in BOOLEAN
      BY <2>1
    <3>5. QED BY <1>1, <3>1, <3>2, <3>3, <3>4
  <2>3. ApprovalsSeen'
    BY <1>1, <2>1
  <2>4. QED BY <1>1, <2>1, <2>2, <2>3
<1>2. ASSUME Fail, UNCHANGED param, stray' \in BOOLEAN PROVE SetKept
  BY <1>1, <1>2 DEF Fail
<1>3. CASE CheckExisting
  BY <1>2, <1>3 DEF CheckExisting, Goes
<1>4. CASE Propose
  BY <1>2, <1>4 DEF Propose, Goes
<1>5. CASE Approve
  <2>1. CASE Fail
    BY <1>2, <1>5, <2>1 DEF Approve
  <2>2. ASSUME NEW e \in Executors, approval[e] = "none",
               approval' = [approval EXCEPT ![e] = "waiting"],
               at' \in {"approve", "polling"}, at = "approve",
               UNCHANGED <<approved, round, minuteOver, execute, param, stray>>
        PROVE  SetKept
    BY <2>2
  <2>3. QED BY <1>5, <2>1, <2>2 DEF Approve
<1>6. CASE Poll
  <2>1. CASE Fail
    BY <1>2, <1>6, <2>1 DEF Poll
  <2>2. CASE ~Fail
    <3> DEFINE found == {e \in Executors \ approved : approval[e] \in {"ok", "reverted"}}
    <3>1. /\ at = "polling" /\ round < Rounds
          /\ \A e \in found : approval[e] = "ok"
          /\ approved' = approved \cup found /\ round' = round + 1
          /\ UNCHANGED <<at, approval, minuteOver, execute, param, stray>>
      BY <1>6, <2>2 DEF Poll
    <3>2. round' \in 0..Rounds
      BY <3>1
    <3>3. \A e \in approved' : approval'[e] = "ok"
      BY <3>1
    <3>4. QED BY <3>1, <3>2, <3>3
  <2>3. QED BY <2>1, <2>2
<1>7. CASE Polled
  BY <1>2, <1>7 DEF Polled, Goes
<1>8. CASE Execute
  BY <1>2, <1>8 DEF Execute
<1>9. CASE Executed
  BY <1>2, <1>9 DEF Executed, Goes
<1>10. CASE MinuteOver
  BY <1>10 DEF MinuteOver
<1>11. CASE MineExecute
  BY <1>11 DEF MineExecute
<1>12. CASE MineStray
  BY <1>12 DEF MineStray, programVars
<1>13. ASSUME NEW e \in Executors, MineApproval(e) PROVE SetKept
  BY <1>13 DEF MineApproval
<1>14. QED
  BY <1>3, <1>4, <1>5, <1>6, <1>7, <1>8, <1>9, <1>10, <1>11, <1>12, <1>13
     DEF setStargate, SetChain

-----------------------------------------------------------------------------
(* Cleanup.Run. *)

RunKept == RunTypes' /\ CursorInv' /\ ChainTypes' /\ UNCHANGED delegation

LEMMA LastAddedType == LastAdded \in 0..MaxID /\ \A id \in Added : id <= LastAdded
<1>1. MaxID \in Nat /\ Added \cup {0} \in SUBSET (0..MaxID)
  BY CleanupAssumption DEF Added, IDs
<1>2. QED BY <1>1, GreatestIsIn DEF LastAdded

\* The end of a page is one of its two bounds.
LEMMA MinOfTwo ==
  ASSUME NEW a \in Int, NEW b \in Int
  PROVE  Min({a, b}) = IF a <= b THEN a ELSE b
<1>1. PICK x \in {a, b} : \A y \in {a, b} : x <= y
  OBVIOUS
<1>2. Min({a, b}) \in {a, b} /\ \A y \in {a, b} : Min({a, b}) <= y
  BY <1>1 DEF Min
<1>3. QED BY <1>2

LEMMA RunStep ==
  ASSUME ChainTypes, RunTypes, CursorInv, Run \/ RunFails, UNCHANGED at
  PROVE  RunKept
<1> USE CleanupAssumption DEF RunKept, RunTypes, CursorInv, chainVars
<1>1. ChainTypes' /\ UNCHANGED delegation /\ (step # "idle")
  <2>1. \A id \in IDs : <<"exit", id>> \in Calls /\ <<"withdraw", id>> \in Calls
    BY DEF Calls
  <2>2. \A S \in SUBSET IDs : S # {} => Min(S) \in IDs
    <3>1. \A S \in SUBSET IDs : S \in SUBSET (0..MaxID) /\ MaxID \in Nat
      BY DEF IDs
    <3>2. QED BY <3>1, LeastIsIn
  <2>3. ASSUME NEW sent \in BOOLEAN, SignalDelegationExit(sent) \/ WithdrawDelegation(sent)
        PROVE  ChainTypes' /\ UNCHANGED delegation /\ step # "idle"
    BY <2>1, <2>2, <2>3 DEF SignalDelegationExit, WithdrawDelegation, ChainTypes
  <2>4. CASE FindLast \/ FetchLockedDelegators \/ FetchFails \/ Completed
    BY <2>4 DEF FindLast, FetchLockedDelegators, FetchFails, Completed, ChainTypes
  <2>5. QED BY <2>3, <2>4 DEF Run, RunFails
<1>2. CASE FindLast
  BY <1>1, <1>2, LastAddedType DEF FindLast, Returns, FirstID
<1>3. CASE FetchLockedDelegators
  <2> DEFINE end == Min({currentID + PageSize - 1, lastID})
             found == Page(currentID, end)
             in(stages) == {id \in found : delegation[id] \in stages}
  <2>1. end = IF currentID + PageSize - 1 <= lastID THEN currentID + PageSize - 1 ELSE lastID
    BY MinOfTwo
  <2>2. step = "fetch" /\ currentID <= lastID /\ currentID' = end + 1
        /\ UNCHANGED <<step, previousCleaned, lastID>>
    BY <1>3 DEF FetchLockedDelegators
  <2>3. \A stages : in(stages) \subseteq IDs
    BY DEF Page, Added
  <2>4. locked' \subseteq IDs /\ withdrawable' \subseteq IDs
    <3>1. locked' = locked \cup in({"locked", "exiting"})
      BY <1>3 DEF FetchLockedDelegators
    <3>2. \E early \in SUBSET in({"queued"}) :
            withdrawable' = withdrawable \cup in({"ended"}) \cup early
      BY <1>3 DEF FetchLockedDelegators
    <3> HIDE DEF in
    <3>3. QED BY <2>3, <3>1, <3>2
  <2> HIDE DEF end
  <2>5. currentID' \in 0..MaxID + 1 /\ currentID <= currentID'
    BY <2>1, <2>2
  <2>6. QED BY <1>1, <2>2, <2>4, <2>5
<1>4. CASE FetchFails
  BY <1>1, <1>4 DEF FetchFails, Returns
<1>5. CASE Completed
  BY <1>1, <1>5 DEF Completed, Returns
<1>6. ASSUME NEW sent \in BOOLEAN, SignalDelegationExit(sent) \/ WithdrawDelegation(sent)
      PROVE  RunKept
  BY <1>1, <1>6 DEF SignalDelegationExit, WithdrawDelegation
<1>7. QED BY <1>2, <1>3, <1>4, <1>5, <1>6 DEF Run, RunFails

-----------------------------------------------------------------------------
LEMMA FaultsStep ==
  ASSUME faults \in 0..MaxFaults, NEW op, UNCHANGED faults \/ Counted(op)
  PROVE  faults' \in 0..MaxFaults
BY FaultsAssumption DEF Counted

\* Delegations of the chain alone: none is added, none is forgotten.
LEMMA ChainStep ==
  ASSUME ChainTypes, NEW id \in IDs,
         \/ PeriodEnds(id) \/ ValidatorExits(id)
         \/ \E kind \in {"exit", "withdraw"} : Mine(<<kind, id>>) \/ Expire(<<kind, id>>)
  PROVE  ChainTypes' /\ Added' = Added /\ UNCHANGED runVars
<1>1. CASE PeriodEnds(id) \/ ValidatorExits(id)
  BY <1>1 DEF PeriodEnds, ValidatorExits, Becomes, ChainTypes, Stages, Added
<1>2. ASSUME NEW kind \in {"exit", "withdraw"}, Mine(<<kind, id>>)
      PROVE  ChainTypes' /\ Added' = Added /\ UNCHANGED runVars
  <2>1. pool' \subseteq Calls
    BY <1>2 DEF Mine, ChainTypes
  <2>2. PICK stage \in Stages : delegation' = [delegation EXCEPT ![id] = stage]
                                /\ (stage = "none") = (delegation[id] = "none")
    BY <1>2 DEF Mine, ChainTypes, Stages
  <2>3. QED BY <1>2, <2>1, <2>2 DEF Mine, ChainTypes, Added
<1>3. ASSUME NEW kind \in {"exit", "withdraw"}, Expire(<<kind, id>>)
      PROVE  ChainTypes' /\ Added' = Added /\ UNCHANGED runVars
  BY <1>3 DEF Expire, ChainTypes, Added
<1>4. QED BY <1>1, <1>2, <1>3

LEMMA AddedStep ==
  ASSUME ChainTypes, adds \in 0..MaxID, MineAdd
  PROVE  ChainTypes' /\ adds' \in 0..MaxID /\ adds > 0
<1>1. \A n : [delegation EXCEPT ![n] = "queued"] \in [IDs -> Stages]
  BY DEF ChainTypes, Stages
<1>2. ChainTypes'
  BY <1>1 DEF MineAdd, ChainTypes
<1>3. adds > 0 /\ adds' = adds - 1
  BY DEF MineAdd
<1>4. QED BY <1>2, <1>3, CleanupAssumption

LEMMA SentStep ==
  ASSUME adds \in 0..MaxID, Delegate
  PROVE  adds' \in 0..MaxID
<1>1. Cardinality(Added) \in Nat
  <2>1. IsFiniteSet(1..MaxID)
    BY CleanupAssumption, 1 \in Int, MaxID \in Int, FS_Interval
  <2>2. IsFiniteSet(Added)
    BY <2>1, FS_Subset DEF Added, IDs
  <2>3. QED BY <2>2, FS_CardinalityType
<1>2. QED BY <1>1, CleanupAssumption DEF Delegate

LEMMA InvStep == IInv /\ [Next]_vars => IInv'
<1> SUFFICES ASSUME IInv, [Next]_vars PROVE IInv'
  OBVIOUS
<1> USE DEF IInv
<1>1. ASSUME Leave("exit") \/ Leave("start") \/ Goes("cleanup") \/ Goes("engine") \/ Goes("final"),
             UNCHANGED param, UNCHANGED stray \/ stray' \in BOOLEAN
      PROVE  SetTypes' /\ ApprovalsSeen'
  <2>1. CASE Leave("exit") \/ Leave("start")
    <3>1. approval' \in [Executors -> TxResults]
      BY <2>1, UnsentTyped DEF Leave
    <3>2. round' \in 0..Rounds
      BY <2>1, StargateParamAssumption DEF Leave
    <3>3. QED BY <1>1, <2>1, <3>1, <3>2 DEF Leave, SetTypes, ApprovalsSeen, Places, TxResults
  <2>2. CASE Goes("cleanup") \/ Goes("engine") \/ Goes("final")
    BY <1>1, <2>2 DEF Goes, SetTypes, ApprovalsSeen, Places
  <2>3. QED BY <1>1, <2>1, <2>2
<1>2. CASE UNCHANGED vars
  BY <1>2 DEF vars, setVars, programVars, cleanupVars, runVars, chainVars, SetTypes, ChainTypes,
              RunTypes, ApprovalsSeen, CursorInv, AddressSet, Added
<1>3. CASE SetStargate
  <2>1. SetKept
    BY <1>3, SetStargateStep DEF SetStargate
  <2>2. UNCHANGED <<cleanupVars, adds>> /\ faults' \in 0..MaxFaults
    BY <1>3, FaultsStep DEF SetStargate
  <2>3. at' # at => step = "idle"
    BY <1>3 DEF SetStargate, setStargate, SetChain, CheckExisting, Propose, Approve, Poll, Polled,
                Execute, Executed, MinuteOver, MineExecute, MineStray, MineApproval, programVars,
                CursorInv
  <2>4. ChainTypes' /\ RunTypes' /\ CursorInv' /\ Added' = Added
    BY <2>2, <2>3 DEF cleanupVars, runVars, chainVars, ChainTypes, RunTypes, CursorInv, Added
  <2>5. AddressSet'
    BY <2>1, <2>2, <2>4 DEF SetKept, AddressSet
  <2>6. QED BY <2>1, <2>2, <2>4, <2>5 DEF SetKept
<1>4. CASE Flushed
  <2>1. Leave("exit") \/ Goes("cleanup")
    BY <1>4 DEF Flushed, Counted, Fail
  <2>2. /\ UNCHANGED <<param, stray, chainVars, previousCleaned, currentID, lastID, locked,
                       withdrawable, adds>>
        /\ at = "flush" /\ step = "idle"
        /\ (step' = "idle" \/ (step' = "find" /\ at' = "cleanup"))
    <3>1. at = "flush" /\ step = "idle"
      BY <1>4 DEF Flushed, CursorInv
    <3>2. UNCHANGED step \/ (step' = "find" /\ at' = "cleanup")
      BY <1>4 DEF Flushed, Goes
    <3>3. UNCHANGED <<param, stray, chainVars>>
      BY <1>4 DEF Flushed
    <3>4. UNCHANGED <<previousCleaned, currentID, lastID, locked, withdrawable, adds>>
      BY <1>4 DEF Flushed
    <3>5. QED BY <3>1, <3>2, <3>3, <3>4
  <2>3. faults' \in 0..MaxFaults
    BY <1>4, FaultsStep DEF Flushed
  <2>4. ChainTypes' /\ RunTypes' /\ CursorInv' /\ Added' = Added
    BY <2>2 DEF chainVars, ChainTypes, RunTypes, CursorInv, Added
  <2>5. AddressSet'
    BY <2>2, <2>4 DEF AddressSet
  <2>6. QED BY <1>1, <2>1, <2>2, <2>3, <2>4, <2>5
<1>5. CASE Cleaning
  <2>1. UNCHANGED <<setVars, adds>> /\ (Run \/ RunFails) /\ faults' \in 0..MaxFaults
    BY <1>5, FaultsStep DEF Cleaning, Counted
  <2>2. RunKept
    BY <2>1, RunStep DEF setVars, programVars
  <2>3. QED BY <2>1, <2>2 DEF RunKept, setVars, programVars, SetTypes, ApprovalsSeen, AddressSet,
                              Added
<1>6. CASE Cleaned
  <2>1. Leave("exit") \/ Goes("engine")
    BY <1>6 DEF Cleaned, Fail
  <2>2. /\ UNCHANGED <<param, stray, chainVars, currentID, lastID, locked, withdrawable, adds, faults>>
        /\ step = "returned" /\ step' = "idle" /\ previousCleaned' \in {0, previousCleaned}
        /\ at \in {"cleanup", "final"}
    BY <1>6 DEF Cleaned
  <2>3. ChainTypes' /\ RunTypes' /\ CursorInv' /\ Added' = Added
    BY <2>2, CleanupAssumption DEF chainVars, ChainTypes, RunTypes, CursorInv, Added
  <2>4. AddressSet'
    BY <2>2, <2>3 DEF AddressSet
  <2>5. QED BY <1>1, <2>1, <2>2, <2>3, <2>4
<1>7. CASE Delegate
  <2>1. UNCHANGED <<setVars, cleanupVars, faults>> /\ at = "engine"
    BY <1>7 DEF Delegate
  <2>2. adds' \in 0..MaxID
    BY <1>7, SentStep
  <2>3. QED BY <2>1, <2>2 DEF setVars, programVars, cleanupVars, runVars, chainVars, SetTypes,
                              ChainTypes, RunTypes, ApprovalsSeen, CursorInv, AddressSet
<1>8. CASE MineAdd
  <2>1. UNCHANGED <<setVars, runVars, faults>>
    BY <1>8 DEF MineAdd
  <2>2. ChainTypes' /\ adds' \in 0..MaxID /\ adds > 0
    BY <1>8, AddedStep
  <2>3. QED BY <2>1, <2>2 DEF setVars, programVars, runVars, SetTypes, RunTypes, ApprovalsSeen,
                              CursorInv, AddressSet
<1>9. CASE Interrupt
  <2>1. Goes("final") /\ at = "engine" /\ step = "idle" /\ step' = "find"
        /\ UNCHANGED <<param, stray, chainVars, previousCleaned, currentID, lastID, locked,
                       withdrawable, adds, faults>>
    BY <1>9 DEF Interrupt, CursorInv
  <2>2. QED BY <1>1, <2>1 DEF Goes, chainVars, ChainTypes, RunTypes, CursorInv, AddressSet, Added
<1>10. CASE Crash
  <2>1. /\ Leave("exit") /\ stray' \in BOOLEAN /\ step' = "idle"
        /\ previousCleaned' = 0 /\ currentID' = 0 /\ lastID' = 0 /\ locked' = {} /\ withdrawable' = {}
        /\ UNCHANGED <<param, chainVars, adds>>
    BY <1>10 DEF Crash, Counted, Fail, SetTypes
  <2>2. faults' \in 0..MaxFaults
    BY <1>10, FaultsStep DEF Crash
  <2>3. ChainTypes' /\ RunTypes' /\ CursorInv' /\ Added' = Added
    BY <2>1, CleanupAssumption DEF chainVars, ChainTypes, RunTypes, CursorInv, Added
  <2>4. AddressSet'
    BY <2>1, <2>3 DEF AddressSet, Leave
  <2>5. QED BY <1>1, <2>1, <2>2, <2>3, <2>4
<1>11. CASE Rerun
  <2>1. Leave("start") /\ at = "exit" /\ UNCHANGED <<param, stray, cleanupVars, adds, faults>>
    BY <1>11 DEF Rerun
  <2>2. ChainTypes' /\ RunTypes' /\ CursorInv' /\ Added' = Added
    BY <2>1 DEF cleanupVars, runVars, chainVars, ChainTypes, RunTypes, CursorInv, Added
  <2>3. AddressSet'
    BY <2>1, <2>2 DEF AddressSet, Leave
  <2>4. QED BY <1>1, <2>1, <2>2, <2>3
<1>12. ASSUME NEW op, Chain(op), ChainTypes', Added' = Added, UNCHANGED runVars,
              faults' \in 0..MaxFaults
       PROVE  IInv'
  BY <1>12 DEF Chain, setVars, programVars, runVars, SetTypes, RunTypes, ApprovalsSeen, CursorInv,
               AddressSet
<1>13. ASSUME NEW id \in IDs, Chain(PeriodEnds(id) \/ ValidatorExits(id)), UNCHANGED faults
       PROVE  IInv'
  <2>1. ChainTypes' /\ Added' = Added /\ UNCHANGED runVars
    BY <1>13, ChainStep DEF Chain
  <2>2. QED BY <1>12, <1>13, <2>1
<1>14. ASSUME NEW call \in Calls,
              (Chain(Mine(call)) /\ UNCHANGED faults) \/ Chain(Counted(Expire(call)))
       PROVE  IInv'
  <2>1. PICK kind \in {"exit", "withdraw"}, id \in IDs : call = <<kind, id>>
    BY DEF Calls
  <2>2. ChainTypes' /\ Added' = Added /\ UNCHANGED runVars
    BY <1>14, <2>1, ChainStep DEF Chain, Counted
  <2>3. faults' \in 0..MaxFaults
    BY <1>14, FaultsAssumption DEF Chain, Counted
  <2>4. UNCHANGED <<setVars, adds>>
    BY <1>14 DEF Chain
  <2>5. QED BY <1>12, <2>2, <2>3, <2>4 DEF Chain
<1>15. QED
  BY <1>2, <1>3, <1>4, <1>5, <1>6, <1>7, <1>8, <1>9, <1>10, <1>11, <1>13, <1>14 DEF Next

-----------------------------------------------------------------------------
LEMMA InvariantHolds == Spec => []IInv
<1>1. QED BY InitInv, InvStep, PTL DEF Spec

\* Every field keeps its type, whatever crashes and fails: the cursor, which moves
\* before the fetches that can fail, does not run away.
THEOREM DevnetTypeCorrect == Spec => []TypeOK
<1>1. IInv => TypeOK
  BY DEF IInv, SetTypes, ChainTypes, RunTypes, TypeOK
<1>2. QED BY <1>1, InvariantHolds, PTL

\* However many executors there are and however often the program is run again: the
\* proposal is executed when every approval is on chain, and nothing is delegated
\* before the address is set.
THEOREM SetUpKeepsOrder == Spec => []SetUpInOrder
<1>1. ASSUME IInv PROVE SetUpInOrder
  <2>1. execute # "none" => AllApproved
    BY <1>1 DEF IInv, ApprovalsSeen, AllApproved
  <2>2. QED BY <1>1, <2>1 DEF IInv, AddressSet, SetUpInOrder
<1>2. IInv => SetUpInOrder
  BY <1>1
<1>3. QED BY <1>2, InvariantHolds, PTL
===============================================================================
