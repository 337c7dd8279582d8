--------------------------- MODULE PositionLedger ---------------------------
(***************************************************************************)
(* What the position manager promises, without any counter: it keeps the   *)
(* set of delegations it handed out and the set of validators that take    *)
(* delegations, and hands out a position only while the validator's own    *)
(* share and the network-wide cap of that position leave room.             *)
(***************************************************************************)
EXTENDS Integers, FiniteSets

CONSTANTS Validators,     \* addresses of validators
          PositionNames,  \* names of the configured positions
          DelegationIDs,  \* the random hashes that name delegations
          MainnetUsed,    \* [PositionNames -> Nat]: the cap of each position
          Share           \* [Validators -> [PositionNames -> Nat]]

VARIABLES held,  \* delegation id -> [Position, Validator]
          open   \* the validators that take delegations

ledgerVars == <<held, open>>

\* The delegations of position p that validator v holds.
HeldAt(v, p) ==
  {id \in DOMAIN held : held[id].Validator = v /\ held[id].Position = p}

\* The delegations of position p that count against its cap.
Counted(p) ==
  {id \in DOMAIN held : held[id].Validator \in open /\ held[id].Position = p}

Init == /\ held = [id \in {} |-> {}]
        /\ open = {}

\* A validator starts to take delegations, with nothing held against it.
Open(v) == /\ v \notin open
           /\ \A p \in PositionNames : HeldAt(v, p) = {}
           /\ open' = open \cup {v}
           /\ UNCHANGED held

\* A validator stops taking delegations; what it holds is not forgotten.
Close(v) == /\ v \in open
            /\ open' = open \ {v}
            /\ UNCHANGED held

Take(id, v, p) ==
  /\ v \in open
  /\ id \notin DOMAIN held
  /\ Cardinality(HeldAt(v, p)) < Share[v][p]
  /\ Cardinality(Counted(p)) < MainnetUsed[p]
  /\ held' = [i \in DOMAIN held \cup {id} |->
                IF i = id THEN [Position |-> p, Validator |-> v] ELSE held[i]]
  /\ UNCHANGED open

Release(id) == /\ id \in DOMAIN held
               /\ held' = [i \in DOMAIN held \ {id} |-> held[i]]
               /\ UNCHANGED open

Next == \/ \E v \in Validators : Open(v) \/ Close(v)
        \/ \E id \in DelegationIDs, v \in Validators, p \in PositionNames :
             Take(id, v, p)
        \/ \E id \in DelegationIDs : Release(id)

Spec == Init /\ [][Next]_ledgerVars
=============================================================================
