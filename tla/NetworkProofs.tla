---------------------------- MODULE NetworkProofs ----------------------------
(* Ports, for any number of networks, names, nodes and ports. *)
EXTENDS Network, TLAPS

\* No port is under two names, and each is known as handed out.
NamesApart ==
  \A a \in Names :
    /\ portsByID[a] \subseteq ports
    /\ \A b \in Names : a # b => portsByID[a] \cap portsByID[b] = {}

\* A network keeps its ports until it is stopped.
PortsKept ==
  \A n \in Networks :
    Sole(n) /\ stopped[n] = "no" => usedPorts(n) \subseteq portsByID[Name[n]]

\* Start holds the mutex that Stop needs, so the nodes are not started after a Stop.
StartsUnstopped ==
  \A n \in Networks :
    call[n] \in {"start", "starting"} => mu[n] = "caller" /\ stopped[n] = "no"

IInv == TypeOK /\ NamesApart /\ PortsKept /\ StartsUnstopped /\ ListeningIsReserved /\ PortsExclusive

-----------------------------------------------------------------------------
LEMMA InitInv == Init => IInv
<1> SUFFICES ASSUME Init PROVE IInv
  OBVIOUS
<1> USE NetworkAssumption DEF Init, PortsInit, All
<1>1. TypeOK
  BY DEF TypeOK, Calls
<1>2. NamesApart /\ StartsUnstopped /\ ListeningIsReserved
  BY DEF NamesApart, StartsUnstopped, ListeningIsReserved
<1>3. PortsKept /\ PortsExclusive
  BY DEF PortsKept, PortsExclusive, usedPorts
<1>4. QED BY <1>1, <1>2, <1>3 DEF IInv

-----------------------------------------------------------------------------
(* What the parts of a step do. *)

\* The ports that makeNode took: nobody had them, nobody listens on them.
Taken(n, got) ==
  /\ got \subseteq Ports /\ got \cap ports = {} /\ got \cap Listening = {}
  /\ ports' = ports \cup got
  /\ portsByID' = [portsByID EXCEPT ![Name[n]] = @ \cup got]
  /\ usedPorts(n)' = usedPorts(n) \cup got
  /\ \A m \in Networks : m # n => nodes'[m] = nodes[m]
  /\ UNION (nodes'[n] \ nodes[n]) \subseteq got

LEMMA MakeNodes ==
  ASSUME TypeOK, NEW n \in Networks, NEW k, makeNodes(n, k)
  PROVE  /\ nodes' \in [Networks -> SUBSET SUBSET Ports]
         /\ \E got : Taken(n, got)
<1>1. PICK new \in SUBSET SUBSET Ports :
        NewPorts(Name[n], UNION new, Listening) /\ nodes' = [nodes EXCEPT ![n] = @ \cup new]
  BY DEF makeNodes
<1>2. nodes' \in [Networks -> SUBSET SUBSET Ports]
  BY <1>1 DEF TypeOK
<1>3. nodes'[n] = nodes[n] \cup new /\ \A m \in Networks : m # n => nodes'[m] = nodes[m]
  BY <1>1 DEF TypeOK
<1>4. UNION nodes'[n] = (UNION nodes[n]) \cup UNION new
  BY <1>3
<1>5. UNION (nodes'[n] \ nodes[n]) \subseteq UNION new
  BY <1>3
<1>6. Taken(n, UNION new)
  BY <1>1, <1>3, <1>4, <1>5 DEF Taken, NewPorts, rndPort, usedPorts
<1>7. QED BY <1>2, <1>6

LEMMA TakenTypes ==
  ASSUME TypeOK, NEW n \in Networks, NEW got, Taken(n, got)
  PROVE  ports' \subseteq Ports /\ portsByID' \in [Names -> SUBSET Ports]
<1>1. Name[n] \in Names
  BY NetworkAssumption
<1>2. QED BY <1>1 DEF Taken, TypeOK

LEMMA UsedAreListed ==
  ASSUME TypeOK, NEW n \in Networks
  PROVE  /\ usedPorts(n) \subseteq Ports
         /\ \A running \in SUBSET nodes[n] : UNION running \subseteq usedPorts(n)
BY DEF TypeOK, usedPorts

LEMMA TypeStep == TypeOK /\ [Next]_vars => TypeOK'
<1> SUFFICES ASSUME TypeOK, [Next]_vars PROVE TypeOK'
  OBVIOUS
<1>1. CASE UNCHANGED vars
  BY <1>1 DEF TypeOK, vars, netVars, portVars
<1>2. ASSUME NEW n \in Networks,
             \/ NewNetwork(n) \/ NewNetworkFails(n) \/ Start(n) \/ StartBuilds(n)
             \/ Connected(n) \/ Return(n) \/ AttachNode(n) \/ AttachBuilds(n) \/ Cancel(n)
      PROVE  TypeOK'
  <2> USE DEF TypeOK, Calls, Goes, Locks, Releases, portVars
  <2>1. CASE NewNetwork(n) \/ NewNetworkFails(n)
    BY <2>1 DEF NewNetwork, NewNetworkFails
  <2>2. CASE Start(n) \/ StartBuilds(n) \/ Connected(n)
    BY <2>2 DEF Start, StartBuilds, Connected
  <2>3. CASE AttachNode(n) \/ AttachBuilds(n)
    BY <2>3 DEF AttachNode, AttachBuilds
  <2>4. CASE Return(n) \/ Cancel(n)
    BY <2>4 DEF Return, Cancel
  <2>5. QED BY <1>2, <2>1, <2>2, <2>3, <2>4
<1>3. ASSUME NEW n \in Networks, NewNetworkReturns(n) PROVE TypeOK'
  <2>1. PICK got : Taken(n, got)
    BY <1>3, MakeNodes DEF NewNetworkReturns
  <2>2. nodes' \in [Networks -> SUBSET SUBSET Ports]
    BY <1>3, MakeNodes DEF NewNetworkReturns
  <2>3. QED BY <1>3, <2>1, <2>2, TakenTypes DEF NewNetworkReturns, TypeOK, Calls, Goes
<1>4. ASSUME NEW n \in Networks, NodeAttached(n) PROVE TypeOK'
  <2>1. PICK got : Taken(n, got)
    BY <1>4, MakeNodes DEF NodeAttached
  <2>2. nodes' \in [Networks -> SUBSET SUBSET Ports]
    BY <1>4, MakeNodes DEF NodeAttached
  <2>3. listening' \in [Networks -> SUBSET Ports]
    BY <1>4, <2>1 DEF NodeAttached, Taken, TypeOK
  <2>4. QED BY <1>4, <2>1, <2>2, <2>3, TakenTypes DEF NodeAttached, TypeOK, Calls, Goes
<1>5. ASSUME NEW n \in Networks, HubStarts(n) PROVE TypeOK'
  <2>1. listening' \in [Networks -> SUBSET Ports]
    BY <1>5, UsedAreListed DEF HubStarts, TypeOK
  <2>2. QED BY <1>5, <2>1 DEF HubStarts, TypeOK, Calls, Goes, portVars
<1>6. ASSUME NEW n \in Networks, Stop(n) \/ ContextDone(n) PROVE TypeOK'
  <2>1. Name[n] \in Names
    BY NetworkAssumption
  <2>2. QED BY <1>6, <2>1 DEF Stop, ContextDone, Stops, HubStops, RemovePorts, TypeOK, Calls
<1>7. QED BY <1>1, <1>2, <1>3, <1>4, <1>5, <1>6 DEF Next, Proceed

-----------------------------------------------------------------------------
(* Nobody stops a network that is being started. *)

LEMMA StartsStep == TypeOK /\ StartsUnstopped /\ [Next]_vars => StartsUnstopped'
<1> SUFFICES ASSUME TypeOK, StartsUnstopped, [Next]_vars PROVE StartsUnstopped'
  OBVIOUS
<1> USE DEF StartsUnstopped, TypeOK, Goes, Locks, Releases
<1>1. CASE UNCHANGED vars
  BY <1>1 DEF vars, netVars
<1>2. ASSUME NEW n \in Networks, NewNetwork(n) \/ NewNetworkFails(n) \/ NewNetworkReturns(n)
      PROVE  StartsUnstopped'
  BY <1>2 DEF NewNetwork, NewNetworkFails, NewNetworkReturns
<1>3. ASSUME NEW n \in Networks, Start(n) \/ StartBuilds(n) \/ HubStarts(n) \/ Connected(n)
      PROVE  StartsUnstopped'
  BY <1>3 DEF Start, StartBuilds, HubStarts, Connected
<1>4. ASSUME NEW n \in Networks, AttachNode(n) \/ AttachBuilds(n) \/ NodeAttached(n) \/ Return(n)
      PROVE  StartsUnstopped'
  BY <1>4 DEF AttachNode, AttachBuilds, NodeAttached, Return
<1>5. ASSUME NEW n \in Networks, Stop(n) \/ ContextDone(n) \/ Cancel(n)
      PROVE  StartsUnstopped'
  BY <1>5 DEF Stop, ContextDone, Stops, HubStops, Cancel
<1>6. QED BY <1>1, <1>2, <1>3, <1>4, <1>5 DEF Next, Proceed

-----------------------------------------------------------------------------
(* What is said of ports, under each way they change hands. *)

PortsInv == NamesApart /\ PortsKept /\ ListeningIsReserved /\ PortsExclusive

\* Two networks with names of their own have no port in common.
LEMMA KeptApart ==
  ASSUME NamesApart, PortsKept, NEW n \in Networks, NEW m \in Networks, n # m,
         Sole(n), Sole(m), stopped[n] = "no", stopped[m] = "no"
  PROVE  usedPorts(n) \cap usedPorts(m) = {}
<1>1. Name[n] \in Names /\ Name[m] \in Names /\ Name[n] # Name[m]
  BY NetworkAssumption DEF Sole
<1>2. QED BY <1>1 DEF NamesApart, PortsKept

LEMMA PortsUntouched ==
  ASSUME PortsInv, UNCHANGED <<ports, portsByID, nodes, listening, stopped>>
  PROVE  PortsInv'
BY DEF PortsInv, NamesApart, PortsKept, ListeningIsReserved, PortsExclusive, usedPorts, Sole

\* makeNode takes ports for n, and a node of n listens on some of them, or none does.
LEMMA PortsTaken ==
  ASSUME TypeOK, PortsInv, NEW n \in Networks, NEW got, Taken(n, got), UNCHANGED stopped,
         NEW heard \in SUBSET got, listening' = [listening EXCEPT ![n] = @ \cup heard]
  PROVE  PortsInv'
<1>1. Name[n] \in Names
  BY NetworkAssumption
<1>2. \A a \in Names : portsByID'[a] = IF a = Name[n] THEN portsByID[a] \cup got ELSE portsByID[a]
  BY <1>1 DEF Taken, TypeOK
<1>3. \A m \in Networks :
        usedPorts(m)' = IF m = n THEN usedPorts(m) \cup got ELSE usedPorts(m)
  BY DEF Taken, usedPorts
<1>4. \A m \in Networks :
        listening'[m] = IF m = n THEN listening[m] \cup heard ELSE listening[m]
  BY DEF TypeOK
<1>5. \A m \in Networks : got \cap listening[m] = {}
  BY DEF Taken, Listening
<1>6. NamesApart'
  BY <1>2 DEF Taken, PortsInv, NamesApart
<1>7. PortsKept'
  <2>1. ASSUME NEW m \in Networks, Sole(m), stopped[m] = "no"
        PROVE  usedPorts(m)' \subseteq portsByID'[Name[m]]
    <3>1. usedPorts(m) \subseteq portsByID[Name[m]] /\ Name[m] \in Names
      BY <2>1, NetworkAssumption DEF PortsInv, PortsKept
    <3>2. QED BY <1>2, <1>3, <3>1
  <2>2. QED BY <2>1 DEF PortsKept, Sole
<1>8. ListeningIsReserved'
  <2>1. ASSUME NEW m \in Networks, Sole(m), stopped[m] # "failed"
        PROVE  listening'[m] \subseteq portsByID'[Name[m]]
    <3>1. listening[m] \subseteq portsByID[Name[m]] /\ Name[m] \in Names
      BY <2>1, NetworkAssumption DEF PortsInv, ListeningIsReserved
    <3>2. CASE m = n
      <4>1. listening'[n] = listening[n] \cup heard
        BY <1>4
      <4>2. portsByID'[Name[n]] = portsByID[Name[n]] \cup got
        BY <1>1, <1>2
      <4>3. QED BY <3>1, <3>2, <4>1, <4>2
    <3>3. CASE m # n
      BY <1>2, <1>4, <3>1, <3>3
    <3>4. QED BY <3>2, <3>3
  <2>2. QED BY <2>1 DEF ListeningIsReserved, Sole
<1>9. PortsExclusive'
  <2>1. ASSUME NEW m \in Networks, NEW k \in Networks, m # k, Sole(m), Sole(k), stopped[m] = "no"
        PROVE  usedPorts(m)' \cap listening'[k] = {}
    <3>1. usedPorts(m) \cap listening[k] = {}
      BY <2>1 DEF PortsInv, PortsExclusive
    <3>2. usedPorts(m) \cap got = {}
      <4>1. usedPorts(m) \subseteq portsByID[Name[m]] /\ Name[m] \in Names
        BY <2>1, NetworkAssumption DEF PortsInv, PortsKept
      <4>2. QED BY <4>1 DEF PortsInv, NamesApart, Taken
    <3>3. QED BY <1>3, <1>4, <1>5, <2>1, <3>1, <3>2
  <2>2. ASSUME NEW m \in Networks, NEW k \in Networks, m # k, Sole(m), Sole(k),
               stopped'[m] = "no", stopped'[k] = "no"
        PROVE  usedPorts(m)' \cap usedPorts(k)' = {}
    <3>1. Name[m] \in Names /\ Name[k] \in Names /\ Name[m] # Name[k]
      BY <2>2, NetworkAssumption DEF Sole
    <3>2. /\ usedPorts(m)' \subseteq portsByID'[Name[m]]
          /\ usedPorts(k)' \subseteq portsByID'[Name[k]]
      BY <1>7, <2>2 DEF PortsKept, Sole
    <3>3. QED BY <1>6, <3>1, <3>2 DEF NamesApart
  <2>3. QED BY <2>1, <2>2 DEF PortsExclusive, Sole
<1>10. QED BY <1>6, <1>7, <1>8, <1>9 DEF PortsInv

\* The hub starts nodes of a network that was not stopped.
LEMMA PortsListened ==
  ASSUME TypeOK, PortsInv, NEW n \in Networks, stopped[n] = "no", NEW heard \in SUBSET usedPorts(n),
         listening' = [listening EXCEPT ![n] = heard] \/ listening' = [listening EXCEPT ![n] = @ \cup heard],
         UNCHANGED <<ports, portsByID, nodes, stopped>>
  PROVE  PortsInv'
<1>1. \A m \in Networks :
        /\ m # n => listening'[m] = listening[m]
        /\ listening'[m] \subseteq listening[m] \cup usedPorts(m)
        /\ stopped[m] # "no" => listening'[m] = listening[m]
  BY DEF TypeOK
<1>2. NamesApart' /\ PortsKept'
  BY DEF PortsInv, NamesApart, PortsKept, usedPorts, Sole
<1>3. ListeningIsReserved'
  <2>1. ASSUME NEW m \in Networks, Sole(m), stopped[m] # "failed"
        PROVE  listening'[m] \subseteq portsByID[Name[m]]
    BY <1>1, <2>1 DEF PortsInv, PortsKept, ListeningIsReserved
  <2>2. QED BY <2>1 DEF ListeningIsReserved, Sole
<1>4. PortsExclusive'
  <2>1. ASSUME NEW m \in Networks, NEW k \in Networks, m # k, Sole(m), Sole(k), stopped[m] = "no"
        PROVE  usedPorts(m) \cap listening'[k] = {}
    BY <1>1, <2>1, KeptApart DEF PortsInv, PortsExclusive
  <2>2. QED BY <2>1 DEF PortsInv, PortsExclusive, Sole, usedPorts
<1>5. QED BY <1>2, <1>3, <1>4 DEF PortsInv

\* Stop gives the ports back, with the nodes stopped or not.
LEMMA PortsGivenBack ==
  ASSUME TypeOK, PortsInv, NEW n \in Networks, HubStops(n), RemovePorts(Name[n]), UNCHANGED nodes
  PROVE  PortsInv'
<1>1. Name[n] \in Names
  BY NetworkAssumption
<1>2. /\ ports' = ports \ portsByID[Name[n]]
      /\ \A a \in Names : portsByID'[a] = IF a = Name[n] THEN {} ELSE portsByID[a]
  BY <1>1 DEF RemovePorts, TypeOK
<1>3. \A m \in Networks :
        /\ m # n => stopped'[m] = stopped[m] /\ listening'[m] = listening[m]
        /\ stopped'[n] # "no" /\ listening'[m] \subseteq listening[m]
        /\ stopped'[n] # "failed" => listening'[n] = {}
  BY DEF HubStops, TypeOK
<1>4. NamesApart'
  BY <1>1, <1>2 DEF PortsInv, NamesApart
<1>5. \A m \in Networks : m # n /\ Sole(m) => portsByID'[Name[m]] = portsByID[Name[m]]
  BY <1>2, NetworkAssumption DEF Sole
<1>6. PortsKept'
  BY <1>3, <1>5 DEF PortsInv, PortsKept, Sole, usedPorts
<1>7. ListeningIsReserved'
  BY <1>3, <1>5 DEF PortsInv, ListeningIsReserved, Sole
<1>8. PortsExclusive'
  <2>1. ASSUME NEW m \in Networks, NEW k \in Networks, m # k, Sole(m), Sole(k), stopped'[m] = "no"
        PROVE  /\ usedPorts(m) \cap listening'[k] = {}
               /\ stopped'[k] = "no" => usedPorts(m) \cap usedPorts(k) = {}
    BY <1>3, <2>1 DEF PortsInv, PortsExclusive
  <2>2. QED BY <2>1 DEF PortsExclusive, Sole, usedPorts
<1>9. QED BY <1>4, <1>6, <1>7, <1>8 DEF PortsInv

LEMMA PortsStep == TypeOK /\ StartsUnstopped /\ PortsInv /\ [Next]_vars => PortsInv'
<1> SUFFICES ASSUME TypeOK, StartsUnstopped, PortsInv, [Next]_vars PROVE PortsInv'
  OBVIOUS
<1>1. CASE UNCHANGED vars
  BY <1>1, PortsUntouched DEF vars, netVars, portVars
<1>2. ASSUME NEW n \in Networks,
             \/ NewNetwork(n) \/ NewNetworkFails(n) \/ Start(n) \/ StartBuilds(n)
             \/ Connected(n) \/ Return(n) \/ AttachNode(n) \/ AttachBuilds(n) \/ Cancel(n)
      PROVE  PortsInv'
  <2>1. UNCHANGED <<ports, portsByID, nodes, listening, stopped>>
    BY <1>2 DEF NewNetwork, NewNetworkFails, Start, StartBuilds, Connected, Return, AttachNode,
                AttachBuilds, Cancel, portVars
  <2>2. QED BY <2>1, PortsUntouched
<1>3. ASSUME NEW n \in Networks, NewNetworkReturns(n) PROVE PortsInv'
  <2>1. PICK got : Taken(n, got)
    BY <1>3, MakeNodes DEF NewNetworkReturns
  <2>2. listening' = [listening EXCEPT ![n] = @ \cup {}] /\ UNCHANGED stopped
    BY <1>3 DEF NewNetworkReturns, TypeOK
  <2>3. QED BY <2>1, <2>2, {} \in SUBSET got, PortsTaken
<1>4. ASSUME NEW n \in Networks, NodeAttached(n) PROVE PortsInv'
  <2>1. PICK got : Taken(n, got)
    BY <1>4, MakeNodes DEF NodeAttached
  <2>2. PICK heard \in SUBSET got : listening' = [listening EXCEPT ![n] = @ \cup heard]
    <3>1. CASE UNCHANGED listening
      BY <3>1, listening' = [listening EXCEPT ![n] = @ \cup {}] DEF TypeOK
    <3>2. CASE listening' = [listening EXCEPT ![n] = @ \cup UNION (nodes'[n] \ nodes[n])]
      BY <2>1, <3>2 DEF Taken
    <3>3. QED BY <1>4, <3>1, <3>2 DEF NodeAttached
  <2>3. UNCHANGED stopped
    BY <1>4 DEF NodeAttached
  <2>4. QED BY <2>1, <2>2, <2>3, PortsTaken
<1>5. ASSUME NEW n \in Networks, HubStarts(n) PROVE PortsInv'
  <2>1. stopped[n] = "no" /\ UNCHANGED <<ports, portsByID, nodes, stopped>>
    BY <1>5 DEF HubStarts, StartsUnstopped, portVars
  <2>2. PICK heard \in SUBSET usedPorts(n) :
          \/ listening' = [listening EXCEPT ![n] = heard]
          \/ listening' = [listening EXCEPT ![n] = @ \cup heard]
    BY <1>5, UsedAreListed DEF HubStarts
  <2>3. QED BY <2>1, <2>2, PortsListened
<1>6. ASSUME NEW n \in Networks, Stop(n) \/ ContextDone(n) PROVE PortsInv'
  BY <1>6, PortsGivenBack DEF Stop, ContextDone, Stops
<1>7. QED BY <1>1, <1>2, <1>3, <1>4, <1>5, <1>6 DEF Next, Proceed

-----------------------------------------------------------------------------
LEMMA InvariantHolds == Spec => []IInv
<1>1. Init => IInv
  BY InitInv
<1>2. IInv /\ [Next]_vars => IInv'
  BY TypeStep, StartsStep, PortsStep DEF IInv, PortsInv
<1>3. QED BY <1>1, <1>2, PTL DEF Spec

\* Every field keeps its type, with any number of networks and ports.
THEOREM NetworkTypeCorrect == Spec => []TypeOK
<1>1. IInv => TypeOK
  BY DEF IInv
<1>2. QED BY <1>1, InvariantHolds, PTL

\* Networks with names of their own never get each other's ports, whatever fails to
\* stop and is attached late.
THEOREM PortsNeverShared == Spec => []PortsExclusive
<1>1. IInv => PortsExclusive
  BY DEF IInv
<1>2. QED BY <1>1, InvariantHolds, PTL

\* A port is reserved as long as a node that is not beyond control listens on it.
THEOREM ListeningStaysReserved == Spec => []ListeningIsReserved
<1>1. IInv => ListeningIsReserved
  BY DEF IInv
<1>2. QED BY <1>1, InvariantHolds, PTL
==============================================================================
