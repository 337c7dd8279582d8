------------------------------- MODULE Network -------------------------------
(***************************************************************************)
(* hayabusa.Network: networks of node processes on this host, built,       *)
(* started, extended and stopped by their callers, several of them in one  *)
(* process (the tests run in parallel).  Each network has a mutex, all     *)
(* share buildMutex, and Start leaves a goroutine behind that stops the    *)
(* network when its context is done.                                       *)
(*                                                                         *)
(* External: the node processes, and the hub client that starts and stops  *)
(* them, which may fail.                                                   *)
(***************************************************************************)
EXTENDS PortManager

CONSTANTS Networks,
          Name,          \* the name of a network
          PortsPerNode,  \* an API and a P2P port: 2
          Nodes,         \* Config.Nodes
          Extended       \* the networks that are extended, by one node

ASSUME NetworkAssumption ==
  /\ Name \in [Networks -> Names]
  /\ {PortsPerNode, Nodes} \subseteq Nat /\ Extended \subseteq Networks

VARIABLES
  call,        \* what the network's caller is doing, or "" when it does nothing
  exists,      \* has NewNetwork returned a network?
  mu, build,   \* who holds n.mu, and the network for which buildMutex is held
  nodes,       \* the ports of each node in n.nodes
  listening,   \* the ports the network's processes listen on
  watcher,     \* the goroutine of Start: none, waiting or done
  cancelled,   \* is the network's context done?
  stopped,     \* how Stop ended last: no, ok or failed
  late         \* was a node attached after a Stop?

netVars == <<call, exists, mu, build, nodes, listening, watcher, cancelled, stopped, late>>
vars == <<portVars, netVars>>

All(x) == [n \in Networks |-> x]

Init ==
  /\ PortsInit
  /\ call = All("") /\ exists = All(FALSE)
  /\ mu = All("free") /\ build = "free"
  /\ nodes = All({}) /\ listening = All({})
  /\ watcher = All("none") /\ cancelled = All(FALSE)
  /\ stopped = All("no") /\ late = All(FALSE)

Listening == UNION {listening[n] : n \in Networks}
usedPorts(n) == UNION nodes[n]

Goes(n, place) == call' = [call EXCEPT ![n] = place]
Locks(n, who) == mu[n] = "free" /\ mu' = [mu EXCEPT ![n] = who]
Releases(n) == mu' = [mu EXCEPT ![n] = "free"]

\* The ports of k new nodes, taken by makeNode one after the other.
makeNodes(n, k) ==
  \E new \in SUBSET SUBSET Ports :
    /\ Cardinality(new) = k
    /\ \A p \in new : Cardinality(p) = PortsPerNode
    /\ \A p, q \in new : p = q \/ p \cap q = {}
    /\ NewPorts(Name[n], UNION new, Listening)
    /\ nodes' = [nodes EXCEPT ![n] = @ \cup new]

-----------------------------------------------------------------------------
(* NewNetwork: everything under buildMutex. *)

NewNetwork(n) ==
  /\ call[n] = "" /\ ~exists[n] /\ build = "free"
  /\ build' = n /\ Goes(n, "new")
  /\ UNCHANGED <<portVars, exists, mu, nodes, listening, watcher, cancelled, stopped, late>>

\* The configuration is refused, or thor cannot be built.
NewNetworkFails(n) ==
  /\ call[n] = "new"
  /\ build' = "free" /\ Goes(n, "")
  /\ UNCHANGED <<portVars, exists, mu, nodes, listening, watcher, cancelled, stopped, late>>

NewNetworkReturns(n) ==
  /\ call[n] = "new"
  /\ makeNodes(n, Nodes)
  /\ exists' = [exists EXCEPT ![n] = TRUE]
  /\ build' = "free" /\ Goes(n, "")
  /\ UNCHANGED <<mu, listening, watcher, cancelled, stopped, late>>

-----------------------------------------------------------------------------
(* Start: n.mu, then buildMutex, held until all nodes have found each other.  *)

Start(n) ==
  /\ call[n] = "" /\ exists[n] /\ watcher[n] = "none" /\ stopped[n] = "no"
  /\ Locks(n, "caller") /\ Goes(n, "start")
  /\ UNCHANGED <<portVars, exists, build, nodes, listening, watcher, cancelled, stopped, late>>

StartBuilds(n) ==
  /\ call[n] = "start" /\ build = "free"
  /\ build' = n /\ Goes(n, "starting")
  /\ watcher' = [watcher EXCEPT ![n] = "waiting"]
  /\ UNCHANGED <<portVars, exists, mu, nodes, listening, cancelled, stopped, late>>

\* The hub starts every node, or fails with some of them running.
HubStarts(n) ==
  /\ call[n] = "starting"
  /\ \/ /\ usedPorts(n) \cap (Listening \ listening[n]) = {}
        /\ listening' = [listening EXCEPT ![n] = usedPorts(n)]
        /\ Goes(n, "connecting")
     \/ /\ \E running \in SUBSET nodes[n] :
             /\ UNION running \cap (Listening \ listening[n]) = {}
             /\ listening' = [listening EXCEPT ![n] = @ \cup UNION running]
        /\ Goes(n, "return")
  /\ UNCHANGED <<portVars, exists, mu, build, nodes, watcher, cancelled, stopped, late>>

\* HealthCheck of each node and WaitForPeersConnection: connected, too many peers,
\* a node that does not answer, five minutes over, or the context done.
Connected(n) ==
  /\ call[n] = "connecting" /\ Goes(n, "return")
  /\ UNCHANGED <<portVars, exists, mu, build, nodes, listening, watcher, cancelled, stopped, late>>

\* Fault: buildMutex is not released.
ReturnBuilding(n) ==
  /\ call[n] = "return" /\ Releases(n) /\ Goes(n, "")
  /\ UNCHANGED <<portVars, exists, build, nodes, listening, watcher, cancelled, stopped, late>>

\* Start and AttachNode return, with or without an error.
Return(n) ==
  /\ call[n] = "return"
  /\ Releases(n) /\ build' = "free" /\ Goes(n, "")
  /\ UNCHANGED <<portVars, exists, nodes, listening, watcher, cancelled, stopped, late>>

-----------------------------------------------------------------------------
(* AttachNode, which does not look at the context. *)

\* Fault: the two mutexes are taken the other way round.
AttachNodeCrossed(n) ==
  /\ call[n] = "" /\ exists[n] /\ n \in Extended /\ Cardinality(nodes[n]) = Nodes
  /\ build = "free" /\ build' = n /\ Goes(n, "crossed")
  /\ UNCHANGED <<portVars, exists, mu, nodes, listening, watcher, cancelled, stopped, late>>

AttachNode(n) ==
  /\ call[n] = "" /\ exists[n] /\ n \in Extended /\ Cardinality(nodes[n]) = Nodes
  /\ Locks(n, "caller") /\ Goes(n, "attach")
  /\ UNCHANGED <<portVars, exists, build, nodes, listening, watcher, cancelled, stopped, late>>

AttachBuilds(n) ==
  /\ call[n] = "attach" /\ build = "free"
  /\ build' = n
  /\ \/ Goes(n, "attaching") \/ Goes(n, "return")  \* thor cannot be built
  /\ UNCHANGED <<portVars, exists, mu, nodes, listening, watcher, cancelled, stopped, late>>

\* makeNode; then AddNode starts the node, or fails.
NodeAttached(n) ==
  /\ call[n] = "attaching" /\ Goes(n, "return")
  /\ makeNodes(n, 1)
  /\ \/ UNCHANGED listening
     \/ listening' = [listening EXCEPT ![n] = @ \cup UNION (nodes'[n] \ nodes[n])]
  /\ late' = [late EXCEPT ![n] = @ \/ stopped[n] # "no"]
  /\ UNCHANGED <<exists, mu, build, watcher, cancelled, stopped>>

-----------------------------------------------------------------------------
(* Stop, from the caller or from the goroutine. *)

\* The hub stops the nodes, or fails and leaves them.
HubStops(n) ==
  \/ listening' = [listening EXCEPT ![n] = {}] /\ stopped' = [stopped EXCEPT ![n] = "ok"]
  \/ UNCHANGED listening /\ stopped' = [stopped EXCEPT ![n] = "failed"]

\* Fault: Stop returns early when the hub fails.
StopsOrGivesUp(n) ==
  /\ HubStops(n)
  /\ IF stopped'[n] = "ok" THEN RemovePorts(Name[n]) ELSE UNCHANGED portVars
  /\ UNCHANGED <<exists, build, nodes, cancelled, late>>

\* The ports go in any case.
Stops(n) ==
  /\ HubStops(n) /\ RemovePorts(Name[n])
  /\ UNCHANGED <<exists, build, nodes, cancelled, late>>

Stop(n) ==
  /\ call[n] = "" /\ exists[n] /\ stopped[n] = "no"
  /\ mu[n] = "free" /\ UNCHANGED <<mu, call, watcher>>
  /\ Stops(n)

\* Fault: the goroutine does not wait for the mutex.
ContextDoneUnlocked(n) ==
  /\ watcher[n] = "waiting" /\ cancelled[n] /\ UNCHANGED <<mu, call>>
  /\ watcher' = [watcher EXCEPT ![n] = "done"]
  /\ Stops(n)

ContextDone(n) ==
  /\ watcher[n] = "waiting" /\ cancelled[n]
  /\ mu[n] = "free" /\ UNCHANGED <<mu, call>>
  /\ watcher' = [watcher EXCEPT ![n] = "done"]
  /\ Stops(n)

Cancel(n) ==
  /\ ~cancelled[n] /\ cancelled' = [cancelled EXCEPT ![n] = TRUE]
  /\ UNCHANGED <<portVars, call, exists, mu, build, nodes, listening, watcher, stopped, late>>

-----------------------------------------------------------------------------
\* What goes on by itself once it has begun.
Proceed(n) ==
  \/ NewNetworkFails(n) \/ NewNetworkReturns(n)
  \/ StartBuilds(n) \/ HubStarts(n) \/ Connected(n)
  \/ AttachBuilds(n) \/ NodeAttached(n) \/ Return(n)

Next ==
  \E n \in Networks :
    \/ NewNetwork(n) \/ Start(n) \/ AttachNode(n) \/ Stop(n) \/ Cancel(n)
    \/ Proceed(n) \/ ContextDone(n)

Spec == Init /\ [][Next]_vars

\* What has begun goes on, and whoever waits for a mutex gets it: sync.Mutex hands
\* itself to a waiter it has kept waiting.
FairSpec ==
  /\ Spec
  /\ \A n \in Networks :
       /\ WF_vars(Proceed(n))
       /\ SF_vars(StartBuilds(n)) /\ SF_vars(AttachBuilds(n)) /\ SF_vars(ContextDone(n))

-----------------------------------------------------------------------------
Calls == {"", "new", "start", "starting", "connecting", "attach", "attaching", "return"}

TypeOK ==
  /\ ports \subseteq Ports /\ portsByID \in [Names -> SUBSET Ports]
  /\ call \in [Networks -> Calls] /\ exists \in [Networks -> BOOLEAN]
  /\ mu \in [Networks -> {"free", "caller"}] /\ build \in Networks \cup {"free"}
  /\ nodes \in [Networks -> SUBSET SUBSET Ports] /\ listening \in [Networks -> SUBSET Ports]
  /\ watcher \in [Networks -> {"none", "waiting", "done"}]
  /\ cancelled \in [Networks -> BOOLEAN] /\ late \in [Networks -> BOOLEAN]
  /\ stopped \in [Networks -> {"no", "ok", "failed"}]

\* Ports are given back by name: what follows is said of networks whose name is theirs alone.
Sole(n) == \A k \in Networks : Name[k] = Name[n] => k = n

\* Networks never get in each other's way: one that has not been stopped has its
\* ports to itself, whatever was stopped, failed to stop or was attached elsewhere
\* ("bind: address already in use", port_manager.go).
PortsExclusive ==
  \A n, m \in Networks :
    n # m /\ Sole(n) /\ Sole(m) /\ stopped[n] = "no" =>
      /\ usedPorts(n) \cap listening[m] = {}
      /\ stopped[m] = "no" => usedPorts(n) \cap usedPorts(m) = {}

\* A port a node listens on is reserved as long as it does, so that nobody is given
\* it between two probes; only a Stop that failed breaks this (Stop, RemovePorts).
ListeningIsReserved ==
  \A n \in Networks :
    Sole(n) /\ stopped[n] # "failed" => listening[n] \subseteq portsByID[Name[n]]

\* A network that was started is stopped when its context is done, whatever Start is
\* doing then, and its ports come back even if the nodes refuse to stop; only a node
\* attached later stays (Start's goroutine, which waits for the mutex Start holds).
CancelReleases ==
  \A n \in Networks :
    (watcher[n] # "none" /\ cancelled[n])
      ~> \/ late[n]
         \/ portsByID[Name[n]] = {} /\ (stopped[n] = "ok" => listening[n] = {})

\* Every call comes back: no order of the mutexes and of Stop in the background
\* leaves one waiting (Start, AttachNode, NewNetwork).
CallsReturn == \A n \in Networks : call[n] # "" ~> call[n] = ""
==============================================================================
