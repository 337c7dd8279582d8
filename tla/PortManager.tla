----------------------------- MODULE PortManager -----------------------------
(***************************************************************************)
(* hayabusa.PortManager: the ports this process has handed out, and to     *)
(* which network name.  Each method holds pm.mu.                           *)
(***************************************************************************)
EXTENDS FiniteSets, Naturals

CONSTANTS Ports,  \* minPort..maxPort
          Names   \* Config.Name of the networks

VARIABLES ports,      \* pm.ports
          portsByID   \* pm.portsByID

portVars == <<ports, portsByID>>

PortsInit == ports = {} /\ portsByID = [id \in Names |-> {}]

\* Fault: the map of ports handed out is not looked at.
rndPortProbed(listening) == Ports \ listening

\* rndPort may come to any port that is neither handed out nor, as the probe of
\* isPortAvailable shows, listened on.
rndPort(listening) == Ports \ (ports \cup listening)

\* NewPort, once for each port of new.  With too few free ports it panics.
NewPorts(id, new, listening) ==
  /\ new \subseteq rndPort(listening)
  /\ ports' = ports \cup new
  /\ portsByID' = [portsByID EXCEPT ![id] = @ \cup new]

RemovePorts(id) ==
  /\ ports' = ports \ portsByID[id]
  /\ portsByID' = [portsByID EXCEPT ![id] = {}]
==============================================================================
