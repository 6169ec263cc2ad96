----------------------------- MODULE ClusterNodes -----------------------------
(***************************************************************************)
(* The nodes of the cluster: their availability, set through the API, and  *)
(* the cluster's health, derived from the node list.                       *)
(*                                                                         *)
(* Managers fail, come back, are promoted and demoted by others while a    *)
(* request that drains or activates one has inspected it and not sent its  *)
(* update yet.  The health is what the sidebar shows: it must not look     *)
(* well when the managers have lost their quorum.                          *)
(***************************************************************************)
EXTENDS Integers, FiniteSets

CONSTANTS
  Nodes,
  NodeRequests,   (* slots for setNodeAvailability requests in flight      *)
  MaxNodeIndex    (* bound on the writes of nodes to the engine's store    *)

ASSUME NodesAssumption == IsFiniteSet(Nodes)
ASSUME NodeIndexAssumption == MaxNodeIndex \in Nat

VARIABLES
  node,     (* node -> what the engine holds of it                          *)
  nodeIndex,(* the index of the store's last write of a node                *)
  rank,     (* node -> the role an administrator gave it last (history)     *)
  nodeReq   (* the setNodeAvailability requests in flight                   *)

nodeVars == <<node, nodeIndex, rank, nodeReq>>

Roles == {"manager", "worker"}

(* What the API sets, and what docker node update sets besides.             *)
ApiAvailabilities == {"active", "drain"}
Availabilities == ApiAvailabilities \union {"pause"}

Node == [role : Roles, availability : Availabilities,
         ready : BOOLEAN, reachable : BOOLEAN, version : Nat]

NodeIdle == [pc |-> "idle"]
NodeUpdate ==
  [pc : {"update"}, id : Nodes, version : Nat,
   role : Roles, availability : ApiAvailabilities]

-----------------------------------------------------------------------------
(* cluster-health.ts                                                        *)

(* Mutant: half of the managers are taken for a quorum.                     *)
QuorumSizeHalf(n) == IF n <= 0 THEN 0 ELSE (n + 1) \div 2

QuorumSize(n) == IF n <= 0 THEN 0 ELSE n \div 2 + 1

Managers == {n \in Nodes : node[n].role = "manager"}

(* A paused node is ready: only the value "drain" is asked for.             *)
IsNodeReady(n) == node[n].availability # "drain" /\ node[n].ready
IsManagerReady(n) == IsNodeReady(n) /\ node[n].reachable
ReadyManagers == {n \in Managers : IsManagerReady(n)}

EvaluateClusterHealth ==
  IF Managers = {} THEN "unknown"
  ELSE IF Cardinality(ReadyManagers) < QuorumSize(Cardinality(Managers))
         THEN "unhealthy"
  ELSE IF \A n \in Nodes : IsNodeReady(n) THEN "healthy"
  ELSE "degraded"

(* On Kubernetes a control-plane node counts as a manager, a cordoned one   *)
(* as a ready one, and a cluster without any is not unknown.                *)
ReadyControlPlane == {n \in Managers : node[n].ready}

EvaluateKubeClusterHealth ==
  IF Nodes = {} THEN "unknown"
  ELSE IF Managers # {} /\ Cardinality(ReadyControlPlane) < QuorumSize(Cardinality(Managers))
         THEN "unhealthy"
  ELSE IF \A n \in Nodes : IsNodeReady(n) THEN "healthy"
  ELSE "degraded"

-----------------------------------------------------------------------------

NodesInit ==
  /\ rank \in [Nodes -> Roles]
  /\ node = [n \in Nodes |->
       [role |-> rank[n], availability |-> "active", ready |-> TRUE,
        reachable |-> TRUE, version |-> 0]]
  /\ nodeIndex = 0
  /\ nodeReq = [r \in NodeRequests |-> NodeIdle]

(* A node's state and its place in the quorum change by themselves.         *)
Flicker(n) ==
  /\ \/ node' = [node EXCEPT ![n].ready = ~@]
     \/ node' = [node EXCEPT ![n].reachable = ~@]
  /\ UNCHANGED <<nodeIndex, rank, nodeReq>>

(* The engine writes a node's spec under the next index.                    *)
WriteNode(n, role, availability) ==
  /\ nodeIndex < MaxNodeIndex
  /\ nodeIndex' = nodeIndex + 1
  /\ node' = [node EXCEPT ![n] =
       [role |-> role, availability |-> availability, ready |-> node[n].ready,
        reachable |-> node[n].reachable, version |-> nodeIndex + 1]]

(* docker node promote and demote.                                          *)
GiveRole(n) ==
  /\ \E role \in Roles :
       /\ WriteNode(n, role, node[n].availability)
       /\ rank' = [rank EXCEPT ![n] = role]
  /\ UNCHANGED nodeReq

(* docker node update --availability.                                       *)
GiveAvailability(n) ==
  /\ \E availability \in Availabilities : WriteNode(n, node[n].role, availability)
  /\ UNCHANGED <<rank, nodeReq>>

(* setNodeAvailability inspects the node.                                   *)
InspectNode(r) ==
  /\ nodeReq[r].pc = "idle"
  /\ \E n \in Nodes, availability \in ApiAvailabilities :
       nodeReq' = [nodeReq EXCEPT ![r] =
         [pc |-> "update", id |-> n, version |-> node[n].version,
          role |-> node[n].role, availability |-> availability]]
  /\ UNCHANGED <<node, nodeIndex, rank>>

(* Mutant: the version is asked for again when the update is sent.          *)
NodeVersionLatest(r) == node[nodeReq[r].id].version

NodeVersion(r) == nodeReq[r].version

(* The update carries the whole inspected spec.                             *)
UpdateNode(r) ==
  /\ nodeReq[r].pc = "update"
  /\ LET n == nodeReq[r].id IN
       /\ node[n].version = NodeVersion(r)
       /\ WriteNode(n, nodeReq[r].role, nodeReq[r].availability)
  /\ nodeReq' = [nodeReq EXCEPT ![r] = NodeIdle]
  /\ UNCHANGED rank

(* The engine refuses the update of a node written since: an error.         *)
UpdateNodeRefused(r) ==
  /\ nodeReq[r].pc = "update"
  /\ node[nodeReq[r].id].version # NodeVersion(r)
  /\ nodeReq' = [nodeReq EXCEPT ![r] = NodeIdle]
  /\ UNCHANGED <<node, nodeIndex, rank>>

NodesNext ==
  \/ \E n \in Nodes : Flicker(n) \/ GiveRole(n) \/ GiveAvailability(n)
  \/ \E r \in NodeRequests :
       InspectNode(r) \/ UpdateNode(r) \/ UpdateNodeRefused(r)

NodesSpec == NodesInit /\ [][NodesNext]_nodeVars

-----------------------------------------------------------------------------

NodesTypeOK ==
  /\ node \in [Nodes -> Node]
  /\ nodeIndex \in Nat
  /\ rank \in [Nodes -> Roles]
  /\ nodeReq \in [NodeRequests -> NodeUpdate \union {NodeIdle}]

(* Draining or activating a node never undoes a promotion or a demotion     *)
(* made while the request was in flight (docker/engine.ts:364-370).         *)
RolesStay == \A n \in Nodes : node[n].role = rank[n]

(* Any two sets of managers this large have one in common.                  *)
Majority(S) == 2 * Cardinality(S) > Cardinality(Managers)

(* The cluster is shown as healthy or degraded only while a majority of its *)
(* managers is ready and reachable (cluster-health.ts:15, "Swarm Raft       *)
(* quorum: floor(n/2) + 1 managers must be ready and reachable"), and as    *)
(* healthy only while every node is up and none is drained.  It may be      *)
(* healthy while nodes are paused, which take no new tasks either.          *)
HealthTellsQuorum ==
  /\ EvaluateClusterHealth \in {"healthy", "degraded"} =>
       Managers # {} /\ Majority({n \in Managers : node[n].ready /\ node[n].reachable})
  /\ EvaluateKubeClusterHealth \in {"healthy", "degraded"} =>
       Managers = {} \/ Majority({n \in Managers : node[n].ready})
  /\ "healthy" \in {EvaluateClusterHealth, EvaluateKubeClusterHealth} =>
       \A n \in Nodes : node[n].ready /\ node[n].availability # "drain"

NodesSound == RolesStay /\ HealthTellsQuorum
=============================================================================
