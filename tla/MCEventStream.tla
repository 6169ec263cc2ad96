--------------------------- MODULE MCEventStream ---------------------------
(***************************************************************************)
(* What the console is shown of the cluster, in one run: the live stream   *)
(* and the feed, the lists of the resources, the nodes and their health,   *)
(* the Kubernetes backend, and the readings of telemetry and metrics.  The *)
(* five modules share no state, so their interleavings tell nothing: the   *)
(* run explores each by itself, chosen by "part", with the others at rest. *)
(***************************************************************************)
EXTENDS EventStream, ClusterNodes, SwarmResources, Kubernetes, Readings, TLC

VARIABLE part

mcVars == <<streamVars, nodeVars, swarmVars, kubeVars, readVars, part>>

MCInit ==
  /\ part \in {"stream", "nodes", "lists", "kubernetes", "readings"}
  /\ StreamInit /\ ResourcesInit /\ KubeInit
  /\ NodesInit /\ (part # "nodes" => \A n \in Nodes : rank[n] = "manager")
  /\ ReadingsInit /\ (part # "readings" => telemetry = FALSE)

MCNext ==
  /\ UNCHANGED part
  /\ \/ /\ part = "stream" /\ StreamNext
        /\ UNCHANGED <<nodeVars, swarmVars, kubeVars, readVars>>
     \/ /\ part = "nodes" /\ NodesNext
        /\ UNCHANGED <<streamVars, swarmVars, kubeVars, readVars>>
     \/ /\ part = "lists" /\ ResourcesNext
        /\ UNCHANGED <<streamVars, nodeVars, kubeVars, readVars>>
     \/ /\ part = "kubernetes" /\ KubeNext
        /\ UNCHANGED <<streamVars, nodeVars, swarmVars, readVars>>
     \/ /\ part = "readings" /\ ReadingsNext
        /\ UNCHANGED <<streamVars, nodeVars, swarmVars, kubeVars>>

MCSpec == MCInit /\ [][MCNext]_mcVars

ClusterTypeOK ==
  /\ TypeOK /\ StreamTypeOK
  /\ NodesTypeOK /\ ResourcesTypeOK /\ KubeTypeOK /\ ReadingsTypeOK

(* The lists of either backend.                                             *)
ListsSound == SwarmListsSound /\ KubernetesSound

HostNames == "m1" :> "alpha" @@ "m2" :> "beta"
ListedServices ==
  {[id |-> "web", stack |-> "shop", replicas |-> 1, global |-> FALSE],
   [id |-> "agent", stack |-> "none", replicas |-> 0, global |-> TRUE]}
ServicesOfTasks == "t1" :> "web" @@ "t2" :> "agent"

(* A Deployment named like the beginning of another's name; a workload that *)
(* comes before its Namespace document; a ReplicaSet by itself that is      *)
(* named like a Deployment's, a job named like a Deployment.                *)
Doc(kind, ns, name) == [kind |-> kind, ns |-> ns, name |-> name, body |-> "given"]
SmallManifests ==
  {<<NullDoc, Doc("Deployment", "", <<"web">>), Doc("Deployment", "", <<"web", "api">>)>>,
   <<Doc("StatefulSet", "", <<"web">>), Doc("Namespace", "", <<"shop">>)>>,
   <<NullDoc>>, <<BadDoc>>}
SmallStrays ==
  {NullDoc, [kind |-> "ReplicaSet", name |-> <<"web", "api">>], [kind |-> "Job", name |-> <<"web">>]}

Symmetry == Permutations(Tokens) \union Permutations(Requests) \union Permutations(Applies)

(* Nodes flicker only while no request has one inspected, which looks at    *)
(* neither; tasks and nodes move only while there are no resources; one pod *)
(* at a time runs, while no manifest is being applied or was refused;       *)
(* InfluxDB fails and tasks end only while the disk has no samples, which   *)
(* concern neither; the days pass only while there are no samples, up to    *)
(* three snapshots; two overviews overlap about the first midnight, later   *)
(* ones take no time.                                                       *)
SmallParts ==
  /\ (\E r \in NodeRequests : nodeReq[r] # NodeIdle) =>
       \A n \in Nodes : node[n].ready /\ node[n].reachable
  /\ (resources # {} \/ creating # NotCreating) =>
       Tasks = {} /\ machines = Machines /\ mapping = NotMapping
  /\ Cardinality(pods) <= 1
  /\ pods # {} => \A r \in Applies : apply[r].pc \in {"idle", "true"}
  /\ (taskState # "running" \/ ~influxUp) => Raw("disk") = <<>>
  /\ LET under == {r \in Viewers : recording[r].pc # "idle"}
     IN halfDay > 2 => \A r \in under : r = (CHOOSE v \in Viewers : TRUE) /\ recording[r].began = halfDay
  /\ (halfDay > 0 \/ snapshots # {} \/ \E r \in Viewers : recording[r].pc # "idle") =>
       ~telemetry /\ taskState = "running" /\ \A m \in Measurements : Raw(m) = <<>>
  /\ Cardinality(snapshots) <= 3
=============================================================================
