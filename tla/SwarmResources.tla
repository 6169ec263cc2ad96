---------------------------- MODULE SwarmResources ----------------------------
(***************************************************************************)
(* What the API reads from a swarm, and the networks, volumes, secrets and *)
(* configs it creates and removes.                                         *)
(*                                                                         *)
(* A page of the console is answered from several lists of the engine,     *)
(* each taken at a moment of its own while tasks start and stop, nodes     *)
(* come and go and stacks are deployed and removed.                        *)
(***************************************************************************)
EXTENDS Naturals, FiniteSets, FiniteSetsExt

CONSTANTS
  Machines,     (* node ids                                                 *)
  HostOf,       (* node id -> its hostname                                  *)
  Deployed,     (* the services: id, stack (or NoStack), replicas, global   *)
  Containers,   (* task ids                                                 *)
  ServiceOf,    (* task id -> the id of its service                         *)
  Stacked,      (* the stacks                                               *)
  Labels        (* resource names                                           *)

ASSUME MachinesAssumption == Machines # {}
ASSUME HostOfAssumption == DOMAIN HostOf = Machines
ASSUME DeployedAssumption ==
  IsFiniteSet(Deployed) /\ \A s, o \in Deployed : s.id = o.id => s = o
ASSUME ServiceOfAssumption == ServiceOf \in [Containers -> {s.id : s \in Deployed}]

VARIABLES
  machines,   (* the nodes of the swarm                                     *)
  tasks,      (* task id -> the node it was placed on and its state         *)
  resources,  (* networks, volumes, secrets and configs                     *)
  creating,   (* the create request in flight                               *)
  mapping     (* the nodeMap query in flight, and the last one's answer     *)

swarmVars == <<machines, tasks, resources, creating, mapping>>

ResourceKinds == {"network", "volume", "secret", "config"}
NoStack == "none"
TaskStates == {"none", "running", "failed"}

Same(x, kind, label) == x.kind = kind /\ x.name = label
Taken(kind, label) == \E x \in resources : Same(x, kind, label)

NotCreating == [pc |-> "idle", kind |-> "none", name |-> "none"]
NotMapping == [pc |-> "idle", nodes |-> {}, listed |-> {}, cards |-> {}]

ResourcesInit ==
  /\ machines = Machines
  /\ tasks = [t \in Containers |-> [state |-> "none", node |-> CHOOSE n \in Machines : TRUE]]
  /\ resources = {}
  /\ creating = NotCreating
  /\ mapping = NotMapping

-----------------------------------------------------------------------------
(* createNetwork, createVolume, createSecret, createConfig and their        *)
(* removal: an administrator's, on a swarm only.                            *)

(* A network, secret or config of that name is an error; a volume is taken  *)
(* as it is.                                                                *)
CreateResource ==
  /\ creating.pc = "idle"
  /\ \E kind \in ResourceKinds, label \in Labels :
       /\ kind = "volume" \/ ~Taken(kind, label)
       /\ resources' = IF Taken(kind, label) THEN resources
            ELSE resources \union {[kind |-> kind, name |-> label, stack |-> NoStack]}
       /\ creating' = [pc |-> "inspect", kind |-> kind, name |-> label]
  /\ UNCHANGED <<machines, tasks, mapping>>

(* What was created is inspected and answered; if somebody has removed it,  *)
(* the request is answered with an error.                                   *)
AnswerCreated ==
  /\ creating.pc = "inspect"
  /\ creating' = NotCreating
  /\ UNCHANGED <<machines, tasks, resources, mapping>>

(* The engine refuses to remove what a service uses.                        *)
RemoveResource ==
  /\ \E x \in resources :
       /\ x.stack = NoStack
       /\ resources' = resources \ {x}
  /\ UNCHANGED <<machines, tasks, creating, mapping>>

(* A stack's deploy creates its resources, its removal leaves the volumes.  *)
StackResources ==
  /\ \E stack \in Stacked :
       \/ \E kind \in ResourceKinds, label \in Labels :
            /\ ~Taken(kind, label)
            /\ resources' = resources \union
                 {[kind |-> kind, name |-> label, stack |-> stack]}
       \/ resources' = {x \in resources : x.stack # stack \/ x.kind = "volume"}
  /\ UNCHANGED <<machines, tasks, creating, mapping>>

(* The swarm starts, places and ends tasks; nodes leave it and come back.   *)
MoveTask ==
  /\ \E t \in Containers, n \in machines, state \in TaskStates :
       tasks' = [tasks EXCEPT ![t] = [state |-> state,
                   node |-> IF @.state = "none" THEN n ELSE @.node]]
  /\ UNCHANGED <<machines, resources, creating, mapping>>

MoveNode ==
  /\ \E n \in Machines :
       machines' = IF n \in machines THEN machines \ {n} ELSE machines \union {n}
  /\ UNCHANGED <<tasks, resources, creating, mapping>>

-----------------------------------------------------------------------------
(* The lists of swarm/adapter.ts.                                           *)

Tasks == {t \in Containers : tasks[t].state # "none"}

RunningOf(s) == Cardinality({t \in Tasks : tasks[t].state = "running" /\ ServiceOf[t] = s.id})
TotalOf(s) == IF s.global THEN 1 ELSE s.replicas

(* listServices and services: the tasks that run, beside those wanted.      *)
ListSwarmServices ==
  {[id |-> s.id, stack |-> s.stack, running |-> RunningOf(s), total |-> TotalOf(s),
    status |-> IF RunningOf(s) >= TotalOf(s) THEN "RUNNING" ELSE "UPDATING"] :
     s \in Deployed}

(* Mutant: a bucket is opened for any resource's stack.                     *)
StackNamesAll == ({s.stack : s \in Deployed} \union {x.stack : x \in resources}) \ {NoStack}

(* Only services open a bucket; what is left of a removed stack is not one. *)
StackNames == {s.stack : s \in Deployed} \ {NoStack}

CountOf(kind, stack) == Cardinality({x \in resources : x.kind = kind /\ x.stack = stack})

AggregateStacks ==
  {[name |-> stack, services |-> Cardinality({s \in Deployed : s.stack = stack}),
    networks |-> CountOf("network", stack), volumes |-> CountOf("volume", stack),
    configs |-> CountOf("config", stack), secrets |-> CountOf("secret", stack)] :
     stack \in StackNames}

-----------------------------------------------------------------------------
(* nodeMap, of graphql/resolvers.ts.                                        *)

(* The node list comes first, with the metrics of each node.                *)
BeginNodeMap ==
  /\ mapping.pc = "idle"
  /\ mapping' = [NotMapping EXCEPT !.pc = "tasks", !.nodes = machines]
  /\ UNCHANGED <<machines, tasks, resources, creating>>

(* Mutant: a task is found by its node's id.                                *)
NodeHostnameId(t) == tasks[t].node

(* A task carries its node's hostname, or the id of a node not listed now.  *)
NodeHostname(t) ==
  IF tasks[t].node \in machines THEN HostOf[tasks[t].node] ELSE tasks[t].node

(* loadTaskInfos lists the nodes anew beside the tasks; then the tasks are  *)
(* dealt to the cards of the first list by hostname.                        *)
AnswerNodeMap ==
  /\ mapping.pc = "tasks"
  /\ mapping' = [mapping EXCEPT !.pc = "idle", !.listed = machines,
       !.cards = {[node |-> n, tasks |-> {t \in Tasks : NodeHostname(t) = HostOf[n]},
                   of |-> {t \in Tasks : tasks[t].node = n}] : n \in mapping.nodes}]
  /\ UNCHANGED <<machines, tasks, resources, creating>>

ResourcesNext ==
  \/ CreateResource \/ AnswerCreated \/ RemoveResource \/ StackResources
  \/ MoveTask \/ MoveNode \/ BeginNodeMap \/ AnswerNodeMap

ResourcesSpec == ResourcesInit /\ [][ResourcesNext]_swarmVars

-----------------------------------------------------------------------------

ResourcesTypeOK ==
  /\ machines \subseteq Machines
  /\ tasks \in [Containers -> [state : TaskStates, node : Machines]]
  /\ \A x, y \in resources : Same(x, y.kind, y.name) => x = y
  /\ creating.pc \in {"idle", "inspect"} /\ mapping.pc \in {"idle", "tasks"}

(* On the node map a task is on the card of the node that runs it and on no *)
(* other, as long as the node was listed both before and with the tasks and *)
(* its hostname is no other node's hostname or id                           *)
(* (graphql/resolvers.ts:639-664).                                          *)
TasksOnTheirCard ==
  \A c \in mapping.cards :
    c.node \in mapping.listed
      /\ (\A n \in Machines \ {c.node} : HostOf[c.node] \notin {n, HostOf[n]})
      => c.tasks = c.of

(* The stacks listed are those of the services, the figures of a stack are  *)
(* of its own resources, and a stack that has services left is listed with  *)
(* all of them (docker/engine.ts:465-507); a replicated service is shown as *)
(* running only with as many tasks running as it wants (resolvers.ts:243).  *)
ListsAgree ==
  /\ \A row \in AggregateStacks :
       /\ row.services = Cardinality({s \in ListSwarmServices : s.stack = row.name})
       /\ row.services > 0
       /\ row.networks + row.volumes + row.configs + row.secrets
            = Cardinality({x \in resources : x.stack = row.name})
  /\ \A s \in Deployed : \A row \in ListSwarmServices :
       row.id = s.id /\ row.status = "RUNNING" /\ ~s.global =>
         Cardinality({t \in Containers : ServiceOf[t] = s.id /\ tasks[t].state = "running"})
           >= s.replicas

SwarmListsSound == TasksOnTheirCard /\ ListsAgree
=============================================================================
