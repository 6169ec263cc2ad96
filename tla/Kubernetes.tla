------------------------------ MODULE Kubernetes ------------------------------
(***************************************************************************)
(* The Kubernetes backend: stacks are namespaces, a stack is deployed by   *)
(* applying the documents of a manifest one after the other, and the reads *)
(* map workloads and pods to the services and tasks of the console.        *)
(*                                                                         *)
(* An apply creates each object, patches the ones that exist already, and  *)
(* stops at the first error; two of them, and kubectl, act on the same     *)
(* objects.  A name is the sequence of its parts between dashes: a pod     *)
(* finds its Deployment by cutting the hash off its ReplicaSet's name.     *)
(***************************************************************************)
EXTENDS Naturals, Sequences, SequencesExt

CONSTANTS
  Namespaces,     (* namespaces an apply can name                           *)
  Manifests,      (* manifests as sent: sequences of documents              *)
  Hashes,         (* pod-template hashes                                    *)
  Strays,         (* owners, or none, of pods that no workload runs         *)
  Applies         (* slots for createStack requests in flight               *)

VARIABLES
  objects,  (* the objects of the API server: kind, ns, name, body          *)
  pods,     (* its pods                                                     *)
  apply     (* the createStack requests in flight                           *)

kubeVars == <<objects, pods, apply>>

(* A document: what it asks for, or a null document, or something that is   *)
(* not a mapping or lacks apiVersion, kind or name.                         *)
NullDoc == [kind |-> "null"]
BadDoc == [kind |-> ""]
Document == [kind : STRING, ns : STRING, name : Seq(STRING), body : STRING]

(* A document has a name; a namespace is in no other, and its name is taken *)
(* whole.                                                                   *)
Named(d) ==
  /\ d.name # <<>>
  /\ d.kind = "Namespace" => d.ns = "" /\ Len(d.name) = 1 /\ d.name # <<"">>

ASSUME NamesAssumption == Namespaces \subseteq STRING \ {""} /\ Hashes \subseteq STRING
ASSUME ManifestsAssumption ==
  \A manifest \in Manifests :
    /\ manifest \in Seq(Range(manifest))
    /\ \A d \in Range(manifest) \ {NullDoc, BadDoc} : d \in Document /\ Named(d)

ASSUME StraysAssumption ==
  Strays \subseteq {NullDoc} \union [kind : {"ReplicaSet", "Job"}, name : Seq(STRING) \ {<<>>}]

WorkloadKinds == {"Deployment", "StatefulSet", "DaemonSet"}
ClusterScopedKinds ==
  {"Namespace", "Node", "ClusterRole", "ClusterRoleBinding", "PersistentVolume",
   "StorageClass", "CustomResourceDefinition", "PriorityClass", "IngressClass"}

ApplyIdle == [pc |-> "idle", asked |-> <<>>, todo |-> <<>>, done |-> {},
              refused |-> FALSE, swept |-> FALSE, stack |-> "none"]

Key(o) == <<o.kind, o.ns, o.name>>
Held(k) == \E o \in objects : Key(o) = k
NamespaceNamed(ns) == <<"Namespace", "", <<ns>>>>

-----------------------------------------------------------------------------
(* validateManifestYaml and deployStack.                                    *)

Docs(manifest) ==
  LET kept[i \in 0..Len(manifest)] ==
        IF i = 0 THEN <<>>
        ELSE IF manifest[i] = NullDoc THEN kept[i - 1]
        ELSE Append(kept[i - 1], manifest[i])
  IN kept[Len(manifest)]

ValidManifest(manifest) ==
  Docs(manifest) # <<>> /\ \A d \in Range(Docs(manifest)) : d # BadDoc

Placed(d, stack) ==
  IF d.kind \in ClusterScopedKinds \/ d.ns # "" THEN d ELSE [d EXCEPT !.ns = stack]

(* Mutant: the namespace comes after what goes into it.                     *)
PreparedLast(manifest, stack) ==
  [i \in 1..Len(Docs(manifest)) |-> Placed(Docs(manifest)[i], stack)]
    \o <<[kind |-> "Namespace", ns |-> "", name |-> <<stack>>, body |-> "plain"]>>

(* What is applied: a Namespace document is put first unless the manifest   *)
(* has one, for this namespace or another, anywhere.                        *)
Prepared(manifest, stack) ==
  LET docs == Docs(manifest)
      placed == [i \in 1..Len(docs) |-> Placed(docs[i], stack)]
  IN IF \E d \in Range(docs) : d.kind = "Namespace" THEN placed
     ELSE <<[kind |-> "Namespace", ns |-> "", name |-> <<stack>>, body |-> "plain"]>>
            \o placed

-----------------------------------------------------------------------------

KubeInit ==
  /\ objects = {[kind |-> "Namespace", ns |-> "", name |-> <<ns>>, body |-> "plain"] :
                  ns \in {"default"}}
  /\ pods = {}
  /\ apply = [r \in Applies |-> ApplyIdle]

SetApply(r, a) == apply' = [apply EXCEPT ![r] = a]

(* createStack: an invalid manifest is refused before anything is sent.     *)
BeginApply(r) ==
  /\ apply[r].pc \in {"idle", "true", "error"}
  /\ \E stack \in Namespaces, manifest \in Manifests :
       SetApply(r, IF ValidManifest(manifest)
                     THEN [ApplyIdle EXCEPT !.pc = "create", !.stack = stack,
                            !.asked = manifest, !.todo = Prepared(manifest, stack)]
                     ELSE [ApplyIdle EXCEPT !.pc = "error"])
  /\ UNCHANGED <<objects, pods>>

Todo(r) == Head(apply[r].todo)
Admits(d) == d.ns = "" \/ Held(NamespaceNamed(d.ns))

ApplyStep(r) ==
  SetApply(r, [apply[r] EXCEPT !.pc = "create", !.todo = Tail(@),
                               !.done = @ \union {Key(Todo(r))}])

(* client.create: an object that exists is a conflict, and patched instead. *)
CreateObject(r) ==
  /\ apply[r].pc = "create" /\ apply[r].todo # <<>>
  /\ IF Held(Key(Todo(r)))
       THEN /\ SetApply(r, [apply[r] EXCEPT !.pc = "patch"])
            /\ UNCHANGED objects
       ELSE /\ Admits(Todo(r))
            /\ objects' = objects \union {Todo(r)}
            /\ ApplyStep(r)
  /\ UNCHANGED pods

PatchObject(r) ==
  /\ apply[r].pc = "patch" /\ Held(Key(Todo(r)))
  /\ objects' = {o \in objects : Key(o) # Key(Todo(r))} \union {Todo(r)}
  /\ ApplyStep(r)
  /\ UNCHANGED pods

(* Mutant: an error that is not a conflict is passed over.                  *)
ApplyFailsOn(r) ==
  /\ apply[r].todo # <<>>
  /\ SetApply(r, [apply[r] EXCEPT !.pc = "create", !.todo = Tail(@)])
  /\ UNCHANGED <<objects, pods>>

(* Any other error ends the apply, with the objects before it in place: the *)
(* namespace is missing, the object to patch is gone, or the server fails.  *)
ApplyFails(r) ==
  /\ apply[r].pc \in {"create", "patch"} /\ apply[r].todo # <<>>
  /\ SetApply(r, [apply[r] EXCEPT !.pc = "error", !.todo = <<>>, !.done = {},
       !.refused = apply[r].pc = "create" /\ ~Held(Key(Todo(r))) /\ ~Admits(Todo(r))])
  /\ UNCHANGED <<objects, pods>>

ApplyAnswers(r) ==
  /\ apply[r].pc = "create" /\ apply[r].todo = <<>>
  /\ SetApply(r, [apply[r] EXCEPT !.pc = "true"])
  /\ UNCHANGED <<objects, pods>>

(* kubectl deletes an object, a namespace with all that is in it.           *)
Kubectl ==
  /\ \E o \in objects :
       /\ objects' = {p \in objects \ {o} :
                        o.kind = "Namespace" => p.ns # o.name[1]}
       /\ pods' = {p \in pods : ~(o.kind = "Namespace" /\ p.ns = o.name[1])}
       /\ apply' = [r \in Applies |->
            IF o.kind = "Namespace" THEN [apply[r] EXCEPT !.swept = TRUE] ELSE apply[r]]

(* The controllers run a workload's pods, a Deployment's through the        *)
(* ReplicaSet of its current template.                                      *)
StartPod ==
  /\ \E o \in objects : \E h \in Hashes :
       /\ o.kind \in WorkloadKinds
       /\ LET owner == IF o.kind = "Deployment"
                         THEN [kind |-> "ReplicaSet", name |-> Append(o.name, h)]
                         ELSE [kind |-> o.kind, name |-> o.name]
          IN pods' = pods \union {[ns |-> o.ns, owner |-> owner, phase |-> "Pending",
                                   runs |-> Key(o)]}
  /\ UNCHANGED <<objects, apply>>

(* Pods of what the console does not list: of a ReplicaSet without a        *)
(* Deployment, of a job, or without any owner.                              *)
StartStray ==
  /\ \E n \in objects, owner \in Strays :
       /\ n.kind = "Namespace"
       /\ pods' = pods \union {[ns |-> n.name[1], owner |-> owner, phase |-> "Pending",
              runs |-> IF owner = NullDoc THEN <<"Pod", n.name[1], <<>>>>
                       ELSE <<owner.kind, n.name[1], owner.name>>]}
  /\ UNCHANGED <<objects, apply>>

PodPhase ==
  /\ \E p \in pods, phase \in {"Running", "Succeeded", "Failed", "gone"} :
       pods' = (pods \ {p}) \union
               (IF phase = "gone" THEN {} ELSE {[p EXCEPT !.phase = phase]})
  /\ UNCHANGED <<objects, apply>>

KubeNext ==
  \/ \E r \in Applies : \/ BeginApply(r) \/ CreateObject(r) \/ PatchObject(r)
                        \/ ApplyFails(r) \/ ApplyAnswers(r)
  \/ Kubectl \/ StartPod \/ StartStray \/ PodPhase

KubeSpec == KubeInit /\ [][KubeNext]_kubeVars

-----------------------------------------------------------------------------
(* The reads of adapter.ts.                                                 *)

(* Mutant: an id without the kind.                                          *)
WorkloadIdNoKind(kind, ns, name) == <<"Workload", ns, name>>

WorkloadId(kind, ns, name) == <<kind, ns, name>>

(* A task id, a swarm id or a truncated one names no workload.              *)
ParseWorkloadId(id) ==
  IF Len(id) = 3 /\ id[1] \in WorkloadKinds /\ id[2] # "" /\ id[3] # <<>>
    THEN [kind |-> id[1], ns |-> id[2], name |-> id[3]] ELSE NullDoc

(* Mutant: the Deployment's name is what comes before the first dash.       *)
PodOwnerWorkloadFirstPart(p) ==
  IF p.owner.kind = "ReplicaSet"
    THEN [kind |-> "Deployment", name |-> <<p.owner.name[1]>>]
  ELSE IF p.owner.kind \in {"StatefulSet", "DaemonSet"} THEN p.owner ELSE NullDoc

(* Any ReplicaSet's name without its last part, a name of one part as it    *)
(* is; of another owner, or of none, no workload.                           *)
PodOwnerWorkload(p) ==
  IF p.owner.kind = "ReplicaSet"
    THEN [kind |-> "Deployment",
          name |-> IF Len(p.owner.name) > 1 THEN Front(p.owner.name) ELSE p.owner.name]
  ELSE IF p.owner.kind \in {"StatefulSet", "DaemonSet"} THEN p.owner ELSE NullDoc

MapPodTask(p) ==
  LET owner == PodOwnerWorkload(p) IN
  [serviceId |-> IF owner = NullDoc THEN <<>> ELSE WorkloadId(owner.kind, p.ns, owner.name),
   state |-> IF p.phase = "Succeeded" THEN "complete" ELSE p.phase]

Workloads == {o \in objects : o.kind \in WorkloadKinds}

MapWorkloadSummary(o) ==
  [id |-> WorkloadId(o.kind, o.ns, o.name), name |-> o.name, stack |-> o.ns]

ListServices == {MapWorkloadSummary(o) : o \in Workloads}

GetService(id) ==
  LET ref == ParseWorkloadId(id) IN
  IF ref = NullDoc THEN {}
  ELSE {MapWorkloadSummary(o) : o \in
          {w \in Workloads : w.kind = ref.kind /\ w.ns = ref.ns /\ w.name = ref.name}}

(* Every namespace is a stack, with or without workloads.                   *)
ListStacks ==
  {[name |-> n.name[1],
    services |-> Cardinality({o \in Workloads : o.ns = n.name[1]}),
    secrets |-> Cardinality({o \in objects : o.kind = "Secret" /\ o.ns = n.name[1]})] :
     n \in {o \in objects : o.kind = "Namespace"}}

(* The pods whose log serviceLogs may answer: the first running one listed. *)
LogPods(id) ==
  LET ref == ParseWorkloadId(id) IN
  {p \in pods : /\ p.ns = ref.ns /\ p.phase = "Running"
                /\ PodOwnerWorkload(p) = [kind |-> ref.kind, name |-> ref.name]}

-----------------------------------------------------------------------------

KubeTypeOK ==
  /\ \A o, p \in objects : Key(o) = Key(p) => o = p
  /\ \A r \in Applies :
       /\ apply[r].pc \in {"idle", "create", "patch", "true", "error"}
       /\ apply[r].pc = "patch" => apply[r].todo # <<>>

(* Each document comes after a Namespace document for where it goes, or the *)
(* manifest has no Namespace document and the document goes into the        *)
(* stack's namespace.                                                       *)
InOrderOfNamespaces(manifest, stack) ==
  LET docs == Docs(manifest)
      to(i) == Placed(docs[i], stack).ns
  IN \A i \in 1..Len(docs) :
       \/ to(i) = ""
       \/ \E j \in 1..(i - 1) : Key(docs[j]) = NamespaceNamed(to(i))
       \/ to(i) = stack /\ \A d \in Range(docs) : d.kind # "Namespace"

(* A deploy that answers true has created or patched every document of the  *)
(* manifest, in the stack's namespace or in its own.  A deploy is refused   *)
(* for want of a namespace only if one was deleted meanwhile, or if a       *)
(* document comes before its Namespace document or counts on the stack's    *)
(* namespace in a manifest that has a Namespace document for any other,     *)
(* which keeps the stack's from being made (adapter.ts:540-561,             *)
(* client.ts:114-125).                                                      *)
DeployedWhole ==
  \A r \in Applies :
    LET a == apply[r] IN
    /\ a.pc = "true" => \A d \in Range(a.asked) \ {NullDoc} : Key(Placed(d, a.stack)) \in a.done
    /\ a.refused => a.swept \/ ~InOrderOfNamespaces(a.asked, a.stack)

(* A pod of a ReplicaSet without a Deployment passes for one of the         *)
(* Deployment named like it, up to the last dash.                           *)
TakenFor(p, o) ==
  /\ p.runs[1] = "ReplicaSet" /\ o.kind = "Deployment"
  /\ o.name \in {p.runs[3], Front(p.runs[3])}

(* Services have ids of their own that lead back to them; a task carries    *)
(* the id of the workload that runs it, whatever dashes the names have; and *)
(* a service has no task, and no log, of a pod that is not its own, but for *)
(* the pods of ReplicaSets without a Deployment, whose names are cut as if  *)
(* they had one (adapter.ts:67-78, 282, 426-440, 519-537).                  *)
WorkloadsFound ==
  /\ Cardinality({s.id : s \in ListServices}) = Cardinality(Workloads)
  /\ \A s \in ListServices : GetService(s.id) = {s}
  /\ \A p \in pods : p.runs[1] \in WorkloadKinds => MapPodTask(p).serviceId = p.runs
  /\ \A p \in pods, o \in Workloads :
       LET id == MapWorkloadSummary(o).id IN
       MapPodTask(p).serviceId = id \/ p \in LogPods(id) => p.runs = Key(o) \/ TakenFor(p, o)

(* The services counted per stack are the services listed.                  *)
StacksAddUp ==
  FoldSet(LAMBDA s, n : s.services + n, 0, ListStacks) = Cardinality(ListServices)

KubernetesSound == DeployedWhole /\ WorkloadsFound /\ StacksAddUp
=============================================================================
