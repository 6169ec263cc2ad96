---------------------------- MODULE SwarmServices ----------------------------
(***************************************************************************)
(* The Swarm mutations of one API process: stacks deployed by the docker   *)
(* CLI, and services that are redeployed, scaled, rolled back and removed, *)
(* one by one or for a whole stack.                                        *)
(*                                                                         *)
(* An update inspects the service, computes a new spec and sends it with   *)
(* the version it saw; the engine, which other requests and the CLI write  *)
(* to meanwhile, refuses it if the version has moved on.  The mutations of *)
(* a stack go through its services one after the other and stop at the     *)
(* first error.  The CLI reads the compose file from a path made of the    *)
(* stack's name and the process id.                                        *)
(***************************************************************************)
EXTENDS Naturals, FiniteSets

CONSTANTS
  Ids,         (* service ids, drawn by the engine                         *)
  Stacks,
  Names,       (* service names                                            *)
  StackOf,     (* name -> the stack whose compose file has the service     *)
  GlobalNames, (* names of the services that are in global mode            *)
  Images,      (* compose files, by the image they deploy                  *)
  Requests,    (* slots for requests in flight                             *)
  MaxReplicas, (* bound on the replicas asked for                          *)
  MaxIndex,    (* bound on the writes of the engine's store                *)
  None         (* no id, no name, no image, no file, no spec               *)

ASSUME StackOfAssumption == StackOf \in [Names -> Stacks]
ASSUME BoundsAssumption == MaxReplicas \in Nat \ {0} /\ MaxIndex \in Nat
VARIABLES
  engine,  (* id -> the service in the engine's store, or None             *)
  index,   (* the index of the store's last write                          *)
  used,    (* ids drawn so far                                             *)
  files,   (* compose files in workDir, by path                            *)
  req      (* the requests in flight                                       *)

vars == <<engine, index, used, files, req>>

Spec0 == [image : Images, replicas : 0..MaxReplicas, force : Nat, global : BOOLEAN]
Service == [name : Names, spec : Spec0, prev : Spec0 \union {None}, version : Nat]

ASSUME NoneAssumption ==
  /\ None \notin Ids \union Stacks \union Names \union Images \union {"empty"}
  /\ None \notin Spec0 \union Service \union [spec : Spec0, prev : Spec0 \union {None}]

Sweeps == {"redeploy", "rollback", "scale"}

(* todo: services or names the loop has still to visit; id, version, body:  *)
(* the one inspected; listed, reached (history): the services the loop was  *)
(* given and those it changed; image: the compose file as sent, and read:   *)
(* as the CLI read it; shared (history): a deploy of the same stack was in  *)
(* flight beside this one.                                                  *)
Idle == [pc |-> "idle", op |-> "none", stack |-> None,
         replicas |-> 0, todo |-> {}, id |-> None, version |-> 0, body |-> None,
         listed |-> {}, reached |-> {}, image |-> None, read |-> None,
         shared |-> FALSE]

Exists(i) == engine[i] # None
Member(i, st) == Exists(i) /\ StackOf[engine[i].name] = st
Named(n) == {i \in Ids : Exists(i) /\ engine[i].name = n}

Fresh(n, image) ==
  [image |-> image, replicas |-> 1, force |-> 0, global |-> n \in GlobalNames]

(* Mutant: the path has no name in it.                                      *)
StackFileOfProcess(st) == CHOOSE s \in Stacks : TRUE

(* The path of a stack's compose file: its name, and this process's id.     *)
StackFile(st) == st

Init ==
  /\ \E st \in Stacks, image \in Images, id \in [Names -> Ids] :
       /\ \A m, n \in Names : m # n => id[m] # id[n]
       /\ used = {id[n] : n \in {m \in Names : StackOf[m] = st}}
       /\ engine = [i \in Ids |->
            IF i \notin used THEN None
            ELSE LET n == CHOOSE m \in Names : id[m] = i
                 IN [name |-> n, spec |-> Fresh(n, image), prev |-> None,
                     version |-> 0]]
  /\ index = 0
  /\ files = [p \in Stacks |-> None]
  /\ req = [r \in Requests |-> Idle]

-----------------------------------------------------------------------------

At(r, step) == req[r].pc = step
Set(r, request) == req' = [req EXCEPT ![r] = request]
Goto(r, step) == Set(r, [req[r] EXCEPT !.pc = step])
Free(r) == At(r, "idle")

(* The request is answered: true, or with the error.                        *)
Answer(r) == Set(r, Idle)

(* The engine stores a spec under the next index.                           *)
Store(i, n, spec, prev) ==
  /\ index < MaxIndex
  /\ index' = index + 1
  /\ engine' = [engine EXCEPT ![i] =
       [name |-> n, spec |-> spec, prev |-> prev, version |-> index + 1]]

-----------------------------------------------------------------------------
(* redeployStack, rollbackStack, deactivateStack, reactivateStack, and the  *)
(* same for a single service.                                               *)

(* serviceIdsForStack, one engine call.                                     *)
SweepStack(r) ==
  /\ Free(r)
  /\ \E op \in Sweeps, st \in Stacks, n \in {0, 1} :
       LET ids == {i \in Ids : Member(i, st)} IN
       Set(r, [Idle EXCEPT !.pc = "loop", !.op = op, !.todo = ids, !.listed = ids,
                           !.replicas = IF op = "scale" THEN n ELSE 0])
  /\ UNCHANGED <<engine, index, used, files>>

UpdateOne(r) ==
  /\ Free(r)
  /\ \E op \in Sweeps, i \in used, n \in 0..MaxReplicas :
       Set(r, [Idle EXCEPT !.pc = "loop", !.op = op, !.todo = {i}, !.listed = {i},
                           !.replicas = IF op = "scale" THEN n ELSE 0])
  /\ UNCHANGED <<engine, index, used, files>>

(* Mutant: a redeploy sends the counter without the rest of the spec.       *)
NextSpecCounterOnly(r, spec) ==
  IF req[r].op = "redeploy" THEN [force |-> spec.force + 1] ELSE spec

NextSpec(r, spec) ==
  CASE req[r].op = "redeploy" -> [spec EXCEPT !.force = @ + 1]
    [] req[r].op = "scale" -> [spec EXCEPT !.replicas = req[r].replicas]
    [] OTHER -> spec

(* scaleServiceById does nothing to a service in global mode.               *)
LeavesAlone(r, i) == req[r].op = "scale" /\ engine[i].spec.global

(* service.inspect(); a service that is gone is an error.                   *)
Inspect(r) ==
  /\ At(r, "loop")
  /\ \E i \in req[r].todo :
       \/ ~Exists(i) /\ Answer(r)
       \/ /\ Exists(i) /\ LeavesAlone(r, i)
          /\ Set(r, [req[r] EXCEPT !.todo = @ \ {i}])
       \/ /\ Exists(i) /\ ~LeavesAlone(r, i)
          /\ Set(r, [req[r] EXCEPT !.pc = "update", !.todo = @ \ {i}, !.id = i,
                                   !.version = engine[i].version,
                                   !.body = NextSpec(r, engine[i].spec)])
  /\ UNCHANGED <<engine, index, used, files>>

(* Mutant: the version is asked for again when the update is sent.          *)
SentVersionLatest(r) ==
  IF Exists(req[r].id) THEN engine[req[r].id].version ELSE 0

SentVersion(r) == req[r].version

Reached(r) ==
  Set(r, [req[r] EXCEPT !.pc = "loop", !.reached = @ \union {req[r].id},
                        !.id = None, !.body = None, !.version = 0])

Acceptable(r) ==
  /\ Exists(req[r].id) /\ engine[req[r].id].version = SentVersion(r)
  /\ req[r].op = "rollback" => engine[req[r].id].prev # None

(* service.update(): "rollback: previous" swaps the two specs and does not  *)
(* look at the body.                                                        *)
Update(r) ==
  /\ At(r, "update") /\ Acceptable(r)
  /\ LET i == req[r].id s == engine[i] IN
       Store(i, s.name, IF req[r].op = "rollback" THEN s.prev ELSE req[r].body,
             s.spec)
  /\ Reached(r)
  /\ UNCHANGED <<used, files>>

(* Mutant: the loop goes on after an error.                                 *)
UpdateRefusedIgnored(r) ==
  /\ At(r, "update") /\ ~Acceptable(r)
  /\ Goto(r, "loop")
  /\ UNCHANGED <<engine, index, used, files>>

(* The engine's error ends the loop and the request.                        *)
UpdateRefused(r) ==
  /\ At(r, "update") /\ ~Acceptable(r)
  /\ Answer(r)
  /\ UNCHANGED <<engine, index, used, files>>

SweepDone(r) ==
  /\ At(r, "loop") /\ req[r].todo = {}
  /\ Answer(r)
  /\ UNCHANGED <<engine, index, used, files>>

-----------------------------------------------------------------------------
(* createService and removeService: one call to the engine; and docker      *)
(* stack rm.                                                                *)

CreateService(r) ==
  /\ Free(r)
  /\ \E i \in Ids \ used, n \in Names \ GlobalNames, k \in 0..MaxReplicas,
        image \in Images :
       /\ Named(n) = {}
       /\ Store(i, n, [Fresh(n, image) EXCEPT !.replicas = k], None)
       /\ used' = used \union {i}
  /\ UNCHANGED <<files, req>>

RemoveService(r) ==
  /\ Free(r)
  /\ \E i \in Ids : /\ Exists(i)
                    /\ engine' = [engine EXCEPT ![i] = None]
  /\ UNCHANGED <<index, used, files, req>>

BeginRemoveStack(r) ==
  /\ Free(r)
  /\ \E st \in Stacks :
       Set(r, [Idle EXCEPT !.pc = "rm", !.op = "removeStack",
                           !.todo = {i \in Ids : Member(i, st)}])
  /\ UNCHANGED <<engine, index, used, files>>

(* The CLI removes the services it listed one by one.                       *)
CliRemove(r) ==
  /\ At(r, "rm")
  /\ IF req[r].todo = {} THEN Answer(r) /\ UNCHANGED engine
     ELSE \E i \in req[r].todo :
            /\ engine' = [engine EXCEPT ![i] = None]
            /\ Set(r, [req[r] EXCEPT !.todo = @ \ {i}])
  /\ UNCHANGED <<index, used, files>>

-----------------------------------------------------------------------------
(* createStack: stackDeploy in docker/cli.ts.                               *)

Deploying(r, st) == req[r].stack = st /\ ~Free(r)

BeginDeploy(r) ==
  /\ Free(r)
  /\ \E st \in Stacks, image \in Images :
       req' = [s \in Requests |->
         IF s = r
           THEN [Idle EXCEPT !.pc = "open", !.op = "deploy", !.stack = st,
                             !.image = image,
                             !.shared = \E q \in Requests \ {r} : Deploying(q, st)]
           ELSE IF Deploying(s, st) THEN [req[s] EXCEPT !.shared = TRUE]
                                    ELSE req[s]]
  /\ UNCHANGED <<engine, index, used, files>>

(* writeFile empties the file, then fills it.                               *)
OpenFile(r) ==
  /\ At(r, "open")
  /\ files' = [files EXCEPT ![StackFile(req[r].stack)] = "empty"]
  /\ Goto(r, "fill")
  /\ UNCHANGED <<engine, index, used>>

FillFile(r) ==
  /\ At(r, "fill")
  /\ files' = [files EXCEPT ![StackFile(req[r].stack)] = req[r].image]
  /\ Goto(r, "cli")
  /\ UNCHANGED <<engine, index, used>>

(* The CLI reads the file; without a compose file in it, it exits with 1.   *)
CliRead(r) ==
  /\ At(r, "cli")
  /\ LET file == files[StackFile(req[r].stack)] IN
       IF file \in {None, "empty"} THEN Answer(r)
       ELSE Set(r, [req[r] EXCEPT !.pc = "apply", !.read = file,
                      !.todo = {n \in Names : StackOf[n] = req[r].stack}])
  /\ UNCHANGED <<engine, index, used, files>>

(* It creates or updates the services of the file one by one, keeping their *)
(* ForceUpdate counters.                                                    *)
CliApply(r) ==
  /\ At(r, "apply")
  /\ \E n \in req[r].todo :
       /\ Set(r, [req[r] EXCEPT !.todo = @ \ {n}])
       /\ \/ \E i \in Named(n) :
               /\ Store(i, n, [engine[i].spec EXCEPT !.image = req[r].read,
                                                     !.replicas = 1],
                        engine[i].spec)
               /\ UNCHANGED used
          \/ /\ Named(n) = {}
             /\ \E i \in Ids \ used : /\ Store(i, n, Fresh(n, req[r].read), None)
                                      /\ used' = used \union {i}
  /\ UNCHANGED files

(* It fails at a service; the file stays behind.                            *)
CliFails(r) ==
  /\ At(r, "apply") /\ req[r].todo # {}
  /\ Answer(r)
  /\ UNCHANGED <<engine, index, used, files>>

RemoveFile(r) ==
  /\ At(r, "apply") /\ req[r].todo = {}
  /\ files' = [files EXCEPT ![StackFile(req[r].stack)] = None]
  /\ Answer(r)
  /\ UNCHANGED <<engine, index, used>>

-----------------------------------------------------------------------------

Next ==
  \E r \in Requests :
    \/ SweepStack(r) \/ UpdateOne(r) \/ Inspect(r) \/ Update(r)
    \/ UpdateRefused(r) \/ SweepDone(r)
    \/ CreateService(r) \/ RemoveService(r) \/ BeginRemoveStack(r) \/ CliRemove(r)
    \/ BeginDeploy(r) \/ OpenFile(r) \/ FillFile(r) \/ CliRead(r) \/ CliApply(r)
    \/ CliFails(r) \/ RemoveFile(r)

Spec == Init /\ [][Next]_vars

-----------------------------------------------------------------------------

TypeOK ==
  /\ engine \in [Ids -> Service \union {None}]
  /\ index \in 0..MaxIndex /\ used \subseteq Ids
  /\ files \in [Stacks -> Images \union {None, "empty"}]
  /\ \A r \in Requests :
       /\ req[r].pc \in {"idle", "loop", "update", "rm", "open",
                         "fill", "cli", "apply"}
       /\ req[r].todo \subseteq Ids \union Names
       /\ req[r].reached \subseteq req[r].listed
       /\ req[r].body \in Spec0 \union {None}

(* The services without their names and versions.                           *)
service == [i \in Ids |-> IF Exists(i) THEN [spec |-> engine[i].spec,
                                             prev |-> engine[i].prev]
                                       ELSE None]
Abstract == INSTANCE AtomicServices WITH NoSpec <- None

(* Overlapping mutations and deploys never undo each other's changes unseen:*)
(* each write is an operation on the service as it is at that moment.       *)
ImplementsAtomicServices == Abstract!Spec

(* A mutation of a stack that is about to answer true has changed every     *)
(* service it listed (global ones aside when it scales), whatever else runs;*)
(* one that fails half-way says so (graphql/resolvers.ts:1000-1031).        *)
SweepReachesAll ==
  \A r \in Requests : At(r, "loop") /\ req[r].todo = {} =>
    \A i \in req[r].listed \ req[r].reached :
      req[r].op = "scale" /\ (Exists(i) => engine[i].spec.global)

(* A deploy that shares its stack's name with no other in flight deploys    *)
(* the compose file it was given: deploys of other stacks beside it, and    *)
(* files left behind by failed ones, do not matter (docker/cli.ts).         *)
DeploysOwnFile ==
  \A r \in Requests : At(r, "apply") /\ ~req[r].shared => req[r].read = req[r].image
=============================================================================
