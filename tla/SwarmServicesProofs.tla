------------------------- MODULE SwarmServicesProofs -------------------------
(***************************************************************************)
(* Theorems about SwarmServices, for any number of services, stacks and    *)
(* requests.                                                               *)
(*                                                                         *)
(* Everything rests on the versions: the engine draws them from a counter, *)
(* so a service that still has the version a request inspected is as it    *)
(* was then, and an id that is gone never comes back.                      *)
(***************************************************************************)
EXTENDS SwarmServices, TLAPS

Deploy == {"open", "fill", "cli", "apply"}

Request ==
  [pc : {"idle", "loop", "update", "rm"} \union Deploy,
   op : {"none", "removeStack", "deploy"} \union Sweeps,
   stack : Stacks \union {None}, replicas : 0..MaxReplicas,
   todo : SUBSET (Ids \union Names), id : Ids \union {None}, version : Nat,
   body : Spec0 \union {None}, listed : SUBSET Ids, reached : SUBSET Ids,
   image : Images \union {None}, read : Images \union {None}, shared : BOOLEAN]

Typed ==
  /\ engine \in [Ids -> Service \union {None}]
  /\ index \in 0..MaxIndex /\ used \in SUBSET Ids
  /\ files \in [Stacks -> Images \union {None, "empty"}]
  /\ req \in [Requests -> Request]

(* Ids are not reused, versions come from the counter, and a service keeps  *)
(* its mode.                                                                *)
ServiceOK(i) ==
  Exists(i) =>
    /\ i \in used /\ engine[i].version <= index
    /\ engine[i].prev # None => engine[i].prev.global = engine[i].spec.global

(* While the service has the version that was inspected, the body is the    *)
(* operation applied to the service as it is.                               *)
BodyFits(r) ==
  Exists(req[r].id) /\ engine[req[r].id].version = req[r].version =>
    /\ req[r].body = NextSpec(r, engine[req[r].id].spec)
    /\ ~LeavesAlone(r, req[r].id)

ReqOK(r) ==
  LET q == req[r] IN
  /\ q.reached \subseteq q.listed
  /\ q.pc \in {"loop", "update"} =>
       /\ q.op \in Sweeps /\ q.todo \subseteq q.listed /\ q.listed \subseteq used
  /\ q.pc = "update" => /\ q.id \in q.listed /\ q.version <= index
                        /\ q.body \in Spec0 /\ BodyFits(r)
  /\ q.pc = "rm" => q.todo \subseteq Ids
  /\ q.pc \in Deploy => q.stack \in Stacks /\ q.image \in Images
  /\ q.pc \notin Deploy => q.stack = None
  /\ q.pc = "apply" => q.todo \subseteq Names /\ q.read \in Images

(* A service the loop was given is still to visit, or changed, or global.   *)
SweepOK(r) ==
  req[r].pc \in {"loop", "update"} =>
    \A i \in req[r].listed \ req[r].reached :
      \/ i \in req[r].todo
      \/ req[r].pc = "update" /\ i = req[r].id
      \/ req[r].op = "scale" /\ (Exists(i) => engine[i].spec.global)

(* A deploy alone with its stack's name finds its own file.                 *)
FileOK(r) ==
  ~req[r].shared =>
    /\ At(r, "cli") => files[StackFile(req[r].stack)] = req[r].image
    /\ At(r, "apply") => req[r].read = req[r].image

SharedOK(r, q) == req[r].stack # None /\ req[q].stack = req[r].stack => req[r].shared

SInv ==
  /\ Typed
  /\ \A i \in Ids : ServiceOK(i)
  /\ \A r \in Requests : ReqOK(r) /\ SweepOK(r) /\ FileOK(r)
  /\ \A r, q \in Requests : r # q => SharedOK(r, q)

-----------------------------------------------------------------------------
(* Records.                                                                 *)

LEMMA IdleRequest ==
  /\ Idle \in Request /\ Idle.pc = "idle" /\ Idle.stack = None /\ Idle.shared = FALSE
  /\ Idle.reached = {} /\ Idle.listed = {}
<1>1. 0 \in 0..MaxReplicas /\ 0 \in Nat BY BoundsAssumption
<1>2. {} \in SUBSET (Ids \union Names) /\ {} \in SUBSET Ids OBVIOUS
<1>3. Idle \in Request BY <1>1, <1>2 DEF Idle, Request
<1> QED BY <1>3 DEF Idle

(* A fresh service, and a spec after an operation.                          *)
LEMMA FreshSpec ==
  ASSUME NEW n, NEW image \in Images
  PROVE  Fresh(n, image) \in Spec0 /\ Fresh(n, image).global = (n \in GlobalNames)
BY BoundsAssumption DEF Fresh, Spec0

LEMMA SpecChanges ==
  ASSUME NEW spec \in Spec0, NEW image \in Images, NEW k \in 0..MaxReplicas
  PROVE  /\ spec.global \in BOOLEAN /\ spec.force \in Nat
         /\ [spec EXCEPT !.image = image, !.replicas = k] \in Spec0
         /\ [spec EXCEPT !.image = image, !.replicas = k].global = spec.global
         /\ [spec EXCEPT !.replicas = k] \in Spec0
         /\ [spec EXCEPT !.replicas = k].global = spec.global
         /\ [spec EXCEPT !.force = @ + 1] \in Spec0
         /\ [spec EXCEPT !.force = @ + 1].global = spec.global
<1>1. spec.global \in BOOLEAN /\ spec.force \in Nat BY DEF Spec0
<1>2. /\ [spec EXCEPT !.image = image, !.replicas = k] \in Spec0
      /\ [spec EXCEPT !.image = image, !.replicas = k].global = spec.global
  BY DEF Spec0
<1>3. /\ [spec EXCEPT !.replicas = k] \in Spec0
      /\ [spec EXCEPT !.replicas = k].global = spec.global
  BY DEF Spec0
<1>4. /\ [spec EXCEPT !.force = @ + 1] \in Spec0
      /\ [spec EXCEPT !.force = @ + 1].global = spec.global
  BY <1>1 DEF Spec0
<1> QED BY <1>1, <1>2, <1>3, <1>4

LEMMA NextSpecType ==
  ASSUME NEW r, req[r].replicas \in 0..MaxReplicas, NEW spec \in Spec0
  PROVE  NextSpec(r, spec) \in Spec0 /\ NextSpec(r, spec).global = spec.global
<1>1. spec.image \in Images BY DEF Spec0
<1> QED BY <1>1, SpecChanges DEF NextSpec

LEMMA ServiceFields ==
  ASSUME Typed, NEW i \in Ids, Exists(i)
  PROVE  /\ engine[i] \in Service /\ engine[i].name \in Names /\ engine[i].spec \in Spec0
         /\ engine[i].prev \in Spec0 \union {None} /\ engine[i].version \in Nat
BY DEF Typed, Exists, Service

LEMMA NewService ==
  ASSUME NEW n \in Names, NEW spec \in Spec0, NEW prev \in Spec0 \union {None},
         NEW v \in Nat
  PROVE  /\ [name |-> n, spec |-> spec, prev |-> prev, version |-> v] \in Service
         /\ [name |-> n, spec |-> spec, prev |-> prev, version |-> v] # None
<1>1. [name |-> n, spec |-> spec, prev |-> prev, version |-> v] \in Service
  BY DEF Service
<1> QED BY <1>1, NoneAssumption

LEMMA RequestFields ==
  ASSUME Typed, NEW r \in Requests
  PROVE  /\ req[r] \in Request
         /\ req[r].pc \in {"idle", "loop", "update", "rm"} \union Deploy
         /\ req[r].stack \in Stacks \union {None} /\ req[r].replicas \in 0..MaxReplicas
         /\ req[r].todo \in SUBSET (Ids \union Names) /\ req[r].id \in Ids \union {None}
         /\ req[r].version \in Nat /\ req[r].body \in Spec0 \union {None}
         /\ req[r].listed \in SUBSET Ids /\ req[r].reached \in SUBSET Ids
         /\ req[r].image \in Images \union {None} /\ req[r].shared \in BOOLEAN
BY DEF Typed, Request

LEMMA SetRequest ==
  ASSUME Typed, NEW r \in Requests, NEW x \in Request, Set(r, x)
  PROVE  req' \in [Requests -> Request] /\ req'[r] = x
         /\ \A q \in Requests \ {r} : req'[q] = req[q]
BY DEF Typed, Set

-----------------------------------------------------------------------------
(* The initial states.                                                      *)

LEMMA SInvInit == Init => SInv
<1> SUFFICES ASSUME Init PROVE SInv OBVIOUS
<1>1. PICK st \in Stacks, image \in Images, id \in [Names -> Ids] :
        /\ \A m, n \in Names : m # n => id[m] # id[n]
        /\ used = {id[n] : n \in {m \in Names : StackOf[m] = st}}
        /\ engine = [i \in Ids |->
             IF i \notin used THEN None
             ELSE LET n == CHOOSE m \in Names : id[m] = i
                  IN [name |-> n, spec |-> Fresh(n, image), prev |-> None,
                      version |-> 0]]
  BY DEF Init
<1>2. index = 0 /\ files = [p \in Stacks |-> None] /\ req = [r \in Requests |-> Idle]
  BY DEF Init
<1>3. used \in SUBSET Ids BY <1>1
<1>4. ASSUME NEW i \in Ids
      PROVE  engine[i] \in Service \union {None} /\ ServiceOK(i)
  <2>1. CASE i \notin used BY <1>1, <2>1 DEF ServiceOK, Exists
  <2>2. CASE i \in used
    <3>1. \E m \in Names : id[m] = i BY <1>1, <2>2
    <3> DEFINE n == CHOOSE m \in Names : id[m] = i
    <3>2. n \in Names BY <3>1
    <3>3. engine[i] = [name |-> n, spec |-> Fresh(n, image), prev |-> None,
                       version |-> 0]
      BY <1>1, <2>2
    <3> HIDE DEF n
    <3>4. engine[i] \in Service BY <3>2, <3>3, FreshSpec, NewService
    <3>5. engine[i].prev = None /\ engine[i].version = 0 BY <3>3
    <3> QED BY <1>2, <2>2, <3>4, <3>5 DEF ServiceOK
  <2> QED BY <2>1, <2>2
<1>5. Typed
  <2>1. engine \in [Ids -> Service \union {None}] BY <1>1, <1>4
  <2> QED BY <1>2, <1>3, <2>1, IdleRequest, BoundsAssumption DEF Typed
<1>6. ASSUME NEW r \in Requests PROVE ReqOK(r) /\ SweepOK(r) /\ FileOK(r)
  BY <1>2, IdleRequest DEF ReqOK, SweepOK, FileOK, At, Deploy
<1>7. \A r, q \in Requests : SharedOK(r, q)
  BY <1>2, IdleRequest DEF SharedOK
<1> QED BY <1>4, <1>5, <1>6, <1>7 DEF SInv

-----------------------------------------------------------------------------
(* What a step may do to the services and the files others work on.         *)

(* A service is kept, or goes, or gets a new version and keeps its mode.    *)
Moves(i) ==
  \/ engine'[i] = engine[i]
  \/ engine'[i] = None
  \/ /\ engine'[i] \in Service /\ engine'[i].version = index'
     /\ index' = index + 1 /\ i \in used'
     /\ i \in used => Exists(i) /\ engine'[i].spec.global = engine[i].spec.global
     /\ engine'[i].prev # None => engine'[i].prev.global = engine'[i].spec.global

EngineMoves ==
  /\ engine' \in [Ids -> Service \union {None}]
  /\ index' \in 0..MaxIndex /\ index' >= index
  /\ used \subseteq used' /\ used' \in SUBSET Ids
  /\ \A i \in Ids : Moves(i)

LEMMA EngineStays ==
  ASSUME SInv, UNCHANGED <<engine, index, used>> PROVE EngineMoves
BY DEF SInv, Typed, EngineMoves, Moves

LEMMA ServicesKept ==
  ASSUME SInv, EngineMoves, NEW i \in Ids PROVE ServiceOK(i)'
<1>1. index \in Nat /\ index' \in Nat /\ index' >= index BY DEF SInv, Typed, EngineMoves
<1>2. ServiceOK(i) /\ Moves(i) /\ used \subseteq used' BY DEF SInv, EngineMoves
<1>3. Exists(i) => engine[i].version \in Nat BY ServiceFields DEF SInv
<1> QED BY <1>1, <1>2, <1>3 DEF ServiceOK, Moves, Exists

(* Whoever stands still.                                                    *)
LEMMA RequestKept ==
  ASSUME SInv, EngineMoves, NEW q \in Requests, req'[q] = req[q]
  PROVE  ReqOK(q)' /\ SweepOK(q)'
<1>1. ReqOK(q) /\ SweepOK(q) /\ req[q].listed \subseteq Ids /\ req[q].version \in Nat
  BY RequestFields DEF SInv
<1>2. index \in Nat /\ index' \in Nat /\ index' >= index /\ used \subseteq used'
  BY DEF SInv, Typed, EngineMoves
<1>3. ASSUME NEW i \in used, Exists(i)'
      PROVE  /\ i \in Ids /\ Exists(i) /\ engine'[i].spec.global = engine[i].spec.global
             /\ engine'[i] = engine[i] \/ engine'[i].version > index
  <2>1. i \in Ids /\ Moves(i) BY DEF SInv, Typed, EngineMoves
  <2> QED BY <1>2, <1>3, <2>1 DEF Moves, Exists
<1>4. q \in Requests /\ (req[q].pc = "update" => BodyFits(q)')
  <2> SUFFICES ASSUME req[q].pc = "update", Exists(req[q].id)',
                      engine'[req[q].id].version = req[q].version
               PROVE  /\ req'[q].body = NextSpec(q, engine[req[q].id].spec)'
                      /\ ~LeavesAlone(q, req[q].id)'
    BY DEF BodyFits
  <2>1. req[q].id \in used /\ req[q].version <= index /\ BodyFits(q)
    BY <1>1 DEF ReqOK
  <2>2. engine'[req[q].id] = engine[req[q].id] /\ Exists(req[q].id)
    BY <1>1, <1>2, <1>3, <2>1
  <2> QED BY <2>1, <2>2 DEF BodyFits, NextSpec, LeavesAlone
<1>5. ReqOK(q)' BY <1>1, <1>2, <1>4 DEF ReqOK
<1>6. SweepOK(q)' BY <1>1, <1>3 DEF SweepOK, ReqOK
<1> QED BY <1>5, <1>6

(* A step of r: what is left to show of each action.                        *)
LEMMA StepKeeps ==
  ASSUME SInv, NEW r \in Requests, EngineMoves,
         files' \in [Stacks -> Images \union {None, "empty"}],
         NEW x \in Request, Set(r, x),
         files' = files \/ \A p \in Stacks : files'[p] = files[p] \/ p = req[r].stack,
         x.stack = None \/ (x.stack = req[r].stack /\ x.shared = req[r].shared),
         ReqOK(r)', SweepOK(r)', FileOK(r)'
  PROVE  SInv'
<1>1. /\ req' \in [Requests -> Request] /\ req'[r] = x
      /\ \A q \in Requests \ {r} : req'[q] = req[q]
  BY SetRequest DEF SInv
<1>2. Typed' BY <1>1 DEF Typed, EngineMoves
<1>3. \A i \in Ids : ServiceOK(i)' BY ServicesKept
<1>4. ASSUME NEW q \in Requests \ {r} PROVE ReqOK(q)' /\ SweepOK(q)'
  BY <1>1, RequestKept
<1>5. ASSUME NEW q \in Requests \ {r} PROVE FileOK(q)'
  <2>1. FileOK(q) /\ ReqOK(q) /\ SharedOK(q, r) /\ req'[q] = req[q] BY <1>1 DEF SInv
  <2>2. At(q, "cli") /\ ~req[q].shared => files'[req[q].stack] = files[req[q].stack]
    <3> SUFFICES ASSUME At(q, "cli"), ~req[q].shared
                 PROVE  files'[req[q].stack] = files[req[q].stack]
      OBVIOUS
    <3>1. req[q].stack \in Stacks BY <2>1 DEF ReqOK, Deploy, At
    <3>2. req[q].stack # req[r].stack BY <2>1, <3>1, NoneAssumption DEF SharedOK
    <3> QED BY <3>1, <3>2
  <2> QED BY <2>1, <2>2 DEF FileOK, At, StackFile
<1>6. ASSUME NEW p \in Requests, NEW q \in Requests, p # q PROVE SharedOK(p, q)'
  <2>1. SharedOK(p, q) BY <1>6 DEF SInv
  <2> QED BY <1>1, <1>6, <2>1 DEF SharedOK
<1> QED BY <1>2, <1>3, <1>4, <1>5, <1>6, <1>1 DEF SInv

(* The same of an action of r alone.                                        *)
LEMMA RequestStep ==
  ASSUME SInv, NEW r \in Requests, NEW x \in Request, Set(r, x),
         UNCHANGED <<engine, index, used, files>>,
         x.stack = None \/ (x.stack = req[r].stack /\ x.shared = req[r].shared),
         ReqOK(r)', SweepOK(r)', FileOK(r)'
  PROVE  SInv'
<1>1. EngineMoves BY EngineStays
<1>2. files' \in [Stacks -> Images \union {None, "empty"}] BY DEF SInv, Typed
<1> QED BY <1>1, <1>2, StepKeeps

(* The request is answered.                                                 *)
LEMMA Answered ==
  ASSUME SInv, NEW r \in Requests, Answer(r)
  PROVE  /\ Idle \in Request /\ Set(r, Idle) /\ Idle.stack = None
         /\ ReqOK(r)' /\ SweepOK(r)' /\ FileOK(r)'
<1>1. req'[r] = Idle BY IdleRequest, SetRequest DEF Answer, SInv
<1> QED BY <1>1, IdleRequest DEF Answer, ReqOK, SweepOK, FileOK, At, Deploy

LEMMA AnswerKeeps ==
  ASSUME SInv, NEW r \in Requests, Answer(r), UNCHANGED <<engine, index, used, files>>
  PROVE  SInv'
BY Answered, RequestStep

-----------------------------------------------------------------------------
(* Sweeps.                                                                  *)

LEMMA BeginSweepKeeps ==
  ASSUME SInv, NEW r \in Requests, SweepStack(r) \/ UpdateOne(r) PROVE SInv'
<1>1. UNCHANGED <<engine, index, used, files>> BY DEF SweepStack, UpdateOne
<1>2. PICK op \in Sweeps, ids \in SUBSET used, k \in 0..MaxReplicas :
        Set(r, [Idle EXCEPT !.pc = "loop", !.op = op, !.todo = ids, !.listed = ids,
                            !.replicas = k])
  <2>1. CASE SweepStack(r)
    <3>1. PICK op \in Sweeps, st \in Stacks, n \in {0, 1} :
            LET ids == {i \in Ids : Member(i, st)} IN
            Set(r, [Idle EXCEPT !.pc = "loop", !.op = op, !.todo = ids, !.listed = ids,
                                !.replicas = IF op = "scale" THEN n ELSE 0])
      BY <2>1 DEF SweepStack
    <3>2. {i \in Ids : Member(i, st)} \in SUBSET used
      BY DEF SInv, ServiceOK, Member
    <3>3. (IF op = "scale" THEN n ELSE 0) \in 0..MaxReplicas BY BoundsAssumption
    <3> QED BY <3>1, <3>2, <3>3
  <2>2. CASE UpdateOne(r)
    <3>1. PICK op \in Sweeps, i \in used, n \in 0..MaxReplicas :
            Set(r, [Idle EXCEPT !.pc = "loop", !.op = op, !.todo = {i}, !.listed = {i},
                                !.replicas = IF op = "scale" THEN n ELSE 0])
      BY <2>2 DEF UpdateOne
    <3>2. (IF op = "scale" THEN n ELSE 0) \in 0..MaxReplicas BY BoundsAssumption
    <3> QED BY <3>1, <3>2
  <2> QED BY <2>1, <2>2
<1> DEFINE x == [Idle EXCEPT !.pc = "loop", !.op = op, !.todo = ids, !.listed = ids,
                             !.replicas = k]
<1>3. x \in Request
  <2>1. ids \in SUBSET (Ids \union Names) /\ ids \in SUBSET Ids BY DEF SInv, Typed
  <2>2. "loop" \in {"idle", "loop", "update", "rm"} \union Deploy OBVIOUS
  <2>3. op \in {"none", "removeStack", "deploy"} \union Sweeps OBVIOUS
  <2>4. Idle \in Request BY IdleRequest
  <2> QED BY <1>2, <2>1, <2>2, <2>3, <2>4 DEF Request
<1>4. /\ x.pc = "loop" /\ x.op = op /\ x.todo = ids /\ x.listed = ids
      /\ x.reached = {} /\ x.stack = None
  BY DEF Idle
<1>5. req'[r] = x /\ used' = used BY <1>1, <1>2, <1>3, SetRequest DEF SInv
<1> HIDE DEF x
<1>6. ReqOK(r)' BY <1>4, <1>5 DEF ReqOK, Deploy
<1>7. SweepOK(r)' /\ FileOK(r)' BY <1>4, <1>5 DEF SweepOK, FileOK, At
<1> QED BY <1>1, <1>2, <1>3, <1>4, <1>6, <1>7, RequestStep DEF x

LEMMA InspectKeeps ==
  ASSUME SInv, NEW r \in Requests, Inspect(r) PROVE SInv'
<1>1. UNCHANGED <<engine, index, used, files>> /\ req[r].pc = "loop" BY DEF Inspect, At
<1>2. /\ Typed /\ ReqOK(r) /\ SweepOK(r) /\ req[r] \in Request
      /\ req[r].todo \subseteq req[r].listed /\ req[r].op \in Sweeps
      /\ req[r].listed \subseteq used /\ used \subseteq Ids /\ req[r].stack = None
      /\ req[r].replicas \in 0..MaxReplicas
  BY <1>1, RequestFields DEF SInv, ReqOK, Typed, Deploy
<1>3. PICK i \in req[r].todo :
        \/ Answer(r)
        \/ /\ Exists(i) /\ LeavesAlone(r, i)
           /\ Set(r, [req[r] EXCEPT !.todo = @ \ {i}])
        \/ /\ Exists(i) /\ ~LeavesAlone(r, i)
           /\ Set(r, [req[r] EXCEPT !.pc = "update", !.todo = @ \ {i}, !.id = i,
                                    !.version = engine[i].version,
                                    !.body = NextSpec(r, engine[i].spec)])
  BY DEF Inspect
<1>4. i \in Ids /\ i \in req[r].listed BY <1>2
<1>5. ASSUME Exists(i), LeavesAlone(r, i), Set(r, [req[r] EXCEPT !.todo = @ \ {i}])
      PROVE  SInv'
  <2> DEFINE x == [req[r] EXCEPT !.todo = @ \ {i}]
  <2>1. x \in Request BY <1>2 DEF Request
  <2>2. /\ x.pc = "loop" /\ x.op = req[r].op /\ x.todo = req[r].todo \ {i}
        /\ x.listed = req[r].listed /\ x.reached = req[r].reached /\ x.stack = None
    BY <1>1, <1>2 DEF Request
  <2>3. req'[r] = x BY <1>2, <1>5, <2>1, SetRequest
  <2> HIDE DEF x
  <2>4. ReqOK(r)' BY <1>1, <1>2, <2>2, <2>3 DEF ReqOK, Deploy
  <2>5. SweepOK(r)'
    <3>1. req[r].op = "scale" /\ engine[i].spec.global BY <1>5 DEF LeavesAlone
    <3> QED BY <1>1, <1>2, <2>2, <2>3, <3>1 DEF SweepOK, Exists
  <2>6. FileOK(r)' BY <2>2, <2>3 DEF FileOK, At
  <2> QED BY <1>1, <1>5, <2>1, <2>2, <2>4, <2>5, <2>6, RequestStep DEF x
<1>6. ASSUME Exists(i), ~LeavesAlone(r, i),
             Set(r, [req[r] EXCEPT !.pc = "update", !.todo = @ \ {i}, !.id = i,
                                   !.version = engine[i].version,
                                   !.body = NextSpec(r, engine[i].spec)])
      PROVE  SInv'
  <2> DEFINE body == NextSpec(r, engine[i].spec)
             x == [req[r] EXCEPT !.pc = "update", !.todo = @ \ {i}, !.id = i,
                                 !.version = engine[i].version, !.body = body]
  <2>1. body \in Spec0 /\ engine[i].version \in Nat /\ engine[i].version <= index
    BY <1>2, <1>4, <1>6, ServiceFields, NextSpecType DEF SInv, ServiceOK
  <2> HIDE DEF body
  <2>2. x \in Request
    <3>1. /\ "update" \in {"idle", "loop", "update", "rm"} \union Deploy
          /\ body \in Spec0 \union {None} /\ i \in Ids \union {None}
      BY <1>4, <2>1
    <3>2. req[r] \in Request BY <1>2
    <3>3. [req[r] EXCEPT !.todo = @ \ {i}] \in Request BY <3>2 DEF Request
    <3> DEFINE y == [req[r] EXCEPT !.todo = @ \ {i}]
    <3> HIDE DEF y
    <3>4. [y EXCEPT !.pc = "update", !.id = i, !.version = engine[i].version, !.body = body]
            \in Request
      BY <2>1, <3>1, <3>3 DEF Request, y
    <3>5. x = [y EXCEPT !.pc = "update", !.id = i, !.version = engine[i].version, !.body = body]
      BY <3>2 DEF y, Request
    <3> QED BY <3>4, <3>5
  <2>3. /\ x.pc = "update" /\ x.op = req[r].op /\ x.todo = req[r].todo \ {i} /\ x.id = i
        /\ x.listed = req[r].listed /\ x.reached = req[r].reached /\ x.stack = None
        /\ x.version = engine[i].version /\ x.body = body /\ x.replicas = req[r].replicas
    BY <1>1, <1>2 DEF Request
  <2>4. Set(r, x) BY <1>6 DEF body
  <2>5. req'[r] = x BY <1>2, <2>2, <2>4, SetRequest
  <2> HIDE DEF x
  <2>6. BodyFits(r)'
    BY <1>1, <1>6, <2>3, <2>5 DEF BodyFits, NextSpec, LeavesAlone, Exists, body
  <2>7. ReqOK(r)' BY <1>1, <1>2, <1>4, <2>1, <2>3, <2>5, <2>6 DEF ReqOK, Deploy
  <2>8. SweepOK(r)' BY <1>1, <1>2, <2>3, <2>5 DEF SweepOK, Exists
  <2>9. FileOK(r)' BY <2>3, <2>5 DEF FileOK, At
  <2> QED BY <1>1, <2>2, <2>3, <2>4, <2>7, <2>8, <2>9, RequestStep
<1> QED BY <1>1, <1>3, <1>5, <1>6, AnswerKeeps

(* A write to the engine's store.                                           *)
LEMMA StoreMoves ==
  ASSUME SInv, NEW i \in Ids, NEW n \in Names, NEW spec \in Spec0,
         NEW prev \in Spec0 \union {None}, Store(i, n, spec, prev),
         used' = used \union {i},
         i \in used => Exists(i) /\ spec.global = engine[i].spec.global,
         prev # None => prev.global = spec.global
  PROVE  EngineMoves
<1> DEFINE s == [name |-> n, spec |-> spec, prev |-> prev, version |-> index + 1]
<1>1. index \in Nat /\ index' = index + 1 /\ index' \in 0..MaxIndex
  BY BoundsAssumption DEF SInv, Typed, Store
<1>2. engine' = [engine EXCEPT ![i] = s] BY DEF Store
<1>3. s \in Service /\ s # None BY <1>1, NewService
<1>4. s.spec = spec /\ s.prev = prev /\ s.version = index' BY <1>1
<1> HIDE DEF s
<1>5. engine' \in [Ids -> Service \union {None}] BY <1>2, <1>3 DEF SInv, Typed
<1>6. engine'[i] = s /\ \A j \in Ids \ {i} : engine'[j] = engine[j]
  BY <1>2 DEF SInv, Typed
<1>7. Moves(i) BY <1>1, <1>3, <1>4, <1>6 DEF Moves
<1>8. \A j \in Ids \ {i} : Moves(j) BY <1>6 DEF Moves
<1> QED BY <1>1, <1>5, <1>7, <1>8 DEF EngineMoves, SInv, Typed

LEMMA RemovalMoves ==
  ASSUME SInv, NEW i \in Ids, engine' = [engine EXCEPT ![i] = None],
         UNCHANGED <<index, used>>
  PROVE  EngineMoves
BY DEF EngineMoves, Moves, SInv, Typed

(* Who meets no other's request, nor file.                                  *)
LEMMA EngineStep ==
  ASSUME SInv, EngineMoves, UNCHANGED <<files, req>>, Requests # {} PROVE SInv'
<1>1. PICK r \in Requests : TRUE OBVIOUS
<1>2. Set(r, req[r]) /\ req[r] \in Request
  BY RequestFields DEF Set, SInv, Typed
<1>3. ReqOK(r)' /\ SweepOK(r)' BY RequestKept
<1>4. FileOK(r)' BY DEF SInv, FileOK, At
<1>5. files' \in [Stacks -> Images \union {None, "empty"}] BY DEF SInv, Typed
<1> QED BY <1>2, <1>3, <1>4, <1>5, StepKeeps

(* What an accepted update writes.                                          *)
UpdatedSpec(r) ==
  IF req[r].op = "rollback" THEN engine[req[r].id].prev ELSE req[r].body

LEMMA UpdateWrites ==
  ASSUME SInv, NEW r \in Requests, Update(r)
  PROVE  /\ req[r].pc = "update" /\ req[r].id \in Ids /\ req[r].id \in used
         /\ Exists(req[r].id) /\ BodyFits(r)
         /\ engine[req[r].id].version = req[r].version
         /\ engine[req[r].id] \in Service
         /\ UpdatedSpec(r) \in Spec0
         /\ UpdatedSpec(r).global = engine[req[r].id].spec.global
         /\ Store(req[r].id, engine[req[r].id].name, UpdatedSpec(r),
                  engine[req[r].id].spec)
         /\ UNCHANGED <<used, files>>
<1> DEFINE i == req[r].id
<1>1. req[r].pc = "update" /\ Acceptable(r) /\ UNCHANGED <<used, files>>
      /\ Store(i, engine[i].name, UpdatedSpec(r), engine[i].spec)
  BY DEF Update, At, UpdatedSpec
<1>2. ReqOK(r) /\ Typed /\ ServiceOK(i)
      /\ i \in Ids /\ i \in used /\ req[r].body \in Spec0 /\ BodyFits(r)
  BY <1>1 DEF SInv, ReqOK, Typed
<1>3. Exists(i) /\ engine[i].version = req[r].version
      /\ (req[r].op = "rollback" => engine[i].prev # None)
  BY <1>1 DEF Acceptable, SentVersion
<1>4. /\ engine[i] \in Service /\ engine[i].spec \in Spec0
      /\ engine[i].prev \in Spec0 \union {None}
  BY <1>2, <1>3, ServiceFields
<1>5. UpdatedSpec(r) \in Spec0 BY <1>2, <1>3, <1>4 DEF UpdatedSpec
<1>6. UpdatedSpec(r).global = engine[i].spec.global
  <2>1. CASE req[r].op = "rollback" BY <1>2, <1>3, <2>1 DEF UpdatedSpec, ServiceOK
  <2>2. CASE req[r].op # "rollback"
    <3>1. req[r].body = NextSpec(r, engine[i].spec) BY <1>2, <1>3 DEF BodyFits
    <3>2. req[r].replicas \in 0..MaxReplicas BY <1>2, RequestFields
    <3> QED BY <1>4, <2>2, <3>1, <3>2, NextSpecType DEF UpdatedSpec
  <2> QED BY <2>1, <2>2
<1> QED BY <1>1, <1>2, <1>3, <1>4, <1>5, <1>6

LEMMA UpdateKeeps ==
  ASSUME SInv, NEW r \in Requests, Update(r) PROVE SInv'
<1> DEFINE i == req[r].id
           spec == UpdatedSpec(r)
<1>1. /\ req[r].pc = "update" /\ i \in Ids /\ i \in used /\ Exists(i)
      /\ spec \in Spec0 /\ spec.global = engine[i].spec.global
      /\ Store(i, engine[i].name, spec, engine[i].spec) /\ UNCHANGED <<used, files>>
  BY UpdateWrites
<1>2. engine[i].name \in Names /\ engine[i].spec \in Spec0
  BY <1>1, ServiceFields DEF SInv
<1>3. EngineMoves
  <2> HIDE DEF spec, i
  <2>1. used' = used \union {i} BY <1>1
  <2> QED BY <1>1, <1>2, <2>1, StoreMoves
<1> DEFINE x == [req[r] EXCEPT !.pc = "loop", !.reached = @ \union {i},
                              !.id = None, !.body = None, !.version = 0]
<1>4. /\ Typed /\ ReqOK(r) /\ SweepOK(r) /\ req[r] \in Request
      /\ req[r].todo \subseteq req[r].listed /\ req[r].op \in Sweeps
      /\ i \in req[r].listed /\ req[r].stack = None /\ req[r].reached \subseteq req[r].listed
      /\ req[r].listed \subseteq used /\ used \subseteq Ids
  BY <1>1, RequestFields DEF SInv, ReqOK, Deploy, Typed
<1>5. Set(r, x) BY DEF Update, Reached
<1>6. x \in Request
  <2>1. /\ "loop" \in {"idle", "loop", "update", "rm"} \union Deploy
        /\ None \in Spec0 \union {None} /\ None \in Ids \union {None} /\ 0 \in Nat
    OBVIOUS
  <2>2. req[r] \in Request /\ i \in Ids BY <1>1, <1>4
  <2> HIDE DEF i
  <2> QED BY <2>1, <2>2 DEF Request
<1>7. /\ x.pc = "loop" /\ x.op = req[r].op /\ x.todo = req[r].todo
      /\ x.listed = req[r].listed /\ x.reached = req[r].reached \union {i}
      /\ x.stack = None
  BY <1>4 DEF Request
<1>8. req'[r] = x BY <1>4, <1>5, <1>6, SetRequest
<1> HIDE DEF x
<1>9. ReqOK(r)' BY <1>1, <1>4, <1>7, <1>8 DEF ReqOK, Deploy
<1>10. SweepOK(r)'
  <2>1. ASSUME NEW j \in used, Exists(j)'
        PROVE  Exists(j) /\ engine'[j].spec.global = engine[j].spec.global
    <3>1. j \in Ids /\ Moves(j) BY <1>3, <1>4 DEF EngineMoves
    <3> QED BY <2>1, <3>1 DEF Moves, Exists
  <2> QED BY <1>1, <1>4, <1>7, <1>8, <2>1 DEF SweepOK
<1>11. FileOK(r)' BY <1>7, <1>8 DEF FileOK, At
<1>12. files' \in [Stacks -> Images \union {None, "empty"}] BY <1>1, <1>4 DEF Typed
<1> QED BY <1>1, <1>3, <1>5, <1>6, <1>7, <1>9, <1>10, <1>11, <1>12, StepKeeps

-----------------------------------------------------------------------------
(* Services created and removed.                                            *)

LEMMA CreateServiceKeeps ==
  ASSUME SInv, NEW r \in Requests, CreateService(r) PROVE SInv'
<1>1. PICK i \in Ids \ used, n \in Names \ GlobalNames, k \in 0..MaxReplicas,
           image \in Images :
        /\ Store(i, n, [Fresh(n, image) EXCEPT !.replicas = k], None)
        /\ used' = used \union {i}
  BY DEF CreateService
<1>2. [Fresh(n, image) EXCEPT !.replicas = k] \in Spec0 BY FreshSpec, SpecChanges
<1>3. EngineMoves BY <1>1, <1>2, StoreMoves
<1> QED BY <1>3, EngineStep DEF CreateService

LEMMA RemoveServiceKeeps ==
  ASSUME SInv, NEW r \in Requests, RemoveService(r) PROVE SInv'
<1>1. EngineMoves BY RemovalMoves DEF RemoveService
<1> QED BY <1>1, EngineStep DEF RemoveService

LEMMA BeginRemoveStackKeeps ==
  ASSUME SInv, NEW r \in Requests, BeginRemoveStack(r) PROVE SInv'
<1>1. PICK st \in Stacks :
        Set(r, [Idle EXCEPT !.pc = "rm", !.op = "removeStack",
                            !.todo = {i \in Ids : Member(i, st)}])
  BY DEF BeginRemoveStack
<1> DEFINE ids == {i \in Ids : Member(i, st)}
           x == [Idle EXCEPT !.pc = "rm", !.op = "removeStack", !.todo = ids]
<1>2. ids \in SUBSET Ids /\ ids \in SUBSET (Ids \union Names) OBVIOUS
<1> HIDE DEF ids
<1>3. x \in Request
  <2>1. /\ "rm" \in {"idle", "loop", "update", "rm"} \union Deploy
        /\ "removeStack" \in {"none", "removeStack", "deploy"} \union Sweeps
        /\ Idle \in Request
    BY IdleRequest
  <2> QED BY <1>2, <2>1 DEF Request
<1>4. /\ x.pc = "rm" /\ x.todo = ids /\ x.stack = None /\ x.reached = {} /\ x.listed = {}
  BY DEF Idle
<1>5. Set(r, x) BY <1>1 DEF ids
<1>6. req'[r] = x BY <1>3, <1>5, SetRequest DEF SInv
<1> HIDE DEF x
<1>7. ReqOK(r)' /\ SweepOK(r)' /\ FileOK(r)'
  BY <1>2, <1>4, <1>6 DEF ReqOK, SweepOK, FileOK, At, Deploy
<1> QED BY <1>3, <1>4, <1>5, <1>7, RequestStep DEF BeginRemoveStack

LEMMA CliRemoveKeeps ==
  ASSUME SInv, NEW r \in Requests, CliRemove(r) PROVE SInv'
<1>1. UNCHANGED <<index, used, files>> /\ req[r].pc = "rm" BY DEF CliRemove, At
<1>2. /\ req[r] \in Request /\ ReqOK(r) /\ req[r].todo \subseteq Ids
      /\ req[r].stack = None /\ req[r].reached \subseteq req[r].listed
  BY <1>1, RequestFields DEF SInv, ReqOK, Deploy
<1>3. CASE req[r].todo = {} BY <1>1, <1>3, AnswerKeeps DEF CliRemove
<1>4. CASE req[r].todo # {}
  <2>1. PICK i \in req[r].todo : /\ engine' = [engine EXCEPT ![i] = None]
                                 /\ Set(r, [req[r] EXCEPT !.todo = @ \ {i}])
    BY <1>4 DEF CliRemove
  <2> DEFINE x == [req[r] EXCEPT !.todo = @ \ {i}]
  <2>2. x \in Request BY <1>2 DEF Request
  <2>3. /\ x.pc = "rm" /\ x.todo = req[r].todo \ {i} /\ x.stack = None
        /\ x.reached = req[r].reached /\ x.listed = req[r].listed
    BY <1>1, <1>2 DEF Request
  <2>4. req'[r] = x BY <2>1, <2>2, SetRequest DEF SInv
  <2> HIDE DEF x
  <2>5. ReqOK(r)' /\ SweepOK(r)' /\ FileOK(r)'
    BY <1>2, <2>3, <2>4 DEF ReqOK, SweepOK, FileOK, At, Deploy
  <2>6. EngineMoves BY <1>1, <1>2, <2>1, RemovalMoves
  <2>7. files' \in [Stacks -> Images \union {None, "empty"}] BY <1>1 DEF SInv, Typed
  <2> QED BY <1>1, <2>1, <2>2, <2>3, <2>5, <2>6, <2>7, StepKeeps DEF x
<1> QED BY <1>3, <1>4

-----------------------------------------------------------------------------
(* Deploys.                                                                 *)

LEMMA BeginDeployKeeps ==
  ASSUME SInv, NEW r \in Requests, BeginDeploy(r) PROVE SInv'
<1>1. PICK st \in Stacks, image \in Images :
        req' = [s \in Requests |->
          IF s = r
            THEN [Idle EXCEPT !.pc = "open", !.op = "deploy", !.stack = st,
                              !.image = image,
                              !.shared = \E q \in Requests \ {r} : Deploying(q, st)]
            ELSE IF Deploying(s, st) THEN [req[s] EXCEPT !.shared = TRUE]
                                     ELSE req[s]]
  BY DEF BeginDeploy
<1>2. UNCHANGED <<engine, index, used, files>> BY DEF BeginDeploy
<1>3. PICK b \in BOOLEAN : b = \E q \in Requests \ {r} : Deploying(q, st) OBVIOUS
<1> DEFINE x == [Idle EXCEPT !.pc = "open", !.op = "deploy", !.stack = st,
                             !.image = image, !.shared = b]
<1>4. x \in Request
  <2>1. /\ "open" \in {"idle", "loop", "update", "rm"} \union Deploy
        /\ "deploy" \in {"none", "removeStack", "deploy"} \union Sweeps
        /\ st \in Stacks \union {None} /\ image \in Images \union {None}
    BY DEF Deploy
  <2>2. [Idle EXCEPT !.pc = "open", !.op = "deploy", !.stack = st,
                     !.image = image] \in Request
    <3>1. Idle \in Request BY IdleRequest
    <3> QED BY <2>1, <3>1 DEF Request
  <2> DEFINE y == [Idle EXCEPT !.pc = "open", !.op = "deploy", !.stack = st,
                               !.image = image]
  <2>3. y \in Request BY <2>2
  <2>4. x = [y EXCEPT !.shared = b] BY DEF Idle
  <2> HIDE DEF x, y
  <2> QED BY <2>3, <2>4 DEF Request
<1>5. /\ x.pc = "open" /\ x.stack = st /\ x.image = image /\ x.shared = b
      /\ x.reached = {} /\ x.listed = {}
  BY DEF Idle
<1>6. req'[r] = x BY <1>1, <1>3
<1> HIDE DEF x
<1>7. ReqOK(r)' /\ SweepOK(r)' /\ FileOK(r)'
  BY <1>5, <1>6 DEF ReqOK, SweepOK, FileOK, At, Deploy
<1>8. ASSUME NEW s \in Requests \ {r}
      PROVE  /\ req'[s] \in Request /\ req'[s].pc = req[s].pc /\ req'[s].op = req[s].op
             /\ req'[s].stack = req[s].stack /\ req'[s].todo = req[s].todo
             /\ req'[s].id = req[s].id /\ req'[s].version = req[s].version
             /\ req'[s].body = req[s].body /\ req'[s].listed = req[s].listed
             /\ req'[s].reached = req[s].reached /\ req'[s].image = req[s].image
             /\ req'[s].read = req[s].read /\ req'[s].replicas = req[s].replicas
             /\ req'[s].shared = (req[s].shared \/ Deploying(s, st))
  <2>1. req[s] \in Request BY RequestFields DEF SInv
  <2>2. CASE Deploying(s, st)
    <3>1. req'[s] = [req[s] EXCEPT !.shared = TRUE] BY <1>1, <2>2
    <3> QED BY <2>1, <2>2, <3>1 DEF Request
  <2>3. CASE ~Deploying(s, st)
    <3>1. req'[s] = req[s] BY <1>1, <2>3
    <3> QED BY <2>1, <2>3, <3>1 DEF Request
  <2> QED BY <2>2, <2>3
<1>9. req' \in [Requests -> Request]
  <2>1. \A s \in Requests : req'[s] \in Request BY <1>4, <1>6, <1>8
  <2> QED BY <1>1, <2>1
<1>10. Typed' /\ \A i \in Ids : ServiceOK(i)'
  BY <1>2, <1>9 DEF SInv, Typed, ServiceOK, Exists
<1>11. ASSUME NEW s \in Requests \ {r} PROVE ReqOK(s)' /\ SweepOK(s)' /\ FileOK(s)'
  <2>1. ReqOK(s) /\ SweepOK(s) /\ FileOK(s) BY DEF SInv
  <2>2. BodyFits(s) => BodyFits(s)'
    BY <1>2, <1>8 DEF BodyFits, NextSpec, LeavesAlone, Exists
  <2>3. ReqOK(s)' BY <1>2, <1>8, <2>1, <2>2 DEF ReqOK
  <2>4. SweepOK(s)' BY <1>2, <1>8, <2>1 DEF SweepOK, Exists
  <2>5. FileOK(s)' BY <1>2, <1>8, <2>1 DEF FileOK, At, StackFile
  <2> QED BY <2>3, <2>4, <2>5
<1>12. \A s \in Requests : req[s].stack = st => Deploying(s, st)
  BY NoneAssumption DEF SInv, ReqOK, Deploying, Free, At, Deploy
<1>13. ASSUME NEW p \in Requests, NEW q \in Requests, p # q PROVE SharedOK(p, q)'
  <2>1. SharedOK(p, q) BY <1>13 DEF SInv
  <2>2. CASE p = r BY <1>3, <1>5, <1>6, <1>8, <1>12, <1>13, <2>2 DEF SharedOK
  <2>3. CASE q = r BY <1>3, <1>5, <1>6, <1>8, <1>12, <1>13, <2>3 DEF SharedOK
  <2>4. CASE p # r /\ q # r BY <1>8, <2>1, <2>4 DEF SharedOK
  <2> QED BY <2>2, <2>3, <2>4
<1> QED BY <1>7, <1>10, <1>11, <1>13 DEF SInv

(* What the steps of one deploy begin with.                                 *)
LEMMA DeployFields ==
  ASSUME SInv, NEW r \in Requests, req[r].pc \in Deploy
  PROVE  /\ req[r] \in Request /\ ReqOK(r) /\ FileOK(r)
         /\ req[r].stack \in Stacks /\ req[r].image \in Images
         /\ StackFile(req[r].stack) = req[r].stack
         /\ req[r].reached \subseteq req[r].listed
         /\ files \in [Stacks -> Images \union {None, "empty"}]
         /\ None \notin Images
BY RequestFields, NoneAssumption DEF SInv, ReqOK, StackFile, Typed

(* A deploy that goes on with its image, its stack and its history.         *)
LEMMA GoOn ==
  ASSUME SInv, NEW r \in Requests, NEW step \in Deploy, Goto(r, step),
         req[r].pc \in Deploy
  PROVE  /\ req'[r] \in Request /\ Set(r, req'[r])
         /\ req'[r].pc = step /\ req'[r].stack = req[r].stack
         /\ req'[r].image = req[r].image /\ req'[r].shared = req[r].shared
         /\ req'[r].read = req[r].read /\ req'[r].todo = req[r].todo
         /\ req'[r].reached = req[r].reached /\ req'[r].listed = req[r].listed
<1> DEFINE x == [req[r] EXCEPT !.pc = step]
<1>1. x \in Request BY DeployFields DEF Request
<1>2. /\ x.pc = step /\ x.stack = req[r].stack
      /\ x.image = req[r].image /\ x.shared = req[r].shared
      /\ x.read = req[r].read /\ x.todo = req[r].todo
      /\ x.reached = req[r].reached /\ x.listed = req[r].listed
  BY DeployFields DEF Request
<1>3. Set(r, x) BY DEF Goto
<1> HIDE DEF x
<1>4. req'[r] = x BY <1>1, <1>3, SetRequest DEF SInv
<1> QED BY <1>1, <1>2, <1>3, <1>4

LEMMA WriteFileKeeps ==
  ASSUME SInv, NEW r \in Requests, OpenFile(r) \/ FillFile(r) PROVE SInv'
<1>1. /\ UNCHANGED <<engine, index, used>> /\ req[r].pc \in {"open", "fill"}
      /\ req[r].pc \in Deploy
  BY DEF OpenFile, FillFile, At, Deploy
<1>2. /\ files' = [files EXCEPT ![req[r].stack] =
                     IF req[r].pc = "open" THEN "empty" ELSE req[r].image]
      /\ Goto(r, IF req[r].pc = "open" THEN "fill" ELSE "cli")
  BY <1>1, DeployFields DEF OpenFile, FillFile, At
<1>3. (IF req[r].pc = "open" THEN "fill" ELSE "cli") \in Deploy BY DEF Deploy
<1>4. /\ req'[r] \in Request /\ Set(r, req'[r])
      /\ req'[r].pc = (IF req[r].pc = "open" THEN "fill" ELSE "cli")
      /\ req'[r].stack = req[r].stack
      /\ req'[r].image = req[r].image /\ req'[r].shared = req[r].shared
      /\ req'[r].reached = req[r].reached /\ req'[r].listed = req[r].listed
  BY <1>1, <1>2, <1>3, GoOn
<1>5. /\ files' \in [Stacks -> Images \union {None, "empty"}]
      /\ \A p \in Stacks : files'[p] = files[p] \/ p = req[r].stack
      /\ req[r].pc = "fill" => files'[req[r].stack] = req[r].image
  BY <1>1, <1>2, DeployFields
<1>6. ReqOK(r)' /\ SweepOK(r)' BY <1>1, <1>4, DeployFields DEF ReqOK, SweepOK, Deploy
<1>7. FileOK(r)' BY <1>1, <1>4, <1>5 DEF FileOK, At, StackFile
<1>8. EngineMoves BY <1>1, EngineStays
<1>9. PICK x \in Request : x = req'[r] BY <1>4
<1> QED BY <1>4, <1>5, <1>6, <1>7, <1>8, <1>9, StepKeeps

LEMMA CliReadKeeps ==
  ASSUME SInv, NEW r \in Requests, CliRead(r) PROVE SInv'
<1>1. UNCHANGED <<engine, index, used, files>> /\ req[r].pc = "cli" /\ req[r].pc \in Deploy
  BY DEF CliRead, At, Deploy
<1> DEFINE file == files[req[r].stack]
           ns == {n \in Names : StackOf[n] = req[r].stack}
           x == [req[r] EXCEPT !.pc = "apply", !.read = file, !.todo = ns]
<1>2. Answer(r) \/ (file \in Images /\ Set(r, x))
  BY <1>1, DeployFields DEF CliRead
<1>3. ASSUME file \in Images, Set(r, x) PROVE SInv'
  <2>1. ns \in SUBSET Names /\ ns \in SUBSET (Ids \union Names) OBVIOUS
  <2>2. ~req[r].shared => file = req[r].image
    BY <1>1, DeployFields DEF FileOK, At
  <2> HIDE DEF ns, file
  <2>3. x \in Request
    <3>1. req[r] \in Request BY <1>1, DeployFields
    <3>2. "apply" \in {"idle", "loop", "update", "rm"} \union Deploy BY DEF Deploy
    <3> QED BY <1>3, <2>1, <3>1, <3>2 DEF Request
  <2>4. /\ x.pc = "apply" /\ x.read = file /\ x.todo = ns /\ x.stack = req[r].stack
        /\ x.image = req[r].image /\ x.shared = req[r].shared
        /\ x.reached = req[r].reached /\ x.listed = req[r].listed
    BY <1>1, DeployFields DEF Request
  <2>5. Set(r, x) BY <1>3
  <2>6. req'[r] = x BY <2>3, <2>5, SetRequest DEF SInv
  <2> HIDE DEF x
  <2>7. ReqOK(r)' /\ SweepOK(r)'
    BY <1>1, <1>3, <2>1, <2>4, <2>6, DeployFields DEF ReqOK, SweepOK, Deploy
  <2>8. FileOK(r)' BY <2>2, <2>4, <2>6 DEF FileOK, At
  <2> QED BY <1>1, <2>3, <2>4, <2>5, <2>7, <2>8, RequestStep
<1> QED BY <1>1, <1>2, <1>3, AnswerKeeps

LEMMA RemoveFileKeeps ==
  ASSUME SInv, NEW r \in Requests, RemoveFile(r) PROVE SInv'
<1>1. /\ UNCHANGED <<engine, index, used>> /\ Answer(r) /\ req[r].pc \in Deploy
      /\ files' = [files EXCEPT ![StackFile(req[r].stack)] = None]
  BY DEF RemoveFile, At, Deploy
<1>2. /\ files' \in [Stacks -> Images \union {None, "empty"}]
      /\ \A p \in Stacks : files'[p] = files[p] \/ p = req[r].stack
  BY <1>1, DeployFields
<1>3. EngineMoves BY <1>1, EngineStays
<1> QED BY <1>1, <1>2, <1>3, Answered, StepKeeps

(* What the CLI writes for a service of the file: it updates the one there  *)
(* is, or creates it.                                                       *)
Applies(r, n, i, spec, prev) ==
  /\ req[r].pc = "apply" /\ n \in Names /\ req[r].read \in Images
  /\ Set(r, [req[r] EXCEPT !.todo = @ \ {n}])
  /\ Store(i, n, spec, prev) /\ used' = used \union {i} /\ files' = files
  /\ \/ /\ i \in used /\ Exists(i) /\ prev = engine[i].spec
        /\ spec.global = engine[i].spec.global /\ prev # None
        /\ spec = [engine[i].spec EXCEPT !.image = req[r].read, !.replicas = 1]
     \/ i \notin used /\ prev = None /\ spec = Fresh(n, req[r].read)

Applied(r) ==
  \E n \in req[r].todo, i \in Ids, spec \in Spec0, prev \in Spec0 \union {None} :
    Applies(r, n, i, spec, prev)

LEMMA ApplyWrites ==
  ASSUME SInv, NEW r \in Requests, CliApply(r) PROVE Applied(r)
<1>1. req[r].pc = "apply" /\ files' = files /\ req[r].pc \in Deploy
  BY DEF CliApply, At, Deploy
<1>2. req[r].todo \subseteq Names /\ req[r].read \in Images
  BY <1>1, DeployFields DEF ReqOK
<1>3. PICK n \in req[r].todo :
        /\ Set(r, [req[r] EXCEPT !.todo = @ \ {n}])
        /\ \/ \E i \in Named(n) :
                /\ Store(i, n, [engine[i].spec EXCEPT !.image = req[r].read,
                                                      !.replicas = 1],
                         engine[i].spec)
                /\ UNCHANGED used
           \/ /\ Named(n) = {}
              /\ \E i \in Ids \ used : /\ Store(i, n, Fresh(n, req[r].read), None)
                                       /\ used' = used \union {i}
  BY DEF CliApply
<1>4. ASSUME NEW i \in Named(n), used' = used,
             Store(i, n, [engine[i].spec EXCEPT !.image = req[r].read, !.replicas = 1],
                   engine[i].spec)
      PROVE  /\ i \in Ids /\ i \in used /\ Exists(i) /\ used' = used \union {i}
             /\ engine[i].spec \in Spec0 \union {None} /\ engine[i].spec # None
             /\ [engine[i].spec EXCEPT !.image = req[r].read, !.replicas = 1] \in Spec0
             /\ [engine[i].spec EXCEPT !.image = req[r].read, !.replicas = 1].global
                  = engine[i].spec.global
  <2>1. i \in Ids /\ Exists(i) /\ 1 \in 0..MaxReplicas BY BoundsAssumption DEF Named
  <2>2. i \in used BY <2>1 DEF SInv, ServiceOK
  <2>3. engine[i].spec \in Spec0 BY <2>1, ServiceFields DEF SInv
  <2> QED BY <1>2, <1>4, <2>1, <2>2, <2>3, SpecChanges, NoneAssumption
<1>5. ASSUME NEW i \in Ids \ used, Store(i, n, Fresh(n, req[r].read), None)
      PROVE  Fresh(n, req[r].read) \in Spec0 /\ None \in Spec0 \union {None}
  BY <1>2, FreshSpec
<1>6. CASE \E i \in Named(n) :
             /\ Store(i, n, [engine[i].spec EXCEPT !.image = req[r].read, !.replicas = 1],
                      engine[i].spec)
             /\ UNCHANGED used
  <2>1. PICK i \in Named(n) :
             /\ Store(i, n, [engine[i].spec EXCEPT !.image = req[r].read, !.replicas = 1],
                      engine[i].spec)
             /\ used' = used
    BY <1>6
  <2> DEFINE spec == [engine[i].spec EXCEPT !.image = req[r].read, !.replicas = 1]
  <2>2. spec \in Spec0 /\ spec.global = engine[i].spec.global BY <1>4, <2>1
  <2>3. spec = [engine[i].spec EXCEPT !.image = req[r].read, !.replicas = 1] OBVIOUS
  <2>4. Store(i, n, spec, engine[i].spec) BY <2>1
  <2> HIDE DEF spec
  <2>5. Applies(r, n, i, spec, engine[i].spec)
    BY <1>1, <1>2, <1>3, <1>4, <2>1, <2>2, <2>3, <2>4 DEF Applies
  <2> QED BY <1>3, <1>4, <2>1, <2>2, <2>5 DEF Applied
<1>7. CASE \E i \in Ids \ used : /\ Store(i, n, Fresh(n, req[r].read), None)
                                 /\ used' = used \union {i}
  <2>1. PICK i \in Ids \ used : /\ Store(i, n, Fresh(n, req[r].read), None)
                                 /\ used' = used \union {i}
    BY <1>7
  <2> DEFINE spec == Fresh(n, req[r].read)
             prev == None
  <2>2. spec \in Spec0 /\ prev \in Spec0 \union {None} /\ prev = None
        /\ spec = Fresh(n, req[r].read) /\ Store(i, n, spec, prev)
    BY <1>5, <2>1
  <2> HIDE DEF spec, prev
  <2>3. Applies(r, n, i, spec, prev)
    BY <1>1, <1>2, <1>3, <2>1, <2>2 DEF Applies
  <2> QED BY <1>3, <2>1, <2>2, <2>3 DEF Applied
<1>8. \/ \E i \in Named(n) :
             /\ Store(i, n, [engine[i].spec EXCEPT !.image = req[r].read, !.replicas = 1],
                      engine[i].spec)
             /\ UNCHANGED used
      \/ \E i \in Ids \ used : /\ Store(i, n, Fresh(n, req[r].read), None)
                               /\ used' = used \union {i}
  BY <1>3
<1> QED BY <1>6, <1>7, <1>8

LEMMA CliApplyKeeps ==
  ASSUME SInv, NEW r \in Requests, CliApply(r) PROVE SInv'
<1>0. PICK n \in req[r].todo, i \in Ids, spec \in Spec0, prev \in Spec0 \union {None} :
        Applies(r, n, i, spec, prev)
  BY ApplyWrites DEF Applied
<1>1. /\ req[r].pc = "apply" /\ n \in Names /\ req[r].read \in Images
      /\ Set(r, [req[r] EXCEPT !.todo = @ \ {n}])
      /\ Store(i, n, spec, prev) /\ used' = used \union {i} /\ files' = files
      /\ \/ /\ i \in used /\ Exists(i) /\ prev = engine[i].spec
            /\ spec.global = engine[i].spec.global /\ prev # None
         \/ i \notin used /\ prev = None
  BY <1>0 DEF Applies
<1>2. EngineMoves BY <1>1, StoreMoves
<1>3. req[r].pc \in Deploy BY <1>1 DEF Deploy
<1> DEFINE x == [req[r] EXCEPT !.todo = @ \ {n}]
<1>4. x \in Request BY <1>3, DeployFields DEF Request
<1>5. /\ x.pc = "apply" /\ x.read = req[r].read /\ x.todo = req[r].todo \ {n}
      /\ x.stack = req[r].stack /\ x.image = req[r].image /\ x.shared = req[r].shared
      /\ x.reached = req[r].reached /\ x.listed = req[r].listed
  BY <1>1, <1>3, DeployFields DEF Request
<1>6. Set(r, x) BY <1>1
<1>7. req'[r] = x BY <1>4, <1>6, SetRequest DEF SInv
<1> HIDE DEF x
<1>8. ReqOK(r)' /\ SweepOK(r)'
  BY <1>1, <1>3, <1>5, <1>7, DeployFields DEF ReqOK, SweepOK, Deploy
<1>9. FileOK(r)' BY <1>1, <1>3, <1>5, <1>7, DeployFields DEF FileOK, At
<1>10. files' = files /\ files' \in [Stacks -> Images \union {None, "empty"}]
  BY <1>1, <1>3, DeployFields
<1> QED BY <1>2, <1>4, <1>5, <1>6, <1>8, <1>9, <1>10, StepKeeps

-----------------------------------------------------------------------------
LEMMA SInvNext == SInv /\ [Next]_vars => SInv'
<1> SUFFICES ASSUME SInv, [Next]_vars PROVE SInv' OBVIOUS
<1>1. ASSUME NEW r \in Requests,
             UpdateRefused(r) \/ SweepDone(r) \/ CliFails(r)
      PROVE  SInv'
  BY <1>1, AnswerKeeps DEF UpdateRefused, SweepDone, CliFails
<1>2. CASE UNCHANGED vars
  <2>1. EngineMoves BY <1>2, EngineStays DEF vars
  <2>2. \A r \in Requests : ReqOK(r)' /\ SweepOK(r)' BY <1>2, <2>1, RequestKept DEF vars
  <2>3. \A i \in Ids : ServiceOK(i)' BY <2>1, ServicesKept
  <2>4. Typed' BY <1>2 DEF SInv, Typed, vars
  <2>5. \A r, q \in Requests : FileOK(r)' = FileOK(r) /\ SharedOK(r, q)' = SharedOK(r, q)
    BY <1>2 DEF FileOK, SharedOK, At, vars
  <2> QED BY <2>2, <2>3, <2>4, <2>5 DEF SInv
<1> QED
  BY <1>1, <1>2, BeginSweepKeeps, InspectKeeps, UpdateKeeps, CreateServiceKeeps,
     RemoveServiceKeeps, BeginRemoveStackKeeps, CliRemoveKeeps, BeginDeployKeeps,
     WriteFileKeeps, CliReadKeeps, CliApplyKeeps, RemoveFileKeeps
  DEF Next

THEOREM InductiveInvariant == Spec => []SInv
<1> QED BY SInvInit, SInvNext, PTL DEF Spec

(* The engine's store, the files and the requests keep their types.         *)
THEOREM TypeCorrect == Spec => []TypeOK
<1>1. SInv => TypeOK
  <2> SUFFICES ASSUME SInv PROVE TypeOK OBVIOUS
  <2>1. \A r \in Requests : ReqOK(r) BY DEF SInv
  <2> QED BY <2>1, RequestFields DEF SInv, Typed, TypeOK, ReqOK, Deploy
<1> QED BY <1>1, InductiveInvariant, PTL

(* A mutation of a stack that is about to answer true has changed every     *)
(* service it listed, whatever was written, created and removed meanwhile;  *)
(* what it passed over when it scales was global then and still is.         *)
THEOREM SweepsReachAll == Spec => []SweepReachesAll
<1>1. SInv => SweepReachesAll BY DEF SInv, SweepOK, SweepReachesAll, At
<1> QED BY <1>1, InductiveInvariant, PTL

(* A deploy that shares its stack's name with no other in flight applies    *)
(* the compose file it was given.                                           *)
THEOREM DeploysTheOwnFile == Spec => []DeploysOwnFile
<1>1. SInv => DeploysOwnFile BY DEF SInv, FileOK, DeploysOwnFile
<1> QED BY <1>1, InductiveInvariant, PTL

-----------------------------------------------------------------------------
(* The refinement: a write is one operation on the service as it is.        *)

LEMMA ServiceAt ==
  ASSUME SInv, NEW i \in Ids, Exists(i)
  PROVE  /\ service[i] = [spec |-> engine[i].spec, prev |-> engine[i].prev]
         /\ service[i].spec = engine[i].spec /\ service[i].prev = engine[i].prev
         /\ service[i] # None
<1>1. service[i] = [spec |-> engine[i].spec, prev |-> engine[i].prev] BY DEF service
<1>2. [spec |-> engine[i].spec, prev |-> engine[i].prev]
        \in [spec : Spec0, prev : Spec0 \union {None}]
  BY ServiceFields DEF SInv
<1> QED BY <1>1, <1>2, NoneAssumption

(* How the services seen abstractly change with the store.                  *)
LEMMA StoreSeen ==
  ASSUME SInv, NEW i \in Ids, NEW n \in Names, NEW spec \in Spec0,
         NEW prev \in Spec0 \union {None}, Store(i, n, spec, prev)
  PROVE  service' = [service EXCEPT ![i] = [spec |-> spec, prev |-> prev]]
<1> DEFINE s == [name |-> n, spec |-> spec, prev |-> prev, version |-> index + 1]
<1>1. index + 1 \in Nat BY BoundsAssumption DEF SInv, Typed
<1>2. s # None /\ s.spec = spec /\ s.prev = prev BY <1>1, NewService
<1>3. engine' = [engine EXCEPT ![i] = s] BY DEF Store
<1> HIDE DEF s
<1>4. engine'[i] = s /\ \A j \in Ids \ {i} : engine'[j] = engine[j]
  BY <1>3 DEF SInv, Typed
<1> QED BY <1>2, <1>4 DEF service, Exists

LEMMA RemovalSeen ==
  ASSUME SInv, NEW i \in Ids, engine' = [engine EXCEPT ![i] = None]
  PROVE  service' = [service EXCEPT ![i] = None]
<1>1. engine'[i] = None /\ \A j \in Ids \ {i} : engine'[j] = engine[j]
  BY DEF SInv, Typed
<1> QED BY <1>1 DEF service, Exists

(* One operation on the service i.                                          *)
OneOperation(i) ==
  \/ \E image \in Images, n \in Abstract!Replicas, global \in BOOLEAN :
       Abstract!Create(i, [image |-> image, replicas |-> n, force |-> 0,
                           global |-> global])
  \/ /\ service[i] # None
     /\ \/ Abstract!Remove(i) \/ Abstract!Redeploy(i) \/ Abstract!Rollback(i)
        \/ \E image \in Images : Abstract!Deploy(i, image)
        \/ \E n \in Abstract!Replicas : Abstract!Scale(i, n)

LEMMA OneOperationSteps ==
  ASSUME NEW i \in Ids, NEW v, service' = [service EXCEPT ![i] = v], OneOperation(i)
  PROVE  [Abstract!Next]_service
<1>1. CASE service'[i] = service[i]
  <2>1. service' = service BY <1>1 DEF service
  <2> QED BY <2>1
<1>2. CASE service'[i] # service[i]
  BY <1>2 DEF OneOperation, Abstract!Next, Abstract!Changed
<1> QED BY <1>1, <1>2

LEMMA UpdateSeen ==
  ASSUME SInv, NEW r \in Requests, Update(r) PROVE [Abstract!Next]_service
<1> DEFINE i == req[r].id
           spec == UpdatedSpec(r)
<1>1. /\ req[r].pc = "update" /\ i \in Ids /\ Exists(i) /\ BodyFits(r)
      /\ engine[i].version = req[r].version /\ engine[i] \in Service
      /\ spec \in Spec0 /\ Store(i, engine[i].name, spec, engine[i].spec)
  BY UpdateWrites
<1>2. /\ engine[i].name \in Names /\ engine[i].spec \in Spec0
      /\ service[i].spec = engine[i].spec /\ service[i].prev = engine[i].prev
      /\ service[i] # None
  BY <1>1, ServiceFields, ServiceAt DEF SInv
<1>3. service' = [service EXCEPT ![i] = [spec |-> spec, prev |-> engine[i].spec]]
  BY <1>1, <1>2, StoreSeen
<1>4. service' = [service EXCEPT ![i] = [spec |-> spec, prev |-> @.spec]]
  BY <1>2, <1>3
<1>5. req[r].op \in Sweeps /\ req[r].replicas \in 0..MaxReplicas
  BY <1>1, RequestFields DEF SInv, ReqOK
<1>6. req[r].body = NextSpec(r, engine[i].spec) /\ ~LeavesAlone(r, i)
  BY <1>1 DEF BodyFits
<1>7. CASE req[r].op = "rollback"
  <2>1. spec = service[i].prev /\ service[i].prev # None
    BY <1>1, <1>2, <1>7, NoneAssumption DEF UpdatedSpec
  <2>2. Abstract!Rollback(i) BY <1>4, <2>1 DEF Abstract!Rollback, Abstract!Becomes
  <2> QED BY <1>1, <1>2, <1>3, <2>2, OneOperationSteps DEF OneOperation
<1>8. CASE req[r].op = "redeploy"
  <2>1. spec = [service[i].spec EXCEPT !.force = @ + 1]
    BY <1>2, <1>6, <1>8 DEF UpdatedSpec, NextSpec
  <2>2. Abstract!Redeploy(i) BY <1>4, <2>1 DEF Abstract!Redeploy, Abstract!Becomes
  <2> QED BY <1>1, <1>2, <1>3, <2>2, OneOperationSteps DEF OneOperation
<1>9. CASE req[r].op = "scale"
  <2>1. spec = [service[i].spec EXCEPT !.replicas = req[r].replicas]
    BY <1>2, <1>6, <1>9 DEF UpdatedSpec, NextSpec
  <2>2. ~service[i].spec.global BY <1>2, <1>6, <1>9 DEF LeavesAlone
  <2>3. Abstract!Scale(i, req[r].replicas) /\ req[r].replicas \in Abstract!Replicas
    BY <1>4, <1>5, <2>1, <2>2 DEF Abstract!Scale, Abstract!Becomes, Abstract!Replicas
  <2> QED BY <1>1, <1>2, <1>3, <2>3, OneOperationSteps DEF OneOperation
<1> QED BY <1>5, <1>7, <1>8, <1>9 DEF Sweeps

(* A service that is created with a spec of its own.                        *)
LEMMA CreationSeen ==
  ASSUME SInv, NEW i \in Ids \ used, NEW n \in Names, NEW spec \in Spec0,
         spec.force = 0, Store(i, n, spec, None)
  PROVE  [Abstract!Next]_service
<1>1. service' = [service EXCEPT ![i] = [spec |-> spec, prev |-> None]]
  BY StoreSeen
<1>2. ~Exists(i) BY DEF SInv, ServiceOK
<1>3. service[i] = None BY <1>2 DEF service
<1>4. /\ spec = [image |-> spec.image, replicas |-> spec.replicas, force |-> 0,
                 global |-> spec.global]
      /\ spec.image \in Images /\ spec.replicas \in 0..MaxReplicas
      /\ spec.global \in BOOLEAN
  BY DEF Spec0
<1>5. Abstract!Create(i, spec) BY <1>1, <1>3 DEF Abstract!Create
<1>6. OneOperation(i)
  <2>1. spec.replicas \in Abstract!Replicas BY <1>4 DEF Abstract!Replicas
  <2>2. Abstract!Create(i, [image |-> spec.image, replicas |-> spec.replicas,
                            force |-> 0, global |-> spec.global])
    BY <1>4, <1>5
  <2> QED BY <1>4, <2>1, <2>2 DEF OneOperation
<1> QED BY <1>1, <1>6, OneOperationSteps

LEMMA CreateServiceSeen ==
  ASSUME SInv, NEW r \in Requests, CreateService(r) PROVE [Abstract!Next]_service
<1>1. PICK i \in Ids \ used, n \in Names \ GlobalNames, k \in 0..MaxReplicas,
           image \in Images :
        Store(i, n, [Fresh(n, image) EXCEPT !.replicas = k], None)
  BY DEF CreateService
<1> DEFINE spec == [Fresh(n, image) EXCEPT !.replicas = k]
<1>2. spec \in Spec0 BY FreshSpec, SpecChanges
<1>3. spec.force = 0 BY DEF Fresh
<1>4. Store(i, n, spec, None) BY <1>1
<1> HIDE DEF spec
<1> QED BY <1>2, <1>3, <1>4, CreationSeen

LEMMA CliApplySeen ==
  ASSUME SInv, NEW r \in Requests, CliApply(r) PROVE [Abstract!Next]_service
<1>1. PICK n \in req[r].todo, i \in Ids, spec \in Spec0, prev \in Spec0 \union {None} :
        Applies(r, n, i, spec, prev)
  BY ApplyWrites DEF Applied
<1>2. n \in Names /\ req[r].read \in Images /\ Store(i, n, spec, prev)
  BY <1>1 DEF Applies
<1>3. service' = [service EXCEPT ![i] = [spec |-> spec, prev |-> prev]]
  BY <1>2, StoreSeen
<1>4. CASE i \in used
  <2>1. /\ Exists(i) /\ prev = engine[i].spec
        /\ spec = [engine[i].spec EXCEPT !.image = req[r].read, !.replicas = 1]
    BY <1>1, <1>4 DEF Applies
  <2>2. service[i].spec = engine[i].spec /\ service[i] # None BY <2>1, ServiceAt
  <2>3. service' = [service EXCEPT ![i] = [spec |-> spec, prev |-> @.spec]]
    BY <1>3, <2>1, <2>2
  <2>4. spec = [service[i].spec EXCEPT !.image = req[r].read, !.replicas = 1]
    BY <2>1, <2>2
  <2>5. Abstract!Deploy(i, req[r].read)
    BY <2>3, <2>4 DEF Abstract!Deploy, Abstract!Becomes
  <2> QED BY <1>2, <1>3, <2>2, <2>5, OneOperationSteps DEF OneOperation
<1>5. CASE i \notin used
  <2>1. prev = None /\ spec = Fresh(n, req[r].read) BY <1>1, <1>5 DEF Applies
  <2>2. spec.force = 0 BY <2>1 DEF Fresh
  <2> QED BY <1>2, <1>5, <2>1, <2>2, CreationSeen
<1> QED BY <1>4, <1>5

LEMMA RemovalsSeen ==
  ASSUME SInv, NEW r \in Requests, RemoveService(r) \/ CliRemove(r)
  PROVE  [Abstract!Next]_service
<1>1. engine' = engine \/ \E i \in Ids : engine' = [engine EXCEPT ![i] = None]
  <2>1. CASE RemoveService(r) BY <2>1 DEF RemoveService
  <2>2. CASE CliRemove(r)
    <3>1. req[r].todo \subseteq Ids BY <2>2 DEF CliRemove, At, SInv, ReqOK
    <3> QED BY <2>2, <3>1 DEF CliRemove
  <2> QED BY <2>1, <2>2
<1>2. CASE engine' = engine
  <2>1. service' = service BY <1>2 DEF service, Exists
  <2> QED BY <2>1
<1>3. ASSUME NEW i \in Ids, engine' = [engine EXCEPT ![i] = None]
      PROVE  [Abstract!Next]_service
  <2>1. service' = [service EXCEPT ![i] = None] BY <1>3, RemovalSeen
  <2>2. CASE service[i] # None
    <3>1. Abstract!Remove(i) BY <2>1 DEF Abstract!Remove
    <3> QED BY <2>1, <2>2, <3>1, OneOperationSteps DEF OneOperation
  <2>3. CASE service[i] = None
    <3>1. service' = service BY <2>1, <2>3 DEF service
    <3> QED BY <3>1
  <2> QED BY <2>2, <2>3
<1> QED BY <1>1, <1>2, <1>3

LEMMA StepSeen ==
  ASSUME SInv, [Next]_vars PROVE [Abstract!Next]_service
<1>1. CASE engine' = engine
  <2>1. service' = service BY <1>1 DEF service, Exists
  <2> QED BY <2>1
<1>2. \/ engine' = engine
      \/ \E r \in Requests : \/ Update(r) \/ CreateService(r) \/ CliApply(r)
                             \/ RemoveService(r) \/ CliRemove(r)
  BY DEF Next, vars, SweepStack, UpdateOne, Inspect, UpdateRefused, SweepDone,
         BeginRemoveStack, BeginDeploy, OpenFile, FillFile, CliRead, CliFails, RemoveFile
<1> QED
  BY <1>1, <1>2, UpdateSeen, CreateServiceSeen, CliApplySeen, RemovalsSeen

(* Overlapping mutations and deploys never undo each other's changes        *)
(* unseen: a write that is accepted is one operation on the service as it   *)
(* is at that moment.                                                       *)
THEOREM ServicesAreAtomic == Spec => ImplementsAtomicServices
<1>1. SInv /\ [Next]_vars => [Abstract!Next]_service BY StepSeen
<1> QED
  BY <1>1, InductiveInvariant, PTL DEF Spec, ImplementsAtomicServices, Abstract!Spec

=============================================================================
