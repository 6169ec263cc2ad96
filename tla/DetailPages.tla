----------------------------- MODULE DetailPages -----------------------------
(***************************************************************************)
(* The console's page of one stack, one service or one task: what it has   *)
(* loaded of a cluster that changes meanwhile, its menu of actions, the    *)
(* requests they send, the reloads that follow 2.5 and 6 seconds later,    *)
(* and the chart of a time range the user chooses.                         *)
(*                                                                         *)
(* Apollo sends no query while an equal one is in flight: who asks joins   *)
(* it.  Mutations outlive the page that sent them.                         *)
(***************************************************************************)
EXTENDS Naturals, Sequences, FiniteSets

CONSTANTS
  Services,     (* the services of the stack, each with one task            *)
  PageKinds,    (* the pages explored: "stack", "service", "task"           *)
  MaxVersion    (* bound on the changes of the cluster                      *)

ASSUME MaxVersionAssumption == MaxVersion \in Nat \ {0}

VARIABLES
  cluster,   (* the replicas wanted and the tasks, after "v" changes        *)
  kind,      (* which page this is                                          *)
  details,   (* the component, while it is on the screen                    *)
  asked,     (* the page's queries in flight                                *)
  mutations, (* the mutations in flight                                     *)
  chart      (* the range chosen, the range shown, the queries in flight    *)

detailVars == <<cluster, kind, details, asked, mutations, chart>>

TaskStatus == {"RUNNING", "STARTING", "FAILED", "none"}
Ranges == {"15m", "1h"}
Parts == {"main", "tasks"}
Belongings == {"networks", "volumes"}   (* configs and secrets are alike     *)
Absent == [v |-> 0, there |-> FALSE, left |-> {}, total |-> 0,
           task |-> [s \in Services |-> "none"]]

(* The stack page asks for all with one query, the service page for its     *)
(* service and for the tasks, the task page for its task.                   *)
QueriesOf(k) == IF k = "service" THEN Parts ELSE {"main"}

(* newest (history): the latest state shown so far; owed (history): that of *)
(* the last action answered; excused (history): a query failed since, or    *)
(* was joined that had been sent before.                                    *)
Closed ==
  [on |-> FALSE, loading |-> TRUE, shown |-> [q \in Parts |-> Absent],
   menu |-> FALSE, busy |-> FALSE, scaling |-> FALSE, timers |-> 0,
   newest |-> [q \in Parts |-> 0], owed |-> 0, excused |-> FALSE]
NoChart == [range |-> "1h", shown |-> "none", asked |-> <<>>, mixed |-> FALSE]

DetailInit ==
  /\ kind \in PageKinds
  /\ cluster = [v |-> 1, there |-> TRUE, left |-> Belongings, total |-> 1,
                task |-> [s \in Services |-> "RUNNING"]]
  /\ details = Closed
  /\ asked = [q \in Parts |-> {}]
  /\ mutations = {}
  /\ chart = NoChart

-----------------------------------------------------------------------------
(* Loading.                                                                 *)

(* A removal leaves a stack's volumes.                                      *)
Write(there, total, task) ==
  /\ cluster.v < MaxVersion /\ cluster.there
  /\ cluster' = [v |-> cluster.v + 1, there |-> there, total |-> total, task |-> task,
                 left |-> IF there THEN cluster.left ELSE cluster.left \ {"networks"}]

(* The cluster at work: a task changes its state; somebody scales.          *)
ClusterMoves ==
  /\ \/ \E s \in Services : \E status \in TaskStatus \ {cluster.task[s]} :
          Write(TRUE, cluster.total, [cluster.task EXCEPT ![s] = status])
     \/ Write(TRUE, 1 - cluster.total, cluster.task)
  /\ UNCHANGED <<kind, details, asked, mutations, chart>>

Sent == [pc |-> "sent", data |-> Absent]

(* Mutant: equal queries in flight are not joined.                          *)
AskAgain(qs) ==
  asked' = [q \in Parts |-> IF q \in qs THEN asked[q] \union {Sent} ELSE asked[q]]

Ask(qs) ==
  asked' = [q \in Parts |-> IF q \in qs /\ asked[q] = {} THEN {Sent} ELSE asked[q]]

(* The stack page watches its query, and may be handed a result without     *)
(* data while it loads.                                                     *)
Watching(p) ==
  {p} \union IF kind = "stack"
               THEN {[p EXCEPT !.loading = FALSE, !.shown["main"] = Absent]} ELSE {}

(* loadStats: queries of different ranges are different queries.            *)
LoadStats(range) ==
  LET joined == \E i \in DOMAIN chart.asked : chart.asked[i] = range IN
  [chart EXCEPT !.range = range,
                !.asked = IF joined THEN @ ELSE Append(@, range),
                !.mixed = (@ /\ chart.asked # <<>>) \/ joined]

(* ngOnInit of a new component.                                             *)
Open ==
  /\ ~details.on
  /\ details' \in Watching([Closed EXCEPT !.on = TRUE])
  /\ Ask(QueriesOf(kind))
  /\ chart' = IF kind = "service" THEN chart
              ELSE [LoadStats("1h") EXCEPT !.shown = "none"]
  /\ UNCHANGED <<cluster, kind, mutations>>

(* reloadAfterAction.                                                       *)
ReloadDetails ==
  /\ details.on /\ details.timers > 0
  /\ details' \in Watching([details EXCEPT !.timers = @ - 1,
                                     !.excused = @ \/ asked["main"] # {}])
  /\ Ask(QueriesOf(kind))
  /\ UNCHANGED <<cluster, kind, mutations, chart>>

ServerReads(q) ==
  /\ Sent \in asked[q]
  /\ asked' = [asked EXCEPT ![q] =
       (@ \ {Sent}) \union {[pc |-> "read", data |-> cluster]}]
  /\ UNCHANGED <<cluster, kind, details, mutations, chart>>

Show(q, data) ==
  [details EXCEPT !.shown[q] = data, !.loading = @ /\ q # "main",
               !.newest[q] = IF data.v > @ THEN data.v ELSE @]

QueryAnswers(q) ==
  /\ \E answer \in asked[q] \ {Sent} :
       /\ details' = IF details.on THEN Show(q, answer.data) ELSE details
       /\ asked' = [asked EXCEPT ![q] = @ \ {answer}]
  /\ UNCHANGED <<cluster, kind, mutations, chart>>

(* The pages of services and tasks have no error handler: what they show    *)
(* stays as it is, be it "loading".  The stack page gets a result without   *)
(* data.                                                                    *)
QueryFailed(q) ==
  /\ \E query \in asked[q] : asked' = [asked EXCEPT ![q] = @ \ {query}]
  /\ details' = IF ~details.on THEN details
             ELSE [(IF kind = "stack" THEN Show(q, Absent) ELSE details) EXCEPT !.excused = TRUE]
  /\ UNCHANGED <<cluster, kind, mutations, chart>>

(* Mutant: the query is sent before the range is set.                       *)
OnRangeChangeLate(range) ==
  /\ details.on /\ kind # "service" /\ chart.range # range
  /\ chart' = [LoadStats(chart.range) EXCEPT !.range = range]
  /\ UNCHANGED <<cluster, kind, details, asked, mutations>>

OnRangeChange(range) ==
  /\ details.on /\ kind # "service" /\ chart.range # range
  /\ chart' = LoadStats(range)
  /\ UNCHANGED <<cluster, kind, details, asked, mutations>>

(* Any of the queries of the chart is answered, or fails unseen.            *)
AnswerStats ==
  /\ \E i \in DOMAIN chart.asked, ok \in BOOLEAN :
       chart' = [chart EXCEPT
         !.asked = [j \in 1..(Len(@) - 1) |-> IF j < i THEN @[j] ELSE @[j + 1]],
         !.shown = IF details.on /\ ok THEN chart.asked[i] ELSE @,
         !.mixed = @ \/ i # 1 \/ ~ok]
  /\ UNCHANGED <<cluster, kind, details, asked, mutations>>

-----------------------------------------------------------------------------
(* What the pages show.                                                     *)

Section(nonempty) == IF nonempty THEN "table" ELSE "empty"

(* The sections of the stack's resources; a service has the same tiles.     *)
Sections(data) ==
  [k \in {"services"} \union Belongings |->
     IF k = "services" THEN Section(data.there) ELSE Section(k \in data.left)]

(* A stack is found as long as anything of it is.                           *)
Found ==
  LET data == details.shown["main"] IN
  IF kind = "stack" THEN \E k \in DOMAIN Sections(data) : Sections(data)[k] = "table"
                    ELSE data.there

PageView == IF details.loading THEN "loading" ELSE IF Found THEN "page" ELSE "notFound"

IsDeactivated == details.shown["main"].there /\ details.shown["main"].total = 0

(* Mutant: a starting task hides a failed one.                              *)
DeriveStackStatusByFirst(statuses) ==
  IF "STARTING" \in statuses THEN "UPDATING"
  ELSE IF "FAILED" \in statuses THEN "FAILED"
  ELSE IF "RUNNING" \in statuses THEN "RUNNING" ELSE "STOPPED"

(* Of the tasks still wanted: one failed, one on its way, or all running.   *)
DeriveStackStatus(statuses) ==
  LET active == statuses \ {"none"} IN
  IF active = {} THEN "STOPPED"
  ELSE IF "FAILED" \in active THEN "FAILED"
  ELSE IF "STARTING" \in active THEN "UPDATING"
  ELSE IF active = {"RUNNING"} THEN "RUNNING" ELSE "STOPPED"

(* The badge of the stack, and those of the rows of its services.           *)
StackStatus(data) == DeriveStackStatus({data.task[s] : s \in Services})
StatusFor(data, s) == DeriveStackStatus({data.task[s]})

(* The replicas in a service's row.                                         *)
ReplicaTag(data, s) ==
  LET running == IF data.task[s] = "RUNNING" THEN 1 ELSE 0 IN
  CASE data.total = 0 /\ running = 0   -> "stopped"
    [] data.total = 0 /\ running > 0   -> "stopping"
    [] data.total > 0 /\ running < data.total -> "warning"
    [] OTHER -> "success"

-----------------------------------------------------------------------------
(* The header and its actions, for editors.                                 *)

Operable == details.on /\ kind # "task" /\ PageView = "page" /\ ~details.scaling

(* Mutant: the caret is not disabled while a request runs.                  *)
ToggleActionsAlways ==
  /\ Operable
  /\ details' = [details EXCEPT !.menu = ~@]
  /\ UNCHANGED <<cluster, kind, asked, mutations, chart>>

ToggleActions ==
  /\ Operable /\ ~details.busy
  /\ details' = [details EXCEPT !.menu = ~@]
  /\ UNCHANGED <<cluster, kind, asked, mutations, chart>>

Mutate(op) ==
  mutations' = mutations \union {[op |-> op, own |-> TRUE, pc |-> "sent", at |-> 0]}

(* An entry of the open menu sends its request.                             *)
Choose(op) ==
  /\ Operable /\ details.menu
  /\ details' = [details EXCEPT !.menu = FALSE, !.busy = TRUE]
  /\ Mutate(op)
  /\ UNCHANGED <<cluster, kind, asked, chart>>

(* Without replicas there is nothing to redeploy, and the user is told so.  *)
Redeploy ==
  IF ~IsDeactivated THEN Choose("redeploy")
  ELSE /\ Operable /\ details.menu /\ details' = [details EXCEPT !.menu = FALSE]
       /\ UNCHANGED <<cluster, kind, asked, mutations, chart>>

Rollback == Choose("rollback")
Deactivate == kind = "stack" /\ ~IsDeactivated /\ Choose("deactivate")
Reactivate == kind = "stack" /\ IsDeactivated /\ Choose("reactivate")

(* The user has confirmed.                                                  *)
RemoveShown == Choose("remove")

OpenScale ==
  /\ kind = "service" /\ Operable /\ details.menu
  /\ details' = [details EXCEPT !.menu = FALSE, !.scaling = TRUE]
  /\ UNCHANGED <<cluster, kind, asked, mutations, chart>>

(* The dialog of the replicas is closed, or its number sent.                *)
CloseScale ==
  /\ details.scaling /\ details' = [details EXCEPT !.scaling = FALSE]
  /\ UNCHANGED <<cluster, kind, asked, mutations, chart>>

Scale ==
  /\ details.scaling /\ ~details.busy
  /\ details' = [details EXCEPT !.busy = TRUE]
  /\ \E op \in {"scale0", "scale1"} : Mutate(op)
  /\ UNCHANGED <<cluster, kind, asked, chart>>

(* The user goes elsewhere; what the timers load then is shown nowhere.     *)
LeaveDetails ==
  /\ details.on /\ details' = Closed
  /\ mutations' = {[m EXCEPT !.own = FALSE] : m \in mutations}
  /\ UNCHANGED <<cluster, kind, asked, chart>>

(* The server carries a request out.                                        *)
ExecuteMutation ==
  /\ \E m \in mutations :
       /\ m.pc = "sent"
       /\ Write(m.op # "remove",
                CASE m.op \in {"deactivate", "scale0"} -> 0
                  [] m.op \in {"reactivate", "scale1"} -> 1
                  [] OTHER -> cluster.total, cluster.task)
       /\ mutations' = (mutations \ {m}) \union {[m EXCEPT !.pc = "done", !.at = cluster.v + 1]}
  /\ UNCHANGED <<kind, details, asked, chart>>

(* Mutant: nothing is loaded again after an action.                         *)
SettledWithoutReload(m) ==
  [details EXCEPT !.busy = FALSE, !.scaling = FALSE, !.owed = m.at, !.excused = FALSE]

Settled(m) ==
  [details EXCEPT !.busy = FALSE, !.scaling = FALSE, !.timers = 2,
               !.owed = m.at, !.excused = FALSE]

(* A removal's answer goes to the list, wherever the user is; any other     *)
(* concerns the component that sent the request.                            *)
MutationAnswers ==
  /\ \E m \in mutations :
       /\ m.pc = "done"
       /\ details' = IF m.op = "remove" THEN Closed ELSE IF m.own THEN Settled(m) ELSE details
       /\ mutations' = {[n EXCEPT !.own = @ /\ m.op # "remove"] : n \in mutations \ {m}}
  /\ UNCHANGED <<cluster, kind, asked, chart>>

MutationFails ==
  /\ \E m \in mutations :
       /\ m.pc = "sent"
       /\ mutations' = mutations \ {m}
       /\ details' = IF m.own THEN [details EXCEPT !.busy = FALSE] ELSE details
  /\ UNCHANGED <<cluster, kind, asked, chart>>

DetailNext ==
  \/ ClusterMoves \/ Open \/ LeaveDetails \/ ReloadDetails \/ AnswerStats
  \/ \E q \in Parts : ServerReads(q) \/ QueryAnswers(q) \/ QueryFailed(q)
  \/ \E range \in Ranges : OnRangeChange(range)
  \/ ToggleActions \/ Redeploy \/ Rollback \/ Deactivate \/ Reactivate \/ RemoveShown
  \/ OpenScale \/ CloseScale \/ Scale
  \/ ExecuteMutation \/ MutationAnswers \/ MutationFails

DetailSpec == DetailInit /\ [][DetailNext]_detailVars

(* Timers fire and queries are answered.                                    *)
DetailFairness ==
  /\ WF_detailVars(ReloadDetails)
  /\ \A q \in Parts : WF_detailVars(ServerReads(q)) /\ WF_detailVars(QueryAnswers(q))

-----------------------------------------------------------------------------

DetailTypeOK ==
  /\ details.timers \in 0..2 /\ details.newest \in [Parts -> 0..MaxVersion]
  /\ PageView \in {"loading", "page", "notFound"} /\ chart.range \in Ranges

(* However often the page loads, what it shows never gives way to an older  *)
(* state of the cluster (stack-detail.component.ts, reloadAfterAction).     *)
NeverGoesBack ==
  \A q \in Parts : details.shown[q].v \in {0, details.newest[q]}

(* The page is busy exactly while a request of its own is in flight, and    *)
(* there is never a second one.                                             *)
OneRequestAtATime ==
  LET own == {m \in mutations : m.own} IN
  /\ Cardinality(own) <= 1
  /\ details.busy <=> own # {}

(* The badge of the stack tells of the worst of its services' badges.       *)
StatusRollsUp ==
  Found => LET data == details.shown["main"]
               badges == {StatusFor(data, s) : s \in Services}
           IN /\ \A badge \in {"FAILED", "UPDATING", "RUNNING"} :
                   StackStatus(data) = badge => badge \in badges
              /\ "FAILED" \in badges => StackStatus(data) = "FAILED"
              /\ StackStatus(data) = "RUNNING" => \A s \in Services :
                   ReplicaTag(data, s) \in {"success", "stopping"} \/ StatusFor(data, s) = "STOPPED"

(* Once its queries are answered the chart is that of the range chosen, if  *)
(* none of them failed, was overtaken or was asked for twice.               *)
ChartSettled ==
  details.on /\ kind # "service" /\ chart.asked = <<>> /\ ~chart.mixed => chart.shown = chart.range

DetailSound == NeverGoesBack /\ OneRequestAtATime /\ StatusRollsUp /\ ChartSettled

(* After an action the page comes to show its effect or a later state, while *)
(* it stays open and its queries succeed within the 2.5 seconds.            *)
ActionShows ==
  details.owed > details.newest["main"] ~>
    details.excused \/ details.newest["main"] >= details.owed
=============================================================================
