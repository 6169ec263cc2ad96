----------------------------- MODULE Dashboard ------------------------------
(***************************************************************************)
(* The dashboard (src/apps/web/src/app/pages/dashboard/                     *)
(* dashboard.component.ts) and the sidebar's counters                       *)
(* (layout/shell.component.ts, layout/sidebar.component.ts).                *)
(*                                                                         *)
(* Three queries feed them: the overview with its counters, which the       *)
(* sidebar shares, the nodes, and the curves over the range chosen.  The    *)
(* first two are polled; the dashboard shows each answer as it comes, so    *)
(* its counters and its lists may be of different moments.  Apollo keeps    *)
(* one query of a kind in flight, and of the curves hands on only those of  *)
(* the range chosen last, and shows again what it has in its cache.         *)
(***************************************************************************)
EXTENDS Integers, FiniteSets

CONSTANTS
  Hosts,       (* the nodes of the cluster                                  *)
  CurveRanges, (* the ranges on offer                                       *)
  MaxMoves     (* bound on the changes of the cluster                       *)

ASSUME HostsAssumption == IsFiniteSet(Hosts)
ASSUME CurveRangesAssumption == "1h" \in CurveRanges

VARIABLES
  console,  (* what is open: the login page, the shell, the dashboard in it *)
  fleet,    (* the cluster: who is a manager, who is drained, after "v"     *)
  overview, (* the query of the overview and what is shown of it            *)
  nodeRows, (* the query of the nodes and the rows shown                    *)
  curves    (* the range chosen, the range shown, the queries in flight     *)

dashVars == <<console, fleet, overview, nodeRows, curves>>

NoFigures == [v |-> -1]
Roles == {"manager", "worker"}

(* What the server answers, as of the cluster it reads.                     *)
OverviewOf(c) ==
  [v |-> c.v, nodes |-> Cardinality(Hosts),
   managersTotal |-> Cardinality({h \in Hosts : c.role[h] = "manager"}),
   workers |-> Cardinality({h \in Hosts : c.role[h] = "worker"})]
NodesOf(c) ==
  [v |-> c.v, rows |-> {[host |-> h, role |-> c.role[h], drained |-> c.drained[h]] : h \in Hosts}]

ManagersIn(rows) == {n \in rows : n.role = "manager"}
WorkersIn(rows) == {n \in rows : n.role = "worker"}
Dot(row) == IF row.drained THEN "warning" ELSE "success"

(* A box of the nodes' summary: its counter is the overview's, its rows are *)
(* those of the nodes.                                                      *)
Bucket(count, rows) ==
  [count |-> count, rows |-> {[host |-> n.host, dot |-> Dot(n)] : n \in rows}]
Chart == IF curves.shown = "none" THEN "loading" ELSE curves.shown
DashView ==
  [subtitle |-> overview.shown.nodes,
   managers |-> Bucket(overview.shown.managersTotal, ManagersIn(nodeRows.shown.rows)),
   workers |-> Bucket(overview.shown.workers, WorkersIn(nodeRows.shown.rows)),
   chart |-> Chart]

(* A watched query: what is shown of it, what the server read for the one   *)
(* in flight, what Apollo's cache holds.                                    *)
Unwatched == [shown |-> NoFigures, query |-> "none", answer |-> NoFigures, cache |-> NoFigures]

(* The cache is shown, if it holds anything, or else the query is sent; a   *)
(* query of a kind joins the one in flight.                                 *)
Watched(q) ==
  IF q.cache # NoFigures THEN [q EXCEPT !.shown = q.cache] ELSE [q EXCEPT !.query = "sent"]
SentAgain(q) == IF q.query = "none" THEN [q EXCEPT !.query = "sent"] ELSE q
Answering(q) == [shown |-> q.answer, query |-> "none", answer |-> NoFigures, cache |-> q.answer]
Failing(q) == [q EXCEPT !.shown = NoFigures, !.query = "none", !.answer = NoFigures]

DashInit ==
  /\ console = "login"
  /\ fleet = [v |-> 0, role |-> [h \in Hosts |-> "manager"], drained |-> [h \in Hosts |-> FALSE]]
  /\ overview = Unwatched /\ nodeRows = Unwatched
  /\ curves = [range |-> "1h", shown |-> "none", asked |-> {}]

(* The shell watches the overview for its sidebar; the dashboard watches it *)
(* too, and the nodes, and asks for the curves.                             *)
EnterShell ==
  /\ console = "login" /\ console' = "shell"
  /\ overview' = Watched(overview)
  /\ UNCHANGED <<fleet, nodeRows, curves>>
OpenDashboard ==
  /\ console = "shell" /\ console' = "dashboard"
  /\ nodeRows' = Watched(nodeRows)
  /\ curves' = [range |-> "1h", shown |-> "none", asked |-> {"1h"}]
  /\ UNCHANGED <<fleet, overview>>
LeaveDashboard ==
  /\ console = "dashboard" /\ console' = "shell"
  /\ nodeRows' = [Unwatched EXCEPT !.cache = nodeRows.cache]
  /\ curves' = [range |-> "1h", shown |-> "none", asked |-> {}]
  /\ UNCHANGED <<fleet, overview>>

(* A node is promoted, demoted, drained or put back.                        *)
FleetMoves(h) ==
  /\ fleet.v < MaxMoves
  /\ \E role \in Roles, drained \in BOOLEAN :
       /\ <<role, drained>> # <<fleet.role[h], fleet.drained[h]>>
       /\ fleet' = [v |-> fleet.v + 1, role |-> [fleet.role EXCEPT ![h] = role],
                    drained |-> [fleet.drained EXCEPT ![h] = drained]]
  /\ UNCHANGED <<console, overview, nodeRows, curves>>

PollOverview ==
  /\ console # "login" /\ overview.query = "none" /\ overview' = SentAgain(overview)
  /\ UNCHANGED <<console, fleet, nodeRows, curves>>
PollNodesNever == UNCHANGED dashVars
PollNodes ==
  /\ console = "dashboard" /\ nodeRows.query = "none" /\ nodeRows' = SentAgain(nodeRows)
  /\ UNCHANGED <<console, fleet, overview, curves>>

OverviewRead ==
  /\ overview.query = "sent"
  /\ overview' = [overview EXCEPT !.query = "read", !.answer = OverviewOf(fleet)]
  /\ UNCHANGED <<console, fleet, nodeRows, curves>>
NodesRead ==
  /\ nodeRows.query = "sent"
  /\ nodeRows' = [nodeRows EXCEPT !.query = "read", !.answer = NodesOf(fleet)]
  /\ UNCHANGED <<console, fleet, overview, curves>>

OverviewAnswers ==
  /\ overview.query = "read" /\ overview' = Answering(overview)
  /\ UNCHANGED <<console, fleet, nodeRows, curves>>
NodesAnswer ==
  /\ nodeRows.query = "read" /\ nodeRows' = Answering(nodeRows)
  /\ UNCHANGED <<console, fleet, overview, curves>>

(* A failed query hands the page a result without data.                     *)
OverviewFails ==
  /\ overview.query # "none" /\ overview' = Failing(overview)
  /\ UNCHANGED <<console, fleet, nodeRows, curves>>
NodesFail ==
  /\ nodeRows.query # "none" /\ nodeRows' = Failing(nodeRows)
  /\ UNCHANGED <<console, fleet, overview, curves>>

(* The effect asks for the curves of the range just set.                    *)
SetRangeOnly(range) ==
  /\ console = "dashboard" /\ range # curves.range
  /\ curves' = [curves EXCEPT !.range = range]
  /\ UNCHANGED <<console, fleet, overview, nodeRows>>
SetRange(range) ==
  /\ console = "dashboard" /\ range # curves.range
  /\ curves' = [range |-> range, shown |-> "none", asked |-> curves.asked \union {range}]
  /\ UNCHANGED <<console, fleet, overview, nodeRows>>

(* The button "refresh" asks for everything once more.                      *)
RefreshAll ==
  /\ console = "dashboard"
  /\ overview' = SentAgain(overview) /\ nodeRows' = SentAgain(nodeRows)
  /\ curves' = [curves EXCEPT !.asked = @ \union {curves.range}]
  /\ UNCHANGED <<console, fleet>>

CurvesAnswer(range) ==
  /\ range \in curves.asked
  /\ curves' = [curves EXCEPT !.asked = @ \ {range},
                              !.shown = IF range = curves.range THEN range ELSE @]
  /\ UNCHANGED <<console, fleet, overview, nodeRows>>
CurvesFail(range) ==
  /\ range \in curves.asked
  /\ curves' = [curves EXCEPT !.asked = @ \ {range},
                              !.shown = IF range = curves.range THEN "none" ELSE @]
  /\ UNCHANGED <<console, fleet, overview, nodeRows>>

DashNext ==
  \/ EnterShell \/ OpenDashboard \/ LeaveDashboard \/ \E h \in Hosts : FleetMoves(h)
  \/ PollOverview \/ PollNodes \/ OverviewRead \/ NodesRead
  \/ OverviewAnswers \/ NodesAnswer \/ OverviewFails \/ NodesFail \/ RefreshAll
  \/ \E range \in CurveRanges : SetRange(range) \/ CurvesAnswer(range) \/ CurvesFail(range)

DashSpec == DashInit /\ [][DashNext]_dashVars

(* The timer of the poll fires and the server reads; it is not unreachable  *)
(* for ever: of the queries it has read, some are answered.                 *)
DashFairness ==
  WF_dashVars(PollNodes) /\ SF_dashVars(NodesRead) /\ SF_dashVars(NodesAnswer)

-----------------------------------------------------------------------------
DashTypeOK ==
  /\ fleet.role \in [Hosts -> Roles] /\ fleet.drained \in [Hosts -> BOOLEAN]
  /\ \A q \in {overview, nodeRows} :
       /\ q.query \in {"none", "sent", "read"}
       /\ {q.shown.v, q.answer.v, q.cache.v} \subseteq -1..fleet.v
  /\ curves.range \in CurveRanges /\ curves.shown \in CurveRanges \union {"none"}
  /\ curves.asked \subseteq CurveRanges

(* The curves shown are those of the range chosen, whatever the order in    *)
(* which the queries of several choices answer.                             *)
CurvesOfRange == curves.shown \in {"none", curves.range}

(* A counter beside its rows counts them when both are of the same moment;  *)
(* the boxes hold every node once.                                          *)
BucketsAgree ==
  overview.shown.v = nodeRows.shown.v /\ overview.shown.v >= 0 =>
    LET view == DashView
    IN /\ view.managers.count = Cardinality(view.managers.rows)
       /\ view.workers.count = Cardinality(view.workers.rows)
       /\ view.subtitle = Cardinality(view.managers.rows \union view.workers.rows)

DashSound == CurvesOfRange /\ BucketsAgree

(* The dashboard's rows catch up with the cluster by their poll alone.      *)
FiguresCatchUp == []<>(console # "dashboard" \/ nodeRows.shown.v = fleet.v)
=============================================================================
