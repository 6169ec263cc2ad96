------------------------------ MODULE NodeMap -------------------------------
(***************************************************************************)
(* The node map (src/apps/web/src/app/pages/node-map/                       *)
(* node-map.component.ts): the nodes with a chip for each of their tasks,   *)
(* a summary by service and the totals, all computed on the page from the   *)
(* one list the query nodeMap answers.                                      *)
(*                                                                         *)
(* An entry is [host, role, drained, cpu, chips]; a chip is [service, cpu]. *)
(* Memory is averaged as cpu is, and left out.                              *)
(***************************************************************************)
EXTENDS Integers, FiniteSets, TLC, SequencesExt

CONSTANTS
  MapHosts,    (* hostnames: Swarm does not require them to differ          *)
  ChipLists,   (* the lists of chips a node may have                        *)
  Usages,      (* the values of cpu, in percent                             *)
  MaxEntries   (* bound on the nodes                                        *)

ASSUME MapAssumption ==
  /\ MaxEntries \in Nat /\ Usages \subseteq Nat
  /\ \A chips \in ChipLists : Len(chips) \in Nat /\ DOMAIN chips = 1..Len(chips)

VARIABLES
  entries,    (* what the query answered last, <<>> before                  *)
  mapQuery    (* "none", "sent": the query in flight                        *)

mapVars == <<entries, mapQuery>>

Entries ==
  [host : MapHosts, role : {"manager", "worker"}, drained : BOOLEAN, cpu : Usages,
   chips : ChipLists]

RoundedMean(sum, n) == (2 * sum + n) \div (2 * n)

Total(numbers) ==
  LET upTo[n \in 0..Len(numbers)] == IF n = 0 THEN 0 ELSE upTo[n - 1] + numbers[n]
  IN upTo[Len(numbers)]

(* The members of S, in the order of a set of pairs.                        *)
InOrder(S, before) ==
  [i \in 1..Cardinality(S) |->
     CHOOSE s \in S : Cardinality({t \in S : <<t, s>> \in before}) = i - 1]

-----------------------------------------------------------------------------
(* The masthead, and the nodes by role.                                     *)

TotalServices(es) == Total([i \in DOMAIN es |-> Len(es[i].chips)])
ReadyCount(es) == Cardinality({i \in DOMAIN es : ~es[i].drained})

(* The first of the nodes with the most cpu.                                *)
Busiest(es) ==
  es[CHOOSE i \in DOMAIN es : /\ \A j \in DOMAIN es : es[j].cpu <= es[i].cpu
                              /\ \A j \in 1..(i - 1) : es[j].cpu < es[i].cpu]
NoHostname == ""
PeakHostname(es) == IF es = <<>> THEN NoHostname ELSE Busiest(es).host

OfRole(es, managers) == {i \in DOMAIN es : (es[i].role = "manager") = managers}
Group(es, managers) ==
  LET I == OfRole(es, managers)
      order == InOrder(I, {p \in I \X I : p[1] < p[2]})
  IN [k \in DOMAIN order |-> es[order[k]]]

GroupedEntries(es) ==
  <<[key |-> "managers", entries |-> Group(es, TRUE)],
    [key |-> "workers", entries |-> Group(es, FALSE)]>>

(* A node's card: its border, its pills, its chips.                         *)
Border(e) == IF e.drained THEN "drain" ELSE e.role
Card(e, es) ==
  [host |-> e.host, border |-> Border(e), peak |-> e.host = PeakHostname(es),
   drain |-> e.drained, chips |-> e.chips]

-----------------------------------------------------------------------------
(* The lower half: services and totals.                                     *)

(* Where the chips are: the node, and the place in its list.                *)
TaskPlaces(es) == UNION {{i} \X DOMAIN es[i].chips : i \in DOMAIN es}
ChipAt(es, p) == es[p[1]].chips[p[2]]
Earlier(p, q) == p[1] < q[1] \/ (p[1] = q[1] /\ p[2] < q[2])

ServiceNames(es) == {ChipAt(es, p).service : p \in TaskPlaces(es)}
TasksOf(es, name) == {p \in TaskPlaces(es) : ChipAt(es, p).service = name}
HostsOf(es, name) == {es[p[1]].host : p \in TasksOf(es, name)}
TaskCount(es, name) == Cardinality(TasksOf(es, name))
AvgCpu(es, name) ==
  RoundedMean(MapThenSumSet(LAMBDA p : ChipAt(es, p).cpu, TasksOf(es, name)),
              TaskCount(es, name))

RowOf(es, name) ==
  [service |-> name, nodeCount |-> Cardinality(HostsOf(es, name)),
   taskCount |-> TaskCount(es, name), avgCpu |-> AvgCpu(es, name)]

(* The services, those of most tasks first and, as the sort is stable, of   *)
(* two with as many the one that is met first.                              *)
MetBefore(es, a, b) == \E p \in TasksOf(es, a) : \A q \in TasksOf(es, b) : Earlier(p, q)
Outranks(es, a, b) ==
  \/ TaskCount(es, a) > TaskCount(es, b)
  \/ TaskCount(es, a) = TaskCount(es, b) /\ MetBefore(es, a, b)
ServiceSummary(es) ==
  LET names == ServiceNames(es)
      order == InOrder(names, {p \in names \X names : Outranks(es, p[1], p[2])})
  IN [i \in DOMAIN order |-> RowOf(es, order[i])]

HalfDown(rows) == Len(rows) \div 2
Half(rows) == (Len(rows) + 1) \div 2

(* Five rows fit one column; more are cut in halves.                        *)
SummaryColumns(es) ==
  LET rows == ServiceSummary(es)
      cut == IF Len(rows) <= 5 THEN Len(rows) ELSE Half(rows)
      left == SubSeq(rows, 1, cut)
      right == SubSeq(rows, cut + 1, Len(rows))
  IN IF rows = <<>> THEN <<>> ELSE IF Len(rows) <= 5 THEN <<left>> ELSE <<left, right>>

ClusterTotals(es) ==
  [nodeCount |-> Len(es), distinctServices |-> Cardinality(ServiceNames(es)),
   taskCount |-> Cardinality(TaskPlaces(es)),
   avgCpu |-> IF es = <<>> THEN 0
              ELSE RoundedMean(Total([i \in DOMAIN es |-> es[i].cpu]), Len(es)),
   busiestHostname |-> IF es = <<>> THEN "-" ELSE Busiest(es).host,
   busiestCpu |-> IF es = <<>> THEN 0 ELSE Busiest(es).cpu]

Masthead(es) ==
  [ready |-> ReadyCount(es), total |-> Len(es), tasks |-> TotalServices(es)]
CardRow(group, es) ==
  [i \in DOMAIN group.entries |-> Card(group.entries[i], es)]
CardGroups(es) == [g \in 1..2 |-> CardRow(GroupedEntries(es)[g], es)]

-----------------------------------------------------------------------------
MapInit == entries = <<>> /\ mapQuery = "sent"

MapAnswers ==
  /\ mapQuery = "sent" /\ mapQuery' = "none"
  /\ \E n \in 0..MaxEntries : \E es \in [1..n -> Entries] : entries' = es

(* A failed query hands the page a result without entries.                  *)
MapFails ==
  /\ mapQuery = "sent" /\ mapQuery' = "none" /\ entries' = <<>>

PollMap ==
  /\ mapQuery = "none" /\ mapQuery' = "sent" /\ UNCHANGED entries

MapNext == MapAnswers \/ MapFails \/ PollMap

MapSpec == MapInit /\ [][MapNext]_mapVars

-----------------------------------------------------------------------------
MapTypeOK == entries \in Seq(Entries) /\ mapQuery \in {"none", "sent"}

(* The figures of the page add up: the tasks of the summary are those of    *)
(* the totals and the pill, both columns hold every service once and the    *)
(* one with most tasks first, the groups hold every node, and somebody has  *)
(* the badge of the peak, the one the totals name.                          *)
FiguresAddUp ==
  LET columns == SummaryColumns(entries)
      left == IF columns = <<>> THEN <<>> ELSE columns[1]
      right == IF Len(columns) = 2 THEN columns[2] ELSE <<>>
      rows == left \o right
      groups == CardGroups(entries)
      totals == ClusterTotals(entries)
      masthead == Masthead(entries)
      ready == [g \in 1..2 |-> {k \in DOMAIN groups[g] : groups[g][k].border # "drain"}]
  IN /\ Len(rows) = totals.distinctServices
     /\ Total([i \in DOMAIN rows |-> rows[i].taskCount]) = totals.taskCount
     /\ totals.taskCount = masthead.tasks
     /\ Cardinality({rows[i].service : i \in DOMAIN rows}) = Len(rows)
     /\ \A i, j \in DOMAIN rows : i < j => rows[i].taskCount >= rows[j].taskCount
     /\ \A i \in DOMAIN rows : rows[i].nodeCount \in 1..rows[i].taskCount
     /\ Len(columns) = 2 => Len(left) - Len(right) \in {0, 1}
     /\ Len(groups[1]) + Len(groups[2]) = totals.nodeCount
     /\ \A i \in DOMAIN entries : entries[i].cpu <= totals.busiestCpu
     /\ \A g \in 1..2 : \A k \in DOMAIN groups[g] :
          groups[g][k].peak <=> groups[g][k].host = totals.busiestHostname
     /\ entries # <<>> => /\ \E g \in 1..2 : \E k \in DOMAIN groups[g] : groups[g][k].peak
                          /\ totals.avgCpu <= totals.busiestCpu
     /\ masthead.ready = Cardinality(ready[1]) + Cardinality(ready[2])
=============================================================================
