------------------------------- MODULE Readings -------------------------------
(***************************************************************************)
(* The figures of the dashboard: the samples the agents post, written to   *)
(* InfluxDB and read back as the load of nodes and tasks and as the curves *)
(* of a chart; and the counts of a week ago they are compared with.        *)
(*                                                                         *)
(* Agents start late, go silent and come back, InfluxDB fails, tasks end   *)
(* and days pass.  Without InfluxDB made-up figures stand in for the real  *)
(* ones; with it they must never appear.                                   *)
(***************************************************************************)
EXTENDS Integers, Sequences, FiniteSets, SequencesExt

CONSTANTS
  Buckets,      (* length of a chart's time range, in buckets               *)
  Levels,       (* values a sample can have                                 *)
  MaxHalfDays,  (* bound on the time that passes                            *)
  MaxCount,     (* bound on the number of services                          *)
  Viewers       (* slots for overview queries in flight                     *)

ASSUME BucketsAssumption == Buckets \in Nat \ {0}
ASSUME BoundsAssumption == MaxHalfDays \in Nat /\ MaxCount \in Nat

VARIABLES
  telemetry,  (* is InfluxDB configured?                                    *)
  influxUp,   (* does it answer?                                            *)
  samples,    (* measurement -> the means of its buckets, oldest first      *)
  taskState,  (* the state of a task whose load is a series like "cpu"      *)
  halfDay,    (* the time                                                   *)
  count,      (* the number of services now                                 *)
  snapshots,  (* rows of metricsSnapshots                                   *)
  recording   (* the overview queries, while they record the day            *)

readVars == <<telemetry, influxUp, samples, taskState, halfDay, count, snapshots, recording>>

Measurements == {"cpu", "memory", "disk"}
Null == "null"
Guess == "guess"     (* a figure made up from an id                         *)
Zero == "zero"

ASSUME LevelsAssumption == Null \notin Levels /\ Guess \notin Levels

NotRecording == [pc |-> "idle", began |-> 0, services |-> 0]

ReadingsInit ==
  /\ telemetry \in BOOLEAN /\ influxUp = TRUE
  /\ samples = [m \in Measurements |-> [i \in 1..Buckets |-> Null]]
  /\ taskState = "running"
  /\ halfDay = 0 /\ count = 0 /\ snapshots = {}
  /\ recording = [r \in Viewers |-> NotRecording]

-----------------------------------------------------------------------------

(* startStatsWriter: a payload has some of the three measurements; they are *)
(* written at once, or not at all while InfluxDB is down.                   *)
PostStats ==
  /\ telemetry /\ influxUp
  /\ \E sent \in SUBSET Measurements, level \in Levels :
       /\ sent # {}
       /\ samples' = [m \in Measurements |->
            IF m \in sent THEN [samples[m] EXCEPT ![Buckets] = level] ELSE samples[m]]
  /\ UNCHANGED <<telemetry, influxUp, taskState, halfDay, count, snapshots, recording>>

(* The next bucket begins; the oldest leaves the range.                     *)
NextBucket ==
  /\ samples' = [m \in Measurements |-> Append(Tail(samples[m]), Null)]
  /\ UNCHANGED <<telemetry, influxUp, taskState, halfDay, count, snapshots, recording>>

InfluxFails ==
  /\ telemetry /\ influxUp' = ~influxUp
  /\ UNCHANGED <<telemetry, samples, taskState, halfDay, count, snapshots, recording>>

TaskEnds ==
  /\ taskState' \in {"running", "failed"}
  /\ UNCHANGED <<telemetry, influxUp, samples, halfDay, count, snapshots, recording>>

HalfDayPasses ==
  /\ halfDay < MaxHalfDays /\ halfDay' = halfDay + 1
  /\ count' \in 0..MaxCount
  /\ UNCHANGED <<telemetry, influxUp, samples, taskState, snapshots, recording>>

Day(t) == t \div 2

Recorded(day) == \E s \in snapshots : s.day = day

(* Mutant: the row is inserted without a look at the table.                 *)
AskOverviewBlindly(r) ==
  /\ recording[r].pc # "insert"
  /\ recording' = [recording EXCEPT ![r] =
       [pc |-> "insert", began |-> halfDay, services |-> count]]
  /\ UNCHANGED <<telemetry, influxUp, samples, taskState, halfDay, count, snapshots>>

(* The overview counts, then looks whether the day has its row already.     *)
AskOverview(r) ==
  /\ recording[r].pc # "insert"
  /\ recording' = [recording EXCEPT ![r] =
       IF Recorded(Day(halfDay)) THEN NotRecording
       ELSE [pc |-> "insert", began |-> halfDay, services |-> count]]
  /\ UNCHANGED <<telemetry, influxUp, samples, taskState, halfDay, count, snapshots>>

(* The day is the primary key: if the row is there by now the INSERT fails, *)
(* and the query with it.                                                   *)
InsertSnapshot(r) ==
  LET mine == recording[r] IN
  /\ mine.pc = "insert"
  /\ \/ /\ ~Recorded(Day(mine.began))
        /\ snapshots' = snapshots \union
             {[day |-> Day(mine.began), recordedAt |-> halfDay, services |-> mine.services]}
        /\ recording' = [recording EXCEPT ![r] = NotRecording]
     \/ /\ Recorded(Day(mine.began))
        /\ recording' = [recording EXCEPT ![r].pc = "refused"]
        /\ UNCHANGED snapshots
  /\ UNCHANGED <<telemetry, influxUp, samples, taskState, halfDay, count>>

ReadingsNext ==
  \/ PostStats \/ NextBucket \/ InfluxFails \/ TaskEnds \/ HalfDayPasses
  \/ \E r \in Viewers : AskOverview(r) \/ InsertSnapshot(r)

ReadingsSpec == ReadingsInit /\ [][ReadingsNext]_readVars

-----------------------------------------------------------------------------
(* metrics/series.ts                                                        *)

(* A measurement without a point in the range has no series: no values.     *)
Raw(m) == IF \A i \in 1..Buckets : samples[m][i] = Null THEN <<>> ELSE samples[m]

NotNull(raw, i) == i > Len(raw) \/ raw[i] # Null

(* Mutant: the leading buckets are kept.                                    *)
StartFirst(cpu, mem, disk) == 1

(* The first bucket in which none of the three is null; a value that is     *)
(* missing altogether is not null.                                          *)
Start(cpu, mem, disk) ==
  LET whole == {i \in 1..Len(cpu) :
                  NotNull(cpu, i) /\ NotNull(mem, i) /\ NotNull(disk, i)}
  IN IF whole = {} THEN Len(cpu) + 1
     ELSE CHOOSE i \in whole : \A j \in whole : i <= j

FillForward(raw, start) ==
  LET shown == SubSeq(raw, start, Len(raw))
      filled[i \in 0..Len(shown)] ==
        IF i = 0 THEN Zero ELSE IF shown[i] # Null THEN shown[i] ELSE filled[i - 1]
  IN [i \in 1..Len(shown) |-> filled[i]]

NoSeries == [cpu |-> <<>>, memory |-> <<>>, disk |-> <<>>]

(* influxClusterSeries and influxNodeSeries: null without InfluxDB, when it *)
(* fails, and before there is a bucket with all three.                      *)
AssembleSeries ==
  LET start == Start(Raw("cpu"), Raw("memory"), Raw("disk")) IN
  IF ~(telemetry /\ influxUp) \/ start > Len(Raw("cpu")) THEN NoSeries
  ELSE [m \in Measurements |-> FillForward(Raw(m), start)]

(* decorateNodes: the mean of the last buckets, zero without any.           *)
NodeLoad(m) ==
  IF ~telemetry THEN Guess
  ELSE IF influxUp /\ samples[m][Buckets] # Null THEN samples[m][Buckets] ELSE Zero

(* The last value of the task's series, of which it has none while InfluxDB *)
(* fails or has no point in the range.                                      *)
Points == IF telemetry /\ influxUp THEN {i \in 1..Buckets : samples["cpu"][i] # Null} ELSE {}
LastPoint == samples["cpu"][Max(Points)]

(* Mutant: a task without a series gets the made-up load.                   *)
TaskLoadAlways == IF taskState = "running" /\ Points # {} THEN LastPoint ELSE Guess

(* fetchTaskContainerStats and mapTaskInfo.                                 *)
TaskLoad ==
  IF taskState = "running" /\ Points # {} THEN LastPoint
  ELSE IF taskState = "running" /\ ~telemetry THEN Guess
  ELSE Zero

-----------------------------------------------------------------------------
(* store/metrics-history.ts                                                 *)

Age(s) == halfDay - s.recordedAt
FromWeek(s) == IF Age(s) >= 14 THEN Age(s) - 14 ELSE 14 - Age(s)

(* Mutant: the nearest row, however old it is.                              *)
BaselinesOfAnyAge ==
  {s \in snapshots : \A o \in snapshots : FromWeek(s) <= FromWeek(o)}

(* The row of a week ago: the nearest to it that is six to eight days old.  *)
Baselines ==
  {s \in snapshots : /\ Age(s) >= 12 /\ Age(s) <= 16
                     /\ \A o \in snapshots : FromWeek(s) <= FromWeek(o)}

(* No change shown, because there is nothing to compare or none happened.   *)
NoDelta == <<>>
SignedDelta(n) == IF n = 0 THEN NoDelta ELSE <<n>>

(* What weekOverWeekDeltas may answer for the services: of two rows equally *)
(* near either may come first.                                              *)
ServicesDeltas ==
  IF Baselines = {} THEN {NoDelta} ELSE {SignedDelta(count - s.services) : s \in Baselines}

-----------------------------------------------------------------------------

ReadingsTypeOK ==
  /\ samples \in [Measurements -> [1..Buckets -> Levels \union {Null}]]
  /\ halfDay \in 0..MaxHalfDays /\ count \in 0..MaxCount
  /\ \A s, o \in snapshots : s.day = o.day => s = o
  /\ \A r \in Viewers : recording[r].pc \in {"idle", "insert", "refused"}

(* A curve starts where all measurements that have data have some, every    *)
(* point of it is the latest sample up to its bucket, never a zero or a     *)
(* made-up one, and the curves of measurements with data are equally long   *)
(* (metrics/series.ts:120-125).                                             *)
CurvesAreSampled ==
  LET curve == AssembleSeries
      first == Buckets - Len(curve["cpu"]) + 1
  IN curve["cpu"] # <<>> =>
       \A m \in Measurements : Raw(m) # <<>> =>
         /\ Len(curve[m]) = Len(curve["cpu"])
         /\ \A i \in first..Buckets :
              \E j \in first..i : /\ curve[m][i - first + 1] = samples[m][j]
                                  /\ samples[m][j] # Null
                                  /\ \A k \in (j + 1)..i : samples[m][k] = Null

(* With InfluxDB configured no made-up figure is shown, whether it answers  *)
(* or not; a task that does not run shows none in any case                  *)
(* (graphql/resolvers.ts:189-193, 350-353).                                 *)
NoInventedLoad ==
  /\ telemetry => Guess \notin ({NodeLoad(m) : m \in Measurements} \union {TaskLoad})
  /\ taskState # "running" => TaskLoad = Zero

(* A change that is shown is one, against a snapshot six to eight days old, *)
(* whatever others are older or younger; and none is kept back: if the      *)
(* snapshots of that age all differ from now, one is shown                  *)
(* (store/metrics-history.ts:31-34, 42-46).                                 *)
WeeksAreCompared ==
  LET ofTheWeek == {s \in snapshots : Age(s) \in 12..16} IN
  /\ \A d \in ServicesDeltas \ {NoDelta} :
       d[1] # 0 /\ \E s \in ofTheWeek : s.services + d[1] = count
  /\ ofTheWeek # {} /\ (\A s \in ofTheWeek : s.services # count) => NoDelta \notin ServicesDeltas

(* An overview is refused only because another one recorded the same day    *)
(* while it was under way: of overlapping ones one is answered, and the day *)
(* has its row.  The comment on the function calls it an upsert and a no-op *)
(* after the day's first call; it selects and then inserts, and this is how *)
(* far it falls short of that (store/metrics-history.ts:10-29).             *)
RefusedByAnother ==
  \A r \in Viewers : recording[r].pc = "refused" =>
    \E s \in snapshots : s.day = Day(recording[r].began) /\ s.recordedAt >= recording[r].began

ReadingsHonest ==
  CurvesAreSampled /\ NoInventedLoad /\ WeeksAreCompared /\ RefusedByAnother
=============================================================================
