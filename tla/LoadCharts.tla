----------------------------- MODULE LoadCharts -----------------------------
(***************************************************************************)
(* The load page (src/apps/web/src/app/pages/load/load.component.ts): it    *)
(* asks for the stacks, then for the load of each of them over the range    *)
(* chosen, and charts the TopSize with the highest load.                    *)
(*                                                                         *)
(* A second choice does not cancel the requests of the first: whichever is  *)
(* complete last is what the page charts.  The loads of one range share     *)
(* their requests (Apollo answers identical queries in flight together), so *)
(* "charting" is a set of ranges.  A stack's curve is its last value,       *)
(* NoCurve when its request failed or there is nothing to chart.            *)
(***************************************************************************)
EXTENDS Integers, FiniteSets, SequencesExt

CONSTANTS
  Stacks,      (* a sequence: the stacks as the server lists them           *)
  Levels,      (* the last values of curves                                 *)
  TopSize,     (* the most the page charts (7)                              *)
  ChartRanges  (* the ranges on offer                                       *)

ASSUME StacksAssumption ==
  /\ Len(Stacks) \in Nat /\ DOMAIN Stacks = 1..Len(Stacks)
  /\ \A i, j \in DOMAIN Stacks : Stacks[i] = Stacks[j] => i = j
ASSUME LevelsAssumption == Levels \subseteq Nat
ASSUME TopSizeAssumption == TopSize \in Nat \ {0}
ASSUME ChartRangesAssumption == ChartRanges # {}

VARIABLES
  loadRange,  (* the range chosen                                           *)
  loading,    (* the page says that it is loading                           *)
  listing,    (* the query of the stacks is in flight                       *)
  charting,   (* the ranges whose loads are in flight                       *)
  top,        (* what is charted, of which range, out of which curves       *)
  excused     (* history: loads of two ranges overlapped, or the stacks'       *)
              (* query failed                                               *)

loadVars == <<loadRange, loading, listing, charting, top, excused>>

NoCurve == -1
Curves == [ToSet(Stacks) -> Levels \union {NoCurve}]
Nowhere == [s \in ToSet(Stacks) |-> NoCurve]

(* The stacks with a curve, by their last value, and the first of them; of  *)
(* equal ones the first listed comes first, as the sort is stable.          *)
WithCurve(curves) == {s \in ToSet(Stacks) : curves[s] # NoCurve}
Listed(s) == CHOOSE i \in DOMAIN Stacks : Stacks[i] = s
Above(curves, s, t) ==
  curves[s] > curves[t] \/ (curves[s] = curves[t] /\ Listed(s) < Listed(t))
Place(stacks, curves, s) == Cardinality({t \in stacks : Above(curves, t, s)}) + 1
ByLoad(stacks, curves, n) ==
  [i \in 1..n |-> CHOOSE s \in stacks : Place(stacks, curves, s) = i]
Charted(stacks) == IF Cardinality(stacks) < TopSize THEN Cardinality(stacks) ELSE TopSize

(* Mutant: the first are taken before they are sorted.                      *)
RankedLate(curves) ==
  LET Earlier(s) == {t \in WithCurve(curves) : Listed(t) < Listed(s)}
      stacks == {s \in WithCurve(curves) : Cardinality(Earlier(s)) < TopSize}
  IN ByLoad(stacks, curves, Cardinality(stacks))

Ranked(curves) ==
  LET stacks == WithCurve(curves) IN ByLoad(stacks, curves, Charted(stacks))

(* What is on the page: one of three cards, or the charts with their legend.*)
LoadView ==
  IF loading THEN [card |-> "loading"]
  ELSE IF top.stacks = <<>> THEN [card |-> "empty"]
  ELSE [card |-> "charts", legend |-> top.stacks, labels |-> top.range,
        series |-> [i \in DOMAIN top.stacks |-> top.curves[top.stacks[i]]]]

LoadsInit ==
  /\ loadRange = CHOOSE r \in ChartRanges : TRUE
  /\ loading = TRUE /\ listing = TRUE /\ charting = {} /\ excused = FALSE
  /\ top = [range |-> loadRange, curves |-> Nowhere, stacks |-> <<>>]

OnRangeSilently(range) ==
  /\ loadRange' = range
  /\ UNCHANGED <<loading, listing, charting, top, excused>>
OnRange(range) ==
  /\ loadRange' = range /\ loading' = TRUE /\ listing' = TRUE
  /\ UNCHANGED <<charting, top, excused>>

(* The stacks answer: the range is read now, not when it was chosen.        *)
StacksAnswer ==
  /\ listing /\ listing' = FALSE
  /\ charting' = charting \union {loadRange}
  /\ excused' = (charting \ {loadRange} # {})
  /\ UNCHANGED <<loadRange, loading, top>>

NoStacksAnswer ==
  /\ listing /\ listing' = FALSE /\ loading' = FALSE
  /\ top' = [range |-> loadRange, curves |-> Nowhere, stacks |-> <<>>]
  /\ excused' = (charting # {})
  /\ UNCHANGED <<loadRange, charting>>

(* Nothing handles a failure: the page goes on loading.                     *)
StacksFail ==
  /\ listing /\ listing' = FALSE /\ excused' = TRUE
  /\ UNCHANGED <<loadRange, loading, charting, top>>

(* All the loads of a range have answered or failed.                        *)
LoadsAnswer(range) ==
  /\ range \in charting /\ charting' = charting \ {range}
  /\ loading' = FALSE
  /\ \E curves \in Curves :
       top' = [range |-> range, curves |-> curves, stacks |-> Ranked(curves)]
  /\ UNCHANGED <<loadRange, listing, excused>>

LoadsNext ==
  \/ StacksAnswer \/ NoStacksAnswer \/ StacksFail
  \/ \E range \in ChartRanges : OnRange(range) \/ LoadsAnswer(range)

LoadsSpec == LoadsInit /\ [][LoadsNext]_loadVars

-----------------------------------------------------------------------------
LoadsTypeOK ==
  /\ loadRange \in ChartRanges /\ charting \subseteq ChartRanges
  /\ {loading, listing, excused} \subseteq BOOLEAN
  /\ top.range \in ChartRanges /\ top.curves \in Curves /\ top.stacks \in Seq(ToSet(Stacks))

(* Once everything is answered the page charts the range chosen, unless the *)
(* loads of another range were still in flight when these were asked for.   *)
LoadSettled ==
  ~listing /\ charting = {} /\ ~excused => ~loading /\ top.range = loadRange

(* The stacks charted are in the order of their load, and none that is left *)
(* out has a higher one.                                                    *)
TopRanked ==
  LET Of(i) == top.curves[top.stacks[i]]
      Others == {s \in DOMAIN top.curves : s \notin ToSet(top.stacks)}
  IN /\ \A i, j \in DOMAIN top.stacks : i < j => Of(i) >= Of(j)
     /\ \A i \in DOMAIN top.stacks, s \in Others : Of(i) >= top.curves[s]
     /\ \A s \in Others : top.curves[s] # NoCurve => Len(top.stacks) = TopSize
     /\ LoadView.card = "empty" => \A s \in Others : top.curves[s] = NoCurve

LoadsSound == LoadSettled /\ TopRanked
=============================================================================
