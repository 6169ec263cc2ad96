----------------------------- MODULE MCSettling -----------------------------
(***************************************************************************)
(* What must happen in the end, on small instances: the tokens of ended     *)
(* sessions are blacklisted or expire, what was asked for on a page comes   *)
(* to be shown there, toasts leave and figures catch up.  The parts share   *)
(* nothing: the run explores each by itself, chosen by "part", with the     *)
(* others at rest.                                                          *)
(***************************************************************************)
EXTENDS MCSessions, DetailPages, ListPages, Toasts, Dashboard

VARIABLE part

settlingVars == <<vars, detailVars, listVars, toastVars, dashVars, part>>

SettlingInit ==
  /\ part \in {"sessions", "detail", "list", "toast", "dashboard"}
  /\ Init /\ DetailInit /\ ListInit /\ ToastInit /\ DashInit
  /\ part # "detail" => kind = CHOOSE k \in PageKinds : TRUE
  /\ part # "list" => listKind = CHOOSE k \in ListKinds : TRUE

SettlingNext ==
  /\ UNCHANGED part
  /\ \/ /\ part = "sessions" /\ Next
        /\ UNCHANGED <<detailVars, listVars, toastVars, dashVars>>
     \/ /\ part = "detail" /\ DetailNext
        /\ UNCHANGED <<vars, listVars, toastVars, dashVars>>
     \/ /\ part = "list" /\ ListNext
        /\ UNCHANGED <<vars, detailVars, toastVars, dashVars>>
     \/ /\ part = "toast" /\ ToastNext
        /\ UNCHANGED <<vars, detailVars, listVars, dashVars>>
     \/ /\ part = "dashboard" /\ DashNext
        /\ UNCHANGED <<vars, detailVars, listVars, toastVars>>

(* At rest, nothing that is fair is enabled.                                *)
SettlingSpec ==
  /\ SettlingInit /\ [][SettlingNext]_settlingVars
  /\ Fairness /\ DetailFairness /\ ListFairness /\ ToastFairness /\ DashFairness

(* What the user did shows, toasts leave, figures catch up.                 *)
ScreensSettle == ActionShows /\ RequestShows /\ ToastsLeave /\ FiguresCatchUp

(* One operation at a time on running tasks, without the charts; one        *)
(* request of a list at a time, without its viewer, its search and its      *)
(* drafts; the dashboard without its curves.                                *)
SmallSettling ==
  /\ chart.range = "1h" /\ Len(chart.asked) <= 1 /\ Cardinality(mutations) <= 1
  /\ \A s \in Services : cluster.task[s] = "RUNNING"
  /\ Len(requests) <= 1 /\ viewer = NoViewer /\ dialog.name \in {"", "a"}
  /\ dialog.open => store.v = 1 /\ fetches = {} /\ requests = <<>> /\ list.owed = 0
  /\ list.search = "" /\ list.filter = "all" 
  /\ curves.range = "1h" /\ curves.shown = "none"
=============================================================================
