---------------------------- MODULE MCWebConsole ----------------------------
(***************************************************************************)
(* The web console in one run: the session with its boot overlay, the pages *)
(* of one stack, service or task, the list pages with their forms, the top  *)
(* bar, the profile page, the toasts, and the charts and figures.  Each has *)
(* its own component state and its own queries, so their interleavings tell *)
(* nothing: the run explores each by itself, chosen by "part", with the     *)
(* others at rest.                                                          *)
(***************************************************************************)
EXTENDS WebConsole, DetailPages, ListPages, TopBar, ProfilePage, Toasts,
        LoadCharts, Dashboard, NodeMap

VARIABLE part

sessionVars == vars
consoleVars ==
  <<sessionVars, detailVars, listVars, barVars, profileVars, toastVars, loadVars, dashVars,
    mapVars, part>>

ConsoleParts ==
  {"session", "detail", "list", "bar", "profile", "toast", "load", "dashboard", "map"}

(* A part at rest has one initial state.                                    *)
ConsoleInit ==
  /\ part \in ConsoleParts
  /\ IF part = "detail" THEN TRUE ELSE kind = "stack"
  /\ IF part = "list" THEN TRUE ELSE listKind = "stacks"
  /\ IF part = "profile" THEN TRUE ELSE loads = {}
  /\ Init /\ DetailInit /\ ListInit /\ BarInit
  /\ part # "bar" => /\ theme.shown = "light" /\ language.shown = "en"
                     /\ badge.server = "swarm" /\ tokens.server = 0
  /\ ProfileInit
  /\ part # "profile" => account.details = "v" /\ account.password = "p"
  /\ ToastInit /\ LoadsInit /\ DashInit /\ MapInit

ConsoleNext ==
  /\ UNCHANGED part
  /\ \/ /\ part = "session" /\ Next
        /\ UNCHANGED <<detailVars, listVars, barVars, profileVars, toastVars, loadVars, dashVars, mapVars>>
     \/ /\ part = "detail" /\ DetailNext
        /\ UNCHANGED <<sessionVars, listVars, barVars, profileVars, toastVars, loadVars, dashVars, mapVars>>
     \/ /\ part = "list" /\ ListNext
        /\ UNCHANGED <<sessionVars, detailVars, barVars, profileVars, toastVars, loadVars, dashVars, mapVars>>
     \/ /\ part = "bar" /\ BarNext
        /\ UNCHANGED <<sessionVars, detailVars, listVars, profileVars, toastVars, loadVars, dashVars, mapVars>>
     \/ /\ part = "profile" /\ ProfileNext
        /\ UNCHANGED <<sessionVars, detailVars, listVars, barVars, toastVars, loadVars, dashVars, mapVars>>
     \/ /\ part = "toast" /\ ToastNext
        /\ UNCHANGED <<sessionVars, detailVars, listVars, barVars, profileVars, loadVars, dashVars, mapVars>>
     \/ /\ part = "load" /\ LoadsNext
        /\ UNCHANGED <<sessionVars, detailVars, listVars, barVars, profileVars, toastVars, dashVars, mapVars>>
     \/ /\ part = "dashboard" /\ DashNext
        /\ UNCHANGED <<sessionVars, detailVars, listVars, barVars, profileVars, toastVars, loadVars, mapVars>>
     \/ /\ part = "map" /\ MapNext
        /\ UNCHANGED <<sessionVars, detailVars, listVars, barVars, profileVars, toastVars, loadVars, dashVars>>

ConsoleSpec == ConsoleInit /\ [][ConsoleNext]_consoleVars /\ Fairness

-----------------------------------------------------------------------------
(* The properties of the parts but the session's, which are checked by name.*)

WebTypeOK ==
  CASE part = "session"   -> TypeOK
    [] part = "detail"    -> DetailTypeOK
    [] part = "list"      -> ListTypeOK
    [] part = "bar"       -> BarTypeOK
    [] part = "profile"   -> ProfileTypeOK
    [] part = "toast"     -> ToastTypeOK
    [] part = "load"      -> LoadsTypeOK
    [] part = "dashboard" -> DashTypeOK
    [] part = "map"       -> MapTypeOK

(* What is on the screen is true.                                           *)
ScreensTruthful ==
  CASE part = "detail"    -> DetailSound
    [] part = "list"      -> ListSound
    [] part = "bar"       -> BarSound
    [] part = "profile"   -> ProfileSound
    [] part = "toast"     -> ToastsKept
    [] part = "load"      -> LoadsSound
    [] part = "dashboard" -> DashSound
    [] OTHER              -> TRUE

(* On the node map the summary, the totals and the nodes' cards add up to   *)
(* the same tasks, services and nodes, whatever the query answered.         *)
FiguresRight == part = "map" => FiguresAddUp

-----------------------------------------------------------------------------
Chip(name, cpu) == [service |-> name, cpu |-> cpu]
SomeChips ==
  {<<>>, <<Chip("s", 10), Chip("s", 35)>>, <<Chip("t", 5), Chip("s", 10)>>,
   [i \in 1..6 |-> Chip(<<"a", "b", "c", "d", "e", "s">>[i], 5 * i)]}
ListedStacks == <<"a", "b", "c">>

(* The chart of a task is explored while nothing is done to it, and the     *)
(* operations one at a time, on running tasks.                              *)
SmallDetail ==
  /\ kind # "task" => chart.range = "1h" /\ chart.asked \in {<<>>, <<"1h">>}
  /\ chart.asked # <<>> => mutations = {} /\ ~details.menu /\ cluster.v = 1
  /\ Len(chart.asked) <= 3
  /\ mutations # {} => \A s \in Services : cluster.task[s] = "RUNNING"
  /\ Cardinality(mutations) <= 1
  /\ kind = "service" => cluster.task["b"] = "RUNNING"

(* Two requests at a time for the form that guards against them; the forms, *)
(* the viewer and the search are explored while the list is quiet.          *)
QuietList == store.v = 1 /\ fetches = {} /\ requests = <<>> /\ list.owed = 0
SmallList ==
  /\ Len(requests) <= (IF listKind = "users" THEN 2 ELSE 1)
  /\ Len(requests) = 2 => fetches = {}
  /\ store.v <= (IF listKind \in {"stacks", "nodes"} THEN 3 ELSE 2)
  /\ dialog.open => dialog.name \in {"", " ", "a"} /\ (requests = <<>> => QuietList)
  /\ viewer # NoViewer => requests = <<>> /\ dialog = NoDialog
  /\ Len(contents.waiting) = 2 => fetches = {}
  /\ Len(contents.waiting) <= 2
  /\ list.search # "" \/ list.filter # "all" => dialog = NoDialog /\ QuietList /\ viewer = NoViewer

(* The menu, the theme, the language, the badge, the bell and the tokens    *)
(* share nothing but the menu.                                              *)
MenuClosed == menu = [open |-> FALSE, langs |-> FALSE]
BadgeQuiet == badge.query = "sent" /\ badge.server = "swarm"
BellQuiet == bell = QuietBell(1, 0)
TokensQuiet == ~tokens.open /\ tokens.mask = 0 /\ tokens.load = "none"
SmallBar ==
  /\ language.loads # {} \/ language.stored # NoLang =>
       BellQuiet /\ tokens.made = 1 /\ TokensQuiet /\ BadgeQuiet
  /\ ~BellQuiet => MenuClosed /\ TokensQuiet /\ BadgeQuiet
  /\ tokens.open \/ tokens.load # "none" => ~menu.langs /\ BadgeQuiet
  /\ theme.stored # "none" => MenuClosed /\ language.stored = NoLang /\ BellQuiet /\ TokensQuiet

(* A password is typed while the details are saved and shown.               *)
Typed ==
  \/ pwDialog.errors # {}
  \/ \E text \in {pwDialog.current, pwDialog.next, pwDialog.confirm} : text # Nothing
SmallProfile ==
  /\ Cardinality(saves) <= 2
  /\ Typed => /\ form.val = form.orig /\ form.me = known /\ known = account.details
              /\ loads = {} /\ ~form.touched /\ Cardinality(saves) <= 1
  /\ \A s \in saves : s.op = "password" /\ ~s.own => Cardinality(saves) = 1 /\ pwDialog = PwClosed

(* The curves do not depend on the cluster's nodes; the node map's query    *)
(* is followed by its answer.                                               *)
SmallFigures ==
  /\ fleet.v > 0 \/ overview.query # "none" => curves.range = "1h" /\ curves.shown = "none"
  /\ mapQuery = "sent" => entries = <<>>

(* The first session is the first user's. Two refreshes overlap in the first*)
(* session, and one of them reaches into the second at most; so does a      *)
(* reload.                                                                  *)
FirstUser == CHOOSE u \in Users : TRUE
SmallSession ==
  /\ signIns = 1 => {login, token} \subseteq {NoUser, FirstUser}
  /\ inRefresh = 2 => signIns = 1 /\ reloads = 0
  /\ inRefresh > 0 => signIns + reloads <= 2
  /\ reloads > 0 => signIns <= 2

SmallConsole == SmallSession /\ SmallDetail /\ SmallList /\ SmallBar /\ SmallProfile /\ SmallFigures
=============================================================================
