----------------------------- MODULE ListPages -----------------------------
(***************************************************************************)
(* The console's list pages, each with its table, the dialog that creates  *)
(* a row, and what can be done with a row: opened, looked at, made the     *)
(* default, removed, drained.  The lists are polled; a page opened again   *)
(* starts with what Apollo's cache holds.                                  *)
(*                                                                         *)
(* Apollo sends no query while an equal one is in flight: who asks joins   *)
(* it.  Users without the role have no buttons, and send nothing.          *)
(***************************************************************************)
EXTENDS Naturals, SequencesExt

CONSTANTS
  Names,       (* the names of rows                                         *)
  ListKinds,   (* the pages explored                                        *)
  Workers,     (* of the nodes: those that are no managers                  *)
  MaxWrites    (* bound on the changes of the server's rows                 *)

ASSUME MaxWritesAssumption == MaxWrites \in Nat \ {0}

VARIABLES
  store,     (* the server's rows, after "v" changes; which are marked: the *)
             (* default registry, the drained nodes                         *)
  listKind,  (* which page this is                                          *)
  cache,     (* what Apollo's cache holds of the list                       *)
  list,      (* the page, while it is on the screen                         *)
  viewer,    (* its dialog that shows a row                                 *)
  dialog,    (* the dialog that creates one                                 *)
  fetches,   (* the list's queries in flight                                *)
  contents,  (* the query of the configs' contents, and who waits for it    *)
  requests   (* the mutations in flight                                     *)

listVars == <<store, listKind, cache, list, viewer, dialog, fetches, contents, requests>>

NoName == ""   (* no row, nothing typed                                     *)
Spaces == " "  (* a name of spaces only                                     *)
NoRows == [v |-> 0, rows |-> {}, marked |-> {}]

-----------------------------------------------------------------------------
(* The pages: whether a click opens a row, what of a row a dialog shows,    *)
(* and what may be asked of it.                                             *)

Table(opens, views, acts) == [opens |-> opens, views |-> views, acts |-> acts]

StacksPage     == Table(TRUE, "nothing", {})
ServicesPage   == Table(TRUE, "nothing", {})
TasksPage      == Table(TRUE, "nothing", {})
NetworksPage   == Table(FALSE, "nothing", {})
VolumesPage    == Table(FALSE, "nothing", {})
SecretsPage    == Table(FALSE, "row", {})
ConfigsPage    == Table(FALSE, "content", {})
UsersPage      == Table(FALSE, "nothing", {})
RegistriesPage == Table(FALSE, "nothing", {"setDefault", "remove"})
NodesPage      == Table(FALSE, "nothing", {"drain", "activate"})

Tables ==
  [stacks |-> StacksPage, services |-> ServicesPage, tasks |-> TasksPage,
   networks |-> NetworksPage, volumes |-> VolumesPage, secrets |-> SecretsPage,
   configs |-> ConfigsPage, users |-> UsersPage, registries |-> RegistriesPage,
   nodes |-> NodesPage]

(* The forms: whether more than the name must be filled in, whether a name  *)
(* of spaces is refused, and whether the button is off while a request      *)
(* runs.                                                                    *)
Form(more, trims, once) == [more |-> more, trims |-> trims, once |-> once]

StackForm    == Form(FALSE, TRUE, FALSE)
ServiceForm  == Form(TRUE, TRUE, FALSE)
NetworkForm  == Form(FALSE, FALSE, FALSE)
VolumeForm   == Form(FALSE, FALSE, FALSE)
SecretForm   == Form(FALSE, TRUE, FALSE)
ConfigForm   == Form(FALSE, FALSE, FALSE)
UserForm     == Form(TRUE, FALSE, TRUE)
RegistryForm == Form(TRUE, FALSE, FALSE)

Forms ==
  [stacks |-> StackForm, services |-> ServiceForm, networks |-> NetworkForm,
   volumes |-> VolumeForm, secrets |-> SecretForm, configs |-> ConfigForm,
   users |-> UserForm, registries |-> RegistryForm]

(* newest (history): the latest rows shown so far; owed (history): those of *)
(* the last request answered; excused (history): a query failed since;      *)
(* late (history): a request failed that had been sent before the dialog    *)
(* was opened.                                                              *)
OffScreen ==
  [on |-> FALSE, shown |-> NoRows, search |-> NoName, filter |-> "all", menu |-> NoName,
   newest |-> 0, owed |-> 0, excused |-> FALSE]
NoViewer == [row |-> NoName, content |-> NoName, loading |-> FALSE]
NoDialog == [open |-> FALSE, name |-> NoName, rest |-> FALSE, step |-> 1,
             submitting |-> FALSE, late |-> FALSE]
(* crossed (history): an answer with the contents and an answer with the    *)
(* list have overtaken each other.                                          *)
NoContents == [pc |-> "none", rows |-> NoRows, waiting |-> <<>>, crossed |-> FALSE]

ListInit ==
  /\ store = [v |-> 1, rows |-> Names, marked |-> {}]
  /\ listKind \in ListKinds
  /\ cache = NoRows /\ list = OffScreen /\ viewer = NoViewer /\ dialog = NoDialog
  /\ fetches = {} /\ contents = NoContents /\ requests = <<>>

-----------------------------------------------------------------------------
(* The rows of the server.                                                  *)

Store(rows, marked) ==
  /\ store.v < MaxWrites
  /\ store' = [v |-> store.v + 1, rows |-> rows, marked |-> marked \intersect rows]

(* Somebody else adds or removes a row.                                     *)
OthersWrite ==
  /\ \E n \in Names :
       \/ n \in store.rows /\ Store(store.rows \ {n}, store.marked)
       \/ n \notin store.rows /\ Store(store.rows \union {n}, store.marked)
  /\ UNCHANGED <<listKind, cache, list, viewer, dialog, fetches, contents, requests>>

(* What a request does to the rows.                                         *)
Effect(op, n) ==
  CASE op = "create"     -> Store(store.rows \union {n}, store.marked)
    [] op = "remove"     -> Store(store.rows \ {n}, store.marked)
    [] op = "setDefault" -> n \in store.rows /\ Store(store.rows, {n})
    [] op = "drain"      -> n \in store.rows /\ Store(store.rows, store.marked \union {n})
    [] op = "activate"   -> n \in store.rows /\ Store(store.rows, store.marked \ {n})

-----------------------------------------------------------------------------
(* Loading and polling.                                                     *)

SentList == [pc |-> "sent", rows |-> NoRows]

(* Mutant: equal queries in flight are not joined.                          *)
AskListAgain == fetches' = fetches \union {SentList}

AskList == fetches' = IF fetches = {} THEN {SentList} ELSE fetches

ShowRows(rows) ==
  [list EXCEPT !.shown = rows, !.newest = IF rows.v > @ THEN rows.v ELSE @]

(* A page that finds its list in the cache sends nothing before it polls.   *)
OpenList ==
  /\ ~list.on
  /\ IF cache = NoRows
       THEN list' = [OffScreen EXCEPT !.on = TRUE] /\ AskList
       ELSE /\ list' = [OffScreen EXCEPT !.on = TRUE, !.shown = cache, !.newest = cache.v]
            /\ UNCHANGED fetches
  /\ UNCHANGED <<store, listKind, cache, viewer, dialog, contents, requests>>

(* Mutant: the list is not polled.                                          *)
PollNever == FALSE /\ UNCHANGED listVars

Poll ==
  /\ list.on /\ fetches = {} /\ AskList
  /\ UNCHANGED <<store, listKind, cache, list, viewer, dialog, contents, requests>>

ReadList ==
  /\ SentList \in fetches
  /\ fetches' = (fetches \ {SentList}) \union {[pc |-> "read", rows |-> store]}
  /\ UNCHANGED <<store, listKind, cache, list, viewer, dialog, contents, requests>>

AnswerList ==
  /\ \E answer \in fetches \ {SentList} :
       /\ fetches' = fetches \ {answer}
       /\ cache' = answer.rows
       /\ list' = IF list.on THEN ShowRows(answer.rows) ELSE list
       /\ contents' = [contents EXCEPT !.crossed = @ /\ answer.rows.v < list.newest]
  /\ UNCHANGED <<store, listKind, viewer, dialog, requests>>

(* A failed query hands the page a result without rows.                     *)
ListFails ==
  /\ \E query \in fetches : fetches' = fetches \ {query}
  /\ list' = IF list.on THEN [list EXCEPT !.shown = NoRows, !.excused = TRUE] ELSE list
  /\ UNCHANGED <<store, listKind, cache, viewer, dialog, contents, requests>>

-----------------------------------------------------------------------------
(* The table and its rows.                                                  *)

Search(text) ==
  /\ list.on /\ list.search # text /\ list' = [list EXCEPT !.search = text]
  /\ UNCHANGED <<store, listKind, cache, viewer, dialog, fetches, contents, requests>>

Filter(filter) ==
  /\ listKind = "nodes" /\ list.on /\ list.filter # filter
  /\ list' = [list EXCEPT !.filter = filter]
  /\ UNCHANGED <<store, listKind, cache, viewer, dialog, fetches, contents, requests>>

FilteredRows == {n \in list.shown.rows : list.search \in {NoName, n}}

FilteredNodes ==
  {n \in FilteredRows : list.filter # "all" => ((list.filter = "worker") <=> (n \in Workers))}

Visible == IF listKind = "nodes" THEN FilteredNodes ELSE FilteredRows

(* A click on a row: the router goes to its page.                           *)
LeaveList ==
  /\ list.on /\ list' = OffScreen /\ viewer' = NoViewer /\ dialog' = NoDialog
  /\ requests' = [i \in DOMAIN requests |->
                    [requests[i] EXCEPT !.own = FALSE, !.current = FALSE]]
  /\ contents' = [contents EXCEPT !.waiting = <<>>]
  /\ UNCHANGED <<store, listKind, cache, fetches>>

OnRowActivate == Tables[listKind].opens /\ Visible # {} /\ LeaveList

(* The user goes elsewhere.                                                 *)
GoElsewhere == ~Tables[listKind].opens /\ LeaveList

(* A secret's dialog shows the row, a config's what a query of its own      *)
(* brings of all the configs.                                               *)
View(n) ==
  /\ viewer.row = NoName /\ ~dialog.open /\ n \in Visible
  /\ \/ /\ Tables[listKind].views = "row"
        /\ viewer' = [NoViewer EXCEPT !.row = n]
        /\ UNCHANGED contents
     \/ /\ Tables[listKind].views = "content"
        /\ viewer' = [row |-> n, content |-> NoName, loading |-> TRUE]
        /\ contents' = [contents EXCEPT !.waiting = Append(@, n),
                                        !.pc = IF @ = "none" THEN "sent" ELSE @]
  /\ UNCHANGED <<store, listKind, cache, list, dialog, fetches, requests>>

CloseView ==
  /\ viewer.row # NoName /\ viewer' = [viewer EXCEPT !.row = NoName]
  /\ UNCHANGED <<store, listKind, cache, list, dialog, fetches, contents, requests>>

ReadContents ==
  /\ contents.pc = "sent" /\ contents' = [contents EXCEPT !.pc = "read", !.rows = store]
  /\ UNCHANGED <<store, listKind, cache, list, viewer, dialog, fetches, requests>>

ContentsOver == [contents EXCEPT !.pc = "none", !.rows = NoRows, !.waiting = <<>>]

(* The contents come under the list's own field of the cache.  The page     *)
(* shows the rows they are of; not so while a query of its own is in        *)
(* flight, but one that is may be that of an earlier opening.               *)
ListReplaced ==
  /\ contents' = [ContentsOver EXCEPT !.crossed =
       \/ @
       \/ contents.rows.v < list.newest
       \/ \E query \in fetches : query.pc = "read" /\ query.rows.v < contents.rows.v]
  /\ cache' = contents.rows /\ UNCHANGED fetches
  /\ \/ list.on /\ list' = ShowRows(contents.rows)
     \/ (list.on => fetches # {}) /\ UNCHANGED list

(* Apollo may lack the other fields of these rows: then it has no list, and *)
(* the page asks anew, unless it asks already or its last query failed.     *)
ListTorn ==
  /\ contents.rows.v # cache.v
  /\ contents' = ContentsOver /\ cache' = NoRows
  /\ \/ list.on /\ list' = [list EXCEPT !.shown = NoRows] /\ AskList
     \/ (list.on => fetches # {} \/ list.shown = NoRows) /\ UNCHANGED <<list, fetches>>

ShowContent(n) ==
  viewer' = IF contents.waiting = <<>> THEN viewer
            ELSE [viewer EXCEPT !.loading = FALSE,
                                !.content = IF n \in contents.rows.rows THEN n ELSE NoName]

(* Mutant: the first who waits has the last word.                           *)
AnswerContentsFirst ==
  /\ contents.pc = "read" /\ ShowContent(Head(contents.waiting))
  /\ ListReplaced \/ ListTorn
  /\ UNCHANGED <<store, listKind, dialog, requests>>

(* Everyone who waits looks for the row of theirs, in turn.                 *)
AnswerContents ==
  /\ contents.pc = "read" /\ ShowContent(Last(contents.waiting))
  /\ ListReplaced \/ ListTorn
  /\ UNCHANGED <<store, listKind, dialog, requests>>

(* Nobody handles the error.                                                *)
ContentsFail ==
  /\ contents.pc # "none" /\ contents' = ContentsOver
  /\ UNCHANGED <<store, listKind, cache, list, viewer, dialog, fetches, requests>>

SendRequest(op, n) ==
  requests' = Append(requests, [op |-> op, name |-> n, own |-> TRUE, current |-> TRUE,
                                pc |-> "sent", at |-> 0])

ToggleNodeMenu(n) ==
  /\ listKind = "nodes" /\ n \in Visible
  /\ list' = [list EXCEPT !.menu = IF @ = n THEN NoName ELSE n]
  /\ UNCHANGED <<store, listKind, cache, viewer, dialog, fetches, contents, requests>>

(* A registry that is not the default becomes it.                           *)
SetDefault(n) ==
  /\ listKind = "registries" /\ n \in Visible \ list.shown.marked
  /\ SendRequest("setDefault", n)
  /\ UNCHANGED <<store, listKind, cache, list, viewer, dialog, fetches, contents>>

(* The user has confirmed.                                                  *)
RemoveRow(n) ==
  /\ listKind = "registries" /\ n \in Visible
  /\ SendRequest("remove", n)
  /\ UNCHANGED <<store, listKind, cache, list, viewer, dialog, fetches, contents>>

SetAvailability(n) ==
  /\ list.menu = n /\ n \in Visible
  /\ list' = [list EXCEPT !.menu = NoName]
  /\ SendRequest(IF n \in list.shown.marked THEN "activate" ELSE "drain", n)
  /\ UNCHANGED <<store, listKind, cache, viewer, dialog, fetches, contents>>

-----------------------------------------------------------------------------
(* The dialog.                                                              *)

CreateRequested ==
  /\ list.on /\ listKind \in DOMAIN Forms /\ ~dialog.open /\ viewer.row = NoName
  /\ dialog' = [dialog EXCEPT !.open = TRUE]
  /\ UNCHANGED <<store, listKind, cache, list, viewer, fetches, contents, requests>>

(* A name may be spaces only.                                  *)
Type(name, rest) ==
  /\ dialog.open /\ (listKind = "services" => dialog.step = 2)
  /\ dialog' = [dialog EXCEPT !.name = name, !.rest = rest /\ Forms[listKind].more]
  /\ dialog' # dialog
  /\ UNCHANGED <<store, listKind, cache, list, viewer, fetches, contents, requests>>

(* The draft is dropped; requests sent from it go on.                       *)
OnClose ==
  /\ dialog' = NoDialog
  /\ requests' = [i \in DOMAIN requests |-> [requests[i] EXCEPT !.current = FALSE]]

CloseDialog ==
  /\ dialog.open /\ OnClose
  /\ UNCHANGED <<store, listKind, cache, list, viewer, fetches, contents>>

(* Of a service, a registry is chosen first, if there is one.               *)
NextStep ==
  /\ dialog.open /\ listKind = "services" /\ dialog.step = 1
  /\ dialog' = [dialog EXCEPT !.step = 2]
  /\ UNCHANGED <<store, listKind, cache, list, viewer, fetches, contents, requests>>

Valid(form) == dialog.name # NoName /\ (form.more => dialog.rest)
Acceptable(form) == ~(form.trims /\ dialog.name = Spaces)

(* Mutant: the button stays on.                                             *)
SubmitUnguarded ==
  /\ dialog.open /\ (listKind = "services" => dialog.step = 2)
  /\ Valid(Forms[listKind]) /\ Acceptable(Forms[listKind])
  /\ dialog' = [dialog EXCEPT !.submitting = Forms[listKind].once]
  /\ SendRequest("create", dialog.name)
  /\ UNCHANGED <<store, listKind, cache, list, viewer, fetches, contents>>

Submit ==
  /\ dialog.open /\ ~dialog.submitting /\ (listKind = "services" => dialog.step = 2)
  /\ Valid(Forms[listKind]) /\ Acceptable(Forms[listKind])
  /\ dialog' = [dialog EXCEPT !.submitting = Forms[listKind].once]
  /\ SendRequest("create", dialog.name)
  /\ UNCHANGED <<store, listKind, cache, list, viewer, fetches, contents>>

-----------------------------------------------------------------------------
(* The server's answers.                                                    *)

(* A name of spaces is refused.                                             *)
ExecuteRequest(i) ==
  /\ requests[i].pc = "sent" /\ requests[i].name # Spaces
  /\ Effect(requests[i].op, requests[i].name)
  /\ requests' = [requests EXCEPT ![i].pc = "done", ![i].at = store.v + 1]
  /\ UNCHANGED <<listKind, cache, list, viewer, dialog, fetches, contents>>

(* Apollo puts what a mutation returns of a row it knows into the cache.    *)
Merge(rows, op, n) ==
  CASE op \in {"setDefault", "drain"} /\ n \in rows.rows -> [rows EXCEPT !.marked = @ \union {n}]
    [] op = "activate" -> [rows EXCEPT !.marked = @ \ {n}]
    [] OTHER           -> rows

(* The list is asked for once more.  The answer of a creation closes the    *)
(* dialog, whatever it holds by now.                                        *)
RequestAnswered(i) ==
  LET r == requests[i] IN
  /\ r.pc = "done" /\ AskList
  /\ cache' = Merge(cache, r.op, r.name)
  /\ list' = IF list.on /\ r.own
               THEN [list EXCEPT !.shown = Merge(@, r.op, r.name), !.owed = r.at, !.excused = FALSE]
               ELSE [list EXCEPT !.shown = Merge(@, r.op, r.name)]
  /\ dialog' = IF r.op = "create" /\ r.own THEN NoDialog ELSE dialog
  /\ requests' = [j \in 1..(Len(requests) - 1) |->
       LET q == RemoveAt(requests, i)[j] IN
       [q EXCEPT !.current = @ /\ ~(r.op = "create" /\ r.own)]]
  /\ UNCHANGED <<store, listKind, viewer, contents>>

RequestFails(i) ==
  /\ requests[i].pc = "sent" /\ requests' = RemoveAt(requests, i)
  /\ dialog' = IF requests[i].op = "create" /\ requests[i].own
                 THEN [dialog EXCEPT !.submitting = FALSE,
                                     !.late = @ \/ (dialog.open /\ ~requests[i].current)]
                 ELSE dialog
  /\ UNCHANGED <<store, listKind, cache, list, viewer, fetches, contents>>

ListNext ==
  \/ OthersWrite \/ OpenList \/ Poll \/ ReadList \/ AnswerList \/ ListFails
  \/ OnRowActivate \/ GoElsewhere
  \/ \E text \in Names \union {NoName} : Search(text)
  \/ \E filter \in {"all", "manager", "worker"} : Filter(filter)
  \/ \E n \in Names : View(n) \/ ToggleNodeMenu(n) \/ SetDefault(n) \/ RemoveRow(n)
                        \/ SetAvailability(n)
  \/ CloseView \/ ReadContents \/ AnswerContents \/ ContentsFail
  \/ CreateRequested \/ CloseDialog \/ NextStep \/ Submit
  \/ \E name \in Names \union {Spaces}, rest \in BOOLEAN : Type(name, rest)
  \/ \E i \in DOMAIN requests : ExecuteRequest(i) \/ RequestAnswered(i) \/ RequestFails(i)

ListSpec == ListInit /\ [][ListNext]_listVars

(* The timer of the poll fires, and queries are answered or fail.           *)
ListFairness ==
  WF_listVars(Poll) /\ WF_listVars(ReadList) /\ WF_listVars(AnswerList)

-----------------------------------------------------------------------------

ListTypeOK ==
  /\ list.shown.rows \subseteq Names /\ list.newest \in 0..MaxWrites
  /\ dialog.step \in {1, 2} /\ viewer.content \in Names \union {NoName}
  /\ \A i \in DOMAIN requests : requests[i].at \in 0..MaxWrites

(* The polls and the reloads after a request never bring back rows older    *)
(* than those a page has shown (Apollo's watchQuery in the list pages).     *)
(* The configs' page alone asks for the same field by a second query, that  *)
(* of the contents (configs.component.ts, view): once the two have          *)
(* overtaken each other its list may go back, until the list's next answer. *)
ListNeverGoesBack == list.shown.v \in {0, list.newest} \/ contents.crossed

(* The config's dialog shows the content of the row it names, however many  *)
(* rows were opened and closed meanwhile (configs.component.ts, view).      *)
ContentIsOfRow ==
  viewer.row # NoName /\ ~viewer.loading => viewer.content \in {NoName, viewer.row}

(* The form that invites a user waits for a request that is on its way, and *)
(* for no more than one, unless the failure of an earlier opening's request *)
(* has released the button (user-form.component.ts, submit).                *)
OneInvitation ==
  LET running == {i \in DOMAIN requests : requests[i].op = "create" /\ requests[i].current} IN
  listKind = "users" => /\ dialog.submitting => running # {}
                        /\ ~dialog.late => Cardinality(running) <= 1

ListSound == ListNeverGoesBack /\ ContentIsOfRow /\ OneInvitation

(* What was asked for on a page comes to be shown there, or something       *)
(* later, unless the user leaves or a query fails.                          *)
RequestShows ==
  list.owed > list.newest ~> list.excused \/ list.newest >= list.owed
=============================================================================
