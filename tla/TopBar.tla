------------------------------- MODULE TopBar -------------------------------
(***************************************************************************)
(* The bar over the console's pages: the user's menu, the language and the *)
(* theme kept in localStorage, the orchestrator's badge, the bell of the   *)
(* recent activity and the dialog of the user's API token.                 *)
(*                                                                         *)
(* A language's dictionary is loaded while the user goes on choosing; the  *)
(* answers of the other requests come when they come.                      *)
(***************************************************************************)
EXTENDS Naturals, FiniteSets

CONSTANTS
  Langs,       (* the languages on offer                                    *)
  NoLang,      (* none was ever stored                                      *)
  MaxTokens,   (* bound on the API tokens generated                         *)
  MaxItems     (* bound on the entries of the server's activity feed        *)

ASSUME NoLangAssumption == NoLang \notin Langs
ASSUME MaxTokensAssumption == MaxTokens \in Nat \ {0}

VARIABLES
  menu,      (* the user's menu, and the list of languages in it            *)
  theme,     (* the theme stored and the one on <html>                      *)
  language,  (* the language stored, Transloco's, the one shown, the loads  *)
  badge,     (* the orchestrator: the server's, and the one shown           *)
  bell,      (* the activity feed, and what the bell knows of it            *)
  tokens     (* the user's API token, and its dialog                        *)

barVars == <<menu, theme, language, badge, bell, tokens>>

Themes == {"light", "dark"}

(* The stored language, else the browser's.                                 *)
ReadInitialLang(stored, browser) == IF stored # NoLang THEN stored ELSE browser

(* init: the dictionary is loaded before the application starts.  mixed     *)
(* (history): a language was chosen while another was loading, or a load    *)
(* failed.                                                                  *)
StartLanguage(stored, lang) ==
  [stored |-> stored, transloco |-> lang, shown |-> lang, document |-> lang,
   loaded |-> {lang}, loads |-> {}, mixed |-> FALSE]

(* Of an entry or a token, only how recent it is counts; 0 is none.         *)
QuietBell(feed, lastSeen) ==
  [feed |-> feed, items |-> 0, lastSeen |-> lastSeen, unread |-> FALSE,
   open |-> FALSE, query |-> "none", read |-> 0]

(* mixed (history): the token's load and a change of it overlapped, or one  *)
(* of their answers was lost.                                               *)
NoDialogOf(server, made) ==
  [server |-> server, made |-> made, open |-> FALSE, mask |-> 0, fresh |-> 0,
   error |-> FALSE, loading |-> FALSE, load |-> "none", read |-> 0,
   op |-> "none", done |-> FALSE, mixed |-> FALSE]

BarInit ==
  /\ menu = [open |-> FALSE, langs |-> FALSE]
  /\ theme \in [stored : {"none"}, shown : Themes]
  /\ \E browser \in Langs : language = StartLanguage(NoLang, browser)
  /\ badge \in [server : {"swarm", "kubernetes"}, shown : {"swarm"}, query : {"sent"}, told : {FALSE}]
  /\ bell = QuietBell(1, 0)
  /\ \E server \in {0, 1} : tokens = NoDialogOf(server, 1)

-----------------------------------------------------------------------------
(* The menu.                                                                *)

Toggle ==
  /\ menu' = [open |-> ~menu.open, langs |-> menu.langs /\ ~menu.open]
  /\ UNCHANGED <<theme, language, badge, bell, tokens>>

ToggleLang ==
  /\ menu.open /\ menu' = [menu EXCEPT !.langs = ~@]
  /\ UNCHANGED <<theme, language, badge, bell, tokens>>

(* A click outside of the menu, or on its entry of the profile.             *)
CloseMenu ==
  /\ menu.open /\ menu' = [open |-> FALSE, langs |-> FALSE]
  /\ UNCHANGED <<theme, language, badge, bell, tokens>>

SetTheme(t) ==
  /\ theme' = [stored |-> t, shown |-> t]
  /\ UNCHANGED <<menu, language, badge, bell, tokens>>

(* The page is loaded anew.                                                 *)
ReloadBar ==
  /\ menu' = [open |-> FALSE, langs |-> FALSE]
  /\ theme' = [theme EXCEPT !.shown = IF theme.stored # "none" THEN theme.stored ELSE @]
  /\ \E browser \in Langs :
       language' = StartLanguage(language.stored, ReadInitialLang(language.stored, browser))
  /\ badge' = [badge EXCEPT !.shown = "swarm", !.query = "sent", !.told = FALSE]
  /\ bell' = QuietBell(bell.feed, bell.lastSeen)
  /\ tokens' = NoDialogOf(tokens.server, tokens.made)

-----------------------------------------------------------------------------
(* The language.                                                            *)

(* Mutant: the language is shown before its dictionary is there.            *)
SetLanguageEarly(code) ==
  IF language.shown = code THEN [language EXCEPT !.mixed = @ \/ language.loads # {}]
  ELSE [language EXCEPT !.stored = code, !.transloco = code, !.shown = code,
                        !.loads = @ \union {code}, !.mixed = language.loads # {}]

(* Nothing happens if the language is shown already.                        *)
SetLanguage(code) ==
  IF language.shown = code THEN [language EXCEPT !.mixed = @ \/ language.loads # {}]
  ELSE [language EXCEPT !.stored = code, !.transloco = code,
                        !.loads = @ \union {code}, !.mixed = language.loads # {}]

SelectLang(code) ==
  /\ menu.open /\ menu.langs /\ menu' = [menu EXCEPT !.langs = FALSE]
  /\ language' = SetLanguage(code)
  /\ UNCHANGED <<theme, badge, bell, tokens>>

(* The rest of setLanguage, after the load.                                 *)
LanguageLoaded(code) ==
  /\ code \in language.loads
  /\ language' = [language EXCEPT !.loads = @ \ {code}, !.loaded = @ \union {code},
                                  !.shown = code, !.document = code]
  /\ UNCHANGED <<menu, theme, badge, bell, tokens>>

LanguageFails(code) ==
  /\ code \in language.loads
  /\ language' = [language EXCEPT !.loads = @ \ {code}, !.mixed = TRUE]
  /\ UNCHANGED <<menu, theme, badge, bell, tokens>>

-----------------------------------------------------------------------------
(* The badge of the orchestrator, polled with the version.                  *)

PollVersion ==
  /\ badge.query = "none" /\ badge' = [badge EXCEPT !.query = "sent"]
  /\ UNCHANGED <<menu, theme, language, bell, tokens>>

(* A failed query names no orchestrator, which stands for Swarm; told       *)
(* (history): the last one did not fail.                                    *)
VersionAnswers ==
  /\ badge.query = "sent"
  /\ \E told \in BOOLEAN :
       badge' = [badge EXCEPT !.query = "none", !.told = told,
                              !.shown = IF told THEN badge.server ELSE "swarm"]
  /\ UNCHANGED <<menu, theme, language, bell, tokens>>

(* The sidebar: its entries by group, those that have a counter.            *)
NavGroups ==
  [overview |-> {"dashboard"}, workloads |-> {"load", "stacks", "services", "tasks"},
   infra |-> {"nodes", "node-map", "networks", "volumes"},
   store |-> {"secrets", "configs", "registries"}, admin |-> {"users"}]
Counted == (UNION {NavGroups[g] : g \in DOMAIN NavGroups}) \ {"dashboard", "load", "node-map"}
NavAlways == NavGroups
Nav ==
  [g \in DOMAIN NavGroups |->
     NavGroups[g] \ IF badge.shown = "kubernetes" THEN {"networks"} ELSE {}]
SidebarCounters == (UNION {Nav[g] : g \in DOMAIN Nav}) \intersect Counted

-----------------------------------------------------------------------------
(* The bell.                                                                *)

(* Something happens in the cluster.                                        *)
FeedGrows ==
  /\ bell.feed < MaxItems /\ bell' = [bell EXCEPT !.feed = @ + 1]
  /\ UNCHANGED <<menu, theme, language, badge, tokens>>

LoadItems ==
  /\ bell.query = "none" /\ bell' = [bell EXCEPT !.query = "sent"]
  /\ UNCHANGED <<menu, theme, language, badge, tokens>>

ReadItems ==
  /\ bell.query = "sent" /\ bell' = [bell EXCEPT !.query = "read", !.read = bell.feed]
  /\ UNCHANGED <<menu, theme, language, badge, tokens>>

ItemsAnswered ==
  /\ bell.query = "read"
  /\ bell' = [bell EXCEPT !.query = "none", !.read = 0, !.items = bell.read,
                          !.unread = bell.read > bell.lastSeen]
  /\ UNCHANGED <<menu, theme, language, badge, tokens>>

ItemsFail ==
  /\ bell.query # "none" /\ bell' = [bell EXCEPT !.query = "none", !.read = 0]
  /\ UNCHANGED <<menu, theme, language, badge, tokens>>

(* Mutant: what was seen is not remembered.                                 *)
ToggleBellForgets ==
  /\ bell' = IF ~bell.open /\ bell.items > 0 THEN [bell EXCEPT !.open = TRUE, !.unread = FALSE]
             ELSE [bell EXCEPT !.open = ~@]
  /\ UNCHANGED <<menu, theme, language, badge, tokens>>

ToggleBell ==
  /\ bell' = IF ~bell.open /\ bell.items > 0
               THEN [bell EXCEPT !.open = TRUE, !.lastSeen = bell.items, !.unread = FALSE]
               ELSE [bell EXCEPT !.open = ~@]
  /\ UNCHANGED <<menu, theme, language, badge, tokens>>

-----------------------------------------------------------------------------
(* The dialog of the API token.                                             *)

OpenApiTokens ==
  /\ menu.open /\ menu' = [menu EXCEPT !.open = FALSE]
  /\ tokens' = [tokens EXCEPT !.open = TRUE, !.fresh = 0, !.error = FALSE,
                  !.load = IF @ = "none" THEN "sent" ELSE @,
                  !.mixed = tokens.load # "none" \/ tokens.op # "none"]
  /\ UNCHANGED <<theme, language, badge, bell>>

ReadMask ==
  /\ tokens.load = "sent" /\ tokens' = [tokens EXCEPT !.load = "read", !.read = tokens.server]
  /\ UNCHANGED <<menu, theme, language, badge, bell>>

MaskAnswered ==
  /\ tokens.load = "read"
  /\ tokens' = [tokens EXCEPT !.load = "none", !.read = 0, !.mask = tokens.read]
  /\ UNCHANGED <<menu, theme, language, badge, bell>>

MaskFails ==
  /\ tokens.load # "none"
  /\ tokens' = [tokens EXCEPT !.load = "none", !.read = 0, !.mixed = TRUE]
  /\ UNCHANGED <<menu, theme, language, badge, bell>>

Change(op) ==
  /\ tokens.open /\ ~tokens.loading
  /\ tokens' = [tokens EXCEPT !.loading = TRUE, !.error = FALSE, !.op = op,
                              !.mixed = @ \/ tokens.load # "none"]
  /\ UNCHANGED <<menu, theme, language, badge, bell>>

Generate == tokens.made < MaxTokens /\ Change("generate")

Revoke == (tokens.mask > 0 \/ tokens.fresh > 0) /\ Change("revoke")

(* A new token replaces the user's former one.                              *)
ChangeExecuted ==
  /\ tokens.op # "none" /\ ~tokens.done
  /\ tokens' = IF tokens.op = "revoke" THEN [tokens EXCEPT !.done = TRUE, !.server = 0]
               ELSE [tokens EXCEPT !.done = TRUE, !.server = tokens.made + 1, !.made = @ + 1]
  /\ UNCHANGED <<menu, theme, language, badge, bell>>

(* Mutant: the token stays on the screen when it is revoked.                *)
ChangeAnsweredKeepsFresh ==
  /\ tokens.done
  /\ LET token == IF tokens.op = "generate" THEN tokens.made ELSE 0 IN
     tokens' = [tokens EXCEPT !.op = "none", !.done = FALSE, !.loading = FALSE,
                  !.mask = token, !.fresh = IF token > 0 THEN token ELSE @]
  /\ UNCHANGED <<menu, theme, language, badge, bell>>

(* The one answer that ever holds the token; it is shown, or its end is.    *)
ChangeAnswered ==
  /\ tokens.done
  /\ LET token == IF tokens.op = "generate" THEN tokens.made ELSE 0 IN
     tokens' = [tokens EXCEPT !.op = "none", !.done = FALSE, !.loading = FALSE,
                              !.mask = token, !.fresh = token]
  /\ UNCHANGED <<menu, theme, language, badge, bell>>

ChangeFails ==
  /\ tokens.op # "none"
  /\ tokens' = [tokens EXCEPT !.op = "none", !.done = FALSE, !.loading = FALSE,
                              !.error = TRUE, !.mixed = @ \/ tokens.done]
  /\ UNCHANGED <<menu, theme, language, badge, bell>>

OnCloseTokens ==
  /\ tokens.open /\ tokens' = [tokens EXCEPT !.open = FALSE, !.fresh = 0]
  /\ UNCHANGED <<menu, theme, language, badge, bell>>

BarNext ==
  \/ Toggle \/ ToggleLang \/ CloseMenu \/ ReloadBar
  \/ \E t \in Themes : SetTheme(t)
  \/ \E code \in Langs : SelectLang(code) \/ LanguageLoaded(code) \/ LanguageFails(code)
  \/ PollVersion \/ VersionAnswers
  \/ FeedGrows \/ LoadItems \/ ReadItems \/ ItemsAnswered \/ ItemsFail \/ ToggleBell
  \/ OpenApiTokens \/ ReadMask \/ MaskAnswered \/ MaskFails \/ Generate \/ Revoke
  \/ ChangeExecuted \/ ChangeAnswered \/ ChangeFails \/ OnCloseTokens

BarSpec == BarInit /\ [][BarNext]_barVars

-----------------------------------------------------------------------------

BarTypeOK ==
  /\ theme.shown \in Themes /\ language.loads \subseteq Langs /\ language.document \in Langs
  /\ bell.items \in 0..bell.feed /\ tokens.made \in 0..MaxTokens

(* The language shown has its dictionary, and once no load is under way the *)
(* page, Transloco and localStorage agree on it, unless a choice was made   *)
(* while another one was loading (i18n-state.service.ts, setLanguage).      *)
LanguageAgrees ==
  /\ language.shown \in language.loaded
  /\ language.loads = {} /\ ~language.mixed =>
       /\ language.transloco = language.shown /\ language.document = language.shown
       /\ language.stored \in {NoLang, language.shown}

(* The bell's dot is lit exactly by entries newer than all the user has     *)
(* seen, across page loads (notifications.component.ts).                    *)
BellHonest ==
  /\ bell.unread <=> bell.items > bell.lastSeen
  /\ bell.items = 0 \/ bell.lastSeen <= bell.items

(* At rest, the dialog shows the token the server has, or none, if no load  *)
(* overlapped a change and no answer was lost; and it changes the token     *)
(* once at a time, even if it is closed and opened meanwhile.               *)
TokenShown ==
  /\ tokens.loading <=> tokens.op # "none"
  /\ tokens.open /\ tokens.load = "none" /\ tokens.op = "none" /\ ~tokens.mixed =>
       tokens.mask = tokens.server /\ tokens.fresh \in {0, tokens.server}

(* Once the version is known, the sidebar counts the networks exactly where *)
(* the orchestrator has them.                                               *)
NavHonest ==
  badge.told => ("networks" \in SidebarCounters <=> badge.server = "swarm")

BarSound == NavHonest /\ LanguageAgrees /\ BellHonest /\ TokenShown
=============================================================================
