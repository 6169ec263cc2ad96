----------------------------- MODULE WebConsole -----------------------------
(***************************************************************************)
(* One browser tab of the web console: the session in localStorage, the    *)
(* login page, the boot sequence that primes Apollo's cache, the overlay   *)
(* over the shell, and the dashboard's refresh.                            *)
(*                                                                         *)
(* Every request the tab sends may be answered late, with an error, or     *)
(* with UNAUTHENTICATED, and nothing but a page load takes it back.        *)
(* Apollo sends a query once while it is in flight, and gives the answer   *)
(* to everyone who asked meanwhile.                                        *)
(***************************************************************************)
EXTENDS Naturals, FiniteSets

CONSTANTS
  Users, NoUser, NoProfile,
  Seeds,         (* number of seed queries of the boot sequence             *)
  MaxSignIns,    (* bound on the sign-ins of a run                          *)
  MaxRefreshes,  (* bound on the refreshes in flight                        *)
  MaxReloads     (* bound on the page loads                                 *)

ASSUME UsersAssumption == NoUser \notin Users
ASSUME BoundsAssumption ==
  Seeds \in Nat \ {0} /\ MaxSignIns \in Nat \ {0} /\ MaxRefreshes \in Nat
    /\ MaxReloads \in Nat

VARIABLES
  token,       (* localStorage: whose session                               *)
  profile,     (* the cached profile; role: whether the role is in it       *)
  page,        (* the login page, or a page in the shell                    *)
  login,       (* the user whose login mutation is in flight                *)
  me,          (* the "me" query in flight, and who waits for it            *)
  outgoing,    (* the topbar's logout mutation is in flight                 *)
  seed,        (* the seed queries in flight, by number                     *)
  cached,      (* the seed queries in Apollo's cache                        *)
  seq,         (* the boot sequences started since the page was loaded      *)
  booted, ready, refreshing,  (* BootService                                *)
  inRefresh,   (* refreshes in flight                                       *)
  oldRefreshes,(* history: those of them that an earlier session started    *)
  early,       (* history: what something else than its end made "ready"    *)
  showBoot,    (* the shell has the overlay                                 *)
  leaving,     (* the overlay fades out, and its timer runs                 *)
  stray,       (* a fade-out timer runs whose handle was overwritten        *)
  overlap,     (* history: what was left of earlier sessions at the sign-in *)
  signIns, reloads

session == <<token, profile, overlap>>
boot == <<seed, cached, seq, booted>>
overlay == <<showBoot, leaving, stray>>
refresh == <<refreshing, inRefresh, oldRefreshes, early>>
counters == <<signIns, reloads>>
vars == <<session, page, login, me, outgoing, boot, ready, refresh, overlay,
          counters>>

Boots == 1..(MaxSignIns + 1)
SeedNumbers == 1..Seeds

Profile == [user : Users, role : BOOLEAN]
Requests == {"none", "anonymous", "signed", "stale"}
Me == [user : Users \union {NoUser}, form : BOOLEAN, shell : BOOLEAN, stale : BOOLEAN]
NoMe == [user |-> NoUser, form |-> FALSE, shell |-> FALSE, stale |-> FALSE]
Sequence == [at : SeedNumbers, st : {"off", "ask", "wait", "pause", "timer", "over"}]
Off == [at |-> 1, st |-> "off"]

SignedIn == token # NoUser
Running(b) == seq[b].st \in {"ask", "wait", "pause"}

Init ==
  /\ token = NoUser /\ profile = NoProfile /\ overlap = {}
  /\ page = "login" /\ login = NoUser /\ me = NoMe /\ outgoing = FALSE
  /\ seed = [k \in SeedNumbers |-> "none"] /\ cached = {}
  /\ seq = [b \in Boots |-> Off] /\ booted = FALSE
  /\ ready = FALSE /\ refreshing = FALSE /\ inRefresh = 0
  /\ oldRefreshes = 0 /\ early = {}
  /\ showBoot = FALSE /\ leaving = FALSE /\ stray = FALSE
  /\ signIns = 0 /\ reloads = 0

-----------------------------------------------------------------------------
(* The shell is mounted and destroyed.                                      *)

Started(sequences) ==
  LET b == CHOOSE b \in Boots : sequences[b] = Off
  IN [sequences EXCEPT ![b] = [at |-> 1, st |-> "ask"]]

(* The overlay is up unless ready$ is true and the service has booted, and  *)
(* fades at once if ready$ is true; a service that has not booted starts a  *)
(* sequence; a missing profile is asked for.                                *)
Mount(sequences, query, isBooted, isReady) ==
  /\ page' = "shell"
  /\ showBoot' = ~(isBooted /\ isReady) /\ leaving' = (showBoot' /\ isReady)
  /\ stray' = FALSE
  /\ seq' = IF isBooted THEN sequences ELSE Started(sequences)
  /\ me' = IF profile' # NoProfile THEN query
           ELSE [query EXCEPT !.shell = TRUE,
                              !.user = IF query = NoMe THEN token' ELSE @]

Uncovered == showBoot' = FALSE /\ leaving' = FALSE /\ stray' = FALSE

(* AuthService.logout: the shell goes, and its subscriptions with it.       *)
SignOut ==
  /\ token' = NoUser /\ profile' = NoProfile /\ page' = "login"
  /\ Uncovered

(* A page load keeps localStorage, and nothing else.                        *)
LoadPage ==
  /\ login' = NoUser /\ outgoing' = FALSE
  /\ seed' = [k \in SeedNumbers |-> "none"] /\ cached' = {} /\ booted' = FALSE
  /\ ready' = FALSE /\ refreshing' = FALSE /\ inRefresh' = 0
  /\ oldRefreshes' = 0 /\ early' = {}
  /\ IF token' # NoUser
       THEN Mount([b \in Boots |-> Off], NoMe, FALSE, FALSE)
       ELSE /\ page' = "login" /\ me' = NoMe /\ seq' = [b \in Boots |-> Off]
            /\ Uncovered

Reload ==
  /\ reloads < MaxReloads /\ reloads' = reloads + 1
  /\ UNCHANGED <<token, profile, signIns>>
  /\ overlap' = overlap \ {"boot", "refresh"}
  /\ LoadPage

-----------------------------------------------------------------------------
(* Signing in and out.                                                      *)

SubmitLogin(u) ==
  /\ page = "login" /\ login = NoUser
  /\ signIns < MaxSignIns /\ signIns' = signIns + 1
  /\ login' = u
  /\ UNCHANGED <<session, page, me, outgoing, boot, ready, refresh, overlay, reloads>>

LoginFails ==
  /\ login # NoUser
  /\ login' = NoUser
  /\ UNCHANGED <<session, page, me, outgoing, boot, ready, refresh, overlay, counters>>

(* What is still under way from earlier sessions.                           *)
LeftOver == {x \in {"me", "boot", "refresh"} :
  \/ x = "me" /\ me # NoMe
  \/ x = "boot" /\ \E b \in Boots : Running(b)
  \/ x = "refresh" /\ inRefresh > 0}

(* A new session: what is in flight belongs to an earlier one; the login    *)
(* page asks for "me", or joins the query in flight.                        *)
Begin ==
  /\ token' = login
  /\ overlap' = LeftOver
  /\ me' = [me EXCEPT !.form = TRUE, !.stale = (me # NoMe),
                      !.user = IF me = NoMe THEN login ELSE @]
  /\ seed' = [k \in SeedNumbers |-> IF seed[k] = "signed" THEN "stale" ELSE seed[k]]
  /\ oldRefreshes' = inRefresh
  /\ login' = NoUser
  /\ UNCHANGED <<page, outgoing, cached, seq, booted, ready, refreshing, inRefresh,
                 early, overlay, counters>>

(* Mutant: the page waits for "me" before it has a profile.                 *)
LoginSucceedsBare ==
  /\ login # NoUser
  /\ Begin
  /\ UNCHANGED profile

LoginSucceeds ==
  /\ login # NoUser
  /\ Begin
  /\ profile' = [user |-> login, role |-> FALSE]

(* A full redirect to the provider and back to the callback component.      *)
OidcSignIn(u) ==
  /\ page = "login"
  /\ signIns < MaxSignIns /\ signIns' = signIns + 1
  /\ token' = u
  /\ UNCHANGED <<profile, reloads>>
  /\ overlap' = IF profile = NoProfile THEN {} ELSE {"profile"}
  /\ LoadPage

OpenProfile ==
  /\ page = "shell"
  /\ me' = [me EXCEPT !.shell = TRUE, !.user = IF me = NoMe THEN token ELSE @]
  /\ UNCHANGED <<session, page, login, outgoing, boot, ready, refresh, overlay, counters>>

(* The login page goes to the dashboard with or without an answer, and the  *)
(* guard sends it back if there is no session; the shell's subscription     *)
(* only sets the profile, and ended with the shell.                         *)
AnswerMe(answer) ==
  /\ me # NoMe
  /\ UNCHANGED token
  /\ profile' = IF answer = NoProfile THEN profile ELSE answer
  /\ IF me.form /\ page = "login" /\ SignedIn
       THEN Mount(seq, NoMe, booted, ready)
       ELSE me' = NoMe /\ UNCHANGED <<page, seq, overlay>>
  /\ UNCHANGED <<overlap, login, outgoing, seed, cached, booted, ready,
                 refresh, counters>>

Heard == me.form \/ (me.shell /\ page = "shell")

MeData ==
  AnswerMe(IF Heard THEN [user |-> me.user, role |-> TRUE] ELSE NoProfile)

(* A network error, or a user the API does not find.                        *)
MeFails == AnswerMe(NoProfile)

MeRefused ==
  /\ me # NoMe
  /\ SignOut /\ me' = NoMe
  /\ UNCHANGED <<overlap, login, outgoing, boot, ready, refresh, counters>>

Logout ==
  /\ page = "shell" /\ ~outgoing
  /\ outgoing' = TRUE
  /\ UNCHANGED <<session, page, login, me, boot, ready, refresh, overlay, counters>>

LogoutAnswered ==
  /\ outgoing /\ outgoing' = FALSE
  /\ SignOut
  /\ UNCHANGED <<overlap, login, me, boot, ready, refresh, counters>>

(* The API refuses a query of some page: the session has expired.           *)
PageRefused ==
  /\ page = "shell"
  /\ SignOut
  /\ UNCHANGED <<overlap, login, me, outgoing, boot, ready, refresh, counters>>

-----------------------------------------------------------------------------
(* BootService.boot.                                                        *)

(* Mutant: one query too many.                                              *)
AdvanceTooFar(B, k) ==
  /\ seq' = [b \in Boots |->
       IF b \notin B THEN seq[b]
       ELSE IF k <= Seeds THEN [at |-> k + 1, st |-> "ask"]
       ELSE [at |-> k, st |-> "timer"]]
  /\ booted' = (booted \/ (B # {} /\ k > Seeds))

(* Query k is there for the sequences B; after the last one, complete().    *)
Advance(B, k) ==
  /\ seq' = [b \in Boots |->
       IF b \notin B THEN seq[b]
       ELSE IF k < Seeds THEN [at |-> k + 1, st |-> "ask"]
       ELSE [at |-> k, st |-> "timer"]]
  /\ booted' = (booted \/ (B # {} /\ k = Seeds))

(* Mutant: the request goes out without the Authorization header.           *)
SentAsNobody == "anonymous"

SentAs == IF SignedIn THEN "signed" ELSE "anonymous"

AskSeed(b) ==
  /\ seq[b].st = "ask"
  /\ LET k == seq[b].at IN
       \/ /\ k \in cached
          /\ Advance({b}, k)
          /\ UNCHANGED <<seed, cached>>
       \/ /\ k \notin cached
          /\ seed' = [seed EXCEPT ![k] = IF @ = "none" THEN SentAs ELSE @]
          /\ seq' = [seq EXCEPT ![b].st = "wait"]
          /\ UNCHANGED <<cached, booted>>
  /\ UNCHANGED <<session, page, login, me, outgoing, ready, refresh, overlay, counters>>

Waiting(k) == {b \in Boots : seq[b] = [at |-> k, st |-> "wait"]}
Answered(k) == seed' = [seed EXCEPT ![k] = "none"]

SeedData(k) ==
  /\ seed[k] \in {"signed", "stale"}
  /\ Answered(k)
  /\ cached' = cached \union {k}
  /\ Advance(Waiting(k), k)
  /\ UNCHANGED <<session, page, login, me, outgoing, ready, refresh, overlay, counters>>

(* Mutant: the error is swallowed and the sequence goes on.                 *)
RestartOnwards(k) == Advance(Waiting(k), k)

(* Mutant: the sequence is not retried.                                     *)
RestartNever(k) ==
  /\ seq' = [b \in Boots |->
       IF b \in Waiting(k) THEN [at |-> 1, st |-> "over"] ELSE seq[b]]
  /\ UNCHANGED booted

(* Any error restarts the whole sequence after a pause.                     *)
Restart(k) ==
  /\ seq' = [b \in Boots |->
       IF b \in Waiting(k) THEN [at |-> 1, st |-> "pause"] ELSE seq[b]]
  /\ UNCHANGED booted

SeedFails(k) ==
  /\ seed[k] # "none"
  /\ Answered(k)
  /\ Restart(k)
  /\ UNCHANGED <<session, page, login, me, outgoing, cached, ready, refresh,
                 overlay, counters>>

(* The error link signs the user out, whoever sent the request.             *)
SeedRefused(k) ==
  /\ seed[k] # "none"
  /\ Answered(k)
  /\ Restart(k)
  /\ SignOut
  /\ UNCHANGED <<overlap, login, me, outgoing, cached, ready, refresh, counters>>

Resume(b) ==
  /\ seq[b].st = "pause"
  /\ seq' = [seq EXCEPT ![b].st = "ask"]
  /\ UNCHANGED <<session, page, login, me, outgoing, seed, cached, booted, ready,
                 refresh, overlay, counters>>

-----------------------------------------------------------------------------
(* The overlay.                                                             *)

(* ready$ becomes true: the overlay, if there is one, starts to fade out.   *)
BecomeReady ==
  /\ ready' = TRUE
  /\ leaving' = showBoot /\ stray' = (stray \/ leaving) /\ UNCHANGED showBoot

(* The 200 ms after complete().                                             *)
ReadyTimer(b) ==
  /\ seq[b].st = "timer"
  /\ seq' = [seq EXCEPT ![b].st = "over"]
  /\ BecomeReady
  /\ early' = early \union {x \in {"refresh"} : inRefresh > 0}
  /\ UNCHANGED <<session, page, login, me, outgoing, seed, cached, booted,
                 refreshing, inRefresh, oldRefreshes, counters>>

(* The 350 ms of the fade-out.                                              *)
FadeOut ==
  /\ leaving \/ stray
  /\ Uncovered
  /\ UNCHANGED <<session, page, login, me, outgoing, boot, ready, refresh, counters>>

(* Mutant: the fade-out in progress is not called off.                      *)
StartRefreshFading ==
  /\ page = "shell"
  /\ inRefresh < MaxRefreshes
  /\ inRefresh' = inRefresh + 1
  /\ refreshing' = TRUE /\ ready' = FALSE
  /\ early' = (early \ {"refresh"}) \union {x \in {"refresh"} : stray}
  /\ showBoot' = TRUE /\ UNCHANGED <<leaving, stray>>
  /\ UNCHANGED <<session, page, login, me, outgoing, boot, oldRefreshes, counters>>

(* The dashboard's button: the overlay keeps the pointer from it, but not   *)
(* the keyboard.                                                            *)
StartRefresh ==
  /\ page = "shell"
  /\ inRefresh < MaxRefreshes
  /\ inRefresh' = inRefresh + 1
  /\ refreshing' = TRUE /\ ready' = FALSE
  /\ early' = (early \ {"refresh"}) \union {x \in {"refresh"} : stray}
  /\ showBoot' = TRUE /\ leaving' = FALSE /\ UNCHANGED stray
  /\ UNCHANGED <<session, page, login, me, outgoing, boot, oldRefreshes, counters>>

(* One of the refreshes in flight ends: what is not loaded yet, or is being *)
(* refreshed, is declared ready with it.                                    *)
RefreshEnds ==
  /\ inRefresh > 0 /\ inRefresh' = inRefresh - 1
  /\ oldRefreshes' \in 0..inRefresh' /\ oldRefreshes' \in {oldRefreshes, oldRefreshes - 1}
  /\ refreshing' = FALSE
  /\ early' = {x \in {"boot", "refresh"} :
       IF x = "boot" THEN x \in early \/ ~booted ELSE inRefresh' > 0}

(* Data, or an error.                                                       *)
EndRefresh ==
  /\ RefreshEnds
  /\ BecomeReady
  /\ UNCHANGED <<session, page, login, me, outgoing, boot, counters>>

RefreshRefused ==
  /\ RefreshEnds /\ ready' = TRUE
  /\ SignOut
  /\ UNCHANGED <<overlap, login, me, outgoing, boot, counters>>

-----------------------------------------------------------------------------

User ==
  \/ Reload \/ Logout \/ OpenProfile \/ StartRefresh
  \/ \E u \in Users : SubmitLogin(u) \/ OidcSignIn(u)

Answer ==
  \/ LoginSucceeds \/ LoginFails \/ MeData \/ MeFails \/ MeRefused
  \/ LogoutAnswered \/ PageRefused \/ EndRefresh \/ RefreshRefused
  \/ \E k \in SeedNumbers : SeedData(k) \/ SeedFails(k) \/ SeedRefused(k)

Timer == FadeOut \/ \E b \in Boots : AskSeed(b) \/ Resume(b) \/ ReadyTimer(b)

Next == User \/ Answer \/ Timer

Spec == Init /\ [][Next]_vars

(* Timers fire, requests are answered, and a query that is asked again and  *)
(* again is answered with data in the end.                                  *)
Fairness ==
  /\ WF_vars(FadeOut)
  /\ \A b \in Boots : WF_vars(AskSeed(b) \/ Resume(b) \/ ReadyTimer(b))
  /\ WF_vars(EndRefresh \/ RefreshRefused)
  /\ \A k \in SeedNumbers :
       /\ WF_vars(SeedData(k) \/ SeedFails(k) \/ SeedRefused(k))
       /\ SF_vars(SeedData(k))

FairSpec == Spec /\ Fairness

-----------------------------------------------------------------------------

TypeOK ==
  /\ token \in Users \union {NoUser} /\ profile \in Profile \union {NoProfile}
  /\ page \in {"login", "shell"} /\ login \in Users \union {NoUser}
  /\ me \in Me /\ outgoing \in BOOLEAN
  /\ seed \in [SeedNumbers -> Requests]
  /\ cached \subseteq SeedNumbers /\ seq \in [Boots -> Sequence]
  /\ {booted, ready, refreshing, showBoot, leaving, stray} \subseteq BOOLEAN
  /\ inRefresh \in 0..MaxRefreshes /\ oldRefreshes \in 0..inRefresh
  /\ early \subseteq {"boot", "refresh"}
  /\ overlap \subseteq {"me", "boot", "profile", "refresh"}
  /\ signIns \in 0..MaxSignIns /\ reloads \in 0..MaxReloads

(* While the shell is bare, all the seed queries have been answered since   *)
(* the page was loaded, whatever failed, was retried or ran twice; unless a *)
(* refresh ended before the first boot sequence had, which endRefresh takes *)
(* for the end of both (core/boot.service.ts:16-22, 63-66).                 *)
LoaderCoversBoot ==
  page = "shell" /\ ~showBoot => cached = SeedNumbers \/ "boot" \in early

(* While a refresh is in flight the overlay is up and does not fade, even   *)
(* if it began during a fade-out or the user signs out and in again; unless *)
(* another refresh or a boot sequence ended since the last one began, or    *)
(* that began while a fade-out timer ran whose handle was overwritten       *)
(* (core/boot.service.ts:57-66, boot-loader.component.ts:131-141).          *)
RefreshStaysCovered ==
  page = "shell" /\ inRefresh > 0 /\ "refresh" \notin early => showBoot /\ ~leaving

(* The overlay covers whatever is not loaded, at the boot and at a refresh, *)
(* with the two exceptions above (core/boot.service.ts, shared/boot-loader).*)
OverlayCovers == LoaderCoversBoot /\ RefreshStaysCovered

(* The profile shown is that of the session's user, unless "me" was still   *)
(* in flight, or a profile left behind, when the session began              *)
(* (login-page.component.ts, shell.component.ts).                           *)
ProfileMatchesSession ==
  SignedIn /\ profile # NoProfile /\ overlap \subseteq {"boot", "refresh"}
    => profile.user = token

(* Any refused answer ends the session, whoever sent the request. While one *)
(* is signed in, a seed query in flight was sent without a token or by an   *)
(* earlier session only if a boot sequence was under way when this session  *)
(* began, and a "me" query or a refresh of an earlier session only if one   *)
(* was in flight then. The queries of the pages are not told apart          *)
(* (core/apollo-auth.link.ts:33-47, core/boot.service.ts:79-101).           *)
NoForeignRefusal ==
  SignedIn =>
    /\ "boot" \in overlap \/ \A k \in SeedNumbers : seed[k] \in {"none", "signed"}
    /\ "me" \in overlap \/ ~me.stale
    /\ "refresh" \in overlap \/ oldRefreshes = 0

(* The loader gives way to the data or to the login page, whatever fails on *)
(* the way; a user may call it back by refreshing.                          *)
LoaderLeaves == showBoot ~> leaving \/ ~showBoot
=============================================================================
