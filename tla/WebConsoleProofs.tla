-------------------------- MODULE WebConsoleProofs --------------------------
(***************************************************************************)
(* Theorems about the web console: the session and the overlay, for any    *)
(* number of users, seed queries, sign-ins, refreshes and page loads; each *)
(* of the pages, for any data; and their composition.                      *)
(***************************************************************************)
EXTENDS MCWebConsole, Counting, SequenceTheorems

-----------------------------------------------------------------------------
(* The session and the boot overlay.                                        *)

Begun == {b \in Boots : seq[b] # Off}
Once(condition) == IF condition THEN 1 ELSE 0

(* The shell has a session, and "me" is asked for somebody.                 *)
ShellSignedIn == page = "shell" => SignedIn
MeAsked == me # NoMe => me.user # NoUser

(* A sequence begins at a sign-in, or when the page is loaded.              *)
SequencesCounted ==
  Cardinality(Begun) + Once(me.form) + Once(login # NoUser) <= signIns + 1

(* How far a sequence is tells what is in the cache.                        *)
SequenceOK(b) ==
  /\ seq[b].st \in {"ask", "wait"} => 1..(seq[b].at - 1) \subseteq cached
  /\ seq[b].st \in {"off", "pause"} => seq[b].at = 1
  /\ seq[b].st \in {"timer", "over"} => cached = SeedNumbers

SequencesOK == \A b \in Boots : SequenceOK(b)

(* Only a full cache is declared ready, but by the end of a refresh.        *)
CacheFull ==
  /\ booted => cached = SeedNumbers
  /\ ready \/ leaving \/ stray => cached = SeedNumbers \/ "boot" \in early

(* Nothing takes the overlay away from a refresh but what made it ready.    *)
RefreshShown ==
  inRefresh > 0 /\ "refresh" \notin early =>
    /\ ~ready /\ ~stray
    /\ page = "shell" => showBoot /\ ~leaving

(* A session that began with nothing left over has its own answers only.    *)
OwnProfile ==
  SignedIn /\ overlap \subseteq {"boot", "refresh"} =>
    /\ profile # NoProfile => profile.user = token
    /\ me # NoMe => me.user = token

(* A seed query in flight has a sequence that waits for it.                 *)
SeedsAwaited == \A k \in SeedNumbers : seed[k] # "none" => Waiting(k) # {}

SessionInv ==
  /\ TypeOK /\ ShellSignedIn /\ MeAsked
  /\ SequencesCounted /\ SequencesOK
  /\ CacheFull /\ LoaderCoversBoot /\ RefreshShown
  /\ OwnProfile /\ SeedsAwaited /\ NoForeignRefusal

LEMMA BeginOne ==
  ASSUME NEW sequences \in [Boots -> Sequence], \E b \in Boots : sequences[b] = Off
  PROVE  \E b \in Boots :
           /\ sequences[b] = Off
           /\ Started(sequences) = [sequences EXCEPT ![b] = [at |-> 1, st |-> "ask"]]
<1> DEFINE c == CHOOSE b \in Boots : sequences[b] = Off
<1>1. c \in Boots /\ sequences[c] = Off
  OBVIOUS
<1>2. Started(sequences) = [sequences EXCEPT ![c] = [at |-> 1, st |-> "ask"]]
  BY DEF Started
<1> QED BY <1>1, <1>2

LEMMA Numbers ==
  /\ Seeds \in Nat /\ Seeds >= 1 /\ MaxSignIns \in Nat /\ MaxSignIns >= 1
  /\ MaxRefreshes \in Nat /\ MaxReloads \in Nat
  /\ IsFiniteSet(Boots) /\ Cardinality(Boots) = MaxSignIns + 1
<1>1. /\ Seeds \in Nat /\ Seeds >= 1 /\ MaxSignIns \in Nat /\ MaxSignIns >= 1
      /\ MaxRefreshes \in Nat /\ MaxReloads \in Nat
  BY BoundsAssumption
<1>2. IsFiniteSet(Boots) /\ Cardinality(Boots) = MaxSignIns + 1
  BY <1>1, FS_Interval DEF Boots
<1> QED BY <1>1, <1>2

(* The page still to be mounted has a sequence to begin.                    *)
LEMMA RoomForOne ==
  ASSUME TypeOK, SequencesCounted, me.form
  PROVE  \E b \in Boots : seq[b] = Off
<1>1. SUFFICES ASSUME \A b \in Boots : seq[b] # Off PROVE FALSE
  OBVIOUS
<1>2. Begun = Boots
  BY <1>1 DEF Begun
<1>3. login # NoUser \/ login = NoUser
  OBVIOUS
<1> QED BY <1>2, Numbers DEF SequencesCounted, Once, TypeOK

LEMMA AllOff ==
  /\ [b \in Boots |-> Off] \in [Boots -> Sequence]
  /\ \E b \in Boots : [c \in Boots |-> Off][b] = Off
<1>1. 1 \in Boots /\ 1 \in SeedNumbers
  BY Numbers DEF Boots, SeedNumbers
<1>2. Off \in Sequence
  BY <1>1 DEF Off, Sequence
<1> QED BY <1>1, <1>2

(* What mounting the shell does.                                            *)
Mounted(sequences, isBooted, isReady) ==
  /\ page' = "shell"
  /\ showBoot' = ~(isBooted /\ isReady) /\ leaving' = (showBoot' /\ isReady)
  /\ stray' = FALSE
  /\ \/ isBooted /\ seq' = sequences
     \/ \E b \in Boots :
          /\ ~isBooted /\ sequences[b] = Off
          /\ seq' = [sequences EXCEPT ![b] = [at |-> 1, st |-> "ask"]]
  /\ me' \in Me /\ ~me'.form /\ ~me'.stale /\ me'.user \in {NoUser, token'}
  /\ me' # NoMe => me'.user # NoUser

LEMMA MountSteps ==
  ASSUME NEW sequences \in [Boots -> Sequence], NEW isBooted \in BOOLEAN,
         \E b \in Boots : sequences[b] = Off,
         token' \in Users, NEW isReady \in BOOLEAN,
         Mount(sequences, NoMe, isBooted, isReady)
  PROVE  Mounted(sequences, isBooted, isReady)
<1>1. /\ page' = "shell"
      /\ showBoot' = ~(isBooted /\ isReady) /\ leaving' = (showBoot' /\ isReady)
      /\ stray' = FALSE
      /\ seq' = IF isBooted THEN sequences ELSE Started(sequences)
      /\ me' = IF profile' # NoProfile THEN NoMe
               ELSE [NoMe EXCEPT !.shell = TRUE, !.user = token']
  BY DEF Mount
<1>2. \/ isBooted /\ seq' = sequences
      \/ \E b \in Boots :
           /\ ~isBooted /\ sequences[b] = Off
           /\ seq' = [sequences EXCEPT ![b] = [at |-> 1, st |-> "ask"]]
  BY <1>1, BeginOne
<1>3. NoMe \in Me /\ NoMe.user = NoUser /\ ~NoMe.form /\ ~NoMe.stale
  BY DEF NoMe, Me
<1>4. /\ me' \in Me /\ ~me'.form /\ ~me'.stale /\ me'.user \in {NoUser, token'}
      /\ me' # NoMe => me'.user # NoUser
  <2>1. CASE profile' # NoProfile
    BY <1>1, <1>3, <2>1
  <2>2. CASE profile' = NoProfile
    <3>1. me' = [user |-> token', form |-> FALSE, shell |-> TRUE, stale |-> FALSE]
      BY <1>1, <2>2 DEF NoMe
    <3> QED BY <3>1, UsersAssumption DEF Me
  <2> QED BY <2>1, <2>2
<1> QED BY <1>1, <1>2, <1>4 DEF Mounted

(* What a page load leaves.                                                 *)
Loaded ==
  /\ login' = NoUser /\ outgoing' = FALSE
  /\ seed' = [k \in SeedNumbers |-> "none"] /\ cached' = {} /\ booted' = FALSE
  /\ ready' = FALSE /\ refreshing' = FALSE /\ inRefresh' = 0
  /\ oldRefreshes' = 0 /\ early' = {}
  /\ leaving' = FALSE /\ stray' = FALSE /\ showBoot' \in BOOLEAN
  /\ page' \in {"login", "shell"}
  /\ page' = "shell" => token' # NoUser /\ showBoot'
  /\ me' \in Me /\ ~me'.form /\ ~me'.stale /\ me'.user \in {NoUser, token'}
  /\ me' # NoMe => me'.user # NoUser
  /\ seq' \in [Boots -> Sequence]
  /\ \E b \in Boots :
       /\ \A c \in Boots \ {b} : seq'[c] = Off
       /\ seq'[b] \in {Off, [at |-> 1, st |-> "ask"]}

LEMMA LoadSteps ==
  ASSUME token' \in Users \union {NoUser}, LoadPage
  PROVE  Loaded
<1> DEFINE off == [b \in Boots |-> Off]
<1>1. /\ login' = NoUser /\ outgoing' = FALSE
      /\ seed' = [k \in SeedNumbers |-> "none"] /\ cached' = {} /\ booted' = FALSE
      /\ ready' = FALSE /\ refreshing' = FALSE /\ inRefresh' = 0
      /\ oldRefreshes' = 0 /\ early' = {}
  BY DEF LoadPage
<1>2. off \in [Boots -> Sequence] /\ \E b \in Boots : off[b] = Off
  BY AllOff
<1>3. [at |-> 1, st |-> "ask"] \in Sequence
  BY Numbers DEF Sequence, SeedNumbers
<1>4. CASE token' = NoUser
  <2>1. /\ page' = "login" /\ me' = NoMe /\ seq' = off /\ Uncovered
    BY <1>4 DEF LoadPage
  <2>2. NoMe \in Me /\ ~NoMe.form /\ ~NoMe.stale /\ NoMe.user = NoUser
    BY DEF NoMe, Me
  <2> QED BY <1>1, <1>2, <2>1, <2>2 DEF Loaded, Uncovered
<1>5. CASE token' # NoUser
  <2>1. Mount(off, NoMe, FALSE, FALSE)
    BY <1>5 DEF LoadPage
  <2>2. Mounted(off, FALSE, FALSE)
    BY <1>2, <1>5, <2>1, MountSteps
  <2>3. PICK b \in Boots :
          /\ off[b] = Off /\ seq' = [off EXCEPT ![b] = [at |-> 1, st |-> "ask"]]
    BY <2>2 DEF Mounted
  <2>4. /\ seq' \in [Boots -> Sequence]
        /\ \A c \in Boots \ {b} : seq'[c] = Off
        /\ seq'[b] \in {Off, [at |-> 1, st |-> "ask"]}
    BY <1>2, <1>3, <2>3
  <2> QED BY <1>1, <1>5, <2>2, <2>4 DEF Loaded, Mounted
<1> QED BY <1>4, <1>5

(* What an answer to "me" does to the page.                                 *)
Answers ==
  /\ me # NoMe /\ token' = token
  /\ \/ /\ me.form /\ page = "login" /\ SignedIn
        /\ Mounted(seq, booted, ready)
     \/ me' = NoMe /\ UNCHANGED <<page, seq, overlay>>
  /\ UNCHANGED <<overlap, login, outgoing, seed, cached, booted, ready,
                 refresh, counters>>

LEMMA AnswerSteps ==
  ASSUME TypeOK, SequencesCounted, NEW answer, AnswerMe(answer)
  PROVE  Answers
<1>1. /\ me # NoMe /\ token' = token
      /\ UNCHANGED <<overlap, login, outgoing, seed, cached, booted, ready,
                     refresh, counters>>
  BY DEF AnswerMe
<1>2. CASE me.form /\ page = "login" /\ SignedIn
  <2>1. Mount(seq, NoMe, booted, ready)
    BY <1>2 DEF AnswerMe
  <2>2. \E b \in Boots : seq[b] = Off
    BY <1>2, RoomForOne
  <2>3. /\ seq \in [Boots -> Sequence] /\ booted \in BOOLEAN /\ ready \in BOOLEAN
        /\ token' \in Users
    BY <1>1, <1>2 DEF TypeOK, SignedIn
  <2>4. Mounted(seq, booted, ready)
    BY <2>1, <2>2, <2>3, MountSteps
  <2> QED BY <1>1, <1>2, <2>4 DEF Answers
<1>3. CASE ~(me.form /\ page = "login" /\ SignedIn)
  <2>1. me' = NoMe /\ UNCHANGED <<page, seq, overlay>>
    BY <1>3 DEF AnswerMe
  <2> QED BY <1>1, <2>1 DEF Answers
<1> QED BY <1>2, <1>3

(* The states the sequences may be in are kept by every step.               *)
LEMMA SequencesTyped ==
  ASSUME TypeOK, SequencesCounted, [Next]_vars
  PROVE  seq' \in [Boots -> Sequence] /\ token' \in Users \union {NoUser}
<1> USE DEF TypeOK
<1>0. seq \in [Boots -> Sequence] /\ token \in Users \union {NoUser}
  OBVIOUS
<1>1. CASE Reload
  <2>1. token' \in Users \union {NoUser} /\ LoadPage
    BY <1>1 DEF Reload
  <2> QED BY <2>1, LoadSteps DEF Loaded
<1>2. ASSUME NEW u \in Users, OidcSignIn(u)
      PROVE  seq' \in [Boots -> Sequence] /\ token' \in Users \union {NoUser}
  <2>1. token' \in Users \union {NoUser} /\ LoadPage
    BY <1>2 DEF OidcSignIn
  <2> QED BY <2>1, LoadSteps DEF Loaded
<1>3. CASE MeData \/ MeFails
  <2>1. Answers
    BY <1>3, AnswerSteps DEF MeData, MeFails
  <2>2. [at |-> 1, st |-> "ask"] \in Sequence
    BY Numbers DEF Sequence, SeedNumbers
  <2> QED BY <1>0, <2>1, <2>2 DEF Answers, Mounted, overlay
<1>4. ASSUME NEW B, NEW k \in SeedNumbers, Advance(B, k)
      PROVE  seq' \in [Boots -> Sequence]
  <2>1. [at |-> k, st |-> "timer"] \in Sequence
    BY DEF Sequence
  <2>2. k < Seeds => [at |-> k + 1, st |-> "ask"] \in Sequence
    BY Numbers DEF Sequence, SeedNumbers
  <2> QED BY <1>0, <1>4, <2>1, <2>2 DEF Advance
<1>5. ASSUME NEW k \in SeedNumbers, Restart(k) PROVE seq' \in [Boots -> Sequence]
  <2>1. [at |-> 1, st |-> "pause"] \in Sequence
    BY Numbers DEF Sequence, SeedNumbers
  <2> QED BY <1>0, <1>5, <2>1 DEF Restart
<1>6. ASSUME NEW b \in Boots, NEW st \in {"ask", "wait", "over"},
             seq' = [seq EXCEPT ![b].st = st]
      PROVE  seq' \in [Boots -> Sequence]
  BY <1>0, <1>6 DEF Sequence
<1>7. ASSUME NEW b \in Boots, AskSeed(b)
      PROVE  seq' \in [Boots -> Sequence] /\ token' = token
  <2>1. seq[b].at \in SeedNumbers /\ token' = token
    BY <1>0, <1>7 DEF Sequence, AskSeed, session
  <2>2. Advance({b}, seq[b].at) \/ seq' = [seq EXCEPT ![b].st = "wait"]
    BY <1>7 DEF AskSeed
  <2> QED BY <1>4, <1>6, <2>1, <2>2
<1>8. ASSUME NEW b \in Boots, Resume(b) \/ ReadyTimer(b)
      PROVE  seq' \in [Boots -> Sequence] /\ token' = token
  <2>1. token' = token /\ \E st \in {"ask", "over"} : seq' = [seq EXCEPT ![b].st = st]
    BY <1>8 DEF Resume, ReadyTimer, session
  <2> QED BY <1>6, <2>1
<1>9. ASSUME NEW k \in SeedNumbers, SeedData(k) \/ SeedFails(k) \/ SeedRefused(k)
      PROVE  seq' \in [Boots -> Sequence] /\ token' \in Users \union {NoUser}
  <2>1. Advance(Waiting(k), k) \/ Restart(k)
    BY <1>9 DEF SeedData, SeedFails, SeedRefused
  <2>2. token' \in {token, NoUser}
    BY <1>9 DEF SeedData, SeedFails, SeedRefused, SignOut, session
  <2> QED BY <1>0, <1>4, <1>5, <2>1, <2>2
<1>10. CASE \/ Logout \/ OpenProfile \/ StartRefresh \/ FadeOut
            \/ LoginSucceeds \/ LoginFails \/ MeRefused \/ UNCHANGED vars
            \/ LogoutAnswered \/ PageRefused \/ EndRefresh \/ RefreshRefused
            \/ \E u \in Users : SubmitLogin(u)
  <2>1. UNCHANGED seq /\ token' \in {token, NoUser, login}
    BY <1>10 DEF Logout, OpenProfile, StartRefresh, FadeOut, LoginSucceeds, Begin, LoginFails,
       MeRefused, LogoutAnswered, PageRefused, EndRefresh, RefreshRefused, SubmitLogin,
       SignOut, session, boot, vars
  <2> QED BY <1>0, <2>1
<1> QED BY <1>0, <1>1, <1>2, <1>3, <1>7, <1>8, <1>9, <1>10
        DEF Next, User, Answer, Timer

Flags ==
  /\ booted \in BOOLEAN /\ ready \in BOOLEAN /\ refreshing \in BOOLEAN
  /\ showBoot \in BOOLEAN /\ leaving \in BOOLEAN /\ stray \in BOOLEAN

LEMMA FlagsBoolean ==
  ASSUME NEW a, NEW b, NEW c, NEW d, NEW e, NEW f
  PROVE  {a, b, c, d, e, f} \subseteq BOOLEAN <=>
           /\ a \in BOOLEAN /\ b \in BOOLEAN /\ c \in BOOLEAN
           /\ d \in BOOLEAN /\ e \in BOOLEAN /\ f \in BOOLEAN
OBVIOUS

RefreshType ==
  /\ inRefresh \in 0..MaxRefreshes /\ oldRefreshes \in 0..inRefresh
  /\ early \subseteq {"boot", "refresh"}

(* The type invariant but for the sequences and the token.                  *)
Others ==
  /\ profile \in Profile \union {NoProfile}
  /\ page \in {"login", "shell"} /\ login \in Users \union {NoUser}
  /\ me \in Me /\ outgoing \in BOOLEAN
  /\ seed \in [SeedNumbers -> Requests]
  /\ cached \subseteq SeedNumbers /\ Flags
  /\ RefreshType /\ overlap \subseteq {"me", "boot", "profile", "refresh"}
  /\ signIns \in 0..MaxSignIns /\ reloads \in 0..MaxReloads

LEMMA TypeParts ==
  TypeOK <=> token \in Users \union {NoUser} /\ seq \in [Boots -> Sequence] /\ Others
<1>1. {booted, ready, refreshing, showBoot, leaving, stray} \subseteq BOOLEAN <=> Flags
  BY FlagsBoolean DEF Flags
<1> QED BY <1>1, Zenon DEF TypeOK, Others, RefreshType

LEMMA TypePartsNext ==
  token' \in Users \union {NoUser} /\ seq' \in [Boots -> Sequence] /\ Others' => TypeOK'
<1>1. {booted', ready', refreshing', showBoot', leaving', stray'} \subseteq BOOLEAN <=> Flags'
  BY FlagsBoolean DEF Flags
<1> QED BY <1>1, Zenon DEF TypeOK, Others, RefreshType

LEMMA RefreshTyped ==
  ASSUME TypeOK, [Next]_vars
  PROVE  RefreshType'
<1>0. /\ inRefresh \in 0..MaxRefreshes /\ oldRefreshes \in 0..inRefresh
      /\ early \subseteq {"boot", "refresh"} /\ MaxRefreshes \in Nat
  BY Numbers DEF TypeOK
<1>1. CASE UNCHANGED refresh
  BY <1>0, <1>1 DEF refresh, RefreshType
<1>2. CASE LoadPage
  BY <1>0, <1>2 DEF LoadPage, RefreshType
<1>3. ASSUME NEW b \in Boots, ReadyTimer(b) PROVE RefreshType'
  BY <1>0, <1>3 DEF ReadyTimer, RefreshType
<1>4. CASE StartRefresh
  <2>1. /\ inRefresh < MaxRefreshes /\ inRefresh' = inRefresh + 1
        /\ oldRefreshes' = oldRefreshes
        /\ early' = (early \ {"refresh"}) \union {x \in {"refresh"} : stray}
    BY <1>4 DEF StartRefresh
  <2>2. inRefresh' \in 0..MaxRefreshes /\ oldRefreshes' \in 0..inRefresh'
    BY <1>0, <2>1
  <2>3. early' \subseteq {"boot", "refresh"}
    BY <1>0, <2>1
  <2> QED BY <2>2, <2>3 DEF RefreshType
<1>5. CASE RefreshEnds
  BY <1>0, <1>5 DEF RefreshEnds, RefreshType
<1>6. CASE Begin
  BY <1>0, <1>6 DEF Begin, RefreshType
<1>7. \/ UNCHANGED refresh \/ LoadPage \/ StartRefresh \/ RefreshEnds \/ Begin
      \/ \E b \in Boots : ReadyTimer(b)
  BY DEF Next, User, Answer, Timer, Reload, Logout, OpenProfile, SubmitLogin, OidcSignIn,
     LoginSucceeds, LoginFails, MeData, MeFails, AnswerMe, MeRefused, LogoutAnswered,
     PageRefused, EndRefresh, RefreshRefused, SeedData, SeedFails, SeedRefused, FadeOut,
     AskSeed, Resume, vars
<1> QED BY <1>1, <1>2, <1>3, <1>4, <1>5, <1>6, <1>7

LEMMA TypeSteps ==
  ASSUME TypeOK, SequencesCounted, ShellSignedIn, MeAsked, [Next]_vars
  PROVE  TypeOK' /\ ShellSignedIn' /\ MeAsked'
<1>0. /\ seq' \in [Boots -> Sequence] /\ token' \in Users \union {NoUser}
      /\ NoMe \in Me /\ NoUser \notin Users /\ Others
      /\ token \in Users \union {NoUser} /\ RefreshType'
  BY SequencesTyped, RefreshTyped, UsersAssumption, TypeParts DEF NoMe, Me
<1> DEFINE Goal == Others' /\ ShellSignedIn' /\ MeAsked'
<1> SUFFICES Goal
  BY <1>0, TypePartsNext
<1> USE <1>0, Numbers DEF Others, Flags, ShellSignedIn, MeAsked, SignedIn, Requests
<1>1. ASSUME Loaded, signIns' \in 0..MaxSignIns, reloads' \in 0..MaxReloads,
             profile' = profile, overlap' \subseteq {"me", "boot", "profile", "refresh"}
      PROVE  Goal
  <2>1. seed' \in [SeedNumbers -> Requests]
    BY <1>1 DEF Loaded
  <2>2. Flags'
    BY <1>1 DEF Loaded
  <2>3. cached' \subseteq SeedNumbers
    BY <1>1 DEF Loaded
  <2> HIDE DEF Flags
  <2> QED BY <1>1, <2>1, <2>2, <2>3 DEF Loaded
<1>2. CASE Reload
  <2>1. Loaded
    BY <1>2, LoadSteps DEF Reload
  <2>2. /\ signIns' \in 0..MaxSignIns /\ reloads' \in 0..MaxReloads
        /\ profile' = profile /\ overlap' \subseteq {"me", "boot", "profile", "refresh"}
    BY <1>2 DEF Reload
  <2> HIDE DEF Goal
  <2> QED BY <1>1, <2>1, <2>2
<1>3. ASSUME NEW u \in Users, OidcSignIn(u) PROVE Goal
  <2>1. Loaded
    BY <1>3, LoadSteps DEF OidcSignIn
  <2> QED BY <1>1, <1>3, <2>1 DEF OidcSignIn
<1>4. CASE MeData \/ MeFails
  <2>1. Answers
    BY <1>4, AnswerSteps DEF MeData, MeFails
  <2>2. profile' \in Profile \union {NoProfile}
    <3>1. me # NoMe => [user |-> me.user, role |-> TRUE] \in Profile
      BY DEF Me, Profile
    <3> QED BY <1>4, <2>1, <3>1 DEF MeData, MeFails, AnswerMe, Answers
  <2> QED BY <2>1, <2>2 DEF Answers, Mounted, overlay, refresh, counters
<1>5. CASE SignOut /\ me' \in {me, NoMe} /\ UNCHANGED <<overlap, login, signIns, reloads>>
           /\ outgoing' \in BOOLEAN /\ seed' \in [SeedNumbers -> Requests]
           /\ cached' \subseteq SeedNumbers /\ booted' \in BOOLEAN /\ ready' \in BOOLEAN
           /\ refreshing' \in BOOLEAN
  BY <1>5 DEF SignOut, Uncovered
<1>6. CASE MeRefused \/ LogoutAnswered \/ PageRefused
  BY <1>5, <1>6 DEF MeRefused, LogoutAnswered, PageRefused, boot, refresh, counters
<1>7. CASE RefreshRefused
  <2>1. /\ SignOut /\ me' = me /\ UNCHANGED <<overlap, login, signIns, reloads>>
        /\ outgoing' = outgoing /\ seed' = seed /\ cached' = cached /\ booted' = booted
        /\ ready' = TRUE /\ refreshing' = FALSE
    BY <1>7 DEF RefreshRefused, RefreshEnds, boot, counters
  <2>2. ready' \in BOOLEAN /\ refreshing' \in BOOLEAN
    BY <2>1
  <2> QED BY <1>5, <2>1, <2>2
<1>8. ASSUME NEW k \in SeedNumbers, SeedData(k) \/ SeedFails(k) \/ SeedRefused(k) PROVE Goal
  <2>1. Advance(Waiting(k), k) \/ Restart(k)
    BY <1>8 DEF SeedData, SeedFails, SeedRefused
  <2>2. booted' \in BOOLEAN
    BY <2>1 DEF Advance, Restart
  <2>3. /\ seed' \in [SeedNumbers -> Requests]
        /\ cached' \subseteq SeedNumbers
    BY <1>8 DEF SeedData, SeedFails, SeedRefused, Answered
  <2>4. CASE SeedRefused(k)
    <3>1. SignOut /\ UNCHANGED <<overlap, login, me, outgoing, ready, refresh, counters>>
      BY <2>4 DEF SeedRefused
    <3>2. /\ UNCHANGED <<overlap, login, signIns, reloads>> /\ me' \in {me, NoMe}
          /\ outgoing' \in BOOLEAN /\ ready' \in BOOLEAN /\ refreshing' \in BOOLEAN
      BY <3>1 DEF refresh, counters
    <3> HIDE DEF Goal, Others, Flags, ShellSignedIn, MeAsked
    <3> QED BY <1>5, <2>2, <2>3, <3>1, <3>2
  <2>5. CASE SeedData(k) \/ SeedFails(k)
    <3>1. /\ UNCHANGED <<token, profile, page, overlap, login, me, outgoing, ready>>
          /\ UNCHANGED <<refresh, counters>>
      BY <2>5 DEF SeedData, SeedFails, session, overlay
    <3>2. /\ refreshing' = refreshing
          /\ signIns' = signIns /\ reloads' = reloads
          /\ showBoot' = showBoot /\ leaving' = leaving /\ stray' = stray
      BY <2>5, <3>1 DEF SeedData, SeedFails, overlay, refresh, counters
    <3>3. Flags'
      BY <2>2, <3>1, <3>2
    <3> HIDE DEF Flags
    <3> QED BY <2>3, <3>1, <3>2, <3>3
  <2> QED BY <1>8, <2>4, <2>5
<1>9. ASSUME NEW b \in Boots, AskSeed(b) PROVE Goal
  <2>1. /\ booted' \in BOOLEAN /\ cached' = cached
        /\ seed' \in [SeedNumbers -> Requests]
    <3>1. CASE seed' = seed /\ cached' = cached /\ Advance({b}, seq[b].at)
      BY <3>1 DEF Advance
    <3>2. CASE seed' = [seed EXCEPT ![seq[b].at] = IF @ = "none" THEN SentAs ELSE @]
               /\ cached' = cached /\ booted' = booted
      BY <3>2 DEF SentAs
    <3> QED BY <1>9, <3>1, <3>2 DEF AskSeed
  <2> QED BY <1>9, <2>1 DEF AskSeed, session, overlay, refresh, counters
<1>10. ASSUME NEW b \in Boots, Resume(b) \/ ReadyTimer(b) PROVE Goal
  <2>1. CASE Resume(b)
    BY <2>1 DEF Resume, session, overlay, refresh, counters
  <2>2. CASE ReadyTimer(b)
    BY <2>2 DEF ReadyTimer, BecomeReady, session, overlay, refresh, counters
  <2> QED BY <1>10, <2>1, <2>2
<1>11. CASE StartRefresh \/ EndRefresh \/ FadeOut
  <2>2. Flags'
    BY <1>11 DEF StartRefresh, EndRefresh, RefreshEnds, FadeOut, BecomeReady, Uncovered, boot, overlay,
       refresh
  <2>3. UNCHANGED <<session, page, login, me, outgoing, boot, counters>>
    BY <1>11 DEF StartRefresh, EndRefresh, FadeOut
  <2> HIDE DEF Flags
  <2> QED BY <2>2, <2>3 DEF session, boot, counters
<1>12. CASE LoginSucceeds \/ OpenProfile
  <2>1. me' \in Me /\ me'.user # NoUser
    <3>1. \E u \in Users, f, h, o \in BOOLEAN :
            me' = [user |-> u, form |-> f, shell |-> h, stale |-> o]
      <4>1. CASE me = NoMe
        <5>1. CASE LoginSucceeds
          <6>1. me' = [user |-> login, form |-> TRUE, shell |-> me.shell, stale |-> FALSE]
            BY <4>1, <5>1 DEF LoginSucceeds, Begin, NoMe
          <6> QED BY <5>1, <6>1 DEF LoginSucceeds, Me
        <5>2. CASE OpenProfile
          <6>1. me' = [user |-> token, form |-> me.form, shell |-> TRUE, stale |-> FALSE]
            BY <4>1, <5>2 DEF OpenProfile, NoMe
          <6> QED BY <5>2, <6>1 DEF OpenProfile, Me
        <5> QED BY <1>12, <5>1, <5>2
      <4>2. CASE me # NoMe
        <5>1. \/ me' = [me EXCEPT !.form = TRUE, !.stale = TRUE, !.user = me.user]
              \/ me' = [me EXCEPT !.shell = TRUE, !.user = me.user]
          BY <1>12, <4>2 DEF LoginSucceeds, Begin, OpenProfile
        <5>2. me \in Me
          OBVIOUS
        <5>3. me.user \in Users \union {NoUser}
          BY <5>2 DEF Me
        <5>4. me' \in Me
          BY <5>1, <5>2, <5>3 DEF Me
        <5>5. me'.user = me.user
          BY <5>1, <5>2 DEF Me
        <5> QED BY <4>2, <5>4, <5>5 DEF Me
      <4> QED BY <4>1, <4>2
    <3> QED BY <3>1 DEF Me
  <2>2. profile' \in Profile \union {NoProfile}
    <3>1. login # NoUser => [user |-> login, role |-> FALSE] \in Profile
      BY DEF Profile
    <3> QED BY <1>12, <3>1 DEF LoginSucceeds, OpenProfile, session
  <2>3. overlap' \subseteq {"me", "boot", "profile", "refresh"}
    BY <1>12 DEF LoginSucceeds, Begin, OpenProfile, LeftOver, session
  <2>4. login' \in {login, NoUser} /\ (page = "shell" => token # NoUser /\ token' # NoUser)
    BY <1>12 DEF LoginSucceeds, Begin, OpenProfile, session
  <2>5. UNCHANGED <<page, outgoing, cached, booted, ready, refreshing, overlay, counters>>
    BY <1>12 DEF LoginSucceeds, Begin, OpenProfile, boot, refresh
  <2>6. Flags'
    BY <2>5 DEF overlay
  <2>9. seed' \in [SeedNumbers -> Requests]
    BY <1>12 DEF LoginSucceeds, Begin, OpenProfile, boot
  <2> HIDE DEF Flags
  <2>7. ShellSignedIn' /\ MeAsked'
    BY <2>1, <2>4, <2>5
  <2>8. Others'
    BY <2>1, <2>2, <2>3, <2>4, <2>5, <2>6, <2>9 DEF counters
  <2> HIDE DEF Others, ShellSignedIn, MeAsked
  <2> QED BY <2>7, <2>8, Zenon
<1>13. CASE \/ Logout \/ LoginFails \/ UNCHANGED vars \/ \E u \in Users : SubmitLogin(u)
  <2>1. UNCHANGED <<session, page, me, boot, ready, refresh, overlay, reloads>>
    BY <1>13 DEF Logout, LoginFails, SubmitLogin, counters, vars
  <2>2. Flags'
    BY <2>1 DEF boot, refresh, overlay
  <2>3. outgoing' \in BOOLEAN
    BY <1>13 DEF Logout, LoginFails, SubmitLogin, vars
  <2>4. login' \in Users \union {NoUser} /\ signIns' \in 0..MaxSignIns
    <3>1. CASE \E u \in Users : SubmitLogin(u)
      BY <3>1 DEF SubmitLogin
    <3>2. CASE Logout \/ LoginFails \/ UNCHANGED vars
      BY <3>2 DEF Logout, LoginFails, counters, vars
    <3> QED BY <1>13, <3>1, <3>2
  <2> HIDE DEF Flags
  <2> QED BY <2>1, <2>2, <2>3, <2>4 DEF session, boot, refresh
<1> QED BY <1>2, <1>3, <1>4, <1>6, <1>7, <1>8, <1>9, <1>10, <1>11, <1>12, <1>13
        DEF Next, User, Answer, Timer

LEMMA BegunFinite == IsFiniteSet(Begun) /\ Cardinality(Begun) \in Nat
<1>1. Begun \subseteq Boots
  BY DEF Begun
<1>2. IsFiniteSet(Begun)
  BY <1>1, Numbers, FS_Subset
<1> QED BY <1>2, FS_CardinalityType

LEMMA BegunNext ==
  ASSUME NEW b \in Boots
  PROVE  /\ Cardinality(Begun') \in Nat
         /\ Begun' \subseteq Begun => Cardinality(Begun') <= Cardinality(Begun)
         /\ Begun' \subseteq Begun \union {b} => Cardinality(Begun') <= Cardinality(Begun) + 1
         /\ Begun' \subseteq {b} => Cardinality(Begun') <= 1
<1>1. Begun' \subseteq Boots
  BY DEF Begun
<1>2. IsFiniteSet(Begun') /\ Cardinality(Begun') \in Nat
  BY <1>1, Numbers, FS_Subset, FS_CardinalityType
<1>3. ASSUME Begun' \subseteq Begun PROVE Cardinality(Begun') <= Cardinality(Begun)
  BY <1>3, BegunFinite, FS_Subset
<1>4. ASSUME Begun' \subseteq Begun \union {b}
      PROVE  Cardinality(Begun') <= Cardinality(Begun) + 1
  <2>1. /\ IsFiniteSet(Begun \union {b})
        /\ \/ Cardinality(Begun \union {b}) = Cardinality(Begun)
           \/ Cardinality(Begun \union {b}) = Cardinality(Begun) + 1
    BY BegunFinite, FS_AddElement
  <2>2. Cardinality(Begun') <= Cardinality(Begun \union {b})
    BY <1>4, <2>1, FS_Subset
  <2> QED BY <1>2, <2>1, <2>2, BegunFinite
<1>5. ASSUME Begun' \subseteq {b} PROVE Cardinality(Begun') <= 1
  <2>1. IsFiniteSet({b}) /\ Cardinality({b}) = 1
    BY FS_Singleton
  <2> QED BY <1>5, <2>1, FS_Subset
<1> QED BY <1>2, <1>3, <1>4, <1>5

(* The steps of the sequences that have begun.                              *)
Going ==
  \/ \E k \in SeedNumbers : SeedData(k) \/ SeedFails(k) \/ SeedRefused(k)
  \/ \E b \in Boots : AskSeed(b) \/ Resume(b) \/ ReadyTimer(b)

LEMMA GoingSteps ==
  ASSUME TypeOK, Going
  PROVE  /\ \A b \in Boots : seq[b].st = "off" => seq'[b] = seq[b]
         /\ \A b \in Boots : seq[b].st # "off" => seq'[b].st # "off"
         /\ UNCHANGED <<login, me, signIns>>
<1> DEFINE Goal == /\ \A b \in Boots : seq[b].st = "off" => seq'[b] = seq[b]
                   /\ \A b \in Boots : seq[b].st # "off" => seq'[b].st # "off"
<1>0. seq \in [Boots -> Sequence]
  BY DEF TypeOK
<1>1. UNCHANGED <<login, me, signIns>>
  BY DEF Going, SeedData, SeedFails, SeedRefused, AskSeed, Resume, ReadyTimer, counters
<1>2. ASSUME NEW B \in SUBSET Boots, NEW k \in SeedNumbers, Advance(B, k),
             \A b \in B : seq[b].st # "off"
      PROVE  Goal
  BY <1>0, <1>2, Numbers DEF Advance
<1>3. ASSUME NEW k \in SeedNumbers, SeedData(k) \/ SeedFails(k) \/ SeedRefused(k) PROVE Goal
  <2>1. Waiting(k) \in SUBSET Boots /\ \A b \in Waiting(k) : seq[b].st # "off"
    BY DEF Waiting
  <2>2. Advance(Waiting(k), k) \/ Restart(k)
    BY <1>3 DEF SeedData, SeedFails, SeedRefused
  <2>3. CASE Restart(k)
    BY <1>0, <2>1, <2>3 DEF Restart
  <2> QED BY <1>2, <2>1, <2>2, <2>3
<1>4. ASSUME NEW b \in Boots, AskSeed(b) PROVE Goal
  <2>1. seq[b].st = "ask" /\ seq[b].at \in SeedNumbers
    BY <1>0, <1>4 DEF AskSeed, Sequence
  <2>2. Advance({b}, seq[b].at) \/ seq' = [seq EXCEPT ![b].st = "wait"]
    BY <1>4 DEF AskSeed
  <2>3. CASE seq' = [seq EXCEPT ![b].st = "wait"]
    BY <1>0, <2>1, <2>3 DEF Sequence
  <2> QED BY <1>2, <2>1, <2>2, <2>3
<1>5. ASSUME NEW b \in Boots, Resume(b) \/ ReadyTimer(b) PROVE Goal
  <2>1. seq[b].st # "off" /\ \E st \in {"ask", "over"} : seq' = [seq EXCEPT ![b].st = st]
    BY <1>5 DEF Resume, ReadyTimer
  <2> QED BY <1>0, <2>1 DEF Sequence
<1> HIDE DEF Goal
<1>6. Goal
  BY <1>3, <1>4, <1>5 DEF Going
<1> QED BY <1>1, <1>6 DEF Goal

LEMMA BegunSame ==
  ASSUME TypeOK, Going
  PROVE  Begun' = Begun
<1>1. ASSUME NEW b \in Boots PROVE seq'[b] # Off <=> seq[b] # Off
  BY GoingSteps DEF Off
<1> QED BY <1>1 DEF Begun

(* The steps that leave the sequences and the cache alone.                  *)
Resting ==
  \/ StartRefresh \/ EndRefresh \/ FadeOut \/ RefreshRefused
  \/ Logout \/ LogoutAnswered \/ PageRefused \/ MeRefused
  \/ LoginSucceeds \/ LoginFails \/ OpenProfile \/ UNCHANGED vars
  \/ \E u \in Users : SubmitLogin(u)

LEMMA RestingSteps ==
  Resting => UNCHANGED <<cached, seq, booted>> /\ (LoginSucceeds \/ seed' = seed)
BY DEF Resting, StartRefresh, EndRefresh, FadeOut, RefreshRefused, Logout, LogoutAnswered,
   PageRefused, MeRefused, LoginSucceeds, Begin, LoginFails, OpenProfile, SubmitLogin, boot, vars

Loading ==
  /\ Loaded /\ signIns' \in {signIns, signIns + 1}
  /\ \/ token' = token /\ profile' = profile /\ overlap' = overlap \ {"boot", "refresh"}
     \/ /\ profile' = profile /\ token' \in Users
        /\ overlap' = IF profile = NoProfile THEN {} ELSE {"profile"}

LEMMA Kinds ==
  ASSUME TypeOK, SequencesCounted, [Next]_vars
  PROVE  Loading \/ Answers \/ Going \/ Resting
<1>1. CASE Reload
  <2>1. token' \in Users \union {NoUser} /\ LoadPage
    BY <1>1 DEF Reload, TypeOK
  <2> QED BY <1>1, <2>1, LoadSteps DEF Reload, Loading
<1>2. ASSUME NEW u \in Users, OidcSignIn(u) PROVE Loading
  <2>1. token' \in Users \union {NoUser} /\ LoadPage
    BY <1>2 DEF OidcSignIn
  <2> QED BY <1>2, <2>1, LoadSteps DEF OidcSignIn, Loading
<1>3. CASE MeData \/ MeFails
  BY <1>3, AnswerSteps DEF MeData, MeFails
<1> QED BY <1>1, <1>2, <1>3 DEF Next, User, Answer, Timer, Going, Resting

LEMMA CountSteps ==
  ASSUME TypeOK, SequencesCounted, [Next]_vars
  PROVE  SequencesCounted'
<1>0. /\ signIns \in Nat /\ Cardinality(Begun) \in Nat
      /\ Cardinality(Begun) + Once(me.form) + Once(login # NoUser) <= signIns + 1
  BY BegunFinite DEF TypeOK, SequencesCounted
<1>1. CASE Loading
  <2>1. PICK b \in Boots : \A c \in Boots \ {b} : seq'[c] = Off
    BY <1>1 DEF Loading, Loaded
  <2>2. Cardinality(Begun') \in Nat /\ Cardinality(Begun') <= 1
    BY <2>1, BegunNext DEF Begun
  <2> QED BY <1>0, <1>1, <2>2 DEF Loading, Loaded, SequencesCounted, Once
<1>2. CASE Answers
  <2>1. login' = login /\ signIns' = signIns
    BY <1>2 DEF Answers, counters
  <2>2. CASE me.form /\ Mounted(seq, booted, ready)
    <3>1. PICK b \in Boots : Begun' \subseteq Begun \union {b}
      <4>1. CASE seq' = seq
        BY <4>1, Numbers DEF Begun, Boots
      <4>2. CASE seq' # seq
        BY <2>2, <4>2 DEF Mounted, Begun, TypeOK
      <4> QED BY <4>1, <4>2
    <3>2. Cardinality(Begun') \in Nat /\ Cardinality(Begun') <= Cardinality(Begun) + 1
      BY <3>1, BegunNext
    <3>3. me.form /\ ~me'.form
      BY <2>2 DEF Mounted
    <3> QED BY <1>0, <2>1, <3>2, <3>3 DEF SequencesCounted, Once
  <2>3. CASE me' = NoMe /\ seq' = seq
    <3>1. Begun' = Begun /\ ~me'.form
      BY <2>3 DEF Begun, NoMe
    <3> QED BY <1>0, <2>1, <3>1 DEF SequencesCounted, Once
  <2> QED BY <1>2, <2>2, <2>3 DEF Answers
<1>3. CASE Going
  BY <1>0, <1>3, BegunSame, GoingSteps DEF SequencesCounted
<1>4. CASE Resting
  <2>1. Begun' = Begun
    BY <1>4, RestingSteps DEF Begun
  <2>2. CASE LoginSucceeds
    <3>1. login # NoUser /\ login' = NoUser /\ signIns' = signIns
      BY <2>2 DEF LoginSucceeds, Begin, counters
    <3> QED BY <1>0, <2>1, <3>1 DEF SequencesCounted, Once
  <2>3. ASSUME NEW u \in Users, SubmitLogin(u) PROVE SequencesCounted'
    <3>1. login = NoUser /\ me' = me /\ signIns' = signIns + 1
      BY <2>3 DEF SubmitLogin
    <3> QED BY <1>0, <2>1, <3>1 DEF SequencesCounted, Once
  <2>4. CASE LoginFails \/ MeRefused \/ OpenProfile
    <3>1. login' \in {login, NoUser} /\ signIns' = signIns
      BY <2>4 DEF LoginFails, MeRefused, OpenProfile, counters
    <3>2. me'.form => me.form
      <4>1. me \in Me /\ ~NoMe.form
        BY DEF TypeOK, NoMe
      <4> QED BY <2>4, <4>1 DEF LoginFails, MeRefused, OpenProfile, Me
    <3> QED BY <1>0, <2>1, <3>1, <3>2 DEF SequencesCounted, Once
  <2>5. CASE login' = login /\ me' = me /\ signIns' = signIns
    BY <1>0, <2>1, <2>5 DEF SequencesCounted, Once
  <2>6. \/ LoginSucceeds \/ (\E u \in Users : SubmitLogin(u)) \/ LoginFails
        \/ MeRefused \/ OpenProfile
        \/ login' = login /\ me' = me /\ signIns' = signIns
    BY <1>4 DEF Resting, StartRefresh, EndRefresh, FadeOut, RefreshRefused, Logout,
       LogoutAnswered, PageRefused, counters, vars
  <2> QED BY <2>2, <2>3, <2>4, <2>5, <2>6
<1> QED BY <1>1, <1>2, <1>3, <1>4, Kinds

CacheGrows == ~Loading => cached \subseteq cached' /\ cached' \subseteq SeedNumbers

LEMMA SequenceSteps ==
  ASSUME TypeOK, SequencesCounted, SequencesOK, [Next]_vars
  PROVE  SequencesOK' /\ CacheGrows
<1> USE DEF CacheGrows
<1>0. /\ seq \in [Boots -> Sequence] /\ cached \subseteq SeedNumbers
      /\ \A b \in Boots : seq[b].at \in SeedNumbers
  BY DEF TypeOK, Sequence
<1>1. CASE Loading
  <2>1. PICK b \in Boots : /\ \A c \in Boots \ {b} : seq'[c] = Off
                           /\ seq'[b] \in {Off, [at |-> 1, st |-> "ask"]}
    BY <1>1 DEF Loading, Loaded
  <2>2. 1..(1 - 1) = {}
    OBVIOUS
  <2> QED BY <1>1, <2>1, <2>2 DEF SequencesOK, SequenceOK, Off
<1>2. CASE Answers
  <2>1. cached' = cached /\ \A b \in Boots :
          seq'[b] \in {seq[b], [at |-> 1, st |-> "ask"]}
    BY <1>0, <1>2 DEF Answers, Mounted
  <2>2. 1..(1 - 1) = {}
    OBVIOUS
  <2> QED BY <1>0, <2>1, <2>2 DEF SequencesOK, SequenceOK
<1>3. ASSUME NEW B \in SUBSET Boots, NEW k \in SeedNumbers, Advance(B, k),
             k \in cached', cached' = cached \union {k},
             \A b \in B : seq[b].st \in {"ask", "wait"} /\ seq[b].at = k
      PROVE  SequencesOK' /\ CacheGrows
  <2>1. k \in 1..Seeds /\ Seeds \in Nat
    BY Numbers DEF SeedNumbers
  <2>2. ASSUME NEW b \in Boots PROVE SequenceOK(b)'
    <3>1. CASE b \in B
      <4>1. 1..(k - 1) \subseteq cached
        BY <1>3, <3>1 DEF SequencesOK, SequenceOK
      <4>2. 1..k \subseteq cached'
        BY <1>3, <2>1, <4>1
      <4>3. CASE k < Seeds
        <5>1. seq'[b] = [at |-> k + 1, st |-> "ask"]
          BY <1>3, <3>1, <4>3 DEF Advance
        <5> QED BY <2>1, <4>2, <5>1 DEF SequenceOK
      <4>4. CASE k = Seeds
        <5>1. seq'[b] = [at |-> k, st |-> "timer"]
          BY <1>3, <2>1, <3>1, <4>4 DEF Advance
        <5>2. cached' = SeedNumbers
          BY <1>0, <1>3, <4>2, <4>4 DEF SeedNumbers
        <5> QED BY <5>1, <5>2 DEF SequenceOK
      <4> QED BY <2>1, <4>3, <4>4
    <3>2. CASE b \notin B
      <4>1. seq'[b] = seq[b]
        BY <1>3, <3>2 DEF Advance
      <4> QED BY <1>0, <1>3, <4>1 DEF SequencesOK, SequenceOK
    <3> QED BY <3>1, <3>2
  <2> QED BY <1>0, <1>3, <2>2 DEF SequencesOK
<1>4. ASSUME NEW k \in SeedNumbers, SeedData(k) PROVE SequencesOK' /\ CacheGrows
  <2>1. /\ Advance(Waiting(k), k) /\ cached' = cached \union {k}
        /\ Waiting(k) \in SUBSET Boots
        /\ \A b \in Waiting(k) : seq[b].st \in {"ask", "wait"} /\ seq[b].at = k
    BY <1>4 DEF SeedData, Waiting
  <2> QED BY <1>3, <2>1
<1>5. ASSUME NEW k \in SeedNumbers, SeedFails(k) \/ SeedRefused(k) PROVE SequencesOK' /\ CacheGrows
  <2>1. Restart(k) /\ cached' = cached
    BY <1>5 DEF SeedFails, SeedRefused
  <2>2. \A b \in Boots : seq'[b] \in {seq[b], [at |-> 1, st |-> "pause"]}
    BY <2>1 DEF Restart
  <2> QED BY <1>0, <2>1, <2>2 DEF SequencesOK, SequenceOK
<1>6. ASSUME NEW b \in Boots, NEW st \in {"ask", "wait", "over"}, cached' = cached,
             seq' = [seq EXCEPT ![b].st = st],
             \/ seq[b].st = "ask" /\ st = "wait"
             \/ seq[b].st = "pause" /\ st = "ask"
             \/ seq[b].st = "timer" /\ st = "over"
      PROVE  SequencesOK' /\ CacheGrows
  <2>1. \A c \in Boots \ {b} : seq'[c] = seq[c]
    BY <1>0, <1>6
  <2>2. seq'[b].at = seq[b].at /\ seq'[b].st = st
    BY <1>0, <1>6 DEF Sequence
  <2>3. 1..(1 - 1) = {}
    OBVIOUS
  <2>4. SequenceOK(b)'
    BY <1>6, <2>2, <2>3 DEF SequencesOK, SequenceOK
  <2> QED BY <1>0, <1>6, <2>1, <2>4 DEF SequencesOK, SequenceOK
<1>7. ASSUME NEW b \in Boots, AskSeed(b) PROVE SequencesOK' /\ CacheGrows
  <2>1. seq[b].st = "ask" /\ cached' = cached
    BY <1>7 DEF AskSeed
  <2>2. CASE seq[b].at \in cached /\ Advance({b}, seq[b].at)
    <3>1. PICK k \in SeedNumbers : k = seq[b].at
      BY <1>0
    <3>2. PICK B \in SUBSET Boots : B = {b}
      OBVIOUS
    <3>3. k \in cached' /\ cached' = cached \union {k} /\ Advance(B, k)
      BY <2>1, <2>2, <3>1, <3>2
    <3>4. \A c \in B : seq[c].st \in {"ask", "wait"} /\ seq[c].at = k
      BY <2>1, <3>1, <3>2
    <3> QED BY <1>3, <3>3, <3>4
  <2>3. CASE seq' = [seq EXCEPT ![b].st = "wait"]
    <3>1. seq[b].st = "ask" /\ seq' = [seq EXCEPT ![b].st = "wait"]
      BY <2>1, <2>3
    <3> QED BY <1>6, <2>1, <3>1
  <2> QED BY <1>7, <2>2, <2>3 DEF AskSeed
<1>8. ASSUME NEW b \in Boots, Resume(b) \/ ReadyTimer(b) PROVE SequencesOK' /\ CacheGrows
  <2>1. cached' = cached
    BY <1>8 DEF Resume, ReadyTimer, boot
  <2>2. CASE Resume(b)
    <3>1. seq[b].st = "pause" /\ seq' = [seq EXCEPT ![b].st = "ask"]
      BY <2>2 DEF Resume
    <3> QED BY <1>6, <2>1, <3>1
  <2>3. CASE ReadyTimer(b)
    <3>1. seq[b].st = "timer" /\ seq' = [seq EXCEPT ![b].st = "over"]
      BY <2>3 DEF ReadyTimer
    <3> QED BY <1>6, <2>1, <3>1
  <2> HIDE DEF CacheGrows
  <2> QED BY <1>8, <2>2, <2>3
<1>9. CASE Resting
  BY <1>0, <1>9, RestingSteps DEF SequencesOK, SequenceOK
<1> HIDE DEF CacheGrows
<1>10. SequencesOK' /\ CacheGrows
  <2>1. CASE Going
    BY <1>4, <1>5, <1>7, <1>8, <2>1 DEF Going
  <2> QED BY <1>1, <1>2, <1>9, <2>1, Kinds
<1> QED BY <1>10

(* What has become ready early stays so until the page is loaded.           *)
LEMMA EarlyKeeps ==
  ASSUME TypeOK, SequencesCounted, [Next]_vars, ~Loading, "boot" \in early
  PROVE  "boot" \in early'
<1>1. CASE Answers
  BY <1>1 DEF Answers, refresh
<1>2. CASE Going
  <2>1. ASSUME NEW b \in Boots, ReadyTimer(b) PROVE "boot" \in early'
    BY <2>1 DEF ReadyTimer
  <2>2. CASE UNCHANGED refresh
    BY <2>2 DEF refresh
  <2> QED BY <1>2, <2>1, <2>2
          DEF Going, SeedData, SeedFails, SeedRefused, AskSeed, Resume
<1>3. CASE Resting
  <2>1. CASE StartRefresh
    BY <2>1 DEF StartRefresh
  <2>2. CASE RefreshEnds
    BY <2>2 DEF RefreshEnds
  <2>3. CASE early' = early
    BY <2>3
  <2> QED BY <1>3, <2>1, <2>2, <2>3
          DEF Resting, EndRefresh, FadeOut, RefreshRefused, Logout, LogoutAnswered, PageRefused,
              MeRefused, LoginSucceeds, Begin, LoginFails, OpenProfile, SubmitLogin, refresh, vars
<1> QED BY <1>1, <1>2, <1>3, Kinds

(* The service has booted when the cache is full.                           *)
LEMMA BootedSteps ==
  ASSUME TypeOK, SequencesCounted, SequencesOK, CacheFull, [Next]_vars
  PROVE  booted' => cached' = SeedNumbers
<1>0. ~Loading => cached \subseteq cached' /\ cached' \subseteq SeedNumbers
  BY SequenceSteps DEF CacheGrows
<1>1. CASE Loading
  BY <1>1 DEF Loading, Loaded
<1>2. CASE ~Loading /\ booted
  BY <1>0, <1>2 DEF CacheFull
<1>3. CASE booted' = booted /\ ~booted
  BY <1>3
<1>4. ASSUME ~booted, NEW B \in SUBSET Boots, NEW k \in SeedNumbers, Advance(B, k), booted'
      PROVE  cached' = SeedNumbers
  <2>1. B # {} /\ k = Seeds
    BY <1>4 DEF Advance
  <2>2. PICK b \in B : TRUE
    BY <2>1
  <2>3. b \in Boots /\ seq'[b] = [at |-> k, st |-> "timer"]
    BY <1>4, <2>1, <2>2, Numbers DEF Advance
  <2> QED BY <2>3, SequenceSteps DEF SequencesOK, SequenceOK
<1>5. CASE ~Loading /\ ~booted
  <2>1. booted \in BOOLEAN
    BY TypeParts DEF Others, Flags
  <2>2. ASSUME NEW k \in SeedNumbers, SeedData(k) PROVE booted' => cached' = SeedNumbers
    <3>1. Waiting(k) \in SUBSET Boots /\ Advance(Waiting(k), k)
      BY <2>2 DEF SeedData, Waiting
    <3> QED BY <1>4, <1>5, <3>1
  <2>3. ASSUME NEW b \in Boots, AskSeed(b) PROVE booted' => cached' = SeedNumbers
    <3>1. seq[b].at \in SeedNumbers /\ {b} \in SUBSET Boots
      BY DEF TypeOK, Sequence
    <3>2. Advance({b}, seq[b].at) \/ booted' = booted
      BY <2>3 DEF AskSeed
    <3> QED BY <1>3, <1>4, <1>5, <3>1, <3>2
  <2>4. CASE Answers
    BY <1>3, <1>5, <2>4 DEF Answers
  <2>5. CASE Resting
    BY <1>3, <1>5, <2>5, RestingSteps
  <2>6. CASE Going
    <3>1. ASSUME NEW k \in SeedNumbers, SeedFails(k) \/ SeedRefused(k)
          PROVE  booted' = booted
      BY <3>1 DEF SeedFails, SeedRefused, Restart
    <3>2. ASSUME NEW b \in Boots, Resume(b) \/ ReadyTimer(b) PROVE booted' = booted
      BY <3>2 DEF Resume, ReadyTimer
    <3> QED BY <1>3, <1>5, <2>2, <2>3, <2>6, <3>1, <3>2 DEF Going
  <2> QED BY <1>5, <2>4, <2>5, <2>6, Kinds
<1> QED BY <1>1, <1>2, <1>5

LEMMA LoaderSteps ==
  ASSUME TypeOK, SequencesCounted, SequencesOK, CacheFull, LoaderCoversBoot, [Next]_vars
  PROVE  CacheFull' /\ LoaderCoversBoot'
<1> DEFINE Shown == /\ ready \/ leaving \/ stray => cached = SeedNumbers \/ "boot" \in early
                   /\ LoaderCoversBoot
<1>0. ~Loading => cached \subseteq cached' /\ cached' \subseteq SeedNumbers
  BY SequenceSteps DEF CacheGrows
<1>1. SUFFICES Shown'
  BY BootedSteps DEF CacheFull
<1>2. CASE Loading
  BY <1>2 DEF Loading, Loaded, LoaderCoversBoot
<1>3. CASE ~Loading /\ (cached = SeedNumbers \/ "boot" \in early)
  BY <1>0, <1>3, EarlyKeeps DEF LoaderCoversBoot
<1>4. ASSUME ~Loading, cached # SeedNumbers, "boot" \notin early PROVE Shown'
  <2>0. ~booted /\ ~ready /\ ~leaving /\ ~stray /\ (page = "shell" => showBoot)
    BY <1>4 DEF CacheFull, LoaderCoversBoot
  <2>1. CASE UNCHANGED <<ready, overlay, page>>
    BY <2>0, <2>1 DEF overlay, LoaderCoversBoot
  <2>2. CASE SignOut /\ ready' = ready
    BY <2>0, <2>2 DEF SignOut, Uncovered, LoaderCoversBoot
  <2>3. CASE Answers
    <3>1. CASE Mounted(seq, booted, ready)
      <4>1. showBoot' /\ ~leaving' /\ ~stray'
        BY <2>0, <3>1 DEF Mounted
      <4> QED BY <2>0, <2>3, <4>1 DEF Answers, LoaderCoversBoot
    <3> QED BY <2>1, <2>3, <3>1 DEF Answers
  <2>4. ASSUME NEW b \in Boots PROVE ~ReadyTimer(b)
    BY <1>4 DEF ReadyTimer, SequencesOK, SequenceOK
  <2>5. CASE Going
    <3>1. ASSUME NEW k \in SeedNumbers, SeedData(k) \/ SeedFails(k) \/ SeedRefused(k)
          PROVE  Shown'
      BY <2>1, <2>2, <3>1 DEF SeedData, SeedFails, SeedRefused
    <3>2. ASSUME NEW b \in Boots, AskSeed(b) \/ Resume(b) PROVE Shown'
      BY <2>1, <3>2 DEF AskSeed, Resume
    <3> HIDE DEF Shown
    <3> QED BY <2>4, <2>5, <3>1, <3>2 DEF Going
  <2>6. CASE Resting
    <3>1. CASE StartRefresh
      BY <2>0, <3>1 DEF StartRefresh, LoaderCoversBoot
    <3>2. CASE EndRefresh \/ RefreshRefused
      <4>1. "boot" \in early'
        BY <2>0, <3>2 DEF EndRefresh, RefreshRefused, RefreshEnds
      <4> QED BY <4>1 DEF LoaderCoversBoot
    <3>3. CASE LogoutAnswered \/ PageRefused \/ MeRefused
      BY <2>2, <3>3 DEF LogoutAnswered, PageRefused, MeRefused
    <3>4. CASE \/ Logout \/ LoginSucceeds \/ LoginFails \/ OpenProfile \/ UNCHANGED vars
               \/ \E u \in Users : SubmitLogin(u)
      BY <2>1, <3>4 DEF Logout, LoginSucceeds, Begin, LoginFails, OpenProfile, SubmitLogin, vars
    <3>5. ~FadeOut
      BY <2>0 DEF FadeOut
    <3> HIDE DEF Shown
    <3> QED BY <2>6, <3>1, <3>2, <3>3, <3>4, <3>5 DEF Resting
  <2> HIDE DEF Shown
  <2> QED BY <1>4, <2>3, <2>5, <2>6, Kinds
<1> HIDE DEF Shown
<1> QED BY <1>2, <1>3, <1>4

LEMMA OverlaySteps ==
  ASSUME TypeOK, SequencesCounted, RefreshShown, [Next]_vars
  PROVE  RefreshShown'
<1>0. inRefresh \in Nat
  BY DEF TypeOK
<1>1. CASE Loading
  BY <1>1 DEF Loading, Loaded, RefreshShown
<1>2. CASE UNCHANGED <<page, ready, refresh, overlay>>
  BY <1>2 DEF RefreshShown, refresh, overlay
<1>3. CASE SignOut /\ UNCHANGED <<ready, refresh>>
  BY <1>3 DEF RefreshShown, refresh, SignOut, Uncovered
<1>4. CASE Answers
  <2>1. CASE Mounted(seq, booted, ready)
    BY <1>4, <2>1 DEF Answers, Mounted, RefreshShown, refresh
  <2> QED BY <1>2, <1>4, <2>1 DEF Answers
<1>5. CASE Going
  <2>1. ASSUME NEW b \in Boots, ReadyTimer(b) PROVE RefreshShown'
    BY <2>1 DEF ReadyTimer, RefreshShown
  <2>2. ASSUME NEW k \in SeedNumbers, SeedData(k) \/ SeedFails(k) \/ SeedRefused(k)
        PROVE  RefreshShown'
    BY <1>2, <1>3, <2>2 DEF SeedData, SeedFails, SeedRefused
  <2>3. ASSUME NEW b \in Boots, AskSeed(b) \/ Resume(b) PROVE RefreshShown'
    BY <1>2, <2>3 DEF AskSeed, Resume
  <2> QED BY <1>5, <2>1, <2>2, <2>3 DEF Going
<1>6. CASE Resting
  <2>1. CASE StartRefresh
    BY <2>1 DEF StartRefresh, RefreshShown
  <2>2. CASE RefreshEnds
    BY <2>2 DEF RefreshEnds, RefreshShown
  <2>3. CASE FadeOut
    BY <2>3 DEF FadeOut, Uncovered, RefreshShown, refresh
  <2>4. CASE LogoutAnswered \/ PageRefused \/ MeRefused
    BY <1>3, <2>4 DEF LogoutAnswered, PageRefused, MeRefused
  <2>5. CASE \/ Logout \/ LoginFails \/ OpenProfile \/ UNCHANGED vars
             \/ \E u \in Users : SubmitLogin(u)
    BY <1>2, <2>5 DEF Logout, LoginFails, OpenProfile, SubmitLogin, vars
  <2>6. CASE LoginSucceeds
    BY <2>6 DEF LoginSucceeds, Begin, RefreshShown, overlay
  <2> QED BY <1>6, <2>1, <2>2, <2>3, <2>4, <2>5, <2>6
          DEF Resting, EndRefresh, RefreshRefused
<1> QED BY <1>1, <1>4, <1>5, <1>6, Kinds

LEMMA ProfileSteps ==
  ASSUME TypeOK, SequencesCounted, OwnProfile, MeAsked, [Next]_vars
  PROVE  OwnProfile'
<1>1. CASE Loading
  <2>1. me'.user \in {NoUser, token'} /\ (me' # NoMe => me'.user # NoUser)
    BY <1>1 DEF Loading, Loaded
  <2>2. CASE token' = token /\ profile' = profile /\ overlap' = overlap \ {"boot", "refresh"}
    BY <2>1, <2>2 DEF OwnProfile, SignedIn
  <2>3. CASE profile' = profile /\ overlap' = IF profile = NoProfile THEN {} ELSE {"profile"}
    BY <2>1, <2>3 DEF OwnProfile, SignedIn
  <2> QED BY <1>1, <2>2, <2>3 DEF Loading
<1>2. CASE MeData \/ MeFails
  <2>1. Answers
    BY <1>2, AnswerSteps DEF MeData, MeFails
  <2>2. /\ token' = token /\ overlap' = overlap /\ me # NoMe
        /\ me'.user \in {NoUser, token'} /\ (me' # NoMe => me'.user # NoUser)
    BY <2>1 DEF Answers, Mounted, NoMe
  <2>3. profile' \in {profile, [user |-> me.user, role |-> TRUE]}
    BY <1>2 DEF MeData, MeFails, AnswerMe
  <2> QED BY <2>2, <2>3 DEF OwnProfile, SignedIn
<1>3. CASE token' = NoUser
  BY <1>3 DEF OwnProfile, SignedIn
<1>4. CASE UNCHANGED <<session, me>>
  BY <1>4 DEF OwnProfile, SignedIn, session
<1>5. CASE LoginSucceeds
  <2>1. /\ token' = login /\ profile' = [user |-> login, role |-> FALSE]
        /\ overlap' = LeftOver
        /\ me' = [me EXCEPT !.form = TRUE, !.stale = (me # NoMe),
                            !.user = IF me = NoMe THEN login ELSE @]
    BY <1>5 DEF LoginSucceeds, Begin
  <2>2. CASE me = NoMe
    BY <2>1, <2>2 DEF OwnProfile, SignedIn, NoMe
  <2>3. CASE me # NoMe
    BY <2>1, <2>3 DEF OwnProfile, LeftOver
  <2> QED BY <2>2, <2>3
<1>6. CASE OpenProfile
  <2>1. /\ me' = [me EXCEPT !.shell = TRUE, !.user = IF me = NoMe THEN token ELSE @]
        /\ UNCHANGED session /\ me \in Me
    BY <1>6 DEF OpenProfile, TypeOK
  <2>2. me'.user = IF me = NoMe THEN token ELSE me.user
    BY <2>1 DEF Me, NoMe
  <2> QED BY <2>1, <2>2 DEF OwnProfile, SignedIn, session
<1>7. CASE Going
  <2>1. UNCHANGED <<session, me>> \/ token' = NoUser
    BY <1>7 DEF Going, SeedData, SeedFails, SeedRefused, AskSeed, Resume, ReadyTimer, SignOut
  <2> QED BY <1>3, <1>4, <2>1
<1>8. CASE Resting
  <2>1. LoginSucceeds \/ OpenProfile \/ UNCHANGED <<session, me>> \/ token' = NoUser
    BY <1>8 DEF Resting, StartRefresh, EndRefresh, FadeOut, RefreshRefused, Logout,
       LogoutAnswered, PageRefused, MeRefused, LoginFails, SubmitLogin, SignOut, vars
  <2> QED BY <1>3, <1>4, <1>5, <1>6, <2>1
<1>9. CASE Reload \/ \E u \in Users : OidcSignIn(u)
  <2>1. token' \in Users \union {NoUser} /\ LoadPage
    BY <1>9 DEF Reload, OidcSignIn, TypeOK
  <2>2. Loading
    BY <1>9, <2>1, LoadSteps DEF Reload, OidcSignIn, Loading
  <2> QED BY <1>1, <2>2
<1> QED BY <1>2, <1>7, <1>8, <1>9 DEF Next, User, Answer, Timer, Going, Resting

LEMMA WaitSteps ==
  ASSUME TypeOK, SequencesCounted, SeedsAwaited, [Next]_vars
  PROVE  SeedsAwaited'
<1>0. /\ seq \in [Boots -> Sequence]
      /\ seed \in [SeedNumbers -> Requests]
  BY DEF TypeOK
<1> DEFINE Waits(b, k) == seq[b] = [at |-> k, st |-> "wait"]
<1>1. ASSUME NEW k \in SeedNumbers, seed[k] # "none"
      PROVE  \E b \in Boots : Waits(b, k)
  BY <1>1 DEF SeedsAwaited, Waiting
<1>2. SUFFICES ASSUME NEW k \in SeedNumbers, seed'[k] # "none"
              PROVE  \E b \in Boots : seq'[b] = [at |-> k, st |-> "wait"]
  BY DEF SeedsAwaited, Waiting
<1>3. CASE Loading
  BY <1>2, <1>3 DEF Loading, Loaded
<1>4. CASE seed[k] # "none" /\ \A b \in Boots : Waits(b, k) => seq'[b] = seq[b]
  BY <1>1, <1>4
<1>5. CASE Answers
  <2>1. seed' = seed /\ \A b \in Boots : Waits(b, k) => seq'[b] = seq[b]
    BY <1>0, <1>5 DEF Answers, Mounted, Off
  <2> QED BY <1>2, <1>4, <2>1
<1>6. CASE Resting
  <2>1. seed[k] # "none" /\ seq' = seq
    BY <1>0, <1>2, <1>6, RestingSteps DEF LoginSucceeds, Begin
  <2> QED BY <1>4, <2>1
<1>7. ASSUME NEW j \in SeedNumbers, SeedData(j) \/ SeedFails(j) \/ SeedRefused(j),
             seed[k] # "none"
      PROVE  \E b \in Boots : seq'[b] = [at |-> k, st |-> "wait"]
  <2>1. seed' = [seed EXCEPT ![j] = "none"] /\ (Advance(Waiting(j), j) \/ Restart(j))
    BY <1>7 DEF SeedData, SeedFails, SeedRefused, Answered
  <2>2. k # j
    BY <1>0, <1>2, <2>1
  <2>3. \A b \in Boots : Waits(b, k) => b \notin Waiting(j)
    BY <2>2 DEF Waiting
  <2>4. \A b \in Boots : Waits(b, k) => seq'[b] = seq[b]
    BY <2>1, <2>3 DEF Advance, Restart
  <2> QED BY <1>4, <1>7, <2>4
<1>8. ASSUME NEW j \in SeedNumbers, SeedData(j) \/ SeedFails(j) \/ SeedRefused(j)
      PROVE  seed[k] # "none"
  BY <1>0, <1>2, <1>8 DEF SeedData, SeedFails, SeedRefused, Answered
<1>9. ASSUME NEW b \in Boots, AskSeed(b)
      PROVE  \E c \in Boots : seq'[c] = [at |-> k, st |-> "wait"]
  <2>1. seq[b].st = "ask"
    BY <1>9 DEF AskSeed
  <2>2. CASE Advance({b}, seq[b].at) /\ UNCHANGED <<seed, cached>>
    <3>1. \A c \in Boots : Waits(c, k) => seq'[c] = seq[c]
      BY <2>1, <2>2 DEF Advance
    <3> QED BY <1>2, <1>4, <2>2, <3>1
  <2>3. CASE /\ seed' = [seed EXCEPT ![seq[b].at] = IF @ = "none" THEN SentAs ELSE @]
             /\ seq' = [seq EXCEPT ![b].st = "wait"]
    <3>1. CASE seq[b].at = k
      <4>1. seq[b] \in Sequence
        BY <1>0
      <4>2. seq'[b] = [seq[b] EXCEPT !.st = "wait"]
        BY <1>0, <2>3
      <4>3. seq'[b] = [at |-> k, st |-> "wait"]
        BY <3>1, <4>1, <4>2 DEF Sequence
      <4> QED BY <4>3
    <3>2. CASE seq[b].at # k
      <4>1. seed[k] # "none"
        BY <1>0, <1>2, <2>3, <3>2
      <4>2. \A c \in Boots : Waits(c, k) => seq'[c] = seq[c]
        BY <1>0, <2>1, <2>3
      <4> QED BY <1>4, <4>1, <4>2
    <3> QED BY <3>1, <3>2
  <2> QED BY <1>9, <2>2, <2>3 DEF AskSeed
<1>10. ASSUME NEW b \in Boots, Resume(b) \/ ReadyTimer(b)
       PROVE  \E c \in Boots : seq'[c] = [at |-> k, st |-> "wait"]
  <2>1. seed' = seed /\ seq[b].st # "wait" /\ \E st : seq' = [seq EXCEPT ![b].st = st]
    BY <1>10 DEF Resume, ReadyTimer
  <2>2. \A c \in Boots : Waits(c, k) => seq'[c] = seq[c]
    BY <1>0, <2>1
  <2> QED BY <1>2, <1>4, <2>1, <2>2
<1> QED BY <1>3, <1>5, <1>6, <1>7, <1>8, <1>9, <1>10, Kinds DEF Going

LEMMA RefusalSteps ==
  ASSUME TypeOK, SequencesCounted, SeedsAwaited, NoForeignRefusal, [Next]_vars
  PROVE  NoForeignRefusal'
<1>0. /\ seed \in [SeedNumbers -> Requests] /\ me \in Me
      /\ inRefresh \in Nat /\ oldRefreshes \in 0..inRefresh
  BY DEF TypeOK
<1>1. CASE Loading
  BY <1>1 DEF Loading, Loaded, NoForeignRefusal
<1>2. CASE token' = NoUser
  BY <1>2 DEF NoForeignRefusal, SignedIn
<1>3. CASE /\ token' = token /\ overlap' = overlap
           /\ \A k \in SeedNumbers : seed'[k] \in {seed[k], "none", SentAs}
           /\ me'.stale => me.stale
           /\ oldRefreshes = 0 => oldRefreshes' = 0
  BY <1>3 DEF NoForeignRefusal, SignedIn, SentAs
<1>4. CASE Answers
  BY <1>3, <1>4 DEF Answers, Mounted, NoMe, refresh
<1>5. CASE LoginSucceeds
  <2>1. /\ overlap' = LeftOver /\ oldRefreshes' = inRefresh
        /\ me' = [me EXCEPT !.form = TRUE, !.stale = (me # NoMe),
                            !.user = IF me = NoMe THEN login ELSE @]
        /\ seed' = [k \in SeedNumbers |-> IF seed[k] = "signed" THEN "stale" ELSE seed[k]]
    BY <1>5 DEF LoginSucceeds, Begin
  <2>2. ASSUME "boot" \notin overlap', NEW k \in SeedNumbers PROVE seed'[k] = "none"
    <3>1. \A b \in Boots : ~Running(b)
      BY <2>1, <2>2 DEF LeftOver
    <3>2. Waiting(k) = {}
      BY <3>1 DEF Waiting, Running
    <3> QED BY <2>1, <3>2 DEF SeedsAwaited
  <2>3. me'.stale => "me" \in overlap'
    BY <1>0, <2>1 DEF LeftOver, Me
  <2>4. oldRefreshes' # 0 => "refresh" \in overlap'
    BY <1>0, <2>1 DEF LeftOver
  <2> QED BY <2>2, <2>3, <2>4 DEF NoForeignRefusal
<1>6. CASE Going
  <2>0. me' = me /\ oldRefreshes' = oldRefreshes
    BY <1>6 DEF Going, SeedData, SeedFails, SeedRefused, AskSeed, Resume, ReadyTimer, refresh
  <2>1. ASSUME NEW k \in SeedNumbers, SeedData(k) \/ SeedFails(k) PROVE NoForeignRefusal'
    BY <1>0, <1>3, <2>0, <2>1 DEF SeedData, SeedFails, Answered, session
  <2>2. ASSUME NEW k \in SeedNumbers, SeedRefused(k) PROVE NoForeignRefusal'
    BY <1>2, <2>2 DEF SeedRefused, SignOut
  <2>3. ASSUME NEW b \in Boots, AskSeed(b) PROVE NoForeignRefusal'
    <3>1. token' = token /\ overlap' = overlap
      BY <2>3 DEF AskSeed, session
    <3>2. \/ seed' = seed
          \/ seed' = [seed EXCEPT ![seq[b].at] = IF @ = "none" THEN SentAs ELSE @]
      BY <2>3 DEF AskSeed
    <3>3. \A k \in SeedNumbers : seed'[k] \in {seed[k], "none", SentAs}
      BY <1>0, <3>2
    <3> QED BY <1>3, <2>0, <3>1, <3>3
  <2>4. ASSUME NEW b \in Boots, Resume(b) \/ ReadyTimer(b) PROVE NoForeignRefusal'
    BY <1>3, <2>0, <2>4 DEF Resume, ReadyTimer, session, boot
  <2> QED BY <1>6, <2>1, <2>2, <2>3, <2>4 DEF Going
<1>7. CASE Resting
  <2>1. LoginSucceeds \/ UNCHANGED session \/ token' = NoUser
    BY <1>7 DEF Resting, StartRefresh, EndRefresh, FadeOut, RefreshRefused, Logout, OpenProfile,
       LogoutAnswered, PageRefused, MeRefused, LoginFails, SubmitLogin, SignOut, vars
  <2>2. LoginSucceeds \/ seed' = seed
    BY <1>7, RestingSteps
  <2>3. LoginSucceeds \/ token' = NoUser \/ (me'.stale => me.stale)
    <3>1. CASE OpenProfile
      BY <1>0, <3>1 DEF OpenProfile, Me
    <3> QED BY <1>7, <3>1 DEF Resting, StartRefresh, EndRefresh, FadeOut, RefreshRefused, Logout,
       LogoutAnswered, PageRefused, MeRefused, LoginFails, SubmitLogin, SignOut, vars
  <2>4. LoginSucceeds \/ (oldRefreshes = 0 => oldRefreshes' = 0)
    <3>1. CASE RefreshEnds
      BY <1>0, <3>1 DEF RefreshEnds
    <3> QED BY <1>7, <3>1 DEF Resting, StartRefresh, EndRefresh, FadeOut, RefreshRefused, Logout,
       OpenProfile, LogoutAnswered, PageRefused, MeRefused, LoginFails, SubmitLogin, refresh,
       vars
  <2> QED BY <1>2, <1>3, <1>5, <2>1, <2>2, <2>3, <2>4 DEF session
<1> QED BY <1>1, <1>4, <1>6, <1>7, Kinds

LEMMA SessionInit == Init => SessionInv
<1>1. SUFFICES ASSUME Init PROVE SessionInv
  OBVIOUS
<1> USE <1>1 DEF Init
<1>2. NoMe \in Me /\ ~NoMe.form /\ [b \in Boots |-> Off] \in [Boots -> Sequence]
  BY AllOff DEF NoMe, Me
<1>3. TypeOK
  <2>1. Flags
    BY DEF Flags
  <2>2. seed \in [SeedNumbers -> Requests]
    BY DEF Requests
  <2>3. Others
    <3>1. /\ profile \in Profile \union {NoProfile} /\ page \in {"login", "shell"}
          /\ login \in Users \union {NoUser} /\ me \in Me /\ cached \subseteq SeedNumbers
      BY <1>2
    <3>2. outgoing \in BOOLEAN
      OBVIOUS
    <3>3. /\ signIns \in 0..MaxSignIns
          /\ reloads \in 0..MaxReloads /\ overlap \subseteq {"me", "boot", "profile", "refresh"}
      BY Numbers
    <3>4. RefreshType
      BY Numbers DEF RefreshType
    <3> QED BY <2>1, <2>2, <3>1, <3>2, <3>3, <3>4 DEF Others
  <2> QED BY <1>2, <2>3, TypeParts
<1>4. SequencesCounted
  <2>1. Begun = {}
    BY DEF Begun
  <2>2. Cardinality(Begun) = 0
    BY <2>1, FS_EmptySet
  <2> QED BY <1>2, <2>2 DEF SequencesCounted, Once
<1>5. SequencesOK /\ SeedsAwaited
  BY DEF SequencesOK, SequenceOK, Off, SeedsAwaited
<1>6. CacheFull /\ LoaderCoversBoot /\ RefreshShown
  BY DEF CacheFull, LoaderCoversBoot, RefreshShown
<1> QED BY <1>1, <1>3, <1>4, <1>5, <1>6
        DEF SessionInv, ShellSignedIn, MeAsked, OwnProfile, SignedIn, NoForeignRefusal

LEMMA SessionSteps == SessionInv /\ [Next]_vars => SessionInv'
BY TypeSteps, CountSteps, SequenceSteps, LoaderSteps, OverlaySteps, ProfileSteps, WaitSteps,
   RefusalSteps DEF SessionInv

(* Every state of the tab, for any number of users, queries and page loads, *)
(* is in the invariant (core/boot.service.ts, layout/shell.component.ts).   *)
THEOREM SessionInvariant == Spec => []SessionInv
<1>1. Init => SessionInv
  BY SessionInit
<1>2. SessionInv /\ [Next]_vars => SessionInv'
  BY SessionSteps
<1> QED BY <1>1, <1>2, PTL DEF Spec

(* The state of the tab has its types.                                      *)
THEOREM TypeCorrect == Spec => []TypeOK
<1>1. SessionInv => TypeOK
  BY DEF SessionInv
<1> QED BY <1>1, SessionInvariant, PTL

(* The shell is not uncovered before every seed query has been answered,    *)
(* unless a refresh ended before the boot did (core/boot.service.ts:16-22,  *)
(* 63-66).                                                                  *)
THEOREM LoaderAlwaysCovers == Spec => []LoaderCoversBoot
<1>1. SessionInv => LoaderCoversBoot
  BY DEF SessionInv
<1> QED BY <1>1, SessionInvariant, PTL

(* A refresh in flight keeps the overlay up, unless another refresh or a    *)
(* boot sequence ended since the last one began, or that began while an     *)
(* overwritten fade-out timer ran (core/boot.service.ts:57-66).             *)
THEOREM RefreshAlwaysCovered == Spec => []RefreshStaysCovered
<1>1. SessionInv => RefreshStaysCovered
  BY DEF SessionInv, RefreshShown, RefreshStaysCovered
<1> QED BY <1>1, SessionInvariant, PTL

(* Both: the overlay covers whatever is not loaded, but for those cases.    *)
THEOREM OverlayAlwaysCovers == Spec => []OverlayCovers
<1>1. LoaderCoversBoot /\ RefreshStaysCovered => OverlayCovers
  BY DEF OverlayCovers
<1> QED BY <1>1, LoaderAlwaysCovers, RefreshAlwaysCovered, PTL

(* Only an answer to "me" still in flight at the sign-in, or a profile left *)
(* behind, shows another user's profile (pages/login, layout/shell).        *)
THEOREM ProfileIsTheSessions == Spec => []ProfileMatchesSession
<1>1. SessionInv => ProfileMatchesSession
  BY DEF SessionInv, OwnProfile, ProfileMatchesSession
<1> QED BY <1>1, SessionInvariant, PTL

(* A boot sequence's, a "me" or a refresh's request of an earlier session   *)
(* is in flight, and can end this one by its refusal, only if one of its    *)
(* kind was under way when this one began (core/apollo-auth.link.ts).       *)
THEOREM OnlyOwnRefusals == Spec => []NoForeignRefusal
<1>1. SessionInv => NoForeignRefusal
  BY DEF SessionInv
<1> QED BY <1>1, SessionInvariant, PTL

-----------------------------------------------------------------------------
(***************************************************************************)
(* The bar over the pages.                                                 *)
(***************************************************************************)

(* What is shown is loaded.  While nothing is mixed, at most one load is    *)
(* under way, and it is of the language chosen last.                        *)
LanguageInv ==
  /\ language \in [stored : Langs \union {NoLang}, transloco : Langs, shown : Langs,
                   document : Langs, loaded : SUBSET Langs, loads : SUBSET Langs,
                   mixed : BOOLEAN]
  /\ language.shown \in language.loaded /\ language.document = language.shown
  /\ ~language.mixed =>
       \/ /\ language.loads = {} /\ language.transloco = language.shown
          /\ language.stored \in {NoLang, language.shown}
       \/ /\ language.loads = {language.transloco}
          /\ language.stored = language.transloco

(* A query of the bell reads no less than was seen before it.               *)
BellInv ==
  /\ bell \in [feed : Nat, items : Nat, lastSeen : Nat, unread : BOOLEAN, open : BOOLEAN,
               query : {"none", "sent", "read"}, read : Nat]
  /\ bell.items <= bell.feed /\ bell.lastSeen <= bell.feed
  /\ bell.query = "read" =>
       bell.items <= bell.read /\ bell.lastSeen <= bell.read /\ bell.read <= bell.feed

(* While the dialog is open and nothing is mixed, either the token is being *)
(* loaded, or it is known and a change of it under way.                     *)
TokensInv ==
  /\ tokens \in [server : 0..MaxTokens, made : 0..MaxTokens, open : BOOLEAN, mask : 0..MaxTokens,
                 fresh : 0..MaxTokens, error : BOOLEAN, loading : BOOLEAN,
                 load : {"none", "sent", "read"}, read : 0..MaxTokens,
                 op : {"none", "generate", "revoke"}, done : BOOLEAN, mixed : BOOLEAN]
  /\ tokens.loading <=> tokens.op # "none"
  /\ tokens.done => tokens.op # "none"
  /\ tokens.op = "generate" /\ ~tokens.done => tokens.made < MaxTokens
  /\ tokens.open /\ ~tokens.mixed =>
       /\ tokens.load # "none" => tokens.op = "none" /\ tokens.fresh = 0
       /\ tokens.load = "read" => tokens.read = tokens.server
       /\ tokens.load = "none" /\ ~tokens.done =>
            tokens.mask = tokens.server /\ tokens.fresh \in {0, tokens.server}
       /\ tokens.done => tokens.server = IF tokens.op = "generate" THEN tokens.made ELSE 0

(* The badge that a server told shows the server's orchestrator.            *)
BadgeInv ==
  /\ badge \in [server : {"swarm", "kubernetes"}, shown : {"swarm", "kubernetes"},
                query : {"none", "sent"}, told : BOOLEAN]
  /\ badge.told => badge.shown = badge.server
ThemeInv == theme \in [stored : Themes \union {"none"}, shown : Themes]

BarInv == LanguageInv /\ BellInv /\ TokensInv /\ BadgeInv /\ ThemeInv /\ BellHonest

LEMMA StartsAgreeing ==
  ASSUME NEW stored \in Langs \union {NoLang}, NEW lang \in Langs,
         stored \in {NoLang, lang}, NEW l, l = StartLanguage(stored, lang)
  PROVE  /\ l \in [stored : Langs \union {NoLang}, transloco : Langs, shown : Langs,
                   document : Langs, loaded : SUBSET Langs, loads : SUBSET Langs,
                   mixed : BOOLEAN]
         /\ l.shown \in l.loaded /\ l.document = l.shown
         /\ l.loads = {} /\ l.transloco = l.shown /\ l.stored \in {NoLang, l.shown}
<1>1. {lang} \in SUBSET Langs /\ {} \in SUBSET Langs
  OBVIOUS
<1> QED BY <1>1 DEF StartLanguage

LEMMA BarInvInit == BarInit => BarInv
<1> SUFFICES ASSUME BarInit PROVE BarInv
  OBVIOUS
<1>1. LanguageInv
  <2>1. PICK browser \in Langs : language = StartLanguage(NoLang, browser)
    BY DEF BarInit
  <2> QED BY <2>1, StartsAgreeing DEF LanguageInv
<1>2. BellInv /\ BellHonest
  BY DEF BarInit, QuietBell, BellInv, BellHonest
<1>3. TokensInv
  <2>1. PICK server \in {0, 1} : tokens = NoDialogOf(server, 1)
    BY DEF BarInit
  <2>2. server \in 0..MaxTokens /\ 1 \in 0..MaxTokens /\ 0 \in 0..MaxTokens
    BY MaxTokensAssumption
  <2> QED BY <2>1, <2>2 DEF TokensInv, NoDialogOf
<1>4. BadgeInv /\ ThemeInv
  BY DEF BarInit, BadgeInv, ThemeInv
<1> QED BY <1>1, <1>2, <1>3, <1>4 DEF BarInv

(* The language.                                                            *)
LEMMA LanguageStep ==
  LanguageInv /\ [BarNext]_barVars => LanguageInv'
<1> SUFFICES ASSUME LanguageInv, [BarNext]_barVars PROVE LanguageInv'
  OBVIOUS
<1>1. CASE UNCHANGED language
  BY <1>1 DEF LanguageInv
<1>2. CASE ReloadBar
  <2>1. PICK browser \in Langs :
          language' = StartLanguage(language.stored, ReadInitialLang(language.stored, browser))
    BY <1>2 DEF ReloadBar
  <2> DEFINE lang == ReadInitialLang(language.stored, browser)
  <2>2. lang \in Langs /\ language.stored \in Langs \union {NoLang} /\ language.stored \in {NoLang, lang}
    BY DEF LanguageInv, ReadInitialLang
  <2> HIDE DEF lang
  <2>3. language' = StartLanguage(language.stored, lang)
    BY <2>1 DEF lang
  <2> QED BY <2>2, <2>3, StartsAgreeing DEF LanguageInv
<1>3. ASSUME NEW code \in Langs, SelectLang(code) PROVE LanguageInv'
  <2>1. language' = SetLanguage(code)
    BY <1>3 DEF SelectLang
  <2> QED BY <2>1 DEF SetLanguage, LanguageInv
<1>4. ASSUME NEW code \in Langs, LanguageLoaded(code) PROVE LanguageInv'
  BY <1>4 DEF LanguageLoaded, LanguageInv
<1>5. ASSUME NEW code \in Langs, LanguageFails(code) PROVE LanguageInv'
  BY <1>5 DEF LanguageFails, LanguageInv
<1> QED
  BY <1>1, <1>2, <1>3, <1>4, <1>5
  DEF BarNext, barVars, Toggle, ToggleLang, CloseMenu, SetTheme, PollVersion, VersionAnswers,
      FeedGrows, LoadItems, ReadItems, ItemsAnswered, ItemsFail, ToggleBell, OpenApiTokens,
      ReadMask, MaskAnswered, MaskFails, Generate, Revoke, Change, ChangeExecuted,
      ChangeAnswered, ChangeFails, OnCloseTokens

(* The bell.                                                                *)
BellType ==
  bell \in [feed : Nat, items : Nat, lastSeen : Nat, unread : BOOLEAN, open : BOOLEAN,
            query : {"none", "sent", "read"}, read : Nat]

LEMMA BellStep ==
  BellInv /\ BellHonest /\ [BarNext]_barVars => BellInv' /\ BellHonest'
<1> SUFFICES ASSUME BellInv, BellHonest, [BarNext]_barVars PROVE BellInv' /\ BellHonest'
  OBVIOUS
<1>0. BellType
  BY DEF BellInv, BellType
<1>1. CASE UNCHANGED bell
  BY <1>1 DEF BellInv, BellHonest
<1>2. CASE ReloadBar
  BY <1>2 DEF ReloadBar, QuietBell, BellInv, BellHonest
<1>3. CASE FeedGrows
  <2>1. bell' = [bell EXCEPT !.feed = @ + 1]
    BY <1>3 DEF FeedGrows
  <2>2. BellHonest'
    BY <1>0, <2>1 DEF BellHonest, BellType
  <2> QED BY <2>1, <2>2 DEF BellInv
<1>4. CASE LoadItems
  <2>1. bell' = [bell EXCEPT !.query = "sent"]
    BY <1>4 DEF LoadItems
  <2>2. BellHonest'
    BY <1>0, <2>1 DEF BellHonest, BellType
  <2> QED BY <2>1, <2>2 DEF BellInv
<1>5. CASE ReadItems
  <2>1. bell' = [bell EXCEPT !.query = "read", !.read = bell.feed]
    BY <1>5 DEF ReadItems
  <2>2. BellHonest' /\ BellType'
    BY <1>0, <2>1 DEF BellHonest, BellType
  <2>3. /\ bell'.items = bell.items /\ bell'.lastSeen = bell.lastSeen
        /\ bell'.read = bell.feed /\ bell'.feed = bell.feed
    BY <1>0, <2>1 DEF BellType
  <2>4. bell.items <= bell.feed /\ bell.lastSeen <= bell.feed /\ bell.feed <= bell.feed
    BY <1>0 DEF BellInv, BellType
  <2> QED BY <2>2, <2>3, <2>4 DEF BellInv, BellType
<1>6. CASE ItemsAnswered
  <2>1. bell' = [bell EXCEPT !.query = "none", !.read = 0, !.items = bell.read,
                             !.unread = bell.read > bell.lastSeen]
    BY <1>6 DEF ItemsAnswered
  <2>2. /\ bell'.items = bell.read /\ bell'.lastSeen = bell.lastSeen /\ bell'.feed = bell.feed
        /\ bell'.query = "none"
    BY <1>0, <2>1 DEF BellType
  <2>3. bell'.unread <=> bell.read > bell.lastSeen
    BY <1>0, <2>1 DEF BellType
  <2>4. bell.lastSeen <= bell.read /\ bell.read <= bell.feed
    BY <1>6 DEF ItemsAnswered, BellInv
  <2>5. BellHonest'
    BY <2>2, <2>3, <2>4 DEF BellHonest
  <2>6. BellType'
    <3>1. (bell.read > bell.lastSeen) \in BOOLEAN /\ bell.read \in Nat
      BY <1>0 DEF BellType
    <3> DEFINE lit == bell.read > bell.lastSeen
    <3>2. bell' = [bell EXCEPT !.query = "none", !.read = 0, !.items = bell.read, !.unread = lit]
      BY <2>1
    <3>3. lit \in BOOLEAN
      BY <3>1
    <3> HIDE DEF lit
    <3> QED BY <1>0, <3>1, <3>2, <3>3 DEF BellType
  <2> QED BY <2>2, <2>4, <2>5, <2>6 DEF BellInv, BellType
<1>7. CASE ItemsFail
  <2>1. bell' = [bell EXCEPT !.query = "none", !.read = 0]
    BY <1>7 DEF ItemsFail
  <2>2. BellHonest'
    BY <1>0, <2>1 DEF BellHonest, BellType
  <2> QED BY <2>1, <2>2 DEF BellInv
<1>8. CASE ToggleBell
  <2>1. CASE ~bell.open /\ bell.items > 0
    <3>1. bell' = [bell EXCEPT !.open = TRUE, !.lastSeen = bell.items, !.unread = FALSE]
      BY <1>8, <2>1 DEF ToggleBell
    <3>2. BellHonest'
      BY <1>0, <3>1 DEF BellHonest, BellType
    <3> QED BY <3>1, <3>2 DEF BellInv
  <2>2. CASE ~(~bell.open /\ bell.items > 0)
    <3>1. bell' = [bell EXCEPT !.open = ~@]
      BY <1>8, <2>2 DEF ToggleBell
    <3>2. BellHonest'
      BY <1>0, <3>1 DEF BellHonest, BellType
    <3> QED BY <3>1, <3>2 DEF BellInv
  <2> QED BY <2>1, <2>2
<1> QED
  BY <1>1, <1>2, <1>3, <1>4, <1>5, <1>6, <1>7, <1>8
  DEF BarNext, barVars, Toggle, ToggleLang, CloseMenu, SetTheme, PollVersion, VersionAnswers,
      SelectLang, LanguageLoaded, LanguageFails, OpenApiTokens,
      ReadMask, MaskAnswered, MaskFails, Generate, Revoke, Change, ChangeExecuted,
      ChangeAnswered, ChangeFails, OnCloseTokens

(* The dialog of the token.                                                 *)
LEMMA TokensStep ==
  TokensInv /\ [BarNext]_barVars => TokensInv'
<1> SUFFICES ASSUME TokensInv, [BarNext]_barVars PROVE TokensInv'
  OBVIOUS
<1>0. MaxTokens \in Nat \ {0} /\ 0 \in 0..MaxTokens
  BY MaxTokensAssumption
<1>1. CASE UNCHANGED tokens
  BY <1>1 DEF TokensInv
<1>2. CASE ReloadBar
  BY <1>0, <1>2 DEF ReloadBar, NoDialogOf, TokensInv
<1>3. CASE OpenApiTokens
  BY <1>0, <1>3 DEF OpenApiTokens, TokensInv
<1>4. CASE ReadMask
  BY <1>0, <1>4 DEF ReadMask, TokensInv
<1>5. CASE MaskAnswered
  BY <1>0, <1>5 DEF MaskAnswered, TokensInv
<1>6. CASE MaskFails
  BY <1>0, <1>6 DEF MaskFails, TokensInv
<1>7. CASE Generate
  BY <1>0, <1>7 DEF Generate, Change, TokensInv
<1>8. CASE Revoke
  BY <1>0, <1>8 DEF Revoke, Change, TokensInv
<1>9. CASE ChangeExecuted
  <2>0. tokens.op # "none" /\ ~tokens.done
    BY <1>9 DEF ChangeExecuted
  <2>1. CASE tokens.op = "revoke"
    <3>1. tokens' = [tokens EXCEPT !.done = TRUE, !.server = 0]
      BY <1>9, <2>1 DEF ChangeExecuted
    <3> QED BY <1>0, <2>0, <2>1, <3>1 DEF TokensInv
  <2>2. CASE tokens.op = "generate"
    <3>1. tokens.made + 1 \in 0..MaxTokens
      BY <1>0, <2>0, <2>2 DEF TokensInv
    <3>2. tokens' = [tokens EXCEPT !.done = TRUE, !.server = tokens.made + 1, !.made = tokens.made + 1]
      BY <1>9, <2>2 DEF ChangeExecuted
    <3> QED BY <1>0, <2>0, <2>2, <3>1, <3>2 DEF TokensInv
  <2> QED BY <2>0, <2>1, <2>2 DEF TokensInv
<1>10. CASE ChangeAnswered
  BY <1>0, <1>10 DEF ChangeAnswered, TokensInv
<1>11. CASE ChangeFails
  BY <1>0, <1>11 DEF ChangeFails, TokensInv
<1>12. CASE OnCloseTokens
  BY <1>0, <1>12 DEF OnCloseTokens, TokensInv
<1> QED
  BY <1>1, <1>2, <1>3, <1>4, <1>5, <1>6, <1>7, <1>8, <1>9, <1>10, <1>11, <1>12
  DEF BarNext, barVars, Toggle, ToggleLang, CloseMenu, SetTheme, PollVersion, VersionAnswers,
      SelectLang, LanguageLoaded, LanguageFails, FeedGrows, LoadItems, ReadItems,
      ItemsAnswered, ItemsFail, ToggleBell

(* The badge and the theme.                                                 *)
LEMMA BadgeStep ==
  BadgeInv /\ ThemeInv /\ [BarNext]_barVars => BadgeInv' /\ ThemeInv'
<1> SUFFICES ASSUME BadgeInv, ThemeInv, [BarNext]_barVars PROVE BadgeInv' /\ ThemeInv'
  OBVIOUS
<1> USE DEF BadgeInv, ThemeInv, Themes
<1>1. CASE UNCHANGED <<badge, theme>>
  BY <1>1
<1>2. CASE ReloadBar
  BY <1>2 DEF ReloadBar
<1>3. ASSUME NEW t \in Themes, SetTheme(t) PROVE BadgeInv' /\ ThemeInv'
  BY <1>3 DEF SetTheme
<1>4. CASE PollVersion
  BY <1>4 DEF PollVersion
<1>5. CASE VersionAnswers
  BY <1>5 DEF VersionAnswers
<1> HIDE DEF BadgeInv, ThemeInv, Themes
<1> QED
  BY <1>1, <1>2, <1>3, <1>4, <1>5
  DEF BarNext, barVars, Toggle, ToggleLang, CloseMenu, SelectLang, LanguageLoaded,
      LanguageFails, FeedGrows, LoadItems, ReadItems, ItemsAnswered, ItemsFail, ToggleBell,
      OpenApiTokens, ReadMask, MaskAnswered, MaskFails, Generate, Revoke, Change,
      ChangeExecuted, ChangeAnswered, ChangeFails, OnCloseTokens

(* The entries of the sidebar with a counter.                               *)
LEMMA NetworksCounted ==
  "networks" \in SidebarCounters <=> badge.shown # "kubernetes"
<1>1. DOMAIN Nav = {"overview", "workloads", "infra", "store", "admin"}
  BY DEF Nav, NavGroups
<1>2. "networks" \in Counted
  <2>1. "networks" \in UNION {NavGroups[g] : g \in DOMAIN NavGroups}
    <3>1. "infra" \in DOMAIN NavGroups /\ "networks" \in NavGroups["infra"]
      BY DEF NavGroups
    <3> HIDE DEF NavGroups
    <3> QED BY <3>1
  <2> QED BY <2>1 DEF Counted
<1>3. "networks" \in UNION {Nav[g] : g \in DOMAIN Nav} <=> \E g \in DOMAIN Nav : "networks" \in Nav[g]
  OBVIOUS
<1>4. \A g \in DOMAIN Nav : "networks" \in Nav[g] <=> g = "infra" /\ badge.shown # "kubernetes"
  BY <1>1 DEF Nav, NavGroups
<1>5. (\E g \in DOMAIN Nav : "networks" \in Nav[g]) <=> badge.shown # "kubernetes"
  BY <1>1, <1>4
<1> QED BY <1>2, <1>3, <1>5 DEF SidebarCounters

LEMMA BarInvSuffices ==
  BarInv => BarTypeOK /\ BarSound
<1> SUFFICES ASSUME BarInv PROVE BarTypeOK /\ BarSound
  OBVIOUS
<1>1. LanguageAgrees
  BY DEF BarInv, LanguageInv, LanguageAgrees
<1>2. TokenShown
  BY DEF BarInv, TokensInv, TokenShown
<1>3. NavHonest
  BY NetworksCounted DEF BarInv, BadgeInv, NavHonest
<1>4. BarTypeOK
  BY DEF BarInv, BadgeInv, TokensInv, LanguageInv, BellInv, ThemeInv, BarTypeOK
<1> QED BY <1>1, <1>2, <1>3, <1>4 DEF BarSound, BarInv

LEMMA BarStep == BarInv /\ [BarNext]_barVars => BarInv'
BY LanguageStep, BellStep, TokensStep, BadgeStep DEF BarInv

(* The sidebar, the language shown and stored, the bell and the token of    *)
(* the dialog agree with what is loaded and served, for any languages and   *)
(* any number of tokens and entries, but for the overlaps recorded.         *)
THEOREM BarIsSound == BarSpec => [](BarTypeOK /\ BarSound)
<1>1. BarSpec => []BarInv
  BY BarInvInit, BarStep, PTL DEF BarSpec
<1> QED BY <1>1, BarInvSuffices, PTL
-----------------------------------------------------------------------------
(***************************************************************************)
(* The profile page.                                                       *)
(***************************************************************************)

Save ==
  [op : {"save", "password"}, own : BOOLEAN, done : BOOLEAN, ok : BOOLEAN,
   details : Values \union Passwords, next : Passwords \union {Nothing}]

Load == [own : BOOLEAN, pc : {"sent", "read"}, me : Values \union {Nothing}]

FormType ==
  [on : BOOLEAN, loading : BOOLEAN, me : Values \union {Nothing}, orig : Values \union {Nothing},
   val : Values \union {Nothing}, touched : BOOLEAN, saving : BOOLEAN]

PwType ==
  [open : BOOLEAN, current : Passwords \union {Nothing}, next : Passwords \union {Nothing},
   confirm : Passwords \union {Nothing}, errors : SUBSET {"current", "next", "confirm"},
   changing : BOOLEAN]

ProfileTyped ==
  /\ account \in [details : Values, password : Passwords, strange : BOOLEAN]
  /\ form \in FormType /\ pwDialog \in PwType
  /\ known \in Values /\ saves \in SUBSET Save
  /\ loads \in SUBSET Load
  /\ \A s \in saves : IF s.op = "save" THEN s.details \in Values
                      ELSE s.details \in Passwords /\ s.next \in Passwords
  /\ \A load \in loads : load.pc = "read" => load.me \in Values

(* The page waits for one request of each kind, and shows that it does.     *)
OwnSaves ==
  /\ \A s, t \in saves : s.own /\ t.own /\ s.op = t.op => s = t
  /\ form.saving <=> \E s \in saves : s.own /\ s.op = "save"
  /\ pwDialog.changing <=> \E s \in saves : s.own /\ s.op = "password"

(* A page that is off or loading has no request of its own under way but,   *)
(* loading, the query.                                                      *)
PageRests ==
  /\ ~form.on => form = FormClosed
  /\ form.loading => pwDialog = PwClosed /\ ~form.saving /\ form.me = Nothing
  /\ form.on /\ loads # {} => form.loading
  /\ \A load \in loads : load.own <=> form.on

(* While nothing strange happened: who waits for what, and what is known.   *)
Agreement ==
  ~account.strange =>
    /\ \A s \in saves : s.own
    /\ \A s \in saves : s.op = "save" /\ s.done => s.details = account.details
    /\ \A load \in loads : load.pc = "read" => load.me = account.details
    /\ form.on /\ ~form.loading /\ form.me # Nothing =>
         /\ form.orig = form.me /\ known = form.me
         /\ (\A s \in saves : s.op = "save" => ~s.done) => form.me = account.details

ProfileInv == ProfileTyped /\ OwnSaves /\ PageRests /\ Agreement

LEMMA PageClosed ==
  /\ FormClosed \in FormType /\ ~FormClosed.on /\ FormClosed.loading /\ ~FormClosed.saving
  /\ FormClosed.me = Nothing
  /\ PwClosed \in PwType /\ ~PwClosed.changing /\ ~PwClosed.open
<1>1. FormClosed \in FormType
  BY DEF FormClosed, FormType
<1>2. PwClosed \in PwType
  BY DEF PwClosed, PwType
<1>3. /\ ~FormClosed.on /\ FormClosed.loading /\ ~FormClosed.saving /\ FormClosed.me = Nothing
      /\ ~PwClosed.changing /\ ~PwClosed.open
  BY DEF FormClosed, PwClosed
<1> QED BY <1>1, <1>2, <1>3

LEMMA ProfileInvInit == ProfileInit => ProfileInv
<1>1. \A own \in BOOLEAN : ProfileQuery(own) \in Load /\ ProfileQuery(own).own = own /\ ProfileQuery(own).pc = "sent"
  BY DEF ProfileQuery, Load
<1> QED BY <1>1, PageClosed
    DEF ProfileInit, ProfileInv, ProfileTyped, OwnSaves, PageRests, Agreement

(* What keeps the requests and the loads as they are.                       *)
LEMMA FormMoves ==
  ASSUME ProfileInv, UNCHANGED <<account, known, saves, loads>>,
         form' \in FormType, pwDialog' \in PwType,
         form'.loading = form.loading, form'.saving = form.saving, form'.on = form.on,
         form'.me = form.me, form'.orig = form.orig, pwDialog'.changing = pwDialog.changing,
         form.on, ~form.loading
  PROVE  ProfileInv'
<1>1. ProfileTyped'
  BY DEF ProfileInv, ProfileTyped
<1>2. OwnSaves'
  BY DEF ProfileInv, OwnSaves
<1>3. PageRests' /\ Agreement'
  BY DEF ProfileInv, PageRests, Agreement
<1> QED BY <1>1, <1>2, <1>3 DEF ProfileInv

LEMMA QuietProfile ==
  ASSUME ProfileInv,
         OpenPwModal \/ ClosePwModal \/ ResetForm
         \/ (\E val \in Values \union {Nothing} : OnInput(val))
         \/ (\E current, next, confirm \in Passwords \union {Nothing} :
               TypePasswords(current, next, confirm))
  PROVE  ProfileInv'
<1>0. /\ form \in FormType /\ pwDialog \in PwType
      /\ pwDialog.open => form.on /\ ~form.loading
  <2>1. ~form.on => form.loading
    BY PageClosed DEF ProfileInv, PageRests
  <2> QED BY <2>1, PageClosed DEF ProfileInv, ProfileTyped, PageRests
<1>1. CASE OpenPwModal
  <2>1. /\ pwDialog' = [PwClosed EXCEPT !.open = TRUE, !.changing = pwDialog.changing]
        /\ form.on /\ ~form.loading /\ UNCHANGED <<account, form, known, saves, loads>>
    BY <1>1 DEF OpenPwModal
  <2>2. pwDialog' \in PwType /\ pwDialog'.changing = pwDialog.changing
    BY <1>0, <2>1, PageClosed DEF PwType
  <2> QED BY <1>0, <2>1, <2>2, FormMoves
<1>2. CASE ClosePwModal
  <2>1. /\ pwDialog' = [pwDialog EXCEPT !.open = FALSE] /\ pwDialog.open
        /\ UNCHANGED <<account, form, known, saves, loads>>
    BY <1>2 DEF ClosePwModal
  <2>2. pwDialog' \in PwType /\ pwDialog'.changing = pwDialog.changing
    BY <1>0, <2>1 DEF PwType
  <2> QED BY <1>0, <2>1, <2>2, FormMoves
<1>3. CASE ResetForm
  <2>1. /\ form' = [form EXCEPT !.val = form.orig, !.touched = FALSE]
        /\ form.on /\ ~form.loading /\ UNCHANGED <<account, pwDialog, known, saves, loads>>
    BY <1>3 DEF ResetForm
  <2>2. /\ form' \in FormType /\ form'.loading = form.loading /\ form'.saving = form.saving
        /\ form'.on = form.on /\ form'.me = form.me /\ form'.orig = form.orig
    BY <1>0, <2>1 DEF FormType
  <2> QED BY <1>0, <2>1, <2>2, FormMoves
<1>4. ASSUME NEW val \in Values \union {Nothing}, OnInput(val) PROVE ProfileInv'
  <2>1. /\ form' = [form EXCEPT !.val = val]
        /\ form.on /\ ~form.loading /\ UNCHANGED <<account, pwDialog, known, saves, loads>>
    BY <1>4 DEF OnInput
  <2>2. /\ form' \in FormType /\ form'.loading = form.loading /\ form'.saving = form.saving
        /\ form'.on = form.on /\ form'.me = form.me /\ form'.orig = form.orig
    BY <1>0, <2>1 DEF FormType
  <2> QED BY <1>0, <2>1, <2>2, FormMoves
<1>5. ASSUME NEW current \in Passwords \union {Nothing}, NEW next \in Passwords \union {Nothing},
             NEW confirm \in Passwords \union {Nothing}, TypePasswords(current, next, confirm)
      PROVE  ProfileInv'
  <2>1. /\ pwDialog' = [pwDialog EXCEPT !.current = current, !.next = next, !.confirm = confirm]
        /\ pwDialog.open /\ UNCHANGED <<account, form, known, saves, loads>>
    BY <1>5 DEF TypePasswords
  <2>2. pwDialog' \in PwType /\ pwDialog'.changing = pwDialog.changing
    BY <1>0, <2>1 DEF PwType
  <2> QED BY <1>0, <2>1, <2>2, FormMoves
<1> QED BY <1>1, <1>2, <1>3, <1>4, <1>5

(* The page comes and goes.                                                 *)
LEMMA PageComesAndGoes ==
  ASSUME ProfileInv, OpenDetails \/ LeaveProfile \/ ReadProfile \/ ProfileLoaded \/ ProfileFails
  PROVE  ProfileInv'
<1> USE DEF ProfileInv
<1>1. CASE OpenDetails
  <2>1. form.saving = FALSE /\ form.loading = TRUE /\ pwDialog = PwClosed
    BY <1>1 DEF OpenDetails, PageRests, FormClosed
  <2>2. \A s \in saves : ~s.own
    <3>1. ~form.saving /\ ~pwDialog.changing
      BY <2>1, PageClosed
    <3>2. \A s \in saves : s.op \in {"save", "password"}
      BY DEF ProfileTyped, Save
    <3> QED BY <3>1, <3>2 DEF OwnSaves
  <2>3. ASSUME NEW load \in loads'
        PROVE  /\ load \in Load /\ load.own
               /\ load.pc = "read" => \E old \in loads : old.pc = "read" /\ old.me = load.me
    <3>1. CASE loads = {}
      <4>1. load = ProfileQuery(TRUE)
        BY <1>1, <3>1 DEF OpenDetails
      <4> QED BY <4>1 DEF ProfileQuery, Load
    <3>2. CASE loads # {}
      <4>1. PICK old \in loads : load = [old EXCEPT !.own = TRUE]
        BY <1>1, <3>2 DEF OpenDetails
      <4>2. old \in Load
        BY DEF ProfileTyped
      <4>3. load \in Load /\ load.own /\ load.pc = old.pc /\ load.me = old.me
        BY <4>1, <4>2 DEF Load
      <4> QED BY <4>3
    <3> QED BY <3>1, <3>2
  <2>4. ProfileTyped'
    <3>1. form' \in FormType /\ pwDialog' \in PwType
      BY <1>1, PageClosed DEF OpenDetails, FormType
    <3>2. UNCHANGED <<account, known, saves>>
      BY <1>1 DEF OpenDetails
    <3>3. \A load \in loads' : load \in Load /\ (load.pc = "read" => load.me \in Values)
      BY <2>3 DEF ProfileTyped
    <3> QED BY <3>1, <3>2, <3>3 DEF ProfileTyped
  <2>5. OwnSaves' /\ PageRests'
    BY <1>1, <2>1, <2>2, <2>3 DEF OpenDetails, OwnSaves, PageRests, FormClosed, PwClosed
  <2>6. Agreement'
    <3>1. form'.loading /\ UNCHANGED <<account, known, saves>>
      BY <1>1, PageClosed DEF OpenDetails, FormType
    <3> QED BY <2>3, <3>1 DEF Agreement
  <2> QED BY <2>4, <2>5, <2>6
<1>2. CASE LeaveProfile
  <2>1. ASSUME NEW s \in saves
        PROVE  /\ [s EXCEPT !.own = FALSE] \in Save /\ ~[s EXCEPT !.own = FALSE].own
               /\ [s EXCEPT !.own = FALSE].op = s.op
               /\ [s EXCEPT !.own = FALSE].details = s.details
               /\ [s EXCEPT !.own = FALSE].next = s.next
    <3>1. s \in Save
      BY DEF ProfileTyped
    <3> QED BY <3>1 DEF Save
  <2>2. saves' \in SUBSET Save /\ \A s \in saves' : ~s.own
    BY <1>2, <2>1 DEF LeaveProfile
  <2>3. \A s \in saves' : \E t \in saves : s.op = t.op /\ s.details = t.details /\ s.next = t.next
    BY <1>2, <2>1 DEF LeaveProfile
  <2>4. ASSUME NEW load \in loads'
        PROVE  /\ load \in Load /\ ~load.own
               /\ \E old \in loads : old.pc = load.pc /\ old.me = load.me
    <3>1. PICK old \in loads : load = [old EXCEPT !.own = FALSE]
      BY <1>2 DEF LeaveProfile
    <3>2. old \in Load
      BY DEF ProfileTyped
    <3>3. load \in Load /\ ~load.own /\ load.pc = old.pc /\ load.me = old.me
      BY <3>1, <3>2 DEF Load
    <3> QED BY <3>3
  <2> DEFINE b == saves # {} \/ \E load \in loads : load.pc = "read" /\ load.me # account.details
  <2>5. account' = [account EXCEPT !.strange = b] /\ b \in BOOLEAN
    BY <1>2 DEF LeaveProfile
  <2>6. /\ account' \in [details : Values, password : Passwords, strange : BOOLEAN]
        /\ account'.strange = b /\ account'.details = account.details
    <3> HIDE DEF b
    <3> QED BY <2>5 DEF ProfileTyped
  <2>7. ProfileTyped'
    <3>1. form' \in FormType /\ pwDialog' \in PwType /\ known' = known
      BY <1>2, PageClosed DEF LeaveProfile
    <3>2. \A load \in loads' : load \in Load /\ (load.pc = "read" => load.me \in Values)
      BY <2>4 DEF ProfileTyped
    <3> QED BY <2>2, <2>3, <2>6, <3>1, <3>2 DEF ProfileTyped
  <2>8. OwnSaves' /\ PageRests'
    BY <1>2, <2>2, <2>4 DEF LeaveProfile, OwnSaves, PageRests, FormClosed, PwClosed
  <2>9. Agreement'
    <3> SUFFICES ASSUME ~b PROVE Agreement'
      BY <2>6 DEF Agreement
    <3>1. saves' = {} /\ ~form'.on
      BY <1>2, PageClosed DEF LeaveProfile
    <3>2. \A load \in loads' : load.pc = "read" => load.me = account.details
      BY <2>4
    <3> QED BY <2>6, <3>1, <3>2 DEF Agreement
  <2> QED BY <2>7, <2>8, <2>9
<1>3. CASE ReadProfile
  <2>1. PICK load \in loads :
          load.pc = "sent" /\ loads' = {[load EXCEPT !.pc = "read", !.me = account.details]}
    BY <1>3 DEF ReadProfile
  <2> DEFINE r == [load EXCEPT !.pc = "read", !.me = account.details]
  <2>2. /\ r \in Load /\ r.own = load.own
        /\ r.pc = "read" /\ r.me = account.details /\ account.details \in Values
    BY DEF ProfileTyped, Load
  <2> HIDE DEF r
  <2>3. loads' = {r}
    BY <2>1 DEF r
  <2>4. UNCHANGED <<account, form, pwDialog, known, saves>>
    BY <1>3 DEF ReadProfile
  <2>5. ProfileTyped'
    BY <2>2, <2>3, <2>4 DEF ProfileTyped
  <2>6. OwnSaves'
    BY <2>4 DEF OwnSaves
  <2>7. PageRests' /\ Agreement'
    BY <2>1, <2>2, <2>3, <2>4 DEF PageRests, Agreement
  <2> QED BY <2>5, <2>6, <2>7
<1>4. CASE ProfileLoaded
  <2>1. PICK load \in loads :
          /\ load.pc = "read" /\ loads' = {}
          /\ form' = IF load.own THEN [Apply(load.me, form) EXCEPT !.loading = FALSE] ELSE form
          /\ known' = IF load.own THEN load.me ELSE known
    BY <1>4 DEF ProfileLoaded
  <2>2. load.me \in Values /\ load.me # Nothing
    BY <2>1, NothingAssumption DEF ProfileTyped
  <2>3. UNCHANGED <<account, pwDialog, saves>>
    BY <1>4 DEF ProfileLoaded
  <2>4. CASE load.own
    <3>1. form.loading /\ pwDialog = PwClosed /\ ~form.saving /\ form.on
      BY <2>4 DEF PageRests
    <3>2. /\ form' = [form EXCEPT !.me = load.me, !.orig = load.me, !.val = load.me, !.loading = FALSE]
          /\ known' = load.me
      BY <2>1, <2>4 DEF Apply
    <3>3. /\ form'.me = load.me /\ form'.orig = load.me /\ ~form'.loading
          /\ form'.on /\ form'.saving = form.saving
      BY <3>1, <3>2 DEF ProfileTyped, FormType
    <3>4. ProfileTyped'
      BY <2>1, <2>2, <2>3, <3>2 DEF ProfileTyped, FormType
    <3>5. OwnSaves' /\ PageRests'
      BY <2>1, <2>3, <3>3 DEF OwnSaves, PageRests
    <3>6. Agreement'
      BY <2>1, <2>3, <3>2, <3>3 DEF Agreement
    <3> QED BY <3>4, <3>5, <3>6
  <2>5. CASE ~load.own
    <3>1. UNCHANGED <<account, form, pwDialog, known, saves>> /\ loads' = {}
      BY <2>1, <2>3, <2>5
    <3> QED BY <3>1 DEF ProfileTyped, OwnSaves, PageRests, Agreement
  <2> QED BY <2>4, <2>5
<1>5. CASE ProfileFails
  <2>1. loads' = {} /\ UNCHANGED <<account, pwDialog, known, saves>>
    BY <1>5 DEF ProfileFails
  <2>2. CASE form.on
    <3>1. form' = [form EXCEPT !.loading = FALSE] /\ form.loading /\ form.me = Nothing
      BY <1>5, <2>2 DEF ProfileFails, PageRests
    <3>2. /\ form' \in FormType /\ form'.saving = form.saving /\ form'.on = form.on /\ ~form'.loading
          /\ form'.me = form.me
      BY <3>1 DEF ProfileTyped, FormType
    <3>3. ProfileTyped'
      BY <2>1, <3>2 DEF ProfileTyped
    <3>4. OwnSaves' /\ PageRests'
      BY <2>1, <2>2, <3>2 DEF OwnSaves, PageRests
    <3>5. Agreement'
      BY <2>1, <3>1, <3>2 DEF Agreement
    <3> QED BY <3>3, <3>4, <3>5
  <2>3. CASE ~form.on
    <3>1. form' = form
      BY <1>5, <2>3 DEF ProfileFails
    <3> QED BY <2>1, <3>1 DEF ProfileTyped, OwnSaves, PageRests, Agreement
  <2> QED BY <2>2, <2>3
<1> QED BY <1>1, <1>2, <1>3, <1>4, <1>5

(* A request sent: the page had none of its kind under way.                 *)
LEMMA Sends ==
  ASSUME ProfileInv, NEW op \in {"save", "password"}, NEW given, NEW next,
         op = "save" => given \in Values /\ next = Nothing,
         op = "password" => given \in Passwords /\ next \in Passwords,
         Send(op, given, next), UNCHANGED <<account, known, loads>>,
         form' \in FormType, pwDialog' \in PwType, form.on, ~form.loading,
         form'.on = form.on, form'.loading = form.loading,
         form'.me = form.me, form'.orig = form.orig,
         IF op = "save" THEN ~form.saving /\ form'.saving /\ pwDialog' = pwDialog
         ELSE ~pwDialog.changing /\ pwDialog'.changing /\ form' = form
  PROVE  ProfileInv'
<1> DEFINE r == [op |-> op, own |-> TRUE, done |-> FALSE, ok |-> FALSE,
                 details |-> given, next |-> next]
<1>1. saves' = saves \union {r}
  BY DEF Send
<1>2. r \in Save /\ r.op = op /\ r.own /\ ~r.done /\ r.details = given /\ r.next = next
  BY DEF Save
<1> HIDE DEF r
<1>3. ProfileTyped'
  BY <1>1, <1>2 DEF ProfileInv, ProfileTyped
<1>4. OwnSaves'
  <2>1. \A s \in saves : s.own => s.op # op
    BY DEF ProfileInv, OwnSaves
  <2>2. \A s, t \in saves' : s.own /\ t.own /\ s.op = t.op => s = t
    BY <1>1, <1>2, <2>1 DEF ProfileInv, OwnSaves
  <2>3. CASE op = "save"
    <3>1. (\E s \in saves' : s.own /\ s.op = "save") /\ form'.saving
      BY <1>1, <1>2, <2>3
    <3>2. (\E s \in saves' : s.own /\ s.op = "password") <=> \E s \in saves : s.own /\ s.op = "password"
      BY <1>1, <1>2, <2>3
    <3> QED BY <2>2, <2>3, <3>1, <3>2 DEF ProfileInv, OwnSaves
  <2>4. CASE op = "password"
    <3>1. (\E s \in saves' : s.own /\ s.op = "password") /\ pwDialog'.changing
      BY <1>1, <1>2, <2>4
    <3>2. (\E s \in saves' : s.own /\ s.op = "save") <=> \E s \in saves : s.own /\ s.op = "save"
      BY <1>1, <1>2, <2>4
    <3> QED BY <2>2, <2>4, <3>1, <3>2 DEF ProfileInv, OwnSaves
  <2> QED BY <2>3, <2>4
<1>5. PageRests'
  BY DEF ProfileInv, PageRests
<1>6. Agreement'
  <2>1. \A s \in saves' : s = r \/ s \in saves
    BY <1>1
  <2>2. saves \subseteq saves'
    BY <1>1
  <2> QED BY <1>2, <2>1, <2>2 DEF ProfileInv, Agreement
<1> QED BY <1>3, <1>4, <1>5, <1>6 DEF ProfileInv

LEMMA SendingKeeps ==
  ASSUME ProfileInv, SaveProfile \/ ChangePassword PROVE ProfileInv'
<1>0. /\ form \in FormType /\ pwDialog \in PwType
      /\ pwDialog.open => form.on /\ ~form.loading
  <2>1. ~form.on => form.loading
    BY PageClosed DEF ProfileInv, PageRests
  <2> QED BY <2>1, PageClosed DEF ProfileInv, ProfileTyped, PageRests
<1>1. CASE SaveProfile
  <2>1. /\ form.on /\ ~form.loading /\ ~form.saving /\ form.val # Nothing
        /\ form' = [form EXCEPT !.touched = TRUE, !.saving = TRUE]
        /\ Send("save", form.val, Nothing) /\ UNCHANGED <<account, pwDialog, known, loads>>
    BY <1>1 DEF SaveProfile, FormValid
  <2>2. /\ form' \in FormType /\ form'.on = form.on /\ form'.loading = form.loading
        /\ form'.me = form.me /\ form'.orig = form.orig /\ form'.saving /\ form.val \in Values
    BY <1>0, <2>1 DEF FormType
  <2> QED BY <1>0, <2>1, <2>2, Sends
<1>2. CASE ChangePassword
  <2>1. CASE PwErrors # {}
    <3>1. /\ pwDialog' = [pwDialog EXCEPT !.errors = PwErrors] /\ UNCHANGED saves
          /\ pwDialog.open /\ UNCHANGED <<account, form, known, loads>>
      BY <1>2, <2>1 DEF ChangePassword
    <3>2. PwErrors \in SUBSET {"current", "next", "confirm"}
      BY DEF PwErrors
    <3>3. pwDialog' \in PwType /\ pwDialog'.changing = pwDialog.changing
      BY <1>0, <3>1, <3>2 DEF PwType
    <3> QED BY <1>0, <3>1, <3>3, FormMoves
  <2>2. CASE PwErrors = {}
    <3>1. /\ pwDialog.open /\ ~pwDialog.changing
          /\ pwDialog' = [pwDialog EXCEPT !.changing = TRUE]
          /\ Send("password", pwDialog.current, pwDialog.next)
          /\ UNCHANGED <<account, form, known, loads>>
      BY <1>2, <2>2 DEF ChangePassword
    <3>2. pwDialog.current # Nothing /\ pwDialog.next # Nothing
      <4>1. "current" \notin PwErrors /\ "next" \notin PwErrors
        BY <2>2
      <4> QED BY <4>1 DEF PwErrors
    <3>3. /\ pwDialog' \in PwType /\ pwDialog'.changing
          /\ pwDialog.current \in Passwords /\ pwDialog.next \in Passwords
      BY <1>0, <3>1, <3>2 DEF PwType
    <3> QED BY <1>0, <3>1, <3>3, Sends
  <2> QED BY <2>1, <2>2
<1> QED BY <1>1, <1>2

(* The server carries a request out.                                        *)
LEMMA ExecuteKeeps ==
  ASSUME ProfileInv, ExecuteSave PROVE ProfileInv'
<1>1. PICK s \in saves, ok \in BOOLEAN :
        /\ ~s.done /\ saves' = (saves \ {s}) \union {[s EXCEPT !.done = TRUE, !.ok = ok]}
        /\ account' = IF s.op = "save" THEN [account EXCEPT !.details = s.details]
                      ELSE IF ok THEN [account EXCEPT !.password = s.next] ELSE account
  <2>1. \A s \in saves : (s.op = "save" \/ s.details = account.password) \in BOOLEAN
    OBVIOUS
  <2> QED BY <2>1 DEF ExecuteSave
<1>2. UNCHANGED <<form, pwDialog, known, loads>>
  BY DEF ExecuteSave
<1> DEFINE r == [s EXCEPT !.done = TRUE, !.ok = ok]
<1>3. /\ r \in Save /\ r.op = s.op /\ r.own = s.own /\ r.done /\ r.details = s.details /\ r.next = s.next
      /\ s.op \in {"save", "password"}
  <2>1. s \in Save
    BY DEF ProfileInv, ProfileTyped
  <2> QED BY <2>1 DEF Save
<1>4. saves' = (saves \ {s}) \union {r}
  BY <1>1
<1> HIDE DEF r
<1>5. /\ account' \in [details : Values, password : Passwords, strange : BOOLEAN]
      /\ account'.strange = account.strange
      /\ IF s.op = "save" THEN account'.details = s.details ELSE account'.details = account.details
  <2>1. /\ account \in [details : Values, password : Passwords, strange : BOOLEAN]
        /\ s.op = "save" => s.details \in Values
        /\ s.op = "password" => s.next \in Passwords
    BY DEF ProfileInv, ProfileTyped
  <2> QED BY <1>1, <1>3, <2>1
<1>6. ProfileTyped'
  BY <1>2, <1>3, <1>4, <1>5 DEF ProfileInv, ProfileTyped
<1>7. OwnSaves'
  <2>1. \A u, t \in saves' : u.own /\ t.own /\ u.op = t.op => u = t
    BY <1>3, <1>4 DEF ProfileInv, OwnSaves
  <2>2. \A op \in {"save", "password"} :
          (\E t \in saves' : t.own /\ t.op = op) <=> \E t \in saves : t.own /\ t.op = op
    BY <1>3, <1>4
  <2> QED BY <1>2, <2>1, <2>2 DEF ProfileInv, OwnSaves
<1>8. PageRests'
  BY <1>2 DEF ProfileInv, PageRests
<1>9. Agreement'
  <2> SUFFICES ASSUME ~account.strange PROVE Agreement'
    BY <1>5 DEF Agreement
  <2>1. \A t \in saves : t.own
    BY DEF ProfileInv, Agreement
  <2>2. \A t \in saves : t # s => t.op # s.op
    BY <2>1 DEF ProfileInv, OwnSaves
  <2>3. \A t \in saves' : t.own
    BY <1>3, <1>4, <2>1
  <2>4. \A t \in saves' : t.op = "save" /\ t.done => t.details = account'.details
    <3> SUFFICES ASSUME NEW t \in saves', t.op = "save", t.done
                 PROVE  t.details = account'.details
      OBVIOUS
    <3>1. CASE t = r
      BY <1>3, <1>5, <3>1
    <3>2. CASE t # r
      <4>1. t \in saves /\ t # s /\ s.op # "save"
        BY <1>4, <2>2, <3>2
      <4>2. account'.details = account.details
        BY <1>5, <4>1
      <4> QED BY <4>1, <4>2 DEF ProfileInv, Agreement
    <3> QED BY <3>1, <3>2
  <2>5. CASE s.op = "save"
    <3>1. form.saving /\ form.on /\ ~form.loading /\ loads = {}
      <4>1. form.saving
        BY <2>1, <2>5 DEF ProfileInv, OwnSaves
      <4> QED BY <4>1, PageClosed DEF ProfileInv, PageRests
    <3>2. \E t \in saves' : t.op = "save" /\ t.done
      BY <1>3, <1>4, <2>5
    <3> QED BY <1>2, <1>5, <2>3, <2>4, <3>1, <3>2 DEF ProfileInv, Agreement
  <2>6. CASE s.op # "save"
    <3>1. account'.details = account.details
      BY <1>5, <2>6
    <3>2. (\A t \in saves' : t.op = "save" => ~t.done) => \A t \in saves : t.op = "save" => ~t.done
      BY <1>3, <1>4, <2>6
    <3> QED BY <1>2, <1>5, <2>3, <2>4, <3>1, <3>2 DEF ProfileInv, Agreement
  <2> QED BY <2>5, <2>6
<1> QED BY <1>6, <1>7, <1>8, <1>9 DEF ProfileInv
(* A request is over: of the page's own, its button is free again.          *)
Freed(s) ==
  /\ saves' = saves \ {s} /\ UNCHANGED loads
  /\ form' \in FormType /\ pwDialog' \in PwType
  /\ form'.on = form.on /\ form'.loading = form.loading
  /\ IF s.own /\ s.op = "save" THEN ~form'.saving ELSE form' = form
  /\ IF s.own /\ s.op = "password" THEN ~pwDialog'.changing ELSE pwDialog' = pwDialog

LEMMA FreedOwn ==
  ASSUME ProfileInv, NEW s \in saves, Freed(s)
  PROVE  OwnSaves' /\ PageRests'
<1>1. s.op \in {"save", "password"} /\ \A t \in saves : t.op \in {"save", "password"}
  BY DEF ProfileInv, ProfileTyped, Save
<1>2. saves' = saves \ {s}
  BY DEF Freed
<1>3. \A u, t \in saves' : u.own /\ t.own /\ u.op = t.op => u = t
  BY <1>2 DEF ProfileInv, OwnSaves
<1>4. CASE ~s.own
  <2>1. form' = form /\ pwDialog' = pwDialog /\ loads' = loads
    BY <1>4 DEF Freed
  <2>2. \A op \in {"save", "password"} :
          (\E t \in saves' : t.own /\ t.op = op) <=> \E t \in saves : t.own /\ t.op = op
    BY <1>2, <1>4
  <2> QED BY <1>3, <2>1, <2>2 DEF ProfileInv, OwnSaves, PageRests
<1>5. CASE s.own
  <2>1. ~ \E t \in saves' : t.own /\ t.op = s.op
    BY <1>2, <1>5 DEF ProfileInv, OwnSaves
  <2>2. \A op \in {"save", "password"} :
          op # s.op => (\E t \in saves' : t.own /\ t.op = op) <=> \E t \in saves : t.own /\ t.op = op
    BY <1>2
  <2>3. CASE s.op = "save"
    <3>1. ~form'.saving /\ pwDialog' = pwDialog /\ loads' = loads
      BY <1>5, <2>3 DEF Freed
    <3>2. form.saving /\ form.on /\ ~form.loading
      <4>1. form.saving
        BY <1>5, <2>3 DEF ProfileInv, OwnSaves
      <4> QED BY <4>1, PageClosed DEF ProfileInv, PageRests
    <3>3. form'.on /\ ~form'.loading
      BY <3>2 DEF Freed
    <3>4. OwnSaves'
      BY <1>3, <2>1, <2>2, <2>3, <3>1 DEF ProfileInv, OwnSaves
    <3>5. PageRests'
      BY <3>1, <3>2, <3>3 DEF ProfileInv, PageRests
    <3> QED BY <3>4, <3>5
  <2>4. CASE s.op = "password"
    <3>1. ~pwDialog'.changing /\ form' = form /\ loads' = loads
      BY <1>5, <2>4 DEF Freed
    <3>2. ~form.loading
      <4>1. pwDialog.changing
        BY <1>5, <2>4 DEF ProfileInv, OwnSaves
      <4> QED BY <4>1, PageClosed DEF ProfileInv, PageRests
    <3>3. OwnSaves'
      BY <1>3, <2>1, <2>2, <2>4, <3>1 DEF ProfileInv, OwnSaves
    <3>4. PageRests'
      BY <3>1, <3>2 DEF ProfileInv, PageRests
    <3> QED BY <3>3, <3>4
  <2> QED BY <1>1, <2>3, <2>4
<1> QED BY <1>4, <1>5

LEMMA AnsweredKeeps ==
  ASSUME ProfileInv, SaveAnswered PROVE ProfileInv'
<1>1. PICK s \in saves :
        /\ s.done /\ saves' = saves \ {s}
        /\ form' = IF s.own /\ s.op = "save"
                     THEN [Apply(s.details, form) EXCEPT !.saving = FALSE] ELSE form
        /\ known' = IF s.own /\ s.op = "save" THEN s.details ELSE known
        /\ pwDialog' = IF ~s.own \/ s.op = "save" THEN pwDialog
                       ELSE IF s.ok THEN [pwDialog EXCEPT !.open = FALSE, !.changing = FALSE]
                       ELSE [pwDialog EXCEPT !.errors = {"current"}, !.changing = FALSE]
  BY DEF SaveAnswered
<1>2. UNCHANGED <<account, loads>>
  BY DEF SaveAnswered
<1>3. /\ s \in Save /\ s.op \in {"save", "password"} /\ s.own \in BOOLEAN /\ s.ok \in BOOLEAN
      /\ s.op = "save" => s.details \in Values /\ s.details # Nothing
      /\ form \in FormType /\ pwDialog \in PwType
  BY NothingAssumption DEF ProfileInv, ProfileTyped, Save
<1>4. /\ form' \in FormType /\ form'.on = form.on /\ form'.loading = form.loading
      /\ IF s.own /\ s.op = "save"
           THEN ~form'.saving /\ form'.me = s.details /\ form'.orig = s.details ELSE form' = form
  <2>1. CASE s.own /\ s.op = "save"
    <3>1. form' = [form EXCEPT !.me = s.details, !.orig = s.details, !.val = s.details, !.saving = FALSE]
      BY <1>1, <2>1 DEF Apply
    <3> QED BY <1>3, <2>1, <3>1 DEF FormType
  <2>2. CASE ~(s.own /\ s.op = "save")
    BY <1>1, <1>3, <2>2
  <2> QED BY <2>1, <2>2
<1>5. /\ pwDialog' \in PwType
      /\ IF s.own /\ s.op = "password" THEN ~pwDialog'.changing ELSE pwDialog' = pwDialog
  <2>1. CASE ~s.own \/ s.op = "save"
    BY <1>1, <1>3, <2>1
  <2>2. CASE s.own /\ s.op = "password"
    <3>1. \/ pwDialog' = [pwDialog EXCEPT !.open = FALSE, !.changing = FALSE]
          \/ pwDialog' = [pwDialog EXCEPT !.errors = {"current"}, !.changing = FALSE]
      BY <1>1, <1>3, <2>2
    <3>2. CASE pwDialog' = [pwDialog EXCEPT !.open = FALSE, !.changing = FALSE]
      BY <1>3, <2>2, <3>2 DEF PwType
    <3>3. CASE pwDialog' = [pwDialog EXCEPT !.errors = {"current"}, !.changing = FALSE]
      BY <1>3, <2>2, <3>3 DEF PwType
    <3> QED BY <3>1, <3>2, <3>3
  <2> QED BY <1>3, <2>1, <2>2
<1>6. OwnSaves' /\ PageRests'
  <2>1. Freed(s)
    BY <1>1, <1>2, <1>4, <1>5 DEF Freed
  <2> QED BY <2>1, FreedOwn
<1>7. ProfileTyped'
  BY <1>1, <1>2, <1>3, <1>4, <1>5 DEF ProfileInv, ProfileTyped
<1>8. Agreement'
  <2> SUFFICES ASSUME ~account.strange PROVE Agreement'
    BY <1>2 DEF Agreement
  <2>1. /\ \A t \in saves : t.own
        /\ \A t \in saves : t.op = "save" /\ t.done => t.details = account.details
        /\ \A load \in loads : load.pc = "read" => load.me = account.details
    BY DEF ProfileInv, Agreement
  <2>2. saves' \subseteq saves
    BY <1>1
  <2>3. CASE s.op = "save"
    <3>1. s.details = account.details /\ s.own /\ known' = s.details
      BY <1>1, <2>1, <2>3
    <3> QED BY <1>2, <1>4, <2>1, <2>2, <2>3, <3>1 DEF Agreement
  <2>4. CASE s.op # "save"
    <3>1. form' = form /\ known' = known
      BY <1>1, <2>4
    <3>2. (\A t \in saves' : t.op = "save" => ~t.done) => \A t \in saves : t.op = "save" => ~t.done
      BY <1>1, <2>4
    <3> QED BY <1>2, <2>1, <2>2, <3>1, <3>2 DEF ProfileInv, Agreement
  <2> QED BY <2>3, <2>4
<1> QED BY <1>6, <1>7, <1>8 DEF ProfileInv

LEMMA FailedKeeps ==
  ASSUME ProfileInv, SaveFails PROVE ProfileInv'
<1>1. PICK s \in saves :
        /\ saves' = saves \ {s}
        /\ form' = IF s.own /\ s.op = "save" THEN [form EXCEPT !.saving = FALSE] ELSE form
        /\ pwDialog' = IF s.own /\ s.op = "password"
                         THEN [pwDialog EXCEPT !.errors = {"current"}, !.changing = FALSE]
                         ELSE pwDialog
        /\ account' = [account EXCEPT !.strange = @ \/ (s.own /\ s.done)]
  BY DEF SaveFails
<1>2. UNCHANGED <<known, loads>>
  BY DEF SaveFails
<1>3. /\ s \in Save /\ form \in FormType /\ pwDialog \in PwType
      /\ account \in [details : Values, password : Passwords, strange : BOOLEAN]
  BY DEF ProfileInv, ProfileTyped
<1>4. /\ account' \in [details : Values, password : Passwords, strange : BOOLEAN]
      /\ account'.details = account.details
      /\ ~account'.strange => ~account.strange /\ ~(s.own /\ s.done)
  <2> DEFINE b == account.strange \/ (s.own /\ s.done)
  <2>1. account' = [account EXCEPT !.strange = b] /\ b \in BOOLEAN
    BY <1>1
  <2>2. account'.strange = b /\ account'.details = account.details
    BY <1>3, <2>1
  <2>3. account' \in [details : Values, password : Passwords, strange : BOOLEAN]
    <3> HIDE DEF b
    <3> QED BY <1>3, <2>1
  <2> QED BY <2>2, <2>3
<1>5. /\ form' \in FormType /\ form'.on = form.on /\ form'.loading = form.loading
      /\ form'.me = form.me /\ form'.orig = form.orig
      /\ IF s.own /\ s.op = "save" THEN ~form'.saving ELSE form' = form
  BY <1>1, <1>3 DEF FormType
<1>6. /\ pwDialog' \in PwType
      /\ IF s.own /\ s.op = "password" THEN ~pwDialog'.changing ELSE pwDialog' = pwDialog
  BY <1>1, <1>3 DEF PwType
<1>7. OwnSaves' /\ PageRests'
  <2>1. Freed(s)
    BY <1>1, <1>2, <1>5, <1>6 DEF Freed
  <2> QED BY <2>1, FreedOwn
<1>8. ProfileTyped'
  BY <1>1, <1>2, <1>4, <1>5, <1>6 DEF ProfileInv, ProfileTyped
<1>9. Agreement'
  <2> SUFFICES ASSUME ~account'.strange PROVE Agreement'
    BY DEF Agreement
  <2>1. s.own /\ ~s.done /\ ~account.strange
    BY <1>4 DEF ProfileInv, Agreement
  <2>2. (\A t \in saves' : t.op = "save" => ~t.done) => \A t \in saves : t.op = "save" => ~t.done
    BY <1>1, <2>1
  <2> QED BY <1>1, <1>2, <1>4, <1>5, <2>1, <2>2 DEF ProfileInv, Agreement
<1> QED BY <1>7, <1>8, <1>9 DEF ProfileInv

LEMMA ProfileStep == ProfileInv /\ [ProfileNext]_profileVars => ProfileInv'
<1> SUFFICES ASSUME ProfileInv, [ProfileNext]_profileVars PROVE ProfileInv'
  OBVIOUS
<1>1. CASE UNCHANGED profileVars
  BY <1>1 DEF profileVars, ProfileInv, ProfileTyped, OwnSaves, PageRests, Agreement
<1>2. CASE ProfileNext
  BY <1>2, PageComesAndGoes, QuietProfile, SendingKeeps, ExecuteKeeps, AnsweredKeeps, FailedKeeps
  DEF ProfileNext
<1> QED BY <1>1, <1>2

LEMMA ProfileInvSuffices == ProfileInv => ProfileTypeOK /\ ProfileSound
<1> SUFFICES ASSUME ProfileInv PROVE ProfileTypeOK /\ ProfileSound
  OBVIOUS
<1>1. ProfileTypeOK
  BY DEF ProfileInv, ProfileTyped, ProfileTypeOK, FormType, PwType, ShowError, FormValid
<1>2. OneSaveAtATime
  <2> SUFFICES ASSUME NEW op \in {"save", "password"}
               PROVE  /\ Cardinality({s \in saves : s.own /\ s.op = op}) <= 1
                      /\ (IF op = "save" THEN form.saving ELSE pwDialog.changing)
                           <=> {s \in saves : s.own /\ s.op = op} # {}
    BY DEF OneSaveAtATime
  <2>1. Cardinality({s \in saves : s.own /\ s.op = op}) <= 1
    <3> DEFINE own == {s \in saves : s.own /\ s.op = op}
    <3>1. \A s, t \in own : s = t
      BY DEF ProfileInv, OwnSaves
    <3> HIDE DEF own
    <3>2. Cardinality(own) <= 1
      BY <3>1, AtMostOne
    <3> QED BY <3>2 DEF own
  <2>2. (IF op = "save" THEN form.saving ELSE pwDialog.changing)
          <=> \E s \in saves : s.own /\ s.op = op
    BY DEF ProfileInv, OwnSaves
  <2> QED BY <2>1, <2>2
<1>3. DetailsAgree
  <2> SUFFICES ASSUME form.on, ~form.loading, form.me # Nothing, ~account.strange
               PROVE  /\ form.orig = form.me /\ known = form.me
                      /\ ~form.saving => form.me = account.details
    BY DEF DetailsAgree
  <2>1. ~form.saving => \A s \in saves : s.op # "save"
    BY DEF ProfileInv, OwnSaves, Agreement
  <2> QED BY <2>1 DEF ProfileInv, Agreement
<1> QED BY <1>1, <1>2, <1>3 DEF ProfileSound

(* For any details and passwords, the profile page waits exactly while one  *)
(* request of its own is under way, and at rest agrees with the server,     *)
(* unless it was left during a save (even if by then a query it joins later *)
(* had read the details) or an answer was lost.                             *)
THEOREM ProfileIsSound == ProfileSpec => [](ProfileTypeOK /\ ProfileSound)
<1>1. ProfileSpec => []ProfileInv
  BY ProfileInvInit, ProfileStep, PTL DEF ProfileSpec
<1> QED BY <1>1, ProfileInvSuffices, PTL
-----------------------------------------------------------------------------
(***************************************************************************)
(* The toasts.                                                             *)
(***************************************************************************)

(* A sequence without its i-th member.                                      *)
LEMMA Removed ==
  ASSUME NEW S, NEW s \in Seq(S), NEW i \in DOMAIN s
  PROVE  /\ RemoveAt(s, i) \in Seq(S) /\ Len(RemoveAt(s, i)) = Len(s) - 1
         /\ DOMAIN RemoveAt(s, i) = 1..(Len(s) - 1) /\ Len(s) \in Nat \ {0}
         /\ \A j \in 1..(Len(s) - 1) :
              RemoveAt(s, i)[j] = IF j < i THEN s[j] ELSE s[j + 1]
<1>1. Len(s) \in Nat /\ DOMAIN s = 1..Len(s) /\ \A j \in 1..Len(s) : s[j] \in S
  BY LenProperties, ElementOfSeq
<1>2. i \in 1..Len(s) /\ i - 1 \in Int /\ i + 1 \in Int /\ 1 \in Int
  BY <1>1
<1> DEFINE a == SubSeq(s, 1, i - 1)
           b == SubSeq(s, i + 1, Len(s))
<1>3. /\ a \in Seq(S) /\ Len(a) = i - 1
      /\ \A j \in 1..(i - 1) : a[j] = s[j]
  <2>1. \A j \in 1..(i - 1) : s[j] \in S
    BY <1>1, <1>2
  <2>2. /\ SubSeq(s, 1, i - 1) \in Seq(S)
        /\ Len(SubSeq(s, 1, i - 1)) = IF 1 <= i - 1 THEN (i - 1) - 1 + 1 ELSE 0
        /\ \A j \in 1..((i - 1) - 1 + 1) : SubSeq(s, 1, i - 1)[j] = s[1 + j - 1]
    BY <1>2, <2>1, SubSeqProperties
  <2> QED BY <1>1, <1>2, <2>2
<1>4. /\ b \in Seq(S) /\ Len(b) = Len(s) - i
      /\ \A j \in 1..(Len(s) - i) : b[j] = s[j + i]
  <2>1. \A j \in (i + 1)..Len(s) : s[j] \in S
    BY <1>1, <1>2
  <2>2. /\ SubSeq(s, i + 1, Len(s)) \in Seq(S)
        /\ Len(SubSeq(s, i + 1, Len(s))) = IF i + 1 <= Len(s) THEN Len(s) - (i + 1) + 1 ELSE 0
        /\ \A j \in 1..(Len(s) - (i + 1) + 1) : SubSeq(s, i + 1, Len(s))[j] = s[(i + 1) + j - 1]
    BY <1>1, <1>2, <2>1, SubSeqProperties
  <2>3. Len(b) = Len(s) - i
    <3>1. Len(b) = IF i + 1 <= Len(s) THEN Len(s) - (i + 1) + 1 ELSE 0
      BY <2>2
    <3> HIDE DEF b
    <3> QED BY <1>1, <1>2, <3>1
  <2>4. ASSUME NEW j \in 1..(Len(s) - i) PROVE b[j] = s[j + i]
    <3>1. j \in 1..(Len(s) - (i + 1) + 1) /\ (i + 1) + j - 1 = j + i
      BY <1>1, <1>2
    <3> QED BY <2>2, <3>1
  <2> QED BY <2>2, <2>3, <2>4
<1> HIDE DEF a, b
<1>5. RemoveAt(s, i) = a \o b
  BY DEF RemoveAt, a, b
<1>6. /\ a \o b \in Seq(S) /\ Len(a \o b) = Len(a) + Len(b)
      /\ \A j \in 1..(Len(a) + Len(b)) :
           (a \o b)[j] = IF j <= Len(a) THEN a[j] ELSE b[j - Len(a)]
  BY <1>3, <1>4, ConcatProperties
<1>7. Len(a) + Len(b) = Len(s) - 1
  BY <1>1, <1>2, <1>3, <1>4
<1>8. ASSUME NEW j \in 1..(Len(s) - 1)
      PROVE  (a \o b)[j] = IF j < i THEN s[j] ELSE s[j + 1]
  <2>1. CASE j < i
    <3>1. j \in 1..(i - 1) /\ j <= Len(a)
      BY <1>2, <1>3, <2>1
    <3> QED BY <1>3, <1>6, <1>7, <2>1, <3>1
  <2>2. CASE ~(j < i)
    <3>1. j - (i - 1) \in 1..(Len(s) - i) /\ ~(j <= Len(a)) /\ (j - (i - 1)) + i = j + 1
      BY <1>1, <1>2, <1>3, <2>2
    <3>2. b[j - (i - 1)] = s[j + 1]
      BY <1>4, <3>1
    <3> QED BY <1>3, <1>6, <1>7, <2>2, <3>1, <3>2
  <2> QED BY <2>1, <2>2
<1>9. DOMAIN (a \o b) = 1..Len(a \o b)
  BY <1>6, LenProperties
<1>10. Len(s) \in Nat \ {0}
  BY <1>1, <1>2
<1> QED BY <1>5, <1>6, <1>7, <1>8, <1>9, <1>10

Toast == [id : 1..MaxToasts, message : Messages, hiding : BOOLEAN]

ToastInv ==
  /\ toasts \in Seq(Toast) /\ idSeq \in 0..MaxToasts
  /\ timers \in SUBSET [id : 1..MaxToasts, kind : {"ttl", "exit"}]
  /\ ToastsKept
  /\ \A i \in DOMAIN toasts : toasts[i].id <= idSeq

(* The timer the toast on the screen has.                                   *)
TimerOf(t) == [id |-> t.id, kind |-> IF t.hiding THEN "exit" ELSE "ttl"]

LEMMA ToastFields ==
  ASSUME ToastInv
  PROVE  /\ Len(toasts) \in Nat /\ DOMAIN toasts = 1..Len(toasts)
         /\ \A i \in DOMAIN toasts : toasts[i] \in Toast
         /\ \A i \in DOMAIN toasts : TimerOf(toasts[i]) \in timers
         /\ \A i, j \in DOMAIN toasts : toasts[i].id = toasts[j].id => i = j
<1>1. Len(toasts) \in Nat /\ DOMAIN toasts = 1..Len(toasts)
  BY LenProperties DEF ToastInv
<1>2. \A i \in DOMAIN toasts : toasts[i] \in Toast /\ toasts[i].id \in Nat
  <2>1. \A i \in DOMAIN toasts : toasts[i] \in Toast
    BY <1>1, ElementOfSeq DEF ToastInv
  <2> QED BY <2>1 DEF Toast
<1>3. \A i, j \in DOMAIN toasts : toasts[i].id = toasts[j].id => i = j
  <2> SUFFICES ASSUME NEW i \in DOMAIN toasts, NEW j \in DOMAIN toasts,
                      toasts[i].id = toasts[j].id, i # j
               PROVE  FALSE
    OBVIOUS
  <2>1. i < j \/ j < i
    BY <1>1
  <2> QED BY <1>2, <2>1 DEF ToastInv, ToastsKept
<1> QED BY <1>1, <1>2, <1>3 DEF ToastInv, ToastsKept, TimerOf

(* A toast fades out: the others keep their timers.                         *)
LEMMA DismissKeeps ==
  ASSUME ToastInv, NEW id \in 1..MaxToasts, NEW left \in SUBSET timers,
         \A t \in timers : t = [id |-> id, kind |-> "ttl"] \/ t \in left,
         Dismiss(id, left), idSeq' = idSeq
  PROVE  ToastInv'
<1>1. /\ DOMAIN toasts' = DOMAIN toasts
      /\ \A i \in DOMAIN toasts :
           toasts'[i] = IF toasts[i].id = id THEN [toasts[i] EXCEPT !.hiding = TRUE] ELSE toasts[i]
  BY DEF Dismiss, Hidden
<1>2. ASSUME NEW i \in DOMAIN toasts
      PROVE  /\ toasts'[i] \in Toast /\ toasts'[i].id = toasts[i].id
             /\ toasts'[i].message = toasts[i].message
             /\ IF toasts[i].id = id THEN toasts'[i].hiding ELSE toasts'[i] = toasts[i]
  <2>1. toasts[i] \in Toast
    BY ToastFields
  <2> QED BY <1>1, <2>1 DEF Toast
<1>3. toasts' \in Seq(Toast) /\ Len(toasts') = Len(toasts)
  <2>1. toasts' \in [1..Len(toasts) -> Toast]
    BY <1>2, ToastFields DEF Dismiss, Hidden
  <2> QED BY <2>1, ToastFields, SeqDef, LenProperties
<1>4. timers' = left \union {[id |-> id, kind |-> "exit"]}
  BY DEF Dismiss
<1>5. timers' \in SUBSET [id : 1..MaxToasts, kind : {"ttl", "exit"}]
  BY <1>4 DEF ToastInv
<1>6. ASSUME NEW i \in DOMAIN toasts PROVE TimerOf(toasts'[i]) \in timers'
  <2>1. CASE toasts[i].id = id
    BY <1>2, <1>4, <2>1 DEF TimerOf
  <2>2. CASE toasts[i].id # id
    <3>1. TimerOf(toasts[i]) \in timers /\ TimerOf(toasts[i]).id # id
      BY <2>2, ToastFields DEF TimerOf
    <3>2. TimerOf(toasts[i]) \in left
      BY <3>1
    <3> QED BY <1>2, <1>4, <2>2, <3>2
  <2> QED BY <2>1, <2>2
<1>7. ToastsKept'
  BY <1>1, <1>2, <1>3, <1>6 DEF ToastInv, ToastsKept, TimerOf
<1> QED BY <1>1, <1>2, <1>3, <1>5, <1>7 DEF ToastInv

(* A toast leaves the screen, if it was still there.                        *)
LEMMA ExitKeeps ==
  ASSUME ToastInv, NEW id \in 1..MaxToasts, ExitFires(id)
  PROVE  ToastInv'
<1>1. /\ timers' = timers \ {[id |-> id, kind |-> "exit"]} /\ toasts' = Without(id) /\ idSeq' = idSeq
  BY DEF ExitFires
<1>2. timers' \in SUBSET [id : 1..MaxToasts, kind : {"ttl", "exit"}]
  BY <1>1 DEF ToastInv
<1>3. \A t \in Toast : t.id # id /\ TimerOf(t) \in timers => TimerOf(t) \in timers'
  BY <1>1 DEF TimerOf
<1>4. CASE id \notin Ids
  <2>1. toasts' = toasts /\ \A i \in DOMAIN toasts : toasts[i].id # id
    BY <1>1, <1>4 DEF Without, Ids
  <2>2. \A i \in DOMAIN toasts : TimerOf(toasts'[i]) \in timers'
    BY <1>3, <2>1, ToastFields
  <2> QED BY <1>1, <1>2, <2>1, <2>2 DEF ToastInv, ToastsKept, TimerOf
<1>5. CASE id \in Ids
  <2> DEFINE gone == CHOOSE i \in DOMAIN toasts : toasts[i].id = id
  <2>1. gone \in DOMAIN toasts /\ toasts[gone].id = id
    BY <1>5 DEF Ids
  <2>2. toasts' = RemoveAt(toasts, gone)
    BY <1>1, <1>5 DEF Without
  <2> HIDE DEF gone
  <2>3. /\ toasts' \in Seq(Toast) /\ Len(toasts') = Len(toasts) - 1
        /\ DOMAIN toasts' = 1..(Len(toasts) - 1) /\ Len(toasts) \in Nat \ {0}
        /\ \A j \in 1..(Len(toasts) - 1) :
             toasts'[j] = IF j < gone THEN toasts[j] ELSE toasts[j + 1]
    BY <2>1, <2>2, Removed DEF ToastInv
  <2> DEFINE was(j) == IF j < gone THEN j ELSE j + 1
  <2>4. ASSUME NEW j \in DOMAIN toasts'
        PROVE  was(j) \in DOMAIN toasts /\ was(j) # gone /\ toasts'[j] = toasts[was(j)]
    <3>1. gone \in 1..Len(toasts) /\ j \in 1..(Len(toasts) - 1) /\ DOMAIN toasts = 1..Len(toasts)
      BY <2>1, <2>3, ToastFields
    <3> QED BY <2>3, <3>1
  <2>5. \A i, j \in DOMAIN toasts' : i < j => was(i) < was(j)
    <3>1. gone \in Nat
      BY <2>1, ToastFields
    <3> QED BY <2>3, <3>1
  <2> HIDE DEF was
  <2>6. ASSUME NEW j \in DOMAIN toasts' PROVE TimerOf(toasts'[j]) \in timers'
    <3>1. toasts[was(j)].id # id
      BY <2>1, <2>4, ToastFields
    <3> QED BY <1>3, <2>4, <3>1, ToastFields
  <2>7. ToastsKept'
    <3>1. Len(toasts') <= MaxVisible
      BY <2>3, ToastsAssumption DEF ToastInv, ToastsKept
    <3>2. \A i, j \in DOMAIN toasts' : i < j => /\ toasts'[i].message # toasts'[j].message
                                               /\ toasts'[i].id < toasts'[j].id
      BY <2>4, <2>5 DEF ToastInv, ToastsKept
    <3> QED BY <2>6, <3>1, <3>2 DEF ToastsKept, TimerOf
  <2>8. \A j \in DOMAIN toasts' : toasts'[j].id <= idSeq
    BY <2>4 DEF ToastInv
  <2> QED BY <1>1, <1>2, <2>3, <2>7, <2>8 DEF ToastInv
<1> QED BY <1>4, <1>5
(* A toast comes up; the oldest makes room for it.                          *)
LEMMA AddKeeps ==
  ASSUME ToastInv, NEW message \in Messages \union Noise, Push(message)
  PROVE  ToastInv'
<1>1. /\ message \in Messages /\ \A i \in DOMAIN toasts : toasts[i].message # message
      /\ idSeq < MaxToasts /\ idSeq' = idSeq + 1
      /\ toasts' = Append(Trimmed, [id |-> idSeq', message |-> message, hiding |-> FALSE])
      /\ timers' = timers \union {[id |-> idSeq', kind |-> "ttl"]}
  BY DEF Push, Add
<1>2. idSeq \in 0..MaxToasts /\ idSeq' \in 1..MaxToasts
  BY <1>1, ToastsAssumption DEF ToastInv
<1> DEFINE t == [id |-> idSeq', message |-> message, hiding |-> FALSE]
<1>3. /\ t \in Toast /\ t.id = idSeq' /\ t.message = message
      /\ TimerOf(t) = [id |-> idSeq', kind |-> "ttl"]
  BY <1>1, <1>2 DEF Toast, TimerOf
<1>4. toasts' = Append(Trimmed, t)
  BY <1>1
<1> HIDE DEF t
<1>5. PICK k \in {0, 1} :
        /\ Trimmed \in Seq(Toast) /\ Len(Trimmed) = Len(toasts) - k /\ Len(Trimmed) \in Nat
        /\ \A i \in 1..Len(Trimmed) : Trimmed[i] = toasts[i + k] /\ i + k \in DOMAIN toasts
        /\ Len(Trimmed) < MaxVisible
  <2>1. Len(toasts) <= MaxVisible /\ MaxVisible \in Nat \ {0} /\ Len(toasts) \in Nat
    BY ToastsAssumption, ToastFields DEF ToastInv, ToastsKept
  <2>2. CASE Len(toasts) >= MaxVisible
    <3>1. toasts \in Seq(Toast) /\ toasts # <<>>
      BY <2>1, <2>2, EmptySeq DEF ToastInv
    <3>2. /\ Tail(toasts) \in Seq(Toast) /\ Len(Tail(toasts)) = Len(toasts) - 1
          /\ \A i \in 1..Len(Tail(toasts)) : Tail(toasts)[i] = toasts[i + 1]
      BY <3>1, HeadTailProperties
    <3>3. Trimmed = Tail(toasts)
      BY <2>2 DEF Trimmed
    <3>4. Len(Trimmed) = Len(toasts) - 1 /\ Len(Trimmed) \in Nat /\ Len(Trimmed) < MaxVisible
      BY <2>1, <2>2, <3>2, <3>3
    <3>5. \A i \in 1..Len(Trimmed) : i + 1 \in DOMAIN toasts
      BY <2>1, <3>4, ToastFields
    <3> QED BY <3>2, <3>3, <3>4, <3>5
  <2>3. CASE ~(Len(toasts) >= MaxVisible)
    <3>1. Trimmed = toasts
      BY <2>3 DEF Trimmed
    <3>2. \A i \in 1..Len(toasts) : i + 0 = i /\ i \in DOMAIN toasts
      BY ToastFields
    <3> QED BY <2>1, <2>3, <3>1, <3>2 DEF ToastInv
  <2> QED BY <2>2, <2>3
<1>6. /\ toasts' \in Seq(Toast) /\ Len(toasts') = Len(Trimmed) + 1
      /\ \A i \in 1..Len(Trimmed) : toasts'[i] = Trimmed[i]
      /\ toasts'[Len(Trimmed) + 1] = t
  BY <1>3, <1>4, <1>5, AppendProperties
<1>7. DOMAIN toasts' = 1..(Len(Trimmed) + 1)
  BY <1>6, LenProperties
<1>8. ASSUME NEW i \in DOMAIN toasts'
      PROVE  \/ i \in 1..Len(Trimmed) /\ i + k \in DOMAIN toasts /\ toasts'[i] = toasts[i + k]
             \/ i = Len(Trimmed) + 1 /\ toasts'[i] = t
  <2>1. i \in 1..Len(Trimmed) \/ i = Len(Trimmed) + 1
    BY <1>5, <1>7
  <2> QED BY <1>5, <1>6, <2>1
<1>9. ASSUME NEW i \in DOMAIN toasts', NEW j \in DOMAIN toasts', i < j
      PROVE  toasts'[i].message # toasts'[j].message /\ toasts'[i].id < toasts'[j].id
  <2>1. i \in 1..Len(Trimmed) /\ i + k \in DOMAIN toasts /\ toasts'[i] = toasts[i + k]
    BY <1>5, <1>7, <1>8, <1>9
  <2>2. CASE j \in 1..Len(Trimmed)
    <3>1. j + k \in DOMAIN toasts /\ toasts'[j] = toasts[j + k]
      BY <1>5, <1>6, <2>2
    <3>2. i + k < j + k
      BY <1>5, <1>9, <2>1, <2>2
    <3> QED BY <2>1, <3>1, <3>2 DEF ToastInv, ToastsKept
  <2>3. CASE j = Len(Trimmed) + 1
    <3>1. toasts'[j] = t /\ toasts[i + k].id <= idSeq /\ toasts[i + k] \in Toast
      BY <1>6, <2>1, <2>3, ToastFields DEF ToastInv
    <3>2. toasts[i + k].id < idSeq'
      BY <1>1, <1>2, <3>1 DEF Toast
    <3> QED BY <1>1, <1>3, <2>1, <3>1, <3>2
  <2> QED BY <1>8, <2>2, <2>3
<1>10. \A i \in DOMAIN toasts' : TimerOf(toasts'[i]) \in timers'
  BY <1>1, <1>3, <1>8, ToastFields
<1>11. \A i \in DOMAIN toasts' : toasts'[i].id <= idSeq'
  <2>1. ASSUME NEW i \in DOMAIN toasts PROVE toasts[i].id <= idSeq'
    <3>1. toasts[i].id <= idSeq /\ toasts[i].id \in Nat
      BY ToastFields DEF ToastInv, Toast
    <3> QED BY <1>1, <1>2, <3>1
  <2>2. t.id <= idSeq'
    BY <1>2, <1>3
  <2> QED BY <1>8, <2>1, <2>2
<1>12. timers' \in SUBSET [id : 1..MaxToasts, kind : {"ttl", "exit"}]
  <2>1. [id |-> idSeq', kind |-> "ttl"] \in [id : 1..MaxToasts, kind : {"ttl", "exit"}]
    BY <1>2
  <2> QED BY <1>1, <2>1 DEF ToastInv
<1>13. Len(toasts') <= MaxVisible
  BY <1>5, <1>6, ToastsAssumption
<1>14. ToastsKept'
  BY <1>9, <1>10, <1>13 DEF ToastsKept, TimerOf
<1> QED BY <1>2, <1>6, <1>11, <1>12, <1>14 DEF ToastInv

LEMMA ToastInvInit == ToastInit => ToastInv
BY EmptySeq, ToastsAssumption DEF ToastInit, ToastInv, ToastsKept

LEMMA ToastStep == ToastInv /\ [ToastNext]_toastVars => ToastInv'
<1> SUFFICES ASSUME ToastInv, [ToastNext]_toastVars PROVE ToastInv'
  OBVIOUS
<1>1. CASE UNCHANGED toastVars
  BY <1>1 DEF toastVars, ToastInv, ToastsKept
<1>2. ASSUME NEW id \in 1..MaxToasts, CloseToast(id) PROVE ToastInv'
  <2>1. Dismiss(id, timers) /\ idSeq' = idSeq
    BY <1>2 DEF CloseToast
  <2> QED BY <2>1, DismissKeeps
<1>3. ASSUME NEW id \in 1..MaxToasts, TtlFires(id) PROVE ToastInv'
  <2> DEFINE left == timers \ {[id |-> id, kind |-> "ttl"]}
  <2>1. Dismiss(id, left) /\ idSeq' = idSeq /\ left \in SUBSET timers
    BY <1>3 DEF TtlFires
  <2>2. \A t \in timers : t = [id |-> id, kind |-> "ttl"] \/ t \in left
    OBVIOUS
  <2> HIDE DEF left
  <2> QED BY <2>1, <2>2, DismissKeeps
<1> QED BY <1>1, <1>2, <1>3, AddKeeps, ExitKeeps DEF ToastNext

LEMMA ToastInvSuffices == ToastInv => ToastTypeOK /\ ToastsKept
<1>1. ToastInv => \A i \in DOMAIN toasts : toasts[i].message \in Messages
  BY ToastFields DEF Toast
<1> QED BY <1>1 DEF ToastInv, ToastTypeOK

(* For any messages and any cap, the stack of toasts stays within the cap,  *)
(* in order, without repetition, and each toast has a timer running.        *)
THEOREM ToastsAreKept == ToastSpec => [](ToastTypeOK /\ ToastsKept)
<1>1. ToastSpec => []ToastInv
  BY ToastInvInit, ToastStep, PTL DEF ToastSpec
<1> QED BY <1>1, ToastInvSuffices, PTL
-----------------------------------------------------------------------------
(***************************************************************************)
(* The pages of a stack, a service and a task.                             *)
(***************************************************************************)

Data ==
  [v : 0..MaxVersion, there : BOOLEAN, left : SUBSET Belongings, total : {0, 1},
   task : [Services -> TaskStatus]]

Query == [pc : {"sent", "read"}, data : Data]

Component ==
  [on : BOOLEAN, loading : BOOLEAN, shown : [Parts -> Data], menu : BOOLEAN,
   busy : BOOLEAN, scaling : BOOLEAN, timers : 0..2, newest : [Parts -> 0..MaxVersion],
   owed : 0..MaxVersion, excused : BOOLEAN]

Mutation ==
  [op : {"redeploy", "rollback", "deactivate", "reactivate", "remove", "scale0", "scale1"},
   own : BOOLEAN, pc : {"sent", "done"}, at : 0..MaxVersion]

DetailTyped ==
  /\ cluster \in Data /\ details \in Component
  /\ asked \in [Parts -> SUBSET Query] /\ mutations \in SUBSET Mutation
  /\ chart \in [range : Ranges, shown : Ranges \union {"none"}, asked : Seq(Ranges),
                mixed : BOOLEAN]
  /\ ~details.on => details = Closed

LEMMA ClosedComponent ==
  /\ Absent \in Data /\ Absent.v = 0 /\ Sent \in Query /\ Sent.pc = "sent"
  /\ Closed \in Component /\ ~Closed.on /\ ~Closed.busy /\ ~Closed.menu /\ ~Closed.scaling
  /\ \A q \in Parts : Closed.newest[q] = 0 /\ Closed.shown[q] = Absent
<1>1. 0 \in 0..MaxVersion /\ 0 \in 0..2 /\ {} \in SUBSET Belongings
  BY MaxVersionAssumption
<1>2. [s \in Services |-> "none"] \in [Services -> TaskStatus]
  BY DEF TaskStatus
<1>3. Absent \in Data /\ Absent.v = 0
  BY <1>1, <1>2 DEF Absent, Data
<1>4. Sent \in Query /\ Sent.pc = "sent"
  BY <1>3 DEF Sent, Query
<1>5. [q \in Parts |-> Absent] \in [Parts -> Data] /\ [q \in Parts |-> 0] \in [Parts -> 0..MaxVersion]
  BY <1>1, <1>3
<1>6. Closed \in Component
  BY <1>1, <1>5 DEF Closed, Component
<1>7. /\ ~Closed.on /\ ~Closed.busy /\ ~Closed.menu /\ ~Closed.scaling
      /\ Closed.newest = [q \in Parts |-> 0] /\ Closed.shown = [q \in Parts |-> Absent]
  BY DEF Closed
<1> QED BY <1>3, <1>4, <1>6, <1>7

LEMMA WriteTyped ==
  ASSUME DetailTyped, NEW there \in BOOLEAN, NEW total \in {0, 1},
         NEW task \in [Services -> TaskStatus], Write(there, total, task)
  PROVE  cluster' \in Data /\ cluster'.v = cluster.v + 1 /\ cluster.v + 1 \in 0..MaxVersion
<1>1. /\ cluster.v < MaxVersion /\ cluster.v \in 0..MaxVersion /\ cluster.left \in SUBSET Belongings
      /\ cluster' = [v |-> cluster.v + 1, there |-> there, total |-> total, task |-> task,
                     left |-> IF there THEN cluster.left ELSE cluster.left \ {"networks"}]
  BY DEF Write, DetailTyped, Data
<1>2. cluster.v + 1 \in 0..MaxVersion
  BY <1>1, MaxVersionAssumption
<1>3. (IF there THEN cluster.left ELSE cluster.left \ {"networks"}) \in SUBSET Belongings
  BY <1>1
<1> QED BY <1>1, <1>2, <1>3 DEF Data

LEMMA WatchingTyped ==
  ASSUME NEW p \in Component, NEW d \in Watching(p), p.on
  PROVE  /\ d \in Component /\ d.on /\ d.menu = p.menu /\ d.busy = p.busy /\ d.scaling = p.scaling
         /\ d.newest = p.newest
         /\ \A q \in Parts : d.shown[q] \in {p.shown[q], Absent}
<1>1. CASE d = p
  BY <1>1
<1>2. CASE d = [p EXCEPT !.loading = FALSE, !.shown["main"] = Absent]
  <2> DEFINE sh == [p.shown EXCEPT !["main"] = Absent]
  <2>1. sh \in [Parts -> Data] /\ \A q \in Parts : sh[q] \in {p.shown[q], Absent}
    BY ClosedComponent DEF Component, Parts
  <2> HIDE DEF sh
  <2>2. d = [p EXCEPT !.loading = FALSE, !.shown = sh]
    BY <1>2 DEF sh, Component
  <2> QED BY <2>1, <2>2 DEF Component
<1> QED BY <1>1, <1>2 DEF Watching

LEMMA AskTyped ==
  ASSUME DetailTyped, NEW qs, Ask(qs)
  PROVE  /\ asked' \in [Parts -> SUBSET Query]
         /\ \A q \in Parts : asked'[q] = asked[q] \/ (asked[q] = {} /\ asked'[q] = {Sent})
<1>1. \A q \in Parts : (IF q \in qs /\ asked[q] = {} THEN {Sent} ELSE asked[q]) \in SUBSET Query
  BY ClosedComponent DEF DetailTyped
<1> QED BY <1>1 DEF Ask

LEMMA StatsTyped ==
  ASSUME DetailTyped, NEW range \in Ranges
  PROVE  LoadStats(range) \in [range : Ranges, shown : Ranges \union {"none"}, asked : Seq(Ranges),
                               mixed : BOOLEAN]
<1> DEFINE joined == \E i \in DOMAIN chart.asked : chart.asked[i] = range
           more == IF joined THEN chart.asked ELSE Append(chart.asked, range)
           mix == (chart.mixed /\ chart.asked # <<>>) \/ joined
<1>1. more \in Seq(Ranges) /\ mix \in BOOLEAN
  BY AppendProperties DEF DetailTyped
<1>2. LoadStats(range) = [chart EXCEPT !.range = range, !.asked = more, !.mixed = mix]
  BY DEF LoadStats
<1> HIDE DEF more, mix
<1> QED BY <1>1, <1>2 DEF DetailTyped
(* A query in flight is unanswered, or has read a state no older than what  *)
(* is shown, which is the newest shown, or nothing.                         *)
FreshInv ==
  /\ \A q \in Parts : details.newest[q] <= cluster.v
  /\ \A q \in Parts : details.shown[q].v \in {0, details.newest[q]}
  /\ \A q \in Parts : \A x, y \in asked[q] : x = y
  /\ \A q \in Parts : \A x \in asked[q] :
       x = Sent \/ (x.pc = "read" /\ details.newest[q] <= x.data.v /\ x.data.v <= cluster.v)

RequestsInv ==
  /\ \A m, n \in mutations : m.own /\ n.own => m = n
  /\ details.busy <=> \E m \in mutations : m.own
  /\ details.menu => ~details.busy /\ ~details.scaling

(* While nothing is mixed, the query sent last is the one for the range     *)
(* chosen, or the range chosen is shown.                                    *)
ChartInv ==
  ~chart.mixed =>
    IF chart.asked = <<>> THEN details.on /\ kind # "service" => chart.shown = chart.range
    ELSE chart.asked[Len(chart.asked)] = chart.range

DetailInv == DetailTyped /\ FreshInv /\ RequestsInv /\ ChartInv

LEMMA DetailInvInit == DetailInit => DetailInv
<1> SUFFICES ASSUME DetailInit PROVE DetailInv
  OBVIOUS
<1>1. cluster \in Data
  BY MaxVersionAssumption DEF DetailInit, Data, TaskStatus
<1>2. /\ details = Closed /\ asked = [q \in Parts |-> {}] /\ mutations = {} /\ chart = NoChart
  BY DEF DetailInit
<1>3. chart \in [range : Ranges, shown : Ranges \union {"none"}, asked : Seq(Ranges),
                 mixed : BOOLEAN]
  <2>1. <<>> \in Seq(Ranges)
    BY EmptySeq
  <2> QED BY <1>2, <2>1 DEF NoChart, Ranges
<1>4. DetailTyped
  BY <1>1, <1>2, <1>3, ClosedComponent DEF DetailTyped
<1>5. FreshInv
  BY <1>1, <1>2, ClosedComponent DEF FreshInv, Data
<1>6. RequestsInv
  BY <1>2, ClosedComponent DEF RequestsInv
<1>7. ChartInv
  BY <1>2, ClosedComponent DEF ChartInv, NoChart
<1> QED BY <1>4, <1>5, <1>6, <1>7 DEF DetailInv

(* The menu, the dialog and the answers change no data on the page.         *)
Calm ==
  /\ UNCHANGED <<cluster, kind, asked, chart>>
  /\ details.on /\ details' \in Component /\ details'.on
  /\ details'.shown = details.shown /\ details'.newest = details.newest

LEMMA CalmKeeps ==
  ASSUME DetailInv, Calm, mutations' \in SUBSET Mutation, RequestsInv'
  PROVE  DetailInv'
<1>1. DetailTyped'
  BY DEF DetailInv, DetailTyped, Calm
<1>2. FreshInv'
  BY DEF DetailInv, FreshInv, Calm
<1>3. ChartInv'
  BY DEF DetailInv, ChartInv, Calm
<1> QED BY <1>1, <1>2, <1>3 DEF DetailInv

MenuTo(wanted, scaling) ==
  /\ details.on /\ UNCHANGED <<cluster, kind, asked, chart, mutations>>
  /\ details' = [details EXCEPT !.menu = wanted, !.scaling = scaling]

LEMMA MenuKeeps ==
  ASSUME DetailInv, NEW wanted \in BOOLEAN, NEW scaling \in BOOLEAN, MenuTo(wanted, scaling),
         wanted => ~details.busy /\ ~scaling
  PROVE  DetailInv'
<1> USE DEF MenuTo
<1>1. details \in Component
  BY DEF DetailInv, DetailTyped
<1>2. /\ Calm /\ details'.menu = wanted /\ details'.scaling = scaling /\ details'.busy = details.busy
  BY <1>1 DEF Calm, Component
<1>3. RequestsInv'
  BY <1>2 DEF DetailInv, RequestsInv
<1> QED BY <1>2, <1>3, CalmKeeps DEF DetailInv, DetailTyped

LEMMA SendKeeps ==
  ASSUME DetailInv, details.on, UNCHANGED <<cluster, kind, asked, chart>>, ~details.busy,
         details' = [details EXCEPT !.menu = FALSE, !.busy = TRUE],
         NEW op \in {"redeploy", "rollback", "deactivate", "reactivate", "remove",
                     "scale0", "scale1"},
         Mutate(op)
  PROVE  DetailInv'
<1>1. details \in Component
  BY DEF DetailInv, DetailTyped
<1>2. Calm /\ ~details'.menu /\ details'.busy
  BY <1>1 DEF Calm, Component
<1> DEFINE m == [op |-> op, own |-> TRUE, pc |-> "sent", at |-> 0]
<1>3. m \in Mutation /\ m.own
  BY MaxVersionAssumption DEF Mutation
<1>4. mutations' = mutations \union {m}
  BY DEF Mutate
<1> HIDE DEF m
<1>5. \A n \in mutations : ~n.own
  BY DEF DetailInv, RequestsInv
<1>6. RequestsInv'
  BY <1>2, <1>3, <1>4, <1>5 DEF RequestsInv
<1> QED BY <1>2, <1>3, <1>4, <1>6, CalmKeeps DEF DetailInv, DetailTyped

LEMMA ChoiceKeeps ==
  ASSUME DetailInv,
         ToggleActions \/ Redeploy \/ Rollback \/ Deactivate \/ Reactivate \/ RemoveShown
         \/ OpenScale \/ CloseScale \/ Scale
  PROVE  DetailInv'
<1>0. /\ details \in Component
      /\ details.menu => details.on /\ ~details.busy /\ ~details.scaling
      /\ details.scaling => details.on /\ ~details.menu
      /\ details.menu \in BOOLEAN /\ details.scaling \in BOOLEAN
  BY ClosedComponent DEF DetailInv, DetailTyped, RequestsInv, Component
<1>1. ASSUME NEW op \in {"redeploy", "rollback", "deactivate", "reactivate", "remove"}, Choose(op)
      PROVE  DetailInv'
  <2>1. /\ details' = [details EXCEPT !.menu = FALSE, !.busy = TRUE] /\ details.menu
        /\ Mutate(op) /\ UNCHANGED <<cluster, kind, asked, chart>>
    BY <1>1 DEF Choose
  <2> QED BY <1>0, <2>1, SendKeeps
<1>2. CASE ToggleActions
  <2>1. /\ details.on /\ ~details.scaling /\ ~details.busy /\ details' = [details EXCEPT !.menu = ~@]
        /\ UNCHANGED <<cluster, kind, asked, mutations, chart>>
    BY <1>2 DEF ToggleActions, Operable
  <2>2. PICK wanted \in BOOLEAN : wanted = ~details.menu
    OBVIOUS
  <2>3. MenuTo(wanted, FALSE)
    BY <1>0, <2>1, <2>2 DEF Component, MenuTo
  <2> QED BY <2>1, <2>3, MenuKeeps
<1>3. CASE Redeploy /\ IsDeactivated
  <2>1. /\ details.menu /\ details' = [details EXCEPT !.menu = FALSE]
        /\ UNCHANGED <<cluster, kind, asked, mutations, chart>>
    BY <1>3 DEF Redeploy
  <2>2. MenuTo(FALSE, details.scaling)
    BY <1>0, <2>1 DEF Component, MenuTo
  <2> QED BY <1>0, <2>1, <2>2, MenuKeeps
<1>4. CASE OpenScale
  <2>1. /\ details.menu /\ details' = [details EXCEPT !.menu = FALSE, !.scaling = TRUE]
        /\ UNCHANGED <<cluster, kind, asked, mutations, chart>>
    BY <1>4 DEF OpenScale
  <2>2. MenuTo(FALSE, TRUE)
    BY <1>0, <2>1 DEF MenuTo
  <2> QED BY <2>2, MenuKeeps
<1>5. CASE CloseScale
  <2>1. /\ details.scaling /\ details' = [details EXCEPT !.scaling = FALSE]
        /\ UNCHANGED <<cluster, kind, asked, mutations, chart>>
    BY <1>5 DEF CloseScale
  <2>2. MenuTo(FALSE, FALSE)
    BY <1>0, <2>1 DEF Component, MenuTo
  <2> QED BY <2>2, MenuKeeps
<1>6. CASE Scale
  <2>1. PICK op \in {"scale0", "scale1"} :
          /\ details.scaling /\ ~details.busy /\ details' = [details EXCEPT !.busy = TRUE]
          /\ Mutate(op) /\ UNCHANGED <<cluster, kind, asked, chart>>
    BY <1>6 DEF Scale
  <2>2. details' = [details EXCEPT !.menu = FALSE, !.busy = TRUE]
    BY <1>0, <2>1 DEF Component
  <2> QED BY <1>0, <2>1, <2>2, SendKeeps
<1> QED BY <1>1, <1>2, <1>3, <1>4, <1>5, <1>6
        DEF Redeploy, Rollback, Deactivate, Reactivate, RemoveShown
(* The cluster changes: what was read and shown is no newer.                *)
LEMMA ClusterKeeps ==
  ASSUME DetailInv, cluster' \in Data, cluster'.v = cluster.v + 1,
         UNCHANGED <<kind, details, asked, chart>>,
         mutations' \in SUBSET Mutation, RequestsInv'
  PROVE  DetailInv'
<1>1. DetailTyped'
  BY DEF DetailInv, DetailTyped
<1>2. FreshInv'
  <2>1. cluster.v \in Nat /\ cluster.v <= cluster'.v
    BY MaxVersionAssumption DEF DetailInv, DetailTyped, Data
  <2>2. /\ \A q \in Parts : details.newest[q] \in Nat /\ details.newest[q] <= cluster.v
        /\ \A q \in Parts : \A x \in asked[q] : x.data.v \in Nat
    BY MaxVersionAssumption DEF DetailInv, FreshInv, DetailTyped, Component, Query, Data
  <2>3. \A q \in Parts : details.newest[q] <= cluster'.v
    BY <2>1, <2>2, MaxVersionAssumption DEF Data
  <2>4. \A q \in Parts : \A x \in asked[q] : x.data.v <= cluster.v => x.data.v <= cluster'.v
    BY <2>1, <2>2
  <2> QED BY <2>3, <2>4 DEF DetailInv, FreshInv
<1>3. ChartInv'
  BY DEF DetailInv, ChartInv
<1> QED BY <1>1, <1>2, <1>3 DEF DetailInv

LEMMA MovesKeep == ASSUME DetailInv, ClusterMoves PROVE DetailInv'
<1>1. cluster \in Data /\ cluster.task \in [Services -> TaskStatus] /\ cluster.total \in {0, 1}
  BY DEF DetailInv, DetailTyped, Data
<1>2. PICK total \in {0, 1}, task \in [Services -> TaskStatus] : Write(TRUE, total, task)
  <2>1. CASE \E s \in Services : \E status \in TaskStatus \ {cluster.task[s]} :
               Write(TRUE, cluster.total, [cluster.task EXCEPT ![s] = status])
    <3>1. PICK s \in Services, status \in TaskStatus :
            Write(TRUE, cluster.total, [cluster.task EXCEPT ![s] = status])
      BY <2>1
    <3>2. [cluster.task EXCEPT ![s] = status] \in [Services -> TaskStatus]
      BY <1>1
    <3> QED BY <1>1, <3>1, <3>2
  <2>2. CASE Write(TRUE, 1 - cluster.total, cluster.task)
    <3>1. 1 - cluster.total \in {0, 1}
      BY <1>1
    <3> QED BY <1>1, <2>2, <3>1
  <2> QED BY <2>1, <2>2 DEF ClusterMoves
<1>3. cluster' \in Data /\ cluster'.v = cluster.v + 1
  BY <1>2, WriteTyped DEF DetailInv
<1>4. UNCHANGED <<kind, details, asked, mutations, chart>>
  BY DEF ClusterMoves
<1>5. RequestsInv' /\ mutations' \in SUBSET Mutation
  BY <1>4 DEF DetailInv, DetailTyped, RequestsInv
<1> QED BY <1>3, <1>4, <1>5, ClusterKeeps

(* A request carried out stays the one it was.                              *)
LEMMA ExecutionKeeps == ASSUME DetailInv, ExecuteMutation PROVE DetailInv'
<1>0. cluster \in Data /\ cluster.task \in [Services -> TaskStatus] /\ cluster.total \in {0, 1}
  BY DEF DetailInv, DetailTyped, Data
<1>1. PICK m \in mutations, there \in BOOLEAN, total \in {0, 1} :
        /\ Write(there, total, cluster.task)
        /\ mutations' = (mutations \ {m}) \union {[m EXCEPT !.pc = "done", !.at = cluster.v + 1]}
  <2>1. PICK m \in mutations :
          /\ Write(m.op # "remove",
                   CASE m.op \in {"deactivate", "scale0"} -> 0
                     [] m.op \in {"reactivate", "scale1"} -> 1
                     [] OTHER -> cluster.total, cluster.task)
          /\ mutations' = (mutations \ {m}) \union {[m EXCEPT !.pc = "done", !.at = cluster.v + 1]}
    BY DEF ExecuteMutation
  <2> DEFINE there == m.op # "remove"
             total == CASE m.op \in {"deactivate", "scale0"} -> 0
                        [] m.op \in {"reactivate", "scale1"} -> 1
                        [] OTHER -> cluster.total
  <2>2. there \in BOOLEAN /\ total \in {0, 1} /\ Write(there, total, cluster.task)
    BY <1>0, <2>1
  <2> HIDE DEF there, total
  <2> QED BY <2>1, <2>2
<1>2. UNCHANGED <<kind, details, asked, chart>>
  BY DEF ExecuteMutation
<1>3. cluster' \in Data /\ cluster'.v = cluster.v + 1 /\ cluster.v + 1 \in 0..MaxVersion
  BY <1>0, <1>1, WriteTyped DEF DetailInv
<1> DEFINE r == [m EXCEPT !.pc = "done", !.at = cluster.v + 1]
<1>4. r \in Mutation /\ r.own = m.own
  <2>1. m \in Mutation
    BY DEF DetailInv, DetailTyped
  <2> QED BY <1>3, <2>1 DEF Mutation
<1>5. mutations' = (mutations \ {m}) \union {r}
  BY <1>1
<1> HIDE DEF r
<1>6. RequestsInv'
  <2>1. \A n, k \in mutations' : n.own /\ k.own => n = k
    BY <1>4, <1>5 DEF DetailInv, RequestsInv
  <2>2. (\E n \in mutations' : n.own) <=> \E n \in mutations : n.own
    BY <1>4, <1>5
  <2> QED BY <1>2, <2>1, <2>2 DEF DetailInv, RequestsInv
<1>7. mutations' \in SUBSET Mutation
  BY <1>4, <1>5 DEF DetailInv, DetailTyped
<1> QED BY <1>2, <1>3, <1>6, <1>7, ClusterKeeps

(* The page is left, by the user or after a removal.                        *)
LEMMA LeavingKeeps ==
  ASSUME DetailInv, UNCHANGED <<cluster, kind, asked, chart>>, details' = Closed,
         mutations' \in SUBSET Mutation, \A m \in mutations' : ~m.own
  PROVE  DetailInv'
<1>1. DetailTyped'
  BY ClosedComponent DEF DetailInv, DetailTyped
<1>2. FreshInv'
  <2>1. /\ \A q \in Parts : details'.newest[q] = 0 /\ details'.shown[q].v = 0
        /\ \A q \in Parts : \A x \in asked[q] : x \in Query
    BY ClosedComponent DEF DetailInv, DetailTyped
  <2>2. 0 <= cluster.v /\ \A q \in Parts : \A x \in asked[q] : 0 <= x.data.v
    BY <2>1, MaxVersionAssumption DEF DetailInv, DetailTyped, Query, Data
  <2> QED BY <2>1, <2>2 DEF DetailInv, FreshInv
<1>3. RequestsInv'
  BY ClosedComponent DEF RequestsInv
<1>4. ChartInv'
  BY ClosedComponent DEF DetailInv, ChartInv
<1> QED BY <1>1, <1>2, <1>3, <1>4 DEF DetailInv

LEMMA Disowned ==
  ASSUME DetailInv, NEW S \in SUBSET mutations, NEW b \in BOOLEAN,
         mutations' = {[n EXCEPT !.own = @ /\ b] : n \in S}
  PROVE  /\ mutations' \in SUBSET Mutation
         /\ ~b => \A n \in mutations' : ~n.own
         /\ b => mutations' = S
<1>1. ASSUME NEW n \in S
      PROVE  /\ [n EXCEPT !.own = @ /\ b] \in Mutation
             /\ ~b => ~[n EXCEPT !.own = @ /\ b].own
             /\ b => [n EXCEPT !.own = @ /\ b] = n
  <2>1. n \in Mutation
    BY DEF DetailInv, DetailTyped
  <2>2. CASE b
    <3>1. [n EXCEPT !.own = @ /\ b] = n
      BY <2>1, <2>2 DEF Mutation
    <3> QED BY <2>1, <2>2, <3>1
  <2>3. CASE ~b
    <3>1. (n.own /\ b) = FALSE
      BY <2>3
    <3>2. [n EXCEPT !.own = @ /\ b] = [n EXCEPT !.own = FALSE]
      BY <3>1
    <3>3. [n EXCEPT !.own = FALSE] \in Mutation /\ ~[n EXCEPT !.own = FALSE].own
      BY <2>1 DEF Mutation
    <3> QED BY <2>3, <3>2, <3>3
  <2> QED BY <2>2, <2>3
<1>2. mutations' \in SUBSET Mutation /\ (~b => \A n \in mutations' : ~n.own)
  BY <1>1
<1>3. ASSUME b PROVE mutations' = S
  <2>1. \A n \in S : [n EXCEPT !.own = @ /\ b] = n
    BY <1>1, <1>3
  <2> HIDE <1>1
  <2> QED BY <2>1
<1> QED BY <1>2, <1>3

LEMMA LeaveKeeps == ASSUME DetailInv, LeaveDetails PROVE DetailInv'
<1>1. /\ details' = Closed /\ UNCHANGED <<cluster, kind, asked, chart>>
      /\ mutations' = {[m EXCEPT !.own = FALSE] : m \in mutations}
  BY DEF LeaveDetails
<1>2. ASSUME NEW m \in mutations
      PROVE  [m EXCEPT !.own = FALSE] \in Mutation /\ ~[m EXCEPT !.own = FALSE].own
  <2>1. m \in Mutation
    BY DEF DetailInv, DetailTyped
  <2> QED BY <2>1 DEF Mutation
<1>3. mutations' \in SUBSET Mutation /\ \A m \in mutations' : ~m.own
  BY <1>1, <1>2
<1> QED BY <1>1, <1>3, LeavingKeeps

(* A request is over, well or not.                                          *)
LEMMA AnswersKeep == ASSUME DetailInv, MutationAnswers \/ MutationFails PROVE DetailInv'
<1>0. details \in Component /\ mutations \in SUBSET Mutation
  BY DEF DetailInv, DetailTyped
<1>1. ASSUME NEW m \in mutations, m.own, mutations' = mutations \ {m},
             UNCHANGED <<cluster, kind, asked, chart>>,
             details' \in Component, details'.on = details.on, ~details'.busy,
             details'.shown = details.shown, details'.newest = details.newest,
             details'.menu => details.menu
      PROVE  DetailInv'
  <2>1. details.busy
    BY <1>1 DEF DetailInv, RequestsInv
  <2>2. details.on /\ ~details.menu
    BY <2>1, ClosedComponent DEF DetailInv, DetailTyped, RequestsInv
  <2>3. RequestsInv'
    BY <1>1, <2>2 DEF DetailInv, RequestsInv
  <2>4. Calm
    BY <1>1, <2>2 DEF Calm
  <2> QED BY <1>0, <1>1, <2>3, <2>4, CalmKeeps
<1>2. ASSUME NEW m \in mutations, ~m.own, mutations' = mutations \ {m},
             UNCHANGED <<cluster, kind, asked, chart, details>>
      PROVE  DetailInv'
  <2>1. (\E n \in mutations' : n.own) <=> \E n \in mutations : n.own
    BY <1>2
  <2>2. RequestsInv'
    BY <1>2, <2>1 DEF DetailInv, RequestsInv
  <2>3. DetailTyped' /\ FreshInv' /\ ChartInv'
    BY <1>2 DEF DetailInv, DetailTyped, FreshInv, ChartInv
  <2> QED BY <2>2, <2>3 DEF DetailInv
<1>3. CASE MutationAnswers
  <2>1. PICK m \in mutations :
          /\ details' = IF m.op = "remove" THEN Closed ELSE IF m.own THEN Settled(m) ELSE details
          /\ mutations' = {[n EXCEPT !.own = @ /\ m.op # "remove"] : n \in mutations \ {m}}
    BY <1>3 DEF MutationAnswers
  <2>2. UNCHANGED <<cluster, kind, asked, chart>> /\ m \in Mutation
    BY <1>0, <1>3 DEF MutationAnswers
  <2>3. PICK b \in BOOLEAN : b = (m.op # "remove")
    OBVIOUS
  <2>4. mutations' = {[n EXCEPT !.own = @ /\ b] : n \in mutations \ {m}}
    BY <2>1, <2>3
  <2>5. /\ mutations' \in SUBSET Mutation
        /\ ~b => \A n \in mutations' : ~n.own
        /\ b => mutations' = mutations \ {m}
    BY <2>4, Disowned
  <2>6. CASE m.op = "remove"
    BY <2>1, <2>2, <2>3, <2>5, <2>6, LeavingKeeps
  <2>7. CASE m.op # "remove" /\ m.own
    <3>1. details' = [details EXCEPT !.busy = FALSE, !.scaling = FALSE, !.timers = 2,
                                     !.owed = m.at, !.excused = FALSE]
      BY <2>1, <2>7 DEF Settled
    <3>2. m.at \in 0..MaxVersion /\ 2 \in 0..2
      BY <2>2 DEF Mutation
    <3>3. details' \in Component
      BY <1>0, <3>1, <3>2 DEF Component
    <3>4. /\ details'.on = details.on /\ ~details'.busy
          /\ details'.shown = details.shown /\ details'.newest = details.newest
          /\ details'.menu = details.menu
      BY <1>0, <3>1 DEF Component
    <3> QED BY <1>1, <2>2, <2>3, <2>5, <2>7, <3>3, <3>4
  <2>8. CASE m.op # "remove" /\ ~m.own
    BY <1>2, <2>1, <2>2, <2>3, <2>5, <2>8
  <2> QED BY <2>6, <2>7, <2>8
<1>4. CASE MutationFails
  <2>1. PICK m \in mutations :
          /\ mutations' = mutations \ {m}
          /\ details' = IF m.own THEN [details EXCEPT !.busy = FALSE] ELSE details
    BY <1>4 DEF MutationFails
  <2>2. UNCHANGED <<cluster, kind, asked, chart>>
    BY <1>4 DEF MutationFails
  <2>3. CASE m.own
    <3>1. /\ details' \in Component /\ details'.on = details.on /\ ~details'.busy
          /\ details'.shown = details.shown /\ details'.newest = details.newest
          /\ details'.menu = details.menu
      BY <1>0, <2>1, <2>3 DEF Component
    <3> QED BY <1>1, <2>1, <2>2, <2>3, <3>1
  <2>4. CASE ~m.own
    BY <1>2, <2>1, <2>2, <2>4
  <2> QED BY <2>3, <2>4
<1> QED BY <1>3, <1>4
-----------------------------------------------------------------------------
(* Queries.                                                                 *)

(* A page that asks: one query at a time of each.                           *)
LEMMA AskKeeps ==
  ASSUME DetailInv, NEW qs, Ask(qs), NEW p \in Component, details' \in Watching(p), p.on,
         p.newest = details.newest, p.shown = details.shown,
         UNCHANGED <<cluster, kind, mutations>>
  PROVE  FreshInv' /\ asked' \in [Parts -> SUBSET Query] /\ details' \in Component
<1>1. /\ details' \in Component /\ details'.newest = details.newest
      /\ \A q \in Parts : details'.shown[q] \in {details.shown[q], Absent}
  BY WatchingTyped
<1>2. /\ asked' \in [Parts -> SUBSET Query]
      /\ \A q \in Parts : asked'[q] = asked[q] \/ (asked[q] = {} /\ asked'[q] = {Sent})
  BY AskTyped DEF DetailInv
<1>3. \A q \in Parts : details'.shown[q].v \in {0, details'.newest[q]}
  BY <1>1, ClosedComponent DEF DetailInv, FreshInv
<1>4. \A q \in Parts : \A x, y \in asked'[q] : x = y
  BY <1>2 DEF DetailInv, FreshInv
<1>5. \A q \in Parts : \A x \in asked'[q] :
        x = Sent \/ (x.pc = "read" /\ details'.newest[q] <= x.data.v /\ x.data.v <= cluster.v)
  BY <1>1, <1>2 DEF DetailInv, FreshInv
<1> QED BY <1>1, <1>2, <1>3, <1>4, <1>5 DEF DetailInv, FreshInv

LEMMA StatsKeep ==
  ASSUME DetailInv, NEW range \in Ranges, NEW shown \in Ranges \union {"none"},
         chart' = [LoadStats(range) EXCEPT !.shown = shown], kind' = kind
  PROVE  /\ chart' \in [range : Ranges, shown : Ranges \union {"none"}, asked : Seq(Ranges),
                        mixed : BOOLEAN]
         /\ ChartInv'
<1> DEFINE T == [range : Ranges, shown : Ranges \union {"none"}, asked : Seq(Ranges), mixed : BOOLEAN]
           joined == \E i \in DOMAIN chart.asked : chart.asked[i] = range
           more == IF joined THEN chart.asked ELSE Append(chart.asked, range)
           mix == (chart.mixed /\ chart.asked # <<>>) \/ joined
<1>1. chart \in T /\ LoadStats(range) \in T /\ chart' \in T
  BY StatsTyped DEF DetailInv, DetailTyped
<1>2. LoadStats(range) = [chart EXCEPT !.range = range, !.asked = more, !.mixed = mix]
  BY DEF LoadStats
<1>3. chart'.range = range /\ chart'.asked = more /\ chart'.mixed = mix
  <2> HIDE DEF more, mix
  <2> QED BY <1>1, <1>2
<1>4. ChartInv'
  <2> SUFFICES ASSUME ~mix PROVE ChartInv'
    BY <1>3 DEF ChartInv
  <2>1. ~joined
    OBVIOUS
  <2>2. more = Append(chart.asked, range) /\ chart.asked \in Seq(Ranges)
    BY <1>1, <2>1
  <2>3. Len(more) = Len(chart.asked) + 1 /\ more[Len(chart.asked) + 1] = range /\ more \in Seq(Ranges)
    BY <2>2, AppendProperties
  <2>4. more # <<>>
    <3>1. Len(more) # 0
      BY <2>2, <2>3, LenProperties
    <3> QED BY <2>3, <3>1, EmptySeq
  <2> HIDE DEF more, mix, joined
  <2> QED BY <1>3, <2>3, <2>4 DEF ChartInv
<1> QED BY <1>1, <1>4

LEMMA OpenKeeps == ASSUME DetailInv, Open PROVE DetailInv'
<1> DEFINE p == [Closed EXCEPT !.on = TRUE]
<1>1. /\ ~details.on /\ details' \in Watching(p) /\ Ask(QueriesOf(kind))
      /\ chart' = IF kind = "service" THEN chart ELSE [LoadStats("1h") EXCEPT !.shown = "none"]
      /\ UNCHANGED <<cluster, kind, mutations>>
  BY DEF Open
<1>2. details = Closed
  BY <1>1 DEF DetailInv, DetailTyped
<1>3. /\ p \in Component /\ p.on /\ p.newest = details.newest /\ p.shown = details.shown
      /\ ~p.busy /\ ~p.menu /\ ~p.scaling
  BY <1>2, ClosedComponent DEF Component
<1> HIDE DEF p
<1>4. FreshInv' /\ asked' \in [Parts -> SUBSET Query] /\ details' \in Component
  BY <1>1, <1>3, AskKeeps
<1>5. details'.on /\ ~details'.busy /\ ~details'.menu /\ ~details'.scaling
  BY <1>1, <1>3, WatchingTyped
<1>6. /\ chart' \in [range : Ranges, shown : Ranges \union {"none"}, asked : Seq(Ranges),
                     mixed : BOOLEAN]
      /\ ChartInv'
  <2>1. CASE kind = "service"
    BY <1>1, <2>1 DEF DetailInv, DetailTyped, ChartInv
  <2>2. CASE kind # "service"
    <3>1. "1h" \in Ranges /\ "none" \in Ranges \union {"none"}
      BY DEF Ranges
    <3> QED BY <1>1, <2>2, <3>1, StatsKeep
  <2> QED BY <2>1, <2>2
<1>7. RequestsInv'
  BY <1>1, <1>2, <1>5, ClosedComponent DEF DetailInv, RequestsInv
<1>8. DetailTyped'
  BY <1>1, <1>4, <1>5, <1>6 DEF DetailInv, DetailTyped
<1> QED BY <1>4, <1>6, <1>7, <1>8 DEF DetailInv

LEMMA ReloadKeeps == ASSUME DetailInv, ReloadDetails PROVE DetailInv'
<1> DEFINE late == details.excused \/ asked["main"] # {}
           p == [details EXCEPT !.timers = details.timers - 1, !.excused = late]
<1>1. /\ details.on /\ details.timers > 0 /\ details' \in Watching(p) /\ Ask(QueriesOf(kind))
      /\ UNCHANGED <<cluster, kind, mutations, chart>>
  BY DEF ReloadDetails
<1>2. details \in Component /\ late \in BOOLEAN /\ details.timers - 1 \in 0..2
  BY <1>1 DEF DetailInv, DetailTyped, Component
<1> HIDE DEF late
<1>3. /\ p \in Component /\ p.on /\ p.newest = details.newest /\ p.shown = details.shown
      /\ p.busy = details.busy /\ p.menu = details.menu /\ p.scaling = details.scaling
  BY <1>1, <1>2 DEF Component
<1> HIDE DEF p
<1>4. FreshInv' /\ asked' \in [Parts -> SUBSET Query] /\ details' \in Component
  BY <1>1, <1>3, AskKeeps
<1>5. /\ details'.on /\ details'.busy = details.busy /\ details'.menu = details.menu
      /\ details'.scaling = details.scaling
  BY <1>1, <1>3, WatchingTyped
<1>6. RequestsInv' /\ ChartInv'
  BY <1>1, <1>5 DEF DetailInv, RequestsInv, ChartInv
<1>7. DetailTyped'
  BY <1>1, <1>4, <1>5 DEF DetailInv, DetailTyped
<1> QED BY <1>4, <1>6, <1>7 DEF DetailInv

LEMMA ReadsKeep ==
  ASSUME DetailInv, NEW q \in Parts, ServerReads(q) PROVE DetailInv'
<1> DEFINE r == [pc |-> "read", data |-> cluster]
<1>1. /\ Sent \in asked[q] /\ UNCHANGED <<cluster, kind, details, mutations, chart>>
      /\ asked' = [asked EXCEPT ![q] = (asked[q] \ {Sent}) \union {r}]
  BY DEF ServerReads
<1>2. r \in Query /\ r.pc = "read" /\ r.data = cluster /\ cluster \in Data
  BY DEF DetailInv, DetailTyped, Query
<1> HIDE DEF r
<1>3. asked[q] \ {Sent} = {} /\ asked \in [Parts -> SUBSET Query]
  BY <1>1 DEF DetailInv, DetailTyped, FreshInv
<1>4. asked'[q] = {r} /\ \A s \in Parts : s # q => asked'[s] = asked[s]
  BY <1>1, <1>3
<1>5. asked' \in [Parts -> SUBSET Query]
  BY <1>1, <1>2, <1>3
<1>6. FreshInv'
  <2>1. r.data.v <= cluster.v /\ details.newest[q] <= r.data.v
    BY <1>2, MaxVersionAssumption DEF DetailInv, FreshInv, Data
  <2>2. \A s \in Parts : \A x, y \in asked'[s] : x = y
    BY <1>4 DEF DetailInv, FreshInv
  <2>3. ASSUME NEW s \in Parts, NEW x \in asked'[s]
        PROVE  x = Sent \/ (x.pc = "read" /\ details.newest[s] <= x.data.v /\ x.data.v <= cluster.v)
    <3>1. CASE s = q
      BY <1>2, <1>4, <2>1, <2>3, <3>1
    <3>2. CASE s # q
      BY <1>4, <2>3, <3>2 DEF DetailInv, FreshInv
    <3> QED BY <3>1, <3>2
  <2> QED BY <1>1, <2>2, <2>3 DEF DetailInv, FreshInv
<1>7. RequestsInv' /\ ChartInv' /\ DetailTyped'
  BY <1>1, <1>5 DEF DetailInv, RequestsInv, ChartInv, DetailTyped
<1> QED BY <1>6, <1>7 DEF DetailInv

(* What a query brings is shown.                                            *)
LEMMA ShowFields ==
  ASSUME details \in Component, NEW q \in Parts, NEW data \in Data, NEW d, d = Show(q, data)
  PROVE  /\ d \in Component /\ d.on = details.on /\ d.busy = details.busy /\ d.menu = details.menu
         /\ d.scaling = details.scaling
         /\ d.shown[q] = data /\ d.newest[q] = IF data.v > details.newest[q] THEN data.v
                                               ELSE details.newest[q]
         /\ \A s \in Parts : s # q => d.shown[s] = details.shown[s] /\ d.newest[s] = details.newest[s]
<1> DEFINE sh == [details.shown EXCEPT ![q] = data]
           v == IF data.v > details.newest[q] THEN data.v ELSE details.newest[q]
           ne == [details.newest EXCEPT ![q] = v]
           lo == details.loading /\ q # "main"
<1>1. /\ sh \in [Parts -> Data] /\ sh[q] = data
      /\ \A s \in Parts : s # q => sh[s] = details.shown[s]
  BY DEF Component
<1>2. v \in 0..MaxVersion
  BY DEF Component, Data
<1>3. /\ ne \in [Parts -> 0..MaxVersion] /\ ne[q] = v
      /\ \A s \in Parts : s # q => ne[s] = details.newest[s]
  <2> HIDE DEF v
  <2> QED BY <1>2 DEF Component
<1>4. d = [details EXCEPT !.shown = sh, !.loading = lo, !.newest = ne] /\ lo \in BOOLEAN
  BY DEF Show, Component
<1> HIDE DEF sh, ne, lo
<1>5. /\ d \in Component /\ d.on = details.on /\ d.busy = details.busy /\ d.menu = details.menu
      /\ d.scaling = details.scaling /\ d.shown = sh /\ d.newest = ne
  BY <1>1, <1>3, <1>4 DEF Component
<1> QED BY <1>1, <1>3, <1>5

LEMMA QueryAnswersKeep ==
  ASSUME DetailInv, NEW q \in Parts, QueryAnswers(q) PROVE DetailInv'
<1>1. PICK answer \in asked[q] \ {Sent} :
        /\ details' = IF details.on THEN Show(q, answer.data) ELSE details
        /\ asked' = [asked EXCEPT ![q] = @ \ {answer}]
  BY DEF QueryAnswers
<1>2. UNCHANGED <<cluster, kind, mutations, chart>>
  BY DEF QueryAnswers
<1>3. /\ asked \in [Parts -> SUBSET Query] /\ answer \in Query /\ answer.data \in Data
      /\ details \in Component
  BY DEF DetailInv, DetailTyped, Query
<1>4. /\ details.newest[q] <= answer.data.v /\ answer.data.v <= cluster.v
      /\ asked[q] \ {answer} = {}
  BY DEF DetailInv, FreshInv
<1>5. asked'[q] = {} /\ \A s \in Parts : s # q => asked'[s] = asked[s]
  BY <1>1, <1>3, <1>4
<1>6. asked' \in [Parts -> SUBSET Query]
  BY <1>1, <1>3
<1>7. CASE ~details.on
  <2>1. details' = details
    BY <1>1, <1>7
  <2>2. FreshInv'
    BY <1>2, <1>5, <2>1 DEF DetailInv, FreshInv
  <2>3. RequestsInv' /\ ChartInv' /\ DetailTyped'
    BY <1>2, <1>6, <2>1 DEF DetailInv, RequestsInv, ChartInv, DetailTyped
  <2> QED BY <2>2, <2>3 DEF DetailInv
<1>8. CASE details.on
  <2>1. details' = Show(q, answer.data)
    BY <1>1, <1>8
  <2>2. /\ details' \in Component /\ details'.on = details.on /\ details'.busy = details.busy
        /\ details'.menu = details.menu /\ details'.scaling = details.scaling
        /\ details'.shown[q] = answer.data
        /\ details'.newest[q] = IF answer.data.v > details.newest[q] THEN answer.data.v
                                ELSE details.newest[q]
        /\ \A s \in Parts : s # q => details'.shown[s] = details.shown[s]
                                     /\ details'.newest[s] = details.newest[s]
    BY <1>3, <2>1, ShowFields
  <2>3. details'.newest[q] = answer.data.v
    <3>1. details.newest[q] \in Nat /\ answer.data.v \in Nat
      BY <1>3, MaxVersionAssumption DEF Component, Data
    <3> QED BY <1>4, <2>2, <3>1
  <2>4. ASSUME NEW s \in Parts
        PROVE  /\ details'.newest[s] <= cluster.v /\ details'.shown[s].v \in {0, details'.newest[s]}
               /\ \A x, y \in asked'[s] : x = y
               /\ \A x \in asked'[s] :
                    x = Sent \/ (x.pc = "read" /\ details'.newest[s] <= x.data.v /\ x.data.v <= cluster.v)
    <3>1. CASE s = q
      BY <1>4, <1>5, <2>2, <2>3, <3>1
    <3>2. CASE s # q
      BY <1>5, <2>2, <3>2 DEF DetailInv, FreshInv
    <3> QED BY <3>1, <3>2
  <2>5. FreshInv'
    BY <1>2, <2>4 DEF FreshInv
  <2>6. RequestsInv' /\ ChartInv' /\ DetailTyped'
    BY <1>2, <1>6, <1>8, <2>2 DEF DetailInv, RequestsInv, ChartInv, DetailTyped
  <2> QED BY <2>5, <2>6 DEF DetailInv
<1> QED BY <1>7, <1>8

LEMMA QueryFailedKeeps ==
  ASSUME DetailInv, NEW q \in Parts, QueryFailed(q) PROVE DetailInv'
<1>1. PICK query \in asked[q] : asked' = [asked EXCEPT ![q] = @ \ {query}]
  BY DEF QueryFailed
<1>2. UNCHANGED <<cluster, kind, mutations, chart>>
  BY DEF QueryFailed
<1>3. asked \in [Parts -> SUBSET Query] /\ details \in Component
  BY DEF DetailInv, DetailTyped
<1>4. /\ \A s \in Parts : asked'[s] \subseteq asked[s]
      /\ asked' \in [Parts -> SUBSET Query]
  BY <1>1, <1>3
<1>5. /\ details' \in Component /\ details'.on = details.on /\ details'.busy = details.busy
      /\ details'.menu = details.menu /\ details'.scaling = details.scaling
      /\ ~details.on => details' = details
      /\ \A s \in Parts : details'.newest[s] = details.newest[s]
                          /\ details'.shown[s] \in {details.shown[s], Absent}
  <2>1. CASE ~details.on
    BY <1>3, <2>1 DEF QueryFailed
  <2>2. CASE details.on /\ kind # "stack"
    <3>1. details' = [details EXCEPT !.excused = TRUE]
      BY <2>2 DEF QueryFailed
    <3> QED BY <1>3, <2>2, <3>1 DEF Component
  <2>3. CASE details.on /\ kind = "stack"
    <3> DEFINE d == Show(q, Absent)
    <3>1. details' = [d EXCEPT !.excused = TRUE]
      BY <2>3 DEF QueryFailed
    <3>2. /\ d \in Component /\ d.on = details.on /\ d.busy = details.busy
          /\ d.menu = details.menu /\ d.scaling = details.scaling
          /\ d.shown[q] = Absent
          /\ d.newest[q] = IF Absent.v > details.newest[q] THEN Absent.v ELSE details.newest[q]
          /\ \A s \in Parts : s # q => d.shown[s] = details.shown[s] /\ d.newest[s] = details.newest[s]
      BY <1>3, ShowFields, ClosedComponent
    <3>3. d.newest[q] = details.newest[q]
      <4>1. details.newest[q] \in 0..MaxVersion /\ Absent.v = 0
        BY <1>3, ClosedComponent DEF Component
      <4> HIDE DEF d
      <4> QED BY <3>2, <4>1
    <3> HIDE DEF d
    <3>4. /\ details' \in Component /\ details'.on = d.on /\ details'.busy = d.busy
          /\ details'.menu = d.menu /\ details'.scaling = d.scaling
          /\ details'.newest = d.newest /\ details'.shown = d.shown
      BY <3>1, <3>2 DEF Component
    <3> QED BY <2>3, <3>2, <3>3, <3>4
  <2> QED BY <2>1, <2>2, <2>3
<1>6. FreshInv'
  <2>1. \A s \in Parts : details'.shown[s].v \in {0, details'.newest[s]}
    BY <1>5, ClosedComponent DEF DetailInv, FreshInv
  <2> QED BY <1>2, <1>4, <1>5, <2>1 DEF DetailInv, FreshInv
<1>7. RequestsInv' /\ ChartInv' /\ DetailTyped'
  BY <1>2, <1>4, <1>5 DEF DetailInv, RequestsInv, ChartInv, DetailTyped
<1> QED BY <1>6, <1>7 DEF DetailInv
(* The chart.                                                               *)
LEMMA ChartKeeps ==
  ASSUME DetailInv, UNCHANGED <<cluster, kind, details, asked, mutations>>,
         chart' \in [range : Ranges, shown : Ranges \union {"none"}, asked : Seq(Ranges),
                     mixed : BOOLEAN],
         ChartInv'
  PROVE  DetailInv'
<1>1. DetailTyped'
  BY DEF DetailInv, DetailTyped
<1>2. FreshInv' /\ RequestsInv'
  BY DEF DetailInv, FreshInv, RequestsInv
<1> QED BY <1>1, <1>2 DEF DetailInv

LEMMA RangeKeeps ==
  ASSUME DetailInv, NEW range \in Ranges, OnRangeChange(range) PROVE DetailInv'
<1>1. chart' = LoadStats(range) /\ UNCHANGED <<cluster, kind, details, asked, mutations>>
  BY DEF OnRangeChange
<1>2. chart.shown \in Ranges \union {"none"}
  BY DEF DetailInv, DetailTyped
<1>3. chart' = [LoadStats(range) EXCEPT !.shown = chart.shown]
  BY <1>1, StatsTyped DEF LoadStats, DetailInv, DetailTyped
<1> QED BY <1>1, <1>2, <1>3, StatsKeep, ChartKeeps

LEMMA StatsAnswered == ASSUME DetailInv, AnswerStats PROVE DetailInv'
<1> DEFINE T == [range : Ranges, shown : Ranges \union {"none"}, asked : Seq(Ranges), mixed : BOOLEAN]
<1>1. PICK i \in DOMAIN chart.asked, ok \in BOOLEAN :
        chart' = [chart EXCEPT
          !.asked = [j \in 1..(Len(chart.asked) - 1) |->
                       IF j < i THEN chart.asked[j] ELSE chart.asked[j + 1]],
          !.shown = IF details.on /\ ok THEN chart.asked[i] ELSE chart.shown,
          !.mixed = chart.mixed \/ i # 1 \/ ~ok]
  BY DEF AnswerStats
<1>2. UNCHANGED <<cluster, kind, details, asked, mutations>>
  BY DEF AnswerStats
<1>3. /\ chart \in T /\ chart.asked \in Seq(Ranges) /\ Len(chart.asked) \in Nat \ {0}
      /\ DOMAIN chart.asked = 1..Len(chart.asked)
      /\ \A j \in 1..Len(chart.asked) : chart.asked[j] \in Ranges
  <2>1. chart \in T /\ chart.asked \in Seq(Ranges)
    BY DEF DetailInv, DetailTyped
  <2>2. DOMAIN chart.asked = 1..Len(chart.asked) /\ Len(chart.asked) \in Nat
    BY <2>1, LenProperties
  <2>3. \A j \in 1..Len(chart.asked) : chart.asked[j] \in Ranges
    BY <2>1, ElementOfSeq
  <2>4. Len(chart.asked) # 0
    BY <2>2
  <2> QED BY <2>1, <2>2, <2>3, <2>4
<1> DEFINE n == Len(chart.asked)
           rest == [j \in 1..(n - 1) |-> IF j < i THEN chart.asked[j] ELSE chart.asked[j + 1]]
           sh == IF details.on /\ ok THEN chart.asked[i] ELSE chart.shown
           mix == chart.mixed \/ i # 1 \/ ~ok
<1>4. rest \in Seq(Ranges) /\ Len(rest) = n - 1 /\ (n = 1 => rest = <<>>) /\ (n # 1 => rest # <<>>)
  <2>1. rest \in [1..(n - 1) -> Ranges] /\ n - 1 \in Nat
    <3>1. \A j \in 1..(n - 1) : j \in 1..n /\ j + 1 \in 1..n
      BY <1>3
    <3> QED BY <1>3, <3>1
  <2> HIDE DEF rest, n
  <2>2. rest \in Seq(Ranges)
    BY <2>1, SeqDef
  <2>3. Len(rest) = n - 1
    BY <2>1, LenProperties
  <2>4. rest = <<>> <=> Len(rest) = 0
    BY <2>2, EmptySeq
  <2>5. n \in Int
    BY <1>3 DEF n
  <2> QED BY <2>2, <2>3, <2>4, <2>5
<1>5. sh \in Ranges \union {"none"} /\ mix \in BOOLEAN
  BY <1>3
<1>6. chart' = [chart EXCEPT !.asked = rest, !.shown = sh, !.mixed = mix]
  BY <1>1
<1>7. /\ chart' \in T /\ chart'.asked = rest /\ chart'.shown = sh /\ chart'.mixed = mix
      /\ chart'.range = chart.range
  <2> HIDE DEF rest, sh, mix
  <2> QED BY <1>3, <1>4, <1>5, <1>6
<1>8. ChartInv'
  <2> SUFFICES ASSUME ~mix PROVE ChartInv'
    BY <1>7 DEF ChartInv
  <2>1. ~chart.mixed /\ i = 1 /\ ok
    OBVIOUS
  <2>2. chart.asked # <<>> /\ chart.asked[n] = chart.range
    <3>1. chart.asked # <<>>
      BY <1>3
    <3> QED BY <2>1, <3>1 DEF DetailInv, ChartInv
  <2>3. CASE n = 1
    <3>1. details.on => sh = chart.range
      BY <2>1, <2>2, <2>3
    <3> HIDE DEF sh, rest
    <3> QED BY <1>2, <1>4, <1>7, <2>3, <3>1 DEF ChartInv
  <2>4. CASE n # 1
    <3>1. n \in Nat \ {0} /\ i = 1
      BY <1>3, <2>1, LenProperties
    <3> HIDE DEF n
    <3>2. n - 1 \in 1..(n - 1) /\ ~(n - 1 < i) /\ (n - 1) + 1 = n
      BY <3>1, <2>4
    <3>3. rest[n - 1] = chart.asked[n]
      BY <3>2
    <3> HIDE DEF rest, n
    <3> QED BY <1>4, <1>7, <2>2, <2>4, <3>3 DEF ChartInv
  <2> QED BY <2>3, <2>4
<1> QED BY <1>2, <1>7, <1>8, ChartKeeps

LEMMA DetailStep == DetailInv /\ [DetailNext]_detailVars => DetailInv'
<1> SUFFICES ASSUME DetailInv, [DetailNext]_detailVars PROVE DetailInv'
  OBVIOUS
<1>1. CASE UNCHANGED detailVars
  BY <1>1 DEF detailVars, DetailInv, DetailTyped, FreshInv, RequestsInv, ChartInv
<1>2. CASE DetailNext
  BY <1>2, MovesKeep, OpenKeeps, LeaveKeeps, ReloadKeeps, StatsAnswered, ReadsKeep,
     QueryAnswersKeep, QueryFailedKeeps, RangeKeeps, ChoiceKeeps, ExecutionKeeps, AnswersKeep
  DEF DetailNext
<1> QED BY <1>1, <1>2

-----------------------------------------------------------------------------
(* The badges.                                                              *)

LEMMA OneBadge ==
  ASSUME NEW t \in TaskStatus
  PROVE  DeriveStackStatus({t}) =
           CASE t = "none" -> "STOPPED" [] t = "FAILED" -> "FAILED"
             [] t = "STARTING" -> "UPDATING" [] t = "RUNNING" -> "RUNNING"
<1>1. CASE t = "none"
  <2>1. {t} \ {"none"} = {}
    BY <1>1
  <2> QED BY <1>1, <2>1 DEF DeriveStackStatus
<1>2. CASE t # "none"
  <2>1. {t} \ {"none"} = {t} /\ {t} # {}
    BY <1>2
  <2>2. t \in {"RUNNING", "STARTING", "FAILED"}
    BY <1>2 DEF TaskStatus
  <2>3. DeriveStackStatus({t}) =
          IF "FAILED" \in {t} THEN "FAILED" ELSE IF "STARTING" \in {t} THEN "UPDATING"
          ELSE IF {t} = {"RUNNING"} THEN "RUNNING" ELSE "STOPPED"
    BY <2>1 DEF DeriveStackStatus
  <2>4. CASE t = "RUNNING"
    BY <2>3, <2>4
  <2>5. CASE t = "STARTING"
    BY <2>3, <2>5
  <2>6. CASE t = "FAILED"
    BY <2>3, <2>6
  <2> QED BY <2>2, <2>4, <2>5, <2>6
<1> QED BY <1>1, <1>2

LEMMA BadgesRollUp ==
  ASSUME NEW data \in Data
  PROVE  LET badges == {StatusFor(data, s) : s \in Services}
         IN /\ \A st \in {"FAILED", "UPDATING", "RUNNING"} :
                 StackStatus(data) = st => st \in badges
            /\ "FAILED" \in badges => StackStatus(data) = "FAILED"
            /\ StackStatus(data) = "RUNNING" => \A s \in Services :
                 ReplicaTag(data, s) \in {"success", "stopping"} \/ StatusFor(data, s) = "STOPPED"
<1> DEFINE badges == {StatusFor(data, s) : s \in Services}
           tasks == {data.task[s] : s \in Services}
           active == tasks \ {"none"}
           all == StackStatus(data)
<1>1. \A s \in Services : data.task[s] \in TaskStatus /\ data.total \in {0, 1}
  BY DEF Data
<1>2. ASSUME NEW s \in Services
      PROVE  /\ data.task[s] = "none" => StatusFor(data, s) = "STOPPED"
             /\ data.task[s] = "FAILED" <=> StatusFor(data, s) = "FAILED"
             /\ data.task[s] = "STARTING" => StatusFor(data, s) = "UPDATING"
             /\ data.task[s] = "RUNNING" => StatusFor(data, s) = "RUNNING"
  <2>1. data.task[s] \in {"RUNNING", "STARTING", "FAILED", "none"}
    BY <1>1 DEF TaskStatus
  <2>2. StatusFor(data, s) =
          CASE data.task[s] = "none" -> "STOPPED" [] data.task[s] = "FAILED" -> "FAILED"
            [] data.task[s] = "STARTING" -> "UPDATING" [] data.task[s] = "RUNNING" -> "RUNNING"
    BY <1>1, OneBadge DEF StatusFor
  <2> QED BY <2>1, <2>2
<1>3. all = IF active = {} THEN "STOPPED" ELSE IF "FAILED" \in active THEN "FAILED"
            ELSE IF "STARTING" \in active THEN "UPDATING"
            ELSE IF active = {"RUNNING"} THEN "RUNNING" ELSE "STOPPED"
  BY DEF StackStatus, DeriveStackStatus
<1> HIDE DEF all
<1>4. ASSUME NEW st \in {"FAILED", "UPDATING", "RUNNING"}, all = st PROVE st \in badges
  <2>1. PICK t \in active : /\ st = "FAILED" => t = "FAILED"
                            /\ st = "UPDATING" => t = "STARTING"
                            /\ st = "RUNNING" => t = "RUNNING"
    <3>1. active # {}
      BY <1>3, <1>4
    <3> HIDE DEF active
    <3>2. CASE st = "FAILED"
      BY <1>3, <1>4, <3>1, <3>2
    <3>3. CASE st = "UPDATING"
      BY <1>3, <1>4, <3>1, <3>3
    <3>4. CASE st = "RUNNING"
      <4>1. active = {"RUNNING"}
        BY <1>3, <1>4, <3>1, <3>4
      <4> QED BY <3>4, <4>1
    <3> QED BY <3>2, <3>3, <3>4
  <2>2. PICK s \in Services : t = data.task[s]
    OBVIOUS
  <2>3. StatusFor(data, s) = st
    BY <1>2, <2>1, <2>2
  <2> QED BY <2>3
<1>5. ASSUME "FAILED" \in badges PROVE all = "FAILED"
  <2>1. PICK s \in Services : StatusFor(data, s) = "FAILED"
    BY <1>5
  <2>2. data.task[s] = "FAILED"
    BY <1>2, <2>1
  <2>3. "FAILED" \in active
    BY <2>2
  <2> HIDE DEF active
  <2> QED BY <1>3, <2>3
<1>6. ASSUME all = "RUNNING", NEW s \in Services
      PROVE  ReplicaTag(data, s) \in {"success", "stopping"} \/ StatusFor(data, s) = "STOPPED"
  <2>1. active = {"RUNNING"}
    <3> HIDE DEF active
    <3> QED BY <1>3, <1>6
  <2>2. data.task[s] = "none" \/ data.task[s] = "RUNNING"
    <3>1. data.task[s] \in tasks
      OBVIOUS
    <3>2. data.task[s] = "none" \/ data.task[s] \in active
      BY <3>1
    <3> QED BY <2>1, <3>2
  <2>3. CASE data.task[s] = "none"
    BY <1>2, <2>3
  <2>4. CASE data.task[s] = "RUNNING"
    <3>1. CASE data.total = 0
      <4>1. ReplicaTag(data, s) = "stopping"
        BY <2>4, <3>1 DEF ReplicaTag
      <4> QED BY <4>1
    <3>2. CASE data.total = 1
      <4>1. ReplicaTag(data, s) = "success"
        BY <2>4, <3>2 DEF ReplicaTag
      <4> QED BY <4>1
    <3> QED BY <1>1, <3>1, <3>2
  <2> QED BY <2>2, <2>3, <2>4
<1> QED BY <1>4, <1>5, <1>6 DEF all

LEMMA DetailInvSuffices == DetailInv => DetailTypeOK /\ DetailSound
<1> SUFFICES ASSUME DetailInv PROVE DetailTypeOK /\ DetailSound
  OBVIOUS
<1>1. DetailTypeOK
  BY DEF DetailInv, DetailTyped, Component, DetailTypeOK, PageView
<1>2. NeverGoesBack
  BY DEF DetailInv, FreshInv, NeverGoesBack
<1>3. OneRequestAtATime
  <2> DEFINE own == {m \in mutations : m.own}
  <2>1. (\A m, n \in own : m = n) /\ (details.busy <=> own # {})
    BY DEF DetailInv, RequestsInv
  <2> HIDE DEF own
  <2>2. Cardinality(own) <= 1
    BY <2>1, AtMostOne
  <2> QED BY <2>1, <2>2 DEF own, OneRequestAtATime
<1>4. StatusRollsUp
  <2>1. details.shown["main"] \in Data
    BY DEF DetailInv, DetailTyped, Component, Parts
  <2> QED BY <2>1, BadgesRollUp DEF StatusRollsUp
<1>5. ChartSettled
  BY DEF DetailInv, ChartInv, ChartSettled
<1> QED BY <1>1, <1>2, <1>3, <1>4, <1>5 DEF DetailSound

(* For any services, a detail page never goes back to an older version of   *)
(* the cluster, waits for one action of its own, derives its badge from     *)
(* those of the services, and charts the range chosen, unless overtaken.    *)
THEOREM DetailsAreSound == DetailSpec => [](DetailTypeOK /\ DetailSound)
<1>1. DetailSpec => []DetailInv
  BY DetailInvInit, DetailStep, PTL DEF DetailSpec
<1> QED BY <1>1, DetailInvSuffices, PTL
-----------------------------------------------------------------------------
(***************************************************************************)
(* The list pages.                                                         *)
(***************************************************************************)

Rows == [v : 0..MaxWrites, rows : SUBSET Names, marked : SUBSET Names]
Asks ==
  [op : {"create", "remove", "setDefault", "drain", "activate"}, name : Names \union {Spaces},
   own : BOOLEAN, current : BOOLEAN, pc : {"sent", "done"}, at : 0..MaxWrites]

FetchType == [pc : {"sent", "read"}, rows : Rows]
ListType ==
  [on : BOOLEAN, shown : Rows, search : Names \union {NoName}, filter : {"all", "manager", "worker"},
   menu : Names \union {NoName}, newest : 0..MaxWrites, owed : 0..MaxWrites, excused : BOOLEAN]

(* One query of the list is in flight; nothing is newer than the server.    *)
RowsTyped ==
  /\ store \in Rows /\ cache \in Rows /\ fetches \subseteq FetchType /\ list \in ListType
  /\ contents.rows \in Rows /\ contents.crossed \in BOOLEAN
  /\ \A f, g \in fetches : f = g
  /\ \A f \in fetches : f = SentList \/ (f.pc = "read" /\ f.rows.v <= store.v)
  /\ cache.v <= store.v /\ list.newest <= store.v /\ contents.rows.v <= store.v
  /\ list.on \/ list.shown.v = 0

(* Unless it and the contents have overtaken each other, what the list's    *)
(* query has read is no older than the cache and the latest rows shown.     *)
Uncrossed ==
  ~contents.crossed =>
    /\ \A f \in fetches : f = SentList \/ (cache.v <= f.rows.v /\ list.newest <= f.rows.v)
    /\ list.shown.v \in {0, list.newest}

RowsInv == RowsTyped /\ Uncrossed

ContentsType ==
  [pc : {"none", "sent", "read"}, rows : Rows, waiting : Seq(Names), crossed : BOOLEAN]

(* The row of the dialog is the last that waits for the contents.           *)
ViewInv ==
  /\ viewer \in [row : Names \union {NoName}, content : Names \union {NoName}, loading : BOOLEAN]
  /\ contents \in ContentsType
  /\ viewer.row # NoName => /\ viewer.content \in {NoName, viewer.row}
                            /\ contents.waiting = <<>> \/ Last(contents.waiting) = viewer.row
  /\ Tables[listKind].views # "content" => contents.waiting = <<>>

Invited == {i \in DOMAIN requests : requests[i].op = "create" /\ requests[i].current}

(* What a closed dialog sent is not "current" any more.                     *)
InviteInv ==
  /\ dialog \in [open : BOOLEAN, name : Names \union {NoName, Spaces}, rest : BOOLEAN, step : {1, 2},
                 submitting : BOOLEAN, late : BOOLEAN]
  /\ requests \in Seq(Asks)
  /\ \A i \in DOMAIN requests : requests[i].current => requests[i].own
  /\ dialog.open => listKind \in DOMAIN Forms
  /\ listKind = "users" =>
       /\ dialog.submitting => Invited # {}
       /\ ~dialog.late => \A i, j \in Invited : i = j
       /\ ~dialog.late /\ ~dialog.submitting => Invited = {}
       /\ ~dialog.open => Invited = {} /\ ~dialog.submitting /\ ~dialog.late

ListInv == RowsInv /\ ViewInv /\ InviteInv

LEMMA ListInvInit == ListInit => ListInv
<1> SUFFICES ASSUME ListInit PROVE ListInv
  OBVIOUS
<1>0. MaxWrites \in Nat \ {0}
  BY MaxWritesAssumption
<1>1. NoRows \in Rows /\ store \in Rows /\ NoRows.v = 0 /\ store.v = 1
  BY <1>0 DEF ListInit, NoRows, Rows
<1>2. RowsInv
  BY <1>0, <1>1 DEF ListInit, RowsInv, RowsTyped, Uncrossed, ListType, OffScreen, NoContents
<1>3. ViewInv
  BY <1>1, EmptySeq DEF ListInit, ViewInv, NoViewer, NoContents, ContentsType
<1>4. Invited = {} /\ requests \in Seq(Asks) /\ DOMAIN requests = {}
  BY EmptySeq DEF ListInit, Invited
<1>5. InviteInv
  BY <1>4 DEF ListInit, InviteInv, NoDialog
<1> QED BY <1>2, <1>3, <1>5 DEF ListInv

-----------------------------------------------------------------------------
(* The rows.                                                                *)

rowVars == <<store, cache, list, fetches, contents.rows, contents.crossed>>

LEMMA RowsStay == ASSUME RowsInv, UNCHANGED rowVars PROVE RowsInv'
BY DEF RowsInv, RowsTyped, Uncrossed, rowVars

LEMMA RowNumbers ==
  ASSUME RowsTyped
  PROVE  /\ store.v \in Nat /\ cache.v \in Nat /\ list.newest \in Nat /\ list.shown.v \in Nat
         /\ contents.rows.v \in Nat
         /\ \A f \in fetches : f.rows \in Rows /\ f.rows.v \in Nat
BY MaxWritesAssumption DEF RowsTyped, Rows, ListType, FetchType

LEMMA Merged ==
  ASSUME NEW rows \in Rows, NEW op, NEW n
  PROVE  Merge(rows, op, n) \in Rows /\ Merge(rows, op, n).v = rows.v
<1>1. CASE op \in {"setDefault", "drain"} /\ n \in rows.rows
  <2>1. Merge(rows, op, n) = [rows EXCEPT !.marked = @ \union {n}]
    BY <1>1 DEF Merge
  <2>2. n \in Names
    BY <1>1 DEF Rows
  <2> QED BY <2>1, <2>2 DEF Rows
<1>2. CASE op = "activate"
  <2>1. Merge(rows, op, n) = [rows EXCEPT !.marked = @ \ {n}]
    BY <1>2 DEF Merge
  <2> QED BY <2>1 DEF Rows
<1>3. CASE ~(op \in {"setDefault", "drain"} /\ n \in rows.rows) /\ op # "activate"
  BY <1>3 DEF Merge
<1> QED BY <1>1, <1>2, <1>3

(* What is known of the queries and rows comes from what one step keeps.    *)
LEMMA UncrossedStays ==
  ASSUME RowsTyped, RowsTyped', Uncrossed, fetches' \subseteq fetches \union {SentList},
         contents'.crossed = contents.crossed,
         cache'.v = cache.v \/ cache'.v = 0,
         \/ list'.newest = list.newest /\ list'.shown.v \in {list.shown.v, 0}
         \/ list'.newest = 0 /\ list'.shown.v = 0
  PROVE  Uncrossed'
<1> SUFFICES ASSUME ~contents.crossed
             PROVE  /\ \A f \in fetches' : f = SentList \/ (cache'.v <= f.rows.v /\ list'.newest <= f.rows.v)
                    /\ list'.shown.v \in {0, list'.newest}
  BY DEF Uncrossed
<1>1. /\ \A f \in fetches : f = SentList \/ (cache.v <= f.rows.v /\ list.newest <= f.rows.v)
      /\ list.shown.v \in {0, list.newest}
  BY DEF Uncrossed
<1>2. \A f \in fetches : f.rows.v \in Nat
  BY RowNumbers
<1>3. ASSUME NEW f \in fetches', f # SentList
      PROVE  cache'.v <= f.rows.v /\ list'.newest <= f.rows.v
  <2>1. f \in fetches /\ cache.v <= f.rows.v /\ list.newest <= f.rows.v /\ f.rows.v \in Nat
    BY <1>1, <1>2, <1>3
  <2> QED BY <2>1
<1>4. list'.shown.v \in {0, list'.newest}
  BY <1>1
<1> QED BY <1>3, <1>4

(* The list is asked for, and the page shows nothing newer.                 *)
LEMMA AskedList ==
  ASSUME RowsInv, AskList, store' = store, contents'.rows \in Rows, contents'.rows.v <= store.v,
         contents'.crossed = contents.crossed,
         cache' \in Rows, cache'.v = cache.v \/ cache'.v = 0, list' \in ListType,
         list'.on = list.on \/ list'.on,
         \/ list'.newest = list.newest /\ list'.shown.v \in {list.shown.v, 0}
         \/ list'.newest = 0 /\ list'.shown.v = 0
  PROVE  RowsInv'
<1>0. RowsTyped /\ Uncrossed
  BY DEF RowsInv
<1>1. SentList \in FetchType
  BY MaxWritesAssumption DEF SentList, NoRows, Rows, FetchType
<1>2. /\ fetches' \subseteq FetchType
      /\ \A f, g \in fetches' : f = g
      /\ fetches' \subseteq fetches \union {SentList}
  <2>1. CASE fetches = {}
    BY <1>1, <2>1 DEF AskList
  <2>2. CASE fetches # {}
    BY <1>0, <2>2 DEF AskList, RowsTyped
  <2> QED BY <2>1, <2>2
<1>3. cache'.v <= store.v /\ list'.newest <= store.v
  BY <1>0, RowNumbers DEF RowsTyped
<1>4. \A f \in fetches' : f = SentList \/ (f.pc = "read" /\ f.rows.v <= store.v)
  BY <1>0, <1>2 DEF RowsTyped
<1>5. list'.on \/ list'.shown.v = 0
  BY <1>0 DEF RowsTyped
<1>6. RowsTyped'
  BY <1>0, <1>2, <1>3, <1>4, <1>5 DEF RowsTyped
<1> QED BY <1>0, <1>2, <1>6, UncrossedStays DEF RowsInv

LEMMA Stored ==
  ASSUME RowsInv, NEW rows, NEW marked, rows \subseteq Names, Store(rows, marked)
  PROVE  store' \in Rows /\ store'.v = store.v + 1
<1>1. store.v \in 0..MaxWrites /\ store.v < MaxWrites /\ MaxWrites \in Nat
  BY MaxWritesAssumption DEF RowsInv, RowsTyped, Rows, Store
<1>2. store.v + 1 \in 0..MaxWrites
  BY <1>1
<1> QED BY <1>2 DEF Store, Rows

(* The server's rows change, and nothing on the page.                       *)
LEMMA StoreMoves ==
  ASSUME RowsInv, store' \in Rows, store'.v = store.v + 1, UNCHANGED <<cache, list, fetches, contents>>
  PROVE  RowsInv'
<1>0. RowsTyped /\ Uncrossed
  BY DEF RowsInv
<1>1. \A f \in fetches : f = SentList \/ (f.pc = "read" /\ f.rows.v <= store'.v)
  <2> SUFFICES ASSUME NEW f \in fetches, f # SentList PROVE f.pc = "read" /\ f.rows.v <= store'.v
    OBVIOUS
  <2>1. f.pc = "read" /\ f.rows.v <= store.v /\ f.rows.v \in Nat /\ store.v \in Nat
    BY <1>0, RowNumbers DEF RowsTyped
  <2> QED BY <2>1
<1>2. cache.v <= store'.v /\ list.newest <= store'.v /\ contents.rows.v <= store'.v
  BY <1>0, RowNumbers DEF RowsTyped
<1>3. RowsTyped'
  BY <1>0, <1>1, <1>2 DEF RowsTyped
<1> QED BY <1>0, <1>3 DEF RowsInv, Uncrossed

LEMMA ListMoves ==
  ASSUME RowsInv, UNCHANGED <<store, cache, fetches, contents>>,
         list'.shown = list.shown, list'.newest = list.newest, list'.on = list.on,
         list' \in ListType
  PROVE  RowsInv'
BY DEF RowsInv, RowsTyped, Uncrossed

LEMMA LeftList ==
  /\ OffScreen \in ListType /\ OffScreen.newest = 0 /\ OffScreen.shown.v = 0 /\ ~OffScreen.on
  /\ NoRows \in Rows /\ NoRows.v = 0
<1>1. NoRows \in Rows /\ NoRows.v = 0
  BY MaxWritesAssumption DEF NoRows, Rows
<1>2. 0 \in 0..MaxWrites
  BY MaxWritesAssumption
<1> QED BY <1>1, <1>2 DEF OffScreen, ListType

(* Newer rows are shown, older ones too.                                    *)
LEMMA RowsShown ==
  ASSUME RowsTyped, NEW rows \in Rows
  PROVE  /\ ShowRows(rows) \in ListType /\ ShowRows(rows).shown = rows
         /\ ShowRows(rows).on = list.on
         /\ ShowRows(rows).newest = IF rows.v > list.newest THEN rows.v ELSE list.newest
<1>1. ShowRows(rows) =
        [list EXCEPT !.shown = rows, !.newest = IF rows.v > list.newest THEN rows.v ELSE list.newest]
  BY DEF ShowRows
<1>2. list \in ListType /\ rows.v \in 0..MaxWrites
  BY DEF RowsTyped, Rows
<1> QED BY <1>1, <1>2 DEF ListType

(* What the answers with the contents do to the list.                       *)
LEMMA OverContents ==
  ASSUME contents \in ContentsType
  PROVE  /\ ContentsOver \in ContentsType /\ ContentsOver.rows = NoRows
         /\ ContentsOver.waiting = <<>> /\ ContentsOver.crossed = contents.crossed
BY LeftList, EmptySeq DEF ContentsOver, ContentsType

LEMMA ReplacedKeeps ==
  ASSUME RowsInv, contents \in ContentsType, ListReplaced, store' = store PROVE RowsInv'
<1> DEFINE late == contents.rows.v < list.newest
           behind == \E query \in fetches : query.pc = "read" /\ query.rows.v < contents.rows.v
<1>0. RowsTyped /\ Uncrossed /\ contents.rows \in Rows /\ contents.rows.v <= store.v
  BY DEF RowsInv, RowsTyped
<1>1. /\ contents' \in ContentsType /\ contents'.rows = NoRows
      /\ contents'.crossed = (contents.crossed \/ late \/ behind)
  <2>1. contents' = [ContentsOver EXCEPT !.crossed = contents.crossed \/ late \/ behind]
    BY OverContents DEF ListReplaced
  <2>2. (contents.crossed \/ late \/ behind) \in BOOLEAN
    BY <1>0 DEF RowsTyped
  <2> HIDE DEF late, behind
  <2> QED BY <2>1, <2>2, OverContents DEF ContentsType
<1>2. /\ cache' = contents.rows /\ fetches' = fetches
      /\ \/ list.on /\ list' = ShowRows(contents.rows)
         \/ list' = list
  BY DEF ListReplaced
<1>3. /\ list' \in ListType /\ list'.newest <= store.v /\ (list'.on \/ list'.shown.v = 0)
      /\ \/ list' = list
         \/ /\ list'.shown = contents.rows
            /\ list'.newest = IF contents.rows.v > list.newest THEN contents.rows.v ELSE list.newest
  <2>1. CASE list.on /\ list' = ShowRows(contents.rows)
    <3>1. /\ list' \in ListType /\ list'.on /\ list'.shown = contents.rows
          /\ list'.newest = IF contents.rows.v > list.newest THEN contents.rows.v ELSE list.newest
      BY <1>0, <2>1, RowsShown
    <3>2. list.newest <= store.v
      BY <1>0 DEF RowsTyped
    <3> QED BY <1>0, <3>1, <3>2
  <2>2. CASE list' = list
    BY <1>0, <2>2 DEF RowsTyped
  <2> QED BY <1>2, <2>1, <2>2
<1>4. RowsTyped'
  <2>1. contents'.rows \in Rows /\ contents'.rows.v <= store.v /\ contents'.crossed \in BOOLEAN
    BY <1>0, <1>1, LeftList, RowNumbers DEF ContentsType
  <2> QED BY <1>0, <1>2, <1>3, <2>1 DEF RowsTyped
<1>5. Uncrossed'
  <2> SUFFICES ASSUME ~contents'.crossed
               PROVE  /\ \A f \in fetches : f = SentList \/ (cache'.v <= f.rows.v /\ list'.newest <= f.rows.v)
                      /\ list'.shown.v \in {0, list'.newest}
    BY <1>2 DEF Uncrossed
  <2>1. ~contents.crossed /\ ~late /\ ~behind
    BY <1>1
  <2>2. /\ \A f \in fetches : f = SentList \/ (cache.v <= f.rows.v /\ list.newest <= f.rows.v)
        /\ list.shown.v \in {0, list.newest}
    BY <1>0, <2>1 DEF Uncrossed
  <2>3. list.newest <= contents.rows.v /\ contents.rows.v \in Nat /\ list.newest \in Nat
    BY <1>0, <2>1, RowNumbers
  <2>4. list' = list \/ (list'.shown.v = contents.rows.v /\ list'.newest = contents.rows.v)
    BY <1>3, <2>3
  <2>5. ASSUME NEW f \in fetches, f # SentList
        PROVE  cache'.v <= f.rows.v /\ list'.newest <= f.rows.v
    <3>1. f.pc = "read" /\ f.rows.v \in Nat /\ list.newest <= f.rows.v
      BY <1>0, <2>2, <2>5, RowNumbers DEF RowsTyped
    <3>2. contents.rows.v <= f.rows.v
      BY <2>1, <2>3, <3>1
    <3>3. cache'.v = contents.rows.v /\ list'.newest \in {list.newest, contents.rows.v}
      BY <1>2, <2>4
    <3> QED BY <3>1, <3>2, <3>3
  <2>6. list'.shown.v \in {0, list'.newest}
    BY <2>2, <2>4
  <2> QED BY <2>5, <2>6
<1> QED BY <1>4, <1>5 DEF RowsInv

LEMMA TornKeeps ==
  ASSUME RowsInv, contents \in ContentsType, ListTorn, store' = store PROVE RowsInv'
<1>0. RowsTyped /\ Uncrossed /\ list \in ListType /\ store.v \in Nat
  BY RowNumbers DEF RowsInv, RowsTyped
<1>1. /\ cache' = NoRows /\ contents' = ContentsOver
      /\ \/ list' = [list EXCEPT !.shown = NoRows] /\ AskList
         \/ UNCHANGED <<list, fetches>>
  BY DEF ListTorn
<1>2. /\ contents'.rows = NoRows /\ contents'.crossed = contents.crossed
      /\ NoRows \in Rows /\ NoRows.v = 0 /\ 0 <= store.v
  BY <1>0, <1>1, OverContents, LeftList
<1>3. CASE list' = [list EXCEPT !.shown = NoRows] /\ AskList
  <2>1. list' \in ListType /\ list'.newest = list.newest /\ list'.shown.v = 0 /\ list'.on = list.on
    BY <1>0, <1>2, <1>3 DEF ListType
  <2> QED BY <1>1, <1>2, <1>3, <2>1, AskedList
<1>4. CASE UNCHANGED <<list, fetches>>
  <2>1. RowsTyped'
    BY <1>0, <1>1, <1>2, <1>4 DEF RowsTyped
  <2> QED BY <1>0, <1>1, <1>2, <1>4, <2>1, UncrossedStays DEF RowsInv
<1> QED BY <1>1, <1>3, <1>4

LEMMA ContentsMove ==
  ASSUME ListInv, LeaveList \/ (\E n \in Names : View(n)) \/ ReadContents \/ ContentsFail
  PROVE  /\ contents'.crossed = contents.crossed
         /\ contents'.rows \in Rows /\ contents'.rows.v <= store.v
<1>0. contents \in ContentsType /\ contents.rows \in Rows /\ contents.rows.v <= store.v /\ store \in Rows
      /\ store.v \in Nat
  BY RowNumbers DEF ListInv, RowsInv, RowsTyped, ViewInv
<1>1. CASE LeaveList
  <2>1. contents' = [contents EXCEPT !.waiting = <<>>]
    BY <1>1 DEF LeaveList
  <2> QED BY <1>0, <2>1 DEF ContentsType
<1>2. CASE \E n \in Names : View(n)
  <2>1. \/ contents' = contents
        \/ \E n \in Names, pc \in {"none", "sent", "read"} :
             contents' = [contents EXCEPT !.waiting = Append(contents.waiting, n), !.pc = pc]
    <3>1. contents.pc \in {"none", "sent", "read"}
      BY <1>0 DEF ContentsType
    <3> QED BY <1>2, <3>1 DEF View
  <2> QED BY <1>0, <2>1 DEF ContentsType
<1>3. CASE ReadContents
  <2>1. contents' = [contents EXCEPT !.pc = "read", !.rows = store]
    BY <1>3 DEF ReadContents
  <2> QED BY <1>0, <2>1 DEF ContentsType
<1>4. CASE ContentsFail
  <2>1. contents' = ContentsOver
    BY <1>4 DEF ContentsFail
  <2> QED BY <1>0, <2>1, OverContents, LeftList
<1> QED BY <1>1, <1>2, <1>3, <1>4

(* The contents come and go, and nothing else but the page itself.          *)
LEMMA ContentsPass ==
  ASSUME RowsInv, UNCHANGED <<store, cache, fetches>>,
         contents'.crossed = contents.crossed, contents'.rows \in Rows, contents'.rows.v <= store.v,
         list' = list \/ list' = OffScreen
  PROVE  RowsInv'
<1>0. RowsTyped /\ Uncrossed /\ store.v \in Nat
  BY RowNumbers DEF RowsInv
<1>1. list' \in ListType /\ list'.newest <= store.v /\ (list'.on \/ list'.shown.v = 0)
  BY <1>0, LeftList DEF RowsTyped
<1>2. RowsTyped'
  BY <1>0, <1>1 DEF RowsTyped
<1> QED BY <1>0, <1>2, UncrossedStays, LeftList DEF RowsInv

LEMMA RowsAct ==
  ASSUME ListInv, ListNext
  PROVE  RowsInv'
<1>0. /\ RowsInv /\ RowsTyped /\ Uncrossed /\ list \in ListType /\ fetches \subseteq FetchType
      /\ store \in Rows /\ cache \in Rows /\ contents \in ContentsType
      /\ contents.rows \in Rows /\ contents.rows.v <= store.v
  BY DEF ListInv, RowsInv, RowsTyped, ViewInv
<1>n. /\ store.v \in Nat /\ cache.v \in Nat /\ list.newest \in Nat /\ contents.rows.v \in Nat
      /\ \A f \in fetches : f.rows \in Rows /\ f.rows.v \in Nat
  BY <1>0, RowNumbers
<1>1. CASE OthersWrite
  <2>1. PICK rows, marked : rows \subseteq Names /\ Store(rows, marked)
    BY <1>0, <1>1 DEF OthersWrite, Rows
  <2> QED BY <1>0, <1>1, <2>1, Stored, StoreMoves DEF OthersWrite
<1>2. CASE OpenList
  <2>1. CASE cache = NoRows
    <3>1. AskList /\ UNCHANGED <<store, cache, contents>> /\ list' = [OffScreen EXCEPT !.on = TRUE]
      BY <1>2, <2>1 DEF OpenList
    <3>2. list' \in ListType /\ list'.newest = 0 /\ list'.shown.v = 0 /\ list'.on
      BY <3>1, LeftList DEF ListType
    <3> QED BY <1>0, <3>1, <3>2, AskedList
  <2>2. CASE cache # NoRows
    <3>1. /\ UNCHANGED <<store, cache, fetches, contents>>
          /\ list' = [OffScreen EXCEPT !.on = TRUE, !.shown = cache, !.newest = cache.v]
      BY <1>2, <2>2 DEF OpenList
    <3>2. cache.v \in 0..MaxWrites
      BY <1>0 DEF Rows
    <3>3. list' \in ListType /\ list'.newest = cache.v /\ list'.shown = cache /\ list'.on
      BY <1>0, <3>1, <3>2, LeftList DEF ListType
    <3>4. RowsTyped'
      BY <1>0, <3>1, <3>3 DEF RowsTyped
    <3>5. Uncrossed'
      BY <1>0, <3>1, <3>3 DEF Uncrossed
    <3> QED BY <3>4, <3>5 DEF RowsInv
  <2> QED BY <2>1, <2>2
<1>3. CASE Poll
  <2>1. AskList /\ UNCHANGED <<store, cache, list, contents>>
    BY <1>3 DEF Poll
  <2> QED BY <1>0, <2>1, AskedList
<1>4. CASE ReadList
  <2> DEFINE read == [pc |-> "read", rows |-> store]
  <2>1. fetches = {SentList}
    BY <1>0, <1>4 DEF ReadList, RowsTyped
  <2>2. fetches' = {read} /\ UNCHANGED <<store, cache, list, contents>>
    BY <1>4, <2>1 DEF ReadList
  <2>3. read \in FetchType /\ read.rows = store /\ read.pc = "read"
    BY <1>0 DEF FetchType
  <2> HIDE DEF read
  <2>4. RowsTyped'
    BY <1>0, <1>n, <2>2, <2>3 DEF RowsTyped
  <2>5. cache.v <= store.v /\ list.newest <= store.v
    BY <1>0 DEF RowsTyped
  <2>6. Uncrossed'
    BY <1>0, <2>2, <2>3, <2>5 DEF Uncrossed
  <2> QED BY <2>4, <2>6 DEF RowsInv
<1>5. CASE AnswerList
  <2>1. PICK answer \in fetches \ {SentList} :
          /\ fetches' = fetches \ {answer} /\ cache' = answer.rows
          /\ list' = IF list.on THEN ShowRows(answer.rows) ELSE list
          /\ contents' = [contents EXCEPT !.crossed = @ /\ answer.rows.v < list.newest]
    BY <1>5 DEF AnswerList
  <2>2. fetches' = {} /\ store' = store
    BY <1>0, <1>5, <2>1 DEF AnswerList, RowsTyped
  <2>3. /\ answer.rows \in Rows /\ answer.rows.v <= store.v /\ answer.rows.v \in Nat
        /\ answer.rows.v \in 0..MaxWrites
    BY <1>0, <1>n, <2>1 DEF RowsTyped, Rows
  <2> DEFINE b == contents.crossed /\ answer.rows.v < list.newest
  <2>4. contents'.rows = contents.rows /\ contents'.crossed = b /\ b \in BOOLEAN
    <3>1. contents' = [contents EXCEPT !.crossed = b] /\ b \in BOOLEAN
      BY <2>1
    <3> HIDE DEF b
    <3> QED BY <1>0, <3>1 DEF ContentsType
  <2>5. /\ list' \in ListType
        /\ list' = list \/ (/\ list'.shown = answer.rows
                            /\ list'.newest = IF answer.rows.v > list.newest THEN answer.rows.v ELSE list.newest)
    BY <1>0, <2>1, <2>3, RowsShown
  <2>6. list'.newest <= store.v /\ (list'.on \/ list'.shown.v = 0)
    BY <1>0, <2>1, <2>3, <2>5, RowsShown DEF RowsTyped
  <2>7. RowsTyped'
    <3> HIDE DEF b
    <3> QED BY <1>0, <2>1, <2>2, <2>3, <2>4, <2>5, <2>6 DEF RowsTyped
  <2>8. Uncrossed'
    <3> SUFFICES ASSUME ~b PROVE list'.shown.v \in {0, list'.newest}
      BY <2>2, <2>4 DEF Uncrossed
    <3>1. CASE contents.crossed
      <4>1. list.newest <= answer.rows.v
        BY <1>n, <2>3, <3>1
      <4>2. CASE list.on
        <5>1. /\ list'.shown = answer.rows
              /\ list'.newest = IF answer.rows.v > list.newest THEN answer.rows.v ELSE list.newest
          BY <1>0, <2>1, <2>3, <4>2, RowsShown
        <5>2. list'.newest = answer.rows.v
          BY <1>n, <2>3, <4>1, <5>1
        <5> QED BY <5>1, <5>2
      <4>3. CASE ~list.on
        <5>1. list'.shown.v = 0
          BY <1>0, <2>1, <4>3 DEF RowsTyped
        <5> QED BY <5>1
      <4> QED BY <4>2, <4>3
    <3>2. CASE ~contents.crossed
      <4>1. list.newest <= answer.rows.v /\ list.shown.v \in {0, list.newest}
        BY <1>0, <2>1, <3>2 DEF Uncrossed
      <4> QED BY <1>n, <2>3, <2>5, <4>1
    <3> QED BY <3>1, <3>2
  <2> QED BY <2>7, <2>8 DEF RowsInv
<1>6. CASE ListFails
  <2>1. fetches' = {} /\ UNCHANGED <<store, cache, contents>>
    BY <1>0, <1>6 DEF ListFails, RowsTyped
  <2>2. list' = IF list.on THEN [list EXCEPT !.shown = NoRows, !.excused = TRUE] ELSE list
    BY <1>6 DEF ListFails
  <2>3. /\ list' \in ListType /\ list'.newest = list.newest /\ list'.on = list.on
        /\ list'.shown.v = 0 \/ list' = list
    BY <1>0, <2>2, LeftList DEF ListType
  <2>4. RowsTyped'
    BY <1>0, <2>1, <2>3 DEF RowsTyped
  <2> QED BY <1>0, <2>1, <2>3, <2>4, UncrossedStays DEF RowsInv
<1>7. CASE OnRowActivate \/ GoElsewhere
  <2>1. LeaveList
    BY <1>7 DEF OnRowActivate, GoElsewhere
  <2>2. list' = OffScreen /\ UNCHANGED <<store, cache, fetches>>
    BY <2>1 DEF LeaveList
  <2> QED BY <1>0, <2>1, <2>2, ContentsMove, ContentsPass
<1>8. CASE \E text \in Names \union {NoName} : Search(text)
  <2>1. PICK text \in Names \union {NoName} : Search(text)
    BY <1>8
  <2>2. list' = [list EXCEPT !.search = text] /\ UNCHANGED <<store, cache, fetches, contents>>
    BY <2>1 DEF Search
  <2>3. /\ list' \in ListType /\ list'.shown = list.shown /\ list'.newest = list.newest
        /\ list'.on = list.on
    BY <1>0, <2>2 DEF ListType
  <2> QED BY <1>0, <2>2, <2>3, ListMoves
<1>9. CASE \E filter \in {"all", "manager", "worker"} : Filter(filter)
  <2>1. PICK filter \in {"all", "manager", "worker"} : Filter(filter)
    BY <1>9
  <2>2. list' = [list EXCEPT !.filter = filter] /\ UNCHANGED <<store, cache, fetches, contents>>
    BY <2>1 DEF Filter
  <2>3. /\ list' \in ListType /\ list'.shown = list.shown /\ list'.newest = list.newest
        /\ list'.on = list.on
    BY <1>0, <2>2 DEF ListType
  <2> QED BY <1>0, <2>2, <2>3, ListMoves
<1>10. CASE \E n \in Names : ToggleNodeMenu(n) \/ SetAvailability(n)
  <2>1. PICK n \in Names, chosen \in Names \union {NoName} :
          list' = [list EXCEPT !.menu = chosen] /\ UNCHANGED <<store, cache, fetches, contents>>
    <3>1. PICK n \in Names : ToggleNodeMenu(n) \/ SetAvailability(n)
      BY <1>10
    <3> QED BY <3>1 DEF ToggleNodeMenu, SetAvailability
  <2>2. /\ list' \in ListType /\ list'.shown = list.shown /\ list'.newest = list.newest
        /\ list'.on = list.on
    BY <1>0, <2>1 DEF ListType
  <2> QED BY <1>0, <2>1, <2>2, ListMoves
<1>11. CASE \E i \in DOMAIN requests : ExecuteRequest(i)
  <2>1. PICK i \in DOMAIN requests : ExecuteRequest(i)
    BY <1>11
  <2>2. requests[i] \in Asks
    BY ElementOfSeq DEF ListInv, InviteInv
  <2>3. requests[i].name \in Names
    BY <2>1, <2>2 DEF ExecuteRequest, Asks
  <2>4. Effect(requests[i].op, requests[i].name)
    BY <2>1 DEF ExecuteRequest
  <2> DEFINE op == requests[i].op
             n == requests[i].name
  <2>5. op \in {"create", "remove", "setDefault", "drain", "activate"} /\ n \in Names /\ Effect(op, n)
    BY <2>2, <2>3, <2>4 DEF Asks
  <2> HIDE DEF op, n
  <2>6. PICK rows, marked : rows \subseteq Names /\ Store(rows, marked)
    <3>1. store.rows \subseteq Names
      BY <1>0 DEF Rows
    <3> QED BY <2>5, <3>1 DEF Effect
  <2>7. UNCHANGED <<cache, list, fetches, contents>>
    BY <2>1 DEF ExecuteRequest
  <2> QED BY <1>0, <2>6, <2>7, Stored, StoreMoves
<1>12. CASE \E i \in DOMAIN requests : RequestAnswered(i)
  <2>1. PICK i \in DOMAIN requests : RequestAnswered(i)
    BY <1>12
  <2>2. requests[i] \in Asks
    BY ElementOfSeq DEF ListInv, InviteInv
  <2> DEFINE r == requests[i]
  <2>3. /\ AskList /\ UNCHANGED <<store, contents>> /\ cache' = Merge(cache, r.op, r.name)
        /\ list' = IF list.on /\ r.own
                   THEN [list EXCEPT !.shown = Merge(list.shown, r.op, r.name), !.owed = r.at, !.excused = FALSE]
                   ELSE [list EXCEPT !.shown = Merge(list.shown, r.op, r.name)]
    BY <2>1 DEF RequestAnswered
  <2>4. r.at \in 0..MaxWrites
    BY <2>2 DEF Asks
  <2>5. cache' \in Rows /\ cache'.v = cache.v
    BY <1>0, <2>3, Merged
  <2>6. Merge(list.shown, r.op, r.name) \in Rows /\ Merge(list.shown, r.op, r.name).v = list.shown.v
    BY <1>0, Merged DEF ListType
  <2> HIDE DEF r
  <2>7. /\ list' \in ListType /\ list'.newest = list.newest /\ list'.on = list.on
        /\ list'.shown = Merge(list.shown, r.op, r.name)
    BY <1>0, <2>3, <2>4, <2>6 DEF ListType
  <2>8. list'.shown.v = list.shown.v
    BY <2>6, <2>7
  <2> QED BY <1>0, <2>3, <2>5, <2>7, <2>8, AskedList
<1>13. ASSUME UNCHANGED <<store, cache, list, fetches, contents>> PROVE RowsInv'
  BY <1>0, <1>13, RowsStay DEF rowVars
<1>14. CASE \E n \in Names : SetDefault(n) \/ RemoveRow(n)
  BY <1>13, <1>14 DEF SetDefault, RemoveRow
<1>15. CASE (\E n \in Names : View(n)) \/ ReadContents \/ ContentsFail
  <2>1. UNCHANGED <<store, cache, list, fetches>>
    BY <1>15 DEF View, ReadContents, ContentsFail
  <2> QED BY <1>0, <1>15, <2>1, ContentsMove, ContentsPass
<1>16. CASE CloseView \/ CreateRequested \/ CloseDialog \/ NextStep \/ Submit
  BY <1>13, <1>16 DEF CloseView, CreateRequested, CloseDialog, NextStep, Submit
<1>17. CASE \E name \in Names \union {Spaces}, rest \in BOOLEAN : Type(name, rest)
  BY <1>13, <1>17 DEF Type
<1>18. CASE \E i \in DOMAIN requests : RequestFails(i)
  BY <1>13, <1>18 DEF RequestFails
<1>19. CASE AnswerContents
  BY <1>0, <1>19, ReplacedKeeps, TornKeeps DEF AnswerContents
<1> QED
  BY <1>1, <1>2, <1>3, <1>4, <1>5, <1>6, <1>7, <1>8, <1>9, <1>10, <1>11, <1>12, <1>14, <1>15,
     <1>16, <1>17, <1>18, <1>19 DEF ListNext
-----------------------------------------------------------------------------
(* The dialog that shows a row.                                             *)

viewVars == <<viewer, contents, listKind>>

LEMMA ViewStays == ASSUME ViewInv, UNCHANGED viewVars PROVE ViewInv'
BY DEF ViewInv, viewVars

LEMMA ViewAct ==
  ASSUME ListInv, ListNext
  PROVE  ViewInv'
<1> DEFINE V == [row : Names \union {NoName}, content : Names \union {NoName}, loading : BOOLEAN]
<1>0. /\ ViewInv /\ viewer \in V /\ contents \in ContentsType /\ contents.waiting \in Seq(Names)
      /\ store \in Rows /\ contents.crossed \in BOOLEAN /\ contents.rows.rows \subseteq Names
  BY DEF ListInv, ViewInv, RowsInv, RowsTyped, ContentsType, Rows
<1>1. ASSUME UNCHANGED viewVars PROVE ViewInv'
  BY <1>0, <1>1, ViewStays
<1>2. CASE OthersWrite \/ OpenList \/ Poll \/ ReadList \/ ListFails
  BY <1>1, <1>2 DEF OthersWrite, OpenList, Poll, ReadList, ListFails, viewVars
<1>16. CASE AnswerList
  <2>1. /\ \E b \in BOOLEAN : contents' = [contents EXCEPT !.crossed = b]
        /\ UNCHANGED <<viewer, listKind>>
    <3>1. PICK answer \in fetches : contents' = [contents EXCEPT !.crossed = @ /\ answer.rows.v < list.newest]
      BY <1>16 DEF AnswerList
    <3>2. (contents.crossed /\ answer.rows.v < list.newest) \in BOOLEAN
      OBVIOUS
    <3> QED BY <1>16, <3>1, <3>2 DEF AnswerList
  <2>2. contents' \in ContentsType /\ contents'.waiting = contents.waiting
    BY <1>0, <2>1 DEF ContentsType
  <2> QED BY <1>0, <2>1, <2>2 DEF ViewInv
<1>3. CASE OnRowActivate \/ GoElsewhere
  <2>1. LeaveList
    BY <1>3 DEF OnRowActivate, GoElsewhere
  <2>2. /\ viewer' = NoViewer /\ contents' = [contents EXCEPT !.waiting = <<>>]
        /\ listKind' = listKind
    BY <2>1 DEF LeaveList
  <2>3. viewer' \in V /\ viewer'.row = NoName
    BY <2>2 DEF NoViewer
  <2>4. contents' \in ContentsType /\ contents'.waiting = <<>>
    BY <1>0, <2>2, EmptySeq DEF ContentsType
  <2> QED BY <1>0, <2>2, <2>3, <2>4 DEF ViewInv
<1>4. CASE \E text \in Names \union {NoName} : Search(text)
  BY <1>1, <1>4 DEF Search, viewVars
<1>5. CASE \E filter \in {"all", "manager", "worker"} : Filter(filter)
  BY <1>1, <1>5 DEF Filter, viewVars
<1>6. CASE \E n \in Names : ToggleNodeMenu(n) \/ SetDefault(n) \/ RemoveRow(n) \/ SetAvailability(n)
  BY <1>1, <1>6 DEF ToggleNodeMenu, SetDefault, RemoveRow, SetAvailability, viewVars
<1>7. CASE \E n \in Names : View(n)
  <2>1. PICK n \in Names : View(n)
    BY <1>7
  <2>2. listKind' = listKind
    BY <2>1 DEF View
  <2>3. CASE /\ Tables[listKind].views = "row" /\ contents' = contents
             /\ viewer' = [NoViewer EXCEPT !.row = n]
    <3>1. viewer' \in V /\ viewer'.content = NoName
      BY <2>3 DEF NoViewer
    <3>2. contents.waiting = <<>>
      BY <1>0, <2>3 DEF ViewInv
    <3> QED BY <1>0, <2>2, <2>3, <3>1, <3>2 DEF ViewInv
  <2>4. CASE /\ Tables[listKind].views = "content"
             /\ viewer' = [row |-> n, content |-> NoName, loading |-> TRUE]
             /\ contents' = [contents EXCEPT !.waiting = Append(contents.waiting, n),
                                             !.pc = IF contents.pc = "none" THEN "sent" ELSE contents.pc]
    <3> DEFINE more == Append(contents.waiting, n)
    <3>1. more \in Seq(Names) /\ Last(more) = n
      BY <1>0, AppendProperties DEF Last
    <3> HIDE DEF more
    <3>2. viewer' \in V /\ viewer'.content = NoName /\ viewer'.row = n
      BY <2>4
    <3>3. contents' \in ContentsType /\ contents'.waiting = more
      BY <1>0, <2>4, <3>1 DEF more, ContentsType
    <3> QED BY <2>2, <2>4, <3>1, <3>2, <3>3 DEF ViewInv
  <2> QED BY <2>1, <2>3, <2>4 DEF View
<1>8. CASE CloseView
  <2>1. viewer' = [viewer EXCEPT !.row = NoName] /\ UNCHANGED <<contents, listKind>>
    BY <1>8 DEF CloseView
  <2>2. viewer' \in V /\ viewer'.row = NoName
    BY <1>0, <2>1
  <2> QED BY <1>0, <2>1, <2>2 DEF ViewInv
<1>9. CASE ReadContents
  <2>1. /\ contents' = [contents EXCEPT !.pc = "read", !.rows = store]
        /\ UNCHANGED <<viewer, listKind>>
    BY <1>9 DEF ReadContents
  <2>2. contents' \in ContentsType /\ contents'.waiting = contents.waiting
    BY <1>0, <2>1 DEF ContentsType
  <2> QED BY <1>0, <2>1, <2>2 DEF ViewInv
<1>10. ContentsOver \in ContentsType /\ ContentsOver.waiting = <<>>
  BY <1>0, OverContents
<1>11. CASE AnswerContents
  <2> DEFINE n == Last(contents.waiting)
             c == IF n \in contents.rows.rows THEN n ELSE NoName
  <2>1. /\ listKind' = listKind
        /\ viewer' = IF contents.waiting = <<>> THEN viewer
                     ELSE [viewer EXCEPT !.loading = FALSE, !.content = c]
    BY <1>11 DEF AnswerContents, ShowContent
  <2>2. c \in Names \union {NoName} /\ c \in {n, NoName}
    BY <1>0
  <2>3. contents' \in ContentsType /\ contents'.waiting = <<>>
    <3>1. \E b \in BOOLEAN : contents' = [ContentsOver EXCEPT !.crossed = b]
      <4>1. CASE ListReplaced
        <5> DEFINE b == \/ ContentsOver.crossed
                        \/ contents.rows.v < list.newest
                        \/ \E query \in fetches : query.pc = "read" /\ query.rows.v < contents.rows.v
        <5>1. contents' = [ContentsOver EXCEPT !.crossed = b]
          BY <4>1 DEF ListReplaced
        <5>2. b \in BOOLEAN
          BY <1>10 DEF ContentsType
        <5> HIDE DEF b
        <5> QED BY <5>1, <5>2
      <4>2. CASE ListTorn
        <5>1. contents' = [ContentsOver EXCEPT !.crossed = ContentsOver.crossed]
          BY <1>10, <4>2 DEF ListTorn, ContentsType
        <5> QED BY <1>10, <5>1 DEF ContentsType
      <4> QED BY <1>11, <4>1, <4>2 DEF AnswerContents
    <3> QED BY <1>10, <3>1 DEF ContentsType
  <2>4. CASE contents.waiting = <<>>
    BY <1>0, <2>1, <2>3, <2>4 DEF ViewInv
  <2>5. CASE contents.waiting # <<>>
    <3>1. viewer.row # NoName => viewer.row = n
      BY <1>0, <2>5 DEF ViewInv
    <3> HIDE DEF n, c
    <3>2. viewer' \in V /\ viewer'.row = viewer.row /\ viewer'.content = c
      BY <1>0, <2>1, <2>2, <2>5
    <3> QED BY <2>1, <2>2, <2>3, <3>1, <3>2 DEF ViewInv
  <2> QED BY <2>4, <2>5
<1>12. CASE ContentsFail
  <2>1. contents' = ContentsOver /\ UNCHANGED <<viewer, listKind>>
    BY <1>12 DEF ContentsFail
  <2> QED BY <1>0, <1>10, <2>1 DEF ViewInv
<1>13. CASE CreateRequested \/ CloseDialog \/ NextStep \/ Submit
  BY <1>1, <1>13 DEF CreateRequested, CloseDialog, NextStep, Submit, viewVars
<1>14. CASE \E name \in Names \union {Spaces}, rest \in BOOLEAN : Type(name, rest)
  BY <1>1, <1>14 DEF Type, viewVars
<1>15. CASE \E i \in DOMAIN requests : ExecuteRequest(i) \/ RequestAnswered(i) \/ RequestFails(i)
  BY <1>1, <1>15 DEF ExecuteRequest, RequestAnswered, RequestFails, viewVars
<1> QED
  BY <1>2, <1>3, <1>4, <1>5, <1>6, <1>7, <1>8, <1>9, <1>11, <1>12, <1>13, <1>14, <1>15,
     <1>16 DEF ListNext

-----------------------------------------------------------------------------
(* The dialog that creates one.                                             *)

DialogType ==
  [open : BOOLEAN, name : Names \union {NoName, Spaces}, rest : BOOLEAN, step : {1, 2},
   submitting : BOOLEAN, late : BOOLEAN]

LEMMA InviteStays ==
  ASSUME InviteInv, UNCHANGED <<dialog, requests, listKind>> PROVE InviteInv'
BY DEF InviteInv, Invited

(* The dialog is filled in.                                                 *)
LEMMA DialogMoves ==
  ASSUME InviteInv, UNCHANGED <<requests, listKind>>, dialog' \in DialogType,
         dialog'.submitting = dialog.submitting, dialog'.late = dialog.late,
         dialog.open => dialog'.open, dialog'.open => listKind \in DOMAIN Forms
  PROVE  InviteInv'
BY DEF InviteInv, Invited, DialogType

(* Requests that are none of a dialog's come and go, or change their state. *)
LEMMA OthersMove ==
  ASSUME InviteInv, UNCHANGED <<dialog, listKind>>, requests' \in Seq(Asks),
         \A i \in DOMAIN requests' : requests'[i].current => requests'[i].own,
         Invited' = {} <=> Invited = {},
         (\A i, j \in Invited : i = j) => \A i, j \in Invited' : i = j
  PROVE  InviteInv'
BY DEF InviteInv

(* The dialog is closed, and has no request any more.                       *)
LEMMA DialogCloses ==
  ASSUME InviteInv, dialog' = NoDialog, listKind' = listKind, requests' \in Seq(Asks),
         \A i \in DOMAIN requests' : requests'[i].current => requests'[i].own,
         Invited' = {}
  PROVE  InviteInv'
<1>1. dialog' \in DialogType /\ ~dialog'.open /\ ~dialog'.submitting /\ ~dialog'.late
  BY DEF NoDialog, DialogType
<1> QED BY <1>1 DEF InviteInv, DialogType

LEMMA AskFields ==
  ASSUME requests \in Seq(Asks)
  PROVE  /\ Len(requests) \in Nat /\ DOMAIN requests = 1..Len(requests)
         /\ \A i \in DOMAIN requests : requests[i] \in Asks
BY ElementOfSeq, LenProperties

(* A request of a row's.                                                    *)
LEMMA Asked ==
  ASSUME InviteInv, NEW op \in {"create", "remove", "setDefault", "drain", "activate"},
         NEW n \in Names \union {Spaces}, SendRequest(op, n)
  PROVE  /\ requests' \in Seq(Asks)
         /\ \A i \in DOMAIN requests' : requests'[i].current => requests'[i].own
         /\ op # "create" => Invited' = Invited
         /\ op = "create" => Invited' = Invited \union {Len(requests) + 1}
<1> DEFINE r == [op |-> op, name |-> n, own |-> TRUE, current |-> TRUE, pc |-> "sent", at |-> 0]
           last == Len(requests) + 1
<1>0. /\ requests \in Seq(Asks)
      /\ \A i \in DOMAIN requests : requests[i].current => requests[i].own
  BY DEF InviteInv
<1>1. requests' = Append(requests, r)
  BY DEF SendRequest
<1>2. r \in Asks /\ r.op = op /\ r.own /\ r.current
  BY MaxWritesAssumption DEF Asks
<1> HIDE DEF r
<1>3. /\ requests' \in Seq(Asks) /\ DOMAIN requests' = 1..last /\ requests'[last] = r
      /\ \A i \in 1..Len(requests) : requests'[i] = requests[i]
  <2>1. /\ Len(requests') = last /\ requests' \in Seq(Asks) /\ requests'[last] = r
        /\ \A i \in 1..Len(requests) : requests'[i] = requests[i]
    BY <1>0, <1>1, <1>2, AppendProperties
  <2> QED BY <2>1, LenProperties
<1>4. Len(requests) \in Nat /\ DOMAIN requests = 1..Len(requests)
  BY <1>0, LenProperties
<1>5. \A i \in DOMAIN requests' : i = last \/ i \in DOMAIN requests
  BY <1>3, <1>4
<1>6. \A i \in DOMAIN requests : i \in DOMAIN requests' /\ i # last /\ requests'[i] = requests[i]
  BY <1>3, <1>4
<1>7. last \in DOMAIN requests' /\ requests'[last] = r
  BY <1>3, <1>4
<1> HIDE DEF last
<1>8. \A i \in DOMAIN requests' : requests'[i].current => requests'[i].own
  BY <1>0, <1>2, <1>5, <1>6, <1>7
<1>9. op # "create" => Invited' = Invited
  BY <1>2, <1>5, <1>6, <1>7 DEF Invited
<1>10. op = "create" => Invited' = Invited \union {last}
  BY <1>2, <1>5, <1>6, <1>7 DEF Invited
<1> QED BY <1>3, <1>8, <1>9, <1>10 DEF last
(* A function on an initial interval is a sequence.                         *)
LEMMA FunctionIsSequence ==
  ASSUME NEW S, NEW n \in Nat, NEW f \in [1..n -> S]
  PROVE  f \in Seq(S)
BY SeqDef

(* The requests of the dialog's are disowned.                               *)
LEMMA ListDisowned ==
  ASSUME requests \in Seq(Asks), NEW own \in BOOLEAN,
         \A i \in DOMAIN requests : requests[i].current => requests[i].own,
         requests' = [i \in DOMAIN requests |->
                        IF own THEN [requests[i] EXCEPT !.current = FALSE]
                        ELSE [requests[i] EXCEPT !.own = FALSE, !.current = FALSE]]
  PROVE  /\ requests' \in Seq(Asks)
         /\ \A i \in DOMAIN requests' : requests'[i].current => requests'[i].own
         /\ Invited' = {}
<1>1. ASSUME NEW i \in DOMAIN requests PROVE requests'[i] \in Asks /\ ~requests'[i].current
  <2>1. requests[i] \in Asks
    BY AskFields
  <2>2. CASE own
    <3>1. requests'[i] = [requests[i] EXCEPT !.current = FALSE]
      BY <2>2
    <3> QED BY <2>1, <3>1 DEF Asks
  <2>3. CASE ~own
    <3>1. requests'[i] = [requests[i] EXCEPT !.own = FALSE, !.current = FALSE]
      BY <2>3
    <3> QED BY <2>1, <3>1 DEF Asks
  <2> QED BY <2>2, <2>3
<1>2. requests' \in [1..Len(requests) -> Asks] /\ DOMAIN requests' = DOMAIN requests
  <2>1. DOMAIN requests = 1..Len(requests) /\ DOMAIN requests' = DOMAIN requests
    BY AskFields
  <2>2. requests' = [i \in 1..Len(requests) |-> requests'[i]]
    BY <2>1
  <2>3. \A i \in 1..Len(requests) : requests'[i] \in Asks
    BY <1>1, <2>1
  <2> HIDE <1>1
  <2> QED BY <2>1, <2>2, <2>3
<1>3. requests' \in Seq(Asks)
  BY <1>2, AskFields, FunctionIsSequence
<1> QED BY <1>1, <1>2, <1>3 DEF Invited

(* A request is gone.                                                       *)
LEMMA RequestGone ==
  ASSUME InviteInv, NEW i \in DOMAIN requests, requests' = RemoveAt(requests, i)
  PROVE  /\ requests' \in Seq(Asks)
         /\ \A j \in DOMAIN requests' : requests'[j].current => requests'[j].own
         /\ \A j \in DOMAIN requests' : requests'[j] \in Asks
         /\ DOMAIN requests' = 1..(Len(requests) - 1)
         /\ Invited' # {} => Invited \ {i} # {}
         /\ Invited \ {i} # {} => Invited' # {}
         /\ (\A j, k \in Invited : j = k) => \A j, k \in Invited' : j = k
<1>0. /\ requests \in Seq(Asks)
      /\ \A j \in DOMAIN requests : requests[j].current => requests[j].own
  BY DEF InviteInv
<1> DEFINE n == Len(requests)
           From(j) == IF j < i THEN j ELSE j + 1
<1>1. n \in Nat /\ DOMAIN requests = 1..n /\ i \in 1..n
  BY <1>0, AskFields
<1>2. /\ requests' \in Seq(Asks) /\ DOMAIN requests' = 1..(n - 1)
      /\ \A j \in 1..(n - 1) : requests'[j] = requests[From(j)]
  <2>1. /\ requests' \in Seq(Asks) /\ DOMAIN requests' = 1..(n - 1)
        /\ \A j \in 1..(n - 1) : requests'[j] = IF j < i THEN requests[j] ELSE requests[j + 1]
    BY <1>0, Removed
  <2> QED BY <2>1
<1> HIDE DEF n
<1>3. ASSUME NEW j \in 1..(n - 1)
      PROVE  /\ From(j) \in 1..n /\ From(j) # i
             /\ From(j) \in DOMAIN requests /\ j \in DOMAIN requests'
  BY <1>1, <1>2
<1>4. ASSUME NEW k \in 1..n, k # i PROVE \E j \in 1..(n - 1) : From(j) = k
  <2>1. CASE k < i
    <3>1. k \in 1..(n - 1) /\ From(k) = k
      BY <1>1, <2>1
    <3> QED BY <3>1
  <2>2. CASE ~(k < i)
    <3>1. k - 1 \in 1..(n - 1) /\ From(k - 1) = k
      BY <1>1, <1>4, <2>2
    <3> QED BY <3>1
  <2> QED BY <2>1, <2>2
<1>5. ASSUME NEW j \in 1..(n - 1), NEW k \in 1..(n - 1), From(j) = From(k) PROVE j = k
  BY <1>1, <1>5
<1> HIDE DEF From
<1>6. \A j \in DOMAIN requests' : requests'[j] \in Asks
  BY <1>2, ElementOfSeq, LenProperties
<1>7. \A j \in DOMAIN requests' : requests'[j].current => requests'[j].own
  BY <1>0, <1>2, <1>3
<1>8. \A j \in 1..(n - 1) : j \in Invited' <=> From(j) \in Invited
  BY <1>1, <1>2, <1>3 DEF Invited
<1>9. Invited' # {} => Invited \ {i} # {}
  BY <1>2, <1>3, <1>8 DEF Invited
<1>10. Invited \ {i} # {} => Invited' # {}
  <2>1. ASSUME NEW k \in Invited \ {i} PROVE Invited' # {}
    <3>1. PICK j \in 1..(n - 1) : From(j) = k
      BY <1>1, <1>4 DEF Invited
    <3> QED BY <1>8, <3>1
  <2> QED BY <2>1
<1>11. (\A j, k \in Invited : j = k) => \A j, k \in Invited' : j = k
  <2>1. \A j \in Invited' : j \in 1..(n - 1)
    BY <1>2 DEF Invited
  <2> QED BY <1>5, <1>8, <2>1
<1> QED BY <1>2, <1>6, <1>7, <1>9, <1>10, <1>11 DEF n

LEMMA InviteAct ==
  ASSUME ListInv, ListNext
  PROVE  InviteInv'
<1>0. /\ InviteInv /\ dialog \in DialogType /\ requests \in Seq(Asks)
      /\ \A i \in DOMAIN requests : requests[i].current => requests[i].own
      /\ store.v \in 0..MaxWrites
  BY DEF ListInv, InviteInv, DialogType, RowsInv, RowsTyped, Rows
<1>1. ASSUME UNCHANGED <<dialog, requests, listKind>> PROVE InviteInv'
  BY <1>0, <1>1, InviteStays
<1>2. CASE OthersWrite \/ OpenList \/ Poll \/ ReadList \/ AnswerList \/ ListFails
  BY <1>1, <1>2 DEF OthersWrite, OpenList, Poll, ReadList, AnswerList, ListFails
<1>3. CASE OnRowActivate \/ GoElsewhere
  <2>1. LeaveList
    BY <1>3 DEF OnRowActivate, GoElsewhere
  <2>2. /\ dialog' = NoDialog /\ listKind' = listKind
        /\ requests' = [i \in DOMAIN requests |->
             IF FALSE THEN [requests[i] EXCEPT !.current = FALSE]
             ELSE [requests[i] EXCEPT !.own = FALSE, !.current = FALSE]]
    BY <2>1 DEF LeaveList
  <2>3. FALSE \in BOOLEAN
    OBVIOUS
  <2> QED BY <1>0, <2>2, <2>3, ListDisowned, DialogCloses
<1>4. CASE \E text \in Names \union {NoName} : Search(text)
  BY <1>1, <1>4 DEF Search
<1>5. CASE \E filter \in {"all", "manager", "worker"} : Filter(filter)
  BY <1>1, <1>5 DEF Filter
<1>6. CASE \E n \in Names : ToggleNodeMenu(n) \/ View(n)
  BY <1>1, <1>6 DEF ToggleNodeMenu, View
<1>7. CASE \E n \in Names : SetDefault(n) \/ RemoveRow(n) \/ SetAvailability(n)
  <2>1. PICK n \in Names, op \in {"setDefault", "remove", "drain", "activate"} :
          SendRequest(op, n) /\ UNCHANGED <<dialog, listKind>>
    <3>1. PICK n \in Names : SetDefault(n) \/ RemoveRow(n) \/ SetAvailability(n)
      BY <1>7
    <3>2. CASE SetDefault(n) \/ RemoveRow(n)
      BY <3>2 DEF SetDefault, RemoveRow
    <3>3. CASE SetAvailability(n)
      BY <3>3 DEF SetAvailability
    <3> QED BY <3>1, <3>2, <3>3
  <2>2. op # "create" /\ op \in {"create", "remove", "setDefault", "drain", "activate"}
    OBVIOUS
  <2>3. /\ requests' \in Seq(Asks) /\ Invited' = Invited
        /\ \A i \in DOMAIN requests' : requests'[i].current => requests'[i].own
    BY <1>0, <2>1, <2>2, Asked
  <2> QED BY <1>0, <2>1, <2>3, OthersMove
<1>8. CASE CloseView \/ ReadContents \/ AnswerContents \/ ContentsFail
  BY <1>1, <1>8 DEF CloseView, ReadContents, AnswerContents, ContentsFail
<1>9. CASE CreateRequested
  <2>1. /\ listKind \in DOMAIN Forms /\ dialog' = [dialog EXCEPT !.open = TRUE]
        /\ UNCHANGED <<requests, listKind>>
    BY <1>9 DEF CreateRequested
  <2>2. /\ dialog' \in DialogType /\ dialog'.open /\ dialog'.submitting = dialog.submitting
        /\ dialog'.late = dialog.late
    BY <1>0, <2>1 DEF DialogType
  <2> QED BY <1>0, <2>1, <2>2, DialogMoves
<1>10. CASE CloseDialog
  <2>1. /\ dialog' = NoDialog /\ listKind' = listKind
        /\ requests' = [i \in DOMAIN requests |->
             IF TRUE THEN [requests[i] EXCEPT !.current = FALSE]
             ELSE [requests[i] EXCEPT !.own = FALSE, !.current = FALSE]]
    BY <1>10 DEF CloseDialog, OnClose
  <2>2. TRUE \in BOOLEAN
    OBVIOUS
  <2> QED BY <1>0, <2>1, <2>2, ListDisowned, DialogCloses
<1>11. CASE NextStep
  <2>1. dialog.open /\ dialog' = [dialog EXCEPT !.step = 2] /\ UNCHANGED <<requests, listKind>>
    BY <1>11 DEF NextStep
  <2>2. /\ dialog' \in DialogType /\ dialog'.open = dialog.open
        /\ dialog'.submitting = dialog.submitting /\ dialog'.late = dialog.late
    BY <1>0, <2>1 DEF DialogType
  <2> QED BY <1>0, <2>1, <2>2, DialogMoves DEF InviteInv
<1>12. CASE \E name \in Names \union {Spaces}, rest \in BOOLEAN : Type(name, rest)
  <2>1. PICK name \in Names \union {Spaces}, rest \in BOOLEAN : Type(name, rest)
    BY <1>12
  <2>2. PICK more \in BOOLEAN : more = (rest /\ Forms[listKind].more)
    OBVIOUS
  <2>3. /\ dialog.open /\ dialog' = [dialog EXCEPT !.name = name, !.rest = more]
        /\ UNCHANGED <<requests, listKind>>
    BY <2>1, <2>2 DEF Type
  <2>4. /\ dialog' \in DialogType /\ dialog'.open = dialog.open
        /\ dialog'.submitting = dialog.submitting /\ dialog'.late = dialog.late
    BY <1>0, <2>3 DEF DialogType
  <2> QED BY <1>0, <2>3, <2>4, DialogMoves DEF InviteInv
<1>13. CASE Submit
  <2> DEFINE once == Forms[listKind].once
  <2>1. /\ dialog.open /\ ~dialog.submitting /\ dialog.name # NoName
        /\ dialog' = [dialog EXCEPT !.submitting = once]
        /\ SendRequest("create", dialog.name) /\ listKind' = listKind
    BY <1>13 DEF Submit, Valid
  <2>2. once \in BOOLEAN /\ (listKind = "users" => once)
    <3>1. listKind \in DOMAIN Forms
      BY <1>0, <2>1 DEF InviteInv
    <3>2. {StackForm, ServiceForm, NetworkForm, VolumeForm, SecretForm, ConfigForm, UserForm,
           RegistryForm} \subseteq [more : BOOLEAN, trims : BOOLEAN, once : BOOLEAN]
      BY DEF Form, StackForm, ServiceForm, NetworkForm, VolumeForm, SecretForm, ConfigForm,
             UserForm, RegistryForm
    <3>3. listKind \in {"stacks", "services", "networks", "volumes", "secrets", "configs", "users",
                        "registries"}
      BY <3>1 DEF Forms
    <3>4. Forms.users = UserForm /\ Forms[listKind] \in {StackForm, ServiceForm, NetworkForm,
            VolumeForm, SecretForm, ConfigForm, UserForm, RegistryForm}
      BY <3>3 DEF Forms
    <3>5. UserForm.once = TRUE
      BY DEF UserForm, Form
    <3>6. Forms[listKind] \in [more : BOOLEAN, trims : BOOLEAN, once : BOOLEAN]
      BY <3>2, <3>4
    <3> QED BY <3>4, <3>5, <3>6
  <2> HIDE DEF once
  <2>3. dialog.name \in Names \union {Spaces}
    BY <1>0, <2>1 DEF DialogType
  <2>4. "create" \in {"create", "remove", "setDefault", "drain", "activate"}
    OBVIOUS
  <2>5. /\ requests' \in Seq(Asks) /\ Invited' = Invited \union {Len(requests) + 1}
        /\ \A i \in DOMAIN requests' : requests'[i].current => requests'[i].own
    BY <1>0, <2>1, <2>3, <2>4, Asked
  <2>6. /\ dialog' \in DialogType /\ dialog'.open /\ dialog'.submitting = once
        /\ dialog'.late = dialog.late
    BY <1>0, <2>1, <2>2 DEF DialogType
  <2>7. CASE listKind = "users"
    <3>1. ~dialog.late => Invited = {}
      BY <1>0, <2>1, <2>7 DEF InviteInv
    <3>2. ~dialog.late => \A i, j \in Invited' : i = j
      BY <2>5, <3>1
    <3>3. Invited' # {}
      BY <2>5
    <3> QED BY <1>0, <2>1, <2>2, <2>5, <2>6, <2>7, <3>2, <3>3 DEF InviteInv, DialogType
  <2>8. CASE listKind # "users"
    BY <1>0, <2>1, <2>5, <2>6, <2>8 DEF InviteInv, DialogType
  <2> QED BY <2>7, <2>8
<1>14. CASE \E i \in DOMAIN requests : ExecuteRequest(i)
  <2>1. PICK i \in DOMAIN requests : ExecuteRequest(i)
    BY <1>14
  <2>2. /\ requests' = [requests EXCEPT ![i].pc = "done", ![i].at = store.v + 1]
        /\ UNCHANGED <<dialog, listKind>> /\ requests[i] \in Asks
    BY <1>0, <2>1, AskFields DEF ExecuteRequest
  <2>3. store.v + 1 \in 0..MaxWrites
    <3>1. requests[i].op \in {"create", "remove", "setDefault", "drain", "activate"}
      BY <2>2 DEF Asks
    <3>2. Effect(requests[i].op, requests[i].name)
      BY <2>1 DEF ExecuteRequest
    <3>3. store.v < MaxWrites
      BY <3>1, <3>2 DEF Effect, Store
    <3> QED BY <1>0, <3>3, MaxWritesAssumption
  <2>4. ASSUME NEW j \in DOMAIN requests
        PROVE  /\ requests'[j] \in Asks /\ requests'[j].op = requests[j].op
               /\ requests'[j].current = requests[j].current /\ requests'[j].own = requests[j].own
    <3>1. requests[j] \in Asks
      BY <1>0, AskFields
    <3>2. CASE j = i
      <4>1. requests'[j] = [requests[j] EXCEPT !.pc = "done", !.at = store.v + 1]
        BY <2>2, <3>2
      <4> QED BY <2>3, <3>1, <4>1 DEF Asks
    <3>3. CASE j # i
      <4>1. requests'[j] = requests[j]
        BY <2>2, <3>3
      <4> QED BY <3>1, <4>1
    <3> QED BY <3>2, <3>3
  <2>5. DOMAIN requests' = DOMAIN requests
    BY <2>2
  <2>6. requests' \in Seq(Asks)
    <3>1. requests' \in [1..Len(requests) -> Asks]
      <4>1. requests' = [j \in DOMAIN requests |-> requests'[j]]
        BY <2>2, <2>5
      <4> QED BY <1>0, <2>4, <4>1, AskFields
    <3> QED BY <1>0, <3>1, AskFields, SeqDef
  <2>7. Invited' = Invited
    BY <2>4, <2>5 DEF Invited
  <2>8. \A j \in DOMAIN requests' : requests'[j].current => requests'[j].own
    BY <1>0, <2>4, <2>5
  <2> QED BY <1>0, <2>2, <2>6, <2>7, <2>8, OthersMove
<1>15. CASE \E i \in DOMAIN requests : RequestFails(i)
  <2>1. PICK i \in DOMAIN requests : RequestFails(i)
    BY <1>15
  <2> DEFINE r == requests[i]
  <2>2. /\ requests' = RemoveAt(requests, i) /\ listKind' = listKind /\ r \in Asks
        /\ r.current => r.own
    BY <1>0, <2>1, AskFields DEF RequestFails
  <2>3. /\ requests' \in Seq(Asks)
        /\ \A j \in DOMAIN requests' : requests'[j].current => requests'[j].own
        /\ Invited' # {} => Invited \ {i} # {}
        /\ Invited \ {i} # {} => Invited' # {}
        /\ (\A j, k \in Invited : j = k) => \A j, k \in Invited' : j = k
    BY <1>0, <2>2, RequestGone
  <2>4. CASE ~(r.op = "create" /\ r.own)
    <3>1. dialog' = dialog
      BY <2>1, <2>4 DEF RequestFails
    <3>2. i \notin Invited
      BY <2>2, <2>4 DEF Invited
    <3> QED BY <1>0, <2>2, <2>3, <3>1, <3>2, OthersMove
  <2>5. CASE r.op = "create" /\ r.own
    <3>1. PICK late \in BOOLEAN : late = (dialog.late \/ (dialog.open /\ ~r.current))
      OBVIOUS
    <3>2. dialog' = [dialog EXCEPT !.submitting = FALSE, !.late = late]
      BY <2>1, <2>5, <3>1 DEF RequestFails
    <3>3. /\ dialog' \in DialogType /\ dialog'.open = dialog.open /\ ~dialog'.submitting
          /\ dialog'.late = late
      BY <1>0, <3>2 DEF DialogType
    <3>4. i \in Invited <=> r.current
      BY <2>5 DEF Invited
    <3> HIDE DEF r
    <3>5. ASSUME listKind = "users", ~late PROVE Invited' = {}
      <4>1. ~dialog.late /\ (dialog.open => r.current)
        BY <3>1, <3>5
      <4>2. CASE dialog.open
        <5>1. \A j \in Invited : j = i
          BY <1>0, <3>4, <3>5, <4>1, <4>2 DEF InviteInv
        <5> QED BY <2>3, <5>1
      <4>3. CASE ~dialog.open
        <5>1. Invited = {}
          BY <1>0, <3>5, <4>3 DEF InviteInv
        <5> QED BY <2>3, <5>1
      <4> QED BY <4>2, <4>3
    <3>6. listKind = "users" /\ ~dialog.open => ~late /\ ~dialog.late
      BY <1>0, <3>1 DEF InviteInv
    <3> QED BY <1>0, <2>2, <2>3, <3>3, <3>5, <3>6 DEF InviteInv, DialogType
  <2> QED BY <2>4, <2>5
<1>16. CASE \E i \in DOMAIN requests : RequestAnswered(i)
  <2>1. PICK i \in DOMAIN requests : RequestAnswered(i)
    BY <1>16
  <2> DEFINE r == requests[i]
             left == RemoveAt(requests, i)
             closes == r.op = "create" /\ r.own
  <2>2. /\ dialog' = IF closes THEN NoDialog ELSE dialog
        /\ requests' = [j \in 1..(Len(requests) - 1) |->
                          [left[j] EXCEPT !.current = left[j].current /\ ~closes]]
        /\ listKind' = listKind /\ r \in Asks /\ (r.current => r.own)
    BY <1>0, <2>1, AskFields DEF RequestAnswered
  <2>3. /\ left \in Seq(Asks) /\ DOMAIN left = 1..(Len(requests) - 1)
        /\ \A j \in DOMAIN left : left[j] \in Asks
        /\ Len(left) = Len(requests) - 1 /\ Len(left) \in Nat
    <3>1. left \in Seq(Asks) /\ DOMAIN left = 1..(Len(requests) - 1) /\ Len(left) = Len(requests) - 1
      BY <1>0, Removed
    <3> HIDE DEF left
    <3> QED BY <3>1, ElementOfSeq, LenProperties
  <2>4. CASE ~closes
    <3>1. \A j \in DOMAIN left : [left[j] EXCEPT !.current = left[j].current /\ ~closes] = left[j]
      BY <2>3, <2>4 DEF Asks
    <3>2. requests' = left
      <4> HIDE DEF closes
      <4>1. DOMAIN requests' = DOMAIN left /\ \A j \in DOMAIN left : requests'[j] = left[j]
        BY <2>2, <2>3, <3>1
      <4>2. requests' = [j \in DOMAIN left |-> requests'[j]] /\ left = [j \in DOMAIN left |-> left[j]]
        BY <2>2, <2>3
      <4> QED BY <4>1, <4>2
    <3>3. i \notin Invited
      BY <2>2, <2>4 DEF Invited
    <3>4. /\ requests' \in Seq(Asks)
          /\ \A j \in DOMAIN requests' : requests'[j].current => requests'[j].own
          /\ Invited' # {} => Invited \ {i} # {}
          /\ Invited \ {i} # {} => Invited' # {}
          /\ (\A j, k \in Invited : j = k) => \A j, k \in Invited' : j = k
      BY <1>0, <3>2, RequestGone
    <3>5. dialog' = dialog
      BY <2>2, <2>4
    <3> QED BY <1>0, <2>2, <3>3, <3>4, <3>5, OthersMove
  <2>5. CASE closes
    <3> HIDE DEF left, closes
    <3>1. ASSUME NEW j \in 1..(Len(requests) - 1)
          PROVE  requests'[j] \in Asks /\ ~requests'[j].current
      <4>1. left[j] \in Asks
        BY <2>3
      <4>2. requests'[j] = [left[j] EXCEPT !.current = FALSE]
        BY <2>2, <2>5, <4>1 DEF Asks
      <4> QED BY <4>1, <4>2 DEF Asks
    <3>2. requests' \in [1..(Len(requests) - 1) -> Asks] /\ DOMAIN requests' = 1..(Len(requests) - 1)
      BY <2>2, <3>1
    <3>3. requests' \in Seq(Asks)
      BY <2>3, <3>2, SeqDef
    <3>4. Invited' = {} /\ \A j \in DOMAIN requests' : requests'[j].current => requests'[j].own
      BY <3>1, <3>2 DEF Invited
    <3>5. dialog' = NoDialog
      BY <2>2, <2>5
    <3> QED BY <1>0, <2>2, <3>3, <3>4, <3>5, DialogCloses
  <2> QED BY <2>4, <2>5
<1> QED
  BY <1>2, <1>3, <1>4, <1>5, <1>6, <1>7, <1>8, <1>9, <1>10, <1>11, <1>12, <1>13, <1>14, <1>15,
     <1>16 DEF ListNext

LEMMA ListStep == ListInv /\ [ListNext]_listVars => ListInv'
<1> SUFFICES ASSUME ListInv, [ListNext]_listVars PROVE ListInv'
  OBVIOUS
<1>1. CASE ListNext
  BY <1>1, RowsAct, ViewAct, InviteAct DEF ListInv
<1>2. CASE UNCHANGED listVars
  BY <1>2, RowsStay, ViewStays, InviteStays DEF ListInv, listVars, rowVars, viewVars
<1> QED BY <1>1, <1>2

LEMMA ListInvSuffices == ListInv => ListTypeOK /\ ListSound
<1> SUFFICES ASSUME ListInv PROVE ListTypeOK /\ ListSound
  OBVIOUS
<1>1. ListTypeOK
  <2>1. \A i \in DOMAIN requests : requests[i].at \in 0..MaxWrites
    BY AskFields DEF ListInv, InviteInv, Asks
  <2>2. list.shown.rows \subseteq Names /\ list.newest \in 0..MaxWrites
    BY DEF ListInv, RowsInv, RowsTyped, ListType, Rows
  <2> QED BY <2>1, <2>2 DEF ListTypeOK, ListInv, ViewInv, InviteInv
<1>2. ListNeverGoesBack /\ ContentIsOfRow
  BY DEF ListInv, RowsInv, Uncrossed, ViewInv, ListNeverGoesBack, ContentIsOfRow
<1>3. OneInvitation
  <2>1. Invited = {i \in DOMAIN requests : requests[i].op = "create" /\ requests[i].current}
    BY DEF Invited
  <2>2. listKind = "users" => /\ dialog.submitting => Invited # {}
                              /\ ~dialog.late => Cardinality(Invited) <= 1
    BY AtMostOne DEF ListInv, InviteInv
  <2> QED BY <2>1, <2>2 DEF OneInvitation
<1> QED BY <1>1, <1>2, <1>3 DEF ListSound

(* On a list page the polls and the reloads never bring back rows older     *)
(* than those shown, but once a query of the configs' contents and one of   *)
(* their list have overtaken each other; a config's dialog shows the        *)
(* content of the row it names, and a form that invites a user waits for    *)
(* one request.                                                             *)
THEOREM ListsAreTrue == ListSpec => [](ListTypeOK /\ ListSound)
BY ListInvInit, ListStep, ListInvSuffices, PTL DEF ListSpec
-----------------------------------------------------------------------------
(***************************************************************************)
(* The dashboard.                                                          *)
(***************************************************************************)

Fleets == [v : Nat, role : [Hosts -> Roles], drained : [Hosts -> BOOLEAN]]
Overviews == {NoFigures} \union {OverviewOf(c) : c \in Fleets}
NodeLists == {NoFigures} \union {NodesOf(c) : c \in Fleets}

OverviewsKnown == {overview.shown, overview.answer, overview.cache}
NodesKnown == {nodeRows.shown, nodeRows.answer, nodeRows.cache}
Together(o, r) ==
  o.v = r.v /\ o.v >= 0 => \E c \in Fleets : o = OverviewOf(c) /\ r = NodesOf(c)

(* What is known of one version is known of one cluster, and what is known  *)
(* of the present version of the present cluster.                           *)
DashInv ==
  /\ fleet \in Fleets
  /\ overview \in [shown : Overviews, query : {"none", "sent", "read"}, answer : Overviews,
                   cache : Overviews]
  /\ nodeRows \in [shown : NodeLists, query : {"none", "sent", "read"}, answer : NodeLists,
                   cache : NodeLists]
  /\ \A o \in OverviewsKnown : o.v \in -1..fleet.v /\ (o.v = fleet.v => o = OverviewOf(fleet))
  /\ \A r \in NodesKnown : r.v \in -1..fleet.v /\ (r.v = fleet.v => r = NodesOf(fleet))
  /\ \A o \in OverviewsKnown, r \in NodesKnown : Together(o, r)
  /\ curves \in [range : CurveRanges, shown : CurveRanges \union {"none"},
                 asked : SUBSET CurveRanges]
  /\ CurvesOfRange

LEMMA FiguresOf ==
  /\ NoFigures.v = -1 /\ NoFigures \in Overviews /\ NoFigures \in NodeLists
  /\ \A c \in Fleets : /\ OverviewOf(c) \in Overviews /\ OverviewOf(c).v = c.v
                       /\ NodesOf(c) \in NodeLists /\ NodesOf(c).v = c.v
<1>1. NoFigures.v = -1
  BY DEF NoFigures
<1>2. \A c \in Fleets : OverviewOf(c).v = c.v /\ NodesOf(c).v = c.v
  BY DEF OverviewOf, NodesOf
<1> QED BY <1>1, <1>2 DEF Overviews, NodeLists

LEMMA DashInvInit == DashInit => DashInv
<1> SUFFICES ASSUME DashInit PROVE DashInv
  OBVIOUS
<1>1. fleet \in Fleets /\ fleet.v = 0
  BY DEF DashInit, Fleets, Roles
<1>2. /\ Unwatched \in [shown : Overviews, query : {"none", "sent", "read"}, answer : Overviews,
                        cache : Overviews]
      /\ Unwatched \in [shown : NodeLists, query : {"none", "sent", "read"}, answer : NodeLists,
                        cache : NodeLists]
      /\ Unwatched.shown = NoFigures /\ Unwatched.answer = NoFigures /\ Unwatched.cache = NoFigures
  BY FiguresOf DEF Unwatched
<1>3. /\ OverviewsKnown = {NoFigures} /\ NodesKnown = {NoFigures}
      /\ overview = Unwatched /\ nodeRows = Unwatched
  BY <1>2 DEF DashInit, OverviewsKnown, NodesKnown
<1>4. Together(NoFigures, NoFigures) /\ NoFigures.v \in -1..fleet.v /\ NoFigures.v # fleet.v
  BY <1>1, FiguresOf DEF Together
<1>5. /\ curves \in [range : CurveRanges, shown : CurveRanges \union {"none"},
                     asked : SUBSET CurveRanges]
      /\ CurvesOfRange
  BY CurveRangesAssumption DEF DashInit, CurvesOfRange
<1> QED BY <1>1, <1>2, <1>3, <1>4, <1>5 DEF DashInv

OverviewWatch ==
  [shown : Overviews, query : {"none", "sent", "read"}, answer : Overviews, cache : Overviews]
NodesWatch ==
  [shown : NodeLists, query : {"none", "sent", "read"}, answer : NodeLists, cache : NodeLists]

(* A query's figures come from what it had, or from the cluster.            *)
LEMMA OverviewMoves ==
  ASSUME DashInv, UNCHANGED <<fleet, nodeRows>>, overview' \in OverviewWatch,
         OverviewsKnown' \subseteq OverviewsKnown \union {NoFigures, OverviewOf(fleet)},
         curves' \in [range : CurveRanges, shown : CurveRanges \union {"none"},
                      asked : SUBSET CurveRanges], CurvesOfRange'
  PROVE  DashInv'
<1>1. fleet \in Fleets /\ fleet.v \in Nat /\ NodesKnown' = NodesKnown
  BY DEF DashInv, Fleets, NodesKnown
<1>2. \A o \in OverviewsKnown' : o.v \in -1..fleet.v /\ (o.v = fleet.v => o = OverviewOf(fleet))
  BY <1>1, FiguresOf DEF DashInv
<1>3. \A o \in OverviewsKnown', r \in NodesKnown : Together(o, r)
  <2>1. \A r \in NodesKnown : Together(NoFigures, r)
    BY FiguresOf DEF Together
  <2>2. \A r \in NodesKnown : Together(OverviewOf(fleet), r)
    BY <1>1, FiguresOf DEF Together, DashInv
  <2> QED BY <2>1, <2>2 DEF DashInv
<1> QED BY <1>1, <1>2, <1>3 DEF DashInv, OverviewWatch, CurvesOfRange

LEMMA NodesMove ==
  ASSUME DashInv, UNCHANGED <<fleet, overview>>, nodeRows' \in NodesWatch,
         NodesKnown' \subseteq NodesKnown \union {NoFigures, NodesOf(fleet)},
         curves' \in [range : CurveRanges, shown : CurveRanges \union {"none"},
                      asked : SUBSET CurveRanges], CurvesOfRange'
  PROVE  DashInv'
<1>1. fleet \in Fleets /\ fleet.v \in Nat /\ OverviewsKnown' = OverviewsKnown
  BY DEF DashInv, Fleets, OverviewsKnown
<1>2. \A r \in NodesKnown' : r.v \in -1..fleet.v /\ (r.v = fleet.v => r = NodesOf(fleet))
  BY <1>1, FiguresOf DEF DashInv
<1>3. \A o \in OverviewsKnown, r \in NodesKnown' : Together(o, r)
  <2>1. \A o \in OverviewsKnown : Together(o, NoFigures)
    <3>1. ASSUME NEW o \in OverviewsKnown PROVE Together(o, NoFigures)
      BY FiguresOf DEF Together
    <3> QED BY <3>1
  <2>2. \A o \in OverviewsKnown : Together(o, NodesOf(fleet))
    BY <1>1, FiguresOf DEF Together, DashInv
  <2> QED BY <2>1, <2>2 DEF DashInv
<1> QED BY <1>1, <1>2, <1>3 DEF DashInv, NodesWatch, CurvesOfRange

(* What a query makes of what it holds.                                     *)
LEMMA WatchedOverview ==
  ASSUME overview \in OverviewWatch
  PROVE  \A q \in {Watched(overview), SentAgain(overview), Answering(overview), Failing(overview)} :
           /\ q \in OverviewWatch
           /\ {q.shown, q.answer, q.cache} \subseteq OverviewsKnown \union {NoFigures}
<1> DEFINE Kept(q) == /\ q \in OverviewWatch
                     /\ {q.shown, q.answer, q.cache} \subseteq OverviewsKnown \union {NoFigures}
<1>1. Kept(Watched(overview))
  BY DEF OverviewWatch, OverviewsKnown, Watched
<1>2. Kept(SentAgain(overview))
  BY DEF OverviewWatch, OverviewsKnown, SentAgain
<1>3. Kept(Answering(overview))
  BY FiguresOf DEF OverviewWatch, OverviewsKnown, Answering
<1>4. Kept(Failing(overview))
  BY FiguresOf DEF OverviewWatch, OverviewsKnown, Failing
<1> QED BY <1>1, <1>2, <1>3, <1>4

LEMMA WatchedNodes ==
  ASSUME nodeRows \in NodesWatch
  PROVE  \A q \in {Watched(nodeRows), SentAgain(nodeRows), Answering(nodeRows), Failing(nodeRows)} :
           /\ q \in NodesWatch
           /\ {q.shown, q.answer, q.cache} \subseteq NodesKnown \union {NoFigures}
<1> DEFINE Kept(q) == /\ q \in NodesWatch
                     /\ {q.shown, q.answer, q.cache} \subseteq NodesKnown \union {NoFigures}
<1>1. Kept(Watched(nodeRows))
  BY DEF NodesWatch, NodesKnown, Watched
<1>2. Kept(SentAgain(nodeRows))
  BY DEF NodesWatch, NodesKnown, SentAgain
<1>3. Kept(Answering(nodeRows))
  BY FiguresOf DEF NodesWatch, NodesKnown, Answering
<1>4. Kept(Failing(nodeRows))
  BY FiguresOf DEF NodesWatch, NodesKnown, Failing
<1> QED BY <1>1, <1>2, <1>3, <1>4

LEMMA DashAct ==
  ASSUME DashInv, DashNext PROVE DashInv'
<1> DEFINE C == [range : CurveRanges, shown : CurveRanges \union {"none"},
                 asked : SUBSET CurveRanges]
<1>0. /\ overview \in OverviewWatch /\ nodeRows \in NodesWatch /\ curves \in C /\ CurvesOfRange
      /\ fleet \in Fleets /\ fleet.v \in Nat
      /\ "1h" \in CurveRanges
  BY CurveRangesAssumption DEF DashInv, OverviewWatch, NodesWatch, Fleets
<1>1. ASSUME NEW q, q \in OverviewWatch, overview' = q,
             {q.shown, q.answer, q.cache} \subseteq OverviewsKnown \union {NoFigures, OverviewOf(fleet)},
             UNCHANGED <<fleet, nodeRows, curves>>
      PROVE  DashInv'
  <2>1. OverviewsKnown' = {q.shown, q.answer, q.cache} /\ CurvesOfRange'
    BY <1>0, <1>1 DEF OverviewsKnown, CurvesOfRange
  <2> QED BY <1>0, <1>1, <2>1, OverviewMoves
<1>2. ASSUME NEW q, q \in NodesWatch, nodeRows' = q,
             {q.shown, q.answer, q.cache} \subseteq NodesKnown \union {NoFigures, NodesOf(fleet)},
             UNCHANGED <<fleet, overview>>, curves' \in C, CurvesOfRange'
      PROVE  DashInv'
  <2>1. NodesKnown' = {q.shown, q.answer, q.cache}
    BY <1>2 DEF NodesKnown
  <2> QED BY <1>0, <1>2, <2>1, NodesMove
<1>3. ASSUME curves' \in C, CurvesOfRange', UNCHANGED <<fleet, overview, nodeRows>>
      PROVE  DashInv'
  BY <1>3 DEF DashInv, CurvesOfRange, OverviewsKnown, NodesKnown, Together
<1>4. CASE EnterShell
  BY <1>0, <1>1, <1>4, WatchedOverview DEF EnterShell
<1>5. CASE PollOverview \/ OverviewAnswers \/ OverviewFails
  BY <1>0, <1>1, <1>5, WatchedOverview DEF PollOverview, OverviewAnswers, OverviewFails
<1>6. CASE OverviewRead
  <2> DEFINE q == [overview EXCEPT !.query = "read", !.answer = OverviewOf(fleet)]
  <2>1. overview' = q /\ UNCHANGED <<fleet, nodeRows, curves>>
    BY <1>6 DEF OverviewRead
  <2>2. OverviewOf(fleet) \in Overviews
    BY <1>0, FiguresOf
  <2>3. q \in OverviewWatch /\ q.shown = overview.shown /\ q.cache = overview.cache
        /\ q.answer = OverviewOf(fleet)
    BY <1>0, <2>2 DEF OverviewWatch
  <2> HIDE DEF q
  <2>4. {q.shown, q.answer, q.cache} \subseteq OverviewsKnown \union {NoFigures, OverviewOf(fleet)}
    BY <2>3 DEF OverviewsKnown
  <2> QED BY <1>1, <2>1, <2>3, <2>4
<1>7. CASE NodesRead
  <2> DEFINE q == [nodeRows EXCEPT !.query = "read", !.answer = NodesOf(fleet)]
  <2>1. nodeRows' = q /\ UNCHANGED <<fleet, overview, curves>>
    BY <1>7 DEF NodesRead
  <2>2. NodesOf(fleet) \in NodeLists
    BY <1>0, FiguresOf
  <2>3. q \in NodesWatch /\ q.shown = nodeRows.shown /\ q.cache = nodeRows.cache
        /\ q.answer = NodesOf(fleet)
    BY <1>0, <2>2 DEF NodesWatch
  <2> HIDE DEF q
  <2>4. {q.shown, q.answer, q.cache} \subseteq NodesKnown \union {NoFigures, NodesOf(fleet)}
    BY <2>3 DEF NodesKnown
  <2>5. curves' \in C /\ CurvesOfRange'
    BY <1>0, <2>1 DEF CurvesOfRange
  <2> QED BY <1>2, <2>1, <2>3, <2>4, <2>5
<1>8. CASE PollNodes \/ NodesAnswer \/ NodesFail
  <2>1. curves' \in C /\ CurvesOfRange'
    BY <1>0, <1>8 DEF PollNodes, NodesAnswer, NodesFail, CurvesOfRange
  <2> HIDE DEF C
  <2> QED BY <1>0, <1>2, <1>8, <2>1, WatchedNodes DEF PollNodes, NodesAnswer, NodesFail
<1>9. CASE OpenDashboard
  <2>1. curves' \in C /\ CurvesOfRange'
    BY <1>0, <1>9 DEF OpenDashboard, CurvesOfRange
  <2> HIDE DEF C
  <2> QED BY <1>0, <1>2, <1>9, <2>1, WatchedNodes DEF OpenDashboard
<1>10. CASE LeaveDashboard
  <2> DEFINE q == [Unwatched EXCEPT !.cache = nodeRows.cache]
  <2>1. curves' \in C /\ CurvesOfRange' /\ nodeRows' = q /\ UNCHANGED <<fleet, overview>>
    BY <1>0, <1>10 DEF LeaveDashboard, CurvesOfRange
  <2>2. q \in NodesWatch /\ q.shown = NoFigures /\ q.answer = NoFigures /\ q.cache = nodeRows.cache
    BY <1>0, FiguresOf DEF NodesWatch, Unwatched
  <2> HIDE DEF q, C
  <2>3. {q.shown, q.answer, q.cache} \subseteq NodesKnown \union {NoFigures, NodesOf(fleet)}
    BY <2>2 DEF NodesKnown
  <2> QED BY <1>2, <2>1, <2>2, <2>3
<1>11. CASE \E h \in Hosts : FleetMoves(h)
  <2>1. PICK h \in Hosts, role \in Roles, drained \in BOOLEAN :
          /\ fleet' = [v |-> fleet.v + 1, role |-> [fleet.role EXCEPT ![h] = role],
                       drained |-> [fleet.drained EXCEPT ![h] = drained]]
          /\ UNCHANGED <<overview, nodeRows, curves>>
    BY <1>11 DEF FleetMoves
  <2>2. fleet' \in Fleets /\ fleet'.v = fleet.v + 1
    BY <1>0, <2>1 DEF Fleets
  <2>3. /\ OverviewsKnown' = OverviewsKnown /\ NodesKnown' = NodesKnown
    BY <2>1 DEF OverviewsKnown, NodesKnown
  <2>4. /\ \A o \in OverviewsKnown : o.v \in -1..fleet'.v /\ o.v # fleet'.v
        /\ \A r \in NodesKnown : r.v \in -1..fleet'.v /\ r.v # fleet'.v
    BY <1>0, <2>2 DEF DashInv
  <2>5. curves' \in C /\ CurvesOfRange' /\ overview' = overview /\ nodeRows' = nodeRows
    BY <1>0, <2>1 DEF CurvesOfRange
  <2>6. \A o \in OverviewsKnown', r \in NodesKnown' : Together(o, r)'
    BY <2>3 DEF DashInv, Together
  <2> QED BY <2>2, <2>3, <2>4, <2>5, <2>6 DEF DashInv
<1>12. CASE \E range \in CurveRanges : SetRange(range) \/ CurvesAnswer(range) \/ CurvesFail(range)
  <2>1. curves' \in C /\ CurvesOfRange' /\ UNCHANGED <<fleet, overview, nodeRows>>
    <3>1. PICK range \in CurveRanges : SetRange(range) \/ CurvesAnswer(range) \/ CurvesFail(range)
      BY <1>12
    <3>2. CASE SetRange(range)
      BY <1>0, <3>2 DEF SetRange, CurvesOfRange
    <3>3. CASE CurvesAnswer(range)
      BY <1>0, <3>3 DEF CurvesAnswer, CurvesOfRange
    <3>4. CASE CurvesFail(range)
      BY <1>0, <3>4 DEF CurvesFail, CurvesOfRange
    <3> QED BY <3>1, <3>2, <3>3, <3>4
  <2> QED BY <1>3, <2>1
<1>13. CASE RefreshAll
  <2>1. /\ overview' = SentAgain(overview) /\ nodeRows' = SentAgain(nodeRows) /\ fleet' = fleet
        /\ curves' = [curves EXCEPT !.asked = curves.asked \union {curves.range}]
    BY <1>13 DEF RefreshAll
  <2>2. /\ overview' \in OverviewWatch /\ OverviewsKnown' = OverviewsKnown
        /\ nodeRows' \in NodesWatch /\ NodesKnown' = NodesKnown
    BY <1>0, <2>1 DEF SentAgain, OverviewWatch, NodesWatch, OverviewsKnown, NodesKnown
  <2>3. curves' \in C /\ CurvesOfRange'
    BY <1>0, <2>1 DEF CurvesOfRange
  <2> QED BY <2>1, <2>2, <2>3 DEF DashInv, Together, OverviewWatch, NodesWatch
<1> QED
  BY <1>4, <1>5, <1>6, <1>7, <1>8, <1>9, <1>10, <1>11, <1>12, <1>13 DEF DashNext

LEMMA DashStep == DashInv /\ [DashNext]_dashVars => DashInv'
<1> SUFFICES ASSUME DashInv, [DashNext]_dashVars PROVE DashInv'
  OBVIOUS
<1>1. CASE UNCHANGED dashVars
  BY <1>1 DEF dashVars, DashInv, OverviewsKnown, NodesKnown, Together, CurvesOfRange
<1> QED BY <1>1, DashAct

-----------------------------------------------------------------------------
(* The boxes of the nodes' summary.                                         *)

RowsFor(c, hosts) ==
  {[host |-> h, dot |-> IF c.drained[h] THEN "warning" ELSE "success"] : h \in hosts}

LEMMA OneRowEach ==
  ASSUME NEW c \in Fleets, NEW hosts \in SUBSET Hosts
  PROVE  Cardinality(RowsFor(c, hosts)) = Cardinality(hosts)
<1> DEFINE f == [h \in hosts |-> [host |-> h, dot |-> IF c.drained[h] THEN "warning" ELSE "success"]]
<1>1. f \in [hosts -> RowsFor(c, hosts)] /\ \A z \in RowsFor(c, hosts) : \E h \in hosts : f[h] = z
  BY DEF RowsFor
<1>2. \A x, y \in hosts : f[x] = f[y] => x = y
  <2>1. \A x \in hosts : f[x].host = x
    OBVIOUS
  <2> QED BY <2>1
<1>3. IsFiniteSet(hosts)
  BY HostsAssumption, FS_Subset
<1> HIDE DEF f
<1> QED BY <1>1, <1>2, <1>3, SameSize

LEMMA BoxOf ==
  ASSUME NEW c \in Fleets, NEW role \in Roles
  PROVE  {[host |-> n.host, dot |-> Dot(n)] : n \in {n \in NodesOf(c).rows : n.role = role}}
           = RowsFor(c, {h \in Hosts : c.role[h] = role})
<1> DEFINE Node(h) == [host |-> h, role |-> c.role[h], drained |-> c.drained[h]]
           Row(n) == [host |-> n.host, dot |-> Dot(n)]
           hosts == {h \in Hosts : c.role[h] = role}
<1>1. NodesOf(c).rows = {Node(h) : h \in Hosts}
  BY DEF NodesOf
<1>2. \A h \in Hosts : /\ Node(h).role = c.role[h]
                       /\ Row(Node(h)) = [host |-> h, dot |-> IF c.drained[h] THEN "warning" ELSE "success"]
  BY DEF Dot
<1> HIDE DEF Node, Row
<1>3. {n \in NodesOf(c).rows : n.role = role} = {Node(h) : h \in hosts}
  BY <1>1, <1>2
<1>4. {Row(n) : n \in {n \in NodesOf(c).rows : n.role = role}} = {Row(Node(h)) : h \in hosts}
  BY <1>3
<1> HIDE DEF hosts
<1>5. {Row(Node(h)) : h \in hosts} = RowsFor(c, hosts)
  BY <1>2 DEF RowsFor, hosts
<1> QED BY <1>4, <1>5 DEF Row, hosts

LEMMA DashInvSuffices == DashInv => DashTypeOK /\ DashSound
<1> SUFFICES ASSUME DashInv PROVE DashTypeOK /\ DashSound
  OBVIOUS
<1>1. DashTypeOK
  <2>1. \A q \in {overview, nodeRows} :
          /\ q.query \in {"none", "sent", "read"}
          /\ {q.shown.v, q.answer.v, q.cache.v} \subseteq -1..fleet.v
    BY DEF DashInv, OverviewsKnown, NodesKnown
  <2> QED BY <2>1 DEF DashInv, DashTypeOK, Fleets
<1>2. BucketsAgree
  <2> SUFFICES ASSUME overview.shown.v = nodeRows.shown.v, overview.shown.v >= 0
               PROVE  LET view == DashView
                      IN /\ view.managers.count = Cardinality(view.managers.rows)
                         /\ view.workers.count = Cardinality(view.workers.rows)
                         /\ view.subtitle = Cardinality(view.managers.rows \union view.workers.rows)
    BY DEF BucketsAgree
  <2>1. PICK c \in Fleets : overview.shown = OverviewOf(c) /\ nodeRows.shown = NodesOf(c)
    BY DEF DashInv, OverviewsKnown, NodesKnown, Together
  <2> DEFINE In(role) == {h \in Hosts : c.role[h] = role}
  <2>2. DashView.managers = Bucket(OverviewOf(c).managersTotal, ManagersIn(NodesOf(c).rows))
        /\ DashView.workers = Bucket(OverviewOf(c).workers, WorkersIn(NodesOf(c).rows))
        /\ DashView.subtitle = OverviewOf(c).nodes
    BY <2>1 DEF DashView
  <2>3. OverviewOf(c).managersTotal = Cardinality(In("manager"))
        /\ OverviewOf(c).workers = Cardinality(In("worker"))
        /\ OverviewOf(c).nodes = Cardinality(Hosts)
    BY DEF OverviewOf
  <2>4. DashView.managers.count = Cardinality(In("manager"))
        /\ DashView.workers.count = Cardinality(In("worker"))
        /\ DashView.subtitle = Cardinality(Hosts)
    BY <2>2, <2>3 DEF Bucket
  <2>5. DashView.managers.rows = RowsFor(c, In("manager"))
    <3>1. DashView.managers.rows = {[host |-> n.host, dot |-> Dot(n)] : n \in {n \in NodesOf(c).rows : n.role = "manager"}}
      BY <2>2 DEF Bucket, ManagersIn
    <3> QED BY <3>1, BoxOf DEF Roles
  <2>6. DashView.workers.rows = RowsFor(c, In("worker"))
    <3>1. DashView.workers.rows = {[host |-> n.host, dot |-> Dot(n)] : n \in {n \in NodesOf(c).rows : n.role = "worker"}}
      BY <2>2 DEF Bucket, WorkersIn
    <3> QED BY <3>1, BoxOf DEF Roles
  <2>7. RowsFor(c, In("manager")) \union RowsFor(c, In("worker")) = RowsFor(c, Hosts)
    <3>1. In("manager") \union In("worker") = Hosts
      BY DEF Fleets, Roles
    <3> HIDE DEF In
    <3> QED BY <3>1 DEF RowsFor
  <2>8. In("manager") \in SUBSET Hosts /\ In("worker") \in SUBSET Hosts /\ Hosts \in SUBSET Hosts
    OBVIOUS
  <2> HIDE DEF In
  <2>9. /\ Cardinality(RowsFor(c, In("manager"))) = Cardinality(In("manager"))
        /\ Cardinality(RowsFor(c, In("worker"))) = Cardinality(In("worker"))
        /\ Cardinality(RowsFor(c, Hosts)) = Cardinality(Hosts)
    BY <2>8, OneRowEach
  <2> QED BY <2>4, <2>5, <2>6, <2>7, <2>9
<1> QED BY <1>1, <1>2 DEF DashSound, DashInv

(* The dashboard's curves are those of the range chosen, and a counter      *)
(* beside its rows counts them when both are of the same moment.            *)
THEOREM DashboardIsTrue == DashSpec => [](DashTypeOK /\ DashSound)
BY DashInvInit, DashStep, DashInvSuffices, PTL DEF DashSpec
-----------------------------------------------------------------------------
(***************************************************************************)
(* The load page.                                                          *)
(***************************************************************************)

LEMMA StacksListed ==
  /\ IsFiniteSet(ToSet(Stacks))
  /\ \A s \in ToSet(Stacks) : Listed(s) \in Nat /\ Stacks[Listed(s)] = s
<1> DEFINE n == Len(Stacks)
<1>1. n \in Nat /\ DOMAIN Stacks = 1..n
  BY StacksAssumption
<1>2. \A s \in ToSet(Stacks) : \E i \in DOMAIN Stacks : Stacks[i] = s
  BY DEF ToSet
<1>3. \A s \in ToSet(Stacks) : Listed(s) \in DOMAIN Stacks /\ Stacks[Listed(s)] = s
  BY <1>2 DEF Listed
<1> HIDE DEF n
<1>4. \A s \in ToSet(Stacks) : Listed(s) \in 1..n /\ Stacks[Listed(s)] = s
  BY <1>1, <1>3
<1>5. IsFiniteSet(ToSet(Stacks))
  <2> DEFINE f == [s \in ToSet(Stacks) |-> Listed(s)]
  <2>1. f \in [ToSet(Stacks) -> 1..n] /\ \A s, t \in ToSet(Stacks) : f[s] = f[t] => s = t
    BY <1>4
  <2>2. f \in Injection(ToSet(Stacks), 1..n)
    BY <2>1 DEF Injection, IsInjective
  <2>3. IsFiniteSet(1..n)
    BY <1>1, FS_Interval
  <2> QED BY <2>2, <2>3, FS_Injection
<1> QED BY <1>1, <1>4, <1>5

LEMMA LevelsOrdered ==
  ASSUME NEW cs \in Curves
  PROVE  /\ \A s \in ToSet(Stacks) : cs[s] \in Int /\ cs[s] >= NoCurve
         /\ \A s, t \in ToSet(Stacks) : s # t => Above(cs, s, t) \/ Above(cs, t, s)
         /\ \A s, t, u \in ToSet(Stacks) :
              Above(cs, s, t) /\ Above(cs, t, u) => Above(cs, s, u)
         /\ \A s \in ToSet(Stacks) : ~Above(cs, s, s)
<1>1. \A s \in ToSet(Stacks) : cs[s] \in Int /\ cs[s] >= NoCurve
  <2>1. \A s \in ToSet(Stacks) : cs[s] \in Levels \union {NoCurve}
    BY DEF Curves
  <2>2. \A l \in Levels \union {NoCurve} : l \in Int /\ l >= NoCurve
    BY LevelsAssumption DEF NoCurve
  <2> QED BY <2>1, <2>2
<1>2. \A s \in ToSet(Stacks) : Listed(s) \in Int
  BY StacksListed
<1>3. ASSUME NEW s \in ToSet(Stacks), NEW t \in ToSet(Stacks), s # t
      PROVE  Above(cs, s, t) \/ Above(cs, t, s)
  <2>1. Listed(s) # Listed(t)
    BY <1>3, StacksListed
  <2> QED BY <1>1, <1>2, <2>1 DEF Above
<1>4. ASSUME NEW s \in ToSet(Stacks), NEW t \in ToSet(Stacks), NEW u \in ToSet(Stacks),
             Above(cs, s, t), Above(cs, t, u)
      PROVE  Above(cs, s, u)
  BY <1>1, <1>2, <1>4 DEF Above
<1>5. \A s \in ToSet(Stacks) : ~Above(cs, s, s)
  BY <1>1, <1>2 DEF Above
<1> QED BY <1>1, <1>3, <1>4, <1>5

(* The places are 1 to the number of the stacks, each taken once, the lower *)
(* ones by the higher loads: a place is one more than the number of those   *)
(* above.                                                                   *)
LEMMA Places ==
  ASSUME NEW cs \in Curves, NEW S \in SUBSET ToSet(Stacks)
  PROVE  /\ IsFiniteSet(S) /\ Cardinality(S) \in Nat
         /\ \A s \in S : Place(S, cs, s) \in 1..Cardinality(S)
         /\ \A s, t \in S : Above(cs, t, s) => Place(S, cs, t) < Place(S, cs, s)
         /\ \A s, t \in S : Place(S, cs, s) = Place(S, cs, t) => s = t
         /\ \A i \in 1..Cardinality(S) : \E s \in S : Place(S, cs, s) = i
<1> DEFINE B(s) == {t \in S : Above(cs, t, s)}
           P(s) == Cardinality(B(s)) + 1
           n == Cardinality(S)
<1>1. IsFiniteSet(S) /\ n \in Nat
  BY StacksListed, FS_Subset, FS_CardinalityType
<1>2. \A s \in S : Place(S, cs, s) = P(s)
  BY DEF Place
<1>3. ASSUME NEW s \in S PROVE Cardinality(B(s)) \in Nat /\ P(s) \in 1..n
  <2>1. B(s) \in SUBSET S /\ s \in S \ B(s) /\ S \in SUBSET S
    BY LevelsOrdered
  <2> HIDE DEF B
  <2>2. Cardinality(B(s)) \in Nat /\ Cardinality(B(s)) + 1 <= n
    BY <1>1, <2>1, Fewer
  <2> HIDE DEF n
  <2> QED BY <1>1, <2>2
<1>4. ASSUME NEW s \in S, NEW t \in S, Above(cs, t, s) PROVE P(t) < P(s)
  <2>1. B(t) \in SUBSET B(s) /\ B(s) \in SUBSET S /\ t \in B(s) \ B(t)
    BY <1>4, LevelsOrdered
  <2> HIDE DEF B
  <2>2. Cardinality(B(t)) + 1 <= Cardinality(B(s))
    BY <1>1, <2>1, Fewer
  <2> QED BY <1>3, <2>2
<1>5. ASSUME NEW s \in S, NEW t \in S, P(s) = P(t) PROVE s = t
  <2>1. P(s) \in Int /\ P(t) \in Int
    BY <1>3
  <2> HIDE DEF P
  <2>2. ~Above(cs, s, t) /\ ~Above(cs, t, s)
    BY <1>4, <1>5, <2>1
  <2> QED BY <2>2, LevelsOrdered
<1> HIDE DEF P
<1>6. ASSUME NEW i \in 1..n PROVE \E s \in S : P(s) = i
  <2> DEFINE f == [s \in S |-> P(s)]
             T == {P(s) : s \in S}
  <2>1. f \in [S -> T] /\ (\A x, y \in S : f[x] = f[y] => x = y) /\ \A z \in T : \E x \in S : f[x] = z
    BY <1>5
  <2> HIDE DEF f
  <2>2. Cardinality(T) = n
    <3> HIDE DEF T
    <3> QED BY <1>1, <2>1, SameSize
  <2>3. IsFiniteSet(1..n) /\ Cardinality(1..n) = n
    <3> HIDE DEF n
    <3>1. 1 \in Int /\ n \in Int /\ n - 1 + 1 = n
      BY <1>1
    <3> QED BY <1>1, <3>1, FS_Interval
  <2>4. T \in SUBSET (1..n) /\ 1..n \in SUBSET (1..n)
    BY <1>3
  <2>5. i \in T
    <3> SUFFICES ASSUME i \notin T PROVE FALSE
      OBVIOUS
    <3>1. i \in (1..n) \ T
      OBVIOUS
    <3> HIDE DEF T
    <3>2. Cardinality(T) + 1 <= Cardinality(1..n)
      BY <2>3, <2>4, <3>1, Fewer
    <3> HIDE DEF n
    <3> QED BY <1>1, <2>2, <2>3, <3>2
  <2> QED BY <2>5
<1>7. \A i \in 1..n : \E s \in S : Place(S, cs, s) = i
  BY <1>2, <1>6
<1>8. \A s \in S : Place(S, cs, s) \in 1..n
  BY <1>2, <1>3
<1>9. \A s, t \in S : Above(cs, t, s) => Place(S, cs, t) < Place(S, cs, s)
  BY <1>2, <1>4
<1>10. \A s, t \in S : Place(S, cs, s) = Place(S, cs, t) => s = t
  BY <1>2, <1>5
<1> QED BY <1>1, <1>7, <1>8, <1>9, <1>10

LEMMA RankedStacks ==
  ASSUME NEW cs \in Curves
  PROVE  LET S == WithCurve(cs)
             n == Charted(S)
             r == Ranked(cs)
         IN /\ n \in 0..Cardinality(S) /\ Cardinality(S) \in Nat
            /\ n # Cardinality(S) => n = TopSize
            /\ n = 0 => Cardinality(S) = 0
            /\ r \in Seq(ToSet(Stacks)) /\ Len(r) = n /\ DOMAIN r = 1..n
            /\ \A i \in 1..n : r[i] \in S /\ Place(S, cs, r[i]) = i
<1> DEFINE S == WithCurve(cs)
           n == Charted(S)
           r == Ranked(cs)
           N == Cardinality(S)
<1>1. S \in SUBSET ToSet(Stacks)
  BY DEF WithCurve
<1> HIDE DEF S
<1>2. N \in Nat /\ \A i \in 1..N : \E s \in S : Place(S, cs, s) = i
  BY <1>1, Places
<1>3. n \in 0..N /\ (n # N => n = TopSize) /\ (n = 0 => N = 0) /\ 1..n \subseteq 1..N
  <2>1. n = IF N < TopSize THEN N ELSE TopSize
    BY DEF Charted
  <2> HIDE DEF n, N
  <2> QED BY <1>2, <2>1, TopSizeAssumption
<1>4. r = [i \in 1..n |-> CHOOSE s \in S : Place(S, cs, s) = i]
  BY DEF Ranked, ByLoad, S
<1> HIDE DEF n, N, r
<1>5. ASSUME NEW i \in 1..n PROVE r[i] \in S /\ Place(S, cs, r[i]) = i
  <2>1. r[i] = CHOOSE s \in S : Place(S, cs, s) = i
    BY <1>4
  <2>2. \E s \in S : Place(S, cs, s) = i
    BY <1>2, <1>3
  <2> QED BY <2>1, <2>2
<1>6. r \in [1..n -> ToSet(Stacks)] /\ n \in Nat
  <2>1. \A i \in 1..n : r[i] \in ToSet(Stacks)
    BY <1>1, <1>5
  <2>2. r = [i \in 1..n |-> r[i]]
    BY <1>4
  <2>3. n \in Nat
    BY <1>2, <1>3
  <2> QED BY <2>1, <2>2, <2>3
<1>7. r \in Seq(ToSet(Stacks)) /\ Len(r) = n /\ DOMAIN r = 1..n
  <2>1. r \in Seq(ToSet(Stacks))
    BY <1>6, SeqDef
  <2> QED BY <1>6, <2>1, LenProperties
<1> QED BY <1>2, <1>3, <1>5, <1>7 DEF S, n, N, r

(* What is charted is ranked.                                               *)
Charts ==
  \/ top.stacks = <<>> /\ WithCurve(top.curves) = {}
  \/ top.stacks = Ranked(top.curves)

(* Unless the loads of another range were in flight, those in flight are of *)
(* the range chosen.                                                        *)
LoadsInv ==
  /\ loadRange \in ChartRanges /\ charting \subseteq ChartRanges
  /\ {loading, listing, excused} \subseteq BOOLEAN
  /\ top \in [range : ChartRanges, curves : Curves, stacks : Seq(ToSet(Stacks))]
  /\ ~listing /\ ~excused => charting \subseteq {loadRange}
  /\ LoadSettled /\ Charts

LEMMA Uncharted ==
  ASSUME NEW range \in ChartRanges
  PROVE  /\ [range |-> range, curves |-> Nowhere, stacks |-> <<>>]
              \in [range : ChartRanges, curves : Curves, stacks : Seq(ToSet(Stacks))]
         /\ WithCurve(Nowhere) = {}
BY EmptySeq DEF Nowhere, Curves, WithCurve

LEMMA LoadsInvInit == LoadsInit => LoadsInv
<1> SUFFICES ASSUME LoadsInit PROVE LoadsInv
  OBVIOUS
<1>1. loadRange \in ChartRanges
  BY ChartRangesAssumption DEF LoadsInit
<1> QED BY <1>1, Uncharted DEF LoadsInit, LoadsInv, LoadSettled, Charts

LEMMA LoadsStep == LoadsInv /\ [LoadsNext]_loadVars => LoadsInv'
<1> SUFFICES ASSUME LoadsInv, [LoadsNext]_loadVars PROVE LoadsInv'
  OBVIOUS
<1>1. CASE StacksAnswer
  BY <1>1 DEF StacksAnswer, LoadsInv, LoadSettled, Charts
<1>2. CASE NoStacksAnswer
  <2>1. /\ top' = [range |-> loadRange, curves |-> Nowhere, stacks |-> <<>>]
        /\ ~listing' /\ ~loading' /\ excused' = (charting # {}) /\ UNCHANGED <<loadRange, charting>>
    BY <1>2 DEF NoStacksAnswer
  <2>2. top' \in [range : ChartRanges, curves : Curves, stacks : Seq(ToSet(Stacks))] /\ Charts'
    BY <2>1, Uncharted DEF LoadsInv, Charts
  <2>3. LoadSettled' /\ (~listing' /\ ~excused' => charting' \subseteq {loadRange'})
    BY <2>1 DEF LoadSettled
  <2>4. {loading', listing', excused'} \subseteq BOOLEAN
    BY <1>2 DEF NoStacksAnswer
  <2> QED BY <2>1, <2>2, <2>3, <2>4 DEF LoadsInv
<1>3. CASE StacksFail
  BY <1>3 DEF StacksFail, LoadsInv, LoadSettled, Charts
<1>4. CASE \E range \in ChartRanges : OnRange(range)
  BY <1>4 DEF OnRange, LoadsInv, LoadSettled, Charts
<1>5. CASE \E range \in ChartRanges : LoadsAnswer(range)
  <2>1. PICK range \in charting, cs \in Curves :
          /\ top' = [range |-> range, curves |-> cs, stacks |-> Ranked(cs)]
          /\ charting' = charting \ {range} /\ loading' = FALSE
          /\ UNCHANGED <<loadRange, listing, excused>>
    BY <1>5 DEF LoadsAnswer
  <2>2. Ranked(cs) \in Seq(ToSet(Stacks)) /\ range \in ChartRanges
    BY RankedStacks DEF LoadsInv
  <2>3. /\ top' \in [range : ChartRanges, curves : Curves, stacks : Seq(ToSet(Stacks))]
        /\ top'.range = range /\ Charts'
    BY <2>1, <2>2 DEF Charts
  <2>4. LoadSettled' /\ (~listing' /\ ~excused' => charting' \subseteq {loadRange'})
    BY <2>1, <2>3 DEF LoadsInv, LoadSettled
  <2> QED BY <2>1, <2>3, <2>4 DEF LoadsInv
<1>6. CASE UNCHANGED loadVars
  BY <1>6 DEF loadVars, LoadsInv, LoadSettled, Charts
<1> QED BY <1>1, <1>2, <1>3, <1>4, <1>5, <1>6 DEF LoadsNext

LEMMA ChartsRank == LoadsInv => TopRanked
<1> SUFFICES ASSUME LoadsInv PROVE TopRanked
  OBVIOUS
<1> DEFINE S == WithCurve(top.curves)
           Of(i) == top.curves[top.stacks[i]]
           Outside == {s \in DOMAIN top.curves : s \notin ToSet(top.stacks)}
<1>0. top.curves \in Curves /\ DOMAIN top.curves = ToSet(Stacks)
  BY DEF LoadsInv, Curves
<1>1. \A s \in Outside : s \in ToSet(Stacks) /\ (s \notin S => top.curves[s] = NoCurve)
  BY <1>0 DEF WithCurve
<1>2. LoadView.card = "empty" => top.stacks = <<>>
  BY DEF LoadView
<1>3. CASE top.stacks = <<>> /\ S = {}
  <2>1. DOMAIN top.stacks = {}
    BY <1>3
  <2>2. \A s \in Outside : top.curves[s] = NoCurve
    BY <1>1, <1>3
  <2> QED BY <2>1, <2>2 DEF TopRanked
<1>4. CASE top.stacks = Ranked(top.curves)
  <2> DEFINE n == Charted(S)
  <2>1. /\ n \in 0..Cardinality(S) /\ Cardinality(S) \in Nat
        /\ n # Cardinality(S) => n = TopSize
        /\ n = 0 => Cardinality(S) = 0
        /\ top.stacks \in Seq(ToSet(Stacks)) /\ Len(top.stacks) = n /\ DOMAIN top.stacks = 1..n
        /\ \A i \in 1..n : top.stacks[i] \in S /\ Place(S, top.curves, top.stacks[i]) = i
    BY <1>0, <1>4, RankedStacks
  <2>2. S \in SUBSET ToSet(Stacks)
    BY DEF WithCurve
  <2> HIDE DEF S, n
  <2>3. /\ \A s \in S : Place(S, top.curves, s) \in 1..Cardinality(S)
        /\ \A s, t \in S : Above(top.curves, t, s) => Place(S, top.curves, t) < Place(S, top.curves, s)
        /\ \A s, t \in S : Place(S, top.curves, s) = Place(S, top.curves, t) => s = t
    BY <1>0, <2>2, Places
  <2>4. ASSUME NEW s \in S, NEW t \in S,
               Place(S, top.curves, s) < Place(S, top.curves, t)
        PROVE  top.curves[s] >= top.curves[t]
    <3>1. ~Above(top.curves, t, s)
      <4>1. Place(S, top.curves, s) \in Int /\ Place(S, top.curves, t) \in Int
        BY <2>1, <2>3
      <4> QED BY <2>3, <2>4, <4>1
    <3>2. top.curves[s] \in Int /\ top.curves[t] \in Int
      BY <1>0, <2>2, LevelsOrdered
    <3> QED BY <3>1, <3>2 DEF Above
  <2>5. \A i, j \in DOMAIN top.stacks : i < j => Of(i) >= Of(j)
    BY <2>1, <2>4
  <2>6. ASSUME NEW s \in Outside, s \in S
        PROVE  n = TopSize /\ \A i \in 1..n : i < Place(S, top.curves, s)
    <3> DEFINE p == Place(S, top.curves, s)
    <3>1. p \in 1..Cardinality(S)
      BY <2>3, <2>6
    <3>2. p \notin 1..n
      <4> SUFFICES ASSUME p \in 1..n PROVE FALSE
        OBVIOUS
      <4>1. top.stacks[p] \in S /\ Place(S, top.curves, top.stacks[p]) = p
        BY <2>1
      <4>2. top.stacks[p] = s
        BY <2>3, <2>6, <4>1
      <4>3. s \in ToSet(top.stacks)
        BY <2>1, <4>2 DEF ToSet
      <4> QED BY <4>3
    <3> HIDE DEF p
    <3>3. n # Cardinality(S) /\ \A i \in 1..n : i < p
      BY <2>1, <3>1, <3>2
    <3> QED BY <2>1, <3>3 DEF p
  <2>7. ASSUME NEW i \in DOMAIN top.stacks, NEW s \in Outside PROVE Of(i) >= top.curves[s]
    <3>1. CASE s \in S
      BY <2>1, <2>4, <2>6, <2>7, <3>1
    <3>2. CASE s \notin S
      <4>1. top.curves[s] = NoCurve /\ top.stacks[i] \in ToSet(Stacks)
        BY <1>1, <2>1, <2>2, <3>2
      <4> QED BY <1>0, <4>1, LevelsOrdered
    <3> QED BY <3>1, <3>2
  <2>8. \A s \in Outside : top.curves[s] # NoCurve => Len(top.stacks) = TopSize
    BY <1>1, <2>1, <2>6
  <2>9. ASSUME LoadView.card = "empty", NEW s \in Outside PROVE top.curves[s] = NoCurve
    <3>1. Len(top.stacks) = 0
      BY <1>2, <2>9
    <3> QED BY <2>8, <3>1, TopSizeAssumption
  <2> HIDE DEF Of, Outside
  <2> QED BY <2>5, <2>7, <2>8, <2>9 DEF TopRanked, Of, Outside
<1> QED BY <1>3, <1>4 DEF LoadsInv, Charts

LEMMA LoadsInvSuffices == LoadsInv => LoadsTypeOK /\ LoadsSound
BY ChartsRank DEF LoadsInv, LoadsTypeOK, LoadsSound

(* Once everything is answered the load page charts the range chosen, and   *)
(* always the stacks with the highest loads, in their order.                *)
THEOREM LoadsAreTrue == LoadsSpec => [](LoadsTypeOK /\ LoadsSound)
BY LoadsInvInit, LoadsStep, LoadsInvSuffices, PTL DEF LoadsSpec

-----------------------------------------------------------------------------
(***************************************************************************)
(* The node map: its figures are those of the entries, however many nodes   *)
(* there are, whatever runs on them.                                        *)
(***************************************************************************)

(* A rounded mean is no more than the greatest of the values.               *)
LEMMA MeanWithin ==
  ASSUME NEW s \in Nat, NEW n \in Nat \ {0}, NEW m \in Nat, s <= n * m
  PROVE  RoundedMean(s, n) <= m
<1> DEFINE x == 2 * s + n
           d == 2 * n
           q == x \div d
           e == n * m
<1>1. x \in Nat /\ d \in Nat \ {0} /\ e \in Int
  OBVIOUS
<1>2. d * (m + 1) = 2 * e + d /\ x < 2 * e + d
  OBVIOUS
<1>3. q \in Int /\ d * q <= x
  <2> HIDE DEF x, d
  <2> QED BY <1>1
<1>4. SUFFICES ASSUME q >= m + 1 PROVE FALSE
  BY <1>3 DEF RoundedMean
<1>5. d * q >= d * (m + 1)
  <2> HIDE DEF d, q
  <2> QED BY <1>1, <1>3, <1>4
<1> HIDE DEF x, q, e
<1>6. d * q \in Int
  BY <1>1, <1>3
<1> QED BY <1>1, <1>2, <1>3, <1>5, <1>6

(* The total of a list is the last of the sums up to each place.            *)
LEMMA Sums ==
  ASSUME NEW n \in Nat, NEW f \in [1..n -> Nat]
  PROVE  \E u \in [0..n -> Nat] : /\ u[0] = 0 /\ \A i \in 1..n : u[i] = u[i - 1] + f[i]
                                  /\ Total(f) = u[n]
<1> DEFINE F(g) == [i \in 0..Len(f) |-> IF i = 0 THEN 0 ELSE g[i - 1] + f[i]]
           upTo == CHOOSE g : g = F(g)
           step == [p \in (1..n) \X Nat |-> p[2] + f[p[1]]]
<1>1. Len(f) = n
  <2>1. f \in Seq(Nat)
    BY FunctionIsSequence
  <2> QED BY <2>1, LenProperties
<1>2. Total(f) = upTo[n]
  BY <1>1 DEF Total
<1>3. step \in [(1..n) \X Nat -> Nat] /\ 0 \in Nat
  OBVIOUS
<1>4. \A i \in 1..n, v \in Nat : step[<<i, v>>] = v + f[i]
  OBVIOUS
<1> HIDE DEF step
<1>5. PICK g : Solves(g, n, Nat, 0, step)
  BY <1>3, Recursion
<1>6. ASSUME NEW i \in 0..n PROVE g[i] = IF i = 0 THEN 0 ELSE g[i - 1] + f[i]
  <2>1. CASE i = 0
    BY <1>5, <2>1 DEF Solves
  <2>2. CASE i # 0
    <3>1. i \in 1..n /\ i - 1 \in 0..n
      BY <2>2
    <3>2. g[i - 1] \in Nat /\ g[i] = step[<<i, g[i - 1]>>]
      BY <1>5, <3>1 DEF Solves
    <3> QED BY <1>4, <2>2, <3>1, <3>2
  <2> QED BY <2>1, <2>2
<1>7. g = F(g)
  BY <1>1, <1>5, <1>6 DEF Solves
<1>8. upTo = F(upTo)
  BY <1>7
<1> HIDE DEF upTo
<1>9. /\ DOMAIN upTo = 0..n
      /\ \A i \in 0..n : upTo[i] = IF i = 0 THEN 0 ELSE upTo[i - 1] + f[i]
  BY <1>1, <1>8
<1> HIDE DEF F
<1> DEFINE S == {i \in 0..n : upTo[i] \in Nat}
<1>10. 0 \in S
  BY <1>9
<1>11. ASSUME NEW i \in 0..(n - 1), i \in S PROVE i + 1 \in S
  <2>1. i + 1 \in 0..n /\ i + 1 # 0 /\ (i + 1) - 1 = i /\ i + 1 \in 1..n
    OBVIOUS
  <2>2. upTo[i + 1] = upTo[i] + f[i + 1]
    BY <1>9, <2>1
  <2> QED BY <1>11, <2>1, <2>2
<1>12. 0..n \subseteq S
  <2> HIDE DEF S
  <2> QED BY <1>10, <1>11, UpTo
<1>13. upTo \in [0..n -> Nat]
  <2>1. upTo = [i \in 0..n |-> upTo[i]]
    BY <1>1, <1>8 DEF F
  <2>2. \A i \in 0..n : upTo[i] \in Nat
    BY <1>12
  <2> QED BY <2>1, <2>2
<1>14. upTo[0] = 0 /\ \A i \in 1..n : upTo[i] = upTo[i - 1] + f[i]
  BY <1>9
<1> QED BY <1>2, <1>13, <1>14

(* A total of n values is at most n times the greatest.                     *)
LEMMA TotalWithin ==
  ASSUME NEW n \in Nat, NEW m \in Nat, NEW f \in [1..n -> Nat], \A i \in 1..n : f[i] <= m
  PROVE  Total(f) \in Nat /\ Total(f) <= n * m
<1>1. PICK u \in [0..n -> Nat] : /\ u[0] = 0 /\ \A i \in 1..n : u[i] = u[i - 1] + f[i]
                                 /\ Total(f) = u[n]
  BY Sums
<1> DEFINE S == {i \in 0..n : u[i] <= i * m}
<1>2. 0 \in S
  BY <1>1
<1>3. ASSUME NEW i \in 0..(n - 1), i \in S PROVE i + 1 \in S
  <2>1. i + 1 \in 0..n /\ (i + 1) - 1 = i /\ i + 1 \in 1..n /\ i \in 0..n
    OBVIOUS
  <2>2. u[i + 1] = u[i] + f[i + 1]
    BY <1>1, <2>1
  <2>3. (i + 1) * m = i * m + m /\ i * m \in Nat
    BY <2>1
  <2>4. u[i] <= i * m /\ u[i] \in Nat /\ f[i + 1] \in Nat /\ f[i + 1] <= m
    BY <1>3, <2>1
  <2>5. u[i + 1] <= (i + 1) * m
    <3> DEFINE a == i * m
               b == (i + 1) * m
    <3>1. b = a + m /\ a \in Nat /\ u[i] <= a
      BY <2>3, <2>4
    <3> HIDE DEF a, b
    <3>2. u[i + 1] <= b
      BY <2>2, <2>4, <3>1
    <3> QED BY <3>2 DEF b
  <2> QED BY <2>1, <2>5
<1>4. 0..n \subseteq S
  <2> HIDE DEF S
  <2> QED BY <1>2, <1>3, UpTo
<1> QED BY <1>1, <1>4

(* The n parts of a set, which share nothing, and their sizes.              *)
Splits(all, parts, n, sizes) ==
  /\ \A i \in 1..n : IsFiniteSet(parts[i]) /\ Cardinality(parts[i]) = sizes[i]
  /\ \A i, j \in 1..n : i # j => parts[i] \intersect parts[j] = {}
  /\ \A x : x \in all <=> \E i \in 1..n : x \in parts[i]

(* The sizes of the parts add up to that of the set.                        *)
LEMMA SizesAddUp ==
  ASSUME NEW n \in Nat, NEW f \in [1..n -> Nat], NEW piece, NEW all, Splits(all, piece, n, f)
  PROVE  IsFiniteSet(all) /\ Cardinality(all) \in Nat /\ Total(f) = Cardinality(all)
<1>0. /\ \A i \in 1..n : IsFiniteSet(piece[i]) /\ Cardinality(piece[i]) = f[i]
      /\ \A i, j \in 1..n : i # j => piece[i] \intersect piece[j] = {}
      /\ \A x : x \in all <=> \E i \in 1..n : x \in piece[i]
  BY DEF Splits
<1>1. PICK u \in [0..n -> Nat] : /\ u[0] = 0 /\ \A i \in 1..n : u[i] = u[i - 1] + f[i]
                                 /\ Total(f) = u[n]
  BY Sums
<1> DEFINE First(k) == UNION {piece[i] : i \in 1..k}
           S == {k \in 0..n : IsFiniteSet(First(k)) /\ Cardinality(First(k)) = u[k]}
<1>2. 0 \in S
  <2>1. First(0) = {}
    <3>1. 1..0 = {}
      OBVIOUS
    <3> QED BY <3>1
  <2>2. 0 \in 0..n
    OBVIOUS
  <2> HIDE DEF First
  <2> QED BY <1>1, <2>1, <2>2, FS_EmptySet
<1>3. ASSUME NEW k \in 0..(n - 1), k \in S PROVE k + 1 \in S
  <2>1. k + 1 \in 0..n /\ (k + 1) - 1 = k /\ k + 1 \in 1..n /\ k \in 0..n
    OBVIOUS
  <2>2. \A i : i \in 1..(k + 1) <=> i \in 1..k \/ i = k + 1
    <3>1. k \in Nat
      OBVIOUS
    <3> SUFFICES ASSUME NEW i PROVE i \in 1..(k + 1) <=> i \in 1..k \/ i = k + 1
      OBVIOUS
    <3>2. 1 <= k + 1 /\ k + 1 \in Int
      BY <3>1
    <3>3. CASE i \in Int
      BY <3>1, <3>3
    <3>4. CASE i \notin Int
      BY <3>1, <3>2, <3>4
    <3> QED BY <3>3, <3>4
  <2>3. First(k + 1) = First(k) \union piece[k + 1]
    BY <2>2
  <2>4. First(k) \intersect piece[k + 1] = {}
    <3>1. \A i \in 1..k : i \in 1..n /\ i # k + 1
      OBVIOUS
    <3>2. \A i \in 1..k : piece[i] \intersect piece[k + 1] = {}
      BY <1>0, <2>1, <3>1
    <3> QED BY <3>2
  <2>5. /\ IsFiniteSet(First(k)) /\ Cardinality(First(k)) = u[k]
        /\ IsFiniteSet(piece[k + 1]) /\ Cardinality(piece[k + 1]) = f[k + 1]
    BY <1>0, <1>3, <2>1
  <2> HIDE DEF First
  <2>6. IsFiniteSet(First(k + 1)) /\ Cardinality(First(k + 1)) = u[k] + f[k + 1]
    <3> DEFINE A == First(k)
               B == piece[k + 1]
    <3>1. IsFiniteSet(A) /\ IsFiniteSet(B) /\ A \intersect B = {}
      BY <2>4, <2>5
    <3>2. First(k + 1) = A \union B /\ Cardinality(A) = u[k] /\ Cardinality(B) = f[k + 1]
      BY <2>3, <2>5
    <3> HIDE DEF A, B
    <3>3. IsFiniteSet(A \union B) /\ Cardinality(A \union B) = Cardinality(A) + Cardinality(B)
      BY <3>1, Disjoint
    <3> QED BY <3>2, <3>3
  <2>7. u[k + 1] = u[k] + f[k + 1]
    BY <1>1, <2>1
  <2> QED BY <2>1, <2>6, <2>7
<1>4. 0..n \subseteq S
  <2> HIDE DEF S
  <2> QED BY <1>2, <1>3, UpTo
<1>5. IsFiniteSet(First(n)) /\ Cardinality(First(n)) = u[n]
  <2>1. n \in S
    <3> HIDE DEF S
    <3> QED BY <1>4
  <2> HIDE DEF First
  <2> QED BY <2>1
<1>6. First(n) = all
  <2>1. \A x : x \in First(n) <=> \E i \in 1..n : x \in piece[i]
    OBVIOUS
  <2> HIDE DEF First
  <2> QED BY <1>0, <2>1
<1>7. u[n] \in Nat
  BY <1>1
<1> HIDE DEF First, S
<1> QED BY <1>1, <1>5, <1>6, <1>7

(* Of two members of S the pairs put exactly one before the other, and they *)
(* do so in a row.                                                          *)
Orders(before, S) ==
  /\ \A s \in S : <<s, s>> \notin before
  /\ \A s, t \in S : s # t => <<s, t>> \in before \/ <<t, s>> \in before
  /\ \A s, t, v \in S : <<s, t>> \in before /\ <<t, v>> \in before => <<s, v>> \in before

(* The list of an ordered set has each member once, every one before those  *)
(* it precedes.                                                             *)
LEMMA Listing ==
  ASSUME NEW S, IsFiniteSet(S), NEW before, Orders(before, S)
  PROVE  LET n == Cardinality(S)
             listed == InOrder(S, before)
         IN /\ n \in Nat /\ listed \in [1..n -> S]
            /\ \A i, j \in 1..n : i < j => <<listed[i], listed[j]>> \in before
            /\ \A s \in S : \E i \in 1..n : listed[i] = s
<1> DEFINE n == Cardinality(S)
           listed == InOrder(S, before)
           B(s) == {t \in S : <<t, s>> \in before}
           P(s) == Cardinality(B(s))
<1>0. /\ \A s \in S : <<s, s>> \notin before
      /\ \A s, t \in S : s # t => <<s, t>> \in before \/ <<t, s>> \in before
      /\ \A s, t, v \in S : <<s, t>> \in before /\ <<t, v>> \in before => <<s, v>> \in before
  BY DEF Orders
<1>1. n \in Nat
  BY FS_CardinalityType
<1>2. ASSUME NEW s \in S PROVE P(s) \in 0..(n - 1)
  <2>1. B(s) \in SUBSET S /\ s \in S \ B(s) /\ S \in SUBSET S
    BY <1>0
  <2> HIDE DEF B
  <2>2. P(s) \in Nat /\ P(s) + 1 <= n
    BY <2>1, Fewer
  <2> HIDE DEF n, P
  <2> QED BY <1>1, <2>2
<1>3. ASSUME NEW s \in S, NEW t \in S, <<t, s>> \in before PROVE P(t) < P(s)
  <2>1. B(t) \in SUBSET B(s) /\ B(s) \in SUBSET S /\ t \in B(s) \ B(t)
    BY <1>0, <1>3
  <2> HIDE DEF B
  <2>2. P(t) + 1 <= P(s)
    BY <2>1, Fewer
  <2>3. P(t) \in Int /\ P(s) \in Int
    BY <1>2
  <2> HIDE DEF P
  <2> QED BY <2>2, <2>3
<1>4. ASSUME NEW s \in S, NEW t \in S, P(s) = P(t) PROVE s = t
  <2>1. P(s) \in Int /\ P(t) \in Int
    BY <1>2
  <2> HIDE DEF P
  <2>2. <<s, t>> \notin before /\ <<t, s>> \notin before
    <3>1. ~(P(s) < P(t)) /\ ~(P(t) < P(s))
      BY <1>4, <2>1
    <3> QED BY <1>3, <3>1
  <2> QED BY <1>0, <2>2
<1>5. listed = [i \in 1..n |-> CHOOSE s \in S : P(s) = i - 1]
  BY DEF InOrder
<1> HIDE DEF P, listed
<1>6. ASSUME NEW i \in 0..(n - 1) PROVE \E s \in S : P(s) = i
  <2> DEFINE f == [s \in S |-> P(s)]
             T == {P(s) : s \in S}
             U == 0..(n - 1)
  <2>1. f \in [S -> T] /\ (\A x, y \in S : f[x] = f[y] => x = y) /\ \A z \in T : \E x \in S : f[x] = z
    BY <1>4
  <2> HIDE DEF f
  <2>2. Cardinality(T) = n
    <3> HIDE DEF T
    <3> QED BY <2>1, SameSize
  <2>3. T \in SUBSET U /\ U \in SUBSET U /\ i \in U
    BY <1>2
  <2> HIDE DEF n
  <2>4. IsFiniteSet(U) /\ Cardinality(U) = n
    <3>1. 0 \in Int /\ n - 1 \in Int /\ n = IF 0 > n - 1 THEN 0 ELSE (n - 1) - 0 + 1
      BY <1>1
    <3> QED BY <3>1, FS_Interval
  <2> HIDE DEF T, U
  <2>5. i \in T
    <3> SUFFICES ASSUME i \notin T PROVE FALSE
      OBVIOUS
    <3>1. i \in U \ T
      BY <2>3
    <3>2. Cardinality(T) + 1 <= Cardinality(U)
      BY <2>3, <2>4, <3>1, Fewer
    <3> QED BY <1>1, <2>2, <2>4, <3>2
  <2> QED BY <2>5 DEF T
<1>7. ASSUME NEW i \in 1..n PROVE listed[i] \in S /\ P(listed[i]) = i - 1
  <2>1. i - 1 \in 0..(n - 1)
    BY <1>1
  <2>2. \E s \in S : P(s) = i - 1
    BY <1>6, <2>1
  <2>3. listed[i] = CHOOSE s \in S : P(s) = i - 1
    BY <1>5
  <2> QED BY <2>2, <2>3
<1>8. listed \in [1..n -> S]
  <2>1. \A i \in 1..n : listed[i] \in S
    BY <1>7
  <2>2. listed = [i \in 1..n |-> listed[i]]
    BY <1>5
  <2> HIDE DEF n
  <2> QED BY <2>1, <2>2
<1>9. ASSUME NEW i \in 1..n, NEW j \in 1..n, i < j PROVE <<listed[i], listed[j]>> \in before
  <2>1. listed[i] \in S /\ listed[j] \in S /\ P(listed[i]) < P(listed[j]) /\ P(listed[i]) \in Int
    BY <1>1, <1>7, <1>9
  <2>2. listed[i] # listed[j] /\ P(listed[j]) \in Int /\ ~(P(listed[j]) < P(listed[i]))
    BY <1>1, <1>7, <2>1
  <2> QED BY <1>0, <1>3, <2>1, <2>2
<1>10. ASSUME NEW s \in S PROVE \E i \in 1..n : listed[i] = s
  <2> DEFINE i == P(s) + 1
  <2>1. i \in 1..n /\ P(s) = i - 1
    BY <1>1, <1>2
  <2>2. listed[i] \in S /\ P(listed[i]) = P(s)
    <3> HIDE DEF i
    <3> QED BY <1>7, <2>1
  <2>3. listed[i] = s
    BY <1>4, <2>2
  <2> QED BY <2>1, <2>3
<1> QED BY <1>1, <1>8, <1>9, <1>10 DEF listed

(* What an entry holds.                                                    *)
LEMMA EntryFields ==
  ASSUME NEW es \in Seq(Entries)
  PROVE  /\ Len(es) \in Nat /\ DOMAIN es = 1..Len(es)
         /\ \A i \in 1..Len(es) :
              /\ es[i] \in Entries /\ es[i].cpu \in Nat /\ es[i].drained \in BOOLEAN
              /\ Len(es[i].chips) \in Nat /\ DOMAIN es[i].chips = 1..Len(es[i].chips)
<1>1. Len(es) \in Nat /\ DOMAIN es = 1..Len(es) /\ \A i \in 1..Len(es) : es[i] \in Entries
  BY LenProperties, ElementOfSeq
<1>2. \A e \in Entries : e.cpu \in Usages /\ e.drained \in BOOLEAN /\ e.chips \in ChipLists
  BY DEF Entries
<1> QED BY <1>1, <1>2, MapAssumption

(* The places of the tasks are those of the nodes' lists, as many as the    *)
(* lists are long together.                                                 *)
LEMMA PlacesCounted ==
  ASSUME NEW es \in Seq(Entries)
  PROVE  /\ IsFiniteSet(TaskPlaces(es)) /\ Cardinality(TaskPlaces(es)) \in Nat
         /\ TotalServices(es) = Cardinality(TaskPlaces(es))
         /\ \A p \in TaskPlaces(es) :
              /\ p = <<p[1], p[2]>> /\ p[1] \in 1..Len(es) /\ p[1] \in Nat
              /\ p[2] \in 1..Len(es[p[1]].chips) /\ p[2] \in Nat
<1> DEFINE n == Len(es)
           m(i) == Len(es[i].chips)
           piece == [i \in 1..n |-> {i} \X (1..m(i))]
           f == [i \in 1..n |-> m(i)]
<1>1. /\ n \in Nat /\ DOMAIN es = 1..n
      /\ \A i \in 1..n : m(i) \in Nat /\ DOMAIN es[i].chips = 1..m(i)
  BY EntryFields
<1>2. TotalServices(es) = Total(f)
  BY <1>1 DEF TotalServices
<1>3. f \in [1..n -> Nat]
  BY <1>1
<1>4. ASSUME NEW i \in 1..n PROVE IsFiniteSet(piece[i]) /\ Cardinality(piece[i]) = f[i]
  <2> DEFINE g == [k \in 1..m(i) |-> <<i, k>>]
  <2>1. /\ g \in [1..m(i) -> {i} \X (1..m(i))]
        /\ \A x, y \in 1..m(i) : g[x] = g[y] => x = y
        /\ \A z \in {i} \X (1..m(i)) : \E x \in 1..m(i) : g[x] = z
    OBVIOUS
  <2>2. IsFiniteSet(1..m(i)) /\ Cardinality(1..m(i)) = m(i)
    <3>1. 1 \in Int /\ m(i) \in Int /\ m(i) = IF 1 > m(i) THEN 0 ELSE m(i) - 1 + 1
      BY <1>1
    <3> HIDE DEF m
    <3> QED BY <3>1, FS_Interval
  <2> DEFINE T == {i} \X (1..m(i))
             U == 1..m(i)
  <2> HIDE DEF m, g
  <2>3. IsFiniteSet(T) /\ Cardinality(T) = m(i)
    <3>1. /\ g \in [U -> T] /\ IsFiniteSet(U) /\ Cardinality(U) = m(i)
          /\ \A x, y \in U : g[x] = g[y] => x = y
          /\ \A z \in T : \E x \in U : g[x] = z
      BY <2>1, <2>2
    <3> HIDE DEF T, U
    <3> QED BY <3>1, SameSize
  <2> QED BY <2>3
<1>5. ASSUME NEW i \in 1..n, NEW j \in 1..n, i # j PROVE piece[i] \intersect piece[j] = {}
  BY <1>5
<1>6. TaskPlaces(es) = UNION {piece[i] : i \in 1..n}
  BY <1>1 DEF TaskPlaces
<1>7. \A p \in TaskPlaces(es) : \E i \in 1..n : p \in {i} \X (1..m(i))
  BY <1>6
<1> HIDE DEF piece, f
<1>8. /\ IsFiniteSet(TaskPlaces(es)) /\ Cardinality(TaskPlaces(es)) \in Nat
      /\ Total(f) = Cardinality(TaskPlaces(es))
  <2>1. Splits(TaskPlaces(es), piece, n, f)
    BY <1>4, <1>5, <1>6 DEF Splits
  <2>2. n \in Nat
    BY <1>1
  <2> HIDE DEF n
  <2> QED BY <1>3, <2>1, <2>2, SizesAddUp
<1>9. ASSUME NEW p \in TaskPlaces(es)
      PROVE  /\ p = <<p[1], p[2]>> /\ p[1] \in 1..n /\ p[1] \in Nat
             /\ p[2] \in 1..m(p[1]) /\ p[2] \in Nat
  <2>1. PICK i \in 1..n : p \in {i} \X (1..m(i))
    BY <1>7
  <2>2. p = <<p[1], p[2]>> /\ p[1] = i /\ p[2] \in 1..m(i)
    BY <2>1
  <2> HIDE DEF m, n
  <2> QED BY <1>1, <2>2
<1> QED BY <1>2, <1>8, <1>9

(* Of any tasks one comes first.                                            *)
LEMMA FirstMet ==
  ASSUME NEW es \in Seq(Entries), NEW T \in SUBSET TaskPlaces(es), T # {}
  PROVE  \E p \in T : \A q \in T : q = p \/ Earlier(p, q)
<1>1. \A p \in T : /\ p = <<p[1], p[2]>> /\ p[1] \in 1..Len(es) /\ p[1] \in Nat
                    /\ p[2] \in 1..Len(es[p[1]].chips) /\ p[2] \in Nat
  BY PlacesCounted
<1> DEFINE I == {p[1] : p \in T}
<1>2. I \in SUBSET (0..Len(es)) /\ I # {} /\ Len(es) \in Nat
  BY <1>1, EntryFields
<1> HIDE DEF I
<1>3. PICK i \in I : \A x \in I : i <= x
  BY <1>2, Least
<1> DEFINE m == Len(es[i].chips)
           K == {p[2] : p \in {q \in T : q[1] = i}}
<1>4. K \in SUBSET (0..m) /\ K # {} /\ m \in Nat
  <2>1. \A k \in K : k \in 1..m
    BY <1>1
  <2>2. K # {}
    BY DEF I
  <2>3. m \in Nat
    <3>1. i \in 1..Len(es)
      BY <1>1 DEF I
    <3> QED BY <3>1, EntryFields
  <2> HIDE DEF m, K
  <2> QED BY <2>1, <2>2, <2>3
<1>5. PICK k \in K : \A x \in K : k <= x
  <2> HIDE DEF m, K
  <2> QED BY <1>4, Least
<1>6. PICK p \in T : p[1] = i /\ p[2] = k
  OBVIOUS
<1>7. ASSUME NEW q \in T PROVE q = p \/ Earlier(p, q)
  <2>1. p = <<i, k>> /\ q = <<q[1], q[2]>> /\ {i, k, q[1], q[2]} \subseteq Nat
    BY <1>1, <1>6
  <2>2. i <= q[1]
    BY <1>3 DEF I
  <2>3. q[1] = i => k <= q[2]
    BY <1>5
  <2>4. i < q[1] \/ (i = q[1] /\ k < q[2]) \/ (i = q[1] /\ k = q[2])
    BY <2>1, <2>2, <2>3
  <2>5. i = q[1] /\ k = q[2] => q = p
    BY <2>1
  <2> QED BY <1>6, <2>4, <2>5 DEF Earlier
<1> QED BY <1>7

(* Nothing is met before itself, and what is met before an earlier is met   *)
(* before a later.                                                          *)
LEMMA EarlierOrder ==
  ASSUME NEW es \in Seq(Entries), NEW p \in TaskPlaces(es), NEW q \in TaskPlaces(es),
         NEW r \in TaskPlaces(es)
  PROVE  ~Earlier(p, p) /\ (Earlier(p, q) /\ Earlier(q, r) => Earlier(p, r))
BY PlacesCounted DEF Earlier

(* The order of the services: of two exactly one outranks the other.        *)
LEMMA ServicesOrdered ==
  ASSUME NEW es \in Seq(Entries)
  PROVE  LET N == ServiceNames(es)
         IN /\ IsFiniteSet(N) /\ Cardinality(N) \in Nat
            /\ \A a \in N : /\ IsFiniteSet(TasksOf(es, a)) /\ TasksOf(es, a) # {}
                            /\ TaskCount(es, a) \in Nat /\ ~Outranks(es, a, a)
            /\ \A a, b \in N : a # b => Outranks(es, a, b) \/ Outranks(es, b, a)
            /\ \A a, b, c \in N :
                 Outranks(es, a, b) /\ Outranks(es, b, c) => Outranks(es, a, c)
<1> DEFINE N == ServiceNames(es)
           P == TaskPlaces(es)
           S(p) == ChipAt(es, p).service
<1>1. IsFiniteSet(P)
  BY PlacesCounted
<1>2. IsFiniteSet(N) /\ Cardinality(N) \in Nat
  <2> DEFINE f == [p \in P |-> S(p)]
  <2>1. f \in [P -> N] /\ \A a \in N : \E p \in P : f[p] = a
    BY DEF ServiceNames
  <2> HIDE DEF f, N, P
  <2>2. f \in Surjection(P, N)
    BY <2>1 DEF Surjection
  <2> QED BY <1>1, <2>2, FS_Surjection, FS_CardinalityType
<1>3. ASSUME NEW a \in N
      PROVE  /\ TasksOf(es, a) \in SUBSET P /\ TasksOf(es, a) # {}
             /\ IsFiniteSet(TasksOf(es, a)) /\ TaskCount(es, a) \in Nat
  <2>1. TasksOf(es, a) \in SUBSET P /\ TasksOf(es, a) # {}
    BY DEF ServiceNames, TasksOf
  <2> QED BY <1>1, <2>1, FS_Subset, FS_CardinalityType DEF TaskCount
<1>4. \A a, b \in N : \A p \in TasksOf(es, a), q \in TasksOf(es, b) : a # b => p # q
  BY DEF TasksOf
<1> HIDE DEF N, P
<1>5. ASSUME NEW a \in N PROVE ~MetBefore(es, a, a)
  BY <1>3, EarlierOrder DEF MetBefore, P
<1>6. ASSUME NEW a \in N, NEW b \in N, a # b PROVE MetBefore(es, a, b) \/ MetBefore(es, b, a)
  <2>1. PICK p \in TasksOf(es, a) \union TasksOf(es, b) :
             \A q \in TasksOf(es, a) \union TasksOf(es, b) : q = p \/ Earlier(p, q)
    <3> DEFINE T == TasksOf(es, a) \union TasksOf(es, b)
    <3>1. T \in SUBSET TaskPlaces(es) /\ T # {}
      BY <1>3 DEF P
    <3> HIDE DEF T
    <3>2. \E p \in T : \A q \in T : q = p \/ Earlier(p, q)
      BY <3>1, FirstMet
    <3> QED BY <3>2 DEF T
  <2>2. CASE p \in TasksOf(es, a)
    <3>1. \A q \in TasksOf(es, b) : Earlier(p, q)
      BY <1>4, <1>6, <2>1, <2>2
    <3> QED BY <2>2, <3>1 DEF MetBefore
  <2>3. CASE p \in TasksOf(es, b)
    <3>1. \A q \in TasksOf(es, a) : Earlier(p, q)
      BY <1>4, <1>6, <2>1, <2>3
    <3> QED BY <2>3, <3>1 DEF MetBefore
  <2> QED BY <2>1, <2>2, <2>3
<1>7. ASSUME NEW a \in N, NEW b \in N, NEW c \in N, MetBefore(es, a, b), MetBefore(es, b, c)
      PROVE  MetBefore(es, a, c)
  <2>1. PICK p \in TasksOf(es, a) : \A q \in TasksOf(es, b) : Earlier(p, q)
    BY <1>7 DEF MetBefore
  <2>2. PICK q \in TasksOf(es, b) : \A r \in TasksOf(es, c) : Earlier(q, r)
    BY <1>7 DEF MetBefore
  <2>3. p \in TaskPlaces(es) /\ q \in TaskPlaces(es) /\ TasksOf(es, c) \subseteq TaskPlaces(es)
    BY <1>3 DEF P
  <2>4. \A r \in TasksOf(es, c) : Earlier(p, r)
    BY <2>1, <2>2, <2>3, EarlierOrder
  <2> QED BY <2>4 DEF MetBefore
<1>8. \A a \in N : ~Outranks(es, a, a)
  BY <1>3, <1>5 DEF Outranks
<1>9. ASSUME NEW a \in N, NEW b \in N, a # b PROVE Outranks(es, a, b) \/ Outranks(es, b, a)
  <2>1. TaskCount(es, a) \in Nat /\ TaskCount(es, b) \in Nat
    BY <1>3
  <2> QED BY <1>6, <1>9, <2>1 DEF Outranks
<1>10. ASSUME NEW a \in N, NEW b \in N, NEW c \in N, Outranks(es, a, b), Outranks(es, b, c)
       PROVE  Outranks(es, a, c)
  <2>1. {TaskCount(es, a), TaskCount(es, b), TaskCount(es, c)} \subseteq Nat
    BY <1>3
  <2>2. MetBefore(es, a, b) /\ MetBefore(es, b, c) => MetBefore(es, a, c)
    BY <1>7
  <2> QED BY <1>10, <2>1, <2>2 DEF Outranks
<1> QED BY <1>2, <1>3, <1>8, <1>9, <1>10 DEF N

(* The summary has a row for every service, once, in the order.             *)
LEMMA SummaryListed ==
  ASSUME NEW es \in Seq(Entries)
  PROVE  LET k == Cardinality(ServiceNames(es))
         IN /\ k \in Nat
            /\ \E listed \in [1..k -> ServiceNames(es)] :
                 /\ ServiceSummary(es) = [i \in 1..k |-> RowOf(es, listed[i])]
                 /\ \A i, j \in 1..k :
                      i < j => listed[i] # listed[j] /\ Outranks(es, listed[i], listed[j])
                 /\ \A a \in ServiceNames(es) : \E i \in 1..k : listed[i] = a
<1> DEFINE N == ServiceNames(es)
           before == {p \in N \X N : Outranks(es, p[1], p[2])}
           k == Cardinality(N)
           listed == InOrder(N, before)
<1>1. \A a, b \in N : <<a, b>> \in before <=> Outranks(es, a, b)
  OBVIOUS
<1>2. IsFiniteSet(N)
  BY ServicesOrdered
<1>3. \A a \in N : <<a, a>> \notin before
  BY <1>1, ServicesOrdered
<1>4. \A a, b \in N : a # b => <<a, b>> \in before \/ <<b, a>> \in before
  BY <1>1, ServicesOrdered
<1>5. \A a, b, c \in N : <<a, b>> \in before /\ <<b, c>> \in before => <<a, c>> \in before
  BY <1>1, ServicesOrdered
<1>6. Orders(before, N)
  <2> HIDE DEF before, N
  <2> QED BY <1>3, <1>4, <1>5 DEF Orders
<1>7. ServiceSummary(es) = [i \in DOMAIN listed |-> RowOf(es, listed[i])]
  BY DEF ServiceSummary
<1> HIDE DEF before, listed, N, k
<1>8. /\ k \in Nat /\ listed \in [1..k -> N]
      /\ \A i, j \in 1..k : i < j => <<listed[i], listed[j]>> \in before
      /\ \A a \in N : \E i \in 1..k : listed[i] = a
  BY <1>2, <1>6, Listing DEF k, listed
<1>9. \A i, j \in 1..k : i < j => listed[i] # listed[j] /\ Outranks(es, listed[i], listed[j])
  BY <1>1, <1>3, <1>8
<1>10. DOMAIN listed = 1..k
  BY <1>8
<1>11. ServiceSummary(es) = [i \in 1..k |-> RowOf(es, listed[i])]
  BY <1>7, <1>10
<1> QED BY <1>8, <1>9, <1>11 DEF k, N

(* A service runs on a node at least, and on no more than it has tasks.     *)
LEMMA RowFields ==
  ASSUME NEW es \in Seq(Entries), NEW a \in ServiceNames(es)
  PROVE  /\ RowOf(es, a).service = a /\ RowOf(es, a).taskCount = TaskCount(es, a)
         /\ RowOf(es, a).nodeCount \in 1..TaskCount(es, a)
<1> DEFINE T == TasksOf(es, a)
           H == HostsOf(es, a)
           f == [p \in T |-> es[p[1]].host]
<1>1. IsFiniteSet(T) /\ T # {} /\ TaskCount(es, a) = Cardinality(T) /\ Cardinality(T) \in Nat
  BY ServicesOrdered DEF TaskCount
<1>2. f \in [T -> H] /\ \A h \in H : \E p \in T : f[p] = h
  BY DEF HostsOf
<1>3. H # {}
  BY <1>1, <1>2
<1> HIDE DEF T, H, f
<1>4. f \in Surjection(T, H)
  BY <1>2 DEF Surjection
<1>5. IsFiniteSet(H) /\ Cardinality(H) <= Cardinality(T)
  BY <1>1, <1>4, FS_Surjection
<1>6. Cardinality(H) \in Nat /\ Cardinality(H) # 0
  BY <1>3, <1>5, FS_CardinalityType, FS_EmptySet
<1>7. Cardinality(H) \in 1..TaskCount(es, a)
  <2> DEFINE c == Cardinality(H)
             d == Cardinality(T)
  <2>1. c \in Nat /\ c # 0 /\ d \in Nat /\ c <= d
    BY <1>1, <1>5, <1>6
  <2> HIDE DEF c, d
  <2>2. c \in 1..d
    BY <2>1
  <2> QED BY <1>1, <2>2 DEF c, d
<1> QED BY <1>7 DEF RowOf, H

(* The rows of the summary, in both columns together.                       *)
LEMMA RowsRight ==
  ASSUME NEW es \in Seq(Entries)
  PROVE  LET rows == ServiceSummary(es)
             k == Cardinality(ServiceNames(es))
         IN /\ k \in Nat /\ rows \in Seq({RowOf(es, a) : a \in ServiceNames(es)})
            /\ Len(rows) = k /\ DOMAIN rows = 1..k
            /\ Cardinality({rows[i].service : i \in DOMAIN rows}) = k
            /\ \A i, j \in 1..k : i < j => rows[i].taskCount >= rows[j].taskCount
            /\ \A i \in 1..k : rows[i].nodeCount \in 1..rows[i].taskCount
            /\ Total([i \in 1..k |-> rows[i].taskCount]) = Cardinality(TaskPlaces(es))
<1> DEFINE rows == ServiceSummary(es)
           N == ServiceNames(es)
           R == {RowOf(es, a) : a \in N}
           k == Cardinality(N)
<1>1. k \in Nat
  BY ServicesOrdered
<1>2. PICK listed \in [1..k -> N] :
           /\ rows = [i \in 1..k |-> RowOf(es, listed[i])]
           /\ \A i, j \in 1..k : i < j => listed[i] # listed[j] /\ Outranks(es, listed[i], listed[j])
           /\ \A a \in N : \E i \in 1..k : listed[i] = a
  BY SummaryListed
<1> HIDE DEF rows, k
<1>3. rows \in Seq(R) /\ Len(rows) = k /\ DOMAIN rows = 1..k
  <2>1. rows \in [1..k -> R]
    BY <1>2
  <2> HIDE DEF R
  <2>2. rows \in Seq(R)
    BY <1>1, <2>1, FunctionIsSequence
  <2> QED BY <1>1, <2>1, <2>2, LenProperties
<1>4. ASSUME NEW i \in 1..k
      PROVE  /\ listed[i] \in N /\ rows[i].service = listed[i]
             /\ rows[i].taskCount = TaskCount(es, listed[i]) /\ rows[i].taskCount \in Nat
             /\ rows[i].nodeCount \in 1..rows[i].taskCount
  <2>1. rows[i] = RowOf(es, listed[i]) /\ listed[i] \in N
    BY <1>2
  <2> QED BY <2>1, RowFields, ServicesOrdered
<1>5. {rows[i].service : i \in DOMAIN rows} = N
  <2>1. \A i \in DOMAIN rows : rows[i].service = listed[i] /\ listed[i] \in N
    BY <1>3, <1>4
  <2>2. \A a \in N : \E i \in DOMAIN rows : listed[i] = a
    BY <1>2, <1>3
  <2> HIDE DEF N
  <2> QED BY <2>1, <2>2
<1>6. ASSUME NEW i \in 1..k, NEW j \in 1..k, i < j PROVE rows[i].taskCount >= rows[j].taskCount
  <2>1. Outranks(es, listed[i], listed[j])
    BY <1>2, <1>6
  <2>2. /\ rows[i].taskCount = TaskCount(es, listed[i]) /\ rows[i].taskCount \in Nat
        /\ rows[j].taskCount = TaskCount(es, listed[j]) /\ rows[j].taskCount \in Nat
    BY <1>4
  <2> QED BY <2>1, <2>2 DEF Outranks
<1> DEFINE sizes == [i \in 1..k |-> rows[i].taskCount]
           parts == [i \in 1..k |-> TasksOf(es, listed[i])]
<1>7. Splits(TaskPlaces(es), parts, k, sizes)
  <2>1. ASSUME NEW i \in 1..k PROVE IsFiniteSet(parts[i]) /\ Cardinality(parts[i]) = sizes[i]
    BY <1>4, ServicesOrdered DEF TaskCount
  <2>2. ASSUME NEW i \in 1..k, NEW j \in 1..k, i # j PROVE parts[i] \intersect parts[j] = {}
    <3>1. listed[i] # listed[j]
      <4>1. i < j \/ j < i
        BY <2>2
      <4> QED BY <1>2, <4>1
    <3> QED BY <3>1 DEF TasksOf
  <2>3. ASSUME NEW p PROVE p \in TaskPlaces(es) <=> \E i \in 1..k : p \in parts[i]
    <3>1. p \in TaskPlaces(es) => ChipAt(es, p).service \in N
      BY DEF ServiceNames
    <3>2. p \in TaskPlaces(es) => \E i \in 1..k : listed[i] = ChipAt(es, p).service
      BY <1>2, <3>1
    <3>3. \A i \in 1..k : p \in parts[i] <=> p \in TaskPlaces(es) /\ ChipAt(es, p).service = listed[i]
      BY DEF TasksOf
    <3> HIDE DEF parts
    <3> QED BY <3>2, <3>3
  <2> HIDE DEF parts, sizes
  <2> QED BY <2>1, <2>2, <2>3 DEF Splits
<1>8. Total(sizes) = Cardinality(TaskPlaces(es))
  <2>1. sizes \in [1..k -> Nat]
    BY <1>4
  <2> HIDE DEF sizes, parts
  <2> QED BY <1>1, <1>7, <2>1, SizesAddUp
<1>9. Cardinality({rows[i].service : i \in DOMAIN rows}) = k
  BY <1>5 DEF k
<1> QED BY <1>1, <1>3, <1>4, <1>6, <1>8, <1>9 DEF rows, k, N, R

(* What the columns hold, read one after the other, is the summary.         *)
LeftOf(columns) == IF columns = <<>> THEN <<>> ELSE columns[1]
RightOf(columns) == IF Len(columns) = 2 THEN columns[2] ELSE <<>>

LEMMA ColumnsRead ==
  ASSUME NEW es \in Seq(Entries)
  PROVE  LET columns == SummaryColumns(es)
             left == LeftOf(columns)
             right == RightOf(columns)
         IN /\ left \o right = ServiceSummary(es)
            /\ Len(columns) = 2 => Len(left) - Len(right) \in {0, 1}
<1> DEFINE rows == ServiceSummary(es)
           columns == SummaryColumns(es)
           n == Len(rows)
           h == Half(rows)
           first == SubSeq(rows, 1, h)
           second == SubSeq(rows, h + 1, n)
           R == {RowOf(es, a) : a \in ServiceNames(es)}
<1>1. rows \in Seq(R) /\ n \in Nat
  BY RowsRight
<1>2. /\ rows = <<>> => columns = <<>>
      /\ rows # <<>> /\ n <= 5 => columns = <<SubSeq(rows, 1, n)>>
      /\ n > 5 => columns = <<first, second>>
  <2>1. rows = <<>> => n = 0
    OBVIOUS
  <2>2. n > 5 => ~(n <= 5) /\ rows # <<>>
    BY <1>1, <2>1
  <2> QED BY <2>2 DEF SummaryColumns
<1>3. h = (n + 1) \div 2
  BY DEF Half
<1> HIDE DEF rows, columns, n, R, h, first, second
<1>4. CASE rows = <<>>
  <2>1. columns = <<>> /\ Len(columns) = 0
    BY <1>2, <1>4
  <2>2. LeftOf(columns) = <<>> /\ RightOf(columns) = <<>>
    BY <2>1 DEF LeftOf, RightOf
  <2>3. <<>> \o <<>> = rows
    BY <1>1, <1>4, ConcatEmptySeq
  <2> QED BY <2>1, <2>2, <2>3 DEF rows, columns
<1>5. CASE rows # <<>> /\ n <= 5
  <2>1. columns = <<rows>>
    BY <1>1, <1>2, <1>5, SubSeqFull DEF n
  <2>2. Len(columns) = 1 /\ columns # <<>> /\ columns[1] = rows
    BY <2>1
  <2>3. LeftOf(columns) = rows /\ RightOf(columns) = <<>>
    BY <2>2 DEF LeftOf, RightOf
  <2>4. rows \o <<>> = rows
    BY <1>1, ConcatEmptySeq
  <2> QED BY <2>2, <2>3, <2>4 DEF rows, columns
<1>6. CASE n > 5
  <2>1. h \in 1..(n - 1) /\ n - h \in {h, h - 1} /\ h \in Nat
    BY <1>1, <1>3, <1>6
  <2>2. Len(columns) = 2 /\ columns # <<>> /\ columns[1] = first /\ columns[2] = second
    <3>1. columns = <<first, second>>
      BY <1>2, <1>6
    <3> QED BY <3>1
  <2>3. LeftOf(columns) = first /\ RightOf(columns) = second
    BY <2>2 DEF LeftOf, RightOf
  <2>4. \A i \in 1..n : rows[i] \in R
    BY <1>1, ElementOfSeq DEF n
  <2>5. first \in Seq(R) /\ Len(first) = h /\ \A i \in 1..h : first[i] = rows[i]
    <3>1. \A i \in 1..h : rows[i] \in R
      <4>1. \A i \in 1..h : i \in 1..n
        BY <1>1, <2>1
      <4> QED BY <2>4, <4>1
    <3>2. /\ first \in Seq(R) /\ Len(first) = IF 1 <= h THEN h - 1 + 1 ELSE 0
          /\ \A i \in 1..(h - 1 + 1) : first[i] = rows[1 + i - 1]
      <4>1. 1 \in Int /\ h \in Int
        BY <2>1
      <4> QED BY <3>1, <4>1, SubSeqProperties DEF first
    <3> QED BY <2>1, <3>2
  <2>6. second \in Seq(R) /\ Len(second) = n - h /\ \A i \in 1..(n - h) : second[i] = rows[h + i]
    <3>1. \A i \in (h + 1)..n : rows[i] \in R
      BY <1>1, <2>1, <2>4
    <3>2. /\ second \in Seq(R) /\ Len(second) = IF h + 1 <= n THEN n - (h + 1) + 1 ELSE 0
          /\ \A i \in 1..(n - (h + 1) + 1) : second[i] = rows[(h + 1) + i - 1]
      <4>1. h + 1 \in Int /\ n \in Int
        BY <1>1, <2>1
      <4> QED BY <3>1, <4>1, SubSeqProperties DEF second
    <3> QED BY <1>1, <2>1, <3>2
  <2>7. first \o second = rows
    <3>1. /\ 1 \in 1..(Len(rows) + 1) /\ h \in (1 - 1)..Len(rows) /\ n \in h..Len(rows)
      BY <1>1, <2>1 DEF n
    <3>2. first \o second = SubSeq(rows, 1, n)
      BY <1>1, <3>1, ConcatAdjacentSubSeq DEF first, second
    <3> QED BY <1>1, <3>2, SubSeqFull DEF n
  <2>8. Len(first) - Len(second) \in {0, 1}
    BY <1>1, <2>1, <2>5, <2>6
  <2> QED BY <2>2, <2>3, <2>7, <2>8 DEF rows, columns
<1> QED
  <2>1. n <= 5 \/ n > 5
    BY <1>1
  <2> QED BY <1>4, <1>5, <1>6, <2>1

(* A group lists the entries of a set of nodes, each once.                  *)
Lists(group, es, I) ==
  \E listed \in [1..Cardinality(I) -> I] :
    /\ \A i \in 1..Cardinality(I) : group[i] = es[listed[i]]
    /\ \A i, j \in 1..Cardinality(I) : i # j => listed[i] # listed[j]
    /\ \A x \in I : \E i \in 1..Cardinality(I) : listed[i] = x

(* The two groups hold every node once.                                     *)
LEMMA GroupsHold ==
  ASSUME NEW es \in Seq(Entries), NEW managers \in BOOLEAN
  PROVE  LET I == OfRole(es, managers)
             group == Group(es, managers)
             k == Cardinality(I)
         IN /\ IsFiniteSet(I) /\ k \in Nat
            /\ group \in Seq(Entries) /\ Len(group) = k /\ DOMAIN group = 1..k
            /\ Lists(group, es, I)
<1> DEFINE I == OfRole(es, managers)
           group == Group(es, managers)
           k == Cardinality(I)
           before == {p \in I \X I : p[1] < p[2]}
           listed == InOrder(I, before)
<1>1. IsFiniteSet(I) /\ I \in SUBSET (1..Len(es)) /\ Len(es) \in Nat
  <2>1. I \in SUBSET (1..Len(es)) /\ Len(es) \in Nat
    BY EntryFields DEF OfRole
  <2>2. IsFiniteSet(1..Len(es))
    BY <2>1, FS_Interval
  <2> QED BY <2>1, <2>2, FS_Subset
<1>2. \A i, j \in I : <<i, j>> \in before <=> i < j
  OBVIOUS
<1>3. group = [i \in DOMAIN listed |-> es[listed[i]]]
  BY DEF Group
<1> HIDE DEF before, listed, I, k, group
<1>4. \A i \in I : i \in Int
  BY <1>1
<1>5. \A i \in I : <<i, i>> \notin before
  <2>1. \A i \in I : ~(i < i)
    BY <1>4
  <2> QED BY <1>2, <2>1
<1>6. \A i, j \in I : i # j => <<i, j>> \in before \/ <<j, i>> \in before
  <2>1. \A i, j \in I : i # j => i < j \/ j < i
    BY <1>4
  <2> QED BY <1>2, <2>1
<1>7. \A i, j, l \in I : <<i, j>> \in before /\ <<j, l>> \in before => <<i, l>> \in before
  <2>1. \A i, j, l \in I : i < j /\ j < l => i < l
    BY <1>4
  <2> QED BY <1>2, <2>1
<1>8. Orders(before, I)
  BY <1>5, <1>6, <1>7 DEF Orders
<1>9. /\ k \in Nat /\ listed \in [1..k -> I]
      /\ \A i, j \in 1..k : i < j => <<listed[i], listed[j]>> \in before
      /\ \A x \in I : \E i \in 1..k : listed[i] = x
  BY <1>1, <1>8, Listing DEF k, listed
<1>10. ASSUME NEW i \in 1..k, NEW j \in 1..k, i # j PROVE listed[i] # listed[j]
  <2>1. i < j \/ j < i
    BY <1>10
  <2>2. <<listed[i], listed[j]>> \in before \/ <<listed[j], listed[i]>> \in before
    BY <1>9, <2>1
  <2> QED BY <1>5, <1>9, <2>2
<1>11. group = [i \in 1..k |-> es[listed[i]]]
  BY <1>3, <1>9
<1>12. group \in [1..k -> Entries]
  <2>1. \A i \in 1..k : es[listed[i]] \in Entries
    BY <1>1, <1>9, EntryFields
  <2> QED BY <1>11, <2>1
<1>13. group \in Seq(Entries) /\ Len(group) = k /\ DOMAIN group = 1..k
  <2>1. group \in Seq(Entries)
    BY <1>9, <1>12, FunctionIsSequence
  <2> QED BY <1>9, <1>12, <2>1, LenProperties
<1>14. \A i \in 1..k : group[i] = es[listed[i]]
  BY <1>11
<1>15. Lists(group, es, I)
  BY <1>9, <1>10, <1>14 DEF Lists, k
<1> QED BY <1>1, <1>9, <1>13, <1>15 DEF I, group, k

(* The busiest node is one with the most cpu.                               *)
LEMMA BusiestIsMost ==
  ASSUME NEW es \in Seq(Entries), es # <<>>
  PROVE  \E b \in 1..Len(es) : Busiest(es) = es[b] /\ \A i \in 1..Len(es) : es[i].cpu <= es[b].cpu
<1> DEFINE n == Len(es)
           M == {i \in 1..n : \A j \in 1..n : es[j].cpu <= es[i].cpu}
           Right(i) == /\ \A j \in DOMAIN es : es[j].cpu <= es[i].cpu
                       /\ \A j \in 1..(i - 1) : es[j].cpu < es[i].cpu
<1>1. n \in Nat /\ n # 0 /\ DOMAIN es = 1..n /\ \A i \in 1..n : es[i].cpu \in Nat
  BY EntryFields, EmptySeq
<1>2. M # {}
  <2> DEFINE Upto(k) == {i \in 1..n : \A j \in 1..k : es[j].cpu <= es[i].cpu}
             S == {k \in 0..n : Upto(k) # {}}
  <2>1. 0 \in S
    <3>1. 1 \in Upto(0) /\ 0 \in 0..n
      BY <1>1
    <3> QED BY <3>1
  <2>2. ASSUME NEW k \in 0..(n - 1), k \in S PROVE k + 1 \in S
    <3>1. PICK i \in 1..n : \A j \in 1..k : es[j].cpu <= es[i].cpu
      BY <2>2
    <3>2. k + 1 \in 1..n /\ k + 1 \in 0..n /\ \A j \in 1..(k + 1) : j \in 1..n /\ (j \in 1..k \/ j = k + 1)
      BY <1>1
    <3>3. es[i].cpu \in Nat /\ es[k + 1].cpu \in Nat /\ \A j \in 1..(k + 1) : es[j].cpu \in Nat
      BY <1>1, <3>2
    <3>4. CASE es[k + 1].cpu <= es[i].cpu
      <4>1. \A j \in 1..(k + 1) : es[j].cpu <= es[i].cpu
        BY <3>1, <3>2, <3>4
      <4> QED BY <3>2, <4>1
    <3>5. CASE ~(es[k + 1].cpu <= es[i].cpu)
      <4>1. \A j \in 1..(k + 1) : es[j].cpu <= es[k + 1].cpu
        BY <3>1, <3>2, <3>3, <3>5
      <4> QED BY <3>2, <4>1
    <3> QED BY <3>4, <3>5
  <2>3. n \in S
    <3> HIDE DEF S
    <3>1. 0..n \subseteq S
      BY <1>1, <2>1, <2>2, UpTo
    <3> QED BY <1>1, <3>1
  <2> QED BY <2>3
<1>3. PICK b \in M : \A i \in M : b <= i
  <2>1. M \in SUBSET (0..n)
    BY <1>1
  <2> HIDE DEF M, n
  <2> QED BY <1>1, <1>2, <2>1, Least
<1>4. b \in 1..n /\ b \in Nat /\ \A j \in 1..n : es[j].cpu <= es[b].cpu
  OBVIOUS
<1>5. ASSUME NEW j \in 1..(b - 1) PROVE es[j].cpu < es[b].cpu
  <2>1. j \in 1..n /\ ~(b <= j)
    BY <1>1, <1>4
  <2>2. j \notin M
    BY <1>3, <2>1
  <2>3. PICK i \in 1..n : ~(es[i].cpu <= es[j].cpu)
    BY <2>1, <2>2
  <2>4. es[i].cpu \in Nat /\ es[j].cpu \in Nat /\ es[b].cpu \in Nat /\ es[i].cpu <= es[b].cpu
    BY <1>1, <1>4, <2>1
  <2> QED BY <2>3, <2>4
<1>6. Right(b) /\ b \in DOMAIN es
  BY <1>1, <1>4, <1>5
<1> DEFINE c == CHOOSE i \in DOMAIN es : Right(i)
<1>7. c \in DOMAIN es /\ Right(c)
  <2> HIDE DEF Right
  <2> QED BY <1>6
<1>8. Busiest(es) = es[c]
  BY DEF Busiest
<1> HIDE DEF c
<1> QED BY <1>1, <1>7, <1>8

(* A group's cards are those of its nodes.                                  *)
LEMMA CardsOf ==
  ASSUME NEW es \in Seq(Entries), NEW managers \in BOOLEAN
  PROVE  LET I == OfRole(es, managers)
             group == Group(es, managers)
             cards == [i \in DOMAIN group |-> Card(group[i], es)]
         IN /\ Len(cards) = Cardinality(I)
            /\ \A i \in DOMAIN cards : \E x \in I : cards[i] = Card(es[x], es)
            /\ \A x \in I : \E i \in DOMAIN cards : cards[i] = Card(es[x], es)
            /\ Cardinality({i \in DOMAIN cards : cards[i].border # "drain"})
                 = Cardinality({x \in I : ~es[x].drained})
<1> DEFINE I == OfRole(es, managers)
           group == Group(es, managers)
           cards == [i \in DOMAIN group |-> Card(group[i], es)]
           k == Cardinality(I)
           C == {Card(es[x], es) : x \in I}
           D == {i \in DOMAIN cards : cards[i].border # "drain"}
           E == {x \in I : ~es[x].drained}
<1>1. /\ IsFiniteSet(I) /\ k \in Nat /\ DOMAIN group = 1..k
  BY GroupsHold
<1>2. PICK listed \in [1..k -> I] :
           /\ \A i \in 1..k : group[i] = es[listed[i]]
           /\ \A i, j \in 1..k : i # j => listed[i] # listed[j]
           /\ \A x \in I : \E i \in 1..k : listed[i] = x
  <2>1. Lists(group, es, I)
    BY GroupsHold
  <2> HIDE DEF group, I
  <2> QED BY <2>1 DEF Lists
<1>3. I \subseteq 1..Len(es)
  BY EntryFields DEF OfRole
<1> HIDE DEF I, k, group
<1>4. cards = [i \in 1..k |-> Card(es[listed[i]], es)]
  BY <1>1, <1>2
<1> HIDE DEF cards
<1>5. Len(cards) = k /\ DOMAIN cards = 1..k
  <2>1. cards \in [1..k -> C]
    BY <1>2, <1>4
  <2> HIDE DEF C
  <2>2. cards \in Seq(C)
    BY <1>1, <2>1, FunctionIsSequence
  <2> QED BY <1>1, <2>1, <2>2, LenProperties
<1>6. \A i \in 1..k : cards[i] = Card(es[listed[i]], es)
  BY <1>4
<1>7. \A x \in I : Card(es[x], es).border # "drain" <=> ~es[x].drained
  <2>1. ASSUME NEW x \in I PROVE Card(es[x], es).border # "drain" <=> ~es[x].drained
    <3>1. es[x].role \in {"manager", "worker"} /\ es[x].drained \in BOOLEAN
      BY <1>3, EntryFields DEF Entries
    <3>2. Card(es[x], es).border = IF es[x].drained THEN "drain" ELSE es[x].role
      BY DEF Card, Border
    <3> QED BY <3>1, <3>2
  <2> QED BY <2>1
<1>8. IsFiniteSet(1..k)
  BY <1>1, FS_Interval
<1>9. Cardinality(D) = Cardinality(E)
  <2> DEFINE f == [i \in D |-> listed[i]]
  <2>1. \A i \in D : i \in 1..k /\ listed[i] \in E
    BY <1>2, <1>5, <1>6, <1>7
  <2>2. \A x \in E : \E i \in D : listed[i] = x
    BY <1>2, <1>5, <1>6, <1>7
  <2>3. IsFiniteSet(D)
    BY <1>5, <1>8, FS_Subset
  <2>4. f \in [D -> E] /\ (\A i, j \in D : f[i] = f[j] => i = j) /\ \A x \in E : \E i \in D : f[i] = x
    <3> HIDE DEF D, E
    <3>1. f \in [D -> E] /\ \A x \in E : \E i \in D : f[i] = x
      BY <2>1, <2>2
    <3>2. \A i, j \in D : f[i] = f[j] => i = j
      BY <1>2, <2>1
    <3> QED BY <3>1, <3>2
  <2> HIDE DEF D, E, f
  <2> QED BY <2>3, <2>4, SameSize
<1>10. \A i \in DOMAIN cards : \E x \in I : cards[i] = Card(es[x], es)
  BY <1>2, <1>5, <1>6
<1>11. \A x \in I : \E i \in DOMAIN cards : cards[i] = Card(es[x], es)
  BY <1>2, <1>5, <1>6
<1> QED BY <1>5, <1>9, <1>10, <1>11 DEF cards, group, k, I

(* The average is not above the peak.                                       *)
LEMMA AverageBelowPeak ==
  ASSUME NEW es \in Seq(Entries), es # <<>>
  PROVE  ClusterTotals(es).avgCpu <= Busiest(es).cpu
<1> DEFINE n == Len(es)
           f == [i \in 1..n |-> es[i].cpu]
<1>1. n \in Nat /\ n # 0 /\ DOMAIN es = 1..n /\ \A i \in 1..n : es[i].cpu \in Nat
  BY EntryFields, EmptySeq
<1>2. PICK b \in 1..n : Busiest(es) = es[b] /\ \A i \in 1..n : es[i].cpu <= es[b].cpu
  BY BusiestIsMost
<1>3. ClusterTotals(es).avgCpu = RoundedMean(Total(f), n)
  BY <1>1 DEF ClusterTotals
<1>4. f \in [1..n -> Nat] /\ es[b].cpu \in Nat /\ \A i \in 1..n : f[i] <= es[b].cpu
  BY <1>1, <1>2
<1> HIDE DEF f, n
<1>5. Total(f) \in Nat /\ Total(f) <= n * es[b].cpu
  BY <1>1, <1>4, TotalWithin
<1>6. RoundedMean(Total(f), n) <= es[b].cpu
  BY <1>1, <1>4, <1>5, MeanWithin
<1> QED BY <1>2, <1>3, <1>6

(* Both groups together: every node, every node that is ready, and a peak.  *)
LEMMA GroupsRight ==
  ASSUME NEW es \in Seq(Entries)
  PROVE  LET groups == CardGroups(es)
             fit == [g \in 1..2 |-> {k \in DOMAIN groups[g] : groups[g][k].border # "drain"}]
         IN /\ Len(groups[1]) + Len(groups[2]) = Len(es)
            /\ ReadyCount(es) = Cardinality(fit[1]) + Cardinality(fit[2])
            /\ \A g \in 1..2 : \A k \in DOMAIN groups[g] :
                 \E x \in 1..Len(es) : groups[g][k] = Card(es[x], es)
            /\ \A x \in 1..Len(es) :
                 \E g \in 1..2 : \E k \in DOMAIN groups[g] : groups[g][k] = Card(es[x], es)
<1> DEFINE n == Len(es)
           groups == CardGroups(es)
           Ready(g) == {k \in DOMAIN groups[g] : groups[g][k].border # "drain"}
           I(managers) == OfRole(es, managers)
           E(managers) == {x \in I(managers) : ~es[x].drained}
           CardsIn(managers) ==
             [i \in DOMAIN Group(es, managers) |-> Card(Group(es, managers)[i], es)]
<1>1. n \in Nat /\ DOMAIN es = 1..n
  BY EntryFields
<1>2. groups[1] = CardsIn(TRUE) /\ groups[2] = CardsIn(FALSE)
  <2>1. groups = [g \in 1..2 |-> CardRow(GroupedEntries(es)[g], es)]
    BY DEF CardGroups
  <2>2. groups[1] = CardRow(GroupedEntries(es)[1], es) /\ groups[2] = CardRow(GroupedEntries(es)[2], es)
    BY <2>1
  <2>3. /\ GroupedEntries(es)[1].entries = Group(es, TRUE)
        /\ GroupedEntries(es)[2].entries = Group(es, FALSE)
    BY DEF GroupedEntries
  <2> HIDE DEF groups
  <2> QED BY <2>2, <2>3 DEF CardRow
<1>3. I(TRUE) \union I(FALSE) = 1..n /\ I(TRUE) \intersect I(FALSE) = {}
  <2>1. \A i \in 1..n : (es[i].role = "manager") \in BOOLEAN
    OBVIOUS
  <2> QED BY <1>1, <2>1 DEF OfRole
<1>4. IsFiniteSet(I(TRUE)) /\ IsFiniteSet(I(FALSE))
  BY GroupsHold
<1> HIDE DEF groups
<1>5. ASSUME NEW managers \in BOOLEAN
      PROVE  /\ Len(CardsIn(managers)) = Cardinality(I(managers))
             /\ \A i \in DOMAIN CardsIn(managers) :
                  \E x \in I(managers) : CardsIn(managers)[i] = Card(es[x], es)
             /\ \A x \in I(managers) :
                  \E i \in DOMAIN CardsIn(managers) : CardsIn(managers)[i] = Card(es[x], es)
             /\ Cardinality({i \in DOMAIN CardsIn(managers) :
                               CardsIn(managers)[i].border # "drain"})
                  = Cardinality(E(managers))
  BY CardsOf
<1> HIDE DEF I, CardsIn
<1>6. Cardinality(I(TRUE)) + Cardinality(I(FALSE)) = n
  <2>1. Cardinality(I(TRUE) \union I(FALSE)) = Cardinality(I(TRUE)) + Cardinality(I(FALSE))
    BY <1>3, <1>4, Disjoint
  <2>2. Cardinality(1..n) = n
    <3>1. 1 \in Int /\ n \in Int /\ n = IF 1 > n THEN 0 ELSE n - 1 + 1
      BY <1>1
    <3> HIDE DEF n
    <3> QED BY <3>1, FS_Interval
  <2> QED BY <1>3, <2>1, <2>2
<1>7. Len(groups[1]) + Len(groups[2]) = n
  BY <1>2, <1>5, <1>6
<1>8. ReadyCount(es) = Cardinality(E(TRUE)) + Cardinality(E(FALSE))
  <2>1. ReadyCount(es) = Cardinality({i \in 1..n : ~es[i].drained})
    BY <1>1 DEF ReadyCount
  <2>2. {i \in 1..n : ~es[i].drained} = E(TRUE) \union E(FALSE)
    BY <1>3
  <2>3. E(TRUE) \intersect E(FALSE) = {}
    BY <1>3
  <2>4. IsFiniteSet(E(TRUE)) /\ IsFiniteSet(E(FALSE))
    <3>1. E(TRUE) \in SUBSET I(TRUE) /\ E(FALSE) \in SUBSET I(FALSE)
      OBVIOUS
    <3> HIDE DEF E
    <3> QED BY <1>4, <3>1, FS_Subset
  <2> HIDE DEF E
  <2> QED BY <2>1, <2>2, <2>3, <2>4, Disjoint
<1>9. Cardinality(Ready(1)) = Cardinality(E(TRUE)) /\ Cardinality(Ready(2)) = Cardinality(E(FALSE))
  <2>1. /\ Ready(1) = {i \in DOMAIN CardsIn(TRUE) : CardsIn(TRUE)[i].border # "drain"}
        /\ Ready(2) = {i \in DOMAIN CardsIn(FALSE) : CardsIn(FALSE)[i].border # "drain"}
    BY <1>2
  <2> HIDE DEF Ready, E
  <2> QED BY <1>5, <2>1
<1>10. ASSUME NEW g \in 1..2, NEW k \in DOMAIN groups[g]
       PROVE  \E x \in 1..n : groups[g][k] = Card(es[x], es)
  <2>1. CASE g = 1
    <3>1. \E x \in I(TRUE) : groups[g][k] = Card(es[x], es)
      <4>1. k \in DOMAIN CardsIn(TRUE) /\ groups[g][k] = CardsIn(TRUE)[k]
        BY <1>2, <2>1
      <4>2. \A i \in DOMAIN CardsIn(TRUE) : \E x \in I(TRUE) : CardsIn(TRUE)[i] = Card(es[x], es)
        BY <1>5
      <4> QED BY <4>1, <4>2
    <3> QED BY <1>3, <3>1
  <2>2. CASE g = 2
    <3>1. \E x \in I(FALSE) : groups[g][k] = Card(es[x], es)
      <4>1. k \in DOMAIN CardsIn(FALSE) /\ groups[g][k] = CardsIn(FALSE)[k]
        BY <1>2, <2>2
      <4>2. \A i \in DOMAIN CardsIn(FALSE) : \E x \in I(FALSE) : CardsIn(FALSE)[i] = Card(es[x], es)
        BY <1>5
      <4> QED BY <4>1, <4>2
    <3> QED BY <1>3, <3>1
  <2> QED BY <2>1, <2>2
<1>11. ASSUME NEW x \in 1..n
       PROVE  \E g \in 1..2 : \E k \in DOMAIN groups[g] : groups[g][k] = Card(es[x], es)
  <2>1. CASE x \in I(TRUE)
    <3>1. \E k \in DOMAIN groups[1] : groups[1][k] = Card(es[x], es)
      BY <1>2, <1>5, <2>1
    <3> QED BY <3>1
  <2>2. CASE x \in I(FALSE)
    <3>1. \E k \in DOMAIN groups[2] : groups[2][k] = Card(es[x], es)
      BY <1>2, <1>5, <2>2
    <3> QED BY <3>1
  <2> QED BY <1>3, <2>1, <2>2
<1> DEFINE fit == [g \in 1..2 |-> Ready(g)]
<1>12. ReadyCount(es) = Cardinality(fit[1]) + Cardinality(fit[2])
  <2>1. fit[1] = Ready(1) /\ fit[2] = Ready(2)
    OBVIOUS
  <2> HIDE DEF fit, Ready, E
  <2> QED BY <1>8, <1>9, <2>1
<1> HIDE DEF fit
<1> QED BY <1>7, <1>10, <1>11, <1>12 DEF groups, fit

(* The nodes with the badge of the peak have the hostname the totals name.  *)
LEMMA PeakRight ==
  ASSUME NEW es \in Seq(Entries)
  PROVE  /\ es # <<>> => PeakHostname(es) = ClusterTotals(es).busiestHostname
         /\ \A i \in 1..Len(es) : es[i].cpu <= ClusterTotals(es).busiestCpu
         /\ es # <<>> => /\ \E b \in 1..Len(es) : es[b].host = PeakHostname(es)
                         /\ ClusterTotals(es).avgCpu <= ClusterTotals(es).busiestCpu
<1>1. CASE es = <<>>
  <2>1. Len(es) = 0
    BY <1>1
  <2>2. 1..Len(es) = {}
    BY <2>1
  <2> QED BY <1>1, <2>2
<1>2. CASE es # <<>>
  <2>1. PICK b \in 1..Len(es) : Busiest(es) = es[b] /\ \A i \in 1..Len(es) : es[i].cpu <= es[b].cpu
    BY <1>2, BusiestIsMost
  <2>2. /\ PeakHostname(es) = Busiest(es).host
        /\ ClusterTotals(es).busiestHostname = Busiest(es).host
        /\ ClusterTotals(es).busiestCpu = Busiest(es).cpu
    BY <1>2 DEF PeakHostname, ClusterTotals
  <2> QED BY <1>2, <2>1, <2>2, AverageBelowPeak
<1> QED BY <1>1, <1>2

(* A list of entries suffices.                                              *)
LEMMA FiguresHold == MapTypeOK => FiguresAddUp
<1> SUFFICES ASSUME MapTypeOK PROVE FiguresAddUp
  OBVIOUS
<1> DEFINE columns == SummaryColumns(entries)
           left == LeftOf(columns)
           right == RightOf(columns)
           rows == left \o right
           groups == CardGroups(entries)
           totals == ClusterTotals(entries)
           masthead == Masthead(entries)
           fit == [g \in 1..2 |-> {k \in DOMAIN groups[g] : groups[g][k].border # "drain"}]
<1>1. entries \in Seq(Entries)
  BY DEF MapTypeOK
<1>2. rows = ServiceSummary(entries) /\ (Len(columns) = 2 => Len(left) - Len(right) \in {0, 1})
  BY <1>1, ColumnsRead
<1>3. /\ totals.nodeCount = Len(entries)
      /\ totals.distinctServices = Cardinality(ServiceNames(entries))
      /\ totals.taskCount = Cardinality(TaskPlaces(entries))
      /\ masthead.ready = ReadyCount(entries) /\ masthead.tasks = TotalServices(entries)
  BY DEF ClusterTotals, Masthead
<1> HIDE DEF columns, left, right, rows, groups, totals, masthead
<1>4. /\ Len(rows) = totals.distinctServices
      /\ Total([i \in DOMAIN rows |-> rows[i].taskCount]) = totals.taskCount
      /\ Cardinality({rows[i].service : i \in DOMAIN rows}) = Len(rows)
      /\ \A i, j \in DOMAIN rows : i < j => rows[i].taskCount >= rows[j].taskCount
      /\ \A i \in DOMAIN rows : rows[i].nodeCount \in 1..rows[i].taskCount
  <2>1. /\ DOMAIN rows = 1..Len(rows) /\ Len(rows) = Cardinality(ServiceNames(entries))
        /\ Cardinality({rows[i].service : i \in DOMAIN rows}) = Len(rows)
        /\ \A i, j \in 1..Len(rows) : i < j => rows[i].taskCount >= rows[j].taskCount
        /\ \A i \in 1..Len(rows) : rows[i].nodeCount \in 1..rows[i].taskCount
        /\ Total([i \in 1..Len(rows) |-> rows[i].taskCount]) = Cardinality(TaskPlaces(entries))
    BY <1>1, <1>2, RowsRight
  <2> QED BY <1>3, <2>1
<1>5. totals.taskCount = masthead.tasks
  BY <1>1, <1>3, PlacesCounted
<1>6. /\ Len(groups[1]) + Len(groups[2]) = totals.nodeCount
      /\ masthead.ready = Cardinality(fit[1]) + Cardinality(fit[2])
      /\ \A g \in 1..2 : \A k \in DOMAIN groups[g] :
           \E x \in 1..Len(entries) : groups[g][k] = Card(entries[x], entries)
      /\ \A x \in 1..Len(entries) :
           \E g \in 1..2 : \E k \in DOMAIN groups[g] : groups[g][k] = Card(entries[x], entries)
  BY <1>1, <1>3, GroupsRight DEF groups
<1>7. /\ entries # <<>> => PeakHostname(entries) = totals.busiestHostname
      /\ \A i \in 1..Len(entries) : entries[i].cpu <= totals.busiestCpu
      /\ entries # <<>> => /\ \E b \in 1..Len(entries) : entries[b].host = PeakHostname(entries)
                           /\ totals.avgCpu <= totals.busiestCpu
  BY <1>1, PeakRight DEF totals
<1>8. \A e : /\ Card(e, entries).host = e.host
             /\ Card(e, entries).peak <=> e.host = PeakHostname(entries)
  BY DEF Card
<1>9. ASSUME NEW g \in 1..2, NEW k \in DOMAIN groups[g]
      PROVE  groups[g][k].peak <=> groups[g][k].host = totals.busiestHostname
  <2>1. PICK x \in 1..Len(entries) : groups[g][k] = Card(entries[x], entries)
    BY <1>6
  <2>2. entries # <<>>
    <3>1. Len(entries) \in Nat /\ Len(entries) # 0
      BY <1>1, LenProperties
    <3> QED BY <3>1
  <2> QED BY <1>7, <1>8, <2>1, <2>2
<1>10. ASSUME entries # <<>> PROVE \E g \in 1..2 : \E k \in DOMAIN groups[g] : groups[g][k].peak
  <2>1. PICK b \in 1..Len(entries) : entries[b].host = PeakHostname(entries)
    BY <1>7, <1>10
  <2>2. Card(entries[b], entries).peak
    BY <1>8, <2>1
  <2> QED BY <1>6, <2>2
<1>11. \A i \in DOMAIN entries : entries[i].cpu <= totals.busiestCpu
  BY <1>1, <1>7, LenProperties
<1> HIDE DEF fit
<1>12. entries # <<>> => /\ \E g \in 1..2 : \E k \in DOMAIN groups[g] : groups[g][k].peak
                        /\ totals.avgCpu <= totals.busiestCpu
  BY <1>7, <1>10
<1> QED BY <1>2, <1>4, <1>5, <1>6, <1>9, <1>11, <1>12
        DEF FiguresAddUp, columns, left, right, rows, groups, totals, masthead, fit, LeftOf, RightOf

(* The node map holds a list of entries.                                    *)
LEMMA MapTyped == MapSpec => []MapTypeOK
<1>1. MapInit => MapTypeOK
  BY EmptySeq DEF MapInit, MapTypeOK
<1>2. ASSUME MapTypeOK, [MapNext]_mapVars PROVE MapTypeOK'
  <2>1. CASE MapAnswers
    <3>1. PICK n \in 0..MaxEntries : \E es \in [1..n -> Entries] : entries' = es
      BY <2>1 DEF MapAnswers
    <3>2. n \in Nat
      OBVIOUS
    <3>3. entries' \in Seq(Entries)
      BY <3>1, <3>2, SeqDef
    <3> QED BY <2>1, <3>3 DEF MapAnswers, MapTypeOK
  <2>2. CASE MapFails \/ PollMap \/ UNCHANGED mapVars
    BY <1>2, <2>2, EmptySeq DEF MapFails, PollMap, mapVars, MapTypeOK
  <2> QED BY <1>2, <2>1, <2>2 DEF MapNext
<1> QED BY <1>1, <1>2, PTL DEF MapSpec

(* The figures of the node map add up: the summary, the totals, the pills   *)
(* and the cards, for any nodes and tasks.                                  *)
THEOREM NodeMapAddsUp == MapSpec => [](MapTypeOK /\ FiguresAddUp)
BY MapTyped, FiguresHold, PTL

-----------------------------------------------------------------------------
(***************************************************************************)
(* The console: each part moves as its own specification says.             *)
(***************************************************************************)

LEMMA PartsStart ==
  ConsoleInit => /\ Init /\ DetailInit /\ ListInit /\ BarInit /\ ProfileInit /\ ToastInit
                 /\ LoadsInit /\ DashInit /\ MapInit /\ part \in ConsoleParts
BY DEF ConsoleInit

LEMMA PartsMove ==
  ASSUME [ConsoleNext]_consoleVars
  PROVE  /\ [Next]_vars /\ [DetailNext]_detailVars /\ [ListNext]_listVars /\ [BarNext]_barVars
         /\ [ProfileNext]_profileVars /\ [ToastNext]_toastVars /\ [LoadsNext]_loadVars
         /\ [DashNext]_dashVars /\ [MapNext]_mapVars /\ UNCHANGED part
<1>1. CASE UNCHANGED consoleVars
  BY <1>1 DEF consoleVars, sessionVars
<1>2. CASE ConsoleNext
  BY <1>2 DEF ConsoleNext, sessionVars
<1> QED BY <1>1, <1>2

LEMMA PartsImplemented ==
  ConsoleSpec => /\ Init /\ [][Next]_vars
                 /\ DetailSpec /\ ListSpec /\ BarSpec /\ ProfileSpec /\ ToastSpec
                 /\ LoadsSpec /\ DashSpec /\ MapSpec /\ [](part \in ConsoleParts)
<1>1. part \in ConsoleParts /\ UNCHANGED part => (part \in ConsoleParts)'
  OBVIOUS
<1> QED
  BY <1>1, PartsStart, PartsMove, PTL
  DEF ConsoleSpec, DetailSpec, ListSpec, BarSpec, ProfileSpec, ToastSpec, LoadsSpec, DashSpec,
      MapSpec

LEMMA SessionMoves == Init /\ [][Next]_vars => []SessionInv
BY SessionInit, SessionSteps, PTL

(* Every part of the console keeps its types.                               *)
THEOREM ConsoleTypeCorrect == ConsoleSpec => []WebTypeOK
<1>1. ASSUME part \in ConsoleParts, SessionInv, DetailTypeOK, ListTypeOK, BarTypeOK,
             ProfileTypeOK, ToastTypeOK, LoadsTypeOK, DashTypeOK, MapTypeOK
      PROVE  WebTypeOK
  <2>1. TypeOK
    BY <1>1 DEF SessionInv
  <2>2. CASE part = "session"
    BY <1>1, <2>1, <2>2 DEF WebTypeOK
  <2>3. CASE part = "detail"
    BY <1>1, <2>1, <2>3 DEF WebTypeOK
  <2>4. CASE part = "list"
    BY <1>1, <2>1, <2>4 DEF WebTypeOK
  <2>5. CASE part = "bar"
    BY <1>1, <2>1, <2>5 DEF WebTypeOK
  <2>6. CASE part = "profile"
    BY <1>1, <2>1, <2>6 DEF WebTypeOK
  <2>7. CASE part = "toast"
    BY <1>1, <2>1, <2>7 DEF WebTypeOK
  <2>8. CASE part = "load"
    BY <1>1, <2>1, <2>8 DEF WebTypeOK
  <2>9. CASE part = "dashboard"
    BY <1>1, <2>1, <2>9 DEF WebTypeOK
  <2>10. CASE part = "map"
    BY <1>1, <2>1, <2>10 DEF WebTypeOK
  <2> QED BY <1>1, <2>2, <2>3, <2>4, <2>5, <2>6, <2>7, <2>8, <2>9, <2>10 DEF ConsoleParts
<1> QED
  BY <1>1, PartsImplemented, SessionMoves, DetailsAreSound, ListsAreTrue, BarIsSound,
     ProfileIsSound, ToastsAreKept, LoadsAreTrue, DashboardIsTrue, MapTyped, PTL

(* What the pages of the console show is true: of the version, the row, the *)
(* range or the request they name, whatever the order in which the answers  *)
(* of their queries come.                                                   *)
THEOREM ConsoleIsTruthful == ConsoleSpec => []ScreensTruthful
<1>1. ASSUME DetailSound, ListSound, BarSound, ProfileSound, ToastsKept, LoadsSound,
             DashSound
      PROVE  ScreensTruthful
  <2>1. CASE part = "detail"
    BY <1>1, <2>1 DEF ScreensTruthful
  <2>2. CASE part = "list"
    BY <1>1, <2>2 DEF ScreensTruthful
  <2>3. CASE part = "bar"
    BY <1>1, <2>3 DEF ScreensTruthful
  <2>4. CASE part = "profile"
    BY <1>1, <2>4 DEF ScreensTruthful
  <2>5. CASE part = "toast"
    BY <1>1, <2>5 DEF ScreensTruthful
  <2>6. CASE part = "load"
    BY <1>1, <2>6 DEF ScreensTruthful
  <2>7. CASE part = "dashboard"
    BY <1>1, <2>7 DEF ScreensTruthful
  <2>8. CASE part \notin {"detail", "list", "bar", "profile", "toast", "load", "dashboard"}
    BY <1>1, <2>8 DEF ScreensTruthful
  <2> QED BY <1>1, <2>1, <2>2, <2>3, <2>4, <2>5, <2>6, <2>7, <2>8
<1> QED
  BY <1>1, PartsImplemented, DetailsAreSound, ListsAreTrue, BarIsSound, ProfileIsSound,
     ToastsAreKept, LoadsAreTrue, DashboardIsTrue, PTL

(* Whatever the query answered, the node map of the console adds up.        *)
THEOREM ConsoleFiguresRight == ConsoleSpec => []FiguresRight
<1>1. FiguresAddUp => FiguresRight
  BY DEF FiguresRight
<1> QED BY <1>1, PartsImplemented, NodeMapAddsUp, PTL

(* Whatever else the console does, its overlay covers what is not loaded,   *)
(* but for refreshes that end under it, and the profile and the requests    *)
(* are the present session's, but for what an earlier one left.             *)
THEOREM ConsoleSessionSound ==
  ConsoleSpec => [](OverlayCovers /\ ProfileMatchesSession /\ NoForeignRefusal)
<1>1. SessionInv => OverlayCovers /\ ProfileMatchesSession /\ NoForeignRefusal
  BY DEF SessionInv, OverlayCovers, RefreshShown, RefreshStaysCovered, OwnProfile,
     ProfileMatchesSession
<1> QED BY <1>1, PartsImplemented, SessionMoves, PTL
=============================================================================
