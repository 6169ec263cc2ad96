# Verification of swarmbot

This directory holds a TLA+ development of swarmbot: the Express and Apollo API
under `apps/api`, which authenticates users, keeps its tables in Postgres and
drives a Docker Swarm or a Kubernetes cluster, and the Angular console under
`apps/web`. Each module models one part of the code between its awaits. TLC
checks small instances of all of them; TLAPS proves nearly every safety property
the runs check for every value of the constants (section 7). `PROJECT.json`
lists for every definition the source lines it models, for every run its
properties, and for every property a mutant of the model that breaks it.

Paths below are relative to `apps/api/src/` unless they start with `web/`, which
stands for `apps/web/src/app/`.

## 1. Inventory

The API is one Node.js process per replica. JavaScript runs to the next `await`
without interruption, so inside a process the hard interleavings are those of
requests between awaits. All state that outlives a request is in Postgres, in
InfluxDB, in the cluster, or in a few module variables. Several replicas may share
one Postgres (`auth/oidc.ts:197`, `auth/blacklist.ts:5`), and then statements of
different replicas interleave in the same way. The console is one tab: its
components interleave at every subscription, timer and answer.

| Component | State | Operations | Hard behaviour | What makes it correct |
|---|---|---|---|---|
| Sessions and API tokens (`auth/`, `http/optional-jwt.ts`, `graphql/resolvers.ts`) | JWTs held by clients, `revoked_jti`, `users.api_token_jti` | the middleware of every request, login, both logouts, generate / remove API token, create / remove user | up to three awaits before the handler; lazy purge of expired revocations; two lifetimes that must fit | what is over serves no later request |
| User accounts (`store/users.ts`) | `users` | password login with hash upgrade, password change, OIDC upsert, create, remove | writes by username that follow a read, no transaction | no more accounts per identity than callbacks at once; no legacy hash after a login; a password change sticks |
| Login door (`auth/rate-limit.ts`, `auth/oidc.ts`) | buckets of attempts; cached discovery document and signing keys | attempt a login; verify an ID token | windows that meet; keys rotated while logins overlap and replace each other's cache | attempts are bounded wherever one looks; the cache never costs a valid login |
| Registries (`store/registries.ts`) | `registries.is_default` | create, set default, remove | READ COMMITTED, row locks, deadlocks, rollback | one default, never zero by switching |
| Boot (`server.ts`, `db.ts`, `users/bootstrap.ts`) | `app_secrets`, `users`, `registries`, migrations | `main()` up to `listen` | several replicas boot at once, crash and restart, the database is away | one secret, seeded once, all serve in the end |
| Single-use tokens (`auth/slt.ts`, `auth/oidc.ts`) | tables `slt` and `oidc_flow` | create, consume | SELECT then DELETE, on several replicas; failing statements | consumed once |
| Event stream (`events/hub.ts`, `server.ts`) | subscribers, ring buffer | post, subscribe, close, read the feed | awaits between request and subscription; disconnects | subscribers get everything; the feed shows the latest |
| Swarm services and stacks (`docker/engine.ts`, `docker/cli.ts`, resolvers) | the engine's services with version and previous spec; compose files in the temporary directory | create, redeploy, scale, roll back, remove, for one service or a stack; deploy and remove a stack by the CLI | inspect and update in two calls; loops that stop half-way; a file path shared by deploys | no change is undone unseen; `true` means all |
| Swarm lists, networks, volumes, secrets, configs (`docker/engine.ts`, resolvers) | the engine's lists | list, join and count; create in two calls, remove; the node map's cards | every list is taken at a moment of its own | a task is on the card of its node; figures belong to what they are shown for |
| Nodes and cluster health (`docker/engine.ts`, `cluster-health.ts`) | role, availability and state of each node | drain, activate; derive the health | others promote and demote under a request in flight; quorum at its edge | a drain undoes no promotion; healthy means a majority |
| Kubernetes backend (`orchestrator/kubernetes/`) | the API server's objects and pods | apply a manifest document by document; map workloads and pods | overlapping applies, errors half-way, names that begin alike | `true` means every document; a pod leads back to its workload |
| Readings (`metrics/series.ts`, `store/metrics-history.ts`, `events/stats-writer.ts`, resolvers) | InfluxDB's samples, `metrics_snapshots` | post samples; load of nodes and tasks; curves; snapshot of the day; deltas | late starts, gaps, outages; overviews that overlap about midnight | no made-up figure beside telemetry; a curve shows samples only |
| Console session and overlay (`web/core/auth.service.ts`, `web/core/boot.service.ts`, `web/core/apollo-auth.link.ts`, login page, shell, boot loader) | localStorage, Apollo cache, subjects and timers | sign in (password, OIDC), sign out, reload, boot, refresh | late answers, retries, answers of an earlier session, overlapping timers | the overlay covers what is not loaded and goes; the session shown is the session there is |
| Console: detail pages (`web/pages/stacks`, `services`, `tasks`) | the component's signals, Apollo's queries in flight | open, act, reload after 2.5 s and 6 s, choose a range | reloads that join an older query; mutations that outlive the page | what was done comes to be shown; the page never goes back |
| Console: list pages and forms (`web/pages/*`, `web/forms/`) | polled list, Apollo's cache, dialogs | search, open, look at, create, remove, mark | polls, cache and answers of requests in any order | rows never go back; a viewer shows the row it names |
| Console: bar and sidebar (`web/layout/`, `web/core/i18n/`) | menu, theme, language, badge, bell, API token dialog | choose, generate, revoke, look | a dictionary loading while another is chosen; dialog closed and opened during a request | what is shown, stored and served agree at rest |
| Console: profile page (`web/pages/profile/`) | form, password dialog | edit, save, change the password | the page left and opened during a save | the comparison of the form is with what the server has |
| Console: toasts (`web/core/toast.service.ts`) | the stack and its timers | push, close, expire | cap reached, one fading, both timers | each toast leaves, none twice |
| Console: dashboard, load page, node map | polled figures, ranges | poll, refresh, choose a range | answers of two ranges in the other order; figures of two moments | curves are those of the range; figures add up |

How they interact: every GraphQL request passes the sessions middleware, which
reads `users` and `revoked_jti`; the resolvers then call the stores or the
orchestrator. A login passes the limiter, then the accounts. Boot fills
`app_secrets` (which signs the tokens), `users` and `registries` before `listen`.
The console obtains a session by the login mutation or by the OIDC callback, a
single-use token by a query, and opens the event stream with it; agents post
events that the hub passes to the streams, and samples that the stats writer
puts into InfluxDB. The OIDC login takes its state from the single-use pattern,
verifies the ID token with the cached keys and ends in the upsert of `users`. The
console's error link turns any answer UNAUTHENTICATED into a sign-out. The
pages of the console share Apollo's cache and nothing else.

Not modelled, with the reason in `PROJECT.json`: the selection of the
orchestrator (a fixed order of four conditions, read once at start), the GraphQL
schema, input validation and demo mode, the wording of translations, the mock
engine (fixed data), the SQLite adapter used by tests and mock mode, deployment
files. Left out of components that are otherwise modelled: the service page's
query of network names and its log viewer, the Swarm log streams, fields that are
copied, Kubernetes quantities, the HTTP client of InfluxDB, the geometry of charts,
passwords and secrets as cryptography, a second tab on the same localStorage.

## 2. Plan

Order: by what a mistake would cost and how little a unit test would see of it.

1. `Sessions`, proved in `SessionsProofs`.
2. The tables that requests write side by side: `Accounts`, with `LoginDoor`
   before it, proved in `LoginsProofs`; `Registries`, proved in `RegistriesProofs`.
3. `Startup` with crashes, proved in `StartupProofs`.
4. `OneTimeTokens` against the abstract `SingleUse`, and `EventStream`, which
   composes it with the hub, proved in `ClusterProofs`.
5. `SwarmServices` against the abstract `AtomicServices`, proved in
   `SwarmServicesProofs`; `ClusterNodes`, `SwarmResources`, `Kubernetes` and
   `Readings`, proved in `ClusterProofs`.
6. `WebConsole`, then the console's pages: `DetailPages`, `ListPages`, `TopBar`,
   `ProfilePage`, `Toasts`, `LoadCharts`, `Dashboard`, `NodeMap`, proved in
   `WebConsoleProofs`.

`Counting` has the lemmas on finite sets that several of the proofs share.

All of these exist. What comes next is in section 8.

Every module declares its parameters as CONSTANTS, with named ASSUMEs where a
proof or a definition needs them, has one action per stretch of code between two
awaits (or per SQL statement), and no RECURSIVE operator, so that each can be
proved about. The `MC...` modules add the values that a `.cfg` cannot write
(symmetry sets, sequences, workloads, state constraints), and four of them put
several modules into one run: `MCLogins`, `MCEventStream`, `MCWebConsole`,
`MCSettling`. The modules of such a run share no variable, so interleaving them
would show nothing: `part` chooses one of them in the initial state, and the
others rest. Their properties then speak of all parts (a part at rest satisfies
its own in its initial state), or are chosen by `part`.

## 3. Modules and the code

**Sessions.** `req[r].pc` is the await a request waits at. `Arrive` takes the
token (or none); `Verify` is `verifyJwt` and the branch on `iss`; then an API
token is compared with `users.api_token_jti` (`CheckApiToken`), a session looked
up in `revoked_jti` (`CheckRevoked`, `PurgeRevoked`); `FindUser` ends the
middleware. The handlers follow, each with its awaits: `revokeJti` computes
`expires_at` when it is called and inserts later (`BeginRevoke`,
`InsertRevocation`), `apiTokenGenerate` computes `exp` before it writes. `ended`
is a history variable: sessions whose logout is in the table, API tokens that
were replaced, removed, or lost with their account. Signatures are abstracted: a
client can present exactly the tokens that were issued. A request that issues a
token draws its jti when it arrives, which only shifts the bound on tokens.

**Accounts.** A row keeps which password its hash verifies, whether the hash is
legacy, whether OIDC provisioned it, and the linked `sub`. The actions are SQL
statements; `Rename` is the provider giving an identity another user name.

**Registries.** A client is a transaction: `txn[c]` holds the rows its current
statement selected, those it has locked, and its uncommitted writes. `Statement`
selects in a snapshot of what is committed, locks row by row (waiting if
another transaction has the row), looks at the row again, and commits, rolls
back, or is aborted by the deadlock detector. This is the server's behaviour as
the code relies on it, marked external in the map where no line of the repository
corresponds to it.

**Startup.** `pc[p]` is the statement of `main()` a process is about to run:
wait for Postgres, migrate, secret (select, insert), configured users (select,
insert, per user, any error ends the loop), the bootstrap administrator (select,
insert; an error ends the process), built-in registries (count, insert, one by
one), serve. `Crash`, `Outage`, `Recover` may come at any step. A process that exited is
started again as the deployment's restart policy allows (`MayBoot`): always
(Kubernetes; `restart: unless-stopped` in `docker-compose.dev.yml`), three times
(`max_attempts: 3` in `docker-compose.swarm.yml` and `docker-compose.local.yml`), or never
(`docker-compose.yml` states no policy). Administrators remove users and registries
meanwhile.

**OneTimeTokens, SingleUse.** `consumeSlt` and `consumeFlow` have the same
statements on two tables and are one module. A request selects the row, deletes
it and looks at the clock, and may fail at each statement. The abstract token is
unborn, live or spent, and is granted at most `Overlap` times while live. The
refinement takes a token as live while it has a row or a request that read it
has not decided.

**EventStream** EXTENDS `OneTimeTokens`: a stream's request consumes its token,
then subscribes. The hub's subscribers and the ring buffer of surfaced events
are variables, posting an event delivers it to all subscribers in one step, as
`publish` does.

**SwarmServices, AtomicServices.** The engine's store holds each service's
spec, previous spec and version. `Inspect` reads a service and computes the new
spec; `Update` sends it with the version that was read (`SentVersion`), and the
engine refuses it if the service has moved on. A stack's mutations go through the
services they listed and stop at the first error. A deploy opens (empties),
fills, reads and removes its compose file, and the CLI applies it service by
service; a failed one leaves the file. `force`, the ForceUpdate counter, is
unbounded but for `MaxIndex`, the bound on writes. The abstract module has each
change as one operation on the service as it is at that moment.

**WebConsole.** One tab. `token` and `profile` are localStorage; `seed[k]` is the
k-th seed query in flight and whether it was sent with a session, the present or
an earlier one; `cached` is Apollo's cache; `seq` has the boot sequences started since the page was loaded,
which nothing cancels. `SignOut` is `AuthService.logout`, called by the topbar,
by the error link for any refused answer, and by page queries. `Mount` is the
shell's initialisation. `showBoot`, `leaving` and `stray` are the overlay, its
fade-out timer, and a timer whose handle was overwritten. A refresh may begin under the
overlay, which stops the pointer and not the keyboard. `overlap` is a history
variable: what was left of earlier sessions when the present one began; so is `early`:
what was declared ready by something else than its own end.

**LoginDoor.** `buckets` is the limiter's map; a window begins with the attempt
that finds none (`WindowOf`, `Attempt`). `cache` has the discovery document and the
keys; a callback that exchanged its code (`login[l]`) takes the keys from the cache or fetches
them, looks for the token's key, and asks again once if it is not there (`LookUp`).
The provider publishes a set of keys and rotates it; an answer is what was
published when the provider sent it. `admitted` and `rotated` are histories.

**ClusterNodes.** `setNodeAvailability` is inspect and update with the version
that was read, as for services. Others promote, demote, pause, lose and bring back nodes. `EvaluateClusterHealth` and its Kubernetes counterpart
are the two derivations of the health; `rank` is the role given last, a history.

**SwarmResources.** The lists the resolvers join: services with tasks, stacks by
label, and the node map, which lists nodes first and tasks later (`mapping`).
A resource is created by the engine and inspected in a second call (`creating`).

**Kubernetes.** A name is a sequence of its parts between dashes. `apply[r]` holds
the documents still to do; each is created, or patched if it exists, the stack's namespace
first unless the manifest has one of its own; the first error ends it. `Kubectl`
acts on the same objects. Pods are run for the workloads (`StartPod`) and for what the
console does not list (`StartStray`): a ReplicaSet without a Deployment, a job, a pod
without an owner. `MapWorkloadSummary`, `MapPodTask`, `ListStacks` and
`LogPods` are what the console is told.

**Readings.** `samples` are InfluxDB's buckets of a range. `AssembleSeries` aligns
three measurements and fills gaps forward, `NodeLoad` and `TaskLoad` are the figures
of the lists. Time passes in half days; an overview looks for the day's snapshot and
inserts it in a second statement, which the primary key may refuse (`AskOverview`,
`InsertSnapshot`).

**DetailPages.** One page (`kind`) of a stack, a service or a task. `asked` are its
queries in flight: Apollo sends no query while an equal one is in flight, so a reload
may join one that the server has answered already. `mutations` outlive the page.
`details` is the component, with the timers of the two delayed reloads; `chart` the
chosen range, the range shown and the range queries.

**ListPages.** One page (`listKind`), parameterised by the tables `Tables` and `Forms`
for what each of the ten pages has: row links, viewers, forms with one or two steps,
deletion, marks. `cache` is what Apollo holds of the list when the page is opened
again. The query of the configs' contents writes the field of the list itself: its answer
replaces the list (`ListReplaced`), or leaves none, if Apollo lacks the rows' other fields
(`ListTorn`; which of the two depends on all that Apollo was ever told, so either may be).

**TopBar, ProfilePage, Toasts.** Small components, each with every handler and every
answer as an action. `mixed`, `strange` and `late` are histories: an answer was lost, or
two operations overlapped in a way for which the code promises nothing. A query of the
profile outlives its page: opened again, the page joins it, and so it joins the shell's.

**Dashboard, LoadCharts, NodeMap.** What the pages compute from their answers. The
dashboard's counters and rows come from two polls (`overview`, `nodeRows`), the curves
from a third query per range. The load page asks for the stacks and then for each
load. The node map is a pure function of one answer: `SummaryColumns`, `ClusterTotals`,
`Masthead` and `CardGroups`. Its lists are stated by what they are: members of a set
in an order (`InOrder`), with the tasks of a service as places in the nodes' lists.

## 4. Runs

| Run | Asks | Bounds and why they are enough |
|---|---|---|
| `sessions` | does what is over stay over (`LoggedOutStaysOut`, `RetiredApiTokenStaysOut`), does the purge delete only what has expired (`PurgeOnlyExpired`) | two overlapping requests, three tokens, clock 1..3 with Life 1 and Ttl 2, so that sessions expire, then their revocations. `SmallMix` keeps two sessions, with their logouts, apart from one session with API tokens and with accounts that go and come back: the two kinds of token share no table. The proofs cover the mix. |
| `sessions_drain` (`MCSettling`) | do requests drain from a token that is over (`EndedTokensDrain`); does the screen settle (`ScreensSettle`) | no symmetry; two tokens; one action on a page at a time, one request of a list, two changes of the cluster, four toasts on a stack of two |
| `accounts` (`MCLogins`) | `LoginLeavesNoLegacyHash`, `IdentitiesSound`, `DoorSound` | two names, two passwords, two identities, two requests: every pair of handlers interleaves, two callbacks of one identity among them. Windows of two ticks and two attempts on a clock of six; two logins, two keys |
| `accounts_upgrade_race` | is the upgrade of a hash a change of form only | violated: finding |
| `registries` | `LatestSwitchWins`, `DefaultsBounded`, `SwitchKeepsADefault`, `RequestsEnd` | two transactions, three rows: enough for opposite lock orders and a removed target |
| `registries_two_defaults` | is there at most one default | violated: finding |
| `startup` | `SecretsBounded`, `ServesWithSecret`, `SeedsBounded`, `ConfiguredUsersExist`, `EventuallyServing` | two replicas, two configured users, two seeds, one crash and one outage at any step or from the beginning, each restart policy; two attempts are just enough for one crash and one lost race; the proofs cover more of each |
| `startup_two_secrets` | is the secret a singleton | violated: finding |
| `tokens_twice` | is a token granted once | violated: finding |
| `event_stream` (`MCEventStream`) | `SpentIsFinal`, `ImplementsSingleUse`, `FeedShowsLatest`, `StreamIsComplete`; `NodesSound`, `ListsSound`, `ReadingsHonest` | two tokens, two connections, ring of 2 and 3 events, so that it overflows; Ttl 0 and clock 0..1. Three nodes (quorums of one, two and three managers) and two writes under one request. Two machines, two services, one stack that exists and one that is gone. Four manifests, one with its Namespace document last, two applies; pods of a workload, of a ReplicaSet by itself, of a job and of nobody. Three buckets, two levels; 17 half days pass the end of the six to eight days of the deltas; two overviews overlap about the first midnight. `SmallParts` keeps apart what does not look at each other |
| `swarm` | `ImplementsAtomicServices`, `SweepReachesAll`, `DeploysOwnFile` | a stack with a replicated and a global service and a second stack, two requests, two writes of the engine. `SmallMix` has a deploy write and read its file, two deploys overlap and a stack be removed before the first write only: their interest is in the files and in services that vanish; a deploy's own writes then mix with those of every other request |
| `web_console` (`MCWebConsole`) | `OverlayCovers` (`LoaderCoversBoot`, `RefreshStaysCovered`), `ProfileMatchesSession`, `NoForeignRefusal`, `LoaderLeaves`; `ScreensTruthful`, `FiguresRight` | two users, three sign-ins, two seed queries, two refreshes, one reload (before the third): an old sequence, a new one and a third session. Pages: three versions of the cluster (two on the list pages but stacks and nodes), so that an answer can be older than two others; three languages, so that a load can overtake a load; four toasts on a stack of two; two nodes with one hostname. `SmallConsole` names for each page which of its independent parts (menu, bell, dialog, chart) are explored at a time |

Every passing run but `sessions_drain` also checks the type invariants of its modules.
Symmetry is used in safety runs only. The four composed runs check conjunctions, one per
question:

- `IdentitiesSound` is `AccountsPerIdentity /\ ProvisionedStayPasswordless`;
  `DoorSound` is `AttemptsBounded /\ CurrentKeysAccepted`.
- `NodesSound` is `RolesStay /\ HealthTellsQuorum`; `ListsSound` has for the Swarm
  `TasksOnTheirCard /\ ListsAgree`, for Kubernetes `DeployedWhole /\ WorkloadsFound
  /\ StacksAddUp`; `ReadingsHonest` is `CurvesAreSampled /\ NoInventedLoad /\
  WeeksAreCompared /\ RefusedByAnother`.
- `ScreensTruthful` is, by part: `DetailSound` (`NeverGoesBack`, `OneRequestAtATime`,
  `StatusRollsUp`, `ChartSettled`), `ListSound` (`ListNeverGoesBack`, `ContentIsOfRow`,
  `OneInvitation`), `BarSound` (`NavHonest`, `LanguageAgrees`, `BellHonest`,
  `TokenShown`), `ProfileSound` (`OneSaveAtATime`, `DetailsAgree`), `ToastsKept`,
  `LoadsSound` (`LoadSettled`, `TopRanked`), `DashSound` (`CurvesOfRange`,
  `BucketsAgree`). `FiguresRight` is `FiguresAddUp` of the node map.
- `ScreensSettle` is `ActionShows /\ RequestShows /\ ToastsLeave /\ FiguresCatchUp`.

CHECK_DEADLOCK is off where the system may stop for good: when the tokens are used up
and events, days and writes have reached their bounds (`event_stream`), all replicas
serve and nothing is left to remove (`startup`), the bound on writes is reached
(`swarm`), the sign-ins or the toasts are used up (`web_console`, `sessions_drain`).

Some properties say exactly how far the code's promise goes:

- `LoggedOutStaysOut` excepts a request that itself hangs in the middleware for
  longer than `Ttl - Life` (one hour in the code).
- `ProvisionedStayPasswordless` excepts a name freed while a write of its password was
  due (`haunted`): the write lands on the account OIDC provisions under that name.
- `AccountsPerIdentity`: no lock keeps the callbacks of one identity apart and no unique
  index covers `sub`, so an identity may be linked to several accounts, but never to more
  than callbacks of it were under way at once (`peak`).
- `EventuallyServing` promises what the restart policy is enough for (`Enough`): with
  "always" every replica serves in the end; with `max_attempts` a replica may stay down
  after an outage, after as many crashes as attempts, or if an administrator removed the
  last user; without a policy the loser of the race for the administrator stays down.
- `ConfiguredUsersExist` excepts a process that dropped an error of the loop.
- `DefaultsBounded`, `SecretsBounded` and `SeedsBounded` bound the damage of the
  races in section 6: by the number of requests or replicas, however long the
  system runs.
- `DeploysOwnFile` is about a deploy alone on its stack's name.
- `AttemptsBounded` allows twice the limit where two windows meet.
- `CurrentKeysAccepted` excepts a key retired since the exchange and a provider that
  failed; `TasksOnTheirCard` excepts nodes that came or went between the two lists and hostnames shared by two nodes.
- `LoaderCoversBoot` excepts a refresh that ended before the first boot sequence had;
  `RefreshStaysCovered` another refresh or a boot sequence that ended since the last
  refresh began, and a refresh begun while an overwritten fade-out timer ran (`early`).
- `ProfileMatchesSession` and `NoForeignRefusal` except what the kind they are about left
  of an earlier session (`overlap`). `NoForeignRefusal` does not deny that a refused answer
  to an earlier session's query ends the present one: it says that such a seed query, "me"
  or refresh is in flight only in a session that began while one of its kind was under way.
- `ListNeverGoesBack` excepts the configs' page once an answer with the contents and one
  with the list have overtaken each other (`crossed`), until the list's next answer.
- `DetailsAgree` excepts a page left during a save, or, when it is left again, a query still
  in flight that has read details saved over since: the page opened next joins it.
- `ChartSettled`, `LanguageAgrees`, `TokenShown`, `LoadSettled` and `OneInvitation` except
  the overlaps their history variables record; section 6 says what is seen then.
- `ActionShows` and `RequestShows` hold while the page stays open and its queries
  succeed, within the 2.5 s of the first reload.

## 5. Fairness

- `Sessions`: weak fairness of each request in flight. The event loop resumes a
  request whose statement has returned. Clients and the clock owe nothing.
- `Registries`: strong fairness of each client's next statement. A waiting
  transaction's step is enabled and disabled as locks come and go, and
  Postgres queues the waiters of a row, so one that is free again and again is
  granted.
- `Startup`: weak fairness of each process's steps, a start among them while the restart
  policy allows one, and of the database coming back. Crashes and outages are bounded: with
  infinitely many nothing can be promised.
- `WebConsole`: weak fairness of timers, of a sequence's own steps and of every
  query being answered somehow; strong fairness of a query being answered with
  data if it is asked again and again, since the retry loop is there for errors
  that pass. Without a user, nothing else is owed.
- `DetailPages`: weak fairness of the reload timers and of each query being read
  and answered. `ListPages`: the same for the poll and the list's query. `Toasts`:
  weak fairness of each toast's timers. A browser fires its timers, and a query
  that fails is taken into account by the properties themselves (`excused`).
- `Dashboard`: weak fairness of the poll; strong fairness of its query being read
  and answered, since failed polls are followed by others. Users owe nothing.

No liveness is claimed for the other modules.

## 6. Findings

Four runs show the code do what one of its comments or tests says it does not:

- `accounts_upgrade_race`: `upgradePasswordHash` writes without a condition on
  the hash it read and reinstates a password that was changed meanwhile
  (`store/users.ts:241`).
- `registries_two_defaults`: two overlapping switches leave two defaults
  (`store/registries.ts:119`); each UPDATE sees committed rows only.
- `startup_two_secrets`: two replicas booting together on an empty database each
  insert a secret (`db.ts:96`).
- `tokens_twice`: two overlapping requests are granted one token
  (`auth/slt.ts:30`), because neither asks whether its DELETE removed the row.

The models also contain the following, which no sentence of the repository
contradicts, or none that a run refutes; `hazards` has the lines of most.

API, sessions and tables:

- A client that goes away while its token is consumed has closed before the
  listener for "close" is added; its handler stays in the hub (`CloseUnheard`).
- Two OIDC callbacks of one identity that overlap, with a change of its user name at the
  provider in between, link it to two accounts (`store/users.ts:171-204`;
  `db/migrations/002_oidc.ts:10` adds the column without a unique index). A password
  change or hash upgrade that was due when its account was removed gives a password to the
  account OIDC provisions under that name (`store/users.ts:241`, `:294`).
- A bootstrap administrator is inserted beside the configured users another
  replica has just loaded.
- Of two replicas that boot together on an empty database, without users in the
  configuration, one may exit on the administrator the other inserted
  (`users/bootstrap.ts:68`): it stays down under `docker-compose.yml`, and uses up one of
  the three attempts of the Swarm files.
- An expired token that is never presented keeps its row.
- `auth/rate-limit.ts:4` likens its counters to the blacklist's "caveat" of not
  being shared across replicas; the blacklist is in Postgres and is shared.
- A login that refreshes the keys may put older ones over those of another login; the
  next lookup asks again.
- `recordDailySnapshot` is said to upsert (`store/metrics-history.ts:11`) but selects
  and inserts: of two overviews that overlap on a new day one fails
  (`InsertSnapshot`).

API, clusters and readings:

- Two deploys of one stack in one process share the compose file
  (`docker/cli.ts:15`); a second rollback swaps back what the first rolled back.
- A volume created under an existing name answers the existing one; a create whose
  inspection fails answers an error and leaves the resource.
- Drained managers of a Swarm count as not ready although they vote; cordoned
  control-plane nodes of Kubernetes count as ready. A paused node counts as ready
  (`cluster-health.ts:30-33` looks for "drain" only), so a cluster may be "healthy" while
  nodes take no new tasks.
- Two nodes with one hostname each show the tasks of both, and share the badge of the
  peak.
- A global service counts one replica as wanted (`docker/engine.ts:229`).
- A manifest with a Namespace document of another name gets none for its stack
  (`adapter.ts:550`), and what it leaves to the stack is refused; `DeployedWhole` says for
  which manifests that, or a document before its namespace, can happen.
- A ReplicaSet without a Deployment has its name cut all the same (`adapter.ts:70-73`):
  the pods of `web-api` are shown as tasks of the Deployment `web`, and their log may be
  answered for its (`serviceLogs` takes the first running pod). `TakenFor` is that case,
  and `WorkloadsFound` says it is the only one.
- A pod's load is that of one of its containers (`graphql/resolvers.ts:329`); a
  measurement without data leaves its curve empty beside the others
  (`metrics/series.ts:137`); the three queries of a curve take their own "now" and may
  differ by a bucket; with InfluxDB, the series of a task that no longer runs is still
  answered (`graphql/resolvers.ts:569-572` says dead tasks have empty ones).

Console, session:

- A sequence that goes on after the sign-out asks anonymously, and its refused
  answer signs out the session that has begun meanwhile; a profile left behind by
  another user is kept after an OIDC sign-in, because the shell asks for "me" only if
  there is no profile, so a profile without a role is not completed either if
  "me" fails or the page is loaded again before it answers.
- So does the refused answer to a "me" or a refresh of an earlier session: the error link
  calls `logout` whoever sent the request (`apollo-auth.link.ts:33-47`).
- The overlay covers the dashboard's button but leaves it in reach of the keyboard. The end
  of one refresh uncovers another, as do a second boot sequence that ends during a refresh,
  and a fade-out timer whose handle was overwritten. A refresh begun and
  ended during the boot uncovers a console that is not loaded, and a shell mounted after that
  fades its loader at once: `boot.service.ts:16-17` says that the loader never dismisses
  with empty data.

Console, pages:

- A reload that joins a query read before the action shows the state before it; the
  one at 6 s repairs it. The answer to a removal navigates to the list wherever the user
  has gone. A service or task page whose first query fails stays "loading".
- A chart may show another range than the one chosen if its query was overtaken, and
  the load page charts whichever range is complete last; if the stacks fail it stays
  loading.
- A config's contents come under the list's own field of Apollo's cache: a late answer takes
  the page's list back to the rows it was read with, until the list's next answer, or empties
  the list until the page has asked anew.
- The failure of an earlier opening's invitation releases the button of the form
  opened since, and a second invitation can be sent; the other forms have no guard, and
  a late answer closes the dialog opened since. A config's viewer keeps
  loading after an error. A mark an answer merged into Apollo's cache can be undone by an
  older list.
- A language whose dictionary fails to load, or is overtaken, leaves what is stored and
  what is shown apart; a failed poll of the version resets the badge to "swarm"; the
  sidebar says "cluster healthy" whatever the health is.
- A save of the profile overwrites what is edited meanwhile; a profile page left and opened
  around a save may join a query that read the details before, show those and put them into
  the top bar; the late failure of a password
  change is shown in the dialog opened since. A message repeated while its toast fades is
  dropped.
- The dashboard's counters and rows are of different polls; opened again it shows cached
  rows until the next.

## 7. Proofs

Every theorem is about the specification a run checks, or a part of it, for every
value of the constants the assumptions allow. None of the safety properties is
inductive as it stands; what follows names the invariant that is, and why it is needed.

**SessionsProofs.** `TypeCorrect`, `LogoutIsFinal`, `ApiTokenRetirementIsFinal`,
`PurgeIsHarmless`. Whether a request is
served is decided by what it read several awaits ago. `IInv` therefore says for
each step of the middleware what the request may assume. `RequestOK`: what a
request holds fits its step; it arrived before its token expired if the token
was verified; a revocation about to be written outlives its session by
`Ttl - Life`, and one about to be purged has done so; a request that arrived with
a token already over and was accepted holds a session and has hung longer than
the margin. `FreshJtis`: a drawn jti is no other request's and no token's.
`DatabaseOK` relates the tables: a session expires at most Life from now, a
revocation outlives its session by the margin, the session of a logout has its
revocation or is past the moment it may be forgotten, and the API token an
account names is one issued for it that is not over.

**StartupProofs.** `TypeCorrect`, `SecretBeforeServing`, `OneSecretEach` with
`OneReplicaOneSecret`, `OneSeedEach`, `ConfiguredUsersLoaded`. The bounds by the
number of processes rest on a count: the secrets there are and the processes
that have decided to insert one never outnumber the processes. A process decides
on it only when it finds no secret, and an insert turns a pending one into a row;
`Counting!Fewer` is the step on cardinalities. The same argument goes for each
built-in registry. `ConfiguredUsersLoaded` needs the progress of the loop: all users
before `index[p]` exist or were removed since.

**LoginsProofs.** *Accounts*: `AccountsTypeCorrect`, `LoginsUpgrade`,
`IdentitiesAreSound`. That no legacy hash survives a login needs only what a request has
verified (`RequestOK`): between its read and its write another may change the row, but
never to a legacy hash. `TableStep` is the lemma on what a single statement may do to the
table, and is used for every action. For identities the invariant counts (`LinksCounted`):
a callback sets out to link an account only when the identity has none, so its accounts
and the callbacks on their way to one are together no more than its callbacks were at once. *The door*:
`DoorTypeCorrect`, `DoorIsSound`. A caller's latest window begins at `resetAt - Window`,
its attempts are at most `count`, and those of any stretch as long as a window lie in at
most two windows; the invariant keeps the attempts before the latest window within the
limit in every stretch as long. From the exchange on, the key of a login is
published or was retired since, so a second set of keys has it unless it was retired.
`LoginsCompose` carries both over to the run's composition.

**RegistriesProofs.** `TypeCorrect`, `TheLatestSwitchWins`, `SwitchingKeepsADefault`,
`DefaultsStayBounded`. `RInv` says what a transaction holds at each step: `TxnOK`
relates its statement to its locks and uncommitted writes (the rows it cleared, never its
own target; at commit its own row is in them), `CreateOK` that the row it is about to
insert is nobody else's, and `RowsUsed` that ids are drawn once. A transaction that holds
a lock on the latest default would have to have found it plain. The bound on defaults is
not a matter of one state: a default exists because the transactions that could have
cleared it took their snapshots before it was committed. `Counted` therefore quantifies
over ranks: each default has the number of commits before its own, each transaction in
flight the number its snapshot saw, and for every moment `t` the defaults committed since
and the transactions whose snapshot is older are together no more than the clients. A
commit joins the defaults, leaves the transactions, and takes with it every default
its snapshot saw.

**ClusterProofs.** Five parts, and their composition (`ClusterComposes`,
`ClusterTypeCorrect`, `ListsAreSound`).
*Tokens*: `TypeCorrect`, `ConsumptionIsFinal`, `OneByOneGrantedOnce`,
`TokensImplementSingleUse`. `IInv` counts: grants of a token plus the requests that
hold it are at most the number of requests; while a token has a row it was granted to
nobody, and a spent token has no row. The refinement maps each action to `Issue`, `Grant`,
`Lapse` or a stutter.
*Events*: `StreamImplementsTokens`, `SubscribersGetEverything`, and `TheFeedIsLatest`:
`RingInv` says that a surfaced event is in the ring or older than all of a full ring.
*Nodes*: `NodesAreSound`. A version names one state of a node: none is above the index, and
a request whose inspected version is still current has the current role in its hands, so
the update the engine accepts writes back the role it would have kept. The health is
arithmetic on `QuorumSize` and cardinalities.
*Lists of the Swarm*: `SwarmListsAreSound`, `ResourcesTypeCorrect`. The node map under way
keeps the nodes it listed and, for each card, the tasks it put there (`Mapping`), whatever
joins, leaves or moves before its second list.
*Readings*: `ReadingsAreHonest`, `ReadingsTypeCorrect`. The curves are recursions over the
buckets: `Points`, `LastPoint` and `LatestPoint` describe what has been read up to a
bucket, and `Counting!UpTo` carries it to the last. For the deltas, no snapshot is of a
later day than now and each day has one; an overview that is refused finds that day's
snapshot there, inserted by the other.
*Kubernetes*: `KubernetesIsSound`, `KubeTypeCorrect`. `ObjInv`: one object under each key,
in a namespace that exists; `PodInv`: a workload's pod leads back to it, whatever
dashes its names have, and another pod to no workload or to what its ReplicaSet's name is
cut to. For applies, `Proper`: every document asked for is done or still to
do; `Roomy`: while the manifest has its namespaces in order and nobody deletes one,
each document still to do goes into a namespace that is there or comes before it. That the stacks' counts
add up is `StacksSum`, by induction over the size of a set of stacks.

**SwarmServicesProofs.** `TypeCorrect`, `SweepsReachAll`, `DeploysTheOwnFile`, and the
refinement `ServicesAreAtomic`. `BodyFits` is the heart of it: while the service still has
the version that was inspected, the body a request is about to send is its operation
applied to the service as it is. So the update the engine accepts is the atomic change,
and each step of the code is one atomic operation on one service or none (`OneOperation`).
`SweepOK` says of a loop that each service listed is still to visit, in hand, changed, or
one that scaling leaves alone; `FileOK` and `SharedOK` that a deploy alone with its stack's
name finds its own compose file.

**WebConsoleProofs.** *The session*: `LoaderAlwaysCovers`, `RefreshAlwaysCovered` (together
`OverlayAlwaysCovers`), `ProfileIsTheSessions`, `OnlyOwnRefusals`. `SessionInv` says how far each boot sequence is
and which queries it left in the cache (`SequenceOK`), that the sequences begun are at most
one more than the sign-ins (so that one is always to be had), that a query in flight has a
sequence waiting for it, that nothing is ready or fading before the cache is full or
while a refresh is under way, but for what `early` records, and whose profile is shown.
*The pages*, each by an invariant on what its queries in flight may have read:

- `BarIsSound` (`BarInv`): while nothing is mixed, at most one dictionary is under way and it
  is the one chosen last; a reading of the bell is no less than what was seen; the dialog of
  the token has one request under way.
- `ProfileIsSound` (`ProfileInv`): one request of each kind is the page's own; while nothing
  strange happened, a save the server has executed and an answer it has sent have the
  server's details.
- `ToastsAreKept` (`ToastInv`): numbers grow along the stack and none is above the last one
  drawn, so a new toast takes no other's timer.
- `DetailsAreSound` (`DetailInv`): an answer under way is no older than the version shown, the
  query sent last is of the range chosen.
- `ListsAreTrue` (`ListInv`): one query of the list is in flight; unless it and the contents
  have overtaken each other, what it has read is no older than the cache and the rows shown;
  the row of the viewer is the last that waits
  for the contents; an invitation under way is the form's own.
- `DashboardIsTrue` (`DashInv`): all figures of one version that are shown, cached or
  under way are of one cluster (`Together`), so a counter and rows of one version agree,
  though they come from two queries.
- `LoadsAreTrue` (`LoadsInv`): unless excused, the loads in flight are of the range chosen.
  The ranking gives each stack the place one below the number of stacks above it; places are
  distinct and, by counting, each one up to the number of stacks is taken.
- `NodeMapAddsUp`, for every answer whatever its length: a list of the members of a set in a
  total order has each once, in that order (`Listing`), whence the groups and the summary;
  the services part the tasks, and sums over the parts of a set, or over a list, are its
  size (`SizesAddUp`, `Sums`); a mean of numbers none above a bound is not above it,
  rounded as it is (`TotalWithin`, `MeanWithin`). What holds of the sums up to each place
  of a list is carried from one place to the next by `Counting!UpTo`.

A step of the composition is a step of one part and leaves the others alone (`PartsMove`);
`ConsoleTypeCorrect`, `ConsoleIsTruthful`, `ConsoleFiguresRight` and `ConsoleSessionSound`
follow.

**Assumptions.** Those named in the modules. They say that

- sets the code enumerates or counts are finite (`ProcsAssumption`, `RequestsAssumption`,
  `NodesAssumption`, `ClientsAssumption`, `IdsAssumption`, `HostsAssumption`, in part
  `DeployedAssumption`), and not empty where nothing could happen otherwise (`ClientsAssumption`,
  `MachinesAssumption`, `ChartRangesAssumption`);
- bounds, sizes and times are natural numbers, positive where the code has a positive constant or
  begins with one (`TimesAssumption`, `LimitAssumption`, `RingSizeAssumption`, `SeedsAssumption`,
  `BucketsAssumption`, `ToastsAssumption`, `TopSizeAssumption`, `MaxVersionAssumption`,
  `MaxWritesAssumption`, `MaxTokensAssumption`, `MapAssumption`, the `BoundsAssumption`s and the like);
- the values that stand for "none" are no others (`NoneAssumption`, `NothingAssumption`,
  `NoTokenAssumption`, `NoRowAssumption`, `NoLangAssumption`, `LevelsAssumption` and the like);
- data is of the form the code gets: ids of services differ (`DeployedAssumption`), a list of
  stacks names each once (`StacksAssumption`), the tasks of a node are a list (`MapAssumption`), a Kubernetes document has a kind and a name
  (`ManifestsAssumption`; names of namespaces are not empty, `NamesAssumption`; `StraysAssumption`), one hour is a
  range of the dashboard (`CurveRangesAssumption`), the list of configured users has names;
- `TtlCoversLife`: Life <= Ttl, the point of the blacklist's 25 hours.

TLC evaluates them in the runs.

**Only model-checked.** Liveness under fairness (`EndedTokensDrain`, `ScreensSettle`,
`RequestsEnd`, `EventuallyServing`, `LoaderLeaves`), which is out of this prover's reach,
as ENABLED is. Every safety property of a passing run is stated by a theorem.

## 8. What is left

Proofs: none of a safety property; liveness stays with TLC.

Models: the service page's log viewer beside its queries; the log streams of the Swarm;
the service's ports and credentials in `SwarmServices`. Each list page is explored by
itself: the queries of other pages that write the same root fields of Apollo's cache (the
stack page's services, networks, volumes, secrets, configs and tasks) do not meet it.

Left out for good: a second tab on the same localStorage (theme, language and the bell's
last-seen entry are then shared), the wording of messages, the geometry of charts,
cryptographic primitives, SQLite.

## 9. Running

    tlc -workers 2 -config Sessions.cfg MCSessions
    tlapm SessionsProofs.tla

`PROJECT.json` names the module of each configuration. The largest runs (`sessions`,
`accounts`, `swarm`, `event_stream`, `web_console`) have between half a million and
two and a half million distinct states and take one to two and a half minutes, `web_console`
nearly four; `sessions_drain` is smaller, but checks five temporal properties in two minutes.
