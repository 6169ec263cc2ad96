------------------------------- MODULE Startup -------------------------------
(***************************************************************************)
(* The boot sequence of an API process, statement by statement, against    *)
(* the database that all processes share: wait for Postgres, migrate, seed *)
(* the signing secret, the configured users, the bootstrap administrator   *)
(* and the default registries, then serve.  Any process may crash at any   *)
(* step, the database may be away, and the restart policy of the deployment*)
(* boots a process that exited again: always, a few times, or never.       *)
(***************************************************************************)
EXTENDS Naturals, Sequences, FiniteSets

CONSTANTS
  Procs,       (* API processes (replicas)                                 *)
  Configured,  (* the usernames of users.yaml, in file order               *)
  Admin,       (* SWARMBOT_BOOTSTRAP_ADMIN                                 *)
  Seeds,       (* number of built-in registries                            *)
  MaxAttempts, (* restarts the policy "on-failure" makes (3)               *)
  MaxCrashes,  (* bound: crashes of processes                              *)
  MaxOutages   (* bound: outages of the database                           *)

ConfiguredNames == {Configured[k] : k \in 1..Len(Configured)}
Usernames == ConfiguredNames \union {Admin}

ASSUME ProcsAssumption == IsFiniteSet(Procs)
ASSUME SeedsAssumption == Seeds \in Nat \ {0}
ASSUME AttemptsAssumption == MaxAttempts \in Nat
ASSUME BoundsAssumption == MaxCrashes \in Nat /\ MaxOutages \in Nat
ASSUME ConfiguredAssumption == Configured \in Seq(ConfiguredNames)

VARIABLES
  pc,          (* what each process does next                              *)
  index,       (* its place in the list it works through                   *)
  up,          (* whether the database answers                             *)
  migrated,    (* whether the tables exist                                 *)
  secrets,     (* number of rows of app_secrets                            *)
  users,       (* usernames in the users table                             *)
  removed,     (* usernames an administrator has removed                   *)
  registries,  (* rows of each built-in registry                           *)
  skipped,     (* history: processes whose loop over users.yaml this boot  *)
               (* cut short                                                *)
  policy,      (* the restart policy of the deployment                     *)
  boots,       (* how often each process was started, where that counts    *)
  emptied,     (* history: whether the last user was ever removed          *)
  crashes, outages

restarting == <<policy, boots>>
database == <<migrated, secrets, users, removed, registries>>
environment == <<up, crashes, outages>>
vars == <<pc, index, skipped, restarting, emptied, database, environment>>

Loading == {"readUser", "insertUser"}
Queries == {"migrate", "readSecret", "insertSecret", "readAny", "insertAdmin",
            "readRegistries", "insertSeed"}
(* Kubernetes and the development compose file; the Swarm files; the plain  *)
(* compose file, which has no policy.                                       *)
Policies == {"always", "on-failure", "no"}
Steps == {"down", "connect", "influx", "serving"} \union Loading \union Queries

Init ==
  /\ pc = [p \in Procs |-> "down"]
  /\ index = [p \in Procs |-> 1]
  /\ skipped = {}
  /\ policy \in Policies /\ boots = [p \in Procs |-> 0] /\ emptied = FALSE
  /\ up \in BOOLEAN /\ migrated = FALSE
  /\ secrets = 0 /\ users = {} /\ removed = {}
  /\ registries = [s \in 1..Seeds |-> 0]
  /\ crashes = 0
  /\ outages \in 0..MaxOutages /\ outages = (IF up THEN 0 ELSE 1)

-----------------------------------------------------------------------------

At(p, step) == pc[p] = step
Move(p, step, i) ==
  /\ pc' = [pc EXCEPT ![p] = step]
  /\ index' = [index EXCEPT ![p] = i]
GotoAt(p, step, i) == Move(p, step, i) /\ UNCHANGED <<skipped, restarting, emptied>>
Goto(p, step) == GotoAt(p, step, 1)

(* A statement of p that the database executes.                             *)
Statement(p, step) == At(p, step) /\ up /\ UNCHANGED environment

(* The first start of a process is no restart.                              *)
MayBoot(p) ==
  \/ policy = "always" \/ boots[p] = 0
  \/ policy = "on-failure" /\ boots[p] <= MaxAttempts

Boot(p) ==
  /\ At(p, "down") /\ MayBoot(p) /\ Move(p, "connect", 1)
  /\ skipped' = skipped \ {p}
  /\ boots' = IF policy = "always" THEN boots ELSE [boots EXCEPT ![p] = @ + 1]
  /\ UNCHANGED <<policy, emptied, database, environment>>

(* waitForDb: SELECT 1 until it answers, or give up and exit.               *)
Connect(p) ==
  /\ At(p, "connect")
  /\ Goto(p, IF up THEN "migrate" ELSE "down")
  /\ UNCHANGED <<database, environment>>

(* The migrator holds its lock while it brings the schema up to date.       *)
Migrate(p) ==
  /\ Statement(p, "migrate")
  /\ migrated' = TRUE /\ Goto(p, "readSecret")
  /\ UNCHANGED <<secrets, users, removed, registries>>

(* Mutant: the secret is inserted without looking.                          *)
ReadSecretBlindly(p) ==
  /\ Statement(p, "readSecret")
  /\ Goto(p, "insertSecret")
  /\ UNCHANGED database

ReadSecret(p) ==
  /\ Statement(p, "readSecret")
  /\ Goto(p, IF secrets > 0 THEN "readUser" ELSE "insertSecret")
  /\ UNCHANGED database

(* Mutant: the insert is not awaited, and lost if the process moves on.     *)
InsertSecretLost(p) ==
  /\ Statement(p, "insertSecret")
  /\ Goto(p, "readUser")
  /\ UNCHANGED database

(* The table has no constraint that would refuse a second row.              *)
InsertSecret(p) ==
  /\ Statement(p, "insertSecret")
  /\ secrets' = secrets + 1 /\ Goto(p, "readUser")
  /\ UNCHANGED <<migrated, users, removed, registries>>

-----------------------------------------------------------------------------
(* initUsersFromConfig.                                                     *)

(* catch { /* file missing is OK */ }: any error ends the loop, silently.   *)
CutLoop(p) ==
  /\ Move(p, "readAny", 1) /\ skipped' = skipped \union {p}
  /\ UNCHANGED <<restarting, emptied>>

ReadUser(p) ==
  /\ Statement(p, "readUser")
  /\ IF index[p] > Len(Configured) THEN Goto(p, "readAny")
     ELSE IF Configured[index[p]] \in users
       THEN GotoAt(p, "readUser", index[p] + 1)
       ELSE GotoAt(p, "insertUser", index[p])
  /\ UNCHANGED database

(* Mutant: the loop stops after the first user it creates.                  *)
InsertUserAndStop(p) ==
  /\ Statement(p, "insertUser")
  /\ users' = users \union {Configured[index[p]]}
  /\ Goto(p, "readAny")
  /\ UNCHANGED <<migrated, secrets, removed, registries>>

(* A name that is taken by now violates UNIQUE, and the exception ends the  *)
(* loop for the users that follow it.                                       *)
InsertUser(p) ==
  /\ Statement(p, "insertUser")
  /\ IF Configured[index[p]] \in users
       THEN CutLoop(p) /\ UNCHANGED <<users, removed>>
       ELSE /\ users' = users \union {Configured[index[p]]}
            /\ removed' = removed \ {Configured[index[p]]}
            /\ GotoAt(p, "readUser", index[p] + 1)
  /\ UNCHANGED <<migrated, secrets, registries>>

LoadingFails(p) ==
  /\ pc[p] \in Loading /\ ~up
  /\ CutLoop(p)
  /\ UNCHANGED <<database, environment>>

-----------------------------------------------------------------------------
(* bootstrapAdminIfEmpty.                                                   *)

ReadAny(p) ==
  /\ Statement(p, "readAny")
  /\ Goto(p, IF users = {} THEN "insertAdmin" ELSE "readRegistries")
  /\ UNCHANGED database

(* Mutant: a taken name is retried forever.                                 *)
InsertAdminRetried(p) ==
  /\ Statement(p, "insertAdmin")
  /\ IF Admin \in users
       THEN UNCHANGED <<pc, index, skipped, restarting, emptied, users, removed>>
       ELSE /\ users' = users \union {Admin} /\ removed' = removed \ {Admin}
            /\ Goto(p, "readRegistries")
  /\ UNCHANGED <<migrated, secrets, registries>>

(* Here a taken name is an error of main, and the process exits.            *)
InsertAdmin(p) ==
  /\ Statement(p, "insertAdmin")
  /\ IF Admin \in users
       THEN Goto(p, "down") /\ UNCHANGED <<users, removed>>
       ELSE /\ users' = users \union {Admin} /\ removed' = removed \ {Admin}
            /\ Goto(p, "readRegistries")
  /\ UNCHANGED <<migrated, secrets, registries>>

-----------------------------------------------------------------------------
(* seedDefaultRegistries: one transaction per registry.                     *)

NoRegistries == \A s \in 1..Seeds : registries[s] = 0

(* Mutant: a seeding that was interrupted is done over.                     *)
ReadRegistriesAll(p) ==
  /\ Statement(p, "readRegistries")
  /\ Goto(p, IF \E s \in 1..Seeds : registries[s] = 0
               THEN "insertSeed" ELSE "influx")
  /\ UNCHANGED database

ReadRegistries(p) ==
  /\ Statement(p, "readRegistries")
  /\ Goto(p, IF NoRegistries THEN "insertSeed" ELSE "influx")
  /\ UNCHANGED database

(* Mutant: one more than there are.                                         *)
InsertSeedOffByOne(p) ==
  /\ Statement(p, "insertSeed")
  /\ registries' = [registries EXCEPT ![index[p]] = @ + 1]
  /\ IF index[p] > Seeds THEN Goto(p, "influx")
                         ELSE GotoAt(p, "insertSeed", index[p] + 1)
  /\ UNCHANGED <<migrated, secrets, users, removed>>

InsertSeed(p) ==
  /\ Statement(p, "insertSeed")
  /\ registries' = [registries EXCEPT ![index[p]] = @ + 1]
  /\ IF index[p] = Seeds THEN Goto(p, "influx")
                         ELSE GotoAt(p, "insertSeed", index[p] + 1)
  /\ UNCHANGED <<migrated, secrets, users, removed>>

(* initInflux waits for InfluxDB and goes on without it; then listen.       *)
Listen(p) ==
  /\ At(p, "influx") /\ Goto(p, "serving")
  /\ UNCHANGED <<database, environment>>

-----------------------------------------------------------------------------

(* Any other statement that fails is an error of main.                      *)
QueryFails(p) ==
  /\ pc[p] \in Queries /\ ~up
  /\ Goto(p, "down")
  /\ UNCHANGED <<database, environment>>

Crash(p) ==
  /\ ~At(p, "down") /\ crashes < MaxCrashes
  /\ crashes' = crashes + 1 /\ Goto(p, "down")
  /\ UNCHANGED <<database, up, outages>>

Outage ==
  /\ up /\ outages < MaxOutages
  /\ up' = FALSE /\ outages' = outages + 1
  /\ UNCHANGED <<pc, index, skipped, restarting, emptied, database, crashes>>

Recover ==
  /\ ~up /\ up' = TRUE
  /\ UNCHANGED <<pc, index, skipped, restarting, emptied, database, crashes, outages>>

(* Requests that a serving process executes.                                *)
RemoveUser(p) ==
  /\ Statement(p, "serving")
  /\ \E u \in users : users' = users \ {u} /\ removed' = removed \union {u}
  /\ emptied' = (emptied \/ users' = {})
  /\ UNCHANGED <<pc, index, skipped, restarting, migrated, secrets, registries>>

RemoveRegistry(p) ==
  /\ Statement(p, "serving")
  /\ \E s \in 1..Seeds : /\ registries[s] > 0
                         /\ registries' = [registries EXCEPT ![s] = @ - 1]
  /\ UNCHANGED <<pc, index, skipped, restarting, emptied, migrated, secrets, users, removed>>

BootStep(p) ==
  \/ Boot(p) \/ Connect(p) \/ Migrate(p) \/ ReadSecret(p) \/ InsertSecret(p)
  \/ ReadUser(p) \/ InsertUser(p) \/ LoadingFails(p) \/ ReadAny(p)
  \/ InsertAdmin(p) \/ ReadRegistries(p) \/ InsertSeed(p) \/ Listen(p)
  \/ QueryFails(p)

Next ==
  \/ \E p \in Procs : BootStep(p) \/ Crash(p) \/ RemoveUser(p) \/ RemoveRegistry(p)
  \/ Outage \/ Recover

(* A process is started while the restart policy allows it, a booting one   *)
(* runs, and an outage ends.                                                *)
Spec == Init /\ [][Next]_vars
FairSpec == Spec /\ WF_vars(Recover) /\ \A p \in Procs : WF_vars(BootStep(p))

-----------------------------------------------------------------------------

TypeOK ==
  /\ pc \in [Procs -> Steps]
  /\ index \in [Procs -> Nat \ {0}]
  /\ up \in BOOLEAN /\ migrated \in BOOLEAN
  /\ policy \in Policies /\ boots \in [Procs -> 0..(MaxAttempts + 1)] /\ emptied \in BOOLEAN
  /\ secrets \in Nat /\ skipped \subseteq Procs
  /\ users \subseteq Usernames /\ removed \subseteq Usernames
  /\ registries \in [1..Seeds -> Nat]
  /\ crashes \in 0..MaxCrashes /\ outages \in 0..MaxOutages
  /\ \A p \in Procs : /\ At(p, "insertUser") => index[p] \in 1..Len(Configured)
                      /\ At(p, "insertSeed") => index[p] \in 1..Seeds

(* "Secrets are singletons": tokens signed, and passwords encrypted, with a *)
(* row of app_secrets stay readable only if there is never a second one     *)
(* (db.ts).                                                                 *)
SingletonSecret == secrets <= 1

(* What holds of that with replicas: however often the processes crash and  *)
(* boot again, each makes at most one secret between them, so a single      *)
(* replica, restarted at will, keeps its singleton.                         *)
SecretsBounded == secrets <= Cardinality(Procs)

(* getAppSecret never throws: whoever serves requests finds a secret.       *)
ServesWithSecret == \A p \in Procs : At(p, "serving") => secrets > 0

(* A boot that was cut short, or overlaps another, never makes a later one  *)
(* insert a built-in registry again: there are no more copies of it than    *)
(* processes.                                                               *)
SeedsBounded == \A s \in 1..Seeds : registries[s] <= Cardinality(Procs)

(* A process that serves has seen to it that every configured user exists,  *)
(* those an administrator removed since aside, unless an error of the loop  *)
(* was dropped.                                                             *)
ConfiguredUsersExist ==
  \A p \in Procs \ skipped :
    At(p, "serving") => ConfiguredNames \subseteq users \union removed

(* What the restart policy is enough for: "always" for anything; the        *)
(* attempts of the Swarm files for the crashes there are and one exit more, *)
(* while the database answers and the table of users is not emptied.        *)
Enough ==
  \/ policy = "always"
  \/ /\ policy = "on-failure" /\ crashes < MaxAttempts
     /\ outages = 0 /\ ~emptied

(* Whatever order the processes boot in, each ends up serving, unless more  *)
(* failed than its restart policy makes up for: a process exits on the lost *)
(* race for the administrator once at most, and the next boot repairs it.   *)
EventuallyServing ==
  \A p \in Procs : <>[](\/ At(p, "serving")
                        \/ At(p, "down") /\ ~MayBoot(p) /\ ~Enough)
=============================================================================
