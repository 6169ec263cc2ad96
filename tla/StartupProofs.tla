---------------------------- MODULE StartupProofs ----------------------------
(***************************************************************************)
(* Proofs about Startup, for any number of processes, configured users,    *)
(* built-in registries, crashes and outages.                               *)
(***************************************************************************)
EXTENDS Startup, Counting

BeforeSecret == {"down", "connect", "migrate", "readSecret", "insertSecret"}
SecretReady == \A p \in Procs : pc[p] \notin BeforeSecret => secrets > 0

(* The inserts a process has decided on, from what it read, and not made.   *)
(* It decides on them only when there is no row: the rows there are and the *)
(* inserts pending never outnumber the processes.                           *)
SecretPending == {p \in Procs : At(p, "insertSecret")}
SeedPending(s) == {p \in Procs : At(p, "insertSeed") /\ index[p] <= s}

SecretCount == secrets + Cardinality(SecretPending) <= Cardinality(Procs)
SeedCount ==
  \A s \in 1..Seeds :
    registries[s] + Cardinality(SeedPending(s)) <= Cardinality(Procs)

(* The users a process has gone past in the list are, or were, in the table.*)
Loaded == {"readAny", "insertAdmin", "readRegistries", "insertSeed", "influx",
           "serving"}
Known == users \union removed
LoopProgress ==
  \A p \in Procs \ skipped :
    /\ pc[p] \in Loading =>
         \A k \in 1..Len(Configured) : k < index[p] => Configured[k] \in Known
    /\ pc[p] \in Loaded => ConfiguredNames \subseteq Known

IInv == TypeOK /\ SecretReady /\ SecretCount /\ SeedCount /\ LoopProgress

-----------------------------------------------------------------------------

LEMMA Names == \A k \in 1..Len(Configured) : Configured[k] \in Usernames
  BY DEF Usernames, ConfiguredNames

LEMMA LengthType == Len(Configured) \in Nat
  BY ConfiguredAssumption

(* The parts of TypeOK: the processes, and what they share.                 *)
ProcessesOK ==
  /\ pc \in [Procs -> Steps] /\ index \in [Procs -> Nat \ {0}]
  /\ \A p \in Procs : /\ At(p, "insertUser") => index[p] \in 1..Len(Configured)
                      /\ At(p, "insertSeed") => index[p] \in 1..Seeds

FlagsOK == up \in BOOLEAN /\ migrated \in BOOLEAN

SharedOK ==
  /\ secrets \in Nat
  /\ users \subseteq Usernames /\ removed \subseteq Usernames
  /\ registries \in [1..Seeds -> Nat]
  /\ crashes \in 0..MaxCrashes /\ outages \in 0..MaxOutages

SkippedOK == skipped \subseteq Procs

RestartsOK ==
  /\ policy \in Policies /\ boots \in [Procs -> 0..(MaxAttempts + 1)] /\ emptied \in BOOLEAN

LEMMA Parts == TypeOK <=> ProcessesOK /\ FlagsOK /\ SharedOK /\ SkippedOK /\ RestartsOK
  BY DEF SkippedOK, RestartsOK, TypeOK, ProcessesOK, FlagsOK, SharedOK

LEMMA Initially == Init => IInv
<1> SUFFICES ASSUME Init PROVE IInv
  OBVIOUS
<1> USE SeedsAssumption, BoundsAssumption DEF Init, At
<1>1. ProcessesOK
  BY DEF ProcessesOK, Steps
<1>2. SharedOK
  BY DEF SharedOK
<1>4. FlagsOK /\ SkippedOK
  BY DEF FlagsOK, SkippedOK
<1>6. RestartsOK
  <2>1. 0 \in 0..(MaxAttempts + 1)
    BY AttemptsAssumption
  <2>2. boots = [p \in Procs |-> 0] /\ policy \in Policies /\ emptied = FALSE
    OBVIOUS
  <2> QED
    BY <2>1, <2>2 DEF RestartsOK
<1>3. SecretReady /\ LoopProgress
  BY DEF SecretReady, BeforeSecret, LoopProgress, Loading, Loaded
<1>5. SecretCount /\ SeedCount
  <2>1. Cardinality(Procs) \in Nat
    BY ProcsAssumption, FS_CardinalityType
  <2>2. SecretPending = {} /\ \A s \in 1..Seeds : SeedPending(s) = {}
    BY DEF SecretPending, SeedPending
  <2>3. Cardinality(SecretPending) = 0
        /\ \A s \in 1..Seeds : Cardinality(SeedPending(s)) = 0
    BY <2>2, FS_EmptySet
  <2>4. secrets = 0 /\ \A s \in 1..Seeds : registries[s] = 0
    OBVIOUS
  <2> QED
    BY <2>1, <2>3, <2>4 DEF SecretCount, SeedCount
<1> QED
  BY <1>1, <1>2, <1>3, <1>4, <1>5, <1>6, Parts DEF IInv

(* A step of p moves p, and nobody else, to a step of the boot sequence.    *)
LEMMA GotoType ==
  ASSUME ProcessesOK, NEW p \in Procs, NEW step \in Steps, NEW i \in Nat \ {0},
         Move(p, step, i),
         step = "insertUser" => i \in 1..Len(Configured),
         step = "insertSeed" => i \in 1..Seeds
  PROVE  ProcessesOK'
  BY DEF ProcessesOK, Move, At

LEMMA ProcessesStep == TypeOK /\ [Next]_vars => ProcessesOK'
<1> SUFFICES ASSUME ProcessesOK, [Next]_vars PROVE ProcessesOK'
  BY Parts
<1> USE SeedsAssumption, LengthType DEF Goto, GotoAt, CutLoop, Statement, Steps, Loading, Queries
<1>1. CASE UNCHANGED <<pc, index>>
  BY <1>1 DEF ProcessesOK, At
<1>2. ASSUME NEW p \in Procs, BootStep(p) PROVE ProcessesOK'
  <2>1. CASE \/ Boot(p) \/ Connect(p) \/ Migrate(p) \/ LoadingFails(p)
             \/ Listen(p) \/ QueryFails(p)
    BY <2>1, GotoType DEF Boot, Connect, Migrate, LoadingFails, Listen, QueryFails
  <2>2. CASE ReadSecret(p) \/ InsertSecret(p) \/ ReadAny(p) \/ ReadRegistries(p)
    <3>1. PICK step \in {"readUser", "insertSecret", "insertAdmin",
                         "readRegistries", "insertSeed", "influx"} :
            Move(p, step, 1)
      BY <2>2 DEF ReadSecret, InsertSecret, ReadAny, ReadRegistries
    <3> QED
      BY <3>1, GotoType
  <2>3. CASE ReadUser(p)
    <3>1. index[p] \in Nat \ {0}
      BY DEF ProcessesOK
    <3>2. CASE index[p] > Len(Configured)
      BY <2>3, <3>1, <3>2, GotoType DEF ReadUser
    <3>3. CASE index[p] \in 1..Len(Configured)
      BY <2>3, <3>1, <3>3, GotoType DEF ReadUser
    <3> QED
      BY <3>1, <3>2, <3>3
  <2>4. CASE InsertUser(p)
    BY <2>4, GotoType DEF InsertUser, ProcessesOK
  <2>5. CASE InsertAdmin(p)
    BY <2>5, GotoType DEF InsertAdmin
  <2>6. CASE InsertSeed(p)
    <3>1. index[p] \in 1..Seeds
      BY <2>6 DEF InsertSeed, ProcessesOK
    <3>2. CASE index[p] = Seeds
      BY <2>6, <3>1, <3>2, GotoType DEF InsertSeed
    <3>3. CASE index[p] # Seeds
      BY <2>6, <3>1, <3>3, GotoType DEF InsertSeed
    <3> QED
      BY <3>2, <3>3
  <2> QED
    BY <1>2, <2>1, <2>2, <2>3, <2>4, <2>5, <2>6 DEF BootStep
<1>3. ASSUME NEW p \in Procs, Crash(p) PROVE ProcessesOK'
  BY <1>3, GotoType DEF Crash
<1> QED
  BY <1>1, <1>2, <1>3
  DEF Next, RemoveUser, RemoveRegistry, Outage, Recover, vars

LEMMA FlagsStep == TypeOK /\ [Next]_vars => FlagsOK'
<1> SUFFICES ASSUME FlagsOK, [Next]_vars PROVE FlagsOK'
  BY Parts
<1>1. up' \in {up, TRUE, FALSE} /\ migrated' \in {migrated, TRUE}
  BY DEF Next, BootStep, Boot, Connect, Migrate, ReadSecret, InsertSecret,
         ReadUser, InsertUser, LoadingFails, ReadAny, InsertAdmin,
         ReadRegistries, InsertSeed, Listen, QueryFails, Crash, Outage, Recover,
         RemoveUser, RemoveRegistry, Statement, database, environment, vars
<1> QED
  BY <1>1 DEF FlagsOK

LEMMA SharedStep == TypeOK /\ [Next]_vars => SharedOK'
<1> SUFFICES ASSUME TypeOK, [Next]_vars PROVE SharedOK'
  OBVIOUS
<1>1. SharedOK
  BY Parts
<1> USE <1>1, SeedsAssumption, BoundsAssumption DEF SharedOK, Statement
<1>2. CASE UNCHANGED <<database, environment>>
  BY <1>2 DEF database, environment
<1>3. ASSUME NEW p \in Procs, InsertUser(p) PROVE SharedOK'
  <2>1. Configured[index[p]] \in Usernames
    BY <1>3, Names DEF InsertUser, TypeOK, At
  <2> QED
    BY <1>3, <2>1 DEF InsertUser, environment
<1>4. ASSUME NEW p \in Procs, Migrate(p) \/ InsertSecret(p) PROVE SharedOK'
  BY <1>4 DEF Migrate, InsertSecret, environment
<1>5. ASSUME NEW p \in Procs, InsertAdmin(p) PROVE SharedOK'
  <2>1. Admin \in Usernames
    BY DEF Usernames
  <2> QED
    BY <1>5, <2>1 DEF InsertAdmin, environment
<1>6. ASSUME NEW p \in Procs, InsertSeed(p) PROVE SharedOK'
  <2>1. index[p] \in 1..Seeds
    BY <1>6 DEF InsertSeed, TypeOK
  <2> QED
    BY <1>6, <2>1 DEF InsertSeed, environment
<1>7. ASSUME NEW p \in Procs, RemoveUser(p) PROVE SharedOK'
  BY <1>7 DEF RemoveUser, environment
<1>8. ASSUME NEW p \in Procs, RemoveRegistry(p) PROVE SharedOK'
  BY <1>8 DEF RemoveRegistry, environment
<1>9. CASE Outage \/ Recover \/ \E p \in Procs : Crash(p)
  BY <1>9 DEF Outage, Recover, Crash, database
<1> QED
  BY <1>2, <1>3, <1>4, <1>5, <1>6, <1>7, <1>8, <1>9
  DEF Next, BootStep, Boot, Connect, ReadSecret, ReadUser, LoadingFails, ReadAny,
      ReadRegistries, Listen, QueryFails, vars, database, environment

LEMMA SkippedStep == TypeOK /\ [Next]_vars => SkippedOK'
<1> SUFFICES ASSUME SkippedOK, [Next]_vars PROVE SkippedOK'
  BY Parts
<1>1. \/ UNCHANGED skipped
      \/ \E p \in Procs : skipped' \in {skipped \ {p}, skipped \union {p}}
  BY DEF Next, BootStep, Boot, Connect, Migrate, ReadSecret, InsertSecret,
         ReadUser, InsertUser, LoadingFails, ReadAny, InsertAdmin,
         ReadRegistries, InsertSeed, Listen, QueryFails, Crash, Outage, Recover,
         RemoveUser, RemoveRegistry, Goto, GotoAt, CutLoop, vars
<1> QED
  BY <1>1 DEF SkippedOK

(* A process is started again only while the policy allows it.              *)
LEMMA RestartsStep == TypeOK /\ [Next]_vars => RestartsOK'
<1> SUFFICES ASSUME RestartsOK, [Next]_vars PROVE RestartsOK'
  BY Parts
<1>1. ASSUME NEW p \in Procs, Boot(p) PROVE RestartsOK'
  <2>1. boots[p] \in 0..(MaxAttempts + 1) /\ policy' = policy /\ emptied' = emptied
    BY <1>1 DEF RestartsOK, Boot
  <2>2. policy # "always" => boots[p] + 1 \in 0..(MaxAttempts + 1)
    BY <1>1, <2>1, AttemptsAssumption DEF Boot, MayBoot
  <2> QED
    BY <1>1, <2>1, <2>2 DEF RestartsOK, Boot
<1>2. ASSUME ~ \E p \in Procs : Boot(p) PROVE RestartsOK'
  <2>1. UNCHANGED restarting /\ emptied' \in BOOLEAN
    BY <1>2 DEF RestartsOK, Next, BootStep, Connect, Migrate, ReadSecret, InsertSecret,
           ReadUser, InsertUser, LoadingFails, ReadAny, InsertAdmin,
           ReadRegistries, InsertSeed, Listen, QueryFails, Crash, Outage, Recover,
           RemoveUser, RemoveRegistry, Goto, GotoAt, CutLoop, vars
  <2> QED
    BY <2>1 DEF RestartsOK, restarting
<1> QED
  BY <1>1, <1>2

LEMMA TypeStep == TypeOK /\ [Next]_vars => TypeOK'
<1>1. TypeOK' <=> ProcessesOK' /\ FlagsOK' /\ SharedOK' /\ SkippedOK' /\ RestartsOK'
  BY DEF SkippedOK, RestartsOK, TypeOK, ProcessesOK, FlagsOK, SharedOK
<1> QED
  BY <1>1, ProcessesStep, FlagsStep, SharedStep, SkippedStep, RestartsStep

-----------------------------------------------------------------------------

(* The secret is there before the boot goes on, and is never deleted.       *)
LEMMA SecretStep == IInv /\ [Next]_vars => SecretReady'
<1> SUFFICES ASSUME IInv, [Next]_vars, NEW q \in Procs,
                    pc'[q] \notin BeforeSecret
             PROVE  secrets' > 0
  BY DEF SecretReady
<1> USE DEF BeforeSecret
<1>1. TypeOK /\ secrets \in Nat /\ pc \in [Procs -> Steps]
  BY DEF IInv, TypeOK
<1>2. CASE pc[q] \notin BeforeSecret
  <2>1. secrets > 0
    BY <1>2 DEF IInv, SecretReady
  <2>2. secrets' \in {secrets, secrets + 1}
    BY DEF Next, BootStep, Boot, Connect, Migrate, ReadSecret, InsertSecret,
           ReadUser, InsertUser, LoadingFails, ReadAny, InsertAdmin,
           ReadRegistries, InsertSeed, Listen, QueryFails, Crash, Outage,
           Recover, RemoveUser, RemoveRegistry, database, vars
  <2> QED
    BY <1>1, <2>1, <2>2
<1>3. CASE pc[q] \in BeforeSecret
  <2>1. ReadSecret(q) \/ InsertSecret(q)
    BY <1>1, <1>3 DEF Next, BootStep, Boot, Connect, Migrate, ReadSecret,
       InsertSecret, ReadUser, InsertUser, LoadingFails, ReadAny, InsertAdmin,
       ReadRegistries, InsertSeed, Listen, QueryFails, Crash, Outage, Recover,
       RemoveUser, RemoveRegistry, Statement, Goto, GotoAt, Move, CutLoop, At, Loading, vars
  <2> QED
    BY <1>1, <1>3, <2>1 DEF ReadSecret, InsertSecret, Statement, Goto, GotoAt,
       Move, At, database
<1> QED
  BY <1>2, <1>3

-----------------------------------------------------------------------------

LEMMA CountType == Cardinality(Procs) \in Nat
  BY ProcsAssumption, FS_CardinalityType

(* A process leaves the pending ones by its insert, and joins them only when*)
(* there is no secret.                                                      *)
LEMMA SecretCountStep == IInv /\ [Next]_vars => SecretCount'
<1> SUFFICES ASSUME IInv, [Next]_vars PROVE SecretCount'
  OBVIOUS
<1> USE CountType
<1>1. TypeOK /\ SecretCount /\ secrets \in Nat /\ pc \in [Procs -> Steps]
  BY DEF IInv, TypeOK
<1>2. SecretPending \in SUBSET Procs /\ SecretPending' \in SUBSET Procs
  BY DEF SecretPending
<1>3. CASE \E p \in Procs : ReadSecret(p)
  <2>1. CASE secrets = 0
    <3>1. secrets' = 0
      BY <1>3, <2>1 DEF ReadSecret, database
    <3> QED
      BY <1>2, <3>1, ProcsAssumption, Fewer DEF SecretCount
  <2>2. CASE secrets # 0
    <3>1. secrets' = secrets /\ SecretPending' \in SUBSET SecretPending
      BY <1>1, <1>3, <2>2 DEF ReadSecret, Statement, Goto, GotoAt, Move, At,
                              SecretPending, database
    <3> QED
      BY <1>1, <1>2, <3>1, ProcsAssumption, Fewer DEF SecretCount
  <2> QED
    BY <2>1, <2>2
<1>4. ASSUME NEW p \in Procs, InsertSecret(p) PROVE SecretCount'
  <2>1. /\ secrets' = secrets + 1
        /\ SecretPending' \in SUBSET SecretPending
        /\ p \in SecretPending \ SecretPending'
    BY <1>1, <1>4 DEF InsertSecret, Statement, Goto, GotoAt, Move, At,
                      SecretPending
  <2>2. Cardinality(SecretPending') + 1 <= Cardinality(SecretPending)
        /\ Cardinality(SecretPending) \in Nat /\ Cardinality(SecretPending') \in Nat
    BY <1>2, <2>1, ProcsAssumption, Fewer
  <2> QED
    BY <1>1, <2>1, <2>2 DEF SecretCount
<1>5. CASE ~ \E p \in Procs : ReadSecret(p) \/ InsertSecret(p)
  <2>1. secrets' = secrets /\ SecretPending' \in SUBSET SecretPending
    <3>1. CASE UNCHANGED vars
      BY <3>1 DEF vars, database, SecretPending, At
    <3>2. CASE Next
      BY <1>1, <1>5, <3>2 DEF Next, BootStep, Boot, Connect, Migrate, ReadUser,
         InsertUser, LoadingFails, ReadAny, InsertAdmin, ReadRegistries,
         InsertSeed, Listen, QueryFails, Crash, Outage, Recover, RemoveUser,
         RemoveRegistry, Statement, Goto, GotoAt, Move, CutLoop, At,
         SecretPending, database
    <3> QED
      BY <3>1, <3>2
  <2> QED
    BY <1>1, <1>2, <2>1, ProcsAssumption, Fewer DEF SecretCount
<1> QED
  BY <1>3, <1>4, <1>5

(* The same of each built-in registry: the inserts a process has not got to *)
(* are pending from the moment it finds the table empty.                    *)
LEMMA SeedCountStep == IInv /\ [Next]_vars => SeedCount'
<1> SUFFICES ASSUME IInv, [Next]_vars, NEW s \in 1..Seeds
             PROVE  registries'[s] + Cardinality(SeedPending(s)')
                      <= Cardinality(Procs)
  BY DEF SeedCount
<1> USE CountType, SeedsAssumption
<1>1. /\ TypeOK /\ registries \in [1..Seeds -> Nat]
      /\ pc \in [Procs -> Steps] /\ index \in [Procs -> Nat \ {0}]
      /\ registries[s] + Cardinality(SeedPending(s)) <= Cardinality(Procs)
  BY DEF IInv, TypeOK, SeedCount
<1>2. SeedPending(s) \in SUBSET Procs /\ SeedPending(s)' \in SUBSET Procs
  BY DEF SeedPending
<1>3. CASE /\ registries'[s] <= registries[s] /\ registries'[s] \in Nat
           /\ SeedPending(s)' \in SUBSET SeedPending(s)
  <2>1. /\ Cardinality(SeedPending(s)') <= Cardinality(SeedPending(s))
        /\ Cardinality(SeedPending(s)) \in Nat
        /\ Cardinality(SeedPending(s)') \in Nat
    BY <1>2, <1>3, ProcsAssumption, Fewer
  <2>2. registries[s] \in Nat
    BY <1>1
  <2> HIDE DEF SeedPending
  <2> QED
    BY <1>1, <1>3, <2>1, <2>2
<1>4. CASE \E p \in Procs : ReadRegistries(p)
  <2>1. CASE NoRegistries
    <3>1. registries'[s] = 0
      BY <1>4, <2>1 DEF ReadRegistries, NoRegistries, database
    <3> QED
      BY <1>2, <3>1, ProcsAssumption, Fewer
  <2>2. CASE ~NoRegistries
    <3>1. registries' = registries /\ SeedPending(s)' \in SUBSET SeedPending(s)
      BY <1>1, <1>4, <2>2 DEF ReadRegistries, Statement, Goto, GotoAt, Move, At,
                              SeedPending, database
    <3> QED
      BY <1>1, <1>3, <3>1
  <2> QED
    BY <2>1, <2>2
<1>5. ASSUME NEW p \in Procs, InsertSeed(p)
      PROVE  registries'[s] + Cardinality(SeedPending(s)') <= Cardinality(Procs)
  <2>1. /\ index[p] \in 1..Seeds /\ pc[p] = "insertSeed"
        /\ registries' = [registries EXCEPT ![index[p]] = @ + 1]
    BY <1>1, <1>5 DEF InsertSeed, Statement, TypeOK, At
  <2>2. /\ SeedPending(s)' \in SUBSET SeedPending(s)
        /\ s = index[p] => p \in SeedPending(s) \ SeedPending(s)'
    <3>1. /\ \A q \in Procs \ {p} : pc'[q] = pc[q] /\ index'[q] = index[q]
          /\ \/ pc'[p] = "influx"
             \/ pc'[p] = "insertSeed" /\ index'[p] = index[p] + 1
      BY <1>1, <1>5 DEF InsertSeed, Goto, GotoAt, Move
    <3>2. \A q \in SeedPending(s)' : q \in SeedPending(s)
      BY <1>1, <2>1, <3>1 DEF SeedPending, At
    <3>3. s = index[p] => p \in SeedPending(s) /\ p \notin SeedPending(s)'
      BY <1>1, <2>1, <3>1 DEF SeedPending, At
    <3> QED
      BY <3>2, <3>3
  <2>3. CASE s = index[p]
    <3>1. registries'[s] = registries[s] + 1
      BY <1>1, <2>1, <2>3
    <3>2. /\ Cardinality(SeedPending(s)') + 1 <= Cardinality(SeedPending(s))
          /\ Cardinality(SeedPending(s)) \in Nat
          /\ Cardinality(SeedPending(s)') \in Nat
      BY <1>2, <2>2, <2>3, ProcsAssumption, Fewer
    <3> QED
      BY <1>1, <3>1, <3>2
  <2>4. CASE s # index[p]
    <3>1. registries'[s] = registries[s]
      BY <1>1, <2>1, <2>4
    <3> QED
      BY <1>1, <1>3, <2>2, <3>1
  <2> QED
    BY <2>3, <2>4
<1>6. ASSUME NEW p \in Procs, RemoveRegistry(p)
      PROVE  registries'[s] + Cardinality(SeedPending(s)') <= Cardinality(Procs)
  <2>1. SeedPending(s)' = SeedPending(s)
    BY <1>6 DEF RemoveRegistry, SeedPending, At
  <2>2. registries'[s] <= registries[s] /\ registries'[s] \in Nat
    BY <1>1, <1>6 DEF RemoveRegistry
  <2> QED
    BY <1>3, <2>1, <2>2
<1>7. CASE ~ \E p \in Procs : ReadRegistries(p) \/ InsertSeed(p) \/ RemoveRegistry(p)
  <2>1. registries' = registries /\ SeedPending(s)' \in SUBSET SeedPending(s)
    <3>1. CASE UNCHANGED vars
      BY <3>1 DEF vars, database, SeedPending, At
    <3>2. CASE Next
      BY <1>1, <1>7, <3>2 DEF Next, BootStep, Boot, Connect, Migrate, ReadSecret,
         InsertSecret, ReadUser, InsertUser, LoadingFails, ReadAny, InsertAdmin,
         Listen, QueryFails, Crash, Outage, Recover, RemoveUser, Statement,
         Goto, GotoAt, Move, CutLoop, At, SeedPending, database
    <3> QED
      BY <3>1, <3>2
  <2> QED
    BY <1>1, <1>3, <2>1
<1> QED
  BY <1>4, <1>5, <1>6, <1>7

-----------------------------------------------------------------------------

(* Users move between the table and the removed ones, and never get lost.   *)
LEMMA KnownGrows == TypeOK /\ [Next]_vars => Known \subseteq Known'
  BY DEF Known, Next, BootStep, Boot, Connect, Migrate, ReadSecret, InsertSecret,
         ReadUser, InsertUser, LoadingFails, ReadAny, InsertAdmin,
         ReadRegistries, InsertSeed, Listen, QueryFails, Crash, Outage, Recover,
         RemoveUser, RemoveRegistry, database, vars

(* The loop ends at the end of the list, or the process is marked.          *)
LEMMA LoopStep == IInv /\ [Next]_vars => LoopProgress'
<1> SUFFICES ASSUME IInv, [Next]_vars, NEW q \in Procs \ skipped'
             PROVE  /\ pc'[q] \in Loading =>
                         \A k \in 1..Len(Configured) :
                           k < index'[q] => Configured[k] \in Known'
                    /\ pc'[q] \in Loaded => ConfiguredNames \subseteq Known'
  BY DEF LoopProgress, Known
<1> USE LengthType DEF Loading, Loaded
<1>1. /\ TypeOK /\ LoopProgress /\ Known \subseteq Known'
      /\ pc \in [Procs -> Steps] /\ index \in [Procs -> Nat \ {0}]
  BY KnownGrows DEF IInv, TypeOK
<1>2. CASE pc'[q] = pc[q] /\ index'[q] = index[q] /\ q \notin skipped
  BY <1>1, <1>2 DEF LoopProgress
<1>3. CASE pc'[q] \in {"down", "connect", "migrate", "readSecret", "insertSecret"}
  BY <1>3
<1>4. CASE pc'[q] = "readUser" /\ index'[q] = 1
  BY <1>4
<1>5. CASE pc[q] \in Loaded /\ q \notin skipped
  <2>1. pc'[q] \notin Loading
    BY <1>1, <1>5 DEF Next, BootStep, Boot, Connect, Migrate, ReadSecret,
       InsertSecret, ReadUser, InsertUser, LoadingFails, ReadAny, InsertAdmin,
       ReadRegistries, InsertSeed, Listen, QueryFails, Crash, Outage, Recover,
       RemoveUser, RemoveRegistry, Statement, Goto, GotoAt, Move, CutLoop, At,
       vars
  <2> QED
    BY <1>1, <1>5, <2>1 DEF LoopProgress
<1>6. CASE ReadUser(q) \/ InsertUser(q)
  <2>1. q \notin skipped /\ pc[q] \in Loading
    BY <1>6 DEF ReadUser, InsertUser, Goto, GotoAt, CutLoop, Statement, At
  <2>2. \A k \in 1..Len(Configured) : k < index[q] => Configured[k] \in Known'
    BY <1>1, <2>1 DEF LoopProgress
  <2>3. CASE ReadUser(q) /\ index[q] > Len(Configured)
    <3>1. ConfiguredNames \subseteq Known'
      BY <1>1, <2>2, <2>3 DEF ConfiguredNames
    <3>2. pc'[q] = "readAny"
      BY <1>1, <2>3 DEF ReadUser, Goto, GotoAt, Move
    <3> QED
      BY <3>1, <3>2
  <2>4. CASE ReadUser(q) /\ ~(index[q] > Len(Configured))
    <3>1. \/ /\ pc'[q] = "readUser" /\ index'[q] = index[q] + 1
             /\ Configured[index[q]] \in Known
          \/ pc'[q] = "insertUser" /\ index'[q] = index[q]
      BY <1>1, <2>4 DEF ReadUser, GotoAt, Move, Known
    <3> QED
      BY <1>1, <2>2, <3>1
  <2>5. CASE InsertUser(q)
    <3>1. /\ pc'[q] = "readUser" /\ index'[q] = index[q] + 1
          /\ Configured[index[q]] \in users'
      BY <1>1, <2>5 DEF InsertUser, GotoAt, CutLoop, Move
    <3>2. Configured[index[q]] \in Known'
      BY <3>1 DEF Known
    <3> QED
      BY <1>1, <2>2, <3>1, <3>2
  <2> QED
    BY <1>6, <2>3, <2>4, <2>5
<1> QED
  <2>1. \/ pc'[q] = pc[q] /\ index'[q] = index[q] /\ q \notin skipped
        \/ pc'[q] \in {"down", "connect", "migrate", "readSecret", "insertSecret"}
        \/ pc'[q] = "readUser" /\ index'[q] = 1
        \/ pc[q] \in Loaded /\ q \notin skipped
        \/ ReadUser(q) \/ InsertUser(q)
    BY <1>1 DEF Next, BootStep, Boot, Connect, Migrate, ReadSecret,
       InsertSecret, ReadUser, InsertUser, LoadingFails, ReadAny, InsertAdmin,
       ReadRegistries, InsertSeed, Listen, QueryFails, Crash, Outage, Recover,
       RemoveUser, RemoveRegistry, Statement, Goto, GotoAt, Move, CutLoop, At,
       vars
  <2> QED
    BY <2>1, <1>2, <1>3, <1>4, <1>5, <1>6

-----------------------------------------------------------------------------

(* The inductive invariant holds in every reachable state.                  *)
THEOREM Invariance == Spec => []IInv
<1>1. IInv /\ [Next]_vars => IInv'
  BY TypeStep, SecretStep, SecretCountStep, SeedCountStep, LoopStep DEF IInv
<1> QED
  BY Initially, <1>1, PTL DEF Spec

(* The steps and the list positions stay in range.                          *)
THEOREM TypeCorrect == Spec => []TypeOK
  BY Invariance, PTL DEF IInv

(* No process serves requests without a signing secret, however many boot.  *)
THEOREM SecretBeforeServing == Spec => []ServesWithSecret
<1>1. IInv => ServesWithSecret
  BY DEF IInv, SecretReady, BeforeSecret, ServesWithSecret, At
<1> QED
  BY Invariance, <1>1, PTL

(* No more secrets than processes, whatever crashes, boots and fails.       *)
THEOREM OneSecretEach == Spec => []SecretsBounded
<1>1. IInv => SecretsBounded
  <2> SUFFICES ASSUME IInv PROVE SecretsBounded
    OBVIOUS
  <2>1. secrets \in Nat /\ SecretCount /\ SecretPending \in SUBSET Procs
    BY DEF IInv, TypeOK, SecretPending
  <2> QED
    BY <2>1, ProcsAssumption, Fewer, CountType DEF SecretCount, SecretsBounded
<1> QED
  BY Invariance, <1>1, PTL

(* A single replica, which may crash and boot again, keeps the singleton.   *)
THEOREM OneReplicaOneSecret ==
  ASSUME Cardinality(Procs) = 1 PROVE Spec => []SingletonSecret
<1>1. SecretsBounded => SingletonSecret
  BY DEF SecretsBounded, SingletonSecret
<1> QED
  BY OneSecretEach, <1>1, PTL

(* No more copies of a built-in registry than processes.                    *)
THEOREM OneSeedEach == Spec => []SeedsBounded
<1>1. IInv => SeedsBounded
  <2> SUFFICES ASSUME IInv, NEW s \in 1..Seeds
               PROVE  registries[s] <= Cardinality(Procs)
    BY DEF SeedsBounded
  <2>1. registries[s] + Cardinality(SeedPending(s)) <= Cardinality(Procs)
    BY DEF IInv, SeedCount
  <2>2. registries[s] \in Nat /\ SeedPending(s) \in SUBSET Procs
    BY DEF IInv, TypeOK, SeedPending
  <2> QED
    BY <2>1, <2>2, ProcsAssumption, Fewer, CountType
<1> QED
  BY Invariance, <1>1, PTL

(* Unless an error was dropped, serving means that users.yaml was loaded.   *)
THEOREM ConfiguredUsersLoaded == Spec => []ConfiguredUsersExist
<1>1. IInv => ConfiguredUsersExist
  BY DEF IInv, LoopProgress, Loaded, Known, ConfiguredUsersExist, At
<1> QED
  BY Invariance, <1>1, PTL
=============================================================================
