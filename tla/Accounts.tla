------------------------------ MODULE Accounts ------------------------------
(***************************************************************************)
(* The users table: password logins, password changes, OIDC provisioning,  *)
(* creation and removal of accounts.  Each handler reads a row, decides,   *)
(* and writes by username in a later statement without a transaction, so   *)
(* the handlers of several requests interleave between the two.            *)
(*                                                                         *)
(* Roles, profile fields and last_login_at are left out: every handler     *)
(* overwrites them without reading them.                                   *)
(***************************************************************************)
EXTENDS Naturals, FiniteSets

CONSTANTS
  Users,        (* usernames                                              *)
  Passwords,
  Unusable,     (* the random password of a provisioned account           *)
  LegacyUsers,  (* accounts imported with a SHA-256 password hash         *)
  Subs,         (* identities of the OIDC provider                        *)
  NoSub, NoUser,
  Requests,     (* slots for requests in flight                           *)
  Workload      (* the operations clients call                            *)

Operations == {"login", "changePassword", "createUser", "removeUser", "oidc"}

ASSUME UsersAssumption == LegacyUsers \subseteq Users /\ NoUser \notin Users
ASSUME SubsAssumption == NoSub \notin Subs
ASSUME PasswordsAssumption == Unusable \notin Passwords
ASSUME WorkloadAssumption == Workload \subseteq Operations
ASSUME RequestsAssumption == IsFiniteSet(Requests)

VARIABLES
  users,    (* the table: username -> row                                 *)
  idpName,  (* preferred_username of each identity at the provider        *)
  req,      (* requests in flight                                         *)
  haunted,  (* history: names freed while a write of the password was due *)
  peak      (* history: the most callbacks of an identity ever under way  *)

history == <<haunted, peak>>
vars == <<users, idpName, req, history>>

(* legacy: the hash is SHA-256; provisioned (history): made by upsertOidcUser *)
Row == [password : Passwords \union {Unusable}, legacy : BOOLEAN,
        sub : Subs \union {NoSub}, provisioned : BOOLEAN]
NoRow == [password |-> Unusable, legacy |-> FALSE, sub |-> NoSub,
          provisioned |-> TRUE, absent |-> TRUE]

Local(p, legacy) ==
  [password |-> p, legacy |-> legacy, sub |-> NoSub, provisioned |-> FALSE]

Steps == {"idle", "start", "upgrade", "issue", "setPassword", "insertUser",
          "byName", "link", "provision"}

Request == [pc : Steps, op : Operations, user : Users \union {NoUser},
            pw : Passwords \union {Unusable},
            next : Passwords \union {Unusable}, sub : Subs \union {NoSub}]

Exists(u) == users[u] # NoRow

Idle == [pc |-> "idle", op |-> "login", user |-> NoUser, pw |-> Unusable,
         next |-> Unusable, sub |-> NoSub]

InitialRows(u) ==
  IF u \in LegacyUsers THEN {Local(p, TRUE) : p \in Passwords}
                       ELSE {Local(p, FALSE) : p \in Passwords} \union {NoRow}

Init ==
  /\ users \in {t \in [Users -> UNION {InitialRows(u) : u \in Users}] :
                  \A u \in Users : t[u] \in InitialRows(u)}
  /\ idpName \in [Subs -> Users]
  /\ req = [r \in Requests |-> Idle]
  /\ haunted = {} /\ peak = [s \in Subs |-> 0]

-----------------------------------------------------------------------------

At(r, step) == req[r].pc = step
Handling(r, op) == At(r, "start") /\ req[r].op = op
Goto(r, step) == req' = [req EXCEPT ![r].pc = step]

Finish(r) == req' = [req EXCEPT ![r] = Idle]

(* UPDATE users ... WHERE username = u: no row, no effect.                  *)
UpdateRow(u, row) ==
  users' = IF Exists(u) THEN [users EXCEPT ![u] = row] ELSE users

WithPassword(row, p) == [row EXCEPT !.password = p, !.legacy = FALSE]

(* The requests that carry an identity: nothing keeps its callbacks apart.  *)
Calling(s) == {r \in Requests : ~At(r, "idle") /\ req[r].sub = s}

(* A client sends a request.  A callback carries the name the provider has  *)
(* for the identity at that moment.                                         *)
Arrive(r) ==
  /\ At(r, "idle")
  /\ \E op \in Workload \ {"oidc"}, u \in Users :
       \E p \in (IF op = "removeUser" THEN {Unusable} ELSE Passwords),
          q \in (IF op = "changePassword" THEN Passwords ELSE {Unusable}) :
         req' = [req EXCEPT ![r] =
                  [Idle EXCEPT !.pc = "start", !.op = op, !.user = u, !.pw = p,
                               !.next = q]]
  /\ UNCHANGED <<users, idpName, history>>

ArriveCallback(r) ==
  /\ At(r, "idle") /\ "oidc" \in Workload
  /\ \E s \in Subs :
       /\ req' = [req EXCEPT ![r] =
            [Idle EXCEPT !.pc = "start", !.op = "oidc", !.user = idpName[s],
                         !.sub = s]]
       /\ LET now == Cardinality(Calling(s)) + 1
          IN peak' = [peak EXCEPT ![s] = IF @ < now THEN now ELSE @]
  /\ UNCHANGED <<users, idpName, haunted>>

(* The provider renames an identity.                                        *)
Rename ==
  /\ "oidc" \in Workload
  /\ \E s \in Subs, u \in Users : idpName' = [idpName EXCEPT ![s] = u]
  /\ UNCHANGED <<users, req, history>>

-----------------------------------------------------------------------------
(* Password login: findAuthUser, verifyPassword, isSha256Digest.            *)

LoginReadUser(r) ==
  /\ Handling(r, "login")
  /\ LET row == users[req[r].user]
     IN  \/ row.password # req[r].pw /\ Finish(r)
         \/ row.password = req[r].pw /\ row.legacy /\ Goto(r, "upgrade")
         \/ row.password = req[r].pw /\ ~row.legacy /\ Goto(r, "issue")
  /\ UNCHANGED <<users, idpName, history>>

(* Mutant: the login answers without waiting for the upgrade.               *)
UpgradeHashSkipped(r) ==
  /\ At(r, "upgrade")
  /\ Goto(r, "issue")
  /\ UNCHANGED <<users, idpName, history>>

(* upgradePasswordHash: the hash of the password this login presented.      *)
UpgradeHash(r) ==
  /\ At(r, "upgrade")
  /\ UpdateRow(req[r].user, WithPassword(users[req[r].user], req[r].pw))
  /\ Goto(r, "issue")
  /\ UNCHANGED <<idpName, history>>

(* touchLastLogin, then the session is issued.                              *)
IssueSession(r) ==
  /\ At(r, "issue")
  /\ Finish(r)
  /\ UNCHANGED <<users, idpName, history>>

-----------------------------------------------------------------------------
(* changeUserPassword.                                                      *)

ChangeReadUser(r) ==
  /\ Handling(r, "changePassword")
  /\ IF users[req[r].user].password = req[r].pw
       THEN Goto(r, "setPassword")
       ELSE Finish(r)
  /\ UNCHANGED <<users, idpName, history>>

SetPassword(r) ==
  /\ At(r, "setPassword")
  /\ UpdateRow(req[r].user, WithPassword(users[req[r].user], req[r].next))
  /\ Finish(r)
  /\ UNCHANGED <<idpName, history>>

-----------------------------------------------------------------------------
(* createUser and removeUser.                                               *)

CreateReadUser(r) ==
  /\ Handling(r, "createUser")
  /\ IF Exists(req[r].user) THEN Finish(r) ELSE Goto(r, "insertUser")
  /\ UNCHANGED <<users, idpName, history>>

(* Mutant: the INSERT leaves the OIDC columns out of the row.               *)
InsertUserBare(r) ==
  /\ At(r, "insertUser")
  /\ users' = IF Exists(req[r].user) THEN users
              ELSE [users EXCEPT ![req[r].user] =
                      [password |-> req[r].pw, legacy |-> FALSE]]
  /\ Finish(r)
  /\ UNCHANGED <<idpName, history>>

(* users.username is UNIQUE: the INSERT fails if the row has come meanwhile. *)
InsertUser(r) ==
  /\ At(r, "insertUser")
  /\ users' = IF Exists(req[r].user) THEN users
              ELSE [users EXCEPT ![req[r].user] = Local(req[r].pw, FALSE)]
  /\ Finish(r)
  /\ UNCHANGED <<idpName, history>>

(* A request is about to write the password of the account it read.         *)
PasswordDue(u) ==
  \E q \in Requests : req[q].pc \in {"upgrade", "setPassword"} /\ req[q].user = u

RemoveUser(r) ==
  /\ Handling(r, "removeUser")
  /\ users' = [users EXCEPT ![req[r].user] = NoRow]
  /\ haunted' = haunted \union {u \in {req[r].user} : PasswordDue(u)}
  /\ Finish(r)
  /\ UNCHANGED <<idpName, peak>>

-----------------------------------------------------------------------------
(* upsertOidcUser.                                                          *)

Linked(s) == {u \in Users : Exists(u) /\ users[u].sub = s}

(* Mutant: accounts are matched by name alone.                              *)
OidcReadBySubNever(r) ==
  /\ Handling(r, "oidc")
  /\ Goto(r, "byName")
  /\ UNCHANGED <<users, idpName, history>>

(* A linked account is only touched: role, e-mail, last login.              *)
OidcReadBySub(r) ==
  /\ Handling(r, "oidc")
  /\ IF Linked(req[r].sub) # {} THEN Finish(r) ELSE Goto(r, "byName")
  /\ UNCHANGED <<users, idpName, history>>

OidcReadByName(r) ==
  /\ At(r, "byName")
  /\ Goto(r, IF Exists(req[r].user) THEN "link" ELSE "provision")
  /\ UNCHANGED <<users, idpName, history>>

LinkUser(r) ==
  /\ At(r, "link")
  /\ UpdateRow(req[r].user, [users[req[r].user] EXCEPT !.sub = req[r].sub])
  /\ Finish(r)
  /\ UNCHANGED <<idpName, history>>

(* Mutant: the new account gets a password that somebody may know.          *)
ProvisionUserGuessable(r) ==
  /\ At(r, "provision")
  /\ users' = IF Exists(req[r].user) THEN users
              ELSE [users EXCEPT ![req[r].user] =
                      [Local(CHOOSE p \in Passwords : TRUE, FALSE)
                         EXCEPT !.sub = req[r].sub, !.provisioned = TRUE]]
  /\ Finish(r)
  /\ UNCHANGED <<idpName, history>>

(* The INSERT of a new account; a duplicate username fails the callback.    *)
ProvisionUser(r) ==
  /\ At(r, "provision")
  /\ users' = IF Exists(req[r].user) THEN users
              ELSE [users EXCEPT ![req[r].user] =
                      [Local(Unusable, FALSE)
                         EXCEPT !.sub = req[r].sub, !.provisioned = TRUE]]
  /\ Finish(r)
  /\ UNCHANGED <<idpName, history>>

-----------------------------------------------------------------------------

Handler(r) ==
  \/ LoginReadUser(r) \/ UpgradeHash(r) \/ IssueSession(r)
  \/ ChangeReadUser(r) \/ SetPassword(r)
  \/ CreateReadUser(r) \/ InsertUser(r) \/ RemoveUser(r)
  \/ OidcReadBySub(r) \/ OidcReadByName(r) \/ LinkUser(r) \/ ProvisionUser(r)

Next ==
  Rename \/ \E r \in Requests : Arrive(r) \/ ArriveCallback(r) \/ Handler(r)

Spec == Init /\ [][Next]_vars

-----------------------------------------------------------------------------

TypeOK ==
  /\ users \in [Users -> Row \union {NoRow}]
  /\ idpName \in [Subs -> Users]
  /\ req \in [Requests -> Request]
  /\ haunted \subseteq Users /\ peak \in [Subs -> Nat]

(* "Auto-upgrades a legacy SHA-256 password hash to pbkdf2 on successful    *)
(* login": when a login issues its session, whatever ran beside it, the     *)
(* account no longer has a legacy hash.                                     *)
LoginLeavesNoLegacyHash ==
  \A r \in Requests : At(r, "issue") => ~users[req[r].user].legacy

(* No index keeps an identity on one account (db/migrations/002_oidc.ts):   *)
(* callbacks that overlap may each link one, under the names the provider   *)
(* had for the identity.  However often it is renamed, and accounts come    *)
(* and go, it never has more accounts than callbacks of it were ever under  *)
(* way at once: one, if they came one by one.                               *)
AccountsPerIdentity == \A s \in Subs : Cardinality(Linked(s)) <= peak[s]

(* "creates a new user with an unusable random password -- OIDC users never *)
(* log in by password" (store/users.ts:154).  An account gets a password    *)
(* that somebody knows only from a write that was due when an earlier       *)
(* account of that name was removed.                                        *)
ProvisionedStayPasswordless ==
  \A u \in Users \ haunted :
    Exists(u) /\ users[u].provisioned => users[u].password = Unusable

IdentitiesSound == AccountsPerIdentity /\ ProvisionedStayPasswordless

(* Upgrading the hash of a password is not changing the password            *)
(* (store/users.ts:233).                                                    *)
UpgradeKeepsPassword ==
  [][\A r \in Requests :
       UpgradeHash(r) =>
         users'[req[r].user].password = users[req[r].user].password]_vars
=============================================================================
