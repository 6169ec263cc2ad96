------------------------------ MODULE Sessions ------------------------------
(***************************************************************************)
(* Session and API-token authentication of the swarmbot API.               *)
(*                                                                         *)
(* Every HTTP request first runs optionalJwtMiddleware, which awaits the   *)
(* database up to three times before the handler starts, and handlers      *)
(* await it again.  Requests interleave at every await (and, with several  *)
(* replicas on one Postgres, at every statement), so an action here is the *)
(* code between two awaits.                                                *)
(*                                                                         *)
(* A token is known by its jti.  "ended" is a history variable: the jtis   *)
(* of sessions whose logout reached the database and of API tokens that    *)
(* were replaced, removed or lost with their account.                      *)
(***************************************************************************)
EXTENDS Integers, FiniteSets

CONSTANTS
  Users,      (* usernames                                                *)
  Admins,     (* the usernames whose role is admin                        *)
  Jtis,       (* the jtis randomUUID may return, never the same one twice *)
  Requests,   (* slots for requests in flight                             *)
  Workload,   (* the operations clients call                              *)
  NoUser, NoJti,
  Life,       (* DAY_SEC: lifetime of a session token                     *)
  Ttl,        (* TTL_MS: lifetime of a revocation                         *)
  ApiLife,    (* apiTokenExpiryDays; 0 is "never"                         *)
  MaxTime     (* bound on the clock                                       *)

Operations == {"query", "login", "logout", "postLogout", "apiTokenGenerate",
               "apiTokenRemove", "createUser", "removeUser"}

ASSUME UsersAssumption == Admins \subseteq Users /\ NoUser \notin Users
ASSUME JtisAssumption == NoJti \notin Jtis
ASSUME WorkloadAssumption == Workload \subseteq Operations
ASSUME TimesAssumption ==
  Life \in Nat \ {0} /\ Ttl \in Nat /\ ApiLife \in Nat /\ MaxTime \in Nat

(* The TTL of the blacklist is meant to cover the life of a session.        *)
ASSUME TtlCoversLife == Life <= Ttl

VARIABLES
  now,          (* Date.now()                                             *)
  accounts,     (* usernames that have a row in users                     *)
  apiTokenJti,  (* column users.api_token_jti                             *)
  tokens,       (* the JWTs clients hold, by jti                          *)
  revokedJti,   (* table revoked_jti: jti -> expires_at                   *)
  req,          (* requests in flight                                     *)
  ended         (* history: the tokens that must no longer work           *)

vars == <<now, accounts, apiTokenJti, tokens, revokedJti, req, ended>>

Never == 0      (* an exp, or expires_at, that is null                    *)
NoToken == [iss |-> "none", user |-> NoUser, exp |-> Never]
Token == [iss : {"swarmbot", "swarmbot-api"}, user : Users, exp : Nat]

Steps == {"idle", "verify", "apiCheck", "isRevoked", "purge", "findUser",
          "handler", "insertRevocation", "issueSession", "setApiToken",
          "insertUser"}

Request == [pc : Steps, op : Operations, jti : Jtis \union {NoJti},
            target : Users \union {NoUser}, at : Nat, stale : BOOLEAN,
            authed : BOOLEAN, new : Jtis \union {NoJti}, until : Nat]

Idle == [pc |-> "idle", op |-> "query", jti |-> NoJti, target |-> NoUser,
         at |-> 0, stale |-> FALSE, authed |-> FALSE, new |-> NoJti,
         until |-> 0]

Init ==
  /\ now = 1
  /\ accounts = Users
  /\ apiTokenJti = [u \in Users |-> NoJti]
  /\ tokens = [j \in Jtis |-> NoToken]
  /\ revokedJti = [j \in Jtis |-> Never]
  /\ req = [r \in Requests |-> Idle]
  /\ ended = {}

-----------------------------------------------------------------------------
(* Helpers.                                                                 *)

Fresh(j) == tokens[j] = NoToken /\ \A r \in Requests : req[r].new # j

(* verifyJwt: the signature is genuine and exp, if any, not reached.        *)
Unexpired(tok) == tok.exp = Never \/ now < tok.exp

(* Mutants: a TTL no longer than the session, and no TTL at all.            *)
RevocationExpiryAsLife(t) == t + Life
RevocationExpiryAtOnce(t) == t

(* revokeJti's expires_at and generateJwt's default exp.                    *)
RevocationExpiry(t) == t + Ttl
SessionExpiry(t) == t + Life
ApiTokenExpiry(t) == IF ApiLife > 0 THEN t + ApiLife ELSE Never

Holder(r) == tokens[req[r].jti].user       (* claims.usr.username           *)

At(r, step) == req[r].pc = step
Goto(r, step) == req' = [req EXCEPT ![r].pc = step]
Finish(r) == req' = [req EXCEPT ![r] = Idle]
Anonymous(r) == Goto(r, "handler")

database == <<accounts, apiTokenJti, revokedJti>>

(* A token that its account no longer names is over.                        *)
Retire(u) == ended \union (IF apiTokenJti[u] = NoJti THEN {}
                                                     ELSE {apiTokenJti[u]})

-----------------------------------------------------------------------------
(* optionalJwtMiddleware.                                                   *)

NeedsTarget == {"login", "createUser", "removeUser"}
NeedsJti == {"login", "apiTokenGenerate"}

Issued == {j \in Jtis : tokens[j] # NoToken}

(* A client sends a request, with one of the tokens issued so far or none.  *)
(* The jti randomUUID will return to it is set aside here: a request that   *)
(* issues a token arrives only while Jtis, the bound on tokens, has one left.*)
Arrive(r) ==
  /\ At(r, "idle")
  /\ \E op \in Workload, j \in Issued \union {NoJti} :
       \E u \in (IF op \in NeedsTarget THEN Users ELSE {NoUser}),
          n \in (IF op \in NeedsJti THEN {k \in Jtis : Fresh(k)} ELSE {NoJti}) :
         req' = [req EXCEPT ![r] =
                  [pc |-> IF j = NoJti THEN "handler" ELSE "verify",
                   op |-> op, jti |-> j, target |-> u, new |-> n, at |-> now,
                   stale |-> j \in ended, authed |-> FALSE, until |-> 0]]
  /\ UNCHANGED <<now, database, tokens, ended>>

(* The application secret has arrived: verifyJwt, then branch on iss.       *)
Verify(r) ==
  /\ At(r, "verify")
  /\ LET tok == tokens[req[r].jti]
     IN  \/ ~Unexpired(tok) /\ Anonymous(r)
         \/ Unexpired(tok) /\ tok.iss = "swarmbot-api" /\ Goto(r, "apiCheck")
         \/ Unexpired(tok) /\ tok.iss = "swarmbot" /\ Goto(r, "isRevoked")
  /\ UNCHANGED <<now, database, tokens, ended>>

(* Mutant: any API token of an account that has one is accepted.            *)
CheckApiTokenOfAccount(r) ==
  /\ At(r, "apiCheck")
  /\ IF Holder(r) \in accounts /\ apiTokenJti[Holder(r)] # NoJti
       THEN Goto(r, "findUser")
       ELSE Anonymous(r)
  /\ UNCHANGED <<now, database, tokens, ended>>

(* An API token must be the one its account names now.                      *)
CheckApiToken(r) ==
  /\ At(r, "apiCheck")
  /\ IF Holder(r) \in accounts /\ apiTokenJti[Holder(r)] = req[r].jti
       THEN Goto(r, "findUser")
       ELSE Anonymous(r)
  /\ UNCHANGED <<now, database, tokens, ended>>

(* Mutant: the comparison of expires_at with the clock is reversed.         *)
CheckRevokedReversed(r) ==
  /\ At(r, "isRevoked")
  /\ LET expiresAt == revokedJti[req[r].jti]
     IN  \/ expiresAt = Never /\ Goto(r, "findUser")
         \/ expiresAt # Never /\ expiresAt >= now /\ Goto(r, "purge")
         \/ expiresAt # Never /\ expiresAt < now /\ Anonymous(r)
  /\ UNCHANGED <<now, database, tokens, ended>>

(* isRevoked reads the row and compares expires_at with the clock.          *)
CheckRevoked(r) ==
  /\ At(r, "isRevoked")
  /\ LET expiresAt == revokedJti[req[r].jti]
     IN  \/ expiresAt = Never /\ Goto(r, "findUser")
         \/ expiresAt # Never /\ expiresAt <= now /\ Goto(r, "purge")
         \/ expiresAt # Never /\ expiresAt > now /\ Anonymous(r)
  /\ UNCHANGED <<now, database, tokens, ended>>

(* ... and deletes a row it found expired.                                  *)
PurgeRevoked(r) ==
  /\ At(r, "purge")
  /\ revokedJti' = [revokedJti EXCEPT ![req[r].jti] = Never]
  /\ Goto(r, "findUser")
  /\ UNCHANGED <<now, accounts, apiTokenJti, tokens, ended>>

FindUser(r) ==
  /\ At(r, "findUser")
  /\ req' = [req EXCEPT ![r].pc = "handler",
                        ![r].authed = Holder(r) \in accounts]
  /\ UNCHANGED <<now, database, tokens, ended>>

-----------------------------------------------------------------------------
(* Handlers.                                                                *)

AdminOnly == {"createUser", "removeUser"}
Guarded == {"query", "apiTokenGenerate", "apiTokenRemove"} \union AdminOnly

Handling(r, op) == At(r, "handler") /\ req[r].op = op

Permitted(r) == /\ req[r].authed
                /\ req[r].op \in AdminOnly => Holder(r) \in Admins

(* requireUser or requireAdmin throws.                                      *)
Refuse(r) ==
  /\ At(r, "handler") /\ req[r].op \in Guarded
  /\ ~Permitted(r)
  /\ Finish(r)
  /\ UNCHANGED <<now, database, tokens, ended>>

AnswerQuery(r) ==
  /\ Handling(r, "query") /\ Permitted(r)
  /\ Finish(r)
  /\ UNCHANGED <<now, database, tokens, ended>>

(* findAuthUser and verifyPassword: the password may be right or wrong.     *)
LoginReadUser(r) ==
  /\ Handling(r, "login")
  /\ \/ Finish(r)
     \/ req[r].target \in accounts /\ Goto(r, "issueSession")
  /\ UNCHANGED <<now, database, tokens, ended>>

(* Mutant: the session is signed with an issuer nobody checks.              *)
IssueSessionOtherIssuer(r) ==
  /\ At(r, "issueSession")
  /\ tokens' = [tokens EXCEPT ![req[r].new] =
                  [iss |-> "swarmbot-login", user |-> req[r].target,
                   exp |-> SessionExpiry(now)]]
  /\ Finish(r)
  /\ UNCHANGED <<now, database, ended>>

(* The secret has arrived: generateJwt and answer.                          *)
IssueSession(r) ==
  /\ At(r, "issueSession")
  /\ tokens' = [tokens EXCEPT ![req[r].new] =
                  [iss |-> "swarmbot", user |-> req[r].target,
                   exp |-> SessionExpiry(now)]]
  /\ Finish(r)
  /\ UNCHANGED <<now, database, ended>>

(* revokeJti reads the clock when it is called; its INSERT lands later.     *)
BeginRevoke(r) ==
  req' = [req EXCEPT ![r].pc = "insertRevocation",
                     ![r].until = RevocationExpiry(now)]

(* The GraphQL logout revokes the session the middleware has accepted.      *)
Logout(r) ==
  /\ Handling(r, "logout")
  /\ IF req[r].authed /\ tokens[req[r].jti].iss = "swarmbot"
       THEN BeginRevoke(r)
       ELSE Finish(r)
  /\ UNCHANGED <<now, database, tokens, ended>>

(* POST /logout verifies the token again, whatever the middleware decided.  *)
PostLogout(r) ==
  /\ Handling(r, "postLogout")
  /\ IF /\ req[r].jti # NoJti
        /\ Unexpired(tokens[req[r].jti])
        /\ tokens[req[r].jti].iss = "swarmbot"
       THEN BeginRevoke(r)
       ELSE Finish(r)
  /\ UNCHANGED <<now, database, tokens, ended>>

(* INSERT ... ON CONFLICT DO NOTHING: an existing row keeps its expires_at. *)
InsertRevocation(r) ==
  /\ At(r, "insertRevocation")
  /\ revokedJti' = [revokedJti EXCEPT ![req[r].jti] =
                      IF @ = Never THEN req[r].until ELSE @]
  /\ ended' = ended \union {req[r].jti}
  /\ Finish(r)
  /\ UNCHANGED <<now, accounts, apiTokenJti, tokens>>

(* apiTokenGenerate finds the account and computes exp.                     *)
GenerateApiToken(r) ==
  /\ Handling(r, "apiTokenGenerate") /\ Permitted(r)
  /\ \/ Holder(r) \notin accounts /\ Finish(r)
     \/ /\ Holder(r) \in accounts
        /\ req' = [req EXCEPT ![r].pc = "setApiToken",
                              ![r].until = ApiTokenExpiry(now)]
  /\ UNCHANGED <<now, database, tokens, ended>>

RemoveApiToken(r) ==
  /\ Handling(r, "apiTokenRemove") /\ Permitted(r)
  /\ IF Holder(r) \in accounts THEN Goto(r, "setApiToken") ELSE Finish(r)
  /\ UNCHANGED <<now, database, tokens, ended>>

(* setApiToken: UPDATE by username, no row if the account went meanwhile.   *)
(* apiTokenGenerate hands its token out once the UPDATE is done.            *)
SetApiToken(r) ==
  /\ At(r, "setApiToken")
  /\ LET u == Holder(r)
         j == req[r].new
     IN  /\ IF u \in accounts
              THEN /\ apiTokenJti' = [apiTokenJti EXCEPT ![u] = j]
                   /\ ended' = Retire(u)
              ELSE UNCHANGED <<apiTokenJti, ended>>
         /\ tokens' = IF j = NoJti THEN tokens
                      ELSE [tokens EXCEPT ![j] =
                              [iss |-> "swarmbot-api", user |-> u,
                               exp |-> req[r].until]]
  /\ Finish(r)
  /\ UNCHANGED <<now, accounts, revokedJti>>

(* createUser looks for a duplicate, then inserts; users.username is UNIQUE.*)
CreateUser(r) ==
  /\ Handling(r, "createUser") /\ Permitted(r)
  /\ IF req[r].target \in accounts THEN Finish(r) ELSE Goto(r, "insertUser")
  /\ UNCHANGED <<now, database, tokens, ended>>

InsertUser(r) ==
  /\ At(r, "insertUser")
  /\ accounts' = accounts \union {req[r].target}
  /\ Finish(r)
  /\ UNCHANGED <<now, apiTokenJti, revokedJti, tokens, ended>>

(* removeUser deletes the row, and its API token with it.                   *)
RemoveUser(r) ==
  /\ Handling(r, "removeUser") /\ Permitted(r)
  /\ accounts' = accounts \ {req[r].target}
  /\ apiTokenJti' = [apiTokenJti EXCEPT ![req[r].target] = NoJti]
  /\ ended' = Retire(req[r].target)
  /\ Finish(r)
  /\ UNCHANGED <<now, revokedJti, tokens>>

-----------------------------------------------------------------------------

Tick ==
  /\ now < MaxTime
  /\ now' = now + 1
  /\ UNCHANGED <<database, tokens, req, ended>>

Middleware(r) ==
  Verify(r) \/ CheckApiToken(r) \/ CheckRevoked(r) \/ PurgeRevoked(r)
    \/ FindUser(r)

Handler(r) ==
  \/ Refuse(r) \/ AnswerQuery(r)
  \/ LoginReadUser(r) \/ IssueSession(r)
  \/ Logout(r) \/ PostLogout(r) \/ InsertRevocation(r)
  \/ GenerateApiToken(r) \/ RemoveApiToken(r) \/ SetApiToken(r)
  \/ CreateUser(r) \/ InsertUser(r) \/ RemoveUser(r)

Next == Tick \/ \E r \in Requests : Arrive(r) \/ Middleware(r) \/ Handler(r)

(* The event loop resumes every request whose statement has returned; the   *)
(* clients and the clock owe nothing.                                       *)
Fairness == \A r \in Requests : WF_vars(Middleware(r) \/ Handler(r))

Spec == Init /\ [][Next]_vars
FairSpec == Spec /\ Fairness

-----------------------------------------------------------------------------

TypeOK ==
  /\ now \in Nat
  /\ accounts \subseteq Users
  /\ apiTokenJti \in [Users -> Jtis \union {NoJti}]
  /\ tokens \in [Jtis -> Token \union {NoToken}]
  /\ revokedJti \in [Jtis -> Nat]
  /\ req \in [Requests -> Request]
  /\ ended \subseteq Jtis

IsSession(j) == tokens[j].iss = "swarmbot"

(* A session is over once its logout is in revoked_jti: a request that      *)
(* arrives later is served as anonymous, unless that request itself hangs   *)
(* in the middleware for longer than the margin between the two lifetimes   *)
(* (25 h - 24 h): then its token expired after it was verified and its      *)
(* revocation may have been found expired (auth/blacklist.ts, isRevoked).   *)
LoggedOutStaysOut ==
  \A r \in Requests :
    req[r].authed /\ req[r].stale /\ IsSession(req[r].jti)
      => now - req[r].at > Ttl - Life

(* An API token that was replaced by a newer one, removed, or deleted with  *)
(* its account never authenticates a request that arrives afterwards, even  *)
(* when generations, removals and account deletions overlap and an account  *)
(* of the same name is created again (http/optional-jwt.ts).                *)
RetiredApiTokenStaysOut ==
  \A r \in Requests :
    req[r].authed /\ req[r].stale => IsSession(req[r].jti)

(* A revocation is deleted only when the token it revokes has expired: the  *)
(* lazy purge in isRevoked can never bring a session back.                  *)
PurgeOnlyExpired ==
  [][\A j \in Jtis :
       revokedJti[j] # Never /\ revokedJti'[j] = Never
         => tokens[j].exp <= now]_vars

(* Once a token is over, the requests already in flight with it drain and   *)
(* from some moment on nobody is served with it.                            *)
EndedTokensDrain ==
  \A j \in Jtis :
    j \in ended ~> [](\A r \in Requests : req[r].jti = j => ~req[r].authed)
=============================================================================
