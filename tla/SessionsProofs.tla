--------------------------- MODULE SessionsProofs ---------------------------
(***************************************************************************)
(* Proofs about Sessions, for every set of users, tokens and requests and  *)
(* every choice of the lifetimes with 0 < Life <= Ttl.                     *)
(***************************************************************************)
EXTENDS Sessions, TLAPS

Accepted(r) == req[r].pc = "findUser" \/ req[r].authed
Verified(r) == Accepted(r) \/ req[r].pc \in {"apiCheck", "isRevoked", "purge"}

(* The moment the revocation of a session may be forgotten.                 *)
Forgettable(j) == tokens[j].exp - Life + Ttl

(* What a request in flight holds fits the step it has reached.             *)
StepOK(r) ==
  /\ req[r].jti \in Jtis => req[r].jti \in Issued
  /\ Verified(r) => req[r].jti \in Jtis
  /\ req[r].pc \in {"verify", "insertRevocation"} => req[r].jti \in Jtis
  /\ req[r].pc \in {"isRevoked", "purge", "insertRevocation"}
       => IsSession(req[r].jti)
  /\ req[r].pc = "setApiToken" => req[r].authed
  /\ req[r].pc = "issueSession" => req[r].op = "login"
  /\ req[r].pc = "insertUser" => req[r].op = "createUser"
  /\ req[r].pc # "idle" /\ req[r].op \in NeedsTarget => req[r].target \in Users
  /\ req[r].pc # "idle" /\ req[r].op = "login" => req[r].new \in Jtis

(* Arrival precedes verification, which precedes the token's expiry.        *)
ArrivalOK(r) ==
  /\ req[r].at <= now
  /\ Verified(r) /\ IsSession(req[r].jti)
       => req[r].at < tokens[req[r].jti].exp

(* A revocation about to be written will outlive its token by Ttl - Life,   *)
(* and one about to be purged has done so.                                  *)
RevocationOK(r) ==
  /\ req[r].pc = "insertRevocation" =>
       req[r].until # Never /\ req[r].until >= Forgettable(req[r].jti)
  /\ req[r].pc = "purge" => now >= Forgettable(req[r].jti)

(* A request that arrived with a token already over is not accepted.        *)
StaleOK(r) ==
  /\ req[r].stale => req[r].jti \in ended
  /\ Accepted(r) /\ req[r].stale =>
       IsSession(req[r].jti) /\ now - req[r].at > Ttl - Life

RequestOK(r) == StepOK(r) /\ ArrivalOK(r) /\ RevocationOK(r) /\ StaleOK(r)

(* A jti set aside belongs to one request and to no token yet.              *)
FreshJtis ==
  \A r \in Requests :
    req[r].new \in Jtis =>
      /\ tokens[req[r].new] = NoToken
      /\ \A s \in Requests : req[s].new = req[r].new => s = r

SessionTokens ==
  \A j \in Jtis : IsSession(j) => tokens[j].exp # Never /\ tokens[j].exp <= now + Life

(* A revocation in the table outlives its token by Ttl - Life.              *)
Revocations ==
  \A j \in Jtis :
    revokedJti[j] # Never => IsSession(j) /\ revokedJti[j] >= Forgettable(j)

(* The revocation of a session that is over is there, or was purged late.   *)
EndedTokens ==
  /\ ended \subseteq Issued
  /\ \A j \in ended :
       IsSession(j) => revokedJti[j] # Never \/ now >= Forgettable(j)

(* The token an account names was issued for that account and is not over.  *)
CurrentApiTokens ==
  \A u \in Users :
    apiTokenJti[u] # NoJti =>
      /\ tokens[apiTokenJti[u]].iss = "swarmbot-api"
      /\ tokens[apiTokenJti[u]].user = u
      /\ apiTokenJti[u] \notin ended

DatabaseOK == SessionTokens /\ Revocations /\ EndedTokens /\ CurrentApiTokens

IInv ==
  /\ TypeOK
  /\ \A r \in Requests : RequestOK(r)
  /\ FreshJtis
  /\ DatabaseOK

-----------------------------------------------------------------------------
(* What the four ways of updating a request leave alone.                    *)

(* Every other request in flight is untouched.                              *)
Others(r) == \A s \in Requests \ {r} : req'[s] = req[s]

(* Request r keeps what it arrived with.                                    *)
SameArrival(r) ==
  /\ req'[r].op = req[r].op /\ req'[r].jti = req[r].jti
  /\ req'[r].target = req[r].target /\ req'[r].at = req[r].at
  /\ req'[r].stale = req[r].stale /\ req'[r].new = req[r].new

LEMMA GotoFrame ==
  ASSUME req \in [Requests -> Request], NEW r \in Requests,
         NEW step \in Steps, Goto(r, step)
  PROVE  /\ req' \in [Requests -> Request]
         /\ req'[r].pc = step /\ SameArrival(r) /\ Others(r)
         /\ req'[r].authed = req[r].authed /\ req'[r].until = req[r].until
<1>1. req' = [req EXCEPT ![r] = [req[r] EXCEPT !.pc = step]]
  BY DEF Goto
<1>2. req[r] \in Request
  OBVIOUS
<1>3. [req[r] EXCEPT !.pc = step] \in Request
  BY <1>2 DEF Request
<1> QED
  BY <1>1, <1>2, <1>3 DEF SameArrival, Others, Request

LEMMA FinishFrame ==
  ASSUME req \in [Requests -> Request], NEW r \in Requests, Finish(r)
  PROVE  /\ req' \in [Requests -> Request]
         /\ req'[r] = Idle /\ Others(r)
<1>1. Idle \in Request
  BY DEF Idle, Request, Steps, Operations
<1> QED
  BY <1>1 DEF Finish, Others

LEMMA FindUserFrame ==
  ASSUME req \in [Requests -> Request], NEW r \in Requests, FindUser(r)
  PROVE  /\ req' \in [Requests -> Request]
         /\ req'[r].pc = "handler" /\ SameArrival(r) /\ Others(r)
         /\ req'[r].until = req[r].until
<1> DEFINE b == Holder(r) \in accounts
<1>1. b \in BOOLEAN
  OBVIOUS
<1> DEFINE v == [req[r] EXCEPT !.pc = "handler", !.authed = b]
<1>2. req' = [req EXCEPT ![r] = v]
  BY DEF FindUser
<1> HIDE DEF b
<1>3. req[r] \in Request
  OBVIOUS
<1>4. v \in Request /\ v.pc = "handler"
  BY <1>1, <1>3 DEF Request, Steps
<1> QED
  BY <1>2, <1>3, <1>4 DEF SameArrival, Others, Request

LEMMA UntilFrame ==
  ASSUME req \in [Requests -> Request], NEW r \in Requests,
         NEW step \in Steps, NEW t \in Nat,
         req' = [req EXCEPT ![r].pc = step, ![r].until = t]
  PROVE  /\ req' \in [Requests -> Request]
         /\ req'[r].pc = step /\ SameArrival(r) /\ Others(r)
         /\ req'[r].authed = req[r].authed /\ req'[r].until = t
<1> DEFINE v == [req[r] EXCEPT !.pc = step, !.until = t]
<1>1. req' = [req EXCEPT ![r] = v]
  OBVIOUS
<1>2. req[r] \in Request
  OBVIOUS
<1>3. v \in Request /\ v.pc = step /\ v.until = t
  BY <1>2 DEF Request
<1> QED
  BY <1>1, <1>2, <1>3 DEF SameArrival, Others, Request

LEMMA ArriveFrame ==
  ASSUME TypeOK, NEW r \in Requests, Arrive(r)
  PROVE  /\ req' \in [Requests -> Request] /\ Others(r)
         /\ req'[r].pc \in {"verify", "handler"}
         /\ req'[r].pc = "verify" => req'[r].jti \in Jtis
         /\ req'[r].jti \in Issued \union {NoJti}
         /\ req'[r].op \in NeedsTarget => req'[r].target \in Users
         /\ req'[r].op = "login" => req'[r].new \in Jtis
         /\ req'[r].new \in Jtis => Fresh(req'[r].new)
         /\ req'[r].at = now /\ ~req'[r].authed
         /\ req'[r].stale => req'[r].jti \in ended
<1> USE UsersAssumption, JtisAssumption
<1>1. PICK op \in Workload, j \in Issued \union {NoJti} :
        \E u \in (IF op \in NeedsTarget THEN Users ELSE {NoUser}),
           n \in (IF op \in NeedsJti THEN {k \in Jtis : Fresh(k)} ELSE {NoJti}) :
          req' = [req EXCEPT ![r] =
                   [pc |-> IF j = NoJti THEN "handler" ELSE "verify",
                    op |-> op, jti |-> j, target |-> u, new |-> n, at |-> now,
                    stale |-> j \in ended, authed |-> FALSE, until |-> 0]]
  BY DEF Arrive
<1>2. PICK u \in (IF op \in NeedsTarget THEN Users ELSE {NoUser}),
           n \in (IF op \in NeedsJti THEN {k \in Jtis : Fresh(k)} ELSE {NoJti}) :
          req' = [req EXCEPT ![r] =
                   [pc |-> IF j = NoJti THEN "handler" ELSE "verify",
                    op |-> op, jti |-> j, target |-> u, new |-> n, at |-> now,
                    stale |-> j \in ended, authed |-> FALSE, until |-> 0]]
  BY <1>1
<1> DEFINE b == j \in ended
<1>3. b \in BOOLEAN
  OBVIOUS
<1> DEFINE step == IF j = NoJti THEN "handler" ELSE "verify"
           v == [pc |-> step, op |-> op, jti |-> j, target |-> u, at |-> now,
                 stale |-> b, authed |-> FALSE, new |-> n, until |-> 0]
<1>5. req' = [req EXCEPT ![r] = v]
  BY <1>2
<1>6. op \in Operations /\ step \in Steps
  BY WorkloadAssumption DEF Steps
<1>7. j \in Jtis \union {NoJti} /\ u \in Users \union {NoUser}
        /\ n \in Jtis \union {NoJti} /\ now \in Nat
  BY DEF Issued, TypeOK
<1>8. v \in Request
  BY <1>3, <1>6, <1>7 DEF Request
<1>9. req' \in [Requests -> Request] /\ req'[r] = v /\ Others(r)
  BY <1>5, <1>8 DEF TypeOK, Others
<1>10. op = "login" => n \in Jtis
  BY DEF NeedsJti
<1>11. n \in Jtis => Fresh(n)
  OBVIOUS
<1>12. op \in NeedsTarget => u \in Users
  OBVIOUS
<1>13. step = "verify" => j \in Jtis
  BY <1>7
<1>14. b => j \in ended
  OBVIOUS
<1> HIDE DEF step, b
<1> QED
  BY <1>9, <1>10, <1>11, <1>12, <1>13, <1>14, <1>6 DEF step

-----------------------------------------------------------------------------
(* Requests that a step does not serve keep their invariant.                *)

(* Tokens are never altered once issued, and time and "ended" only grow.    *)
Monotone ==
  /\ now <= now'
  /\ \A j \in Issued : tokens'[j] = tokens[j]
  /\ ended \subseteq ended'

LEMMA StableRequest ==
  ASSUME TypeOK, TypeOK', Monotone, NEW s \in Requests,
         RequestOK(s), req'[s] = req[s]
  PROVE  RequestOK(s)'
<1> USE JtisAssumption, TimesAssumption
<1> DEFINE j == req[s].jti
<1>1. j \in Issued \/ j \notin Jtis
  BY DEF RequestOK, StepOK
<1>2. CASE j \in Issued
  <2>1. tokens'[j] = tokens[j] /\ j \in Issued'
    BY <1>2 DEF Monotone, Issued, TypeOK
  <2>2. StepOK(s)'
    BY <2>1 DEF RequestOK, StepOK, Verified, Accepted, IsSession
  <2>3. now \in Nat /\ now' \in Nat /\ now <= now' /\ req[s].at \in Nat
    BY DEF TypeOK, Monotone, Request
  <2>4. ArrivalOK(s)'
    BY <2>1, <2>3 DEF RequestOK, ArrivalOK, Verified, Accepted, IsSession
  <2>5. tokens[j].exp \in Nat
    BY <1>2 DEF TypeOK, Token, NoToken, Never, Issued
  <2>6. RevocationOK(s)'
    BY <2>1, <2>3, <2>5 DEF RequestOK, RevocationOK, Forgettable
  <2>7. StaleOK(s)'
    BY <2>1, <2>3 DEF RequestOK, StaleOK, Accepted, IsSession, Monotone
  <2> QED
    BY <2>2, <2>4, <2>6, <2>7 DEF RequestOK
<1>3. CASE j \notin Jtis
  <2>1. now \in Nat /\ now' \in Nat /\ now <= now' /\ req[s].at \in Nat
    BY DEF TypeOK, Monotone, Request
  <2>2. ~Verified(s) /\ ~req[s].stale
    BY <1>3 DEF RequestOK, StepOK, StaleOK, TypeOK
  <2> QED
    BY <1>3, <2>1, <2>2
    DEF RequestOK, StepOK, ArrivalOK, RevocationOK, StaleOK, Verified, Accepted
<1> QED
  BY <1>1, <1>2, <1>3

LEMMA IdleRequest ==
  ASSUME TypeOK', NEW r \in Requests, req'[r] = Idle
  PROVE  RequestOK(r)'
BY JtisAssumption
DEF TypeOK, Idle, RequestOK, StepOK, ArrivalOK, RevocationOK, StaleOK,
    Verified, Accepted

(* Releasing or keeping the jti set aside keeps them distinct.              *)
LEMMA StableFreshJtis ==
  ASSUME TypeOK, TypeOK', FreshJtis, NEW r \in Requests, Others(r),
         req'[r].new \in {req[r].new, NoJti}, tokens' = tokens
  PROVE  FreshJtis'
BY JtisAssumption DEF FreshJtis, Others, TypeOK

-----------------------------------------------------------------------------
(* Steps that only read the database.                                       *)

ReadOnly == UNCHANGED <<now, database, tokens, ended>>

LEMMA ReadStep ==
  ASSUME IInv, ReadOnly, NEW r \in Requests, Others(r),
         req' \in [Requests -> Request], RequestOK(r)',
         req'[r].new \in {req[r].new, NoJti}
  PROVE  IInv'
<1>1. TypeOK'
  BY DEF IInv, TypeOK, ReadOnly, database
<1>2. Monotone
  BY DEF Monotone, ReadOnly, IInv, TypeOK
<1>3. \A s \in Requests : RequestOK(s)'
  <2> TAKE s \in Requests
  <2>1. CASE s = r
    BY <2>1
  <2>2. CASE s # r
    BY <1>1, <1>2, <2>2, StableRequest DEF IInv, Others
  <2> QED
    BY <2>1, <2>2
<1>4. FreshJtis'
  BY <1>1, StableFreshJtis DEF IInv, ReadOnly
<1>5. DatabaseOK'
  BY DEF IInv, DatabaseOK, ReadOnly, database, SessionTokens, Revocations,
         EndedTokens, CurrentApiTokens, IsSession, Forgettable, Issued
<1> QED
  BY <1>1, <1>3, <1>4, <1>5 DEF IInv

(* A handler that answers without having written anything.                  *)
LEMMA FinishStep ==
  ASSUME IInv, ReadOnly, NEW r \in Requests, Finish(r)
  PROVE  IInv'
<1>1. /\ req' \in [Requests -> Request] /\ req'[r] = Idle /\ Others(r)
  BY FinishFrame DEF IInv, TypeOK
<1>2. TypeOK'
  BY <1>1 DEF IInv, TypeOK, ReadOnly, database
<1>3. RequestOK(r)'
  BY <1>1, <1>2, IdleRequest
<1> QED
  BY <1>1, <1>3, ReadStep DEF Idle

(* A handler that goes on with what it read, towards a write.               *)
LEMMA GotoStep ==
  ASSUME IInv, ReadOnly, NEW r \in Requests, NEW step \in Steps, Goto(r, step),
         RequestOK(r)'
  PROVE  IInv'
<1>1. /\ req' \in [Requests -> Request] /\ SameArrival(r) /\ Others(r)
  BY GotoFrame DEF IInv, TypeOK
<1> QED
  BY <1>1, ReadStep DEF SameArrival

LEMMA ArriveStep ==
  ASSUME IInv, NEW r \in Requests, Arrive(r)
  PROVE  IInv'
<1> USE JtisAssumption
<1>1. ReadOnly
  BY DEF Arrive, ReadOnly
<1>2. /\ req' \in [Requests -> Request] /\ Others(r)
      /\ req'[r].pc \in {"verify", "handler"}
      /\ req'[r].pc = "verify" => req'[r].jti \in Jtis
      /\ req'[r].jti \in Issued \union {NoJti}
      /\ req'[r].op \in NeedsTarget => req'[r].target \in Users
      /\ req'[r].op = "login" => req'[r].new \in Jtis
      /\ req'[r].new \in Jtis => Fresh(req'[r].new)
      /\ req'[r].at = now /\ ~req'[r].authed
      /\ req'[r].stale => req'[r].jti \in ended
  BY ArriveFrame DEF IInv
<1>3. TypeOK'
  BY <1>1, <1>2 DEF IInv, TypeOK, ReadOnly, database
<1>4. Monotone
  BY <1>1 DEF Monotone, ReadOnly, IInv, TypeOK
<1>5. \A s \in Requests : RequestOK(s)'
  <2> TAKE s \in Requests
  <2>1. CASE s = r
    <3>1. StepOK(r)'
      BY <1>1, <1>2 DEF StepOK, Verified, Accepted, ReadOnly, Issued
    <3>2. ArrivalOK(r)' /\ RevocationOK(r)' /\ StaleOK(r)'
      BY <1>1, <1>2, <1>3
      DEF ArrivalOK, RevocationOK, StaleOK, Verified, Accepted, ReadOnly, TypeOK
    <3> QED
      BY <2>1, <3>1, <3>2 DEF RequestOK
  <2>2. CASE s # r
    BY <1>2, <1>3, <1>4, <2>2, StableRequest DEF IInv, Others
  <2> QED
    BY <2>1, <2>2
<1>6. FreshJtis'
  BY <1>1, <1>2 DEF IInv, FreshJtis, Fresh, Others, ReadOnly
<1>7. DatabaseOK'
  BY <1>1 DEF IInv, DatabaseOK, ReadOnly, database, SessionTokens, Revocations,
              EndedTokens, CurrentApiTokens, IsSession, Forgettable, Issued
<1> QED
  BY <1>3, <1>5, <1>6, <1>7 DEF IInv

-----------------------------------------------------------------------------
(* The middleware.                                                          *)

(* The token a request presents has been issued, with an exp if a session.  *)
LEMMA Presented ==
  ASSUME IInv, NEW r \in Requests, req[r].jti \in Jtis
  PROVE  /\ req[r].jti \in Issued
         /\ tokens[req[r].jti] \in Token
         /\ IsSession(req[r].jti) => tokens[req[r].jti].exp # Never
         /\ Holder(r) \in Users
BY DEF IInv, TypeOK, RequestOK, StepOK, Issued, DatabaseOK, SessionTokens,
       Holder, Token

LEMMA AnonymousStep ==
  ASSUME IInv, ReadOnly, NEW r \in Requests, Anonymous(r), req[r].pc # "idle"
  PROVE  IInv'
<1>1. Goto(r, "handler") /\ "handler" \in Steps
  BY DEF Anonymous, Steps
<1>2. /\ req' \in [Requests -> Request]
      /\ req'[r].pc = "handler" /\ SameArrival(r) /\ Others(r)
      /\ req'[r].authed = req[r].authed
  BY <1>1, GotoFrame DEF IInv, TypeOK
<1>3. RequestOK(r)
  BY DEF IInv
<1>4. StepOK(r)'
  BY <1>2, <1>3
  DEF RequestOK, StepOK, Verified, Accepted, SameArrival, ReadOnly, Issued
<1>5. ArrivalOK(r)' /\ RevocationOK(r)'
  BY <1>2, <1>3
  DEF RequestOK, ArrivalOK, RevocationOK, Verified, Accepted, SameArrival,
      ReadOnly, IsSession
<1>6. StaleOK(r)'
  BY <1>2, <1>3
  DEF RequestOK, StaleOK, Accepted, SameArrival, ReadOnly, IsSession
<1> QED
  BY <1>1, <1>4, <1>5, <1>6, GotoStep DEF RequestOK

LEMMA VerifyStep ==
  ASSUME IInv, NEW r \in Requests, Verify(r)
  PROVE  IInv'
<1> DEFINE j == req[r].jti
<1>1. ReadOnly /\ req[r].pc = "verify"
  BY DEF Verify, ReadOnly, At
<1>2. j \in Jtis /\ j \in Issued /\ tokens[j] \in Token
      /\ (IsSession(j) => tokens[j].exp # Never)
  BY <1>1, Presented DEF IInv, RequestOK, StepOK
<1>3. CASE Anonymous(r)
  BY <1>1, <1>3, AnonymousStep
<1>4. ASSUME NEW step \in {"apiCheck", "isRevoked"}, Goto(r, step),
             Unexpired(tokens[j]),
             step = "apiCheck" => tokens[j].iss = "swarmbot-api",
             step = "isRevoked" => tokens[j].iss = "swarmbot"
      PROVE  IInv'
  <2>1. step \in Steps
    BY DEF Steps
  <2>2. /\ req' \in [Requests -> Request] /\ req'[r].pc = step
        /\ SameArrival(r) /\ Others(r) /\ req'[r].authed = req[r].authed
    BY <1>4, <2>1, GotoFrame DEF IInv, TypeOK
  <2>3. StepOK(r)'
    BY <1>1, <1>2, <1>4, <2>2
    DEF IInv, RequestOK, StepOK, Verified, Accepted, SameArrival, ReadOnly,
        Issued, IsSession
  <2>4. ArrivalOK(r)'
    <3>1. req[r].at <= now /\ req[r].at \in Nat /\ now \in Nat
      BY DEF IInv, RequestOK, ArrivalOK, TypeOK, Request
    <3>2. IsSession(j) => now < tokens[j].exp
      BY <1>2, <1>4 DEF Unexpired
    <3> QED
      BY <1>1, <1>2, <2>2, <3>1, <3>2
      DEF ArrivalOK, SameArrival, ReadOnly, IsSession, Token
  <2>5. RevocationOK(r)' /\ StaleOK(r)'
    BY <1>1, <1>4, <2>2
    DEF IInv, RequestOK, RevocationOK, StaleOK, Accepted, SameArrival,
        ReadOnly, IsSession
  <2> QED
    BY <1>1, <1>4, <2>1, <2>3, <2>4, <2>5, GotoStep DEF RequestOK
<1> QED
  BY <1>3, <1>4 DEF Verify

LEMMA CheckApiTokenStep ==
  ASSUME IInv, NEW r \in Requests, CheckApiToken(r)
  PROVE  IInv'
<1> USE JtisAssumption
<1> DEFINE j == req[r].jti
<1>1. ReadOnly /\ req[r].pc = "apiCheck"
  BY DEF CheckApiToken, ReadOnly, At
<1>2. j \in Jtis /\ j \in Issued /\ Holder(r) \in Users
  BY <1>1, Presented DEF IInv, RequestOK, StepOK, Verified
<1>3. CASE Anonymous(r)
  BY <1>1, <1>3, AnonymousStep
<1>4. CASE apiTokenJti[Holder(r)] = j /\ Goto(r, "findUser")
  <2>1. "findUser" \in Steps
    BY DEF Steps
  <2>2. /\ req' \in [Requests -> Request] /\ req'[r].pc = "findUser"
        /\ SameArrival(r) /\ Others(r) /\ req'[r].authed = req[r].authed
    BY <1>4, <2>1, GotoFrame DEF IInv, TypeOK
  <2>3. j \notin ended
    BY <1>2, <1>4 DEF IInv, DatabaseOK, CurrentApiTokens
  <2>4. ~req[r].stale
    BY <2>3 DEF IInv, RequestOK, StaleOK
  <2>5. RequestOK(r)'
    BY <1>1, <1>2, <2>2, <2>4
    DEF IInv, RequestOK, StepOK, ArrivalOK, RevocationOK, StaleOK, Verified,
        Accepted, SameArrival, ReadOnly, Issued, IsSession
  <2> QED
    BY <1>1, <1>4, <2>1, <2>5, GotoStep
<1> QED
  BY <1>3, <1>4 DEF CheckApiToken

LEMMA CheckRevokedStep ==
  ASSUME IInv, NEW r \in Requests, CheckRevoked(r)
  PROVE  IInv'
<1> USE JtisAssumption, TimesAssumption
<1> DEFINE j == req[r].jti
<1>1. ReadOnly /\ req[r].pc = "isRevoked"
  BY DEF CheckRevoked, ReadOnly, At
<1>2. j \in Jtis /\ j \in Issued /\ IsSession(j) /\ tokens[j].exp \in Nat
  BY <1>1, Presented DEF IInv, RequestOK, StepOK, Verified, Token
<1>3. now \in Nat /\ req[r].at \in Nat /\ req[r].at < tokens[j].exp
      /\ revokedJti[j] \in Nat
  BY <1>1, <1>2
  DEF IInv, TypeOK, Request, RequestOK, ArrivalOK, Verified
<1>4. CASE Anonymous(r)
  BY <1>1, <1>4, AnonymousStep
<1>5. CASE revokedJti[j] = Never /\ Goto(r, "findUser")
  <2>1. "findUser" \in Steps
    BY DEF Steps
  <2>2. /\ req' \in [Requests -> Request] /\ req'[r].pc = "findUser"
        /\ SameArrival(r) /\ Others(r) /\ req'[r].authed = req[r].authed
    BY <1>5, <2>1, GotoFrame DEF IInv, TypeOK
  <2>3. req[r].stale => now >= Forgettable(j)
    BY <1>2, <1>5 DEF IInv, RequestOK, StaleOK, DatabaseOK, EndedTokens
  <2>4. req[r].stale => now - req[r].at > Ttl - Life
    BY <1>2, <1>3, <2>3 DEF Forgettable
  <2>5. StaleOK(r)'
    BY <1>1, <1>2, <2>2, <2>4
    DEF IInv, RequestOK, StaleOK, SameArrival, ReadOnly, IsSession
  <2>6. StepOK(r)' /\ ArrivalOK(r)' /\ RevocationOK(r)'
    BY <1>1, <1>2, <2>2
    DEF IInv, RequestOK, StepOK, ArrivalOK, RevocationOK, Verified, Accepted,
        SameArrival, ReadOnly, Issued, IsSession
  <2> QED
    BY <1>1, <1>5, <2>1, <2>5, <2>6, GotoStep DEF RequestOK
<1>6. CASE revokedJti[j] # Never /\ revokedJti[j] <= now /\ Goto(r, "purge")
  <2>1. "purge" \in Steps
    BY DEF Steps
  <2>2. /\ req' \in [Requests -> Request] /\ req'[r].pc = "purge"
        /\ SameArrival(r) /\ Others(r) /\ req'[r].authed = req[r].authed
    BY <1>6, <2>1, GotoFrame DEF IInv, TypeOK
  <2>3. revokedJti[j] >= Forgettable(j)
    BY <1>2, <1>6 DEF IInv, DatabaseOK, Revocations
  <2>4. now >= Forgettable(j)
    BY <1>2, <1>3, <1>6, <2>3 DEF Forgettable
  <2>5. RevocationOK(r)'
    BY <1>1, <2>2, <2>4
    DEF RevocationOK, SameArrival, ReadOnly, Forgettable
  <2>6. StepOK(r)' /\ ArrivalOK(r)' /\ StaleOK(r)'
    BY <1>1, <1>2, <2>2
    DEF IInv, RequestOK, StepOK, ArrivalOK, StaleOK, Verified, Accepted,
        SameArrival, ReadOnly, Issued, IsSession
  <2> QED
    BY <1>1, <1>6, <2>1, <2>5, <2>6, GotoStep DEF RequestOK
<1> QED
  BY <1>4, <1>5, <1>6 DEF CheckRevoked

LEMMA FindUserStep ==
  ASSUME IInv, NEW r \in Requests, FindUser(r)
  PROVE  IInv'
<1>1. ReadOnly /\ req[r].pc = "findUser"
  BY DEF FindUser, ReadOnly, At
<1>2. /\ req' \in [Requests -> Request] /\ req'[r].pc = "handler"
      /\ SameArrival(r) /\ Others(r)
  BY FindUserFrame DEF IInv, TypeOK
<1>3. Accepted(r) /\ RequestOK(r)
  BY <1>1 DEF Accepted, IInv
<1>4. StepOK(r)' /\ ArrivalOK(r)'
  BY <1>1, <1>2, <1>3
  DEF RequestOK, StepOK, ArrivalOK, Verified, Accepted, SameArrival, ReadOnly,
      Issued, IsSession
<1>5. RevocationOK(r)' /\ StaleOK(r)'
  BY <1>1, <1>2, <1>3
  DEF RequestOK, RevocationOK, StaleOK, SameArrival, ReadOnly, IsSession
<1> QED
  BY <1>1, <1>2, <1>4, <1>5, ReadStep DEF RequestOK, SameArrival

(* A step that writes to the database.                                      *)
LEMMA WriteStep ==
  ASSUME IInv, TypeOK', Monotone, NEW r \in Requests, Others(r), RequestOK(r)',
         FreshJtis', DatabaseOK'
  PROVE  IInv'
<1>1. \A s \in Requests : RequestOK(s)'
  <2> TAKE s \in Requests
  <2>1. CASE s = r
    BY <2>1
  <2>2. CASE s # r
    BY <2>2, StableRequest DEF IInv, Others
  <2> QED
    BY <2>1, <2>2
<1> QED
  BY <1>1 DEF IInv

LEMMA PurgeRevokedStep ==
  ASSUME IInv, NEW r \in Requests, PurgeRevoked(r)
  PROVE  IInv'
<1> USE JtisAssumption, TimesAssumption
<1> DEFINE j == req[r].jti
<1>1. /\ req[r].pc = "purge" /\ Goto(r, "findUser") /\ "findUser" \in Steps
      /\ revokedJti' = [revokedJti EXCEPT ![j] = Never]
      /\ UNCHANGED <<now, accounts, apiTokenJti, tokens, ended>>
  BY DEF PurgeRevoked, At, Steps
<1>2. /\ req' \in [Requests -> Request] /\ req'[r].pc = "findUser"
      /\ SameArrival(r) /\ Others(r) /\ req'[r].authed = req[r].authed
  BY <1>1, GotoFrame DEF IInv, TypeOK
<1>3. j \in Jtis /\ j \in Issued /\ IsSession(j) /\ tokens[j].exp \in Nat
  BY <1>1, Presented DEF IInv, RequestOK, StepOK, Verified, Token
<1>4. now \in Nat /\ req[r].at \in Nat /\ req[r].at < tokens[j].exp
      /\ now >= Forgettable(j)
  BY <1>1, <1>3
  DEF IInv, TypeOK, Request, RequestOK, ArrivalOK, RevocationOK, Verified
<1>5. TypeOK'
  BY <1>1, <1>2 DEF IInv, TypeOK, Never
<1>6. Monotone
  BY <1>1, <1>4 DEF Monotone
<1>7. RequestOK(r)'
  <2>1. now - req[r].at > Ttl - Life
    BY <1>3, <1>4 DEF Forgettable
  <2>2. StaleOK(r)'
    BY <1>1, <1>2, <1>3, <2>1
    DEF IInv, RequestOK, StaleOK, SameArrival, IsSession
  <2>3. StepOK(r)' /\ ArrivalOK(r)' /\ RevocationOK(r)'
    BY <1>1, <1>2, <1>3
    DEF IInv, RequestOK, StepOK, ArrivalOK, RevocationOK, Verified, Accepted,
        SameArrival, Issued, IsSession
  <2> QED
    BY <2>2, <2>3 DEF RequestOK
<1>8. FreshJtis'
  BY <1>1, <1>2, <1>5, StableFreshJtis DEF IInv, SameArrival
<1>9. DatabaseOK'
  <2>1. SessionTokens' /\ CurrentApiTokens'
    BY <1>1 DEF IInv, DatabaseOK, SessionTokens, CurrentApiTokens, IsSession
  <2>2. Revocations'
    BY <1>1
    DEF IInv, TypeOK, DatabaseOK, Revocations, IsSession, Forgettable
  <2>3. EndedTokens'
    BY <1>1, <1>4
    DEF IInv, TypeOK, DatabaseOK, EndedTokens, IsSession, Forgettable, Issued
  <2> QED
    BY <2>1, <2>2, <2>3 DEF DatabaseOK
<1> QED
  BY <1>2, <1>5, <1>6, <1>7, <1>8, <1>9, WriteStep

LEMMA MiddlewareStep ==
  ASSUME IInv, NEW r \in Requests, Middleware(r)
  PROVE  IInv'
BY VerifyStep, CheckApiTokenStep, CheckRevokedStep, PurgeRevokedStep,
   FindUserStep DEF Middleware

-----------------------------------------------------------------------------
(* The handlers.                                                            *)

(* Logout and PostLogout: the revocation will outlive the session.          *)
LEMMA BeginRevokeStep ==
  ASSUME IInv, ReadOnly, NEW r \in Requests, BeginRevoke(r),
         req[r].pc = "handler", req[r].jti \in Jtis, IsSession(req[r].jti)
  PROVE  IInv'
<1> USE JtisAssumption, TimesAssumption, TtlCoversLife
<1> DEFINE j == req[r].jti
           until == RevocationExpiry(now)
<1>1. now \in Nat /\ until \in Nat /\ "insertRevocation" \in Steps
  BY DEF IInv, TypeOK, RevocationExpiry, Steps
<1>2. req' = [req EXCEPT ![r].pc = "insertRevocation", ![r].until = until]
  BY DEF BeginRevoke
<1>3. /\ req' \in [Requests -> Request] /\ req'[r].pc = "insertRevocation"
      /\ SameArrival(r) /\ Others(r)
      /\ req'[r].authed = req[r].authed /\ req'[r].until = until
  <2> HIDE DEF until
  <2> QED
    BY <1>1, <1>2, UntilFrame DEF IInv, TypeOK
<1>4. j \in Issued /\ tokens[j].exp \in Nat /\ tokens[j].exp <= now + Life
      /\ tokens[j].exp # Never
  BY Presented DEF IInv, DatabaseOK, SessionTokens, Token
<1>5. until # Never /\ until >= Forgettable(j)
  BY <1>1, <1>4 DEF RevocationExpiry, Forgettable, Never
<1>6. StepOK(r)' /\ ArrivalOK(r)'
  BY <1>3, <1>4
  DEF IInv, RequestOK, StepOK, ArrivalOK, Verified, Accepted, SameArrival,
      ReadOnly, Issued, IsSession
<1>7. RevocationOK(r)' /\ StaleOK(r)'
  BY <1>3, <1>5
  DEF IInv, RequestOK, RevocationOK, StaleOK, Accepted, SameArrival, ReadOnly,
      IsSession, Forgettable
<1> QED
  BY <1>3, <1>6, <1>7, ReadStep DEF RequestOK, SameArrival

(* A handler on its way to a write keeps what the middleware established.   *)
LEMMA TowardsWriteStep ==
  ASSUME IInv, ReadOnly, NEW r \in Requests, req[r].pc = "handler",
         NEW step \in {"issueSession", "setApiToken", "insertUser"},
         step = "issueSession" => req[r].op = "login",
         step = "insertUser" => req[r].op = "createUser",
         step = "setApiToken" => req[r].authed,
         req' \in [Requests -> Request], req'[r].pc = step,
         SameArrival(r), Others(r), req'[r].authed = req[r].authed
  PROVE  IInv'
<1>1. RequestOK(r)
  BY DEF IInv
<1>2. StepOK(r)'
  BY <1>1
  DEF RequestOK, StepOK, Verified, Accepted, SameArrival, ReadOnly, Issued
<1>3. ArrivalOK(r)' /\ RevocationOK(r)'
  BY <1>1
  DEF RequestOK, ArrivalOK, RevocationOK, Verified, Accepted, SameArrival,
      ReadOnly, IsSession
<1>4. StaleOK(r)'
  BY <1>1 DEF RequestOK, StaleOK, Accepted, SameArrival, ReadOnly, IsSession
<1> QED
  BY <1>2, <1>3, <1>4, ReadStep DEF RequestOK, SameArrival

LEMMA ReadingHandlerStep ==
  ASSUME IInv, NEW r \in Requests,
         \/ Refuse(r) \/ AnswerQuery(r) \/ LoginReadUser(r)
         \/ Logout(r) \/ PostLogout(r)
         \/ GenerateApiToken(r) \/ RemoveApiToken(r) \/ CreateUser(r)
  PROVE  IInv'
<1>1. ReadOnly /\ req[r].pc = "handler"
  BY DEF ReadOnly, Refuse, AnswerQuery, LoginReadUser, Logout, PostLogout,
         GenerateApiToken, RemoveApiToken, CreateUser, Handling, At
<1>2. CASE Finish(r)
  BY <1>1, <1>2, FinishStep
<1>3. ASSUME NEW step \in {"issueSession", "setApiToken", "insertUser"},
             step = "issueSession" => req[r].op = "login",
             step = "insertUser" => req[r].op = "createUser",
             step = "setApiToken" => req[r].authed,
             Goto(r, step)
      PROVE  IInv'
  <2>1. step \in Steps
    BY DEF Steps
  <2> QED
    BY <1>1, <1>3, <2>1, GotoFrame, TowardsWriteStep DEF IInv, TypeOK
<1>4. CASE Refuse(r) \/ AnswerQuery(r)
  BY <1>2, <1>4 DEF Refuse, AnswerQuery
<1>5. CASE LoginReadUser(r)
  BY <1>2, <1>3, <1>5 DEF LoginReadUser, Handling
<1>6. CASE Logout(r)
  <2>1. CASE BeginRevoke(r) /\ req[r].authed /\ IsSession(req[r].jti)
    <3>1. req[r].jti \in Jtis
      BY <2>1 DEF IInv, RequestOK, StepOK, Verified, Accepted
    <3> QED
      BY <1>1, <2>1, <3>1, BeginRevokeStep
  <2> QED
    BY <1>2, <1>6, <2>1 DEF Logout, IsSession
<1>7. CASE PostLogout(r)
  <2>1. CASE BeginRevoke(r) /\ req[r].jti # NoJti /\ IsSession(req[r].jti)
    <3>1. req[r].jti \in Jtis
      BY <2>1 DEF IInv, TypeOK, Request
    <3> QED
      BY <1>1, <2>1, <3>1, BeginRevokeStep
  <2> QED
    BY <1>2, <1>7, <2>1 DEF PostLogout, IsSession
<1>8. CASE GenerateApiToken(r)
  <2>1. CASE req' = [req EXCEPT ![r].pc = "setApiToken",
                                ![r].until = ApiTokenExpiry(now)]
    <3> DEFINE t == ApiTokenExpiry(now)
    <3>1. t \in Nat /\ "setApiToken" \in Steps
      BY TimesAssumption DEF ApiTokenExpiry, IInv, TypeOK, Steps, Never
    <3>2. /\ req' \in [Requests -> Request] /\ req'[r].pc = "setApiToken"
          /\ SameArrival(r) /\ Others(r) /\ req'[r].authed = req[r].authed
      <4> HIDE DEF t
      <4> QED
        BY <2>1, <3>1, UntilFrame DEF IInv, TypeOK, t
    <3>3. req[r].authed
      BY <1>8 DEF GenerateApiToken, Permitted
    <3> QED
      BY <1>1, <3>2, <3>3, TowardsWriteStep
  <2> QED
    BY <1>2, <1>8, <2>1 DEF GenerateApiToken
<1>9. CASE RemoveApiToken(r)
  BY <1>2, <1>3, <1>9 DEF RemoveApiToken, Permitted
<1>10. CASE CreateUser(r)
  BY <1>2, <1>3, <1>10 DEF CreateUser, Handling
<1> QED
  BY <1>4, <1>5, <1>6, <1>7, <1>8, <1>9, <1>10

(* A handler that answers after its write.                                  *)
LEMMA AnswerStep ==
  ASSUME IInv, TypeOK', Monotone, NEW r \in Requests, Finish(r), FreshJtis',
         DatabaseOK'
  PROVE  IInv'
<1>1. req'[r] = Idle /\ Others(r)
  BY FinishFrame DEF IInv, TypeOK
<1>2. RequestOK(r)'
  BY <1>1, IdleRequest
<1> QED
  BY <1>1, <1>2, WriteStep

LEMMA FinishFreshJtis ==
  ASSUME IInv, TypeOK', NEW r \in Requests, Finish(r),
         \A j \in Jtis : j # req[r].new => tokens'[j] = tokens[j]
  PROVE  FreshJtis'
<1>1. req'[r] = Idle /\ Others(r)
  BY FinishFrame DEF IInv, TypeOK
<1>2. req'[r].new = NoJti
  BY <1>1 DEF Idle
<1>3. \A s \in Requests : req'[s].new \in Jtis =>
         s # r /\ req'[s].new = req[s].new /\ req[s].new # req[r].new
  BY <1>1, <1>2, JtisAssumption DEF IInv, FreshJtis, Others
<1> QED
  BY <1>1, <1>3 DEF IInv, FreshJtis, Others

LEMMA IssueSessionStep ==
  ASSUME IInv, NEW r \in Requests, IssueSession(r)
  PROVE  IInv'
<1> USE JtisAssumption, UsersAssumption, TimesAssumption
<1> DEFINE j == req[r].new
           tok == [iss |-> "swarmbot", user |-> req[r].target,
                   exp |-> SessionExpiry(now)]
<1>1. /\ req[r].pc = "issueSession" /\ Finish(r)
      /\ tokens' = [tokens EXCEPT ![j] = tok]
      /\ UNCHANGED <<now, accounts, apiTokenJti, revokedJti, ended>>
  BY DEF IssueSession, At, database
<1>2. j \in Jtis /\ req[r].target \in Users
  BY <1>1 DEF IInv, RequestOK, StepOK, NeedsTarget
<1>3. tokens[j] = NoToken /\ j \notin Issued
  BY <1>2 DEF IInv, FreshJtis, Issued
<1>4. now \in Nat /\ tok \in Token /\ tok.iss = "swarmbot"
        /\ tok.exp # Never /\ tok.exp <= now + Life
  BY <1>2 DEF IInv, TypeOK, Token, SessionExpiry, Never
<1> HIDE DEF tok
<1>5. TypeOK'
  BY <1>1, <1>4, FinishFrame DEF IInv, TypeOK
<1>6. Monotone
  BY <1>1, <1>3, <1>4 DEF Monotone, Issued
<1>7. FreshJtis'
  BY <1>1, <1>5, FinishFreshJtis DEF IInv, TypeOK
<1>8. DatabaseOK'
  <2>1. SessionTokens'
    BY <1>1, <1>2, <1>4
    DEF IInv, TypeOK, DatabaseOK, SessionTokens, IsSession
  <2>2. revokedJti[j] = Never /\ j \notin ended
    BY <1>2, <1>3
    DEF IInv, DatabaseOK, Revocations, EndedTokens, IsSession, NoToken
  <2>3. Revocations'
    BY <1>1, <2>2
    DEF IInv, TypeOK, DatabaseOK, Revocations, IsSession, Forgettable
  <2>4. tok # NoToken
    BY <1>4 DEF NoToken
  <2>5. EndedTokens'
    BY <1>1, <1>2, <2>2, <2>4
    DEF IInv, TypeOK, DatabaseOK, EndedTokens, IsSession, Forgettable, Issued
  <2>6. \A u \in Users : apiTokenJti[u] # NoJti => apiTokenJti[u] # j
    BY <1>3 DEF IInv, DatabaseOK, CurrentApiTokens, NoToken
  <2>7. CurrentApiTokens'
    BY <1>1, <2>6 DEF IInv, TypeOK, DatabaseOK, CurrentApiTokens
  <2> QED
    BY <2>1, <2>3, <2>5, <2>7 DEF DatabaseOK
<1> QED
  BY <1>1, <1>5, <1>6, <1>7, <1>8, AnswerStep

LEMMA InsertRevocationStep ==
  ASSUME IInv, NEW r \in Requests, InsertRevocation(r)
  PROVE  IInv'
<1> USE JtisAssumption, TimesAssumption
<1> DEFINE j == req[r].jti
           row == IF revokedJti[j] = Never THEN req[r].until ELSE revokedJti[j]
<1>1. /\ req[r].pc = "insertRevocation" /\ Finish(r)
      /\ revokedJti' = [revokedJti EXCEPT ![j] = row]
      /\ ended' = ended \union {j}
      /\ UNCHANGED <<now, accounts, apiTokenJti, tokens>>
  BY DEF InsertRevocation, At
<1>2. j \in Jtis /\ j \in Issued /\ IsSession(j)
  BY <1>1, Presented DEF IInv, RequestOK, StepOK
<1>3. row \in Nat /\ row # Never /\ row >= Forgettable(j)
  BY <1>1, <1>2
  DEF IInv, TypeOK, Request, RequestOK, RevocationOK, DatabaseOK, Revocations
<1> HIDE DEF row
<1>4. TypeOK'
  BY <1>1, <1>2, <1>3, FinishFrame DEF IInv, TypeOK
<1>5. Monotone
  BY <1>1 DEF Monotone, IInv, TypeOK
<1>6. FreshJtis'
  BY <1>1, <1>4, FinishFreshJtis
<1>7. DatabaseOK'
  <2>1. SessionTokens'
    BY <1>1 DEF IInv, DatabaseOK, SessionTokens, IsSession
  <2>2. Revocations'
    BY <1>1, <1>2, <1>3
    DEF IInv, TypeOK, DatabaseOK, Revocations, IsSession, Forgettable
  <2>3. EndedTokens'
    BY <1>1, <1>2, <1>3
    DEF IInv, TypeOK, DatabaseOK, EndedTokens, IsSession, Forgettable, Issued
  <2>4. CurrentApiTokens'
    BY <1>1, <1>2 DEF IInv, DatabaseOK, CurrentApiTokens, IsSession
  <2> QED
    BY <2>1, <2>2, <2>3, <2>4 DEF DatabaseOK
<1> QED
  BY <1>1, <1>4, <1>5, <1>6, <1>7, AnswerStep

(* The jti an account names stops being named: it may be retired.           *)
LEMMA Retirement ==
  ASSUME IInv, NEW u \in Users
  PROVE  /\ Retire(u) \subseteq Issued
         /\ ended \subseteq Retire(u)
         /\ \A j \in Retire(u) :
              IsSession(j) => revokedJti[j] # Never \/ now >= Forgettable(j)
         /\ \A v \in Users \ {u} :
              apiTokenJti[v] # NoJti => apiTokenJti[v] \notin Retire(u)
         /\ \A j \in Retire(u) : j \in ended \/ j = apiTokenJti[u]
BY JtisAssumption
DEF IInv, TypeOK, DatabaseOK, EndedTokens, CurrentApiTokens, Retire, Issued,
    IsSession, NoToken

LEMMA SetApiTokenStep ==
  ASSUME IInv, NEW r \in Requests, SetApiToken(r)
  PROVE  IInv'
<1> USE JtisAssumption, UsersAssumption
<1> DEFINE u == Holder(r)
           j == req[r].new
           tok == [iss |-> "swarmbot-api", user |-> u, exp |-> req[r].until]
<1>1. /\ req[r].pc = "setApiToken" /\ Finish(r)
      /\ \/ /\ apiTokenJti' = [apiTokenJti EXCEPT ![u] = j]
            /\ ended' = Retire(u)
         \/ UNCHANGED <<apiTokenJti, ended>>
      /\ tokens' = IF j = NoJti THEN tokens ELSE [tokens EXCEPT ![j] = tok]
      /\ UNCHANGED <<now, accounts, revokedJti>>
  BY DEF SetApiToken, At
<1>2. u \in Users /\ j \in Jtis \union {NoJti}
  BY <1>1, Presented
  DEF IInv, RequestOK, StepOK, Verified, Accepted, TypeOK, Request
<1>3. tok \in Token /\ tok.iss = "swarmbot-api" /\ tok.user = u
  BY <1>2 DEF IInv, TypeOK, Request, Token
<1>4. j \in Jtis => tokens[j] = NoToken /\ j \notin Issued
  BY DEF IInv, FreshJtis, Issued
<1> HIDE DEF tok
<1>5. \A k \in Jtis : k # j => tokens'[k] = tokens[k]
  BY <1>1 DEF IInv, TypeOK
<1>6. j \in Jtis => tokens'[j] = tok
  BY <1>1 DEF IInv, TypeOK
<1>7. tokens' \in [Jtis -> Token \union {NoToken}]
  BY <1>1, <1>3 DEF IInv, TypeOK
<1>8. ended \subseteq ended' /\ ended' \subseteq Issued
  BY <1>1, <1>2, Retirement DEF IInv, DatabaseOK, EndedTokens
<1>9. TypeOK'
  BY <1>1, <1>2, <1>7, <1>8, FinishFrame DEF IInv, TypeOK, Issued
<1>10. Monotone
  BY <1>1, <1>4, <1>5, <1>8 DEF Monotone, Issued, IInv, TypeOK
<1>11. FreshJtis'
  BY <1>1, <1>5, <1>9, FinishFreshJtis
<1>12. DatabaseOK'
  <2>1. SessionTokens'
    BY <1>1, <1>3, <1>5, <1>6 DEF IInv, DatabaseOK, SessionTokens, IsSession
  <2>2. Revocations'
    BY <1>1, <1>4, <1>5
    DEF IInv, DatabaseOK, Revocations, IsSession, Forgettable, NoToken
  <2>3. ended' \subseteq Issued'
    BY <1>8, <1>10 DEF Monotone, Issued
  <2>4. \A k \in ended' :
          IsSession(k) => revokedJti[k] # Never \/ now >= Forgettable(k)
    BY <1>1, <1>2, Retirement DEF IInv, DatabaseOK, EndedTokens
  <2>5. \A k \in ended' : tokens'[k] = tokens[k]
    BY <1>8, <1>10 DEF Monotone
  <2>6. EndedTokens'
    BY <1>1, <2>3, <2>4, <2>5 DEF EndedTokens, IsSession, Forgettable
  <2>7. \A v \in Users : apiTokenJti[v] # NoJti =>
          apiTokenJti[v] \in Issued /\ tokens'[apiTokenJti[v]] = tokens[apiTokenJti[v]]
    BY <1>10
    DEF IInv, TypeOK, DatabaseOK, CurrentApiTokens, Issued, NoToken, Monotone
  <2>8. CurrentApiTokens'
    <3>1. CASE UNCHANGED <<apiTokenJti, ended>>
      BY <2>7, <3>1 DEF IInv, DatabaseOK, CurrentApiTokens
    <3>2. CASE apiTokenJti' = [apiTokenJti EXCEPT ![u] = j] /\ ended' = Retire(u)
      <4>1. \A v \in Users \ {u} : apiTokenJti'[v] = apiTokenJti[v]
        BY <3>2 DEF IInv, TypeOK
      <4>2. apiTokenJti'[u] = j
        BY <1>2, <3>2 DEF IInv, TypeOK
      <4>3. j \in Jtis => j \notin ended'
        BY <1>4, <1>8
      <4> QED
        BY <1>2, <1>3, <1>6, <2>7, <3>2, <4>1, <4>2, <4>3, Retirement
        DEF IInv, DatabaseOK, CurrentApiTokens
    <3> QED
      BY <1>1, <3>1, <3>2
  <2> QED
    BY <2>1, <2>2, <2>6, <2>8 DEF DatabaseOK
<1> QED
  BY <1>1, <1>9, <1>10, <1>11, <1>12, AnswerStep

LEMMA InsertUserStep ==
  ASSUME IInv, NEW r \in Requests, InsertUser(r)
  PROVE  IInv'
<1>1. /\ req[r].pc = "insertUser" /\ Finish(r)
      /\ accounts' = accounts \union {req[r].target}
      /\ UNCHANGED <<now, apiTokenJti, revokedJti, tokens, ended>>
  BY DEF InsertUser, At
<1>2. req[r].target \in Users
  BY <1>1 DEF IInv, RequestOK, StepOK, NeedsTarget
<1>3. TypeOK'
  BY <1>1, <1>2, FinishFrame DEF IInv, TypeOK
<1>4. Monotone
  BY <1>1 DEF Monotone, IInv, TypeOK
<1>5. FreshJtis'
  BY <1>1, <1>3, FinishFreshJtis
<1>6. DatabaseOK'
  BY <1>1
  DEF IInv, DatabaseOK, SessionTokens, Revocations, EndedTokens,
      CurrentApiTokens, IsSession, Forgettable, Issued
<1> QED
  BY <1>1, <1>3, <1>4, <1>5, <1>6, AnswerStep

LEMMA RemoveUserStep ==
  ASSUME IInv, NEW r \in Requests, RemoveUser(r)
  PROVE  IInv'
<1> USE JtisAssumption
<1> DEFINE u == req[r].target
<1>1. /\ req[r].pc = "handler" /\ req[r].op = "removeUser" /\ Finish(r)
      /\ accounts' = accounts \ {u}
      /\ apiTokenJti' = [apiTokenJti EXCEPT ![u] = NoJti]
      /\ ended' = Retire(u)
      /\ UNCHANGED <<now, revokedJti, tokens>>
  BY DEF RemoveUser, Handling, At
<1>2. u \in Users
  BY <1>1 DEF IInv, RequestOK, StepOK, NeedsTarget
<1>3. TypeOK'
  BY <1>1, <1>2, FinishFrame, Retirement DEF IInv, TypeOK, Issued
<1>4. Monotone
  BY <1>1, <1>2, Retirement DEF Monotone, IInv, TypeOK
<1>5. FreshJtis'
  BY <1>1, <1>3, FinishFreshJtis
<1>6. DatabaseOK'
  <2>1. SessionTokens' /\ Revocations'
    BY <1>1
    DEF IInv, DatabaseOK, SessionTokens, Revocations, IsSession, Forgettable
  <2>2. EndedTokens'
    BY <1>1, <1>2, Retirement DEF EndedTokens, IsSession, Forgettable, Issued
  <2>3. CurrentApiTokens'
    BY <1>1, <1>2, Retirement
    DEF IInv, TypeOK, DatabaseOK, CurrentApiTokens
  <2> QED
    BY <2>1, <2>2, <2>3 DEF DatabaseOK
<1> QED
  BY <1>1, <1>3, <1>4, <1>5, <1>6, AnswerStep

LEMMA TickStep ==
  ASSUME IInv, Tick
  PROVE  IInv'
<1> USE TimesAssumption
<1>1. /\ now' = now + 1 /\ now \in Nat
      /\ UNCHANGED <<accounts, apiTokenJti, revokedJti, tokens, req, ended>>
  BY DEF Tick, database, IInv, TypeOK
<1>2. TypeOK'
  BY <1>1 DEF IInv, TypeOK
<1>3. Monotone
  BY <1>1 DEF Monotone
<1>4. \A r \in Requests : RequestOK(r)'
  BY <1>1, <1>2, <1>3, StableRequest DEF IInv
<1>5. FreshJtis'
  BY <1>1 DEF IInv, FreshJtis
<1>6. DatabaseOK'
  <2>1. \A j \in Jtis : IsSession(j) => tokens[j].exp \in Nat
    BY DEF IInv, TypeOK, Token, NoToken, IsSession
  <2>2. SessionTokens'
    BY <1>1, <2>1 DEF IInv, DatabaseOK, SessionTokens, IsSession
  <2>3. EndedTokens'
    <3>1. ended \subseteq Issued /\ ended \subseteq Jtis
      BY DEF IInv, DatabaseOK, EndedTokens, TypeOK
    <3>2. \A j \in ended : IsSession(j) =>
            revokedJti[j] # Never \/ now + 1 >= Forgettable(j)
      BY <1>1, <2>1, <3>1 DEF IInv, DatabaseOK, EndedTokens, Forgettable
    <3> QED
      BY <1>1, <3>1, <3>2 DEF EndedTokens, IsSession, Forgettable, Issued
  <2>4. Revocations' /\ CurrentApiTokens'
    BY <1>1
    DEF IInv, DatabaseOK, Revocations, CurrentApiTokens, IsSession, Forgettable
  <2> QED
    BY <2>2, <2>3, <2>4 DEF DatabaseOK
<1> QED
  BY <1>2, <1>4, <1>5, <1>6 DEF IInv

-----------------------------------------------------------------------------
(* The theorems.                                                            *)

LEMMA InitIInv == Init => IInv
<1> SUFFICES ASSUME Init PROVE IInv
  OBVIOUS
<1> USE JtisAssumption
<1>1. TypeOK
  BY UsersAssumption
  DEF Init, TypeOK, Request, Idle, Steps, Operations, Token, Never
<1>2. ASSUME NEW r \in Requests PROVE RequestOK(r)
  BY DEF Init, Idle, RequestOK, StepOK, ArrivalOK, RevocationOK, StaleOK,
         Verified, Accepted
<1>3. FreshJtis
  BY DEF Init, Idle, FreshJtis
<1>4. DatabaseOK
  BY DEF Init, DatabaseOK, SessionTokens, Revocations, EndedTokens,
         CurrentApiTokens, IsSession, NoToken
<1> QED
  BY <1>1, <1>2, <1>3, <1>4 DEF IInv

LEMMA StepIInv == IInv /\ [Next]_vars => IInv'
<1> SUFFICES ASSUME IInv, [Next]_vars PROVE IInv'
  OBVIOUS
<1>1. CASE Tick
  BY <1>1, TickStep
<1>2. ASSUME NEW r \in Requests, Arrive(r) PROVE IInv'
  BY <1>2, ArriveStep
<1>3. ASSUME NEW r \in Requests, Middleware(r) PROVE IInv'
  BY <1>3, MiddlewareStep
<1>4. ASSUME NEW r \in Requests, Handler(r) PROVE IInv'
  BY <1>4, ReadingHandlerStep, IssueSessionStep, InsertRevocationStep,
     SetApiTokenStep, InsertUserStep, RemoveUserStep DEF Handler
<1>5. CASE UNCHANGED vars
  BY <1>5
  DEF vars, IInv, TypeOK, RequestOK, StepOK, ArrivalOK, RevocationOK, StaleOK,
      Verified, Accepted, FreshJtis, DatabaseOK, SessionTokens, Revocations,
      EndedTokens, CurrentApiTokens, IsSession, Forgettable, Issued
<1> QED
  BY <1>1, <1>2, <1>3, <1>4, <1>5 DEF Next

(* Everything above holds in every reachable state.                         *)
THEOREM Invariance == Spec => []IInv
BY InitIInv, StepIInv, PTL DEF Spec

(* The types of the tables, of the tokens and of the requests in flight.    *)
THEOREM TypeCorrect == Spec => []TypeOK
<1>1. IInv => TypeOK
  BY DEF IInv
<1> QED
  BY Invariance, <1>1, PTL

(* A logged out session serves no request that arrives after the logout,    *)
(* unless the request hangs for longer than Ttl - Life.                     *)
THEOREM LogoutIsFinal == Spec => []LoggedOutStaysOut
<1>1. IInv => LoggedOutStaysOut
  BY DEF IInv, RequestOK, StaleOK, Accepted, LoggedOutStaysOut
<1> QED
  BY Invariance, <1>1, PTL

(* A replaced, removed or orphaned API token serves no later request.       *)
THEOREM ApiTokenRetirementIsFinal == Spec => []RetiredApiTokenStaysOut
<1>1. IInv => RetiredApiTokenStaysOut
  BY DEF IInv, RequestOK, StaleOK, Accepted, RetiredApiTokenStaysOut
<1> QED
  BY Invariance, <1>1, PTL

(* The lazy purge never deletes the revocation of a token still valid.      *)
THEOREM PurgeIsHarmless == Spec => PurgeOnlyExpired
<1> DEFINE Harmless ==
      \A j \in Jtis : revokedJti[j] # Never /\ revokedJti'[j] = Never
                        => tokens[j].exp <= now
<1>1. IInv /\ [Next]_vars => [Harmless]_vars
  <2> SUFFICES ASSUME IInv, [Next]_vars, ~UNCHANGED vars PROVE Harmless
    OBVIOUS
  <2>1. CASE UNCHANGED revokedJti
    BY <2>1
  <2>2. ASSUME NEW r \in Requests, PurgeRevoked(r) PROVE Harmless
    <3> DEFINE j == req[r].jti
    <3>1. req[r].pc = "purge" /\ revokedJti' = [revokedJti EXCEPT ![j] = Never]
      BY <2>2 DEF PurgeRevoked, At
    <3>2. j \in Jtis /\ tokens[j].exp \in Nat /\ now >= Forgettable(j)
      BY <3>1, Presented
      DEF IInv, RequestOK, StepOK, Verified, RevocationOK, Token
    <3>3. tokens[j].exp <= now
      BY <3>2, TimesAssumption, TtlCoversLife DEF Forgettable, IInv, TypeOK
    <3> QED
      BY <3>1, <3>2, <3>3 DEF IInv, TypeOK
  <2>3. ASSUME NEW r \in Requests, InsertRevocation(r) PROVE Harmless
    <3> DEFINE j == req[r].jti
               row == IF revokedJti[j] = Never THEN req[r].until
                                               ELSE revokedJti[j]
    <3>1. req[r].pc = "insertRevocation" /\ revokedJti' = [revokedJti EXCEPT ![j] = row]
      BY <2>3 DEF InsertRevocation, At
    <3>2. row # Never
      BY <3>1 DEF IInv, RequestOK, RevocationOK
    <3> HIDE DEF row
    <3> QED
      BY <3>1, <3>2 DEF IInv, TypeOK
  <2>4. UNCHANGED revokedJti
        \/ \E r \in Requests : PurgeRevoked(r) \/ InsertRevocation(r)
    BY DEF Next, Tick, Arrive, Middleware, Verify, CheckApiToken, CheckRevoked,
           FindUser, Handler, Refuse, AnswerQuery, LoginReadUser, IssueSession,
           Logout, PostLogout, GenerateApiToken, RemoveApiToken, SetApiToken,
           CreateUser, InsertUser, RemoveUser, database, vars
  <2> QED
    BY <2>1, <2>2, <2>3, <2>4
<1> QED
  BY Invariance, <1>1, PTL DEF Spec, PurgeOnlyExpired
=============================================================================
