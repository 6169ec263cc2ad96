---------------------------- MODULE OneTimeTokens ----------------------------
(***************************************************************************)
(* Tokens that are consumed by being presented: the short-lived tokens of  *)
(* the event stream (auth/slt.ts) and the state of an OIDC login           *)
(* (saveFlow and consumeFlow in auth/oidc.ts), which have the same code on *)
(* two tables.  Consuming one is a SELECT, a DELETE and a look at the      *)
(* clock, with the requests of every replica interleaved between them.     *)
(***************************************************************************)
EXTENDS Naturals, FiniteSets

CONSTANTS
  Tokens,   (* the random tokens that will be drawn                        *)
  Requests, (* slots for requests in flight                                *)
  NoToken,
  Ttl,      (* TTL_MS of slt.ts, FLOW_TTL_MS of oidc.ts                    *)
  MaxTime,  (* bound on the clock                                          *)
  NoRow     (* a token without a row                                       *)

ASSUME RequestsAssumption == IsFiniteSet(Requests)
ASSUME TtlAssumption == Ttl \in Nat
ASSUME MaxTimeAssumption == MaxTime \in Nat
ASSUME NoTokenAssumption == NoToken \notin Tokens
ASSUME NoRowAssumption == NoRow \notin Nat

VARIABLES
  now,
  table,   (* token -> expiresAt, or NoRow                                 *)
  issued,  (* tokens drawn so far                                          *)
  request, (* the requests in flight                                       *)
  granted, (* history: how often each token was accepted                   *)
  spent    (* history: tokens some request has finished consuming          *)

vars == <<now, table, issued, request, granted, spent>>

(* late: the token was spent before the request arrived.                    *)
Request == [pc : {"idle", "select", "delete", "check"},
            token : Tokens \union {NoToken}, exp : Nat \union {NoRow},
            late : BOOLEAN]

Idle == [pc |-> "idle", token |-> NoToken, exp |-> NoRow, late |-> FALSE]

Init ==
  /\ now = 0
  /\ table = [t \in Tokens |-> NoRow]
  /\ issued = {}
  /\ request = [r \in Requests |-> Idle]
  /\ granted = [t \in Tokens |-> 0]
  /\ spent = {}

-----------------------------------------------------------------------------

At(r, step) == request[r].pc = step
Row(r) == table[request[r].token]

Finish(r) == request' = [request EXCEPT ![r] = Idle]

Tick ==
  /\ now < MaxTime /\ now' = now + 1
  /\ UNCHANGED <<table, issued, request, granted, spent>>

Create(t) ==
  /\ t \notin issued
  /\ issued' = issued \union {t}
  /\ table' = [table EXCEPT ![t] = now + Ttl]
  /\ UNCHANGED <<now, request, granted, spent>>

(* A request presents a token it was given.                                 *)
Present(r, t) ==
  /\ At(r, "idle") /\ t \in issued
  /\ request' = [request EXCEPT ![r] =
       [pc |-> "select", token |-> t, exp |-> NoRow, late |-> t \in spent]]
  /\ UNCHANGED <<now, table, issued, granted, spent>>

(* Mutant: whether there is a row is not looked at.                         *)
SelectUnchecked(r) ==
  /\ At(r, "select")
  /\ request' = [request EXCEPT ![r].pc = "delete", ![r].exp = Row(r)]
  /\ UNCHANGED <<now, table, issued, granted, spent>>

Select(r) ==
  /\ At(r, "select")
  /\ IF Row(r) = NoRow
       THEN Finish(r)
       ELSE request' = [request EXCEPT ![r].pc = "delete", ![r].exp = Row(r)]
  /\ UNCHANGED <<now, table, issued, granted, spent>>

(* Mutant: only expired rows are deleted.                                   *)
DeleteExpired(r) ==
  /\ At(r, "delete")
  /\ table' = [table EXCEPT ![request[r].token] =
                 IF request[r].exp < now THEN NoRow ELSE @]
  /\ request' = [request EXCEPT ![r].pc = "check"]
  /\ UNCHANGED <<now, issued, granted, spent>>

(* The row may be gone by now: how many were deleted is not looked at.      *)
Delete(r) ==
  /\ At(r, "delete")
  /\ table' = [table EXCEPT ![request[r].token] = NoRow]
  /\ request' = [request EXCEPT ![r].pc = "check"]
  /\ UNCHANGED <<now, issued, granted, spent>>

InTime(r) == request[r].exp >= now

Accept(r) ==
  /\ At(r, "check") /\ InTime(r)
  /\ granted' = [granted EXCEPT ![request[r].token] = @ + 1]
  /\ spent' = spent \union {request[r].token}
  /\ Finish(r)
  /\ UNCHANGED <<now, table, issued>>

Refuse(r) ==
  /\ At(r, "check") /\ ~InTime(r)
  /\ spent' = spent \union {request[r].token}
  /\ Finish(r)
  /\ UNCHANGED <<now, table, issued, granted>>

(* The database answers with an error, or not at all after the DELETE.      *)
Fail(r) ==
  /\ ~At(r, "idle")
  /\ Finish(r)
  /\ UNCHANGED <<now, table, issued, granted, spent>>

Step(r) == Select(r) \/ Delete(r) \/ Accept(r) \/ Refuse(r) \/ Fail(r)

Next ==
  \/ Tick
  \/ \E t \in Tokens : Create(t)
  \/ \E r \in Requests : Step(r) \/ \E t \in Tokens : Present(r, t)

Spec == Init /\ [][Next]_vars

-----------------------------------------------------------------------------

TypeOK ==
  /\ now \in 0..MaxTime
  /\ table \in [Tokens -> Nat \union {NoRow}]
  /\ issued \subseteq Tokens /\ spent \subseteq Tokens
  /\ request \in [Requests -> Request]
  /\ granted \in [Tokens -> Nat]
  /\ \A r \in Requests : ~At(r, "idle") => request[r].token \in Tokens
  /\ \A r \in Requests : request[r].pc \in {"delete", "check"} => request[r].exp \in Nat

(* "issues a token that can be consumed once" (auth/slt.test.ts:6).         *)
GrantedOnce == \A t \in Tokens : granted[t] <= 1

(* Once a request has finished consuming a token, no request that arrives   *)
(* later gets as far as consuming it again, on any replica.                 *)
SpentIsFinal ==
  \A r \in Requests : request[r].late => request[r].pc = "select"

(* The tokens as SingleUse knows them: live while there is a row, or while  *)
(* a request that read the row has not decided.                             *)
Holders(t) ==
  {r \in Requests : request[r].pc \in {"delete", "check"} /\ request[r].token = t}
TokenState(t) ==
  IF t \notin issued THEN "unborn"
  ELSE IF table[t] # NoRow \/ Holders(t) # {} THEN "live" ELSE "spent"

Abstract == INSTANCE SingleUse
              WITH token <- [t \in Tokens |-> TokenState(t)],
                   Overlap <- Cardinality(Requests)

(* A token is granted at most once by each of the requests that overlap, and*)
(* requests that come one by one consume it once, as the SELECT and DELETE  *)
(* of consumeSlt and consumeFlow are meant to ensure.                       *)
ImplementsSingleUse == Abstract!Spec
=============================================================================
