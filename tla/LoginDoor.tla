------------------------------ MODULE LoginDoor ------------------------------
(***************************************************************************)
(* What stands before the users table: the limit on password logins, and   *)
(* the verification of an OIDC provider's ID token.                        *)
(*                                                                         *)
(* The limiter counts the attempts of an address and username in windows   *)
(* that begin with an attempt.  The provider's discovery document and      *)
(* signing keys are cached; the provider rotates its keys, the cache       *)
(* expires, and logins that overlap fetch the keys and replace the cache   *)
(* or the keys in it, each with what it was sent at some earlier moment.   *)
(***************************************************************************)
EXTENDS Integers, FiniteSets

CONSTANTS
  Callers,      (* keys of the limiter: address and username                *)
  MaxAttempts,
  Window,       (* its length                                               *)
  MaxClock,     (* bound on the clock                                       *)
  SigningKeys,  (* ids of the provider's keys                               *)
  Logins        (* slots for OIDC callbacks in flight                       *)

ASSUME LimitAssumption == MaxAttempts \in Nat \ {0} /\ Window \in Nat \ {0}
ASSUME ClockAssumption == MaxClock \in Nat

VARIABLES
  clock, buckets, admitted,   (* admitted (history): attempts let through   *)
  published, cache, login

limiterVars == <<clock, buckets, admitted>>
oidcVars == <<published, cache, login>>
doorVars == <<clock, buckets, admitted, published, cache, login>>

NoBucket == [count |-> 0, resetAt |-> 0]
NoCache == [doc |-> FALSE, keys |-> {}]
NoLogin == [pc |-> "idle", keys |-> {}, fresh |-> {}, kid |-> "none",
            rotated |-> FALSE, failed |-> FALSE]

DoorInit ==
  /\ clock = 0 /\ buckets = [c \in Callers |-> NoBucket] /\ admitted = {}
  /\ published \in {{k} : k \in SigningKeys}
  /\ cache = NoCache
  /\ login = [l \in Logins |-> NoLogin]

-----------------------------------------------------------------------------
(* auth/rate-limit.ts                                                       *)

Tick ==
  /\ clock < MaxClock /\ clock' = clock + 1
  /\ UNCHANGED <<buckets, admitted, published, cache, login>>

(* Mutant: an attempt moves the end of its window.                          *)
WindowOfSliding(c) ==
  IF buckets[c].resetAt <= clock THEN NoBucket
  ELSE [buckets[c] EXCEPT !.resetAt = clock]

WindowOf(c) == IF buckets[c].resetAt <= clock THEN NoBucket ELSE buckets[c]

(* allowAttempt: the first attempt after a window's end begins the next.    *)
Attempt(c) ==
  /\ IF WindowOf(c) = NoBucket
       THEN buckets' = [buckets EXCEPT ![c] = [count |-> 1, resetAt |-> clock + Window]]
       ELSE /\ WindowOf(c).count < MaxAttempts
            /\ buckets' = [buckets EXCEPT ![c] = [WindowOf(c) EXCEPT !.count = @ + 1]]
  /\ admitted' = admitted \union
       {[by |-> c, at |-> clock, nr |-> Cardinality({a \in admitted : a.by = c})]}
  /\ UNCHANGED <<clock, published, cache, login>>

-----------------------------------------------------------------------------
(* auth/oidc.ts                                                             *)

Set(l, next) == login' = [login EXCEPT ![l] = next]

(* The provider publishes another key, or retires one.                      *)
Rotate ==
  /\ \E k \in SigningKeys :
       \/ published' = published \union {k} /\ UNCHANGED login
       \/ /\ published # {k}
          /\ published' = published \ {k}
          /\ login' = [l \in Logins |-> [login[l] EXCEPT !.rotated = @ \/ login[l].kid = k]]
  /\ UNCHANGED <<clock, buckets, admitted, cache>>

(* An hour after it was fetched, the cache counts no more.                  *)
CacheExpires ==
  /\ cache' = NoCache
  /\ UNCHANGED <<clock, buckets, admitted, published, login>>

(* exchangeAndVerify begins: discover answers from the cache, or fetches    *)
(* the document and then the keys.                                          *)
Discover(l) ==
  /\ login[l].pc = "idle"
  /\ Set(l, IF cache.doc THEN [NoLogin EXCEPT !.pc = "exchange", !.keys = cache.keys]
                         ELSE [NoLogin EXCEPT !.pc = "keys"])
  /\ UNCHANGED <<clock, buckets, admitted, published, cache>>

(* The provider sends its keys, before the answer arrives.                  *)
SendKeys(l) ==
  /\ login[l].pc \in {"keys", "refresh"}
  /\ Set(l, [login[l] EXCEPT !.fresh = published,
               !.pc = IF login[l].pc = "keys" THEN "store" ELSE "retry"])
  /\ UNCHANGED <<clock, buckets, admitted, published, cache>>

StoreCache(l) ==
  /\ login[l].pc = "store"
  /\ cache' = [doc |-> TRUE, keys |-> login[l].fresh]
  /\ Set(l, [login[l] EXCEPT !.pc = "exchange", !.keys = login[l].fresh])
  /\ UNCHANGED <<clock, buckets, admitted, published>>

(* The code is exchanged for an ID token, signed with a key of that moment. *)
Exchange(l) ==
  /\ login[l].pc = "exchange"
  /\ \E k \in published :
       Set(l, [login[l] EXCEPT !.pc = "lookup", !.kid = k])
  /\ UNCHANGED <<clock, buckets, admitted, published, cache>>

(* Mutant: a key that is not cached is an error at once.                    *)
LookUpOnce(l) ==
  /\ login[l].pc = "lookup"
  /\ Set(l, [login[l] EXCEPT !.pc = IF login[l].kid \in login[l].keys
                                      THEN "accepted" ELSE "refused"])
  /\ UNCHANGED <<clock, buckets, admitted, published, cache>>

(* A key that is not among those discover gave is looked for in a new set.  *)
LookUp(l) ==
  /\ login[l].pc = "lookup"
  /\ Set(l, [login[l] EXCEPT !.pc = IF login[l].kid \in login[l].keys
                                      THEN "accepted" ELSE "refresh"])
  /\ UNCHANGED <<clock, buckets, admitted, published, cache>>

(* The new set also replaces the keys of whatever cache there is by then.   *)
Retry(l) ==
  /\ login[l].pc = "retry"
  /\ cache' = IF cache.doc THEN [cache EXCEPT !.keys = login[l].fresh] ELSE cache
  /\ Set(l, [login[l] EXCEPT !.pc = IF login[l].kid \in login[l].fresh
                                      THEN "accepted" ELSE "refused"])
  /\ UNCHANGED <<clock, buckets, admitted, published>>

(* A fetch fails: the login ends with an error, the cache stays as it is.   *)
FetchFails(l) ==
  /\ login[l].pc \in {"keys", "store", "exchange", "refresh", "retry"}
  /\ Set(l, [login[l] EXCEPT !.pc = "refused", !.failed = TRUE])
  /\ UNCHANGED <<clock, buckets, admitted, published, cache>>

(* The callback redirects to the console, or to the login page.             *)
Redirect(l) ==
  /\ login[l].pc \in {"accepted", "refused"}
  /\ Set(l, NoLogin)
  /\ UNCHANGED <<clock, buckets, admitted, published, cache>>

DoorNext ==
  \/ Tick \/ \E c \in Callers : Attempt(c)
  \/ Rotate \/ CacheExpires
  \/ \E l \in Logins :
       \/ Discover(l) \/ SendKeys(l) \/ StoreCache(l) \/ Exchange(l) \/ LookUp(l)
       \/ Retry(l) \/ FetchFails(l) \/ Redirect(l)

DoorSpec == DoorInit /\ [][DoorNext]_doorVars

-----------------------------------------------------------------------------

DoorTypeOK ==
  /\ \A c \in Callers : /\ buckets[c].count \in 0..MaxAttempts
                        /\ buckets[c].resetAt \in 0..(MaxClock + Window)
  /\ published \in (SUBSET SigningKeys) \ {{}} /\ cache.keys \subseteq SigningKeys
  /\ \A l \in Logins : login[l].keys \union login[l].fresh \subseteq SigningKeys

(* Nobody gets more than the permitted attempts in a window, nor, wherever  *)
(* one looks, more than twice as many in a time as long; and who has made   *)
(* none for that long is let in (auth/rate-limit.ts:13-17).                 *)
AttemptsBounded ==
  \A c \in Callers :
    LET by(from, to) == {a \in admitted : a.by = c /\ a.at >= from /\ a.at < to} IN
    /\ Cardinality(by(buckets[c].resetAt - Window, buckets[c].resetAt)) <= MaxAttempts
    /\ \A t \in 0..clock : Cardinality(by(t, t + Window)) <= 2 * MaxAttempts
    /\ by(clock - Window, clock + 1) = {} => WindowOf(c) = NoBucket

(* A login whose token is signed with a key the provider has not retired    *)
(* meanwhile is never refused for the state of the cache: an old cache, one *)
(* that another login replaced, or keys another login put into it           *)
(* (auth/oidc.ts:154-161).                                                  *)
CurrentKeysAccepted ==
  \A l \in Logins : login[l].pc = "refused" => login[l].rotated \/ login[l].failed

DoorSound == AttemptsBounded /\ CurrentKeysAccepted
=============================================================================
