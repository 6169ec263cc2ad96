------------------------------ MODULE SingleUse ------------------------------
(***************************************************************************)
(* What presenting a single-use token promises: the token is granted while *)
(* it is live, at most once by each of the requests that can overlap, and  *)
(* never again once it is spent.  With Overlap = 1 it is granted once or   *)
(* never.                                                                  *)
(***************************************************************************)
EXTENDS Naturals

CONSTANTS Tokens, Overlap

VARIABLES
  token,  (* "unborn", "live" or "spent"                                   *)
  granted (* how often each token was accepted                             *)

Init == token = [t \in Tokens |-> "unborn"] /\ granted = [t \in Tokens |-> 0]

Issue(t) ==
  /\ token[t] = "unborn"
  /\ token' = [token EXCEPT ![t] = "live"]
  /\ UNCHANGED granted

Grant(t) ==
  /\ token[t] = "live" /\ granted[t] < Overlap
  /\ \E after \in {"live", "spent"} : token' = [token EXCEPT ![t] = after]
  /\ granted' = [granted EXCEPT ![t] = @ + 1]

(* A token that was presented too late, or whose request failed.            *)
Lapse(t) ==
  /\ token[t] = "live"
  /\ token' = [token EXCEPT ![t] = "spent"]
  /\ UNCHANGED granted

Next == \E t \in Tokens : Issue(t) \/ Grant(t) \/ Lapse(t)

Spec == Init /\ [][Next]_<<token, granted>>
=============================================================================
