------------------------------ MODULE MCLogins ------------------------------
(***************************************************************************)
(* The two sides of a login in one run: the accounts, and the door before  *)
(* them (the limiter and the OIDC client).  They share no state: the run   *)
(* explores each by itself, chosen by "part", with the other at rest.      *)
(***************************************************************************)
EXTENDS MCAccounts, LoginDoor

VARIABLE part

mcVars == <<vars, doorVars, part>>

MCInit ==
  /\ part \in {"accounts", "door"}
  /\ Init /\ DoorInit
  /\ part = "accounts" => published = {CHOOSE k \in SigningKeys : TRUE}
  /\ part = "door" =>
       /\ users = [u \in Users |-> CHOOSE row \in InitialRows(u) : TRUE]
       /\ idpName = [s \in Subs |-> CHOOSE u \in Users : TRUE]

MCNext ==
  /\ UNCHANGED part
  /\ \/ part = "accounts" /\ Next /\ UNCHANGED doorVars
     \/ part = "door" /\ DoorNext /\ UNCHANGED vars

MCSpec == MCInit /\ [][MCNext]_mcVars

LoginsTypeOK == TypeOK /\ DoorTypeOK

(* The limiter and the OIDC client are explored one at a time too.          *)
Apart ==
  \/ clock = 0 /\ admitted = {}
  \/ cache = NoCache /\ \A l \in Logins : login[l] = NoLogin
=============================================================================
