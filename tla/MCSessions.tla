---------------------------- MODULE MCSessions ----------------------------
EXTENDS Sessions, TLC

Symmetry == Permutations(Requests) \union Permutations(Jtis)

EveryOperation == Operations
DrainWorkload == Operations \ {"postLogout", "createUser", "removeUser"}

SessionTokens == {j \in Jtis : IsSession(j)}
ApiTokens == Issued \ SessionTokens

LoggingOut ==
  \/ \E j \in Jtis : revokedJti[j] # Never
  \/ \E r \in Requests : At(r, "insertRevocation")

(* Bounds: two sessions that may be logged out beside queries and logins,   *)
(* or one session with which API tokens are generated, replaced and removed *)
(* and accounts removed and created.                                        *)
OneSessionOps == Operations \ {"query", "login", "logout", "postLogout"}
SmallMix ==
  /\ Cardinality(SessionTokens) <= 2
  /\ LoggingOut => /\ ApiTokens = {}
                   /\ \A r \in Requests : req[r].op # "apiTokenGenerate"
  /\ ApiTokens # {} => Cardinality(SessionTokens) = 1
  /\ Cardinality(SessionTokens) = 2 => \A r \in Requests : req[r].op \notin OneSessionOps
=============================================================================
