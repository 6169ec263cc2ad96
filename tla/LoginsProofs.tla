---------------------------- MODULE LoginsProofs ----------------------------
(***************************************************************************)
(* Theorems about the accounts and the door before them, and about the run *)
(* that explores both.                                                     *)
(***************************************************************************)
EXTENDS MCLogins, Counting, FiniteSetTheorems, TLAPS

-----------------------------------------------------------------------------
(***************************************************************************)
(* Theorems about Accounts, for any number of users, identities and        *)
(* overlapping requests.                                                   *)
(*                                                                         *)
(* A request writes by username what it decided on from an earlier read.   *)
(* The invariant says what may be assumed of the row meanwhile (RequestOK):*)
(* a row once read without a legacy hash never has one again, and a row    *)
(* whose password was verified is no provisioned one, unless its name was  *)
(* freed before the write.  Callbacks of one identity may overlap, and     *)
(* LinksCounted bounds what they do: all of those on their way to an       *)
(* account found the identity without one, so with the accounts it has     *)
(* they are no more than its callbacks were at once.                       *)
(***************************************************************************)
RequestOK(r) ==
  /\ req[r].pc # "idle" => req[r].user \in Users
  /\ req[r].pc = "start" /\ req[r].op \in {"login", "changePassword"} => req[r].pw \in Passwords
  /\ req[r].pc \in {"upgrade", "setPassword"} /\ req[r].user \notin haunted =>
       Exists(req[r].user) /\ ~users[req[r].user].provisioned
  /\ req[r].pc = "issue" => ~users[req[r].user].legacy
  /\ req[r].pc = "start" /\ req[r].op = "oidc" => req[r].sub \in Subs
  /\ req[r].pc \in {"byName", "link", "provision"} => req[r].sub \in Subs

AInv == TypeOK /\ (\A r \in Requests : RequestOK(r)) /\ ProvisionedStayPasswordless

(* The callbacks of an identity that found no account of it.                *)
Pending(s) == {r \in Requests : req[r].pc \in {"byName", "link", "provision"} /\ req[r].sub = s}

CallsCounted == \A s \in Subs : Cardinality(Calling(s)) <= peak[s]
LinksCounted ==
  \A s \in Subs : /\ IsFiniteSet(Linked(s))
                  /\ Cardinality(Linked(s)) + Cardinality(Pending(s)) <= peak[s]

-----------------------------------------------------------------------------
(* Rows.                                                                    *)

LEMMA RowIsNotNoRow == ASSUME NEW row \in Row PROVE row # NoRow
<1>1. DOMAIN row = {"password", "legacy", "sub", "provisioned"} BY DEF Row
<1>2. DOMAIN NoRow = {"password", "legacy", "sub", "provisioned", "absent"} BY DEF NoRow
<1> QED BY <1>1, <1>2

LEMMA NoRowFields ==
  /\ NoRow.password = Unusable /\ NoRow.legacy = FALSE /\ NoRow.sub = NoSub
BY DEF NoRow

LEMMA WithPasswordRow ==
  ASSUME NEW row \in Row, NEW p \in Passwords \union {Unusable}
  PROVE  /\ WithPassword(row, p) \in Row /\ ~WithPassword(row, p).legacy
         /\ WithPassword(row, p).sub = row.sub
         /\ WithPassword(row, p).provisioned = row.provisioned
BY DEF WithPassword, Row

LEMMA LocalRow ==
  ASSUME NEW p \in Passwords \union {Unusable}
  PROVE  /\ Local(p, FALSE) \in Row /\ ~Local(p, FALSE).legacy
         /\ Local(p, FALSE).sub = NoSub /\ ~Local(p, FALSE).provisioned
BY DEF Local, Row

LEMMA LinkedRow ==
  ASSUME NEW row \in Row, NEW s \in Subs
  PROVE  LET new == [row EXCEPT !.sub = s] IN
         /\ new \in Row /\ new.legacy = row.legacy /\ new.sub = s
         /\ new.provisioned = row.provisioned /\ new.password = row.password
BY DEF Row

LEMMA ProvisionedRow ==
  ASSUME NEW s \in Subs
  PROVE  LET new == [Local(Unusable, FALSE) EXCEPT !.sub = s, !.provisioned = TRUE] IN
         /\ new \in Row /\ ~new.legacy /\ new.sub = s /\ new.password = Unusable
BY DEF Row, Local

-----------------------------------------------------------------------------
(* What a write of the table may do to be harmless to everybody.            *)
TableStep ==
  /\ users' \in [Users -> Row \union {NoRow}]
  /\ haunted \subseteq haunted' /\ haunted' \subseteq Users
  /\ \A u \in Users :
       /\ users'[u].legacy => users[u].legacy
       /\ PasswordDue(u) /\ u \notin haunted' /\ Exists(u) /\ ~users[u].provisioned =>
            users'[u] # NoRow /\ ~users'[u].provisioned

LEMMA OthersKeep ==
  ASSUME AInv, TableStep, NEW q \in Requests, req'[q] = req[q]
  PROVE  RequestOK(q)'
<1>1. RequestOK(q) BY DEF AInv
<1>2. req[q].pc # "idle" => req[q].user \in Users BY <1>1 DEF RequestOK
<1>3. req[q].pc \in {"upgrade", "setPassword"} => PasswordDue(req[q].user) BY DEF PasswordDue
<1> QED BY <1>1, <1>2, <1>3 DEF RequestOK, TableStep, Exists

LEMMA AInvInit == Init => AInv
<1> SUFFICES ASSUME Init PROVE AInv OBVIOUS
<1>1. \A u \in Users : users[u] \in InitialRows(u) BY DEF Init
<1>2. ASSUME NEW u \in Users
      PROVE  /\ users[u] \in Row \union {NoRow}
             /\ users[u] # NoRow => users[u].sub = NoSub /\ ~users[u].provisioned
  <2>1. ASSUME NEW p \in Passwords, NEW b \in BOOLEAN
        PROVE  Local(p, b) \in Row /\ Local(p, b).sub = NoSub /\ ~Local(p, b).provisioned
    BY DEF Local, Row
  <2>2. users[u] \in {Local(p, TRUE) : p \in Passwords} \union {Local(p, FALSE) : p \in Passwords}
          \union {NoRow}
    BY <1>1 DEF InitialRows
  <2> QED BY <2>1, <2>2
<1>3. users \in [Users -> Row \union {NoRow}]
  <2>1. users \in [Users -> UNION {InitialRows(u) : u \in Users}] BY DEF Init
  <2> QED BY <2>1, <1>2
<1>4. /\ req = [r \in Requests |-> Idle] /\ haunted = {} /\ idpName \in [Subs -> Users]
      /\ peak = [s \in Subs |-> 0]
  BY DEF Init
<1>5. Idle \in Request BY DEF Idle, Request, Steps, Operations
<1>6. TypeOK BY <1>3, <1>4, <1>5 DEF TypeOK
<1>7. \A r \in Requests : req[r].pc = "idle" BY <1>4 DEF Idle
<1> QED BY <1>2, <1>6, <1>7 DEF AInv, RequestOK, ProvisionedStayPasswordless, Exists

-----------------------------------------------------------------------------
(* A request that ends leaves a harmless record.                            *)
LEMMA Finished ==
  ASSUME AInv, NEW r \in Requests, Finish(r)
  PROVE  /\ req' \in [Requests -> Request] /\ RequestOK(r)'
         /\ \A q \in Requests \ {r} : req'[q] = req[q]
<1>1. req \in [Requests -> Request] BY DEF AInv, TypeOK
<1>2. Idle \in Request /\ Idle.pc = "idle" BY DEF Idle, Request, Steps, Operations
<1>3. req'[r] = Idle /\ \A q \in Requests \ {r} : req'[q] = req[q] BY <1>1 DEF Finish
<1>4. req' \in [Requests -> Request] BY <1>1, <1>2 DEF Finish
<1> QED BY <1>2, <1>3, <1>4 DEF RequestOK

LEMMA GoesOn ==
  ASSUME AInv, NEW r \in Requests, NEW step \in Steps, Goto(r, step), req[r].pc # "idle"
  PROVE  /\ req' \in [Requests -> Request]
         /\ req'[r].pc = step /\ req'[r].user = req[r].user /\ req'[r].sub = req[r].sub
         /\ req'[r].op = req[r].op /\ req'[r].pw = req[r].pw
         /\ \A q \in Requests \ {r} : req'[q] = req[q]
<1>1. req \in [Requests -> Request] BY DEF AInv, TypeOK
<1>2. req' = [req EXCEPT ![r].pc = step] BY DEF Goto
<1>3. req[r] \in Request BY <1>1
<1>4. [req[r] EXCEPT !.pc = step] \in Request BY <1>3 DEF Request
<1>5. req'[r] = [req[r] EXCEPT !.pc = step] /\ \A q \in Requests \ {r} : req'[q] = req[q]
  BY <1>1, <1>2
<1>6. /\ req'[r].pc = step /\ req'[r].user = req[r].user /\ req'[r].sub = req[r].sub
      /\ req'[r].op = req[r].op /\ req'[r].pw = req[r].pw
  BY <1>5, <1>3 DEF Request
<1>7. req' \in [Requests -> Request] BY <1>1, <1>2, <1>4
<1> QED BY <1>5, <1>6, <1>7

(* A statement that only reads: the request alone moves.                    *)
LEMMA ReadOnly ==
  ASSUME AInv, UNCHANGED <<users, idpName, haunted>>, peak' \in [Subs -> Nat],
         NEW r \in Requests, req' \in [Requests -> Request], RequestOK(r)',
         \A q \in Requests \ {r} : req'[q] = req[q]
  PROVE  AInv'
<1>1. ASSUME NEW q \in Requests PROVE RequestOK(q)'
  BY DEF AInv, RequestOK, Exists
<1>2. TypeOK' BY DEF AInv, TypeOK
<1>3. ProvisionedStayPasswordless' BY DEF AInv, ProvisionedStayPasswordless, Exists
<1> QED BY <1>1, <1>2, <1>3 DEF AInv

LEMMA ReadSteps == ASSUME AInv, NEW r \in Requests PROVE
  /\ LoginReadUser(r) => AInv'
  /\ ChangeReadUser(r) => AInv'
  /\ CreateReadUser(r) => AInv'
  /\ OidcReadBySub(r) => AInv'
  /\ OidcReadByName(r) => AInv'
  /\ IssueSession(r) => AInv'
<1>r. RequestOK(r) /\ req[r] \in Request BY DEF AInv, TypeOK
<1>u. /\ users \in [Users -> Row \union {NoRow}] /\ ProvisionedStayPasswordless
      /\ peak \in [Subs -> Nat]
  BY DEF AInv, TypeOK
<1>s. {"idle", "start", "upgrade", "issue", "setPassword", "insertUser", "byName", "link",
       "provision"} \subseteq Steps
  BY DEF Steps
<1>f. ASSUME Finish(r), UNCHANGED <<users, idpName, history>> PROVE AInv'
  BY <1>f, <1>u, Finished, ReadOnly DEF history
(* Who verified a password has read an account that is not provisioned.     *)
<1>p. ASSUME req[r].user \in Users, users[req[r].user].password = req[r].pw,
             req[r].pw \in Passwords, req[r].user \notin haunted
      PROVE  Exists(req[r].user) /\ ~users[req[r].user].provisioned
  <2>1. users[req[r].user] # NoRow BY <1>p, NoRowFields, PasswordsAssumption
  <2>2. Exists(req[r].user) BY <2>1 DEF Exists
  <2> QED BY <2>2, <1>p, <1>u, PasswordsAssumption DEF ProvisionedStayPasswordless
<1>g. ASSUME NEW step \in Steps, Goto(r, step), req[r].pc # "idle",
             UNCHANGED <<users, idpName, history>>, RequestOK(r)'
      PROVE  AInv'
  BY <1>g, <1>u, GoesOn, ReadOnly DEF history
<1>1. ASSUME LoginReadUser(r) PROVE AInv'
  <2>1. req[r].pc = "start" /\ req[r].op = "login" /\ UNCHANGED <<users, idpName, history>>
    BY <1>1 DEF LoginReadUser, Handling, At
  <2>2. req[r].user \in Users /\ req[r].pw \in Passwords BY <2>1, <1>r DEF RequestOK
  <2>3. CASE users[req[r].user].password = req[r].pw /\ Goto(r, "upgrade")
    <3>1. req'[r].pc = "upgrade" /\ req'[r].user = req[r].user BY <2>1, <2>3, <1>s, GoesOn
    <3>2. users' = users /\ haunted' = haunted BY <2>1 DEF history
    <3>3. RequestOK(r)' BY <3>1, <3>2, <2>1, <2>2, <2>3, <1>p DEF RequestOK, Exists
    <3> QED BY <3>3, <2>1, <2>3, <1>s, <1>g
  <2>4. CASE ~users[req[r].user].legacy /\ Goto(r, "issue")
    <3>1. req'[r].pc = "issue" /\ req'[r].user = req[r].user BY <2>1, <2>4, <1>s, GoesOn
    <3>2. RequestOK(r)' BY <3>1, <2>1, <2>2, <2>4 DEF RequestOK
    <3> QED BY <3>2, <2>1, <2>4, <1>s, <1>g
  <2> QED BY <1>1, <1>f, <2>1, <2>3, <2>4 DEF LoginReadUser
<1>2. ASSUME ChangeReadUser(r) PROVE AInv'
  <2>1. req[r].pc = "start" /\ req[r].op = "changePassword" /\ UNCHANGED <<users, idpName, history>>
    BY <1>2 DEF ChangeReadUser, Handling, At
  <2>2. req[r].user \in Users /\ req[r].pw \in Passwords BY <2>1, <1>r DEF RequestOK
  <2>3. CASE users[req[r].user].password = req[r].pw /\ Goto(r, "setPassword")
    <3>1. req'[r].pc = "setPassword" /\ req'[r].user = req[r].user BY <2>1, <2>3, <1>s, GoesOn
    <3>2. users' = users /\ haunted' = haunted BY <2>1 DEF history
    <3>3. RequestOK(r)' BY <3>1, <3>2, <2>1, <2>2, <2>3, <1>p DEF RequestOK, Exists
    <3> QED BY <3>3, <2>1, <2>3, <1>s, <1>g
  <2> QED BY <1>2, <1>f, <2>1, <2>3 DEF ChangeReadUser
<1>3. ASSUME CreateReadUser(r) PROVE AInv'
  <2>1. req[r].pc = "start" /\ UNCHANGED <<users, idpName, history>>
    BY <1>3 DEF CreateReadUser, Handling, At
  <2>2. CASE Goto(r, "insertUser")
    <3>1. req'[r].pc = "insertUser" /\ req'[r].user = req[r].user BY <2>1, <2>2, <1>s, GoesOn
    <3>2. RequestOK(r)' BY <3>1, <2>1, <1>r DEF RequestOK
    <3> QED BY <3>2, <2>1, <2>2, <1>s, <1>g
  <2> QED BY <1>3, <1>f, <2>1, <2>2 DEF CreateReadUser
<1>4. ASSUME OidcReadBySub(r) PROVE AInv'
  <2>1. req[r].pc = "start" /\ req[r].op = "oidc" /\ UNCHANGED <<users, idpName, history>>
    BY <1>4 DEF OidcReadBySub, Handling, At
  <2>2. CASE Goto(r, "byName")
    <3>1. req'[r].pc = "byName" /\ req'[r].user = req[r].user /\ req'[r].sub = req[r].sub
      BY <2>1, <2>2, <1>s, GoesOn
    <3>2. RequestOK(r)' BY <3>1, <2>1, <1>r DEF RequestOK
    <3> QED BY <3>2, <2>1, <2>2, <1>s, <1>g
  <2> QED BY <1>4, <1>f, <2>1, <2>2 DEF OidcReadBySub
<1>5. ASSUME OidcReadByName(r) PROVE AInv'
  <2>1. req[r].pc = "byName" /\ UNCHANGED <<users, idpName, history>>
    BY <1>5 DEF OidcReadByName, At
  <2>2. PICK step \in {"link", "provision"} : Goto(r, step) BY <1>5 DEF OidcReadByName
  <2>3. req'[r].pc = step /\ req'[r].user = req[r].user /\ req'[r].sub = req[r].sub
    BY <2>1, <2>2, <1>s, GoesOn
  <2>5. RequestOK(r)' BY <2>1, <2>2, <2>3, <1>r DEF RequestOK
  <2> QED BY <2>1, <2>2, <2>5, <1>s, <1>g
<1>6. ASSUME IssueSession(r) PROVE AInv'
  BY <1>6, <1>f DEF IssueSession
<1> QED BY <1>1, <1>2, <1>3, <1>4, <1>5, <1>6

-----------------------------------------------------------------------------
(* A statement that writes: the table stays well formed, every row of it    *)
(* harmless; the request moves on or ends.                                  *)
LEMMA Written ==
  ASSUME AInv, NEW r \in Requests, TableStep, UNCHANGED <<idpName, peak>>,
         req' \in [Requests -> Request], RequestOK(r)',
         \A q \in Requests \ {r} : req'[q] = req[q],
         ProvisionedStayPasswordless'
  PROVE  AInv'
<1>1. ASSUME NEW q \in Requests \ {r} PROVE RequestOK(q)'
  BY OthersKeep
<1>2. TypeOK' BY DEF AInv, TypeOK, TableStep
<1> QED BY <1>1, <1>2 DEF AInv

(* The row of one account is written.                                       *)
LEMMA OneRow ==
  ASSUME AInv, NEW u \in Users, NEW row \in Row,
         users' = [users EXCEPT ![u] = row], haunted' = haunted,
         row.legacy => users[u].legacy,
         Exists(u) /\ ~users[u].provisioned /\ u \notin haunted => ~row.provisioned,
         row.provisioned /\ u \notin haunted => row.password = Unusable
  PROVE  TableStep /\ ProvisionedStayPasswordless'
<1>1. users \in [Users -> Row \union {NoRow}] /\ haunted \subseteq Users BY DEF AInv, TypeOK
<1>2. users'[u] = row /\ \A v \in Users \ {u} : users'[v] = users[v] BY <1>1
<1>3. row # NoRow BY RowIsNotNoRow
<1>4. users' \in [Users -> Row \union {NoRow}] BY <1>1
<1>5. TableStep BY <1>1, <1>2, <1>3, <1>4 DEF TableStep, Exists
<1>6. ProvisionedStayPasswordless'
  BY <1>2 DEF AInv, ProvisionedStayPasswordless, Exists
<1> QED BY <1>5, <1>6

(* Nothing is written: the UPDATE finds no row, the INSERT a duplicate.     *)
LEMMA NoWrite ==
  ASSUME AInv, users' = users, haunted' = haunted
  PROVE  TableStep /\ ProvisionedStayPasswordless'
BY DEF AInv, TypeOK, TableStep, ProvisionedStayPasswordless, Exists

LEMMA WriteSteps == ASSUME AInv, NEW r \in Requests PROVE
  /\ UpgradeHash(r) => AInv'
  /\ SetPassword(r) => AInv'
  /\ InsertUser(r) => AInv'
  /\ RemoveUser(r) => AInv'
  /\ LinkUser(r) => AInv'
  /\ ProvisionUser(r) => AInv'
<1> DEFINE u == req[r].user
<1>r. RequestOK(r) /\ req[r] \in Request BY DEF AInv, TypeOK
<1>u. users \in [Users -> Row \union {NoRow}] BY DEF AInv, TypeOK
<1>w. req[r].pw \in Passwords \union {Unusable} /\ req[r].next \in Passwords \union {Unusable}
      /\ req[r].sub \in Subs \union {NoSub}
  BY <1>r DEF Request
<1>n. req[r].pc # "idle" => u \in Users BY <1>r DEF RequestOK
<1> HIDE DEF u
(* A new password on the row the request read, or on what is there now.     *)
<1>p. ASSUME NEW p \in Passwords \union {Unusable}, req[r].pc \in {"upgrade", "setPassword"},
             UpdateRow(u, WithPassword(users[u], p)), haunted' = haunted, u \in Users
      PROVE  TableStep /\ ProvisionedStayPasswordless' /\ ~users'[u].legacy
  <2>1. CASE Exists(u)
    <3>1. users[u] \in Row BY <2>1, <1>u, <1>p DEF Exists
    <3> DEFINE row == WithPassword(users[u], p)
    <3>2. row \in Row /\ ~row.legacy /\ row.provisioned = users[u].provisioned
      BY <3>1, <1>p, WithPasswordRow
    <3> HIDE DEF row
    <3>3. users' = [users EXCEPT ![u] = row] BY <2>1, <1>p DEF UpdateRow, row
    <3>4. u \notin haunted => ~row.provisioned BY <3>2, <1>p, <1>r DEF RequestOK, u
    <3>5. TableStep /\ ProvisionedStayPasswordless'
      BY <3>2, <3>3, <3>4, <1>p, OneRow
    <3>6. users'[u] = row BY <3>3, <1>u, <1>p
    <3> QED BY <3>2, <3>5, <3>6
  <2>2. CASE ~Exists(u)
    <3>1. users' = users BY <2>2, <1>p DEF UpdateRow
    <3>2. ~users'[u].legacy BY <3>1, <2>2, NoRowFields DEF Exists
    <3> QED BY <3>1, <3>2, <1>p, NoWrite
  <2> QED BY <2>1, <2>2
<1>1. ASSUME UpgradeHash(r) PROVE AInv'
  <2>1. /\ req[r].pc = "upgrade" /\ UpdateRow(u, WithPassword(users[u], req[r].pw))
        /\ Goto(r, "issue") /\ UNCHANGED <<idpName, haunted, peak>>
    BY <1>1 DEF UpgradeHash, At, u, history
  <2>2. u \in Users BY <2>1, <1>n
  <2>3. TableStep /\ ProvisionedStayPasswordless' /\ ~users'[u].legacy
    BY <2>1, <2>2, <1>p, <1>w
  <2>4. /\ req' \in [Requests -> Request] /\ req'[r].pc = "issue" /\ req'[r].user = u
        /\ \A q \in Requests \ {r} : req'[q] = req[q]
    BY <2>1, GoesOn DEF Steps, u
  <2>5. RequestOK(r)' BY <2>2, <2>3, <2>4 DEF RequestOK
  <2> QED BY <2>1, <2>3, <2>4, <2>5, Written
<1>2. ASSUME SetPassword(r) PROVE AInv'
  <2>1. /\ req[r].pc = "setPassword" /\ UpdateRow(u, WithPassword(users[u], req[r].next))
        /\ Finish(r) /\ UNCHANGED <<idpName, haunted, peak>>
    BY <1>2 DEF SetPassword, At, u, history
  <2>2. TableStep /\ ProvisionedStayPasswordless'
    BY <2>1, <1>n, <1>p, <1>w
  <2> QED BY <2>1, <2>2, Finished, Written
<1>3. ASSUME InsertUser(r) PROVE AInv'
  <2>1. /\ req[r].pc = "insertUser" /\ Finish(r) /\ UNCHANGED <<idpName, haunted, peak>>
        /\ users' = IF Exists(u) THEN users ELSE [users EXCEPT ![u] = Local(req[r].pw, FALSE)]
    BY <1>3 DEF InsertUser, At, u, history
  <2>2. TableStep /\ ProvisionedStayPasswordless'
    <3>1. CASE Exists(u) BY <3>1, <2>1, NoWrite
    <3>2. CASE ~Exists(u)
      <4> DEFINE row == Local(req[r].pw, FALSE)
      <4>1. row \in Row /\ ~row.legacy /\ ~row.provisioned BY <1>w, LocalRow
      <4> HIDE DEF row
      <4>2. users' = [users EXCEPT ![u] = row] /\ u \in Users BY <3>2, <2>1, <1>n DEF row
      <4> QED BY <4>1, <4>2, <3>2, <2>1, OneRow
    <3> QED BY <3>1, <3>2
  <2> QED BY <2>1, <2>2, Finished, Written
<1>4. ASSUME RemoveUser(r) PROVE AInv'
  <2>1. /\ req[r].pc = "start" /\ Finish(r) /\ UNCHANGED <<idpName, peak>>
        /\ users' = [users EXCEPT ![u] = NoRow]
        /\ haunted' = haunted \union {v \in {u} : PasswordDue(v)}
    BY <1>4 DEF RemoveUser, Handling, At, u
  <2>2. u \in Users /\ haunted \subseteq Users BY <2>1, <1>n DEF AInv, TypeOK
  <2>3. users'[u] = NoRow /\ \A v \in Users \ {u} : users'[v] = users[v] BY <2>1, <2>2, <1>u
  <2>4. users' \in [Users -> Row \union {NoRow}] BY <2>1, <1>u
  <2>5. PasswordDue(u) => u \in haunted' BY <2>1
  <2>6. haunted \subseteq haunted' /\ haunted' \subseteq Users BY <2>1, <2>2
  <2>7. TableStep
    BY <2>3, <2>4, <2>5, <2>6, NoRowFields DEF TableStep, Exists
  <2>8. ProvisionedStayPasswordless'
    BY <2>3, <2>6 DEF AInv, ProvisionedStayPasswordless, Exists
  <2> QED BY <2>1, <2>7, <2>8, Finished, Written
<1>5. ASSUME LinkUser(r) PROVE AInv'
  <2>1. /\ req[r].pc = "link" /\ Finish(r) /\ UNCHANGED <<idpName, haunted, peak>>
        /\ UpdateRow(u, [users[u] EXCEPT !.sub = req[r].sub])
    BY <1>5 DEF LinkUser, At, u, history
  <2>2. req[r].sub \in Subs /\ u \in Users
    BY <2>1, <1>r, <1>n DEF RequestOK
  <2>3. TableStep /\ ProvisionedStayPasswordless'
    <3>1. CASE ~Exists(u) BY <3>1, <2>1, NoWrite DEF UpdateRow
    <3>2. CASE Exists(u)
      <4>1. users[u] \in Row BY <3>2, <2>2, <1>u DEF Exists
      <4> DEFINE row == [users[u] EXCEPT !.sub = req[r].sub]
      <4>2. row \in Row /\ row.legacy = users[u].legacy
            /\ row.provisioned = users[u].provisioned /\ row.password = users[u].password
        BY <4>1, <2>2, LinkedRow
      <4> HIDE DEF row
      <4>3. users' = [users EXCEPT ![u] = row] BY <3>2, <2>1 DEF UpdateRow, row
      <4>4. row.provisioned /\ u \notin haunted => row.password = Unusable
        BY <4>2, <3>2, <2>2 DEF AInv, ProvisionedStayPasswordless
      <4> QED BY <4>2, <4>3, <4>4, <2>1, <2>2, OneRow
    <3> QED BY <3>1, <3>2
  <2> QED BY <2>1, <2>3, Finished, Written
<1>6. ASSUME ProvisionUser(r) PROVE AInv'
  <2> DEFINE row == [Local(Unusable, FALSE) EXCEPT !.sub = req[r].sub, !.provisioned = TRUE]
  <2>1. /\ req[r].pc = "provision" /\ Finish(r) /\ UNCHANGED <<idpName, haunted, peak>>
        /\ users' = IF Exists(u) THEN users ELSE [users EXCEPT ![u] = row]
    BY <1>6 DEF ProvisionUser, At, u, history
  <2>2. req[r].sub \in Subs /\ u \in Users
    BY <2>1, <1>r, <1>n DEF RequestOK
  <2>3. row \in Row /\ ~row.legacy /\ row.password = Unusable
    BY <2>2, ProvisionedRow
  <2> HIDE DEF row
  <2>4. TableStep /\ ProvisionedStayPasswordless'
    <3>1. CASE Exists(u) BY <3>1, <2>1, NoWrite
    <3>2. CASE ~Exists(u) BY <3>2, <2>1, <2>2, <2>3, OneRow
    <3> QED BY <3>1, <3>2
  <2> QED BY <2>1, <2>4, Finished, Written
<1> QED BY <1>1, <1>2, <1>3, <1>4, <1>5, <1>6

-----------------------------------------------------------------------------
LEMMA CallsFinite ==
  ASSUME NEW s
  PROVE  IsFiniteSet(Calling(s)) /\ Cardinality(Calling(s)) \in Nat
BY RequestsAssumption, FS_Subset, FS_CardinalityType DEF Calling

LEMMA ArriveSteps == ASSUME AInv, NEW r \in Requests PROVE
  /\ Arrive(r) => AInv'
  /\ ArriveCallback(r) => AInv'
<1>t. /\ req \in [Requests -> Request] /\ idpName \in [Subs -> Users]
      /\ peak \in [Subs -> Nat]
  BY DEF AInv, TypeOK
<1>1. ASSUME Arrive(r) PROVE AInv'
  <2>1. PICK op \in Workload \ {"oidc"}, u \in Users,
             p \in Passwords \union {Unusable}, q \in Passwords \union {Unusable} :
          /\ op # "removeUser" => p \in Passwords
          /\ req' = [req EXCEPT ![r] =
               [Idle EXCEPT !.pc = "start", !.op = op, !.user = u, !.pw = p, !.next = q]]
    <3>1. PICK op \in Workload \ {"oidc"}, u \in Users :
            \E p \in (IF op = "removeUser" THEN {Unusable} ELSE Passwords),
               q \in (IF op = "changePassword" THEN Passwords ELSE {Unusable}) :
              req' = [req EXCEPT ![r] =
                [Idle EXCEPT !.pc = "start", !.op = op, !.user = u, !.pw = p, !.next = q]]
      BY <1>1 DEF Arrive
    <3>2. PICK p \in (IF op = "removeUser" THEN {Unusable} ELSE Passwords),
               q \in (IF op = "changePassword" THEN Passwords ELSE {Unusable}) :
            req' = [req EXCEPT ![r] =
              [Idle EXCEPT !.pc = "start", !.op = op, !.user = u, !.pw = p, !.next = q]]
      BY <3>1
    <3> QED BY <3>2
  <2> DEFINE new == [Idle EXCEPT !.pc = "start", !.op = op, !.user = u, !.pw = p, !.next = q]
  <2>3. /\ new \in Request /\ new.pc = "start" /\ new.op = op /\ new.user = u
        /\ new.pw = p /\ new.sub = NoSub
    BY WorkloadAssumption DEF Idle, Request, Steps
  <2>2. req' = [req EXCEPT ![r] = new] BY <2>1
  <2> HIDE DEF new
  <2>4. req'[r] = new /\ \A s \in Requests \ {r} : req'[s] = req[s] BY <2>2, <1>t
  <2>5. req' \in [Requests -> Request] BY <2>2, <2>3, <1>t
  <2>6. UNCHANGED <<users, idpName, haunted, peak>> BY <1>1 DEF Arrive, history
  <2>7. RequestOK(r)' BY <2>3, <2>4, <2>1 DEF RequestOK
  <2> QED BY <2>4, <2>5, <2>6, <2>7, <1>t, ReadOnly
<1>2. ASSUME ArriveCallback(r) PROVE AInv'
  <2>1. PICK s \in Subs :
            req' = [req EXCEPT ![r] =
              [Idle EXCEPT !.pc = "start", !.op = "oidc", !.user = idpName[s], !.sub = s]]
    BY <1>2 DEF ArriveCallback
  <2> DEFINE new == [Idle EXCEPT !.pc = "start", !.op = "oidc", !.user = idpName[s], !.sub = s]
  <2>3. /\ new \in Request /\ new.pc = "start" /\ new.op = "oidc" /\ new.user = idpName[s]
        /\ new.sub = s
    BY <1>t DEF Idle, Request, Steps, Operations
  <2>2. req' = [req EXCEPT ![r] = new] BY <2>1
  <2> HIDE DEF new
  <2>4. req'[r] = new /\ \A q \in Requests \ {r} : req'[q] = req[q] BY <2>2, <1>t
  <2>5. req' \in [Requests -> Request] BY <2>2, <2>3, <1>t
  <2>6. UNCHANGED <<users, idpName, haunted>> /\ peak' \in [Subs -> Nat]
    BY <1>2, <1>t, CallsFinite DEF ArriveCallback
  <2>7. RequestOK(r)' BY <2>3, <2>4, <1>t DEF RequestOK
  <2> QED BY <2>4, <2>5, <2>6, <2>7, ReadOnly
<1> QED BY <1>1, <1>2

LEMMA AInvNext == AInv /\ [Next]_vars => AInv'
<1> SUFFICES ASSUME AInv, [Next]_vars PROVE AInv' OBVIOUS
<1>1. CASE UNCHANGED <<users, haunted, peak, req>> /\ idpName' \in [Subs -> Users]
  BY <1>1 DEF AInv, TypeOK, RequestOK, ProvisionedStayPasswordless, Exists
<1>2. CASE Rename
  <2>1. idpName' \in [Subs -> Users] BY <1>2 DEF Rename, AInv, TypeOK
  <2> QED BY <2>1, <1>1, <1>2 DEF Rename, history
<1>3. CASE UNCHANGED vars BY <1>1, <1>3 DEF vars, history, AInv, TypeOK
<1>4. ASSUME NEW r \in Requests, Arrive(r) \/ ArriveCallback(r) \/ Handler(r) PROVE AInv'
  BY <1>4, ArriveSteps, ReadSteps, WriteSteps DEF Handler
<1> QED BY <1>2, <1>3, <1>4 DEF Next

-----------------------------------------------------------------------------
(* Counting the callbacks of an identity and its accounts.                  *)
Counts == CallsCounted /\ LinksCounted

LEMMA CountsInit == Init => Counts
<1> SUFFICES ASSUME Init, NEW s \in Subs
      PROVE  /\ Cardinality(Calling(s)) <= peak[s] /\ IsFiniteSet(Linked(s))
             /\ Cardinality(Linked(s)) + Cardinality(Pending(s)) <= peak[s]
  BY DEF Counts, CallsCounted, LinksCounted
<1>1. peak[s] = 0 /\ \A r \in Requests : req[r].pc = "idle" BY DEF Init, Idle
<1>2. Calling(s) = {} /\ Pending(s) = {} BY <1>1 DEF Calling, Pending, At
<1>3. ASSUME NEW u \in Users, Exists(u) PROVE users[u].sub # s
  <2>1. users[u] \in InitialRows(u) BY DEF Init
  <2>2. users[u] \in {Local(p, TRUE) : p \in Passwords} \union {Local(p, FALSE) : p \in Passwords}
    BY <2>1, <1>3 DEF InitialRows, Exists
  <2> QED BY <2>2, SubsAssumption DEF Local
<1>4. Linked(s) = {} BY <1>3 DEF Linked
<1>5. IsFiniteSet({}) /\ Cardinality({}) = 0 BY FS_EmptySet
<1> QED BY <1>1, <1>2, <1>4, <1>5

(* The bound stays while callbacks and accounts only go.                    *)
LEMMA Leaving ==
  ASSUME AInv, LinksCounted, NEW s \in Subs, Linked(s)' \subseteq Linked(s),
         Pending(s)' \subseteq Pending(s), peak'[s] = peak[s]
  PROVE  /\ IsFiniteSet(Linked(s)')
         /\ Cardinality(Linked(s)') + Cardinality(Pending(s)') <= peak'[s]
<1>1. IsFiniteSet(Linked(s)) /\ Cardinality(Linked(s)) + Cardinality(Pending(s)) <= peak[s]
  BY DEF LinksCounted
<1>2. Pending(s) \in SUBSET Requests BY DEF Pending
<1>3. /\ Cardinality(Pending(s)) \in Nat /\ Cardinality(Pending(s)') \in Nat
      /\ Cardinality(Pending(s)') <= Cardinality(Pending(s))
  BY <1>2, RequestsAssumption, Fewer
<1>4. /\ Cardinality(Linked(s)) \in Nat /\ Cardinality(Linked(s)') \in Nat
      /\ Cardinality(Linked(s)') <= Cardinality(Linked(s))
  BY <1>1, Fewer
<1>5. IsFiniteSet(Linked(s)') BY <1>1, FS_Subset
<1>6. peak[s] \in Nat BY DEF AInv, TypeOK
<1> QED BY <1>1, <1>3, <1>4, <1>5, <1>6

(* A callback that links its account is on its way no longer.               *)
LEMMA Arriving ==
  ASSUME AInv, LinksCounted, NEW r \in Requests, NEW s \in Subs, NEW u,
         r \in Pending(s), Linked(s)' \subseteq Linked(s) \union {u},
         Pending(s)' \subseteq Pending(s) \ {r}, peak'[s] = peak[s]
  PROVE  /\ IsFiniteSet(Linked(s)')
         /\ Cardinality(Linked(s)') + Cardinality(Pending(s)') <= peak'[s]
<1>1. IsFiniteSet(Linked(s)) /\ Cardinality(Linked(s)) + Cardinality(Pending(s)) <= peak[s]
  BY DEF LinksCounted
<1>2. Pending(s) \in SUBSET Requests /\ Pending(s)' \in SUBSET Pending(s) BY DEF Pending
<1>3. r \in Pending(s) \ Pending(s)' OBVIOUS
<1>4. /\ Cardinality(Pending(s)) \in Nat /\ Cardinality(Pending(s)') \in Nat
      /\ Cardinality(Pending(s)') + 1 <= Cardinality(Pending(s))
  BY <1>2, <1>3, RequestsAssumption, Fewer
<1>5. /\ IsFiniteSet(Linked(s) \union {u})
      /\ Cardinality(Linked(s) \union {u}) <= Cardinality(Linked(s)) + 1
  <2>1. Cardinality(Linked(s)) \in Nat BY <1>1, FS_CardinalityType
  <2>2. CASE u \in Linked(s)
    <3>1. Linked(s) \union {u} = Linked(s) BY <2>2
    <3> QED BY <3>1, <2>1, <1>1
  <2>3. CASE u \notin Linked(s)
    <3>1. /\ IsFiniteSet(Linked(s) \union {u})
          /\ Cardinality(Linked(s) \union {u}) = Cardinality(Linked(s)) + 1
      BY <2>3, <1>1, FS_AddElement
    <3> QED BY <3>1, <2>1
  <2> QED BY <2>2, <2>3
<1>6. /\ Cardinality(Linked(s)) \in Nat /\ Cardinality(Linked(s) \union {u}) \in Nat
      /\ Cardinality(Linked(s)') \in Nat /\ IsFiniteSet(Linked(s)')
      /\ Cardinality(Linked(s)') <= Cardinality(Linked(s) \union {u})
  BY <1>1, <1>5, FS_Subset, FS_CardinalityType
<1>7. peak[s] \in Nat BY DEF AInv, TypeOK
<1> QED BY <1>1, <1>4, <1>5, <1>6, <1>7

(* What the handlers do to the accounts of an identity.                     *)
LEMMA AccountsOf ==
  ASSUME AInv, NEW r \in Requests, NEW s \in Subs
  PROVE  /\ (\/ LoginReadUser(r) \/ UpgradeHash(r) \/ IssueSession(r) \/ ChangeReadUser(r)
             \/ SetPassword(r) \/ CreateReadUser(r) \/ InsertUser(r) \/ RemoveUser(r)
             \/ OidcReadBySub(r) \/ OidcReadByName(r))
              => Linked(s)' \subseteq Linked(s)
         /\ LinkUser(r) \/ ProvisionUser(r) =>
              /\ Linked(s)' \subseteq Linked(s) \union {req[r].user}
              /\ s # req[r].sub => Linked(s)' \subseteq Linked(s)
<1> DEFINE u == req[r].user
<1>r. RequestOK(r) /\ req[r] \in Request BY DEF AInv, TypeOK
<1>u. users \in [Users -> Row \union {NoRow}] BY DEF AInv, TypeOK
<1>w. req[r].pw \in Passwords \union {Unusable} /\ req[r].next \in Passwords \union {Unusable}
  BY <1>r DEF Request
<1>n. req[r].pc # "idle" => u \in Users BY <1>r DEF RequestOK
<1> HIDE DEF u
<1>k. users' = users => Linked(s)' \subseteq Linked(s) BY DEF Linked, Exists
<1>p. ASSUME NEW p \in Passwords \union {Unusable}, u \in Users,
             UpdateRow(u, WithPassword(users[u], p))
      PROVE  Linked(s)' \subseteq Linked(s)
  <2>1. CASE ~Exists(u) BY <2>1, <1>p, <1>k DEF UpdateRow
  <2>2. CASE Exists(u)
    <3>1. users' = [users EXCEPT ![u] = WithPassword(users[u], p)] BY <2>2, <1>p DEF UpdateRow
    <3>2. users'[u].sub = users[u].sub /\ \A v \in Users \ {u} : users'[v] = users[v]
      BY <3>1, <2>2, <1>p, <1>u, WithPasswordRow DEF Exists
    <3> QED BY <3>2, <2>2 DEF Linked, Exists
  <2> QED BY <2>1, <2>2
<1>1. UpgradeHash(r) \/ SetPassword(r) => Linked(s)' \subseteq Linked(s)
  BY <1>p, <1>n, <1>w DEF UpgradeHash, SetPassword, At, u
<1>2. ASSUME InsertUser(r) PROVE Linked(s)' \subseteq Linked(s)
  <2>1. u \in Users /\ users' = IF Exists(u) THEN users
                                ELSE [users EXCEPT ![u] = Local(req[r].pw, FALSE)]
    BY <1>2, <1>n DEF InsertUser, At, u
  <2>2. CASE ~Exists(u)
    <3>1. users'[u].sub # s /\ \A v \in Users \ {u} : users'[v] = users[v]
      BY <2>1, <2>2, <1>u, <1>w, LocalRow, SubsAssumption
    <3> QED BY <3>1 DEF Linked, Exists
  <2> QED BY <2>1, <2>2, <1>k
<1>3. ASSUME RemoveUser(r) PROVE Linked(s)' \subseteq Linked(s)
  <2>1. u \in Users /\ users' = [users EXCEPT ![u] = NoRow]
    BY <1>3, <1>n DEF RemoveUser, Handling, At, u
  <2>2. users'[u] = NoRow /\ \A v \in Users \ {u} : users'[v] = users[v] BY <2>1, <1>u
  <2> QED BY <2>2 DEF Linked, Exists
<1>4. ASSUME LinkUser(r) \/ ProvisionUser(r)
      PROVE  /\ Linked(s)' \subseteq Linked(s) \union {u}
             /\ s # req[r].sub => Linked(s)' \subseteq Linked(s)
  <2>1. req[r].sub \in Subs /\ u \in Users
    BY <1>4, <1>r, <1>n DEF RequestOK, LinkUser, ProvisionUser, At
  <2>2. CASE users' = users BY <2>2, <1>k
  <2>3. ASSUME NEW row, row.sub = req[r].sub, users' = [users EXCEPT ![u] = row]
        PROVE  /\ Linked(s)' \subseteq Linked(s) \union {u}
               /\ s # req[r].sub => Linked(s)' \subseteq Linked(s)
    <3>1. users'[u] = row /\ \A v \in Users \ {u} : users'[v] = users[v] BY <2>1, <2>3, <1>u
    <3> QED BY <3>1, <2>3 DEF Linked, Exists
  <2>4. CASE LinkUser(r) /\ Exists(u)
    <3>1. users' = [users EXCEPT ![u] = [users[u] EXCEPT !.sub = req[r].sub]]
      BY <2>4 DEF LinkUser, UpdateRow, u
    <3>2. [users[u] EXCEPT !.sub = req[r].sub].sub = req[r].sub
      BY <2>1, <2>4, <1>u, LinkedRow DEF Exists
    <3> QED BY <3>1, <3>2, <2>3
  <2>5. CASE ProvisionUser(r) /\ ~Exists(u)
    <3>1. users' = [users EXCEPT ![u] =
                      [Local(Unusable, FALSE) EXCEPT !.sub = req[r].sub, !.provisioned = TRUE]]
      BY <2>5 DEF ProvisionUser, u
    <3>2. [Local(Unusable, FALSE) EXCEPT !.sub = req[r].sub, !.provisioned = TRUE].sub = req[r].sub
      BY <2>1, ProvisionedRow
    <3> QED BY <3>1, <3>2, <2>3
  <2> QED BY <1>4, <2>2, <2>4, <2>5 DEF LinkUser, ProvisionUser, UpdateRow, u
<1>5. (\/ LoginReadUser(r) \/ IssueSession(r) \/ ChangeReadUser(r) \/ CreateReadUser(r)
       \/ OidcReadBySub(r) \/ OidcReadByName(r))
        => Linked(s)' \subseteq Linked(s)
  BY <1>k DEF LoginReadUser, IssueSession, ChangeReadUser, CreateReadUser, OidcReadBySub,
    OidcReadByName
<1> QED BY <1>1, <1>2, <1>3, <1>4, <1>5 DEF u

(* What they do to its callbacks.                                           *)
LEMMA CallbacksOf ==
  ASSUME AInv, NEW r \in Requests, Handler(r), NEW s \in Subs
  PROVE  /\ Calling(s)' \subseteq Calling(s) /\ peak'[s] = peak[s]
         /\ \/ Pending(s)' \subseteq Pending(s)
            \/ OidcReadBySub(r) /\ Linked(s) = {}
         /\ LinkUser(r) \/ ProvisionUser(r) =>
              Pending(s)' \subseteq Pending(s) \ {r} /\ (s = req[r].sub => r \in Pending(s))
<1>0. peak'[s] = peak[s] BY DEF Handler, LoginReadUser, UpgradeHash, IssueSession,
  ChangeReadUser, SetPassword, CreateReadUser, InsertUser, RemoveUser, OidcReadBySub,
  OidcReadByName, LinkUser, ProvisionUser, history
<1>t. req \in [Requests -> Request] BY DEF AInv, TypeOK
<1>1. ASSUME Finish(r)
      PROVE  Calling(s)' \subseteq Calling(s) /\ Pending(s)' \subseteq Pending(s) \ {r}
  <2>1. req'[r].pc = "idle" /\ \A q \in Requests \ {r} : req'[q] = req[q]
    BY <1>1, <1>t DEF Finish, Idle
  <2> QED BY <2>1 DEF Calling, Pending, At
<1>2. ASSUME NEW step \in Steps, Goto(r, step), req[r].pc # "idle"
      PROVE  /\ Calling(s)' \subseteq Calling(s)
             /\ req[r].pc = "byName" => Pending(s)' \subseteq Pending(s)
             /\ step \in {"upgrade", "issue", "setPassword", "insertUser"} =>
                  Pending(s)' \subseteq Pending(s)
             /\ s # req[r].sub => Pending(s)' \subseteq Pending(s)
  <2>1. /\ req'[r].pc = step /\ req'[r].sub = req[r].sub
        /\ \A q \in Requests \ {r} : req'[q] = req[q]
    BY <1>2, GoesOn
  <2> QED BY <2>1, <1>2 DEF Calling, Pending, At
<1>s. {"upgrade", "issue", "setPassword", "insertUser", "byName", "link", "provision"}
        \subseteq Steps
  BY DEF Steps
<1>3. CASE LinkUser(r) \/ ProvisionUser(r)
  <2>1. Finish(r) /\ req[r].pc \in {"link", "provision"} BY <1>3 DEF LinkUser, ProvisionUser, At
  <2>2. s = req[r].sub => r \in Pending(s) BY <2>1 DEF Pending
  <2> QED BY <2>1, <2>2, <1>0, <1>1
<1>4. CASE OidcReadBySub(r)
  <2>1. /\ req[r].pc = "start" /\ IF Linked(req[r].sub) # {} THEN Finish(r) ELSE Goto(r, "byName")
    BY <1>4 DEF OidcReadBySub, Handling, At
  <2>2. ~(LinkUser(r) \/ ProvisionUser(r)) BY <2>1 DEF LinkUser, ProvisionUser, At
  <2>3. CASE Finish(r) BY <2>2, <2>3, <1>0, <1>1
  <2>4. CASE Linked(req[r].sub) = {} /\ Goto(r, "byName")
    <3>1. CASE s = req[r].sub BY <3>1, <2>1, <2>2, <2>4, <1>0, <1>2, <1>4, <1>s
    <3>2. CASE s # req[r].sub BY <3>2, <2>1, <2>2, <2>4, <1>0, <1>2, <1>s
    <3> QED BY <3>1, <3>2
  <2> QED BY <2>1, <2>3, <2>4
<1>5. CASE OidcReadByName(r)
  <2>1. req[r].pc = "byName" BY <1>5 DEF OidcReadByName, At
  <2>2. PICK step \in {"link", "provision"} : Goto(r, step) BY <1>5 DEF OidcReadByName
  <2>3. ~(LinkUser(r) \/ ProvisionUser(r)) BY <2>1 DEF LinkUser, ProvisionUser, At
  <2> QED BY <2>1, <2>2, <2>3, <1>0, <1>2, <1>s
<1>6. CASE \/ LoginReadUser(r) \/ UpgradeHash(r) \/ IssueSession(r) \/ ChangeReadUser(r)
           \/ SetPassword(r) \/ CreateReadUser(r) \/ InsertUser(r) \/ RemoveUser(r)
  <2>1. req[r].pc \notin {"idle", "link", "provision"}
    BY <1>6 DEF LoginReadUser, UpgradeHash, IssueSession, ChangeReadUser, SetPassword,
      CreateReadUser, InsertUser, RemoveUser, Handling, At
  <2>2. ~(LinkUser(r) \/ ProvisionUser(r)) BY <2>1 DEF LinkUser, ProvisionUser, At
  <2>3. \/ Finish(r)
        \/ \E step \in {"upgrade", "issue", "setPassword", "insertUser"} : Goto(r, step)
    BY <1>6 DEF LoginReadUser, UpgradeHash, IssueSession, ChangeReadUser, SetPassword,
      CreateReadUser, InsertUser, RemoveUser
  <2>4. CASE Finish(r) BY <2>2, <2>4, <1>0, <1>1
  <2>5. ASSUME NEW step \in {"upgrade", "issue", "setPassword", "insertUser"}, Goto(r, step)
        PROVE  Calling(s)' \subseteq Calling(s) /\ Pending(s)' \subseteq Pending(s)
    <3>1. step \in Steps BY <1>s
    <3> QED BY <3>1, <2>5, <2>1, <1>2
  <2> QED BY <2>2, <2>3, <2>4, <2>5, <1>0
<1> QED BY <1>3, <1>4, <1>5, <1>6 DEF Handler

LEMMA CountsNext == AInv /\ Counts /\ [Next]_vars => Counts'
<1> SUFFICES ASSUME AInv, Counts, [Next]_vars, NEW s \in Subs
      PROVE  /\ Cardinality(Calling(s)') <= peak'[s] /\ IsFiniteSet(Linked(s)')
             /\ Cardinality(Linked(s)') + Cardinality(Pending(s)') <= peak'[s]
  BY DEF Counts, CallsCounted, LinksCounted
<1>t. /\ req \in [Requests -> Request] /\ peak \in [Subs -> Nat] /\ peak[s] \in Nat
  BY DEF AInv, TypeOK
<1>c. Cardinality(Calling(s)) <= peak[s] /\ LinksCounted BY DEF Counts, CallsCounted
<1>d. Calling(s) \in SUBSET Requests BY DEF Calling
<1>f. ASSUME Calling(s)' \subseteq Calling(s), peak'[s] = peak[s]
      PROVE  Cardinality(Calling(s)') <= peak'[s]
  <2>1. /\ Cardinality(Calling(s)) \in Nat /\ Cardinality(Calling(s)') \in Nat
        /\ Cardinality(Calling(s)') <= Cardinality(Calling(s))
    BY <1>f, <1>d, RequestsAssumption, Fewer
  <2> QED BY <2>1, <1>c, <1>t, <1>f
<1>g. /\ IsFiniteSet(Linked(s)) /\ Cardinality(Linked(s)) \in Nat /\ Cardinality(Pending(s)) \in Nat
      /\ Cardinality(Linked(s)) + Cardinality(Pending(s)) <= peak[s]
  <2>1. Pending(s) \in SUBSET Requests BY DEF Pending
  <2> QED BY <2>1, <1>c, RequestsAssumption, FS_Subset, FS_CardinalityType DEF LinksCounted
<1>1. CASE UNCHANGED <<users, req, peak>>
  <2>1. Linked(s)' = Linked(s) /\ Pending(s)' = Pending(s) /\ Calling(s)' = Calling(s)
    BY <1>1 DEF Linked, Exists, Pending, Calling, At
  <2> QED BY <2>1, <1>1, <1>c, <1>f, Leaving
<1>2. CASE Rename \/ UNCHANGED vars BY <1>1, <1>2 DEF Rename, vars, history
<1>3. ASSUME NEW r \in Requests, Arrive(r)
      PROVE  /\ Cardinality(Calling(s)') <= peak'[s] /\ IsFiniteSet(Linked(s)')
             /\ Cardinality(Linked(s)') + Cardinality(Pending(s)') <= peak'[s]
  <2>1. users' = users /\ peak' = peak BY <1>3 DEF Arrive, history
  <2>2. req'[r].pc = "start" /\ req'[r].sub = NoSub /\ \A q \in Requests \ {r} : req'[q] = req[q]
    BY <1>3, <1>t DEF Arrive, Idle
  <2>3. /\ Linked(s)' = Linked(s) /\ Pending(s)' \subseteq Pending(s)
        /\ Calling(s)' \subseteq Calling(s)
    BY <2>1, <2>2, SubsAssumption DEF Linked, Exists, Pending, Calling, At
  <2> QED BY <2>1, <2>3, <1>c, <1>f, Leaving
<1>4. ASSUME NEW r \in Requests, ArriveCallback(r)
      PROVE  /\ Cardinality(Calling(s)') <= peak'[s] /\ IsFiniteSet(Linked(s)')
             /\ Cardinality(Linked(s)') + Cardinality(Pending(s)') <= peak'[s]
  <2>1. PICK z \in Subs :
          /\ req' = [req EXCEPT ![r] =
               [Idle EXCEPT !.pc = "start", !.op = "oidc", !.user = idpName[z], !.sub = z]]
          /\ LET now == Cardinality(Calling(z)) + 1
             IN peak' = [peak EXCEPT ![z] = IF @ < now THEN now ELSE @]
    BY <1>4 DEF ArriveCallback
  <2>2. users' = users /\ req[r].pc = "idle" BY <1>4 DEF ArriveCallback, At
  <2>3. req'[r].pc = "start" /\ req'[r].sub = z /\ \A q \in Requests \ {r} : req'[q] = req[q]
    BY <2>1, <1>t DEF Idle
  <2>4. Linked(s)' = Linked(s) /\ Pending(s)' = Pending(s)
    BY <2>2, <2>3 DEF Linked, Exists, Pending
  <2>5. IsFiniteSet(Calling(z)) /\ Cardinality(Calling(z)) \in Nat BY CallsFinite
  <2>6. /\ s # z => peak'[s] = peak[s] /\ Calling(s)' = Calling(s)
        /\ s = z => Calling(s)' \subseteq Calling(s) \union {r} /\ r \notin Calling(s)
    BY <2>1, <2>2, <2>3, <1>t DEF Calling, At
  <2>7. s = z => peak'[s] = IF peak[s] < Cardinality(Calling(s)) + 1
                              THEN Cardinality(Calling(s)) + 1 ELSE peak[s]
    BY <2>1, <1>t
  <2>8. peak'[s] \in Nat /\ peak[s] <= peak'[s] BY <2>5, <2>6, <2>7, <1>t
  <2>9. CASE s = z
    <3>1. /\ IsFiniteSet(Calling(s) \union {r})
          /\ Cardinality(Calling(s) \union {r}) = Cardinality(Calling(s)) + 1
      BY <2>5, <2>6, <2>9, FS_AddElement
    <3>2. Cardinality(Calling(s)') <= Cardinality(Calling(s) \union {r})
          /\ Cardinality(Calling(s)') \in Nat
      BY <3>1, <2>6, <2>9, FS_Subset, FS_CardinalityType
    <3>3. Cardinality(Calling(s)') <= peak'[s] BY <3>1, <3>2, <2>5, <2>7, <2>8, <2>9, <1>t
    <3> QED BY <3>3, <2>4, <2>8, <1>t, <1>g
  <2>10. CASE s # z BY <2>4, <2>6, <2>10, <1>c, <1>f, Leaving
  <2> QED BY <2>9, <2>10
<1>5. ASSUME NEW r \in Requests, Handler(r)
      PROVE  /\ Cardinality(Calling(s)') <= peak'[s] /\ IsFiniteSet(Linked(s)')
             /\ Cardinality(Linked(s)') + Cardinality(Pending(s)') <= peak'[s]
  <2>1. Calling(s)' \subseteq Calling(s) /\ peak'[s] = peak[s] BY <1>5, CallbacksOf
  <2>2. Cardinality(Calling(s)') <= peak'[s] BY <2>1, <1>f
  <2>3. CASE LinkUser(r) \/ ProvisionUser(r)
    <3>1. /\ Pending(s)' \subseteq Pending(s) \ {r}
          /\ s = req[r].sub => r \in Pending(s)
      BY <2>3, <1>5, CallbacksOf
    <3>4. /\ Linked(s)' \subseteq Linked(s) \union {req[r].user}
          /\ s # req[r].sub => Linked(s)' \subseteq Linked(s)
      BY <2>3, AccountsOf
    <3>2. CASE s = req[r].sub BY <3>1, <3>2, <3>4, <2>1, <2>2, <1>c, Arriving
    <3>3. CASE s # req[r].sub BY <3>1, <3>3, <3>4, <2>1, <2>2, <1>c, Leaving
    <3> QED BY <3>2, <3>3
  <2>4. CASE ~(LinkUser(r) \/ ProvisionUser(r))
    <3>0. \/ LoginReadUser(r) \/ UpgradeHash(r) \/ IssueSession(r) \/ ChangeReadUser(r)
          \/ SetPassword(r) \/ CreateReadUser(r) \/ InsertUser(r) \/ RemoveUser(r)
          \/ OidcReadBySub(r) \/ OidcReadByName(r)
      BY <2>4, <1>5 DEF Handler
    <3>1. Linked(s)' \subseteq Linked(s) BY <3>0, AccountsOf, Zenon
    <3>2. CASE Pending(s)' \subseteq Pending(s) BY <3>1, <3>2, <2>1, <2>2, <1>c, Leaving
    <3>3. CASE Linked(s) = {}
      <4>1. Linked(s)' = {} /\ IsFiniteSet({}) /\ Cardinality({}) = 0 BY <3>1, <3>3, FS_EmptySet
      <4>2. Pending(s)' \in SUBSET (Calling(s)') BY DEF Pending, Calling, At
      <4>3. IsFiniteSet(Calling(s)') BY <2>1, CallsFinite, FS_Subset
      <4>4. /\ Cardinality(Pending(s)') <= Cardinality(Calling(s)')
            /\ Cardinality(Pending(s)') \in Nat /\ Cardinality(Calling(s)') \in Nat
        BY <4>2, <4>3, FS_Subset, FS_CardinalityType
      <4> QED BY <4>1, <4>4, <2>1, <2>2, <1>t
    <3> QED BY <3>2, <3>3, <1>5, CallbacksOf
  <2> QED BY <2>3, <2>4
<1> QED BY <1>2, <1>3, <1>4, <1>5 DEF Next

-----------------------------------------------------------------------------
(* The users table and the requests in flight keep their types              *)
(* (store/users.ts).                                                        *)
THEOREM AccountsTypeCorrect == Spec => []TypeOK
<1>1. AInv => TypeOK BY DEF AInv
<1> QED BY AInvInit, AInvNext, <1>1, PTL DEF Spec

(* A login that issues its session has left no legacy hash, whatever        *)
(* interleaved with it, for any users and requests (store/users.ts:233).    *)
THEOREM LoginsUpgrade == Spec => []LoginLeavesNoLegacyHash
<1>1. AInv => LoginLeavesNoLegacyHash BY DEF AInv, RequestOK, LoginLeavesNoLegacyHash, At
<1> QED BY AInvInit, AInvNext, <1>1, PTL DEF Spec

(* However often the provider renames an identity, and accounts come and    *)
(* go, it is linked to no more accounts than callbacks of it were under way *)
(* at once, for any number of both; and a provisioned account keeps its     *)
(* unusable password unless a password was due for its name when the name   *)
(* was freed (store/users.ts:154, 171-204).                                 *)
THEOREM IdentitiesAreSound == Spec => []IdentitiesSound
<1>1. AInv /\ Counts => AccountsPerIdentity
  <2> SUFFICES ASSUME AInv, Counts, NEW s \in Subs PROVE Cardinality(Linked(s)) <= peak[s]
    BY DEF AccountsPerIdentity
  <2>1. IsFiniteSet(Linked(s)) /\ Cardinality(Linked(s)) + Cardinality(Pending(s)) <= peak[s]
    BY DEF Counts, LinksCounted
  <2>2. Pending(s) \in SUBSET Requests BY DEF Pending
  <2>3. Cardinality(Pending(s)) \in Nat /\ Cardinality(Linked(s)) \in Nat
    BY <2>1, <2>2, RequestsAssumption, FS_Subset, FS_CardinalityType
  <2>4. peak[s] \in Nat BY DEF AInv, TypeOK
  <2> QED BY <2>1, <2>3, <2>4
<1>2. AInv /\ Counts => IdentitiesSound BY <1>1 DEF AInv, IdentitiesSound
<1> QED BY AInvInit, AInvNext, CountsInit, CountsNext, <1>2, PTL DEF Spec

-----------------------------------------------------------------------------
(***************************************************************************)
(* Theorems about LoginDoor, for any number of callers and logins, any     *)
(* limit and any length of the windows.                                    *)
(*                                                                         *)
(* The limiter.  The latest window of a caller begins at resetAt - Window. *)
(* The attempts since are at most its count, and those of the time as long *)
(* before it are of one earlier window.  So whatever stretch of the length *)
(* of a window one looks at, it meets two of them at most.                 *)
(*                                                                         *)
(* The keys.  From the exchange on, the key of a login is published or was *)
(* retired since; when keys are fetched once more it is among them, so the *)
(* second look-up fails for a retired key only.                            *)
(***************************************************************************)
Attempts == [by : Callers, at : Nat, nr : Nat]

By(c, from, to) == {a \in admitted : a.by = c /\ a.at >= from /\ a.at < to}
Latest(c) == buckets[c].resetAt - Window

LimiterTypeOK ==
  /\ clock \in 0..MaxClock
  /\ buckets \in [Callers -> [count : 0..MaxAttempts, resetAt : 0..(MaxClock + Window)]]
  /\ admitted \subseteq Attempts /\ IsFiniteSet(admitted)
  /\ \A a \in admitted : a.at <= clock

BucketOK(c) ==
  /\ Latest(c) <= clock
  /\ \A a \in admitted : a.by = c => a.at < buckets[c].resetAt
  /\ Cardinality(By(c, Latest(c), buckets[c].resetAt)) <= buckets[c].count
  /\ Cardinality(By(c, Latest(c) - Window, Latest(c))) <= MaxAttempts
  /\ buckets[c].resetAt > 0 => \E a \in admitted : a.by = c /\ a.at = Latest(c)
  /\ \A t \in Nat : Cardinality(By(c, t, t + Window)) <= 2 * MaxAttempts

LimiterInv == LimiterTypeOK /\ \A c \in Callers : BucketOK(c)

-----------------------------------------------------------------------------
LEMMA ByFinite ==
  ASSUME IsFiniteSet(admitted), NEW c, NEW from, NEW to
  PROVE  IsFiniteSet(By(c, from, to)) /\ Cardinality(By(c, from, to)) \in Nat
<1>1. By(c, from, to) \subseteq admitted BY DEF By
<1> QED BY <1>1, FS_Subset, FS_CardinalityType

(* A set within the union of two is no larger than both together.           *)
LEMMA UnionBound ==
  ASSUME NEW S, NEW A, NEW B, IsFiniteSet(A), IsFiniteSet(B), S \subseteq A \union B
  PROVE  IsFiniteSet(S) /\ Cardinality(S) <= Cardinality(A) + Cardinality(B)
<1>1. IsFiniteSet(A \union B)
      /\ Cardinality(A \union B) = Cardinality(A) + Cardinality(B) - Cardinality(A \cap B)
  BY FS_Union
<1>2. IsFiniteSet(A \cap B) BY FS_Subset
<1>3. /\ Cardinality(A) \in Nat /\ Cardinality(B) \in Nat /\ Cardinality(A \cap B) \in Nat
      /\ Cardinality(A \union B) \in Nat
  BY <1>1, <1>2, FS_CardinalityType
<1>4. IsFiniteSet(S) /\ Cardinality(S) \in Nat /\ Cardinality(S) <= Cardinality(A \union B)
  BY <1>1, FS_Subset, FS_CardinalityType
<1> QED BY <1>1, <1>3, <1>4

LEMMA LimiterInvInit == DoorInit => LimiterInv
<1> SUFFICES ASSUME DoorInit PROVE LimiterInv OBVIOUS
<1>1. LimiterTypeOK
  BY LimitAssumption, ClockAssumption, FS_EmptySet DEF DoorInit, LimiterTypeOK, NoBucket
<1>2. \A c, from, to : By(c, from, to) = {} BY DEF DoorInit, By
<1>3. Cardinality({}) = 0 BY FS_EmptySet
<1>4. ASSUME NEW c \in Callers PROVE BucketOK(c)
  <2>1. buckets[c] = [count |-> 0, resetAt |-> 0] BY DEF DoorInit, NoBucket
  <2>2. Latest(c) <= clock BY <2>1, LimitAssumption DEF DoorInit, Latest
  <2>3. admitted = {} BY DEF DoorInit
  <2>4. /\ Cardinality(By(c, Latest(c), buckets[c].resetAt)) = 0
        /\ Cardinality(By(c, Latest(c) - Window, Latest(c))) = 0
        /\ \A t \in Nat : Cardinality(By(c, t, t + Window)) = 0
    BY <1>2, <1>3
  <2> QED BY <2>1, <2>2, <2>3, <2>4, LimitAssumption DEF BucketOK
<1> QED BY <1>1, <1>4 DEF LimiterInv

LEMMA LimiterFrame == LimiterInv /\ UNCHANGED limiterVars => LimiterInv'
<1> SUFFICES ASSUME LimiterInv, UNCHANGED limiterVars PROVE LimiterInv' OBVIOUS
<1>1. clock' = clock /\ buckets' = buckets /\ admitted' = admitted BY DEF limiterVars
<1>2. LimiterTypeOK' BY <1>1 DEF LimiterInv, LimiterTypeOK
<1>3. ASSUME NEW c \in Callers PROVE BucketOK(c)'
  BY <1>1 DEF LimiterInv, BucketOK, By, Latest
<1> QED BY <1>2, <1>3 DEF LimiterInv

LEMMA LimiterTick == LimiterInv /\ Tick => LimiterInv'
<1> SUFFICES ASSUME LimiterInv, Tick PROVE LimiterInv' OBVIOUS
<1>1. /\ clock < MaxClock /\ clock' = clock + 1 /\ buckets' = buckets /\ admitted' = admitted
      /\ clock \in 0..MaxClock
  BY DEF Tick, LimiterInv, LimiterTypeOK
<1>2. LimiterTypeOK' BY <1>1, ClockAssumption DEF LimiterInv, LimiterTypeOK, Attempts
<1>3. ASSUME NEW c \in Callers PROVE BucketOK(c)'
  <2>1. buckets[c].resetAt \in Int BY DEF LimiterInv, LimiterTypeOK
  <2>2. Latest(c)' = Latest(c) /\ Latest(c) \in Int BY <1>1, <2>1, LimitAssumption DEF Latest
  <2>3. /\ By(c, Latest(c), buckets[c].resetAt)' = By(c, Latest(c), buckets[c].resetAt)
        /\ By(c, Latest(c) - Window, Latest(c))' = By(c, Latest(c) - Window, Latest(c))
        /\ \A t \in Nat : By(c, t, t + Window)' = By(c, t, t + Window)
    BY <1>1, <2>2 DEF By
  <2>4. BucketOK(c) BY DEF LimiterInv
  <2> QED BY <1>1, <2>2, <2>3, <2>4 DEF BucketOK
<1> QED BY <1>2, <1>3 DEF LimiterInv

(* An attempt let through.  Its caller's latest window is the one before,   *)
(* or begins with it.                                                       *)
LEMMA LimiterAttempt == ASSUME LimiterInv, NEW c \in Callers, Attempt(c) PROVE LimiterInv'
<1> DEFINE new == [by |-> c, at |-> clock, nr |-> Cardinality({a \in admitted : a.by = c})]
           old == buckets[c]
<1>t. /\ clock \in 0..MaxClock /\ clock \in Nat /\ IsFiniteSet(admitted) /\ admitted \subseteq Attempts
      /\ buckets \in [Callers -> [count : 0..MaxAttempts, resetAt : 0..(MaxClock + Window)]]
      /\ \A a \in admitted : a.at <= clock /\ a.at \in Nat
      /\ MaxAttempts \in Nat /\ MaxAttempts > 0 /\ Window \in Nat /\ Window > 0 /\ MaxClock \in Nat
  BY LimitAssumption, ClockAssumption DEF LimiterInv, LimiterTypeOK, Attempts
<1>o. old.count \in 0..MaxAttempts /\ old.resetAt \in Nat BY <1>t
<1>b. BucketOK(c) BY DEF LimiterInv
<1>1. clock' = clock /\ admitted' = admitted \union {new} BY DEF Attempt
<1>2. new \in Attempts
  <2>1. {a \in admitted : a.by = c} \subseteq admitted OBVIOUS
  <2>2. Cardinality({a \in admitted : a.by = c}) \in Nat BY <2>1, <1>t, FS_Subset, FS_CardinalityType
  <2> QED BY <2>2, <1>t DEF Attempts
<1>3. new.by = c /\ new.at = clock OBVIOUS
<1> HIDE DEF new
<1>4. IsFiniteSet(admitted') BY <1>1, <1>t, FS_AddElement
<1>5. \A a \in admitted' : a.at \in Nat /\ a.at <= clock BY <1>1, <1>2, <1>3, <1>t DEF Attempts
<1>6. IsFiniteSet({new}) /\ Cardinality({new}) = 1 BY FS_Singleton
<1>7. ASSUME NEW from \in Int, NEW to \in Int
      PROVE  /\ By(c, from, to)' \subseteq By(c, from, to) \union {new}
             /\ ~(from <= clock /\ clock < to) => By(c, from, to)' = By(c, from, to)
             /\ Cardinality(By(c, from, to)') <= Cardinality(By(c, from, to)) + 1
             /\ IsFiniteSet(By(c, from, to)') /\ Cardinality(By(c, from, to)') \in Nat
             /\ Cardinality(By(c, from, to)) \in Nat
  <2>1. By(c, from, to)' \subseteq By(c, from, to) \union {new} BY <1>1 DEF By
  <2>2. ~(from <= clock /\ clock < to) => By(c, from, to)' = By(c, from, to)
    BY <1>1, <1>3, <1>t DEF By
  <2>3. IsFiniteSet(By(c, from, to)) /\ Cardinality(By(c, from, to)) \in Nat BY <1>t, ByFinite
  <2>4. IsFiniteSet(By(c, from, to)')
        /\ Cardinality(By(c, from, to)') <= Cardinality(By(c, from, to)) + 1
    BY <2>1, <2>3, <1>6, UnionBound
  <2> QED BY <2>1, <2>2, <2>3, <2>4, FS_CardinalityType
(* The bucket, either way.                                                  *)
<1>8. /\ buckets' = [buckets EXCEPT ![c] = buckets'[c]]
      /\ buckets'[c] \in [count : 0..MaxAttempts, resetAt : 0..(MaxClock + Window)]
      /\ Latest(c)' = buckets'[c].resetAt - Window
      /\ Latest(c)' <= clock /\ clock < buckets'[c].resetAt
      /\ Cardinality(By(c, Latest(c), buckets[c].resetAt)') <= buckets'[c].count
      /\ Cardinality(By(c, Latest(c) - Window, Latest(c))') <= MaxAttempts
      /\ \E a \in admitted' : a.by = c /\ a.at = Latest(c)'
      /\ \A a \in admitted : a.by = c => a.at < buckets'[c].resetAt
  <2>1. CASE old.resetAt <= clock
    <3>1. WindowOf(c) = NoBucket BY <2>1 DEF WindowOf
    <3>2. buckets' = [buckets EXCEPT ![c] = [count |-> 1, resetAt |-> clock + Window]]
      BY <3>1 DEF Attempt
    <3>3. buckets'[c] = [count |-> 1, resetAt |-> clock + Window] BY <3>2, <1>t
    <3>4. Latest(c)' = clock BY <3>3, <1>t DEF Latest
    <3>5. By(c, clock, clock + Window) = {}
      BY <2>1, <1>b, <1>t, <1>o DEF BucketOK, By
    <3>6. Cardinality(By(c, clock, clock + Window)') <= 1
      <4>1. By(c, clock, clock + Window)' \subseteq {new} BY <3>5, <1>1 DEF By
      <4> QED BY <4>1, <1>6, FS_Subset, FS_CardinalityType
    <3>7. By(c, clock - Window, clock)' = By(c, clock - Window, clock)
      BY <1>1, <1>3, <1>t DEF By
    <3>8. By(c, clock - Window, clock) \subseteq By(c, Latest(c), buckets[c].resetAt)
      BY <2>1, <1>b, <1>t, <1>o DEF BucketOK, By, Latest
    <3>9. Cardinality(By(c, clock - Window, clock)) <= Cardinality(By(c, Latest(c), buckets[c].resetAt))
      BY <3>8, <1>t, ByFinite, FS_Subset
    <3>10. Cardinality(By(c, clock - Window, clock)) <= MaxAttempts
      BY <3>9, <1>b, <1>o, <1>t, ByFinite DEF BucketOK
    <3>11. \E a \in admitted' : a.by = c /\ a.at = clock BY <1>1, <1>3
    <3>12. By(c, Latest(c), buckets[c].resetAt)' = By(c, clock, clock + Window)'
           /\ By(c, Latest(c) - Window, Latest(c))' = By(c, clock - Window, clock)'
      BY <3>3, <3>4, <1>1 DEF By
    <3> QED BY <3>2, <3>3, <3>4, <3>6, <3>7, <3>10, <3>11, <3>12, <1>t
  <2>2. CASE old.resetAt > clock
    <3>1. WindowOf(c) = old BY <2>2, <1>o, <1>t DEF WindowOf
    <3>2. old # NoBucket BY <2>2, <1>o, <1>t DEF NoBucket
    <3>3. old.count < MaxAttempts /\ buckets' = [buckets EXCEPT ![c] = [old EXCEPT !.count = @ + 1]]
      BY <3>1, <3>2 DEF Attempt
    <3>4. buckets'[c] = [old EXCEPT !.count = @ + 1] BY <3>3, <1>t
    <3>5. buckets'[c].count = old.count + 1 /\ buckets'[c].resetAt = old.resetAt
          /\ buckets'[c] \in [count : 0..MaxAttempts, resetAt : 0..(MaxClock + Window)]
      BY <3>3, <3>4, <1>t, <1>o
    <3>6. Latest(c)' = Latest(c) /\ Latest(c) \in Int /\ Latest(c) <= clock
      BY <3>5, <1>b, <1>t, <1>o DEF Latest, BucketOK
    <3>7. /\ By(c, Latest(c), buckets[c].resetAt)' \subseteq By(c, Latest(c), old.resetAt) \union {new}
          /\ By(c, Latest(c) - Window, Latest(c))' \subseteq By(c, Latest(c) - Window, Latest(c))
      BY <3>5, <3>6, <1>1, <1>3, <1>t DEF By
    <3>8. /\ IsFiniteSet(By(c, Latest(c), old.resetAt)) /\ Cardinality(By(c, Latest(c), old.resetAt)) \in Nat
          /\ IsFiniteSet(By(c, Latest(c) - Window, Latest(c)))
          /\ Cardinality(By(c, Latest(c) - Window, Latest(c))) \in Nat
      BY <1>t, ByFinite
    <3>9. Cardinality(By(c, Latest(c), buckets[c].resetAt)')
            <= Cardinality(By(c, Latest(c), old.resetAt)) + 1
      BY <3>7, <3>8, <1>6, UnionBound
    <3>10. /\ Cardinality(By(c, Latest(c) - Window, Latest(c))')
                <= Cardinality(By(c, Latest(c) - Window, Latest(c)))
           /\ Cardinality(By(c, Latest(c) - Window, Latest(c))') \in Nat
      BY <3>7, <3>8, FS_Subset, FS_CardinalityType
    <3>11. IsFiniteSet(By(c, Latest(c), buckets[c].resetAt)')
      BY <3>7, <3>8, <1>6, UnionBound
    <3>12. Cardinality(By(c, Latest(c), buckets[c].resetAt)') \in Nat
      BY <3>11, FS_CardinalityType
    <3>13. Cardinality(By(c, Latest(c), buckets[c].resetAt)') <= buckets'[c].count
      BY <3>9, <3>12, <3>8, <3>5, <1>b, <1>o, <1>t DEF BucketOK
    <3>14. Cardinality(By(c, Latest(c) - Window, Latest(c))') <= MaxAttempts
      BY <3>10, <3>8, <1>b, <1>t DEF BucketOK
    <3>15. \E a \in admitted' : a.by = c /\ a.at = Latest(c)'
      BY <3>6, <2>2, <1>b, <1>1, <1>o, <1>t DEF BucketOK
    <3>16. buckets' = [buckets EXCEPT ![c] = buckets'[c]] BY <3>3, <3>4
    <3> QED BY <3>5, <3>6, <3>13, <3>14, <3>15, <3>16, <2>2, <1>b, <1>o, <1>t DEF Latest, BucketOK
  <2> QED BY <2>1, <2>2, <1>o, <1>t
(* A stretch that holds the attempt is within the two latest windows.       *)
<1>9. \A t \in Nat : Cardinality(By(c, t, t + Window)') <= 2 * MaxAttempts
  <2> SUFFICES ASSUME NEW t \in Nat PROVE Cardinality(By(c, t, t + Window)') <= 2 * MaxAttempts
    OBVIOUS
  <2>1. CASE ~(t <= clock /\ clock < t + Window)
    <3>1. By(c, t, t + Window)' = By(c, t, t + Window) BY <2>1, <1>7, <1>t
    <3> QED BY <3>1, <1>b DEF BucketOK
  <2>2. CASE t <= clock /\ clock < t + Window
    <3>1. Latest(c)' \in Int /\ buckets'[c].resetAt \in Int BY <1>8, <1>t
    <3>2. By(c, t, t + Window)'
            \subseteq By(c, Latest(c) - Window, Latest(c))' \union By(c, Latest(c), buckets[c].resetAt)'
      BY <2>2, <3>1, <1>8, <1>5, <1>t DEF By
    <3>3. /\ IsFiniteSet(By(c, Latest(c) - Window, Latest(c))')
          /\ IsFiniteSet(By(c, Latest(c), buckets[c].resetAt)')
      <4>1. By(c, Latest(c) - Window, Latest(c))' \subseteq admitted' BY DEF By
      <4>2. By(c, Latest(c), buckets[c].resetAt)' \subseteq admitted' BY DEF By
      <4> QED BY <4>1, <4>2, <1>4, FS_Subset
    <3>4. /\ Cardinality(By(c, Latest(c) - Window, Latest(c))') \in Nat
          /\ Cardinality(By(c, Latest(c), buckets[c].resetAt)') \in Nat
      BY <3>3, FS_CardinalityType
    <3>5. /\ IsFiniteSet(By(c, t, t + Window)')
          /\ Cardinality(By(c, t, t + Window)')
               <= Cardinality(By(c, Latest(c) - Window, Latest(c))')
                    + Cardinality(By(c, Latest(c), buckets[c].resetAt)')
      BY <3>2, <3>3, UnionBound
    <3>6. Cardinality(By(c, t, t + Window)') \in Nat BY <3>5, FS_CardinalityType
    <3>7. buckets'[c].count \in 0..MaxAttempts BY <1>8
    <3> QED BY <3>4, <3>5, <3>6, <3>7, <1>8, <1>t
  <2> QED BY <2>1, <2>2
<1>10. LimiterTypeOK'
  BY <1>8, <1>1, <1>2, <1>4, <1>5, <1>t DEF LimiterTypeOK
<1>11. BucketOK(c)'
  <2>1. \A a \in admitted' : a.by = c => a.at < buckets'[c].resetAt BY <1>8, <1>1, <1>3
  <2> QED BY <2>1, <1>8, <1>9, <1>1 DEF BucketOK
<1>12. ASSUME NEW d \in Callers \ {c} PROVE BucketOK(d)'
  <2>1. buckets'[d] = buckets[d] BY <1>8, <1>t
  <2>2. ASSUME NEW from, NEW to PROVE By(d, from, to)' = By(d, from, to)
    BY <1>1, <1>3 DEF By
  <2>3. By(d, Latest(d), buckets[d].resetAt)' = By(d, Latest(d), buckets[d].resetAt)
        /\ By(d, Latest(d) - Window, Latest(d))' = By(d, Latest(d) - Window, Latest(d))
        /\ Latest(d)' = Latest(d)
    BY <2>1, <1>1, <1>3 DEF By, Latest
  <2>4. BucketOK(d) BY DEF LimiterInv
  <2> QED BY <2>1, <2>2, <2>3, <2>4, <1>1, <1>3 DEF BucketOK
<1> QED BY <1>10, <1>11, <1>12 DEF LimiterInv
-----------------------------------------------------------------------------
(* What remains of AttemptsBounded follows in each state.                   *)
LEMMA LimiterBounds == LimiterInv => AttemptsBounded
<1> SUFFICES ASSUME LimiterInv, NEW c \in Callers
    PROVE  LET by(from, to) == {a \in admitted : a.by = c /\ a.at >= from /\ a.at < to} IN
           /\ Cardinality(by(buckets[c].resetAt - Window, buckets[c].resetAt)) <= MaxAttempts
           /\ \A t \in 0..clock : Cardinality(by(t, t + Window)) <= 2 * MaxAttempts
           /\ by(clock - Window, clock + 1) = {} => WindowOf(c) = NoBucket
  BY DEF AttemptsBounded
<1>t. /\ clock \in Nat /\ buckets[c].count \in 0..MaxAttempts /\ buckets[c].resetAt \in Nat
      /\ \A a \in admitted : a.at <= clock /\ a.at \in Nat
      /\ MaxAttempts \in Nat /\ Window \in Nat /\ Window > 0 /\ IsFiniteSet(admitted)
  BY LimitAssumption, ClockAssumption DEF LimiterInv, LimiterTypeOK, Attempts
<1>b. BucketOK(c) BY DEF LimiterInv
<1>1. Cardinality(By(c, buckets[c].resetAt - Window, buckets[c].resetAt)) <= MaxAttempts
  BY <1>b, <1>t, ByFinite DEF BucketOK, Latest
<1>2. \A t \in 0..clock : Cardinality(By(c, t, t + Window)) <= 2 * MaxAttempts
  BY <1>b, <1>t DEF BucketOK
<1>3. ASSUME By(c, clock - Window, clock + 1) = {} PROVE WindowOf(c) = NoBucket
  <2> SUFFICES ASSUME buckets[c].resetAt > clock PROVE FALSE BY <1>t DEF WindowOf
  <2>1. PICK a \in admitted : a.by = c /\ a.at = Latest(c) BY <1>b, <1>t DEF BucketOK
  <2>2. a \in By(c, clock - Window, clock + 1) BY <2>1, <1>b, <1>t DEF By, BucketOK, Latest
  <2> QED BY <2>2, <1>3
<1> QED BY <1>1, <1>2, <1>3 DEF By

-----------------------------------------------------------------------------
(* The keys.                                                                *)
LoginSteps == {"idle", "keys", "store", "exchange", "lookup", "refresh", "retry", "accepted", "refused"}
LoginState == [pc : LoginSteps, keys : SUBSET SigningKeys, fresh : SUBSET SigningKeys,
               kid : SigningKeys \union {"none"}, rotated : BOOLEAN, failed : BOOLEAN]

KeysTypeOK ==
  /\ published \in (SUBSET SigningKeys) \ {{}}
  /\ cache \in [doc : BOOLEAN, keys : SUBSET SigningKeys]
  /\ login \in [Logins -> LoginState]

(* From the exchange on the key of a login is published or was retired; in  *)
(* the set fetched for it, it is there or was retired.                      *)
LoginOK(l) ==
  /\ login[l].pc \in {"lookup", "refresh", "retry"} =>
       login[l].kid \in published \/ login[l].rotated
  /\ login[l].pc = "retry" => login[l].kid \in login[l].fresh \/ login[l].rotated
  /\ login[l].pc = "refused" => login[l].rotated \/ login[l].failed

KeysInv == KeysTypeOK /\ \A l \in Logins : LoginOK(l)

LEMMA KeysInvInit == DoorInit => KeysInv
<1> SUFFICES ASSUME DoorInit PROVE KeysInv OBVIOUS
<1>1. PICK k \in SigningKeys : published = {k} BY DEF DoorInit
<1>2. cache \in [doc : BOOLEAN, keys : SUBSET SigningKeys] BY DEF DoorInit, NoCache
<1>3. NoLogin \in LoginState BY DEF NoLogin, LoginState, LoginSteps
<1>4. login \in [Logins -> LoginState] BY <1>3 DEF DoorInit
<1>5. \A l \in Logins : login[l].pc = "idle" BY DEF DoorInit, NoLogin
<1>6. \A l \in Logins : LoginOK(l) BY <1>5 DEF LoginOK
<1> QED BY <1>1, <1>2, <1>4, <1>6 DEF KeysInv, KeysTypeOK

(* A step of one login leaves the others and the published keys alone.      *)
LEMMA LoginStep ==
  ASSUME KeysInv, NEW l \in Logins, NEW next \in LoginState, Set(l, next), published' = published,
         cache' \in [doc : BOOLEAN, keys : SUBSET SigningKeys], LoginOK(l)'
  PROVE  KeysInv'
<1>1. login \in [Logins -> LoginState] /\ login' = [login EXCEPT ![l] = next]
  BY DEF KeysInv, KeysTypeOK, Set
<1>2. login' \in [Logins -> LoginState] BY <1>1
<1>3. ASSUME NEW m \in Logins PROVE LoginOK(m)'
  BY <1>1 DEF KeysInv, LoginOK
<1> QED BY <1>2, <1>3 DEF KeysInv, KeysTypeOK

LEMMA KeysInvNext == KeysInv /\ [DoorNext]_doorVars => KeysInv'
<1> SUFFICES ASSUME KeysInv, [DoorNext]_doorVars PROVE KeysInv' OBVIOUS
<1>t. published \in (SUBSET SigningKeys) \ {{}} /\ login \in [Logins -> LoginState]
      /\ cache \in [doc : BOOLEAN, keys : SUBSET SigningKeys]
  BY DEF KeysInv, KeysTypeOK
<1>1. ASSUME UNCHANGED oidcVars PROVE KeysInv'
  BY <1>1 DEF oidcVars, KeysInv, KeysTypeOK, LoginOK
<1>2. CASE Rotate
  <2>1. PICK k \in SigningKeys :
          \/ published' = published \union {k} /\ UNCHANGED login
          \/ /\ published # {k}
             /\ published' = published \ {k}
             /\ login' = [l \in Logins |-> [login[l] EXCEPT !.rotated = @ \/ login[l].kid = k]]
    BY <1>2 DEF Rotate
  <2>2. cache' = cache BY <1>2 DEF Rotate
  <2>3. CASE published' = published \union {k} /\ UNCHANGED login
    <3>1. KeysTypeOK' BY <2>2, <2>3, <1>t DEF KeysTypeOK
    <3>2. \A l \in Logins : LoginOK(l)' BY <2>3 DEF KeysInv, LoginOK
    <3> QED BY <3>1, <3>2 DEF KeysInv
  <2>4. CASE /\ published # {k} /\ published' = published \ {k}
             /\ login' = [l \in Logins |-> [login[l] EXCEPT !.rotated = @ \/ login[l].kid = k]]
    <3>1. ASSUME NEW l \in Logins
          PROVE  /\ login'[l].pc = login[l].pc /\ login'[l].kid = login[l].kid
                 /\ login'[l].fresh = login[l].fresh /\ login'[l].failed = login[l].failed
                 /\ login[l].rotated \/ login[l].kid = k => login'[l].rotated
                 /\ login'[l] \in LoginState
      BY <2>4, <1>t DEF LoginState
    <3>2. KeysTypeOK'
      <4>1. login' \in [Logins -> LoginState] BY <2>4, <3>1
      <4>2. PICK j \in published : j # k BY <2>4, <1>t
      <4>3. published' \in (SUBSET SigningKeys) \ {{}} BY <4>2, <2>4, <1>t
      <4> QED BY <4>1, <4>3, <2>2, <1>t DEF KeysTypeOK
    <3>3. ASSUME NEW l \in Logins PROVE LoginOK(l)'
      <4>1. LoginOK(l) BY DEF KeysInv
      <4>2. login[l].kid # k /\ login[l].kid \in published => login[l].kid \in published' BY <2>4
      <4> QED BY <3>1, <4>1, <4>2 DEF LoginOK
    <3> QED BY <3>2, <3>3 DEF KeysInv
  <2> QED BY <2>1, <2>3, <2>4
<1>3. CASE CacheExpires
  BY <1>3, <1>t DEF CacheExpires, NoCache, KeysInv, KeysTypeOK, LoginOK
<1>4. ASSUME NEW l \in Logins, Discover(l) PROVE KeysInv'
  <2> DEFINE next == IF cache.doc THEN [NoLogin EXCEPT !.pc = "exchange", !.keys = cache.keys]
                                  ELSE [NoLogin EXCEPT !.pc = "keys"]
  <2>1. next \in LoginState /\ next.pc \in {"exchange", "keys"}
    BY <1>t DEF LoginState, LoginSteps, NoLogin
  <2>2. Set(l, next) /\ published' = published /\ cache' = cache BY <1>4 DEF Discover
  <2> HIDE DEF next
  <2>3. login'[l] = next BY <2>2, <1>t DEF Set
  <2>4. LoginOK(l)' BY <2>1, <2>3 DEF LoginOK
  <2> QED BY <2>1, <2>2, <2>4, <1>t, LoginStep
<1>5. ASSUME NEW l \in Logins, SendKeys(l) PROVE KeysInv'
  <2> DEFINE next == [login[l] EXCEPT !.fresh = published,
                        !.pc = IF login[l].pc = "keys" THEN "store" ELSE "retry"]
  <2>1. /\ next \in LoginState /\ next.fresh = published /\ next.kid = login[l].kid
        /\ next.pc \in {"store", "retry"} /\ next.rotated = login[l].rotated
        /\ next.pc = "retry" => login[l].pc = "refresh"
    BY <1>5, <1>t DEF SendKeys, LoginState, LoginSteps
  <2>2. Set(l, next) /\ published' = published /\ cache' = cache BY <1>5 DEF SendKeys
  <2> HIDE DEF next
  <2>3. login'[l] = next BY <2>2, <1>t DEF Set
  <2>4. LoginOK(l)' BY <2>1, <2>2, <2>3 DEF LoginOK, KeysInv
  <2> QED BY <2>1, <2>2, <2>4, <1>t, LoginStep
<1>6. ASSUME NEW l \in Logins, StoreCache(l) PROVE KeysInv'
  <2> DEFINE next == [login[l] EXCEPT !.pc = "exchange", !.keys = login[l].fresh]
  <2>1. next \in LoginState /\ next.pc = "exchange" BY <1>t DEF LoginState, LoginSteps
  <2>2. Set(l, next) /\ published' = published
        /\ cache' \in [doc : BOOLEAN, keys : SUBSET SigningKeys]
    BY <1>6, <1>t DEF StoreCache, LoginState
  <2> HIDE DEF next
  <2>3. login'[l] = next BY <2>2, <1>t DEF Set
  <2>4. LoginOK(l)' BY <2>1, <2>3 DEF LoginOK
  <2> QED BY <2>1, <2>2, <2>4, LoginStep
<1>7. ASSUME NEW l \in Logins, Exchange(l) PROVE KeysInv'
  <2>1. PICK k \in published : Set(l, [login[l] EXCEPT !.pc = "lookup", !.kid = k])
    BY <1>7 DEF Exchange
  <2> DEFINE next == [login[l] EXCEPT !.pc = "lookup", !.kid = k]
  <2>2. next \in LoginState /\ next.pc = "lookup" /\ next.kid = k
    BY <1>t DEF LoginState, LoginSteps
  <2>3. Set(l, next) /\ published' = published /\ cache' = cache BY <1>7, <2>1 DEF Exchange
  <2> HIDE DEF next
  <2>4. login'[l] = next BY <2>3, <1>t DEF Set
  <2>5. LoginOK(l)' BY <2>2, <2>3, <2>4 DEF LoginOK
  <2> QED BY <2>2, <2>3, <2>5, <1>t, LoginStep
<1>8. ASSUME NEW l \in Logins, LookUp(l) PROVE KeysInv'
  <2> DEFINE next == [login[l] EXCEPT !.pc = IF login[l].kid \in login[l].keys
                                               THEN "accepted" ELSE "refresh"]
  <2>1. /\ next \in LoginState /\ next.kid = login[l].kid /\ next.rotated = login[l].rotated
        /\ next.pc \in {"accepted", "refresh"} /\ login[l].pc = "lookup"
    BY <1>8, <1>t DEF LookUp, LoginState, LoginSteps
  <2>2. Set(l, next) /\ published' = published /\ cache' = cache BY <1>8 DEF LookUp
  <2> HIDE DEF next
  <2>3. login'[l] = next BY <2>2, <1>t DEF Set
  <2>4. LoginOK(l)' BY <2>1, <2>2, <2>3 DEF LoginOK, KeysInv
  <2> QED BY <2>1, <2>2, <2>4, <1>t, LoginStep
<1>9. ASSUME NEW l \in Logins, Retry(l) PROVE KeysInv'
  <2> DEFINE next == [login[l] EXCEPT !.pc = IF login[l].kid \in login[l].fresh
                                               THEN "accepted" ELSE "refused"]
  <2>1. /\ next \in LoginState /\ next.rotated = login[l].rotated
        /\ next.pc \in {"accepted", "refused"} /\ login[l].pc = "retry"
        /\ next.pc = "refused" => login[l].kid \notin login[l].fresh
    BY <1>9, <1>t DEF Retry, LoginState, LoginSteps
  <2>2. Set(l, next) /\ published' = published
        /\ cache' \in [doc : BOOLEAN, keys : SUBSET SigningKeys]
    BY <1>9, <1>t DEF Retry, LoginState
  <2> HIDE DEF next
  <2>3. login'[l] = next BY <2>2, <1>t DEF Set
  <2>4. LoginOK(l)' BY <2>1, <2>2, <2>3 DEF LoginOK, KeysInv
  <2> QED BY <2>1, <2>2, <2>4, LoginStep
<1>10. ASSUME NEW l \in Logins, FetchFails(l) PROVE KeysInv'
  <2> DEFINE next == [login[l] EXCEPT !.pc = "refused", !.failed = TRUE]
  <2>1. next \in LoginState /\ next.pc = "refused" /\ next.failed
    BY <1>t DEF LoginState, LoginSteps
  <2>2. Set(l, next) /\ published' = published /\ cache' = cache BY <1>10 DEF FetchFails
  <2> HIDE DEF next
  <2>3. login'[l] = next BY <2>2, <1>t DEF Set
  <2>4. LoginOK(l)' BY <2>1, <2>3 DEF LoginOK
  <2> QED BY <2>1, <2>2, <2>4, <1>t, LoginStep
<1>11. ASSUME NEW l \in Logins, Redirect(l) PROVE KeysInv'
  <2>1. NoLogin \in LoginState /\ NoLogin.pc = "idle" BY DEF NoLogin, LoginState, LoginSteps
  <2>2. Set(l, NoLogin) /\ published' = published /\ cache' = cache BY <1>11 DEF Redirect
  <2>3. login'[l] = NoLogin BY <2>2, <1>t DEF Set
  <2>4. LoginOK(l)' BY <2>1, <2>3 DEF LoginOK
  <2> QED BY <2>1, <2>2, <2>4, <1>t, LoginStep
<1>12. CASE Tick \/ (\E c \in Callers : Attempt(c)) \/ UNCHANGED doorVars
  BY <1>1, <1>12 DEF Tick, Attempt, oidcVars, doorVars
<1> QED BY <1>2, <1>3, <1>4, <1>5, <1>6, <1>7, <1>8, <1>9, <1>10, <1>11, <1>12 DEF DoorNext

-----------------------------------------------------------------------------
DInv == LimiterInv /\ KeysInv

LEMMA DInvNext == DInv /\ [DoorNext]_doorVars => DInv'
<1> SUFFICES ASSUME DInv, [DoorNext]_doorVars PROVE LimiterInv' BY KeysInvNext DEF DInv
<1>i. LimiterInv BY DEF DInv
<1>1. CASE Tick BY <1>1, <1>i, LimiterTick
<1>2. ASSUME NEW c \in Callers, Attempt(c) PROVE LimiterInv' BY <1>2, <1>i, LimiterAttempt
<1>3. CASE UNCHANGED limiterVars BY <1>3, <1>i, LimiterFrame
<1>4. ASSUME NEW l \in Logins,
             \/ Discover(l) \/ SendKeys(l) \/ StoreCache(l) \/ Exchange(l) \/ LookUp(l)
             \/ Retry(l) \/ FetchFails(l) \/ Redirect(l)
      PROVE  UNCHANGED limiterVars
  BY <1>4 DEF Discover, SendKeys, StoreCache, Exchange, LookUp, Retry, FetchFails, Redirect,
    limiterVars
<1>5. Rotate \/ CacheExpires \/ UNCHANGED doorVars => UNCHANGED limiterVars
  BY DEF Rotate, CacheExpires, doorVars, limiterVars
<1> QED BY <1>1, <1>2, <1>3, <1>4, <1>5 DEF DoorNext

LEMMA DInvInit == DoorInit => DInv
BY LimiterInvInit, KeysInvInit DEF DInv

(* The limiter's buckets, the cache and the logins keep their types         *)
(* (auth/rate-limit.ts, auth/oidc.ts).                                      *)
THEOREM DoorTypeCorrect == DoorSpec => []DoorTypeOK
<1>1. DInv => DoorTypeOK
  BY DEF DInv, LimiterInv, LimiterTypeOK, KeysInv, KeysTypeOK, LoginState, DoorTypeOK
<1> QED BY DInvInit, DInvNext, <1>1, PTL DEF DoorSpec

(* For every limit and length of the windows, any number of callers and of  *)
(* overlapping logins: nobody exceeds the limit in a window or twice the    *)
(* limit in any time as long (auth/rate-limit.ts:13-17), and a login is     *)
(* refused only if its key was retired or a fetch failed                    *)
(* (auth/oidc.ts:154-161).                                                  *)
THEOREM DoorIsSound == DoorSpec => []DoorSound
<1>1. KeysInv => CurrentKeysAccepted BY DEF KeysInv, LoginOK, CurrentKeysAccepted
<1>2. DInv => DoorSound BY <1>1, LimiterBounds DEF DInv, DoorSound
<1> QED BY DInvInit, DInvNext, <1>2, PTL DEF DoorSpec

-----------------------------------------------------------------------------
(* The run: each of its behaviours is one of both sides, one at rest.       *)
THEOREM LoginsCompose == MCSpec => Spec /\ DoorSpec
<1>1. MCInit => Init /\ DoorInit
  BY DEF MCInit
<1>2. [MCNext]_mcVars => [Next]_vars
  BY DEF MCNext, mcVars
<1>3. [MCNext]_mcVars => [DoorNext]_doorVars
  BY DEF MCNext, mcVars
<1> QED BY <1>1, <1>2, <1>3, PTL DEF MCSpec, Spec, DoorSpec

(* The users table, the requests, the limiter, the key cache and the logins *)
(* keep their types (store/users.ts, auth/rate-limit.ts, auth/oidc.ts).     *)
THEOREM LoginsTypeCorrect == MCSpec => []LoginsTypeOK
<1>1. TypeOK /\ DoorTypeOK => LoginsTypeOK
  BY DEF LoginsTypeOK
<1> QED BY <1>1, LoginsCompose, AccountsTypeCorrect, DoorTypeCorrect, PTL

=============================================================================
