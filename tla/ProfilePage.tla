----------------------------- MODULE ProfilePage -----------------------------
(***************************************************************************)
(* The console's profile page: the details of the account, edited and      *)
(* saved, and the dialog that changes the password.  The user may leave    *)
(* while a request is under way: its answer then comes to nobody, but the  *)
(* server carries it out all the same.                                     *)
(***************************************************************************)
EXTENDS Naturals, FiniteSets

CONSTANTS
  Values,      (* the details somebody may give of himself                  *)
  Passwords,   (* the passwords long enough                                 *)
  Nothing      (* no details; a field left blank                            *)

ASSUME NothingAssumption == Nothing \notin Values \union Passwords

VARIABLES
  account,   (* the server's details and password                           *)
  form,      (* the page, while it is on the screen                         *)
  pwDialog,  (* the dialog of the password                                  *)
  known,     (* the profile the rest of the console shows                   *)
  saves,     (* the requests in flight; "own": the page still waits for it  *)
  loads      (* the query of the details in flight; "own": as above         *)

profileVars == <<account, form, pwDialog, known, saves, loads>>

(* strange (history): an answer was lost, or the page was left before it, or*)
(* while a query was under way that has read what is no more.               *)
FormClosed ==
  [on |-> FALSE, loading |-> TRUE, me |-> Nothing, orig |-> Nothing, val |-> Nothing,
   touched |-> FALSE, saving |-> FALSE]
PwClosed ==
  [open |-> FALSE, current |-> Nothing, next |-> Nothing, confirm |-> Nothing,
   errors |-> {}, changing |-> FALSE]

ProfileQuery(own) == [own |-> own, pc |-> "sent", me |-> Nothing]

(* The shell's own query of the profile may be in flight.                   *)
ProfileInit ==
  /\ account \in [details : Values, password : Passwords, strange : {FALSE}]
  /\ form = FormClosed /\ pwDialog = PwClosed
  /\ known = account.details
  /\ saves = {} /\ loads \in {{}, {ProfileQuery(FALSE)}}

-----------------------------------------------------------------------------
(* Opening the page, and leaving it.                                        *)

(* Apollo sends no second query while one is in flight: the page joins it.  *)
OpenDetails ==
  /\ ~form.on /\ form' = [FormClosed EXCEPT !.on = TRUE]
  /\ pwDialog' = PwClosed
  /\ loads' = IF loads = {} THEN {ProfileQuery(TRUE)}
              ELSE {[load EXCEPT !.own = TRUE] : load \in loads}
  /\ UNCHANGED <<account, known, saves>>

LeaveProfile ==
  /\ form.on /\ form' = FormClosed /\ pwDialog' = PwClosed
  /\ saves' = {[s EXCEPT !.own = FALSE] : s \in saves}
  /\ loads' = {[load EXCEPT !.own = FALSE] : load \in loads}
  /\ account' = [account EXCEPT !.strange =
       saves # {} \/ \E load \in loads : load.pc = "read" /\ load.me # account.details]
  /\ UNCHANGED known

ReadProfile ==
  /\ \E load \in loads :
       load.pc = "sent" /\ loads' = {[load EXCEPT !.pc = "read", !.me = account.details]}
  /\ UNCHANGED <<account, form, pwDialog, known, saves>>

(* What the page and the rest of the console do with the details they get.  *)
(* Mutant: the page forgets what it compares the fields with.               *)
ApplyKeepsOrig(details, f) ==
  [f EXCEPT !.me = details, !.val = details]

Apply(details, f) ==
  [f EXCEPT !.me = details, !.orig = details, !.val = details]

ProfileLoaded ==
  /\ \E load \in loads :
       /\ load.pc = "read" /\ loads' = {}
       /\ form' = IF load.own THEN [Apply(load.me, form) EXCEPT !.loading = FALSE] ELSE form
       /\ known' = IF load.own THEN load.me ELSE known
  /\ UNCHANGED <<account, pwDialog, saves>>

(* Without details the form is blank.                                       *)
ProfileFails ==
  /\ loads # {} /\ loads' = {}
  /\ form' = IF form.on THEN [form EXCEPT !.loading = FALSE] ELSE form
  /\ UNCHANGED <<account, pwDialog, known, saves>>

-----------------------------------------------------------------------------
(* The details.                                                             *)

OnInput(val) ==
  /\ form.on /\ ~form.loading /\ val # form.val /\ form' = [form EXCEPT !.val = val]
  /\ UNCHANGED <<account, pwDialog, known, saves, loads>>

Dirty == form.val # form.orig
FormValid == form.val # Nothing
ShowError == form.touched /\ ~FormValid

ResetForm ==
  /\ form.on /\ ~form.loading /\ Dirty
  /\ form' = [form EXCEPT !.val = form.orig, !.touched = FALSE]
  /\ UNCHANGED <<account, pwDialog, known, saves, loads>>

Send(op, details, next) ==
  saves' = saves \union {[op |-> op, own |-> TRUE, done |-> FALSE, ok |-> FALSE,
                          details |-> details, next |-> next]}

(* Mutant: the button does not wait for the request.                        *)
SaveProfileAgain ==
  /\ form.on /\ ~form.loading /\ Dirty /\ FormValid
  /\ form' = [form EXCEPT !.touched = TRUE, !.saving = TRUE]
  /\ Send("save", form.val, Nothing)
  /\ UNCHANGED <<account, pwDialog, known, loads>>

SaveProfile ==
  /\ form.on /\ ~form.loading /\ Dirty /\ FormValid /\ ~form.saving
  /\ form' = [form EXCEPT !.touched = TRUE, !.saving = TRUE]
  /\ Send("save", form.val, Nothing)
  /\ UNCHANGED <<account, pwDialog, known, loads>>

-----------------------------------------------------------------------------
(* The password.                                                            *)

OpenPwModal ==
  /\ form.on /\ ~form.loading /\ ~pwDialog.open
  /\ pwDialog' = [PwClosed EXCEPT !.open = TRUE, !.changing = pwDialog.changing]
  /\ UNCHANGED <<account, form, known, saves, loads>>

ClosePwModal ==
  /\ pwDialog.open /\ pwDialog' = [pwDialog EXCEPT !.open = FALSE]
  /\ UNCHANGED <<account, form, known, saves, loads>>

TypePasswords(current, next, confirm) ==
  /\ pwDialog.open
  /\ pwDialog' = [pwDialog EXCEPT !.current = current, !.next = next, !.confirm = confirm]
  /\ UNCHANGED <<account, form, known, saves, loads>>

(* A new password is too short, or one of Passwords.                        *)
PwErrors ==
  {e \in {"current", "next", "confirm"} :
     \/ e = "current" /\ pwDialog.current = Nothing
     \/ e = "next" /\ pwDialog.next = Nothing
     \/ e = "confirm" /\ pwDialog.next # pwDialog.confirm}

ChangePassword ==
  /\ pwDialog.open /\ ~pwDialog.changing
  /\ IF PwErrors # {}
       THEN pwDialog' = [pwDialog EXCEPT !.errors = PwErrors] /\ UNCHANGED saves
       ELSE /\ pwDialog' = [pwDialog EXCEPT !.changing = TRUE]
            /\ Send("password", pwDialog.current, pwDialog.next)
  /\ UNCHANGED <<account, form, known, loads>>

-----------------------------------------------------------------------------
(* The server and its answers.                                              *)

ExecuteSave ==
  /\ \E s \in saves :
       /\ ~s.done
       /\ LET ok == s.op = "save" \/ s.details = account.password IN
          /\ saves' = (saves \ {s}) \union {[s EXCEPT !.done = TRUE, !.ok = ok]}
          /\ account' = IF s.op = "save" THEN [account EXCEPT !.details = s.details]
                        ELSE IF ok THEN [account EXCEPT !.password = s.next] ELSE account
  /\ UNCHANGED <<form, pwDialog, known, loads>>

(* The answer of a change of the password closes the dialog, or blames the  *)
(* current password, in whatever dialog is open by now.                     *)
SaveAnswered ==
  /\ \E s \in saves :
       /\ s.done /\ saves' = saves \ {s}
       /\ form' = IF s.own /\ s.op = "save"
                    THEN [Apply(s.details, form) EXCEPT !.saving = FALSE] ELSE form
       /\ known' = IF s.own /\ s.op = "save" THEN s.details ELSE known
       /\ pwDialog' = IF ~s.own \/ s.op = "save" THEN pwDialog
                      ELSE IF s.ok THEN [pwDialog EXCEPT !.open = FALSE, !.changing = FALSE]
                      ELSE [pwDialog EXCEPT !.errors = {"current"}, !.changing = FALSE]
  /\ UNCHANGED <<account, loads>>

SaveFails ==
  /\ \E s \in saves :
       /\ saves' = saves \ {s}
       /\ form' = IF s.own /\ s.op = "save" THEN [form EXCEPT !.saving = FALSE] ELSE form
       /\ pwDialog' = IF s.own /\ s.op = "password"
                        THEN [pwDialog EXCEPT !.errors = {"current"}, !.changing = FALSE]
                        ELSE pwDialog
       /\ account' = [account EXCEPT !.strange = @ \/ (s.own /\ s.done)]
  /\ UNCHANGED <<known, loads>>

ProfileNext ==
  \/ OpenDetails \/ LeaveProfile \/ ReadProfile \/ ProfileLoaded \/ ProfileFails
  \/ \E val \in Values \union {Nothing} : OnInput(val)
  \/ ResetForm \/ SaveProfile
  \/ OpenPwModal \/ ClosePwModal \/ ChangePassword
  \/ \E current, next, confirm \in Passwords \union {Nothing} :
       TypePasswords(current, next, confirm)
  \/ ExecuteSave \/ SaveAnswered \/ SaveFails

ProfileSpec == ProfileInit /\ [][ProfileNext]_profileVars

-----------------------------------------------------------------------------

ProfileTypeOK ==
  /\ account.details \in Values /\ account.password \in Passwords
  /\ form.val \in Values \union {Nothing} /\ ShowError \in BOOLEAN
  /\ pwDialog.errors \subseteq {"current", "next", "confirm"}

(* The buttons of the page wait exactly while a request of theirs is under  *)
(* way, and there is one at a time of each (profile-page.component.ts,      *)
(* saveProfile and changePassword).                                         *)
OneSaveAtATime ==
  \A op \in {"save", "password"} :
    LET own == {s \in saves : s.own /\ s.op = op} IN
    /\ Cardinality(own) <= 1
    /\ (IF op = "save" THEN form.saving ELSE pwDialog.changing) <=> own # {}

(* At rest the page, what it compares the fields with, the rest of the      *)
(* console and the server agree on the details, unless the page was left    *)
(* during a save (a query it joins when it is opened again may have read    *)
(* the details before the server saved them), or an answer was lost.        *)
DetailsAgree ==
  form.on /\ ~form.loading /\ form.me # Nothing /\ ~account.strange =>
    /\ form.orig = form.me /\ known = form.me
    /\ ~form.saving => form.me = account.details

ProfileSound == OneSaveAtATime /\ DetailsAgree
=============================================================================
