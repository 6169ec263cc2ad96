------------------------------- MODULE Toasts -------------------------------
(***************************************************************************)
(* The console's toasts: the stack on the screen, the timer that dismisses *)
(* each, and the timer that takes it away once it has faded out.  Whatever *)
(* is written to console.error or console.warn comes up as a toast too.    *)
(***************************************************************************)
EXTENDS Naturals, SequencesExt

CONSTANTS
  Messages,     (* what is worth a toast                                    *)
  Noise,        (* blank messages, and those of the framework               *)
  MaxVisible,   (* the most on the screen                                   *)
  MaxToasts     (* bound on the toasts of a run                             *)

ASSUME ToastsAssumption == MaxVisible \in Nat \ {0} /\ MaxToasts \in Nat

VARIABLES
  toasts,   (* the stack, oldest first                                      *)
  timers,   (* the timers that run, by toast: "ttl" and "exit"              *)
  idSeq     (* the last number given to a toast                             *)

toastVars == <<toasts, timers, idSeq>>

ToastInit == toasts = <<>> /\ timers = {} /\ idSeq = 0

Ids == {toasts[i].id : i \in DOMAIN toasts}

Trimmed == IF Len(toasts) >= MaxVisible THEN Tail(toasts) ELSE toasts

(* Noise, and what is on the screen already, makes no toast.                *)
Add(message) ==
  /\ message \notin Noise
  /\ \A i \in DOMAIN toasts : toasts[i].message # message
  /\ idSeq < MaxToasts /\ idSeq' = idSeq + 1
  /\ toasts' = Append(Trimmed, [id |-> idSeq', message |-> message, hiding |-> FALSE])
  /\ timers' = timers \union {[id |-> idSeq', kind |-> "ttl"]}

(* From the program, or through the console.                                *)
Push(message) == Add(message)

Hidden(id) ==
  [i \in DOMAIN toasts |->
     IF toasts[i].id = id THEN [toasts[i] EXCEPT !.hiding = TRUE] ELSE toasts[i]]

(* Mutant: the toast fades out and stays.                                   *)
DismissForever(id, left) == toasts' = Hidden(id) /\ timers' = left

Dismiss(id, left) ==
  /\ toasts' = Hidden(id)
  /\ timers' = left \union {[id |-> id, kind |-> "exit"]}

(* The user closes a toast.                                                 *)
CloseToast(id) ==
  /\ id \in Ids /\ Dismiss(id, timers)
  /\ UNCHANGED idSeq

TtlFires(id) ==
  /\ [id |-> id, kind |-> "ttl"] \in timers
  /\ Dismiss(id, timers \ {[id |-> id, kind |-> "ttl"]})
  /\ UNCHANGED idSeq

(* The toast of that number, if it is still there: no two have the same.    *)
Without(id) ==
  IF id \in Ids THEN RemoveAt(toasts, CHOOSE i \in DOMAIN toasts : toasts[i].id = id)
  ELSE toasts

ExitFires(id) ==
  /\ [id |-> id, kind |-> "exit"] \in timers
  /\ timers' = timers \ {[id |-> id, kind |-> "exit"]}
  /\ toasts' = Without(id)
  /\ UNCHANGED idSeq

ToastNext ==
  \/ \E message \in Messages \union Noise : Push(message)
  \/ \E id \in 1..MaxToasts : CloseToast(id) \/ TtlFires(id) \/ ExitFires(id)

ToastSpec == ToastInit /\ [][ToastNext]_toastVars

ToastFairness ==
  \A id \in 1..MaxToasts : WF_toastVars(TtlFires(id)) /\ WF_toastVars(ExitFires(id))

-----------------------------------------------------------------------------

ToastTypeOK ==
  /\ \A i \in DOMAIN toasts : toasts[i].message \in Messages
  /\ timers \subseteq [id : 1..MaxToasts, kind : {"ttl", "exit"}] /\ idSeq \in 0..MaxToasts

(* The stack never exceeds its cap, shows no message twice and is in the    *)
(* order of arrival; whatever is on it has the timer that will take it      *)
(* further (toast.service.ts, _add and dismiss).                            *)
ToastsKept ==
  /\ Len(toasts) <= MaxVisible
  /\ \A i, j \in DOMAIN toasts : i < j => /\ toasts[i].message # toasts[j].message
                                          /\ toasts[i].id < toasts[j].id
  /\ \A i \in DOMAIN toasts :
       [id |-> toasts[i].id, kind |-> IF toasts[i].hiding THEN "exit" ELSE "ttl"] \in timers

(* No toast stays for ever: when no more of them come, the screen empties.  *)
ToastsLeave == toasts # <<>> ~> toasts = <<>>
=============================================================================
