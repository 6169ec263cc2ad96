----------------------------- MODULE Registries -----------------------------
(***************************************************************************)
(* The registries table and its default flag.                              *)
(*                                                                         *)
(* createRegistry and setDefaultRegistry run in Postgres transactions at   *)
(* the server's default isolation level, READ COMMITTED: an UPDATE selects *)
(* its rows in a snapshot of what was committed when the statement began,  *)
(* then locks them one by one, waiting for other transactions, and looks   *)
(* at a row again once it has the lock.  Row locks last until the end of   *)
(* the transaction; the server aborts a transaction in a cycle of waits.   *)
(***************************************************************************)
EXTENDS Naturals, FiniteSets

CONSTANTS
  Ids,      (* registry ids                                               *)
  Clients,  (* slots for requests in flight                               *)
  NoId,
  MayRemove (* whether registries are removed as well                     *)

ASSUME IdsAssumption == NoId \notin Ids /\ IsFiniteSet(Ids)
ASSUME ClientsAssumption == Clients # {} /\ IsFiniteSet(Clients)

VARIABLES
  registries, (* committed rows: id -> "absent", "plain" or "default"     *)
  txn,        (* one transaction per client                               *)
  used,       (* ids drawn so far: randomUUID never repeats one           *)
  latest      (* history: the registry last made default by a commit      *)

vars == <<registries, txn, used, latest>>

RowState == {"absent", "plain", "default"}

Steps == {"idle", "clear", "clearing", "set", "insert", "commit", "rollback",
          "delete"}

(* todo: rows the running UPDATE has still to lock; writes: the versions of *)
(* rows this transaction has written, on each of which it holds a lock.     *)
Txn == [pc : Steps, op : {"create", "setDefault", "remove"},
        id : Ids \union {NoId}, default : BOOLEAN, todo : SUBSET Ids,
        writes : [Ids -> RowState \union {"none"}]]

NoWrites == [i \in Ids |-> "none"]
Idle == [pc |-> "idle", op |-> "create", id |-> NoId, default |-> FALSE,
         todo |-> {}, writes |-> NoWrites]

Default(i) == registries[i] = "default"

Init ==
  /\ registries \in [Ids -> {"absent", "plain", "default"}]
  /\ Cardinality({i \in Ids : Default(i)}) <= 1
  /\ used = {i \in Ids : registries[i] # "absent"}
  /\ latest \in {i \in Ids : Default(i)} \union
                (IF \E i \in Ids : Default(i) THEN {} ELSE {NoId})
  /\ txn = [c \in Clients |-> Idle]

-----------------------------------------------------------------------------

At(c, step) == txn[c].pc = step
Goto(c, step) == txn' = [txn EXCEPT ![c].pc = step]

Locks(c) == {i \in Ids : txn[c].writes[i] # "none"}
Free(c, i) == \A d \in Clients \ {c} : i \notin Locks(d)

(* What a statement of c sees in row i: its own version, or the committed.  *)
Sees(c, i) == IF i \in Locks(c) THEN txn[c].writes[i] ELSE registries[i]

Write(c, i, row, step) ==
  txn' = [txn EXCEPT ![c].writes[i] = row, ![c].todo = @ \ {i},
                     ![c].pc = step]

-----------------------------------------------------------------------------
(* The requests.                                                            *)

(* createRegistry(input): input.default is optional.                        *)
BeginCreate(c) ==
  /\ At(c, "idle")
  /\ \E i \in Ids \ used, default \in BOOLEAN :
       /\ used' = used \union {i}
       /\ txn' = [txn EXCEPT ![c] =
            [Idle EXCEPT !.pc = IF default THEN "clear" ELSE "insert",
                         !.op = "create", !.id = i, !.default = default]]
  /\ UNCHANGED <<registries, latest>>

(* setDefaultRegistry(id): any id a client has seen, removed or not.        *)
BeginSetDefault(c) ==
  /\ At(c, "idle")
  /\ \E i \in used :
       txn' = [txn EXCEPT ![c] =
         [Idle EXCEPT !.pc = "clear", !.op = "setDefault", !.id = i,
                      !.default = TRUE]]
  /\ UNCHANGED <<registries, used, latest>>

BeginRemove(c) ==
  /\ At(c, "idle") /\ MayRemove
  /\ \E i \in used :
       txn' = [txn EXCEPT ![c] =
         [Idle EXCEPT !.pc = "delete", !.op = "remove", !.id = i]]
  /\ UNCHANGED <<registries, used, latest>>

-----------------------------------------------------------------------------
(* UPDATE registries SET is_default = false WHERE is_default AND id <> ...  *)

AfterClear(c) == IF txn[c].op = "create" THEN "insert" ELSE "set"

(* Mutant: the old default keeps its flag.                                  *)
ClearSnapshotNothing(c) ==
  /\ At(c, "clear")
  /\ Goto(c, AfterClear(c))
  /\ UNCHANGED <<registries, used, latest>>

ClearSnapshot(c) ==
  /\ At(c, "clear")
  /\ txn' = [txn EXCEPT ![c].pc = "clearing",
                        ![c].todo = {i \in Ids : Default(i)} \ {txn[c].id}]
  /\ UNCHANGED <<registries, used, latest>>

(* A row of the snapshot, once its lock is free: cleared if the condition   *)
(* still holds of its committed version, else skipped.                      *)
ClearRow(c) ==
  /\ At(c, "clearing")
  /\ \E i \in txn[c].todo :
       /\ Free(c, i)
       /\ IF Default(i)
            THEN Write(c, i, "plain", "clearing")
            ELSE txn' = [txn EXCEPT ![c].todo = @ \ {i}]
  /\ UNCHANGED <<registries, used, latest>>

ClearDone(c) ==
  /\ At(c, "clearing") /\ txn[c].todo = {}
  /\ Goto(c, AfterClear(c))
  /\ UNCHANGED <<registries, used, latest>>

(* Mutant: a registry that is gone is not an error.                         *)
SetFlagOrIgnore(c) ==
  /\ At(c, "set") /\ Free(c, txn[c].id)
  /\ IF Sees(c, txn[c].id) = "absent"
       THEN Goto(c, "commit")
       ELSE Write(c, txn[c].id, "default", "commit")
  /\ UNCHANGED <<registries, used, latest>>

(* UPDATE ... SET is_default = true WHERE id = ...: no row, the transaction *)
(* throws registry_not_found.                                               *)
SetFlag(c) ==
  /\ At(c, "set") /\ Free(c, txn[c].id)
  /\ IF Sees(c, txn[c].id) = "absent"
       THEN Goto(c, "rollback")
       ELSE Write(c, txn[c].id, "default", "commit")
  /\ UNCHANGED <<registries, used, latest>>

(* Mutant: a failed transaction is left open.                               *)
RollbackForgotten(c) == At(c, "rollback") /\ UNCHANGED vars

(* Mutant: the new row is inserted without its flag.                        *)
InsertRowPlain(c) ==
  /\ At(c, "insert")
  /\ Write(c, txn[c].id, "plain", "commit")
  /\ UNCHANGED <<registries, used, latest>>

InsertRow(c) ==
  /\ At(c, "insert")
  /\ Write(c, txn[c].id, IF txn[c].default THEN "default" ELSE "plain", "commit")
  /\ UNCHANGED <<registries, used, latest>>

-----------------------------------------------------------------------------

Apply(c) ==
  registries' = [i \in Ids |-> IF i \in Locks(c) THEN txn[c].writes[i]
                                                 ELSE registries[i]]

(* Mutant: a commit replaces rows it has not written as well.               *)
CommitUndefined(c) ==
  /\ At(c, "commit")
  /\ registries' = [i \in Ids |-> txn[c].writes[i]]
  /\ latest' = IF txn[c].default THEN txn[c].id ELSE latest
  /\ txn' = [txn EXCEPT ![c] = Idle]
  /\ UNCHANGED used

(* COMMIT publishes the row versions and releases the locks.                *)
Commit(c) ==
  /\ At(c, "commit")
  /\ Apply(c)
  /\ latest' = IF txn[c].default THEN txn[c].id ELSE latest
  /\ txn' = [txn EXCEPT ![c] = Idle]
  /\ UNCHANGED used

Rollback(c) ==
  /\ At(c, "rollback")
  /\ txn' = [txn EXCEPT ![c] = Idle]
  /\ UNCHANGED <<registries, used, latest>>

(* removeRegistry: one DELETE statement, committed on its own.              *)
DeleteRow(c) ==
  /\ At(c, "delete") /\ Free(c, txn[c].id)
  /\ registries' = [registries EXCEPT ![txn[c].id] = "absent"]
  /\ txn' = [txn EXCEPT ![c] = Idle]
  /\ UNCHANGED <<used, latest>>

(* Transactions whose next row lock another one holds.                      *)
WaitsFor(c) ==
  {d \in Clients \ {c} :
     \/ At(c, "clearing") /\ txn[c].todo # {} /\ txn[c].todo \subseteq
                               UNION {Locks(e) : e \in Clients \ {c}}
        /\ txn[c].todo \intersect Locks(d) # {}
     \/ At(c, "set") /\ txn[c].id \in Locks(d)
     \/ At(c, "delete") /\ txn[c].id \in Locks(d)}

(* The server finds a cycle of waits and aborts one of its transactions.    *)
DeadlockAbort(c) ==
  /\ \E D \in SUBSET Clients :
       c \in D /\ \A d \in D : WaitsFor(d) \intersect D # {}
  /\ Goto(c, "rollback")
  /\ UNCHANGED <<registries, used, latest>>

Statement(c) ==
  \/ ClearSnapshot(c) \/ ClearRow(c) \/ ClearDone(c) \/ SetFlag(c)
  \/ InsertRow(c) \/ Commit(c) \/ Rollback(c) \/ DeleteRow(c)
  \/ DeadlockAbort(c)

Next ==
  \E c \in Clients :
    BeginCreate(c) \/ BeginSetDefault(c) \/ BeginRemove(c) \/ Statement(c)

Spec == Init /\ [][Next]_vars

(* A transaction's statements run; one that waits for a row queues for it,  *)
(* and the server grants row locks in the order of the queue, so a row that *)
(* is released again and again is granted to each waiter at last (strong    *)
(* fairness).  Clients owe no requests.                                     *)
FairSpec == Spec /\ \A c \in Clients : SF_vars(Statement(c))

-----------------------------------------------------------------------------

TypeOK ==
  /\ registries \in [Ids -> RowState]
  /\ txn \in [Clients -> Txn]
  /\ used \subseteq Ids
  /\ latest \in Ids \union {NoId}

(* "Marks the given registry as default and clears the flag on every other  *)
(* registry, atomically." (store/registries.ts:114)                         *)
AtMostOneDefault == Cardinality({i \in Ids : Default(i)}) <= 1

(* What is left of that promise when transactions overlap: never more       *)
(* defaults than requests that may run at once, however many have run, so   *)
(* the flags do not pile up, and with one request at a time the promise     *)
(* holds.                                                                   *)
DefaultsBounded ==
  Cardinality({i \in Ids : Default(i)}) <= Cardinality(Clients)

(* Switching the default never leaves the system without one: the flag is   *)
(* cleared on the old default only together with its being set on another   *)
(* row, even if that row is removed half-way.                               *)
SwitchKeepsADefault ==
  [][(\E i \in Ids : Default(i)) /\ (\A i \in Ids : registries[i] # "absent"
                                         => registries'[i] # "absent")
       => (\E i \in Ids : Default(i))']_registries

(* The registry made default by the latest commit is the default, unless it *)
(* was removed: a transaction that began earlier cannot clear its flag      *)
(* without becoming the latest itself.                                      *)
LatestSwitchWins ==
  latest # NoId => registries[latest] \in {"default", "absent"}

(* Every request in flight is answered: waits for row locks end.            *)
RequestsEnd == \A c \in Clients : ~At(c, "idle") ~> At(c, "idle")
=============================================================================
