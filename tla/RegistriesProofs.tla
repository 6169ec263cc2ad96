-------------------------- MODULE RegistriesProofs --------------------------
(***************************************************************************)
(* Theorems about Registries, for any number of registries and of          *)
(* transactions at once.                                                   *)
(*                                                                         *)
(* Locks alone do not keep the flag unique, for an UPDATE sees committed   *)
(* rows only.  What they leave is a count.  A transaction spares the       *)
(* defaults that were committed after its snapshot, and clears the others; *)
(* so of the defaults there are, the one committed first was spared by all *)
(* who committed the others, and these ran beside its transaction.         *)
(***************************************************************************)
EXTENDS Registries, Counting

(* What a transaction holds at each of its steps.                           *)
TxnOK(c) ==
  LET t == txn[c] IN
  /\ t.pc # "idle" => t.id \in used
  /\ t.pc \in {"idle", "clear", "delete"} => Locks(c) = {}
  /\ t.pc = "delete" => t.op = "remove"
  /\ t.pc \in {"clear", "clearing", "set"} => t.default
  /\ t.pc \in {"clear", "clearing"} => t.op \in {"create", "setDefault"}
  /\ t.pc = "set" => t.op = "setDefault"
  /\ t.pc = "insert" => t.op = "create" /\ (~t.default => Locks(c) = {})
  /\ t.pc = "clearing" => t.id \notin t.todo
  /\ t.pc \in {"clearing", "set", "insert"} =>
       \A i \in Locks(c) : t.writes[i] = "plain" /\ i # t.id
  /\ t.pc = "commit" =>
       /\ t.writes[t.id] = IF t.default THEN "default" ELSE "plain"
       /\ \A i \in Locks(c) \ {t.id} : t.default /\ t.writes[i] = "plain"
       /\ t.op = "create" \/ t.default
  /\ Locks(c) \subseteq used

(* The row a transaction is about to create is there for nobody yet.        *)
Creating(c) == txn[c].pc # "idle" /\ txn[c].op = "create"
CreateOK(c) ==
  Creating(c) =>
    /\ registries[txn[c].id] = "absent" /\ latest # txn[c].id
    /\ \A d \in Clients \ {c} :
         txn[c].id \notin Locks(d) /\ (Creating(d) => txn[d].id # txn[c].id)

RowsUsed ==
  /\ \A i \in Ids : registries[i] # "absent" => i \in used
  /\ latest \in used \union {NoId}

RInv ==
  /\ TypeOK /\ RowsUsed /\ LatestSwitchWins
  /\ \A c \in Clients : TxnOK(c) /\ CreateOK(c)

-----------------------------------------------------------------------------
LEMMA IdleTxn == Idle \in Txn /\ \A i \in Ids : Idle.writes[i] = "none"
BY DEF Idle, Txn, Steps, NoWrites

LEMMA RInvInit == Init => RInv
<1> SUFFICES ASSUME Init PROVE RInv OBVIOUS
<1>1. TypeOK BY IdleTxn DEF Init, TypeOK, RowState, Default
<1>2. RowsUsed /\ LatestSwitchWins
  BY DEF Init, RowsUsed, LatestSwitchWins, Default
<1>3. ASSUME NEW c \in Clients PROVE TxnOK(c) /\ CreateOK(c)
  <2>1. txn[c] = Idle /\ Idle.pc = "idle" BY DEF Init, Idle
  <2>2. Locks(c) = {} BY <2>1, IdleTxn DEF Locks
  <2> QED BY <2>1, <2>2 DEF TxnOK, CreateOK, Creating
<1> QED BY <1>1, <1>2, <1>3 DEF RInv

(* Whoever stands still keeps what it holds, while no row used is forgotten.*)
LEMMA TxnFrame ==
  ASSUME NEW d, TxnOK(d), txn'[d] = txn[d], used \subseteq used'
  PROVE  TxnOK(d)'
BY DEF TxnOK, Locks

(* A step that changes nothing but what c holds, and what it locks is a row *)
(* that is there, or the one c is creating.                                 *)
LEMMA LocalStep ==
  ASSUME RInv, NEW c \in Clients, txn' \in [Clients -> Txn],
         \A d \in Clients \ {c} : txn'[d] = txn[d],
         UNCHANGED <<registries, used, latest>>,
         TxnOK(c)',
         Creating(c)' => Creating(c) /\ txn'[c].id = txn[c].id,
         \A i \in Locks(c)' \ Locks(c) :
           registries[i] # "absent" \/ (Creating(c) /\ i = txn[c].id)
  PROVE  RInv'
<1>1. TypeOK' /\ RowsUsed' /\ LatestSwitchWins'
  BY DEF RInv, TypeOK, RowsUsed, LatestSwitchWins
<1>2. ASSUME NEW d \in Clients \ {c} PROVE TxnOK(d)'
  BY <1>2, TxnFrame DEF RInv
<1>3. \A d \in Clients \ {c} : Locks(d)' = Locks(d) /\ (Creating(d)' <=> Creating(d))
  BY DEF Locks, Creating
<1>4. \A d \in Clients : CreateOK(d) BY DEF RInv
<1>5. CreateOK(c)' BY <1>3, <1>4 DEF CreateOK
<1>6. ASSUME NEW d \in Clients \ {c}, Creating(d) PROVE txn[d].id \notin Locks(c)'
  BY <1>4, <1>6 DEF CreateOK
<1>7. ASSUME NEW d \in Clients \ {c} PROVE CreateOK(d)'
  BY <1>3, <1>4, <1>6, <1>7 DEF CreateOK
<1> QED BY <1>1, <1>2, <1>5, <1>7 DEF RInv

(* The rows are as the transaction left them.                               *)
LEMMA TxnType ==
  ASSUME RInv, NEW c \in Clients
  PROVE  /\ txn[c] \in Txn /\ txn \in [Clients -> Txn] /\ registries \in [Ids -> RowState]
         /\ TxnOK(c) /\ CreateOK(c) /\ Locks(c) \subseteq Ids
BY DEF RInv, TypeOK, Locks

LEMMA IdOfTxn ==
  ASSUME RInv, NEW c \in Clients, txn[c].pc # "idle"
  PROVE  txn[c].id \in Ids /\ txn[c].id \in used /\ txn[c].id # NoId
BY TxnType, IdsAssumption DEF TxnOK, RInv, TypeOK

LEMMA GotoKeeps ==
  ASSUME RInv, NEW c \in Clients, NEW step \in Steps \ {"idle"}, txn[c].pc # "idle",
         txn' = [txn EXCEPT ![c].pc = step],
         UNCHANGED <<registries, used, latest>>, TxnOK(c)'
  PROVE  RInv'
<1>1. txn[c] \in Txn /\ txn \in [Clients -> Txn] BY TxnType
<1>2. txn'[c] = [txn[c] EXCEPT !.pc = step] BY <1>1
<1>3. txn'[c] \in Txn BY <1>1, <1>2 DEF Txn
<1>4. txn' \in [Clients -> Txn] /\ \A d \in Clients \ {c} : txn'[d] = txn[d]
  BY <1>1, <1>3
<1>5. txn'[c].id = txn[c].id /\ txn'[c].op = txn[c].op /\ txn'[c].writes = txn[c].writes
  BY <1>1, <1>2 DEF Txn
<1>6. Locks(c)' = Locks(c) BY <1>5 DEF Locks
<1>7. Creating(c)' => Creating(c) /\ txn'[c].id = txn[c].id BY <1>5 DEF Creating
<1> QED BY <1>4, <1>6, <1>7, LocalStep

(* A row version is written, and the next step begins.                      *)
LEMMA WriteKeeps ==
  ASSUME RInv, NEW c \in Clients, NEW i \in Ids, NEW row \in RowState,
         NEW step \in Steps \ {"idle"}, txn[c].pc # "idle",
         Write(c, i, row, step), UNCHANGED <<registries, used, latest>>, TxnOK(c)',
         registries[i] # "absent" \/ (Creating(c) /\ i = txn[c].id)
  PROVE  RInv'
<1>1. txn[c] \in Txn /\ txn \in [Clients -> Txn] BY TxnType
<1>2. txn'[c] = [txn[c] EXCEPT !.writes = [txn[c].writes EXCEPT ![i] = row],
                               !.todo = txn[c].todo \ {i}, !.pc = step]
  BY <1>1 DEF Write, Txn
<1>3. txn'[c] \in Txn
  <2>1. /\ txn[c].writes \in [Ids -> RowState \union {"none"}] /\ txn[c].todo \in SUBSET Ids
    BY <1>1 DEF Txn
  <2>2. /\ [txn[c].writes EXCEPT ![i] = row] \in [Ids -> RowState \union {"none"}]
        /\ txn[c].todo \ {i} \in SUBSET Ids /\ step \in Steps
    BY <2>1
  <2>3. /\ txn'[c] = [pc |-> txn'[c].pc, op |-> txn'[c].op, id |-> txn'[c].id,
                       default |-> txn'[c].default, todo |-> txn'[c].todo,
                       writes |-> txn'[c].writes]
        /\ txn'[c].pc = step /\ txn'[c].op = txn[c].op /\ txn'[c].id = txn[c].id
        /\ txn'[c].default = txn[c].default /\ txn'[c].todo = txn[c].todo \ {i}
        /\ txn'[c].writes = [txn[c].writes EXCEPT ![i] = row]
    BY <1>1, <1>2 DEF Txn
  <2> QED BY <1>1, <2>2, <2>3 DEF Txn
<1>4. txn' \in [Clients -> Txn] /\ \A d \in Clients \ {c} : txn'[d] = txn[d]
  BY <1>1, <1>3 DEF Write
<1>5. /\ txn'[c].id = txn[c].id /\ txn'[c].op = txn[c].op
      /\ txn'[c].writes = [txn[c].writes EXCEPT ![i] = row]
  BY <1>1, <1>2 DEF Txn
<1>6. Locks(c)' = Locks(c) \union {i}
  BY <1>1, <1>5 DEF Locks, Txn, RowState
<1>7. Creating(c)' => Creating(c) /\ txn'[c].id = txn[c].id BY <1>5 DEF Creating
<1> QED BY <1>4, <1>6, <1>7, LocalStep

LEMMA ReturnToIdle ==
  ASSUME RInv, NEW c \in Clients, txn' = [txn EXCEPT ![c] = Idle]
  PROVE  /\ txn' \in [Clients -> Txn] /\ txn'[c] = Idle
         /\ \A d \in Clients \ {c} : txn'[d] = txn[d]
         /\ Locks(c)' = {} /\ ~Creating(c)' /\ TxnOK(c)' /\ CreateOK(c)'
<1>1. txn \in [Clients -> Txn] BY TxnType
<1>2. txn' \in [Clients -> Txn] /\ txn'[c] = Idle BY <1>1, IdleTxn
<1>3. Locks(c)' = {} BY <1>2, IdleTxn DEF Locks
<1>4. txn'[c].pc = "idle" BY <1>2 DEF Idle
<1>5. TxnOK(c)' BY <1>3, <1>4 DEF TxnOK
<1>6. ~Creating(c)' /\ CreateOK(c)' BY <1>4 DEF Creating, CreateOK
<1> QED BY <1>1, <1>2, <1>3, <1>5, <1>6

-----------------------------------------------------------------------------
(* The requests begin.                                                      *)

LEMMA TxnRecord ==
  ASSUME NEW p \in Steps, NEW o \in {"create", "setDefault", "remove"},
         NEW i \in Ids \union {NoId}, NEW b \in BOOLEAN, NEW t \in SUBSET Ids,
         NEW w \in [Ids -> RowState \union {"none"}]
  PROVE  [pc |-> p, op |-> o, id |-> i, default |-> b, todo |-> t, writes |-> w] \in Txn
BY DEF Txn

LEMMA BeginCreateKeeps ==
  ASSUME RInv, NEW c \in Clients, BeginCreate(c) PROVE RInv'
<1>1. txn[c] \in Txn /\ txn \in [Clients -> Txn] /\ used \subseteq Ids
  BY TxnType DEF RInv, TypeOK
<1>2. PICK i \in Ids \ used, default \in BOOLEAN :
        /\ used' = used \union {i}
        /\ txn' = [txn EXCEPT ![c] =
             [Idle EXCEPT !.pc = IF default THEN "clear" ELSE "insert",
                          !.op = "create", !.id = i, !.default = default]]
  BY DEF BeginCreate
<1>3. txn'[c] = [pc |-> IF default THEN "clear" ELSE "insert", op |-> "create",
                 id |-> i, default |-> default, todo |-> {}, writes |-> NoWrites]
  BY <1>1, <1>2 DEF Idle
<1>4. txn' \in [Clients -> Txn] /\ \A d \in Clients \ {c} : txn'[d] = txn[d]
  <2>1. NoWrites \in [Ids -> RowState \union {"none"}] BY DEF NoWrites
  <2>2. (IF default THEN "clear" ELSE "insert") \in Steps BY DEF Steps
  <2>3. {} \in SUBSET Ids OBVIOUS
  <2>4. txn'[c] \in Txn BY ONLY <1>2, <1>3, <2>1, <2>2, <2>3, TxnRecord
  <2> QED BY <1>1, <1>2, <2>4
<1>5. Locks(c)' = {} BY <1>3 DEF Locks, NoWrites
<1>6. TxnOK(c)' BY <1>2, <1>3, <1>5 DEF TxnOK
<1>7. UNCHANGED <<registries, latest>> BY DEF BeginCreate
<1>8. ASSUME NEW d \in Clients \ {c} PROVE TxnOK(d)' /\ Locks(d)' = Locks(d)
  BY <1>2, <1>4, TxnFrame, TxnType DEF Locks
<1>9. ASSUME NEW d \in Clients \ {c}
      PROVE  i \notin Locks(d) /\ (Creating(d) => txn[d].id # i)
  BY <1>2, TxnType DEF TxnOK, Creating
<1>10. CreateOK(c)'
  <2>1. registries[i] = "absent" /\ latest # i
    BY <1>2, IdsAssumption DEF RInv, RowsUsed
  <2> QED BY <1>3, <1>4, <1>7, <1>8, <1>9, <2>1 DEF CreateOK, Creating
<1>11. ASSUME NEW d \in Clients \ {c} PROVE CreateOK(d)'
  BY <1>3, <1>4, <1>5, <1>7, <1>8, <1>9, TxnType DEF CreateOK, Creating
<1>12. TypeOK' /\ RowsUsed' /\ LatestSwitchWins'
  BY <1>1, <1>2, <1>4, <1>7 DEF RInv, TypeOK, RowsUsed, LatestSwitchWins
<1> QED BY <1>6, <1>8, <1>10, <1>11, <1>12 DEF RInv

LEMMA BeginOtherKeeps ==
  ASSUME RInv, NEW c \in Clients, BeginSetDefault(c) \/ BeginRemove(c) PROVE RInv'
<1>1. txn[c] \in Txn /\ txn \in [Clients -> Txn] /\ used \subseteq Ids
  BY TxnType DEF RInv, TypeOK
<1>2. UNCHANGED <<registries, used, latest>> BY DEF BeginSetDefault, BeginRemove
<1> DEFINE Switching(i) == [pc |-> "clear", op |-> "setDefault", id |-> i,
                            default |-> TRUE, todo |-> {}, writes |-> NoWrites]
           Removing(i) == [pc |-> "delete", op |-> "remove", id |-> i,
                           default |-> FALSE, todo |-> {}, writes |-> NoWrites]
<1>3. PICK i, t : /\ i \in used /\ t \in {Switching(i), Removing(i)}
                  /\ txn' = [txn EXCEPT ![c] = t]
  <2>1. CASE BeginSetDefault(c)
    <3>1. PICK i \in used : txn' = [txn EXCEPT ![c] = Switching(i)]
      BY <2>1 DEF BeginSetDefault, Idle
    <3> QED BY <3>1
  <2>2. CASE BeginRemove(c)
    <3>1. PICK i \in used : txn' = [txn EXCEPT ![c] = Removing(i)]
      BY <2>2 DEF BeginRemove, Idle
    <3> QED BY <3>1
  <2> QED BY <2>1, <2>2
<1>4. t \in Txn
  <2>1. NoWrites \in [Ids -> RowState \union {"none"}] BY DEF NoWrites
  <2>2. {} \in SUBSET Ids /\ i \in Ids \union {NoId} /\ {"clear", "delete"} \subseteq Steps
    BY <1>1, <1>3 DEF Steps
  <2>3. Switching(i) \in Txn BY <2>1, <2>2 DEF Txn
  <2>4. Removing(i) \in Txn BY <2>1, <2>2 DEF Txn
  <2> QED BY <1>3, <2>3, <2>4
<1>5. txn'[c] = t /\ txn' \in [Clients -> Txn]
      /\ \A d \in Clients \ {c} : txn'[d] = txn[d]
  BY <1>1, <1>3, <1>4
<1>6. Locks(c)' = {} BY <1>3, <1>5 DEF Locks, NoWrites
<1>7. TxnOK(c)' BY <1>2, <1>3, <1>5, <1>6 DEF TxnOK
<1>8. ~Creating(c)' BY <1>3, <1>5 DEF Creating
<1> QED BY <1>2, <1>3, <1>5, <1>6, <1>7, <1>8, LocalStep

-----------------------------------------------------------------------------
(* Their statements.                                                        *)

LEMMA ClearSnapshotKeeps ==
  ASSUME RInv, NEW c \in Clients, ClearSnapshot(c) PROVE RInv'
<1>1. txn[c] \in Txn /\ txn \in [Clients -> Txn] /\ TxnOK(c) BY TxnType
<1>2. UNCHANGED <<registries, used, latest>> /\ txn[c].pc = "clear"
  BY DEF ClearSnapshot, At
<1>3. txn'[c] = [pc |-> "clearing", op |-> txn[c].op, id |-> txn[c].id,
                 default |-> txn[c].default,
                 todo |-> {i \in Ids : Default(i)} \ {txn[c].id},
                 writes |-> txn[c].writes]
  BY <1>1 DEF ClearSnapshot, Txn
<1>4. txn'[c] \in Txn BY <1>1, <1>3 DEF Txn, Steps
<1>5. txn' \in [Clients -> Txn] /\ \A d \in Clients \ {c} : txn'[d] = txn[d]
  BY <1>1, <1>4 DEF ClearSnapshot
<1>6. Locks(c)' = Locks(c) /\ Locks(c) = {} BY <1>1, <1>2, <1>3 DEF Locks, TxnOK
<1>7. TxnOK(c)' BY <1>1, <1>2, <1>3, <1>6 DEF TxnOK
<1>8. Creating(c)' => Creating(c) /\ txn'[c].id = txn[c].id
  BY <1>2, <1>3 DEF Creating
<1> QED BY <1>2, <1>5, <1>6, <1>7, <1>8, LocalStep

(* The fields of a transaction after one statement's write.                 *)
Written(c, i, row, step) ==
  /\ txn'[c].pc = step /\ txn'[c].op = txn[c].op /\ txn'[c].id = txn[c].id
  /\ txn'[c].default = txn[c].default /\ txn'[c].todo = txn[c].todo \ {i}
  /\ txn'[c].writes[i] = row
  /\ \A j \in Ids \ {i} : txn'[c].writes[j] = txn[c].writes[j]
  /\ Locks(c)' = Locks(c) \union {i}
  /\ \A d \in Clients \ {c} : txn'[d] = txn[d]

LEMMA WriteFields ==
  ASSUME RInv, NEW c \in Clients, NEW i \in Ids, NEW row \in RowState, NEW step \in Steps,
         Write(c, i, row, step)
  PROVE  Written(c, i, row, step)
<1>1. txn[c] \in Txn /\ txn \in [Clients -> Txn] BY TxnType
<1>2. /\ txn'[c].pc = step /\ txn'[c].op = txn[c].op /\ txn'[c].id = txn[c].id
      /\ txn'[c].default = txn[c].default /\ txn'[c].todo = txn[c].todo \ {i}
      /\ txn'[c].writes = [txn[c].writes EXCEPT ![i] = row]
  BY <1>1 DEF Write, Txn
<1>3. txn[c].writes \in [Ids -> RowState \union {"none"}] BY <1>1 DEF Txn
<1>4. Locks(c)' = Locks(c) \union {i} BY <1>2, <1>3 DEF Locks, RowState
<1>5. \A d \in Clients \ {c} : txn'[d] = txn[d] BY <1>1 DEF Write
<1> QED BY <1>2, <1>3, <1>4, <1>5 DEF Written

LEMMA ClearRowKeeps ==
  ASSUME RInv, NEW c \in Clients, ClearRow(c) PROVE RInv'
<1>1. txn[c] \in Txn /\ txn \in [Clients -> Txn] /\ TxnOK(c) BY TxnType
<1>2. UNCHANGED <<registries, used, latest>> /\ txn[c].pc = "clearing"
  BY DEF ClearRow, At
<1>3. PICK i \in txn[c].todo :
        IF Default(i) THEN Write(c, i, "plain", "clearing")
        ELSE txn' = [txn EXCEPT ![c].todo = @ \ {i}]
  BY DEF ClearRow
<1>4. i \in Ids /\ i # txn[c].id BY <1>1, <1>2 DEF Txn, TxnOK
<1>5. CASE Default(i)
  <2>1. Write(c, i, "plain", "clearing") /\ "plain" \in RowState /\ "clearing" \in Steps
    BY <1>3, <1>5 DEF RowState, Steps
  <2>2. i \in used /\ registries[i] # "absent"
    BY <1>4, <1>5 DEF RInv, RowsUsed, Default
  <2>3. Written(c, i, "plain", "clearing") BY <1>4, <2>1, WriteFields
  <2>4. TxnOK(c)' BY <1>1, <1>2, <1>4, <2>2, <2>3, TxnType DEF TxnOK, Written
  <2> QED BY <1>2, <1>4, <2>1, <2>2, <2>4, WriteKeeps DEF Steps
<1>6. CASE ~Default(i)
  <2>1. /\ txn'[c] = [pc |-> txn[c].pc, op |-> txn[c].op, id |-> txn[c].id,
                      default |-> txn[c].default, todo |-> txn[c].todo \ {i},
                      writes |-> txn[c].writes]
        /\ \A d \in Clients \ {c} : txn'[d] = txn[d]
        /\ txn' = [txn EXCEPT ![c] = txn'[c]]
    BY <1>1, <1>3, <1>6 DEF Txn
  <2>2. txn'[c] \in Txn BY <1>1, <2>1 DEF Txn
  <2>3. txn' \in [Clients -> Txn] BY <1>1, <2>1, <2>2
  <2>4. Locks(c)' = Locks(c) BY <2>1 DEF Locks
  <2>5. TxnOK(c)' BY <1>1, <1>2, <2>1, <2>4 DEF TxnOK
  <2>6. Creating(c)' => Creating(c) /\ txn'[c].id = txn[c].id
    BY <2>1 DEF Creating
  <2> QED BY <1>2, <2>1, <2>3, <2>4, <2>5, <2>6, LocalStep
<1> QED BY <1>5, <1>6

(* The fields of a transaction that only moves on.                          *)
LEMMA GotoFields ==
  ASSUME RInv, NEW c \in Clients, NEW step \in Steps, Goto(c, step)
  PROVE  /\ txn'[c].pc = step /\ txn'[c].op = txn[c].op /\ txn'[c].id = txn[c].id
         /\ txn'[c].default = txn[c].default /\ txn'[c].todo = txn[c].todo
         /\ txn'[c].writes = txn[c].writes /\ Locks(c)' = Locks(c)
         /\ txn' = [txn EXCEPT ![c].pc = step]
         /\ \A d \in Clients \ {c} : txn'[d] = txn[d]
<1>1. txn[c] \in Txn /\ txn \in [Clients -> Txn] BY TxnType
<1>2. /\ txn'[c].pc = step /\ txn'[c].op = txn[c].op /\ txn'[c].id = txn[c].id
      /\ txn'[c].default = txn[c].default /\ txn'[c].todo = txn[c].todo
      /\ txn'[c].writes = txn[c].writes
  BY <1>1 DEF Goto, Txn
<1> QED BY <1>1, <1>2 DEF Goto, Locks

LEMMA ClearDoneKeeps ==
  ASSUME RInv, NEW c \in Clients, ClearDone(c) PROVE RInv'
<1>1. txn[c] \in Txn /\ TxnOK(c) BY TxnType
<1>2. UNCHANGED <<registries, used, latest>> /\ txn[c].pc = "clearing"
  BY DEF ClearDone, At
<1>3. AfterClear(c) \in Steps \ {"idle"} /\ Goto(c, AfterClear(c))
  BY DEF ClearDone, AfterClear, Steps
<1>4. TxnOK(c)' BY <1>1, <1>2, <1>3, GotoFields DEF TxnOK, AfterClear
<1> QED BY <1>2, <1>3, <1>4, GotoFields, GotoKeeps

LEMMA SetFlagKeeps ==
  ASSUME RInv, NEW c \in Clients, SetFlag(c) PROVE RInv'
<1>1. txn[c] \in Txn /\ TxnOK(c) BY TxnType
<1>2. UNCHANGED <<registries, used, latest>> /\ txn[c].pc = "set"
  BY DEF SetFlag, At
<1>3. txn[c].id \in Ids /\ txn[c].id \in used BY <1>2, IdOfTxn
<1>4. CASE Sees(c, txn[c].id) = "absent"
  <2>1. Goto(c, "rollback") /\ "rollback" \in Steps \ {"idle"}
    BY <1>4 DEF SetFlag, Steps
  <2>2. TxnOK(c)' BY <1>1, <1>2, <2>1, GotoFields DEF TxnOK
  <2> QED BY <1>2, <2>1, <2>2, GotoFields, GotoKeeps
<1>5. CASE Sees(c, txn[c].id) # "absent"
  <2>1. Write(c, txn[c].id, "default", "commit") /\ "default" \in RowState
        /\ "commit" \in Steps \ {"idle"}
    BY <1>5 DEF SetFlag, RowState, Steps
  <2>2. registries[txn[c].id] # "absent"
    BY <1>1, <1>2, <1>3, <1>5 DEF Sees, TxnOK
  <2>3. Written(c, txn[c].id, "default", "commit") BY <1>3, <2>1, WriteFields
  <2>4. TxnOK(c)' BY <1>1, <1>2, <1>3, <2>3, TxnType DEF TxnOK, Written
  <2> QED BY <1>2, <1>3, <2>1, <2>2, <2>4, WriteKeeps
<1> QED BY <1>4, <1>5

LEMMA InsertRowKeeps ==
  ASSUME RInv, NEW c \in Clients, InsertRow(c) PROVE RInv'
<1>1. txn[c] \in Txn /\ TxnOK(c) BY TxnType
<1>2. UNCHANGED <<registries, used, latest>> /\ txn[c].pc = "insert"
  BY DEF InsertRow, At
<1>3. txn[c].id \in Ids /\ txn[c].id \in used BY <1>2, IdOfTxn
<1> DEFINE row == IF txn[c].default THEN "default" ELSE "plain"
<1>4. Write(c, txn[c].id, row, "commit") /\ row \in RowState /\ "commit" \in Steps \ {"idle"}
  BY DEF InsertRow, RowState, Steps
<1>5. Creating(c) BY <1>1, <1>2 DEF TxnOK, Creating
<1>6. Written(c, txn[c].id, row, "commit") BY <1>3, <1>4, WriteFields
<1>7. TxnOK(c)' BY <1>1, <1>2, <1>3, <1>6, TxnType DEF TxnOK, Written
<1> HIDE DEF row
<1> QED BY <1>2, <1>3, <1>4, <1>5, <1>7, WriteKeeps

LEMMA RollbackKeeps ==
  ASSUME RInv, NEW c \in Clients, Rollback(c) PROVE RInv'
<1>1. txn' = [txn EXCEPT ![c] = Idle] /\ UNCHANGED <<registries, used, latest>>
  BY DEF Rollback
<1> QED BY <1>1, ReturnToIdle, LocalStep

LEMMA DeadlockAbortKeeps ==
  ASSUME RInv, NEW c \in Clients, DeadlockAbort(c) PROVE RInv'
<1>1. txn[c] \in Txn /\ TxnOK(c) BY TxnType
<1>2. UNCHANGED <<registries, used, latest>> /\ Goto(c, "rollback")
  BY DEF DeadlockAbort
<1>3. WaitsFor(c) # {} BY DEF DeadlockAbort
<1>4. txn[c].pc \in {"clearing", "set", "delete"} BY <1>3 DEF WaitsFor, At
<1>5. "rollback" \in Steps \ {"idle"} BY DEF Steps
<1>6. TxnOK(c)' BY <1>1, <1>2, <1>4, <1>5, GotoFields DEF TxnOK
<1> QED BY <1>2, <1>4, <1>5, <1>6, GotoFields, GotoKeeps

-----------------------------------------------------------------------------
(* The steps that change the table.                                         *)

(* The rows after a commit; where there is none, it created none.           *)
LEMMA CommitRows ==
  ASSUME RInv, NEW c \in Clients, Commit(c)
  PROVE  /\ txn[c].id \in Ids /\ txn[c].id \in used
         /\ registries' \in [Ids -> RowState]
         /\ registries'[txn[c].id] = IF txn[c].default THEN "default" ELSE "plain"
         /\ \A i \in Ids \ {txn[c].id} :
              registries'[i] = IF i \in Locks(c) THEN "plain" ELSE registries[i]
         /\ ~txn[c].default => registries[txn[c].id] = "absent"
                               /\ latest # txn[c].id /\ Locks(c) \subseteq {txn[c].id}
         /\ latest' = IF txn[c].default THEN txn[c].id ELSE latest
         /\ txn[c].id \in Locks(c)
         /\ txn' = [txn EXCEPT ![c] = Idle] /\ used' = used
<1>1. txn[c] \in Txn /\ TxnOK(c) /\ CreateOK(c) /\ registries \in [Ids -> RowState]
  BY TxnType
<1>2. txn[c].pc = "commit" BY DEF Commit, At
<1>3. txn[c].id \in Ids /\ txn[c].id \in used BY <1>2, IdOfTxn
<1>4. txn[c].id \in Locks(c) BY <1>1, <1>2, <1>3 DEF TxnOK, Locks
<1>5. \A i \in Ids : registries'[i] = IF i \in Locks(c) THEN txn[c].writes[i]
                                                       ELSE registries[i]
  BY DEF Commit, Apply
<1>6. registries'[txn[c].id] = IF txn[c].default THEN "default" ELSE "plain"
  BY <1>1, <1>2, <1>3, <1>4, <1>5 DEF TxnOK
<1>7. ASSUME NEW i \in Ids \ {txn[c].id}
      PROVE  registries'[i] = IF i \in Locks(c) THEN "plain" ELSE registries[i]
  BY <1>1, <1>2, <1>5 DEF TxnOK
<1>8. registries' \in [Ids -> RowState]
  <2>1. ASSUME NEW i \in Ids PROVE registries'[i] \in RowState
    BY <1>1, <1>6, <1>7 DEF RowState
  <2> QED BY <2>1 DEF Commit, Apply
<1>9. ~txn[c].default => registries[txn[c].id] = "absent"
                         /\ latest # txn[c].id /\ Locks(c) \subseteq {txn[c].id}
  BY <1>1, <1>2 DEF TxnOK, CreateOK, Creating
<1> QED BY <1>3, <1>4, <1>6, <1>7, <1>8, <1>9 DEF Commit

(* A step that ends c and leaves rows in use only.                          *)
LEMMA EndKeeps ==
  ASSUME RInv, NEW c \in Clients, txn' = [txn EXCEPT ![c] = Idle], used' = used,
         TypeOK', RowsUsed', LatestSwitchWins',
         \A d \in Clients \ {c} : Creating(d) => registries'[txn[d].id] = "absent"
                                                /\ latest' # txn[d].id
  PROVE  RInv'
<1>1. ASSUME NEW d \in Clients \ {c} PROVE TxnOK(d)' BY ReturnToIdle, TxnFrame, TxnType
<1>2. \A d \in Clients \ {c} : Locks(d)' = Locks(d) /\ (Creating(d)' <=> Creating(d))
                              /\ txn'[d] = txn[d]
  BY ReturnToIdle DEF Locks, Creating
<1>3. Locks(c)' = {} /\ ~Creating(c)' BY ReturnToIdle
<1>4. ASSUME NEW d \in Clients \ {c} PROVE CreateOK(d)'
  BY <1>2, <1>3, TxnType DEF CreateOK
<1>5. TxnOK(c)' /\ CreateOK(c)' BY ReturnToIdle
<1> QED BY <1>1, <1>4, <1>5 DEF RInv

LEMMA CommitKeeps ==
  ASSUME RInv, NEW c \in Clients, Commit(c) PROVE RInv'
<1> DEFINE id == txn[c].id
<1>1. txn' = [txn EXCEPT ![c] = Idle] /\ used' = used /\ id \in Ids /\ id \in used
  BY CommitRows
<1>2. txn' \in [Clients -> Txn] BY <1>1, ReturnToIdle
<1>3. TypeOK' /\ RowsUsed'
  <2>1. latest' \in used \union {NoId} BY CommitRows DEF RInv, RowsUsed
  <2>2. ASSUME NEW i \in Ids, registries'[i] # "absent" PROVE i \in used
    <3>1. CASE i = id BY <1>1, <3>1
    <3>2. CASE i # id /\ i \in Locks(c) BY <3>2, TxnType DEF TxnOK
    <3>3. CASE i # id /\ i \notin Locks(c)
      BY <2>2, <3>3, CommitRows DEF RInv, RowsUsed
    <3> QED BY <3>1, <3>2, <3>3
  <2> QED BY <1>1, <1>2, <2>1, <2>2, CommitRows DEF RInv, TypeOK, RowsUsed
<1>4. LatestSwitchWins'
  <2>1. CASE txn[c].default BY <2>1, CommitRows DEF LatestSwitchWins
  <2>2. CASE ~txn[c].default
    <3>1. latest' = latest BY <2>2, CommitRows
    <3>2. ASSUME latest # NoId PROVE registries'[latest] = registries[latest]
      BY <2>2, <3>2, CommitRows DEF RInv, TypeOK
    <3> QED BY <3>1, <3>2 DEF RInv, LatestSwitchWins
  <2> QED BY <2>1, <2>2
<1>5. ASSUME NEW d \in Clients \ {c}, Creating(d)
      PROVE  registries'[txn[d].id] = "absent" /\ latest' # txn[d].id
  <2>1. /\ registries[txn[d].id] = "absent" /\ latest # txn[d].id
        /\ txn[d].id \notin Locks(c) /\ txn[d].id \in Ids
    BY <1>5, TxnType, IdOfTxn DEF CreateOK, Creating
  <2> QED BY <2>1, CommitRows
<1> QED BY <1>1, <1>3, <1>4, <1>5, EndKeeps

LEMMA DeleteRowKeeps ==
  ASSUME RInv, NEW c \in Clients, DeleteRow(c) PROVE RInv'
<1>1. txn' = [txn EXCEPT ![c] = Idle] /\ UNCHANGED <<used, latest>>
      /\ registries' = [registries EXCEPT ![txn[c].id] = "absent"] /\ txn[c].pc = "delete"
  BY DEF DeleteRow, At
<1>2. txn[c].id \in Ids /\ registries \in [Ids -> RowState] BY <1>1, IdOfTxn, TxnType
<1>3. registries' \in [Ids -> RowState] BY <1>1, <1>2 DEF RowState
<1>4. \A i \in Ids : registries'[i] = registries[i] \/ registries'[i] = "absent"
  BY <1>1, <1>2
<1>5. TypeOK' /\ RowsUsed' /\ LatestSwitchWins'
  BY <1>1, <1>3, <1>4, ReturnToIdle DEF RInv, TypeOK, RowsUsed, LatestSwitchWins
<1>6. ASSUME NEW d \in Clients \ {c}, Creating(d)
      PROVE  registries'[txn[d].id] = "absent" /\ latest' # txn[d].id
  BY <1>1, <1>4, <1>6, TxnType, IdOfTxn DEF CreateOK, Creating
<1> QED BY <1>1, <1>5, <1>6, EndKeeps

-----------------------------------------------------------------------------
LEMMA RInvNext == RInv /\ [Next]_vars => RInv'
<1> SUFFICES ASSUME RInv, [Next]_vars PROVE RInv' OBVIOUS
<1>1. ASSUME NEW c \in Clients, Statement(c) PROVE RInv'
  BY <1>1, ClearSnapshotKeeps, ClearRowKeeps, ClearDoneKeeps, SetFlagKeeps,
     InsertRowKeeps, CommitKeeps, RollbackKeeps, DeleteRowKeeps, DeadlockAbortKeeps
  DEF Statement
<1>2. CASE UNCHANGED vars
  BY <1>2 DEF vars, RInv, TypeOK, RowsUsed, LatestSwitchWins, TxnOK, CreateOK,
              Creating, Locks
<1> QED BY <1>1, <1>2, BeginCreateKeeps, BeginOtherKeeps DEF Next

THEOREM InductiveInvariant == Spec => []RInv
<1> QED BY RInvInit, RInvNext, PTL DEF Spec

(* Rows, transactions and the history keep their types.                     *)
THEOREM TypeCorrect == Spec => []TypeOK
<1>1. RInv => TypeOK BY DEF RInv
<1> QED BY <1>1, InductiveInvariant, PTL

(* The registry made default by the latest commit is the default, or was    *)
(* removed: no transaction that began before that commit, and looks at its  *)
(* row only afterwards, takes the flag away without becoming the latest.    *)
THEOREM TheLatestSwitchWins == Spec => []LatestSwitchWins
<1>1. RInv => LatestSwitchWins BY DEF RInv
<1> QED BY <1>1, InductiveInvariant, PTL

-----------------------------------------------------------------------------
(* The flag is cleared on the old defaults in the transaction that sets it. *)

LEMMA SwitchStep ==
  ASSUME RInv, [Next]_vars, \E i \in Ids : Default(i),
         \A i \in Ids : registries[i] # "absent" => registries'[i] # "absent"
  PROVE  \E i \in Ids : registries'[i] = "default"
<1>1. PICK i \in Ids : registries[i] = "default" BY DEF Default
<1>2. CASE registries' = registries BY <1>1, <1>2
<1>3. ASSUME NEW c \in Clients, Commit(c) PROVE \E j \in Ids : registries'[j] = "default"
  <2>1. CASE txn[c].default BY <1>3, <2>1, CommitRows
  <2>2. CASE ~txn[c].default
    <3>1. i # txn[c].id /\ i \notin Locks(c) BY <1>1, <1>3, <2>2, CommitRows
    <3>2. registries'[i] = registries[i] BY <1>3, <3>1, CommitRows
    <3> QED BY <1>1, <3>2
  <2> QED BY <2>1, <2>2
<1>4. ASSUME NEW c \in Clients, DeleteRow(c)
      PROVE  \E j \in Ids : registries'[j] = "default"
  <2>1. txn[c].id \in Ids /\ registries \in [Ids -> RowState]
    BY <1>4, IdOfTxn, TxnType DEF DeleteRow, At
  <2>2. registries'[txn[c].id] = "absent" BY <1>4, <2>1 DEF DeleteRow
  <2>3. i # txn[c].id BY <1>1, <2>1, <2>2
  <2>4. registries'[i] = "default" BY <1>1, <1>4, <2>1, <2>3 DEF DeleteRow
  <2> QED BY <2>4
<1>5. \/ registries' = registries
      \/ \E c \in Clients : Commit(c) \/ DeleteRow(c)
  BY DEF Next, vars, Statement, BeginCreate, BeginSetDefault, BeginRemove, ClearSnapshot,
         ClearRow, ClearDone, SetFlag, InsertRow, Rollback, DeadlockAbort
<1> QED BY <1>2, <1>3, <1>4, <1>5

(* Switching the default never leaves the system without one, even when the *)
(* registry it is switched to is removed half-way: the old default's flag   *)
(* goes in the commit that publishes the new one.                           *)
THEOREM SwitchingKeepsADefault == Spec => SwitchKeepsADefault
<1>1. RInv /\ [Next]_vars =>
        [(\E i \in Ids : Default(i)) /\ (\A i \in Ids : registries[i] # "absent"
                                             => registries'[i] # "absent")
           => (\E i \in Ids : Default(i))']_registries
  BY SwitchStep DEF Default
<1> QED BY <1>1, InductiveInvariant, PTL DEF Spec, SwitchKeepsADefault

-----------------------------------------------------------------------------
(* How many defaults there can be.  Each default has a rank, the number of  *)
(* commits of a default before its own, and each transaction in flight the  *)
(* number of such commits its snapshot has seen; now counts them all.       *)

Defaults == {i \in Ids : Default(i)}

(* Between its snapshot and its commit.                                     *)
InFlight(c) ==
  txn[c].default /\ txn[c].pc \in {"clearing", "set", "insert", "commit"}

(* c clears, or has cleared, this row.                                      *)
Clears(c, i) ==
  \/ i = txn[c].id
  \/ txn[c].pc = "clearing" /\ i \in txn[c].todo
  \/ txn[c].writes[i] = "plain"

(* The defaults committed since the moment t, and the transactions whose    *)
(* snapshot is of that moment or older.                                     *)
Since(rank, t) == {i \in Defaults : rank[i] >= t}
Before(snap, t) == {c \in Clients : InFlight(c) /\ snap[c] <= t}

(* The count: who commits joins the defaults and leaves the transactions,   *)
(* and takes with it every default older than its snapshot.                 *)
Ranked(rank, snap, now) ==
  /\ \A i \in Defaults : rank[i] < now
  /\ \A c \in Clients : InFlight(c) => snap[c] <= now
  /\ \A c \in Clients, i \in Defaults :
       InFlight(c) /\ rank[i] < snap[c] => Clears(c, i)
  /\ \A t \in Nat : Since(rank, t) # {} =>
       Cardinality(Since(rank, t)) + Cardinality(Before(snap, t)) <= Cardinality(Clients)

Counted == \E rank \in [Ids -> Nat], snap \in [Clients -> Nat], now \in Nat :
             Ranked(rank, snap, now)

LEMMA CountedBounds == Counted => DefaultsBounded
<1> SUFFICES ASSUME Counted PROVE DefaultsBounded OBVIOUS
<1>1. PICK rank \in [Ids -> Nat], snap \in [Clients -> Nat], now \in Nat :
        Ranked(rank, snap, now)
  BY DEF Counted
<1>2. Since(rank, 0) = Defaults BY DEF Since, Defaults
<1>3. Defaults \in SUBSET Ids /\ Before(snap, 0) \in SUBSET Clients
  BY DEF Defaults, Before
<1>4. /\ Cardinality(Defaults) \in Nat /\ Cardinality(Before(snap, 0)) \in Nat
      /\ Cardinality(Clients) \in Nat
  BY <1>3, FS_Subset, FS_CardinalityType, IdsAssumption, ClientsAssumption
<1>5. Cardinality(Defaults) <= Cardinality(Clients)
  <2>1. CASE Defaults = {}
    <3>1. Cardinality(Defaults) = 0 BY <2>1, FS_EmptySet
    <3> QED BY <1>4, <3>1
  <2>2. CASE Defaults # {}
    <3>1. 0 \in Nat OBVIOUS
    <3>2. Cardinality(Defaults) + Cardinality(Before(snap, 0)) <= Cardinality(Clients)
      BY <1>1, <1>2, <2>2, <3>1 DEF Ranked
    <3> QED BY <1>4, <3>2
  <2> QED BY <2>1, <2>2
<1> QED BY <1>5 DEF DefaultsBounded, Defaults

LEMMA CountedInit == Init => Counted
<1> SUFFICES ASSUME Init PROVE Counted OBVIOUS
<1> DEFINE rank == [i \in Ids |-> 0]
           snap == [c \in Clients |-> 0]
<1>1. \A c \in Clients : ~InFlight(c) BY DEF Init, InFlight, Idle
<1>2. rank \in [Ids -> Nat] /\ snap \in [Clients -> Nat] OBVIOUS
<1>3. \A i \in Defaults : rank[i] < 1 BY DEF Defaults
<1>4. ASSUME NEW t \in Nat, Since(rank, t) # {}
      PROVE  Cardinality(Since(rank, t)) + Cardinality(Before(snap, t))
               <= Cardinality(Clients)
  <2>1. Before(snap, t) = {} BY <1>1 DEF Before
  <2>2. Cardinality(Before(snap, t)) = 0 BY <2>1, FS_EmptySet
  <2>3. Since(rank, t) \in SUBSET Defaults BY DEF Since
  <2>4. IsFiniteSet(Defaults) /\ Cardinality(Defaults) <= 1
    <3>1. Defaults \in SUBSET Ids BY DEF Defaults
    <3> QED BY <3>1, FS_Subset, IdsAssumption DEF Init, Defaults
  <2>5. Cardinality(Since(rank, t)) <= Cardinality(Defaults)
        /\ Cardinality(Since(rank, t)) \in Nat /\ Cardinality(Defaults) \in Nat
    BY <2>3, <2>4, FS_Subset, FS_CardinalityType
  <2>6. Cardinality(Clients) \in Nat /\ Cardinality(Clients) # 0
    BY ClientsAssumption, FS_CardinalityType, FS_EmptySet
  <2> QED BY <2>2, <2>4, <2>5, <2>6
<1> HIDE DEF rank, snap
<1>5. Ranked(rank, snap, 1) BY <1>1, <1>3, <1>4 DEF Ranked
<1> QED BY <1>2, <1>5 DEF Counted

(* Fewer defaults and fewer transactions keep the count.                    *)
LEMMA CountShrinks ==
  ASSUME NEW rank \in [Ids -> Nat], NEW snap \in [Clients -> Nat], NEW now \in Nat,
         Ranked(rank, snap, now), Defaults' \subseteq Defaults,
         \A c \in Clients : InFlight(c)' => InFlight(c),
         \A c \in Clients, i \in Defaults' : InFlight(c)' /\ Clears(c, i) => Clears(c, i)'
  PROVE  Counted'
<1>1. ASSUME NEW t \in Nat, Since(rank, t)' # {}
      PROVE  Cardinality(Since(rank, t)') + Cardinality(Before(snap, t)')
               <= Cardinality(Clients)
  <2>1. /\ Since(rank, t)' \in SUBSET Since(rank, t) /\ Since(rank, t) \in SUBSET Ids
        /\ Before(snap, t)' \in SUBSET Before(snap, t) /\ Before(snap, t) \in SUBSET Clients
    BY DEF Since, Before, Defaults
  <2>2. /\ Cardinality(Since(rank, t)') <= Cardinality(Since(rank, t))
        /\ Cardinality(Since(rank, t)') \in Nat /\ Cardinality(Since(rank, t)) \in Nat
    BY <2>1, Fewer, IdsAssumption
  <2>3. /\ Cardinality(Before(snap, t)') <= Cardinality(Before(snap, t))
        /\ Cardinality(Before(snap, t)') \in Nat /\ Cardinality(Before(snap, t)) \in Nat
        /\ Cardinality(Clients) \in Nat
    BY <2>1, Fewer, ClientsAssumption
  <2>4. Cardinality(Since(rank, t)) + Cardinality(Before(snap, t)) <= Cardinality(Clients)
    BY <1>1, <2>1 DEF Ranked
  <2> QED BY <2>2, <2>3, <2>4
<1>2. Ranked(rank, snap, now)' BY <1>1 DEF Ranked
<1> QED BY <1>2 DEF Counted

(* A step of c that leaves the rows, and either ends it or clears on.       *)
LEMMA CountLocal ==
  ASSUME RInv, NEW c \in Clients, Counted, Defaults' \subseteq Defaults,
         \A d \in Clients \ {c} : txn'[d] = txn[d],
         InFlight(c)' => /\ InFlight(c)
                         /\ \A i \in Defaults' : Clears(c, i) => Clears(c, i)'
  PROVE  Counted'
<1>1. PICK rank \in [Ids -> Nat], snap \in [Clients -> Nat], now \in Nat :
        Ranked(rank, snap, now)
  BY DEF Counted
<1>2. \A d \in Clients : InFlight(d)' => InFlight(d) BY DEF InFlight
<1>3. \A d \in Clients, i \in Defaults' : InFlight(d)' /\ Clears(d, i) => Clears(d, i)'
  BY DEF Clears
<1> QED BY <1>1, <1>2, <1>3, CountShrinks

LEMMA CountSnapshot ==
  ASSUME RInv, NEW c \in Clients, Counted, ClearSnapshot(c) PROVE Counted'
<1>1. PICK rank \in [Ids -> Nat], snap \in [Clients -> Nat], now \in Nat :
        Ranked(rank, snap, now)
  BY DEF Counted
<1> DEFINE snap2 == [snap EXCEPT ![c] = now]
<1>2. txn[c] \in Txn /\ txn \in [Clients -> Txn] BY TxnType
<1>3. /\ \A d \in Clients \ {c} : txn'[d] = txn[d]
      /\ txn'[c].pc = "clearing" /\ txn'[c].id = txn[c].id
      /\ txn'[c].todo = {i \in Ids : Default(i)} \ {txn[c].id}
      /\ Defaults' = Defaults /\ ~InFlight(c)
  BY <1>2 DEF ClearSnapshot, At, Txn, Defaults, Default, InFlight
<1>4. \A i \in Defaults : Clears(c, i)' BY <1>3 DEF Clears, Defaults
<1>5. \A d \in Clients \ {c} : /\ InFlight(d)' = InFlight(d) /\ snap2[d] = snap[d]
                              /\ \A i \in Ids : Clears(d, i)' = Clears(d, i)
  BY <1>3 DEF InFlight, Clears
<1>6. snap2 \in [Clients -> Nat] /\ snap2[c] = now OBVIOUS
<1>7. ASSUME NEW t \in Nat, Since(rank, t)' # {}
      PROVE  Cardinality(Since(rank, t)') + Cardinality(Before(snap2, t)')
               <= Cardinality(Clients)
  <2>1. Since(rank, t)' = Since(rank, t) BY <1>3 DEF Since
  <2>2. t < now
    <3>1. PICK i \in Defaults : rank[i] >= t BY <1>7, <2>1 DEF Since
    <3>2. rank[i] < now /\ rank[i] \in Nat BY <1>1 DEF Ranked, Defaults
    <3> QED BY <3>1, <3>2
  <2>3. Before(snap2, t)' \in SUBSET Before(snap, t)
    BY <1>5, <1>6, <2>2 DEF Before
  <2>4. Before(snap, t) \in SUBSET Clients /\ Since(rank, t) \in SUBSET Ids
    BY DEF Before, Since, Defaults
  <2>5. /\ Cardinality(Before(snap2, t)') <= Cardinality(Before(snap, t))
        /\ Cardinality(Before(snap2, t)') \in Nat /\ Cardinality(Before(snap, t)) \in Nat
        /\ Cardinality(Clients) \in Nat
    BY <2>3, <2>4, Fewer, ClientsAssumption
  <2>6. Cardinality(Since(rank, t)) \in Nat
    BY <2>4, FS_Subset, FS_CardinalityType, IdsAssumption
  <2>7. Cardinality(Since(rank, t)) + Cardinality(Before(snap, t)) <= Cardinality(Clients)
    BY <1>1, <1>7, <2>1 DEF Ranked
  <2> QED BY <2>1, <2>5, <2>6, <2>7
<1>8. \A d \in Clients : InFlight(d)' => snap2[d] <= now
  BY <1>1, <1>5, <1>6 DEF Ranked
<1>9. \A d \in Clients, i \in Defaults' : InFlight(d)' /\ rank[i] < snap2[d] => Clears(d, i)'
  BY <1>1, <1>3, <1>4, <1>5 DEF Ranked, Defaults
<1> HIDE DEF snap2
<1>10. Ranked(rank, snap2, now)' BY <1>1, <1>3, <1>7, <1>8, <1>9 DEF Ranked
<1> QED BY <1>6, <1>10 DEF Counted

(* A default is committed.                                                  *)
LEMMA CountCommit ==
  ASSUME RInv, NEW c \in Clients, Counted, Commit(c), txn[c].default PROVE Counted'
<1>1. PICK rank \in [Ids -> Nat], snap \in [Clients -> Nat], now \in Nat :
        Ranked(rank, snap, now)
  BY DEF Counted
<1>0. PICK id \in Ids : id = txn[c].id BY CommitRows
<1> DEFINE rank2 == [rank EXCEPT ![id] = now]
<1>2. /\ id \in Ids /\ registries'[id] = "default" /\ txn' = [txn EXCEPT ![c] = Idle]
      /\ \A i \in Ids \ {id} :
           registries'[i] = IF i \in Locks(c) THEN "plain" ELSE registries[i]
  BY <1>0, CommitRows
<1>3. /\ \A d \in Clients \ {c} : txn'[d] = txn[d]
      /\ ~InFlight(c)' /\ InFlight(c)
      /\ txn[c].pc = "commit" /\ snap[c] <= now /\ snap[c] \in Nat
  <2>1. txn'[c] = Idle /\ \A d \in Clients \ {c} : txn'[d] = txn[d]
    BY <1>2, ReturnToIdle
  <2>2. ~InFlight(c)' BY <2>1 DEF InFlight, Idle
  <2>3. InFlight(c) /\ txn[c].pc = "commit" BY DEF InFlight, Commit, At
  <2> QED BY <1>1, <2>1, <2>2, <2>3 DEF Ranked
<1>4. rank2 \in [Ids -> Nat] /\ rank2[id] = now
      /\ \A i \in Ids \ {id} : rank2[i] = rank[i]
  BY <1>2
<1>5. ASSUME NEW i \in Defaults', i # id
      PROVE  i \in Defaults /\ rank[i] >= snap[c] /\ rank[i] \in Nat /\ rank[i] < now
  <2>1. i \in Ids /\ registries'[i] = "default" BY DEF Defaults, Default
  <2>2. i \notin Locks(c) /\ registries[i] = "default" BY <1>2, <1>5, <2>1
  <2>3. i \in Defaults BY <2>1, <2>2 DEF Defaults, Default
  <2>4. txn[c].writes[i] # "plain" BY <2>1, <2>2 DEF Locks
  <2>5. ~Clears(c, i) BY <1>0, <1>3, <1>5, <2>4 DEF Clears
  <2>6. rank[i] \in Nat /\ ~(rank[i] < snap[c]) /\ rank[i] < now
    BY <1>1, <1>3, <2>1, <2>3, <2>5 DEF Ranked
  <2> QED BY <1>3, <2>3, <2>6
<1>6. \A i \in Defaults' : rank2[i] < now + 1
  BY <1>4, <1>5 DEF Defaults
<1>7. \A d \in Clients : InFlight(d)' => d # c /\ InFlight(d) /\ snap[d] <= now
  BY <1>1, <1>3 DEF InFlight, Ranked
<1>8. ASSUME NEW d \in Clients, NEW i \in Defaults', InFlight(d)', rank2[i] < snap[d]
      PROVE  Clears(d, i)'
  <2>1. i # id BY <1>4, <1>7, <1>8
  <2>2. i \in Ids BY DEF Defaults
  <2>3. Clears(d, i) BY <1>1, <1>4, <1>5, <1>7, <1>8, <2>1, <2>2 DEF Ranked
  <2> QED BY <1>3, <1>7, <1>8, <2>3 DEF Clears
<1>9. ASSUME NEW t \in Nat, Since(rank2, t)' # {}
      PROVE  Cardinality(Since(rank2, t)') + Cardinality(Before(snap, t)')
               <= Cardinality(Clients)
  <2> DEFINE u == IF snap[c] <= t THEN t ELSE snap[c]
             D == Since(rank, u)
             B == Before(snap, u)
  <2>1. u \in Nat /\ t <= u /\ snap[c] <= u BY <1>3
  <2>2. Since(rank2, t)' \subseteq D \union {id}
    <3>1. ASSUME NEW i \in Since(rank2, t)', i # id PROVE i \in D
      <4>1. i \in Defaults' /\ rank2[i] >= t /\ i \in Ids BY <3>1 DEF Since, Defaults
      <4>2. rank2[i] = rank[i] BY <1>4, <3>1, <4>1
      <4> QED BY <1>5, <2>1, <3>1, <4>1, <4>2 DEF Since
    <3> QED BY <3>1
  <2>3. Before(snap, t)' \subseteq B \ {c} /\ c \in B
    BY <1>3, <1>7, <2>1 DEF Before
  <2>4. D \in SUBSET Ids /\ B \in SUBSET Clients BY DEF Since, Before, Defaults
  <2>5. IsFiniteSet(D) /\ IsFiniteSet(B) /\ IsFiniteSet(Clients)
    BY <2>4, FS_Subset, IdsAssumption, ClientsAssumption
  <2>6. IsFiniteSet(D \union {id}) /\ Cardinality(D \union {id}) <= Cardinality(D) + 1
        /\ Cardinality(D) \in Nat
    <3>1. IsFiniteSet(D \union {id})
          /\ Cardinality(D \union {id}) =
               IF id \in D THEN Cardinality(D) ELSE Cardinality(D) + 1
      BY <2>5, FS_AddElement
    <3>2. Cardinality(D) \in Nat BY <2>5, FS_CardinalityType
    <3> QED BY <3>1, <3>2
  <2>7. /\ Cardinality(Since(rank2, t)') <= Cardinality(D \union {id})
        /\ Cardinality(Since(rank2, t)') \in Nat /\ Cardinality(D \union {id}) \in Nat
    BY <2>2, <2>6, Fewer
  <2>8. /\ Cardinality(Before(snap, t)') + 1 <= Cardinality(B)
        /\ Cardinality(Before(snap, t)') \in Nat /\ Cardinality(B) \in Nat
        /\ Cardinality(B) <= Cardinality(Clients) /\ Cardinality(Clients) \in Nat
    BY <2>3, <2>4, <2>5, Fewer
  <2>9. CASE D = {}
    <3>1. Cardinality(D) = 0 BY <2>9, FS_EmptySet
    <3> HIDE DEF D, B
    <3> QED BY <2>6, <2>7, <2>8, <3>1
  <2>10. CASE D # {}
    <3>1. Cardinality(D) + Cardinality(B) <= Cardinality(Clients)
      BY <1>1, <2>1, <2>10 DEF Ranked
    <3> HIDE DEF D, B
    <3> QED BY <2>6, <2>7, <2>8, <3>1
  <2> QED BY <2>9, <2>10
<1> HIDE DEF rank2
<1>10. \A d \in Clients : InFlight(d)' => snap[d] <= now + 1 BY <1>7
<1>11. Ranked(rank2, snap, now + 1)' BY <1>6, <1>8, <1>9, <1>10 DEF Ranked
<1> QED BY <1>4, <1>11 DEF Counted

LEMMA CountBegin ==
  ASSUME RInv, NEW c \in Clients, Counted,
         BeginCreate(c) \/ BeginSetDefault(c) \/ BeginRemove(c)
  PROVE  Counted'
<1>1. txn \in [Clients -> Txn] /\ txn[c].pc = "idle" /\ registries' = registries
  BY TxnType DEF BeginCreate, BeginSetDefault, BeginRemove, At
<1>2. /\ txn'[c].pc \in {"clear", "insert", "delete"}
      /\ txn'[c].pc = "insert" => txn'[c].default = FALSE
  <2>1. CASE BeginCreate(c)
    <3>1. PICK i \in Ids \ used, b \in BOOLEAN :
            txn' = [txn EXCEPT ![c] =
              [Idle EXCEPT !.pc = IF b THEN "clear" ELSE "insert",
                           !.op = "create", !.id = i, !.default = b]]
      BY <2>1 DEF BeginCreate
    <3> QED BY <1>1, <3>1 DEF Idle
  <2>2. CASE BeginSetDefault(c) BY <1>1, <2>2 DEF BeginSetDefault, Idle
  <2>3. CASE BeginRemove(c) BY <1>1, <2>3 DEF BeginRemove, Idle
  <2> QED BY <2>1, <2>2, <2>3
<1>3. \A d \in Clients \ {c} : txn'[d] = txn[d]
  BY <1>1 DEF BeginCreate, BeginSetDefault, BeginRemove
<1>4. ~InFlight(c)' BY <1>2 DEF InFlight
<1>5. Defaults' = Defaults BY <1>1 DEF Defaults, Default
<1> QED BY <1>3, <1>4, <1>5, CountLocal

LEMMA CountClear ==
  ASSUME RInv, NEW c \in Clients, Counted, ClearRow(c) \/ ClearDone(c) PROVE Counted'
<1>1. txn[c] \in Txn /\ txn \in [Clients -> Txn] /\ registries' = registries
      /\ txn[c].pc = "clearing"
  BY TxnType DEF ClearRow, ClearDone, At
<1>2. Defaults' = Defaults BY <1>1 DEF Defaults, Default
<1>3. CASE ClearDone(c)
  <2>1. Goto(c, AfterClear(c)) /\ AfterClear(c) \in Steps /\ txn[c].todo = {}
        /\ AfterClear(c) \in {"insert", "set"}
    BY <1>3 DEF ClearDone, AfterClear, Steps
  <2>2. \A i \in Ids : Clears(c, i) => Clears(c, i)'
    BY <1>1, <2>1, GotoFields DEF Clears
  <2>3. InFlight(c)' => InFlight(c) BY <1>1, <2>1, GotoFields DEF InFlight
  <2> QED BY <1>2, <2>1, <2>2, <2>3, GotoFields, CountLocal DEF Defaults
<1>4. ASSUME ClearRow(c) PROVE Counted'
  <2>1. PICK i \in txn[c].todo :
          IF Default(i) THEN Write(c, i, "plain", "clearing")
          ELSE txn' = [txn EXCEPT ![c].todo = @ \ {i}]
    BY <1>4 DEF ClearRow
  <2>2. i \in Ids BY <1>1 DEF Txn
  <2>3. CASE Default(i)
    <3>1. Write(c, i, "plain", "clearing") /\ "plain" \in RowState /\ "clearing" \in Steps
      BY <2>1, <2>3 DEF RowState, Steps
    <3>2. Written(c, i, "plain", "clearing") BY <2>2, <3>1, WriteFields
    <3>3. InFlight(c)' => InFlight(c) BY <1>1, <3>2 DEF InFlight, Written
    <3>4. \A j \in Ids : Clears(c, j) => Clears(c, j)'
      BY <1>1, <3>2 DEF Clears, Written
    <3> QED BY <1>2, <3>2, <3>3, <3>4, CountLocal DEF Written, Defaults
  <2>4. CASE ~Default(i)
    <3>1. /\ txn'[c].pc = txn[c].pc /\ txn'[c].id = txn[c].id
          /\ txn'[c].default = txn[c].default /\ txn'[c].todo = txn[c].todo \ {i}
          /\ txn'[c].writes = txn[c].writes
          /\ \A d \in Clients \ {c} : txn'[d] = txn[d]
      BY <1>1, <2>1, <2>4 DEF Txn
    <3>2. InFlight(c)' => InFlight(c) BY <3>1 DEF InFlight
    <3>3. ASSUME NEW j \in Defaults, Clears(c, j) PROVE Clears(c, j)'
      <4>1. j # i BY <2>4 DEF Defaults
      <4> QED BY <1>1, <3>1, <3>3, <4>1 DEF Clears
    <3> QED BY <1>2, <3>1, <3>2, <3>3, CountLocal
  <2> QED BY <2>3, <2>4
<1> QED BY <1>3, <1>4

LEMMA CountWrite ==
  ASSUME RInv, NEW c \in Clients, Counted, SetFlag(c) \/ InsertRow(c) PROVE Counted'
<1>1. txn[c] \in Txn /\ txn \in [Clients -> Txn] /\ registries' = registries
      /\ TxnOK(c) /\ txn[c].pc \in {"set", "insert"}
  BY TxnType DEF SetFlag, InsertRow, At
<1>2. Defaults' = Defaults /\ txn[c].id \in Ids
  BY <1>1, IdOfTxn DEF Defaults, Default
<1>3. ASSUME Goto(c, "rollback") PROVE Counted'
  <2>1. "rollback" \in Steps BY DEF Steps
  <2>2. ~InFlight(c)' BY <1>3, <2>1, GotoFields DEF InFlight
  <2>3. \A d \in Clients \ {c} : txn'[d] = txn[d] BY <1>3, <2>1, GotoFields
  <2> QED BY <1>2, <2>2, <2>3, CountLocal
<1>4. ASSUME NEW row \in RowState, Write(c, txn[c].id, row, "commit") PROVE Counted'
  <2>1. "commit" \in Steps BY DEF Steps
  <2>2. Written(c, txn[c].id, row, "commit") BY <1>2, <1>4, <2>1, WriteFields
  <2>3. InFlight(c)' => InFlight(c) BY <1>1, <2>2 DEF InFlight, Written
  <2>4. \A j \in Ids : Clears(c, j) => Clears(c, j)'
    BY <1>1, <2>2 DEF Clears, Written
  <2> QED BY <1>2, <2>2, <2>3, <2>4, CountLocal DEF Written, Defaults
<1>5. "default" \in RowState /\ "plain" \in RowState BY DEF RowState
<1> QED BY <1>3, <1>4, <1>5 DEF SetFlag, InsertRow

LEMMA CountEnd ==
  ASSUME RInv, NEW c \in Clients, Counted,
         Rollback(c) \/ DeleteRow(c) \/ DeadlockAbort(c) \/ (Commit(c) /\ ~txn[c].default)
  PROVE  Counted'
<1>1. CASE DeadlockAbort(c)
  <2>1. Goto(c, "rollback") /\ "rollback" \in Steps /\ registries' = registries
    BY <1>1 DEF DeadlockAbort, Steps
  <2>2. ~InFlight(c)' /\ Defaults' = Defaults
    BY <2>1, GotoFields DEF InFlight, Defaults, Default
  <2> QED BY <2>1, <2>2, GotoFields, CountLocal
<1>2. CASE Rollback(c) \/ DeleteRow(c) \/ (Commit(c) /\ ~txn[c].default)
  <2>1. txn' = [txn EXCEPT ![c] = Idle] BY <1>2 DEF Rollback, DeleteRow, Commit
  <2>2. ~InFlight(c)' /\ \A d \in Clients \ {c} : txn'[d] = txn[d]
    BY <2>1, ReturnToIdle DEF InFlight, Idle
  <2>3. Defaults' \subseteq Defaults
    <3>1. CASE Rollback(c) BY <3>1 DEF Rollback, Defaults, Default
    <3>2. CASE DeleteRow(c)
      BY <3>2, TxnType DEF DeleteRow, Defaults, Default
    <3>3. CASE Commit(c) /\ ~txn[c].default
      BY <3>3, CommitRows DEF Defaults, Default
    <3> QED BY <1>2, <3>1, <3>2, <3>3
  <2> QED BY <2>2, <2>3, CountLocal
<1> QED BY <1>1, <1>2

LEMMA CountedNext == RInv /\ Counted /\ [Next]_vars => Counted'
<1> SUFFICES ASSUME RInv, Counted, [Next]_vars PROVE Counted' OBVIOUS
<1>1. ASSUME NEW c \in Clients, Statement(c) PROVE Counted'
  BY <1>1, CountSnapshot, CountClear, CountWrite, CountEnd, CountCommit DEF Statement
<1>2. CASE UNCHANGED vars
  <2>1. PICK rank \in [Ids -> Nat], snap \in [Clients -> Nat], now \in Nat :
          Ranked(rank, snap, now)
    BY DEF Counted
  <2>2. Defaults' = Defaults BY <1>2 DEF vars, Defaults, Default
  <2>3. \A c \in Clients : InFlight(c)' = InFlight(c) BY <1>2 DEF vars, InFlight
  <2>4. \A c, i : Clears(c, i)' = Clears(c, i) BY <1>2 DEF vars, Clears
  <2> QED BY <2>1, <2>2, <2>3, <2>4, CountShrinks
<1> QED BY <1>1, <1>2, CountBegin DEF Next

(* However many requests have run, there are never more defaults than       *)
(* requests that may run at once; with one request at a time, one.          *)
THEOREM DefaultsStayBounded == Spec => []DefaultsBounded
<1>1. Spec => []Counted
  BY CountedInit, CountedNext, InductiveInvariant, PTL DEF Spec
<1> QED BY <1>1, CountedBounds, PTL

=============================================================================
