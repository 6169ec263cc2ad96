--------------------------- MODULE ClusterProofs ----------------------------
(***************************************************************************)
(* Theorems about what the console is shown of the cluster: the tokens and *)
(* the streams they open, the nodes, the lists of the Swarm and of         *)
(* Kubernetes, the readings; and the composition of all of these.          *)
(***************************************************************************)
EXTENDS MCEventStream, Counting, SequenceTheorems

-----------------------------------------------------------------------------
(***************************************************************************)
(* Proofs about OneTimeTokens, for every set of tokens and of requests and *)
(* every lifetime.                                                         *)
(***************************************************************************)
(* Tokens with a history were issued, and a spent one has no row.           *)
TablesOK ==
  /\ spent \subseteq issued
  /\ \A t \in Tokens : table[t] # NoRow => t \in issued
  /\ \A t \in spent : table[t] = NoRow

RequestOK(r) ==
  /\ ~At(r, "idle") => request[r].token \in issued
  /\ request[r].late => request[r].pc = "select" /\ request[r].token \in spent
  /\ At(r, "check") => table[request[r].token] = NoRow

(* A request comes to hold a token only while there is a row, which nobody  *)
(* has been granted yet; from then on, whoever is granted the token stops   *)
(* holding it.                                                              *)
RowsFresh ==
  \A t \in Tokens : t \notin issued \/ table[t] # NoRow => granted[t] = 0
GrantCount ==
  \A t \in Tokens : granted[t] + Cardinality(Holders(t)) <= Cardinality(Requests)

IInv == /\ TypeOK /\ TablesOK /\ RowsFresh /\ GrantCount
        /\ \A r \in Requests : RequestOK(r)

-----------------------------------------------------------------------------

LEMMA Initially == Init => IInv
<1> SUFFICES ASSUME Init PROVE IInv
  OBVIOUS
<1>1. TypeOK /\ TablesOK /\ RowsFresh /\ \A r \in Requests : RequestOK(r)
  BY MaxTimeAssumption
  DEF Init, Idle, TypeOK, TablesOK, RowsFresh, RequestOK, Request, At
<1>2. GrantCount
  <2>1. \A t \in Tokens : Holders(t) = {}
    BY DEF Init, Idle, Holders
  <2>2. Cardinality({}) = 0 /\ Cardinality(Requests) \in Nat
    BY RequestsAssumption, FS_EmptySet, FS_CardinalityType
  <2>3. \A t \in Tokens : granted[t] = 0
    BY DEF Init
  <2> QED
    BY <2>1, <2>2, <2>3 DEF GrantCount
<1> QED
  BY <1>1, <1>2 DEF IInv

RequestsTyped ==
  /\ request \in [Requests -> Request]
  /\ \A r \in Requests : ~At(r, "idle") => request[r].token \in Tokens
  /\ \A r \in Requests : request[r].pc \in {"delete", "check"} => request[r].exp \in Nat

LEMMA FinishType ==
  ASSUME TypeOK, NEW r \in Requests, Finish(r) PROVE RequestsTyped'
<1>1. Idle \in Request /\ Idle.pc = "idle"
  BY DEF Idle, Request
<1>2. /\ \A s \in Requests \ {r} : request'[s] = request[s]
      /\ request'[r] = Idle
      /\ request' \in [Requests -> Request]
  BY <1>1 DEF TypeOK, Finish
<1> QED
  BY <1>1, <1>2 DEF TypeOK, RequestsTyped, At

LEMMA TypeStep == TypeOK /\ [Next]_vars => TypeOK'
<1> SUFFICES ASSUME TypeOK, [Next]_vars PROVE TypeOK'
  OBVIOUS
<1> USE DEF TypeOK, At, Request
<1>1. CASE UNCHANGED vars
  BY <1>1 DEF vars
<1>2. CASE Tick
  BY <1>2, MaxTimeAssumption DEF Tick
<1>3. ASSUME NEW t \in Tokens, Create(t) PROVE TypeOK'
  <2>1. now + Ttl \in Nat
    BY TtlAssumption
  <2> QED
    BY <1>3, <2>1 DEF Create
<1>4. ASSUME NEW r \in Requests, NEW t \in Tokens, Present(r, t) PROVE TypeOK'
  <2> DEFINE late == t \in spent
  <2>1. late \in BOOLEAN
    OBVIOUS
  <2>2. request' = [request EXCEPT ![r] =
          [pc |-> "select", token |-> t, exp |-> NoRow, late |-> late]]
    BY <1>4 DEF Present
  <2> HIDE DEF late
  <2>3. request' \in [Requests -> Request]
    BY <2>1, <2>2
  <2>4. \A s \in Requests : /\ request'[s].pc # "idle" => request'[s].token \in Tokens
                            /\ request'[s].pc \in {"delete", "check"}
                                 => request'[s].exp \in Nat
    BY <2>2
  <2> QED
    BY <1>4, <2>3, <2>4 DEF Present
<1>5. ASSUME NEW r \in Requests, Select(r) PROVE TypeOK'
  <2>1. CASE Row(r) = NoRow
    BY <1>5, <2>1, FinishType DEF Select, RequestsTyped
  <2>2. CASE Row(r) # NoRow
    <3>1. request[r].token \in Tokens /\ Row(r) \in Nat
      BY <1>5, <2>2 DEF Select, Row
    <3>2. request' = [request EXCEPT ![r] =
            [pc |-> "delete", token |-> request[r].token, exp |-> Row(r),
             late |-> request[r].late]]
      BY <1>5, <2>2 DEF Select
    <3>3. request' \in [Requests -> Request]
      BY <3>1, <3>2
    <3>4. \A s \in Requests : /\ request'[s].pc # "idle" => request'[s].token \in Tokens
                              /\ request'[s].pc \in {"delete", "check"}
                                   => request'[s].exp \in Nat
      BY <3>1, <3>2
    <3> QED
      BY <1>5, <3>3, <3>4 DEF Select
  <2> QED
    BY <2>1, <2>2
<1>6. ASSUME NEW r \in Requests, Delete(r) PROVE TypeOK'
  BY <1>6 DEF Delete
<1>7. ASSUME NEW r \in Requests, Accept(r) PROVE TypeOK'
  <2>1. request[r].token \in Tokens
    BY <1>7 DEF Accept
  <2>2. granted' \in [Tokens -> Nat]
    BY <1>7, <2>1 DEF Accept
  <2> QED
    BY <1>7, <2>1, <2>2, FinishType DEF Accept, RequestsTyped
<1>8. ASSUME NEW r \in Requests, Refuse(r) \/ Fail(r) PROVE TypeOK'
  <2>1. RequestsTyped'
    BY <1>8, FinishType DEF Refuse, Fail
  <2>2. request[r].token \in Tokens
    BY <1>8 DEF Refuse, Fail
  <2> QED
    BY <1>8, <2>1, <2>2 DEF Refuse, Fail, RequestsTyped
<1> QED
  BY <1>1, <1>2, <1>3, <1>4, <1>5, <1>6, <1>7, <1>8 DEF Next, Step

LEMMA HistoryStep ==
  IInv /\ [Next]_vars => TablesOK' /\ \A r \in Requests : RequestOK(r)'
<1> SUFFICES ASSUME IInv, [Next]_vars
             PROVE  TablesOK' /\ \A r \in Requests : RequestOK(r)'
  OBVIOUS
<1> USE DEF IInv, TypeOK, TablesOK, RequestOK, At, Request
<1>1. CASE UNCHANGED vars \/ Tick
  BY <1>1 DEF vars, Tick
<1>2. ASSUME NEW t \in Tokens, Create(t) PROVE TablesOK' /\ \A r \in Requests : RequestOK(r)'
  BY <1>2 DEF Create
<1>3. ASSUME NEW r \in Requests, NEW t \in Tokens, Present(r, t)
      PROVE  TablesOK' /\ \A s \in Requests : RequestOK(s)'
  BY <1>3 DEF Present
<1>4. ASSUME NEW r \in Requests, Select(r)
      PROVE  TablesOK' /\ \A s \in Requests : RequestOK(s)'
  BY <1>4 DEF Select, Row, Finish, Idle
<1>5. ASSUME NEW r \in Requests, Delete(r)
      PROVE  TablesOK' /\ \A s \in Requests : RequestOK(s)'
  BY <1>5 DEF Delete
<1>6. ASSUME NEW r \in Requests, Accept(r) \/ Refuse(r) \/ Fail(r)
      PROVE  TablesOK' /\ \A s \in Requests : RequestOK(s)'
  BY <1>6 DEF Accept, Refuse, Fail, Finish, Idle
<1> QED
  BY <1>1, <1>2, <1>3, <1>4, <1>5, <1>6 DEF Next, Step

LEMMA FreshStep == IInv /\ [Next]_vars => RowsFresh'
<1> SUFFICES ASSUME IInv, [Next]_vars PROVE RowsFresh'
  OBVIOUS
<1> USE NoRowAssumption DEF IInv, TypeOK, TablesOK, RequestOK, RowsFresh, At
<1>1. CASE UNCHANGED vars \/ Tick
  BY <1>1 DEF vars, Tick
<1>2. ASSUME NEW t \in Tokens, Create(t) PROVE RowsFresh'
  BY <1>2 DEF Create
<1>3. ASSUME NEW r \in Requests, Accept(r) PROVE RowsFresh'
  BY <1>3 DEF Accept
<1>4. ASSUME NEW r \in Requests, Delete(r) PROVE RowsFresh'
  BY <1>4 DEF Delete
<1>5. ASSUME NEW r \in Requests,
             Select(r) \/ Refuse(r) \/ Fail(r) \/ \E t \in Tokens : Present(r, t)
      PROVE  RowsFresh'
  BY <1>5 DEF Select, Refuse, Fail, Present
<1> QED
  BY <1>1, <1>2, <1>3, <1>4, <1>5 DEF Next, Step

(* How each step changes the holders of a token.                            *)
LEMMA HoldersSame ==
  ASSUME TypeOK, NEW r \in Requests, NEW t \in Tokens,
         \/ Delete(r) \/ \E u \in Tokens : Present(r, u)
         \/ Select(r) /\ (Row(r) = NoRow \/ request[r].token # t)
  PROVE  Holders(t)' = Holders(t)
<1>1. CASE Delete(r)
  BY <1>1 DEF Delete, TypeOK, Request, Holders, At
<1>2. ASSUME NEW u \in Tokens, Present(r, u) PROVE Holders(t)' = Holders(t)
  BY <1>2 DEF Present, TypeOK, Holders, At
<1>3. CASE Select(r) /\ (Row(r) = NoRow \/ request[r].token # t)
  BY <1>3 DEF Select, Finish, Idle, TypeOK, Request, Holders, At
<1> QED
  BY <1>1, <1>2, <1>3

LEMMA HoldersLess ==
  ASSUME TypeOK, NEW r \in Requests, Accept(r) \/ Refuse(r) \/ Fail(r)
  PROVE  \A t \in Tokens :
           /\ Holders(t)' = Holders(t) \ {r}
           /\ t # request[r].token => Holders(t)' = Holders(t)
  BY DEF Accept, Refuse, Fail, Finish, Idle, TypeOK, Holders, At

LEMMA CountStep == IInv /\ [Next]_vars => GrantCount'
<1> SUFFICES ASSUME IInv, [Next]_vars, NEW t \in Tokens
             PROVE  granted'[t] + Cardinality(Holders(t)') <= Cardinality(Requests)
  BY DEF GrantCount
<1>1. /\ TypeOK /\ granted \in [Tokens -> Nat]
      /\ granted[t] \in Nat
      /\ granted[t] + Cardinality(Holders(t)) <= Cardinality(Requests)
  BY DEF IInv, TypeOK, GrantCount
<1>2. Holders(t) \in SUBSET Requests /\ Holders(t)' \in SUBSET Requests
  BY DEF Holders
<1>3. CASE granted'[t] = granted[t] /\ Holders(t)' \in SUBSET Holders(t)
  <2>1. /\ Cardinality(Holders(t)') <= Cardinality(Holders(t))
        /\ Cardinality(Holders(t)) \in Nat /\ Cardinality(Holders(t)') \in Nat
        /\ Cardinality(Requests) \in Nat
    BY <1>2, <1>3, RequestsAssumption, Fewer
  <2> QED
    BY <1>1, <1>3, <2>1
<1>4. CASE UNCHANGED vars \/ Tick \/ \E u \in Tokens : Create(u)
  <2>1. UNCHANGED <<request, granted>>
    BY <1>4 DEF vars, Tick, Create
  <2> QED
    BY <1>1, <1>3, <2>1 DEF Holders
<1>5. ASSUME NEW r \in Requests, Delete(r) \/ \E u \in Tokens : Present(r, u)
      PROVE  granted'[t] + Cardinality(Holders(t)') <= Cardinality(Requests)
  <2>1. UNCHANGED granted
    BY <1>5 DEF Delete, Present
  <2> QED
    BY <1>1, <1>3, <1>5, <2>1, HoldersSame
<1>6. ASSUME NEW r \in Requests, Select(r)
      PROVE  granted'[t] + Cardinality(Holders(t)') <= Cardinality(Requests)
  <2>1. UNCHANGED granted
    BY <1>6 DEF Select
  <2>2. CASE Row(r) = NoRow \/ request[r].token # t
    BY <1>1, <1>3, <1>6, <2>1, <2>2, HoldersSame
  <2>3. CASE Row(r) # NoRow /\ request[r].token = t
    <3>1. granted'[t] = 0
      BY <2>1, <2>3 DEF IInv, RowsFresh, Row
    <3>2. /\ Cardinality(Holders(t)') \in Nat
          /\ Cardinality(Holders(t)') <= Cardinality(Requests)
      BY <1>2, RequestsAssumption, Fewer
    <3> QED
      BY <3>1, <3>2
  <2> QED
    BY <2>2, <2>3
<1>7. ASSUME NEW r \in Requests, Refuse(r) \/ Fail(r)
      PROVE  granted'[t] + Cardinality(Holders(t)') <= Cardinality(Requests)
  <2>1. UNCHANGED granted
    BY <1>7 DEF Refuse, Fail
  <2>2. Holders(t)' \in SUBSET Holders(t)
    BY <1>1, <1>7, HoldersLess
  <2> QED
    BY <1>3, <2>1, <2>2
<1>8. ASSUME NEW r \in Requests, Accept(r)
      PROVE  granted'[t] + Cardinality(Holders(t)') <= Cardinality(Requests)
  <2>1. Holders(t)' = Holders(t) \ {r}
    BY <1>1, <1>8, HoldersLess
  <2>2. CASE request[r].token # t
    <3>1. granted'[t] = granted[t]
      BY <1>1, <1>8, <2>2 DEF Accept
    <3> QED
      BY <1>3, <2>1, <3>1
  <2>3. CASE request[r].token = t
    <3>1. granted'[t] = granted[t] + 1 /\ r \in Holders(t)
      BY <1>1, <1>8, <2>3 DEF Accept, Holders, At
    <3>2. /\ Cardinality(Holders(t)') + 1 <= Cardinality(Holders(t))
          /\ Cardinality(Holders(t)) \in Nat /\ Cardinality(Holders(t)') \in Nat
          /\ Cardinality(Requests) \in Nat
      BY <1>2, <2>1, <3>1, RequestsAssumption, Fewer
    <3> QED
      BY <1>1, <3>1, <3>2
  <2> QED
    BY <2>2, <2>3
<1> QED
  BY <1>4, <1>5, <1>6, <1>7, <1>8 DEF Next, Step

(* The inductive invariant holds in every reachable state.                  *)
THEOREM Invariance == Spec => []IInv
<1>1. IInv /\ [Next]_vars => IInv'
  BY TypeStep, HistoryStep, FreshStep, CountStep DEF IInv
<1> QED
  BY Initially, <1>1, PTL DEF Spec

-----------------------------------------------------------------------------

(* The table and the requests keep their types.                             *)
THEOREM TypeCorrect == Spec => []TypeOK
  BY Invariance, PTL DEF IInv

(* A consumed token is refused to every later request, on any replica.      *)
THEOREM ConsumptionIsFinal == Spec => []SpentIsFinal
<1>1. IInv => SpentIsFinal
  BY DEF IInv, RequestOK, SpentIsFinal
<1> QED
  BY Invariance, <1>1, PTL

(* Requests that come one by one are granted a token once.                  *)
THEOREM OneByOneGrantedOnce ==
  ASSUME Cardinality(Requests) = 1 PROVE Spec => []GrantedOnce
<1>1. IInv => GrantedOnce
  <2> SUFFICES ASSUME IInv, NEW t \in Tokens PROVE granted[t] <= 1
    BY DEF GrantedOnce
  <2>1. granted[t] + Cardinality(Holders(t)) <= 1 /\ granted[t] \in Nat
    BY DEF IInv, GrantCount, TypeOK
  <2>2. Cardinality(Holders(t)) \in Nat
    BY RequestsAssumption, Fewer DEF Holders
  <2> QED
    BY <2>1, <2>2
<1> QED
  BY Invariance, <1>1, PTL

-----------------------------------------------------------------------------

(* What a step does to the abstract state of each token.                    *)
LEMMA StateFrame ==
  ASSUME NEW t \in Tokens, issued' = issued,
         (table'[t] # NoRow \/ Holders(t)' # {})
           <=> (table[t] # NoRow \/ Holders(t) # {})
  PROVE  TokenState(t)' = TokenState(t)
  BY DEF TokenState

abstract == <<[t \in Tokens |-> TokenState(t)], granted>>

(* Every step is a step of SingleUse, or leaves the abstract state alone.   *)
LEMMA RefinementStep ==
  ASSUME IInv, [Next]_vars PROVE [Abstract!Next]_abstract
<1> USE DEF abstract
<1>1. TypeOK /\ TablesOK /\ \A r \in Requests : RequestOK(r)
  BY DEF IInv
<1>2. CASE UNCHANGED vars \/ Tick
  <2>1. UNCHANGED <<table, issued, request, granted>>
    BY <1>2 DEF vars, Tick
  <2> QED
    BY <2>1 DEF TokenState, Holders
<1>3. ASSUME NEW t \in Tokens, Create(t) PROVE Abstract!Issue(t)
  <2>1. now + Ttl # NoRow
    BY <1>1, TtlAssumption, NoRowAssumption DEF TypeOK
  <2>2. TokenState(t) = "unborn" /\ TokenState(t)' = "live"
    BY <1>1, <1>3, <2>1 DEF Create, TokenState, TypeOK
  <2>3. \A s \in Tokens \ {t} : TokenState(s)' = TokenState(s)
    <3>1. \A s \in Tokens \ {t} : /\ Holders(s)' = Holders(s)
                                  /\ table'[s] = table[s]
                                  /\ s \in issued' <=> s \in issued
      BY <1>1, <1>3 DEF Create, Holders, TypeOK
    <3> QED
      BY <3>1 DEF TokenState
  <2>4. granted' = granted
    BY <1>3 DEF Create
  <2> QED
    BY <2>2, <2>3, <2>4 DEF Abstract!Issue
<1>4. ASSUME NEW r \in Requests, NEW t \in Tokens, Present(r, t)
      PROVE  UNCHANGED abstract
  <2>1. UNCHANGED <<table, issued, granted>> /\ \A s \in Tokens : Holders(s)' = Holders(s)
    BY <1>1, <1>4, HoldersSame DEF Present
  <2> QED
    BY <2>1, StateFrame
<1>5. ASSUME NEW r \in Requests, Select(r) PROVE UNCHANGED abstract
  <2>1. UNCHANGED <<table, issued, granted>>
    BY <1>5 DEF Select
  <2>2. \A s \in Tokens : TokenState(s)' = TokenState(s)
    <3> SUFFICES ASSUME NEW s \in Tokens PROVE TokenState(s)' = TokenState(s)
      OBVIOUS
    <3>1. CASE Row(r) = NoRow \/ request[r].token # s
      BY <1>1, <1>5, <2>1, <3>1, HoldersSame, StateFrame
    <3>2. CASE Row(r) # NoRow /\ request[r].token = s
      BY <2>1, <3>2, StateFrame DEF Row
    <3> QED
      BY <3>1, <3>2
  <2> QED
    BY <2>1, <2>2
<1>6. ASSUME NEW r \in Requests, Delete(r) PROVE UNCHANGED abstract
  <2>1. /\ UNCHANGED <<issued, granted>> /\ r \in Holders(request[r].token)
        /\ table' = [table EXCEPT ![request[r].token] = NoRow]
    BY <1>6 DEF Delete, Holders, At
  <2>2. \A s \in Tokens : TokenState(s)' = TokenState(s)
    <3> SUFFICES ASSUME NEW s \in Tokens PROVE TokenState(s)' = TokenState(s)
      OBVIOUS
    <3>1. Holders(s)' = Holders(s)
      BY <1>1, <1>6, HoldersSame
    <3>2. CASE request[r].token = s
      BY <2>1, <3>1, <3>2, StateFrame
    <3>3. CASE request[r].token # s
      BY <1>1, <2>1, <3>1, <3>3, StateFrame DEF TypeOK
    <3> QED
      BY <3>2, <3>3
  <2> QED
    BY <2>1, <2>2
<1>7. ASSUME NEW r \in Requests, Accept(r) \/ Refuse(r) \/ Fail(r)
      PROVE  \/ UNCHANGED abstract
             \/ \E t \in Tokens : Abstract!Grant(t) \/ Abstract!Lapse(t)
  <2>1. PICK t \in Tokens : t = request[r].token /\ t \in issued
    BY <1>1, <1>7 DEF Accept, Refuse, Fail, At, TypeOK, RequestOK
  <2>2. /\ UNCHANGED <<table, issued>>
        /\ \A s \in Tokens : Holders(s)' = Holders(s) \ {r}
        /\ \A s \in Tokens \ {t} : Holders(s)' = Holders(s)
    BY <1>1, <1>7, <2>1, HoldersLess DEF Accept, Refuse, Fail
  <2>3. \A s \in Tokens \ {t} : TokenState(s)' = TokenState(s)
    BY <2>2, StateFrame
  <2>4. CASE r \notin Holders(t)
    <3>1. \A s \in Tokens : TokenState(s)' = TokenState(s)
      BY <2>2, <2>4, StateFrame
    <3>2. granted' = granted
      BY <1>7, <2>1, <2>4 DEF Accept, Refuse, Fail, Holders, At
    <3> QED
      BY <3>1, <3>2
  <2>5. CASE r \in Holders(t)
    <3>1. TokenState(t) = "live" /\ TokenState(t)' \in {"live", "spent"}
      BY <2>1, <2>2, <2>5 DEF TokenState
    <3> DEFINE token == [s \in Tokens |-> TokenState(s)]
    <3>2. token' = [token EXCEPT ![t] = TokenState(t)'] /\ token[t] = "live"
      <4>1. token' = [s \in Tokens |-> TokenState(s)']
        OBVIOUS
      <4> QED
        BY <2>3, <3>1, <4>1
    <3>3. CASE Accept(r)
      <4>1. granted' = [granted EXCEPT ![t] = @ + 1]
        BY <2>1, <3>3 DEF Accept
      <4>2. granted[t] < Cardinality(Requests)
        <5>1. granted[t] + Cardinality(Holders(t)) <= Cardinality(Requests)
              /\ granted[t] \in Nat
          BY DEF IInv, GrantCount, TypeOK
        <5>2. Holders(t) \in SUBSET Requests /\ r \in Holders(t) \ {}
          BY <2>5 DEF Holders
        <5>3. /\ Cardinality({}) + 1 <= Cardinality(Holders(t))
              /\ Cardinality(Holders(t)) \in Nat /\ Cardinality(Requests) \in Nat
          BY <5>2, RequestsAssumption, Fewer
        <5> QED
          BY <5>1, <5>3, FS_EmptySet
      <4>3. Abstract!Grant(t)
        BY <3>1, <3>2, <4>1, <4>2 DEF Abstract!Grant
      <4> QED
        BY <4>3
    <3>4. CASE Refuse(r) \/ Fail(r)
      <4>1. granted' = granted
        BY <3>4 DEF Refuse, Fail
      <4>2. CASE TokenState(t)' = "spent"
        BY <3>2, <4>1, <4>2 DEF Abstract!Lapse
      <4>3. CASE TokenState(t)' = "live"
        BY <2>3, <3>1, <4>1, <4>3
      <4> QED
        BY <3>1, <4>2, <4>3
    <3> QED
      BY <1>7, <3>3, <3>4
  <2> QED
    BY <2>4, <2>5
<1> QED
  BY <1>2, <1>3, <1>4, <1>5, <1>6, <1>7 DEF Next, Step, Abstract!Next

(* However requests overlap, each consumes a token at most once, and none   *)
(* after it is spent.                                                       *)
THEOREM TokensImplementSingleUse == Spec => ImplementsSingleUse
<1>1. Init => Abstract!Init
  BY DEF Init, Abstract!Init, TokenState
<1>2. IInv /\ [Next]_vars => [Abstract!Next]_abstract
  BY RefinementStep
<1> QED
  BY Invariance, <1>1, <1>2, PTL
  DEF Spec, ImplementsSingleUse, Abstract!Spec, abstract

-----------------------------------------------------------------------------
(***************************************************************************)
(* Proofs about EventStream: the token results carry over to the composed  *)
(* system, and the streams are complete, for any number of connections,    *)
(* tokens and events.                                                      *)
(***************************************************************************)
(* The stream's steps change the tokens only by the tokens' own steps.      *)
LEMMA TokenStep == [StreamNext]_streamVars => [Next]_vars
  BY DEF StreamNext, Elsewhere, Publish, Subscribe, TurnAway, Proceed, Open,
         Close, CloseUnheard, Next, Step, streamVars

(* Consuming tokens for streams is consuming tokens.                        *)
THEOREM StreamImplementsTokens == StreamSpec => Spec
<1>1. StreamInit => Init
  BY DEF StreamInit
<1> QED
  BY <1>1, TokenStep, PTL DEF StreamSpec, Spec

-----------------------------------------------------------------------------

(* What a connection was sent; nothing before it is subscribed, and a slot  *)
(* that is subscribed has no request in flight.                             *)
Sent(r) ==
  LET s == stream[r] n == Len(published) IN
  /\ s.from \in 0..n
  /\ s.got = IF s.subscribed THEN [k \in 1..(n - s.from) |-> s.from + k] ELSE <<>>
  /\ s.subscribed => At(r, "idle")

SInv ==
  /\ TypeOK
  /\ published \in Seq(Kinds)
  /\ stream \in [Requests -> Stream]
  /\ \A r \in Requests : Sent(r)

LEMMA UnusedType == Unused \in Stream
  BY DEF Unused, Stream

LEMMA StreamInitially == StreamInit => SInv
<1> SUFFICES ASSUME StreamInit PROVE SInv
  OBVIOUS
<1>1. TypeOK
  BY Initially DEF StreamInit, IInv
<1>2. published = <<>> /\ stream = [r \in Requests |-> Unused]
  BY DEF StreamInit
<1>3. ASSUME NEW r \in Requests PROVE Sent(r)
  BY <1>2 DEF Sent, Unused
<1> QED
  BY <1>1, <1>2, <1>3, UnusedType DEF SInv

(* A step that publishes nothing leaves a connection as it was, marks it    *)
(* gone, forgets it or subscribes it.                                       *)
LEMMA SentFrame ==
  ASSUME SInv, UNCHANGED published, NEW r \in Requests, stream'[r] \in Stream,
         \/ stream'[r] = stream[r] /\ (stream[r].subscribed => At(r, "idle")')
         \/ stream'[r] = Unused
         \/ /\ ~stream[r].subscribed
            /\ stream'[r] = [stream[r] EXCEPT !.gone = TRUE]
         \/ /\ ~stream[r].subscribed /\ At(r, "idle")'
            /\ stream'[r] = [stream[r] EXCEPT !.subscribed = TRUE,
                                              !.from = Len(published)]
  PROVE  Sent(r)'
<1>1. Len(published) \in Nat /\ stream[r] \in Stream /\ Sent(r)
  BY DEF SInv
<1>2. CASE stream'[r] = stream[r] /\ (stream[r].subscribed => At(r, "idle")')
  BY <1>1, <1>2 DEF Sent
<1>3. CASE stream'[r] = Unused
  BY <1>1, <1>3 DEF Sent, Unused
<1>4. CASE /\ ~stream[r].subscribed
           /\ stream'[r] = [stream[r] EXCEPT !.gone = TRUE]
  BY <1>1, <1>4 DEF Sent, Stream
<1>5. CASE /\ ~stream[r].subscribed /\ At(r, "idle")'
           /\ stream'[r] = [stream[r] EXCEPT !.subscribed = TRUE,
                                             !.from = Len(published)]
  <2>1. /\ stream'[r].subscribed /\ stream'[r].from = Len(published)
        /\ stream'[r].got = <<>>
    BY <1>1, <1>5 DEF Sent, Stream
  <2>2. [k \in 1..(Len(published) - Len(published)) |-> Len(published) + k] = <<>>
    BY <1>1
  <2> QED
    BY <1>1, <1>5, <2>1, <2>2 DEF Sent
<1> QED
  BY <1>2, <1>3, <1>4, <1>5

(* An event goes to every subscribed connection, at the end of what it got. *)
LEMMA SentPublish ==
  ASSUME SInv, NEW kind \in Kinds, Publish(kind), NEW r \in Requests
  PROVE  stream'[r] \in Stream /\ Sent(r)'
<1> DEFINE n == Len(published)
<1>1. n \in Nat /\ stream[r] \in Stream /\ Sent(r)
  BY DEF SInv
<1>2. Len(published') = n + 1 /\ stream'[r] = Deliver(r, n + 1, kind)
      /\ request' = request
  BY DEF Publish, SInv, vars
<1>3. CASE stream[r].subscribed
  <2> DEFINE f == stream[r].from
  <2>1. stream'[r] = [stream[r] EXCEPT !.got = Append(@, n + 1)]
    BY <1>2, <1>3 DEF Deliver
  <2>2. f \in 0..n /\ stream[r].got = [k \in 1..(n - f) |-> f + k]
    BY <1>1, <1>3 DEF Sent
  <2>3. Append(stream[r].got, n + 1) = [k \in 1..((n + 1) - f) |-> f + k]
    <3> DEFINE g == [k \in 1..(n - f) |-> f + k]
    <3>1. n - f \in Nat /\ g \in Seq(Nat) /\ Len(g) = n - f
      BY <1>1, <2>2
    <3>2. Append(g, n + 1) = [k \in 1..(Len(g) + 1) |->
                                IF k <= Len(g) THEN g[k] ELSE n + 1]
      BY <3>1
    <3>3. \A k \in 1..((n + 1) - f) :
            (IF k <= n - f THEN g[k] ELSE n + 1) = f + k
      BY <1>1, <2>2
    <3>4. Len(g) + 1 = (n + 1) - f
      BY <1>1, <2>2, <3>1
    <3>5. Append(g, n + 1) = [k \in 1..((n + 1) - f) |->
                                IF k <= n - f THEN g[k] ELSE n + 1]
      BY <3>1, <3>2, <3>4
    <3>6. [k \in 1..((n + 1) - f) |-> IF k <= n - f THEN g[k] ELSE n + 1]
            = [k \in 1..((n + 1) - f) |-> f + k]
      BY <3>3
    <3> QED
      BY <2>2, <3>5, <3>6
  <2>4. stream'[r] \in Stream /\ stream'[r].from = f /\ stream'[r].subscribed
        /\ stream'[r].got = Append(stream[r].got, n + 1)
    <3> DEFINE more == Append(stream[r].got, n + 1)
    <3>1. more \in Seq(Nat)
      BY <1>1 DEF Stream
    <3>2. stream'[r] = [subscribed |-> stream[r].subscribed,
                        gone |-> stream[r].gone, from |-> f, got |-> more]
      BY <1>1, <2>1 DEF Stream
    <3> HIDE DEF more
    <3>3. stream'[r] \in Stream
      BY <1>1, <3>1, <3>2 DEF Stream
    <3> QED
      BY <1>3, <3>2, <3>3 DEF more
  <2>5. At(r, "idle")'
    BY <1>1, <1>2, <1>3 DEF Sent, At
  <2>6. f \in 0..(n + 1)
    BY <1>1, <2>2
  <2>7. stream'[r].got = [k \in 1..(Len(published') - stream'[r].from) |->
                            stream'[r].from + k]
    <3>1. stream'[r].got = [k \in 1..((n + 1) - f) |-> f + k]
      BY <2>3, <2>4
    <3>2. stream'[r].from = f /\ Len(published') = n + 1
      BY <1>2, <2>4
    <3> DEFINE Got(a, m) == [k \in 1..(m - a) |-> a + k]
    <3>3. stream'[r].got = Got(f, n + 1)
      BY <3>1
    <3> HIDE DEF n, f, Got
    <3>4. stream'[r].got = Got(stream'[r].from, Len(published'))
      BY <3>2, <3>3
    <3> QED
      BY <3>4 DEF Got
  <2>8. stream'[r].from \in 0..Len(published')
    BY <1>2, <2>4, <2>6
  <2> HIDE DEF n, f
  <2> QED
    BY <2>4, <2>5, <2>7, <2>8 DEF Sent
<1>4. CASE ~stream[r].subscribed
  BY <1>1, <1>2, <1>4 DEF Sent, Deliver
<1> QED
  BY <1>3, <1>4

(* A connection other than r is left alone, and so is its request.          *)
LEMMA StreamStep == SInv /\ [StreamNext]_streamVars => SInv'
<1> SUFFICES ASSUME SInv, [StreamNext]_streamVars PROVE SInv'
  OBVIOUS
<1>0. TypeOK' /\ stream \in [Requests -> Stream] /\ TypeOK
  BY TokenStep, TypeStep DEF SInv
<1>1. ASSUME NEW kind \in Kinds, Publish(kind) PROVE SInv'
  <2>1. published' \in Seq(Kinds)
    BY <1>1 DEF Publish, SInv
  <2>2. stream' \in [Requests -> Stream] /\ \A r \in Requests : Sent(r)'
    <3>1. stream' = [r \in Requests |-> Deliver(r, Len(published) + 1, kind)]
      BY <1>1 DEF Publish
    <3>2. \A r \in Requests : stream'[r] \in Stream /\ Sent(r)'
      BY <1>1, SentPublish
    <3> QED
      BY <3>1, <3>2
  <2> QED
    BY <1>0, <2>1, <2>2 DEF SInv
<1>2. ASSUME NEW r \in Requests, UNCHANGED published,
             \A s \in Requests \ {r} :
               stream'[s] = stream[s] /\ request'[s] = request[s],
             \/ stream' = stream /\ (stream[r].subscribed => At(r, "idle")')
             \/ stream' = [stream EXCEPT ![r] = Unused]
             \/ /\ ~stream[r].subscribed
                /\ stream' = [stream EXCEPT ![r].gone = TRUE]
             \/ /\ ~stream[r].subscribed /\ At(r, "idle")'
                /\ stream' = [stream EXCEPT ![r].subscribed = TRUE,
                                            ![r].from = Len(published)]
      PROVE  SInv'
  <2>1. stream' \in [Requests -> Stream]
    <3>1. Len(published) \in Nat /\ stream[r] \in Stream
      BY <1>0 DEF SInv
    <3>2. [stream[r] EXCEPT !.gone = TRUE] \in Stream
      BY <3>1 DEF Stream
    <3>3. [stream[r] EXCEPT !.subscribed = TRUE, !.from = Len(published)] \in Stream
      BY <3>1 DEF Stream
    <3> QED
      BY <1>0, <1>2, <3>2, <3>3, UnusedType
  <2>2. Sent(r)'
    BY <1>0, <1>2, <2>1, SentFrame
  <2>3. \A s \in Requests \ {r} : Sent(s)'
    BY <1>2 DEF SInv, Sent, At
  <2> QED
    BY <1>0, <1>2, <2>1, <2>2, <2>3 DEF SInv
<1>3. CASE UNCHANGED streamVars \/ Elsewhere
  <2>1. UNCHANGED <<published, stream, request>>
    BY <1>3 DEF streamVars, vars, Elsewhere, Tick, Create
  <2> QED
    BY <1>0, <2>1 DEF SInv, Sent, At
<1>4. ASSUME NEW r \in Requests,
             Subscribe(r) \/ TurnAway(r) \/ Proceed(r) \/ Close(r)
             \/ CloseUnheard(r) \/ \E t \in Tokens : Open(r, t)
      PROVE  SInv'
  <2>1. UNCHANGED published /\ \A s \in Requests \ {r} : request'[s] = request[s]
    BY <1>0, <1>4 DEF Subscribe, TurnAway, Proceed, Close, CloseUnheard, Open,
       Accept, Refuse, Fail, Select, Delete, Present, Finish, TypeOK, vars
  <2>2. stream[r].subscribed => At(r, "idle")
    BY DEF SInv, Sent
  <2>3. CASE Subscribe(r)
    <3>1. ~stream[r].subscribed /\ At(r, "idle")'
      BY <1>0, <2>2, <2>3 DEF Subscribe, Accept, Finish, Idle, At, TypeOK
    <3> QED
      BY <1>0, <1>2, <2>1, <2>3, <3>1 DEF Subscribe
  <2>4. CASE TurnAway(r) \/ Close(r)
    BY <1>0, <1>2, <2>1, <2>4 DEF TurnAway, Close
  <2>5. CASE Proceed(r) \/ CloseUnheard(r)
    <3>1. ~stream[r].subscribed
      BY <2>2, <2>5 DEF Proceed, CloseUnheard, Select, Delete, At
    <3> QED
      BY <1>0, <1>2, <2>1, <2>5, <3>1 DEF Proceed, CloseUnheard
  <2>6. CASE \E t \in Tokens : Open(r, t)
    <3>1. ~stream[r].subscribed /\ stream' = stream
      BY <2>6 DEF Open, Unused
    <3> QED
      BY <1>2, <2>1, <3>1
  <2> QED
    BY <1>4, <2>3, <2>4, <2>5, <2>6
<1> QED
  BY <1>1, <1>3, <1>4 DEF StreamNext

(* Whoever subscribes or leaves, a subscriber gets every event in order.    *)
THEOREM SubscribersGetEverything == StreamSpec => []StreamIsComplete
<1>1. SInv => StreamIsComplete
  BY DEF SInv, Sent, StreamIsComplete
<1> QED
  BY StreamInitially, StreamStep, <1>1, PTL DEF StreamSpec

(* The ring buffer has the latest surfaced events in the order they were    *)
(* posted: what is surfaced and not in it is older, and it is full then.    *)
RingInv ==
  /\ published \in Seq(Kinds)
  /\ ring \in Seq(Nat) /\ Len(ring) <= RingSize
  /\ \A k \in 1..Len(ring) :
       ring[k] \in 1..Len(published) /\ Surfaced(published[ring[k]])
  /\ \A j, k \in 1..Len(ring) : j < k => ring[j] < ring[k]
  /\ \A i \in 1..Len(published) : Surfaced(published[i]) =>
       \/ \E k \in 1..Len(ring) : ring[k] = i
       \/ Len(ring) = RingSize /\ \A k \in 1..Len(ring) : i < ring[k]

LEMMA RingPublish ==
  ASSUME RingInv, NEW kind \in Kinds, Publish(kind)
  PROVE  RingInv'
<1> DEFINE n == Len(published)
           L == Len(ring)
           more == Append(ring, n + 1)
<1> USE RingSizeAssumption
<1>0. n \in Nat /\ L \in Nat /\ ring \in Seq(Nat) /\ L <= RingSize
  BY DEF RingInv
<1>1. /\ published' \in Seq(Kinds) /\ Len(published') = n + 1
      /\ \A i \in 1..n : published'[i] = published[i]
      /\ published'[n + 1] = kind
  BY DEF Publish, RingInv
<1>2. CASE ~Surfaced(kind)
  <2>1. ring' = ring
    BY <1>2 DEF Publish
  <2>2. \A k \in 1..L :
          ring[k] \in 1..(n + 1) /\ Surfaced(published'[ring[k]])
    <3>1. \A k \in 1..L : ring[k] \in 1..n /\ Surfaced(published[ring[k]])
      BY DEF RingInv
    <3> HIDE DEF n, L
    <3> QED BY <1>0, <1>1, <3>1
  <2>3. \A i \in 1..(n + 1) : Surfaced(published'[i]) =>
          i \in 1..n /\ Surfaced(published[i])
    <3> HIDE DEF n, L
    <3> QED BY <1>0, <1>1, <1>2
  <2> QED BY <1>0, <1>1, <2>1, <2>2, <2>3 DEF RingInv
<1>3. CASE Surfaced(kind)
  <2>1. /\ more \in Seq(Nat) /\ Len(more) = L + 1
        /\ \A k \in 1..L : more[k] = ring[k]
        /\ more[L + 1] = n + 1
    BY <1>0
  <2>0. \A k \in 1..L : ring[k] \in 1..n /\ Surfaced(published[ring[k]])
    BY DEF RingInv
  <2>2. ASSUME NEW k \in 1..(L + 1)
        PROVE  more[k] \in 1..(n + 1) /\ Surfaced(published'[more[k]])
    <3>1. CASE k = L + 1
      BY <1>0, <1>1, <1>3, <2>1, <3>1
    <3>2. CASE k # L + 1
      <4>1. k \in 1..L
        BY <1>0, <3>2
      <4>2. ring[k] \in 1..n /\ Surfaced(published[ring[k]]) /\ more[k] = ring[k]
        BY <2>0, <2>1, <4>1
      <4>3. published'[ring[k]] = published[ring[k]]
        BY <1>1, <4>2
      <4>4. ring[k] \in 1..(n + 1)
        BY <1>0, <4>2
      <4> QED BY <4>2, <4>3, <4>4
    <3> QED BY <3>1, <3>2
  <2>3. ASSUME NEW j \in 1..(L + 1), NEW k \in 1..(L + 1), j < k
        PROVE  more[j] < more[k]
    <3>1. j \in 1..L /\ more[j] = ring[j] /\ ring[j] \in 1..n
      BY <1>0, <2>0, <2>1, <2>3
    <3>2. CASE k = L + 1
      BY <1>0, <2>1, <3>1, <3>2
    <3>3. CASE k # L + 1
      <4>1. k \in 1..L /\ more[k] = ring[k]
        BY <1>0, <2>1, <3>3
      <4> QED BY <2>3, <3>1, <4>1 DEF RingInv
    <3> QED BY <3>2, <3>3
  <2>4. ASSUME NEW i \in 1..(n + 1), Surfaced(published'[i])
        PROVE  \/ \E k \in 1..(L + 1) : more[k] = i
               \/ L = RingSize /\ \A k \in 1..(L + 1) : i < more[k]
    <3>1. CASE i = n + 1
      BY <1>0, <2>1, <3>1
    <3>2. CASE i # n + 1
      <4>1. i \in 1..n /\ Surfaced(published[i])
        BY <1>0, <1>1, <2>4, <3>2
      <4>2. CASE \E k \in 1..L : ring[k] = i
        BY <1>0, <2>1, <4>2
      <4>3. CASE L = RingSize /\ \A k \in 1..L : i < ring[k]
        BY <1>0, <2>1, <4>1, <4>3
      <4> QED BY <4>1, <4>2, <4>3 DEF RingInv
    <3> QED BY <3>1, <3>2
  <2>5. ring' = RingPush(more)
    BY <1>3 DEF Publish
  <2>6. CASE L < RingSize
    <3>1. ring' = more
      BY <1>0, <2>1, <2>5, <2>6 DEF RingPush
    <3>2. L # RingSize
      BY <1>0, <2>6
    <3> HIDE DEF more, n, L
    <3>3. /\ ring' \in Seq(Nat) /\ Len(ring') = L + 1 /\ Len(ring') <= RingSize
          /\ Len(published') = n + 1
      BY <1>0, <1>1, <2>1, <2>6, <3>1
    <3>4. \A i \in 1..(n + 1) : Surfaced(published'[i]) =>
            \E k \in 1..(L + 1) : more[k] = i
      BY <2>4, <3>2
    <3> QED BY <1>1, <2>2, <2>3, <3>1, <3>3, <3>4 DEF RingInv
  <2>7. CASE L = RingSize
    <3>1. more # <<>> /\ ring' = Tail(more)
      BY <1>0, <2>1, <2>5, <2>7 DEF RingPush
    <3> HIDE DEF more, n, L
    <3>2. /\ ring' \in Seq(Nat) /\ Len(ring') = L
          /\ \A k \in 1..L : ring'[k] = more[k + 1]
      BY <1>0, <2>1, <3>1, HeadTailProperties
    <3>3. \A k \in 1..L : k + 1 \in 1..(L + 1)
      BY <1>0
    <3>4. \A k \in 1..L : ring'[k] \in 1..(n + 1) /\ Surfaced(published'[ring'[k]])
      BY <2>2, <3>2, <3>3
    <3>5. \A j, k \in 1..L : j < k => ring'[j] < ring'[k]
      <4> SUFFICES ASSUME NEW j \in 1..L, NEW k \in 1..L, j < k
                   PROVE  ring'[j] < ring'[k]
        OBVIOUS
      <4>1. j + 1 < k + 1
        BY <1>0
      <4> QED BY <2>3, <3>2, <3>3, <4>1
    <3>6. ASSUME NEW i \in 1..(n + 1), Surfaced(published'[i])
          PROVE  \/ \E k \in 1..L : ring'[k] = i
                 \/ \A k \in 1..L : i < ring'[k]
      <4>1. CASE \A k \in 1..(L + 1) : i < more[k]
        BY <3>2, <3>3, <4>1
      <4>2. CASE \E k \in 1..(L + 1) : more[k] = i
        <5>1. PICK k \in 1..(L + 1) : more[k] = i
          BY <4>2
        <5>2. CASE k = 1
          <6>1. \A m \in 1..L : more[1] < more[m + 1]
            <7> SUFFICES ASSUME NEW m \in 1..L PROVE more[1] < more[m + 1]
              OBVIOUS
            <7>1. 1 \in 1..(L + 1) /\ m + 1 \in 1..(L + 1) /\ 1 < m + 1
              BY <1>0
            <7> QED BY <2>3, <7>1
          <6> QED BY <3>2, <5>1, <5>2, <6>1
        <5>3. CASE k # 1
          <6>1. k - 1 \in 1..L /\ (k - 1) + 1 = k
            BY <1>0, <5>3
          <6> QED BY <3>2, <5>1, <6>1
        <5> QED BY <5>2, <5>3
      <4> QED BY <2>4, <3>6, <4>1, <4>2
    <3>7. Len(ring') = RingSize
      BY <2>7, <3>2
    <3> QED BY <1>1, <2>7, <3>2, <3>4, <3>5, <3>6, <3>7 DEF RingInv
  <2> QED BY <1>0, <2>6, <2>7
<1> QED BY <1>2, <1>3

LEMMA RingStep == RingInv /\ [StreamNext]_streamVars => RingInv'
<1> SUFFICES ASSUME RingInv, [StreamNext]_streamVars PROVE RingInv'
  OBVIOUS
<1>1. UNCHANGED <<published, ring>> \/ \E kind \in Kinds : Publish(kind)
  BY DEF StreamNext, Elsewhere, Subscribe, TurnAway, Proceed, Open, Close,
     CloseUnheard, streamVars
<1>2. UNCHANGED <<published, ring>> => RingInv'
  BY DEF RingInv
<1> QED BY <1>1, <1>2, RingPublish

(* The feed is the end of the buffer, the last event first.                 *)
LEMMA FeedIs ==
  ASSUME RingInv, NEW limit \in 1..RingSize
  PROVE  LET n == IF limit < Len(ring) THEN limit ELSE Len(ring)
         IN /\ Len(RecentEvents(limit)) = n
            /\ \A k \in 1..n : RecentEvents(limit)[k] = ring[Len(ring) - k + 1]
<1> DEFINE L == Len(ring)
           last == IF limit = 0 \/ limit >= L THEN ring ELSE SubSeq(ring, L - limit + 1, L)
           n == IF limit < L THEN limit ELSE L
<1>0. L \in Nat /\ ring \in Seq(Nat) /\ limit \in Nat /\ limit # 0 /\ n \in Nat /\ n <= L
  BY RingSizeAssumption DEF RingInv
<1>1. Len(last) = n /\ \A k \in 1..n : last[k] = ring[L - n + k]
  <2>1. CASE limit < L
    <3>1. /\ L - limit + 1 \in Int /\ L \in Int /\ L - limit + 1 <= L
          /\ \A i \in (L - limit + 1)..L : ring[i] \in Nat
          /\ L - (L - limit + 1) + 1 = limit /\ n = limit
      BY <1>0, <2>1
    <3>2. last = SubSeq(ring, L - limit + 1, L)
      BY <1>0, <2>1
    <3>3. /\ Len(last) = limit
          /\ \A i \in 1..limit : last[i] = ring[(L - limit + 1) + i - 1]
      BY <3>1, <3>2, SubSeqProperties
    <3>4. \A i \in 1..limit : (L - limit + 1) + i - 1 = L - limit + i
      BY <1>0
    <3> HIDE DEF last, n
    <3>5. \A k \in 1..n : last[k] = ring[L - n + k]
      BY <3>1, <3>3, <3>4
    <3> QED BY <3>1, <3>3, <3>5
  <2>2. CASE limit >= L
    <3>1. last = ring /\ n = L
      BY <1>0, <2>2
    <3>2. \A k \in 1..L : L - L + k = k
      BY <1>0
    <3> HIDE DEF last, n
    <3>3. \A k \in 1..n : last[k] = ring[L - n + k]
      BY <3>1, <3>2
    <3> QED BY <3>1, <3>3
  <2>3. limit < L \/ limit >= L
    BY <1>0
  <2> HIDE DEF last, n
  <2> QED BY <2>1, <2>2, <2>3
<1>2. RecentEvents(limit) = [i \in 1..Len(last) |-> last[(Len(last) - i) + 1]]
  BY DEF RecentEvents, Reverse
<1> HIDE DEF last
<1>3. ASSUME NEW k \in 1..n
      PROVE  (n - k) + 1 \in 1..n /\ L - n + ((n - k) + 1) = L - k + 1
  <2> HIDE DEF n, L
  <2> QED BY <1>0
<1>4. RecentEvents(limit) = [i \in 1..n |-> last[(n - i) + 1]]
  BY <1>1, <1>2
<1>5. Len(RecentEvents(limit)) = n
  BY <1>0, <1>4
<1>6. \A k \in 1..n : RecentEvents(limit)[k] = ring[L - k + 1]
  BY <1>1, <1>3, <1>4
<1> QED BY <1>5, <1>6

LEMMA FeedRight == RingInv => FeedShowsLatest
<1> SUFFICES ASSUME RingInv, NEW limit \in 1..RingSize
             PROVE  LET feed == RecentEvents(limit)
                        shown == 1..Len(feed)
                    IN /\ Len(feed) <= limit
                       /\ \A k \in shown :
                            /\ feed[k] \in 1..Len(published) /\ Surfaced(published[feed[k]])
                            /\ \A j \in 1..(k - 1) : feed[k] < feed[j]
                       /\ \A i \in 1..Len(published) : Surfaced(published[i]) =>
                            \/ \E k \in shown : feed[k] = i
                            \/ Len(feed) = limit /\ \A k \in shown : i < feed[k]
  BY DEF FeedShowsLatest
<1> DEFINE L == Len(ring)
           n == IF limit < L THEN limit ELSE L
           feed == RecentEvents(limit)
<1>0. L \in Nat /\ limit \in Nat /\ n \in Nat /\ n <= L /\ n <= limit
  BY RingSizeAssumption DEF RingInv
<1>1. Len(feed) = n /\ \A k \in 1..n : feed[k] = ring[L - k + 1]
  BY FeedIs
<1> HIDE DEF feed
<1>2. \A k \in 1..n : L - k + 1 \in 1..L
  BY <1>0
<1>3. ASSUME NEW k \in 1..n
      PROVE  /\ feed[k] \in 1..Len(published) /\ Surfaced(published[feed[k]])
             /\ \A j \in 1..(k - 1) : feed[k] < feed[j]
  <2>1. feed[k] \in 1..Len(published) /\ Surfaced(published[feed[k]])
    BY <1>1, <1>2 DEF RingInv
  <2>2. ASSUME NEW j \in 1..(k - 1) PROVE feed[k] < feed[j]
    <3>1. j \in 1..n /\ L - k + 1 < L - j + 1
      BY <1>0
    <3> QED BY <1>1, <1>2, <3>1 DEF RingInv
  <2> QED BY <2>1, <2>2
<1>4. ASSUME NEW i \in 1..Len(published), Surfaced(published[i])
      PROVE  \/ \E k \in 1..n : feed[k] = i
             \/ n = limit /\ \A k \in 1..n : i < feed[k]
  <2>1. CASE \E m \in 1..L : ring[m] = i
    <3>1. PICK m \in 1..L : ring[m] = i
      BY <2>1
    <3>2. CASE L - m + 1 \in 1..n
      <4>1. L - (L - m + 1) + 1 = m
        BY <1>0
      <4> QED BY <1>1, <3>1, <3>2, <4>1
    <3>3. CASE L - m + 1 \notin 1..n
      <4>1. n = limit /\ \A k \in 1..n : m < L - k + 1
        BY <1>0, <3>3
      <4> QED BY <1>1, <1>2, <3>1, <4>1 DEF RingInv
    <3> QED BY <3>2, <3>3
  <2>2. CASE L = RingSize /\ \A m \in 1..L : i < ring[m]
    <3>1. n = limit
      BY <1>0, <2>2, RingSizeAssumption
    <3> QED BY <1>1, <1>2, <2>2, <3>1
  <2> QED BY <1>4, <2>1, <2>2 DEF RingInv
<1> HIDE DEF n, L
<1> QED BY <1>0, <1>1, <1>3, <1>4 DEF feed

(* What the feed shows are the latest surfaced events, for every length of  *)
(* the buffer and whatever is posted (events/hub.ts:33-50).                 *)
THEOREM TheFeedIsLatest == StreamSpec => []FeedShowsLatest
<1>1. StreamInit => RingInv
  BY RingSizeAssumption DEF StreamInit, RingInv
<1> QED BY <1>1, RingStep, FeedRight, PTL DEF StreamSpec

(* The stream, the buffer and what a connection was sent have their types.  *)
THEOREM StreamTypeCorrect == StreamSpec => []StreamTypeOK
<1>1. StreamInit => RingInv
  BY RingSizeAssumption DEF StreamInit, RingInv
<1>2. RingInv /\ SInv => StreamTypeOK
  <2> SUFFICES ASSUME RingInv, SInv PROVE StreamTypeOK
    OBVIOUS
  <2>1. ring \in Seq(1..Len(published)) /\ Len(ring) <= RingSize
    BY DEF RingInv
  <2>2. stream \in [Requests -> [subscribed : BOOLEAN, gone : BOOLEAN,
                                 from : 0..Len(published), got : Seq(Nat)]]
    BY DEF SInv, Sent, Stream
  <2> QED BY <2>1, <2>2 DEF StreamTypeOK, RingInv
<1> QED BY <1>1, <1>2, RingStep, StreamInitially, StreamStep, PTL DEF StreamSpec

-----------------------------------------------------------------------------
(***************************************************************************)
(* Theorems about ClusterNodes, for any number of nodes and of requests.   *)
(*                                                                         *)
(* That a drain never undoes a promotion rests on the version the engine   *)
(* compares: versions of all nodes are at most nodeIndex, and a request    *)
(* holds a version the node has had; if the node still has it, nothing was *)
(* written since, and the inspected role is the node's.                    *)
(***************************************************************************)
(* What a request has inspected is older than the node, or current.         *)
InspectionOK ==
  \A r \in NodeRequests : nodeReq[r].pc = "update" =>
    /\ nodeReq[r].version <= node[nodeReq[r].id].version
    /\ nodeReq[r].version = node[nodeReq[r].id].version =>
         nodeReq[r].role = node[nodeReq[r].id].role

VersionsOK == \A n \in Nodes : node[n].version <= nodeIndex

NInv == NodesTypeOK /\ VersionsOK /\ InspectionOK /\ RolesStay

LEMMA NInvInit == NodesInit => NInv
BY DEF NodesInit, NInv, NodesTypeOK, VersionsOK, InspectionOK, RolesStay, Node, NodeIdle, Roles,
  Availabilities, ApiAvailabilities

(* A write of a node takes the next version, above all versions inspected.  *)
LEMMA WriteKeeps ==
  ASSUME NInv, NEW n \in Nodes, NEW role \in Roles, NEW availability \in Availabilities,
         WriteNode(n, role, availability)
  PROVE  /\ node' \in [Nodes -> Node] /\ nodeIndex' \in Nat
         /\ VersionsOK'
         /\ node'[n].role = role
         /\ \A m \in Nodes \ {n} : node'[m] = node[m]
         /\ \A m \in Nodes : nodeIndex' = nodeIndex + 1 /\ node'[n].version = nodeIndex + 1
<1>1. node \in [Nodes -> Node] /\ nodeIndex \in Nat BY DEF NInv, NodesTypeOK
<1>2. node' = [node EXCEPT ![n] =
        [role |-> role, availability |-> availability, ready |-> node[n].ready,
         reachable |-> node[n].reachable, version |-> nodeIndex + 1]]
      /\ nodeIndex' = nodeIndex + 1
  BY DEF WriteNode
<1>3. node[n].ready \in BOOLEAN /\ node[n].reachable \in BOOLEAN BY <1>1 DEF Node
<1>4. node' \in [Nodes -> Node] BY <1>1, <1>2, <1>3 DEF Node, Roles
<1>5. \A m \in Nodes : node[m].version \in Nat BY <1>1 DEF Node
<1>6. VersionsOK' BY <1>1, <1>2, <1>5 DEF NInv, VersionsOK
<1> QED BY <1>1, <1>2, <1>4, <1>6

LEMMA NInvNext == NInv /\ [NodesNext]_nodeVars => NInv'
<1> SUFFICES ASSUME NInv, [NodesNext]_nodeVars PROVE NInv' OBVIOUS
<1>t. node \in [Nodes -> Node] /\ nodeIndex \in Nat /\ rank \in [Nodes -> Roles]
      /\ nodeReq \in [NodeRequests -> NodeUpdate \union {NodeIdle}]
  BY DEF NInv, NodesTypeOK
<1>v. \A n \in Nodes : node[n].version \in Nat BY <1>t DEF Node
<1>r. \A r \in NodeRequests : nodeReq[r].pc = "update" =>
        /\ nodeReq[r].id \in Nodes /\ nodeReq[r].version \in Nat
        /\ nodeReq[r].role \in Roles /\ nodeReq[r].availability \in ApiAvailabilities
  BY <1>t DEF NodeUpdate, NodeIdle
<1>1. CASE UNCHANGED nodeVars
  BY <1>1 DEF nodeVars, NInv, NodesTypeOK, VersionsOK, InspectionOK, RolesStay
<1>2. ASSUME NEW n \in Nodes, Flicker(n) PROVE NInv'
  <2>1. /\ node' \in [Nodes -> Node]
        /\ \A m \in Nodes : node'[m].version = node[m].version /\ node'[m].role = node[m].role
    <3>1. node[n] \in Node BY <1>t
    <3>2. CASE node' = [node EXCEPT ![n].ready = ~@]
      <4>1. [node[n] EXCEPT !.ready = ~@] \in Node BY <3>1 DEF Node
      <4> QED BY <3>2, <4>1, <3>1, <1>t DEF Node
    <3>3. CASE node' = [node EXCEPT ![n].reachable = ~@]
      <4>1. [node[n] EXCEPT !.reachable = ~@] \in Node BY <3>1 DEF Node
      <4> QED BY <3>3, <4>1, <3>1, <1>t DEF Node
    <3> QED BY <1>2, <3>2, <3>3 DEF Flicker
  <2> QED BY <2>1, <1>2, <1>t, <1>r
        DEF Flicker, NInv, NodesTypeOK, VersionsOK, InspectionOK, RolesStay
<1>3. ASSUME NEW n \in Nodes, GiveRole(n) PROVE NInv'
  <2>1. PICK role \in Roles : /\ WriteNode(n, role, node[n].availability)
                              /\ rank' = [rank EXCEPT ![n] = role]
    BY <1>3 DEF GiveRole
  <2>2. node[n].availability \in Availabilities BY <1>t DEF Node
  <2>3. /\ node' \in [Nodes -> Node] /\ nodeIndex' \in Nat /\ VersionsOK'
        /\ node'[n].role = role /\ node'[n].version = nodeIndex + 1
        /\ \A m \in Nodes \ {n} : node'[m] = node[m]
    BY <2>1, <2>2, WriteKeeps
  <2>4. nodeReq' = nodeReq BY <1>3 DEF GiveRole
  <2>5. InspectionOK' BY <2>3, <2>4, <1>v, <1>r, <1>t DEF NInv, InspectionOK, VersionsOK
  <2>6. RolesStay' BY <2>1, <2>3, <1>t DEF NInv, RolesStay
  <2>7. NodesTypeOK' BY <2>1, <2>3, <2>4, <1>t DEF NodesTypeOK
  <2> QED BY <2>3, <2>5, <2>6, <2>7 DEF NInv
<1>4. ASSUME NEW r \in NodeRequests, InspectNode(r) PROVE NInv'
  <2>1. PICK n \in Nodes, availability \in ApiAvailabilities :
          nodeReq' = [nodeReq EXCEPT ![r] =
            [pc |-> "update", id |-> n, version |-> node[n].version,
             role |-> node[n].role, availability |-> availability]]
    BY <1>4 DEF InspectNode
  <2>2. UNCHANGED <<node, nodeIndex, rank>> BY <1>4 DEF InspectNode
  <2>3. node[n].role \in Roles BY <1>t DEF Node
  <2>4. nodeReq' \in [NodeRequests -> NodeUpdate \union {NodeIdle}]
    BY <2>1, <2>3, <1>t, <1>v DEF NodeUpdate
  <2>5. InspectionOK' BY <2>1, <2>2, <1>t, <1>v DEF NInv, InspectionOK
  <2> QED BY <2>2, <2>4, <2>5 DEF NInv, NodesTypeOK, VersionsOK, RolesStay
<1>5. ASSUME NEW r \in NodeRequests, UpdateNode(r) PROVE NInv'
  <2> DEFINE n == nodeReq[r].id
  <2>1. /\ nodeReq[r].pc = "update" /\ node[n].version = nodeReq[r].version
        /\ WriteNode(n, nodeReq[r].role, nodeReq[r].availability)
        /\ nodeReq' = [nodeReq EXCEPT ![r] = NodeIdle] /\ rank' = rank
    BY <1>5 DEF UpdateNode, NodeVersion
  <2>2. n \in Nodes /\ nodeReq[r].role \in Roles /\ nodeReq[r].availability \in Availabilities
    BY <2>1, <1>r DEF Availabilities
  <2>3. nodeReq[r].role = node[n].role BY <2>1, <2>2 DEF NInv, InspectionOK
  <2> HIDE DEF n
  <2>4. /\ node' \in [Nodes -> Node] /\ nodeIndex' \in Nat /\ VersionsOK'
        /\ node'[n].role = node[n].role /\ node'[n].version = nodeIndex + 1
        /\ \A m \in Nodes \ {n} : node'[m] = node[m]
    BY <2>1, <2>2, <2>3, WriteKeeps
  <2>5. nodeReq' \in [NodeRequests -> NodeUpdate \union {NodeIdle}] BY <2>1, <1>t
  <2>6. ASSUME NEW s \in NodeRequests, nodeReq'[s].pc = "update"
        PROVE  s # r /\ nodeReq'[s] = nodeReq[s]
    BY <2>6, <2>1, <1>t DEF NodeIdle
  <2>7. InspectionOK' BY <2>4, <2>6, <1>v, <1>r, <1>t DEF NInv, InspectionOK, VersionsOK
  <2>8. RolesStay' BY <2>1, <2>2, <2>4 DEF NInv, RolesStay
  <2> QED BY <2>1, <2>4, <2>5, <2>7, <2>8, <1>t DEF NInv, NodesTypeOK
<1>6. ASSUME NEW r \in NodeRequests, UpdateNodeRefused(r) PROVE NInv'
  BY <1>6, <1>t DEF UpdateNodeRefused, NodeIdle, NInv, NodesTypeOK, VersionsOK, InspectionOK, RolesStay
<1>7. ASSUME NEW n \in Nodes, GiveAvailability(n) PROVE NInv'
  <2>1. PICK availability \in Availabilities : WriteNode(n, node[n].role, availability)
    BY <1>7 DEF GiveAvailability
  <2>2. node[n].role \in Roles /\ UNCHANGED <<rank, nodeReq>>
    BY <1>7, <1>t DEF GiveAvailability, Node
  <2>3. /\ node' \in [Nodes -> Node] /\ nodeIndex' \in Nat /\ VersionsOK'
        /\ node'[n].role = node[n].role /\ node'[n].version = nodeIndex + 1
        /\ \A m \in Nodes \ {n} : node'[m] = node[m]
    BY <2>1, <2>2, WriteKeeps
  <2>4. InspectionOK' BY <2>2, <2>3, <1>v, <1>r, <1>t DEF NInv, InspectionOK, VersionsOK
  <2>5. RolesStay' BY <2>2, <2>3 DEF NInv, RolesStay
  <2>6. NodesTypeOK' BY <2>2, <2>3, <1>t DEF NodesTypeOK
  <2> QED BY <2>3, <2>4, <2>5, <2>6 DEF NInv
<1> QED BY <1>1, <1>2, <1>3, <1>4, <1>5, <1>6, <1>7 DEF NodesNext

-----------------------------------------------------------------------------
(* More than half is what QuorumSize asks for.                              *)
LEMMA QuorumIsMajority ==
  ASSUME NEW k \in Nat, NEW n \in Nat, n > 0, k >= QuorumSize(n)
  PROVE  2 * k > n
BY DEF QuorumSize

(* The health is derived from the nodes alone, so it is sound in any state  *)
(* in which the nodes are well formed.                                      *)
LEMMA HealthIsSound == NodesTypeOK => HealthTellsQuorum
<1> SUFFICES ASSUME NodesTypeOK PROVE HealthTellsQuorum OBVIOUS
<1>t. \A n \in Nodes : /\ node[n].ready \in BOOLEAN /\ node[n].reachable \in BOOLEAN
  BY DEF NodesTypeOK, Node
<1>m. IsFiniteSet(Managers) /\ Cardinality(Managers) \in Nat
      /\ (Managers # {} => Cardinality(Managers) > 0)
  <2>1. IsFiniteSet(Managers) BY NodesAssumption, FS_Subset DEF Managers
  <2> QED BY <2>1, FS_CardinalityType, FS_EmptySet
<1> DEFINE up == {n \in Managers : node[n].ready /\ node[n].reachable}
           live == {n \in Managers : node[n].ready}
<1>1. /\ IsFiniteSet(up) /\ Cardinality(up) \in Nat
      /\ Cardinality(ReadyManagers) \in Nat /\ Cardinality(ReadyManagers) <= Cardinality(up)
  <2>1. up \subseteq Managers OBVIOUS
  <2>2. ReadyManagers \subseteq up BY DEF ReadyManagers, IsManagerReady, IsNodeReady
  <2>3. IsFiniteSet(up) BY <2>1, <1>m, FS_Subset
  <2> QED BY <2>2, <2>3, FS_Subset, FS_CardinalityType
<1>2. Cardinality(live) \in Nat
  <2>1. live \subseteq Managers OBVIOUS
  <2> QED BY <2>1, <1>m, FS_Subset, FS_CardinalityType
<1>3. ASSUME EvaluateClusterHealth \in {"healthy", "degraded"}
      PROVE  Managers # {} /\ Majority(up)
  <2>1. Managers # {} /\ ~(Cardinality(ReadyManagers) < QuorumSize(Cardinality(Managers)))
    BY <1>3 DEF EvaluateClusterHealth
  <2>2. QuorumSize(Cardinality(Managers)) \in Nat BY <1>m DEF QuorumSize
  <2>3. Cardinality(up) >= QuorumSize(Cardinality(Managers)) BY <2>1, <2>2, <1>1
  <2>4. 2 * Cardinality(up) > Cardinality(Managers)
    BY <2>1, <2>3, <1>1, <1>m, QuorumIsMajority
  <2> QED BY <2>1, <2>4 DEF Majority
<1>4. ASSUME EvaluateKubeClusterHealth \in {"healthy", "degraded"}
      PROVE  Managers = {} \/ Majority(live)
  <2> SUFFICES ASSUME Managers # {} PROVE Majority(live) OBVIOUS
  <2>1. ~(Cardinality(live) < QuorumSize(Cardinality(Managers)))
    BY <1>4 DEF EvaluateKubeClusterHealth, ReadyControlPlane
  <2>2. QuorumSize(Cardinality(Managers)) \in Nat BY <1>m DEF QuorumSize
  <2>3. Cardinality(live) >= QuorumSize(Cardinality(Managers)) BY <2>1, <2>2, <1>2
  <2>4. 2 * Cardinality(live) > Cardinality(Managers) BY <2>3, <1>2, <1>m, QuorumIsMajority
  <2> QED BY <2>4 DEF Majority
<1>5. ASSUME "healthy" \in {EvaluateClusterHealth, EvaluateKubeClusterHealth}
      PROVE  \A n \in Nodes : node[n].ready /\ node[n].availability # "drain"
  <2>1. \A n \in Nodes : IsNodeReady(n)
    BY <1>5 DEF EvaluateClusterHealth, EvaluateKubeClusterHealth
  <2> QED BY <2>1, <1>t DEF IsNodeReady
<1> QED BY <1>3, <1>4, <1>5 DEF HealthTellsQuorum

-----------------------------------------------------------------------------
(* The engine's store and the requests of ClusterNodes keep their types     *)
(* (docker/engine.ts, setNodeAvailability).                                 *)
THEOREM NodesTypeCorrect == NodesSpec => []NodesTypeOK
<1>1. NInv => NodesTypeOK BY DEF NInv
<1> QED BY NInvInit, NInvNext, <1>1, PTL DEF NodesSpec

(* For any number of nodes, requests and writes: a drain undoes no change   *)
(* of role made meanwhile, and the cluster is never shown as healthy or     *)
(* degraded without a majority of its managers (cluster-health.ts:15).      *)
THEOREM NodesAreSound == NodesSpec => []NodesSound
<1>1. NInv => NodesSound BY HealthIsSound DEF NInv, NodesSound
<1> QED BY NInvInit, NInvNext, <1>1, PTL DEF NodesSpec

-----------------------------------------------------------------------------
(***************************************************************************)
(* The lists of a swarm's resources.                                       *)
(***************************************************************************)

SwarmTyped ==
  /\ machines \subseteq Machines
  /\ tasks \in [Containers -> [state : TaskStates, node : Machines]]
NamesUnique == \A x, y \in resources : Same(x, y.kind, y.name) => x = y
Resource == [kind : ResourceKinds, name : Labels, stack : Stacked \union {NoStack}]
ResourcesTyped == resources \subseteq Resource /\ IsFiniteSet(resources)
Asking == creating.pc \in {"idle", "inspect"}

(* A nodeMap query holds nodes of the swarm; its cards are of them.         *)
Mapping == [pc : {"idle", "tasks"}, nodes : SUBSET Machines, listed : SUBSET Machines,
            cards : SUBSET [node : Machines, tasks : SUBSET Containers, of : SUBSET Containers]]

LInv ==
  /\ SwarmTyped /\ ResourcesTyped /\ NamesUnique /\ Asking
  /\ mapping \in Mapping /\ TasksOnTheirCard

LEMMA LInvInit == ResourcesInit => LInv
<1> SUFFICES ASSUME ResourcesInit PROVE LInv
  OBVIOUS
<1> USE DEF ResourcesInit
<1>1. SwarmTyped
  BY MachinesAssumption DEF SwarmTyped, TaskStates
<1>2. NamesUnique /\ Asking /\ ResourcesTyped
  BY FS_EmptySet DEF NamesUnique, Asking, NotCreating, ResourcesTyped
<1>3. mapping \in Mapping /\ TasksOnTheirCard
  BY DEF Mapping, NotMapping, TasksOnTheirCard
<1> QED BY <1>1, <1>2, <1>3 DEF LInv

LEMMA ResourcesGrow ==
  ASSUME ResourcesTyped, NamesUnique,
         NEW kind \in ResourceKinds, NEW label \in Labels,
         NEW stack \in Stacked \union {NoStack}, ~Taken(kind, label),
         resources' = resources \union {[kind |-> kind, name |-> label, stack |-> stack]}
  PROVE  ResourcesTyped' /\ NamesUnique'
<1>1. [kind |-> kind, name |-> label, stack |-> stack] \in Resource
  BY DEF Resource
<1>2. IsFiniteSet(resources')
  BY FS_AddElement DEF ResourcesTyped
<1> QED BY <1>1, <1>2 DEF ResourcesTyped, NamesUnique, Same, Taken

LEMMA ResourcesShrink ==
  ASSUME ResourcesTyped, NamesUnique, resources' \subseteq resources
  PROVE  ResourcesTyped' /\ NamesUnique'
BY FS_Subset DEF ResourcesTyped, NamesUnique

(* The cards are right when they are made.                                  *)
LEMMA CardsRight ==
  ASSUME LInv, AnswerNodeMap
  PROVE  mapping' \in Mapping /\ TasksOnTheirCard'
<1> DEFINE cards == {[node |-> n, tasks |-> {t \in Tasks : NodeHostname(t) = HostOf[n]},
                      of |-> {t \in Tasks : tasks[t].node = n}] : n \in mapping.nodes}
<1>0. SwarmTyped /\ mapping \in Mapping /\ mapping.nodes \subseteq Machines
  BY DEF LInv, Mapping
<1>1. mapping' = [mapping EXCEPT !.pc = "idle", !.listed = machines, !.cards = cards]
  BY DEF AnswerNodeMap
<1>2. cards \in SUBSET [node : Machines, tasks : SUBSET Containers, of : SUBSET Containers]
  BY <1>0 DEF Tasks
<1>3. ASSUME NEW c \in cards, c.node \in machines,
             \A n \in Machines \ {c.node} : HostOf[c.node] \notin {n, HostOf[n]}
      PROVE  c.tasks = c.of
  <2>1. PICK n \in mapping.nodes :
          c = [node |-> n, tasks |-> {t \in Tasks : NodeHostname(t) = HostOf[n]},
               of |-> {t \in Tasks : tasks[t].node = n}]
    OBVIOUS
  <2>2. n \in machines /\ \A m \in Machines \ {n} : HostOf[n] \notin {m, HostOf[m]}
    BY <1>3, <2>1
  <2>3. ASSUME NEW t \in Tasks PROVE NodeHostname(t) = HostOf[n] <=> tasks[t].node = n
    <3>1. tasks[t].node \in Machines
      BY <1>0 DEF SwarmTyped, Tasks
    <3> QED BY <2>2, <3>1 DEF NodeHostname
  <2> QED BY <2>1, <2>3
<1> HIDE DEF cards
<1>4. mapping'.cards = cards /\ mapping'.listed = machines /\ mapping' \in Mapping
  BY <1>0, <1>1, <1>2 DEF Mapping, SwarmTyped
<1> QED BY <1>3, <1>4 DEF TasksOnTheirCard

LEMMA LInvNext == LInv /\ [ResourcesNext]_swarmVars => LInv'
<1> SUFFICES ASSUME LInv, [ResourcesNext]_swarmVars PROVE LInv'
  OBVIOUS
<1>0. /\ SwarmTyped /\ ResourcesTyped /\ NamesUnique /\ Asking
      /\ mapping \in Mapping /\ TasksOnTheirCard
  BY DEF LInv
<1>1. /\ UNCHANGED <<machines, tasks>> => SwarmTyped'
      /\ UNCHANGED resources => ResourcesTyped' /\ NamesUnique'
      /\ UNCHANGED creating => Asking'
      /\ UNCHANGED mapping => mapping' \in Mapping /\ TasksOnTheirCard'
  BY <1>0 DEF SwarmTyped, ResourcesTyped, NamesUnique, Asking, TasksOnTheirCard
<1>2. CASE CreateResource
  <2>1. PICK kind \in ResourceKinds, label \in Labels :
          /\ resources' = IF Taken(kind, label) THEN resources
               ELSE resources \union {[kind |-> kind, name |-> label, stack |-> NoStack]}
          /\ creating' = [pc |-> "inspect", kind |-> kind, name |-> label]
    BY <1>2 DEF CreateResource
  <2>2. ResourcesTyped' /\ NamesUnique'
    BY <1>0, <1>1, <2>1, ResourcesGrow
  <2> QED BY <1>1, <1>2, <2>1, <2>2 DEF CreateResource, Asking, LInv
<1>3. CASE AnswerCreated
  BY <1>1, <1>3 DEF AnswerCreated, Asking, NotCreating, LInv
<1>4. CASE RemoveResource
  BY <1>0, <1>1, <1>4, ResourcesShrink DEF RemoveResource, LInv
<1>5. CASE StackResources
  <2>1. PICK stack \in Stacked :
          \/ \E kind \in ResourceKinds, label \in Labels :
               /\ ~Taken(kind, label)
               /\ resources' = resources \union
                    {[kind |-> kind, name |-> label, stack |-> stack]}
          \/ resources' = {x \in resources : x.stack # stack \/ x.kind = "volume"}
    BY <1>5 DEF StackResources
  <2>2. ResourcesTyped' /\ NamesUnique'
    BY <1>0, <2>1, ResourcesGrow, ResourcesShrink
  <2> QED BY <1>1, <1>5, <2>2 DEF StackResources, LInv
<1>6. CASE MoveTask
  <2>1. PICK t \in Containers, n \in machines, state \in TaskStates :
          tasks' = [tasks EXCEPT ![t] = [state |-> state,
                      node |-> IF @.state = "none" THEN n ELSE @.node]]
    BY <1>6 DEF MoveTask
  <2>2. tasks[t].node \in Machines /\ n \in Machines
    BY <1>0 DEF SwarmTyped
  <2>3. [state |-> state, node |-> IF tasks[t].state = "none" THEN n ELSE tasks[t].node]
          \in [state : TaskStates, node : Machines]
    BY <2>2
  <2>4. SwarmTyped'
    BY <1>0, <1>6, <2>1, <2>3 DEF MoveTask, SwarmTyped
  <2> QED BY <1>1, <1>6, <2>4 DEF MoveTask, LInv
<1>7. CASE MoveNode
  <2>1. SwarmTyped'
    BY <1>0, <1>7 DEF MoveNode, SwarmTyped
  <2> QED BY <1>1, <1>7, <2>1 DEF MoveNode, LInv
<1>8. CASE BeginNodeMap
  <2>1. mapping' = [pc |-> "tasks", nodes |-> machines, listed |-> {}, cards |-> {}]
    BY <1>8 DEF BeginNodeMap, NotMapping
  <2>2. mapping' \in Mapping /\ TasksOnTheirCard'
    BY <1>0, <2>1 DEF Mapping, SwarmTyped, TasksOnTheirCard
  <2> QED BY <1>1, <1>8, <2>2 DEF BeginNodeMap, LInv
<1>9. CASE AnswerNodeMap
  BY <1>1, <1>9, CardsRight DEF AnswerNodeMap, LInv
<1>10. CASE UNCHANGED swarmVars
  BY <1>1, <1>10 DEF swarmVars, LInv
<1> QED BY <1>2, <1>3, <1>4, <1>5, <1>6, <1>7, <1>8, <1>9, <1>10 DEF ResourcesNext

(* A service is listed once, in a row of its own.                           *)
RowOf(s) ==
  [id |-> s.id, stack |-> s.stack, running |-> RunningOf(s), total |-> TotalOf(s),
   status |-> IF RunningOf(s) >= TotalOf(s) THEN "RUNNING" ELSE "UPDATING"]

LEMMA ServicesCounted ==
  ASSUME NEW stack
  PROVE  Cardinality({r \in ListSwarmServices : r.stack = stack})
           = Cardinality({s \in Deployed : s.stack = stack})
<1> DEFINE S == {s \in Deployed : s.stack = stack}
           T == {r \in ListSwarmServices : r.stack = stack}
           f == [s \in S |-> RowOf(s)]
<1>1. IsFiniteSet(S)
  BY DeployedAssumption, FS_Subset
<1>2. ListSwarmServices = {RowOf(s) : s \in Deployed}
  BY DEF ListSwarmServices, RowOf
<1>3. \A s \in Deployed : RowOf(s).id = s.id /\ RowOf(s).stack = s.stack
  BY DEF RowOf
<1>4. f \in [S -> T]
  BY <1>2, <1>3
<1>5. \A s, o \in S : f[s] = f[o] => s = o
  BY <1>3, DeployedAssumption
<1>6. \A r \in T : \E s \in S : f[s] = r
  BY <1>2, <1>3
<1> HIDE DEF S, T, f
<1>7. Cardinality(T) = Cardinality(S)
  BY <1>1, <1>4, <1>5, <1>6, SameSize
<1> QED BY <1>7 DEF S, T

LEMMA KindsCounted ==
  ASSUME ResourcesTyped, NEW stack
  PROVE  CountOf("network", stack) + CountOf("volume", stack)
           + CountOf("config", stack) + CountOf("secret", stack)
         = Cardinality({x \in resources : x.stack = stack})
<1> DEFINE R(kind) == {x \in resources : x.kind = kind /\ x.stack = stack}
           NV == R("network") \union R("volume")
           NVC == NV \union R("config")
<1>1. /\ IsFiniteSet(R("network")) /\ IsFiniteSet(R("volume"))
      /\ IsFiniteSet(R("config")) /\ IsFiniteSet(R("secret"))
  BY FS_Subset DEF ResourcesTyped
<1>2. /\ R("network") \intersect R("volume") = {}
      /\ NV \intersect R("config") = {} /\ NVC \intersect R("secret") = {}
  OBVIOUS
<1>3. NVC \union R("secret") = {x \in resources : x.stack = stack}
  <2>1. \A x \in resources : x.kind \in {"network", "volume", "secret", "config"}
    BY DEF ResourcesTyped, Resource, ResourceKinds
  <2> QED BY <2>1
<1>4. /\ CountOf("network", stack) = Cardinality(R("network"))
      /\ CountOf("volume", stack) = Cardinality(R("volume"))
      /\ CountOf("config", stack) = Cardinality(R("config"))
      /\ CountOf("secret", stack) = Cardinality(R("secret"))
  BY DEF CountOf
<1> HIDE DEF R
<1>5. /\ IsFiniteSet(NV) /\ Cardinality(R("network")) \in Nat
      /\ Cardinality(R("volume")) \in Nat
      /\ Cardinality(NV) = Cardinality(R("network")) + Cardinality(R("volume"))
  BY <1>1, <1>2, Disjoint
<1> HIDE DEF NV
<1>6. /\ IsFiniteSet(NVC) /\ Cardinality(R("config")) \in Nat
      /\ Cardinality(NVC) = Cardinality(NV) + Cardinality(R("config"))
  BY <1>1, <1>2, <1>5, Disjoint
<1> HIDE DEF NVC
<1>7. /\ Cardinality(R("secret")) \in Nat
      /\ Cardinality(NVC \union R("secret")) = Cardinality(NVC) + Cardinality(R("secret"))
  BY <1>1, <1>2, <1>6, Disjoint
<1> QED BY <1>3, <1>4, <1>5, <1>6, <1>7

(* Whatever moves, the lists agree with one another.                        *)
LEMMA ListsFit == LInv => ListsAgree
<1> SUFFICES ASSUME LInv PROVE ListsAgree
  OBVIOUS
<1>0. SwarmTyped /\ ResourcesTyped
  BY DEF LInv
<1>1. ASSUME NEW row \in AggregateStacks
      PROVE /\ row.services = Cardinality({s \in ListSwarmServices : s.stack = row.name})
            /\ row.services > 0
            /\ row.networks + row.volumes + row.configs + row.secrets
                 = Cardinality({x \in resources : x.stack = row.name})
  <2>1. PICK stack \in StackNames :
          /\ row.name = stack
          /\ row.services = Cardinality({s \in Deployed : s.stack = stack})
          /\ row.networks = CountOf("network", stack) /\ row.volumes = CountOf("volume", stack)
          /\ row.configs = CountOf("config", stack) /\ row.secrets = CountOf("secret", stack)
    BY <1>1 DEF AggregateStacks
  <2>2. PICK s \in Deployed : s.stack = stack
    BY DEF StackNames
  <2>3. Cardinality({d \in Deployed : d.stack = stack}) > 0
    <3> DEFINE S == {d \in Deployed : d.stack = stack}
    <3>1. IsFiniteSet(S) /\ S # {}
      BY <2>2, DeployedAssumption, FS_Subset
    <3> HIDE DEF S
    <3>2. Cardinality(S) \in Nat /\ Cardinality(S) # 0
      BY <3>1, FS_CardinalityType, FS_EmptySet
    <3>3. Cardinality(S) > 0
      BY <3>2
    <3> QED BY <3>3 DEF S
  <2> QED BY <1>0, <2>1, <2>3, ServicesCounted, KindsCounted
<1>2. ASSUME NEW s \in Deployed, NEW row \in ListSwarmServices,
             row.id = s.id, row.status = "RUNNING", ~s.global
      PROVE  Cardinality({t \in Containers : ServiceOf[t] = s.id /\ tasks[t].state = "running"})
               >= s.replicas
  <2>1. PICK o \in Deployed : row = RowOf(o)
    BY <1>2 DEF ListSwarmServices, RowOf
  <2>2. o = s
    BY <1>2, <2>1, DeployedAssumption DEF RowOf
  <2>3. RunningOf(s) >= s.replicas
    BY <1>2, <2>1, <2>2 DEF RowOf, TotalOf
  <2>4. {t \in Tasks : tasks[t].state = "running" /\ ServiceOf[t] = s.id}
          = {t \in Containers : ServiceOf[t] = s.id /\ tasks[t].state = "running"}
    BY DEF Tasks
  <2> QED BY <2>3, <2>4 DEF RunningOf
<1> QED BY <1>1, <1>2 DEF ListsAgree

LEMMA ListsTyped == LInv => ResourcesTypeOK
BY DEF LInv, SwarmTyped, NamesUnique, Asking, Mapping, ResourcesTypeOK

(* What was created or asked of the lists has its type, and no two          *)
(* resources of a kind share a name.                                        *)
THEOREM ResourcesTypeCorrect == ResourcesSpec => []ResourcesTypeOK
<1>1. ResourcesSpec => []LInv
  BY LInvInit, LInvNext, PTL DEF ResourcesSpec
<1> QED BY <1>1, ListsTyped, PTL

(* A task is on the card of the node that runs it and on no other, and the  *)
(* lists of services and of stacks agree (graphql/resolvers.ts:639-664,     *)
(* docker/engine.ts:465-507), however nodes, tasks and resources move       *)
(* between two of the engine's answers.                                     *)
THEOREM SwarmListsAreSound == ResourcesSpec => []SwarmListsSound
<1>1. ResourcesSpec => []LInv
  BY LInvInit, LInvNext, PTL DEF ResourcesSpec
<1>2. LInv => SwarmListsSound
  BY ListsFit DEF LInv, SwarmListsSound
<1> QED BY <1>1, <1>2, PTL

-----------------------------------------------------------------------------
(***************************************************************************)
(* The readings of telemetry, and the daily snapshots.                     *)
(***************************************************************************)

Snapshot == [day : Nat, recordedAt : 0..MaxHalfDays, services : 0..MaxCount]
Recording == [pc : {"idle", "insert", "refused"}, began : 0..MaxHalfDays, services : 0..MaxCount]

SamplesTyped ==
  /\ samples \in [Measurements -> [1..Buckets -> Levels \union {Null}]]
  /\ taskState \in {"running", "failed"}
TimeTyped ==
  /\ halfDay \in 0..MaxHalfDays /\ count \in 0..MaxCount
  /\ snapshots \subseteq Snapshot /\ recording \in [Viewers -> Recording]
DaysUnique == \A s, o \in snapshots : s.day = o.day => s = o

(* Nothing is from the future; while an overview is under way the row of    *)
(* its day is recorded by nobody who was there before it.                   *)
PastOnly ==
  /\ \A s \in snapshots : s.recordedAt <= halfDay
  /\ \A r \in Viewers : recording[r].began <= halfDay
DaysOwn ==
  \A r \in Viewers : recording[r].pc = "insert" =>
    \A s \in snapshots : s.day = Day(recording[r].began) => s.recordedAt >= recording[r].began

DInv == TimeTyped /\ DaysUnique /\ PastOnly /\ DaysOwn /\ RefusedByAnother

LEMMA SamplesStep == SamplesTyped /\ [ReadingsNext]_readVars => SamplesTyped'
<1> SUFFICES ASSUME SamplesTyped, [ReadingsNext]_readVars PROVE SamplesTyped'
  OBVIOUS
<1> USE BucketsAssumption
<1> DEFINE V == Levels \union {Null}
<1>0. /\ samples \in [Measurements -> [1..Buckets -> V]]
      /\ taskState \in {"running", "failed"}
  BY DEF SamplesTyped
<1>1. CASE PostStats
  <2>1. PICK sent \in SUBSET Measurements, level \in Levels :
          samples' = [m \in Measurements |->
            IF m \in sent THEN [samples[m] EXCEPT ![Buckets] = level] ELSE samples[m]]
    BY <1>1 DEF PostStats
  <2>2. \A m \in Measurements : [samples[m] EXCEPT ![Buckets] = level] \in [1..Buckets -> V]
    BY <1>0
  <2>3. samples' \in [Measurements -> [1..Buckets -> V]]
    BY <1>0, <2>1, <2>2
  <2> QED BY <1>0, <1>1, <2>3 DEF SamplesTyped, PostStats
<1>2. CASE NextBucket
  <2>1. ASSUME NEW m \in Measurements
        PROVE  Append(Tail(samples[m]), Null) \in [1..Buckets -> V]
    <3>1. samples[m] \in Seq(V) /\ Len(samples[m]) = Buckets /\ samples[m] # <<>>
      BY <1>0
    <3>2. Tail(samples[m]) \in Seq(V) /\ Len(Tail(samples[m])) = Buckets - 1
      BY <3>1, HeadTailProperties
    <3>3. /\ Append(Tail(samples[m]), Null) \in Seq(V)
          /\ Len(Append(Tail(samples[m]), Null)) = Buckets
      BY <3>2
    <3> QED BY <3>3, LenProperties
  <2>2. samples' \in [Measurements -> [1..Buckets -> V]]
    BY <1>2, <2>1 DEF NextBucket
  <2> QED BY <1>0, <1>2, <2>2 DEF SamplesTyped, NextBucket
<1>3. CASE TaskEnds
  BY <1>0, <1>3 DEF TaskEnds, SamplesTyped
<1>4. ASSUME UNCHANGED <<samples, taskState>> PROVE SamplesTyped'
  BY <1>4 DEF SamplesTyped
<1>5. CASE InfluxFails \/ HalfDayPasses \/ \E r \in Viewers : AskOverview(r) \/ InsertSnapshot(r)
  BY <1>4, <1>5 DEF InfluxFails, HalfDayPasses, AskOverview, InsertSnapshot
<1>6. CASE UNCHANGED readVars
  BY <1>4, <1>6 DEF readVars
<1> QED BY <1>1, <1>2, <1>3, <1>5, <1>6 DEF ReadingsNext

(* A day begins at its first half; the days of the code are those of Day.   *)
LEMMA DayType == ASSUME NEW t \in Nat PROVE Day(t) \in Nat
  BY DEF Day

LEMMA DaysStep == DInv /\ [ReadingsNext]_readVars => DInv'
<1> SUFFICES ASSUME DInv, [ReadingsNext]_readVars PROVE DInv'
  OBVIOUS
<1> USE BoundsAssumption
<1>0. /\ TimeTyped /\ DaysUnique /\ PastOnly /\ DaysOwn /\ RefusedByAnother
      /\ halfDay \in Nat
  BY DEF DInv, TimeTyped
<1>1. ASSUME UNCHANGED <<halfDay, count, snapshots, recording>> PROVE DInv'
  BY <1>0, <1>1 DEF DInv, TimeTyped, DaysUnique, PastOnly, DaysOwn, RefusedByAnother, Snapshot, Recording
<1>2. CASE HalfDayPasses
  <2>1. /\ halfDay' = halfDay + 1 /\ halfDay' \in 0..MaxHalfDays /\ count' \in 0..MaxCount
        /\ snapshots' = snapshots /\ recording' = recording
    BY <1>0, <1>2 DEF HalfDayPasses, TimeTyped
  <2>2. TimeTyped' /\ DaysUnique' /\ DaysOwn' /\ RefusedByAnother'
    BY <1>0, <2>1 DEF TimeTyped, DaysUnique, DaysOwn, RefusedByAnother
  <2>3. PastOnly'
    <3>1. /\ \A s \in snapshots : s.recordedAt \in Nat
          /\ \A r \in Viewers : recording[r].began \in Nat
      BY <1>0 DEF TimeTyped, Snapshot, Recording
    <3> QED BY <1>0, <2>1, <3>1 DEF PastOnly
  <2> QED BY <2>2, <2>3 DEF DInv
<1>3. ASSUME NEW r \in Viewers, AskOverview(r) PROVE DInv'
  <2>1. /\ UNCHANGED <<halfDay, count, snapshots>>
        /\ recording' = [recording EXCEPT ![r] =
             IF Recorded(Day(halfDay)) THEN NotRecording
             ELSE [pc |-> "insert", began |-> halfDay, services |-> count]]
    BY <1>3 DEF AskOverview
  <2>2. NotRecording \in Recording /\ [pc |-> "insert", began |-> halfDay, services |-> count] \in Recording
    BY <1>0 DEF NotRecording, Recording, TimeTyped
  <2>3. /\ recording' \in [Viewers -> Recording]
        /\ \A q \in Viewers \ {r} : recording'[q] = recording[q]
        /\ recording'[r] = IF Recorded(Day(halfDay)) THEN NotRecording
             ELSE [pc |-> "insert", began |-> halfDay, services |-> count]
    BY <1>0, <2>1, <2>2 DEF TimeTyped
  <2>4. CASE Recorded(Day(halfDay))
    <3>1. recording'[r].pc = "idle" /\ recording'[r].began = 0
      BY <2>3, <2>4 DEF NotRecording
    <3>2. TimeTyped' /\ DaysUnique' /\ PastOnly'
      BY <1>0, <2>1, <2>3, <3>1 DEF TimeTyped, DaysUnique, PastOnly
    <3>3. DaysOwn' /\ RefusedByAnother'
      BY <1>0, <2>1, <2>3, <3>1 DEF DaysOwn, RefusedByAnother
    <3> QED BY <3>2, <3>3 DEF DInv
  <2>5. CASE ~Recorded(Day(halfDay))
    <3>1. recording'[r].pc = "insert" /\ recording'[r].began = halfDay
      BY <2>3, <2>5
    <3>2. TimeTyped' /\ DaysUnique' /\ PastOnly'
      BY <1>0, <2>1, <2>3, <3>1 DEF TimeTyped, DaysUnique, PastOnly
    <3>3. DaysOwn' /\ RefusedByAnother'
      BY <1>0, <2>1, <2>3, <2>5, <3>1 DEF DaysOwn, RefusedByAnother, Recorded
    <3> QED BY <3>2, <3>3 DEF DInv
  <2> QED BY <2>4, <2>5
<1>4. ASSUME NEW r \in Viewers, InsertSnapshot(r) PROVE DInv'
  <2> DEFINE day == Day(recording[r].began)
             row == [day |-> day, recordedAt |-> halfDay, services |-> recording[r].services]
  <2>1. recording[r] \in Recording /\ recording[r].pc = "insert" /\ UNCHANGED <<halfDay, count>>
    BY <1>0, <1>4 DEF InsertSnapshot, TimeTyped
  <2>2. CASE /\ ~Recorded(day)
             /\ snapshots' = snapshots \union {row}
             /\ recording' = [recording EXCEPT ![r] = NotRecording]
    <3>1. row \in Snapshot /\ row.day = day /\ row.recordedAt = halfDay
      BY <1>0, <2>1, DayType DEF Snapshot, Recording, TimeTyped
    <3> HIDE DEF row, day
    <3>2. NotRecording \in Recording
      BY DEF NotRecording, Recording
    <3>3. /\ recording' \in [Viewers -> Recording]
          /\ \A q \in Viewers \ {r} : recording'[q] = recording[q]
          /\ recording'[r].pc = "idle" /\ recording'[r].began = 0
      BY <1>0, <2>2, <3>2 DEF TimeTyped, NotRecording
    <3>4. TimeTyped' /\ DaysUnique'
      BY <1>0, <2>1, <2>2, <3>1, <3>3 DEF TimeTyped, DaysUnique, Recorded
    <3>5. PastOnly'
      BY <1>0, <2>1, <2>2, <3>1, <3>3 DEF PastOnly
    <3>6. DaysOwn' /\ RefusedByAnother'
      <4>1. \A q \in Viewers : recording[q].began <= halfDay
        BY <1>0 DEF PastOnly
      <4> QED BY <1>0, <2>1, <2>2, <3>1, <3>3, <4>1 DEF DaysOwn, RefusedByAnother
    <3> QED BY <3>4, <3>5, <3>6 DEF DInv
  <2>3. CASE /\ Recorded(day)
             /\ recording' = [recording EXCEPT ![r].pc = "refused"]
             /\ UNCHANGED snapshots
    <3>1. [recording[r] EXCEPT !.pc = "refused"] \in Recording
      BY <2>1 DEF Recording
    <3>2. /\ recording' \in [Viewers -> Recording]
          /\ \A q \in Viewers \ {r} : recording'[q] = recording[q]
          /\ recording'[r].pc = "refused" /\ recording'[r].began = recording[r].began
      BY <1>0, <2>1, <2>3, <3>1 DEF TimeTyped, Recording
    <3>3. TimeTyped' /\ DaysUnique' /\ PastOnly'
      BY <1>0, <2>1, <2>3, <3>2 DEF TimeTyped, DaysUnique, PastOnly
    <3>4. \E s \in snapshots : s.day = day /\ s.recordedAt >= recording[r].began
      BY <1>0, <2>1, <2>3 DEF Recorded, DaysOwn
    <3>5. DaysOwn' /\ RefusedByAnother'
      BY <1>0, <2>3, <3>2, <3>4 DEF DaysOwn, RefusedByAnother
    <3> QED BY <3>3, <3>5 DEF DInv
  <2> QED BY <1>4, <2>2, <2>3 DEF InsertSnapshot
<1>5. CASE PostStats \/ NextBucket \/ InfluxFails \/ TaskEnds
  BY <1>1, <1>5 DEF PostStats, NextBucket, InfluxFails, TaskEnds
<1>6. CASE UNCHANGED readVars
  BY <1>1, <1>6 DEF readVars
<1> QED BY <1>2, <1>3, <1>4, <1>5, <1>6 DEF ReadingsNext

LEMMA ReadingsBegin == ReadingsInit => SamplesTyped /\ DInv /\ telemetry \in BOOLEAN
<1> SUFFICES ASSUME ReadingsInit PROVE SamplesTyped /\ DInv /\ telemetry \in BOOLEAN
  OBVIOUS
<1> USE BucketsAssumption, BoundsAssumption
<1>1. SamplesTyped
  BY DEF ReadingsInit, SamplesTyped
<1>2. recording \in [Viewers -> Recording] /\ \A r \in Viewers : recording[r] = NotRecording
  BY DEF ReadingsInit, NotRecording, Recording
<1>3. TimeTyped /\ DaysUnique
  BY <1>2 DEF ReadingsInit, TimeTyped, DaysUnique
<1>4. PastOnly /\ DaysOwn /\ RefusedByAnother
  BY <1>2 DEF ReadingsInit, NotRecording, PastOnly, DaysOwn, RefusedByAnother
<1> QED BY <1>1, <1>3, <1>4 DEF DInv, ReadingsInit

LEMMA TelemetryStep ==
  telemetry \in BOOLEAN /\ [ReadingsNext]_readVars => (telemetry \in BOOLEAN)'
BY DEF ReadingsNext, PostStats, NextBucket, InfluxFails, TaskEnds, HalfDayPasses,
   AskOverview, InsertSnapshot, readVars

(* What is shown of a node or a task is a sample, zero, or made up.         *)
LEMMA LoadsHonest == SamplesTyped => NoInventedLoad
<1> SUFFICES ASSUME SamplesTyped PROVE NoInventedLoad
  OBVIOUS
<1> USE BucketsAssumption, LevelsAssumption
<1>0. /\ \A m \in Measurements : \A i \in 1..Buckets : samples[m][i] \in Levels \union {Null}
      /\ "cpu" \in Measurements /\ Buckets \in 1..Buckets
      /\ taskState \in {"running", "failed"}
  BY DEF SamplesTyped, Measurements
<1>1. ASSUME telemetry, NEW m \in Measurements PROVE NodeLoad(m) # Guess
  BY <1>0, <1>1 DEF NodeLoad, Guess, Zero, Null
<1>2. Points # {} => LastPoint # Guess
  <2> SUFFICES ASSUME Points # {} PROVE LastPoint # Guess
    OBVIOUS
  <2>1. Points \in SUBSET (0..Buckets) /\ Points \subseteq 1..Buckets
    BY DEF Points
  <2>2. \E g \in Points : \A x \in Points : x <= g
    BY <2>1, Greatest
  <2>3. Max(Points) \in Points
    <3>1. \E g \in Points : \A x \in Points : g >= x
      BY <2>1, <2>2
    <3> QED BY <3>1 DEF Max
  <2>4. LastPoint \in Levels \union {Null}
    BY <1>0, <2>1, <2>3 DEF LastPoint
  <2> QED BY <2>4 DEF Guess, Null
<1>3. telemetry => TaskLoad # Guess
  BY <1>2 DEF TaskLoad, Zero, Guess
<1>4. taskState # "running" => TaskLoad = Zero
  BY DEF TaskLoad
<1> QED BY <1>1, <1>3, <1>4 DEF NoInventedLoad

(* Of the snapshots of a week's age one is nearest, and nearer than any     *)
(* that is not of that age; the change is the difference from one of these. *)
LEMMA WeeksMatch == DInv => WeeksAreCompared
<1> SUFFICES ASSUME DInv PROVE WeeksAreCompared
  OBVIOUS
<1> USE BoundsAssumption
<1>0. ASSUME NEW s \in snapshots
      PROVE  Age(s) \in 0..MaxHalfDays /\ FromWeek(s) \in 0..(MaxHalfDays + 14)
  <2>1. s.recordedAt \in 0..MaxHalfDays /\ s.recordedAt <= halfDay /\ halfDay \in 0..MaxHalfDays
    BY DEF DInv, TimeTyped, PastOnly, Snapshot
  <2>2. Age(s) \in 0..MaxHalfDays
    BY <2>1 DEF Age
  <2> QED BY <2>2 DEF FromWeek
<1>1. ASSUME NEW s \in snapshots, Age(s) \in 12..16 PROVE Baselines # {}
  <2> DEFINE D == {FromWeek(o) : o \in snapshots}
  <2>1. D \in SUBSET (0..(MaxHalfDays + 14)) /\ D # {}
    BY <1>0
  <2> HIDE DEF D
  <2>2. PICK l \in D : \A d \in D : l <= d
    <3>1. MaxHalfDays + 14 \in Nat
      OBVIOUS
    <3> QED BY <2>1, <3>1, Least
  <2>3. PICK b \in snapshots : l = FromWeek(b)
    BY DEF D
  <2>4. \A o \in snapshots : FromWeek(b) <= FromWeek(o)
    BY <2>2, <2>3 DEF D
  <2>5. FromWeek(s) <= 2
    BY <1>0, <1>1 DEF FromWeek
  <2>6. FromWeek(b) <= 2
    BY <1>0, <2>4, <2>5
  <2>7. Age(b) >= 12 /\ Age(b) <= 16
    BY <1>0, <2>6 DEF FromWeek
  <2> QED BY <2>4, <2>7 DEF Baselines
<1>2. ASSUME NEW s \in Baselines PROVE Age(s) \in 12..16 /\ s \in snapshots
  BY <1>0 DEF Baselines
<1>3. ASSUME NEW s \in Baselines
      PROVE  /\ count - s.services \in Int
             /\ SignedDelta(count - s.services) = NoDelta <=> s.services = count
             /\ SignedDelta(count - s.services) # NoDelta =>
                  /\ SignedDelta(count - s.services)[1] # 0
                  /\ s.services + SignedDelta(count - s.services)[1] = count
  <2>1. count \in Int /\ s.services \in Int
    BY <1>2 DEF DInv, TimeTyped, Snapshot
  <2> DEFINE n == count - s.services
  <2>2. n \in Int /\ (n = 0 <=> s.services = count) /\ s.services + n = count
    BY <2>1
  <2> HIDE DEF n
  <2>3. <<n>> # <<>> /\ <<n>>[1] = n
    <3>1. Len(<<n>>) = 1 /\ Len(<<>>) = 0
      OBVIOUS
    <3> QED BY <3>1
  <2> QED BY <2>2, <2>3 DEF SignedDelta, NoDelta, n
<1>4. ASSUME NEW d \in ServicesDeltas \ {NoDelta}
      PROVE  d[1] # 0 /\ \E s \in snapshots : Age(s) \in 12..16 /\ s.services + d[1] = count
  <2>1. PICK s \in Baselines : d = SignedDelta(count - s.services)
    BY <1>4 DEF ServicesDeltas
  <2> QED BY <1>2, <1>3, <1>4, <2>1
<1>5. ASSUME NEW s \in snapshots, Age(s) \in 12..16, NoDelta \in ServicesDeltas
      PROVE  \E o \in snapshots : Age(o) \in 12..16 /\ o.services = count
  <2>1. PICK o \in Baselines : SignedDelta(count - o.services) = NoDelta
    BY <1>1, <1>5 DEF ServicesDeltas
  <2> QED BY <1>2, <1>3, <2>1
<1> QED BY <1>4, <1>5 DEF WeeksAreCompared

(* A forward-filled curve that starts at a point: each of its values is the *)
(* latest point up to there.                                                *)
LatestPoint(raw, from, upto, value) ==
  \E j \in from..upto : /\ value = raw[j] /\ raw[j] # Null
                        /\ \A l \in (j + 1)..upto : raw[l] = Null

LEMMA FilledForward ==
  ASSUME NEW V, NEW raw \in Seq(V), NEW start \in 1..Len(raw), raw[start] # Null
  PROVE  /\ Len(FillForward(raw, start)) = Len(raw) - start + 1
         /\ \A k \in 1..(Len(raw) - start + 1) :
              LatestPoint(raw, start, start + k - 1, FillForward(raw, start)[k])
<1> DEFINE shown == SubSeq(raw, start, Len(raw))
           n == Len(raw) - start + 1
           F(f) == [i \in 0..Len(shown) |->
                      IF i = 0 THEN Zero ELSE IF shown[i] # Null THEN shown[i] ELSE f[i - 1]]
           filled == CHOOSE f : f = F(f)
<1>1. Len(raw) \in Nat /\ start \in Nat /\ start >= 1 /\ start <= Len(raw) /\ n \in Nat /\ n >= 1
  OBVIOUS
<1>2. Len(shown) = n /\ \A i \in 1..n : shown[i] = raw[start + i - 1] /\ shown[i] \in V
  <2>1. /\ start \in Int /\ Len(raw) \in Int /\ \A i \in start..Len(raw) : raw[i] \in V
        /\ start <= Len(raw)
    BY <1>1
  <2>2. /\ Len(shown) = n
        /\ \A i \in 1..(Len(raw) - start + 1) : shown[i] = raw[start + i - 1]
    BY <2>1, SubSeqProperties
  <2>3. \A i \in 1..n : start + i - 1 \in start..Len(raw)
    BY <1>1
  <2> HIDE DEF shown
  <2> QED BY <2>1, <2>2, <2>3
<1>3. FillForward(raw, start) = [i \in 1..Len(shown) |-> filled[i]]
  BY DEF FillForward
<1> HIDE DEF shown
<1>4. \E f : f = F(f)
  <2> DEFINE R == V \union {Zero}
             step == [p \in (1..n) \X R |-> IF shown[p[1]] # Null THEN shown[p[1]] ELSE p[2]]
  <2>1. step \in [(1..n) \X R -> R] /\ Zero \in R
    BY <1>2
  <2>2. \A i \in 1..n, v \in R : step[<<i, v>>] = IF shown[i] # Null THEN shown[i] ELSE v
    OBVIOUS
  <2>0. n \in Nat
    BY <1>1
  <2> HIDE DEF step, R, n
  <2>3. PICK f : Solves(f, n, R, Zero, step)
    BY <2>0, <2>1, Recursion
  <2>4. ASSUME NEW i \in 1..n
        PROVE  f[i] = IF shown[i] # Null THEN shown[i] ELSE f[i - 1]
    <3>1. f[i - 1] \in R
      BY <1>1, <2>3 DEF Solves
    <3> QED BY <2>2, <2>3, <3>1 DEF Solves
  <2>5. ASSUME NEW i \in 0..n
        PROVE  f[i] = IF i = 0 THEN Zero ELSE IF shown[i] # Null THEN shown[i] ELSE f[i - 1]
    BY <1>1, <2>3, <2>4 DEF Solves
  <2>6. f = F(f)
    BY <1>2, <2>3, <2>5 DEF Solves
  <2> QED BY <2>6
<1>5. filled = F(filled)
  BY <1>4
<1> HIDE DEF filled
<1>6. ASSUME NEW i \in 1..n
      PROVE  filled[i] = IF shown[i] # Null THEN shown[i] ELSE filled[i - 1]
  <2>1. i \in 0..Len(shown) /\ i # 0
    BY <1>2
  <2>2. filled[i] = F(filled)[i]
    BY <1>5
  <2> QED BY <2>1, <2>2
<1> HIDE DEF F
<1> DEFINE S == {k \in 0..n : k = 0 \/ LatestPoint(raw, start, start + k - 1, filled[k])}
<1>7. ASSUME NEW k \in 0..(n - 1), k \in S PROVE k + 1 \in S
  <2>0. k + 1 \in 1..n /\ (k + 1) - 1 = k /\ start + (k + 1) - 1 = start + k
    BY <1>1
  <2>1. shown[k + 1] = raw[start + k]
    BY <1>2, <2>0
  <2>2. LatestPoint(raw, start, start + k, filled[k + 1])
    <3>1. CASE raw[start + k] # Null
      <4>1. filled[k + 1] = raw[start + k]
        BY <1>6, <2>0, <2>1, <3>1
      <4>2. start + k \in start..(start + k) /\ (start + k + 1)..(start + k) = {}
        BY <1>1
      <4> QED BY <3>1, <4>1, <4>2 DEF LatestPoint
    <3>2. CASE raw[start + k] = Null
      <4>1. k # 0
        BY <1>1, <3>2
      <4>2. filled[k + 1] = filled[k]
        BY <1>6, <2>0, <2>1, <3>2
      <4>3. LatestPoint(raw, start, start + k - 1, filled[k])
        BY <1>7, <4>1
      <4>4. PICK j \in start..(start + k - 1) :
              /\ filled[k] = raw[j] /\ raw[j] # Null
              /\ \A l \in (j + 1)..(start + k - 1) : raw[l] = Null
        BY <4>3 DEF LatestPoint
      <4>5. j \in start..(start + k)
        BY <1>1
      <4>6. ASSUME NEW l \in (j + 1)..(start + k) PROVE raw[l] = Null
        <5>1. l = start + k \/ l \in (j + 1)..(start + k - 1)
          BY <1>1
        <5> QED BY <3>2, <4>4, <5>1
      <4> QED BY <4>2, <4>4, <4>5, <4>6 DEF LatestPoint
    <3> QED BY <3>1, <3>2
  <2> QED BY <2>0, <2>2
<1>8. 0 \in S
  BY <1>1
<1> HIDE DEF S
<1>9. 0..n \subseteq S
  BY <1>1, <1>7, <1>8, UpTo
<1>10. \A k \in 1..n : LatestPoint(raw, start, start + k - 1, filled[k])
  BY <1>1, <1>9 DEF S
<1> HIDE DEF n
<1>11. FillForward(raw, start) = [i \in 1..n |-> filled[i]]
  BY <1>2, <1>3
<1>12. Len(FillForward(raw, start)) = n /\ \A k \in 1..n : FillForward(raw, start)[k] = filled[k]
  BY <1>1, <1>11
<1>13. Len(FillForward(raw, start)) = n /\
       \A k \in 1..n : LatestPoint(raw, start, start + k - 1, FillForward(raw, start)[k])
  BY <1>10, <1>12
<1> QED BY <1>13 DEF n

(* A curve that is drawn starts at the first bucket all have a point in.    *)
LEMMA CurvesHonest == SamplesTyped => CurvesAreSampled
<1> SUFFICES ASSUME SamplesTyped, AssembleSeries["cpu"] # <<>>, NEW m \in Measurements, Raw(m) # <<>>
             PROVE  LET curve == AssembleSeries
                        first == Buckets - Len(curve["cpu"]) + 1
                    IN /\ Len(curve[m]) = Len(curve["cpu"])
                       /\ \A i \in first..Buckets :
                            \E j \in first..i : /\ curve[m][i - first + 1] = samples[m][j]
                                                /\ samples[m][j] # Null
                                                /\ \A k \in (j + 1)..i : samples[m][k] = Null
  BY DEF CurvesAreSampled
<1> USE BucketsAssumption
<1> DEFINE V == Levels \union {Null}
           start == Start(Raw("cpu"), Raw("memory"), Raw("disk"))
<1>0. /\ Buckets \in Nat /\ "cpu" \in Measurements
      /\ \A k \in Measurements : samples[k] \in Seq(V) /\ Len(samples[k]) = Buckets
  <2>1. ASSUME NEW k \in Measurements PROVE samples[k] \in Seq(V) /\ Len(samples[k]) = Buckets
    <3>1. samples[k] \in [1..Buckets -> V]
      BY DEF SamplesTyped
    <3> QED BY <3>1
  <2> QED BY <2>1 DEF Measurements
<1>1. /\ start <= Len(Raw("cpu"))
      /\ AssembleSeries = [k \in Measurements |-> FillForward(Raw(k), start)]
  <2>1. NoSeries["cpu"] = <<>>
    BY DEF NoSeries
  <2>2. ~(~(telemetry /\ influxUp) \/ start > Len(Raw("cpu")))
    BY <2>1 DEF AssembleSeries
  <2>3. \A k \in Measurements : Raw(k) \in {<<>>, samples[k]}
    BY DEF Raw
  <2>4. Len(Raw("cpu")) \in Nat
    BY <1>0, <2>3
  <2>5. start \in Int
    <3> DEFINE whole == {i \in 1..Len(Raw("cpu")) :
                           NotNull(Raw("cpu"), i) /\ NotNull(Raw("memory"), i) /\ NotNull(Raw("disk"), i)}
    <3>1. whole # {} => \E i \in whole : \A j \in whole : i <= j
      <4>1. whole \in SUBSET (0..Len(Raw("cpu")))
        BY <2>4
      <4> HIDE DEF whole
      <4> QED BY <2>4, <4>1, Least
    <3>2. whole \subseteq Int
      BY <2>4
    <3>3. start = IF whole = {} THEN Len(Raw("cpu")) + 1
                  ELSE CHOOSE i \in whole : \A j \in whole : i <= j
      BY DEF Start
    <3> HIDE DEF whole, start
    <3>4. CASE whole = {}
      BY <2>4, <3>3, <3>4
    <3>5. CASE whole # {}
      <4>1. start = CHOOSE i \in whole : \A j \in whole : i <= j
        BY <3>3, <3>5
      <4>2. start \in whole
        BY <3>1, <3>5, <4>1
      <4> QED BY <3>2, <4>2
    <3> QED BY <3>4, <3>5
  <2> HIDE DEF start
  <2>6. start <= Len(Raw("cpu"))
    BY <2>2, <2>4, <2>5
  <2>7. AssembleSeries = [k \in Measurements |-> FillForward(Raw(k), start)]
    BY <2>2 DEF AssembleSeries, start
  <2> QED BY <2>6, <2>7
<1>2. /\ start \in 1..Len(Raw("cpu"))
      /\ \A k \in Measurements : NotNull(Raw(k), start)
  <2> DEFINE whole == {i \in 1..Len(Raw("cpu")) :
                         NotNull(Raw("cpu"), i) /\ NotNull(Raw("memory"), i) /\ NotNull(Raw("disk"), i)}
  <2>1. start = IF whole = {} THEN Len(Raw("cpu")) + 1
                ELSE CHOOSE i \in whole : \A j \in whole : i <= j
    BY DEF Start
  <2>2. Len(Raw("cpu")) \in Nat
    BY <1>0 DEF Raw
  <2>3. whole # {}
    <3> HIDE DEF whole, start
    <3> QED BY <1>1, <2>1, <2>2
  <2>4. \E i \in whole : \A j \in whole : i <= j
    <3>1. whole \in SUBSET (0..Len(Raw("cpu")))
      BY <2>2
    <3> HIDE DEF whole
    <3> QED BY <2>2, <2>3, <3>1, Least
  <2>5. start \in whole
    <3> HIDE DEF whole, start
    <3> QED BY <2>1, <2>3, <2>4
  <2> HIDE DEF start
  <2> QED BY <2>5 DEF Measurements
<1> HIDE DEF start
<1>3. Raw("cpu") # <<>>
  BY <1>2
<1>4. ASSUME NEW k \in Measurements, Raw(k) # <<>>
      PROVE  /\ AssembleSeries[k] = FillForward(samples[k], start)
             /\ start \in 1..Buckets /\ samples[k][start] # Null
             /\ Len(AssembleSeries[k]) = Buckets - start + 1
             /\ \A i \in 1..(Buckets - start + 1) :
                  LatestPoint(samples[k], start, start + i - 1, AssembleSeries[k][i])
  <2>1. Raw(k) = samples[k] /\ Raw("cpu") = samples["cpu"]
    BY <1>3, <1>4 DEF Raw
  <2>2. start \in 1..Buckets
    BY <1>0, <1>2, <2>1
  <2>3. samples[k][start] # Null
    BY <1>0, <1>2, <2>1, <2>2 DEF NotNull
  <2>4. AssembleSeries[k] = FillForward(samples[k], start)
    BY <1>1, <2>1
  <2>5. samples[k] \in Seq(V) /\ Len(samples[k]) = Buckets /\ start \in 1..Len(samples[k])
    BY <1>0, <2>2
  <2>6. /\ Len(FillForward(samples[k], start)) = Len(samples[k]) - start + 1
        /\ \A i \in 1..(Len(samples[k]) - start + 1) :
             LatestPoint(samples[k], start, start + i - 1, FillForward(samples[k], start)[i])
    <3> HIDE DEF V
    <3> QED BY <2>3, <2>5, FilledForward
  <2> QED BY <2>2, <2>3, <2>4, <2>5, <2>6
<1> DEFINE first == Buckets - Len(AssembleSeries["cpu"]) + 1
<1>5. first = start /\ start \in 1..Buckets
  <2>1. start \in 1..Buckets /\ Len(AssembleSeries["cpu"]) = Buckets - start + 1
    BY <1>0, <1>3, <1>4
  <2>2. Buckets - (Buckets - start + 1) + 1 = start
    BY <1>0, <2>1
  <2> QED BY <2>1, <2>2
<1>6. Len(AssembleSeries[m]) = Len(AssembleSeries["cpu"])
  BY <1>0, <1>3, <1>4
<1> HIDE DEF first
<1>7. ASSUME NEW i \in first..Buckets
      PROVE  \E j \in first..i : /\ AssembleSeries[m][i - first + 1] = samples[m][j]
                                 /\ samples[m][j] # Null
                                 /\ \A k \in (j + 1)..i : samples[m][k] = Null
  <2>1. i - start + 1 \in 1..(Buckets - start + 1) /\ start + (i - start + 1) - 1 = i
    BY <1>0, <1>5
  <2>2. LatestPoint(samples[m], start, i, AssembleSeries[m][i - start + 1])
    BY <1>4, <2>1
  <2> QED BY <1>5, <2>2 DEF LatestPoint
<1> QED BY <1>6, <1>7 DEF first

(* The figures of the dashboard are what was measured, for any range, any   *)
(* levels and any number of days: the curves, the loads, the comparison     *)
(* with a week ago, and the overviews that are refused                      *)
(* (metrics/series.ts:120-145, graphql/resolvers.ts:189-193, 350-353,       *)
(* store/metrics-history.ts:19-46).                                         *)
THEOREM ReadingsAreHonest == ReadingsSpec => []ReadingsHonest
<1>1. SamplesTyped /\ DInv => ReadingsHonest
  BY CurvesHonest, LoadsHonest, WeeksMatch DEF ReadingsHonest, DInv
<1> QED BY <1>1, ReadingsBegin, SamplesStep, DaysStep, PTL DEF ReadingsSpec

(* The samples and the snapshots have their types; a day has one snapshot.  *)
THEOREM ReadingsTypeCorrect == ReadingsSpec => []ReadingsTypeOK
<1>1. SamplesTyped /\ DInv => ReadingsTypeOK
  <2> SUFFICES ASSUME SamplesTyped, DInv PROVE ReadingsTypeOK
    OBVIOUS
  <2>1. \A r \in Viewers : recording[r].pc \in {"idle", "insert", "refused"}
    BY DEF DInv, TimeTyped, Recording
  <2> QED BY <2>1 DEF ReadingsTypeOK, SamplesTyped, DInv, TimeTyped, DaysUnique
<1> QED BY <1>1, ReadingsBegin, SamplesStep, DaysStep, PTL DEF ReadingsSpec

-----------------------------------------------------------------------------
(***************************************************************************)
(* The Kubernetes backend.                                                 *)
(***************************************************************************)

(* The documents of a manifest are those that are not null.                 *)
LEMMA DocsKept ==
  ASSUME NEW manifest, manifest \in Seq(Range(manifest))
  PROVE  /\ Docs(manifest) \in Seq(Range(manifest))
         /\ Range(Docs(manifest)) = Range(manifest) \ {NullDoc}
<1> DEFINE n == Len(manifest)
           R == Seq(Range(manifest))
           F(f) == [i \in 0..Len(manifest) |->
                      IF i = 0 THEN <<>>
                      ELSE IF manifest[i] = NullDoc THEN f[i - 1]
                      ELSE Append(f[i - 1], manifest[i])]
           kept == CHOOSE f : f = F(f)
           step == [p \in (1..n) \X R |->
                      IF manifest[p[1]] = NullDoc THEN p[2] ELSE Append(p[2], manifest[p[1]])]
<1>1. /\ n \in Nat /\ DOMAIN manifest = 1..n /\ \A i \in 1..n : manifest[i] \in Range(manifest)
      /\ Range(manifest) = {manifest[i] : i \in 1..n}
  BY LenProperties DEF Range
<1>0. n \in Nat
  BY <1>1
<1>2. Docs(manifest) = kept[n]
  BY DEF Docs
<1>3. step \in [(1..n) \X R -> R] /\ <<>> \in R
  <2>1. ASSUME NEW i \in 1..n, NEW v \in R
        PROVE  (IF manifest[i] = NullDoc THEN v ELSE Append(v, manifest[i])) \in R
    BY <1>1
  <2> QED BY <2>1
<1>4. \A i \in 1..n, v \in R :
        step[<<i, v>>] = IF manifest[i] = NullDoc THEN v ELSE Append(v, manifest[i])
  OBVIOUS
<1> HIDE DEF step
<1>5. \E f : f = F(f)
  <2>1. PICK f : Solves(f, n, R, <<>>, step)
    <3> HIDE DEF n, R
    <3> QED BY <1>1, <1>3, Recursion
  <2>2. ASSUME NEW i \in 0..n
        PROVE  f[i] = IF i = 0 THEN <<>>
                      ELSE IF manifest[i] = NullDoc THEN f[i - 1]
                      ELSE Append(f[i - 1], manifest[i])
    <3>1. CASE i = 0
      BY <2>1, <3>1 DEF Solves
    <3>2. CASE i # 0
      <4>1. i \in 1..n /\ i - 1 \in 0..n
        BY <1>1, <3>2
      <4>2. f[i - 1] \in R /\ f[i] = step[<<i, f[i - 1]>>]
        BY <2>1, <4>1 DEF Solves
      <4> QED BY <1>4, <3>2, <4>1, <4>2
    <3> QED BY <3>1, <3>2
  <2>3. f = F(f)
    BY <2>1, <2>2 DEF Solves
  <2> QED BY <2>3
<1>6. kept = F(kept)
  BY <1>5
<1> HIDE DEF kept
<1>7. ASSUME NEW i \in 0..n
      PROVE  kept[i] = IF i = 0 THEN <<>>
                       ELSE IF manifest[i] = NullDoc THEN kept[i - 1]
                       ELSE Append(kept[i - 1], manifest[i])
  BY <1>6
<1> HIDE DEF F
<1> DEFINE Upto(k) == {manifest[i] : i \in 1..k} \ {NullDoc}
           S == {k \in 0..n : kept[k] \in R /\ Range(kept[k]) = Upto(k)}
<1>8. 0 \in S
  <2>1. kept[0] = <<>> /\ 0 \in 0..n
    BY <1>0, <1>7
  <2>2. Range(<<>>) = {} /\ Upto(0) = {}
    BY DEF Range
  <2> QED BY <1>3, <2>1, <2>2
<1> HIDE DEF n
<1>9. ASSUME NEW k \in 0..(n - 1), k \in S PROVE k + 1 \in S
  <2>1. k + 1 \in 1..n /\ k + 1 \in 0..n /\ k + 1 # 0 /\ (k + 1) - 1 = k
    BY <1>0
  <2>2. kept[k] \in R /\ Range(kept[k]) = Upto(k)
    BY <1>9
  <2>3. {manifest[i] : i \in 1..(k + 1)} = {manifest[i] : i \in 1..k} \union {manifest[k + 1]}
    <3>1. 1..(k + 1) = (1..k) \union {k + 1}
      BY <1>0
    <3> QED BY <3>1
  <2>4. CASE manifest[k + 1] = NullDoc
    <3>1. kept[k + 1] = kept[k]
      BY <1>7, <2>1, <2>4
    <3>2. Upto(k + 1) = Upto(k)
      BY <2>3, <2>4
    <3> HIDE DEF Upto
    <3> QED BY <2>1, <2>2, <3>1, <3>2
  <2>5. CASE manifest[k + 1] # NullDoc
    <3> DEFINE d == manifest[k + 1]
    <3>1. kept[k + 1] = Append(kept[k], d) /\ d \in Range(manifest)
      BY <1>1, <1>7, <2>1, <2>5
    <3>2. Upto(k + 1) = Upto(k) \union {d}
      BY <2>3, <2>5
    <3> HIDE DEF Upto, d
    <3>3. /\ Append(kept[k], d) \in R
          /\ Len(Append(kept[k], d)) = Len(kept[k]) + 1 /\ Len(kept[k]) \in Nat
          /\ \A i \in 1..Len(kept[k]) : Append(kept[k], d)[i] = kept[k][i]
          /\ Append(kept[k], d)[Len(kept[k]) + 1] = d
          /\ DOMAIN kept[k] = 1..Len(kept[k])
          /\ DOMAIN Append(kept[k], d) = 1..(Len(kept[k]) + 1)
      BY <2>2, <3>1, AppendProperties, LenProperties
    <3>4. Range(Append(kept[k], d)) = Range(kept[k]) \union {d}
      <4>1. 1..(Len(kept[k]) + 1) = (1..Len(kept[k])) \union {Len(kept[k]) + 1}
        BY <3>3
      <4> QED BY <3>3, <4>1 DEF Range
    <3> QED BY <2>1, <2>2, <3>1, <3>2, <3>3, <3>4
  <2> QED BY <2>4, <2>5
<1> HIDE DEF S
<1>10. n \in S
  <2>1. 0..n \subseteq S
    BY <1>0, <1>8, <1>9, UpTo
  <2> QED BY <1>0, <2>1
<1> QED BY <1>1, <1>2, <1>10 DEF S

-----------------------------------------------------------------------------
LEMMA OneIsSeq ==
  ASSUME NEW S, NEW x \in S
  PROVE  <<x>> \in Seq(S) /\ Len(<<x>>) = 1 /\ <<x>>[1] = x /\ <<x>> # <<>>
<1>1. Len(<<x>>) = 1 /\ Len(<<>>) = 0
  OBVIOUS
<1>2. <<x>> # <<>>
  BY <1>1
<1> QED BY <1>1, <1>2

LEMMA OneIs ==
  ASSUME NEW S, NEW s \in Seq(S), Len(s) = 1
  PROVE  s = <<s[1]>>
<1>1. s[1] \in S
  OBVIOUS
<1>2. <<s[1]>> \in Seq(S) /\ Len(<<s[1]>>) = 1 /\ <<s[1]>>[1] = s[1]
  BY <1>1, OneIsSeq
<1>3. \A i \in 1..Len(s) : s[i] = <<s[1]>>[i]
  BY <1>2
<1> QED BY <1>2, <1>3, SeqEqual

(* The provers do not know a literal to be in STRING.                       *)
Word == STRING \union {"", "plain", "default", "Namespace"}
AnyDocument == [kind : Word, ns : Word, name : Seq(Word), body : Word]

LEMMA DocumentsAny == Document \subseteq AnyDocument
<1>1. Seq(STRING) \subseteq Seq(Word)
  <2>1. STRING \subseteq Word
    BY DEF Word
  <2> QED BY <2>1, SeqMonotonic
<1> QED BY <1>1 DEF Document, AnyDocument, Word

(* What is applied can be found again: it has a name, a workload is in a    *)
(* namespace, and a namespace in none.                                      *)
Fit(d) == d \in AnyDocument /\ Named(d) /\ (d.kind \in WorkloadKinds => d.ns # "")

(* Each document goes where there is a namespace, or comes after one for    *)
(* it.                                                                      *)
Provided(todo, keys) ==
  \A i \in 1..Len(todo) :
    \/ todo[i].ns = ""
    \/ NamespaceNamed(todo[i].ns) \in keys
    \/ \E j \in 1..(i - 1) : Key(todo[j]) = NamespaceNamed(todo[i].ns)

NamespaceDoc(stack) == [kind |-> "Namespace", ns |-> "", name |-> <<stack>>, body |-> "plain"]

LEMMA NamespaceFits ==
  ASSUME NEW stack \in Word \ {""}
  PROVE  Fit(NamespaceDoc(stack)) /\ Key(NamespaceDoc(stack)) = NamespaceNamed(stack)
<1> DEFINE d == NamespaceDoc(stack)
<1>1. d.kind = "Namespace" /\ d.ns = "" /\ d.name = <<stack>> /\ d.body = "plain"
  BY DEF NamespaceDoc
<1>2. <<stack>> \in Seq(Word) /\ <<stack>> # <<>> /\ Len(<<stack>>) = 1 /\ <<stack>> # <<"">>
  <2>1. <<stack>> \in Seq(Word)
    <3>1. stack \in Word
      OBVIOUS
    <3> QED BY <3>1, OneIsSeq
  <2>2. Len(<<stack>>) = 1 /\ Len(<<>>) = 0
    OBVIOUS
  <2>3. <<stack>>[1] = stack /\ <<"">>[1] = "" /\ stack # ""
    OBVIOUS
  <2>4. <<stack>> # <<>>
    BY <2>2
  <2>5. <<stack>> # <<"">>
    BY <2>3
  <2> QED BY <2>1, <2>2, <2>4, <2>5
<1>3. d \in AnyDocument
  <2>1. "Namespace" \in Word /\ "" \in Word /\ "plain" \in Word
    BY DEF Word
  <2> QED BY <1>2, <2>1 DEF AnyDocument, NamespaceDoc
<1> HIDE DEF d
<1>4. Fit(d) /\ Key(d) = NamespaceNamed(stack)
  BY <1>1, <1>2, <1>3 DEF Fit, Named, Key, NamespaceNamed, WorkloadKinds
<1> QED BY <1>4 DEF d

LEMMA PlacedFits ==
  ASSUME NEW d \in AnyDocument, Named(d), NEW stack \in Word \ {""}
  PROVE  /\ Fit(Placed(d, stack))
         /\ d.kind = "Namespace" => Placed(d, stack) = d
<1> DEFINE e == [d EXCEPT !.ns = stack]
<1>1. e \in AnyDocument /\ e.ns = stack /\ e.kind = d.kind /\ e.name = d.name
  BY DEF AnyDocument
<1> HIDE DEF e
<1>2. CASE d.kind \in ClusterScopedKinds \/ d.ns # ""
  <2>1. d.kind \in WorkloadKinds => d.ns # ""
    BY <1>2 DEF WorkloadKinds, ClusterScopedKinds
  <2> QED BY <1>2, <2>1 DEF Placed, Fit
<1>3. CASE ~(d.kind \in ClusterScopedKinds \/ d.ns # "")
  <2>1. Placed(d, stack) = e
    BY <1>3 DEF Placed, e
  <2>2. d.kind # "Namespace"
    BY <1>3 DEF ClusterScopedKinds
  <2> QED BY <1>1, <2>1, <2>2 DEF Fit, Named
<1> QED BY <1>2, <1>3

(* What is applied of a valid manifest: all of its documents, each fit; and *)
(* each is provided for if the manifest has its namespaces in order.        *)
LEMMA PreparedRight ==
  ASSUME NEW manifest \in Manifests, ValidManifest(manifest), NEW stack \in Namespaces
  PROVE  LET todo == Prepared(manifest, stack) IN
         /\ todo \in Seq(AnyDocument)
         /\ \A e \in Range(todo) : Fit(e)
         /\ \A d \in Range(manifest) \ {NullDoc} : Placed(d, stack) \in Range(todo)
         /\ InOrderOfNamespaces(manifest, stack) => Provided(todo, {})
<1> DEFINE docs == Docs(manifest)
           placed == [i \in 1..Len(docs) |-> Placed(docs[i], stack)]
           first == <<NamespaceDoc(stack)>>
           todo == Prepared(manifest, stack)
<1>0. stack \in Word \ {""} /\ manifest \in Seq(Range(manifest))
  BY NamesAssumption, ManifestsAssumption DEF Word
<1>1. docs \in Seq(Range(manifest)) /\ Range(docs) = Range(manifest) \ {NullDoc}
  BY <1>0, DocsKept
<1>2. \A d \in Range(docs) : d \in AnyDocument /\ Named(d)
  BY <1>1, ManifestsAssumption, DocumentsAny DEF ValidManifest
<1> HIDE DEF docs
<1>3. Len(docs) \in Nat /\ Range(docs) = {docs[i] : i \in 1..Len(docs)}
  BY <1>1, LenProperties DEF Range
<1>4. ASSUME NEW i \in 1..Len(docs)
      PROVE  /\ Fit(Placed(docs[i], stack)) /\ Placed(docs[i], stack) \in AnyDocument
             /\ docs[i].kind = "Namespace" => Placed(docs[i], stack) = docs[i]
  <2>1. docs[i] \in AnyDocument /\ Named(docs[i])
    BY <1>2, <1>3
  <2> QED BY <1>0, <2>1, PlacedFits DEF Fit
<1>5. placed \in Seq(AnyDocument) /\ Len(placed) = Len(docs)
      /\ Range(placed) = {Placed(docs[i], stack) : i \in 1..Len(docs)}
  <2>1. placed \in Seq(AnyDocument)
    <3>1. \A i \in 1..Len(docs) : Placed(docs[i], stack) \in AnyDocument
      BY <1>4
    <3> QED BY <1>3, <3>1
  <2>2. Len(placed) = Len(docs) /\ DOMAIN placed = 1..Len(docs)
    BY <1>3
  <2>3. Range(placed) = {Placed(docs[i], stack) : i \in 1..Len(docs)}
    BY <2>2 DEF Range
  <2> QED BY <2>1, <2>2, <2>3
<1>6. /\ \A e \in Range(placed) : Fit(e)
      /\ \A d \in Range(manifest) \ {NullDoc} : Placed(d, stack) \in Range(placed)
  <2>1. \A d \in Range(manifest) \ {NullDoc} : Placed(d, stack) \in Range(placed)
    BY <1>1, <1>3, <1>5
  <2> QED BY <1>4, <1>5, <2>1
<1> DEFINE whole == first \o placed
<1>7. todo = IF \E d \in Range(docs) : d.kind = "Namespace" THEN placed ELSE whole
  BY DEF Prepared, NamespaceDoc, docs
<1>8. \A i \in 1..Len(docs) : placed[i] = Placed(docs[i], stack)
  OBVIOUS
<1>9. InOrderOfNamespaces(manifest, stack) =>
         \A i \in 1..Len(docs) :
           \/ placed[i].ns = ""
           \/ \E j \in 1..(i - 1) : Key(docs[j]) = NamespaceNamed(placed[i].ns)
           \/ placed[i].ns = stack /\ \A d \in Range(docs) : d.kind # "Namespace"
  BY <1>8 DEF InOrderOfNamespaces, docs
<1> HIDE DEF placed, todo
<1>10. ASSUME NEW i \in 1..Len(docs), NEW j \in 1..(i - 1), NEW ns, Key(docs[j]) = NamespaceNamed(ns)
       PROVE  j \in 1..Len(docs) /\ docs[j].kind = "Namespace" /\ Key(placed[j]) = NamespaceNamed(ns)
  <2>1. j \in 1..Len(docs)
    BY <1>3
  <2>2. docs[j].kind = "Namespace"
    BY <1>10 DEF Key, NamespaceNamed
  <2> QED BY <1>4, <1>8, <1>10, <2>1, <2>2
<1>11. CASE \E d \in Range(docs) : d.kind = "Namespace"
  <2>1. InOrderOfNamespaces(manifest, stack) => Provided(placed, {})
    BY <1>5, <1>11, <1>9, <1>10 DEF Provided
  <2> QED BY <1>5, <1>6, <1>7, <1>11, <2>1 DEF todo
<1>12. CASE ~ \E d \in Range(docs) : d.kind = "Namespace"
  <2>0. Fit(NamespaceDoc(stack)) /\ NamespaceDoc(stack) \in AnyDocument /\ NamespaceDoc(stack).ns = ""
    BY <1>0, NamespaceFits DEF Fit, NamespaceDoc
  <2>1. first \in Seq(AnyDocument) /\ Len(first) = 1 /\ first[1] = NamespaceDoc(stack)
    <3> HIDE DEF whole
    <3>1. first \in Seq(AnyDocument)
      <4>1. NamespaceDoc(stack) \in AnyDocument
        BY <2>0
      <4> QED BY <4>1
    <3>2. Len(first) = 1 /\ first[1] = NamespaceDoc(stack)
      OBVIOUS
    <3> QED BY <3>1, <3>2
  <2> HIDE DEF first
  <2>2. /\ whole \in Seq(AnyDocument) /\ Len(whole) = 1 + Len(placed) /\ Len(placed) \in Nat
        /\ \A i \in 1..(1 + Len(placed)) : whole[i] = IF i <= 1 THEN first[i] ELSE placed[i - 1]
    <3>1. /\ whole \in Seq(AnyDocument) /\ Len(whole) = Len(first) + Len(placed)
          /\ \A i \in 1..(Len(first) + Len(placed)) :
               whole[i] = IF i <= Len(first) THEN first[i] ELSE placed[i - Len(first)]
      BY <1>5, <2>1, ConcatProperties
    <3> QED BY <1>3, <1>5, <2>1, <3>1
  <2> HIDE DEF whole
  <2>3. Range(whole) = {NamespaceDoc(stack)} \union Range(placed)
    <3>1. /\ DOMAIN whole = 1..(1 + Len(placed)) /\ DOMAIN placed = 1..Len(placed)
      BY <1>5, <2>2, LenProperties
    <3>2. whole[1] = NamespaceDoc(stack) /\ 1 \in DOMAIN whole
      BY <2>1, <2>2, <3>1
    <3>3. \A i \in DOMAIN placed : i + 1 \in DOMAIN whole /\ whole[i + 1] = placed[i]
      BY <2>2, <3>1
    <3>4. \A i \in DOMAIN whole : i = 1 \/ (i - 1 \in DOMAIN placed /\ whole[i] = placed[i - 1])
      BY <2>2, <3>1
    <3> QED BY <3>2, <3>3, <3>4 DEF Range
  <2>4. ASSUME InOrderOfNamespaces(manifest, stack), NEW i \in 1..(1 + Len(docs)), whole[i].ns # ""
        PROVE  \E j \in 1..(i - 1) : Key(whole[j]) = NamespaceNamed(whole[i].ns)
    <3>1. i # 1
      <4>1. 1 \in 1..(1 + Len(placed)) /\ whole[1] = NamespaceDoc(stack)
        BY <2>1, <2>2
      <4>2. whole[1].ns = ""
        BY <2>0, <4>1
      <4> QED BY <2>4, <4>2
    <3>2. i - 1 \in 1..Len(docs) /\ whole[i] = placed[i - 1]
      BY <1>3, <1>5, <2>2, <3>1
    <3>3. whole[i].ns = stack
      <4>1. \A j \in 1..((i - 1) - 1) : Key(docs[j]) # NamespaceNamed(placed[i - 1].ns)
        <5> SUFFICES ASSUME NEW j \in 1..((i - 1) - 1), Key(docs[j]) = NamespaceNamed(placed[i - 1].ns)
                     PROVE  FALSE
          OBVIOUS
        <5>1. j \in 1..Len(docs) /\ docs[j].kind = "Namespace"
          BY <1>10, <3>2
        <5> QED BY <1>3, <1>12, <5>1
      <4> QED BY <1>9, <2>4, <3>2, <4>1
    <3>4. 1 \in 1..(i - 1) /\ whole[1] = NamespaceDoc(stack)
      BY <1>3, <2>1, <2>2, <3>1
    <3>5. Key(NamespaceDoc(stack)) = NamespaceNamed(stack)
      BY <1>0, NamespaceFits
    <3> QED BY <3>3, <3>4, <3>5
  <2>5. todo = whole
    BY <1>7, <1>12
  <2>7. InOrderOfNamespaces(manifest, stack) => Provided(whole, {})
    BY <1>5, <2>2, <2>4 DEF Provided
  <2>6. /\ todo \in Seq(AnyDocument)
        /\ \A e \in Range(todo) : Fit(e)
        /\ \A d \in Range(manifest) \ {NullDoc} : Placed(d, stack) \in Range(todo)
        /\ InOrderOfNamespaces(manifest, stack) => Provided(todo, {})
    BY <1>6, <2>0, <2>2, <2>3, <2>5, <2>7
  <2> QED BY <2>6 DEF todo
<1> QED BY <1>11, <1>12

-----------------------------------------------------------------------------
(* The objects of the API server: each under a key of its own, in a         *)
(* namespace that exists.                                                   *)
Keys == {Key(o) : o \in objects}

ObjInv ==
  /\ IsFiniteSet(objects) /\ \A o \in objects : Fit(o)
  /\ \A o, p \in objects : Key(o) = Key(p) => o = p
  /\ \A o \in objects : o.ns # "" => NamespaceNamed(o.ns) \in Keys

LEMMA HeldKeys == \A k : Held(k) <=> k \in Keys
  BY DEF Held, Keys

LEMMA KeyParts ==
  ASSUME NEW o, NEW p, Key(o) = Key(p)
  PROVE  o.kind = p.kind /\ o.ns = p.ns /\ o.name = p.name
BY DEF Key

LEMMA ObjectsCreate ==
  ASSUME ObjInv, NEW d, Fit(d), ~Held(Key(d)), Admits(d), objects' = objects \union {d}
  PROVE  ObjInv' /\ Keys' = Keys \union {Key(d)}
<1>1. Keys' = Keys \union {Key(d)}
  BY DEF Keys
<1>2. Key(d) \notin Keys /\ (d.ns # "" => NamespaceNamed(d.ns) \in Keys)
  BY HeldKeys DEF Admits
<1>3. IsFiniteSet(objects')
  BY FS_AddElement DEF ObjInv
<1>4. \A o, p \in objects' : Key(o) = Key(p) => o = p
  BY <1>2 DEF ObjInv, Keys
<1>5. \A o \in objects' : Fit(o) /\ (o.ns # "" => NamespaceNamed(o.ns) \in Keys')
  BY <1>1, <1>2 DEF ObjInv
<1> QED BY <1>1, <1>3, <1>4, <1>5 DEF ObjInv

LEMMA ObjectsPatch ==
  ASSUME ObjInv, NEW d, Fit(d), Held(Key(d)),
         objects' = {o \in objects : Key(o) # Key(d)} \union {d}
  PROVE  ObjInv' /\ Keys' = Keys
<1>1. PICK q \in objects : Key(q) = Key(d)
  BY DEF Held
<1>2. Keys' = Keys
  BY <1>1 DEF Keys
<1>3. q.ns = d.ns
  BY <1>1, KeyParts
<1>4. IsFiniteSet(objects')
  <2>1. IsFiniteSet({o \in objects : Key(o) # Key(d)})
    BY FS_Subset DEF ObjInv
  <2> QED BY <2>1, FS_AddElement
<1>5. \A o, p \in objects' : Key(o) = Key(p) => o = p
  BY DEF ObjInv
<1>6. \A o \in objects' : Fit(o) /\ (o.ns # "" => NamespaceNamed(o.ns) \in Keys')
  BY <1>1, <1>2, <1>3 DEF ObjInv
<1> QED BY <1>2, <1>4, <1>5, <1>6 DEF ObjInv

(* What is deleted goes with all that is in it, and no namespace goes but   *)
(* the one that is deleted.                                                 *)
LEMMA ObjectsDelete ==
  ASSUME ObjInv, NEW o \in objects,
         objects' = {p \in objects \ {o} : o.kind = "Namespace" => p.ns # o.name[1]}
  PROVE  /\ ObjInv'
         /\ o.kind # "Namespace" => \A ns : NamespaceNamed(ns) \in Keys => NamespaceNamed(ns) \in Keys'
<1>1. IsFiniteSet(objects') /\ objects' \subseteq objects
  BY FS_Subset DEF ObjInv
<1>2. o.kind = "Namespace" => o.name[1] # "" /\ o.name = <<o.name[1]>>
  <2> SUFFICES ASSUME o.kind = "Namespace" PROVE o.name[1] # "" /\ o.name = <<o.name[1]>>
    OBVIOUS
  <2>1. o.name \in Seq(Word) /\ Len(o.name) = 1 /\ o.name # <<"">>
    BY DEF ObjInv, Fit, AnyDocument, Named
  <2>2. o.name = <<o.name[1]>>
    BY <2>1, OneIs
  <2>3. o.name[1] # ""
    BY <2>1, <2>2
  <2> QED BY <2>2, <2>3
<1>3. ASSUME NEW ns, NamespaceNamed(ns) \in Keys, NamespaceNamed(ns) \notin Keys'
      PROVE  o.kind = "Namespace" /\ ns = o.name[1]
  <2>1. PICK q \in objects : Key(q) = NamespaceNamed(ns)
    BY <1>3 DEF Keys
  <2>2. q.kind = "Namespace" /\ q.ns = "" /\ q.name = <<ns>>
    BY <2>1 DEF Key, NamespaceNamed
  <2>3. q \notin objects'
    BY <1>3, <2>1 DEF Keys
  <2>4. q = o
    BY <1>2, <2>2, <2>3
  <2>5. <<ns>>[1] = ns
    OBVIOUS
  <2> QED BY <2>2, <2>4, <2>5
<1>4. ASSUME NEW p \in objects', p.ns # "" PROVE NamespaceNamed(p.ns) \in Keys'
  <2>1. NamespaceNamed(p.ns) \in Keys
    BY <1>1, <1>4 DEF ObjInv
  <2>2. o.kind = "Namespace" => p.ns # o.name[1]
    OBVIOUS
  <2> QED BY <1>3, <2>1, <2>2
<1> QED BY <1>1, <1>3, <1>4 DEF ObjInv

-----------------------------------------------------------------------------
(* A pod leads back to the workload that runs it; another pod to none, or,  *)
(* of a ReplicaSet by itself, to the Deployment its name is cut to.         *)
Owner == [kind : Word \union WorkloadKinds \union {"ReplicaSet", "Job"}, name : Seq(Word)]
Pod == [ns : Word, owner : Owner \union {NullDoc},
        phase : {"Pending", "Running", "Succeeded", "Failed"},
        runs : (Word \union WorkloadKinds \union {"ReplicaSet", "Job", "Pod"}) \X Word \X Seq(Word)]

Traced(p) ==
  \/ PodOwnerWorkload(p) = NullDoc /\ p.runs[1] \notin WorkloadKinds
  \/ /\ PodOwnerWorkload(p) # NullDoc /\ p.runs[1] \in WorkloadKinds
     /\ MapPodTask(p).serviceId = p.runs
  \/ /\ PodOwnerWorkload(p) # NullDoc /\ p.runs[1] = "ReplicaSet"
     /\ PodOwnerWorkload(p).kind = "Deployment"
     /\ PodOwnerWorkload(p).name \in {p.runs[3], Front(p.runs[3])}

PodInv == \A p \in pods : p \in Pod /\ Traced(p)

LEMMA FrontAppend ==
  ASSUME NEW S, NEW s \in Seq(S), NEW x \in S
  PROVE  Len(Append(s, x)) = Len(s) + 1 /\ Front(Append(s, x)) = s
<1> DEFINE t == Append(s, x)
<1>1. /\ t \in Seq(S) /\ Len(t) = Len(s) + 1 /\ Len(s) \in Nat
      /\ \A i \in 1..Len(s) : t[i] = s[i] /\ t[i] \in S
  OBVIOUS
<1> HIDE DEF t
<1>2. Len(t) - 1 = Len(s)
  BY <1>1
<1>3. /\ SubSeq(t, 1, Len(s)) \in Seq(S) /\ Len(SubSeq(t, 1, Len(s))) = Len(s)
      /\ \A i \in 1..Len(s) : SubSeq(t, 1, Len(s))[i] = t[1 + i - 1]
  <2>1. 1 \in Int /\ Len(s) \in Int /\ \A i \in 1..Len(s) : t[i] \in S
    BY <1>1
  <2>2. /\ SubSeq(t, 1, Len(s)) \in Seq(S)
        /\ Len(SubSeq(t, 1, Len(s))) = IF 1 <= Len(s) THEN Len(s) - 1 + 1 ELSE 0
        /\ \A i \in 1..(Len(s) - 1 + 1) : SubSeq(t, 1, Len(s))[i] = t[1 + i - 1]
    BY <2>1, SubSeqProperties
  <2> QED BY <1>1, <2>2
<1>4. \A i \in 1..Len(s) : SubSeq(t, 1, Len(s))[i] = s[i]
  BY <1>1, <1>3
<1>5. SubSeq(t, 1, Len(s)) = s
  BY <1>3, <1>4, SeqEqual
<1>6. Front(t) = s
  BY <1>2, <1>5 DEF Front
<1> QED BY <1>1, <1>6 DEF t

LEMMA PodStarts ==
  ASSUME ObjInv, PodInv, StartPod
  PROVE  PodInv'
<1>1. PICK o \in objects, h \in Hashes :
        /\ o.kind \in WorkloadKinds
        /\ LET owner == IF o.kind = "Deployment"
                         THEN [kind |-> "ReplicaSet", name |-> Append(o.name, h)]
                         ELSE [kind |-> o.kind, name |-> o.name]
           IN pods' = pods \union {[ns |-> o.ns, owner |-> owner, phase |-> "Pending", runs |-> Key(o)]}
  BY DEF StartPod
<1> DEFINE owner == IF o.kind = "Deployment"
                      THEN [kind |-> "ReplicaSet", name |-> Append(o.name, h)]
                      ELSE [kind |-> o.kind, name |-> o.name]
           pod == [ns |-> o.ns, owner |-> owner, phase |-> "Pending", runs |-> Key(o)]
<1>2. o.ns \in Word /\ o.name \in Seq(Word) /\ o.name # <<>> /\ h \in Word /\ o.kind \in Word
  <2>1. h \in Word
    BY NamesAssumption DEF Word
  <2> QED BY <2>1 DEF ObjInv, Fit, AnyDocument, Named
<1>3. /\ Append(o.name, h) \in Seq(Word) /\ Len(Append(o.name, h)) = Len(o.name) + 1
      /\ Len(o.name) \in Nat /\ Len(o.name) # 0 /\ Front(Append(o.name, h)) = o.name
  BY <1>2, FrontAppend
<1>4. owner \in Owner
  BY <1>1, <1>2, <1>3 DEF Owner
<1>5. PodOwnerWorkload(pod).kind = o.kind /\ PodOwnerWorkload(pod).name = o.name
  <2>1. CASE o.kind = "Deployment"
    <3>1. pod.owner.kind = "ReplicaSet" /\ pod.owner.name = Append(o.name, h)
      BY <2>1
    <3>2. Len(Append(o.name, h)) > 1
      BY <1>3
    <3> HIDE DEF pod
    <3> QED BY <1>3, <2>1, <3>1, <3>2 DEF PodOwnerWorkload
  <2>2. CASE o.kind # "Deployment"
    <3>1. /\ pod.owner = [kind |-> o.kind, name |-> o.name]
          /\ o.kind \in {"StatefulSet", "DaemonSet"}
      BY <1>1, <2>2 DEF WorkloadKinds
    <3> HIDE DEF pod
    <3> QED BY <3>1 DEF PodOwnerWorkload
  <2> QED BY <2>1, <2>2
<1>6. pod \in Pod
  BY <1>2, <1>4 DEF Pod, Key
<1>7. pod.ns = o.ns /\ pod.runs = Key(o)
  OBVIOUS
<1>8. pods' = pods \union {pod}
  BY <1>1
<1> HIDE DEF pod, owner
<1>9. Traced(pod)
  <2>1. PodOwnerWorkload(pod) # NullDoc
    BY <1>1, <1>5 DEF NullDoc, WorkloadKinds
  <2>2. MapPodTask(pod).serviceId = pod.runs
    BY <1>5, <1>7, <2>1 DEF MapPodTask, WorkloadId, Key
  <2>3. pod.runs[1] = o.kind
    BY <1>7 DEF Key
  <2> QED BY <1>1, <2>1, <2>2, <2>3 DEF Traced
<1> QED BY <1>6, <1>8, <1>9 DEF PodInv

LEMMA StraysStart ==
  ASSUME ObjInv, PodInv, StartStray
  PROVE  PodInv'
<1>1. PICK n \in objects, owner \in Strays :
        /\ n.kind = "Namespace"
        /\ pods' = pods \union {[ns |-> n.name[1], owner |-> owner, phase |-> "Pending",
               runs |-> IF owner = NullDoc THEN <<"Pod", n.name[1], <<>>>>
                        ELSE <<owner.kind, n.name[1], owner.name>>]}
  BY DEF StartStray
<1> DEFINE ns == n.name[1]
           runs == IF owner = NullDoc THEN <<"Pod", ns, <<>>>> ELSE <<owner.kind, ns, owner.name>>
           pod == [ns |-> ns, owner |-> owner, phase |-> "Pending", runs |-> runs]
<1>2. ns \in Word
  <2>1. n.name \in Seq(Word) /\ Len(n.name) = 1
    BY <1>1 DEF ObjInv, Fit, AnyDocument, Named
  <2> QED BY <2>1
<1>3. CASE owner = NullDoc
  <2>1. <<>> \in Seq(Word)
    BY EmptySeq
  <2>2. pod.ns = ns /\ pod.owner = NullDoc /\ pod.phase = "Pending" /\ pod.runs = <<"Pod", ns, <<>>>>
    BY <1>3
  <2>3. pod \in Pod
    BY <1>2, <1>3, <2>1 DEF Pod
  <2> HIDE DEF pod
  <2>4. PodOwnerWorkload(pod) = NullDoc /\ pod.runs[1] \notin WorkloadKinds
    BY <2>2 DEF PodOwnerWorkload, NullDoc, WorkloadKinds
  <2>5. pods' = pods \union {pod}
    BY <1>1 DEF pod
  <2> QED BY <2>3, <2>4, <2>5 DEF PodInv, Traced
<1>4. CASE owner # NullDoc
  <2>1. owner \in [kind : {"ReplicaSet", "Job"}, name : Seq(STRING) \ {<<>>}]
    BY <1>4, StraysAssumption
  <2>2. owner.kind \in {"ReplicaSet", "Job"} /\ owner.name \in Seq(Word)
    <3>1. Seq(STRING) \subseteq Seq(Word)
      <4>1. STRING \subseteq Word
        BY DEF Word
      <4> QED BY <4>1, SeqMonotonic
    <3> QED BY <2>1, <3>1
  <2>3. owner = [kind |-> owner.kind, name |-> owner.name]
    BY <2>1
  <2>4. owner \in Owner
    BY <2>2, <2>3 DEF Owner
  <2>5. /\ pod.ns = ns /\ pod.owner = owner /\ pod.runs[1] = owner.kind
        /\ pod.runs[2] = ns /\ pod.runs[3] = owner.name
    BY <1>4
  <2>6. pod \in Pod
    BY <1>2, <1>4, <2>2, <2>4 DEF Pod
  <2>7. pods' = pods \union {pod}
    BY <1>1
  <2> HIDE DEF pod, runs
  <2>8. CASE owner.kind = "ReplicaSet"
    <3> DEFINE w == [kind |-> "Deployment",
                     name |-> IF Len(owner.name) > 1 THEN Front(owner.name) ELSE owner.name]
    <3>1. PodOwnerWorkload(pod) = w
      BY <2>5, <2>8 DEF PodOwnerWorkload
    <3>2. w.kind = "Deployment" /\ w.name \in {owner.name, Front(owner.name)}
      OBVIOUS
    <3> HIDE DEF w
    <3>3. w # NullDoc
      BY <3>2 DEF NullDoc
    <3>4. Traced(pod)
      BY <2>5, <2>8, <3>1, <3>2, <3>3 DEF Traced
    <3> QED BY <2>6, <2>7, <3>4 DEF PodInv
  <2>9. CASE owner.kind = "Job"
    <3>1. PodOwnerWorkload(pod) = NullDoc /\ pod.runs[1] \notin WorkloadKinds
      BY <2>5, <2>9 DEF PodOwnerWorkload, WorkloadKinds
    <3>2. Traced(pod)
      BY <3>1 DEF Traced
    <3> QED BY <2>6, <2>7, <3>2 DEF PodInv
  <2> QED BY <2>2, <2>8, <2>9
<1> QED BY <1>3, <1>4

LEMMA PodMoves ==
  ASSUME PodInv, PodPhase
  PROVE  PodInv'
<1>1. PICK p \in pods, phase \in {"Running", "Succeeded", "Failed", "gone"} :
        pods' = (pods \ {p}) \union
                 (IF phase = "gone" THEN {} ELSE {[p EXCEPT !.phase = phase]})
  BY DEF PodPhase
<1>2. p \in Pod /\ Traced(p)
  BY DEF PodInv
<1> DEFINE q == [p EXCEPT !.phase = phase]
<1>3. CASE phase # "gone"
  <2>1. q \in Pod /\ q.ns = p.ns /\ q.owner = p.owner /\ q.runs = p.runs
    BY <1>2, <1>3 DEF Pod
  <2> HIDE DEF q
  <2>2. Traced(q)
    <3>1. PodOwnerWorkload(q) = PodOwnerWorkload(p)
      BY <2>1 DEF PodOwnerWorkload
    <3>2. MapPodTask(q).serviceId = MapPodTask(p).serviceId
      BY <2>1, <3>1 DEF MapPodTask
    <3> QED BY <1>2, <2>1, <3>1, <3>2 DEF Traced
  <2>3. pods' = (pods \ {p}) \union {q}
    BY <1>1, <1>3 DEF q
  <2> QED BY <2>1, <2>2, <2>3 DEF PodInv
<1>4. CASE phase = "gone"
  BY <1>1, <1>4 DEF PodInv
<1> QED BY <1>3, <1>4

-----------------------------------------------------------------------------
(* The applies.  What is asked for is done or still to do; while a manifest *)
(* has its namespaces in order and none was deleted, what is still to do is *)
(* provided for.                                                            *)
Apply == [pc : {"idle", "create", "patch", "true", "error"}, asked : Manifests \union {<<>>},
          todo : Seq(AnyDocument), done : SUBSET (Word \X Word \X Seq(Word)),
          refused : BOOLEAN, swept : BOOLEAN, stack : Word \union {"none"}]

Covered(a) ==
  a.pc \in {"create", "patch", "true"} =>
    \A d \in Range(a.asked) \ {NullDoc} :
      Key(Placed(d, a.stack)) \in a.done \/ Placed(d, a.stack) \in Range(a.todo)

Proper(a) ==
  /\ a \in Apply /\ \A e \in Range(a.todo) : Fit(e)
  /\ a.pc = "patch" => a.todo # <<>>
  /\ a.pc = "true" => a.todo = <<>>
  /\ Covered(a)
  /\ a.refused => a.swept \/ ~InOrderOfNamespaces(a.asked, a.stack)

Roomy(a, keys) ==
  a.pc \in {"create", "patch"} /\ ~a.swept /\ InOrderOfNamespaces(a.asked, a.stack) =>
    Provided(a.todo, keys)

LEMMA ProvidedMore ==
  ASSUME NEW todo, NEW keys, NEW more, Provided(todo, keys),
         \A ns : NamespaceNamed(ns) \in keys => NamespaceNamed(ns) \in more
  PROVE  Provided(todo, more)
BY DEF Provided

(* What is next to go leaves the rest provided for.                         *)
LEMMA ProvidedTail ==
  ASSUME NEW S, NEW s \in Seq(S), s # <<>>, NEW keys, Key(Head(s)) \in keys, Provided(s, keys)
  PROVE  Provided(Tail(s), keys)
<1>1. /\ Len(s) \in Nat \ {0} /\ Head(s) = s[1] /\ Len(Tail(s)) = Len(s) - 1
      /\ \A i \in 1..(Len(s) - 1) : Tail(s)[i] = s[i + 1]
  <2>1. Len(s) \in Nat \ {0}
    BY EmptySeq, LenProperties
  <2>2. Len(Tail(s)) = Len(s) - 1 /\ \A i \in 1..Len(Tail(s)) : Tail(s)[i] = s[i + 1]
    BY HeadTailProperties
  <2>3. Head(s) = s[1]
    OBVIOUS
  <2> QED BY <2>1, <2>2, <2>3
<1> DEFINE t == Tail(s)
           n == Len(s)
<1>2. Len(t) = n - 1 /\ n \in Nat /\ \A i \in 1..(n - 1) : t[i] = s[i + 1]
  BY <1>1
<1>3. \A i \in 1..n : \/ s[i].ns = "" \/ NamespaceNamed(s[i].ns) \in keys
                      \/ \E j \in 1..(i - 1) : Key(s[j]) = NamespaceNamed(s[i].ns)
  BY DEF Provided
<1>4. Key(s[1]) \in keys
  BY <1>1
<1> HIDE DEF t, n
<1>5. ASSUME NEW i \in 1..(n - 1), t[i].ns # "", NamespaceNamed(t[i].ns) \notin keys
      PROVE  \E j \in 1..(i - 1) : Key(t[j]) = NamespaceNamed(t[i].ns)
  <2>1. i + 1 \in 1..n /\ t[i] = s[i + 1]
    BY <1>2
  <2>2. PICK j \in 1..((i + 1) - 1) : Key(s[j]) = NamespaceNamed(t[i].ns)
    BY <1>3, <1>5, <2>1
  <2>3. j # 1
    BY <1>4, <1>5, <2>2
  <2>4. j - 1 \in 1..(i - 1) /\ j - 1 \in 1..(n - 1) /\ t[j - 1] = s[(j - 1) + 1] /\ (j - 1) + 1 = j
    BY <1>2, <2>1, <2>2, <2>3
  <2> QED BY <2>2, <2>4
<1>6. Provided(t, keys)
  BY <1>2, <1>5 DEF Provided
<1> QED BY <1>6 DEF t

LEMMA RangeSplit ==
  ASSUME NEW S, NEW s \in Seq(S), s # <<>>
  PROVE  Range(s) = {Head(s)} \union Range(Tail(s))
<1>1. /\ Len(s) \in Nat \ {0} /\ DOMAIN s = 1..Len(s) /\ Head(s) = s[1]
      /\ Tail(s) \in Seq(S) /\ Len(Tail(s)) = Len(s) - 1
      /\ DOMAIN Tail(s) = 1..(Len(s) - 1)
      /\ \A i \in 1..(Len(s) - 1) : Tail(s)[i] = s[i + 1]
  <2>1. Len(s) \in Nat \ {0} /\ DOMAIN s = 1..Len(s)
    BY EmptySeq, LenProperties
  <2>2. Tail(s) \in Seq(S) /\ Len(Tail(s)) = Len(s) - 1
        /\ \A i \in 1..Len(Tail(s)) : Tail(s)[i] = s[i + 1]
    BY HeadTailProperties
  <2>3. DOMAIN Tail(s) = 1..Len(Tail(s))
    BY <2>2, LenProperties
  <2>4. Head(s) = s[1]
    OBVIOUS
  <2> QED BY <2>1, <2>2, <2>3, <2>4
<1>2. ASSUME NEW i \in DOMAIN s PROVE s[i] = Head(s) \/ s[i] \in Range(Tail(s))
  <2>1. CASE i = 1
    BY <1>1, <2>1
  <2>2. CASE i # 1
    <3>1. i - 1 \in DOMAIN Tail(s) /\ Tail(s)[i - 1] = s[i]
      BY <1>1, <2>2
    <3> QED BY <3>1 DEF Range
  <2> QED BY <2>1, <2>2
<1>3. ASSUME NEW i \in DOMAIN Tail(s) PROVE Tail(s)[i] \in Range(s)
  <2>1. i + 1 \in DOMAIN s /\ Tail(s)[i] = s[i + 1]
    BY <1>1
  <2> QED BY <2>1 DEF Range
<1>4. Head(s) \in Range(s)
  <2>1. 1 \in DOMAIN s
    BY <1>1
  <2> QED BY <1>1, <2>1 DEF Range
<1>5. Range(s) \subseteq {Head(s)} \union Range(Tail(s))
  BY <1>2 DEF Range
<1>6. Range(Tail(s)) \subseteq Range(s)
  BY <1>3 DEF Range
<1> QED BY <1>4, <1>5, <1>6

LEMMA RoomyMore ==
  ASSUME NEW a, NEW keys, NEW more, keys \subseteq more, Roomy(a, keys)
  PROVE  Roomy(a, more)
BY ProvidedMore DEF Roomy

(* One document is done.                                                    *)
LEMMA OneDone ==
  ASSUME NEW a, Proper(a), NEW keys, Roomy(a, keys), NEW more, keys \subseteq more,
         a.pc \in {"create", "patch"}, a.todo # <<>>, Key(Head(a.todo)) \in more,
         NEW b, b = [a EXCEPT !.pc = "create", !.todo = Tail(@),
                              !.done = @ \union {Key(Head(a.todo))}]
  PROVE  Proper(b) /\ Roomy(b, more)
<1>1. a \in Apply /\ a.todo \in Seq(AnyDocument) /\ \A e \in Range(a.todo) : Fit(e)
  BY DEF Proper, Apply
<1>2. Range(a.todo) = {Head(a.todo)} \union Range(Tail(a.todo))
  BY <1>1, RangeSplit
<1>3. Head(a.todo) \in AnyDocument /\ Tail(a.todo) \in Seq(AnyDocument)
  BY <1>1, HeadTailProperties
<1>4. Key(Head(a.todo)) \in Word \X Word \X Seq(Word)
  BY <1>3 DEF AnyDocument, Key
<1>5. /\ b \in Apply /\ b.pc = "create" /\ b.todo = Tail(a.todo)
      /\ b.done = a.done \union {Key(Head(a.todo))}
      /\ b.asked = a.asked /\ b.refused = a.refused /\ b.swept = a.swept /\ b.stack = a.stack
  BY <1>1, <1>3, <1>4 DEF Apply
<1>6. Covered(b)
  BY <1>2, <1>5 DEF Proper, Covered
<1>7. Proper(b)
  <2>1. \A e \in Range(b.todo) : Fit(e)
    BY <1>1, <1>2, <1>5
  <2>2. b.refused => b.swept \/ ~InOrderOfNamespaces(b.asked, b.stack)
    BY <1>5 DEF Proper
  <2> QED BY <1>5, <1>6, <2>1, <2>2 DEF Proper
<1>8. Roomy(b, more)
  <2> SUFFICES ASSUME ~b.swept, InOrderOfNamespaces(b.asked, b.stack)
               PROVE  Provided(b.todo, more)
    BY DEF Roomy
  <2>1. Provided(a.todo, keys)
    BY <1>5 DEF Roomy
  <2>2. Provided(a.todo, more)
    BY <2>1, ProvidedMore
  <2> QED BY <1>1, <1>5, <2>2, ProvidedTail
<1> QED BY <1>7, <1>8

LEMMA IdleApply ==
  /\ ApplyIdle \in Apply /\ ApplyIdle.pc = "idle" /\ ApplyIdle.asked = <<>> /\ ApplyIdle.todo = <<>>
  /\ ApplyIdle.done = {} /\ ApplyIdle.refused = FALSE
<1>1. <<>> \in Seq(AnyDocument)
  BY EmptySeq
<1> QED BY <1>1 DEF ApplyIdle, Apply

LEMMA Begun ==
  ASSUME NEW stack \in Namespaces, NEW manifest \in Manifests, NEW keys,
         NEW b, b = IF ValidManifest(manifest)
                      THEN [ApplyIdle EXCEPT !.pc = "create", !.stack = stack,
                             !.asked = manifest, !.todo = Prepared(manifest, stack)]
                      ELSE [ApplyIdle EXCEPT !.pc = "error"]
  PROVE  Proper(b) /\ Roomy(b, keys)
<1>0. stack \in Word /\ stack \in Word \ {""} /\ <<>> \in Seq(AnyDocument)
  <2>1. stack \in STRING \ {""}
    BY NamesAssumption
  <2>2. STRING \ {""} \subseteq Word \ {""}
    BY DEF Word
  <2>3. <<>> \in Seq(AnyDocument)
    BY EmptySeq
  <2> QED BY <2>1, <2>2, <2>3
<1>1. CASE ValidManifest(manifest)
  <2> DEFINE todo == Prepared(manifest, stack)
  <2>1. /\ todo \in Seq(AnyDocument)
        /\ \A e \in Range(todo) : Fit(e)
        /\ \A d \in Range(manifest) \ {NullDoc} : Placed(d, stack) \in Range(todo)
        /\ InOrderOfNamespaces(manifest, stack) => Provided(todo, {})
    BY <1>1, PreparedRight
  <2> HIDE DEF todo
  <2>2. b = [ApplyIdle EXCEPT !.pc = "create", !.stack = stack, !.asked = manifest, !.todo = todo]
    BY <1>1 DEF todo
  <2>3. b \in Apply
    BY <1>0, <2>1, <2>2, IdleApply DEF Apply
  <2>4. /\ b.pc = "create" /\ b.asked = manifest /\ b.todo = todo /\ b.done = {}
        /\ b.refused = FALSE /\ b.stack = stack
    BY <2>2, IdleApply DEF Apply
  <2>5. Covered(b)
    BY <2>1, <2>4 DEF Covered
  <2>6. Proper(b)
    BY <2>1, <2>3, <2>4, <2>5 DEF Proper
  <2>8. Roomy(b, keys)
    <3>1. InOrderOfNamespaces(manifest, stack) => Provided(todo, keys)
      BY <2>1, ProvidedMore
    <3> QED BY <2>4, <3>1 DEF Roomy
  <2> QED BY <2>6, <2>8
<1>2. CASE ~ValidManifest(manifest)
  <2>1. b = [ApplyIdle EXCEPT !.pc = "error"]
    BY <1>2
  <2>2. b \in Apply
    BY <2>1, IdleApply DEF Apply
  <2>3. Range(<<>>) = {}
    BY DEF Range
  <2>4. b.pc = "error" /\ b.todo = <<>> /\ b.refused = FALSE
    BY <2>1, IdleApply DEF Apply
  <2> QED BY <2>2, <2>3, <2>4 DEF Proper, Covered, Roomy
<1> QED BY <1>1, <1>2

KInv ==
  /\ ObjInv /\ PodInv /\ apply \in [Applies -> Apply]
  /\ \A r \in Applies : Proper(apply[r]) /\ Roomy(apply[r], Keys)

LEMMA KInvInit == KubeInit => KInv
<1> SUFFICES ASSUME KubeInit PROVE KInv
  OBVIOUS
<1>1. objects = {NamespaceDoc("default")} /\ pods = {} /\ apply = [r \in Applies |-> ApplyIdle]
  BY DEF KubeInit, NamespaceDoc
<1>2. "default" \in Word \ {""}
  BY DEF Word
<1>3. Fit(NamespaceDoc("default")) /\ NamespaceDoc("default").ns = ""
  BY <1>2, NamespaceFits DEF NamespaceDoc
<1>4. ObjInv
  BY <1>1, <1>3, FS_Singleton DEF ObjInv
<1>5. PodInv
  BY <1>1 DEF PodInv
<1>6. Proper(ApplyIdle) /\ Roomy(ApplyIdle, Keys)
  <2>1. Range(<<>>) = {}
    BY DEF Range
  <2> QED BY <2>1, IdleApply DEF Proper, Covered, Roomy
<1>7. apply \in [Applies -> Apply] /\ \A r \in Applies : apply[r] = ApplyIdle
  BY <1>1, IdleApply
<1> QED BY <1>4, <1>5, <1>6, <1>7 DEF KInv

(* One request goes on, and no key is lost.                                 *)
LEMMA OneGoesOn ==
  ASSUME KInv, NEW r \in Applies, NEW b, SetApply(r, b), Proper(b), Roomy(b, Keys'),
         ObjInv', Keys \subseteq Keys', UNCHANGED pods
  PROVE  KInv'
<1>1. PodInv'
  BY DEF KInv, PodInv
<1>2. b \in Apply /\ apply \in [Applies -> Apply]
  BY DEF KInv, Proper
<1>3. /\ apply' \in [Applies -> Apply] /\ apply'[r] = b
      /\ \A q \in Applies \ {r} : apply'[q] = apply[q]
  BY <1>2 DEF SetApply
<1>4. ASSUME NEW q \in Applies PROVE Proper(apply'[q]) /\ Roomy(apply'[q], Keys')
  <2>1. CASE q = r
    BY <1>3, <2>1
  <2>2. CASE q # r
    <3>1. Proper(apply[q]) /\ Roomy(apply[q], Keys)
      BY DEF KInv
    <3>2. Roomy(apply[q], Keys')
      BY <3>1, RoomyMore
    <3> QED BY <1>3, <2>2, <3>1, <3>2
  <2> QED BY <2>1, <2>2
<1> QED BY <1>1, <1>3, <1>4 DEF KInv

LEMMA ApplyGoesOn ==
  ASSUME KInv, NEW r \in Applies,
         \/ BeginApply(r) \/ CreateObject(r) \/ PatchObject(r)
         \/ ApplyFails(r) \/ ApplyAnswers(r)
  PROVE  KInv'
<1> DEFINE a == apply[r]
<1>0. ObjInv /\ Proper(a) /\ Roomy(a, Keys) /\ a \in Apply
  BY DEF KInv, Proper
<1>1. UNCHANGED objects => ObjInv' /\ Keys' = Keys
  BY <1>0 DEF ObjInv, Keys
<1>2. CASE BeginApply(r)
  <2>1. PICK stack \in Namespaces, manifest \in Manifests :
          SetApply(r, IF ValidManifest(manifest)
                        THEN [ApplyIdle EXCEPT !.pc = "create", !.stack = stack,
                               !.asked = manifest, !.todo = Prepared(manifest, stack)]
                        ELSE [ApplyIdle EXCEPT !.pc = "error"])
    BY <1>2 DEF BeginApply
  <2> DEFINE b == IF ValidManifest(manifest)
                    THEN [ApplyIdle EXCEPT !.pc = "create", !.stack = stack,
                           !.asked = manifest, !.todo = Prepared(manifest, stack)]
                    ELSE [ApplyIdle EXCEPT !.pc = "error"]
  <2>2. Proper(b) /\ Roomy(b, Keys')
    BY Begun
  <2>3. SetApply(r, b)
    BY <2>1
  <2> HIDE DEF b
  <2>4. UNCHANGED <<objects, pods>>
    BY <1>2 DEF BeginApply
  <2> QED BY <1>1, <2>2, <2>3, <2>4, OneGoesOn
<1>3. ASSUME a.pc \in {"create", "patch"}, a.todo # <<>>, ApplyStep(r), UNCHANGED pods,
             ObjInv', Keys \subseteq Keys', Key(Todo(r)) \in Keys'
      PROVE  KInv'
  <2> DEFINE b == [a EXCEPT !.pc = "create", !.todo = Tail(@),
                            !.done = @ \union {Key(Head(a.todo))}]
  <2>1. SetApply(r, b)
    BY <1>3 DEF ApplyStep, Todo
  <2>2. Key(Head(a.todo)) \in Keys'
    BY <1>3 DEF Todo
  <2> HIDE DEF a
  <2>3. Proper(b) /\ Roomy(b, Keys')
    BY <1>0, <1>3, <2>2, OneDone
  <2> HIDE DEF b
  <2> QED BY <1>3, <2>1, <2>3, OneGoesOn
<1>4. a.todo # <<>> => Todo(r) = Head(a.todo) /\ Fit(Todo(r)) /\ Todo(r) \in Range(a.todo)
  <2> SUFFICES ASSUME a.todo # <<>>
               PROVE  Todo(r) = Head(a.todo) /\ Fit(Todo(r)) /\ Todo(r) \in Range(a.todo)
    OBVIOUS
  <2>1. a.todo \in Seq(AnyDocument) /\ \A e \in Range(a.todo) : Fit(e)
    BY <1>0 DEF Proper, Apply
  <2>2. Head(a.todo) \in Range(a.todo)
    BY <2>1, RangeSplit
  <2> QED BY <2>1, <2>2 DEF Todo
<1>5. CASE CreateObject(r)
  <2>1. a.pc = "create" /\ a.todo # <<>> /\ UNCHANGED pods
    BY <1>5 DEF CreateObject
  <2>2. CASE Held(Key(Todo(r)))
    <3> DEFINE b == [a EXCEPT !.pc = "patch"]
    <3>1. SetApply(r, b) /\ UNCHANGED objects
      BY <1>5, <2>2 DEF CreateObject
    <3>2. /\ b \in Apply /\ b.pc = "patch" /\ b.todo = a.todo /\ b.asked = a.asked
          /\ b.done = a.done /\ b.stack = a.stack /\ b.swept = a.swept /\ b.refused = a.refused
      BY <1>0 DEF Apply
    <3> HIDE DEF a, b
    <3>3. Proper(b) /\ Roomy(b, Keys)
      BY <1>0, <2>1, <3>2 DEF Proper, Covered, Roomy
    <3> QED BY <1>1, <2>1, <3>1, <3>3, OneGoesOn
  <2>3. CASE ~Held(Key(Todo(r)))
    <3>1. Admits(Todo(r)) /\ objects' = objects \union {Todo(r)} /\ ApplyStep(r)
      BY <1>5, <2>3 DEF CreateObject
    <3>2. ObjInv' /\ Keys' = Keys \union {Key(Todo(r))}
      BY <1>0, <1>4, <2>1, <2>3, <3>1, ObjectsCreate
    <3> QED BY <1>3, <2>1, <3>1, <3>2
  <2> QED BY <2>2, <2>3
<1>6. CASE PatchObject(r)
  <2>1. a.pc = "patch" /\ a.todo # <<>> /\ UNCHANGED pods /\ Held(Key(Todo(r))) /\ ApplyStep(r)
        /\ objects' = {o \in objects : Key(o) # Key(Todo(r))} \union {Todo(r)}
    BY <1>0, <1>6 DEF PatchObject, Proper
  <2>2. ObjInv' /\ Keys' = Keys
    BY <1>0, <1>4, <2>1, ObjectsPatch
  <2> QED BY <1>3, <2>1, <2>2, HeldKeys
<1>7. CASE ApplyFails(r)
  <2> DEFINE why == a.pc = "create" /\ ~Held(Key(Todo(r))) /\ ~Admits(Todo(r))
             b == [a EXCEPT !.pc = "error", !.todo = <<>>, !.done = {}, !.refused = why]
  <2>1. a.todo # <<>> /\ SetApply(r, b) /\ UNCHANGED <<objects, pods>>
    BY <1>7 DEF ApplyFails
  <2>2. why => a.swept \/ ~InOrderOfNamespaces(a.asked, a.stack)
    <3> SUFFICES ASSUME why, ~a.swept, InOrderOfNamespaces(a.asked, a.stack) PROVE FALSE
      OBVIOUS
    <3>1. Todo(r).ns # "" /\ NamespaceNamed(Todo(r).ns) \notin Keys
      BY HeldKeys DEF Admits
    <3>2. Provided(a.todo, Keys)
      BY <1>0 DEF Roomy
    <3>3. a.todo \in Seq(AnyDocument) /\ a.todo # <<>>
      BY <1>0, <2>1 DEF Apply
    <3>4. 1 \in 1..Len(a.todo) /\ Todo(r) = a.todo[1]
      BY <1>4, <2>1, <3>3, EmptySeq, LenProperties
    <3>5. \A j \in 1..(1 - 1) : FALSE
      OBVIOUS
    <3> HIDE DEF a
    <3> QED BY <3>1, <3>2, <3>4, <3>5 DEF Provided
  <2>3. why \in BOOLEAN
    OBVIOUS
  <2> HIDE DEF why
  <2>4. /\ b \in Apply /\ b.pc = "error" /\ b.todo = <<>> /\ b.asked = a.asked
        /\ b.swept = a.swept /\ b.refused = why /\ b.stack = a.stack
    <3>1. <<>> \in Seq(AnyDocument)
      BY EmptySeq
    <3> QED BY <1>0, <2>3, <3>1 DEF Apply
  <2>5. Range(<<>>) = {}
    BY DEF Range
  <2> HIDE DEF a, b
  <2>6. Proper(b) /\ Roomy(b, Keys)
    BY <2>2, <2>4, <2>5 DEF Proper, Covered, Roomy
  <2> QED BY <1>1, <2>1, <2>6, OneGoesOn
<1>8. CASE ApplyAnswers(r)
  <2> DEFINE b == [a EXCEPT !.pc = "true"]
  <2>1. a.pc = "create" /\ a.todo = <<>> /\ SetApply(r, b) /\ UNCHANGED <<objects, pods>>
    BY <1>8 DEF ApplyAnswers
  <2>2. /\ b \in Apply /\ b.pc = "true" /\ b.todo = a.todo /\ b.asked = a.asked
        /\ b.done = a.done /\ b.stack = a.stack /\ b.swept = a.swept /\ b.refused = a.refused
    BY <1>0 DEF Apply
  <2> HIDE DEF a, b
  <2>3. Proper(b) /\ Roomy(b, Keys)
    BY <1>0, <2>1, <2>2 DEF Proper, Covered, Roomy
  <2> QED BY <1>1, <2>1, <2>3, OneGoesOn
<1> QED BY <1>2, <1>5, <1>6, <1>7, <1>8

LEMMA KubectlKeeps ==
  ASSUME KInv, Kubectl
  PROVE  KInv'
<1>0. ObjInv /\ PodInv /\ apply \in [Applies -> Apply]
  BY DEF KInv
<1>1. PICK o \in objects :
        /\ objects' = {p \in objects \ {o} : o.kind = "Namespace" => p.ns # o.name[1]}
        /\ pods' = {p \in pods : ~(o.kind = "Namespace" /\ p.ns = o.name[1])}
        /\ apply' = [r \in Applies |->
             IF o.kind = "Namespace" THEN [apply[r] EXCEPT !.swept = TRUE] ELSE apply[r]]
  BY DEF Kubectl
<1>2. /\ ObjInv'
      /\ o.kind # "Namespace" =>
           \A ns : NamespaceNamed(ns) \in Keys => NamespaceNamed(ns) \in Keys'
  BY <1>0, <1>1, ObjectsDelete
<1>3. PodInv'
  BY <1>0, <1>1 DEF PodInv
<1>4. ASSUME NEW r \in Applies
      PROVE  apply'[r] \in Apply /\ Proper(apply'[r]) /\ Roomy(apply'[r], Keys')
  <2> DEFINE a == apply[r]
             b == [a EXCEPT !.swept = TRUE]
  <2>0. a \in Apply /\ Proper(a) /\ Roomy(a, Keys)
    BY DEF KInv, Proper
  <2>1. CASE o.kind = "Namespace"
    <3>1. apply'[r] = b
      BY <1>1, <2>1
    <3>2. /\ b \in Apply /\ b.pc = a.pc /\ b.todo = a.todo /\ b.asked = a.asked
          /\ b.done = a.done /\ b.stack = a.stack /\ b.swept = TRUE /\ b.refused = a.refused
      BY <2>0 DEF Apply
    <3> HIDE DEF a, b
    <3>3. Proper(b) /\ Roomy(b, Keys')
      BY <2>0, <3>2 DEF Proper, Covered, Roomy
    <3> QED BY <3>1, <3>2, <3>3
  <2>2. CASE o.kind # "Namespace"
    <3>1. apply'[r] = a
      BY <1>1, <2>2
    <3>2. Roomy(a, Keys')
      BY <1>2, <2>0, <2>2, ProvidedMore DEF Roomy
    <3> QED BY <2>0, <3>1, <3>2
  <2> QED BY <2>1, <2>2
<1>5. apply' \in [Applies -> Apply]
  <2>1. apply' = [r \in Applies |-> apply'[r]]
    BY <1>1
  <2> QED BY <1>4, <2>1
<1> QED BY <1>2, <1>3, <1>4, <1>5 DEF KInv

LEMMA KInvNext == KInv /\ [KubeNext]_kubeVars => KInv'
<1> SUFFICES ASSUME KInv, [KubeNext]_kubeVars PROVE KInv'
  OBVIOUS
<1>1. ASSUME UNCHANGED <<objects, apply>>, PodInv' PROVE KInv'
  <2>1. ObjInv' /\ Keys' = Keys
    BY <1>1 DEF KInv, ObjInv, Keys
  <2> QED BY <1>1, <2>1 DEF KInv
<1>2. CASE StartPod
  BY <1>1, <1>2, PodStarts DEF KInv, StartPod
<1>3. CASE PodPhase
  BY <1>1, <1>3, PodMoves DEF KInv, PodPhase
<1>4. CASE UNCHANGED kubeVars
  BY <1>1, <1>4 DEF KInv, PodInv, kubeVars
<1>5. CASE StartStray
  BY <1>1, <1>5, StraysStart DEF KInv, StartStray
<1> QED BY <1>2, <1>3, <1>4, <1>5, ApplyGoesOn, KubectlKeeps DEF KubeNext

-----------------------------------------------------------------------------
(* What the reads make of the objects.                                      *)

LEMMA DeploysWhole == KInv => DeployedWhole
<1> SUFFICES ASSUME KInv, NEW r \in Applies
             PROVE  LET a == apply[r] IN
                    /\ a.pc = "true" => \A d \in Range(a.asked) \ {NullDoc} :
                                          Key(Placed(d, a.stack)) \in a.done
                    /\ a.refused => a.swept \/ ~InOrderOfNamespaces(a.asked, a.stack)
  BY DEF DeployedWhole
<1> DEFINE a == apply[r]
<1>1. Proper(a)
  BY DEF KInv
<1> HIDE DEF a
<1>2. Range(<<>>) = {}
  BY DEF Range
<1>3. a.pc = "true" => \A d \in Range(a.asked) \ {NullDoc} : Key(Placed(d, a.stack)) \in a.done
  BY <1>1, <1>2 DEF Proper, Covered
<1>4. a.refused => a.swept \/ ~InOrderOfNamespaces(a.asked, a.stack)
  BY <1>1 DEF Proper
<1> QED BY <1>3, <1>4 DEF a

LEMMA IdsLeadBack ==
  ASSUME ObjInv, NEW o \in Workloads
  PROVE  /\ WorkloadId(o.kind, o.ns, o.name) = Key(o)
         /\ LET ref == ParseWorkloadId(Key(o))
            IN ref # NullDoc /\ ref.kind = o.kind /\ ref.ns = o.ns /\ ref.name = o.name
<1>1. o.kind \in WorkloadKinds /\ o.ns # "" /\ o.name # <<>>
  BY DEF ObjInv, Workloads, Fit, Named
<1>2. Len(Key(o)) = 3 /\ Key(o)[1] = o.kind /\ Key(o)[2] = o.ns /\ Key(o)[3] = o.name
  BY DEF Key
<1> DEFINE ref == [kind |-> o.kind, ns |-> o.ns, name |-> o.name]
<1>3. ParseWorkloadId(Key(o)) = ref
  BY <1>1, <1>2 DEF ParseWorkloadId
<1>4. ref # NullDoc
  <2>1. DOMAIN ref = {"kind", "ns", "name"} /\ DOMAIN NullDoc = {"kind"}
    BY DEF NullDoc
  <2> HIDE DEF ref
  <2>2. "ns" \in DOMAIN ref /\ "ns" \notin DOMAIN NullDoc
    BY <2>1
  <2> QED BY <2>2
<1>5. ref.kind = o.kind /\ ref.ns = o.ns /\ ref.name = o.name
  OBVIOUS
<1> HIDE DEF ref
<1> QED BY <1>3, <1>4, <1>5 DEF WorkloadId, Key

LEMMA WorkloadsFit == ObjInv /\ PodInv => WorkloadsFound
<1> SUFFICES ASSUME ObjInv, PodInv PROVE WorkloadsFound
  OBVIOUS
<1>0. IsFiniteSet(Workloads) /\ \A o, p \in Workloads : Key(o) = Key(p) => o = p
  BY FS_Subset DEF ObjInv, Workloads
<1>1. \A o \in Workloads : MapWorkloadSummary(o).id = Key(o)
  BY IdsLeadBack DEF MapWorkloadSummary
<1>2. Cardinality({s.id : s \in ListServices}) = Cardinality(Workloads)
  <2> DEFINE T == {s.id : s \in ListServices}
             f == [o \in Workloads |-> Key(o)]
  <2>1. T = {Key(o) : o \in Workloads}
    BY <1>1 DEF ListServices
  <2>2. /\ f \in [Workloads -> T] /\ \A o, p \in Workloads : f[o] = f[p] => o = p
        /\ \A z \in T : \E o \in Workloads : f[o] = z
    BY <1>0, <2>1
  <2> HIDE DEF T, f
  <2>3. Cardinality(T) = Cardinality(Workloads)
    BY <1>0, <2>2, SameSize
  <2> QED BY <2>3 DEF T
<1>3. ASSUME NEW s \in ListServices PROVE GetService(s.id) = {s}
  <2>1. PICK o \in Workloads : s = MapWorkloadSummary(o)
    BY DEF ListServices
  <2> DEFINE ref == ParseWorkloadId(Key(o))
  <2>2. ref # NullDoc /\ ref.kind = o.kind /\ ref.ns = o.ns /\ ref.name = o.name
    BY IdsLeadBack
  <2> HIDE DEF ref
  <2>3. {w \in Workloads : w.kind = ref.kind /\ w.ns = ref.ns /\ w.name = ref.name} = {o}
    BY <1>0, <2>2 DEF Key
  <2>4. GetService(Key(o)) = {MapWorkloadSummary(w) : w \in {o}}
    BY <2>2, <2>3 DEF GetService, ref
  <2> QED BY <1>1, <2>1, <2>4
<1>4. \A p \in pods : p.runs[1] \in WorkloadKinds => MapPodTask(p).serviceId = p.runs
  <2>1. "ReplicaSet" \notin WorkloadKinds
    BY DEF WorkloadKinds
  <2> QED BY <2>1 DEF PodInv, Traced
<1>5. ASSUME NEW p \in pods, NEW o \in Workloads,
             LET id == MapWorkloadSummary(o).id IN MapPodTask(p).serviceId = id \/ p \in LogPods(id)
      PROVE  p.runs = Key(o) \/ TakenFor(p, o)
  <2> DEFINE ref == ParseWorkloadId(Key(o))
  <2>1. ref.kind = o.kind /\ ref.ns = o.ns /\ ref.name = o.name /\ o.kind \in WorkloadKinds
    BY IdsLeadBack DEF Workloads
  <2>2. MapPodTask(p).serviceId = Key(o) \/ p \in LogPods(Key(o))
    BY <1>1, <1>5
  <2>3. CASE MapPodTask(p).serviceId = Key(o)
    <3>1. PodOwnerWorkload(p) # NullDoc
      <4> SUFFICES ASSUME PodOwnerWorkload(p) = NullDoc PROVE FALSE
        OBVIOUS
      <4>1. MapPodTask(p).serviceId = <<>>
        BY DEF MapPodTask
      <4>2. Len(Key(o)) = 3 /\ Len(<<>>) = 0
        BY DEF Key
      <4> QED BY <2>3, <4>1, <4>2
    <3>2. Key(o) = <<PodOwnerWorkload(p).kind, p.ns, PodOwnerWorkload(p).name>>
      BY <2>3, <3>1 DEF MapPodTask, WorkloadId
    <3>3. o.kind = PodOwnerWorkload(p).kind /\ o.name = PodOwnerWorkload(p).name
      BY <3>2 DEF Key
    <3> QED BY <2>3, <3>1, <3>3 DEF PodInv, Traced, TakenFor
  <2>4. CASE p \in LogPods(Key(o))
    <3> DEFINE w == [kind |-> ref.kind, name |-> ref.name]
    <3>1. p.ns = ref.ns /\ PodOwnerWorkload(p) = w
      BY <2>4 DEF LogPods
    <3>2. w.kind = o.kind /\ w.name = o.name /\ p.ns = o.ns
      BY <2>1, <3>1
    <3> HIDE DEF w, ref
    <3>3. PodOwnerWorkload(p) # NullDoc
      BY <2>1, <3>1, <3>2 DEF NullDoc, WorkloadKinds
    <3>4. MapPodTask(p).serviceId = Key(o)
      BY <3>1, <3>2, <3>3 DEF MapPodTask, WorkloadId, Key
    <3> QED BY <2>3, <3>4
  <2> QED BY <2>2, <2>3, <2>4
<1> QED BY <1>2, <1>3, <1>4, <1>5 DEF WorkloadsFound

-----------------------------------------------------------------------------
(* The services of some stacks add up to any count that each stack raises   *)
(* by its own.                                                              *)
LEMMA StacksSum ==
  ASSUME NEW S, IsFiniteSet(S), NEW g \in [SUBSET S -> Nat], g[{}] = 0,
         \A s \in SUBSET S : \A x \in s : x.services + g[s \ {x}] = g[s]
  PROVE  FoldSet(LAMBDA s, n : s.services + n, 0, S) = g[S]
<1> DEFINE F(f) == [s \in SUBSET S |->
                      IF s = {} THEN 0
                      ELSE LET x == CHOOSE y \in s : TRUE IN x.services + f[s \ {x}]]
           it == CHOOSE f : f = F(f)
           n == Cardinality(S)
           T == {k \in 0..n : \A s \in SUBSET S : Cardinality(s) = k => it[s] = g[s]}
<1>1. FoldSet(LAMBDA s, m : s.services + m, 0, S) = it[S]
  BY DEF FoldSet, MapThenFoldSet
<1>2. it = F(it)
  <2>1. ASSUME NEW s \in SUBSET S, s # {}
        PROVE  LET x == CHOOSE y \in s : TRUE IN x.services + g[s \ {x}] = g[s]
    <3> DEFINE x == CHOOSE y \in s : TRUE
    <3>1. x \in s
      BY <2>1
    <3> HIDE DEF x
    <3>2. x.services + g[s \ {x}] = g[s]
      BY <3>1
    <3> QED BY <3>2 DEF x
  <2>2. g = F(g)
    BY <2>1
  <2> QED BY <2>2
<1> HIDE DEF it
<1>3. it[{}] = 0
  BY <1>2
<1>4. ASSUME NEW s \in SUBSET S, s # {}
      PROVE  \E x \in s : it[s] = x.services + it[s \ {x}]
  <2> DEFINE x == CHOOSE y \in s : TRUE
  <2>1. x \in s
    BY <1>4
  <2>2. it[s] = x.services + it[s \ {x}]
    BY <1>2, <1>4
  <2> HIDE DEF x
  <2> QED BY <2>1, <2>2
<1> HIDE DEF F
<1>5. n \in Nat /\ \A s \in SUBSET S : IsFiniteSet(s) /\ Cardinality(s) \in Nat
  BY FS_Subset, FS_CardinalityType
<1> HIDE DEF n
<1>6. 0 \in T
  <2>1. \A s \in SUBSET S : Cardinality(s) = 0 => s = {}
    BY <1>5, FS_EmptySet
  <2>2. \A s \in SUBSET S : Cardinality(s) = 0 => it[s] = g[s]
    BY <1>3, <2>1
  <2>3. 0 \in 0..n
    BY <1>5
  <2> QED BY <2>2, <2>3
<1>7. ASSUME NEW k \in 0..(n - 1), k \in T PROVE k + 1 \in T
  <2>1. ASSUME NEW s \in SUBSET S, Cardinality(s) = k + 1 PROVE it[s] = g[s]
    <3>1. s # {}
      BY <2>1, FS_EmptySet
    <3>2. PICK x \in s : it[s] = x.services + it[s \ {x}]
      BY <1>4, <3>1
    <3>3. Cardinality(s \ {x}) = k /\ s \ {x} \in SUBSET S
      <4>1. Cardinality(s \ {x}) = Cardinality(s) - 1
        BY <1>5, FS_RemoveElement
      <4> QED BY <2>1, <4>1
    <3>4. it[s \ {x}] = g[s \ {x}]
      BY <1>7, <3>3
    <3> QED BY <3>2, <3>4
  <2> QED BY <1>5, <2>1
<1> HIDE DEF T
<1>8. n \in T
  <2>1. 0..n \subseteq T
    BY <1>5, <1>6, <1>7, UpTo
  <2> QED BY <1>5, <2>1
<1> QED BY <1>1, <1>8 DEF T, n

(* A stack is a namespace, and every workload is in one.                    *)
Spaces == {o \in objects : o.kind = "Namespace"}
StackOf(o) ==
  [name |-> o.name[1],
   services |-> Cardinality({w \in Workloads : w.ns = o.name[1]}),
   secrets |-> Cardinality({s \in objects : s.kind = "Secret" /\ s.ns = o.name[1]})]

LEMMA SpacesListed ==
  ASSUME ObjInv
  PROVE  /\ ListStacks = {StackOf(o) : o \in Spaces} /\ IsFiniteSet(ListStacks)
         /\ \A x, y \in ListStacks : x.name = y.name => x = y
         /\ \A w \in Workloads : \E x \in ListStacks : x.name = w.ns
         /\ \A x \in ListStacks : x.services = Cardinality({w \in Workloads : w.ns = x.name})
<1>1. ListStacks = {StackOf(o) : o \in Spaces}
  BY DEF ListStacks, StackOf, Spaces
<1>2. IsFiniteSet(Spaces)
  BY FS_Subset DEF ObjInv, Spaces
<1>3. IsFiniteSet(ListStacks)
  <2> DEFINE f == [o \in Spaces |-> StackOf(o)]
  <2>1. f \in Surjection(Spaces, ListStacks)
    BY <1>1 DEF Surjection
  <2> HIDE DEF f
  <2> QED BY <1>2, <2>1, FS_Surjection
<1>4. \A o \in Spaces : StackOf(o).name = o.name[1]
  BY DEF StackOf
<1>5. \A x, y \in ListStacks : x.name = y.name => x = y
  <2>1. ASSUME NEW o \in Spaces, NEW p \in Spaces, StackOf(o).name = StackOf(p).name
        PROVE  StackOf(o) = StackOf(p)
    <3>1. o.name[1] = p.name[1]
      BY <1>4, <2>1
    <3> QED BY <3>1 DEF StackOf
  <2> QED BY <1>1, <2>1
<1>6. ASSUME NEW w \in Workloads PROVE \E x \in ListStacks : x.name = w.ns
  <2>1. w \in objects /\ w.ns # ""
    BY DEF Workloads, ObjInv, Fit
  <2>2. PICK o \in objects : Key(o) = NamespaceNamed(w.ns)
    BY <2>1 DEF ObjInv, Keys
  <2>3. o.kind = "Namespace" /\ o.name = <<w.ns>>
    BY <2>2 DEF Key, NamespaceNamed
  <2>4. o \in Spaces /\ o.name[1] = w.ns
    BY <2>3 DEF Spaces
  <2> QED BY <1>1, <1>4, <2>4
<1>7. ASSUME NEW x \in ListStacks
      PROVE  x.services = Cardinality({w \in Workloads : w.ns = x.name})
  <2>1. PICK o \in Spaces : x = StackOf(o)
    BY <1>1
  <2>2. x.name = o.name[1] /\ x.services = Cardinality({w \in Workloads : w.ns = o.name[1]})
    BY <2>1 DEF StackOf
  <2>3. {w \in Workloads : w.ns = o.name[1]} = {w \in Workloads : w.ns = x.name}
    BY <2>2
  <2> QED BY <2>2, <2>3
<1> QED BY <1>1, <1>3, <1>5, <1>6, <1>7

LEMMA StacksFit == ObjInv => StacksAddUp
<1> SUFFICES ASSUME ObjInv PROVE StacksAddUp
  OBVIOUS
<1> DEFINE L == ListStacks
           In(s) == {w \in Workloads : w.ns \in {x.name : x \in s}}
           g == [s \in SUBSET L |-> Cardinality(In(s))]
<1>1. /\ IsFiniteSet(L)
      /\ \A x, y \in L : x.name = y.name => x = y
      /\ \A w \in Workloads : \E x \in L : x.name = w.ns
      /\ \A x \in L : x.services = Cardinality({w \in Workloads : w.ns = x.name})
  BY SpacesListed
<1> HIDE DEF L
<1>2. IsFiniteSet(Workloads) /\ \A s \in SUBSET L : IsFiniteSet(In(s)) /\ Cardinality(In(s)) \in Nat
  <2>1. IsFiniteSet(Workloads)
    BY FS_Subset DEF ObjInv, Workloads
  <2>2. \A s \in SUBSET L : In(s) \in SUBSET Workloads
    OBVIOUS
  <2> HIDE DEF In
  <2> QED BY <2>1, <2>2, FS_Subset, FS_CardinalityType
<1>3. g \in [SUBSET L -> Nat] /\ \A s \in SUBSET L : g[s] = Cardinality(In(s))
  BY <1>2
<1>4. g[{}] = 0
  <2>1. In({}) = {}
    OBVIOUS
  <2> QED BY <1>3, <2>1, FS_EmptySet
<1> HIDE DEF g
<1>5. ASSUME NEW s \in SUBSET L, NEW x \in s PROVE x.services + g[s \ {x}] = g[s]
  <2> DEFINE own == {w \in Workloads : w.ns = x.name}
             rest == In(s \ {x})
  <2>1. x.services = Cardinality(own) /\ g[s \ {x}] = Cardinality(rest) /\ g[s] = Cardinality(In(s))
    BY <1>1, <1>3
  <2>2. In(s) = own \union rest
    OBVIOUS
  <2>3. own \intersect rest = {}
    BY <1>1
  <2>4. IsFiniteSet(own) /\ IsFiniteSet(rest)
    <3>1. own \in SUBSET Workloads
      OBVIOUS
    <3> HIDE DEF own, In
    <3> QED BY <1>2, <3>1, FS_Subset
  <2> HIDE DEF own, rest, In
  <2>5. Cardinality(own \union rest) = Cardinality(own) + Cardinality(rest)
    BY <2>3, <2>4, Disjoint
  <2> QED BY <2>1, <2>2, <2>5
<1>6. FoldSet(LAMBDA s, n : s.services + n, 0, L) = g[L]
  BY <1>1, <1>3, <1>4, <1>5, StacksSum
<1>7. g[L] = Cardinality(Workloads)
  <2>1. In(L) = Workloads
    BY <1>1
  <2> QED BY <1>3, <2>1
<1>8. Cardinality(ListServices) = Cardinality(Workloads)
  <2> DEFINE f == [o \in Workloads |-> MapWorkloadSummary(o)]
  <2>0. \A o \in Workloads : MapWorkloadSummary(o).id = Key(o)
    BY IdsLeadBack DEF MapWorkloadSummary
  <2>1. \A o, p \in Workloads : f[o] = f[p] => o = p
    BY <2>0 DEF ObjInv, Workloads
  <2>2. f \in [Workloads -> ListServices] /\ \A z \in ListServices : \E o \in Workloads : f[o] = z
    BY DEF ListServices
  <2> HIDE DEF f
  <2> QED BY <1>2, <2>1, <2>2, SameSize
<1> QED BY <1>6, <1>7, <1>8 DEF StacksAddUp, L

(* Every deploy that answers is whole, every service is found by its id     *)
(* with the tasks and logs of its own, and the stacks count the services    *)
(* (adapter.ts:426-561, client.ts:114).                                     *)
THEOREM KubernetesIsSound == KubeSpec => []KubernetesSound
<1>1. KInv => KubernetesSound
  BY DeploysWhole, WorkloadsFit, StacksFit DEF KInv, KubernetesSound
<1> QED BY <1>1, KInvInit, KInvNext, PTL DEF KubeSpec

(* The API server keeps one object under a key, and a request that patches  *)
(* has an object in hand.                                                   *)
THEOREM KubeTypeCorrect == KubeSpec => []KubeTypeOK
<1>1. KInv => KubeTypeOK
  BY DEF KInv, ObjInv, Proper, Apply, KubeTypeOK
<1> QED BY <1>1, KInvInit, KInvNext, PTL DEF KubeSpec

-----------------------------------------------------------------------------
(***************************************************************************)
(* The composition: each part behaves as it does by itself.                *)
(***************************************************************************)

(* Whatever is explored, every part behaves by its own specification: the   *)
(* theorems about the parts hold of the whole.                              *)
THEOREM ClusterComposes ==
  MCSpec => StreamSpec /\ NodesSpec /\ ResourcesSpec /\ KubeSpec /\ ReadingsSpec
<1>1. MCInit => StreamInit /\ NodesInit /\ ResourcesInit /\ KubeInit /\ ReadingsInit
  BY DEF MCInit
<1>2. ASSUME [MCNext]_mcVars
      PROVE  /\ [StreamNext]_streamVars /\ [NodesNext]_nodeVars /\ [ResourcesNext]_swarmVars
             /\ [KubeNext]_kubeVars /\ [ReadingsNext]_readVars
  <2>1. CASE UNCHANGED mcVars
    BY <2>1 DEF mcVars
  <2>2. CASE MCNext
    BY <2>2 DEF MCNext
  <2> QED BY <1>2, <2>1, <2>2
<1> QED BY <1>1, <1>2, PTL DEF MCSpec, StreamSpec, NodesSpec, ResourcesSpec, KubeSpec, ReadingsSpec

(* The tables, the streams, the requests and the readings stay what they    *)
(* are declared to be.                                                      *)
THEOREM ClusterTypeCorrect == MCSpec => []ClusterTypeOK
<1>1. TypeOK /\ StreamTypeOK /\ NodesTypeOK /\ ResourcesTypeOK /\ KubeTypeOK /\ ReadingsTypeOK
        => ClusterTypeOK
  BY DEF ClusterTypeOK
<1> QED
  BY <1>1, ClusterComposes, StreamImplementsTokens, TypeCorrect, StreamTypeCorrect,
     NodesTypeCorrect, ResourcesTypeCorrect, KubeTypeCorrect, ReadingsTypeCorrect, PTL

(* The lists of either backend show what is there: nothing twice, nothing   *)
(* under another's id, and counts that add up.                              *)
THEOREM ListsAreSound == MCSpec => []ListsSound
<1>1. SwarmListsSound /\ KubernetesSound => ListsSound
  BY DEF ListsSound
<1> QED BY <1>1, ClusterComposes, SwarmListsAreSound, KubernetesIsSound, PTL

=============================================================================
