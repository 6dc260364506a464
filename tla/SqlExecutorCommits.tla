------------------------- MODULE SqlExecutorCommits -------------------------
(***************************************************************************)
(* Requests, BEGIN and COMMIT keep the chains of versions in order: a      *)
(* commit, also one that fails half-way, adds versions only over those     *)
(* its transaction has seen.                                               *)
(***************************************************************************)
EXTENDS SqlExecutor, VersionsProofs

(* The inductive invariant: types, and first committer wins. *)
ExecutorInv == TypeOK /\ FirstCommitterWins

(* A chain of versions in which no commit covers what it has not seen. *)
Chain(l) ==
  /\ l \in Seq(VersionType)
  /\ \A i, j \in DOMAIN l :
       i < j /\ l[i].key = l[j].key /\ l[j].since # None => i <= l[j].since

-----------------------------------------------------------------------------
(* Table.Scan returns rows of the table's type. *)
LEMMA RowTypes ==
  ASSUME TypeOK, NEW t \in Tables
  PROVE  Len(log[t]) \in Nat /\ Scan(t) \in RowMap
<1>1. log[t] \in Seq(VersionType) /\ index[t] \in [Keys -> Values \cup {None}]
  BY DEF TypeOK
<1>2. QED
  BY <1>1, LenProperties DEF Scan, RowMap, AnyValue, Given

(* Tables whose version chains are all such chains are what the invariant  *)
(* asks of "log".                                                          *)
LEMMA Chains ==
  ASSUME NEW l, DOMAIN l = Tables, l = [t \in Tables |-> l[t]],
         \A t \in Tables : Chain(l[t])
  PROVE  /\ l \in [Tables -> Seq(VersionType)]
         /\ \A t \in Tables : \A i, j \in DOMAIN l[t] :
              i < j /\ l[t][i].key = l[t][j].key /\ l[t][j].since # None
                => i <= l[t][j].since
<1>1. \A t \in Tables : l[t] \in Seq(VersionType)
  BY DEF Chain
<1>2. l \in [Tables -> Seq(VersionType)]
  BY <1>1
<1>3. QED
  BY <1>2 DEF Chain

(* A chain extended by versions that cover only what their writer had      *)
(* seen is one.  New versions of one batch have different keys.            *)
LEMMA ExtendChain ==
  ASSUME NEW l, Chain(l), NEW n \in Seq(VersionType),
         \A i \in DOMAIN l, j \in DOMAIN n :
            l[i].key = n[j].key /\ n[j].since # None => i <= n[j].since,
         \A i, j \in DOMAIN n : n[i].key = n[j].key => i = j
  PROVE  Chain(l \o n)
<1> DEFINE L == l \o n
<1>0. /\ l \in Seq(VersionType)
      /\ \A i, j \in DOMAIN l :
           i < j /\ l[i].key = l[j].key /\ l[j].since # None => i <= l[j].since
  BY DEF Chain
<1>1. /\ L \in Seq(VersionType) /\ Len(L) = Len(l) + Len(n)
      /\ \A i \in 1 .. Len(l) + Len(n) :
            L[i] = IF i <= Len(l) THEN l[i] ELSE n[i - Len(l)]
  BY <1>0, ConcatProperties
<1> HIDE DEF L
<1>2. /\ Len(l) \in Nat /\ Len(n) \in Nat
      /\ DOMAIN l = 1 .. Len(l) /\ DOMAIN n = 1 .. Len(n) /\ DOMAIN L = 1 .. Len(L)
  BY <1>0, <1>1, LenProperties
<1>3. ASSUME NEW i \in DOMAIN L, NEW j \in DOMAIN L, i < j, L[i].key = L[j].key,
             L[j].since # None
      PROVE  i <= L[j].since
  <2>1. CASE j <= Len(l)
    <3>1. i \in DOMAIN l /\ j \in DOMAIN l /\ L[i] = l[i] /\ L[j] = l[j]
      BY <1>1, <1>2, <1>3, <2>1, SMTT(60)
    <3>2. QED
      BY <1>0, <1>3, <3>1
  <2>2. CASE i <= Len(l) /\ ~(j <= Len(l))
    <3>1. i \in DOMAIN l /\ L[i] = l[i]
      BY <1>1, <1>2, <2>2, SMTT(60)
    <3>2. j - Len(l) \in DOMAIN n /\ L[j] = n[j - Len(l)]
      BY <1>1, <1>2, <2>2
    <3>3. QED
      BY <1>3, <3>1, <3>2, SMTT(60)
  <2>3. CASE ~(i <= Len(l)) /\ ~(j <= Len(l))
    <3>1. i - Len(l) \in DOMAIN n /\ L[i] = n[i - Len(l)]
      BY <1>1, <1>2, <2>3
    <3>2. j - Len(l) \in DOMAIN n /\ L[j] = n[j - Len(l)]
      BY <1>1, <1>2, <2>3
    <3>3. i - Len(l) = j - Len(l)
      BY <1>3, <3>1, <3>2
    <3>4. QED
      BY <1>2, <1>3, <3>3, SMTT(60)
  <2>4. QED
    BY <1>2, <1>3, <2>1, <2>2, <2>3, SMTT(60)
<1>4. QED
  BY <1>1, <1>3 DEF L, Chain

(* The version chain of every table is such a chain. *)
LEMMA LogChain ==
  ASSUME ExecutorInv, NEW t \in Tables
  PROVE  Chain(log[t])
BY DEF ExecutorInv, TypeOK, FirstCommitterWins, Chain

(* A single version of a row operation, which is not a commit's. *)
LEMMA AppendVersion ==
  ASSUME ExecutorInv, NEW t \in Tables, NEW k \in Keys, NEW v \in AnyValue,
         log' = [log EXCEPT ![t] = Append(@, Version(k, v))]
  PROVE  log' \in [Tables -> Seq(VersionType)] /\ FirstCommitterWins'
<1> DEFINE n == <<Version(k, v)>>
<1>1. log[t] \in Seq(VersionType)
  BY DEF ExecutorInv, TypeOK
<1>2. Version(k, v) \in VersionType /\ Version(k, v).since = None
  BY DEF Version, VersionType
<1>3. n \in Seq(VersionType) /\ DOMAIN n = {1} /\ n[1] = Version(k, v)
  BY <1>2
<1>4. Append(log[t], Version(k, v)) = log[t] \o n
  BY <1>1, <1>2, AppendIsConcat, SMTT(60)
<1> HIDE DEF n
<1>5. Chain(log[t] \o n)
  BY <1>2, <1>3, LogChain, ExtendChain
<1>6. log \in [Tables -> Seq(VersionType)]
  BY DEF ExecutorInv, TypeOK
<1>7. \A x \in Tables : log'[x] = IF x = t THEN log[t] \o n ELSE log[x]
  BY <1>4, <1>6, SMTT(60)
<1>8. \A x \in Tables : Chain(log'[x])
  BY <1>5, <1>7, LogChain
<1>9. DOMAIN log' = Tables /\ log' = [x \in Tables |-> log'[x]]
  BY <1>6
<1>10. QED
  <2>1. /\ DOMAIN log' = Tables /\ log' = [x \in Tables |-> log'[x]]
        /\ \A x \in Tables : Chain(log'[x])
    BY <1>8, <1>9
  <2>2. QED
    BY ONLY <2>1, Chains DEF FirstCommitterWins

-----------------------------------------------------------------------------
(* Versions COMMIT appends to a table, when no key of them conflicts: one  *)
(* per key, and none covers anything newer than the transaction's          *)
(* snapshot.                                                               *)
LEMMA BatchKeeps ==
  ASSUME ExecutorInv, NEW c \in Clients, tx[c] \in TxType, ~Conflict(c),
         NEW t \in Tables, t \in TxTables(c),
         NEW m \in Nat, NEW ks \in [1 .. m -> Written(c, t)], IsInjective(ks)
  PROVE  Chain(log[t] \o Batch(c, t, ks))
<1> DEFINE W == Written(c, t)
           entry(i) == [key |-> ks[i], val |-> tx[c].writes[t][ks[i]],
                        since |-> tx[c].at[t]]
<1>1. W \subseteq Keys
  BY DEF Written
<1>2. Chain(log[t])
  BY LogChain
<1>3. /\ tx[c].at[t] \in Nat
      /\ \A k \in W : tx[c].writes[t][k] \in AnyValue
  BY DEF TxType, Written
<1>4. Batch(c, t, ks) = [i \in 1 .. m |-> entry(i)]
  <2>1. DOMAIN ks = 1 .. m
    OBVIOUS
  <2>2. QED
    BY <2>1 DEF Batch
<1>5. \A k \in W : \A i \in DOMAIN log[t] : ~(i > tx[c].at[t] /\ log[t][i].key = k)
  BY DEF Conflict, ChangedSince
<1> HIDE DEF W
<1>6. \A i \in 1 .. m : ks[i] \in W
  BY DEF W
<1>7. \A i \in 1 .. m : entry(i) \in VersionType
  BY <1>1, <1>3, <1>6, SMTT(60) DEF VersionType
<1>8. \A i, j \in 1 .. m : ks[i] = ks[j] => i = j
  BY DEF IsInjective
<1>9. \A i \in DOMAIN log[t] : i \in Nat
  BY LenProperties DEF ExecutorInv, TypeOK
<1>10. \A i \in DOMAIN log[t], j \in 1 .. m :
         log[t][i].key = entry(j).key => i <= entry(j).since
  BY <1>3, <1>5, <1>6, <1>9, SMTT(60)
<1>11. \A i, j \in 1 .. m : entry(i).key = entry(j).key => i = j
  BY <1>8
<1>12. [i \in 1 .. m |-> entry(i)] \in Seq(VersionType)
  <2> HIDE DEF entry
  <2>1. QED
    BY <1>7, FunctionIsSeq, SMTT(60)
<1> HIDE DEF entry
<1> DEFINE n == [i \in 1 .. m |-> entry(i)]
<1>13. /\ n \in Seq(VersionType)
       /\ \A i \in DOMAIN log[t], j \in DOMAIN n : log[t][i].key = n[j].key => i <= n[j].since
       /\ \A i, j \in DOMAIN n : n[i].key = n[j].key => i = j
  BY <1>10, <1>11, <1>12
<1> HIDE DEF n
<1>14. Chain(log[t] \o n)
  BY <1>2, <1>13, ExtendChain
<1>15. QED
  BY <1>4, <1>14 DEF n

(* The keys a transaction has written to a table are finitely many. *)
LEMMA WrittenFinite ==
  ASSUME NEW c, NEW t, NEW K, K \subseteq Written(c, t)
  PROVE  IsFiniteSet(K)
<1>1. K \subseteq Keys
  BY DEF Written
<1>2. IsFiniteSet(Keys)
  BY ExecutorAssumption
<1>3. QED
  BY <1>1, <1>2, FS_Subset, Zenon

(* COMMIT's batches for the tables of S, all or those before one that      *)
(* fails: every chain stays one, and the index holds values that were      *)
(* encoded and fitted.                                                     *)
LEMMA BatchesKeep ==
  ASSUME ExecutorInv, NEW c \in Clients, tx[c] \in TxType, ~Conflict(c),
         NEW S, S \subseteq TxTables(c), \A t \in S : ~BatchFails(c, t)
  PROVE  /\ \A t \in Tables : Chain(LogWith(c, S)[t])
         /\ IndexWith(c, S) \in [Tables -> [Keys -> Values \cup {None}]]
<1>1. ASSUME NEW t \in Tables PROVE Chain(LogWith(c, S)[t])
  <2>1. CASE t \in S
    <3> DEFINE ks == SetToSeq(Written(c, t))
               m == Cardinality(Written(c, t))
    <3>1. m \in Nat /\ ks \in [1 .. m -> Written(c, t)] /\ IsInjective(ks)
      BY WrittenFinite, SetToSeqLists
    <3> HIDE DEF m, ks
    <3>2. Chain(log[t] \o Batch(c, t, ks))
      BY <2>1, <3>1, BatchKeeps
    <3>3. LogWith(c, S)[t] = log[t] \o Batch(c, t, ks)
      BY <2>1 DEF LogWith, ks
    <3>4. QED
      BY <3>2, <3>3
  <2>2. CASE t \notin S
    BY <2>2, LogChain DEF LogWith
  <2>3. QED
    BY <2>1, <2>2
<1>2. ASSUME NEW t \in Tables
      PROVE  IndexWith(c, S)[t] \in [Keys -> Values \cup {None}]
  <2>1. index[t] \in [Keys -> Values \cup {None}]
    BY DEF ExecutorInv, TypeOK
  <2>2. CASE t \in S
    <3>1. \A k \in Keys : tx[c].writes[t][k] \in AnyValue \cup {NoWrite}
      BY DEF TxType
    <3>2. \A k \in Keys : tx[c].writes[t][k] # NoWrite =>
             tx[c].writes[t][k] \in Values \cup {None}
      BY <2>2, <3>1 DEF BatchFails, Refused, Staged, Written, AnyValue, Given
    <3>3. QED
      BY <2>1, <2>2, <3>2 DEF IndexWith, Overlay
  <2>3. CASE t \notin S
    BY <2>1, <2>3 DEF IndexWith
  <2>4. QED
    BY <2>2, <2>3
<1>3. QED
  BY <1>1, <1>2 DEF IndexWith

-----------------------------------------------------------------------------
(* A request that fails is still a request of the same client. *)
LEMMA FailTypes ==
  ASSUME TypeOK, req # None, Fail
  PROVE  req' \in ReqType \cup {None}
<1>1. req \in ReqType
  BY DEF TypeOK
<1>2. req' = [req EXCEPT !.failed = TRUE, !.atomic = FALSE]
  BY DEF Fail
<1>3. QED
  BY <1>1, <1>2, Zenon DEF ReqType

(* A step that leaves the version chains alone keeps first committer wins. *)
LEMMA SameLog ==
  ASSUME FirstCommitterWins, UNCHANGED log
  PROVE  FirstCommitterWins'
BY DEF FirstCommitterWins

(* A server that starts has no versions, no transactions and no requests.  *)
LEMMA InitKeeps == Init => ExecutorInv
<1> SUFFICES ASSUME Init PROVE ExecutorInv
  OBVIOUS
<1>1. log \in [Tables -> Seq(VersionType)] /\ \A t \in Tables : log[t] = <<>>
  BY DEF Init
<1>2. TypeOK
  BY <1>1, ExecutorAssumption DEF Init, TypeOK
<1>3. FirstCommitterWins
  BY <1>1 DEF FirstCommitterWins
<1>4. QED
  BY <1>2, <1>3 DEF ExecutorInv

(* The tables that are registered can be listed. *)
LEMMA RegisteredSeq ==
  /\ IsFiniteSet(Registered) /\ Registered \subseteq Tables
  /\ SetToSeq(Registered) \in Seq(Tables)
  /\ SetToSeqs(Registered) \subseteq Seq(Tables)
<1>1. Registered \subseteq Tables
  BY DEF Registered
<1>2. IsFiniteSet(Registered)
  BY <1>1, FS_Subset, ExecutorAssumption
<1> DEFINE n == Cardinality(Registered)
<1>3. n \in Nat /\ SetToSeq(Registered) \in [1 .. n -> Registered]
  BY <1>2, SetToSeqLists
<1>4. SetToSeqs(Registered) \subseteq [1 .. n -> Registered]
  BY DEF SetToSeqs
<1> HIDE DEF n
<1>5. \A f \in [1 .. n -> Registered] : f \in Seq(Tables)
  BY <1>1, <1>3, FunctionIsSeq
<1>6. QED
  BY <1>1, <1>2, <1>3, <1>4, <1>5, SMTT(60)

(* handle and Execute around the statements: a request starts, a client    *)
(* leaves, an answer is sent.                                              *)
LEMMA RequestKeeps ==
  ASSUME ExecutorInv,
         \/ \E c \in Clients, parts \in Requests : Execute(c, parts)
         \/ \E c \in Clients : Disconnect(c)
         \/ Respond
  PROVE  ExecutorInv'
<1>t. TypeOK /\ FirstCommitterWins
  BY DEF ExecutorInv
<1>b. [t \in Tables |-> Scan(t)] \in [Tables -> RowMap]
  BY <1>t, RowTypes
<1>u. used < MaxRequests => used + 1 \in 0 .. MaxRequests
  BY <1>t, ExecutorAssumption DEF TypeOK
<1>1. ASSUME NEW c \in Clients, NEW parts \in Requests, Execute(c, parts)
      PROVE  ExecutorInv'
  <2>1. req' \in ReqType
    <3>1. InTx(c) \in BOOLEAN /\ AllOrNothing(c, parts) \in BOOLEAN
      BY DEF InTx, AllOrNothing
    <3>2. PICK order \in IF AllOrNothing(c, parts) THEN SetToSeqs(Registered) ELSE {<<>>} :
            req' = [client |-> c, parts |-> parts, failed |-> FALSE, gone |-> FALSE,
                    inTx |-> InTx(c), atomic |-> AllOrNothing(c, parts),
                    tables |-> order, before |-> [t \in Tables |-> Scan(t)]]
      BY <1>1, Zenon DEF Execute
    <3>3. order \in Seq(Tables)
      <4>1. <<>> \in Seq(Tables)
        OBVIOUS
      <4>2. CASE AllOrNothing(c, parts)
        BY <4>2, RegisteredSeq, Zenon
      <4>3. CASE ~AllOrNothing(c, parts)
        BY <4>1, <4>3
      <4>4. QED
        BY <4>2, <4>3
    <3>4. QED
      BY <1>b, <3>1, <3>2, <3>3, SMTT(60) DEF ReqType
  <2>2. TypeOK'
    BY <1>1, <1>t, <1>u, <2>1, SMTT(60) DEF Execute, TypeOK, db
  <2>3. FirstCommitterWins'
    BY <1>1, <1>t, SameLog DEF Execute, db
  <2>4. QED
    BY <2>2, <2>3, SMTT(60) DEF ExecutorInv
<1>2. ASSUME NEW c \in Clients, Disconnect(c)
      PROVE  ExecutorInv'
  <2>1. req' \in ReqType
    <3>1. <<>> \in Seq(Tables)
      OBVIOUS
    <3>2. QED
      BY <1>2, <1>b, <3>1, SMTT(60) DEF Disconnect, ReqType
  <2>2. TypeOK'
    BY <1>2, <1>t, <1>u, <2>1, SMTT(60) DEF Disconnect, TypeOK, db
  <2>3. FirstCommitterWins'
    BY <1>2, <1>t, SameLog, SMTT(60) DEF Disconnect, db
  <2>4. QED
    BY <2>2, <2>3, SMTT(60) DEF ExecutorInv
<1>3. CASE Respond
  <2>1. tx' \in [Clients -> TxType \cup {None}]
    BY <1>3, <1>t, ZenonT(60) DEF Respond, TypeOK
  <2>2. TypeOK'
    BY <1>3, <1>t, <2>1 DEF Respond, TypeOK, db
  <2>3. FirstCommitterWins'
    BY <1>3, <1>t, SameLog DEF Respond, db
  <2>4. QED
    BY <2>2, <2>3, SMTT(60) DEF ExecutorInv
<1>4. QED
  BY <1>1, <1>2, <1>3, SMTT(60)

-----------------------------------------------------------------------------
(* The client of the running request, and its transaction if it has one. *)
LEMMA MeTypes ==
  ASSUME TypeOK, req # None
  PROVE  /\ req \in ReqType /\ Me \in Clients
         /\ InTx(Me) => tx[Me] \in TxType
         /\ [tx EXCEPT ![Me] = None] \in [Clients -> TxType \cup {None}]
<1>1. req \in ReqType
  BY DEF TypeOK
<1>2. Me \in Clients
  BY <1>1 DEF ReqType, Me
<1>3. QED
  BY <1>1, <1>2 DEF TypeOK, InTx

(* ReleaseSnapshot never makes a counter negative. *)
LEMMA ReleaseTypes ==
  ASSUME TypeOK, NEW c, releaseSnapshots(c)
  PROVE  leases' \in [Tables -> Nat]
<1>1. \A t \in Tables : leases[t] \in Nat
  BY DEF TypeOK
<1>2. QED
  BY <1>1 DEF releaseSnapshots

(* BEGIN. *)
LEMMA beginKeeps ==
  ASSUME ExecutorInv, begin
  PROVE  ExecutorInv'
<1>t. TypeOK /\ FirstCommitterWins /\ req # None
  BY DEF ExecutorInv, begin, Doing
<1>1. PICK order \in SetToSeqs(Registered) :
        tx' = [tx EXCEPT ![Me] =
                [order |-> order,
                 at |-> [t \in Tables |-> Len(log[t])],
                 image |-> [t \in Tables |-> Scan(t)],
                 writes |-> [t \in Tables |-> [k \in Keys |-> NoWrite]],
                 view |-> [t \in Tables |-> Scan(t)]]]
  BY Zenon DEF begin
<1>2. order \in Seq(Tables)
  BY RegisteredSeq
<1>3. \A t \in Tables : Len(log[t]) \in Nat /\ Scan(t) \in RowMap
  BY <1>t, RowTypes
<1>4. tx' \in [Clients -> TxType \cup {None}]
  <2> DEFINE new == [order |-> order,
                     at |-> [t \in Tables |-> Len(log[t])],
                     image |-> [t \in Tables |-> Scan(t)],
                     writes |-> [t \in Tables |-> [k \in Keys |-> NoWrite]],
                     view |-> [t \in Tables |-> Scan(t)]]
  <2>1. new \in TxType
    BY <1>2, <1>3 DEF TxType
  <2> HIDE DEF new
  <2>2. tx' = [tx EXCEPT ![Me] = new]
    BY <1>1 DEF new
  <2>3. QED
    BY <1>t, <2>1, <2>2, ZenonT(60) DEF TypeOK
<1>5. leases' \in [Tables -> Nat]
  <2>1. \A t \in Tables : leases[t] \in Nat
    BY <1>t, SMTT(60) DEF TypeOK
  <2>2. QED
    BY <2>1 DEF begin
<1>6. TypeOK'
  BY <1>t, <1>4, <1>5, SMTT(60) DEF TypeOK, begin
<1>7. FirstCommitterWins'
  BY <1>t, SameLog, SMTT(60) DEF begin
<1>8. QED
  BY <1>6, <1>7 DEF ExecutorInv

(* COMMIT that succeeds. *)
LEMMA commitKeeps ==
  ASSUME ExecutorInv, commit
  PROVE  ExecutorInv'
<1>t. TypeOK /\ FirstCommitterWins /\ req # None /\ InTx(Me) /\ ~Conflict(Me)
  BY DEF ExecutorInv, commit, Doing
<1>1. Me \in Clients /\ tx[Me] \in TxType
  BY <1>t, MeTypes, SMTT(60)
<1>2. /\ \A t \in Tables : Chain(LogWith(Me, TxTables(Me))[t])
      /\ IndexWith(Me, TxTables(Me)) \in [Tables -> [Keys -> Values \cup {None}]]
  <2>1. \A t \in TxTables(Me) : ~BatchFails(Me, t)
    BY DEF commit
  <2>2. QED
    BY <1>t, <1>1, <2>1, BatchesKeep
<1>3. log' \in [Tables -> Seq(VersionType)] /\ FirstCommitterWins'
  <2>1. /\ DOMAIN log' = Tables /\ log' = [t \in Tables |-> log'[t]]
        /\ \A t \in Tables : Chain(log'[t])
    BY <1>2 DEF commit, LogWith
  <2>2. QED
    BY <2>1, Chains DEF FirstCommitterWins
<1>4. leases' \in [Tables -> Nat]
  BY <1>t, ReleaseTypes DEF commit
<1>5. tx' \in [Clients -> TxType \cup {None}]
  BY <1>t, MeTypes DEF commit
<1>6. TypeOK'
  BY <1>t, <1>2, <1>3, <1>4, <1>5, SMTT(60) DEF TypeOK, commit
<1>7. QED
  BY <1>3, <1>6, SMTT(60) DEF ExecutorInv

(* The tables before the one whose batch fails are the transaction's. *)
LEMMA BeforeTables ==
  ASSUME NEW c, tx[c] \in TxType, NEW n \in Nat, FirstToFail(c, n)
  PROVE  /\ Before(c, n) \subseteq TxTables(c)
         /\ tx[c].order[n] \in TxTables(c) /\ tx[c].order[n] \in Tables
         /\ \A t \in Before(c, n) : ~BatchFails(c, t)
<1>1. tx[c].order \in Seq(Tables)
  BY DEF TxType
<1>2. n \in DOMAIN tx[c].order
  BY DEF FirstToFail
<1>3. \A m \in 1 .. n - 1 : m \in DOMAIN tx[c].order
  BY <1>1, <1>2, LenProperties, SMTT(60)
<1>4. tx[c].order[n] \in Tables
  BY <1>1, <1>2, ElementOfSeq, LenProperties
<1>5. QED
  BY <1>2, <1>3, <1>4 DEF Before, TxTables, Range, FirstToFail

(* COMMIT whose batch for some table is refused after others were applied. *)
LEMMA commitPartlyKeeps ==
  ASSUME ExecutorInv, NEW n \in Nat, commitPartly(n)
  PROVE  ExecutorInv'
<1>t. TypeOK /\ FirstCommitterWins /\ req # None /\ InTx(Me) /\ ~Conflict(Me)
  BY SMTT(60) DEF ExecutorInv, commitPartly, Doing
<1>1. Me \in Clients /\ tx[Me] \in TxType
  BY <1>t, MeTypes
<1> DEFINE S == Before(Me, n)
<1>2. S \subseteq TxTables(Me) /\ \A t \in S : ~BatchFails(Me, t)
  BY <1>1, BeforeTables DEF commitPartly
<1>3. log' = LogWith(Me, S) /\ index' = IndexWith(Me, S)
  BY DEF commitPartly
<1> HIDE DEF S
<1>4. /\ \A t \in Tables : Chain(LogWith(Me, S)[t])
      /\ IndexWith(Me, S) \in [Tables -> [Keys -> Values \cup {None}]]
  BY <1>t, <1>1, <1>2, BatchesKeep
<1>5. log' \in [Tables -> Seq(VersionType)] /\ FirstCommitterWins'
  <2>1. /\ DOMAIN log' = Tables /\ log' = [t \in Tables |-> log'[t]]
        /\ \A t \in Tables : Chain(log'[t])
    BY <1>3, <1>4 DEF LogWith
  <2>2. QED
    BY <2>1, Chains DEF FirstCommitterWins
<1>6. req' \in ReqType \cup {None}
  BY <1>t, FailTypes DEF commitPartly
<1>7. TypeOK'
  BY <1>t, <1>3, <1>4, <1>5, <1>6, SMTT(60) DEF TypeOK, commitPartly
<1>8. QED
  BY <1>5, <1>7, SMTT(60) DEF ExecutorInv

(* A list of keys with one more at its end. *)
LEMMA OneMore ==
  ASSUME NEW W, NEW m \in Nat, NEW K, NEW ks \in [1 .. m -> K], IsInjective(ks),
         K \subseteq W, NEW k \in W, k \notin K
  PROVE  /\ Append(ks, k) \in [1 .. m + 1 -> W]
         /\ IsInjective(Append(ks, k))
<1>1. ks \in Seq(W) /\ Len(ks) = m
  BY FunctionIsSeq
<1>2. /\ Append(ks, k) \in [1 .. m + 1 -> W]
      /\ \A i \in 1 .. m + 1 : Append(ks, k)[i] = IF i <= m THEN ks[i] ELSE k
  <2>1. /\ Append(ks, k) \in Seq(W) /\ Len(Append(ks, k)) = m + 1
        /\ \A i \in 1 .. m : Append(ks, k)[i] = ks[i]
        /\ Append(ks, k)[m + 1] = k
    BY <1>1, AppendProperties
  <2>2. Append(ks, k) \in [1 .. m + 1 -> W]
    BY <2>1, LenProperties
  <2>3. QED
    BY <2>1, <2>2
<1>3. \A i, j \in 1 .. m + 1 : Append(ks, k)[i] = Append(ks, k)[j] => i = j
  <2>1. \A i \in 1 .. m + 1 : (i <= m /\ i \in 1 .. m) \/ i = m + 1
    OBVIOUS
  <2>2. \A i, j \in 1 .. m : ks[i] = ks[j] => i = j
    BY DEF IsInjective
  <2>3. \A i \in 1 .. m : ks[i] # k
    OBVIOUS
  <2>4. QED
    BY <1>2, <2>1, <2>2, <2>3
<1>4. QED
  BY <1>2, <1>3 DEF IsInjective

(* COMMIT whose batch for some table stops half-way. *)
LEMMA commitHalfBatchKeeps ==
  ASSUME ExecutorInv, NEW n \in Nat, NEW K, NEW k \in Keys, commitHalfBatch(n, K, k)
  PROVE  ExecutorInv'
<1>t. TypeOK /\ FirstCommitterWins /\ req # None /\ InTx(Me) /\ ~Conflict(Me)
  BY ZenonT(60) DEF ExecutorInv, commitHalfBatch, Doing
<1>1. Me \in Clients /\ tx[Me] \in TxType
  BY <1>t, MeTypes
<1> DEFINE S == Before(Me, n)
           t == tx[Me].order[n]
           ks == SetToSeq(K)
           m == Cardinality(K)
           row == [j \in Keys |-> IF j \in K THEN tx[Me].writes[t][j]
                                  ELSE IndexWith(Me, S)[t][j]]
<1>2. /\ S \subseteq TxTables(Me) /\ \A x \in S : ~BatchFails(Me, x)
      /\ t \in TxTables(Me) /\ t \in Tables
  BY <1>1, BeforeTables DEF commitHalfBatch
<1>3. /\ log' = [LogWith(Me, S) EXCEPT
                   ![t] = LogWith(Me, S)[t] \o Batch(Me, t, Append(ks, k))]
      /\ index' = [IndexWith(Me, S) EXCEPT ![t] = row]
      /\ BatchFails(Me, t) /\ ~Refused(Me, t)
      /\ k \in Staged(Me, t, BigValues)
      /\ K \subseteq Written(Me, t) \ Staged(Me, t, BigValues)
  BY DEF commitHalfBatch, FirstToFail
<1>4. m \in Nat /\ ks \in [1 .. m -> K] /\ IsInjective(ks)
  <2>1. K \subseteq Written(Me, t)
    BY <1>3
  <2>2. QED
    BY <2>1, WrittenFinite, SetToSeqLists
<1> HIDE DEF S, t, ks, m, row
<1>5. k \in Written(Me, t) /\ K \subseteq Written(Me, t) /\ k \notin K
  BY <1>3 DEF Staged
<1>6. Append(ks, k) \in [1 .. m + 1 -> Written(Me, t)] /\ IsInjective(Append(ks, k))
  BY <1>4, <1>5, OneMore
<1>7. Chain(log[t] \o Batch(Me, t, Append(ks, k)))
  <2>1. m + 1 \in Nat
    BY <1>4
  <2>2. QED
    BY <1>t, <1>1, <1>2, <1>6, <2>1, BatchKeeps
<1>8. /\ \A x \in Tables : Chain(LogWith(Me, S)[x])
      /\ IndexWith(Me, S) \in [Tables -> [Keys -> Values \cup {None}]]
  BY <1>t, <1>1, <1>2, BatchesKeep
<1>9. t \notin S /\ LogWith(Me, S)[t] = log[t]
  BY <1>2, <1>3 DEF LogWith
<1>10. log' \in [Tables -> Seq(VersionType)] /\ FirstCommitterWins'
  <2>1. DOMAIN LogWith(Me, S) = Tables
    BY DEF LogWith
  <2>2. \A x \in Tables : log'[x] = IF x = t THEN log[t] \o Batch(Me, t, Append(ks, k))
                                    ELSE LogWith(Me, S)[x]
    BY <1>3, <1>9, <2>1
  <2>3. \A x \in Tables : Chain(log'[x])
    BY <1>7, <1>8, <2>2
  <2>4. DOMAIN log' = Tables /\ log' = [x \in Tables |-> log'[x]]
    BY <1>3, <2>1
  <2>5. QED
    BY <2>3, <2>4, Chains DEF FirstCommitterWins
<1>11. row \in [Keys -> Values \cup {None}]
  <2>1. \A j \in K : tx[Me].writes[t][j] \in Values \cup {None}
    <3>1. \A j \in Keys : tx[Me].writes[t][j] \in AnyValue \cup {NoWrite}
      BY <1>1, <1>2 DEF TxType
    <3>2. QED
      BY <1>3, <3>1 DEF Refused, Staged, Written, AnyValue, Given
  <2>2. IndexWith(Me, S)[t] \in [Keys -> Values \cup {None}]
    BY <1>2, <1>8
  <2>3. QED
    BY <2>1, <2>2 DEF row
<1>12. index' \in [Tables -> [Keys -> Values \cup {None}]]
  BY <1>2, <1>3, <1>8, <1>11
<1>13. req' \in ReqType \cup {None}
  BY <1>t, FailTypes DEF commitHalfBatch
<1>14. UNCHANGED <<sec, status, leases, tx, used>>
  BY DEF commitHalfBatch
<1>15. TypeOK'
  BY <1>t, <1>10, <1>12, <1>13, <1>14, SMTT(60) DEF TypeOK
<1>16. QED
  BY <1>10, <1>15, SMTT(60) DEF ExecutorInv
=============================================================================
