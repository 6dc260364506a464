-------------------------- MODULE SqlExecutorProofs -------------------------
(***************************************************************************)
(* Proofs about the executor for any number of clients and tables, any     *)
(* rows, constraints and requests: types, and first committer wins.        *)
(***************************************************************************)
EXTENDS SqlExecutorCommits

(* Statements and row operations that return an error. *)
LEMMA ErrorKeeps ==
  ASSUME ExecutorInv, controlFails \/ commitConflict \/ statementFails \/ rowFails
  PROVE  ExecutorInv'
<1>1. req # None /\ Fail /\ UNCHANGED <<db, tx, used>>
  BY DEF controlFails, commitConflict, statementFails, rowFails, Doing
<1>2. req' \in ReqType \cup {None}
  BY <1>1, FailTypes DEF ExecutorInv
<1>3. TypeOK'
  BY <1>1, <1>2 DEF ExecutorInv, TypeOK, db
<1>4. FirstCommitterWins'
  BY <1>1, SameLog, SMTT(60) DEF ExecutorInv, db
<1>5. QED
  BY <1>3, <1>4, SMTT(60) DEF ExecutorInv

(* Steps that only replace what is left to do. *)
LEMMA PlanKeeps ==
  ASSUME ExecutorInv, rollback \/ undo \/ restore \/ rowErrorIgnored
  PROVE  ExecutorInv'
<1>1. UNCHANGED <<db, tx, req, used>>
  BY DEF rollback, undo, restore, rowErrorIgnored
<1>2. TypeOK'
  BY <1>1 DEF ExecutorInv, TypeOK, db
<1>3. FirstCommitterWins'
  BY <1>1, SameLog DEF ExecutorInv, db
<1>4. QED
  BY <1>2, <1>3 DEF ExecutorInv

(* The end of ROLLBACK. *)
LEMMA releaseKeeps ==
  ASSUME ExecutorInv, release
  PROVE  ExecutorInv'
<1>t. TypeOK /\ FirstCommitterWins /\ req # None
  BY DEF ExecutorInv, release, Doing
<1>1. leases' \in [Tables -> Nat]
  BY <1>t, ReleaseTypes DEF release
<1>2. tx' \in [Clients -> TxType \cup {None}]
  BY <1>t, MeTypes DEF release
<1>3. TypeOK'
  BY <1>t, <1>1, <1>2, Zenon DEF TypeOK, release
<1>4. FirstCommitterWins'
  BY <1>t, SameLog DEF release
<1>5. QED
  BY <1>3, <1>4 DEF ExecutorInv

-----------------------------------------------------------------------------
(* INSERT, UPDATE and DELETE: staging keeps the write set typed, and no    *)
(* version is added until COMMIT or a row operation.                       *)
LEMMA performKeeps ==
  ASSUME ExecutorInv, req # None, NEW t \in Tables, NEW w,
         \A k \in DOMAIN w : w[k] \in AnyValue,
         perform(t, w)
  PROVE  ExecutorInv'
<1>t. TypeOK /\ FirstCommitterWins
  BY DEF ExecutorInv
<1>1. tx' \in [Clients -> TxType \cup {None}]
  <2>1. CASE InTx(Me)
    <3> DEFINE old == tx[Me]
               ws == IF t \in TxTables(Me) THEN Over(w, old.writes[t]) ELSE old.writes[t]
               new == [old EXCEPT !.writes[t] = ws, !.view[t] = Over(w, old.view[t])]
    <3>1. Me \in Clients /\ old \in TxType
      BY <1>t, <2>1, MeTypes, SMTT(60)
    <3>2. ws \in [Keys -> AnyValue \cup {NoWrite}] /\ Over(w, old.view[t]) \in RowMap
      <4>1. old.writes[t] \in [Keys -> AnyValue \cup {NoWrite}] /\ old.view[t] \in RowMap
        BY <3>1 DEF TxType
      <4> HIDE DEF old
      <4>2. QED
        BY <4>1, SMTT(60) DEF Over, RowMap
    <3>3. tx' = [tx EXCEPT ![Me] = new]
      BY <1>t, <2>1, <3>1, Zenon DEF perform, TypeOK
    <3> HIDE DEF ws, old
    <3>4. new \in TxType
      BY <3>1, <3>2, ZenonT(60) DEF TxType
    <3> HIDE DEF new
    <3>5. QED
      BY <1>t, <3>1, <3>3, <3>4, SMTT(60) DEF TypeOK
  <2>2. CASE ~InTx(Me)
    BY <1>t, <2>2 DEF perform, TypeOK
  <2>3. QED
    BY <2>1, <2>2, SMTT(60)
<1>2. TypeOK'
  BY <1>t, <1>1, SMTT(60) DEF TypeOK, perform, db
<1>3. FirstCommitterWins'
  BY <1>t, SameLog, SMTT(60) DEF perform, db
<1>4. QED
  BY <1>2, <1>3 DEF ExecutorInv

(* The statements that change rows or tables. *)
LEMMA StatementKeeps ==
  ASSUME ExecutorInv,
         \/ \E t \in Tables, v \in Given : insert(t, v) \/ update(t, v)
         \/ \E t \in Tables : delete(t)
         \/ create \/ drop
  PROVE  ExecutorInv'
<1>t. TypeOK /\ FirstCommitterWins
  BY DEF ExecutorInv
<1>v. None \in AnyValue /\ \A v \in Given : v \in AnyValue
  BY DEF AnyValue
<1>1. ASSUME NEW t \in Tables, NEW v \in Given, insert(t, v)
      PROVE  ExecutorInv'
  BY <1>1, <1>v, performKeeps DEF insert, Doing
<1>2. ASSUME NEW t \in Tables, NEW v \in Given, update(t, v)
      PROVE  ExecutorInv'
  BY <1>2, <1>v, performKeeps DEF update, Doing
<1>3. ASSUME NEW t \in Tables, delete(t)
      PROVE  ExecutorInv'
  BY <1>3, <1>v, performKeeps DEF delete, Doing
<1>4. CASE create \/ drop
  <2>1. status' \in [Tables -> {"new", "open", "dropped"}]
    <3>1. status \in [Tables -> {"new", "open", "dropped"}]
      BY <1>t DEF TypeOK
    <3>2. CASE create
      BY <3>1, <3>2, Zenon DEF create
    <3>3. CASE drop
      BY <3>1, <3>3, Zenon DEF drop
    <3>4. QED
      BY <1>4, <3>2, <3>3
  <2>2. UNCHANGED <<log, index, sec, leases, tx, req, used>>
    BY <1>4 DEF create, drop
  <2>3. TypeOK'
    BY <1>t, <2>1, <2>2, SMTT(60) DEF TypeOK
  <2>4. FirstCommitterWins'
    BY <1>t, <2>2, SameLog, SMTT(60)
  <2>5. QED
    BY <2>3, <2>4, SMTT(60) DEF ExecutorInv
<1>5. QED
  BY <1>1, <1>2, <1>3, <1>4

(* Table.Insert and Table.Delete of one row. *)
LEMMA RowKeeps ==
  ASSUME ExecutorInv, NEW t \in Tables, NEW k \in Keys, NEW v \in Values,
         PutRow(t, k, v) \/ DelRow(t, k)
  PROVE  ExecutorInv'
<1>t. TypeOK /\ FirstCommitterWins
  BY DEF ExecutorInv
<1>1. v \in AnyValue /\ None \in AnyValue
  BY DEF AnyValue, Given
<1>2. log' \in [Tables -> Seq(VersionType)] /\ FirstCommitterWins'
  <2>1. CASE PutRow(t, k, v)
    BY <1>1, <2>1, AppendVersion, Zenon DEF PutRow
  <2>2. CASE DelRow(t, k)
    BY <1>1, <2>2, AppendVersion, Zenon DEF DelRow
  <2>3. QED
    BY <2>1, <2>2, SMTT(60)
<1>3. /\ index' \in [Tables -> [Keys -> Values \cup {None}]]
      /\ sec' \in [Tables -> SUBSET (Values \X Keys)]
  <2>1. CASE PutRow(t, k, v)
    <3>1. index' \in [Tables -> [Keys -> Values \cup {None}]]
      <4>1. index' = [index EXCEPT ![t] = [index[t] EXCEPT ![k] = v]]
        BY <2>1 DEF PutRow
      <4>2. index \in [Tables -> [Keys -> Values \cup {None}]]
        BY <1>t DEF TypeOK
      <4>3. QED
        BY <4>1, <4>2
    <3>2. sec' \in [Tables -> SUBSET (Values \X Keys)]
      BY <1>t, <2>1, SMTT(60) DEF PutRow, TypeOK
    <3>3. QED
      BY <3>1, <3>2
  <2>2. CASE DelRow(t, k)
    BY <1>t, <2>2, SMTT(60) DEF DelRow, TypeOK
  <2>3. QED
    BY <2>1, <2>2
<1>4. UNCHANGED <<status, leases, tx, req, used>>
  BY DEF PutRow, DelRow
<1>5. TypeOK'
  BY <1>t, <1>2, <1>3, <1>4, SMTT(60) DEF TypeOK
<1>6. QED
  BY <1>2, <1>5, SMTT(60) DEF ExecutorInv

(* Table.Insert of a row that fits no page. *)
LEMMA PutTooLargeKeeps ==
  ASSUME ExecutorInv, NEW t \in Tables, NEW k \in Keys, NEW v \in BigValues,
         PutTooLarge(t, k, v)
  PROVE  ExecutorInv'
<1>1. v \in AnyValue
  BY DEF AnyValue, Given
<1>2. log' \in [Tables -> Seq(VersionType)] /\ FirstCommitterWins'
  BY <1>1, AppendVersion, Zenon DEF PutTooLarge
<1>3. req' \in ReqType \cup {None}
  BY FailTypes DEF ExecutorInv, PutTooLarge, Doing
<1>4. TypeOK'
  BY <1>2, <1>3, SMTT(60) DEF ExecutorInv, TypeOK, PutTooLarge
<1>5. QED
  BY <1>2, <1>4, SMTT(60) DEF ExecutorInv

-----------------------------------------------------------------------------
(* Every step of the executor keeps the invariant. *)
LEMMA StepKeeps ==
  ASSUME ExecutorInv, [Next]_vars
  PROVE  ExecutorInv'
<1>1. CASE \/ \E c \in Clients, parts \in Requests : Execute(c, parts)
           \/ \E c \in Clients : Disconnect(c)
           \/ Respond
  BY <1>1, RequestKeeps
<1>2. CASE begin
  BY <1>2, beginKeeps
<1>3. CASE commit
  BY <1>3, commitKeeps
<1>4. CASE \E n \in 1 .. Cardinality(Tables) :
             \/ commitPartly(n)
             \/ \E K \in SUBSET Keys, k \in Keys : commitHalfBatch(n, K, k)
  <2>1. \A n \in 1 .. Cardinality(Tables) : n \in Nat
    OBVIOUS
  <2>2. QED
    BY <1>4, <2>1, commitPartlyKeeps, commitHalfBatchKeeps
<1>5. CASE controlFails \/ commitConflict \/ statementFails \/ rowFails
  BY <1>5, ErrorKeeps, SMTT(60)
<1>6. CASE rollback \/ undo \/ restore \/ rowErrorIgnored
  BY <1>6, PlanKeeps, SMTT(60)
<1>7. CASE release
  BY <1>7, releaseKeeps
<1>8. CASE \/ \E t \in Tables, v \in Given : insert(t, v) \/ update(t, v)
           \/ \E t \in Tables : delete(t)
           \/ create \/ drop
  BY <1>8, StatementKeeps, SMTT(60)
<1>9. CASE \/ \E t \in Tables, k \in Keys, v \in Values : PutRow(t, k, v)
           \/ \E t \in Tables, k \in Keys, v \in BigValues : PutTooLarge(t, k, v)
  BY <1>9, RowKeeps, PutTooLargeKeeps, SMTT(60)
<1>10. CASE \E t \in Tables, k \in Keys : DelRow(t, k)
  BY <1>10, RowKeeps, ExecutorAssumption, SMTT(60)
<1>11. CASE UNCHANGED vars
  <2>1. UNCHANGED <<log, index, sec, status, leases, tx, req, used>>
    BY <1>11 DEF vars, db
  <2>2. QED
    BY <2>1, SameLog DEF ExecutorInv, TypeOK
<1>12. QED
  BY <1>1, <1>2, <1>3, <1>4, <1>5, <1>6, <1>7, <1>8, <1>9, <1>10, <1>11
  DEF Next, Running

(***************************************************************************)
(* First committer wins, and types: whatever clients interleave, a COMMIT  *)
(* never covers a version of a row that was added after its BEGIN.  The    *)
(* check for conflicts is enough for this, with commits that fail          *)
(* half-way, writes the store rejects too late, ROLLBACK's rewriting and   *)
(* dropped tables among the others.  It says nothing of ROLLBACK itself.   *)
(***************************************************************************)
THEOREM ExecutorInvariant == Spec => []ExecutorInv
<1>1. ExecutorInv /\ [Next]_vars => ExecutorInv'
  BY StepKeeps
<1>2. QED
  BY InitKeeps, <1>1, PTL DEF Spec

(* The same, as the property the runs check. *)
THEOREM NoLostUpdate == Spec => []FirstCommitterWins
<1>1. ExecutorInv => FirstCommitterWins
  BY DEF ExecutorInv
<1>2. QED
  BY ExecutorInvariant, <1>1, PTL
=============================================================================
