---------------------------- MODULE SqlExecutor -----------------------------
(***************************************************************************)
(* sql.Executor and kv.Table behind server.handle: every connection has an *)
(* executor of its own over the shared tables, with at most one explicit   *)
(* transaction.  A request runs while its connection holds the server's    *)
(* mutex ("req"); "plan" holds what is left of it: the statements of the   *)
(* request and the row operations they expand to.                          *)
(*                                                                         *)
(* A table has a key column and one other column, so a row is a key and a  *)
(* value.  The rows live in a kv.Store with an index, which Scan and Get   *)
(* read, and version chains, "log" (see Versions), which snapshots read;   *)
(* a version that a commit wrote remembers, as a ghost, the snapshot of    *)
(* the transaction ("since").  An element of Tables is one table object: a *)
(* name that is dropped and created again is another.                      *)
(***************************************************************************)
EXTENDS Versions, FiniteSets, SequencesExt

CONSTANTS Clients,      \* connections
          Tables,       \* table objects
          Initial,      \* the ones that exist when the server starts
          Values,       \* values of the second column
          Null,         \* NULL, one of Values
          BadValues,    \* values that Table.encode rejects
          BigValues,    \* values whose encoded row fits no page of the store
          Unique,       \* tables whose second column is UNIQUE
          Ref,          \* Ref[t]: the table t's second column REFERENCES, or None
          NoWrite,      \* no entry in a transaction's write set
          Requests,     \* requests, sequences of statements
          Disconnects,  \* whether clients disconnect inside a transaction
          MaxRequests   \* bound on requests

Given == Values \cup BadValues \cup BigValues
AnyValue == Given \cup {None}

ASSUME ExecutorAssumption ==
  /\ IsFiniteSet(Keys) /\ Keys \subseteq Nat \ {0}
  /\ IsFiniteSet(Tables)
  /\ Initial \subseteq Tables /\ Unique \subseteq Tables
  /\ Null \in Values
  /\ None \notin Given \cup Nat /\ NoWrite \notin AnyValue
  /\ Values \cap (BadValues \cup BigValues) = {}
  /\ Ref \in [Tables -> Tables \cup {None}]
  /\ Disconnects \in BOOLEAN
  /\ MaxRequests \in Nat

VARIABLES log,      \* versions of each table's store
          index,    \* index of each table's store: the row of a key, or None
          sec,      \* secondary index of each table: <<value, key>> pairs
          status,   \* new, open (and registered) or dropped (and closed)
          leases,   \* activeSnapshots of each table's store
          tx,       \* transaction of each connection, or None
          req,      \* the request that holds the mutex, or None
          plan,     \* what is left of it
          used      \* requests so far

db == <<log, index, sec, status, leases>>
vars == <<db, tx, req, plan, used>>

Registered == {t \in Tables : status[t] = "open"}
Control == {"begin", "commit", "rollback"}

(* Table.Scan: the value of every key, None where there is no row. *)
Scan(t) == index[t]
Live(rows) == {k \in Keys : rows[k] # None}

InTx(c) == tx[c] # None
TxTables(c) == Range(tx[c].order)

(* The rows R with a write set over them. *)
Overlay(w, R) == [k \in Keys |-> IF w[k] # NoWrite THEN w[k] ELSE R[k]]

(* Mutant: a transaction reads the tables as they are now. *)
rowsCurrent(c, t) ==
  IF InTx(c) /\ t \in TxTables(c) THEN Overlay(tx[c].writes[t], Scan(t)) ELSE Scan(t)

(* Table.ScanAt: the rows at a snapshot, from the version chains. *)
ScanAt(t, s) == [k \in Keys |-> GetAt(log[t], s, k)]

(* Executor.rows: the snapshot with the write set over it; a table the     *)
(* transaction does not know is read as it is.                             *)
rows(c, t) ==
  IF InTx(c) /\ t \in TxTables(c)
  THEN Overlay(tx[c].writes[t], ScanAt(t, tx[c].at[t]))
  ELSE Scan(t)

(* Statements and row operations: what to do, table, key, value, and the   *)
(* rows that satisfy WHERE.                                                *)
Step(do, t, k, v) == [do |-> do, t |-> t, key |-> k, val |-> v, where |-> {}]
RowSteps(do, t, R, K) ==
  LET ks == SetToSortSeq(K, <)
  IN [i \in DOMAIN ks |-> Step(do, t, ks[i], R[ks[i]])]
TableSteps(do, ts) == [i \in DOMAIN ts |-> Step(do, ts[i], None, None)]

Doing(do) == req # None /\ plan # <<>> /\ Head(plan).do = do
This == Head(plan)
Me == req.client
Continue(steps) == plan' = steps \o Tail(plan)

(* A statement returns an error: the request ends, but a request of        *)
(* several plain statements first puts back the rows it started from.      *)
AllOrNothing(c, parts) ==
  /\ Len(parts) > 1 /\ ~InTx(c)
  /\ \A i \in DOMAIN parts : parts[i].do \notin Control

(* Mutant: the statement that failed is tried again. *)
FailRetries == req' = [req EXCEPT !.failed = TRUE, !.atomic = FALSE] /\ plan' = plan

Fail ==
  /\ req' = [req EXCEPT !.failed = TRUE, !.atomic = FALSE]
  /\ plan' = IF req.atomic THEN TableSteps("restore", req.tables) ELSE <<>>

-----------------------------------------------------------------------------
Init ==
  /\ log = [t \in Tables |-> <<>>]
  /\ index = [t \in Tables |-> [k \in Keys |-> None]]
  /\ sec = [t \in Tables |-> {}]
  /\ status = [t \in Tables |-> IF t \in Initial THEN "open" ELSE "new"]
  /\ leases = [t \in Tables |-> 0]
  /\ tx = [c \in Clients |-> None]
  /\ req = None /\ plan = <<>> /\ used = 0

(* The next id INSERT would derive from the rows the executor sees. *)
nextId(c, t) ==
  LET ids == Live(rows(c, t))
  IN IF ids = {} THEN 1 ELSE 1 + CHOOSE k \in ids : \A j \in ids : j <= k

(* What the model can express: ids stay in Keys, objects are created once. *)
Expressible(c, parts) ==
  \A i \in DOMAIN parts :
    /\ parts[i].do = "insert" /\ parts[i].key = None =>
         nextId(c, parts[i].t) + Len(parts) - 1 \in Keys
    /\ parts[i].do = "create" => status[parts[i].t] # "dropped"

(* handle takes the mutex and Executor.Execute starts; a request that is   *)
(* all or nothing first scans the tables, in the order of a map iteration. *)
Execute(c, parts) ==
  /\ req = None /\ used < MaxRequests /\ Expressible(c, parts)
  /\ used' = used + 1
  /\ \E order \in IF AllOrNothing(c, parts) THEN SetToSeqs(Registered) ELSE {<<>>} :
       req' = [client |-> c, parts |-> parts, failed |-> FALSE, gone |-> FALSE,
               inTx |-> InTx(c), atomic |-> AllOrNothing(c, parts),
               tables |-> order, before |-> [t \in Tables |-> Scan(t)]]
  /\ plan' = parts
  /\ UNCHANGED <<db, tx>>

(* The connection ends inside a transaction: handle's deferred ROLLBACK. *)
Disconnect(c) ==
  /\ Disconnects /\ req = None /\ InTx(c) /\ used < MaxRequests
  /\ used' = used + 1
  /\ plan' = <<Step("rollback", None, None, None)>>
  /\ req' = [client |-> c, parts |-> plan', failed |-> FALSE, gone |-> TRUE,
             inTx |-> TRUE, atomic |-> FALSE, tables |-> <<>>,
             before |-> [t \in Tables |-> Scan(t)]]
  /\ UNCHANGED <<db, tx>>

(* The answer is written and the mutex free; a connection that is gone     *)
(* takes its executor with it, ended transaction or not.                   *)
Respond ==
  /\ req # None /\ plan = <<>>
  /\ req' = None
  /\ tx' = IF req.gone THEN [tx EXCEPT ![Me] = None] ELSE tx
  /\ UNCHANGED <<db, plan, used>>

-----------------------------------------------------------------------------
(* begin, commit, rollback.  A transaction keeps, for every registered     *)
(* table in the order of a map iteration, the snapshot, the rows for       *)
(* ROLLBACK and the write set; "view" is a ghost, what the client should   *)
(* see.                                                                    *)
begin ==
  /\ Doing("begin")
  /\ ~InTx(Me)
  /\ \E order \in SetToSeqs(Registered) :
       tx' = [tx EXCEPT ![Me] =
                [order |-> order,
                 at |-> [t \in Tables |-> Len(log[t])],
                 image |-> [t \in Tables |-> Scan(t)],
                 writes |-> [t \in Tables |-> [k \in Keys |-> NoWrite]],
                 view |-> [t \in Tables |-> Scan(t)]]]
  /\ leases' = [t \in Tables |-> leases[t] + IF t \in Registered THEN 1 ELSE 0]
  /\ Continue(<<>>)
  /\ UNCHANGED <<log, index, sec, status, req, used>>

(* "transaction already in progress", "no transaction in progress" *)
controlFails ==
  /\ \/ Doing("begin") /\ InTx(Me)
     \/ (Doing("commit") \/ Doing("rollback")) /\ ~InTx(Me)
  /\ Fail
  /\ UNCHANGED <<db, tx, used>>

Written(c, t) == {k \in Keys : tx[c].writes[t][k] # NoWrite}

Conflict(c) ==
  \E t \in TxTables(c) : \E k \in Written(c, t) :
    ChangedSince(log[t], tx[c].at[t], k)

commitConflict ==
  /\ Doing("commit") /\ InTx(Me)
  /\ Conflict(Me)
  /\ Fail
  /\ UNCHANGED <<db, tx, used>>

(* Table.ApplyRowsBatch of the staged rows of keys ks.  It fails before    *)
(* anything is applied when a row cannot be encoded or the store is        *)
(* closed, and half-way at a row that fits no page; constraints and        *)
(* secondary index are not looked at.                                      *)
Batch(c, t, ks) ==
  [i \in DOMAIN ks |-> [key |-> ks[i], val |-> tx[c].writes[t][ks[i]],
                        since |-> tx[c].at[t]]]
Staged(c, t, V) == {k \in Written(c, t) : tx[c].writes[t][k] \in V}
Refused(c, t) == status[t] # "open" \/ Staged(c, t, BadValues) # {}
BatchFails(c, t) == Refused(c, t) \/ Staged(c, t, BigValues) # {}

(* The tables of S with the batches of c applied. *)
LogWith(c, S) ==
  [t \in Tables |-> IF t \in S THEN log[t] \o Batch(c, t, SetToSeq(Written(c, t)))
                    ELSE log[t]]
IndexWith(c, S) ==
  [t \in Tables |-> IF t \in S THEN Overlay(tx[c].writes[t], index[t]) ELSE index[t]]

(* ReleaseSnapshot on every table of the transaction. *)
releaseSnapshots(c) ==
  leases' = [t \in Tables |-> IF t \in TxTables(c) /\ leases[t] > 0
                              THEN leases[t] - 1 ELSE leases[t]]

(* Mutant: no check for conflicts. *)
commitUnchecked ==
  /\ Doing("commit") /\ InTx(Me)
  /\ \A t \in TxTables(Me) : ~BatchFails(Me, t)
  /\ log' = LogWith(Me, TxTables(Me))
  /\ index' = IndexWith(Me, TxTables(Me))
  /\ releaseSnapshots(Me)
  /\ tx' = [tx EXCEPT ![Me] = None]
  /\ Continue(<<>>)
  /\ UNCHANGED <<sec, status, req, used>>

commit ==
  /\ Doing("commit") /\ InTx(Me)
  /\ ~Conflict(Me)
  /\ \A t \in TxTables(Me) : ~BatchFails(Me, t)
  /\ log' = LogWith(Me, TxTables(Me))
  /\ index' = IndexWith(Me, TxTables(Me))
  /\ releaseSnapshots(Me)
  /\ tx' = [tx EXCEPT ![Me] = None]
  /\ Continue(<<>>)
  /\ UNCHANGED <<sec, status, req, used>>

(* The batches before the first one that is refused stay applied. *)
Before(c, n) == {tx[c].order[m] : m \in 1 .. n - 1}

FirstToFail(c, n) ==
  /\ n \in DOMAIN tx[c].order
  /\ BatchFails(c, tx[c].order[n])
  /\ \A t \in Before(c, n) : ~BatchFails(c, t)

commitPartly(n) ==
  /\ Doing("commit") /\ InTx(Me) /\ ~Conflict(Me)
  /\ FirstToFail(Me, n) /\ Refused(Me, tx[Me].order[n])
  /\ log' = LogWith(Me, Before(Me, n))
  /\ index' = IndexWith(Me, Before(Me, n))
  /\ Fail
  /\ UNCHANGED <<sec, status, leases, tx, used>>

(* Store.ApplyBatch stops at the first row, in the order of a map          *)
(* iteration, that fits no page: the rows of K are applied, the version of *)
(* row k exists and its index entry does not.                              *)
commitHalfBatch(n, K, k) ==
  LET t == tx[Me].order[n] IN
  /\ Doing("commit") /\ InTx(Me) /\ ~Conflict(Me)
  /\ FirstToFail(Me, n) /\ ~Refused(Me, t)
  /\ k \in Staged(Me, t, BigValues)
  /\ K \subseteq Written(Me, t) \ Staged(Me, t, BigValues)
  /\ log' = [LogWith(Me, Before(Me, n)) EXCEPT
               ![t] = @ \o Batch(Me, t, Append(SetToSeq(K), k))]
  /\ index' = [IndexWith(Me, Before(Me, n)) EXCEPT
                 ![t] = [j \in Keys |-> IF j \in K THEN tx[Me].writes[t][j] ELSE @[j]]]
  /\ Fail
  /\ UNCHANGED <<sec, status, leases, tx, used>>

rollback ==
  /\ Doing("rollback") /\ InTx(Me)
  /\ Continue(TableSteps("undo", tx[Me].order)
              \o <<Step("release", None, None, None)>>)
  /\ UNCHANGED <<db, tx, req, used>>

(* DeleteWhere of all rows, then Insert of the rows kept: by ROLLBACK the  *)
(* rows at BEGIN, and an error ends it; by a failed request the rows at    *)
(* its start, and errors are ignored.                                      *)
undo ==
  /\ Doing("undo")
  /\ LET image == tx[Me].image[This.t] IN
     Continue(RowSteps("del", This.t, Scan(This.t), Live(Scan(This.t)))
              \o RowSteps("put", This.t, image, Live(image)))
  /\ UNCHANGED <<db, tx, req, used>>

restore ==
  /\ Doing("restore")
  /\ LET image == req.before[This.t] IN
     Continue(RowSteps("tryDel", This.t, Scan(This.t), Live(Scan(This.t)))
              \o RowSteps("tryPut", This.t, image, Live(image)))
  /\ UNCHANGED <<db, tx, req, used>>

(* Mutant: ROLLBACK forgets the snapshots. *)
releaseNothing ==
  /\ Doing("release")
  /\ tx' = [tx EXCEPT ![Me] = None]
  /\ Continue(<<>>)
  /\ UNCHANGED <<db, req, used>>

release ==
  /\ Doing("release")
  /\ releaseSnapshots(Me)
  /\ tx' = [tx EXCEPT ![Me] = None]
  /\ Continue(<<>>)
  /\ UNCHANGED <<log, index, sec, status, req, used>>

-----------------------------------------------------------------------------
(* insert, update, delete: the rows a statement changes, with None for a   *)
(* deleted row.  In a transaction they go to the write set of a table that *)
(* the transaction knows (recordWrite); otherwise to the table, row by     *)
(* row.                                                                    *)
Over(w, R) == [k \in Keys |-> IF k \in DOMAIN w THEN w[k] ELSE R[k]]

(* Mutant: a staged change is also made to the table at once. *)
performThrough(t, w) ==
  /\ Continue(RowSteps("del", t, w, {k \in DOMAIN w : w[k] = None})
              \o RowSteps("put", t, w, {k \in DOMAIN w : w[k] # None}))
  /\ tx' = IF InTx(Me)
           THEN [tx EXCEPT ![Me].writes[t] = Over(w, @), ![Me].view[t] = Over(w, @)]
           ELSE tx
  /\ UNCHANGED <<db, req, used>>

perform(t, w) ==
  /\ IF InTx(Me)
     THEN /\ Continue(<<>>)
          /\ tx' = [tx EXCEPT ![Me].writes[t] = IF t \in TxTables(Me) THEN Over(w, @)
                                                ELSE @,
                              ![Me].view[t] = Over(w, @)]
     ELSE /\ Continue(RowSteps("del", t, w, {k \in DOMAIN w : w[k] = None})
                      \o RowSteps("put", t, w, {k \in DOMAIN w : w[k] # None}))
          /\ tx' = tx
  /\ UNCHANGED <<db, req, used>>

Matching(c, t, where) == {k \in Live(rows(c, t)) : <<k, rows(c, t)[k]>> \in where}

foreignKeyFails(c, t, v) ==
  /\ Ref[t] # None /\ v # Null
  /\ Ref[t] \notin Registered \/ \A k \in Keys : rows(c, Ref[t])[k] # v

insert(t, v) ==
  /\ Doing("insert") /\ This.t = t /\ This.val = v
  /\ t \in Registered /\ ~foreignKeyFails(Me, t, v)
  /\ perform(t, [k \in {IF This.key = None THEN nextId(Me, t) ELSE This.key} |-> v])

update(t, v) ==
  /\ Doing("update") /\ This.t = t /\ This.val = v
  /\ t \in Registered
  /\ perform(t, [k \in Matching(Me, t, This.where) |-> v])

delete(t) ==
  /\ Doing("delete") /\ This.t = t
  /\ t \in Registered
  /\ perform(t, [k \in Matching(Me, t, This.where) |-> None])

(* DDL acts at once, in a transaction or not; connections have no catalog. *)
create ==
  /\ Doing("create")
  /\ status[This.t] = "new"
  /\ status' = [status EXCEPT ![This.t] = "open"]
  /\ Continue(<<>>)
  /\ UNCHANGED <<log, index, sec, leases, tx, req, used>>

drop ==
  /\ Doing("drop")
  /\ This.t \in Registered
  /\ status' = [status EXCEPT ![This.t] = "dropped"]
  /\ Continue(<<>>)
  /\ UNCHANGED <<log, index, sec, leases, tx, req, used>>

(* "unknown table", "already exists", "foreign key constraint failed" *)
statementFails ==
  /\ \/ /\ Doing("insert") \/ Doing("update") \/ Doing("delete") \/ Doing("drop")
        /\ This.t \notin Registered
     \/ Doing("insert") /\ foreignKeyFails(Me, This.t, This.val)
     \/ Doing("create") /\ status[This.t] = "open"
  /\ Fail
  /\ UNCHANGED <<db, tx, used>>

-----------------------------------------------------------------------------
(* Table.Insert: encode, UNIQUE against the live rows of other keys, then  *)
(* the store and the secondary index.  A store that is closed refuses the  *)
(* log record.                                                             *)
(* Mutant: UNIQUE is not checked. *)
rejectsUnencodable(t, k, v) == status[t] # "open" \/ v \in BadValues

rejects(t, k, v) ==
  \/ status[t] # "open" \/ v \in BadValues
  \/ t \in Unique /\ v # Null /\ \E j \in Keys \ {k} : Scan(t)[j] = v

(* A version written without a snapshot: by a statement outside of         *)
(* transactions, by ROLLBACK or by the undo of a request.                  *)
Version(k, v) == [key |-> k, val |-> v, since |-> None]

(* Mutant: the entry of the row that is replaced stays in the index. *)
PutRowIndexesOnly(t, k, v) ==
  /\ Doing("put") \/ Doing("tryPut")
  /\ This = Step(This.do, t, k, v)
  /\ ~rejects(t, k, v) /\ v \notin BigValues
  /\ log' = [log EXCEPT ![t] = Append(@, Version(k, v))]
  /\ index' = [index EXCEPT ![t][k] = v]
  /\ sec' = [sec EXCEPT ![t] = @ \cup {<<v, k>>}]
  /\ Continue(<<>>)
  /\ UNCHANGED <<status, leases, tx, req, used>>

PutRow(t, k, v) ==
  /\ Doing("put") \/ Doing("tryPut")
  /\ This = Step(This.do, t, k, v)
  /\ ~rejects(t, k, v) /\ v \notin BigValues
  /\ log' = [log EXCEPT ![t] = Append(@, Version(k, v))]
  /\ index' = [index EXCEPT ![t][k] = v]
  /\ sec' = [sec EXCEPT ![t] = (@ \ {<<Scan(t)[k], k>>}) \cup {<<v, k>>}]
  /\ Continue(<<>>)
  /\ UNCHANGED <<status, leases, tx, req, used>>

(* Mutant: the deleted row is indexed again. *)
DelRowReindexes(t, k) ==
  /\ Doing("del") \/ Doing("tryDel")
  /\ This.t = t /\ This.key = k
  /\ status[t] = "open" /\ Scan(t)[k] # None
  /\ log' = [log EXCEPT ![t] = Append(@, Version(k, None))]
  /\ index' = [index EXCEPT ![t][k] = None]
  /\ sec' = [sec EXCEPT ![t] = (@ \ {<<Scan(t)[k], k>>}) \cup {<<None, k>>}]
  /\ Continue(<<>>)
  /\ UNCHANGED <<status, leases, tx, req, used>>

(* Table.Delete of a key that has a row. *)
DelRow(t, k) ==
  /\ Doing("del") \/ Doing("tryDel")
  /\ This.t = t /\ This.key = k
  /\ status[t] = "open" /\ Scan(t)[k] # None
  /\ log' = [log EXCEPT ![t] = Append(@, Version(k, None))]
  /\ index' = [index EXCEPT ![t][k] = None]
  /\ sec' = [sec EXCEPT ![t] = @ \ {<<Scan(t)[k], k>>}]
  /\ Continue(<<>>)
  /\ UNCHANGED <<status, leases, tx, req, used>>

(* The row fits no page: the store has numbered and filed the version when *)
(* it finds out, and leaves it there.  Rows that are put back were stored  *)
(* before, so this is a row of a statement.                                *)
PutTooLarge(t, k, v) ==
  /\ Doing("put")
  /\ This = Step("put", t, k, v)
  /\ ~rejects(t, k, v) /\ v \in BigValues
  /\ log' = [log EXCEPT ![t] = Append(@, Version(k, v))]
  /\ Fail
  /\ UNCHANGED <<index, sec, status, leases, tx, used>>

(* A row operation that returns an error. *)
rowFails ==
  /\ \/ Doing("put") /\ rejects(This.t, This.key, This.val)
     \/ Doing("del") /\ status[This.t] # "open"
  /\ Fail
  /\ UNCHANGED <<db, tx, used>>

(* Mutant: the first error ends the undo of the request. *)
rowErrorEnds ==
  /\ \/ Doing("tryPut") /\ rejects(This.t, This.key, This.val)
     \/ Doing("tryDel") /\ status[This.t] # "open"
  /\ plan' = <<>>
  /\ UNCHANGED <<db, tx, req, used>>

(* The same where the error is ignored. *)
rowErrorIgnored ==
  /\ \/ Doing("tryPut") /\ rejects(This.t, This.key, This.val)
     \/ Doing("tryDel") /\ status[This.t] # "open"
  /\ Continue(<<>>)
  /\ UNCHANGED <<db, tx, req, used>>

-----------------------------------------------------------------------------
Running ==
  \/ begin \/ commit \/ rollback \/ controlFails \/ commitConflict
  \/ \E n \in 1 .. Cardinality(Tables) :
        \/ commitPartly(n)
        \/ \E K \in SUBSET Keys, k \in Keys : commitHalfBatch(n, K, k)
  \/ undo \/ restore \/ release
  \/ \E t \in Tables, v \in Given : insert(t, v) \/ update(t, v)
  \/ \E t \in Tables : delete(t)
  \/ create \/ drop \/ statementFails
  \/ \E t \in Tables, k \in Keys, v \in Values : PutRow(t, k, v)
  \/ \E t \in Tables, k \in Keys, v \in BigValues : PutTooLarge(t, k, v)
  \/ \E t \in Tables, k \in Keys : DelRow(t, k)
  \/ rowFails \/ rowErrorIgnored
  \/ Respond

Next ==
  \/ \E c \in Clients, parts \in Requests : Execute(c, parts)
  \/ \E c \in Clients : Disconnect(c)
  \/ Running

Spec == Init /\ [][Next]_vars

(* A request that holds the mutex waits for nothing and keeps running. *)
FairSpec == Spec /\ WF_vars(Running)

-----------------------------------------------------------------------------
RowMap == [Keys -> AnyValue]
VersionType == [key : Keys, val : AnyValue, since : Nat \cup {None}]
TxType ==
  [order : Seq(Tables), at : [Tables -> Nat], image : [Tables -> RowMap],
   writes : [Tables -> [Keys -> AnyValue \cup {NoWrite}]], view : [Tables -> RowMap]]

ReqType ==
  [client : Clients, parts : Requests \cup {<<Step("rollback", None, None, None)>>},
   failed : BOOLEAN, gone : BOOLEAN, inTx : BOOLEAN, atomic : BOOLEAN,
   tables : Seq(Tables), before : [Tables -> RowMap]]

TypeOK ==
  /\ log \in [Tables -> Seq(VersionType)]
  /\ index \in [Tables -> [Keys -> Values \cup {None}]]
  /\ sec \in [Tables -> SUBSET (Values \X Keys)]
  /\ status \in [Tables -> {"new", "open", "dropped"}]
  /\ leases \in [Tables -> Nat]
  /\ tx \in [Clients -> TxType \cup {None}]
  /\ req \in ReqType \cup {None}
  /\ used \in 0 .. MaxRequests

(***************************************************************************)
(* First committer wins: a commit never covers a version of a row that was *)
(* added after its transaction's BEGIN, whoever added it: another commit,  *)
(* whole or half-way, a statement outside of transactions, a write that    *)
(* the store rejected too late, or a ROLLBACK that rewrote the table.      *)
(* ROLLBACK and the undo of a request cover what they find; they are not   *)
(* meant.                                                                  *)
(***************************************************************************)
FirstCommitterWins ==
  \A t \in Tables : \A i, j \in DOMAIN log[t] :
    /\ i < j /\ log[t][i].key = log[t][j].key
    /\ log[t][j].since # None
    => i <= log[t][j].since

(***************************************************************************)
(* Snapshot reads and read-your-writes: whatever other connections commit, *)
(* roll back or write meanwhile, the rows a transaction's statements work  *)
(* on are the ones at its BEGIN with its own changes, and nothing else, as *)
(* long as the store has refused no row too late (PutTooLarge).            *)
(***************************************************************************)
ReadsOwnWrites ==
  \A c \in Clients : InTx(c) => \A t \in Tables :
    status[t] # "new" => rows(c, t) = tx[c].view[t]

(***************************************************************************)
(* When no request runs, the snapshots held on a table's store are exactly *)
(* those of the open transactions that know the table: none is leaked,     *)
(* which would keep Compact refused, and none is released twice.           *)
(***************************************************************************)
LeasesMatch ==
  req = None => \A t \in Tables :
    leases[t] = Cardinality({c \in Clients : InTx(c) /\ t \in TxTables(c)})

(* The request is over and its answer is about to be sent. *)
Answering == req # None /\ plan = <<>>
RowsAsBefore == \A t \in Tables : Scan(t) = req.before[t]
Controls(parts) == \E i \in DOMAIN parts : parts[i].do \in Control

(***************************************************************************)
(* Changes are staged privately: a request made inside a transaction that  *)
(* does not end it changes no table, whether it succeeds or fails.         *)
(***************************************************************************)
StagedPrivately ==
  Answering /\ req.inTx /\ ~Controls(req.parts) => RowsAsBefore

(***************************************************************************)
(* A request of several statements, none of them BEGIN, COMMIT or          *)
(* ROLLBACK, made outside of a transaction: when one of them fails, every  *)
(* table that was there and still is has its rows back, also when the      *)
(* undo meets errors at a table that the request has dropped.  What CREATE *)
(* and DROP did stays.                                                     *)
(***************************************************************************)
FailedBatchUndone ==
  Answering /\ req.failed /\ Len(req.parts) > 1 /\ ~req.inTx /\ ~Controls(req.parts)
  => \A t \in Range(req.tables) : status[t] = "open" => Scan(t) = req.before[t]

(***************************************************************************)
(* ROLLBACK, or the one made for a client that disconnects, discards the   *)
(* staged writes and nothing else: every table is as it was before.        *)
(***************************************************************************)
Rollbacks == req.inTx /\ Len(req.parts) = 1 /\ req.parts[1].do = "rollback"
RollbackDiscards == Answering /\ Rollbacks => RowsAsBefore

(***************************************************************************)
(* No two rows of a table have the same value, NULL aside, in a column     *)
(* that is UNIQUE.                                                         *)
(***************************************************************************)
UniqueHolds ==
  \A t \in Unique : \A j, k \in Keys :
    j # k /\ Scan(t)[j] = Scan(t)[k] => Scan(t)[j] \in {None, Null}

(***************************************************************************)
(* The secondary index finds every row by its value and no others, so that *)
(* an equality filter answers the same through Find as through Scan.       *)
(***************************************************************************)
IndexMatchesRows ==
  \A t \in Tables : sec[t] = {<<Scan(t)[k], k>> : k \in Live(Scan(t))}

(***************************************************************************)
(* Every request is answered and the mutex given back.                     *)
(***************************************************************************)
RequestsAnswered == req # None ~> req = None
=============================================================================
