--------------------------- MODULE MCSqlExecutor ----------------------------
(***************************************************************************)
(* Requests for the runs of SqlExecutor.                                   *)
(***************************************************************************)
EXTENDS SqlExecutor

CONSTANTS t1, t2, a, b, bad, big

Begin == Step("begin", None, None, None)
Commit == Step("commit", None, None, None)
Rollback == Step("rollback", None, None, None)
Insert(t, k, v) == Step("insert", t, k, v)
Where(do, t, v, w) == [Step(do, t, None, v) EXCEPT !.where = w]
All == Keys \X Values
OfKey(k) == {k} \X Values
OfValue(v) == Keys \X {v}

NoRefs == [t \in Tables |-> None]
Refs == [t \in Tables |-> IF t = t2 THEN t1 ELSE None]

(* One table, transactions and statements outside of them. *)
TxRequests ==
  {<<Begin>>, <<Begin, Insert(t1, 1, a)>>, <<Commit>>, <<Rollback>>,
   <<Insert(t1, None, b)>>,
   <<Where("update", t1, b, OfValue(a))>>, <<Where("delete", t1, None, All)>>}

(* No transactions: UNIQUE, a foreign key, rows that cannot be encoded or  *)
(* stored, tables that come and go, and requests of several statements.    *)
AutoRequests ==
  {<<Insert(t1, 1, a)>>, <<Insert(t1, None, b)>>, <<Insert(t1, 2, Null)>>,
   <<Insert(t2, None, a)>>,
   <<Where("update", t1, a, All)>>, <<Where("update", t1, Null, OfKey(1))>>,
   <<Where("delete", t1, None, OfValue(a))>>, <<Where("delete", t2, None, All)>>,
   <<Step("create", t2, None, None)>>, <<Step("drop", t2, None, None)>>,
   <<Insert(t1, 2, b), Insert(t1, 1, bad)>>,
   <<Where("delete", t1, None, All), Insert(t2, 1, a)>>,
   <<Where("delete", t1, None, All), Insert(t1, 3, big)>>,
   <<Insert(t1, 2, b), Step("drop", t2, None, None), Insert(t1, 1, bad)>>,
   <<Step("create", t2, None, None), Insert(t2, 1, Null), Insert(t1, 1, bad)>>}

(* Transactions whose batches fail, and tables dropped under them. *)
FailureRequests ==
  {<<Begin>>, <<Commit>>, <<Rollback>>,
   <<Insert(t1, 1, a)>>, <<Insert(t2, 1, bad)>>, <<Insert(t1, 2, big)>>,
   <<Begin, Insert(t1, 1, b)>>,
   <<Step("drop", t1, None, None)>>,
   <<Insert(t1, 2, b), Step("drop", t1, None, None), Insert(t1, 1, b)>>}

(* For the counterexamples to what the documentation says. *)
RollbackRequests == {<<Begin>>, <<Rollback>>, <<Insert(t1, 1, a)>>}
UniqueRequests == {<<Begin>>, <<Commit>>, <<Insert(t1, None, a)>>}
BigRequests == {<<Begin>>, <<Insert(t1, 1, big)>>}
PartialRequests == {<<Begin, Insert(t1, 1, a), Insert(t2, 1, bad), Commit>>}
CreateRequests == {<<Begin>>, <<Step("create", t2, None, None)>>, <<Insert(t2, 1, a)>>}
DropRequests == {<<Begin>>, <<Rollback>>, <<Insert(t1, 1, a)>>,
                 <<Step("drop", t1, None, None)>>}
=============================================================================
