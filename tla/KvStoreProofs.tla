--------------------------- MODULE KvStoreProofs ----------------------------
(***************************************************************************)
(* Proofs about the store for any keys, values, batches, page size, pool   *)
(* size and bounds: the type invariant, and that a held snapshot keeps     *)
(* showing the same values.                                                *)
(***************************************************************************)
EXTENDS KvStore, VersionsProofs

-----------------------------------------------------------------------------
(* The value GetAt returns is a logged one or None. *)
LEMMA GetAtType ==
  ASSUME NEW recs \in Seq(Update), NEW s \in Nat, NEW k
  PROVE  GetAt(recs, s, k) \in AnyValue
<1>1. None \in AnyValue /\ \A u \in Update : u.val \in AnyValue
  BY DEF AnyValue, Update
<1>2. QED
  BY <1>1, GetAtValue

(* Records applied to a map of values give a map of values. *)
LEMMA ApplyType ==
  ASSUME NEW m \in [Keys -> AnyValue], NEW recs \in Seq(Update)
  PROVE  Apply(m, recs) \in [Keys -> AnyValue]
<1>1. \A k \in Keys : GetAt(recs, Len(recs), k) \in AnyValue
  BY GetAtType, LenProperties
<1>2. QED
  BY <1>1 DEF Apply

-----------------------------------------------------------------------------
(* The number of pages and the record positions of Compact's new file are  *)
(* natural numbers.                                                        *)
LEMMA PageArithmetic ==
  ASSUME NEW n \in Nat, NEW c \in Nat \ {0}
  PROVE  /\ (n + c - 1) \div c \in Nat
         /\ \A p \in Nat \ {0} : (p - 1) * c \in Nat /\ p * c \in Nat
<1>1. n + c - 1 \in Nat
  OBVIOUS
<1>2. \A m \in Nat : m \div c \in Nat
  OBVIOUS
<1>3. \A p \in Nat : p * c \in Nat
  OBVIOUS
<1>4. \A p \in Nat \ {0} : p - 1 \in Nat
  OBVIOUS
<1>5. QED
  BY <1>1, <1>2, <1>3, <1>4, SMTT(60)

(* Compact's new file is a sequence of pages. *)
LEMMA CompactedType ==
  ASSUME index \in [Keys -> AnyValue]
  PROVE  CompactedPages \in Seq(Page)
<1> DEFINE live == {k \in Keys : index[k] # None}
           ks == SetToSeq(live)
           recs == [i \in 1 .. Len(ks) |-> [key |-> ks[i], val |-> index[ks[i]]]]
           pages == (Len(ks) + PageCap - 1) \div PageCap
           page(p) == [recs |-> SubSeq(recs, (p - 1) * PageCap + 1,
                         IF p * PageCap < Len(ks) THEN p * PageCap ELSE Len(ks)),
                       next |-> IF p < pages THEN p + 1 ELSE 0]
<1>1. IsFiniteSet(live)
  BY FS_Subset, StoreAssumption
<1>2. ks \in [1 .. Cardinality(live) -> live] /\ Cardinality(live) \in Nat
  BY <1>1, SetToSeqLists, ZenonT(60)
<1>3. Len(ks) \in Nat /\ ks \in [1 .. Len(ks) -> Keys]
  <2> HIDE DEF ks, live
  <2>1. Len(ks) = Cardinality(live)
    BY <1>2, FunctionIsSeq
  <2>2. live \subseteq Keys
    BY DEF live
  <2>3. QED
    BY <1>2, <2>1, <2>2
<1> HIDE DEF ks
<1>4. \A i \in 1 .. Len(ks) : recs[i] \in Update
  BY <1>3 DEF Update
<1>5. pages \in Nat
  BY <1>3, PageArithmetic, StoreAssumption, SMTT(60)
<1>6. ASSUME NEW p \in 1 .. pages
      PROVE  page(p) \in Page
  <2> DEFINE a == (p - 1) * PageCap + 1
             b == IF p * PageCap < Len(ks) THEN p * PageCap ELSE Len(ks)
  <2>1. p \in Nat \ {0}
    BY <1>5
  <2>2. (p - 1) * PageCap \in Nat /\ p * PageCap \in Nat
    BY <2>1, <1>3, PageArithmetic, StoreAssumption, SMTT(60)
  <2>3. a \in Nat /\ a >= 1 /\ b \in Nat /\ b <= Len(ks)
    BY <2>2, <1>3
  <2> HIDE DEF a, b, recs
  <2>4. \A i \in a .. b : recs[i] \in Update
    BY <2>3, <1>3, <1>4
  <2>5. SubSeq(recs, a, b) \in Seq(Update)
    BY <2>3, <2>4, SubSeqProperties
  <2>6. (IF p < pages THEN p + 1 ELSE 0) \in Nat
    BY <1>5, <2>1
  <2>7. QED
    BY <2>5, <2>6 DEF Page, a, b
<1>7. CompactedPages = [p \in 1 .. pages |-> page(p)]
  BY DEF CompactedPages, ks
<1> HIDE DEF pages, page
<1>8. QED
  BY <1>5, <1>6, <1>7, FunctionIsSeq, SMTT(60)

-----------------------------------------------------------------------------
(* The records and steps that the operations are made of have their types. *)
LEMMA StepTypes ==
  /\ \A d \in {"saveIndex", "flush", "clear", "rename", "close", "replay", "scan",
               "opened", "abort"} : Do(d) \in Steps
  /\ \A u \in Update : /\ Log(Rec("write", 0, u)) \in Steps
                       /\ AppendOf(u) \in Steps /\ ApplyOf(u) \in Steps
                       /\ [do |-> "indexDelete", rec |-> Rec("write", 0, u)] \in Steps
  /\ \A u \in Update, id \in Ids : Log(Rec("tx", id, u)) \in Steps
  /\ \A id \in Ids : Log(Commit(id)) \in Steps
  /\ \A r \in WriteRec : Upd(r) \in Update
<1>0. 0 \in Ids
  BY StoreAssumption DEF Ids
<1>1. \A d \in {"saveIndex", "flush", "clear", "rename", "close", "replay", "scan",
               "opened", "abort"} : Do(d) \in Steps
  BY DEF Do, Steps
<1>2. \A u \in Update : Rec("write", 0, u) \in WriteRec
  BY <1>0 DEF Rec, WriteRec, Update
<1>3. \A u \in Update, id \in Ids : Rec("tx", id, u) \in WriteRec
  BY DEF Rec, WriteRec, Update
<1>4. \A id \in Ids : Commit(id) \in WalRec
  BY Zenon DEF Commit, NoRec, WalRec
<1>5. \A r \in WriteRec : Upd(r) \in Update
  BY DEF Upd, WriteRec, Update
<1>6. \A r \in WriteRec : r \in WalRec
  BY DEF WalRec
<1>7. \A r \in WalRec : Log(r) \in Steps
  BY DEF Log, Steps
<1>8. \A r \in WriteRec : /\ [do |-> "append", rec |-> r] \in Steps
                         /\ [do |-> "apply", rec |-> r] \in Steps
                         /\ [do |-> "indexDelete", rec |-> r] \in Steps
  BY DEF Steps
<1>9. QED
  BY <1>1, <1>2, <1>3, <1>4, <1>5, <1>6, <1>7, <1>8, SMTT(60) DEF AppendOf, ApplyOf

(* What the head of todo is about when an action is enabled. *)
LEMMA HeadTypes ==
  ASSUME todo \in Seq(Steps), todo # <<>>
  PROVE  /\ Head(todo) \in Steps /\ Tail(todo) \in Seq(Steps)
         /\ Head(todo).do = "log" => Head(todo).rec \in WalRec
         /\ Head(todo).do \in {"append", "apply", "indexDelete"} =>
               Head(todo).rec \in WriteRec
<1> DEFINE h == Head(todo)
<1>1. h \in Steps /\ Tail(todo) \in Seq(Steps)
  BY HeadTailProperties
<1>2. /\ h.do = "log" => h.rec \in WalRec
      /\ h.do \in {"append", "apply", "indexDelete"} => h.rec \in WriteRec
  <2> HIDE DEF h
  <2>1. QED
    BY <1>1 DEF Steps
<1>3. QED
  BY <1>1, <1>2

(* The steps of an operation stay typed when its head is replaced. *)
LEMMA ContinueType ==
  ASSUME todo \in Seq(Steps), todo # <<>>, NEW steps \in Seq(Steps), Continue(steps)
  PROVE  todo' \in Seq(Steps)
BY HeadTypes, ConcatProperties DEF Continue

(* An operation that starts only sets todo, lastId and the count. *)
LEMMA StartKeeps ==
  ASSUME StoreInv, NEW op, NEW steps \in Seq(Steps), Start(op, steps),
         lastId' \in {lastId, lastId + 1}
  PROVE  StoreInv'
<1> USE DEF Start, StoreInv, files, store
<1>1. lastId' \in Ids /\ lastId' <= used'.ops
      /\ used' \in [ops : 0 .. MaxOps, crashes : 0 .. MaxCrashes, opens : 0 .. MaxOpens]
  <2>1. /\ used \in [ops : 0 .. MaxOps, crashes : 0 .. MaxCrashes, opens : 0 .. MaxOpens]
        /\ lastId \in 0 .. MaxOps /\ lastId <= used.ops /\ used.ops < MaxOps
        /\ used' = [used EXCEPT !.ops = @ + 1]
    BY DEF TypeOK, Ids
  <2>2. used.ops \in 0 .. MaxOps /\ used'.ops = used.ops + 1
    BY <2>1
  <2>3. used' \in [ops : 0 .. MaxOps, crashes : 0 .. MaxCrashes, opens : 0 .. MaxOpens]
    BY <2>1, <2>2, StoreAssumption, SMTT(60)
  <2>4. lastId' \in 0 .. MaxOps /\ lastId' <= used'.ops
    BY <2>1, <2>2, StoreAssumption, SMTT(60)
  <2>5. QED
    BY <2>3, <2>4 DEF Ids
<1>2. TypeOK'
  BY <1>1, SMTT(60) DEF TypeOK
<1>3. HeldSnapshots'
  BY DEF HeldSnapshots
<1>4. QED
  BY <1>1, <1>2, <1>3

(* Put, Delete, ApplyBatch, Flush, Close and Compact keep the invariant.   *)
LEMMA OperationKeeps ==
  ASSUME StoreInv,
         \/ \E k \in Keys, v \in Values \cup BigValues : Put(k, v)
         \/ \E k \in Keys : Delete(k)
         \/ \E ops \in Batches : ApplyBatch(ops)
         \/ Flush \/ Close \/ Compact
  PROVE  StoreInv'
<1>1. ASSUME NEW k \in Keys, NEW v \in Values \cup BigValues, Put(k, v)
      PROVE  StoreInv'
  <2> DEFINE u == [key |-> k, val |-> v]
  <2>1. u \in Update
    BY DEF Update, AnyValue
  <2>2. <<Log(Rec("write", 0, u)), ApplyOf(u)>> \in Seq(Steps)
    <3> HIDE DEF u
    <3>1. Log(Rec("write", 0, u)) \in Steps /\ ApplyOf(u) \in Steps
      BY <2>1, StepTypes, Zenon
    <3>2. QED
      BY <3>1
  <2>3. QED
    BY <1>1, <2>2, StartKeeps, SMTT(60) DEF Put
<1>2. ASSUME NEW k \in Keys, Delete(k)
      PROVE  StoreInv'
  <2> DEFINE u == [key |-> k, val |-> None]
  <2>1. u \in Update
    BY DEF Update, AnyValue
  <2>2. <<Log(Rec("write", 0, u)), ApplyOf(u), Do("saveIndex")>> \in Seq(Steps)
    <3> HIDE DEF u
    <3>1. /\ Log(Rec("write", 0, u)) \in Steps /\ ApplyOf(u) \in Steps
          /\ Do("saveIndex") \in Steps
      BY <2>1, StepTypes, Zenon
    <3>2. QED
      BY <3>1
  <2>3. QED
    BY <1>2, <2>2, StartKeeps, Zenon DEF Delete
<1>3. ASSUME NEW ops \in Batches, ApplyBatch(ops)
      PROVE  StoreInv'
  <2> DEFINE id == lastId + 1
             a == [i \in DOMAIN ops |-> Log(Rec("tx", id, ops[i]))]
             b == [i \in DOMAIN ops |-> ApplyOf(ops[i])]
  <2>1. id \in Ids
    <3>1. /\ used \in [ops : 0 .. MaxOps, crashes : 0 .. MaxCrashes, opens : 0 .. MaxOpens]
          /\ lastId \in 0 .. MaxOps /\ lastId <= used.ops /\ used.ops < MaxOps
      BY <1>3, ZenonT(60) DEF ApplyBatch, Start, StoreInv, TypeOK, Ids
    <3>2. used.ops \in 0 .. MaxOps
      BY <3>1
    <3>3. QED
      BY <3>1, <3>2, StoreAssumption, SMTT(60) DEF Ids
  <2>2. ops \in Seq(Update)
    BY StoreAssumption, ZenonT(60) DEF Update, AnyValue
  <2>3. Len(ops) \in Nat /\ DOMAIN ops = 1 .. Len(ops)
        /\ \A i \in DOMAIN ops : ops[i] \in Update
    BY <2>2, LenProperties, ElementOfSeq
  <2>4. a \in Seq(Steps) /\ b \in Seq(Steps)
    <3>1. a \in [1 .. Len(ops) -> Steps] /\ b \in [1 .. Len(ops) -> Steps]
      BY <2>1, <2>3, StepTypes, ZenonT(60)
    <3> HIDE DEF a, b
    <3>2. QED
      BY <3>1, <2>3, FunctionIsSeq
  <2>5. <<Log(Commit(id))>> \in Seq(Steps) /\ <<Do("saveIndex")>> \in Seq(Steps)
    BY <2>1, StepTypes
  <2>6. a \o <<Log(Commit(id))>> \o b \o <<Do("saveIndex")>> \in Seq(Steps)
    <3> HIDE DEF a, b, id
    <3>1. a \o <<Log(Commit(id))>> \in Seq(Steps)
      BY <2>4, <2>5, ConcatProperties
    <3>2. a \o <<Log(Commit(id))>> \o b \in Seq(Steps)
      BY <2>4, <3>1, ConcatProperties
    <3>3. QED
      BY <2>5, <3>2, ConcatProperties
  <2>7. QED
    BY <1>3, <2>6, StartKeeps, Zenon DEF ApplyBatch
<1>4. ASSUME Flush \/ Close \/ Compact
      PROVE  StoreInv'
  <2>1. /\ <<Do("flush"), Do("saveIndex"), Do("clear")>> \in Seq(Steps)
        /\ <<Do("flush"), Do("saveIndex"), Do("clear"), Do("close")>> \in Seq(Steps)
        /\ <<Do("flush"), Do("rename"), Do("clear")>> \in Seq(Steps)
    BY StepTypes
  <2>2. QED
    BY <1>4, <2>1, StartKeeps, Zenon DEF Flush, Close, Compact
<1>5. QED
  BY <1>1, <1>2, <1>3, <1>4

(* Taking and releasing a snapshot keep the invariant. *)
LEMMA SnapshotKeeps ==
  ASSUME StoreInv, NEW r \in Readers, BeginSnapshot(r) \/ ReleaseSnapshot(r)
  PROVE  StoreInv'
<1> USE DEF StoreInv, BeginSnapshot, ReleaseSnapshot, Ready, files, store
<1>1. Len(log) \in Nat
  BY LenProperties DEF TypeOK
<1>2. TypeOK'
  BY <1>1, ZenonT(60) DEF TypeOK
<1>3. HeldSnapshots'
  <2>1. ASSUME NEW q \in Readers, snap'[q] # None
        PROVE  status = "up" /\ snap'[q] <= Len(log)
    <3>1. CASE q = r
      BY <1>1, <2>1, <3>1 DEF HeldSnapshots, TypeOK
    <3>2. CASE q # r
      <4>1. snap'[q] = snap[q]
        BY <3>2 DEF TypeOK
      <4>2. QED
        BY <2>1, <4>1, SMTT(60) DEF HeldSnapshots
    <3>3. QED
      BY <3>1, <3>2
  <2>2. status' = status /\ log' = log
    OBVIOUS
  <2>3. QED
    BY <2>1, <2>2 DEF HeldSnapshots
<1>4. QED
  BY <1>2, <1>3

-----------------------------------------------------------------------------
(* Snapshots stay held while the status is the same and the log grows.     *)
LEMMA HeldKept ==
  ASSUME StoreInv, snap' = snap, status' = status,
         Len(log') \in Nat, Len(log) <= Len(log')
  PROVE  HeldSnapshots'
<1>1. ASSUME NEW r \in Readers, snap[r] # None
      PROVE  status = "up" /\ snap[r] <= Len(log')
  <2>1. snap[r] \in Nat /\ snap[r] <= Len(log) /\ status = "up"
    BY <1>1 DEF StoreInv, HeldSnapshots, TypeOK
  <2>2. Len(log) \in Nat
    BY LenProperties DEF StoreInv, TypeOK
  <2>3. QED
    BY <2>1, <2>2
<1>2. QED
  BY <1>1 DEF HeldSnapshots

(* The same when the log is not changed. *)
LEMMA HeldSame ==
  ASSUME StoreInv, snap' = snap, status' = status, log' = log
  PROVE  HeldSnapshots'
BY SMTT(60) DEF StoreInv, HeldSnapshots

(* The map an operation decides on is a map of values. *)
LEMMA DecidedType ==
  ASSUME TypeOK
  PROVE  Decided \in [Keys -> AnyValue]
<1>1. ASSUME NEW k \in Keys
      PROVE  Decided[k] \in AnyValue
  <2> DEFINE A == {i \in DOMAIN todo : todo[i].do = "apply" /\ todo[i].rec.key = k}
  <2>1. CASE A = {}
    BY <2>1 DEF Decided, TypeOK
  <2>2. CASE A # {}
    <3>1. A \in SUBSET (1 .. Len(todo)) /\ Len(todo) \in Nat
      BY LenProperties DEF TypeOK
    <3>2. \E i \in A : \A j \in A : j <= i
      <4> HIDE DEF A
      <4>1. QED
        BY <2>2, <3>1, LastPosition, Zenon
    <3> DEFINE m == CHOOSE i \in A : \A j \in A : j <= i
    <3>3. m \in A
      <4> HIDE DEF A
      <4>1. QED
        BY <3>2
    <3>4. Decided[k] = todo[m].rec.val
      BY <2>2 DEF Decided
    <3>5. todo[m] \in Steps /\ todo[m].do = "apply"
      <4> HIDE DEF m
      <4>1. QED
        BY <3>1, <3>3, ElementOfSeq, SMTT(60) DEF TypeOK
    <3> HIDE DEF m, A
    <3>6. todo[m].rec \in WriteRec
      BY <3>5 DEF Steps
    <3>7. QED
      BY <3>4, <3>6 DEF WriteRec
  <2>3. QED
    BY <2>1, <2>2, SMTT(60)
<1>2. QED
  BY <1>1 DEF Decided

(* wal.append keeps the invariant. *)
LEMMA walAppendKeeps ==
  ASSUME StoreInv, walAppend
  PROVE  StoreInv'
<1> USE DEF StoreInv, walAppend, Doing
<1>1. todo' \in Seq(Steps)
  BY ContinueType, EmptySeq, Zenon DEF TypeOK
<1>2. wal' \in Seq(WalRec)
  BY HeadTypes DEF TypeOK
<1>3. kv' \in [Keys -> AnyValue]
  BY DecidedType, SMTT(60) DEF TypeOK
<1>4. TypeOK'
  BY <1>1, <1>2, <1>3, SMTT(60) DEF TypeOK, store
<1>5. QED
  BY <1>4, HeldSame DEF store

(* Store.append leaves everything typed, whichever way it ends.            *)
LEMMA AppendKeeps ==
  ASSUME StoreInv, NEW u \in Update,
         AppendToPage(u) \/ AppendToNewPage(u) \/ AppendTooLarge(u)
  PROVE  StoreInv'
<1>1. appendStarts(u) /\ todo # <<>>
  BY DEF AppendToPage, AppendToNewPage, AppendTooLarge, appendStarts, Doing
<1>t. TypeOK
  BY DEF StoreInv
<1>2. /\ log' \in Seq(Update) /\ Len(log') = Len(log) + 1
      /\ Len(log) \in Nat /\ Len(mem) \in Nat
  BY <1>1, <1>t, LenProperties, SMTT(60) DEF appendStarts, TypeOK
<1>3. first' \in Nat /\ hasPages' \in BOOLEAN
  BY <1>1, <1>2, <1>t, SMTT(60) DEF appendStarts, TypeOK
<1>4. NewPage \in Page
  BY EmptySeq DEF NewPage, Page
<1>5. Pages \in Seq(Page)
  BY <1>4, <1>t DEF Pages, TypeOK
<1>6. mem' \in Seq(Page)
  <2>1. CASE AppendToPage(u)
    <3>1. PICK p \in DOMAIN Pages : mem' = [Pages EXCEPT ![p].recs = Append(@, u)]
      BY <2>1, Zenon DEF AppendToPage
    <3>2. Pages[p] \in Page /\ p \in 1 .. Len(Pages)
      BY <1>5, LenProperties, ElementOfSeq
    <3> DEFINE q == [Pages[p] EXCEPT !.recs = Append(@, u)]
    <3>3. q \in Page
      BY <3>2, SMTT(60) DEF Page
    <3>4. mem' = [Pages EXCEPT ![p] = q]
      BY <3>1
    <3> HIDE DEF q
    <3>5. QED
      BY <1>5, <3>2, <3>3, <3>4, ExceptSeq, SMTT(60)
  <2>2. CASE AppendToNewPage(u)
    <3>1. PICK p \in DOMAIN Pages :
            mem' = Append([Pages EXCEPT ![p].next = Len(Pages) + 1],
                          [NewPage EXCEPT !.recs = <<u>>])
      BY <2>2, Zenon DEF AppendToNewPage
    <3>2. Pages[p] \in Page /\ p \in 1 .. Len(Pages) /\ Len(Pages) + 1 \in Nat
      BY <1>5, LenProperties, ElementOfSeq
    <3> DEFINE q == [Pages[p] EXCEPT !.next = Len(Pages) + 1]
               P == [Pages EXCEPT ![p] = q]
               n == [NewPage EXCEPT !.recs = <<u>>]
    <3>3. q \in Page
      BY <3>2 DEF Page
    <3>4. mem' = Append(P, n)
      BY <3>1
    <3>5. n \in Page
      <4>1. <<u>> \in Seq(Update)
        OBVIOUS
      <4>2. n = [recs |-> <<u>>, next |-> 0]
        BY DEF NewPage
      <4> HIDE DEF n
      <4>3. QED
        BY <4>1, <4>2 DEF Page
    <3>6. P \in Seq(Page)
      <4> HIDE DEF q
      <4>1. QED
        BY <1>5, <3>2, <3>3, ExceptSeq, SMTT(60)
    <3> HIDE DEF P, n
    <3>7. QED
      BY <3>4, <3>5, <3>6
  <2>3. CASE AppendTooLarge(u)
    BY <1>4, <1>5, <2>3, SMTT(60) DEF AppendTooLarge
  <2>4. QED
    BY <2>1, <2>2, <2>3, SMTT(60)
<1>7. index' \in [Keys -> AnyValue]
  BY <1>t DEF AppendToPage, AppendToNewPage, AppendTooLarge, TypeOK, Update
<1>8. todo' \in Seq(Steps)
  <2>1. CASE AppendTooLarge(u)
    <3>1. <<Do("flush"), Do("abort")>> \in Seq(Steps) /\ <<>> \in Seq(Steps)
      BY StepTypes, SMTT(60)
    <3>2. QED
      BY <2>1, <3>1 DEF AppendTooLarge
  <2>2. CASE AppendToPage(u) \/ AppendToNewPage(u)
    <3> DEFINE a == IF Doing("apply") /\ u.val = None
                    THEN <<[do |-> "indexDelete", rec |-> Rec("write", 0, u)]>> ELSE <<>>
    <3>1. a \in Seq(Steps) /\ <<Do("saveIndex")>> \in Seq(Steps)
      BY StepTypes
    <3>2. Continue(<<Do("saveIndex")>> \o a)
      BY <2>2 DEF AppendToPage, AppendToNewPage, appendReturns
    <3> HIDE DEF a
    <3>3. <<Do("saveIndex")>> \o a \in Seq(Steps)
      BY <3>1, ConcatProperties, SMTT(60)
    <3>4. QED
      BY <1>1, <1>t, <3>2, <3>3, ContinueType, ZenonT(60) DEF TypeOK
  <2>3. QED
    BY <2>1, <2>2
<1>9. TypeOK'
  BY <1>1, <1>2, <1>3, <1>6, <1>7, <1>8, <1>t, SMTT(60) DEF appendStarts, files, TypeOK
<1>10. HeldSnapshots'
  BY <1>1, <1>2, HeldKept DEF appendStarts
<1>11. QED
  BY <1>1, <1>9, <1>10 DEF StoreInv, appendStarts

-----------------------------------------------------------------------------
(* saveIndex, the caller's index.delete, a page write, the end of a flush, *)
(* the log's truncation and Compact's rename keep the invariant.           *)
LEMMA DiskStepKeeps ==
  ASSUME StoreInv,
         \/ saveIndex \/ indexDelete \/ writePage \/ flushed \/ walClear \/ rename
  PROVE  StoreInv'
<1>t. TypeOK
  BY DEF StoreInv
<1>e. <<>> \in Seq(Steps)
  OBVIOUS
<1>1. CASE saveIndex
  <2> USE <1>1 DEF saveIndex, Doing, store
  <2>1. todo' \in Seq(Steps)
    BY <1>t, <1>e, ContinueType, ZenonT(60) DEF TypeOK
  <2>2. TypeOK'
    BY <1>t, <2>1 DEF TypeOK
  <2>3. QED
    BY <2>2, HeldSame, SMTT(60) DEF StoreInv
<1>2. CASE indexDelete
  <2> USE <1>2 DEF indexDelete, Doing, files
  <2>1. todo' \in Seq(Steps)
    BY <1>t, <1>e, ContinueType, Zenon DEF TypeOK
  <2>2. index' \in [Keys -> AnyValue]
    BY <1>t, Zenon DEF TypeOK, AnyValue
  <2>3. TypeOK'
    BY <1>t, <2>1, <2>2, SMTT(60) DEF TypeOK
  <2>4. QED
    BY <2>3, HeldSame, SMTT(60) DEF StoreInv
<1>3. CASE writePage
  <2> USE <1>3 DEF writePage, store
  <2>1. file' \in Seq(Page \cup {None})
    <3>1. PICK p \in Changed :
            file' = [q \in 1 .. (IF p > Len(file) THEN p ELSE Len(file)) |->
                       IF q = p THEN mem[p] ELSE IF q <= Len(file) THEN file[q] ELSE None]
      OBVIOUS
    <3>2. p \in 1 .. Len(mem) /\ Len(mem) \in Nat /\ Len(file) \in Nat
      BY <1>t, LenProperties, SMTT(60) DEF Changed, TypeOK
    <3>3. mem[p] \in Page /\ \A q \in 1 .. Len(file) : file[q] \in Page \cup {None}
      BY <1>t, <3>2, ElementOfSeq, SMTT(60) DEF TypeOK
    <3> DEFINE n == IF p > Len(file) THEN p ELSE Len(file)
    <3>4. n \in Nat
      BY <3>2
    <3>5. file' \in [1 .. n -> Page \cup {None}]
      BY <3>1, <3>2, <3>3, <3>4, SMTT(60)
    <3> HIDE DEF n
    <3>6. QED
      BY <3>4, <3>5, FunctionIsSeq, Zenon
  <2>2. TypeOK'
    BY <1>t, <2>1 DEF TypeOK
  <2>3. QED
    BY <2>2, HeldSame, SMTT(60) DEF StoreInv
<1>4. CASE flushed
  <2> USE <1>4 DEF flushed, Doing, store, files
  <2>1. todo' \in Seq(Steps)
    BY <1>t, <1>e, ContinueType, Zenon DEF TypeOK
  <2>2. TypeOK'
    BY <1>t, <2>1 DEF TypeOK
  <2>3. QED
    BY <2>2, HeldSame, SMTT(60) DEF StoreInv
<1>5. CASE walClear
  <2> USE <1>5 DEF walClear, Doing, store
  <2>1. todo' \in Seq(Steps)
    BY <1>t, <1>e, ContinueType, ZenonT(60) DEF TypeOK
  <2>2. TypeOK'
    <3>1. wal' \in Seq(WalRec)
      OBVIOUS
    <3>2. QED
      BY <1>t, <2>1, <3>1 DEF TypeOK
  <2>3. QED
    BY <2>2, HeldSame, SMTT(60) DEF StoreInv
<1>6. CASE rename
  <2> USE <1>6 DEF rename, Doing
  <2>1. todo' \in Seq(Steps)
    BY <1>t, <1>e, ContinueType, ZenonT(60) DEF TypeOK
  <2>2. mem' \in Seq(Page) /\ file' \in Seq(Page \cup {None})
    <3>1. CompactedPages \in Seq(Page)
      BY <1>t, CompactedType DEF TypeOK
    <3>2. CompactedPages \in Seq(Page \cup {None})
      BY <3>1, SeqMonotonic, SMTT(60)
    <3>3. QED
      BY <3>1, <3>2
  <2>3. first' \in Nat /\ hasPages' \in BOOLEAN
    BY SMTT(60)
  <2>4. TypeOK'
    BY <1>t, <2>1, <2>2, <2>3, SMTT(60) DEF TypeOK
  <2>5. QED
    BY <2>4, HeldSame, SMTT(60) DEF StoreInv
<1>7. QED
  BY <1>1, <1>2, <1>3, <1>4, <1>5, <1>6, SMTT(60)

(* What is left after the process is gone is typed, and no snapshot is held. *)
LEMMA ForgetTypes ==
  ASSUME Forget
  PROVE  /\ mem' \in Seq(Page) /\ index' \in [Keys -> AnyValue] /\ log' \in Seq(Update)
         /\ first' \in Nat /\ hasPages' \in BOOLEAN /\ todo' \in Seq(Steps)
         /\ recov' \in [pos : Nat, pending : [Ids -> Seq(Update)], loaded : BOOLEAN]
         /\ snap' \in [Readers -> Nat \cup {None}]
         /\ HeldSnapshots'
<1>1. NoRecov \in [pos : Nat, pending : [Ids -> Seq(Update)], loaded : BOOLEAN]
  <2>1. <<>> \in Seq(Update)
    OBVIOUS
  <2>2. QED
    BY <2>1 DEF NoRecov
<1>2. index' \in [Keys -> AnyValue]
  BY DEF Forget, Empty, AnyValue
<1>3. mem' \in Seq(Page) /\ log' \in Seq(Update) /\ todo' \in Seq(Steps)
  BY DEF Forget
<1>4. snap' \in [Readers -> Nat \cup {None}] /\ \A r \in Readers : snap'[r] = None
  BY DEF Forget
<1>5. HeldSnapshots'
  BY <1>4 DEF HeldSnapshots
<1>6. QED
  BY <1>1, <1>2, <1>3, <1>4, <1>5, Zenon DEF Forget

(* The end of Close, a failed Open and a crash keep the invariant. *)
LEMMA ForgetKeeps ==
  ASSUME StoreInv, closeFiles \/ abort \/ Crash
  PROVE  StoreInv'
<1>1. Forget
  BY SMTT(60) DEF closeFiles, abort, Crash
<1>2. CASE closeFiles \/ abort
  BY <1>1, <1>2, ForgetTypes, SMTT(60) DEF StoreInv, TypeOK, closeFiles, abort, files
<1>3. CASE Crash
  <2>1. wal' \in Seq(WalRec)
    <3>1. \A t \in {"header", "body"} : [NoRec EXCEPT !.op = t] \in WalRec
      BY StoreAssumption DEF NoRec, WalRec, Ids
    <3>2. ASSUME NEW t \in Tears
          PROVE  Append(wal, [NoRec EXCEPT !.op = t]) \in Seq(WalRec)
      <4> DEFINE x == [NoRec EXCEPT !.op = t]
      <4>1. x \in WalRec /\ wal \in Seq(WalRec)
        BY <3>1, StoreAssumption, Zenon DEF StoreInv, TypeOK
      <4> HIDE DEF x
      <4>2. Append(wal, x) \in Seq(WalRec)
        BY <4>1
      <4>3. QED
        BY <4>2 DEF x
    <3>3. \/ wal' = wal
          \/ \E t \in Tears : wal' = Append(wal, [NoRec EXCEPT !.op = t])
      BY <1>3, Zenon DEF Crash
    <3>4. QED
      BY <3>2, <3>3, ZenonT(60) DEF StoreInv, TypeOK
  <2>2. used' \in [ops : 0 .. MaxOps, crashes : 0 .. MaxCrashes, opens : 0 .. MaxOpens]
        /\ used'.ops = used.ops
    <3>1. /\ used \in [ops : 0 .. MaxOps, crashes : 0 .. MaxCrashes, opens : 0 .. MaxOpens]
          /\ used.crashes < MaxCrashes
          /\ used' = [used EXCEPT !.crashes = @ + 1]
      BY <1>3 DEF Crash, StoreInv, TypeOK
    <3>2. used.crashes + 1 \in 0 .. MaxCrashes
      BY <3>1, StoreAssumption
    <3>3. QED
      BY <3>1, <3>2
  <2>3. lastId' \in Ids /\ lastId' <= used'.ops
    BY <1>3, <2>2, StoreAssumption, SMTT(60) DEF Crash, StoreInv, TypeOK, Ids
  <2>4. TypeOK'
    BY <1>1, <1>3, <2>1, <2>2, <2>3, ForgetTypes, ZenonT(60) DEF StoreInv, TypeOK, Crash
  <2>5. QED
    BY <1>1, <2>3, <2>4, ForgetTypes DEF StoreInv
<1>4. QED
  BY <1>2, <1>3

-----------------------------------------------------------------------------
(* Removing the .idx file of a closed database, and Open up to the replay. *)
LEMMA OpenKeeps ==
  ASSUME StoreInv, RemoveIndexFile \/ Open
  PROVE  StoreInv'
<1>t. TypeOK
  BY DEF StoreInv
<1>1. CASE RemoveIndexFile
  BY <1>1, HeldSame DEF StoreInv, TypeOK, RemoveIndexFile, store
<1>2. CASE Open
  <2> USE <1>2 DEF Open, loadIndex, files
  <2>1. used' \in [ops : 0 .. MaxOps, crashes : 0 .. MaxCrashes, opens : 0 .. MaxOpens]
        /\ used'.ops = used.ops
    <3>1. /\ used \in [ops : 0 .. MaxOps, crashes : 0 .. MaxCrashes, opens : 0 .. MaxOpens]
          /\ used.opens < MaxOpens
          /\ used' = [used EXCEPT !.opens = @ + 1]
      BY <1>t DEF TypeOK
    <3>2. used.opens + 1 \in 0 .. MaxOpens
      BY <3>1, StoreAssumption
    <3>3. QED
      BY <3>1, <3>2
  <2>2. HeldSnapshots'
    BY DEF StoreInv, HeldSnapshots
  <2>3. CASE validPages(file)
    <3>1. mem' \in Seq(Page)
      <4>1. Len(file) \in Nat /\ DOMAIN file = 1 .. Len(file)
        BY <1>t, LenProperties DEF TypeOK
      <4>2. \A p \in 1 .. Len(file) : file[p] \in Page
        BY <1>t, <2>3, <4>1, ElementOfSeq, SMTT(60) DEF TypeOK, validPages
      <4>3. file \in [1 .. Len(file) -> Page]
        BY <1>t, <4>1, <4>2, LenProperties, SMTT(60) DEF TypeOK
      <4>4. file \in Seq(Page)
        BY <4>1, <4>3, FunctionIsSeq
      <4>5. QED
        BY <2>3, <4>4
    <3>2. todo' \in Seq(Steps)
      <4>1. Do("replay") \in Steps
        BY StepTypes
      <4>2. <<Do("replay")>> \in Seq(Steps)
        BY <4>1
      <4>3. QED
        BY <2>3, <4>2, Zenon
    <3>3. index' \in [Keys -> AnyValue]
      BY <1>t, <2>3, SMTT(60) DEF TypeOK, Empty, AnyValue
    <3>4. recov' \in [pos : Nat, pending : [Ids -> Seq(Update)], loaded : BOOLEAN]
      <4>1. <<>> \in Seq(Update)
        OBVIOUS
      <4>2. NoRecov \in [pos : Nat, pending : [Ids -> Seq(Update)], loaded : BOOLEAN]
        BY <4>1 DEF NoRecov
      <4>3. recov' = [NoRecov EXCEPT !.loaded = (idx # None)]
        BY <2>3
      <4>4. QED
        BY <4>2, <4>3, Zenon
    <3>5. TypeOK'
      BY <1>t, <2>1, <2>3, <3>1, <3>2, <3>3, <3>4, SMTT(60) DEF TypeOK
    <3>6. QED
      BY <2>1, <2>2, <3>5, SMTT(60) DEF StoreInv
  <2>4. CASE ~validPages(file)
    <3>1. TypeOK'
      BY <1>t, <2>1, <2>4, SMTT(60) DEF TypeOK
    <3>2. QED
      BY <2>1, <2>2, <3>1 DEF StoreInv
  <2>5. QED
    BY <2>3, <2>4
<1>3. QED
  BY <1>1, <1>2

(* One record of wal.replay keeps the invariant. *)
LEMMA replayRecordKeeps ==
  ASSUME StoreInv, replayRecord
  PROVE  StoreInv'
<1>t. TypeOK /\ todo # <<>>
  BY DEF StoreInv, replayRecord, Doing
<1> DEFINE r == wal[recov.pos]
           pend == recov.pending[r.id]
           applied == [i \in DOMAIN pend |-> AppendOf(pend[i])]
<1>1. recov.pos \in Nat /\ recov.pending \in [Ids -> Seq(Update)] /\ recov.loaded \in BOOLEAN
  BY <1>t DEF TypeOK
<1>2. /\ r \in WalRec /\ r.op \in {"write", "tx", "commit"} /\ r.id \in Ids
      /\ r.op # "commit" => r \in WriteRec
  <2>1. r \in WalRec /\ r.op \notin {"header", "body"}
    BY <1>t, LenProperties, ElementOfSeq, SMTT(60) DEF TypeOK, replayRecord
  <2> HIDE DEF r
  <2>2. QED
    BY <2>1, SMTT(60) DEF WalRec, WriteRec
<1>3. pend \in Seq(Update)
  <2> HIDE DEF r
  <2>1. QED
    BY <1>1, <1>2
<1>4. /\ Do("replay") \in Steps /\ <<Do("replay")>> \in Seq(Steps)
      /\ \A u \in Update : <<AppendOf(u), Do("replay")>> \in Seq(Steps)
  <2>1. Do("replay") \in Steps /\ \A u \in Update : AppendOf(u) \in Steps
    BY StepTypes, ZenonT(60)
  <2>2. QED
    BY <2>1
<1>5. applied \o <<Do("replay")>> \in Seq(Steps)
  <2> HIDE DEF pend
  <2>1. Len(pend) \in Nat /\ DOMAIN pend = 1 .. Len(pend)
        /\ \A i \in DOMAIN pend : pend[i] \in Update
    BY <1>3, LenProperties, ElementOfSeq
  <2>2. applied \in [1 .. Len(pend) -> Steps]
    BY <2>1, StepTypes, ZenonT(60)
  <2> HIDE DEF applied
  <2>3. applied \in Seq(Steps)
    BY <2>1, <2>2, FunctionIsSeq
  <2>4. QED
    BY <1>4, <2>3, ConcatProperties
<1>6. \E steps \in Seq(Steps), q \in Seq(Update) :
        /\ Continue(steps)
        /\ recov' = [recov EXCEPT !.pos = @ + 1, !.pending[r.id] = q]
  <2>1. CASE r.op = "write"
    <3>1. /\ Continue(<<AppendOf(Upd(r)), Do("replay")>>)
          /\ recov' = [recov EXCEPT !.pos = @ + 1, !.pending[r.id] = pend]
      BY <2>1, SMTT(60) DEF replayRecord
    <3>2. <<AppendOf(Upd(r)), Do("replay")>> \in Seq(Steps)
      BY <1>2, <1>4, <2>1, StepTypes, SMTT(60)
    <3>3. QED
      BY <1>3, <3>1, <3>2, ZenonT(60)
  <2>2. CASE r.op = "tx"
    <3>1. /\ Continue(<<Do("replay")>>)
          /\ recov' = [recov EXCEPT !.pos = @ + 1, !.pending[r.id] = Append(pend, Upd(r))]
      BY <2>2, SMTT(60) DEF replayRecord
    <3>2. Upd(r) \in Update
      BY <1>2, <2>2, StepTypes, SMTT(60)
    <3>3. Append(pend, Upd(r)) \in Seq(Update)
      <4> HIDE DEF pend, r
      <4>1. QED
        BY <1>3, <3>2, SMTT(60)
    <3>4. QED
      BY <1>4, <3>1, <3>3, ZenonT(60)
  <2>3. CASE r.op = "commit"
    <3>1. /\ Continue(applied \o <<Do("replay")>>)
          /\ recov' = [recov EXCEPT !.pos = @ + 1, !.pending[r.id] = <<>>]
      BY <2>3 DEF replayRecord
    <3>2. <<>> \in Seq(Update)
      OBVIOUS
    <3>3. QED
      BY <1>5, <3>1, <3>2, ZenonT(60)
  <2>4. QED
    BY <1>2, <2>1, <2>2, <2>3, Zenon
<1> HIDE DEF r, pend, applied
<1>7. todo' \in Seq(Steps)
  BY <1>6, <1>t, ContinueType, SMTT(60) DEF TypeOK
<1>8. recov' \in [pos : Nat, pending : [Ids -> Seq(Update)], loaded : BOOLEAN]
  <2>1. PICK q \in Seq(Update) : recov' = [recov EXCEPT !.pos = @ + 1, !.pending[r.id] = q]
    BY <1>6, ZenonT(60)
  <2>2. [recov.pending EXCEPT ![r.id] = q] \in [Ids -> Seq(Update)]
    BY <1>1, <1>2, SMTT(60)
  <2>3. recov \in [pos : Nat, pending : [Ids -> Seq(Update)], loaded : BOOLEAN]
    BY <1>t DEF TypeOK
  <2>4. recov' = [pos |-> recov.pos + 1, pending |-> [recov.pending EXCEPT ![r.id] = q],
                  loaded |-> recov.loaded]
    BY <2>1, <2>3, Zenon
  <2>5. QED
    BY <1>1, <2>2, <2>4, SMTT(60)
<1>9. TypeOK'
  BY <1>t, <1>7, <1>8, ZenonT(60) DEF TypeOK, replayRecord, files, store
<1>10. QED
  BY <1>9, HeldSame, SMTT(60) DEF StoreInv, replayRecord, store

(* The error and the end of the replay, the scan of a page and the end of  *)
(* Open keep the invariant.                                                *)
LEMMA RecoveryKeeps ==
  ASSUME StoreInv, replayFails \/ replayDone \/ scanPage \/ opened
  PROVE  StoreInv'
<1>t. TypeOK /\ todo # <<>>
  BY DEF StoreInv, replayFails, replayDone, scanPage, opened, Doing
<1>1. CASE replayFails
  <2> USE <1>1 DEF replayFails, files, store
  <2>1. <<Do("flush"), Do("abort")>> \in Seq(Steps)
    BY StepTypes, SMTT(60)
  <2>2. todo' \in Seq(Steps)
    BY <1>t, <2>1, ContinueType, Zenon DEF TypeOK
  <2>3. TypeOK'
    BY <1>t, <2>2, SMTT(60) DEF TypeOK
  <2>4. QED
    BY <2>3, HeldSame, SMTT(60) DEF StoreInv
<1>2. CASE replayDone
  <2> USE <1>2 DEF replayDone, files
  <2> DEFINE a == IF mem # <<>> THEN <<Do("scan")>> ELSE <<>>
             b == IF recov.loaded THEN <<>> ELSE <<Do("saveIndex")>>
             c == <<Do("opened")>>
  <2>1. Do("scan") \in Steps /\ Do("saveIndex") \in Steps /\ Do("opened") \in Steps
    BY StepTypes
  <2>2. a \in Seq(Steps) /\ b \in Seq(Steps) /\ c \in Seq(Steps)
    BY <2>1
  <2>3. Continue(a \o b \o c)
    OBVIOUS
  <2>4. a \o b \o c \in Seq(Steps)
    <3> HIDE DEF a, b, c
    <3>1. a \o b \in Seq(Steps)
      BY <2>2, ConcatProperties, SMTT(60)
    <3>2. QED
      BY <2>2, <3>1, ConcatProperties, SMTT(60)
  <2>5. todo' \in Seq(Steps)
    <3> HIDE DEF a, b, c
    <3>1. QED
      BY <1>t, <2>3, <2>4, ContinueType, Zenon DEF TypeOK
  <2>6. first' \in Nat /\ hasPages' \in BOOLEAN
    BY <1>t DEF TypeOK
  <2>7. recov' \in [pos : Nat, pending : [Ids -> Seq(Update)], loaded : BOOLEAN]
    BY <1>t, <2>6, Zenon DEF TypeOK
  <2>8. TypeOK'
    BY <1>t, <2>5, <2>6, <2>7, ZenonT(60) DEF TypeOK
  <2>9. QED
    BY <2>8, HeldSame, SMTT(60) DEF StoreInv
<1>3. CASE scanPage
  <2> USE <1>3 DEF scanPage, files
  <2> DEFINE page == mem[recov.pos]
             steps == IF page.next = 0 THEN <<>> ELSE <<Do("scan")>>
  <2>1. page \in Page
    BY <1>t, LenProperties, ElementOfSeq, SMTT(60) DEF TypeOK
  <2>2. page.recs \in Seq(Update) /\ page.next \in Nat
    <3> HIDE DEF page
    <3>1. QED
      BY <2>1 DEF Page
  <2>3. /\ log' = log \o page.recs
        /\ index' = IF recov.loaded THEN index ELSE Apply(index, page.recs)
        /\ recov' = [recov EXCEPT !.pos = page.next]
        /\ Continue(steps)
    OBVIOUS
  <2> HIDE DEF page
  <2>4. steps \in Seq(Steps)
    <3>1. Do("scan") \in Steps
      BY StepTypes
    <3>2. QED
      BY <3>1, SMTT(60)
  <2>5. todo' \in Seq(Steps)
    <3> HIDE DEF steps
    <3>1. QED
      BY <1>t, <2>3, <2>4, ContinueType, SMTT(60) DEF TypeOK
  <2>6. log' \in Seq(Update) /\ Len(log') \in Nat /\ Len(log) <= Len(log')
    <3>1. log' \in Seq(Update) /\ Len(log') = Len(log) + Len(page.recs)
      BY <1>t, <2>2, <2>3, ConcatProperties, SMTT(60) DEF TypeOK
    <3>2. Len(log) \in Nat /\ Len(page.recs) \in Nat
      BY <1>t, <2>2, LenProperties, SMTT(60) DEF TypeOK
    <3>3. QED
      BY <3>1, <3>2, SMTT(60)
  <2>7. index' \in [Keys -> AnyValue]
    <3>1. index \in [Keys -> AnyValue] /\ Apply(index, page.recs) \in [Keys -> AnyValue]
      BY <1>t, <2>2, ApplyType, Zenon DEF TypeOK
    <3>2. index' = index \/ index' = Apply(index, page.recs)
      BY <2>3
    <3>3. QED
      BY <3>1, <3>2, SMTT(60)
  <2>8. recov' \in [pos : Nat, pending : [Ids -> Seq(Update)], loaded : BOOLEAN]
    BY <1>t, <2>2, <2>3, Zenon DEF TypeOK
  <2>9. TypeOK'
    BY <1>t, <2>5, <2>6, <2>7, <2>8, ZenonT(60) DEF TypeOK
  <2>10. HeldSnapshots'
    BY <2>6, HeldKept
  <2>11. QED
    BY <2>9, <2>10 DEF StoreInv
<1>4. CASE opened
  <2> USE <1>4 DEF opened, files, store
  <2>1. <<>> \in Seq(Steps) /\ <<>> \in Seq(Update)
    BY SMTT(60)
  <2>2. todo' \in Seq(Steps)
    BY <1>t, <2>1, ContinueType, ZenonT(60) DEF TypeOK
  <2>3. recov' \in [pos : Nat, pending : [Ids -> Seq(Update)], loaded : BOOLEAN]
    BY <2>1 DEF NoRecov
  <2>4. TypeOK'
    BY <1>t, <2>2, <2>3, SMTT(60) DEF TypeOK
  <2>5. HeldSnapshots'
    BY DEF StoreInv, HeldSnapshots
  <2>6. QED
    BY <2>4, <2>5, SMTT(60) DEF StoreInv
<1>5. QED
  BY <1>1, <1>2, <1>3, <1>4

-----------------------------------------------------------------------------
(* Every step of the store keeps the invariant. *)
LEMMA StepKeepsInv ==
  ASSUME StoreInv, [Next]_vars
  PROVE  StoreInv'
<1>1. CASE Next
  BY <1>1, OperationKeeps, SnapshotKeeps, walAppendKeeps, AppendKeeps, DiskStepKeeps,
     ForgetKeeps, OpenKeeps, replayRecordKeeps, RecoveryKeeps, SMTT(60) DEF Next
<1>2. CASE UNCHANGED vars
  BY <1>2 DEF vars, files, store, StoreInv, TypeOK, HeldSnapshots
<1>3. QED
  BY <1>1, <1>2, SMTT(60)

(***************************************************************************)
(* Whatever operations, crashes, evictions, replays and rebuilds happen,   *)
(* the state of kv.Store is well-formed: Open accepts only files without   *)
(* holes, Compact writes a proper chain of pages, replay hands Store.append*)
(* only records that were logged; and a held snapshot belongs to the open  *)
(* store and to a version it has reached.                                  *)
(***************************************************************************)
THEOREM StoreInvariant == Spec => []StoreInv
<1>1. Init => StoreInv
  <2> SUFFICES ASSUME Init PROVE StoreInv
    OBVIOUS
  <2>1. /\ <<>> \in Seq(Page \cup {None}) /\ <<>> \in Seq(WalRec) /\ <<>> \in Seq(Steps)
        /\ <<>> \in Seq(Page) /\ <<>> \in Seq(Update)
    OBVIOUS
  <2>2. NoRecov \in [pos : Nat, pending : [Ids -> Seq(Update)], loaded : BOOLEAN]
    BY <2>1 DEF NoRecov
  <2>3. Empty \in [Keys -> AnyValue]
    BY DEF Empty, AnyValue
  <2>4. lastId \in Ids /\ lastId <= used.ops
        /\ used \in [ops : 0 .. MaxOps, crashes : 0 .. MaxCrashes, opens : 0 .. MaxOpens]
    BY StoreAssumption DEF Init, Ids
  <2>5. QED
    BY <2>1, <2>2, <2>3, <2>4, ZenonT(60) DEF Init, StoreInv, TypeOK, HeldSnapshots
<1>2. StoreInv /\ [Next]_vars => StoreInv'
  BY StepKeepsInv, SMTT(60)
<1>3. QED
  BY <1>1, <1>2, PTL DEF Spec

(* The log of versions is only extended while a snapshot stays held. *)
LEMMA LogOnlyGrows ==
  ASSUME StoreInv, Next, NEW r \in Readers, snap[r] # None, snap'[r] = snap[r]
  PROVE  \E t \in Seq(Update) : log' = log \o t
<1>t. log \in Seq(Update) /\ <<>> \in Seq(Update) /\ log = log \o <<>>
  BY ConcatEmptySeq DEF StoreInv, TypeOK
<1>1. ASSUME NEW u \in Update, appendStarts(u)
      PROVE  \E t \in Seq(Update) : log' = log \o t
  <2>1. <<u>> \in Seq(Update) /\ log' = log \o <<u>>
    BY <1>1, <1>t DEF appendStarts
  <2>2. QED
    BY <2>1, Zenon
<1>2. CASE scanPage
  <2> DEFINE page == mem[recov.pos]
  <2>1. page \in Page
    BY <1>2, LenProperties, ElementOfSeq DEF StoreInv, TypeOK, scanPage
  <2>2. log' = log \o page.recs
    BY <1>2 DEF scanPage
  <2> HIDE DEF page
  <2>3. page.recs \in Seq(Update)
    BY <2>1 DEF Page
  <2>4. QED
    BY <2>2, <2>3, ZenonT(60)
<1>3. CASE Forget
  BY <1>3 DEF Forget
<1>4. CASE log' = log
  BY <1>4, <1>t, ZenonT(60)
<1>5. QED
  BY <1>1, <1>2, <1>3, <1>4, ZenonT(60)
     DEF Next, Put, Delete, ApplyBatch, Flush, Close, Compact, Start, BeginSnapshot,
         ReleaseSnapshot, walAppend, AppendToPage, AppendToNewPage, AppendTooLarge,
         saveIndex, indexDelete, writePage, flushed, walClear, rename, closeFiles,
         Crash, RemoveIndexFile, Open, replayRecord, replayFails, replayDone, opened,
         abort, files, store

(***************************************************************************)
(* Snapshot reads are repeatable: as long as a reader holds its snapshot,  *)
(* no put, delete, batch, failed append, flush, close or compaction        *)
(* changes what GetAt returns for it, for any key.                         *)
(***************************************************************************)
THEOREM SnapshotsStable == Spec => SnapshotStable
<1>1. StoreInv /\ [Next]_vars =>
        [\A r \in Readers : snap[r] # None /\ snap'[r] = snap[r] =>
           \A k \in Keys : GetAt(log', snap[r], k) = GetAt(log, snap[r], k)]_vars
  <2> SUFFICES ASSUME StoreInv, Next, NEW r \in Readers, snap[r] # None,
                      snap'[r] = snap[r], NEW k \in Keys
               PROVE  GetAt(log', snap[r], k) = GetAt(log, snap[r], k)
    OBVIOUS
  <2>1. PICK t \in Seq(Update) : log' = log \o t
    BY LogOnlyGrows, SMTT(60)
  <2>2. log \in Seq(Update) /\ snap[r] \in Nat /\ snap[r] <= Len(log)
    BY DEF StoreInv, TypeOK, HeldSnapshots
  <2>3. QED
    BY <2>1, <2>2, GetAtStable
<1>2. QED
  BY <1>1, StoreInvariant, PTL DEF Spec, SnapshotStable
=============================================================================
