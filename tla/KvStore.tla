------------------------------ MODULE KvStore -------------------------------
(***************************************************************************)
(* kv.Store: an append-only chain of pages, the B+Tree index and its .idx  *)
(* file, the write-ahead log, and MVCC snapshots.                          *)
(*                                                                         *)
(* An operation is the sequence of its durable and in-memory steps, in the *)
(* order of the code; "todo" holds what is left of the one in progress.    *)
(* The process may die between any two steps.  Pages are used through the  *)
(* pager as PageFile promises: mem is what a read returns, and a changed   *)
(* page reaches the file at a flush, or earlier once the pool overflows.   *)
(* Pages are numbered from 1 and 0 is storage.NoPage.                      *)
(***************************************************************************)
EXTENDS Versions, FiniteSets, SequencesExt

CONSTANTS Values,        \* values that fit an empty page
          BigValues,     \* values that do not
          Batches,       \* the []BatchOp arguments of ApplyBatch
          Readers,       \* holders of snapshots
          PageCap,       \* records that fit a page
          PoolCapacity,  \* pages the buffer pool holds (64)
          Ops,           \* operations the clients use
          Tears,         \* where a WAL record may be cut by a crash
          FreshIds,      \* FALSE: batch ids restart with the process, as
                         \* nextCommitSequence does; TRUE: never reused
          MaxOps,        \* bound on operations
          MaxCrashes,    \* bound on crashes
          MaxOpens       \* bound on Opens

ASSUME StoreAssumption ==
  /\ IsFiniteSet(Keys)
  /\ PageCap \in Nat \ {0}
  /\ PoolCapacity \in Nat
  /\ MaxOps \in Nat /\ MaxCrashes \in Nat /\ MaxOpens \in Nat
  /\ None \notin Values \cup BigValues
  /\ FreshIds \in BOOLEAN
  /\ Tears \subseteq {"header", "body"}
  /\ Batches \subseteq Seq([key : Keys, val : Values \cup BigValues \cup {None}])

VARIABLES file,      \* pages of the database file; None is a hole
          wal,       \* records of the .wal file
          idx,       \* the map in the .idx file, None when there is no file
          status,    \* closed, opening, up or failed (Open returned an error)
          todo,      \* remaining steps of the operation in progress
          mem,       \* pages as the pager sees them
          index,     \* Store.index
          log,       \* Store.versions and Store.seq
          first,     \* Store.firstPage
          hasPages,  \* Store.hasPages
          recov,     \* locals of Open: position, pending, indexLoaded
          snap,      \* snap[r]: the snapshot r holds, or None
          lastId,    \* last batch id given out
          used,      \* operations, crashes and Opens so far
          kv         \* ghost: the map that the complete WAL records define

files == <<file, wal, idx>>
store == <<mem, index, log, first, hasPages>>
vars == <<files, store, status, todo, recov, snap, lastId, used, kv>>

AnyValue == Values \cup BigValues \cup {None}
Update == [key : Keys, val : AnyValue]
Ids == 0 .. MaxOps
Empty == [k \in Keys |-> None]
NewPage == [recs |-> <<>>, next |-> 0]
NoRecov == [pos |-> 1, pending |-> [i \in Ids |-> <<>>], loaded |-> FALSE]

Ready == status = "up" /\ todo = <<>>
Running == status \in {"up", "opening"}

(* WAL records: "write" is walPut, or walDelete when val is None; "tx" is  *)
(* walTxPut or walTxDelete; "header" and "body" are records cut inside     *)
(* their header or their body.                                             *)
Rec(op, id, u) == [op |-> op, id |-> id, key |-> u.key, val |-> u.val]
Upd(r) == [key |-> r.key, val |-> r.val]
NoRec == [op |-> "none", id |-> 0, key |-> None, val |-> None]
Commit(id) == [NoRec EXCEPT !.op = "commit", !.id = id]

(* Steps: Do(d) takes no argument, Log a WAL record.                       *)
Do(d) == [do |-> d, rec |-> NoRec]
Log(r) == [do |-> "log", rec |-> r]
(* Store.append of a record; "apply" also removes a deleted key from the   *)
(* index afterwards, as Delete and ApplyBatch do and replay does not.      *)
AppendOf(u) == [do |-> "append", rec |-> Rec("write", 0, u)]
ApplyOf(u) == [do |-> "apply", rec |-> Rec("write", 0, u)]

Doing(d) == todo # <<>> /\ Head(todo).do = d
Continue(steps) == todo' = steps \o Tail(todo)

Start(op, steps) ==
  /\ Ready /\ op \in Ops /\ used.ops < MaxOps
  /\ used' = [used EXCEPT !.ops = @ + 1]
  /\ todo' = steps
  /\ UNCHANGED <<files, store, status, recov, snap, kv>>

-----------------------------------------------------------------------------
Init ==
  /\ file = <<>> /\ wal = <<>> /\ idx = None
  /\ status = "closed" /\ todo = <<>>
  /\ mem = <<>> /\ index = Empty /\ log = <<>> /\ first = 1 /\ hasPages = FALSE
  /\ recov = NoRecov
  /\ snap = [r \in Readers |-> None]
  /\ lastId = 0
  /\ used = [ops |-> 0, crashes |-> 0, opens |-> 0]
  /\ kv = Empty

(* Mutant: the page and the index are changed before the log. *)
PutLogsLast(k, v) ==
  LET u == [key |-> k, val |-> v] IN
  Start("put", <<ApplyOf(u), Log(Rec("write", 0, u))>>) /\ UNCHANGED lastId

Put(k, v) ==
  LET u == [key |-> k, val |-> v] IN
  Start("put", <<Log(Rec("write", 0, u)), ApplyOf(u)>>) /\ UNCHANGED lastId

Delete(k) ==
  LET u == [key |-> k, val |-> None] IN
  /\ Start("delete", <<Log(Rec("write", 0, u)), ApplyOf(u), Do("saveIndex")>>)
  /\ UNCHANGED lastId

(* appendTransaction logs every operation and then the commit marker. *)
ApplyBatch(ops) ==
  LET id == lastId + 1 IN
  /\ Start("batch", [i \in DOMAIN ops |-> Log(Rec("tx", id, ops[i]))]
                    \o <<Log(Commit(id))>>
                    \o [i \in DOMAIN ops |-> ApplyOf(ops[i])]
                    \o <<Do("saveIndex")>>)
  /\ lastId' = id

Flush ==
  /\ Start("flush", <<Do("flush"), Do("saveIndex"), Do("clear")>>)
  /\ UNCHANGED lastId

Close ==
  /\ Start("close", <<Do("flush"), Do("saveIndex"), Do("clear"), Do("close")>>)
  /\ UNCHANGED lastId

(* The new file is complete before the old one is flushed and replaced. *)
Compact ==
  /\ \A r \in Readers : snap[r] = None
  /\ Start("compact", <<Do("flush"), Do("rename"), Do("clear")>>)
  /\ UNCHANGED lastId

(* Mutant: the snapshot is one version ahead of the store. *)
BeginSnapshotAhead(r) ==
  /\ Ready /\ "snapshot" \in Ops
  /\ snap[r] = None
  /\ snap' = [snap EXCEPT ![r] = Len(log) + 1]
  /\ UNCHANGED <<files, store, status, todo, recov, lastId, used, kv>>

BeginSnapshot(r) ==
  /\ Ready /\ "snapshot" \in Ops
  /\ snap[r] = None
  /\ snap' = [snap EXCEPT ![r] = Len(log)]
  /\ UNCHANGED <<files, store, status, todo, recov, lastId, used, kv>>

ReleaseSnapshot(r) ==
  /\ Ready
  /\ snap[r] # None
  /\ snap' = [snap EXCEPT ![r] = None]
  /\ UNCHANGED <<files, store, status, todo, recov, lastId, used, kv>>

-----------------------------------------------------------------------------
(* wal.append.  The operation's effect is decided once its last record is  *)
(* complete, unless it contains a value that no page can hold.             *)
Decided ==
  [k \in Keys |->
     LET A == {i \in DOMAIN todo : todo[i].do = "apply" /\ todo[i].rec.key = k}
     IN IF A = {} THEN kv[k]
        ELSE todo[CHOOSE i \in A : \A j \in A : j <= i].rec.val]

walAppend ==
  /\ Doing("log")
  /\ wal' = Append(wal, Head(todo).rec)
  /\ Continue(<<>>)
  /\ kv' = IF \/ \E i \in DOMAIN Tail(todo) : Tail(todo)[i].do = "log"
              \/ \E i \in DOMAIN todo : todo[i].rec.val \in BigValues
           THEN kv ELSE Decided
  /\ UNCHANGED <<file, idx, store, status, recov, snap, lastId, used>>

(* lastPage: the end of the chain that starts at firstPage. *)
lastPage ==
  LET end[p \in DOMAIN mem] == IF mem[p].next = 0 THEN p ELSE end[mem[p].next]
  IN end[first]

(***************************************************************************)
(* Store.append.  A store that has no chain yet starts one on a new page.  *)
(* The version is recorded first.  A record that does not fit the last     *)
(* page goes to a new page linked behind it; only in that case does a      *)
(* tombstone take the key out of the index.                                *)
(***************************************************************************)
Pages == IF hasPages THEN mem ELSE Append(mem, NewPage)
TargetPage == IF hasPages THEN lastPage ELSE Len(mem) + 1
Fits(u) == Len(Pages[TargetPage].recs) < PageCap /\ u.val \notin BigValues

(* Mutant: the newest version is replaced instead of a new one added. *)
appendReplacesVersion(u) ==
  /\ Doing("append") \/ Doing("apply")
  /\ u = Upd(Head(todo).rec)
  /\ log' = IF log # <<>> /\ Last(log).key = u.key
            THEN Append(Front(log), u) ELSE Append(log, u)
  /\ hasPages' = TRUE
  /\ first' = IF hasPages THEN first ELSE Len(mem) + 1
  /\ UNCHANGED <<files, status, recov, snap, lastId, used, kv>>

appendStarts(u) ==
  /\ Doing("append") \/ Doing("apply")
  /\ u = Upd(Head(todo).rec)
  /\ log' = Append(log, u)
  /\ hasPages' = TRUE
  /\ first' = IF hasPages THEN first ELSE Len(mem) + 1
  /\ UNCHANGED <<files, status, recov, snap, lastId, used, kv>>

(* Mutant: nothing but append takes a deleted key out of the index. *)
appendReturnsOnly(u) == Continue(<<Do("saveIndex")>>)

(* What follows the page write: saveIndex, then the caller's index.delete. *)
appendReturns(u) ==
  Continue(<<Do("saveIndex")>> \o
           IF Doing("apply") /\ u.val = None
           THEN <<[do |-> "indexDelete", rec |-> Rec("write", 0, u)]>> ELSE <<>>)

AppendToPage(u) ==
  /\ appendStarts(u)
  /\ Fits(u)
  /\ \E p \in DOMAIN Pages :
       /\ p = TargetPage
       /\ mem' = [Pages EXCEPT ![p].recs = Append(@, u)]
  /\ index' = IF u.val # None THEN [index EXCEPT ![u.key] = u.val] ELSE index
  /\ appendReturns(u)

AppendToNewPage(u) ==
  /\ appendStarts(u)
  /\ ~Fits(u) /\ u.val \notin BigValues
  /\ \E p \in DOMAIN Pages :
       /\ p = TargetPage
       /\ mem' = Append([Pages EXCEPT ![p].next = Len(Pages) + 1],
                        [NewPage EXCEPT !.recs = <<u>>])
  /\ index' = [index EXCEPT ![u.key] = u.val]
  /\ appendReturns(u)

(* "record too large for an empty page": the new page stays, unlinked.     *)
(* The operation returns the error; an Open closes the pager and fails.    *)
AppendTooLarge(u) ==
  /\ appendStarts(u)
  /\ u.val \in BigValues
  /\ mem' = Append(Pages, NewPage)
  /\ index' = index
  /\ todo' = IF status = "opening" THEN <<Do("flush"), Do("abort")>> ELSE <<>>

saveIndex ==
  /\ Doing("saveIndex")
  /\ idx' = index
  /\ Continue(<<>>)
  /\ UNCHANGED <<file, wal, store, status, recov, snap, lastId, used, kv>>

indexDelete ==
  /\ Doing("indexDelete")
  /\ index' = [index EXCEPT ![Head(todo).rec.key] = None]
  /\ Continue(<<>>)
  /\ UNCHANGED <<files, mem, log, first, hasPages, status, recov, snap, lastId,
                 used, kv>>

-----------------------------------------------------------------------------
(* A changed page reaches the file: at a flush in any order, or during an  *)
(* operation when more pages are in use than the pool holds.               *)
Changed == {p \in DOMAIN mem : p > Len(file) \/ file[p] # mem[p]}

writePage ==
  /\ Running /\ todo # <<>>
  /\ Doing("flush") \/ Len(mem) > PoolCapacity
  /\ \E p \in Changed :
       file' = [q \in 1 .. (IF p > Len(file) THEN p ELSE Len(file)) |->
                  IF q = p THEN mem[p] ELSE IF q <= Len(file) THEN file[q] ELSE None]
  /\ UNCHANGED <<wal, idx, store, status, todo, recov, snap, lastId, used, kv>>

(* Mutant: Flush returns before every changed page is written. *)
flushedEarly ==
  /\ Doing("flush")
  /\ Continue(<<>>)
  /\ UNCHANGED <<files, store, status, recov, snap, lastId, used, kv>>

flushed ==
  /\ Doing("flush")
  /\ Changed = {}
  /\ Continue(<<>>)
  /\ UNCHANGED <<files, store, status, recov, snap, lastId, used, kv>>

walClear ==
  /\ Doing("clear")
  /\ wal' = <<>>
  /\ Continue(<<>>)
  /\ UNCHANGED <<file, idx, store, status, recov, snap, lastId, used, kv>>

(* The live keys, one record each, in pages linked in order. *)
CompactedPages ==
  LET ks == SetToSeq({k \in Keys : index[k] # None})
      recs == [i \in 1 .. Len(ks) |-> [key |-> ks[i], val |-> index[ks[i]]]]
      pages == (Len(ks) + PageCap - 1) \div PageCap
  IN [p \in 1 .. pages |->
        [recs |-> SubSeq(recs, (p - 1) * PageCap + 1,
                         IF p * PageCap < Len(ks) THEN p * PageCap ELSE Len(ks)),
         next |-> IF p < pages THEN p + 1 ELSE 0]]

rename ==
  /\ Doing("rename")
  /\ file' = CompactedPages
  /\ mem' = CompactedPages
  /\ first' = 1
  /\ hasPages' = (\E k \in Keys : index[k] # None)
  /\ Continue(<<>>)
  /\ UNCHANGED <<wal, idx, index, log, status, recov, snap, lastId, used, kv>>

-----------------------------------------------------------------------------
(* The process, or the Store, is gone: what was only in memory is lost. *)
Forget ==
  /\ mem' = <<>> /\ index' = Empty /\ log' = <<>> /\ first' = 1 /\ hasPages' = FALSE
  /\ todo' = <<>> /\ recov' = NoRecov /\ snap' = [r \in Readers |-> None]

closeFiles ==
  /\ Doing("close")
  /\ status' = "closed"
  /\ Forget
  /\ UNCHANGED <<files, lastId, used, kv>>

Crash ==
  /\ Running /\ used.crashes < MaxCrashes
  /\ used' = [used EXCEPT !.crashes = @ + 1]
  /\ wal' \in {wal} \cup
        {Append(wal, [NoRec EXCEPT !.op = t]) : t \in IF Doing("log") THEN Tears ELSE {}}
  /\ status' = "closed"
  /\ lastId' = IF FreshIds THEN lastId ELSE 0
  /\ Forget
  /\ UNCHANGED <<file, idx, kv>>

(* The .idx file is removed while the database is closed. *)
RemoveIndexFile ==
  /\ status = "closed" /\ "removeIndex" \in Ops /\ idx # None
  /\ idx' = None
  /\ UNCHANGED <<file, wal, store, status, todo, recov, snap, lastId, used, kv>>

(* validatePages: no hole, and no link past the end. *)
validPages(pages) ==
  \A p \in DOMAIN pages : pages[p] # None /\ pages[p].next <= Len(pages)

(* The map in the .idx file, empty when there is no file. *)
loadIndex == IF idx = None THEN Empty ELSE idx

(* Mutant: pages with holes are accepted. *)
OpenWithoutValidation ==
  /\ status \in {"closed", "failed"} /\ used.opens < MaxOpens
  /\ used' = [used EXCEPT !.opens = @ + 1]
  /\ status' = "opening"
  /\ todo' = <<Do("replay")>>
  /\ mem' = file
  /\ index' = loadIndex
  /\ recov' = [NoRecov EXCEPT !.loaded = (idx # None)]
  /\ UNCHANGED <<files, log, first, hasPages, snap, lastId, kv>>

(* Open up to the replay of the log; the loops that follow are steps.      *)
Open ==
  /\ status \in {"closed", "failed"} /\ used.opens < MaxOpens
  /\ used' = [used EXCEPT !.opens = @ + 1]
  /\ IF validPages(file)
     THEN /\ status' = "opening"
          /\ todo' = <<Do("replay")>>
          /\ mem' = file
          /\ index' = loadIndex
          /\ recov' = [NoRecov EXCEPT !.loaded = (idx # None)]
     ELSE /\ status' = "failed"
          /\ UNCHANGED <<todo, mem, index, recov>>
  /\ UNCHANGED <<files, log, first, hasPages, snap, lastId, kv>>

(***************************************************************************)
(* wal.replay, one record at a time.  A header cut at the end of the file  *)
(* is the end of the log; a cut body, or a cut header that later records   *)
(* follow, makes Open fail.                                                *)
(***************************************************************************)
AtTornTail == recov.pos = Len(wal) /\ wal[recov.pos].op = "header"

(* Mutant: transactional records are applied without their commit marker. *)
replayUncommitted ==
  /\ Doing("replay")
  /\ recov.pos \in DOMAIN wal /\ wal[recov.pos].op \notin {"header", "body"}
  /\ LET r == wal[recov.pos] IN
     Continue(IF r.op = "commit" THEN <<Do("replay")>>
              ELSE <<AppendOf(Upd(r)), Do("replay")>>)
  /\ recov' = [recov EXCEPT !.pos = @ + 1]
  /\ UNCHANGED <<files, store, status, snap, lastId, used, kv>>

replayRecord ==
  /\ Doing("replay")
  /\ recov.pos \in DOMAIN wal /\ wal[recov.pos].op \notin {"header", "body"}
  /\ LET r == wal[recov.pos] IN
     /\ Continue(CASE r.op = "write"  -> <<AppendOf(Upd(r)), Do("replay")>>
                   [] r.op = "tx"     -> <<Do("replay")>>
                   [] r.op = "commit" ->
                        [i \in DOMAIN recov.pending[r.id] |->
                           AppendOf(recov.pending[r.id][i])] \o <<Do("replay")>>)
     /\ recov' = [recov EXCEPT
                    !.pos = @ + 1,
                    !.pending[r.id] = CASE r.op = "write"  -> @
                                        [] r.op = "tx"     -> Append(@, Upd(r))
                                        [] r.op = "commit" -> <<>>]
  /\ UNCHANGED <<files, store, status, snap, lastId, used, kv>>

replayFails ==
  /\ Doing("replay")
  /\ recov.pos \in DOMAIN wal /\ wal[recov.pos].op \in {"header", "body"}
  /\ ~AtTornTail
  /\ Continue(<<Do("flush"), Do("abort")>>)
  /\ UNCHANGED <<files, store, status, recov, snap, lastId, used, kv>>

(* Then rebuildVersions, or rebuildIndex and saveIndex without an index.   *)
(* Only rebuildIndex sets firstPage and hasPages.                          *)
replayDone ==
  /\ Doing("replay")
  /\ recov.pos > Len(wal) \/ AtTornTail
  /\ LET rebuild == ~recov.loaded /\ mem # <<>> IN
     /\ first' = IF rebuild THEN 1 ELSE first
     /\ hasPages' = (rebuild \/ hasPages)
     /\ recov' = [recov EXCEPT !.pos = first']
  /\ Continue((IF mem # <<>> THEN <<Do("scan")>> ELSE <<>>)
              \o (IF recov.loaded THEN <<>> ELSE <<Do("saveIndex")>>)
              \o <<Do("opened")>>)
  /\ UNCHANGED <<files, mem, index, log, status, snap, lastId, used, kv>>

(* Mutant: the rebuild reads only the first page of the chain. *)
scanFirstPage ==
  /\ Doing("scan")
  /\ recov.pos \in DOMAIN mem
  /\ LET page == mem[recov.pos] IN
     /\ log' = log \o page.recs
     /\ index' = IF recov.loaded THEN index ELSE Apply(index, page.recs)
  /\ Continue(<<>>)
  /\ UNCHANGED <<files, mem, first, hasPages, status, recov, snap, lastId, used, kv>>

(* One page of rebuildVersions or of rebuildIndex. *)
scanPage ==
  /\ Doing("scan")
  /\ recov.pos \in DOMAIN mem
  /\ LET page == mem[recov.pos] IN
     /\ log' = log \o page.recs
     /\ index' = IF recov.loaded THEN index ELSE Apply(index, page.recs)
     /\ recov' = [recov EXCEPT !.pos = page.next]
     /\ Continue(IF page.next = 0 THEN <<>> ELSE <<Do("scan")>>)
  /\ UNCHANGED <<files, mem, first, hasPages, status, snap, lastId, used, kv>>

opened ==
  /\ Doing("opened")
  /\ status' = "up"
  /\ recov' = NoRecov
  /\ Continue(<<>>)
  /\ UNCHANGED <<files, store, snap, lastId, used, kv>>

(* The error path of Open: the pager is closed, the WAL is left as it is. *)
abort ==
  /\ Doing("abort")
  /\ status' = "failed"
  /\ Forget
  /\ UNCHANGED <<files, lastId, used, kv>>

-----------------------------------------------------------------------------
Next ==
  \/ \E k \in Keys, v \in Values \cup BigValues : Put(k, v)
  \/ \E k \in Keys : Delete(k)
  \/ \E ops \in Batches : ApplyBatch(ops)
  \/ Flush \/ Close \/ Compact
  \/ \E r \in Readers : BeginSnapshot(r) \/ ReleaseSnapshot(r)
  \/ walAppend
  \/ \E u \in Update : AppendToPage(u) \/ AppendToNewPage(u) \/ AppendTooLarge(u)
  \/ saveIndex \/ indexDelete
  \/ writePage \/ flushed \/ walClear \/ rename \/ closeFiles
  \/ Crash \/ RemoveIndexFile
  \/ Open \/ replayRecord \/ replayFails \/ replayDone \/ scanPage \/ opened \/ abort

Spec == Init /\ [][Next]_vars

-----------------------------------------------------------------------------
Page == [recs : Seq(Update), next : Nat]
WriteRec == [op : {"write", "tx"}, id : Ids, key : Keys, val : AnyValue]
WalRec == WriteRec \cup [op : {"commit", "header", "body"}, id : Ids,
                         key : {None}, val : {None}]
Steps ==
  [do : {"log"}, rec : WalRec] \cup
  [do : {"append", "apply", "indexDelete"}, rec : WriteRec] \cup
  [do : {"saveIndex", "flush", "clear", "rename", "close", "replay", "scan",
         "opened", "abort"}, rec : {NoRec}]

TypeOK ==
  /\ file \in Seq(Page \cup {None})
  /\ wal \in Seq(WalRec)
  /\ idx \in [Keys -> AnyValue] \cup {None}
  /\ status \in {"closed", "opening", "up", "failed"}
  /\ todo \in Seq(Steps)
  /\ mem \in Seq(Page)
  /\ index \in [Keys -> AnyValue]
  /\ log \in Seq(Update)
  /\ first \in Nat /\ hasPages \in BOOLEAN
  /\ recov \in [pos : Nat, pending : [Ids -> Seq(Update)], loaded : BOOLEAN]
  /\ snap \in [Readers -> Nat \cup {None}]
  /\ lastId \in Ids
  /\ used \in [ops : 0 .. MaxOps, crashes : 0 .. MaxCrashes, opens : 0 .. MaxOpens]
  /\ kv \in [Keys -> AnyValue]

(***************************************************************************)
(* A snapshot that is held belongs to the open store and stands for a      *)
(* version the store has reached; batch ids do not outrun the operations.  *)
(* With the types this is the inductive invariant of the proofs.           *)
(***************************************************************************)
HeldSnapshots ==
  \A r \in Readers : snap[r] # None => status = "up" /\ snap[r] <= Len(log)

StoreInv == TypeOK /\ HeldSnapshots /\ lastId <= used.ops

(***************************************************************************)
(* Get returns the latest value: whenever the store is open and no         *)
(* operation is running, the index is the map that the completely logged   *)
(* operations define, whatever crashes, replays, checkpoints, compactions  *)
(* and index rebuilds came before.  A batch counts when its commit marker  *)
(* is complete, and then with all of its operations.                       *)
(***************************************************************************)
ReadsLatest == Ready => index = kv

(***************************************************************************)
(* At every moment, inside operations and while the process is down, the   *)
(* .idx file and the log together still define the map: log before index,  *)
(* index before the log is cleared, a batch through its commit marker.     *)
(***************************************************************************)
Whole(w) == \A i \in DOMAIN w : w[i].op \in {"header", "body"} =>
                                  w[i].op = "header" /\ i = Len(w)

Replayed(w) ==
  FoldLeft(LAMBDA s, r :
             CASE r.op = "write"  -> [s EXCEPT !.ops = Append(@, Upd(r))]
               [] r.op = "tx"     -> [s EXCEPT !.pending[r.id] = Append(@, Upd(r))]
               [] r.op = "commit" -> [s EXCEPT !.ops = @ \o s.pending[r.id],
                                               !.pending[r.id] = <<>>]
               [] OTHER -> s,
           [ops |-> <<>>, pending |-> NoRecov.pending], w).ops

Recoverable ==
  Whole(wal) => Apply(loadIndex, Replayed(wal)) = kv

(***************************************************************************)
(* What a reader sees at its snapshot (GetAt, ScanAt) does not change as   *)
(* long as it holds the snapshot: later writes, failed writes, flushes and *)
(* compactions included.                                                   *)
(***************************************************************************)
SnapshotStable ==
  [][\A r \in Readers : snap[r] # None /\ snap'[r] = snap[r] =>
       \A k \in Keys : GetAt(log', snap[r], k) = GetAt(log, snap[r], k)]_vars

(***************************************************************************)
(* A snapshot taken now shows the current values: the version chains and   *)
(* the index agree whenever no operation is running.  Only a key that had  *)
(* a write rejected as too large is left out: append records the version   *)
(* before it finds out.                                                    *)
(***************************************************************************)
Rejected(k) == \E i \in DOMAIN log : log[i].key = k /\ log[i].val \in BigValues

SnapshotReadsCurrent ==
  Ready => \A k \in Keys : ~Rejected(k) => GetAt(log, Len(log), k) = index[k]

(***************************************************************************)
(* Open never refuses the files that the store itself has left behind.     *)
(***************************************************************************)
RecoveryOpens == status # "failed"
=============================================================================
