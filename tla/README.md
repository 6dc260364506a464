# A TLA+ model of go-db

go-db is an embedded database in Go: a pager with a buffer pool, an
append-only key-value store with a write-ahead log and snapshots, tables with
secondary indexes, a small SQL executor with explicit transactions, and a TCP
server. This directory holds TLA+ modules of its stateful parts, the TLC runs
that check them, and proofs of their main invariants for TLAPS.

`PROJECT.json` lists, in machine-readable form, the components, the runs, which
lines each definition translates, the hazards each property is aimed at, the
findings and the theorems.

## The system and its parts

| Part | Code | State | Operations | Uses | Modelled in |
|---|---|---|---|---|---|
| Page | `storage/page.go` | 4 KiB of records, free offset, next link | field access | | `KvStore` (records and link) |
| Pager | `storage/pager.go` | page count, file | Open, Close, AllocatePage, ReadPage, WritePage, Flush | pool, file | `PageFile`, `BufferPool` |
| Buffer pool | `storage/buffer_pool.go` | map and LRU list of 64 pages, dirty bits | Get, Put, Flush, eviction | disk callbacks | `BufferPool` |
| WAL | `kv/wal.go` | `.wal` file | append, appendTransaction, replay, clear | file | `KvStore` |
| B+Tree | `kv/btree.go` | the index | get, put, delete, entries | | `KvStore`, as a map |
| Store | `kv/store.go` | chain of pages, index, `.idx` file, version chains, active snapshots | Open, Put, Delete, ApplyBatch, Flush, Close, Compact, snapshots | pager, WAL, B+Tree | `KvStore`, `Versions` |
| Table | `kv/table.go` | schema, secondary index | Insert, Delete, Update, DeleteWhere, ApplyRowsBatch, Alter, Scan, Find | store | `SqlExecutor` (without Alter) |
| Catalog | `kv/catalog.go` | `.catalog` file | Set, Delete | file | not yet |
| Backup | `kv/backup.go` | file bundles | Backup, Restore | store, files | not yet |
| SQL executor | `sql/sql.go` | tables, one transaction | statements, BEGIN, COMMIT, ROLLBACK | tables, catalog | `SqlExecutor` (state changes) |
| Lexer, parser, SELECT, prepared statements | `sql/sql.go` | none | pure functions | | not yet / no |
| Server | `server/server.go` | connections, one mutex | handle, Close | executors | `SqlExecutor` (mutex, disconnection) |
| Command line, example | `cmd/`, `examples/` | none | start-up, printing | all | no |

What is hard in it, and what must hold:

* **pool**: `Get` drops its lock around a disk read; evictions write pages out
  of order; writes fail half-way. Nothing written may get lost, and the cache
  must be invisible.
* **store**: a crash may fall between the log record, the page, the index file
  and the cleared log; logs are replayed over files that already have the
  records; a batch counts only with its commit marker; snapshots are held
  across everything. `Get` must return the last logged value, a snapshot must
  not move, and `Open` must accept what the store left behind.
* **executor**: requests of different connections interleave inside each
  other's transactions; a transaction is staged, checked at commit, applied
  table by table, and undone by rewriting whole tables. No lost update,
  snapshot reads with own writes, private staging, atomic requests, UNIQUE and
  index kept, no snapshot leaked, every request answered.

## Modules

**`PageFile`** is the promise of the storage layer: pages `mem` with a
write-back `file` behind them. **`BufferPool`** is the pager and the pool that
keep it: `items` and `lru` are the fields of `BufferPool`, `disk` and `fileLen`
the file. `Get` is three steps (`GetHit` or `GetMiss`, `GetReadDisk`,
`GetFill`/`GetFillFails`) because the code unlocks between them; every other
operation of the pool runs under its mutex and is one step. The pager has no
mutex, so `AllocatePage` of callers that overlap is three steps: the id is read
(`AllocateReads`), the page counted (`AllocateCounts`, a data race: the counter
becomes one more than any value it has had meanwhile), and put into the pool or
taken back (`AllocatePuts`/`AllocatePutFails`). `Flush` may write any subset of
the dirty pages, which stands for a write error in map order. `Serialized` says
whether the callers are under the server's mutex; with it `AllocatePage` is one
step.

**`KvStore`** is `kv.Store` with its log and files. An operation puts the list
of its steps into `todo` in the order of the code (for `ApplyBatch`: the log
records, the commit marker, the appends, the index file), and the process may
die between any two. `Open` validates the pages, then replays the log one
record at a time, then rebuilds the versions or the index. Pages are used as
`PageFile` promises: `mem` is what the pager shows, `writePage` takes a page to
the file at a flush or once more pages exist than the pool holds. A WAL record
is whole, cut in its header or cut in its body. `kv` is a ghost: the map that
the completely logged operations define. An operation with a value that fits
no page is rejected by the code and leaves `kv` alone.

**`Versions`** has the operators on version chains (`GetAt`, `ChangedSince`,
...) that `KvStore` and `SqlExecutor` share. The code keeps one chain per key
and numbers the versions of a store in order; here they are one sequence.

**`SqlExecutor`** is `sql.Executor` over `kv.Table`s behind `server.handle`.
`req` is the request that holds the server's mutex, `plan` the rest of its
statements and row operations. A transaction holds the tables in the order in
which BEGIN iterated the map, the snapshot numbers, the rows for ROLLBACK, and
the write sets. A row is a key and one value, which may be NULL, UNIQUE, a
foreign key, not encodable (`BadValues`) or too large for a page (`BigValues`).
Storage is what `KvStore` keeps between crashes: per table the versions
(`log`), which snapshots read, and the index, which `Scan` and `Get` read. They
differ after a row that fits no page: `Store.append` files the version before
it fails (`PutTooLarge`), and a batch that holds such a row is applied up to it
(`commitHalfBatch`). `view` (what the client should see) and `since` (the
snapshot of the transaction whose commit wrote the version, none for other
writes) are ghosts. Restarts of the server are not in this module.

`MC*` give the constants of the runs; `*Proofs` and `BufferPoolRefines` hold
the theorems, `BufferPoolLists`, `BufferPoolCalls` and `SqlExecutorCommits` lemmas
they rest on. Definitions whose comment begins with "Mutant" are wrong on
purpose: each breaks a property when it takes the place of the definition that
follows it, which shows that the property depends on that piece of code.

## Runs that pass

| Run | Shows |
|---|---|
| `BufferPoolSerial` | One request at a time, 3 pages, pool of 2: the pool keeps `PoolInv`, every page is cached or stored, and the whole implements `PageFile`. |
| `BufferPoolConcurrent` | Two goroutines without the mutex, pool of 2: capacity, list and map stay right, no dirty page is dropped, every `Get` and `AllocatePage` returns. |
| `KvCrash` | Puts and batches, two crashes, cut headers, early page writes, checkpoints, compaction: `ReadsLatest` and `Recoverable` at every step. |
| `KvSession` | All operations, writes rejected as too large, a held snapshot, a clean close and reopening, a lost `.idx`: `ReadsLatest`, `SnapshotReadsCurrent`, `SnapshotStable`, `RecoveryOpens`, `StoreInv`. |
| `SqlIsolation` | Two clients on one table, with disconnections: `FirstCommitterWins`, `ReadsOwnWrites`, `LeasesMatch`, `StagedPrivately`. |
| `SqlFailures` | Commits that fail at the second table or inside a batch, rows too large, tables dropped under transactions: `FirstCommitterWins` and `StagedPrivately` still hold and every request is answered. |
| `SqlAutocommit` | No transactions; tables are created and dropped, also inside requests of several statements: `UniqueHolds`, `IndexMatchesRows`, `FailedBatchUndone`. |

What a passing run leaves out is deliberate: `KvCrash` has no deletes, no cut
bodies, no id reuse and no check that `Open` succeeds, `KvSession` has one
reopening and no crash, `SqlIsolation` has one table and no row too large,
`SqlAutocommit` no transactions. `FirstCommitterWins` is about commits: ROLLBACK
and the undo of a failed request rewrite what they find, on purpose or not
(`SqlRollback`). `FailedBatchUndone` is about requests without BEGIN, COMMIT or
ROLLBACK, and about the tables that were there before the request and still are
after it. Beyond these limits there are counterexamples; the next section lists
them.

**Bounds.** Two keys, pages of two records, and a pool of two let chains grow, pages be linked, and evictions
happen; three to five operations with two crashes and three Opens are enough for
replaying a replay and for a compaction between two writes. Two goroutines and
three pages over a pool of two let two misses of one page, a miss and a put of
it, and evictions by either overlap; a pool of one would list no page twice
whatever the code did. Two clients, seven requests and three ids cover both
transactions, a conflict, and a write outside of them. `MaxOps`, `MaxCrashes`,
`MaxOpens`, `MaxRequests` and `MaxPages` are bounds of the model only;
`PoolCapacity` and `Capacity` are 64 in the code. Symmetry is not used. In the
KV and SQL runs deadlock is not checked, since a bounded number of operations
ends; the pool's runs check it.

**Fairness.** `BufferPool` assumes that a goroutine inside `Get` or
`AllocatePage` goes on (weak fairness of its own steps; the lock it waits for is held for one step
only). `SqlExecutor` assumes that the request that holds the mutex goes on; it
waits for nobody. Nothing is assumed of clients.

## Where the code and its documentation disagree

Each of these runs ends in a counterexample; `PROJECT.json` quotes the text.

| Run | Counterexample |
|---|---|
| `KvDeleteReplay` | A delete replayed from the log leaves the key in the index. |
| `KvIdReuse` | Batch ids restart with the process: a new commit marker revives an incomplete batch. |
| `KvTornBody` | A record cut in its body makes `Open` fail. |
| `SqlRollback` | ROLLBACK removes rows that others committed since BEGIN. |
| `SqlUnique` | COMMIT stores duplicates in a UNIQUE column. |

Further counterexamples come from the same modules when a run is widened:

| Run and change | Property violated | Counterexample |
|---|---|---|
| `KvSession`, `MaxOpens = 3` | `SnapshotReadsCurrent` | Close, reopen, write, close, reopen: when the index was loaded the store starts a second chain of pages, and `rebuildVersions` walks the first (`store.go:154`). |
| `KvSession`, `MaxOpens = 3` | `ReadsLatest` | The same with the `.idx` file lost: `rebuildIndex` misses the second chain (`store.go:507`). |
| `KvSession`, `MaxCrashes = 1` | `RecoveryOpens` | A rejected record stays in the log; after a crash `Open` fails on it (`store.go:440`). |
| `KvSession`, `Batches <- BigBatches` | `ReadsLatest` | A batch with a record that fits no page is half applied (`store.go:57`). |
| `KvCrash`, `Tears = {}` | `RecoveryOpens` | A crash between two page writes leaves a hole or a link past the end, which `validatePages` refuses (`store.go:186`). |
| `SqlUnique` | `IndexMatchesRows` | COMMIT does not maintain the secondary index (`table.go:83`). |
| `SqlFailures`, `Requests <- PartialRequests` | `FailedBatchUndone` without `~Controls(req.parts)` | A batch with a COMMIT that fails at its second table leaves the first one changed (`sql.go:1143`). `SQL_COMMANDS.md:239` calls every batch atomic. |
| `SqlAutocommit` | `FailedBatchUndone` for all tables | A table that the failed batch created stays, with the rows the batch put into it: the undo knows the tables that existed before (`sql.go:1032`). |
| `SqlIsolation`, `BigValues = {big}`, `Requests <- BigRequests` | `ReadsOwnWrites` | An INSERT refused as too large leaves its version behind, and the next transaction reads it (`store.go:427`). |
| `SqlIsolation`, two tables, `Requests <- CreateRequests` | `ReadsOwnWrites` | A transaction's insert into a table created after BEGIN is dropped (`sql.go:1097`). |
| `SqlIsolation`, `Requests <- DropRequests` | `LeasesMatch` | With a table dropped, ROLLBACK fails; a disconnection then leaks the snapshots (`sql.go:1160`). |

## What is proved

All theorems hold for every value of the constants that satisfies the named
assumption of the module (`PoolAssumption`, `StoreAssumption`,
`ExecutorAssumption`; all are about types and finiteness).

* `BufferPoolProofs!PoolInvariant`: `PoolInv` is inductive, with and without
  the mutex. `CachedOrStored` alone is not: it needs that a clean cached page
  has a place in the file, that a `Get` in progress names a page the file holds
  once it has read it (`CacheInv`), and that with one request at a time the file
  is never longer than the page count; for the content, that the page a `Get`
  is about to insert is still absent and unchanged (`SerialInv`). Overlapping
  `AllocatePage`s may take one id twice, so what is said of the page count
  holds under `Serialized` only; capacity, list and map need no mutex.
* `BufferPoolProofs!NoWriteLost`: `NoDirtyPageDropped`, from `PoolInv`, with or
  without the mutex.
* `BufferPoolRefines!PoolImplementsPageFile`: assuming `Serialized`, every step
  is a step of `PageFile` or a stutter. Without the mutex it is false: a fill may
  insert what it read before another goroutine's write was evicted.
* `KvStoreProofs!StoreInvariant`: `StoreInv`, the types of all state and the
  place of held snapshots, through every operation, crash and recovery.
* `KvStoreProofs!SnapshotsStable`: `SnapshotStable`. Versions are only added
  behind the ones a snapshot sees; that the snapshot is not beyond the end
  (`HeldSnapshots`) is what the argument needs.
* `SqlExecutorProofs!ExecutorInvariant` and `NoLostUpdate`:
  `FirstCommitterWins`: a commit never covers a version added after its BEGIN.
  The inductive invariant is it together with the types. The step that matters
  is commit, whole, up to a refused table or up to a row that fits no page: each
  batch has a key once, and the check for conflicts bounds every older version
  of the key by the snapshot. A COMMIT that failed half-way and is tried again
  meets its own versions and is refused.

`VersionsProofs` has the shared lemmas on version chains and on the sequences
made from finite sets, `BufferPoolLists` those on the pool's list and map,
`BufferPoolCalls` the steps of AllocatePage, WritePage and Get, and
`SqlExecutorCommits` those of requests, BEGIN and COMMIT.

Only model-checked: liveness (`GetReturns`, `RequestsAnswered`), `ReadsLatest`
and `Recoverable` (they need induction over the log that is replayed),
`SnapshotReadsCurrent`, `RecoveryOpens`, and the executor's properties other
than `FirstCommitterWins`. Liveness under fairness and what a recursive
definition computes for every input are out of the prover's reach.

## Not modelled

* Byte layouts, checksums and encodings, beyond what they accept and reject.
* I/O errors, except failing page writes in the pool; torn page writes.
* The catalog, ALTER, several tables in one store, backup and restore.
* SELECT beyond the rows it starts from; the lexer, the parser, prepared
  statements; updates of the key column.
* Authentication, framing and shutdown of the server; the command line.

## Plan

1. `BTree`: splits, search and the repacking delete as operators and actions,
   checked against a map.
2. An abstract snapshot-isolation database that `SqlExecutor` implements within
   the limits named above, and the proof that a transaction's reads are stable.
3. `Catalog`: CREATE, ALTER, DROP and start-up of the server with crashes
   between the table files and the catalog.
4. `Backup`: staging and renames with a crash between them.
5. `Query`: conditions with NULL, ordering, paging and aggregates against a
   reference; updates of the key column.
6. Proofs: `LeasesMatch` and `StagedPrivately` for the executor; a
   strengthening of `Recoverable` for logs without deletes.
