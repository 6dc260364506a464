----------------------------- MODULE BufferPool -----------------------------
(***************************************************************************)
(* storage/: the pager and its LRU buffer pool.  BufferPool.Get releases   *)
(* the pool's mutex around the disk read of a miss, so it is three steps;  *)
(* every other pool operation runs under the mutex and is one step.  The   *)
(* pager has no mutex: AllocatePage counts the page before it calls the    *)
(* pool, which is steps of its own unless the callers take turns.          *)
(*                                                                         *)
(* Page contents are opaque.  A caller changes a page and hands it to      *)
(* WritePage in one step: the store never leaves a changed page it has     *)
(* not passed to WritePage (a rejected record changes no page).            *)
(***************************************************************************)
EXTENDS Integers, Sequences, FiniteSets, SequencesExt

CONSTANTS Callers,     \* goroutines that use the pager
          MaxPages,    \* bound on the number of pages (2^32 - 1 in the code)
          Capacity,    \* the argument of NewBufferPool (64 in Pager.Open)
          Data,        \* contents a caller writes to a page
          NewPage,     \* content of a freshly allocated page
          Zero,        \* content of a hole in the file
          NoEntry,     \* the pool does not hold the page
          Serialized   \* TRUE: one caller at a time, as under Server.mu

ASSUME PoolAssumption ==
  /\ MaxPages \in Nat
  /\ Capacity \in Int
  /\ Serialized \in BOOLEAN
  /\ NoEntry \notin [page : Data \cup {NewPage, Zero}, dirty : BOOLEAN]

VARIABLES numPages,  \* Pager.numPages
          items,     \* BufferPool.items: page -> entry or NoEntry
          lru,       \* BufferPool.lru: cached pages, most recently used first
          disk,      \* the database file; Zero where never written
          fileLen,   \* its length in pages
          open,      \* the pager is open
          call,      \* call[c]: where c is inside Get or AllocatePage
          got        \* got[c]: page and content of c's last Get (see Returns)

vars == <<numPages, items, lru, disk, fileLen, open, call, got>>

PageIds == 0 .. MaxPages - 1
Contents == Data \cup {NewPage, Zero}
Entry == [page : Contents, dirty : BOOLEAN]
Idle == [pc |-> "idle", id |-> 0, page |-> Zero]

(* NewBufferPool: a capacity below one is raised to one. *)
cap == IF Capacity < 1 THEN 1 ELSE Capacity

Dirty == {p \in PageIds : items[p] # NoEntry /\ items[p].dirty}

MayCall(c) ==
  /\ open
  /\ call[c] = Idle
  /\ Serialized => \A d \in Callers : call[d] = Idle

(* What Get returns is kept to be compared with PageFile, which only       *)
(* callers that take turns implement.                                      *)
Returns(c, p, v) ==
  got' = IF Serialized THEN [got EXCEPT ![c] = [id |-> p, page |-> v]] ELSE got

-----------------------------------------------------------------------------
(* writePageDisk of every page in S; WriteAt past the end leaves holes. *)
writePageDisk(S) ==
  /\ disk' = [p \in PageIds |-> IF p \in S THEN items[p].page ELSE disk[p]]
  /\ fileLen' \in {n \in fileLen .. MaxPages :
                    /\ \A p \in S : p < n
                    /\ n = fileLen \/ n - 1 \in S}

MoveToFront(p) ==
  lru' = <<p>> \o RemoveAt(lru, CHOOSE i \in DOMAIN lru : lru[i] = p)

(* The least recently used page, when there is no room for another one. *)
Victims == IF Len(lru) < cap THEN {} ELSE {Last(lru)}

(* Mutant: the victim is dropped without being written. *)
makeRoomWithoutWrite(p, e) ==
  /\ lru' = <<p>> \o (IF Victims = {} THEN lru ELSE Front(lru))
  /\ items' = [q \in PageIds |-> IF q = p THEN e
                                 ELSE IF q \in Victims THEN NoEntry
                                 ELSE items[q]]
  /\ UNCHANGED <<disk, fileLen>>

(***************************************************************************)
(* makeRoomLocked, then PushFront: a full pool writes its least recently   *)
(* used page if dirty, and drops it.                                       *)
(***************************************************************************)
makeRoomAndInsert(p, e) ==
  /\ writePageDisk(Victims \cap Dirty)
  /\ lru' = <<p>> \o (IF Victims = {} THEN lru ELSE Front(lru))
  /\ items' = [q \in PageIds |-> IF q = p THEN e
                                 ELSE IF q \in Victims THEN NoEntry
                                 ELSE items[q]]

(* Mutant: an inserted page is not marked dirty. *)
PutClean(p, v) ==
  LET e == [page |-> v, dirty |-> FALSE] IN
  IF items[p] # NoEntry
  THEN /\ items' = [items EXCEPT ![p] = e]
       /\ MoveToFront(p)
       /\ UNCHANGED <<disk, fileLen>>
  ELSE makeRoomAndInsert(p, e)

(* BufferPool.Put with dirty = TRUE, the only way the pager calls it. *)
Put(p, v) ==
  LET e == [page |-> v, dirty |-> TRUE] IN
  IF items[p] # NoEntry
  THEN /\ items' = [items EXCEPT ![p] = e]
       /\ MoveToFront(p)
       /\ UNCHANGED <<disk, fileLen>>
  ELSE makeRoomAndInsert(p, e)

-----------------------------------------------------------------------------
Init ==
  /\ numPages = 0
  /\ items = [p \in PageIds |-> NoEntry]
  /\ lru = <<>>
  /\ disk = [p \in PageIds |-> Zero]
  /\ fileLen = 0
  /\ open = TRUE
  /\ call = [c \in Callers |-> Idle]
  /\ got = [c \in Callers |-> [id |-> 0, page |-> Zero]]

(***************************************************************************)
(* AllocatePage of a caller that has its turn, in one step.                *)
(* A failed eviction write makes AllocatePage and WritePage return an      *)
(* error and changes nothing (numPages is restored), so it is no step.     *)
(***************************************************************************)
AllocatePage(c) ==
  /\ Serialized /\ MayCall(c)
  /\ numPages < MaxPages
  /\ numPages' = numPages + 1
  /\ Put(numPages, NewPage)
  /\ UNCHANGED <<open, call, got>>

(* AllocatePage of callers that overlap: the id of the page is read. *)
AllocateReads(c) ==
  /\ MayCall(c)
  /\ numPages < MaxPages
  /\ call' = [call EXCEPT ![c] = [pc |-> "count", id |-> numPages, page |-> Zero]]
  /\ UNCHANGED <<numPages, items, lru, disk, fileLen, open, got>>

(* numPages++ without a lock: what is stored follows any value that the    *)
(* field has had since the id was read.                                    *)
AllocateCounts(c) ==
  /\ call[c].pc = "count"
  /\ \E n \in (call[c].id .. numPages) \cup {call[c].id, numPages} :
       n < MaxPages /\ numPages' = n + 1
  /\ call' = [call EXCEPT ![c].pc = "put"]
  /\ UNCHANGED <<items, lru, disk, fileLen, open, got>>

(* The new page is handed to the pool, which has a lock ... *)
AllocatePuts(c) ==
  /\ call[c].pc = "put"
  /\ Put(call[c].id, NewPage)
  /\ call' = [call EXCEPT ![c] = Idle]
  /\ UNCHANGED <<numPages, open, got>>

(* ... or the eviction write fails and numPages--, unlocked too, takes the *)
(* page back: what is stored precedes any value that the field has had     *)
(* since the page was counted, and below zero the counter wraps around.    *)
AllocatePutFails(c) ==
  /\ call[c].pc = "put"
  /\ items[call[c].id] = NoEntry
  /\ Victims \cap Dirty # {}
  /\ \E n \in (call[c].id + 1 .. numPages) \cup {numPages} :
       numPages' = IF n = 0 THEN MaxPages ELSE n - 1
  /\ call' = [call EXCEPT ![c] = Idle]
  /\ UNCHANGED <<items, lru, disk, fileLen, open, got>>

WritePage(c, p, v) ==
  /\ MayCall(c)
  /\ p < numPages
  /\ Put(p, v)
  /\ UNCHANGED <<numPages, open, call, got>>

(* ReadPage, then BufferPool.Get: the page is cached. *)
GetHit(c, p) ==
  /\ MayCall(c)
  /\ p < numPages
  /\ items[p] # NoEntry
  /\ MoveToFront(p)
  /\ Returns(c, p, items[p].page)
  /\ UNCHANGED <<numPages, items, disk, fileLen, open, call>>

(* ReadPage, then BufferPool.Get: not cached; the mutex is released. *)
GetMiss(c, p) ==
  /\ MayCall(c)
  /\ p < numPages
  /\ items[p] = NoEntry
  /\ call' = [call EXCEPT ![c] = [pc |-> "miss", id |-> p, page |-> Zero]]
  /\ UNCHANGED <<numPages, items, lru, disk, fileLen, open, got>>

(* readPageDisk, with no lock held; past the end of the file it fails. *)
GetReadDisk(c) ==
  /\ call[c].pc = "miss"
  /\ call' = [call EXCEPT ![c] =
                IF @.id < fileLen
                THEN [pc |-> "read", id |-> @.id, page |-> disk[@.id]]
                ELSE Idle]
  /\ UNCHANGED <<numPages, items, lru, disk, fileLen, open, got>>

(* Mutant: Get does not look again for a page cached in the meantime. *)
GetFillWithoutRecheck(c) ==
  /\ call[c].pc = "read"
  /\ makeRoomAndInsert(call[c].id, [page |-> call[c].page, dirty |-> FALSE])
  /\ Returns(c, call[c].id, call[c].page)
  /\ call' = [call EXCEPT ![c] = Idle]
  /\ UNCHANGED <<numPages, open>>

(* Mutant: Get keeps waiting while another goroutine's copy is cached. *)
GetFillIfAbsent(c) ==
  /\ items[call[c].id] = NoEntry
  /\ GetFillWithoutRecheck(c)

(* The second half of Get: another goroutine may have cached the page. *)
GetFill(c) ==
  /\ call[c].pc = "read"
  /\ LET p == call[c].id IN
     /\ IF items[p] # NoEntry
        THEN /\ MoveToFront(p)
             /\ Returns(c, p, items[p].page)
             /\ UNCHANGED <<items, disk, fileLen>>
        ELSE /\ makeRoomAndInsert(p, [page |-> call[c].page, dirty |-> FALSE])
             /\ Returns(c, p, call[c].page)
  /\ call' = [call EXCEPT ![c] = Idle]
  /\ UNCHANGED <<numPages, open>>

(* ... or the eviction write fails and Get returns the error. *)
GetFillFails(c) ==
  /\ call[c].pc = "read"
  /\ items[call[c].id] = NoEntry
  /\ Victims \cap Dirty # {}
  /\ call' = [call EXCEPT ![c] = Idle]
  /\ UNCHANGED <<numPages, items, lru, disk, fileLen, open, got>>

(* Mutant: the dirty bits are cleared although a write has failed. *)
FlushClearsAll(c) ==
  /\ MayCall(c)
  /\ \E S \in SUBSET Dirty : writePageDisk(S)
  /\ items' = [p \in PageIds |->
                 IF p \in Dirty THEN [items[p] EXCEPT !.dirty = FALSE]
                 ELSE items[p]]
  /\ UNCHANGED <<numPages, lru, open, call, got>>

(***************************************************************************)
(* Flush goes through the pool in map order and stops at the first write   *)
(* error: any subset of the dirty pages may have been written.             *)
(***************************************************************************)
Flush(c) ==
  /\ MayCall(c)
  /\ \E S \in SUBSET Dirty :
       /\ writePageDisk(S)
       /\ items' = [p \in PageIds |->
                      IF p \in S THEN [items[p] EXCEPT !.dirty = FALSE]
                      ELSE items[p]]
  /\ UNCHANGED <<numPages, lru, open, call, got>>

(* Pager.Close: everything is flushed, or the error is Flush's. *)
Close(c) ==
  /\ MayCall(c)
  /\ \A d \in Callers : call[d] = Idle
  /\ writePageDisk(Dirty)
  /\ items' = [p \in PageIds |-> NoEntry]
  /\ lru' = <<>>
  /\ open' = FALSE
  /\ UNCHANGED <<numPages, call, got>>

(* The process dies: the pool is lost, the file stays as it is. *)
Crash ==
  /\ open
  /\ items' = [p \in PageIds |-> NoEntry]
  /\ lru' = <<>>
  /\ numPages' = fileLen
  /\ call' = [c \in Callers |-> Idle]
  /\ open' = FALSE
  /\ UNCHANGED <<disk, fileLen, got>>

(* Pager.Open: the number of pages is the file's length. *)
Open ==
  /\ ~open
  /\ numPages' = fileLen
  /\ open' = TRUE
  /\ UNCHANGED <<items, lru, disk, fileLen, call, got>>

Next ==
  \/ \E c \in Callers :
        \/ AllocatePage(c)
        \/ ~Serialized /\ \/ AllocateReads(c) \/ AllocateCounts(c) \/ AllocatePuts(c)
                          \/ AllocatePutFails(c)
        \/ \E p \in PageIds : GetHit(c, p) \/ GetMiss(c, p)
        \/ \E p \in PageIds, v \in Data : WritePage(c, p, v)
        \/ GetReadDisk(c) \/ GetFill(c) \/ GetFillFails(c)
        \/ Flush(c) \/ Close(c)
  \/ Crash
  \/ Open

Spec == Init /\ [][Next]_vars

(* A goroutine inside Get or AllocatePage keeps running; nothing else is   *)
(* promised.                                                               *)
Proceed(c) ==
  \/ GetReadDisk(c) \/ GetFill(c)
  \/ AllocateCounts(c) \/ AllocatePuts(c)

Fairness == \A c \in Callers : WF_vars(Proceed(c))

FairSpec == Spec /\ Fairness

-----------------------------------------------------------------------------
CallType ==
  [pc : {"idle", "miss", "read", "count", "put"}, id : PageIds \cup {0}, page : Contents]

TypeOK ==
  /\ numPages \in 0 .. MaxPages
  /\ items \in [PageIds -> Entry \cup {NoEntry}]
  /\ lru \in Seq(PageIds)
  /\ disk \in [PageIds -> Contents]
  /\ fileLen \in 0 .. MaxPages
  /\ open \in BOOLEAN
  /\ call \in [Callers -> CallType]
  /\ got \in [Callers -> [id : PageIds \cup {0}, page : Contents]]

(***************************************************************************)
(* The pool never holds more pages than its capacity, however many Gets    *)
(* are between their miss and their fill, and the LRU list and the item    *)
(* map always name the same pages, each once: two Gets that missed the     *)
(* same page, or a Get and a Put of it, insert it once (a page in the map  *)
(* only would never be evicted; a page in the list twice would be evicted  *)
(* while in use).                                                          *)
(***************************************************************************)
LruMatchesItems ==
  /\ Len(lru) <= cap
  /\ IsInjective(lru)
  /\ \A p \in PageIds : items[p] # NoEntry <=> \E i \in DOMAIN lru : lru[i] = p

(***************************************************************************)
(* With one request at a time no existing page is both out of the pool and *)
(* past the end of the file: ReadPage of an existing page never fails in   *)
(* readPageDisk.  It depends on every new page being dirty, on evictions   *)
(* writing before they drop, and on Crash and Open taking the page count   *)
(* from the file.                                                          *)
(***************************************************************************)
CachedOrStored ==
  Serialized => \A p \in PageIds :
    p < numPages => items[p] # NoEntry \/ p < fileLen

(***************************************************************************)
(* The inductive invariant behind the theorems.  A clean page has a place  *)
(* in the file; nothing outlives a close; a call in progress names a page, *)
(* and a Get one the file holds once it has read it.  With one request at  *)
(* a time only existing pages are cached, and the file never has more      *)
(* pages than the pager; a clean page equals its place in the file; the    *)
(* only call in progress is a Get of an existing page, and that page is    *)
(* still absent and unchanged.                                             *)
(***************************************************************************)
CacheInv ==
  /\ \A p \in PageIds : items[p] # NoEntry => items[p].dirty \/ p < fileLen
  /\ ~open => /\ \A p \in PageIds : items[p] = NoEntry
              /\ \A c \in Callers : call[c] = Idle
  /\ \A c \in Callers :
        /\ call[c].pc # "idle" => call[c].id \in PageIds
        /\ call[c].pc = "read" => call[c].id < fileLen

SerialInv ==
  Serialized =>
     /\ fileLen <= numPages /\ (~open => numPages = fileLen)
     /\ \A p \in PageIds : items[p] # NoEntry =>
           p < numPages /\ (items[p].dirty \/ items[p].page = disk[p])
     /\ \A c, d \in Callers : call[c] # Idle /\ call[d] # Idle => c = d
     /\ \A c \in Callers :
           /\ call[c] # Idle => /\ call[c].pc \in {"miss", "read"}
                               /\ call[c].id < numPages
                               /\ items[call[c].id] = NoEntry
           /\ call[c].pc = "read" => call[c].page = disk[call[c].id]

PoolInv ==
  TypeOK /\ LruMatchesItems /\ CachedOrStored /\ CacheInv /\ SerialInv

(***************************************************************************)
(* A page stops being dirty only by reaching the file with the content the *)
(* pool had for it, unless the process dies: no eviction, fill, flush or   *)
(* close loses a page write, even when Gets and Puts of several goroutines *)
(* overlap.                                                                *)
(***************************************************************************)
NoDirtyPageDropped ==
  [][\A p \in Dirty : p \notin Dirty' /\ ~Crash => disk'[p] = items[p].page]_vars

(***************************************************************************)
(* Every Get returns: the miss, the unlocked disk read and the fill are    *)
(* followed through whatever the other goroutines do to the pool           *)
(* meanwhile; and so does every AllocatePage.                              *)
(***************************************************************************)
GetReturns == \A c \in Callers : call[c] # Idle ~> call[c] = Idle

(***************************************************************************)
(* One request at a time, pager and pool together are a page file: the     *)
(* content of a page is its cached copy if there is one and its place in   *)
(* the file otherwise; reads return it, only WritePage and AllocatePage    *)
(* change it, evictions and fills are invisible, a clean close keeps it.   *)
(***************************************************************************)
Mem == [p \in PageIds |-> IF items[p] # NoEntry THEN items[p].page ELSE disk[p]]

PF == INSTANCE PageFile WITH mem <- Mem, file <- disk

ImplementsPageFile == PF!Spec
=============================================================================
