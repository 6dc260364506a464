-------------------------- MODULE BufferPoolProofs --------------------------
(***************************************************************************)
(* Flush, Close, a crash and Open keep PoolInv too, so it holds of every   *)
(* reachable state: the pool never exceeds its capacity, list and map      *)
(* agree, and no dirty page leaves the pool without being written.         *)
(***************************************************************************)
EXTENDS BufferPoolCalls

(* Flush writes every dirty page and leaves the pool clean. *)
LEMMA FlushKeeps ==
  ASSUME PoolInv, NEW c \in Callers, Flush(c)
  PROVE  PoolInv'
<1> USE DEF PoolInv
<1>1. PICK S \in SUBSET Dirty :
        /\ writePageDisk(S)
        /\ items' = [p \in PageIds |->
                       IF p \in S THEN [items[p] EXCEPT !.dirty = FALSE] ELSE items[p]]
  BY DEF Flush
<1>2. /\ numPages' = numPages /\ lru' = lru /\ open' = open /\ call' = call
      /\ got' = got /\ open /\ MayCall(c)
  BY DEF Flush, MayCall
<1>3. /\ disk' \in [PageIds -> Contents]
      /\ fileLen' \in 0 .. MaxPages
      /\ fileLen <= fileLen'
      /\ \A p \in PageIds : disk'[p] = IF p \in S THEN items[p].page ELSE disk[p]
      /\ \A p \in S : p < fileLen'
      /\ fileLen' = fileLen \/ fileLen' - 1 \in S
  BY <1>1, WriteFacts
<1>4. \A p \in S : p \in PageIds /\ items[p] \in Entry /\ items[p] # NoEntry
  BY DEF Dirty, TypeOK
<1>5. \A p \in PageIds :
        /\ p \in S => /\ items'[p] \in Entry /\ items'[p].dirty = FALSE
                      /\ items'[p].page = items[p].page
        /\ p \notin S => items'[p] = items[p]
  BY <1>1, <1>4, ZenonT(60) DEF Entry
<1>6. \A p \in PageIds : items'[p] # NoEntry <=> items[p] # NoEntry
  BY <1>4, <1>5, PoolAssumption DEF Entry, Contents
<1>7. items' \in [PageIds -> Entry \cup {NoEntry}]
  BY <1>1, <1>5 DEF TypeOK
<1>8. TypeOK'
  BY <1>2, <1>3, <1>7, SMTT(60) DEF TypeOK
<1>9. LruMatchesItems'
  BY <1>2, <1>6 DEF LruMatchesItems, cap
<1>10. /\ numPages \in Int /\ fileLen \in Int /\ fileLen' \in Int /\ fileLen' \in Nat
       /\ numPages' \in Nat /\ numPages <= numPages' /\ PageIds \subseteq Int
  BY <1>2, <1>3 DEF TypeOK, PageIds
<1>11. \A p \in PageIds : p < fileLen => p < fileLen'
  BY <1>3, <1>10, Arithmetic, Zenon, ZenonT(60)
<1>12. CachedOrStored'
  BY <1>2, <1>6, <1>11, SMTT(60) DEF CachedOrStored
<1>13. ASSUME Serialized
       PROVE  fileLen' <= numPages'
  <2>1. CASE fileLen' = fileLen
    BY <1>2, <1>13, <2>1 DEF SerialInv
  <2>2. CASE fileLen' - 1 \in S
    <3>1. fileLen' - 1 < numPages
      BY <1>4, <1>13, <2>2, SMTT(60) DEF SerialInv
    <3>2. QED
      BY <1>2, <1>10, <3>1, Arithmetic, Zenon, ZenonT(60)
  <2>3. QED
    BY <1>3, <2>1, <2>2, SMTT(60)
<1>14. \A p \in PageIds : items'[p] # NoEntry =>
          items'[p].dirty \/ p < fileLen'
  BY <1>3, <1>5, <1>6, <1>11, SMTT(60) DEF CacheInv
<1>15. CacheInv'
  <2>1. \A d \in Callers : /\ call'[d].pc # "idle" => call'[d].id \in PageIds
                          /\ call'[d].pc = "read" => call'[d].id < fileLen'
    BY <1>2, <1>3, <1>10, CallsKeep
  <2>2. QED
    BY <1>2, <1>14, <2>1 DEF CacheInv
<1>16. SerialInv'
  <2> SUFFICES ASSUME Serialized PROVE SerialInv'
    BY DEF SerialInv
  <2>1. \A d \in Callers : call[d] = Idle
    BY <1>2 DEF MayCall
  <2>2. \A d \in Callers : call'[d] = Idle /\ call'[d].pc # "read"
    BY <1>2, <2>1 DEF Idle
  <2>3. ASSUME NEW p \in PageIds, items'[p] # NoEntry, ~items'[p].dirty
        PROVE  items'[p].page = disk'[p]
    <3>1. CASE p \in S
      BY <1>3, <1>5, <3>1, SMTT(60)
    <3>2. CASE p \notin S
      <4>1. items'[p] = items[p] /\ disk'[p] = disk[p]
        BY <1>3, <1>5, <3>2, SMTT(60)
      <4>2. QED
        BY <2>3, <4>1, SMTT(60) DEF SerialInv
    <3>3. QED
      BY <3>1, <3>2, SMTT(60)
  <2>4. \A p \in PageIds : items'[p] # NoEntry => p < numPages'
    BY <1>2, <1>6 DEF SerialInv
  <2>5. QED
    BY <1>2, <1>13, <2>2, <2>3, <2>4, SMTT(60) DEF SerialInv
<1>17. QED
  BY <1>8, <1>9, <1>12, <1>15, <1>16, SMTT(60)

(* Close flushes, then the pool is gone and the file is complete. *)
LEMMA CloseKeeps ==
  ASSUME PoolInv, NEW c \in Callers, Close(c)
  PROVE  PoolInv' /\ (Serialized => fileLen' = numPages)
<1> USE DEF PoolInv
<1>1. /\ writePageDisk(Dirty) /\ items' = [p \in PageIds |-> NoEntry] /\ lru' = <<>>
      /\ open' = FALSE /\ numPages' = numPages /\ call' = call /\ got' = got
      /\ \A d \in Callers : call[d] = Idle
  BY DEF Close
<1>2. /\ disk' \in [PageIds -> Contents]
      /\ fileLen' \in 0 .. MaxPages
      /\ fileLen <= fileLen'
      /\ \A p \in Dirty : p < fileLen'
      /\ fileLen' = fileLen \/ fileLen' - 1 \in Dirty
  BY <1>1, WriteFacts
<1>3. /\ numPages \in Nat /\ fileLen \in Int /\ fileLen' \in Int /\ numPages <= MaxPages
      /\ numPages \in Int /\ fileLen \in Nat /\ fileLen' \in Nat
  BY <1>2, PoolAssumption DEF TypeOK
<1>4. ASSUME Serialized
      PROVE  fileLen' <= numPages
  <2>1. CASE fileLen' = fileLen
    BY <1>4, <2>1 DEF SerialInv
  <2>2. CASE fileLen' - 1 \in Dirty
    <3>1. fileLen' - 1 < numPages
      BY <1>4, <2>2 DEF SerialInv, Dirty
    <3>2. QED
      BY <1>3, <3>1, Arithmetic, Zenon, ZenonT(60)
  <2>3. QED
    BY <1>2, <2>1, <2>2, SMTT(60)
<1>5. ASSUME Serialized
      PROVE  fileLen' = numPages
  <2> SUFFICES ASSUME fileLen' < numPages PROVE FALSE
    BY <1>3, <1>4, <1>5
  <2>1. fileLen' \in PageIds
    BY <1>2, <1>3, PoolAssumption DEF PageIds
  <2>2. items[fileLen'] # NoEntry \/ fileLen' < fileLen
    BY <1>5, <2>1 DEF CachedOrStored
  <2>3. ~(fileLen' < fileLen)
    BY <1>2, <1>3
  <2>4. items[fileLen'].dirty
    BY <2>1, <2>2, <2>3, SMTT(60) DEF CacheInv
  <2>5. fileLen' \in Dirty
    BY <2>1, <2>2, <2>3, <2>4, SMTT(60) DEF Dirty
  <2>6. fileLen' < fileLen'
    BY <1>2, <2>5, SMTT(60)
  <2>7. QED
    BY <1>3, <2>6
<1>6. TypeOK'
  BY <1>1, <1>2, EmptySeq, ZenonT(60) DEF TypeOK
<1>7. LruMatchesItems'
  BY <1>1, PoolAssumption DEF LruMatchesItems, cap, IsInjective
<1>8. CachedOrStored'
  BY <1>1, <1>5 DEF CachedOrStored
<1>9. CacheInv'
  BY <1>1 DEF CacheInv, Idle
<1>10. SerialInv'
  BY <1>1, <1>3, <1>5 DEF SerialInv, Idle
<1>11. QED
  BY <1>5, <1>6, <1>7, <1>8, <1>9, <1>10, SMTT(60)

(* A crash leaves the file and an empty pool. *)
LEMMA CrashKeeps ==
  ASSUME PoolInv, Crash
  PROVE  PoolInv'
<1> USE DEF PoolInv, Crash
<1>1. Idle \in CallType
  BY DEF Contents, CallType, Idle
<1>2. TypeOK'
  BY <1>1, EmptySeq, ZenonT(60) DEF TypeOK
<1>3. LruMatchesItems'
  BY PoolAssumption DEF LruMatchesItems, cap, IsInjective
<1>4. fileLen \in Nat
  BY PoolAssumption DEF TypeOK
<1>5. CachedOrStored' /\ CacheInv' /\ SerialInv'
  BY <1>4 DEF CachedOrStored, CacheInv, SerialInv, Idle
<1>6. QED
  BY <1>2, <1>3, <1>5, SMTT(60)

(* Open counts the pages of the file and starts with an empty pool. *)
LEMMA OpenKeeps ==
  ASSUME PoolInv, Open
  PROVE  PoolInv' /\ (Serialized => numPages' = numPages)
<1> USE DEF PoolInv, Open
<1>1. Serialized => numPages = fileLen
  BY DEF SerialInv
<1>2. TypeOK'
  BY SMTT(60) DEF TypeOK
<1>3. LruMatchesItems' /\ CachedOrStored' /\ CacheInv' /\ SerialInv'
  BY <1>1 DEF LruMatchesItems, CachedOrStored, CacheInv, SerialInv, Idle, cap
<1>4. QED
  BY <1>1, <1>2, <1>3, SMTT(60)

(***************************************************************************)
(* The invariant of the pool in every reachable state: within capacity,    *)
(* list and map in step, a clean page has a place in the file, with any    *)
(* overlap of Gets, WritePages and AllocatePages; and, with one request at *)
(* a time, no existing page is lost.                                       *)
(***************************************************************************)
THEOREM PoolInvariant == Spec => []PoolInv
<1>1. Init => PoolInv
  BY InitPool
<1>2. PoolInv /\ [Next]_vars => PoolInv'
  <2> SUFFICES ASSUME PoolInv, [Next]_vars PROVE PoolInv'
    OBVIOUS
  <2>1. ASSUME NEW c \in Callers,
               \/ AllocatePage(c)
               \/ ~Serialized /\ \/ AllocateReads(c) \/ AllocateCounts(c)
                                 \/ AllocatePuts(c) \/ AllocatePutFails(c)
               \/ \E p \in PageIds : GetHit(c, p) \/ GetMiss(c, p)
               \/ \E p \in PageIds, v \in Data : WritePage(c, p, v)
               \/ GetReadDisk(c) \/ GetFill(c) \/ GetFillFails(c)
               \/ Flush(c) \/ Close(c)
        PROVE  PoolInv'
    BY <2>1, AllocatePageKeeps, AllocateKeeps, WritePageKeeps, GetHitKeeps, GetMissKeeps,
       GetReadDiskKeeps, GetFillKeeps, GetFillFailsKeeps, FlushKeeps, CloseKeeps, SMTT(60)
  <2>2. CASE Crash \/ Open
    BY <2>2, CrashKeeps, OpenKeeps, SMTT(60)
  <2>3. CASE UNCHANGED vars
    BY <2>3, SMTT(60) DEF vars, PoolInv, TypeOK, LruMatchesItems, cap, CachedOrStored,
       CacheInv, SerialInv, Idle
  <2>4. QED
    BY <2>1, <2>2, <2>3, SMTT(60) DEF Next
<1>3. QED
  BY <1>1, <1>2, PTL DEF Spec

(* An insertion that leaves p dirty, or that finds p absent, keeps every   *)
(* dirty page dirty or puts it in the file.                                *)
LEMMA CacheStepKeepsDirty ==
  ASSUME TypeOK, NEW p \in PageIds, NEW e \in Entry, CacheStep(p, e),
         e.dirty = TRUE \/ items[p] = NoEntry,
         NEW q \in Dirty, q \notin Dirty'
  PROVE  disk'[q] = items[q].page
<1>1. q \in PageIds /\ items[q] # NoEntry /\ items[q].dirty
  BY DEF Dirty
<1>2. e # NoEntry
  BY PoolAssumption DEF Entry, Contents
<1>3. q # p
  BY <1>1, <1>2 DEF Dirty, CacheStep
<1>4. items'[q] # items[q]
  BY <1>1 DEF Dirty
<1>5. QED
  BY <1>1, <1>3, <1>4, SMTT(60) DEF CacheStep

(***************************************************************************)
(* No page write is lost: a page stops being dirty only by reaching the    *)
(* file, or with the process.  Requests need not be serialized for this.   *)
(***************************************************************************)
THEOREM NoWriteLost == Spec => NoDirtyPageDropped
<1> DEFINE Kept == \A p \in Dirty : p \notin Dirty' /\ ~Crash => disk'[p] = items[p].page
<1>1. PoolInv /\ [Next]_vars => [Kept]_vars
  <2> SUFFICES ASSUME PoolInv, Next, ~Crash, NEW q \in Dirty, q \notin Dirty'
               PROVE  disk'[q] = items[q].page
    OBVIOUS
  <2> USE DEF PoolInv
  <2>1. ASSUME NEW c \in Callers, AllocatePage(c)
        PROVE  disk'[q] = items[q].page
    <3> DEFINE e == [page |-> NewPage, dirty |-> TRUE]
    <3>1. numPages \in PageIds /\ NewPage \in Contents /\ e \in Entry /\ e.dirty = TRUE
      BY <2>1, PoolAssumption DEF AllocatePage, TypeOK, PageIds, Contents, Entry
    <3>2. CacheStep(numPages, e)
      BY <2>1, <3>1, PutFacts DEF AllocatePage
    <3> HIDE DEF e
    <3>3. QED
      BY <3>1, <3>2, CacheStepKeepsDirty, ZenonT(60)
  <2>2. ASSUME NEW c \in Callers, NEW p \in PageIds, NEW v \in Data, WritePage(c, p, v)
        PROVE  disk'[q] = items[q].page
    <3> DEFINE e == [page |-> v, dirty |-> TRUE]
    <3>1. v \in Contents /\ e \in Entry /\ e.dirty = TRUE
      BY DEF Contents, Entry
    <3>2. CacheStep(p, e)
      BY <2>2, <3>1, PutFacts DEF WritePage
    <3> HIDE DEF e
    <3>3. QED
      BY <3>1, <3>2, CacheStepKeepsDirty, ZenonT(60)
  <2>3. ASSUME NEW c \in Callers, GetFill(c)
        PROVE  disk'[q] = items[q].page
    <3> DEFINE p == call[c].id
               e == [page |-> call[c].page, dirty |-> FALSE]
    <3>0. call[c].pc = "read"
      BY <2>3, Zenon DEF GetFill
    <3>1. call[c].pc = "read" /\ call[c] # Idle
      BY <3>0 DEF Idle
    <3>2. p \in PageIds /\ call[c].page \in Contents /\ e \in Entry
      BY <3>1, SMTT(60) DEF CacheInv, TypeOK, CallType, Entry
    <3>3. CASE items[p] # NoEntry
      BY <2>3, <3>3, SMTT(60) DEF GetFill, Dirty
    <3>4. CASE items[p] = NoEntry
      <4>1. makeRoomAndInsert(p, e)
        BY <2>3, <3>4 DEF GetFill
      <4> HIDE DEF e
      <4>2. QED
        BY <3>2, <3>4, <4>1, InsertFacts, CacheStepKeepsDirty, Zenon
    <3>5. QED
      BY <3>3, <3>4
  <2>4. ASSUME NEW c \in Callers, Flush(c)
        PROVE  disk'[q] = items[q].page
    BY <2>4 DEF Flush, Dirty, writePageDisk
  <2>5. ASSUME NEW c \in Callers, Close(c)
        PROVE  disk'[q] = items[q].page
    BY <2>5 DEF Close, Dirty, writePageDisk
  <2>6. CASE Open
    BY <2>6, SMTT(60) DEF Open, Dirty
  <2>7. ASSUME NEW c \in Callers,
               \/ \E p \in PageIds : GetHit(c, p) \/ GetMiss(c, p)
               \/ GetReadDisk(c) \/ GetFillFails(c)
        PROVE  disk'[q] = items[q].page
    BY <2>7 DEF GetHit, GetMiss, GetReadDisk, GetFillFails, Dirty
  <2>8. ASSUME NEW c \in Callers, AllocatePuts(c)
        PROVE  disk'[q] = items[q].page
    <3> DEFINE p == call[c].id
               e == [page |-> NewPage, dirty |-> TRUE]
    <3>1. p \in PageIds /\ NewPage \in Contents /\ e \in Entry /\ e.dirty = TRUE
      BY <2>8 DEF AllocatePuts, CacheInv, Contents, Entry
    <3>2. CacheStep(p, e)
      BY <2>8, <3>1, PutFacts DEF AllocatePuts
    <3> HIDE DEF p, e
    <3>3. QED
      BY <3>1, <3>2, CacheStepKeepsDirty, ZenonT(60)
  <2>9. ASSUME NEW c \in Callers,
               AllocateReads(c) \/ AllocateCounts(c) \/ AllocatePutFails(c)
        PROVE  disk'[q] = items[q].page
    BY <2>9 DEF AllocateReads, AllocateCounts, AllocatePutFails, Dirty
  <2>10. QED
    BY <2>1, <2>2, <2>3, <2>4, <2>5, <2>6, <2>7, <2>8, <2>9, SMTT(60) DEF Next
<1>2. QED
  BY <1>1, PoolInvariant, PTL DEF Spec, NoDirtyPageDropped
=============================================================================
