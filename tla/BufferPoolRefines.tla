-------------------------- MODULE BufferPoolRefines -------------------------
(***************************************************************************)
(* One request at a time, pager and buffer pool implement PageFile, for    *)
(* any number of callers and pages and any capacity.                       *)
(***************************************************************************)
EXTENDS BufferPoolProofs

(* Replacing p's entry, evicting at most one other page, changes what is   *)
(* read at p only, and writes only current contents to the file.           *)
LEMMA CacheStepMem ==
  ASSUME PoolInv, Serialized, NEW p \in PageIds, NEW e \in Entry, CacheStep(p, e)
  PROVE  Mem' = [Mem EXCEPT ![p] = e.page] /\ PF!WriteBack
<1>1. e # NoEntry
  BY PoolAssumption DEF Entry, Contents
<1>2. Mem'[p] = e.page
  BY <1>1 DEF Mem, CacheStep
<1>3. ASSUME NEW q \in PageIds, q # p
      PROVE  Mem'[q] = Mem[q]
  <2>1. CASE items'[q] = items[q]
    BY <1>3, <2>1 DEF Mem, CacheStep
  <2>2. CASE items'[q] # items[q]
    <3>1. /\ items[q] # NoEntry /\ items'[q] = NoEntry
          /\ items[q].dirty => disk'[q] = items[q].page
          /\ ~items[q].dirty => disk'[q] = disk[q]
      BY <1>3, <2>2 DEF CacheStep
    <3>2. ~items[q].dirty => items[q].page = disk[q]
      BY <3>1 DEF PoolInv, SerialInv
    <3>3. QED
      BY <3>1, <3>2 DEF Mem
  <2>3. QED
    BY <2>1, <2>2
<1>4. Mem' = [Mem EXCEPT ![p] = e.page]
  BY <1>2, <1>3, Zenon DEF Mem
<1>5. PICK S \in SUBSET Dirty :
        disk' = [q \in PageIds |-> IF q \in S THEN items[q].page ELSE disk[q]]
  BY ZenonT(60) DEF CacheStep
<1>6. S \in SUBSET PageIds /\ \A q \in S : Mem[q] = items[q].page
  BY DEF Dirty, Mem
<1>7. disk' = [q \in PageIds |-> IF q \in S THEN Mem[q] ELSE disk[q]]
  BY <1>5, <1>6
<1>8. PF!WriteBack
  BY <1>6, <1>7 DEF PF!WriteBack, PF!PageIds, PageIds
<1>9. QED
  BY <1>4, <1>8

(* An unchanged file is a trivial write-back. *)
LEMMA NoWriteBack ==
  ASSUME TypeOK, disk' = disk
  PROVE  PF!WriteBack
<1>1. {} \in SUBSET PageIds
  OBVIOUS
<1>2. disk' = [q \in PageIds |-> IF q \in {} THEN Mem[q] ELSE disk[q]]
  BY DEF TypeOK
<1>3. QED
  BY <1>1, <1>2, ZenonT(60) DEF PF!WriteBack, PF!PageIds, PageIds

(* One step per operation of the pager: each is the step of PageFile with  *)
(* the corresponding name, or leaves the page file as it was.              *)
LEMMA StepRefines ==
  ASSUME PoolInv, Serialized, [Next]_vars
  PROVE  [PF!Next]_PF!vars
<1> USE DEF PoolInv
<1>0. \A n \in PageIds \cup {numPages} : n \in Int
  BY DEF TypeOK, PageIds
<1>1. ASSUME NEW c \in Callers, AllocatePage(c)
      PROVE  PF!Allocate
  <2> DEFINE e == [page |-> NewPage, dirty |-> TRUE]
  <2>1. numPages \in PageIds /\ NewPage \in Contents /\ e \in Entry
    BY <1>1, PoolAssumption DEF AllocatePage, TypeOK, PageIds, Contents, Entry
  <2>2. CacheStep(numPages, e)
    BY <1>1, <2>1, PutFacts DEF AllocatePage
  <2>3. e.page = NewPage
    OBVIOUS
  <2> HIDE DEF e
  <2>4. Mem' = [Mem EXCEPT ![numPages] = NewPage] /\ PF!WriteBack
    BY <2>1, <2>2, <2>3, CacheStepMem, SMTT(60)
  <2>5. QED
    BY <1>1, <2>1, <2>4 DEF AllocatePage, MayCall, PF!Allocate, PF!PageIds, PageIds
<1>2. ASSUME NEW c \in Callers, NEW p \in PageIds, NEW v \in Data, WritePage(c, p, v)
      PROVE  PF!Write(p, v)
  <2> DEFINE e == [page |-> v, dirty |-> TRUE]
  <2>1. v \in Contents /\ e \in Entry
    BY DEF Contents, Entry
  <2>2. CacheStep(p, e)
    BY <1>2, <2>1, PutFacts DEF WritePage
  <2>3. e.page = v
    OBVIOUS
  <2> HIDE DEF e
  <2>4. Mem' = [Mem EXCEPT ![p] = v] /\ PF!WriteBack
    BY <2>1, <2>2, <2>3, CacheStepMem, SMTT(60)
  <2>5. QED
    BY <1>2, <2>4 DEF WritePage, MayCall, PF!Write
<1>3. ASSUME NEW c \in Callers, NEW p \in PageIds, GetHit(c, p)
      PROVE  PF!Read(c, p)
  <2>1. Mem' = Mem /\ Mem[p] = items[p].page
    BY <1>3 DEF GetHit, Mem
  <2>2. PF!WriteBack
    BY <1>3, NoWriteBack DEF GetHit
  <2>3. QED
    BY <1>3, <2>1, <2>2, SMTT(60) DEF GetHit, Returns, MayCall, PF!Read
<1>4. ASSUME NEW c \in Callers,
             \/ \E p \in PageIds : GetMiss(c, p)
             \/ GetReadDisk(c) \/ GetFillFails(c)
      PROVE  UNCHANGED PF!vars
  BY <1>4 DEF GetMiss, GetReadDisk, GetFillFails, PF!vars, Mem
<1>5. ASSUME NEW c \in Callers, GetFill(c)
      PROVE  \E p \in PageIds : PF!Read(c, p)
  <2> DEFINE p == call[c].id
             e == [page |-> call[c].page, dirty |-> FALSE]
  <2>1. /\ call[c].pc = "read" /\ call[c] # Idle
        /\ numPages' = numPages /\ open' = open
    BY <1>5 DEF GetFill, Idle
  <2>2. /\ p < numPages /\ p \in PageIds /\ call[c].page \in Contents /\ open
        /\ items[p] = NoEntry /\ call[c].page = disk[p]
    BY <2>1, SMTT(60) DEF CacheInv, TypeOK, CallType, SerialInv
  <2>3. /\ makeRoomAndInsert(p, e)
        /\ got' = [got EXCEPT ![c] = [id |-> p, page |-> call[c].page]]
    BY <1>5, <2>2 DEF GetFill, Returns
  <2>4. e \in Entry /\ e.page = disk[p]
    BY <2>2 DEF Entry
  <2> HIDE DEF e
  <2>5. CacheStep(p, e)
    BY <2>2, <2>3, <2>4, InsertFacts, SMTT(60)
  <2>6. Mem' = [Mem EXCEPT ![p] = e.page] /\ PF!WriteBack
    BY <2>2, <2>4, <2>5, CacheStepMem, SMTT(60)
  <2>7. Mem[p] = disk[p] /\ Mem' = Mem
    BY <2>2, <2>4, <2>6 DEF Mem
  <2>8. QED
    BY <2>1, <2>2, <2>3, <2>6, <2>7, ZenonT(60) DEF PF!Read
<1>6. ASSUME NEW c \in Callers, Flush(c)
      PROVE  PF!Flush
  <2>1. PICK S \in SUBSET Dirty :
          /\ writePageDisk(S)
          /\ items' = [p \in PageIds |->
                         IF p \in S THEN [items[p] EXCEPT !.dirty = FALSE] ELSE items[p]]
    BY <1>6 DEF Flush
  <2>2. \A p \in S : p \in PageIds /\ items[p] \in Entry /\ items[p] # NoEntry
    BY DEF Dirty, TypeOK
  <2>3. \A p \in PageIds :
          /\ p \in S => items'[p] \in Entry /\ items'[p].page = items[p].page
          /\ p \notin S => items'[p] = items[p]
    BY <2>1, <2>2, ZenonT(60) DEF Entry
  <2>4. \A p \in S : items'[p] # NoEntry
    BY <2>2, <2>3, PoolAssumption DEF Entry, Contents
  <2>5. disk' = [p \in PageIds |-> IF p \in S THEN Mem[p] ELSE disk[p]]
    BY <2>1, <2>2 DEF writePageDisk, Mem
  <2>6. \A p \in PageIds : Mem'[p] = Mem[p]
    BY <2>2, <2>3, <2>4, <2>5 DEF Mem
  <2>7. Mem' = Mem
    BY <2>6 DEF Mem
  <2>8. PF!WriteBack
    BY <2>2, <2>5 DEF PF!WriteBack, PF!PageIds, PageIds
  <2>9. QED
    BY <1>6, <2>7, <2>8, SMTT(60) DEF Flush, MayCall, PF!Flush
<1>7. ASSUME NEW c \in Callers, Close(c)
      PROVE  PF!Close
  <2>1. /\ disk' = [p \in PageIds |-> IF p \in Dirty THEN items[p].page ELSE disk[p]]
        /\ items' = [p \in PageIds |-> NoEntry]
    BY <1>7 DEF Close, writePageDisk
  <2>2. \A p \in PageIds : disk'[p] = Mem[p]
    BY <2>1 DEF Mem, Dirty, SerialInv
  <2>3. disk' = Mem
    BY <2>1, <2>2 DEF Mem
  <2>4. Mem' = Mem
    BY <2>1, <2>3 DEF Mem
  <2>5. QED
    BY <1>7, <2>3, <2>4 DEF Close, MayCall, PF!Close
<1>8. ASSUME Crash
      PROVE  PF!Crash
  <2>1. Mem' = disk
    BY <1>8 DEF Crash, Mem, TypeOK
  <2>2. fileLen \in 0 .. numPages
    BY DEF SerialInv, TypeOK
  <2>3. QED
    BY <1>8, <2>1, <2>2 DEF Crash, PF!Crash
<1>9. ASSUME Open
      PROVE  PF!Reopen
  BY <1>9, OpenKeeps DEF Open, PF!Reopen, Mem
<1>10. CASE UNCHANGED vars
  BY <1>10 DEF vars, PF!vars, Mem
<1>11. PF!PageIds = PageIds
  BY DEF PF!PageIds, PageIds
<1>12. CASE Next
  BY <1>1, <1>2, <1>3, <1>4, <1>5, <1>6, <1>7, <1>8, <1>9, <1>11, <1>12, SMTT(60)
     DEF Next, PF!Next
<1>13. QED
  BY <1>10, <1>12

(***************************************************************************)
(* The refinement: when requests are serialized (Server.mu), every         *)
(* behaviour of pager and buffer pool is a behaviour of the page file.     *)
(***************************************************************************)
THEOREM PoolImplementsPageFile ==
  ASSUME Serialized
  PROVE  Spec => ImplementsPageFile
<1>1. Init => PF!Init
  BY DEF Init, PF!Init, Mem, PF!PageIds, PageIds
<1>2. PoolInv /\ [Next]_vars => [PF!Next]_PF!vars
  BY StepRefines
<1>3. QED
  BY <1>1, <1>2, PoolInvariant, PTL DEF Spec, ImplementsPageFile, PF!Spec
=============================================================================
