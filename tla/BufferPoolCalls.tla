--------------------------- MODULE BufferPoolCalls --------------------------
(***************************************************************************)
(* PoolInv holds initially, and AllocatePage, WritePage and every step of  *)
(* GetPage keep it, for any number of callers and pages and any capacity.  *)
(***************************************************************************)
EXTENDS BufferPoolLists

(* A pool just opened over an empty file is empty, so PoolInv holds. *)
LEMMA InitPool == Init => PoolInv
<1> SUFFICES ASSUME Init PROVE PoolInv
  OBVIOUS
<1> USE PoolAssumption DEF Init
<1>1. TypeOK
  BY EmptySeq DEF TypeOK, CallType, Contents, Idle
<1>2. LruMatchesItems
  BY DEF LruMatchesItems, cap, IsInjective
<1>3. CachedOrStored /\ SerialInv
  BY DEF CachedOrStored, SerialInv, Idle, PageIds
<1>4. CacheInv
  BY DEF CacheInv, Idle
<1>5. QED
  BY <1>1, <1>2, <1>3, <1>4 DEF PoolInv

(* Two facts of arithmetic that are easier to cite than to rediscover. *)
LEMMA Arithmetic ==
  /\ \A a, b \in Int : a - 1 < b => a <= b
  /\ \A a, b, c \in Int : a < b /\ b <= c => a < c
  OBVIOUS

(* An insertion that gives p an entry which is dirty, or clean with a      *)
(* place in the file, leaves every clean page a place in the file.         *)
LEMMA CacheStepKeeps ==
  ASSUME PoolInv, NEW p \in PageIds, NEW e \in Entry, CacheStep(p, e),
         e.dirty = TRUE \/ p < fileLen
  PROVE  \A q \in PageIds : items'[q] # NoEntry => items'[q].dirty \/ q < fileLen'
<1> USE DEF PoolInv
<1>1. fileLen \in Int /\ fileLen' \in Int /\ fileLen <= fileLen' /\ PageIds \subseteq Int
  BY PoolAssumption DEF TypeOK, CacheStep, PageIds
<1>2. \A q \in PageIds : q < fileLen => q < fileLen'
  BY <1>1, Arithmetic, Zenon, ZenonT(60)
<1>3. ASSUME NEW q \in PageIds, items'[q] # NoEntry
      PROVE  items'[q].dirty \/ q < fileLen'
  <2>1. CASE q = p
    BY <1>2, <2>1 DEF CacheStep
  <2>2. CASE q # p
    <3>1. items'[q] = items[q]
      BY <1>3, <2>2 DEF CacheStep
    <3>2. items[q].dirty \/ q < fileLen
      BY <1>3, <3>1 DEF CacheInv
    <3>3. QED
      BY <1>2, <3>1, <3>2
  <2>3. QED
    BY <2>1, <2>2
<1>4. QED
  BY <1>3

(* With one request at a time, the insertion of an existing page, or of    *)
(* the next one, keeps pool, file and page count in step.                  *)
LEMMA CacheStepCounts ==
  ASSUME PoolInv, Serialized, NEW p \in PageIds, NEW e \in Entry, CacheStep(p, e),
         numPages' \in 0 .. MaxPages,
         numPages' = numPages \/ (numPages' = numPages + 1 /\ p = numPages),
         p < numPages'
  PROVE  /\ CachedOrStored'
         /\ fileLen' <= numPages'
         /\ \A q \in PageIds : items'[q] # NoEntry => q < numPages'
<1> USE DEF PoolInv
<1>1. /\ numPages \in Nat /\ numPages' \in Nat /\ fileLen \in Nat /\ fileLen' \in Nat
      /\ numPages <= numPages' /\ MaxPages \in Nat /\ PageIds \subseteq Nat
  BY PoolAssumption DEF TypeOK, CacheStep, PageIds
<1>2. e # NoEntry
  BY PoolAssumption DEF Entry, Contents
<1>3. ASSUME NEW q \in PageIds, q < numPages'
      PROVE  items'[q] # NoEntry \/ q < fileLen'
  <2>1. CASE q = p
    BY <1>2, <2>1 DEF CacheStep
  <2>2. CASE q # p
    <3>1. q < numPages
      BY <1>1, <1>3, <2>2
    <3>2. items[q] # NoEntry \/ q < fileLen
      BY <3>1 DEF CachedOrStored
    <3>3. CASE q < fileLen
      <4>1. q \in Int /\ fileLen \in Int /\ fileLen' \in Int /\ fileLen <= fileLen'
        BY <1>1 DEF CacheStep
      <4>2. QED
        BY <3>3, <4>1, Arithmetic, Zenon, ZenonT(60)
    <3>4. CASE items[q] # NoEntry /\ ~(q < fileLen)
      <4>1. items[q].dirty
        BY <3>4 DEF CacheInv
      <4>2. QED
        BY <2>2, <3>4, <4>1 DEF CacheStep
    <3>5. QED
      BY <3>2, <3>3, <3>4
  <2>3. QED
    BY <2>1, <2>2
<1>4. fileLen' <= numPages'
  <2>1. CASE fileLen' = fileLen
    BY <1>1, <2>1 DEF SerialInv
  <2>2. CASE fileLen' - 1 \in Dirty
    <3>1. fileLen' - 1 < numPages
      BY <2>2 DEF SerialInv, Dirty
    <3>2. fileLen' \in Int /\ numPages \in Int /\ numPages' \in Int /\ numPages <= numPages'
      BY <1>1
    <3>3. fileLen' <= numPages
      BY <3>1, <3>2, Arithmetic, Zenon, ZenonT(60)
    <3>4. QED
      BY <3>2, <3>3
  <2>3. QED
    BY <2>1, <2>2 DEF CacheStep
<1>5. ASSUME NEW q \in PageIds, items'[q] # NoEntry
      PROVE  q < numPages'
  <2>1. CASE q = p
    BY <2>1
  <2>2. CASE q # p
    <3>1. items'[q] = items[q]
      BY <1>5, <2>2 DEF CacheStep
    <3>2. q < numPages
      BY <1>5, <3>1 DEF SerialInv
    <3>3. QED
      BY <1>1, <3>2
  <2>3. QED
    BY <2>1, <2>2
<1>6. QED
  BY <1>3, <1>4, <1>5 DEF CachedOrStored

(* Growing the file keeps what CacheInv says of the calls in S.            *)
LEMMA CallsKeep ==
  ASSUME PoolInv, fileLen' \in Nat, fileLen <= fileLen', NEW S \in SUBSET Callers,
         \A d \in S : call'[d] = call[d]
  PROVE  \A d \in S :
            /\ call'[d].pc # "idle" => call'[d].id \in PageIds
            /\ call'[d].pc = "read" => call'[d].id < fileLen'
<1> SUFFICES ASSUME NEW d \in S
             PROVE  /\ call[d].pc # "idle" => call[d].id \in PageIds
                    /\ call[d].pc = "read" => call[d].id < fileLen'
  OBVIOUS
<1>1. call[d].id \in Int /\ fileLen \in Int /\ fileLen' \in Int
  BY PoolAssumption DEF PoolInv, TypeOK, CallType, PageIds
<1>2. /\ call[d].pc # "idle" => call[d].id \in PageIds
      /\ call[d].pc = "read" => call[d].id < fileLen
  BY DEF PoolInv, CacheInv
<1>3. QED
  BY <1>1, <1>2, Arithmetic, Zenon, ZenonT(60)

(* Put of a page, by a caller that has nothing else in progress or is the  *)
(* one allocating it: types, list and map, and the cache.                  *)
LEMMA PutKeeps ==
  ASSUME PoolInv, NEW p \in PageIds, NEW v \in Contents, Put(p, v),
         NEW c \in Callers, call' = call \/ call' = [call EXCEPT ![c] = Idle],
         numPages' \in 0 .. MaxPages, open, open' = open, got' = got
  PROVE  TypeOK' /\ LruMatchesItems' /\ CacheInv'
<1> USE DEF PoolInv
<1> DEFINE e == [page |-> v, dirty |-> TRUE]
<1>1. CacheStep(p, e) /\ e \in Entry /\ e.dirty = TRUE
  BY PutFacts DEF Entry
<1> HIDE DEF e
<1>2. call' \in [Callers -> CallType]
  BY DEF TypeOK, CallType, Idle, Contents
<1>3. TypeOK' /\ LruMatchesItems'
  BY <1>1, <1>2 DEF TypeOK, CacheStep
<1>4. \A q \in PageIds : items'[q] # NoEntry => items'[q].dirty \/ q < fileLen'
  BY <1>1, CacheStepKeeps, Zenon
<1> DEFINE S == {d \in Callers : call'[d] = call[d]}
<1>5. \A d \in Callers : d \in S \/ call'[d] = Idle
  BY DEF TypeOK
<1>6. \A d \in S : /\ call'[d].pc # "idle" => call'[d].id \in PageIds
                   /\ call'[d].pc = "read" => call'[d].id < fileLen'
  <2>1. fileLen' \in Nat /\ fileLen <= fileLen'
    BY <1>1 DEF CacheStep
  <2>2. S \in SUBSET Callers /\ \A d \in S : call'[d] = call[d]
    OBVIOUS
  <2> HIDE DEF S
  <2>3. QED
    BY <2>1, <2>2, CallsKeep
<1> HIDE DEF S
<1>7. CacheInv'
  BY <1>4, <1>5, <1>6 DEF CacheInv, Idle
<1>8. QED
  BY <1>3, <1>7

(* AllocatePage: the new page enters the pool dirty. *)
LEMMA AllocatePageKeeps ==
  ASSUME PoolInv, NEW c \in Callers, AllocatePage(c)
  PROVE  PoolInv'
<1> USE DEF PoolInv
<1> DEFINE p == numPages
           e == [page |-> NewPage, dirty |-> TRUE]
<1>1. /\ p \in PageIds /\ NewPage \in Contents /\ numPages \in Nat /\ fileLen \in Nat
      /\ numPages + 1 \in 0 .. MaxPages
  BY PoolAssumption DEF AllocatePage, TypeOK, PageIds, Contents
<1>2. Put(p, NewPage) /\ numPages' = numPages + 1 /\ open' = open /\ open
      /\ call' = call /\ got' = got /\ MayCall(c) /\ Serialized
  BY DEF AllocatePage, MayCall
<1>3. CacheStep(p, e) /\ e \in Entry /\ e.dirty = TRUE
  BY <1>1, <1>2, PutFacts DEF Entry
<1> HIDE DEF e
<1>4. TypeOK' /\ LruMatchesItems' /\ CacheInv'
  <2> HIDE DEF p
  <2>1. QED
    BY <1>1, <1>2, PutKeeps
<1>5. /\ CachedOrStored'
      /\ fileLen' <= numPages'
      /\ \A q \in PageIds : items'[q] # NoEntry => q < numPages'
  <2>1. /\ p < numPages' /\ numPages' \in 0 .. MaxPages
        /\ numPages' = numPages + 1 /\ p = numPages
    BY <1>1, <1>2
  <2> HIDE DEF p
  <2>2. QED
    BY <1>1, <1>2, <1>3, <2>1, CacheStepCounts, Zenon
<1>6. SerialInv'
  BY <1>1, <1>2, <1>3, <1>5 DEF SerialInv, MayCall, Idle, CacheStep
<1>7. QED
  BY <1>4, <1>5, <1>6

(* AllocatePage of callers that overlap: the id is read, the page counted, *)
(* and then put into the pool or taken back.  Whatever numPages becomes,   *)
(* the pool is in order.                                                   *)
LEMMA AllocateKeeps ==
  ASSUME PoolInv, ~Serialized, NEW c \in Callers,
         \/ AllocateReads(c) \/ AllocateCounts(c) \/ AllocatePuts(c) \/ AllocatePutFails(c)
  PROVE  PoolInv'
<1> USE DEF PoolInv
<1>1. CachedOrStored' /\ SerialInv'
  BY DEF CachedOrStored, SerialInv
<1>2. /\ numPages \in Nat /\ numPages <= MaxPages /\ MaxPages \in Nat
      /\ call[c] \in CallType /\ (call[c].pc # "idle" => call[c].id \in PageIds)
      /\ (call[c].pc # "idle" => open)
  BY PoolAssumption DEF TypeOK, CacheInv, Idle
<1>3. Idle \in CallType /\ Idle.pc = "idle"
  BY DEF CallType, Contents, Idle
<1>4. CASE AllocatePuts(c)
  <2>1. /\ call[c].id \in PageIds /\ NewPage \in Contents /\ open /\ Put(call[c].id, NewPage)
        /\ call' = [call EXCEPT ![c] = Idle] /\ open' = open /\ got' = got
        /\ numPages' \in 0 .. MaxPages
    BY <1>2, <1>4 DEF AllocatePuts, Contents
  <2>2. TypeOK' /\ LruMatchesItems' /\ CacheInv'
    BY <2>1, PutKeeps, Zenon
  <2>3. QED
    BY <1>1, <2>2
<1>5. CASE ~AllocatePuts(c)
  <2>1. UNCHANGED <<items, lru, disk, fileLen, open, got>>
    BY <1>5 DEF AllocateReads, AllocateCounts, AllocatePutFails
  <2>2. numPages' \in 0 .. MaxPages
    <3>1. CASE AllocateReads(c)
      BY <1>2, <3>1 DEF AllocateReads
    <3>2. CASE AllocateCounts(c)
      <4>1. call[c].id \in PageIds
        BY <1>2, <3>2 DEF AllocateCounts
      <4>2. PICK n \in (call[c].id .. numPages) \cup {call[c].id, numPages} :
              n < MaxPages /\ numPages' = n + 1
        BY <3>2 DEF AllocateCounts
      <4>3. QED
        BY <1>2, <4>1, <4>2 DEF PageIds
    <3>3. CASE AllocatePutFails(c)
      <4>1. call[c].id \in PageIds
        BY <1>2, <3>3 DEF AllocatePutFails
      <4>2. PICK n \in (call[c].id + 1 .. numPages) \cup {numPages} :
              numPages' = IF n = 0 THEN MaxPages ELSE n - 1
        BY <3>3 DEF AllocatePutFails
      <4>3. QED
        BY <1>2, <4>1, <4>2 DEF PageIds
    <3>4. QED
      BY <1>5, <3>1, <3>2, <3>3
  <2> DEFINE m == call'[c]
  <2>3. /\ m \in CallType /\ call' = [call EXCEPT ![c] = m] /\ open
        /\ m.pc # "idle" => m.id \in PageIds
        /\ m.pc # "read"
    <3>1. CASE AllocateReads(c)
      <4> DEFINE r == [pc |-> "count", id |-> numPages, page |-> Zero]
      <4>1. call' = [call EXCEPT ![c] = r] /\ numPages < MaxPages /\ open
        BY <3>1 DEF AllocateReads, MayCall
      <4>2. r \in CallType /\ r.pc = "count" /\ r.id \in PageIds
        BY <1>2, <4>1 DEF CallType, Contents, PageIds
      <4> HIDE DEF r
      <4>3. m = r
        BY <4>1 DEF TypeOK
      <4>4. QED
        BY <4>1, <4>2, <4>3, Zenon
    <3>2. CASE AllocateCounts(c)
      <4> DEFINE r == [call[c] EXCEPT !.pc = "put"]
      <4>1. call' = [call EXCEPT ![c] = r] /\ call[c].pc = "count"
        BY <3>2 DEF AllocateCounts
      <4>2. r \in CallType /\ r.pc = "put" /\ r.id = call[c].id
        BY <1>2 DEF CallType
      <4> HIDE DEF r
      <4>3. m = r
        BY <4>1 DEF TypeOK
      <4>4. QED
        BY <1>2, <4>1, <4>2, <4>3, Zenon
    <3>3. CASE AllocatePutFails(c)
      <4>1. call' = [call EXCEPT ![c] = Idle] /\ call[c].pc = "put"
        BY <3>3 DEF AllocatePutFails
      <4>2. m = Idle
        BY <4>1 DEF TypeOK
      <4>3. QED
        BY <1>2, <1>3, <4>1, <4>2, Zenon
    <3>4. QED
      BY <1>5, <3>1, <3>2, <3>3
  <2> HIDE DEF m
  <2>4. TypeOK'
    BY <2>1, <2>2, <2>3 DEF TypeOK
  <2>5. LruMatchesItems'
    BY <2>1 DEF LruMatchesItems, cap
  <2>6. \A d \in Callers : call'[d] = IF d = c THEN m ELSE call[d]
    BY <2>3 DEF TypeOK
  <2>7. CacheInv'
    BY <2>1, <2>3, <2>6 DEF CacheInv
  <2>8. QED
    BY <1>1, <2>4, <2>5, <2>7
<1>6. QED
  BY <1>4, <1>5

(* WritePage: the page is in the pool, dirty, whether it was there or not. *)
LEMMA WritePageKeeps ==
  ASSUME PoolInv, NEW c \in Callers, NEW p \in PageIds, NEW v \in Data, WritePage(c, p, v)
  PROVE  PoolInv'
<1> USE DEF PoolInv
<1> DEFINE e == [page |-> v, dirty |-> TRUE]
<1>1. v \in Contents /\ numPages \in Nat /\ fileLen \in Nat /\ numPages \in 0 .. MaxPages
  BY PoolAssumption DEF TypeOK, Contents
<1>2. Put(p, v) /\ numPages' = numPages /\ open' = open /\ open
      /\ call' = call /\ got' = got /\ MayCall(c) /\ p < numPages
  BY DEF WritePage, MayCall
<1>3. CacheStep(p, e) /\ e \in Entry /\ e.dirty = TRUE
  BY <1>1, <1>2, PutFacts DEF Entry
<1> HIDE DEF e
<1>4. TypeOK' /\ LruMatchesItems' /\ CacheInv'
  BY <1>1, <1>2, PutKeeps
<1>5. ASSUME Serialized
      PROVE  CachedOrStored' /\ SerialInv'
  <2>1. /\ CachedOrStored'
        /\ fileLen' <= numPages'
        /\ \A q \in PageIds : items'[q] # NoEntry => q < numPages'
    BY <1>1, <1>2, <1>3, <1>5, CacheStepCounts, ZenonT(60)
  <2>2. SerialInv'
    BY <1>2, <1>3, <1>5, <2>1 DEF SerialInv, MayCall, Idle, CacheStep
  <2>3. QED
    BY <2>1, <2>2
<1>6. CachedOrStored' /\ SerialInv'
  BY <1>5 DEF CachedOrStored, SerialInv
<1>7. QED
  BY <1>4, <1>6

(* What a Get returns is the content of a page. *)
LEMMA ReturnsType ==
  ASSUME TypeOK, NEW c \in Callers, NEW p \in PageIds, NEW v \in Contents, Returns(c, p, v)
  PROVE  got' \in [Callers -> [id : PageIds \cup {0}, page : Contents]]
  BY DEF TypeOK, Returns

(* Get of a page in the pool only moves it to the front. *)
LEMMA GetHitKeeps ==
  ASSUME PoolInv, NEW c \in Callers, NEW p \in PageIds, GetHit(c, p)
  PROVE  PoolInv'
<1> USE DEF PoolInv
<1>1. /\ items[p] # NoEntry /\ MoveToFront(p)
      /\ numPages' = numPages /\ items' = items /\ disk' = disk
      /\ fileLen' = fileLen /\ open' = open /\ call' = call
      /\ Returns(c, p, items[p].page)
  BY DEF GetHit
<1>2. lru' \in Seq(PageIds) /\ LruMatchesItems'
  BY <1>1, MoveToFrontKeeps
<1>3. items[p].page \in Contents
  BY <1>1 DEF TypeOK, Entry
<1>4. TypeOK'
  BY <1>1, <1>2, <1>3, ReturnsType DEF TypeOK
<1>5. CachedOrStored' /\ CacheInv' /\ SerialInv'
  BY <1>1 DEF CachedOrStored, CacheInv, SerialInv, Idle
<1>6. QED
  BY <1>2, <1>4, <1>5

(* Get of a page not in the pool unlocks and changes nothing but its call. *)
LEMMA GetMissKeeps ==
  ASSUME PoolInv, NEW c \in Callers, NEW p \in PageIds, GetMiss(c, p)
  PROVE  PoolInv'
<1> USE DEF PoolInv
<1> DEFINE m == [pc |-> "miss", id |-> p, page |-> Zero]
<1>1. /\ items[p] = NoEntry /\ p < numPages /\ MayCall(c) /\ open
      /\ call' = [call EXCEPT ![c] = m]
      /\ numPages' = numPages /\ items' = items /\ disk' = disk /\ lru' = lru
      /\ fileLen' = fileLen /\ open' = open /\ got' = got
  BY DEF GetMiss, MayCall
<1>2. /\ m \in CallType
      /\ m.pc = "miss" /\ m.id = p
  BY DEF Contents, CallType
<1> HIDE DEF m
<1>3. TypeOK'
  BY <1>1, <1>2 DEF TypeOK
<1>4. LruMatchesItems' /\ CachedOrStored'
  BY <1>1 DEF LruMatchesItems, CachedOrStored, cap
<1>5. \A d \in Callers : call'[d] = IF d = c THEN m ELSE call[d]
  BY <1>1, SMTT(60) DEF TypeOK
<1>6. CacheInv'
  BY <1>1, <1>2, <1>5, SMTT(60) DEF CacheInv, Idle
<1>7. SerialInv'
  BY <1>1, <1>2, <1>5 DEF SerialInv, MayCall, Idle
<1>8. QED
  BY <1>3, <1>4, <1>6, <1>7, SMTT(60)

(* The read of a missing page from the file, outside the lock. *)
LEMMA GetReadDiskKeeps ==
  ASSUME PoolInv, NEW c \in Callers, GetReadDisk(c)
  PROVE  PoolInv'
<1> USE DEF PoolInv
<1> DEFINE p == call[c].id
           m == IF p < fileLen THEN [pc |-> "read", id |-> p, page |-> disk[p]] ELSE Idle
<1>1. /\ call[c].pc = "miss" /\ call[c] # Idle
      /\ call' = [call EXCEPT ![c] = m]
      /\ numPages' = numPages /\ items' = items /\ disk' = disk /\ lru' = lru
      /\ fileLen' = fileLen /\ open' = open /\ got' = got
  BY DEF GetReadDisk, Idle
<1>2. p \in PageIds
  BY <1>1 DEF CacheInv
<1>3. /\ m \in CallType
      /\ m # Idle => m = [pc |-> "read", id |-> p, page |-> disk[p]] /\ p < fileLen
  BY <1>2 DEF Contents, TypeOK, CallType, Idle
<1> HIDE DEF m
<1>4. TypeOK'
  BY <1>1, <1>3 DEF TypeOK
<1>5. LruMatchesItems' /\ CachedOrStored'
  BY <1>1 DEF LruMatchesItems, CachedOrStored, cap
<1>6. \A d \in Callers : call'[d] = IF d = c THEN m ELSE call[d]
  BY <1>1, SMTT(60) DEF TypeOK
<1>7. CacheInv'
  BY <1>1, <1>2, <1>3, <1>6, SMTT(60) DEF CacheInv, Idle
<1>8. SerialInv'
  BY <1>1, <1>2, <1>3, <1>6, SMTT(60) DEF SerialInv, Idle
<1>9. QED
  BY <1>4, <1>5, <1>7, <1>8, SMTT(60)

(* Ending a Get, whatever it returns, keeps what the invariant says of the *)
(* others.                                                                 *)
LEMMA GetFillFailsKeeps ==
  ASSUME PoolInv, NEW c \in Callers, GetFillFails(c)
  PROVE  PoolInv'
<1> USE DEF PoolInv
<1>1. /\ call' = [call EXCEPT ![c] = Idle]
      /\ numPages' = numPages /\ items' = items /\ disk' = disk /\ lru' = lru
      /\ fileLen' = fileLen /\ open' = open /\ got' = got
  BY DEF GetFillFails
<1>2. Idle \in CallType
  BY DEF Contents, CallType, Idle
<1>3. TypeOK'
  BY <1>1, <1>2 DEF TypeOK
<1>4. LruMatchesItems' /\ CachedOrStored'
  BY <1>1 DEF LruMatchesItems, CachedOrStored, cap
<1>5. \A d \in Callers : call'[d] = IF d = c THEN Idle ELSE call[d]
  BY <1>1 DEF TypeOK
<1>6. CacheInv'
  BY <1>1, <1>5, SMTT(60) DEF CacheInv, Idle
<1>7. SerialInv'
  BY <1>1, <1>5 DEF SerialInv, Idle
<1>8. QED
  BY <1>3, <1>4, <1>6, <1>7

(* The refill after the read: the page may have come in meanwhile. *)
LEMMA GetFillKeeps ==
  ASSUME PoolInv, NEW c \in Callers, GetFill(c)
  PROVE  PoolInv'
<1> USE DEF PoolInv
<1> DEFINE p == call[c].id
           e == [page |-> call[c].page, dirty |-> FALSE]
<1>1. /\ call[c].pc = "read" /\ call[c] # Idle
      /\ call' = [call EXCEPT ![c] = Idle]
      /\ numPages' = numPages /\ open' = open
  BY DEF GetFill, Idle
<1>2. /\ p < fileLen /\ p \in PageIds /\ call[c].page \in Contents
      /\ numPages \in 0 .. MaxPages /\ numPages \in Nat /\ fileLen \in Nat
  BY <1>1, PoolAssumption, SMTT(60) DEF CacheInv, TypeOK, CallType
<1>3. Idle \in CallType
  BY DEF Contents, CallType, Idle
<1>4. \A d \in Callers : call'[d] = IF d = c THEN Idle ELSE call[d]
  BY <1>1 DEF TypeOK
<1>5. Idle.pc # "read"
  BY DEF Idle
<1>6. CASE items[p] # NoEntry
  <2>1. /\ MoveToFront(p) /\ items' = items /\ disk' = disk /\ fileLen' = fileLen
        /\ Returns(c, p, items[p].page)
    BY <1>6 DEF GetFill
  <2>2. lru' \in Seq(PageIds) /\ LruMatchesItems'
    BY <1>2, <1>6, <2>1, MoveToFrontKeeps, SMTT(60)
  <2>3. items[p].page \in Contents
    BY <1>2, <1>6, SMTT(60) DEF TypeOK, Entry
  <2>4. TypeOK'
    <3>1. got' \in [Callers -> [id : PageIds \cup {0}, page : Contents]]
      BY <1>2, <2>1, <2>3, ReturnsType
    <3>2. call' \in [Callers -> CallType]
      BY <1>1, <1>3 DEF TypeOK
    <3>3. QED
      BY <1>1, <2>1, <2>2, <3>1, <3>2 DEF TypeOK
  <2>5. CachedOrStored' /\ CacheInv'
    BY <1>1, <1>4, <1>5, <2>1, SMTT(60) DEF CachedOrStored, CacheInv, Idle
  <2>6. SerialInv'
    BY <1>1, <1>4, <1>5, <2>1, SMTT(60) DEF SerialInv, Idle
  <2>7. QED
    BY <2>2, <2>4, <2>5, <2>6, SMTT(60)
<1>7. CASE items[p] = NoEntry
  <2>1. /\ makeRoomAndInsert(p, e)
        /\ Returns(c, p, call[c].page)
    BY <1>7, SMTT(60) DEF GetFill
  <2>2. e \in Entry /\ e.page = call[c].page /\ e.dirty = FALSE
    BY <1>2, SMTT(60) DEF Entry
  <2> HIDE DEF e
  <2>3. CacheStep(p, e)
    BY <1>2, <1>7, <2>1, <2>2, InsertFacts, SMTT(60)
  <2>4. TypeOK' /\ LruMatchesItems'
    <3>1. got' \in [Callers -> [id : PageIds \cup {0}, page : Contents]]
      BY <1>2, <2>1, ReturnsType
    <3>2. call' \in [Callers -> CallType]
      BY <1>1, <1>3, SMTT(60) DEF TypeOK
    <3>3. QED
      BY <1>1, <2>3, <3>1, <3>2, SMTT(60) DEF TypeOK, CacheStep
  <2>5. \A q \in PageIds : items'[q] # NoEntry => items'[q].dirty \/ q < fileLen'
    BY <1>2, <2>2, <2>3, CacheStepKeeps, ZenonT(60)
  <2>6. CacheInv'
    <3>1. open
      BY <1>1, SMTT(60) DEF CacheInv
    <3>2. fileLen' \in Nat /\ fileLen <= fileLen'
      BY <2>3 DEF CacheStep
    <3>3. \A d \in Callers \ {c} :
             /\ call'[d].pc # "idle" => call'[d].id \in PageIds
             /\ call'[d].pc = "read" => call'[d].id < fileLen'
      <4> DEFINE S == Callers \ {c}
      <4>1. S \in SUBSET Callers /\ \A d \in S : call'[d] = call[d]
        BY <1>4
      <4> HIDE DEF S
      <4>2. \A d \in S : /\ call'[d].pc # "idle" => call'[d].id \in PageIds
                         /\ call'[d].pc = "read" => call'[d].id < fileLen'
        BY <3>2, <4>1, CallsKeep
      <4>3. QED
        BY <4>2 DEF S
    <3>4. QED
      BY <1>1, <1>4, <2>5, <3>1, <3>3 DEF CacheInv, Idle
  <2>7. CachedOrStored' /\ SerialInv'
    <3> SUFFICES ASSUME Serialized PROVE CachedOrStored' /\ SerialInv'
      BY DEF CachedOrStored, SerialInv
    <3>1. \A d \in Callers : call'[d] = Idle
      BY <1>1, <1>4 DEF SerialInv
    <3>2. call[c].page = disk[p] /\ p < numPages
      BY <1>1 DEF SerialInv
    <3>3. /\ CachedOrStored'
          /\ fileLen' <= numPages'
          /\ \A q \in PageIds : items'[q] # NoEntry => q < numPages'
      BY <1>1, <1>2, <2>2, <2>3, <3>2, CacheStepCounts, ZenonT(60)
    <3>4. ASSUME NEW q \in PageIds, items'[q] # NoEntry, ~items'[q].dirty
          PROVE  items'[q].page = disk'[q]
      <4>1. CASE q = p
        BY <2>2, <2>3, <3>2, <4>1, SMTT(60) DEF CacheStep
      <4>2. CASE q # p
        BY <2>3, <3>4, <4>2 DEF CacheStep, SerialInv
      <4>3. QED
        BY <4>1, <4>2, SMTT(60)
    <3>5. open'
      BY <1>1 DEF CacheInv
    <3>6. QED
      BY <1>5, <3>1, <3>3, <3>4, <3>5, SMTT(60) DEF SerialInv, Idle
  <2>8. QED
    BY <2>4, <2>6, <2>7
<1>8. QED
  BY <1>6, <1>7, SMTT(60)
=============================================================================
