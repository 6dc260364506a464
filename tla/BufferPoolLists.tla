--------------------------- MODULE BufferPoolLists --------------------------
(***************************************************************************)
(* The list and the map of the buffer pool: what list.MoveToFront,         *)
(* list.PushFront and the eviction loop of put do to them, for any list    *)
(* and any capacity.                                                       *)
(***************************************************************************)
EXTENDS BufferPool, SequenceTheorems, TLAPS

(* An injective sequence keeps its length and its elements when one of     *)
(* them is moved to the front, as list.MoveToFront does.                   *)
LEMMA MoveToFrontFacts ==
  ASSUME NEW S, NEW s \in Seq(S), IsInjective(s), NEW i \in DOMAIN s
  PROVE  LET t == <<s[i]>> \o RemoveAt(s, i) IN
         /\ t \in Seq(S)
         /\ Len(t) = Len(s)
         /\ IsInjective(t)
         /\ \A x : (\E j \in DOMAIN t : t[j] = x) <=> (\E j \in DOMAIN s : s[j] = x)
<1> DEFINE a == SubSeq(s, 1, i - 1)
           b == SubSeq(s, i + 1, Len(s))
           t == <<s[i]>> \o RemoveAt(s, i)
<1>1. i \in 1 .. Len(s) /\ Len(s) \in Nat /\ DOMAIN s = 1 .. Len(s)
  BY LenProperties
<1>2. /\ a \in Seq(S) /\ Len(a) = i - 1
      /\ \A j \in 1 .. i - 1 : a[j] = s[j]
  <2>1. \A j \in 1 .. i - 1 : s[j] \in S
    BY <1>1, ElementOfSeq
  <2>2. QED
    BY <1>1, <2>1, SubSeqProperties
<1>3. /\ b \in Seq(S) /\ Len(b) = Len(s) - i
      /\ \A j \in 1 .. Len(s) - i : b[j] = s[i + j]
  <2>1. \A j \in i + 1 .. Len(s) : s[j] \in S
    BY <1>1, ElementOfSeq
  <2>2. QED
    BY <1>1, <2>1, SubSeqProperties, SMTT(60)
<1> DEFINE c == a \o b
<1>4. /\ c \in Seq(S) /\ Len(c) = Len(s) - 1
      /\ \A j \in 1 .. Len(s) - 1 : c[j] = IF j < i THEN s[j] ELSE s[j + 1]
  <2> HIDE DEF a, b
  <2>1. /\ c \in Seq(S) /\ Len(c) = Len(a) + Len(b)
        /\ \A j \in 1 .. Len(a) + Len(b) :
              c[j] = IF j <= Len(a) THEN a[j] ELSE b[j - Len(a)]
    BY <1>2, <1>3, ConcatProperties, Zenon
  <2> HIDE DEF c
  <2>2. Len(c) = Len(s) - 1
    BY <1>1, <1>2, <1>3, <2>1
  <2>3. ASSUME NEW j \in 1 .. Len(s) - 1
        PROVE  c[j] = IF j < i THEN s[j] ELSE s[j + 1]
    <3>1. CASE j < i
      BY <1>1, <1>2, <1>3, <2>1, <3>1, SMTT(60)
    <3>2. CASE ~(j < i)
      <4>1. c[j] = b[j - (i - 1)] /\ j - (i - 1) \in 1 .. Len(s) - i
        BY <1>1, <1>2, <1>3, <2>1, <3>2, SMTT(60)
      <4>2. i + (j - (i - 1)) = j + 1
        BY <1>1
      <4>3. QED
        BY <1>3, <3>2, <4>1, <4>2
    <3>3. QED
      BY <3>1, <3>2
  <2>4. QED
    BY <2>1, <2>2, <2>3
<1>5. <<s[i]>> \in Seq(S) /\ Len(<<s[i]>>) = 1 /\ <<s[i]>>[1] = s[i]
  BY <1>1, ElementOfSeq
<1>6. /\ t \in Seq(S) /\ Len(t) = Len(s)
      /\ \A j \in 1 .. Len(s) :
            t[j] = IF j = 1 THEN s[i] ELSE IF j <= i THEN s[j - 1] ELSE s[j]
  <2>1. t = <<s[i]>> \o c
    BY DEF RemoveAt
  <2> HIDE DEF c, t
  <2>2. /\ t \in Seq(S) /\ Len(t) = 1 + Len(c)
        /\ \A j \in 1 .. 1 + Len(c) :
              t[j] = IF j <= 1 THEN <<s[i]>>[j] ELSE c[j - 1]
    BY <1>4, <1>5, <2>1, ConcatProperties
  <2>3. ASSUME NEW j \in 1 .. Len(s)
        PROVE  t[j] = IF j = 1 THEN s[i] ELSE IF j <= i THEN s[j - 1] ELSE s[j]
    <3>1. CASE j = 1
      BY <1>1, <1>4, <1>5, <2>2, <3>1, SMTT(60)
    <3>2. CASE j # 1
      <4>1. t[j] = c[j - 1] /\ j - 1 \in 1 .. Len(s) - 1 /\ (j - 1) + 1 = j
        BY <1>1, <1>4, <2>2, <3>2
      <4>2. QED
        BY <1>1, <1>4, <3>2, <4>1
    <3>3. QED
      BY <3>1, <3>2
  <2>4. QED
    BY <1>1, <1>4, <2>2, <2>3
<1> HIDE DEF t
<1>7. DOMAIN t = 1 .. Len(s)
  BY <1>6, LenProperties
<1> DEFINE src(j) == IF j = 1 THEN i ELSE IF j <= i THEN j - 1 ELSE j
<1>s. \A j \in DOMAIN t : src(j) \in DOMAIN s /\ t[j] = s[src(j)]
  BY <1>1, <1>6, <1>7
<1>8. IsInjective(t)
  <2>1. \A j, k \in DOMAIN t : src(j) = src(k) => j = k
    BY <1>1, <1>7
  <2> HIDE DEF src
  <2>2. \A j, k \in DOMAIN t : t[j] = t[k] => j = k
    BY <1>s, <2>1 DEF IsInjective
  <2>3. QED
    BY <2>2 DEF IsInjective
<1>9. ASSUME NEW x
      PROVE  (\E j \in DOMAIN t : t[j] = x) <=> (\E j \in DOMAIN s : s[j] = x)
  <2>1. ASSUME NEW j \in DOMAIN t, t[j] = x
        PROVE  \E k \in DOMAIN s : s[k] = x
    BY <1>s, <2>1
  <2>2. ASSUME NEW j \in DOMAIN s, s[j] = x
        PROVE  \E k \in DOMAIN t : t[k] = x
    <3> DEFINE k == IF j = i THEN 1 ELSE IF j < i THEN j + 1 ELSE j
    <3>1. k \in DOMAIN t /\ t[k] = x
      BY <1>1, <1>6, <1>7, <2>2
    <3>2. QED
      BY <3>1
  <2>3. QED
    BY <2>1, <2>2
<1>10. QED
  BY <1>6, <1>8, <1>9, Zenon DEF t

(* A new element pushed to the front of an injective sequence, as          *)
(* list.PushFront does.                                                    *)
LEMMA PushFrontFacts ==
  ASSUME NEW S, NEW s \in Seq(S), IsInjective(s), NEW p \in S,
         \A j \in DOMAIN s : s[j] # p
  PROVE  LET t == <<p>> \o s IN
         /\ t \in Seq(S)
         /\ Len(t) = Len(s) + 1
         /\ IsInjective(t)
         /\ \A x : (\E j \in DOMAIN t : t[j] = x)
                     <=> x = p \/ \E j \in DOMAIN s : s[j] = x
<1> DEFINE t == <<p>> \o s
<1>1. Len(s) \in Nat /\ DOMAIN s = 1 .. Len(s)
  BY LenProperties
<1>2. /\ t \in Seq(S) /\ Len(t) = 1 + Len(s)
      /\ \A j \in 1 .. 1 + Len(s) : t[j] = IF j = 1 THEN p ELSE s[j - 1]
  <2>1. <<p>> \in Seq(S) /\ Len(<<p>>) = 1 /\ <<p>>[1] = p
    OBVIOUS
  <2>2. /\ t \in Seq(S) /\ Len(t) = 1 + Len(s)
        /\ \A j \in 1 .. 1 + Len(s) : t[j] = IF j <= 1 THEN <<p>>[j] ELSE s[j - 1]
    BY <2>1, ConcatProperties
  <2>3. QED
    BY <1>1, <2>1, <2>2
<1>3. DOMAIN t = 1 .. 1 + Len(s)
  BY <1>2, LenProperties
<1>4. IsInjective(t)
  BY <1>1, <1>2, <1>3 DEF IsInjective
<1>5. ASSUME NEW x
      PROVE  (\E j \in DOMAIN t : t[j] = x) <=> x = p \/ \E j \in DOMAIN s : s[j] = x
  <2>1. ASSUME NEW j \in DOMAIN t, t[j] = x
        PROVE  x = p \/ \E k \in DOMAIN s : s[k] = x
    BY <1>1, <1>2, <1>3, <2>1
  <2>2. t[1] = p /\ 1 \in DOMAIN t
    BY <1>1, <1>2, <1>3
  <2>3. ASSUME NEW j \in DOMAIN s, s[j] = x
        PROVE  j + 1 \in DOMAIN t /\ t[j + 1] = x
    BY <1>1, <1>2, <1>3, <2>3
  <2>4. QED
    BY <2>1, <2>2, <2>3
<1>6. Len(t) = Len(s) + 1
  BY <1>1, <1>2
<1>7. QED
  BY <1>2, <1>4, <1>5, <1>6, Zenon

(* Dropping the last element of an injective sequence, as removing         *)
(* list.Back does.                                                         *)
LEMMA FrontFacts ==
  ASSUME NEW S, NEW s \in Seq(S), IsInjective(s), Len(s) > 0
  PROVE  /\ Front(s) \in Seq(S)
         /\ Len(Front(s)) = Len(s) - 1
         /\ IsInjective(Front(s))
         /\ Last(s) \in S
         /\ \A x : (\E j \in DOMAIN Front(s) : Front(s)[j] = x)
                     <=> x # Last(s) /\ \E j \in DOMAIN s : s[j] = x
<1> DEFINE t == Front(s)
<1>1. Len(s) \in Nat /\ DOMAIN s = 1 .. Len(s)
  BY LenProperties
<1>2. /\ t \in Seq(S) /\ Len(t) = Len(s) - 1
      /\ \A j \in 1 .. Len(s) - 1 : t[j] = s[j]
  <2>1. \A j \in 1 .. Len(s) - 1 : s[j] \in S
    BY <1>1, ElementOfSeq
  <2>2. QED
    BY <1>1, <2>1, SubSeqProperties DEF Front
<1>3. DOMAIN t = 1 .. Len(s) - 1
  BY <1>2, LenProperties
<1>4. IsInjective(t)
  BY <1>1, <1>2, <1>3 DEF IsInjective
<1>5. Last(s) \in S
  BY <1>1, ElementOfSeq DEF Last
<1>6. ASSUME NEW x
      PROVE  (\E j \in DOMAIN t : t[j] = x)
                <=> x # Last(s) /\ \E j \in DOMAIN s : s[j] = x
  BY <1>1, <1>2, <1>3 DEF IsInjective, Last
<1>7. QED
  BY <1>2, <1>4, <1>5, <1>6

-----------------------------------------------------------------------------
(* What writePageDisk does for a set of dirty pages: exactly those pages   *)
(* change, and the file grows to cover them and no further.                *)
LEMMA WriteFacts ==
  ASSUME TypeOK, NEW S \in SUBSET Dirty, writePageDisk(S)
  PROVE  /\ disk' \in [PageIds -> Contents]
         /\ fileLen' \in 0 .. MaxPages
         /\ fileLen <= fileLen'
         /\ \A p \in PageIds : disk'[p] = IF p \in S THEN items[p].page ELSE disk[p]
         /\ \A p \in S : p < fileLen'
         /\ fileLen' = fileLen \/ fileLen' - 1 \in S
<1>1. S \subseteq PageIds /\ \A p \in S : items[p] \in Entry
  BY DEF Dirty, TypeOK
<1>2. \A p \in S : items[p].page \in Contents
  BY <1>1 DEF Entry
<1>3. fileLen \in Nat /\ MaxPages \in Nat
  BY PoolAssumption DEF TypeOK
<1>4. disk' \in [PageIds -> Contents]
  BY <1>1, <1>2 DEF writePageDisk, TypeOK
<1>5. /\ fileLen' \in fileLen .. MaxPages
      /\ \A p \in S : p < fileLen'
      /\ fileLen' = fileLen \/ fileLen' - 1 \in S
  BY DEF writePageDisk
<1>6. QED
  BY <1>1, <1>3, <1>4, <1>5 DEF writePageDisk

(* list.MoveToFront of a cached page keeps the LRU list in step with the   *)
(* item map.                                                               *)
LEMMA MoveToFrontKeeps ==
  ASSUME TypeOK, LruMatchesItems, NEW p \in PageIds, items[p] # NoEntry,
         MoveToFront(p),
         \A q \in PageIds : items'[q] # NoEntry <=> items[q] # NoEntry
  PROVE  lru' \in Seq(PageIds) /\ LruMatchesItems'
<1> DEFINE i == CHOOSE i \in DOMAIN lru : lru[i] = p
<1>1. i \in DOMAIN lru /\ lru[i] = p
  BY DEF LruMatchesItems
<1>2. lru' = <<lru[i]>> \o RemoveAt(lru, i)
  BY <1>1 DEF MoveToFront
<1>3. lru \in Seq(PageIds) /\ IsInjective(lru)
  BY DEF TypeOK, LruMatchesItems
<1> DEFINE t == <<lru[i]>> \o RemoveAt(lru, i)
<1> HIDE DEF i
<1>4. /\ t \in Seq(PageIds)
      /\ Len(t) = Len(lru)
      /\ IsInjective(t)
      /\ \A x : (\E j \in DOMAIN t : t[j] = x) <=> (\E j \in DOMAIN lru : lru[j] = x)
  BY <1>1, <1>3, MoveToFrontFacts, ZenonT(60)
<1>5. lru' = t
  BY <1>2
<1> HIDE DEF t
<1>6. QED
  BY <1>4, <1>5, Zenon DEF LruMatchesItems, cap

(***************************************************************************)
(* The effect of inserting or replacing the entry of page p: everything    *)
(* else either stays or leaves the pool, and a dirty page that leaves is   *)
(* in the file.                                                            *)
(***************************************************************************)
CacheStep(p, e) ==
  /\ items' \in [PageIds -> Entry \cup {NoEntry}]
  /\ lru' \in Seq(PageIds)
  /\ LruMatchesItems'
  /\ disk' \in [PageIds -> Contents]
  /\ fileLen' \in 0 .. MaxPages
  /\ fileLen <= fileLen'
  /\ fileLen' = fileLen \/ fileLen' - 1 \in Dirty
  /\ items'[p] = e
  /\ disk'[p] = disk[p]
  /\ \A q \in PageIds : q # p /\ items'[q] # items[q] =>
        /\ items[q] # NoEntry /\ items'[q] = NoEntry
        /\ items[q].dirty => q < fileLen' /\ disk'[q] = items[q].page
        /\ ~items[q].dirty => disk'[q] = disk[q]
  /\ \A q \in PageIds : q # p /\ items'[q] = items[q] => disk'[q] = disk[q]
  /\ \E S \in SUBSET Dirty :
        disk' = [q \in PageIds |-> IF q \in S THEN items[q].page ELSE disk[q]]

(* What makeRoomLocked and PushFront do: the new entry is in, at most one  *)
(* page is out, and if that page was dirty the file has it.                *)
LEMMA InsertFacts ==
  ASSUME TypeOK, LruMatchesItems, NEW p \in PageIds, NEW e \in Entry,
         items[p] = NoEntry, makeRoomAndInsert(p, e)
  PROVE  CacheStep(p, e)
<1>1. Victims \cap Dirty \in SUBSET Dirty /\ writePageDisk(Victims \cap Dirty)
  BY DEF makeRoomAndInsert
<1>2. /\ disk' \in [PageIds -> Contents]
      /\ fileLen' \in 0 .. MaxPages
      /\ fileLen <= fileLen'
      /\ \A q \in PageIds :
            disk'[q] = IF q \in Victims \cap Dirty THEN items[q].page ELSE disk[q]
      /\ \A q \in Victims \cap Dirty : q < fileLen'
      /\ fileLen' = fileLen \/ fileLen' - 1 \in Dirty
  BY <1>1, WriteFacts
<1>3. lru \in Seq(PageIds) /\ IsInjective(lru) /\ Len(lru) \in Nat /\ DOMAIN lru = 1 .. Len(lru)
  BY LenProperties DEF TypeOK, LruMatchesItems
<1>4. cap \in Nat /\ cap > 0 /\ Len(lru) <= cap
  BY PoolAssumption DEF cap, LruMatchesItems
<1>5. \A j \in DOMAIN lru : lru[j] # p
  BY DEF LruMatchesItems
<1>6. Victims \subseteq {q \in PageIds : items[q] # NoEntry}
  <2>1. CASE Len(lru) < cap
    BY <2>1 DEF Victims
  <2>2. CASE ~(Len(lru) < cap)
    <3>1. Len(lru) \in 1 .. Len(lru)
      BY <1>3, <1>4, <2>2
    <3>2. Last(lru) \in PageIds /\ items[Last(lru)] # NoEntry
      BY <1>3, <3>1, ElementOfSeq DEF Last, LruMatchesItems
    <3>3. QED
      BY <2>2, <3>2 DEF Victims
  <2>3. QED
    BY <2>1, <2>2
<1>7. /\ items' \in [PageIds -> Entry \cup {NoEntry}]
      /\ \A q \in PageIds : items'[q] = IF q = p THEN e
                                        ELSE IF q \in Victims THEN NoEntry
                                        ELSE items[q]
  BY DEF makeRoomAndInsert, TypeOK
<1>8. e # NoEntry
  BY PoolAssumption DEF Entry, Contents
<1>9. lru' \in Seq(PageIds) /\ LruMatchesItems'
  <2> DEFINE rest == IF Victims = {} THEN lru ELSE Front(lru)
  <2>1. /\ rest \in Seq(PageIds)
        /\ Len(rest) + 1 <= cap
        /\ IsInjective(rest)
        /\ \A x : (\E j \in DOMAIN rest : rest[j] = x)
                     <=> x \notin Victims /\ \E j \in DOMAIN lru : lru[j] = x
    <3>1. CASE Len(lru) < cap
      <4>1. Victims = {} /\ rest = lru
        BY <3>1 DEF Victims
      <4>2. Len(lru) + 1 <= cap
        BY <1>3, <1>4, <3>1
      <4>3. QED
        BY <1>3, <4>1, <4>2
    <3>2. CASE ~(Len(lru) < cap)
      <4>1. Victims = {Last(lru)} /\ rest = Front(lru)
        BY <3>2 DEF Victims
      <4>2. Len(lru) > 0
        BY <1>3, <1>4, <3>2
      <4>3. /\ Front(lru) \in Seq(PageIds)
            /\ Len(Front(lru)) = Len(lru) - 1
            /\ IsInjective(Front(lru))
            /\ \A x : (\E j \in DOMAIN Front(lru) : Front(lru)[j] = x)
                     <=> x # Last(lru) /\ \E j \in DOMAIN lru : lru[j] = x
        BY <1>3, <4>2, FrontFacts, ZenonT(60)
      <4>4. Len(Front(lru)) + 1 <= cap
        BY <1>3, <1>4, <4>3
      <4>5. QED
        BY <4>1, <4>3, <4>4, Zenon
    <3>3. QED
      BY <3>1, <3>2, Zenon
  <2>2. lru' = <<p>> \o rest
    BY DEF makeRoomAndInsert
  <2>3. \A j \in DOMAIN rest : rest[j] # p
    BY <1>5, <2>1, Zenon
  <2> DEFINE t == <<p>> \o rest
  <2> HIDE DEF rest
  <2>4. /\ t \in Seq(PageIds)
        /\ Len(t) = Len(rest) + 1
        /\ IsInjective(t)
        /\ \A x : (\E j \in DOMAIN t : t[j] = x)
                     <=> x = p \/ \E j \in DOMAIN rest : rest[j] = x
    BY <2>1, <2>3, PushFrontFacts
  <2>t. lru' = t
    BY <2>2
  <2> HIDE DEF t
  <2>5. \A q \in PageIds : items'[q] # NoEntry <=> \E j \in DOMAIN lru' : lru'[j] = q
    BY <1>7, <1>8, <2>1, <2>4, <2>t, ZenonT(60) DEF LruMatchesItems
  <2>6. QED
    BY <2>1, <2>4, <2>5, <2>t, SMTT(60) DEF LruMatchesItems, cap
<1>10. p \notin Victims
  BY <1>6
<1>11. \A q \in PageIds : q # p /\ items'[q] # items[q] =>
          /\ items[q] # NoEntry /\ items'[q] = NoEntry
          /\ items[q].dirty => q < fileLen' /\ disk'[q] = items[q].page
          /\ ~items[q].dirty => disk'[q] = disk[q]
  BY <1>2, <1>6, <1>7 DEF Dirty
<1>12. \A q \in PageIds : q # p /\ items'[q] = items[q] => disk'[q] = disk[q]
  BY <1>2, <1>6, <1>7
<1>13. \E S \in SUBSET Dirty :
          disk' = [q \in PageIds |-> IF q \in S THEN items[q].page ELSE disk[q]]
  BY <1>1, Zenon DEF writePageDisk
<1>14. items'[p] = e /\ disk'[p] = disk[p]
  BY <1>2, <1>7, <1>10
<1>15. QED
  BY <1>2, <1>7, <1>9, <1>11, <1>12, <1>13, <1>14, Zenon DEF CacheStep

(* BufferPool.Put, whether it replaces an entry or inserts one.            *)
LEMMA PutFacts ==
  ASSUME TypeOK, LruMatchesItems, NEW p \in PageIds, NEW v \in Contents, Put(p, v)
  PROVE  CacheStep(p, [page |-> v, dirty |-> TRUE])
<1> DEFINE e == [page |-> v, dirty |-> TRUE]
<1>1. e \in Entry
  BY DEF Entry
<1>2. e # NoEntry
  BY <1>1, PoolAssumption, ZenonT(60) DEF Entry, Contents
<1> HIDE DEF e
<1>3. CASE items[p] # NoEntry
  <2>1. /\ items' = [items EXCEPT ![p] = e]
        /\ MoveToFront(p)
        /\ disk' = disk /\ fileLen' = fileLen
    BY <1>3 DEF Put, e
  <2>2. \A q \in PageIds : items'[q] = IF q = p THEN e ELSE items[q]
    BY <2>1 DEF TypeOK
  <2>3. lru' \in Seq(PageIds) /\ LruMatchesItems'
    BY <1>2, <1>3, <2>1, <2>2, MoveToFrontKeeps
  <2>4. items' \in [PageIds -> Entry \cup {NoEntry}]
    BY <1>1, <2>1 DEF TypeOK
  <2>5. disk' = [q \in PageIds |-> IF q \in {} THEN items[q].page ELSE disk[q]]
    BY <2>1 DEF TypeOK
  <2>6. fileLen <= fileLen' /\ fileLen' \in 0 .. MaxPages
    BY <2>1, PoolAssumption DEF TypeOK
  <2>7. disk' \in [PageIds -> Contents]
    BY <2>1 DEF TypeOK
  <2>8. \E S \in SUBSET Dirty :
           disk' = [q \in PageIds |-> IF q \in S THEN items[q].page ELSE disk[q]]
    <3>1. {} \in SUBSET Dirty
      OBVIOUS
    <3>2. QED
      BY <2>5, <3>1, ZenonT(60)
  <2>9. CacheStep(p, e)
    BY <2>1, <2>2, <2>3, <2>4, <2>6, <2>7, <2>8 DEF CacheStep
  <2>10. QED
    BY <2>9 DEF e
<1>4. CASE items[p] = NoEntry
  <2>1. makeRoomAndInsert(p, e)
    BY <1>4 DEF Put, e
  <2>2. CacheStep(p, e)
    BY <1>1, <1>4, <2>1, InsertFacts
  <2>3. QED
    BY <2>2 DEF e
<1>5. QED
  BY <1>3, <1>4
=============================================================================
