--------------------------- MODULE VersionsProofs ---------------------------
(***************************************************************************)
(* Lemmas about version chains and about sequences made from sets, for the *)
(* proofs about the store and about the executor.                          *)
(***************************************************************************)
EXTENDS Versions, FiniteSets, SequencesExt, FiniteSetTheorems, SequenceTheorems,
        WellFoundedInduction, TLAPS

-----------------------------------------------------------------------------
(* A nonempty set of positions of a sequence has a last one: the newest    *)
(* version that GetAt looks for exists.                                    *)
LEMMA LastPosition ==
  ASSUME NEW n \in Nat, NEW S \in SUBSET (1 .. n), S # {}
  PROVE  \E i \in S : \A j \in S : j <= i
<1> DEFINE T == {n - i : i \in S}
<1>1. T \subseteq Nat /\ T # {}
  <2>1. \A i \in S : n - i \in Nat
    OBVIOUS
  <2>2. QED
    BY <2>1, Zenon
<1>2. \E x \in T : \A y \in T : ~(<<y, x>> \in OpToRel(<, Nat))
  <2> HIDE DEF T
  <2>1. QED
    BY <1>1, WFMin, NatLessThanWellFounded, Zenon
<1>3. PICK x \in T : \A y \in T : ~(y < x)
  <2>1. \A x, y \in Nat : <<y, x>> \in OpToRel(<, Nat) <=> y < x
    BY DEF OpToRel
  <2> HIDE DEF T
  <2>2. QED
    BY <1>1, <1>2, <2>1, Zenon
<1>4. PICK i \in S : x = n - i
  BY <1>3
<1>5. ASSUME NEW j \in S PROVE j <= i
  <2>1. n - j \in T
    OBVIOUS
  <2>2. ~(n - j < n - i)
    BY <1>3, <1>4, <2>1
  <2>3. QED
    BY <2>2
<1>6. QED
  BY <1>5

(* The value GetAt returns is a logged one or None. *)
LEMMA GetAtValue ==
  ASSUME NEW R, NEW V, None \in V, \A r \in R : r.val \in V,
         NEW recs \in Seq(R), NEW s \in Nat, NEW k
  PROVE  GetAt(recs, s, k) \in V
<1> DEFINE W == Visible(recs, s, k)
<1>1. CASE W = {}
  BY <1>1 DEF GetAt
<1>2. CASE W # {}
  <2>1. W \in SUBSET (1 .. Len(recs)) /\ Len(recs) \in Nat
    BY LenProperties DEF Visible
  <2>2. \E i \in W : \A j \in W : j <= i
    <3> HIDE DEF W
    <3>1. QED
      BY <1>2, <2>1, LastPosition, Zenon
  <2> DEFINE m == CHOOSE i \in W : \A j \in W : j <= i
  <2>3. m \in W
    <3> HIDE DEF W
    <3>1. QED
      BY <2>2
  <2>4. recs[m] \in R
    <3> HIDE DEF m, W
    <3>1. QED
      BY <2>1, <2>3, ElementOfSeq
  <2>5. GetAt(recs, s, k) = recs[m].val
    BY <1>2 DEF GetAt
  <2>6. QED
    <3> HIDE DEF m
    <3>1. QED
      BY <2>4, <2>5
<1>3. QED
  BY <1>1, <1>2

(* Versions added behind a snapshot do not change what GetAt returns for   *)
(* it: the version list is only ever extended.                             *)
LEMMA GetAtStable ==
  ASSUME NEW R, NEW l \in Seq(R), NEW t \in Seq(R),
         NEW s \in Nat, s <= Len(l), NEW k
  PROVE  GetAt(l \o t, s, k) = GetAt(l, s, k)
<1> DEFINE L == l \o t
<1>1. /\ L \in Seq(R) /\ Len(L) = Len(l) + Len(t)
      /\ \A i \in 1 .. Len(l) + Len(t) :
            L[i] = IF i <= Len(l) THEN l[i] ELSE t[i - Len(l)]
  BY ConcatProperties
<1> HIDE DEF L
<1>2. /\ Len(l) \in Nat /\ Len(t) \in Nat
      /\ DOMAIN l = 1 .. Len(l) /\ DOMAIN L = 1 .. Len(L)
  BY <1>1, LenProperties
<1>3. \A i \in 1 .. Len(l) : L[i] = l[i]
  BY <1>1, <1>2
<1>4. Visible(L, s, k) = Visible(l, s, k)
  <2>1. ASSUME NEW i \in DOMAIN L, i <= s PROVE i \in DOMAIN l /\ L[i] = l[i]
    BY <1>1, <1>2, <1>3, <2>1
  <2>2. ASSUME NEW i \in DOMAIN l PROVE i \in DOMAIN L /\ L[i] = l[i]
    BY <1>1, <1>2, <1>3
  <2>3. QED
    BY <2>1, <2>2 DEF Visible
<1> DEFINE V == Visible(l, s, k)
<1>5. CASE V = {}
  BY <1>4, <1>5 DEF GetAt, L
<1>6. CASE V # {}
  <2>1. V \in SUBSET (1 .. Len(l))
    BY <1>2 DEF Visible
  <2>2. \E i \in V : \A j \in V : j <= i
    <3> HIDE DEF V
    <3>1. QED
      BY <1>2, <1>6, <2>1, LastPosition, Zenon
  <2> DEFINE m == CHOOSE i \in V : \A j \in V : j <= i
  <2>3. m \in V
    <3> HIDE DEF V
    <3>1. QED
      BY <2>2
  <2>4. L[m] = l[m]
    <3> HIDE DEF m, V
    <3>1. QED
      BY <1>3, <2>1, <2>3
  <2>5. GetAt(L, s, k) = L[m].val /\ GetAt(l, s, k) = l[m].val
    BY <1>4, <1>6 DEF GetAt
  <2>6. QED
    BY <2>4, <2>5 DEF L
<1>7. QED
  BY <1>5, <1>6

-----------------------------------------------------------------------------
(* A function on 1 .. n is a sequence. *)
LEMMA FunctionIsSeq ==
  ASSUME NEW S, NEW n \in Nat, NEW f \in [1 .. n -> S]
  PROVE  f \in Seq(S) /\ Len(f) = n
OBVIOUS

(* SetToSeq lists the elements of a finite set, each once. *)
LEMMA SetToSeqLists ==
  ASSUME NEW S, IsFiniteSet(S)
  PROVE  /\ Cardinality(S) \in Nat
         /\ SetToSeq(S) \in [1 .. Cardinality(S) -> S]
         /\ IsInjective(SetToSeq(S))
<1>1. Cardinality(S) \in Nat /\ ExistsBijection(1 .. Cardinality(S), S)
  BY FS_CardinalityType
<1>2. \E f \in [1 .. Cardinality(S) -> S] : IsInjective(f)
  <2>1. PICK f \in Bijection(1 .. Cardinality(S), S) : TRUE
    BY <1>1 DEF ExistsBijection
  <2>2. f \in [1 .. Cardinality(S) -> S] /\ IsInjective(f)
    BY <2>1 DEF Bijection, Injection, IsInjective
  <2>3. QED
    BY <2>2
<1>3. QED
  BY <1>1, <1>2 DEF SetToSeq
=============================================================================
