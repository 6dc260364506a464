----------------------------- MODULE MCKvStore ------------------------------
(***************************************************************************)
(* Batches for the runs of KvStore.                                        *)
(***************************************************************************)
EXTENDS KvStore

CONSTANTS k1, k2, v1, v2, big

NoBatches == {}
PutBatches == {<<[key |-> k1, val |-> v1], [key |-> k2, val |-> v1]>>}
MixedBatches == {<<[key |-> k1, val |-> None], [key |-> k2, val |-> v1]>>}
IdBatches == PutBatches \cup {<<[key |-> k2, val |-> v2]>>}
BigBatches == {<<[key |-> k1, val |-> v1], [key |-> k2, val |-> big]>>}
=============================================================================
