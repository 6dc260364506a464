------------------------------ MODULE Versions ------------------------------
(***************************************************************************)
(* The in-memory version chains of kv.Store.  The store numbers the        *)
(* records it appends 1, 2, 3, ... (Store.seq) and files each under its    *)
(* key; here they are one sequence, so a version's number is its position. *)
(* A snapshot is a number; val = None is a tombstone.                      *)
(***************************************************************************)
EXTENDS Integers, Sequences

CONSTANTS Keys, None

(* Positions of the versions of k visible at snapshot s. *)
Visible(log, s, k) == {i \in DOMAIN log : i <= s /\ log[i].key = k}

(* GetAt: the value visible at s, None when there is none. *)
GetAt(log, s, k) ==
  IF Visible(log, s, k) = {} THEN None
  ELSE log[CHOOSE i \in Visible(log, s, k) :
             \A j \in Visible(log, s, k) : j <= i].val

(* KeysAt: the keys live at s. *)
KeysAt(log, s) == {k \in Keys : GetAt(log, s, k) # None}

(* ChangedSince: k has a version newer than s. *)
ChangedSince(log, s, k) == \E i \in DOMAIN log : i > s /\ log[i].key = k

(* The map m after the records of a sequence, applied in order. *)
Apply(m, recs) ==
  [k \in Keys |-> IF Visible(recs, Len(recs), k) = {} THEN m[k]
                  ELSE GetAt(recs, Len(recs), k)]
=============================================================================
