------------------------------ MODULE PageFile ------------------------------
(***************************************************************************)
(* What the storage layer promises to the store above it: an array of      *)
(* pages with a write-back file behind it.  Reads return what was last     *)
(* written, whatever the cache did in between; writes reach the file at    *)
(* any moment before a close and at the latest by it; a crash falls back   *)
(* to what the file holds.  BufferPool is shown to implement this.         *)
(***************************************************************************)
EXTENDS Naturals

CONSTANTS Callers,   \* goroutines that use the pager
          MaxPages,  \* bound on the number of pages
          Data,      \* contents a caller writes to a page
          NewPage,   \* content of a freshly allocated page
          Zero       \* content of a page the file has never been given

VARIABLES mem,       \* mem[p]: what a read of page p returns
          file,      \* file[p]: what the database file holds for page p
          numPages,  \* pages 0 .. numPages-1 exist
          open,      \* the pager is open
          got        \* got[c]: page and content of c's last completed read

vars == <<mem, file, numPages, open, got>>

PageIds == 0 .. MaxPages - 1
Contents == Data \cup {NewPage, Zero}

Init ==
  /\ mem = [p \in PageIds |-> Zero]
  /\ file = [p \in PageIds |-> Zero]
  /\ numPages = 0
  /\ open = TRUE
  /\ got = [c \in Callers |-> [id |-> 0, page |-> Zero]]

(***************************************************************************)
(* Some pages are copied to the file; the others keep their old content.   *)
(***************************************************************************)
WriteBack ==
  \E S \in SUBSET PageIds :
     file' = [p \in PageIds |-> IF p \in S THEN mem[p] ELSE file[p]]

Read(c, p) ==
  /\ open /\ p < numPages
  /\ got' = [got EXCEPT ![c] = [id |-> p, page |-> mem[p]]]
  /\ WriteBack
  /\ UNCHANGED <<mem, numPages, open>>

Write(p, v) ==
  /\ open /\ p < numPages
  /\ mem' = [mem EXCEPT ![p] = v]
  /\ WriteBack
  /\ UNCHANGED <<numPages, open, got>>

Allocate ==
  /\ open /\ numPages \in PageIds
  /\ mem' = [mem EXCEPT ![numPages] = NewPage]
  /\ numPages' = numPages + 1
  /\ WriteBack
  /\ UNCHANGED <<open, got>>

Flush ==
  /\ open
  /\ WriteBack
  /\ UNCHANGED <<mem, numPages, open, got>>

Close ==
  /\ open
  /\ file' = mem
  /\ open' = FALSE
  /\ UNCHANGED <<mem, numPages, got>>

Crash ==
  /\ open
  /\ mem' = file
  /\ numPages' \in 0 .. numPages
  /\ open' = FALSE
  /\ UNCHANGED <<file, got>>

Reopen ==
  /\ ~open
  /\ open' = TRUE
  /\ UNCHANGED <<mem, file, numPages, got>>

Next ==
  \/ \E c \in Callers, p \in PageIds : Read(c, p)
  \/ \E p \in PageIds, v \in Data : Write(p, v)
  \/ Allocate \/ Flush \/ Close \/ Crash \/ Reopen

Spec == Init /\ [][Next]_vars
=============================================================================
