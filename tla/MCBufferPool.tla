---------------------------- MODULE MCBufferPool ----------------------------
(* The buffer pool on three pages and a pool of two. *)
EXTENDS BufferPool
=============================================================================
