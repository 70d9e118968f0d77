----------------------------- MODULE MCPipeIO -----------------------------
(* Small instances of PipeIO for TLC. *)
EXTENDS PipeIO

(* One write fits the ring, one wraps and one is larger than the ring. *)
MCWriteSizes == {1, 3}

(* Whatever is there, and a read that may come up short. *)
MCReadSizes == {-1, 2}
=============================================================================
