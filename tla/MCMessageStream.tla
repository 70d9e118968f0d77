--------------------------- MODULE MCMessageStream ---------------------------
(* The instances of MCCallbacksIO, with the stream that is read. *)
EXTENDS MCCallbacksIO, MessageStream
=============================================================================
