---------------------------- MODULE MessageStream ----------------------------
(***************************************************************************)
(* What the application reads of a RequestIO or ResponseIO is a stream     *)
(* like that of a pipe: on_body is its producer, the end of the message    *)
(* and close() seal it, and the reader is told of its end.                 *)
(***************************************************************************)
EXTENDS CallbacksIO

VARIABLE sealed   \* history: units that the pipe had taken when it was closed

SealedInit == Init /\ sealed = 0

SealedNext ==
  /\ Next
  /\ sealed' = IF eof' /\ ~eof THEN Len(delivered) + Len(pipe) ELSE sealed

SealedSpec == SealedInit /\ [][SealedNext]_<<vars, sealed>>

-----------------------------------------------------------------------------
(* The body that the parser finds reaches the application as a bounded     *)
(* stream, with every cut of the message, whoever reads, waits and closes: *)
(* drain() may stop the producer for good and several threads may close    *)
(* it, but units are neither lost between two that arrive nor read twice,  *)
(* and the end is reported behind all that came before the first close().  *)
Stream == INSTANCE ByteStream WITH written <- delivered \o pipe, closed <- eof
MessageIsStream == Stream!Spec
=============================================================================
