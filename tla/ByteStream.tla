----------------------------- MODULE ByteStream -----------------------------
(***************************************************************************)
(* What a pipe promises, with no ring, no events and no threads: a bounded *)
(* stream of bytes from one producer to one consumer.  The consumer only   *)
(* ever holds a prefix of what was put, the producer is never more than    *)
(* Capacity bytes ahead, and the end of the stream is reported only after  *)
(* close, and only once every byte that was in the stream when it was      *)
(* closed has been taken.                                                  *)
(***************************************************************************)
EXTENDS Naturals, Sequences, SequencesExt

CONSTANT Capacity       \* the largest number of bytes put and not yet taken

VARIABLES
  written,    \* the bytes put so far
  delivered,  \* the bytes taken so far
  closed,     \* the stream has been closed
  sealed,     \* how many bytes had been put when it was closed
  ended       \* the consumer has been told that the stream is over

vars == <<written, delivered, closed, sealed, ended>>

Init ==
  /\ written = <<>>
  /\ delivered = <<>>
  /\ closed = FALSE
  /\ sealed = 0
  /\ ended = FALSE

(* The producer adds bytes at the end, as far as the capacity allows. *)
Put ==
  /\ IsStrictPrefix(written, written')
  /\ Len(written') - Len(delivered) <= Capacity
  /\ UNCHANGED <<delivered, closed, sealed, ended>>

(* The consumer takes the next bytes, in order. *)
Take ==
  /\ IsStrictPrefix(delivered, delivered')
  /\ IsPrefix(delivered', written)
  /\ UNCHANGED <<written, closed, sealed, ended>>

Close ==
  /\ ~closed
  /\ closed' = TRUE
  /\ sealed' = Len(written)
  /\ UNCHANGED <<written, delivered, ended>>

(* The consumer learns that the stream is over. *)
End ==
  /\ closed
  /\ Len(delivered) >= sealed
  /\ ended' = TRUE
  /\ UNCHANGED <<written, delivered, closed, sealed>>

Next == Put \/ Take \/ Close \/ End

Spec == Init /\ [][Next]_vars
=============================================================================
