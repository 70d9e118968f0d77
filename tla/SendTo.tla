------------------------------- MODULE SendTo -------------------------------
(***************************************************************************)
(* HttpSendTo of rnhttp/_http.py: a Request or Response is given a body    *)
(* and headers, and sendto() writes it to the link, with the framing that  *)
(* it chooses for the body; and what the parser at the other end makes of  *)
(* what it sees on the wire.                                               *)
(*                                                                         *)
(* A body is counted in units.  "bytes" is a bytes object, "reader" a      *)
(* stream without len(), such as BytesIO, and "pipe" a PipeIO, which has   *)
(* a len() and which another thread may still be filling.                  *)
(***************************************************************************)
EXTENDS Integers, Sequences, SequencesExt

CONSTANTS
  Lengths,   \* of bytes and readers
  MaxUnits,  \* bound: units that are written to a pipe
  Block      \* units that one read of the body returns at most

ASSUME LengthsAssumption == Lengths \subseteq Nat /\ MaxUnits \in Nat /\ Block \in Nat \ {0}

VARIABLES
  kind, written, closed,   \* the body, what is in it, nothing more will come
  chunked, content_length, \* the two headers; NoLength without the second
  stage, taken,            \* of sendto(): where it is, units read
  wire,                    \* what it has written
  stale, live              \* history: see below

vars == <<kind, written, closed, chunked, content_length, stage, taken, wire, stale, live>>
message == <<kind, chunked, content_length>>

NoLength == -1

-----------------------------------------------------------------------------
(* The constructor, with no headers and no body. *)
Init ==
  /\ kind = "none" /\ written = 0 /\ closed = TRUE
  /\ chunked = FALSE /\ content_length = NoLength
  /\ stage = "new" /\ taken = 0 /\ wire = <<>>
  /\ stale = FALSE /\ live = FALSE

(* body = ...: bytes bring their length, other bodies leave the header as  *)
(* it is.  stale remembers that it is the length of an earlier body.       *)
SetBody(k, n) ==
  /\ stage = "new"
  /\ kind' = k
  /\ written' = IF k \in {"bytes", "reader"} THEN n ELSE 0
  /\ closed' = (k # "pipe")
  /\ content_length' = IF k = "bytes" THEN n ELSE content_length
  /\ stale' = (k # "bytes" /\ content_length # NoLength)
  /\ UNCHANGED <<chunked, stage, taken, wire, live>>

(* set_header("transfer-encoding", "chunked") *)
SetChunked ==
  /\ stage = "new" /\ ~chunked
  /\ chunked' = TRUE
  /\ UNCHANGED <<kind, written, closed, content_length, stage, taken, wire, stale, live>>

(* Another thread, or a generator handler before sendto(), fills the pipe. *)
Fill ==
  /\ kind = "pipe" /\ ~closed /\ written < MaxUnits
  /\ written' = written + 1
  /\ UNCHANGED <<message, closed, stage, taken, wire, stale, live>>

CloseBody ==
  /\ kind = "pipe" /\ ~closed
  /\ closed' = TRUE
  /\ UNCHANGED <<message, written, stage, taken, wire, stale, live>>

-----------------------------------------------------------------------------
(* Slip: the length of a PipeIO wins over transfer-encoding. *)
FramingSized ==
  LET sized == kind = "pipe"
      length == IF sized THEN written ELSE IF chunked THEN NoLength ELSE content_length
  IN [chunked |-> length = NoLength, length |-> length]

(* How the body is framed: a chunked transfer-encoding wins, then len() of *)
(* a body that has one, then a content-length; otherwise it is chunked.    *)
(* (bytes have become a BytesIO by now, which has no len().)               *)
Framing ==
  LET length == IF chunked THEN NoLength
                ELSE IF kind = "pipe" THEN written ELSE content_length
  IN [chunked |-> length = NoLength, length |-> length]

(* The status line and the headers.  live remembers that the length is     *)
(* that of a pipe which may grow.                                          *)
SendHead ==
  /\ stage = "new"
  /\ stage' = "body"
  /\ chunked' = Framing.chunked /\ content_length' = Framing.length
  /\ wire' = <<[part |-> "head", n |-> Framing.length]>>
  /\ live' = (kind = "pipe" /\ ~closed /\ ~chunked)
  /\ UNCHANGED <<kind, written, closed, taken, stale>>

Available == written - taken

(* A chunk of its own for what a read of the body returns, or just that. *)
SendPart ==
  /\ stage = "body" /\ kind # "none"
  /\ Available > 0
  /\ LET n == IF Available < Block THEN Available ELSE Block IN
       /\ wire' = Append(wire, [part |-> "data", n |-> n])
       /\ taken' = taken + n
  /\ UNCHANGED <<message, written, closed, stage, stale, live>>

(* Slip: the end of the body is not marked. *)
SendNoLast ==
  /\ stage = "body"
  /\ kind = "none" \/ (Available = 0 /\ closed)
  /\ stage' = "sent"
  /\ UNCHANGED <<message, written, closed, taken, wire, stale, live>>

(* The read has returned b"": the last chunk; without a body there is no   *)
(* read and no last chunk.  The write(b"") that follows writes nothing.    *)
SendLast ==
  /\ stage = "body"
  /\ kind = "none" \/ (Available = 0 /\ closed)
  /\ stage' = "sent"
  /\ wire' = IF chunked /\ kind # "none" THEN Append(wire, [part |-> "last", n |-> 0]) ELSE wire
  /\ UNCHANGED <<message, written, closed, taken, stale, live>>

Next ==
  \/ \E n \in Lengths : SetBody("bytes", n) \/ SetBody("reader", n)
  \/ SetBody("pipe", 0) \/ SetBody("none", 0)
  \/ SetChunked \/ Fill \/ CloseBody
  \/ SendHead \/ SendPart \/ SendLast

Spec == Init /\ [][Next]_vars

-----------------------------------------------------------------------------
(* The parser at the other end, of what it has seen: the units it has      *)
(* found, and whether it has come to the end of the message.               *)
Units(item) == IF item.part = "data" THEN item.n ELSE 0
Found(seen) == FoldLeft(LAMBDA sum, item : sum + Units(item), 0, seen)

Complete(seen) ==
  /\ seen # <<>>
  /\ IF seen[1].n = NoLength THEN Last(seen).part = "last" ELSE Found(seen) >= seen[1].n

-----------------------------------------------------------------------------
(* Every field has a value the code can give it, and there is one framing. *)
SendTypeOK ==
  /\ kind \in {"none", "bytes", "reader", "pipe"}
  /\ stage \in {"new", "body", "sent"}
  /\ closed \in BOOLEAN /\ chunked \in BOOLEAN /\ stale \in BOOLEAN /\ live \in BOOLEAN
  /\ taken \in 0 .. written
  /\ content_length \in Nat \cup {NoLength}
  /\ wire \in Seq([part : {"head", "data", "last"}, n : Nat \cup {NoLength}])
  /\ stage # "new" => (chunked <=> content_length = NoLength)

(* A message with a body arrives whole, and the parser sees its end, as    *)
(* long as the content-length was that of this body (not of one it had     *)
(* before, nor of a pipe still being filled).                              *)
ArrivesWhole ==
  stage = "sent" /\ kind # "none" /\ ~stale /\ ~live => Complete(wire) /\ Found(wire) = written

(* The parser does not take the message for complete while its body is     *)
(* still being written or read: what comes later would be taken for        *)
(* another message.                                                        *)
NeverEarly == Complete(wire) /\ ~stale /\ ~live => closed /\ Found(wire) = written

(* Whatever is sent has an end: "_ = stream.write(b"")  # EOF". *)
EndIsSent == stage = "sent" => Complete(wire)
=============================================================================
