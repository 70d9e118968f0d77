------------------------------- MODULE PipeIO -------------------------------
(***************************************************************************)
(* The ring buffer of rnhttp/_pipe.py: one thread writes (and flushes),    *)
(* one thread reads, and any thread may close.  The class takes no lock:   *)
(* the threads share the fields and two threading.Events.                  *)
(*                                                                         *)
(* A step is one access to the shared fields.  An interpreter with a GIL   *)
(* hands it over only at a call or at the end of a loop iteration, so some *)
(* steps follow the one before them without a break: those are the labels  *)
(* in Unbroken, and GIL says whether the interpreter has one.              *)
(*                                                                         *)
(* The bytes are their positions in the stream: the k-th byte ever passed  *)
(* to write() is the number k, and 0 is a byte of the fresh bytearray.     *)
(***************************************************************************)
EXTENDS Integers, Sequences

CONSTANTS
  Capacity,    \* size of the ring in bytes
  WriteSizes,  \* lengths of the data passed to one write()
  ReadSizes,   \* arguments of read(); negative: whatever is there
  MaxBytes,    \* bound: bytes written in a behaviour
  GIL          \* the interpreter has a global lock

ASSUME CapacityAssumption == Capacity \in Nat \ {0}
ASSUME WriteSizesAssumption == WriteSizes \subseteq Nat
ASSUME ReadSizesAssumption == ReadSizes \subseteq Int
ASSUME MaxBytesAssumption == MaxBytes \in Nat
ASSUME GILAssumption == GIL \in BOOLEAN

VARIABLES
  buffer, read_pos, write_pos, available,   \* the ring
  data_available, write_ready, eof,         \* the two events, the end mark
  length,                                   \* bytes of all finished writes
  wpc, wlength, offset, chunk_size, wtmp,   \* the writing thread
  rpc, rsize, result, to_read, rtmp,        \* the reading thread
  cpc,                                      \* the closing thread
  received, ended, sealed                   \* history, see below

ring == <<buffer, read_pos, write_pos, available>>
events == <<data_available, write_ready>>
writer == <<wpc, wlength, offset, chunk_size, wtmp, length>>
reader == <<rpc, rsize, result, to_read, rtmp>>
history == <<received, ended, sealed>>
vars == <<buffer, read_pos, write_pos, available, data_available, write_ready,
          eof, length, wpc, wlength, offset, chunk_size, wtmp, rpc, rsize,
          result, to_read, rtmp, cpc, received, ended, sealed>>

Slots == 0 .. Capacity - 1

WriterLabels == {"idle", "full", "wait", "clear", "space", "copy", "load",
                 "store", "signal", "recheck", "reclear",
                 "flush", "flush_test", "flush_set"}
ReaderLabels == {"idle", "empty", "eof", "wait", "take", "copy", "load",
                 "store", "notify", "drained", "clear", "settle", "resignal"}
CloserLabels == {"idle", "data", "ready"}

-----------------------------------------------------------------------------
(* A slip: += as two steps that a thread switch may separate. *)
SplitUpdate == {"space"}

(* The labels the interpreter reaches without a chance to switch threads. *)
UnbrokenW == {"space", "load", "store"}
UnbrokenR == {"eof", "store"}

WriterRuns == GIL => rpc \notin UnbrokenR
ReaderRuns == GIL => wpc \notin UnbrokenW
CloserRuns == WriterRuns /\ ReaderRuns

(* Where the i-th byte (from 0) counted from position pos lies, and which  *)
(* byte counted from pos slot s holds.                                     *)
RingSlot(pos, i) == IF i < Capacity - pos THEN pos + i ELSE i - (Capacity - pos)
RingIndex(pos, s) == IF pos <= s THEN s - pos ELSE (Capacity - pos) + s

(* A slip: a position at the end of the ring is not taken back to 0. *)
AdvancedPast(pos, n) == IF n <= Capacity - pos THEN pos + n ELSE n - (Capacity - pos)

(* The position after n bytes from pos. *)
Advanced(pos, n) == IF n <= Capacity - pos THEN (pos + n) % Capacity
                                           ELSE n - (Capacity - pos)

Lesser(m, n) == IF m <= n THEN m ELSE n

(* Bytes of the stream that the writer has counted in available. *)
Committed == length + offset - (IF wpc \in {"load", "store"} THEN chunk_size ELSE 0)

(* The bytes the reader has copied out of the ring. *)
Consumed == received \o result

-----------------------------------------------------------------------------
Init ==
  /\ buffer = [s \in Slots |-> 0]
  /\ read_pos = 0 /\ write_pos = 0 /\ available = 0
  /\ data_available = FALSE /\ write_ready = TRUE /\ eof = FALSE
  /\ length = 0
  /\ wpc = "idle" /\ wlength = 0 /\ offset = 0 /\ chunk_size = 0 /\ wtmp = 0
  /\ rpc = "idle" /\ rsize = 0 /\ result = <<>> /\ to_read = 0 /\ rtmp = 0
  /\ cpc = "idle"
  /\ received = <<>> /\ ended = FALSE /\ sealed = 0

-----------------------------------------------------------------------------
(* write(data): the outer loop is left when everything is in the ring. *)
WriteLoop ==
  IF offset < wlength
  THEN wpc' = "full" /\ UNCHANGED <<offset, length>>
  ELSE wpc' = "idle" /\ offset' = 0 /\ length' = length + wlength

BeginWrite(n) ==
  /\ wpc = "idle" /\ WriterRuns
  /\ length + n <= MaxBytes
  /\ wlength' = n
  /\ IF n > 0 THEN wpc' = "full" ELSE wpc' = "idle"
  /\ UNCHANGED <<ring, events, eof, length, offset, chunk_size, wtmp, reader, cpc, history>>

WFull ==
  /\ wpc = "full" /\ WriterRuns
  /\ wpc' = IF available >= Capacity THEN "wait" ELSE "space"
  /\ UNCHANGED <<ring, events, eof, length, wlength, offset, chunk_size, wtmp, reader, cpc, history>>

WWait ==
  /\ wpc = "wait" /\ WriterRuns
  /\ write_ready
  /\ wpc' = "clear"
  /\ UNCHANGED <<ring, events, eof, length, wlength, offset, chunk_size, wtmp, reader, cpc, history>>

WClear ==
  /\ wpc = "clear" /\ WriterRuns
  /\ write_ready' = FALSE
  /\ wpc' = "full"
  /\ UNCHANGED <<ring, data_available, eof, length, wlength, offset, chunk_size, wtmp, reader, cpc, history>>

(* A slip: the chunk is not cut to the space there is. *)
WSpaceUncut ==
  /\ wpc = "space" /\ WriterRuns
  /\ chunk_size' = wlength - offset
  /\ wpc' = "copy"
  /\ UNCHANGED <<ring, events, eof, length, wlength, offset, wtmp, reader, cpc, history>>

WSpace ==
  /\ wpc = "space" /\ WriterRuns
  /\ chunk_size' = Lesser(Capacity - available, wlength - offset)
  /\ wpc' = "copy"
  /\ UNCHANGED <<ring, events, eof, length, wlength, offset, wtmp, reader, cpc, history>>

(* The slice assignments, one or two, and the new write position. *)
WCopy ==
  /\ wpc = "copy" /\ WriterRuns
  /\ buffer' = [s \in Slots |-> IF RingIndex(write_pos, s) < chunk_size
                                THEN length + offset + RingIndex(write_pos, s) + 1
                                ELSE buffer[s]]
  /\ write_pos' = Advanced(write_pos, chunk_size)
  /\ offset' = offset + chunk_size
  /\ wpc' = "load"
  /\ UNCHANGED <<read_pos, available, events, eof, length, wlength, chunk_size, wtmp, reader, cpc, history>>

(* self._available += chunk_size: the value is read, then stored. *)
WLoad ==
  /\ wpc = "load" /\ WriterRuns
  /\ wtmp' = available
  /\ wpc' = "store"
  /\ UNCHANGED <<ring, events, eof, length, wlength, offset, chunk_size, reader, cpc, history>>

WStore ==
  /\ wpc = "store" /\ WriterRuns
  /\ available' = wtmp + chunk_size
  /\ wpc' = "signal"
  /\ UNCHANGED <<buffer, read_pos, write_pos, events, eof, length, wlength, offset, chunk_size, wtmp, reader, cpc, history>>

(* A slip: write() leaves it to flush() to wake the reader. *)
WSignalNobody ==
  /\ wpc = "signal" /\ WriterRuns
  /\ wpc' = "recheck"
  /\ UNCHANGED <<ring, events, eof, length, wlength, offset, chunk_size, wtmp, reader, cpc, history>>

WSignal ==
  /\ wpc = "signal" /\ WriterRuns
  /\ data_available' = TRUE
  /\ wpc' = "recheck"
  /\ UNCHANGED <<ring, write_ready, eof, length, wlength, offset, chunk_size, wtmp, reader, cpc, history>>

WRecheck ==
  /\ wpc = "recheck" /\ WriterRuns
  /\ \/ /\ available >= Capacity
        /\ wpc' = "reclear"
        /\ UNCHANGED <<offset, length>>
     \/ /\ available < Capacity
        /\ WriteLoop
  /\ UNCHANGED <<ring, events, eof, wlength, chunk_size, wtmp, reader, cpc, history>>

WReclear ==
  /\ wpc = "reclear" /\ WriterRuns
  /\ write_ready' = FALSE
  /\ WriteLoop
  /\ UNCHANGED <<ring, data_available, eof, wlength, chunk_size, wtmp, reader, cpc, history>>

(* flush(), which the callers of write() call from the same thread. *)
BeginFlush ==
  /\ wpc = "idle" /\ WriterRuns
  /\ wpc' = "flush"
  /\ UNCHANGED <<ring, events, eof, length, wlength, offset, chunk_size, wtmp, reader, cpc, history>>

WFlush ==
  /\ wpc = "flush" /\ WriterRuns
  /\ wpc' = IF data_available THEN "idle" ELSE "flush_test"
  /\ UNCHANGED <<ring, events, eof, length, wlength, offset, chunk_size, wtmp, reader, cpc, history>>

WFlushTest ==
  /\ wpc = "flush_test" /\ WriterRuns
  /\ wpc' = IF available > 0 \/ eof THEN "flush_set" ELSE "idle"
  /\ UNCHANGED <<ring, events, eof, length, wlength, offset, chunk_size, wtmp, reader, cpc, history>>

WFlushSet ==
  /\ wpc = "flush_set" /\ WriterRuns
  /\ data_available' = TRUE
  /\ wpc' = "idle"
  /\ UNCHANGED <<ring, write_ready, eof, length, wlength, offset, chunk_size, wtmp, reader, cpc, history>>

-----------------------------------------------------------------------------
(* read(size).  read(0) returns b"" at once and changes nothing. *)
BeginRead(size) ==
  /\ rpc = "idle" /\ ReaderRuns
  /\ size # 0
  /\ rsize' = size
  /\ rpc' = "empty"
  /\ UNCHANGED <<ring, events, eof, writer, result, to_read, rtmp, cpc, history>>

(* The result goes to the caller; b"" tells it that the stream is over. *)
ReturnRead ==
  /\ rpc' = "idle"
  /\ received' = Consumed
  /\ result' = <<>>
  /\ ended' = (ended \/ result = <<>>)

(* A slip: a closed pipe is taken for an empty one. *)
REmptyOrClosed ==
  /\ rpc = "empty" /\ ReaderRuns
  /\ rpc' = IF available = 0 \/ eof THEN "eof" ELSE "take"
  /\ UNCHANGED <<ring, events, eof, writer, rsize, result, to_read, rtmp, cpc, history>>

REmpty ==
  /\ rpc = "empty" /\ ReaderRuns
  /\ rpc' = IF available = 0 THEN "eof" ELSE "take"
  /\ UNCHANGED <<ring, events, eof, writer, rsize, result, to_read, rtmp, cpc, history>>

(* A slip: only a read that has something stops waiting. *)
REofMissed ==
  /\ rpc = "eof" /\ ReaderRuns
  /\ rpc' = IF result # <<>> THEN "settle" ELSE "wait"
  /\ UNCHANGED <<ring, events, eof, writer, rsize, result, to_read, rtmp, cpc, history>>

REof ==
  /\ rpc = "eof" /\ ReaderRuns
  /\ rpc' = IF eof \/ result # <<>> THEN "settle" ELSE "wait"
  /\ UNCHANGED <<ring, events, eof, writer, rsize, result, to_read, rtmp, cpc, history>>

RWait ==
  /\ rpc = "wait" /\ ReaderRuns
  /\ data_available
  /\ rpc' = "empty"
  /\ UNCHANGED <<ring, events, eof, writer, rsize, result, to_read, rtmp, cpc, history>>

RTake ==
  /\ rpc = "take" /\ ReaderRuns
  /\ IF rsize > 0 /\ rsize <= Len(result)
     THEN rpc' = "settle" /\ to_read' = to_read
     ELSE /\ rpc' = "copy"
          /\ to_read' = IF rsize < 0 THEN available
                        ELSE Lesser(rsize - Len(result), available)
  /\ UNCHANGED <<ring, events, eof, writer, rsize, result, rtmp, cpc, history>>

RCopy ==
  /\ rpc = "copy" /\ ReaderRuns
  /\ result' = result \o [i \in 1 .. to_read |-> buffer[RingSlot(read_pos, i - 1)]]
  /\ read_pos' = Advanced(read_pos, to_read)
  /\ rpc' = "load"
  /\ UNCHANGED <<buffer, write_pos, available, events, eof, writer, rsize, to_read, rtmp, cpc, history>>

(* self._available -= to_read *)
RLoad ==
  /\ rpc = "load" /\ ReaderRuns
  /\ rtmp' = available
  /\ rpc' = "store"
  /\ UNCHANGED <<ring, events, eof, writer, rsize, result, to_read, cpc, history>>

(* A slip: a drained ring is counted as empty whatever came in meanwhile. *)
RStoreEmpty ==
  /\ rpc = "store" /\ ReaderRuns
  /\ available' = IF rsize < 0 THEN 0 ELSE rtmp - to_read
  /\ rpc' = "notify"
  /\ UNCHANGED <<buffer, read_pos, write_pos, events, eof, writer, rsize, result, to_read, rtmp, cpc, history>>

RStore ==
  /\ rpc = "store" /\ ReaderRuns
  /\ available' = rtmp - to_read
  /\ rpc' = "notify"
  /\ UNCHANGED <<buffer, read_pos, write_pos, events, eof, writer, rsize, result, to_read, rtmp, cpc, history>>

(* A slip: the writer is not woken by the read that empties the ring. *)
RNotifyUnlessEmpty ==
  /\ rpc = "notify" /\ ReaderRuns
  /\ write_ready' = (write_ready \/ available > 0)
  /\ rpc' = "drained"
  /\ UNCHANGED <<ring, data_available, eof, writer, rsize, result, to_read, rtmp, cpc, history>>

RNotify ==
  /\ rpc = "notify" /\ ReaderRuns
  /\ write_ready' = TRUE
  /\ rpc' = "drained"
  /\ UNCHANGED <<ring, data_available, eof, writer, rsize, result, to_read, rtmp, cpc, history>>

(* The end of an iteration: leave the loop when size bytes are there. *)
AfterTake == IF rsize > 0 /\ Len(result) >= rsize THEN "settle" ELSE "empty"

RDrained ==
  /\ rpc = "drained" /\ ReaderRuns
  /\ rpc' = IF available = 0 THEN "clear" ELSE AfterTake
  /\ UNCHANGED <<ring, events, eof, writer, rsize, result, to_read, rtmp, cpc, history>>

RClear ==
  /\ rpc = "clear" /\ ReaderRuns
  /\ data_available' = FALSE
  /\ rpc' = AfterTake
  /\ UNCHANGED <<ring, write_ready, eof, writer, rsize, result, to_read, rtmp, cpc, history>>

RSettle ==
  /\ rpc = "settle" /\ ReaderRuns
  /\ \/ /\ available > 0
        /\ rpc' = "resignal"
        /\ UNCHANGED <<result, received, ended>>
     \/ /\ available <= 0
        /\ ReturnRead
  /\ UNCHANGED <<ring, events, eof, writer, rsize, to_read, rtmp, cpc, sealed>>

RResignal ==
  /\ rpc = "resignal" /\ ReaderRuns
  /\ data_available' = TRUE
  /\ ReturnRead
  /\ UNCHANGED <<ring, write_ready, eof, writer, rsize, to_read, rtmp, cpc, sealed>>

-----------------------------------------------------------------------------
(* close(), any number of times.  sealed remembers how much was in the     *)
(* stream at the first one.                                                *)
BeginClose ==
  /\ cpc = "idle" /\ CloserRuns
  /\ eof' = TRUE
  /\ sealed' = IF eof THEN sealed ELSE Committed
  /\ cpc' = "data"
  /\ UNCHANGED <<ring, events, writer, reader, received, ended>>

(* A slip: close() wakes the writer only. *)
CDataForgotten ==
  /\ cpc = "data" /\ CloserRuns
  /\ cpc' = "ready"
  /\ UNCHANGED <<ring, events, eof, writer, reader, history>>

CData ==
  /\ cpc = "data" /\ CloserRuns
  /\ data_available' = TRUE
  /\ cpc' = "ready"
  /\ UNCHANGED <<ring, write_ready, eof, writer, reader, history>>

CReady ==
  /\ cpc = "ready" /\ CloserRuns
  /\ write_ready' = TRUE
  /\ cpc' = "idle"
  /\ UNCHANGED <<ring, data_available, eof, writer, reader, history>>

-----------------------------------------------------------------------------
WriterStep ==
  \/ WFull \/ WWait \/ WClear \/ WSpace \/ WCopy \/ WLoad \/ WStore
  \/ WSignal \/ WRecheck \/ WReclear \/ WFlush \/ WFlushTest \/ WFlushSet

ReaderStep ==
  \/ REmpty \/ REof \/ RWait \/ RTake \/ RCopy \/ RLoad \/ RStore
  \/ RNotify \/ RDrained \/ RClear \/ RSettle \/ RResignal

CloserStep == CData \/ CReady

Next ==
  \/ \E n \in WriteSizes : BeginWrite(n)
  \/ BeginFlush
  \/ WriterStep
  \/ \E size \in ReadSizes : BeginRead(size)
  \/ ReaderStep
  \/ BeginClose
  \/ CloserStep

Spec == Init /\ [][Next]_vars

(* The scheduler: a thread that can run again and again does run.  Strong  *)
(* fairness, because a thread can not run while another one is between two *)
(* unbroken steps.  Nothing is assumed of the threads' own programs, which *)
(* decide when to write, read and close.                                   *)
FairSpec == Spec /\ SF_vars(WriterStep) /\ SF_vars(ReaderStep) /\ SF_vars(CloserStep)

(* A consumer that reads again until it is given b"", where the loops of   *)
(* client.py, socks_proxy.py and sendto() break off.  It may read on after *)
(* that, as a file object may be, but it need not.                         *)
ConsumedSpec == FairSpec /\ SF_vars(~ended /\ \E size \in ReadSizes : BeginRead(size))

-----------------------------------------------------------------------------
(* The first n bytes of the stream. *)
StreamOf(n) == [i \in 1 .. n |-> i]

(* Every field, local and label has a value the code can give it, and the  *)
(* ring never counts more bytes than it has room for.                      *)
TypeOK ==
  /\ buffer \in [Slots -> Nat]
  /\ read_pos \in Slots /\ write_pos \in Slots
  /\ available \in 0 .. Capacity
  /\ data_available \in BOOLEAN /\ write_ready \in BOOLEAN /\ eof \in BOOLEAN
  /\ length \in Nat /\ wlength \in Nat /\ offset \in 0 .. wlength
  /\ chunk_size \in 0 .. Capacity /\ to_read \in 0 .. Capacity
  /\ wtmp \in 0 .. Capacity /\ rtmp \in 0 .. Capacity
  /\ rsize \in Int
  /\ wpc \in WriterLabels /\ rpc \in ReaderLabels /\ cpc \in CloserLabels
  /\ result \in Seq(Nat) /\ received \in Seq(Nat)
  /\ ended \in BOOLEAN /\ sealed \in Nat

(* The reader gets the bytes that were written, each once and in order:    *)
(* the writer never overwrites a byte that is still to be read, and the    *)
(* two sides agree on the wrap around the end of the ring, whatever the    *)
(* interleaving of the copies and of the two updates of available.         *)
InOrder == Consumed = StreamOf(Len(Consumed))

(* No wakeup is lost.  A reader parked on its event has nothing to read    *)
(* and no end to report, unless the thread that is to wake it is about to; *)
(* and a writer parked on its event faces a full ring, unless the reader   *)
(* is about to wake it.  (The two threads clear the events they wait for   *)
(* after testing available, while the other one sets them.)                *)
NoLostWakeup ==
  /\ rpc = "wait" /\ ~data_available =>
       /\ available = 0 \/ wpc = "signal"
       /\ eof => cpc = "data"
  /\ wpc = "wait" /\ ~write_ready => available >= Capacity \/ rpc = "notify"

(* read() returns b"" for the end of the stream, which every caller takes  *)
(* as the signal to stop, only after close() and only when all that was in *)
(* the ring at close() has been returned.                                  *)
EndIsComplete == ended => eof /\ Len(received) >= sealed

(* The pipe implements the bounded stream of ByteStream.                   *)
Stream == INSTANCE ByteStream WITH
            written <- StreamOf(Committed), delivered <- Consumed, closed <- eof
StreamSpec == Stream!Spec

(* Under a consumer that reads to the end, every write() and flush()       *)
(* returns, also one of more bytes than the ring holds; except that a      *)
(* write which finds the ring full after the consumer has had its b"" may  *)
(* wait for ever: write() does not look at _eof.                           *)
WritesFinish == wpc # "idle" ~> wpc = "idle" \/ (ended /\ available = Capacity)

(* Under a consumer that reads to the end, every byte that was counted in  *)
(* the ring before close() is returned by some read(), without another     *)
(* write() or a flush() to help; a later one is, or comes after the b"".   *)
DataArrives ==
  \A n \in 1 .. MaxBytes : Committed >= n ~> Len(received) >= n \/ (ended /\ n > sealed)

(* Under a consumer that reads to the end, close() ends the stream for it. *)
EndArrives == eof ~> ended

(* close() releases a reader that is inside read(), even if the consumer   *)
(* never calls read() again.                                               *)
CloseReleasesReader == eof /\ rpc # "idle" ~> rpc = "idle"

(***************************************************************************)
(* The inductive invariant, for an interpreter with a GIL.                 *)
(***************************************************************************)

(* Bytes copied into the ring and not yet out of it. *)
Held == length + offset - Len(Consumed)

(* The bytes between the two positions are the next ones of the stream. *)
RingHolds ==
  /\ Held \in 0 .. Capacity
  /\ write_pos = RingSlot(read_pos, Held)
  /\ \A i \in 0 .. Held - 1 : buffer[RingSlot(read_pos, i)] = Len(Consumed) + i + 1

(* available lags behind the ring while a thread is between its copy and   *)
(* its update: too low for the writer's, too high for the reader's.        *)
CountLags ==
  available = Held - (IF wpc \in {"load", "store"} THEN chunk_size ELSE 0)
                   + (IF rpc \in {"load", "store"} THEN to_read ELSE 0)

(* What the writer's locals say about the ring, whatever the reader does. *)
WriterKnows ==
  /\ wpc \in {"idle", "flush", "flush_test", "flush_set"} => offset = 0
  /\ wpc \in {"full", "wait", "clear", "space"} => offset < wlength
  /\ wpc = "space" => available < Capacity
  /\ wpc \in {"copy", "load", "store"} =>
       chunk_size > 0 /\ available + chunk_size <= Capacity
  /\ wpc = "copy" => offset + chunk_size <= wlength
  /\ wpc = "store" => wtmp = available

(* What the reader's locals say, whatever the writer does. *)
ReaderKnows ==
  /\ rpc # "idle" => rsize # 0
  /\ rpc = "idle" => result = <<>>
  /\ rpc = "eof" => available = 0
  /\ rpc = "take" => available > 0
  /\ rpc \in {"copy", "load", "store"} => to_read > 0 /\ to_read <= available
  /\ rpc = "store" => rtmp = available
  /\ rpc \in {"load", "store", "notify", "drained", "clear"} => result # <<>>

(* At most one thread is between two unbroken steps. *)
OneAtATime == ~(wpc \in UnbrokenW /\ rpc \in UnbrokenR)

(* How much had been written at close() is in the stream for good, and a   *)
(* read about to return b"" has seen all of it.                            *)
EndKnown ==
  /\ eof => sealed <= Committed
  /\ rpc \in {"settle", "resignal"} /\ result = <<>> => eof /\ Len(Consumed) >= sealed
  /\ EndIsComplete

IInv ==
  /\ TypeOK
  /\ RingHolds
  /\ CountLags
  /\ WriterKnows
  /\ ReaderKnows
  /\ OneAtATime
  /\ InOrder
  /\ NoLostWakeup
  /\ EndKnown
=============================================================================
