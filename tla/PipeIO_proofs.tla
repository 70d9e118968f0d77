---------------------------- MODULE PipeIO_proofs ----------------------------
(***************************************************************************)
(* Proofs about PipeIO for a ring of any capacity, any sizes of writes and *)
(* reads and any number of them, on an interpreter with a GIL.             *)
(***************************************************************************)
EXTENDS PipeIO, SequenceTheorems, TLAPS

(* A position within the ring or just behind it, brought back into it. *)
LEMMA Wrap ==
  ASSUME NEW p \in 0 .. Capacity
  PROVE  p % Capacity = IF p = Capacity THEN 0 ELSE p
BY CapacityAssumption, SMT

(* The new position of a copy of n bytes is the slot n bytes further on. *)
LEMMA AdvancedIsSlot ==
  ASSUME NEW pos \in Slots, NEW n \in 0 .. Capacity
  PROVE  Advanced(pos, n) = RingSlot(pos, n) /\ RingSlot(pos, n) \in Slots
<1>1. n <= Capacity - pos => (pos + n) \in 0 .. Capacity
  BY CapacityAssumption DEF Slots
<1>2. n <= Capacity - pos => (pos + n) % Capacity = IF pos + n = Capacity THEN 0 ELSE pos + n
  BY <1>1, Wrap
<1> QED
  BY <1>1, <1>2, CapacityAssumption DEF Slots, Advanced, RingSlot

(* Going a bytes on and then b bytes on is going a + b bytes on. *)
LEMMA SlotsAdd ==
  ASSUME NEW pos \in Slots, NEW a \in Nat, NEW b \in Nat, a + b <= Capacity
  PROVE  RingSlot(RingSlot(pos, a), b) = RingSlot(pos, a + b)
BY CapacityAssumption DEF Slots, RingSlot

(* The slots between two positions that are h bytes apart, seen from the   *)
(* second one: the i-th byte from pos is the (i - h)-th from there, and    *)
(* the first h come last.                                                  *)
LEMMA SlotIndex ==
  ASSUME NEW pos \in Slots, NEW h \in 0 .. Capacity, NEW i \in 0 .. Capacity - 1
  PROVE  RingIndex(RingSlot(pos, h), RingSlot(pos, i))
           = IF i >= h THEN i - h ELSE (Capacity - h) + i
BY CapacityAssumption DEF Slots, RingSlot, RingIndex

(* What the reader holds is a sequence of bytes, as long as its two parts. *)
LEMMA ConsumedType ==
  ASSUME TypeOK
  PROVE  /\ Consumed \in Seq(Nat)
         /\ Len(Consumed) = Len(received) + Len(result)
         /\ Len(Consumed) \in Nat
BY DEF TypeOK, Consumed

-----------------------------------------------------------------------------
(* The invariant holds of a fresh pipe. *)
THEOREM InitInv == Init => IInv
<1> SUFFICES ASSUME Init PROVE IInv
  OBVIOUS
<1> USE CapacityAssumption
<1>1. Consumed = <<>> /\ Len(Consumed) = 0
  BY DEF Init, Consumed
<1>2. TypeOK
  <2>1. read_pos \in Slots /\ write_pos \in Slots /\ available \in 0 .. Capacity
    BY DEF Init, Slots
  <2>2. buffer \in [Slots -> Nat]
    BY DEF Init
  <2>3. <<>> \in Seq(Nat)
    OBVIOUS
  <2> QED
    BY <2>1, <2>2, <2>3 DEF Init, TypeOK, WriterLabels, ReaderLabels, CloserLabels
<1>3. Held = 0 /\ RingHolds
  <2>1. length = 0 /\ offset = 0 /\ read_pos = 0 /\ write_pos = 0
    BY DEF Init
  <2>2. Len(Consumed) = 0
    BY <1>1
  <2>3. Held = 0
    BY <2>1, <2>2 DEF Held
  <2>4. RingSlot(0, 0) = 0
    BY DEF RingSlot
  <2> QED
    BY <2>1, <2>3, <2>4 DEF RingHolds
<1>4. InOrder
  BY <1>1 DEF InOrder, StreamOf
<1>5. CountLags /\ WriterKnows /\ ReaderKnows /\ OneAtATime
  BY <1>3 DEF Init, CountLags, WriterKnows, ReaderKnows, OneAtATime, UnbrokenW, UnbrokenR
<1>6. NoLostWakeup /\ EndKnown
  BY DEF Init, NoLostWakeup, EndKnown, EndIsComplete, Committed
<1> QED
  BY <1>2, <1>3, <1>4, <1>5, <1>6 DEF IInv

(***************************************************************************)
(* The steps of the writer.  Those that touch neither the ring nor its     *)
(* locals come first, then the ones with arithmetic, each on its own.      *)
(***************************************************************************)

(* Leaving write() or going round its loop moves no byte. *)
LEMMA WriteLoopFacts ==
  ASSUME TypeOK, wpc \in {"recheck", "reclear"}, WriteLoop, UNCHANGED <<wlength, received, result>>
  PROVE  /\ Held' = Held /\ Committed' = Committed
         /\ wpc' = "full" \/ wpc' = "idle"
         /\ length' \in Nat /\ offset' \in 0 .. wlength
         /\ wpc' = "full" => offset' < wlength
         /\ wpc' = "idle" => offset' = 0
<1>1. Consumed' = Consumed /\ Len(Consumed) \in Nat
  BY ConsumedType DEF Consumed
<1>2. length \in Nat /\ wlength \in Nat /\ offset \in 0 .. wlength
  BY DEF TypeOK
<1>3. \/ length' = length /\ offset' = offset
      \/ length' = length + offset /\ offset' = 0
  BY <1>2 DEF WriteLoop
<1>4. Held' = Held
  BY <1>1, <1>2, <1>3 DEF Held
<1>5. wpc' = "full" \/ wpc' = "idle"
  BY DEF WriteLoop
<1>6. Committed' = Committed
  BY <1>2, <1>3, <1>5 DEF Committed, WriteLoop
<1> QED
  BY <1>2, <1>4, <1>5, <1>6 DEF WriteLoop

LEMMA WSpaceInv == ASSUME GIL, IInv, WSpace PROVE IInv'
<1> USE CapacityAssumption DEF IInv, ring, events, reader, history
<1>1. Consumed' = Consumed /\ Held' = Held /\ Committed' = Committed
  BY DEF WSpace, Consumed, Held, Committed
<1>2. /\ wlength \in Nat /\ offset \in 0 .. wlength /\ available \in 0 .. Capacity
      /\ offset < wlength /\ available < Capacity
  BY DEF WSpace, TypeOK, WriterKnows
<1>3. chunk_size' \in 1 .. Capacity /\ available + chunk_size' <= Capacity
      /\ offset + chunk_size' <= wlength
  <2>1. chunk_size' = Lesser(Capacity - available, wlength - offset)
    BY DEF WSpace
  <2> QED
    BY <1>2, <2>1 DEF Lesser
<1>4. TypeOK' /\ WriterKnows'
  BY <1>3 DEF WSpace, TypeOK, WriterKnows, WriterLabels
<1>5. RingHolds'
  BY <1>1 DEF WSpace, RingHolds
<1>6. CountLags'
  BY <1>1 DEF WSpace, CountLags
<1>7. ReaderKnows' /\ OneAtATime' /\ InOrder'
  BY <1>1 DEF WSpace, ReaderKnows, OneAtATime, InOrder, UnbrokenW
<1>8. NoLostWakeup' /\ EndKnown'
  BY <1>1 DEF WSpace, NoLostWakeup, EndKnown, EndIsComplete
<1> QED
  BY <1>4, <1>5, <1>6, <1>7, <1>8

LEMMA WCopyInv == ASSUME GIL, IInv, WCopy PROVE IInv'
<1> USE CapacityAssumption DEF IInv, ring, events, reader, history
<1>1. Consumed' = Consumed /\ Len(Consumed) \in Nat
  BY ConsumedType DEF WCopy, Consumed
<1>2. /\ length \in Nat /\ wlength \in Nat /\ offset \in 0 .. wlength
      /\ available \in 0 .. Capacity /\ chunk_size \in 1 .. Capacity
      /\ available + chunk_size <= Capacity /\ offset + chunk_size <= wlength
      /\ to_read \in 0 .. Capacity
      /\ buffer \in [Slots -> Nat] /\ read_pos \in Slots /\ write_pos \in Slots
  BY DEF WCopy, TypeOK, WriterKnows
<1>3. /\ wpc = "copy" /\ wpc' = "load" /\ UNCHANGED <<read_pos, length, chunk_size, available, rpc, to_read>>
      /\ offset' = offset + chunk_size
      /\ write_pos' = Advanced(write_pos, chunk_size)
      /\ buffer' = [s \in Slots |-> IF RingIndex(write_pos, s) < chunk_size
                                    THEN length + offset + RingIndex(write_pos, s) + 1
                                    ELSE buffer[s]]
  BY DEF WCopy
<1>4. Held \in 0 .. Capacity /\ write_pos = RingSlot(read_pos, Held) /\ Held = length + offset - Len(Consumed)
  BY DEF RingHolds, Held
<1>5. Held + chunk_size <= Capacity
  BY <1>2, <1>3, <1>4 DEF CountLags
<1>6. Held' = Held + chunk_size
  BY <1>1, <1>2, <1>3, <1>4 DEF Held
<1>7. Committed' = Committed
  BY <1>2, <1>3 DEF Committed
<1>8. write_pos' = RingSlot(read_pos, Held + chunk_size) /\ write_pos' \in Slots
  BY <1>2, <1>3, <1>4, <1>5, AdvancedIsSlot, SlotsAdd
<1>9. buffer' \in [Slots -> Nat]
  <2>1. \A s \in Slots : RingIndex(write_pos, s) \in Nat
    BY <1>2 DEF RingIndex, Slots
  <2>2. ASSUME NEW s \in Slots
        PROVE  (IF RingIndex(write_pos, s) < chunk_size
                THEN length + offset + RingIndex(write_pos, s) + 1 ELSE buffer[s]) \in Nat
    BY <2>1, <1>2
  <2> QED
    BY <2>2, <1>3
<1>10. ASSUME NEW i \in 0 .. Held + chunk_size - 1
       PROVE  buffer'[RingSlot(read_pos, i)] = Len(Consumed) + i + 1
  <2>1. i \in 0 .. Capacity - 1 /\ RingSlot(read_pos, i) \in Slots
    <3>1. i \in 0 .. Capacity - 1
      BY <1>2, <1>4, <1>5
    <3> QED
      BY <1>2, <3>1, AdvancedIsSlot
  <2>2. RingIndex(write_pos, RingSlot(read_pos, i))
          = IF i >= Held THEN i - Held ELSE (Capacity - Held) + i
    BY <1>2, <1>4, <2>1, SlotIndex
  <2>3. CASE i >= Held
    BY <1>1, <1>2, <1>3, <1>4, <2>1, <2>2, <2>3
  <2>4. CASE i < Held
    <3>1. ~(RingIndex(write_pos, RingSlot(read_pos, i)) < chunk_size)
      BY <1>2, <1>4, <1>5, <2>2, <2>4
    <3>2. buffer[RingSlot(read_pos, i)] = Len(Consumed) + i + 1
      BY <1>4, <2>4 DEF RingHolds
    <3> QED
      BY <1>3, <2>1, <3>1, <3>2
  <2> QED
    BY <1>4, <2>3, <2>4
<1>11. RingHolds'
  BY <1>1, <1>2, <1>3, <1>4, <1>5, <1>6, <1>8, <1>10 DEF RingHolds
<1>12. CountLags'
  BY <1>2, <1>3, <1>4, <1>6 DEF CountLags
<1>13. TypeOK'
  BY <1>2, <1>8, <1>9 DEF WCopy, TypeOK, WriterLabels
<1>14. WriterKnows' /\ ReaderKnows' /\ OneAtATime'
  BY DEF WCopy, WriterRuns, WriterKnows, ReaderKnows, OneAtATime
<1>15. InOrder' /\ NoLostWakeup' /\ EndKnown'
  BY <1>1, <1>7 DEF WCopy, InOrder, NoLostWakeup, EndKnown, EndIsComplete
<1> QED
  BY <1>11, <1>12, <1>13, <1>14, <1>15

LEMMA WRecheckInv == ASSUME GIL, IInv, WRecheck \/ WReclear PROVE IInv'
<1> USE CapacityAssumption DEF IInv, ring, events, reader, history
<1>1. Consumed' = Consumed
  BY DEF WRecheck, WReclear, Consumed
<1>2. /\ Held' = Held /\ Committed' = Committed
      /\ wpc' \in {"full", "idle", "reclear"}
      /\ length' \in Nat /\ offset' \in 0 .. wlength
      /\ wpc' = "full" => offset' < wlength
      /\ wpc' = "idle" => offset' = 0
  <2>1. CASE wpc' = "reclear" /\ wpc = "recheck" /\ UNCHANGED <<offset, length>>
    BY <1>1, <2>1 DEF Held, Committed, TypeOK
  <2>2. CASE WriteLoop
    BY <2>2, WriteLoopFacts DEF WRecheck, WReclear
  <2> QED
    BY <2>1, <2>2 DEF WRecheck, WReclear
<1>3. /\ wpc \in {"recheck", "reclear"}
      /\ UNCHANGED <<buffer, read_pos, write_pos, available, data_available, eof, wlength, chunk_size,
                     wtmp, rpc, rsize, result, to_read, rtmp, cpc, received, ended, sealed>>
      /\ write_ready' = FALSE \/ write_ready' = write_ready
  BY DEF WRecheck, WReclear
<1>4. TypeOK'
  BY <1>2, <1>3 DEF TypeOK, WriterLabels
<1>5. RingHolds'
  BY <1>1, <1>2, <1>3 DEF RingHolds
<1>6. CountLags'
  BY <1>2, <1>3 DEF CountLags
<1>7. WriterKnows' /\ ReaderKnows' /\ OneAtATime'
  BY <1>2, <1>3 DEF WriterKnows, ReaderKnows, OneAtATime, UnbrokenW
<1>8. NoLostWakeup'
  BY <1>2, <1>3 DEF NoLostWakeup
<1>9. InOrder' /\ EndKnown'
  BY <1>1, <1>2, <1>3 DEF InOrder, EndKnown, EndIsComplete
<1> QED
  BY <1>4, <1>5, <1>6, <1>7, <1>8, <1>9

(* Every step of the writer keeps the invariant. *)
LEMMA WriterInv ==
  ASSUME GIL, IInv, (\E n \in WriteSizes : BeginWrite(n)) \/ BeginFlush \/ WriterStep
  PROVE  IInv'
<1> USE CapacityAssumption
    DEF IInv, WriterRuns, ring, events, reader, history,
        TypeOK, RingHolds, CountLags, WriterKnows, ReaderKnows, OneAtATime,
        NoLostWakeup, EndKnown, EndIsComplete, Held, Committed,
        UnbrokenW, UnbrokenR, WriterLabels
<1>1. Consumed' = Consumed
  BY DEF BeginWrite, BeginFlush, WriterStep, WFull, WWait, WClear, WSpace, WCopy, WLoad, WStore,
     WSignal, WRecheck, WReclear, WFlush, WFlushTest, WFlushSet, Consumed
<1>2. Len(Consumed) \in Nat
  BY ConsumedType
<1>3. InOrder'
  BY <1>1 DEF InOrder
<1>4. CASE \E n \in WriteSizes : BeginWrite(n)
  BY <1>1, <1>2, <1>3, <1>4, WriteSizesAssumption DEF BeginWrite
<1>5. CASE BeginFlush
  BY <1>1, <1>2, <1>3, <1>5 DEF BeginFlush
<1>6. CASE WFull
  BY <1>1, <1>2, <1>3, <1>6 DEF WFull
<1>7. CASE WWait
  BY <1>1, <1>2, <1>3, <1>7 DEF WWait
<1>8. CASE WClear
  BY <1>1, <1>2, <1>3, <1>8 DEF WClear
<1>9. CASE WSpace
  BY <1>9, WSpaceInv
<1>10. CASE WCopy
  BY <1>10, WCopyInv
<1>11. CASE WLoad
  BY <1>1, <1>2, <1>3, <1>11 DEF WLoad
<1>12. CASE WStore
  BY <1>1, <1>2, <1>3, <1>12 DEF WStore
<1>13. CASE WSignal
  BY <1>1, <1>2, <1>3, <1>13 DEF WSignal
<1>14. CASE WRecheck \/ WReclear
  BY <1>14, WRecheckInv
<1>15. CASE WFlush
  BY <1>1, <1>2, <1>3, <1>15 DEF WFlush
<1>16. CASE WFlushTest
  BY <1>1, <1>2, <1>3, <1>16 DEF WFlushTest
<1>17. CASE WFlushSet
  BY <1>1, <1>2, <1>3, <1>17 DEF WFlushSet
<1> HIDE DEF IInv
<1> QED
  BY ONLY (\E n \in WriteSizes : BeginWrite(n)) \/ BeginFlush \/ WriterStep,
     <1>4, <1>5, <1>6, <1>7, <1>8, <1>9, <1>10, <1>11, <1>12, <1>13, <1>14, <1>15, <1>16, <1>17 DEF WriterStep

(***************************************************************************)
(* The steps of the reader.                                                *)
(***************************************************************************)

(* Handing the result over moves no byte. *)
LEMMA ReturnReadFacts ==
  ASSUME TypeOK, ReturnRead
  PROVE  /\ Consumed' = Consumed /\ received' \in Seq(Nat) /\ result' = <<>>
         /\ Len(received') = Len(Consumed)
<1>1. Consumed \in Seq(Nat)
  BY ConsumedType
<1>2. received' = Consumed /\ result' = <<>>
  BY DEF ReturnRead
<1>3. Consumed' = Consumed \o <<>>
  BY <1>2 DEF Consumed
<1>4. Consumed \o <<>> = Consumed
  BY <1>1
<1> QED
  BY <1>1, <1>2, <1>3, <1>4

LEMMA RTakeInv == ASSUME GIL, IInv, RTake PROVE IInv'
<1> USE CapacityAssumption DEF IInv, ring, events, writer, history
<1>1. Consumed' = Consumed /\ Held' = Held /\ Committed' = Committed
  BY DEF RTake, Consumed, Held, Committed
<1>2. /\ rsize \in Int /\ rsize # 0 /\ available \in 1 .. Capacity /\ Len(result) \in Nat
      /\ to_read \in 0 .. Capacity /\ rpc = "take"
  BY DEF RTake, TypeOK, ReaderKnows
<1>3. /\ to_read' \in 0 .. Capacity
      /\ rpc' = "copy" => to_read' > 0 /\ to_read' <= available
      /\ rpc' = "settle" => result # <<>>
      /\ rpc' \in {"copy", "settle"}
  <2>1. CASE rsize > 0 /\ rsize <= Len(result)
    <3>1. rpc' = "settle" /\ to_read' = to_read
      BY <2>1 DEF RTake
    <3>2. result # <<>>
      BY <1>2, <2>1
    <3> QED
      BY <1>2, <3>1, <3>2
  <2>2. CASE ~(rsize > 0 /\ rsize <= Len(result))
    <3>1. rpc' = "copy" /\ to_read' = IF rsize < 0 THEN available
                                     ELSE Lesser(rsize - Len(result), available)
      BY <2>2 DEF RTake
    <3>2. to_read' \in 1 .. Capacity /\ to_read' <= available
      BY <1>2, <2>2, <3>1 DEF Lesser
    <3> QED
      BY <3>1, <3>2
  <2> QED
    BY <2>1, <2>2
<1>4. TypeOK'
  BY <1>3 DEF RTake, TypeOK, ReaderLabels
<1>5. RingHolds'
  BY <1>1 DEF RTake, RingHolds
<1>6. CountLags'
  BY <1>1, <1>2, <1>3 DEF RTake, CountLags
<1>7. WriterKnows' /\ ReaderKnows' /\ OneAtATime'
  BY <1>2, <1>3 DEF RTake, WriterKnows, ReaderKnows, OneAtATime, UnbrokenR
<1>8. InOrder' /\ NoLostWakeup' /\ EndKnown'
  BY <1>1, <1>2, <1>3 DEF RTake, InOrder, NoLostWakeup, EndKnown, EndIsComplete
<1> QED
  BY <1>4, <1>5, <1>6, <1>7, <1>8

(* A sequence t extended by a function f on 1 .. n, its length and elements. *)
LEMMA Extension ==
  ASSUME NEW t \in Seq(Nat), NEW n \in Nat, NEW f \in [1 .. n -> Nat]
  PROVE  /\ t \o f \in Seq(Nat) /\ Len(t) \in Nat
         /\ Len(t \o f) = Len(t) + n
         /\ \A k \in 1 .. Len(t) : (t \o f)[k] = t[k]
         /\ \A k \in 1 .. n : (t \o f)[Len(t) + k] = f[k]
<1>1. f \in Seq(Nat) /\ Len(f) = n /\ Len(t) \in Nat
  OBVIOUS
<1>2. /\ t \o f \in Seq(Nat)
      /\ Len(t \o f) = Len(t) + n
      /\ \A k \in 1 .. Len(t) + n : (t \o f)[k] = IF k <= Len(t) THEN t[k] ELSE f[k - Len(t)]
  BY <1>1, ConcatProperties
<1>3. \A k \in 1 .. Len(t) : (t \o f)[k] = t[k]
  BY <1>1, <1>2
<1>4. ASSUME NEW k \in 1 .. n PROVE (t \o f)[Len(t) + k] = f[k]
  <2>1. Len(t) + k \in 1 .. Len(t) + n /\ ~(Len(t) + k <= Len(t)) /\ (Len(t) + k) - Len(t) = k
    BY <1>1
  <2> QED
    BY <1>2, <2>1
<1> QED
  BY <1>1, <1>2, <1>3, <1>4

LEMMA RCopyInv == ASSUME GIL, IInv, RCopy PROVE IInv'
<1> USE CapacityAssumption DEF IInv, ring, events, writer, history
<1> DEFINE c == Len(Consumed)
           f == [i \in 1 .. to_read |-> buffer[RingSlot(read_pos, i - 1)]]
<1>1. /\ length \in Nat /\ offset \in Nat /\ chunk_size \in Nat /\ to_read \in 1 .. Capacity
      /\ available \in 0 .. Capacity /\ to_read <= available /\ rpc = "copy"
      /\ buffer \in [Slots -> Nat] /\ read_pos \in Slots /\ c \in Nat
  BY ConsumedType DEF RCopy, TypeOK, ReaderKnows
<1>2. /\ rpc' = "load" /\ received' = received /\ result' = result \o f
      /\ read_pos' = Advanced(read_pos, to_read)
      /\ UNCHANGED <<buffer, write_pos, available, length, offset, wpc, chunk_size, to_read>>
  BY DEF RCopy
<1>3. Held \in 0 .. Capacity /\ write_pos = RingSlot(read_pos, Held) /\ Held = length + offset - c
  BY DEF RingHolds, Held
<1>4. to_read <= Held
  BY <1>1, <1>3 DEF CountLags
<1>5. \A i \in 1 .. to_read : f[i] = c + i
  <2> SUFFICES ASSUME NEW i \in 1 .. to_read PROVE buffer[RingSlot(read_pos, i - 1)] = c + i
    OBVIOUS
  <2>1. i - 1 \in 0 .. Held - 1 /\ c + (i - 1) + 1 = c + i
    BY <1>1, <1>3, <1>4
  <2> QED
    BY <2>1 DEF RingHolds
<1>6. f \in [1 .. to_read -> Nat]
  BY <1>1, <1>5
<1> HIDE DEF f
<1>7. /\ Consumed' \in Seq(Nat) /\ result' \in Seq(Nat)
      /\ Len(Consumed') = c + to_read
      /\ \A k \in 1 .. c : Consumed'[k] = Consumed[k]
      /\ \A k \in 1 .. to_read : Consumed'[c + k] = f[k]
      /\ Len(result') = Len(result) + to_read /\ Len(result) \in Nat
  <2>1. result \in Seq(Nat) /\ received \in Seq(Nat) /\ to_read \in Nat
    BY <1>1 DEF TypeOK
  <2>2. /\ result \o f \in Seq(Nat) /\ Len(result) \in Nat
        /\ Len(result \o f) = Len(result) + to_read
    BY <1>6, <2>1, Extension
  <2>3. f \in Seq(Nat)
    BY <1>6, <2>1
  <2>4. Consumed' = Consumed \o f
    BY <1>2, <2>1, <2>3, ConcatAssociative DEF Consumed
  <2>5. /\ Consumed \o f \in Seq(Nat)
        /\ Len(Consumed \o f) = c + to_read
        /\ \A k \in 1 .. c : (Consumed \o f)[k] = Consumed[k]
        /\ \A k \in 1 .. to_read : (Consumed \o f)[c + k] = f[k]
    <3>1. Consumed \in Seq(Nat)
      BY ConsumedType
    <3> QED
      BY <1>6, <2>1, <3>1, Extension
  <2> QED
    BY <1>2, <2>2, <2>4, <2>5
<1>8. Held' = Held - to_read /\ Held' \in 0 .. Capacity /\ Committed' = Committed
  BY <1>1, <1>2, <1>3, <1>4, <1>7 DEF Held, Committed
<1>9. read_pos' = RingSlot(read_pos, to_read) /\ read_pos' \in Slots
  BY <1>1, <1>2, AdvancedIsSlot
<1>10. RingHolds'
  <2>1. write_pos' = RingSlot(read_pos', Held')
    BY <1>1, <1>2, <1>3, <1>4, <1>8, <1>9, SlotsAdd
  <2>2. ASSUME NEW i \in 0 .. Held' - 1
        PROVE  buffer'[RingSlot(read_pos', i)] = Len(Consumed)' + i + 1
    <3>1. to_read + i \in 0 .. Held - 1
      BY <1>1, <1>3, <1>4, <1>8
    <3>2. RingSlot(read_pos', i) = RingSlot(read_pos, to_read + i)
      BY <1>1, <1>3, <1>9, <3>1, SlotsAdd
    <3>3. buffer[RingSlot(read_pos, to_read + i)] = c + (to_read + i) + 1
      BY <3>1 DEF RingHolds
    <3> QED
      BY <1>1, <1>2, <1>7, <3>1, <3>2, <3>3
  <2> QED
    BY <1>8, <2>1, <2>2 DEF RingHolds
<1>11. InOrder'
  <2>1. Consumed = StreamOf(c)
    BY DEF InOrder
  <2>2. \A k \in 1 .. c : Consumed[k] = k
    BY <2>1 DEF StreamOf
  <2>3. ASSUME NEW k \in 1 .. c + to_read PROVE Consumed'[k] = k
    <3>1. CASE k <= c
      <4>1. k \in 1 .. c
        BY <1>1, <3>1
      <4> QED
        BY <1>7, <2>2, <4>1
    <3>2. CASE k > c
      <4>1. k - c \in 1 .. to_read /\ c + (k - c) = k
        BY <1>1, <3>2
      <4> QED
        BY <1>5, <1>7, <4>1
    <3> QED
      BY <1>1, <3>1, <3>2
  <2>4. Consumed' = [k \in 1 .. c + to_read |-> k]
    BY <1>1, <1>7, <2>3
  <2> QED
    BY <1>7, <2>4 DEF InOrder, StreamOf
<1>12. CountLags'
  BY <1>1, <1>2, <1>3, <1>8 DEF CountLags
<1>13. TypeOK'
  BY <1>7, <1>9 DEF RCopy, TypeOK, ReaderLabels
<1>14. result' # <<>>
  <2>1. Len(result') > 0
    BY <1>1, <1>7
  <2> QED
    BY <2>1
<1>15. WriterKnows' /\ ReaderKnows' /\ OneAtATime'
  BY <1>1, <1>2, <1>14 DEF RCopy, ReaderRuns, WriterKnows, ReaderKnows, OneAtATime
<1>16. NoLostWakeup' /\ EndKnown'
  <2>1. NoLostWakeup'
    BY DEF RCopy, NoLostWakeup
  <2>2. eof' = eof /\ sealed' = sealed /\ ended' = ended /\ received' = received
    BY DEF RCopy
  <2> QED
    BY <1>2, <1>8, <2>1, <2>2 DEF EndKnown, EndIsComplete
<1> QED
  BY <1>10, <1>11, <1>12, <1>13, <1>15, <1>16

LEMMA RReturnInv == ASSUME GIL, IInv, RSettle \/ RResignal PROVE IInv'
<1> USE CapacityAssumption DEF IInv, ring, events, writer, history
<1>1. CASE rpc' = "resignal" /\ RSettle
  <2>1. Consumed' = Consumed /\ Held' = Held /\ Committed' = Committed
    BY <1>1 DEF RSettle, ReturnRead, Consumed, Held, Committed
  <2>2. TypeOK' /\ RingHolds' /\ CountLags' /\ InOrder'
    BY <1>1, <2>1 DEF RSettle, ReturnRead, TypeOK, RingHolds, CountLags, InOrder, ReaderLabels
  <2>3. WriterKnows' /\ ReaderKnows' /\ OneAtATime'
    BY <1>1 DEF RSettle, ReturnRead, WriterKnows, ReaderKnows, OneAtATime, UnbrokenR
  <2>4. NoLostWakeup' /\ EndKnown'
    BY <1>1, <2>1 DEF RSettle, ReturnRead, NoLostWakeup, EndKnown, EndIsComplete
  <2> QED
    BY <2>2, <2>3, <2>4
<1>2. CASE ReturnRead
  <2>1. Consumed' = Consumed /\ received' \in Seq(Nat) /\ result' = <<>> /\ Len(received') = Len(Consumed)
    BY <1>2, ReturnReadFacts
  <2>2. /\ rpc \in {"settle", "resignal"} /\ rpc' = "idle"
        /\ ended' = (ended \/ result = <<>>)
        /\ data_available' = TRUE \/ data_available' = data_available
        /\ UNCHANGED <<ring, write_ready, eof, writer, rsize, to_read, rtmp, cpc, sealed>>
    BY <1>2 DEF ReturnRead, RSettle, RResignal
  <2>3. Held' = Held /\ Committed' = Committed
    BY <2>1, <2>2 DEF Held, Committed
  <2>4. <<>> \in Seq(Nat)
    OBVIOUS
  <2>5. TypeOK'
    BY <2>1, <2>2, <2>4 DEF TypeOK, ReaderLabels
  <2>6. RingHolds' /\ CountLags' /\ InOrder'
    BY <2>1, <2>2, <2>3 DEF RingHolds, CountLags, InOrder
  <2>7. WriterKnows' /\ ReaderKnows' /\ OneAtATime' /\ NoLostWakeup'
    BY <2>1, <2>2 DEF WriterKnows, ReaderKnows, OneAtATime, NoLostWakeup, UnbrokenR
  <2>8. EndKnown'
    <3>1. ended => eof /\ Len(received) >= sealed
      BY DEF EndKnown, EndIsComplete
    <3>2. Len(received') >= Len(received) /\ Len(received) \in Nat /\ sealed \in Nat /\ Len(received') \in Nat
      BY <2>1, ConsumedType DEF TypeOK
    <3>3. EndIsComplete'
      <4>1. CASE ended
        BY <2>2, <3>1, <3>2, <4>1 DEF EndIsComplete
      <4>2. CASE ~ended
        <5>1. ended' => result = <<>>
          BY <2>2, <4>2
        <5>2. result = <<>> => eof /\ Len(Consumed) >= sealed
          BY <2>2 DEF EndKnown
        <5> QED
          BY <2>1, <2>2, <5>1, <5>2 DEF EndIsComplete
      <4> QED
        BY <4>1, <4>2
    <3> QED
      BY <2>1, <2>2, <2>3, <3>3 DEF EndKnown
  <2> QED
    BY <2>5, <2>6, <2>7, <2>8
<1> QED
  BY <1>1, <1>2 DEF RSettle, RResignal

(* A drained ring has been handed out to the last committed byte. *)
LEMMA REofInv == ASSUME GIL, IInv, REof PROVE IInv'
<1> USE CapacityAssumption DEF IInv, ring, events, writer, history
<1>1. Consumed' = Consumed /\ Held' = Held /\ Committed' = Committed
  BY DEF REof, Consumed, Held, Committed
<1>2. available = 0 /\ rpc = "eof" /\ (rpc' = "settle" => eof \/ result # <<>>)
      /\ (rpc' = "wait" => ~eof) /\ rpc' \in {"settle", "wait"}
  BY DEF REof, ReaderKnows
<1>3. Len(Consumed) = Committed
  <2>1. length \in Nat /\ offset \in Nat /\ chunk_size \in Nat /\ Len(Consumed) \in Nat
    BY ConsumedType DEF TypeOK
  <2> QED
    BY <1>2, <2>1 DEF CountLags, Held, Committed
<1>4. TypeOK' /\ RingHolds' /\ CountLags' /\ InOrder'
  BY <1>1, <1>2 DEF REof, TypeOK, RingHolds, CountLags, InOrder, ReaderLabels
<1>5. WriterKnows' /\ ReaderKnows' /\ OneAtATime'
  BY <1>2 DEF REof, WriterKnows, ReaderKnows, OneAtATime, UnbrokenR
<1>6. NoLostWakeup'
  BY <1>2 DEF REof, NoLostWakeup
<1>7. EndKnown'
  BY <1>1, <1>2, <1>3 DEF REof, EndKnown, EndIsComplete, TypeOK
<1> QED
  BY <1>4, <1>5, <1>6, <1>7

(* Every step of the reader keeps the invariant. *)
LEMMA ReaderInv ==
  ASSUME GIL, IInv, (\E size \in ReadSizes : BeginRead(size)) \/ ReaderStep
  PROVE  IInv'
<1> USE CapacityAssumption
    DEF IInv, ReaderRuns, ring, events, writer, history,
        TypeOK, RingHolds, CountLags, WriterKnows, ReaderKnows, OneAtATime,
        NoLostWakeup, EndKnown, EndIsComplete, Held, Committed,
        UnbrokenW, UnbrokenR, ReaderLabels, AfterTake, InOrder
<1>1. Len(Consumed) \in Nat
  BY ConsumedType
<1>2. CASE \E size \in ReadSizes : BeginRead(size)
  <2>1. Consumed' = Consumed
    BY <1>2 DEF BeginRead, Consumed
  <2> QED
    BY <1>1, <1>2, <2>1, ReadSizesAssumption DEF BeginRead
<1>3. CASE REmpty
  <2>1. Consumed' = Consumed
    BY <1>3 DEF REmpty, Consumed
  <2> QED
    BY <1>1, <1>3, <2>1 DEF REmpty
<1>4. CASE REof
  BY <1>4, REofInv
<1>5. CASE RWait
  <2>1. Consumed' = Consumed
    BY <1>5 DEF RWait, Consumed
  <2> QED
    BY <1>1, <1>5, <2>1 DEF RWait
<1>6. CASE RTake
  BY <1>6, RTakeInv
<1>7. CASE RCopy
  BY <1>7, RCopyInv
<1>8. CASE RLoad
  <2>1. Consumed' = Consumed
    BY <1>8 DEF RLoad, Consumed
  <2> QED
    BY <1>1, <1>8, <2>1 DEF RLoad
<1>9. CASE RStore
  <2>1. Consumed' = Consumed
    BY <1>9 DEF RStore, Consumed
  <2> QED
    BY <1>1, <1>9, <2>1 DEF RStore
<1>10. CASE RNotify
  <2>1. Consumed' = Consumed
    BY <1>10 DEF RNotify, Consumed
  <2> QED
    BY <1>1, <1>10, <2>1 DEF RNotify
<1>11. CASE RDrained
  <2>1. Consumed' = Consumed
    BY <1>11 DEF RDrained, Consumed
  <2> QED
    BY <1>1, <1>11, <2>1 DEF RDrained
<1>12. CASE RClear
  <2>1. Consumed' = Consumed
    BY <1>12 DEF RClear, Consumed
  <2> QED
    BY <1>1, <1>12, <2>1 DEF RClear
<1>13. CASE RSettle \/ RResignal
  BY <1>13, RReturnInv
<1> HIDE DEF IInv
<1> QED
  BY ONLY (\E size \in ReadSizes : BeginRead(size)) \/ ReaderStep,
     <1>2, <1>3, <1>4, <1>5, <1>6, <1>7, <1>8, <1>9, <1>10, <1>11, <1>12, <1>13 DEF ReaderStep

-----------------------------------------------------------------------------
(* Every step of close() keeps the invariant. *)
LEMMA CloserInv == ASSUME GIL, IInv, BeginClose \/ CloserStep PROVE IInv'
<1> USE CapacityAssumption DEF IInv, ring, events, reader, writer
<1>1. Consumed' = Consumed /\ Held' = Held /\ Committed' = Committed /\ Committed \in Nat
  <2>1. Consumed' = Consumed /\ Held' = Held /\ Committed' = Committed
    BY DEF BeginClose, CloserStep, CData, CReady, Consumed, Held, Committed, history
  <2>2. length \in Nat /\ offset \in Nat /\ chunk_size \in Nat /\ available \in Nat
        /\ to_read \in Nat /\ Len(Consumed) \in Nat
    BY ConsumedType DEF TypeOK
  <2>3. available = Held - (IF wpc \in {"load", "store"} THEN chunk_size ELSE 0)
                        + (IF rpc \in {"load", "store"} THEN to_read ELSE 0)
        /\ (rpc \in {"load", "store"} => to_read <= available)
    BY DEF CountLags, ReaderKnows
  <2>4. Committed \in Nat
    BY <2>2, <2>3 DEF Committed, Held
  <2> QED
    BY <2>1, <2>4
<1>2. /\ UNCHANGED <<ring, reader, writer, received, ended>>
      /\ \/ /\ eof' = TRUE /\ cpc' = "data" /\ UNCHANGED events
            /\ sealed' = (IF eof THEN sealed ELSE Committed)
         \/ /\ eof' = eof /\ sealed' = sealed /\ cpc = "data" /\ cpc' = "ready"
            /\ data_available' = TRUE /\ write_ready' = write_ready
         \/ /\ eof' = eof /\ sealed' = sealed /\ cpc = "ready" /\ cpc' = "idle"
            /\ write_ready' = TRUE /\ data_available' = data_available
  <2>1. CASE BeginClose
    BY <2>1 DEF BeginClose
  <2>2. CASE CData
    BY <2>2 DEF CData, history
  <2>3. CASE CReady
    BY <2>3 DEF CReady, history
  <2> QED
    BY <2>1, <2>2, <2>3 DEF CloserStep
<1>3. TypeOK'
  BY <1>1, <1>2 DEF TypeOK, CloserLabels
<1>4. RingHolds' /\ CountLags' /\ InOrder'
  BY <1>1, <1>2 DEF RingHolds, CountLags, InOrder
<1>5. WriterKnows' /\ ReaderKnows' /\ OneAtATime'
  BY <1>2 DEF WriterKnows, ReaderKnows, OneAtATime
<1>6. NoLostWakeup'
  BY <1>2 DEF NoLostWakeup
<1>7. EndKnown'
  BY <1>1, <1>2 DEF EndKnown, EndIsComplete, TypeOK
<1> QED
  BY <1>3, <1>4, <1>5, <1>6, <1>7

(* Every step of the pipe keeps the invariant. *)
THEOREM NextInv == ASSUME GIL, IInv, [Next]_vars PROVE IInv'
<1>1. CASE (\E n \in WriteSizes : BeginWrite(n)) \/ BeginFlush \/ WriterStep
  BY <1>1, WriterInv
<1>2. CASE (\E size \in ReadSizes : BeginRead(size)) \/ ReaderStep
  BY <1>2, ReaderInv
<1>3. CASE BeginClose \/ CloserStep
  BY <1>3, CloserInv
<1>4. CASE UNCHANGED vars
  <2> USE <1>4 DEF vars, IInv
  <2>1. Consumed' = Consumed /\ Held' = Held /\ Committed' = Committed
    BY DEF Consumed, Held, Committed
  <2>2. TypeOK'
    BY DEF TypeOK
  <2>3. RingHolds' /\ CountLags' /\ InOrder'
    BY <2>1 DEF RingHolds, CountLags, InOrder
  <2>4. WriterKnows' /\ ReaderKnows' /\ OneAtATime' /\ NoLostWakeup'
    BY DEF WriterKnows, ReaderKnows, OneAtATime, NoLostWakeup
  <2>5. EndKnown'
    BY <2>1 DEF EndKnown, EndIsComplete
  <2> QED
    BY <2>2, <2>3, <2>4, <2>5
<1> QED
  BY <1>1, <1>2, <1>3, <1>4 DEF Next

(* With a GIL, every reachable state of the pipe satisfies the invariant. *)
THEOREM Invariance == ASSUME GIL PROVE Spec => []IInv
<1>1. Init => IInv
  BY InitInv
<1>2. IInv /\ [Next]_vars => IInv'
  BY NextInv
<1> QED
  BY <1>1, <1>2, PTL DEF Spec

(* Every field and local of the pipe keeps its type, and available stays   *)
(* between 0 and the capacity although both threads update it unlocked.    *)
THEOREM TypeCorrect == ASSUME GIL PROVE Spec => []TypeOK
<1>1. IInv => TypeOK
  BY DEF IInv
<1> QED
  BY <1>1, Invariance, PTL

(* The reader gets the bytes that were written, each once and in order,    *)
(* for every capacity and every interleaving of read(), write(), flush()   *)
(* and close().                                                            *)
THEOREM ReadsInOrder == ASSUME GIL PROVE Spec => []InOrder
<1>1. IInv => InOrder
  BY DEF IInv
<1> QED
  BY <1>1, Invariance, PTL

(* Neither thread of the pipe sleeps through what it waits for. *)
THEOREM WakeupsArrive == ASSUME GIL PROVE Spec => []NoLostWakeup
<1>1. IInv => NoLostWakeup
  BY DEF IInv
<1> QED
  BY <1>1, Invariance, PTL

(* read() reports the end of the stream only after all of it. *)
THEOREM EndAfterData == ASSUME GIL PROVE Spec => []EndIsComplete
<1>1. IInv => EndIsComplete
  BY DEF IInv, EndKnown
<1> QED
  BY <1>1, Invariance, PTL

-----------------------------------------------------------------------------
(***************************************************************************)
(* The pipe implements the bounded byte stream.                            *)
(***************************************************************************)
LEMMA StreamOfType ==
  ASSUME NEW n \in Nat
  PROVE  StreamOf(n) \in Seq(Nat) /\ Len(StreamOf(n)) = n /\ \A k \in 1 .. n : StreamOf(n)[k] = k
BY DEF StreamOf

(* Of two beginnings of the stream the shorter one is a prefix. *)
LEMMA StreamPrefix ==
  ASSUME NEW m \in Nat, NEW n \in Nat, m <= n
  PROVE  Stream!IsPrefix(StreamOf(m), StreamOf(n))
<1>1. Len(StreamOf(m)) = m /\ Len(StreamOf(n)) = n
  BY StreamOfType
<1>2. /\ SubSeq(StreamOf(m), 1, m) \in Seq(Nat) /\ Len(SubSeq(StreamOf(m), 1, m)) = m
      /\ \A k \in 1 .. m : SubSeq(StreamOf(m), 1, m)[k] = k
  BY StreamOfType
<1>3. /\ SubSeq(StreamOf(n), 1, m) \in Seq(Nat) /\ Len(SubSeq(StreamOf(n), 1, m)) = m
      /\ \A k \in 1 .. m : SubSeq(StreamOf(n), 1, m)[k] = k
  BY StreamOfType
<1>4. SubSeq(StreamOf(m), 1, m) = SubSeq(StreamOf(n), 1, m)
  BY <1>2, <1>3, SeqEqual
<1> QED
  BY <1>1, <1>4 DEF Stream!IsPrefix

LEMMA StreamStrictPrefix ==
  ASSUME NEW m \in Nat, NEW n \in Nat, m < n
  PROVE  Stream!IsStrictPrefix(StreamOf(m), StreamOf(n))
<1>1. StreamOf(m) # StreamOf(n)
  BY StreamOfType
<1> QED
  BY <1>1, StreamPrefix DEF Stream!IsStrictPrefix

(* How far the two sides are, and how far apart. *)
LEMMA Distance ==
  ASSUME IInv
  PROVE  /\ Committed \in Nat /\ Len(Consumed) \in Nat
         /\ Committed - Len(Consumed) <= Capacity
         /\ Consumed = StreamOf(Len(Consumed))
         /\ rpc \notin {"load", "store"} => Committed - Len(Consumed) = available
         /\ rpc \in {"load", "store"} => Committed - Len(Consumed) = available - to_read
<1>1. /\ length \in Nat /\ offset \in Nat /\ chunk_size \in Nat /\ available \in 0 .. Capacity
      /\ to_read \in Nat /\ Len(Consumed) \in Nat /\ Capacity \in Nat
  BY CapacityAssumption, ConsumedType DEF IInv, TypeOK
<1>2. available = Held - (IF wpc \in {"load", "store"} THEN chunk_size ELSE 0)
                       + (IF rpc \in {"load", "store"} THEN to_read ELSE 0)
  BY DEF IInv, CountLags
<1>3. rpc \in {"load", "store"} => to_read <= available
  BY DEF IInv, ReaderKnows
<1> QED
  BY <1>1, <1>2, <1>3 DEF Committed, Held, IInv, InOrder

LEMMA WriterRefines ==
  ASSUME GIL, IInv, (\E n \in WriteSizes : BeginWrite(n)) \/ BeginFlush \/ WriterStep
  PROVE  [Stream!Next]_(Stream!vars)
<1> USE DEF reader, history
<1>1. Consumed' = Consumed /\ UNCHANGED <<eof, sealed, ended>>
  BY DEF BeginWrite, BeginFlush, WriterStep, WFull, WWait, WClear, WSpace, WCopy, WLoad, WStore,
     WSignal, WRecheck, WReclear, WFlush, WFlushTest, WFlushSet, Consumed
<1>2. CASE WStore
  <2>1. Committed' = Committed + chunk_size /\ chunk_size \in Nat /\ chunk_size > 0
    BY <1>2 DEF WStore, Committed, IInv, TypeOK, WriterKnows
  <2>2. /\ Committed \in Nat /\ Committed' \in Nat /\ Len(Consumed) \in Nat
        /\ Committed' - Len(Consumed') <= Capacity
    <3>1. available + chunk_size <= Capacity /\ available \in Nat /\ to_read \in Nat /\ Capacity \in Nat
      BY <1>2, CapacityAssumption DEF WStore, IInv, TypeOK, WriterKnows
    <3>2. /\ Committed \in Nat /\ Len(Consumed) \in Nat
          /\ Committed - Len(Consumed) = available \/ Committed - Len(Consumed) = available - to_read
      BY Distance
    <3> QED
      BY <1>1, <2>1, <3>1, <3>2
  <2>3. Stream!IsStrictPrefix(StreamOf(Committed), StreamOf(Committed'))
    BY <2>1, <2>2, StreamStrictPrefix
  <2>4. Len(StreamOf(Committed')) - Len(Consumed) <= Capacity
    BY <1>1, <2>2, StreamOfType
  <2> QED
    BY <1>1, <2>3, <2>4 DEF Stream!Next, Stream!Put
<1>3. ASSUME ~WStore PROVE Committed' = Committed
  <2> USE DEF Committed, IInv, TypeOK
  <2>1. CASE \E n \in WriteSizes : BeginWrite(n)
    BY <2>1 DEF BeginWrite
  <2>2. CASE WRecheck \/ WReclear
    <3>1. CASE wpc' = "reclear"
      BY <2>2, <3>1 DEF WRecheck, WReclear, WriteLoop
    <3>2. CASE WriteLoop
      BY <2>2, <3>2, WriteLoopFacts DEF WRecheck, WReclear
    <3> QED
      BY <2>2, <3>1, <3>2 DEF WRecheck, WReclear
  <2>3. CASE WCopy
    BY <2>3 DEF WCopy
  <2>4. CASE BeginFlush \/ WFull \/ WWait \/ WClear \/ WSpace \/ WLoad \/ WSignal
    BY <2>4 DEF BeginFlush, WFull, WWait, WClear, WSpace, WLoad, WSignal
  <2>5. CASE WFlush \/ WFlushTest \/ WFlushSet
    BY <2>5 DEF WFlush, WFlushTest, WFlushSet
  <2> HIDE DEF Committed, IInv, TypeOK
  <2> QED
    BY <1>3, <2>1, <2>2, <2>3, <2>4, <2>5 DEF WriterStep
<1> QED
  BY <1>1, <1>2, <1>3 DEF Stream!vars

LEMMA ReaderRefines ==
  ASSUME GIL, IInv, IInv', (\E size \in ReadSizes : BeginRead(size)) \/ ReaderStep
  PROVE  [Stream!Next]_(Stream!vars)
<1> USE DEF writer, history
<1>1. Committed' = Committed /\ UNCHANGED <<eof, sealed>>
  BY DEF BeginRead, ReaderStep, REmpty, REof, RWait, RTake, RCopy, RLoad, RStore, RNotify,
     RDrained, RClear, RSettle, RResignal, Committed
<1>2. CASE RCopy
  <2>1. ended' = ended /\ Len(Consumed') = Len(Consumed) + to_read /\ to_read \in Nat /\ to_read > 0
    <3>1. to_read \in Nat /\ to_read > 0 /\ ended' = ended
      BY <1>2 DEF RCopy, IInv, TypeOK, ReaderKnows
    <3>2. Len(result') = Len(result) + to_read /\ received' = received
      BY <1>2, <3>1 DEF RCopy, IInv, TypeOK
    <3>3. Len(Consumed) = Len(received) + Len(result) /\ Len(received) \in Nat /\ Len(result) \in Nat
      <4>1. TypeOK /\ received \in Seq(Nat) /\ result \in Seq(Nat)
        BY DEF IInv, TypeOK
      <4> QED
        BY <4>1, ConsumedType
    <3>4. received' \in Seq(Nat) /\ result' \in Seq(Nat)
      BY DEF IInv, TypeOK
    <3>5. Len(Consumed') = Len(received') + Len(result')
      BY <3>4, ConcatProperties DEF Consumed
    <3> QED
      BY <3>1, <3>2, <3>3, <3>5
  <2>3. /\ Committed \in Nat /\ Len(Consumed) \in Nat /\ Len(Consumed') \in Nat
        /\ Consumed = StreamOf(Len(Consumed)) /\ Consumed' = StreamOf(Len(Consumed'))
        /\ Len(Consumed') <= Committed
    <3>1. available \in Nat /\ to_read <= available /\ rpc = "copy"
      BY <1>2 DEF RCopy, IInv, TypeOK, ReaderKnows
    <3>2. /\ Committed \in Nat /\ Len(Consumed) \in Nat /\ Committed - Len(Consumed) = available
          /\ Consumed = StreamOf(Len(Consumed))
      BY <3>1, Distance
    <3>3. Consumed' = StreamOf(Len(Consumed'))
      BY DEF IInv, InOrder
    <3> QED
      BY <2>1, <3>1, <3>2, <3>3
  <2>4. Stream!IsStrictPrefix(StreamOf(Len(Consumed)), StreamOf(Len(Consumed')))
    BY <2>1, <2>3, StreamStrictPrefix
  <2>5. Stream!IsPrefix(StreamOf(Len(Consumed')), StreamOf(Committed))
    BY <2>3, StreamPrefix
  <2> QED
    BY <1>1, <2>1, <2>3, <2>4, <2>5 DEF Stream!Next, Stream!Take
<1>3. CASE ReturnRead /\ (RSettle \/ RResignal)
  <2>1. Consumed' = Consumed
    BY <1>3, ReturnReadFacts DEF IInv
  <2>2. CASE result = <<>>
    <3>1. eof /\ Len(Consumed) >= sealed /\ ended' = TRUE
      BY <1>3, <2>2 DEF ReturnRead, RSettle, RResignal, IInv, EndKnown
    <3> QED
      BY <1>1, <2>1, <3>1 DEF Stream!Next, Stream!End
  <2>3. CASE result # <<>>
    <3>1. ended' = ended
      BY <1>3, <2>3 DEF ReturnRead, IInv, TypeOK
    <3> QED
      BY <1>1, <2>1, <3>1 DEF Stream!vars
  <2> QED
    BY <2>2, <2>3
<1>4. CASE UNCHANGED <<received, result, ended>>
  <2>1. Consumed' = Consumed
    BY <1>4 DEF Consumed
  <2> QED
    BY <1>1, <1>4, <2>1 DEF Stream!vars
<1>5. RCopy \/ (ReturnRead /\ (RSettle \/ RResignal)) \/ UNCHANGED <<received, result, ended>>
  BY DEF BeginRead, ReaderStep, REmpty, REof, RWait, RTake, RLoad, RStore, RNotify,
     RDrained, RClear, RSettle, RResignal
<1> QED
  BY <1>2, <1>3, <1>4, <1>5

LEMMA CloserRefines ==
  ASSUME GIL, IInv, BeginClose \/ CloserStep
  PROVE  [Stream!Next]_(Stream!vars)
<1> USE DEF writer, reader, history
<1>1. Committed' = Committed /\ Consumed' = Consumed /\ ended' = ended
  BY DEF BeginClose, CloserStep, CData, CReady, Committed, Consumed
<1>2. CASE BeginClose /\ ~eof
  <2>1. eof' = TRUE /\ sealed' = Committed
    BY <1>2 DEF BeginClose
  <2>2. Len(StreamOf(Committed)) = Committed
    BY Distance, StreamOfType
  <2> QED
    BY <1>1, <1>2, <2>1, <2>2 DEF Stream!Next, Stream!Close
<1>3. CASE ~(BeginClose /\ ~eof)
  <2>1. eof' = eof /\ sealed' = sealed
    BY <1>3 DEF BeginClose, CloserStep, CData, CReady, IInv, TypeOK
  <2> QED
    BY <1>1, <2>1 DEF Stream!vars
<1> QED
  BY <1>2, <1>3

(* For every capacity the ring with its two unlocked threads is a bounded  *)
(* FIFO stream of bytes: what write() has counted is what was put, what    *)
(* read() has copied out is what was taken, close() seals it and b"" is    *)
(* its end.                                                                *)
THEOREM PipeIsAStream == ASSUME GIL PROVE Spec => StreamSpec
<1>1. Init => Stream!Init
  <2> SUFFICES ASSUME Init PROVE Stream!Init
    OBVIOUS
  <2>1. Committed = 0 /\ Consumed = <<>> /\ eof = FALSE /\ sealed = 0 /\ ended = FALSE
    BY DEF Init, Committed, Consumed
  <2>2. StreamOf(0) = <<>>
    BY DEF StreamOf
  <2> QED
    BY <2>1, <2>2 DEF Stream!Init
<1>2. IInv /\ IInv' /\ [Next]_vars => [Stream!Next]_(Stream!vars)
  <2> SUFFICES ASSUME IInv, IInv', [Next]_vars PROVE [Stream!Next]_(Stream!vars)
    OBVIOUS
  <2>1. CASE (\E n \in WriteSizes : BeginWrite(n)) \/ BeginFlush \/ WriterStep
    BY <2>1, WriterRefines
  <2>2. CASE (\E size \in ReadSizes : BeginRead(size)) \/ ReaderStep
    BY <2>2, ReaderRefines
  <2>3. CASE BeginClose \/ CloserStep
    BY <2>3, CloserRefines
  <2>4. CASE UNCHANGED vars
    BY <2>4 DEF vars, Stream!vars, Committed, Consumed
  <2> QED
    BY <2>1, <2>2, <2>3, <2>4 DEF Next
<1> QED
  BY <1>1, <1>2, Invariance, PTL DEF Spec, StreamSpec, Stream!Spec
=============================================================================
