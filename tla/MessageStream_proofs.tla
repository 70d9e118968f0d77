------------------------ MODULE MessageStream_proofs ------------------------
(***************************************************************************)
(* Proof that a message on its way in is a bounded stream, for any message *)
(* and pipe and any use of the object by any number of threads.            *)
(***************************************************************************)
EXTENDS MessageStream, CallbacksIO_proofs

-----------------------------------------------------------------------------
(* What has been closed had not taken more than has arrived by now. *)
SealedInv == sealed \in Nat /\ (eof => sealed <= Len(delivered) + Len(pipe))

(* The beginnings of the body are prefixes of each other. *)
LEMMA UnitsType ==
  ASSUME NEW n \in Nat
  PROVE  /\ Units(1, n) \in Seq(Nat) /\ Len(Units(1, n)) = n
         /\ \A i \in 1 .. n : Units(1, n)[i] = i
  BY DEF Units

LEMMA UnitsPrefix ==
  ASSUME NEW m \in Nat, NEW n \in Nat, m <= n
  PROVE  Stream!IsPrefix(Units(1, m), Units(1, n))
<1>1. Len(Units(1, m)) = m /\ Len(Units(1, n)) = n
  BY UnitsType
<1>2. /\ SubSeq(Units(1, m), 1, m) \in Seq(Nat) /\ Len(SubSeq(Units(1, m), 1, m)) = m
      /\ \A i \in 1 .. m : SubSeq(Units(1, m), 1, m)[i] = i
  BY UnitsType
<1>3. /\ SubSeq(Units(1, n), 1, m) \in Seq(Nat) /\ Len(SubSeq(Units(1, n), 1, m)) = m
      /\ \A i \in 1 .. m : SubSeq(Units(1, n), 1, m)[i] = i
  BY UnitsType
<1>4. SubSeq(Units(1, m), 1, m) = SubSeq(Units(1, n), 1, m)
  BY <1>2, <1>3, SeqEqual
<1> QED
  BY <1>1, <1>4 DEF Stream!IsPrefix

LEMMA UnitsStrictPrefix ==
  ASSUME NEW m \in Nat, NEW n \in Nat, m < n
  PROVE  Stream!IsStrictPrefix(Units(1, m), Units(1, n))
<1>1. Units(1, m) # Units(1, n)
  BY UnitsType
<1> QED
  BY <1>1, UnitsPrefix DEF Stream!IsStrictPrefix

(* What has been put and what has been taken, by its length alone. *)
LEMMA StreamByLength ==
  ASSUME NEW d \in Seq(Nat), NEW p \in Seq(Nat),
         \A i \in 1 .. Len(d) : d[i] = i,
         \A i \in 1 .. Len(p) : p[i] = Len(d) + i
  PROVE  /\ Len(d) \in Nat /\ Len(p) \in Nat
         /\ d = Units(1, Len(d)) /\ d \o p = Units(1, Len(d) + Len(p))
         /\ Len(d \o p) = Len(d) + Len(p)
<1>1. Len(d) \in Nat /\ Len(p) \in Nat
  OBVIOUS
<1>2. /\ Units(1, Len(d)) \in Seq(Nat) /\ Len(Units(1, Len(d))) = Len(d)
      /\ \A i \in 1 .. Len(d) : Units(1, Len(d))[i] = i
  BY <1>1, UnitsType
<1>3. d = Units(1, Len(d))
  BY <1>1, <1>2, SeqEqual
<1>4. d \o p = Units(1, Len(d) + Len(p))
  BY UnitsInPlace
<1> QED
  BY <1>1, <1>3, <1>4, UnitsType

-----------------------------------------------------------------------------
(* A step that puts units into the pipe, or none. *)
LEMMA PutRefines ==
  ASSUME StreamInv, StreamInv', delivered' = delivered, Len(pipe) <= Len(pipe'),
         UNCHANGED <<eof, sealed, ended>>
  PROVE  [Stream!Next]_(Stream!vars)
<1> DEFINE m == Len(delivered) + Len(pipe)
<1> DEFINE n == Len(delivered') + Len(pipe')
<1>1. /\ delivered \in Seq(Nat) /\ pipe \in Seq(Nat) /\ Len(delivered) \in Nat /\ Len(pipe) \in Nat
      /\ delivered \o pipe = Units(1, m)
  BY StreamByLength DEF StreamInv
<1>2. /\ Len(delivered') \in Nat /\ Len(pipe') \in Nat /\ Len(pipe') <= Capacity
      /\ delivered' \o pipe' = Units(1, n) /\ Len(delivered' \o pipe') = n
  BY StreamByLength DEF StreamInv
<1>3. m \in Nat /\ n \in Nat /\ m <= n /\ n - Len(delivered) <= Capacity
  BY <1>1, <1>2, SizesAssumption
<1> HIDE DEF m, n
<1>4. CASE m = n
  BY <1>1, <1>2, <1>4 DEF Stream!vars
<1>5. CASE m < n
  <2>1. Stream!IsStrictPrefix(delivered \o pipe, delivered' \o pipe')
    BY <1>1, <1>2, <1>3, <1>5, UnitsStrictPrefix
  <2> QED
    BY <1>2, <1>3, <2>1 DEF Stream!Next, Stream!Put
<1> QED
  BY <1>3, <1>4, <1>5

(* A step that takes units out of the pipe, or none. *)
LEMMA TakeRefines ==
  ASSUME StreamInv, StreamInv', Len(delivered') + Len(pipe') = Len(delivered) + Len(pipe),
         Len(delivered) <= Len(delivered'), UNCHANGED <<eof, sealed, ended>>
  PROVE  [Stream!Next]_(Stream!vars)
<1> DEFINE k == Len(delivered)
<1> DEFINE l == Len(delivered')
<1> DEFINE n == Len(delivered) + Len(pipe)
<1>1. k \in Nat /\ Len(pipe) \in Nat /\ delivered = Units(1, k) /\ delivered \o pipe = Units(1, n)
  BY StreamByLength DEF StreamInv
<1>2. l \in Nat /\ Len(pipe') \in Nat /\ delivered' = Units(1, l) /\ delivered' \o pipe' = Units(1, n)
  <2>1. /\ l \in Nat /\ Len(pipe') \in Nat /\ delivered' = Units(1, l)
        /\ delivered' \o pipe' = Units(1, Len(delivered') + Len(pipe'))
    BY StreamByLength DEF StreamInv
  <2> QED
    BY <2>1
<1>3. n \in Nat /\ k <= l /\ l <= n
  BY <1>1, <1>2
<1> HIDE DEF k, l, n
<1>4. CASE k = l
  BY <1>1, <1>2, <1>4 DEF Stream!vars
<1>5. CASE k < l
  <2>1. Stream!IsStrictPrefix(delivered, delivered') /\ Stream!IsPrefix(delivered', delivered \o pipe)
    BY <1>1, <1>2, <1>3, <1>5, UnitsStrictPrefix, UnitsPrefix
  <2> QED
    BY <1>1, <1>2, <2>1 DEF Stream!Next, Stream!Take
<1> QED
  BY <1>1, <1>2, <1>3, <1>4, <1>5

(* An access that does not move units may close the stream or find its end. *)
LEMMA StillRefines ==
  ASSUME IOInv, SealedInv, delivered' = delivered, pipe' = pipe, eof => eof', eof' \in BOOLEAN,
         sealed' = IF eof' /\ ~eof THEN Len(delivered) + Len(pipe) ELSE sealed,
         ended' = ended \/ (eof' = eof /\ eof /\ pipe = <<>> /\ ended' = TRUE)
  PROVE  [Stream!Next]_(Stream!vars)
<1>1. Len(delivered) \in Nat /\ Len(pipe) \in Nat /\ Len(delivered \o pipe) = Len(delivered) + Len(pipe)
  BY StreamByLength DEF IOInv, StreamInv
<1>2. eof \in BOOLEAN
  BY DEF IOInv, FactsInv
<1>3. CASE eof' = eof /\ ended' = ended
  BY <1>2, <1>3 DEF Stream!vars
<1>4. CASE eof' # eof
  BY <1>1, <1>2, <1>4 DEF Stream!Next, Stream!Close
<1>5. CASE eof' = eof /\ ended' # ended
  <2>1. eof /\ ended' = TRUE /\ Len(pipe) = 0 /\ Len(delivered) >= sealed
    BY <1>1, <1>5 DEF SealedInv
  <2> QED
    BY <1>5, <2>1 DEF Stream!Next, Stream!End
<1> QED
  BY <1>3, <1>4, <1>5

(* Every access is one step of the stream, or none. *)
LEMMA StepRefines ==
  ASSUME IOInv, IOInv', SealedInv, NEW t \in Threads, Step(t),
         sealed' = IF eof' /\ ~eof THEN Len(delivered) + Len(pipe) ELSE sealed
  PROVE  [Stream!Next]_(Stream!vars)
<1>1. TextsInv /\ FeedingInv /\ StreamInv /\ InputInv /\ StreamInv' /\ arrived \in Nat /\ eof' \in BOOLEAN
  BY DEF IOInv, FeedingInv, FactsInv
<1>2. CASE DoPut(t)
  <2>1. t = Feeder /\ todo[t] # <<>> /\ Head(todo[t])[1] = "put"
    BY <1>1, <1>2, TailPositions, AppKinds DEF DoPut, At, Threads, TextsInv
  <2>2. ~(Head(todo[Feeder]) = Wait("body")) /\ \A n \in Nat : ~(Head(todo[Feeder]) = Deliver(n)) /\ ~(Head(todo[Feeder]) = Count(n))
    BY <2>1 DEF Wait, Deliver, Count
  <2>3. PICK m \in Nat : Head(todo[Feeder]) = Put(m) /\ Len(delivered) + Len(pipe) = arrived
    BY <1>1, <2>1, <2>2, FeedingCases
  <2>4. Arg(Feeder) = m
    BY <2>3 DEF Arg, Put
  <2>5. Len(delivered') + Len(pipe') = arrived + Lesser(Capacity - Len(pipe), m)
    BY <1>1, <1>2, <2>1, <2>3, <2>4, PutKeeps
  <2>6. delivered' = delivered /\ eof' = eof /\ ended' = ended
    BY <1>2 DEF DoPut
  <2>7. Len(pipe) <= Len(pipe')
    <3>1. /\ Len(delivered) \in Nat /\ Len(pipe) \in Nat /\ Len(pipe') \in Nat /\ Len(pipe) <= Capacity
          /\ Capacity \in Nat
      BY <1>1, SizesAssumption DEF StreamInv
    <3>2. Lesser(Capacity - Len(pipe), m) \in Nat
      BY <3>1 DEF Lesser
    <3> QED
      BY <2>3, <2>5, <2>6, <3>1, <3>2
  <2> QED
    BY <1>1, <2>6, <2>7, PutRefines
<1>3. CASE DoTake(t)
  <2>1. t \in Apps
    BY <1>1, <1>3, TailPositions, FeederKinds DEF DoTake, At, Threads, TextsInv
  <2>2. /\ Len(delivered') + Len(pipe') = Len(delivered) + Len(pipe)
        /\ Len(delivered') >= Len(delivered)
    BY <1>1, <1>3, <2>1, TakeKeeps
  <2>3. eof' = eof /\ ended' = ended
    BY <1>3 DEF DoTake
  <2>4. Len(delivered) \in Nat /\ Len(delivered') \in Nat
    BY <1>1 DEF StreamInv
  <2> QED
    BY <1>1, <2>2, <2>3, <2>4, TakeRefines
<1>4. CASE DoReturn(t)
  <2>1. delivered' = delivered /\ pipe' = pipe /\ eof' = eof
    BY <1>4 DEF DoReturn
  <2>2. got = 0 => eof /\ pipe = <<>>
    <3>1. t \in Apps
      BY <1>1, <1>4, TailPositions, FeederKinds DEF DoReturn, At, Threads, TextsInv
    <3>2. Head(todo[t])[1] = "fetch" /\ Head(todo[t]) \in AppSteps
      BY <1>1, <1>4, <3>1, TailPositions DEF DoReturn, At, TextsInv
    <3>3. Arg(t) \in Int
      BY <3>2, AppKinds DEF Arg
    <3> QED
      BY <1>4, <3>3 DEF DoReturn, Enough
  <2>3. ended' = (ended \/ got = 0) /\ ended \in BOOLEAN
    BY <1>4 DEF DoReturn, IOInv, FactsInv
  <2>4. ended' = ended \/ (eof' = eof /\ eof /\ pipe = <<>> /\ ended' = TRUE)
    BY <2>1, <2>2, <2>3
  <2> QED
    BY <1>1, <2>1, <2>4, StillRefines
<1>5. CASE ~(DoPut(t) \/ DoTake(t) \/ DoReturn(t))
  <2>1. delivered' = delivered /\ pipe' = pipe /\ ended' = ended /\ (eof => eof')
    <3>1. CASE DoFinish(t) \/ DoShut(t)
      BY <3>1 DEF DoFinish, DoShut
    <3>2. CASE DoYield(t)
      BY <3>2 DEF DoYield
    <3>3. CASE DoWait(t) \/ DoSet(t) \/ DoClear(t) \/ DoStore(t) \/ DoDeliver(t) \/ DoCount(t) \/ DoUnhook(t)
      BY <3>3 DEF DoWait, DoSet, DoClear, DoStore, DoDeliver, DoCount, DoUnhook, body
    <3> QED
      BY <1>5, <3>1, <3>2, <3>3 DEF Step
  <2> QED
    BY <1>1, <2>1, StillRefines
<1> QED
  BY <1>2, <1>3, <1>4, <1>5

(* The seal is never ahead of the stream. *)
LEMMA SealedStep ==
  ASSUME IOInv, IOInv', SealedInv, [SealedNext]_<<vars, sealed>>, [Stream!Next]_(Stream!vars)
  PROVE  SealedInv'
<1>1. /\ Len(delivered) \in Nat /\ Len(pipe) \in Nat /\ Len(delivered \o pipe) = Len(delivered) + Len(pipe)
      /\ delivered \o pipe = Units(1, Len(delivered) + Len(pipe))
  BY StreamByLength DEF IOInv, StreamInv
<1>2. /\ Len(delivered') \in Nat /\ Len(pipe') \in Nat
      /\ Len(delivered' \o pipe') = Len(delivered') + Len(pipe')
      /\ delivered' \o pipe' = Units(1, Len(delivered') + Len(pipe'))
  BY StreamByLength DEF IOInv, StreamInv
<1>3. Len(delivered) + Len(pipe) <= Len(delivered') + Len(pipe')
  <2>1. CASE Stream!Put
    <3>1. Stream!IsPrefix(delivered \o pipe, delivered' \o pipe')
      BY <2>1 DEF Stream!Put, Stream!IsStrictPrefix
    <3> QED
      BY <1>1, <1>2, <3>1 DEF Stream!IsPrefix
  <2>2. CASE ~Stream!Put
    <3>1. delivered' \o pipe' = delivered \o pipe
      BY <2>2 DEF Stream!Next, Stream!Take, Stream!Close, Stream!End, Stream!vars
    <3> QED
      BY <1>1, <1>2, <3>1
  <2> QED
    BY <2>1, <2>2
<1>4. sealed' = (IF eof' /\ ~eof THEN Len(delivered) + Len(pipe) ELSE sealed) \/ (eof' = eof /\ sealed' = sealed)
  BY DEF SealedNext, vars
<1> QED
  BY <1>1, <1>2, <1>3, <1>4 DEF SealedInv

(* Any RequestIO or ResponseIO, with any message cut in any way, hands its *)
(* body to the application as a bounded stream, also when it is closed in  *)
(* the middle of a part and by several threads.                            *)
THEOREM MessageIsAStream == SealedSpec => MessageIsStream
<1>1. SealedInit => IOInv /\ SealedInv /\ Stream!Init
  <2> SUFFICES ASSUME SealedInit PROVE IOInv /\ SealedInv /\ Stream!Init
    OBVIOUS
  <2>1. IOInv
    BY IOInitInv DEF SealedInit
  <2>2. delivered = <<>> /\ pipe = <<>> /\ eof = FALSE /\ ended = FALSE /\ sealed = 0
    BY DEF SealedInit, Init
  <2>3. delivered \o pipe = <<>>
    BY <2>2
  <2> QED
    BY <2>1, <2>2, <2>3 DEF SealedInv, Stream!Init
<1>2. IOInv /\ [SealedNext]_<<vars, sealed>> => IOInv'
  BY IONextInv DEF SealedNext
<1>3. IOInv /\ IOInv' /\ SealedInv /\ [SealedNext]_<<vars, sealed>> => [Stream!Next]_(Stream!vars)
  <2> SUFFICES ASSUME IOInv, IOInv', SealedInv, [SealedNext]_<<vars, sealed>>
               PROVE  [Stream!Next]_(Stream!vars)
    OBVIOUS
  <2>1. CASE UNCHANGED <<vars, sealed>>
    BY <2>1 DEF vars, Stream!vars
  <2>2. CASE SealedNext /\ \E t \in Threads : Step(t)
    BY <2>2, StepRefines DEF SealedNext
  <2>3. CASE SealedNext /\ ~\E t \in Threads : Step(t)
    <3>1. delivered' = delivered /\ pipe' = pipe /\ eof' = eof /\ ended' = ended /\ sealed' = sealed
      BY <2>3 DEF SealedNext, Next, Call, Transport, FeedData, FeedEnd, body
    <3> QED
      BY <3>1 DEF Stream!vars
  <2> QED
    BY <2>1, <2>2, <2>3
<1>4. IOInv /\ IOInv' /\ SealedInv /\ [SealedNext]_<<vars, sealed>> => SealedInv'
  BY <1>3, SealedStep
<1> QED
  BY <1>1, <1>2, <1>3, <1>4, PTL DEF SealedSpec, MessageIsStream, Stream!Spec
=============================================================================
