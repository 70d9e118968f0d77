-------------------------- MODULE CallbacksIO_proofs --------------------------
(***************************************************************************)
(* Proofs about one message on its way in, for any message, any cut of it  *)
(* into parts, any threads and any methods they call.                      *)
(***************************************************************************)
EXTENDS CallbacksIO, FoldTheorems, SequenceTheorems

-----------------------------------------------------------------------------
(* The units of body in the first k parts of the message.                  *)
Before[k \in 0 .. Len(Message)] == IF k = 0 THEN 0 ELSE Before[k - 1] + Message[k][2]

Consumed == Len(Message) - Len(input)
Found == Before[Consumed]

(* The parser's input is the rest of the message. *)
InputInv ==
  /\ input \in Seq(CallbackNames \X Nat) /\ Len(input) <= Len(Message)
  /\ \A i \in 1 .. Len(input) : input[i] = Message[Consumed + i]

(* What a thread of the application and the feeder have yet to do.         *)
EventSteps == {"wait", "set", "clear"} \X Events
AppSteps == EventSteps \cup ({"fetch"} \X (Int \ {0})) \cup ({"yield"} \X CallbackNames) \cup {Unhook, Shut}
FeederSteps ==
  EventSteps \cup ({"store"} \X CallbackNames) \cup ({"deliver", "put", "count"} \X Nat)
    \cup {Finish, Unhook, Shut}

TextsInv ==
  /\ asleep \in [Threads -> Events \cup {"none"}]
  /\ todo = [t \in Threads |-> todo[t]]
  /\ \A t \in Apps : todo[t] \in Seq(AppSteps)
  /\ todo[Feeder] \in Seq(FeederSteps)
  /\ \A t \in Threads : Len(todo[t]) <= 9

(* How far on_body has come with its part of the body. *)
Plain(code) == \A i \in DOMAIN code : code[i][1] \notin {"deliver", "put", "count"}

Between == Plain(todo[Feeder]) /\ arrived = Found /\ size = Found

Delivering ==
  \E n \in Nat :
    /\ todo[Feeder] \in {<<Wait("body"), Deliver(n), Count(n)>>, <<Deliver(n), Count(n)>>}
    /\ arrived + n = Found /\ size + n = Found

Putting ==
  \E n \in Nat, m \in Nat :
    /\ todo[Feeder] = <<Put(m), Count(n)>>
    /\ arrived + m = Found /\ size + n = Found
    /\ Len(delivered) + Len(pipe) = arrived

Counting ==
  \E n \in Nat : todo[Feeder] = <<Count(n)>> /\ arrived = Found /\ size + n = Found

FeedingInv == arrived \in Nat /\ size \in Nat /\ (Between \/ Delivering \/ Putting \/ Counting)

(* What has been read and what is in the pipe are the body from its first  *)
(* unit on; nothing of it is missing unless the callbacks are gone.        *)
StreamInv ==
  /\ delivered \in Seq(Nat) /\ pipe \in Seq(Nat)
  /\ \A i \in 1 .. Len(delivered) : delivered[i] = i
  /\ \A i \in 1 .. Len(pipe) : pipe[i] = Len(delivered) + i
  /\ Len(pipe) <= Capacity
  /\ Len(delivered) + Len(pipe) <= arrived
  /\ hooked => Len(delivered) + Len(pipe) = arrived
  /\ got \in Nat /\ got <= Len(delivered)

-----------------------------------------------------------------------------
(* Facts that stay true once they are: what the parser has found, and what *)
(* a thread knows that waits for it.                                       *)
FactNames == {"headers", "awaits headers", "url", "sized", "arrived"}

NoUrl == \A i \in DOMAIN Message : Message[i][1] # "on_url"

Holds(t, f) ==
  \/ ~hooked
  \/ f \in {"headers", "awaits headers"} /\ "on_headers_complete" \in parsed
  \/ f = "awaits headers" /\ asleep[t] = "header"
  \/ f = "url" /\ ("on_url" \in parsed \/ NoUrl)
  \/ f = "sized" /\ size = BodyLength
  \/ f = "arrived" /\ arrived = BodyLength

(* The fact that an access needs, and the facts that hold behind it. *)
Needs(access, f) ==
  \/ access = Set("header") /\ f = "headers"
  \/ access = Yield("on_headers_complete") /\ f = "awaits headers"
  \/ access = Set("url") /\ f = "url"
  \/ access = Set("message") /\ f = "sized"
  \/ access \in {Finish, Shut} /\ f = "arrived"

Provides(access, f) ==
  \/ access = Unhook
  \/ access = Store("on_headers_complete") /\ f \in {"headers", "awaits headers"}
  \/ access = Wait("header") /\ f = "awaits headers"

(* Facts that accesses of a text need hold, or an earlier access of the    *)
(* same text provides them.                                                *)
Provided(code, i, f) == \E j \in 1 .. i - 1 : Provides(code[j], f)

Known(t) == {f \in FactNames : Holds(t, f)}

Promise(facts, code) ==
  \A i \in DOMAIN code : \A f \in FactNames :
    Needs(code[i], f) => f \in facts \/ Provided(code, i, f)

PromiseInv == \A t \in Threads : Promise(Known(t), todo[t])

(* What has become of those facts. *)
FactsInv ==
  /\ events \subseteq Events /\ parsed \subseteq CallbackNames
  /\ hooked \in BOOLEAN /\ linked \in BOOLEAN /\ eof \in BOOLEAN
  /\ ended \in BOOLEAN /\ partial \in BOOLEAN
  /\ "header" \in events => Holds(Feeder, "headers")
  /\ "url" \in events => Holds(Feeder, "url")
  /\ "message" \in events => Holds(Feeder, "sized")
  /\ eof => Holds(Feeder, "arrived")
  /\ ended /\ hooked => Len(delivered) = BodyLength
  /\ partial => ~hooked

(* What the parser has found of the request line and of the headers' end   *)
(* is stored or about to be.                                               *)
StoredInv ==
  \A i \in 1 .. Consumed :
    Message[i][1] \in {"on_url", "on_headers_complete"} =>
      \/ Message[i][1] \in parsed
      \/ \E j \in DOMAIN todo[Feeder] : todo[Feeder][j] = Store(Message[i][1])

IOInv == InputInv /\ TextsInv /\ FeedingInv /\ StreamInv /\ PromiseInv /\ FactsInv /\ StoredInv

-----------------------------------------------------------------------------
(* The parts of the message add up to its body. *)
LEMMA BeforeProperties ==
  /\ Before \in [0 .. Len(Message) -> Nat] /\ Before[0] = 0
  /\ \A k \in 1 .. Len(Message) : Before[k] = Before[k - 1] + Message[k][2]
  /\ \A k \in 0 .. Len(Message) : Before[k] <= BodyLength
  /\ Before[Len(Message)] = BodyLength /\ BodyLength \in Nat
<1> DEFINE lengths == [i \in DOMAIN Message |-> Message[i][2]]
<1> DEFINE n == Len(Message)
<1>1. n \in Nat /\ DOMAIN Message = 1 .. n /\ \A i \in 1 .. n : Message[i][2] \in Nat
  BY MessageAssumption
<1>2. lengths \in Seq(Nat) /\ Len(lengths) = n /\ DOMAIN lengths = 1 .. n
  BY <1>1
<1>3. Sum(lengths) = BodyLength
  <2> DEFINE A(h) == h = [s \in SUBSET (1 .. n) |->
                       IF s = {} THEN 0 ELSE h[s \ {Max(s)}] + lengths[Max(s)]]
  <2> DEFINE B(h) == h = [s \in SUBSET (1 .. n) |->
                       IF s = {} THEN 0 ELSE h[s \ {Max(s)}] + Message[Max(s)][2]]
  <2>1. ASSUME NEW h
        PROVE  A(h) <=> B(h)
    <3>1. ASSUME NEW s \in SUBSET (1 .. n), s # {}
          PROVE  lengths[Max(s)] = Message[Max(s)][2]
      <4>1. Max(s) \in 1 .. n
        BY <1>1, <3>1, LastPosition
      <4> QED
        BY <1>1, <4>1
    <3> HIDE DEF lengths, n
    <3> QED
      BY <3>1
  <2>2. Sum(lengths) = (CHOOSE h : A(h))[1 .. n]
    <3> HIDE DEF lengths
    <3> QED
      BY <1>2 DEF Sum, FoldLeft, MapThenFoldSet
  <2>3. BodyLength = (CHOOSE h : B(h))[1 .. n]
    BY <1>1 DEF BodyLength, FoldLeft, MapThenFoldSet
  <2> HIDE DEF A, B
  <2>4. (CHOOSE h : A(h)) = (CHOOSE h : B(h))
    BY <2>1, Zenon
  <2> QED
    BY <2>2, <2>3, <2>4
<1>4. PICK upTo : IsUpTo(upTo, lengths) /\ upTo[n] = Sum(lengths)
  BY <1>2, SumIsUpTo
<1>5. /\ upTo \in [0 .. n -> Nat] /\ upTo[0] = 0
      /\ \A k \in 1 .. n : upTo[k] = upTo[k - 1] + Message[k][2]
  <2>1. \A k \in 1 .. n : lengths[k] = Message[k][2]
    BY <1>1
  <2> HIDE DEF lengths
  <2> QED
    BY <1>2, <1>4, <2>1 DEF IsUpTo
<1> DEFINE Adds(f) == f = [k \in 0 .. n |-> IF k = 0 THEN 0 ELSE f[k - 1] + Message[k][2]]
<1>6. Adds(upTo)
  <2>1. \A k \in 0 .. n : upTo[k] = IF k = 0 THEN 0 ELSE upTo[k - 1] + Message[k][2]
    BY <1>1, <1>5
  <2> QED
    BY <1>5, <2>1
<1>7. Adds(Before)
  <2>1. Before = CHOOSE f : Adds(f)
    BY DEF Before
  <2> HIDE DEF Adds
  <2> QED
    BY <1>6, <2>1
<1>8. \A k \in 1 .. n : Before[k] = Before[k - 1] + Message[k][2]
  BY <1>1, <1>7
<1>9. Before[0] = 0
  BY <1>1, <1>7
<1> DEFINE S == {k \in Nat : k <= n => Before[k] = upTo[k]}
<1>10. 0 \in S
  BY <1>5, <1>9
<1>11. ASSUME NEW k \in Nat, k \in S
       PROVE  k + 1 \in S
  <2>1. CASE k + 1 <= n
    <3>1. k + 1 \in 1 .. n /\ (k + 1) - 1 = k /\ Before[k] = upTo[k]
      BY <1>1, <1>11, <2>1
    <3> QED
      BY <1>5, <1>8, <3>1
  <2> QED
    BY <2>1
<1> HIDE DEF S
<1>12. Nat \subseteq S
  BY <1>10, <1>11, NatSetInduction
<1>13. \A k \in 0 .. n : Before[k] = upTo[k]
  BY <1>1, <1>12 DEF S
<1>14. Before \in [0 .. n -> Nat]
  <2>1. Before = [k \in 0 .. n |-> Before[k]]
    BY <1>7
  <2> QED
    BY <1>5, <1>13, <2>1
<1>15. Before[n] = BodyLength /\ BodyLength \in Nat
  BY <1>1, <1>3, <1>4, <1>5, <1>13
<1>16. \A k \in 0 .. n : Before[k] <= BodyLength
  <2>1. ASSUME NEW k \in 0 .. n
        PROVE  upTo[k] <= upTo[n]
    BY <1>2, <1>4, UpToGrows
  <2> QED
    BY <1>3, <1>4, <1>13, <2>1
<1> QED
  BY <1>8, <1>9, <1>14, <1>15, <1>16

-----------------------------------------------------------------------------
(* What is left of a text when its first access has been done. *)
LEMMA TailPositions ==
  ASSUME NEW X, NEW code \in Seq(X), code # <<>>
  PROVE  /\ Len(code) \in Nat \ {0} /\ DOMAIN code = 1 .. Len(code)
         /\ Head(code) = code[1] /\ Head(code) \in X
         /\ Tail(code) \in Seq(X) /\ Len(Tail(code)) = Len(code) - 1
         /\ DOMAIN Tail(code) = 1 .. Len(code) - 1
         /\ \A i \in 1 .. Len(code) - 1 : Tail(code)[i] = code[i + 1]
  BY HeadTailProperties

(* The first access has what it needs. *)
LEMMA HeadProvided ==
  ASSUME NEW X, NEW code \in Seq(X), code # <<>>, NEW facts, Promise(facts, code),
         NEW f \in FactNames, Needs(Head(code), f)
  PROVE  f \in facts
<1>1. 1 \in DOMAIN code /\ Head(code) = code[1]
  BY TailPositions
<1>2. ~Provided(code, 1, f)
  BY DEF Provided
<1> QED
  BY <1>1, <1>2 DEF Promise

(* The others keep what they need, if what the first one provides holds.   *)
LEMMA PromisePops ==
  ASSUME NEW X, NEW code \in Seq(X), code # <<>>, NEW facts, Promise(facts, code), NEW more,
         \A f \in FactNames : f \in facts \/ Provides(Head(code), f) => f \in more
  PROVE  Promise(more, Tail(code))
<1> SUFFICES ASSUME NEW i \in DOMAIN Tail(code), NEW f \in FactNames, Needs(Tail(code)[i], f),
                    f \notin more
             PROVE  Provided(Tail(code), i, f)
  BY DEF Promise
<1>1. /\ Len(code) \in Nat \ {0} /\ i \in 1 .. Len(code) - 1 /\ i + 1 \in DOMAIN code
      /\ Tail(code)[i] = code[i + 1]
  BY TailPositions
<1>2. Provided(code, i + 1, f)
  BY <1>1 DEF Promise
<1>3. PICK j \in 1 .. i : Provides(code[j], f)
  BY <1>1, <1>2 DEF Provided
<1>4. j # 1
  BY <1>3, TailPositions
<1>5. j - 1 \in 1 .. i - 1 /\ j - 1 \in 1 .. Len(code) - 1 /\ (j - 1) + 1 = j
  BY <1>1, <1>4
<1>6. Tail(code)[j - 1] = code[j]
  BY <1>5, TailPositions
<1> QED
  BY <1>3, <1>5, <1>6 DEF Provided

LEMMA PromiseGrows ==
  ASSUME NEW code, NEW facts, NEW more, Promise(facts, code), \A f \in FactNames : f \in facts => f \in more
  PROVE  Promise(more, code)
  BY DEF Promise

-----------------------------------------------------------------------------
(* The kinds of accesses that a thread of the application and the feeder do. *)
LEMMA AppKinds ==
  ASSUME NEW a \in AppSteps
  PROVE  /\ a[1] \in {"wait", "set", "clear", "fetch", "yield", "unhook", "shut"}
         /\ a[1] \in {"wait", "set", "clear"} => a[2] \in Events
         /\ a[1] = "fetch" => a[2] \in Int \ {0}
         /\ a[1] = "yield" => a[2] \in CallbackNames
         /\ a[1] = "wait" => a = Wait(a[2])
         /\ a[1] = "set" => a = Set(a[2])
         /\ a[1] = "yield" => a = Yield(a[2])
         /\ a[1] = "unhook" => a = Unhook
         /\ a[1] = "shut" => a = Shut
  BY DEF AppSteps, EventSteps, Unhook, Shut, Wait, Set, Yield

LEMMA FeederKinds ==
  ASSUME NEW a \in FeederSteps
  PROVE  /\ a[1] \in {"wait", "set", "clear", "store", "deliver", "put", "count", "finish", "unhook", "shut"}
         /\ a[1] \in {"wait", "set", "clear"} => a[2] \in Events
         /\ a[1] = "store" => a[2] \in CallbackNames
         /\ a[1] \in {"deliver", "put", "count"} => a[2] \in Nat
         /\ a[1] = "wait" => a = Wait(a[2])
         /\ a[1] = "set" => a = Set(a[2])
         /\ a[1] = "store" => a = Store(a[2])
         /\ a[1] = "finish" => a = Finish
         /\ a[1] = "unhook" => a = Unhook
         /\ a[1] = "shut" => a = Shut
  BY DEF FeederSteps, EventSteps, Unhook, Shut, Finish, Wait, Set, Store

(* The steps that they can do. *)
LEMMA AppStep ==
  ASSUME TextsInv, NEW t \in Apps, Step(t)
  PROVE  /\ todo[t] \in Seq(AppSteps) /\ todo[t] # <<>> /\ asleep[t] = "none" /\ Head(todo[t]) \in AppSteps
         /\ \/ DoWait(t) \/ DoSet(t) \/ DoClear(t) \/ DoUnhook(t)
            \/ DoShut(t) \/ DoTake(t) \/ DoReturn(t) \/ DoYield(t)
<1>1. todo[t] # <<>> /\ asleep[t] = "none"
  BY DEF Step, DoWait, DoSet, DoClear, DoStore, DoDeliver, DoPut, DoCount, DoFinish, DoUnhook, DoShut,
         DoTake, DoReturn, DoYield, At
<1>2. todo[t] \in Seq(AppSteps) /\ Head(todo[t]) \in AppSteps
  BY <1>1, TailPositions DEF TextsInv
<1>3. ~(DoStore(t) \/ DoDeliver(t) \/ DoPut(t) \/ DoCount(t) \/ DoFinish(t))
  BY <1>2, AppKinds DEF DoStore, DoDeliver, DoPut, DoCount, DoFinish, At
<1> QED
  BY <1>1, <1>2, <1>3 DEF Step

LEMMA FeederStep ==
  ASSUME TextsInv, Step(Feeder)
  PROVE  /\ todo[Feeder] \in Seq(FeederSteps) /\ todo[Feeder] # <<>> /\ asleep[Feeder] = "none"
         /\ Head(todo[Feeder]) \in FeederSteps
         /\ \/ DoWait(Feeder) \/ DoSet(Feeder) \/ DoClear(Feeder) \/ DoStore(Feeder)
            \/ DoDeliver(Feeder) \/ DoPut(Feeder) \/ DoCount(Feeder) \/ DoFinish(Feeder)
            \/ DoUnhook(Feeder) \/ DoShut(Feeder)
<1>1. todo[Feeder] # <<>> /\ asleep[Feeder] = "none"
  BY DEF Step, DoWait, DoSet, DoClear, DoStore, DoDeliver, DoPut, DoCount, DoFinish, DoUnhook, DoShut,
         DoTake, DoReturn, DoYield, At
<1>2. todo[Feeder] \in Seq(FeederSteps) /\ Head(todo[Feeder]) \in FeederSteps
  BY <1>1, TailPositions DEF TextsInv
<1>3. ~(DoTake(Feeder) \/ DoReturn(Feeder) \/ DoYield(Feeder))
  BY <1>2, FeederKinds DEF DoTake, DoReturn, DoYield, At
<1> QED
  BY <1>1, <1>2, <1>3 DEF Step

(* Two texts of one access. *)
LEMMA PairOfTwo ==
  ASSUME NEW X, NEW a \in X, NEW b \in X
  PROVE  <<a>> \o <<b>> = <<a, b>>
<1> DEFINE s == <<a>> \o <<b>>
<1> DEFINE r == <<a, b>>
<1>1. <<a>> \in Seq(X) /\ <<b>> \in Seq(X) /\ Len(<<a>>) = 1 /\ Len(<<b>>) = 1
  OBVIOUS
<1>2. /\ s \in Seq(X) /\ Len(s) = 2
      /\ \A i \in 1 .. 2 : s[i] = IF i <= 1 THEN <<a>>[i] ELSE <<b>>[i - 1]
  BY <1>1, ConcatProperties
<1>3. r \in Seq(X) /\ Len(r) = 2 /\ r[1] = a /\ r[2] = b
  OBVIOUS
<1>4. s[1] = a /\ s[2] = b
  BY <1>2
<1> HIDE DEF s, r
<1>5. \A i \in 1 .. Len(s) : s[i] = r[i]
  BY <1>2, <1>3, <1>4
<1>6. s = r
  BY <1>2, <1>3, <1>5, SeqEqual
<1> QED
  BY <1>6 DEF s, r

(* The texts that on_body goes through. *)
LEMMA BodyTexts ==
  ASSUME NEW n \in Nat, NEW m \in Nat
  PROVE  /\ <<Wait("body"), Deliver(n), Count(n)>> \in Seq(FeederSteps)
         /\ <<Deliver(n), Count(n)>> \in Seq(FeederSteps)
         /\ <<Put(m), Count(n)>> \in Seq(FeederSteps)
         /\ <<Count(n)>> \in Seq(FeederSteps)
         /\ Head(<<Wait("body"), Deliver(n), Count(n)>>) = Wait("body")
         /\ Tail(<<Wait("body"), Deliver(n), Count(n)>>) = <<Deliver(n), Count(n)>>
         /\ Head(<<Deliver(n), Count(n)>>) = Deliver(n) /\ Tail(<<Deliver(n), Count(n)>>) = <<Count(n)>>
         /\ Head(<<Put(m), Count(n)>>) = Put(m) /\ Tail(<<Put(m), Count(n)>>) = <<Count(n)>>
         /\ Head(<<Count(n)>>) = Count(n) /\ Tail(<<Count(n)>>) = <<>>
         /\ <<Put(m)>> \o <<Count(n)>> = <<Put(m), Count(n)>> /\ <<>> \o <<Count(n)>> = <<Count(n)>>
<1>1. Wait("body") \in FeederSteps
  BY DEF FeederSteps, EventSteps, Events, Wait
<1>2. Deliver(n) \in FeederSteps /\ Count(n) \in FeederSteps /\ Put(m) \in FeederSteps
  BY DEF FeederSteps, Deliver, Count, Put
<1> HIDE DEF FeederSteps
<1>3. /\ <<Wait("body"), Deliver(n), Count(n)>> \in Seq(FeederSteps)
      /\ <<Deliver(n), Count(n)>> \in Seq(FeederSteps)
      /\ <<Put(m), Count(n)>> \in Seq(FeederSteps)
      /\ <<Count(n)>> \in Seq(FeederSteps) /\ <<Put(m)>> \in Seq(FeederSteps)
  BY <1>1, <1>2
<1>4. Tail(<<Wait("body"), Deliver(n), Count(n)>>) = <<Deliver(n), Count(n)>>
  OBVIOUS
<1>5. Tail(<<Deliver(n), Count(n)>>) = <<Count(n)>> /\ Tail(<<Put(m), Count(n)>>) = <<Count(n)>>
  OBVIOUS
<1>6. Tail(<<Count(n)>>) = <<>>
  OBVIOUS
<1>7. <<Put(m)>> \o <<Count(n)>> = <<Put(m), Count(n)>>
  BY <1>2, PairOfTwo
<1>8. <<>> \o <<Count(n)>> = <<Count(n)>>
  BY <1>3, ConcatEmptySeq
<1> QED
  BY <1>3, <1>4, <1>5, <1>6, <1>7, <1>8

(* Accesses of on_body are the only ones of their kinds. *)
LEMMA PlainPops ==
  ASSUME NEW X, NEW code \in Seq(X), code # <<>>, Plain(code)
  PROVE  Plain(Tail(code)) /\ Head(code)[1] \notin {"deliver", "put", "count"}
<1>1. 1 \in DOMAIN code /\ Head(code) = code[1]
  BY TailPositions
<1>2. \A i \in DOMAIN Tail(code) : i + 1 \in DOMAIN code /\ Tail(code)[i] = code[i + 1]
  BY TailPositions
<1> QED
  BY <1>1, <1>2 DEF Plain

-----------------------------------------------------------------------------
(* What has been found is part of the body. *)
LEMMA FoundRange ==
  ASSUME InputInv
  PROVE  /\ Consumed \in 0 .. Len(Message) /\ Found \in Nat /\ Found <= BodyLength
         /\ Len(Message) \in Nat /\ Len(input) \in Nat /\ BodyLength \in Nat
<1>1. Len(Message) \in Nat /\ Len(input) \in Nat /\ Len(input) <= Len(Message)
  BY MessageAssumption DEF InputInv
<1>2. Consumed \in 0 .. Len(Message)
  BY <1>1 DEF Consumed
<1> QED
  BY <1>1, <1>2, BeforeProperties DEF Found

(* on_body is at the access that the feeder is about to do. *)
LEMMA FeedingCases ==
  ASSUME TextsInv, FeedingInv, todo[Feeder] # <<>>
  PROVE  \/ Between /\ Head(todo[Feeder])[1] \notin {"deliver", "put", "count"}
         \/ /\ Head(todo[Feeder]) = Wait("body")
            /\ \E n \in Nat : /\ Tail(todo[Feeder]) = <<Deliver(n), Count(n)>>
                              /\ arrived + n = Found /\ size + n = Found
         \/ \E n \in Nat : /\ Head(todo[Feeder]) = Deliver(n) /\ Tail(todo[Feeder]) = <<Count(n)>>
                           /\ arrived + n = Found /\ size + n = Found
         \/ \E n \in Nat, m \in Nat :
              /\ Head(todo[Feeder]) = Put(m) /\ Tail(todo[Feeder]) = <<Count(n)>>
              /\ arrived + m = Found /\ size + n = Found /\ Len(delivered) + Len(pipe) = arrived
         \/ \E n \in Nat : /\ Head(todo[Feeder]) = Count(n) /\ Tail(todo[Feeder]) = <<>>
                           /\ arrived = Found /\ size + n = Found
<1>1. CASE Between
  BY <1>1, PlainPops DEF Between, TextsInv
<1>2. CASE Delivering
  BY <1>2, BodyTexts DEF Delivering
<1>3. CASE Putting
  BY <1>3, BodyTexts DEF Putting
<1>4. CASE Counting
  BY <1>4, BodyTexts DEF Counting
<1> QED
  BY <1>1, <1>2, <1>3, <1>4 DEF FeedingInv

(* The units that the pipe takes over continue what is there. *)
LEMMA PutKeeps ==
  ASSUME StreamInv, arrived \in Nat, NEW t, NEW m \in Nat, Arg(t) = m, DoPut(t),
         Len(delivered) + Len(pipe) = arrived
  PROVE  /\ Len(delivered') + Len(pipe') = arrived + Lesser(Capacity - Len(pipe), m)
         /\ arrived' = arrived + Lesser(Capacity - Len(pipe), m)
         /\ StreamInv'
<1> DEFINE k == Lesser(Capacity - Len(pipe), m)
<1>1. /\ k \in Nat /\ k <= Capacity - Len(pipe) /\ Len(pipe) \in Nat /\ Len(delivered) \in Nat
      /\ Capacity \in Nat /\ got \in Nat
  BY SizesAssumption DEF Lesser, DoPut, StreamInv
<1>2. /\ pipe' = pipe \o Units(arrived + 1, k) /\ arrived' = arrived + k
      /\ delivered' = delivered /\ got' = got /\ hooked' = hooked
  BY DEF DoPut
<1> HIDE DEF k
<1>3. /\ Units(arrived + 1, k) \in Seq(Nat) /\ Len(Units(arrived + 1, k)) = k
      /\ \A i \in 1 .. k : Units(arrived + 1, k)[i] = arrived + i
  BY <1>1 DEF Units
<1>4. /\ pipe' \in Seq(Nat) /\ Len(pipe') = Len(pipe) + k
      /\ \A i \in 1 .. Len(pipe) + k :
           pipe'[i] = IF i <= Len(pipe) THEN pipe[i] ELSE Units(arrived + 1, k)[i - Len(pipe)]
  <2>1. pipe \in Seq(Nat)
    BY DEF StreamInv
  <2>2. /\ pipe \o Units(arrived + 1, k) \in Seq(Nat)
        /\ Len(pipe \o Units(arrived + 1, k)) = Len(pipe) + Len(Units(arrived + 1, k))
        /\ \A i \in 1 .. Len(pipe) + Len(Units(arrived + 1, k)) :
             (pipe \o Units(arrived + 1, k))[i] =
               IF i <= Len(pipe) THEN pipe[i] ELSE Units(arrived + 1, k)[i - Len(pipe)]
    BY <1>3, <2>1, ConcatProperties
  <2> QED
    BY <1>2, <1>3, <2>2
<1>5. \A i \in 1 .. Len(pipe') : pipe'[i] = Len(delivered') + i
  <2> SUFFICES ASSUME NEW i \in 1 .. Len(pipe')
               PROVE  pipe'[i] = Len(delivered') + i
    OBVIOUS
  <2>1. i \in 1 .. Len(pipe) + k
    BY <1>4
  <2>2. CASE i <= Len(pipe)
    BY <1>2, <1>4, <2>1, <2>2 DEF StreamInv
  <2>3. CASE i > Len(pipe)
    <3>1. i - Len(pipe) \in 1 .. k /\ pipe'[i] = Units(arrived + 1, k)[i - Len(pipe)]
      BY <1>1, <1>4, <2>1, <2>3
    <3>2. pipe'[i] = arrived + (i - Len(pipe))
      BY <1>3, <3>1
    <3>3. arrived + (i - Len(pipe)) = Len(delivered) + i
      BY <1>1, <2>1
    <3> QED
      BY <1>2, <3>2, <3>3
  <2> QED
    BY <1>1, <2>1, <2>2, <2>3
<1>6. /\ Len(pipe') <= Capacity /\ Len(delivered') + Len(pipe') = arrived'
      /\ Len(delivered') + Len(pipe') = arrived + k
  <2>1. Len(pipe') = Len(pipe) + k
    BY <1>4
  <2>2. Len(pipe') <= Capacity
    BY <1>1, <2>1
  <2>3. Len(delivered') + Len(pipe') = arrived + k
    <3>1. Len(delivered') = Len(delivered)
      BY <1>2
    <3>2. Len(delivered) + (Len(pipe) + k) = (Len(delivered) + Len(pipe)) + k
      BY <1>1
    <3> QED
      BY <2>1, <3>1, <3>2
  <2> QED
    BY <1>2, <2>2, <2>3
<1>7. delivered' \in Seq(Nat) /\ \A i \in 1 .. Len(delivered') : delivered'[i] = i
  BY <1>2 DEF StreamInv
<1>8. got' \in Nat /\ got' <= Len(delivered')
  BY <1>2 DEF StreamInv
<1>9. StreamInv'
  BY <1>1, <1>2, <1>4, <1>5, <1>6, <1>7, <1>8 DEF StreamInv
<1> QED
  BY <1>2, <1>6, <1>9 DEF k

(* What a read() takes is the beginning of the pipe. *)
LEMMA TakeKeeps ==
  ASSUME StreamInv, TextsInv, arrived \in Nat, NEW t \in Apps, DoTake(t)
  PROVE  /\ Len(delivered') + Len(pipe') = Len(delivered) + Len(pipe) /\ StreamInv'
         /\ Len(delivered') >= Len(delivered)
<1> DEFINE n == IF Arg(t) < 0 THEN Len(pipe) ELSE Lesser(Arg(t) - got, Len(pipe))
<1>1. Len(pipe) \in Nat /\ Len(delivered) \in Nat /\ got \in Nat /\ Capacity \in Nat
  BY SizesAssumption DEF StreamInv
<1>2. Arg(t) \in Int
  <2>1. todo[t] # <<>> /\ Head(todo[t])[1] = "fetch"
    BY DEF DoTake, At
  <2>2. Head(todo[t]) \in AppSteps
    BY <2>1, TailPositions DEF TextsInv
  <2> QED
    BY <2>1, <2>2, AppKinds DEF Arg
<1>3. n \in 0 .. Len(pipe)
  <2>1. ~(Arg(t) > 0 /\ got >= Arg(t))
    BY DEF DoTake, Enough
  <2>2. Arg(t) # 0
    <3>1. todo[t] # <<>> /\ Head(todo[t])[1] = "fetch" /\ Head(todo[t]) \in AppSteps
      BY TailPositions DEF DoTake, At, TextsInv
    <3> QED
      BY <3>1, AppKinds DEF Arg
  <2> QED
    BY <1>1, <1>2, <2>1, <2>2 DEF Lesser
<1>4. /\ got' = got + n /\ delivered' = delivered \o SubSeq(pipe, 1, n)
      /\ pipe' = SubSeq(pipe, n + 1, Len(pipe)) /\ arrived' = arrived /\ hooked' = hooked
  BY DEF DoTake, feed
<1> HIDE DEF n
<1>5. /\ SubSeq(pipe, 1, n) \in Seq(Nat) /\ Len(SubSeq(pipe, 1, n)) = n
      /\ \A i \in 1 .. n : SubSeq(pipe, 1, n)[i] = pipe[i]
  BY <1>1, <1>3, SubSeqProperties DEF StreamInv
<1>6. /\ pipe' \in Seq(Nat) /\ Len(pipe') = Len(pipe) - n
      /\ \A i \in 1 .. Len(pipe) - n : pipe'[i] = pipe[n + i]
  <2>1. n + 1 \in Int /\ Len(pipe) \in Int /\ \A i \in n + 1 .. Len(pipe) : pipe[i] \in Nat
    BY <1>1, <1>3 DEF StreamInv
  <2>2. /\ SubSeq(pipe, n + 1, Len(pipe)) \in Seq(Nat)
        /\ Len(SubSeq(pipe, n + 1, Len(pipe))) = Len(pipe) - n
        /\ \A i \in 1 .. Len(pipe) - n :
             SubSeq(pipe, n + 1, Len(pipe))[i] = pipe[(n + 1) + i - 1]
    BY <1>1, <1>3, <2>1, SubSeqProperties
  <2>3. \A i \in 1 .. Len(pipe) - n : (n + 1) + i - 1 = n + i
    BY <1>1, <1>3
  <2> QED
    BY <1>4, <2>2, <2>3
<1>7. /\ delivered' \in Seq(Nat) /\ Len(delivered') = Len(delivered) + n
      /\ \A i \in 1 .. Len(delivered) + n :
           delivered'[i] = IF i <= Len(delivered) THEN delivered[i] ELSE SubSeq(pipe, 1, n)[i - Len(delivered)]
  <2> DEFINE new == SubSeq(pipe, 1, n)
  <2>1. delivered \in Seq(Nat) /\ new \in Seq(Nat) /\ Len(new) = n
    BY <1>5 DEF StreamInv
  <2> HIDE DEF new
  <2>2. /\ delivered \o new \in Seq(Nat) /\ Len(delivered \o new) = Len(delivered) + Len(new)
        /\ \A i \in 1 .. Len(delivered) + Len(new) :
             (delivered \o new)[i] = IF i <= Len(delivered) THEN delivered[i] ELSE new[i - Len(delivered)]
    BY <2>1, ConcatProperties
  <2>3. /\ delivered \o new \in Seq(Nat) /\ Len(delivered \o new) = Len(delivered) + n
        /\ \A i \in 1 .. Len(delivered) + n :
             (delivered \o new)[i] = IF i <= Len(delivered) THEN delivered[i] ELSE new[i - Len(delivered)]
    BY <2>1, <2>2
  <2> QED
    BY <1>4, <2>3 DEF new
<1>8. \A i \in 1 .. Len(delivered') : delivered'[i] = i
  <2> SUFFICES ASSUME NEW i \in 1 .. Len(delivered')
               PROVE  delivered'[i] = i
    OBVIOUS
  <2>1. i \in 1 .. Len(delivered) + n
    BY <1>7
  <2>2. CASE i <= Len(delivered)
    BY <1>1, <1>7, <2>1, <2>2 DEF StreamInv
  <2>3. CASE i > Len(delivered)
    <3>1. i - Len(delivered) \in 1 .. n /\ delivered'[i] = SubSeq(pipe, 1, n)[i - Len(delivered)]
      BY <1>1, <1>3, <1>7, <2>1, <2>3
    <3>2. delivered'[i] = pipe[i - Len(delivered)] /\ i - Len(delivered) \in 1 .. Len(pipe)
      BY <1>1, <1>3, <1>5, <3>1
    <3>3. pipe[i - Len(delivered)] = Len(delivered) + (i - Len(delivered))
      BY <3>2 DEF StreamInv
    <3> QED
      BY <1>1, <2>1, <3>2, <3>3
  <2> QED
    BY <1>1, <2>1, <2>2, <2>3
<1>9. \A i \in 1 .. Len(pipe') : pipe'[i] = Len(delivered') + i
  <2> SUFFICES ASSUME NEW i \in 1 .. Len(pipe')
               PROVE  pipe'[i] = Len(delivered') + i
    OBVIOUS
  <2>1. i \in 1 .. Len(pipe) - n /\ n + i \in 1 .. Len(pipe)
    BY <1>1, <1>3, <1>6
  <2>2. pipe'[i] = Len(delivered) + (n + i)
    BY <1>6, <2>1 DEF StreamInv
  <2> QED
    BY <1>1, <1>3, <1>7, <2>1, <2>2
<1>10. /\ Len(pipe') <= Capacity /\ got' \in Nat /\ got' <= Len(delivered')
       /\ Len(delivered') + Len(pipe') = Len(delivered) + Len(pipe)
  <2>1. Len(pipe) <= Capacity /\ got <= Len(delivered)
    BY DEF StreamInv
  <2>2. Len(pipe') = Len(pipe) - n /\ Len(delivered') = Len(delivered) + n /\ got' = got + n
    BY <1>4, <1>6, <1>7
  <2>3. n \in Nat
    BY <1>1, <1>3
  <2>4. Len(pipe') <= Capacity
    BY <1>1, <2>1, <2>2, <2>3
  <2>5. got' \in Nat /\ got' <= Len(delivered')
    BY <1>1, <2>1, <2>2, <2>3
  <2>6. Len(delivered') + Len(pipe') = Len(delivered) + Len(pipe)
    BY <1>1, <2>2, <2>3
  <2> QED
    BY <2>4, <2>5, <2>6
<1>11. StreamInv'
  BY <1>4, <1>6, <1>7, <1>8, <1>9, <1>10 DEF StreamInv
<1>12. Len(delivered') >= Len(delivered)
  BY <1>1, <1>3, <1>7
<1> QED
  BY <1>10, <1>11, <1>12

(* The body is passed on part by part, whatever the other threads do. *)
LEMMA StepFeeding ==
  ASSUME IOInv, NEW t \in Threads, Step(t)
  PROVE  FeedingInv'
<1>1. /\ TextsInv /\ FeedingInv /\ arrived \in Nat /\ size \in Nat /\ InputInv
      /\ Len(pipe) \in Nat /\ Len(delivered) \in Nat /\ Found \in Nat
  BY FoundRange DEF IOInv, FeedingInv, StreamInv
<1>2. input' = input /\ Found' = Found
  BY DEF Step, DoWait, DoSet, DoClear, DoStore, DoDeliver, DoPut, DoCount, DoFinish, DoUnhook, DoShut,
         DoTake, DoReturn, DoYield, feed, Found, Consumed
<1>3. CASE t \in Apps
  <2>1. t # Feeder /\ Feeder \in Threads
    BY <1>3, ThreadsAssumption DEF Threads
  <2>2. todo'[Feeder] = todo[Feeder]
    BY <1>1, <1>3, <2>1, AppStep DEF TextsInv, Done, DoWait, DoSet, DoClear, DoUnhook, DoShut,
       DoTake, DoReturn, DoYield
  <2>3. arrived' = arrived /\ size' = size
    BY <1>1, <1>3, AppStep DEF DoWait, DoSet, DoClear, DoUnhook, DoShut, DoTake, DoReturn, DoYield, feed
  <2>4. CASE Putting
    <3>1. ~DoTake(t) => pipe' = pipe /\ delivered' = delivered
      BY <1>1, <1>3, AppStep DEF DoWait, DoSet, DoClear, DoUnhook, DoShut, DoReturn, DoYield, body
    <3>2. DoTake(t) => Len(delivered') + Len(pipe') = Len(delivered) + Len(pipe)
      BY <1>1, <1>3, TakeKeeps DEF IOInv
    <3>3. Len(delivered') + Len(pipe') = Len(delivered) + Len(pipe)
      BY <3>1, <3>2
    <3> QED
      BY <1>1, <1>2, <2>2, <2>3, <2>4, <3>3 DEF Putting, FeedingInv
  <2>5. CASE Between \/ Delivering \/ Counting
    BY <1>1, <1>2, <2>2, <2>3, <2>5 DEF Between, Delivering, Counting, FeedingInv
  <2> QED
    BY <1>1, <2>4, <2>5 DEF FeedingInv
<1>4. CASE t = Feeder
  <2>1. /\ todo[Feeder] \in Seq(FeederSteps) /\ todo[Feeder] # <<>> /\ Feeder \in Threads
        /\ Head(todo[Feeder]) \in FeederSteps
    BY <1>1, <1>4, FeederStep
  <2>2. ASSUME \/ DoWait(Feeder) \/ DoSet(Feeder) \/ DoClear(Feeder) \/ DoStore(Feeder)
               \/ DoFinish(Feeder) \/ DoUnhook(Feeder) \/ DoShut(Feeder)
        PROVE  todo'[Feeder] = Tail(todo[Feeder]) /\ arrived' = arrived /\ size' = size
    BY <1>1, <2>1, <2>2 DEF TextsInv, Done, DoWait, DoSet, DoClear, DoStore, DoFinish, DoUnhook, DoShut, feed
  <2>3. CASE Between /\ Head(todo[Feeder])[1] \notin {"deliver", "put", "count"}
    <3>1. ~(DoDeliver(Feeder) \/ DoPut(Feeder) \/ DoCount(Feeder))
      BY <2>3 DEF DoDeliver, DoPut, DoCount, At
    <3>2. todo'[Feeder] = Tail(todo[Feeder]) /\ arrived' = arrived /\ size' = size
      BY <1>1, <1>4, <2>2, <3>1, FeederStep
    <3>3. Plain(Tail(todo[Feeder]))
      BY <2>1, <2>3, PlainPops DEF Between
    <3> QED
      BY <1>1, <1>2, <2>3, <3>2, <3>3 DEF Between, FeedingInv
  <2>4. ASSUME Head(todo[Feeder]) = Wait("body"), NEW n \in Nat, Tail(todo[Feeder]) = <<Deliver(n), Count(n)>>,
               arrived + n = Found, size + n = Found
        PROVE  FeedingInv'
    <3>1. Head(todo[Feeder])[1] = "wait"
      BY <2>4 DEF Wait
    <3>2. DoWait(Feeder)
      BY <1>1, <1>4, <3>1, FeederStep DEF DoSet, DoClear, DoStore, DoDeliver, DoPut, DoCount, DoFinish,
         DoUnhook, DoShut, At
    <3> QED
      BY <1>1, <1>2, <2>2, <2>4, <3>2 DEF Delivering, FeedingInv
  <2>5. ASSUME NEW n \in Nat, Head(todo[Feeder]) = Deliver(n), Tail(todo[Feeder]) = <<Count(n)>>,
               arrived + n = Found, size + n = Found
        PROVE  FeedingInv'
    <3>1. Head(todo[Feeder])[1] = "deliver" /\ Arg(Feeder) = n
      BY <2>5 DEF Deliver, Arg
    <3>2. DoDeliver(Feeder)
      BY <1>1, <1>4, <3>1, FeederStep DEF DoWait, DoSet, DoClear, DoStore, DoPut, DoCount, DoFinish,
         DoUnhook, DoShut, At
    <3>3. size' = size /\ pipe' = pipe /\ delivered' = delivered
      BY <3>2 DEF DoDeliver, body
    <3>4. CASE hooked
      <4>1. todo'[Feeder] = <<Put(n)>> \o <<Count(n)>> /\ arrived' = arrived
        BY <1>1, <2>1, <2>5, <3>1, <3>2, <3>4 DEF DoDeliver, TextsInv
      <4>2. todo'[Feeder] = <<Put(n), Count(n)>>
        BY <2>5, <4>1, BodyTexts
      <4>3. Len(delivered) + Len(pipe) = arrived
        BY <3>4 DEF IOInv, StreamInv
      <4> QED
        BY <1>1, <1>2, <2>5, <3>3, <4>1, <4>2, <4>3 DEF Putting, FeedingInv
    <3>5. CASE ~hooked
      <4>1. todo'[Feeder] = <<Count(n)>> /\ arrived' = arrived + n
        BY <1>1, <2>1, <2>5, <3>1, <3>2, <3>5 DEF DoDeliver, TextsInv, Done
      <4> QED
        BY <1>1, <1>2, <2>5, <3>3, <4>1 DEF Counting, FeedingInv
    <3> QED
      BY <3>4, <3>5
  <2>6. ASSUME NEW n \in Nat, NEW m \in Nat, Head(todo[Feeder]) = Put(m), Tail(todo[Feeder]) = <<Count(n)>>,
               arrived + m = Found, size + n = Found, Len(delivered) + Len(pipe) = arrived
        PROVE  FeedingInv'
    <3>1. Head(todo[Feeder])[1] = "put" /\ Arg(Feeder) = m
      BY <2>6 DEF Put, Arg
    <3>2. DoPut(Feeder)
      BY <1>1, <1>4, <3>1, FeederStep DEF DoWait, DoSet, DoClear, DoStore, DoDeliver, DoCount, DoFinish,
         DoUnhook, DoShut, At
    <3> DEFINE k == Lesser(Capacity - Len(pipe), m)
    <3>3. k \in Nat /\ k <= m
      BY <1>1, <3>2, SizesAssumption DEF Lesser, DoPut
    <3>4. Len(delivered') + Len(pipe') = arrived + k
      BY <1>1, <2>6, <3>1, <3>2, <3>3, PutKeeps DEF IOInv
    <3>5. size' = size /\ arrived' = arrived + k
      BY <3>1, <3>2 DEF DoPut
    <3>6. todo'[Feeder] = (IF k < m THEN <<Put(m - k)>> ELSE <<>>) \o <<Count(n)>>
      BY <1>1, <2>1, <2>6, <3>1, <3>2 DEF DoPut, TextsInv
    <3> HIDE DEF k
    <3>7. CASE k < m
      <4>1. PICK l \in Nat : l = m - k
        BY <3>3, <3>7
      <4>2. todo'[Feeder] = <<Put(l), Count(n)>>
        BY <3>6, <3>7, <4>1, BodyTexts
      <4>3. arrived' + l = Found' /\ size' + n = Found' /\ Len(delivered') + Len(pipe') = arrived'
        BY <1>1, <1>2, <2>6, <3>3, <3>4, <3>5, <4>1
      <4>4. Putting'
        BY <4>2, <4>3 DEF Putting
      <4>5. arrived' \in Nat /\ size' \in Nat
        BY <1>1, <3>3, <3>5
      <4> QED
        BY <4>4, <4>5 DEF FeedingInv
    <3>8. CASE ~(k < m)
      <4>1. todo'[Feeder] = <<Count(n)>>
        BY <3>6, <3>8, BodyTexts
      <4>2. arrived' = Found'
        BY <1>1, <1>2, <2>6, <3>3, <3>5, <3>8
      <4> QED
        BY <1>1, <1>2, <2>6, <3>3, <3>5, <4>1, <4>2 DEF Counting, FeedingInv
    <3> QED
      BY <3>7, <3>8
  <2>7. ASSUME NEW n \in Nat, Head(todo[Feeder]) = Count(n), Tail(todo[Feeder]) = <<>>,
               arrived = Found, size + n = Found
        PROVE  FeedingInv'
    <3>1. Head(todo[Feeder])[1] = "count" /\ Arg(Feeder) = n
      BY <2>7 DEF Count, Arg
    <3>2. DoCount(Feeder)
      BY <1>1, <1>4, <3>1, FeederStep DEF DoWait, DoSet, DoClear, DoStore, DoDeliver, DoPut, DoFinish,
         DoUnhook, DoShut, At
    <3>3. size' = size + n /\ arrived' = arrived /\ todo'[Feeder] = <<>>
      BY <1>1, <2>1, <2>7, <3>1, <3>2 DEF DoCount, TextsInv, Done
    <3> QED
      BY <1>1, <1>2, <2>7, <3>3 DEF Between, Plain, FeedingInv
  <2> QED
    BY <1>1, <2>1, <2>3, <2>4, <2>5, <2>6, <2>7, FeedingCases
<1> QED
  BY <1>3, <1>4 DEF Threads

(* What has been read and what the pipe holds stays the body's beginning.  *)
LEMMA StepStream ==
  ASSUME IOInv, NEW t \in Threads, Step(t)
  PROVE  StreamInv'
<1>1. TextsInv /\ FeedingInv /\ StreamInv /\ InputInv /\ arrived \in Nat
  BY DEF IOInv, FeedingInv
<1>2. CASE DoPut(t)
  <2>1. t = Feeder /\ todo[t] # <<>> /\ Head(todo[t])[1] = "put"
    BY <1>1, <1>2, TailPositions, AppKinds DEF DoPut, At, Threads, TextsInv
  <2>2. ~(Head(todo[Feeder]) = Wait("body")) /\ \A n \in Nat : ~(Head(todo[Feeder]) = Deliver(n)) /\ ~(Head(todo[Feeder]) = Count(n))
    BY <2>1 DEF Wait, Deliver, Count
  <2>3. PICK m \in Nat : Head(todo[Feeder]) = Put(m) /\ Len(delivered) + Len(pipe) = arrived
    BY <1>1, <2>1, <2>2, FeedingCases
  <2>4. Arg(Feeder) = m
    BY <2>3 DEF Arg, Put
  <2> QED
    BY <1>1, <1>2, <2>1, <2>3, <2>4, PutKeeps
<1>3. CASE DoTake(t)
  <2>1. t \in Apps
    BY <1>1, <1>3, TailPositions, FeederKinds DEF DoTake, At, Threads, TextsInv
  <2> QED
    BY <1>1, <1>3, <2>1, TakeKeeps
<1>4. CASE DoDeliver(t)
  <2>1. delivered' = delivered /\ pipe' = pipe /\ got' = got /\ hooked' = hooked
    BY <1>4 DEF DoDeliver, body
  <2>2. arrived' = arrived \/ (~hooked /\ arrived' = arrived + Arg(t))
    BY <1>4 DEF DoDeliver
  <2>3. Arg(t) \in Nat
    BY <1>1, <1>4, TailPositions, AppKinds, FeederKinds DEF DoDeliver, At, Threads, TextsInv, Arg
  <2>4. Len(delivered) + Len(pipe) <= arrived' /\ (hooked => Len(delivered) + Len(pipe) = arrived')
    <3>1. Len(delivered) \in Nat /\ Len(pipe) \in Nat /\ Len(delivered) + Len(pipe) <= arrived
      BY <1>1 DEF StreamInv
    <3>2. hooked => Len(delivered) + Len(pipe) = arrived
      BY <1>1 DEF StreamInv
    <3> QED
      BY <1>1, <2>2, <2>3, <3>1, <3>2
  <2> QED
    BY <1>1, <2>1, <2>4 DEF StreamInv
<1>5. CASE DoReturn(t)
  <2>1. /\ delivered' = delivered /\ pipe' = pipe /\ got' = 0 /\ hooked' = hooked
        /\ arrived' = arrived /\ Len(delivered) \in Nat
    BY <1>1, <1>5 DEF DoReturn, feed, StreamInv
  <2> QED
    BY <1>1, <2>1 DEF StreamInv
<1>6. CASE \/ DoWait(t) \/ DoSet(t) \/ DoClear(t) \/ DoStore(t) \/ DoCount(t)
           \/ DoFinish(t) \/ DoUnhook(t) \/ DoShut(t) \/ DoYield(t)
  <2>1. /\ delivered' = delivered /\ pipe' = pipe /\ got' = got /\ arrived' = arrived
        /\ hooked' => hooked
    BY <1>6 DEF DoWait, DoSet, DoClear, DoStore, DoCount, DoFinish, DoUnhook, DoShut, DoYield, feed, body
  <2> QED
    BY <1>1, <2>1 DEF StreamInv
<1> QED
  BY <1>2, <1>3, <1>4, <1>5, <1>6 DEF Step

-----------------------------------------------------------------------------
(* What becomes of the text of the thread that does a step. *)
LEMMA StepTodo ==
  ASSUME IOInv, NEW t \in Threads, Step(t)
  PROVE  /\ todo[t] # <<>> /\ asleep[t] = "none"
         /\ \E code :
              /\ todo' = [todo EXCEPT ![t] = code]
              /\ Len(code) <= Len(todo[t])
              /\ t \in Apps => code \in Seq(AppSteps)
              /\ t = Feeder => code \in Seq(FeederSteps)
              /\ \/ code = Tail(todo[t])
                 \/ code = todo[t] /\ DoTake(t)
                 \/ /\ t = Feeder /\ \E n \in Nat, m \in Nat : code = <<Put(m), Count(n)>>
                    /\ Tail(todo[t])  \in {<<Count(n)>> : n \in Nat}
                    /\ Head(todo[t])[1] \in {"deliver", "put"}
<1>1. TextsInv /\ FeedingInv /\ FeedingInv' /\ (t \in Apps => t # Feeder)
  BY StepFeeding, ThreadsAssumption DEF IOInv
<1>2. todo[t] # <<>> /\ asleep[t] = "none"
  BY DEF Step, DoWait, DoSet, DoClear, DoStore, DoDeliver, DoPut, DoCount, DoFinish, DoUnhook, DoShut,
         DoTake, DoReturn, DoYield, At
<1>3. t \in Apps => todo[t] \in Seq(AppSteps)
  BY <1>1 DEF TextsInv
<1>4. t = Feeder => todo[t] \in Seq(FeederSteps)
  BY <1>1 DEF TextsInv
<1>5. Len(todo[t]) \in Nat /\ Len(Tail(todo[t])) = Len(todo[t]) - 1
  BY <1>2, <1>3, <1>4, TailPositions DEF Threads
<1>6. CASE Done(t)
  <2>1. todo' = [todo EXCEPT ![t] = Tail(todo[t])]
    BY <1>6 DEF Done
  <2>2. Len(Tail(todo[t])) <= Len(todo[t])
    BY <1>5
  <2>3. t \in Apps => Tail(todo[t]) \in Seq(AppSteps)
    BY <1>2, <1>3, TailPositions
  <2>4. t = Feeder => Tail(todo[t]) \in Seq(FeederSteps)
    BY <1>2, <1>4, TailPositions
  <2> QED
    BY <1>2, <2>1, <2>2, <2>3, <2>4
<1>7. CASE DoTake(t)
  <2>1. todo' = [todo EXCEPT ![t] = todo[t]]
    BY <1>1, <1>7 DEF DoTake, TextsInv
  <2>2. Len(todo[t]) <= Len(todo[t])
    BY <1>5
  <2> QED
    BY <1>2, <1>3, <1>4, <1>7, <2>1, <2>2
<1>8. CASE (DoDeliver(t) \/ DoPut(t)) /\ ~Done(t)
  <2>1. t = Feeder /\ Head(todo[t])[1] \in {"deliver", "put"}
    BY <1>1, <1>2, <1>3, <1>8, TailPositions, AppKinds DEF DoDeliver, DoPut, At, Threads
  <2>2. ~(Head(todo[Feeder]) = Wait("body")) /\ \A n \in Nat : ~(Head(todo[Feeder]) = Count(n))
    BY <2>1 DEF Wait, Count
  <2>3. PICK n \in Nat, m \in Nat : /\ Tail(todo[Feeder]) = <<Count(n)>>
                                    /\ Head(todo[Feeder]) \in {Deliver(m), Put(m)}
    BY <1>1, <1>2, <2>1, <2>2, FeedingCases
  <2>4. Arg(Feeder) = m
    BY <2>3 DEF Arg, Deliver, Put
  <2>5. PICK l \in Nat : todo' = [todo EXCEPT ![t] = <<Put(l), Count(n)>>]
    <3>1. CASE DoDeliver(t)
      <4>1. todo' = [todo EXCEPT ![t] = <<Put(m)>> \o <<Count(n)>>]
        BY <1>8, <2>1, <2>3, <2>4, <3>1 DEF DoDeliver
      <4> QED
        BY <2>3, <4>1, BodyTexts
    <3>2. CASE DoPut(t)
      <4> DEFINE k == Lesser(Capacity - Len(pipe), m)
      <4>1. k \in Nat /\ k <= m
        <5>1. Len(pipe) \in Nat /\ Capacity \in Nat /\ Len(pipe) < Capacity
          BY <3>2, SizesAssumption DEF DoPut, IOInv, StreamInv
        <5> QED
          BY <5>1 DEF Lesser
      <4>2. todo' = [todo EXCEPT ![t] = (IF k < m THEN <<Put(m - k)>> ELSE <<>>) \o <<Count(n)>>]
        BY <2>1, <2>3, <2>4, <3>2 DEF DoPut
      <4> HIDE DEF k
      <4>3. CASE k < m
        <5>1. PICK l \in Nat : l = m - k
          BY <4>1, <4>3
        <5>2. todo' = [todo EXCEPT ![t] = <<Put(l), Count(n)>>]
          BY <4>2, <4>3, <5>1, BodyTexts
        <5> QED
          BY <5>2
      <4>4. CASE ~(k < m)
        <5>1. todo' = [todo EXCEPT ![t] = <<Count(n)>>]
          BY <4>2, <4>4, BodyTexts
        <5> QED
          BY <1>8, <2>1, <2>3, <5>1 DEF Done
      <4> QED
        BY <4>3, <4>4
    <3> QED
      BY <1>8, <3>1, <3>2
  <2>6. <<Put(l), Count(n)>> \in Seq(FeederSteps) /\ Len(<<Put(l), Count(n)>>) = 2 /\ Len(<<Count(n)>>) = 1
    BY BodyTexts
  <2>7. Len(todo[t]) = 2
    <3>1. Len(Tail(todo[t])) = 1
      BY <2>1, <2>3, <2>6
    <3> QED
      BY <1>5, <3>1
  <2>8. PICK code : code = <<Put(l), Count(n)>>
    OBVIOUS
  <2>9. /\ todo' = [todo EXCEPT ![t] = code] /\ Len(code) <= Len(todo[t])
        /\ t \in Apps => code \in Seq(AppSteps)
        /\ t = Feeder => code \in Seq(FeederSteps)
    BY <1>1, <2>1, <2>5, <2>6, <2>7, <2>8
  <2>10. \E i \in Nat, j \in Nat : code = <<Put(j), Count(i)>>
    BY <2>3, <2>5, <2>8
  <2>11. Tail(todo[t]) \in {<<Count(i)>> : i \in Nat}
    BY <2>1, <2>3
  <2> QED
    BY <1>2, <2>1, <2>9, <2>10, <2>11
<1> QED
  BY <1>6, <1>7, <1>8 DEF Step, DoWait, DoSet, DoClear, DoStore, DoDeliver, DoPut, DoCount, DoFinish,
     DoUnhook, DoShut, DoTake, DoReturn, DoYield

(* The texts stay the texts of methods and callbacks. *)
LEMMA StepTexts ==
  ASSUME IOInv, NEW t \in Threads, Step(t)
  PROVE  TextsInv'
<1>1. TextsInv
  BY DEF IOInv
<1>2. PICK code : /\ todo' = [todo EXCEPT ![t] = code] /\ Len(code) <= Len(todo[t])
                  /\ t \in Apps => code \in Seq(AppSteps)
                  /\ t = Feeder => code \in Seq(FeederSteps)
  BY StepTodo
<1>3. todo' = [u \in Threads |-> IF u = t THEN code ELSE todo[u]]
  BY <1>1, <1>2 DEF TextsInv
<1>4. todo' = [u \in Threads |-> todo'[u]]
  BY <1>3
<1>5. \A u \in Apps : todo'[u] \in Seq(AppSteps)
  BY <1>1, <1>2, <1>3 DEF TextsInv, Threads
<1>6. todo'[Feeder] \in Seq(FeederSteps)
  BY <1>1, <1>2, <1>3 DEF TextsInv, Threads
<1>7. \A u \in Threads : Len(todo'[u]) <= 9
  <2> SUFFICES ASSUME NEW u \in Threads
               PROVE  Len(todo'[u]) <= 9
    OBVIOUS
  <2>1. Len(todo'[u]) \in Nat /\ Len(todo[u]) \in Nat /\ Len(todo[u]) <= 9
    <3>1. CASE u \in Apps
      BY <1>1, <1>5, <3>1 DEF TextsInv
    <3>2. CASE u = Feeder
      BY <1>1, <1>6, <3>2 DEF TextsInv
    <3> QED
      BY <1>1, <3>1, <3>2 DEF TextsInv, Threads
  <2> QED
    BY <1>2, <1>3, <2>1
<1>8. asleep' \in [Threads -> Events \cup {"none"}]
  <2>1. CASE DoWait(t)
    <3>1. Arg(t) \in Events
      BY <1>1, <2>1, TailPositions, AppKinds, FeederKinds DEF DoWait, At, Threads, TextsInv, Arg
    <3> QED
      BY <1>1, <2>1, <3>1 DEF DoWait, TextsInv
  <2>2. CASE DoSet(t)
    BY <1>1, <2>2 DEF DoSet, TextsInv
  <2>3. CASE ~DoWait(t) /\ ~DoSet(t)
    BY <1>1, <2>3 DEF TextsInv, Step, DoClear, DoStore, DoDeliver, DoPut, DoCount, DoFinish, DoUnhook,
       DoShut, DoTake, DoReturn, DoYield, sync
  <2> QED
    BY <2>1, <2>2, <2>3
<1> QED
  BY <1>4, <1>5, <1>6, <1>7, <1>8 DEF TextsInv

-----------------------------------------------------------------------------
(* A thread about to do an access has what the access needs. *)
LEMMA Needed ==
  ASSUME IOInv, NEW t \in Threads, todo[t] # <<>>, NEW f \in FactNames, Needs(Head(todo[t]), f)
  PROVE  Holds(t, f)
<1>1. todo[t] \in Seq(AppSteps) \/ todo[t] \in Seq(FeederSteps)
  BY DEF IOInv, TextsInv, Threads
<1>2. Promise(Known(t), todo[t])
  BY DEF IOInv, PromiseInv
<1>3. f \in Known(t)
  BY <1>1, <1>2, HeadProvided
<1> QED
  BY <1>3 DEF Known

(* Facts stay true. *)
LEMMA FactsStay ==
  ASSUME IOInv, NEW t \in Threads, Step(t), NEW u \in Threads, NEW f \in FactNames, Holds(u, f)
  PROVE  Holds(u, f)'
<1>1. /\ InputInv /\ TextsInv /\ FeedingInv /\ FeedingInv' /\ arrived \in Nat /\ size \in Nat
      /\ Found \in Nat /\ Found <= BodyLength /\ BodyLength \in Nat
  BY StepFeeding, FoundRange DEF IOInv, FeedingInv
<1>2. todo[t] # <<>> /\ asleep[t] = "none"
  BY StepTodo
<1>3. CASE ~hooked
  <2>1. ~hooked'
    BY <1>3 DEF Step, DoWait, DoSet, DoClear, DoStore, DoDeliver, DoPut, DoCount, DoFinish, DoUnhook,
       DoShut, DoTake, DoReturn, DoYield
  <2> QED
    BY <2>1 DEF Holds
<1>4. CASE "on_headers_complete" \in parsed /\ f \in {"headers", "awaits headers"}
  <2>1. "on_headers_complete" \in parsed'
    BY <1>4 DEF Step, DoWait, DoSet, DoClear, DoStore, DoDeliver, DoPut, DoCount, DoFinish, DoUnhook,
       DoShut, DoTake, DoReturn, DoYield, feed
  <2> QED
    BY <1>4, <2>1 DEF Holds
<1>5. CASE f = "url" /\ ("on_url" \in parsed \/ NoUrl)
  <2>1. "on_url" \in parsed => "on_url" \in parsed'
    BY DEF Step, DoWait, DoSet, DoClear, DoStore, DoDeliver, DoPut, DoCount, DoFinish, DoUnhook,
       DoShut, DoTake, DoReturn, DoYield, feed
  <2> QED
    BY <1>5, <2>1 DEF Holds
<1>6. CASE f = "awaits headers" /\ asleep[u] = "header"
  <2>1. CASE asleep'[u] = "header"
    BY <1>6, <2>1 DEF Holds
  <2>2. CASE asleep'[u] # "header"
    <3>1. u # t
      BY <1>2, <1>6
    <3>2. ~DoWait(t)
      BY <1>1, <1>6, <2>2, <3>1 DEF DoWait, TextsInv
    <3>3. DoSet(t)
      BY <1>6, <2>2, <3>2 DEF Step, DoClear, DoStore, DoDeliver, DoPut, DoCount, DoFinish, DoUnhook,
         DoShut, DoTake, DoReturn, DoYield, sync
    <3>4. Arg(t) = "header" /\ Head(todo[t])[1] = "set"
      BY <1>6, <2>2, <3>3 DEF DoSet, At
    <3>5. Head(todo[t]) = Set("header")
      BY <1>1, <1>2, <3>4, TailPositions, AppKinds, FeederKinds DEF Threads, TextsInv, Arg
    <3>6. Holds(t, "headers")
      BY <1>2, <3>5, Needed DEF Needs, FactNames
    <3>7. hooked' = hooked /\ parsed' = parsed
      BY <3>3 DEF DoSet, feed
    <3> QED
      BY <1>6, <3>6, <3>7 DEF Holds
  <2> QED
    BY <2>1, <2>2
<1>7. CASE f = "sized" /\ size = BodyLength
  <2>1. CASE DoCount(t)
    <3>1. t = Feeder /\ Head(todo[t])[1] = "count"
      BY <1>1, <1>2, <2>1, TailPositions, AppKinds DEF DoCount, At, Threads, TextsInv
    <3>2. ~(Head(todo[Feeder]) = Wait("body")) /\ \A n \in Nat : ~(Head(todo[Feeder]) \in {Deliver(n), Put(n)})
      BY <3>1 DEF Wait, Deliver, Put
    <3>3. PICK n \in Nat : Head(todo[Feeder]) = Count(n) /\ size + n = Found
      BY <1>1, <1>2, <3>1, <3>2, FeedingCases
    <3>4. Arg(t) = n /\ size' = size + Arg(t)
      BY <2>1, <3>1, <3>3 DEF Arg, Count, DoCount
    <3>5. size' = BodyLength
      BY <1>1, <1>7, <3>3, <3>4
    <3> QED
      BY <1>7, <3>5 DEF Holds
  <2>2. CASE ~DoCount(t)
    <3>1. size' = size
      BY <2>2 DEF Step, DoWait, DoSet, DoClear, DoStore, DoDeliver, DoPut, DoFinish, DoUnhook,
         DoShut, DoTake, DoReturn, DoYield, feed
    <3> QED
      BY <1>7, <3>1 DEF Holds
  <2> QED
    BY <2>1, <2>2
<1>8. CASE f = "arrived" /\ arrived = BodyLength /\ hooked
  <2>1. CASE DoPut(t)
    <3>1. t = Feeder /\ Head(todo[t])[1] = "put"
      BY <1>1, <1>2, <2>1, TailPositions, AppKinds DEF DoPut, At, Threads, TextsInv
    <3>2. ~(Head(todo[Feeder]) = Wait("body")) /\ \A n \in Nat : ~(Head(todo[Feeder]) \in {Deliver(n), Count(n)})
      BY <3>1 DEF Wait, Deliver, Count
    <3>3. PICK m \in Nat : Head(todo[Feeder]) = Put(m) /\ arrived + m = Found
      BY <1>1, <1>2, <3>1, <3>2, FeedingCases
    <3>4. Arg(t) = m /\ m = 0
      BY <1>1, <1>8, <3>1, <3>3 DEF Arg, Put
    <3>5. Len(pipe) \in Nat /\ Capacity \in Nat /\ Len(pipe) < Capacity
      BY <2>1, SizesAssumption DEF DoPut, IOInv, StreamInv
    <3>6. Lesser(Capacity - Len(pipe), Arg(t)) = 0
      BY <3>4, <3>5 DEF Lesser
    <3>7. arrived' = BodyLength
      BY <1>1, <1>8, <2>1, <3>6 DEF DoPut
    <3> QED
      BY <1>8, <3>7 DEF Holds
  <2>2. CASE ~DoPut(t)
    <3>1. arrived' = arrived
      BY <1>8, <2>2 DEF Step, DoWait, DoSet, DoClear, DoStore, DoDeliver, DoCount, DoFinish, DoUnhook,
         DoShut, DoTake, DoReturn, DoYield, feed
    <3> QED
      BY <1>8, <3>1 DEF Holds
  <2> QED
    BY <2>1, <2>2
<1> QED
  BY <1>3, <1>4, <1>5, <1>6, <1>7, <1>8 DEF Holds

(* Each thread finds what it needs. *)
LEMMA StepPromise ==
  ASSUME IOInv, NEW t \in Threads, Step(t)
  PROVE  PromiseInv'
<1>1. TextsInv /\ PromiseInv
  BY DEF IOInv
<1>2. \A u \in Threads : \A f \in FactNames : f \in Known(u) => f \in Known(u)'
  BY FactsStay DEF Known
<1>3. todo[t] # <<>> /\ asleep[t] = "none"
  BY StepTodo
<1>4. ASSUME NEW u \in Threads, todo'[u] = todo[u]
      PROVE  Promise(Known(u)', todo'[u])
  <2>1. Promise(Known(u), todo[u])
    BY <1>1 DEF PromiseInv
  <2> QED
    BY <1>2, <1>4, <2>1, PromiseGrows
<1>5. PICK code : /\ todo' = [todo EXCEPT ![t] = code]
                  /\ \/ code = Tail(todo[t])
                     \/ code = todo[t]
                     \/ t = Feeder /\ \E n \in Nat, m \in Nat : code = <<Put(m), Count(n)>>
  BY StepTodo
<1>6. todo' = [u \in Threads |-> IF u = t THEN code ELSE todo[u]]
  BY <1>1, <1>5 DEF TextsInv
<1>7. Promise(Known(t)', todo'[t])
  <2>1. CASE code = todo[t]
    BY <1>4, <1>6, <2>1
  <2>2. ASSUME NEW n \in Nat, NEW m \in Nat, code = <<Put(m), Count(n)>>
        PROVE  Promise(Known(t)', todo'[t])
    <3>1. DOMAIN code = {1, 2} /\ code[1] = Put(m) /\ code[2] = Count(n)
      BY <2>2
    <3>2. \A f \in FactNames : ~Needs(Put(m), f) /\ ~Needs(Count(n), f)
      BY DEF Needs, Put, Count, Set, Yield, Finish, Shut
    <3> QED
      BY <1>6, <3>1, <3>2 DEF Promise
  <2>3. CASE code = Tail(todo[t])
    <3>1. ASSUME NEW f \in FactNames, f \in Known(t) \/ Provides(Head(todo[t]), f)
          PROVE  f \in Known(t)'
      <4>1. CASE f \in Known(t)
        BY <1>2, <4>1
      <4>2. CASE Head(todo[t]) = Unhook
        <5>1. Head(todo[t])[1] = "unhook"
          BY <4>2 DEF Unhook
        <5>2. ~hooked'
          BY <1>3, <5>1 DEF Step, At, DoWait, DoSet, DoClear, DoStore, DoDeliver, DoPut, DoCount,
             DoFinish, DoUnhook, DoShut, DoTake, DoReturn, DoYield
        <5> QED
          BY <5>2 DEF Known, Holds
      <4>3. CASE Head(todo[t]) = Store("on_headers_complete") /\ f \in {"headers", "awaits headers"}
        <5> DEFINE a == Head(todo[t])
        <5>1. a[1] = "store" /\ a[2] = "on_headers_complete" /\ Arg(t) = a[2]
          <6>1. Arg(t) = a[2]
            BY DEF Arg
          <6> HIDE DEF a
          <6>2. a = <<"store", "on_headers_complete">>
            BY <4>3 DEF Store, a
          <6> QED
            BY <6>1, <6>2
        <5>2. "on_headers_complete" \in parsed'
          BY <1>3, <5>1 DEF Step, At, DoWait, DoSet, DoClear, DoStore, DoDeliver, DoPut, DoCount,
             DoFinish, DoUnhook, DoShut, DoTake, DoReturn, DoYield
        <5> QED
          BY <4>3, <5>2 DEF Known, Holds
      <4>4. CASE Head(todo[t]) = Wait("header") /\ f = "awaits headers"
        <5> DEFINE a == Head(todo[t])
        <5>1. a[1] = "wait" /\ a[2] = "header" /\ Arg(t) = a[2]
          <6>1. Arg(t) = a[2]
            BY DEF Arg
          <6> HIDE DEF a
          <6>2. a = <<"wait", "header">>
            BY <4>4 DEF Wait, a
          <6> QED
            BY <6>1, <6>2
        <5>2. DoWait(t)
          BY <1>3, <5>1 DEF Step, At, DoSet, DoClear, DoStore, DoDeliver, DoPut, DoCount,
             DoFinish, DoUnhook, DoShut, DoTake, DoReturn, DoYield
        <5>3. asleep'[t] = "header" \/ "header" \in events
          BY <1>1, <5>1, <5>2 DEF DoWait, TextsInv
        <5>4. "header" \in events => Holds(Feeder, "headers")
          BY DEF IOInv, FactsInv
        <5>5. hooked' = hooked /\ parsed' = parsed
          BY <5>2 DEF DoWait, feed
        <5> QED
          BY <4>4, <5>3, <5>4, <5>5 DEF Known, Holds
      <4> QED
        BY <3>1, <4>1, <4>2, <4>3, <4>4 DEF Provides
    <3>2. todo[t] \in Seq(AppSteps) \/ todo[t] \in Seq(FeederSteps)
      BY <1>1 DEF TextsInv, Threads
    <3>3. Promise(Known(t), todo[t])
      BY <1>1 DEF PromiseInv
    <3>4. Promise(Known(t)', Tail(todo[t]))
      BY <1>3, <3>1, <3>2, <3>3, PromisePops
    <3> QED
      BY <1>6, <2>3, <3>4
  <2> QED
    BY <1>5, <2>1, <2>2, <2>3
<1>8. \A u \in Threads : u # t => todo'[u] = todo[u]
  BY <1>6
<1> QED
  BY <1>4, <1>7, <1>8 DEF PromiseInv

(* What the events, the end of the pipe and the histories say stays true. *)
LEMMA StepFacts ==
  ASSUME IOInv, NEW t \in Threads, Step(t)
  PROVE  FactsInv'
<1>1. /\ InputInv /\ TextsInv /\ FeedingInv /\ FeedingInv' /\ StreamInv /\ StreamInv' /\ FactsInv
      /\ Feeder \in Threads
  BY StepFeeding, StepStream DEF IOInv, Threads
<1>2. todo[t] # <<>> /\ asleep[t] = "none"
  BY StepTodo
<1>3. Head(todo[t]) \in AppSteps \/ Head(todo[t]) \in FeederSteps
  BY <1>1, <1>2, TailPositions DEF TextsInv, Threads
<1>4. events' \subseteq Events
  <2>1. DoSet(t) => Arg(t) \in Events
    BY <1>3, AppKinds, FeederKinds DEF DoSet, At, Arg
  <2>2. events \subseteq Events
    BY <1>1 DEF FactsInv
  <2>3. CASE DoSet(t)
    BY <2>1, <2>2, <2>3 DEF DoSet
  <2>4. CASE ~DoSet(t)
    BY <2>2, <2>4 DEF Step, DoWait, DoClear, DoStore, DoDeliver, DoPut, DoCount, DoFinish,
       DoUnhook, DoShut, DoTake, DoReturn, DoYield, sync
  <2> QED
    BY <2>3, <2>4
<1>5. parsed' \subseteq CallbackNames
  <2>1. DoStore(t) => Arg(t) \in CallbackNames
    BY <1>3, AppKinds, FeederKinds DEF DoStore, At, Arg
  <2> QED
    BY <1>1, <2>1 DEF FactsInv, Step, DoWait, DoSet, DoClear, DoStore, DoDeliver, DoPut, DoCount, DoFinish,
       DoUnhook, DoShut, DoTake, DoReturn, DoYield, feed
<1>6. hooked' \in BOOLEAN /\ linked' \in BOOLEAN
  BY <1>1 DEF FactsInv, Step, DoWait, DoSet, DoClear, DoStore, DoDeliver, DoPut, DoCount, DoFinish,
     DoUnhook, DoShut, DoTake, DoReturn, DoYield, feed
<1>7. eof' \in BOOLEAN
  BY <1>1 DEF FactsInv, Step, DoWait, DoSet, DoClear, DoStore, DoDeliver, DoPut, DoCount, DoFinish,
     DoUnhook, DoShut, DoTake, DoReturn, DoYield, body
<1>8. ended' \in BOOLEAN
  BY <1>1 DEF FactsInv, Step, DoWait, DoSet, DoClear, DoStore, DoDeliver, DoPut, DoCount, DoFinish,
     DoUnhook, DoShut, DoTake, DoReturn, DoYield, body
<1>9. partial' \in BOOLEAN
  BY <1>1 DEF FactsInv, Step, DoWait, DoSet, DoClear, DoStore, DoDeliver, DoPut, DoCount, DoFinish,
     DoUnhook, DoShut, DoTake, DoReturn, DoYield, body
<1>10. ASSUME NEW e \in Events, NEW f \in FactNames, e \in events => Holds(Feeder, f),
              Needs(Set(e), f), f # "awaits headers", e \in events'
       PROVE  Holds(Feeder, f)'
  <2>1. CASE e \in events
    BY <1>1, <1>10, <2>1, FactsStay
  <2>2. CASE e \notin events
    <3>1. DoSet(t) /\ Arg(t) = e
      BY <1>10, <2>2 DEF Step, DoWait, DoSet, DoClear, DoStore, DoDeliver, DoPut, DoCount, DoFinish,
         DoUnhook, DoShut, DoTake, DoReturn, DoYield, sync
    <3>2. Head(todo[t])[1] = "set"
      BY <3>1 DEF DoSet, At
    <3>3. Head(todo[t]) = Set(e)
      BY <1>3, <3>1, <3>2, AppKinds, FeederKinds DEF Arg
    <3>4. Holds(t, f)
      BY <1>2, <1>10, <3>3, Needed
    <3>5. Holds(Feeder, f)
      BY <1>10, <3>4 DEF Holds
    <3> QED
      BY <1>1, <3>5, FactsStay
  <2> QED
    BY <2>1, <2>2
<1>11. "header" \in events' => Holds(Feeder, "headers")'
  <2>1. "header" \in Events /\ "headers" \in FactNames /\ Needs(Set("header"), "headers")
    BY DEF Events, FactNames, Needs
  <2>2. "header" \in events => Holds(Feeder, "headers")
    BY <1>1 DEF FactsInv
  <2> QED
    BY <1>10, <2>1, <2>2
<1>12. "url" \in events' => Holds(Feeder, "url")'
  <2>1. "url" \in Events /\ "url" \in FactNames /\ Needs(Set("url"), "url")
    BY DEF Events, FactNames, Needs
  <2>2. "url" \in events => Holds(Feeder, "url")
    BY <1>1 DEF FactsInv
  <2> QED
    BY <1>10, <2>1, <2>2
<1>13. "message" \in events' => Holds(Feeder, "sized")'
  <2>1. "message" \in Events /\ "sized" \in FactNames /\ Needs(Set("message"), "sized")
    BY DEF Events, FactNames, Needs
  <2>2. "message" \in events => Holds(Feeder, "sized")
    BY <1>1 DEF FactsInv
  <2> QED
    BY <1>10, <2>1, <2>2
<1>14. eof' => Holds(Feeder, "arrived")'
  <2>1. "arrived" \in FactNames
    BY DEF FactNames
  <2>2. CASE eof
    <3>1. Holds(Feeder, "arrived")
      BY <1>1, <2>2 DEF FactsInv
    <3> QED
      BY <1>1, <2>1, <3>1, FactsStay
  <2>3. CASE DoFinish(t) \/ DoShut(t)
    <3>1. Head(todo[t]) \in {Finish, Shut}
      BY <1>3, <2>3, AppKinds, FeederKinds DEF DoFinish, DoShut, At
    <3>2. Needs(Head(todo[t]), "arrived")
      BY <3>1 DEF Needs
    <3>3. Holds(t, "arrived")
      BY <1>2, <2>1, <3>2, Needed
    <3>4. Holds(Feeder, "arrived")
      BY <3>3 DEF Holds
    <3> QED
      BY <1>1, <2>1, <3>4, FactsStay
  <2>4. CASE ~eof /\ ~DoFinish(t) /\ ~DoShut(t)
    BY <2>4 DEF Step, DoWait, DoSet, DoClear, DoStore, DoDeliver, DoPut, DoCount,
       DoUnhook, DoTake, DoReturn, DoYield, body
  <2> QED
    BY <2>2, <2>3, <2>4
<1>15. ended' /\ hooked' => Len(delivered') = BodyLength
  <2> SUFFICES ASSUME ended', hooked'
               PROVE  Len(delivered') = BodyLength
    OBVIOUS
  <2>1. hooked
    BY DEF Step, DoWait, DoSet, DoClear, DoStore, DoDeliver, DoPut, DoCount, DoFinish,
       DoUnhook, DoShut, DoTake, DoReturn, DoYield
  <2>2. /\ Len(delivered) \in Nat /\ Len(pipe) \in Nat /\ arrived \in Nat /\ got \in Nat
        /\ Found \in Nat /\ Found <= BodyLength /\ BodyLength \in Nat
        /\ Len(delivered) + Len(pipe) = arrived
    BY <1>1, <2>1, FoundRange DEF StreamInv, FeedingInv
  <2>3. CASE ended
    <3>1. Len(delivered) = BodyLength
      BY <1>1, <2>1, <2>3 DEF FactsInv
    <3>2. CASE DoTake(t)
      <4>1. arrived <= Found
        BY <1>1, <2>2 DEF FeedingInv, Between, Delivering, Putting, Counting
      <4>2. pipe = <<>>
        BY <1>1, <2>2, <3>1, <4>1 DEF StreamInv
      <4> QED
        BY <3>2, <4>2 DEF DoTake
    <3>3. CASE ~DoTake(t)
      <4>1. delivered' = delivered
        BY <3>3 DEF Step, DoWait, DoSet, DoClear, DoStore, DoDeliver, DoPut, DoCount, DoFinish,
           DoUnhook, DoShut, DoReturn, DoYield, body
      <4> QED
        BY <3>1, <4>1
    <3> QED
      BY <3>2, <3>3
  <2>4. CASE ~ended
    <3>1. DoReturn(t) /\ got = 0
      BY <2>4 DEF Step, DoWait, DoSet, DoClear, DoStore, DoDeliver, DoPut, DoCount, DoFinish,
         DoUnhook, DoShut, DoTake, DoReturn, DoYield, body
    <3>2. Arg(t) \in Int \ {0}
      BY <1>3, <3>1, AppKinds, FeederKinds DEF DoReturn, At, Arg
    <3>3. pipe = <<>> /\ eof
      BY <3>1, <3>2 DEF DoReturn, Enough
    <3>4. arrived = BodyLength
      BY <1>1, <2>1, <3>3 DEF FactsInv, Holds
    <3>5. Len(delivered) = BodyLength
      BY <2>2, <3>3, <3>4
    <3> QED
      BY <3>1, <3>5 DEF DoReturn
  <2> QED
    BY <2>3, <2>4
<1>16. partial' => ~hooked'
  <2>1. CASE partial
    BY <1>1, <2>1 DEF FactsInv, Step, DoWait, DoSet, DoClear, DoStore, DoDeliver, DoPut, DoCount, DoFinish,
       DoUnhook, DoShut, DoTake, DoReturn, DoYield
  <2>2. CASE partial' /\ ~partial
    <3>1. DoYield(t) /\ Arg(t) = "on_headers_complete" /\ "on_headers_complete" \notin parsed
      BY <2>2 DEF Step, DoWait, DoSet, DoClear, DoStore, DoDeliver, DoPut, DoCount, DoFinish,
         DoUnhook, DoShut, DoTake, DoReturn, DoYield, body
    <3>2. Head(todo[t])[1] = "yield"
      BY <3>1 DEF DoYield, At
    <3>3. Head(todo[t]) = Yield("on_headers_complete")
      BY <1>3, <3>1, <3>2, AppKinds, FeederKinds DEF Arg
    <3>4. "awaits headers" \in FactNames /\ Needs(Head(todo[t]), "awaits headers")
      BY <3>3 DEF FactNames, Needs
    <3>5. Holds(t, "awaits headers")
      BY <1>2, <3>4, Needed
    <3>6. ~hooked
      BY <1>2, <3>1, <3>5 DEF Holds
    <3> QED
      BY <3>1, <3>6 DEF DoYield
  <2> QED
    BY <2>1, <2>2
<1> QED
  BY <1>4, <1>5, <1>6, <1>7, <1>8, <1>9, <1>11, <1>12, <1>13, <1>14, <1>15, <1>16 DEF FactsInv

(* What the parser has found is stored in time. *)
LEMMA StepStored ==
  ASSUME IOInv, NEW t \in Threads, Step(t)
  PROVE  StoredInv'
<1> SUFFICES ASSUME NEW i \in 1 .. Consumed', Message[i][1] \in {"on_url", "on_headers_complete"},
                    Message[i][1] \notin parsed'
             PROVE  \E j \in DOMAIN todo'[Feeder] : todo'[Feeder][j] = Store(Message[i][1])
  BY DEF StoredInv
<1>1. TextsInv /\ FeedingInv /\ StoredInv /\ Feeder \in Threads
  BY DEF IOInv, Threads
<1>2. parsed \subseteq parsed' /\ Consumed' = Consumed
  BY DEF Step, DoWait, DoSet, DoClear, DoStore, DoDeliver, DoPut, DoCount, DoFinish,
     DoUnhook, DoShut, DoTake, DoReturn, DoYield, feed, Consumed
<1>3. PICK j \in DOMAIN todo[Feeder] : todo[Feeder][j] = Store(Message[i][1])
  BY <1>1, <1>2 DEF StoredInv
<1>4. PICK code : /\ todo' = [todo EXCEPT ![t] = code]
                  /\ \/ code = Tail(todo[t])
                     \/ code = todo[t]
                     \/ /\ t = Feeder /\ Tail(todo[t]) \in {<<Count(n)>> : n \in Nat}
                        /\ Head(todo[t])[1] \in {"deliver", "put"}
  BY StepTodo
<1>5. todo'[Feeder] = IF t = Feeder THEN code ELSE todo[Feeder]
  BY <1>1, <1>4 DEF TextsInv
<1>6. CASE t # Feeder \/ code = todo[t]
  BY <1>3, <1>5, <1>6
<1>7. CASE t = Feeder
  <2>1. todo[Feeder] \in Seq(FeederSteps) /\ todo[Feeder] # <<>>
    BY <1>1, <1>7, StepTodo DEF TextsInv
  <2>2. j \in 1 .. Len(todo[Feeder]) /\ Len(todo[Feeder]) \in Nat
    BY <1>3, <2>1
  <2>3. j # 1
    <3>1. CASE j = 1
      <4>1. Head(todo[Feeder]) = Store(Message[i][1])
        BY <1>3, <2>1, <3>1, TailPositions
      <4>2. Head(todo[Feeder])[1] = "store" /\ Arg(Feeder) = Message[i][1]
        BY <4>1 DEF Store, Arg
      <4>3. DoStore(Feeder)
        BY <1>7, <4>2 DEF Step, At, DoWait, DoSet, DoClear, DoDeliver, DoPut, DoCount, DoFinish,
           DoUnhook, DoShut, DoTake, DoReturn, DoYield
      <4> QED
        BY <4>2, <4>3 DEF DoStore
    <3> QED
      BY <3>1
  <2>4. j - 1 \in 1 .. Len(todo[Feeder]) - 1 /\ (j - 1) + 1 = j
    BY <2>2, <2>3
  <2>5. j - 1 \in DOMAIN Tail(todo[Feeder]) /\ Tail(todo[Feeder])[j - 1] = Store(Message[i][1])
    BY <1>3, <2>1, <2>4, TailPositions
  <2>6. CASE code = Tail(todo[t])
    BY <1>5, <1>7, <2>5, <2>6
  <2>7. ASSUME NEW n \in Nat, Tail(todo[Feeder]) = <<Count(n)>>
        PROVE  FALSE
    <3>1. DOMAIN <<Count(n)>> = {1} /\ <<Count(n)>>[1] = Count(n)
      OBVIOUS
    <3>2. j - 1 = 1
      BY <2>5, <2>7, <3>1
    <3>3. Store(Message[i][1]) = Count(n)
      BY <2>5, <2>7, <3>1, <3>2
    <3> QED
      BY <3>3 DEF Store, Count
  <2> QED
    BY <1>4, <1>6, <1>7, <2>6, <2>7
<1> QED
  BY <1>6, <1>7

(* A step of a method or of a callback keeps the invariant. *)
LEMMA StepIOInv ==
  ASSUME IOInv, NEW t \in Threads, Step(t)
  PROVE  IOInv'
<1>1. input' = input
  BY DEF Step, DoWait, DoSet, DoClear, DoStore, DoDeliver, DoPut, DoCount, DoFinish, DoUnhook, DoShut,
         DoTake, DoReturn, DoYield, feed
<1>2. InputInv'
  BY <1>1 DEF IOInv, InputInv, Consumed
<1> QED
  BY <1>2, StepTexts, StepFeeding, StepStream, StepPromise, StepFacts, StepStored DEF IOInv

-----------------------------------------------------------------------------
(* drain() goes first in close(): from then on every fact holds. *)
LEMMA UnhookedFirst ==
  ASSUME NEW X, NEW code \in Seq(X), Len(code) # 0, code[1] = Unhook
  PROVE  Promise({}, code)
<1> SUFFICES ASSUME NEW i \in DOMAIN code, NEW f \in FactNames, Needs(code[i], f)
             PROVE  Provided(code, i, f)
  BY DEF Promise
<1>1. i \in 1 .. Len(code) /\ Len(code) \in Nat
  OBVIOUS
<1>2. ~Needs(Unhook, f)
  BY DEF Needs, Unhook, Set, Yield, Finish, Shut
<1>3. i # 1
  BY <1>2
<1>4. 1 \in 1 .. i - 1 /\ Provides(code[1], f)
  BY <1>1, <1>3 DEF Provides
<1> QED
  BY <1>4 DEF Provided

(* close() of the application and close() of the feeder. *)
LEMMA CloseText ==
  /\ CloseSteps \in Seq(AppSteps) /\ CloseSteps \in Seq(FeederSteps)
  /\ Len(CloseSteps) = 9 /\ CloseSteps[1] = Unhook
  /\ Plain(CloseSteps) /\ Promise({}, CloseSteps)
<1> DEFINE Both == EventSteps \cup {Unhook, Shut}
<1>1. \A e \in Events : Set(e) \in Both
  BY DEF EventSteps, Set
<1>2. Unhook \in Both /\ Shut \in Both
  OBVIOUS
<1>3. {"ready", "message", "body", "header", "chunk", "status", "url"} \subseteq Events
  BY DEF Events
<1> HIDE DEF Both
<1>4. Drain \in Seq(Both) /\ <<Shut>> \in Seq(Both)
  <2>1. /\ Set("ready") \in Both /\ Set("message") \in Both /\ Set("body") \in Both
        /\ Set("header") \in Both /\ Set("chunk") \in Both /\ Set("status") \in Both
        /\ Set("url") \in Both
    BY <1>1, <1>3
  <2> QED
    BY <1>2, <2>1 DEF Drain
<1>5. Len(Drain) = 8 /\ Len(<<Shut>>) = 1 /\ Drain[1] = Unhook
  <2>1. Len(Drain) = 8
    BY DEF Drain
  <2>2. Drain[1] = Unhook
    BY DEF Drain
  <2> QED
    BY <2>1, <2>2
<1>6. CloseSteps \in Seq(Both) /\ Len(CloseSteps) = 9 /\ CloseSteps[1] = Unhook
  <2>1. /\ Drain \o <<Shut>> \in Seq(Both) /\ Len(Drain \o <<Shut>>) = Len(Drain) + Len(<<Shut>>)
        /\ \A i \in 1 .. Len(Drain) + Len(<<Shut>>) :
             (Drain \o <<Shut>>)[i] = IF i <= Len(Drain) THEN Drain[i] ELSE <<Shut>>[i - Len(Drain)]
    BY <1>4, ConcatProperties
  <2> HIDE DEF Drain
  <2>2. (Drain \o <<Shut>>)[1] = Drain[1]
    BY <1>5, <2>1
  <2> QED
    BY <1>5, <2>1, <2>2 DEF CloseSteps
<1>7. Both \subseteq AppSteps /\ Both \subseteq FeederSteps
  BY DEF Both, AppSteps, FeederSteps
<1>8. CloseSteps \in Seq(AppSteps) /\ CloseSteps \in Seq(FeederSteps)
  BY <1>6, <1>7, SeqMonotonic
<1>9. \A a \in Both : a[1] \notin {"deliver", "put", "count"}
  BY DEF Both, EventSteps, Unhook, Shut
<1>10. Plain(CloseSteps)
  <2>1. ASSUME NEW i \in DOMAIN CloseSteps
        PROVE  CloseSteps[i] \in Both
    <3>1. i \in 1 .. Len(CloseSteps)
      BY <1>6
    <3> QED
      BY <1>6, <3>1, ElementOfSeq
  <2> QED
    BY <1>9, <2>1 DEF Plain
<1>11. Promise({}, CloseSteps)
  <2>1. Len(CloseSteps) # 0
    BY <1>6
  <2> QED
    BY <1>6, <2>1, UnhookedFirst
<1> QED
  BY <1>6, <1>8, <1>10, <1>11

(* A read() needs nothing, and a getter waits for what it returns. *)
LEMMA MethodTexts ==
  /\ <<>> \in Seq(AppSteps) /\ Promise({}, <<>>)
  /\ HeadersSteps \in Seq(AppSteps) /\ Len(HeadersSteps) = 3 /\ Promise({}, HeadersSteps)
  /\ \A n \in ReadSizes :
       ReadSteps(n) \in Seq(AppSteps) /\ Len(ReadSteps(n)) = 4 /\ Promise({}, ReadSteps(n))
<1>1. /\ Wait("ready") \in AppSteps /\ Wait("header") \in AppSteps
      /\ Set("body") \in AppSteps /\ Clear("body") \in AppSteps
      /\ Yield("on_headers_complete") \in AppSteps
  BY DEF AppSteps, EventSteps, Events, CallbackNames, Wait, Set, Clear, Yield
<1>2. \A n \in ReadSizes : Fetch(n) \in AppSteps
  BY SizesAssumption DEF AppSteps, Fetch
<1>3. ASSUME NEW f \in FactNames
      PROVE  /\ ~Needs(Wait("ready"), f) /\ ~Needs(Wait("header"), f)
             /\ ~Needs(Set("body"), f) /\ ~Needs(Clear("body"), f)
             /\ \A n \in ReadSizes : ~Needs(Fetch(n), f)
             /\ Needs(Yield("on_headers_complete"), f) => f = "awaits headers"
  BY DEF Needs, Wait, Set, Clear, Fetch, Yield, Finish, Shut
<1>4. Promise({}, <<>>)
  BY DEF Promise
<1>5. HeadersSteps \in Seq(AppSteps) /\ Len(HeadersSteps) = 3
  BY <1>1 DEF HeadersSteps
<1>6. Promise({}, HeadersSteps)
  <2>1. /\ DOMAIN HeadersSteps = {1, 2, 3} /\ HeadersSteps[1] = Wait("ready")
        /\ HeadersSteps[2] = Wait("header") /\ HeadersSteps[3] = Yield("on_headers_complete")
    BY DEF HeadersSteps
  <2>2. Provided(HeadersSteps, 3, "awaits headers")
    <3>1. 2 \in 1 .. 3 - 1 /\ Provides(Wait("header"), "awaits headers")
      BY DEF Provides
    <3> QED
      BY <2>1, <3>1 DEF Provided
  <2> QED
    BY <1>3, <2>1, <2>2 DEF Promise
<1>7. ASSUME NEW n \in ReadSizes
      PROVE  ReadSteps(n) \in Seq(AppSteps) /\ Len(ReadSteps(n)) = 4 /\ Promise({}, ReadSteps(n))
  <2>1. ReadSteps(n) \in Seq(AppSteps) /\ Len(ReadSteps(n)) = 4
    BY <1>1, <1>2 DEF ReadSteps
  <2>2. /\ DOMAIN ReadSteps(n) = {1, 2, 3, 4} /\ ReadSteps(n)[1] = Wait("ready")
        /\ ReadSteps(n)[2] = Set("body") /\ ReadSteps(n)[3] = Fetch(n) /\ ReadSteps(n)[4] = Clear("body")
    BY DEF ReadSteps
  <2> QED
    BY <1>3, <2>1, <2>2 DEF Promise
<1> QED
  BY <1>1, <1>4, <1>5, <1>6, <1>7

(* A text of waits for events, all of them typed. *)
LEMMA OtherTexts ==
  ASSUME NEW e \in Events, NEW name \in CallbackNames, name # "on_headers_complete"
  PROVE  /\ <<Wait("ready"), Set("body"), Wait(e)>> \in Seq(AppSteps)
         /\ Len(<<Wait("ready"), Set("body"), Wait(e)>>) = 3
         /\ Promise({}, <<Wait("ready"), Set("body"), Wait(e)>>)
         /\ <<Wait("ready"), Set("body")>> \in Seq(AppSteps)
         /\ Len(<<Wait("ready"), Set("body")>>) = 2
         /\ Promise({}, <<Wait("ready"), Set("body")>>)
         /\ <<Wait("ready"), Wait(e), Yield(name)>> \in Seq(AppSteps)
         /\ Len(<<Wait("ready"), Wait(e), Yield(name)>>) = 3
         /\ Promise({}, <<Wait("ready"), Wait(e), Yield(name)>>)
<1>1. /\ Wait("ready") \in AppSteps /\ Wait(e) \in AppSteps
      /\ Set("body") \in AppSteps /\ Yield(name) \in AppSteps
  BY DEF AppSteps, EventSteps, Events, Wait, Set, Yield
<1>2. \A f \in FactNames : /\ ~Needs(Wait("ready"), f) /\ ~Needs(Wait(e), f)
                           /\ ~Needs(Set("body"), f) /\ ~Needs(Yield(name), f)
  BY DEF Needs, Wait, Set, Yield, Finish, Shut
<1>3. Promise({}, <<Wait("ready"), Set("body"), Wait(e)>>)
  BY <1>2 DEF Promise
<1>4. Promise({}, <<Wait("ready"), Set("body")>>)
  BY <1>2 DEF Promise
<1>5. Promise({}, <<Wait("ready"), Wait(e), Yield(name)>>)
  BY <1>2 DEF Promise
<1> QED
  BY <1>1, <1>3, <1>4, <1>5

(* The methods of the application. *)
LEMMA OperationTexts ==
  ASSUME NEW n \in ReadSizes, NEW t \in Apps, NEW op \in Operations[t]
  PROVE  /\ Operation(n)[op] \in Seq(AppSteps) /\ Len(Operation(n)[op]) <= 9
         /\ Promise({}, Operation(n)[op])
<1> DEFINE code == Operation(n)[op]
<1>1. op \in {"read", "readinto", "wait", "headers", "url", "status", "close"}
  BY OperationsAssumption
<1>2. /\ "message" \in Events /\ "url" \in Events /\ "status" \in Events
      /\ "on_url" \in CallbackNames /\ "on_status" \in CallbackNames
  BY DEF Events, CallbackNames
<1>3. CASE op = "read"
  <2>1. code = ReadSteps(n)
    BY <1>3 DEF Operation
  <2> HIDE DEF code
  <2>2. ReadSteps(n) \in Seq(AppSteps) /\ Len(ReadSteps(n)) = 4
    BY MethodTexts
  <2>3. Promise({}, ReadSteps(n))
    BY MethodTexts
  <2>4. 4 <= 9
    OBVIOUS
  <2>5. code \in Seq(AppSteps) /\ Len(code) <= 9 /\ Promise({}, code)
    BY <2>1, <2>2, <2>3, <2>4
  <2> QED
    BY <2>5 DEF code
<1>4. CASE op = "readinto"
  <2>1. code = <<Wait("ready"), Set("body")>>
    BY <1>4 DEF Operation
  <2> HIDE DEF code
  <2>2. <<Wait("ready"), Set("body")>> \in Seq(AppSteps) /\ Len(<<Wait("ready"), Set("body")>>) = 2
    BY <1>2, OtherTexts
  <2>3. Promise({}, <<Wait("ready"), Set("body")>>)
    BY <1>2, OtherTexts
  <2>4. 2 <= 9
    OBVIOUS
  <2>5. code \in Seq(AppSteps) /\ Len(code) <= 9 /\ Promise({}, code)
    BY <2>1, <2>2, <2>3, <2>4
  <2> QED
    BY <2>5 DEF code
<1>5. CASE op = "wait"
  <2>1. code = <<Wait("ready"), Set("body"), Wait("message")>>
    BY <1>5 DEF Operation
  <2> HIDE DEF code
  <2>2. <<Wait("ready"), Set("body"), Wait("message")>> \in Seq(AppSteps) /\ Len(<<Wait("ready"), Set("body"), Wait("message")>>) = 3
    BY <1>2, OtherTexts
  <2>3. Promise({}, <<Wait("ready"), Set("body"), Wait("message")>>)
    BY <1>2, OtherTexts
  <2>4. 3 <= 9
    OBVIOUS
  <2>5. code \in Seq(AppSteps) /\ Len(code) <= 9 /\ Promise({}, code)
    BY <2>1, <2>2, <2>3, <2>4
  <2> QED
    BY <2>5 DEF code
<1>6. CASE op = "headers"
  <2>1. code = HeadersSteps
    BY <1>6 DEF Operation
  <2> HIDE DEF code
  <2>2. HeadersSteps \in Seq(AppSteps) /\ Len(HeadersSteps) = 3
    BY MethodTexts
  <2>3. Promise({}, HeadersSteps)
    BY MethodTexts
  <2>4. 3 <= 9
    OBVIOUS
  <2>5. code \in Seq(AppSteps) /\ Len(code) <= 9 /\ Promise({}, code)
    BY <2>1, <2>2, <2>3, <2>4
  <2> QED
    BY <2>5 DEF code
<1>7. CASE op = "url"
  <2>1. code = <<Wait("ready"), Wait("url"), Yield("on_url")>>
    BY <1>7 DEF Operation
  <2> HIDE DEF code
  <2>2. <<Wait("ready"), Wait("url"), Yield("on_url")>> \in Seq(AppSteps) /\ Len(<<Wait("ready"), Wait("url"), Yield("on_url")>>) = 3
    BY <1>2, OtherTexts
  <2>3. Promise({}, <<Wait("ready"), Wait("url"), Yield("on_url")>>)
    BY <1>2, OtherTexts
  <2>4. 3 <= 9
    OBVIOUS
  <2>5. code \in Seq(AppSteps) /\ Len(code) <= 9 /\ Promise({}, code)
    BY <2>1, <2>2, <2>3, <2>4
  <2> QED
    BY <2>5 DEF code
<1>8. CASE op = "status"
  <2>1. code = <<Wait("ready"), Wait("status"), Yield("on_status")>>
    BY <1>8 DEF Operation
  <2> HIDE DEF code
  <2>2. <<Wait("ready"), Wait("status"), Yield("on_status")>> \in Seq(AppSteps) /\ Len(<<Wait("ready"), Wait("status"), Yield("on_status")>>) = 3
    BY <1>2, OtherTexts
  <2>3. Promise({}, <<Wait("ready"), Wait("status"), Yield("on_status")>>)
    BY <1>2, OtherTexts
  <2>4. 3 <= 9
    OBVIOUS
  <2>5. code \in Seq(AppSteps) /\ Len(code) <= 9 /\ Promise({}, code)
    BY <2>1, <2>2, <2>3, <2>4
  <2> QED
    BY <2>5 DEF code
<1>9. CASE op = "close"
  <2>1. code = CloseSteps
    BY <1>9 DEF Operation
  <2> HIDE DEF code
  <2>2. CloseSteps \in Seq(AppSteps) /\ Len(CloseSteps) = 9
    BY CloseText
  <2>3. Promise({}, CloseSteps)
    BY CloseText
  <2>4. 9 <= 9
    OBVIOUS
  <2>5. code \in Seq(AppSteps) /\ Len(code) <= 9 /\ Promise({}, code)
    BY <2>1, <2>2, <2>3, <2>4
  <2> QED
    BY <2>5 DEF code
<1> QED
  BY <1>1, <1>3, <1>4, <1>5, <1>6, <1>7, <1>8, <1>9

(* A thread of the application goes on with a method, possibly after a     *)
(* wait that ran out of time.                                              *)
LEMMA AppBegins ==
  ASSUME IOInv, NEW t \in Apps, NEW code \in Seq(AppSteps), Len(code) <= 9, Promise({}, code),
         todo' = [todo EXCEPT ![t] = code],
         asleep' = asleep \/ asleep' = [asleep EXCEPT ![t] = "none"],
         UNCHANGED <<events, hooked, feed, body>>
  PROVE  IOInv'
<1>1. t # Feeder /\ t \in Threads /\ Feeder \in Threads
  BY ThreadsAssumption DEF Threads
<1>2. todo'[Feeder] = todo[Feeder] /\ todo'[t] = code /\ \A u \in Threads : u # t => todo'[u] = todo[u]
  BY <1>1 DEF IOInv, TextsInv
<1>3. InputInv'
  BY DEF IOInv, InputInv, Consumed, feed
<1>4. TextsInv'
  <2>1. asleep' \in [Threads -> Events \cup {"none"}]
    BY DEF IOInv, TextsInv
  <2>2. todo' = [u \in Threads |-> todo'[u]]
    BY DEF IOInv, TextsInv
  <2>3. \A u \in Apps : todo'[u] \in Seq(AppSteps)
    BY <1>2 DEF IOInv, TextsInv, Threads
  <2>4. todo'[Feeder] \in Seq(FeederSteps)
    BY <1>2 DEF IOInv, TextsInv
  <2>5. \A u \in Threads : Len(todo'[u]) <= 9
    BY <1>2 DEF IOInv, TextsInv
  <2> QED
    BY <2>1, <2>2, <2>3, <2>4, <2>5 DEF TextsInv
<1>5. FeedingInv'
  <2>1. Found' = Found /\ arrived' = arrived /\ size' = size /\ delivered' = delivered /\ pipe' = pipe
    BY DEF Found, Consumed, feed, body
  <2> QED
    BY <1>2, <2>1 DEF IOInv, FeedingInv, Between, Delivering, Putting, Counting
<1>6. StreamInv'
  BY DEF IOInv, StreamInv, feed, body
<1>7. \A u \in Threads, f \in FactNames : u # t \/ f # "awaits headers" => (Holds(u, f)' <=> Holds(u, f))
  BY <1>1 DEF IOInv, TextsInv, Holds, feed
<1>8. PromiseInv'
  <2> SUFFICES ASSUME NEW u \in Threads
               PROVE  Promise(Known(u)', todo'[u])
    BY DEF PromiseInv
  <2>1. CASE u = t
    BY <1>2, <2>1, PromiseGrows
  <2>2. CASE u # t
    <3>1. \A f \in FactNames : f \in Known(u) => f \in Known(u)'
      BY <1>7, <2>2 DEF Known
    <3>2. Promise(Known(u), todo[u])
      BY DEF IOInv, PromiseInv
    <3> QED
      BY <1>2, <2>2, <3>1, <3>2, PromiseGrows
  <2> QED
    BY <2>1, <2>2
<1>9. FactsInv'
  <2>1. \A f \in FactNames : Holds(Feeder, f) => Holds(Feeder, f)'
    BY <1>1, <1>7
  <2>2. {"headers", "url", "sized", "arrived"} \subseteq FactNames
    BY DEF FactNames
  <2> QED
    BY <2>1, <2>2 DEF IOInv, FactsInv, feed, body
<1>10. StoredInv'
  BY <1>2 DEF IOInv, StoredInv, Consumed, feed
<1> QED
  BY <1>3, <1>4, <1>5, <1>6, <1>8, <1>9, <1>10 DEF IOInv

-----------------------------------------------------------------------------
(* A callback does what it needs the facts for only when it has them: of   *)
(* all the accesses of a callback, these are the ones that need one.       *)
LEMMA CallbackTexts ==
  ASSUME NEW n \in Nat, NEW name \in CallbackNames
  PROVE  /\ Callback(n)[name] \in Seq(FeederSteps) /\ Len(Callback(n)[name]) <= 9
         /\ name = "on_body" => Callback(n)[name] = <<Wait("body"), Deliver(n), Count(n)>>
         /\ name # "on_body" => Plain(Callback(n)[name])
         /\ name \in {"on_url", "on_headers_complete"} =>
              1 \in DOMAIN Callback(n)[name] /\ Callback(n)[name][1] = Store(name)
         /\ \A facts :
              /\ name = "on_host" => "url" \in facts
              /\ name = "on_message_complete" => {"headers", "url", "sized", "arrived"} \subseteq facts
              => Promise(facts, Callback(n)[name])
<1> DEFINE code == Callback(n)[name]
<1>1. ASSUME NEW e \in Events
      PROVE  /\ Set(e) \in FeederSteps /\ Clear(e) \in FeederSteps /\ Wait(e) \in FeederSteps
             /\ Set(e)[1] = "set" /\ Clear(e)[1] = "clear"
  BY DEF FeederSteps, EventSteps, Set, Clear, Wait
<1>2. ASSUME NEW c \in CallbackNames
      PROVE  Store(c) \in FeederSteps /\ Store(c)[1] = "store"
  BY DEF FeederSteps, Store
<1>3. Finish \in FeederSteps /\ Finish[1] = "finish"
  BY DEF FeederSteps, Finish
<1>4. /\ \A f : Needs(Finish, f) => f = "arrived"
      /\ \A e \in Events : \A f : ~Needs(Clear(e), f)
      /\ \A c \in CallbackNames : \A f : ~Needs(Store(c), f)
      /\ \A e \in Events : \A f : Needs(Set(e), f) =>
           \/ e = "header" /\ f = "headers"
           \/ e = "url" /\ f = "url"
           \/ e = "message" /\ f = "sized"
  BY DEF Needs, Finish, Shut, Clear, Store, Set, Yield
<1>5. Events = {"ready", "message", "body", "header", "chunk", "status", "url"}
  BY DEF Events
<1>6. {"on_url", "on_header", "on_status", "on_headers_complete"} \subseteq CallbackNames
  BY DEF CallbackNames
<1> HIDE DEF FeederSteps
<1>7. CASE name = "on_message_begin"
  <2>1. code = <<Clear("status"), Clear("url"), Clear("header"), Clear("chunk"), Clear("body"),
                 Clear("message"), Set("ready")>>
    BY <1>7 DEF Callback
  <2> HIDE DEF code
  <2>2. code \in Seq(FeederSteps) /\ Len(code) <= 9
    BY <1>1, <1>5, <2>1
  <2>3. /\ DOMAIN code = 1 .. 7 /\ code[1] = Clear("status") /\ code[2] = Clear("url")
        /\ code[3] = Clear("header") /\ code[4] = Clear("chunk") /\ code[5] = Clear("body")
        /\ code[6] = Clear("message") /\ code[7] = Set("ready")
    BY <2>1
  <2>4. \A i \in 1 .. 7 : code[i] \in {Clear(e) : e \in Events} \cup {Set("ready")}
    BY <1>5, <2>3
  <2>5. Plain(code)
    BY <1>1, <1>5, <2>3, <2>4 DEF Plain
  <2>6. \A facts : Promise(facts, code)
    BY <1>4, <1>5, <2>3, <2>4 DEF Promise
  <2> QED
    BY <1>7, <2>2, <2>5, <2>6 DEF code
<1>8. CASE name \in {"on_url", "on_header", "on_status"}
  <2>1. \/ code = <<Store(name)>>
        \/ name = "on_status" /\ code = <<Store("on_status"), Set("status")>>
    BY <1>8 DEF Callback
  <2> HIDE DEF code
  <2>2. name \in CallbackNames /\ "status" \in Events
    BY <1>5
  <2>3. CASE code = <<Store(name)>>
    <3>1. code \in Seq(FeederSteps) /\ Len(code) <= 9
      BY <1>2, <2>2, <2>3
    <3>2. DOMAIN code = {1} /\ code[1] = Store(name)
      BY <2>3
    <3>3. Plain(code)
      BY <1>2, <2>2, <3>2 DEF Plain
    <3>4. \A facts : Promise(facts, code)
      BY <1>4, <2>2, <3>2 DEF Promise
    <3> QED
      BY <1>8, <3>1, <3>2, <3>3, <3>4 DEF code
  <2>4. CASE name = "on_status" /\ code = <<Store("on_status"), Set("status")>>
    <3>1. code \in Seq(FeederSteps) /\ Len(code) <= 9
      BY <1>1, <1>2, <2>2, <2>4
    <3>2. DOMAIN code = {1, 2} /\ code[1] = Store(name) /\ code[2] = Set("status")
      BY <2>4
    <3>3. Plain(code)
      BY <1>1, <1>2, <2>2, <3>2 DEF Plain
    <3>4. \A facts : Promise(facts, code)
      BY <1>4, <2>2, <3>2 DEF Promise
    <3> QED
      BY <2>4, <3>1, <3>2, <3>3, <3>4 DEF code
  <2> QED
    BY <2>1, <2>3, <2>4
<1>9. CASE name = "on_host"
  <2>1. code = <<Store("on_header"), Set("url")>>
    BY <1>9 DEF Callback
  <2> HIDE DEF code
  <2>2. code \in Seq(FeederSteps) /\ Len(code) <= 9
    BY <1>1, <1>2, <1>5, <1>6, <2>1
  <2>3. DOMAIN code = {1, 2} /\ code[1] = Store("on_header") /\ code[2] = Set("url")
    BY <2>1
  <2>4. Plain(code)
    BY <1>1, <1>2, <1>5, <1>6, <2>3 DEF Plain
  <2>5. \A facts : "url" \in facts => Promise(facts, code)
    BY <1>4, <1>5, <1>6, <2>3 DEF Promise
  <2> QED
    BY <1>9, <2>2, <2>4, <2>5 DEF code
<1>10. CASE name = "on_headers_complete"
  <2>1. code = <<Store("on_headers_complete"), Set("header")>>
    BY <1>10 DEF Callback
  <2> HIDE DEF code
  <2>2. code \in Seq(FeederSteps) /\ Len(code) <= 9
    BY <1>1, <1>2, <1>5, <1>6, <2>1
  <2>3. DOMAIN code = {1, 2} /\ code[1] = Store("on_headers_complete") /\ code[2] = Set("header")
    BY <2>1
  <2>4. Plain(code)
    BY <1>1, <1>2, <1>5, <1>6, <2>3 DEF Plain
  <2>5. Provided(code, 2, "headers")
    <3>1. 1 \in 1 .. 2 - 1 /\ Provides(Store("on_headers_complete"), "headers")
      BY DEF Provides
    <3> QED
      BY <2>3, <3>1 DEF Provided
  <2>6. \A facts : Promise(facts, code)
    BY <1>4, <1>5, <1>6, <2>3, <2>5 DEF Promise
  <2> QED
    BY <1>10, <2>2, <2>3, <2>4, <2>6 DEF code
<1>11. CASE name \in {"on_chunk_header", "on_chunk_complete"}
  <2>1. code \in {<<Clear("chunk")>>, <<Set("chunk")>>}
    BY <1>11 DEF Callback
  <2> HIDE DEF code
  <2>2. code \in Seq(FeederSteps) /\ Len(code) <= 9
    <3>1. Clear("chunk") \in FeederSteps /\ Set("chunk") \in FeederSteps
      BY <1>1, <1>5
    <3>2. CASE code = <<Clear("chunk")>>
      BY <3>1, <3>2
    <3>3. CASE code = <<Set("chunk")>>
      BY <3>1, <3>3
    <3> QED
      BY <2>1, <3>2, <3>3
  <2>3. DOMAIN code = {1} /\ code[1] \in {Clear("chunk"), Set("chunk")}
    BY <2>1
  <2>4. Plain(code)
    BY <1>1, <1>5, <2>3 DEF Plain
  <2>5. \A facts : Promise(facts, code)
    BY <1>4, <1>5, <2>3 DEF Promise
  <2> QED
    BY <1>11, <2>2, <2>4, <2>5 DEF code
<1>12. CASE name = "on_body"
  <2>1. code = <<Wait("body"), Deliver(n), Count(n)>>
    BY <1>12 DEF Callback
  <2> HIDE DEF code
  <2>2. code \in Seq(FeederSteps) /\ Len(code) <= 9
    <3>1. Len(<<Wait("body"), Deliver(n), Count(n)>>) = 3
      OBVIOUS
    <3>2. <<Wait("body"), Deliver(n), Count(n)>> \in Seq(FeederSteps)
      BY BodyTexts
    <3> HIDE DEF Wait, Deliver, Count
    <3> QED
      BY <2>1, <3>1, <3>2
  <2>3. DOMAIN code = {1, 2, 3} /\ code[1] = Wait("body") /\ code[2] = Deliver(n) /\ code[3] = Count(n)
    BY <2>1
  <2>4. \A f : ~Needs(Wait("body"), f) /\ ~Needs(Deliver(n), f) /\ ~Needs(Count(n), f)
    BY DEF Needs, Wait, Deliver, Count, Set, Yield, Finish, Shut
  <2>5. \A facts : Promise(facts, code)
    BY <2>3, <2>4 DEF Promise
  <2> QED
    BY <1>12, <2>1, <2>2, <2>5 DEF code
<1>13. CASE name = "on_message_complete"
  <2>1. code = <<Finish, Set("status"), Set("url"), Set("header"), Set("chunk"), Set("body"), Set("message")>>
    BY <1>13 DEF Callback
  <2> HIDE DEF code
  <2>2. code \in Seq(FeederSteps) /\ Len(code) <= 9
    BY <1>1, <1>3, <1>5, <2>1
  <2>3. /\ DOMAIN code = 1 .. 7 /\ code[1] = Finish /\ code[2] = Set("status") /\ code[3] = Set("url")
        /\ code[4] = Set("header") /\ code[5] = Set("chunk") /\ code[6] = Set("body")
        /\ code[7] = Set("message")
    BY <2>1
  <2>4. \A i \in 1 .. 7 : code[i] \in {Set(e) : e \in Events} \cup {Finish}
    BY <1>5, <2>3
  <2>5. Plain(code)
    BY <1>1, <1>3, <2>3, <2>4 DEF Plain
  <2>6. ASSUME NEW facts, {"headers", "url", "sized", "arrived"} \subseteq facts
        PROVE  Promise(facts, code)
    <3>1. \A i \in 1 .. 7 : \A f : Needs(code[i], f) => f \in {"headers", "url", "sized", "arrived"}
      BY <1>4, <2>4
    <3> QED
      BY <2>3, <2>6, <3>1 DEF Promise
  <2> QED
    BY <1>13, <2>2, <2>5, <2>6 DEF code
<1> QED
  BY <1>7, <1>8, <1>9, <1>10, <1>11, <1>12, <1>13 DEF CallbackNames

(* What the transport's thread starts with has what it needs: common to    *)
(* the parser's callbacks and to the close().                              *)
LEMMA FeederBegins ==
  ASSUME IOInv, NEW code \in Seq(FeederSteps), Len(code) <= 9, Promise(Known(Feeder), code),
         todo' = [todo EXCEPT ![Feeder] = code], linked' \in BOOLEAN,
         UNCHANGED <<sync, hooked, parsed, arrived, size, body>>
  PROVE  TextsInv' /\ StreamInv' /\ PromiseInv' /\ FactsInv'
<1>1. Feeder \in Threads /\ Feeder \notin Apps
  BY ThreadsAssumption DEF Threads
<1>2. todo'[Feeder] = code /\ \A u \in Threads : u # Feeder => todo'[u] = todo[u]
  BY <1>1 DEF IOInv, TextsInv
<1>3. TextsInv'
  <2>1. asleep' \in [Threads -> Events \cup {"none"}]
    BY DEF IOInv, TextsInv, sync
  <2>2. todo' = [u \in Threads |-> todo'[u]]
    BY DEF IOInv, TextsInv
  <2>3. \A u \in Apps : todo'[u] \in Seq(AppSteps)
    BY <1>1, <1>2 DEF IOInv, TextsInv, Threads
  <2>4. \A u \in Threads : Len(todo'[u]) <= 9
    BY <1>2 DEF IOInv, TextsInv
  <2> QED
    BY <1>2, <2>1, <2>2, <2>3, <2>4 DEF TextsInv
<1>4. StreamInv'
  BY DEF IOInv, StreamInv, body
<1>5. \A u \in Threads, f \in FactNames : Holds(u, f)' <=> Holds(u, f)
  BY DEF Holds, sync
<1>6. PromiseInv'
  <2> SUFFICES ASSUME NEW u \in Threads
               PROVE  Promise(Known(u)', todo'[u])
    BY DEF PromiseInv
  <2>1. \A f \in FactNames : f \in Known(u) => f \in Known(u)'
    BY <1>5 DEF Known
  <2>2. Promise(Known(u), todo'[u])
    BY <1>2 DEF IOInv, PromiseInv
  <2> QED
    BY <2>1, <2>2, PromiseGrows
<1>7. FactsInv'
  <2>1. {"headers", "url", "sized", "arrived"} \subseteq FactNames
    BY DEF FactNames
  <2> QED
    BY <1>1, <1>5, <2>1 DEF IOInv, FactsInv, sync, body
<1> QED
  BY <1>3, <1>4, <1>6, <1>7

(* Between two parts of the message everything found has been passed on    *)
(* and stored.                                                             *)
LEMMA IdleFeeder ==
  ASSUME IOInv, Idle(Feeder)
  PROVE  /\ arrived = Found /\ size = Found
         /\ \A i \in 1 .. Consumed : Message[i][1] \in {"on_url", "on_headers_complete"} => Message[i][1] \in parsed
<1>1. todo[Feeder] = <<>>
  BY DEF Idle
<1>2. \A n \in Nat, m \in Nat :
        /\ <<Wait("body"), Deliver(n), Count(n)>> # <<>> /\ <<Deliver(n), Count(n)>> # <<>>
        /\ <<Put(m), Count(n)>> # <<>> /\ <<Count(n)>> # <<>>
  OBVIOUS
<1>3. Between
  BY <1>1, <1>2 DEF IOInv, FeedingInv, Delivering, Putting, Counting
<1>4. DOMAIN todo[Feeder] = {}
  BY <1>1
<1> QED
  BY <1>3, <1>4 DEF Between, IOInv, StoredInv

(* The parser finds the next part of the message. *)
LEMMA FeedDataInv ==
  ASSUME IOInv, FeedData
  PROVE  IOInv'
<1> DEFINE i == Consumed + 1
<1> DEFINE name == Message[i][1]
<1> DEFINE n == Message[i][2]
<1>1. /\ Consumed \in Nat /\ Len(Message) \in Nat /\ Len(input) \in Nat \ {0}
      /\ Consumed = Len(Message) - Len(input) /\ i \in 1 .. Len(Message) /\ Found \in Nat
      /\ BodyLength \in Nat /\ DOMAIN Message = 1 .. Len(Message)
  <2>1. Len(input) # 0 /\ Len(input) \in Nat
    BY FoundRange DEF FeedData, IOInv, InputInv
  <2> QED
    BY <2>1, MessageAssumption, FoundRange DEF IOInv, Consumed
<1>2. name \in CallbackNames /\ n \in Nat
  BY <1>1, MessageAssumption
<1>3. Head(input)[1] = name /\ Head(input)[2] = n
  <2>1. input \in Seq(CallbackNames \X Nat) /\ input # <<>> /\ 1 \in 1 .. Len(input)
    BY <1>1 DEF IOInv, InputInv, FeedData
  <2>2. Head(input) = input[1]
    BY <2>1, TailPositions
  <2>3. input[1] = Message[i]
    BY <2>1 DEF IOInv, InputInv
  <2> QED
    BY <2>2, <2>3
<1>4. InputInv' /\ Consumed' = i
  <2>1. input \in Seq(CallbackNames \X Nat) /\ input # <<>> /\ input' = Tail(input)
    BY DEF IOInv, InputInv, FeedData
  <2>2. /\ input' \in Seq(CallbackNames \X Nat) /\ Len(input') = Len(input) - 1
        /\ \A j \in 1 .. Len(input) - 1 : input'[j] = input[j + 1]
    BY <2>1, TailPositions
  <2>3. Consumed' = i
    BY <1>1, <2>2 DEF Consumed
  <2>4. ASSUME NEW j \in 1 .. Len(input')
        PROVE  input'[j] = Message[Consumed' + j]
    <3>1. j + 1 \in 1 .. Len(input) /\ input'[j] = input[j + 1]
      BY <1>1, <2>2
    <3>2. input[j + 1] = Message[Consumed + (j + 1)]
      BY <3>1 DEF IOInv, InputInv
    <3>3. Consumed + (j + 1) = i + j
      BY <1>1
    <3> QED
      BY <2>3, <3>1, <3>2, <3>3
  <2>5. Len(input') <= Len(Message)
    BY <1>1, <2>2
  <2> QED
    BY <2>2, <2>3, <2>4, <2>5 DEF InputInv
<1>5. Found' = Found + n
  <2>1. i - 1 = Consumed
    BY <1>1
  <2> HIDE DEF i
  <2>2. Before[i] = Before[i - 1] + Message[i][2]
    BY <1>1, BeforeProperties
  <2> QED
    BY <1>4, <2>1, <2>2 DEF Found
<1> DEFINE code == Callback(n)[name]
<1>6. todo' = [todo EXCEPT ![Feeder] = code]
  BY <1>3 DEF FeedData
<1>7. /\ arrived' = arrived /\ size' = size /\ arrived = Found /\ size = Found
      /\ \A j \in 1 .. Consumed : Message[j][1] \in {"on_url", "on_headers_complete"} => Message[j][1] \in parsed
  BY IdleFeeder DEF FeedData
<1> HIDE DEF i, name, n
<1>8. name = "on_host" => "url" \in Known(Feeder)
  <2> SUFFICES ASSUME name = "on_host", ~NoUrl
               PROVE  "on_url" \in parsed
    BY DEF Known, FactNames, Holds
  <2>1. PICK j \in DOMAIN Message : Message[j][1] = "on_url"
    BY DEF NoUrl
  <2>2. j < i
    BY <1>1, <2>1, ParserAssumption DEF name
  <2>3. j \in 1 .. Consumed
    BY <1>1, <2>1, <2>2 DEF i
  <2> QED
    BY <1>7, <2>1, <2>3
<1>9. name = "on_message_complete" => {"headers", "url", "sized", "arrived"} \subseteq Known(Feeder)
  <2> SUFFICES ASSUME name = "on_message_complete"
               PROVE  {"headers", "url", "sized", "arrived"} \subseteq Known(Feeder)
    OBVIOUS
  <2>1. i = Len(Message) /\ \E j \in 1 .. i - 1 : Message[j][1] = "on_headers_complete"
    BY <1>1, ParserAssumption DEF name
  <2>2. i - 1 = Consumed
    BY <1>1 DEF i
  <2>3. "on_headers_complete" \in parsed
    BY <1>7, <2>1, <2>2
  <2>4. NoUrl \/ "on_url" \in parsed
    <3> SUFFICES ASSUME ~NoUrl
                 PROVE  "on_url" \in parsed
      OBVIOUS
    <3>1. PICK j \in DOMAIN Message : Message[j][1] = "on_url"
      BY DEF NoUrl
    <3>2. j < i
      BY <1>1, <3>1, ParserAssumption DEF name
    <3>3. j \in 1 .. Consumed
      BY <1>1, <3>1, <3>2 DEF i
    <3> QED
      BY <1>7, <3>1, <3>3
  <2>5. arrived = BodyLength /\ size = BodyLength
    <3>1. n = 0
      BY <1>1, ParserAssumption DEF name, n
    <3>2. Before[i] = Before[i - 1] + n
      BY <1>1, BeforeProperties DEF n
    <3>3. Before[i] = BodyLength
      BY <2>1, BeforeProperties
    <3>4. Before[i - 1] = Found
      BY <2>2 DEF Found
    <3> QED
      BY <1>1, <1>7, <3>1, <3>2, <3>3, <3>4
  <2> QED
    BY <2>3, <2>4, <2>5 DEF Known, FactNames, Holds
<1>10. code \in Seq(FeederSteps) /\ Len(code) <= 9
  BY <1>2, CallbackTexts
<1>11. Promise(Known(Feeder), code)
  BY <1>2, <1>8, <1>9, CallbackTexts
<1>12. name = "on_body" => code = <<Wait("body"), Deliver(n), Count(n)>>
  BY <1>2, CallbackTexts
<1>13. name # "on_body" => Plain(code)
  BY <1>2, CallbackTexts
<1>14. name \in {"on_url", "on_headers_complete"} => 1 \in DOMAIN code /\ code[1] = Store(name)
  BY <1>2, CallbackTexts
<1> HIDE DEF code
<1>15. TextsInv' /\ StreamInv' /\ PromiseInv' /\ FactsInv'
  <2>1. UNCHANGED <<sync, hooked, parsed, arrived, size, body>> /\ linked' \in BOOLEAN
    BY DEF FeedData, IOInv, FactsInv
  <2> QED
    BY <1>6, <1>10, <1>11, <2>1, FeederBegins
<1>16. Feeder \in Threads /\ todo'[Feeder] = code
  BY <1>6 DEF Threads, IOInv, TextsInv
<1>17. FeedingInv'
  <2>1. CASE name = "on_body"
    <3>1. arrived' + n = Found' /\ size' + n = Found'
      BY <1>5, <1>7
    <3>2. Delivering'
      BY <1>2, <1>12, <1>16, <2>1, <3>1 DEF Delivering
    <3> QED
      BY <1>1, <1>7, <3>2 DEF FeedingInv
  <2>2. CASE name # "on_body"
    <3>1. n = 0
      BY <1>1, <2>2, ParserAssumption DEF name, n
    <3>2. arrived' = Found' /\ size' = Found'
      BY <1>1, <1>5, <1>7, <3>1
    <3>3. Between'
      BY <1>13, <1>16, <2>2, <3>2 DEF Between
    <3> QED
      BY <1>1, <1>7, <3>3 DEF FeedingInv
  <2> QED
    BY <2>1, <2>2
<1>18. StoredInv'
  <2> SUFFICES ASSUME NEW j \in 1 .. Consumed', Message[j][1] \in {"on_url", "on_headers_complete"},
                      Message[j][1] \notin parsed'
               PROVE  \E k \in DOMAIN todo'[Feeder] : todo'[Feeder][k] = Store(Message[j][1])
    BY DEF StoredInv
  <2>1. parsed' = parsed
    BY DEF FeedData
  <2>2. j = i
    <3>1. j \notin 1 .. Consumed
      BY <1>7, <2>1
    <3> QED
      BY <1>1, <1>4, <3>1 DEF i
  <2>3. Message[j][1] = name
    BY <2>2 DEF name
  <2> QED
    BY <1>14, <1>16, <2>3
<1> QED
  BY <1>4, <1>15, <1>17, <1>18 DEF IOInv

(* The link closes. *)
LEMMA FeedEndInv ==
  ASSUME IOInv, FeedEnd
  PROVE  IOInv'
<1>1. Feeder \in Threads /\ todo' = [todo EXCEPT ![Feeder] = CloseSteps]
  BY DEF FeedEnd, Threads
<1>2. todo'[Feeder] = CloseSteps
  BY <1>1 DEF IOInv, TextsInv
<1>3. input' = input /\ arrived' = arrived /\ size' = size /\ parsed' = parsed
  BY DEF FeedEnd
<1>4. InputInv'
  BY <1>3 DEF IOInv, InputInv, Consumed
<1>5. TextsInv' /\ StreamInv' /\ PromiseInv' /\ FactsInv'
  <2>1. UNCHANGED <<sync, hooked, parsed, arrived, size, body>> /\ linked' \in BOOLEAN
    BY DEF FeedEnd
  <2>2. CloseSteps \in Seq(FeederSteps) /\ Len(CloseSteps) <= 9
    BY CloseText
  <2>3. Promise(Known(Feeder), CloseSteps)
    BY CloseText, PromiseGrows
  <2> QED
    BY <1>1, <2>1, <2>2, <2>3, FeederBegins
<1>6. FeedingInv'
  <2>1. Found' = Found /\ arrived = Found /\ size = Found
    BY <1>3, IdleFeeder DEF FeedEnd, Found, Consumed
  <2>2. Between'
    BY <1>2, <1>3, <2>1, CloseText DEF Between
  <2> QED
    BY <1>3, <2>2 DEF IOInv, FeedingInv
<1>7. StoredInv'
  BY <1>3, IdleFeeder DEF FeedEnd, StoredInv, Consumed
<1> QED
  BY <1>4, <1>5, <1>6, <1>7 DEF IOInv

-----------------------------------------------------------------------------
(* A new object has seen nothing of its message. *)
THEOREM IOInitInv == Init => IOInv
<1> SUFFICES ASSUME Init PROVE IOInv
  OBVIOUS
<1>1. Feeder \in Threads /\ \A t \in Threads : todo[t] = <<>>
  BY DEF Init, Threads
<1>2. Len(Message) \in Nat /\ Consumed = 0
  BY MessageAssumption DEF Init, Consumed
<1>3. InputInv
  <2>1. input = Message /\ Message \in Seq(CallbackNames \X Nat)
    BY MessageAssumption DEF Init
  <2>2. \A i \in 1 .. Len(input) : input[i] = Message[Consumed + i]
    BY <1>2, <2>1
  <2> QED
    BY <1>2, <2>1, <2>2 DEF InputInv
<1>4. TextsInv
  <2>1. asleep \in [Threads -> Events \cup {"none"}] /\ todo = [t \in Threads |-> todo[t]]
    BY DEF Init
  <2>2. <<>> \in Seq(AppSteps) /\ <<>> \in Seq(FeederSteps) /\ Len(<<>>) <= 9
    OBVIOUS
  <2> QED
    BY <1>1, <2>1, <2>2 DEF TextsInv, Threads
<1>5. FeedingInv
  <2>1. Found = 0 /\ arrived = 0 /\ size = 0
    BY <1>2, BeforeProperties DEF Init, Found
  <2>2. Between
    BY <1>1, <2>1 DEF Between, Plain
  <2> QED
    BY <2>1, <2>2 DEF FeedingInv
<1>6. StreamInv
  <2>1. <<>> \in Seq(Nat) /\ Len(<<>>) = 0 /\ 0 <= Capacity
    BY SizesAssumption
  <2> QED
    BY <2>1 DEF Init, StreamInv
<1>7. PromiseInv
  BY <1>1 DEF PromiseInv, Promise
<1>8. FactsInv
  BY DEF Init, FactsInv
<1>9. StoredInv
  BY <1>2 DEF StoredInv
<1> QED
  BY <1>3, <1>4, <1>5, <1>6, <1>7, <1>8, <1>9 DEF IOInv

(* Every step of every thread keeps the invariant. *)
THEOREM IONextInv == IOInv /\ [Next]_vars => IOInv'
<1> SUFFICES ASSUME IOInv, [Next]_vars
             PROVE  IOInv'
  OBVIOUS
<1>1. ASSUME NEW t \in Apps, NEW n \in ReadSizes, NEW op \in Operations[t], Call(t, op, n)
      PROVE  IOInv'
  <2>1. todo' = [todo EXCEPT ![t] = Operation(n)[op]]
    BY <1>1 DEF Call
  <2>2. asleep' = asleep /\ UNCHANGED <<events, hooked, feed, body>>
    BY <1>1 DEF Call, sync
  <2>3. /\ Operation(n)[op] \in Seq(AppSteps) /\ Len(Operation(n)[op]) <= 9
        /\ Promise({}, Operation(n)[op])
    BY OperationTexts
  <2> QED
    BY <2>1, <2>2, <2>3, AppBegins
<1>2. CASE Transport
  BY <1>2, FeedDataInv, FeedEndInv DEF Transport
<1>3. ASSUME NEW t \in Threads, Step(t)
      PROVE  IOInv'
  BY <1>3, StepIOInv
<1>4. CASE UNCHANGED vars
  <2>1. InputInv' /\ StreamInv'
    BY <1>4 DEF vars, IOInv, InputInv, Consumed, StreamInv
  <2>2. TextsInv'
    BY <1>4 DEF vars, IOInv, TextsInv
  <2>3. FeedingInv'
    BY <1>4 DEF vars, IOInv, FeedingInv, Between, Delivering, Putting, Counting, Found, Consumed
  <2>4. \A t \in Threads, f \in FactNames : Holds(t, f)' <=> Holds(t, f)
    BY <1>4 DEF vars, Holds
  <2>5. \A t \in Threads : Known(t)' = Known(t)
    BY <2>4 DEF Known
  <2>6. PromiseInv'
    BY <1>4, <2>5 DEF vars, IOInv, PromiseInv
  <2>7. FactsInv'
    BY <1>4 DEF vars, IOInv, FactsInv, Holds
  <2>8. StoredInv'
    BY <1>4 DEF vars, IOInv, StoredInv, Consumed
  <2> QED
    BY <2>1, <2>2, <2>3, <2>6, <2>7, <2>8 DEF IOInv
<1> QED
  BY <1>1, <1>2, <1>3, <1>4 DEF Next

(* The invariant holds in every behaviour of a message on its way in. *)
THEOREM IOInvariance == Spec => []IOInv
<1> QED
  BY IOInitInv, IONextInv, PTL DEF Spec

-----------------------------------------------------------------------------
(* What is left of the message is its end. *)
LEMMA InputIsSuffix == InputInv => IsSuffix(input, Message)
<1> SUFFICES ASSUME InputInv
             PROVE  IsSuffix(input, Message)
  OBVIOUS
<1> DEFINE r == Reverse(input)
<1> DEFINE q == Reverse(Message)
<1> DEFINE P == CallbackNames \X Nat
<1>1. /\ input \in Seq(P) /\ Message \in Seq(P) /\ Len(input) \in Nat /\ Len(Message) \in Nat
      /\ Len(input) <= Len(Message)
  BY MessageAssumption DEF InputInv
<1> HIDE DEF P
<1>2. /\ r \in Seq(P) /\ Len(r) = Len(input)
      /\ \A i \in 1 .. Len(input) : r[i] = input[(Len(input) - i) + 1]
  BY <1>1 DEF Reverse
<1>3. /\ q \in Seq(P) /\ Len(q) = Len(Message)
      /\ \A i \in 1 .. Len(Message) : q[i] = Message[(Len(Message) - i) + 1]
  BY <1>1 DEF Reverse
<1> HIDE DEF r, q
<1>4. ASSUME NEW i \in 1 .. Len(input)
      PROVE  r[i] = q[i]
  <2>1. (Len(input) - i) + 1 \in 1 .. Len(input)
    BY <1>1
  <2>2. r[i] = Message[Consumed + ((Len(input) - i) + 1)]
    BY <1>2, <2>1 DEF InputInv
  <2>3. Consumed + ((Len(input) - i) + 1) = (Len(Message) - i) + 1 /\ i \in 1 .. Len(Message)
    BY <1>1 DEF Consumed
  <2> QED
    BY <1>3, <2>2, <2>3
<1> DEFINE a == SubSeq(r, 1, Len(r))
<1> DEFINE b == SubSeq(q, 1, Len(r))
<1>5. a \in Seq(P) /\ Len(a) = Len(input) /\ \A i \in 1 .. Len(input) : a[i] = r[i]
  <2>1. \A i \in 1 .. Len(r) : r[i] \in P
    BY <1>2
  <2>2. 1 \in Int /\ Len(r) \in Int
    BY <1>1, <1>2
  <2>3. /\ a \in Seq(P) /\ Len(a) = IF 1 <= Len(r) THEN Len(r) - 1 + 1 ELSE 0
        /\ \A i \in 1 .. Len(r) - 1 + 1 : a[i] = r[1 + i - 1]
    BY <2>1, <2>2, SubSeqProperties
  <2> HIDE DEF a
  <2> QED
    BY <1>1, <1>2, <2>3
<1>6. b \in Seq(P) /\ Len(b) = Len(input) /\ \A i \in 1 .. Len(input) : b[i] = q[i]
  <2>1. \A i \in 1 .. Len(r) : q[i] \in P
    BY <1>1, <1>2, <1>3
  <2>2. 1 \in Int /\ Len(r) \in Int
    BY <1>1, <1>2
  <2>3. /\ b \in Seq(P) /\ Len(b) = IF 1 <= Len(r) THEN Len(r) - 1 + 1 ELSE 0
        /\ \A i \in 1 .. Len(r) - 1 + 1 : b[i] = q[1 + i - 1]
    BY <2>1, <2>2, SubSeqProperties
  <2> HIDE DEF b
  <2> QED
    BY <1>1, <1>2, <2>3
<1> HIDE DEF a, b
<1>7. a = b
  BY <1>4, <1>5, <1>6, SeqEqual
<1> QED
  BY <1>1, <1>2, <1>3, <1>7 DEF IsSuffix, IsPrefix, a, b, r, q

(* The invariant contains the types. *)
LEMMA IOInvTypes == IOInv => TypeOK
<1> SUFFICES ASSUME IOInv PROVE TypeOK
  OBVIOUS
<1>1. /\ arrived \in Nat /\ size \in Nat /\ got \in Nat /\ Len(delivered) \in Nat /\ Len(pipe) \in Nat
      /\ Found \in Nat /\ Found <= BodyLength /\ BodyLength \in Nat
  BY FoundRange DEF IOInv, FeedingInv, StreamInv
<1>2. arrived <= Found /\ size <= Found
  BY <1>1 DEF IOInv, FeedingInv, Between, Delivering, Putting, Counting
<1>3. got <= arrived
  BY <1>1 DEF IOInv, StreamInv
<1>4. arrived \in 0 .. BodyLength /\ size \in 0 .. BodyLength /\ got \in 0 .. BodyLength
  BY <1>1, <1>2, <1>3
<1>5. IsSuffix(input, Message)
  BY InputIsSuffix DEF IOInv
<1> QED
  BY <1>4, <1>5 DEF TypeOK, IOInv, TextsInv, StreamInv, FactsInv

(* A thread has never more than a whole method to do, the pipe never holds *)
(* more than its buffer, and no counter leaves the body.                   *)
THEOREM IOTypes == Spec => []TypeOK
<1> QED
  BY IOInvTypes, IOInvariance, PTL

(* Units that are where they belong make a beginning of the body. *)
LEMMA UnitsInPlace ==
  ASSUME NEW d \in Seq(Nat), NEW p \in Seq(Nat),
         \A i \in 1 .. Len(d) : d[i] = i,
         \A i \in 1 .. Len(p) : p[i] = Len(d) + i
  PROVE  d \o p = Units(1, Len(d) + Len(p))
<1> DEFINE a == d \o p
<1> DEFINE n == Len(d) + Len(p)
<1> DEFINE b == Units(1, n)
<1>1. Len(d) \in Nat /\ Len(p) \in Nat /\ n \in Nat
  OBVIOUS
<1>2. /\ a \in Seq(Nat) /\ Len(a) = n
      /\ \A i \in 1 .. n : a[i] = IF i <= Len(d) THEN d[i] ELSE p[i - Len(d)]
  BY ConcatProperties
<1>3. b \in Seq(Nat) /\ Len(b) = n /\ \A i \in 1 .. n : b[i] = i
  BY <1>1 DEF Units
<1> HIDE DEF a, b
<1>4. ASSUME NEW i \in 1 .. n
      PROVE  a[i] = i
  <2>1. CASE i <= Len(d)
    BY <1>1, <1>2, <2>1
  <2>2. CASE i > Len(d)
    <3>1. i - Len(d) \in 1 .. Len(p) /\ a[i] = p[i - Len(d)]
      BY <1>1, <1>2, <2>2
    <3> QED
      BY <1>1, <3>1
  <2> QED
    BY <1>1, <2>1, <2>2
<1> HIDE DEF n
<1>5. a = b
  BY <1>2, <1>3, <1>4, SeqEqual
<1> QED
  BY <1>5 DEF a, b, n

(* The application reads the body from its beginning and without a gap,    *)
(* however it is cut, whoever clears body_event behind the feeder's back   *)
(* and whenever drain() comes in between.                                  *)
THEOREM BodyStaysInOrder == Spec => []BodyInOrder
<1>1. IOInv => BodyInOrder
  BY UnitsInPlace DEF IOInv, StreamInv, BodyInOrder
<1> QED
  BY <1>1, IOInvariance, PTL

(* read() returns b"" only when the whole body has been read, unless the   *)
(* object has been closed: the end of the message comes from a thread that *)
(* knows nothing of what the reader has taken.                             *)
THEOREM EndMeansComplete == Spec => []EndIsComplete
<1>1. IOInv => EndIsComplete
  BY DEF IOInv, FactsInv, EndIsComplete
<1> QED
  BY <1>1, IOInvariance, PTL

(* When message_event is set, size is the length of the body. *)
THEOREM SizeIsBodyLength == Spec => []SizeAgrees
<1>1. IOInv => SizeAgrees
  BY DEF IOInv, FactsInv, Holds, SizeAgrees
<1> QED
  BY <1>1, IOInvariance, PTL

(* .headers waits for header_event and has then all the headers, or the    *)
(* object has been closed.                                                 *)
THEOREM HeadersAreWhole == Spec => []WholeUntilClosed
<1>1. IOInv => WholeUntilClosed
  BY DEF IOInv, FactsInv, WholeUntilClosed
<1> QED
  BY <1>1, IOInvariance, PTL
=============================================================================
