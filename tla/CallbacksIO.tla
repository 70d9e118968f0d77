----------------------------- MODULE CallbacksIO -----------------------------
(***************************************************************************)
(* RequestIO and ResponseIO of rnhttp/_http.py: one HTTP message on its    *)
(* way from the link to the application.                                   *)
(*                                                                         *)
(* The feeder is the thread in which the transport calls on_reader_ready:  *)
(* it passes what arrives to the parser, whose callbacks (class Callbacks) *)
(* set and clear events, and puts the body into the pipe.  Application     *)
(* threads read the body and wait for the events; the feeder and the       *)
(* application may both close the object.                                  *)
(*                                                                         *)
(* A method is the sequence of its accesses to shared state, and todo[t]   *)
(* is what is left of the methods that thread t is in.  The pipe is the    *)
(* bounded stream of ByteStream, which PipeIO implements; the units of the *)
(* body are their positions in it.                                         *)
(***************************************************************************)
EXTENDS Integers, Sequences, SequencesExt

CONSTANTS
  Apps,        \* the application's threads
  Reader,      \* the one of them that reads the body
  Feeder,      \* the thread of the transport's callbacks
  Message,     \* what the parser finds: a sequence of <<callback, size>>
  Operations,  \* the methods that each thread of the application uses
  ReadSizes,   \* arguments of read(); negative: whatever is there
  Capacity,    \* units of body the pipe holds
  LinkCloses   \* whether the link may close before the message is over

CallbackNames ==
  {"on_message_begin", "on_url", "on_header", "on_host", "on_status", "on_headers_complete",
   "on_chunk_header", "on_chunk_complete", "on_body", "on_message_complete"}

ASSUME ThreadsAssumption == Reader \in Apps /\ Feeder \notin Apps
ASSUME MessageAssumption == Message \in Seq(CallbackNames \X Nat)
(* Message is one message, as the parser finds it: only the body has a     *)
(* size, the request line comes before the headers, they end before the    *)
(* message does, and nothing follows it.                                   *)
ASSUME ParserAssumption ==
  /\ \A i \in DOMAIN Message : Message[i][1] # "on_body" => Message[i][2] = 0
  /\ \A i, j \in DOMAIN Message :
       Message[i][1] = "on_url" /\ Message[j][1] \in {"on_host", "on_message_complete"} => i < j
  /\ \A j \in DOMAIN Message :
       Message[j][1] = "on_message_complete" =>
         j = Len(Message) /\ \E i \in 1 .. j - 1 : Message[i][1] = "on_headers_complete"
ASSUME OperationsAssumption ==
  /\ Operations \in
       [Apps -> SUBSET {"read", "readinto", "wait", "headers", "url", "status", "close"}]
  /\ \A t \in Apps \ {Reader} : Operations[t] \cap {"read", "readinto"} = {}
ASSUME SizesAssumption == ReadSizes \subseteq Int \ {0} /\ Capacity \in Nat \ {0}
ASSUME LinkClosesAssumption == LinkCloses \in BOOLEAN

Threads == Apps \cup {Feeder}
Events == {"ready", "message", "body", "header", "chunk", "status", "url"}

VARIABLES
  events,     \* the threading.Events that are set
  asleep,     \* the event each thread waits for, or "none"
  todo,       \* what each thread has yet to do of the methods it is in
  hooked,     \* the callbacks are in place: drain() has not run
  parsed,     \* callbacks whose part of the message has been stored
  input,      \* what the parser has still to find
  linked,     \* the link delivers: the feeder has not seen it close
  pipe, eof,  \* the PipeIO
  arrived,    \* units of body that on_body is done with
  size,       \* Callbacks.size
  got,        \* units in the hands of the read() that is under way
  delivered,  \* history: all units read
  ended,      \* history: a read() has returned b""
  partial     \* history: .headers has returned headers that were not all there

sync == <<events, asleep>>
feed == <<parsed, input, linked, arrived, size>>
body == <<pipe, eof, got, delivered, ended, partial>>
vars == <<events, asleep, todo, hooked, parsed, input, linked, pipe, eof, arrived,
          size, got, delivered, ended, partial>>

-----------------------------------------------------------------------------
(* The accesses that methods are made of. *)
Wait(e) == <<"wait", e>>          \* e.wait()
Set(e) == <<"set", e>>            \* e.set()
Clear(e) == <<"clear", e>>        \* e.clear()
Store(name) == <<"store", name>>  \* the parser's finding goes to a field
Deliver(n) == <<"deliver", n>>    \* if self._on_body: self._on_body(body)
Put(n) == <<"put", n>>            \* buffer.write(body)
Count(n) == <<"count", n>>        \* self.size += len(body)
Finish == <<"finish", 0>>         \* if self._on_message_complete: ...
Unhook == <<"unhook", 0>>         \* drain(): the callbacks become None
Shut == <<"shut", 0>>             \* buffer.close()
Fetch(n) == <<"fetch", n>>        \* buffer.read(n)
Yield(name) == <<"yield", name>>  \* the field is returned to the caller

(* The parser's callbacks, class Callbacks; n is the length of the body. *)
Callback(n) ==
  [on_message_begin |-> <<Clear("status"), Clear("url"), Clear("header"), Clear("chunk"),
                          Clear("body"), Clear("message"), Set("ready")>>,
   on_url |-> <<Store("on_url")>>,
   on_header |-> <<Store("on_header")>>,
   on_host |-> <<Store("on_header"), Set("url")>>,
   on_status |-> <<Store("on_status"), Set("status")>>,
   on_headers_complete |-> <<Store("on_headers_complete"), Set("header")>>,
   on_chunk_header |-> <<Clear("chunk")>>,
   on_chunk_complete |-> <<Set("chunk")>>,
   on_body |-> <<Wait("body"), Deliver(n), Count(n)>>,
   on_message_complete |-> <<Finish, Set("status"), Set("url"), Set("header"), Set("chunk"),
                             Set("body"), Set("message")>>]

(* read(n).  readline() and readlines() differ in how they call the pipe. *)
(* Slip: the feeder is not let through.                                    *)
ReadOnly(n) == <<Wait("ready"), Fetch(n), Clear("body")>>
ReadSteps(n) == <<Wait("ready"), Set("body"), Fetch(n), Clear("body")>>

(* .headers; slip: it asks for the beginning of the message only. *)
HeadersReady == <<Wait("ready"), Yield("on_headers_complete")>>
HeadersSteps == <<Wait("ready"), Wait("header"), Yield("on_headers_complete")>>

(* drain(); slips: one of the events is forgotten. *)
DrainNotHeader == <<Unhook, Set("ready"), Set("message"), Set("body"), Set("chunk"),
                    Set("status"), Set("url")>>
DrainNotBody == <<Unhook, Set("ready"), Set("message"), Set("header"), Set("chunk"),
                  Set("status"), Set("url")>>
Drain == <<Unhook, Set("ready"), Set("message"), Set("body"), Set("header"), Set("chunk"),
           Set("status"), Set("url")>>

(* close(); slip: the pipe stays open. *)
CloseOpen == Drain
CloseSteps == Drain \o <<Shut>>

(* The methods of CallbacksIO and its subclasses.  readinto() fails at the *)
(* pipe, which has none, and skips the clear().                            *)
Operation(n) ==
  [read |-> ReadSteps(n),
   wait |-> <<Wait("ready"), Set("body"), Wait("message")>>,
   readinto |-> <<Wait("ready"), Set("body")>>,
   headers |-> HeadersSteps,
   url |-> <<Wait("ready"), Wait("url"), Yield("on_url")>>,
   status |-> <<Wait("ready"), Wait("status"), Yield("on_status")>>,
   close |-> CloseSteps]

Lesser(m, n) == IF m <= n THEN m ELSE n
Units(first, n) == [i \in 1 .. n |-> first + i - 1]

-----------------------------------------------------------------------------
Init ==
  /\ events = {}
  /\ asleep = [t \in Threads |-> "none"]
  /\ todo = [t \in Threads |-> <<>>]
  /\ hooked = TRUE
  /\ parsed = {} /\ input = Message /\ linked = TRUE
  /\ pipe = <<>> /\ eof = FALSE
  /\ arrived = 0 /\ size = 0
  /\ got = 0 /\ delivered = <<>> /\ ended = FALSE /\ partial = FALSE

Idle(t) == todo[t] = <<>> /\ asleep[t] = "none"

(* Thread t is about to do an access of the given kind. *)
At(t, kind) == todo[t] # <<>> /\ asleep[t] = "none" /\ Head(todo[t])[1] = kind

Arg(t) == Head(todo[t])[2]

Done(t) == todo' = [todo EXCEPT ![t] = Tail(@)]

-----------------------------------------------------------------------------
(* The application calls a method. *)
Call(t, op, n) ==
  /\ t \in Apps /\ Idle(t)
  /\ op \in Operations[t]
  /\ todo' = [todo EXCEPT ![t] = Operation(n)[op]]
  /\ UNCHANGED <<sync, hooked, feed, body>>

(* on_reader_ready with data: the parser finds the next part of the        *)
(* message.  How the bytes are cut into packets does not matter: the       *)
(* feeder may stop for any time between any two parts.                     *)
FeedData ==
  /\ Idle(Feeder) /\ linked
  /\ input # <<>>
  /\ todo' = [todo EXCEPT ![Feeder] = Callback(Head(input)[2])[Head(input)[1]]]
  /\ input' = Tail(input)
  /\ UNCHANGED <<sync, hooked, parsed, linked, arrived, size, body>>

(* on_reader_ready with ready == 0: the peer is gone.  (The server does    *)
(* the same when the parser raises; the client does not catch that, and    *)
(* its response stays open with nothing more to be found.)                 *)
FeedEnd ==
  /\ Idle(Feeder) /\ linked
  /\ LinkCloses \/ input = <<>>
  /\ linked' = FALSE
  /\ todo' = [todo EXCEPT ![Feeder] = CloseSteps]
  /\ UNCHANGED <<sync, hooked, parsed, input, arrived, size, body>>

-----------------------------------------------------------------------------
(* Event.wait() returns at once when the event is set.  Otherwise the      *)
(* thread sleeps until somebody sets it, and goes on even if the event is  *)
(* cleared again before it runs.                                           *)
DoWait(t) ==
  /\ At(t, "wait")
  /\ asleep' = [asleep EXCEPT ![t] = IF Arg(t) \in events THEN "none" ELSE Arg(t)]
  /\ Done(t)
  /\ UNCHANGED <<events, hooked, feed, body>>

DoSet(t) ==
  /\ At(t, "set")
  /\ events' = events \cup {Arg(t)}
  /\ asleep' = [u \in Threads |-> IF asleep[u] = Arg(t) THEN "none" ELSE asleep[u]]
  /\ Done(t)
  /\ UNCHANGED <<hooked, feed, body>>

DoClear(t) ==
  /\ At(t, "clear")
  /\ events' = events \ {Arg(t)}
  /\ Done(t)
  /\ UNCHANGED <<asleep, hooked, feed, body>>

DoStore(t) ==
  /\ At(t, "store")
  /\ parsed' = parsed \cup {Arg(t)}
  /\ Done(t)
  /\ UNCHANGED <<sync, hooked, input, linked, arrived, size, body>>

(* The hook is tested and called without a chance for drain() in between;  *)
(* without it the body is dropped.                                         *)
DoDeliver(t) ==
  /\ At(t, "deliver")
  /\ IF hooked
     THEN todo' = [todo EXCEPT ![t] = <<Put(Arg(t))>> \o Tail(@)] /\ arrived' = arrived
     ELSE Done(t) /\ arrived' = arrived + Arg(t)
  /\ UNCHANGED <<sync, hooked, parsed, input, linked, size, body>>

(* Slip: what the pipe has no room for is dropped. *)
DoPutSome(t) ==
  /\ At(t, "put")
  /\ LET n == Lesser(Capacity - Len(pipe), Arg(t)) IN
       /\ pipe' = pipe \o Units(arrived + 1, n)
       /\ arrived' = arrived + Arg(t)
  /\ Done(t)
  /\ UNCHANGED <<sync, hooked, parsed, input, linked, size, eof, got, delivered, ended, partial>>

(* Slip: the pipe is not bounded. *)
DoPutAll(t) ==
  /\ At(t, "put")
  /\ pipe' = pipe \o Units(arrived + 1, Arg(t))
  /\ arrived' = arrived + Arg(t)
  /\ Done(t)
  /\ UNCHANGED <<sync, hooked, parsed, input, linked, size, eof, got, delivered, ended, partial>>

(* write() blocks while the pipe is full, also after close(). *)
DoPut(t) ==
  /\ At(t, "put")
  /\ Len(pipe) < Capacity
  /\ LET n == Lesser(Capacity - Len(pipe), Arg(t)) IN
       /\ pipe' = pipe \o Units(arrived + 1, n)
       /\ arrived' = arrived + n
       /\ todo' = [todo EXCEPT ![t] = (IF n < Arg(t) THEN <<Put(Arg(t) - n)>> ELSE <<>>) \o Tail(@)]
  /\ UNCHANGED <<sync, hooked, parsed, input, linked, size, eof, got, delivered, ended, partial>>

(* Slip: the size is that of the last part. *)
DoCountLast(t) ==
  /\ At(t, "count")
  /\ size' = Arg(t)
  /\ Done(t)
  /\ UNCHANGED <<sync, hooked, parsed, input, linked, arrived, body>>

DoCount(t) ==
  /\ At(t, "count")
  /\ size' = size + Arg(t)
  /\ Done(t)
  /\ UNCHANGED <<sync, hooked, parsed, input, linked, arrived, body>>

DoFinish(t) ==
  /\ At(t, "finish")
  /\ eof' = (eof \/ hooked)
  /\ Done(t)
  /\ UNCHANGED <<sync, hooked, feed, pipe, got, delivered, ended, partial>>

DoUnhook(t) ==
  /\ At(t, "unhook")
  /\ hooked' = FALSE
  /\ Done(t)
  /\ UNCHANGED <<sync, feed, body>>

(* Slip: what is still in the pipe is thrown away. *)
DoShutEmptying(t) ==
  /\ At(t, "shut")
  /\ eof' = TRUE /\ pipe' = <<>>
  /\ Done(t)
  /\ UNCHANGED <<sync, hooked, feed, got, delivered, ended, partial>>

DoShut(t) ==
  /\ At(t, "shut")
  /\ eof' = TRUE
  /\ Done(t)
  /\ UNCHANGED <<sync, hooked, feed, pipe, got, delivered, ended, partial>>

(* buffer.read(n) takes what is there until it has n units or finds the    *)
(* pipe empty; it waits only while it has nothing and the pipe is open.    *)
Enough(t) == Arg(t) > 0 /\ got >= Arg(t)

DoTake(t) ==
  /\ At(t, "fetch")
  /\ pipe # <<>> /\ ~Enough(t)
  /\ LET n == IF Arg(t) < 0 THEN Len(pipe) ELSE Lesser(Arg(t) - got, Len(pipe)) IN
       /\ got' = got + n
       /\ delivered' = delivered \o SubSeq(pipe, 1, n)
       /\ pipe' = SubSeq(pipe, n + 1, Len(pipe))
  /\ UNCHANGED <<sync, todo, hooked, feed, eof, ended, partial>>

(* Slip: an empty pipe is taken for the end of the body. *)
DoReturnEmpty(t) ==
  /\ At(t, "fetch")
  /\ Enough(t) \/ pipe = <<>>
  /\ ended' = (ended \/ got = 0)
  /\ got' = 0
  /\ Done(t)
  /\ UNCHANGED <<sync, hooked, feed, pipe, eof, delivered, partial>>

DoReturn(t) ==
  /\ At(t, "fetch")
  /\ Enough(t) \/ (pipe = <<>> /\ (eof \/ got > 0))
  /\ ended' = (ended \/ got = 0)
  /\ got' = 0
  /\ Done(t)
  /\ UNCHANGED <<sync, hooked, feed, pipe, eof, delivered, partial>>

(* .url and .status raise ValueError when their field is missing; .headers *)
(* has no such test and returns the headers there are.                     *)
DoYield(t) ==
  /\ At(t, "yield")
  /\ partial' = (partial \/ (Arg(t) = "on_headers_complete" /\ Arg(t) \notin parsed))
  /\ Done(t)
  /\ UNCHANGED <<sync, hooked, feed, pipe, eof, got, delivered, ended>>

-----------------------------------------------------------------------------
Step(t) ==
  \/ DoWait(t) \/ DoSet(t) \/ DoClear(t) \/ DoStore(t) \/ DoDeliver(t) \/ DoPut(t)
  \/ DoCount(t) \/ DoFinish(t) \/ DoUnhook(t) \/ DoShut(t) \/ DoTake(t) \/ DoReturn(t)
  \/ DoYield(t)

Transport == FeedData \/ FeedEnd

Next ==
  \/ \E t \in Apps, n \in ReadSizes : \E op \in Operations[t] : Call(t, op, n)
  \/ Transport
  \/ \E t \in Threads : Step(t)

Spec == Init /\ [][Next]_vars

(* The scheduler runs every thread that can go on, and the link delivers   *)
(* the message to its end unless it closes.  It need not ever close.       *)
FairSpec == Spec /\ (\A t \in Threads : WF_vars(Step(t))) /\ WF_vars(FeedData)

-----------------------------------------------------------------------------
BodyLength == FoldLeft(LAMBDA sum, part : sum + part[2], 0, Message)

(* Every field has a value the code can give it. *)
TypeOK ==
  /\ events \subseteq Events
  /\ asleep \in [Threads -> Events \cup {"none"}]
  /\ \A t \in Threads : todo[t] # <<>> => Len(todo[t]) <= 9
  /\ hooked \in BOOLEAN /\ linked \in BOOLEAN /\ eof \in BOOLEAN
  /\ parsed \subseteq CallbackNames
  /\ IsSuffix(input, Message)
  /\ Len(pipe) <= Capacity
  /\ arrived \in 0 .. BodyLength /\ size \in 0 .. BodyLength /\ got \in 0 .. BodyLength
  /\ ended \in BOOLEAN /\ partial \in BOOLEAN

(* The application reads the beginning of the body without a gap, and the  *)
(* pipe holds what comes next, also when drain() unhooks the callbacks in  *)
(* the middle of the body, after which units are dropped.                  *)
BodyInOrder == delivered \o pipe = Units(1, Len(delivered) + Len(pipe))

(* While nobody has closed it, read() returns b"" only when the whole body *)
(* has been read, although the end of the message is signalled by another  *)
(* thread than the reader.                                                 *)
EndIsComplete == ended /\ hooked => Len(delivered) = BodyLength

(* len() is content-length or, when message_event is set, size: until a    *)
(* close() the second is the length of the body too.                       *)
SizeAgrees == "message" \in events /\ hooked => size = BodyLength

(* .headers returns incomplete headers only after a close(). *)
WholeUntilClosed == partial => ~hooked

(* An application that reads to the end gets there, whatever the cut of    *)
(* the body and the sizes it reads in, and also when the link closes: the  *)
(* clear() at the end of one read() never starves the feeder, which waits  *)
(* for the event before each part of the body.                             *)
ReadsToTheEnd == SF_vars(~ended /\ \E n \in ReadSizes : Call(Reader, "read", n)) => <>ended

(* Every method the application calls returns: "Allow on_body to process   *)
(* until the message is done" in wait() speaks of the whole message.       *)
AppsReturn == \A t \in Apps : ~Idle(t) ~> Idle(t)

(* A link that ends releases every thread of the application. *)
LinkEndReleases == \A t \in Apps : ~linked /\ ~Idle(t) ~> Idle(t)
=============================================================================
