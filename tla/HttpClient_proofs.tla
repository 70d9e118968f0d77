-------------------------- MODULE HttpClient_proofs --------------------------
(***************************************************************************)
(* Proofs about HttpClient and its links, for any number of links and of   *)
(* requests, with bodies of any size.                                      *)
(***************************************************************************)
EXTENDS HttpClient, FoldTheorems, SequenceTheorems, TLAPS

-----------------------------------------------------------------------------
(* The message: nothing has been read of the body before the headers.      *)
SendInv == SendTypeOK /\ written \in Nat /\ (stage = "new" => taken = 0)

SendParts == [part : {"head", "data", "last"}, n : Nat \cup {NoLength}]

(* A new message. *)
LEMMA SendInitInv == Init => SendInv
<1> SUFFICES ASSUME Init PROVE SendInv
  OBVIOUS
<1>1. wire \in Seq([part : {"head", "data", "last"}, n : Nat \cup {NoLength}])
  BY DEF Init
<1>2. closed \in BOOLEAN /\ chunked \in BOOLEAN /\ stale \in BOOLEAN /\ live \in BOOLEAN
  BY DEF Init
<1>3. taken \in 0 .. written /\ written \in Nat /\ content_length \in Nat \cup {NoLength}
  BY DEF Init, NoLength
<1> QED
  BY <1>1, <1>2, <1>3 DEF Init, SendInv, SendTypeOK

(* Preparing a message and filling its body. *)
LEMMA PrepareInv ==
  ASSUME SendInv,
         \/ \E n \in Lengths : SetBody("bytes", n) \/ SetBody("reader", n)
         \/ SetBody("pipe", 0) \/ SetBody("none", 0)
         \/ SetChunked \/ Fill \/ CloseBody \/ NewRequest
  PROVE  SendInv'
<1> USE LengthsAssumption DEF SendInv, SendTypeOK, NoLength
<1>1. ASSUME NEW k \in {"none", "bytes", "reader", "pipe"}, NEW n \in Nat, SetBody(k, n)
      PROVE  SendInv'
  BY <1>1 DEF SetBody
<1>2. CASE SetChunked
  BY <1>2 DEF SetChunked
<1>3. CASE Fill \/ CloseBody
  <2>1. wire' \in Seq([part : {"head", "data", "last"}, n : Nat \cup {NoLength}])
    BY <1>3 DEF Fill, CloseBody, message
  <2>2. closed' \in BOOLEAN /\ chunked' \in BOOLEAN /\ stale' \in BOOLEAN /\ live' \in BOOLEAN
    BY <1>3 DEF Fill, CloseBody, message
  <2>3. taken' \in 0 .. written' /\ written' \in Nat /\ content_length' \in Nat \cup {NoLength}
    BY <1>3 DEF Fill, CloseBody, message
  <2>4. kind' \in {"none", "bytes", "reader", "pipe"} /\ stage' \in {"new", "body", "sent"}
    BY <1>3 DEF Fill, CloseBody, message
  <2>5. /\ stage' # "new" => (chunked' <=> content_length' = NoLength)
        /\ stage' = "new" => taken' = 0
    BY <1>3 DEF Fill, CloseBody, message
  <2> QED
    BY <2>1, <2>2, <2>3, <2>4, <2>5
<1>4. CASE NewRequest
  <2>1. wire' \in Seq([part : {"head", "data", "last"}, n : Nat \cup {NoLength}])
    BY <1>4 DEF NewRequest
  <2>2. closed' \in BOOLEAN /\ chunked' \in BOOLEAN /\ stale' \in BOOLEAN /\ live' \in BOOLEAN
    BY <1>4 DEF NewRequest
  <2>3. taken' \in 0 .. written' /\ written' \in Nat /\ content_length' \in Nat \cup {NoLength}
    BY <1>4 DEF NewRequest
  <2>4. kind' \in {"none", "bytes", "reader", "pipe"} /\ stage' \in {"new", "body", "sent"}
    BY <1>4 DEF NewRequest
  <2>5. /\ stage' # "new" => (chunked' <=> content_length' = NoLength)
        /\ stage' = "new" => taken' = 0
    BY <1>4 DEF NewRequest
  <2> QED
    BY <2>1, <2>2, <2>3, <2>4, <2>5
<1> QED
  BY <1>1, <1>2, <1>3, <1>4

(* sendto(): what it adds to what it has written are parts of a message. *)
LEMMA SendPieceInv ==
  ASSUME SendInv, SendHead \/ SendPart \/ SendLast
  PROVE  /\ SendInv'
         /\ SubSeq(wire', Len(wire) + 1, Len(wire')) \in Seq(SendParts)
<1> USE LengthsAssumption DEF SendInv, SendTypeOK, NoLength
<1>1. CASE SendHead
  <2>1. Framing.length \in Nat \cup {NoLength} /\ (Framing.chunked <=> Framing.length = NoLength)
    BY DEF Framing
  <2>2. Framing.chunked \in BOOLEAN
    BY DEF Framing
  <2>3. wire' \in Seq(SendParts)
    BY <1>1, <2>1 DEF SendHead, SendParts
  <2> QED
    BY <1>1, <2>1, <2>2, <2>3 DEF SendHead, SendParts
<1>2. CASE SendPart
  <2>1. Available \in Nat
    BY DEF Available
  <2>2. PICK n \in Nat : /\ n <= Available
                         /\ wire' = Append(wire, [part |-> "data", n |-> n]) /\ taken' = taken + n
    BY <1>2, <2>1 DEF SendPart
  <2>3. wire' \in Seq(SendParts)
    BY <2>2 DEF SendParts
  <2> QED
    BY <1>2, <2>1, <2>2, <2>3 DEF SendPart, Available, message, SendParts
<1>3. CASE SendLast
  <2>1. [part |-> "last", n |-> 0] \in SendParts /\ wire \in Seq(SendParts)
    BY DEF SendParts
  <2>2. wire' \in Seq(SendParts)
    BY <1>3, <2>1 DEF SendLast
  <2> QED
    BY <1>3, <2>2 DEF SendLast, message, SendParts
<1>4. wire' \in Seq(SendParts) /\ Len(wire) \in Nat
  BY <1>1, <1>2, <1>3 DEF SendParts
<1> QED
  BY <1>1, <1>2, <1>3, <1>4, SubSeqProperties

-----------------------------------------------------------------------------
(* What a link may be.  A server's thread begins with the link, and what   *)
(* is on its way back is no more than that thread has sent.                *)
Items == [part : {"head", "data", "last", "eof"}, n : Nat \cup {NoLength}]

LinkStates ==
  [fate : {"unused", "pending", "open", "closed", "lost"}, sent : Seq(Items), seen : Nat,
   server : {"none", "wait", "handle", "answer", "end", "done", "gone"},
   back : Seq({"head", "whole"}), readers : Seq(Requests), replaced : BOOLEAN]

SentBack(server) == IF server = "done" THEN 2 ELSE IF server = "end" THEN 1 ELSE 0

LinkOK(k) ==
  /\ k \in LinkStates
  /\ k.fate \in {"unused", "pending"} => k.server = "none"
  /\ k.seen <= Len(k.sent)
  /\ Len(k.back) <= SentBack(k.server)
  /\ IsInjective(k.readers)

(* Each request has one reader, opened when it began. *)
ReadersBegan ==
  \A l \in Links : \A i \in DOMAIN links[l].readers : response[links[l].readers[i]] # "none"

(* While connect() runs, and while it gives up, the client has the link    *)
(* that it has asked for; and no link that it has has been closed.         *)
CallOK ==
  /\ call \in {"idle", "connect", "give_up", "send"}
  /\ link \in Links \cup {NoLink}
  /\ call # "idle" => link # NoLink
  /\ link # NoLink => links[link].fate \in {"pending", "open", "lost"}
  /\ link # NoLink /\ call \in {"idle", "send"} => links[link].fate # "pending"

LinksInv ==
  /\ links \in [Links -> LinkStates]
  /\ \A l \in Links : LinkOK(links[l])
  /\ response \in [Requests -> {"none", "waiting", "head", "whole"}]
  /\ ReadersBegan
  /\ CallOK
  /\ NoStrayLink

(* A link that connect() has not asked for yet. *)
LEMMA UnusedOK == LinkOK(Unused) /\ Unused.readers = <<>> /\ Unused.fate = "unused"
<1>1. Unused \in LinkStates
  BY DEF Unused, LinkStates, Items
<1>2. IsInjective(Unused.readers)
  BY DEF Unused, IsInjective
<1> QED
  BY <1>1, <1>2 DEF Unused, LinkOK, SentBack

(* No link has been asked for, and no call begun. *)
LEMMA LinksInitInv == ClientInit => LinksInv
<1> SUFFICES ASSUME ClientInit PROVE LinksInv
  OBVIOUS
<1>1. links \in [Links -> LinkStates] /\ \A l \in Links : links[l] = Unused
  BY UnusedOK DEF ClientInit, LinkOK
<1>2. response \in [Requests -> {"none", "waiting", "head", "whole"}]
  BY DEF ClientInit
<1>3. ReadersBegan
  BY <1>1, UnusedOK DEF ReadersBegan
<1>4. CallOK
  BY DEF ClientInit, CallOK
<1>5. NoStrayLink
  BY <1>1, UnusedOK DEF NoStrayLink
<1> QED
  BY <1>1, <1>2, <1>3, <1>4, <1>5, UnusedOK DEF LinksInv

(* A step of one link: it may come up or be lost, no more. *)
LEMMA OneLink ==
  ASSUME LinksInv, NEW l \in Links, NEW k, LinkOK(k),
         links' = [links EXCEPT ![l] = k], UNCHANGED link,
         call' = call \/ (call \in {"idle", "send"} /\ call' \in {"idle", "send"} /\ link # NoLink),
         \/ k.fate = links[l].fate
         \/ links[l].fate \in {"pending", "open"} /\ k.fate \in {"open", "lost"},
         k.replaced = links[l].replaced,
         response' \in [Requests -> {"none", "waiting", "head", "whole"}], ReadersBegan'
  PROVE  LinksInv'
<1>1. links' \in [Links -> LinkStates] /\ \A m \in Links : LinkOK(links'[m])
  BY DEF LinksInv, LinkOK
<1>2. CallOK'
  BY DEF LinksInv, CallOK
<1>3. NoStrayLink'
  BY DEF LinksInv, NoStrayLink
<1> QED
  BY <1>1, <1>2, <1>3 DEF LinksInv

(* A step that adds no reader leaves none without its request. *)
LEMMA SameReaders ==
  ASSUME LinksInv, NEW l \in Links, NEW k,
         links' = [links EXCEPT ![l] = k], k.readers = links[l].readers, UNCHANGED response
  PROVE  response' \in [Requests -> {"none", "waiting", "head", "whole"}] /\ ReadersBegan'
BY DEF LinksInv, ReadersBegan

-----------------------------------------------------------------------------
(* The steps of the links and of the threads at their other ends. *)
LEMMA EstablishInv ==
  ASSUME LinksInv, NEW l \in Links, Establish(l)
  PROVE  LinksInv'
<1> DEFINE k == [links[l] EXCEPT !.fate = "open", !.server = "wait"]
<1>1. links[l] \in LinkStates /\ LinkOK(links[l]) /\ links[l].server = "none"
  BY DEF LinksInv, LinkOK, Establish
<1>2. links' = [links EXCEPT ![l] = k] /\ UNCHANGED <<call, link, response>>
  BY DEF Establish
<1>3. k \in LinkStates /\ k.fate = "open" /\ k.server = "wait"
  BY <1>1 DEF LinkStates
<1>4. /\ k.seen = links[l].seen /\ k.sent = links[l].sent /\ k.back = links[l].back
      /\ k.readers = links[l].readers /\ k.replaced = links[l].replaced
  BY <1>1 DEF LinkStates
<1>5. LinkOK(k)
  BY <1>1, <1>3, <1>4 DEF LinkOK, SentBack
<1> HIDE DEF k
<1> QED
  BY <1>2, <1>3, <1>4, <1>5, OneLink, SameReaders DEF Establish

(* What is left of a link that is gone. *)
LEMMA VanishOK ==
  ASSUME LinksInv, NEW l \in Links, NEW fate \in {"closed", "lost"}, Vanish(l, fate)
  PROVE  \E k : /\ LinkOK(k) /\ k.fate = fate /\ links' = [links EXCEPT ![l] = k]
                /\ k.readers = links[l].readers /\ k.replaced = links[l].replaced
<1> DEFINE k == [Unused EXCEPT !.fate = fate,
                   !.server = IF links[l].server = "none" THEN "none" ELSE "gone",
                   !.readers = links[l].readers, !.replaced = links[l].replaced]
<1>1. links[l] \in LinkStates /\ LinkOK(links[l])
  BY DEF LinksInv
<1>2. links' = [links EXCEPT ![l] = k]
  BY DEF Vanish
<1>3. k \in LinkStates
  BY <1>1, UnusedOK DEF LinkStates, LinkOK
<1>4. /\ k.fate = fate /\ k.server \in {"none", "gone"} /\ k.sent = <<>> /\ k.seen = 0 /\ k.back = <<>>
      /\ k.readers = links[l].readers /\ k.replaced = links[l].replaced
  BY DEF Unused
<1>5. LinkOK(k)
  BY <1>1, <1>3, <1>4 DEF LinkOK, SentBack
<1> QED
  BY <1>2, <1>4, <1>5

(* A link is lost; the client is not told. *)
LEMMA LinkLostInv ==
  ASSUME LinksInv, NEW l \in Links, LinkLost(l)
  PROVE  LinksInv'
<1>1. PICK k : /\ LinkOK(k) /\ k.fate = "lost" /\ links' = [links EXCEPT ![l] = k]
               /\ k.readers = links[l].readers /\ k.replaced = links[l].replaced
  BY VanishOK DEF LinkLost
<1> QED
  BY <1>1, OneLink, SameReaders DEF LinkLost

(* What has been sent reaches the server. *)
LEMMA ServerFedInv ==
  ASSUME LinksInv, NEW l \in Links, ServerFed(l)
  PROVE  LinksInv'
<1> DEFINE k == [links[l] EXCEPT !.seen = links[l].seen + 1]
<1>1. links[l] \in LinkStates /\ LinkOK(links[l])
  BY DEF LinksInv
<1>2. links' = [links EXCEPT ![l] = k] /\ UNCHANGED <<call, link, response>>
  BY DEF ServerFed
<1>3. /\ k \in LinkStates /\ k.fate = links[l].fate /\ k.server = links[l].server
      /\ k.seen = links[l].seen + 1 /\ k.sent = links[l].sent /\ k.back = links[l].back
      /\ k.readers = links[l].readers /\ k.replaced = links[l].replaced
  BY <1>1 DEF LinkStates
<1>4. links[l].seen < Len(links[l].sent) /\ links[l].seen \in Nat /\ Len(links[l].sent) \in Nat
  BY <1>1 DEF ServerFed, LinkStates
<1>5. LinkOK(k)
  BY <1>1, <1>3, <1>4 DEF LinkOK
<1> HIDE DEF k
<1> QED
  BY <1>2, <1>3, <1>5, OneLink, SameReaders

(* The thread sends the head and then the rest of one response. *)
LEMMA ThreadInv ==
  ASSUME LinksInv, NEW l \in Links, Thread(l)
  PROVE  LinksInv'
<1>1. PICK from \in {"wait", "handle", "answer", "end"}, to \in {"handle", "answer", "end", "done"},
           items \in {<<>>, <<"head">>, <<"whole">>} :
        ThreadGoes(l, from, to, items) /\ SentBack(to) = SentBack(from) + Len(items)
  BY DEF Thread, UrlKnown, UrlLate, HandlerReturns, Answer, End, SentBack
<1> DEFINE k == [links[l] EXCEPT !.server = to, !.back = links[l].back \o items]
<1>2. links[l] \in LinkStates /\ LinkOK(links[l]) /\ links[l].server = from
  BY <1>1 DEF LinksInv, ThreadGoes
<1>3. links' = [links EXCEPT ![l] = k] /\ UNCHANGED <<call, link, response>>
  BY <1>1 DEF ThreadGoes
<1>4. items \in Seq({"head", "whole"}) /\ Len(items) \in Nat
  <2>1. /\ <<>> \in Seq({"head", "whole"}) /\ <<"head">> \in Seq({"head", "whole"})
        /\ <<"whole">> \in Seq({"head", "whole"})
    OBVIOUS
  <2>2. items \in Seq({"head", "whole"})
    BY <1>1, <2>1
  <2> QED
    BY <2>2
<1>5. /\ links[l].back \o items \in Seq({"head", "whole"})
      /\ Len(links[l].back \o items) = Len(links[l].back) + Len(items)
  BY <1>2, <1>4, ConcatProperties DEF LinkStates
<1>6. /\ k \in LinkStates /\ k.fate = links[l].fate /\ k.server = to
      /\ k.seen = links[l].seen /\ k.sent = links[l].sent /\ k.back = links[l].back \o items
      /\ k.readers = links[l].readers /\ k.replaced = links[l].replaced
  BY <1>2, <1>5 DEF LinkStates
<1>7. Len(k.back) <= SentBack(k.server)
  BY <1>1, <1>2, <1>4, <1>5, <1>6 DEF LinkOK, SentBack, LinkStates
<1>8. k.fate \notin {"unused", "pending"}
  BY <1>1, <1>2, <1>6 DEF LinkOK
<1>9. LinkOK(k)
  BY <1>2, <1>6, <1>7, <1>8 DEF LinkOK
<1> HIDE DEF k
<1> QED
  BY <1>3, <1>6, <1>9, OneLink, SameReaders

(* The oldest reader gets what arrives, and is closed at its end. *)
LEMMA ClientFedInv ==
  ASSUME LinksInv, NEW l \in Links, ClientFed(l)
  PROVE  LinksInv'
<1> DEFINE item == Head(links[l].back)
           old == links[l].readers
           left == IF item = "whole" /\ old # <<>> THEN Tail(old) ELSE old
           k == [links[l] EXCEPT !.back = Tail(links[l].back), !.readers = left]
<1>1. links[l] \in LinkStates /\ LinkOK(links[l])
  BY DEF LinksInv
<1>2. links[l].back \in Seq({"head", "whole"}) /\ links[l].back # <<>> /\ old \in Seq(Requests)
  BY <1>1 DEF ClientFed, LinkStates
<1>3. /\ item \in {"head", "whole"} /\ Tail(links[l].back) \in Seq({"head", "whole"})
      /\ Len(Tail(links[l].back)) = Len(links[l].back) - 1 /\ Len(links[l].back) \in Nat
  BY <1>2, HeadTailProperties
<1>4. old # <<>> => /\ Head(old) \in Requests /\ Tail(old) \in Seq(Requests)
                    /\ Len(Tail(old)) = Len(old) - 1
                    /\ \A i \in 1 .. Len(Tail(old)) : Tail(old)[i] = old[i + 1]
  BY <1>2, HeadTailProperties
<1>5. left \in Seq(Requests) /\ IsInjective(left)
  <2>1. IsInjective(old)
    BY <1>1 DEF LinkOK
  <2>2. old # <<>> => IsInjective(Tail(old))
    BY <1>2, <1>4, <2>1 DEF IsInjective
  <2> QED
    BY <1>2, <1>4, <2>1, <2>2
<1>6. links' = [links EXCEPT ![l] = k] /\ UNCHANGED <<call, link>>
  BY DEF ClientFed
<1>7. /\ k \in LinkStates /\ k.fate = links[l].fate /\ k.server = links[l].server
      /\ k.seen = links[l].seen /\ k.sent = links[l].sent /\ k.back = Tail(links[l].back)
      /\ k.readers = left /\ k.replaced = links[l].replaced
  BY <1>1, <1>3, <1>5 DEF LinkStates
<1>8. LinkOK(k)
  BY <1>1, <1>3, <1>5, <1>7 DEF LinkOK, SentBack
<1>9. response' = IF old = <<>> THEN response ELSE [response EXCEPT ![Head(old)] = item]
  BY DEF ClientFed
<1>10. /\ response' \in [Requests -> {"none", "waiting", "head", "whole"}]
       /\ \A r \in Requests : response[r] # "none" => response'[r] # "none"
  BY <1>3, <1>4, <1>9 DEF LinksInv
<1>11. ReadersBegan'
  <2>1. \A i \in DOMAIN left : \E j \in DOMAIN old : left[i] = old[j]
    BY <1>2, <1>4
  <2>2. \A i \in DOMAIN old : old[i] \in Requests /\ response[old[i]] # "none"
    BY <1>2 DEF LinksInv, ReadersBegan
  <2>3. \A i \in DOMAIN left : response'[left[i]] # "none"
    BY <1>10, <2>1, <2>2
  <2>4. links'[l].readers = left /\ \A m \in Links \ {l} : links'[m] = links[m]
    BY <1>6, <1>7 DEF LinksInv
  <2>5. \A m \in Links \ {l} : \A i \in DOMAIN links[m].readers :
          links[m].readers[i] \in Requests /\ response[links[m].readers[i]] # "none"
    BY DEF LinksInv, ReadersBegan, LinkStates
  <2> HIDE DEF left
  <2> QED
    BY <1>10, <2>3, <2>4, <2>5 DEF ReadersBegan
<1> HIDE DEF k
<1> QED
  BY <1>6, <1>7, <1>8, <1>10, <1>11, OneLink

-----------------------------------------------------------------------------
(* The calls of the client.  connect() takes a link that is not used; the  *)
(* one it had before is replaced.                                          *)
LEMMA ConnectInv ==
  ASSUME LinksInv, NEW l \in Links, Connect(l)
  PROVE  LinksInv'
<1> DEFINE new == [Unused EXCEPT !.fate = "pending"]
           old(m) == [links[m] EXCEPT !.replaced = @ \/ m = link]
<1>1. links' = [m \in Links |-> IF m = l THEN new ELSE old(m)]
  BY DEF Connect, LinksInv
<1>2. l # link /\ l # NoLink
  <2>1. l \in l .. MaxLinks
    BY ClientAssumption DEF Links
  <2>2. links[l].fate = "unused"
    BY <2>1, UnusedOK DEF Connect
  <2> QED
    BY <2>2 DEF LinksInv, CallOK, Links, NoLink
<1>3. LinkOK(new) /\ new.fate = "pending" /\ new.readers = <<>>
  <2>1. /\ new \in LinkStates /\ new.fate = "pending" /\ new.server = "none" /\ new.readers = <<>>
        /\ new.seen = Unused.seen /\ new.sent = Unused.sent /\ new.back = Unused.back
        /\ Unused.server = "none" /\ Unused.readers = <<>>
    BY UnusedOK DEF Unused, LinkStates, LinkOK
  <2> QED
    BY <2>1, UnusedOK DEF LinkOK
<1>4. \A m \in Links : LinkOK(old(m)) /\ old(m).fate = links[m].fate /\ old(m).readers = links[m].readers
  <2> SUFFICES ASSUME NEW m \in Links
               PROVE  LinkOK(old(m)) /\ old(m).fate = links[m].fate /\ old(m).readers = links[m].readers
    OBVIOUS
  <2>1. LinkOK(links[m]) /\ links[m] \in LinkStates
    BY DEF LinksInv
  <2>2. /\ old(m) \in LinkStates /\ old(m).fate = links[m].fate /\ old(m).server = links[m].server
        /\ old(m).readers = links[m].readers /\ old(m).seen = links[m].seen
        /\ old(m).sent = links[m].sent /\ old(m).back = links[m].back
    BY <2>1 DEF LinkStates
  <2> QED
    BY <2>1, <2>2 DEF LinkOK
<1>5. \A m \in Links : m # link => old(m).replaced = links[m].replaced
  BY DEF LinksInv, LinkStates
<1>6. link \in Links => old(link).replaced
  BY DEF LinksInv, LinkStates
<1>7. call' = "connect" /\ link' = l /\ response' = response
  BY DEF Connect
<1> HIDE DEF new, old
<1>8. links' \in [Links -> LinkStates] /\ \A m \in Links : LinkOK(links'[m])
  BY <1>1, <1>3, <1>4 DEF LinkOK
<1>9. ReadersBegan'
  BY <1>1, <1>3, <1>4, <1>7 DEF LinksInv, ReadersBegan
<1>10. CallOK'
  BY <1>1, <1>2, <1>3, <1>7 DEF CallOK
<1>11. NoStrayLink'
  BY <1>1, <1>4, <1>5, <1>6, <1>7 DEF LinksInv, NoStrayLink
<1> QED
  BY <1>7, <1>8, <1>9, <1>10, <1>11 DEF LinksInv

(* connect() ends its wait with a link that is up, or without one. *)
LEMMA WaitEndsInv ==
  ASSUME LinksInv, WaitEnds
  PROVE  LinksInv'
<1>1. links[link].server # "none" => links[link].fate # "pending"
  BY DEF LinksInv, CallOK, WaitEnds, LinkOK
<1> QED
  BY <1>1 DEF WaitEnds, LinksInv, CallOK, NoStrayLink, ReadersBegan

(* A torn down link is nobody's. *)
LEMMA TeardownInv ==
  ASSUME LinksInv, link # NoLink, Teardown, call' = "idle"
  PROVE  LinksInv'
<1>1. link \in Links
  BY DEF LinksInv, CallOK
<1>2. PICK k : /\ LinkOK(k) /\ k.fate = "closed" /\ links' = [links EXCEPT ![link] = k]
               /\ k.readers = links[link].readers /\ k.replaced = links[link].replaced
  BY <1>1, VanishOK DEF Teardown
<1>3. links' \in [Links -> LinkStates] /\ \A m \in Links : LinkOK(links'[m])
  BY <1>2 DEF LinksInv, LinkOK
<1>4. response' \in [Requests -> {"none", "waiting", "head", "whole"}] /\ ReadersBegan'
  BY <1>1, <1>2, SameReaders DEF Teardown
<1>5. CallOK'
  BY DEF CallOK, Teardown
<1>6. NoStrayLink'
  BY <1>1, <1>2 DEF LinksInv, NoStrayLink, Teardown
<1> QED
  BY <1>3, <1>4, <1>5, <1>6 DEF LinksInv

(* A request that has not begun has no reader yet. *)
LEMMA BeginRequestInv ==
  ASSUME LinksInv, NEW r \in Requests, BeginRequest(r)
  PROVE  LinksInv'
<1> DEFINE old == links[link].readers
           k == [links[link] EXCEPT !.readers = Append(old, r)]
<1>1. link \in Links /\ link # NoLink /\ call = "idle"
  BY DEF LinksInv, CallOK, BeginRequest
<1>2. links[link] \in LinkStates /\ LinkOK(links[link]) /\ old \in Seq(Requests)
  BY <1>1 DEF LinksInv, LinkStates
<1>3. response[r] = "none"
  <2>1. r \in r .. MaxRequests
    BY ClientAssumption DEF Requests
  <2> QED
    BY <2>1 DEF BeginRequest
<1>4. \A i \in DOMAIN old : old[i] # r
  BY <1>1, <1>3 DEF LinksInv, ReadersBegan
<1>5. /\ Append(old, r) \in Seq(Requests) /\ Len(Append(old, r)) = Len(old) + 1
      /\ \A i \in 1 .. Len(old) : Append(old, r)[i] = old[i]
      /\ Append(old, r)[Len(old) + 1] = r
  BY <1>2, AppendProperties
<1>6. IsInjective(Append(old, r))
  BY <1>2, <1>4, <1>5 DEF IsInjective, LinkOK
<1>7. links' = [links EXCEPT ![link] = k] /\ call' = "send" /\ UNCHANGED link
  BY DEF BeginRequest
<1>8. /\ k \in LinkStates /\ k.fate = links[link].fate /\ k.server = links[link].server
      /\ k.seen = links[link].seen /\ k.sent = links[link].sent /\ k.back = links[link].back
      /\ k.readers = Append(old, r) /\ k.replaced = links[link].replaced
  BY <1>2, <1>5 DEF LinkStates
<1>9. LinkOK(k)
  BY <1>2, <1>6, <1>8 DEF LinkOK
<1>10. response' = [response EXCEPT ![r] = "waiting"]
  BY DEF BeginRequest
<1>11. /\ response' \in [Requests -> {"none", "waiting", "head", "whole"}]
       /\ \A q \in Requests : response[q] # "none" => response'[q] # "none"
       /\ response'[r] # "none"
  BY <1>10 DEF LinksInv
<1>12. ReadersBegan'
  <2>1. \A i \in DOMAIN Append(old, r) : response'[Append(old, r)[i]] # "none"
    BY <1>1, <1>2, <1>5, <1>11 DEF LinksInv, ReadersBegan
  <2>2. links'[link].readers = Append(old, r) /\ \A m \in Links \ {link} : links'[m] = links[m]
    BY <1>1, <1>7, <1>8 DEF LinksInv
  <2>3. \A m \in Links \ {link} : \A i \in DOMAIN links[m].readers :
          links[m].readers[i] \in Requests /\ response[links[m].readers[i]] # "none"
    BY DEF LinksInv, ReadersBegan, LinkStates
  <2> QED
    BY <1>7, <1>11, <2>1, <2>2, <2>3 DEF ReadersBegan
<1> HIDE DEF k
<1> QED
  BY <1>1, <1>7, <1>8, <1>9, <1>11, <1>12, OneLink

(* What is written goes to the link of the client, if it is still there. *)
LEMMA WriteInv ==
  ASSUME LinksInv, NEW items \in Seq(Items), Write(items), call = "send", call' \in {"idle", "send"},
         UNCHANGED <<link, response>>
  PROVE  LinksInv'
<1>1. link \in Links /\ link # NoLink
  BY DEF LinksInv, CallOK
<1>2. links[link] \in LinkStates /\ LinkOK(links[link])
  BY <1>1 DEF LinksInv
<1>3. CASE Gone(link)
  <2>1. links' = links
    BY <1>3 DEF Write
  <2> QED
    BY <2>1 DEF LinksInv, CallOK, NoStrayLink, ReadersBegan
<1>4. CASE ~Gone(link)
  <2> DEFINE k == [links[link] EXCEPT !.sent = links[link].sent \o items]
  <2>1. links' = [links EXCEPT ![link] = k]
    BY <1>4 DEF Write
  <2>2. /\ links[link].sent \o items \in Seq(Items)
        /\ Len(links[link].sent \o items) = Len(links[link].sent) + Len(items)
        /\ Len(links[link].sent) \in Nat /\ Len(items) \in Nat
    BY <1>2, ConcatProperties DEF LinkStates
  <2>3. /\ k \in LinkStates /\ k.fate = links[link].fate /\ k.server = links[link].server
        /\ k.seen = links[link].seen /\ k.sent = links[link].sent \o items
        /\ k.back = links[link].back
        /\ k.readers = links[link].readers /\ k.replaced = links[link].replaced
    BY <1>2, <2>2 DEF LinkStates
  <2>4. links[link].seen \in Nat
    BY <1>2 DEF LinkStates
  <2>5. LinkOK(k)
    BY <1>2, <2>2, <2>3, <2>4 DEF LinkOK
  <2> HIDE DEF k
  <2>6. response' \in [Requests -> {"none", "waiting", "head", "whole"}] /\ ReadersBegan'
    BY <1>1, <2>1, <2>3, SameReaders
  <2> QED
    BY <1>1, <2>1, <2>3, <2>5, <2>6, OneLink
<1> QED
  BY <1>3, <1>4

-----------------------------------------------------------------------------
ClientInv == SendInv /\ LinksInv

(* Steps that touch only one half of the invariant leave the other alone. *)
LEMMA SendKept == ASSUME SendInv, UNCHANGED vars PROVE SendInv'
<1> USE DEF vars
<1>1. SendTypeOK'
  BY DEF SendInv, SendTypeOK, NoLength
<1> QED
  BY <1>1 DEF SendInv

LEMMA LinksKept == ASSUME LinksInv, UNCHANGED <<call, link, links, response>> PROVE LinksInv'
BY DEF LinksInv, CallOK, NoStrayLink, ReadersBegan

(* The invariant holds before the first call. *)
THEOREM ClientInitInv == ClientInit => ClientInv
BY SendInitInv, LinksInitInv DEF ClientInit, ClientInv

(* Every step of the client, of a link and of a server preserves it. *)
THEOREM ClientNextInv == ClientInv /\ [ClientNext]_clientVars => ClientInv'
<1> SUFFICES ASSUME ClientInv, [ClientNext]_clientVars
             PROVE  ClientInv'
  OBVIOUS
<1>0. SendInv /\ LinksInv
  BY DEF ClientInv
<1>1. ASSUME NEW l \in Links,
             Connect(l) \/ Establish(l) \/ LinkLost(l) \/ ServerFed(l) \/ Thread(l) \/ ClientFed(l)
      PROVE  ClientInv'
  <2>1. UNCHANGED vars
    BY <1>1 DEF Connect, Establish, LinkLost, ServerFed, Thread, UrlKnown, UrlLate, HandlerReturns,
                Answer, End, ThreadGoes, ClientFed
  <2>2. LinksInv'
    BY <1>0, <1>1, ConnectInv, EstablishInv, LinkLostInv, ServerFedInv, ThreadInv, ClientFedInv
  <2> QED
    BY <1>0, <2>1, <2>2, SendKept DEF ClientInv
<1>2. CASE WaitEnds
  BY <1>0, <1>2, WaitEndsInv, SendKept DEF WaitEnds, ClientInv
<1>3. CASE GiveUp
  <2>1. link # NoLink
    BY <1>0, <1>3 DEF GiveUp, LinksInv, CallOK
  <2> QED
    BY <1>0, <1>3, <2>1, TeardownInv, SendKept DEF GiveUp, Teardown, ClientInv
<1>4. CASE Close
  BY <1>0, <1>4, TeardownInv, SendKept DEF Close, Teardown, ClientInv
<1>5. CASE Prepare \/ Supply
  <2>1. SendInv'
    BY <1>0, <1>5, PrepareInv DEF Prepare, Supply
  <2> QED
    BY <1>0, <1>5, <2>1, LinksKept DEF Prepare, Supply, ClientInv
<1>6. ASSUME NEW r \in Requests, BeginRequest(r)
      PROVE  ClientInv'
  BY <1>0, <1>6, BeginRequestInv, SendKept DEF BeginRequest, ClientInv
<1>7. CASE SendPiece
  <2> DEFINE items == SubSeq(wire', Len(wire) + 1, Len(wire'))
  <2>1. SendInv' /\ items \in Seq(SendParts)
    BY <1>0, <1>7, SendPieceInv DEF SendPiece
  <2>2. SendParts \subseteq Items
    BY DEF SendParts, Items
  <2>3. items \in Seq(Items)
    BY <2>1, <2>2, SeqMonotonic
  <2>4. Write(items) /\ call = "send" /\ UNCHANGED <<call, link, response>>
    BY <1>7 DEF SendPiece
  <2> HIDE DEF items
  <2> QED
    BY <1>0, <2>1, <2>3, <2>4, WriteInv DEF ClientInv
<1>8. CASE Return
  <2>1. <<Eof>> \in Seq(Items)
    BY DEF Eof, Items
  <2>2. SendInv'
    BY <1>0, <1>8, PrepareInv DEF Return
  <2> QED
    BY <1>0, <1>8, <2>1, <2>2, WriteInv DEF Return, ClientInv
<1>9. CASE UNCHANGED clientVars
  BY <1>0, <1>9, SendKept, LinksKept DEF clientVars, ClientInv
<1> QED
  BY <1>1, <1>2, <1>3, <1>4, <1>5, <1>6, <1>7, <1>8, <1>9 DEF ClientNext

(* The invariant holds in every reachable state. *)
THEOREM ClientInvariance == ClientSpec => []ClientInv
<1>1. ClientInit => ClientInv
  BY ClientInitInv
<1>2. ClientInv /\ [ClientNext]_clientVars => ClientInv'
  BY ClientNextInv
<1> QED
  BY <1>1, <1>2, PTL DEF ClientSpec

-----------------------------------------------------------------------------
(* Calls, links, messages and responses keep their types, the two headers  *)
(* that tell the receiver of its framing never contradict each other, and  *)
(* a server's thread sends one head and one end of a response, for any     *)
(* number of links.                                                        *)
THEOREM ClientTypeCorrect == ClientSpec => []ClientTypeOK
<1>1. ClientInv => ClientTypeOK
  <2> SUFFICES ASSUME ClientInv PROVE ClientTypeOK
    OBVIOUS
  <2>1. ASSUME NEW l \in Links
        PROVE  /\ links[l].fate \in {"unused", "pending", "open", "closed", "lost"}
               /\ links[l].server \in {"none", "wait", "handle", "answer", "end", "done", "gone"}
               /\ links[l].seen <= Len(links[l].sent) /\ Len(links[l].back) <= 2
               /\ IsInjective(links[l].readers)
    <3>1. LinkOK(links[l]) /\ links[l] \in LinkStates /\ Len(links[l].back) \in Nat
      BY DEF ClientInv, LinksInv, LinkStates
    <3> QED
      BY <3>1 DEF LinkOK, LinkStates, SentBack
  <2> QED
    BY <2>1 DEF ClientInv, SendInv, LinksInv, CallOK, ClientTypeOK
<1> QED
  BY <1>1, ClientInvariance, PTL

(* Whenever a link comes up, also just as connect() gives up, it is the    *)
(* client's own, or closed, or one that connect() has replaced.            *)
THEOREM NoLinkIsLeft == ClientSpec => []NoStrayLink
<1>1. ClientInv => NoStrayLink
  BY DEF ClientInv, LinksInv
<1> QED
  BY <1>1, ClientInvariance, PTL

(* After whatever failed, a client that is idle has no link, or one that   *)
(* has come up.                                                            *)
THEOREM LinksAreUsable == ClientSpec => []LinkIsUsable
<1>1. ClientInv => LinkIsUsable
  BY DEF ClientInv, LinksInv, CallOK, LinkIsUsable
<1> QED
  BY <1>1, ClientInvariance, PTL

-----------------------------------------------------------------------------
(* What is on the wire.  The parser at the other end finds what has been   *)
(* taken from the body, and the end that the framing promises.             *)

(* A sequence of which the units of each item are a number. *)
Countable(seen) == seen \in Seq(SendParts) /\ \A i \in DOMAIN seen : Units(seen[i]) \in Nat

SizesOf(seen) == [i \in DOMAIN seen |-> Units(seen[i])]

(* The parser's fold is the sum of the units of the items. *)
LEMMA FoundIsSum ==
  ASSUME NEW seen, Countable(seen)
  PROVE  SizesOf(seen) \in Seq(Nat) /\ Found(seen) = Sum(SizesOf(seen))
<1> DEFINE sizes == SizesOf(seen)
<1>1. PICK n \in Nat : DOMAIN seen = 1 .. n
  BY DEF Countable
<1>2. \A i \in 1 .. n : sizes[i] = Units(seen[i]) /\ sizes[i] \in Nat
  BY <1>1 DEF Countable, SizesOf
<1>3. DOMAIN sizes = 1 .. n /\ sizes = [i \in 1 .. n |-> sizes[i]]
  BY <1>1 DEF SizesOf
<1> HIDE DEF sizes
<1>4. sizes \in Seq(Nat)
  <2>1. sizes \in [1 .. n -> Nat]
    BY <1>2, <1>3
  <2> QED
    BY <2>1
<1>5. Found(seen) = Sum(sizes)
  <2> DEFINE A(h) == h = [s \in SUBSET (1 .. n) |-> IF s = {} THEN 0 ELSE h[s \ {Max(s)}] + sizes[Max(s)]]
  <2> DEFINE B(h) == h = [s \in SUBSET (1 .. n) |-> IF s = {} THEN 0 ELSE h[s \ {Max(s)}] + Units(seen[Max(s)])]
  <2>1. ASSUME NEW h
        PROVE  A(h) <=> B(h)
    <3>1. ASSUME NEW s \in SUBSET (1 .. n), s # {}
          PROVE  sizes[Max(s)] = Units(seen[Max(s)])
      <4>1. Max(s) \in 1 .. n
        BY <3>1, LastPosition
      <4> QED
        BY <1>2, <4>1
    <3> QED
      BY <3>1
  <2>2. Sum(sizes) = (CHOOSE h : A(h))[1 .. n]
    BY <1>3 DEF Sum, FoldLeft, MapThenFoldSet
  <2>3. Found(seen) = (CHOOSE h : B(h))[1 .. n]
    BY <1>1 DEF Found, FoldLeft, MapThenFoldSet
  <2> HIDE DEF A, B
  <2>4. (CHOOSE h : A(h)) = (CHOOSE h : B(h))
    BY <2>1, Zenon
  <2> QED
    BY <2>2, <2>3, <2>4
<1> QED
  BY <1>4, <1>5 DEF sizes

(* Each item adds its units to what the parser has found. *)
LEMMA FoundGrows ==
  ASSUME NEW seen, Countable(seen), NEW item \in SendParts, Units(item) \in Nat
  PROVE  /\ Countable(Append(seen, item))
         /\ Found(seen) \in Nat /\ Found(Append(seen, item)) = Found(seen) + Units(item)
<1> DEFINE more == Append(seen, item)
<1>1. PICK n \in Nat : n = Len(seen) /\ DOMAIN seen = 1 .. n
  BY DEF Countable
<1>2. /\ more \in Seq(SendParts) /\ DOMAIN more = 1 .. n + 1 /\ more[n + 1] = item
      /\ \A i \in 1 .. n : more[i] = seen[i]
  BY <1>1 DEF Countable
<1> HIDE DEF more
<1>3. \A i \in 1 .. n + 1 : i \in 1 .. n \/ i = n + 1
  OBVIOUS
<1>4. Countable(more)
  BY <1>1, <1>2, <1>3 DEF Countable
<1>5. /\ SizesOf(seen) \in Seq(Nat) /\ Found(seen) = Sum(SizesOf(seen))
      /\ SizesOf(more) \in Seq(Nat) /\ Found(more) = Sum(SizesOf(more))
  BY <1>4, FoundIsSum
<1>6. SizesOf(more) = Append(SizesOf(seen), Units(item))
  <2> DEFINE sizes == SizesOf(seen)
  <2> DEFINE all == SizesOf(more)
  <2>1. DOMAIN sizes = 1 .. n /\ \A i \in 1 .. n : sizes[i] = Units(seen[i])
    BY <1>1 DEF SizesOf
  <2>2. all = [i \in 1 .. n + 1 |-> Units(more[i])]
    BY <1>2 DEF SizesOf
  <2>3. sizes \in Seq(Nat) /\ all \in Seq(Nat)
    BY <1>5
  <2> HIDE DEF sizes, all
  <2>4. Len(sizes) = n
    BY <1>1, <2>1, <2>3
  <2>5. /\ Append(sizes, Units(item)) \in Seq(Nat) /\ Len(Append(sizes, Units(item))) = n + 1
        /\ \A i \in 1 .. n : Append(sizes, Units(item))[i] = sizes[i]
        /\ Append(sizes, Units(item))[n + 1] = Units(item)
    BY <2>3, <2>4
  <2>6. Len(all) = n + 1 /\ \A i \in 1 .. n + 1 : all[i] = Append(sizes, Units(item))[i]
    <3>1. Len(all) = n + 1
      BY <1>1, <2>2, <2>3
    <3> QED
      BY <1>2, <1>3, <2>1, <2>2, <2>5, <3>1
  <2> QED
    BY <2>3, <2>5, <2>6, SeqEqual DEF sizes, all
<1>7. Sum(SizesOf(seen)) \in Nat /\ Sum(Append(SizesOf(seen), Units(item))) = Sum(SizesOf(seen)) + Units(item)
  BY <1>5, SumProperties
<1> QED
  BY <1>4, <1>5, <1>6, <1>7 DEF more

(* Before the headers, a length that is there is that of the body, unless  *)
(* it is stale; after them, what is on the wire is what has been taken,    *)
(* and a length stays the whole of a body that has ended.                  *)
FramedInv ==
  /\ wire # <<>> /\ wire[1].n = content_length /\ Countable(wire) /\ Found(wire) = taken
  /\ stage = "sent" /\ kind # "none" =>
       taken = written /\ closed /\ (chunked => Last(wire).part = "last")
  /\ Last(wire).part = "last" => stage = "sent" /\ kind # "none"
  /\ ~stale /\ ~live /\ ~chunked => closed /\ content_length = written

WireInv ==
  /\ kind # "pipe" => closed
  /\ stage = "new" => wire = <<>> /\ ~live
  /\ stage = "new" /\ ~stale => content_length = IF kind = "bytes" THEN written ELSE NoLength
  /\ stage # "new" => FramedInv

LEMMA NewWire == wire = <<>> /\ kind = "none" /\ closed /\ stage = "new" /\ ~live /\ content_length = NoLength => WireInv
BY DEF WireInv

(* Preparing a message, and filling its body before or while it is sent. *)
LEMMA PrepareWire ==
  ASSUME SendInv, WireInv,
         \/ \E n \in Lengths : SetBody("bytes", n) \/ SetBody("reader", n)
         \/ SetBody("pipe", 0) \/ SetBody("none", 0)
         \/ SetChunked \/ Fill \/ CloseBody
  PROVE  WireInv'
<1>1. ASSUME NEW k \in {"none", "bytes", "reader", "pipe"}, NEW n, SetBody(k, n)
      PROVE  WireInv'
  BY <1>1 DEF SetBody, WireInv
<1>2. CASE SetChunked
  BY <1>2 DEF SetChunked, WireInv
<1>3. CASE Fill \/ CloseBody
  <2>1. /\ kind' = kind /\ chunked' = chunked /\ content_length' = content_length /\ stage' = stage
        /\ taken' = taken /\ wire' = wire /\ stale' = stale /\ live' = live
        /\ kind = "pipe" /\ ~closed
    BY <1>3 DEF Fill, CloseBody, message
  <2>2. FramedInv => FramedInv'
    BY <2>1 DEF FramedInv
  <2> QED
    BY <2>1, <2>2 DEF WireInv
<1> QED
  BY <1>1, <1>2, <1>3

(* The headers, with the framing they announce. *)
LEMMA HeadWire ==
  ASSUME SendInv, WireInv, SendHead
  PROVE  WireInv'
<1> DEFINE head == [part |-> "head", n |-> Framing.length]
<1>1. /\ stage = "new" /\ stage' = "body" /\ wire' = <<head>>
      /\ chunked' = Framing.chunked /\ content_length' = Framing.length
      /\ live' = (kind = "pipe" /\ ~closed /\ ~chunked)
      /\ kind' = kind /\ written' = written /\ closed' = closed /\ taken' = taken /\ stale' = stale /\ taken = 0
  BY DEF SendHead, SendInv
<1>2. Framing.length \in Nat \cup {NoLength}
  BY DEF Framing, SendInv, SendTypeOK
<1>3. Units(head) = 0 /\ head \in SendParts /\ head.part = "head" /\ head.n = Framing.length
  BY <1>2 DEF Units, SendParts
<1> HIDE DEF head
<1>4. wire' \in Seq(SendParts) /\ DOMAIN wire' = 1 .. 1 /\ wire'[1] = head /\ wire' # <<>> /\ Len(wire') = 1
  BY <1>1, <1>3
<1>5. Countable(wire') /\ Found(wire') = 0
  <2>1. Countable(<<>>)
    BY DEF Countable
  <2>2. wire' = Append(<<>>, head)
    BY <1>1
  <2>3. SizesOf(<<>>) = <<>> /\ Found(<<>>) = 0
    <3>1. SizesOf(<<>>) = <<>>
      BY DEF SizesOf
    <3> QED
      BY <2>1, <3>1, FoundIsSum, SumProperties
  <2>4. /\ Countable(Append(<<>>, head))
        /\ Found(Append(<<>>, head)) = Found(<<>>) + Units(head)
    <3>1. PICK seen : seen = <<>>
      OBVIOUS
    <3>2. Countable(seen) /\ head \in SendParts /\ Units(head) \in Nat
      BY <1>3, <2>1, <3>1
    <3>3. Countable(Append(seen, head)) /\ Found(Append(seen, head)) = Found(seen) + Units(head)
      BY <3>2, FoundGrows
    <3> QED
      BY <3>1, <3>3
  <2> QED
    BY <1>3, <2>2, <2>3, <2>4
<1>6. Last(wire') = head
  BY <1>4 DEF Last
<1>7. ~stale /\ ~live' /\ ~chunked' => closed /\ content_length' = written
  BY <1>1 DEF Framing, WireInv, SendInv, SendTypeOK, NoLength
<1>8. FramedInv'
  BY <1>1, <1>3, <1>4, <1>5, <1>6, <1>7 DEF FramedInv
<1> QED
  BY <1>1, <1>8 DEF WireInv

(* A part of the body, or a chunk that holds it. *)
LEMMA PartWire ==
  ASSUME SendInv, WireInv, SendPart
  PROVE  WireInv'
<1>1. Available \in Nat /\ taken \in Nat
  BY DEF Available, SendInv, SendTypeOK
<1>2. PICK n \in Nat : wire' = Append(wire, [part |-> "data", n |-> n]) /\ taken' = taken + n
  BY <1>1, LengthsAssumption DEF SendPart
<1> DEFINE item == [part |-> "data", n |-> n]
<1>3. item \in SendParts /\ Units(item) = n /\ item.part = "data"
  BY DEF SendParts, Units
<1>4. /\ stage = "body" /\ kind' = kind /\ chunked' = chunked /\ content_length' = content_length
      /\ written' = written /\ closed' = closed /\ stage' = stage /\ stale' = stale /\ live' = live
  BY DEF SendPart, message
<1>5. FramedInv
  BY <1>4 DEF WireInv
<1> HIDE DEF item
<1>6. Countable(wire') /\ Found(wire') = taken'
  BY <1>2, <1>3, <1>5, FoundGrows DEF FramedInv, item
<1>7. wire' # <<>> /\ wire'[1] = wire[1] /\ Last(wire') = item
  <2>1. wire \in Seq(SendParts) /\ wire # <<>> /\ wire' = Append(wire, item)
    BY <1>2, <1>5 DEF FramedInv, Countable, item
  <2> QED
    BY <1>3, <2>1 DEF Last
<1>8. FramedInv'
  BY <1>3, <1>4, <1>5, <1>6, <1>7 DEF FramedInv
<1> QED
  BY <1>4, <1>8 DEF WireInv

(* The last chunk, where there is one. *)
LEMMA LastWire ==
  ASSUME SendInv, WireInv, SendLast
  PROVE  WireInv'
<1>1. /\ stage = "body" /\ stage' = "sent" /\ kind' = kind /\ chunked' = chunked
      /\ content_length' = content_length /\ written' = written /\ closed' = closed
      /\ taken' = taken /\ stale' = stale /\ live' = live
      /\ kind = "none" \/ (taken = written /\ closed)
  BY DEF SendLast, message, Available, SendInv, SendTypeOK
<1>2. FramedInv
  BY <1>1 DEF WireInv
<1>3. CASE chunked /\ kind # "none"
  <2> DEFINE item == [part |-> "last", n |-> 0]
  <2>1. item \in SendParts /\ Units(item) = 0 /\ item.part = "last" /\ wire' = Append(wire, item)
    BY <1>3 DEF SendParts, Units, SendLast
  <2> HIDE DEF item
  <2>2. Countable(wire') /\ Found(wire') = taken
    <3>1. Countable(wire) /\ Found(wire) = taken
      BY <1>2 DEF FramedInv
    <3>2. Countable(wire') /\ Found(wire) \in Nat /\ Found(wire') = Found(wire) + 0
      BY <2>1, <3>1, FoundGrows
    <3> QED
      BY <3>1, <3>2
  <2>3. wire' # <<>> /\ wire'[1] = wire[1] /\ Last(wire') = item
    <3>1. wire \in Seq(SendParts) /\ wire # <<>>
      BY <1>2 DEF FramedInv, Countable
    <3> QED
      BY <2>1, <3>1 DEF Last
  <2>4. FramedInv'
    BY <1>1, <1>2, <1>3, <2>1, <2>2, <2>3 DEF FramedInv
  <2> QED
    BY <1>1, <2>4 DEF WireInv
<1>4. CASE ~(chunked /\ kind # "none")
  <2>1. wire' = wire
    BY <1>4 DEF SendLast
  <2>2. FramedInv'
    BY <1>1, <1>2, <1>4, <2>1 DEF FramedInv
  <2> QED
    BY <1>1, <2>2 DEF WireInv
<1> QED
  BY <1>3, <1>4

LEMMA WireKept == ASSUME WireInv, UNCHANGED vars PROVE WireInv'
BY DEF WireInv, FramedInv, vars

LEMMA WireNextInv == SendInv /\ WireInv /\ [ClientNext]_clientVars => WireInv'
<1> SUFFICES ASSUME SendInv, WireInv, [ClientNext]_clientVars
             PROVE  WireInv'
  OBVIOUS
<1>1. ASSUME NEW l \in Links,
             Connect(l) \/ Establish(l) \/ LinkLost(l) \/ ServerFed(l) \/ Thread(l) \/ ClientFed(l)
      PROVE  WireInv'
  <2>1. UNCHANGED vars
    BY <1>1 DEF Connect, Establish, LinkLost, ServerFed, Thread, UrlKnown, UrlLate, HandlerReturns,
                Answer, End, ThreadGoes, ClientFed
  <2> QED
    BY <2>1, WireKept
<1>2. CASE WaitEnds \/ GiveUp \/ Close \/ \E r \in Requests : BeginRequest(r)
  <2>1. UNCHANGED vars
    BY <1>2 DEF WaitEnds, GiveUp, Close, Teardown, BeginRequest
  <2> QED
    BY <2>1, WireKept
<1>3. CASE Prepare \/ Supply
  BY <1>3, PrepareWire DEF Prepare, Supply
<1>4. CASE SendPiece
  BY <1>4, HeadWire, PartWire, LastWire DEF SendPiece
<1>5. CASE Return
  <2>1. /\ wire' = <<>> /\ kind' = "none" /\ closed' /\ stage' = "new" /\ ~live' /\ content_length' = NoLength
    BY <1>5 DEF Return, NewRequest
  <2> QED
    BY <2>1 DEF WireInv
<1>6. CASE UNCHANGED clientVars
  BY <1>6, WireKept DEF clientVars
<1> QED
  BY <1>1, <1>2, <1>3, <1>4, <1>5, <1>6 DEF ClientNext

(* What the parser at the other end has found is what sendto() has taken   *)
(* from the body, in every reachable state.                                *)
THEOREM WireInvariance == ClientSpec => []WireInv
<1>1. ClientInit => WireInv
  BY NewWire DEF ClientInit, Init
<1>2. ClientInv /\ WireInv /\ [ClientNext]_clientVars => WireInv'
  BY WireNextInv DEF ClientInv
<1> QED
  BY <1>1, <1>2, ClientInvariance, PTL DEF ClientSpec

(* A message with a body arrives whole and with its end, for bodies and    *)
(* reads of every size and however its pipe is filled meanwhile, unless    *)
(* its length was that of another body or of a pipe not yet filled.        *)
THEOREM BodiesArriveWhole == ClientSpec => []ArrivesWhole
<1>1. ClientInv /\ WireInv => ArrivesWhole
  <2> SUFFICES ASSUME SendInv, WireInv, stage = "sent", kind # "none", ~stale, ~live
               PROVE  Complete(wire) /\ Found(wire) = written
    BY DEF ClientInv, ArrivesWhole
  <2>1. FramedInv /\ written \in Nat /\ (chunked <=> content_length = NoLength)
    BY DEF WireInv, SendInv, SendTypeOK
  <2>2. Found(wire) = written
    BY <2>1 DEF FramedInv
  <2>3. Complete(wire)
    BY <2>1, <2>2 DEF FramedInv, Complete
  <2> QED
    BY <2>2, <2>3
<1> QED
  BY <1>1, ClientInvariance, WireInvariance, PTL

(* The parser does not take the message for complete while its body is     *)
(* still being written or read.                                            *)
THEOREM NoEarlyEnd == ClientSpec => []NeverEarly
<1>1. ClientInv /\ WireInv => NeverEarly
  <2> SUFFICES ASSUME SendInv, WireInv, Complete(wire), ~stale, ~live
               PROVE  closed /\ Found(wire) = written
    BY DEF ClientInv, NeverEarly
  <2>1. stage # "new" /\ FramedInv
    BY DEF WireInv, Complete
  <2>2. /\ written \in Nat /\ taken \in Nat /\ taken <= written
        /\ chunked \in BOOLEAN /\ (chunked <=> content_length = NoLength)
    BY <2>1 DEF SendInv, SendTypeOK
  <2>3. CASE chunked
    BY <2>1, <2>2, <2>3 DEF FramedInv, Complete
  <2>4. CASE ~chunked
    BY <2>1, <2>2, <2>4 DEF FramedInv, Complete
  <2> QED
    BY <2>2, <2>3, <2>4
<1> QED
  BY <1>1, ClientInvariance, WireInvariance, PTL
=============================================================================
