----------------------------- MODULE HttpClient -----------------------------
(***************************************************************************)
(* HttpClient of rnhttp/client.py with, of rnhttp/server.py, what it meets *)
(* at the other end: the thread that each link starts there.               *)
(*                                                                         *)
(* The application calls connect(), send_request() and close() in any      *)
(* order; request() is connect(), unless there is a link, and then         *)
(* send_request().  None of them awaits anything that suspends it, so they *)
(* do not overlap.  The request that is made and sent is that of SendTo;   *)
(* it has a host header, as request() and URL give it one.                 *)
(***************************************************************************)
EXTENDS SendTo

CONSTANTS
  MaxLinks,     \* bound: links that connect() makes
  MaxRequests,  \* bound: requests that are sent
  Unreliable    \* links may be lost, and wait_url may run out of time

ASSUME ClientAssumption == MaxLinks \in Nat \ {0} /\ MaxRequests \in Nat /\ Unreliable \in BOOLEAN

VARIABLES
  call,      \* where the application is
  link,      \* self._link
  links,     \* each link: see Unused
  response   \* what each request's ResponseIO has been given

clientVars == <<vars, call, link, links, response>>

Links == 1 .. MaxLinks
Requests == 1 .. MaxRequests
NoLink == 0
Eof == [part |-> "eof", n |-> 0]

(* sent is what has been written to the link, seen how much of it the      *)
(* server's parser has been given; server is where handle_request is, back *)
(* the response on its way; readers are the requests that have a reader on *)
(* the link.  replaced is history: connect() has put another in its place. *)
Unused == [fate |-> "unused", sent |-> <<>>, seen |-> 0, server |-> "none", back |-> <<>>,
           readers |-> <<>>, replaced |-> FALSE]

Gone(l) == links[l].fate \in {"closed", "lost"}

-----------------------------------------------------------------------------
ClientInit ==
  /\ Init
  /\ call = "idle" /\ link = NoLink
  /\ links = [l \in Links |-> Unused]
  /\ response = [r \in Requests |-> "none"]

(* connect() asks for a link, also when it has one. *)
Connect(l) ==
  /\ call = "idle"
  /\ {k \in Links : links[k] = Unused} = l .. MaxLinks
  /\ call' = "connect" /\ link' = l
  /\ links' = [k \in Links |-> IF k = l THEN [Unused EXCEPT !.fate = "pending"]
                               ELSE [links[k] EXCEPT !.replaced = @ \/ k = link]]
  /\ UNCHANGED <<vars, response>>

(* The server has taken the link, whoever still waits for it:              *)
(* on_link_established starts its thread, on_established sets the event.   *)
Establish(l) ==
  /\ links[l].fate = "pending"
  /\ links' = [links EXCEPT ![l].fate = "open", ![l].server = "wait"]
  /\ UNCHANGED <<vars, call, link, response>>

(* connected.wait() ends by the event or by the timeout. *)
WaitEnds ==
  /\ call = "connect"
  /\ call' = IF links[link].server # "none" THEN "idle" ELSE "give_up"
  /\ UNCHANGED <<vars, link, links, response>>

(* What is under way is lost with the link, and nothing more that its      *)
(* server's thread does can be seen.                                       *)
Vanish(l, fate) ==
  links' = [links EXCEPT ![l] =
    [Unused EXCEPT !.fate = fate, !.server = IF links[l].server = "none" THEN "none" ELSE "gone",
                   !.readers = links[l].readers, !.replaced = links[l].replaced]]

Teardown == Vanish(link, "closed") /\ link' = NoLink /\ UNCHANGED <<vars, response>>

(* Slips: the link that was asked for stays open, or stays the client's.   *)
GiveUpOpen == call = "give_up" /\ call' = "idle" /\ link' = NoLink /\ UNCHANGED <<vars, links, response>>
GiveUpKeeping == call = "give_up" /\ call' = "idle" /\ Vanish(link, "closed") /\ UNCHANGED <<vars, link, response>>

(* The link may have been established since the timeout. *)
GiveUp == call = "give_up" /\ call' = "idle" /\ Teardown

Close == call = "idle" /\ link # NoLink /\ Teardown /\ UNCHANGED call

LinkLost(l) ==
  /\ Unreliable /\ links[l].fate \in {"pending", "open"}
  /\ Vanish(l, "lost")
  /\ UNCHANGED <<vars, call, link, response>>

-----------------------------------------------------------------------------
(* The application makes the request, or another thread fills its body;    *)
(* where among the steps of the link it does so makes no difference.       *)
Prepare ==
  /\ call = "idle" /\ link = NoLink
  /\ \/ \E n \in Lengths : SetBody("bytes", n) \/ SetBody("reader", n)
     \/ SetBody("pipe", 0) \/ SetBody("none", 0) \/ SetChunked
  /\ UNCHANGED <<call, link, links, response>>

Supply ==
  /\ call = "send" \/ (call = "idle" /\ link = NoLink)
  /\ Fill \/ CloseBody
  /\ UNCHANGED <<call, link, links, response>>

(* send_request() opens a reader for the response before it sends. *)
BeginRequest(r) ==
  /\ call = "idle" /\ link # NoLink
  /\ {q \in Requests : response[q] = "none"} = r .. MaxRequests
  /\ call' = "send"
  /\ response' = [response EXCEPT ![r] = "waiting"]
  /\ links' = [links EXCEPT ![link].readers = Append(@, r)]
  /\ UNCHANGED <<vars, link>>

(* What is written to a link that is gone is lost. *)
Write(items) == links' = IF Gone(link) THEN links ELSE [links EXCEPT ![link].sent = @ \o items]

SendPiece ==
  /\ call = "send"
  /\ SendHead \/ SendPart \/ SendLast
  /\ Write(SubSeq(wire', Len(wire) + 1, Len(wire')))
  /\ UNCHANGED <<call, link, response>>

(* The next request is a new object. *)
NewRequest ==
  /\ kind' = "none" /\ written' = 0 /\ closed' = TRUE /\ chunked' = FALSE /\ content_length' = NoLength
  /\ stage' = "new" /\ taken' = 0 /\ wire' = <<>> /\ stale' = FALSE /\ live' = FALSE

(* Slip: the writer is left open. *)
ReturnOpen ==
  /\ call = "send" /\ stage = "sent"
  /\ call' = "idle" /\ NewRequest
  /\ UNCHANGED <<link, links, response>>

(* writer.close() ends the stream to the server, which for a request       *)
(* without body is the only sign of its end, and the response is returned. *)
Return ==
  /\ call = "send" /\ stage = "sent"
  /\ Write(<<Eof>>)
  /\ call' = "idle" /\ NewRequest
  /\ UNCHANGED <<link, response>>

-----------------------------------------------------------------------------
(* What the server's parser has seen, and whether the request is over.     *)
(* With the end of the stream its reader is closed for good.               *)
Seen(l) == SubSeq(links[l].sent, 1, links[l].seen)
StreamEnded(l) == Eof \in ToSet(Seen(l))

(* Slip: the end of the stream is not passed on to the request. *)
OverByFraming(l) == Complete(SelectSeq(Seen(l), LAMBDA item : item # Eof))
Over(l) == StreamEnded(l) \/ Complete(Seen(l))

(* on_reader_ready; a body waits until it is read or the request closed. *)
ServerFed(l) ==
  /\ links[l].server # "none" /\ ~StreamEnded(l)
  /\ links[l].seen < Len(links[l].sent)
  /\ links[l].sent[links[l].seen + 1].part = "data" => links[l].server # "wait"
  /\ links' = [links EXCEPT ![l].seen = @ + 1]
  /\ UNCHANGED <<vars, call, link, response>>

ThreadGoes(l, from, to, items) ==
  /\ links[l].server = from
  /\ links' = [links EXCEPT ![l].server = to, ![l].back = @ \o items]
  /\ UNCHANGED <<vars, call, link, response>>

(* wait_url is over: the host header is there, or it is too late. *)
UrlKnown(l) == links[l].seen > 0 /\ ThreadGoes(l, "wait", "handle", <<>>)

(* Slip: after the refusal the request is handled all the same. *)
UrlLateGoesOn(l) == Unreliable /\ ThreadGoes(l, "wait", "handle", <<"head", "whole">>)
UrlLate(l) == Unreliable /\ ThreadGoes(l, "wait", "answer", <<>>)

(* The handler returns when the request is over, or before; the request is *)
(* closed and the response sent.  The writer is closed with the thread.    *)
HandlerReturns(l) == ThreadGoes(l, "handle", "answer", <<>>)
Answer(l) == ThreadGoes(l, "answer", "end", <<"head">>)
End(l) == ThreadGoes(l, "end", "done", <<"whole">>)

(* on_reader_ready of send_request: the oldest reader that is still open   *)
(* gets what arrives, and is closed at the end of the stream.              *)
ClientFed(l) ==
  LET readers == links[l].readers
      item == Head(links[l].back)
  IN /\ links[l].back # <<>>
     /\ links' = [links EXCEPT ![l].back = Tail(@),
                               ![l].readers = IF item = "whole" /\ @ # <<>> THEN Tail(@) ELSE @]
     /\ response' = IF readers = <<>> THEN response ELSE [response EXCEPT ![Head(readers)] = item]
     /\ UNCHANGED <<vars, call, link>>

-----------------------------------------------------------------------------
Thread(l) == UrlKnown(l) \/ UrlLate(l) \/ HandlerReturns(l) \/ Answer(l) \/ End(l)

ClientNext ==
  \/ \E l \in Links : Connect(l) \/ Establish(l) \/ LinkLost(l) \/ ServerFed(l) \/ Thread(l) \/ ClientFed(l)
  \/ WaitEnds \/ GiveUp \/ Close
  \/ Prepare \/ Supply \/ (\E r \in Requests : BeginRequest(r)) \/ SendPiece \/ Return

ClientSpec == ClientInit /\ [][ClientNext]_clientVars

(* Calls go on, a body is closed in the end, the link delivers, and the    *)
(* server's thread runs; its handler returns when it has read to the end.  *)
ThreadRuns(l) == Thread(l) /\ (links[l].server = "handle" => Over(l))

FairClientSpec ==
  /\ ClientSpec
  /\ WF_clientVars(WaitEnds \/ GiveUp \/ SendPiece \/ Return)
  /\ WF_clientVars(CloseBody /\ Supply)
  /\ \A l \in Links :
       WF_clientVars(ServerFed(l)) /\ WF_clientVars(ClientFed(l)) /\ WF_clientVars(ThreadRuns(l))

-----------------------------------------------------------------------------
(* Every variable has a value the code can give it. *)
ClientTypeOK ==
  /\ SendTypeOK
  /\ call \in {"idle", "connect", "give_up", "send"} /\ link \in Links \cup {NoLink}
  /\ \A l \in Links :
       /\ links[l].fate \in {"unused", "pending", "open", "closed", "lost"}
       /\ links[l].server \in {"none", "wait", "handle", "answer", "end", "done", "gone"}
       /\ links[l].seen <= Len(links[l].sent) /\ Len(links[l].back) <= 2 /\ IsInjective(links[l].readers)
  /\ response \in [Requests -> {"none", "waiting", "head", "whole"}]

(* A link is the client's own or closed, also when it comes up just as     *)
(* connect() gives up, unless a second connect() has replaced it: nothing  *)
(* would ever close it, nor release what the server holds for it.          *)
NoStrayLink ==
  \A l \in Links : links[l].fate \in {"pending", "open"} /\ ~links[l].replaced => l = link

(* After a connect() that failed, and a close(), the next request()        *)
(* connects anew: the link of an idle client is open or was lost.          *)
LinkIsUsable == call = "idle" /\ link # NoLink => links[link].fate \in {"open", "lost"}

(* The first request on a link gets a response to its end, with a body of  *)
(* every kind or none, if the server still waits for it and the link       *)
(* stays.                                                                  *)
FirstAnswered ==
  \A l \in Links, r \in Requests :
    (links[l].server = "wait" /\ r \in ToSet(links[l].readers) /\ Head(links[l].readers) = r)
      ~> (response[r] = "whole" \/ Gone(l))

(* The server's thread of a link comes to its end, also when no request is *)
(* made, and whether or not the framing tells it where the request ends.   *)
ServerThreadsEnd == \A l \in Links : links[l].server # "none" ~> (links[l].server = "done" \/ Gone(l))

(* "Send request and wait for response", as send_request() says: each      *)
(* request is answered as long as its link is there.                       *)
EveryRequestAnswered ==
  \A l \in Links, r \in Requests :
    r \in ToSet(links[l].readers) ~> (response[r] = "whole" \/ Gone(l))
=============================================================================
