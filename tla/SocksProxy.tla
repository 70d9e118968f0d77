----------------------------- MODULE SocksProxy -----------------------------
(***************************************************************************)
(* examples/socks_proxy.py: one event loop serves all clients.  Each has a *)
(* task for handle_client and one that pumps what it sends into a          *)
(* RequestIO, and a thread that sends the response into a PipeIO.          *)
(*                                                                         *)
(* A task runs from one await to the next.  Where it blocks in a call in   *)
(* between (connect(), the reads and writes of RequestIO and PipeIO,       *)
(* join()) it keeps the loop, and no other task runs.  The labels of main  *)
(* and pump are those points.  A response is counted in units, the first   *)
(* of which is its head.                                                   *)
(***************************************************************************)
EXTENDS Integers, Sequences

CONSTANTS
  Clients,    \* of the proxy
  Talks,      \* what a client may send
  Length,     \* units of the response that each gets
  Leaving,    \* the clients that may leave at any time
  PipeUnits,  \* units that a PipeIO holds
  Failures    \* whether a server may not wait, and a link not last

Packets == {"greeting", "request", "get", "head", "body", "head_body", "bad"}

ASSUME ProxyAssumption ==
  /\ Talks \subseteq Seq(Packets) /\ Length \in [Clients -> Nat \ {0}]
  /\ Leaving \subseteq Clients /\ PipeUnits \in Nat \ {0} /\ Failures \in BOOLEAN

VARIABLES
  main, pump, sender,  \* the two tasks and the thread of each client
  incoming, left,      \* what a client has still to send; it is gone
  request,             \* what the parser has found of its request
  link, arrived, over, \* its link; units of the response; no more will come
  sent, pipe, got      \* units the sender has put, in the pipe, and with the client

tcp == <<incoming, left>>
rns == <<link, arrived, over>>
units == <<sent, pipe, got>>
vars == <<main, pump, sender, incoming, left, request, link, arrived, over, sent, pipe, got>>

Blocked(c) == main[c] \in {"connect", "send", "status", "read", "join"} \/ pump[c] = "on_body"
Free == \A c \in Clients : ~Blocked(c)

Goes(c, to) == main' = [main EXCEPT ![c] = to]
Cancelled(c) == [pump EXCEPT ![c] = IF @ = "run" THEN "cancelled" ELSE @]

-----------------------------------------------------------------------------
Init ==
  /\ main = [c \in Clients |-> "greeting"]
  /\ pump = [c \in Clients |-> "none"] /\ sender = [c \in Clients |-> "none"]
  /\ incoming \in [Clients -> Talks] /\ left = [c \in Clients |-> FALSE]
  /\ request = [c \in Clients |-> "none"]
  /\ link = [c \in Clients |-> "none"]
  /\ arrived = [c \in Clients |-> 0] /\ over = [c \in Clients |-> FALSE]
  /\ sent = [c \in Clients |-> 0] /\ pipe = [c \in Clients |-> 0] /\ got = [c \in Clients |-> 0]

(* The client goes, and some of what it was about to send never comes. *)
Leave(c) ==
  /\ c \in Leaving /\ ~left[c]
  /\ left' = [left EXCEPT ![c] = TRUE]
  /\ \E n \in 0 .. Len(incoming[c]) : incoming' = [incoming EXCEPT ![c] = SubSeq(@, 1, n)]
  /\ UNCHANGED <<main, pump, sender, request, rns, units>>

(* socks5_handshake: the greeting, then the request and its reply.  On     *)
(* anything else, and at the end of the stream, it raises.                 *)
Handshake(c) ==
  /\ Free /\ main[c] \in {"greeting", "request"}
  /\ incoming[c] # <<>> \/ left[c]
  /\ IF incoming[c] # <<>> /\ Head(incoming[c]) = main[c]
     THEN Goes(c, IF main[c] = "greeting" THEN "request" ELSE "connect")
     ELSE Goes(c, "finally")
  /\ incoming' = [incoming EXCEPT ![c] = IF @ = <<>> THEN @ ELSE Tail(@)]
  /\ UNCHANGED <<pump, sender, left, request, rns, units>>

(* client.connect() waits on the loop.  What it leaves of a link when it   *)
(* fails is HttpClient's concern.                                          *)
Connected(c) ==
  /\ main[c] = "connect"
  /\ Goes(c, "headers")
  /\ pump' = [pump EXCEPT ![c] = "run"]
  /\ link' = [link EXCEPT ![c] = "open"]
  /\ UNCHANGED <<sender, tcp, request, arrived, over, units>>

NotConnected(c) ==
  /\ main[c] = "connect"
  /\ Goes(c, "finally")
  /\ UNCHANGED <<pump, sender, tcp, request, rns, units>>

-----------------------------------------------------------------------------
(* pipe_tcp_to_request_io.  A body makes request_io.write() wait, in       *)
(* on_body, for somebody who reads it, and everybody who could is a task   *)
(* of this loop.  What the parser does not take ends the pump.             *)
PumpData(c) ==
  /\ Free /\ pump[c] = "run" /\ incoming[c] # <<>>
  /\ LET packet == Head(incoming[c]) IN
       /\ request' = [request EXCEPT ![c] =
            CASE packet = "get" -> "whole" [] packet \in {"head", "head_body"} -> "head" [] OTHER -> @]
       /\ pump' = [pump EXCEPT ![c] =
            CASE packet \in {"body", "head_body"} -> "on_body" [] packet = "bad" -> "failed" [] OTHER -> @]
  /\ incoming' = [incoming EXCEPT ![c] = Tail(@)]
  /\ UNCHANGED <<main, sender, left, rns, units>>

(* The end of the stream, or an error: request_io.close(). *)
PumpEof(c) ==
  /\ Free /\ pump[c] = "run" /\ incoming[c] = <<>> /\ left[c]
  /\ pump' = [pump EXCEPT ![c] = "done"]
  /\ UNCHANGED <<main, sender, tcp, request, rns, units>>

(* The thread pool has waited for the headers: they are there, or          *)
(* request_io has been closed and .url raises; or 30 seconds are over.     *)
HeadersKnown(c) ==
  /\ Free /\ main[c] = "headers"
  /\ request[c] # "none" \/ pump[c] = "done"
  /\ Goes(c, IF request[c] = "none" THEN "finally" ELSE "send")
  /\ UNCHANGED <<pump, sender, tcp, request, rns, units>>

HeadersLate(c) ==
  /\ Free /\ main[c] = "headers"
  /\ Goes(c, "finally")
  /\ pump' = Cancelled(c)
  /\ UNCHANGED <<sender, tcp, request, rns, units>>

(* send_request reads the body to its end: that of a request without one   *)
(* has been closed by handle_client, and one that is cut off by the pump.  *)
Sent(c) ==
  /\ main[c] = "send"
  /\ request[c] = "whole" \/ pump[c] = "done"
  /\ Goes(c, "status")
  /\ UNCHANGED <<pump, sender, tcp, request, rns, units>>

(* .status, .reason and .headers wait for the response, and raise when its *)
(* link has ended before it came.                                          *)
StatusKnown(c) ==
  /\ main[c] = "status" /\ arrived[c] > 0
  /\ Goes(c, "read")
  /\ sender' = [sender EXCEPT ![c] = "run"]
  /\ UNCHANGED <<pump, tcp, request, rns, units>>

StatusMissing(c) ==
  /\ main[c] = "status" /\ over[c] /\ arrived[c] = 0
  /\ Goes(c, "finally")
  /\ UNCHANGED <<pump, sender, tcp, request, rns, units>>

-----------------------------------------------------------------------------
(* The server refuses a request that does not come within five seconds of  *)
(* the link.  Nobody reads that yet, and it answers nothing else.          *)
Refused(c) ==
  /\ Failures /\ link[c] = "open" /\ main[c] = "headers"
  /\ link' = [link EXCEPT ![c] = "mute"]
  /\ UNCHANGED <<main, pump, sender, tcp, request, arrived, over, units>>

(* The server answers the request that it was sent. *)
Arrive(c) ==
  /\ link[c] = "open" /\ ~over[c]
  /\ main[c] \in {"status", "read", "drain", "join"}
  /\ arrived' = [arrived EXCEPT ![c] = @ + 1]
  /\ over' = [over EXCEPT ![c] = arrived'[c] = Length[c]]
  /\ UNCHANGED <<main, pump, sender, tcp, request, link, units>>

CutOff(c) ==
  /\ Failures /\ link[c] = "open" /\ ~over[c]
  /\ main[c] \in {"status", "read", "drain", "join"}
  /\ over' = [over EXCEPT ![c] = TRUE]
  /\ UNCHANGED <<main, pump, sender, tcp, request, link, arrived, units>>

(* Slip: the pipe is not bounded. *)
SenderOverfills(c) ==
  /\ sender[c] = "run" /\ sent[c] < arrived[c]
  /\ sent' = [sent EXCEPT ![c] = @ + 1] /\ pipe' = [pipe EXCEPT ![c] = @ + 1]
  /\ UNCHANGED <<main, pump, sender, tcp, request, rns, got>>

(* The thread: response.sendto(pipe), whose write() waits while the pipe   *)
(* is full, and pipe.close().                                              *)
SenderPuts(c) ==
  /\ sender[c] = "run" /\ sent[c] < arrived[c] /\ pipe[c] < PipeUnits
  /\ sent' = [sent EXCEPT ![c] = @ + 1] /\ pipe' = [pipe EXCEPT ![c] = @ + 1]
  /\ UNCHANGED <<main, pump, sender, tcp, request, rns, got>>

(* Slip: a response that has not arrived is taken for one that is over. *)
SenderHasSentAll(c) ==
  /\ sender[c] = "run" /\ sent[c] = arrived[c]
  /\ sender' = [sender EXCEPT ![c] = "done"]
  /\ UNCHANGED <<main, pump, tcp, request, rns, units>>

SenderEnds(c) ==
  /\ sender[c] = "run" /\ sent[c] = arrived[c] /\ over[c]
  /\ sender' = [sender EXCEPT ![c] = "done"]
  /\ UNCHANGED <<main, pump, tcp, request, rns, units>>

(* Response.sendto asks for the length of a response that has none, which  *)
(* is not known before its end: an exception, behind the status line and   *)
(* with the pipe left open.                                                *)
SenderRaises(c) ==
  /\ Failures /\ sender[c] = "run" /\ sent[c] = 0 /\ arrived[c] > 0 /\ ~over[c]
  /\ sent' = [sent EXCEPT ![c] = 1] /\ pipe' = [pipe EXCEPT ![c] = 1]
  /\ sender' = [sender EXCEPT ![c] = "failed"]
  /\ UNCHANGED <<main, pump, tcp, request, rns, got>>

(* pipe_response_to_tcp: pipe.read() waits on the loop while the pipe is   *)
(* empty and open.                                                         *)
ReadData(c) ==
  /\ main[c] = "read" /\ pipe[c] > 0
  /\ Goes(c, "drain")
  /\ got' = [got EXCEPT ![c] = @ + pipe[c]] /\ pipe' = [pipe EXCEPT ![c] = 0]
  /\ UNCHANGED <<pump, sender, tcp, request, rns, sent>>

ReadEof(c) ==
  /\ main[c] = "read" /\ pipe[c] = 0 /\ sender[c] = "done"
  /\ Goes(c, "join")
  /\ UNCHANGED <<pump, sender, tcp, request, rns, units>>

(* drain() lets other tasks run; it raises once the client is known to     *)
(* have gone.                                                              *)
Drained(c) ==
  /\ Free /\ main[c] = "drain"
  /\ Goes(c, "read") \/ (left[c] /\ Goes(c, "join"))
  /\ UNCHANGED <<pump, sender, tcp, request, rns, units>>

(* send_thread.join() on the loop, however the thread has ended; then the  *)
(* pump is cancelled.                                                      *)
Joined(c) ==
  /\ main[c] = "join" /\ sender[c] \in {"done", "failed"}
  /\ Goes(c, "finally")
  /\ pump' = Cancelled(c)
  /\ UNCHANGED <<sender, tcp, request, rns, units>>

(* Slip: the connection of the client is left open. *)
FinallyOpen(c) ==
  /\ Free /\ main[c] = "finally"
  /\ Goes(c, "done")
  /\ link' = [link EXCEPT ![c] = "closed"]
  /\ UNCHANGED <<pump, sender, tcp, request, arrived, over, units>>

(* client.close() and tcp_writer.close(): nothing more comes in, and the   *)
(* pump reads the end of its stream behind what had come before.           *)
Finally(c) ==
  /\ Free /\ main[c] = "finally"
  /\ Goes(c, "done")
  /\ link' = [link EXCEPT ![c] = "closed"]
  /\ left' = [left EXCEPT ![c] = TRUE]
  /\ \E n \in 0 .. Len(incoming[c]) : incoming' = [incoming EXCEPT ![c] = SubSeq(@, 1, n)]
  /\ UNCHANGED <<pump, sender, request, arrived, over, units>>

-----------------------------------------------------------------------------
Pump(c) == PumpData(c) \/ PumpEof(c)

HandleClient(c) ==
  \/ Handshake(c) \/ Connected(c) \/ NotConnected(c) \/ HeadersKnown(c) \/ HeadersLate(c)
  \/ Sent(c) \/ StatusKnown(c) \/ StatusMissing(c) \/ ReadData(c) \/ ReadEof(c) \/ Drained(c)
  \/ Joined(c) \/ Finally(c)

Sender(c) == SenderPuts(c) \/ SenderEnds(c) \/ SenderRaises(c)

Next ==
  \E c \in Clients :
    Pump(c) \/ HandleClient(c) \/ Sender(c) \/ Refused(c) \/ Arrive(c) \/ CutOff(c) \/ Leave(c)

(* The loop takes its tasks in turn, threads run, a client sends what it   *)
(* has to send and takes what it gets, and a server answers.               *)
Spec ==
  /\ Init /\ [][Next]_vars
  /\ \A c \in Clients :
       SF_vars(HandleClient(c)) /\ SF_vars(Pump(c)) /\ WF_vars(Sender(c)) /\ WF_vars(Arrive(c))

-----------------------------------------------------------------------------
(* Every variable has a value the code can give it, and one task at most   *)
(* keeps the loop.                                                         *)
SocksTypeOK ==
  /\ main \in [Clients -> {"greeting", "request", "connect", "headers", "send", "status", "read",
                           "drain", "join", "finally", "done"}]
  /\ pump \in [Clients -> {"none", "run", "on_body", "done", "failed", "cancelled"}]
  /\ sender \in [Clients -> {"none", "run", "done", "failed"}]
  /\ \A c \in Clients :
       /\ got[c] + pipe[c] = sent[c] /\ sent[c] <= arrived[c] /\ arrived[c] <= Length[c]
       /\ pipe[c] <= PipeUnits
       /\ \A d \in Clients : Blocked(c) /\ Blocked(d) => c = d

(* A client that has stayed gets all of its response before the proxy      *)
(* takes it for finished, as far as the link has delivered it.             *)
WholeResponse ==
  \A c \in Clients : main[c] = "join" /\ ~left[c] => over[c] /\ got[c] = arrived[c]

(* The five calls that keep the loop for ever: .status on a link whose     *)
(* server has refused the request before it came; pipe.read() when the     *)
(* thread has raised; join() of a thread that waits for room in a pipe     *)
(* which nobody reads any more; request_io.write() with some of a body;    *)
(* and send_request() for the body that has still to come.                 *)
LoopHeld(c) ==
  \/ main[c] = "status" /\ link[c] = "mute"
  \/ main[c] = "read" /\ pipe[c] = 0 /\ sender[c] = "failed"
  \/ main[c] = "join" /\ sender[c] = "run" /\ pipe[c] = PipeUnits /\ sent[c] < arrived[c]
  \/ pump[c] = "on_body"
  \/ main[c] = "send" /\ request[c] = "head" /\ pump[c] # "done"

(* Nothing of a connection, no link, no task and no thread.                *)
Released(c) ==
  main[c] = "done" /\ link[c] \in {"none", "closed"} /\ pump[c] # "run" /\ sender[c] # "run"

(* Either one of those calls keeps the loop for good, or nothing is left   *)
(* of any connection, whatever becomes of the handshake, the link, the     *)
(* request, the response and the client.                                   *)
ClientsReleased ==
  \/ \E c \in Clients : <>[]LoopHeld(c)
  \/ \A c \in Clients : <>[]Released(c)

(* No call on the loop waits for something that only the loop can do: "in  *)
(* thread pool to not block event loop", as handle_client says.            *)
LoopGoesOn == []<>Free
=============================================================================
