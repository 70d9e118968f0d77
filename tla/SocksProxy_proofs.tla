-------------------------- MODULE SocksProxy_proofs --------------------------
(***************************************************************************)
(* Proofs about SocksProxy for any number of clients, whatever they send,  *)
(* with responses and pipes of any size, and any of them leaving.          *)
(***************************************************************************)
EXTENDS SocksProxy, TLAPS

-----------------------------------------------------------------------------
(* The counts of a response: what is in the pipe and with the client is    *)
(* what the thread has put, which is at most what has arrived.             *)
Counted(c) ==
  /\ arrived[c] \in Nat /\ sent[c] \in Nat /\ pipe[c] \in Nat /\ got[c] \in Nat
  /\ got[c] + pipe[c] = sent[c] /\ sent[c] <= arrived[c] /\ arrived[c] <= Length[c]
  /\ pipe[c] <= PipeUnits

(* More may come only if it is not all there yet. *)
EndKnown(c) == ~over[c] => arrived[c] < Length[c]

(* The thread has closed the pipe when nothing more was to come, and had   *)
(* put it all; a join of a client that is there comes only behind that,    *)
(* and finds all of it delivered.                                          *)
EndsInOrder(c) ==
  /\ sender[c] = "done" => over[c] /\ sent[c] = arrived[c]
  /\ main[c] = "join" /\ ~left[c] => sender[c] = "done" /\ pipe[c] = 0

OneBlocks == \A c, d \in Clients : Blocked(c) /\ Blocked(d) => c = d

Shape ==
  /\ main \in [Clients -> {"greeting", "request", "connect", "headers", "send", "status", "read",
                           "drain", "join", "finally", "done"}]
  /\ pump \in [Clients -> {"none", "run", "on_body", "done", "failed", "cancelled"}]
  /\ sender \in [Clients -> {"none", "run", "done", "failed"}]
  /\ left \in [Clients -> BOOLEAN] /\ over \in [Clients -> BOOLEAN]
  /\ arrived \in [Clients -> Nat] /\ sent \in [Clients -> Nat]
  /\ pipe \in [Clients -> Nat] /\ got \in [Clients -> Nat]

SocksInv ==
  /\ Shape
  /\ OneBlocks
  /\ \A c \in Clients : Counted(c) /\ EndKnown(c) /\ EndsInOrder(c)

-----------------------------------------------------------------------------
(* What the assumption says of the sizes. *)
LEMMA Sizes == Length \in [Clients -> Nat \ {0}] /\ PipeUnits \in Nat \ {0}
BY ProxyAssumption

(* The invariant holds of a proxy that has just accepted its clients. *)
THEOREM SocksInitInv == Init => SocksInv
BY Sizes DEF Init, SocksInv, Shape, OneBlocks, Blocked, Counted, EndKnown, EndsInOrder

-----------------------------------------------------------------------------
(* The steps of a client's task of handle_client. *)
LEMMA HandleClientInv ==
  ASSUME SocksInv, NEW c \in Clients, HandleClient(c)
  PROVE  SocksInv'
<1> USE DEF SocksInv
<1>1. CASE Handshake(c)
  <2>1. Shape'
    BY <1>1 DEF Handshake, Goes, Cancelled, tcp, rns, units, Shape
  <2>2. OneBlocks'
    BY <1>1 DEF Handshake, Goes, Cancelled, tcp, rns, units, Shape, OneBlocks, Blocked, Free
  <2>3. \A d \in Clients : Counted(d)' /\ EndKnown(d)'
    BY <1>1, Sizes DEF Handshake, Goes, Cancelled, tcp, rns, units, Shape, Counted, EndKnown
  <2>4. \A d \in Clients : EndsInOrder(d)'
    BY <1>1 DEF Handshake, Goes, Cancelled, tcp, rns, units, Shape, Counted, EndsInOrder
  <2> QED
    BY <2>1, <2>2, <2>3, <2>4
<1>2. CASE Connected(c)
  <2>1. Shape'
    BY <1>2 DEF Connected, Goes, Cancelled, tcp, rns, units, Shape
  <2>2. OneBlocks'
    BY <1>2 DEF Connected, Goes, Cancelled, tcp, rns, units, Shape, OneBlocks, Blocked
  <2>3. \A d \in Clients : Counted(d)' /\ EndKnown(d)'
    BY <1>2, Sizes DEF Connected, Goes, Cancelled, tcp, rns, units, Shape, Counted, EndKnown
  <2>4. \A d \in Clients : EndsInOrder(d)'
    BY <1>2 DEF Connected, Goes, Cancelled, tcp, rns, units, Shape, Counted, EndsInOrder
  <2> QED
    BY <2>1, <2>2, <2>3, <2>4
<1>3. CASE NotConnected(c)
  <2>1. Shape'
    BY <1>3 DEF NotConnected, Goes, Cancelled, tcp, rns, units, Shape
  <2>2. OneBlocks'
    BY <1>3 DEF NotConnected, Goes, Cancelled, tcp, rns, units, Shape, OneBlocks, Blocked
  <2>3. \A d \in Clients : Counted(d)' /\ EndKnown(d)'
    BY <1>3, Sizes DEF NotConnected, Goes, Cancelled, tcp, rns, units, Shape, Counted, EndKnown
  <2>4. \A d \in Clients : EndsInOrder(d)'
    BY <1>3 DEF NotConnected, Goes, Cancelled, tcp, rns, units, Shape, Counted, EndsInOrder
  <2> QED
    BY <2>1, <2>2, <2>3, <2>4
<1>4. CASE HeadersKnown(c)
  <2>1. Shape'
    BY <1>4 DEF HeadersKnown, Goes, Cancelled, tcp, rns, units, Shape
  <2>2. OneBlocks'
    BY <1>4 DEF HeadersKnown, Goes, Cancelled, tcp, rns, units, Shape, OneBlocks, Blocked, Free
  <2>3. \A d \in Clients : Counted(d)' /\ EndKnown(d)'
    BY <1>4, Sizes DEF HeadersKnown, Goes, Cancelled, tcp, rns, units, Shape, Counted, EndKnown
  <2>4. \A d \in Clients : EndsInOrder(d)'
    BY <1>4 DEF HeadersKnown, Goes, Cancelled, tcp, rns, units, Shape, Counted, EndsInOrder
  <2> QED
    BY <2>1, <2>2, <2>3, <2>4
<1>5. CASE HeadersLate(c)
  <2>1. Shape'
    BY <1>5 DEF HeadersLate, Goes, Cancelled, tcp, rns, units, Shape
  <2>2. OneBlocks'
    BY <1>5 DEF HeadersLate, Goes, Cancelled, tcp, rns, units, Shape, OneBlocks, Blocked, Free
  <2>3. \A d \in Clients : Counted(d)' /\ EndKnown(d)'
    BY <1>5, Sizes DEF HeadersLate, Goes, Cancelled, tcp, rns, units, Shape, Counted, EndKnown
  <2>4. \A d \in Clients : EndsInOrder(d)'
    BY <1>5 DEF HeadersLate, Goes, Cancelled, tcp, rns, units, Shape, Counted, EndsInOrder
  <2> QED
    BY <2>1, <2>2, <2>3, <2>4
<1>6. CASE Sent(c)
  <2>1. Shape'
    BY <1>6 DEF Sent, Goes, Cancelled, tcp, rns, units, Shape
  <2>2. OneBlocks'
    BY <1>6 DEF Sent, Goes, Cancelled, tcp, rns, units, Shape, OneBlocks, Blocked
  <2>3. \A d \in Clients : Counted(d)' /\ EndKnown(d)'
    BY <1>6, Sizes DEF Sent, Goes, Cancelled, tcp, rns, units, Shape, Counted, EndKnown
  <2>4. \A d \in Clients : EndsInOrder(d)'
    BY <1>6 DEF Sent, Goes, Cancelled, tcp, rns, units, Shape, Counted, EndsInOrder
  <2> QED
    BY <2>1, <2>2, <2>3, <2>4
<1>7. CASE StatusKnown(c)
  <2>1. Shape'
    BY <1>7 DEF StatusKnown, Goes, Cancelled, tcp, rns, units, Shape
  <2>2. OneBlocks'
    BY <1>7 DEF StatusKnown, Goes, Cancelled, tcp, rns, units, Shape, OneBlocks, Blocked
  <2>3. \A d \in Clients : Counted(d)' /\ EndKnown(d)'
    BY <1>7, Sizes DEF StatusKnown, Goes, Cancelled, tcp, rns, units, Shape, Counted, EndKnown
  <2>4. \A d \in Clients : EndsInOrder(d)'
    BY <1>7 DEF StatusKnown, Goes, Cancelled, tcp, rns, units, Shape, Counted, EndsInOrder
  <2> QED
    BY <2>1, <2>2, <2>3, <2>4
<1>8. CASE StatusMissing(c)
  <2>1. Shape'
    BY <1>8 DEF StatusMissing, Goes, Cancelled, tcp, rns, units, Shape
  <2>2. OneBlocks'
    BY <1>8 DEF StatusMissing, Goes, Cancelled, tcp, rns, units, Shape, OneBlocks, Blocked
  <2>3. \A d \in Clients : Counted(d)' /\ EndKnown(d)'
    BY <1>8, Sizes DEF StatusMissing, Goes, Cancelled, tcp, rns, units, Shape, Counted, EndKnown
  <2>4. \A d \in Clients : EndsInOrder(d)'
    BY <1>8 DEF StatusMissing, Goes, Cancelled, tcp, rns, units, Shape, Counted, EndsInOrder
  <2> QED
    BY <2>1, <2>2, <2>3, <2>4
<1>9. CASE ReadData(c)
  <2>1. Shape'
    BY <1>9 DEF ReadData, Goes, Cancelled, tcp, rns, units, Shape
  <2>2. OneBlocks'
    BY <1>9 DEF ReadData, Goes, Cancelled, tcp, rns, units, Shape, OneBlocks, Blocked
  <2>3. \A d \in Clients : Counted(d)' /\ EndKnown(d)'
    BY <1>9, Sizes DEF ReadData, Goes, Cancelled, tcp, rns, units, Shape, Counted, EndKnown
  <2>4. \A d \in Clients : EndsInOrder(d)'
    BY <1>9 DEF ReadData, Goes, Cancelled, tcp, rns, units, Shape, Counted, EndsInOrder
  <2> QED
    BY <2>1, <2>2, <2>3, <2>4
<1>10. CASE ReadEof(c)
  <2>1. Shape'
    BY <1>10 DEF ReadEof, Goes, Cancelled, tcp, rns, units, Shape
  <2>2. OneBlocks'
    BY <1>10 DEF ReadEof, Goes, Cancelled, tcp, rns, units, Shape, OneBlocks, Blocked
  <2>3. \A d \in Clients : Counted(d)' /\ EndKnown(d)'
    BY <1>10, Sizes DEF ReadEof, Goes, Cancelled, tcp, rns, units, Shape, Counted, EndKnown
  <2>4. \A d \in Clients : EndsInOrder(d)'
    BY <1>10 DEF ReadEof, Goes, Cancelled, tcp, rns, units, Shape, Counted, EndsInOrder
  <2> QED
    BY <2>1, <2>2, <2>3, <2>4
<1>11. CASE Drained(c)
  <2>1. Shape'
    BY <1>11 DEF Drained, Goes, Cancelled, tcp, rns, units, Shape
  <2>2. OneBlocks'
    BY <1>11 DEF Drained, Goes, Cancelled, tcp, rns, units, Shape, OneBlocks, Blocked, Free
  <2>3. \A d \in Clients : Counted(d)' /\ EndKnown(d)'
    BY <1>11, Sizes DEF Drained, Goes, Cancelled, tcp, rns, units, Shape, Counted, EndKnown
  <2>4. \A d \in Clients : EndsInOrder(d)'
    BY <1>11 DEF Drained, Goes, Cancelled, tcp, rns, units, Shape, Counted, EndsInOrder
  <2> QED
    BY <2>1, <2>2, <2>3, <2>4
<1>12. CASE Joined(c)
  <2>1. Shape'
    BY <1>12 DEF Joined, Goes, Cancelled, tcp, rns, units, Shape
  <2>2. OneBlocks'
    BY <1>12 DEF Joined, Goes, Cancelled, tcp, rns, units, Shape, OneBlocks, Blocked
  <2>3. \A d \in Clients : Counted(d)' /\ EndKnown(d)'
    BY <1>12, Sizes DEF Joined, Goes, Cancelled, tcp, rns, units, Shape, Counted, EndKnown
  <2>4. \A d \in Clients : EndsInOrder(d)'
    BY <1>12 DEF Joined, Goes, Cancelled, tcp, rns, units, Shape, Counted, EndsInOrder
  <2> QED
    BY <2>1, <2>2, <2>3, <2>4
<1>13. CASE Finally(c)
  <2>1. Shape'
    BY <1>13 DEF Finally, Goes, Cancelled, tcp, rns, units, Shape
  <2>2. OneBlocks'
    BY <1>13 DEF Finally, Goes, Cancelled, tcp, rns, units, Shape, OneBlocks, Blocked, Free
  <2>3. \A d \in Clients : Counted(d)' /\ EndKnown(d)'
    BY <1>13, Sizes DEF Finally, Goes, Cancelled, tcp, rns, units, Shape, Counted, EndKnown
  <2>4. \A d \in Clients : EndsInOrder(d)'
    BY <1>13 DEF Finally, Goes, Cancelled, tcp, rns, units, Shape, Counted, EndsInOrder
  <2> QED
    BY <2>1, <2>2, <2>3, <2>4
<1> QED
  BY <1>1, <1>2, <1>3, <1>4, <1>5, <1>6, <1>7, <1>8, <1>9, <1>10, <1>11, <1>12, <1>13 DEF HandleClient

(* The steps of its pump, of its thread, of its link and of the client. *)
LEMMA OthersInv ==
  ASSUME SocksInv, NEW c \in Clients, 
         Pump(c) \/ Sender(c) \/ Refused(c) \/ Arrive(c) \/ CutOff(c) \/ Leave(c)
  PROVE  SocksInv'
<1> USE DEF SocksInv
<1>1. CASE PumpData(c)
  <2>1. Shape'
    BY <1>1 DEF PumpData, Goes, Cancelled, tcp, rns, units, Shape
  <2>2. OneBlocks'
    BY <1>1 DEF PumpData, Goes, Cancelled, tcp, rns, units, Shape, OneBlocks, Blocked, Free
  <2>3. \A d \in Clients : Counted(d)' /\ EndKnown(d)'
    BY <1>1, Sizes DEF PumpData, Goes, Cancelled, tcp, rns, units, Shape, Counted, EndKnown
  <2>4. \A d \in Clients : EndsInOrder(d)'
    BY <1>1 DEF PumpData, Goes, Cancelled, tcp, rns, units, Shape, Counted, EndsInOrder
  <2> QED
    BY <2>1, <2>2, <2>3, <2>4
<1>2. CASE PumpEof(c)
  <2>1. Shape'
    BY <1>2 DEF PumpEof, Goes, Cancelled, tcp, rns, units, Shape
  <2>2. OneBlocks'
    BY <1>2 DEF PumpEof, Goes, Cancelled, tcp, rns, units, Shape, OneBlocks, Blocked, Free
  <2>3. \A d \in Clients : Counted(d)' /\ EndKnown(d)'
    BY <1>2, Sizes DEF PumpEof, Goes, Cancelled, tcp, rns, units, Shape, Counted, EndKnown
  <2>4. \A d \in Clients : EndsInOrder(d)'
    BY <1>2 DEF PumpEof, Goes, Cancelled, tcp, rns, units, Shape, Counted, EndsInOrder
  <2> QED
    BY <2>1, <2>2, <2>3, <2>4
<1>3. CASE SenderPuts(c)
  <2>1. Shape'
    BY <1>3 DEF SenderPuts, Goes, Cancelled, tcp, rns, units, Shape
  <2>2. OneBlocks'
    BY <1>3 DEF SenderPuts, Goes, Cancelled, tcp, rns, units, Shape, OneBlocks, Blocked
  <2>3. \A d \in Clients : Counted(d)' /\ EndKnown(d)'
    BY <1>3, Sizes DEF SenderPuts, Goes, Cancelled, tcp, rns, units, Shape, Counted, EndKnown
  <2>4. \A d \in Clients : EndsInOrder(d)'
    BY <1>3 DEF SenderPuts, Goes, Cancelled, tcp, rns, units, Shape, Counted, EndsInOrder
  <2> QED
    BY <2>1, <2>2, <2>3, <2>4
<1>4. CASE SenderEnds(c)
  <2>1. Shape'
    BY <1>4 DEF SenderEnds, Goes, Cancelled, tcp, rns, units, Shape
  <2>2. OneBlocks'
    BY <1>4 DEF SenderEnds, Goes, Cancelled, tcp, rns, units, Shape, OneBlocks, Blocked
  <2>3. \A d \in Clients : Counted(d)' /\ EndKnown(d)'
    BY <1>4, Sizes DEF SenderEnds, Goes, Cancelled, tcp, rns, units, Shape, Counted, EndKnown
  <2>4. \A d \in Clients : EndsInOrder(d)'
    BY <1>4 DEF SenderEnds, Goes, Cancelled, tcp, rns, units, Shape, Counted, EndsInOrder
  <2> QED
    BY <2>1, <2>2, <2>3, <2>4
<1>5. CASE Refused(c)
  <2>1. Shape'
    BY <1>5 DEF Refused, Goes, Cancelled, tcp, rns, units, Shape
  <2>2. OneBlocks'
    BY <1>5 DEF Refused, Goes, Cancelled, tcp, rns, units, Shape, OneBlocks, Blocked
  <2>3. \A d \in Clients : Counted(d)' /\ EndKnown(d)'
    BY <1>5, Sizes DEF Refused, Goes, Cancelled, tcp, rns, units, Shape, Counted, EndKnown
  <2>4. \A d \in Clients : EndsInOrder(d)'
    BY <1>5 DEF Refused, Goes, Cancelled, tcp, rns, units, Shape, Counted, EndsInOrder
  <2> QED
    BY <2>1, <2>2, <2>3, <2>4
<1>6. CASE Arrive(c)
  <2>1. Shape'
    BY <1>6 DEF Arrive, Goes, Cancelled, tcp, rns, units, Shape
  <2>2. OneBlocks'
    BY <1>6 DEF Arrive, Goes, Cancelled, tcp, rns, units, Shape, OneBlocks, Blocked
  <2>3. \A d \in Clients : Counted(d)' /\ EndKnown(d)'
    <3>0. arrived[c] \in Nat /\ Length[c] \in Nat
      BY Sizes DEF Shape
    <3>1. arrived[c] < Length[c]
      BY <1>6 DEF Arrive, EndKnown
    <3>2. arrived'[c] = arrived[c] + 1 /\ (over'[c] <=> arrived'[c] = Length[c])
      BY <1>6 DEF Arrive, Shape
    <3>3. sent' = sent /\ pipe' = pipe /\ got' = got
      BY <1>6 DEF Arrive, units
    <3>4. Counted(c)'
      BY <3>0, <3>1, <3>2, <3>3 DEF Counted
    <3>5. EndKnown(c)'
      BY <3>0, <3>1, <3>2 DEF EndKnown
    <3>6. \A d \in Clients \ {c} : Counted(d)' /\ EndKnown(d)'
      BY <1>6 DEF Arrive, tcp, rns, units, Shape, Counted, EndKnown
    <3> QED
      BY <3>4, <3>5, <3>6
  <2>4. \A d \in Clients : EndsInOrder(d)'
    BY <1>6 DEF Arrive, Goes, Cancelled, tcp, rns, units, Shape, Counted, EndsInOrder
  <2> QED
    BY <2>1, <2>2, <2>3, <2>4
<1>7. CASE CutOff(c)
  <2>1. Shape'
    BY <1>7 DEF CutOff, Goes, Cancelled, tcp, rns, units, Shape
  <2>2. OneBlocks'
    BY <1>7 DEF CutOff, Goes, Cancelled, tcp, rns, units, Shape, OneBlocks, Blocked
  <2>3. \A d \in Clients : Counted(d)' /\ EndKnown(d)'
    BY <1>7, Sizes DEF CutOff, Goes, Cancelled, tcp, rns, units, Shape, Counted, EndKnown
  <2>4. \A d \in Clients : EndsInOrder(d)'
    BY <1>7 DEF CutOff, Goes, Cancelled, tcp, rns, units, Shape, Counted, EndsInOrder
  <2> QED
    BY <2>1, <2>2, <2>3, <2>4
<1>8. CASE Leave(c)
  <2>1. Shape'
    BY <1>8 DEF Leave, Goes, Cancelled, tcp, rns, units, Shape
  <2>2. OneBlocks'
    BY <1>8 DEF Leave, Goes, Cancelled, tcp, rns, units, Shape, OneBlocks, Blocked
  <2>3. \A d \in Clients : Counted(d)' /\ EndKnown(d)'
    BY <1>8, Sizes DEF Leave, Goes, Cancelled, tcp, rns, units, Shape, Counted, EndKnown
  <2>4. \A d \in Clients : EndsInOrder(d)'
    BY <1>8 DEF Leave, Goes, Cancelled, tcp, rns, units, Shape, Counted, EndsInOrder
  <2> QED
    BY <2>1, <2>2, <2>3, <2>4
<1>9. CASE SenderRaises(c)
  <2>1. Shape'
    BY <1>9 DEF SenderRaises, Goes, Cancelled, tcp, rns, units, Shape
  <2>2. OneBlocks'
    BY <1>9 DEF SenderRaises, Goes, Cancelled, tcp, rns, units, Shape, OneBlocks, Blocked
  <2>3. \A d \in Clients : Counted(d)' /\ EndKnown(d)'
    BY <1>9, Sizes DEF SenderRaises, Goes, Cancelled, tcp, rns, units, Shape, Counted, EndKnown
  <2>4. \A d \in Clients : EndsInOrder(d)'
    BY <1>9 DEF SenderRaises, Goes, Cancelled, tcp, rns, units, Shape, Counted, EndsInOrder
  <2> QED
    BY <2>1, <2>2, <2>3, <2>4
<1> QED
  BY <1>1, <1>2, <1>3, <1>4, <1>5, <1>6, <1>7, <1>8, <1>9 DEF Pump, Sender

(* Every step of the loop, of a thread, a link or a client preserves it. *)
THEOREM SocksNextInv == SocksInv /\ [Next]_vars => SocksInv'
<1> SUFFICES ASSUME SocksInv, [Next]_vars
             PROVE  SocksInv'
  OBVIOUS
<1>1. CASE Next
  BY <1>1, HandleClientInv, OthersInv DEF Next
<1>2. CASE UNCHANGED vars
  BY <1>2 DEF vars, SocksInv, Shape, OneBlocks, Blocked, Counted, EndKnown, EndsInOrder
<1> QED
  BY <1>1, <1>2

(* The invariant holds in every reachable state of the proxy. *)
THEOREM SocksInvariance == Spec => []SocksInv
<1>1. Init => SocksInv
  BY SocksInitInv
<1>2. SocksInv /\ [Next]_vars => SocksInv'
  BY SocksNextInv
<1> QED
  BY <1>1, <1>2, PTL DEF Spec

-----------------------------------------------------------------------------
(* handle_client, the pumps and the threads keep their states, the pipe    *)
(* never holds more than it has room for, and two calls never block the    *)
(* loop at once, for any number of clients.                                *)
THEOREM SocksTypeCorrect == Spec => []SocksTypeOK
<1>1. SocksInv => SocksTypeOK
  BY DEF SocksInv, Shape, OneBlocks, Counted, SocksTypeOK
<1> QED
  BY <1>1, SocksInvariance, PTL

(* When handle_client takes a response for finished, a client that has     *)
(* stayed has got all of it, whatever its size and that of the pipe.       *)
THEOREM ResponsesAreWhole == Spec => []WholeResponse
<1>1. SocksInv => WholeResponse
  BY DEF SocksInv, Shape, Counted, EndsInOrder, WholeResponse
<1> QED
  BY <1>1, SocksInvariance, PTL
=============================================================================
