----------------------------- MODULE HttpServer -----------------------------
(***************************************************************************)
(* One link of HttpServer (rnhttp/server.py): on_link_established starts   *)
(* the thread of handle_request, which waits for the request line, runs    *)
(* the handler of the route, closes the request and sends the response,    *)
(* while on_reader_ready feeds the RequestIO from the transport's thread.  *)
(*                                                                         *)
(* The RequestIO is CallbacksIO; its one application thread, Reader, is    *)
(* the thread of handle_request.  A handler is a function, which may read  *)
(* the request and returns or raises, or a generator function, which       *)
(* returns a generator at once: that one reads the request and writes the  *)
(* response body into a pipe of its own.                                   *)
(***************************************************************************)
EXTENDS CallbacksIO

CONSTANTS
  Outcomes,        \* what get_handler and extract_params may come to
  SendFails,       \* whether sendto may raise: the response, its body or the link
  ResponseLength,  \* units of body a generator writes at most
  PipeCapacity     \* units the pipe of the response holds

(* Message is a request: on_message_begin is its first callback and no     *)
(* other, and the request line comes before a Host header and the end.     *)
ASSUME RequestAssumption ==
  /\ \A j \in DOMAIN Message : Message[j][1] = "on_message_begin" <=> j = 1
  /\ \A j \in DOMAIN Message :
       Message[j][1] \in {"on_host", "on_message_complete"} =>
         \E i \in 1 .. j - 1 : Message[i][1] = "on_url"
ASSUME OutcomesAssumption == Outcomes \subseteq {"none", "bad_params", "function", "generator"}
ASSUME SendFailsAssumption == SendFails \in BOOLEAN
ASSUME ResponseAssumption == ResponseLength \in Nat /\ PipeCapacity \in Nat \ {0}

VARIABLES
  stage,    \* where handle_request is
  status,   \* of the response to be sent
  kind,     \* what get_handler and extract_params have come to
  answers,  \* the status lines written to the link, in order
  whole,    \* the body of the last of them was written to its end
  made,     \* units the generator has passed to write() of the response's pipe
  late      \* history: the 5 seconds were over before the link had delivered

server == <<stage, status, kind, answers, whole, made, late>>
allVars == <<vars, server>>

Stages == {"idle", "url", "route", "handler", "closing", "generate", "send", "body", "refuse", "done", "failed"}

(* The thread has come to its end: with a response that was sent, or with  *)
(* an exception of the sendto of a refusal, which nobody catches.          *)
Over == {"done", "failed"}

Run(code) == todo' = [todo EXCEPT ![Reader] = code]

(* The thread of handle_request has come to the end of the last call. *)
In(s) == stage = s /\ Idle(Reader)

(* What no step of handle_request itself changes: it acts on the request   *)
(* only through the methods of CallbacksIO.                                *)
others == <<sync, hooked, feed, body>>

-----------------------------------------------------------------------------
ServerInit ==
  /\ Init
  /\ stage = "idle" /\ status = 200 /\ kind = "unknown"
  /\ answers = <<>> /\ whole = TRUE
  /\ made = 0 /\ late = FALSE

(* Slip: the thread waits for the beginning of the message only. *)
StartEarly ==
  /\ In("idle")
  /\ stage' = "url"
  /\ Run(<<Wait("ready")>>)
  /\ UNCHANGED <<others, status, kind, answers, whole, made, late>>

(* on_link_established: the reader and the thread start together; the     *)
(* thread begins with wait_url(timeout=5).                                 *)
Start ==
  /\ In("idle")
  /\ stage' = "url"
  /\ Run(<<Wait("ready"), Wait("url")>>)
  /\ UNCHANGED <<others, status, kind, answers, whole, made, late>>

(* Slip: the request is left open. *)
RefuseOpen(code) ==
  /\ stage' = "refuse" /\ status' = code
  /\ UNCHANGED <<todo, answers, whole, made>>

(* close() first, then the response that says why. *)
Refuse(code) ==
  /\ stage' = "refuse" /\ status' = code
  /\ Run(CloseSteps)
  /\ UNCHANGED <<answers, whole, made>>

(* wait_url ran out of time while it waited for one of its two events.     *)
(* Nothing more was to come if the feeder, too, was waiting.               *)
Timeout ==
  /\ stage = "url" /\ asleep[Reader] # "none"
  /\ late' = (asleep[Feeder] = "none")
  /\ asleep' = [asleep EXCEPT ![Reader] = "none"]
  /\ Refuse(400)
  /\ UNCHANGED <<events, hooked, feed, body, kind>>

(* The events came from a close(), and there is no request line. *)
UrlMissing ==
  /\ In("url") /\ "on_url" \notin parsed
  /\ Refuse(400)
  /\ UNCHANGED <<others, kind, late>>

(* request_io.method and request_io.url, here and in get_handler. *)
UrlKnown ==
  /\ In("url") /\ "on_url" \in parsed
  /\ stage' = "route"
  /\ Run(<<Wait("ready"), Wait("ready"), Wait("url"), Wait("ready"), Wait("ready"), Wait("url")>>)
  /\ UNCHANGED <<others, status, kind, answers, whole, made, late>>

NoRoute ==
  /\ In("route") /\ "none" \in Outcomes
  /\ kind' = "none"
  /\ Refuse(404)
  /\ UNCHANGED <<others, late>>

BadParams ==
  /\ In("route") /\ "bad_params" \in Outcomes
  /\ kind' = "bad_params"
  /\ Refuse(400)
  /\ UNCHANGED <<others, late>>

(* Slip: the request is closed before its handler has seen it. *)
CallHandlerLate ==
  /\ In("route")
  /\ kind' \in Outcomes \cap {"function", "generator"}
  /\ stage' = "handler"
  /\ Run(CloseSteps)
  /\ UNCHANGED <<others, status, answers, whole, made, late>>

(* The handler is called; a function may first look at the headers. *)
CallHandler ==
  /\ In("route")
  /\ kind' \in Outcomes \cap {"function", "generator"}
  /\ stage' = "handler"
  /\ Run(<<>>) \/ (kind' = "function" /\ Run(HeadersSteps))
  /\ UNCHANGED <<others, status, answers, whole, made, late>>

(* The generator is in a write() for which the pipe has no room.  Nobody   *)
(* reads that pipe before the generator has ended.                         *)
Overfull == stage = "generate" /\ made > PipeCapacity

(* A function reads the request, a generator only once it is consumed. *)
HandlerReads(n) ==
  /\ \/ In("handler") /\ kind = "function"
     \/ In("generate") /\ ~Overfull
  /\ Run(ReadSteps(n))
  /\ UNCHANGED <<others, server>>

HandlerReturns ==
  /\ In("handler")
  /\ stage' = "closing"
  /\ Run(CloseSteps)
  /\ UNCHANGED <<others, status, kind, answers, whole, made, late>>

(* consume_generator runs the generator to its end.  sendto has been       *)
(* wrapped in a coroutine and does not run before that coroutine is        *)
(* awaited, so nobody reads the pipe of the response meanwhile.            *)
Consume ==
  /\ In("closing")
  /\ stage' = IF kind = "generator" THEN "generate" ELSE "send"
  /\ Run(<<>>) \/ (kind = "generator" /\ Run(HeadersSteps))
  /\ UNCHANGED <<others, status, kind, answers, whole, made, late>>

(* Slip: the pipe of the response is not bounded. *)
GeneratorOverflows ==
  /\ In("generate")
  /\ made' = made + 1
  /\ UNCHANGED <<others, todo, stage, status, kind, answers, whole, late>>

GeneratorWrites ==
  /\ In("generate") /\ ~Overfull
  /\ made < ResponseLength
  /\ made' = made + 1
  /\ UNCHANGED <<others, todo, stage, status, kind, answers, whole, late>>

GeneratorEnds ==
  /\ In("generate") /\ ~Overfull
  /\ stage' = "send"
  /\ UNCHANGED <<others, todo, status, kind, answers, whole, made, late>>

(* Slip: the refusals are inside the try block, too. *)
RaisesAnyhow ==
  /\ \/ In("handler")
     \/ In("generate") /\ ~Overfull
     \/ (In("send") \/ In("body")) /\ SendFails
  /\ Refuse(500)
  /\ UNCHANGED <<others, kind, late>>

(* The handler raises, which for a generator function is a call that does  *)
(* not fit it, or its generator, or sendto: before it has written the      *)
(* status line, or behind it, in the headers or the body.  The request is  *)
(* closed, again or at last, and a 500 sent.                               *)
Raises ==
  /\ \/ In("handler")
     \/ In("generate") /\ ~Overfull
     \/ (In("send") \/ (In("body") /\ status = 200)) /\ SendFails
  /\ Refuse(500)
  /\ UNCHANGED <<others, kind, late>>

(* The sendto of a refusal is outside the try block: when it raises, with  *)
(* or without a status line written, the thread is over.                   *)
RefusalFails ==
  /\ SendFails
  /\ In("refuse") \/ (In("body") /\ status # 200)
  /\ stage' = "failed"
  /\ UNCHANGED <<others, todo, status, kind, answers, whole, made, late>>

(* sendto writes the status line, then the headers and the body. *)
SendHead ==
  /\ In("send") \/ In("refuse")
  /\ answers' = Append(answers, status)
  /\ whole' = FALSE
  /\ stage' = "body"
  /\ UNCHANGED <<others, todo, status, kind, made, late>>

SendBody ==
  /\ In("body")
  /\ whole' = TRUE
  /\ stage' = "done"
  /\ UNCHANGED <<others, todo, status, kind, answers, made, late>>

Handle ==
  \/ Start \/ Timeout \/ UrlMissing \/ UrlKnown \/ NoRoute \/ BadParams \/ CallHandler
  \/ (\E n \in ReadSizes : HandlerReads(n)) \/ HandlerReturns \/ Consume
  \/ GeneratorWrites \/ GeneratorEnds \/ Raises \/ RefusalFails \/ SendHead \/ SendBody

ServerNext ==
  \/ Handle
  \/ Transport /\ UNCHANGED server
  \/ (\E t \in Threads : Step(t)) /\ UNCHANGED server

ServerSpec == ServerInit /\ [][ServerNext]_allVars

(* Threads run and the link delivers.  A handler may do as it likes, but   *)
(* once it has read its request to b"" it does not go on reading for ever. *)
HandleOn ==
  Handle /\ ~Raises /\ ~RefusalFails /\ (ended => \A n \in ReadSizes : ~HandlerReads(n))

FairServerSpec ==
  /\ ServerSpec
  /\ \A t \in Threads : WF_allVars(Step(t) /\ UNCHANGED server)
  /\ WF_allVars(FeedData /\ UNCHANGED server)
  /\ SF_allVars(HandleOn)

-----------------------------------------------------------------------------
(* Every variable has a value the code can give it. *)
ServerTypeOK ==
  /\ TypeOK
  /\ stage \in Stages /\ status \in {200, 400, 404, 500}
  /\ kind \in Outcomes \cup {"unknown"}
  /\ answers \in Seq({200, 400, 404, 500}) /\ whole \in BOOLEAN
  /\ made \in 0 .. PipeCapacity + 1 /\ late \in BOOLEAN

(* On every path the request is closed before the first byte of a response *)
(* is written: what is still to come of it is dropped and does not hold    *)
(* the transport's thread while the response is sent.                      *)
AnswersWhenClosed == answers # <<>> => ~hooked

(* The peer gets one response: a second one, a 500, is written only behind *)
(* a 200 that broke off; and a thread that comes to its end without an     *)
(* exception of a refusal's sendto has written one, the last, to its end.  *)
OneAnswer ==
  /\ Len(answers) > 1 => SendFails /\ answers = <<200, 500>>
  /\ stage = "done" => answers # <<>> /\ whole

(* A message whose Host header comes before its body. *)
HostFirst ==
  \A j \in DOMAIN Message :
    Message[j][1] = "on_body" => \E i \in 1 .. j - 1 : Message[i][1] = "on_host"

(* A request that arrives in time is not refused: "may fail if data was    *)
(* corrupted" is the only reason for a 400 before the route is looked up.  *)
(* Of a request with a body and no Host header before it this is not true: *)
(* only Host or the end of the message sets url_event, and the end waits   *)
(* for a reader of the body.                                               *)
NoFalseRefusal ==
  HostFirst => (status = 400 /\ kind # "bad_params" => ~linked \/ late)

(* A function that reads its request to b"" has read all of the body, and  *)
(* the headers it was given were all there, unless the link failed.        *)
FunctionsSeeTheRequest ==
  kind = "function" /\ linked => (ended => Len(delivered) = BodyLength) /\ ~partial

(* A handler of either kind sees it: a generator is given the same         *)
(* request_io as a function.                                               *)
HandlersSeeTheBody == ended /\ linked => Len(delivered) = BodyLength

(* The thread of every request comes to its end: with a handler that reads *)
(* its request to the end, with a missing route, and when the link closes. *)
(* There is one exception: a generator that writes more than the pipe of   *)
(* the response holds waits for ever for a reader that waits for it.       *)
Answered == <>(stage \in Over \/ Overfull)

(* When the thread is over the transport's thread becomes free and         *)
(* swallows the rest of the request, whether the handler has read it or    *)
(* not.  In two cases it does not, because body_event is cleared behind    *)
(* the close and on_body then waits for ever: when a generator reads the   *)
(* closed request, and when a message begins after the close.              *)
TransportFreed ==
  stage \in Over /\ kind # "generator" /\ ~late
    ~> Idle(Feeder) /\ (input = <<>> \/ ~linked)
=============================================================================
