-------------------------- MODULE HttpServer_proofs --------------------------
(***************************************************************************)
(* Proofs about handle_request for any message, any route and any handler. *)
(***************************************************************************)
EXTENDS HttpServer, CallbacksIO_proofs

-----------------------------------------------------------------------------
(* What the thread of handle_request has to do of a method of the request, *)
(* and whether drain() is among it.                                        *)
Accesses ==
  {"wait", "set", "clear", "fetch", "yield", "unhook", "shut"} \X (Events \cup CallbackNames \cup Int)

Closes(code) == \E i \in DOMAIN code : code[i] = Unhook

Texts == todo = [t \in Threads |-> todo[t]] /\ todo[Reader] \in Seq(Accesses)

(* From the first close() on the callbacks are gone, or about to go before *)
(* the thread returns from it.                                             *)
ClosedFirst ==
  stage \in {"closing", "generate", "send", "refuse", "body", "done", "failed"}
    => ~hooked \/ Closes(todo[Reader])

(* What has been answered, by where the thread is. *)
AnswersSoFar ==
  /\ stage \in Stages
  /\ stage \in {"idle", "url", "route", "handler", "closing", "generate", "send"}
       => answers = <<>> /\ status = 200
  /\ stage = "refuse" => answers = <<>> \/ (SendFails /\ status = 500 /\ answers = <<200>>)
  /\ stage \in {"body", "done"}
       => answers = <<status>> \/ (SendFails /\ status = 500 /\ answers = <<200, 500>>)
  /\ stage = "done" => whole
  /\ stage = "failed"
       => answers \in {<<>>, <<status>>} \/ (SendFails /\ answers \in {<<200>>, <<200, 500>>})

HandleInv == Texts /\ ClosedFirst /\ AnswersSoFar /\ (answers # <<>> => ~hooked)

-----------------------------------------------------------------------------
(* A thread that has done one access of a method has still to do the rest. *)
LEMMA PopKeepsClose ==
  ASSUME NEW code \in Seq(Accesses), code # <<>>
  PROVE  /\ Tail(code) \in Seq(Accesses)
         /\ Closes(code) /\ Head(code)[1] # "unhook" => Closes(Tail(code))
<1>1. /\ Tail(code) \in Seq(Accesses) /\ Len(Tail(code)) = Len(code) - 1
      /\ \A i \in 1 .. Len(Tail(code)) : Tail(code)[i] = code[i + 1]
  BY HeadTailProperties
<1>2. ASSUME NEW i \in 1 .. Len(code), code[i] = Unhook, Head(code)[1] # "unhook"
      PROVE  Closes(Tail(code))
  <2>1. Unhook[1] = "unhook"
    BY DEF Unhook
  <2>2. i # 1
    BY <1>2, <2>1
  <2>3. i - 1 \in 1 .. Len(Tail(code)) /\ Tail(code)[i - 1] = Unhook
    BY <1>1, <1>2, <2>2
  <2>4. DOMAIN Tail(code) = 1 .. Len(Tail(code))
    BY <1>1
  <2> QED
    BY <2>3, <2>4 DEF Closes
<1>3. DOMAIN code = 1 .. Len(code)
  OBVIOUS
<1> QED
  BY <1>1, <1>2, <1>3 DEF Closes

(* close() is made of such accesses, and drains the request. *)
LEMMA CloseStepsCloses == CloseSteps \in Seq(Accesses) /\ Closes(CloseSteps)
<1>1. /\ Unhook \in Accesses /\ Shut \in Accesses /\ Set("ready") \in Accesses
      /\ Set("message") \in Accesses /\ Set("body") \in Accesses /\ Set("header") \in Accesses
      /\ Set("chunk") \in Accesses /\ Set("status") \in Accesses /\ Set("url") \in Accesses
  BY DEF Accesses, Events, CallbackNames, Unhook, Shut, Set
<1>2. Drain \in Seq(Accesses) /\ Drain[1] = Unhook /\ Len(Drain) \in Nat \ {0}
  <2>1. Drain \in Seq(Accesses)
    BY <1>1 DEF Drain
  <2>2. Drain[1] = Unhook
    BY DEF Drain
  <2>3. Len(Drain) \in Nat \ {0}
    BY DEF Drain
  <2> QED
    BY <2>1, <2>2, <2>3
<1>3. <<Shut>> \in Seq(Accesses) /\ Len(<<Shut>>) = 1
  BY <1>1
<1>4. /\ CloseSteps \in Seq(Accesses) /\ Len(CloseSteps) \in Nat \ {0}
      /\ CloseSteps[1] = Drain[1]
  <2>1. /\ Drain \o <<Shut>> \in Seq(Accesses)
        /\ Len(Drain \o <<Shut>>) = Len(Drain) + 1
        /\ \A i \in 1 .. Len(Drain) + 1 :
             (Drain \o <<Shut>>)[i] = IF i <= Len(Drain) THEN Drain[i] ELSE <<Shut>>[i - Len(Drain)]
    BY <1>2, <1>3, ConcatProperties
  <2> QED
    BY <1>2, <2>1 DEF CloseSteps
<1>5. 1 \in DOMAIN CloseSteps
  BY <1>4
<1> QED
  BY <1>2, <1>4, <1>5 DEF Closes

(* The others are made of the same accesses. *)
LEMMA MethodsAreTexts ==
  /\ <<>> \in Seq(Accesses) /\ HeadersSteps \in Seq(Accesses)
  /\ \A n \in ReadSizes : ReadSteps(n) \in Seq(Accesses)
  /\ <<Wait("ready"), Wait("url")>> \in Seq(Accesses)
  /\ <<Wait("ready"), Wait("ready"), Wait("url"), Wait("ready"), Wait("ready"), Wait("url")>>
       \in Seq(Accesses)
<1>1. /\ Wait("ready") \in Accesses /\ Wait("url") \in Accesses /\ Wait("header") \in Accesses
      /\ Set("body") \in Accesses /\ Clear("body") \in Accesses
      /\ Yield("on_headers_complete") \in Accesses
  BY DEF Accesses, Events, CallbackNames, Wait, Set, Clear, Yield
<1>2. ASSUME NEW n \in ReadSizes
      PROVE  ReadSteps(n) \in Seq(Accesses)
  <2>1. Fetch(n) \in Accesses
    BY SizesAssumption DEF Accesses, Fetch
  <2> QED
    BY <1>1, <2>1 DEF ReadSteps
<1>3. HeadersSteps \in Seq(Accesses)
  BY <1>1 DEF HeadersSteps
<1> QED
  BY <1>1, <1>2, <1>3

-----------------------------------------------------------------------------
(* A step of a method that some thread is in. *)
LEMMA StepInv ==
  ASSUME HandleInv, NEW t \in Threads, Step(t), UNCHANGED server
  PROVE  HandleInv'
<1>1. Reader \in Threads
  BY ThreadsAssumption DEF Threads
<1>2. ~hooked => ~hooked'
  BY DEF Step, DoWait, DoSet, DoClear, DoStore, DoDeliver, DoPut, DoCount, DoFinish, DoUnhook, DoShut,
         DoTake, DoReturn, DoYield
<1>3. \E code : todo' = [todo EXCEPT ![t] = code]
  <2>1. DoTake(t) => todo' = [todo EXCEPT ![t] = todo[t]]
    BY DEF DoTake, HandleInv, Texts
  <2> QED
    BY <2>1 DEF Step, DoWait, DoSet, DoClear, DoStore, DoDeliver, DoPut, DoCount, DoFinish, DoUnhook,
                DoShut, DoReturn, DoYield, Done
<1>4. CASE t # Reader
  <2>1. todo'[Reader] = todo[Reader] /\ todo' = [u \in Threads |-> todo'[u]]
    BY <1>1, <1>3, <1>4 DEF HandleInv, Texts
  <2>2. Texts' /\ AnswersSoFar'
    BY <2>1 DEF HandleInv, Texts, AnswersSoFar, server
  <2>3. ClosedFirst' /\ (answers' # <<>> => ~hooked')
    BY <1>2, <2>1 DEF HandleInv, ClosedFirst, server
  <2> QED
    BY <2>2, <2>3 DEF HandleInv
<1>5. CASE t = Reader
  <2> DEFINE code == todo[Reader]
  <2>1. code \in Seq(Accesses)
    BY DEF HandleInv, Texts
  <2>2. code # <<>> => Head(code)[1] \in {"wait", "set", "clear", "fetch", "yield", "unhook", "shut"}
    BY <2>1, HeadTailProperties DEF Accesses
  <2>3. todo' = todo \/ (code # <<>> /\ todo' = [todo EXCEPT ![Reader] = Tail(code)])
    BY <1>5, <2>2 DEF Step, DoWait, DoSet, DoClear, DoStore, DoDeliver, DoPut, DoCount, DoFinish,
                      DoUnhook, DoShut, DoTake, DoReturn, DoYield, Done, At
  <2>4. todo' # todo => ~hooked' \/ Head(code)[1] # "unhook"
    BY <1>5, <2>2 DEF Step, DoWait, DoSet, DoClear, DoStore, DoDeliver, DoPut, DoCount, DoFinish,
                      DoUnhook, DoShut, DoTake, DoReturn, DoYield, At
  <2>5. /\ todo'[Reader] \in Seq(Accesses) /\ todo' = [u \in Threads |-> todo'[u]]
        /\ Closes(code) => ~hooked' \/ Closes(todo'[Reader])
    BY <1>1, <2>1, <2>3, <2>4, PopKeepsClose DEF HandleInv, Texts
  <2>6. Texts' /\ AnswersSoFar'
    BY <2>5 DEF HandleInv, Texts, AnswersSoFar, server
  <2>7. ClosedFirst' /\ (answers' # <<>> => ~hooked')
    BY <1>2, <2>5 DEF HandleInv, ClosedFirst, server
  <2> QED
    BY <2>6, <2>7 DEF HandleInv
<1> QED
  BY <1>4, <1>5


(* The transport calls on_reader_ready. *)
LEMMA TransportInv ==
  ASSUME HandleInv, Transport, UNCHANGED server
  PROVE  HandleInv'
<1>1. Reader \in Threads /\ Reader # Feeder
  BY ThreadsAssumption DEF Threads
<1>2. hooked' = hooked /\ \E code : todo' = [todo EXCEPT ![Feeder] = code]
  BY DEF Transport, FeedData, FeedEnd
<1>3. todo'[Reader] = todo[Reader] /\ todo' = [u \in Threads |-> todo'[u]]
  BY <1>1, <1>2 DEF HandleInv, Texts
<1>4. Texts' /\ AnswersSoFar'
  BY <1>3 DEF HandleInv, Texts, AnswersSoFar, server
<1>5. ClosedFirst' /\ (answers' # <<>> => ~hooked')
  BY <1>2, <1>3 DEF HandleInv, ClosedFirst, server
<1> QED
  BY <1>4, <1>5 DEF HandleInv

(* The thread of handle_request goes on with another method. *)
LEMMA RunTexts ==
  ASSUME HandleInv, NEW code \in Seq(Accesses), Run(code)
  PROVE  Texts' /\ todo'[Reader] = code
<1>1. Reader \in Threads
  BY ThreadsAssumption DEF Threads
<1> QED
  BY <1>1 DEF HandleInv, Texts, Run

(* Once the thread is back from its close(), the callbacks are gone. *)
LEMMA BackFromClose ==
  ASSUME HandleInv, Idle(Reader),
         stage \in {"closing", "generate", "send", "refuse", "body", "done", "failed"}
  PROVE  ~hooked
<1>1. ~Closes(<<>>)
  BY DEF Closes
<1> QED
  BY <1>1 DEF HandleInv, ClosedFirst, Idle

(* Nothing has been answered yet, or a 200 whose body broke off. *)
MayRefuse(code) == answers = <<>> \/ (SendFails /\ code = 500 /\ answers = <<200>>)

(* The request is closed and refused. *)
LEMMA RefuseInv ==
  ASSUME HandleInv, NEW code, Refuse(code), hooked' = hooked, MayRefuse(code)
  PROVE  HandleInv'
<1>1. Texts' /\ todo'[Reader] = CloseSteps
  BY RunTexts, CloseStepsCloses DEF Refuse
<1>2. ClosedFirst'
  BY <1>1, CloseStepsCloses DEF ClosedFirst
<1>3. AnswersSoFar'
  BY DEF AnswersSoFar, Refuse, MayRefuse, Stages
<1> QED
  BY <1>1, <1>2, <1>3 DEF HandleInv, Refuse

(* The only answers that are more than one status line. *)
LEMMA TwoAnswers == Append(<<200>>, 500) = <<200, 500>>
<1> DEFINE s == Append(<<200>>, 500)
<1> DEFINE r == <<200, 500>>
<1>1. s \in Seq(Int) /\ Len(s) = 2 /\ s[1] = 200 /\ s[2] = 500
  BY AppendProperties
<1>2. r \in Seq(Int) /\ Len(r) = 2 /\ r[1] = 200 /\ r[2] = 500
  OBVIOUS
<1> HIDE DEF s, r
<1>3. \A i \in 1 .. Len(s) : s[i] = r[i]
  BY <1>1, <1>2
<1>4. s = r
  BY <1>1, <1>2, <1>3, SeqEqual
<1> QED
  BY <1>4 DEF s, r

(* A step of handle_request itself. *)
LEMMA HandleStepInv ==
  ASSUME HandleInv, Handle
  PROVE  HandleInv'

<1>1. CASE Start
  <2>1. Texts'
    BY <1>1, RunTexts, MethodsAreTexts DEF Start
  <2>2. ClosedFirst' /\ AnswersSoFar'
    BY <1>1 DEF Start, In, HandleInv, ClosedFirst, AnswersSoFar, Stages
  <2>3. answers' # <<>> => ~hooked'
    BY <1>1 DEF Start, HandleInv, others
  <2> QED
    BY <2>1, <2>2, <2>3 DEF HandleInv
<1>2. CASE UrlKnown
  <2>1. Texts'
    BY <1>2, RunTexts, MethodsAreTexts DEF UrlKnown
  <2>2. ClosedFirst' /\ AnswersSoFar'
    BY <1>2 DEF UrlKnown, In, HandleInv, ClosedFirst, AnswersSoFar, Stages
  <2>3. answers' # <<>> => ~hooked'
    BY <1>2 DEF UrlKnown, HandleInv, others
  <2> QED
    BY <2>1, <2>2, <2>3 DEF HandleInv
<1>3. CASE CallHandler
  <2>1. Texts'
    BY <1>3, RunTexts, MethodsAreTexts DEF CallHandler
  <2>2. ClosedFirst' /\ AnswersSoFar'
    BY <1>3 DEF CallHandler, In, HandleInv, ClosedFirst, AnswersSoFar, Stages
  <2>3. answers' # <<>> => ~hooked'
    BY <1>3 DEF CallHandler, HandleInv, others
  <2> QED
    BY <2>1, <2>2, <2>3 DEF HandleInv
<1>4. CASE Timeout
  <2>1. MayRefuse(400)
    BY <1>4 DEF Timeout, In, HandleInv, AnswersSoFar, MayRefuse
  <2>2. Refuse(400) /\ hooked' = hooked
    BY <1>4 DEF Timeout, others
  <2> QED
    BY <2>1, <2>2, RefuseInv
<1>5. CASE UrlMissing
  <2>1. MayRefuse(400)
    BY <1>5 DEF UrlMissing, In, HandleInv, AnswersSoFar, MayRefuse
  <2>2. Refuse(400) /\ hooked' = hooked
    BY <1>5 DEF UrlMissing, others
  <2> QED
    BY <2>1, <2>2, RefuseInv
<1>6. CASE NoRoute
  <2>1. MayRefuse(404)
    BY <1>6 DEF NoRoute, In, HandleInv, AnswersSoFar, MayRefuse
  <2>2. Refuse(404) /\ hooked' = hooked
    BY <1>6 DEF NoRoute, others
  <2> QED
    BY <2>1, <2>2, RefuseInv
<1>7. CASE BadParams
  <2>1. MayRefuse(400)
    BY <1>7 DEF BadParams, In, HandleInv, AnswersSoFar, MayRefuse
  <2>2. Refuse(400) /\ hooked' = hooked
    BY <1>7 DEF BadParams, others
  <2> QED
    BY <2>1, <2>2, RefuseInv
<1>8. CASE Raises
  <2>1. MayRefuse(500)
    BY <1>8 DEF Raises, In, HandleInv, AnswersSoFar, MayRefuse
  <2>2. Refuse(500) /\ hooked' = hooked
    BY <1>8 DEF Raises, others
  <2> QED
    BY <2>1, <2>2, RefuseInv
<1>9. ASSUME NEW n \in ReadSizes, HandlerReads(n)
      PROVE  HandleInv'
  <2>1. Texts'
    BY <1>9, RunTexts, MethodsAreTexts DEF HandlerReads
  <2>2. AnswersSoFar' /\ hooked' = hooked
    BY <1>9 DEF HandlerReads, others, server, HandleInv, AnswersSoFar
  <2>3. stage = "generate" => ~hooked
    BY <1>9, BackFromClose DEF HandlerReads, In
  <2>4. stage' = stage /\ stage \in {"handler", "generate"}
    BY <1>9 DEF HandlerReads, In, server
  <2>5. ClosedFirst'
    BY <2>2, <2>3, <2>4 DEF ClosedFirst
  <2>6. answers' # <<>> => ~hooked'
    BY <1>9, <2>2 DEF HandlerReads, HandleInv, server
  <2> QED
    BY <2>1, <2>2, <2>5, <2>6 DEF HandleInv
<1>10. CASE HandlerReturns
  <2>1. Texts' /\ todo'[Reader] = CloseSteps
    BY <1>10, RunTexts, CloseStepsCloses DEF HandlerReturns
  <2>2. ClosedFirst'
    BY <2>1, CloseStepsCloses DEF ClosedFirst
  <2>3. AnswersSoFar' /\ (answers' # <<>> => ~hooked')
    BY <1>10 DEF HandlerReturns, In, HandleInv, AnswersSoFar, Stages, others
  <2> QED
    BY <2>1, <2>2, <2>3 DEF HandleInv
<1>11. CASE Consume
  <2>1. Texts'
    BY <1>11, RunTexts, MethodsAreTexts DEF Consume
  <2>2. ~hooked'
    BY <1>11, BackFromClose DEF Consume, In, others
  <2>3. AnswersSoFar'
    BY <1>11 DEF Consume, In, HandleInv, AnswersSoFar, Stages
  <2> QED
    BY <2>1, <2>2, <2>3 DEF HandleInv, ClosedFirst
<1>12. CASE GeneratorWrites
  <2>1. Texts'
    BY <1>12 DEF GeneratorWrites, HandleInv, Texts
  <2>2. ~hooked'
    BY <1>12, BackFromClose DEF GeneratorWrites, In, others
  <2>3. AnswersSoFar'
    BY <1>12 DEF GeneratorWrites, In, HandleInv, AnswersSoFar, Stages
  <2> QED
    BY <2>1, <2>2, <2>3 DEF HandleInv, ClosedFirst
<1>13. CASE GeneratorEnds
  <2>1. Texts'
    BY <1>13 DEF GeneratorEnds, HandleInv, Texts
  <2>2. ~hooked'
    BY <1>13, BackFromClose DEF GeneratorEnds, In, others
  <2>3. AnswersSoFar'
    BY <1>13 DEF GeneratorEnds, In, HandleInv, AnswersSoFar, Stages
  <2> QED
    BY <2>1, <2>2, <2>3 DEF HandleInv, ClosedFirst
<1>14. CASE SendHead
  <2>1. Texts'
    BY <1>14 DEF SendHead, HandleInv, Texts
  <2>2. ~hooked'
    BY <1>14, BackFromClose DEF SendHead, In, others
  <2>3. Append(<<>>, status) = <<status>>
    OBVIOUS
  <2>4. \/ answers = <<>> /\ answers' = <<status>>
        \/ SendFails /\ status = 500 /\ answers = <<200>> /\ answers' = <<200, 500>>
    BY <1>14, <2>3, TwoAnswers DEF SendHead, In, HandleInv, AnswersSoFar
  <2>5. AnswersSoFar'
    BY <1>14, <2>4 DEF SendHead, AnswersSoFar, Stages
  <2> QED
    BY <2>1, <2>2, <2>5 DEF HandleInv, ClosedFirst
<1>15. CASE SendBody
  <2>1. Texts'
    BY <1>15 DEF SendBody, HandleInv, Texts
  <2>2. ~hooked'
    BY <1>15, BackFromClose DEF SendBody, In, others
  <2>3. AnswersSoFar'
    BY <1>15 DEF SendBody, In, HandleInv, AnswersSoFar, Stages
  <2> QED
    BY <2>1, <2>2, <2>3 DEF HandleInv, ClosedFirst
<1>16. CASE RefusalFails
  <2>1. Texts'
    BY <1>16 DEF RefusalFails, HandleInv, Texts
  <2>2. ~hooked'
    BY <1>16, BackFromClose DEF RefusalFails, In, others
  <2>3. AnswersSoFar'
    BY <1>16 DEF RefusalFails, In, HandleInv, AnswersSoFar, Stages
  <2> QED
    BY <2>1, <2>2, <2>3 DEF HandleInv, ClosedFirst
<1> QED
  BY <1>1, <1>2, <1>3, <1>4, <1>5, <1>6, <1>7, <1>8, <1>9, <1>10, <1>11, <1>12, <1>13, <1>14, <1>15, <1>16
     DEF Handle

-----------------------------------------------------------------------------
(* on_link_established finds a new request object. *)
THEOREM ServerInitInv == ServerInit => HandleInv
<1> SUFFICES ASSUME ServerInit PROVE HandleInv
  OBVIOUS
<1>1. Reader \in Threads /\ <<>> \in Seq(Accesses)
  BY ThreadsAssumption DEF Threads
<1>2. Texts
  BY <1>1 DEF ServerInit, Init, Texts
<1>3. ClosedFirst /\ AnswersSoFar /\ answers = <<>>
  BY DEF ServerInit, ClosedFirst, AnswersSoFar, Stages
<1> QED
  BY <1>2, <1>3 DEF HandleInv

(* Every step of the thread of handle_request, of the methods it calls and *)
(* of the transport keeps the invariant.                                   *)
THEOREM ServerNextInv == HandleInv /\ [ServerNext]_allVars => HandleInv'
<1> SUFFICES ASSUME HandleInv, [ServerNext]_allVars
             PROVE  HandleInv'
  OBVIOUS
<1>1. CASE Handle
  BY <1>1, HandleStepInv
<1>2. CASE Transport /\ UNCHANGED server
  BY <1>2, TransportInv
<1>3. CASE (\E t \in Threads : Step(t)) /\ UNCHANGED server
  BY <1>3, StepInv
<1>4. CASE UNCHANGED allVars
  <2>1. Texts' /\ AnswersSoFar'
    BY <1>4 DEF HandleInv, Texts, AnswersSoFar, allVars, vars, server
  <2>2. ClosedFirst' /\ (answers' # <<>> => ~hooked')
    BY <1>4 DEF HandleInv, ClosedFirst, allVars, vars, server
  <2> QED
    BY <2>1, <2>2 DEF HandleInv
<1> QED
  BY <1>1, <1>2, <1>3, <1>4 DEF ServerNext

(* The invariant holds in every behaviour of a link of the server. *)
THEOREM ServerInvariance == ServerSpec => []HandleInv
<1> QED
  BY ServerInitInv, ServerNextInv, PTL DEF ServerSpec

(* On every path through handle_request the request is closed before the  *)
(* first byte of a response is written.                                    *)
THEOREM ClosedBeforeAnswer == ServerSpec => []AnswersWhenClosed
<1>1. HandleInv => AnswersWhenClosed
  BY DEF HandleInv, AnswersWhenClosed
<1> QED
  BY <1>1, ServerInvariance, PTL

(* The peer gets one response, or a 500 behind a 200 that broke off; and a *)
(* thread that ends without an exception has written one to its end.       *)
THEOREM AnswersOnce == ServerSpec => []OneAnswer
<1>1. HandleInv => answers \in {<<>>, <<200>>, <<status>>} \/ (SendFails /\ answers = <<200, 500>>)
  BY DEF HandleInv, AnswersSoFar, Stages
<1>2. Len(<<>>) = 0 /\ Len(<<200>>) = 1 /\ Len(<<status>>) = 1
  OBVIOUS
<1>3. HandleInv /\ stage = "done" => answers \in {<<status>>, <<200, 500>>} /\ whole
  BY DEF HandleInv, AnswersSoFar
<1>4. <<status>> # <<>> /\ <<200, 500>> # <<>>
  OBVIOUS
<1>5. HandleInv => OneAnswer
  BY <1>1, <1>2, <1>3, <1>4 DEF OneAnswer
<1> QED
  BY <1>5, ServerInvariance, PTL

-----------------------------------------------------------------------------
(* The request is a CallbacksIO, whose invariant the thread of             *)
(* handle_request keeps: what it calls are methods of the request.         *)
LEMMA WaitTexts ==
  /\ <<Wait("ready"), Wait("url")>> \in Seq(AppSteps) /\ Len(<<Wait("ready"), Wait("url")>>) <= 9
  /\ Promise({}, <<Wait("ready"), Wait("url")>>)
  /\ <<Wait("ready"), Wait("ready"), Wait("url"), Wait("ready"), Wait("ready"), Wait("url")>>
       \in Seq(AppSteps)
  /\ Len(<<Wait("ready"), Wait("ready"), Wait("url"), Wait("ready"), Wait("ready"), Wait("url")>>) <= 9
  /\ Promise({}, <<Wait("ready"), Wait("ready"), Wait("url"), Wait("ready"), Wait("ready"), Wait("url")>>)
<1> DEFINE two == <<Wait("ready"), Wait("url")>>
<1> DEFINE six == <<Wait("ready"), Wait("ready"), Wait("url"), Wait("ready"), Wait("ready"), Wait("url")>>
<1>1. Wait("ready") \in AppSteps /\ Wait("url") \in AppSteps
  BY DEF AppSteps, EventSteps, Events, Wait
<1>2. \A f : ~Needs(Wait("ready"), f) /\ ~Needs(Wait("url"), f)
  BY DEF Needs, Wait, Set, Yield, Finish, Shut
<1>3. two \in Seq(AppSteps) /\ six \in Seq(AppSteps) /\ Len(two) = 2 /\ Len(six) = 6
  BY <1>1
<1>4. \A i \in DOMAIN two : two[i] \in {Wait("ready"), Wait("url")}
  OBVIOUS
<1>5. \A i \in DOMAIN six : six[i] \in {Wait("ready"), Wait("url")}
  OBVIOUS
<1> HIDE DEF two, six
<1>6. Promise({}, two) /\ Promise({}, six)
  BY <1>2, <1>4, <1>5 DEF Promise
<1> QED
  BY <1>3, <1>6 DEF two, six

(* The thread of handle_request calls the next method. *)
LEMMA RunKeepsIO ==
  ASSUME IOInv, NEW code \in Seq(AppSteps), Len(code) <= 9, Promise({}, code), Run(code),
         asleep' = asleep \/ asleep' = [asleep EXCEPT ![Reader] = "none"],
         UNCHANGED <<events, hooked, feed, body>>
  PROVE  IOInv'
<1>1. Reader \in Apps /\ todo' = [todo EXCEPT ![Reader] = code]
  BY ThreadsAssumption DEF Run
<1> QED
  BY <1>1, AppBegins

LEMMA HandleKeepsIO ==
  ASSUME IOInv, Handle
  PROVE  IOInv'
<1>1. ASSUME NEW code, code \in Seq(AppSteps), Len(code) <= 9, Promise({}, code), Run(code), UNCHANGED others
      PROVE  IOInv'
  <2>1. asleep' = asleep /\ UNCHANGED <<events, hooked, feed, body>>
    BY <1>1 DEF others, sync
  <2> QED
    BY <1>1, <2>1, RunKeepsIO
<1>2. ASSUME NEW code, Refuse(code), UNCHANGED others
      PROVE  IOInv'
  <2>1. Len(CloseSteps) <= 9
    BY CloseText
  <2> QED
    BY <1>1, <1>2, <2>1, CloseText DEF Refuse
<1>3. CASE Start
  BY <1>1, <1>3, WaitTexts DEF Start
<1>4. CASE Timeout
  <2>1. Len(CloseSteps) <= 9 /\ Run(CloseSteps)
    BY <1>4, CloseText DEF Timeout, Refuse
  <2>2. asleep' = [asleep EXCEPT ![Reader] = "none"] /\ UNCHANGED <<events, hooked, feed, body>>
    BY <1>4 DEF Timeout
  <2> QED
    BY <2>1, <2>2, CloseText, RunKeepsIO
<1>5. CASE UrlMissing
  BY <1>2, <1>5 DEF UrlMissing
<1>6. CASE UrlKnown
  BY <1>1, <1>6, WaitTexts DEF UrlKnown
<1>7. CASE NoRoute
  BY <1>2, <1>7 DEF NoRoute
<1>8. CASE BadParams
  BY <1>2, <1>8 DEF BadParams
<1>9. CASE Raises
  BY <1>2, <1>9 DEF Raises
<1>10. Len(<<>>) <= 9
  OBVIOUS
<1>11. CASE CallHandler
  <2>1. (Run(<<>>) \/ Run(HeadersSteps)) /\ UNCHANGED others
    BY <1>11 DEF CallHandler
  <2>2. Len(HeadersSteps) <= 9
    BY MethodTexts
  <2> QED
    BY <1>1, <1>10, <2>1, <2>2, MethodTexts
<1>12. CASE Consume
  <2>1. (Run(<<>>) \/ Run(HeadersSteps)) /\ UNCHANGED others
    BY <1>12 DEF Consume
  <2>2. Len(HeadersSteps) <= 9
    BY MethodTexts
  <2> QED
    BY <1>1, <1>10, <2>1, <2>2, MethodTexts
<1>13. ASSUME NEW n \in ReadSizes, HandlerReads(n)
       PROVE  IOInv'
  <2>1. Run(ReadSteps(n)) /\ UNCHANGED others
    BY <1>13 DEF HandlerReads
  <2>2. Len(ReadSteps(n)) <= 9
    <3>1. Len(ReadSteps(n)) = 4
      BY <1>13, MethodTexts, Zenon
    <3> QED
      BY <3>1
  <2> QED
    BY <1>1, <2>1, <2>2, MethodTexts
<1>14. CASE HandlerReturns
  <2>1. Len(CloseSteps) <= 9
    BY CloseText
  <2> QED
    BY <1>1, <1>14, <2>1, CloseText DEF HandlerReturns
<1>15. CASE GeneratorWrites \/ GeneratorEnds \/ RefusalFails \/ SendHead \/ SendBody
  <2>1. UNCHANGED vars
    BY <1>15 DEF GeneratorWrites, GeneratorEnds, RefusalFails, SendHead, SendBody, others, sync, feed, body, vars
  <2> QED
    BY <2>1, IONextInv
<1> QED
  BY <1>3, <1>4, <1>5, <1>6, <1>7, <1>8, <1>9, <1>11, <1>12, <1>13, <1>14, <1>15 DEF Handle

LEMMA ServerNextIO ==
  ASSUME IOInv, [ServerNext]_allVars
  PROVE  IOInv'
<1>1. CASE UNCHANGED allVars
  <2>1. UNCHANGED vars
    BY <1>1 DEF allVars
  <2> QED
    BY <2>1, IONextInv
<1>2. CASE Transport
  BY <1>2, FeedDataInv, FeedEndInv DEF Transport
<1>3. CASE \E t \in Threads : Step(t)
  BY <1>3, StepIOInv
<1> QED
  BY <1>1, <1>2, <1>3, HandleKeepsIO DEF ServerNext

(* What is left of the server's fields. *)
FieldsInv ==
  /\ kind \in Outcomes \cup {"unknown"} /\ status \in {200, 400, 404, 500}
  /\ whole \in BOOLEAN /\ late \in BOOLEAN
  /\ made \in Nat /\ made <= PipeCapacity + 1

LEMMA FieldsStep ==
  ASSUME FieldsInv, [ServerNext]_allVars
  PROVE  FieldsInv'
<1>1. CASE UNCHANGED server
  BY <1>1 DEF FieldsInv, server
<1>2. CASE Handle
  <2>1. kind' \in Outcomes \cup {"unknown"}
    BY <1>2 DEF Handle, Start, Timeout, UrlMissing, UrlKnown, NoRoute, BadParams, CallHandler, HandlerReads,
       HandlerReturns, Consume, GeneratorWrites, GeneratorEnds, Raises, RefusalFails, SendHead, SendBody, Refuse, server, FieldsInv
  <2>2. status' \in {200, 400, 404, 500} /\ whole' \in BOOLEAN /\ late' \in BOOLEAN
    <3>1. status' \in {200, 400, 404, 500}
      BY <1>2 DEF Handle, Start, Timeout, UrlMissing, UrlKnown, NoRoute, BadParams, CallHandler, HandlerReads,
         HandlerReturns, Consume, GeneratorWrites, GeneratorEnds, Raises, RefusalFails, SendHead, SendBody, Refuse, server, FieldsInv
    <3>2. whole' \in BOOLEAN
      BY <1>2 DEF Handle, Start, Timeout, UrlMissing, UrlKnown, NoRoute, BadParams, CallHandler, HandlerReads,
         HandlerReturns, Consume, GeneratorWrites, GeneratorEnds, Raises, RefusalFails, SendHead, SendBody, Refuse, server, FieldsInv
    <3>3. late' \in BOOLEAN
      BY <1>2 DEF Handle, Start, Timeout, UrlMissing, UrlKnown, NoRoute, BadParams, CallHandler, HandlerReads,
         HandlerReturns, Consume, GeneratorWrites, GeneratorEnds, Raises, RefusalFails, SendHead, SendBody, Refuse, server, FieldsInv
    <3> QED
      BY <3>1, <3>2, <3>3
  <2>3. CASE GeneratorWrites
    <3>1. made \in Nat /\ ~(made > PipeCapacity) /\ made' = made + 1
      BY <2>3 DEF GeneratorWrites, In, Overfull, FieldsInv
    <3>2. made' \in Nat /\ made' <= PipeCapacity + 1
      BY <3>1, ResponseAssumption
    <3> QED
      BY <2>1, <2>2, <3>2 DEF FieldsInv
  <2>4. ~GeneratorWrites => made' = made
    BY <1>2 DEF Handle, Start, Timeout, UrlMissing, UrlKnown, NoRoute, BadParams, CallHandler, HandlerReads,
       HandlerReturns, Consume, GeneratorEnds, Raises, RefusalFails, SendHead, SendBody, Refuse, server
  <2> QED
    BY <2>1, <2>2, <2>3, <2>4 DEF FieldsInv
<1> QED
  BY <1>1, <1>2 DEF ServerNext, allVars

(* What has been answered is a few status lines. *)
LEMMA AnswersTyped ==
  ASSUME AnswersSoFar, FieldsInv
  PROVE  answers \in Seq({200, 400, 404, 500})
<1> DEFINE codes == {200, 400, 404, 500}
<1>1. status \in codes /\ 200 \in codes /\ 500 \in codes
  BY DEF FieldsInv
<1> HIDE DEF codes
<1>2. <<>> \in Seq(codes) /\ <<status>> \in Seq(codes) /\ <<200>> \in Seq(codes)
  BY <1>1
<1>3. <<200, 500>> \in Seq(codes)
  BY <1>1
<1>4. answers \in {<<>>, <<200>>, <<status>>, <<200, 500>>}
  BY DEF AnswersSoFar, Stages
<1>5. answers \in Seq(codes)
  BY <1>2, <1>3, <1>4
<1> QED
  BY <1>5 DEF codes

(* The three invariants of a link do not need each other for their steps.  *)
THEOREM LinkInvariance == ServerSpec => [](HandleInv /\ IOInv /\ FieldsInv)
<1>1. ServerInit => IOInv /\ FieldsInv
  <2>1. ServerInit => IOInv
    BY IOInitInv DEF ServerInit
  <2>2. ServerInit => FieldsInv
    <3> SUFFICES ASSUME ServerInit PROVE FieldsInv
      OBVIOUS
    <3>1. 0 <= PipeCapacity + 1 /\ 0 \in Nat
      BY ResponseAssumption
    <3>2. kind \in Outcomes \cup {"unknown"} /\ status \in {200, 400, 404, 500}
      BY DEF ServerInit
    <3>3. whole \in BOOLEAN /\ late \in BOOLEAN
      BY DEF ServerInit
    <3>4. made = 0
      BY DEF ServerInit
    <3> QED
      BY <3>1, <3>2, <3>3, <3>4 DEF FieldsInv
  <2> QED
    BY <2>1, <2>2
<1>2. IOInv /\ FieldsInv /\ [ServerNext]_allVars => (IOInv /\ FieldsInv)'
  BY ServerNextIO, FieldsStep
<1> QED
  BY <1>1, <1>2, ServerInvariance, PTL DEF ServerSpec

(* No field of the server or of its request leaves its values: the pipe of *)
(* a generator's response is never overfilled, and no counter runs past    *)
(* the body, on any path through handle_request.                           *)
THEOREM ServerTypes == ServerSpec => []ServerTypeOK
<1>1. HandleInv /\ IOInv /\ FieldsInv => ServerTypeOK
  <2> SUFFICES ASSUME HandleInv, IOInv, FieldsInv
               PROVE  ServerTypeOK
    OBVIOUS
  <2>1. TypeOK /\ stage \in Stages /\ answers \in Seq({200, 400, 404, 500})
    BY IOInvTypes, AnswersTyped DEF HandleInv, AnswersSoFar
  <2>2. made \in 0 .. PipeCapacity + 1
    BY ResponseAssumption DEF FieldsInv
  <2> QED
    BY <2>1, <2>2 DEF ServerTypeOK, FieldsInv
<1> QED
  BY <1>1, LinkInvariance, PTL

-----------------------------------------------------------------------------
(* Which accesses are still to come. *)
Has(code, access) == \E i \in DOMAIN code : code[i] = access

(* Nothing is read from the pipe and no field returned to the handler. *)
Silent(code) == \A i \in DOMAIN code : code[i][1] \notin {"fetch", "yield"}

LEMMA HasPops ==
  ASSUME NEW X, NEW code \in Seq(X), code # <<>>, NEW a
  PROVE  /\ Has(Tail(code), a) => Has(code, a)
         /\ Has(code, a) => Head(code) = a \/ Has(Tail(code), a)
         /\ Has(code, Head(code))
         /\ Silent(code) => Silent(Tail(code)) /\ Head(code)[1] \notin {"fetch", "yield"}
<1>1. /\ Len(code) \in Nat \ {0} /\ DOMAIN code = 1 .. Len(code) /\ Head(code) = code[1]
      /\ DOMAIN Tail(code) = 1 .. Len(code) - 1
      /\ \A i \in 1 .. Len(code) - 1 : Tail(code)[i] = code[i + 1]
  BY TailPositions
<1>2. Has(Tail(code), a) => Has(code, a)
  <2> SUFFICES ASSUME NEW i \in 1 .. Len(code) - 1, Tail(code)[i] = a
               PROVE  Has(code, a)
    BY <1>1 DEF Has
  <2>1. i + 1 \in DOMAIN code /\ code[i + 1] = a
    BY <1>1
  <2> QED
    BY <2>1 DEF Has
<1>3. Has(code, a) => Head(code) = a \/ Has(Tail(code), a)
  <2> SUFFICES ASSUME NEW i \in 1 .. Len(code), code[i] = a, i # 1
               PROVE  Has(Tail(code), a)
    BY <1>1 DEF Has
  <2>1. i - 1 \in 1 .. Len(code) - 1 /\ (i - 1) + 1 = i
    BY <1>1
  <2>2. Tail(code)[i - 1] = a
    BY <1>1, <2>1
  <2> QED
    BY <1>1, <2>1, <2>2 DEF Has
<1>4. 1 \in DOMAIN code
  BY <1>1
<1>5. Has(code, Head(code))
  BY <1>1, <1>4 DEF Has
<1>6. Silent(code) => Silent(Tail(code)) /\ Head(code)[1] \notin {"fetch", "yield"}
  <2>1. \A i \in DOMAIN Tail(code) : i + 1 \in DOMAIN code /\ Tail(code)[i] = code[i + 1]
    BY <1>1
  <2> QED
    BY <1>1, <1>4, <2>1 DEF Silent
<1> QED
  BY <1>2, <1>3, <1>5, <1>6

(* A step of a thread does its first access and leaves the others to it:   *)
(* what on_body does comes and goes with the pipe.                         *)
LEMMA StepHas ==
  ASSUME IOInv, NEW t \in Threads, Step(t), NEW a, a[1] \notin {"put", "count"}
  PROVE  /\ Has(todo'[t], a) => Has(todo[t], a)
         /\ Has(todo[t], a) => Head(todo[t]) = a \/ Has(todo'[t], a)
         /\ \A u \in Threads : u # t => todo'[u] = todo[u]
<1>1. todo[t] # <<>>
  BY StepTodo
<1>2. PICK code : /\ todo' = [todo EXCEPT ![t] = code]
                  /\ \/ code = Tail(todo[t])
                     \/ code = todo[t]
                     \/ /\ \E n \in Nat, m \in Nat : code = <<Put(m), Count(n)>>
                        /\ Tail(todo[t]) \in {<<Count(n)>> : n \in Nat}
  BY StepTodo
<1>3. todo'[t] = code /\ \A u \in Threads : u # t => todo'[u] = todo[u]
  BY <1>2 DEF IOInv, TextsInv
<1>4. todo[t] \in Seq(AppSteps) \/ todo[t] \in Seq(FeederSteps)
  BY DEF IOInv, TextsInv, Threads
<1>5. /\ Has(Tail(todo[t]), a) => Has(todo[t], a)
      /\ Has(todo[t], a) => Head(todo[t]) = a \/ Has(Tail(todo[t]), a)
  BY <1>1, <1>4, HasPops
<1>6. CASE code = Tail(todo[t]) \/ code = todo[t]
  BY <1>3, <1>5, <1>6
<1>7. ASSUME NEW n \in Nat, NEW m \in Nat, NEW l \in Nat, code = <<Put(m), Count(n)>>,
             Tail(todo[t]) = <<Count(l)>>
      PROVE  ~Has(code, a) /\ ~Has(Tail(todo[t]), a)
  <2>1. Put(m)[1] = "put" /\ Count(n)[1] = "count" /\ Count(l)[1] = "count"
    BY DEF Put, Count
  <2>2. a # Put(m) /\ a # Count(n) /\ a # Count(l)
    BY <2>1
  <2>3. \A i \in DOMAIN <<Put(m), Count(n)>> : <<Put(m), Count(n)>>[i] \in {Put(m), Count(n)}
    OBVIOUS
  <2>4. \A i \in DOMAIN <<Count(l)>> : <<Count(l)>>[i] = Count(l)
    OBVIOUS
  <2> QED
    BY <1>7, <2>2, <2>3, <2>4 DEF Has
<1> QED
  BY <1>2, <1>3, <1>5, <1>6, <1>7

(* What is in the callbacks that the rest of the server depends on. *)
LEMMA CallbackAccesses ==
  ASSUME NEW n \in Nat, NEW name \in CallbackNames
  PROVE  /\ ~Has(Callback(n)[name], Unhook) /\ ~Has(Callback(n)[name], Clear("ready"))
         /\ Has(Callback(n)[name], Clear("url")) => name = "on_message_begin"
         /\ Has(Callback(n)[name], Set("url")) => name \in {"on_host", "on_message_complete"}
         /\ name = "on_host" => Has(Callback(n)[name], Set("url"))
         /\ name = "on_message_begin" => Has(Callback(n)[name], Set("ready"))
         /\ \A e : Has(Callback(n)[name], Wait(e)) => name = "on_body"
<1> DEFINE code == Callback(n)[name]
<1>1. CASE name = "on_message_begin"
  <2>1. code = <<Clear("status"), Clear("url"), Clear("header"), Clear("chunk"), Clear("body"),
                 Clear("message"), Set("ready")>>
    BY <1>1 DEF Callback
  <2> HIDE DEF code
  <2>2. /\ DOMAIN code = 1 .. 7 /\ code[1] = Clear("status") /\ code[2] = Clear("url")
        /\ code[3] = Clear("header") /\ code[4] = Clear("chunk") /\ code[5] = Clear("body")
        /\ code[6] = Clear("message") /\ code[7] = Set("ready")
    BY <2>1
  <2>3. Has(code, Set("ready"))
    BY <2>2 DEF Has
  <2>4. \A i \in 1 .. 7 : code[i] \in {Clear("status"), Clear("url"), Clear("header"), Clear("chunk"),
                                       Clear("body"), Clear("message"), Set("ready")}
    BY <2>2
  <2>5. ASSUME NEW a, Has(code, a)
        PROVE  a # Unhook /\ a # Clear("ready") /\ a # Set("url") /\ a[1] # "wait"
    BY <2>2, <2>4, <2>5 DEF Has, Unhook, Clear, Set
  <2>6. \A e : Wait(e)[1] = "wait"
    BY DEF Wait
  <2> QED
    BY <1>1, <2>3, <2>5, <2>6 DEF code
<1>2. CASE name = "on_body"
  <2>1. code = <<Wait("body"), Deliver(n), Count(n)>>
    BY <1>2 DEF Callback
  <2> HIDE DEF code
  <2>2. DOMAIN code = {1, 2, 3} /\ code[1] = Wait("body") /\ code[2] = Deliver(n) /\ code[3] = Count(n)
    BY <2>1
  <2>3. ASSUME NEW a, Has(code, a)
        PROVE  a # Unhook /\ a[1] # "clear" /\ a[1] # "set"
    BY <2>2, <2>3 DEF Has, Unhook, Wait, Deliver, Count
  <2>4. \A e : Clear(e)[1] = "clear" /\ Set(e)[1] = "set"
    BY DEF Clear, Set
  <2> QED
    BY <1>2, <2>3, <2>4 DEF code
<1>3. CASE name = "on_message_complete"
  <2>1. code = <<Finish, Set("status"), Set("url"), Set("header"), Set("chunk"), Set("body"), Set("message")>>
    BY <1>3 DEF Callback
  <2> HIDE DEF code
  <2>2. /\ DOMAIN code = 1 .. 7 /\ code[1] = Finish /\ code[2] = Set("status") /\ code[3] = Set("url")
        /\ code[4] = Set("header") /\ code[5] = Set("chunk") /\ code[6] = Set("body")
        /\ code[7] = Set("message")
    BY <2>1
  <2>3. \A i \in 1 .. 7 : code[i][1] \in {"finish", "set"}
    BY <2>2 DEF Finish, Set
  <2>4. ASSUME NEW a, Has(code, a)
        PROVE  a # Unhook /\ a[1] # "clear" /\ a[1] # "wait"
    BY <2>2, <2>3, <2>4 DEF Has, Unhook
  <2>5. \A e : Clear(e)[1] = "clear" /\ Wait(e)[1] = "wait"
    BY DEF Clear, Wait
  <2> QED
    BY <1>3, <2>4, <2>5 DEF code
<1>4. CASE name = "on_host"
  <2>1. code = <<Store("on_header"), Set("url")>>
    BY <1>4 DEF Callback
  <2> HIDE DEF code
  <2>2. DOMAIN code = {1, 2} /\ code[1] = Store("on_header") /\ code[2] = Set("url")
    BY <2>1
  <2>3. Has(code, Set("url"))
    BY <2>2 DEF Has
  <2>4. ASSUME NEW a, Has(code, a)
        PROVE  a # Unhook /\ a[1] # "clear" /\ a[1] # "wait"
    BY <2>2, <2>4 DEF Has, Unhook, Store, Set
  <2>5. \A e : Clear(e)[1] = "clear" /\ Wait(e)[1] = "wait"
    BY DEF Clear, Wait
  <2> QED
    BY <1>4, <2>3, <2>4, <2>5 DEF code
<1>5. CASE name \in {"on_url", "on_header", "on_status", "on_headers_complete", "on_chunk_header", "on_chunk_complete"}
  <2>1. \/ code = <<Store(name)>>
        \/ code \in {<<Store(name), Set("status")>>, <<Store(name), Set("header")>>}
        \/ code \in {<<Clear("chunk")>>, <<Set("chunk")>>}
    BY <1>5 DEF Callback
  <2> HIDE DEF code
  <2>2. \A i \in DOMAIN code : code[i] \in {Store(name), Set("status"), Set("header"), Clear("chunk"), Set("chunk")}
    <3>1. CASE code = <<Store(name)>>
      BY <3>1
    <3>2. CASE code \in {<<Store(name), Set("status")>>, <<Store(name), Set("header")>>}
      BY <3>2
    <3>3. CASE code \in {<<Clear("chunk")>>, <<Set("chunk")>>}
      BY <3>3
    <3> QED
      BY <2>1, <3>1, <3>2, <3>3
  <2>3. ASSUME NEW a, Has(code, a)
        PROVE  a # Unhook /\ a # Clear("url") /\ a # Clear("ready") /\ a # Set("url") /\ a[1] # "wait"
    BY <2>2, <2>3 DEF Has, Unhook, Store, Set, Clear
  <2>4. \A e : Wait(e)[1] = "wait"
    BY DEF Wait
  <2> QED
    BY <1>5, <2>3, <2>4 DEF code
<1> QED
  BY <1>1, <1>2, <1>3, <1>4, <1>5 DEF CallbackNames

-----------------------------------------------------------------------------
(* While the link delivers, nobody but the thread of handle_request closes *)
(* the request, and it does not before the handler has returned.           *)
Serving == {"idle", "url", "route", "handler"}

OthersIdle == \A t \in Apps \ {Reader} : todo[t] = <<>>

OpenMeanwhile ==
  linked => /\ ~Has(todo[Feeder], Unhook)
            /\ stage \in Serving => hooked /\ ~Has(todo[Reader], Unhook)

(* What a function has seen of its request does not change any more when   *)
(* it has returned.                                                        *)
Complete == (ended => Len(delivered) = BodyLength) /\ ~partial

KindSoFar ==
  /\ stage \in {"idle", "url", "route"} => kind = "unknown"
  /\ stage = "generate" => kind = "generator"

SeenInv == kind = "function" /\ stage # "handler" => Silent(todo[Reader]) /\ (linked => Complete)

FunctionInv == OthersIdle /\ OpenMeanwhile /\ KindSoFar /\ SeenInv

LEMMA CompleteWhileOpen ==
  ASSUME IOInv, hooked
  PROVE  Complete
  BY DEF IOInv, FactsInv, Complete

(* The texts of handle_request itself. *)
LEMMA CloseKinds == \A i \in DOMAIN CloseSteps : CloseSteps[i][1] \in {"unhook", "set", "shut"}
<1>2. /\ DOMAIN Drain = 1 .. 8 /\ Drain[1] = Unhook /\ Drain[2] = Set("ready") /\ Drain[3] = Set("message")
      /\ Drain[4] = Set("body") /\ Drain[5] = Set("header") /\ Drain[6] = Set("chunk")
      /\ Drain[7] = Set("status") /\ Drain[8] = Set("url")
  BY DEF Drain
<1>3. \A i \in 1 .. 8 : Drain[i][1] \in {"unhook", "set"}
  BY <1>2 DEF Unhook, Set
<1>4. Drain \in Seq(FeederSteps) /\ <<Shut>> \in Seq(FeederSteps) /\ Len(Drain) = 8 /\ Len(<<Shut>>) = 1
  <2>1. /\ Unhook \in FeederSteps /\ Shut \in FeederSteps
        /\ \A e \in Events : Set(e) \in FeederSteps
    BY DEF FeederSteps, EventSteps, Set
  <2>2. {"ready", "message", "body", "header", "chunk", "status", "url"} \subseteq Events
    BY DEF Events
  <2> HIDE DEF FeederSteps, Set
  <2> QED
    BY <2>1, <2>2 DEF Drain
<1>5. /\ Len(Drain \o <<Shut>>) = 9
      /\ \A i \in 1 .. 9 : (Drain \o <<Shut>>)[i] = IF i <= 8 THEN Drain[i] ELSE <<Shut>>[i - 8]
  <2> DEFINE last == <<Shut>>
  <2>1. Drain \in Seq(FeederSteps) /\ last \in Seq(FeederSteps) /\ Len(Drain) = 8 /\ Len(last) = 1
    BY <1>4
  <2> HIDE DEF last
  <2>2. /\ Len(Drain \o last) = Len(Drain) + Len(last)
        /\ \A i \in 1 .. Len(Drain) + Len(last) :
             (Drain \o last)[i] = IF i <= Len(Drain) THEN Drain[i] ELSE last[i - Len(Drain)]
    BY <2>1, ConcatProperties
  <2>3. /\ Len(Drain \o last) = 9
        /\ \A i \in 1 .. 9 : (Drain \o last)[i] = IF i <= 8 THEN Drain[i] ELSE last[i - 8]
    BY <2>1, <2>2
  <2> QED
    BY <2>3 DEF last
<1>6. \A i \in 1 .. 9 : CloseSteps[i][1] \in {"unhook", "set", "shut"}
  <2>1. <<Shut>>[1][1] = "shut"
    BY DEF Shut
  <2>2. ASSUME NEW i \in 1 .. 9
        PROVE  CloseSteps[i][1] \in {"unhook", "set", "shut"}
    <3>1. CASE i <= 8
      BY <1>3, <1>5, <3>1 DEF CloseSteps
    <3>2. CASE i = 9
      BY <1>5, <2>1, <3>2 DEF CloseSteps
    <3> QED
      BY <3>1, <3>2
  <2> QED
    BY <2>2
<1>7. DOMAIN CloseSteps = 1 .. 9
  BY CloseText
<1> QED
  BY <1>6, <1>7

(* So nothing is read while the request is closed, and no event cleared.   *)
LEMMA CloseIsSilent == Silent(CloseSteps) /\ Silent(<<>>) /\ ~Has(<<>>, Unhook)
<1>1. Silent(<<>>) /\ ~Has(<<>>, Unhook)
  BY DEF Silent, Has
<1> QED
  BY <1>1, CloseKinds DEF Silent

LEMMA CloseIsQuiet ==
  ASSUME NEW a, Has(CloseSteps, a)
  PROVE  a[1] \in {"unhook", "set", "shut"}
  BY CloseKinds DEF Has

LEMMA ServingTexts ==
  /\ ~Has(HeadersSteps, Unhook) /\ \A n \in ReadSizes : ~Has(ReadSteps(n), Unhook)
  /\ ~Has(<<Wait("ready"), Wait("url")>>, Unhook)
  /\ ~Has(<<Wait("ready"), Wait("ready"), Wait("url"), Wait("ready"), Wait("ready"), Wait("url")>>, Unhook)
<1>1. \A i \in DOMAIN HeadersSteps : HeadersSteps[i] # Unhook
  BY DEF HeadersSteps, Wait, Yield, Unhook
<1>2. \A n \in ReadSizes : \A i \in DOMAIN ReadSteps(n) : ReadSteps(n)[i] # Unhook
  BY DEF ReadSteps, Wait, Set, Fetch, Clear, Unhook
<1>3. Wait("ready") # Unhook /\ Wait("url") # Unhook
  BY DEF Wait, Unhook
<1>4. ~Has(<<Wait("ready"), Wait("url")>>, Unhook)
  BY <1>3 DEF Has
<1>5. ~Has(<<Wait("ready"), Wait("ready"), Wait("url"), Wait("ready"), Wait("ready"), Wait("url")>>, Unhook)
  BY <1>3 DEF Has
<1> QED
  BY <1>1, <1>2, <1>4, <1>5 DEF Has

(* A step of a method or of a callback. *)
LEMMA StepFunction ==
  ASSUME IOInv, FunctionInv, NEW t \in Threads, Step(t), UNCHANGED server
  PROVE  FunctionInv'
<1>1. Reader \in Apps /\ Reader \in Threads /\ Feeder \in Threads /\ Feeder \notin Apps /\ TextsInv
  BY ThreadsAssumption DEF Threads, IOInv
<1>2. t \in {Reader, Feeder} /\ todo[t] # <<>>
  BY StepTodo DEF FunctionInv, OthersIdle, Threads
<1>3. \A u \in Threads : u # t => todo'[u] = todo[u]
  <2>1. Unhook[1] \notin {"put", "count"}
    BY DEF Unhook
  <2> QED
    BY <2>1, StepHas
<1>4. OthersIdle'
  BY <1>1, <1>2, <1>3 DEF FunctionInv, OthersIdle, Threads
<1>5. linked' = linked /\ stage' = stage /\ kind' = kind
  BY DEF Step, DoWait, DoSet, DoClear, DoStore, DoDeliver, DoPut, DoCount, DoFinish, DoUnhook, DoShut,
         DoTake, DoReturn, DoYield, feed, server
<1>6. /\ \A u \in {Reader, Feeder} : Has(todo'[u], Unhook) => Has(todo[u], Unhook)
      /\ hooked' = hooked \/ Has(todo[t], Unhook)
  <2>1. Unhook[1] \notin {"put", "count"}
    BY DEF Unhook
  <2>2. todo[t] \in Seq(AppSteps) \/ todo[t] \in Seq(FeederSteps)
    BY <1>1, <1>2 DEF TextsInv
  <2>3. Head(todo[t]) \in AppSteps \/ Head(todo[t]) \in FeederSteps
    BY <1>2, <2>2, TailPositions
  <2>4. Head(todo[t])[1] = "unhook" => Head(todo[t]) = Unhook
    BY <2>3, AppKinds, FeederKinds
  <2>5. Has(todo[t], Head(todo[t]))
    BY <1>2, <2>2, HasPops
  <2>6. hooked' = hooked \/ Head(todo[t])[1] = "unhook"
    BY DEF Step, DoWait, DoSet, DoClear, DoStore, DoDeliver, DoPut, DoCount, DoFinish, DoUnhook, DoShut,
           DoTake, DoReturn, DoYield, At
  <2> QED
    BY <1>1, <1>3, <2>1, <2>4, <2>5, <2>6, StepHas
<1>7. OpenMeanwhile'
  BY <1>2, <1>5, <1>6 DEF FunctionInv, OpenMeanwhile
<1>8. KindSoFar'
  BY <1>5 DEF FunctionInv, KindSoFar
<1>9. SeenInv'
  <2> SUFFICES ASSUME Silent(todo[Reader]), linked => Complete
               PROVE  Silent(todo'[Reader]) /\ (linked' => Complete')
    BY <1>5 DEF FunctionInv, SeenInv
  <2>1. CASE t = Reader
    <3>1. /\ todo[t] \in Seq(AppSteps) /\ Silent(Tail(todo[t])) /\ Head(todo[t])[1] \notin {"fetch", "yield"}
      BY <1>1, <1>2, <2>1, HasPops DEF TextsInv
    <3>2. ~(DoTake(t) \/ DoReturn(t) \/ DoYield(t))
      BY <3>1 DEF DoTake, DoReturn, DoYield, At
    <3>3. /\ DoWait(t) \/ DoSet(t) \/ DoClear(t) \/ DoUnhook(t) \/ DoShut(t)
      BY <1>1, <2>1, <3>2, AppStep
    <3>4. todo'[Reader] = Tail(todo[Reader])
      BY <1>1, <2>1, <3>3 DEF DoWait, DoSet, DoClear, DoUnhook, DoShut, Done, TextsInv
    <3>5. delivered' = delivered /\ ended' = ended /\ partial' = partial
      BY <3>3 DEF DoWait, DoSet, DoClear, DoUnhook, DoShut, body
    <3> QED
      BY <1>5, <2>1, <3>1, <3>4, <3>5 DEF Complete
  <2>2. CASE t = Feeder
    <3>1. todo'[Reader] = todo[Reader]
      BY <1>1, <1>3, <2>2
    <3>2. delivered' = delivered /\ ended' = ended /\ partial' = partial
      BY <1>1, <2>2, FeederStep DEF DoWait, DoSet, DoClear, DoStore, DoDeliver, DoPut, DoCount, DoFinish,
         DoUnhook, DoShut, body
    <3> QED
      BY <1>5, <3>1, <3>2 DEF Complete
  <2> QED
    BY <1>2, <2>1, <2>2
<1> QED
  BY <1>4, <1>7, <1>8, <1>9 DEF FunctionInv

(* The transport calls on_reader_ready. *)
LEMMA TransportFunction ==
  ASSUME IOInv, FunctionInv, Transport, UNCHANGED server
  PROVE  FunctionInv'
<1>1. Reader \in Apps /\ Reader \in Threads /\ Feeder \in Threads /\ Feeder \notin Apps /\ TextsInv
  BY ThreadsAssumption DEF Threads, IOInv
<1>2. \A u \in Apps : todo'[u] = todo[u]
  BY <1>1 DEF Transport, FeedData, FeedEnd, TextsInv, Threads
<1>3. stage' = stage /\ kind' = kind /\ hooked' = hooked /\ (linked' => linked)
  BY DEF Transport, FeedData, FeedEnd, server
<1>4. delivered' = delivered /\ ended' = ended /\ partial' = partial
  BY DEF Transport, FeedData, FeedEnd, body
<1>5. linked' => ~Has(todo'[Feeder], Unhook)
  <2>1. CASE FeedData
    <3>1. Head(input)[1] \in CallbackNames /\ Head(input)[2] \in Nat
      BY <2>1, HeadTailProperties DEF FeedData, IOInv, InputInv
    <3>2. todo'[Feeder] = Callback(Head(input)[2])[Head(input)[1]]
      BY <1>1, <2>1 DEF FeedData, TextsInv
    <3> QED
      BY <3>1, <3>2, CallbackAccesses
  <2>2. CASE FeedEnd
    BY <2>2 DEF FeedEnd
  <2> QED
    BY <2>1, <2>2 DEF Transport
<1>6. OpenMeanwhile'
  BY <1>1, <1>2, <1>3, <1>5 DEF FunctionInv, OpenMeanwhile
<1>7. OthersIdle' /\ KindSoFar'
  BY <1>2, <1>3 DEF FunctionInv, OthersIdle, KindSoFar
<1>8. SeenInv'
  BY <1>1, <1>2, <1>3, <1>4 DEF FunctionInv, SeenInv, Complete
<1> QED
  BY <1>6, <1>7, <1>8 DEF FunctionInv

(* A step of handle_request. *)
LEMMA HandleFunction ==
  ASSUME IOInv, FunctionInv, Handle
  PROVE  FunctionInv'
<1>1. Reader \in Apps /\ Reader \in Threads /\ Feeder \in Threads /\ Feeder # Reader /\ TextsInv
  BY ThreadsAssumption DEF Threads, IOInv
<1>2. /\ linked' = linked /\ hooked' = hooked /\ delivered' = delivered /\ ended' = ended
      /\ partial' = partial
  BY DEF Handle, Start, Timeout, UrlMissing, UrlKnown, NoRoute, BadParams, CallHandler, HandlerReads,
     HandlerReturns, Consume, GeneratorWrites, GeneratorEnds, Raises, RefusalFails, SendHead, SendBody, others, feed, body
<1>3. Complete' = Complete
  BY <1>2 DEF Complete
<1>4. todo' = todo \/ \E code : Run(code)
  BY DEF Handle, Start, Timeout, UrlMissing, UrlKnown, NoRoute, BadParams, CallHandler, HandlerReads,
     HandlerReturns, Consume, GeneratorWrites, GeneratorEnds, Raises, RefusalFails, SendHead, SendBody, Refuse
<1>5. \A u \in Threads : u # Reader => todo'[u] = todo[u]
  BY <1>1, <1>4 DEF Run, TextsInv
<1>6. OthersIdle'
  BY <1>1, <1>5 DEF FunctionInv, OthersIdle, Threads
<1>7. ASSUME NEW code, Run(code)
      PROVE  todo'[Reader] = code
  BY <1>1, <1>7 DEF Run, TextsInv
<1>8. ASSUME NEW code, Run(code), stage' \in Serving, stage \in Serving, ~Has(code, Unhook),
             kind' = "function" => stage' = "handler", KindSoFar'
      PROVE  FunctionInv'
  <2>1. OpenMeanwhile'
    BY <1>1, <1>2, <1>5, <1>7, <1>8 DEF FunctionInv, OpenMeanwhile
  <2>2. SeenInv'
    BY <1>8 DEF SeenInv
  <2> QED
    BY <1>6, <1>8, <2>1, <2>2 DEF FunctionInv
<1>9. ASSUME stage' \notin Serving, KindSoFar', kind' = "function" => kind = "function",
             \/ Run(CloseSteps)
             \/ (Run(<<>>) \/ todo' = todo) /\ (kind' = "function" => stage # "handler")
             \/ kind' # "function"
      PROVE  FunctionInv'
  <2>1. OpenMeanwhile'
    BY <1>1, <1>2, <1>5, <1>9 DEF FunctionInv, OpenMeanwhile
  <2>2. SeenInv'
    <3> SUFFICES ASSUME kind' = "function"
                 PROVE  Silent(todo'[Reader]) /\ (linked => Complete)
      BY <1>2, <1>3 DEF SeenInv
    <3>1. stage = "handler" => (linked => Complete)
      BY CompleteWhileOpen DEF FunctionInv, OpenMeanwhile, Serving
    <3>2. linked => Complete
      BY <1>9, <3>1 DEF FunctionInv, SeenInv
    <3>3. CASE Run(CloseSteps)
      BY <1>7, <3>2, <3>3, CloseIsSilent
    <3>4. CASE Run(<<>>)
      BY <1>7, <3>2, <3>4, CloseIsSilent
    <3>5. CASE todo' = todo /\ stage # "handler"
      BY <1>9, <3>2, <3>5 DEF FunctionInv, SeenInv
    <3> QED
      BY <1>9, <3>3, <3>4, <3>5
  <2> QED
    BY <1>6, <1>9, <2>1, <2>2 DEF FunctionInv
<1>10. CASE Start
  BY <1>8, <1>10, ServingTexts DEF Start, In, Serving, FunctionInv, KindSoFar
<1>11. CASE UrlKnown
  BY <1>8, <1>11, ServingTexts DEF UrlKnown, In, Serving, FunctionInv, KindSoFar
<1>12. CASE CallHandler
  <2>1. stage = "route" /\ stage' = "handler" /\ (Run(<<>>) \/ Run(HeadersSteps))
    BY <1>12 DEF CallHandler, In
  <2>2. KindSoFar'
    BY <2>1 DEF KindSoFar
  <2> QED
    BY <1>8, <2>1, <2>2, ServingTexts, CloseIsSilent DEF Serving
<1>13. ASSUME NEW n \in ReadSizes, HandlerReads(n)
       PROVE  FunctionInv'
  <2>1. Run(ReadSteps(n)) /\ stage' = stage /\ kind' = kind /\ stage \in {"handler", "generate"}
    BY <1>13 DEF HandlerReads, In, server
  <2>2. KindSoFar'
    BY <2>1 DEF FunctionInv, KindSoFar
  <2>3. CASE stage = "handler"
    BY <1>8, <1>13, <2>1, <2>2, <2>3, ServingTexts DEF Serving
  <2>4. CASE stage = "generate"
    <3>1. kind' # "function"
      BY <2>1, <2>4 DEF FunctionInv, KindSoFar
    <3> QED
      BY <1>9, <2>1, <2>2, <2>4, <3>1 DEF Serving
  <2> QED
    BY <2>1, <2>3, <2>4
<1>14. CASE Timeout \/ UrlMissing \/ NoRoute \/ BadParams \/ Raises
  <2>1. stage' = "refuse" /\ Run(CloseSteps)
    BY <1>14 DEF Timeout, UrlMissing, NoRoute, BadParams, Raises, Refuse
  <2>2. KindSoFar'
    BY <2>1 DEF KindSoFar
  <2>3. kind' = "function" => kind = "function"
    BY <1>14 DEF Timeout, UrlMissing, NoRoute, BadParams, Raises
  <2> QED
    BY <1>9, <2>1, <2>2, <2>3 DEF Serving
<1>15. CASE HandlerReturns
  <2>1. stage' = "closing" /\ Run(CloseSteps) /\ kind' = kind
    BY <1>15 DEF HandlerReturns
  <2>2. KindSoFar'
    BY <2>1 DEF KindSoFar
  <2> QED
    BY <1>9, <2>1, <2>2 DEF Serving
<1>16. CASE Consume
  <2>1. /\ stage = "closing" /\ kind' = kind
        /\ (kind = "generator" /\ stage' = "generate") \/ (kind # "generator" /\ stage' = "send")
        /\ Run(<<>>) \/ kind = "generator"
    BY <1>16 DEF Consume, In
  <2>2. KindSoFar' /\ stage' \notin Serving
    BY <2>1 DEF KindSoFar, Serving
  <2> QED
    BY <1>9, <2>1, <2>2
<1>17. CASE GeneratorWrites \/ GeneratorEnds \/ RefusalFails \/ SendHead \/ SendBody
  <2>1. todo' = todo /\ kind' = kind /\ stage \notin Serving /\ stage' \notin Serving
    BY <1>17 DEF GeneratorWrites, GeneratorEnds, RefusalFails, SendHead, SendBody, In, Serving
  <2>2. KindSoFar'
    BY <1>17, <2>1 DEF GeneratorWrites, GeneratorEnds, RefusalFails, SendHead, SendBody, In, FunctionInv, KindSoFar
  <2> QED
    BY <1>9, <2>1, <2>2 DEF Serving
<1> QED
  BY <1>10, <1>11, <1>12, <1>13, <1>14, <1>15, <1>16, <1>17 DEF Handle

LEMMA FunctionInit ==
  ASSUME ServerInit
  PROVE  FunctionInv
<1>1. \A t \in Threads : todo[t] = <<>>
  BY DEF ServerInit, Init
<1>2. todo[Feeder] = <<>> /\ todo[Reader] = <<>> /\ OthersIdle
  BY <1>1, ThreadsAssumption DEF Threads, OthersIdle
<1>3. OpenMeanwhile
  BY <1>2, CloseIsSilent DEF ServerInit, Init, OpenMeanwhile
<1>4. KindSoFar /\ SeenInv
  BY DEF ServerInit, KindSoFar, SeenInv
<1> QED
  BY <1>2, <1>3, <1>4 DEF FunctionInv

LEMMA FunctionNext ==
  ASSUME IOInv, FunctionInv, [ServerNext]_allVars
  PROVE  FunctionInv'
<1>1. CASE UNCHANGED allVars
  <2>1. OthersIdle' /\ OpenMeanwhile' /\ KindSoFar' /\ SeenInv'
    BY <1>1 DEF FunctionInv, OthersIdle, OpenMeanwhile, KindSoFar, SeenInv, Complete, allVars, vars, server
  <2> QED
    BY <2>1 DEF FunctionInv
<1> QED
  BY <1>1, HandleFunction, TransportFunction, StepFunction DEF ServerNext

(* A function that reads its request to its end has read the whole body,   *)
(* and has seen all of its headers, unless the link has failed: the        *)
(* request is closed by nobody else before the function returns, and not   *)
(* looked at any more when it has been closed.                             *)
THEOREM FunctionsSeeAll == ServerSpec => []FunctionsSeeTheRequest
<1>1. ServerInit => FunctionInv
  BY FunctionInit
<1>2. IOInv /\ FunctionInv /\ [ServerNext]_allVars => FunctionInv'
  BY FunctionNext
<1>3. IOInv /\ FunctionInv => FunctionsSeeTheRequest
  BY CompleteWhileOpen DEF FunctionInv, OpenMeanwhile, SeenInv, Serving, Complete, FunctionsSeeTheRequest
<1> QED
  BY <1>1, <1>2, <1>3, LinkInvariance, PTL DEF ServerSpec

-----------------------------------------------------------------------------
(* What NoFalseRefusal says of a request with HostFirst. *)
RefusedForCause == status = 400 /\ kind # "bad_params" => ~linked \/ late

(* A thread that sleeps waits for an event that is not set. *)
Sleepers == \A t \in Threads : asleep[t] \notin events

(* The feeder waits nowhere but at the beginning of on_body. *)
FeederWaits ==
  /\ asleep[Feeder] # "none" \/ (\E e \in Events : Has(todo[Feeder], Wait(e))) => ~Plain(todo[Feeder])
  /\ ~Plain(todo[Feeder]) => Consumed \in 1 .. Len(Message) /\ Message[Consumed][1] = "on_body"

(* ready_event and url_event are set by their callbacks, and not cleared   *)
(* any more when the request line has begun.                               *)
Cleared ==
  /\ ~Has(todo[Feeder], Clear("ready")) /\ ~Has(todo[Reader], Clear("ready"))
  /\ ~Has(todo[Reader], Clear("url"))
  /\ Has(todo[Feeder], Clear("url")) => Consumed = 1

Announced ==
  \A i \in 1 .. Consumed :
    /\ Message[i][1] = "on_host" => "url" \in events \/ Has(todo[Feeder], Set("url"))
    /\ Message[i][1] = "on_message_begin" => "ready" \in events \/ Has(todo[Feeder], Set("ready"))

(* While wait_url waits, url_event means that there is a request line. *)
UrlFirst ==
  stage \in {"idle", "url"} /\ linked /\ ("url" \in events \/ Has(todo[Feeder], Set("url")))
    => "on_url" \in parsed

Awaits ==
  /\ stage = "idle" => todo[Reader] = <<>> /\ asleep[Reader] = "none"
  /\ stage = "url" =>
       \/ todo[Reader] = <<Wait("ready"), Wait("url")>> /\ asleep[Reader] = "none"
       \/ todo[Reader] = <<Wait("url")>> /\ asleep[Reader] \in {"none", "ready"}
       \/ todo[Reader] = <<>> /\ asleep[Reader] = "url"
       \/ todo[Reader] = <<>> /\ asleep[Reader] = "none" /\ (linked => "on_url" \in parsed)

UrlInv == Sleepers /\ FeederWaits /\ Cleared /\ Announced /\ UrlFirst /\ Awaits

(* The callbacks' texts, once more. *)
LEMMA OnBodyTexts ==
  ASSUME NEW n \in Nat
  PROVE  /\ ~Plain(<<Wait("body"), Deliver(n), Count(n)>>) /\ ~Plain(<<Deliver(n), Count(n)>>)
         /\ \A a : Has(<<Wait("body"), Deliver(n), Count(n)>>, a) => a[1] \in {"wait", "deliver", "count"}
         /\ \A a : Has(<<Deliver(n), Count(n)>>, a) => a[1] \in {"deliver", "count"}
         /\ \A a, m : Has(<<Put(m), Count(n)>>, a) => a[1] \in {"put", "count"}
         /\ \A a : Has(<<Count(n)>>, a) => a[1] = "count"
<1>1. Deliver(n)[1] = "deliver" /\ Count(n)[1] = "count" /\ Wait("body")[1] = "wait" /\ \A m : Put(m)[1] = "put"
  BY DEF Deliver, Count, Wait, Put
<1>2. 2 \in DOMAIN <<Wait("body"), Deliver(n), Count(n)>> /\ <<Wait("body"), Deliver(n), Count(n)>>[2] = Deliver(n)
  OBVIOUS
<1>3. 1 \in DOMAIN <<Deliver(n), Count(n)>> /\ <<Deliver(n), Count(n)>>[1] = Deliver(n)
  OBVIOUS
<1>4. ~Plain(<<Wait("body"), Deliver(n), Count(n)>>)
  BY <1>1, <1>2 DEF Plain
<1>5. ~Plain(<<Deliver(n), Count(n)>>)
  BY <1>1, <1>3 DEF Plain
<1>6. \A a : Has(<<Wait("body"), Deliver(n), Count(n)>>, a) => a \in {Wait("body"), Deliver(n), Count(n)}
  BY DEF Has
<1>7. \A a : Has(<<Deliver(n), Count(n)>>, a) => a \in {Deliver(n), Count(n)}
  BY DEF Has
<1>8. \A a, m : Has(<<Put(m), Count(n)>>, a) => a \in {Put(m), Count(n)}
  BY DEF Has
<1>9. \A a : Has(<<Count(n)>>, a) => a = Count(n)
  BY DEF Has
<1> HIDE DEF Deliver, Count, Wait, Put
<1> QED
  BY <1>1, <1>4, <1>5, <1>6, <1>7, <1>8, <1>9

(* Where on_body is when it has not called the pipe yet. *)
LEMMA InOnBody ==
  ASSUME IOInv, ~Plain(todo[Feeder])
  PROVE  /\ \A e : ~Has(todo[Feeder], Set(e)) /\ ~Has(todo[Feeder], Clear(e))
         /\ \A e : Has(todo[Feeder], Wait(e)) =>
              \E n \in Nat : todo[Feeder] = <<Wait("body"), Deliver(n), Count(n)>>
<1>1. Delivering \/ Putting \/ Counting
  BY DEF IOInv, FeedingInv, Between
<1>2. PICK n \in Nat, m \in Nat :
        \/ todo[Feeder] = <<Wait("body"), Deliver(n), Count(n)>>
        \/ todo[Feeder] \in {<<Deliver(n), Count(n)>>, <<Put(m), Count(n)>>, <<Count(n)>>}
  BY <1>1 DEF Delivering, Putting, Counting
<1>3. \A a : Has(todo[Feeder], a) => a[1] \in {"wait", "deliver", "put", "count"}
  BY <1>2, OnBodyTexts
<1>4. todo[Feeder] # <<Wait("body"), Deliver(n), Count(n)>> =>
        \A a : Has(todo[Feeder], a) => a[1] \in {"deliver", "put", "count"}
  BY <1>2, OnBodyTexts
<1>5. \A e : Set(e)[1] = "set" /\ Clear(e)[1] = "clear" /\ Wait(e)[1] = "wait"
  BY DEF Set, Clear, Wait
<1> QED
  BY <1>2, <1>3, <1>4, <1>5

(* What a step does to the events and to the threads that wait for them.   *)
LEMMA StepEvents ==
  ASSUME IOInv, Sleepers, NEW t \in Threads, Step(t)
  PROVE  /\ Sleepers'
         /\ \A e \in Events : e \in events' => e \in events \/ Head(todo[t]) = Set(e)
         /\ \A e \in Events : e \in events => e \in events' \/ Head(todo[t]) = Clear(e)
         /\ \A e \in Events : Head(todo[t]) = Set(e) => e \in events'
         /\ \A u \in Threads \ {t} :
              asleep'[u] = asleep[u] \/ (asleep'[u] = "none" /\ Head(todo[t]) = Set(asleep[u]))
         /\ Head(todo[t])[1] = "wait" =>
              /\ asleep'[t] = IF Arg(t) \in events THEN "none" ELSE Arg(t)
              /\ todo' = [todo EXCEPT ![t] = Tail(@)]
         /\ Head(todo[t])[1] # "wait" => asleep'[t] = "none"
<1>1. /\ todo[t] # <<>> /\ asleep[t] = "none" /\ asleep \in [Threads -> Events \cup {"none"}]
      /\ events \subseteq Events /\ "none" \notin Events
  BY StepTodo DEF IOInv, TextsInv, FactsInv, Events
<1>2. Head(todo[t]) \in AppSteps \/ Head(todo[t]) \in FeederSteps
  <2>1. todo[t] \in Seq(AppSteps) \/ todo[t] \in Seq(FeederSteps)
    BY DEF IOInv, TextsInv, Threads
  <2> QED
    BY <1>1, <2>1, TailPositions
<1>3. CASE DoWait(t)
  <2>1. /\ asleep' = [asleep EXCEPT ![t] = IF Arg(t) \in events THEN "none" ELSE Arg(t)]
        /\ events' = events /\ Head(todo[t])[1] = "wait" /\ todo' = [todo EXCEPT ![t] = Tail(@)]
    BY <1>3 DEF DoWait, At, Done
  <2>2. Sleepers'
    BY <1>1, <2>1 DEF Sleepers
  <2>3. \A e : Head(todo[t]) # Set(e)
    BY <2>1 DEF Set
  <2> QED
    BY <1>1, <2>1, <2>2, <2>3
<1>4. CASE DoSet(t)
  <2>1. /\ Head(todo[t]) = Set(Arg(t)) /\ Head(todo[t])[1] = "set" /\ events' = events \cup {Arg(t)}
        /\ asleep' = [u \in Threads |-> IF asleep[u] = Arg(t) THEN "none" ELSE asleep[u]]
        /\ Arg(t) \in Events
    BY <1>2, <1>4, AppKinds, FeederKinds DEF DoSet, At, Arg
  <2>2. Sleepers'
    BY <1>1, <2>1 DEF Sleepers
  <2>3. asleep'[t] = "none"
    BY <1>1, <2>1
  <2>4. \A e : Head(todo[t]) = Set(e) => e = Arg(t)
    BY DEF Set, Arg
  <2> QED
    BY <1>1, <2>1, <2>2, <2>3, <2>4
<1>5. CASE DoClear(t)
  <2>1. /\ Head(todo[t])[1] = "clear" /\ events' = events \ {Arg(t)} /\ asleep' = asleep
    BY <1>5 DEF DoClear, At
  <2>2. Head(todo[t]) = Clear(Arg(t))
    BY <1>2, <2>1 DEF Clear, Arg, AppSteps, FeederSteps, EventSteps, Unhook, Shut, Finish
  <2>3. Sleepers'
    BY <2>1 DEF Sleepers
  <2>4. \A e : Head(todo[t]) # Set(e)
    BY <2>1 DEF Set
  <2> QED
    BY <1>1, <2>1, <2>2, <2>3, <2>4
<1>6. CASE ~(DoWait(t) \/ DoSet(t) \/ DoClear(t))
  <2>1. /\ Head(todo[t])[1] \notin {"wait", "set"} /\ events' = events /\ asleep' = asleep
    BY <1>6 DEF Step, DoStore, DoDeliver, DoPut, DoCount, DoFinish, DoUnhook, DoShut, DoTake, DoReturn,
       DoYield, At, sync
  <2>2. \A e : Head(todo[t]) # Set(e)
    BY <2>1 DEF Set
  <2>3. Sleepers'
    BY <2>1 DEF Sleepers
  <2> QED
    BY <1>1, <2>1, <2>2, <2>3
<1> QED
  BY <1>3, <1>4, <1>5, <1>6

LEMMA StepUrl ==
  ASSUME IOInv, OthersIdle, UrlInv, NEW t \in Threads, Step(t), UNCHANGED server
  PROVE  UrlInv'
<1>1. Reader \in Apps /\ Reader \in Threads /\ Feeder \in Threads /\ Feeder # Reader /\ TextsInv
  BY ThreadsAssumption DEF Threads, IOInv
<1>2. t \in {Reader, Feeder} /\ todo[t] # <<>> /\ asleep[t] = "none"
  BY StepTodo DEF OthersIdle, Threads
<1>3. /\ linked' = linked /\ stage' = stage /\ input' = input /\ Consumed' = Consumed
      /\ parsed \subseteq parsed'
  BY DEF Step, DoWait, DoSet, DoClear, DoStore, DoDeliver, DoPut, DoCount, DoFinish, DoUnhook, DoShut,
         DoTake, DoReturn, DoYield, feed, server, Consumed
<1>4. \A u \in Threads : u # t => todo'[u] = todo[u]
  <2>1. Unhook[1] \notin {"put", "count"}
    BY DEF Unhook
  <2> QED
    BY <2>1, StepHas
<1>5. ASSUME NEW a, a[1] \notin {"put", "count"}, NEW u \in {Reader, Feeder}
      PROVE  /\ Has(todo'[u], a) => Has(todo[u], a)
             /\ Has(todo[u], a) => Has(todo'[u], a) \/ (u = t /\ Head(todo[t]) = a)
  BY <1>1, <1>4, <1>5, StepHas
<1>6. Has(todo[t], Head(todo[t]))
  <2>1. todo[t] \in Seq(AppSteps) \/ todo[t] \in Seq(FeederSteps)
    BY <1>1, <1>2 DEF TextsInv
  <2> QED
    BY <1>2, <2>1, HasPops
<1>7. "url" \in Events /\ "ready" \in Events /\ "body" \in Events /\ Sleepers /\ Sleepers'
  BY StepEvents DEF Events, UrlInv
<1>8. \A e : Set(e)[1] = "set" /\ Clear(e)[1] = "clear" /\ Wait(e)[1] = "wait"
  BY DEF Set, Clear, Wait
<1>9. FeederWaits'
  <2>1. CASE t = Reader
    <3>1. todo'[Feeder] = todo[Feeder]
      BY <1>1, <1>4, <2>1
    <3>2. asleep'[Feeder] \in {asleep[Feeder], "none"}
      BY <1>1, <1>7, <2>1, StepEvents
    <3> QED
      BY <1>3, <3>1, <3>2 DEF UrlInv, FeederWaits
  <2>2. CASE t = Feeder
    <3>1. ASSUME ~Plain(todo'[Feeder])
          PROVE  ~Plain(todo[Feeder])
      <4>1. PICK code : /\ todo' = [todo EXCEPT ![t] = code]
                        /\ code = Tail(todo[t]) \/ code = todo[t] \/ Head(todo[t])[1] \in {"deliver", "put"}
        BY StepTodo
      <4>2. todo'[Feeder] = code /\ todo[Feeder] \in Seq(FeederSteps)
        BY <1>1, <2>2, <4>1 DEF TextsInv
      <4>3. Plain(todo[Feeder]) => Plain(Tail(todo[Feeder])) /\ Head(todo[Feeder])[1] \notin {"deliver", "put"}
        BY <1>2, <2>2, <4>2, PlainPops
      <4> QED
        BY <2>2, <3>1, <4>1, <4>2, <4>3
    <3>2. CASE \E e \in Events : Has(todo[Feeder], Wait(e))
      <4>1. ~Plain(todo[Feeder])
        BY <3>2 DEF UrlInv, FeederWaits
      <4>2. PICK n \in Nat : todo[Feeder] = <<Wait("body"), Deliver(n), Count(n)>>
        BY <3>2, <4>1, InOnBody
      <4>3. /\ Head(todo[Feeder]) = Wait("body") /\ Tail(todo[Feeder]) = <<Deliver(n), Count(n)>>
            /\ Head(todo[Feeder])[1] = "wait"
        BY <1>8, <4>2, BodyTexts
      <4>4. todo' = [todo EXCEPT ![Feeder] = Tail(todo[Feeder])]
        BY <1>7, <2>2, <4>3, StepEvents
      <4>5. todo'[Feeder] = <<Deliver(n), Count(n)>>
        BY <1>1, <4>3, <4>4 DEF TextsInv
      <4>6. ~Plain(todo'[Feeder])
        BY <4>5, OnBodyTexts
      <4> QED
        BY <1>3, <4>1, <4>6 DEF UrlInv, FeederWaits
    <3>3. CASE ~\E e \in Events : Has(todo[Feeder], Wait(e))
      <4>1. ~\E e \in Events : Has(todo'[Feeder], Wait(e))
        BY <1>1, <1>5, <1>8, <3>3
      <4>2. Head(todo[Feeder])[1] # "wait"
        <5>1. Head(todo[Feeder]) \in FeederSteps
          BY <1>1, <1>2, <2>2, TailPositions DEF TextsInv
        <5> QED
          BY <1>6, <2>2, <3>3, <5>1, FeederKinds
      <4>3. asleep'[Feeder] = "none"
        BY <1>7, <2>2, <4>2, StepEvents
      <4> QED
        BY <1>3, <3>1, <4>1, <4>3 DEF UrlInv, FeederWaits
    <3> QED
      BY <3>2, <3>3
  <2> QED
    BY <1>2, <2>1, <2>2
<1>10. Cleared'
  BY <1>3, <1>5, <1>8 DEF UrlInv, Cleared
<1>11. Announced'
  <2> SUFFICES ASSUME NEW i \in 1 .. Consumed
               PROVE  /\ Message[i][1] = "on_host" => "url" \in events' \/ Has(todo'[Feeder], Set("url"))
                      /\ Message[i][1] = "on_message_begin" => "ready" \in events' \/ Has(todo'[Feeder], Set("ready"))
    BY <1>3 DEF Announced
  <2>1. ASSUME NEW e \in {"url", "ready"}, e \in events \/ Has(todo[Feeder], Set(e)), Head(todo[t]) # Clear(e)
        PROVE  e \in events' \/ Has(todo'[Feeder], Set(e))
    <3>1. e \in Events
      BY <1>7
    <3>2. CASE e \in events
      BY <1>7, <2>1, <3>1, <3>2, StepEvents
    <3>3. CASE Has(todo[Feeder], Set(e))
      <4>1. Has(todo'[Feeder], Set(e)) \/ Head(todo[t]) = Set(e)
        BY <1>1, <1>5, <1>8, <3>3
      <4> QED
        BY <1>7, <3>1, <4>1, StepEvents
    <3> QED
      BY <2>1, <3>2, <3>3
  <2>2. Head(todo[t]) # Clear("ready")
    BY <1>2, <1>6 DEF UrlInv, Cleared
  <2>3. Message[i][1] = "on_host" => Head(todo[t]) # Clear("url")
    <3> SUFFICES ASSUME Message[i][1] = "on_host", Head(todo[t]) = Clear("url")
                 PROVE  FALSE
      OBVIOUS
    <3>1. Consumed = 1 /\ i = 1
      BY <1>2, <1>6 DEF UrlInv, Cleared
    <3>2. 1 \in DOMAIN Message
      BY <3>1, FoundRange, MessageAssumption DEF IOInv
    <3> QED
      BY <3>1, <3>2, RequestAssumption
  <2> QED
    BY <2>1, <2>2, <2>3 DEF UrlInv, Announced
<1>12. stage = "idle" => t = Feeder
  BY <1>2 DEF UrlInv, Awaits
<1>13. stage = "url" /\ t = Reader => Head(todo[t])[1] = "wait"
  <2> SUFFICES ASSUME stage = "url", t = Reader
               PROVE  Head(todo[t])[1] = "wait"
    OBVIOUS
  <2>1. todo[Reader] \in {<<Wait("ready"), Wait("url")>>, <<Wait("url")>>}
    BY <1>2 DEF UrlInv, Awaits
  <2>2. Head(<<Wait("ready"), Wait("url")>>) = Wait("ready") /\ Head(<<Wait("url")>>) = Wait("url")
    OBVIOUS
  <2> QED
    BY <1>8, <2>1, <2>2
<1>14. UrlFirst'
  <2> SUFFICES ASSUME stage \in {"idle", "url"}, linked, "url" \in events' \/ Has(todo'[Feeder], Set("url"))
               PROVE  "on_url" \in parsed
    BY <1>3 DEF UrlFirst
  <2>1. Head(todo[t]) = Set("url") => t = Feeder
    BY <1>2, <1>8, <1>12, <1>13
  <2>2. Head(todo[t]) = Set("url") => Has(todo[Feeder], Set("url"))
    BY <1>6, <2>1
  <2>3. "url" \in events' => "url" \in events \/ Head(todo[t]) = Set("url")
    BY <1>7, StepEvents
  <2>4. Has(todo'[Feeder], Set("url")) => Has(todo[Feeder], Set("url"))
    BY <1>1, <1>5, <1>8
  <2> QED
    BY <2>2, <2>3, <2>4 DEF UrlInv, UrlFirst
<1>15. Awaits'
  <2>1. CASE t = Feeder
    <3>1. todo'[Reader] = todo[Reader]
      BY <1>1, <1>4, <2>1
    <3>2. \/ asleep'[Reader] = asleep[Reader]
          \/ asleep'[Reader] = "none" /\ Head(todo[Feeder]) = Set(asleep[Reader])
      BY <1>1, <1>7, <2>1, StepEvents
    <3>3. stage = "url" /\ linked /\ Head(todo[Feeder]) = Set("url") => "on_url" \in parsed
      BY <1>6, <2>1 DEF UrlInv, UrlFirst
    <3>4. stage = "idle" => todo'[Reader] = <<>> /\ asleep'[Reader] = "none"
      BY <3>1, <3>2 DEF UrlInv, Awaits
    <3>5. ASSUME stage = "url"
          PROVE  \/ todo'[Reader] = <<Wait("ready"), Wait("url")>> /\ asleep'[Reader] = "none"
                 \/ todo'[Reader] = <<Wait("url")>> /\ asleep'[Reader] \in {"none", "ready"}
                 \/ todo'[Reader] = <<>> /\ asleep'[Reader] = "url"
                 \/ todo'[Reader] = <<>> /\ asleep'[Reader] = "none" /\ (linked => "on_url" \in parsed)
      BY <3>1, <3>2, <3>3, <3>5 DEF UrlInv, Awaits
    <3> QED
      BY <1>3, <3>4, <3>5 DEF Awaits
  <2>2. CASE t = Reader /\ stage = "url"
    <3>1. /\ asleep'[Reader] = IF Arg(Reader) \in events THEN "none" ELSE Arg(Reader)
          /\ todo'[Reader] = Tail(todo[Reader])
      BY <1>1, <1>7, <1>13, <2>2, StepEvents DEF TextsInv
    <3>2. CASE todo[Reader] = <<Wait("ready"), Wait("url")>>
      <4>1. Head(todo[Reader]) = Wait("ready") /\ Tail(todo[Reader]) = <<Wait("url")>>
        BY <3>2
      <4>2. Arg(Reader) = "ready"
        BY <4>1 DEF Arg, Wait
      <4> QED
        BY <1>3, <2>2, <3>1, <4>1, <4>2 DEF Awaits
    <3>3. CASE todo[Reader] = <<Wait("url")>>
      <4>1. Head(todo[Reader]) = Wait("url") /\ Tail(todo[Reader]) = <<>>
        BY <3>3
      <4>2. Arg(Reader) = "url"
        BY <4>1 DEF Arg, Wait
      <4>3. linked /\ "url" \in events => "on_url" \in parsed
        BY <2>2 DEF UrlInv, UrlFirst
      <4> QED
        BY <1>3, <2>2, <3>1, <4>1, <4>2, <4>3 DEF Awaits
    <3> QED
      BY <1>2, <2>2, <3>2, <3>3 DEF UrlInv, Awaits
  <2>3. CASE stage \notin {"idle", "url"}
    BY <1>3, <2>3 DEF Awaits
  <2> QED
    BY <1>2, <1>12, <2>1, <2>2, <2>3
<1> QED
  BY <1>7, <1>9, <1>10, <1>11, <1>14, <1>15 DEF UrlInv

(* The next part of the message. *)
LEMMA NextPart ==
  ASSUME IOInv, FeedData
  PROVE  /\ Consumed' = Consumed + 1 /\ Consumed \in Nat /\ Consumed + 1 \in DOMAIN Message
         /\ Head(input) = Message[Consumed + 1]
         /\ Head(input)[1] \in CallbackNames /\ Head(input)[2] \in Nat
         /\ todo'[Feeder] = Callback(Head(input)[2])[Head(input)[1]]
<1>1. Feeder \in Threads /\ input # <<>> /\ input' = Tail(input)
  BY DEF FeedData, Threads
<1>2. todo'[Feeder] = Callback(Head(input)[2])[Head(input)[1]]
  BY <1>1 DEF FeedData, IOInv, TextsInv
<1>3. /\ input \in Seq(CallbackNames \X Nat) /\ Len(input) <= Len(Message) /\ Len(Message) \in Nat
      /\ \A i \in 1 .. Len(input) : input[i] = Message[Consumed + i]
  BY MessageAssumption DEF IOInv, InputInv
<1>4. /\ Len(input) \in Nat \ {0} /\ Head(input) = input[1] /\ Head(input) \in CallbackNames \X Nat
      /\ Len(input') = Len(input) - 1
  BY <1>1, <1>3, TailPositions
<1>5. Consumed' = Consumed + 1 /\ Consumed \in Nat /\ Consumed + 1 \in 1 .. Len(Message)
  BY <1>3, <1>4 DEF Consumed
<1>6. Head(input) = Message[Consumed + 1]
  BY <1>3, <1>4
<1>7. DOMAIN Message = 1 .. Len(Message)
  BY MessageAssumption
<1> QED
  BY <1>2, <1>4, <1>5, <1>6, <1>7

LEMMA TransportUrl ==
  ASSUME IOInv, UrlInv, Transport, UNCHANGED server
  PROVE  UrlInv'
<1>1. Reader \in Apps /\ Reader \in Threads /\ Feeder \in Threads /\ Feeder # Reader /\ TextsInv
  BY ThreadsAssumption DEF Threads, IOInv
<1>2. /\ todo'[Reader] = todo[Reader] /\ todo[Feeder] = <<>> /\ asleep[Feeder] = "none"
      /\ events' = events /\ asleep' = asleep /\ parsed' = parsed /\ stage' = stage
      /\ linked' => linked
  BY <1>1 DEF Transport, FeedData, FeedEnd, Idle, TextsInv, sync, server
<1>3. Sleepers' /\ Awaits'
  BY <1>1, <1>2 DEF UrlInv, Sleepers, Awaits
<1>4. \A a : ~Has(todo[Feeder], a)
  BY <1>2 DEF Has
<1>5. CASE FeedData
  <2> DEFINE name == Head(input)[1]
  <2> DEFINE code == todo'[Feeder]
  <2>1. /\ Consumed' = Consumed + 1 /\ Consumed \in Nat /\ Consumed + 1 \in DOMAIN Message
        /\ Message[Consumed + 1][1] = name /\ name \in CallbackNames
    BY <1>5, NextPart
  <2>2. PICK n \in Nat : code = Callback(n)[name]
    BY <1>5, NextPart
  <2>3. /\ ~Has(code, Clear("ready")) /\ (Has(code, Clear("url")) => name = "on_message_begin")
        /\ (Has(code, Set("url")) => name \in {"on_host", "on_message_complete"})
        /\ (name = "on_host" => Has(code, Set("url")))
        /\ (name = "on_message_begin" => Has(code, Set("ready")))
        /\ \A e : Has(code, Wait(e)) => name = "on_body"
    BY <2>1, <2>2, CallbackAccesses
  <2>4. (name = "on_body" => ~Plain(code)) /\ (name # "on_body" => Plain(code))
    <3>1. /\ name = "on_body" => Callback(n)[name] = <<Wait("body"), Deliver(n), Count(n)>>
          /\ name # "on_body" => Plain(Callback(n)[name])
      <4> HIDE DEF name, code
      <4> QED
        BY <2>1, <2>2, CallbackTexts
    <3>2. ~Plain(<<Wait("body"), Deliver(n), Count(n)>>)
      BY <2>2, OnBodyTexts
    <3> HIDE DEF name, code
    <3> QED
      BY <2>2, <3>1, <3>2
  <2> HIDE DEF name, code
  <2>5. FeederWaits'
    <3>1. Consumed' \in 1 .. Len(Message)
      BY <2>1, MessageAssumption
    <3> QED
      BY <1>2, <2>1, <2>3, <2>4, <3>1 DEF FeederWaits, code
  <2>6. Cleared'
    <3>1. name = "on_message_begin" => Consumed' = 1
      BY <2>1, RequestAssumption
    <3> QED
      BY <1>2, <2>3, <3>1 DEF UrlInv, Cleared, code
  <2>7. Announced'
    <3> SUFFICES ASSUME NEW i \in 1 .. Consumed + 1
                 PROVE  /\ Message[i][1] = "on_host" => "url" \in events \/ Has(code, Set("url"))
                        /\ Message[i][1] = "on_message_begin" => "ready" \in events \/ Has(code, Set("ready"))
      BY <1>2, <2>1 DEF Announced, code
    <3>1. CASE i = Consumed + 1
      BY <2>1, <2>3, <3>1
    <3>2. CASE i # Consumed + 1
      <4>1. i \in 1 .. Consumed
        BY <2>1, <3>2
      <4> QED
        BY <1>4, <4>1 DEF UrlInv, Announced
    <3> QED
      BY <3>1, <3>2
  <2>8. UrlFirst'
    <3>1. name \in {"on_host", "on_message_complete"} => "on_url" \in parsed
      <4> SUFFICES ASSUME name \in {"on_host", "on_message_complete"}
                   PROVE  "on_url" \in parsed
        OBVIOUS
      <4>1. PICK i \in 1 .. (Consumed + 1) - 1 : Message[i][1] = "on_url"
        BY <2>1, RequestAssumption
      <4>2. i \in 1 .. Consumed
        BY <2>1
      <4>3. Idle(Feeder)
        BY <1>5 DEF FeedData
      <4> QED
        BY <4>1, <4>2, <4>3, IdleFeeder
    <3> QED
      BY <1>2, <2>3, <3>1 DEF UrlInv, UrlFirst, code
  <2> QED
    BY <1>3, <2>5, <2>6, <2>7, <2>8 DEF UrlInv
<1>6. CASE FeedEnd
  <2>1. todo'[Feeder] = CloseSteps /\ linked' = FALSE /\ Consumed' = Consumed
    BY <1>1, <1>6 DEF FeedEnd, TextsInv, Consumed
  <2>2. Plain(CloseSteps) /\ \A e : ~Has(CloseSteps, Clear(e)) /\ ~Has(CloseSteps, Wait(e))
    <3>1. \A e : Clear(e)[1] = "clear" /\ Wait(e)[1] = "wait"
      BY DEF Clear, Wait
    <3> QED
      BY <3>1, CloseText, CloseIsQuiet
  <2>3. FeederWaits'
    BY <1>2, <2>1, <2>2 DEF FeederWaits
  <2>4. Cleared'
    BY <1>2, <2>1, <2>2 DEF UrlInv, Cleared
  <2>5. Announced'
    BY <1>2, <1>4, <2>1 DEF UrlInv, Announced
  <2>6. UrlFirst'
    BY <2>1 DEF UrlFirst
  <2> QED
    BY <1>3, <2>3, <2>4, <2>5, <2>6 DEF UrlInv
<1> QED
  BY <1>5, <1>6 DEF Transport

(* What the thread of handle_request clears is body_event, in read().      *)
LEMMA RunClears ==
  ASSUME NEW code,
         \/ code \in {<<>>, CloseSteps, HeadersSteps, <<Wait("ready"), Wait("url")>>}
         \/ code = <<Wait("ready"), Wait("ready"), Wait("url"), Wait("ready"), Wait("ready"), Wait("url")>>
         \/ \E n \in ReadSizes : code = ReadSteps(n)
  PROVE  ~Has(code, Clear("ready")) /\ ~Has(code, Clear("url"))
<1>1. \A e : Clear(e)[1] = "clear" /\ Clear(e)[2] = e
  BY DEF Clear
<1>2. CASE code = <<>>
  BY <1>2 DEF Has
<1>3. CASE code = CloseSteps
  BY <1>1, <1>3, CloseIsQuiet
<1>4. CASE code = HeadersSteps
  <2>1. \A i \in DOMAIN HeadersSteps : HeadersSteps[i][1] \in {"wait", "yield"}
    BY DEF HeadersSteps, Wait, Yield
  <2> QED
    BY <1>1, <1>4, <2>1 DEF Has
<1>5. CASE \E n \in ReadSizes : code = ReadSteps(n)
  <2>1. PICK n \in ReadSizes : code = ReadSteps(n)
    BY <1>5
  <2>2. \A i \in DOMAIN ReadSteps(n) : ReadSteps(n)[i] \in {Wait("ready"), Set("body"), Fetch(n), Clear("body")}
    BY DEF ReadSteps
  <2>3. Wait("ready")[1] = "wait" /\ Set("body")[1] = "set" /\ Fetch(n)[1] = "fetch"
    BY DEF Wait, Set, Fetch
  <2> QED
    BY <1>1, <2>1, <2>2, <2>3 DEF Has
<1>6. Wait("ready")[1] = "wait" /\ Wait("url")[1] = "wait"
  BY DEF Wait
<1>7. CASE code = <<Wait("ready"), Wait("url")>>
  <2>1. \A i \in DOMAIN code : code[i] \in {Wait("ready"), Wait("url")}
    BY <1>7
  <2> QED
    BY <1>1, <1>6, <2>1 DEF Has
<1>8. CASE code = <<Wait("ready"), Wait("ready"), Wait("url"), Wait("ready"), Wait("ready"), Wait("url")>>
  <2>1. \A i \in DOMAIN code : code[i] \in {Wait("ready"), Wait("url")}
    BY <1>8
  <2> QED
    BY <1>1, <1>6, <2>1 DEF Has
<1> QED
  BY <1>2, <1>3, <1>4, <1>5, <1>7, <1>8

LEMMA HandleUrl ==
  ASSUME IOInv, UrlInv, Handle
  PROVE  UrlInv'
<1>1. Reader \in Apps /\ Reader \in Threads /\ Feeder \in Threads /\ Feeder # Reader /\ TextsInv
  BY ThreadsAssumption DEF Threads, IOInv
<1>2. events' = events /\ input' = input /\ parsed' = parsed /\ linked' = linked
  BY DEF Handle, Start, Timeout, UrlMissing, UrlKnown, NoRoute, BadParams, CallHandler, HandlerReads,
     HandlerReturns, Consume, GeneratorWrites, GeneratorEnds, Raises, RefusalFails, SendHead, SendBody, others, sync, feed
<1>3. asleep' = asleep \/ asleep' = [asleep EXCEPT ![Reader] = "none"]
  BY DEF Handle, Start, Timeout, UrlMissing, UrlKnown, NoRoute, BadParams, CallHandler, HandlerReads,
     HandlerReturns, Consume, GeneratorWrites, GeneratorEnds, Raises, RefusalFails, SendHead, SendBody, others, sync
<1>4. \/ todo' = todo
      \/ \E code :
           /\ Run(code)
           /\ \/ code \in {<<>>, CloseSteps, HeadersSteps, <<Wait("ready"), Wait("url")>>}
              \/ code = <<Wait("ready"), Wait("ready"), Wait("url"), Wait("ready"), Wait("ready"), Wait("url")>>
              \/ \E n \in ReadSizes : code = ReadSteps(n)
  BY DEF Handle, Start, Timeout, UrlMissing, UrlKnown, NoRoute, BadParams, CallHandler, HandlerReads,
     HandlerReturns, Consume, GeneratorWrites, GeneratorEnds, Raises, RefusalFails, SendHead, SendBody, Refuse
<1>5. todo'[Feeder] = todo[Feeder] /\ asleep'[Feeder] = asleep[Feeder]
  BY <1>1, <1>3, <1>4 DEF Run, TextsInv
<1>6. Consumed' = Consumed
  BY <1>2 DEF Consumed
<1>7. Sleepers'
  <2>1. "none" \notin events /\ asleep \in [Threads -> Events \cup {"none"}]
    BY DEF IOInv, TextsInv, FactsInv, Events
  <2> QED
    BY <1>1, <1>2, <1>3, <2>1 DEF UrlInv, Sleepers
<1>8. FeederWaits'
  BY <1>5, <1>6 DEF UrlInv, FeederWaits
<1>9. Cleared'
  <2>1. todo'[Reader] # todo[Reader] =>
          ~Has(todo'[Reader], Clear("ready")) /\ ~Has(todo'[Reader], Clear("url"))
    BY <1>1, <1>4, RunClears DEF Run, TextsInv
  <2> QED
    BY <1>5, <1>6, <2>1 DEF UrlInv, Cleared
<1>10. Announced'
  BY <1>2, <1>5, <1>6 DEF UrlInv, Announced
<1>11. stage' # "idle" /\ (stage' = "url" => Start)
  BY DEF Handle, Start, Timeout, UrlMissing, UrlKnown, NoRoute, BadParams, CallHandler, HandlerReads,
     HandlerReturns, Consume, GeneratorWrites, GeneratorEnds, Raises, RefusalFails, SendHead, SendBody, Refuse, In, server
<1>12. UrlFirst'
  BY <1>2, <1>5, <1>11 DEF UrlInv, UrlFirst, Start, In
<1>13. Awaits'
  <2>1. Start => todo'[Reader] = <<Wait("ready"), Wait("url")>> /\ asleep'[Reader] = "none"
    BY <1>1 DEF Start, In, Idle, Run, others, sync, TextsInv
  <2> QED
    BY <1>11, <2>1 DEF Awaits
<1> QED
  BY <1>7, <1>8, <1>9, <1>10, <1>12, <1>13 DEF UrlInv

(* A request that waits for its line while the feeder waits has not been   *)
(* announced: on_body comes after on_host, which set url_event.            *)
LEMMA NobodyWaitsInVain ==
  ASSUME IOInv, UrlInv, HostFirst, stage = "url", asleep[Reader] # "none", asleep[Feeder] # "none"
  PROVE  FALSE
<1>1. Consumed \in 1 .. Len(Message) /\ Message[Consumed][1] = "on_body" /\ ~Plain(todo[Feeder])
  BY DEF UrlInv, FeederWaits
<1>2. Consumed \in DOMAIN Message /\ Consumed \in Nat
  BY <1>1, MessageAssumption
<1>3. PICK i \in 1 .. Consumed - 1 : Message[i][1] = "on_host"
  BY <1>1, <1>2 DEF HostFirst
<1>4. i \in 1 .. Consumed /\ 1 \in 1 .. Consumed /\ 1 \in DOMAIN Message
  BY <1>1, <1>2, MessageAssumption
<1>5. Message[1][1] = "on_message_begin"
  BY <1>4, RequestAssumption
<1>6. ~Has(todo[Feeder], Set("url")) /\ ~Has(todo[Feeder], Set("ready"))
  BY <1>1, InOnBody
<1>7. "url" \in events /\ "ready" \in events
  BY <1>3, <1>4, <1>5, <1>6 DEF UrlInv, Announced
<1>8. asleep[Reader] \in {"ready", "url"}
  BY DEF UrlInv, Awaits
<1>9. Reader \in Threads
  BY ThreadsAssumption DEF Threads
<1> QED
  BY <1>7, <1>8, <1>9 DEF UrlInv, Sleepers

(* Every refusal for want of a request line has a reason. *)
LEMMA RefusalStep ==
  ASSUME IOInv, AnswersSoFar, KindSoFar, UrlInv, HostFirst, RefusedForCause, [ServerNext]_allVars
  PROVE  RefusedForCause'
<1>1. CASE UNCHANGED server
  <2>1. linked' => linked
    BY <1>1 DEF ServerNext, Transport, FeedData, FeedEnd, Step, DoWait, DoSet, DoClear, DoStore, DoDeliver,
       DoPut, DoCount, DoFinish, DoUnhook, DoShut, DoTake, DoReturn, DoYield, feed, allVars, vars,
       Handle, Start, Timeout, UrlMissing, UrlKnown, NoRoute, BadParams, CallHandler, HandlerReads,
       HandlerReturns, Consume, GeneratorWrites, GeneratorEnds, Raises, RefusalFails, SendHead, SendBody, others
  <2> QED
    BY <1>1, <2>1 DEF RefusedForCause, server
<1>2. CASE Timeout
  BY <1>2, NobodyWaitsInVain DEF Timeout, RefusedForCause
<1>3. CASE UrlMissing
  <2>1. todo[Reader] = <<>> /\ asleep[Reader] = "none" /\ stage = "url" /\ "on_url" \notin parsed
    BY <1>3 DEF UrlMissing, In, Idle
  <2>2. <<Wait("ready"), Wait("url")>> # <<>> /\ <<Wait("url")>> # <<>>
    OBVIOUS
  <2>3. ~linked
    BY <2>1, <2>2 DEF UrlInv, Awaits
  <2> QED
    BY <1>3, <2>3 DEF UrlMissing, RefusedForCause, others, feed
<1>4. CASE NoRoute \/ BadParams \/ Raises
  BY <1>4 DEF NoRoute, BadParams, Raises, Refuse, RefusedForCause
<1>5. CASE CallHandler
  <2>1. status' = 200
    BY <1>5 DEF CallHandler, In, AnswersSoFar
  <2> QED
    BY <2>1 DEF RefusedForCause
<1>6. CASE \/ Start \/ UrlKnown \/ (\E n \in ReadSizes : HandlerReads(n)) \/ HandlerReturns \/ Consume
           \/ GeneratorWrites \/ GeneratorEnds \/ RefusalFails \/ SendHead \/ SendBody
  BY <1>6 DEF Start, UrlKnown, HandlerReads, HandlerReturns, Consume, GeneratorWrites, GeneratorEnds,
     RefusalFails, SendHead, SendBody, others, feed, server, RefusedForCause
<1> QED
  BY <1>1, <1>2, <1>3, <1>4, <1>5, <1>6 DEF ServerNext, Handle, allVars

(* A request is answered 400 before its route is looked up only when the   *)
(* link is gone or the time over, if its Host header is before its body.   *)
THEOREM NoRefusalInTime == ServerSpec => []NoFalseRefusal
<1>0. CASE ~HostFirst
  <2>1. NoFalseRefusal
    BY <1>0 DEF NoFalseRefusal
  <2> QED
    BY <2>1, PTL
<1> SUFFICES ASSUME HostFirst PROVE ServerSpec => []NoFalseRefusal
  BY <1>0
<1> DEFINE Inv == FunctionInv /\ UrlInv /\ RefusedForCause
<1>1. ServerInit => Inv
  <2> SUFFICES ASSUME ServerInit PROVE Inv
    OBVIOUS
  <2>1. FunctionInv
    BY FunctionInit
  <2>2. Consumed = 0
    BY MessageAssumption DEF ServerInit, Init, Consumed
  <2>3. \A t \in Threads : todo[t] = <<>> /\ asleep[t] = "none"
    BY DEF ServerInit, Init
  <2>4. todo[Feeder] = <<>> /\ todo[Reader] = <<>> /\ asleep[Feeder] = "none" /\ asleep[Reader] = "none"
    BY <2>3, ThreadsAssumption DEF Threads
  <2>5. \A a : ~Has(<<>>, a)
    BY DEF Has
  <2>6. Plain(<<>>)
    BY DEF Plain
  <2>7. events = {} /\ stage = "idle" /\ status = 200
    BY DEF ServerInit, Init
  <2>8. Sleepers /\ FeederWaits /\ Cleared /\ UrlFirst /\ Awaits
    BY <2>4, <2>5, <2>6, <2>7 DEF Sleepers, FeederWaits, Cleared, UrlFirst, Awaits
  <2>9. Announced
    BY <2>2 DEF Announced
  <2> QED
    BY <2>1, <2>7, <2>8, <2>9 DEF UrlInv, RefusedForCause
<1>2. HandleInv /\ IOInv /\ Inv /\ [ServerNext]_allVars => Inv'
  <2> SUFFICES ASSUME HandleInv, IOInv, Inv, [ServerNext]_allVars
               PROVE  Inv'
    OBVIOUS
  <2>1. FunctionInv'
    BY FunctionNext
  <2>2. UrlInv'
    <3>1. CASE UNCHANGED allVars
      BY <3>1 DEF UrlInv, Sleepers, FeederWaits, Cleared, Announced, UrlFirst, Awaits, Consumed, allVars,
         vars, server
    <3> QED
      BY <3>1, HandleUrl, TransportUrl, StepUrl DEF ServerNext, FunctionInv
  <2>3. RefusedForCause'
    BY RefusalStep DEF HandleInv, FunctionInv
  <2> QED
    BY <2>1, <2>2, <2>3
<1>3. Inv => NoFalseRefusal
  BY DEF NoFalseRefusal, RefusedForCause
<1> HIDE DEF Inv
<1> QED
  BY <1>1, <1>2, <1>3, LinkInvariance, PTL DEF ServerSpec
=============================================================================
