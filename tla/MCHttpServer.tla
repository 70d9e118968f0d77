---------------------------- MODULE MCHttpServer ----------------------------
(* Small instances of HttpServer for TLC. *)
EXTENDS HttpServer

CONSTANTS handler, feeder    \* model values

Threads1 == {handler}
Calls == [t \in Threads1 |-> {"read", "close"}]

Part(name) == <<name, 0>>

(* A request with a body that the transport cuts in two. *)
Post == <<Part("on_message_begin"), Part("on_url"), Part("on_host"), Part("on_headers_complete"),
          <<"on_body", 1>>, <<"on_body", 2>>, Part("on_message_complete")>>

Sizes == {-1, 2}
=============================================================================
