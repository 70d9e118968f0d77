---------------------------- MODULE MCCallbacksIO ----------------------------
(* Small instances of CallbacksIO for TLC. *)
EXTENDS CallbacksIO, TLC

CONSTANTS app, waiter, feeder    \* model values

Two == {app, waiter}

(* What the threads of the application do. *)
Mixed == (app :> {"read", "readinto", "wait", "close"} @@ waiter :> {"wait", "headers", "url", "close"})
Apart == (app :> {"read"} @@ waiter :> {"wait", "headers", "status"})
ApartOnRequest == (app :> {"read"} @@ waiter :> {"wait", "headers", "url"})

Part(name) == <<name, 0>>

(* A request with a body that the transport cuts in two. *)
Post == <<Part("on_message_begin"), Part("on_url"), Part("on_host"), Part("on_headers_complete"),
          <<"on_body", 3>>, <<"on_body", 1>>, Part("on_message_complete")>>

(* A chunked response. *)
Chunked == <<Part("on_message_begin"), Part("on_status"), Part("on_header"), Part("on_headers_complete"),
             Part("on_chunk_header"), <<"on_body", 1>>, Part("on_chunk_complete"),
             Part("on_chunk_header"), <<"on_body", 2>>, Part("on_chunk_complete"),
             Part("on_message_complete")>>

AllSizes == {-1, 1, 2}
=============================================================================
