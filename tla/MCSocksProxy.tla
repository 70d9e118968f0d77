---------------------------- MODULE MCSocksProxy ----------------------------
(* Small instances of SocksProxy for TLC. *)
EXTENDS SocksProxy, TLC

CONSTANTS a, b    \* model values

Both == {a, b}

Get == <<"greeting", "request", "get">>

(* A form whose body comes in a packet of its own, or with the head. *)
Posts == {Get, <<"greeting", "request", "head", "body">>, <<"greeting", "request", "head_body">>}

(* Good and bad clients, one that goes on behind its request, and one      *)
(* whose request has a body.                                               *)
All == {Get, <<"bad">>, Get \o <<"bad">>, <<"greeting", "request", "bad">>,
        <<"greeting", "request", "head", "body">>}

(* Both are larger than the pipe, one by more than a unit. *)
Lengths == (a :> 3 @@ b :> 2)
=============================================================================
