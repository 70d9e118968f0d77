------------------------------ MODULE MCRoutes ------------------------------
(* A small instance of Routes for TLC. *)
EXTENDS Routes, TLC

CONSTANTS h1, h2    \* model values

MCHandlers == {h1, h2}
Swap == Permutations(MCHandlers)

(* /users/me, /users/{id:int}, /{id}/{id:int}, /{id :int}, /x/{id:date}.   *)
MCPatterns ==
  {<<"", "users", "me">>, <<"", "users", "{id:int}">>, <<"", "{id}", "{id:int}">>,
   <<"", "{id :int}">>, <<"", "users", "{id:date}">>}

(* The same with texts for the parameters, with and without an empty       *)
(* segment, and a pattern that is asked for literally.                     *)
MCPaths ==
  {<<"", "users", "me">>, <<"", "users", "", "me">>, <<"", "users", "7">>, <<"", "users", "7", "">>,
   <<"", "users">>, <<"", "7">>, <<"", "users", "{id:int}">>, <<"", "">>}

MCBraced == {"{id}", "{id:int}", "{id :int}", "{id:date}"}

(* The name is not stripped when a type follows it. *)
MCNameOf == ("{id}" :> "id" @@ "{id:int}" :> "id" @@ "{id :int}" :> "id " @@ "{id:date}" :> "id")
MCTypeOf == ("{id}" :> "str" @@ "{id:int}" :> "int" @@ "{id :int}" :> "int" @@ "{id:date}" :> "date")

(* str() and bool() take everything. *)
MCAccepts ==
  ({"str", "bool"} \X UNION {ToSet(p) : p \in MCPaths}) \cup ({"int", "float"} \X {"7"})
=============================================================================
