------------------------------- MODULE Routes -------------------------------
(***************************************************************************)
(* The routing table of HttpServer (rnhttp/server.py): route() and         *)
(* add_handler() fill it, get_handler() and extract_params() look a        *)
(* request up in it.                                                       *)
(*                                                                         *)
(* A path or pattern is what split("/") makes of it, a sequence of         *)
(* segments, "" before the first and after a last "/".  How a segment      *)
(* "{name:type}" is read and which texts a type accepts are tables.        *)
(***************************************************************************)
EXTENDS Naturals, Sequences, SequencesExt, FiniteSets

CONSTANTS
  Methods, Handlers,
  Patterns,        \* what is registered, sequences of segments
  Paths,           \* what is requested, sequences of segments
  Braced,          \* the segments of the form {...}
  NameOf, TypeOf,  \* their name and type: functions on Braced
  MaxRoutes,       \* bound: routes in the table
  Accepts          \* pairs of a type and a segment that its constructor takes

Types == {"int", "str", "float", "bool"}

ASSUME PathsAssumption == Patterns \cup Paths \subseteq Seq(STRING)
ASSUME TablesAssumption == DOMAIN NameOf = Braced /\ DOMAIN TypeOf = Braced
ASSUME MaxRoutesAssumption == MaxRoutes \in Nat

VARIABLES
  routes,   \* self._handlers, in the order of the dict
  default   \* self._default_handler, as a set of at most one

vars == <<routes, default>>

-----------------------------------------------------------------------------
(* The segments of a path that are in a set of texts, in their order. *)
Only(path, texts) ==
  LET kept[i \in 0 .. Len(path)] ==
        IF i = 0 THEN <<>>
        ELSE IF path[i] \in texts THEN Append(kept[i - 1], path[i]) ELSE kept[i - 1]
  IN kept[Len(path)]

(* What is left of a path without its empty segments. *)
PartsOf == [path \in Patterns \cup Paths |-> Only(path, ToSet(path) \ {""})]
Parts(path) == PartsOf[path]

(* parse_param_spec raises ValueError for a type it does not know. *)
Readable(s) == TypeOf[s] \in Types

parse_param_spec(s) == [name |-> NameOf[s], type |-> TypeOf[s]]

parse_route_spec(pattern) ==
  LET braced == Only(Parts(pattern), Braced)
  IN [i \in DOMAIN braced |-> parse_param_spec(braced[i])]

(* Slip: zip() stops at the end of the shorter of the two. *)
match_prefix(pattern, path) ==
  LET pp == Parts(pattern)  p == Parts(path)
  IN \A i \in DOMAIN pp \cap DOMAIN p : pp[i] = p[i] \/ pp[i] \in Braced

match_pattern(pattern, path) ==
  LET pp == Parts(pattern)  p == Parts(path)
  IN /\ Len(pp) = Len(p)
     /\ \A i \in DOMAIN pp : pp[i] = p[i] \/ pp[i] \in Braced

(* extract_params goes through the two paths side by side, whatever the    *)
(* param_specs it is given; Slots are where it finds a parameter.  Slip:   *)
(* the parameter before a segment that is no parameter is the last one.    *)
SlotsFromFront(pattern, path) ==
  LET pp == Parts(pattern)
  IN {i \in DOMAIN pp \cap DOMAIN Parts(path) : \A j \in 1 .. i : pp[j] \in Braced}

Slots(pattern, path) ==
  LET pp == Parts(pattern) IN {i \in DOMAIN pp \cap DOMAIN Parts(path) : pp[i] \in Braced}

(* It raises ValueError for a segment that it cannot read or convert. *)
Extracts(pattern, path) ==
  \A i \in Slots(pattern, path) :
    LET s == Parts(pattern)[i]
    IN Readable(s) /\ <<TypeOf[s], Parts(path)[i]>> \in Accepts

(* Of two parameters with the same name the last one stays. *)
extract_params(pattern, path) ==
  LET slots == Slots(pattern, path)
      name(i) == NameOf[Parts(pattern)[i]]
      last(n) == CHOOSE i \in slots : name(i) = n /\ \A j \in slots : name(j) = n => j <= i
  IN [n \in {name(i) : i \in slots} |-> <<TypeOf[Parts(pattern)[last(n)]], Parts(path)[last(n)]>>]

-----------------------------------------------------------------------------
Init == routes = <<>> /\ default = {}

Positions(method, pattern) ==
  {i \in DOMAIN routes : routes[i].method = method /\ routes[i].pattern = pattern}

Route(method, pattern, handler) ==
  [method |-> method, pattern |-> pattern, handler |-> handler,
   spec |-> parse_route_spec(pattern)]

(* Slip: a list of routes in place of a dict. *)
add_to_list(method, pattern, handler) ==
  /\ \A s \in ToSet(pattern) \cap Braced : Readable(s)
  /\ Len(routes) < MaxRoutes
  /\ routes' = Append(routes, Route(method, pattern, handler))
  /\ UNCHANGED default

(* Slip: a route that is registered again goes to the end of the table. *)
add_at_end(method, pattern, handler) ==
  /\ \A s \in ToSet(pattern) \cap Braced : Readable(s)
  /\ Positions(method, pattern) = {} => Len(routes) < MaxRoutes
  /\ routes' = Append(SelectSeq(routes, LAMBDA r : r.method # method \/ r.pattern # pattern),
                      Route(method, pattern, handler))
  /\ UNCHANGED default

(* add_handler() and route(): nothing changes when parse_route_spec raises. *)
(* A route for a known method and path takes the place of the old one in   *)
(* the order of the table.                                                 *)
add_handler(method, pattern, handler) ==
  /\ \A s \in ToSet(pattern) \cap Braced : Readable(s)
  /\ LET old == Positions(method, pattern) IN
       /\ old = {} => Len(routes) < MaxRoutes
       /\ routes' = IF old = {} THEN Append(routes, Route(method, pattern, handler))
                    ELSE [i \in DOMAIN routes |->
                            IF i \in old THEN Route(method, pattern, handler) ELSE routes[i]]
  /\ UNCHANGED default

set_default_handler(handler) ==
  /\ default' = {handler}
  /\ UNCHANGED routes

Next ==
  \/ \E m \in Methods, p \in Patterns, h \in Handlers : add_handler(m, p, h)
  \/ \E h \in Handlers : set_default_handler(h)

Spec == Init /\ [][Next]_vars

-----------------------------------------------------------------------------
Matching(method, path) ==
  {i \in DOMAIN routes : routes[i].method = method /\ match_pattern(routes[i].pattern, path)}

(* Slip: the table is searched in order for exact and other matches alike. *)
find_in_order(method, path) ==
  LET found == Matching(method, path)
  IN {i \in found : \A j \in found : i <= j}

(* The route for a request, as a set of at most one position. *)
find(method, path) ==
  LET exact == Positions(method, path)
      found == Matching(method, path)
  IN IF exact # {} THEN exact ELSE {i \in found : \A j \in found : i <= j}

(* What get_handler and extract_params come to.  They are given the path   *)
(* of the request as the pattern when the default handler is to be called. *)
answer(method, path) ==
  LET call(handler, pattern) ==
        IF Extracts(pattern, path)
        THEN [status |-> 200, handlers |-> {handler}, params |-> extract_params(pattern, path)]
        ELSE [status |-> 400, handlers |-> {}, params |-> <<>>]
      route == routes[CHOOSE i \in find(method, path) : TRUE]
  IN IF find(method, path) # {} THEN call(route.handler, route.pattern)
     ELSE IF default # {} THEN call(CHOOSE h \in default : TRUE, path)
     ELSE [status |-> 404, handlers |-> {}, params |-> <<>>]

-----------------------------------------------------------------------------
(* The table is a dict: no two routes for the same method and path, and    *)
(* with each the parameters of its own pattern.                            *)
RoutesTypeOK ==
  /\ \A i \in DOMAIN routes :
       /\ routes[i] \in [method : Methods, pattern : Patterns, handler : Handlers,
                         spec : {parse_route_spec(p) : p \in Patterns}]
       /\ routes[i].spec = parse_route_spec(routes[i].pattern)
       /\ Positions(routes[i].method, routes[i].pattern) = {i}
  /\ default \subseteq Handlers /\ Cardinality(default) <= 1

(* The paths that a pattern stands for: any text in the place of a {...}. *)
Language(pattern) ==
  LET parts == Parts(pattern)
      texts == UNION {ToSet(p) : p \in Paths}
  IN {p \in [1 .. Len(parts) -> texts] :
        \A i \in 1 .. Len(parts) : parts[i] \notin Braced => p[i] = parts[i]}

(* A request is refused with 404 only if no pattern of its method stands   *)
(* for its path and there is no default handler: the shortcut through the  *)
(* dict and the walk over it agree on what a path is, also about empty     *)
(* segments, and about patterns that are requested literally.              *)
NotFoundIsRight ==
  \A m \in Methods, p \in Paths :
    answer(m, p).status = 404
      <=> default = {}
          /\ \A i \in DOMAIN routes :
               routes[i].method = m => Parts(p) \notin Language(routes[i].pattern)

(* A route registered for the very path of a request is not shadowed by a  *)
(* pattern registered before it; among patterns the first one wins.        *)
Precedence ==
  \A m \in Methods, p \in Paths : \A i \in find(m, p), j \in Matching(m, p) :
    j = i \/ (routes[j].pattern # p /\ (i < j \/ routes[i].pattern = p))

(* A handler is called with the parameters of its own route, no more and   *)
(* no fewer, and each one is of the type that the route declares for it.   *)
(* (The default handler is not: extract_params takes its path for a        *)
(* pattern, although the list of param_specs for it is empty.)             *)
ParamsFit ==
  \A m \in Methods, p \in Paths : \A i \in find(m, p) :
    LET spec == routes[i].spec  called == answer(m, p) IN
      called.status = 200 =>
        /\ DOMAIN called.params = {spec[k].name : k \in DOMAIN spec}
        /\ \A n \in DOMAIN called.params :
             \E k \in DOMAIN spec : spec[k] = [name |-> n, type |-> called.params[n][1]]

(* Registering a route changes the answer only to requests that its        *)
(* pattern stands for, no request that had a handler loses it to 404, and  *)
(* none goes over from one old route to another: a route that is           *)
(* registered again keeps what it had before patterns that came later.     *)
RegistersLocally ==
  [][\A m \in Methods, p \in Paths :
       /\ answer(m, p)' # answer(m, p) =>
            \/ default' # default
            \/ \E i \in DOMAIN routes' :
                 /\ i \notin DOMAIN routes \/ routes'[i] # routes[i]
                 /\ routes'[i].method = m /\ Parts(p) \in Language(routes'[i].pattern)
       /\ answer(m, p)'.status = 404 => answer(m, p).status = 404
       /\ \A i \in find(m, p), j \in find(m, p)' :
            routes'[j].pattern = routes[i].pattern \/ Positions(m, routes'[j].pattern) = {}]_vars
=============================================================================
