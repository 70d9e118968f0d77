---------------------------- MODULE Routes_proofs ----------------------------
(***************************************************************************)
(* Theorems about Routes: for every set of patterns and paths, any number  *)
(* of routes and any default handler, a request is answered by the right   *)
(* route with the right parameters.                                        *)
(***************************************************************************)
EXTENDS Routes, FoldTheorems

-----------------------------------------------------------------------------
(* What Only keeps.                                                        *)

(* The function that Only is made of, for a path with n segments. *)
KeepsUpTo(kept, path, texts, n) ==
  kept = [i \in 0 .. n |->
            IF i = 0 THEN <<>>
            ELSE IF path[i] \in texts THEN Append(kept[i - 1], path[i]) ELSE kept[i - 1]]

(* There is such a function. *)
LEMMA KeepsExist ==
  ASSUME NEW n \in Nat, NEW path, NEW texts
  PROVE  \E kept : KeepsUpTo(kept, path, texts, n)
<1> DEFINE S == {m \in Nat : \E kept : KeepsUpTo(kept, path, texts, m)}
<1>1. 0 \in S
  <2> DEFINE kept == [i \in 0 .. 0 |-> <<>>]
  <2>1. kept = [i \in 0 .. 0 |->
                  IF i = 0 THEN <<>>
                  ELSE IF path[i] \in texts THEN Append(kept[i - 1], path[i]) ELSE kept[i - 1]]
    OBVIOUS
  <2> HIDE DEF kept
  <2>2. KeepsUpTo(kept, path, texts, 0)
    BY <2>1 DEF KeepsUpTo
  <2> QED
    BY <2>2
<1>2. ASSUME NEW m \in Nat, m \in S
      PROVE  m + 1 \in S
  <2>1. PICK kept : KeepsUpTo(kept, path, texts, m)
    BY <1>2
  <2> DEFINE last == IF path[m + 1] \in texts THEN Append(kept[m], path[m + 1]) ELSE kept[m]
  <2> DEFINE more == [i \in 0 .. m + 1 |-> IF i = m + 1 THEN last ELSE kept[i]]
  <2>2. ASSUME NEW i \in 0 .. m + 1
        PROVE  more[i] = IF i = 0 THEN <<>>
                         ELSE IF path[i] \in texts THEN Append(more[i - 1], path[i]) ELSE more[i - 1]
    <3>1. CASE i = m + 1
      <4>1. more[i] = last /\ i # 0 /\ i - 1 = m
        BY <3>1
      <4>2. more[m] = kept[m]
        OBVIOUS
      <4> HIDE DEF more
      <4> QED
        BY <3>1, <4>1, <4>2
    <3>2. CASE i # m + 1
      <4>1. i \in 0 .. m /\ (i # 0 => i - 1 \in 0 .. m + 1 /\ i - 1 # m + 1)
        BY <3>2
      <4>2. kept[i] = IF i = 0 THEN <<>>
                      ELSE IF path[i] \in texts THEN Append(kept[i - 1], path[i]) ELSE kept[i - 1]
        BY <2>1, <4>1 DEF KeepsUpTo
      <4>3. more[i] = kept[i] /\ (i # 0 => more[i - 1] = kept[i - 1])
        BY <3>2, <4>1
      <4> HIDE DEF more
      <4> QED
        BY <4>2, <4>3
    <3> QED
      BY <3>1, <3>2
  <2>3. more = [i \in 0 .. m + 1 |-> more[i]]
    OBVIOUS
  <2> HIDE DEF more
  <2>4. KeepsUpTo(more, path, texts, m + 1)
    BY <2>2, <2>3 DEF KeepsUpTo
  <2> QED
    BY <2>4
<1> HIDE DEF S
<1>3. n \in S
  BY <1>1, <1>2, NatSetInduction
<1> QED
  BY <1>3 DEF S

(* Only keeps the segments of the path that are among the texts, and       *)
(* nothing else.                                                           *)
LEMMA OnlyKeeps ==
  ASSUME NEW A, NEW path \in Seq(A), NEW texts
  PROVE  /\ Only(path, texts) \in Seq(ToSet(path) \cap texts)
         /\ ToSet(Only(path, texts)) = ToSet(path) \cap texts
<1> DEFINE n == Len(path)
<1> DEFINE kept == CHOOSE kept : KeepsUpTo(kept, path, texts, n)
<1>1. n \in Nat /\ DOMAIN path = 1 .. n
  OBVIOUS
<1>2. KeepsUpTo(kept, path, texts, n)
  BY <1>1, KeepsExist
<1>3. Only(path, texts) = kept[n]
  BY <1>1 DEF Only, KeepsUpTo
<1> HIDE DEF kept
<1> DEFINE seen(k) == {path[i] : i \in 1 .. k} \cap texts
<1> DEFINE S == {k \in Nat : k <= n => kept[k] \in Seq(seen(k)) /\ ToSet(kept[k]) = seen(k)}
<1>4. 0 \in S
  <2>1. 1 .. 0 = {} /\ 0 \in 0 .. n
    BY <1>1
  <2>2. kept[0] = <<>>
    BY <1>2, <2>1 DEF KeepsUpTo
  <2>3. seen(0) = {}
    BY <2>1
  <2>4. <<>> \in Seq(seen(0)) /\ ToSet(<<>>) = {}
    BY DEF ToSet
  <2> HIDE DEF seen
  <2> QED
    BY <2>2, <2>3, <2>4
<1>5. ASSUME NEW k \in Nat, k \in S
      PROVE  k + 1 \in S
  <2> SUFFICES ASSUME k + 1 <= n
               PROVE  kept[k + 1] \in Seq(seen(k + 1)) /\ ToSet(kept[k + 1]) = seen(k + 1)
    OBVIOUS
  <2> DEFINE old == kept[k]
  <2> DEFINE s == path[k + 1]
  <2>1. k + 1 \in 0 .. n /\ k + 1 # 0 /\ (k + 1) - 1 = k
    BY <1>1
  <2>3. kept[k + 1] = IF s \in texts THEN Append(old, s) ELSE old
    BY <1>2, <2>1 DEF KeepsUpTo
  <2>4. old \in Seq(seen(k)) /\ ToSet(old) = seen(k)
    <3>1. k <= n
      BY <1>1
    <3> HIDE DEF n, seen
    <3> QED
      BY <1>5, <3>1
  <2>5. {path[i] : i \in 1 .. k + 1} = {path[i] : i \in 1 .. k} \cup {s}
    <3>1. 1 .. k + 1 = (1 .. k) \cup {k + 1}
      OBVIOUS
    <3> QED
      BY <3>1
  <2>6. seen(k + 1) = IF s \in texts THEN seen(k) \cup {s} ELSE seen(k)
    BY <2>5
  <2> HIDE DEF old, s, seen
  <2>7. CASE s \in texts
    <3>1. seen(k) \subseteq seen(k + 1) /\ s \in seen(k + 1)
      BY <2>6, <2>7
    <3>2. old \in Seq(seen(k + 1))
      <4>1. \A i \in 1 .. Len(old) : old[i] \in seen(k + 1)
        BY <2>4, <3>1
      <4> QED
        BY <2>4, <4>1
    <3>3. /\ Append(old, s) \in Seq(seen(k + 1)) /\ DOMAIN Append(old, s) = 1 .. Len(old) + 1
          /\ \A i \in 1 .. Len(old) : Append(old, s)[i] = old[i]
          /\ Append(old, s)[Len(old) + 1] = s
      BY <3>1, <3>2
    <3>4. 1 .. Len(old) + 1 = (1 .. Len(old)) \cup {Len(old) + 1} /\ DOMAIN old = 1 .. Len(old)
      BY <3>2
    <3>5. ToSet(Append(old, s)) = ToSet(old) \cup {s}
      BY <3>3, <3>4 DEF ToSet
    <3> QED
      BY <2>3, <2>4, <2>6, <2>7, <3>3, <3>5
  <2>8. CASE s \notin texts
    BY <2>3, <2>4, <2>6, <2>8
  <2> QED
    BY <2>7, <2>8
<1> HIDE DEF S
<1>6. n \in S
  BY <1>1, <1>4, <1>5, NatSetInduction
<1>7. seen(n) = ToSet(path) \cap texts
  BY <1>1 DEF ToSet
<1> HIDE DEF seen
<1> QED
  BY <1>3, <1>6, <1>7 DEF S

(* The parts of a path are its segments but the empty ones. *)
LEMMA PartsOfPath ==
  ASSUME NEW path \in Patterns \cup Paths
  PROVE  Parts(path) \in Seq(ToSet(path) \ {""}) /\ ToSet(Parts(path)) = ToSet(path) \ {""}
<1>1. path \in Seq(STRING)
  BY PathsAssumption
<1>2. Parts(path) = Only(path, ToSet(path) \ {""})
  BY DEF Parts, PartsOf
<1>3. /\ Only(path, ToSet(path) \ {""}) \in Seq(ToSet(path) \cap (ToSet(path) \ {""}))
      /\ ToSet(Only(path, ToSet(path) \ {""})) = ToSet(path) \cap (ToSet(path) \ {""})
  BY <1>1, OnlyKeeps
<1>4. ToSet(path) \cap (ToSet(path) \ {""}) = ToSet(path) \ {""}
  OBVIOUS
<1> QED
  BY <1>2, <1>3, <1>4

(* The parameters of a pattern are those of its parts in braces.           *)
LEMMA SpecOfPattern ==
  ASSUME NEW pattern \in Patterns
  PROVE  LET spec == parse_route_spec(pattern) IN
         {spec[k] : k \in DOMAIN spec} = {parse_param_spec(s) : s \in ToSet(Parts(pattern)) \cap Braced}
<1> DEFINE braced == Only(Parts(pattern), Braced)
<1>1. ToSet(braced) = ToSet(Parts(pattern)) \cap Braced
  BY PartsOfPath, OnlyKeeps
<1>2. parse_route_spec(pattern) = [i \in DOMAIN braced |-> parse_param_spec(braced[i])]
  BY DEF parse_route_spec
<1>3. ToSet(braced) = {braced[i] : i \in DOMAIN braced}
  BY DEF ToSet
<1> HIDE DEF braced
<1> QED
  BY <1>1, <1>2, <1>3

(* A set of positions has one first position.                              *)
LEMMA FirstPosition ==
  ASSUME NEW n \in Nat, NEW s \in SUBSET (1 .. n), s # {}
  PROVE  \E i \in s : {k \in s : \A j \in s : k <= j} = {i}
<1> DEFINE S == {m \in Nat : \A u \in SUBSET (1 .. m) : u # {} => \E x \in u : \A y \in u : x <= y}
<1>1. 0 \in S
  <2>1. 1 .. 0 = {}
    OBVIOUS
  <2> QED
    BY <2>1
<1>2. ASSUME NEW m \in Nat, m \in S
      PROVE  m + 1 \in S
  <2>1. ASSUME NEW u \in SUBSET (1 .. m + 1), u # {}
        PROVE  \E x \in u : \A y \in u : x <= y
    <3>1. u \ {m + 1} \in SUBSET (1 .. m)
      OBVIOUS
    <3>2. CASE u \ {m + 1} = {}
      <4>1. m + 1 \in u /\ \A y \in u : y = m + 1
        BY <2>1, <3>2
      <4> QED
        BY <4>1
    <3>3. CASE u \ {m + 1} # {}
      <4>1. PICK x \in u \ {m + 1} : \A y \in u \ {m + 1} : x <= y
        BY <1>2, <3>1, <3>3
      <4>2. x <= m + 1
        BY <3>1
      <4> QED
        BY <4>1, <4>2
    <3> QED
      BY <3>2, <3>3
  <2> QED
    BY <2>1
<1> HIDE DEF S
<1>3. n \in S
  BY <1>1, <1>2, NatSetInduction
<1>4. PICK x \in s : \A y \in s : x <= y
  BY <1>3 DEF S
<1>5. \A k \in s : (\A j \in s : k <= j) => k = x
  BY <1>4
<1> QED
  BY <1>4, <1>5

-----------------------------------------------------------------------------
(* Lookup in a table, whatever the table.  The operators of Routes are     *)
(* these of the variable routes.                                           *)

PositionsIn(table, method, pattern) ==
  {i \in DOMAIN table : table[i].method = method /\ table[i].pattern = pattern}

MatchingIn(table, method, path) ==
  {i \in DOMAIN table : table[i].method = method /\ match_pattern(table[i].pattern, path)}

FindIn(table, method, path) ==
  IF PositionsIn(table, method, path) # {} THEN PositionsIn(table, method, path)
  ELSE {i \in MatchingIn(table, method, path) : \A j \in MatchingIn(table, method, path) : i <= j}

(* What comes of a handler that is called with the parameters of a pattern. *)
Call(handler, pattern, path) ==
  IF Extracts(pattern, path)
  THEN [status |-> 200, handlers |-> {handler}, params |-> extract_params(pattern, path)]
  ELSE [status |-> 400, handlers |-> {}, params |-> <<>>]

AnswerIn(table, handlers, method, path) ==
  LET route == table[CHOOSE i \in FindIn(table, method, path) : TRUE]
  IN IF FindIn(table, method, path) # {} THEN Call(route.handler, route.pattern, path)
     ELSE IF handlers # {} THEN Call(CHOOSE h \in handlers : TRUE, path, path)
     ELSE [status |-> 404, handlers |-> {}, params |-> <<>>]

(* A table as add_handler makes it: the key of each route is its own.      *)
TableOK(table) ==
  /\ table \in Seq([method : Methods, pattern : Patterns, handler : Handlers,
                    spec : {parse_route_spec(p) : p \in Patterns}])
  /\ \A i \in DOMAIN table :
       /\ table[i].spec = parse_route_spec(table[i].pattern)
       /\ PositionsIn(table, table[i].method, table[i].pattern) = {i}

LEMMA PatternsOfTable ==
  ASSUME NEW table, TableOK(table), NEW i \in DOMAIN table
  PROVE  table[i].pattern \in Patterns
<1> DEFINE Records == [method : Methods, pattern : Patterns, handler : Handlers,
                       spec : {parse_route_spec(p) : p \in Patterns}]
<1>1. table \in Seq(Records)
  BY DEF TableOK
<1>2. \A r \in Records : r.pattern \in Patterns
  OBVIOUS
<1> HIDE DEF Records
<1>3. table[i] \in Records
  BY <1>1
<1> QED
  BY <1>2, <1>3

(* A pattern that is requested literally matches itself.                   *)
LEMMA MatchesItself == \A path : match_pattern(path, path)
BY DEF match_pattern

(* The lookup finds at most one route, one that matches, and none only if  *)
(* none matches.                                                           *)
LEMMA FindsOne ==
  ASSUME NEW table, TableOK(table), NEW method, NEW path
  PROVE  \/ FindIn(table, method, path) = {} /\ MatchingIn(table, method, path) = {}
         \/ \E i \in MatchingIn(table, method, path) : FindIn(table, method, path) = {i}
<1>1. PositionsIn(table, method, path) \subseteq MatchingIn(table, method, path)
  BY MatchesItself DEF PositionsIn, MatchingIn
<1>2. CASE PositionsIn(table, method, path) # {}
  <2>1. PICK i \in DOMAIN table : i \in PositionsIn(table, method, path)
    BY <1>2 DEF PositionsIn
  <2>2. PositionsIn(table, method, path) = {i}
    BY <2>1 DEF TableOK, PositionsIn
  <2> QED
    BY <1>1, <2>2 DEF FindIn
<1>3. CASE PositionsIn(table, method, path) = {}
  <2>1. PICK n \in Nat : DOMAIN table = 1 .. n
    BY DEF TableOK
  <2>2. MatchingIn(table, method, path) \in SUBSET (1 .. n)
    BY <2>1 DEF MatchingIn
  <2>3. CASE MatchingIn(table, method, path) = {}
    BY <1>3, <2>3 DEF FindIn
  <2>4. CASE MatchingIn(table, method, path) # {}
    BY <1>3, <2>2, <2>4, FirstPosition DEF FindIn
  <2> QED
    BY <2>3, <2>4
<1> QED
  BY <1>2, <1>3

(* The answer in each of the three cases. *)
LEMMA AnswerOfOne ==
  ASSUME NEW table, NEW handlers, NEW method, NEW path, NEW i, FindIn(table, method, path) = {i}
  PROVE  AnswerIn(table, handlers, method, path) = Call(table[i].handler, table[i].pattern, path)
<1>1. (CHOOSE k \in FindIn(table, method, path) : TRUE) = i /\ FindIn(table, method, path) # {}
  OBVIOUS
<1> QED
  BY <1>1 DEF AnswerIn

LEMMA AnswerOfNone ==
  ASSUME NEW table, NEW handlers, NEW method, NEW path, FindIn(table, method, path) = {}
  PROVE  /\ handlers # {} =>
              AnswerIn(table, handlers, method, path) = Call(CHOOSE h \in handlers : TRUE, path, path)
         /\ handlers = {} =>
              AnswerIn(table, handlers, method, path) = [status |-> 404, handlers |-> {}, params |-> <<>>]
BY DEF AnswerIn

(* A request is refused with 404 exactly if there is nothing to call.      *)
LEMMA RefusedWithout ==
  ASSUME NEW table, TableOK(table), NEW handlers, NEW method, NEW path
  PROVE  AnswerIn(table, handlers, method, path).status = 404
           <=> handlers = {} /\ MatchingIn(table, method, path) = {}
<1>1. \A handler, pattern : Call(handler, pattern, path).status # 404
  BY DEF Call
<1>2. CASE \E i \in MatchingIn(table, method, path) : FindIn(table, method, path) = {i}
  <2>1. PICK i \in MatchingIn(table, method, path) : FindIn(table, method, path) = {i}
    BY <1>2
  <2>2. AnswerIn(table, handlers, method, path) = Call(table[i].handler, table[i].pattern, path)
    BY <2>1, AnswerOfOne
  <2> QED
    BY <1>1, <2>1, <2>2
<1>3. CASE FindIn(table, method, path) = {} /\ MatchingIn(table, method, path) = {}
  <2>1. CASE handlers = {}
    <3>1. AnswerIn(table, handlers, method, path) = [status |-> 404, handlers |-> {}, params |-> <<>>]
      BY <1>3, <2>1, AnswerOfNone
    <3> QED
      BY <1>3, <2>1, <3>1
  <2>2. CASE handlers # {}
    <3>1. AnswerIn(table, handlers, method, path) = Call(CHOOSE h \in handlers : TRUE, path, path)
      BY <1>3, <2>2, AnswerOfNone
    <3> QED
      BY <1>1, <2>2, <3>1
  <2> QED
    BY <2>1, <2>2
<1> QED
  BY <1>2, <1>3, FindsOne

(* The walk over the table knows the paths that a pattern stands for.      *)
LEMMA MatchIsLanguage ==
  ASSUME NEW pattern \in Patterns, NEW path \in Paths
  PROVE  match_pattern(pattern, path) <=> Parts(path) \in Language(pattern)
<1> DEFINE pp == Parts(pattern)
<1> DEFINE p == Parts(path)
<1> DEFINE texts == UNION {ToSet(q) : q \in Paths}
<1>1. p \in Seq(texts)
  <2> DEFINE own == ToSet(path) \ {""}
  <2>1. p \in Seq(own)
    BY PartsOfPath
  <2>2. own \subseteq texts
    OBVIOUS
  <2> HIDE DEF own, p, texts
  <2>3. \A i \in 1 .. Len(p) : p[i] \in texts
    BY <2>1, <2>2
  <2> QED
    BY <2>1, <2>3
<1>2. PICK n \in Nat : Len(pp) = n /\ DOMAIN pp = 1 .. n
  <2> DEFINE own == ToSet(pattern) \ {""}
  <2>1. pp \in Seq(own)
    BY PartsOfPath
  <2> HIDE DEF pp, own
  <2>2. Len(pp) \in Nat /\ DOMAIN pp = 1 .. Len(pp)
    BY <2>1
  <2> QED
    BY <2>2
<1>3. PICK k \in Nat : Len(p) = k /\ DOMAIN p = 1 .. k
  BY <1>1
<1>4. match_pattern(pattern, path) <=> n = k /\ \A i \in 1 .. n : pp[i] = p[i] \/ pp[i] \in Braced
  BY <1>2, <1>3 DEF match_pattern
<1>5. p \in Language(pattern) <=> p \in [1 .. n -> texts] /\ \A i \in 1 .. n : pp[i] \notin Braced => p[i] = pp[i]
  BY <1>2 DEF Language
<1> HIDE DEF pp, p, texts
<1>6. p \in [1 .. n -> texts] <=> n = k
  <2>1. p = [i \in 1 .. k |-> p[i]] /\ \A i \in 1 .. k : p[i] \in texts
    BY <1>1, <1>3
  <2>2. 1 .. n = 1 .. k => n = k
    BY <1>2, <1>3
  <2> QED
    BY <1>3, <2>1, <2>2
<1>7. match_pattern(pattern, path) <=> p \in Language(pattern)
  BY <1>4, <1>5, <1>6
<1> QED
  BY <1>7 DEF p

-----------------------------------------------------------------------------
(* The invariant.                                                          *)
RoutesInv == TableOK(routes) /\ default \subseteq Handlers /\ Cardinality(default) <= 1

LEMMA RoutesInitInv == Init => RoutesInv
<1> SUFFICES ASSUME Init PROVE RoutesInv
  OBVIOUS
<1>1. routes = <<>> /\ default = {} /\ DOMAIN <<>> = {}
  BY DEF Init
<1>2. Cardinality({}) = 0
  BY FS_EmptySet
<1> QED
  BY <1>1, <1>2 DEF RoutesInv, TableOK

(* A route takes the place k of a table with n routes: that of the old     *)
(* route with its key or the last; every other route is left alone.        *)
Placed(table, next, n, k, route) ==
  /\ DOMAIN table = 1 .. n /\ k \in 1 .. n + 1
  /\ DOMAIN next = (1 .. n) \cup {k}
  /\ next \in Seq([method : Methods, pattern : Patterns, handler : Handlers,
                   spec : {parse_route_spec(p) : p \in Patterns}])
  /\ next[k] = route
  /\ \A i \in (1 .. n) \ {k} : next[i] = table[i]
  /\ PositionsIn(table, route.method, route.pattern) = (1 .. n) \cap {k}

LEMMA AddHandler ==
  ASSUME RoutesInv, NEW m \in Methods, NEW p \in Patterns, NEW h \in Handlers, add_handler(m, p, h)
  PROVE  default' = default /\ \E n \in Nat, k \in Nat : Placed(routes, routes', n, k, Route(m, p, h))
<1> DEFINE Records == [method : Methods, pattern : Patterns, handler : Handlers,
                       spec : {parse_route_spec(q) : q \in Patterns}]
<1> DEFINE old == PositionsIn(routes, m, p)
<1> DEFINE new == Route(m, p, h)
<1>1. routes \in Seq(Records)
  BY DEF RoutesInv, TableOK
<1>2. new \in Records
  BY DEF Route
<1>0. new.method = m /\ new.pattern = p
  BY DEF Route
<1>3. /\ routes' = IF old = {} THEN Append(routes, new)
                   ELSE [i \in DOMAIN routes |-> IF i \in old THEN new ELSE routes[i]]
      /\ default' = default
  BY DEF add_handler, Positions, PositionsIn
<1>4. \A i \in old : i \in DOMAIN routes /\ old = {i}
  BY DEF RoutesInv, TableOK, PositionsIn
<1> HIDE DEF Records, old, new
<1>5. PICK n \in Nat : n = Len(routes) /\ DOMAIN routes = 1 .. n
  BY <1>1
<1>6. CASE old = {}
  <2>1. routes' = Append(routes, new)
    BY <1>3, <1>6
  <2>2. /\ routes' \in Seq(Records) /\ DOMAIN routes' = 1 .. n + 1 /\ routes'[n + 1] = new
        /\ \A i \in 1 .. n : routes'[i] = routes[i]
    BY <1>1, <1>2, <1>5, <2>1
  <2>3. 1 .. n + 1 = (1 .. n) \cup {n + 1} /\ (1 .. n) \cap {n + 1} = {} /\ n + 1 \in Nat /\ n + 1 \in 1 .. n + 1
    BY <1>5
  <2> QED
    BY <1>0, <1>3, <1>5, <1>6, <2>2, <2>3 DEF Records, old, Placed, new
<1>7. CASE old # {}
  <2>1. PICK k \in 1 .. n : old = {k}
    BY <1>4, <1>5, <1>7
  <2>2. routes' = [i \in 1 .. n |-> IF i \in old THEN new ELSE routes[i]]
    BY <1>3, <1>5, <1>7
  <2>3. \A i \in 1 .. n : routes[i] \in Records
    BY <1>1, <1>5
  <2>4. routes' \in Seq(Records)
    <3>1. routes' \in [1 .. n -> Records]
      BY <1>2, <2>2, <2>3
    <3> QED
      BY <3>1
  <2>5. routes'[k] = new /\ \A i \in (1 .. n) \ {k} : routes'[i] = routes[i]
    BY <2>1, <2>2
  <2>6. DOMAIN routes' = (1 .. n) \cup {k} /\ (1 .. n) \cap {k} = {k} /\ k \in 1 .. n + 1 /\ k \in Nat
    BY <2>1, <2>2
  <2>7. /\ DOMAIN routes = 1 .. n /\ routes' \in Seq(Records) /\ routes'[k] = new
        /\ old = (1 .. n) \cap {k} /\ default' = default
    BY <1>3, <1>5, <2>1, <2>4, <2>5, <2>6
  <2> QED
    BY <1>0, <1>5, <2>5, <2>6, <2>7 DEF Records, old, Placed, new
<1> QED
  BY <1>6, <1>7

LEMMA RoutesNextInv == RoutesInv /\ [Next]_vars => RoutesInv'
<1> SUFFICES ASSUME RoutesInv, [Next]_vars PROVE RoutesInv'
  OBVIOUS
<1>1. ASSUME NEW m \in Methods, NEW p \in Patterns, NEW h \in Handlers, add_handler(m, p, h)
      PROVE  RoutesInv'
  <2>0. PICK n \in Nat, k \in Nat : Placed(routes, routes', n, k, Route(m, p, h))
    BY <1>1, AddHandler
  <2>9. Route(m, p, h).method = m /\ Route(m, p, h).pattern = p /\ Route(m, p, h).spec = parse_route_spec(p)
    BY DEF Route
  <2>1. /\ DOMAIN routes = 1 .. n /\ k \in 1 .. n + 1
        /\ DOMAIN routes' = (1 .. n) \cup {k}
        /\ routes' \in Seq([method : Methods, pattern : Patterns, handler : Handlers,
                            spec : {parse_route_spec(q) : q \in Patterns}])
        /\ routes'[k] = Route(m, p, h)
        /\ \A i \in (1 .. n) \ {k} : routes'[i] = routes[i]
        /\ PositionsIn(routes, m, p) = (1 .. n) \cap {k}
        /\ default' = default
    BY <1>1, <2>0, <2>9, AddHandler DEF Placed
  <2>2. routes'[k].method = m /\ routes'[k].pattern = p /\ routes'[k].spec = parse_route_spec(p)
    BY <2>1, <2>9
  <2>3. ASSUME NEW i \in (1 .. n) \ {k}
        PROVE  /\ routes'[i].spec = parse_route_spec(routes'[i].pattern)
               /\ PositionsIn(routes', routes'[i].method, routes'[i].pattern) = {i}
    <3>1. /\ routes'[i] = routes[i] /\ routes[i].spec = parse_route_spec(routes[i].pattern)
          /\ PositionsIn(routes, routes[i].method, routes[i].pattern) = {i}
      BY <2>1 DEF RoutesInv, TableOK
    <3>2. ~(routes[i].method = m /\ routes[i].pattern = p)
      BY <2>1 DEF PositionsIn
    <3>3. \A j \in (1 .. n) \ {k} : routes[j].method = routes[i].method /\ routes[j].pattern = routes[i].pattern => j = i
      BY <2>1, <3>1 DEF PositionsIn
    <3> QED
      BY <2>1, <2>2, <3>1, <3>2, <3>3 DEF PositionsIn
  <2>4. PositionsIn(routes', m, p) = {k}
    <3>1. \A i \in (1 .. n) \ {k} : ~(routes[i].method = m /\ routes[i].pattern = p)
      BY <2>1 DEF PositionsIn
    <3> QED
      BY <2>1, <2>2, <3>1 DEF PositionsIn
  <2>5. TableOK(routes')
    BY <2>1, <2>2, <2>3, <2>4 DEF TableOK
  <2> QED
    BY <2>1, <2>5 DEF RoutesInv
<1>2. ASSUME NEW h \in Handlers, set_default_handler(h)
      PROVE  RoutesInv'
  <2>1. routes' = routes /\ default' = {h}
    BY <1>2 DEF set_default_handler
  <2>2. Cardinality({h}) = 1
    BY FS_Singleton
  <2> QED
    BY <2>1, <2>2 DEF RoutesInv
<1>3. CASE UNCHANGED vars
  BY <1>3 DEF RoutesInv, vars
<1> QED
  BY <1>1, <1>2, <1>3 DEF Next

(* In every reachable state the table is a dict: each key has one route,   *)
(* with the parameters of its own pattern.                                 *)
THEOREM RoutesInvariance == Spec => []RoutesInv
BY RoutesInitInv, RoutesNextInv, PTL DEF Spec

(* The invariant gives what the run checks of the table. *)
THEOREM TableIsADict == Spec => []RoutesTypeOK
<1>1. RoutesInv => RoutesTypeOK
  <2> SUFFICES ASSUME RoutesInv PROVE RoutesTypeOK
    OBVIOUS
  <2> DEFINE Records == [method : Methods, pattern : Patterns, handler : Handlers,
                         spec : {parse_route_spec(p) : p \in Patterns}]
  <2>1. routes \in Seq(Records)
    BY DEF RoutesInv, TableOK
  <2>2. \A i \in DOMAIN routes :
          /\ routes[i].spec = parse_route_spec(routes[i].pattern)
          /\ Positions(routes[i].method, routes[i].pattern) = {i}
    BY DEF RoutesInv, TableOK, Positions, PositionsIn
  <2>3. \A i \in DOMAIN routes : routes[i] \in Records
    <3> HIDE DEF Records
    <3> QED
      BY <2>1
  <2> QED
    BY <2>2, <2>3 DEF RoutesInv, RoutesTypeOK
<1> QED
  BY <1>1, RoutesInvariance, PTL

(* The operators of Routes are those of the table that routes is. *)
LEMMA LookupIn ==
  ASSUME NEW m, NEW p
  PROVE  /\ Positions(m, p) = PositionsIn(routes, m, p)
         /\ Matching(m, p) = MatchingIn(routes, m, p)
         /\ find(m, p) = FindIn(routes, m, p)
         /\ answer(m, p) = AnswerIn(routes, default, m, p)
<1>1. Positions(m, p) = PositionsIn(routes, m, p) /\ Matching(m, p) = MatchingIn(routes, m, p)
  BY DEF Positions, PositionsIn, Matching, MatchingIn
<1>2. find(m, p) = FindIn(routes, m, p)
  BY <1>1 DEF find, FindIn
<1>3. answer(m, p) = AnswerIn(routes, default, m, p)
  BY <1>2 DEF answer, AnswerIn, Call
<1> QED
  BY <1>1, <1>2, <1>3

(* A route registered for the very path of a request is not shadowed by a  *)
(* pattern registered before it; among patterns the first one wins: for    *)
(* every table that can come about.                                        *)
THEOREM ExactRoutesFirst == Spec => []Precedence
<1>1. RoutesInv => Precedence
  <2> SUFFICES ASSUME RoutesInv, NEW m \in Methods, NEW p \in Paths,
                      NEW i \in find(m, p), NEW j \in Matching(m, p)
               PROVE  j = i \/ (routes[j].pattern # p /\ (i < j \/ routes[i].pattern = p))
    BY DEF Precedence
  <2>1. PICK n \in Nat : DOMAIN routes = 1 .. n
    BY DEF RoutesInv, TableOK
  <2>2. i \in 1 .. n /\ j \in 1 .. n
    BY <2>1 DEF find, Positions, Matching
  <2>3. CASE Positions(m, p) # {}
    <3>1. i \in Positions(m, p)
      BY <2>3 DEF find
    <3>2. Positions(m, p) = {i} /\ routes[i].pattern = p
      BY <3>1 DEF RoutesInv, TableOK, Positions, PositionsIn
    <3>3. routes[j].pattern = p => j \in Positions(m, p)
      BY DEF Positions, Matching
    <3> QED
      BY <3>2, <3>3
  <2>4. CASE Positions(m, p) = {}
    <3>1. routes[j].pattern # p
      BY <2>4 DEF Positions, Matching
    <3>2. i <= j
      BY <2>4 DEF find
    <3> QED
      BY <2>2, <3>1, <3>2
  <2> QED
    BY <2>3, <2>4
<1> QED
  BY <1>1, RoutesInvariance, PTL

(* A request is refused with 404 only if no pattern of its method stands   *)
(* for its path and there is no default handler.                           *)
THEOREM NotFoundOnlyWithoutRoute == Spec => []NotFoundIsRight
<1>1. RoutesInv => NotFoundIsRight
  <2> SUFFICES ASSUME RoutesInv, NEW m \in Methods, NEW p \in Paths
               PROVE  answer(m, p).status = 404
                        <=> default = {}
                            /\ \A i \in DOMAIN routes :
                                 routes[i].method = m => Parts(p) \notin Language(routes[i].pattern)
    BY DEF NotFoundIsRight
  <2>1. answer(m, p).status = 404 <=> default = {} /\ MatchingIn(routes, m, p) = {}
    BY LookupIn, RefusedWithout DEF RoutesInv
  <2>2. \A i \in DOMAIN routes : routes[i].pattern \in Patterns
    BY PatternsOfTable DEF RoutesInv
  <2>3. \A i \in DOMAIN routes :
          match_pattern(routes[i].pattern, p) <=> Parts(p) \in Language(routes[i].pattern)
    BY <2>2, MatchIsLanguage
  <2> QED
    BY <2>1, <2>3 DEF MatchingIn
<1> QED
  BY <1>1, RoutesInvariance, PTL

(* The parameters are those that the specs declare. *)
Fits(params, spec) ==
  /\ DOMAIN params = {spec[k].name : k \in DOMAIN spec}
  /\ \A n \in DOMAIN params : \E k \in DOMAIN spec : spec[k] = [name |-> n, type |-> params[n][1]]

(* What a handler is called with are the parameters of the pattern that    *)
(* the path matches, each with its declared type.                          *)
LEMMA CalledWithItsOwn ==
  ASSUME NEW pattern \in Patterns, NEW path \in Paths, match_pattern(pattern, path)
  PROVE  Fits(extract_params(pattern, path), parse_route_spec(pattern))
<1> DEFINE pp == Parts(pattern)
<1> DEFINE params == extract_params(pattern, path)
<1> DEFINE spec == parse_route_spec(pattern)
<1> DEFINE slots == Slots(pattern, path)
<1> DEFINE last(n) == CHOOSE i \in slots : NameOf[pp[i]] = n /\ \A j \in slots : NameOf[pp[j]] = n => j <= i
<1>1. params = [n \in {NameOf[pp[i]] : i \in slots} |-> <<TypeOf[pp[last(n)]], Parts(path)[last(n)]>>]
  BY DEF extract_params
<1>2. PICK k \in Nat : DOMAIN pp = 1 .. k
  <2> DEFINE own == ToSet(pattern) \ {""}
  <2>1. pp \in Seq(own)
    BY PartsOfPath
  <2> HIDE DEF pp, own
  <2>2. Len(pp) \in Nat /\ DOMAIN pp = 1 .. Len(pp)
    BY <2>1
  <2> QED
    BY <2>2
<1>3. slots = {i \in 1 .. k : pp[i] \in Braced}
  <2> DEFINE own == ToSet(pattern) \ {""}
  <2> DEFINE others == ToSet(path) \ {""}
  <2> DEFINE p == Parts(path)
  <2>1. pp \in Seq(own) /\ p \in Seq(others) /\ Len(pp) = Len(p)
    BY PartsOfPath DEF match_pattern
  <2>2. slots = {i \in DOMAIN pp \cap DOMAIN p : pp[i] \in Braced}
    BY DEF Slots
  <2> HIDE DEF pp, p, own, others, slots
  <2>3. DOMAIN p = DOMAIN pp
    BY <2>1
  <2> QED
    BY <1>2, <2>2, <2>3
<1>4. {spec[i] : i \in DOMAIN spec} = {parse_param_spec(s) : s \in ToSet(pp) \cap Braced}
  BY SpecOfPattern
<1>5. {pp[i] : i \in slots} = ToSet(pp) \cap Braced
  <2> HIDE DEF pp, slots
  <2> QED
    BY <1>2, <1>3 DEF ToSet
<1> HIDE DEF pp, params, spec, slots, last
<1>6. {spec[i] : i \in DOMAIN spec} = {parse_param_spec(pp[i]) : i \in slots}
  <2>1. {parse_param_spec(pp[i]) : i \in slots} = {parse_param_spec(s) : s \in {pp[i] : i \in slots}}
    OBVIOUS
  <2> QED
    BY <1>4, <1>5, <2>1
<1>7. DOMAIN params = {spec[i].name : i \in DOMAIN spec}
  <2>1. {spec[i].name : i \in DOMAIN spec} = {r.name : r \in {spec[i] : i \in DOMAIN spec}}
    OBVIOUS
  <2>2. {r.name : r \in {parse_param_spec(pp[i]) : i \in slots}} = {parse_param_spec(pp[i]).name : i \in slots}
    OBVIOUS
  <2>3. \A i \in slots : parse_param_spec(pp[i]).name = NameOf[pp[i]]
    BY DEF parse_param_spec
  <2>4. {parse_param_spec(pp[i]).name : i \in slots} = {NameOf[pp[i]] : i \in slots}
    BY <2>3
  <2>5. DOMAIN params = {NameOf[pp[i]] : i \in slots}
    BY <1>1
  <2> QED
    BY <1>6, <2>1, <2>2, <2>4, <2>5
<1>8. ASSUME NEW n \in DOMAIN params
      PROVE  \E i \in DOMAIN spec : spec[i] = [name |-> n, type |-> params[n][1]]
  <2> DEFINE named == {i \in slots : NameOf[pp[i]] = n}
  <2>1. named \in SUBSET (1 .. k) /\ named # {}
    BY <1>1, <1>3
  <2>2. Max(named) \in named /\ \A j \in named : Max(named) >= j
    BY <2>1, LastPosition
  <2>3. \A i, j \in named : i >= j <=> j <= i
    BY <2>1
  <2>4. \E i \in slots : NameOf[pp[i]] = n /\ \A j \in slots : NameOf[pp[j]] = n => j <= i
    BY <2>2, <2>3
  <2>5. last(n) \in slots /\ NameOf[pp[last(n)]] = n
    BY <2>4 DEF last
  <2>6. params[n][1] = TypeOf[pp[last(n)]]
    BY <1>1
  <2>7. parse_param_spec(pp[last(n)]) = [name |-> n, type |-> params[n][1]]
    BY <2>5, <2>6 DEF parse_param_spec
  <2>8. parse_param_spec(pp[last(n)]) \in {spec[i] : i \in DOMAIN spec}
    BY <1>6, <2>5
  <2> QED
    BY <2>7, <2>8
<1> QED
  BY <1>7, <1>8 DEF params, spec, Fits

(* A handler is called with the parameters of its own route, no more and   *)
(* no fewer, and each one is of the type that the route declares for it.   *)
THEOREM HandlersGetTheirParams == Spec => []ParamsFit
<1>1. RoutesInv => ParamsFit
  <2> SUFFICES ASSUME RoutesInv, NEW m \in Methods, NEW p \in Paths, NEW i \in find(m, p),
                      answer(m, p).status = 200
               PROVE  LET spec == routes[i].spec  called == answer(m, p) IN
                        /\ DOMAIN called.params = {spec[k].name : k \in DOMAIN spec}
                        /\ \A n \in DOMAIN called.params :
                             \E k \in DOMAIN spec : spec[k] = [name |-> n, type |-> called.params[n][1]]
    BY DEF ParamsFit
  <2>1. i \in MatchingIn(routes, m, p) /\ FindIn(routes, m, p) = {i}
    <3>1. i \in FindIn(routes, m, p) /\ TableOK(routes)
      BY LookupIn DEF RoutesInv
    <3> QED
      BY <3>1, FindsOne
  <2>5. i \in DOMAIN routes /\ routes[i].pattern \in Patterns
    BY <2>1, PatternsOfTable DEF RoutesInv, MatchingIn
  <2>2. routes[i].pattern \in Patterns /\ routes[i].spec = parse_route_spec(routes[i].pattern)
        /\ match_pattern(routes[i].pattern, p)
    BY <2>1, <2>5 DEF RoutesInv, TableOK, MatchingIn
  <2>3. answer(m, p) = Call(routes[i].handler, routes[i].pattern, p)
    <3>1. AnswerIn(routes, default, m, p) = Call(routes[i].handler, routes[i].pattern, p)
      BY <2>1, AnswerOfOne
    <3>2. answer(m, p) = AnswerIn(routes, default, m, p)
      BY LookupIn
    <3> QED
      BY <2>1, <3>1, <3>2
  <2>4. answer(m, p).params = extract_params(routes[i].pattern, p)
    BY <2>3 DEF Call
  <2>6. Fits(answer(m, p).params, routes[i].spec)
    BY <2>2, <2>4, CalledWithItsOwn
  <2> QED
    BY <2>6 DEF Fits
<1> QED
  BY <1>1, RoutesInvariance, PTL

(* What a route that is placed in the table changes: nothing for a request *)
(* that its pattern does not stand for.                                    *)
LEMMA PlacedElsewhere ==
  ASSUME NEW table, TableOK(table), NEW next, NEW n \in Nat, NEW k \in Nat, NEW route,
         Placed(table, next, n, k, route), NEW m, NEW p, NEW handlers
  PROVE  /\ ~(route.method = m /\ match_pattern(route.pattern, p)) =>
              AnswerIn(next, handlers, m, p) = AnswerIn(table, handlers, m, p)
         /\ MatchingIn(table, m, p) \subseteq MatchingIn(next, m, p)
<1>1. \A i \in (1 .. n) \ {k} : next[i] = table[i]
  BY DEF Placed
<1>2. DOMAIN table = 1 .. n /\ DOMAIN next = (1 .. n) \cup {k} /\ next[k] = route
  BY DEF Placed
<1>3. k \in 1 .. n => table[k].method = route.method /\ table[k].pattern = route.pattern
  BY DEF Placed, PositionsIn
<1>4. MatchingIn(table, m, p) \subseteq MatchingIn(next, m, p)
  BY <1>1, <1>2, <1>3 DEF MatchingIn
<1>5. ASSUME ~(route.method = m /\ match_pattern(route.pattern, p))
      PROVE  AnswerIn(next, handlers, m, p) = AnswerIn(table, handlers, m, p)
  <2>1. MatchingIn(next, m, p) = MatchingIn(table, m, p)
    BY <1>1, <1>2, <1>3, <1>5 DEF MatchingIn
  <2>2. ~(route.method = m /\ route.pattern = p)
    BY <1>5, MatchesItself
  <2>3. PositionsIn(next, m, p) = PositionsIn(table, m, p)
    BY <1>1, <1>2, <1>3, <2>2 DEF PositionsIn
  <2>4. FindIn(next, m, p) = FindIn(table, m, p)
    BY <2>1, <2>3 DEF FindIn
  <2>5. CASE FindIn(table, m, p) = {}
    <3>1. CASE handlers = {}
      <4> DEFINE none == [status |-> 404, handlers |-> {}, params |-> <<>>]
      <4>1. AnswerIn(table, handlers, m, p) = none
        BY <2>5, <3>1, AnswerOfNone
      <4>2. AnswerIn(next, handlers, m, p) = none
        BY <2>4, <2>5, <3>1, AnswerOfNone
      <4> QED
        BY <4>1, <4>2
    <3>2. CASE handlers # {}
      <4>1. AnswerIn(table, handlers, m, p) = Call(CHOOSE h \in handlers : TRUE, p, p)
        BY <2>5, <3>2, AnswerOfNone
      <4>2. AnswerIn(next, handlers, m, p) = Call(CHOOSE h \in handlers : TRUE, p, p)
        BY <2>4, <2>5, <3>2, AnswerOfNone
      <4> QED
        BY <4>1, <4>2
    <3> QED
      BY <3>1, <3>2
  <2>6. ASSUME NEW i \in MatchingIn(table, m, p), FindIn(table, m, p) = {i}
        PROVE  AnswerIn(next, handlers, m, p) = AnswerIn(table, handlers, m, p)
    <3>1. i \in 1 .. n /\ i # k
      BY <1>2, <1>3, <1>5 DEF MatchingIn
    <3>2. next[i] = table[i]
      BY <1>1, <3>1
    <3>3. AnswerIn(table, handlers, m, p) = Call(table[i].handler, table[i].pattern, p)
      BY <2>6, AnswerOfOne
    <3>4. AnswerIn(next, handlers, m, p) = Call(next[i].handler, next[i].pattern, p)
      BY <2>4, <2>6, AnswerOfOne
    <3> QED
      BY <3>2, <3>3, <3>4
  <2> QED
    BY <2>5, <2>6, FindsOne
<1> QED
  BY <1>4, <1>5

(* A request that a route of the table answered stays with its pattern     *)
(* when a route is placed in the table, or goes to that one if it is new.  *)
LEMMA PlacedKeeps ==
  ASSUME NEW table, TableOK(table), NEW next, NEW n \in Nat, NEW k \in Nat, NEW route,
         Placed(table, next, n, k, route), NEW m, NEW p,
         NEW i \in FindIn(table, m, p), NEW j \in FindIn(next, m, p)
  PROVE  next[j].pattern = table[i].pattern \/ PositionsIn(table, m, next[j].pattern) = {}
<1>1. \A l \in (1 .. n) \ {k} : next[l] = table[l]
  BY DEF Placed
<1>2. DOMAIN table = 1 .. n /\ DOMAIN next = (1 .. n) \cup {k} /\ next[k] = route
  BY DEF Placed
<1>3. k \in 1 .. n => table[k].method = route.method /\ table[k].pattern = route.pattern
  BY DEF Placed, PositionsIn
<1>4. \A l \in 1 .. n : next[l].method = table[l].method /\ next[l].pattern = table[l].pattern
  BY <1>1, <1>2, <1>3
<1>5. i \in 1 .. n /\ j \in DOMAIN next /\ next[j].method = m
  BY <1>2 DEF FindIn, PositionsIn, MatchingIn
<1>6. CASE j \notin 1 .. n
  <2>1. j = k /\ PositionsIn(table, route.method, route.pattern) = {}
    BY <1>2, <1>5, <1>6 DEF Placed
  <2> QED
    BY <1>2, <1>5, <2>1
<1>7. CASE j \in 1 .. n
  <2>1. PositionsIn(table, m, p) \subseteq PositionsIn(next, m, p)
        /\ MatchingIn(table, m, p) \subseteq MatchingIn(next, m, p)
    BY <1>2, <1>4 DEF PositionsIn, MatchingIn
  <2>2. CASE PositionsIn(next, m, p) # {}
    <3>1. j \in PositionsIn(next, m, p)
      BY <2>2 DEF FindIn
    <3>2. j \in PositionsIn(table, m, p) /\ next[j].pattern = p
      BY <1>2, <1>4, <1>7, <3>1 DEF PositionsIn
    <3>3. i \in PositionsIn(table, m, p)
      BY <3>2 DEF FindIn
    <3> QED
      BY <3>2, <3>3 DEF PositionsIn
  <2>3. CASE PositionsIn(next, m, p) = {}
    <3>1. PositionsIn(table, m, p) = {}
      BY <2>1, <2>3
    <3>2. i \in MatchingIn(table, m, p) /\ \A l \in MatchingIn(table, m, p) : i <= l
      BY <3>1 DEF FindIn
    <3>3. j \in MatchingIn(next, m, p) /\ \A l \in MatchingIn(next, m, p) : j <= l
      BY <2>3 DEF FindIn
    <3>4. j \in MatchingIn(table, m, p)
      BY <1>2, <1>4, <1>7, <3>3 DEF MatchingIn
    <3>5. i <= j /\ j <= i
      BY <2>1, <3>2, <3>3, <3>4
    <3>6. i = j
      BY <1>5, <1>7, <3>5
    <3> QED
      BY <1>4, <1>7, <3>6
  <2> QED
    BY <2>2, <2>3
<1> QED
  BY <1>6, <1>7

(* Registering a route changes the answer only to requests that its        *)
(* pattern stands for, no request that had a handler loses it to 404, and  *)
(* none goes over from one old route to another.                           *)
THEOREM RegistrationIsLocal == Spec => RegistersLocally
<1> DEFINE Local(m, p) ==
      /\ answer(m, p)' # answer(m, p) =>
           \/ default' # default
           \/ \E i \in DOMAIN routes' :
                /\ i \notin DOMAIN routes \/ routes'[i] # routes[i]
                /\ routes'[i].method = m /\ Parts(p) \in Language(routes'[i].pattern)
      /\ answer(m, p)'.status = 404 => answer(m, p).status = 404
      /\ \A i \in find(m, p), j \in find(m, p)' :
           routes'[j].pattern = routes[i].pattern \/ Positions(m, routes'[j].pattern) = {}
<1>1. ASSUME NEW m, NEW p
      PROVE  answer(m, p) = AnswerIn(routes, default, m, p)
  BY LookupIn
<1>2. ASSUME NEW m, NEW p
      PROVE  answer(m, p)' = AnswerIn(routes', default', m, p) /\ find(m, p)' = FindIn(routes', m, p)
  <2>1. Positions(m, p)' = PositionsIn(routes', m, p) /\ Matching(m, p)' = MatchingIn(routes', m, p)
    BY DEF Positions, PositionsIn, Matching, MatchingIn
  <2>2. find(m, p)' = FindIn(routes', m, p)
    BY <2>1 DEF find, FindIn
  <2> QED
    BY <2>2 DEF answer, AnswerIn, Call
<1>3. ASSUME RoutesInv, RoutesInv', [Next]_vars, NEW m \in Methods, NEW p \in Paths
      PROVE  Local(m, p)
  <2>1. ASSUME NEW m0 \in Methods, NEW p0 \in Patterns, NEW h \in Handlers, add_handler(m0, p0, h)
        PROVE  Local(m, p)
    <3>1. PICK n \in Nat, k \in Nat : Placed(routes, routes', n, k, Route(m0, p0, h))
      BY <1>3, <2>1, AddHandler
    <3>2. Route(m0, p0, h).method = m0 /\ Route(m0, p0, h).pattern = p0
      BY DEF Route
    <3>3. TableOK(routes) /\ TableOK(routes') /\ default' = default
      BY <1>3, <2>1, AddHandler DEF RoutesInv
    <3>4. /\ ~(m0 = m /\ match_pattern(p0, p)) =>
               AnswerIn(routes', default, m, p) = AnswerIn(routes, default, m, p)
          /\ MatchingIn(routes, m, p) \subseteq MatchingIn(routes', m, p)
      BY <3>1, <3>2, <3>3, PlacedElsewhere
    <3>5. answer(m, p)'.status = 404 => answer(m, p).status = 404
      <4>1. AnswerIn(routes, default, m, p).status = 404 <=> default = {} /\ MatchingIn(routes, m, p) = {}
        BY <3>3, RefusedWithout
      <4>2. AnswerIn(routes', default, m, p).status = 404 <=> default = {} /\ MatchingIn(routes', m, p) = {}
        BY <3>3, RefusedWithout
      <4> QED
        BY <1>1, <1>2, <3>3, <3>4, <4>1, <4>2
    <3>6. ASSUME answer(m, p)' # answer(m, p)
          PROVE  \E i \in DOMAIN routes' :
                   /\ i \notin DOMAIN routes \/ routes'[i] # routes[i]
                   /\ routes'[i].method = m /\ Parts(p) \in Language(routes'[i].pattern)
      <4>1. m0 = m /\ match_pattern(p0, p)
        BY <1>1, <1>2, <3>3, <3>4, <3>6
      <4>2. Parts(p) \in Language(p0)
        BY <4>1, MatchIsLanguage
      <4>3. /\ DOMAIN routes = 1 .. n /\ DOMAIN routes' = (1 .. n) \cup {k}
            /\ routes'[k] = Route(m0, p0, h) /\ \A i \in (1 .. n) \ {k} : routes'[i] = routes[i]
        BY <3>1 DEF Placed
      <4>4. ~(k \in DOMAIN routes /\ routes'[k] = routes[k])
        <5> SUFFICES ASSUME k \in DOMAIN routes, routes'[k] = routes[k]
                     PROVE  FALSE
          OBVIOUS
        <5>1. DOMAIN routes' = DOMAIN routes /\ \A i \in DOMAIN routes : routes'[i] = routes[i]
          BY <4>3
        <5>2. routes' = routes
          <6>1. routes = [i \in DOMAIN routes |-> routes[i]]
            BY <3>3 DEF TableOK
          <6>2. routes' = [i \in DOMAIN routes' |-> routes'[i]]
            BY <3>3 DEF TableOK
          <6> QED
            BY <5>1, <6>1, <6>2
        <5> QED
          BY <1>1, <1>2, <3>3, <3>6, <5>2
      <4> QED
        BY <3>2, <4>1, <4>2, <4>3, <4>4
    <3>7. ASSUME NEW i \in find(m, p), NEW j \in find(m, p)'
          PROVE  routes'[j].pattern = routes[i].pattern \/ Positions(m, routes'[j].pattern) = {}
      <4>1. i \in FindIn(routes, m, p) /\ j \in FindIn(routes', m, p)
        BY <1>2, <3>7, LookupIn
      <4>2. Positions(m, routes'[j].pattern) = PositionsIn(routes, m, routes'[j].pattern)
        BY DEF Positions, PositionsIn
      <4> QED
        BY <3>1, <3>3, <4>1, <4>2, PlacedKeeps
    <3> QED
      BY <3>5, <3>6, <3>7
  <2>2. ASSUME NEW h \in Handlers, set_default_handler(h)
        PROVE  Local(m, p)
    <3>1. routes' = routes /\ default' = {h} /\ TableOK(routes)
      BY <1>3, <2>2 DEF set_default_handler, RoutesInv
    <3>2. answer(m, p)'.status # 404
      <4>1. AnswerIn(routes, {h}, m, p).status = 404 <=> {h} = {} /\ MatchingIn(routes, m, p) = {}
        BY <3>1, RefusedWithout
      <4> QED
        BY <1>2, <3>1, <4>1
    <3>3. default' = default => answer(m, p)' = answer(m, p)
      BY <1>1, <1>2, <3>1
    <3>4. \A i \in find(m, p), j \in find(m, p)' : routes'[j].pattern = routes[i].pattern
      BY <1>2, <3>1, LookupIn, FindsOne
    <3> QED
      BY <3>2, <3>3, <3>4
  <2>3. CASE UNCHANGED vars
    <3>1. routes' = routes /\ default' = default
      BY <2>3 DEF vars
    <3>2. answer(m, p)' = answer(m, p)
      BY <1>1, <1>2, <3>1
    <3>3. \A i \in find(m, p), j \in find(m, p)' : routes'[j].pattern = routes[i].pattern
      BY <1>2, <1>3, <3>1, LookupIn, FindsOne DEF RoutesInv
    <3> QED
      BY <3>2, <3>3
  <2> QED
    BY <1>3, <2>1, <2>2, <2>3 DEF Next
<1>4. RoutesInv /\ RoutesInv' /\ [Next]_vars
        => [\A m \in Methods, p \in Paths :
              /\ answer(m, p)' # answer(m, p) =>
                   \/ default' # default
                   \/ \E i \in DOMAIN routes' :
                        /\ i \notin DOMAIN routes \/ routes'[i] # routes[i]
                        /\ routes'[i].method = m /\ Parts(p) \in Language(routes'[i].pattern)
              /\ answer(m, p)'.status = 404 => answer(m, p).status = 404
              /\ \A i \in find(m, p), j \in find(m, p)' :
                   routes'[j].pattern = routes[i].pattern \/ Positions(m, routes'[j].pattern) = {}]_vars
  BY <1>3
<1> QED
  BY <1>4, RoutesInvariance, PTL DEF Spec, RegistersLocally
=============================================================================
