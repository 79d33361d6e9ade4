------------------------------- MODULE Routing -------------------------------
(***************************************************************************)
(* The route tree of one router (router/route.go): Handle and Switch build *)
(* it, FindRequestedEndPoint walks it.                                     *)
(*                                                                         *)
(* A node (a SunnyRoute) is named by the edges that lead to it, so the     *)
(* tree is a prefix-closed set of sequences of edges.  An edge is          *)
(* <<kind, key>>; the kinds are the five tables of a SunnyRoute.  An end   *)
(* point is <<node, soft>>: the node's softend or its hardend.             *)
(*                                                                         *)
(* An element of a requested path is a pair <<base, extension>>.           *)
(***************************************************************************)
EXTENDS Naturals, Sequences, FiniteSets

CONSTANTS
    Patterns,    \* the paths given to Handle, as sequences of pattern elements,
                 \* paired with whether they end in a slash
    Prefixes,    \* the paths given to Switch
    Paths,       \* the requested paths, as sequences of elements
    Parses,      \* Parses[t]: the elements that parse as the typed variable t
    RegxMatches, \* RegxMatches[r]: the elements that regular expression r matches
    Methods,     \* the HTTP methods of a request: "GET", "HEAD" and others
    MaxHandles,  \* bound: how many handlers are registered
    MaxSwitch    \* bound: the length of a switch's path

ASSUME RoutingAssumption ==
    /\ MaxHandles \in Nat /\ MaxSwitch \in Nat
    /\ {"GET", "HEAD"} \subseteq Methods

Types == <<"int", "int64", "float", "float64">>   \* in the order they are tried

\* A pattern element; var is "" for a hard one, key is its text, the regular
\* expression with whether it was written with ^ and $, or nothing.
Element(kind, key, var, opt) == [kind |-> kind, key |-> key, var |-> var, opt |-> opt]

Elements == UNION ({{g[1][j] : j \in DOMAIN g[1]} : g \in Patterns} \cup {{P[j] : j \in DOMAIN P} : P \in Prefixes})

Empty == <<"", "">>
HasExt(x) == x[2] # ""
TrimExt(x) == <<x[1], "">>

\* All elements but hard ones have a variable, a nameless one "_".  A path that
\* does not end in a slash has no empty element at its end.
ASSUME PatternsAssumption ==
    /\ \A g \in Patterns :
          /\ g[1] \in Seq(Elements) /\ g[2] \in BOOLEAN
          /\ ~g[2] /\ g[1] # <<>> => g[1][Len(g[1])].key # Empty
    /\ Prefixes \subseteq Seq(Elements)
    /\ \A P \in Prefixes : P # <<>> => P[Len(P)].key # Empty
    /\ \A e \in Elements :
          /\ e.kind = "hard" <=> e.var = ""
          /\ e.kind = "hard" => e.key \in STRING \X STRING
    /\ Paths \subseteq Seq(STRING \X STRING)
    /\ \A p \in Paths : p # <<>> => p[Len(p)] # Empty

VARIABLES
    nodes,  \* the SunnyRoutes that exist
    ends,   \* the end points that exist, with their handlers and varnames
    switch, \* the SunnySwitch at hand: its route and varnames, and its pattern
    reg     \* the registrations made so far; handler h is the h-th one's

vars == <<nodes, ends, switch, reg>>

Init ==
    /\ nodes = {<<>>}
    /\ ends = [e \in {} |-> <<>>]
    /\ switch = [route |-> <<>>, names |-> <<>>, pattern |-> <<>>]
    /\ reg = <<>>

-----------------------------------------------------------------------------
(* Building.                                                               *)

\* A mutant: a regular expression is never found again.
EdgeChoicesAfresh(node, e) ==
    IF e.kind # "regx" THEN {<<e.kind, e.key>>}
    ELSE {<<"regx", <<e.key[1], k>>>> :
             k \in {j \in 1 .. MaxHandles :
                      /\ Append(node, <<"regx", <<e.key[1], j>>>>) \notin nodes
                      /\ j > 1 => Append(node, <<"regx", <<e.key[1], j - 1>>>>) \in nodes}}

\* The edge for pattern element e below node.  A regular expression is looked
\* for among those the node has by the text that was given, but is stored with
\* ^ and $ added: one written without them is never found, and added again.
EdgeChoices(node, e) ==
    LET has == {k \in 1 .. MaxHandles : Append(node, <<"regx", <<e.key[1], k>>>>) \in nodes}
    IN  IF e.kind # "regx" THEN {<<e.kind, e.key>>}
        ELSE {<<"regx", <<e.key[1], k>>>> :
                 k \in IF e.key[2] /\ has # {} THEN has ELSE {Cardinality(has) + 1}}

\* The edges that stand for pattern element e.
EdgesFor(e) ==
    IF e.kind = "regx" THEN {<<"regx", <<e.key[1], k>>>> : k \in 1 .. MaxHandles} ELSE {<<e.kind, e.key>>}

\* The ways down from base that BuildRoute takes for pattern P.
EdgePaths(base, P) ==
    {path \in [1 .. Len(P) -> UNION {EdgesFor(P[j]) : j \in DOMAIN P}] :
        \A j \in DOMAIN P : path[j] \in EdgeChoices(base \o SubSeq(path, 1, j - 1), P[j])}

IsVariable(e) == e.var # ""

\* How many of the first n elements of P are variables.
Count(P, n) == Cardinality({j \in 1 .. n : IsVariable(P[j])})

\* A mutant: the inner names come first.
VarNamesInnerFirst(P, n) ==
    [k \in 1 .. Count(P, n) |->
        P[CHOOSE j \in 1 .. n : IsVariable(P[j]) /\ Count(P, j) = Count(P, n) + 1 - k].var]

\* The variables among the first n elements of P, in their order.
VarNames(P, n) ==
    [k \in 1 .. Count(P, n) |-> P[CHOOSE j \in 1 .. n : IsVariable(P[j]) /\ Count(P, j) = k].var]

\* What BuildRoute returns: the nodes to be given the handler, with their names.
\* An optional variable adds the node it hangs from, under its own name too.
BuildRoute(base, P, path) ==
    {[route |-> base \o SubSeq(path, 1, j - 1), names |-> VarNames(P, j)] :
        j \in {k \in DOMAIN P : P[k].opt}}
    \cup {[route |-> base \o path, names |-> VarNames(P, Len(P))]}

\* The nodes after BuildRoute went down path from base.
Grown(base, path) == nodes \cup {base \o SubSeq(path, 1, j) : j \in 0 .. Len(path)}

\* The methods that a registration for ms sets; with none given, all but HEAD.
Covered(ms) == IF ms = {} THEN Methods \ {"HEAD"} ELSE ms

\* A mutant: the handlers of the other methods are dropped.
SetHandlerAlone(end, h, ms) ==
    [m \in Methods |-> IF m \in Covered(ms) THEN h ELSE 0]

SetHandler(end, h, ms) ==
    [m \in Methods |->
        IF m \in Covered(ms) THEN h
        ELSE IF end \in DOMAIN ends THEN ends[end].handlers[m] ELSE 0]

\* A mutant: the names of an earlier registration hide the new ones.
PrependVarNameKeeps(end, names) ==
    IF end \in DOMAIN ends THEN ends[end].varnames ELSE names

PrependVarName(end, names) ==
    names \o (IF end \in DOMAIN ends THEN ends[end].varnames ELSE <<>>)

\* The end points after handler h was set on every target, names prepended.
Registered(targets, soft, h, ms) ==
    LET new == {<<t.route, soft>> : t \in targets}
        namesAt(e) == (CHOOSE t \in targets : t.route = e[1]).names
    IN  [e \in DOMAIN ends \cup new |->
            IF e \in new THEN [handlers |-> SetHandler(e, h, ms),
                               varnames |-> PrependVarName(e, namesAt(e))]
                         ELSE ends[e]]

\* Handle on the root: soft when the path ends in a slash.
Handle(P, soft, ms) ==
    /\ Len(reg) < MaxHandles
    /\ \E path \in EdgePaths(<<>>, P) :
         /\ nodes' = Grown(<<>>, path)
         /\ ends' = Registered(BuildRoute(<<>>, P, path), soft, Len(reg) + 1, ms)
         /\ reg' = Append(reg, [pattern |-> P, own |-> 1, soft |-> soft,
                                methods |-> ms, path |-> path])
    /\ UNCHANGED switch

\* Switch on the root, and later on the switch it returned: BuildRoute's last
\* node, with the names so far.
Switch(P) ==
    /\ Len(switch.pattern) < MaxSwitch
    /\ \E path \in EdgePaths(switch.route, P) :
         /\ nodes' = Grown(switch.route, path)
         /\ switch' = [route   |-> switch.route \o path,
                       names   |-> switch.names \o VarNames(P, Len(P)),
                       pattern |-> switch.pattern \o P]
    /\ UNCHANGED <<ends, reg>>

\* Handle on the switch.  Its names are prepended to the end point that the
\* route's Handle returns, which is that of the whole path only.
SwitchHandle(P, soft) ==
    /\ switch.pattern # <<>> /\ Len(reg) < MaxHandles
    /\ \E path \in EdgePaths(switch.route, P) :
         LET whole == switch.route \o path
         IN  /\ nodes' = Grown(switch.route, path)
             /\ ends' = Registered({IF t.route = whole
                                      THEN [t EXCEPT !.names = switch.names \o @] ELSE t :
                                      t \in BuildRoute(switch.route, P, path)},
                                   soft, Len(reg) + 1, {})
             /\ reg' = Append(reg, [pattern |-> switch.pattern \o P,
                                    own |-> Len(switch.pattern) + 1, soft |-> soft,
                                    methods |-> {}, path |-> whole])
    /\ UNCHANGED switch

-----------------------------------------------------------------------------
(* Looking up.                                                             *)

\* strings.Split of a path: one empty element in front, one for a trailing slash.
Raw(p, slash) == <<Empty>> \o p \o (IF slash THEN <<Empty>> ELSE <<>>)

\* SplitPath drops one empty element at each end.
SplitPath(raw) ==
    LET tail == IF raw # <<>> /\ Head(raw) = Empty THEN Tail(raw) ELSE raw
    IN  IF tail # <<>> /\ tail[Len(tail)] = Empty THEN SubSeq(tail, 1, Len(tail) - 1) ELSE tail

\* The steps FindEndPoint may take from node on element x: the hard route, else
\* a regular expression that matches (whichever the map yields first), else the
\* first type that parses, else the softroute; none of them is ever undone.  The
\* extension is dropped from the last element, except for a hard route.
Branches(node, x, last) ==
    LET below(kind, key) == Append(node, <<kind, key>>)
        bare == IF last /\ HasExt(x) THEN TrimExt(x) ELSE x
        regx == {rk \in (DOMAIN RegxMatches) \X (1 .. MaxHandles) :
                   /\ below("regx", rk) \in nodes
                   /\ {x, bare} \cap RegxMatches[rk[1]] # {}}
        types == {t \in DOMAIN Types :
                    below(Types[t], <<>>) \in nodes /\ bare \in Parses[Types[t]]}
        first == CHOOSE t \in types : \A u \in types : t <= u
    IN  IF below("hard", x) \in nodes
          THEN {[node |-> below("hard", x), data |-> <<>>]}
        ELSE IF regx # {}
          THEN {[node |-> below("regx", rk),
                 data |-> <<IF bare \in RegxMatches[rk[1]] THEN bare ELSE x>>] : rk \in regx}
        ELSE IF types # {}
          THEN {[node |-> below(Types[first], <<>>), data |-> <<bare>>]}
        ELSE IF below("soft", <<>>) \in nodes
          THEN {[node |-> below("soft", <<>>), data |-> <<bare>>]}
        ELSE {}

\* One step of FindEndPoint; where it is stuck it stays.
Onward(w, p, k) ==
    LET next == IF w.used < k - 1 THEN {} ELSE Branches(w.node, p[k], k = Len(p))
    IN  IF next = {} THEN {w} ELSE {[node |-> b.node, data |-> w.data \o b.data, used |-> k] : b \in next}

\* Where FindEndPoint may be after k elements of p: at a node with the data it
\* captured, having consumed `used` elements.
Walks(p) ==
    LET at[k \in 0 .. Len(p)] ==
            IF k = 0 THEN {[node |-> <<>>, data |-> <<>>, used |-> 0]}
            ELSE UNION {Onward(w, p, k) : w \in at[k - 1]}
    IN  at

Walk(p) == Walks(p)[Len(p)]

\* A mutant: the hardend is taken although the path goes on.
EndOfAnywhere(w, p) ==
    IF <<w.node, FALSE>> \in DOMAIN ends THEN <<w.node, FALSE>> ELSE <<w.node, TRUE>>

\* The end point of a walk: at the end of the path the hardend if there is one,
\* otherwise the softend.
EndOf(w, p) ==
    IF w.used = Len(p) /\ <<w.node, FALSE>> \in DOMAIN ends THEN <<w.node, FALSE>>
    ELSE <<w.node, TRUE>>

\* Handlers(): a HEAD request falls back on the GET handler.
HandlerOf(end, m) ==
    IF end \notin DOMAIN ends THEN 0
    ELSE IF m = "HEAD" /\ ends[end].handlers[m] = 0 THEN ends[end].handlers["GET"]
    ELSE ends[end].handlers[m]

\* PData: the i-th captured element under the i-th name; a later one with the
\* same name wins, "_" is not stored.
PData(names, data) ==
    [n \in {names[k] : k \in DOMAIN data} \ {"_"} |->
        data[CHOOSE k \in DOMAIN data :
                names[k] = n /\ \A l \in DOMAIN data : names[l] = n => l <= k]]

\* The unmatched rest of the path, its last element without extension.
UPath(p, used) ==
    [k \in 1 .. Len(p) - used |->
        IF k = Len(p) - used THEN TrimExt(p[Len(p)]) ELSE p[used + k]]

\* GetRequestedEndPoint: not found, an index out of range, or the end point.
GetRequestedEndPoint(w, p, m) ==
    LET end == EndOf(w, p)
    IN  IF HandlerOf(end, m) = 0 THEN [found |-> "no"]
        ELSE IF Len(w.data) > Len(ends[end].varnames) THEN [found |-> "panic"]
        ELSE [found |-> "yes", handler |-> HandlerOf(end, m), end |-> end,
              pdata |-> PData(ends[end].varnames, w.data),
              upath |-> UPath(p, w.used),
              ext |-> IF p = <<>> THEN "" ELSE p[Len(p)][2]]

\* FindRequestedEndPoint: everything it may answer.
FindRequestedEndPoint(raw, m) ==
    LET p == SplitPath(raw)
    IN  {GetRequestedEndPoint(w, p, m) : w \in Walk(p)}

-----------------------------------------------------------------------------
Next ==
    \/ \E g \in Patterns, ms \in {{}, {"GET"}, Methods \ {"GET"}} : Handle(g[1], g[2], ms)
    \/ \E P \in Prefixes : Switch(P)
    \/ \E g \in Patterns : SwitchHandle(g[1], g[2])

Spec == Init /\ [][Next]_vars

-----------------------------------------------------------------------------
(* Properties.                                                             *)

\* The end points that registration q set.
EndsOf(q) ==
    {<<SubSeq(q.path, 1, j - 1), q.soft>> :
        j \in {k \in q.own .. Len(q.pattern) : q.pattern[k].opt}}
    \cup {<<q.path, q.soft>>}

\* The names it gave end point e are all the variables on the way: not so for an
\* optional variable below a switch that has variables of its own.
AllNamed(q, e) ==
    e[1] = q.path \/ \A j \in 1 .. q.own - 1 : q.pattern[j].var = ""

\* The registrations that set end point e.
RegsOf(e) == {q \in DOMAIN reg : e \in EndsOf(reg[q])}

\* The latest registration of end point e for method m, 0 if there is none.
LatestFor(e, m) ==
    LET for(n) == {q \in RegsOf(e) : n \in Covered(reg[q].methods)}
        those == IF m = "HEAD" /\ for(m) = {} THEN for("GET") ELSE for(m)
    IN  IF those = {} THEN 0 ELSE CHOOSE q \in those : \A r \in those : r <= q

\* The number of elements captured on the way to a node.
Captures(node) == Cardinality({j \in DOMAIN node : node[j][1] # "hard"})

\* GetRequestedEndPoint indexes varnames by the captured data (route.go:526-528).
\* Every end point has a name for each of them, so a lookup does not panic,
\* unless it was set through a switch with variables as an optional variable's
\* shorter route.
NamesCoverCaptures ==
    \A e \in DOMAIN ends :
        (\E q \in RegsOf(e) : AllNamed(reg[q], e)) => Len(ends[e].varnames) >= Captures(e[1])

\* Pattern element g accepts element x of a path; an extension is not looked at
\* in the last one.
Fits(g, x, last) ==
    LET bare == IF last THEN TrimExt(x) ELSE x
    IN  CASE g.kind = "hard" -> g.key = x
          [] g.kind = "soft" -> TRUE
          [] g.kind = "regx" -> {x, bare} \cap RegxMatches[g.key[1]] # {}
          [] OTHER -> bare \in Parses[g.kind]

\* The declarative meaning of a registration: it accepts path p with its first n
\* pattern elements, the others being left out from an optional one on; a path
\* that goes on needs a registration that ended in a slash.
Accepts(q, p, n) ==
    /\ n <= Len(q.pattern) /\ n <= Len(p)
    /\ n = Len(q.pattern) \/ (n + 1 >= q.own /\ q.pattern[n + 1].opt)
    /\ n = Len(p) \/ q.soft
    /\ \A j \in 1 .. n : Fits(q.pattern[j], p[j], j = Len(p))

\* Whatever is registered in whatever order, a handler is only given requests
\* whose path and method one of its registrations accepts, and the rest of the
\* path is handed over unchanged (README.md:103-106; route.go:304-379, 522-553).
ServedAsRegistered ==
    \A p \in Paths, slash \in BOOLEAN, m \in Methods :
        \A a \in FindRequestedEndPoint(Raw(p, slash), m) :
            a.found = "yes" =>
                LET q == reg[a.handler]
                IN  /\ m \in Covered(q.methods) \/ (m = "HEAD" /\ "GET" \in Covered(q.methods))
                    /\ \E n \in 0 .. Len(p) : Accepts(q, p, n) /\ a.upath = UPath(p, n)

AllHard(P) == \A j \in DOMAIN P : P[j].kind = "hard"
KeysOf(P) == [j \in DOMAIN P |-> P[j].key]

\* A path registered without variables is served by the latest registration made
\* for its end point and the method, whatever other routes with variables,
\* optional or not, were registered before or after it (route.go:328, 451-474).
HardPathServed ==
    \A q \in DOMAIN reg, m \in Methods :
        AllHard(reg[q].pattern) =>
            \A a \in FindRequestedEndPoint(Raw(KeysOf(reg[q].pattern), reg[q].soft), m) :
                LET e == <<reg[q].path, IF RegsOf(<<reg[q].path, FALSE>>) # {} THEN FALSE ELSE TRUE>>
                IN  IF LatestFor(e, m) = 0 THEN a.found = "no"
                    ELSE a.found = "yes" /\ a.end = e /\ a.handler = LatestFor(e, m)

\* The variables that the handler of answer a was registered with have the values
\* that the path has in their places.
VariablesAssigned(a, p) ==
    LET q == reg[a.handler]
        n == Len(a.end[1])
    IN  \A j \in 1 .. n :
          q.pattern[j].var \notin {"", "_"} =>
              /\ q.pattern[j].var \in DOMAIN a.pdata
              /\ a.pdata[q.pattern[j].var] \in {p[j], TrimExt(p[j])}

\* The registrations of end point e give it the same names, for all of the path,
\* and none of them twice.
NamesAgree(e) ==
    \A q, r \in RegsOf(e) :
        /\ AllNamed(reg[q], e)
        /\ \A j \in DOMAIN e[1] : reg[q].pattern[j].var = reg[r].pattern[j].var
        /\ \A j, k \in DOMAIN e[1] :
               reg[q].pattern[j].var = reg[q].pattern[k].var =>
                   j = k \/ reg[q].pattern[j].var \in {"", "_"}

\* A handler finds each of its path variables in PData, as long as all the
\* registrations of that end point name them alike; registering the path again,
\* for other methods or through a switch, does not disturb it (route.go:285-296,
\* 409-424, 62-66).
VariablesKeepTheirNames ==
    \A p \in Paths, m \in Methods :
        \A a \in FindRequestedEndPoint(Raw(p, FALSE), m) :
            (a.found = "yes" /\ NamesAgree(a.end)) => VariablesAssigned(a, p)

\* A request has one answer, whatever order the map of regular expressions is
\* walked in, as long as the expressions were written with ^ and $ and no two
\* of them match the same element, with or without its extension
\* (route.go:164-181, 320-342).
Anchored(P) == \A j \in DOMAIN P : P[j].kind = "regx" => P[j].key[2]

Bares(r) == {TrimExt(x) : x \in RegxMatches[r]}

OneAnswer ==
    (/\ \A q \in DOMAIN reg : Anchored(reg[q].pattern)
     /\ \A P \in Prefixes : Anchored(P)
     /\ \A r, s \in DOMAIN RegxMatches : r # s => Bares(r) \cap Bares(s) = {})
    => \A p \in Paths, m \in Methods :
           Cardinality(FindRequestedEndPoint(Raw(p, FALSE), m)) = 1

\* README.md:111 says "path values are stored in context.PData", and 67-75 shows a
\* handler reading its own variable from it: true of every handler, whichever
\* others share its path.
VariablesByName ==
    \A p \in Paths, m \in Methods :
        \A a \in FindRequestedEndPoint(Raw(p, FALSE), m) :
            a.found = "yes" => VariablesAssigned(a, p)

\* README.md:120-121 says "Extensions are ignored when matching path": a path that
\* is served is served with an extension as well.
ExtensionIgnored ==
    \A q \in DOMAIN reg :
        LET p == KeysOf(reg[q].pattern)
            withExt == [p EXCEPT ![Len(p)] = <<@[1], ".json">>]
        IN  (AllHard(reg[q].pattern) /\ p # <<>>) =>
              \A a \in FindRequestedEndPoint(Raw(p, FALSE), "GET"),
                 b \in FindRequestedEndPoint(Raw(withExt, FALSE), "GET") :
                  a.found = "yes" => b.found = "yes"
=============================================================================
