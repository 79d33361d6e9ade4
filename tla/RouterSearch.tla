---------------------------- MODULE RouterSearch ----------------------------
(***************************************************************************)
(* The search of the tree of routers (router/router.go) for the one that   *)
(* answers a request.  It hands one map, value, from router to router; its *)
(* "pathprefix" is the path that is still to be looked up and its "host"   *)
(* the labels of the host that are still unmatched.  Sub routers and       *)
(* matchers are visited in the random order of a Go map.                   *)
(*                                                                         *)
(* CanRouteRequest refuses a request as soon as one matcher MATCHES: a     *)
(* router with a host serves all hosts but this one.  What a matcher that  *)
(* matched wrote into the map stays there.                                 *)
(*                                                                         *)
(* The depth of a recursion is a number here, at most that of the routers: *)
(* no router is below itself (Bound, AddRouter).                           *)
(***************************************************************************)
EXTENDS RouterTree, Integers, Sequences, SequencesExt

CONSTANTS
    Root,
    Strings,    \* labels of hosts and characters of paths
    Routes,     \* Routes[r]: the paths r's own route tree answers
    Requests    \* records: host, a sequence of labels, and path

ASSUME SearchAssumption ==
    /\ IsFiniteSet(Routers) /\ Root \in Routers /\ "" \in Strings
    /\ Hosts \subseteq [labels : Seq(Strings), predot : BOOLEAN]
    /\ PathPrefixes \subseteq Seq(Strings)
    /\ Requests \subseteq [host : Seq(Strings), path : Seq(Strings)]
    /\ Routes \in [Routers -> SUBSET Seq(Strings)]

Depth == Cardinality(Routers)

\* The map the search hands on.
Maps == [path : Seq(Strings), host : Seq(Strings)]

Fresh(q) == [path |-> q.path, host |-> <<>>]

-----------------------------------------------------------------------------
(* The matchers: whether they match, and the map they leave.  value.host   *)
(* is <<>> while the map has no "host".                                    *)

\* A router's host before what the routers above it, up to d of them, say.
FullHost(r) ==
    LET full[d \in 0 .. Depth] ==
            [s \in Routers |->
                IF d = 0 \/ parent[s] = None THEN host[s]
                ELSE LET up == full[d - 1][parent[s]]
                     IN  [labels |-> host[s].labels \o up.labels,
                          predot |-> IF host[s].labels = <<>> THEN up.labels # <<>>
                                     ELSE host[s].predot]]
    IN  full[Depth][r]

FirstN(s, n) == SubSeq(s, 1, n)
Back(s, n) == SubSeq(s, Len(s) - n + 1, Len(s))

LabelMatches(pattern, label) == pattern \in {"*", label}

\* A host cut to n labels from the right, if it has as many, or more and the
\* router's host began with a dot.
Fits(labels, n, predot) == Len(labels) = n \/ (Len(labels) > n /\ predot)

\* Another router has matched the host before.  Without a path prefix (sic) this
\* one says that it matches.  More labels left over than the router has are a
\* slice out of bounds: the map is lost, and the request with it.
MatchRest(r, value) ==
    LET own == host[r].labels
        tail == Back(value.host, Len(own))
        over == Len(value.host) - Len(own)
    IN  IF pathprefix[r] = <<>> THEN <<TRUE, value>>
        ELSE IF ~ Fits(value.host, Len(own), host[r].predot)
                \/ \E i \in DOMAIN own : ~ LabelMatches(own[i], tail[i])
             THEN <<FALSE, value>>
        ELSE IF over > Len(own) THEN <<TRUE, None>>
        ELSE <<TRUE, [value EXCEPT !.host = IF over = 0 THEN <<"">> ELSE FirstN(tail, over)]>>

\* Beyond its own labels a router compares with its own first ones again.
MatchPattern(r, h, q, value) ==
    LET own == host[r].labels
        tail == Back(q.host, Len(h.labels))
        rest == FirstN(q.host, Len(q.host) - Len(h.labels))
    IN  IF Fits(q.host, Len(h.labels), host[r].predot)
           /\ \A i \in DOMAIN h.labels :
                LabelMatches(h.labels[IF i > Len(own) THEN i - Len(own) ELSE i], tail[i])
        THEN <<TRUE, [value EXCEPT !.host = IF rest = <<>> THEN <<"">> ELSE rest]>>
        ELSE <<FALSE, value>>

MatchHost(r, q, value) ==
    LET h == FullHost(r)
    IN  IF value.host # <<>> THEN MatchRest(r, value)
        ELSE IF \E i \in DOMAIN h.labels : h.labels[i] = "*" THEN MatchPattern(r, h, q, value)
        ELSE IF h.predot
             THEN IF IsSuffix(h.labels, q.host)
                  THEN <<TRUE, [value EXCEPT !.host =
                            Append(FirstN(q.host, Len(q.host) - Len(h.labels)), "")]>>
                  ELSE <<FALSE, value>>
        ELSE <<q.host = h.labels, value>>

\* The search always has a "pathprefix"; the prefix itself is no match for it.
MatchPathPrefix(r, q, value) ==
    IF IsStrictPrefix(pathprefix[r], value.path)
    THEN <<TRUE, [value EXCEPT !.path = SubSeq(@, Len(pathprefix[r]) + 1, Len(@))]>>
    ELSE <<FALSE, value>>

\* The matchers a router has, in any order; the first match refuses.
CanRouteRequest(r, q, value) ==
    LET matchers == {MatchHost(r, q, value) : h \in {host[r]} \ {NoHost}}
                        \cup {MatchPathPrefix(r, q, value) : p \in {pathprefix[r]} \ {<<>>}}
        matched == {m \in matchers : m[1]}
    IN  IF matched = {} THEN {<<TRUE, value>>}
        ELSE {<<FALSE, m[2]>> : m \in {m \in matched : m[2] # None}}

\* The orders Go may range over a map in.
Orders(S) == {o \in [1 .. Cardinality(S) -> S] : \A c \in S : \E i \in DOMAIN o : o[i] = c}

\* A mutant: the first sub router decides, whether it answers or not.
FirstDecides(r, o, value, deeper) ==
    IF Len(o) > 0 THEN deeper[o[1]][value]
    ELSE {<<IF value.path \in Routes[r] THEN r ELSE None, value>>}

\* What the sub routers of a router, asked in one order, have come to after each
\* of them: the router that answers, or None, and the map, which the next one gets.
\* deeper gives what a search of a sub router may come to.
Asked(o, value, deeper) ==
    LET asked[i \in 0 .. Len(o)] ==
            IF i = 0 THEN {<<None, value>>}
            ELSE UNION {IF found[1] = None THEN deeper[o[i]][found[2]] ELSE {found} : found \in asked[i - 1]}
    IN  asked

\* Then the router's own route tree is asked.
AskSubs(r, o, value, deeper) ==
    {IF found[1] = None /\ found[2].path \in Routes[r] THEN <<r, found[2]>> ELSE found
     : found \in Asked(o, value, deeper)[Len(o)]}

\* What a search that goes down d levels may come to.
Search(q) ==
    LET search[d \in 0 .. Depth] ==
            [r \in Routers |-> [value \in Maps |->
                IF d = 0 THEN {}
                ELSE UNION {IF can[1] THEN UNION {AskSubs(r, o, can[2], search[d - 1]) : o \in Orders(Children(r))}
                            ELSE {<<None, can[2]>>}
                            : can \in CanRouteRequest(r, q, value)}]]
    IN  search

FindRequestedEndPoint(q) == Search(q)[Depth][Root][Fresh(q)]

-----------------------------------------------------------------------------
(* A request from which no matcher cuts anything, though matchers may      *)
(* refuse it, is answered by a router that has its path and that no        *)
(* refusal keeps it from, whichever order the maps are visited in, at any  *)
(* depth of the tree, and by none only if there is none such: the README   *)
(* gives sub routers for it (README.md:277-287, router.go:136-148,         *)
(* 569-591).  The search ends.                                             *)
Accepts(r, q) == CanRouteRequest(r, q, Fresh(q)) = {<<TRUE, Fresh(q)>>}
Refuses(r, q) == CanRouteRequest(r, q, Fresh(q)) = {<<FALSE, Fresh(q)>>}

\* A router and those below it that nobody's refusal hides.
Open(r, q) ==
    IF Accepts(r, q) THEN Closure(r, LAMBDA s : {c \in Children(s) : Accepts(c, q)}) ELSE {}

PlainRequestsServed ==
    \A q \in Requests :
        (\A r \in Below(Root) : Accepts(r, q) \/ Refuses(r, q)) =>
        /\ FindRequestedEndPoint(q) # {}
        /\ \A found \in FindRequestedEndPoint(q) :
            IF found[1] = None THEN \A r \in Open(Root, q) : q.path \notin Routes[r]
            ELSE q.path \in Routes[found[1]] /\ found[1] \in Open(Root, q)
=============================================================================
