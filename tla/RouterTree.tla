----------------------------- MODULE RouterTree -----------------------------
(***************************************************************************)
(* How the tree of routers is built (router/router.go): sub routers under  *)
(* names, and the host and path prefix of each.  RouterSearch extends this *)
(* module with the search for the router that answers a request.           *)
(***************************************************************************)
EXTENDS FiniteSets

CONSTANTS
    Routers,
    Apps,       \* the routers that are wrapped in a SunnyApp
    Names,      \* names of sub routers; "" is one
    Configured, \* bound: the routers whose host and path prefix the program sets
    Hosts,      \* hosts of routers: records of labels, and predot for ".c"
    PathPrefixes, \* path prefixes of routers: sequences of characters
    None        \* no router, no name taken

ASSUME TreeAssumption == Apps \subseteq Routers /\ Configured \subseteq Routers /\ None \notin Routers

VARIABLES
    parent,     \* of each router
    routers,    \* its sub routers, by name
    host,       \* its host; NoHost is none
    pathprefix, \* its path prefix; <<>> is none
    displaced,  \* sub routers whose name was given to another
    nameless    \* routers that were given the empty name, and are in a map still

vars == <<parent, routers, host, pathprefix, displaced, nameless>>

NoHost == [labels |-> <<>>, predot |-> FALSE]

Init ==
    /\ parent = [r \in Routers |-> None]
    /\ routers = [r \in Routers |-> [n \in Names |-> None]]
    /\ host = [r \in Routers |-> NoHost]
    /\ pathprefix = [r \in Routers |-> <<>>]
    /\ displaced = {} /\ nameless = {}

Children(r) == {routers[r][n] : n \in Names} \ {None}

\* The least set that has r and, with a router, those that Of(router) gives.
Closure(r, Of(_)) ==
    {s \in Routers : \A T \in SUBSET Routers : (r \in T /\ \A t \in T : Of(t) \subseteq T) => s \in T}

Below(r) == Closure(r, Children)
Above(r) == Closure(r, LAMBDA s : {parent[s]} \ {None})

-----------------------------------------------------------------------------
(* Building the tree                                                       *)

\* Those of the routers in S that are in some map.
StillIn(rs, S) == {c \in S : \E p \in Routers, n \in Names : rs[p][n] = c}

\* AddRouter and SubRouter.  SetParent refuses a router that has a parent.
\* Bound: a router is not added below itself, which AddRouter would allow and
\* no search would survive.
AddRouter(p, n, c) ==
    /\ parent[c] = None
    /\ p \notin Below(c) /\ c \notin Above(p)
    /\ parent' = [parent EXCEPT ![c] = p]
    /\ routers' = [routers EXCEPT ![p][n] = c]
    /\ displaced' = {d \in Routers \ {c} :
            \/ d \in displaced
            \/ routers[p][n] = d /\ parent[d] = p /\ \A m \in Names \ {n} : routers[p][m] # d}
    /\ nameless' = StillIn(routers', nameless \cup {d \in {c} : n = ""})
    /\ UNCHANGED <<host, pathprefix>>

NamesOf(rs, p, c) == {n \in Names : rs[p][n] = c}

\* DelRouter on the parent of a router that is reset: the first of its names
\* that the map yields is forgotten, unless that is "", which counts as not
\* found.  ResetParent passes the inner router, which is not what the map has
\* for an app.
Forgotten(rs, c) ==
    IF parent[c] = None \/ c \in Apps \/ NamesOf(rs, parent[c], c) = {} THEN {rs}
    ELSE {IF n = "" THEN rs ELSE [rs EXCEPT ![parent[c]][n] = None] : n \in NamesOf(rs, parent[c], c)}

\* ResetParent: the parent forgets the router too, if it finds it.
ResetParent(c) ==
    /\ parent[c] # None
    /\ parent' = [parent EXCEPT ![c] = None]
    /\ routers' \in Forgotten(routers, c)
    /\ displaced' = displaced \ {c}
    /\ nameless' = StillIn(routers', nameless)
    /\ UNCHANGED <<host, pathprefix>>

\* A name is deleted, and the parent of the router that had it reset.
Take(p, n) ==
    LET c == routers[p][n]
    IN  /\ parent' = [parent EXCEPT ![c] = None]
        /\ routers' \in Forgotten([routers EXCEPT ![p][n] = None], c)
        /\ displaced' = displaced \ {c}
        /\ nameless' = StillIn(routers', nameless)
        /\ UNCHANGED <<host, pathprefix>>

\* A mutant: the removed router keeps its parent.
RemoveKeepsParent(p, n) ==
    /\ routers[p][n] # None
    /\ routers' = [routers EXCEPT ![p][n] = None]
    /\ UNCHANGED <<parent, displaced, host, pathprefix, nameless>>

DelRouterByName(p, n) == routers[p][n] # None /\ Take(p, n)

DelRouter(p, c) == \E n \in NamesOf(routers, p, c) \ {""} : Take(p, n)

SetHost(r, h) ==
    /\ host' = [host EXCEPT ![r] = h]
    /\ UNCHANGED <<parent, routers, pathprefix, displaced, nameless>>

SetPathPrefix(r, p) ==
    /\ pathprefix' = [pathprefix EXCEPT ![r] = p]
    /\ UNCHANGED <<parent, routers, host, displaced, nameless>>

Next ==
    \/ \E p, c \in Routers, n \in Names : AddRouter(p, n, c)
    \/ \E p \in Routers, n \in Names : DelRouterByName(p, n)
    \/ \E p, c \in Routers : DelRouter(p, c)
    \/ \E c \in Routers : ResetParent(c)
    \/ \E r \in Configured, h \in Hosts \cup {NoHost} : SetHost(r, h)
    \/ \E r \in Configured, p \in PathPrefixes \cup {<<>>} : SetPathPrefix(r, p)

Spec == Init /\ [][Next]_vars

-----------------------------------------------------------------------------
(* A router is in its parent's map, and what a map has under a name has    *)
(* that parent, after any calls, except that a router whose name was given *)
(* to another keeps its parent, and that ResetParent may leave behind an   *)
(* app and a router that was given the empty name (router.go:493-559).     *)
TreeAgrees ==
    /\ \A c \in Routers : parent[c] # None =>
        c \in displaced \/ \E n \in Names : routers[parent[c]][n] = c
    /\ \A p \in Routers, n \in Names :
        routers[p][n] \notin {None} \cup Apps \cup nameless => parent[routers[p][n]] = p
=============================================================================
