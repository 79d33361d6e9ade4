--------------------------- MODULE RouterTreeProofs ---------------------------
(***************************************************************************)
(* That parents and maps of routers agree, for any routers and names, and  *)
(* what the search promises of any tree that can be built.                 *)
(*                                                                         *)
(* TreeAgrees is not inductive: a router that is reset is looked for in    *)
(* its parent's map, and one of its names is forgotten.  That it has no    *)
(* other one, unless it is an app or was given the empty name, is          *)
(* OneName.                                                                *)
(*                                                                         *)
(* What the search needs of the tree is that no router is below itself:    *)
(* then there are fewer routers below a sub router than below its parent,  *)
(* and as many levels as there are routers are enough.  What a search to   *)
(* depth d promises is shown for every d, from 0 on.                       *)
(***************************************************************************)
EXTENDS RouterSearch, FiniteSetTheorems, SequenceTheorems, WellFoundedInduction, TLAPS

TypeOK ==
    /\ parent \in [Routers -> Routers \cup {None}]
    /\ routers \in [Routers -> [Names -> Routers \cup {None}]]

\* The routers TreeAgrees promises less of.
Loose == {None} \cup Apps \cup nameless

OneName ==
    \A p \in Routers, m, n \in Names :
        routers[p][m] \notin Loose => m # "" /\ (routers[p][n] = routers[p][m] => n = m)

IInv == TypeOK /\ TreeAgrees /\ OneName

\* No router has a parent or a sub router yet (router.go:12-20).
LEMMA Begins == Init => IInv
<1> SUFFICES ASSUME Init PROVE IInv
  OBVIOUS
<1>1. TypeOK
  BY DEF Init, TypeOK
<1>2. \A r \in Routers : parent[r] = None /\ \A n \in Names : routers[r][n] = None
  BY DEF Init
<1> QED
  BY <1>1, <1>2 DEF IInv, TreeAgrees, OneName, Loose

\* A router without a parent is under no name but as the exceptions go, so the
\* name it is given is its only one (router.go:499-509).
LEMMA AddKeeps ==
    ASSUME IInv, NEW p \in Routers, NEW n \in Names, NEW c \in Routers, AddRouter(p, n, c)
    PROVE  IInv'
<1>1. /\ parent[c] = None /\ parent' = [parent EXCEPT ![c] = p] /\ routers' = [routers EXCEPT ![p][n] = c]
      /\ TypeOK /\ None \notin Routers
  BY TreeAssumption DEF AddRouter, IInv
<1>2. TypeOK'
  BY <1>1 DEF TypeOK
<1>3. /\ \A r \in Routers : parent'[r] = IF r = c THEN p ELSE parent[r]
      /\ \A q \in Routers, m \in Names : routers'[q][m] = IF q = p /\ m = n THEN c ELSE routers[q][m]
  BY <1>1 DEF TypeOK
<1>4. \A q \in Routers, m \in Names : routers'[q][m] \notin Loose' => routers'[q][m] \notin {None} \cup Apps
                                                                      /\ routers'[q][m] \notin nameless'
  BY DEF Loose
<1>5. \A q \in Routers, m \in Names : routers[q][m] = c /\ c \notin Apps => c \in nameless
  BY <1>1 DEF IInv, TreeAgrees
<1>6. /\ \A d \in nameless : (\E q \in Routers, m \in Names : routers'[q][m] = d) => d \in nameless'
      /\ n = "" => c \in nameless'
  <2>1. nameless' = {d \in nameless \cup {d \in {c} : n = ""} : \E q \in Routers, m \in Names : routers'[q][m] = d}
    BY DEF AddRouter, StillIn
  <2>2. routers'[p][n] = c
    BY <1>3
  <2> QED
    BY <2>1, <2>2
<1>7. \A q \in Routers, m \in Names :
         routers'[q][m] \notin Loose' /\ ~(q = p /\ m = n) => routers[q][m] \notin Loose /\ routers'[q][m] = routers[q][m]
  BY <1>3, <1>4, <1>6 DEF Loose
<1>8. \A q \in Routers, m \in Names : routers'[q][m] = c /\ c \notin Loose' => q = p /\ m = n /\ n # ""
  <2> SUFFICES ASSUME NEW q \in Routers, NEW m \in Names, routers'[q][m] = c, c \notin Loose'
               PROVE  q = p /\ m = n /\ n # ""
    OBVIOUS
  <2>1. c \notin Apps /\ n # ""
    BY <1>6 DEF Loose
  <2>2. CASE ~(q = p /\ m = n)
    <3>1. routers[q][m] = c /\ c \notin Loose
      BY <1>7, <2>2
    <3> QED
      BY <1>5, <2>1, <3>1 DEF Loose
  <2> QED
    BY <2>1, <2>2
<1>9. TreeAgrees'
  <2>1. ASSUME NEW d \in Routers, parent'[d] # None
        PROVE  d \in displaced' \/ \E m \in Names : routers'[parent'[d]][m] = d
    <3>1. CASE d = c
      BY <1>3, <3>1
    <3>2. CASE d # c /\ d \in displaced
      BY <3>2 DEF AddRouter
    <3>3. CASE d # c /\ d \notin displaced
      <4>1. parent'[d] = parent[d] /\ parent[d] \in Routers
        BY <1>1, <1>3, <2>1, <3>3 DEF TypeOK
      <4>2. PICK m \in Names : routers[parent[d]][m] = d
        BY <2>1, <3>3, <4>1 DEF IInv, TreeAgrees
      <4>3. CASE parent[d] = p /\ \A k \in Names \ {n} : routers[p][k] # d
        BY <3>3, <4>2, <4>3 DEF AddRouter
      <4>4. CASE parent[d] # p
        BY <1>3, <4>1, <4>2, <4>4
      <4>5. ASSUME parent[d] = p, NEW k \in Names \ {n}, routers[p][k] = d
            PROVE  \E l \in Names : routers'[parent'[d]][l] = d
        BY <1>3, <4>1, <4>5
      <4> QED
        BY <4>3, <4>4, <4>5
    <3> QED
      BY <3>1, <3>2, <3>3
  <2>2. ASSUME NEW q \in Routers, NEW m \in Names, routers'[q][m] \notin Loose'
        PROVE  parent'[routers'[q][m]] = q
    <3>1. CASE q = p /\ m = n
      BY <1>3, <3>1
    <3>2. CASE ~(q = p /\ m = n)
      <4>1. routers'[q][m] = routers[q][m] /\ routers[q][m] \notin Loose
        BY <1>7, <2>2, <3>2
      <4>2. routers[q][m] \in Routers \cup {None}
        BY <1>1 DEF TypeOK
      <4>3. routers[q][m] \in Routers
        BY <4>1, <4>2 DEF Loose
      <4>4. routers'[q][m] # c
        BY <1>8, <2>2, <3>2
      <4>5. parent[routers[q][m]] = q
        BY <4>1 DEF IInv, TreeAgrees, Loose
      <4> QED
        BY <1>3, <4>1, <4>3, <4>4, <4>5
    <3> QED
      BY <3>1, <3>2
  <2> QED
    BY <2>1, <2>2 DEF TreeAgrees, Loose
<1>10. OneName'
  <2> SUFFICES ASSUME NEW q \in Routers, NEW m \in Names, NEW k \in Names, routers'[q][m] \notin Loose'
               PROVE  m # "" /\ (routers'[q][k] = routers'[q][m] => k = m)
    BY DEF OneName
  <2>1. CASE q = p /\ m = n
    <3>1. routers'[q][m] = c /\ c \notin Loose'
      BY <1>3, <2>1
    <3>2. n # "" /\ \A l \in Names : routers'[q][l] = c => l = n
      BY <1>8, <3>1
    <3> QED
      BY <2>1, <3>1, <3>2
  <2>2. CASE ~(q = p /\ m = n)
    <3>1. routers'[q][m] = routers[q][m] /\ routers[q][m] \notin Loose
      BY <1>7, <2>2
    <3>2. routers'[q][m] # c
      BY <1>8, <2>2
    <3>3. routers'[q][k] = routers'[q][m] => routers[q][k] = routers[q][m]
      BY <1>3, <3>1, <3>2
    <3> QED
      BY <3>1, <3>3 DEF IInv, OneName
  <2> QED
    BY <2>1, <2>2
<1> QED
  BY <1>2, <1>9, <1>10 DEF IInv

\* A router whose parent is reset: the maps lose only names of it, and all of them
\* if it is not one of the exceptions (router.go:511-537, 550-557).
LEMMA ForgetKeeps ==
    ASSUME IInv, NEW c \in Routers, TypeOK',
           parent' = [parent EXCEPT ![c] = None], displaced' = displaced \ {c},
           \A q \in Routers, m \in Names :
               routers'[q][m] = routers[q][m] \/ (routers[q][m] = c /\ routers'[q][m] = None),
           \A q \in Routers, m \in Names : c \notin Loose => routers'[q][m] # c,
           nameless' = StillIn(routers', nameless)
    PROVE  IInv'
<1>1. None \notin Routers /\ TypeOK
  BY TreeAssumption DEF IInv
<1>2. \A r \in Routers : parent'[r] = IF r = c THEN None ELSE parent[r]
  BY <1>1 DEF TypeOK
<1>3. \A q \in Routers, m \in Names :
         routers'[q][m] \notin Loose' => routers'[q][m] = routers[q][m] /\ routers[q][m] \notin Loose
  BY DEF Loose, StillIn
<1>4. TreeAgrees'
  <2>1. ASSUME NEW d \in Routers, parent'[d] # None
        PROVE  d \in displaced' \/ \E m \in Names : routers'[parent'[d]][m] = d
    <3>1. d # c /\ parent'[d] = parent[d] /\ parent[d] \in Routers
      BY <1>1, <1>2, <2>1 DEF TypeOK
    <3>2. d \in displaced \/ \E m \in Names : routers[parent[d]][m] = d
      BY <2>1, <3>1 DEF IInv, TreeAgrees
    <3> QED
      BY <3>1, <3>2
  <2>2. ASSUME NEW q \in Routers, NEW m \in Names, routers'[q][m] \notin Loose'
        PROVE  parent'[routers'[q][m]] = q
    <3>1. routers'[q][m] = routers[q][m] /\ routers[q][m] \notin Loose
      BY <1>3, <2>2
    <3>2. routers[q][m] # c /\ routers[q][m] \in Routers
      BY <1>1, <3>1 DEF TypeOK, Loose
    <3> QED
      BY <1>2, <3>1, <3>2 DEF IInv, TreeAgrees, Loose
  <2> QED
    BY <2>1, <2>2 DEF TreeAgrees, Loose
<1>5. OneName'
  <2> SUFFICES ASSUME NEW q \in Routers, NEW m \in Names, NEW k \in Names, routers'[q][m] \notin Loose'
               PROVE  m # "" /\ (routers'[q][k] = routers'[q][m] => k = m)
    BY DEF OneName
  <2>1. routers'[q][m] = routers[q][m] /\ routers[q][m] \notin Loose
    BY <1>3
  <2>2. routers'[q][k] = routers'[q][m] => routers[q][k] = routers[q][m]
    BY <2>1 DEF Loose
  <2> QED
    BY <2>1, <2>2 DEF IInv, OneName
<1> QED
  BY <1>4, <1>5 DEF IInv

\* What a parent forgets of the router c, when the maps are rs.
LEMMA ForgottenNames ==
    ASSUME TypeOK, NEW c \in Routers, NEW rs \in [Routers -> [Names -> Routers \cup {None}]],
           routers' \in Forgotten(rs, c)
    PROVE  /\ routers' \in [Routers -> [Names -> Routers \cup {None}]]
           /\ \A q \in Routers, m \in Names :
                  routers'[q][m] = rs[q][m] \/ (rs[q][m] = c /\ routers'[q][m] = None)
           /\ \/ routers' = rs /\ (parent[c] = None \/ c \in Apps \/ NamesOf(rs, parent[c], c) = {})
              \/ \E n \in NamesOf(rs, parent[c], c) :
                     n = "" \/ (parent[c] \in Routers /\ routers'[parent[c]][n] = None)
<1>1. CASE parent[c] = None \/ c \in Apps \/ NamesOf(rs, parent[c], c) = {}
  BY <1>1 DEF Forgotten
<1>2. CASE ~(parent[c] = None \/ c \in Apps \/ NamesOf(rs, parent[c], c) = {})
  <2>1. parent[c] \in Routers
    BY <1>2 DEF TypeOK
  <2>2. PICK n \in NamesOf(rs, parent[c], c) :
           routers' = IF n = "" THEN rs ELSE [rs EXCEPT ![parent[c]][n] = None]
    BY <1>2 DEF Forgotten
  <2>3. n \in Names /\ rs[parent[c]][n] = c
    BY <2>1 DEF NamesOf
  <2> QED
    BY <2>1, <2>2, <2>3
<1> QED
  BY <1>1, <1>2

LEMMA ResetKeeps == ASSUME IInv, NEW c \in Routers, ResetParent(c) PROVE IInv'
<1>1. TypeOK /\ parent[c] \in Routers /\ routers \in [Routers -> [Names -> Routers \cup {None}]]
  BY DEF IInv, TypeOK, ResetParent
<1>2. /\ routers' \in [Routers -> [Names -> Routers \cup {None}]]
      /\ \A q \in Routers, m \in Names :
             routers'[q][m] = routers[q][m] \/ (routers[q][m] = c /\ routers'[q][m] = None)
      /\ \/ routers' = routers /\ (parent[c] = None \/ c \in Apps \/ NamesOf(routers, parent[c], c) = {})
         \/ \E n \in NamesOf(routers, parent[c], c) :
                n = "" \/ (parent[c] \in Routers /\ routers'[parent[c]][n] = None)
  BY <1>1, ForgottenNames DEF ResetParent
<1>3. TypeOK'
  BY <1>1, <1>2 DEF TypeOK, ResetParent
<1>4. ASSUME NEW q \in Routers, NEW m \in Names, c \notin Loose, routers'[q][m] = c PROVE FALSE
  <2>1. routers[q][m] = c /\ q = parent[c] /\ m # ""
    <3>1. routers[q][m] = c
      BY <1>2, <1>4, TreeAssumption
    <3>2. q = parent[c]
      BY <1>4, <3>1 DEF IInv, TreeAgrees, Loose
    <3>3. m # ""
      BY <1>4, <3>1 DEF IInv, OneName
    <3> QED
      BY <3>1, <3>2, <3>3
  <2>2. \A n \in NamesOf(routers, q, c) : n = m
    BY <1>4, <2>1 DEF NamesOf, IInv, OneName
  <2>3. m \in NamesOf(routers, q, c)
    BY <2>1 DEF NamesOf
  <2>4. routers'[q][m] = None
    BY <1>1, <1>2, <1>4, <2>1, <2>2, <2>3, TreeAssumption DEF Loose
  <2> QED
    BY <1>4, <2>4, TreeAssumption
<1>5. /\ parent' = [parent EXCEPT ![c] = None] /\ displaced' = displaced \ {c}
      /\ nameless' = StillIn(routers', nameless)
  BY DEF ResetParent
<1>6. \A q \in Routers, m \in Names :
         routers'[q][m] = routers[q][m] \/ (routers[q][m] = c /\ routers'[q][m] = None)
  BY <1>2
<1>7. \A q \in Routers, m \in Names : c \notin Loose => routers'[q][m] # c
  BY <1>4
<1> QED
  BY <1>3, <1>5, <1>6, <1>7, ForgetKeeps

LEMMA TakeKeeps ==
    ASSUME IInv, NEW p \in Routers, NEW n \in Names, routers[p][n] # None, Take(p, n)
    PROVE  IInv'
<1> DEFINE c == routers[p][n]
           rs == [routers EXCEPT ![p][n] = None]
<1>1. TypeOK /\ c \in Routers /\ None \notin Routers
  BY TreeAssumption DEF IInv, TypeOK
<1>2. rs \in [Routers -> [Names -> Routers \cup {None}]]
  BY <1>1 DEF TypeOK
<1>3. \A q \in Routers, m \in Names : rs[q][m] = IF q = p /\ m = n THEN None ELSE routers[q][m]
  BY <1>1 DEF TypeOK
<1>4. /\ parent' = [parent EXCEPT ![c] = None] /\ routers' \in Forgotten(rs, c)
      /\ displaced' = displaced \ {c} /\ nameless' = StillIn(routers', nameless)
  BY DEF Take
<1> HIDE DEF rs
<1>5. /\ routers' \in [Routers -> [Names -> Routers \cup {None}]]
      /\ \A q \in Routers, m \in Names :
             routers'[q][m] = rs[q][m] \/ (rs[q][m] = c /\ routers'[q][m] = None)
  BY <1>1, <1>2, <1>4, ForgottenNames
<1>6. TypeOK'
  BY <1>1, <1>4, <1>5 DEF TypeOK
<1>7. \A q \in Routers, m \in Names :
         routers'[q][m] = routers[q][m] \/ (routers[q][m] = c /\ routers'[q][m] = None)
  BY <1>3, <1>5
<1>8. ASSUME NEW q \in Routers, NEW m \in Names, c \notin Loose, routers'[q][m] = c PROVE FALSE
  <2>1. rs[q][m] = c /\ routers[q][m] = c
    BY <1>1, <1>3, <1>5, <1>8
  <2>2. q = parent[c] /\ p = parent[c]
    BY <1>8, <2>1 DEF IInv, TreeAgrees, Loose
  <2>3. m = n
    <3>1. routers[p][m] = routers[p][n] /\ routers[p][m] \notin Loose
      BY <1>8, <2>1, <2>2
    <3> QED
      BY <3>1 DEF IInv, OneName
  <2> QED
    BY <1>1, <1>3, <2>1, <2>2, <2>3
<1> HIDE DEF c
<1> QED
  BY <1>1, <1>4, <1>6, <1>7, <1>8, ForgetKeeps

LEMMA StepKeeps == IInv /\ [Next]_vars => IInv'
<1> SUFFICES ASSUME IInv, [Next]_vars PROVE IInv'
  OBVIOUS
<1>1. CASE UNCHANGED <<parent, routers, displaced, nameless>>
  <2>1. TypeOK' /\ OneName'
    BY <1>1 DEF IInv, TypeOK, OneName, Loose
  <2>2. TreeAgrees'
    BY <1>1 DEF IInv, TreeAgrees
  <2> QED
    BY <2>1, <2>2 DEF IInv
<1>2. ASSUME NEW p \in Routers, NEW c \in Routers, NEW n \in Names, AddRouter(p, n, c) PROVE IInv'
  BY <1>2, AddKeeps
<1>3. ASSUME NEW p \in Routers, NEW n \in Names, DelRouterByName(p, n) PROVE IInv'
  BY <1>3, TakeKeeps DEF DelRouterByName
<1>4. ASSUME NEW p \in Routers, NEW c \in Routers, DelRouter(p, c) PROVE IInv'
  <2>1. PICK n \in Names : routers[p][n] = c /\ Take(p, n)
    BY <1>4 DEF DelRouter, NamesOf
  <2> QED
    BY <2>1, TakeKeeps, TreeAssumption
<1>5. ASSUME NEW c \in Routers, ResetParent(c) PROVE IInv'
  BY <1>5, ResetKeeps
<1>6. CASE UNCHANGED vars
  BY <1>1, <1>6 DEF vars
<1>7. ASSUME NEW r, NEW x, SetHost(r, x) \/ SetPathPrefix(r, x) PROVE IInv'
  BY <1>1, <1>7 DEF SetHost, SetPathPrefix
<1> QED
  BY <1>2, <1>3, <1>4, <1>5, <1>6, <1>7 DEF Next

\* Parents and maps agree after any calls, but for the exceptions that TreeAgrees
\* names (router.go:493-559).
THEOREM TreesAgree == Spec => []TreeAgrees
<1>1. IInv => TreeAgrees
  BY DEF IInv
<1> QED
  BY <1>1, StepKeeps, Begins, PTL DEF Spec

-----------------------------------------------------------------------------
(* What is below a router, for any maps of sub routers.                    *)

Trees == [Routers -> [Names -> Routers \cup {None}]]

Kids(rs, r) == {rs[r][n] : n \in Names} \ {None}

Closed(rs, T) == \A t \in T : Kids(rs, t) \subseteq T

Under(rs, r) == {s \in Routers : \A T \in SUBSET Routers : r \in T /\ Closed(rs, T) => s \in T}

Ringless(rs) == \A p \in Routers : \A c \in Kids(rs, p) : p \notin Under(rs, c)

LEMMA BelowIsUnder ==
  ASSUME NEW r
  PROVE  Below(r) = Under(routers, r) /\ Children(r) = Kids(routers, r)
  <1>1. \A t : Children(t) = Kids(routers, t)
    BY DEF Children, Kids
  <1>2. \A T : (\A t \in T : Children(t) \subseteq T) <=> Closed(routers, T)
    BY <1>1 DEF Closed
  <1>3. Below(r) = {s \in Routers : \A T \in SUBSET Routers :
                      (r \in T /\ \A t \in T : Children(t) \subseteq T) => s \in T}
    BY DEF Below, Closure
  <1>4. QED BY <1>1, <1>2, <1>3 DEF Under

LEMMA BelowIsUnderPrime ==
  ASSUME NEW r
  PROVE  Below(r)' = Under(routers', r)
  <1>1. \A t : Children(t)' = Kids(routers', t)
    BY DEF Children, Kids
  <1>2. \A T : (\A t \in T : Children(t)' \subseteq T) <=> Closed(routers', T)
    BY <1>1 DEF Closed
  <1>3. Below(r)' = {s \in Routers : \A T \in SUBSET Routers :
                      (r \in T /\ \A t \in T : Children(t)' \subseteq T) => s \in T}
    BY DEF Below, Closure
  <1>4. QED BY <1>2, <1>3 DEF Under

\* Under(rs, r) is the least closed set with r.
LEMMA UnderIs ==
  ASSUME NEW rs \in Trees, NEW r \in Routers
  PROVE  /\ r \in Under(rs, r) /\ Under(rs, r) \subseteq Routers /\ Closed(rs, Under(rs, r))
         /\ \A T \in SUBSET Routers : r \in T /\ Closed(rs, T) => Under(rs, r) \subseteq T
         /\ Kids(rs, r) \subseteq Under(rs, r)
  <1>1. r \in Under(rs, r) /\ Under(rs, r) \subseteq Routers
    BY DEF Under
  <1>2. ASSUME NEW T \in SUBSET Routers, r \in T, Closed(rs, T) PROVE Under(rs, r) \subseteq T
    BY <1>2 DEF Under
  <1>3. ASSUME NEW s \in Under(rs, r), NEW k \in Kids(rs, s) PROVE k \in Under(rs, r)
    <2>1. s \in Routers /\ k \in Routers
      BY <1>3, <1>1 DEF Trees, Kids
    <2>2. ASSUME NEW T \in SUBSET Routers, r \in T, Closed(rs, T) PROVE k \in T
      <3>1. s \in T
        BY <1>2, <1>3, <2>2
      <3>2. QED BY <1>3, <2>2, <3>1 DEF Closed
    <2>3. QED BY <2>1, <2>2 DEF Under
  <1>4. Closed(rs, Under(rs, r))
    BY <1>3 DEF Closed
  <1>5. Kids(rs, r) \subseteq Under(rs, r)
    BY <1>1, <1>3
  <1>6. QED BY <1>1, <1>2, <1>4, <1>5

\* What is below a router below r is below r.
LEMMA UnderUnder ==
  ASSUME NEW rs \in Trees, NEW r \in Routers, NEW s \in Under(rs, r)
  PROVE  s \in Routers /\ Under(rs, s) \subseteq Under(rs, r)
  <1>1. s \in Routers /\ Under(rs, r) \in SUBSET Routers /\ Closed(rs, Under(rs, r))
    BY UnderIs
  <1>2. QED BY <1>1, UnderIs

\* A router, and what is below its sub routers.
LEMMA UnderSplits ==
  ASSUME NEW rs \in Trees, NEW r \in Routers
  PROVE  Under(rs, r) = {r} \cup UNION {Under(rs, c) : c \in Kids(rs, r)}
  <1> DEFINE T == {r} \cup UNION {Under(rs, c) : c \in Kids(rs, r)}
  <1>1. Kids(rs, r) \subseteq Routers
    BY DEF Kids, Trees
  <1>2. T \in SUBSET Routers /\ r \in T
    BY <1>1, UnderIs
  <1>3. Closed(rs, T)
    <2>1. ASSUME NEW t \in T PROVE Kids(rs, t) \subseteq T
      <3>1. CASE t = r
        <4>1. \A c \in Kids(rs, r) : c \in Under(rs, c)
          BY <1>1, UnderIs
        <4>2. QED BY <3>1, <4>1
      <3>2. CASE t # r
        <4>1. PICK c \in Kids(rs, r) : t \in Under(rs, c)
          BY <2>1, <3>2
        <4>2. Closed(rs, Under(rs, c))
          BY <1>1, UnderIs
        <4>3. QED BY <4>1, <4>2 DEF Closed
      <3>3. QED BY <3>1, <3>2
    <2> HIDE DEF T
    <2>2. QED BY <2>1 DEF Closed
  <1>4. Under(rs, r) \subseteq T
    <2> HIDE DEF T
    <2>1. QED BY <1>2, <1>3, UnderIs
  <1>5. T \subseteq Under(rs, r)
    <2>1. \A c \in Kids(rs, r) : Under(rs, c) \subseteq Under(rs, r)
      BY UnderIs, UnderUnder
    <2>2. QED BY <2>1, UnderIs
  <1>6. QED BY <1>4, <1>5

\* Whoever is below r and is not r is a sub router of one that is below r.
LEMMA HasParentBelow ==
  ASSUME NEW rs \in Trees, NEW r \in Routers, NEW s \in Under(rs, r), s # r
  PROVE  \E u \in Under(rs, r) : s \in Kids(rs, u)
  <1> DEFINE T == {t \in Under(rs, r) : t = r \/ \E u \in Under(rs, r) : t \in Kids(rs, u)}
  <1>1. T \in SUBSET Routers /\ r \in T
    BY UnderIs
  <1>2. Closed(rs, T)
    <2>1. ASSUME NEW t \in T, NEW k \in Kids(rs, t) PROVE k \in T
      <3>1. t \in Under(rs, r)
        OBVIOUS
      <3>2. k \in Under(rs, r)
        BY <2>1, <3>1, UnderIs DEF Closed
      <3>3. QED BY <2>1, <3>1, <3>2
    <2> HIDE DEF T
    <2>2. QED BY <2>1 DEF Closed
  <1>3. Under(rs, r) \subseteq T
    <2> HIDE DEF T
    <2>1. QED BY <1>1, <1>2, UnderIs
  <1>4. QED BY <1>3

\* Taking sub routers away makes no ring.
LEMMA LessStaysRingless ==
  ASSUME NEW rs \in Trees, NEW ss \in Trees, Ringless(rs),
         \A r \in Routers : Kids(ss, r) \subseteq Kids(rs, r)
  PROVE  Ringless(ss)
  <1>1. ASSUME NEW r \in Routers PROVE Under(ss, r) \subseteq Under(rs, r)
    <2>1. r \in Under(rs, r) /\ Under(rs, r) \in SUBSET Routers /\ Closed(rs, Under(rs, r))
      BY UnderIs
    <2>2. Closed(ss, Under(rs, r))
      BY <2>1 DEF Closed
    <2>3. QED BY <2>1, <2>2, UnderIs
  <1>2. \A r \in Routers : Kids(rs, r) \subseteq Routers
    BY DEF Kids, Trees
  <1>3. QED BY <1>1, <1>2 DEF Ringless

AddsOnly(rs, ss, p, c) ==
  \A r \in Routers : \/ Kids(ss, r) \subseteq Kids(rs, r)
                    \/ (r = p /\ Kids(ss, r) \subseteq Kids(rs, r) \cup {c})

\* Nor does adding a router that the new parent is not below.
LEMMA AddStaysRingless ==
  ASSUME NEW rs \in Trees, NEW ss \in Trees, NEW p \in Routers, NEW c \in Routers, Ringless(rs),
         p \notin Under(rs, c),
         AddsOnly(rs, ss, p, c)
  PROVE  Ringless(ss)
  <1>1. /\ c \in Under(rs, c) /\ Under(rs, c) \in SUBSET Routers /\ Closed(rs, Under(rs, c))
        /\ \A t \in Under(rs, c) : t \in Routers /\ t # p
    BY UnderIs
  <1>2. Closed(ss, Under(rs, c))
    BY <1>1 DEF Closed, AddsOnly
  <1>3. Under(ss, c) \subseteq Under(rs, c)
    BY <1>1, <1>2, UnderIs
  <1>4. ASSUME NEW a \in Routers, NEW b \in Kids(ss, a), a \in Under(ss, b) PROVE FALSE
    <2>1. b \in Routers
      BY <1>4 DEF Kids, Trees
    <2>2. CASE b \in Kids(rs, a)
      <3>1. a \notin Under(rs, b)
        BY <2>2 DEF Ringless
      <3>2. b \in Under(rs, b) /\ Under(rs, b) \in SUBSET Routers /\ Closed(rs, Under(rs, b))
        BY <2>1, UnderIs
      <3>3. p \in Under(rs, b)
        <4>1. ASSUME p \notin Under(rs, b) PROVE FALSE
          <5>1. Closed(ss, Under(rs, b))
            BY <3>2, <4>1 DEF Closed, AddsOnly
          <5>2. Under(ss, b) \subseteq Under(rs, b)
            BY <2>1, <3>2, <5>1, UnderIs
          <5>3. QED BY <1>4, <3>1, <5>2
        <4>2. QED BY <4>1
      <3>4. a \in Under(rs, c)
        <4> DEFINE T == Under(rs, b) \cup Under(rs, c)
        <4>1. T \in SUBSET Routers /\ b \in T
          BY <1>1, <3>2
        <4>2. Closed(ss, T)
          <5>1. ASSUME NEW t \in T PROVE Kids(ss, t) \subseteq T
            <6>1. t \in Routers
              BY <4>1
            <6>2. Kids(ss, t) \subseteq Kids(rs, t) \cup {c}
              BY <6>1 DEF AddsOnly
            <6>3. Kids(rs, t) \subseteq T
              BY <1>1, <3>2 DEF Closed
            <6>4. QED BY <1>1, <6>2, <6>3
          <5> HIDE DEF T
          <5>2. QED BY <5>1 DEF Closed
        <4>3. Under(ss, b) \subseteq T
          <5> HIDE DEF T
          <5>1. QED BY <2>1, <4>1, <4>2, UnderIs
        <4>4. QED BY <1>4, <3>1, <4>3
      <3>5. b \in Under(rs, c)
        BY <1>1, <2>2, <3>4 DEF Closed
      <3>6. p \in Under(rs, c)
        BY <3>3, <3>5, UnderUnder
      <3>7. QED BY <3>6
    <2>3. CASE b \notin Kids(rs, a)
      <3>1. a = p /\ b = c
        BY <1>4, <2>3 DEF AddsOnly
      <3>2. QED BY <1>3, <1>4, <3>1
    <2>4. QED BY <2>2, <2>3
  <1>5. QED BY <1>4 DEF Ringless

-----------------------------------------------------------------------------
(* Induction, as a fact about a set of numbers, and recursive functions.   *)

\* A set of numbers that is not empty has a least one.
LEMMA LeastNumber ==
  ASSUME NEW T \in SUBSET Nat, T # {}
  PROVE  \E m \in T : \A n \in T : m <= n
  <1> DEFINE below(n) == 0 .. (n - 1)
             B == {below(n) : n \in T}
  <1>1. B \subseteq FiniteSubsetsOf(Nat) /\ B # {}
    <2>1. ASSUME NEW n \in T PROVE below(n) \in FiniteSubsetsOf(Nat)
      BY FS_Interval DEF FiniteSubsetsOf
    <2>2. QED BY <2>1
  <1>2. PICK b \in B : \A c \in B : <<c, b>> \notin StrictSubsetOrdering(Nat)
    BY <1>1, FS_StrictSubsetOrderingWellFounded, WFMin
  <1>3. PICK m \in T : b = below(m)
    BY <1>2
  <1>4. ASSUME NEW n \in T, ~(m <= n) PROVE FALSE
    <2>1. below(n) \subseteq below(m) /\ n \in below(m) /\ n \notin below(n) /\ below(n) \in B
      BY <1>4
    <2>2. <<below(n), b>> \in StrictSubsetOrdering(Nat)
      BY <1>3, <2>1 DEF StrictSubsetOrdering
    <2>3. QED BY <1>2, <2>1, <2>2
  <1>5. QED BY <1>4

\* A set with 0 and, up to N, with each number's successor has all numbers to N.
LEMMA UpTo ==
  ASSUME NEW N \in Nat, NEW T, 0 \in T, \A i \in 1 .. N : i - 1 \in T => i \in T
  PROVE  \A i \in 0 .. N : i \in T
  <1> DEFINE S == {i \in 0 .. N : i \notin T}
  <1>1. ASSUME S # {} PROVE FALSE
    <2>1. PICK m \in S : \A n \in S : m <= n
      <3>1. S \in SUBSET Nat
        OBVIOUS
      <3> HIDE DEF S
      <3>2. QED BY <1>1, <3>1, LeastNumber
    <2>2. m \in 1 .. N /\ m - 1 \in 0 .. N /\ m - 1 \notin S
      BY <2>1
    <2>3. m - 1 \in T
      BY <2>2
    <2>4. QED BY <2>1, <2>2, <2>3
  <1>2. QED BY <1>1

Follows(g, N, first, step) == g[0] = first /\ \A i \in 1 .. N : g[i] = step[i][g[i - 1]]

\* Values one of which follows from the one before make a function.
LEMMA Recursion ==
  ASSUME NEW N \in Nat, NEW V, NEW first \in V, NEW step \in [1 .. N -> [V -> V]]
  PROVE  \E g \in [0 .. N -> V] : Follows(g, N, first, step)
  <1> DEFINE Is(g, h) == g[0] = first /\ \A i \in 1 .. h : g[i] = step[i][g[i - 1]]
             T == {h \in Nat : \E g \in [0 .. N -> V] : Is(g, h)}
  <1>1. 0 \in T
    <2> DEFINE g == [i \in 0 .. N |-> first]
    <2>1. g \in [0 .. N -> V] /\ Is(g, 0)
      OBVIOUS
    <2>2. QED BY <2>1
  <1>2. ASSUME NEW n \in 1 .. N, n - 1 \in T PROVE n \in T
    <2>1. PICK g \in [0 .. N -> V] : Is(g, n - 1)
      BY <1>2
    <2>2. n \in 0 .. N /\ n - 1 \in 0 .. N /\ n - 1 # n /\ n # 0
      OBVIOUS
    <2> DEFINE v == step[n][g[n - 1]]
               b == [g EXCEPT ![n] = v]
    <2>3. v \in V
      BY <2>2
    <2> HIDE DEF v
    <2>4. b \in [0 .. N -> V] /\ b[n] = v /\ \A i \in 0 .. N : i # n => b[i] = g[i]
      BY <2>2, <2>3
    <2> HIDE DEF b
    <2>5. ASSUME NEW i \in 1 .. n PROVE b[i] = step[i][b[i - 1]]
      <3>1. CASE i = n
        BY <2>2, <2>4, <3>1 DEF v
      <3>2. CASE i # n
        <4>1. i \in 1 .. (n - 1) /\ i \in 0 .. N /\ i - 1 \in 0 .. N /\ i - 1 # n
          BY <3>2
        <4>2. g[i] = step[i][g[i - 1]]
          BY <2>1, <4>1
        <4>3. QED BY <2>4, <3>2, <4>1, <4>2
      <3>3. QED BY <3>1, <3>2
    <2>6. b[0] = first
      BY <2>1, <2>2, <2>4
    <2>7. n \in Nat /\ Is(b, n)
      BY <2>5, <2>6
    <2>8. QED BY <2>4, <2>7
  <1> HIDE DEF T
  <1>3. \A i \in 0 .. N : i \in T
    BY <1>1, <1>2, UpTo
  <1>4. N \in 0 .. N
    OBVIOUS
  <1>5. QED BY <1>3, <1>4 DEF T, Follows

-----------------------------------------------------------------------------
(* What the matchers leave of the map.                                     *)

Hostnames == [labels : Seq(Strings), predot : BOOLEAN]

SearchTypes == host \in [Routers -> Hostnames] /\ pathprefix \in [Routers -> Seq(Strings)]

LEMMA DepthIs == Depth \in Nat /\ Root \in Routers /\ IsFiniteSet(Routers)
  BY SearchAssumption, FS_CardinalityType DEF Depth

\* The host of a router and the routers above it is a host.
LEMMA FullHostIs ==
  ASSUME TypeOK, SearchTypes, NEW r \in Routers
  PROVE  FullHost(r) \in Hostnames
  <1> DEFINE V == [Routers -> Hostnames]
             Under1(s, up) == [labels |-> host[s].labels \o up.labels,
                               predot |-> IF host[s].labels = <<>> THEN up.labels # <<>>
                                          ELSE host[s].predot]
             Up(v) == [s \in Routers |-> IF parent[s] = None THEN host[s] ELSE Under1(s, v[parent[s]])]
             Body(g, d) == [s \in Routers |-> IF d = 0 \/ parent[s] = None THEN host[s]
                                              ELSE Under1(s, g[d - 1][parent[s]])]
             step == [i \in 1 .. Depth |-> [v \in V |-> Up(v)]]
  <1>1. ASSUME NEW s \in Routers, NEW up \in Hostnames PROVE Under1(s, up) \in Hostnames
    <2>1. host[s] \in Hostnames
      BY DEF SearchTypes
    <2>2. /\ host[s].labels \in Seq(Strings) /\ up.labels \in Seq(Strings)
          /\ host[s].predot \in BOOLEAN
      BY <2>1 DEF Hostnames
    <2>3. host[s].labels \o up.labels \in Seq(Strings)
      BY <2>2, ConcatProperties
    <2> DEFINE b == IF host[s].labels = <<>> THEN up.labels # <<>> ELSE host[s].predot
    <2>4. b \in BOOLEAN
      BY <2>2
    <2> HIDE DEF b
    <2>5. [labels |-> host[s].labels \o up.labels, predot |-> b] \in Hostnames
      BY <2>3, <2>4 DEF Hostnames
    <2>6. QED BY <2>5 DEF b
  <1> HIDE DEF Under1
  <1>2. \A s \in Routers : parent[s] # None => parent[s] \in Routers
    BY DEF TypeOK
  <1>3. \A s \in Routers : host[s] \in Hostnames
    BY DEF SearchTypes
  <1>4. ASSUME NEW v \in V PROVE Up(v) \in V
    BY <1>1, <1>2, <1>3
  <1>5. host \in V /\ step \in [1 .. Depth -> [V -> V]]
    BY <1>3, <1>4 DEF SearchTypes
  <1>6. PICK g \in [0 .. Depth -> V] : g[0] = host /\ \A i \in 1 .. Depth : g[i] = step[i][g[i - 1]]
    <2> HIDE DEF V, step
    <2>1. \E g \in [0 .. Depth -> V] : Follows(g, Depth, host, step)
      BY <1>5, DepthIs, Recursion
    <2>2. QED BY <2>1 DEF Follows
  <1>7. g = [d \in 0 .. Depth |-> Body(g, d)]
    <2>1. ASSUME NEW d \in 0 .. Depth PROVE g[d] = Body(g, d)
      <3>1. CASE d = 0
        <4>1. host = [s \in Routers |-> host[s]]
          BY DEF SearchTypes
        <4>2. Body(g, d) = [s \in Routers |-> host[s]]
          BY <3>1
        <4>3. QED BY <1>6, <3>1, <4>1, <4>2
      <3>2. CASE d # 0
        <4>1. d \in 1 .. Depth /\ d - 1 \in 0 .. Depth
          BY <3>2, DepthIs
        <4>2. g[d - 1] \in V
          BY <1>6, <4>1
        <4>3. g[d] = Up(g[d - 1])
          <5>1. g[d] = step[d][g[d - 1]]
            BY <1>6, <4>1
          <5> HIDE DEF V, Up
          <5>2. step[d][g[d - 1]] = Up(g[d - 1])
            BY <4>1, <4>2
          <5>3. QED BY <5>1, <5>2
        <4>4. Body(g, d) = Up(g[d - 1])
          BY <3>2
        <4>5. QED BY <4>3, <4>4
      <3>3. QED BY <3>1, <3>2
    <2> HIDE DEF Body, V
    <2>2. QED BY <1>6, <2>1
  <1> DEFINE full[d \in 0 .. Depth] == [s \in Routers |-> IF d = 0 \/ parent[s] = None THEN host[s]
                                                         ELSE Under1(s, full[d - 1][parent[s]])]
  <1>8. full = [d \in 0 .. Depth |-> Body(full, d)]
    <2>1. \E f : f = [d \in 0 .. Depth |-> Body(f, d)]
      <3> HIDE DEF Body
      <3>1. QED BY <1>7, Zenon
    <2>2. PICK f : f = [d \in 0 .. Depth |-> Body(f, d)]
      <3> HIDE DEF Body
      <3>1. QED BY <2>1, Zenon
    <2>3. full = [d \in 0 .. Depth |-> [s \in Routers |-> IF d = 0 \/ parent[s] = None THEN host[s]
                                                         ELSE Under1(s, full[d - 1][parent[s]])]]
      BY <2>2
    <2>4. QED BY <2>3
  <1>9. FullHost(r) = full[Depth][r]
    BY DEF FullHost, Under1
  <1> HIDE DEF full
  <1>10. \A i \in 0 .. Depth : i \in {d \in 0 .. Depth : full[d] \in V}
    <2> DEFINE T == {d \in 0 .. Depth : full[d] \in V}
    <2>1. 0 \in T
      <3>1. 0 \in 0 .. Depth
        BY DepthIs
      <3>2. full[0] = Body(full, 0)
        <4> HIDE DEF Body
        <4>1. QED BY <1>8, <3>1
      <3>3. QED BY <1>3, <3>1, <3>2
    <2>2. ASSUME NEW i \in 1 .. Depth, i - 1 \in T PROVE i \in T
      <3>1. i \in 0 .. Depth /\ i # 0
        BY DepthIs
      <3>2. full[i] = Body(full, i)
        <4> HIDE DEF Body
        <4>1. QED BY <1>8, <3>1
      <3>3. Body(full, i) = Up(full[i - 1])
        BY <3>1
      <3>4. full[i - 1] \in V
        BY <2>2
      <3>5. Up(full[i - 1]) \in V
        <4> HIDE DEF Up, V
        <4>1. QED BY <1>4, <3>4
      <3>6. QED BY <3>1, <3>2, <3>3, <3>5
    <2> HIDE DEF T
    <2>3. QED BY <2>1, <2>2, DepthIs, UpTo DEF T
  <1>11. Depth \in 0 .. Depth
    BY DepthIs
  <1>12. full[Depth] \in V
    BY <1>10, <1>11
  <1>13. QED BY <1>9, <1>12

LEMMA SubSeqIn ==
  ASSUME NEW s \in Seq(Strings), NEW m \in Int, NEW n \in Int, 1 <= m, n <= Len(s)
  PROVE  SubSeq(s, m, n) \in Seq(Strings)
  <1>1. ASSUME NEW i \in m .. n PROVE s[i] \in Strings
    <2>1. i \in 1 .. Len(s)
      OBVIOUS
    <2>2. QED BY <2>1
  <1>2. QED BY <1>1, SubSeqProperties

LEMMA RequestIs ==
  ASSUME NEW q \in Requests
  PROVE  q.host \in Seq(Strings) /\ q.path \in Seq(Strings) /\ Fresh(q) \in Maps
  <1>1. q \in [host : Seq(Strings), path : Seq(Strings)]
    BY SearchAssumption
  <1>2. q.host \in Seq(Strings) /\ q.path \in Seq(Strings)
    BY <1>1
  <1>3. <<>> \in Seq(Strings) /\ {} \in SUBSET Routers
    OBVIOUS
  <1>4. QED BY <1>2, <1>3 DEF Fresh, Maps

LEMMA LengthsAre ==
  ASSUME NEW q \in Requests, NEW h \in Hostnames
  PROVE  /\ q.host \in Seq(Strings) /\ Len(q.host) \in Nat /\ Len(h.labels) \in Nat
         /\ Len(q.host) - Len(h.labels) \in Int /\ Len(q.host) - Len(h.labels) <= Len(q.host)
  <1>1. q.host \in Seq(Strings)
    BY RequestIs
  <1>2. h.labels \in Seq(Strings)
    BY DEF Hostnames
  <1> HIDE DEF Hostnames
  <1>3. Len(q.host) \in Nat /\ Len(h.labels) \in Nat
    BY <1>1, <1>2, LenProperties
  <1>4. \A m, n \in Nat : m - n \in Int /\ m - n <= m
    OBVIOUS
  <1>5. QED BY <1>1, <1>3, <1>4

\* A map with another host is a map.
LEMMA HostReplaced ==
  ASSUME NEW value \in Maps, NEW h \in Seq(Strings)
  PROVE  LET m == [value EXCEPT !.host = h] IN m \in Maps
  BY DEF Maps

\* What one matcher leaves: nothing, as a panic does, or a map.
Leaves(m) == m[1] \in BOOLEAN /\ m[2] \in Maps \cup {None}

LEMMA OneLabel ==
  ASSUME NEW x \in Strings
  PROVE  <<x>> \in Seq(Strings)
  OBVIOUS

LEMMA Leftover ==
  ASSUME NEW own \in Seq(Strings), NEW h \in Seq(Strings), NEW over \in Int,
         over = Len(h) - Len(own), over > 0, over <= Len(own)
  PROVE  FirstN(Back(h, Len(own)), over) \in Seq(Strings)
  <1> DEFINE m == Len(h) - Len(own) + 1
             tail == Back(h, Len(own))
  <1>1. m \in Int /\ 1 <= m /\ m <= Len(h) /\ Len(h) - m + 1 = Len(own) /\ Len(h) \in Int
    OBVIOUS
  <1>2. tail = SubSeq(h, m, Len(h))
    BY DEF Back
  <1> HIDE DEF m, tail
  <1>3. \A i \in m .. Len(h) : h[i] \in Strings
    BY <1>1
  <1>4. tail \in Seq(Strings) /\ Len(tail) = Len(own)
    BY <1>1, <1>2, <1>3, SubSeqProperties
  <1>5. FirstN(tail, over) \in Seq(Strings)
    BY <1>4, SubSeqIn DEF FirstN
  <1>6. QED BY <1>5 DEF tail

LEMMA MatchRestLeaves ==
  ASSUME TypeOK, SearchTypes, NEW r \in Routers, NEW value \in Maps
  PROVE  Leaves(MatchRest(r, value))
  <1> DEFINE own == host[r].labels
             over == Len(value.host) - Len(own)
             left == FirstN(Back(value.host, Len(own)), over)
             all == <<TRUE, [value EXCEPT !.host = <<"">>]>>
             some == <<TRUE, [value EXCEPT !.host = left]>>
  <1>1. own \in Seq(Strings) /\ value.host \in Seq(Strings)
    BY DEF SearchTypes, Hostnames, Maps
  <1>2. Leaves(<<TRUE, value>>) /\ Leaves(<<FALSE, value>>) /\ Leaves(<<TRUE, None>>)
    BY DEF Leaves
  <1>3. Leaves(all)
    <2>1. <<"">> \in Seq(Strings)
      BY OneLabel, SearchAssumption
    <2>2. QED BY <2>1, HostReplaced DEF Leaves
  <1>4. \/ MatchRest(r, value) \in {<<TRUE, value>>, <<FALSE, value>>, <<TRUE, None>>, all}
        \/ /\ MatchRest(r, value) = some
           /\ Fits(value.host, Len(own), host[r].predot) /\ ~ (over > Len(own)) /\ over # 0
    BY DEF MatchRest
  <1> HIDE DEF own, left, all
  <1>5. ASSUME Fits(value.host, Len(own), host[r].predot), ~ (over > Len(own)), over # 0
        PROVE  Leaves(some)
    <2>1. over \in Int /\ over > 0 /\ over <= Len(own)
      BY <1>1, <1>5 DEF Fits
    <2>2. left \in Seq(Strings)
      BY <1>1, <2>1, Leftover DEF left
    <2>3. QED BY <2>2, HostReplaced DEF Leaves
  <1> HIDE DEF over, some
  <1>6. CASE MatchRest(r, value) \in {<<TRUE, value>>, <<FALSE, value>>, <<TRUE, None>>, all}
    BY <1>2, <1>3, <1>6, Zenon
  <1>7. QED BY <1>4, <1>5, <1>6, Zenon

LEMMA MatchPatternLeaves ==
  ASSUME NEW r \in Routers, NEW value \in Maps, NEW q \in Requests, NEW h \in Hostnames
  PROVE  Leaves(MatchPattern(r, h, q, value))
  <1> DEFINE rest == FirstN(q.host, Len(q.host) - Len(h.labels))
             left == IF rest = <<>> THEN <<"">> ELSE rest
  <1>1. q.host \in Seq(Strings) /\ Len(q.host) \in Nat /\ Len(h.labels) \in Nat
    BY LengthsAre
  <1>2. Leaves(<<FALSE, value>>)
    BY DEF Leaves
  <1>3. rest \in Seq(Strings)
    BY <1>1, SubSeqIn DEF FirstN
  <1>4. left \in Seq(Strings)
    <2>1. <<"">> \in Seq(Strings)
      BY OneLabel, SearchAssumption
    <2> HIDE DEF rest
    <2>2. QED BY <1>3, <2>1
  <1>5. Leaves(<<TRUE, [value EXCEPT !.host = left]>>)
    <2> HIDE DEF left
    <2>1. QED BY <1>4, HostReplaced DEF Leaves
  <1>6. MatchPattern(r, h, q, value) \in {<<FALSE, value>>, <<TRUE, [value EXCEPT !.host = left]>>}
    BY DEF MatchPattern
  <1> HIDE DEF left, rest
  <1>7. QED BY <1>2, <1>5, <1>6, Zenon

LEMMA MatchHostLeaves ==
  ASSUME TypeOK, SearchTypes, NEW r \in Routers, NEW value \in Maps, NEW q \in Requests
  PROVE  Leaves(MatchHost(r, q, value))
  <1> DEFINE h == FullHost(r)
             left == Append(FirstN(q.host, Len(q.host) - Len(h.labels)), "")
  <1>1. h \in Hostnames
    BY FullHostIs
  <1> HIDE DEF h
  <1>2. /\ q.host \in Seq(Strings) /\ Len(q.host) \in Nat /\ Len(h.labels) \in Nat
        /\ Len(q.host) - Len(h.labels) \in Int /\ Len(q.host) - Len(h.labels) <= Len(q.host)
    BY <1>1, LengthsAre
  <1>3. left \in Seq(Strings)
    <2> DEFINE rest == FirstN(q.host, Len(q.host) - Len(h.labels))
    <2>1. rest \in Seq(Strings)
      BY <1>2, SubSeqIn DEF FirstN
    <2> HIDE DEF rest
    <2>2. "" \in Strings
      BY SearchAssumption
    <2>3. Append(rest, "") \in Seq(Strings)
      BY <2>1, <2>2, AppendProperties
    <2>4. QED BY <2>3 DEF rest
  <1>4. Leaves(<<TRUE, [value EXCEPT !.host = left]>>)
    <2> HIDE DEF left
    <2>1. QED BY <1>3, HostReplaced DEF Leaves
  <1>5. Leaves(<<FALSE, value>>) /\ Leaves(<<q.host = h.labels, value>>)
    BY DEF Leaves
  <1>6. \/ MatchHost(r, q, value) \in {MatchRest(r, value), MatchPattern(r, h, q, value), <<FALSE, value>>}
        \/ MatchHost(r, q, value) = <<TRUE, [value EXCEPT !.host = left]>>
        \/ MatchHost(r, q, value) = <<q.host = h.labels, value>>
    BY DEF MatchHost, h
  <1> HIDE DEF left
  <1>7. Leaves(MatchRest(r, value)) /\ Leaves(MatchPattern(r, h, q, value))
    BY <1>1, MatchRestLeaves, MatchPatternLeaves
  <1>8. CASE MatchHost(r, q, value) \in {MatchRest(r, value), MatchPattern(r, h, q, value), <<FALSE, value>>}
    BY <1>5, <1>7, <1>8, Zenon
  <1>9. CASE MatchHost(r, q, value) = <<TRUE, [value EXCEPT !.host = left]>>
    BY <1>4, <1>9, Zenon
  <1>10. CASE MatchHost(r, q, value) = <<q.host = h.labels, value>>
    BY <1>5, <1>10, Zenon
  <1>11. QED BY <1>6, <1>8, <1>9, <1>10

LEMMA MatchPathPrefixLeaves ==
  ASSUME TypeOK, SearchTypes, NEW r \in Routers, NEW value \in Maps, NEW q \in Requests
  PROVE  Leaves(MatchPathPrefix(r, q, value))
  <1> DEFINE cut == SubSeq(value.path, Len(pathprefix[r]) + 1, Len(value.path))
             m == [value EXCEPT !.path = cut]
  <1>1. value.path \in Seq(Strings) /\ pathprefix[r] \in Seq(Strings)
    BY DEF SearchTypes, Maps
  <1>2. cut \in Seq(Strings)
    BY <1>1, SubSeqIn
  <1> HIDE DEF cut
  <1>3. m \in Maps
    BY <1>2 DEF Maps
  <1>4. MatchPathPrefix(r, q, value) \in {<<TRUE, m>>, <<FALSE, value>>}
    BY DEF MatchPathPrefix, cut
  <1> HIDE DEF m
  <1>5. Leaves(<<TRUE, m>>)
    BY <1>3 DEF Leaves
  <1>6. Leaves(<<FALSE, value>>)
    BY DEF Leaves
  <1>7. QED BY <1>4, <1>5, <1>6, Zenon

\* A router that can route the request leaves the map alone.
LEMMA CanRouteIs ==
  ASSUME TypeOK, SearchTypes, NEW r \in Routers, NEW q \in Requests, NEW value \in Maps,
         NEW can \in CanRouteRequest(r, q, value)
  PROVE  /\ can[1] \in BOOLEAN /\ can[2] \in Maps
         /\ can[1] => can[2] = value
  <1> DEFINE matchers == {MatchHost(r, q, value) : h \in {host[r]} \ {NoHost}}
                            \cup {MatchPathPrefix(r, q, value) : p \in {pathprefix[r]} \ {<<>>}}
             matched == {m \in matchers : m[1]}
  <1>1. \A m \in matchers : Leaves(m)
    BY MatchHostLeaves, MatchPathPrefixLeaves
  <1>2. CanRouteRequest(r, q, value) = IF matched = {} THEN {<<TRUE, value>>}
                                       ELSE {<<FALSE, m[2]>> : m \in {m \in matched : m[2] # None}}
    BY DEF CanRouteRequest
  <1> HIDE DEF matchers
  <1>3. CASE can = <<TRUE, value>>
    BY <1>3
  <1>4. ASSUME NEW m \in matchers, m[2] # None, can = <<FALSE, m[2]>>
        PROVE  can[1] = FALSE /\ can[2] \in Maps
    <2>1. m[2] \in Maps
      BY <1>1, <1>4 DEF Leaves
    <2>2. QED BY <1>4, <2>1
  <1>5. can = <<TRUE, value>> \/ \E m \in matchers : m[2] # None /\ can = <<FALSE, m[2]>>
    BY <1>2
  <1>6. QED BY <1>3, <1>4, <1>5

-----------------------------------------------------------------------------
(* What a search may come to.                                              *)

Outcomes == (Routers \cup {None}) \X Maps

Searches == [Routers -> [Maps -> SUBSET Outcomes]]

AskNext(S, c, deeper) == UNION {IF found[1] = None THEN deeper[c][found[2]] ELSE {found} : found \in S}

LEMMA OutcomeIs ==
  ASSUME NEW found \in Outcomes
  PROVE  found[1] \in Routers \cup {None} /\ found[2] \in Maps /\ found = <<found[1], found[2]>>
  BY DEF Outcomes

LEMMA AskNextIs ==
  ASSUME NEW S \in SUBSET Outcomes, NEW c \in Routers, NEW deeper \in Searches
  PROVE  AskNext(S, c, deeper) \in SUBSET Outcomes
  <1>1. ASSUME NEW found \in S PROVE (IF found[1] = None THEN deeper[c][found[2]] ELSE {found}) \subseteq Outcomes
    <2>1. found[2] \in Maps
      BY OutcomeIs
    <2>2. deeper[c][found[2]] \in SUBSET Outcomes
      BY <2>1 DEF Searches
    <2>3. QED BY <2>2
  <1>2. QED BY <1>1 DEF AskNext

Asks(A, n, o, value, deeper) ==
  /\ Len(o) = n
  /\ A[0] = {<<None, value>>}
  /\ \A i \in 1 .. n : A[i] = AskNext(A[i - 1], o[i], deeper)
  /\ \A i \in 0 .. n : A[i] \in SUBSET Outcomes

\* Asked unfolds, and what it comes to are outcomes.
LEMMA AskedIs ==
  ASSUME NEW n \in Nat, NEW o \in [1 .. n -> Routers], NEW value \in Maps, NEW deeper \in Searches
  PROVE  Asks(Asked(o, value, deeper), n, o, value, deeper)
  <1> DEFINE V == SUBSET Outcomes
             first == {<<None, value>>}
             step == [i \in 1 .. n |-> [S \in V |-> AskNext(S, o[i], deeper)]]
             Body(g, i) == IF i = 0 THEN first ELSE AskNext(g[i - 1], o[i], deeper)
  <1>1. Len(o) = n
    OBVIOUS
  <1>2. first \in V
    BY DEF Outcomes
  <1>3. step \in [1 .. n -> [V -> V]]
    <2>1. \A i \in 1 .. n, S \in V : AskNext(S, o[i], deeper) \in V
      BY AskNextIs
    <2> HIDE DEF V
    <2>2. QED BY <2>1
  <1>4. PICK g \in [0 .. n -> V] : Follows(g, n, first, step)
    <2> HIDE DEF V, step, first
    <2>1. QED BY <1>2, <1>3, Recursion
  <1>5. g = [i \in 0 .. n |-> Body(g, i)]
    <2>1. ASSUME NEW i \in 0 .. n PROVE g[i] = Body(g, i)
      <3>1. CASE i = 0
        BY <1>4, <3>1 DEF Follows
      <3>2. CASE i # 0
        <4>1. i \in 1 .. n /\ i - 1 \in 0 .. n
          BY <3>2
        <4>2. g[i - 1] \in V
          BY <1>4, <4>1
        <4>3. g[i] = step[i][g[i - 1]]
          <5> HIDE DEF V, step, first
          <5>1. QED BY <1>4, <4>1 DEF Follows
        <4>4. step[i][g[i - 1]] = AskNext(g[i - 1], o[i], deeper)
          <5> HIDE DEF V
          <5>1. QED BY <4>1, <4>2
        <4>5. QED BY <3>2, <4>3, <4>4
      <3>3. QED BY <3>1, <3>2
    <2> HIDE DEF Body, V
    <2>2. QED BY <1>4, <2>1
  <1> DEFINE asked[i \in 0 .. n] == IF i = 0 THEN first ELSE AskNext(asked[i - 1], o[i], deeper)
  <1>6. asked = [i \in 0 .. n |-> Body(asked, i)]
    <2>1. \E f : f = [i \in 0 .. n |-> Body(f, i)]
      <3> HIDE DEF Body
      <3>1. QED BY <1>5, Zenon
    <2>2. PICK f : f = [i \in 0 .. n |-> Body(f, i)]
      <3> HIDE DEF Body
      <3>1. QED BY <2>1, Zenon
    <2>3. asked = [i \in 0 .. n |-> IF i = 0 THEN first ELSE AskNext(asked[i - 1], o[i], deeper)]
      BY <2>2
    <2>4. QED BY <2>3
  <1>7. Asked(o, value, deeper) = asked
    BY <1>1 DEF Asked, AskNext
  <1> HIDE DEF asked
  <1>8. asked[0] = first
    <2>1. 0 \in 0 .. n
      OBVIOUS
    <2>2. asked[0] = Body(asked, 0)
      <3> HIDE DEF Body
      <3>1. QED BY <1>6, <2>1
    <2>3. QED BY <2>2
  <1>9. ASSUME NEW i \in 1 .. n PROVE asked[i] = AskNext(asked[i - 1], o[i], deeper)
    <2>1. i \in 0 .. n /\ i # 0
      OBVIOUS
    <2>2. asked[i] = Body(asked, i)
      <3> HIDE DEF Body
      <3>1. QED BY <1>6, <2>1
    <2>3. QED BY <2>1, <2>2
  <1>10. \A i \in 0 .. n : i \in {k \in 0 .. n : asked[k] \in V}
    <2> DEFINE T == {k \in 0 .. n : asked[k] \in V}
    <2>1. 0 \in T
      BY <1>2, <1>8
    <2>2. ASSUME NEW i \in 1 .. n, i - 1 \in T PROVE i \in T
      <3>1. asked[i - 1] \in SUBSET Outcomes /\ o[i] \in Routers
        BY <2>2
      <3>2. AskNext(asked[i - 1], o[i], deeper) \in SUBSET Outcomes
        BY <3>1, AskNextIs
      <3>3. QED BY <1>9, <3>2
    <2> HIDE DEF T
    <2>3. QED BY <2>1, <2>2, UpTo DEF T
  <1>11. QED BY <1>1, <1>7, <1>8, <1>9, <1>10 DEF Asks

\* The orders of a finite set of routers.
LEMMA OrdersAre ==
  ASSUME NEW S \in SUBSET Routers
  PROVE  /\ Orders(S) # {} /\ Cardinality(S) \in Nat
         /\ \A o \in Orders(S) : /\ o \in [1 .. Cardinality(S) -> Routers] /\ o \in [1 .. Cardinality(S) -> S]
                                 /\ \A c \in S : \E i \in 1 .. Cardinality(S) : o[i] = c
                                 /\ \A i, j \in 1 .. Cardinality(S) : o[i] = o[j] => i = j
  <1>1. IsFiniteSet(S) /\ Cardinality(S) \in Nat
    BY SearchAssumption, FS_Subset, FS_CardinalityType
  <1> DEFINE n == Cardinality(S)
  <1>2. IsFiniteSet(1 .. n) /\ Cardinality(1 .. n) = n
    BY <1>1, FS_Interval
  <1>3. Orders(S) # {}
    <2>1. ExistsBijection(1 .. n, S)
      BY <1>1, FS_CardinalityType
    <2>2. PICK f : f \in Bijection(1 .. n, S)
      BY <2>1 DEF ExistsBijection
    <2>3. f \in [1 .. n -> S] /\ \A c \in S : \E i \in 1 .. n : f[i] = c
      BY <2>2 DEF Bijection, Injection, Surjection
    <2>4. f \in Orders(S)
      BY <2>3 DEF Orders
    <2>5. QED BY <2>4
  <1>4. ASSUME NEW o \in Orders(S)
        PROVE  /\ o \in [1 .. n -> S] /\ \A c \in S : \E i \in 1 .. n : o[i] = c
               /\ \A i, j \in 1 .. n : o[i] = o[j] => i = j
    <2>1. o \in [1 .. n -> S] /\ \A c \in S : \E i \in 1 .. n : o[i] = c
      BY DEF Orders
    <2>2. o \in Surjection(1 .. n, S)
      BY <2>1 DEF Surjection
    <2>3. o \in Injection(1 .. n, S)
      <3> HIDE DEF n
      <3>1. Cardinality(1 .. n) = Cardinality(S)
        BY <1>2 DEF n
      <3>2. QED BY <1>1, <1>2, <2>2, <3>1, FS_SurjSameCardinalityImpliesInj
    <2>4. QED BY <2>1, <2>3 DEF Injection, IsInjective
  <1>5. QED BY <1>1, <1>3, <1>4

Visit(q, r, value, deeper) ==
  UNION {IF can[1] THEN UNION {AskSubs(r, o, can[2], deeper) : o \in Orders(Children(r))}
         ELSE {<<None, can[2]>>} : can \in CanRouteRequest(r, q, value)}

LEMMA ChildrenAre ==
  ASSUME TypeOK, NEW r \in Routers
  PROVE  Children(r) \in SUBSET Routers /\ routers \in Trees
  BY DEF TypeOK, Children, Trees

LEMMA AskSubsIs ==
  ASSUME TypeOK, NEW r \in Routers, NEW o \in Orders(Children(r)), NEW value \in Maps, NEW deeper \in Searches
  PROVE  AskSubs(r, o, value, deeper) \in SUBSET Outcomes
  <1> DEFINE n == Cardinality(Children(r))
             S == Asked(o, value, deeper)[Len(o)]
  <1>1. n \in Nat /\ o \in [1 .. n -> Routers]
    BY ChildrenAre, OrdersAre
  <1>2. S \in SUBSET Outcomes
    <2> HIDE DEF n
    <2>1. n \in 0 .. n
      BY <1>1
    <2>2. Asks(Asked(o, value, deeper), n, o, value, deeper)
      BY <1>1, AskedIs
    <2>3. QED BY <2>1, <2>2 DEF Asks
  <1> HIDE DEF S
  <1>3. ASSUME NEW found \in S
        PROVE  (IF found[1] = None /\ found[2].path \in Routes[r] THEN <<r, found[2]>> ELSE found) \in Outcomes
    <2>1. found \in Outcomes /\ found[2] \in Maps
      BY <1>2, OutcomeIs
    <2>2. <<r, found[2]>> \in Outcomes
      BY <2>1 DEF Outcomes
    <2>3. QED BY <2>1, <2>2
  <1>4. QED BY <1>3 DEF AskSubs, S

LEMMA VisitIs ==
  ASSUME TypeOK, SearchTypes, NEW q \in Requests, NEW r \in Routers, NEW value \in Maps, NEW deeper \in Searches
  PROVE  Visit(q, r, value, deeper) \in SUBSET Outcomes
  <1>1. ASSUME NEW can \in CanRouteRequest(r, q, value)
        PROVE  (IF can[1] THEN UNION {AskSubs(r, o, can[2], deeper) : o \in Orders(Children(r))}
                ELSE {<<None, can[2]>>}) \subseteq Outcomes
    <2>1. can[2] \in Maps
      BY CanRouteIs
    <2>2. \A o \in Orders(Children(r)) : AskSubs(r, o, can[2], deeper) \subseteq Outcomes
      BY <2>1, AskSubsIs
    <2>3. <<None, can[2]>> \in Outcomes
      BY <2>1 DEF Outcomes
    <2>4. QED BY <2>2, <2>3
  <1>2. QED BY <1>1 DEF Visit

Found(f, d, q) == [r \in Routers |-> [value \in Maps |-> IF d = 0 THEN {} ELSE Visit(q, r, value, f[d - 1])]]

\* Search unfolds, one level down the tree at a time.
LEMMA SearchIs ==
  ASSUME TypeOK, SearchTypes, NEW q \in Requests
  PROVE  /\ \A d \in 0 .. Depth : Search(q)[d] \in Searches
         /\ \A r \in Routers, value \in Maps : Search(q)[0][r][value] = {}
         /\ \A d \in 1 .. Depth, r \in Routers, value \in Maps :
              Search(q)[d][r][value] = Visit(q, r, value, Search(q)[d - 1])
  <1> DEFINE V == Searches
             first == [r \in Routers |-> [value \in Maps |-> {}]]
             Next1(f) == [r \in Routers |-> [value \in Maps |-> Visit(q, r, value, f)]]
             step == [i \in 1 .. Depth |-> [f \in V |-> Next1(f)]]
  <1>1. first \in V
    BY DEF Searches
  <1>2. ASSUME NEW f \in Searches PROVE Next1(f) \in Searches
    <2>1. \A r \in Routers, value \in Maps : Visit(q, r, value, f) \in SUBSET Outcomes
      BY VisitIs
    <2>2. QED BY <2>1 DEF Searches
  <1>3. step \in [1 .. Depth -> [V -> V]]
    <2> HIDE DEF V, Next1
    <2>1. \A f \in V : Next1(f) \in V
      BY <1>2 DEF V
    <2>2. QED BY <2>1
  <1>4. PICK g \in [0 .. Depth -> V] : Follows(g, Depth, first, step)
    <2> HIDE DEF V, step, first
    <2>1. QED BY <1>1, <1>3, DepthIs, Recursion
  <1>5. \A f : Found(f, 0, q) = first
    BY DEF Found
  <1>6. ASSUME NEW f, NEW d \in 1 .. Depth PROVE Found(f, d, q) = Next1(f[d - 1])
    BY DEF Found
  <1>7. g = [d \in 0 .. Depth |-> Found(g, d, q)]
    <2>1. ASSUME NEW d \in 0 .. Depth PROVE g[d] = Found(g, d, q)
      <3>1. CASE d = 0
        BY <1>4, <1>5, <3>1 DEF Follows
      <3>2. CASE d # 0
        <4>1. d \in 1 .. Depth /\ d - 1 \in 0 .. Depth
          BY <3>2, DepthIs
        <4>2. g[d - 1] \in V
          BY <1>4, <4>1
        <4>3. g[d] = step[d][g[d - 1]]
          <5> HIDE DEF V, step, first
          <5>1. QED BY <1>4, <4>1 DEF Follows
        <4>4. step[d][g[d - 1]] = Next1(g[d - 1])
          <5> HIDE DEF V, Next1
          <5>1. QED BY <4>1, <4>2
        <4>5. QED
          <5> HIDE DEF Next1, step
          <5>1. QED BY <1>6, <4>1, <4>3, <4>4
      <3>3. QED BY <3>1, <3>2
    <2> HIDE DEF V
    <2>2. QED BY <1>4, <2>1
  <1> DEFINE search[d \in 0 .. Depth] ==
               [r \in Routers |-> [value \in Maps |-> IF d = 0 THEN {} ELSE Visit(q, r, value, search[d - 1])]]
  <1>8. search = [d \in 0 .. Depth |-> Found(search, d, q)]
    <2>1. PICK f : f = [d \in 0 .. Depth |-> Found(f, d, q)]
      BY <1>7, Zenon
    <2>2. f = [d \in 0 .. Depth |->
               [r \in Routers |-> [value \in Maps |-> IF d = 0 THEN {} ELSE Visit(q, r, value, f[d - 1])]]]
      BY <2>1 DEF Found
    <2>3. search = [d \in 0 .. Depth |->
               [r \in Routers |-> [value \in Maps |-> IF d = 0 THEN {} ELSE Visit(q, r, value, search[d - 1])]]]
      BY <2>2
    <2>4. QED BY <2>3 DEF Found
  <1>9. Search(q) = search
    BY DEF Search, Visit
  <1> HIDE DEF search
  <1>10. \A d \in 0 .. Depth : search[d] = Found(search, d, q)
    BY <1>8
  <1>11. \A d \in 0 .. Depth : d \in {k \in 0 .. Depth : search[k] \in V}
    <2> DEFINE T == {k \in 0 .. Depth : search[k] \in V}
    <2>1. 0 \in T
      <3>1. 0 \in 0 .. Depth
        BY DepthIs
      <3>2. QED BY <1>1, <1>5, <1>10, <3>1
    <2>2. ASSUME NEW i \in 1 .. Depth, i - 1 \in T PROVE i \in T
      <3>1. search[i - 1] \in Searches /\ i \in 0 .. Depth
        BY <2>2, DepthIs
      <3>2. Next1(search[i - 1]) \in Searches
        <4> HIDE DEF Next1
        <4>1. QED BY <1>2, <3>1
      <3>3. QED
        <4> HIDE DEF Next1
        <4>1. QED BY <1>6, <1>10, <3>1, <3>2
    <2> HIDE DEF T
    <2>3. QED BY <2>1, <2>2, DepthIs, UpTo DEF T
  <1>12. ASSUME NEW d \in 1 .. Depth, NEW r \in Routers, NEW value \in Maps
         PROVE  search[d][r][value] = Visit(q, r, value, search[d - 1])
    <2>1. d \in 0 .. Depth
      BY DepthIs
    <2>2. search[d] = Next1(search[d - 1])
      <3> HIDE DEF Next1
      <3>1. QED BY <1>6, <1>10, <2>1
    <2>3. QED BY <2>2
  <1>13. ASSUME NEW r \in Routers, NEW value \in Maps PROVE search[0][r][value] = {}
    <2>1. 0 \in 0 .. Depth
      BY DepthIs
    <2>2. search[0] = first
      BY <1>5, <1>10, <2>1
    <2>3. QED BY <2>2
  <1>14. QED BY <1>9, <1>11, <1>12, <1>13

-----------------------------------------------------------------------------
(* Requests that no matcher touches.                                       *)

Acyclic == TypeOK /\ SearchTypes /\ Ringless(routers)

\* Below a sub router there are fewer routers than below the router.
LEMMA FewerBelow ==
  ASSUME Acyclic, NEW r \in Routers
  PROVE  /\ Cardinality(Below(r)) \in Nat /\ Cardinality(Below(r)) <= Depth
         /\ r \in Below(r) /\ Below(r) \subseteq Routers
         /\ Below(r) = {r} \cup UNION {Below(c) : c \in Children(r)}
         /\ \A c \in Children(r) : /\ c \in Routers /\ Below(c) \subseteq Below(r) /\ r \notin Below(c)
                                   /\ Cardinality(Below(c)) < Cardinality(Below(r))
  <1>1. routers \in Trees /\ TypeOK /\ Ringless(routers) /\ IsFiniteSet(Routers)
    BY ChildrenAre, SearchAssumption DEF Acyclic
  <1>2. r \in Below(r) /\ Below(r) \subseteq Routers
    BY <1>1, BelowIsUnder, UnderIs
  <1>3. Below(r) = {r} \cup UNION {Below(c) : c \in Children(r)}
    BY <1>1, BelowIsUnder, UnderSplits
  <1>4. \A S \in SUBSET Routers : IsFiniteSet(S) /\ Cardinality(S) \in Nat /\ Cardinality(S) <= Depth
    BY <1>1, FS_Subset, FS_CardinalityType DEF Depth
  <1>5. ASSUME NEW c \in Children(r)
        PROVE  /\ c \in Routers /\ Below(c) \subseteq Below(r) /\ r \notin Below(c)
               /\ Cardinality(Below(c)) < Cardinality(Below(r))
    <2>1. c \in Routers
      BY <1>1, ChildrenAre
    <2>2. Below(c) \subseteq Below(r)
      BY <1>3
    <2>3. r \notin Below(c)
      BY <1>1, BelowIsUnder DEF Ringless
    <2> DEFINE S == Below(r) \ {r}
    <2>4. Below(c) \subseteq S /\ S \in SUBSET Routers
      BY <1>2, <2>2, <2>3
    <2>5. Cardinality(S) = Cardinality(Below(r)) - 1
      BY <1>2, <1>4, FS_RemoveElement
    <2>6. Cardinality(Below(c)) <= Cardinality(S)
      <3> HIDE DEF S
      <3>1. QED BY <1>4, <2>4, FS_Subset
    <2>7. Cardinality(S) \in Nat /\ Cardinality(Below(c)) \in Nat /\ Cardinality(Below(r)) \in Nat
      <3>1. Below(c) \in SUBSET Routers /\ Below(r) \in SUBSET Routers
        BY <1>2, <2>2
      <3> HIDE DEF S
      <3>2. QED BY <1>4, <2>4, <3>1
    <2> HIDE DEF S
    <2>8. QED BY <2>1, <2>2, <2>3, <2>5, <2>6, <2>7
  <1>6. QED BY <1>2, <1>3, <1>4, <1>5

\* Open, a router and its sub routers at a time.
LEMMA OpenIs ==
  ASSUME TypeOK, NEW r \in Routers, NEW q
  PROVE  /\ Open(r, q) = IF Accepts(r, q) THEN {r} \cup UNION {Open(c, q) : c \in Children(r)} ELSE {}
         /\ Open(r, q) \subseteq Routers
  <1> DEFINE rs == [s \in Routers |-> [n \in Names |-> IF routers[s][n] \in Children(s) /\ Accepts(routers[s][n], q)
                                                      THEN routers[s][n] ELSE None]]
             Of(s) == {c \in Children(s) : Accepts(c, q)}
  <1>1. rs \in Trees /\ \A s \in Routers : Children(s) \in SUBSET Routers
    BY DEF TypeOK, Trees, Children
  <1>2. \A s \in Routers : Kids(rs, s) = Of(s)
    BY TreeAssumption DEF TypeOK, Kids, Children
  <1> HIDE DEF rs
  <1>3. \A s \in Routers : Open(s, q) = IF Accepts(s, q) THEN Under(rs, s) ELSE {}
    <2>1. \A T \in SUBSET Routers : (\A t \in T : Of(t) \subseteq T) <=> Closed(rs, T)
      BY <1>2 DEF Closed
    <2>2. \A s \in Routers : Under(rs, s) = {u \in Routers : \A T \in SUBSET Routers :
                                 (s \in T /\ \A t \in T : Of(t) \subseteq T) => u \in T}
      BY <2>1 DEF Under
    <2>3. QED BY <2>2 DEF Open, Closure
  <1>4. Under(rs, r) = {r} \cup UNION {Under(rs, c) : c \in Of(r)} /\ Under(rs, r) \subseteq Routers
    BY <1>1, <1>2, UnderSplits, UnderIs
  <1>5. UNION {Open(c, q) : c \in Children(r)} = UNION {Under(rs, c) : c \in Of(r)}
    <2>1. \A c \in Children(r) : Open(c, q) = IF c \in Of(r) THEN Under(rs, c) ELSE {}
      BY <1>1, <1>3
    <2> HIDE DEF Of
    <2>2. Of(r) \subseteq Children(r)
      BY DEF Of
    <2>3. QED BY <2>1, <2>2
  <1>6. QED BY <1>3, <1>4, <1>5

\* What a search below r owes a request that matchers may refuse but do not change.
Served(q, r, S) ==
  /\ S # {}
  /\ \A found \in S :
       IF found[1] = None THEN found[2] = Fresh(q) /\ \A x \in Open(r, q) : q.path \notin Routes[x]
       ELSE q.path \in Routes[found[1]] /\ found[1] \in Open(r, q)

\* After some of the sub routers.
ServedBy(q, r, o, i, S) ==
  /\ S # {}
  /\ \A found \in S :
       IF found[1] = None THEN found[2] = Fresh(q) /\ \A j \in 1 .. i : \A x \in Open(o[j], q) : q.path \notin Routes[x]
       ELSE q.path \in Routes[found[1]] /\ found[1] \in Open(r, q)

LEMMA AskServes ==
  ASSUME Acyclic, NEW q \in Requests, NEW r \in Routers, NEW o \in Orders(Children(r)), NEW deeper \in Searches,
         Accepts(r, q), \A c \in Children(r) : Served(q, c, deeper[c][Fresh(q)])
  PROVE  Served(q, r, AskSubs(r, o, Fresh(q), deeper))
  <1> DEFINE n == Cardinality(Children(r))
             A == Asked(o, Fresh(q), deeper)
  <1>0. Open(r, q) = {r} \cup UNION {Open(c, q) : c \in Children(r)}
    BY OpenIs DEF Acyclic
  <1>1. Children(r) \in SUBSET Routers
    BY ChildrenAre DEF Acyclic
  <1>2. /\ n \in Nat /\ o \in [1 .. n -> Routers]
        /\ \A i \in 1 .. n : o[i] \in Children(r)
        /\ \A c \in Children(r) : \E i \in 1 .. n : o[i] = c
    BY <1>1, OrdersAre
  <1> HIDE DEF n
  <1>3. /\ Len(o) = n /\ A[0] = {<<None, Fresh(q)>>}
        /\ \A i \in 1 .. n : A[i] = AskNext(A[i - 1], o[i], deeper)
        /\ \A i \in 0 .. n : A[i] \in SUBSET Outcomes
    <2>1. Fresh(q) \in Maps
      BY RequestIs
    <2>2. Asks(A, n, o, Fresh(q), deeper)
      BY <1>2, <2>1, AskedIs
    <2> HIDE DEF A
    <2>3. QED BY <2>2 DEF Asks
  <1> HIDE DEF A
  <1>4. \A i \in 0 .. n : i \in {k \in 0 .. n : ServedBy(q, r, o, k, A[k])}
    <2> DEFINE T == {k \in 0 .. n : ServedBy(q, r, o, k, A[k])}
    <2>1. 0 \in T
      <3>1. ServedBy(q, r, o, 0, {<<None, Fresh(q)>>})
        BY DEF ServedBy
      <3>2. A[0] = {<<None, Fresh(q)>>} /\ 0 \in 0 .. n
        BY <1>2, <1>3
      <3>3. ServedBy(q, r, o, 0, A[0])
        BY <3>1, <3>2, Zenon
      <3>4. QED BY <3>2, <3>3
    <2>2. ASSUME NEW i \in 1 .. n, i - 1 \in T PROVE i \in T
      <3>1. i \in 0 .. n /\ ServedBy(q, r, o, i - 1, A[i - 1]) /\ o[i] \in Children(r)
        BY <1>2, <2>2
      <3>2. Served(q, o[i], deeper[o[i]][Fresh(q)]) /\ Open(o[i], q) \subseteq Open(r, q)
        BY <1>0, <3>1
      <3> DEFINE Of(found) == IF found[1] = None THEN deeper[o[i]][found[2]] ELSE {found}
      <3>3. A[i] = UNION {Of(found) : found \in A[i - 1]}
        BY <1>3 DEF AskNext
      <3>4. ASSUME NEW found \in A[i - 1] PROVE ServedBy(q, r, o, i, Of(found))
        <4>1. CASE found[1] = None
          <5>1. found[2] = Fresh(q) /\ \A j \in 1 .. (i - 1) : \A x \in Open(o[j], q) : q.path \notin Routes[x]
            BY <3>1, <3>4, <4>1 DEF ServedBy
          <5>2. Of(found) = deeper[o[i]][Fresh(q)]
            BY <4>1, <5>1
          <5>3. \A j \in 1 .. i : j = i \/ j \in 1 .. (i - 1)
            OBVIOUS
          <5> DEFINE S == deeper[o[i]][Fresh(q)]
          <5>4. S # {} /\ Served(q, o[i], S)
            BY <3>2 DEF Served
          <5> HIDE DEF S
          <5>5. ASSUME NEW other \in S
                PROVE  IF other[1] = None
                       THEN other[2] = Fresh(q) /\ \A j \in 1 .. i : \A x \in Open(o[j], q) : q.path \notin Routes[x]
                       ELSE q.path \in Routes[other[1]] /\ other[1] \in Open(r, q)
            BY <3>2, <5>1, <5>3, <5>4 DEF Served
          <5>6. ServedBy(q, r, o, i, S)
            BY <5>4, <5>5 DEF ServedBy
          <5>7. QED BY <5>2, <5>6 DEF S
        <4>2. CASE found[1] # None
          <5>1. q.path \in Routes[found[1]] /\ found[1] \in Open(r, q)
            BY <3>1, <3>4, <4>2 DEF ServedBy
          <5>2. Of(found) = {found}
            BY <4>2
          <5>3. ServedBy(q, r, o, i, {found})
            BY <4>2, <5>1 DEF ServedBy
          <5>4. QED BY <5>2, <5>3
        <4>3. QED BY <4>1, <4>2
      <3>5. A[i - 1] # {}
        BY <3>1 DEF ServedBy
      <3> HIDE DEF Of
      <3>6. A[i] # {}
        BY <3>3, <3>4, <3>5 DEF ServedBy
      <3>7. \A other \in A[i] : \E found \in A[i - 1] : other \in Of(found)
        BY <3>3
      <3>8. ServedBy(q, r, o, i, A[i])
        BY <3>4, <3>6, <3>7 DEF ServedBy
      <3>9. QED BY <3>1, <3>8
    <2> HIDE DEF T
    <2>3. QED BY <1>2, <2>1, <2>2, UpTo DEF T
  <1>5. ServedBy(q, r, o, n, A[n]) /\ A[n] \in SUBSET Outcomes
    <2>1. n \in 0 .. n
      BY <1>2
    <2>2. QED BY <1>3, <1>4, <2>1
  <1> DEFINE Own(found) == IF found[1] = None /\ found[2].path \in Routes[r] THEN <<r, found[2]>> ELSE found
  <1>6. AskSubs(r, o, Fresh(q), deeper) = {Own(found) : found \in A[n]}
    BY <1>3 DEF AskSubs, A
  <1>7. ASSUME NEW found \in A[n]
        PROVE  IF Own(found)[1] = None
               THEN Own(found)[2] = Fresh(q) /\ \A x \in Open(r, q) : q.path \notin Routes[x]
               ELSE q.path \in Routes[Own(found)[1]] /\ Own(found)[1] \in Open(r, q)
    <2>1. r # None /\ r \in Open(r, q)
      BY <1>0, TreeAssumption
    <2>2. Fresh(q).path = q.path
      BY DEF Fresh
    <2>3. CASE found[1] = None
      <3>1. found[2] = Fresh(q) /\ \A j \in 1 .. n : \A x \in Open(o[j], q) : q.path \notin Routes[x]
        BY <1>5, <2>3 DEF ServedBy
      <3>2. \A c \in Children(r) : \A x \in Open(c, q) : q.path \notin Routes[x]
        BY <1>2, <3>1
      <3>3. CASE q.path \in Routes[r]
        <4>1. Own(found) = <<r, found[2]>>
          BY <2>2, <2>3, <3>1, <3>3
        <4>2. QED BY <2>1, <3>3, <4>1
      <3>4. CASE q.path \notin Routes[r]
        <4>1. Own(found) = found
          BY <2>2, <3>1, <3>4
        <4>2. QED BY <1>0, <2>3, <3>1, <3>2, <3>4, <4>1
      <3>5. QED BY <3>3, <3>4
    <2>4. CASE found[1] # None
      <3>1. Own(found) = found
        BY <2>4
      <3>2. QED BY <1>5, <2>4, <3>1 DEF ServedBy
    <2>5. QED BY <2>3, <2>4
  <1>8. A[n] # {}
    BY <1>5 DEF ServedBy
  <1> HIDE DEF Own
  <1>9. QED BY <1>6, <1>7, <1>8 DEF Served

Untouched(q) == \A r \in Below(Root) : Accepts(r, q) \/ Refuses(r, q)

LEMMA VisitServes ==
  ASSUME Acyclic, NEW q \in Requests, NEW r \in Below(Root), Untouched(q), NEW deeper \in Searches,
         \A c \in Children(r) : Served(q, c, deeper[c][Fresh(q)])
  PROVE  Served(q, r, Visit(q, r, Fresh(q), deeper))
  <1>1. r \in Routers
    BY DepthIs, FewerBelow
  <1> DEFINE S == UNION {AskSubs(r, o, Fresh(q), deeper) : o \in Orders(Children(r))}
             Of(can) == IF can[1] THEN UNION {AskSubs(r, o, can[2], deeper) : o \in Orders(Children(r))}
                        ELSE {<<None, can[2]>>}
  <1>2. Of(<<TRUE, Fresh(q)>>) = S /\ Of(<<FALSE, Fresh(q)>>) = {<<None, Fresh(q)>>}
    OBVIOUS
  <1>3. Visit(q, r, Fresh(q), deeper) = UNION {Of(can) : can \in CanRouteRequest(r, q, Fresh(q))}
    BY DEF Visit
  <1>4. CASE Accepts(r, q)
    <2>1. \A o \in Orders(Children(r)) : Served(q, r, AskSubs(r, o, Fresh(q), deeper))
      BY <1>1, <1>4, AskServes
    <2>2. Orders(Children(r)) # {}
      BY <1>1, ChildrenAre, OrdersAre DEF Acyclic
    <2>3. S # {}
      BY <2>1, <2>2 DEF Served
    <2>4. Served(q, r, S)
      BY <2>1, <2>3 DEF Served
    <2> HIDE DEF Of, S
    <2>5. UNION {Of(can) : can \in {<<TRUE, Fresh(q)>>}} = Of(<<TRUE, Fresh(q)>>)
      BY Zenon
    <2>6. Visit(q, r, Fresh(q), deeper) = S
      BY <1>2, <1>3, <1>4, <2>5, Zenon DEF Accepts
    <2>7. QED BY <2>4, <2>6
  <1>5. CASE Refuses(r, q)
    <2>1. ~ Accepts(r, q)
      <3> DEFINE no == <<FALSE, Fresh(q)>>
                 yes == <<TRUE, Fresh(q)>>
      <3>1. no # yes
        <4>1. no[1] = FALSE /\ yes[1] = TRUE
          OBVIOUS
        <4> HIDE DEF no, yes
        <4>2. QED BY <4>1
      <3> HIDE DEF no, yes
      <3>2. {no} # {yes}
        BY <3>1
      <3>3. QED BY <1>5, <3>2, Zenon DEF Accepts, Refuses, no, yes
    <2>2. Open(r, q) = {}
      BY <2>1 DEF Open
    <2>3. Served(q, r, {<<None, Fresh(q)>>})
      BY <2>2 DEF Served
    <2> HIDE DEF Of, S
    <2>4. UNION {Of(can) : can \in {<<FALSE, Fresh(q)>>}} = Of(<<FALSE, Fresh(q)>>)
      BY Zenon
    <2>5. Visit(q, r, Fresh(q), deeper) = {<<None, Fresh(q)>>}
      BY <1>2, <1>3, <1>5, <2>4, Zenon DEF Refuses
    <2>6. QED BY <2>3, <2>5
  <1>6. QED BY <1>4, <1>5 DEF Untouched

LEMMA SearchServes ==
  ASSUME Acyclic, NEW q \in Requests, Untouched(q)
  PROVE  Served(q, Root, FindRequestedEndPoint(q))
  <1> DEFINE Good(d) == \A r \in Below(Root) : Cardinality(Below(r)) <= d => Served(q, r, Search(q)[d][r][Fresh(q)])
             T == {d \in 0 .. Depth : Good(d)}
  <1>1. Below(Root) \subseteq Routers /\ Root \in Below(Root) /\ Cardinality(Below(Root)) <= Depth
    BY DepthIs, FewerBelow
  <1>2. 0 \in T
    <2>1. ASSUME NEW r \in Below(Root), Cardinality(Below(r)) <= 0 PROVE FALSE
      <3>1. r \in Below(r) /\ Below(r) \subseteq Routers /\ Cardinality(Below(r)) \in Nat
        BY <1>1, FewerBelow
      <3>2. IsFiniteSet(Below(r)) /\ Cardinality(Below(r)) = 0
        <4>1. IsFiniteSet(Below(r))
          BY <3>1, DepthIs, FS_Subset
        <4>2. QED BY <2>1, <3>1, <4>1
      <3>3. QED BY <3>1, <3>2, FS_EmptySet
    <2>2. QED BY <2>1, DepthIs
  <1>3. ASSUME NEW d \in 1 .. Depth, d - 1 \in T PROVE d \in T
    <2>1. ASSUME NEW r \in Below(Root), Cardinality(Below(r)) <= d
          PROVE  Served(q, r, Search(q)[d][r][Fresh(q)])
      <3>1. r \in Routers /\ Cardinality(Below(r)) \in Nat
        BY <1>1, FewerBelow
      <3>2. Search(q)[d - 1] \in Searches
        <4>1. d - 1 \in 0 .. Depth
          BY DepthIs
        <4>2. QED BY <4>1, SearchIs DEF Acyclic
      <3>3. ASSUME NEW c \in Children(r) PROVE Served(q, c, Search(q)[d - 1][c][Fresh(q)])
        <4>1. c \in Routers /\ Cardinality(Below(c)) < Cardinality(Below(r)) /\ Cardinality(Below(c)) \in Nat
          <5>1. c \in Routers /\ Cardinality(Below(c)) < Cardinality(Below(r))
            BY <3>1, FewerBelow
          <5>2. QED BY <5>1, FewerBelow
        <4>2. Cardinality(Below(c)) <= d - 1
          BY <2>1, <3>1, <4>1, DepthIs
        <4>3. c \in Below(Root)
          <5>1. Children(r) \subseteq Below(r)
            <6>1. \A x \in Children(r) : x \in Routers /\ Below(x) \subseteq Below(r)
              BY <3>1, FewerBelow
            <6>2. \A x \in Children(r) : x \in Below(x)
              BY <6>1, FewerBelow
            <6>3. QED BY <6>1, <6>2
          <5>2. Below(r) \subseteq Below(Root)
            BY <1>1, <2>1, BelowIsUnder, UnderUnder, DepthIs, ChildrenAre DEF Acyclic
          <5>3. QED BY <5>1, <5>2
        <4>4. QED BY <1>3, <4>2, <4>3
      <3>4. Served(q, r, Visit(q, r, Fresh(q), Search(q)[d - 1]))
        BY <2>1, <3>2, <3>3, VisitServes
      <3>5. Fresh(q) \in Maps
        BY RequestIs
      <3>6. Search(q)[d][r][Fresh(q)] = Visit(q, r, Fresh(q), Search(q)[d - 1])
        BY <3>1, <3>5, SearchIs DEF Acyclic
      <3>7. QED BY <3>4, <3>6
    <2>2. d \in 0 .. Depth
      BY DepthIs
    <2>3. QED BY <2>1, <2>2
  <1> HIDE DEF T
  <1>4. \A d \in 0 .. Depth : d \in T
    BY <1>2, <1>3, DepthIs, UpTo
  <1>5. Good(Depth)
    <2>1. Depth \in 0 .. Depth
      BY DepthIs
    <2>2. QED BY <1>4, <2>1 DEF T
  <1>6. QED BY <1>1, <1>5 DEF FindRequestedEndPoint

LEMMA AcyclicServes ==
  ASSUME Acyclic
  PROVE  PlainRequestsServed
  <1>1. ASSUME NEW q \in Requests, Untouched(q)
        PROVE  /\ FindRequestedEndPoint(q) # {}
               /\ \A found \in FindRequestedEndPoint(q) :
                    IF found[1] = None THEN \A r \in Open(Root, q) : q.path \notin Routes[r]
                    ELSE q.path \in Routes[found[1]] /\ found[1] \in Open(Root, q)
    BY <1>1, SearchServes DEF Served
  <1>2. QED BY <1>1 DEF PlainRequestsServed, Untouched

-----------------------------------------------------------------------------
(* No call makes a ring.                                                   *)

\* No router has a sub router, a host or a path prefix yet (router.go:12-20).
LEMMA AcyclicBegins == Init => Acyclic
  <1> SUFFICES ASSUME Init PROVE Acyclic
    OBVIOUS
  <1>1. TypeOK
    BY Begins DEF IInv
  <1>2. SearchTypes
    <2>1. NoHost \in Hostnames /\ <<>> \in Seq(Strings)
      BY DEF NoHost, Hostnames
    <2>2. QED BY <2>1 DEF Init, SearchTypes
  <1>3. \A p \in Routers : Kids(routers, p) = {}
    BY DEF Init, Kids
  <1>4. QED BY <1>1, <1>2, <1>3 DEF Acyclic, Ringless

\* A change of one host or path prefix (router.go:383-443).
LEMMA SetKeepsTypes ==
  ASSUME SearchTypes,
         \/ \E r \in Configured, h \in Hosts \cup {NoHost} : SetHost(r, h)
         \/ \E r \in Configured, p \in PathPrefixes \cup {<<>>} : SetPathPrefix(r, p)
  PROVE  SearchTypes' /\ routers' = routers
  <1>1. Hosts \cup {NoHost} \subseteq Hostnames /\ PathPrefixes \cup {<<>>} \subseteq Seq(Strings)
    <2>1. NoHost \in Hostnames /\ <<>> \in Seq(Strings)
      BY DEF NoHost, Hostnames
    <2>2. QED BY <2>1, SearchAssumption DEF Hostnames
  <1>2. ASSUME NEW r \in Configured, NEW h \in Hosts \cup {NoHost}, SetHost(r, h)
        PROVE  SearchTypes' /\ routers' = routers
    <2>1. h \in Hostnames /\ host' = [host EXCEPT ![r] = h] /\ pathprefix' = pathprefix /\ routers' = routers
      BY <1>1, <1>2 DEF SetHost
    <2>2. QED BY <2>1 DEF SearchTypes
  <1>3. ASSUME NEW r \in Configured, NEW p \in PathPrefixes \cup {<<>>}, SetPathPrefix(r, p)
        PROVE  SearchTypes' /\ routers' = routers
    <2>1. p \in Seq(Strings) /\ pathprefix' = [pathprefix EXCEPT ![r] = p] /\ host' = host /\ routers' = routers
      BY <1>1, <1>3 DEF SetPathPrefix
    <2>2. QED BY <2>1 DEF SearchTypes
  <1>4. QED BY <1>2, <1>3

\* What is reset, or deleted by name, is in fewer maps after (router.go:511-559).
LEMMA ForgettingStaysRingless ==
  ASSUME TypeOK, NEW c \in Routers, NEW rs \in Trees, Ringless(routers), routers' \in Forgotten(rs, c),
         \A q \in Routers, m \in Names : rs[q][m] \in {routers[q][m], None}
  PROVE  Ringless(routers')
  <1>1. rs \in [Routers -> [Names -> Routers \cup {None}]]
    BY DEF Trees
  <1>2. /\ routers' \in [Routers -> [Names -> Routers \cup {None}]]
        /\ \A q \in Routers, m \in Names :
               routers'[q][m] = rs[q][m] \/ (rs[q][m] = c /\ routers'[q][m] = None)
        /\ \/ routers' = rs /\ (parent[c] = None \/ c \in Apps \/ NamesOf(rs, parent[c], c) = {})
           \/ \E n \in NamesOf(rs, parent[c], c) :
                  n = "" \/ (parent[c] \in Routers /\ routers'[parent[c]][n] = None)
    BY <1>1, ForgottenNames
  <1>3. \A q \in Routers : Kids(routers', q) \subseteq Kids(routers, q)
    <2>1. \A q \in Routers, m \in Names : routers'[q][m] \in {routers[q][m], None}
      BY <1>2
    <2>2. QED BY <2>1 DEF Kids
  <1>4. routers' \in Trees /\ routers \in Trees
    BY <1>2 DEF TypeOK, Trees
  <1>5. QED BY <1>3, <1>4, LessStaysRingless

LEMMA TakeStaysRingless ==
  ASSUME TypeOK, Ringless(routers), NEW p \in Routers, NEW n \in Names, routers[p][n] # None, Take(p, n)
  PROVE  Ringless(routers')
  <1> DEFINE rs == [routers EXCEPT ![p][n] = None]
  <1>1. routers[p][n] \in Routers
    BY DEF TypeOK
  <1>2. rs \in Trees /\ \A q \in Routers, m \in Names : rs[q][m] \in {routers[q][m], None}
    BY DEF TypeOK, Trees
  <1>3. routers' \in Forgotten(rs, routers[p][n])
    BY DEF Take
  <1> HIDE DEF rs
  <1>4. QED BY <1>1, <1>2, <1>3, ForgettingStaysRingless

LEMMA AddRouterStaysRingless ==
  ASSUME TypeOK, Ringless(routers), NEW p \in Routers, NEW n \in Names, NEW c \in Routers, AddRouter(p, n, c)
  PROVE  Ringless(routers')
  <1>1. p \notin Under(routers, c) /\ routers' = [routers EXCEPT ![p][n] = c]
    BY BelowIsUnder DEF AddRouter
  <1>2. routers \in Trees /\ routers' \in Trees
    BY <1>1 DEF TypeOK, Trees
  <1>3. \A r \in Routers, m \in Names : routers'[r][m] = IF r = p /\ m = n THEN c ELSE routers[r][m]
    BY <1>1 DEF TypeOK
  <1>4. AddsOnly(routers, routers', p, c)
    BY <1>3 DEF AddsOnly, Kids
  <1>5. QED BY <1>1, <1>2, <1>4, AddStaysRingless

\* The invariant of the search: no router is below itself.
LEMMA AcyclicKept ==
  ASSUME Acyclic, [Next]_vars
  PROVE  SearchTypes' /\ Ringless(routers')
  <1>1. TypeOK /\ SearchTypes /\ Ringless(routers)
    BY DEF Acyclic
  <1>2. CASE UNCHANGED <<host, pathprefix, routers>>
    BY <1>1, <1>2 DEF SearchTypes
  <1>3. CASE \/ \E r \in Configured, h \in Hosts \cup {NoHost} : SetHost(r, h)
             \/ \E r \in Configured, p \in PathPrefixes \cup {<<>>} : SetPathPrefix(r, p)
    BY <1>1, <1>3, SetKeepsTypes
  <1>4. ASSUME UNCHANGED <<host, pathprefix>> PROVE SearchTypes'
    BY <1>1, <1>4 DEF SearchTypes
  <1>5. ASSUME NEW p \in Routers, NEW n \in Names, NEW c \in Routers, AddRouter(p, n, c)
        PROVE  SearchTypes' /\ Ringless(routers')
    <2>1. UNCHANGED <<host, pathprefix>>
      BY <1>5 DEF AddRouter
    <2>2. QED BY <1>1, <1>4, <1>5, <2>1, AddRouterStaysRingless
  <1>6. ASSUME NEW p \in Routers, NEW n \in Names, routers[p][n] # None, Take(p, n)
        PROVE  SearchTypes' /\ Ringless(routers')
    <2>1. UNCHANGED <<host, pathprefix>>
      BY <1>6 DEF Take
    <2>2. QED BY <1>1, <1>4, <1>6, <2>1, TakeStaysRingless
  <1>7. ASSUME NEW c \in Routers, ResetParent(c)
        PROVE  SearchTypes' /\ Ringless(routers')
    <2>1. UNCHANGED <<host, pathprefix>> /\ routers' \in Forgotten(routers, c)
      BY <1>7 DEF ResetParent
    <2>2. routers \in Trees /\ \A q \in Routers, m \in Names : routers[q][m] \in {routers[q][m], None}
      BY <1>1 DEF TypeOK, Trees
    <2>3. QED BY <1>1, <1>4, <2>1, <2>2, ForgettingStaysRingless
  <1>8. ASSUME NEW p \in Routers, NEW c \in Routers, DelRouter(p, c)
        PROVE  SearchTypes' /\ Ringless(routers')
    <2>1. PICK n \in Names : routers[p][n] = c /\ Take(p, n)
      BY <1>8 DEF DelRouter, NamesOf
    <2>2. QED BY <1>6, <2>1, TreeAssumption
  <1>9. ASSUME NEW p \in Routers, NEW n \in Names, DelRouterByName(p, n)
        PROVE  SearchTypes' /\ Ringless(routers')
    BY <1>6, <1>9 DEF DelRouterByName
  <1>10. CASE UNCHANGED vars
    BY <1>2, <1>10 DEF vars
  <1>11. QED BY <1>3, <1>5, <1>7, <1>8, <1>9, <1>10 DEF Next

LEMMA AlwaysAcyclic == Spec => []Acyclic
  <1>1. IInv /\ Acyclic /\ [Next]_vars => (IInv /\ Acyclic)'
    <2>1. IInv /\ [Next]_vars => IInv'
      BY StepKeeps
    <2>2. ASSUME IInv', Acyclic, [Next]_vars PROVE Acyclic'
      <3>1. TypeOK'
        BY <2>2 DEF IInv
      <3>2. SearchTypes' /\ Ringless(routers')
        BY <2>2, AcyclicKept
      <3>3. QED BY <3>1, <3>2 DEF Acyclic, Ringless, Under, Closed, Kids
    <2>3. QED BY <2>1, <2>2
  <1>2. QED BY <1>1, Begins, AcyclicBegins, PTL DEF Spec

\* A request from which no matcher cuts anything is answered by a router that has its
\* path and that no refusal keeps it from, in whichever order the maps are visited,
\* and by none only if there is none such; and the search ends (README.md:277-287,
\* router.go:136-148, 569-591).
THEOREM PlainRequestsAlwaysServed == Spec => []PlainRequestsServed
  <1>1. Acyclic => PlainRequestsServed
    BY AcyclicServes
  <1>2. QED BY <1>1, AlwaysAcyclic, PTL
=============================================================================
