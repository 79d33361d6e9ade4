---------------------------- MODULE RoutingProofs ----------------------------
(***************************************************************************)
(* The five properties of Routing, for any patterns, switches and paths.   *)
(*                                                                         *)
(* IInv says that the tree, the end points and their names are what the    *)
(* registrations made of them: names begin with the variables of the       *)
(* latest registration, handlers are the latest for their method.          *)
(* WalksAreGood says what FindEndPoint captured on its way down.           *)
(***************************************************************************)
EXTENDS Routing, Integers, FiniteSetTheorems, SequenceTheorems, WellFoundedInduction, TLAPS

-----------------------------------------------------------------------------
(* Induction, as a fact about a set of numbers: provers that cannot be     *)
(* given a predicate can be given the set of numbers that have it.         *)

\* A set of numbers that is not empty has a least one.
LEMMA LeastNumber ==
  ASSUME NEW T \in SUBSET Nat, T # {}
  PROVE  \E m \in T : \A n \in T : m <= n
  <1> DEFINE below(n) == 0 .. (n - 1)
             B == {below(n) : n \in T}
  <1>1. B \subseteq FiniteSubsetsOf(Nat) /\ B # {}
    <2>1. ASSUME NEW n \in T PROVE below(n) \in FiniteSubsetsOf(Nat)
      BY FS_Interval DEF FiniteSubsetsOf
    <2>2. QED BY <2>1
  <1>2. PICK b \in B : \A c \in B : <<c, b>> \notin StrictSubsetOrdering(Nat)
    BY <1>1, FS_StrictSubsetOrderingWellFounded, WFMin
  <1>3. PICK m \in T : b = below(m)
    BY <1>2
  <1>4. ASSUME NEW n \in T, ~(m <= n) PROVE FALSE
    <2>1. below(n) \subseteq below(m) /\ n \in below(m) /\ n \notin below(n) /\ below(n) \in B
      BY <1>4
    <2>2. <<below(n), b>> \in StrictSubsetOrdering(Nat)
      BY <1>3, <2>1 DEF StrictSubsetOrdering
    <2>3. QED BY <1>2, <2>1, <2>2
  <1>5. QED BY <1>4

\* Induction over the numbers, for a set: the operator of NatInduction is out
\* of the provers' reach, a set {n \in Nat : ...} is not.
LEMMA Induction ==
  ASSUME NEW T, 0 \in T, \A n \in Nat : n \in T => n + 1 \in T
  PROVE  \A n \in Nat : n \in T
  <1> DEFINE S == Nat \ T
  <1>1. SUFFICES ASSUME S # {} PROVE FALSE
    OBVIOUS
  <1>2. PICK m \in S : \A n \in S : m <= n
    BY <1>1, LeastNumber
  <1>3. m # 0 /\ m - 1 \in Nat
    BY <1>2
  <1>4. m - 1 \in T
    BY <1>2, <1>3
  <1>5. (m - 1) + 1 \in T
    BY <1>3, <1>4
  <1>6. QED BY <1>2, <1>3, <1>5

-----------------------------------------------------------------------------
(* Counting variables.                                                     *)

Vars == {e.var : e \in Elements}

\* Count, as a recursion over the elements.
LEMMA CountIs ==
  ASSUME NEW P, NEW n \in Nat
  PROVE  /\ Count(P, n) \in 0 .. n
         /\ Count(P, 0) = 0
         /\ Count(P, n + 1) = IF IsVariable(P[n + 1]) THEN Count(P, n) + 1 ELSE Count(P, n)
  <1> DEFINE V(i) == {j \in 1 .. i : IsVariable(P[j])}
  <1>1. IsFiniteSet(1 .. n) /\ Cardinality(1 .. n) <= n
    BY FS_Interval
  <1>2. IsFiniteSet(V(n)) /\ Cardinality(V(n)) \in 0 .. n
    <2>1. V(n) \in SUBSET (1 .. n)
      OBVIOUS
    <2>2. IsFiniteSet(V(n)) /\ Cardinality(V(n)) <= Cardinality(1 .. n)
      BY <1>1, <2>1, FS_Subset
    <2>3. Cardinality(V(n)) \in Nat /\ Cardinality(1 .. n) \in Nat
      BY <1>1, <2>2, FS_CardinalityType
    <2>4. QED BY <1>1, <2>2, <2>3
  <1>3. Cardinality(V(0)) = 0
    <2>1. V(0) = {}
      OBVIOUS
    <2>2. QED BY <2>1, FS_EmptySet
  <1>4. CASE IsVariable(P[n + 1])
    <2>1. V(n + 1) = V(n) \cup {n + 1} /\ n + 1 \notin V(n)
      BY <1>4
    <2>2. Cardinality(V(n + 1)) = Cardinality(V(n)) + 1
      BY <1>2, <2>1, FS_AddElement
    <2>3. QED BY <1>2, <1>3, <1>4, <2>2 DEF Count
  <1>5. CASE ~(IsVariable(P[n + 1]))
    <2>1. V(n + 1) = V(n)
      BY <1>5
    <2>2. QED BY <1>2, <1>3, <1>5, <2>1 DEF Count
  <1>6. QED BY <1>4, <1>5

\* More elements have no fewer variables.
LEMMA CountGrows ==
  ASSUME NEW P, NEW m \in Nat, NEW n \in Nat, m <= n
  PROVE  Count(P, m) <= Count(P, n)
  <1> DEFINE V(i) == {j \in 1 .. i : IsVariable(P[j])}
  <1>1. V(m) \in SUBSET V(n)
    OBVIOUS
  <1>2. IsFiniteSet(V(n))
    <2>1. V(n) \in SUBSET (1 .. n) /\ IsFiniteSet(1 .. n)
      BY FS_Interval
    <2>2. QED BY <2>1, FS_Subset
  <1>3. Cardinality(V(m)) <= Cardinality(V(n))
    BY <1>1, <1>2, FS_Subset
  <1>4. QED BY <1>3 DEF Count

\* Each variable is counted at its own place.
LEMMA CountOwn ==
  ASSUME NEW P, NEW m \in Nat, NEW n \in Nat, m < n, IsVariable(P[n])
  PROVE  Count(P, m) < Count(P, n)
  <1>1. n - 1 \in Nat /\ m <= n - 1 /\ (n - 1) + 1 = n
    OBVIOUS
  <1>2. Count(P, n) = Count(P, n - 1) + 1 /\ Count(P, n - 1) \in Nat /\ Count(P, m) \in Nat
    BY <1>1, CountIs
  <1>3. Count(P, m) <= Count(P, n - 1)
    BY <1>1, CountGrows
  <1>4. QED BY <1>2, <1>3

\* Every count up to that of n elements is that of a variable among them.
LEMMA CountReached ==
  ASSUME NEW P, NEW n \in Nat, NEW k \in 1 .. Count(P, n)
  PROVE  \E j \in 1 .. n : IsVariable(P[j]) /\ Count(P, j) = k
  <1> DEFINE T == {i \in Nat : \A l \in 1 .. Count(P, i) : \E j \in 1 .. i : IsVariable(P[j]) /\ Count(P, j) = l}
  <1>1. 0 \in T
    <2>1. Count(P, 0) = 0
      BY CountIs
    <2>2. QED BY <2>1
  <1>2. ASSUME NEW i \in Nat, i \in T PROVE i + 1 \in T
    <2>1. SUFFICES ASSUME NEW l \in 1 .. Count(P, i + 1)
                   PROVE  \E j \in 1 .. (i + 1) : IsVariable(P[j]) /\ Count(P, j) = l
      BY <1>2
    <2>2. /\ Count(P, i) \in Nat
          /\ Count(P, i + 1) = IF IsVariable(P[i + 1]) THEN Count(P, i) + 1 ELSE Count(P, i)
      BY CountIs, <1>2
    <2>3. CASE l \in 1 .. Count(P, i)
      <3>1. \E j \in 1 .. i : IsVariable(P[j]) /\ Count(P, j) = l
        BY <1>2, <2>3
      <3>2. 1 .. i \subseteq 1 .. (i + 1)
        BY <1>2
      <3>3. QED BY <3>1, <3>2
    <2>4. CASE l \notin 1 .. Count(P, i)
      <3>1. IsVariable(P[i + 1]) /\ Count(P, i + 1) = l
        BY <2>2, <2>4
      <3>2. i + 1 \in 1 .. (i + 1)
        BY <1>2
      <3>3. QED BY <3>1, <3>2
    <2>5. QED BY <2>3, <2>4
  <1>3. n \in T
    <2> HIDE DEF T
    <2>1. QED BY <1>1, <1>2, Induction
  <1>4. QED BY <1>3

\* Patterns with variables at the same places count alike.
LEMMA CountSame ==
  ASSUME NEW P, NEW Q, NEW n \in Nat, \A j \in 1 .. n : IsVariable(P[j]) <=> IsVariable(Q[j])
  PROVE  Count(P, n) = Count(Q, n)
  <1>1. {j \in 1 .. n : IsVariable(P[j])} = {j \in 1 .. n : IsVariable(Q[j])}
    OBVIOUS
  <1>2. QED BY <1>1 DEF Count

\* names begin with the variables among the first n elements of P.
Naming(names, P, n) ==
    /\ Len(names) >= Count(P, n)
    /\ \A j \in 1 .. n : IsVariable(P[j]) => names[Count(P, j)] = P[j].var

\* VarNames gives each variable's name at its count, and no other names.
LEMMA VarNamesOf ==
  ASSUME NEW P \in Seq(Elements), NEW n \in 0 .. Len(P)
  PROVE  /\ VarNames(P, n) \in Seq(Vars)
         /\ Len(VarNames(P, n)) = Count(P, n)
         /\ Naming(VarNames(P, n), P, n)
  <1> DEFINE at(k) == CHOOSE j \in 1 .. n : IsVariable(P[j]) /\ Count(P, j) = k
  <1>1. Count(P, n) \in Nat /\ Len(P) \in Nat /\ n \in Nat
    BY CountIs
  <1>2. ASSUME NEW k \in 1 .. Count(P, n)
        PROVE  at(k) \in 1 .. n /\ IsVariable(P[at(k)]) /\ Count(P, at(k)) = k
    <2>1. \E j \in 1 .. n : IsVariable(P[j]) /\ Count(P, j) = k
      BY <1>1, CountReached
    <2>2. QED BY <2>1
  <1>3. ASSUME NEW k \in 1 .. Count(P, n) PROVE P[at(k)].var \in Vars
    <2>1. at(k) \in 1 .. Len(P)
      BY <1>1, <1>2
    <2>2. P[at(k)] \in Elements
      BY <2>1
    <2>3. QED BY <2>2 DEF Vars
  <1>4. VarNames(P, n) = [k \in 1 .. Count(P, n) |-> P[at(k)].var]
    BY DEF VarNames
  <1> HIDE DEF at
  <1>5. VarNames(P, n) \in Seq(Vars) /\ Len(VarNames(P, n)) = Count(P, n)
    BY <1>1, <1>3, <1>4
  <1>6. ASSUME NEW j \in 1 .. n, IsVariable(P[j])
        PROVE  VarNames(P, n)[Count(P, j)] = P[j].var
    <2>1. Count(P, j) \in 1 .. Count(P, n)
      <3>1. Count(P, 0) < Count(P, j) /\ Count(P, 0) = 0 /\ Count(P, j) \in Nat
        BY <1>1, <1>6, CountOwn, CountIs
      <3>2. Count(P, j) <= Count(P, n)
        BY <1>1, CountGrows
      <3>3. QED BY <1>1, <3>1, <3>2
    <2>2. at(Count(P, j)) = j
      <3>1. /\ at(Count(P, j)) \in 1 .. n /\ IsVariable(P[at(Count(P, j))])
            /\ Count(P, at(Count(P, j))) = Count(P, j)
        BY <1>2, <2>1
      <3>2. at(Count(P, j)) < j => FALSE
        <4>1. at(Count(P, j)) < j => Count(P, at(Count(P, j))) < Count(P, j)
          BY <1>1, <1>6, <3>1, CountOwn
        <4>2. QED BY <1>1, <2>1, <3>1, <4>1
      <3>3. j < at(Count(P, j)) => FALSE
        <4>1. j < at(Count(P, j)) => Count(P, j) < Count(P, at(Count(P, j)))
          BY <1>1, <3>1, CountOwn
        <4>2. QED BY <1>1, <2>1, <3>1, <4>1
      <3>4. QED BY <1>1, <3>1, <3>2, <3>3
    <2>3. QED BY <1>4, <2>1, <2>2
  <1>7. QED BY <1>1, <1>5, <1>6 DEF Naming

\* Names for n elements are names for fewer.
LEMMA NamingLess ==
  ASSUME NEW names, NEW P, NEW n \in Nat, NEW i \in 0 .. n, Len(names) \in Nat, Naming(names, P, n)
  PROVE  Naming(names, P, i)
  <1>1. Count(P, i) <= Count(P, n) /\ Count(P, i) \in Nat /\ Count(P, n) \in Nat
    BY CountGrows, CountIs
  <1>2. QED BY <1>1 DEF Naming

\* Names put behind do not matter.
LEMMA NamingMore ==
  ASSUME NEW names \in Seq(Vars), NEW more \in Seq(Vars), NEW P, NEW n \in Nat, Naming(names, P, n)
  PROVE  Naming(names \o more, P, n)
  <1>1. Len(names \o more) = Len(names) + Len(more)
    OBVIOUS
  <1>2. ASSUME NEW j \in 1 .. n, IsVariable(P[j])
        PROVE  (names \o more)[Count(P, j)] = P[j].var
    <2>1. Count(P, j) \in 1 .. Len(names)
      <3>1. Count(P, 0) < Count(P, j) /\ Count(P, 0) = 0 /\ Count(P, j) \in Nat
        BY <1>2, CountOwn, CountIs
      <3>2. Count(P, j) <= Count(P, n) /\ Count(P, n) \in Nat
        BY CountGrows, CountIs
      <3>3. QED BY <3>1, <3>2 DEF Naming
    <2>2. (names \o more)[Count(P, j)] = names[Count(P, j)]
      BY <2>1
    <2>3. QED BY <1>2, <2>2 DEF Naming
  <1>3. Len(names \o more) >= Count(P, n)
    <2>1. Count(P, n) \in Nat
      BY CountIs
    <2>2. Len(names) >= Count(P, n)
      BY DEF Naming
    <2>3. Len(names) \in Nat /\ Len(more) \in Nat
      OBVIOUS
    <2>4. QED BY <1>1, <2>1, <2>2, <2>3
  <1>4. QED BY <1>2, <1>3 DEF Naming

\* The variables of P \o Q are those of P and those of Q.
LEMMA ConcatCount ==
  ASSUME NEW S, NEW P \in Seq(S), NEW Q \in Seq(S), NEW n \in 0 .. Len(Q)
  PROVE  Count(P \o Q, Len(P) + n) = Count(P, Len(P)) + Count(Q, n)
  <1> DEFINE T == {i \in Nat : i <= Len(Q) => Count(P \o Q, Len(P) + i) = Count(P, Len(P)) + Count(Q, i)}
  <1>1. 0 \in T
    <2>1. Count(P \o Q, Len(P)) = Count(P, Len(P))
      <3>1. \A j \in 1 .. Len(P) : (P \o Q)[j] = P[j]
        OBVIOUS
      <3>2. \A j \in 1 .. Len(P) : IsVariable((P \o Q)[j]) <=> IsVariable(P[j])
        BY <3>1
      <3>3. Len(P) \in Nat
        OBVIOUS
      <3>4. QED BY <3>2, <3>3, CountSame
    <2>2. Count(Q, 0) = 0 /\ Count(P, Len(P)) \in Nat
      BY CountIs
    <2>3. QED BY <2>1, <2>2
  <1>2. ASSUME NEW i \in Nat, i \in T PROVE i + 1 \in T
    <2>1. SUFFICES ASSUME i + 1 <= Len(Q)
                   PROVE  Count(P \o Q, Len(P) + (i + 1)) = Count(P, Len(P)) + Count(Q, i + 1)
      BY <1>2
    <2>2. (P \o Q)[(Len(P) + i) + 1] = Q[i + 1]
      BY <2>1
    <2>3. Count(P \o Q, Len(P) + i) = Count(P, Len(P)) + Count(Q, i)
      BY <1>2, <2>1
    <2>4. /\ Count(P \o Q, (Len(P) + i) + 1) = IF IsVariable((P \o Q)[(Len(P) + i) + 1])
                                                THEN Count(P \o Q, Len(P) + i) + 1 ELSE Count(P \o Q, Len(P) + i)
          /\ Count(Q, i + 1) = IF IsVariable(Q[i + 1]) THEN Count(Q, i) + 1 ELSE Count(Q, i)
          /\ Len(P) + i \in Nat
      <3>1. Len(P) + i \in Nat
        OBVIOUS
      <3>2. QED BY <3>1, CountIs
    <2>5. Count(P, Len(P)) \in Nat /\ Count(Q, i) \in Nat /\ (Len(P) + i) + 1 = Len(P) + (i + 1)
      BY CountIs
    <2>6. QED BY <2>2, <2>3, <2>4, <2>5
  <1>3. n \in T
    <2> HIDE DEF T
    <2>1. QED BY <1>1, <1>2, Induction
  <1>4. QED BY <1>3

\* The names of two patterns, one after the other, name both together.
LEMMA ConcatNaming ==
  ASSUME NEW P \in Seq(Elements), NEW Q \in Seq(Elements), NEW n \in 0 .. Len(Q),
         NEW pnames \in Seq(Vars), NEW qnames \in Seq(Vars),
         Len(pnames) = Count(P, Len(P)), Naming(pnames, P, Len(P)), Naming(qnames, Q, n)
  PROVE  /\ Naming(pnames \o qnames, P \o Q, Len(P) + n)
         /\ Len(pnames \o qnames) = Len(pnames) + Len(qnames)
  <1> DEFINE names == pnames \o qnames
  <1>1. /\ Count(P \o Q, Len(P) + n) = Count(P, Len(P)) + Count(Q, n)
        /\ Count(P, Len(P)) \in Nat /\ Count(Q, n) \in Nat
    BY ConcatCount, CountIs
  <1>2. ASSUME NEW j \in 1 .. Len(P), IsVariable((P \o Q)[j])
        PROVE  names[Count(P \o Q, j)] = (P \o Q)[j].var
    <2>1. (P \o Q)[j] = P[j]
      OBVIOUS
    <2>2. Count(P \o Q, j) = Count(P, j)
      <3>1. \A i \in 1 .. j : (P \o Q)[i] = P[i]
        OBVIOUS
      <3>2. \A i \in 1 .. j : IsVariable((P \o Q)[i]) <=> IsVariable(P[i])
        BY <3>1
      <3>3. j \in Nat
        OBVIOUS
      <3>4. QED BY <3>2, <3>3, CountSame
    <2>3. Naming(names, P, Len(P))
      BY NamingMore
    <2>4. QED BY <1>2, <2>1, <2>2, <2>3 DEF Naming
  <1>3. ASSUME NEW i \in 1 .. n, IsVariable((P \o Q)[Len(P) + i])
        PROVE  names[Count(P \o Q, Len(P) + i)] = (P \o Q)[Len(P) + i].var
    <2>1. (P \o Q)[Len(P) + i] = Q[i]
      OBVIOUS
    <2>2. Count(P \o Q, Len(P) + i) = Len(pnames) + Count(Q, i)
      BY ConcatCount
    <2>3. Count(Q, i) \in 1 .. Len(qnames)
      <3>1. Count(Q, 0) < Count(Q, i) /\ Count(Q, 0) = 0 /\ Count(Q, i) \in Nat
        BY <1>3, <2>1, CountOwn, CountIs
      <3>2. Count(Q, i) <= Count(Q, n)
        BY CountGrows
      <3>3. QED BY <1>1, <3>1, <3>2 DEF Naming
    <2>4. names[Len(pnames) + Count(Q, i)] = qnames[Count(Q, i)]
      BY <2>3
    <2>5. qnames[Count(Q, i)] = Q[i].var
      BY <1>3, <2>1 DEF Naming
    <2>6. QED BY <2>1, <2>2, <2>4, <2>5
  <1>4. ASSUME NEW j \in 1 .. Len(P) + n PROVE j \in 1 .. Len(P) \/ (\E i \in 1 .. n : j = Len(P) + i)
    <2>1. CASE j <= Len(P)
      BY <2>1
    <2>2. CASE ~(j <= Len(P))
      <3>1. j - Len(P) \in 1 .. n /\ j = Len(P) + (j - Len(P))
        BY <2>2
      <3>2. QED BY <3>1
    <2>3. QED BY <2>1, <2>2
  <1>5. \A j \in 1 .. Len(P) + n : IsVariable((P \o Q)[j]) => names[Count(P \o Q, j)] = (P \o Q)[j].var
    BY <1>2, <1>3, <1>4
  <1>6. Len(names) = Len(pnames) + Len(qnames)
    BY ConcatProperties
  <1>7. Len(names) >= Count(P \o Q, Len(P) + n)
    BY <1>1, <1>6 DEF Naming
  <1>8. QED BY <1>5, <1>6, <1>7 DEF Naming

-----------------------------------------------------------------------------
(* Ways down the tree.                                                     *)

Edges == UNION {EdgesFor(e) : e \in Elements}

\* path is a way down for pattern P.
Follows(path, P) ==
    /\ path \in Seq(Edges) /\ Len(path) = Len(P)
    /\ \A j \in 1 .. Len(P) : path[j] \in EdgesFor(P[j])

\* An edge has the kind of the pattern element it stands for, and its text.
LEMMA EdgeKinds ==
  ASSUME NEW e \in Elements, NEW d \in EdgesFor(e)
  PROVE  /\ d = <<d[1], d[2]>> /\ d[1] = e.kind
         /\ e.kind # "regx" => d[2] = e.key
         /\ e.kind = "regx" => d[2][1] = e.key[1]
         /\ IsVariable(e) <=> d[1] # "hard"
  <1>1. IsVariable(e) <=> e.kind # "hard"
    BY PatternsAssumption DEF IsVariable
  <1>2. CASE e.kind = "regx"
    BY <1>1, <1>2 DEF EdgesFor
  <1>3. CASE e.kind # "regx"
    BY <1>1, <1>3 DEF EdgesFor
  <1>4. QED BY <1>2, <1>3

\* The ways down that BuildRoute takes follow the pattern.
LEMMA EdgePathsFollow ==
  ASSUME NEW base, NEW P \in Seq(Elements), NEW path \in EdgePaths(base, P)
  PROVE  Follows(path, P)
  <1>1. path \in [1 .. Len(P) -> UNION {EdgesFor(P[j]) : j \in DOMAIN P}]
    BY DEF EdgePaths
  <1>2. ASSUME NEW j \in DOMAIN P PROVE path[j] \in EdgesFor(P[j])
    <2>1. path[j] \in EdgeChoices(base \o SubSeq(path, 1, j - 1), P[j])
      BY <1>2 DEF EdgePaths
    <2>2. CASE P[j].kind # "regx"
      BY <2>1, <2>2, Zenon DEF EdgeChoices, EdgesFor
    <2>3. CASE P[j].kind = "regx"
      <3>1. PICK k : path[j] = <<"regx", <<P[j].key[1], k>>>>
        BY <2>1, <2>3, Zenon DEF EdgeChoices
      <3>2. PICK i \in DOMAIN P : path[j] \in EdgesFor(P[i])
        <4>1. j \in 1 .. Len(P)
          BY <1>2
        <4>2. path[j] \in UNION {EdgesFor(P[i]) : i \in DOMAIN P}
          BY <1>1, <4>1, Zenon
        <4>3. QED BY <4>2
      <3>3. CASE P[i].kind = "regx"
        <4>1. PICK l \in 1 .. MaxHandles : path[j] = <<"regx", <<P[i].key[1], l>>>>
          BY <3>2, <3>3, Zenon DEF EdgesFor
        <4>2. l = k
          BY <3>1, <4>1
        <4>3. QED BY <2>3, <3>1, <4>1, <4>2, Zenon DEF EdgesFor
      <3>4. CASE P[i].kind # "regx"
        <4>1. path[j] = <<P[i].kind, P[i].key>>
          BY <3>2, <3>4, Zenon DEF EdgesFor
        <4>2. path[j][1] = P[i].kind /\ path[j][1] = "regx"
          BY <3>1, <4>1
        <4>3. QED BY <3>4, <4>2
      <3>5. QED BY <3>3, <3>4
    <2>4. QED BY <2>2, <2>3
  <1>3. ASSUME NEW j \in DOMAIN P PROVE EdgesFor(P[j]) \subseteq Edges
    <2>1. P[j] \in Elements
      BY <1>3
    <2>2. QED BY <2>1, Zenon DEF Edges
  <1>4. DOMAIN P = 1 .. Len(P) /\ Len(P) \in Nat
    OBVIOUS
  <1>5. path \in [1 .. Len(P) -> Edges]
    <2>1. UNION {EdgesFor(P[j]) : j \in DOMAIN P} \subseteq Edges
      BY <1>3
    <2> DEFINE U == UNION {EdgesFor(P[j]) : j \in DOMAIN P}
    <2> HIDE DEF U
    <2>2. path \in [1 .. Len(P) -> U] /\ U \subseteq Edges
      BY <1>1, <2>1 DEF U
    <2>3. QED BY <2>2
  <1>6. path \in Seq(Edges) /\ Len(path) = Len(P)
    BY <1>4, <1>5
  <1>7. QED BY <1>2, <1>4, <1>6 DEF Follows

\* A way along P and one along Q make a way along P \o Q.
LEMMA FollowsConcat ==
  ASSUME NEW P \in Seq(Elements), NEW Q \in Seq(Elements), NEW base, NEW path,
         Follows(base, P), Follows(path, Q)
  PROVE  Follows(base \o path, P \o Q)
  <1>1. /\ base \in Seq(Edges) /\ path \in Seq(Edges) /\ Len(base) = Len(P) /\ Len(path) = Len(Q)
        /\ \A j \in 1 .. Len(P) : base[j] \in EdgesFor(P[j])
        /\ \A j \in 1 .. Len(Q) : path[j] \in EdgesFor(Q[j])
    BY DEF Follows
  <1>2. ASSUME NEW j \in 1 .. Len(P \o Q) PROVE (base \o path)[j] \in EdgesFor((P \o Q)[j])
    <2>1. CASE j <= Len(P)
      <3>1. (base \o path)[j] = base[j] /\ (P \o Q)[j] = P[j] /\ j \in 1 .. Len(P)
        BY <1>1, <2>1
      <3>2. QED BY <1>1, <3>1
    <2>2. CASE ~(j <= Len(P))
      <3>1. /\ (base \o path)[j] = path[j - Len(P)] /\ (P \o Q)[j] = Q[j - Len(P)]
            /\ j - Len(P) \in 1 .. Len(Q)
        BY <1>1, <2>2
      <3>2. QED BY <1>1, <3>1
    <2>3. QED BY <2>1, <2>2
  <1>3. base \o path \in Seq(Edges) /\ Len(base \o path) = Len(P \o Q)
    <2>1. base \o path \in Seq(Edges) /\ Len(base \o path) = Len(base) + Len(path)
      BY <1>1, ConcatProperties
    <2>2. Len(P \o Q) = Len(P) + Len(Q)
      BY ConcatProperties
    <2>3. QED BY <1>1, <2>1, <2>2
  <1>4. QED BY <1>2, <1>3 DEF Follows

\* The prefixes of a concatenation.
LEMMA PrefixBelow ==
  ASSUME NEW S, NEW a \in Seq(S), NEW b \in Seq(S), NEW j \in 0 .. Len(b)
  PROVE  a \o SubSeq(b, 1, j) = SubSeq(a \o b, 1, Len(a) + j)
  <1>1. /\ a \o b \in Seq(S) /\ Len(a \o b) = Len(a) + Len(b)
        /\ SubSeq(b, 1, j) \in Seq(S) /\ Len(SubSeq(b, 1, j)) = j
    OBVIOUS
  <1>2. QED BY <1>1

\* The beginnings of a and of a \o b, up to the end of a, are the same.
LEMMA PrefixOfConcat ==
  ASSUME NEW S, NEW a \in Seq(S), NEW b \in Seq(S)
  PROVE  /\ \A j \in 0 .. Len(a) : SubSeq(a \o b, 1, j) = SubSeq(a, 1, j)
         /\ SubSeq(a, 1, Len(a)) = a
         /\ \A j \in 0 .. Len(a) : Len(SubSeq(a, 1, j)) = j
  <1>1. ASSUME NEW j \in 0 .. Len(a)
        PROVE  SubSeq(a \o b, 1, j) = SubSeq(a, 1, j)
    OBVIOUS
  <1>2. SubSeq(a, 1, Len(a)) = a
    OBVIOUS
  <1>3. ASSUME NEW j \in 0 .. Len(a) PROVE Len(SubSeq(a, 1, j)) = j
    OBVIOUS
  <1>4. QED BY <1>1, <1>2, <1>3

-----------------------------------------------------------------------------
(* The invariant.                                                          *)

Registration == [pattern : Seq(Elements), own : Nat \ {0}, soft : BOOLEAN,
                 methods : SUBSET Methods, path : Seq(Edges)]

\* Every registration went down a way for its pattern.
RegInv ==
    /\ reg \in Seq(Registration)
    /\ \A q \in DOMAIN reg :
          /\ Follows(reg[q].path, reg[q].pattern)
          /\ reg[q].own <= Len(reg[q].pattern) + 1

\* A path that does not end in a slash has no empty element at its end.
LastInv ==
    \A q \in DOMAIN reg :
        (~reg[q].soft /\ reg[q].pattern # <<>>) => reg[q].pattern[Len(reg[q].pattern)].key # Empty

\* The switch is where its path leads to, with all its names.
SwitchInv ==
    /\ switch.pattern \in Seq(Elements)
    /\ Follows(switch.route, switch.pattern)
    /\ switch.names \in Seq(Vars)
    /\ Len(switch.names) = Count(switch.pattern, Len(switch.pattern))
    /\ Naming(switch.names, switch.pattern, Len(switch.pattern))
    /\ switch.pattern # <<>> => switch.pattern[Len(switch.pattern)].key # Empty

\* The ways to the registered end points and to the switch exist.
NodesInv ==
    /\ nodes \subseteq Seq(Edges) /\ <<>> \in nodes
    /\ \A q \in DOMAIN reg : \A j \in 0 .. Len(reg[q].path) : SubSeq(reg[q].path, 1, j) \in nodes
    /\ \A j \in 0 .. Len(switch.route) : SubSeq(switch.route, 1, j) \in nodes

\* The end points are the registered ones, and have for each method the latest
\* registration for it.
EndsInv ==
    /\ DOMAIN ends = UNION {EndsOf(reg[q]) : q \in DOMAIN reg}
    /\ \A e \in DOMAIN ends, m \in Methods :
          LET h == ends[e].handlers[m]
          IN  /\ h = 0 \/ (h \in RegsOf(e) /\ m \in Covered(reg[h].methods))
              /\ \A q \in RegsOf(e) : m \in Covered(reg[q].methods) => h # 0 /\ q <= h

\* An end point has names enough for every registration that named all of its
\* variables, and the latest one's names come first.
VarInv ==
    \A e \in DOMAIN ends :
        /\ ends[e].varnames \in Seq(Vars)
        /\ \A q \in RegsOf(e) :
              AllNamed(reg[q], e) =>
                  /\ Len(ends[e].varnames) >= Count(reg[q].pattern, Len(e[1]))
                  /\ (\A r \in RegsOf(e) : r <= q) =>
                         Naming(ends[e].varnames, reg[q].pattern, Len(e[1]))

IInv == RegInv /\ LastInv /\ SwitchInv /\ NodesInv /\ EndsInv /\ VarInv

\* The end points of a registration are on its way.
LEMMA EndsOnTheWay ==
  ASSUME NEW q \in Registration, Follows(q.path, q.pattern), NEW e \in EndsOf(q)
  PROVE  \E n \in 0 .. Len(q.pattern) :
            /\ e = <<SubSeq(q.path, 1, n), q.soft>> /\ Len(e[1]) = n
            /\ n = Len(q.pattern) \/ (n + 1 >= q.own /\ q.pattern[n + 1].opt)
  <1>1. /\ q.path \in Seq(Edges) /\ Len(q.path) = Len(q.pattern) /\ q.own \in Nat /\ q.own >= 1
        /\ Len(q.pattern) \in Nat
    <2>1. q.path \in Seq(Edges) /\ Len(q.path) = Len(q.pattern)
      BY DEF Follows
    <2>2. q.own \in Nat \ {0} /\ q.pattern \in Seq(Elements)
      BY DEF Registration
    <2>3. QED BY <2>1, <2>2
  <1>2. CASE e = <<q.path, q.soft>>
    <2>1. q.path = SubSeq(q.path, 1, Len(q.pattern))
      BY <1>1
    <2>2. Len(q.pattern) \in 0 .. Len(q.pattern) /\ e[1] = q.path
      BY <1>1, <1>2
    <2>3. QED BY <1>1, <1>2, <2>1, <2>2
  <1>3. CASE e # <<q.path, q.soft>>
    <2>1. PICK j \in q.own .. Len(q.pattern) : q.pattern[j].opt /\ e = <<SubSeq(q.path, 1, j - 1), q.soft>>
      BY <1>3 DEF EndsOf
    <2>2. j - 1 \in 0 .. Len(q.pattern) /\ (j - 1) + 1 = j /\ j >= q.own
      BY <1>1, <2>1
    <2>3. Len(SubSeq(q.path, 1, j - 1)) = j - 1
      BY <1>1, <2>2
    <2>4. e[1] = SubSeq(q.path, 1, j - 1)
      BY <2>1
    <2>5. QED BY <2>1, <2>2, <2>3, <2>4
  <1>4. QED BY <1>2, <1>3

-----------------------------------------------------------------------------
(* Registering.                                                            *)

\* What Handle and a switch's Handle give the end points: with the names of
\* base's pattern in front for the whole path only.
Targets(base, bnames, P, path) ==
    {IF t.route = base \o path THEN [t EXCEPT !.names = bnames \o @] ELSE t : t \in BuildRoute(base, P, path)}

\* The registration made for P below base, which has pattern B.
RegOf(base, B, P, path, soft, ms) ==
    [pattern |-> B \o P, own |-> Len(B) + 1, soft |-> soft, methods |-> ms, path |-> base \o path]

\* The targets are the end points of registration q, with the names it has for them.
TargetsOf(q, targets) ==
    /\ {<<t.route, q.soft>> : t \in targets} = EndsOf(q)
    /\ \A t \in targets :
          /\ t.names \in Seq(Vars)
          /\ AllNamed(q, <<t.route, q.soft>>) => Naming(t.names, q.pattern, Len(t.route))

\* Registering for P below base sets the end points of the registration, and
\* names all the variables where it should.
LEMMA TargetsNamed ==
  ASSUME NEW base, NEW B \in Seq(Elements), NEW bnames \in Seq(Vars), NEW P \in Seq(Elements), NEW path,
         NEW soft \in BOOLEAN, NEW ms \in SUBSET Methods,
         Follows(base, B), Follows(path, P),
         Len(bnames) = Count(B, Len(B)), Naming(bnames, B, Len(B)),
         NEW q, q = RegOf(base, B, P, path, soft, ms)
  PROVE  /\ q \in Registration /\ Follows(q.path, q.pattern) /\ q.own <= Len(q.pattern) + 1
         /\ TargetsOf(q, Targets(base, bnames, P, path))
  <1> DEFINE whole == base \o path
             at(j) == SubSeq(whole, 1, Len(B) + j)
             short == {j \in DOMAIN P : P[j].opt}
             named(j) == [route |-> at(j - 1), names |-> VarNames(P, j)]
             last == [route |-> whole, names |-> bnames \o VarNames(P, Len(P))]
  <1>1. /\ base \in Seq(Edges) /\ path \in Seq(Edges) /\ Len(base) = Len(B) /\ Len(path) = Len(P)
        /\ Len(B) \in Nat /\ Len(P) \in Nat /\ DOMAIN P = 1 .. Len(P)
    BY DEF Follows
  <1>2. /\ q.pattern = B \o P /\ q.own = Len(B) + 1 /\ q.soft = soft /\ q.methods = ms /\ q.path = whole
    BY Zenon DEF RegOf
  <1>3. Follows(whole, B \o P)
    BY FollowsConcat
  <1>4. /\ whole \in Seq(Edges) /\ Len(whole) = Len(B) + Len(P)
        /\ B \o P \in Seq(Elements) /\ Len(B \o P) = Len(B) + Len(P)
    <2>1. whole \in Seq(Edges) /\ Len(whole) = Len(base) + Len(path)
      BY <1>1, ConcatProperties
    <2>2. B \o P \in Seq(Elements) /\ Len(B \o P) = Len(B) + Len(P)
      BY ConcatProperties
    <2>3. QED BY <1>1, <2>1, <2>2
  <1>5. /\ \A j \in 0 .. Len(P) : base \o SubSeq(path, 1, j) = at(j) /\ Len(at(j)) = Len(B) + j
    <2>1. \A j \in 0 .. Len(P) : base \o SubSeq(path, 1, j) = at(j)
      <3>1. \A j \in 0 .. Len(path) : base \o SubSeq(path, 1, j) = SubSeq(whole, 1, Len(base) + j)
        <4>1. base \in Seq(Edges) /\ path \in Seq(Edges)
          BY <1>1
        <4>2. QED BY <4>1, PrefixBelow, Zenon
      <3>2. Len(base) = Len(B) /\ Len(path) = Len(P)
        BY <1>1
      <3>3. QED BY <3>1, <3>2
    <2>2. ASSUME NEW j \in 0 .. Len(P) PROVE Len(at(j)) = Len(B) + j
      <3> HIDE DEF whole
      <3>1. QED BY <1>1, <1>4
    <2>3. QED BY <2>1, <2>2
  <1>6. Targets(base, bnames, P, path) = {named(j) : j \in short} \cup {last}
    <2>1. ASSUME NEW j \in short PROVE base \o SubSeq(path, 1, j - 1) = at(j - 1) /\ at(j - 1) # whole
      <3>1. j - 1 \in 0 .. Len(P) /\ j \in 1 .. Len(P)
        BY <1>1, <2>1
      <3>2. Len(at(j - 1)) = Len(B) + (j - 1) /\ base \o SubSeq(path, 1, j - 1) = at(j - 1)
        BY <1>5, <3>1
      <3>3. Len(at(j - 1)) # Len(whole)
        BY <1>1, <1>4, <3>1, <3>2
      <3>4. QED BY <3>2, <3>3
    <2>2. BuildRoute(base, P, path) = {named(j) : j \in short} \cup {[route |-> whole, names |-> VarNames(P, Len(P))]}
      BY <2>1, Zenon DEF BuildRoute
    <2> DEFINE plain == [route |-> whole, names |-> VarNames(P, Len(P))]
               f(t) == IF t.route = whole THEN [t EXCEPT !.names = bnames \o @] ELSE t
    <2>3. f(plain) = last
      OBVIOUS
    <2>4. ASSUME NEW j \in short PROVE f(named(j)) = named(j)
      BY <2>1
    <2>5. Targets(base, bnames, P, path) = {f(t) : t \in BuildRoute(base, P, path)}
      BY Zenon DEF Targets
    <2> HIDE DEF f, plain, last, named, short
    <2>6. BuildRoute(base, P, path) = {named(j) : j \in short} \cup {plain}
      BY <2>2 DEF plain
    <2>7. QED BY <2>3, <2>4, <2>5, <2>6
  <1>7. q \in Registration
    <2>1. Len(B) + 1 \in Nat \ {0}
      BY <1>1
    <2>2. q = RegOf(base, B, P, path, soft, ms) /\ B \o P \in Seq(Elements) /\ whole \in Seq(Edges)
      BY <1>4
    <2>3. QED BY <2>1, <2>2 DEF RegOf, Registration
  <1>8. q.own <= Len(q.pattern) + 1
    BY <1>1, <1>2, <1>4
  <1>9. {<<t.route, soft>> : t \in Targets(base, bnames, P, path)} = EndsOf(q)
    <2> DEFINE tail == {k \in q.own .. Len(q.pattern) : q.pattern[k].opt}
    <2>1. ASSUME NEW j \in short PROVE Len(B) + j \in tail
      <3>1. j \in 1 .. Len(P)
        BY <1>1, <2>1
      <3>2. (B \o P)[Len(B) + j] = P[j]
        BY <3>1
      <3>3. Len(B) + j \in (Len(B) + 1) .. Len(B \o P)
        BY <1>1, <1>4, <3>1
      <3>4. QED BY <1>2, <2>1, <3>2, <3>3
    <2>2. ASSUME NEW k \in tail PROVE k - Len(B) \in short
      <3>1. k \in (Len(B) + 1) .. (Len(B) + Len(P)) /\ (B \o P)[k].opt
        BY <1>2, <1>4, <2>2
      <3>2. k - Len(B) \in 1 .. Len(P)
        BY <1>1, <3>1
      <3>3. (B \o P)[k] = P[k - Len(B)]
        BY <1>1, <3>1
      <3>4. QED BY <1>1, <3>1, <3>2, <3>3
    <2>3. ASSUME NEW j \in short PROVE at(j - 1) = SubSeq(whole, 1, (Len(B) + j) - 1)
      <3>1. j \in Nat
        BY <1>1, <2>3
      <3>2. Len(B) + (j - 1) = (Len(B) + j) - 1
        BY <1>1, <3>1
      <3>3. QED BY <3>2
    <2>4. ASSUME NEW k \in tail PROVE \E j \in short : SubSeq(whole, 1, k - 1) = at(j - 1)
      <3>1. k - Len(B) \in short
        BY <2>2, <2>4
      <3>2. Len(B) + ((k - Len(B)) - 1) = k - 1
        <4>1. k \in Int
          BY <1>2, <1>4, <2>4
        <4>2. QED BY <1>1, <4>1
      <3>3. QED BY <3>1, <3>2
    <2>5. EndsOf(q) = {<<SubSeq(whole, 1, k - 1), soft>> : k \in tail} \cup {<<whole, soft>>}
      BY <1>2, Zenon DEF EndsOf
    <2>6. {<<t.route, soft>> : t \in Targets(base, bnames, P, path)} = {<<at(j - 1), soft>> : j \in short} \cup {<<whole, soft>>}
      <3> DEFINE ts == {named(j) : j \in short} \cup {last}
      <3>1. \A j \in short : named(j).route = at(j - 1)
        OBVIOUS
      <3>2. last.route = whole
        OBVIOUS
      <3>3. Targets(base, bnames, P, path) = ts
        BY <1>6
      <3> HIDE DEF at, short, whole, named, last
      <3>4. {<<t.route, soft>> : t \in ts} = {<<at(j - 1), soft>> : j \in short} \cup {<<whole, soft>>}
        BY <3>1, <3>2, Zenon
      <3>5. QED BY <3>3, <3>4, Zenon
    <2> DEFINE low(k) == SubSeq(whole, 1, k - 1)
    <2> HIDE DEF at, short, tail, whole, low
    <2>7. EndsOf(q) = {<<low(k), soft>> : k \in tail} \cup {<<whole, soft>>}
      BY <2>5 DEF low
    <2>8. (\A j \in short : \E k \in tail : at(j - 1) = low(k)) /\ (\A k \in tail : \E j \in short : low(k) = at(j - 1))
      BY <2>1, <2>3, <2>4, Zenon DEF low
    <2>9. QED BY <2>6, <2>7, <2>8, Zenon
  <1>10. ASSUME NEW j \in short
         PROVE  /\ named(j).names \in Seq(Vars)
                /\ AllNamed(q, <<named(j).route, soft>>) => Naming(named(j).names, q.pattern, Len(named(j).route))
    <2>1. j \in 1 .. Len(P) /\ j - 1 \in 0 .. Len(P) /\ j \in 0 .. Len(P) /\ j - 1 \in 0 .. j /\ j \in Nat
      BY <1>1, <1>10
    <2>2. VarNames(P, j) \in Seq(Vars) /\ Naming(VarNames(P, j), P, j)
      BY <2>1, VarNamesOf
    <2>3. Naming(VarNames(P, j), P, j - 1)
      <3>1. Len(VarNames(P, j)) \in Nat
        BY <2>2
      <3>2. QED BY <2>1, <2>2, <3>1, NamingLess
    <2>4. Len(at(j - 1)) = Len(B) + (j - 1)
      BY <1>5, <2>1
    <2>5. ASSUME AllNamed(q, <<at(j - 1), soft>>)
          PROVE  Naming(VarNames(P, j), B \o P, Len(B) + (j - 1))
      <3>1. at(j - 1) # whole
        BY <1>1, <1>4, <2>1, <2>4
      <3>2. \A i \in 1 .. Len(B) : q.pattern[i].var = ""
        <4>1. \A i \in 1 .. q.own - 1 : q.pattern[i].var = ""
          BY <1>2, <2>5, <3>1, Zenon DEF AllNamed
        <4>2. q.own - 1 = Len(B)
          BY <1>1, <1>2
        <4>3. QED BY <4>1, <4>2, Zenon
      <3>3. \A i \in 1 .. Len(B) : ~IsVariable(B[i])
        <4>1. \A i \in 1 .. Len(B) : (B \o P)[i] = B[i]
          OBVIOUS
        <4>2. QED BY <1>2, <3>2, <4>1, Zenon DEF IsVariable
      <3>4. Count(B, Len(B)) = 0
        <4>1. {i \in 1 .. Len(B) : IsVariable(B[i])} = {}
          BY <3>3
        <4>2. QED BY <4>1, FS_EmptySet DEF Count
      <3>5. Naming(<<>>, B, Len(B)) /\ Len(<<>>) = Count(B, Len(B)) /\ <<>> \in Seq(Vars)
        BY <3>3, <3>4 DEF Naming
      <3>6. Naming(<<>> \o VarNames(P, j), B \o P, Len(B) + (j - 1))
        BY <2>1, <2>2, <2>3, <3>5, ConcatNaming
      <3>7. <<>> \o VarNames(P, j) = VarNames(P, j)
        BY <2>2
      <3>8. QED BY <3>6, <3>7
    <2>6. QED BY <1>2, <2>2, <2>4, <2>5
  <1>11. last.names \in Seq(Vars) /\ Naming(last.names, q.pattern, Len(last.route))
    <2>1. Len(P) \in 0 .. Len(P)
      BY <1>1
    <2>2. VarNames(P, Len(P)) \in Seq(Vars) /\ Naming(VarNames(P, Len(P)), P, Len(P))
      BY <2>1, VarNamesOf
    <2>3. Naming(bnames \o VarNames(P, Len(P)), B \o P, Len(B) + Len(P))
      BY <2>1, <2>2, ConcatNaming
    <2>4. bnames \o VarNames(P, Len(P)) \in Seq(Vars)
      BY <2>2, ConcatProperties
    <2>5. QED BY <1>2, <1>4, <2>3, <2>4
  <1>12. \A t \in Targets(base, bnames, P, path) :
            /\ t.names \in Seq(Vars)
            /\ AllNamed(q, <<t.route, soft>>) => Naming(t.names, q.pattern, Len(t.route))
    <2> HIDE DEF named, last, short
    <2>1. QED BY <1>6, <1>10, <1>11, Zenon
  <1>13. TargetsOf(q, Targets(base, bnames, P, path))
    BY <1>2, <1>9, <1>12, Zenon DEF TargetsOf
  <1>14. QED BY <1>2, <1>3, <1>7, <1>8, <1>13

\* The names that an end point is given are those of one of the targets.
LEMMA NamesGiven ==
  ASSUME NEW targets, NEW t \in targets
  PROVE  \E u \in targets : u.route = t.route /\ (CHOOSE s \in targets : s.route = t.route) = u
  OBVIOUS

\* Setting handler Len(reg) + 1 on the end points of a registration, and
\* appending it, keeps the end points and their names as they should be.
LEMMA RegisterKeeps ==
  ASSUME IInv, NEW q \in Registration, Follows(q.path, q.pattern), NEW targets,
         TargetsOf(q, targets),
         ends' = Registered(targets, q.soft, Len(reg) + 1, q.methods), reg' = Append(reg, q)
  PROVE  EndsInv' /\ VarInv'
  <1> DEFINE new == {<<t.route, q.soft>> : t \in targets}
             h == Len(reg) + 1
             namesAt(e) == (CHOOSE t \in targets : t.route = e[1]).names
  <1>1. reg \in Seq(Registration) /\ Len(reg) \in Nat /\ h \in Nat /\ h # 0 /\ h \notin DOMAIN reg
    <2>1. reg \in Seq(Registration)
      BY DEF IInv, RegInv
    <2>2. QED BY <2>1
  <1>2. DOMAIN reg' = DOMAIN reg \cup {h} /\ reg'[h] = q /\ \A r \in DOMAIN reg : reg'[r] = reg[r]
    BY <1>1
  <1>3. \A r \in DOMAIN reg : r < h /\ r \in Nat /\ r # 0 /\ r # h
    BY <1>1
  <1>4. new = EndsOf(q)
    BY DEF TargetsOf
  <1>5. DOMAIN ends' = DOMAIN ends \cup new
    BY Zenon DEF Registered
  <1>6. DOMAIN ends' = UNION {EndsOf(reg'[r]) : r \in DOMAIN reg'}
    <2>1. DOMAIN ends = UNION {EndsOf(reg[r]) : r \in DOMAIN reg}
      BY DEF IInv, EndsInv
    <2>2. \A r \in DOMAIN reg : EndsOf(reg'[r]) = EndsOf(reg[r])
      BY <1>2
    <2>3. EndsOf(reg'[h]) = EndsOf(q)
      BY <1>2
    <2> DEFINE was(r) == EndsOf(reg[r])
               is(r) == EndsOf(reg'[r])
    <2>4. /\ \A r \in DOMAIN reg : is(r) = was(r)
          /\ is(h) = new
      BY <1>4, <2>2, <2>3
    <2>5. DOMAIN ends = UNION {was(r) : r \in DOMAIN reg}
      BY <2>1
    <2> HIDE DEF new, h, was, is
    <2>6. ASSUME NEW e PROVE e \in DOMAIN ends' <=> \E r \in DOMAIN reg' : e \in is(r)
      <3>1. e \in DOMAIN ends <=> \E r \in DOMAIN reg : e \in was(r)
        BY <2>5
      <3>2. e \in DOMAIN ends' <=> e \in DOMAIN ends \/ e \in new
        BY <1>5
      <3>3. (\E r \in DOMAIN reg' : e \in is(r)) <=> (\E r \in DOMAIN reg : e \in is(r)) \/ e \in is(h)
        BY <1>2
      <3>4. QED BY <2>4, <3>1, <3>2, <3>3
    <2>7. DOMAIN ends' = UNION {is(r) : r \in DOMAIN reg'}
      BY <2>6
    <2>8. QED BY <2>7 DEF is
  <1>7. ASSUME NEW e
        PROVE  /\ e \notin new => RegsOf(e)' = RegsOf(e)
               /\ e \in new => RegsOf(e)' = RegsOf(e) \cup {h}
    <2>1. RegsOf(e)' = {r \in DOMAIN reg' : e \in EndsOf(reg'[r])}
      BY DEF RegsOf, EndsOf
    <2>2. RegsOf(e) = {r \in DOMAIN reg : e \in EndsOf(reg[r])}
      BY DEF RegsOf
    <2> HIDE DEF new, h
    <2>3. QED BY <1>2, <1>3, <1>4, <2>1, <2>2
  <1>8. ASSUME NEW e \in new
        PROVE  /\ ends'[e].handlers = SetHandler(e, h, q.methods)
               /\ ends'[e].varnames = PrependVarName(e, namesAt(e))
    <2>1. ends'[e] = [handlers |-> SetHandler(e, h, q.methods), varnames |-> PrependVarName(e, namesAt(e))]
      BY <1>8, Zenon DEF Registered
    <2>2. QED BY <2>1
  <1>9. ASSUME NEW e \in DOMAIN ends, e \notin new PROVE ends'[e] = ends[e]
    BY <1>9, Zenon DEF Registered
  <1>10. ASSUME NEW e \in DOMAIN ends', NEW m \in Methods
         PROVE  /\ ends'[e].handlers[m] = 0 \/
                      (ends'[e].handlers[m] \in RegsOf(e)' /\ m \in Covered(reg'[ends'[e].handlers[m]].methods))
                /\ \A r \in RegsOf(e)' : m \in Covered(reg'[r].methods) =>
                      ends'[e].handlers[m] # 0 /\ r <= ends'[e].handlers[m]
    <2> DEFINE g == ends'[e].handlers[m]
               f == ends[e].handlers[m]
    <2>1. ASSUME e \in DOMAIN ends
          PROVE  /\ f = 0 \/ (f \in RegsOf(e) /\ m \in Covered(reg[f].methods))
                 /\ \A r \in RegsOf(e) : m \in Covered(reg[r].methods) => f # 0 /\ r <= f
      BY <2>1, Zenon DEF IInv, EndsInv
    <2>2. ASSUME e \notin DOMAIN ends PROVE RegsOf(e) = {}
      <3>1. DOMAIN ends = UNION {EndsOf(reg[r]) : r \in DOMAIN reg}
        BY DEF IInv, EndsInv
      <3>2. QED BY <2>2, <3>1 DEF RegsOf
    <2>3. RegsOf(e) \subseteq DOMAIN reg
      BY DEF RegsOf
    <2>4. CASE e \notin new
      <3>1. e \in DOMAIN ends /\ ends'[e] = ends[e] /\ RegsOf(e)' = RegsOf(e)
        BY <1>5, <1>7, <1>9, <2>4
      <3>2. \A r \in RegsOf(e) : reg'[r] = reg[r]
        BY <1>2, <2>3
      <3>3. g = f
        BY <3>1
      <3> HIDE DEF g, f
      <3>4. QED BY <2>1, <3>1, <3>2, <3>3 DEF g
    <2>5. CASE e \in new
      <3>1. RegsOf(e)' = RegsOf(e) \cup {h}
        BY <1>7, <2>5
      <3>2. g = SetHandler(e, h, q.methods)[m]
        BY <1>8, <2>5
      <3>3. CASE m \in Covered(q.methods)
        <4>1. g = h
          BY <3>2, <3>3, Zenon DEF SetHandler
        <4>2. \A r \in RegsOf(e)' : r <= h
          BY <1>1, <1>3, <2>3, <3>1
        <4>3. reg'[g] = q
          BY <1>2, <4>1
        <4> HIDE DEF g, h
        <4>4. QED BY <1>1, <3>1, <3>3, <4>1, <4>2, <4>3 DEF g
      <3>4. CASE m \notin Covered(q.methods)
        <4>1. g = IF e \in DOMAIN ends THEN f ELSE 0
          BY <3>2, <3>4, Zenon DEF SetHandler
        <4>2. \A r \in RegsOf(e)' : m \in Covered(reg'[r].methods) =>
                  r \in RegsOf(e) /\ m \in Covered(reg[r].methods)
          BY <1>2, <2>3, <3>1, <3>4
        <4>3. \A r \in RegsOf(e) : reg'[r] = reg[r]
          BY <1>2, <2>3
        <4>4. CASE e \in DOMAIN ends
          <5>1. g = f
            BY <4>1, <4>4
          <5> HIDE DEF g, f, h
          <5>2. QED BY <2>1, <3>1, <4>2, <4>3, <4>4, <5>1 DEF g
        <4>5. CASE e \notin DOMAIN ends
          <5>1. g = 0
            BY <4>1, <4>5
          <5> HIDE DEF g, f, h
          <5>2. QED BY <2>2, <4>2, <4>5, <5>1 DEF g
        <4>6. QED BY <4>4, <4>5
      <3>5. QED BY <3>3, <3>4
    <2>6. QED BY <2>4, <2>5
  <1>11. EndsInv'
    <2>1. (DOMAIN ends = UNION {EndsOf(reg[r]) : r \in DOMAIN reg})'
      BY <1>6, Zenon DEF EndsOf
    <2>2. QED BY <1>10, <2>1, Zenon DEF EndsInv, EndsOf
  <1>12. ASSUME NEW e \in DOMAIN ends'
         PROVE  /\ ends'[e].varnames \in Seq(Vars)
                /\ \A r \in RegsOf(e)' :
                      AllNamed(reg'[r], e) =>
                          /\ Len(ends'[e].varnames) >= Count(reg'[r].pattern, Len(e[1]))
                          /\ (\A s \in RegsOf(e)' : s <= r) =>
                                 Naming(ends'[e].varnames, reg'[r].pattern, Len(e[1]))
    <2> DEFINE names == ends'[e].varnames
               old == IF e \in DOMAIN ends THEN ends[e].varnames ELSE <<>>
    <2>1. /\ old \in Seq(Vars)
          /\ \A r \in RegsOf(e) : e \in DOMAIN ends =>
                (AllNamed(reg[r], e) =>
                    /\ Len(old) >= Count(reg[r].pattern, Len(e[1]))
                    /\ (\A s \in RegsOf(e) : s <= r) => Naming(old, reg[r].pattern, Len(e[1])))
      <3>1. CASE e \in DOMAIN ends
        <4>1. old = ends[e].varnames
          BY <3>1
        <4> HIDE DEF old
        <4>2. QED BY <3>1, <4>1, Zenon DEF IInv, VarInv
      <3>2. CASE e \notin DOMAIN ends
        <4>1. old \in Seq(Vars)
          BY <3>2
        <4>2. QED BY <3>2, <4>1
      <3>3. QED BY <3>1, <3>2
    <2>2. RegsOf(e) \subseteq DOMAIN reg
      BY DEF RegsOf
    <2>3. CASE e \notin new
      <3>1. e \in DOMAIN ends /\ ends'[e] = ends[e] /\ RegsOf(e)' = RegsOf(e)
        BY <1>5, <1>7, <1>9, <2>3
      <3>2. \A r \in RegsOf(e) : reg'[r] = reg[r]
        BY <1>2, <2>2
      <3>3. names = old
        BY <3>1
      <3> HIDE DEF names, old
      <3>4. QED BY <2>1, <3>1, <3>2, <3>3, Zenon DEF names
    <2>4. CASE e \in new
      <3>1. RegsOf(e)' = RegsOf(e) \cup {h}
        BY <1>7, <2>4
      <3>2. names = namesAt(e) \o old
        BY <1>8, <2>4, Zenon DEF PrependVarName
      <3>3. /\ namesAt(e) \in Seq(Vars)
            /\ AllNamed(q, e) => Naming(namesAt(e), q.pattern, Len(e[1]))
        <4>1. PICK t \in targets : e = <<t.route, q.soft>>
          BY <2>4
        <4>2. e[1] = t.route
          BY <4>1
        <4>3. PICK u \in targets : u.route = t.route /\ namesAt(e) = u.names
          BY <4>2, NamesGiven
        <4>4. <<u.route, q.soft>> = e
          BY <4>1, <4>3
        <4>5. u.names \in Seq(Vars) /\ (AllNamed(q, <<u.route, q.soft>>) => Naming(u.names, q.pattern, Len(u.route)))
          BY Zenon DEF TargetsOf
        <4>6. QED BY <4>2, <4>3, <4>4, <4>5
      <3> HIDE DEF namesAt, old, names
      <3>4. names \in Seq(Vars) /\ Len(names) = Len(namesAt(e)) + Len(old)
        BY <2>1, <3>2, <3>3, ConcatProperties
      <3>5. PICK i \in Nat : Len(e[1]) = i
        <4>1. e \in EndsOf(q)
          BY <1>4, <2>4
        <4>2. \E n \in 0 .. Len(q.pattern) : Len(e[1]) = n
          BY <4>1, EndsOnTheWay
        <4>3. QED BY <4>2
      <3>6. AllNamed(q, e) => Naming(names, q.pattern, Len(e[1]))
        BY <2>1, <3>2, <3>3, <3>5, NamingMore
      <3>7. ASSUME NEW r \in RegsOf(e), AllNamed(reg[r], e)
            PROVE  Len(names) >= Count(reg[r].pattern, Len(e[1]))
        <4>1. e \in DOMAIN ends
          <5>1. DOMAIN ends = UNION {EndsOf(reg[s]) : s \in DOMAIN reg}
            BY DEF IInv, EndsInv
          <5>2. QED BY <3>7, <5>1 DEF RegsOf
        <4>2. Len(old) >= Count(reg[r].pattern, Len(e[1]))
          BY <2>1, <3>7, <4>1
        <4>3. Len(old) \in Nat /\ Len(namesAt(e)) \in Nat
          BY <2>1, <3>3
        <4>4. Count(reg[r].pattern, Len(e[1])) \in Nat
          BY <3>5, CountIs
        <4> HIDE DEF names, old
        <4>5. QED BY <3>4, <4>2, <4>3, <4>4
      <3>8. \A r \in RegsOf(e) : reg'[r] = reg[r] /\ ~(h <= r)
        BY <1>2, <1>3, <1>1, <2>2
      <3>9. AllNamed(q, e) => Len(names) >= Count(q.pattern, Len(e[1]))
        BY <3>6, Zenon DEF Naming
      <3>10. reg'[h] = q
        BY <1>2
      <3> HIDE DEF names, old, h
      <3>11. ASSUME NEW r \in RegsOf(e)', AllNamed(reg'[r], e)
             PROVE  /\ Len(names) >= Count(reg'[r].pattern, Len(e[1]))
                    /\ (\A s \in RegsOf(e)' : s <= r) => Naming(names, reg'[r].pattern, Len(e[1]))
        <4>1. CASE r = h
          BY <3>6, <3>9, <3>10, <3>11, <4>1
        <4>2. CASE r # h
          <5>1. r \in RegsOf(e) /\ reg'[r] = reg[r] /\ ~(h <= r) /\ h \in RegsOf(e)'
            BY <3>1, <3>8, <4>2
          <5>2. QED BY <3>7, <3>11, <5>1
        <4>3. QED BY <4>1, <4>2
      <3>12. QED BY <3>4, <3>11 DEF names
    <2>5. QED BY <2>3, <2>4
  <1>13. VarInv'
    BY <1>12, Zenon DEF VarInv
  <1>14. QED BY <1>11, <1>13

\* The nodes on the way that BuildRoute goes down are there afterwards.
LEMMA GrownWay ==
  ASSUME NEW S, NEW base \in Seq(S), NEW path \in Seq(S),
         \A j \in 0 .. Len(base) : SubSeq(base, 1, j) \in nodes,
         nodes' = Grown(base, path)
  PROVE  /\ \A j \in 0 .. Len(base \o path) : SubSeq(base \o path, 1, j) \in nodes'
         /\ nodes \subseteq Seq(S) => nodes' \subseteq Seq(S)
  <1>1. Len(base) \in Nat /\ Len(path) \in Nat /\ Len(base \o path) = Len(base) + Len(path)
    OBVIOUS
  <1>2. ASSUME NEW j \in 0 .. Len(base \o path) PROVE SubSeq(base \o path, 1, j) \in nodes'
    <2>1. CASE j <= Len(base)
      <3>1. j \in 0 .. Len(base)
        BY <1>1, <2>1
      <3>2. SubSeq(base \o path, 1, j) = SubSeq(base, 1, j)
        BY <3>1, PrefixOfConcat
      <3>3. QED BY <3>1, <3>2 DEF Grown
    <2>2. CASE ~(j <= Len(base))
      <3>1. j - Len(base) \in 0 .. Len(path) /\ Len(base) + (j - Len(base)) = j
        BY <1>1, <2>2
      <3>2. base \o SubSeq(path, 1, j - Len(base)) = SubSeq(base \o path, 1, Len(base) + (j - Len(base)))
        BY <3>1, PrefixBelow
      <3>3. QED BY <3>1, <3>2 DEF Grown
    <2>3. QED BY <2>1, <2>2
  <1>3. ASSUME NEW j \in 0 .. Len(path) PROVE base \o SubSeq(path, 1, j) \in Seq(S)
    <2>1. SubSeq(path, 1, j) \in Seq(S)
      OBVIOUS
    <2>2. QED BY <2>1, ConcatProperties
  <1>4. QED BY <1>2, <1>3, Zenon DEF Grown

\* The empty tree of a new router satisfies the invariant.
LEMMA InitIInv == Init => IInv
  <1> SUFFICES ASSUME Init PROVE IInv
    OBVIOUS
  <1> USE DEF Init
  <1>1. RegInv /\ LastInv
    BY DEF RegInv, LastInv
  <1>2. SwitchInv
    <2>1. switch.route = <<>> /\ switch.names = <<>> /\ switch.pattern = <<>>
      OBVIOUS
    <2>2. Len(<<>>) = 0 /\ <<>> \in Seq(Elements) /\ <<>> \in Seq(Vars) /\ <<>> \in Seq(Edges)
      OBVIOUS
    <2>3. Count(<<>>, 0) = 0
      BY CountIs
    <2>4. Follows(<<>>, <<>>)
      BY <2>2 DEF Follows
    <2>5. Naming(<<>>, <<>>, 0)
      BY <2>2, <2>3 DEF Naming
    <2> HIDE DEF Init
    <2>6. QED BY <2>1, <2>2, <2>3, <2>4, <2>5 DEF SwitchInv
  <1>3. NodesInv
    BY DEF NodesInv
  <1>4. EndsInv /\ VarInv
    BY DEF EndsInv, VarInv
  <1>5. QED BY <1>1, <1>2, <1>3, <1>4 DEF IInv

\* One registration more: the part that Handle and a switch's Handle share.
LEMMA BelowKeeps ==
  ASSUME IInv, NEW base, NEW B \in Seq(Elements), NEW bnames \in Seq(Vars), NEW P \in Seq(Elements),
         NEW soft \in BOOLEAN, NEW ms \in SUBSET Methods, NEW path \in EdgePaths(base, P),
         Follows(base, B), Len(bnames) = Count(B, Len(B)), Naming(bnames, B, Len(B)),
         \A j \in 0 .. Len(base) : SubSeq(base, 1, j) \in nodes,
         B # <<>> => B[Len(B)].key # Empty,
         (~soft /\ P # <<>>) => P[Len(P)].key # Empty,
         nodes' = Grown(base, path),
         ends' = Registered(Targets(base, bnames, P, path), soft, Len(reg) + 1, ms),
         reg' = Append(reg, RegOf(base, B, P, path, soft, ms)),
         UNCHANGED switch
  PROVE  IInv'
  <1> DEFINE q == RegOf(base, B, P, path, soft, ms)
  <1>1. Follows(path, P) /\ q = RegOf(base, B, P, path, soft, ms)
    BY EdgePathsFollow
  <1>2. /\ q \in Registration /\ Follows(q.path, q.pattern) /\ q.own <= Len(q.pattern) + 1
        /\ TargetsOf(q, Targets(base, bnames, P, path))
    <2> HIDE DEF q
    <2>1. QED BY <1>1, TargetsNamed
  <1>3. /\ q.soft = soft /\ q.methods = ms /\ q.pattern = B \o P /\ q.path = base \o path
    BY Zenon DEF RegOf
  <1> HIDE DEF q
  <1>4. EndsInv' /\ VarInv'
    <2>1. /\ ends' = Registered(Targets(base, bnames, P, path), q.soft, Len(reg) + 1, q.methods)
          /\ reg' = Append(reg, q)
      BY <1>3, Zenon DEF q
    <2>2. QED BY <1>2, <2>1, RegisterKeeps, Zenon
  <1>5. reg \in Seq(Registration) /\ Len(reg) \in Nat
    <2>1. reg \in Seq(Registration)
      BY DEF IInv, RegInv
    <2>2. QED BY <2>1
  <1>6. /\ reg' \in Seq(Registration)
        /\ DOMAIN reg' = DOMAIN reg \cup {Len(reg) + 1} /\ reg'[Len(reg) + 1] = q
        /\ \A r \in DOMAIN reg : reg'[r] = reg[r]
    <2>1. reg' = Append(reg, q)
      BY DEF q
    <2>2. QED BY <1>2, <1>5, <2>1
  <1>7. RegInv'
    <2>1. \A r \in DOMAIN reg : Follows(reg[r].path, reg[r].pattern) /\ reg[r].own <= Len(reg[r].pattern) + 1
      BY Zenon DEF IInv, RegInv
    <2>2. ASSUME NEW r \in DOMAIN reg' PROVE Follows(reg'[r].path, reg'[r].pattern) /\ reg'[r].own <= Len(reg'[r].pattern) + 1
      <3>1. CASE r \in DOMAIN reg
        <4>1. reg'[r] = reg[r]
          BY <1>6, <3>1
        <4>2. QED BY <2>1, <3>1, <4>1, Zenon
      <3>2. CASE r \notin DOMAIN reg
        <4>1. reg'[r] = q
          BY <1>6, <2>2, <3>2
        <4>2. QED BY <1>2, <4>1, Zenon
      <3>3. QED BY <3>1, <3>2
    <2>3. QED BY <1>6, <2>2, Zenon DEF RegInv
  <1>8. LastInv'
    <2>1. ASSUME ~soft, B \o P # <<>> PROVE (B \o P)[Len(B \o P)].key # Empty
      <3>1. Len(B \o P) = Len(B) + Len(P) /\ Len(B) \in Nat /\ Len(P) \in Nat
        OBVIOUS
      <3>2. CASE P = <<>>
        <4>1. B \o P = B
          BY <3>2
        <4>2. QED BY <2>1, <4>1
      <3>3. CASE P # <<>>
        <4>1. Len(P) > 0
          BY <3>3
        <4>2. (B \o P)[Len(B) + Len(P)] = P[Len(P)]
          BY <4>1
        <4>3. QED BY <2>1, <3>1, <3>3, <4>2
      <3>4. QED BY <3>2, <3>3
    <2>2. (~q.soft /\ q.pattern # <<>>) => q.pattern[Len(q.pattern)].key # Empty
      BY <1>3, <2>1, Zenon
    <2>3. \A r \in DOMAIN reg :
             (~reg[r].soft /\ reg[r].pattern # <<>>) => reg[r].pattern[Len(reg[r].pattern)].key # Empty
      BY Zenon DEF IInv, LastInv
    <2>4. ASSUME NEW r \in DOMAIN reg'
          PROVE  (~reg'[r].soft /\ reg'[r].pattern # <<>>) => reg'[r].pattern[Len(reg'[r].pattern)].key # Empty
      <3>1. CASE r \in DOMAIN reg
        <4>1. reg'[r] = reg[r]
          BY <1>6, <3>1
        <4>2. QED BY <2>3, <3>1, <4>1, Zenon
      <3>2. CASE r \notin DOMAIN reg
        <4>1. reg'[r] = q
          BY <1>6, <2>4, <3>2
        <4>2. QED BY <2>2, <4>1, Zenon
      <3>3. QED BY <3>1, <3>2
    <2>5. QED BY <2>4, Zenon DEF LastInv
  <1>9. NodesInv'
    <2>1. nodes \subseteq nodes'
      BY DEF Grown
    <2>2. base \in Seq(Edges) /\ path \in Seq(Edges)
      BY <1>1 DEF Follows
    <2>3. /\ \A j \in 0 .. Len(base \o path) : SubSeq(base \o path, 1, j) \in nodes'
          /\ nodes' \subseteq Seq(Edges)
      BY <2>2, GrownWay, Zenon DEF IInv, NodesInv
    <2>4. \A r \in DOMAIN reg : \A j \in 0 .. Len(reg[r].path) : SubSeq(reg[r].path, 1, j) \in nodes
      BY Zenon DEF IInv, NodesInv
    <2>5. ASSUME NEW r \in DOMAIN reg' PROVE \A j \in 0 .. Len(reg'[r].path) : SubSeq(reg'[r].path, 1, j) \in nodes'
      <3>1. CASE r \in DOMAIN reg
        <4>1. reg'[r] = reg[r]
          BY <1>6, <3>1
        <4>2. QED BY <2>1, <2>4, <3>1, <4>1, Zenon
      <3>2. CASE r \notin DOMAIN reg
        <4>1. reg'[r] = q
          BY <1>6, <2>5, <3>2
        <4>2. QED BY <1>3, <2>3, <4>1, Zenon
      <3>3. QED BY <3>1, <3>2
    <2>6. <<>> \in nodes /\ \A j \in 0 .. Len(switch.route) : SubSeq(switch.route, 1, j) \in nodes
      BY Zenon DEF IInv, NodesInv
    <2>7. switch' = switch
      OBVIOUS
    <2>8. QED BY <2>1, <2>3, <2>5, <2>6, <2>7, Zenon DEF NodesInv
  <1>10. SwitchInv'
    BY Zenon DEF IInv, SwitchInv
  <1>11. QED BY <1>4, <1>7, <1>8, <1>9, <1>10 DEF IInv

\* Switch grows the tree and leaves the end points as they were.
LEMMA SwitchKeeps ==
  ASSUME IInv, NEW P \in Prefixes, Switch(P)
  PROVE  IInv'
  <1>1. PICK path \in EdgePaths(switch.route, P) :
           /\ nodes' = Grown(switch.route, path)
           /\ switch' = [route   |-> switch.route \o path,
                         names   |-> switch.names \o VarNames(P, Len(P)),
                         pattern |-> switch.pattern \o P]
    BY Zenon DEF Switch
  <1>2. ends' = ends /\ reg' = reg
    BY DEF Switch
  <1>3. P \in Seq(Elements) /\ (P # <<>> => P[Len(P)].key # Empty)
    BY PatternsAssumption
  <1>4. /\ switch.pattern \in Seq(Elements) /\ Follows(switch.route, switch.pattern)
        /\ switch.names \in Seq(Vars) /\ Len(switch.names) = Count(switch.pattern, Len(switch.pattern))
        /\ Naming(switch.names, switch.pattern, Len(switch.pattern))
        /\ switch.pattern # <<>> => switch.pattern[Len(switch.pattern)].key # Empty
    BY DEF IInv, SwitchInv
  <1>5. Follows(path, P)
    BY <1>3, EdgePathsFollow
  <1>6. /\ switch'.route = switch.route \o path
        /\ switch'.names = switch.names \o VarNames(P, Len(P))
        /\ switch'.pattern = switch.pattern \o P
    BY <1>1
  <1>7. SwitchInv'
    <2>1. Len(P) \in 0 .. Len(P) /\ Len(P) \in Nat
      BY <1>3
    <2>2. /\ VarNames(P, Len(P)) \in Seq(Vars) /\ Len(VarNames(P, Len(P))) = Count(P, Len(P))
          /\ Naming(VarNames(P, Len(P)), P, Len(P))
      BY <1>3, <2>1, VarNamesOf
    <2>3. /\ Naming(switch'.names, switch'.pattern, Len(switch.pattern) + Len(P))
          /\ Len(switch'.names) = Len(switch.names) + Len(VarNames(P, Len(P)))
      BY <1>3, <1>4, <1>6, <2>1, <2>2, ConcatNaming, Zenon
    <2>4. switch'.pattern \in Seq(Elements) /\ Len(switch'.pattern) = Len(switch.pattern) + Len(P)
      BY <1>3, <1>4, <1>6, ConcatProperties, Zenon
    <2>5. switch'.names \in Seq(Vars)
      BY <1>4, <1>6, <2>2, ConcatProperties, Zenon
    <2>6. Count(switch'.pattern, Len(switch.pattern) + Len(P)) = Count(switch.pattern, Len(switch.pattern)) + Count(P, Len(P))
      <3>1. switch.pattern \in Seq(Elements) /\ P \in Seq(Elements)
        BY <1>3, <1>4
      <3>2. \A B \in Seq(Elements) : Count(B \o P, Len(B) + Len(P)) = Count(B, Len(B)) + Count(P, Len(P))
        BY <1>3, <2>1, ConcatCount
      <3>3. QED BY <1>6, <3>1, <3>2
    <2>7. Follows(switch'.route, switch'.pattern)
      BY <1>3, <1>4, <1>5, <1>6, FollowsConcat, Zenon
    <2>8. switch'.pattern # <<>> => switch'.pattern[Len(switch'.pattern)].key # Empty
      <3>1. CASE P = <<>>
        <4>1. switch'.pattern = switch.pattern
          BY <1>4, <1>6, <3>1
        <4>2. QED BY <1>4, <4>1
      <3>2. CASE P # <<>>
        <4>1. (switch.pattern \o P)[Len(switch.pattern) + Len(P)] = P[Len(P)]
          <5>1. Len(P) \in 1 .. Len(P)
            BY <1>3, <3>2
          <5>2. QED BY <1>3, <1>4, <5>1, ConcatProperties
        <4>2. QED BY <1>3, <1>6, <2>4, <3>2, <4>1
      <3>3. QED BY <3>1, <3>2
    <2>9. Len(switch'.names) = Count(switch'.pattern, Len(switch'.pattern))
      BY <1>4, <2>2, <2>3, <2>4, <2>6
    <2>10. Naming(switch'.names, switch'.pattern, Len(switch'.pattern))
      BY <2>3, <2>4
    <2>11. QED BY <2>4, <2>5, <2>7, <2>8, <2>9, <2>10, Zenon DEF SwitchInv
  <1>8. NodesInv'
    <2>1. nodes \subseteq nodes'
      BY <1>1 DEF Grown
    <2>2. switch.route \in Seq(Edges) /\ path \in Seq(Edges)
      BY <1>4, <1>5 DEF Follows
    <2>3. \A j \in 0 .. Len(switch.route) : SubSeq(switch.route, 1, j) \in nodes
      BY DEF IInv, NodesInv
    <2>4. /\ \A j \in 0 .. Len(switch'.route) : SubSeq(switch'.route, 1, j) \in nodes'
          /\ nodes' \subseteq Seq(Edges)
      BY <1>1, <1>6, <2>2, <2>3, GrownWay, Zenon DEF IInv, NodesInv
    <2>5. <<>> \in nodes /\ \A q \in DOMAIN reg : \A j \in 0 .. Len(reg[q].path) : SubSeq(reg[q].path, 1, j) \in nodes
      BY DEF IInv, NodesInv
    <2>6. QED BY <1>2, <2>1, <2>4, <2>5, Zenon DEF NodesInv
  <1>9. RegInv' /\ LastInv' /\ EndsInv' /\ VarInv'
    <2>1. RegInv /\ LastInv /\ EndsInv /\ VarInv
      BY DEF IInv
    <2>2. RegInv' /\ LastInv'
      BY <1>2, <2>1, Zenon DEF RegInv, LastInv
    <2>3. \A e : RegsOf(e)' = RegsOf(e)
      BY <1>2, Zenon DEF RegsOf, EndsOf
    <2>4. EndsInv'
      <3>1. DOMAIN ends' = UNION {EndsOf(reg'[q]) : q \in DOMAIN reg'}
        BY <1>2, <2>1 DEF EndsInv
      <3>2. (DOMAIN ends = UNION {EndsOf(reg[q]) : q \in DOMAIN reg})'
        BY <3>1, Zenon DEF EndsOf
      <3>3. \A e \in DOMAIN ends, m \in Methods :
              /\ ends[e].handlers[m] = 0 \/ (ends[e].handlers[m] \in RegsOf(e) /\ m \in Covered(reg[ends[e].handlers[m]].methods))
              /\ \A q \in RegsOf(e) : m \in Covered(reg[q].methods) => ends[e].handlers[m] # 0 /\ q <= ends[e].handlers[m]
        BY <2>1, Zenon DEF EndsInv
      <3>4. QED BY <1>2, <2>3, <3>2, <3>3, Zenon DEF EndsInv
    <2>5. VarInv'
      BY <1>2, <2>1, <2>3, Zenon DEF VarInv
    <2>6. QED BY <2>2, <2>4, <2>5
  <1>10. QED BY <1>7, <1>8, <1>9 DEF IInv

\* Handle is a registration below the root, with no names in front.
LEMMA HandleKeeps ==
  ASSUME IInv, NEW g \in Patterns, NEW ms \in SUBSET Methods, Handle(g[1], g[2], ms)
  PROVE  IInv'
  <1> DEFINE P == g[1]
             none == <<>>
  <1>1. PICK path \in EdgePaths(<<>>, P) :
           /\ nodes' = Grown(<<>>, path)
           /\ ends' = Registered(BuildRoute(<<>>, P, path), g[2], Len(reg) + 1, ms)
           /\ reg' = Append(reg, [pattern |-> P, own |-> 1, soft |-> g[2], methods |-> ms, path |-> path])
    BY Zenon DEF Handle
  <1>2. P \in Seq(Elements) /\ g[2] \in BOOLEAN /\ (~g[2] /\ P # <<>> => P[Len(P)].key # Empty)
    BY PatternsAssumption
  <1>3. /\ <<>> \in Seq(Elements) /\ <<>> \in Seq(Vars) /\ Follows(<<>>, <<>>)
        /\ Len(<<>>) = Count(<<>>, Len(<<>>)) /\ Naming(<<>>, <<>>, Len(<<>>))
    <2>1. Len(<<>>) = 0 /\ <<>> \in Seq(Elements) /\ <<>> \in Seq(Vars) /\ <<>> \in Seq(Edges)
      OBVIOUS
    <2>2. Count(<<>>, 0) = 0
      BY CountIs
    <2>3. Follows(<<>>, <<>>)
      BY <2>1 DEF Follows
    <2>4. Naming(<<>>, <<>>, 0)
      BY <2>1, <2>2 DEF Naming
    <2>5. QED BY <2>1, <2>2, <2>3, <2>4
  <1>4. path \in Seq(Edges) /\ Follows(path, P)
    BY <1>2, EdgePathsFollow DEF Follows
  <1>5. <<>> \o P = P /\ <<>> \o path = path
    BY <1>2, <1>4
  <1>6. RegOf(<<>>, <<>>, P, path, g[2], ms) = [pattern |-> P, own |-> 1, soft |-> g[2], methods |-> ms, path |-> path]
    <2>1. Len(<<>>) + 1 = 1
      OBVIOUS
    <2>2. QED BY <1>5, <2>1, Zenon DEF RegOf
  <1>7. Targets(<<>>, <<>>, P, path) = BuildRoute(<<>>, P, path)
    <2>1. ASSUME NEW t \in BuildRoute(<<>>, P, path)
          PROVE  (IF t.route = <<>> \o path THEN [t EXCEPT !.names = <<>> \o @] ELSE t) = t
      <3>1. PICK j \in 0 .. Len(P) : \E r : t = [route |-> r, names |-> VarNames(P, j)]
        <4>1. Len(P) \in Nat /\ DOMAIN P = 1 .. Len(P)
          BY <1>2
        <4>2. CASE t = [route |-> <<>> \o path, names |-> VarNames(P, Len(P))]
          <5>1. Len(P) \in 0 .. Len(P)
            BY <4>1
          <5>2. QED BY <4>2, <5>1, Zenon
        <4>3. CASE t # [route |-> <<>> \o path, names |-> VarNames(P, Len(P))]
          <5>1. PICK j \in DOMAIN P : t = [route |-> <<>> \o SubSeq(path, 1, j - 1), names |-> VarNames(P, j)]
            BY <2>1, <4>3, Zenon DEF BuildRoute
          <5>2. j \in 0 .. Len(P)
            BY <4>1
          <5>3. QED BY <5>1, <5>2, Zenon
        <4>4. QED BY <4>2, <4>3
      <3>2. PICK r : t = [route |-> r, names |-> VarNames(P, j)]
        BY <3>1
      <3>3. VarNames(P, j) \in Seq(Vars)
        BY <1>2, VarNamesOf
      <3>4. <<>> \o VarNames(P, j) = VarNames(P, j)
        BY <3>3
      <3> DEFINE v == VarNames(P, j)
      <3> HIDE DEF v
      <3>5. t = [route |-> r, names |-> v] /\ <<>> \o v = v
        BY <3>2, <3>4 DEF v
      <3>6. [t EXCEPT !.names = <<>> \o @] = t
        BY <3>5
      <3>7. QED BY <3>6, Zenon
    <2>2. QED BY <2>1, Zenon DEF Targets
  <1>8. \A j \in 0 .. Len(<<>>) : SubSeq(<<>>, 1, j) \in nodes
    <2>1. <<>> \in nodes
      BY DEF IInv, NodesInv
    <2>2. ASSUME NEW j \in 0 .. Len(<<>>) PROVE SubSeq(<<>>, 1, j) = <<>>
      OBVIOUS
    <2>3. QED BY <2>1, <2>2
  <1>9. UNCHANGED switch
    BY Zenon DEF Handle
  <1>10. /\ ends' = Registered(Targets(<<>>, <<>>, P, path), g[2], Len(reg) + 1, ms)
         /\ reg' = Append(reg, RegOf(<<>>, <<>>, P, path, g[2], ms))
    BY <1>1, <1>6, <1>7
  <1>11. none = <<>> /\ (none # <<>> => none[Len(none)].key # Empty)
    OBVIOUS
  <1> HIDE DEF none
  <1>12. QED BY <1>1, <1>2, <1>3, <1>8, <1>9, <1>10, <1>11, BelowKeeps, Zenon

\* The switch's Handle is a registration below the switch, with its names in
\* front of those of the whole path.
LEMMA SwitchHandleKeeps ==
  ASSUME IInv, NEW g \in Patterns, SwitchHandle(g[1], g[2])
  PROVE  IInv'
  <1> DEFINE P == g[1]
  <1>1. PICK path \in EdgePaths(switch.route, P) :
           LET whole == switch.route \o path
           IN  /\ nodes' = Grown(switch.route, path)
               /\ ends' = Registered({IF t.route = whole
                                        THEN [t EXCEPT !.names = switch.names \o @] ELSE t :
                                        t \in BuildRoute(switch.route, P, path)},
                                     g[2], Len(reg) + 1, {})
               /\ reg' = Append(reg, [pattern |-> switch.pattern \o P,
                                      own |-> Len(switch.pattern) + 1, soft |-> g[2],
                                      methods |-> {}, path |-> whole])
    BY Zenon DEF SwitchHandle
  <1>2. P \in Seq(Elements) /\ g[2] \in BOOLEAN /\ (~g[2] /\ P # <<>> => P[Len(P)].key # Empty)
    BY PatternsAssumption
  <1>3. /\ switch.pattern \in Seq(Elements) /\ Follows(switch.route, switch.pattern)
        /\ switch.names \in Seq(Vars) /\ Len(switch.names) = Count(switch.pattern, Len(switch.pattern))
        /\ Naming(switch.names, switch.pattern, Len(switch.pattern))
        /\ switch.pattern # <<>> => switch.pattern[Len(switch.pattern)].key # Empty
    BY DEF IInv, SwitchInv
  <1>4. \A j \in 0 .. Len(switch.route) : SubSeq(switch.route, 1, j) \in nodes
    BY DEF IInv, NodesInv
  <1>5. UNCHANGED switch
    BY Zenon DEF SwitchHandle
  <1>6. /\ nodes' = Grown(switch.route, path)
        /\ ends' = Registered(Targets(switch.route, switch.names, P, path), g[2], Len(reg) + 1, {})
        /\ reg' = Append(reg, RegOf(switch.route, switch.pattern, P, path, g[2], {}))
    BY <1>1, Zenon DEF Targets, RegOf
  <1>7. {} \in SUBSET Methods
    OBVIOUS
  <1>8. QED BY <1>2, <1>3, <1>4, <1>5, <1>6, <1>7, BelowKeeps, Zenon

\* Every step keeps the invariant.
LEMMA NextIInv == IInv /\ [Next]_vars => IInv'
  <1> SUFFICES ASSUME IInv, [Next]_vars PROVE IInv'
    OBVIOUS
  <1>1. CASE \E g \in Patterns, ms \in {{}, {"GET"}, Methods \ {"GET"}} : Handle(g[1], g[2], ms)
    <2>1. PICK g \in Patterns, ms \in {{}, {"GET"}, Methods \ {"GET"}} : Handle(g[1], g[2], ms)
      BY <1>1
    <2>2. ms \in SUBSET Methods
      BY RoutingAssumption
    <2>3. QED BY <2>1, <2>2, HandleKeeps
  <1>2. CASE \E P \in Prefixes : Switch(P)
    BY <1>2, SwitchKeeps
  <1>3. CASE \E g \in Patterns : SwitchHandle(g[1], g[2])
    BY <1>3, SwitchHandleKeeps
  <1>4. CASE UNCHANGED vars
    <2>1. nodes' = nodes /\ ends' = ends /\ switch' = switch /\ reg' = reg
      BY <1>4 DEF vars
    <2>2. RegInv' /\ LastInv' /\ SwitchInv' /\ NodesInv'
      BY <2>1, Zenon DEF IInv, RegInv, LastInv, SwitchInv, NodesInv
    <2>3. \A e : RegsOf(e)' = RegsOf(e)
      BY <2>1, Zenon DEF RegsOf, EndsOf
    <2>4. DOMAIN ends' = UNION {EndsOf(reg'[q]) : q \in DOMAIN reg'}
      BY <2>1 DEF IInv, EndsInv
    <2>5. (DOMAIN ends = UNION {EndsOf(reg[q]) : q \in DOMAIN reg})'
      BY <2>4, Zenon DEF EndsOf
    <2>6. \A e \in DOMAIN ends, m \in Methods :
             /\ ends[e].handlers[m] = 0 \/ (ends[e].handlers[m] \in RegsOf(e) /\ m \in Covered(reg[ends[e].handlers[m]].methods))
             /\ \A q \in RegsOf(e) : m \in Covered(reg[q].methods) => ends[e].handlers[m] # 0 /\ q <= ends[e].handlers[m]
      BY Zenon DEF IInv, EndsInv
    <2>7. EndsInv'
      BY <2>1, <2>3, <2>5, <2>6, Zenon DEF EndsInv
    <2>8. VarInv'
      BY <2>1, <2>3, Zenon DEF IInv, VarInv
    <2>9. QED BY <2>2, <2>7, <2>8 DEF IInv
  <1>5. QED BY <1>1, <1>2, <1>3, <1>4 DEF Next

\* The tree and its end points are what the registrations made of them.
THEOREM TreeFollowsRegistrations == Spec => []IInv
  <1>1. Init => IInv
    BY InitIInv
  <1>2. IInv /\ [Next]_vars => IInv'
    BY NextIInv
  <1>3. QED BY <1>1, <1>2, PTL DEF Spec

-----------------------------------------------------------------------------
(* Enough names.                                                           *)

\* A node as a pattern: the places of its edges that capture an element.
AsPattern(node) == [j \in 1 .. Len(node) |-> [var |-> IF node[j][1] = "hard" THEN "" ELSE "_"]]

\* The elements captured on the way to a node are the variables of the pattern
\* that its edges stand for.
LEMMA CapturesCounted ==
  ASSUME NEW node, Len(node) \in Nat, DOMAIN node = 1 .. Len(node)
  PROVE  /\ Captures(node) = Count(AsPattern(node), Len(node))
         /\ \A j \in 1 .. Len(node) : IsVariable(AsPattern(node)[j]) <=> node[j][1] # "hard"
  <1>1. ASSUME NEW j \in 1 .. Len(node)
        PROVE  IsVariable(AsPattern(node)[j]) <=> node[j][1] # "hard"
    <2> DEFINE v == IF node[j][1] = "hard" THEN "" ELSE "_"
    <2>1. AsPattern(node)[j] = [var |-> v]
      BY <1>1, Zenon DEF AsPattern
    <2>2. AsPattern(node)[j].var = v
      <3> HIDE DEF v
      <3>1. QED BY <2>1
    <2>3. "" # "_"
      OBVIOUS
    <2>4. QED BY <2>2, <2>3, Zenon DEF IsVariable
  <1>2. {j \in DOMAIN node : node[j][1] # "hard"} = {j \in 1 .. Len(node) : IsVariable(AsPattern(node)[j])}
    BY <1>1, Zenon
  <1>3. QED BY <1>1, <1>2, Zenon DEF Captures, Count

\* The edges of node stand for the first n elements of P.
StandsFor(node, P, n) ==
    /\ node \in Seq(Edges) /\ Len(node) = n
    /\ \A j \in 1 .. n : node[j] \in EdgesFor(P[j])
    /\ \A j \in 0 .. n : Count(AsPattern(node), j) = Count(P, j)
    /\ Captures(node) = Count(P, n)

\* A node on the way of a registration captures as many elements as the pattern
\* has variables up to it.
LEMMA CountOnTheWay ==
  ASSUME NEW path, NEW P \in Seq(Elements), Follows(path, P), NEW n \in 0 .. Len(P)
  PROVE  StandsFor(SubSeq(path, 1, n), P, n)
  <1> DEFINE node == SubSeq(path, 1, n)
  <1>1. path \in Seq(Edges) /\ Len(path) = Len(P) /\ Len(P) \in Nat
    BY DEF Follows
  <1>2. node \in Seq(Edges) /\ Len(node) = n /\ \A j \in 1 .. n : node[j] = path[j]
    BY <1>1
  <1> HIDE DEF node
  <1>3. ASSUME NEW j \in 1 .. n PROVE node[j] \in EdgesFor(P[j]) /\ P[j] \in Elements
    <2>1. j \in 1 .. Len(P)
      BY <1>1
    <2>2. path[j] \in EdgesFor(P[j]) /\ P[j] \in Elements
      BY <2>1 DEF Follows
    <2>3. QED BY <1>2, <2>2
  <1>4. Len(node) \in Nat /\ DOMAIN node = 1 .. Len(node) /\ n \in Nat
    BY <1>2
  <1>5. ASSUME NEW j \in 1 .. n PROVE IsVariable(AsPattern(node)[j]) <=> IsVariable(P[j])
    <2>1. IsVariable(AsPattern(node)[j]) <=> node[j][1] # "hard"
      BY <1>2, <1>4, CapturesCounted
    <2>2. IsVariable(P[j]) <=> node[j][1] # "hard"
      BY <1>3, EdgeKinds, Zenon
    <2>3. QED BY <2>1, <2>2
  <1>6. ASSUME NEW j \in 0 .. n PROVE Count(AsPattern(node), j) = Count(P, j)
    <2>1. j \in Nat /\ \A i \in 1 .. j : i \in 1 .. n
      BY <1>4
    <2>2. \A i \in 1 .. j : IsVariable(AsPattern(node)[i]) <=> IsVariable(P[i])
      BY <1>5, <2>1
    <2>3. QED BY <2>1, <2>2, CountSame
  <1>7. Captures(node) = Count(P, n)
    <2>1. Captures(node) = Count(AsPattern(node), Len(node))
      BY <1>4, CapturesCounted
    <2>2. n \in 0 .. n
      BY <1>4
    <2>3. QED BY <1>2, <1>6, <2>1, <2>2
  <1>8. QED BY <1>2, <1>3, <1>6, <1>7, Zenon DEF StandsFor, node

\* The names counted by the invariant are as many as the captured elements.
LEMMA EnoughNames == IInv => NamesCoverCaptures
  <1> SUFFICES ASSUME IInv, NEW e \in DOMAIN ends, NEW q \in RegsOf(e), AllNamed(reg[q], e)
               PROVE  Len(ends[e].varnames) >= Captures(e[1])
    BY Zenon DEF NamesCoverCaptures
  <1>1. reg[q] \in Registration /\ Follows(reg[q].path, reg[q].pattern) /\ e \in EndsOf(reg[q])
    BY DEF IInv, RegInv, RegsOf
  <1>2. PICK n \in 0 .. Len(reg[q].pattern) : e = <<SubSeq(reg[q].path, 1, n), reg[q].soft>> /\ Len(e[1]) = n
    BY <1>1, EndsOnTheWay
  <1>3. reg[q].pattern \in Seq(Elements) /\ e[1] = SubSeq(reg[q].path, 1, n)
    BY <1>1, <1>2 DEF Registration
  <1>4. Captures(e[1]) = Count(reg[q].pattern, Len(e[1]))
    <2>1. Captures(e[1]) = Count(reg[q].pattern, n)
      <3> DEFINE P == reg[q].pattern
                 path == reg[q].path
      <3>1. P \in Seq(Elements) /\ Follows(path, P) /\ n \in 0 .. Len(P) /\ e[1] = SubSeq(path, 1, n)
        BY <1>1, <1>3
      <3> HIDE DEF P, path
      <3>2. Captures(e[1]) = Count(P, n)
        BY <3>1, CountOnTheWay DEF StandsFor
      <3>3. QED BY <3>2 DEF P
    <2>2. QED BY <1>2, <2>1
  <1>5. Len(ends[e].varnames) >= Count(reg[q].pattern, Len(e[1]))
    BY Zenon DEF IInv, VarInv
  <1>6. QED BY <1>4, <1>5

\* Whatever is registered, an end point has a name for each captured element,
\* so that a lookup does not panic (route.go:526-528).
THEOREM NamesAlwaysCover == Spec => []NamesCoverCaptures
  BY TreeFollowsRegistrations, EnoughNames, PTL

-----------------------------------------------------------------------------
(* Walking down.                                                           *)

\* A path is split into the elements it was put together from.
LEMMA SplitRaw ==
  ASSUME NEW S, NEW p \in Seq(S), NEW slash \in BOOLEAN, slash \/ (p # <<>> => p[Len(p)] # Empty)
  PROVE  SplitPath(Raw(p, slash)) = p
  <1> DEFINE E == Empty
             end == IF slash THEN <<E>> ELSE <<>>
             raw == (<<E>> \o p) \o end
  <1> HIDE DEF E
  <1>1. Raw(p, slash) = raw
    BY Zenon DEF Raw, E
  <1>2. raw = <<E>> \o (p \o end)
    BY DEF end
  <1>3. raw # <<>> /\ Head(raw) = E /\ Tail(raw) = p \o end
    <2> DEFINE rest == p \o end
    <2>1. rest \in Seq(S \cup {E})
      <3>1. end \in Seq(S \cup {E})
        <4>1. \A U : \A u \in U : <<u>> \in Seq(U) /\ <<>> \in Seq(U)
          OBVIOUS
        <4>2. E \in S \cup {E}
          OBVIOUS
        <4>3. <<E>> \in Seq(S \cup {E}) /\ <<>> \in Seq(S \cup {E})
          BY <4>1, <4>2, Zenon
        <4>4. QED BY <4>3, Zenon DEF end
      <3>2. p \in Seq(S \cup {E})
        OBVIOUS
      <3> HIDE DEF end
      <3>3. QED BY <3>1, <3>2, ConcatProperties
    <2> HIDE DEF rest
    <2>2. <<E>> \o rest # <<>> /\ Head(<<E>> \o rest) = E /\ Tail(<<E>> \o rest) = rest
      BY <2>1
    <2>3. raw = <<E>> \o rest
      BY <1>2 DEF rest
    <2>4. QED BY <2>2, <2>3 DEF rest
  <1> DEFINE tail == p \o end
             cut == IF tail # <<>> /\ tail[Len(tail)] = E THEN SubSeq(tail, 1, Len(tail) - 1) ELSE tail
  <1>4. SplitPath(raw) = cut
    <2> HIDE DEF raw
    <2>1. QED BY <1>3, Zenon DEF SplitPath, E
  <1>5. cut = p
    <2>1. CASE slash
      <3>1. end = <<E>>
        BY <2>1
      <3>2. tail # <<>> /\ tail[Len(tail)] = E /\ Len(tail) - 1 = Len(p)
        BY <3>1
      <3>3. SubSeq(tail, 1, Len(p)) = p
        BY <3>1
      <3>4. QED BY <3>2, <3>3
    <2>2. CASE ~slash
      <3>1. tail = p
        BY <2>2
      <3>2. tail # <<>> => tail[Len(tail)] # E
        BY <2>2, <3>1 DEF E
      <3>3. QED BY <3>1, <3>2
    <2>3. QED BY <2>1, <2>2
  <1>6. QED BY <1>1, <1>4, <1>5

Start == [node |-> <<>>, data |-> <<>>, used |-> 0]

\* The walks of k elements are the walks of k - 1, one step on.
LEMMA WalksUnfold ==
  ASSUME NEW p, Len(p) \in Nat
  PROVE  /\ Walks(p)[0] = {Start}
         /\ \A k \in 1 .. Len(p) : Walks(p)[k] = UNION {Onward(w, p, k) : w \in Walks(p)[k - 1]}
  <1> DEFINE step(g, k) == IF k = 0 THEN {Start} ELSE UNION {Onward(w, p, k) : w \in g[k - 1]}
             T == {n \in Nat : \E g : g = [k \in 0 .. n |-> step(g, k)]}
  <1>1. 0 \in T
    <2> DEFINE g == [k \in 0 .. 0 |-> {Start}]
    <2>1. \A k \in 0 .. 0 : step(g, k) = {Start}
      OBVIOUS
    <2>2. g = [k \in 0 .. 0 |-> step(g, k)]
      BY <2>1, Zenon
    <2> HIDE DEF g, step
    <2>3. \E f : f = [k \in 0 .. 0 |-> step(f, k)]
      BY <2>2, Zenon
    <2>4. QED BY <2>3
  <1>2. ASSUME NEW n \in Nat, n \in T PROVE n + 1 \in T
    <2>1. PICK g : g = [k \in 0 .. n |-> step(g, k)]
      BY <1>2
    <2> DEFINE h == [k \in 0 .. (n + 1) |-> IF k <= n THEN g[k] ELSE UNION {Onward(w, p, k) : w \in g[k - 1]}]
    <2>2. ASSUME NEW k \in 0 .. (n + 1) PROVE h[k] = step(h, k)
      <3>1. CASE k = 0
        <4>1. h[k] = g[k] /\ k \in 0 .. n
          BY <3>1
        <4>2. g[k] = step(g, k)
          BY <2>1, <4>1, Zenon
        <4>3. step(g, k) = {Start} /\ step(h, k) = {Start}
          BY <3>1, Zenon
        <4>4. QED BY <4>1, <4>2, <4>3, Zenon
      <3>2. CASE k # 0
        <4>1. k - 1 \in 0 .. (n + 1) /\ k - 1 <= n /\ k - 1 \in 0 .. n
          BY <3>2
        <4>2. h[k - 1] = g[k - 1]
          BY <4>1
        <4>3. step(h, k) = UNION {Onward(w, p, k) : w \in g[k - 1]}
          BY <3>2, <4>2, Zenon
        <4>4. CASE k <= n
          <5>1. h[k] = g[k] /\ k \in 0 .. n
            BY <4>4
          <5>2. g[k] = step(g, k)
            BY <2>1, <5>1, Zenon
          <5>3. step(g, k) = UNION {Onward(w, p, k) : w \in g[k - 1]}
            BY <3>2, Zenon
          <5>4. QED BY <4>3, <5>1, <5>2, <5>3, Zenon
        <4>5. CASE ~(k <= n)
          <5>1. h[k] = UNION {Onward(w, p, k) : w \in g[k - 1]}
            BY <4>5, Zenon
          <5>2. QED BY <4>3, <5>1, Zenon
        <4>6. QED BY <4>4, <4>5
      <3>3. QED BY <3>1, <3>2
    <2> DEFINE B == [k \in 0 .. (n + 1) |-> step(h, k)]
               C == [k \in 0 .. (n + 1) |-> h[k]]
    <2>3. h = C
      <3> DEFINE f(k) == IF k <= n THEN g[k] ELSE UNION {Onward(w, p, k) : w \in g[k - 1]}
      <3>1. h = [k \in 0 .. (n + 1) |-> f(k)]
        BY Zenon
      <3> HIDE DEF f, h
      <3>2. QED BY <3>1
    <2>4. C = B
      BY <2>2, Zenon
    <2>5. h = B
      <3> HIDE DEF h, B, C
      <3>1. QED BY <2>3, <2>4
    <2> HIDE DEF h, step
    <2>6. \E f : f = [k \in 0 .. (n + 1) |-> step(f, k)]
      BY <2>5, Zenon
    <2>7. QED BY <2>6
  <1>3. Len(p) \in T
    <2> HIDE DEF T
    <2>1. QED BY <1>1, <1>2, Induction
  <1>4. \E g : g = [k \in 0 .. Len(p) |-> step(g, k)]
    BY <1>3
  <1>5. Walks(p) = [k \in 0 .. Len(p) |-> step(Walks(p), k)]
    BY <1>4, Zenon DEF Walks, Start
  <1>6. \A k \in 0 .. Len(p) : Walks(p)[k] = step(Walks(p), k)
    <2> HIDE DEF step
    <2>1. QED BY <1>5, Zenon
  <1>7. 0 \in 0 .. Len(p) /\ \A k \in 1 .. Len(p) : k \in 0 .. Len(p) /\ k # 0
    OBVIOUS
  <1>8. QED BY <1>6, <1>7, Zenon

\* An edge, as the pattern element it stands for.
AsElement(d) == [kind |-> d[1], key |-> d[2]]

\* The typed variables have kinds of their own.
LEMMA TypesAre ==
  /\ DOMAIN Types = 1 .. 4
  /\ \A t \in DOMAIN Types : Types[t] # "hard" /\ Types[t] # "soft" /\ Types[t] # "regx"
  <1>1. DOMAIN Types = 1 .. 4
    BY DEF Types
  <1>2. 1 .. 4 = {1, 2, 3, 4}
    OBVIOUS
  <1>3. Types[1] = "int" /\ Types[2] = "int64" /\ Types[3] = "float" /\ Types[4] = "float64"
    BY DEF Types
  <1>4. \A s \in {"int", "int64", "float", "float64"} : s # "hard" /\ s # "soft" /\ s # "regx"
    OBVIOUS
  <1>5. \A t \in {1, 2, 3, 4} : Types[t] \in {"int", "int64", "float", "float64"}
    BY <1>3
  <1>6. QED BY <1>1, <1>2, <1>4, <1>5, Zenon

\* The first of some types.
LEMMA FirstType ==
  ASSUME NEW types \in SUBSET (DOMAIN Types), types # {}
  PROVE  (CHOOSE t \in types : \A u \in types : t <= u) \in types
  <1>1. types \in SUBSET Nat
    BY TypesAre
  <1>2. \E t \in types : \A u \in types : t <= u
    BY <1>1, LeastNumber
  <1>3. QED BY <1>2, Zenon

\* An element of a path; its extension may be empty.
PathElement == STRING \X (STRING \cup {""})

\* What FindEndPoint compares and captures is the element without extension at
\* the end of the path.
LEMMA BareElement ==
  ASSUME NEW x \in PathElement, NEW last \in BOOLEAN
  PROVE  (IF last /\ HasExt(x) THEN TrimExt(x) ELSE x) = IF last THEN TrimExt(x) ELSE x
  <1>1. ~HasExt(x) => TrimExt(x) = x
    <2>1. x = <<x[1], x[2]>>
      <3> DEFINE U == STRING \cup {""}
      <3>1. x \in STRING \X U
        BY DEF PathElement
      <3> HIDE DEF U
      <3>2. QED BY <3>1
    <2>2. QED BY <2>1 DEF HasExt, TrimExt
  <1>2. QED BY <1>1

\* A step goes down to a node that is there, by an edge that fits the element,
\* and captures the element unless the edge is a hard one.
LEMMA BranchesGive ==
  ASSUME NEW node, NEW x \in PathElement, NEW last \in BOOLEAN, NEW b \in Branches(node, x, last)
  PROVE  \E d : /\ b.node = Append(node, d) /\ b.node \in nodes
                /\ Fits(AsElement(d), x, last)
                /\ d[1] = "hard" => b.data = <<>>
                /\ d[1] # "hard" => \E v \in {x, TrimExt(x)} : b.data = <<v>>
  <1> DEFINE below(kind, key) == Append(node, <<kind, key>>)
             bare == IF last /\ HasExt(x) THEN TrimExt(x) ELSE x
             regx == {rk \in (DOMAIN RegxMatches) \X (1 .. MaxHandles) :
                        /\ below("regx", rk) \in nodes
                        /\ {x, bare} \cap RegxMatches[rk[1]] # {}}
             types == {t \in DOMAIN Types :
                         below(Types[t], <<>>) \in nodes /\ bare \in Parses[Types[t]]}
             first == CHOOSE t \in types : \A u \in types : t <= u
  <1>1. bare = (IF last THEN TrimExt(x) ELSE x) /\ bare \in {x, TrimExt(x)}
    BY BareElement
  <1>2. b \in
        IF below("hard", x) \in nodes
          THEN {[node |-> below("hard", x), data |-> <<>>]}
        ELSE IF regx # {}
          THEN {[node |-> below("regx", rk),
                 data |-> <<IF bare \in RegxMatches[rk[1]] THEN bare ELSE x>>] : rk \in regx}
        ELSE IF types # {}
          THEN {[node |-> below(Types[first], <<>>), data |-> <<bare>>]}
        ELSE IF below("soft", <<>>) \in nodes
          THEN {[node |-> below("soft", <<>>), data |-> <<bare>>]}
        ELSE {}
    BY Zenon DEF Branches
  <1> HIDE DEF bare, types, first
  <1>3. ASSUME NEW d, NEW v \in {x, TrimExt(x)}, b = [node |-> Append(node, d), data |-> <<v>>],
               Append(node, d) \in nodes, d[1] # "hard", Fits(AsElement(d), x, last)
        PROVE  \E c : /\ b.node = Append(node, c) /\ b.node \in nodes
                      /\ Fits(AsElement(c), x, last)
                      /\ c[1] = "hard" => b.data = <<>>
                      /\ c[1] # "hard" => \E w \in {x, TrimExt(x)} : b.data = <<w>>
    <2>1. b.node = Append(node, d) /\ b.data = <<v>>
      BY <1>3
    <2>2. QED BY <1>3, <2>1, Zenon
  <1>4. CASE below("hard", x) \in nodes
    <2> DEFINE d == <<"hard", x>>
    <2>1. b = [node |-> Append(node, d), data |-> <<>>]
      BY <1>2, <1>4, Zenon
    <2>2. AsElement(d).kind = "hard" /\ AsElement(d).key = x /\ d[1] = "hard"
      BY DEF AsElement
    <2>3. Fits(AsElement(d), x, last)
      BY <2>2, Zenon DEF Fits
    <2>4. b.node = Append(node, d) /\ b.data = <<>>
      BY <2>1
    <2>5. QED BY <1>4, <2>2, <2>3, <2>4
  <1>5. CASE below("hard", x) \notin nodes /\ regx # {}
    <2>1. PICK rk \in regx : b = [node |-> below("regx", rk), data |-> <<IF bare \in RegxMatches[rk[1]] THEN bare ELSE x>>]
      BY <1>2, <1>5
    <2> DEFINE d == <<"regx", rk>>
    <2>2. AsElement(d).kind = "regx" /\ AsElement(d).key = rk /\ d[1] = "regx"
      BY DEF AsElement
    <2>3. {x, bare} \cap RegxMatches[rk[1]] # {} /\ Append(node, d) \in nodes
      BY <2>1
    <2>4. Fits(AsElement(d), x, last)
      <3>1. AsElement(d).kind # "hard" /\ AsElement(d).kind # "soft"
        BY <2>2
      <3>2. {x, IF last THEN TrimExt(x) ELSE x} \cap RegxMatches[AsElement(d).key[1]] # {}
        BY <1>1, <2>2, <2>3
      <3> DEFINE el == AsElement(d)
      <3> HIDE DEF el
      <3>3. el.kind = "regx" /\ el.kind # "hard" /\ el.kind # "soft" /\ {x, IF last THEN TrimExt(x) ELSE x} \cap RegxMatches[el.key[1]] # {}
        BY <2>2, <3>1, <3>2 DEF el
      <3>4. Fits(el, x, last)
        BY <3>3 DEF Fits
      <3>5. QED BY <3>4 DEF el
    <2>5. (IF bare \in RegxMatches[rk[1]] THEN bare ELSE x) \in {x, TrimExt(x)} /\ d[1] # "hard"
      BY <1>1, <2>2
    <2> HIDE DEF d
    <2>6. QED BY <1>3, <2>1, <2>3, <2>4, <2>5, Zenon DEF d
  <1>6. CASE below("hard", x) \notin nodes /\ regx = {} /\ types # {}
    <2> DEFINE d == <<Types[first], <<>>>>
    <2>1. b = [node |-> Append(node, d), data |-> <<bare>>]
      BY <1>2, <1>6, Zenon
    <2>2. first \in types
      <3>1. types \in SUBSET (DOMAIN Types)
        BY DEF types
      <3>2. QED BY <1>6, <3>1, FirstType, Zenon DEF first
    <2>3. first \in DOMAIN Types /\ Append(node, d) \in nodes /\ bare \in Parses[Types[first]]
      BY <2>2 DEF types
    <2>4. AsElement(d).kind = Types[first] /\ AsElement(d).key = <<>> /\ d[1] = Types[first]
      BY DEF AsElement
    <2>5. d[1] # "hard" /\ d[1] # "soft" /\ d[1] # "regx"
      BY <2>3, <2>4, TypesAre, Zenon
    <2>6. Fits(AsElement(d), x, last)
      <3> DEFINE el == AsElement(d)
      <3>1. el.kind # "hard" /\ el.kind # "soft" /\ el.kind # "regx" /\ (IF last THEN TrimExt(x) ELSE x) \in Parses[el.kind]
        BY <1>1, <2>3, <2>4, <2>5
      <3> HIDE DEF el
      <3>2. Fits(el, x, last)
        BY <3>1 DEF Fits
      <3>3. QED BY <3>2 DEF el
    <2> HIDE DEF d
    <2>7. QED BY <1>1, <1>3, <2>1, <2>3, <2>5, <2>6, Zenon
  <1>7. CASE below("hard", x) \notin nodes /\ regx = {} /\ types = {}
    <2> DEFINE d == <<"soft", <<>>>>
    <2>1. b = [node |-> Append(node, d), data |-> <<bare>>] /\ Append(node, d) \in nodes
      BY <1>2, <1>7
    <2>2. AsElement(d).kind = "soft" /\ d[1] = "soft"
      BY DEF AsElement
    <2>3. Fits(AsElement(d), x, last)
      <3> DEFINE el == AsElement(d)
      <3>1. el.kind = "soft" /\ el.kind # "hard"
        BY <2>2
      <3> HIDE DEF el
      <3>2. Fits(el, x, last)
        BY <3>1 DEF Fits
      <3>3. QED BY <3>2 DEF el
    <2>4. d[1] # "hard"
      BY <2>2
    <2> HIDE DEF d
    <2>5. QED BY <1>1, <1>3, <2>1, <2>3, <2>4, Zenon
  <1>8. QED BY <1>4, <1>5, <1>6, <1>7

Requests == Seq(PathElement)

\* A walk: it is at a node that is there, whose edges fit the elements consumed;
\* it captured one element for each edge that is not a hard one, in their order.
GoodWalk(w, p) ==
    /\ w.used \in 0 .. Len(p)
    /\ w.node \in nodes /\ Len(w.node) = w.used
    /\ \A j \in 1 .. w.used : Fits(AsElement(w.node[j]), p[j], j = Len(p))
    /\ w.data \in Requests /\ Len(w.data) = Count(AsPattern(w.node), w.used)
    /\ \A j \in 1 .. w.used :
          w.node[j][1] # "hard" => w.data[Count(AsPattern(w.node), j)] \in {p[j], TrimExt(p[j])}

\* A walk starts at the root, with nothing captured.
LEMMA StartIsGood ==
  ASSUME IInv, NEW p \in Requests
  PROVE  GoodWalk(Start, p)
  <1>1. Start.used = 0 /\ Start.node = <<>> /\ Start.data = <<>>
    BY DEF Start
  <1>2. Len(<<>>) = 0 /\ <<>> \in Requests /\ Len(p) \in Nat
    BY DEF Requests
  <1>3. Count(AsPattern(<<>>), 0) = 0
    BY CountIs
  <1>4. <<>> \in nodes
    BY DEF IInv, NodesInv
  <1> DEFINE w == Start
  <1>5. w.used = 0 /\ w.node = <<>> /\ w.data = <<>>
    BY <1>1
  <1> HIDE DEF w
  <1>6. w.used \in 0 .. Len(p) /\ \A j : j \notin 1 .. w.used
    BY <1>2, <1>5
  <1>7. GoodWalk(w, p)
    BY <1>2, <1>3, <1>4, <1>5, <1>6, Zenon DEF GoodWalk
  <1>8. QED BY <1>7 DEF w

\* Going one edge further down: the captures before it keep their places.
LEMMA PatternGrows ==
  ASSUME NEW node \in Seq(Edges), NEW d, Append(node, d) \in Seq(Edges)
  PROVE  LET n == Len(node)
             longer == AsPattern(Append(node, d))
         IN  /\ \A j \in 0 .. n : Count(longer, j) = Count(AsPattern(node), j)
             /\ Count(longer, n + 1) = IF d[1] # "hard" THEN Count(longer, n) + 1 ELSE Count(longer, n)
             /\ Append(node, d)[n + 1] = d /\ \A j \in 1 .. n : Append(node, d)[j] = node[j]
             /\ Len(Append(node, d)) = n + 1
  <1> DEFINE n == Len(node)
             down == Append(node, d)
  <1>1. /\ Len(down) = n + 1 /\ down[n + 1] = d /\ \A j \in 1 .. n : down[j] = node[j]
        /\ n \in Nat /\ DOMAIN node = 1 .. n /\ DOMAIN down = 1 .. (n + 1)
    OBVIOUS
  <1> HIDE DEF n, down
  <1>2. \A j \in 1 .. n : IsVariable(AsPattern(node)[j]) <=> node[j][1] # "hard"
    BY <1>1, CapturesCounted DEF n
  <1>3. \A j \in 1 .. (n + 1) : IsVariable(AsPattern(down)[j]) <=> down[j][1] # "hard"
    <2>1. Len(down) \in Nat /\ DOMAIN down = 1 .. Len(down)
      BY <1>1
    <2>2. \A j \in 1 .. Len(down) : IsVariable(AsPattern(down)[j]) <=> down[j][1] # "hard"
      BY <2>1, CapturesCounted
    <2>3. QED BY <1>1, <2>2
  <1>4. ASSUME NEW j \in 0 .. n PROVE Count(AsPattern(down), j) = Count(AsPattern(node), j)
    <2>1. j \in Nat /\ \A i \in 1 .. j : i \in 1 .. n /\ i \in 1 .. (n + 1)
      BY <1>1
    <2>2. \A i \in 1 .. j : IsVariable(AsPattern(down)[i]) <=> IsVariable(AsPattern(node)[i])
      BY <1>1, <1>2, <1>3, <2>1, Zenon
    <2>3. QED BY <2>1, <2>2, CountSame
  <1>5. Count(AsPattern(down), n + 1) = IF d[1] # "hard" THEN Count(AsPattern(down), n) + 1 ELSE Count(AsPattern(down), n)
    <2>1. n + 1 \in 1 .. (n + 1)
      BY <1>1
    <2>2. IsVariable(AsPattern(down)[n + 1]) <=> d[1] # "hard"
      BY <1>1, <1>3, <2>1, Zenon
    <2>3. QED BY <1>1, <2>2, CountIs, Zenon
  <1>6. QED BY <1>1, <1>4, <1>5 DEF n, down

\* A step of FindEndPoint keeps the walk in the tree, with every element it used
\* fitting the edge it took and captured by all edges but hard ones.
LEMMA OnwardIsGood ==
  ASSUME IInv, NEW p \in Requests, NEW k \in 1 .. Len(p), NEW w, GoodWalk(w, p), w.used <= k - 1,
         NEW v \in Onward(w, p, k)
  PROVE  GoodWalk(v, p) /\ v.used <= k
  <1> DEFINE next == IF w.used < k - 1 THEN {} ELSE Branches(w.node, p[k], k = Len(p))
  <1>1. v \in IF next = {} THEN {w} ELSE {[node |-> b.node, data |-> w.data \o b.data, used |-> k] : b \in next}
    BY Zenon DEF Onward
  <1>2. k \in Nat /\ Len(p) \in Nat /\ p[k] \in PathElement /\ w.used \in Nat /\ w.used \in 0 .. Len(p)
    <2>1. w.used \in 0 .. Len(p)
      BY DEF GoodWalk
    <2>2. QED BY <2>1 DEF Requests
  <1>3. CASE next = {}
    <2>1. v = w
      BY <1>1, <1>3, Zenon
    <2>2. w.used <= k
      BY <1>2
    <2>3. QED BY <2>1, <2>2
  <1>4. CASE next # {}
    <2>1. PICK b \in next : v = [node |-> b.node, data |-> w.data \o b.data, used |-> k]
      BY <1>1, <1>4, Zenon
    <2>2. w.used = k - 1 /\ b \in Branches(w.node, p[k], k = Len(p))
      <3>1. ~(w.used < k - 1) /\ b \in Branches(w.node, p[k], k = Len(p))
        BY <2>1, Zenon
      <3>2. QED BY <1>2, <3>1
    <2>3. PICK d : /\ b.node = Append(w.node, d) /\ b.node \in nodes
                   /\ Fits(AsElement(d), p[k], k = Len(p))
                   /\ d[1] = "hard" => b.data = <<>>
                   /\ d[1] # "hard" => \E x \in {p[k], TrimExt(p[k])} : b.data = <<x>>
      <3>1. (k = Len(p)) \in BOOLEAN
        OBVIOUS
      <3> DEFINE last == k = Len(p)
                 x == p[k]
      <3>2. last \in BOOLEAN /\ x \in PathElement /\ b \in Branches(w.node, x, last)
        BY <1>2, <2>2, <3>1
      <3> HIDE DEF last, x
      <3>3. \E d : /\ b.node = Append(w.node, d) /\ b.node \in nodes
                   /\ Fits(AsElement(d), x, last)
                   /\ d[1] = "hard" => b.data = <<>>
                   /\ d[1] # "hard" => \E y \in {x, TrimExt(x)} : b.data = <<y>>
        BY <3>2, BranchesGive
      <3>4. QED BY <3>3 DEF last, x
    <2>4. v.node = Append(w.node, d) /\ v.node \in nodes /\ v.data = w.data \o b.data /\ v.used = k
      BY <2>1, <2>3
    <2>5. w.node \in Seq(Edges) /\ Append(w.node, d) \in Seq(Edges) /\ Len(w.node) = k - 1
      BY <2>2, <2>3 DEF IInv, NodesInv, GoodWalk
    <2> DEFINE long == AsPattern(v.node)
               short == AsPattern(w.node)
    <2>6. /\ \A j \in 0 .. (k - 1) : Count(long, j) = Count(short, j)
          /\ Count(long, k) = IF d[1] # "hard" THEN Count(long, k - 1) + 1 ELSE Count(long, k - 1)
          /\ v.node[k] = d /\ \A j \in 1 .. (k - 1) : v.node[j] = w.node[j]
          /\ Len(v.node) = k
      <3>1. (k - 1) + 1 = k
        BY <1>2
      <3>2. QED BY <2>4, <2>5, <3>1, PatternGrows
    <2>7. w.data \in Requests /\ Len(w.data) = Count(short, k - 1)
      BY <2>2 DEF GoodWalk
    <2> HIDE DEF long, short
    <2>8. Count(long, k) \in Nat /\ Count(short, k - 1) \in Nat /\ Count(long, k - 1) = Count(short, k - 1)
      <3>1. k - 1 \in Nat /\ k - 1 \in 0 .. (k - 1)
        BY <1>2
      <3>2. QED BY <1>2, <2>6, <3>1, CountIs
    <2>9. /\ v.data \in Requests /\ Len(v.data) = Count(long, k)
          /\ \A i \in 1 .. Len(w.data) : v.data[i] = w.data[i]
          /\ d[1] # "hard" => v.data[Count(long, k)] \in {p[k], TrimExt(p[k])}
      <3>1. CASE d[1] = "hard"
        <4>1. v.data = w.data
          <5>1. v.data = w.data \o <<>>
            BY <2>3, <2>4, <3>1
          <5>2. QED BY <2>7, <5>1 DEF Requests
        <4>2. QED BY <2>6, <2>7, <2>8, <3>1, <4>1, Zenon
      <3>2. CASE d[1] # "hard"
        <4>1. PICK x \in {p[k], TrimExt(p[k])} : b.data = <<x>>
          BY <2>3, <3>2
        <4>2. x \in PathElement
          <5>1. \A y \in PathElement : TrimExt(y) \in PathElement
            <6>1. ASSUME NEW y \in PathElement PROVE y[1] \in STRING
              BY DEF PathElement
            <6>2. \A c, e : c \in STRING /\ e \in STRING \cup {""} => <<c, e>> \in PathElement
              BY DEF PathElement
            <6>3. "" \in STRING \cup {""}
              OBVIOUS
            <6>4. QED BY <6>1, <6>2, <6>3, Zenon DEF TrimExt
          <5>2. QED BY <1>2, <4>1, <5>1, Zenon
        <4>3. v.data = w.data \o <<x>>
          BY <2>4, <4>1
        <4>4. /\ v.data \in Requests /\ Len(v.data) = Len(w.data) + 1
              /\ \A i \in 1 .. Len(w.data) : v.data[i] = w.data[i]
              /\ v.data[Len(w.data) + 1] = x
          BY <2>7, <4>2, <4>3 DEF Requests
        <4>5. Count(long, k) = Len(w.data) + 1
          BY <2>6, <2>7, <2>8, <3>2, Zenon
        <4>6. QED BY <4>1, <4>4, <4>5, Zenon
      <3>3. QED BY <3>1, <3>2
    <2>10. ASSUME NEW j \in 1 .. k
           PROVE  /\ Fits(AsElement(v.node[j]), p[j], j = Len(p))
                  /\ v.node[j][1] # "hard" => v.data[Count(long, j)] \in {p[j], TrimExt(p[j])}
      <3>1. CASE j = k
        BY <2>3, <2>6, <2>9, <3>1, Zenon
      <3>2. CASE j # k
        <4>1. j \in 1 .. (k - 1) /\ j \in 0 .. (k - 1)
          BY <1>2, <3>2
        <4>2. v.node[j] = w.node[j] /\ Count(long, j) = Count(short, j)
          BY <2>6, <4>1
        <4>3. Fits(AsElement(w.node[j]), p[j], j = Len(p))
          BY <2>2, <4>1, Zenon DEF GoodWalk
        <4>4. w.node[j][1] # "hard" => w.data[Count(short, j)] \in {p[j], TrimExt(p[j])}
          BY <2>2, <4>1, Zenon DEF GoodWalk, short
        <4>5. w.node[j][1] # "hard" => Count(short, j) \in 1 .. Len(w.data)
          <5>1. w.node[j][1] # "hard" => IsVariable(short[j])
            <6>1. Len(w.node) \in Nat /\ DOMAIN w.node = 1 .. Len(w.node) /\ j \in 1 .. Len(w.node)
              BY <2>5, <4>1
            <6>2. QED BY <6>1, CapturesCounted, Zenon DEF short
          <5>2. k - 1 \in Nat /\ j \in Nat /\ j <= k - 1 /\ 0 < j
            BY <1>2, <4>1
          <5>3. Count(short, j) <= Count(short, k - 1) /\ Count(short, j) \in Nat
            BY <5>2, CountGrows, CountIs
          <5>4. IsVariable(short[j]) => Count(short, 0) < Count(short, j) /\ Count(short, 0) = 0
            BY <5>2, CountOwn, CountIs
          <5> DEFINE hard == w.node[j][1] = "hard"
          <5>5. ~hard => IsVariable(short[j])
            BY <5>1
          <5> HIDE DEF hard
          <5>6. ~hard => Count(short, j) \in 1 .. Len(w.data)
            BY <2>7, <2>8, <5>3, <5>4, <5>5
          <5>7. QED BY <5>6 DEF hard
        <4>6. QED BY <2>9, <4>2, <4>3, <4>4, <4>5, Zenon
      <3>3. QED BY <3>1, <3>2
    <2>11. v.used \in 0 .. Len(p) /\ v.used <= k
      BY <1>2, <2>4
    <2>12. QED BY <2>4, <2>6, <2>9, <2>10, <2>11, Zenon DEF GoodWalk, long
  <1>5. QED BY <1>3, <1>4

\* Every walk is a good one.
LEMMA WalksAreGood ==
  ASSUME IInv, NEW p \in Requests
  PROVE  \A k \in 0 .. Len(p) : \A w \in Walks(p)[k] : GoodWalk(w, p) /\ w.used <= k
  <1> DEFINE at(k) == Walks(p)[k]
             T == {k \in Nat : k <= Len(p) => \A v \in at(k) : GoodWalk(v, p) /\ v.used <= k}
  <1>1. Len(p) \in Nat
    BY DEF Requests
  <1>2. /\ at(0) = {Start}
        /\ \A k \in 1 .. Len(p) : at(k) = UNION {Onward(v, p, k) : v \in at(k - 1)}
    BY <1>1, WalksUnfold
  <1> HIDE DEF at
  <1>3. 0 \in T
    <2>1. GoodWalk(Start, p) /\ Start.used = 0
      BY StartIsGood DEF Start
    <2>2. QED BY <1>2, <2>1
  <1>4. ASSUME NEW k \in Nat, k \in T PROVE k + 1 \in T
    <2>1. SUFFICES ASSUME k + 1 <= Len(p), NEW v \in at(k + 1) PROVE GoodWalk(v, p) /\ v.used <= k + 1
      OBVIOUS
    <2>2. k + 1 \in 1 .. Len(p) /\ (k + 1) - 1 = k /\ k <= Len(p)
      BY <1>1, <2>1
    <2>3. PICK u \in at(k) : v \in Onward(u, p, k + 1)
      BY <1>2, <2>1, <2>2
    <2>4. GoodWalk(u, p) /\ u.used <= (k + 1) - 1
      BY <1>4, <2>2, <2>3
    <2> HIDE DEF T
    <2>5. QED BY <2>2, <2>3, <2>4, OnwardIsGood, Zenon
  <1>5. \A k \in Nat : k \in T
    <2> HIDE DEF T
    <2>1. QED BY <1>3, <1>4, Induction
  <1>6. \A k \in 0 .. Len(p) : \A w \in at(k) : GoodWalk(w, p) /\ w.used <= k
    BY <1>1, <1>5
  <1>7. QED BY <1>6 DEF at

\* So the walk that FindEndPoint ends with is a good one.
LEMMA WalkIsGood ==
  ASSUME IInv, NEW p \in Requests, NEW w \in Walk(p)
  PROVE  GoodWalk(w, p)
  <1>1. Len(p) \in 0 .. Len(p)
    BY DEF Requests
  <1>2. QED BY <1>1, WalksAreGood, Zenon DEF Walk

-----------------------------------------------------------------------------
(* Served as registered.                                                   *)

\* A path that has been split again is the one that was asked for.
LEMMA PathsAreRequests ==
  ASSUME NEW p \in Paths
  PROVE  p \in Requests /\ (p # <<>> => p[Len(p)] # Empty)
  <1> DEFINE S == STRING \X STRING
  <1>1. p \in Seq(S) /\ (p # <<>> => p[Len(p)] # Empty)
    BY PatternsAssumption
  <1>2. S \subseteq PathElement
    BY DEF PathElement
  <1> HIDE DEF S
  <1>3. p \in Seq(PathElement)
    BY <1>1, <1>2
  <1>4. QED BY <1>1, <1>3 DEF Requests

\* Answer a serves path p and method m at the end of walk w.
ServedBy(a, w, p, m) ==
    /\ GoodWalk(w, p)
    /\ a.end = EndOf(w, p) /\ a.end \in DOMAIN ends
    /\ a.handler \in RegsOf(a.end)
    /\ m \in Covered(reg[a.handler].methods) \/ (m = "HEAD" /\ "GET" \in Covered(reg[a.handler].methods))
    /\ a.pdata = PData(ends[a.end].varnames, w.data)
    /\ ~(Len(w.data) > Len(ends[a.end].varnames))
    /\ a.upath = UPath(p, w.used)

\* The answer to a request that is served: its walk, end point and handler.
LEMMA Answered ==
  ASSUME IInv, NEW p \in Requests, NEW slash \in BOOLEAN, slash \/ (p # <<>> => p[Len(p)] # Empty),
         NEW m \in Methods, NEW a \in FindRequestedEndPoint(Raw(p, slash), m), a.found = "yes"
  PROVE  \E w \in Walk(p) : ServedBy(a, w, p, m)
  <1>1. SplitPath(Raw(p, slash)) = p
    BY SplitRaw DEF Requests
  <1>2. PICK w \in Walk(p) : a = GetRequestedEndPoint(w, p, m)
    BY <1>1, Zenon DEF FindRequestedEndPoint
  <1>3. GoodWalk(w, p)
    BY WalkIsGood
  <1> DEFINE end == EndOf(w, p)
             h == HandlerOf(end, m)
             yes == [found |-> "yes", handler |-> h, end |-> end,
                     pdata |-> PData(ends[end].varnames, w.data),
                     upath |-> UPath(p, w.used),
                     ext |-> IF p = <<>> THEN "" ELSE p[Len(p)][2]]
             no == [found |-> "no"]
             panic == [found |-> "panic"]
  <1>4. a = IF h = 0 THEN no ELSE IF Len(w.data) > Len(ends[end].varnames) THEN panic ELSE yes
    BY <1>2, Zenon DEF GetRequestedEndPoint
  <1>5. no.found # "yes" /\ panic.found # "yes"
    OBVIOUS
  <1> HIDE DEF no, panic, yes, h, end
  <1>6. a = yes /\ h # 0 /\ ~(Len(w.data) > Len(ends[end].varnames))
    BY <1>4, <1>5, Zenon
  <1>7. a.handler = h /\ a.end = end /\ a.pdata = PData(ends[end].varnames, w.data) /\ a.upath = UPath(p, w.used)
    BY <1>6 DEF yes
  <1>8. end \in DOMAIN ends /\ (h = ends[end].handlers[m] \/ (m = "HEAD" /\ h = ends[end].handlers["GET"]))
    BY <1>6, Zenon DEF HandlerOf, h
  <1>9. \A n \in Methods :
           ends[end].handlers[n] # 0 =>
              ends[end].handlers[n] \in RegsOf(end) /\ n \in Covered(reg[ends[end].handlers[n]].methods)
    BY <1>8, Zenon DEF IInv, EndsInv
  <1>10. "GET" \in Methods
    BY RoutingAssumption
  <1>11. h \in RegsOf(end) /\ (m \in Covered(reg[h].methods) \/ (m = "HEAD" /\ "GET" \in Covered(reg[h].methods)))
    BY <1>6, <1>8, <1>9, <1>10, Zenon
  <1>12. QED BY <1>3, <1>6, <1>7, <1>8, <1>11, Zenon DEF end, ServedBy

\* An edge that fits an element stands for a pattern element that does.
LEMMA FitsFollow ==
  ASSUME NEW g \in Elements, NEW d \in EdgesFor(g), NEW x, NEW last, Fits(AsElement(d), x, last)
  PROVE  Fits(g, x, last)
  <1> DEFINE el == AsElement(d)
  <1>1. el.kind = g.kind /\ (g.kind # "regx" => el.key = g.key) /\ (g.kind = "regx" => el.key[1] = g.key[1])
    BY EdgeKinds DEF AsElement
  <1>2. Fits(el, x, last)
    OBVIOUS
  <1> HIDE DEF el
  <1>3. CASE g.kind = "hard"
    BY <1>1, <1>2, <1>3 DEF Fits
  <1>4. CASE g.kind = "soft"
    BY <1>1, <1>2, <1>4 DEF Fits
  <1>5. CASE g.kind = "regx"
    BY <1>1, <1>2, <1>5 DEF Fits
  <1>6. CASE g.kind # "hard" /\ g.kind # "soft" /\ g.kind # "regx"
    BY <1>1, <1>2, <1>6 DEF Fits
  <1>7. QED BY <1>3, <1>4, <1>5, <1>6

\* The edges of walk w stand for the pattern of registration q, which accepts p.
Reaches(w, p, q) ==
    /\ q.pattern \in Seq(Elements) /\ w.used <= Len(q.pattern)
    /\ \A j \in 0 .. w.used : Count(AsPattern(w.node), j) = Count(q.pattern, j)
    /\ \A j \in 1 .. w.used : w.node[j] \in EdgesFor(q.pattern[j]) /\ q.pattern[j] \in Elements
    /\ Accepts(q, p, w.used)

\* A walk ends where a registration of its end point accepts the path.
LEMMA EndReached ==
  ASSUME IInv, NEW p \in Requests, NEW w, GoodWalk(w, p),
         NEW h \in RegsOf(EndOf(w, p))
  PROVE  EndOf(w, p)[1] = w.node /\ w.used \in 0 .. Len(p) /\ Reaches(w, p, reg[h])
  <1> DEFINE e == EndOf(w, p)
             q == reg[h]
             P == q.pattern
             path == q.path
             n == w.used
  <1>1. e[1] = w.node /\ (n = Len(p) \/ e[2] = TRUE)
    <2>1. CASE e = <<w.node, FALSE>> /\ n = Len(p)
      BY <2>1
    <2>2. CASE e = <<w.node, TRUE>>
      BY <2>2
    <2>3. QED BY <2>1, <2>2, Zenon DEF EndOf
  <1>2. n \in 0 .. Len(p) /\ Len(w.node) = n /\ Len(p) \in Nat
    <2>1. Len(p) \in Nat
      BY DEF Requests
    <2>2. QED BY <2>1, Zenon DEF GoodWalk
  <1>3. q \in Registration /\ Follows(path, P) /\ e \in EndsOf(q)
    BY DEF IInv, RegInv, RegsOf
  <1>4. P \in Seq(Elements) /\ q.soft \in BOOLEAN
    BY <1>3 DEF Registration
  <1> HIDE DEF e, q
  <1>5. PICK i \in 0 .. Len(P) :
           /\ e = <<SubSeq(path, 1, i), q.soft>> /\ Len(e[1]) = i
           /\ i = Len(P) \/ (i + 1 >= q.own /\ P[i + 1].opt)
    BY <1>3, EndsOnTheWay
  <1> HIDE DEF P, path, n
  <1>6. i = n /\ e[1] = SubSeq(path, 1, i) /\ e[2] = q.soft /\ w.node = SubSeq(path, 1, i)
    BY <1>1, <1>2, <1>5
  <1>7. /\ \A j \in 1 .. i : w.node[j] \in EdgesFor(P[j])
        /\ \A j \in 0 .. i : Count(AsPattern(w.node), j) = Count(P, j)
    <2>1. StandsFor(SubSeq(path, 1, i), P, i)
      BY <1>3, <1>4, CountOnTheWay
    <2>2. StandsFor(w.node, P, i)
      BY <1>6, <2>1
    <2>3. QED BY <2>2, Zenon DEF StandsFor
  <1>8. n <= Len(P) /\ Len(P) \in Nat /\ n \in Nat
    BY <1>2, <1>4, <1>5, <1>6
  <1>9. \A j \in 1 .. n : P[j] \in Elements
    BY <1>4, <1>8
  <1>10. \A j \in 1 .. n : Fits(P[j], p[j], j = Len(p))
    <2>1. \A j \in 1 .. n : Fits(AsElement(w.node[j]), p[j], j = Len(p))
      BY Zenon DEF GoodWalk, n
    <2>2. QED BY <1>6, <1>7, <1>9, <2>1, FitsFollow, Zenon
  <1>11. n <= Len(P) /\ n <= Len(p)
    BY <1>2, <1>8
  <1>12. n = Len(P) \/ (n + 1 >= q.own /\ P[n + 1].opt)
    BY <1>5, <1>6
  <1>13. n = Len(p) \/ q.soft
    BY <1>1, <1>6
  <1>14. Accepts(q, p, n)
    BY <1>10, <1>11, <1>12, <1>13, Zenon DEF Accepts, P
  <1>15. /\ \A j \in 0 .. n : Count(AsPattern(w.node), j) = Count(P, j)
         /\ \A j \in 1 .. n : w.node[j] \in EdgesFor(P[j]) /\ P[j] \in Elements
    BY <1>6, <1>7, <1>9, Zenon
  <1>16. Reaches(w, p, q)
    BY <1>4, <1>11, <1>14, <1>15, Zenon DEF Reaches, P, n
  <1>17. QED BY <1>1, <1>2, <1>16, Zenon DEF e, q, n

\* The invariant and a good walk make the answer one that was registered.
LEMMA ServedRight == IInv => ServedAsRegistered
  <1> SUFFICES ASSUME IInv, NEW p \in Paths, NEW slash \in BOOLEAN, NEW m \in Methods,
                      NEW a \in FindRequestedEndPoint(Raw(p, slash), m), a.found = "yes"
               PROVE  LET q == reg[a.handler]
                      IN  /\ m \in Covered(q.methods) \/ (m = "HEAD" /\ "GET" \in Covered(q.methods))
                          /\ \E n \in 0 .. Len(p) : Accepts(q, p, n) /\ a.upath = UPath(p, n)
    BY Zenon DEF ServedAsRegistered
  <1>1. p \in Requests /\ (p # <<>> => p[Len(p)] # Empty)
    BY PathsAreRequests
  <1>2. PICK w \in Walk(p) : ServedBy(a, w, p, m)
    BY <1>1, Answered, Zenon
  <1>3. Accepts(reg[a.handler], p, w.used) /\ w.used \in 0 .. Len(p)
    BY <1>1, <1>2, EndReached, Zenon DEF ServedBy, Reaches
  <1>4. QED BY <1>2, <1>3, Zenon DEF ServedBy

\* Whatever is registered in whatever order, a handler is only given requests
\* that one of its registrations accepts (README.md:103-106; route.go:304-379).
THEOREM AlwaysServedAsRegistered == Spec => []ServedAsRegistered
  BY TreeFollowsRegistrations, ServedRight, PTL

-----------------------------------------------------------------------------
(* Variables keep their names.                                             *)

\* A bounded set of numbers that is not empty has a greatest one.
LEMMA GreatestNumber ==
  ASSUME NEW n \in Nat, NEW T \in SUBSET (0 .. n), T # {}
  PROVE  \E m \in T : \A t \in T : t <= m
  <1> DEFINE U == {n - t : t \in T}
  <1>1. U \in SUBSET Nat /\ U # {}
    <2>1. \A t \in T : n - t \in Nat
      OBVIOUS
    <2>2. QED BY <2>1
  <1>2. PICK u \in U : \A v \in U : u <= v
    BY <1>1, LeastNumber
  <1>3. PICK m \in T : u = n - m
    BY <1>2
  <1>4. ASSUME NEW t \in T PROVE t <= m
    <2>1. u <= n - t
      BY <1>2
    <2>2. t \in 0 .. n /\ m \in 0 .. n
      OBVIOUS
    <2>3. QED BY <1>3, <2>1, <2>2
  <1>5. QED BY <1>4

\* A number is at most itself: Zenon does no arithmetic.
LEMMA Itself == \A k \in Nat : k <= k
  OBVIOUS

\* PData has the k-th captured element under name x.
Finds(names, data, x, k) == x \in DOMAIN PData(names, data) /\ PData(names, data)[x] = data[k]

\* PData of a name that only one captured element has.
LEMMA PDataOf ==
  ASSUME NEW names, NEW data, NEW k \in DOMAIN data, NEW x, k \in Nat, x = names[k], x # "_",
         \A l \in DOMAIN data : names[l] = x => l = k
  PROVE  Finds(names, data, x, k)
  <1> DEFINE best(v) == CHOOSE l \in DOMAIN data :
                           names[l] = v /\ \A i \in DOMAIN data : names[i] = v => i <= l
             D == {names[l] : l \in DOMAIN data} \ {"_"}
  <1>1. PData(names, data) = [v \in D |-> data[best(v)]]
    BY Zenon DEF PData
  <1>2. names[k] \in D
    BY Zenon
  <1>3. best(names[k]) = k
    <2>1. k <= k
      BY Itself, Zenon
    <2>2. \A i \in DOMAIN data : names[i] = names[k] => i <= k
      BY <2>1, Zenon
    <2>3. \E l \in DOMAIN data : names[l] = names[k] /\ \A i \in DOMAIN data : names[i] = names[k] => i <= l
      BY <2>2, Zenon
    <2>4. best(names[k]) \in DOMAIN data /\ names[best(names[k])] = names[k]
      BY <2>3, Zenon
    <2> HIDE DEF best
    <2>5. QED BY <2>4, Zenon
  <1> HIDE DEF best, D
  <1>4. names[k] \in DOMAIN PData(names, data) /\ PData(names, data)[names[k]] = data[k]
    BY <1>1, <1>2, <1>3
  <1>5. QED BY <1>4, Zenon DEF Finds

\* The invariant's names, and a good walk's data, put the variables in PData.
LEMMA NamesKept == IInv => VariablesKeepTheirNames
  <1> SUFFICES ASSUME IInv, NEW p \in Paths, NEW m \in Methods,
                      NEW a \in FindRequestedEndPoint(Raw(p, FALSE), m),
                      a.found = "yes", NamesAgree(a.end)
               PROVE  VariablesAssigned(a, p)
    BY Zenon DEF VariablesKeepTheirNames
  <1>1. p \in Requests /\ (p # <<>> => p[Len(p)] # Empty)
    BY PathsAreRequests
  <1>2. PICK w \in Walk(p) : ServedBy(a, w, p, m)
    BY <1>1, Answered, Zenon
  <1> DEFINE e == a.end
             h == a.handler
             n == w.used
             names == ends[e].varnames
             data == w.data
             R == RegsOf(e)
             asP == AsPattern(w.node)
  <1>3. GoodWalk(w, p) /\ e = EndOf(w, p) /\ h \in R /\ e \in DOMAIN ends /\ a.pdata = PData(names, data)
    BY <1>2, Zenon DEF ServedBy
  <1>4. PICK L \in R : \A r \in R : r <= L
    <2>1. reg \in Seq(Registration)
      BY DEF IInv, RegInv
    <2>2. R \in SUBSET (0 .. Len(reg)) /\ Len(reg) \in Nat
      BY <2>1 DEF RegsOf
    <2>3. R # {}
      BY <1>3
    <2> HIDE DEF R
    <2>4. QED BY <2>2, <2>3, GreatestNumber
  <1> DEFINE P == reg[h].pattern
             Q == reg[L].pattern
  <1>5. /\ e[1] = w.node /\ n \in 0 .. Len(p)
        /\ P \in Seq(Elements) /\ Q \in Seq(Elements)
        /\ \A j \in 0 .. n : Count(asP, j) = Count(P, j) /\ Count(asP, j) = Count(Q, j)
        /\ \A j \in 1 .. n : w.node[j] \in EdgesFor(P[j]) /\ P[j] \in Elements /\ w.node[j] \in EdgesFor(Q[j]) /\ Q[j] \in Elements
    <2>1. /\ e[1] = w.node /\ n \in 0 .. Len(p)
          /\ P \in Seq(Elements)
          /\ \A j \in 0 .. n : Count(asP, j) = Count(P, j)
          /\ \A j \in 1 .. n : w.node[j] \in EdgesFor(P[j]) /\ P[j] \in Elements
      <3>1. h \in RegsOf(EndOf(w, p))
        BY <1>3
      <3>2. EndOf(w, p)[1] = w.node /\ w.used \in 0 .. Len(p) /\ Reaches(w, p, reg[h])
        BY <1>1, <1>3, <3>1, EndReached
      <3>3. QED BY <1>3, <3>2, Zenon DEF Reaches
    <2>2. /\ Q \in Seq(Elements)
          /\ \A j \in 0 .. n : Count(asP, j) = Count(Q, j)
          /\ \A j \in 1 .. n : w.node[j] \in EdgesFor(Q[j]) /\ Q[j] \in Elements
      <3>1. L \in RegsOf(EndOf(w, p))
        BY <1>3, <1>4
      <3>2. Reaches(w, p, reg[L])
        BY <1>1, <1>3, <3>1, EndReached
      <3>3. QED BY <3>2, Zenon DEF Reaches
    <2>3. QED BY <2>1, <2>2, Zenon
  <1>6. /\ Len(e[1]) = n /\ DOMAIN e[1] = 1 .. n
    <2>1. Len(w.node) = n /\ w.node \in Seq(Edges)
      BY <1>3 DEF IInv, NodesInv, GoodWalk
    <2>2. QED BY <1>5, <2>1
  <1>7. /\ data \in Requests /\ Len(data) = Count(asP, n)
        /\ \A j \in 1 .. n : w.node[j][1] # "hard" => data[Count(asP, j)] \in {p[j], TrimExt(p[j])}
    BY <1>3, Zenon DEF GoodWalk
  <1>8. Naming(names, Q, n)
    <2>1. AllNamed(reg[L], e)
      BY <1>4, Zenon DEF NamesAgree
    <2>2. QED BY <1>3, <1>4, <1>6, <2>1, Zenon DEF IInv, VarInv
  <1>9. \A j \in 1 .. n : P[j].var = Q[j].var
    BY <1>3, <1>4, <1>6, Zenon DEF NamesAgree
  <1>10. \A i, j \in 1 .. n : P[i].var = P[j].var => i = j \/ P[i].var \in {"", "_"}
    BY <1>3, <1>6, Zenon DEF NamesAgree
  <1>11. n \in Nat /\ n \in 0 .. n /\ Len(p) \in Nat /\ DOMAIN data = 1 .. Len(data)
    <2>1. Len(p) \in Nat
      BY <1>1 DEF Requests
    <2>2. DOMAIN data = 1 .. Len(data)
      BY <1>7 DEF Requests
    <2>3. QED BY <1>5, <2>1, <2>2
  <1> HIDE DEF names, data, P, Q, asP, n, R, e, h
  <1>12. ASSUME NEW j \in 1 .. n, P[j].var \notin {"", "_"}
         PROVE  P[j].var \in DOMAIN a.pdata /\ a.pdata[P[j].var] \in {p[j], TrimExt(p[j])}
    <2> DEFINE k == Count(Q, j)
    <2>1. IsVariable(P[j]) /\ IsVariable(Q[j]) /\ P[j].var # "_"
      BY <1>9, <1>12, Zenon DEF IsVariable
    <2>2. w.node[j][1] # "hard"
      BY <1>5, <2>1, EdgeKinds, Zenon
    <2>3. j \in Nat /\ 0 < j /\ j <= n /\ j \in 0 .. n
      BY <1>11
    <2>4. Count(asP, j) = k /\ Count(asP, n) = Count(Q, n)
      BY <1>5, <1>11, <2>3
    <2>5. k \in 1 .. Len(data) /\ Len(data) = Count(Q, n)
      <3>1. Count(Q, 0) < Count(Q, j) /\ Count(Q, 0) = 0 /\ Count(Q, j) \in Nat /\ Count(Q, n) \in Nat
        <4>1. Count(Q, 0) < Count(Q, j)
          BY <1>11, <2>1, <2>3, CountOwn
        <4>2. Count(Q, 0) = 0 /\ Count(Q, j) \in Nat /\ Count(Q, n) \in Nat
          BY <1>11, <2>3, CountIs
        <4>3. QED BY <4>1, <4>2
      <3>2. Count(Q, j) <= Count(Q, n)
        BY <1>11, <2>3, CountGrows
      <3>3. QED BY <1>7, <2>4, <3>1, <3>2
    <2>6. data[k] \in {p[j], TrimExt(p[j])}
      BY <1>7, <2>2, <2>4, Zenon
    <2>7. names[k] = P[j].var
      BY <1>8, <1>9, <2>1, Zenon DEF Naming
    <2>8. ASSUME NEW l \in DOMAIN data, names[l] = names[k] PROVE l = k
      <3>1. l \in 1 .. Count(Q, n)
        BY <1>11, <2>5, <2>8
      <3>2. PICK i \in 1 .. n : IsVariable(Q[i]) /\ Count(Q, i) = l
        BY <1>11, <3>1, CountReached
      <3>3. names[l] = Q[i].var
        BY <1>8, <3>2, Zenon DEF Naming
      <3>4. P[i].var = P[j].var
        BY <1>9, <2>7, <2>8, <3>3, Zenon
      <3>5. i = j
        BY <1>10, <1>12, <3>4, Zenon
      <3>6. QED BY <3>2, <3>5
    <2>9. k \in DOMAIN data /\ names[k] # "_" /\ DOMAIN data \subseteq Nat
      <3>1. k \in DOMAIN data /\ DOMAIN data \subseteq Nat
        BY <1>11, <2>5
      <3>2. QED BY <2>1, <2>7, <3>1, Zenon
    <2> HIDE DEF k
    <2>10. names[k] \in DOMAIN PData(names, data) /\ PData(names, data)[names[k]] = data[k]
      <3> DEFINE x == names[k]
      <3>1. names[k] = x /\ x # "_" /\ \A l \in DOMAIN data : names[l] = x => l = k
        BY <2>8, <2>9
      <3> HIDE DEF x
      <3>2. Finds(names, data, x, k)
        <4>1. k \in DOMAIN data /\ k \in Nat
          BY <2>9
        <4>2. x = names[k] /\ x # "_"
          BY <3>1
        <4>3. \A l \in DOMAIN data : names[l] = x => l = k
          BY <3>1
        <4>4. QED BY <4>1, <4>2, <4>3, PDataOf, Zenon
      <3>3. QED BY <3>2, Zenon DEF Finds, x
    <2>11. QED BY <1>3, <2>6, <2>7, <2>10, Zenon
  <1>13. QED BY <1>6, <1>12, Zenon DEF VariablesAssigned, P, n, e, h

\* A handler finds each of its path variables in PData, as long as all the
\* registrations of that end point name them alike (route.go:285-296, 409-424).
THEOREM VariablesAlwaysKeepTheirNames == Spec => []VariablesKeepTheirNames
  BY TreeFollowsRegistrations, NamesKept, PTL

-----------------------------------------------------------------------------
(* Paths without variables.                                                *)

\* The handler of an end point is its latest registration's for the method.
LEMMA HandlerIsLatest ==
  ASSUME IInv, NEW e \in DOMAIN ends, NEW m \in Methods
  PROVE  HandlerOf(e, m) = LatestFor(e, m)
  <1> DEFINE for(n) == {q \in RegsOf(e) : n \in Covered(reg[q].methods)}
             latest(T) == IF T = {} THEN 0 ELSE CHOOSE q \in T : \A r \in T : r <= q
             set(n) == ends[e].handlers[n]
  <1>1. \A n \in Methods :
           /\ set(n) = 0 \/ set(n) \in for(n)
           /\ \A q \in for(n) : set(n) # 0 /\ q <= set(n)
    <2>1. \A n \in Methods :
            /\ set(n) = 0 \/ (set(n) \in RegsOf(e) /\ n \in Covered(reg[set(n)].methods))
            /\ \A q \in RegsOf(e) : n \in Covered(reg[q].methods) => set(n) # 0 /\ q <= set(n)
      BY Zenon DEF IInv, EndsInv
    <2>2. QED BY <2>1, Zenon
  <1>2. \A n : for(n) \subseteq Nat \ {0}
    <2>1. reg \in Seq(Registration)
      BY DEF IInv, RegInv
    <2>2. DOMAIN reg \subseteq Nat \ {0}
      BY <2>1
    <2>3. QED BY <2>2 DEF RegsOf
  <1> HIDE DEF for, set
  <1>3. ASSUME NEW n \in Methods
        PROVE  /\ set(n) = latest(for(n))
               /\ set(n) = 0 <=> for(n) = {}
    <2>1. CASE for(n) = {}
      BY <1>1, <2>1
    <2>2. CASE for(n) # {}
      <3>1. set(n) # 0 /\ set(n) \in for(n) /\ \A r \in for(n) : r <= set(n)
        BY <1>1, <2>2
      <3>2. \E q \in for(n) : \A r \in for(n) : r <= q
        BY <3>1
      <3> DEFINE c == CHOOSE q \in for(n) : \A r \in for(n) : r <= q
      <3>3. c \in for(n) /\ \A r \in for(n) : r <= c
        BY <3>2, Zenon
      <3> HIDE DEF c
      <3>4. c = set(n)
        BY <1>2, <3>1, <3>3
      <3>5. QED BY <2>2, <3>1, <3>4 DEF c
    <2>3. QED BY <2>1, <2>2
  <1>4. LatestFor(e, m) = latest(IF m = "HEAD" /\ for(m) = {} THEN for("GET") ELSE for(m))
    BY Zenon DEF LatestFor, for
  <1>5. HandlerOf(e, m) = IF m = "HEAD" /\ set(m) = 0 THEN set("GET") ELSE set(m)
    BY Zenon DEF HandlerOf, set
  <1>6. "GET" \in Methods
    BY RoutingAssumption
  <1> HIDE DEF latest
  <1>7. CASE m = "HEAD" /\ for(m) = {}
    BY <1>3, <1>4, <1>5, <1>6, <1>7, Zenon
  <1>8. CASE ~(m = "HEAD" /\ for(m) = {})
    BY <1>3, <1>4, <1>5, <1>8, Zenon
  <1>9. QED BY <1>7, <1>8

\* An end point exists when it was registered.
LEMMA EndsRegistered ==
  ASSUME IInv, NEW e
  PROVE  e \in DOMAIN ends <=> RegsOf(e) # {}
  <1>1. DOMAIN ends = UNION {EndsOf(reg[q]) : q \in DOMAIN reg}
    BY DEF IInv, EndsInv
  <1>2. QED BY <1>1 DEF RegsOf

\* The way along hard edges has one walk, which captures nothing.
LEMMA HardWalk ==
  ASSUME IInv, NEW q \in DOMAIN reg, AllHard(reg[q].pattern)
  PROVE  LET p == KeysOf(reg[q].pattern)
         IN  /\ p \in Requests /\ Len(p) = Len(reg[q].pattern)
             /\ Walk(p) = {[node |-> reg[q].path, data |-> <<>>, used |-> Len(p)]}
  <1> DEFINE P == reg[q].pattern
             path == reg[q].path
             p == KeysOf(P)
             at(k) == Walks(p)[k]
             here(k) == [node |-> SubSeq(path, 1, k), data |-> <<>>, used |-> k]
  <1>1. P \in Seq(Elements) /\ Follows(path, P)
    <2>1. reg[q] \in Registration /\ Follows(path, P)
      BY DEF IInv, RegInv
    <2>2. QED BY <2>1 DEF Registration
  <1>2. path \in Seq(Edges) /\ Len(path) = Len(P) /\ Len(P) \in Nat /\ DOMAIN P = 1 .. Len(P)
    BY <1>1 DEF Follows
  <1>3. \A j \in 1 .. Len(P) : SubSeq(path, 1, j) \in nodes
    <2>1. \A j \in 0 .. Len(path) : SubSeq(path, 1, j) \in nodes
      BY DEF IInv, NodesInv
    <2>2. \A j \in 1 .. Len(P) : j \in 0 .. Len(path)
      BY <1>2
    <2>3. QED BY <2>1, <2>2
  <1>4. \A j \in DOMAIN P : P[j].kind = "hard"
    BY DEF AllHard
  <1> HIDE DEF P, path, p
  <1>5. ASSUME NEW j \in 1 .. Len(P) PROVE path[j] = <<"hard", P[j].key>> /\ P[j].key \in PathElement
    <2>1. P[j] \in Elements /\ path[j] \in EdgesFor(P[j]) /\ P[j].kind = "hard"
      BY <1>1, <1>2, <1>4 DEF Follows
    <2>2. path[j] = <<"hard", P[j].key>>
      <3>1. EdgesFor(P[j]) = {<<P[j].kind, P[j].key>>}
        BY <2>1 DEF EdgesFor
      <3>2. QED BY <2>1, <3>1
    <2>3. P[j].key \in STRING \X STRING
      BY <2>1, PatternsAssumption, Zenon
    <2>4. STRING \X STRING \subseteq PathElement
      BY DEF PathElement
    <2>5. QED BY <2>2, <2>3, <2>4
  <1>6. p = [j \in 1 .. Len(P) |-> P[j].key]
    BY <1>2, Zenon DEF KeysOf, p
  <1>7. p \in Requests /\ Len(p) = Len(P) /\ \A j \in 1 .. Len(P) : p[j] = P[j].key
    <2>1. p \in [1 .. Len(P) -> PathElement]
      BY <1>5, <1>6
    <2>2. p \in Seq(PathElement) /\ Len(p) = Len(P)
      BY <1>2, <2>1
    <2>3. QED BY <1>6, <2>2 DEF Requests
  <1>8. /\ at(0) = {Start}
        /\ \A k \in 1 .. Len(p) : at(k) = UNION {Onward(w, p, k) : w \in at(k - 1)}
    <2>1. Len(p) \in Nat
      BY <1>2, <1>7
    <2>2. QED BY <2>1, WalksUnfold
  <1>9. ASSUME NEW k \in Nat, k + 1 <= Len(P) PROVE Onward(here(k), p, k + 1) = {here(k + 1)}
    <2> DEFINE last == (k + 1) = Len(p)
               node == SubSeq(path, 1, k)
               down == SubSeq(path, 1, k + 1)
               b == [node |-> down, data |-> <<>>]
    <2>1. k + 1 \in 1 .. Len(P) /\ ~(k < (k + 1) - 1) /\ here(k).used = k /\ here(k).node = node /\ here(k).data = <<>>
      BY <1>9, <1>2
    <2>2. Append(node, <<"hard", p[k + 1]>>) = down /\ down \in nodes
      <3>1. path[k + 1] = <<"hard", p[k + 1]>>
        BY <1>5, <1>7, <2>1
      <3>2. Append(node, path[k + 1]) = down
        BY <1>2, <1>9
      <3>3. QED BY <1>3, <2>1, <3>1, <3>2
    <2>3. Branches(node, p[k + 1], last) = {b}
      <3> HIDE DEF node, down, last
      <3>1. QED BY <2>2, Zenon DEF Branches
    <2>4. Onward(here(k), p, k + 1) = {[node |-> b.node, data |-> <<>> \o b.data, used |-> k + 1]}
      <3> DEFINE next == IF here(k).used < (k + 1) - 1 THEN {} ELSE Branches(here(k).node, p[k + 1], k + 1 = Len(p))
                 f(c) == [node |-> c.node, data |-> here(k).data \o c.data, used |-> k + 1]
      <3>1. next = {b}
        <4>1. ~(here(k).used < (k + 1) - 1)
          BY <2>1
        <4>2. Branches(here(k).node, p[k + 1], k + 1 = Len(p)) = {b}
          BY <2>1, <2>3
        <4> HIDE DEF b, here
        <4>3. QED BY <4>1, <4>2, Zenon
      <3>2. Onward(here(k), p, k + 1) = IF next = {} THEN {here(k)} ELSE {f(c) : c \in next}
        BY Zenon DEF Onward
      <3> HIDE DEF next, f, b
      <3>3. Onward(here(k), p, k + 1) = {f(b)}
        BY <3>1, <3>2, Zenon
      <3>4. f(b) = [node |-> b.node, data |-> <<>> \o b.data, used |-> k + 1]
        BY <2>1, Zenon DEF f
      <3>5. QED BY <3>3, <3>4
    <2>5. b.node = down /\ <<>> \o b.data = <<>>
      OBVIOUS
    <2> HIDE DEF b, node, down
    <2>6. Onward(here(k), p, k + 1) = {[node |-> down, data |-> <<>>, used |-> k + 1]}
      BY <2>4, <2>5
    <2>7. QED BY <2>6, Zenon DEF down
  <1> DEFINE T == {k \in Nat : k <= Len(P) => at(k) = {here(k)}}
  <1>10. 0 \in T
    <2>1. SubSeq(path, 1, 0) = <<>>
      BY <1>2
    <2>2. here(0) = Start
      BY <2>1, Zenon DEF Start
    <2> HIDE DEF at, here
    <2>3. QED BY <1>8, <2>2
  <1>11. ASSUME NEW k \in Nat, k \in T PROVE k + 1 \in T
    <2> HIDE DEF at, here
    <2>1. SUFFICES ASSUME k + 1 <= Len(P) PROVE at(k + 1) = {here(k + 1)}
      OBVIOUS
    <2>2. k + 1 \in 1 .. Len(p) /\ (k + 1) - 1 = k /\ k <= Len(P)
      BY <1>2, <1>7, <2>1
    <2>3. at(k) = {here(k)}
      BY <1>11, <2>2
    <2>4. at(k + 1) = UNION {Onward(w, p, k + 1) : w \in at(k)}
      BY <1>8, <2>2
    <2>5. UNION {Onward(w, p, k + 1) : w \in {here(k)}} = Onward(here(k), p, k + 1)
      BY Zenon
    <2>6. QED BY <1>9, <2>1, <2>3, <2>4, <2>5
  <1>12. Len(P) \in T
    <2> HIDE DEF T
    <2>1. QED BY <1>2, <1>10, <1>11, Induction
  <1>13. at(Len(P)) = {here(Len(P))}
    <2> HIDE DEF at, here
    <2>1. QED BY <1>2, <1>12
  <1>14. SubSeq(path, 1, Len(P)) = path
    BY <1>2
  <1>15. Walk(p) = {[node |-> path, data |-> <<>>, used |-> Len(p)]}
    BY <1>7, <1>13, <1>14, Zenon DEF Walk
  <1>16. QED BY <1>7, <1>15, Zenon DEF p, P, path

\* The walk of a path registered without variables ends at its own end point.
LEMMA HardServed == IInv => HardPathServed
  <1> SUFFICES ASSUME IInv, NEW q \in DOMAIN reg, NEW m \in Methods, AllHard(reg[q].pattern),
                      NEW a \in FindRequestedEndPoint(Raw(KeysOf(reg[q].pattern), reg[q].soft), m)
               PROVE  LET e == <<reg[q].path, IF RegsOf(<<reg[q].path, FALSE>>) # {} THEN FALSE ELSE TRUE>>
                      IN  IF LatestFor(e, m) = 0 THEN a.found = "no"
                          ELSE a.found = "yes" /\ a.end = e /\ a.handler = LatestFor(e, m)
    BY Zenon DEF HardPathServed
  <1> DEFINE P == reg[q].pattern
             p == KeysOf(P)
             path == reg[q].path
             w == [node |-> path, data |-> <<>>, used |-> Len(p)]
             e == <<path, IF RegsOf(<<path, FALSE>>) # {} THEN FALSE ELSE TRUE>>
             h == LatestFor(e, m)
  <1>1. p \in Requests /\ Len(p) = Len(P) /\ Walk(p) = {w}
    BY HardWalk, Zenon
  <1>2. P \in Seq(Elements) /\ reg[q].soft \in BOOLEAN
    <2>1. reg[q] \in Registration
      BY DEF IInv, RegInv
    <2>2. QED BY <2>1 DEF Registration
  <1>3. reg[q].soft \/ (p # <<>> => p[Len(p)] # Empty)
    <2>1. ASSUME ~reg[q].soft, p # <<>> PROVE p[Len(p)] # Empty
      <3>1. P # <<>> /\ Len(P) \in DOMAIN P
        <4>1. Len(p) > 0
          <5> HIDE DEF p, P
          <5>1. QED BY <1>1, <2>1 DEF Requests
        <4>2. Len(P) > 0
          BY <1>1, <4>1
        <4>3. QED BY <1>2, <4>2
      <3>2. P[Len(P)].key # Empty
        BY <2>1, <3>1, Zenon DEF IInv, LastInv
      <3>3. p[Len(P)] = P[Len(P)].key
        BY <3>1, Zenon DEF KeysOf
      <3>4. QED BY <1>1, <3>2, <3>3
    <2>2. QED BY <2>1
  <1>4. SplitPath(Raw(p, reg[q].soft)) = p
    <2> HIDE DEF p, P
    <2>1. p \in Seq(PathElement)
      BY <1>1 DEF Requests
    <2>2. QED BY <1>2, <1>3, <2>1, SplitRaw, Zenon
  <1>5. a = GetRequestedEndPoint(w, p, m)
    <2> HIDE DEF w, p
    <2>1. a \in {GetRequestedEndPoint(v, p, m) : v \in {w}}
      BY <1>1, <1>4, Zenon DEF FindRequestedEndPoint, p
    <2>2. QED BY <2>1
  <1>6. w.used = Len(p) /\ w.node = path /\ w.data = <<>> /\ Len(w.data) = 0
    OBVIOUS
  <1> HIDE DEF w
  <1>7. EndOf(w, p) = e
    <2>1. EndOf(w, p) = IF <<path, FALSE>> \in DOMAIN ends THEN <<path, FALSE>> ELSE <<path, TRUE>>
      BY <1>6, Zenon DEF EndOf
    <2>2. <<path, FALSE>> \in DOMAIN ends <=> RegsOf(<<path, FALSE>>) # {}
      BY EndsRegistered
    <2>3. QED BY <2>1, <2>2, Zenon
  <1>8. e \in DOMAIN ends
    <2>1. q \in RegsOf(<<path, reg[q].soft>>)
      BY DEF RegsOf, EndsOf
    <2>2. <<path, FALSE>> \in DOMAIN ends \/ <<path, TRUE>> \in DOMAIN ends
      BY <1>2, <2>1, EndsRegistered
    <2>3. <<path, FALSE>> \in DOMAIN ends <=> RegsOf(<<path, FALSE>>) # {}
      BY EndsRegistered
    <2>4. QED BY <2>2, <2>3, Zenon
  <1> HIDE DEF e
  <1>9. HandlerOf(e, m) = h
    BY <1>8, HandlerIsLatest
  <1>10. ~(Len(w.data) > Len(ends[e].varnames))
    <2>1. ends[e].varnames \in Seq(Vars)
      BY <1>8 DEF IInv, VarInv
    <2>2. QED BY <1>6, <2>1
  <1> DEFINE yes == [found |-> "yes", handler |-> h, end |-> e,
                     pdata |-> PData(ends[e].varnames, w.data),
                     upath |-> UPath(p, w.used),
                     ext |-> IF p = <<>> THEN "" ELSE p[Len(p)][2]]
             no == [found |-> "no"]
  <1>11. a = IF h = 0 THEN no ELSE yes
    <2> HIDE DEF h
    <2>1. QED BY <1>5, <1>7, <1>9, <1>10, Zenon DEF GetRequestedEndPoint
  <1>12. no.found = "no" /\ yes.found = "yes" /\ yes.end = e /\ yes.handler = h
    OBVIOUS
  <1> HIDE DEF yes, no, h
  <1>13. IF h = 0 THEN a.found = "no" ELSE a.found = "yes" /\ a.end = e /\ a.handler = h
    BY <1>11, <1>12
  <1>14. QED BY <1>13, Zenon DEF e, h

\* A path registered without variables is served by the latest registration made
\* for its end point and the method (route.go:328, 451-474).
THEOREM HardPathAlwaysServed == Spec => []HardPathServed
  BY TreeFollowsRegistrations, HardServed, PTL

-----------------------------------------------------------------------------
(* One answer.                                                             *)

\* Every regular expression that a node has, it has once.
Once(N) == \A node \in N : \A j \in 1 .. Len(node) : node[j][1] = "regx" => node[j][2][2] = 1

\* It is so as long as all of them are written with ^ and $.
OnceInv ==
    (/\ \A q \in DOMAIN reg : Anchored(reg[q].pattern)
     /\ \A P \in Prefixes : Anchored(P)) => Once(nodes)

\* Going down for an anchored pattern adds no regular expression twice.
LEMMA OnceGrown ==
  ASSUME IInv, NEW base \in nodes, NEW P \in Seq(Elements), Anchored(P),
         NEW path \in EdgePaths(base, P), Once(nodes)
  PROVE  Once(Grown(base, path))
  <1>1. /\ Follows(path, P) /\ path \in Seq(Edges) /\ Len(path) = Len(P) /\ Len(P) \in Nat
        /\ base \in Seq(Edges) /\ Len(base) \in Nat
    <2>1. Follows(path, P)
      BY EdgePathsFollow
    <2>2. base \in Seq(Edges)
      BY DEF IInv, NodesInv
    <2>3. QED BY <2>1, <2>2 DEF Follows
  <1>2. ASSUME NEW j \in 1 .. Len(P), path[j][1] = "regx" PROVE path[j][2][2] = 1
    <2> DEFINE node == base \o SubSeq(path, 1, j - 1)
               key == P[j].key[1]
               has == {k \in 1 .. MaxHandles : Append(node, <<"regx", <<key, k>>>>) \in nodes}
    <2>1. P[j] \in Elements /\ path[j] \in EdgesFor(P[j])
      BY <1>1 DEF Follows
    <2>2. P[j].kind = "regx"
      BY <1>2, <2>1, EdgeKinds
    <2>3. j \in DOMAIN P
      BY <1>1
    <2>4. P[j].key[2]
      BY <2>2, <2>3, Zenon DEF Anchored
    <2>5. path[j] \in EdgeChoices(node, P[j])
      BY <2>3, Zenon DEF EdgePaths
    <2>6. PICK k \in (IF P[j].key[2] /\ has # {} THEN has ELSE {Cardinality(has) + 1}) : path[j] = <<"regx", <<key, k>>>>
      BY <2>2, <2>5, Zenon DEF EdgeChoices
    <2>7. ASSUME NEW i \in has PROVE i = 1
      <3> DEFINE d == <<"regx", <<key, i>>>>
                 down == Append(node, d)
      <3>1. SubSeq(path, 1, j - 1) \in Seq(Edges)
        BY <1>1
      <3>2. node \in Seq(Edges)
        BY <1>1, <3>1, ConcatProperties
      <3>3. d[1] = "regx" /\ d[2][2] = i /\ down \in nodes
        BY <2>7
      <3> HIDE DEF node, d
      <3>4. Len(down) = Len(node) + 1 /\ down[Len(node) + 1] = d /\ Len(node) + 1 \in 1 .. Len(down)
        BY <3>2
      <3>5. down[Len(down)][1] = "regx" => down[Len(down)][2][2] = 1
        <4>1. Len(down) \in 1 .. Len(down)
          BY <3>4
        <4>2. QED BY <3>3, <4>1, Zenon DEF Once
      <3>6. QED BY <3>3, <3>4, <3>5
    <2> HIDE DEF has, node
    <2>8. k = 1
      <3>1. CASE has # {}
        BY <2>4, <2>6, <2>7, <3>1, Zenon
      <3>2. CASE has = {}
        <4>1. k = Cardinality({}) + 1
          BY <2>6, <3>2, Zenon
        <4>2. QED BY <4>1, FS_EmptySet
      <3>3. QED BY <3>1, <3>2
    <2>9. QED BY <2>6, <2>8
  <1>3. ASSUME NEW i \in 0 .. Len(path), NEW j \in 1 .. Len(base \o SubSeq(path, 1, i)),
               (base \o SubSeq(path, 1, i))[j][1] = "regx"
        PROVE  (base \o SubSeq(path, 1, i))[j][2][2] = 1
    <2> DEFINE way == SubSeq(path, 1, i)
    <2>1. way \in Seq(Edges) /\ Len(way) = i /\ \A l \in 1 .. i : way[l] = path[l]
      BY <1>1
    <2> HIDE DEF way
    <2>2. Len(base \o way) = Len(base) + i /\ i \in Nat /\ i <= Len(P)
      <3>1. Len(base \o way) = Len(base) + Len(way)
        BY <1>1, <2>1, ConcatProperties
      <3>2. i \in Nat /\ i <= Len(P)
        BY <1>1
      <3>3. QED BY <2>1, <3>1, <3>2
    <2>3. j \in 1 .. Len(base \o way) /\ (base \o way)[j][1] = "regx"
      BY <1>3 DEF way
    <2>4. CASE j <= Len(base)
      <3>1. (base \o way)[j] = base[j] /\ j \in 1 .. Len(base)
        BY <1>1, <2>1, <2>3, <2>4
      <3>2. base[j][2][2] = 1
        BY <2>3, <3>1, Zenon DEF Once
      <3>3. QED BY <3>1, <3>2 DEF way
    <2>5. CASE ~(j <= Len(base))
      <3>1. (base \o way)[j] = way[j - Len(base)] /\ j - Len(base) \in 1 .. i
        <4>1. j \in 1 .. (Len(base) + i)
          BY <2>2, <2>3
        <4>2. QED BY <1>1, <2>1, <2>2, <2>5, <4>1
      <3>2. (base \o way)[j] = path[j - Len(base)] /\ j - Len(base) \in 1 .. Len(P)
        BY <1>1, <2>1, <2>2, <3>1
      <3>3. path[j - Len(base)][2][2] = 1
        BY <1>2, <2>3, <3>2
      <3>4. QED BY <3>2, <3>3 DEF way
    <2>6. QED BY <2>4, <2>5
  <1>4. QED BY <1>3, Zenon DEF Once, Grown

\* A new router has no regular expression.
LEMMA InitOnce == Init => OnceInv
  <1>1. Init => nodes = {<<>>}
    BY DEF Init
  <1>2. \A j : j \notin 1 .. Len(<<>>)
    OBVIOUS
  <1>3. nodes = {<<>>} => Once(nodes)
    BY <1>2, Zenon DEF Once
  <1>4. QED BY <1>1, <1>3 DEF OnceInv

\* Anchored registrations add no regular expression twice below a node.
LEMMA NextOnce == IInv /\ OnceInv /\ [Next]_vars => OnceInv'
  <1> SUFFICES ASSUME IInv, OnceInv, [Next]_vars,
                      \A q \in DOMAIN reg' : Anchored(reg'[q].pattern),
                      \A P \in Prefixes : Anchored(P)
               PROVE  Once(nodes')
    BY Zenon DEF OnceInv, Anchored
  <1>1. reg \in Seq(Registration) /\ Len(reg) \in Nat
    <2>1. reg \in Seq(Registration)
      BY DEF IInv, RegInv
    <2>2. QED BY <2>1
  \* A registration more leaves those there were.
  <1>2. ASSUME NEW r, reg' = Append(reg, r)
        PROVE  Anchored(r.pattern) /\ Once(nodes)
    <2>1. /\ Len(reg) + 1 \in DOMAIN reg' /\ reg'[Len(reg) + 1] = r
          /\ \A q \in DOMAIN reg : q \in DOMAIN reg' /\ reg'[q] = reg[q]
      BY <1>1, <1>2
    <2>2. \A q \in DOMAIN reg : Anchored(reg[q].pattern)
      BY <2>1
    <2>3. Once(nodes)
      BY <2>2, Zenon DEF OnceInv
    <2>4. Anchored(r.pattern)
      BY <2>1, Zenon
    <2>5. QED BY <2>3, <2>4
  <1>3. <<>> \in nodes /\ switch.route \in nodes
    <2>1. <<>> \in nodes /\ \A j \in 0 .. Len(switch.route) : SubSeq(switch.route, 1, j) \in nodes
      BY Zenon DEF IInv, NodesInv
    <2>2. switch.route \in Seq(Edges)
      BY DEF IInv, SwitchInv, Follows
    <2>3. Len(switch.route) \in 0 .. Len(switch.route) /\ SubSeq(switch.route, 1, Len(switch.route)) = switch.route
      BY <2>2
    <2>4. QED BY <2>1, <2>3
  <1>4. ASSUME NEW g \in Patterns, NEW ms, Handle(g[1], g[2], ms) PROVE Once(nodes')
    <2>1. PICK path \in EdgePaths(<<>>, g[1]) :
             /\ nodes' = Grown(<<>>, path)
             /\ reg' = Append(reg, [pattern |-> g[1], own |-> 1, soft |-> g[2], methods |-> ms, path |-> path])
      BY <1>4, Zenon DEF Handle
    <2> DEFINE r == [pattern |-> g[1], own |-> 1, soft |-> g[2], methods |-> ms, path |-> path]
    <2>2. r.pattern = g[1]
      OBVIOUS
    <2> HIDE DEF r
    <2>3. Anchored(r.pattern) /\ Once(nodes)
      BY <1>2, <2>1 DEF r
    <2>4. g[1] \in Seq(Elements)
      BY PatternsAssumption
    <2>5. QED BY <1>3, <2>1, <2>2, <2>3, <2>4, OnceGrown
  <1>5. ASSUME NEW P \in Prefixes, Switch(P) PROVE Once(nodes')
    <2>1. PICK path \in EdgePaths(switch.route, P) : nodes' = Grown(switch.route, path)
      BY <1>5, Zenon DEF Switch
    <2>2. reg' = reg
      BY <1>5 DEF Switch
    <2>3. Once(nodes)
      BY <2>2, Zenon DEF OnceInv
    <2>4. P \in Seq(Elements) /\ Anchored(P)
      BY PatternsAssumption
    <2>5. QED BY <1>3, <2>1, <2>3, <2>4, OnceGrown
  <1>6. ASSUME NEW g \in Patterns, SwitchHandle(g[1], g[2]) PROVE Once(nodes')
    <2>1. PICK path \in EdgePaths(switch.route, g[1]) :
             /\ nodes' = Grown(switch.route, path)
             /\ reg' = Append(reg, [pattern |-> switch.pattern \o g[1],
                                    own |-> Len(switch.pattern) + 1, soft |-> g[2],
                                    methods |-> {}, path |-> switch.route \o path])
      BY <1>6, Zenon DEF SwitchHandle
    <2> DEFINE r == [pattern |-> switch.pattern \o g[1], own |-> Len(switch.pattern) + 1, soft |-> g[2],
                     methods |-> {}, path |-> switch.route \o path]
               P == g[1]
               B == switch.pattern
    <2>2. r.pattern = B \o P
      OBVIOUS
    <2> HIDE DEF r
    <2>3. Anchored(B \o P) /\ Once(nodes)
      BY <1>2, <2>1, <2>2 DEF r
    <2>4. P \in Seq(Elements) /\ B \in Seq(Elements)
      BY PatternsAssumption DEF IInv, SwitchInv
    <2>5. Anchored(P)
      <3> HIDE DEF P, B
      <3>1. ASSUME NEW j \in DOMAIN P PROVE Len(B) + j \in DOMAIN (B \o P) /\ (B \o P)[Len(B) + j] = P[j]
        BY <2>4
      <3>2. QED BY <2>3, <3>1, Zenon DEF Anchored
    <2>6. QED BY <1>3, <2>1, <2>3, <2>4, <2>5, OnceGrown
  <1>7. CASE UNCHANGED vars
    BY <1>7, Zenon DEF vars, OnceInv
  <1>8. QED BY <1>4, <1>5, <1>6, <1>7, Zenon DEF Next

\* No two regular expressions match the same element, with or without extension.
Distinct == \A r, s \in DOMAIN RegxMatches : r # s => Bares(r) \cap Bares(s) = {}

Single(S) == \E w : S = {w}

\* Then there is at most one step to take.
LEMMA OneBranch ==
  ASSUME IInv, Once(nodes), Distinct, NEW node \in nodes,
         NEW x \in PathElement, NEW last \in BOOLEAN, Branches(node, x, last) # {}
  PROVE  Single(Branches(node, x, last))
  <1> DEFINE below(kind, key) == Append(node, <<kind, key>>)
             bare == IF last /\ HasExt(x) THEN TrimExt(x) ELSE x
             regx == {rk \in (DOMAIN RegxMatches) \X (1 .. MaxHandles) :
                        /\ below("regx", rk) \in nodes
                        /\ {x, bare} \cap RegxMatches[rk[1]] # {}}
             types == {t \in DOMAIN Types :
                         below(Types[t], <<>>) \in nodes /\ bare \in Parses[Types[t]]}
             first == CHOOSE t \in types : \A u \in types : t <= u
             step(rk) == [node |-> below("regx", rk),
                          data |-> <<IF bare \in RegxMatches[rk[1]] THEN bare ELSE x>>]
             hard == [node |-> below("hard", x), data |-> <<>>]
             typed == [node |-> below(Types[first], <<>>), data |-> <<bare>>]
             soft == [node |-> below("soft", <<>>), data |-> <<bare>>]
  <1>1. Branches(node, x, last) =
        IF below("hard", x) \in nodes THEN {hard}
        ELSE IF regx # {} THEN {step(rk) : rk \in regx}
        ELSE IF types # {} THEN {typed}
        ELSE IF below("soft", <<>>) \in nodes THEN {soft}
        ELSE {}
    BY Zenon DEF Branches
  <1>2. ASSUME NEW rk \in regx PROVE rk[2] = 1 /\ rk = <<rk[1], rk[2]>> /\ rk[1] \in DOMAIN RegxMatches /\ TrimExt(x) \in Bares(rk[1])
    <2> DEFINE d == <<"regx", rk>>
               down == Append(node, d)
    <2>1. node \in Seq(Edges) /\ down \in nodes /\ d[1] = "regx" /\ d[2] = rk
      BY <1>2 DEF IInv, NodesInv
    <2>2. rk = <<rk[1], rk[2]>> /\ rk[1] \in DOMAIN RegxMatches
      BY <1>2
    <2>3. {x, bare} \cap RegxMatches[rk[1]] # {}
      BY <1>2, Zenon
    <2> HIDE DEF d, regx
    <2>4. down[Len(down)] = d /\ Len(down) \in 1 .. Len(down)
      BY <2>1
    <2>5. rk[2] = 1
      BY <2>1, <2>4, Zenon DEF Once
    <2>6. TrimExt(bare) = TrimExt(x)
      <3>1. ASSUME NEW y PROVE TrimExt(TrimExt(y)) = TrimExt(y)
        BY DEF TrimExt
      <3>2. QED BY <3>1, Zenon
    <2>7. PICK y \in {x, bare} : y \in RegxMatches[rk[1]]
      <3> HIDE DEF bare
      <3>1. QED BY <2>3
    <2>8. TrimExt(y) = TrimExt(x)
      BY <2>6, <2>7, Zenon
    <2>9. TrimExt(x) \in Bares(rk[1])
      BY <2>7, <2>8 DEF Bares
    <2>10. QED BY <2>2, <2>5, <2>9
  <1> HIDE DEF step, hard, typed, soft
  <1>3. CASE below("hard", x) \in nodes
    BY <1>1, <1>3, Zenon DEF Single
  <1>4. CASE below("hard", x) \notin nodes /\ regx # {}
    <2> HIDE DEF regx
    <2>1. PICK rk : rk \in regx
      BY <1>4
    <2>2. ASSUME NEW sk \in regx PROVE sk = rk
      <3>1. TrimExt(x) \in Bares(rk[1]) \cap Bares(sk[1])
        BY <1>2, <2>1, <2>2
      <3>2. sk[1] = rk[1]
        BY <1>2, <2>1, <2>2, <3>1 DEF Distinct
      <3>3. QED BY <1>2, <2>1, <2>2, <3>2
    <2>3. regx = {rk}
      BY <2>1, <2>2
    <2>4. Branches(node, x, last) = {step(sk) : sk \in regx}
      BY <1>1, <1>4, Zenon
    <2>5. Branches(node, x, last) = {step(rk)}
      BY <2>3, <2>4, Zenon
    <2>6. QED BY <2>5, Zenon DEF Single
  <1>5. CASE below("hard", x) \notin nodes /\ regx = {}
    <2> HIDE DEF regx, types, below
    <2>1. Branches(node, x, last) = {typed} \/ Branches(node, x, last) = {soft}
      BY <1>1, <1>5, Zenon
    <2>2. QED BY <2>1, Zenon DEF Single
  <1>6. QED BY <1>3, <1>4, <1>5, Zenon

\* Then a path has one walk.
LEMMA OneWalk ==
  ASSUME IInv, Once(nodes), Distinct, NEW p \in Requests
  PROVE  \E w : Walk(p) = {w}
  <1> DEFINE at(k) == Walks(p)[k]
             T == {k \in Nat : k <= Len(p) => Single(at(k))}
  <1>1. Len(p) \in Nat
    BY DEF Requests
  <1>2. /\ at(0) = {Start}
        /\ \A k \in 1 .. Len(p) : at(k) = UNION {Onward(v, p, k) : v \in at(k - 1)}
    BY <1>1, WalksUnfold
  <1>3. \A k \in 0 .. Len(p) : \A w \in at(k) : GoodWalk(w, p)
    BY WalksAreGood, Zenon
  <1> HIDE DEF at
  <1>4. 0 \in T
    BY <1>2 DEF Single
  <1>5. ASSUME NEW k \in Nat, k \in T PROVE k + 1 \in T
    <2>1. SUFFICES ASSUME k + 1 <= Len(p) PROVE Single(at(k + 1))
      OBVIOUS
    <2>2. k + 1 \in 1 .. Len(p) /\ (k + 1) - 1 = k /\ k <= Len(p) /\ k \in 0 .. Len(p)
      BY <1>1, <2>1
    <2>3. PICK w : at(k) = {w}
      BY <1>5, <2>2 DEF Single
    <2>4. at(k + 1) = UNION {Onward(v, p, k + 1) : v \in at(k)}
      BY <1>2, <2>2
    <2>5. at(k + 1) = Onward(w, p, k + 1)
      <3>1. UNION {Onward(v, p, k + 1) : v \in {w}} = Onward(w, p, k + 1)
        BY Zenon
      <3>2. QED BY <2>3, <2>4, <3>1
    <2> DEFINE last == k + 1 = Len(p)
               next == IF w.used < (k + 1) - 1 THEN {} ELSE Branches(w.node, p[k + 1], last)
               f(b) == [node |-> b.node, data |-> w.data \o b.data, used |-> k + 1]
    <2>6. Onward(w, p, k + 1) = IF next = {} THEN {w} ELSE {f(b) : b \in next}
      BY Zenon DEF Onward
    <2>7. CASE next = {}
      BY <2>5, <2>6, <2>7, Zenon DEF Single
    <2>8. CASE next # {}
      <3>1. next = Branches(w.node, p[k + 1], last)
        BY <2>8, Zenon
      <3>2. w.node \in nodes
        BY <1>3, <2>2, <2>3, Zenon DEF GoodWalk
      <3>3. p[k + 1] \in PathElement /\ last \in BOOLEAN
        BY <2>2 DEF Requests
      <3> DEFINE x == p[k + 1]
      <3> HIDE DEF next, last, f, x
      <3>4. PICK b : next = {b}
        <4>1. Branches(w.node, x, last) # {} /\ x \in PathElement
          BY <2>8, <3>1, <3>3 DEF x
        <4>2. Single(Branches(w.node, x, last))
          BY <3>2, <3>3, <4>1, OneBranch
        <4>3. QED BY <3>1, <4>2 DEF x, Single
      <3>5. at(k + 1) = {f(b)}
        BY <2>5, <2>6, <2>8, <3>4, Zenon
      <3>6. QED BY <3>5, Zenon DEF Single
    <2>9. QED BY <2>7, <2>8
  <1>6. Len(p) \in T
    <2> HIDE DEF T
    <2>1. QED BY <1>1, <1>4, <1>5, Induction
  <1>7. Single(at(Len(p)))
    BY <1>1, <1>6
  <1>8. QED BY <1>7, Zenon DEF Single, Walk, at

\* One walk has one answer.
LEMMA AnswerIsOne == IInv /\ OnceInv => OneAnswer
  <1> SUFFICES ASSUME IInv, OnceInv,
                      \A q \in DOMAIN reg : Anchored(reg[q].pattern),
                      \A P \in Prefixes : Anchored(P),
                      \A r, s \in DOMAIN RegxMatches : r # s => Bares(r) \cap Bares(s) = {},
                      NEW p \in Paths, NEW m \in Methods
               PROVE  Cardinality(FindRequestedEndPoint(Raw(p, FALSE), m)) = 1
    BY Zenon DEF OneAnswer
  <1>1. p \in Requests /\ (p # <<>> => p[Len(p)] # Empty)
    BY PathsAreRequests
  <1>2. SplitPath(Raw(p, FALSE)) = p
    BY <1>1, SplitRaw DEF Requests
  <1>3. Once(nodes) /\ Distinct
    BY Zenon DEF OnceInv, Distinct
  <1>4. PICK w : Walk(p) = {w}
    BY <1>1, <1>3, OneWalk, Zenon
  <1>5. FindRequestedEndPoint(Raw(p, FALSE), m) = {GetRequestedEndPoint(w, p, m)}
    <2>1. FindRequestedEndPoint(Raw(p, FALSE), m) = {GetRequestedEndPoint(v, p, m) : v \in {w}}
      BY <1>2, <1>4, Zenon DEF FindRequestedEndPoint
    <2>2. QED BY <2>1, Zenon
  <1>6. QED BY <1>5, FS_Singleton, Zenon

\* A request has one answer, as long as the expressions were written with ^ and $
\* and no two of them match the same element (route.go:164-181, 320-342).
THEOREM AlwaysOneAnswer == Spec => []OneAnswer
  <1>1. Init => IInv /\ OnceInv
    BY InitIInv, InitOnce
  <1>2. (IInv /\ OnceInv) /\ [Next]_vars => (IInv /\ OnceInv)'
    BY NextIInv, NextOnce
  <1>3. (IInv /\ OnceInv) => OneAnswer
    BY AnswerIsOne
  <1>4. QED BY <1>1, <1>2, <1>3, PTL DEF Spec
=============================================================================
