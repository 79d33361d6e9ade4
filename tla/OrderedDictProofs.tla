--------------------------- MODULE OrderedDictProofs ---------------------------
(***************************************************************************)
(* That an ordered dictionary reads as the pairs that were set, for any    *)
(* keys and values and chains of any length.                               *)
(*                                                                         *)
(* The invariant says where the pairs are: a row of distinct nodes behind  *)
(* the sentinel, each linked to the next, with prevchain leading to the    *)
(* node before a key's and to nothing else.  On a sound chain the row ends *)
(* with nil and the tail is its last node; a dangling or looped chain is   *)
(* the same row with another end.                                          *)
(***************************************************************************)
EXTENDS MCCollections, FiniteSetTheorems, SequenceTheorems, WellFoundedInduction, TLAPS

-----------------------------------------------------------------------------
(* Induction, as a fact about a set of numbers.                            *)

\* A set of numbers that is not empty has a least one.
LEMMA LeastNumber ==
  ASSUME NEW T \in SUBSET Nat, T # {}
  PROVE  \E m \in T : \A n \in T : m <= n
  <1> DEFINE below(n) == 0 .. (n - 1)
             B == {below(n) : n \in T}
  <1>1. B \subseteq FiniteSubsetsOf(Nat) /\ B # {}
    <2>1. ASSUME NEW n \in T PROVE below(n) \in FiniteSubsetsOf(Nat)
      BY FS_Interval DEF FiniteSubsetsOf
    <2>2. QED BY <2>1
  <1>2. PICK b \in B : \A c \in B : <<c, b>> \notin StrictSubsetOrdering(Nat)
    BY <1>1, FS_StrictSubsetOrderingWellFounded, WFMin
  <1>3. PICK m \in T : b = below(m)
    BY <1>2
  <1>4. ASSUME NEW n \in T, ~(m <= n) PROVE FALSE
    <2>1. below(n) \subseteq below(m) /\ n \in below(m) /\ n \notin below(n) /\ below(n) \in B
      BY <1>4
    <2>2. <<below(n), b>> \in StrictSubsetOrdering(Nat)
      BY <1>3, <2>1 DEF StrictSubsetOrdering
    <2>3. QED BY <1>2, <2>1, <2>2
  <1>5. QED BY <1>4

\* A set of numbers with 0 and with each number's successor is all of them.
LEMMA Induction ==
  ASSUME NEW T \in SUBSET Nat, 0 \in T, \A n \in T : n + 1 \in T
  PROVE  \A n \in Nat : n \in T
  <1> DEFINE S == Nat \ T
  <1>1. CASE S = {}
    BY <1>1
  <1>2. ASSUME S # {} PROVE FALSE
    <2>1. PICK m \in S : \A n \in S : m <= n
      <3> HIDE DEF S
      <3>1. S \in SUBSET Nat
        BY DEF S
      <3>2. QED BY <1>2, <3>1, LeastNumber
    <2>2. m \in Nat /\ m # 0
      BY <2>1
    <2>3. m - 1 \in Nat /\ m - 1 \notin S
      BY <2>1, <2>2
    <2>4. m - 1 \in T /\ (m - 1) + 1 = m
      BY <2>2, <2>3
    <2>5. QED BY <2>1, <2>4
  <1>3. QED BY <1>1, <1>2

\* A function on the numbers from 1 is a sequence.
LEMMA LenIs ==
  ASSUME NEW n \in Nat, NEW S, NEW t \in [1 .. n -> S]
  PROVE  Len(t) = n /\ t \in Seq(S)
  OBVIOUS

-----------------------------------------------------------------------------
(* Places in ascending order.                                              *)

\* f counts the p members of a set from below.
Counts(f, p, places) ==
    /\ f \in [1 .. p -> places]
    /\ \A i, j \in 1 .. p : i < j => f[i] < f[j]
    /\ \A a \in places : \E i \in 1 .. p : f[i] = a

\* There is one way to count a set, InOrder.
LEMMA InOrderIs ==
  ASSUME NEW places \in SUBSET Nat, NEW p \in Nat, NEW f, Counts(f, p, places)
  PROVE  Cardinality(places) = p /\ Ordered!InOrder(places) = f
  <1>1. f \in [1 .. p -> places] /\ (\A i \in 1 .. p : f[i] \in Nat)
    <2>1. f \in [1 .. p -> places]
      BY DEF Counts
    <2>2. places \subseteq Nat
      OBVIOUS
    <2>3. QED BY <2>1, <2>2
  <1>2. \A i, j \in 1 .. p : f[i] = f[j] => i = j
    <2>1. \A i, j \in 1 .. p : i = j \/ i < j \/ j < i
      OBVIOUS
    <2>2. QED BY <1>1, <2>1 DEF Counts
  <1>3. Cardinality(places) = p
    <2>1. f \in Bijection(1 .. p, places)
      BY <1>1, <1>2 DEF Counts, Bijection, Injection, Surjection, IsInjective
    <2>2. IsFiniteSet(1 .. p) /\ Cardinality(1 .. p) = p
      BY FS_Interval
    <2>3. QED BY <2>1, <2>2, FS_Bijection DEF ExistsBijection
  <1>4. ASSUME NEW g, Counts(g, p, places) PROVE g = f
    <2>1. g \in [1 .. p -> places] /\ (\A i \in 1 .. p : g[i] \in Nat)
      <3>1. g \in [1 .. p -> places] /\ places \subseteq Nat
        BY <1>4 DEF Counts
      <3>2. QED BY <3>1
    <2> DEFINE T == {i \in 1 .. p : g[i] # f[i]}
    <2>2. ASSUME T # {} PROVE FALSE
      <3>1. PICK i \in T : \A j \in T : i <= j
        <4>1. T \in SUBSET Nat
          OBVIOUS
        <4> HIDE DEF T
        <4>2. QED BY <2>2, <4>1, LeastNumber
      <3>2. i \in 1 .. p /\ g[i] # f[i] /\ f[i] \in places /\ g[i] \in places /\ f[i] \in Nat /\ g[i] \in Nat
        BY <1>1, <2>1, <3>1
      <3>3. \A j \in 1 .. p : j < i => g[j] = f[j]
        BY <3>1, <3>2
      <3>4. \A j \in 1 .. p : j = i \/ j < i \/ i < j
        BY <3>2
      <3>5. CASE f[i] < g[i]
        <4>1. PICK j \in 1 .. p : g[j] = f[i]
          BY <1>4, <3>2 DEF Counts
        <4>2. j # i /\ ~ (j < i)
          BY <1>2, <3>2, <3>3, <3>5, <4>1
        <4>3. g[i] < g[j]
          BY <1>4, <3>2, <3>4, <4>1, <4>2 DEF Counts
        <4>4. QED BY <3>2, <3>5, <4>1, <4>3
      <3>6. CASE g[i] < f[i]
        <4>1. PICK j \in 1 .. p : f[j] = g[i]
          BY <3>2 DEF Counts
        <4>2. j # i /\ ~ (j < i)
          <5>1. j < i => g[j] = g[i]
            BY <3>3, <4>1
          <5>2. ~ (j < i)
            BY <1>4, <2>1, <3>2, <5>1 DEF Counts
          <5>3. QED BY <3>2, <4>1, <5>2
        <4>3. f[i] < f[j]
          BY <3>2, <3>4, <4>1, <4>2 DEF Counts
        <4>4. QED BY <3>2, <3>6, <4>1, <4>3
      <3>7. QED BY <3>2, <3>5, <3>6
    <2>3. \A i \in 1 .. p : g[i] = f[i]
      BY <2>2
    <2>4. QED BY <1>1, <2>1, <2>3
  <1>5. Counts(Ordered!InOrder(places), p, places)
    <2> DEFINE m == Ordered!Cardinality(places)
               Good(g) == /\ \A i, j \in 1 .. m : i < j => g[i] < g[j]
                          /\ \A a \in places : \E i \in 1 .. m : g[i] = a
    <2>1. Ordered!InOrder(places) = CHOOSE g \in [1 .. m -> places] : Good(g)
      BY Zenon DEF Ordered!InOrder
    <2>2. m = p
      <3>1. m = Cardinality(places)
        BY Zenon DEF Ordered!Cardinality, Cardinality
      <3>2. QED BY <1>3, <3>1
    <2> HIDE DEF m
    <2>3. f \in [1 .. m -> places] /\ Good(f)
      BY <2>2 DEF Counts
    <2> HIDE DEF Good
    <2>4. Ordered!InOrder(places) \in [1 .. m -> places] /\ Good(Ordered!InOrder(places))
      BY <2>1, <2>3
    <2>5. QED BY <2>2, <2>4 DEF Counts, Good
  <1>6. QED BY <1>3, <1>4, <1>5

\* What is left without the j-th.
Without(f, p, j) == [i \in 1 .. p - 1 |-> IF i < j THEN f[i] ELSE f[i + 1]]

LEMMA CountsWithout ==
  ASSUME NEW n \in Nat, NEW places \in SUBSET (1 .. n), NEW p \in Nat, NEW f, Counts(f, p, places), NEW j \in 1 .. p
  PROVE  Counts(Without(f, p, j), p - 1, places \ {f[j]})
  <1> DEFINE g == Without(f, p, j)
  <1>1. f \in [1 .. p -> places] /\ (\A i \in 1 .. p : f[i] \in Nat)
    <2>1. f \in [1 .. p -> places]
      BY DEF Counts
    <2>2. places \subseteq Nat
      OBVIOUS
    <2>3. QED BY <2>1, <2>2
  <1>2. \A i, k \in 1 .. p : f[i] = f[k] => i = k
    <2>1. \A i, k \in 1 .. p : i = k \/ i < k \/ k < i
      OBVIOUS
    <2>2. \A i, k \in 1 .. p : i < k => f[i] < f[k]
      BY DEF Counts
    <2>3. QED BY <1>1, <2>1, <2>2
  <1>3. \A i \in 1 .. p - 1 : /\ i \in 1 .. p /\ i + 1 \in 1 .. p
                              /\ i < j => g[i] = f[i]
                              /\ ~ (i < j) => g[i] = f[i + 1]
    BY DEF Without
  <1>4. g \in [1 .. p - 1 -> places \ {f[j]}]
    <2>1. \A i \in 1 .. p - 1 : g[i] \in places \ {f[j]}
      BY <1>1, <1>2, <1>3
    <2>2. QED BY <2>1 DEF Without
  <1>5. ASSUME NEW i \in 1 .. p - 1, NEW k \in 1 .. p - 1, i < k PROVE g[i] < g[k]
    <2>1. CASE k < j
      BY <1>3, <1>5, <2>1 DEF Counts
    <2>2. CASE ~ (i < j)
      <3>1. i + 1 < k + 1 /\ ~ (k < j)
        BY <1>5, <2>2
      <3>2. QED BY <1>3, <1>5, <2>2, <3>1 DEF Counts
    <2>3. CASE i < j /\ ~ (k < j)
      <3>1. i < k + 1
        BY <1>5
      <3>2. QED BY <1>3, <1>5, <2>3, <3>1 DEF Counts
    <2>4. QED BY <2>1, <2>2, <2>3
  <1>6. ASSUME NEW a \in places \ {f[j]} PROVE \E i \in 1 .. p - 1 : g[i] = a
    <2>1. PICK i \in 1 .. p : f[i] = a
      BY <1>6 DEF Counts
    <2>2. i # j
      BY <1>6, <2>1
    <2>3. CASE i < j
      <3>1. i \in 1 .. p - 1
        BY <2>3
      <3>2. QED BY <1>3, <2>1, <2>3, <3>1
    <2>4. CASE ~ (i < j)
      <3>1. i - 1 \in 1 .. p - 1 /\ ~ (i - 1 < j) /\ (i - 1) + 1 = i
        BY <2>2, <2>4
      <3>2. QED BY <1>3, <2>1, <3>1
    <2>5. QED BY <2>3, <2>4
  <1>7. QED BY <1>4, <1>5, <1>6 DEF Counts

LEMMA CountsAll ==
  ASSUME NEW n \in Nat
  PROVE  Counts([i \in 1 .. n |-> i], n, 1 .. n)
  BY DEF Counts

\* Every set of places can be counted.
LEMMA CountsExist ==
  ASSUME NEW n \in Nat, NEW places \in SUBSET (1 .. n)
  PROVE  \E p \in 0 .. n : \E f : Counts(f, p, places)
  <1> DEFINE T == {h \in Nat : \A s \in SUBSET (1 .. h) : \E p \in 0 .. h : \E f : Counts(f, p, s)}
  <1>1. 0 \in T
    <2>1. ASSUME NEW s \in SUBSET (1 .. 0) PROVE \E p \in 0 .. 0 : \E f : Counts(f, p, s)
      <3>1. s = {} /\ 0 \in 0 .. 0
        BY <2>1
      <3>2. Counts([i \in 1 .. 0 |-> i], 0, {})
        BY DEF Counts
      <3>3. QED BY <3>1, <3>2
    <2>2. QED BY <2>1
  <1>2. ASSUME NEW h \in T PROVE h + 1 \in T
    <2>1. h \in Nat /\ h + 1 \in Nat
      OBVIOUS
    <2>2. ASSUME NEW s \in SUBSET (1 .. h + 1) PROVE \E p \in 0 .. h + 1 : \E f : Counts(f, p, s)
      <3> DEFINE r == s \ {h + 1}
      <3>1. r \in SUBSET (1 .. h)
        BY <2>1, <2>2
      <3>2. PICK p \in 0 .. h : \E f : Counts(f, p, r)
        BY <3>1
      <3>3. PICK f : Counts(f, p, r)
        BY <3>2
      <3>4. CASE h + 1 \notin s
        <4>1. r = s /\ p \in 0 .. h + 1
          BY <2>1, <3>4
        <4>2. QED BY <3>3, <4>1
      <3>5. CASE h + 1 \in s
        <4> DEFINE g == [i \in 1 .. p + 1 |-> IF i <= p THEN f[i] ELSE h + 1]
        <4>1. p + 1 \in 0 .. h + 1 /\ p + 1 \in 1 .. p + 1
          BY <2>1
        <4>2. \A i \in 1 .. p + 1 : (i \in 1 .. p /\ g[i] = f[i] /\ f[i] \in r) \/ (i = p + 1 /\ g[i] = h + 1)
          BY <3>3 DEF Counts
        <4>3. g \in [1 .. p + 1 -> s]
          <5>1. \A i \in 1 .. p + 1 : g[i] \in s
            BY <3>5, <4>2
          <5>2. QED BY <5>1
        <4>4. ASSUME NEW i \in 1 .. p + 1, NEW j \in 1 .. p + 1, i < j PROVE g[i] < g[j]
          <5>1. i \in 1 .. p /\ g[i] = f[i] /\ f[i] \in 1 .. h
            <6>1. i # p + 1
              BY <4>4
            <6>2. i \in 1 .. p /\ g[i] = f[i] /\ f[i] \in r
              <7> HIDE DEF g, r
              <7>1. QED BY <4>2, <6>1
            <6>3. QED BY <3>1, <6>2
          <5>2. CASE j \in 1 .. p /\ g[j] = f[j]
            BY <3>3, <4>4, <5>1, <5>2 DEF Counts
          <5>3. CASE g[j] = h + 1
            BY <2>1, <5>1, <5>3
          <5>4. QED BY <4>2, <5>2, <5>3
        <4>5. ASSUME NEW a \in s PROVE \E i \in 1 .. p + 1 : g[i] = a
          <5>1. CASE a = h + 1
            BY <4>1, <5>1
          <5>2. CASE a # h + 1
            <6>1. PICK i \in 1 .. p : f[i] = a
              BY <3>3, <4>5, <5>2 DEF Counts
            <6>2. i \in 1 .. p + 1 /\ g[i] = f[i]
              OBVIOUS
            <6>3. QED BY <6>1, <6>2
          <5>3. QED BY <5>1, <5>2
        <4> HIDE DEF g
        <4>6. Counts(g, p + 1, s)
          BY <4>3, <4>4, <4>5 DEF Counts
        <4>7. QED BY <4>1, <4>6
      <3>6. QED BY <3>4, <3>5
    <2>3. QED BY <2>1, <2>2
  <1> HIDE DEF T
  <1>3. T \in SUBSET Nat
    BY DEF T
  <1>4. \A h \in Nat : h \in T
    BY <1>1, <1>2, <1>3, Induction
  <1>5. QED BY <1>4 DEF T

\* What is selected at places that are counted.
Taken(s, f, p) == [i \in 1 .. p |-> s[f[i]]]

LEMMA SelectedIs ==
  ASSUME NEW places \in SUBSET Nat, NEW p \in Nat, NEW f, Counts(f, p, places), NEW s
  PROVE  Ordered!Selected(s, places) = Taken(s, f, p)
  <1>1. Cardinality(places) = p /\ Ordered!InOrder(places) = f
    BY InOrderIs
  <1>2. Ordered!Cardinality(places) = Cardinality(places)
    BY Zenon DEF Ordered!Cardinality, Cardinality
  <1>3. QED BY <1>1, <1>2, Zenon DEF Ordered!Selected, Taken

-----------------------------------------------------------------------------
(* Where the pairs are.                                                    *)

\* A dictionary with N nodes.
Dicts(N) ==
    [key : [1 .. N -> Keys \cup {None}], value : [1 .. N -> Numbers \cup {None}],
     next : [1 .. N -> 0 .. N], prevchain : [Keys -> 0 .. N], headchain : {1}, tailchain : 0 .. N]

\* n pairs with distinct keys.
PairRow(ps, n) ==
    /\ ps \in [1 .. n -> Keys \X Numbers]
    /\ \A i, j \in 1 .. n : ps[i][1] = ps[j][1] => i = j

\* The nodes of n pairs: distinct ones, of which c[0] is the sentinel.
Places(c, N, n) ==
    /\ c \in [0 .. n -> 1 .. N]
    /\ c[0] = 1
    /\ \A i, j \in 0 .. n : c[i] = c[j] => i = j

\* The i-th node has the i-th pair, the node before it leads to it, and so does
\* prevchain; no other key is in prevchain.
Linked(d, ps, n, c) ==
    /\ \A i \in 1 .. n : /\ d.next[c[i - 1]] = c[i]
                         /\ d.key[c[i]] = ps[i][1]
                         /\ d.value[c[i]] = ps[i][2]
                         /\ d.prevchain[ps[i][1]] = c[i - 1]
    /\ \A k \in Keys : d.prevchain[k] # 0 => \E i \in 1 .. n : ps[i][1] = k

Row(d, N, ps, n, c) ==
    /\ N \in Nat /\ n \in Nat /\ n < N
    /\ d \in Dicts(N)
    /\ PairRow(ps, n)
    /\ Places(c, N, n)
    /\ Linked(d, ps, n, c)

\* A sound chain ends behind the last node, which is the tail.
Ends(d, n, c) ==
    /\ d.next[c[n]] = 0
    /\ n # 0 => d.tailchain = c[n]
    /\ n = 0 => d.tailchain \in {0, 1}

Sound(d, ps) == \E N, n, c : Row(d, N, ps, n, c) /\ Ends(d, n, c)

\* A chain that readers by count read well; an empty one has no tail.
Held(d, ps) == \E N, n, c : Row(d, N, ps, n, c) /\ (n = 0 => d.tailchain = 0)

LEMMA RowFacts ==
  ASSUME NEW d, NEW N, NEW ps, NEW n, NEW c, Row(d, N, ps, n, c)
  PROVE  /\ N \in Nat /\ n \in Nat /\ n < N /\ n + 1 \in 1 .. N
         /\ d.key \in [1 .. N -> Keys \cup {None}] /\ d.value \in [1 .. N -> Numbers \cup {None}]
         /\ d.next \in [1 .. N -> 0 .. N] /\ d.prevchain \in [Keys -> 0 .. N]
         /\ d.headchain = 1 /\ d.tailchain \in 0 .. N
         /\ Len(d.key) = N /\ Len(d.value) = N /\ Len(d.next) = N
         /\ ps \in [1 .. n -> Keys \X Numbers] /\ Len(ps) = n /\ DOMAIN ps = 1 .. n
         /\ c \in [0 .. n -> 1 .. N] /\ c[0] = 1 /\ c[n] \in 1 .. N
  <1>1. N \in Nat /\ n \in Nat /\ n < N /\ d \in Dicts(N) /\ PairRow(ps, n) /\ Places(c, N, n)
    BY DEF Row
  <1>2. /\ d.key \in [1 .. N -> Keys \cup {None}] /\ d.value \in [1 .. N -> Numbers \cup {None}]
        /\ d.next \in [1 .. N -> 0 .. N] /\ d.prevchain \in [Keys -> 0 .. N]
        /\ d.headchain = 1 /\ d.tailchain \in 0 .. N
    BY <1>1 DEF Dicts
  <1>3. Len(d.key) = N /\ Len(d.value) = N /\ Len(d.next) = N
    BY <1>1, <1>2, LenIs
  <1>4. ps \in [1 .. n -> Keys \X Numbers] /\ c \in [0 .. n -> 1 .. N] /\ c[0] = 1
    BY <1>1 DEF PairRow, Places
  <1>5. Len(ps) = n /\ DOMAIN ps = 1 .. n /\ c[n] \in 1 .. N /\ n + 1 \in 1 .. N
    BY <1>1, <1>4, LenIs
  <1>6. QED BY <1>1, <1>2, <1>3, <1>4, <1>5

\* What a pair consists of.
LEMMA PairParts ==
  ASSUME NEW d, NEW N, NEW ps, NEW n, NEW c, Row(d, N, ps, n, c), NEW i \in 1 .. n
  PROVE  /\ ps[i] = <<ps[i][1], ps[i][2]>> /\ ps[i][1] \in Keys /\ ps[i][2] \in Numbers
         /\ i - 1 \in 0 .. n /\ i \in 0 .. n /\ c[i - 1] \in 1 .. N /\ c[i] \in 1 .. N /\ c[i] # 1
         /\ d.next[c[i - 1]] = c[i] /\ d.key[c[i]] = ps[i][1] /\ d.value[c[i]] = ps[i][2]
         /\ d.prevchain[ps[i][1]] = c[i - 1] /\ d.prevchain[ps[i][1]] # 0
  <1>1. n \in Nat /\ N \in Nat /\ ps \in [1 .. n -> Keys \X Numbers] /\ c \in [0 .. n -> 1 .. N] /\ c[0] = 1
    BY RowFacts
  <1>2. ps[i] = <<ps[i][1], ps[i][2]>> /\ ps[i][1] \in Keys /\ ps[i][2] \in Numbers
    <2>1. ps[i] \in Keys \X Numbers
      BY <1>1
    <2>2. QED BY <2>1
  <1>3. i - 1 \in 0 .. n /\ i \in 0 .. n /\ 0 \in 0 .. n /\ i # 0
    BY <1>1
  <1>4. c[i - 1] \in 1 .. N /\ c[i] \in 1 .. N
    BY <1>1, <1>3
  <1>5. c[i] # 1
    BY <1>1, <1>3 DEF Row, Places
  <1>6. d.next[c[i - 1]] = c[i] /\ d.key[c[i]] = ps[i][1] /\ d.value[c[i]] = ps[i][2]
        /\ d.prevchain[ps[i][1]] = c[i - 1]
    BY DEF Row, Linked
  <1>7. c[i - 1] # 0
    BY <1>4, <1>1
  <1>8. QED BY <1>2, <1>3, <1>4, <1>5, <1>6, <1>7

-----------------------------------------------------------------------------
(* Set.                                                                    *)

\* The fields behind an append, to the node p.
IsAppended(e, d, N, k, v, p) ==
    /\ e \in Dicts(N + 1)
    /\ e.key = [i \in 1 .. N + 1 |-> IF i <= N THEN d.key[i] ELSE k]
    /\ e.value = [i \in 1 .. N + 1 |-> IF i <= N THEN d.value[i] ELSE v]
    /\ e.next = [i \in 1 .. N + 1 |-> IF i = p THEN N + 1 ELSE IF i <= N THEN d.next[i] ELSE 0]
    /\ e.prevchain = [d.prevchain EXCEPT ![k] = p]
    /\ e.tailchain = N + 1

LEMMA Appended ==
  ASSUME NEW N \in Nat, 1 <= N, NEW d \in Dicts(N), NEW k \in Keys, NEW v \in Numbers,
         NEW p \in 1 .. N, p = (IF d.tailchain = 0 THEN 1 ELSE d.tailchain)
  PROVE  IsAppended(Ordered!AppendItem(d, k, v), d, N, k, v, p)
  <1>1. /\ d.key \in [1 .. N -> Keys \cup {None}] /\ d.value \in [1 .. N -> Numbers \cup {None}]
        /\ d.next \in [1 .. N -> 0 .. N] /\ d.prevchain \in [Keys -> 0 .. N]
        /\ d.headchain = 1 /\ d.tailchain \in 0 .. N
    BY DEF Dicts
  <1>2. Len(d.key) = N /\ Len(d.value) = N /\ Len(d.next) = N
    BY <1>1, LenIs
  <1> DEFINE e == Ordered!AppendItem(d, k, v)
             key == [i \in 1 .. N + 1 |-> IF i <= N THEN d.key[i] ELSE k]
             value == [i \in 1 .. N + 1 |-> IF i <= N THEN d.value[i] ELSE v]
             longer == [i \in 1 .. N + 1 |-> IF i <= N THEN d.next[i] ELSE 0]
             next == [i \in 1 .. N + 1 |-> IF i = p THEN N + 1 ELSE IF i <= N THEN d.next[i] ELSE 0]
             back == [d.prevchain EXCEPT ![k] = p]
  <1>3. Ordered!Longer(d.key, k) = key /\ Ordered!Longer(d.value, v) = value /\ Ordered!Longer(d.next, 0) = longer
    BY <1>2 DEF Ordered!Longer
  <1>4. [longer EXCEPT ![p] = N + 1] = next
    OBVIOUS
  <1>5. e = [d EXCEPT !.key = key, !.value = value, !.next = next, !.prevchain = back, !.tailchain = N + 1]
    <2> HIDE DEF key, value, longer, next
    <2>1. e = [d EXCEPT !.key = Ordered!Longer(d.key, k), !.value = Ordered!Longer(d.value, v),
                        !.next = [Ordered!Longer(d.next, 0) EXCEPT ![p] = N + 1],
                        !.prevchain = back, !.tailchain = N + 1]
      BY <1>1, <1>2 DEF Ordered!AppendItem
    <2>2. QED BY <1>3, <1>4, <2>1
  <1>6. key \in [1 .. N + 1 -> Keys \cup {None}] /\ value \in [1 .. N + 1 -> Numbers \cup {None}]
    <2>1. \A i \in 1 .. N + 1 : i <= N => i \in 1 .. N
      OBVIOUS
    <2>2. QED BY <1>1, <2>1
  <1>7. next \in [1 .. N + 1 -> 0 .. N + 1]
    <2>1. \A i \in 1 .. N + 1 : i <= N => d.next[i] \in 0 .. N + 1
      BY <1>1
    <2>2. \A i \in 1 .. N + 1 : next[i] \in 0 .. N + 1
      BY <2>1
    <2>3. QED BY <2>2
  <1>8. back \in [Keys -> 0 .. N + 1]
    <2>1. \A l \in Keys : d.prevchain[l] \in 0 .. N + 1
      BY <1>1
    <2>2. QED BY <1>1, <2>1
  <1> HIDE DEF e, key, value, longer, next, back
  <1>9. e.key = key /\ e.value = value /\ e.next = next /\ e.prevchain = back /\ e.tailchain = N + 1
    BY <1>5 DEF Dicts
  <1>10. e \in Dicts(N + 1)
    <2>1. N + 1 \in 0 .. N + 1
      OBVIOUS
    <2>2. QED BY <1>5, <1>6, <1>7, <1>8, <2>1 DEF Dicts
  <1>11. QED BY <1>9, <1>10 DEF IsAppended, e, key, value, next, back

\* The p an append links to is the last node when the tail is.
LEMMA AppendKeepsRow ==
  ASSUME NEW d, NEW N, NEW ps, NEW n, NEW c, Row(d, N, ps, n, c),
         c[n] = (IF d.tailchain = 0 THEN 1 ELSE d.tailchain),
         NEW k \in Keys, NEW v \in Numbers, \A i \in 1 .. n : ps[i][1] # k
  PROVE  Sound(Ordered!AppendItem(d, k, v), Ordered!Longer(ps, <<k, v>>))
  <1> DEFINE e == Ordered!AppendItem(d, k, v)
             qs == Ordered!Longer(ps, <<k, v>>)
             b == [i \in 0 .. n + 1 |-> IF i <= n THEN c[i] ELSE N + 1]
  <1>1. /\ N \in Nat /\ n \in Nat /\ n < N /\ 1 <= N
        /\ ps \in [1 .. n -> Keys \X Numbers] /\ Len(ps) = n
        /\ c \in [0 .. n -> 1 .. N] /\ c[0] = 1 /\ c[n] \in 1 .. N
        /\ d.next \in [1 .. N -> 0 .. N] /\ d.prevchain \in [Keys -> 0 .. N]
    BY RowFacts
  <1>2. d \in Dicts(N)
    BY DEF Row
  <1>3. /\ e \in Dicts(N + 1)
        /\ e.key = [i \in 1 .. N + 1 |-> IF i <= N THEN d.key[i] ELSE k]
        /\ e.value = [i \in 1 .. N + 1 |-> IF i <= N THEN d.value[i] ELSE v]
        /\ e.next = [i \in 1 .. N + 1 |-> IF i = c[n] THEN N + 1 ELSE IF i <= N THEN d.next[i] ELSE 0]
        /\ e.prevchain = [d.prevchain EXCEPT ![k] = c[n]]
        /\ e.tailchain = N + 1
    <2>1. IsAppended(e, d, N, k, v, c[n])
      BY <1>1, <1>2, Appended
    <2> HIDE DEF e
    <2>2. QED BY <2>1 DEF IsAppended
  <1>4. qs = [i \in 1 .. n + 1 |-> IF i <= n THEN ps[i] ELSE <<k, v>>]
    BY <1>1 DEF Ordered!Longer
  <1> HIDE DEF e, qs
  <1>5. \A i \in 1 .. n + 1 : (i \in 1 .. n /\ qs[i] = ps[i]) \/ (i = n + 1 /\ qs[i] = <<k, v>>)
    BY <1>1, <1>4
  <1>6. PairRow(qs, n + 1)
    <2>1. qs \in [1 .. n + 1 -> Keys \X Numbers]
      <3>1. <<k, v>> \in Keys \X Numbers
        OBVIOUS
      <3>3. \A i \in 1 .. n : ps[i] \in Keys \X Numbers
        BY <1>1
      <3>4. \A i \in 1 .. n + 1 : qs[i] \in Keys \X Numbers
        BY <1>5, <3>1, <3>3
      <3>2. QED BY <1>4, <3>4
    <2>2. ASSUME NEW i \in 1 .. n + 1, NEW j \in 1 .. n + 1, qs[i][1] = qs[j][1] PROVE i = j
      <3>1. CASE i \in 1 .. n /\ qs[i] = ps[i] /\ j \in 1 .. n /\ qs[j] = ps[j]
        BY <2>2, <3>1 DEF Row, PairRow
      <3>2. CASE i = n + 1 /\ qs[i] = <<k, v>> /\ j = n + 1
        BY <3>2
      <3>3. CASE i = n + 1 /\ qs[i] = <<k, v>> /\ j \in 1 .. n /\ qs[j] = ps[j]
        BY <2>2, <3>3
      <3>4. CASE j = n + 1 /\ qs[j] = <<k, v>> /\ i \in 1 .. n /\ qs[i] = ps[i]
        BY <2>2, <3>4
      <3>5. QED BY <1>5, <3>1, <3>2, <3>3, <3>4
    <2>3. QED BY <2>1, <2>2 DEF PairRow
  <1>7. \A i \in 0 .. n + 1 : (i \in 0 .. n /\ b[i] = c[i] /\ b[i] \in 1 .. N) \/ (i = n + 1 /\ b[i] = N + 1)
    BY <1>1
  <1>8. Places(b, N + 1, n + 1)
    <2>1. b \in [0 .. n + 1 -> 1 .. N + 1]
      <3>1. \A i \in 0 .. n + 1 : b[i] \in 1 .. N + 1
        BY <1>1, <1>7
      <3>2. QED BY <3>1
    <2>2. b[0] = 1
      BY <1>1
    <2> HIDE DEF b
    <2>3. ASSUME NEW i \in 0 .. n + 1, NEW j \in 0 .. n + 1, b[i] = b[j] PROVE i = j
      <3>1. \A h \in 1 .. N : h # N + 1
        BY <1>1
      <3>2. QED BY <1>7, <2>3, <3>1 DEF Row, Places
    <2>4. QED BY <2>1, <2>2, <2>3 DEF Places
  <1>9. Linked(e, qs, n + 1, b)
    <2>1. ASSUME NEW i \in 1 .. n
          PROVE  /\ e.next[b[i - 1]] = b[i] /\ e.key[b[i]] = qs[i][1] /\ e.value[b[i]] = qs[i][2]
                 /\ e.prevchain[qs[i][1]] = b[i - 1]
      <3>1. /\ i - 1 \in 0 .. n /\ i \in 0 .. n /\ c[i - 1] \in 1 .. N /\ c[i] \in 1 .. N
            /\ d.next[c[i - 1]] = c[i] /\ d.key[c[i]] = ps[i][1] /\ d.value[c[i]] = ps[i][2]
            /\ d.prevchain[ps[i][1]] = c[i - 1] /\ ps[i][1] \in Keys
        BY PairParts
      <3>2. b[i] = c[i] /\ b[i - 1] = c[i - 1] /\ qs[i] = ps[i]
        BY <1>1, <1>4
      <3>3. c[i - 1] # c[n]
        <4>1. i - 1 # n /\ n \in 0 .. n
          BY <1>1
        <4>2. QED BY <3>1, <4>1 DEF Row, Places
      <3> HIDE DEF b
      <3>4. e.next[c[i - 1]] = c[i] /\ e.key[c[i]] = ps[i][1] /\ e.value[c[i]] = ps[i][2]
        <4>1. \A h \in 1 .. N : h \in 1 .. N + 1 /\ h <= N
          BY <1>1
        <4>2. e.key[c[i]] = d.key[c[i]] /\ e.value[c[i]] = d.value[c[i]]
          BY <1>3, <3>1, <4>1
        <4>3. e.next[c[i - 1]] = d.next[c[i - 1]]
          BY <1>3, <3>1, <3>3, <4>1
        <4>4. QED BY <3>1, <4>2, <4>3
      <3>5. e.prevchain[ps[i][1]] = c[i - 1]
        BY <1>1, <1>3, <3>1
      <3>6. QED BY <3>2, <3>4, <3>5
    <2>2. /\ e.next[b[n]] = b[n + 1] /\ e.key[b[n + 1]] = qs[n + 1][1] /\ e.value[b[n + 1]] = qs[n + 1][2]
          /\ e.prevchain[qs[n + 1][1]] = b[n]
      <3>1. b[n] = c[n] /\ b[n + 1] = N + 1 /\ qs[n + 1] = <<k, v>>
        BY <1>1, <1>4
      <3> HIDE DEF b
      <3>2. QED BY <1>1, <1>3, <3>1
    <2>3. ASSUME NEW l \in Keys, e.prevchain[l] # 0 PROVE \E i \in 1 .. n + 1 : qs[i][1] = l
      <3>1. CASE l = k
        <4>1. n + 1 \in 1 .. n + 1 /\ qs[n + 1] = <<k, v>>
          BY <1>1, <1>4
        <4>2. QED BY <3>1, <4>1
      <3>2. CASE l # k
        <4>1. d.prevchain[l] # 0
          BY <1>1, <1>3, <2>3, <3>2
        <4>2. PICK i \in 1 .. n : ps[i][1] = l
          BY <4>1 DEF Row, Linked
        <4>3. i \in 1 .. n + 1 /\ qs[i] = ps[i]
          BY <1>1, <1>4
        <4>4. QED BY <4>2, <4>3
      <3>3. QED BY <3>1, <3>2
    <2>4. \A i \in 1 .. n + 1 : i \in 1 .. n \/ (i = n + 1 /\ i - 1 = n)
      BY <1>1
    <2> HIDE DEF b
    <2>5. QED BY <2>1, <2>2, <2>3, <2>4 DEF Linked
  <1>10. Row(e, N + 1, qs, n + 1, b)
    <2> HIDE DEF b
    <2>1. N + 1 \in Nat /\ n + 1 \in Nat /\ n + 1 < N + 1
      BY <1>1
    <2>2. QED BY <1>3, <1>6, <1>8, <1>9, <2>1 DEF Row
  <1>11. Ends(e, n + 1, b)
    <2>1. b[n + 1] = N + 1 /\ n + 1 # 0
      BY <1>1
    <2>2. e.next[N + 1] = 0 /\ e.tailchain = N + 1
      <3>1. N + 1 # c[n] /\ N + 1 \in 1 .. N + 1 /\ ~ (N + 1 <= N)
        BY <1>1
      <3>2. QED BY <1>3, <3>1
    <2> HIDE DEF b
    <2>3. QED BY <2>1, <2>2 DEF Ends
  <1> HIDE DEF b
  <1>12. QED BY <1>10, <1>11 DEF Sound, e, qs
\* The keys a dictionary has are those of its pairs.
LEMMA KeysAreThose ==
  ASSUME NEW d, NEW N, NEW ps, NEW n, NEW c, Row(d, N, ps, n, c), NEW k \in Keys
  PROVE  /\ Ordered!HasKey(d, k) <=> \E i \in 1 .. n : ps[i][1] = k
         /\ Ordered!PlaceOf(ps, k) = {i \in 1 .. n : ps[i][1] = k}
         /\ Ordered!PlaceOf(ps, k) = {} <=> ~ Ordered!HasKey(d, k)
  <1>1. n \in Nat /\ DOMAIN ps = 1 .. n
    BY RowFacts
  <1>2. Ordered!PlaceOf(ps, k) = {i \in 1 .. n : ps[i][1] = k}
    BY <1>1 DEF Ordered!PlaceOf
  <1>3. ASSUME NEW i \in 1 .. n, ps[i][1] = k PROVE d.prevchain[k] # 0
    BY <1>3, PairParts
  <1>4. d.prevchain[k] # 0 => \E i \in 1 .. n : ps[i][1] = k
    BY DEF Row, Linked
  <1>5. Ordered!HasKey(d, k) <=> \E i \in 1 .. n : ps[i][1] = k
    BY <1>3, <1>4 DEF Ordered!HasKey
  <1>6. QED BY <1>2, <1>5

LEMMA SetExisting ==
  ASSUME NEW d, NEW N, NEW ps, NEW n, NEW c, Row(d, N, ps, n, c),
         NEW k \in Keys, NEW v \in Numbers, Ordered!HasKey(d, k)
  PROVE  /\ Row(Ordered!SetKey(d, k, v), N, Ordered!RefSet(ps, k, v), n, c)
         /\ Ordered!SetKey(d, k, v).next = d.next
         /\ Ordered!SetKey(d, k, v).tailchain = d.tailchain
  <1> DEFINE e == Ordered!SetKey(d, k, v)
             qs == Ordered!RefSet(ps, k, v)
  <1>1. /\ N \in Nat /\ n \in Nat /\ n < N
        /\ d.key \in [1 .. N -> Keys \cup {None}] /\ d.value \in [1 .. N -> Numbers \cup {None}]
        /\ d.next \in [1 .. N -> 0 .. N] /\ d.prevchain \in [Keys -> 0 .. N]
        /\ ps \in [1 .. n -> Keys \X Numbers] /\ DOMAIN ps = 1 .. n
        /\ c \in [0 .. n -> 1 .. N]
    BY RowFacts
  <1>2. d \in Dicts(N)
    BY DEF Row
  <1>3. PICK j \in 1 .. n : ps[j][1] = k
    BY KeysAreThose
  <1>4. d.next[d.prevchain[k]] = c[j] /\ c[j] \in 1 .. N
    BY <1>3, PairParts
  <1> DEFINE value == [d.value EXCEPT ![c[j]] = v]
  <1>5. e = [d EXCEPT !.value = value]
    BY <1>4 DEF Ordered!SetKey
  <1>6. value \in [1 .. N -> Numbers \cup {None}] /\ value[c[j]] = v
        /\ (\A h \in 1 .. N : h # c[j] => value[h] = d.value[h])
    BY <1>1, <1>4
  <1> HIDE DEF value
  <1>7. /\ e \in Dicts(N) /\ e.value = value /\ e.key = d.key /\ e.next = d.next
        /\ e.prevchain = d.prevchain /\ e.tailchain = d.tailchain
    BY <1>2, <1>5, <1>6 DEF Dicts
  <1>8. qs = [i \in 1 .. n |-> IF ps[i][1] = k THEN <<k, v>> ELSE ps[i]]
    <2>1. Ordered!PlaceOf(ps, k) # {}
      BY KeysAreThose
    <2>2. QED BY <1>1, <2>1 DEF Ordered!RefSet
  <1>9. \A i \in 1 .. n : i = j <=> ps[i][1] = k
    BY <1>3 DEF Row, PairRow
  <1> HIDE DEF e, qs
  <1>10. qs[j] = <<k, v>> /\ \A i \in 1 .. n : i # j => qs[i] = ps[i]
    BY <1>3, <1>8, <1>9
  <1>11. \A i \in 1 .. n : qs[i][1] = ps[i][1]
    BY <1>3, <1>10
  <1>12. PairRow(qs, n)
    <2>1. qs \in [1 .. n -> Keys \X Numbers]
      <3>1. <<k, v>> \in Keys \X Numbers
        OBVIOUS
      <3>2. \A i \in 1 .. n : qs[i] \in Keys \X Numbers
        BY <1>1, <1>10, <3>1
      <3>3. QED BY <1>8, <3>2
    <2>2. QED BY <1>11, <2>1 DEF Row, PairRow
  <1>13. Linked(e, qs, n, c)
    <2>1. ASSUME NEW i \in 1 .. n
          PROVE  /\ e.next[c[i - 1]] = c[i] /\ e.key[c[i]] = qs[i][1] /\ e.value[c[i]] = qs[i][2]
                 /\ e.prevchain[qs[i][1]] = c[i - 1]
      <3>1. /\ i \in 0 .. n /\ c[i] \in 1 .. N
            /\ d.next[c[i - 1]] = c[i] /\ d.key[c[i]] = ps[i][1] /\ d.value[c[i]] = ps[i][2]
            /\ d.prevchain[ps[i][1]] = c[i - 1]
        BY PairParts
      <3>2. e.value[c[i]] = qs[i][2]
        <4>1. CASE i = j
          BY <1>6, <1>7, <1>10, <4>1
        <4>2. CASE i # j
          <5>1. c[i] # c[j]
            <6>1. j \in 0 .. n
              BY <1>1
            <6>2. QED BY <3>1, <4>2, <6>1 DEF Row, Places
          <5>2. QED BY <1>6, <1>7, <1>10, <3>1, <4>2, <5>1
        <4>3. QED BY <4>1, <4>2
      <3>3. QED BY <1>7, <1>11, <3>1, <3>2
    <2>2. ASSUME NEW l \in Keys, e.prevchain[l] # 0 PROVE \E i \in 1 .. n : qs[i][1] = l
      <3>1. PICK i \in 1 .. n : ps[i][1] = l
        BY <1>7, <2>2 DEF Row, Linked
      <3>2. QED BY <1>11, <3>1
    <2>3. QED BY <2>1, <2>2 DEF Linked
  <1>14. Row(e, N, qs, n, c)
    BY <1>7, <1>12, <1>13 DEF Row
  <1>15. QED BY <1>7, <1>14 DEF e, qs

LEMMA SetKeepsSound ==
  ASSUME NEW d, NEW ps, Sound(d, ps), NEW k \in Keys, NEW v \in Numbers
  PROVE  Sound(Ordered!SetKey(d, k, v), Ordered!RefSet(ps, k, v))
  <1>1. PICK N, n, c : Row(d, N, ps, n, c) /\ Ends(d, n, c)
    BY DEF Sound
  <1>2. CASE Ordered!HasKey(d, k)
    <2>1. Row(Ordered!SetKey(d, k, v), N, Ordered!RefSet(ps, k, v), n, c) /\ Ends(Ordered!SetKey(d, k, v), n, c)
      BY <1>1, <1>2, SetExisting DEF Ends
    <2>2. QED BY <2>1 DEF Sound
  <1>3. CASE ~ Ordered!HasKey(d, k)
    <2>1. \A i \in 1 .. n : ps[i][1] # k
      BY <1>1, <1>3, KeysAreThose
    <2>2. c[n] = (IF d.tailchain = 0 THEN 1 ELSE d.tailchain)
      <3>1. n \in Nat /\ c[0] = 1 /\ c[n] \in 1 .. N /\ N \in Nat
        BY <1>1, RowFacts
      <3>2. QED BY <1>1, <3>1 DEF Ends
    <2>3. Sound(Ordered!AppendItem(d, k, v), Ordered!Longer(ps, <<k, v>>))
      BY <1>1, <2>1, <2>2, AppendKeepsRow
    <2>4. Ordered!PlaceOf(ps, k) = {}
      BY <1>1, <1>3, KeysAreThose
    <2>5. QED BY <1>3, <2>3, <2>4 DEF Ordered!SetKey, Ordered!RefSet
  <1>4. QED BY <1>2, <1>3

\* A value that is replaced leaves a chain as it was.
LEMMA SetKeepsHeld ==
  ASSUME NEW d, NEW ps, Held(d, ps), NEW k \in Keys, NEW v \in Numbers, Ordered!HasKey(d, k)
  PROVE  Held(Ordered!SetKey(d, k, v), Ordered!RefSet(ps, k, v))
  <1>1. PICK N, n, c : Row(d, N, ps, n, c) /\ (n = 0 => d.tailchain = 0)
    BY DEF Held
  <1>2. /\ Row(Ordered!SetKey(d, k, v), N, Ordered!RefSet(ps, k, v), n, c)
        /\ n = 0 => Ordered!SetKey(d, k, v).tailchain = 0
    BY <1>1, SetExisting
  <1>3. QED BY <1>2 DEF Held

\* What is appended to a chain that had lost its last pair starts it anew.
LEMMA SetMends ==
  ASSUME NEW d, NEW ps, Held(d, ps), ps = <<>>, NEW k \in Keys, NEW v \in Numbers
  PROVE  Sound(Ordered!SetKey(d, k, v), Ordered!RefSet(ps, k, v)) /\ ~ Ordered!HasKey(d, k)
  <1>1. PICK N, n, c : Row(d, N, ps, n, c) /\ (n = 0 => d.tailchain = 0)
    BY DEF Held
  <1>2. n = 0 /\ c[0] = 1
    BY <1>1, RowFacts
  <1>3. \A i \in 1 .. n : ps[i][1] # k
    BY <1>2
  <1>4. ~ Ordered!HasKey(d, k) /\ Ordered!PlaceOf(ps, k) = {}
    BY <1>1, <1>3, KeysAreThose
  <1>5. c[n] = (IF d.tailchain = 0 THEN 1 ELSE d.tailchain)
    BY <1>1, <1>2
  <1>6. Sound(Ordered!AppendItem(d, k, v), Ordered!Longer(ps, <<k, v>>))
    BY <1>1, <1>3, <1>5, AppendKeepsRow
  <1>7. QED BY <1>4, <1>6 DEF Ordered!SetKey, Ordered!RefSet

-----------------------------------------------------------------------------
(* Remove.                                                                 *)

\* What RemoveKey(k) changes, where k is the key of the j-th of n pairs; of the
\* last one it also clears the tail.
IsCutOut(e, d, N, ps, n, c, j) ==
    /\ e \in Dicts(N) /\ e.key = d.key /\ e.value = d.value
    /\ \A x \in 1 .. N : x # c[j - 1] => e.next[x] = d.next[x]
    /\ e.prevchain[ps[j][1]] = 0
    /\ \A l \in Keys : l # ps[j][1] /\ (j < n => l # ps[j + 1][1]) => e.prevchain[l] = d.prevchain[l]
    /\ j < n => /\ e.next[c[j - 1]] = c[j + 1]
                /\ e.prevchain[ps[j + 1][1]] = c[j - 1]
                /\ e.tailchain = d.tailchain

LEMMA CutsOut ==
  ASSUME NEW d, NEW N, NEW ps, NEW n, NEW c, Row(d, N, ps, n, c), d.next[c[n]] = 0, NEW j \in 1 .. n
  PROVE  /\ IsCutOut(Ordered!RemoveKey(d, ps[j][1]), d, N, ps, n, c, j)
         /\ j = n => Ordered!RemoveKey(d, ps[j][1]).tailchain = 0
  <1> DEFINE k == ps[j][1]
             e == Ordered!RemoveKey(d, k)
             p == c[j - 1]
  <1>1. /\ N \in Nat /\ n \in Nat /\ n < N /\ d.next \in [1 .. N -> 0 .. N] /\ d.prevchain \in [Keys -> 0 .. N]
    BY RowFacts
  <1>2. d \in Dicts(N)
    BY DEF Row
  <1>3. k \in Keys /\ d.prevchain[k] = p /\ p # 0 /\ p \in 1 .. N /\ d.next[p] = c[j] /\ c[j] \in 1 .. N
    BY PairParts
  <1>4. Ordered!HasKey(d, k)
    BY <1>3 DEF Ordered!HasKey
  <1>5. CASE j < n
    <2>1. j + 1 \in 1 .. n /\ (j + 1) - 1 = j /\ j # n
      BY <1>1, <1>5
    <2> DEFINE a == c[j + 1]
               l == ps[j + 1][1]
    <2>2. d.next[c[j]] = a /\ a \in 1 .. N /\ a # 0 /\ d.key[a] = l /\ l \in Keys
      <3> DEFINE m == j + 1
      <3>1. m \in 1 .. n /\ m - 1 = j
        BY <2>1
      <3> HIDE DEF m
      <3>2. d.next[c[j]] = c[m] /\ c[m] \in 1 .. N /\ d.key[c[m]] = ps[m][1] /\ ps[m][1] \in Keys
        BY <3>1, PairParts
      <3>3. c[m] # 0
        BY <1>1, <3>2
      <3>4. QED BY <3>2, <3>3 DEF m
    <2>3. l # k
      BY <2>1 DEF Row, PairRow
    <2> DEFINE back == [[d.prevchain EXCEPT ![k] = 0] EXCEPT ![l] = p]
               next == [d.next EXCEPT ![p] = a]
    <2> HIDE DEF k, a, l, p
    <2>4. e = [d EXCEPT !.prevchain = back, !.next = next]
      BY <1>3, <1>4, <2>2 DEF Ordered!RemoveKey
    <2>5. back \in [Keys -> 0 .. N] /\ next \in [1 .. N -> 0 .. N]
      <3>1. 0 \in 0 .. N /\ a \in 0 .. N /\ p \in 0 .. N
        BY <1>1, <1>3, <2>2
      <3>2. next \in [1 .. N -> 0 .. N]
        BY <1>1, <3>1
      <3>3. [d.prevchain EXCEPT ![k] = 0] \in [Keys -> 0 .. N]
        BY <1>1, <3>1
      <3>4. back \in [Keys -> 0 .. N]
        BY <3>1, <3>3
      <3>5. QED BY <3>2, <3>4
    <2>6. /\ next[p] = a /\ back[l] = p /\ back[k] = 0
          /\ \A x \in 1 .. N : x # p => next[x] = d.next[x]
          /\ \A h \in Keys : h # k /\ h # l => back[h] = d.prevchain[h]
      BY <1>1, <1>3, <2>2, <2>3
    <2> HIDE DEF e, back, next
    <2>7. /\ e \in Dicts(N) /\ e.key = d.key /\ e.value = d.value /\ e.next = next
          /\ e.prevchain = back /\ e.tailchain = d.tailchain
      BY <1>2, <2>4, <2>5 DEF Dicts
    <2>8. QED BY <1>5, <2>1, <2>6, <2>7 DEF IsCutOut, e, k, a, l, p
  <1>6. CASE j = n
    <2>1. d.next[c[j]] = 0
      BY <1>6
    <2> DEFINE back == [d.prevchain EXCEPT ![k] = 0]
    <2> HIDE DEF k, p
    <2>2. e = [d EXCEPT !.prevchain = back, !.tailchain = 0]
      BY <1>3, <1>4, <2>1 DEF Ordered!RemoveKey
    <2>3. back \in [Keys -> 0 .. N] /\ back[k] = 0 /\ (\A h \in Keys : h # k => back[h] = d.prevchain[h])
      BY <1>1, <1>3
    <2> HIDE DEF e, back
    <2>4. /\ e \in Dicts(N) /\ e.key = d.key /\ e.value = d.value /\ e.next = d.next
          /\ e.prevchain = back /\ e.tailchain = 0
      <3>1. 0 \in 0 .. N
        BY <1>1
      <3>2. QED BY <1>2, <2>2, <2>3, <3>1 DEF Dicts
    <2>5. ~ (j < n)
      BY <1>1, <1>6
    <2>6. QED BY <1>6, <2>3, <2>4, <2>5 DEF IsCutOut, e, k, p
  <1>7. QED BY <1>1, <1>5, <1>6

\* The nodes that are left.
NodesWithout(c, n, j) == [i \in 0 .. n - 1 |-> IF i < j THEN c[i] ELSE c[i + 1]]

LEMMA CutKeepsRow ==
  ASSUME NEW d, NEW N, NEW ps, NEW n, NEW c, Row(d, N, ps, n, c), NEW j \in 1 .. n,
         NEW e, IsCutOut(e, d, N, ps, n, c, j)
  PROVE  Row(e, N, Without(ps, n, j), n - 1, NodesWithout(c, n, j))
  <1> DEFINE qs == Without(ps, n, j)
             b == NodesWithout(c, n, j)
             was(i) == IF i < j THEN i ELSE i + 1
  <1>1. /\ N \in Nat /\ n \in Nat /\ n < N
        /\ ps \in [1 .. n -> Keys \X Numbers] /\ c \in [0 .. n -> 1 .. N] /\ c[0] = 1
    BY RowFacts
  <1>2. \A i \in 0 .. n - 1 : was(i) \in 0 .. n /\ was(i) # j
    BY <1>1
  <1>3. \A i \in 1 .. n - 1 : was(i) \in 1 .. n /\ i - 1 \in 0 .. n - 1 /\ i \in 0 .. n - 1
    BY <1>1
  <1>4. \A i, h \in 0 .. n - 1 : was(i) = was(h) => i = h
    BY <1>1
  <1>5. \A i \in 1 .. n - 1 : i # j => was(i - 1) = was(i) - 1 /\ was(i) - 1 # j - 1 /\ was(i) # j + 1
    BY <1>1
  <1>6. j \in 1 .. n - 1 => was(j) = j + 1 /\ was(j - 1) = j - 1 /\ j < n
    BY <1>1
  <1>7. \A m \in 1 .. n : m # j => \E i \in 1 .. n - 1 : was(i) = m
    <2>1. ASSUME NEW m \in 1 .. n, m < j PROVE m \in 1 .. n - 1 /\ was(m) = m
      BY <1>1, <2>1
    <2>2. ASSUME NEW m \in 1 .. n, m > j PROVE m - 1 \in 1 .. n - 1 /\ was(m - 1) = m
      BY <1>1, <2>2
    <2> HIDE DEF was
    <2>3. \A m \in 1 .. n : m < j \/ m > j \/ m = j
      BY <1>1
    <2>4. QED BY <2>1, <2>2, <2>3
  <1>8. \A i \in 1 .. n - 1 : qs[i] = ps[was(i)]
    BY DEF Without
  <1>9. \A i \in 0 .. n - 1 : b[i] = c[was(i)]
    BY DEF NodesWithout
  <1>10. DOMAIN qs = 1 .. n - 1 /\ qs = [i \in 1 .. n - 1 |-> qs[i]]
    BY DEF Without
  <1>11. DOMAIN b = 0 .. n - 1 /\ b = [i \in 0 .. n - 1 |-> b[i]]
    BY DEF NodesWithout
  <1>12. was(0) = 0 /\ 0 \in 0 .. n - 1
    BY <1>1
  <1> HIDE DEF qs, b, was
  <1>13. PairRow(qs, n - 1)
    <2>1. \A i \in 1 .. n - 1 : qs[i] \in Keys \X Numbers
      BY <1>1, <1>3, <1>8
    <2>2. qs \in [1 .. n - 1 -> Keys \X Numbers]
      BY <1>10, <2>1
    <2>3. ASSUME NEW i \in 1 .. n - 1, NEW h \in 1 .. n - 1, qs[i][1] = qs[h][1] PROVE i = h
      <3>1. was(i) = was(h)
        BY <1>3, <1>8, <2>3 DEF Row, PairRow
      <3>2. QED BY <1>3, <1>4, <3>1
    <2>4. QED BY <2>2, <2>3 DEF PairRow
  <1>14. Places(b, N, n - 1)
    <2>1. \A i \in 0 .. n - 1 : b[i] \in 1 .. N
      BY <1>1, <1>2, <1>9
    <2>2. b \in [0 .. n - 1 -> 1 .. N]
      BY <1>11, <2>1
    <2>3. b[0] = 1
      BY <1>1, <1>9, <1>12
    <2>4. ASSUME NEW i \in 0 .. n - 1, NEW h \in 0 .. n - 1, b[i] = b[h] PROVE i = h
      <3>1. was(i) = was(h)
        BY <1>2, <1>9, <2>4 DEF Row, Places
      <3>2. QED BY <1>4, <3>1
    <2>5. QED BY <2>2, <2>3, <2>4 DEF Places
  <1>15. Linked(e, qs, n - 1, b)
    <2>1. ASSUME NEW i \in 1 .. n - 1
          PROVE  /\ e.next[b[i - 1]] = b[i] /\ e.key[b[i]] = qs[i][1] /\ e.value[b[i]] = qs[i][2]
                 /\ e.prevchain[qs[i][1]] = b[i - 1]
      <3> DEFINE m == was(i)
      <3>1. m \in 1 .. n /\ m # j /\ qs[i] = ps[m] /\ b[i] = c[m] /\ b[i - 1] = c[was(i - 1)]
        BY <1>2, <1>3, <1>8, <1>9
      <3>2. /\ m - 1 \in 0 .. n /\ c[m - 1] \in 1 .. N /\ c[m] \in 1 .. N
            /\ d.next[c[m - 1]] = c[m] /\ d.key[c[m]] = ps[m][1] /\ d.value[c[m]] = ps[m][2]
            /\ d.prevchain[ps[m][1]] = c[m - 1] /\ ps[m][1] \in Keys
        BY <3>1, PairParts
      <3>3. e.key[b[i]] = qs[i][1] /\ e.value[b[i]] = qs[i][2]
        BY <3>1, <3>2 DEF IsCutOut
      <3>4. CASE i = j
        <4>1. m = j + 1 /\ b[i - 1] = c[j - 1] /\ j < n
          BY <1>6, <3>1, <3>4
        <4>2. e.next[c[j - 1]] = c[m] /\ e.prevchain[ps[m][1]] = c[j - 1]
          BY <4>1 DEF IsCutOut
        <4>3. QED BY <3>1, <3>3, <4>1, <4>2
      <3>5. CASE i # j
        <4>1. was(i - 1) = m - 1 /\ m - 1 # j - 1 /\ m # j + 1
          BY <1>5, <3>5
        <4>2. c[m - 1] # c[j - 1]
          <5>1. j - 1 \in 0 .. n
            BY <1>1
          <5>2. QED BY <3>2, <4>1, <5>1 DEF Row, Places
        <4>3. e.next[c[m - 1]] = c[m]
          BY <3>2, <4>2 DEF IsCutOut
        <4>4. ps[m][1] # ps[j][1] /\ (j < n => ps[m][1] # ps[j + 1][1])
          <5>1. j < n => j + 1 \in 1 .. n
            BY <1>1
          <5>2. QED BY <3>1, <4>1, <5>1 DEF Row, PairRow
        <4>5. e.prevchain[ps[m][1]] = c[m - 1]
          BY <3>2, <4>4 DEF IsCutOut
        <4>6. QED BY <3>1, <3>3, <4>1, <4>3, <4>5
      <3>6. QED BY <3>4, <3>5
    <2>2. ASSUME NEW l \in Keys, e.prevchain[l] # 0 PROVE \E i \in 1 .. n - 1 : qs[i][1] = l
      <3>1. l # ps[j][1]
        BY <2>2 DEF IsCutOut
      <3>2. PICK m \in 1 .. n : ps[m][1] = l
        <4>1. CASE j < n /\ l = ps[j + 1][1]
          <5>1. j + 1 \in 1 .. n
            BY <1>1, <4>1
          <5>2. QED BY <4>1, <5>1
        <4>2. CASE j < n => l # ps[j + 1][1]
          <5>1. d.prevchain[l] # 0
            BY <2>2, <3>1, <4>2 DEF IsCutOut
          <5>2. QED BY <5>1 DEF Row, Linked
        <4>3. QED BY <4>1, <4>2
      <3>3. m # j
        BY <3>1, <3>2
      <3>4. PICK i \in 1 .. n - 1 : was(i) = m
        BY <1>7, <3>3
      <3>5. QED BY <1>8, <3>2, <3>4
    <2>3. QED BY <2>1, <2>2 DEF Linked
  <1>16. n - 1 \in Nat /\ n - 1 < N
    BY <1>1
  <1>17. e \in Dicts(N)
    BY DEF IsCutOut
  <1>18. QED BY <1>1, <1>13, <1>14, <1>15, <1>16, <1>17 DEF Row, qs, b

\* Of a sound chain any pair but the last leaves a sound chain; the last takes the
\* tail with it.
LEMMA RemovesPair ==
  ASSUME NEW d, NEW N, NEW ps, NEW n, NEW c, Row(d, N, ps, n, c), Ends(d, n, c), NEW j \in 1 .. n
  PROVE  /\ j < n => Sound(Ordered!RemoveKey(d, ps[j][1]), Without(ps, n, j))
         /\ j = n => Held(Ordered!RemoveKey(d, ps[j][1]), Without(ps, n, j))
  <1> DEFINE e == Ordered!RemoveKey(d, ps[j][1])
             qs == Without(ps, n, j)
             b == NodesWithout(c, n, j)
  <1>1. n \in Nat /\ N \in Nat /\ c \in [0 .. n -> 1 .. N]
    BY RowFacts
  <1>2. IsCutOut(e, d, N, ps, n, c, j) /\ (j = n => e.tailchain = 0)
    BY CutsOut DEF Ends
  <1>3. Row(e, N, qs, n - 1, b)
    <2> HIDE DEF e
    <2>1. QED BY <1>2, CutKeepsRow
  <1> HIDE DEF e, qs
  <1>4. ASSUME j < n PROVE Ends(e, n - 1, b)
    <2>1. b[n - 1] = c[n] /\ n - 1 # 0 /\ n # j - 1 /\ n \in 0 .. n /\ j - 1 \in 0 .. n
      BY <1>1, <1>4 DEF NodesWithout
    <2>2. c[n] \in 1 .. N /\ c[n] # c[j - 1]
      BY <1>1, <2>1 DEF Row, Places
    <2>3. e.next[c[n]] = 0 /\ e.tailchain = c[n]
      BY <1>2, <1>4, <2>2 DEF IsCutOut, Ends
    <2> HIDE DEF b
    <2>4. QED BY <2>1, <2>3 DEF Ends
  <1>5. j = n => e.tailchain = 0
    BY <1>2
  <1> HIDE DEF b
  <1>6. QED BY <1>3, <1>4, <1>5 DEF Sound, Held, e, qs
\* The reference's Remove takes out the pair.
LEMMA RefRemoveIs ==
  ASSUME NEW n \in Nat, NEW ps, PairRow(ps, n), NEW j \in 1 .. n
  PROVE  Ordered!RefRemove(ps, ps[j][1]) = Without(ps, n, j)
  <1> DEFINE f == [i \in 1 .. n |-> i]
             g == Without(f, n, j)
             rest == (1 .. n) \ {f[j]}
  <1>1. DOMAIN ps = 1 .. n
    BY DEF PairRow
  <1>2. Ordered!PlaceOf(ps, ps[j][1]) = {f[j]}
    BY <1>1 DEF Ordered!PlaceOf, PairRow
  <1>3. Counts(g, n - 1, rest)
    <2>1. Counts(f, n, 1 .. n)
      BY CountsAll
    <2> HIDE DEF f
    <2>2. QED BY <2>1, CountsWithout
  <1>4. Ordered!Selected(ps, rest) = [i \in 1 .. n - 1 |-> ps[g[i]]]
    <2> DEFINE m == n - 1
    <2>1. m \in Nat /\ rest \in SUBSET Nat /\ Counts(g, m, rest)
      BY <1>3
    <2> HIDE DEF g, rest, m
    <2>2. Ordered!Selected(ps, rest) = Taken(ps, g, m)
      BY <2>1, SelectedIs
    <2>3. QED BY <2>2, Zenon DEF m, Taken
  <1>5. \A i \in 1 .. n - 1 : ps[g[i]] = IF i < j THEN ps[i] ELSE ps[i + 1]
    BY DEF Without
  <1> HIDE DEF f, g
  <1>6. [i \in 1 .. n - 1 |-> ps[g[i]]] = Without(ps, n, j)
    BY <1>5 DEF Without
  <1>7. QED BY <1>1, <1>2, <1>4, <1>6 DEF Ordered!RefRemove

LEMMA RefRemoveNothing ==
  ASSUME NEW n \in Nat, NEW ps, PairRow(ps, n), NEW k, \A i \in 1 .. n : ps[i][1] # k
  PROVE  Ordered!RefRemove(ps, k) = ps
  <1> DEFINE f == [i \in 1 .. n |-> i]
             all == 1 .. n
  <1>1. DOMAIN ps = all /\ ps = [i \in 1 .. n |-> ps[i]]
    BY DEF PairRow
  <1>2. Ordered!PlaceOf(ps, k) = {}
    BY <1>1 DEF Ordered!PlaceOf
  <1>3. Counts(f, n, all) /\ all \in SUBSET Nat
    BY CountsAll
  <1>4. \A i \in 1 .. n : ps[f[i]] = ps[i]
    OBVIOUS
  <1> HIDE DEF f, all
  <1>5. Ordered!Selected(ps, all) = Taken(ps, f, n)
    BY <1>3, SelectedIs
  <1>6. Taken(ps, f, n) = ps
    BY <1>1, <1>4 DEF Taken
  <1>7. QED BY <1>1, <1>2, <1>5, <1>6 DEF Ordered!RefRemove

\* RemoveAt of any key: only the last one leaves a dangling chain.
LEMMA RemoveKeeps ==
  ASSUME NEW d, NEW ps, Sound(d, ps), NEW k \in Keys
  PROVE  LET e == Ordered!RemoveKey(d, k)
             qs == Ordered!RefRemove(ps, k)
         IN  /\ ps # <<>> /\ ps[Len(ps)][1] = k => Held(e, qs)
             /\ ~ (ps # <<>> /\ ps[Len(ps)][1] = k) => Sound(e, qs)
  <1> DEFINE e == Ordered!RemoveKey(d, k)
             qs == Ordered!RefRemove(ps, k)
  <1>1. PICK N, n, c : Row(d, N, ps, n, c) /\ Ends(d, n, c)
    BY DEF Sound
  <1>2. n \in Nat /\ Len(ps) = n /\ DOMAIN ps = 1 .. n /\ PairRow(ps, n)
    BY <1>1, RowFacts DEF Row
  <1>3. ps = <<>> <=> n = 0
    BY <1>2, <1>1, RowFacts
  <1>4. CASE \A i \in 1 .. n : ps[i][1] # k
    <2>1. ~ Ordered!HasKey(d, k) /\ qs = ps
      BY <1>1, <1>2, <1>4, KeysAreThose, RefRemoveNothing
    <2>2. e = d
      BY <2>1 DEF Ordered!RemoveKey
    <2>3. ~ (ps # <<>> /\ ps[Len(ps)][1] = k)
      BY <1>2, <1>3, <1>4
    <2> HIDE DEF e, qs
    <2>4. Sound(e, qs)
      BY <2>1, <2>2
    <2>5. QED BY <2>3, <2>4 DEF e, qs
  <1>5. CASE \E i \in 1 .. n : ps[i][1] = k
    <2>1. PICK j \in 1 .. n : ps[j][1] = k
      BY <1>5
    <2>2. qs = Without(ps, n, j)
      BY <1>2, <2>1, RefRemoveIs
    <2>3. (j < n => Sound(e, qs)) /\ (j = n => Held(e, qs))
      BY <1>1, <2>1, <2>2, RemovesPair
    <2>4. ps[Len(ps)][1] = k <=> j = n
      <3>1. n \in 1 .. n
        BY <1>2
      <3>2. QED BY <1>2, <2>1, <3>1 DEF PairRow
    <2>5. j < n \/ j = n
      BY <1>2
    <2>6. n # 0
      BY <1>2
    <2> HIDE DEF e, qs
    <2>7. QED BY <1>3, <2>3, <2>4, <2>5, <2>6 DEF e, qs
  <1>6. QED BY <1>4, <1>5

-----------------------------------------------------------------------------
(* Remove of a value.                                                      *)

\* One after the other.
RemovesInTurn(a, d, ks, m) ==
    /\ Ordered!RemoveKeys(d, ks) = a[m]
    /\ a[0] = d
    /\ \A i \in 1 .. m : a[i] = Ordered!RemoveKey(a[i - 1], ks[i])

LEMMA RemoveKeysStep ==
  ASSUME NEW m \in Nat, NEW ks, Len(ks) = m, NEW d
  PROVE  \E a : RemovesInTurn(a, d, ks, m)
  <1> DEFINE Is(g, h) == \A i \in 0 .. h : g[i] = IF i = 0 THEN d ELSE Ordered!RemoveKey(g[i - 1], ks[i])
  <1>1. \E g : g = [i \in 0 .. m |-> g[i]] /\ Is(g, m)
    <2> DEFINE T == {h \in Nat : h <= m => \E g : g = [i \in 0 .. m |-> g[i]] /\ Is(g, h)}
    <2>1. 0 \in T
      <3> DEFINE g == [i \in 0 .. m |-> d]
      <3>1. g = [i \in 0 .. m |-> g[i]] /\ Is(g, 0)
        OBVIOUS
      <3>2. QED BY <3>1
    <2>2. ASSUME NEW h \in T PROVE h + 1 \in T
      <3>1. SUFFICES ASSUME h + 1 <= m PROVE \E g : g = [i \in 0 .. m |-> g[i]] /\ Is(g, h + 1)
        OBVIOUS
      <3>2. h \in Nat /\ h <= m /\ h + 1 \in 0 .. m
        BY <3>1
      <3>3. PICK g : g = [i \in 0 .. m |-> g[i]] /\ Is(g, h)
        BY <3>2
      <3> DEFINE b == [i \in 0 .. m |-> IF i = h + 1 THEN Ordered!RemoveKey(g[h], ks[h + 1]) ELSE g[i]]
      <3>4. b = [i \in 0 .. m |-> b[i]]
        OBVIOUS
      <3>5. \A i \in 0 .. m : i # h + 1 => b[i] = g[i]
        OBVIOUS
      <3>6. b[h + 1] = Ordered!RemoveKey(g[h], ks[h + 1])
        BY <3>2
      <3> HIDE DEF b
      <3>7. ASSUME NEW i \in 0 .. (h + 1) PROVE b[i] = IF i = 0 THEN d ELSE Ordered!RemoveKey(b[i - 1], ks[i])
        <4>1. CASE i = h + 1
          <5>1. i # 0 /\ i - 1 = h /\ h \in 0 .. m /\ h # h + 1
            BY <3>2, <4>1
          <5>2. QED BY <3>5, <3>6, <4>1, <5>1
        <4>2. CASE i # h + 1
          <5>1. i \in 0 .. h /\ i \in 0 .. m /\ (i # 0 => i - 1 \in 0 .. m /\ i - 1 # h + 1)
            BY <3>2, <4>2
          <5>2. g[i] = IF i = 0 THEN d ELSE Ordered!RemoveKey(g[i - 1], ks[i])
            BY <3>3, <5>1
          <5>3. QED BY <3>5, <4>2, <5>1, <5>2
        <4>3. QED BY <4>1, <4>2
      <3>8. Is(b, h + 1)
        BY <3>7
      <3>9. QED BY <3>4, <3>8
    <2> HIDE DEF T
    <2>3. T \in SUBSET Nat
      BY DEF T
    <2>4. \A h \in Nat : h \in T
      BY <2>1, <2>2, <2>3, Induction
    <2>5. QED BY <2>4 DEF T
  <1> DEFINE upto[i \in 0 .. m] == IF i = 0 THEN d ELSE Ordered!RemoveKey(upto[i - 1], ks[i])
  <1>2. \A i \in 0 .. m : upto[i] = IF i = 0 THEN d ELSE Ordered!RemoveKey(upto[i - 1], ks[i])
    <2>1. PICK g : g = [i \in 0 .. m |-> g[i]] /\ Is(g, m)
      BY <1>1
    <2>2. g = [i \in 0 .. m |-> IF i = 0 THEN d ELSE Ordered!RemoveKey(g[i - 1], ks[i])]
      BY <2>1
    <2>3. upto = [i \in 0 .. m |-> IF i = 0 THEN d ELSE Ordered!RemoveKey(upto[i - 1], ks[i])]
      BY <2>2
    <2> HIDE DEF upto
    <2>4. QED BY <2>3
  <1>3. Ordered!RemoveKeys(d, ks) = upto[m]
    BY DEF Ordered!RemoveKeys
  <1> HIDE DEF upto
  <1>4. upto[0] = d /\ \A i \in 1 .. m : upto[i] = Ordered!RemoveKey(upto[i - 1], ks[i])
    BY <1>2
  <1>5. RemovesInTurn(upto, d, ks, m)
    BY <1>3, <1>4 DEF RemovesInTurn
  <1>6. QED BY <1>5
-----------------------------------------------------------------------------
(* The readers.                                                            *)

LEMMA NodesStep ==
  ASSUME NEW N \in Nat, NEW d, Len(d.next) = N
  PROVE  /\ Ordered!Nodes(d)[0] = d.headchain
         /\ \A i \in 1 .. N : Ordered!Nodes(d)[i] =
                IF Ordered!Nodes(d)[i - 1] = 0 THEN 0 ELSE d.next[Ordered!Nodes(d)[i - 1]]
  <1> DEFINE Step(x) == IF x = 0 THEN 0 ELSE d.next[x]
             first == d.headchain
             Is(g, h) == \A i \in 0 .. h : g[i] = IF i = 0 THEN first ELSE Step(g[i - 1])
  <1> HIDE DEF Step, first
  <1>1. \E g : g = [i \in 0 .. N |-> g[i]] /\ Is(g, N)
    <2> DEFINE T == {h \in Nat : h <= N => \E g : g = [i \in 0 .. N |-> g[i]] /\ Is(g, h)}
    <2>1. 0 \in T
      <3> DEFINE g == [i \in 0 .. N |-> first]
      <3>1. g = [i \in 0 .. N |-> g[i]] /\ Is(g, 0)
        OBVIOUS
      <3>2. QED BY <3>1
    <2>2. ASSUME NEW h \in T PROVE h + 1 \in T
      <3>1. SUFFICES ASSUME h + 1 <= N PROVE \E g : g = [i \in 0 .. N |-> g[i]] /\ Is(g, h + 1)
        OBVIOUS
      <3>2. h \in Nat /\ h <= N /\ h + 1 \in 0 .. N
        BY <3>1
      <3>3. PICK g : g = [i \in 0 .. N |-> g[i]] /\ Is(g, h)
        BY <3>2
      <3> DEFINE b == [i \in 0 .. N |-> IF i = h + 1 THEN Step(g[h]) ELSE g[i]]
      <3>4. b = [i \in 0 .. N |-> b[i]]
        OBVIOUS
      <3>5. \A i \in 0 .. N : i # h + 1 => b[i] = g[i]
        OBVIOUS
      <3>6. b[h + 1] = Step(g[h])
        BY <3>2
      <3> HIDE DEF b
      <3>7. ASSUME NEW i \in 0 .. (h + 1) PROVE b[i] = IF i = 0 THEN first ELSE Step(b[i - 1])
        <4>1. CASE i = h + 1
          <5>1. i # 0 /\ i - 1 = h /\ h \in 0 .. N /\ h # h + 1
            BY <3>2, <4>1
          <5>2. QED BY <3>5, <3>6, <4>1, <5>1
        <4>2. CASE i # h + 1
          <5>1. i \in 0 .. h /\ i \in 0 .. N /\ (i # 0 => i - 1 \in 0 .. N /\ i - 1 # h + 1)
            BY <3>2, <4>2
          <5>2. g[i] = IF i = 0 THEN first ELSE Step(g[i - 1])
            BY <3>3, <5>1
          <5>3. QED BY <3>5, <4>2, <5>1, <5>2
        <4>3. QED BY <4>1, <4>2
      <3>8. Is(b, h + 1)
        BY <3>7
      <3>9. QED BY <3>4, <3>8
    <2> HIDE DEF T
    <2>3. T \in SUBSET Nat
      BY DEF T
    <2>4. \A h \in Nat : h \in T
      BY <2>1, <2>2, <2>3, Induction
    <2>5. QED BY <2>4 DEF T
  <1> DEFINE node[i \in 0 .. N] == IF i = 0 THEN first ELSE Step(node[i - 1])
  <1>2. \A i \in 0 .. N : node[i] = IF i = 0 THEN first ELSE Step(node[i - 1])
    <2>1. PICK g : g = [i \in 0 .. N |-> g[i]] /\ Is(g, N)
      BY <1>1
    <2>2. g = [i \in 0 .. N |-> IF i = 0 THEN first ELSE Step(g[i - 1])]
      BY <2>1
    <2>3. node = [i \in 0 .. N |-> IF i = 0 THEN first ELSE Step(node[i - 1])]
      BY <2>2
    <2> HIDE DEF node
    <2>4. QED BY <2>3
  <1>3. Ordered!Nodes(d) = node
    BY DEF Ordered!Nodes, Step, first
  <1> HIDE DEF node
  <1>4. node[0] = first /\ \A i \in 1 .. N : node[i] = Step(node[i - 1])
    BY <1>2
  <1>5. QED BY <1>3, <1>4 DEF Step, first

\* The chain leads along the nodes of the pairs, and on a sound one no further.
LEMMA NodesAre ==
  ASSUME NEW d, NEW N, NEW ps, NEW n, NEW c, Row(d, N, ps, n, c)
  PROVE  /\ \A i \in 0 .. n : Ordered!Nodes(d)[i] = c[i]
         /\ d.next[c[n]] = 0 => \A i \in n + 1 .. N : Ordered!Nodes(d)[i] = 0
  <1> DEFINE node == Ordered!Nodes(d)
  <1>1. /\ N \in Nat /\ n \in Nat /\ n < N /\ d.headchain = 1 /\ Len(d.next) = N
        /\ c \in [0 .. n -> 1 .. N] /\ c[0] = 1
    BY RowFacts
  <1>2. node[0] = 1
    BY <1>1, NodesStep
  <1>3. \A i \in 1 .. N : node[i] = IF node[i - 1] = 0 THEN 0 ELSE d.next[node[i - 1]]
    BY <1>1, NodesStep
  <1> HIDE DEF node
  <1>4. \A i \in Nat : i <= n => node[i] = c[i]
    <2> DEFINE T == {i \in Nat : i <= n => node[i] = c[i]}
    <2>1. 0 \in T
      BY <1>1, <1>2
    <2>2. ASSUME NEW h \in T PROVE h + 1 \in T
      <3>1. SUFFICES ASSUME h + 1 <= n PROVE node[h + 1] = c[h + 1]
        OBVIOUS
      <3> DEFINE i == h + 1
      <3>2. i \in 1 .. n /\ i \in 1 .. N /\ i - 1 = h /\ node[h] = c[h]
        BY <1>1, <3>1
      <3> HIDE DEF i
      <3>3. d.next[c[i - 1]] = c[i] /\ c[i - 1] \in 1 .. N
        BY <3>2, PairParts
      <3>4. c[i - 1] # 0
        BY <1>1, <3>3
      <3>5. node[i] = c[i]
        BY <1>3, <3>2, <3>3, <3>4
      <3>6. QED BY <3>5 DEF i
    <2> HIDE DEF T
    <2>3. T \in SUBSET Nat
      BY DEF T
    <2>4. \A i \in Nat : i \in T
      BY <2>1, <2>2, <2>3, Induction
    <2>5. QED BY <2>4 DEF T
  <1>5. ASSUME d.next[c[n]] = 0 PROVE \A i \in Nat : n < i /\ i <= N => node[i] = 0
    <2> DEFINE T == {i \in Nat : n < i /\ i <= N => node[i] = 0}
    <2>1. 0 \in T
      BY <1>1
    <2>2. ASSUME NEW h \in T PROVE h + 1 \in T
      <3>1. SUFFICES ASSUME n < h + 1, h + 1 <= N PROVE node[h + 1] = 0
        OBVIOUS
      <3>2. h + 1 \in 1 .. N /\ (h + 1) - 1 = h /\ h <= N
        BY <1>1, <3>1
      <3>3. CASE h = n
        <4>1. node[h] = c[n] /\ c[n] # 0
          BY <1>1, <1>4, <3>3
        <4>2. QED BY <1>3, <1>5, <3>2, <4>1
      <3>4. CASE h # n
        <4>1. n < h
          BY <1>1, <3>1, <3>4
        <4>2. node[h] = 0
          BY <3>2, <4>1
        <4>3. QED BY <1>3, <3>2, <4>2
      <3>5. QED BY <3>3, <3>4
    <2> HIDE DEF T
    <2>3. T \in SUBSET Nat
      BY DEF T
    <2>4. \A i \in Nat : i \in T
      BY <2>1, <2>2, <2>3, Induction
    <2>5. QED BY <2>4 DEF T
  <1>6. (\A i \in 0 .. n : i \in Nat /\ i <= n) /\ \A i \in n + 1 .. N : i \in Nat /\ n < i /\ i <= N
    BY <1>1
  <1>7. QED BY <1>4, <1>5, <1>6 DEF node

\* What a walk along the nodes of the pairs shows.
LEMMA WalkIs ==
  ASSUME NEW d, NEW N, NEW ps, NEW n, NEW c, Row(d, N, ps, n, c)
  PROVE  Ordered!Walk(d, n) = ps
  <1>1. n \in Nat /\ ps = [i \in 1 .. n |-> ps[i]]
    BY RowFacts
  <1>2. ASSUME NEW i \in 1 .. n
        PROVE  <<d.key[Ordered!Nodes(d)[i]], d.value[Ordered!Nodes(d)[i]]>> = ps[i]
    <2>1. Ordered!Nodes(d)[i] = c[i]
      BY NodesAre, <1>1
    <2>2. d.key[c[i]] = ps[i][1] /\ d.value[c[i]] = ps[i][2] /\ ps[i] = <<ps[i][1], ps[i][2]>>
      BY PairParts
    <2>3. QED BY <2>1, <2>2
  <1>3. Ordered!Walk(d, n) = [i \in 1 .. n |-> ps[i]]
    BY <1>2 DEF Ordered!Walk
  <1>4. QED BY <1>1, <1>3

LEMMA LenOfIs ==
  ASSUME NEW d, NEW N, NEW ps, NEW n, NEW c, Row(d, N, ps, n, c)
  PROVE  Ordered!LenOf(d) = n
  <1> DEFINE has == {k \in Keys : Ordered!HasKey(d, k)}
             key == [i \in 1 .. n |-> ps[i][1]]
  <1>1. n \in Nat
    BY RowFacts
  <1>2. \A i \in 1 .. n : key[i] \in has
    <2>1. ASSUME NEW i \in 1 .. n PROVE ps[i][1] \in has
      <3>1. ps[i][1] \in Keys
        BY PairParts
      <3>2. QED BY <3>1, KeysAreThose
    <2>2. QED BY <2>1
  <1>3. \A k \in has : \E i \in 1 .. n : key[i] = k
    BY KeysAreThose
  <1>4. \A i, j \in 1 .. n : key[i] = key[j] => i = j
    BY DEF Row, PairRow
  <1>5. key \in [1 .. n -> has]
    BY <1>2
  <1> HIDE DEF key, has
  <1>6. key \in Bijection(1 .. n, has)
    BY <1>3, <1>4, <1>5 DEF Bijection, Injection, Surjection, IsInjective
  <1>7. IsFiniteSet(1 .. n) /\ Cardinality(1 .. n) = n
    BY <1>1, FS_Interval
  <1>8. Cardinality(has) = n
    BY <1>6, <1>7, FS_Bijection DEF ExistsBijection
  <1>9. Ordered!Cardinality(has) = Cardinality(has)
    BY Zenon DEF Ordered!Cardinality, Cardinality
  <1>10. QED BY <1>8, <1>9 DEF Ordered!LenOf, has

\* Keys, Values, KeysValues and Pairs read the pairs of any held chain.
LEMMA ByCountIs ==
  ASSUME NEW d, NEW N, NEW ps, NEW n, NEW c, Row(d, N, ps, n, c)
  PROVE  Ordered!ByCount(d) = ps
  BY LenOfIs, WalkIs DEF Ordered!ByCount

\* The readers that go on until nil read those of a sound one.
LEMMA ByLinkIs ==
  ASSUME NEW d, NEW N, NEW ps, NEW n, NEW c, Row(d, N, ps, n, c), d.next[c[n]] = 0
  PROVE  Ordered!ByLink(d) = ps
  <1> DEFINE node == Ordered!Nodes(d)
             there == {i \in 1 .. Len(d.next) : node[i] # 0}
  <1>1. N \in Nat /\ n \in Nat /\ n < N /\ Len(d.next) = N /\ c \in [0 .. n -> 1 .. N]
    BY RowFacts
  <1>2. \A i \in 1 .. n : node[i] # 0
    <2>1. \A i \in 1 .. n : i \in 0 .. n /\ c[i] # 0
      BY <1>1
    <2>2. QED BY <2>1, NodesAre
  <1>3. \A i \in n + 1 .. N : node[i] = 0
    BY NodesAre
  <1>4. there = 1 .. n
    <2> HIDE DEF node
    <2>1. \A i \in 1 .. N : i \in 1 .. n \/ i \in n + 1 .. N
      BY <1>1
    <2>2. \A i \in 1 .. n : i \in 1 .. N
      BY <1>1
    <2>3. QED BY <1>1, <1>2, <1>3, <2>1, <2>2
  <1> HIDE DEF there
  <1>5. Cardinality(there) = n
    BY <1>1, <1>4, FS_Interval
  <1>6. Ordered!Cardinality(there) = Cardinality(there)
    BY Zenon DEF Ordered!Cardinality, Cardinality
  <1>7. Ordered!ByLink(d) = Ordered!Walk(d, Ordered!Cardinality(there))
    BY DEF Ordered!ByLink, there
  <1>8. QED BY <1>5, <1>6, <1>7, WalkIs
-----------------------------------------------------------------------------
(* Remove of a value: its keys in their order, one after the other.        *)

\* What has been taken out after h of the places g.
Rest(n, g, h) == (1 .. n) \ {g[i] : i \in 1 .. h}

\* Without one more.
LEMMA TakenWithout ==
  ASSUME NEW ps, NEW f, NEW p \in Nat, NEW j \in 1 .. p
  PROVE  Without(Taken(ps, f, p), p, j) = Taken(ps, Without(f, p, j), p - 1)
  <1>1. \A i \in 1 .. p - 1 : i \in 1 .. p /\ i + 1 \in 1 .. p
    OBVIOUS
  <1>2. \A i \in 1 .. p - 1 : Without(f, p, j)[i] = IF i < j THEN f[i] ELSE f[i + 1]
    BY DEF Without
  <1>3. \A i \in 1 .. p - 1 : Without(Taken(ps, f, p), p, j)[i] = IF i < j THEN ps[f[i]] ELSE ps[f[i + 1]]
    BY <1>1 DEF Without, Taken
  <1>4. \A i \in 1 .. p - 1 : Taken(ps, Without(f, p, j), p - 1)[i] = IF i < j THEN ps[f[i]] ELSE ps[f[i + 1]]
    BY <1>2 DEF Taken
  <1>5. /\ Without(Taken(ps, f, p), p, j) = [i \in 1 .. p - 1 |-> Without(Taken(ps, f, p), p, j)[i]]
        /\ Taken(ps, Without(f, p, j), p - 1) = [i \in 1 .. p - 1 |-> Taken(ps, Without(f, p, j), p - 1)[i]]
    BY DEF Without, Taken
  <1>6. \A i \in 1 .. p - 1 : Without(Taken(ps, f, p), p, j)[i] = Taken(ps, Without(f, p, j), p - 1)[i]
    BY <1>3, <1>4
  <1>7. QED BY <1>5, <1>6

\* The place that is taken next is the last of the rest only when it is the last of
\* all places, and of those to take.
IsNext(f, j, p, g, h, m, n, set) ==
    /\ f[j] = g[h]
    /\ j = p <=> h = m /\ n \in set

LEMMA LastOfTheRest ==
  ASSUME NEW n \in Nat, NEW set \in SUBSET (1 .. n), NEW m \in Nat, NEW g, Counts(g, m, set),
         NEW h \in 1 .. m, NEW p \in Nat, NEW f, NEW rest, rest = Rest(n, g, h - 1), Counts(f, p, rest)
  PROVE  \E j \in 1 .. p : IsNext(f, j, p, g, h, m, n, set)
  <1>1. /\ g \in [1 .. m -> set] /\ (\A i \in 1 .. m : g[i] \in 1 .. n)
        /\ \A i, j \in 1 .. m : i < j => g[i] < g[j]
        /\ \A a \in set : \E i \in 1 .. m : g[i] = a
    BY DEF Counts
  <1>2. /\ rest \in SUBSET (1 .. n)
        /\ \A x \in 1 .. n : x \in rest <=> \A i \in 1 .. h - 1 : g[i] # x
    BY DEF Rest
  <1>3. /\ f \in [1 .. p -> rest] /\ (\A i \in 1 .. p : f[i] \in 1 .. n)
        /\ \A i, j \in 1 .. p : i < j => f[i] < f[j]
        /\ \A a \in rest : \E i \in 1 .. p : f[i] = a
    BY <1>2 DEF Counts
  <1>4. \A i \in 1 .. h - 1 : i \in 1 .. m /\ i < h
    OBVIOUS
  <1>5. g[h] \in rest
    <2>1. \A i \in 1 .. h - 1 : g[i] # g[h]
      BY <1>1, <1>4
    <2>2. QED BY <1>1, <1>2, <2>1
  <1>6. PICK j \in 1 .. p : f[j] = g[h]
    BY <1>3, <1>5
  <1>7. ASSUME j = p PROVE h = m /\ n \in set
    <2>1. n \in 1 .. n /\ g[h] \in 1 .. n
      BY <1>1
    <2>2. n \in rest
      <3>1. ASSUME NEW i \in 1 .. h - 1 PROVE g[i] # n
        <4>1. g[i] < g[h] /\ g[i] \in 1 .. n
          BY <1>1, <1>4
        <4>2. QED BY <2>1, <4>1
      <3>2. QED BY <1>2, <2>1, <3>1
    <2>3. PICK i \in 1 .. p : f[i] = n
      BY <1>3, <2>2
    <2>4. i = j
      <3>1. i < j => n < g[h]
        BY <1>3, <1>6, <2>3
      <3>2. i = j \/ i < j
        BY <1>7
      <3>3. QED BY <2>1, <3>1, <3>2
    <2>5. g[h] = n
      BY <1>6, <2>3, <2>4
    <2>6. h = m
      <3>1. CASE h < m
        <4>1. m \in 1 .. m
          OBVIOUS
        <4>2. g[h] < g[m] /\ g[m] \in 1 .. n
          BY <1>1, <3>1, <4>1
        <4>3. QED BY <2>5, <4>2
      <3>2. QED BY <3>1
    <2>7. n \in set
      BY <1>1, <2>5
    <2>8. QED BY <2>6, <2>7
  <1>8. ASSUME h = m, n \in set PROVE j = p
    <2>1. PICK i \in 1 .. m : g[i] = n
      BY <1>1, <1>8
    <2>2. g[h] = n
      <3>1. i < h => n < g[h]
        BY <1>1, <2>1
      <3>2. i = h \/ i < h
        BY <1>8
      <3>3. g[h] \in 1 .. n
        BY <1>1
      <3>4. QED BY <2>1, <3>1, <3>2, <3>3
    <2>3. j < p => n < f[p]
      <3>1. p \in 1 .. p
        OBVIOUS
      <3>2. QED BY <1>3, <1>6, <2>2, <3>1
    <2>4. p \in 1 .. p /\ f[p] \in 1 .. n
      <3>1. p \in 1 .. p
        OBVIOUS
      <3>2. QED BY <1>3, <3>1
    <2>5. QED BY <2>3, <2>4
  <1>9. QED BY <1>6, <1>7, <1>8 DEF IsNext

\* The keys at the places of a set, removed one after the other.
IsLeft(e, ps, n, set, f, p) ==
    /\ p \in Nat /\ Counts(f, p, (1 .. n) \ set)
    /\ n \notin set => Sound(e, Taken(ps, f, p))
    /\ n \in set => Held(e, Taken(ps, f, p))

LEMMA RemovesAll ==
  ASSUME NEW d, NEW N, NEW ps, NEW n, NEW c, Row(d, N, ps, n, c), Ends(d, n, c),
         NEW set \in SUBSET (1 .. n), NEW m \in Nat, NEW g, Counts(g, m, set),
         NEW ks, Len(ks) = m, \A i \in 1 .. m : ks[i] = ps[g[i]][1]
  PROVE  \E p, f : IsLeft(Ordered!RemoveKeys(d, ks), ps, n, set, f, p)
  <1>1. n \in Nat /\ DOMAIN ps = 1 .. n
    BY RowFacts
  <1>2. PICK a : RemovesInTurn(a, d, ks, m)
    BY RemoveKeysStep
  <1> DEFINE Good(h) == \E p, f :
                 /\ p \in Nat /\ Counts(f, p, Rest(n, g, h))
                 /\ h # m \/ n \notin set => Sound(a[h], Taken(ps, f, p))
                 /\ h = m /\ n \in set => Held(a[h], Taken(ps, f, p))
  <1>3. \A i \in 1 .. m : g[i] \in set /\ g[i] \in 1 .. n
    BY DEF Counts
  <1>4. Good(0)
    <2> DEFINE f == [i \in 1 .. n |-> i]
    <2>1. Rest(n, g, 0) = 1 .. n
      BY DEF Rest
    <2>2. Counts(f, n, Rest(n, g, 0))
      BY <1>1, <2>1, CountsAll
    <2>3. Taken(ps, f, n) = ps
      <3>1. ps = [i \in 1 .. n |-> ps[i]]
        BY RowFacts
      <3>2. QED BY <3>1 DEF Taken
    <2>4. Sound(a[0], Taken(ps, f, n))
      BY <1>2, <2>3 DEF Sound, RemovesInTurn
    <2>5. ~ (0 = m /\ n \in set)
      <3>1. ASSUME 0 = m, n \in set PROVE FALSE
        BY <3>1 DEF Counts
      <3>2. QED BY <3>1
    <2> HIDE DEF f
    <2>6. QED BY <1>1, <2>2, <2>4, <2>5
  <1>5. ASSUME NEW h \in 1 .. m, Good(h - 1) PROVE Good(h)
    <2>1. PICK p, f : /\ p \in Nat /\ Counts(f, p, Rest(n, g, h - 1))
                      /\ Sound(a[h - 1], Taken(ps, f, p))
      <3>1. h - 1 # m
        OBVIOUS
      <3>2. QED BY <1>5, <3>1
    <2>2. Rest(n, g, h - 1) \in SUBSET (1 .. n)
      BY DEF Rest
    <2>3. PICK j \in 1 .. p : IsNext(f, j, p, g, h, m, n, set)
      <3> DEFINE rest == Rest(n, g, h - 1)
      <3>1. rest = Rest(n, g, h - 1) /\ p \in Nat /\ Counts(f, p, rest)
        BY <2>1
      <3> HIDE DEF rest
      <3>2. QED BY <1>1, <3>1, LastOfTheRest
    <2> DEFINE qs == Taken(ps, f, p)
               f1 == Without(f, p, j)
               p1 == p - 1
    <2>4. PICK N1, n1, c1 : Row(a[h - 1], N1, qs, n1, c1) /\ Ends(a[h - 1], n1, c1)
      BY <2>1 DEF Sound
    <2>5. n1 = p
      <3>1. Len(qs) = p
        BY <2>1 DEF Taken
      <3>2. QED BY <2>4, <3>1, RowFacts
    <2>6. ks[h] = qs[j][1]
      BY <2>3 DEF Taken, IsNext
    <2>7. a[h] = Ordered!RemoveKey(a[h - 1], qs[j][1])
      BY <1>2, <2>6 DEF RemovesInTurn
    <2> HIDE DEF qs
    <2>8. /\ j < p => Sound(a[h], Without(qs, p, j))
          /\ j = p => Held(a[h], Without(qs, p, j))
      BY <2>4, <2>5, <2>7, RemovesPair
    <2>9. Without(qs, p, j) = Taken(ps, f1, p1)
      BY <2>1, TakenWithout DEF qs
    <2>10. Counts(f1, p1, Rest(n, g, h))
      <3>1. Rest(n, g, h) = Rest(n, g, h - 1) \ {f[j]}
        <4>1. 1 .. h = (1 .. h - 1) \cup {h}
          OBVIOUS
        <4>2. {g[i] : i \in 1 .. h} = {g[i] : i \in 1 .. h - 1} \cup {g[h]}
          BY <4>1
        <4>3. QED BY <2>3, <4>2 DEF Rest, IsNext
      <3>2. Counts(f1, p1, Rest(n, g, h - 1) \ {f[j]})
        BY <1>1, <2>1, <2>2, CountsWithout
      <3>3. QED BY <3>1, <3>2
    <2>11. p1 \in Nat /\ (j < p \/ j = p)
      BY <2>1
    <2> HIDE DEF f1, p1
    <2>12. /\ h # m \/ n \notin set => Sound(a[h], Taken(ps, f1, p1))
           /\ h = m /\ n \in set => Held(a[h], Taken(ps, f1, p1))
      BY <2>3, <2>8, <2>9, <2>11 DEF IsNext
    <2>13. QED BY <2>10, <2>11, <2>12
  <1> HIDE DEF Good
  <1>6. \A h \in Nat : h <= m => Good(h)
    <2> DEFINE T == {h \in Nat : h <= m => Good(h)}
    <2>1. 0 \in T
      BY <1>4
    <2>2. ASSUME NEW h \in T PROVE h + 1 \in T
      <3>1. SUFFICES ASSUME h + 1 <= m PROVE Good(h + 1)
        OBVIOUS
      <3> DEFINE x == h + 1
      <3>2. x \in 1 .. m /\ x - 1 = h /\ Good(h)
        BY <3>1
      <3> HIDE DEF x
      <3>3. Good(x)
        BY <1>5, <3>2
      <3>4. QED BY <3>3 DEF x
    <2> HIDE DEF T
    <2>3. T \in SUBSET Nat
      BY DEF T
    <2>4. \A h \in Nat : h \in T
      BY <2>1, <2>2, <2>3, Induction
    <2>5. QED BY <2>4 DEF T
  <1>7. Rest(n, g, m) = (1 .. n) \ set
    <2>1. \A x \in set : \E i \in 1 .. m : g[i] = x
      BY DEF Counts
    <2>2. \A x \in 1 .. n : x \in Rest(n, g, m) <=> x \notin set
      BY <1>3, <2>1 DEF Rest
    <2>3. Rest(n, g, m) \subseteq 1 .. n
      BY DEF Rest
    <2>4. QED BY <2>2, <2>3
  <1>8. Good(m)
    BY <1>6
  <1>9. Ordered!RemoveKeys(d, ks) = a[m]
    BY <1>2 DEF RemovesInTurn
  <1>10. QED BY <1>7, <1>8, <1>9 DEF Good, IsLeft

\* Remove of a value: only when it takes the last pair does it leave a dangling
\* chain.
LEMMA RemoveAllKeeps ==
  ASSUME NEW d, NEW ps, Sound(d, ps), NEW v
  PROVE  LET e == Ordered!RemoveKeys(d, Ordered!KeysOf(d, v))
             qs == Ordered!RefRemoveAll(ps, v)
             gone == {Ordered!KeysOf(d, v)[i] : i \in DOMAIN Ordered!KeysOf(d, v)}
         IN  /\ ps # <<>> /\ ps[Len(ps)][1] \in gone => Held(e, qs)
             /\ ~ (ps # <<>> /\ ps[Len(ps)][1] \in gone) => Sound(e, qs)
  <1> DEFINE ks == Ordered!KeysOf(d, v)
             e == Ordered!RemoveKeys(d, ks)
             qs == Ordered!RefRemoveAll(ps, v)
             gone == {ks[i] : i \in DOMAIN ks}
             set == Ordered!WithValue(ps, {v})
  <1>1. PICK N, n, c : Row(d, N, ps, n, c) /\ Ends(d, n, c)
    BY DEF Sound
  <1>2. n \in Nat /\ Len(ps) = n /\ DOMAIN ps = 1 .. n
    BY <1>1, RowFacts
  <1>14. ps = <<>> <=> n = 0
    BY <1>1, <1>2, RowFacts
  <1>3. Ordered!ByLink(d) = ps
    BY <1>1, ByLinkIs DEF Ends
  <1>4. set \in SUBSET (1 .. n)
    BY <1>2 DEF Ordered!WithValue
  <1> HIDE DEF set
  <1>5. PICK m \in 0 .. n : \E g : Counts(g, m, set)
    BY <1>2, <1>4, CountsExist
  <1>6. PICK g : Counts(g, m, set)
    BY <1>5
  <1>7. m \in Nat /\ \A i \in 1 .. m : g[i] \in set /\ g[i] \in 1 .. n
    <2>1. m \in Nat
      BY <1>2
    <2>2. g \in [1 .. m -> set]
      BY <1>6 DEF Counts
    <2>3. QED BY <1>4, <2>1, <2>2
  <1>8. Ordered!Selected(ps, set) = Taken(ps, g, m)
    <2>1. set \in SUBSET Nat /\ m \in Nat
      BY <1>4, <1>7
    <2>2. QED BY <1>6, <2>1, SelectedIs
  <1>9. ks = [i \in 1 .. m |-> ps[g[i]][1]]
    <2>1. ks = [i \in DOMAIN Taken(ps, g, m) |-> Taken(ps, g, m)[i][1]]
      BY <1>3, <1>8 DEF Ordered!KeysOf, set
    <2>2. DOMAIN Taken(ps, g, m) = 1 .. m /\ \A i \in 1 .. m : Taken(ps, g, m)[i] = ps[g[i]]
      BY DEF Taken
    <2> HIDE DEF ks
    <2>3. QED BY <2>1, <2>2
  <1> HIDE DEF ks
  <1>10. DOMAIN ks = 1 .. m /\ Len(ks) = m /\ \A i \in 1 .. m : ks[i] = ps[g[i]][1]
    BY <1>7, <1>9
  <1>11. PICK p, f : IsLeft(e, ps, n, set, f, p)
    BY <1>1, <1>4, <1>6, <1>7, <1>10, RemovesAll
  <1>12. qs = Taken(ps, f, p)
    <2> DEFINE rest == (1 .. n) \ set
    <2>1. rest \in SUBSET Nat /\ p \in Nat /\ Counts(f, p, rest)
      BY <1>11 DEF IsLeft
    <2>2. qs = Ordered!Selected(ps, rest)
      BY <1>2 DEF Ordered!RefRemoveAll, set
    <2> HIDE DEF rest, qs
    <2>3. QED BY <2>1, <2>2, SelectedIs
  <1>13. ps # <<>> /\ ps[Len(ps)][1] \in gone <=> n \in set
    <2>1. ASSUME n \in set PROVE ps # <<>> /\ ps[Len(ps)][1] \in gone
      <3>1. PICK i \in 1 .. m : g[i] = n
        BY <1>6, <2>1 DEF Counts
      <3>2. ks[i] = ps[n][1] /\ i \in DOMAIN ks /\ n # 0
        BY <1>4, <1>10, <2>1, <3>1
      <3>3. QED BY <1>2, <1>14, <3>2
    <2>2. ASSUME ps # <<>>, ps[Len(ps)][1] \in gone PROVE n \in set
      <3>1. PICK i \in 1 .. m : ps[g[i]][1] = ps[n][1]
        BY <1>2, <1>10, <2>2
      <3>2. n \in 1 .. n
        BY <1>2, <1>14, <2>2
      <3>3. g[i] = n
        BY <1>1, <1>7, <3>1, <3>2 DEF Row, PairRow
      <3>4. QED BY <1>7, <3>3
    <2>3. QED BY <2>1, <2>2
  <1> HIDE DEF e, qs, gone
  <1>15. (n \notin set => Sound(e, qs)) /\ (n \in set => Held(e, qs))
    BY <1>11, <1>12 DEF IsLeft
  <1>16. QED BY <1>13, <1>15 DEF e, qs, gone, ks

-----------------------------------------------------------------------------
(* Pop.                                                                    *)

LEMMA PopKeeps ==
  ASSUME NEW d, NEW ps, Sound(d, ps), ~ Ordered!PopPanics(d)
  PROVE  Sound(Ordered!PopLast(d), [i \in 1 .. Len(ps) - 1 |-> ps[i]])
  <1> DEFINE e == Ordered!PopLast(d)
             qs == [i \in 1 .. Len(ps) - 1 |-> ps[i]]
  <1>1. PICK N, n, c : Row(d, N, ps, n, c) /\ Ends(d, n, c)
    BY DEF Sound
  <1>2. /\ N \in Nat /\ n \in Nat /\ n < N /\ Len(ps) = n /\ ps = [i \in 1 .. n |-> ps[i]]
        /\ d.next \in [1 .. N -> 0 .. N] /\ d.prevchain \in [Keys -> 0 .. N]
        /\ d.headchain = 1 /\ d.tailchain \in 0 .. N
        /\ c \in [0 .. n -> 1 .. N] /\ c[0] = 1
    BY <1>1, RowFacts
  <1>3. d \in Dicts(N)
    BY <1>1 DEF Row
  <1>4. CASE n = 0
    <2>1. d.tailchain = 0
      BY <1>1, <1>2, <1>4 DEF Ends, Ordered!PopPanics
    <2>2. e = d
      BY <2>1 DEF Ordered!PopLast
    <2>3. qs = ps
      <3>1. 1 .. Len(ps) - 1 = 1 .. n
        BY <1>2, <1>4
      <3>2. QED BY <1>2, <3>1
    <2> HIDE DEF e, qs
    <2>4. Sound(e, qs)
      BY <2>2, <2>3
    <2>5. QED BY <2>4 DEF e, qs
  <1>5. CASE n # 0
    <2>1. n \in 1 .. n /\ n \in 0 .. n /\ n - 1 \in 0 .. n /\ ~ (n < n)
      BY <1>2, <1>5
    <2> DEFINE k == ps[n][1]
               p == c[n - 1]
               back == [d.prevchain EXCEPT ![k] = 0]
               next == [d.next EXCEPT ![p] = 0]
               tail == IF p # 1 THEN p ELSE 0
    <2>2. k \in Keys /\ p \in 1 .. N /\ c[n] \in 1 .. N /\ d.key[c[n]] = k /\ d.prevchain[k] = p
      BY <1>1, <2>1, PairParts
    <2>3. d.tailchain = c[n] /\ c[n] # 0
      BY <1>1, <1>2, <1>5, <2>2 DEF Ends
    <2> HIDE DEF k, p
    <2>4. e = [d EXCEPT !.next = next, !.prevchain = back, !.tailchain = tail]
      BY <1>2, <2>2, <2>3 DEF Ordered!PopLast
    <2>5. 0 \in 0 .. N /\ tail \in 0 .. N
      BY <1>2, <2>2
    <2>6. next \in [1 .. N -> 0 .. N] /\ next[p] = 0 /\ (\A x \in 1 .. N : x # p => next[x] = d.next[x])
      BY <1>2, <2>2, <2>5
    <2>7. back \in [Keys -> 0 .. N] /\ back[k] = 0 /\ (\A l \in Keys : l # k => back[l] = d.prevchain[l])
      BY <1>2, <2>2, <2>5
    <2> HIDE DEF e, back, next, tail
    <2>8. /\ e \in Dicts(N) /\ e.key = d.key /\ e.value = d.value /\ e.next = next
          /\ e.prevchain = back /\ e.tailchain = tail
      BY <1>3, <2>4, <2>5, <2>6, <2>7 DEF Dicts
    <2>9. IsCutOut(e, d, N, ps, n, c, n)
      BY <2>1, <2>6, <2>7, <2>8 DEF IsCutOut, k, p
    <2> DEFINE b == NodesWithout(c, n, n)
               m == n - 1
    <2>10. Row(e, N, Without(ps, n, n), m, b)
      BY <1>1, <2>1, <2>9, CutKeepsRow
    <2>11. Without(ps, n, n) = qs
      BY <1>2 DEF Without
    <2>12. b[m] = p /\ m \in Nat /\ (m = 0 => p = 1)
      BY <1>2, <2>1 DEF NodesWithout, p
    <2>13. m # 0 => p # 1
      BY <1>1, <1>2, <2>1 DEF Row, Places, p
    <2> HIDE DEF b, m, qs
    <2>14. Ends(e, m, b)
      BY <2>6, <2>8, <2>12, <2>13 DEF Ends, tail
    <2>15. Sound(e, qs)
      BY <2>10, <2>11, <2>14 DEF Sound
    <2>16. QED BY <2>15 DEF e, qs
  <1>6. QED BY <1>4, <1>5

-----------------------------------------------------------------------------
(* A dictionary rebuilt from its pairs.                                    *)

LEMMA RebuiltIs ==
  ASSUME NEW n \in Nat, NEW ps, PairRow(ps, n)
  PROVE  LET c == [i \in 0 .. n |-> i + 1]
         IN  /\ Row(Ordered!Rebuilt(ps), n + 1, ps, n, c)
             /\ Ends(Ordered!Rebuilt(ps), n, c)
  <1> DEFINE N == n + 1
             c == [i \in 0 .. n |-> i + 1]
             e == Ordered!Rebuilt(ps)
             key == [i \in 1 .. n + 1 |-> IF i = 1 THEN None ELSE ps[i - 1][1]]
             value == [i \in 1 .. n + 1 |-> IF i = 1 THEN None ELSE ps[i - 1][2]]
             next == [i \in 1 .. n + 1 |-> IF i <= n THEN i + 1 ELSE 0]
             place(k) == {i \in 1 .. n : ps[i][1] = k}
             back == [k \in Keys |-> IF place(k) = {} THEN 0 ELSE CHOOSE i \in place(k) : TRUE]
  <1>1. ps \in [1 .. n -> Keys \X Numbers] /\ Len(ps) = n /\ DOMAIN ps = 1 .. n
    BY LenIs DEF PairRow
  <1>2. e = [key |-> key, value |-> value, next |-> next, prevchain |-> back, headchain |-> 1, tailchain |-> n + 1]
    BY <1>1 DEF Ordered!Rebuilt
  <1>3. \A i \in 1 .. n : ps[i][1] \in Keys /\ ps[i][2] \in Numbers /\ ps[i] = <<ps[i][1], ps[i][2]>>
    BY <1>1
  <1>4. \A i \in 1 .. n + 1 : i = 1 \/ i - 1 \in 1 .. n
    OBVIOUS
  <1>5. key \in [1 .. N -> Keys \cup {None}] /\ value \in [1 .. N -> Numbers \cup {None}]
    BY <1>3, <1>4
  <1>6. next \in [1 .. N -> 0 .. N]
    <2>1. \A i \in 1 .. n + 1 : next[i] \in 0 .. N
      OBVIOUS
    <2>2. QED BY <2>1
  <1>7. \A i \in 1 .. n : back[ps[i][1]] = i
    <2>1. ASSUME NEW i \in 1 .. n PROVE place(ps[i][1]) = {i}
      BY DEF PairRow
    <2> HIDE DEF place
    <2>2. QED BY <1>3, <2>1
  <1>8. \A k \in Keys : back[k] # 0 => \E i \in 1 .. n : ps[i][1] = k
    <2>1. \A k \in Keys : back[k] # 0 => place(k) # {}
      <3> HIDE DEF place
      <3>1. QED OBVIOUS
    <2> HIDE DEF back
    <2>2. QED BY <2>1
  <1>9. back \in [Keys -> 0 .. N]
    <2>1. ASSUME NEW k \in Keys PROVE back[k] \in 0 .. N
      <3>1. CASE place(k) = {}
        BY <3>1
      <3>2. CASE place(k) # {}
        <4>1. PICK i \in 1 .. n : ps[i][1] = k
          BY <3>2
        <4>2. back[k] = i
          BY <1>7, <4>1
        <4> HIDE DEF back
        <4>3. QED BY <4>2
      <3>3. QED BY <3>1, <3>2
    <2>2. QED BY <2>1
  <1>10. \A i \in 1 .. n : i + 1 \in 1 .. n + 1 /\ i + 1 # 1 /\ (i + 1) - 1 = i /\ i \in 1 .. n + 1
    OBVIOUS
  <1>11. \A i \in 1 .. n : key[i + 1] = ps[i][1] /\ value[i + 1] = ps[i][2] /\ next[i] = i + 1
    BY <1>10
  <1>12. next[n + 1] = 0
    OBVIOUS
  <1>13. \A i \in 1 .. n : c[i] = i + 1 /\ c[i - 1] = i
    OBVIOUS
  <1>14. c[n] = n + 1
    OBVIOUS
  <1>15. Places(c, N, n)
    BY DEF Places
  <1> HIDE DEF key, value, next, back, c
  <1>16. /\ e.key = key /\ e.value = value /\ e.next = next /\ e.prevchain = back
         /\ e.headchain = 1 /\ e.tailchain = N
    BY <1>2
  <1>17. e \in Dicts(N)
    <2>1. n + 1 \in 0 .. N
      OBVIOUS
    <2> HIDE DEF N
    <2>2. QED BY <1>2, <1>5, <1>6, <1>9, <2>1 DEF Dicts
  <1> HIDE DEF e
  <1>18. Linked(e, ps, n, c)
    BY <1>7, <1>8, <1>11, <1>13, <1>16 DEF Linked
  <1>19. N \in Nat /\ n < N /\ (n = 0 => N = 1)
    OBVIOUS
  <1>20. Ends(e, n, c)
    BY <1>12, <1>14, <1>16 DEF Ends
  <1> HIDE DEF N
  <1>21. Row(e, N, ps, n, c)
    BY <1>15, <1>17, <1>18, <1>19 DEF Row
  <1>22. QED BY <1>20, <1>21 DEF e, c, N

LEMMA RebuiltIsSound ==
  ASSUME NEW n \in Nat, NEW ps, PairRow(ps, n)
  PROVE  Sound(Ordered!Rebuilt(ps), ps)
  BY RebuiltIs DEF Sound

\* A new one is empty, and has no tail.
LEMMA NewIsSound == Sound(Ordered!NewOrderedDict, <<>>)
  <1> DEFINE d == Ordered!Rebuilt(<<>>)
             e == [d EXCEPT !.tailchain = 0]
             z == 0
             c == [i \in 0 .. z |-> i + 1]
             N == z + 1
  <1>1. PairRow(<<>>, z)
    BY DEF PairRow
  <1>2. z \in Nat
    OBVIOUS
  <1>3. e = Ordered!NewOrderedDict
    BY DEF Ordered!NewOrderedDict
  <1>4. z = 0 /\ 0 \in 0 .. N
    OBVIOUS
  <1> HIDE DEF z, d
  <1>5. Row(d, N, <<>>, z, c) /\ Ends(d, z, c)
    BY <1>1, <1>2, RebuiltIs DEF d
  <1> HIDE DEF c, N
  <1>6. d \in Dicts(N)
    BY <1>5 DEF Row
  <1>7. e \in Dicts(N) /\ e.key = d.key /\ e.value = d.value /\ e.next = d.next /\ e.prevchain = d.prevchain
        /\ e.tailchain = 0
    BY <1>4, <1>6 DEF Dicts
  <1> HIDE DEF e
  <1>8. Row(e, N, <<>>, z, c) /\ Ends(e, z, c)
    BY <1>4, <1>5, <1>7 DEF Row, Linked, Ends
  <1>9. QED BY <1>3, <1>8 DEF Sound

\* A sound chain is a row of distinct pairs.
LEMMA SoundHasRow ==
  ASSUME NEW d, NEW ps, Sound(d, ps) \/ Held(d, ps)
  PROVE  \E n \in Nat : PairRow(ps, n)
  BY DEF Sound, Held, Row

-----------------------------------------------------------------------------
(* Reverse.                                                                *)

\* What Reverse begins with.
Unturned(d) == [next |-> d.next, back |-> d.prevchain, cur |-> d.tailchain, prev |-> d.headchain]

TurnsInTurn(a, d, n) ==
    /\ Ordered!ReverseChain(d) = [d EXCEPT !.next = a[n].next, !.prevchain = a[n].back]
    /\ a[0] = Unturned(d)
    /\ \A i \in 1 .. n : a[i] = Ordered!Relink(d, a[i - 1])

LEMMA ReverseStep ==
  ASSUME NEW n \in Nat, NEW d, Ordered!LenOf(d) = n, 1 < n
  PROVE  \E a : TurnsInTurn(a, d, n)
  <1> DEFINE first == Unturned(d)
             Is(g, h) == \A i \in 0 .. h : g[i] = IF i = 0 THEN first ELSE Ordered!Relink(d, g[i - 1])
  <1> HIDE DEF first
  <1>1. \E g : g = [i \in 0 .. n |-> g[i]] /\ Is(g, n)
    <2> DEFINE T == {h \in Nat : h <= n => \E g : g = [i \in 0 .. n |-> g[i]] /\ Is(g, h)}
    <2>1. 0 \in T
      <3> DEFINE g == [i \in 0 .. n |-> first]
      <3>1. g = [i \in 0 .. n |-> g[i]] /\ Is(g, 0)
        OBVIOUS
      <3>2. QED BY <3>1
    <2>2. ASSUME NEW h \in T PROVE h + 1 \in T
      <3>1. SUFFICES ASSUME h + 1 <= n PROVE \E g : g = [i \in 0 .. n |-> g[i]] /\ Is(g, h + 1)
        OBVIOUS
      <3>2. h \in Nat /\ h <= n /\ h + 1 \in 0 .. n
        BY <3>1
      <3>3. PICK g : g = [i \in 0 .. n |-> g[i]] /\ Is(g, h)
        BY <3>2
      <3> DEFINE b == [i \in 0 .. n |-> IF i = h + 1 THEN Ordered!Relink(d, g[h]) ELSE g[i]]
      <3>4. b = [i \in 0 .. n |-> b[i]]
        OBVIOUS
      <3>5. \A i \in 0 .. n : i # h + 1 => b[i] = g[i]
        OBVIOUS
      <3>6. b[h + 1] = Ordered!Relink(d, g[h])
        BY <3>2
      <3> HIDE DEF b
      <3>7. ASSUME NEW i \in 0 .. (h + 1) PROVE b[i] = IF i = 0 THEN first ELSE Ordered!Relink(d, b[i - 1])
        <4>1. CASE i = h + 1
          <5>1. i # 0 /\ i - 1 = h /\ h \in 0 .. n /\ h # h + 1
            BY <3>2, <4>1
          <5>2. QED BY <3>5, <3>6, <4>1, <5>1
        <4>2. CASE i # h + 1
          <5>1. i \in 0 .. h /\ i \in 0 .. n /\ (i # 0 => i - 1 \in 0 .. n /\ i - 1 # h + 1)
            BY <3>2, <4>2
          <5>2. g[i] = IF i = 0 THEN first ELSE Ordered!Relink(d, g[i - 1])
            BY <3>3, <5>1
          <5>3. QED BY <3>5, <4>2, <5>1, <5>2
        <4>3. QED BY <4>1, <4>2
      <3>8. Is(b, h + 1)
        BY <3>7
      <3>9. QED BY <3>4, <3>8
    <2> HIDE DEF T
    <2>3. T \in SUBSET Nat
      BY DEF T
    <2>4. \A h \in Nat : h \in T
      BY <2>1, <2>2, <2>3, Induction
    <2>5. QED BY <2>4 DEF T
  <1> DEFINE upto[i \in 0 .. n] == IF i = 0 THEN first ELSE Ordered!Relink(d, upto[i - 1])
  <1>2. \A i \in 0 .. n : upto[i] = IF i = 0 THEN first ELSE Ordered!Relink(d, upto[i - 1])
    <2>1. PICK g : g = [i \in 0 .. n |-> g[i]] /\ Is(g, n)
      BY <1>1
    <2>2. g = [i \in 0 .. n |-> IF i = 0 THEN first ELSE Ordered!Relink(d, g[i - 1])]
      BY <2>1
    <2>3. upto = [i \in 0 .. n |-> IF i = 0 THEN first ELSE Ordered!Relink(d, upto[i - 1])]
      BY <2>2
    <2> HIDE DEF upto
    <2>4. QED BY <2>3
  <1>3. Ordered!ReverseChain(d) = [d EXCEPT !.next = upto[n].next, !.prevchain = upto[n].back]
    <2>1. ~ (n <= 1)
      OBVIOUS
    <2>2. QED BY <2>1 DEF Ordered!ReverseChain, first, Unturned
  <1> HIDE DEF upto
  <1>4. upto[0] = first /\ \A i \in 1 .. n : upto[i] = Ordered!Relink(d, upto[i - 1])
    BY <1>2
  <1>5. TurnsInTurn(upto, d, n)
    BY <1>3, <1>4 DEF TurnsInTurn, first
  <1>6. QED BY <1>5

\* The nodes from the tail on, behind the sentinel.
Backwards(c, n) == [i \in 0 .. n |-> IF i = 0 THEN 1 ELSE c[n + 1 - i]]

\* After h steps the last h nodes are behind the sentinel, the last one first, and the
\* others can still be reached from their keys.
Turned(s, N, ps, n, c, h) ==
    /\ s.next \in [1 .. N -> 0 .. N]
    /\ s.back \in [Keys -> 0 .. N]
    /\ \A i \in 1 .. h : s.next[Backwards(c, n)[i - 1]] = Backwards(c, n)[i]
    /\ \A i \in 1 .. h : s.back[ps[n + 1 - i][1]] = Backwards(c, n)[i - 1]
    /\ \A i \in 1 .. n - h : s.back[ps[i][1]] = c[i - 1]
    /\ \A l \in Keys : s.back[l] # 0 => \E i \in 1 .. n : ps[i][1] = l
    /\ s.cur = c[n - h]
    /\ s.prev = Backwards(c, n)[h]

LEMMA BackwardsIs ==
  ASSUME NEW N \in Nat, NEW n \in Nat, NEW c, Places(c, N, n)
  PROVE  /\ Places(Backwards(c, n), N, n)
         /\ \A i \in 1 .. n : Backwards(c, n)[i] = c[n + 1 - i]
  <1> DEFINE b == Backwards(c, n)
  <1>1. c \in [0 .. n -> 1 .. N] /\ c[0] = 1 /\ \A i, j \in 0 .. n : c[i] = c[j] => i = j
    BY DEF Places
  <1>2. b[0] = 1
    BY DEF Backwards
  <1>3. \A i \in 1 .. n : b[i] = c[n + 1 - i] /\ n + 1 - i \in 0 .. n /\ n + 1 - i # 0 /\ i \in 0 .. n
    BY DEF Backwards
  <1>4. \A i \in 0 .. n : i = 0 \/ i \in 1 .. n
    OBVIOUS
  <1>5. b = [i \in 0 .. n |-> b[i]]
    BY DEF Backwards
  <1> HIDE DEF b
  <1>6. \A i \in 0 .. n : b[i] \in 1 .. N
    <2>1. 0 \in 0 .. n
      OBVIOUS
    <2>2. 1 \in 1 .. N
      BY <1>1, <2>1
    <2>3. QED BY <1>1, <1>2, <1>3, <1>4, <2>2
  <1>7. b \in [0 .. n -> 1 .. N]
    BY <1>5, <1>6
  <1>8. \A i \in 1 .. n : b[i] # 1
    <2>1. 0 \in 0 .. n
      OBVIOUS
    <2>2. QED BY <1>1, <1>3, <2>1
  <1>9. ASSUME NEW i \in 1 .. n, NEW j \in 1 .. n, b[i] = b[j] PROVE i = j
    <2>1. n + 1 - i = n + 1 - j
      BY <1>1, <1>3, <1>9
    <2>2. QED BY <2>1
  <1>10. Places(b, N, n)
    BY <1>2, <1>4, <1>7, <1>8, <1>9 DEF Places
  <1>11. QED BY <1>3, <1>10 DEF b

LEMMA RelinkTurns ==
  ASSUME NEW d, NEW N, NEW ps, NEW n, NEW c, Row(d, N, ps, n, c),
         NEW h \in 1 .. n, NEW s, Turned(s, N, ps, n, c, h - 1)
  PROVE  Turned(Ordered!Relink(d, s), N, ps, n, c, h)
  <1> DEFINE b == Backwards(c, n)
             m == n + 1 - h
             k == ps[m][1]
             t == Ordered!Relink(d, s)
  <1>1. N \in Nat /\ n \in Nat /\ c \in [0 .. n -> 1 .. N] /\ c[0] = 1
    BY RowFacts
  <1>2. Places(b, N, n) /\ \A i \in 1 .. n : b[i] = c[n + 1 - i]
    BY <1>1, BackwardsIs DEF Row
  <1>3. m \in 1 .. n /\ m = n - (h - 1) /\ m - 1 = n - h /\ m \in 1 .. n - (h - 1) /\ h - 1 \in 0 .. n /\ h \in 0 .. n
    BY <1>1
  <1>4. s.cur = c[m] /\ s.prev = b[h - 1] /\ b[h] = c[m]
    BY <1>2, <1>3 DEF Turned
  <1>5. /\ s.next \in [1 .. N -> 0 .. N] /\ s.back \in [Keys -> 0 .. N]
        /\ \A i \in 1 .. h - 1 : s.next[b[i - 1]] = b[i]
        /\ \A i \in 1 .. h - 1 : s.back[ps[n + 1 - i][1]] = b[i - 1]
        /\ \A i \in 1 .. n - (h - 1) : s.back[ps[i][1]] = c[i - 1]
        /\ \A l \in Keys : s.back[l] # 0 => \E i \in 1 .. n : ps[i][1] = l
    BY DEF Turned
  <1> HIDE DEF m
  <1>6. d.key[c[m]] = k /\ k \in Keys /\ c[m] \in 1 .. N
    BY <1>3, PairParts
  <1>7. b \in [0 .. n -> 1 .. N] /\ b[h - 1] \in 1 .. N
    BY <1>2, <1>3 DEF Places
  <1> HIDE DEF b, k
  <1>8. /\ t.next = [s.next EXCEPT ![b[h - 1]] = c[m]]
        /\ t.back = [s.back EXCEPT ![k] = b[h - 1]]
        /\ t.cur = s.back[k]
        /\ t.prev = c[m]
    BY <1>4, <1>6 DEF Ordered!Relink
  <1> HIDE DEF t
  <1>9. s.back[k] = c[m - 1]
    BY <1>3, <1>5 DEF k
  <1>10. t.next \in [1 .. N -> 0 .. N] /\ t.back \in [Keys -> 0 .. N]
    <2>1. c[m] \in 0 .. N /\ b[h - 1] \in 0 .. N
      BY <1>1, <1>6, <1>7
    <2>2. t.next \in [1 .. N -> 0 .. N]
      <3> DEFINE x == b[h - 1]
                 y == c[m]
                 next == s.next
      <3>1. y \in 0 .. N /\ t.next = [next EXCEPT ![x] = y] /\ next \in [1 .. N -> 0 .. N]
        BY <1>5, <1>8, <2>1
      <3> HIDE DEF x, y, next
      <3>2. QED BY <3>1
    <2>3. t.back \in [Keys -> 0 .. N]
      <3> DEFINE y == b[h - 1]
                 back == s.back
      <3>1. y \in 0 .. N /\ t.back = [back EXCEPT ![k] = y] /\ back \in [Keys -> 0 .. N]
        BY <1>5, <1>8, <2>1
      <3> HIDE DEF y, back
      <3>2. QED BY <3>1
    <2>4. QED BY <2>2, <2>3
  <1>11. \A x \in 1 .. N : t.next[x] = IF x = b[h - 1] THEN c[m] ELSE s.next[x]
    BY <1>5, <1>8
  <1>12. \A l \in Keys : t.back[l] = IF l = k THEN b[h - 1] ELSE s.back[l]
    BY <1>5, <1>8
  <1>13. ASSUME NEW i \in 1 .. h PROVE t.next[b[i - 1]] = b[i] /\ t.back[ps[n + 1 - i][1]] = b[i - 1]
    <2>1. i - 1 \in 0 .. n /\ b[i - 1] \in 1 .. N
      BY <1>1, <1>7
    <2>2. CASE i = h
      <3>1. ps[n + 1 - i][1] = k
        BY <2>2 DEF k, m
      <3>2. QED BY <1>4, <1>6, <1>11, <1>12, <2>1, <2>2, <3>1
    <2>3. CASE i # h
      <3>1. i \in 1 .. h - 1 /\ i - 1 # h - 1 /\ n + 1 - i \in 1 .. n /\ n + 1 - i # m
        BY <1>1, <2>3 DEF m
      <3>2. b[i - 1] # b[h - 1]
        BY <1>2, <1>3, <2>1, <3>1 DEF Places
      <3>3. t.next[b[i - 1]] = b[i]
        BY <1>5, <1>11, <2>1, <3>1, <3>2
      <3> DEFINE x == n + 1 - i
      <3>4. x \in 1 .. n /\ x # m /\ s.back[ps[x][1]] = b[i - 1]
        BY <1>5, <3>1
      <3> HIDE DEF x
      <3>5. ps[x][1] \in Keys /\ ps[x][1] # k
        <4>1. ps[x][1] \in Keys
          BY <3>4, PairParts
        <4>2. QED BY <1>3, <3>4, <4>1 DEF Row, PairRow, k
      <3>6. t.back[ps[x][1]] = b[i - 1]
        BY <1>12, <3>4, <3>5
      <3>7. QED BY <3>3, <3>6 DEF x
    <2>4. QED BY <2>2, <2>3
  <1>14. ASSUME NEW i \in 1 .. n - h PROVE t.back[ps[i][1]] = c[i - 1]
    <2>1. i \in 1 .. n - (h - 1) /\ i \in 1 .. n /\ i # m
      BY <1>1 DEF m
    <2>2. ps[i][1] \in Keys
      BY <2>1, PairParts
    <2>3. ps[i][1] # k
      BY <1>3, <2>1 DEF Row, PairRow, k
    <2>4. QED BY <1>5, <1>12, <2>1, <2>2, <2>3
  <1>15. ASSUME NEW l \in Keys, t.back[l] # 0 PROVE \E i \in 1 .. n : ps[i][1] = l
    <2>1. CASE l = k
      BY <1>3, <2>1 DEF k
    <2>2. CASE l # k
      BY <1>5, <1>12, <1>15, <2>2
    <2>3. QED BY <2>1, <2>2
  <1>16. t.cur = c[n - h] /\ t.prev = b[h]
    BY <1>3, <1>4, <1>8, <1>9
  <1>17. QED BY <1>10, <1>13, <1>14, <1>15, <1>16 DEF Turned, b, t

LEMMA ReverseKeeps ==
  ASSUME NEW d, NEW ps, Sound(d, ps)
  PROVE  LET qs == [i \in DOMAIN ps |-> ps[Len(ps) + 1 - i]]
         IN  /\ Len(ps) > 1 => Held(Ordered!ReverseChain(d), qs)
             /\ ~ (Len(ps) > 1) => Sound(Ordered!ReverseChain(d), qs)
  <1> DEFINE e == Ordered!ReverseChain(d)
             qs == [i \in DOMAIN ps |-> ps[Len(ps) + 1 - i]]
  <1>1. PICK N, n, c : Row(d, N, ps, n, c) /\ Ends(d, n, c)
    BY DEF Sound
  <1>2. /\ N \in Nat /\ n \in Nat /\ n < N /\ Len(ps) = n /\ DOMAIN ps = 1 .. n
        /\ ps \in [1 .. n -> Keys \X Numbers] /\ d.headchain = 1
        /\ d.next \in [1 .. N -> 0 .. N] /\ d.prevchain \in [Keys -> 0 .. N]
        /\ c \in [0 .. n -> 1 .. N] /\ c[0] = 1
    BY <1>1, RowFacts
  <1>3. Ordered!LenOf(d) = n
    BY <1>1, LenOfIs
  <1>4. qs = [i \in 1 .. n |-> ps[n + 1 - i]]
    BY <1>2
  <1> HIDE DEF qs
  <1>5. ASSUME ~ (n > 1) PROVE Sound(e, qs)
    <2>1. e = d
      BY <1>2, <1>3, <1>5 DEF Ordered!ReverseChain
    <2>2. qs = ps
      <3>1. \A i \in 1 .. n : n + 1 - i = i
        BY <1>2, <1>5
      <3>2. ps = [i \in 1 .. n |-> ps[i]]
        BY <1>2
      <3>3. QED BY <1>4, <3>1, <3>2
    <2> HIDE DEF e
    <2>3. QED BY <2>1, <2>2
  <1>6. ASSUME n > 1 PROVE Held(e, qs)
    <2>1. PICK a : TurnsInTurn(a, d, n)
      <3>1. 1 < n
        BY <1>2, <1>6
      <3>2. QED BY <1>2, <1>3, <3>1, ReverseStep
    <2> DEFINE b == Backwards(c, n)
    <2>2. Places(b, N, n) /\ \A i \in 1 .. n : b[i] = c[n + 1 - i]
      BY <1>1, <1>2, BackwardsIs DEF Row
    <2>3. Turned(a[0], N, ps, n, c, 0)
      <3>1. a[0].next = d.next /\ a[0].back = d.prevchain /\ a[0].cur = c[n] /\ a[0].prev = 1
        BY <1>1, <1>2, <1>6, <2>1 DEF TurnsInTurn, Unturned, Ends
      <3>2. \A i \in 1 .. n : d.prevchain[ps[i][1]] = c[i - 1]
        BY <1>1, PairParts
      <3>3. \A l \in Keys : d.prevchain[l] # 0 => \E i \in 1 .. n : ps[i][1] = l
        BY <1>1 DEF Row, Linked
      <3>4. b[0] = 1 /\ n - 0 = n
        BY <1>2 DEF Backwards
      <3>5. QED BY <1>2, <3>1, <3>2, <3>3, <3>4 DEF Turned
    <2>4. ASSUME NEW h \in 1 .. n, Turned(a[h - 1], N, ps, n, c, h - 1) PROVE Turned(a[h], N, ps, n, c, h)
      <3>1. a[h] = Ordered!Relink(d, a[h - 1])
        BY <2>1 DEF TurnsInTurn
      <3> DEFINE s == a[h - 1]
      <3>2. Turned(s, N, ps, n, c, h - 1)
        BY <2>4
      <3> HIDE DEF s
      <3>3. Turned(Ordered!Relink(d, s), N, ps, n, c, h)
        BY <1>1, <3>2, RelinkTurns
      <3>4. QED BY <3>1, <3>3 DEF s
    <2>5. Turned(a[n], N, ps, n, c, n)
      <3> DEFINE T == {h \in Nat : h <= n => Turned(a[h], N, ps, n, c, h)}
      <3>1. 0 \in T
        BY <2>3
      <3>2. ASSUME NEW h \in T PROVE h + 1 \in T
        <4>1. SUFFICES ASSUME h + 1 <= n PROVE Turned(a[h + 1], N, ps, n, c, h + 1)
          OBVIOUS
        <4> DEFINE x == h + 1
        <4>2. x \in 1 .. n /\ x - 1 = h /\ Turned(a[h], N, ps, n, c, h)
          BY <1>2, <4>1
        <4> HIDE DEF x
        <4>3. Turned(a[x], N, ps, n, c, x)
          BY <2>4, <4>2
        <4>4. QED BY <4>3 DEF x
      <3> HIDE DEF T
      <3>3. T \in SUBSET Nat
        BY DEF T
      <3>4. \A h \in Nat : h \in T
        BY <3>1, <3>2, <3>3, Induction
      <3>5. QED BY <1>2, <3>4 DEF T
    <2> DEFINE next == a[n].next
               back == a[n].back
    <2>6. e = [d EXCEPT !.next = next, !.prevchain = back]
      BY <2>1 DEF TurnsInTurn
    <2>7. /\ next \in [1 .. N -> 0 .. N] /\ back \in [Keys -> 0 .. N]
          /\ \A i \in 1 .. n : next[b[i - 1]] = b[i] /\ back[ps[n + 1 - i][1]] = b[i - 1]
          /\ \A l \in Keys : back[l] # 0 => \E i \in 1 .. n : ps[i][1] = l
      BY <2>5 DEF Turned
    <2> HIDE DEF e, next, back, b
    <2>8. /\ e \in Dicts(N) /\ e.key = d.key /\ e.value = d.value /\ e.next = next
          /\ e.prevchain = back
      <3>1. d \in Dicts(N)
        BY <1>1 DEF Row
      <3>2. QED BY <2>6, <2>7, <3>1 DEF Dicts
    <2>9. \A i \in 1 .. n : qs[i] = ps[n + 1 - i] /\ n + 1 - i \in 1 .. n /\ n + 1 - (n + 1 - i) = i
      BY <1>2, <1>4
    <2>10. PairRow(qs, n)
      <3>1. ASSUME NEW i \in 1 .. n PROVE qs[i] \in Keys \X Numbers
        <4> DEFINE x == n + 1 - i
        <4>1. x \in 1 .. n /\ qs[i] = ps[x]
          BY <2>9
        <4> HIDE DEF x
        <4>2. QED BY <1>2, <4>1
      <3>2. qs \in [1 .. n -> Keys \X Numbers]
        BY <1>4, <3>1
      <3>3. ASSUME NEW i \in 1 .. n, NEW j \in 1 .. n, qs[i][1] = qs[j][1] PROVE i = j
        <4>1. n + 1 - i = n + 1 - j
          BY <1>1, <2>9, <3>3 DEF Row, PairRow
        <4>2. QED BY <1>2, <4>1
      <3>4. QED BY <3>2, <3>3 DEF PairRow
    <2>11. Linked(e, qs, n, b)
      <3>1. ASSUME NEW i \in 1 .. n
            PROVE  /\ e.next[b[i - 1]] = b[i] /\ e.key[b[i]] = qs[i][1] /\ e.value[b[i]] = qs[i][2]
                   /\ e.prevchain[qs[i][1]] = b[i - 1]
        <4> DEFINE x == n + 1 - i
        <4>1. x \in 1 .. n /\ qs[i] = ps[x] /\ b[i] = c[x]
          BY <2>2, <2>9
        <4> HIDE DEF x
        <4>2. d.key[c[x]] = ps[x][1] /\ d.value[c[x]] = ps[x][2]
          BY <1>1, <4>1, PairParts
        <4>3. e.key[b[i]] = qs[i][1] /\ e.value[b[i]] = qs[i][2]
          BY <2>8, <4>1, <4>2
        <4>4. QED BY <2>7, <2>8, <2>9, <4>3
      <3>2. ASSUME NEW l \in Keys, e.prevchain[l] # 0 PROVE \E i \in 1 .. n : qs[i][1] = l
        <4>1. PICK j \in 1 .. n : ps[j][1] = l
          BY <2>7, <2>8, <3>2
        <4> DEFINE i == n + 1 - j
        <4>2. i \in 1 .. n /\ n + 1 - i = j
          BY <2>9
        <4> HIDE DEF i
        <4>3. qs[i] = ps[j]
          BY <2>9, <4>2
        <4>4. QED BY <4>1, <4>2, <4>3
      <3>3. QED BY <3>1, <3>2 DEF Linked
    <2>12. Row(e, N, qs, n, b)
      BY <1>2, <2>2, <2>8, <2>10, <2>11 DEF Row
    <2>13. n # 0
      BY <1>2, <1>6
    <2>14. QED BY <2>12, <2>13 DEF Held
  <1>7. QED BY <1>2, <1>5, <1>6 DEF qs

-----------------------------------------------------------------------------
(* What the readers say.                                                   *)

LEMMA HeldReads ==
  ASSUME NEW d, NEW N, NEW ps, NEW n, NEW c, Row(d, N, ps, n, c)
  PROVE  /\ Ordered!ByCount(d) = ps
         /\ \A k \in Keys :
               /\ Ordered!HasKey(d, k) <=> Ordered!PlaceOf(ps, k) # {}
               /\ Ordered!HasKey(d, k) => <<k, Ordered!GetValue(d, k)>> \in {ps[i] : i \in DOMAIN ps}
  <1>1. Ordered!ByCount(d) = ps
    BY ByCountIs
  <1>2. ASSUME NEW k \in Keys, Ordered!HasKey(d, k)
        PROVE  <<k, Ordered!GetValue(d, k)>> \in {ps[i] : i \in DOMAIN ps}
    <2>1. Ordered!HasKey(d, k)
      BY <1>2
    <2>2. PICK i \in 1 .. n : ps[i][1] = k
      BY <2>1, KeysAreThose
    <2>3. ps[i] = <<k, ps[i][2]>> /\ d.next[c[i - 1]] = c[i] /\ d.value[c[i]] = ps[i][2] /\ d.prevchain[k] = c[i - 1]
      BY <2>2, PairParts
    <2>4. Ordered!GetValue(d, k) = ps[i][2]
      BY <2>1, <2>3 DEF Ordered!GetValue
    <2>5. DOMAIN ps = 1 .. n
      BY RowFacts
    <2>6. QED BY <2>3, <2>4, <2>5
  <1>3. \A k \in Keys : Ordered!HasKey(d, k) <=> Ordered!PlaceOf(ps, k) # {}
    BY KeysAreThose
  <1>4. QED BY <1>1, <1>2, <1>3

\* The first of some places is one of them.
LEMMA FirstIsThere ==
  ASSUME NEW n \in Nat, NEW places \in SUBSET (1 .. n), places # {}
  PROVE  Ordered!First(places) \in places
  <1>1. places \in SUBSET Nat
    OBVIOUS
  <1>2. \E i \in places : \A j \in places : i <= j
    BY <1>1, LeastNumber
  <1>3. QED BY <1>2 DEF Ordered!First

LEMMA SoundReads ==
  ASSUME NEW d, NEW N, NEW ps, NEW n, NEW c, Row(d, N, ps, n, c), Ends(d, n, c), NEW v
  PROVE  /\ Ordered!ByLink(d) = ps
         /\ LET places == Ordered!WithValue(ps, {v})
            IN  /\ Ordered!HasValue(d, v) <=> places # {}
                /\ Ordered!Match(d, {v}) = IF places = {} THEN <<None, None>> ELSE ps[Ordered!First(places)]
  <1> DEFINE places == Ordered!WithValue(ps, {v})
  <1>1. n \in Nat /\ DOMAIN ps = 1 .. n
    BY RowFacts
  <1>2. Ordered!ByLink(d) = ps
    BY ByLinkIs DEF Ends
  <1>3. Ordered!Match(d, {v}) = IF places = {} THEN <<None, None>> ELSE ps[Ordered!First(places)]
    BY <1>2 DEF Ordered!Match
  <1>4. places \in SUBSET (1 .. n)
    BY <1>1 DEF Ordered!WithValue
  <1> HIDE DEF places
  <1>5. Ordered!HasValue(d, v) <=> Ordered!Match(d, {v})[1] # None
    BY DEF Ordered!HasValue, Ordered!KeyOf
  <1>6. CASE places = {}
    <2>1. Ordered!Match(d, {v})[1] = None
      BY <1>3, <1>6
    <2>2. QED BY <1>2, <1>3, <1>5, <1>6, <2>1 DEF places
  <1>7. CASE places # {}
    <2>1. Ordered!First(places) \in 1 .. n
      BY <1>1, <1>4, <1>7, FirstIsThere
    <2>2. ps[Ordered!First(places)][1] \in Keys
      BY <2>1, PairParts
    <2>3. Ordered!Match(d, {v})[1] # None
      BY <1>3, <1>7, <2>2, CollectionsAssumption
    <2>4. QED BY <1>2, <1>3, <1>5, <1>7, <2>3 DEF places
  <1>8. QED BY <1>6, <1>7

-----------------------------------------------------------------------------
(* The invariant.                                                          *)

DictInv ==
    /\ trouble \in {"none", "dangling", "looped", "lost"}
    /\ trouble = "none" => Sound(od, pairs)
    /\ trouble \in {"dangling", "looped"} => Held(od, pairs)

LEMMA DictInvReads ==
  ASSUME DictInv
  PROVE  OrderedDictReads
  <1>1. ASSUME trouble # "lost"
        PROVE  /\ Ordered!ByCount(od) = pairs
               /\ \A k \in Keys :
                     /\ Ordered!HasKey(od, k) <=> Ordered!PlaceOf(pairs, k) # {}
                     /\ Ordered!HasKey(od, k) =>
                           <<k, Ordered!GetValue(od, k)>> \in {pairs[i] : i \in DOMAIN pairs}
    <2>1. PICK N, n, c : Row(od, N, pairs, n, c)
      BY <1>1 DEF DictInv, Sound, Held
    <2>2. QED BY <2>1, HeldReads
  <1>2. ASSUME trouble = "none"
        PROVE  /\ Ordered!ByLink(od) = pairs
               /\ \A v \in Numbers :
                      LET places == Ordered!WithValue(pairs, {v})
                      IN  /\ Ordered!HasValue(od, v) <=> places # {}
                          /\ Ordered!Match(od, {v}) = IF places = {} THEN <<None, None>>
                                                      ELSE pairs[Ordered!First(places)]
    <2>1. PICK N, n, c : Row(od, N, pairs, n, c) /\ Ends(od, n, c)
      BY <1>2 DEF DictInv, Sound
    <2>2. Ordered!ByLink(od) = pairs
      BY <2>1, ByLinkIs DEF Ends
    <2>3. QED BY <2>1, <2>2, SoundReads
  <1>3. QED BY <1>1, <1>2 DEF OrderedDictReads, Ordered!OrderedDictReads

LEMMA DictInit ==
  ASSUME Ordered!Init
  PROVE  DictInv
  BY NewIsSound DEF Ordered!Init, DictInv

\* Set and SetDefault.
LEMMA SetKeepsInv ==
  ASSUME DictInv, trouble # "lost", NEW k \in Keys, NEW v \in Numbers, Ordered!Set(k, v)
  PROVE  DictInv'
  <1>1. /\ od' = Ordered!SetKey(od, k, v)
        /\ pairs' = Ordered!RefSet(pairs, k, v)
        /\ trouble' = IF Ordered!HasKey(od, k) \/ trouble = "none" THEN trouble
                      ELSE IF pairs = <<>> THEN "none" ELSE "lost"
    BY DEF Ordered!Set
  <1>2. CASE trouble = "none"
    <2>1. Sound(od', pairs') /\ trouble' = "none"
      BY <1>1, <1>2, SetKeepsSound DEF DictInv
    <2>2. QED BY <2>1 DEF DictInv
  <1>3. CASE trouble \in {"dangling", "looped"} /\ Ordered!HasKey(od, k)
    <2>1. Held(od', pairs') /\ trouble' \in {"dangling", "looped"}
      BY <1>1, <1>3, SetKeepsHeld DEF DictInv
    <2>2. QED BY <2>1 DEF DictInv
  <1>4. CASE trouble \in {"dangling", "looped"} /\ ~ Ordered!HasKey(od, k) /\ pairs = <<>>
    <2>1. Sound(od', pairs') /\ trouble' = "none"
      BY <1>1, <1>4, SetMends DEF DictInv
    <2>2. QED BY <2>1 DEF DictInv
  <1>5. CASE trouble \in {"dangling", "looped"} /\ ~ Ordered!HasKey(od, k) /\ pairs # <<>>
    <2>1. trouble' = "lost"
      BY <1>1, <1>5
    <2>2. QED BY <2>1 DEF DictInv
  <1>6. QED BY <1>2, <1>3, <1>4, <1>5 DEF DictInv

\* Of a chain that reads well, Sort makes a sound one.
LEMMA SortKeepsInv ==
  ASSUME DictInv, trouble # "lost", NEW by, Ordered!Sort(by)
  PROVE  DictInv'
  <1>1. PICK N, n, c : Row(od, N, pairs, n, c)
    BY DEF DictInv, Sound, Held
  <1>2. Ordered!ByCount(od) = pairs /\ PairRow(pairs, n) /\ n \in Nat /\ DOMAIN pairs = 1 .. n
    BY <1>1, ByCountIs, RowFacts DEF Row
  <1>3. PICK qs \in Ordered!Rearranged(pairs, by) : od' = Ordered!Rebuilt(qs) /\ pairs' = qs /\ trouble' = "none"
    BY <1>2 DEF Ordered!Sort
  <1>4. PICK f \in [1 .. n -> 1 .. n] : /\ qs = [i \in 1 .. n |-> pairs[f[i]]]
                                        /\ \A i, j \in 1 .. n : f[i] = f[j] => i = j
    BY <1>2, <1>3 DEF Ordered!Rearranged
  <1>5. PairRow(qs, n)
    <2>1. \A i \in 1 .. n : f[i] \in 1 .. n /\ qs[i] = pairs[f[i]]
      BY <1>4
    <2>2. qs \in [1 .. n -> Keys \X Numbers]
      <3>1. \A i \in 1 .. n : qs[i] \in Keys \X Numbers
        BY <1>2, <2>1 DEF PairRow
      <3>2. QED BY <1>4, <3>1
    <2>3. ASSUME NEW i \in 1 .. n, NEW j \in 1 .. n, qs[i][1] = qs[j][1] PROVE i = j
      <3> DEFINE x == f[i]
                 y == f[j]
      <3>1. x \in 1 .. n /\ y \in 1 .. n /\ pairs[x][1] = pairs[y][1]
        BY <2>1, <2>3
      <3> HIDE DEF x, y
      <3>2. x = y
        BY <1>2, <3>1 DEF PairRow
      <3>3. f[i] = f[j]
        BY <3>2 DEF x, y
      <3>4. QED BY <1>4, <3>3
    <2>4. QED BY <2>2, <2>3 DEF PairRow
  <1>6. Sound(od', pairs')
    BY <1>2, <1>3, <1>5, RebuiltIsSound
  <1>7. QED BY <1>3, <1>6 DEF DictInv

\* The calls on a sound chain.
LEMMA SoundCallsKeepInv ==
  ASSUME DictInv, trouble = "none",
         \/ \E p, q \in Keys \X Numbers : p[1] # q[1] /\ Ordered!Update(p, q)
         \/ \E k \in Keys : Ordered!RemoveAtKey(k)
         \/ \E v \in Numbers : Ordered!RemoveValue(v)
         \/ Ordered!Pop \/ Ordered!ReverseDict \/ Ordered!Clone \/ Ordered!Transaction
  PROVE  DictInv'
  <1>1. Sound(od, pairs)
    BY DEF DictInv
  <1>2. Ordered!ByLink(od) = pairs
    <2>1. PICK N, n, c : Row(od, N, pairs, n, c) /\ Ends(od, n, c)
      BY <1>1 DEF Sound
    <2>2. QED BY <2>1, ByLinkIs DEF Ends
  <1>3. Sound(Ordered!Rebuilt(Ordered!ByLink(od)), pairs)
    BY <1>1, <1>2, SoundHasRow, RebuiltIsSound
  <1>4. ASSUME NEW p \in Keys \X Numbers, NEW q \in Keys \X Numbers, Ordered!Update(p, q)
        PROVE  DictInv'
    <2>1. p[1] \in Keys /\ p[2] \in Numbers /\ q[1] \in Keys /\ q[2] \in Numbers
      OBVIOUS
    <2>2. /\ od' = Ordered!SetKey(Ordered!SetKey(od, p[1], p[2]), q[1], q[2])
          /\ pairs' = Ordered!RefSet(Ordered!RefSet(pairs, p[1], p[2]), q[1], q[2])
          /\ trouble' = "none"
      BY <1>4 DEF Ordered!Update, Ordered!Call, Ordered!DictIs
    <2>3. Sound(Ordered!SetKey(od, p[1], p[2]), Ordered!RefSet(pairs, p[1], p[2]))
      BY <1>1, <2>1, SetKeepsSound
    <2>4. Sound(od', pairs')
      BY <2>1, <2>2, <2>3, SetKeepsSound
    <2>5. QED BY <2>2, <2>4 DEF DictInv
  <1>5. ASSUME NEW k \in Keys, Ordered!RemoveAtKey(k) PROVE DictInv'
    <2>1. /\ od' = Ordered!RemoveKey(od, k) /\ pairs' = Ordered!RefRemove(pairs, k)
          /\ trouble' = IF pairs # <<>> /\ pairs[Len(pairs)][1] = k THEN "dangling" ELSE "none"
      BY <1>5 DEF Ordered!RemoveAtKey, Ordered!Call, Ordered!DictIs, Ordered!Dangles
    <2>2. /\ pairs # <<>> /\ pairs[Len(pairs)][1] = k => Held(od', pairs')
          /\ ~ (pairs # <<>> /\ pairs[Len(pairs)][1] = k) => Sound(od', pairs')
      BY <1>1, <2>1, RemoveKeeps
    <2>3. QED BY <2>1, <2>2 DEF DictInv
  <1>6. ASSUME NEW v \in Numbers, Ordered!RemoveValue(v) PROVE DictInv'
    <2> DEFINE gone == {Ordered!KeysOf(od, v)[i] : i \in DOMAIN Ordered!KeysOf(od, v)}
    <2>1. /\ od' = Ordered!RemoveKeys(od, Ordered!KeysOf(od, v)) /\ pairs' = Ordered!RefRemoveAll(pairs, v)
          /\ trouble' = IF pairs # <<>> /\ pairs[Len(pairs)][1] \in gone THEN "dangling" ELSE "none"
      BY <1>6 DEF Ordered!RemoveValue, Ordered!Call, Ordered!DictIs, Ordered!Dangles
    <2>2. /\ pairs # <<>> /\ pairs[Len(pairs)][1] \in gone => Held(od', pairs')
          /\ ~ (pairs # <<>> /\ pairs[Len(pairs)][1] \in gone) => Sound(od', pairs')
      BY <1>1, <2>1, RemoveAllKeeps
    <2> HIDE DEF gone
    <2>3. QED BY <2>1, <2>2 DEF DictInv
  <1>7. ASSUME Ordered!Pop PROVE DictInv'
    <2>1. /\ ~ Ordered!PopPanics(od) /\ od' = Ordered!PopLast(od)
          /\ pairs' = [i \in 1 .. Len(pairs) - 1 |-> pairs[i]] /\ trouble' = "none"
      BY <1>7 DEF Ordered!Pop, Ordered!Call, Ordered!DictIs
    <2>2. Sound(od', pairs')
      BY <1>1, <2>1, PopKeeps
    <2>3. QED BY <2>1, <2>2 DEF DictInv
  <1>8. ASSUME Ordered!ReverseDict PROVE DictInv'
    <2>1. /\ od' = Ordered!ReverseChain(od)
          /\ pairs' = [i \in DOMAIN pairs |-> pairs[Len(pairs) + 1 - i]]
          /\ trouble' = IF Len(pairs) > 1 THEN "looped" ELSE "none"
      BY <1>8 DEF Ordered!ReverseDict, Ordered!Call, Ordered!DictIs
    <2>2. (Len(pairs) > 1 => Held(od', pairs')) /\ (~ (Len(pairs) > 1) => Sound(od', pairs'))
      BY <1>1, <2>1, ReverseKeeps
    <2>3. QED BY <2>1, <2>2 DEF DictInv
  <1>9. ASSUME Ordered!Clone PROVE DictInv'
    <2>1. od' = Ordered!Rebuilt(Ordered!ByLink(od)) /\ pairs' = pairs /\ trouble' = "none"
      BY <1>9 DEF Ordered!Clone, Ordered!Call, Ordered!DictIs
    <2>2. QED BY <1>3, <2>1 DEF DictInv
  <1>10. ASSUME Ordered!Transaction PROVE DictInv'
    <2> DEFINE e == Ordered!Rebuilt(Ordered!ByLink(od))
    <2>1. CASE \E k \in Keys, v \in Numbers : /\ Ordered!Call(Ordered!SetKey(e, k, v), Ordered!RefSet(pairs, k, v))
                                             /\ UNCHANGED trouble
      <3>1. PICK k \in Keys, v \in Numbers : /\ od' = Ordered!SetKey(e, k, v)
                                            /\ pairs' = Ordered!RefSet(pairs, k, v)
                                            /\ trouble' = "none"
        BY <2>1 DEF Ordered!Call, Ordered!DictIs
      <3> HIDE DEF e
      <3>2. Sound(od', pairs')
        BY <1>3, <3>1, SetKeepsSound DEF e
      <3>3. QED BY <3>1, <3>2 DEF DictInv
    <2>2. CASE \E k \in Keys : /\ Ordered!Call(Ordered!RemoveKey(e, k), Ordered!RefRemove(pairs, k))
                               /\ trouble' = IF Ordered!Dangles({k}) THEN "dangling" ELSE trouble
      <3>1. PICK k \in Keys :
                /\ od' = Ordered!RemoveKey(e, k) /\ pairs' = Ordered!RefRemove(pairs, k)
                /\ trouble' = IF pairs # <<>> /\ pairs[Len(pairs)][1] = k THEN "dangling" ELSE "none"
        BY <2>2 DEF Ordered!Call, Ordered!DictIs, Ordered!Dangles
      <3> HIDE DEF e
      <3>2. /\ pairs # <<>> /\ pairs[Len(pairs)][1] = k => Held(od', pairs')
            /\ ~ (pairs # <<>> /\ pairs[Len(pairs)][1] = k) => Sound(od', pairs')
        BY <1>3, <3>1, RemoveKeeps DEF e
      <3>3. QED BY <3>1, <3>2 DEF DictInv
    <2>3. QED BY <1>10, <2>1, <2>2 DEF Ordered!Transaction
  <1>11. QED BY <1>4, <1>5, <1>6, <1>7, <1>8, <1>9, <1>10

LEMMA DictInvStep ==
  ASSUME DictInv, Ordered!Next
  PROVE  DictInv'
  <1>1. trouble # "lost" /\ Ordered!Calls
    BY DEF Ordered!Next
  <1>2. CASE \E k \in Keys, v \in Numbers : Ordered!Set(k, v) \/ Ordered!SetDefault(k, v)
    BY <1>1, <1>2, SetKeepsInv DEF Ordered!SetDefault
  <1>3. CASE \/ \E p, q \in Keys \X Numbers : p[1] # q[1] /\ Ordered!Update(p, q)
             \/ \E k \in Keys : Ordered!RemoveAtKey(k)
             \/ \E v \in Numbers : Ordered!RemoveValue(v)
             \/ Ordered!Pop \/ Ordered!ReverseDict \/ Ordered!Clone \/ Ordered!Transaction
    <2>1. trouble = "none"
      BY <1>3 DEF Ordered!Update, Ordered!RemoveAtKey, Ordered!RemoveValue, Ordered!Pop, Ordered!ReverseDict,
                  Ordered!Clone, Ordered!Transaction, Ordered!Call, Ordered!DictIs
    <2>2. QED BY <1>3, <2>1, SoundCallsKeepInv
  <1>4. CASE Ordered!Clear
    BY <1>4, NewIsSound DEF Ordered!Clear, DictInv
  <1>5. CASE \E by \in {1, 2} : Ordered!Sort(by)
    BY <1>1, <1>5, SortKeepsInv
  <1>6. QED BY <1>1, <1>2, <1>3, <1>4, <1>5 DEF Ordered!Calls

LEMMA DictInvHolds == CollectionsSpec => []DictInv
  <1>1. CollectionsInit => DictInv
    BY DictInit DEF CollectionsInit
  <1>2. DictInv /\ [CollectionsNext]_allVars => DictInv'
    <2>1. SUFFICES ASSUME DictInv, [CollectionsNext]_allVars PROVE DictInv'
      OBVIOUS
    <2>2. CASE UNCHANGED ordered
      BY <2>1, <2>2 DEF ordered, DictInv
    <2>3. CASE Ordered!Next
      BY <2>1, <2>3, DictInvStep
    <2>4. QED BY <2>1, <2>2, <2>3 DEF CollectionsNext, allVars, ordered
  <1>3. QED BY <1>1, <1>2, PTL DEF CollectionsSpec

\* An ordered dictionary reads as the pairs that were set, in the order of their keys:
\* Keys, Values, KeysValues, Pairs and HasKey until something is appended behind a
\* dangling or looped chain, Get as long as well on a dictionary that is not a clone
\* (a clone has no ValueGetter), Foreach, Contains, KeysOf and Match on a sound one
\* (ordereddictionary.go:46-268, 386-392, 450-520).
THEOREM OrderedDictAlwaysReads == CollectionsSpec => []OrderedDictReads
  BY DictInvHolds, DictInvReads, PTL
=============================================================================
