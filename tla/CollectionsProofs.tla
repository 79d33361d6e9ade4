--------------------------- MODULE CollectionsProofs ---------------------------
(***************************************************************************)
(* What the collections promise, for any values, capacities, goroutines    *)
(* and collections.                                                        *)
(***************************************************************************)
EXTENDS OrderedDictProofs

-----------------------------------------------------------------------------
(* Numbers.                                                                *)

\* A bounded set of numbers that is not empty has a greatest one.
LEMMA GreatestNumber ==
  ASSUME NEW n \in Nat, NEW T \in SUBSET (0 .. n), T # {}
  PROVE  \E m \in T : \A t \in T : t <= m
  <1> DEFINE S == {n - t : t \in T}
  <1>1. S \in SUBSET Nat /\ S # {}
    <2>1. \A t \in T : n - t \in Nat
      OBVIOUS
    <2>2. QED BY <2>1
  <1>2. PICK s \in S : \A t \in S : s <= t
    <2> HIDE DEF S
    <2>1. QED BY <1>1, LeastNumber
  <1>3. PICK m \in T : s = n - m
    OBVIOUS
  <1>4. ASSUME NEW t \in T PROVE t <= m
    <2>1. n - t \in S
      OBVIOUS
    <2>2. n - m <= n - t
      BY <1>2, <1>3, <2>1
    <2>3. QED BY <2>2
  <1>5. QED BY <1>4

-----------------------------------------------------------------------------
(* Locks.                                                                  *)

Takes == {"R", "W"}

\* The last of the first n operations of m on c is op.
LastOp(m, n, c, op) ==
    \E j \in 1 .. n : m[j] = Locks!Do(op, c) /\ \A k \in (j + 1) .. n : m[k].on # c

\* One operation more is the last on its collection.
LEMMA LastOpNext ==
  ASSUME NEW m, NEW n \in Nat, NEW c, NEW op
  PROVE  /\ LastOp(m, n + 1, c, op) <=>
               m[n + 1] = Locks!Do(op, c) \/ (m[n + 1].on # c /\ LastOp(m, n, c, op))
         /\ ~LastOp(m, 0, c, op)
  <1>1. ASSUME LastOp(m, n + 1, c, op)
        PROVE  m[n + 1] = Locks!Do(op, c) \/ (m[n + 1].on # c /\ LastOp(m, n, c, op))
    <2>1. PICK j \in 1 .. (n + 1) : m[j] = Locks!Do(op, c) /\ \A k \in (j + 1) .. (n + 1) : m[k].on # c
      BY <1>1 DEF LastOp
    <2>2. CASE j = n + 1
      BY <2>1, <2>2
    <2>3. CASE j # n + 1
      <3>1. j \in 1 .. n /\ n + 1 \in (j + 1) .. (n + 1) /\ \A k \in (j + 1) .. n : k \in (j + 1) .. (n + 1)
        BY <2>3
      <3>2. QED BY <2>1, <3>1 DEF LastOp
    <2>4. QED BY <2>2, <2>3
  <1>2. ASSUME m[n + 1] = Locks!Do(op, c) PROVE LastOp(m, n + 1, c, op)
    <2>1. n + 1 \in 1 .. (n + 1) /\ (n + 1 + 1) .. (n + 1) = {}
      OBVIOUS
    <2>2. QED BY <1>2, <2>1 DEF LastOp
  <1>3. ASSUME m[n + 1].on # c, LastOp(m, n, c, op) PROVE LastOp(m, n + 1, c, op)
    <2>1. PICK j \in 1 .. n : m[j] = Locks!Do(op, c) /\ \A k \in (j + 1) .. n : m[k].on # c
      BY <1>3 DEF LastOp
    <2>2. j \in 1 .. (n + 1) /\ \A k \in (j + 1) .. (n + 1) : k = n + 1 \/ k \in (j + 1) .. n
      OBVIOUS
    <2>3. QED BY <1>3, <2>1, <2>2 DEF LastOp
  <1>4. ~LastOp(m, 0, c, op)
    BY DEF LastOp
  <1>5. QED BY <1>1, <1>2, <1>3, <1>4

\* A collection whose last operation took a lock is held.
LEMMA LastOpHeld ==
  ASSUME NEW m, NEW n \in Nat, NEW c \in Collections, NEW op \in Takes, LastOp(m, n, c, op)
  PROVE  c \in Locks!HeldAt(m, n + 1)
  <1>1. PICK j \in 1 .. n : m[j] = Locks!Do(op, c) /\ \A k \in (j + 1) .. n : m[k].on # c
    BY DEF LastOp
  <1>2. (n + 1) - 1 = n /\ m[j].on = c /\ m[j].op = op
    BY <1>1 DEF Locks!Do
  <1>3. QED BY <1>1, <1>2 DEF Locks!HeldAt, Takes

\* A lock taken with another one held is a nest.
LEMMA NestOf ==
  ASSUME NEW m, NEW n \in Nat, n + 1 \in DOMAIN m, NEW c \in Collections, NEW d \in Collections,
         NEW op \in Takes, LastOp(m, n, c, op), NEW take \in Takes, m[n + 1] = Locks!Do(take, d)
  PROVE  <<c, d>> \in Locks!Nests(m)
  <1>1. c \in Locks!HeldAt(m, n + 1)
    BY LastOpHeld
  <1>2. m[n + 1].op \in Takes /\ m[n + 1].on = d
    BY DEF Locks!Do
  <1>3. QED BY <1>1, <1>2 DEF Locks!Nests, Takes

NestsNoneInItself(m) == \A c \in Collections : <<c, c>> \notin Locks!Nests(m)

Operations == [op : {"R", "r", "W", "w"}, on : Collections]

\* A script gives back what it took: the lock of a collection it unlocks was the
\* last thing it did to it, the write lock for Unlock; at its end it holds none.
GivesBack(m) ==
    /\ m \in Seq(Operations)
    /\ \A n \in Nat : n < Len(m) =>
           /\ m[n + 1].op = "r" => \E op \in Takes : LastOp(m, n, m[n + 1].on, op)
           /\ m[n + 1].op = "w" => LastOp(m, n, m[n + 1].on, "W")
    /\ \A c \in Collections, op \in Takes : ~LastOp(m, Len(m), c, op)

\* The scripts, one by one.
LEMMA MethodOf ==
  ASSUME NEW m \in Locks!Methods
  PROVE  \/ \E c \in Collections : m \in {Locks!Reader(c), Locks!Writer(c), Locks!DictLen(c), Locks!OrderedString(c)}
         \/ \E c, d \in Collections : m \in {Locks!ReadBelowRead(c, d), Locks!ReadBelowWrite(c, d),
                                             Locks!ExtendList(c, d), Locks!ReadEachBelowWrite(c, d)}
  <1> DEFINE one(c) == {Locks!Reader(c), Locks!Writer(c), Locks!DictLen(c), Locks!OrderedString(c)}
             two(c, d) == {Locks!ReadBelowRead(c, d), Locks!ReadBelowWrite(c, d),
                           Locks!ExtendList(c, d), Locks!ReadEachBelowWrite(c, d)}
  <1>1. m \in (UNION {one(c) : c \in Collections}) \cup (UNION {two(c, d) : c \in Collections, d \in Collections})
    BY DEF Locks!Methods
  <1> HIDE DEF one, two
  <1>2. (\E c \in Collections : m \in one(c)) \/ \E c, d \in Collections : m \in two(c, d)
    BY <1>1
  <1>3. QED BY <1>2 DEF one, two

\* The scripts of the methods, but those that lock a collection twice.
LEMMA ScriptsGiveBack ==
  ASSUME NEW m \in Locks!Methods, NestsNoneInItself(m)
  PROVE  GivesBack(m)
  <1> USE DEF Locks!Do, Operations, Takes
  <1>1. ASSUME NEW c \in Collections, m = Locks!Reader(c) PROVE GivesBack(m)
    <2>1. m = <<Locks!Do("R", c), Locks!Do("r", c)>>
      BY <1>1 DEF Locks!Reader
    <2>2. LastOp(m, 1, c, "R")
      BY <2>1 DEF LastOp
    <2>3. \A d \in Collections, op \in Takes : ~LastOp(m, 2, d, op)
      BY <2>1 DEF LastOp
    <2>4. QED BY <2>1, <2>2, <2>3 DEF GivesBack
  <1>2. ASSUME NEW c \in Collections, m = Locks!Writer(c) PROVE GivesBack(m)
    <2>1. m = <<Locks!Do("W", c), Locks!Do("w", c)>>
      BY <1>2 DEF Locks!Writer
    <2>2. LastOp(m, 1, c, "W")
      BY <2>1 DEF LastOp
    <2>3. \A d \in Collections, op \in Takes : ~LastOp(m, 2, d, op)
      BY <2>1 DEF LastOp
    <2>4. QED BY <2>1, <2>2, <2>3 DEF GivesBack
  <1>3. ASSUME NEW c \in Collections, m = Locks!DictLen(c) PROVE GivesBack(m)
    <2>1. m = <<Locks!Do("W", c), Locks!Do("r", c)>>
      BY <1>3 DEF Locks!DictLen
    <2>2. LastOp(m, 1, c, "W")
      BY <2>1 DEF LastOp
    <2>3. \A d \in Collections, op \in Takes : ~LastOp(m, 2, d, op)
      BY <2>1 DEF LastOp
    <2>4. QED BY <2>1, <2>2, <2>3 DEF GivesBack
  <1>4. ASSUME NEW c \in Collections, m = Locks!OrderedString(c) PROVE FALSE
    <2>1. m = <<Locks!Do("R", c), Locks!Do("R", c), Locks!Do("r", c), Locks!Do("r", c)>>
      BY <1>4 DEF Locks!OrderedString
    <2>2. LastOp(m, 1, c, "R") /\ 1 + 1 \in DOMAIN m /\ m[1 + 1] = Locks!Do("R", c)
      BY <2>1 DEF LastOp
    <2>3. <<c, c>> \in Locks!Nests(m)
      BY <2>2, NestOf
    <2>4. QED BY <2>3 DEF NestsNoneInItself
  <1>5. ASSUME NEW c \in Collections, NEW d \in Collections, m = Locks!ReadBelowRead(c, d) PROVE GivesBack(m)
    <2>1. m = <<Locks!Do("R", c), Locks!Do("R", d), Locks!Do("r", d), Locks!Do("r", c)>>
      BY <1>5 DEF Locks!ReadBelowRead
    <2>2. LastOp(m, 1, c, "R") /\ 1 + 1 \in DOMAIN m /\ m[1 + 1] = Locks!Do("R", d)
      BY <2>1 DEF LastOp
    <2>3. c # d
      BY <2>2, NestOf DEF NestsNoneInItself
    <2>4. LastOp(m, 2, d, "R") /\ LastOp(m, 3, c, "R")
      BY <2>1, <2>3 DEF LastOp
    <2>5. \A e \in Collections, op \in Takes : ~LastOp(m, 4, e, op)
      BY <2>1 DEF LastOp
    <2>6. QED BY <2>1, <2>4, <2>5 DEF GivesBack
  <1>6. ASSUME NEW c \in Collections, NEW d \in Collections, m = Locks!ReadBelowWrite(c, d) PROVE GivesBack(m)
    <2>1. m = <<Locks!Do("W", c), Locks!Do("R", d), Locks!Do("r", d), Locks!Do("w", c)>>
      BY <1>6 DEF Locks!ReadBelowWrite
    <2>2. LastOp(m, 1, c, "W") /\ 1 + 1 \in DOMAIN m /\ m[1 + 1] = Locks!Do("R", d)
      BY <2>1 DEF LastOp
    <2>3. c # d
      BY <2>2, NestOf DEF NestsNoneInItself
    <2>4. LastOp(m, 2, d, "R") /\ LastOp(m, 3, c, "W")
      BY <2>1, <2>3 DEF LastOp
    <2>5. \A e \in Collections, op \in Takes : ~LastOp(m, 4, e, op)
      BY <2>1 DEF LastOp
    <2>6. QED BY <2>1, <2>4, <2>5 DEF GivesBack
  <1>7. ASSUME NEW c \in Collections, NEW d \in Collections, m = Locks!ExtendList(c, d) PROVE GivesBack(m)
    <2>1. m = <<Locks!Do("R", d), Locks!Do("W", c), Locks!Do("w", c), Locks!Do("r", d)>>
      BY <1>7 DEF Locks!ExtendList
    <2>2. LastOp(m, 1, d, "R") /\ 1 + 1 \in DOMAIN m /\ m[1 + 1] = Locks!Do("W", c)
      BY <2>1 DEF LastOp
    <2>3. c # d
      BY <2>2, NestOf DEF NestsNoneInItself
    <2>4. LastOp(m, 2, c, "W") /\ LastOp(m, 3, d, "R")
      BY <2>1, <2>3 DEF LastOp
    <2>5. \A e \in Collections, op \in Takes : ~LastOp(m, 4, e, op)
      BY <2>1 DEF LastOp
    <2>6. QED BY <2>1, <2>4, <2>5 DEF GivesBack
  <1>8. ASSUME NEW c \in Collections, NEW d \in Collections, m = Locks!ReadEachBelowWrite(c, d)
        PROVE  GivesBack(m)
    <2>1. m = <<Locks!Do("W", c), Locks!Do("R", d), Locks!Do("r", d),
                Locks!Do("R", d), Locks!Do("r", d), Locks!Do("w", c)>>
      BY <1>8 DEF Locks!ReadEachBelowWrite
    <2>2. LastOp(m, 1, c, "W") /\ 1 + 1 \in DOMAIN m /\ m[1 + 1] = Locks!Do("R", d)
      BY <2>1 DEF LastOp
    <2>3. c # d
      BY <2>2, NestOf DEF NestsNoneInItself
    <2>4. LastOp(m, 2, d, "R") /\ LastOp(m, 4, d, "R") /\ LastOp(m, 5, c, "W")
      BY <2>1, <2>3 DEF LastOp
    <2>5. \A e \in Collections, op \in Takes : ~LastOp(m, 6, e, op)
      BY <2>1 DEF LastOp
    <2>6. QED BY <2>1, <2>4, <2>5 DEF GivesBack
  <1>9. QED BY <1>1, <1>2, <1>3, <1>4, <1>5, <1>6, <1>7, <1>8, MethodOf

LocksTypes ==
    /\ method \in [Goroutines -> Locks!Methods]
    /\ at \in [Goroutines -> Nat]
    /\ readers \in [Collections -> [Goroutines -> Int]]
    /\ writer \in [Collections -> SUBSET Goroutines]
    /\ waiting \in [Collections -> SUBSET Goroutines]
    /\ fatal \in BOOLEAN

\* Who holds a lock, and how, is what its last operation on it says; a writer is
\* alone; who is announced is about to lock.
LocksHeld ==
    /\ \A g \in Goroutines : at[g] <= Len(method[g])
    /\ \A c \in Collections, g \in Goroutines :
           /\ readers[c][g] = IF LastOp(method[g], at[g], c, "R") THEN 1 ELSE 0
           /\ g \in writer[c] <=> LastOp(method[g], at[g], c, "W")
           /\ g \in waiting[c] => /\ at[g] < Len(method[g]) /\ method[g][at[g] + 1] = Locks!Do("W", c)
                                  /\ waiting[c] = {g}
           /\ g \in writer[c] => writer[c] = {g} /\ waiting[c] = {} /\ Locks!NoReaders(c)

LocksInv == LocksTypes /\ (Locks!Orderly /\ ~fatal => LocksHeld)

\* The order of the collections that orderly use keeps to.
LEMMA Ranked ==
  ASSUME Locks!Orderly
  PROVE  \E rank \in [Collections -> 1 .. Cardinality(Collections)] :
             \A h \in Goroutines : \A n \in Locks!Nests(method[h]) : rank[n[1]] < rank[n[2]]
  <1>1. Locks!Cardinality(Collections) = Cardinality(Collections)
    BY Zenon DEF Locks!Cardinality, Cardinality
  <1>2. QED BY <1>1, Zenon DEF Locks!Orderly

\* In orderly use no method locks a collection twice, so each gives back its locks.
LEMMA OrderlyGivesBack ==
  ASSUME Locks!Orderly, LocksTypes, NEW g \in Goroutines
  PROVE  NestsNoneInItself(method[g]) /\ GivesBack(method[g])
  <1>1. PICK rank \in [Collections -> 1 .. Cardinality(Collections)] :
            \A h \in Goroutines : \A n \in Locks!Nests(method[h]) : rank[n[1]] < rank[n[2]]
    BY Ranked
  <1>2. ASSUME NEW c \in Collections, <<c, c>> \in Locks!Nests(method[g]) PROVE FALSE
    <2>1. rank[<<c, c>>[1]] < rank[<<c, c>>[2]]
      BY <1>1, <1>2
    <2>2. QED BY <1>1, <2>1, FS_CardinalityType, CollectionsAssumption
  <1>3. NestsNoneInItself(method[g])
    BY <1>2 DEF NestsNoneInItself
  <1>4. method[g] \in Locks!Methods
    BY DEF LocksTypes
  <1>5. QED BY <1>3, <1>4, ScriptsGiveBack

\* What a goroutine's next operation leaves as its last on each collection.
LEMMA LastOpMoves ==
  ASSUME LocksTypes, NEW g \in Goroutines, NEW op, NEW c, Locks!Coming(g, op, c), Locks!Done(g)
  PROVE  /\ at' = [at EXCEPT ![g] = at[g] + 1]
         /\ \A d, e : LastOp(method[g], at'[g], d, e) <=>
                (d = c /\ e = op) \/ (d # c /\ LastOp(method[g], at[g], d, e))
  <1>1. at' = [at EXCEPT ![g] = at[g] + 1] /\ at[g] \in Nat /\ at'[g] = at[g] + 1
    BY DEF Locks!Done, LocksTypes
  <1>2. method[g][at[g] + 1] = Locks!Do(op, c)
    BY DEF Locks!Coming
  <1>3. ASSUME NEW d, NEW e
        PROVE  LastOp(method[g], at'[g], d, e) <=>
                   (d = c /\ e = op) \/ (d # c /\ LastOp(method[g], at[g], d, e))
    <2>1. LastOp(method[g], at[g] + 1, d, e) <=>
              method[g][at[g] + 1] = Locks!Do(e, d) \/ (method[g][at[g] + 1].on # d /\ LastOp(method[g], at[g], d, e))
      BY <1>1, LastOpNext
    <2>2. (Locks!Do(op, c) = Locks!Do(e, d) <=> op = e /\ c = d) /\ Locks!Do(op, c).on = c
      BY DEF Locks!Do
    <2>3. QED BY <1>1, <1>2, <2>1, <2>2
  <1>4. QED BY <1>1, <1>3

LocksNow == LocksTypes /\ LocksHeld /\ Locks!Orderly

\* Who takes a lock holds none of that collection yet.
LEMMA TakesOnce ==
  ASSUME LocksNow, NEW g \in Goroutines, NEW c \in Collections, NEW op \in Takes, Locks!Coming(g, op, c)
  PROVE  \A e \in Takes : ~LastOp(method[g], at[g], c, e)
  <1>1. NestsNoneInItself(method[g]) /\ GivesBack(method[g])
    BY OrderlyGivesBack DEF LocksNow
  <1>2. at[g] \in Nat /\ at[g] + 1 \in DOMAIN method[g] /\ method[g][at[g] + 1] = Locks!Do(op, c)
    <2>1. at[g] \in Nat /\ at[g] <= Len(method[g])
      BY DEF LocksNow, LocksTypes, LocksHeld
    <2>2. at[g] # Len(method[g]) /\ method[g][at[g] + 1] = Locks!Do(op, c)
      BY DEF Locks!Coming, Locks!Finished
    <2>3. DOMAIN method[g] = 1 .. Len(method[g]) /\ Len(method[g]) \in Nat
      BY <1>1 DEF GivesBack
    <2>4. QED BY <2>1, <2>2, <2>3
  <1>3. QED BY <1>1, <1>2, NestOf DEF NestsNoneInItself

\* A step stays within the script.
LEMMA StaysWithin ==
  ASSUME LocksNow, NEW g \in Goroutines, NEW op, NEW c, Locks!Coming(g, op, c), Locks!Done(g)
  PROVE  at[g] < Len(method[g]) /\ \A h \in Goroutines : at'[h] <= Len(method[h])
  <1>1. at' = [at EXCEPT ![g] = at[g] + 1] /\ at \in [Goroutines -> Nat]
    BY LastOpMoves DEF LocksNow, LocksTypes
  <1>2. \A h \in Goroutines : at[h] <= Len(method[h])
    BY DEF LocksNow, LocksHeld
  <1>3. at[g] # Len(method[g])
    BY DEF Locks!Coming, Locks!Finished
  <1>4. Len(method[g]) \in Nat
    BY OrderlyGivesBack DEF LocksNow, GivesBack
  <1>5. QED BY <1>1, <1>2, <1>3, <1>4

\* RLock takes what the script says next, and the lock tells.
LEMMA RLockKeeps ==
  ASSUME LocksNow, NEW g \in Goroutines, NEW c \in Collections, Locks!RLock(g, c)
  PROVE  LocksHeld'
  <1>1. /\ Locks!Coming(g, "R", c) /\ Locks!Free(c) /\ Locks!Done(g)
        /\ readers' = [readers EXCEPT ![c][g] = readers[c][g] + 1]
        /\ method' = method /\ waiting' = waiting /\ writer' = writer
    BY DEF Locks!RLock
  <1>2. /\ at' = [at EXCEPT ![g] = at[g] + 1]
        /\ \A d, e : LastOp(method[g], at'[g], d, e) <=>
                (d = c /\ e = "R") \/ (d # c /\ LastOp(method[g], at[g], d, e))
    BY <1>1, LastOpMoves DEF LocksNow
  <1>3. ~LastOp(method[g], at[g], c, "R")
    BY <1>1, TakesOnce DEF LocksNow, Takes
  <1>4. \A h \in Goroutines : at'[h] <= Len(method[h])
    BY <1>1, StaysWithin
  <1>5. \A h \in Goroutines : h # g => at'[h] = at[h]
    BY <1>2 DEF LocksNow, LocksTypes
  <1>6. method[g][at[g] + 1] = Locks!Do("R", c) /\ \A d : Locks!Do("R", c) # Locks!Do("W", d)
    BY <1>1 DEF Locks!Coming, Locks!Do
  <1>7. \A d \in Collections, h \in Goroutines :
            readers'[d][h] = IF d = c /\ h = g THEN readers[d][h] + 1 ELSE readers[d][h]
    BY <1>1 DEF LocksNow, LocksTypes
  <1>8. ASSUME NEW d \in Collections, NEW h \in Goroutines
        PROVE  /\ readers'[d][h] = IF LastOp(method[h], at'[h], d, "R") THEN 1 ELSE 0
               /\ h \in writer[d] <=> LastOp(method[h], at'[h], d, "W")
    <2>1. /\ readers[d][h] = IF LastOp(method[h], at[h], d, "R") THEN 1 ELSE 0
          /\ h \in writer[d] <=> LastOp(method[h], at[h], d, "W")
      BY DEF LocksNow, LocksHeld
    <2>2. CASE h # g
      BY <1>5, <1>7, <2>1, <2>2
    <2>3. CASE h = g /\ d # c
      BY <1>2, <1>7, <2>1, <2>3
    <2>4. CASE h = g /\ d = c
      <3>1. g \notin writer[c]
        BY <1>1 DEF Locks!Free
      <3>2. QED BY <1>2, <1>3, <1>7, <2>1, <2>4, <3>1
    <2>5. QED BY <2>2, <2>3, <2>4
  <1>9. ASSUME NEW d \in Collections, NEW h \in Goroutines, h \in waiting[d]
        PROVE  /\ at'[h] < Len(method[h]) /\ method[h][at'[h] + 1] = Locks!Do("W", d)
               /\ waiting[d] = {h}
    <2>1. /\ at[h] < Len(method[h]) /\ method[h][at[h] + 1] = Locks!Do("W", d) /\ waiting[d] = {h}
      BY <1>9 DEF LocksNow, LocksHeld
    <2>2. QED BY <1>5, <1>6, <2>1
  <1>10. ASSUME NEW d \in Collections, NEW h \in Goroutines, h \in writer[d]
         PROVE  writer[d] = {h} /\ waiting[d] = {} /\ Locks!NoReaders(d)'
    <2>1. writer[d] = {h} /\ waiting[d] = {} /\ \A k \in Goroutines : readers[d][k] = 0
      BY <1>10 DEF LocksNow, LocksHeld, Locks!NoReaders
    <2>2. d # c
      BY <1>1, <1>10 DEF Locks!Free
    <2>3. QED BY <1>7, <2>1, <2>2 DEF Locks!NoReaders
  <1>11. QED BY <1>1, <1>4, <1>8, <1>9, <1>10 DEF LocksHeld

\* A writer that begins to wait changes only who waits.
LEMMA AnnounceKeeps ==
  ASSUME LocksNow, NEW g \in Goroutines, NEW c \in Collections, Locks!Announce(g, c)
  PROVE  LocksHeld'
  <1>1. /\ Locks!Coming(g, "W", c) /\ Locks!Free(c)
        /\ waiting' = [waiting EXCEPT ![c] = {g}]
        /\ method' = method /\ at' = at /\ readers' = readers /\ writer' = writer
    BY DEF Locks!Announce
  <1>2. \A d \in Collections : waiting'[d] = IF d = c THEN {g} ELSE waiting[d]
    BY <1>1 DEF LocksNow, LocksTypes
  <1>3. at[g] < Len(method[g]) /\ method[g][at[g] + 1] = Locks!Do("W", c)
    <2>1. at[g] \in Nat /\ at[g] <= Len(method[g]) /\ Len(method[g]) \in Nat
      BY OrderlyGivesBack DEF LocksNow, LocksTypes, LocksHeld, GivesBack
    <2>2. QED BY <1>1, <2>1 DEF Locks!Coming, Locks!Finished
  <1>4. ASSUME NEW d \in Collections, NEW h \in Goroutines
        PROVE  /\ h \in waiting'[d] => /\ at[h] < Len(method[h]) /\ method[h][at[h] + 1] = Locks!Do("W", d)
                                       /\ waiting'[d] = {h}
               /\ h \in writer[d] => writer[d] = {h} /\ waiting'[d] = {} /\ Locks!NoReaders(d)
    <2>1. CASE d = c
      BY <1>1, <1>2, <1>3, <2>1 DEF Locks!Free
    <2>2. CASE d # c
      BY <1>2, <2>2 DEF LocksNow, LocksHeld
    <2>3. QED BY <2>1, <2>2
  <1>5. ASSUME NEW d \in Collections PROVE Locks!NoReaders(d)' <=> Locks!NoReaders(d)
    BY <1>1 DEF Locks!NoReaders
  <1>6. QED BY <1>1, <1>4, <1>5 DEF LocksNow, LocksHeld

\* A writer gets the lock when nobody else has it, and stops waiting.
LEMMA LockKeeps ==
  ASSUME LocksNow, NEW g \in Goroutines, NEW c \in Collections, Locks!Lock(g, c)
  PROVE  LocksHeld'
  <1>1. /\ Locks!Coming(g, "W", c) /\ Locks!Done(g)
        /\ waiting[c] = {g} /\ Locks!NoReaders(c)
        /\ waiting' = [waiting EXCEPT ![c] = {}] /\ writer' = [writer EXCEPT ![c] = {g}]
        /\ method' = method /\ readers' = readers
    BY DEF Locks!Lock
  <1>2. /\ at' = [at EXCEPT ![g] = at[g] + 1]
        /\ \A d, e : LastOp(method[g], at'[g], d, e) <=>
                (d = c /\ e = "W") \/ (d # c /\ LastOp(method[g], at[g], d, e))
    BY <1>1, LastOpMoves DEF LocksNow
  <1>3. \A h \in Goroutines : at'[h] <= Len(method[h])
    BY <1>1, StaysWithin
  <1>4. \A h \in Goroutines : h # g => at'[h] = at[h]
    BY <1>2 DEF LocksNow, LocksTypes
  <1>5. /\ \A d \in Collections : waiting'[d] = IF d = c THEN {} ELSE waiting[d]
        /\ \A d \in Collections : writer'[d] = IF d = c THEN {g} ELSE writer[d]
    BY <1>1 DEF LocksNow, LocksTypes
  <1>6. \A h \in Goroutines : h \notin writer[c] /\ readers[c][h] = 0
    BY <1>1 DEF LocksNow, LocksHeld, Locks!NoReaders
  <1>7. method[g][at[g] + 1] = Locks!Do("W", c) /\ \A d : Locks!Do("W", c) = Locks!Do("W", d) => d = c
    BY <1>1 DEF Locks!Coming, Locks!Do
  <1>8. ASSUME NEW d \in Collections, NEW h \in Goroutines
        PROVE  /\ readers[d][h] = IF LastOp(method[h], at'[h], d, "R") THEN 1 ELSE 0
               /\ h \in writer'[d] <=> LastOp(method[h], at'[h], d, "W")
    <2>1. /\ readers[d][h] = IF LastOp(method[h], at[h], d, "R") THEN 1 ELSE 0
          /\ h \in writer[d] <=> LastOp(method[h], at[h], d, "W")
      BY DEF LocksNow, LocksHeld
    <2>2. CASE h # g
      BY <1>4, <1>5, <1>6, <2>1, <2>2
    <2>3. CASE h = g /\ d # c
      BY <1>2, <1>5, <2>1, <2>3
    <2>4. CASE h = g /\ d = c
      BY <1>2, <1>5, <1>6, <2>4
    <2>5. QED BY <2>2, <2>3, <2>4
  <1>9. ASSUME NEW d \in Collections, NEW h \in Goroutines, h \in waiting'[d]
        PROVE  /\ at'[h] < Len(method[h]) /\ method[h][at'[h] + 1] = Locks!Do("W", d)
               /\ waiting'[d] = {h}
    <2>1. d # c /\ h \in waiting[d] /\ waiting'[d] = waiting[d]
      BY <1>5, <1>9
    <2>2. /\ at[h] < Len(method[h]) /\ method[h][at[h] + 1] = Locks!Do("W", d) /\ waiting[d] = {h}
      BY <2>1 DEF LocksNow, LocksHeld
    <2>3. QED BY <1>4, <1>7, <2>1, <2>2
  <1>10. ASSUME NEW d \in Collections, NEW h \in Goroutines, h \in writer'[d]
         PROVE  writer'[d] = {h} /\ waiting'[d] = {} /\ Locks!NoReaders(d)'
    <2>1. CASE d = c
      BY <1>1, <1>5, <1>10, <2>1 DEF Locks!NoReaders
    <2>2. CASE d # c
      <3>1. h \in writer[d]
        BY <1>5, <1>10, <2>2
      <3>2. writer[d] = {h} /\ waiting[d] = {} /\ Locks!NoReaders(d)
        BY <3>1 DEF LocksNow, LocksHeld
      <3>3. QED BY <1>1, <1>5, <2>2, <3>2 DEF Locks!NoReaders
    <2>3. QED BY <2>1, <2>2
  <1>11. QED BY <1>1, <1>3, <1>8, <1>9, <1>10 DEF LocksHeld

\* RUnlock gives back a read lock that its caller holds.
LEMMA RUnlockKeeps ==
  ASSUME LocksNow, NEW g \in Goroutines, NEW c \in Collections, Locks!RUnlock(g, c), ~fatal'
  PROVE  LocksHeld'
  <1>1. /\ Locks!Coming(g, "r", c) /\ Locks!Done(g) /\ ~Locks!NoReaders(c)
        /\ readers' = [readers EXCEPT ![c][g] = readers[c][g] - 1]
        /\ method' = method /\ waiting' = waiting /\ writer' = writer
    BY DEF Locks!RUnlock
  <1>2. /\ at' = [at EXCEPT ![g] = at[g] + 1]
        /\ \A d, e : LastOp(method[g], at'[g], d, e) <=>
                (d = c /\ e = "r") \/ (d # c /\ LastOp(method[g], at[g], d, e))
    BY <1>1, LastOpMoves DEF LocksNow
  <1>3. at[g] < Len(method[g]) /\ \A h \in Goroutines : at'[h] <= Len(method[h])
    BY <1>1, StaysWithin
  <1>4. \A h \in Goroutines : h # g => at'[h] = at[h]
    BY <1>2 DEF LocksNow, LocksTypes
  <1>5. method[g][at[g] + 1] = Locks!Do("r", c) /\ \A d : Locks!Do("r", c) # Locks!Do("W", d)
    BY <1>1 DEF Locks!Coming, Locks!Do
  <1>6. /\ readers[c][g] = 1 /\ g \notin writer[c]
    <2>1. PICK e \in Takes : LastOp(method[g], at[g], c, e)
      <3>1. at[g] \in Nat /\ GivesBack(method[g])
        BY OrderlyGivesBack DEF LocksNow, LocksTypes
      <3>2. method[g][at[g] + 1].op = "r" /\ method[g][at[g] + 1].on = c
        BY <1>5 DEF Locks!Do
      <3>3. QED BY <1>3, <3>1, <3>2 DEF GivesBack
    <2>2. g \notin writer[c]
      BY <1>1 DEF LocksNow, LocksHeld
    <2>3. LastOp(method[g], at[g], c, "R")
      BY <2>1, <2>2 DEF LocksNow, LocksHeld, Takes
    <2>4. QED BY <2>2, <2>3 DEF LocksNow, LocksHeld
  <1>7. \A d \in Collections, h \in Goroutines :
            readers'[d][h] = IF d = c /\ h = g THEN readers[d][h] - 1 ELSE readers[d][h]
    BY <1>1 DEF LocksNow, LocksTypes
  <1>8. ASSUME NEW d \in Collections, NEW h \in Goroutines
        PROVE  /\ readers'[d][h] = IF LastOp(method[h], at'[h], d, "R") THEN 1 ELSE 0
               /\ h \in writer[d] <=> LastOp(method[h], at'[h], d, "W")
    <2>1. /\ readers[d][h] = IF LastOp(method[h], at[h], d, "R") THEN 1 ELSE 0
          /\ h \in writer[d] <=> LastOp(method[h], at[h], d, "W")
      BY DEF LocksNow, LocksHeld
    <2>2. CASE h # g
      BY <1>4, <1>7, <2>1, <2>2
    <2>3. CASE h = g /\ d # c
      BY <1>2, <1>7, <2>1, <2>3
    <2>4. CASE h = g /\ d = c
      BY <1>2, <1>6, <1>7, <2>4
    <2>5. QED BY <2>2, <2>3, <2>4
  <1>9. ASSUME NEW d \in Collections, NEW h \in Goroutines, h \in waiting[d]
        PROVE  /\ at'[h] < Len(method[h]) /\ method[h][at'[h] + 1] = Locks!Do("W", d)
               /\ waiting[d] = {h}
    <2>1. /\ at[h] < Len(method[h]) /\ method[h][at[h] + 1] = Locks!Do("W", d) /\ waiting[d] = {h}
      BY <1>9 DEF LocksNow, LocksHeld
    <2>2. QED BY <1>4, <1>5, <2>1
  <1>10. ASSUME NEW d \in Collections, NEW h \in Goroutines, h \in writer[d]
         PROVE  writer[d] = {h} /\ waiting[d] = {} /\ Locks!NoReaders(d)'
    <2>1. writer[d] = {h} /\ waiting[d] = {} /\ Locks!NoReaders(d)
      BY <1>10 DEF LocksNow, LocksHeld
    <2>2. d # c
      BY <1>1, <2>1
    <2>3. QED BY <1>7, <2>1, <2>2 DEF Locks!NoReaders
  <1>11. QED BY <1>1, <1>3, <1>8, <1>9, <1>10 DEF LocksHeld

\* Unlock gives back the write lock; it is never fatal for a caller that holds it.
LEMMA UnlockKeeps ==
  ASSUME LocksNow, NEW g \in Goroutines, NEW c \in Collections, Locks!Unlock(g, c)
  PROVE  LocksHeld'
  <1>1. /\ Locks!Coming(g, "w", c) /\ Locks!Done(g)
        /\ writer' = [writer EXCEPT ![c] = {}]
        /\ method' = method /\ waiting' = waiting /\ readers' = readers
    BY DEF Locks!Unlock
  <1>2. /\ at' = [at EXCEPT ![g] = at[g] + 1]
        /\ \A d, e : LastOp(method[g], at'[g], d, e) <=>
                (d = c /\ e = "w") \/ (d # c /\ LastOp(method[g], at[g], d, e))
    BY <1>1, LastOpMoves DEF LocksNow
  <1>3. at[g] < Len(method[g]) /\ \A h \in Goroutines : at'[h] <= Len(method[h])
    BY <1>1, StaysWithin
  <1>4. \A h \in Goroutines : h # g => at'[h] = at[h]
    BY <1>2 DEF LocksNow, LocksTypes
  <1>5. method[g][at[g] + 1] = Locks!Do("w", c) /\ \A d : Locks!Do("w", c) # Locks!Do("W", d)
    BY <1>1 DEF Locks!Coming, Locks!Do
  <1>6. writer[c] = {g} /\ waiting[c] = {} /\ Locks!NoReaders(c)
    <2>1. at[g] \in Nat /\ GivesBack(method[g])
      BY OrderlyGivesBack DEF LocksNow, LocksTypes
    <2>2. method[g][at[g] + 1].op = "w" /\ method[g][at[g] + 1].on = c
      BY <1>5 DEF Locks!Do
    <2>3. LastOp(method[g], at[g], c, "W")
      BY <1>3, <2>1, <2>2 DEF GivesBack
    <2>4. QED BY <2>3 DEF LocksNow, LocksHeld
  <1>7. \A d \in Collections : writer'[d] = IF d = c THEN {} ELSE writer[d]
    BY <1>1 DEF LocksNow, LocksTypes
  <1>8. ASSUME NEW d \in Collections, NEW h \in Goroutines
        PROVE  /\ readers[d][h] = IF LastOp(method[h], at'[h], d, "R") THEN 1 ELSE 0
               /\ h \in writer'[d] <=> LastOp(method[h], at'[h], d, "W")
    <2>1. /\ readers[d][h] = IF LastOp(method[h], at[h], d, "R") THEN 1 ELSE 0
          /\ h \in writer[d] <=> LastOp(method[h], at[h], d, "W")
      BY DEF LocksNow, LocksHeld
    <2>2. CASE h # g
      BY <1>4, <1>6, <1>7, <2>1, <2>2
    <2>3. CASE h = g /\ d # c
      BY <1>2, <1>7, <2>1, <2>3
    <2>4. CASE h = g /\ d = c
      BY <1>2, <1>6, <1>7, <2>4 DEF Locks!NoReaders
    <2>5. QED BY <2>2, <2>3, <2>4
  <1>9. ASSUME NEW d \in Collections, NEW h \in Goroutines, h \in waiting[d]
        PROVE  /\ at'[h] < Len(method[h]) /\ method[h][at'[h] + 1] = Locks!Do("W", d)
               /\ waiting[d] = {h}
    <2>1. /\ at[h] < Len(method[h]) /\ method[h][at[h] + 1] = Locks!Do("W", d) /\ waiting[d] = {h}
      BY <1>9 DEF LocksNow, LocksHeld
    <2>2. QED BY <1>4, <1>5, <2>1
  <1>10. ASSUME NEW d \in Collections, NEW h \in Goroutines, h \in writer'[d]
         PROVE  writer'[d] = {h} /\ waiting[d] = {} /\ Locks!NoReaders(d)'
    <2>1. h \in writer[d] /\ writer'[d] = writer[d]
      BY <1>7, <1>10
    <2>2. writer[d] = {h} /\ waiting[d] = {} /\ Locks!NoReaders(d)
      BY <2>1 DEF LocksNow, LocksHeld
    <2>3. QED BY <1>1, <2>1, <2>2 DEF Locks!NoReaders
  <1>11. QED BY <1>1, <1>3, <1>8, <1>9, <1>10 DEF LocksHeld

\* In the beginning nobody holds or waits for anything.
LEMMA LocksBegin == Locks!Init => LocksInv
  <1> SUFFICES ASSUME Locks!Init PROVE LocksTypes /\ LocksHeld
    BY DEF LocksInv
  <1>1. LocksTypes
    <2>1. method \in [Goroutines -> Locks!Methods] /\ at \in [Goroutines -> Nat] /\ fatal \in BOOLEAN
      BY DEF Locks!Init
    <2>2. readers \in [Collections -> [Goroutines -> Int]]
      BY DEF Locks!Init
    <2>3. writer \in [Collections -> SUBSET Goroutines] /\ waiting \in [Collections -> SUBSET Goroutines]
      BY DEF Locks!Init
    <2>4. QED BY <2>1, <2>2, <2>3 DEF LocksTypes
  <1>2. \A g \in Goroutines : at[g] = 0 /\ \A c : ~LastOp(method[g], at[g], c, "R") /\ ~LastOp(method[g], at[g], c, "W")
    BY DEF Locks!Init, LastOp
  <1>3. \A c \in Collections : waiting[c] = {} /\ writer[c] = {} /\ \A g \in Goroutines : readers[c][g] = 0
    BY DEF Locks!Init
  <1>4. \A g \in Goroutines : Len(method[g]) \in Nat
    <2>1. ASSUME NEW c, NEW d PROVE
            /\ Len(Locks!Reader(c)) = 2 /\ Len(Locks!Writer(c)) = 2 /\ Len(Locks!DictLen(c)) = 2
            /\ Len(Locks!OrderedString(c)) = 4 /\ Len(Locks!ReadBelowRead(c, d)) = 4
            /\ Len(Locks!ReadBelowWrite(c, d)) = 4 /\ Len(Locks!ExtendList(c, d)) = 4
            /\ Len(Locks!ReadEachBelowWrite(c, d)) = 6
      BY DEF Locks!Reader, Locks!Writer, Locks!DictLen, Locks!OrderedString, Locks!ReadBelowRead,
             Locks!ReadBelowWrite, Locks!ExtendList, Locks!ReadEachBelowWrite
    <2>2. QED BY <1>1, <2>1, MethodOf DEF LocksTypes
  <1>5. QED BY <1>1, <1>2, <1>3, <1>4 DEF LocksHeld

\* The locks keep their types, in whatever order the methods take them.
LEMMA LocksTyped ==
  ASSUME LocksTypes, Locks!Next
  PROVE  LocksTypes'
  <1> PICK g \in Goroutines, c \in Collections :
          \/ Locks!RLock(g, c) \/ Locks!Announce(g, c) \/ Locks!Lock(g, c)
          \/ Locks!RUnlock(g, c) \/ Locks!Unlock(g, c)
    BY DEF Locks!Next
  <1> USE DEF LocksTypes, Locks!Done
  <1>1. CASE Locks!RLock(g, c)
    BY <1>1 DEF Locks!RLock
  <1>2. CASE Locks!Announce(g, c)
    BY <1>2 DEF Locks!Announce
  <1>3. CASE Locks!Lock(g, c)
    BY <1>3 DEF Locks!Lock
  <1>4. CASE Locks!RUnlock(g, c)
    <2>1. readers' \in [Collections -> [Goroutines -> Int]]
      <3>1. CASE readers' = readers
        BY <3>1
      <3>2. CASE readers' = [readers EXCEPT ![c][g] = readers[c][g] - 1]
        BY <3>2
      <3>3. QED BY <1>4, <3>1, <3>2 DEF Locks!RUnlock
    <2>2. method' = method /\ waiting' = waiting /\ writer' = writer /\ fatal' \in BOOLEAN
      BY <1>4 DEF Locks!RUnlock
    <2>3. at' \in [Goroutines -> Nat]
      BY <1>4 DEF Locks!RUnlock
    <2>4. QED BY <2>1, <2>2, <2>3
  <1>5. CASE Locks!Unlock(g, c)
    BY <1>5 DEF Locks!Unlock
  <1>6. QED BY <1>1, <1>2, <1>3, <1>4, <1>5

\* Every operation on a lock keeps what the locks know about their holders.
LEMMA LocksKept ==
  ASSUME LocksInv, Locks!Next
  PROVE  LocksInv'
  <1>1. LocksTypes'
    BY LocksTyped DEF LocksInv
  <1>2. PICK g \in Goroutines, c \in Collections :
          \/ Locks!RLock(g, c) \/ Locks!Announce(g, c) \/ Locks!Lock(g, c)
          \/ Locks!RUnlock(g, c) \/ Locks!Unlock(g, c)
    BY DEF Locks!Next
  <1>3. method' = method /\ ~fatal
    BY <1>2 DEF Locks!RLock, Locks!Announce, Locks!Lock, Locks!RUnlock, Locks!Unlock, Locks!Coming
  <1>4. Locks!Orderly' => Locks!Orderly
    BY <1>3 DEF Locks!Orderly
  <1>5. ASSUME Locks!Orderly', ~fatal' PROVE LocksHeld'
    <2>1. LocksNow
      BY <1>3, <1>4, <1>5 DEF LocksInv, LocksNow
    <2>2. QED BY <1>2, <1>5, <2>1, RLockKeeps, AnnounceKeeps, LockKeeps, RUnlockKeeps, UnlockKeeps
  <1>6. QED BY <1>1, <1>5 DEF LocksInv

\* The calls on other collections leave the locks alone.
LEMMA LocksStutter == LocksInv /\ UNCHANGED locks => LocksInv'
  <1> SUFFICES ASSUME LocksInv, UNCHANGED locks PROVE LocksInv'
    OBVIOUS
  <1>1. method' = method /\ at' = at /\ waiting' = waiting /\ readers' = readers /\ writer' = writer /\ fatal' = fatal
    BY DEF locks
  <1>2. (LocksTypes' <=> LocksTypes) /\ (Locks!Orderly' <=> Locks!Orderly)
    BY <1>1 DEF LocksTypes, Locks!Orderly
  <1>3. LocksHeld' <=> LocksHeld
    BY <1>1 DEF LocksHeld, Locks!NoReaders
  <1>4. QED BY <1>1, <1>2, <1>3 DEF LocksInv

\* Who has a lock has not returned; so one who waits for it waits, in orderly
\* use, for one who waits for a later collection, or for nobody.
LEMMA NobodySticks == LocksInv => OrderedUseNeverSticks
  <1> SUFFICES ASSUME LocksNow, ~fatal, Locks!Stuck PROVE FALSE
    BY DEF LocksInv, LocksNow, OrderedUseNeverSticks, Locks!OrderedUseNeverSticks
  <1>1. PICK rank \in [Collections -> 1 .. Cardinality(Collections)] :
            \A h \in Goroutines : \A n \in Locks!Nests(method[h]) : rank[n[1]] < rank[n[2]]
    BY Ranked DEF LocksNow
  <1> DEFINE wants(g, c) == \E op \in Takes : Locks!Coming(g, op, c)
             T == {rank[c] : c \in {d \in Collections : \E g \in Goroutines : wants(g, d) /\ Locks!Waits(g)}}
  <1>2. Cardinality(Collections) \in Nat
    BY FS_CardinalityType, CollectionsAssumption
  <1>3. ASSUME NEW g \in Goroutines, Locks!Waits(g)
        PROVE  \E c \in Collections : wants(g, c)
    BY <1>3 DEF Locks!Waits, Takes
  <1>4. \E m \in T : \A t \in T : t <= m
    <2>1. T # {}
      BY <1>3 DEF Locks!Stuck
    <2>2. T \in SUBSET (0 .. Cardinality(Collections))
      BY <1>2
    <2> HIDE DEF T
    <2>3. QED BY <1>2, <2>1, <2>2, GreatestNumber
  <1>5. PICK c \in Collections, g \in Goroutines :
            /\ wants(g, c) /\ Locks!Waits(g)
            /\ \A d \in Collections, h \in Goroutines : wants(h, d) /\ Locks!Waits(h) => rank[d] <= rank[c]
    BY <1>4
  <1>6. ASSUME NEW h \in Goroutines, NEW e \in Takes, LastOp(method[h], at[h], c, e)
        PROVE  FALSE
    <2>1. GivesBack(method[h]) /\ at[h] \in Nat /\ at[h] <= Len(method[h])
      BY OrderlyGivesBack DEF LocksNow, LocksTypes, LocksHeld
    <2>2. ~Locks!Finished(h)
      BY <1>6, <2>1 DEF GivesBack, Locks!Finished
    <2>3. Locks!Waits(h)
      BY <2>2 DEF Locks!Stuck
    <2>4. PICK d \in Collections, op \in Takes : Locks!Coming(h, op, d)
      BY <1>3, <2>3
    <2>5. at[h] + 1 \in DOMAIN method[h] /\ method[h][at[h] + 1] = Locks!Do(op, d)
      <3>1. at[h] # Len(method[h]) /\ Len(method[h]) \in Nat /\ DOMAIN method[h] = 1 .. Len(method[h])
        BY <2>1, <2>2 DEF GivesBack, Locks!Finished
      <3>2. QED BY <2>1, <2>4, <3>1 DEF Locks!Coming
    <2>6. <<c, d>> \in Locks!Nests(method[h])
      BY <1>6, <2>1, <2>5, NestOf
    <2>7. rank[c] < rank[d]
      <3>1. rank[<<c, d>>[1]] < rank[<<c, d>>[2]]
        BY <1>1, <2>6
      <3>2. QED BY <3>1
    <2>8. rank[d] <= rank[c]
      BY <1>5, <2>3, <2>4
    <2>9. QED BY <1>1, <1>2, <2>7, <2>8
  <1>7. writer[c] = {} /\ Locks!NoReaders(c)
    <2>1. \A h \in Goroutines : h \notin writer[c] /\ readers[c][h] = 0
      BY <1>6 DEF LocksNow, LocksHeld, Takes
    <2>2. QED BY <2>1 DEF LocksNow, LocksTypes, Locks!NoReaders
  <1>8. ASSUME NEW h \in waiting[c] PROVE FALSE
    <2>1. h \in Goroutines
      BY <1>8 DEF LocksNow, LocksTypes
    <2>2. at[h] < Len(method[h]) /\ method[h][at[h] + 1] = Locks!Do("W", c) /\ waiting[c] = {h}
      BY <1>8, <2>1 DEF LocksNow, LocksHeld
    <2>3. ~Locks!Finished(h)
      <3>1. at[h] \in Nat /\ Len(method[h]) \in Nat
        BY <2>1, OrderlyGivesBack DEF LocksNow, LocksTypes, GivesBack
      <3>2. QED BY <2>2, <3>1 DEF Locks!Finished
    <2>4. Locks!Waits(h)
      BY <2>1, <2>3 DEF Locks!Stuck
    <2>5. QED BY <1>7, <2>2, <2>4 DEF Locks!Waits, Locks!Coming, Locks!Do
  <1>9. Locks!Free(c)
    BY <1>7, <1>8 DEF Locks!Free
  <1>10. QED BY <1>5, <1>9 DEF Locks!Waits, Locks!Coming, Locks!Do

\* Collections used in one order never make their users wait for ever, for any
\* goroutines and any collections (list.go:137-147, dictionary.go:241-261).
THEOREM NeverSticks == CollectionsSpec => []OrderedUseNeverSticks
  <1>1. CollectionsInit => LocksInv
    BY LocksBegin DEF CollectionsInit
  <1>2. LocksInv /\ [CollectionsNext]_allVars => LocksInv'
    <2>1. CollectionsNext => Locks!Next \/ UNCHANGED locks
      BY DEF CollectionsNext
    <2>2. UNCHANGED allVars => UNCHANGED locks
      BY DEF allVars
    <2>3. QED BY <2>1, <2>2, LocksKept, LocksStutter
  <1>3. LocksInv => OrderedUseNeverSticks
    BY NobodySticks
  <1>4. QED BY <1>1, <1>2, <1>3, PTL DEF CollectionsSpec

-----------------------------------------------------------------------------
(* The iterator of a Dict.                                                 *)

\* In a pass that no Reset has touched every key is seen, in the goroutine's
\* hands or still ahead of it, and a closed channel has nothing ahead.
PassInv ==
    /\ DOMAIN dict \subseteq Keys /\ DOMAIN mine \subseteq Keys
    /\ sending \in Keys \cup {None} /\ left \subseteq Keys /\ left \cap seen = {} /\ sending \notin left \cup seen
    /\ seen \subseteq Keys /\ initd \in BOOLEAN /\ reset \in BOOLEAN
    /\ chan # "open" => sending = None
    /\ chan = "open" => initd
    /\ call = "next" => initd
    /\ reset => call \in {"first", "drain"}
    /\ initd /\ ~cut /\ call \notin {"first", "drain"} =>
           /\ DOMAIN mine = seen \cup left \cup ({sending} \ {None})
           /\ chan = "closed" => left = {}

\* What a call that writes the map leaves: keys, and a pass nobody is in.
LEMMA InPlaceKeeps ==
  ASSUME PassInv, NEW d, DOMAIN d \subseteq Keys, Plain!InPlace(d)
  PROVE  PassInv'
  BY DEF PassInv, Plain!InPlace

\* Every method that writes keeps the invariant of a pass.
LEMMA WritesKeep ==
  ASSUME PassInv, Plain!Writes
  PROVE  PassInv'
  <1>1. DOMAIN dict \subseteq Keys
    BY DEF PassInv
  <1>2. ASSUME NEW k \in Keys, NEW v, Plain!Set(k, v) PROVE PassInv'
    <2>1. DOMAIN Plain!With(dict, Plain!Pair(k, v)) \subseteq Keys
      BY <1>1 DEF Plain!With, Plain!Pair
    <2>2. QED BY <1>2, <2>1, InPlaceKeeps DEF Plain!Set
  <1>3. ASSUME NEW k \in Keys, NEW v, Plain!SetDefault(k, v) PROVE PassInv'
    <2>1. DOMAIN Plain!With(Plain!Pair(k, v), dict) \subseteq Keys
      BY <1>1 DEF Plain!With, Plain!Pair
    <2>2. QED BY <1>3, <2>1, InPlaceKeeps DEF Plain!SetDefault
  <1>4. \A K : DOMAIN Plain!Without(dict, K) \subseteq Keys
    BY <1>1 DEF Plain!Without
  <1>5. ASSUME NEW k \in Keys, Plain!RemoveAt(k) PROVE PassInv'
    BY <1>4, <1>5, InPlaceKeeps DEF Plain!RemoveAt
  <1>6. ASSUME NEW v, Plain!RemoveValue(v) PROVE PassInv'
    BY <1>4, <1>6, InPlaceKeeps DEF Plain!RemoveValue
  <1>7. ASSUME NEW g \in [Keys -> {1}], Plain!Update(g) PROVE PassInv'
    <2>1. DOMAIN Plain!With(dict, g) \subseteq Keys
      BY <1>1 DEF Plain!With
    <2>2. QED BY <1>7, <2>1, InPlaceKeeps DEF Plain!Update
  <1>8. ASSUME Plain!Pop PROVE PassInv'
    <2>1. CASE DOMAIN dict = {}
      BY <1>1, <1>8, <2>1, InPlaceKeeps DEF Plain!Pop
    <2>2. CASE DOMAIN dict # {}
      BY <1>4, <1>8, <2>2, InPlaceKeeps DEF Plain!Pop
    <2>3. QED BY <2>1, <2>2
  <1>9. ASSUME Plain!Replace PROVE PassInv'
    <2>1. DOMAIN dict' \subseteq Keys
      <3>1. \A k \in Keys : \A v : DOMAIN Plain!With(dict, Plain!Pair(k, v)) \subseteq Keys
        BY <1>1 DEF Plain!With, Plain!Pair
      <3>2. DOMAIN <<>> = {}
        OBVIOUS
      <3>3. QED BY <1>4, <1>9, <3>1, <3>2 DEF Plain!Replace
    <2>2. QED BY <1>9, <2>1 DEF PassInv, Plain!Replace
  <1>10. QED BY <1>2, <1>3, <1>5, <1>6, <1>7, <1>8, <1>9 DEF Plain!Writes

\* Every step of a dictionary and its iterator keeps the invariant of a pass.
LEMMA PassKept ==
  ASSUME PassInv, Plain!Next
  PROVE  PassInv'
  <1> USE CollectionsAssumption DEF PassInv
  <1>1. CASE Plain!Writes
    BY <1>1, WritesKeep
  <1>2. CASE Plain!NewIterator
    BY <1>2 DEF Plain!NewIterator
  <1>3. CASE Plain!NextCall
    <2>1. CASE initd
      BY <1>3, <2>1 DEF Plain!NextCall
    <2>2. CASE ~initd
      <3>1. sending = None /\ ~reset
        BY <1>3, <2>2 DEF Plain!NextCall
      <3>2. QED BY <1>3, <2>2, <3>1 DEF Plain!NextCall
    <2>3. QED BY <2>1, <2>2
  <1>4. CASE Plain!ResetCall
    BY <1>4 DEF Plain!ResetCall
  <1>5. CASE Plain!NextReceive
    BY <1>5 DEF Plain!NextReceive
  <1>6. CASE Plain!NextEnds
    BY <1>6 DEF Plain!NextEnds
  <1>7. CASE Plain!ResetReceive
    BY <1>7 DEF Plain!ResetReceive
  <1>8. CASE Plain!ResetEnds
    BY <1>8 DEF Plain!ResetEnds
  <1>9. ASSUME NEW k \in left, Plain!Produce(k) PROVE PassInv'
    BY <1>9 DEF Plain!Produce
  <1>10. CASE Plain!Close
    BY <1>10 DEF Plain!Close, Plain!SeesReset
  <1>11. QED BY <1>1, <1>2, <1>3, <1>4, <1>5, <1>6, <1>7, <1>8, <1>9, <1>10 DEF Plain!Next, Plain!Iterates

\* A pass over a dictionary shows each of its keys once, and ends only when it
\* has, for any keys; that a Reset returns is left to the runs
\* (dictionary.go:373-418).
THEOREM PassesShowAll == CollectionsSpec => Plain!PassShowsAll
  <1>1. CollectionsInit => PassInv
    <2>1. DOMAIN <<>> = {}
      OBVIOUS
    <2>2. QED BY <2>1, CollectionsAssumption DEF CollectionsInit, Plain!Init, PassInv
  <1>2. PassInv /\ [CollectionsNext]_allVars => PassInv'
    <2>1. CollectionsNext => Plain!Next \/ UNCHANGED plain
      BY DEF CollectionsNext
    <2>2. PassInv /\ (UNCHANGED plain \/ UNCHANGED allVars) => PassInv'
      BY DEF plain, allVars, PassInv
    <2>3. QED BY <2>1, <2>2, PassKept
  <1>3. PassInv /\ [CollectionsNext]_allVars =>
            [/\ Plain!NextEnds => cut \/ seen = DOMAIN mine
             /\ Plain!NextReceive => sending \notin seen]_Plain!vars
    BY DEF PassInv, Plain!NextEnds, Plain!NextReceive
  <1>4. QED BY <1>1, <1>2, <1>3, PTL DEF CollectionsSpec, Plain!PassShowsAll

-----------------------------------------------------------------------------
(* Chains.                                                                 *)

\* On links that lead somewhere lower, a walk is a node and the walk on from it.
LEMMA WalkUnfolds ==
  ASSUME NEW c, NEW N \in Nat, Len(c.link) = N, NEW rank \in [0 .. N -> 0 .. N],
         \A m \in 1 .. N : c.link[m] \in 0 .. N /\ rank[c.link[m]] < rank[m]
  PROVE  \A m \in 0 .. N : Walk(c, m) = IF m = 0 THEN <<>> ELSE <<m>> \o Walk(c, c.link[m])
  <1> DEFINE step(w, m) == IF m = 0 THEN <<>> ELSE <<m>> \o w[c.link[m]]
             D(k) == {m \in 0 .. N : rank[m] < k}
             T == {k \in Nat : \E w : w = [m \in D(k) |-> step(w, m)]}
  <1>1. 0 \in T
    <2>1. D(0) = {}
      OBVIOUS
    <2> HIDE DEF D, step
    <2>2. ASSUME NEW w PROVE [m \in D(0) |-> step(w, m)] = [m \in {} |-> 0]
      BY <2>1
    <2>3. \E w : w = [m \in D(0) |-> step(w, m)]
      BY <2>2, Zenon
    <2>4. QED BY <2>3
  <1>2. ASSUME NEW k \in Nat, k \in T PROVE k + 1 \in T
    <2>1. PICK w : w = [m \in D(k) |-> step(w, m)]
      BY <1>2
    <2> DEFINE h == [m \in D(k + 1) |-> step(w, m)]
    <2>2. \A m \in D(k) : m \in D(k + 1)
      <3>1. \A m \in 0 .. N : rank[m] < k => rank[m] < k + 1
        OBVIOUS
      <3>2. QED BY <3>1
    <2>3. \A m \in D(k) : h[m] = w[m]
      <3> HIDE DEF step, D
      <3>1. \A m \in D(k) : w[m] = step(w, m)
        BY <2>1, Zenon
      <3>2. \A m \in D(k) : h[m] = step(w, m)
        BY <2>2, Zenon
      <3>3. QED BY <3>1, <3>2
    <2>4. ASSUME NEW m \in D(k + 1) PROVE step(w, m) = step(h, m)
      <3>1. CASE m = 0
        BY <3>1
      <3>2. CASE m # 0
        <4>1. c.link[m] \in 0 .. N /\ rank[c.link[m]] < rank[m] /\ rank[m] < k + 1
          <5>1. m \in 0 .. N /\ rank[m] < k + 1
            OBVIOUS
          <5>2. m \in 1 .. N
            BY <3>2, <5>1
          <5>3. QED BY <5>1, <5>2
        <4>2. c.link[m] \in D(k)
          <5>1. rank[c.link[m]] \in 0 .. N /\ rank[m] \in 0 .. N
            BY <4>1
          <5>2. rank[c.link[m]] < k
            <6>1. \A a, b \in Int : a < b /\ b < k + 1 => a < k
              OBVIOUS
            <6>2. rank[c.link[m]] \in Int /\ rank[m] \in Int
              BY <5>1
            <6>3. QED BY <4>1, <6>1, <6>2, Zenon
          <5>3. QED BY <4>1, <5>2
        <4>3. h[c.link[m]] = w[c.link[m]]
          BY <2>3, <4>2
        <4>4. QED BY <3>2, <4>3, Zenon
      <3>3. QED BY <3>1, <3>2
    <2> DEFINE B == [m \in D(k + 1) |-> step(h, m)]
    <2>5. h = B
      <3> DEFINE C == [m \in D(k + 1) |-> step(w, m)]
      <3>1. C = B
        <4> HIDE DEF h
        <4>1. \A m \in D(k + 1) : step(w, m) = step(h, m)
          BY <2>4
        <4> HIDE DEF step, D
        <4>2. QED BY <4>1, Zenon
      <3>2. QED BY <3>1, Zenon
    <2> HIDE DEF h, step, D
    <2>6. \E f : f = [m \in D(k + 1) |-> step(f, m)]
      BY <2>5, Zenon
    <2>7. QED BY <2>6
  <1>3. N + 1 \in T
    <2> HIDE DEF T
    <2>1. T \in SUBSET Nat
      BY DEF T
    <2>2. \A k \in Nat : k \in T
      BY <1>1, <1>2, <2>1, Induction
    <2>3. QED BY <2>2
  <1>4. D(N + 1) = 0 .. N
    OBVIOUS
  <1>5. PICK w : w = [m \in 0 .. N |-> step(w, m)]
    <2>1. \E w : w = [m \in D(N + 1) |-> step(w, m)]
      BY <1>3
    <2> HIDE DEF D, step
    <2>2. QED BY <1>4, <2>1, Zenon
  <1> DEFINE walk == CHOOSE f : f = [m \in 0 .. N |-> step(f, m)]
  <1>6. walk = [m \in 0 .. N |-> step(walk, m)]
    <2> HIDE DEF step
    <2>1. QED BY <1>5, Zenon
  <1>7. \A m : Walk(c, m) = walk[m]
    BY Zenon DEF Walk
  <1> HIDE DEF walk
  <1>8. \A m \in 0 .. N : walk[m] = step(walk, m)
    <2> HIDE DEF step
    <2>1. QED BY <1>6, Zenon
  <1>9. \A m \in 0 .. N : m # 0 => c.link[m] \in 0 .. N
    OBVIOUS
  <1>10. QED BY <1>7, <1>8, <1>9, Zenon

Shapes == [data : Seq(Values), link : Seq(Nat), head : Nat, tail : Nat, len : Nat]

\* The nodes of a queue are the last ones allocated, each linked to the next.
QueueShape(c) ==
    /\ c \in Shapes /\ Len(c.link) = Len(c.data)
    /\ \A m \in 1 .. Len(c.link) : c.link[m] \in {0, m + 1} /\ c.link[m] <= Len(c.link)
    /\ c.head = 0 => c.tail = 0 /\ c.len = 0
    /\ c.head # 0 => /\ c.head <= Len(c.link) /\ c.tail = Len(c.link)
                     /\ c.len = c.tail - c.head + 1
                     /\ \A m \in c.head .. (c.tail - 1) : c.link[m] = m + 1

\* The nodes from n on.
LEMMA QueueWalk ==
  ASSUME NEW c, QueueShape(c)
  PROVE  Walk(c, c.head) = [i \in 1 .. c.len |-> c.head + i - 1]
  <1> DEFINE N == Len(c.link)
             rank == [m \in 0 .. N |-> IF m = 0 THEN 0 ELSE N - m + 1]
             from(m) == [i \in 1 .. (N - m + 1) |-> m + i - 1]
             T == {k \in Nat : c.head # 0 /\ N - k >= c.head => Walk(c, N - k) = from(N - k)}
  <1>1. N \in Nat /\ c.head \in Nat /\ c.len \in Nat
    BY DEF QueueShape, Shapes
  <1>2. \A m \in 0 .. N : Walk(c, m) = IF m = 0 THEN <<>> ELSE <<m>> \o Walk(c, c.link[m])
    <2>1. rank \in [0 .. N -> 0 .. N]
      BY <1>1
    <2>2. ASSUME NEW m \in 1 .. N PROVE c.link[m] \in 0 .. N /\ rank[c.link[m]] < rank[m]
      <3>1. c.link[m] \in {0, m + 1} /\ c.link[m] <= N
        BY DEF QueueShape
      <3>2. QED BY <1>1, <3>1
    <2> HIDE DEF rank, N
    <2>3. QED BY <1>1, <2>1, <2>2, WalkUnfolds DEF N
  <1> HIDE DEF N
  <1>3. CASE c.head = 0
    <2>1. c.len = 0
      BY <1>3 DEF QueueShape
    <2>2. Walk(c, 0) = <<>>
      <3>1. 0 \in 0 .. N
        BY <1>1
      <3>2. QED BY <1>2, <3>1, Zenon
    <2>3. [i \in 1 .. 0 |-> c.head + i - 1] = <<>>
      OBVIOUS
    <2>4. QED BY <1>3, <2>1, <2>2, <2>3
  <1>4. CASE c.head # 0
    <2>1. /\ c.head <= N /\ c.len = N - c.head + 1
          /\ \A m \in c.head .. (N - 1) : c.link[m] = m + 1
          /\ c.link[N] \in {0, N + 1} /\ c.link[N] <= N
      BY <1>1, <1>4 DEF QueueShape, N
    <2>2. c.link[N] = 0
      BY <1>1, <2>1
    <2>3. 0 \in T
      <3>1. Walk(c, N) = <<N>> \o <<>>
        <4>1. N \in 0 .. N /\ 0 \in 0 .. N /\ N # 0
          BY <1>1, <1>4, <2>1
        <4>2. Walk(c, N) = <<N>> \o Walk(c, 0) /\ Walk(c, 0) = <<>>
          BY <1>2, <2>2, <4>1, Zenon
        <4>3. QED BY <4>2
      <3>2. from(N) = <<N>>
        BY <1>1
      <3>3. QED BY <1>1, <3>1, <3>2
    <2>4. ASSUME NEW k \in T PROVE k + 1 \in T
      <3> SUFFICES ASSUME N - (k + 1) >= c.head PROVE Walk(c, N - (k + 1)) = from(N - (k + 1))
        OBVIOUS
      <3> DEFINE m == N - (k + 1)
      <3>1. m \in Nat /\ m + 1 = N - k /\ m \in c.head .. (N - 1) /\ m \in 1 .. N
        BY <1>1, <1>4
      <3>2. Walk(c, m + 1) = from(m + 1)
        <4>1. N - k >= c.head
          BY <1>1, <3>1
        <4>2. Walk(c, N - k) = from(N - k)
          BY <1>4, <4>1
        <4> HIDE DEF T, m, from
        <4>3. QED BY <3>1, <4>2
      <3>3. Walk(c, m) = <<m>> \o Walk(c, m + 1)
        <4>1. c.link[m] = m + 1 /\ m \in 0 .. N /\ m # 0
          BY <1>1, <2>1, <3>1
        <4>2. QED BY <1>2, <4>1, Zenon
      <3> HIDE DEF m
      <3>4. <<m>> \o from(m + 1) = from(m)
        <4>1. Len(from(m + 1)) = N - m /\ Len(from(m)) = N - m + 1
          BY <1>1, <3>1
        <4>2. QED BY <1>1, <3>1, <4>1
      <3>5. QED BY <3>2, <3>3, <3>4 DEF m
    <2>5. N - c.head \in T
      <3> HIDE DEF T
      <3>1. T \in SUBSET Nat
        BY DEF T
      <3>2. N - c.head \in Nat
        BY <1>1, <2>1
      <3> HIDE DEF from, rank
      <3>3. \A n \in Nat : n \in T
        BY <2>3, <2>4, <3>1, Induction
      <3>4. QED BY <3>2, <3>3
    <2>6. N - (N - c.head) = c.head
      BY <1>1
    <2>7. Walk(c, c.head) = from(c.head)
      <3> HIDE DEF from
      <3>1. QED BY <1>1, <1>4, <2>5, <2>6
    <2>8. QED BY <2>1, <2>7
  <1>5. QED BY <1>3, <1>4

\* So a reader sees the values of the last nodes.
LEMMA QueueSlice ==
  ASSUME NEW c, QueueShape(c)
  PROVE  /\ ToSlice(c) = [i \in 1 .. c.len |-> c.data[c.head + i - 1]]
         /\ Len(ToSlice(c)) = c.len /\ c.len \in Nat
         /\ ToSlice(c) \in Seq(Values)
  <1>1. Walk(c, c.head) = [i \in 1 .. c.len |-> c.head + i - 1] /\ c.len \in Nat
    BY QueueWalk DEF QueueShape, Shapes
  <1> DEFINE w == [i \in 1 .. c.len |-> c.head + i - 1]
  <1>2. Data(c, w) = [i \in 1 .. c.len |-> c.data[c.head + i - 1]]
    BY <1>1 DEF Data
  <1>3. \A i \in 1 .. c.len : c.data[c.head + i - 1] \in Values
    <2>1. CASE c.head = 0
      BY <2>1 DEF QueueShape
    <2>2. CASE c.head # 0
      <3>1. /\ c.head <= c.tail /\ c.tail = Len(c.data) /\ c.len = c.tail - c.head + 1
            /\ c.data \in Seq(Values) /\ c.head \in Nat
        BY <2>2 DEF QueueShape, Shapes
      <3>2. Len(c.data) \in Nat
        BY <3>1
      <3>3. \A i \in 1 .. c.len : c.head + i - 1 \in 1 .. Len(c.data)
        BY <2>2, <3>1, <3>2
      <3>4. QED BY <3>1, <3>3, ElementOfSeq
    <2>3. QED BY <2>1, <2>2
  <1> DEFINE d == [i \in 1 .. c.len |-> c.data[c.head + i - 1]]
  <1>4. d \in Seq(Values) /\ Len(d) = c.len
    BY <1>1, <1>3
  <1>5. SubSeq(d, 1, c.len) = d
    <2> HIDE DEF d
    <2>1. QED BY <1>1, <1>4
  <1>6. QED BY <1>1, <1>2, <1>4, <1>5 DEF ToSlice

\* Push puts a node behind the last one, and its value at the end.
LEMMA QueuePushOne ==
  ASSUME NEW c, QueueShape(c), NEW v \in Values
  PROVE  QueueShape(PushOne(c, v)) /\ ToSlice(PushOne(c, v)) = Append(ToSlice(c), v)
  <1> DEFINE N == Len(c.link)
             n == Len(c.data) + 1
             d == PushOne(c, v)
             l == IF c.head = 0 THEN c.link ELSE [c.link EXCEPT ![c.tail] = n]
  <1>1. /\ N \in Nat /\ n = N + 1 /\ c.data \in Seq(Values) /\ Len(c.data) = N
        /\ c.link \in Seq(Nat) /\ c.head \in Nat /\ c.tail \in Nat /\ c.len \in Nat
    BY DEF QueueShape, Shapes
  <1> HIDE DEF N, n
  <1>2. l \in Seq(Nat) /\ Len(l) = N /\ \A m \in 1 .. N : l[m] = IF c.head # 0 /\ m = c.tail THEN n ELSE c.link[m]
    <2>1. Len(c.link) = N /\ n \in Nat
      BY <1>1 DEF N
    <2>2. CASE c.head = 0
      BY <1>1, <2>1, <2>2
    <2>3. CASE c.head # 0
      <3>1. c.link \in [1 .. N -> Nat] /\ l = [c.link EXCEPT ![c.tail] = n]
        BY <1>1, <2>1, <2>3
      <3> HIDE DEF l
      <3>2. l \in [1 .. N -> Nat] /\ \A m \in 1 .. N : l[m] = IF m = c.tail THEN n ELSE c.link[m]
        BY <2>1, <3>1
      <3>3. l \in Seq(Nat) /\ Len(l) = N
        BY <1>1, <3>2
      <3>4. QED BY <2>3, <3>2, <3>3
    <2>4. QED BY <2>2, <2>3
  <1> HIDE DEF l
  <1>3. /\ d.data = Append(c.data, v) /\ d.link = Append(l, 0)
        /\ d.head = (IF c.head = 0 THEN n ELSE c.head) /\ d.tail = n /\ d.len = c.len + 1
        /\ d = [data |-> d.data, link |-> d.link, head |-> d.head, tail |-> d.tail, len |-> d.len]
    BY DEF PushOne, l, n
  <1> HIDE DEF d
  <1>4. d \in Shapes /\ Len(d.link) = N + 1 /\ Len(d.data) = N + 1
    <2>1. d.data \in Seq(Values) /\ Len(d.data) = N + 1
      BY <1>1, <1>3
    <2>2. d.link \in Seq(Nat) /\ Len(d.link) = N + 1
      BY <1>2, <1>3
    <2>3. d.head \in Nat /\ d.tail \in Nat /\ d.len \in Nat
      BY <1>1, <1>3
    <2>4. QED BY <1>3, <2>1, <2>2, <2>3 DEF Shapes
  <1>5. \A m \in 1 .. N : d.link[m] = l[m] /\ d.data[m] = c.data[m]
    BY <1>1, <1>2, <1>3
  <1>6. d.link[n] = 0 /\ d.data[n] = v
    BY <1>1, <1>2, <1>3
  <1>7. ASSUME NEW m \in 1 .. n PROVE d.link[m] \in {0, m + 1} /\ d.link[m] <= n
    <2>1. CASE m = n
      BY <1>1, <1>6, <2>1
    <2>2. CASE m \in 1 .. N /\ c.head # 0 /\ m = c.tail
      <3>1. c.tail = N
        BY <2>2 DEF QueueShape, N
      <3>2. QED BY <1>1, <1>2, <1>5, <2>2, <3>1
    <2>3. CASE m \in 1 .. N /\ ~(c.head # 0 /\ m = c.tail)
      <3>1. c.link[m] \in {0, m + 1} /\ c.link[m] <= N
        BY <2>3 DEF QueueShape, N
      <3>2. d.link[m] = c.link[m]
        BY <1>2, <1>5, <2>3
      <3>3. QED BY <1>1, <3>1, <3>2
    <2>4. QED BY <1>1, <2>1, <2>2, <2>3
  <1>8. CASE c.head = 0
    <2>1. c.len = 0 /\ d.head = n /\ d.len = 1
      BY <1>1, <1>3, <1>8 DEF QueueShape
    <2>2. QueueShape(d)
      <3>1. n # 0 /\ d.tail = n /\ Len(d.link) = n /\ d.len = d.tail - d.head + 1
        BY <1>1, <1>3, <1>4, <2>1
      <3>2. d.head .. (d.tail - 1) = {}
        BY <1>1, <2>1, <3>1
      <3>3. Len(d.link) = Len(d.data) /\ d.head # 0 /\ d.head <= Len(d.link)
        BY <1>1, <1>4, <2>1, <3>1
      <3>4. \A m \in 1 .. Len(d.link) : d.link[m] \in {0, m + 1} /\ d.link[m] <= Len(d.link)
        BY <1>7, <3>1
      <3>5. QED BY <1>4, <3>1, <3>2, <3>3, <3>4 DEF QueueShape
    <2>3. ToSlice(c) = <<>>
      BY <2>1, QueueSlice
    <2>4. ToSlice(d) = <<v>>
      <3>1. ToSlice(d) = [i \in 1 .. 1 |-> d.data[n + i - 1]]
        <4>1. ToSlice(d) = [i \in 1 .. d.len |-> d.data[d.head + i - 1]]
          BY <2>2, QueueSlice
        <4>2. QED BY <2>1, <4>1
      <3>2. d.data[n + 1 - 1] = v
        BY <1>1, <1>6
      <3>3. QED BY <3>1, <3>2
    <2>5. QED BY <2>2, <2>3, <2>4 DEF d
  <1>9. CASE c.head # 0
    <2>1. /\ c.head <= N /\ c.tail = N /\ c.len = N - c.head + 1 /\ d.head = c.head
          /\ \A m \in c.head .. (N - 1) : c.link[m] = m + 1
      <3>1. /\ c.head <= N /\ c.tail = N /\ c.len = c.tail - c.head + 1
            /\ \A m \in c.head .. (c.tail - 1) : c.link[m] = m + 1
        BY <1>9 DEF QueueShape, N
      <3>2. QED BY <1>3, <1>9, <3>1
    <2>2. ASSUME NEW m \in c.head .. (n - 1) PROVE d.link[m] = m + 1
      <3>1. m \in 1 .. N /\ (m = N \/ m \in c.head .. (N - 1))
        BY <1>1, <1>9, <2>1
      <3>2. QED BY <1>1, <1>2, <1>5, <1>9, <2>1, <3>1
    <2>3. QueueShape(d)
      <3>1. d.head # 0 /\ d.head <= n /\ d.tail = n /\ Len(d.link) = n /\ d.len = d.tail - d.head + 1
        <4>1. d.head = c.head /\ d.tail = n /\ Len(d.link) = n
          BY <1>1, <1>3, <1>4, <2>1
        <4>2. c.head \in Nat /\ N \in Nat /\ n = N + 1 /\ c.head <= N /\ c.len = N - c.head + 1 /\ d.len = c.len + 1
          BY <1>1, <1>3, <2>1
        <4>3. c.head <= n /\ d.len = n - c.head + 1
          BY <4>2
        <4>4. QED BY <1>9, <4>1, <4>3
      <3>2. QED BY <1>1, <1>4, <1>7, <2>1, <2>2, <3>1 DEF QueueShape
    <2>4. /\ ToSlice(c) = [i \in 1 .. c.len |-> c.data[c.head + i - 1]] /\ ToSlice(c) \in Seq(Values)
          /\ ToSlice(d) = [i \in 1 .. d.len |-> d.data[d.head + i - 1]] /\ ToSlice(d) \in Seq(Values)
          /\ Len(ToSlice(c)) = c.len /\ Len(ToSlice(d)) = c.len + 1
      BY <1>3, <2>3, QueueSlice
    <2>5. \A i \in 1 .. c.len : ToSlice(d)[i] = ToSlice(c)[i]
      <3>1. \A i \in 1 .. c.len : c.head + i - 1 \in 1 .. N /\ i \in 1 .. d.len
        <4>1. /\ c.head \in Nat /\ c.head # 0 /\ N \in Nat /\ c.head <= N
              /\ c.len = N - c.head + 1 /\ d.len = c.len + 1
          BY <1>1, <1>3, <1>9, <2>1
        <4>2. QED BY <4>1
      <3>2. QED BY <1>5, <2>1, <2>4, <3>1
    <2>6. ToSlice(d)[c.len + 1] = v
      <3>1. c.head + (c.len + 1) - 1 = n /\ c.len + 1 \in 1 .. d.len
        <4>1. /\ c.head \in Nat /\ N \in Nat /\ n = N + 1 /\ c.head <= N
              /\ c.len = N - c.head + 1 /\ d.len = c.len + 1
          BY <1>1, <1>3, <2>1
        <4>2. QED BY <4>1
      <3>2. QED BY <1>6, <2>1, <2>4, <3>1
    <2>7. ToSlice(d) = Append(ToSlice(c), v)
      <3> DEFINE s == ToSlice(c)
                 t == ToSlice(d)
      <3>1. s \in Seq(Values) /\ t \in Seq(Values) /\ Len(t) = Len(s) + 1 /\ t[Len(s) + 1] = v
            /\ \A i \in 1 .. Len(s) : t[i] = s[i]
        BY <1>1, <2>4, <2>5, <2>6
      <3> HIDE DEF s, t
      <3>2. t = Append(s, v)
        BY <3>1
      <3>3. QED BY <3>2 DEF s, t
    <2>8. QED BY <2>3, <2>7 DEF d
  <1>10. QED BY <1>8, <1>9 DEF d

\* One value or two.
LEMMA PushedUnfolds ==
  ASSUME NEW c, NEW vs, Len(vs) \in {1, 2}
  PROVE  Pushed(c, vs) = IF Len(vs) = 1 THEN PushOne(c, vs[1]) ELSE PushOne(PushOne(c, vs[1]), vs[2])
  <1> DEFINE step(g, k) == IF k = 0 THEN c ELSE PushOne(g[k - 1], vs[k])
             one == PushOne(c, vs[1])
             two == PushOne(one, vs[2])
             value(k) == IF k = 0 THEN c ELSE IF k = 1 THEN one ELSE two
             h == [k \in 0 .. Len(vs) |-> value(k)]
  <1>1. ASSUME NEW k \in 0 .. Len(vs) PROVE value(k) = step(h, k)
    <2>1. k \in {0, 1, 2} /\ (k = 2 => 1 \in 0 .. Len(vs)) /\ 0 \in 0 .. Len(vs)
      <3>1. \A n \in {1, 2} : \A i \in 0 .. n : i \in {0, 1, 2} /\ (i = 2 => 1 \in 0 .. n) /\ 0 \in 0 .. n
        OBVIOUS
      <3> HIDE DEF value, h, step, one, two
      <3>2. QED BY <3>1
    <2>2. CASE k = 0
      BY <2>2
    <2>3. CASE k = 1
      <3>1. h[0] = c
        BY <2>1
      <3>2. k - 1 = 0
        BY <2>3
      <3>3. QED BY <2>3, <3>1, <3>2
    <2>4. CASE k = 2
      <3>1. h[1] = one
        BY <2>1, <2>4
      <3>2. k - 1 = 1
        BY <2>4
      <3>3. QED BY <2>4, <3>1, <3>2
    <2>5. QED BY <2>1, <2>2, <2>3, <2>4
  <1>2. h = [k \in 0 .. Len(vs) |-> step(h, k)]
    <2> DEFINE B == [k \in 0 .. Len(vs) |-> value(k)]
               C == [k \in 0 .. Len(vs) |-> step(h, k)]
    <2>1. B = C
      <3> HIDE DEF h
      <3>1. \A k \in 0 .. Len(vs) : value(k) = step(h, k)
        BY <1>1
      <3> HIDE DEF value, step
      <3>2. QED BY <3>1, Zenon
    <2>2. QED BY <2>1, Zenon
  <1> DEFINE after == CHOOSE g : g = [k \in 0 .. Len(vs) |-> step(g, k)]
  <1>3. after = [k \in 0 .. Len(vs) |-> step(after, k)]
    <2> HIDE DEF h, step
    <2>1. \E g : g = [k \in 0 .. Len(vs) |-> step(g, k)]
      BY <1>2, Zenon
    <2>2. QED BY <2>1, Zenon
  <1>4. Pushed(c, vs) = after[Len(vs)]
    BY Zenon DEF Pushed
  <1> HIDE DEF after
  <1>5. \A k \in 0 .. Len(vs) : after[k] = step(after, k)
    <2> HIDE DEF step
    <2>1. QED BY <1>3, Zenon
  <1>6. 0 \in 0 .. Len(vs) /\ 1 \in 0 .. Len(vs) /\ Len(vs) \in 0 .. Len(vs) /\ 1 - 1 = 0 /\ 2 - 1 = 1 /\ 1 # 0 /\ 2 # 0
    OBVIOUS
  <1>7. after[0] = c
    BY <1>5, <1>6, Zenon
  <1>8. after[1] = PushOne(after[1 - 1], vs[1])
    BY <1>5, <1>6, Zenon
  <1>9. CASE Len(vs) = 1
    BY <1>4, <1>6, <1>7, <1>8, <1>9
  <1>10. CASE Len(vs) = 2
    <2>1. after[2] = PushOne(after[2 - 1], vs[2])
      BY <1>5, <1>6, <1>10, Zenon
    <2>2. QED BY <1>4, <1>6, <1>7, <1>8, <1>10, <2>1
  <1>11. QED BY <1>9, <1>10

\* Push puts its values at the back.
LEMMA QueuePushed ==
  ASSUME NEW c, QueueShape(c), NEW vs \in Inputs
  PROVE  /\ QueueShape(Pushed(c, vs))
         /\ Len(ToSlice(Pushed(c, vs))) > Len(ToSlice(c))
         /\ SubSeq(ToSlice(Pushed(c, vs)), 1, Len(ToSlice(c))) = ToSlice(c)
  <1> DEFINE s == ToSlice(c)
  <1>1. s \in Seq(Values)
    BY QueueSlice
  <1>2. /\ \A v \in Values : Len(Append(s, v)) > Len(s) /\ SubSeq(Append(s, v), 1, Len(s)) = s
        /\ \A v, w \in Values : /\ Len(Append(Append(s, v), w)) > Len(s)
                                /\ SubSeq(Append(Append(s, v), w), 1, Len(s)) = s
    <2> HIDE DEF s
    <2>1. ASSUME NEW v \in Values PROVE Len(Append(s, v)) > Len(s) /\ SubSeq(Append(s, v), 1, Len(s)) = s
      BY <1>1
    <2>2. ASSUME NEW v \in Values, NEW w \in Values
          PROVE  /\ Len(Append(Append(s, v), w)) > Len(s)
                 /\ SubSeq(Append(Append(s, v), w), 1, Len(s)) = s
      BY <1>1
    <2>3. QED BY <2>1, <2>2
  <1>3. CASE vs \in {<<v>> : v \in Values}
    <2>1. Len(vs) = 1 /\ vs[1] \in Values
      BY <1>3
    <2>2. Pushed(c, vs) = PushOne(c, vs[1])
      BY <2>1, PushedUnfolds
    <2>3. QueueShape(PushOne(c, vs[1])) /\ ToSlice(PushOne(c, vs[1])) = Append(s, vs[1])
      BY <2>1, QueuePushOne
    <2>4. QED BY <1>2, <2>1, <2>2, <2>3
  <1>4. CASE vs \in Values \X Values
    <2>1. Len(vs) = 2 /\ vs[1] \in Values /\ vs[2] \in Values
      BY <1>4
    <2> DEFINE one == PushOne(c, vs[1])
    <2>2. Pushed(c, vs) = PushOne(one, vs[2])
      BY <2>1, PushedUnfolds
    <2>3. QueueShape(one) /\ ToSlice(one) = Append(s, vs[1])
      BY <2>1, QueuePushOne
    <2>4. QueueShape(PushOne(one, vs[2])) /\ ToSlice(PushOne(one, vs[2])) = Append(ToSlice(one), vs[2])
      <3> HIDE DEF one
      <3>1. QED BY <2>1, <2>3, QueuePushOne
    <2>5. QED BY <1>2, <2>1, <2>2, <2>3, <2>4
  <1>5. QED BY <1>3, <1>4 DEF Inputs

\* Pull takes the first, and says which it was.
LEMMA QueuePulled ==
  ASSUME NEW c, QueueShape(c)
  PROVE  /\ QueueShape(Pulled(c)) /\ Pulled(c).link = c.link
         /\ ToSlice(Pulled(c)) = IF ToSlice(c) = <<>> THEN ToSlice(c) ELSE Tail(ToSlice(c))
         /\ FirstOf(c) = IF ToSlice(c) = <<>> THEN None ELSE ToSlice(c)[1]
  <1>1. /\ c.data \in Seq(Values) /\ c.link \in Seq(Nat) /\ Len(c.link) = Len(c.data) /\ Len(c.link) \in Nat
        /\ c.head \in Nat /\ c.tail \in Nat /\ c.len \in Nat
    BY DEF QueueShape, Shapes
  <1>2. /\ ToSlice(c) = [i \in 1 .. c.len |-> c.data[c.head + i - 1]]
        /\ Len(ToSlice(c)) = c.len /\ ToSlice(c) \in Seq(Values)
    BY QueueSlice
  <1>3. CASE c.head = 0
    <2>1. Pulled(c) = c /\ c.len = 0
      BY <1>3 DEF Pulled, QueueShape
    <2>2. ToSlice(c) = <<>>
      BY <1>2, <2>1
    <2>3. QED BY <1>3, <2>1, <2>2 DEF FirstOf, DataAt
  <1>4. CASE c.head # 0
    <2> DEFINE d == Pulled(c)
               after == c.link[c.head]
    <2>1. /\ c.head <= Len(c.link) /\ c.tail = Len(c.link) /\ c.len = c.tail - c.head + 1
          /\ \A m \in c.head .. (c.tail - 1) : c.link[m] = m + 1
          /\ \A m \in 1 .. Len(c.link) : c.link[m] \in {0, m + 1} /\ c.link[m] <= Len(c.link)
      BY <1>4 DEF QueueShape
    <2>2. after = IF c.head = c.tail THEN 0 ELSE c.head + 1
      <3>1. CASE c.head = c.tail
        BY <1>1, <1>4, <2>1, <3>1
      <3>2. CASE c.head # c.tail
        <4>1. c.head \in c.head .. (c.tail - 1)
          BY <1>1, <2>1, <3>2
        <4>2. QED BY <2>1, <3>2, <4>1
      <3>3. QED BY <3>1, <3>2
    <2> HIDE DEF after
    <2>3. /\ d.data = c.data /\ d.link = c.link /\ d.head = after
          /\ d.tail = (IF after = 0 THEN 0 ELSE c.tail) /\ d.len = c.len - 1 /\ d \in Shapes
      <3>1. after \in Nat
        BY <1>1, <2>2
      <3>2. c.len - 1 \in Nat
        <4>1. c.len - 1 = c.tail - c.head
          BY <1>1, <2>1
        <4>2. QED BY <1>1, <2>1, <4>1
      <3>3. c \in Shapes
        BY DEF QueueShape
      <3>4. QED BY <1>1, <1>4, <3>1, <3>2, <3>3 DEF Pulled, Shapes, after
    <2> HIDE DEF d
    <2>4. QueueShape(d)
      <3>1. CASE c.head = c.tail
        BY <1>1, <2>1, <2>2, <2>3, <3>1 DEF QueueShape
      <3>2. CASE c.head # c.tail
        <4>1. /\ d.head = c.head + 1 /\ d.tail = c.tail /\ d.head # 0 /\ d.head <= d.tail
              /\ d.len = d.tail - d.head + 1
          <5>1. after = c.head + 1 /\ after # 0
            BY <1>1, <2>2, <3>2
          <5>2. d.head = c.head + 1 /\ d.tail = c.tail /\ d.len = c.len - 1
            BY <2>3, <5>1
          <5>3. c.head + 1 <= c.tail /\ c.len - 1 = c.tail - (c.head + 1) + 1 /\ c.head + 1 # 0
            BY <1>1, <2>1, <3>2
          <5>4. QED BY <5>2, <5>3
        <4>2. \A m \in d.head .. (d.tail - 1) : d.link[m] = m + 1
          BY <1>1, <2>1, <2>3, <4>1
        <4>3. QED BY <1>1, <2>1, <2>3, <4>1, <4>2 DEF QueueShape
      <3>3. QED BY <3>1, <3>2
    <2>5. /\ ToSlice(d) = [i \in 1 .. d.len |-> d.data[d.head + i - 1]]
          /\ Len(ToSlice(d)) = d.len /\ ToSlice(d) \in Seq(Values)
      BY <2>4, QueueSlice
    <2>6. ToSlice(c) # <<>> /\ ToSlice(c)[1] = c.data[c.head]
      <3>1. c.len >= 1 /\ 1 \in 1 .. c.len /\ c.head + 1 - 1 = c.head
        BY <1>1, <1>4, <2>1
      <3>2. QED BY <1>2, <3>1
    <2>7. ToSlice(d) = Tail(ToSlice(c))
      <3> DEFINE s == ToSlice(c)
                 t == ToSlice(d)
      <3>1. s \in Seq(Values) /\ s # <<>> /\ t \in Seq(Values) /\ Len(t) = Len(s) - 1
        BY <1>1, <1>2, <2>3, <2>5, <2>6
      <3>2. ASSUME NEW i \in 1 .. Len(t) PROVE t[i] = s[i + 1]
        <4>1. i \in 1 .. d.len /\ i + 1 \in 1 .. c.len /\ d.len = c.len - 1 /\ c.len >= 2 /\ d.head = c.head + 1
          <5>1. d.len = c.len - 1 /\ Len(t) = d.len
            BY <2>3, <2>5
          <5>2. i \in 1 .. d.len /\ i + 1 \in 1 .. c.len /\ c.len >= 2
            BY <1>1, <5>1
          <5>3. c.head # c.tail
            BY <1>1, <2>1, <5>2
          <5>4. QED BY <2>2, <2>3, <5>1, <5>2, <5>3
        <4>2. t[i] = c.data[d.head + i - 1] /\ s[i + 1] = c.data[c.head + (i + 1) - 1]
          BY <1>2, <2>3, <2>5, <4>1
        <4>3. d.head + i - 1 = c.head + (i + 1) - 1
          BY <1>1, <4>1
        <4>4. QED BY <4>2, <4>3
      <3> HIDE DEF s, t
      <3>3. t = Tail(s)
        BY <3>1, <3>2
      <3>4. QED BY <3>3 DEF s, t
    <2>8. FirstOf(c) = c.data[c.head]
      BY <1>4 DEF FirstOf, DataAt
    <2>9. QED BY <2>3, <2>4, <2>6, <2>7, <2>8 DEF d
  <1>5. QED BY <1>3, <1>4

\* The last value is the one at the tail.
LEMMA QueueLast ==
  ASSUME NEW c, QueueShape(c)
  PROVE  LastOf(c) = IF ToSlice(c) = <<>> THEN None ELSE ToSlice(c)[Len(ToSlice(c))]
  <1>1. c.head \in Nat /\ c.tail \in Nat /\ c.len \in Nat /\ Len(c.link) \in Nat
    BY DEF QueueShape, Shapes
  <1>2. /\ ToSlice(c) = [i \in 1 .. c.len |-> c.data[c.head + i - 1]]
        /\ Len(ToSlice(c)) = c.len /\ ToSlice(c) \in Seq(Values)
    BY QueueSlice
  <1>3. CASE c.head = 0
    <2>1. c.tail = 0 /\ c.len = 0
      BY <1>3 DEF QueueShape
    <2>2. QED BY <1>2, <1>3, <2>1 DEF LastOf, DataAt
  <1>4. CASE c.head # 0
    <2>1. c.head <= c.tail /\ c.len = c.tail - c.head + 1
      BY <1>4 DEF QueueShape
    <2>2. c.len \in 1 .. c.len /\ c.head + c.len - 1 = c.tail /\ c.len # 0 /\ c.tail # 0
      BY <1>1, <1>4, <2>1
    <2>3. ToSlice(c)[c.len] = c.data[c.tail] /\ ToSlice(c) # <<>>
      BY <1>2, <2>2
    <2>4. QED BY <1>2, <2>2, <2>3 DEF LastOf
  <1>5. QED BY <1>3, <1>4

\* A pass goes along nodes that follow one another; it is over when it has seen
\* the last of those it began with.
PassShape(c, it) ==
    /\ it \in [seek : Nat, seen : Seq(Nat), pass : SUBSET Nat]
    /\ \E a \in Nat \ {0}, b \in Nat :
           /\ it.pass = a .. b /\ b <= Len(c.link)
           /\ \A m \in a .. (b - 1) : c.link[m] = m + 1
           /\ \A i \in 1 .. Len(it.seen) : it.seen[i] = a + i - 1
           /\ it.seek # 0 => it.seek = a + Len(it.seen) /\ it.seek <= Len(c.link)
           /\ it.seek = 0 => a + Len(it.seen) > b

\* A pass may begin at any time.
LEMMA PassBegins ==
  ASSUME NEW c, QueueShape(c)
  PROVE  PassShape(c, Restart(c)) /\ PassShape(c, NoPass)
  <1>1. c.head \in Nat /\ c.tail \in Nat /\ c.len \in Nat /\ Len(c.link) \in Nat
    BY DEF QueueShape, Shapes
  <1>2. Walk(c, c.head) = [i \in 1 .. c.len |-> c.head + i - 1]
    BY QueueWalk
  <1>3. ToSet(Walk(c, c.head)) = IF c.head = 0 THEN 1 .. 0 ELSE c.head .. c.tail
    <2>1. CASE c.head = 0
      <3>1. c.len = 0
        BY <2>1 DEF QueueShape
      <3>2. QED BY <1>2, <2>1, <3>1 DEF ToSet
    <2>2. CASE c.head # 0
      <3>1. c.head <= c.tail /\ c.len = c.tail - c.head + 1
        BY <2>2 DEF QueueShape
      <3>2. \A m \in c.head .. c.tail : m - c.head + 1 \in 1 .. c.len /\ c.head + (m - c.head + 1) - 1 = m
        <4>1. c.head \in Nat /\ c.tail \in Nat
          BY <1>1
        <4>2. QED BY <3>1, <4>1
      <3>3. \A i \in 1 .. c.len : c.head + i - 1 \in c.head .. c.tail
        <4>1. c.head \in Nat /\ c.tail \in Nat
          BY <1>1
        <4>2. QED BY <3>1, <4>1
      <3>4. QED BY <1>2, <2>2, <3>2, <3>3 DEF ToSet
    <2>3. QED BY <2>1, <2>2
  <1>4. <<>> \in Seq(Nat) /\ Len(<<>>) = 0
    OBVIOUS
  <1>5. PassShape(c, NoPass)
    <2>1. NoPass.pass = 1 .. 0 /\ NoPass.seen = <<>> /\ NoPass.seek = 0
          /\ NoPass \in [seek : Nat, seen : Seq(Nat), pass : SUBSET Nat]
      BY <1>4 DEF NoPass
    <2>2. 1 \in Nat \ {0} /\ 0 \in Nat /\ 0 <= Len(c.link) /\ 1 .. (0 - 1) = {} /\ 1 .. 0 = {}
      BY <1>1
    <2>3. QED BY <1>4, <2>1, <2>2 DEF PassShape
  <1> DEFINE r == Restart(c)
  <1>6. r.seek = c.head /\ r.seen = <<>> /\ r.pass = ToSet(Walk(c, c.head))
    BY DEF Restart
  <1>7. r \in [seek : Nat, seen : Seq(Nat), pass : SUBSET Nat]
    <2>1. ToSet(Walk(c, c.head)) \in SUBSET Nat
      BY <1>1, <1>3
    <2>2. QED BY <1>1, <1>4, <2>1 DEF Restart
  <1> HIDE DEF r
  <1>8. CASE c.head = 0
    <2>1. 1 \in Nat \ {0} /\ 0 \in Nat /\ 0 <= Len(c.link) /\ 1 .. (0 - 1) = {} /\ 1 .. 0 = {}
      BY <1>1
    <2>2. r.pass = 1 .. 0 /\ r.seek = 0
      BY <1>3, <1>6, <1>8
    <2>3. PassShape(c, r)
      BY <1>4, <1>6, <1>7, <2>1, <2>2 DEF PassShape
    <2>4. QED BY <1>5, <2>3 DEF r
  <1>9. CASE c.head # 0
    <2>1. /\ c.head <= Len(c.link) /\ c.tail = Len(c.link)
          /\ \A m \in c.head .. (c.tail - 1) : c.link[m] = m + 1
      BY <1>9 DEF QueueShape
    <2>2. r.pass = c.head .. c.tail /\ r.seek = c.head /\ c.head \in Nat \ {0}
      BY <1>1, <1>3, <1>6, <1>9
    <2>3. c.head + Len(r.seen) = c.head /\ 1 .. Len(r.seen) = {}
      BY <1>1, <1>4, <1>6
    <2>4. PassShape(c, r)
      <3>1. /\ r.pass = c.head .. c.tail /\ c.tail <= Len(c.link)
            /\ \A m \in c.head .. (c.tail - 1) : c.link[m] = m + 1
            /\ \A i \in 1 .. Len(r.seen) : r.seen[i] = c.head + i - 1
            /\ r.seek # 0 => r.seek = c.head + Len(r.seen) /\ r.seek <= Len(c.link)
            /\ r.seek = 0 => c.head + Len(r.seen) > c.tail
        BY <1>1, <1>9, <2>1, <2>2, <2>3
      <3>2. QED BY <1>1, <1>7, <2>2, <3>1 DEF PassShape
    <2>5. QED BY <1>5, <2>4 DEF r
  <1>10. QED BY <1>8, <1>9

\* Next goes one node on.
LEMMA PassGoesOn ==
  ASSUME NEW c, QueueShape(c), NEW it, PassShape(c, it), it.seek # 0
  PROVE  PassShape(c, [it EXCEPT !.seek = c.link[it.seek], !.seen = Append(it.seen, it.seek)])
  <1> DEFINE next == [it EXCEPT !.seek = c.link[it.seek], !.seen = Append(it.seen, it.seek)]
  <1>1. PICK a \in Nat \ {0}, b \in Nat :
           /\ it.pass = a .. b /\ b <= Len(c.link)
           /\ \A m \in a .. (b - 1) : c.link[m] = m + 1
           /\ \A i \in 1 .. Len(it.seen) : it.seen[i] = a + i - 1
           /\ it.seek = a + Len(it.seen) /\ it.seek <= Len(c.link)
    BY DEF PassShape
  <1>2. it.seek \in Nat /\ it.seen \in Seq(Nat) /\ Len(c.link) \in Nat /\ Len(it.seen) \in Nat
        /\ it \in [seek : Nat, seen : Seq(Nat), pass : SUBSET Nat] /\ c.link \in Seq(Nat)
    BY DEF PassShape, QueueShape, Shapes
  <1>3. it.seek \in 1 .. Len(c.link)
    BY <1>1, <1>2
  <1>4. c.link[it.seek] \in {0, it.seek + 1} /\ c.link[it.seek] <= Len(c.link) /\ c.link[it.seek] \in Nat
    BY <1>2, <1>3 DEF QueueShape
  <1>5. next.seek = c.link[it.seek] /\ next.seen = Append(it.seen, it.seek) /\ next.pass = it.pass
        /\ next \in [seek : Nat, seen : Seq(Nat), pass : SUBSET Nat]
    <2>1. Append(it.seen, it.seek) \in Seq(Nat)
      BY <1>2
    <2>2. QED BY <1>2, <1>4, <2>1
  <1> HIDE DEF next
  <1>6. Len(next.seen) = Len(it.seen) + 1 /\ \A i \in 1 .. Len(next.seen) : next.seen[i] = a + i - 1
    <2>1. Len(next.seen) = Len(it.seen) + 1 /\ next.seen[Len(it.seen) + 1] = it.seek
          /\ \A i \in 1 .. Len(it.seen) : next.seen[i] = it.seen[i]
      BY <1>2, <1>5
    <2>2. a + (Len(it.seen) + 1) - 1 = it.seek
      BY <1>1, <1>2
    <2>3. \A i \in 1 .. (Len(it.seen) + 1) : i = Len(it.seen) + 1 \/ i \in 1 .. Len(it.seen)
      BY <1>2
    <2>4. QED BY <1>1, <2>1, <2>2, <2>3
  <1>7. next.seek # 0 => next.seek = a + Len(next.seen) /\ next.seek <= Len(c.link)
    <2> SUFFICES ASSUME next.seek # 0 PROVE next.seek = a + Len(next.seen) /\ next.seek <= Len(c.link)
      OBVIOUS
    <2>1. next.seek = it.seek + 1 /\ next.seek <= Len(c.link)
      BY <1>4, <1>5
    <2>2. it.seek = a + Len(it.seen) /\ Len(next.seen) = Len(it.seen) + 1
      BY <1>1, <1>6
    <2>3. a \in Nat /\ Len(it.seen) \in Nat
      BY <1>2
    <2>4. QED BY <2>1, <2>2, <2>3
  <1>8. next.seek = 0 => a + Len(next.seen) > b
    <2> SUFFICES ASSUME next.seek = 0, it.seek < b PROVE FALSE
      BY <1>1, <1>2, <1>6
    <2>1. it.seek \in a .. (b - 1)
      <3>1. it.seek = a + Len(it.seen) /\ Len(it.seen) \in Nat
        BY <1>1, <1>2
      <3>2. QED BY <3>1
    <2>2. c.link[it.seek] = it.seek + 1 /\ it.seek \in Nat
      BY <1>1, <1>2, <2>1
    <2>3. next.seek = it.seek + 1
      BY <1>5, <2>2
    <2>4. QED BY <2>2, <2>3
  <1>9. PassShape(c, next)
    BY <1>1, <1>5, <1>6, <1>7, <1>8 DEF PassShape
  <1>10. QED BY <1>9 DEF next

\* What the queue does meanwhile leaves the links of a pass.
LEMMA PassStays ==
  ASSUME NEW c, NEW it, PassShape(c, it), NEW d, Len(c.link) \in Nat, Len(d.link) \in Nat,
         Len(d.link) >= Len(c.link), \A m \in 1 .. (Len(c.link) - 1) : d.link[m] = c.link[m]
  PROVE  PassShape(d, it)
  <1>1. PICK a \in Nat \ {0}, b \in Nat :
           /\ it.pass = a .. b /\ b <= Len(c.link)
           /\ \A m \in a .. (b - 1) : c.link[m] = m + 1
           /\ \A i \in 1 .. Len(it.seen) : it.seen[i] = a + i - 1
           /\ it.seek # 0 => it.seek = a + Len(it.seen) /\ it.seek <= Len(c.link)
           /\ it.seek = 0 => a + Len(it.seen) > b
    BY DEF PassShape
  <1>2. it \in [seek : Nat, seen : Seq(Nat), pass : SUBSET Nat]
    BY DEF PassShape
  <1>3. b <= Len(d.link) /\ (it.seek <= Len(c.link) => it.seek <= Len(d.link))
    BY <1>1, <1>2
  <1>4. \A m \in a .. (b - 1) : d.link[m] = m + 1
    <2>1. \A m \in a .. (b - 1) : m \in 1 .. (Len(c.link) - 1)
      BY <1>1
    <2>2. QED BY <1>1, <2>1
  <1>5. QED BY <1>1, <1>2, <1>3, <1>4 DEF PassShape

\* Push changes the link of the last node only.
LEMMA PushOneLinks ==
  ASSUME NEW c, QueueShape(c), NEW v \in Values
  PROVE  /\ Len(c.link) \in Nat /\ Len(PushOne(c, v).link) = Len(c.link) + 1
         /\ \A m \in 1 .. (Len(c.link) - 1) : PushOne(c, v).link[m] = c.link[m]
  <1> DEFINE l == IF c.head = 0 THEN c.link ELSE [c.link EXCEPT ![c.tail] = Len(c.data) + 1]
  <1>1. c.link \in Seq(Nat) /\ Len(c.link) = Len(c.data) /\ Len(c.link) \in Nat
        /\ (c.head # 0 => c.tail = Len(c.link))
    BY DEF QueueShape, Shapes
  <1>2. l \in Seq(Nat) /\ Len(l) = Len(c.link) /\ \A m \in 1 .. (Len(c.link) - 1) : l[m] = c.link[m]
    <2>1. CASE c.head = 0
      BY <1>1, <2>1
    <2>2. CASE c.head # 0
      <3>1. c.link \in [1 .. Len(c.link) -> Nat] /\ l = [c.link EXCEPT ![c.tail] = Len(c.data) + 1]
            /\ Len(c.data) + 1 \in Nat
        BY <1>1, <2>2
      <3> HIDE DEF l
      <3>2. l \in [1 .. Len(c.link) -> Nat] /\ \A m \in 1 .. (Len(c.link) - 1) : l[m] = c.link[m]
        <4>1. l \in [1 .. Len(c.link) -> Nat]
          BY <3>1
        <4>2. ASSUME NEW m \in 1 .. (Len(c.link) - 1) PROVE l[m] = c.link[m]
          <5>1. m \in 1 .. Len(c.link) /\ m # c.tail
            BY <1>1, <2>2
          <5>2. QED BY <3>1, <5>1
        <4>3. QED BY <4>1, <4>2
      <3>3. l \in Seq(Nat) /\ Len(l) = Len(c.link)
        <4>1. Len(c.link) \in Nat
          BY <1>1
        <4>2. QED BY <3>2, <4>1
      <3>4. QED BY <3>2, <3>3
    <2>3. QED BY <2>1, <2>2
  <1>3. PushOne(c, v).link = Append(l, 0)
    BY DEF PushOne
  <1> HIDE DEF l
  <1>4. QED BY <1>1, <1>2, <1>3

\* A pass goes on after a Push of one or two values.
LEMMA PassSurvivesPush ==
  ASSUME NEW c, QueueShape(c), NEW it, PassShape(c, it), NEW vs \in Inputs
  PROVE  PassShape(Pushed(c, vs), it)
  <1>1. ASSUME NEW d, QueueShape(d), PassShape(d, it), NEW v \in Values
        PROVE  QueueShape(PushOne(d, v)) /\ PassShape(PushOne(d, v), it)
    <2>1. /\ Len(d.link) \in Nat /\ Len(PushOne(d, v).link) = Len(d.link) + 1
          /\ \A m \in 1 .. (Len(d.link) - 1) : PushOne(d, v).link[m] = d.link[m]
      BY <1>1, PushOneLinks
    <2>2. PassShape(PushOne(d, v), it)
      BY <1>1, <2>1, PassStays
    <2>3. QED BY <1>1, <2>2, QueuePushOne
  <1>2. CASE vs \in {<<v>> : v \in Values}
    <2>1. Len(vs) = 1 /\ vs[1] \in Values
      BY <1>2
    <2>2. QED BY <1>1, <2>1, PushedUnfolds
  <1>3. CASE vs \in Values \X Values
    <2>1. Len(vs) = 2 /\ vs[1] \in Values /\ vs[2] \in Values
      BY <1>3
    <2>2. QueueShape(PushOne(c, vs[1])) /\ PassShape(PushOne(c, vs[1]), it)
      BY <1>1, <2>1
    <2>3. Pushed(c, vs) = PushOne(PushOne(c, vs[1]), vs[2])
      BY <2>1, PushedUnfolds
    <2>4. QED BY <1>1, <2>1, <2>2, <2>3
  <1>4. QED BY <1>2, <1>3 DEF Inputs

-----------------------------------------------------------------------------
(* The stack.                                                              *)

StackLinks(c) ==
    /\ c \in Shapes /\ Len(c.link) = Len(c.data)
    /\ \A m \in 1 .. Len(c.link) : c.link[m] \in 0 .. (m - 1)

\* Each node of a stack is linked to the one that was the top before it.
StackShape(c) ==
    /\ StackLinks(c)
    /\ c.tail <= Len(c.link)
    /\ Len(Walk(c, c.tail)) = c.len

\* A node's links lead to older nodes only, so a walk along them ends.
LEMMA StackWalk ==
  ASSUME NEW c, StackLinks(c)
  PROVE  /\ Len(c.link) \in Nat
         /\ \A m \in 0 .. Len(c.link) :
                /\ Walk(c, m) = IF m = 0 THEN <<>> ELSE <<m>> \o Walk(c, c.link[m])
                /\ Walk(c, m) \in Seq(1 .. Len(c.link))
  <1> DEFINE N == Len(c.link)
             rank == [m \in 0 .. N |-> m]
             T == {k \in Nat : \A m \in 0 .. N : m <= k => Walk(c, m) \in Seq(1 .. N)}
  <1>1. N \in Nat /\ \A m \in 1 .. N : c.link[m] \in 0 .. (m - 1)
    BY DEF StackLinks, Shapes
  <1>2. \A m \in 0 .. N : Walk(c, m) = IF m = 0 THEN <<>> ELSE <<m>> \o Walk(c, c.link[m])
    <2>1. rank \in [0 .. N -> 0 .. N]
      OBVIOUS
    <2>2. \A m \in 1 .. N : c.link[m] \in 0 .. N /\ rank[c.link[m]] < rank[m]
      BY <1>1
    <2> HIDE DEF rank, N
    <2>3. QED BY <1>1, <2>1, <2>2, WalkUnfolds DEF N
  <1> HIDE DEF N
  <1>3. 0 \in T
    <2>1. 0 \in 0 .. N /\ <<>> \in Seq(1 .. N) /\ \A m \in 0 .. N : m <= 0 => m = 0
      BY <1>1
    <2>2. Walk(c, 0) = <<>>
      BY <1>2, <2>1, Zenon
    <2>3. QED BY <2>1, <2>2
  <1>4. ASSUME NEW k \in T PROVE k + 1 \in T
    <2> SUFFICES ASSUME NEW m \in 0 .. N, m <= k + 1 PROVE Walk(c, m) \in Seq(1 .. N)
      OBVIOUS
    <2>1. CASE m <= k
      BY <2>1
    <2>2. CASE ~(m <= k)
      <3>1. m # 0 /\ c.link[m] \in 0 .. N /\ c.link[m] <= k
        BY <1>1, <2>2
      <3>2. Walk(c, m) = <<m>> \o Walk(c, c.link[m])
        BY <1>2, <3>1, Zenon
      <3>3. Walk(c, c.link[m]) \in Seq(1 .. N)
        BY <3>1
      <3>4. m \in 1 .. N
        BY <3>1
      <3> HIDE DEF T
      <3>5. QED BY <3>2, <3>3, <3>4
    <2>3. QED BY <2>1, <2>2
  <1>5. N \in T
    <2> HIDE DEF T
    <2>1. T \in SUBSET Nat
      BY DEF T
    <2>2. \A k \in Nat : k \in T
      BY <1>3, <1>4, <2>1, Induction
    <2>3. QED BY <1>1, <2>2
  <1>6. \A m \in 0 .. N : Walk(c, m) \in Seq(1 .. N)
    BY <1>1, <1>5
  <1>7. QED BY <1>1, <1>2, <1>6 DEF N

\* A node more does not change the walks from the others.
LEMMA WalksStay ==
  ASSUME NEW c, StackLinks(c), NEW d, StackLinks(d), Len(d.link) = Len(c.link) + 1,
         \A m \in 1 .. Len(c.link) : d.link[m] = c.link[m]
  PROVE  \A m \in 0 .. Len(c.link) : Walk(d, m) = Walk(c, m)
  <1> DEFINE N == Len(c.link)
             T == {k \in Nat : \A m \in 0 .. N : m <= k => Walk(d, m) = Walk(c, m)}
  <1>1. N \in Nat /\ \A m \in 1 .. N : c.link[m] \in 0 .. (m - 1)
    BY DEF StackLinks, Shapes
  <1>2. /\ \A m \in 0 .. N : Walk(c, m) = IF m = 0 THEN <<>> ELSE <<m>> \o Walk(c, c.link[m])
        /\ \A m \in 0 .. N : Walk(d, m) = IF m = 0 THEN <<>> ELSE <<m>> \o Walk(d, d.link[m])
    <2>1. \A m \in 0 .. N : m \in 0 .. Len(d.link)
      BY <1>1
    <2>2. \A m \in 0 .. Len(d.link) : Walk(d, m) = IF m = 0 THEN <<>> ELSE <<m>> \o Walk(d, d.link[m])
      BY StackWalk
    <2>3. QED BY <2>1, <2>2, StackWalk
  <1>3. \A m \in 1 .. N : d.link[m] = c.link[m]
    OBVIOUS
  <1> HIDE DEF N
  <1>4. 0 \in T
    <2>1. 0 \in 0 .. N /\ \A m \in 0 .. N : m <= 0 => m = 0
      BY <1>1
    <2>2. Walk(c, 0) = <<>> /\ Walk(d, 0) = <<>>
      BY <1>2, <2>1, Zenon
    <2>3. QED BY <2>1, <2>2
  <1>5. ASSUME NEW k \in T PROVE k + 1 \in T
    <2> SUFFICES ASSUME NEW m \in 0 .. N, m <= k + 1 PROVE Walk(d, m) = Walk(c, m)
      OBVIOUS
    <2>1. CASE m <= k
      BY <2>1
    <2>2. CASE ~(m <= k)
      <3>1. m # 0 /\ c.link[m] \in 0 .. N /\ c.link[m] <= k /\ d.link[m] = c.link[m]
        BY <1>1, <1>3, <2>2
      <3>2. Walk(d, c.link[m]) = Walk(c, c.link[m])
        BY <3>1
      <3>3. Walk(c, m) = <<m>> \o Walk(c, c.link[m]) /\ Walk(d, m) = <<m>> \o Walk(d, d.link[m])
        BY <1>2, <3>1, Zenon
      <3>4. QED BY <3>1, <3>2, <3>3
    <2>3. QED BY <2>1, <2>2
  <1>6. N \in T
    <2> HIDE DEF T
    <2>1. T \in SUBSET Nat
      BY DEF T
    <2>2. \A k \in Nat : k \in T
      BY <1>4, <1>5, <2>1, Induction
    <2>3. QED BY <1>1, <2>2
  <1>7. \A m \in 0 .. N : Walk(d, m) = Walk(c, m)
    BY <1>1, <1>6
  <1>8. QED BY <1>7 DEF N

\* A reader sees the values of the walk from the top, backwards.
LEMMA StackSlice ==
  ASSUME NEW c, StackShape(c)
  PROVE  /\ c.len \in Nat /\ c.tail \in 0 .. Len(c.link)
         /\ Walk(c, c.tail) \in Seq(1 .. Len(c.link)) /\ Len(Walk(c, c.tail)) = c.len
         /\ StackToSlice(c) \in Seq(Values) /\ Len(StackToSlice(c)) = c.len
         /\ \A i \in 1 .. c.len : StackToSlice(c)[i] = c.data[Walk(c, c.tail)[c.len - i + 1]]
  <1> DEFINE w == Walk(c, c.tail)
             N == Len(c.link)
  <1>1. /\ c.len \in Nat /\ c.tail \in 0 .. N /\ w \in Seq(1 .. N) /\ Len(w) = c.len
        /\ c.data \in Seq(Values) /\ Len(c.data) = N /\ N \in Nat
    <2>1. c.len \in Nat /\ c.tail \in 0 .. N /\ Len(w) = c.len /\ c.data \in Seq(Values) /\ Len(c.data) = N
          /\ N \in Nat /\ StackLinks(c)
      BY DEF StackShape, StackLinks, Shapes
    <2>2. QED BY <2>1, StackWalk
  <1> HIDE DEF w, N
  <1> DEFINE s == Data(c, w)
  <1>2. s \in Seq(Values) /\ Len(s) = c.len /\ \A i \in 1 .. c.len : s[i] = c.data[w[i]]
    <2>1. \A i \in 1 .. c.len : w[i] \in 1 .. N
      BY <1>1
    <2>2. \A i \in 1 .. c.len : c.data[w[i]] \in Values
      BY <1>1, <2>1
    <2>3. s = [i \in 1 .. c.len |-> c.data[w[i]]]
      BY <1>1 DEF Data
    <2> HIDE DEF s
    <2>4. s \in [1 .. c.len -> Values]
      BY <2>2, <2>3
    <2>5. s \in Seq(Values) /\ Len(s) = c.len
      <3>1. c.len \in Nat
        BY <1>1
      <3>2. QED BY <2>4, <3>1
    <2>6. QED BY <2>3, <2>5
  <1> HIDE DEF s
  <1>3. SubSeq(s, 1, c.len) = s
    BY <1>1, <1>2
  <1>4. StackToSlice(c) = [i \in 1 .. c.len |-> s[c.len - i + 1]]
    BY <1>2, <1>3 DEF StackToSlice, Reverse, s, w
  <1>5. \A i \in 1 .. c.len : c.len - i + 1 \in 1 .. c.len
    BY <1>1
  <1>6. StackToSlice(c) \in Seq(Values) /\ Len(StackToSlice(c)) = c.len
    <2>1. \A i \in 1 .. c.len : s[c.len - i + 1] \in Values
      BY <1>2, <1>5
    <2> DEFINE f == [i \in 1 .. c.len |-> s[c.len - i + 1]]
    <2>2. f \in [1 .. c.len -> Values]
      BY <2>1
    <2> HIDE DEF f
    <2>3. f \in Seq(Values) /\ Len(f) = c.len
      <3>1. c.len \in Nat
        BY <1>1
      <3>2. QED BY <2>2, <3>1
    <2>4. QED BY <1>4, <2>3 DEF f
  <1>7. \A i \in 1 .. c.len : StackToSlice(c)[i] = c.data[w[c.len - i + 1]]
    BY <1>2, <1>4, <1>5
  <1>8. QED BY <1>1, <1>6, <1>7 DEF w, N

\* What Append gives.
LEMMA AppendOf ==
  ASSUME NEW S, NEW s \in Seq(S), NEW t \in Seq(S), NEW v, Len(t) = Len(s) + 1,
         t[Len(s) + 1] = v, \A i \in 1 .. Len(s) : t[i] = s[i]
  PROVE  t = Append(s, v)
  <1>1. Len(s) \in Nat /\ v \in S
    <2>1. Len(s) \in Nat
      BY LenProperties
    <2>2. Len(s) + 1 \in 1 .. Len(t)
      BY <2>1
    <2>3. t[Len(s) + 1] \in S
      BY <2>2, ElementOfSeq
    <2>4. QED BY <2>1, <2>3
  <1>2. Append(s, v) \in Seq(S) /\ Len(Append(s, v)) = Len(s) + 1
        /\ Append(s, v)[Len(s) + 1] = v /\ \A i \in 1 .. Len(s) : Append(s, v)[i] = s[i]
    BY <1>1
  <1>3. \A i \in 1 .. Len(t) : t[i] = Append(s, v)[i]
    <2>1. \A i \in 1 .. Len(t) : i = Len(s) + 1 \/ i \in 1 .. Len(s)
      BY <1>1
    <2>2. QED BY <1>2, <2>1
  <1>4. QED BY <1>2, <1>3, SeqEqual

\* Push puts a value on top of those that are there.
LEMMA StackPushed ==
  ASSUME NEW c, StackShape(c), NEW v \in Values
  PROVE  /\ StackShape(StackPush(c, v))
         /\ StackToSlice(StackPush(c, v)) = Append(StackToSlice(c), v)
  <1> DEFINE d == StackPush(c, v)
             N == Len(c.link)
             w == Walk(c, c.tail)
  <1>1. /\ c.data \in Seq(Values) /\ c.link \in Seq(Nat) /\ Len(c.data) = N /\ N \in Nat
        /\ c.head \in Nat /\ c.tail \in 0 .. N /\ c.len \in Nat /\ c \in Shapes
        /\ \A m \in 1 .. N : c.link[m] \in 0 .. (m - 1)
        /\ w \in Seq(1 .. N) /\ Len(w) = c.len
    <2>1. c \in Shapes /\ Len(c.data) = N /\ \A m \in 1 .. N : c.link[m] \in 0 .. (m - 1)
      BY DEF StackShape, StackLinks
    <2>2. QED BY <2>1, StackSlice DEF Shapes
  <1> HIDE DEF N, w
  <1>2. /\ d.data = Append(c.data, v) /\ d.link = Append(c.link, c.tail) /\ d.head = c.head
        /\ d.tail = N + 1 /\ d.len = c.len + 1 /\ d \in Shapes
    <2>1. Append(c.data, v) \in Seq(Values) /\ Append(c.link, c.tail) \in Seq(Nat) /\ N + 1 \in Nat /\ c.len + 1 \in Nat
      BY <1>1
    <2>2. QED BY <1>1, <2>1 DEF StackPush, Shapes
  <1> HIDE DEF d
  <1>3. /\ Len(d.data) = N + 1 /\ Len(d.link) = N + 1
        /\ \A m \in 1 .. N : d.link[m] = c.link[m] /\ d.data[m] = c.data[m]
        /\ d.link[N + 1] = c.tail /\ d.data[N + 1] = v
    <2>1. Len(c.link) = N /\ N \in Nat /\ c.link \in Seq(Nat) /\ c.tail \in Nat
      BY <1>1 DEF N
    <2>2. /\ Len(d.link) = N + 1 /\ d.link[N + 1] = c.tail
          /\ \A m \in 1 .. N : d.link[m] = c.link[m]
      BY <1>2, <2>1
    <2>3. /\ Len(d.data) = N + 1 /\ d.data[N + 1] = v
          /\ \A m \in 1 .. N : d.data[m] = c.data[m]
      BY <1>1, <1>2
    <2>4. QED BY <2>2, <2>3
  <1>4. StackLinks(d)
    <2>1. \A m \in 1 .. (N + 1) : d.link[m] \in 0 .. (m - 1)
      <3>1. \A m \in 1 .. (N + 1) : m = N + 1 \/ m \in 1 .. N
        BY <1>1
      <3>2. (N + 1) - 1 = N
        BY <1>1
      <3>3. QED BY <1>1, <1>3, <3>1, <3>2
    <2>2. QED BY <1>2, <1>3, <2>1 DEF StackLinks
  <1>5. Walk(d, d.tail) = <<N + 1>> \o w
    <2>1. Walk(d, N + 1) = <<N + 1>> \o Walk(d, c.tail)
      <3>1. N + 1 \in 0 .. Len(d.link) /\ N + 1 # 0
        BY <1>1, <1>3
      <3>2. QED BY <1>3, <1>4, <3>1, StackWalk
    <2>2. Walk(d, c.tail) = w
      <3>1. StackLinks(c) /\ Len(d.link) = Len(c.link) + 1 /\ c.tail \in 0 .. Len(c.link)
            /\ \A m \in 1 .. Len(c.link) : d.link[m] = c.link[m]
        BY <1>1, <1>3 DEF StackShape, N
      <3>2. QED BY <1>4, <3>1, WalksStay DEF w
    <2>3. QED BY <1>2, <2>1, <2>2
  <1>6. /\ Len(Walk(d, d.tail)) = c.len + 1 /\ Walk(d, d.tail)[1] = N + 1
        /\ \A i \in 2 .. (c.len + 1) : Walk(d, d.tail)[i] = w[i - 1]
    BY <1>1, <1>5
  <1>7. StackShape(d)
    <2>1. d.tail <= Len(d.link)
      BY <1>1, <1>2, <1>3
    <2>2. QED BY <1>2, <1>4, <1>6, <2>1 DEF StackShape
  <1> DEFINE s == StackToSlice(c)
             t == StackToSlice(d)
  <1>8. /\ s \in Seq(Values) /\ Len(s) = c.len /\ \A i \in 1 .. c.len : s[i] = c.data[w[c.len - i + 1]]
        /\ t \in Seq(Values) /\ Len(t) = c.len + 1
        /\ \A i \in 1 .. (c.len + 1) : t[i] = d.data[Walk(d, d.tail)[(c.len + 1) - i + 1]]
    <2>1. /\ s \in Seq(Values) /\ Len(s) = c.len
          /\ \A i \in 1 .. c.len : s[i] = c.data[w[c.len - i + 1]]
      BY StackSlice DEF w
    <2>2. /\ t \in Seq(Values) /\ Len(t) = d.len
          /\ \A i \in 1 .. d.len : t[i] = d.data[Walk(d, d.tail)[d.len - i + 1]]
      BY <1>7, StackSlice
    <2>3. d.len = c.len + 1
      BY <1>2
    <2> HIDE DEF s, t
    <2>4. QED BY <2>1, <2>2, <2>3
  <1> HIDE DEF s, t
  <1>9. \A i \in 1 .. c.len : t[i] = s[i]
    <2> TAKE i \in 1 .. c.len
    <2>1. /\ i \in 1 .. (c.len + 1) /\ (c.len + 1) - i + 1 \in 2 .. (c.len + 1)
          /\ ((c.len + 1) - i + 1) - 1 = c.len - i + 1 /\ c.len - i + 1 \in 1 .. c.len
      <3>1. c.len \in Nat
        BY <1>1
      <3>2. QED BY <3>1
    <2>2. w[c.len - i + 1] \in 1 .. N
      <3>1. w \in Seq(1 .. N) /\ Len(w) = c.len
        BY <1>1
      <3>2. w[c.len - i + 1] \in 1 .. N
        <4> DEFINE j == c.len - i + 1
        <4>1. j \in 1 .. Len(w)
          BY <2>1, <3>1
        <4> HIDE DEF j
        <4>2. w[j] \in 1 .. N
          BY <3>1, <4>1, ElementOfSeq
        <4>3. QED BY <4>2 DEF j
      <3>3. QED BY <3>2
    <2>3. s[i] = c.data[w[c.len - i + 1]] /\ t[i] = d.data[w[c.len - i + 1]]
      <3>1. t[i] = d.data[Walk(d, d.tail)[(c.len + 1) - i + 1]]
        BY <1>8, <2>1
      <3>2. Walk(d, d.tail)[(c.len + 1) - i + 1] = w[((c.len + 1) - i + 1) - 1]
        BY <1>6, <2>1
      <3>3. QED BY <1>8, <2>1, <3>1, <3>2
    <2>4. QED BY <1>3, <2>2, <2>3
  <1>10. t[c.len + 1] = v
    <2>1. c.len + 1 \in 1 .. (c.len + 1) /\ (c.len + 1) - (c.len + 1) + 1 = 1
      <3>1. c.len \in Nat
        BY <1>1
      <3>2. QED BY <3>1
    <2>2. t[c.len + 1] = d.data[Walk(d, d.tail)[(c.len + 1) - (c.len + 1) + 1]]
      BY <1>8, <2>1
    <2>3. Walk(d, d.tail)[(c.len + 1) - (c.len + 1) + 1] = N + 1
      <3>1. Walk(d, d.tail)[1] = N + 1
        BY <1>6, Zenon
      <3>2. (c.len + 1) - (c.len + 1) + 1 = 1
        BY <2>1, Zenon
      <3>3. QED BY <3>1, <3>2, Zenon
    <2>4. QED BY <1>3, <2>2, <2>3
  <1>11. t = Append(s, v)
    <2>1. s \in Seq(Values) /\ Len(s) = c.len /\ t \in Seq(Values) /\ Len(t) = Len(s) + 1
          /\ t[Len(s) + 1] = v /\ \A i \in 1 .. Len(s) : t[i] = s[i]
      BY <1>8, <1>9, <1>10
    <2>2. QED BY <2>1, AppendOf
  <1>12. QED BY <1>7, <1>11 DEF s, t, d

\* What is left of a sequence without its last item.
LEMMA FrontOf ==
  ASSUME NEW S, NEW s \in Seq(S), NEW t \in Seq(S), Len(s) >= 1, Len(t) = Len(s) - 1,
         \A i \in 1 .. Len(t) : t[i] = s[i]
  PROVE  t = SubSeq(s, 1, Len(s) - 1)
  <1>1. Len(s) \in Nat
    BY LenProperties
  <1>2. SubSeq(s, 1, Len(s) - 1) \in Seq(S) /\ Len(SubSeq(s, 1, Len(s) - 1)) = Len(s) - 1
        /\ \A i \in 1 .. (Len(s) - 1) : SubSeq(s, 1, Len(s) - 1)[i] = s[i]
    BY <1>1
  <1>3. QED BY <1>2, SeqEqual

\* Pop takes the top value and leaves those below it.
LEMMA StackPopped ==
  ASSUME NEW c, StackShape(c)
  PROVE  /\ StackShape(StackPop(c))
         /\ StackToSlice(StackPop(c)) =
                IF StackToSlice(c) = <<>> THEN StackToSlice(c)
                ELSE SubSeq(StackToSlice(c), 1, Len(StackToSlice(c)) - 1)
         /\ DataAt(c, c.tail) =
                IF StackToSlice(c) = <<>> THEN None ELSE StackToSlice(c)[Len(StackToSlice(c))]
  <1> DEFINE d == StackPop(c)
             N == Len(c.link)
             w == Walk(c, c.tail)
             s == StackToSlice(c)
             t == StackToSlice(d)
  <1>1. /\ c.link \in Seq(Nat) /\ N \in Nat
        /\ c.tail \in 0 .. N /\ c.len \in Nat /\ c \in Shapes /\ StackLinks(c)
        /\ \A m \in 1 .. N : c.link[m] \in 0 .. (m - 1)
        /\ w \in Seq(1 .. N) /\ Len(w) = c.len
    <2>1. c \in Shapes /\ StackLinks(c) /\ \A m \in 1 .. N : c.link[m] \in 0 .. (m - 1)
      BY DEF StackShape, StackLinks
    <2>2. QED BY <2>1, StackSlice DEF Shapes
  <1>2. s \in Seq(Values) /\ Len(s) = c.len /\ \A i \in 1 .. c.len : s[i] = c.data[w[c.len - i + 1]]
    BY StackSlice
  <1>3. \A m \in 0 .. N : /\ Walk(c, m) = IF m = 0 THEN <<>> ELSE <<m>> \o Walk(c, c.link[m])
                          /\ Walk(c, m) \in Seq(1 .. N)
    BY <1>1, StackWalk
  <1> HIDE DEF N, s
  <1>4. CASE c.tail = 0
    <2>1. d = c
      BY <1>4 DEF StackPop
    <2>2. w = <<>>
      BY <1>1, <1>3, <1>4
    <2>3. s = <<>>
      BY <1>1, <1>2, <2>2
    <2>4. QED BY <1>4, <2>1, <2>3 DEF DataAt, s
  <1>5. CASE c.tail # 0
    <2> DEFINE u == Walk(c, c.link[c.tail])
    <2>1. w = <<c.tail>> \o u /\ u \in Seq(1 .. N) /\ c.link[c.tail] \in 0 .. N
      <3>1. c.link[c.tail] \in 0 .. N
        BY <1>1, <1>5
      <3>2. QED BY <1>1, <1>3, <1>5, <3>1
    <2> HIDE DEF u, w
    <2>2. c.len >= 1 /\ Len(u) = c.len - 1 /\ w[1] = c.tail /\ \A i \in 1 .. Len(u) : w[i + 1] = u[i]
      <3>1. w = <<c.tail>> \o u /\ u \in Seq(1 .. N) /\ Len(w) = c.len /\ Len(u) \in Nat
        BY <1>1, <2>1
      <3>2. Len(w) = Len(u) + 1 /\ w[1] = c.tail /\ \A i \in 1 .. Len(u) : w[i + 1] = u[i]
        BY <3>1
      <3>3. QED BY <3>1, <3>2
    <2>3. /\ d.data = c.data /\ d.link = c.link /\ d.head = c.head
          /\ d.tail = c.link[c.tail] /\ d.len = c.len - 1 /\ d \in Shapes
      <3>1. c.link[c.tail] \in Nat /\ c.len - 1 \in Nat
        BY <1>1, <2>1, <2>2
      <3>2. QED BY <1>1, <1>5, <3>1 DEF StackPop, Shapes
    <2> HIDE DEF d
    <2>4. Walk(d, d.tail) = u
      BY <2>3 DEF u, Walk
    <2>5. StackShape(d)
      <3>1. StackLinks(d)
        BY <1>1, <2>3 DEF StackLinks
      <3>2. d.tail <= Len(d.link)
        BY <1>1, <2>1, <2>3 DEF N
      <3>3. QED BY <2>2, <2>3, <2>4, <3>1, <3>2 DEF StackShape
    <2>6. t \in Seq(Values) /\ Len(t) = c.len - 1 /\ \A i \in 1 .. (c.len - 1) : t[i] = c.data[u[(c.len - 1) - i + 1]]
      <3>1. /\ t \in Seq(Values) /\ Len(t) = d.len
            /\ \A i \in 1 .. d.len : t[i] = d.data[Walk(d, d.tail)[d.len - i + 1]]
        BY <2>5, StackSlice
      <3> HIDE DEF t
      <3>2. QED BY <2>3, <2>4, <3>1
    <2> HIDE DEF t
    <2>7. \A i \in 1 .. (c.len - 1) : t[i] = s[i]
      <3> TAKE i \in 1 .. (c.len - 1)
      <3>1. /\ i \in 1 .. c.len /\ (c.len - 1) - i + 1 \in 1 .. Len(u)
            /\ ((c.len - 1) - i + 1) + 1 = c.len - i + 1
        <4>1. c.len \in Nat /\ Len(u) = c.len - 1
          BY <1>1, <2>2
        <4>2. QED BY <4>1
      <3>2. w[c.len - i + 1] = u[(c.len - 1) - i + 1]
        BY <2>2, <3>1
      <3>3. s[i] = c.data[w[c.len - i + 1]]
        BY <1>2, <3>1 DEF w
      <3>4. QED BY <2>6, <3>2, <3>3
    <2>8. t = SubSeq(s, 1, Len(s) - 1)
      <3>1. s \in Seq(Values) /\ t \in Seq(Values) /\ Len(s) >= 1 /\ Len(t) = Len(s) - 1
            /\ \A i \in 1 .. Len(t) : t[i] = s[i]
        BY <1>2, <2>2, <2>6, <2>7
      <3>2. QED BY <3>1, FrontOf
    <2>9. s # <<>> /\ s[Len(s)] = c.data[c.tail]
      <3>1. c.len \in 1 .. c.len /\ c.len - c.len + 1 = 1
        BY <1>1, <2>2
      <3>2. s[c.len] = c.data[w[1]]
        BY <1>2, <3>1 DEF w
      <3>3. QED BY <1>2, <2>2, <3>2
    <2>10. QED BY <1>5, <2>5, <2>8, <2>9 DEF DataAt, s, t, d
  <1>6. QED BY <1>4, <1>5

-----------------------------------------------------------------------------
(* The chains in the specification.                                        *)

\* What is true of the chain and of the iterator between two calls.
ChainInv ==
    /\ part = "queue" => QueueShape(chain) /\ PassShape(chain, iter)
    /\ part = "stack" => StackShape(chain)

\* Which collection there is does not change.
LEMMA PartStays == ASSUME CollectionsNext PROVE part' = part
  <1>1. CASE Array!Next
    <2>1. Array!Calls
      BY <1>1 DEF Array!Next
    <2> USE DEF Array!ListCall, Array!ListReturned, Array!SetCall
    <2>2. ASSUME NEW l, Array!ListIs(l) PROVE part' = part
      BY <2>2 DEF Array!ListIs
    <2>3. ASSUME NEW l, NEW u, Array!SetIs(l, u) PROVE part' = part
      BY <2>3 DEF Array!SetIs
    <2>4. ASSUME NEW v, Array!AppendList(v) \/ Array!RemoveList(v) \/ Array!AppendSet(v) \/ Array!RemoveSet(v)
          PROVE  part' = part
      BY <2>2, <2>3, <2>4 DEF Array!AppendList, Array!RemoveList, Array!AppendSet, Array!RemoveSet, Array!AddToSet
    <2>5. ASSUME NEW vs, Array!ExtendList(vs) \/ Array!ExtendSet(vs) PROVE part' = part
      BY <2>2, <2>3, <2>5 DEF Array!ExtendList, Array!ExtendSet
    <2>6. ASSUME NEW i, NEW v, Array!SetList(i, v) \/ Array!InsertList(i, v) \/ Array!SetSet(i, v) \/ Array!InsertSet(i, v)
          PROVE  part' = part
      BY <2>2, <2>3, <2>6 DEF Array!SetList, Array!InsertList, Array!SetSet, Array!InsertSet, Array!AddToSet
    <2>7. ASSUME NEW i, Array!RemoveAtList(i) \/ Array!RemoveAtSet(i) PROVE part' = part
      BY <2>2, <2>3, <2>7 DEF Array!RemoveAtList, Array!RemoveAtSet
    <2>8. ASSUME NEW i, NEW j, Array!SwapList(i, j) PROVE part' = part
      BY <2>2, <2>8 DEF Array!SwapList
    <2>9. ASSUME NEW keep, Array!FilterList(keep) \/ Array!FilterSet(keep) PROVE part' = part
      BY <2>2, <2>3, <2>9 DEF Array!FilterList, Array!FilterSet
    <2>10. ASSUME NEW f, Array!MapList(f) \/ Array!MapSet(f) PROVE part' = part
      BY <2>2, <2>3, <2>10 DEF Array!MapList, Array!MapSet
    <2>11. ASSUME \/ Array!PopList \/ Array!ClearList \/ Array!ReverseList \/ Array!SortList
                  \/ Array!CloneList \/ Array!TransactionList
           PROVE  part' = part
      BY <2>2, <2>11 DEF Array!PopList, Array!ClearList, Array!ReverseList, Array!SortList,
                         Array!CloneList, Array!TransactionList
    <2>12. ASSUME Array!PopSet \/ Array!ClearSet \/ Array!ArrangeSet \/ Array!CloneSet \/ Array!TransactionSet
           PROVE  part' = part
      BY <2>3, <2>12 DEF Array!PopSet, Array!ClearSet, Array!ArrangeSet, Array!CloneSet, Array!TransactionSet
    <2>13. QED BY <2>1, <2>4, <2>5, <2>6, <2>7, <2>8, <2>9, <2>10, <2>11, <2>12 DEF Array!Calls
  <1>2. CASE Next
    BY <1>2 DEF Next, Push, Pull, Look, Clear, Clone, NewIterator, IterNext, IterPopNext, IterReset,
                PushStack, PopStack, LookStack, CloneStackPanics
  <1>3. QED BY <1>1, <1>2 DEF CollectionsNext, vars

\* A collection that has been cleared is as good as new.
LEMMA Cleared ==
  ASSUME NEW c, NEW d, d = [c EXCEPT !.head = 0, !.tail = 0, !.len = 0]
  PROVE  /\ QueueShape(c) => /\ QueueShape(d) /\ ToSlice(d) = <<>>
                             /\ \A it : PassShape(c, it) => PassShape(d, it)
         /\ StackShape(c) => StackShape(d) /\ StackToSlice(d) = <<>>
  <1>1. ASSUME c \in Shapes
        PROVE  d \in Shapes /\ d.data = c.data /\ d.link = c.link /\ d.head = 0 /\ d.tail = 0 /\ d.len = 0
               /\ Len(c.link) \in Nat
    <2>1. d \in Shapes /\ d.data = c.data /\ d.link = c.link /\ d.head = 0 /\ d.tail = 0 /\ d.len = 0
      BY <1>1 DEF Shapes
    <2>2. c.link \in Seq(Nat)
      BY <1>1 DEF Shapes
    <2>3. QED BY <2>1, <2>2
  <1>2. ASSUME QueueShape(c)
        PROVE  QueueShape(d) /\ ToSlice(d) = <<>> /\ \A it : PassShape(c, it) => PassShape(d, it)
    <2>1. d \in Shapes /\ d.data = c.data /\ d.link = c.link /\ d.head = 0 /\ d.tail = 0 /\ d.len = 0
          /\ Len(c.link) \in Nat
      BY <1>1, <1>2 DEF QueueShape
    <2>2. QueueShape(d)
      BY <1>2, <2>1 DEF QueueShape
    <2>3. Len(ToSlice(d)) = 0 /\ ToSlice(d) \in Seq(Values)
      BY <2>1, <2>2, QueueSlice
    <2>4. \A it : PassShape(c, it) => PassShape(d, it)
      BY <2>1 DEF PassShape
    <2>5. QED BY <2>2, <2>3, <2>4
  <1>3. ASSUME StackShape(c) PROVE StackShape(d) /\ StackToSlice(d) = <<>>
    <2>1. d \in Shapes /\ d.data = c.data /\ d.link = c.link /\ d.head = 0 /\ d.tail = 0 /\ d.len = 0
          /\ Len(c.link) \in Nat
      BY <1>1, <1>3 DEF StackShape, StackLinks
    <2>2. StackLinks(d)
      BY <1>3, <2>1 DEF StackShape, StackLinks
    <2>3. Walk(d, d.tail) = <<>>
      <3>1. 0 \in 0 .. Len(d.link)
        BY <2>1
      <3>2. QED BY <2>1, <2>2, <3>1, StackWalk
    <2>4. StackShape(d)
      BY <2>1, <2>2, <2>3 DEF StackShape
    <2>5. Len(StackToSlice(d)) = 0 /\ StackToSlice(d) \in Seq(Values)
      BY <2>1, <2>4, StackSlice
    <2>6. QED BY <2>4, <2>5
  <1>4. QED BY <1>2, <1>3

\* A new chain is an empty queue and an empty stack.
LEMMA NewChains ==
  /\ QueueShape(NewChain) /\ ToSlice(NewChain) = <<>>
  /\ StackShape(NewChain) /\ StackToSlice(NewChain) = <<>>
  <1>1. /\ NewChain.data = <<>> /\ NewChain.link = <<>> /\ NewChain.head = 0 /\ NewChain.tail = 0
        /\ NewChain.len = 0 /\ NewChain \in Shapes
    <2>1. <<>> \in Seq(Values) /\ <<>> \in Seq(Nat)
      OBVIOUS
    <2>2. QED BY <2>1 DEF NewChain, Shapes
  <1>2. Len(<<>>) = 0 /\ 1 .. 0 = {}
    OBVIOUS
  <1>3. QueueShape(NewChain) /\ StackLinks(NewChain)
    BY <1>1, <1>2 DEF QueueShape, StackLinks
  <1>4. Walk(NewChain, NewChain.tail) = <<>>
    <2>1. 0 \in 0 .. Len(NewChain.link)
      BY <1>1, <1>2
    <2>2. QED BY <1>1, <1>3, <2>1, StackWalk
  <1>5. StackShape(NewChain)
    BY <1>1, <1>2, <1>3, <1>4 DEF StackShape
  <1>6. /\ Len(ToSlice(NewChain)) = 0 /\ ToSlice(NewChain) \in Seq(Values)
        /\ Len(StackToSlice(NewChain)) = 0 /\ StackToSlice(NewChain) \in Seq(Values)
    BY <1>1, <1>3, <1>5, QueueSlice, StackSlice
  <1>7. QED BY <1>3, <1>5, <1>6

\* Every call of a queue or of a stack keeps its chain in order.
LEMMA ChainKept == ASSUME ChainInv, CollectionsNext PROVE ChainInv'
  <1>1. part' = part
    BY PartStays
  <1>2. CASE UNCHANGED <<chain, iter>>
    BY <1>1, <1>2 DEF ChainInv
  <1>3. CASE Next /\ part = "queue"
    <2>1. QueueShape(chain) /\ PassShape(chain, iter)
      BY <1>3 DEF ChainInv
    <2>2. ASSUME QueueShape(chain'), PassShape(chain', iter') PROVE ChainInv'
      BY <1>1, <1>3, <2>2 DEF ChainInv
    <2>3. ASSUME NEW vs \in Inputs, Push(vs) PROVE ChainInv'
      <3>1. chain' = Pushed(chain, vs) /\ iter' = iter
        BY <2>3 DEF Push
      <3>2. QueueShape(Pushed(chain, vs)) /\ PassShape(Pushed(chain, vs), iter)
        BY <2>1, QueuePushed, PassSurvivesPush
      <3>3. QED BY <2>2, <3>1, <3>2
    <2>4. ASSUME PullOk(chain) = chain' PROVE QueueShape(chain') /\ \A it : PassShape(chain, it) => PassShape(chain', it)
      <3>1. QueueShape(chain') /\ chain'.link = chain.link
        BY <2>1, <2>4, QueuePulled DEF PullOk
      <3>2. QED BY <3>1 DEF PassShape
    <2>5. CASE Pull
      BY <2>1, <2>2, <2>4, <2>5 DEF Pull
    <2>6. CASE Clear
      BY <2>1, <2>2, <2>6, Cleared DEF Clear
    <2>7. CASE NewIterator \/ IterReset
      BY <2>1, <2>2, <2>7, PassBegins DEF NewIterator, IterReset
    <2>8. CASE IterNext
      <3>1. chain' = chain /\ iter' = IF iter.seek # 0
                   THEN [iter EXCEPT !.seek = chain.link[iter.seek], !.seen = Append(iter.seen, iter.seek)]
                   ELSE Restart(chain)
        BY <2>8 DEF IterNext
      <3>2. CASE iter.seek # 0
        <4>1. PassShape(chain, [iter EXCEPT !.seek = chain.link[iter.seek], !.seen = Append(iter.seen, iter.seek)])
          BY <2>1, <3>2, PassGoesOn
        <4>2. PassShape(chain', iter')
          BY <3>1, <3>2, <4>1
        <4>3. QED BY <2>1, <2>2, <3>1, <4>2
      <3>3. CASE iter.seek = 0
        BY <2>1, <2>2, <3>1, <3>3, PassBegins
      <3>4. QED BY <3>2, <3>3
    <2>9. CASE IterPopNext
      <3>1. PullOk(chain) = chain' /\ iter' = IF chain.head # 0 THEN iter ELSE NoPass
        BY <2>9 DEF IterPopNext
      <3>2. PassShape(chain, NoPass)
        BY <2>1, PassBegins
      <3>3. QED BY <2>1, <2>2, <2>4, <3>1, <3>2
    <2>10. CASE Look \/ Clone
      BY <1>2, <2>10 DEF Look, Clone
    <2>11. QED BY <1>3, <2>3, <2>5, <2>6, <2>7, <2>8, <2>9, <2>10
             DEF Next, PushStack, PopStack, LookStack, CloneStackPanics
  <1>4. CASE Next /\ part = "stack"
    <2>1. StackShape(chain)
      BY <1>4 DEF ChainInv
    <2>2. ASSUME StackShape(chain') PROVE ChainInv'
      BY <1>1, <1>4, <2>2 DEF ChainInv
    <2>3. ASSUME NEW v \in Values, PushStack(v) PROVE ChainInv'
      BY <2>1, <2>2, <2>3, StackPushed DEF PushStack
    <2>4. CASE PopStack
      BY <2>1, <2>2, <2>4, StackPopped DEF PopStack
    <2>5. CASE Clear
      BY <2>1, <2>2, <2>5, Cleared DEF Clear
    <2>6. CASE LookStack \/ CloneStackPanics
      BY <1>2, <2>6 DEF LookStack, CloneStackPanics
    <2>7. QED BY <1>4, <2>3, <2>4, <2>5, <2>6
             DEF Next, Push, Pull, Look, Clone, NewIterator, IterNext, IterPopNext, IterReset
  <1>5. CASE Next /\ part \notin {"queue", "stack"}
    BY <1>1, <1>5 DEF ChainInv
  <1>6. QED BY <1>2, <1>3, <1>4, <1>5 DEF CollectionsNext, vars

\* A new collection has its chain in order.
LEMMA ChainBegins == CollectionsInit => ChainInv
  BY NewChains, PassBegins DEF CollectionsInit, Init, ChainInv

\* So has one after any calls.
LEMMA ChainsStay == CollectionsSpec => []ChainInv
  <1>1. ChainInv /\ [CollectionsNext]_allVars => ChainInv'
    <2>1. ChainInv /\ UNCHANGED allVars => ChainInv'
      BY DEF allVars, vars, ChainInv
    <2>2. QED BY <2>1, ChainKept
  <1>2. QED BY <1>1, ChainBegins, PTL DEF CollectionsSpec

\* A pass that is over has shown what it began with, each item once.
LEMMA PassOver ==
  ASSUME NEW c, NEW it, PassShape(c, it), it.seek = 0
  PROVE  it.pass \subseteq ToSet(it.seen) /\ IsInjective(it.seen)
  <1>1. PICK a \in Nat \ {0}, b \in Nat :
           /\ it.pass = a .. b
           /\ \A i \in 1 .. Len(it.seen) : it.seen[i] = a + i - 1
           /\ a + Len(it.seen) > b
    BY DEF PassShape
  <1>2. it.seen \in Seq(Nat) /\ Len(it.seen) \in Nat /\ DOMAIN it.seen = 1 .. Len(it.seen)
    BY DEF PassShape
  <1>3. ASSUME NEW m \in it.pass PROVE m \in ToSet(it.seen)
    <2>1. m - a + 1 \in 1 .. Len(it.seen) /\ a + (m - a + 1) - 1 = m
      BY <1>1, <1>2
    <2>2. it.seen[m - a + 1] = m
      BY <1>1, <2>1
    <2>3. QED BY <1>2, <2>1, <2>2 DEF ToSet
  <1>4. ASSUME NEW i \in 1 .. Len(it.seen), NEW j \in 1 .. Len(it.seen), it.seen[i] = it.seen[j]
        PROVE  i = j
    <2>1. a + i - 1 = a + j - 1
      BY <1>1, <1>4
    <2>2. QED BY <1>1, <1>2, <2>1
  <1>5. QED BY <1>2, <1>3, <1>4 DEF IsInjective

\* A queue's iterator has shown every item that was there all the time when it
\* ends, whatever was pushed, pulled and popped meanwhile (queue.go:172-193).
THEOREM PassesComplete == CollectionsSpec => PassIsComplete
  <1>1. ChainInv /\ IterNext /\ iter.seek = 0 =>
            iter.pass \cap Live \subseteq ToSet(iter.seen) /\ IsInjective(iter.seen)
    BY PassOver DEF ChainInv, IterNext
  <1>2. ChainInv => [IterNext /\ iter.seek = 0 =>
                        /\ iter.pass \cap Live \subseteq ToSet(iter.seen)
                        /\ IsInjective(iter.seen)]_vars
    BY <1>1
  <1>3. QED BY <1>2, ChainsStay, PTL DEF PassIsComplete

-----------------------------------------------------------------------------
(* The chains are sequences.                                               *)

\* A clone of a queue repeats its first item.
LEMMA QueueCloned ==
  ASSUME NEW c, QueueShape(c)
  PROVE  CloneQueue(c) \in [1 .. Len(ToSlice(c)) -> {ToSlice(c)[i] : i \in DOMAIN ToSlice(c)}]
  <1> DEFINE s == ToSlice(c)
  <1>1. /\ s = [i \in 1 .. c.len |-> c.data[c.head + i - 1]]
        /\ Len(s) = c.len /\ c.len \in Nat /\ c.head \in Nat
    BY QueueSlice DEF QueueShape, Shapes
  <1> HIDE DEF s
  <1>2. ASSUME NEW i \in 1 .. c.len PROVE c.data[c.head] \in {s[j] : j \in DOMAIN s}
    <2>1. 1 \in 1 .. c.len /\ c.head + 1 - 1 = c.head
      BY <1>1
    <2>2. s[1] = c.data[c.head + 1 - 1] /\ 1 \in DOMAIN s
      BY <1>1, <2>1
    <2>3. QED BY <2>1, <2>2
  <1>3. CloneQueue(c) \in [1 .. c.len -> {s[j] : j \in DOMAIN s}]
    BY <1>2 DEF CloneQueue
  <1>4. QED BY <1>1, <1>3 DEF s

\* Each call of a queue is one of the abstract sequence.
LEMMA QueueSteps ==
  ASSUME ChainInv, part = "queue", part' = part, Next
  PROVE  \/ QueueAsDeque!PutBack \/ QueueAsDeque!TakeFirst \/ QueueAsDeque!Empty
         \/ QueueAsDeque!Look \/ QueueAsDeque!Copy
         \/ UNCHANGED <<chain, answer>>
  <1> DEFINE s == ToSlice(chain)
             t == ToSlice(chain')
  <1>1. QueueShape(chain)
    BY DEF ChainInv
  <1>2. /\ If(part = "queue", ToSlice(chain), <<>>) = s /\ If(part = "queue", answer, None) = answer
        /\ If(part' = "queue", ToSlice(chain'), <<>>) = t /\ If(part' = "queue", answer', None) = answer'
    BY DEF If
  <1>3. QueueAsDeque!First = (IF s = <<>> THEN None ELSE s[1])
        /\ QueueAsDeque!Last = (IF s = <<>> THEN None ELSE s[Len(s)])
    BY <1>2 DEF QueueAsDeque!First, QueueAsDeque!Last
  <1> HIDE DEF s, t
  <1>4. ASSUME NEW vs \in Inputs, Push(vs) PROVE QueueAsDeque!PutBack
    <2>1. t = ToSlice(Pushed(chain, vs)) /\ answer' = answer
      BY <1>4 DEF Push, t
    <2>2. Len(t) > Len(s) /\ SubSeq(t, 1, Len(s)) = s
      BY <1>1, <2>1, QueuePushed DEF s
    <2>3. QED BY <1>2, <2>1, <2>2 DEF QueueAsDeque!PutBack
  <1>5. ASSUME answer' = FirstOf(chain), chain' = PullOk(chain) PROVE QueueAsDeque!TakeFirst
    <2>1. /\ t = IF s = <<>> THEN s ELSE Tail(s)
          /\ answer' = IF s = <<>> THEN None ELSE s[1]
      BY <1>1, <1>5, QueuePulled DEF PullOk, s, t
    <2>2. QED BY <1>2, <1>3, <2>1 DEF QueueAsDeque!TakeFirst
  <1>6. CASE Pull \/ IterPopNext
    BY <1>5, <1>6 DEF Pull, IterPopNext
  <1>7. CASE Clear
    <2>1. t = <<>> /\ answer' = answer
      BY <1>1, <1>7, Cleared DEF Clear, t
    <2>2. QED BY <1>2, <2>1 DEF QueueAsDeque!Empty
  <1>8. CASE Look
    <2>1. /\ answer' = [first |-> IF s = <<>> THEN None ELSE s[1], last |-> IF s = <<>> THEN None ELSE s[Len(s)],
                        len |-> Len(s), all |-> s]
          /\ t = s
      <3>1. FirstOf(chain) = (IF s = <<>> THEN None ELSE s[1]) /\ chain.len = Len(s)
            /\ LastOf(chain) = (IF s = <<>> THEN None ELSE s[Len(s)])
        BY <1>1, QueuePulled, QueueSlice, QueueLast DEF s
      <3>2. QED BY <1>8, <3>1 DEF Look, s, t
    <2>2. QED BY <1>2, <1>3, <2>1 DEF QueueAsDeque!Look
  <1>9. CASE Clone
    <2>1. t = s /\ answer' = [clone |-> CloneQueue(chain)]
      BY <1>9 DEF Clone, s, t
    <2>2. CloneQueue(chain) \in [1 .. Len(s) -> {s[i] : i \in DOMAIN s}]
      BY <1>1, QueueCloned DEF s
    <2>3. QED BY <1>2, <2>1, <2>2 DEF QueueAsDeque!Copy
  <1>10. CASE NewIterator \/ IterNext \/ IterReset
    BY <1>10 DEF NewIterator, IterNext, IterReset
  <1>11. QED BY <1>4, <1>6, <1>7, <1>8, <1>9, <1>10
           DEF Next, PushStack, PopStack, LookStack, CloneStackPanics

\* And each call of a stack.
LEMMA StackSteps ==
  ASSUME ChainInv, part = "stack", part' = part, Next
  PROVE  \/ StackAsDeque!PutBack \/ StackAsDeque!TakeLast \/ StackAsDeque!Empty
         \/ StackAsDeque!Look \/ StackAsDeque!NoAnswer
  <1> DEFINE s == StackToSlice(chain)
             t == StackToSlice(chain')
  <1>1. StackShape(chain)
    BY DEF ChainInv
  <1>2. /\ If(part = "stack", StackToSlice(chain), <<>>) = s /\ If(part = "stack", answer, None) = answer
        /\ If(part' = "stack", StackToSlice(chain'), <<>>) = t /\ If(part' = "stack", answer', None) = answer'
    BY DEF If
  <1>3. StackAsDeque!First = (IF s = <<>> THEN None ELSE s[1])
        /\ StackAsDeque!Last = (IF s = <<>> THEN None ELSE s[Len(s)])
    BY <1>2 DEF StackAsDeque!First, StackAsDeque!Last
  <1>4. s \in Seq(Values) /\ Len(s) = chain.len
    BY <1>1, StackSlice
  <1> HIDE DEF s, t
  <1>5. DataAt(chain, chain.tail) = IF s = <<>> THEN None ELSE s[Len(s)]
    BY <1>1, StackPopped DEF s
  <1>6. ASSUME NEW v \in Values, PushStack(v) PROVE StackAsDeque!PutBack
    <2>1. t = Append(s, v) /\ answer' = answer
      BY <1>1, <1>6, StackPushed DEF PushStack, s, t
    <2>2. Len(Append(s, v)) > Len(s) /\ SubSeq(Append(s, v), 1, Len(s)) = s
      BY <1>4
    <2>3. QED BY <1>2, <2>1, <2>2 DEF StackAsDeque!PutBack
  <1>7. CASE PopStack
    <2>1. t = (IF s = <<>> THEN s ELSE SubSeq(s, 1, Len(s) - 1))
      BY <1>1, <1>7, StackPopped DEF PopStack, s, t
    <2>2. answer' = DataAt(chain, chain.tail)
      BY <1>7 DEF PopStack
    <2>3. QED BY <1>2, <1>3, <1>5, <2>1, <2>2 DEF StackAsDeque!TakeLast
  <1>8. CASE Clear
    <2>1. t = <<>> /\ answer' = answer
      BY <1>1, <1>8, Cleared DEF Clear, t
    <2>2. QED BY <1>2, <2>1 DEF StackAsDeque!Empty
  <1>9. CASE LookStack
    <2>1. /\ answer' = [first |-> IF s = <<>> THEN None ELSE s[1], last |-> DataAt(chain, chain.tail),
                        len |-> chain.len, all |-> s]
          /\ t = s
      BY <1>9 DEF LookStack, s, t
    <2>2. QED BY <1>2, <1>3, <1>4, <1>5, <2>1 DEF StackAsDeque!Look
  <1>10. CASE CloneStackPanics
    <2>1. t = s /\ answer' = None
      BY <1>10 DEF CloneStackPanics, s, t
    <2>2. QED BY <1>2, <2>1 DEF StackAsDeque!NoAnswer
  <1>11. QED BY <1>6, <1>7, <1>8, <1>9, <1>10
           DEF Next, Push, Pull, Look, Clone, NewIterator, IterNext, IterPopNext, IterReset

\* A queue is a first-in first-out sequence and a stack a last-in first-out one,
\* for any values and for chains of any length (queue.go:46-131, stack.go:35-87).
THEOREM ChainsRefineDeques == CollectionsSpec => ChainsAreDeques
  <1>1. CollectionsInit => QueueAsDeque!Init /\ StackAsDeque!Init
    BY NewChains DEF CollectionsInit, Init, QueueAsDeque!Init, StackAsDeque!Init, If
  <1>2. ChainInv /\ [CollectionsNext]_allVars =>
            [\/ QueueAsDeque!PutBack \/ QueueAsDeque!TakeFirst \/ QueueAsDeque!Empty
             \/ QueueAsDeque!Look \/ QueueAsDeque!Copy]_QueueAsDeque!vars
    <2> SUFFICES ASSUME ChainInv, [CollectionsNext]_allVars
                 PROVE  \/ QueueAsDeque!PutBack \/ QueueAsDeque!TakeFirst \/ QueueAsDeque!Empty
                        \/ QueueAsDeque!Look \/ QueueAsDeque!Copy
                        \/ UNCHANGED QueueAsDeque!vars
      OBVIOUS
    <2>1. part' = part
      BY PartStays DEF allVars, vars
    <2>2. CASE UNCHANGED <<chain, answer>>
      BY <2>1, <2>2 DEF QueueAsDeque!vars
    <2>3. CASE part # "queue"
      BY <2>1, <2>3 DEF QueueAsDeque!vars, If
    <2>4. CASE part = "queue" /\ Next
      BY <2>1, <2>2, <2>4, QueueSteps
    <2>5. QED BY <2>2, <2>3, <2>4 DEF CollectionsNext, allVars, vars
  <1>3. ChainInv /\ [CollectionsNext]_allVars =>
            [\/ StackAsDeque!PutBack \/ StackAsDeque!TakeLast \/ StackAsDeque!Empty
             \/ StackAsDeque!Look \/ StackAsDeque!NoAnswer]_StackAsDeque!vars
    <2> SUFFICES ASSUME ChainInv, [CollectionsNext]_allVars
                 PROVE  \/ StackAsDeque!PutBack \/ StackAsDeque!TakeLast \/ StackAsDeque!Empty
                        \/ StackAsDeque!Look \/ StackAsDeque!NoAnswer
                        \/ UNCHANGED StackAsDeque!vars
      OBVIOUS
    <2>1. part' = part
      BY PartStays DEF allVars, vars
    <2>2. CASE UNCHANGED <<chain, answer>>
      BY <2>1, <2>2 DEF StackAsDeque!vars
    <2>3. CASE part # "stack"
      BY <2>1, <2>3 DEF StackAsDeque!vars, If
    <2>4. CASE part = "stack" /\ Next
      BY <2>1, <2>4, StackSteps
    <2>5. QED BY <2>2, <2>3, <2>4 DEF CollectionsNext, allVars, vars
  <1>4. QED BY <1>1, <1>2, <1>3, ChainsStay, PTL
          DEF CollectionsSpec, ChainsAreDeques, QueueAsDeque!Fifo, StackAsDeque!Lifo
-----------------------------------------------------------------------------
(* Lists.                                                                  *)

Elems == Numbers \cup {None}

Lists == [arr : Seq(Elems), size : Nat, len : Nat, cap : Nat, ex : Nat]

\* A list whose slack is nil.
Clean(l) ==
    /\ l \in Lists /\ l.cap = l.size /\ l.len <= l.size
    /\ l.arr \in [1 .. l.size -> Elems]
    /\ \A i \in 1 .. l.size : i > l.len => l.arr[i] = None

\* s written over a, from the place behind i on.
LEMMA OverlayIs ==
  ASSUME NEW k \in Nat, NEW a \in [1 .. k -> Elems], NEW i \in Nat, NEW n \in Nat, NEW s \in [1 .. n -> Elems]
  PROVE  /\ Array!Overlay(a, i, s) \in [1 .. k -> Elems]
         /\ \A j \in 1 .. k : Array!Overlay(a, i, s)[j] = IF i < j /\ j <= i + n THEN s[j - i] ELSE a[j]
  <1>1. \A j \in 1 .. k : j - i \in DOMAIN s <=> i < j /\ j <= i + n
    OBVIOUS
  <1>2. \A j \in 1 .. k : j - i \in DOMAIN s => s[j - i] \in Elems
    OBVIOUS
  <1>3. QED BY <1>1, <1>2 DEF Array!Overlay

\* A list that a method made anew has clean slack.
LEMMA FreshIs ==
  ASSUME NEW m \in Nat, NEW s \in [1 .. m -> Elems], NEW n \in Nat, NEW e \in Nat, m <= n
  PROVE  /\ Clean(Array!Fresh(s, n, e))
         /\ Array!Fresh(s, n, e).len = m /\ Array!Fresh(s, n, e).size = n
         /\ \A i \in 1 .. m : Array!Fresh(s, n, e).arr[i] = s[i]
  <1> DEFINE a == Array!Overlay(Array!Nils(n), 0, s)
             l == Array!Fresh(s, n, e)
  <1>1. Array!Nils(n) \in [1 .. n -> Elems] /\ \A i \in 1 .. n : Array!Nils(n)[i] = None
    BY DEF Array!Nils, Elems
  <1>2. a \in [1 .. n -> Elems] /\ \A j \in 1 .. n : a[j] = IF j <= m THEN s[j] ELSE Array!Nils(n)[j]
    <2> DEFINE z == Array!Nils(n)
    <2> SUFFICES a \in [1 .. n -> Elems] /\ \A j \in 1 .. n : a[j] = IF j <= m THEN s[j] ELSE z[j]
      OBVIOUS
    <2>1. z \in [1 .. n -> Elems] /\ 0 \in Nat
      BY <1>1
    <2> HIDE DEF z
    <2>2. /\ Array!Overlay(z, 0, s) \in [1 .. n -> Elems]
          /\ \A j \in 1 .. n : Array!Overlay(z, 0, s)[j] = IF 0 < j /\ j <= 0 + m THEN s[j - 0] ELSE z[j]
      BY <2>1, OverlayIs
    <2>3. \A j \in 1 .. n : 0 < j /\ 0 + m = m /\ j - 0 = j
      OBVIOUS
    <2>4. QED BY <2>2, <2>3 DEF z
  <1>3. Len(s) = m
    BY LenIs
  <1>4. l = [arr |-> a, size |-> n, len |-> m, cap |-> n, ex |-> e]
    BY <1>3 DEF Array!Fresh
  <1> HIDE DEF a, l
  <1>5. \A i \in 1 .. n : i > m => a[i] = None
    BY <1>1, <1>2
  <1>6. \A i \in 1 .. m : a[i] = s[i]
    BY <1>2
  <1>7. l.arr = a /\ l.size = n /\ l.len = m /\ l.cap = n /\ l.ex = e
    BY <1>4
  <1>8. Clean(l)
    <2>1. a \in Seq(Elems)
      BY <1>2, LenIs
    <2>2. l \in Lists
      BY <1>4, <2>1 DEF Lists
    <2>3. QED BY <1>2, <1>5, <1>7, <2>2 DEF Clean
  <1>9. QED BY <1>6, <1>7, <1>8 DEF l

\* What the methods of a clean list read of it.
LEMMA CleanFacts ==
  ASSUME NEW l, Clean(l)
  PROVE  /\ l.cap = l.size /\ l.size \in Nat /\ l.len \in Nat /\ l.ex \in Nat /\ l.len <= l.size
         /\ l.arr \in [1 .. l.size -> Elems]
         /\ Array!Contents(l) \in [1 .. l.len -> Elems]
         /\ \A i \in 1 .. l.len : Array!Contents(l)[i] = l.arr[i]
  <1>1. /\ l.cap = l.size /\ l.size \in Nat /\ l.len \in Nat /\ l.ex \in Nat /\ l.len <= l.size
        /\ l.arr \in [1 .. l.size -> Elems]
    BY DEF Clean, Lists
  <1>2. \A i \in 1 .. l.len : i \in 1 .. l.size
    BY <1>1
  <1>3. QED BY <1>1, <1>2 DEF Array!Contents

\* What Expand gives: room for n elements, the contents as they were.
LEMMA ExpandIs ==
  ASSUME NEW l, Clean(l), NEW n \in Nat
  PROVE  /\ Clean(Array!Expand(l, n)) /\ Array!Expand(l, n).len = l.len
         /\ n <= Array!Expand(l, n).size
         /\ \A i \in 1 .. l.len : Array!Expand(l, n).arr[i] = l.arr[i]
  <1> DEFINE c == n + l.ex
             e == Array!Most(l.ex, c \div 10)
  <1>1. CASE l.len >= n
    BY <1>1, CleanFacts DEF Array!Expand
  <1>2. CASE ~(l.len >= n)
    <2>1. c \in Nat /\ l.len <= c /\ n <= c
      BY <1>2, CleanFacts
    <2>2. e \in Nat
      <3> HIDE DEF c
      <3>1. c \div 10 \in Nat
        BY <2>1
      <3>2. QED BY <3>1, CleanFacts DEF Array!Most
    <2>3. Array!Expand(l, n) = Array!Fresh(Array!Contents(l), c, e)
      BY <1>2 DEF Array!Expand
    <2> HIDE DEF c, e
    <2> DEFINE s == Array!Contents(l)
               f == Array!Fresh(s, c, e)
    <2>4. s \in [1 .. l.len -> Elems] /\ l.len \in Nat /\ \A i \in 1 .. l.len : s[i] = l.arr[i]
      BY CleanFacts
    <2> HIDE DEF s
    <2>5. Clean(f) /\ f.len = l.len /\ f.size = c /\ \A i \in 1 .. l.len : f.arr[i] = s[i]
      BY <2>1, <2>2, <2>4, FreshIs
    <2>6. Array!Expand(l, n) = f
      BY <2>3 DEF s
    <2> HIDE DEF f
    <2>7. QED BY <2>1, <2>4, <2>5, <2>6
  <1>3. QED BY <1>1, <1>2

\* With another array that is nil behind another length, a list is clean still.
NilBehind(x, n, k) == \A j \in 1 .. k : j > n => x[j] = None

Renew(b, x, n) == [b EXCEPT !.arr = x, !.len = n]

LEMMA RenewIs ==
  ASSUME NEW b, Clean(b), NEW x \in [1 .. b.size -> Elems], NEW n \in Nat, n <= b.size, NilBehind(x, n, b.size)
  PROVE  /\ Clean(Renew(b, x, n))
         /\ Renew(b, x, n).arr = x /\ Renew(b, x, n).len = n /\ Renew(b, x, n).size = b.size
  <1> DEFINE u == Renew(b, x, n)
  <1>1. b \in Lists /\ b.size \in Nat /\ b.cap = b.size
    BY DEF Clean, Lists
  <1>2. x \in Seq(Elems)
    BY <1>1, LenIs
  <1>3. u \in Lists /\ u.arr = x /\ u.len = n /\ u.size = b.size /\ u.cap = b.size
    BY <1>1, <1>2 DEF Lists, Renew
  <1> HIDE DEF u
  <1>4. QED BY <1>3 DEF Clean, NilBehind, u

\* A value put at a place, on a list that then ends no sooner.
Put(b, i, v, n) == Renew(b, [b.arr EXCEPT ![i] = v], n)

LEMMA PutIs ==
  ASSUME NEW b, Clean(b), NEW i \in Nat, 1 <= i, NEW v \in Elems, NEW n \in Nat,
         i <= n, b.len <= n, n <= b.size
  PROVE  /\ Clean(Put(b, i, v, n)) /\ Put(b, i, v, n).len = n /\ Put(b, i, v, n).size = b.size
         /\ \A j \in 1 .. b.size : Put(b, i, v, n).arr[j] = IF j = i THEN v ELSE b.arr[j]
  <1> DEFINE x == [b.arr EXCEPT ![i] = v]
             p == Put(b, i, v, n)
  <1>1. /\ b.size \in Nat /\ b.len \in Nat
        /\ b.arr \in [1 .. b.size -> Elems] /\ \A j \in 1 .. b.size : j > b.len => b.arr[j] = None
    BY DEF Clean, Lists
  <1>2. /\ x \in [1 .. b.size -> Elems]
        /\ \A j \in 1 .. b.size : x[j] = IF j = i THEN v ELSE b.arr[j]
    BY <1>1
  <1>3. p = Renew(b, x, n)
    BY DEF Put
  <1> HIDE DEF x, p
  <1>4. NilBehind(x, n, b.size)
    BY <1>1, <1>2 DEF NilBehind
  <1>5. Clean(p) /\ p.arr = x /\ p.len = n /\ p.size = b.size
    BY <1>2, <1>3, <1>4, RenewIs
  <1>6. QED BY <1>2, <1>5 DEF p

LEMMA AppendIs ==
  ASSUME NEW l, Clean(l), NEW v \in Elems
  PROVE  /\ Clean(Array!AppendTo(l, v)) /\ Array!AppendTo(l, v).len = l.len + 1
         /\ Array!AppendTo(l, v).arr[l.len + 1] = v
         /\ \A i \in 1 .. l.len : Array!AppendTo(l, v).arr[i] = l.arr[i]
  <1> DEFINE big == IF l.cap = l.len THEN Array!Expand(l, l.len + 1) ELSE l
             a == Array!AppendTo(l, v)
             n == l.len + 1
  <1>1. l.len \in Nat /\ n \in Nat /\ 1 <= n /\ l.len < n /\ l.cap = l.size /\ l.len <= l.size /\ l.size \in Nat
    BY CleanFacts
  <1>2. Clean(big) /\ big.len = l.len /\ n <= big.size /\ \A i \in 1 .. l.len : big.arr[i] = l.arr[i]
    <2>1. CASE l.cap = l.len
      BY <1>1, <2>1, ExpandIs
    <2>2. CASE l.cap # l.len
      BY <1>1, <2>2
    <2>3. QED BY <2>1, <2>2
  <1>3. a = Put(big, n, v, n)
    BY <1>2 DEF Array!AppendTo, Put, Renew
  <1> HIDE DEF big, a, n
  <1>4. Clean(a) /\ a.len = n /\ \A j \in 1 .. big.size : a.arr[j] = IF j = n THEN v ELSE big.arr[j]
    <2>1. big.len <= n /\ n <= n
      BY <1>1, <1>2
    <2>2. QED BY <1>1, <1>2, <1>3, <2>1, PutIs
  <1>5. big.size \in Nat
    BY <1>2 DEF Clean, Lists
  <1>6. n \in 1 .. big.size /\ \A i \in 1 .. l.len : i \in 1 .. big.size /\ i # n
    BY <1>1, <1>2, <1>5
  <1>7. QED BY <1>2, <1>4, <1>6 DEF a, n

LEMMA SetIs ==
  ASSUME NEW l, Clean(l), NEW i \in Nat, NEW v \in Elems
  PROVE  /\ Clean(Array!SetAt(l, i, v))
         /\ Array!SetAt(l, i, v).len = IF l.len > i + 1 THEN l.len ELSE i + 1
         /\ \A j \in 1 .. Array!SetAt(l, i, v).len : Array!SetAt(l, i, v).arr[j] =
                IF j = i + 1 THEN v ELSE IF j <= l.len THEN l.arr[j] ELSE None
  <1> DEFINE big == IF i >= l.cap THEN Array!Expand(l, i + 1) ELSE l
             a == Array!SetAt(l, i, v)
             n == IF l.len > i + 1 THEN l.len ELSE i + 1
             k == i + 1
  <1>1. /\ l.len \in Nat /\ n \in Nat /\ k \in Nat /\ 1 <= k /\ k <= n /\ l.len <= n
        /\ l.cap = l.size /\ l.len <= l.size /\ l.size \in Nat
    BY CleanFacts
  <1>2. Clean(big) /\ big.len = l.len /\ n <= big.size /\ \A j \in 1 .. l.len : big.arr[j] = l.arr[j]
    <2>1. CASE i >= l.cap
      <3> DEFINE x == Array!Expand(l, k)
      <3>1. Clean(x) /\ x.len = l.len /\ k <= x.size /\ \A j \in 1 .. l.len : x.arr[j] = l.arr[j]
        BY <1>1, ExpandIs
      <3>2. n = k /\ big = x
        BY <1>1, <2>1
      <3>3. QED BY <3>1, <3>2
    <2>2. CASE ~(i >= l.cap)
      BY <1>1, <2>2
    <2>3. QED BY <2>1, <2>2
  <1>3. a = Put(big, k, v, n)
    <2>1. n = IF big.len > i + 1 THEN big.len ELSE i + 1
      BY <1>2
    <2>2. QED BY <2>1 DEF Array!SetAt, Array!Most, Put, Renew
  <1> HIDE DEF big, a, n, k
  <1>4. Clean(a) /\ a.len = n /\ \A j \in 1 .. big.size : a.arr[j] = IF j = k THEN v ELSE big.arr[j]
    <2>1. big.len <= n
      BY <1>1, <1>2
    <2>2. QED BY <1>1, <1>2, <1>3, <2>1, PutIs
  <1>5. big.size \in Nat /\ \A j \in 1 .. big.size : j > l.len => big.arr[j] = None
    BY <1>2 DEF Clean, Lists
  <1>6. \A j \in 1 .. n : j \in 1 .. big.size /\ (j <= l.len => j \in 1 .. l.len) /\ (~(j <= l.len) => j > l.len)
    BY <1>1, <1>2, <1>5
  <1>7. \A j \in 1 .. n : a.arr[j] = IF j = k THEN v ELSE IF j <= l.len THEN l.arr[j] ELSE None
    BY <1>2, <1>4, <1>5, <1>6
  <1>8. QED BY <1>4, <1>7 DEF a, n, k

LEMMA ExtendIs ==
  ASSUME NEW l, Clean(l), NEW m \in Nat, NEW vs \in [1 .. m -> Elems]
  PROVE  /\ Clean(Array!ExtendBy(l, vs)) /\ l.len <= Array!ExtendBy(l, vs).len
         /\ vs = <<>> => Array!ExtendBy(l, vs) = l
  <1> DEFINE big == Array!PrepareSize(l, Len(vs))
             a == Array!Overlay(big.arr, l.len, vs)
             n == l.len + m
             e == Renew(big, a, n)
             q == l.len
             z == big.size
             o == big.arr
  <1>1. /\ q \in Nat /\ n \in Nat /\ q <= n /\ Len(vs) = m
        /\ l.cap = l.size /\ q <= l.size /\ l.size \in Nat
    BY CleanFacts, LenIs
  <1>2. Clean(big) /\ big.len = q /\ n <= z
    <2>1. CASE l.len - l.cap < m
      <3>1. big = Array!Expand(l, n)
        BY <1>1, <2>1 DEF Array!PrepareSize
      <3> HIDE DEF n, big
      <3>2. Clean(Array!Expand(l, n)) /\ Array!Expand(l, n).len = l.len /\ n <= Array!Expand(l, n).size
        BY <1>1, ExpandIs
      <3>3. QED BY <3>1, <3>2
    <2>2. CASE ~(l.len - l.cap < m)
      <3>1. big = l
        BY <1>1, <2>2 DEF Array!PrepareSize
      <3>2. QED BY <1>1, <2>2, <3>1
    <2>3. QED BY <2>1, <2>2
  <1>3. z \in Nat /\ o \in [1 .. z -> Elems] /\ \A j \in 1 .. z : j > q => o[j] = None
    <2> HIDE DEF big
    <2>1. QED BY <1>2 DEF Clean, Lists
  <1>4. CASE vs = <<>>
    BY <1>4, <1>1 DEF Array!ExtendBy
  <1>5. CASE vs # <<>>
    <2>1. Array!ExtendBy(l, vs) = e
      BY <1>1, <1>2, <1>5 DEF Array!ExtendBy, Renew
    <2>2. a = Array!Overlay(o, q, vs)
      OBVIOUS
    <2> HIDE DEF q, z, o, a, big, n
    <2>3. /\ a \in [1 .. z -> Elems]
          /\ \A j \in 1 .. z : a[j] = IF q < j /\ j <= q + m THEN vs[j - q] ELSE o[j]
      BY <1>1, <1>3, <2>2, OverlayIs
    <2>4. \A j \in 1 .. z : j > n => a[j] = None
      <3> SUFFICES ASSUME NEW j \in 1 .. z, j > n PROVE a[j] = None
        OBVIOUS
      <3>1. j > q /\ ~(j <= q + m)
        BY <1>1, <1>3 DEF n, q
      <3>2. QED BY <1>3, <2>3, <3>1
    <2>5. Clean(e) /\ e.len = n
      <3>1. a \in [1 .. big.size -> Elems] /\ n <= big.size /\ NilBehind(a, n, big.size)
        BY <1>2, <2>3, <2>4 DEF z, NilBehind
      <3>2. QED BY <1>1, <1>2, <3>1, RenewIs
    <2>6. QED BY <1>1, <1>5, <2>1, <2>5 DEF q
  <1>6. QED BY <1>4, <1>5

\* Another arrangement of the contents.
LEMMA ArrangeIs ==
  ASSUME NEW l, Clean(l), NEW p \in [1 .. l.len -> 1 .. l.len]
  PROVE  /\ Clean(Array!Arranged(l, p)) /\ Array!Arranged(l, p).len = l.len
         /\ \A i \in 1 .. l.len : Array!Arranged(l, p).arr[i] = l.arr[p[i]]
  <1> DEFINE q == l.len
             z == l.size
             o == l.arr
             s == [i \in 1 .. q |-> o[p[i]]]
             a == Array!Overlay(o, 0, s)
             e == Renew(l, a, q)
             r == Array!Arranged(l, p)
  <1>1. /\ q \in Nat /\ z \in Nat /\ q <= z /\ o \in [1 .. z -> Elems]
        /\ \A j \in 1 .. z : j > q => o[j] = None
    BY DEF Clean, Lists
  <1>2. s \in [1 .. q -> Elems] /\ 0 \in Nat
    <2> HIDE DEF o, z
    <2>1. \A i \in 1 .. q : p[i] \in 1 .. z
      BY <1>1
    <2>2. QED BY <1>1, <2>1
  <1>3. \A i \in 1 .. q : s[i] = o[p[i]]
    OBVIOUS
  <1>4. r = e
    <2>1. l \in Lists
      BY DEF Clean
    <2>2. r = [l EXCEPT !.arr = a]
      BY DEF Array!Arranged, Array!WithContents
    <2>3. e = [l EXCEPT !.arr = a, !.len = l.len]
      BY DEF Renew
    <2> HIDE DEF a, e, r
    <2>4. QED BY <2>1, <2>2, <2>3 DEF Lists
  <1> HIDE DEF q, z, o, s, e, r
  <1>5. a \in [1 .. z -> Elems] /\ \A j \in 1 .. z : a[j] = IF 0 < j /\ j <= 0 + q THEN s[j - 0] ELSE o[j]
    BY <1>1, <1>2, OverlayIs
  <1> HIDE DEF a
  <1>6. \A j \in 1 .. z : j > q => a[j] = None
    BY <1>1, <1>5
  <1>7. \A j \in 1 .. q : a[j] = o[p[j]]
    BY <1>1, <1>3, <1>5
  <1>8. Clean(e) /\ e.arr = a /\ e.len = q
    <2>1. a \in [1 .. l.size -> Elems] /\ q <= l.size /\ NilBehind(a, q, l.size)
      BY <1>1, <1>5, <1>6 DEF z, NilBehind
    <2>2. QED BY <1>1, <2>1, RenewIs DEF e
  <1>9. QED BY <1>4, <1>7, <1>8 DEF q, o, r

\* Without the element at place i.
LEMMA RemoveIs ==
  ASSUME NEW l, Clean(l), NEW i \in 0 .. (l.len - 1)
  PROVE  /\ Clean(Array!RemoveFrom(l, i)) /\ Array!RemoveFrom(l, i).len = l.len - 1
         /\ \A j \in 1 .. (l.len - 1) :
               Array!RemoveFrom(l, i).arr[j] = l.arr[IF j <= i THEN j ELSE j + 1]
  <1> DEFINE m == l.len - 1
             s == [j \in 1 .. m |-> l.arr[IF j <= i THEN j ELSE j + 1]]
             z == l.size
             e == l.ex
             o == l.arr
  <1>1. /\ l.len \in Nat /\ m \in Nat /\ i \in Nat /\ l.cap = z /\ z \in Nat /\ e \in Nat
        /\ m <= z /\ l.len <= z /\ o \in [1 .. z -> Elems]
    BY CleanFacts
  <1>2. s \in [1 .. m -> Elems] /\ \A j \in 1 .. m : s[j] = l.arr[IF j <= i THEN j ELSE j + 1]
    <2>1. \A j \in 1 .. m : (IF j <= i THEN j ELSE j + 1) \in 1 .. z
      BY <1>1
    <2> HIDE DEF z
    <2>2. \A j \in 1 .. m : o[IF j <= i THEN j ELSE j + 1] \in Elems
      BY <1>1, <2>1
    <2>3. QED BY <2>2
  <1>3. Array!RemoveFrom(l, i) = Array!Fresh(s, z, e)
    BY <1>1 DEF Array!RemoveFrom
  <1> HIDE DEF m, s, z, e, o
  <1>4. /\ Clean(Array!Fresh(s, z, e)) /\ Array!Fresh(s, z, e).len = m
        /\ \A j \in 1 .. m : Array!Fresh(s, z, e).arr[j] = s[j]
    <2>1. m \in Nat /\ s \in [1 .. m -> Elems] /\ z \in Nat /\ e \in Nat /\ m <= z
      BY <1>1, <1>2
    <2>2. Clean(Array!Fresh(s, z, e)) /\ Array!Fresh(s, z, e).len = m
      BY <2>1, FreshIs
    <2>3. \A j \in 1 .. m : Array!Fresh(s, z, e).arr[j] = s[j]
      BY <2>1, FreshIs
    <2>4. QED BY <2>2, <2>3
  <1>5. QED BY <1>2, <1>3, <1>4 DEF m

\* The list that Clone returns has the same contents and capacity.
LEMMA CloneIs ==
  ASSUME NEW l, Clean(l)
  PROVE  /\ Clean(Array!CloneOf(l)) /\ Array!CloneOf(l).len = l.len
         /\ \A j \in 1 .. l.len : Array!CloneOf(l).arr[j] = l.arr[j]
  <1> DEFINE m == l.len
             s == Array!Contents(l)
             z == l.size
             e == l.ex
  <1>1. m \in Nat /\ z \in Nat /\ e \in Nat /\ m <= z /\ s \in [1 .. m -> Elems]
        /\ \A j \in 1 .. m : s[j] = l.arr[j]
    BY CleanFacts
  <1>2. Array!CloneOf(l) = Array!Fresh(s, z, e)
    BY DEF Array!CloneOf
  <1> HIDE DEF m, s, z, e
  <1>3. /\ Clean(Array!Fresh(s, z, e)) /\ Array!Fresh(s, z, e).len = m
        /\ \A j \in 1 .. m : Array!Fresh(s, z, e).arr[j] = s[j]
    <2>1. m \in Nat /\ s \in [1 .. m -> Elems] /\ z \in Nat /\ e \in Nat /\ m <= z
      BY <1>1
    <2>2. Clean(Array!Fresh(s, z, e)) /\ Array!Fresh(s, z, e).len = m
      BY <2>1, FreshIs
    <2>3. \A j \in 1 .. m : Array!Fresh(s, z, e).arr[j] = s[j]
      BY <2>1, FreshIs
    <2>4. QED BY <2>2, <2>3
  <1>4. QED BY <1>1, <1>2, <1>3 DEF m

LEMMA MapIs ==
  ASSUME NEW l, Clean(l), NEW f \in [Elems -> Elems]
  PROVE  Clean(Array!MapBy(l, f))
  <1> DEFINE m == l.len
             o == l.arr
             s == [i \in 1 .. m |-> f[o[i]]]
             z == l.size
             e == l.ex
  <1>1. /\ m \in Nat /\ z \in Nat /\ e \in Nat /\ m <= z /\ l.cap = z /\ o \in [1 .. z -> Elems]
    BY CleanFacts
  <1>2. Array!MapBy(l, f) = Array!Fresh(s, z, e)
    BY <1>1 DEF Array!MapBy
  <1> HIDE DEF m, z, e, o
  <1>3. \A i \in 1 .. m : o[i] \in Elems
    BY <1>1
  <1>4. s \in [1 .. m -> Elems]
    BY <1>3
  <1> HIDE DEF s
  <1>5. QED BY <1>1, <1>2, <1>4, FreshIs

\* A Transaction that did not shorten the clone leaves the clone's contents.
LEMMA CommitIs ==
  ASSUME NEW l, Clean(l), NEW c, Clean(c), l.len <= c.len
  PROVE  /\ Clean(Array!Commit(l, c)) /\ Array!Commit(l, c).len = c.len
         /\ \A j \in 1 .. c.len : Array!Commit(l, c).arr[j] = c.arr[j]
  <1> DEFINE b == IF c.cap # l.cap THEN Array!Nils(c.cap) ELSE l.arr
             s == Array!Contents(c)
             a == Array!Overlay(b, 0, s)
             q == c.len
             z == c.size
             r == Array!Commit(l, c)
  <1>1. /\ q \in Nat /\ z \in Nat /\ q <= z /\ c.cap = z
        /\ s \in [1 .. q -> Elems] /\ \A j \in 1 .. q : s[j] = c.arr[j]
    BY CleanFacts
  <1>2. /\ l.len \in Nat /\ l.size \in Nat /\ l.cap = l.size /\ l.arr \in [1 .. l.size -> Elems]
        /\ \A j \in 1 .. l.size : j > l.len => l.arr[j] = None
    BY DEF Clean, Lists
  <1>3. b \in [1 .. z -> Elems] /\ \A j \in 1 .. z : j > q => b[j] = None
    <2>1. CASE c.cap # l.cap
      <3>1. b = [j \in 1 .. z |-> None]
        BY <1>1, <2>1 DEF Array!Nils
      <3> HIDE DEF b
      <3>2. QED BY <3>1 DEF Elems
    <2>2. CASE c.cap = l.cap
      <3>1. b = l.arr /\ z = l.size
        BY <1>1, <1>2, <2>2
      <3>2. \A j \in 1 .. z : j > q => j > l.len
        BY <1>1, <1>2
      <3> HIDE DEF b, z, q
      <3>3. QED BY <1>2, <3>1, <3>2
    <2>3. QED BY <2>1, <2>2
  <1>4. r = Renew(c, a, q)
    <2>1. c \in Lists
      BY DEF Clean
    <2>2. r = [c EXCEPT !.arr = a]
      BY DEF Array!Commit
    <2>3. Renew(c, a, q) = [c EXCEPT !.arr = a, !.len = c.len]
      BY DEF Renew
    <2> DEFINE n == Renew(c, a, q)
    <2> HIDE DEF a, r, n
    <2>4. r = n
      BY <2>1, <2>2, <2>3 DEF Lists, n
    <2>5. QED BY <2>4 DEF n
  <1> HIDE DEF b, s, q, z, r
  <1>5. a \in [1 .. z -> Elems] /\ \A j \in 1 .. z : a[j] = IF 0 < j /\ j <= 0 + q THEN s[j - 0] ELSE b[j]
    <2>1. 0 \in Nat
      OBVIOUS
    <2>2. QED BY <1>1, <1>3, <2>1, OverlayIs
  <1> HIDE DEF a
  <1>6. a \in [1 .. c.size -> Elems] /\ q <= c.size /\ NilBehind(a, q, c.size)
    <2>1. \A j \in 1 .. z : j > q => a[j] = None
      BY <1>1, <1>3, <1>5
    <2>2. QED BY <1>1, <1>5, <2>1 DEF z, NilBehind
  <1>7. Clean(Renew(c, a, q)) /\ Renew(c, a, q).arr = a /\ Renew(c, a, q).len = q
    BY <1>1, <1>6, RenewIs
  <1>8. \A j \in 1 .. q : a[j] = c.arr[j]
    BY <1>1, <1>5
  <1>9. QED BY <1>4, <1>7, <1>8 DEF q, r

OnlyOnce(s, n) == \A i, j \in 1 .. n : s[i] = s[j] /\ s[i] # None => i = j

\* The elements of s that are to be kept: some of them, and no two that were not
\* two before.
LEMMA FilteredIs ==
  ASSUME NEW n \in Nat, NEW s \in [1 .. n -> Elems], NEW keep
  PROVE  \E m \in Nat :
           /\ m <= n /\ Array!Filtered(s, keep) \in [1 .. m -> Elems]
           /\ \A i \in 1 .. m : \E k \in 1 .. n : Array!Filtered(s, keep)[i] = s[k] /\ s[k] \in keep
           /\ OnlyOnce(s, n) => OnlyOnce(Array!Filtered(s, keep), m)
  <1> DEFINE Good(t, h) ==
               \E m \in Nat :
                 /\ m <= h /\ t \in [1 .. m -> Elems]
                 /\ \A i \in 1 .. m : \E k \in 1 .. h : t[i] = s[k] /\ s[k] \in keep
                 /\ OnlyOnce(s, n) => OnlyOnce(t, m)
             Next1(t, k) == IF s[k] \in keep THEN Append(t, s[k]) ELSE t
             Is(g, h) == \A k \in 0 .. h : g[k] = IF k = 0 THEN <<>> ELSE Next1(g[k - 1], k)
  <1>1. Good(<<>>, 0)
    <2>1. <<>> \in [1 .. 0 -> Elems]
      OBVIOUS
    <2>2. \A i \in 1 .. 0 : FALSE
      OBVIOUS
    <2>3. QED BY <2>1, <2>2 DEF OnlyOnce
  <1>2. ASSUME NEW k \in 1 .. n, NEW t, Good(t, k - 1)
        PROVE  Good(Next1(t, k), k)
    <2>1. PICK m \in Nat :
                 /\ m <= k - 1 /\ t \in [1 .. m -> Elems]
                 /\ \A i \in 1 .. m : \E x \in 1 .. (k - 1) : t[i] = s[x] /\ s[x] \in keep
                 /\ OnlyOnce(s, n) => OnlyOnce(t, m)
      BY <1>2
    <2>2. \A x \in 1 .. (k - 1) : x \in 1 .. k /\ x \in 1 .. n /\ x # k
      OBVIOUS
    <2>3. CASE s[k] \notin keep
      <3>1. m <= k /\ \A i \in 1 .. m : \E x \in 1 .. k : t[i] = s[x] /\ s[x] \in keep
        BY <2>1, <2>2
      <3>2. QED BY <2>1, <2>3, <3>1
    <2>4. CASE s[k] \in keep
      <3> DEFINE u == Append(t, s[k])
                 p == m + 1
      <3>1. t \in Seq(Elems) /\ Len(t) = m /\ s[k] \in Elems /\ p \in Nat /\ p <= k
        BY <2>1, LenIs
      <3>2. /\ u \in Seq(Elems) /\ Len(u) = p /\ u[p] = s[k] /\ \A i \in 1 .. m : u[i] = t[i]
        <4> DEFINE v == s[k]
        <4>1. v \in Elems
          BY <3>1
        <4> HIDE DEF v
        <4>2. /\ Append(t, v) \in Seq(Elems) /\ Len(Append(t, v)) = m + 1 /\ Append(t, v)[m + 1] = v
              /\ \A i \in 1 .. m : Append(t, v)[i] = t[i]
          BY <3>1, <4>1
        <4>3. QED BY <4>2 DEF v
      <3>3. u \in [1 .. p -> Elems]
        <4> HIDE DEF u, p
        <4>1. u \in [1 .. Len(u) -> Elems]
          BY <3>2, LenProperties
        <4>2. QED BY <3>2, <4>1
      <3>4. \A i \in 1 .. p : i = p \/ (i \in 1 .. m /\ i # p)
        BY <2>1
      <3>5. k \in 1 .. k
        OBVIOUS
      <3> HIDE DEF u, p
      <3>6. \A i \in 1 .. p : \E x \in 1 .. k : u[i] = s[x] /\ s[x] \in keep
        BY <2>1, <2>2, <2>4, <3>2, <3>4, <3>5
      <3>7. ASSUME OnlyOnce(s, n),
                   NEW i \in 1 .. p, NEW j \in 1 .. p, u[i] = u[j], u[i] # None
            PROVE  i = j
        <4>1. ASSUME NEW y \in 1 .. m, u[p] = u[y], u[p] # None PROVE FALSE
          <5>1. PICK x \in 1 .. (k - 1) : t[y] = s[x]
            BY <2>1
          <5>2. s[k] = s[x] /\ s[k] # None
            BY <3>2, <4>1, <5>1
          <5>3. QED BY <2>2, <3>7, <5>2 DEF OnlyOnce
        <4>2. CASE i = p /\ j = p
          BY <4>2
        <4>3. CASE i = p /\ j \in 1 .. m
          BY <3>7, <4>1, <4>3
        <4>4. CASE i \in 1 .. m /\ j = p
          BY <3>7, <4>1, <4>4
        <4>5. CASE i \in 1 .. m /\ j \in 1 .. m
          BY <2>1, <3>2, <3>7, <4>5 DEF OnlyOnce
        <4>6. QED BY <3>4, <4>2, <4>3, <4>4, <4>5
      <3>8. Next1(t, k) = u
        BY <2>4 DEF u
      <3>9. Good(u, k)
        BY <3>1, <3>3, <3>6, <3>7 DEF OnlyOnce
      <3>10. QED BY <3>8, <3>9
    <2>5. QED BY <2>3, <2>4
  <1> HIDE DEF Good, Next1
  <1>3. \A h \in Nat : h <= n => \E g : g = [k \in 0 .. n |-> g[k]] /\ Is(g, h)
    <2> DEFINE T == {h \in Nat : h <= n => \E g : g = [k \in 0 .. n |-> g[k]] /\ Is(g, h)}
    <2>1. 0 \in T
      <3> DEFINE g == [k \in 0 .. n |-> <<>>]
      <3>1. g = [k \in 0 .. n |-> g[k]] /\ Is(g, 0)
        OBVIOUS
      <3>2. QED BY <3>1
    <2>2. ASSUME NEW h \in T PROVE h + 1 \in T
      <3>1. SUFFICES ASSUME h + 1 <= n PROVE \E g : g = [k \in 0 .. n |-> g[k]] /\ Is(g, h + 1)
        OBVIOUS
      <3>2. h \in Nat /\ h <= n /\ h + 1 \in 0 .. n
        BY <3>1
      <3>3. PICK g : g = [k \in 0 .. n |-> g[k]] /\ Is(g, h)
        BY <3>2
      <3> DEFINE d == [k \in 0 .. n |-> IF k = h + 1 THEN Next1(g[h], h + 1) ELSE g[k]]
      <3>4. d = [k \in 0 .. n |-> d[k]]
        OBVIOUS
      <3>5. \A k \in 0 .. n : k # h + 1 => d[k] = g[k]
        OBVIOUS
      <3>6. d[h + 1] = Next1(g[h], h + 1)
        BY <3>2
      <3> HIDE DEF d
      <3>7. ASSUME NEW k \in 0 .. (h + 1) PROVE d[k] = IF k = 0 THEN <<>> ELSE Next1(d[k - 1], k)
        <4>1. CASE k = h + 1
          <5>1. k # 0 /\ k - 1 = h /\ h \in 0 .. n /\ h # h + 1
            BY <3>2, <4>1
          <5>2. QED BY <3>5, <3>6, <4>1, <5>1
        <4>2. CASE k # h + 1
          <5>1. k \in 0 .. h /\ k \in 0 .. n /\ (k # 0 => k - 1 \in 0 .. n /\ k - 1 # h + 1)
            BY <3>2, <4>2
          <5>2. g[k] = IF k = 0 THEN <<>> ELSE Next1(g[k - 1], k)
            BY <3>3, <5>1
          <5>3. QED BY <3>5, <4>2, <5>1, <5>2
        <4>3. QED BY <4>1, <4>2
      <3>8. Is(d, h + 1)
        BY <3>7
      <3>9. QED BY <3>4, <3>8
    <2> HIDE DEF T
    <2>3. T \in SUBSET Nat
      BY DEF T
    <2>4. \A h \in Nat : h \in T
      BY <2>1, <2>2, <2>3, Induction
    <2>5. QED BY <2>4 DEF T
  <1> DEFINE upto[k \in 0 .. n] == IF k = 0 THEN <<>> ELSE Next1(upto[k - 1], k)
  <1>4. \A k \in 0 .. n : upto[k] = IF k = 0 THEN <<>> ELSE Next1(upto[k - 1], k)
    <2>1. PICK g : g = [k \in 0 .. n |-> g[k]] /\ Is(g, n)
      BY <1>3
    <2>2. g = [k \in 0 .. n |-> IF k = 0 THEN <<>> ELSE Next1(g[k - 1], k)]
      BY <2>1
    <2>3. upto = [k \in 0 .. n |-> IF k = 0 THEN <<>> ELSE Next1(upto[k - 1], k)]
      BY <2>2
    <2> HIDE DEF upto
    <2>4. QED BY <2>3
  <1>5. \A h \in Nat : h <= n => Good(upto[h], h)
    <2> DEFINE T == {h \in Nat : h <= n => Good(upto[h], h)}
    <2> HIDE DEF upto
    <2>1. 0 \in T
      <3>1. upto[0] = <<>>
        BY <1>4
      <3>2. QED BY <1>1, <3>1
    <2>2. ASSUME NEW h \in T PROVE h + 1 \in T
      <3>1. SUFFICES ASSUME h + 1 <= n PROVE Good(upto[h + 1], h + 1)
        OBVIOUS
      <3>2. h + 1 \in 1 .. n /\ h + 1 \in 0 .. n /\ (h + 1) - 1 = h /\ h + 1 # 0 /\ h <= n
        BY <3>1
      <3> DEFINE x == h + 1
      <3>3. upto[x] = Next1(upto[x - 1], x) /\ Good(upto[x - 1], x - 1)
        BY <1>4, <3>2
      <3>4. x \in 1 .. n
        BY <3>2
      <3> HIDE DEF x
      <3>5. Good(upto[x], x)
        BY <1>2, <3>3, <3>4
      <3>6. QED BY <3>5 DEF x
    <2> HIDE DEF T
    <2>3. T \in SUBSET Nat
      BY DEF T
    <2>4. \A h \in Nat : h \in T
      BY <2>1, <2>2, <2>3, Induction
    <2>5. QED BY <2>4 DEF T
  <1>6. Array!Filtered(s, keep) = upto[n]
    <2>1. Len(s) = n
      BY LenIs
    <2>2. QED BY <2>1 DEF Array!Filtered, Next1
  <1> HIDE DEF upto
  <1>7. Good(Array!Filtered(s, keep), n)
    BY <1>5, <1>6
  <1>8. QED BY <1>7 DEF Good

-----------------------------------------------------------------------------
(* Sets.                                                                   *)

\* Every element that is not nil is there once, and the map u knows it.
OneEach(l, u) ==
    \A i \in 1 .. l.len :
        l.arr[i] # None => l.arr[i] \in u /\ \A j \in 1 .. l.len : l.arr[i] = l.arr[j] => i = j

LEMMA NewIsClean == Clean(Array!NewList) /\ Array!NewList.len = 0 /\ \A u : OneEach(Array!NewList, u)
  <1>1. <<>> \in [1 .. 0 -> Elems] /\ 0 \in Nat /\ ComfortLen \in Nat /\ 0 <= ComfortLen
    BY CollectionsAssumption
  <1>2. Array!NewList = Array!Fresh(<<>>, ComfortLen, ComfortLen)
    BY DEF Array!NewList
  <1>3. Clean(Array!NewList) /\ Array!NewList.len = 0
    <2> DEFINE s == <<>>
    <2>1. s \in [1 .. 0 -> Elems] /\ Array!NewList = Array!Fresh(s, ComfortLen, ComfortLen)
      BY <1>1, <1>2
    <2> DEFINE z == 0
               n == ComfortLen
    <2>2. z \in Nat /\ s \in [1 .. z -> Elems] /\ n \in Nat /\ z <= n
      BY <1>1, <2>1
    <2> HIDE DEF s, z, n
    <2>3. Clean(Array!Fresh(s, n, n)) /\ Array!Fresh(s, n, n).len = z
      BY <2>2, FreshIs
    <2>4. QED BY <2>1, <2>3 DEF z, n
  <1>4. \A i \in 1 .. 0 : FALSE
    OBVIOUS
  <1>5. QED BY <1>3, <1>4 DEF OneEach

LEMMA SetOnce ==
  ASSUME NEW l, Clean(l), NEW i \in Nat, NEW v \in Elems, NEW u, OneEach(l, u), v \notin u
  PROVE  OneEach(Array!SetAt(l, i, v), u \cup {v})
  <1> DEFINE a == Array!SetAt(l, i, v)
             m == l.len
             k == i + 1
  <1>1. m \in Nat /\ k \in Nat
    BY CleanFacts
  <1>2. /\ a.len = (IF m > k THEN m ELSE k)
        /\ \A j \in 1 .. a.len : a.arr[j] = IF j = k THEN v ELSE IF j <= m THEN l.arr[j] ELSE None
    BY SetIs
  <1>3. a.len \in Nat
    BY <1>1, <1>2
  <1>4. \A x \in 1 .. m : l.arr[x] # None => l.arr[x] \in u /\ \A y \in 1 .. m : l.arr[x] = l.arr[y] => x = y
    BY DEF OneEach
  <1>5. \A j \in 1 .. a.len : j <= m => j \in 1 .. m
    BY <1>1, <1>3
  <1> HIDE DEF a, m, k
  <1>6. ASSUME NEW x \in 1 .. a.len, a.arr[x] # None
        PROVE  a.arr[x] \in u \cup {v} /\ \A y \in 1 .. a.len : a.arr[x] = a.arr[y] => x = y
    BY <1>2, <1>4, <1>5, <1>6
  <1>7. QED BY <1>6 DEF OneEach, a

LEMMA AppendOnce ==
  ASSUME NEW l, Clean(l), NEW v \in Elems, NEW u, OneEach(l, u), v \notin u
  PROVE  OneEach(Array!AppendTo(l, v), u \cup {v})
  <1> DEFINE a == Array!AppendTo(l, v)
             m == l.len
             k == m + 1
  <1>1. m \in Nat /\ k \in Nat /\ \A j \in 1 .. k : j = k \/ j \in 1 .. m
    BY CleanFacts
  <1>2. /\ a.len = k /\ a.arr[k] = v /\ \A j \in 1 .. m : a.arr[j] = l.arr[j]
    BY AppendIs
  <1>3. \A x \in 1 .. m : l.arr[x] # None => l.arr[x] \in u /\ \A y \in 1 .. m : l.arr[x] = l.arr[y] => x = y
    BY DEF OneEach
  <1> HIDE DEF a, m, k
  <1>4. ASSUME NEW x \in 1 .. k, a.arr[x] # None
        PROVE  a.arr[x] \in u \cup {v} /\ \A y \in 1 .. k : a.arr[x] = a.arr[y] => x = y
    BY <1>1, <1>2, <1>3, <1>4
  <1>5. QED BY <1>2, <1>4 DEF OneEach, a

OneOne(p, n) == \A x, y \in 1 .. n : p[x] = p[y] => x = y

\* k holds what l held at other places, and w knows what u knew of that.
From(l, u, k, w, p) ==
    \A i \in 1 .. k.len : k.arr[i] = l.arr[p[i]] /\ (k.arr[i] # None /\ k.arr[i] \in u => k.arr[i] \in w)

LEMMA Chosen ==
  ASSUME NEW l, NEW u, OneEach(l, u), NEW k, NEW w, NEW p \in [1 .. k.len -> 1 .. l.len],
         OneOne(p, k.len), From(l, u, k, w, p)
  PROVE  OneEach(k, w)
  <1>1. \A i \in 1 .. k.len : p[i] \in 1 .. l.len
    OBVIOUS
  <1>2. \A x \in 1 .. l.len : l.arr[x] # None =>
            l.arr[x] \in u /\ \A y \in 1 .. l.len : l.arr[x] = l.arr[y] => x = y
    BY DEF OneEach
  <1>3. ASSUME NEW i \in 1 .. k.len, k.arr[i] # None
        PROVE  k.arr[i] \in w /\ \A j \in 1 .. k.len : k.arr[i] = k.arr[j] => i = j
    BY <1>1, <1>2, <1>3 DEF OneOne, From
  <1>4. QED BY <1>3 DEF OneEach

LEMMA RemoveOnce ==
  ASSUME NEW l, Clean(l), NEW u, OneEach(l, u), NEW i \in 0 .. (l.len - 1)
  PROVE  OneEach(Array!RemoveFrom(l, i), u \ {l.arr[i + 1]})
  <1> DEFINE k == Array!RemoveFrom(l, i)
             m == l.len - 1
             p == [j \in 1 .. m |-> IF j <= i THEN j ELSE j + 1]
             w == u \ {l.arr[i + 1]}
  <1>1. l.len \in Nat /\ i \in Nat /\ m \in Nat /\ i + 1 \in 1 .. l.len
    BY CleanFacts
  <1>2. k.len = m /\ \A j \in 1 .. m : k.arr[j] = l.arr[IF j <= i THEN j ELSE j + 1]
    BY RemoveIs
  <1>3. p \in [1 .. m -> 1 .. l.len]
    BY <1>1
  <1>4. \A x, y \in 1 .. m : p[x] = p[y] => x = y
    BY <1>1
  <1>5. \A x \in 1 .. m : p[x] \in 1 .. l.len /\ p[x] # i + 1 /\ k.arr[x] = l.arr[p[x]]
    BY <1>1, <1>2
  <1> HIDE DEF k, p
  <1>6. \A x \in 1 .. m : k.arr[x] # None /\ k.arr[x] \in u => k.arr[x] \in w
    <2>1. \A x \in 1 .. m : l.arr[p[x]] # None => l.arr[p[x]] # l.arr[i + 1]
      BY <1>1, <1>5 DEF OneEach
    <2>2. QED BY <1>5, <2>1
  <1> HIDE DEF m, w
  <1>7. OneEach(k, w)
    <2>1. p \in [1 .. k.len -> 1 .. l.len] /\ OneOne(p, k.len) /\ From(l, u, k, w, p)
      BY <1>2, <1>3, <1>4, <1>5, <1>6 DEF OneOne, From
    <2>2. QED BY <2>1, Chosen
  <1>8. QED BY <1>7 DEF k, w

LEMMA SameOnce ==
  ASSUME NEW l, NEW u, OneEach(l, u), NEW k, k.len = l.len, \A i \in 1 .. l.len : k.arr[i] = l.arr[i]
  PROVE  OneEach(k, u)
  BY DEF OneEach

LEMMA ArrangeOnce ==
  ASSUME NEW l, Clean(l), NEW u, OneEach(l, u), NEW p \in [1 .. l.len -> 1 .. l.len], OneOne(p, l.len)
  PROVE  OneEach(Array!Arranged(l, p), u)
  <1> DEFINE k == Array!Arranged(l, p)
  <1>1. k.len = l.len /\ \A i \in 1 .. l.len : k.arr[i] = l.arr[p[i]]
    BY ArrangeIs
  <1> HIDE DEF k
  <1>2. p \in [1 .. k.len -> 1 .. l.len] /\ OneOne(p, k.len) /\ From(l, u, k, u, p)
    BY <1>1 DEF From
  <1>3. OneEach(k, u)
    BY <1>2, Chosen
  <1>4. QED BY <1>3 DEF k

\* What Filter keeps, and what the map of a filtered set knows.
LEMMA FilterIs ==
  ASSUME NEW l, Clean(l), NEW keep
  PROVE  Clean(Array!FilterBy(l, keep))
  <1> DEFINE n == l.len
             s == Array!Contents(l)
             z == l.size
             e == l.ex
             t == Array!Filtered(s, keep)
  <1>1. n \in Nat /\ s \in [1 .. n -> Elems] /\ z \in Nat /\ e \in Nat /\ n <= z /\ l.cap = z
    BY CleanFacts
  <1>2. Array!FilterBy(l, keep) = Array!Fresh(t, z, e)
    BY <1>1 DEF Array!FilterBy
  <1> HIDE DEF n, s, z, e
  <1>3. PICK m \in Nat : m <= n /\ t \in [1 .. m -> Elems]
    BY <1>1, FilteredIs
  <1> HIDE DEF t
  <1>4. m <= z
    BY <1>1, <1>3
  <1>5. Clean(Array!Fresh(t, z, e))
    BY <1>1, <1>3, <1>4, FreshIs
  <1>6. QED BY <1>2, <1>5

LEMMA FilterOnce ==
  ASSUME NEW l, Clean(l), NEW u, OneEach(l, u), NEW keep
  PROVE  OneEach(Array!FilterBy(l, keep), keep \cap Array!ToSet(Array!Contents(l)))
  <1> DEFINE n == l.len
             s == Array!Contents(l)
             z == l.size
             e == l.ex
             t == Array!Filtered(s, keep)
             k == Array!Fresh(t, z, e)
             w == keep \cap Array!ToSet(s)
  <1>1. /\ n \in Nat /\ s \in [1 .. n -> Elems] /\ z \in Nat /\ e \in Nat /\ n <= z /\ l.cap = z
        /\ \A i \in 1 .. n : s[i] = l.arr[i]
    BY CleanFacts
  <1>2. Array!FilterBy(l, keep) = k
    BY <1>1 DEF Array!FilterBy
  <1>3. \A i \in 1 .. n : s[i] \in Array!ToSet(s)
    <2> HIDE DEF n, s
    <2>1. Len(s) = n
      BY <1>1, LenIs
    <2>2. QED BY <1>1, <2>1 DEF Array!ToSet
  <1>4. OnlyOnce(s, n)
    <2>1. \A i \in 1 .. n : l.arr[i] # None => \A j \in 1 .. n : l.arr[i] = l.arr[j] => i = j
      BY DEF OneEach
    <2> HIDE DEF n, s
    <2>2. QED BY <1>1, <2>1 DEF OnlyOnce
  <1> HIDE DEF n, s, z, e
  <1>5. PICK m \in Nat :
           /\ m <= n /\ t \in [1 .. m -> Elems]
           /\ \A i \in 1 .. m : \E x \in 1 .. n : t[i] = s[x] /\ s[x] \in keep
           /\ OnlyOnce(s, n) => OnlyOnce(t, m)
    BY <1>1, FilteredIs
  <1> HIDE DEF t, w
  <1>6. m <= z
    BY <1>1, <1>5
  <1>7. k.len = m /\ \A i \in 1 .. m : k.arr[i] = t[i]
    BY <1>1, <1>5, <1>6, FreshIs
  <1>8. \A i \in 1 .. m : t[i] \in w
    BY <1>3, <1>5 DEF w
  <1> HIDE DEF k
  <1>9. OneEach(k, w)
    <2>1. ASSUME NEW i \in 1 .. m, NEW j \in 1 .. m, k.arr[i] # None, k.arr[i] = k.arr[j] PROVE i = j
      BY <1>4, <1>5, <1>7, <2>1 DEF OnlyOnce
    <2>2. QED BY <1>7, <1>8, <2>1 DEF OneEach
  <1>10. QED BY <1>2, <1>9 DEF w, s

\* The set that MapSet builds.
LEMMA MappedIs ==
  ASSUME NEW l, Clean(l), NEW f \in [Elems -> Elems]
  PROVE  Clean(Array!MappedSet(l, f).l) /\ OneEach(Array!MappedSet(l, f).l, Array!MappedSet(l, f).uniq)
  <1> DEFINE n == l.len
             o == l.arr
             start == [l |-> Array!NewList, uniq |-> {}]
             Good(t, h) == Clean(t.l) /\ t.l.len <= h /\ OneEach(t.l, t.uniq)
             Next1(t, k) ==
               IF f[o[k]] \in t.uniq THEN t
               ELSE [l |-> Array!InsertInto(t.l, k - 1, f[o[k]]), uniq |-> t.uniq \cup {f[o[k]]}]
             Is(g, h) == \A k \in 0 .. h : g[k] = IF k = 0 THEN start ELSE Next1(g[k - 1], k)
  <1>0. n \in Nat /\ \A k \in 1 .. n : o[k] \in Elems
    <2>1. n \in Nat /\ l.size \in Nat /\ n <= l.size /\ o \in [1 .. l.size -> Elems]
      BY CleanFacts
    <2>2. \A k \in 1 .. n : k \in 1 .. l.size
      BY <2>1
    <2>3. QED BY <2>1, <2>2
  <1> HIDE DEF n, o
  <1>1. Good(start, 0)
    BY NewIsClean
  <1>2. ASSUME NEW k \in 1 .. n, NEW t, Good(t, k - 1)
        PROVE  Good(Next1(t, k), k)
    <2> DEFINE v == f[o[k]]
               i == k - 1
               a == Array!SetAt(t.l, i, v)
    <2>1. v \in Elems
      BY <1>0
    <2>2. i \in Nat /\ t.l.len <= i /\ t.l.len \in Nat /\ Clean(t.l) /\ OneEach(t.l, t.uniq) /\ i + 1 = k /\ k \in Nat
      BY <1>0, <1>2, CleanFacts
    <2>3. CASE v \in t.uniq
      <3>1. t.l.len <= k
        BY <2>2
      <3>2. QED BY <2>2, <2>3, <3>1
    <2>4. CASE v \notin t.uniq
      <3>1. Next1(t, k) = [l |-> Array!InsertInto(t.l, i, v), uniq |-> t.uniq \cup {v}]
        BY <2>4
      <3> HIDE DEF v, i
      <3>2. Array!InsertInto(t.l, i, v) = a
        BY <2>2 DEF Array!InsertInto
      <3> DEFINE q == t.l
                 u == t.uniq
      <3>3. Clean(q) /\ i \in Nat /\ v \in Elems /\ OneEach(q, u) /\ v \notin u
        BY <2>1, <2>2, <2>4
      <3> HIDE DEF q, u, a
      <3>4. Clean(Array!SetAt(q, i, v)) /\ OneEach(Array!SetAt(q, i, v), u \cup {v})
            /\ Array!SetAt(q, i, v).len = IF q.len > i + 1 THEN q.len ELSE i + 1
        BY <3>3, SetIs, SetOnce
      <3>5. a = Array!SetAt(q, i, v) /\ q.len = t.l.len
        BY DEF a, q
      <3>6. a.len = k
        BY <2>2, <3>4, <3>5
      <3>7. Next1(t, k).l = a /\ Next1(t, k).uniq = t.uniq \cup {v}
        BY <3>1, <3>2
      <3> HIDE DEF Next1
      <3>8. QED BY <2>2, <3>4, <3>5, <3>6, <3>7 DEF u
    <2>5. QED BY <2>3, <2>4
  <1> HIDE DEF Good, Next1, start
  <1>3. \A h \in Nat : h <= n => \E g : g = [k \in 0 .. n |-> g[k]] /\ Is(g, h)
    <2> DEFINE T == {h \in Nat : h <= n => \E g : g = [k \in 0 .. n |-> g[k]] /\ Is(g, h)}
    <2>1. 0 \in T
      <3> DEFINE g == [k \in 0 .. n |-> start]
      <3>1. g = [k \in 0 .. n |-> g[k]] /\ Is(g, 0)
        BY <1>0
      <3>2. QED BY <3>1
    <2>2. ASSUME NEW h \in T PROVE h + 1 \in T
      <3>1. SUFFICES ASSUME h + 1 <= n PROVE \E g : g = [k \in 0 .. n |-> g[k]] /\ Is(g, h + 1)
        OBVIOUS
      <3>2. h \in Nat /\ h <= n /\ h + 1 \in 0 .. n
        BY <1>0, <3>1
      <3>3. PICK g : g = [k \in 0 .. n |-> g[k]] /\ Is(g, h)
        BY <3>2
      <3> DEFINE d == [k \in 0 .. n |-> IF k = h + 1 THEN Next1(g[h], h + 1) ELSE g[k]]
      <3>4. d = [k \in 0 .. n |-> d[k]]
        OBVIOUS
      <3>5. \A k \in 0 .. n : k # h + 1 => d[k] = g[k]
        OBVIOUS
      <3>6. d[h + 1] = Next1(g[h], h + 1)
        BY <3>2
      <3> HIDE DEF d
      <3>7. ASSUME NEW k \in 0 .. (h + 1) PROVE d[k] = IF k = 0 THEN start ELSE Next1(d[k - 1], k)
        <4>1. CASE k = h + 1
          <5>1. k # 0 /\ k - 1 = h /\ h \in 0 .. n /\ h # h + 1
            BY <1>0, <3>2, <4>1
          <5>2. QED BY <3>5, <3>6, <4>1, <5>1
        <4>2. CASE k # h + 1
          <5>1. k \in 0 .. h /\ k \in 0 .. n /\ (k # 0 => k - 1 \in 0 .. n /\ k - 1 # h + 1)
            BY <1>0, <3>2, <4>2
          <5>2. g[k] = IF k = 0 THEN start ELSE Next1(g[k - 1], k)
            BY <3>3, <5>1
          <5>3. QED BY <3>5, <4>2, <5>1, <5>2
        <4>3. QED BY <4>1, <4>2
      <3>8. Is(d, h + 1)
        BY <3>7
      <3>9. QED BY <3>4, <3>8
    <2> HIDE DEF T
    <2>3. T \in SUBSET Nat
      BY DEF T
    <2>4. \A h \in Nat : h \in T
      BY <2>1, <2>2, <2>3, Induction
    <2>5. QED BY <2>4 DEF T
  <1> DEFINE upto[k \in 0 .. n] == IF k = 0 THEN start ELSE Next1(upto[k - 1], k)
  <1>4. \A k \in 0 .. n : upto[k] = IF k = 0 THEN start ELSE Next1(upto[k - 1], k)
    <2>1. PICK g : g = [k \in 0 .. n |-> g[k]] /\ Is(g, n)
      BY <1>0, <1>3
    <2>2. g = [k \in 0 .. n |-> IF k = 0 THEN start ELSE Next1(g[k - 1], k)]
      BY <2>1
    <2>3. upto = [k \in 0 .. n |-> IF k = 0 THEN start ELSE Next1(upto[k - 1], k)]
      BY <2>2
    <2> HIDE DEF upto
    <2>4. QED BY <2>3
  <1>5. \A h \in Nat : h <= n => Good(upto[h], h)
    <2> DEFINE T == {h \in Nat : h <= n => Good(upto[h], h)}
    <2> HIDE DEF upto
    <2>1. 0 \in T
      <3>1. upto[0] = start
        BY <1>0, <1>4
      <3>2. QED BY <1>1, <3>1
    <2>2. ASSUME NEW h \in T PROVE h + 1 \in T
      <3>1. SUFFICES ASSUME h + 1 <= n PROVE Good(upto[h + 1], h + 1)
        OBVIOUS
      <3>2. h + 1 \in 1 .. n /\ h + 1 \in 0 .. n /\ (h + 1) - 1 = h /\ h + 1 # 0 /\ h <= n
        BY <1>0, <3>1
      <3> DEFINE x == h + 1
      <3>3. upto[x] = Next1(upto[x - 1], x) /\ Good(upto[x - 1], x - 1)
        BY <1>4, <3>2
      <3>4. x \in 1 .. n
        BY <3>2
      <3> HIDE DEF x
      <3>5. Good(upto[x], x)
        BY <1>2, <3>3, <3>4
      <3>6. QED BY <3>5 DEF x
    <2> HIDE DEF T
    <2>3. T \in SUBSET Nat
      BY DEF T
    <2>4. \A h \in Nat : h \in T
      BY <2>1, <2>2, <2>3, Induction
    <2>5. QED BY <2>4 DEF T
  <1>6. Array!MappedSet(l, f) = upto[n]
    BY DEF Array!MappedSet, Next1, start, n, o
  <1> HIDE DEF upto
  <1>7. Good(Array!MappedSet(l, f), n)
    BY <1>0, <1>5, <1>6
  <1>8. QED BY <1>7 DEF Good

-----------------------------------------------------------------------------
(* Calls.                                                                  *)

LEMMA RemoveAny ==
  ASSUME NEW l, Clean(l), NEW i
  PROVE  Clean(Array!RemoveFrom(l, i))
  <1>1. CASE i \in 0 .. (l.len - 1)
    BY <1>1, RemoveIs
  <1>2. CASE i \notin 0 .. (l.len - 1)
    BY <1>2 DEF Array!RemoveFrom
  <1>3. QED BY <1>1, <1>2

\* What Swap, Reverse and Sort do to the places is one to one.
LEMMA SwapArranges ==
  ASSUME NEW n \in Nat, NEW i \in 0 .. (n - 1), NEW j \in 0 .. (n - 1), NEW p,
         p = [k \in 1 .. n |-> IF k = i + 1 THEN j + 1 ELSE IF k = j + 1 THEN i + 1 ELSE k]
  PROVE  p \in [1 .. n -> 1 .. n] /\ OneOne(p, n)
  <1>1. i \in Nat /\ j \in Nat /\ i + 1 \in 1 .. n /\ j + 1 \in 1 .. n
    OBVIOUS
  <1>2. p \in [1 .. n -> 1 .. n]
    BY <1>1
  <1>3. \A k \in 1 .. n : p[k] = IF k = i + 1 THEN j + 1 ELSE IF k = j + 1 THEN i + 1 ELSE k
    OBVIOUS
  <1>4. OneOne(p, n)
    BY <1>1, <1>3 DEF OneOne
  <1>5. QED BY <1>2, <1>4

LEMMA ReverseArranges ==
  ASSUME NEW n \in Nat, NEW p, p = [k \in 1 .. n |-> n + 1 - k]
  PROVE  p \in [1 .. n -> 1 .. n] /\ OneOne(p, n)
  <1>1. p \in [1 .. n -> 1 .. n]
    OBVIOUS
  <1>2. \A k \in 1 .. n : p[k] = n + 1 - k
    OBVIOUS
  <1>3. OneOne(p, n)
    BY <1>2 DEF OneOne
  <1>4. QED BY <1>1, <1>3

LEMMA SortArranges ==
  ASSUME NEW l, NEW p \in Array!Orders(l)
  PROVE  p \in [1 .. l.len -> 1 .. l.len] /\ OneOne(p, l.len)
  BY DEF Array!Orders, Array!Bijection, Array!Injection, Array!Surjection, Array!IsInjective, OneOne

LEMMA ReverseIs ==
  ASSUME NEW l, Clean(l)
  PROVE  /\ Clean(Array!Reversed(l)) /\ Array!Reversed(l).len = l.len
         /\ \A u : OneEach(l, u) => OneEach(Array!Reversed(l), u)
  <1> DEFINE p == [k \in 1 .. l.len |-> l.len + 1 - k]
  <1>1. l.len \in Nat
    BY CleanFacts
  <1>2. p \in [1 .. l.len -> 1 .. l.len] /\ OneOne(p, l.len)
    BY <1>1, ReverseArranges
  <1>3. Array!Reversed(l) = Array!Arranged(l, p)
    BY DEF Array!Reversed
  <1> HIDE DEF p
  <1>4. QED BY <1>2, <1>3, ArrangeIs, ArrangeOnce

LEMMA SwapIs ==
  ASSUME NEW l, Clean(l), NEW i \in Array!Places(l), NEW j \in Array!Places(l)
  PROVE  /\ Clean(Array!SwapAt(l, i, j))
         /\ \A u : OneEach(l, u) => OneEach(Array!SwapAt(l, i, j), u)
  <1> DEFINE p == [k \in 1 .. l.len |-> IF k = i + 1 THEN j + 1 ELSE IF k = j + 1 THEN i + 1 ELSE k]
             n == l.len
  <1>1. n \in Nat /\ i \in 0 .. (n - 1) /\ j \in 0 .. (n - 1)
    BY CleanFacts DEF Array!Places
  <1>2. p \in [1 .. l.len -> 1 .. l.len] /\ OneOne(p, l.len)
    <2>1. p = [k \in 1 .. n |-> IF k = i + 1 THEN j + 1 ELSE IF k = j + 1 THEN i + 1 ELSE k]
      OBVIOUS
    <2> HIDE DEF n, p
    <2>2. p \in [1 .. n -> 1 .. n] /\ OneOne(p, n)
      BY <1>1, <2>1, SwapArranges
    <2>3. QED BY <2>2 DEF n
  <1>3. Array!SwapAt(l, i, j) = Array!Arranged(l, p)
    BY DEF Array!SwapAt
  <1> HIDE DEF p
  <1>4. QED BY <1>2, <1>3, ArrangeIs, ArrangeOnce

LEMMA SortIs ==
  ASSUME NEW l, Clean(l), NEW p \in Array!Orders(l)
  PROVE  /\ Clean(Array!Arranged(l, p))
         /\ \A u : OneEach(l, u) => OneEach(Array!Arranged(l, p), u)
  <1>1. p \in [1 .. l.len -> 1 .. l.len] /\ OneOne(p, l.len)
    BY SortArranges
  <1>2. QED BY <1>1, ArrangeIs, ArrangeOnce

LEMMA InputsAre ==
  ASSUME NEW vs \in Array!Inputs
  PROVE  \E m \in Nat : vs \in [1 .. m -> Elems]
  <1>1. CASE vs = <<>>
    <2>1. vs \in [1 .. 0 -> Elems]
      BY <1>1
    <2>2. QED BY <2>1
  <1>2. CASE \E v \in Numbers : vs = <<v>>
    <2>1. vs \in [1 .. 1 -> Elems]
      BY <1>2 DEF Elems
    <2>2. QED BY <2>1
  <1>3. CASE vs \in Numbers \X Numbers
    <2>1. vs \in [1 .. 2 -> Elems]
      BY <1>3 DEF Elems
    <2>2. QED BY <2>1
  <1>4. QED BY <1>1, <1>2, <1>3 DEF Array!Inputs

LEMMA ExtendInput ==
  ASSUME NEW l, Clean(l), NEW vs \in Array!Inputs
  PROVE  Clean(Array!ExtendBy(l, vs))
  <1>1. PICK m \in Nat : vs \in [1 .. m -> Elems]
    BY InputsAre
  <1>2. QED BY <1>1, ExtendIs

LEMMA ExtendRest ==
  ASSUME NEW l, Clean(l), NEW vs \in Array!Inputs, NEW keep
  PROVE  /\ Clean(Array!ExtendBy(l, Array!Filtered(vs, keep)))
         /\ Array!Filtered(vs, keep) = <<>> => Array!ExtendBy(l, Array!Filtered(vs, keep)) = l
  <1> DEFINE t == Array!Filtered(vs, keep)
  <1>1. PICK m \in Nat : vs \in [1 .. m -> Elems]
    BY InputsAre
  <1>2. PICK k \in Nat : t \in [1 .. k -> Elems]
    BY <1>1, FilteredIs
  <1> HIDE DEF t
  <1>3. Clean(Array!ExtendBy(l, t)) /\ (t = <<>> => Array!ExtendBy(l, t) = l)
    BY <1>2, ExtendIs
  <1>4. QED BY <1>3 DEF t

LEMMA InsertIs ==
  ASSUME NEW l, Clean(l), NEW i \in 0 .. (l.len + 1), ~(i < l.len), NEW v \in Numbers
  PROVE  /\ Clean(Array!InsertInto(l, i, v))
         /\ \A u : OneEach(l, u) /\ v \notin u => OneEach(Array!InsertInto(l, i, v), u \cup {v})
  <1>1. l.len \in Nat /\ i \in Nat /\ v \in Elems
    BY CleanFacts DEF Elems
  <1>2. Array!InsertInto(l, i, v) = Array!SetAt(l, i, v)
    BY <1>1 DEF Array!InsertInto
  <1>3. Clean(Array!SetAt(l, i, v))
    BY <1>1, SetIs
  <1>4. ASSUME NEW u, OneEach(l, u), v \notin u PROVE OneEach(Array!SetAt(l, i, v), u \cup {v})
    BY <1>1, <1>4, SetOnce
  <1>5. QED BY <1>2, <1>3, <1>4

\* The calls that leave something behind the contents, or a list that panics.
Damage == {"pop", "insert", "transaction"}

ArrayInv ==
    /\ used \cap Damage = {} => Clean(list)
    /\ part = "set" /\ used \cap (Damage \cup {"extend"}) = {} => OneEach(list, uniq)

\* What was called stays called, and a list stays a list.
LEMMA CallsStay ==
  ASSUME Array!Next
  PROVE  used \subseteq used' /\ part' = part /\ part \in {"list", "set"}
  <1> USE DEF Array!ListCall, Array!ListReturned, Array!ListIs, Array!SetCall, Array!SetIs
  <1>1. CASE \E v \in Numbers :
               Array!AppendList(v) \/ Array!RemoveList(v) \/ Array!AppendSet(v) \/ Array!RemoveSet(v)
    BY <1>1 DEF Array!AppendList, Array!RemoveList, Array!AppendSet, Array!RemoveSet, Array!AddToSet
  <1>2. CASE \E vs \in Array!Inputs : Array!ExtendList(vs) \/ Array!ExtendSet(vs)
    BY <1>2 DEF Array!ExtendList, Array!ExtendSet
  <1>3. CASE \E i \in 0 .. (list.len + 1), v \in Numbers :
               Array!SetList(i, v) \/ Array!InsertList(i, v) \/ Array!SetSet(i, v) \/ Array!InsertSet(i, v)
    BY <1>3 DEF Array!SetList, Array!InsertList, Array!SetSet, Array!InsertSet, Array!AddToSet
  <1>4. CASE \E i \in -1 .. list.len : Array!RemoveAtList(i) \/ Array!RemoveAtSet(i)
    BY <1>4 DEF Array!RemoveAtList, Array!RemoveAtSet
  <1>5. CASE \E i, j \in Array!Places(list) : Array!SwapList(i, j)
    BY <1>5 DEF Array!SwapList
  <1>6. CASE \E keep \in Array!Kept : Array!FilterList(keep) \/ Array!FilterSet(keep)
    BY <1>6 DEF Array!FilterList, Array!FilterSet
  <1>7. CASE \E f \in Array!Maps : Array!MapList(f) \/ Array!MapSet(f)
    BY <1>7 DEF Array!MapList, Array!MapSet
  <1>8. CASE \/ Array!PopList \/ Array!ClearList \/ Array!ReverseList \/ Array!SortList
             \/ Array!CloneList \/ Array!TransactionList
    BY <1>8 DEF Array!PopList, Array!ClearList, Array!ReverseList, Array!SortList, Array!CloneList,
                Array!TransactionList
  <1>9. CASE \/ Array!PopSet \/ Array!ClearSet \/ Array!ArrangeSet \/ Array!CloneSet \/ Array!TransactionSet
    BY <1>9 DEF Array!PopSet, Array!ClearSet, Array!ArrangeSet, Array!CloneSet, Array!TransactionSet
  <1>10. QED BY <1>1, <1>2, <1>3, <1>4, <1>5, <1>6, <1>7, <1>8, <1>9 DEF Array!Next, Array!Calls

\* What the function passed to Transaction leaves of a clean clone is clean.
LEMMA WorkedIsClean ==
  ASSUME NEW l, Clean(l), NEW c \in Array!Worked(l)
  PROVE  Clean(c)
  <1>1. CASE \E v \in Numbers : c = Array!AppendTo(l, v)
    BY <1>1, AppendIs DEF Elems
  <1>2. CASE \E vs \in Array!Inputs : c = Array!ExtendBy(l, vs)
    BY <1>2, ExtendInput
  <1>3. CASE \E i \in Array!Places(l) : c = Array!RemoveFrom(l, i)
    BY <1>3, RemoveAny
  <1>4. CASE c \in {Array!NewList, Array!Reversed(l)}
    BY <1>4, NewIsClean, ReverseIs
  <1>5. QED BY <1>1, <1>2, <1>3, <1>4 DEF Array!Worked

\* The calls of a list.
LEMMA ListStaysClean ==
  ASSUME Clean(list), part = "list", Array!Next, used' \cap Damage = {}
  PROVE  Clean(list')
  <1> USE DEF Array!ListCall, Array!ListReturned, Array!ListIs, Array!SetCall, Array!SetIs
  <1>1. CASE \E v \in Numbers :
               Array!AppendList(v) \/ Array!RemoveList(v) \/ Array!AppendSet(v) \/ Array!RemoveSet(v)
    BY <1>1, AppendIs, RemoveAny
       DEF Array!AppendList, Array!RemoveList, Array!AppendSet, Array!RemoveSet, Array!AddToSet, Elems
  <1>2. CASE \E vs \in Array!Inputs : Array!ExtendList(vs) \/ Array!ExtendSet(vs)
    BY <1>2, ExtendInput DEF Array!ExtendList, Array!ExtendSet
  <1>3. CASE \E i \in 0 .. (list.len + 1), v \in Numbers :
               Array!SetList(i, v) \/ Array!InsertList(i, v) \/ Array!SetSet(i, v) \/ Array!InsertSet(i, v)
    <2>1. PICK i \in 0 .. (list.len + 1), v \in Numbers : Array!SetList(i, v) \/ Array!InsertList(i, v)
      BY <1>3 DEF Array!SetSet, Array!InsertSet, Array!AddToSet
    <2>2. i \in Nat /\ v \in Elems
      BY CleanFacts DEF Elems
    <2>3. CASE Array!SetList(i, v)
      BY <2>2, <2>3, SetIs DEF Array!SetList
    <2>4. CASE Array!InsertList(i, v)
      BY <2>4, InsertIs DEF Array!InsertList, Damage
    <2>5. QED BY <2>1, <2>3, <2>4
  <1>4. CASE \E i \in -1 .. list.len : Array!RemoveAtList(i) \/ Array!RemoveAtSet(i)
    BY <1>4, RemoveAny DEF Array!RemoveAtList, Array!RemoveAtSet
  <1>5. CASE \E i, j \in Array!Places(list) : Array!SwapList(i, j)
    BY <1>5, SwapIs DEF Array!SwapList
  <1>6. CASE \E keep \in Array!Kept : Array!FilterList(keep) \/ Array!FilterSet(keep)
    BY <1>6, FilterIs DEF Array!FilterList, Array!FilterSet
  <1>7. CASE \E f \in Array!Maps : Array!MapList(f) \/ Array!MapSet(f)
    <2>1. PICK f \in Array!Maps : Array!MapList(f)
      BY <1>7 DEF Array!MapSet
    <2>2. f \in [Elems -> Elems]
      BY DEF Array!Maps, Elems
    <2>3. QED BY <2>1, <2>2, MapIs DEF Array!MapList
  <1>8. CASE Array!PopList
    BY <1>8 DEF Array!PopList, Damage
  <1>9. CASE Array!ClearList \/ Array!ReverseList \/ Array!SortList \/ Array!CloneList
    BY <1>9, NewIsClean, ReverseIs, SortIs, CloneIs
       DEF Array!ClearList, Array!ReverseList, Array!SortList, Array!CloneList
  <1>10. CASE Array!TransactionList
    <2>1. PICK c \in Array!Worked(Array!CloneOf(list)) :
             list' = Array!Commit(list, c) /\ used' = IF c.len < list.len THEN used \cup {"transaction"} ELSE used
      BY <1>10 DEF Array!TransactionList
    <2>2. Clean(Array!CloneOf(list))
      BY CloneIs
    <2>3. Clean(c)
      BY <2>2, WorkedIsClean
    <2>4. list.len \in Nat /\ c.len \in Nat
      BY <2>3, CleanFacts
    <2>5. list.len <= c.len
      BY <2>1, <2>4 DEF Damage
    <2>6. QED BY <2>1, <2>3, <2>5, CommitIs
  <1>11. CASE \/ Array!PopSet \/ Array!ClearSet \/ Array!ArrangeSet \/ Array!CloneSet \/ Array!TransactionSet
    BY <1>11 DEF Array!PopSet, Array!ClearSet, Array!ArrangeSet, Array!CloneSet, Array!TransactionSet
  <1>12. QED BY <1>1, <1>2, <1>3, <1>4, <1>5, <1>6, <1>7, <1>8, <1>9, <1>10, <1>11
             DEF Array!Next, Array!Calls

\* Where Index finds a value, and what taking it out leaves.
LEMMA LeastIs ==
  ASSUME NEW S \in SUBSET Nat, S # {}
  PROVE  Array!Least(S) \in S /\ \A j \in S : Array!Least(S) <= j
  <1>1. \E i \in S : \A j \in S : i <= j
    BY LeastNumber
  <1>2. QED BY <1>1 DEF Array!Least

LEMMA IndexesAre ==
  ASSUME NEW l, Clean(l), NEW v \in Numbers
  PROVE  /\ Array!Indexes(l, v) = {i \in 0 .. (l.len - 1) : l.arr[i + 1] = v}
         /\ Array!Indexes(l, v) \in SUBSET Nat
  <1>1. /\ l.len \in Nat /\ l.size \in Nat /\ l.len <= l.size
        /\ \A j \in 1 .. l.size : j > l.len => l.arr[j] = None
    BY DEF Clean, Lists
  <1>2. v # None
    BY CollectionsAssumption
  <1>3. ASSUME NEW i \in 0 .. (l.size - 1), l.arr[i + 1] = v PROVE i \in 0 .. (l.len - 1)
    <2>1. i + 1 \in 1 .. l.size
      BY <1>1
    <2>2. ~(i + 1 > l.len)
      BY <1>1, <1>2, <1>3, <2>1
    <2>3. QED BY <1>1, <2>2
  <1>4. \A i \in 0 .. (l.len - 1) : i \in 0 .. (l.size - 1)
    BY <1>1
  <1>5. QED BY <1>3, <1>4 DEF Array!Indexes

LEMMA RemoveValueOnce ==
  ASSUME NEW l, Clean(l), NEW v \in Numbers, NEW u, OneEach(l, u)
  PROVE  OneEach(Array!RemoveFrom(l, Array!Index(l, v)), u \ {v})
  <1> DEFINE S == Array!Indexes(l, v)
             i == Array!Index(l, v)
  <1>1. S = {x \in 0 .. (l.len - 1) : l.arr[x + 1] = v} /\ S \in SUBSET Nat /\ l.len \in Nat
    BY IndexesAre, CleanFacts
  <1>2. CASE S = {}
    <2>1. i = -1
      BY <1>2 DEF Array!Index
    <2> HIDE DEF i
    <2>2. Array!RemoveFrom(l, i) = l
      BY <1>1, <2>1 DEF Array!RemoveFrom
    <2>3. \A y \in 1 .. l.len : l.arr[y] # v
      <3> SUFFICES ASSUME NEW y \in 1 .. l.len, l.arr[y] = v PROVE FALSE
        OBVIOUS
      <3>1. y - 1 \in 0 .. (l.len - 1) /\ (y - 1) + 1 = y
        BY <1>1
      <3>2. y - 1 \in S
        BY <1>1, <3>1
      <3>3. QED BY <1>2, <3>2
    <2>4. OneEach(l, u \ {v})
      BY <2>3 DEF OneEach
    <2>5. QED BY <2>2, <2>4 DEF i
  <1>3. CASE S # {}
    <2> HIDE DEF S
    <2>1. i = Array!Least(S)
      BY <1>3 DEF Array!Index, S
    <2>2. i \in S
      BY <1>1, <1>3, <2>1, LeastIs
    <2> HIDE DEF i
    <2>3. i \in 0 .. (l.len - 1) /\ l.arr[i + 1] = v
      BY <1>1, <2>2
    <2>4. OneEach(Array!RemoveFrom(l, i), u \ {l.arr[i + 1]})
      BY <2>3, RemoveOnce
    <2>5. QED BY <2>3, <2>4 DEF i
  <1>4. QED BY <1>2, <1>3

LEMMA RemovePlaceOnce ==
  ASSUME NEW l, Clean(l), NEW i, NEW u, OneEach(l, u)
  PROVE  OneEach(Array!RemoveFrom(l, i), u \ {Array!RemovedFrom(l, i)})
  <1>1. CASE i \in 0 .. (l.len - 1)
    BY <1>1, RemoveOnce DEF Array!RemovedFrom
  <1>2. CASE i \notin 0 .. (l.len - 1)
    <2>1. Array!RemoveFrom(l, i) = l /\ Array!RemovedFrom(l, i) = None
      BY <1>2 DEF Array!RemoveFrom, Array!RemovedFrom
    <2>2. OneEach(l, u \ {None})
      BY DEF OneEach
    <2>3. QED BY <2>1, <2>2
  <1>3. QED BY <1>1, <1>2

\* The calls of a set.
LEMMA SetStays ==
  ASSUME Clean(list), part = "set", Array!Next, used' \cap Damage = {}
  PROVE  Clean(list') /\ (OneEach(list, uniq) /\ "extend" \notin used' => OneEach(list', uniq'))
  <1> USE DEF Array!ListCall, Array!ListReturned, Array!ListIs, Array!SetCall, Array!SetIs
  <1>1. CASE \E v \in Numbers :
               Array!AppendList(v) \/ Array!RemoveList(v) \/ Array!AppendSet(v) \/ Array!RemoveSet(v)
    <2>1. PICK v \in Numbers : Array!AppendSet(v) \/ Array!RemoveSet(v)
      BY <1>1 DEF Array!AppendList, Array!RemoveList
    <2>2. v \in Elems
      BY DEF Elems
    <2>3. CASE Array!AppendSet(v)
      <3>1. CASE v \in uniq
        <4>1. list' = list /\ uniq' = uniq
          BY <2>3, <3>1 DEF Array!AppendSet, Array!AddToSet
        <4>2. QED BY <4>1
      <3>2. CASE v \notin uniq
        <4>1. list' = Array!AppendTo(list, v) /\ uniq' = uniq \cup {v}
          BY <2>3, <3>2 DEF Array!AppendSet, Array!AddToSet
        <4>2. QED BY <2>2, <3>2, <4>1, AppendIs, AppendOnce
      <3>3. QED BY <3>1, <3>2
    <2>4. CASE Array!RemoveSet(v)
      BY <2>4, RemoveAny, RemoveValueOnce DEF Array!RemoveSet
    <2>5. QED BY <2>1, <2>3, <2>4
  <1>2. CASE \E vs \in Array!Inputs : Array!ExtendList(vs) \/ Array!ExtendSet(vs)
    <2>1. PICK vs \in Array!Inputs : Array!ExtendSet(vs)
      BY <1>2 DEF Array!ExtendList
    <2> DEFINE new == Array!Filtered(vs, Numbers \ uniq)
    <2>2. list' = Array!ExtendBy(list, new) /\ uniq' = uniq
          /\ used' = IF new = <<>> THEN used ELSE used \cup {"extend"}
      BY <2>1 DEF Array!ExtendSet
    <2>3. Clean(Array!ExtendBy(list, new)) /\ (new = <<>> => Array!ExtendBy(list, new) = list)
      BY ExtendRest
    <2> HIDE DEF new
    <2>4. QED BY <2>2, <2>3
  <1>3. CASE \E i \in 0 .. (list.len + 1), v \in Numbers :
               Array!SetList(i, v) \/ Array!InsertList(i, v) \/ Array!SetSet(i, v) \/ Array!InsertSet(i, v)
    <2>1. PICK i \in 0 .. (list.len + 1), v \in Numbers : Array!SetSet(i, v) \/ Array!InsertSet(i, v)
      BY <1>3 DEF Array!SetList, Array!InsertList
    <2>2. i \in Nat /\ v \in Elems
      BY CleanFacts DEF Elems
    <2>3. CASE Array!SetSet(i, v)
      <3>1. CASE v \in uniq
        <4>1. list' = list /\ uniq' = uniq
          BY <2>3, <3>1 DEF Array!SetSet, Array!AddToSet
        <4>2. QED BY <4>1
      <3>2. CASE v \notin uniq
        <4>1. list' = Array!SetAt(list, i, v) /\ uniq' = uniq \cup {v}
          BY <2>3, <3>2 DEF Array!SetSet, Array!AddToSet
        <4>2. Clean(Array!SetAt(list, i, v))
          BY <2>2, SetIs
        <4>3. OneEach(list, uniq) => OneEach(Array!SetAt(list, i, v), uniq \cup {v})
          BY <2>2, <3>2, SetOnce
        <4>4. QED BY <4>1, <4>2, <4>3
      <3>3. QED BY <3>1, <3>2
    <2>4. CASE Array!InsertSet(i, v)
      <3>1. CASE v \in uniq
        <4>1. list' = list /\ uniq' = uniq
          BY <2>4, <3>1 DEF Array!InsertSet
        <4>2. QED BY <4>1
      <3>2. CASE v \notin uniq
        <4>1. list' = Array!InsertInto(list, i, v) /\ uniq' = uniq \cup {v} /\ ~(i < list.len)
          BY <2>4, <3>2 DEF Array!InsertSet, Damage
        <4>2. QED BY <3>2, <4>1, InsertIs
      <3>3. QED BY <3>1, <3>2
    <2>5. QED BY <2>1, <2>3, <2>4
  <1>4. CASE \E i \in -1 .. list.len : Array!RemoveAtList(i) \/ Array!RemoveAtSet(i)
    BY <1>4, RemoveAny, RemovePlaceOnce DEF Array!RemoveAtList, Array!RemoveAtSet
  <1>5. CASE \E i, j \in Array!Places(list) : Array!SwapList(i, j)
    BY <1>5 DEF Array!SwapList
  <1>6. CASE \E keep \in Array!Kept : Array!FilterList(keep) \/ Array!FilterSet(keep)
    BY <1>6, FilterIs, FilterOnce DEF Array!FilterList, Array!FilterSet
  <1>7. CASE \E f \in Array!Maps : Array!MapList(f) \/ Array!MapSet(f)
    <2>1. PICK f \in Array!Maps : Array!MapSet(f)
      BY <1>7 DEF Array!MapList
    <2>2. f \in [Elems -> Elems]
      BY DEF Array!Maps, Elems
    <2>3. QED BY <2>1, <2>2, MappedIs DEF Array!MapSet
  <1>8. CASE \/ Array!PopList \/ Array!ClearList \/ Array!ReverseList \/ Array!SortList
             \/ Array!CloneList \/ Array!TransactionList
    BY <1>8 DEF Array!PopList, Array!ClearList, Array!ReverseList, Array!SortList, Array!CloneList,
                Array!TransactionList
  <1>9. CASE Array!PopSet
    BY <1>9 DEF Array!PopSet, Damage
  <1>10. CASE Array!ClearSet
    BY <1>10, NewIsClean DEF Array!ClearSet
  <1>11. CASE Array!ArrangeSet
    BY <1>11, ReverseIs, SortIs, SwapIs DEF Array!ArrangeSet
  <1>12. CASE Array!CloneSet
    <2>1. list' = Array!CloneOf(list) /\ uniq' = uniq
      BY <1>12 DEF Array!CloneSet
    <2>2. QED BY <2>1, CloneIs, SameOnce
  <1>13. CASE Array!TransactionSet
    <2> DEFINE c == Array!CloneOf(list)
    <2>1. Clean(c) /\ c.len = list.len /\ list.len \in Nat /\ \A j \in 1 .. list.len : c.arr[j] = list.arr[j]
      BY CloneIs, CleanFacts
    <2>2. OneEach(list, uniq) => OneEach(c, uniq)
      BY <2>1, SameOnce
    <2>3. /\ used' = IF list'.len < list.len THEN used \cup {"transaction"} ELSE used
          /\ \/ \E v \in Numbers \ uniq :
                   list' = Array!Commit(list, Array!AppendTo(c, v)) /\ uniq' = uniq \cup {v}
             \/ \E i \in Array!Places(c) :
                   /\ list' = Array!Commit(list, Array!RemoveFrom(c, i))
                   /\ uniq' = uniq \ {Array!RemovedFrom(c, i)}
             \/ list' = Array!Commit(list, Array!NewList) /\ uniq' = {}
      BY <1>13 DEF Array!TransactionSet
    <2>4. ~(list'.len < list.len)
      BY <2>3 DEF Damage
    <2> HIDE DEF c
    <2>5. CASE \E v \in Numbers \ uniq :
                 list' = Array!Commit(list, Array!AppendTo(c, v)) /\ uniq' = uniq \cup {v}
      <3>1. PICK v \in Numbers \ uniq :
               list' = Array!Commit(list, Array!AppendTo(c, v)) /\ uniq' = uniq \cup {v}
        BY <2>5
      <3> DEFINE k == Array!AppendTo(c, v)
      <3>2. v \in Elems /\ v \notin uniq
        BY DEF Elems
      <3>3. Clean(k) /\ k.len = list.len + 1
        BY <2>1, <3>2, AppendIs
      <3>4. OneEach(list, uniq) => OneEach(k, uniq \cup {v})
        BY <2>1, <2>2, <3>2, AppendOnce
      <3> HIDE DEF k
      <3>5. list.len <= k.len
        BY <2>1, <3>3
      <3>6. /\ Clean(Array!Commit(list, k)) /\ Array!Commit(list, k).len = k.len
            /\ \A j \in 1 .. k.len : Array!Commit(list, k).arr[j] = k.arr[j]
        BY <3>3, <3>5, CommitIs
      <3>7. \A u : OneEach(k, u) => OneEach(Array!Commit(list, k), u)
        BY <3>6, SameOnce
      <3>8. QED BY <3>1, <3>4, <3>6, <3>7 DEF k
    <2>6. CASE \E i \in Array!Places(c) : list' = Array!Commit(list, Array!RemoveFrom(c, i))
      <3>1. PICK i \in 0 .. (c.len - 1) : list' = Array!Commit(list, Array!RemoveFrom(c, i))
        BY <2>6 DEF Array!Places
      <3>2. Array!RemoveFrom(c, i).len = list.len - 1
        BY <2>1, RemoveIs
      <3>3. list'.len = list.len - 1
        BY <3>1, <3>2 DEF Array!Commit
      <3>4. QED BY <2>1, <2>4, <3>3
    <2>7. CASE list' = Array!Commit(list, Array!NewList) /\ uniq' = {}
      <3> DEFINE k == Array!NewList
      <3>1. Clean(k) /\ k.len = 0 /\ OneEach(k, {})
        BY NewIsClean
      <3>2. list'.len = k.len
        BY <2>7 DEF Array!Commit
      <3> HIDE DEF k
      <3>3. list.len <= k.len
        BY <2>1, <2>4, <3>1, <3>2
      <3>4. /\ Clean(Array!Commit(list, k)) /\ Array!Commit(list, k).len = k.len
            /\ \A j \in 1 .. k.len : Array!Commit(list, k).arr[j] = k.arr[j]
        BY <3>1, <3>3, CommitIs
      <3>5. OneEach(Array!Commit(list, k), {})
        BY <3>1, <3>4, SameOnce
      <3>6. QED BY <2>7, <3>4, <3>5 DEF k
    <2>8. QED BY <2>3, <2>5, <2>6, <2>7
  <1>14. QED BY <1>1, <1>2, <1>3, <1>4, <1>5, <1>6, <1>7, <1>8, <1>9, <1>10, <1>11, <1>12, <1>13
             DEF Array!Next, Array!Calls

\* A clean list is searched as it reads.
LEMMA CleanIsFound ==
  ASSUME Clean(list), NEW v \in Numbers, NEW found,
         found = {i \in 0 .. (list.len - 1) : Array!Contents(list)[i + 1] = v}
  PROVE  /\ Array!Indexes(list, v) = found
         /\ Array!First(list) = v <=> 0 \in found
         /\ Array!HasAll(list, {v}) <=> found # {}
         /\ Array!IsMatch(list, {v}) <=> found # {}
         /\ Array!Match(list, {v}) = IF found = {} THEN <<-1, None>> ELSE <<Array!Index(list, v), v>>
         /\ found # {} => Array!Get(list, Array!LastIndex(list, v)) = v
  <1> DEFINE o == list.arr
             n == list.len
             z == list.size
  <1>1. /\ n \in Nat /\ z \in Nat /\ n <= z /\ \A i \in 1 .. n : Array!Contents(list)[i] = o[i]
        /\ \A j \in 1 .. z : j > n => o[j] = None
    BY CleanFacts DEF Clean
  <1>2. v # None
    BY CollectionsAssumption
  <1>3. found = {i \in 0 .. (n - 1) : o[i + 1] = v}
    <2>1. \A i \in 0 .. (n - 1) : i + 1 \in 1 .. n
      BY <1>1
    <2>2. \A i \in 0 .. (n - 1) : Array!Contents(list)[i + 1] = o[i + 1]
      BY <1>1, <2>1
    <2>3. QED BY <2>2
  <1>4. Array!Indexes(list, v) = found /\ found \in SUBSET Nat
    BY <1>3, IndexesAre
  <1>5. Array!Index(list, v) = IF found = {} THEN -1 ELSE Array!Least(found)
    BY <1>4 DEF Array!Index
  <1>6. found # {} => Array!Least(found) \in found
    BY <1>4, LeastIs
  <1>7. Array!First(list) = v <=> 0 \in found
    <2>1. CASE n > 0
      <3>1. Array!First(list) = o[0 + 1] /\ 0 \in 0 .. (n - 1)
        BY <1>1, <2>1 DEF Array!First, Array!Get
      <3> HIDE DEF o, n
      <3>2. QED BY <1>3, <3>1
    <2>2. CASE ~(n > 0)
      <3>1. Array!First(list) = None /\ 0 \notin 0 .. (n - 1)
        BY <1>1, <2>2 DEF Array!First, Array!Get
      <3> HIDE DEF o, n
      <3>2. QED BY <1>2, <1>3, <3>1
    <2>3. QED BY <2>1, <2>2
  <1>8. Array!HasAll(list, {v}) <=> found # {}
    <2>1. Array!HasAll(list, {v}) <=> Array!Index(list, v) # -1
      BY DEF Array!HasAll
    <2>2. found # {} => Array!Least(found) # -1
      BY <1>4, <1>6
    <2>3. QED BY <1>5, <2>1, <2>2
  <1>9. Array!IsMatch(list, {v}) <=> found # {}
    <2>1. Array!IsMatch(list, {v}) <=> \E j \in 1 .. z : o[j] = v
      BY DEF Array!IsMatch
    <2> HIDE DEF o, z, n
    <2>2. ASSUME NEW j \in 1 .. z, o[j] = v PROVE found # {}
      <3>1. ~(j > n)
        BY <1>1, <1>2, <2>2
      <3>2. j - 1 \in 0 .. (n - 1) /\ (j - 1) + 1 = j
        BY <1>1, <3>1
      <3>3. j - 1 \in found
        BY <1>3, <2>2, <3>2
      <3>4. QED BY <3>3
    <2>3. ASSUME NEW i \in found PROVE i + 1 \in 1 .. z /\ o[i + 1] = v
      BY <1>1, <1>3
    <2>4. QED BY <2>1, <2>2, <2>3
  <1>10. Array!Match(list, {v}) = IF found = {} THEN <<-1, None>> ELSE <<Array!Index(list, v), v>>
    <2> DEFINE s == {i \in 0 .. (list.len - 1) : list.arr[i + 1] \in {v}}
    <2>1. s = found
      BY <1>3
    <2>2. Array!Match(list, {v}) = IF s = {} THEN <<-1, None>> ELSE <<Array!Least(s), o[Array!Least(s) + 1]>>
      BY DEF Array!Match
    <2> HIDE DEF s
    <2>3. Array!Match(list, {v}) = IF found = {} THEN <<-1, None>> ELSE <<Array!Least(found), o[Array!Least(found) + 1]>>
      BY <2>1, <2>2
    <2>4. found # {} => o[Array!Least(found) + 1] = v
      BY <1>3, <1>6
    <2> HIDE DEF o
    <2>5. QED BY <1>5, <2>3, <2>4
  <1>11. ASSUME found # {} PROVE Array!Get(list, Array!LastIndex(list, v)) = v
    <2> DEFINE m == CHOOSE i \in found : \A j \in found : j <= i
    <2>1. \E i \in found : \A j \in found : j <= i
      <3>1. found \in SUBSET (0 .. n)
        BY <1>1, <1>3
      <3>2. QED BY <1>1, <1>11, <3>1, GreatestNumber
    <2>2. m \in found
      BY <2>1
    <2>3. Array!LastIndex(list, v) = m
      <3> DEFINE s == {i \in 0 .. (list.len - 1) : list.arr[i + 1] = v}
      <3>1. s = found
        BY <1>3
      <3>2. Array!LastIndex(list, v) = IF s = {} THEN -1 ELSE CHOOSE i \in s : \A j \in s : j <= i
        BY DEF Array!LastIndex
      <3> HIDE DEF s
      <3>3. QED BY <1>11, <3>1, <3>2
    <2> HIDE DEF m
    <2>4. m \in 0 .. (n - 1) /\ o[m + 1] = v
      BY <1>3, <2>2
    <2>5. Array!Get(list, m) = o[m + 1]
      BY <1>1, <2>4 DEF Array!Get
    <2>6. QED BY <2>3, <2>4, <2>5
  <1>12. QED BY <1>4, <1>7, <1>8, <1>9, <1>10, <1>11

\* Every search of a list agrees with what it holds, First and Get on a list that
\* has its ValueGetter (not on one that Clone, Map or Filter returned), and a set
\* holds a value once and its map knows it, for any values and capacities
\* (list.go:141-205, set.go:38-160).
THEOREM SearchesAlwaysAgree == CollectionsSpec => []ElementsAreFound
  <1>1. CollectionsInit => ArrayInv
    <2> SUFFICES ASSUME Array!Init PROVE ArrayInv
      BY DEF CollectionsInit
    <2>1. list = Array!NewList
      BY DEF Array!Init
    <2>2. QED BY <2>1, NewIsClean DEF ArrayInv
  <1>2. ArrayInv /\ [CollectionsNext]_allVars => ArrayInv'
    <2> SUFFICES ASSUME ArrayInv, [CollectionsNext]_allVars PROVE ArrayInv'
      OBVIOUS
    <2>1. part' = part
      BY PartStays DEF allVars, vars
    <2>2. CASE UNCHANGED arrays
      <3>1. list' = list /\ uniq' = uniq /\ used' = used
        BY <2>2 DEF arrays
      <3>2. QED BY <2>1, <3>1 DEF ArrayInv
    <2>3. CASE Array!Next
      <3>1. used \subseteq used' /\ part' = part /\ part \in {"list", "set"}
        BY <2>3, CallsStay
      <3>2. ASSUME used' \cap Damage = {} PROVE Clean(list')
        <4>1. Clean(list)
          BY <3>1, <3>2 DEF ArrayInv
        <4>2. QED BY <2>3, <3>1, <3>2, <4>1, ListStaysClean, SetStays
      <3>3. ASSUME part' = "set", used' \cap (Damage \cup {"extend"}) = {} PROVE OneEach(list', uniq')
        <4>1. used' \cap Damage = {} /\ "extend" \notin used' /\ used \cap (Damage \cup {"extend"}) = {}
              /\ used \cap Damage = {} /\ part = "set"
          BY <3>1, <3>3
        <4>2. Clean(list) /\ OneEach(list, uniq)
          BY <4>1 DEF ArrayInv
        <4>3. QED BY <2>3, <4>1, <4>2, SetStays
      <3>4. QED BY <3>2, <3>3 DEF ArrayInv
    <2>4. QED BY <2>2, <2>3 DEF CollectionsNext, allVars
  <1>3. ArrayInv => ElementsAreFound
    <2> SUFFICES ASSUME ArrayInv PROVE Array!SearchesAgree /\ Array!NoDuplicates
      BY DEF ElementsAreFound, Array!ElementsAreFound
    <2>1. Array!SearchesAgree
      <3> SUFFICES ASSUME used \cap {"pop", "insert", "transaction"} = {}, NEW v \in Numbers
                   PROVE  LET found == {i \in 0 .. (list.len - 1) : Array!Contents(list)[i + 1] = v}
                          IN  /\ Array!Indexes(list, v) = found
                              /\ Array!HasAll(list, {v}) <=> found # {}
                              /\ Array!IsMatch(list, {v}) <=> found # {}
                              /\ Array!Match(list, {v}) =
                                    IF found = {} THEN <<-1, None>> ELSE <<Array!Index(list, v), v>>
                              /\ ~Array!GetPanics =>
                                    /\ Array!First(list) = v <=> 0 \in found
                                    /\ found # {} => Array!Get(list, Array!LastIndex(list, v)) = v
        BY DEF Array!SearchesAgree
      <3>1. Clean(list)
        BY DEF ArrayInv, Damage
      <3> DEFINE found == {i \in 0 .. (list.len - 1) : Array!Contents(list)[i + 1] = v}
      <3>2. found = {i \in 0 .. (list.len - 1) : Array!Contents(list)[i + 1] = v}
        OBVIOUS
      <3> HIDE DEF found
      <3>3. /\ Array!Indexes(list, v) = found
            /\ Array!First(list) = v <=> 0 \in found
            /\ Array!HasAll(list, {v}) <=> found # {}
            /\ Array!IsMatch(list, {v}) <=> found # {}
            /\ Array!Match(list, {v}) = IF found = {} THEN <<-1, None>> ELSE <<Array!Index(list, v), v>>
            /\ found # {} => Array!Get(list, Array!LastIndex(list, v)) = v
        BY <3>1, <3>2, CleanIsFound
      <3>4. QED BY <3>3 DEF found
    <2>2. Array!NoDuplicates
      BY DEF ArrayInv, Array!NoDuplicates, OneEach, Damage
    <2>3. QED BY <2>1, <2>2
  <1>4. QED BY <1>1, <1>2, <1>3, PTL DEF CollectionsSpec
=============================================================================
