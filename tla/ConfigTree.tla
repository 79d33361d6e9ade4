----------------------------- MODULE ConfigTree -----------------------------
(***************************************************************************)
(* A configuration tree: how a document with includes and switches becomes *)
(* one, and what the calls on it change.                                   *)
(*                                                                         *)
(* A Configuration is a Go map, so a branch is a reference: heap holds the *)
(* tables, an entry names the table of its branch, and two configurations  *)
(* may come to share one.  A branch of kind "cfg" has type Configuration,  *)
(* one of kind "map" is still the map[string]interface{} of the decoder.   *)
(* A key may be a dotted name; Path gives its parts.  JSON null is left    *)
(* out.  An __include__ names a file or a list of files, which are decoded *)
(* afresh; one that cannot be decoded is passed over, as if not listed.    *)
(***************************************************************************)
EXTENDS Naturals, Sequences, SequencesExt, FiniteSets, FiniteSetsExt, TLC

CONSTANTS
  Path,       \* a function: the parts of each key a document or a call may use
  Files,      \* a function: the tables of the files each value of an __include__ names, in order
  Documents,  \* the heaps a program may start from; table 1 is the document
  CallsAfter, \* bound: the documents after which the program makes calls
  Updates,    \* the tables of a second document, which the program updates from
  Texts,      \* the values the program sets
  MaxCalls    \* bound: calls after the document is loaded

VARIABLES
  heap,    \* the tables
  conf,    \* the table of the configuration
  other,   \* the table of the configuration it is updated from, 0 when it is none yet
  todo,    \* the keys of the document that are still to be parsed
  stack,   \* the ranges parseSwitch is in, innermost first: the branches still to visit
  pc,      \* "parse", "include", "switch", "loaded", "calls"
  left     \* how many calls the program still makes

vars == <<heap, conf, other, todo, stack, pc, left>>

Absent   == [kind |-> "none", text |-> "", table |-> 0]
Value(t) == [kind |-> "text", text |-> t, table |-> 0]
Map(n)   == [kind |-> "map", text |-> "", table |-> n]
Cfg(n)   == [kind |-> "cfg", text |-> "", table |-> n]
NoKeys   == [k \in {} |-> Absent]

IsBranch(v) == v.kind \in {"map", "cfg"}
At(h, n, k) == IF k \in DOMAIN h[n] THEN h[n][k] ELSE Absent
Put(h, n, k, v) == [h EXCEPT ![n] = (k :> v) @@ @]
New(h)   == Len(h) + 1

\* The table at a path, 0 when there is none.
Branch(h, n, path) ==
  FoldLeft(LAMBDA at, k : IF at # 0 /\ IsBranch(At(h, at, k)) THEN At(h, at, k).table ELSE 0, n, path)

Interface(h, n, path) ==
  LET b == Branch(h, n, Front(path)) IN IF b = 0 THEN Absent ELSE At(h, b, Last(path))

\* A table for every part of the path that has none: a plain value on the way is
\* replaced, one at the end of the path is an error.
MakeBranch(h, n, path) ==
  LET i == Interface(h, n, path)
      Step(r, k) == IF IsBranch(At(r.heap, r.table, k))
                    THEN [r EXCEPT !.table = At(r.heap, r.table, k).table]
                    ELSE [r EXCEPT !.heap = Append(Put(r.heap, r.table, k, Cfg(New(r.heap))), NoKeys), !.table = New(r.heap)]
  IN  IF i # Absent /\ ~ IsBranch(i) THEN [heap |-> h, table |-> 0, failed |-> TRUE]
      ELSE FoldLeft(Step, [heap |-> h, table |-> n, failed |-> FALSE], path)

Set(h, n, path, v) ==
  LET m == MakeBranch(h, n, Front(path))
  IN  IF Len(path) = 1 THEN Put(h, n, path[1], v)
      ELSE IF m.failed \/ At(m.heap, m.table, Last(path)).kind = "map" THEN m.heap
      ELSE Put(m.heap, m.table, Last(path), v)

(***************************************************************************)
(* c.Update(cc): branches are merged, a branch that meets a plain value    *)
(* takes its place as it is.                                               *)
(***************************************************************************)
RECURSIVE Update(_, _, _)

\* Mutant of Update: a branch that is missing is stored, not copied.
UpdateShares(h, c, cc) ==
  LET Key(k, g) ==
        LET v == g[cc][k]
            b == Branch(g, c, Path[k])
        IN  IF ~ IsBranch(v) \/ b = 0 THEN Set(g, c, Path[k], v) ELSE Update(g, b, v.table)
  IN  IF c = cc THEN h ELSE FoldSet(Key, h, DOMAIN h[cc])

Update(h, c, cc) ==
  LET Key(k, g) ==
        LET v == g[cc][k]
            b == Branch(g, c, Path[k])
            m == MakeBranch(g, c, Path[k])
        IN  IF ~ IsBranch(v) \/ (b = 0 /\ m.failed) THEN Set(g, c, Path[k], v)
            ELSE Update(m.heap, m.table, v.table)
  IN  IF c = cc THEN h ELSE FoldSet(Key, h, DOMAIN h[cc])

(***************************************************************************)
(* parseInclude: the document's own keys, in the order of a map, then the  *)
(* files it includes, the last of which has the last word.                 *)
(***************************************************************************)
RECURSIVE ParseInclude(_, _, _), IncludeAll(_, _, _)
IncludeAll(h, c, files) ==
  LET g == ParseInclude(Append(h, NoKeys), New(h), files[1])
  IN  IF files = <<>> THEN h ELSE IncludeAll(Update(g, c, New(h)), c, Tail(files))

Include(h, c, m) ==
  LET f == At(h, m, "__include__")
  IN  IF f.kind = "text" THEN IncludeAll(h, c, Files[f.text]) ELSE h

ParseKey(h, c, m, k) ==
  LET v == h[m][k]
  IN  IF v.kind = "map" /\ k # "__switch__"
      THEN Set(ParseInclude(Append(h, NoKeys), New(h), v.table), c, Path[k], Cfg(New(h)))
      ELSE IF k # "__include__" THEN Set(h, c, Path[k], v) ELSE h

ParseInclude(h, c, m) == Include(FoldSet(LAMBDA k, g : ParseKey(g, c, m, k), h, DOMAIN h[m]), c, m)

\* Mutant of Switch: the key is looked up in the branch that has the switch.
SwitchOfBranch(h, root, cc) ==
  LET s        == At(h, cc, "__switch__")
      key      == At(h, s.table, "__key__")
      found    == Interface(h, cc, Path[key.text])
      selected == IF found.kind = "text" THEN found.text ELSE At(h, s.table, "__default__").text
      case     == At(h, s.table, selected)
      g        == IF IsBranch(s) /\ key.kind = "text" /\ IsBranch(case) THEN Update(h, cc, case.table) ELSE h
  IN  [g EXCEPT ![cc] = [k \in DOMAIN g[cc] \ {"__switch__"} |-> g[cc][k]]]

\* The value of the root under the name in __key__, or __default__, selects the
\* case; its table is merged into the one that has the switch.
Switch(h, root, cc) ==
  LET s        == At(h, cc, "__switch__")
      key      == At(h, s.table, "__key__")
      found    == Interface(h, root, Path[key.text])
      selected == IF found.kind = "text" THEN found.text ELSE At(h, s.table, "__default__").text
      case     == At(h, s.table, selected)
      g        == IF IsBranch(s) /\ key.kind = "text" /\ IsBranch(case) THEN Update(h, cc, case.table) ELSE h
  IN  [g EXCEPT ![cc] = [k \in DOMAIN g[cc] \ {"__switch__"} |-> g[cc][k]]]

\* The branches parseSwitch goes into: those of type Configuration.
Children(h, n) == {h[n][k].table : k \in {j \in DOMAIN h[n] : h[n][j].kind = "cfg"}}

-----------------------------------------------------------------------------
\* NewConfigurationFromMap on one of the documents.
Init ==
  \E d \in Documents :
    /\ heap = Append(d, NoKeys)
    /\ conf = New(d)
    /\ other = 0
    /\ todo = DOMAIN d[1]
    /\ stack = <<>>
    /\ pc = "parse"
    /\ left = IF d \in CallsAfter THEN MaxCalls ELSE 0

Parse(k) ==
  /\ pc = "parse"
  /\ k \in todo
  /\ heap' = ParseKey(heap, conf, 1, k)
  /\ todo' = todo \ {k}
  /\ pc' = IF todo' = {} THEN "include" ELSE "parse"
  /\ UNCHANGED <<conf, other, stack, left>>

IncludeFiles ==
  /\ pc = "include"
  /\ heap' = Include(heap, conf, 1)
  /\ stack' = <<{conf}>>
  /\ pc' = "switch"
  /\ UNCHANGED <<conf, other, todo, left>>

ParseSwitch(n) ==
  /\ pc = "switch"
  /\ stack # <<>> /\ n \in stack[1]
  /\ heap' = Switch(heap, conf, n)
  /\ stack' = <<Children(heap', n)>> \o <<stack[1] \ {n}>> \o Tail(stack)
  /\ UNCHANGED <<conf, other, todo, pc, left>>

SwitchReturns ==
  /\ pc = "switch"
  /\ stack # <<>> /\ stack[1] = {}
  /\ stack' = Tail(stack)
  /\ pc' = IF Len(stack) = 1 THEN "loaded" ELSE "switch"
  /\ UNCHANGED <<heap, conf, other, todo, left>>

Called ==
  /\ pc \in {"loaded", "calls"}
  /\ left > 0
  /\ left' = left - 1
  /\ pc' = "calls"
  /\ UNCHANGED <<conf, todo, stack>>

\* A second configuration, from a document without includes and switches.
LoadOther ==
  /\ other = 0
  /\ Called
  /\ \E t \in Updates : heap' = ParseInclude(Append(heap, NoKeys), New(heap), t)
  /\ other' = New(heap)

SetText(n, k, t) ==
  /\ Called
  /\ n \in {conf, other} \ {0}
  /\ heap' = Set(heap, n, Path[k], Value(t))
  /\ UNCHANGED other

MakesBranch(n, k) ==
  /\ Called
  /\ n \in {conf, other} \ {0}
  /\ heap' = MakeBranch(heap, n, Path[k]).heap
  /\ UNCHANGED other

UpdateFrom ==
  /\ Called
  /\ other # 0
  /\ heap' = Update(heap, conf, other)
  /\ UNCHANGED other

Names == {k \in DOMAIN Path : \A i \in DOMAIN Path[k] : Path[k][i] \in {"a", "b"}}

Next ==
  \/ \E k \in todo : Parse(k)
  \/ IncludeFiles
  \/ \E n \in DOMAIN heap : ParseSwitch(n)
  \/ SwitchReturns
  \/ LoadOther
  \/ \E n \in {conf, other}, k \in Names, t \in Texts : SetText(n, k, t)
  \/ \E n \in {conf, other}, k \in Names : MakesBranch(n, k)
  \/ UpdateFrom

Spec == Init /\ [][Next]_vars

-----------------------------------------------------------------------------
Paths == {Path[k] : k \in Names}

\* What a table of the document says of a path: its value or branch there, Cut
\* when it has a plain value on the way, Absent when it says nothing.
Cut == [kind |-> "cut", text |-> "", table |-> 0]

RECURSIVE Says(_, _)
Says(m, path) ==
  LET keys == DOMAIN heap[m] \ {"__include__"}
      Entry(k) == heap[m][k]
      Here == {k \in keys : Path[k] = path}
      Way  == {k \in keys : Path[k] # path /\ IsPrefix(Path[k], path)}
      Deep == {k \in keys : Path[k] # path /\ IsPrefix(path, Path[k])}
      Rest(k) == SubSeq(path, Len(Path[k]) + 1, Len(path))
      own  == CASE Here # {} -> Entry(CHOOSE k \in Here : TRUE)
                [] Way # {}  -> LET k == CHOOSE k \in Way : TRUE
                                IN  IF IsBranch(Entry(k)) THEN Says(Entry(k).table, Rest(k)) ELSE Cut
                [] Deep # {} -> Cfg(0)
                [] OTHER     -> Absent
      files == IF "__include__" \in DOMAIN heap[m] THEN Files[Entry("__include__").text] ELSE <<>>
      said == SelectSeq([i \in DOMAIN files |-> Says(files[i], path)], LAMBDA v : v # Absent)
  IN  IF said = <<>> THEN own ELSE Last(said)

\* The case a switch selects, given what each path reads: 0 for none.
Case(switch, Reads(_)) ==
  LET found == Reads(Path[heap[switch]["__key__"].text])
      label == IF found.kind = "text" THEN found.text ELSE At(heap, switch, "__default__").text
  IN  IF IsBranch(At(heap, switch, label)) THEN At(heap, switch, label).table ELSE 0

Over(table, path, lower) == IF table = 0 \/ Says(table, path) = Absent THEN lower ELSE Says(table, path)

\* The document with the case of its own switch over it, and with the case of a
\* branch's switch over that.
Root(path) ==
  LET s == Says(1, <<"__switch__">>) IN
  Over(IF IsBranch(s) THEN Case(s.table, LAMBDA p : Says(1, p)) ELSE 0, path, Says(1, path))

Switched(k) == IsBranch(Root(<<k, "__switch__">>))
Meaning(path) ==
  IF Switched(path[1]) /\ Len(path) > 1
  THEN Over(Case(Root(<<path[1], "__switch__">>).table, Root), Tail(path), Root(path))
  ELSE Root(path)

\* What the order of a map decides: a dotted key next to the branch it goes
\* through, and a switch whose key another switch sets.
KeyOf(k) == Path[heap[Root(<<k, "__switch__">>).table]["__key__"].text]
LeftToOrder ==
  \/ \E j, k \in DOMAIN heap[1] : j # k /\ IsPrefix(Path[j], Path[k])
  \/ \E j, k \in {"a", "b"} : j # k /\ Switched(j) /\ Switched(k) /\ KeyOf(j)[1] = k

TextAt(v) == IF v.kind = "text" THEN v ELSE Absent

\* Whatever the order the keys of a map come in, the loaded configuration reads
\* as the document is written: its own values, over them those of its includes,
\* then the case its switch selects, then the case of a branch's switch.
LoadedAsWritten ==
  pc = "loaded" /\ ~ LeftToOrder =>
    \A p \in Paths : TextAt(Interface(heap, conf, p)) = TextAt(Meaning(p))

RECURSIVE Reach(_, _)
Reach(h, n) == {n} \cup UNION {Reach(h, h[n][k].table) : k \in {j \in DOMAIN h[n] : IsBranch(h[n][j])}}
Shared == IF other = 0 THEN {} ELSE Reach(heap, conf) \cap Reach(heap, other)

\* The branches of the other configuration that meet a plain value.
Meets == UNION {Reach(heap, Branch(heap, other, p)) :
                  p \in {q \in Paths : other # 0 /\ Branch(heap, other, q) # 0 /\ Interface(heap, conf, q).kind = "text"}}

Same(n, Which(_)) == \A p \in Paths : Which(p) => TextAt(Interface(heap, n, p))' = TextAt(Interface(heap, n, p))
Related(p, q) == IsPrefix(p, q) \/ IsPrefix(q, p)

SetStaysInPlace ==
  \A n \in {conf, other}, k \in Names, t \in Texts : SetText(n, k, t) =>
    /\ heap' = heap \/ Interface(heap, n, Path[k])' = Value(t)
    /\ Same(n, LAMBDA p : ~ Related(p, Path[k]))

OneIsChanged == Same(conf, LAMBDA p : TRUE) \/ Same(other, LAMBDA p : TRUE)

\* A Set reads back or changes nothing, and leaves names alone that neither lie
\* on its way nor below it; Update copies branches, so that two configurations
\* come to share one only where it met a plain value, and until then a call
\* changes one of them at most.
CallsStayInPlace == [][pc' = "calls" => /\ SetStaysInPlace
                                        /\ other # 0 /\ Shared = {} =>
                                             OneIsChanged /\ Shared' \subseteq Meets]_vars
=============================================================================
