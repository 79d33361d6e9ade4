------------------------------ MODULE MCConfig ------------------------------
(***************************************************************************)
(* The typed readers and the tree in one run: a behaviour is about one.    *)
(***************************************************************************)
EXTENDS ConfigValues, TLC

VARIABLES part, heap, conf, other, todo, stack, pc, left

\* float32 has every integer up to 8, more than those of 16 bits and fewer than
\* those of 32, as in Go; float64 up to 16, more than those of 32 bits and fewer
\* than those of 64.  18 is the first integer float32 lacks, 34 float64; 7 and 9
\* have a fraction, which float32 has and lacks.
MCSpan    == 8 :> 4 @@ 16 :> 8 @@ 32 :> 16 @@ 64 :> 64
MCExact   == "float32" :> 8 @@ "float64" :> 16
MCNumbers == {-64, -16, -4, 0, 1, 2, 6, 7, 9, 14, 16, 18, 30, 32, 34, 62, 126}

MCPath ==
  "a" :> <<"a">> @@ "b" :> <<"b">> @@ "a.b" :> <<"a", "b">> @@ "b.a" :> <<"b", "a">> @@ "a.b.a" :> <<"a", "b", "a">>
    @@ "__switch__" :> <<"__switch__">> @@ "__include__" :> <<"__include__">>
MCFiles == "file" :> <<4>> @@ "files" :> <<4, 15>> @@ "files reversed" :> <<15, 4>>

Tx(t)    == [kind |-> "text", text |-> t, table |-> 0]
Mp(n)    == [kind |-> "map", text |-> "", table |-> n]
None     == [kind |-> "none", text |-> "", table |-> 0]
Only(f)  == [k \in {j \in DOMAIN f : f[j] # None} |-> f[k]]

\* Table 1 is the document, 2 and 3 its branches a and b, 4 the included file, 5
\* its branch; 6 to 8 are the document's switch and its case, 9 and 10 the switch
\* of the branch a, 11 and 12 that of b, 13 and 14 a second document, 15 a
\* second included file.
Heap(d) ==
  << Only("a" :> d.a @@ "b" :> d.b @@ "a.b" :> d.dotted @@ "__include__" :> d.include @@ "__switch__" :> d.switch),
     Only("b" :> Tx("v") @@ "__switch__" :> d.switchA),
     Only("a" :> Tx("v") @@ "__switch__" :> d.switchB),
     Only("a" :> d.fileA @@ "b" :> Tx("w")),
     Only("b" :> Tx("w")),
     Only("__key__" :> Tx(d.key) @@ "v" :> Mp(7) @@ "__default__" :> d.default),
     Only("a" :> d.caseA),
     Only("b" :> Tx("v")),
     Only("__key__" :> Tx("b") @@ "w" :> Mp(10)),
     Only("b" :> Tx("w")),
     Only("__key__" :> Tx("a.b") @@ "w" :> Mp(12)),
     Only("a" :> Tx("w")),
     Only("a" :> Mp(14) @@ "b" :> Tx("w")),
     Only("b" :> Tx("w")),
     Only("b" :> Tx("v")) >>

\* What a document says; parts that no other part leads to are left alone, and a
\* list of files comes with fewer other parts than one file does.
Shapes ==
  {d \in [a : {None, Tx("v"), Mp(2)}, b : {Tx("w"), Mp(3)}, dotted : {None, Tx("w")},
          include : {None} \cup {Tx(f) : f \in DOMAIN MCFiles}, switch : {None, Mp(6)},
          switchA : {None, Mp(9)}, switchB : {None, Mp(11)}, fileA : {Tx("w"), Mp(5)},
          key : {"a", "a.b"}, default : {None, Tx("v")}, caseA : {Mp(8), Tx("w")}] :
     /\ d.include = None => d.fileA = Mp(5)
     /\ d.include \notin {None, Tx("file")} => d.dotted = None /\ d.default = None /\ d.switchA = None /\ d.switchB = None
     /\ d.switch = None => d.key = "a" /\ d.default = None /\ d.caseA = Mp(8)
     /\ d.a # Mp(2) => d.switchA = None
     /\ d.b # Mp(3) => d.switchB = None}

Plain(d) == d.dotted = None /\ d.include = None /\ d.switch = None /\ d.switchA = None /\ d.switchB = None

MCDocuments  == {Heap(d) : d \in Shapes}
MCCallsAfter == {Heap(d) : d \in {e \in Shapes : Plain(e)}}

CONSTANT MaxCalls

Tree == INSTANCE ConfigTree WITH Path <- MCPath, Files <- MCFiles, Documents <- MCDocuments, CallsAfter <- MCCallsAfter,
                                 Updates <- {13}, Texts <- {"v"}

treeVars == <<heap, conf, other, todo, stack, pc, left>>

ConfigInit ==
  \/ /\ part = "values"
     /\ Init
     /\ heap = <<>> /\ conf = 0 /\ other = 0 /\ todo = {} /\ stack = <<>> /\ pc = "none" /\ left = 0
  \/ /\ part = "tree"
     /\ Tree!Init
     /\ given = Missing /\ stored = Missing

ConfigNext ==
  \/ part = "values" /\ Next /\ UNCHANGED <<part, heap, conf, other, todo, stack, pc, left>>
  \/ part = "tree" /\ Tree!Next /\ UNCHANGED <<part, vars>>

ConfigSpec == ConfigInit /\ [][ConfigNext]_<<part, vars, treeVars>>

\* Whatever the order of a map's keys, a configuration reads as its document,
\* its includes and its switches are written.
LoadedAsWritten == Tree!LoadedAsWritten

\* Set, MakeBranch and Update change what they name, and in one configuration.
CallsStayInPlace == Tree!CallsStayInPlace
=============================================================================
