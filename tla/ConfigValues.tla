---------------------------- MODULE ConfigValues ----------------------------
(***************************************************************************)
(* The typed readers of a value: those of config.Configuration and, for a  *)
(* key-to-value function, those of util.ValueGetter.  A value of any Go    *)
(* type is stored under a key and read back as any other.                  *)
(*                                                                         *)
(* A number is counted in halves, so that a float may have a fraction and  *)
(* an integer is even.  Span says how many integers a type of each width   *)
(* has (2^8 and so on in Go; a run takes fewer), ascending; int and uint   *)
(* have 64 bits.  A float type has every number up to Exact (of 24 or 53   *)
(* bits), only even ones, thus the integers, up to twice that, and so on   *)
(* with the Steps 1, 2, 4.  A text is a string that writes a number, a     *)
(* word for a truth value, nothing, or something else.  Left out:          *)
(* fractions below a half, floats out of the range of float32, and floats  *)
(* out of the range of the integer they are converted to, which Go leaves  *)
(* to the machine and which wrap around here.                              *)
(***************************************************************************)
EXTENDS Integers, Sequences

CONSTANTS
  Span,      \* bound, a function: the integers of the widths 8, 16, 32 and 64
  Exact,     \* bound, a function: what float32 and float64 have without a gap, in halves
  Steps,     \* bound: the distances of neighbouring floats, powers of two
  Numbers,   \* the numbers, in halves, that are stored
  MaxItems   \* bound: the length of a list

ASSUME SpanAssumption ==
  /\ \A w \in {8, 16, 32, 64} : Span[w] \in Nat
  /\ 4 <= Span[8] /\ Span[8] <= Span[16] /\ Span[16] <= Span[32] /\ Span[32] <= Span[64]
ASSUME FloatAssumption ==
  /\ Exact["float32"] \in Nat /\ Exact["float64"] \in Nat
  /\ 2 <= Exact["float32"] /\ Exact["float32"] <= Exact["float64"]
  /\ 1 \in Steps /\ Steps \subseteq Nat \ {0}
ASSUME NumbersAssumption == Numbers \subseteq Int /\ MaxItems \in Nat

VARIABLES
  given,    \* the value a program has under the key: a ValueGetter returns it
  stored    \* what Set made of it in the configuration

vars == <<given, stored>>

Signed   == {"int", "int8", "int16", "int32", "int64"}
Unsigned == {"uint", "uint8", "uint16", "uint32", "uint64"}
Floats   == {"float32", "float64"}
Numeric  == Signed \cup Unsigned \cup Floats
Texts    == {"string", "json.Number"}
Words    == {"number", "true", "false", "empty", "other"}

SpanOf(t) == CASE t \in {"int8", "uint8"}   -> Span[8]
               [] t \in {"int16", "uint16"} -> Span[16]
               [] t \in {"int32", "uint32"} -> Span[32]
               [] OTHER                     -> Span[64]

\* The whole part of a number, towards zero, still in halves.
Whole(n) == IF n % 2 = 0 THEN n ELSE IF n > 0 THEN n - 1 ELSE n + 1

Abs(n) == IF n < 0 THEN -n ELSE n

\* The float type has the number.
Has(t, n) == \E s \in Steps : Abs(n) <= Exact[t] * s /\ n % s = 0

\* The number of a float type nearest to n; of two, the even multiple of their
\* distance s.
Nearest(t, n) ==
  LET reach(s) == Abs(n) <= Exact[t] * s
      s        == CHOOSE x \in Steps : reach(x) /\ \A y \in Steps : reach(y) => x <= y
      below    == Abs(n) \div s
      over     == 2 * (Abs(n) % s)
      up       == over > s \/ (over = s /\ below % 2 = 1)
      m        == s * (IF up THEN below + 1 ELSE below)
  IN  IF n < 0 THEN -m ELSE m

\* Go's conversion of a number to t: integers wrap around, fractions are cut, and
\* floats are rounded.
Convert(t, n) ==
  LET size == 2 * SpanOf(t)
  IN  CASE t \in Unsigned -> Whole(n) % size
        [] t \in Signed   -> ((Whole(n) + size \div 2) % size) - size \div 2
        [] OTHER          -> IF Has(t, n) THEN n ELSE Nearest(t, n)

\* The type has the number.
Fits(t, n) == IF t \in Floats THEN Has(t, n) ELSE Convert(t, n) = n

Value(t, n, word, of, items) == [type |-> t, n |-> n, word |-> word, of |-> of, items |-> items]
Missing          == Value("missing", 0, "empty", "none", <<>>)
Num(t, n)        == Value(t, n, "number", "none", <<>>)
Text(t, word, n) == Value(t, n, word, "none", <<>>)
Truth(b)         == Value("bool", IF b THEN 2 ELSE 0, "other", "none", <<>>)
List(items)      == Value("slice", 0, "other", "interface", items)
Slice(t, ns)     == Value("slice", 0, "other", t, [i \in DOMAIN ns |-> Num(t, ns[i])])

IsText(v)     == v.type \in Texts
IsNumber(v)   == v.type \in Numeric
IsSlice(v, t) == v.type = "slice" /\ v.of = t
IsList(v)     == IsSlice(v, "interface")
Nothing       == <<>>             \* a cast that fails

\* Set stores the wide type of most integers and of float32.
toBigType(v) ==
  CASE v.type \in Signed                      -> [v EXCEPT !.type = "int64"]
    [] v.type \in {"uint", "uint16", "uint32"} -> [v EXCEPT !.type = "uint64"]
    [] v.type = "float32"                     -> [v EXCEPT !.type = "float64"]
    [] OTHER                                  -> v

(***************************************************************************)
(* util.Cast*: <<number>>, or Nothing for a type they do not know.  The    *)
(* error of a text that does not parse is dropped: it casts to 0.          *)
(***************************************************************************)
Parsed(v, t) == IF v.word = "number" /\ (t \in Floats \/ Fits(t, v.n)) THEN Convert(t, v.n) ELSE 0

\* Mutant of CastInt64: without a case for uint8, which Set does not widen.
CastInt64NoBytes(v) == CASE v.type = "uint8" -> Nothing
                         [] IsNumber(v)      -> <<Convert("int64", v.n)>>
                         [] IsText(v)        -> <<Parsed(v, "int64")>>
                         [] OTHER            -> Nothing

\* Mutant of CastInt64: by way of a float64, which lacks large integers.
CastInt64ByFloat(v) == CASE IsNumber(v) -> <<Convert("int64", Convert("float64", v.n))>>
                         [] IsText(v)   -> <<Parsed(v, "int64")>>
                         [] OTHER       -> Nothing

CastInt64(v) == CASE IsNumber(v) -> <<Convert("int64", v.n)>>
                  [] IsText(v)   -> <<Parsed(v, "int64")>>
                  [] OTHER       -> Nothing

CastUint64(v) == CASE IsNumber(v) -> <<Convert("uint64", v.n)>>
                   [] IsText(v)   -> <<Convert("uint64", Parsed(v, "int64"))>>
                   [] OTHER       -> Nothing

CastFloat64(v) == CASE IsNumber(v) -> <<Convert("float64", v.n)>>
                    [] IsText(v)   -> <<Parsed(v, "float64")>>
                    [] OTHER       -> Nothing

Cast(t, v) == CASE t \in Signed -> CastInt64(v) [] t \in Unsigned -> CastUint64(v) [] OTHER -> CastFloat64(v)

Or(r, def)     == IF r = Nothing THEN def ELSE r[1]

(***************************************************************************)
(* Readers of one number.  The narrow ones convert what the wide one reads.*)
(***************************************************************************)
Int64(v, def)   == Or(CastInt64(v), def)
IntOf(v, def)   == Convert("int", Int64(v, def))
Int8(v, def)    == Convert("int8", Int64(v, def))
Int16(v, def)   == Convert("int16", Int64(v, def))
Int32(v, def)   == Convert("int32", Int64(v, def))
Uint64(v, def)  == Or(CastUint64(v), def)
Uint(v, def)    == Convert("uint", Uint64(v, def))
Uint8(v, def)   == Convert("uint8", Uint64(v, def))
Uint16(v, def)  == Convert("uint16", Uint64(v, def))
Uint32(v, def)  == Convert("uint32", Uint64(v, def))
Float64(v, def) == Or(CastFloat64(v), def)
Float32(v, def) == Convert("float32", Float64(v, def))

Byte(v, def)    == IF v.type = "uint8" THEN v.n ELSE def
String(v, def)  == IF IsText(v) THEN [v EXCEPT !.type = "string"] ELSE def

Bool(v, def) ==
  LET i == Int64(v, -2)
  IN  CASE v.type = "bool"                          -> v.n = 2
        [] v.type = "string" /\ v.word = "true"     -> TRUE
        [] v.type = "string" /\ v.word = "false"    -> FALSE
        [] v.type = "string" /\ v.word = "number"   -> IF v.n = 2 THEN TRUE ELSE IF v.n = 0 THEN FALSE ELSE def
        [] v.type = "string" /\ v.word = "other"    -> def
        [] OTHER                                    -> IF i \in {0, 2} THEN i = 2 ELSE def

(***************************************************************************)
(* Readers of a slice.  Read(t, v, def): Configuration looks at the kind   *)
(* of the elements by reflection, and an element of a list has the kind    *)
(* interface, which none of the three conversions takes: they panic, and   *)
(* the default stays.  A slice without elements reads as an empty one.     *)
(***************************************************************************)
Items(v) == [i \in DOMAIN v.items |-> v.items[i].n]
EachOf(t, v) == [i \in DOMAIN v.items |-> Convert(t, v.items[i].n)]

NumberSlice(t, v, def) ==
  CASE IsSlice(v, t)                                         -> Items(v)
    [] v.type = "slice" /\ (v.of \in Numeric \/ v.items = <<>>) -> EachOf(t, v)
    [] OTHER                                                 -> def

IntSlice(v, def)     == NumberSlice("int", v, def)
Int8Slice(v, def)    == NumberSlice("int8", v, def)
Int16Slice(v, def)   == NumberSlice("int16", v, def)
Int32Slice(v, def)   == NumberSlice("int32", v, def)
Int64Slice(v, def)   == NumberSlice("int64", v, def)
UintSlice(v, def)    == NumberSlice("uint", v, def)
Uint8Slice(v, def)   == NumberSlice("uint8", v, def)
Uint16Slice(v, def)  == NumberSlice("uint16", v, def)
Uint32Slice(v, def)  == NumberSlice("uint32", v, def)
Uint64Slice(v, def)  == NumberSlice("uint64", v, def)
Float32Slice(v, def) == NumberSlice("float32", v, def)
Float64Slice(v, def) == NumberSlice("float64", v, def)

\* Slices of bools, strings and bytes: of that type, or lists of nothing else.
AllOf(Is(_), v) == IsList(v) /\ \A i \in DOMAIN v.items : Is(v.items[i])
IsTruth(x)      == x.type = "bool"
IsByte(x)       == x.type = "uint8"
IsBytes(x)      == x.type = "string" \/ IsSlice(x, "uint8")

BoolSlice(v, def)   == IF IsSlice(v, "bool") \/ AllOf(IsTruth, v) THEN v.items ELSE def
StringSlice(v, def) == IF IsSlice(v, "string") \/ AllOf(IsText, v) THEN [i \in DOMAIN v.items |-> String(v.items[i], Missing)] ELSE def
ByteSlice(v, def)   == IF IsSlice(v, "uint8") \/ AllOf(IsByte, v) THEN Items(v) ELSE def
BytesSlice(v, def)  == IF AllOf(IsBytes, v) THEN v.items ELSE def

(***************************************************************************)
(* util.ValueGetter reads what the function returns, with the same casts;  *)
(* its slices take a wide slice of the like kind, and lists element by     *)
(* element.                                                                *)
(***************************************************************************)
GetInt64(v, def)   == Or(CastInt64(v), def)
GetInt(v, def)     == Convert("int", GetInt64(v, def))
GetInt8(v, def)    == Convert("int8", GetInt64(v, def))
GetInt16(v, def)   == Convert("int16", GetInt64(v, def))
GetInt32(v, def)   == Convert("int32", GetInt64(v, def))
GetUint64(v, def)  == Or(CastUint64(v), def)
GetUint(v, def)    == Convert("uint", GetUint64(v, def))
GetUint8(v, def)   == Convert("uint8", GetUint64(v, def))
GetUint16(v, def)  == Convert("uint16", GetUint64(v, def))
GetUint32(v, def)  == Convert("uint32", GetUint64(v, def))
GetFloat64(v, def) == Or(CastFloat64(v), def)
GetFloat32(v, def) == Convert("float32", GetFloat64(v, def))

Wide(t) == CASE t \in Signed            -> {"int64"}
             [] t = "uint64"            -> {"int64"}
             [] t \in Unsigned          -> {"int64", "uint64"}
             [] OTHER                   -> {"float64"}

GetSlice(t, v, def) ==
  CASE IsSlice(v, t)                                             -> Items(v)
    [] v.type = "slice" /\ v.of \in Wide(t)                      -> EachOf(t, v)
    [] AllOf(LAMBDA x : Cast(t, x) # Nothing, v)                 -> [i \in DOMAIN v.items |-> Convert(t, Cast(t, v.items[i])[1])]
    [] OTHER                                                     -> def

GetIntSlice(v, def)     == GetSlice("int", v, def)
GetInt8Slice(v, def)    == GetSlice("int8", v, def)
GetInt16Slice(v, def)   == GetSlice("int16", v, def)
GetInt32Slice(v, def)   == GetSlice("int32", v, def)
GetInt64Slice(v, def)   == GetSlice("int64", v, def)
GetUintSlice(v, def)    == GetSlice("uint", v, def)
GetUint8Slice(v, def)   == GetSlice("uint8", v, def)
GetUint16Slice(v, def)  == GetSlice("uint16", v, def)
GetUint32Slice(v, def)  == GetSlice("uint32", v, def)
GetUint64Slice(v, def)  == GetSlice("uint64", v, def)
GetFloat32Slice(v, def) == GetSlice("float32", v, def)
GetFloat64Slice(v, def) == GetSlice("float64", v, def)

GetBool(v, def)        == IF v.type = "bool" THEN v.n = 2 ELSE def
GetString(v, def)      == IF IsText(v) THEN [v EXCEPT !.type = "string"] ELSE def
GetByte(v, def)        == IF v.type = "uint8" THEN v.n ELSE def
GetBoolSlice(v, def)   == IF IsSlice(v, "bool") \/ AllOf(IsTruth, v) THEN v.items ELSE def
GetStringSlice(v, def) == IF IsSlice(v, "string") \/ AllOf(IsText, v) THEN [i \in DOMAIN v.items |-> GetString(v.items[i], Missing)] ELSE def
GetByteSlice(v, def)   == IF IsSlice(v, "uint8") \/ AllOf(IsByte, v) THEN Items(v) ELSE def

(***************************************************************************)
(* LoadStruct: a field of kind t is set, by SetInt, SetUint or SetFloat,   *)
(* to what the wide reader finds, with the default of its tag.             *)
(***************************************************************************)
Field(t, v, tag) ==
  Convert(t, CASE t \in Signed   -> Int64(v, tag)
               [] t \in Unsigned -> Uint64(v, tag)
               [] OTHER          -> Float64(v, tag))

-----------------------------------------------------------------------------
\* The values a program may have: numbers of each type, texts, slices, lists.
Fitting(t) == {n \in Numbers : Fits(t, n)}

Elements == {Num("int64", 2), Num("float64", 3), Num("uint8", 4), Text("string", "number", 2),
             Text("json.Number", "number", 4), Text("string", "other", 0), Truth(TRUE), Slice("uint8", <<2>>)}

Singles == {Missing, Truth(TRUE), Truth(FALSE)}
             \cup (UNION {{Num(t, n) : n \in Fitting(t)} : t \in Numeric})
             \cup {Text(t, "number", n) : t \in Texts, n \in Numbers}
             \cup {Text("string", w, 0) : w \in Words \ {"number"}}

SeqsOf(S) == UNION {[1 .. k -> S] : k \in 0 .. MaxItems}

Slices == (UNION {{Slice(t, ns) : ns \in SeqsOf(Fitting(t))} : t \in Numeric})
            \cup {List(items) : items \in SeqsOf(Elements)}
            \cup {Value("slice", 0, "other", "bool", items) : items \in SeqsOf({Truth(TRUE), Truth(FALSE)})}
            \cup {Value("slice", 0, "other", "string", items) : items \in SeqsOf({Text("string", "other", 0)})}

Init == given = Missing /\ stored = Missing

\* Configuration.Set under the key.
Set(v) == given' = v /\ stored' = toBigType(v)

Next == \E v \in Singles \cup Slices : Set(v)

Spec == Init /\ [][Next]_vars

-----------------------------------------------------------------------------
\* What each reader makes of v, by the type it reads.
Reads(v, def) ==
  [int |-> IntOf(v, def), int8 |-> Int8(v, def), int16 |-> Int16(v, def), int32 |-> Int32(v, def), int64 |-> Int64(v, def),
   uint |-> Uint(v, def), uint8 |-> Uint8(v, def), uint16 |-> Uint16(v, def), uint32 |-> Uint32(v, def),
   uint64 |-> Uint64(v, def), float32 |-> Float32(v, def), float64 |-> Float64(v, def)]

GetReads(v, def) ==
  [int |-> GetInt(v, def), int8 |-> GetInt8(v, def), int16 |-> GetInt16(v, def), int32 |-> GetInt32(v, def),
   int64 |-> GetInt64(v, def), uint |-> GetUint(v, def), uint8 |-> GetUint8(v, def), uint16 |-> GetUint16(v, def),
   uint32 |-> GetUint32(v, def), uint64 |-> GetUint64(v, def), float32 |-> GetFloat32(v, def), float64 |-> GetFloat64(v, def)]

SliceReads(v, def) ==
  [int |-> IntSlice(v, def), int8 |-> Int8Slice(v, def), int16 |-> Int16Slice(v, def), int32 |-> Int32Slice(v, def),
   int64 |-> Int64Slice(v, def), uint |-> UintSlice(v, def), uint8 |-> Uint8Slice(v, def), uint16 |-> Uint16Slice(v, def),
   uint32 |-> Uint32Slice(v, def), uint64 |-> Uint64Slice(v, def), float32 |-> Float32Slice(v, def), float64 |-> Float64Slice(v, def)]

GetSliceReads(v, def) ==
  [int |-> GetIntSlice(v, def), int8 |-> GetInt8Slice(v, def), int16 |-> GetInt16Slice(v, def), int32 |-> GetInt32Slice(v, def),
   int64 |-> GetInt64Slice(v, def), uint |-> GetUintSlice(v, def), uint8 |-> GetUint8Slice(v, def),
   uint16 |-> GetUint16Slice(v, def), uint32 |-> GetUint32Slice(v, def), uint64 |-> GetUint64Slice(v, def),
   float32 |-> GetFloat32Slice(v, def), float64 |-> GetFloat64Slice(v, def)]

\* A number, or a text that writes one.  A text goes through int64 on its way to
\* an unsigned reader.
Numerical(v)   == IsNumber(v) \/ (IsText(v) /\ v.word = "number")
Readable(t, v) == Fits(t, v.n) /\ (IsText(v) /\ t \in Unsigned => Fits("int64", v.n))
Default        == 2

\* With cf what the readers of Configuration make of a value, and vg those of
\* ValueGetter: a number reads back as itself through every reader whose type has
\* it, and rounded once, when it is read, through Float64.
NumbersReadBack ==
  Numerical(given) =>
    \A cf \in {Reads(stored, Default)}, vg \in {GetReads(given, Default)} :
      /\ \A t \in Numeric : Readable(t, given) =>
           cf[t] = given.n /\ vg[t] = given.n /\ Field(t, stored, Default) = given.n
      /\ cf["float64"] = Convert("float64", given.n) /\ vg["float64"] = Convert("float64", given.n)

\* What is no number reads as the default, but for a text, which reads as 0.
OthersReadDefault ==
  ~ Numerical(given) =>
    LET n == IF IsText(given) THEN 0 ELSE Default
    IN  \A cf \in {Reads(stored, Default)}, vg \in {GetReads(given, Default)} :
          \A t \in Numeric : cf[t] = n /\ vg[t] = n /\ Field(t, stored, Default) = n

\* A slice reads whole or not at all.  Numbers that fit read back one by one,
\* those of a list through the ValueGetter only.
SlicesReadBack ==
  LET def     == <<>>
      ns      == Items(given)
      fits(t) == \A i \in DOMAIN ns : Numerical(given.items[i]) /\ Readable(t, given.items[i])
  IN  \A cf \in {SliceReads(stored, def)}, vg \in {GetSliceReads(given, def)} :
        \A t \in Numeric :
          /\ cf[t] = def \/ Len(cf[t]) = Len(ns)
          /\ vg[t] = def \/ Len(vg[t]) = Len(ns)
          /\ given.type = "slice" /\ given.of \in Numeric /\ fits(t) => cf[t] = ns
          /\ given.type = "slice" /\ given.of \in {t, "interface"} \cup Wide(t) /\ fits(t) => vg[t] = ns

\* The two readers of truth values and texts agree wherever ValueGetter reads one.
ReadersAgree ==
  /\ given.type = "bool" => Bool(stored, FALSE) = GetBool(given, FALSE)
  /\ String(stored, Missing) = GetString(given, Missing)
  /\ Byte(stored, Default) = GetByte(given, Default)
  /\ BoolSlice(stored, <<>>) = GetBoolSlice(given, <<>>)
  /\ StringSlice(stored, <<>>) = GetStringSlice(given, <<>>)
  /\ ByteSlice(stored, <<>>) = GetByteSlice(given, <<>>)
  /\ BytesSlice(stored, <<>>) = <<>> \/ Len(BytesSlice(stored, <<>>)) = Len(given.items)

\* A value read through any reader whose type has it is the value that was
\* stored, whatever type Set widened it to, so an integer beyond 2^24 or 2^53
\* only through the floats that have it; Float64 gives of the others the nearest
\* it has.  What cannot be read gives the default, and never a slice that is
\* filled in part (config.go:190-1230, util.go:85-205, 600-920).
ValuesReadBack == NumbersReadBack /\ OthersReadDefault /\ SlicesReadBack /\ ReadersAgree
=============================================================================
