-------------------------- MODULE ConfigValuesProofs --------------------------
(***************************************************************************)
(* That values read back, for types of any widths, floats of any precision *)
(* and any numbers.                                                        *)
(*                                                                         *)
(* The promise is about one value, so the invariant is what a value looks  *)
(* like, and the proof is about the readers.  Two facts carry it: a number *)
(* that a narrow type has, the wide type of its kind has too, through      *)
(* which it is read, and toBigType changes nothing but the type's width.   *)
(***************************************************************************)
EXTENDS ConfigValues, SequenceTheorems, TLAPS

-----------------------------------------------------------------------------
(* Numbers of the types.                                                   *)

LEMMA SpanIs ==
  ASSUME NEW t
  PROVE  /\ SpanOf(t) \in Nat /\ SpanOf(t) >= 4 /\ SpanOf(t) <= Span[64]
         /\ SpanOf("int64") = Span[64] /\ SpanOf("uint64") = Span[64]
  BY SpanAssumption DEF SpanOf

LEMMA WholeIs ==
  ASSUME NEW n \in Int
  PROVE  /\ Whole(n) \in Int
         /\ n % 2 = 0 => Whole(n) = n
         /\ n % 2 # 0 => n # 0 /\ Whole(n) = IF n > 0 THEN n - 1 ELSE n + 1
  BY DEF Whole

\* A number less than the modulus is left alone.
LEMMA WithinTurn ==
  ASSUME NEW m \in Nat \ {0}, NEW x \in Int
  PROVE  /\ x % m \in Int /\ 0 <= x % m /\ x % m < m
         /\ 0 <= x /\ x < m => x % m = x
  <1>1. CASE 0 <= x /\ x < m
    BY <1>1
  <1>2. x % m \in Int /\ 0 <= x % m /\ x % m < m
    OBVIOUS
  <1>3. QED BY <1>1, <1>2

\* A type holds the whole numbers of its span.
LEMMA UnsignedFits ==
  ASSUME NEW t \in Unsigned, NEW n \in Int
  PROVE  /\ Convert(t, n) \in Int
         /\ Fits(t, n) <=> n % 2 = 0 /\ 0 <= n /\ n < 2 * SpanOf(t)
  <1> DEFINE m == 2 * SpanOf(t)
             w == Whole(n)
             c == w % m
  <1>1. Convert(t, n) = c
    BY DEF Convert, Signed, Unsigned
  <1>2. m \in Nat \ {0}
    BY SpanIs
  <1>3. w \in Int /\ (n % 2 = 0 => w = n) /\ (n % 2 # 0 => n # 0 /\ w = IF n > 0 THEN n - 1 ELSE n + 1)
    BY WholeIs
  <1>4. c \in Int /\ 0 <= c /\ c < m /\ (0 <= w /\ w < m => c = w)
    <2> HIDE DEF m, w
    <2>1. QED BY <1>2, <1>3, WithinTurn
  <1>5. Fits(t, n) <=> c = n
    BY <1>1 DEF Fits, Unsigned, Floats
  <1> HIDE DEF m, w, c
  <1>6. c = n <=> n % 2 = 0 /\ 0 <= n /\ n < m
    BY <1>2, <1>3, <1>4
  <1>7. QED BY <1>1, <1>4, <1>5, <1>6 DEF m

LEMMA SignedFits ==
  ASSUME NEW t \in Signed, NEW n \in Int
  PROVE  /\ Convert(t, n) \in Int
         /\ Fits(t, n) <=> n % 2 = 0 /\ -SpanOf(t) <= n /\ n < SpanOf(t)
  <1> DEFINE s == SpanOf(t)
             w == Whole(n)
             c == (w + s) % (2 * s)
  <1>1. s \in Nat /\ s >= 4 /\ (2 * s) \div 2 = s
    BY SpanIs
  <1>2. Convert(t, n) = c - s
    BY <1>1 DEF Convert, Signed, Unsigned
  <1>3. w \in Int /\ (n % 2 = 0 => w = n) /\ (n % 2 # 0 => n # 0 /\ w = IF n > 0 THEN n - 1 ELSE n + 1)
    BY WholeIs
  <1>4. c \in Int /\ 0 <= c /\ c < 2 * s /\ (0 <= w + s /\ w + s < 2 * s => c = w + s)
    <2> HIDE DEF s, w
    <2>1. 2 * s \in Nat \ {0} /\ w + s \in Int
      BY <1>1, <1>3
    <2>2. QED BY <2>1, WithinTurn
  <1>5. Fits(t, n) <=> c - s = n
    BY <1>2 DEF Fits, Signed, Floats
  <1> HIDE DEF s, w, c
  <1>6. c - s = n <=> n % 2 = 0 /\ -s <= n /\ n < s
    BY <1>1, <1>3, <1>4
  <1>7. QED BY <1>1, <1>2, <1>4, <1>5, <1>6 DEF s

\* A number that a float type has is not rounded.
LEMMA FloatFits ==
  ASSUME NEW t \in Floats, NEW n
  PROVE  /\ Fits(t, n) => Convert(t, n) = n
         /\ n \in {0, 2} => Fits(t, n)
  <1>1. Fits(t, n) <=> Has(t, n)
    BY DEF Fits
  <1>2. Convert(t, n) = IF Has(t, n) THEN n ELSE Nearest(t, n)
    BY DEF Convert, Signed, Unsigned, Floats
  <1>3. n \in {0, 2} => Has(t, n)
    <2>1. Exact[t] \in Nat /\ 2 <= Exact[t] /\ 1 \in Steps
      BY FloatAssumption DEF Floats
    <2>2. n \in {0, 2} => Abs(n) <= Exact[t] * 1 /\ n % 1 = 0
      BY <2>1 DEF Abs
    <2>3. QED BY <2>1, <2>2 DEF Has
  <1>4. QED BY <1>1, <1>2, <1>3

\* The numbers a type has are left alone by the conversion to it.
LEMMA FitsStays ==
  ASSUME NEW t, NEW n, Fits(t, n)
  PROVE  Convert(t, n) = n
  <1>1. CASE t \in Floats
    BY <1>1, FloatFits
  <1>2. CASE t \notin Floats
    BY <1>2 DEF Fits
  <1>3. QED BY <1>1, <1>2

\* What a narrow type holds, the wide type of its kind holds (util.go:150-330:
\* the narrow readers convert what the wide one reads).
LEMMA WideHolds ==
  ASSUME NEW n \in Int
  PROVE  /\ \A t \in Signed : Fits(t, n) => Fits("int64", n)
         /\ \A t \in Unsigned : Fits(t, n) => Fits("uint64", n)
         /\ \A t \in Floats : Fits(t, n) => Fits("float64", n)
  <1>1. ASSUME NEW t \in Signed, Fits(t, n) PROVE Fits("int64", n)
    <2>1. "int64" \in Signed
      BY DEF Signed
    <2>2. QED BY <1>1, <2>1, SignedFits, SpanIs, SpanAssumption
  <1>2. ASSUME NEW t \in Unsigned, Fits(t, n) PROVE Fits("uint64", n)
    <2>1. "uint64" \in Unsigned
      BY DEF Unsigned
    <2>2. QED BY <1>2, <2>1, UnsignedFits, SpanIs, SpanAssumption
  <1>3. ASSUME NEW t \in Floats, Fits(t, n) PROVE Fits("float64", n)
    <2>1. PICK s \in Steps : Abs(n) <= Exact[t] * s /\ n % s = 0
      BY <1>3 DEF Fits, Has
    <2>2. s \in Nat /\ Exact[t] \in Nat /\ Exact["float64"] \in Nat /\ Exact[t] <= Exact["float64"]
      BY <2>1, FloatAssumption DEF Floats
    <2>3. Exact[t] * s <= Exact["float64"] * s
      BY <2>2
    <2>4. Abs(n) \in Nat /\ Exact[t] * s \in Nat /\ Exact["float64"] * s \in Nat
      BY <2>2 DEF Abs
    <2>5. Abs(n) <= Exact["float64"] * s
      BY <2>1, <2>3, <2>4
    <2>6. QED BY <2>1, <2>5 DEF Fits, Has, Floats
  <1>4. QED BY <1>1, <1>2, <1>3

\* The default and zero are numbers of every type.
LEMMA SmallFits ==
  ASSUME NEW t \in Numeric, NEW n \in {0, Default}
  PROVE  Convert(t, n) = n
  <1>1. n \in Int /\ n % 2 = 0 /\ 0 <= n /\ n < 4
    BY DEF Default
  <1>2. SpanOf(t) \in Nat /\ SpanOf(t) >= 4
    BY SpanIs
  <1>3. n \in {0, 2}
    BY DEF Default
  <1>4. Fits(t, n)
    BY <1>1, <1>2, <1>3, SignedFits, UnsignedFits, FloatFits DEF Numeric
  <1>5. QED BY <1>4, FitsStays

-----------------------------------------------------------------------------
(* Readers of one number.                                                  *)

\* Every reader reads through the cast of its kind; the narrow ones convert what
\* it gives, which changes nothing when the type holds it.
LEMMA ReadThroughCast ==
  ASSUME NEW v, NEW def, NEW t \in Numeric,
         Convert(t, Or(Cast(t, v), def)) = Or(Cast(t, v), def)
  PROVE  /\ Reads(v, def)[t] = Or(Cast(t, v), def)
         /\ GetReads(v, def)[t] = Or(Cast(t, v), def)
         /\ Field(t, v, def) = Or(Cast(t, v), def)
  <1> DEFINE r == Or(Cast(t, v), def)
  <1>1. CASE t \in Signed
    <2>1. r = Int64(v, def) /\ r = GetInt64(v, def)
      BY <1>1 DEF Cast, Int64, GetInt64, Signed, Unsigned
    <2>2. t \in {"int", "int8", "int16", "int32", "int64"}
      BY <1>1 DEF Signed
    <2>3. Reads(v, def)[t] = r
      <3> HIDE DEF r
      <3>1. QED BY <2>1, <2>2 DEF Reads, IntOf, Int8, Int16, Int32, r
    <2>4. GetReads(v, def)[t] = r
      <3> HIDE DEF r
      <3>1. QED BY <2>1, <2>2 DEF GetReads, GetInt, GetInt8, GetInt16, GetInt32, r
    <2>5. Field(t, v, def) = r
      BY <1>1, <2>1 DEF Field, Signed, Unsigned
    <2>6. QED BY <2>3, <2>4, <2>5
  <1>2. CASE t \in Unsigned
    <2>1. r = Uint64(v, def) /\ r = GetUint64(v, def)
      BY <1>2 DEF Cast, Uint64, GetUint64, Signed, Unsigned
    <2>2. t \in {"uint", "uint8", "uint16", "uint32", "uint64"}
      BY <1>2 DEF Unsigned
    <2>3. Reads(v, def)[t] = r
      <3> HIDE DEF r
      <3>1. QED BY <2>1, <2>2 DEF Reads, Uint, Uint8, Uint16, Uint32, r
    <2>4. GetReads(v, def)[t] = r
      <3> HIDE DEF r
      <3>1. QED BY <2>1, <2>2 DEF GetReads, GetUint, GetUint8, GetUint16, GetUint32, r
    <2>5. Field(t, v, def) = r
      BY <1>2, <2>1 DEF Field, Signed, Unsigned
    <2>6. QED BY <2>3, <2>4, <2>5
  <1>3. CASE t \in Floats
    <2>1. r = Float64(v, def) /\ r = GetFloat64(v, def)
      BY <1>3 DEF Cast, Float64, GetFloat64, Signed, Unsigned, Floats
    <2>2. t \in {"float32", "float64"}
      BY <1>3 DEF Floats
    <2>3. Reads(v, def)[t] = r /\ GetReads(v, def)[t] = r
      <3> HIDE DEF r
      <3>1. Convert(t, r) = r
        BY DEF r
      <3>2. QED BY <2>1, <2>2, <3>1 DEF Reads, GetReads, Float32, GetFloat32
    <2>4. Field(t, v, def) = r
      BY <1>3, <2>1 DEF Field, Signed, Unsigned, Floats
    <2>5. QED BY <2>3, <2>4
  <1>4. QED BY <1>1, <1>2, <1>3 DEF Numeric

\* A number, or the text of one, casts to itself if the type holds it: the wide
\* type then does too, and for a text int64 as well (util.go:150-420).
LEMMA NumbersCast ==
  ASSUME NEW v, v.n \in Int, NEW t \in Numeric, Numerical(v), Readable(t, v)
  PROVE  Cast(t, v) = <<v.n>>
  <1> DEFINE n == v.n
  <1>1. Fits(t, n) /\ (IsText(v) /\ t \in Unsigned => Fits("int64", n))
    BY DEF Readable
  <1>2. IsNumber(v) \/ (IsText(v) /\ v.word = "number")
    BY DEF Numerical
  <1>3. ~ (IsNumber(v) /\ IsText(v))
    BY DEF IsNumber, IsText, Numeric, Texts, Signed, Unsigned, Floats
  <1>4. \A u : Fits(u, n) => Convert(u, n) = n
    BY FitsStays
  <1>5. CASE t \in Signed
    <2>1. Fits("int64", n)
      BY <1>1, <1>5, WideHolds
    <2>2. Cast(t, v) = CastInt64(v)
      BY <1>5 DEF Cast, Signed, Unsigned
    <2>3. IsText(v) => Parsed(v, "int64") = n
      BY <1>2, <1>3, <1>4, <2>1 DEF Parsed
    <2>4. CastInt64(v) = <<n>>
      BY <1>2, <1>3, <1>4, <2>1, <2>3 DEF CastInt64
    <2>5. QED BY <2>2, <2>4
  <1>6. CASE t \in Unsigned
    <2>1. Fits("uint64", n)
      BY <1>1, <1>6, WideHolds
    <2>2. Cast(t, v) = CastUint64(v)
      BY <1>6 DEF Cast, Signed, Unsigned
    <2>3. IsText(v) => Parsed(v, "int64") = n
      BY <1>1, <1>2, <1>3, <1>4, <1>6 DEF Parsed
    <2>4. CastUint64(v) = <<n>>
      BY <1>2, <1>3, <1>4, <2>1, <2>3 DEF CastUint64
    <2>5. QED BY <2>2, <2>4
  <1>7. CASE t \in Floats
    <2>1. Fits("float64", n)
      BY <1>1, <1>7, WideHolds
    <2>2. Cast(t, v) = CastFloat64(v)
      BY <1>7 DEF Cast, Signed, Unsigned, Floats
    <2>3. IsText(v) => Parsed(v, "float64") = n
      BY <1>2, <1>3, <1>4, <2>1 DEF Parsed
    <2>4. CastFloat64(v) = <<n>>
      BY <1>2, <1>3, <1>4, <2>1, <2>3 DEF CastFloat64
    <2>5. QED BY <2>2, <2>4
  <1>8. QED BY <1>5, <1>6, <1>7 DEF Numeric

\* Anything else casts to nothing, but a text to 0: the error of a text that does
\* not parse is dropped.
LEMMA OthersCast ==
  ASSUME NEW v, NEW t \in Numeric, ~ Numerical(v)
  PROVE  /\ IsText(v) => Cast(t, v) = <<0>>
         /\ ~ IsText(v) => Cast(t, v) = Nothing
  <1>1. ~ IsNumber(v) /\ (IsText(v) => v.word # "number")
    BY DEF Numerical
  <1>2. IsText(v) => \A u : Parsed(v, u) = 0
    BY <1>1 DEF Parsed
  <1>3. "uint64" \in Numeric
    BY DEF Numeric, Unsigned
  <1>4. Convert("uint64", 0) = 0
    BY <1>3, SmallFits
  <1>5. IsText(v) => CastInt64(v) = <<0>> /\ CastUint64(v) = <<0>> /\ CastFloat64(v) = <<0>>
    BY <1>1, <1>2, <1>4 DEF CastInt64, CastUint64, CastFloat64
  <1>6. ~ IsText(v) => CastInt64(v) = Nothing /\ CastUint64(v) = Nothing /\ CastFloat64(v) = Nothing
    BY <1>1 DEF CastInt64, CastUint64, CastFloat64
  <1>7. QED BY <1>5, <1>6 DEF Cast

LEMMA OrIs ==
  ASSUME NEW n, NEW def
  PROVE  Or(<<n>>, def) = n /\ Or(Nothing, def) = def
  BY DEF Or, Nothing

-----------------------------------------------------------------------------
(* Values.                                                                 *)

\* What the program stores: a record, with the items of a slice if it is one.
Storable(v) ==
  /\ v = Value(v.type, v.n, v.word, v.of, v.items)
  /\ v.n \in Int
  /\ \E k \in Nat : v.items \in [1 .. k -> {v.items[i] : i \in 1 .. k}]
  /\ \A i \in DOMAIN v.items : v.items[i].n \in Int

\* The value as it was given, and what Set made of it.
ValueInv == Storable(given) /\ stored = toBigType(given)

\* toBigType changes the type of a number and nothing else (config.go:1170-1200).
LEMMA OnlyWidens ==
  ASSUME NEW v, Storable(v)
  PROVE  /\ toBigType(v).n = v.n
         /\ toBigType(v).word = v.word
         /\ toBigType(v).items = v.items
         /\ IsNumber(toBigType(v)) <=> IsNumber(v)
         /\ IsText(toBigType(v)) <=> IsText(v)
         /\ ~ IsNumber(v) => toBigType(v) = v
         /\ toBigType(v).type = "uint8" <=> v.type = "uint8"
  <1>1. v = Value(v.type, v.n, v.word, v.of, v.items)
    BY DEF Storable
  <1> DEFINE s == toBigType(v)
  <1>2. PICK w : s = [v EXCEPT !.type = w] /\ (IsNumber(v) <=> w \in Numeric) /\ (~ IsNumber(v) => s = v)
                 /\ (w = "uint8" <=> v.type = "uint8")
    <2>1. CASE v.type \in Signed
      <3>1. s = [v EXCEPT !.type = "int64"]
        BY <2>1 DEF toBigType, Signed
      <3>2. IsNumber(v) /\ "int64" \in Numeric /\ v.type # "uint8"
        BY <2>1 DEF IsNumber, Numeric, Signed
      <3>3. QED BY <3>1, <3>2
    <2>2. CASE v.type \in {"uint", "uint16", "uint32"}
      <3>1. s = [v EXCEPT !.type = "uint64"]
        BY <2>2 DEF toBigType, Signed
      <3>2. IsNumber(v) /\ "uint64" \in Numeric /\ v.type # "uint8"
        BY <2>2 DEF IsNumber, Numeric, Unsigned
      <3>3. QED BY <3>1, <3>2
    <2>3. CASE v.type = "float32"
      <3>1. s = [v EXCEPT !.type = "float64"]
        BY <2>3 DEF toBigType, Signed
      <3>2. IsNumber(v) /\ "float64" \in Numeric /\ v.type # "uint8"
        BY <2>3 DEF IsNumber, Numeric, Floats
      <3>3. QED BY <3>1, <3>2
    <2>4. CASE v.type \notin Signed \cup {"uint", "uint16", "uint32", "float32"}
      <3>1. s = v
        BY <2>4 DEF toBigType
      <3>2. v = [v EXCEPT !.type = v.type]
        BY <1>1 DEF Value
      <3>3. QED BY <3>1, <3>2 DEF IsNumber
    <2>5. QED BY <2>1, <2>2, <2>3, <2>4
  <1>3. /\ s.type = w /\ s.n = v.n /\ s.word = v.word /\ s.items = v.items
    <2> HIDE DEF s
    <2>1. QED BY <1>1, <1>2 DEF Value
  <1>4. ~ (IsNumber(v) /\ IsText(v)) /\ ~ (IsNumber(s) /\ IsText(s))
    BY DEF IsNumber, IsText, Numeric, Texts, Signed, Unsigned, Floats
  <1>5. IsNumber(s) <=> IsNumber(v)
    BY <1>2, <1>3 DEF IsNumber
  <1> HIDE DEF s
  <1>6. IsText(s) <=> IsText(v)
    BY <1>2, <1>4, <1>5
  <1>7. QED BY <1>2, <1>3, <1>5, <1>6 DEF s

\* Float64 reads a number as its conversion.
LEMMA FloatsRead ==
  ASSUME NEW v, Numerical(v)
  PROVE  Reads(v, Default)["float64"] = Convert("float64", v.n) /\ GetReads(v, Default)["float64"] = Convert("float64", v.n)
  <1>1. CastFloat64(v) = <<Convert("float64", v.n)>>
    BY DEF CastFloat64, Numerical, Parsed, IsNumber, IsText, Numeric, Texts, Signed, Unsigned, Floats
  <1>2. Float64(v, Default) = Convert("float64", v.n) /\ GetFloat64(v, Default) = Convert("float64", v.n)
    BY <1>1, OrIs DEF Float64, GetFloat64
  <1>3. QED BY <1>2 DEF Reads, GetReads

LEMMA NumbersAreReadBack ==
  ASSUME ValueInv
  PROVE  NumbersReadBack
  <1> SUFFICES ASSUME Numerical(given) PROVE NumbersReadBack
    BY DEF NumbersReadBack
  <1> DEFINE n == given.n
  <1>1. Storable(given) /\ stored = toBigType(given) /\ n \in Int
    BY DEF ValueInv, Storable
  <1>2. stored.n = n /\ Numerical(stored) /\ \A t \in Numeric : Readable(t, given) => Readable(t, stored)
    BY <1>1, OnlyWidens DEF Numerical, Readable
  <1>3. ASSUME NEW t \in Numeric, Readable(t, given)
        PROVE  /\ Reads(stored, Default)[t] = n
               /\ GetReads(given, Default)[t] = n
               /\ Field(t, stored, Default) = n
    <2>1. Cast(t, given) = <<n>>
      BY <1>1, <1>3, NumbersCast
    <2>2. Cast(t, stored) = <<n>>
      BY <1>1, <1>2, <1>3, NumbersCast
    <2>3. Or(Cast(t, given), Default) = n /\ Or(Cast(t, stored), Default) = n
      BY <2>1, <2>2, OrIs
    <2>4. Convert(t, n) = n
      BY <1>3, FitsStays DEF Readable
    <2>5. GetReads(given, Default)[t] = n
      BY <2>3, <2>4, ReadThroughCast
    <2>6. Reads(stored, Default)[t] = n /\ Field(t, stored, Default) = n
      BY <2>3, <2>4, ReadThroughCast
    <2>7. QED BY <2>5, <2>6
  <1>4. Reads(stored, Default)["float64"] = Convert("float64", n) /\ GetReads(given, Default)["float64"] = Convert("float64", n)
    BY <1>2, FloatsRead
  <1>5. QED BY <1>3, <1>4 DEF NumbersReadBack

LEMMA OthersAreDefault ==
  ASSUME ValueInv
  PROVE  OthersReadDefault
  <1> DEFINE n == IF IsText(given) THEN 0 ELSE Default
  <1> SUFFICES ASSUME ~ Numerical(given), NEW t \in Numeric
               PROVE  /\ Reads(stored, Default)[t] = n
                      /\ GetReads(given, Default)[t] = n
                      /\ Field(t, stored, Default) = n
    BY DEF OthersReadDefault
  <1>1. Storable(given) /\ stored = toBigType(given)
    BY DEF ValueInv
  <1>2. ~ Numerical(stored) /\ (IsText(stored) <=> IsText(given))
    BY <1>1, OnlyWidens DEF Numerical
  <1>3. ASSUME NEW v, ~ Numerical(v), IsText(v) <=> IsText(given)
        PROVE  Or(Cast(t, v), Default) = n
    <2>1. CASE IsText(v)
      <3>1. Cast(t, v) = <<0>>
        BY <1>3, <2>1, OthersCast
      <3>2. QED BY <1>3, <2>1, <3>1, OrIs
    <2>2. CASE ~ IsText(v)
      <3>1. Cast(t, v) = Nothing
        BY <1>3, <2>2, OthersCast
      <3>2. QED BY <1>3, <2>2, <3>1, OrIs
    <2>3. QED BY <2>1, <2>2
  <1>4. Or(Cast(t, given), Default) = n /\ Or(Cast(t, stored), Default) = n
    BY <1>2, <1>3
  <1>5. Convert(t, n) = n
    BY SmallFits
  <1> HIDE DEF n
  <1>6. GetReads(given, Default)[t] = n
    BY <1>4, <1>5, ReadThroughCast
  <1>7. Reads(stored, Default)[t] = n /\ Field(t, stored, Default) = n
    BY <1>4, <1>5, ReadThroughCast
  <1>8. QED BY <1>6, <1>7

-----------------------------------------------------------------------------
(* Readers of a slice.                                                     *)

LEMMA LenIs ==
  ASSUME NEW S, NEW k \in Nat, NEW f \in [1 .. k -> S]
  PROVE  Len(f) = k /\ DOMAIN f = 1 .. k
  OBVIOUS

\* One of the items for each of the slice's.
LEMMA AsLong ==
  ASSUME NEW v, Storable(v), NEW r, NEW t,
         r = Items(v) \/ r = EachOf(t, v) \/ r = [i \in DOMAIN v.items |-> Convert(t, Cast(t, v.items[i])[1])]
  PROVE  Len(r) = Len(Items(v))
  <1>1. PICK k \in Nat : v.items \in [1 .. k -> {v.items[i] : i \in 1 .. k}]
    BY DEF Storable
  <1>2. DOMAIN v.items = 1 .. k
    BY <1>1
  <1>3. \A g : DOMAIN g = 1 .. k /\ g = [i \in 1 .. k |-> g[i]] => Len(g) = k
    <2> SUFFICES ASSUME NEW g, g = [i \in 1 .. k |-> g[i]] PROVE Len(g) = k
      OBVIOUS
    <2>1. g \in [1 .. k -> {g[i] : i \in 1 .. k}]
      OBVIOUS
    <2>2. QED BY <2>1, LenIs
  <1>4. Items(v) = [i \in 1 .. k |-> Items(v)[i]]
    BY <1>2 DEF Items
  <1>5. r = [i \in 1 .. k |-> r[i]]
    BY <1>2 DEF Items, EachOf
  <1>6. QED BY <1>3, <1>4, <1>5

\* A slice stays as it is, and what is none becomes none.
LEMMA SlicesStay ==
  ASSUME ValueInv
  PROVE  /\ given.type = "slice" => stored = given
         /\ given.type # "slice" => stored.type # "slice"
  BY OnlyWidens DEF ValueInv, IsNumber, Numeric, Signed, Unsigned, Floats

\* What Configuration reads: the items, converted unless they are of the type.
LEMMA NumberSliceIs ==
  ASSUME NEW v, NEW def, NEW t
  PROVE  /\ NumberSlice(t, v, def) \in {def, Items(v), EachOf(t, v)}
         /\ v.type # "slice" => NumberSlice(t, v, def) = def
         /\ v.type = "slice" /\ v.of \in Numeric => NumberSlice(t, v, def) \in {Items(v), EachOf(t, v)}
  BY DEF NumberSlice, IsSlice

LEMMA GetSliceIs ==
  ASSUME NEW v, NEW def, NEW t \in Numeric
  PROVE  LET each == [i \in DOMAIN v.items |-> Convert(t, Cast(t, v.items[i])[1])]
         IN  /\ GetSlice(t, v, def) \in {def, Items(v), EachOf(t, v), each}
             /\ v.type # "slice" => GetSlice(t, v, def) = def
             /\ v.type = "slice" /\ v.of \in {t} \cup Wide(t) => GetSlice(t, v, def) \in {Items(v), EachOf(t, v)}
             /\ v.type = "slice" /\ v.of = "interface" /\ (\A i \in DOMAIN v.items : Cast(t, v.items[i]) # Nothing)
                  => GetSlice(t, v, def) = each
  BY DEF GetSlice, IsSlice, AllOf, IsList, Wide, Numeric, Signed, Unsigned, Floats

LEMMA ReadsOfSlices ==
  ASSUME NEW v, NEW def, NEW t \in Numeric
  PROVE  /\ SliceReads(v, def)[t] = NumberSlice(t, v, def)
         /\ GetSliceReads(v, def)[t] = GetSlice(t, v, def)
  <1>1. t \in {"int", "int8", "int16", "int32", "int64", "uint", "uint8", "uint16", "uint32", "uint64", "float32", "float64"}
    BY DEF Numeric, Signed, Unsigned, Floats
  <1>2. SliceReads(v, def)[t] = NumberSlice(t, v, def)
    BY <1>1 DEF SliceReads, IntSlice, Int8Slice, Int16Slice, Int32Slice, Int64Slice, UintSlice, Uint8Slice,
                Uint16Slice, Uint32Slice, Uint64Slice, Float32Slice, Float64Slice
  <1>3. GetSliceReads(v, def)[t] = GetSlice(t, v, def)
    BY <1>1 DEF GetSliceReads, GetIntSlice, GetInt8Slice, GetInt16Slice, GetInt32Slice, GetInt64Slice, GetUintSlice,
                GetUint8Slice, GetUint16Slice, GetUint32Slice, GetUint64Slice, GetFloat32Slice, GetFloat64Slice
  <1>4. QED BY <1>2, <1>3

LEMMA SlicesAreReadBack ==
  ASSUME ValueInv
  PROVE  SlicesReadBack
  <1> DEFINE def == <<>>
             ns == Items(given)
             fits(t) == \A i \in DOMAIN ns : Numerical(given.items[i]) /\ Readable(t, given.items[i])
             each(t) == [i \in DOMAIN given.items |-> Convert(t, Cast(t, given.items[i])[1])]
  <1>1. Storable(given) /\ DOMAIN ns = DOMAIN given.items
    BY DEF ValueInv, Items
  <1>2. ASSUME NEW t \in Numeric
        PROVE  /\ NumberSlice(t, stored, def) = def \/ Len(NumberSlice(t, stored, def)) = Len(ns)
               /\ GetSlice(t, given, def) = def \/ Len(GetSlice(t, given, def)) = Len(ns)
    <2>1. NumberSlice(t, stored, def) \in {def, Items(given), EachOf(t, given)}
      <3> HIDE DEF def
      <3>1. QED BY SlicesStay, NumberSliceIs
    <2>2. GetSlice(t, given, def) \in {def, Items(given), EachOf(t, given), each(t)}
      <3> HIDE DEF def
      <3>1. QED BY <1>2, GetSliceIs
    <2> HIDE DEF def
    <2>3. QED BY <1>1, <2>1, <2>2, AsLong
  <1>3. ASSUME NEW t \in Numeric, fits(t)
        PROVE  EachOf(t, given) = ns /\ each(t) = ns /\ \A i \in DOMAIN given.items : Cast(t, given.items[i]) # Nothing
    <2>1. \A i \in DOMAIN given.items : given.items[i].n \in Int
      BY <1>1 DEF Storable
    <2>2. \A i \in DOMAIN given.items : Cast(t, given.items[i]) = <<given.items[i].n>>
      BY <1>1, <1>3, <2>1, NumbersCast
    <2>3. \A i \in DOMAIN given.items : Convert(t, given.items[i].n) = given.items[i].n
      BY <1>1, <1>3, FitsStays DEF Readable
    <2>4. EachOf(t, given) = ns
      BY <2>3 DEF EachOf, Items
    <2>5. each(t) = ns
      BY <2>2, <2>3 DEF Items
    <2>6. QED BY <2>2, <2>4, <2>5 DEF Nothing
  <1>4. ASSUME NEW t \in Numeric, given.type = "slice", given.of \in Numeric, fits(t)
        PROVE  NumberSlice(t, stored, def) = ns
    BY <1>3, <1>4, SlicesStay, NumberSliceIs
  <1>5. ASSUME NEW t \in Numeric, given.type = "slice", given.of \in {t, "interface"} \cup Wide(t), fits(t)
        PROVE  GetSlice(t, given, def) = ns
    <2>1. CASE given.of \in {t} \cup Wide(t)
      BY <1>3, <1>5, <2>1, GetSliceIs
    <2>2. CASE given.of = "interface"
      BY <1>3, <1>5, <2>2, GetSliceIs
    <2>3. QED BY <1>5, <2>1, <2>2
  <1> HIDE DEF ns, def
  <1>6. QED BY <1>2, <1>4, <1>5, ReadsOfSlices DEF SlicesReadBack, ns, def

-----------------------------------------------------------------------------
(* Truth values, texts and bytes.                                          *)

LEMMA BothReadersAgree ==
  ASSUME ValueInv
  PROVE  ReadersAgree
  <1>1. Storable(given) /\ stored = toBigType(given)
    BY DEF ValueInv
  <1>2. stored.n = given.n /\ stored.items = given.items /\ (IsText(stored) <=> IsText(given))
        /\ (stored.type = "uint8" <=> given.type = "uint8") /\ (~ IsNumber(given) => stored = given)
    BY <1>1, OnlyWidens
  <1>3. (given.type = "slice" => stored = given) /\ (given.type # "slice" => stored.type # "slice")
    BY SlicesStay
  <1>4. given.type = "bool" => Bool(stored, FALSE) = GetBool(given, FALSE)
    <2> SUFFICES ASSUME given.type = "bool" PROVE Bool(stored, FALSE) = GetBool(given, FALSE)
      OBVIOUS
    <2>1. stored = given
      BY <1>2 DEF IsNumber, Numeric, Signed, Unsigned, Floats
    <2>2. QED BY <2>1 DEF Bool, GetBool
  <1>5. String(stored, Missing) = GetString(given, Missing)
    <2>1. IsText(given) => stored = given
      BY <1>2 DEF IsNumber, IsText, Texts, Numeric, Signed, Unsigned, Floats
    <2>2. QED BY <1>2, <2>1 DEF String, GetString
  <1>6. Byte(stored, Default) = GetByte(given, Default)
    BY <1>2 DEF Byte, GetByte
  <1>7. BoolSlice(stored, <<>>) = GetBoolSlice(given, <<>>)
    BY <1>3 DEF BoolSlice, GetBoolSlice, AllOf, IsList, IsSlice, IsTruth
  <1>8. StringSlice(stored, <<>>) = GetStringSlice(given, <<>>)
    <2>1. \A x : String(x, Missing) = GetString(x, Missing)
      BY DEF String, GetString
    <2>2. CASE given.type = "slice"
      BY <1>3, <2>1, <2>2 DEF StringSlice, GetStringSlice
    <2>3. CASE given.type # "slice"
      BY <1>3, <2>3 DEF StringSlice, GetStringSlice, AllOf, IsList, IsSlice
    <2>4. QED BY <2>2, <2>3
  <1>9. ByteSlice(stored, <<>>) = GetByteSlice(given, <<>>)
    BY <1>3 DEF ByteSlice, GetByteSlice, AllOf, IsList, IsSlice, IsByte
  <1>10. BytesSlice(stored, <<>>) = <<>> \/ Len(BytesSlice(stored, <<>>)) = Len(given.items)
    BY <1>2 DEF BytesSlice
  <1>11. QED BY <1>4, <1>5, <1>6, <1>7, <1>8, <1>9, <1>10 DEF ReadersAgree

-----------------------------------------------------------------------------
(* The invariant.                                                          *)

LEMMA BuiltIsStorable ==
  ASSUME NEW type, NEW n \in Int, NEW word, NEW of, NEW S, NEW k \in Nat, NEW items \in [1 .. k -> S],
         \A x \in S : x.n \in Int
  PROVE  Storable(Value(type, n, word, of, items))
  <1> DEFINE v == Value(type, n, word, of, items)
  <1>1. v.type = type /\ v.n = n /\ v.word = word /\ v.of = of /\ v.items = items
    BY DEF Value
  <1>2. items \in [1 .. k -> {items[i] : i \in 1 .. k}] /\ DOMAIN items = 1 .. k
    OBVIOUS
  <1>3. \A i \in DOMAIN items : items[i].n \in Int
    OBVIOUS
  <1> HIDE DEF v
  <1>4. v = Value(v.type, v.n, v.word, v.of, v.items)
    BY <1>1 DEF v
  <1>5. QED BY <1>1, <1>2, <1>3, <1>4 DEF Storable, v

\* A value without items.
LEMMA SingleIsStorable ==
  ASSUME NEW type, NEW n \in Int, NEW word, NEW of
  PROVE  Storable(Value(type, n, word, of, <<>>))
  <1>1. <<>> \in [1 .. 0 -> {}]
    OBVIOUS
  <1>2. QED BY <1>1, BuiltIsStorable

LEMMA SliceIsStorable ==
  ASSUME NEW of, NEW S, NEW k \in Nat, NEW items \in [1 .. k -> S], \A x \in S : x.n \in Int
  PROVE  Storable(Value("slice", 0, "other", of, items))
  <1> DEFINE type == "slice"
             n == 0
             word == "other"
  <1>1. n \in Int
    OBVIOUS
  <1> HIDE DEF type, n, word
  <1>2. Storable(Value(type, n, word, of, items))
    BY <1>1, BuiltIsStorable
  <1>3. QED BY <1>2 DEF type, n, word

\* Everything the program stores is a value that can be stored.
LEMMA StoredAreStorable ==
  ASSUME NEW v \in {Missing} \cup Singles \cup Slices
  PROVE  Storable(v)
  <1>1. ASSUME NEW t \in Numeric PROVE Fitting(t) \subseteq Int
    BY NumbersAssumption DEF Fitting
  <1>2. ASSUME NEW w \in {Missing} \cup Singles PROVE Storable(w)
    <2>1. CASE w = Missing
      BY <2>1, SingleIsStorable DEF Missing
    <2>2. CASE w \in {Truth(TRUE), Truth(FALSE)}
      BY <2>2, SingleIsStorable DEF Truth
    <2>3. ASSUME NEW t \in Numeric, NEW n \in Fitting(t), w = Num(t, n) PROVE Storable(w)
      BY <1>1, <2>3, SingleIsStorable DEF Num
    <2>4. ASSUME NEW t \in Texts, NEW n \in Numbers, w = Text(t, "number", n) PROVE Storable(w)
      BY <2>4, SingleIsStorable, NumbersAssumption DEF Text
    <2>5. ASSUME NEW word, w = Text("string", word, 0) PROVE Storable(w)
      BY <2>5, SingleIsStorable DEF Text
    <2> DEFINE nums == UNION {{Num(t, n) : n \in Fitting(t)} : t \in Numeric}
               texts == {Text(t, "number", n) : t \in Texts, n \in Numbers}
               words == {Text("string", word, 0) : word \in Words \ {"number"}}
    <2>6. CASE w \in nums
      <3>1. PICK t \in Numeric : w \in {Num(t, n) : n \in Fitting(t)}
        BY <2>6
      <3>2. QED BY <2>3, <3>1
    <2>7. CASE w \in texts
      BY <2>4, <2>7
    <2>8. CASE w \in words
      BY <2>5, <2>8
    <2>9. Singles = {Missing, Truth(TRUE), Truth(FALSE)} \cup nums \cup texts \cup words
      BY DEF Singles
    <2> HIDE DEF nums, texts, words
    <2>10. QED BY <1>2, <2>1, <2>2, <2>6, <2>7, <2>8, <2>9
  <1>3. ASSUME NEW w \in Slices PROVE Storable(w)
    <2>1. ASSUME NEW t \in Numeric, NEW ns \in SeqsOf(Fitting(t)), w = Slice(t, ns) PROVE Storable(w)
      <3>1. PICK k \in Nat : ns \in [1 .. k -> Fitting(t)]
        BY <2>1, NumbersAssumption DEF SeqsOf
      <3> DEFINE items == [i \in DOMAIN ns |-> Num(t, ns[i])]
                 S == {Num(t, n) : n \in Fitting(t)}
      <3>2. items \in [1 .. k -> S]
        BY <3>1
      <3>3. \A x \in S : x.n \in Int
        BY <1>1, <2>1 DEF Num, Value
      <3>4. w = Value("slice", 0, "other", t, items)
        BY <2>1 DEF Slice
      <3> HIDE DEF items, S
      <3>5. QED BY <3>1, <3>2, <3>3, <3>4, SliceIsStorable
    <2>2. ASSUME NEW type, NEW S, NEW items \in SeqsOf(S), \A x \in S : x.n \in Int,
                 w = Value("slice", 0, "other", type, items)
          PROVE  Storable(w)
      <3>1. PICK k \in Nat : items \in [1 .. k -> S]
        BY <2>2, NumbersAssumption DEF SeqsOf
      <3>2. QED BY <2>2, <3>1, SliceIsStorable
    <2>3. \A x \in Elements : x.n \in Int
      BY DEF Elements, Num, Text, Truth, Slice, Value
    <2>4. \A x \in {Truth(TRUE), Truth(FALSE)} : x.n \in Int
      BY DEF Truth, Value
    <2>5. \A x \in {Text("string", "other", 0)} : x.n \in Int
      BY DEF Text, Value
    <2>6. ASSUME NEW items \in SeqsOf(Elements), w = List(items) PROVE Storable(w)
      BY <2>2, <2>3, <2>6 DEF List
    <2>7. ASSUME NEW items \in SeqsOf({Truth(TRUE), Truth(FALSE)}), w = Value("slice", 0, "other", "bool", items)
          PROVE  Storable(w)
      BY <2>2, <2>4, <2>7
    <2>8. ASSUME NEW items \in SeqsOf({Text("string", "other", 0)}), w = Value("slice", 0, "other", "string", items)
          PROVE  Storable(w)
      BY <2>2, <2>5, <2>8
    <2>9. CASE w \in UNION {{Slice(t, ns) : ns \in SeqsOf(Fitting(t))} : t \in Numeric}
      <3>1. PICK t \in Numeric : w \in {Slice(t, ns) : ns \in SeqsOf(Fitting(t))}
        BY <2>9
      <3>2. QED BY <2>1, <3>1
    <2>10. QED BY <1>3, <2>6, <2>7, <2>8, <2>9 DEF Slices
  <1>4. QED BY <1>2, <1>3

LEMMA ValueInvHolds == Spec => []ValueInv
  <1>1. Init => ValueInv
    <2>1. toBigType(Missing) = Missing
      BY DEF toBigType, Missing, Value, Signed
    <2>2. Storable(Missing)
      BY StoredAreStorable
    <2>3. QED BY <2>1, <2>2 DEF Init, ValueInv
  <1>2. ValueInv /\ [Next]_vars => ValueInv'
    <2> SUFFICES ASSUME ValueInv, [Next]_vars PROVE ValueInv'
      OBVIOUS
    <2>1. CASE UNCHANGED vars
      BY <2>1 DEF ValueInv, vars
    <2>2. ASSUME NEW v \in Singles \cup Slices, Set(v) PROVE ValueInv'
      BY <2>2, StoredAreStorable DEF Set, ValueInv
    <2>3. QED BY <2>1, <2>2 DEF Next
  <1>3. QED BY <1>1, <1>2, PTL DEF Spec

\* Whatever the widths of the types, the precision of the floats and the value that
\* is stored, it reads back through every reader whose type has it, in a
\* Configuration, through a ValueGetter and into a struct, and rounded once through
\* Float64; what cannot be read gives the default, and a slice is never filled in
\* part (config.go:190-1230, util.go:85-205, 600-920).
THEOREM ValuesAlwaysReadBack == Spec => []ValuesReadBack
  <1>1. ValueInv => ValuesReadBack
    BY NumbersAreReadBack, OthersAreDefault, SlicesAreReadBack, BothReadersAgree DEF ValuesReadBack
  <1>2. QED BY <1>1, ValueInvHolds, PTL
=============================================================================
