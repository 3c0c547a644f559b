-------------------------- MODULE JsonAccess_proofs -------------------------
(* For any texts, numbers and buffers: the ways to read a value agree, a    *)
(* text is handed out whole or not at all, and what was put is what is      *)
(* read.                                                                    *)
EXTENDS JsonAccess, TLAPS

-----------------------------------------------------------------------------
(* Values *)

Types == {"null", "bool", "sint", "uint", "real", "str", "raw", "arr", "obj"}

\* A value without a format, by its type.
Plainly(val) ==
  \/ val.type = "null" /\ val.data = Empty /\ val.len = 0
  \/ val.type = "bool" /\ val.data \in {0, 1} /\ val.len = 0
  \/ val.type = "sint" /\ val.data \in Int64 /\ val.len = 0
  \/ val.type = "uint" /\ val.data \in Uint64 /\ val.len = 0
  \/ val.type = "real" /\ val.data \in Double \cup {NaN} /\ val.len = 0
  \/ val.type = "str" /\ val.data \in Text /\ val.len = TextLen[val.data]
  \/ val.type \in {"str", "raw"} /\ val.data = Input /\ \E u \in Text : val.len = TextLen[u]
  \/ val.type \in Containers /\ val.data = Empty /\ val.len \in {0, 2}

Record(val) ==
  val = [type |-> val.type, data |-> val.data, len |-> val.len, fixed |-> val.fixed, float |-> val.float]

LEMMA PlainValues ==
  ASSUME NEW val \in Values \cup Pointing(Input)
  PROVE  Record(val) /\ Plainly(val) /\ val.fixed = 0 /\ val.float = FALSE
<1>1. PICK type, data, len : val = Val(type, data, len) /\ Plainly(Val(type, data, len))
  <2>1. CASE val \in {Null, Bool(0), Bool(1)}
    BY <2>1 DEF Null, Bool, Plainly, Val
  <2>2. CASE val \in {Sint(n) : n \in Int64}
    BY <2>2 DEF Sint, Plainly, Val
  <2>3. CASE val \in {Uint(n) : n \in Uint64}
    BY <2>3 DEF Uint, Plainly, Val
  <2>4. CASE val \in {Real(d) : d \in Double \cup {NaN}}
    BY <2>4 DEF Real, Plainly, Val
  <2>5. CASE val \in {Str(t) : t \in Text}
    BY <2>5 DEF Str, Plainly, Val
  <2>6. CASE val \in {Val(c, Empty, n) : c \in Containers, n \in {0, 2}}
    <3>1. PICK c \in Containers, n \in {0, 2} : val = Val(c, Empty, n)
      BY <2>6
    <3>2. Plainly(Val(c, Empty, n))
      BY DEF Plainly, Val
    <3> QED BY <3>1, <3>2
  <2>7. CASE val \in Pointing(Input)
    <3>1. PICK type \in {"str", "raw"}, u \in Text : val = Val(type, Input, TextLen[u])
      BY <2>7 DEF Pointing
    <3>2. Plainly(Val(type, Input, TextLen[u]))
      BY DEF Plainly, Val
    <3> QED BY <3>1, <3>2
  <2> QED BY <2>1, <2>2, <2>3, <2>4, <2>5, <2>6, <2>7 DEF Values, Scalars
<1> QED BY <1>1 DEF Record, Val

LEMMA PlainlyBack ==
  ASSUME NEW type, NEW data, NEW len, Plainly(Val(type, data, len))
  PROVE  Val(type, data, len) \in Values \cup Pointing(Input)
<1> DEFINE val == Val(type, data, len)
<1>1. val.type = type /\ val.data = data /\ val.len = len
  BY DEF Val
<1>2. CASE type = "null" /\ data = Empty /\ len = 0
  BY <1>2 DEF Values, Scalars, Null
<1>3. CASE type = "bool" /\ data \in {0, 1} /\ len = 0
  BY <1>3 DEF Values, Scalars, Bool
<1>4. CASE type = "sint" /\ data \in Int64 /\ len = 0
  BY <1>4 DEF Values, Scalars, Sint
<1>5. CASE type = "uint" /\ data \in Uint64 /\ len = 0
  BY <1>5 DEF Values, Scalars, Uint
<1>6. CASE type = "real" /\ data \in Double \cup {NaN} /\ len = 0
  BY <1>6 DEF Values, Scalars, Real
<1>7. CASE type = "str" /\ data \in Text /\ len = TextLen[data]
  BY <1>7 DEF Values, Scalars, Str
<1>8. CASE type \in {"str", "raw"} /\ data = Input /\ \E u \in Text : len = TextLen[u]
  BY <1>8 DEF Pointing
<1>9. CASE type \in Containers /\ data = Empty /\ len \in {0, 2}
  BY <1>9 DEF Values
<1> QED BY <1>1, <1>2, <1>3, <1>4, <1>5, <1>6, <1>7, <1>8, <1>9 DEF Plainly

LEMMA FormattedIs ==
  ASSUME NEW S, NEW x
  PROVE  x \in Formatted(S) <=>
           \E s \in S, p \in 0 .. 7, f \in BOOLEAN : x = Format(s, p, f)
BY DEF Formatted

LEMMA FormatOf ==
  ASSUME NEW type, NEW data, NEW len, NEW p \in 0 .. 7, NEW f \in BOOLEAN
  PROVE  Format(Val(type, data, len), p, f) =
           [type |-> type, data |-> data, len |-> len, fixed |-> p, float |-> f]
<1>1. PICK r : r = Val(type, data, len)
  OBVIOUS
<1>2. r = [type |-> type, data |-> data, len |-> len, fixed |-> 0, float |-> FALSE]
  BY <1>1 DEF Val
<1>3. /\ r = [type |-> r.type, data |-> r.data, len |-> r.len, fixed |-> r.fixed, float |-> r.float]
      /\ r.type = type /\ r.data = data /\ r.len = len
  BY <1>2
<1>4. PICK x : x = Format(r, p, f)
  OBVIOUS
<1>5. x = [type |-> r.type, data |-> r.data, len |-> r.len, fixed |-> p, float |-> f]
  BY <1>3, <1>4 DEF Format
<1> QED BY ONLY <1>1, <1>3, <1>4, <1>5, Zenon

\* What it is to be Stored, by the fields of the value.
LEMMA StoredIs ==
  ASSUME NEW val
  PROVE  val \in Stored <=> /\ Record(val) /\ Plainly(val)
                            /\ val.fixed \in 0 .. 7 /\ val.float \in BOOLEAN
<1>1. ASSUME val \in Stored
      PROVE  Record(val) /\ Plainly(val) /\ val.fixed \in 0 .. 7 /\ val.float \in BOOLEAN
  <2>1. PICK s \in Values \cup Pointing(Input), prec \in 0 .. 7, flt \in BOOLEAN :
          val = Format(s, prec, flt)
    BY <1>1, FormattedIs DEF Stored
  <2>2. Record(s) /\ Plainly(s)
    BY PlainValues
  <2>3. val = [type |-> s.type, data |-> s.data, len |-> s.len, fixed |-> prec, float |-> flt]
    BY <2>1, <2>2 DEF Record, Format
  <2> QED BY <2>2, <2>3 DEF Record, Plainly
<1>2. ASSUME Record(val), Plainly(val), val.fixed \in 0 .. 7, val.float \in BOOLEAN
      PROVE  val \in Stored
  <2> DEFINE s == Val(val.type, val.data, val.len)
  <2>1. Plainly(s)
    BY <1>2 DEF Plainly, Val
  <2>2. s \in Values \cup Pointing(Input)
    BY <2>1, PlainlyBack
  <2>3. val = Format(s, val.fixed, val.float)
    <3>1. Format(s, val.fixed, val.float) =
            [type |-> val.type, data |-> val.data, len |-> val.len, fixed |-> val.fixed, float |-> val.float]
      BY <1>2, FormatOf
    <3> HIDE DEF s
    <3> QED BY <1>2, <3>1, Zenon DEF Record
  <2> HIDE DEF s
  <2> QED BY <1>2, <2>2, <2>3, FormattedIs DEF Stored
<1> QED BY <1>1, <1>2

LEMMA PlainStored ==
  ASSUME NEW val \in Values \cup Pointing(Input)
  PROVE  val \in Stored /\ val.fixed = 0 /\ val.float = FALSE
<1>1. Record(val) /\ Plainly(val) /\ val.fixed = 0 /\ val.float = FALSE
  BY PlainValues
<1>2. val.fixed \in 0 .. 7 /\ val.float \in BOOLEAN
  <2>1. val.fixed \in 0 .. 7
    BY <1>1
  <2>2. val.float \in BOOLEAN
    BY <1>1, Zenon
  <2> QED BY <2>1, <2>2
<1>3. val \in Stored
  BY <1>1, <1>2, StoredIs
<1> QED BY <1>1, <1>3

\* The JSON text of a value that is stored has a length.
LEMMA WrittenIs ==
  ASSUME NEW val \in Stored, input \in Text
  PROVE  /\ Meaning(val) \in Written
         /\ TextOf(val) \in Text \/ val.type \notin {"str", "raw"}
<1>1. /\ Record(val) /\ Plainly(val)
      /\ val.fixed \in 0 .. 7 /\ val.float \in BOOLEAN
  BY StoredIs
<1>2. CASE val.type \notin {"str", "raw"}
  <2>1. PICK s \in Values \cup Pointing(Input), prec \in 0 .. 7, flt \in BOOLEAN :
          val = Format(s, prec, flt)
    BY FormattedIs DEF Stored
  <2>2. Record(s) /\ val.type = s.type
    <3>1. Record(s)
      BY PlainValues
    <3> QED BY <2>1, <3>1 DEF Record, Format
  <2>3. s \in Values
    BY <1>2, <2>1, <2>2 DEF Pointing, Val
  <2>4. val \in Written
    BY <2>1, <2>3, FormattedIs DEF Written
  <2> QED BY <1>2, <2>4 DEF Meaning
<1>3. CASE val.type \in {"str", "raw"}
  <2>1. TextOf(val) \in Text /\ \E u \in Text : val.len = TextLen[u]
    BY <1>1, <1>3, AccessAssumption DEF Plainly, TextOf, Containers
  <2>2. PICK u \in Text : val.len = TextLen[u]
    BY <2>1
  <2> DEFINE s == Val(val.type, TextOf(val), TextLen[u])
  <2>3. s \in UNION {Pointing(t) : t \in Text}
    BY <1>3, <2>1 DEF Pointing
  <2>4. Meaning(val) = Format(s, val.fixed, val.float)
    <3>1. Meaning(val) = [val EXCEPT !.data = TextOf(val)]
      BY <1>3 DEF Meaning
    <3>2. PICK d : d = TextOf(val)
      OBVIOUS
    <3>3. [val EXCEPT !.data = d] =
            [type |-> val.type, data |-> d, len |-> val.len, fixed |-> val.fixed, float |-> val.float]
      BY <1>1 DEF Record
    <3>4. Format(s, val.fixed, val.float) =
            [type |-> val.type, data |-> d, len |-> val.len, fixed |-> val.fixed, float |-> val.float]
      BY <1>1, <2>2, <3>2, FormatOf
    <3> QED BY <3>1, <3>2, <3>3, <3>4
  <2> HIDE DEF s
  <2> QED BY <1>1, <2>1, <2>3, <2>4, FormattedIs DEF Written
<1> QED BY <1>2, <1>3

-----------------------------------------------------------------------------
(* Readings *)

LEMMA AnswerIs ==
  ASSUME NEW x
  PROVE  <<x>> # Refused /\ <<x>>[1] = x /\ \A y : <<x>> = <<y>> => x = y
BY DEF Refused

\* The types that every way takes.
Taken == [bool |-> {"bool"}, float |-> Numbers, int |-> IntTypes,
          int64 |-> {"sint"}, uint64 |-> {"uint"}, string |-> {"str"}]

LEMMA WaysAre ==
  /\ Get = Answers(Taken, TRUE)
  /\ \A at : /\ ObjectGet(at) = Answers(Taken, doc.within = "obj" /\ at = "member")
             /\ ArrayGet(at) = Answers(Taken, doc.within = "arr" /\ at = "member")
             /\ PtrGet(at) = Answers(Taken, at = "member")
             /\ PtrTryGet(at) = Answers(Taken, at = "member")
BY DEF Get, ObjectGet, ArrayGet, PtrGet, PtrTryGet, Resolves, Taken

LEMMA AnswersAre ==
  ASSUME NEW found
  PROVE  /\ found => Answers(Taken, found) = Answers(Taken, TRUE)
         /\ \A k \in Kinds :
              Answers(Taken, found)[k] =
                IF found /\ v.type \in Taken[k] THEN <<Datum(k, v)>> ELSE Refused
<1>1. ASSUME found
      PROVE  Answers(Taken, found) = Answers(Taken, TRUE)
  BY <1>1 DEF Answers
<1>2. ASSUME NEW k \in Kinds
      PROVE  Answers(Taken, found)[k] =
               IF found /\ v.type \in Taken[k] THEN <<Datum(k, v)>> ELSE Refused
  BY <1>2 DEF Answers
<1> QED BY <1>1, <1>2

LEMMA TakenIs ==
  /\ Taken["bool"] = {"bool"} /\ Taken["float"] = Numbers /\ Taken["int"] = IntTypes
  /\ Taken["int64"] = {"sint"} /\ Taken["uint64"] = {"uint"} /\ Taken["string"] = {"str"}
BY DEF Taken

\* What the handle of a value reads, kind by kind.
LEMMA GetIs ==
  /\ Get["bool"] = IF v.type = "bool" THEN <<v.data>> ELSE Refused
  /\ Get["float"] = IF v.type \in Numbers THEN <<Single(DoubleOf(v))>> ELSE Refused
  /\ Get["int"] = IF v.type \in IntTypes THEN <<Cell(v.data)>> ELSE Refused
  /\ Get["int64"] = IF v.type = "sint" THEN <<v.data>> ELSE Refused
  /\ Get["uint64"] = IF v.type = "uint" THEN <<v.data>> ELSE Refused
  /\ Get["string"] = IF v.type = "str" THEN <<TextOf(v)>> ELSE Refused
<1>1. \A k \in Kinds : Get[k] = IF v.type \in Taken[k] THEN <<Datum(k, v)>> ELSE Refused
  BY WaysAre, AnswersAre
<1>2. /\ Datum("bool", v) = v.data /\ Datum("float", v) = Single(DoubleOf(v))
      /\ Datum("int", v) = Cell(v.data) /\ Datum("int64", v) = v.data
      /\ Datum("uint64", v) = v.data /\ Datum("string", v) = TextOf(v)
  BY DEF Datum
<1> QED BY <1>1, <1>2, TakenIs DEF Kinds

\* A pointer that resolves reads what the handle reads; one that does not
\* refuses, and the same of an index and of a key.
LEMMA OtherWays ==
  /\ doc.within = "obj" => ObjectGet("member") = Get
  /\ doc.within = "arr" => ArrayGet("member") = Get
  /\ PtrGet("member") = Get /\ PtrTryGet("member") = Get
  /\ \A k \in Kinds : \A at : at # "member" =>
       /\ ObjectGet(at)[k] = Refused /\ ArrayGet(at)[k] = Refused
       /\ PtrGet(at)[k] = Refused /\ PtrTryGet(at)[k] = Refused
  /\ doc.within # "obj" => \A k \in Kinds : \A at : ObjectGet(at)[k] = Refused
  /\ doc.within # "arr" => \A k \in Kinds : \A at : ArrayGet(at)[k] = Refused
BY WaysAre, AnswersAre

\* A real is found again when it is looked for as the float it reads as.
LEMMA FoundAsFloat ==
  ASSUME NEW d \in Double
  PROVE  EqualsFloatingPoint(d, Single(d))
<1> DEFINE s == Single(d)
<1>1. /\ d \in Int /\ s \in Int /\ s \in Double
      /\ Abs(d - s) * RelTolerance <= Abs(d)
      /\ d # NaN /\ s # NaN /\ RelTolerance \in Nat
  BY AccessAssumption
<1> HIDE DEF s
<1>2. Abs(d) \in Int /\ Abs(s) \in Int /\ Abs(d - s) \in Int
  BY <1>1 DEF Abs
<1>3. Abs(d) <= Max(Abs(d), Abs(s)) /\ Max(Abs(d), Abs(s)) \in Int
  BY <1>2 DEF Max
<1>4. Abs(d - s) * RelTolerance \in Int
  BY <1>1, <1>2
<1>5. Abs(d - s) * RelTolerance <= Max(Abs(d), Abs(s))
  BY <1>1, <1>2, <1>3, <1>4
<1> USE DEF s
<1> QED BY <1>1, <1>5 DEF EqualsFloatingPoint

LEMMA IsAre ==
  /\ Is.IsInt = (v.type \in IntTypes) /\ Is.IsUint = (v.type = "uint")
  /\ Is.IsSint = (v.type = "sint") /\ Is.IsNum = (v.type \in Numbers)
  /\ Is.IsBool = (v.type = "bool") /\ Is.IsTrue = (v = Bool(1)) /\ Is.IsFalse = (v = Bool(0))
  /\ Is.IsFloat = (v.type = "real") /\ Is.IsStr = (v.type = "str") /\ Is.IsNull = (v.type = "null")
BY Zenon DEF Is

\* A truth value is the value that its type and its datum say.
LEMMA Truth ==
  ASSUME TypeOK, NEW b \in {0, 1}
  PROVE  v = Bool(b) <=> v.type = "bool" /\ v.data = b
<1>1. Record(v) /\ Plainly(v) /\ v.fixed \in 0 .. 7 /\ v.float \in BOOLEAN
  BY StoredIs DEF TypeOK
<1>2. ASSUME v.type = "bool" /\ v.data = b
      PROVE  v = Bool(b)
  <2>1. v.len = 0
    BY <1>1, <1>2 DEF Plainly, Containers
  <2>2. v.fixed = 0 /\ v.float = FALSE
    <3>1. ~(v.fixed > 0) /\ ~v.float
      BY <1>2 DEF TypeOK
    <3> QED BY <1>1, <3>1
  <2>3. Bool(b) = [type |-> "bool", data |-> b, len |-> 0, fixed |-> 0, float |-> FALSE]
    BY Zenon DEF Bool, Val
  <2> QED BY ONLY <1>1, <1>2, <2>1, <2>2, <2>3, Zenon DEF Record
<1>3. ASSUME v = Bool(b)
      PROVE  v.type = "bool" /\ v.data = b
  BY <1>3 DEF Bool, Val
<1> QED BY <1>2, <1>3

\* Whichever way a value is reached, and whatever its type, a reading takes it
\* or refuses it alike.
LEMMA TypedWaysAgree ==
  ASSUME TypeOK
  PROVE  WaysAgree
<1> USE AnswerIs, GetIs
<1>1. /\ doc.within = "obj" => ObjectGet("member") = Get
      /\ doc.within = "arr" => ArrayGet("member") = Get
      /\ PtrGet("member") = Get /\ PtrTryGet("member") = Get
  BY OtherWays
<1>2. \A k \in Kinds : /\ ObjectGet("none")[k] = Refused /\ ArrayGet("none")[k] = Refused
                       /\ PtrGet("none")[k] = Refused /\ PtrTryGet("none")[k] = Refused
  BY OtherWays
<1>3. /\ doc.within = "obj" => ObjectIsNull("member") = <<Is.IsNull>>
      /\ doc.within = "arr" => ArrayIsNull("member") = <<Is.IsNull>>
      /\ PtrGetIsNull("member") = <<Is.IsNull>>
  <2>1. doc.within = "obj" => ObjectIsNull("member") = <<v.type = "null">>
    BY DEF ObjectIsNull
  <2>2. doc.within = "arr" => ArrayIsNull("member") = <<v.type = "null">>
    <3>1. ASSUME doc.within = "arr"
          PROVE  (doc.within = "arr" /\ "member" = "member" /\ v.type = "null") = (v.type = "null")
      BY <3>1
    <3> QED BY <3>1, Zenon DEF ArrayIsNull
  <2>3. PtrGetIsNull("member") = <<v.type = "null">>
    BY DEF PtrGetIsNull, Resolves
  <2> QED BY ONLY <2>1, <2>2, <2>3, IsAre, Zenon
<1>4. /\ Is.IsBool <=> Get["bool"] # Refused
      /\ Is.IsNum <=> Get["float"] # Refused
      /\ Is.IsInt <=> Get["int"] # Refused
      /\ Is.IsSint <=> Get["int64"] # Refused
      /\ Is.IsUint <=> Get["uint64"] # Refused
      /\ Is.IsInt <=> Get["int64"] # Refused \/ Get["uint64"] # Refused
      /\ Is.IsStr <=> Get["string"] # Refused
  <2>1. /\ v.type = "bool" <=> Get["bool"] # Refused
        /\ v.type \in Numbers <=> Get["float"] # Refused
        /\ v.type \in IntTypes <=> Get["int"] # Refused
        /\ v.type = "sint" <=> Get["int64"] # Refused
        /\ v.type = "uint" <=> Get["uint64"] # Refused
        /\ v.type = "str" <=> Get["string"] # Refused
    OBVIOUS
  <2>2. v.type \in IntTypes <=> Get["int64"] # Refused \/ Get["uint64"] # Refused
    BY <2>1 DEF IntTypes
  <2> QED BY ONLY <2>1, <2>2, IsAre, Zenon
<1>5. /\ Is.IsTrue <=> Get["bool"] = <<1>>
      /\ Is.IsFalse <=> Get["bool"] = <<0>>
  <2>1. \A b \in {0, 1} : Get["bool"] = <<b>> <=> v.type = "bool" /\ v.data = b
    OBVIOUS
  <2>2. \A b \in {0, 1} : v = Bool(b) <=> Get["bool"] = <<b>>
    BY <2>1, Truth
  <2>3. (v = Bool(1) <=> Get["bool"] = <<1>>) /\ (v = Bool(0) <=> Get["bool"] = <<0>>)
    BY <2>2
  <2> QED BY ONLY <2>3, IsAre, Zenon
<1>6. InStep => \A t \in Text : EqualsStr(t) <=> Get["string"] = <<t>>
  BY DEF InStep, EqualsStr
<1>7. ASSUME doc.within = "arr"
      PROVE  /\ \A b \in {0, 1} : ArrayIndexOfBool(b) = 0 <=> Get["bool"] = <<b>>
             /\ \A t \in Text : ArrayIndexOfString(t) = 0 <=> Get["string"] = <<t>>
             /\ Is.IsFloat /\ v.data # NaN => ArrayIndexOfDouble(Get["float"][1]) = 0
  <2>1. \A b \in {0, 1} : ArrayIndexOfBool(b) = 0 <=> Get["bool"] = <<b>>
    BY <1>7 DEF ArrayIndexOfBool, IndexIf
  <2>2. \A t \in Text : ArrayIndexOfString(t) = 0 <=> Get["string"] = <<t>>
    BY <1>7 DEF ArrayIndexOfString, IndexIf
  <2>3. ASSUME v.type = "real", v.data # NaN
        PROVE  ArrayIndexOfDouble(Get["float"][1]) = 0
    <3>1. v.data \in Double
      <4>1. Plainly(v)
        BY StoredIs DEF TypeOK
      <4> QED BY <2>3, <4>1 DEF Plainly, Containers
    <3>2. Get["float"][1] = Single(v.data)
      BY <2>3 DEF Numbers, DoubleOf
    <3>3. EqualsFloatingPoint(v.data, Single(v.data))
      BY <3>1, FoundAsFloat
    <3> QED BY <1>7, <2>3, <3>2, <3>3 DEF ArrayIndexOfDouble, IndexIf
  <2> QED BY <2>1, <2>2, <2>3, IsAre
<1> QED BY <1>1, <1>2, <1>3, <1>4, <1>5, <1>6, <1>7 DEF WaysAgree

-----------------------------------------------------------------------------
(* What a call tells *)

LEMMA CallTells ==
  ASSUME NEW call, NEW o, Call(call, o), call.name # "none"
  PROVE  /\ ret = Idle /\ ret.call.name = "none"
         /\ ret'.call = call /\ ret'.result = o.result /\ ret'.value = o.value /\ ret'.wrote = o.wrote
BY DEF Call, Idle

LEMMA OutcomeIs ==
  /\ \A r, x, w : /\ Outcome(r, x, w).result = r
                  /\ Outcome(r, x, w).value = x
                  /\ Outcome(r, x, w).wrote = w
  /\ Threw.result = "threw" /\ Threw.wrote = Empty
  /\ Zero.result = "zero" /\ Zero.wrote = Empty
BY DEF Outcome, Threw, Zero

-----------------------------------------------------------------------------
(* The invariant *)

\* The size the plugin knows is that of the value as it is now.
SizeIsRight ==
  /\ asked.of = "json" => asked.size = GetSerializedSize(asked.flag)
  /\ asked.of = "length" => asked.size = PtrGetLength

Kept == {"none", "null", "bool", "int", "float", "string", "int64", "uint64"}

\* A string that is read as it was put is not in the plugin's array, so the
\* plugin may go on and use its array.
GivenIsRead ==
  /\ given.kind \in Kept
  /\ \/ given.kind = "none"
     \/ given.kind = "string" /\ ~doc.mutable
     \/ given.pair
     \/ Reads(given) /\ (given.kind = "string" => v.data # Input)

\* The document, the array and what the plugin knows; not the call.
Sound ==
  /\ doc = [mutable |-> doc.mutable, within |-> doc.within, val |-> v]
  /\ doc.mutable \in BOOLEAN /\ doc.within \in {"arr", "obj", "root"}
  /\ v \in Stored
  /\ v.fixed > 0 \/ v.float => v.type = "real"
  /\ v.type = "raw" => doc.mutable /\ doc.within = "root"
  /\ input \in Text
  /\ asked.of \in {"none", "json", "length"} /\ asked.flag \in Flag /\ asked.size \in Nat

Answered == ret.result \in {"none", "ok", "threw", "zero"}

IInv == Sound /\ SizeIsRight /\ GivenIsRead /\ Answered /\ WholeOrNothing

LEMMA Shown ==
  ASSUME IInv
  PROVE  TypeOK /\ PutIsRead /\ WholeOrNothing
BY DEF IInv, Sound, GivenIsRead, Answered, TypeOK, PutIsRead

\* The facts about a state hold in the next one.
LEMMA GetIsNext ==
  (/\ Get["bool"] = IF v.type = "bool" THEN <<v.data>> ELSE Refused
   /\ Get["float"] = IF v.type \in Numbers THEN <<Single(DoubleOf(v))>> ELSE Refused
   /\ Get["int"] = IF v.type \in IntTypes THEN <<Cell(v.data)>> ELSE Refused
   /\ Get["int64"] = IF v.type = "sint" THEN <<v.data>> ELSE Refused
   /\ Get["uint64"] = IF v.type = "uint" THEN <<v.data>> ELSE Refused
   /\ Get["string"] = IF v.type = "str" THEN <<TextOf(v)>> ELSE Refused)'
BY GetIs, PTL

\* A native that only looks leaves all but the call as it was.
LEMMA LookingKeeps ==
  ASSUME Sound, SizeIsRight, GivenIsRead, ReadOnly
  PROVE  Sound' /\ SizeIsRight' /\ GivenIsRead'
<1>1. doc' = doc /\ input' = input /\ asked' = asked /\ given' = given
  BY DEF ReadOnly
<1>2. Sound'
  BY <1>1 DEF Sound, v
<1>3. SizeIsRight'
  BY <1>1 DEF SizeIsRight, GetSerializedSize, PtrGetLength, Size, Meaning, TextOf, v
<1>4. GivenIsRead'
  BY <1>1 DEF GivenIsRead, Reads, Get, Is, Answers, Datum, TextOf, v
<1> QED BY <1>2, <1>3, <1>4

-----------------------------------------------------------------------------
(* What is handed out *)

ReadNames  == {"get", "obj_get", "arr_get", "ptr_get", "ptr_try_get"}
WriteNames == {"write_to_str", "write_to_str_direct", "write_number"}

\* A call that hands out no text.
LEMMA QuietIsWhole ==
  ASSUME ret'.call.name \notin ReadNames \cup WriteNames, ret'.wrote = Empty
  PROVE  WholeOrNothing'
BY DEF WholeOrNothing, ReadsString, WritesJson, ReadNames, WriteNames

\* The length in a value's tag, and the length of its JSON text.
LEMMA Lengths ==
  ASSUME Sound
  PROVE  /\ v.len \in Nat
         /\ v.type = "str" => TextOf(v) \in Text /\ TextLen[TextOf(v)] \in Nat
         /\ \A flag \in Flag : Size(flag) \in Nat
<1>1. v \in Stored /\ input \in Text
  BY DEF Sound
<1>2. Plainly(v)
  BY <1>1, StoredIs
<1>3. v.len \in Nat
  BY <1>2, AccessAssumption DEF Plainly
<1>4. v.type = "str" => TextOf(v) \in Text
  BY <1>1, WrittenIs
<1>5. v.type = "str" => TextLen[TextOf(v)] \in Nat
  BY <1>4, AccessAssumption
<1>6. Meaning(v) \in Written
  BY <1>1, WrittenIs
<1>7. \A flag \in Flag : Size(flag) \in Nat
  BY <1>6, AccessAssumption DEF Size
<1> QED BY <1>3, <1>4, <1>5, <1>7

\* What a native that reads gives: an answer that is not there, or a string
\* that the buffer is too small for, fails.
LEMMA DeliverIs ==
  ASSUME Sound, NEW found, NEW r \in Readings, NEW failed \in {Threw, Zero}, NEW o,
         o = Deliver(Answers(Taken, found), r.kind, r.room, failed)
  PROVE  /\ o.result \in {"ok", "threw", "zero"}
         /\ o.result # "ok" => o.wrote = Empty
         /\ r.kind = "string" =>
              /\ o.result = "ok" <=> found /\ v.type = "str" /\ v.len + 1 <= r.room
              /\ o.result = "ok" =>
                   o.wrote = Copied(<<"string", TextOf(v)>>, TextLen[TextOf(v)], r.room)
<1>1. /\ failed.result \in {"threw", "zero"} /\ failed.wrote = Empty
  BY OutcomeIs
<1>2. r.kind \in {"bool", "float", "int", "int64", "string"} /\ r.room \in Nat
  BY AccessAssumption DEF Readings
<1>3. CASE r.kind = "string"
  <2>1. Answers(Taken, found)["string"] # Refused <=> found /\ v.type = "str"
    <3>1. Answers(Taken, found)["string"] =
            IF found /\ v.type \in Taken["string"] THEN <<Datum("string", v)>> ELSE Refused
      BY AnswersAre DEF Kinds
    <3> QED BY <3>1, AnswerIs, TakenIs
  <2>2. v.len \in Nat
    BY Lengths
  <2>3. CASE found /\ v.type = "str" /\ v.len + 1 <= r.room
    <3> DEFINE c == Copied(<<"string", TextOf(v)>>, TextLen[TextOf(v)], r.room)
    <3>1. o = IF Answers(Taken, found)["string"] = Refused \/ v.len + 1 > r.room THEN failed
              ELSE Outcome("ok", 1, c)
      BY <1>3 DEF Deliver
    <3> HIDE DEF c
    <3>2. o = Outcome("ok", 1, c)
      <4>1. Answers(Taken, found)["string"] # Refused
        BY ONLY <2>1, <2>3, Zenon
      <4>2. ~(v.len + 1 > r.room)
        BY <1>2, <2>2, <2>3
      <4> QED BY ONLY <3>1, <4>1, <4>2, Zenon
    <3>3. o.result = "ok" /\ o.wrote = c
      BY <3>2, OutcomeIs
    <3> USE DEF c
    <3> QED BY <1>3, <2>3, <3>3
  <2>4. CASE ~(found /\ v.type = "str" /\ v.len + 1 <= r.room)
    <3>1. o = failed
      BY <1>2, <1>3, <2>1, <2>2, <2>4 DEF Deliver
    <3> QED BY <1>1, <1>3, <2>4, <3>1
  <2> QED BY <2>3, <2>4
<1>4. CASE r.kind # "string"
  <2>1. o = failed \/ \E x, w : o = Outcome("ok", x, w)
    BY <1>4 DEF Deliver
  <2> QED BY <1>1, <1>4, <2>1, OutcomeIs
<1> QED BY <1>3, <1>4

\* The ways that a native reaches the member, and those it does not.
Reaches(name, at) ==
  CASE name = "obj_get" -> doc.within = "obj" /\ at = "member"
    [] name = "arr_get" -> doc.within = "arr" /\ at = "member"
    [] OTHER            -> at = "member"

LEMMA ReadIsWhole ==
  ASSUME Sound, SizeIsRight, ReadOnly,
         NEW name \in ReadNames, NEW at, NEW r \in Readings, NEW failed \in {Threw, Zero},
         Call(Read(name, at, r),
              Deliver(Answers(Taken, Reaches(name, at)), r.kind, r.room, failed))
  PROVE  Answered' /\ WholeOrNothing'
<1> DEFINE found == Reaches(name, at)
           o == Deliver(Answers(Taken, found), r.kind, r.room, failed)
           call == Read(name, at, r)
<1>1. call.name = name /\ call.at = at /\ call.kind = r.kind /\ call.room = r.room
  BY DEF Read
<1>2. call.name # "none"
  BY <1>1 DEF ReadNames
<1>3. /\ ret'.call = call
      /\ ret'.result = o.result /\ ret'.wrote = o.wrote
  BY <1>2, CallTells
<1>4. /\ o.result \in {"ok", "threw", "zero"}
      /\ o.result # "ok" => o.wrote = Empty
      /\ r.kind = "string" =>
           /\ o.result = "ok" <=> found /\ v.type = "str" /\ v.len + 1 <= r.room
           /\ o.result = "ok" =>
                o.wrote = Copied(<<"string", TextOf(v)>>, TextLen[TextOf(v)], r.room)
  BY DeliverIs
<1>5. /\ v.len \in Nat /\ r.room \in Nat
      /\ v.type = "str" => TextLen[TextOf(v)] \in Nat
  BY Lengths, AccessAssumption DEF Readings
<1> HIDE DEF o, call
<1>6. doc' = doc /\ input' = input /\ asked' = asked /\ v' = v /\ TextOf(v)' = TextOf(v)
  BY DEF ReadOnly, v, TextOf
<1>7. ret'.result \in {"threw", "zero"} => ret'.wrote = Empty
  BY <1>3, <1>4
<1>8. ASSUME r.kind = "string", o.result = "ok", InStep'
      PROVE  ret'.wrote = [what |-> <<"string", TextOf(v)>>, chars |-> TextLen[TextOf(v)]]
  <2>1. v.type = "str" /\ v.len + 1 <= r.room /\ v.len = TextLen[TextOf(v)]
    BY <1>4, <1>6, <1>8 DEF InStep
  <2>2. Min(TextLen[TextOf(v)], r.room - 1) = TextLen[TextOf(v)]
    BY <1>5, <2>1 DEF Min
  <2> QED BY <1>3, <1>4, <1>8, <2>2 DEF Copied
<1>9. ASSUME r.kind = "string", asked.of = "length", v.type = "str", (PtrGet(at) = Get)'
      PROVE  \/ ret'.result = "ok" <=> r.room >= asked.size
             \/ name = "obj_get" /\ doc.within # "obj"
             \/ name = "arr_get" /\ doc.within # "arr"
  <2>1. at = "member"
    <3>1. PtrGet(at)' = PtrGet(at) /\ Get' = Get
      BY <1>6 DEF PtrGet, Get, Answers, Datum, Resolves, TextOf
    <3>2. Get["string"] # Refused
      BY <1>9, GetIs, AnswerIs
    <3>3. at # "member" => PtrGet(at)["string"] = Refused
      BY OtherWays DEF Kinds
    <3> QED BY <1>9, <3>1, <3>2, <3>3
  <2>2. asked.size = v.len + 1
    BY <1>9 DEF SizeIsRight, PtrGetLength
  <2>3. \/ found
        \/ name = "obj_get" /\ doc.within # "obj"
        \/ name = "arr_get" /\ doc.within # "arr"
    BY <2>1 DEF Reaches
  <2> QED BY <1>3, <1>4, <1>5, <1>9, <2>2, <2>3
<1>10. ret'.call.name = name /\ ret'.call.kind = r.kind /\ ret'.call.at = at /\ ret'.call.room = r.room
  BY <1>1, <1>3
<1>11. name \notin WriteNames
  BY DEF ReadNames, WriteNames
<1>12. WholeOrNothing'
  BY <1>3, <1>6, <1>7, <1>8, <1>9, <1>10, <1>11
     DEF WholeOrNothing, ReadsString, WritesJson, ReadNames, WriteNames
<1> QED BY <1>3, <1>4, <1>12 DEF Answered

\* A call that hands out JSON text: all of it, of the size it was asked for.
LEMMA WriteIsWhole ==
  ASSUME Sound, SizeIsRight, ReadOnly,
         NEW name \in WriteNames, NEW flag \in Flag, NEW room \in Nat, NEW o,
         Call(Write(name, flag, room), o),
         o.result \in {"ok", "threw"},
         o.result # "ok" =>
           o.wrote \in IF name = "write_to_str_direct" THEN {Empty, Torn} ELSE {Empty},
         o.result = "ok" => o.wrote = [what |-> JsonText(flag), chars |-> Size(flag)],
         name = "write_to_str" =>
           /\ o.result = "ok" <=> Size(flag) # 0 /\ Size(flag) + 1 <= room
           /\ o.result = "ok" => o.value = Size(flag) + 1
  PROVE  Answered' /\ WholeOrNothing'
<1> DEFINE call == Write(name, flag, room)
<1>1. call.name = name /\ call.flag = flag /\ call.room = room
  BY DEF Write
<1>2. call.name # "none"
  BY <1>1 DEF WriteNames
<1>3. /\ ret'.call = call
      /\ ret'.result = o.result /\ ret'.wrote = o.wrote /\ ret'.value = o.value
  BY <1>2, CallTells
<1> HIDE DEF call
<1>4. /\ doc' = doc /\ input' = input /\ asked' = asked /\ v' = v
      /\ \A f : Size(f)' = Size(f) /\ JsonText(f)' = JsonText(f)
  <2>1. doc' = doc /\ input' = input /\ asked' = asked
    BY DEF ReadOnly
  <2>2. v' = v
    BY <2>1 DEF v
  <2>3. Meaning(v)' = Meaning(v)
    BY <2>1 DEF Meaning, TextOf, v
  <2> QED BY <2>1, <2>2, <2>3 DEF Size, JsonText
<1>5. Size(flag) \in Nat
  BY Lengths
<1>6. ASSUME name = "write_to_str", asked.of = "json", flag = asked.flag
      PROVE  IF room >= asked.size /\ asked.size > 0
             THEN o.result = "ok" /\ o.value = asked.size
             ELSE o.result = "threw"
  <2>1. asked.size = IF Size(flag) = 0 THEN 0 ELSE Size(flag) + 1
    BY <1>6 DEF SizeIsRight, GetSerializedSize
  <2> QED BY <1>5, <1>6, <2>1
<1>7. ret'.call.name = name /\ ret'.call.flag = flag /\ ret'.call.room = room
  BY <1>1, <1>3
<1>8. name \notin ReadNames
  BY DEF ReadNames, WriteNames
<1>9. WholeOrNothing'
  <2>1. ret'.result \in {"threw", "zero"} =>
          ret'.wrote \in IF ret'.call.name = "write_to_str_direct" THEN {Empty, Torn} ELSE {Empty}
    BY <1>3, <1>7
  <2>2. ret'.result = "ok" => ret'.wrote = [what |-> JsonText(flag)', chars |-> Size(flag)']
    BY <1>3, <1>4
  <2>3. ~ReadsString'
    BY <1>7, <1>8 DEF ReadsString, ReadNames
  <2>4. ret'.call.name = "write_to_str" /\ asked'.of = "json" /\ ret'.call.flag = asked'.flag =>
          IF ret'.call.room >= asked'.size /\ asked'.size > 0
          THEN ret'.result = "ok" /\ ret'.value = asked'.size
          ELSE ret'.result = "threw"
    BY <1>3, <1>4, <1>6, <1>7
  <2> QED BY <1>7, <2>1, <2>2, <2>3, <2>4 DEF WholeOrNothing, Torn
<1> QED BY <1>3, <1>9 DEF Answered

LEMMA WriteToStr ==
  ASSUME Sound, SizeIsRight, json_doc_write_to_str
  PROVE  ReadOnly /\ Answered' /\ WholeOrNothing'
<1>1. PICK flag \in Flag, room \in 0 .. MaxRoom :
        /\ Call(Write("write_to_str", flag, room),
                IF room = 0 \/ WriteToStringPtr(flag) = Refused \/ WriteToStringPtr(flag)[1] > room
                THEN Threw
                ELSE Outcome("ok", WriteToStringPtr(flag)[1],
                             Copied(JsonText(flag), Size(flag), room)))
        /\ ReadOnly
  BY DEF json_doc_write_to_str
<1>2. Size(flag) \in Nat /\ room \in Nat
  BY Lengths, AccessAssumption
<1>3. CASE Size(flag) # 0 /\ Size(flag) + 1 <= room
  <2> DEFINE o == Outcome("ok", Size(flag) + 1, Copied(JsonText(flag), Size(flag), room))
  <2>1. WriteToStringPtr(flag) # Refused /\ WriteToStringPtr(flag)[1] = Size(flag) + 1
    BY <1>3, AnswerIs DEF WriteToStringPtr
  <2>2. Call(Write("write_to_str", flag, room), o)
    BY <1>1, <1>2, <1>3, <2>1
  <2>3. o.result = "ok" /\ o.value = Size(flag) + 1
        /\ o.wrote = Copied(JsonText(flag), Size(flag), room)
    BY OutcomeIs
  <2>4. Min(Size(flag), room - 1) = Size(flag)
    BY <1>2, <1>3 DEF Min
  <2>5. o.wrote = [what |-> JsonText(flag), chars |-> Size(flag)]
    BY <2>3, <2>4 DEF Copied
  <2> HIDE DEF o
  <2> QED BY <1>1, <1>2, <1>3, <2>2, <2>3, <2>5, WriteIsWhole DEF WriteNames
<1>4. CASE ~(Size(flag) # 0 /\ Size(flag) + 1 <= room)
  <2>1. WriteToStringPtr(flag) = Refused \/ WriteToStringPtr(flag)[1] > room \/ room = 0
    BY <1>2, <1>4, AnswerIs DEF WriteToStringPtr
  <2>2. Call(Write("write_to_str", flag, room), Threw)
    BY <1>1, <2>1
  <2> QED BY <1>1, <1>2, <1>4, <2>2, OutcomeIs, WriteIsWhole DEF WriteNames
<1> QED BY <1>3, <1>4

LEMMA WriteToStrDirect ==
  ASSUME Sound, SizeIsRight, json_doc_write_to_str_direct
  PROVE  ReadOnly /\ Answered' /\ WholeOrNothing'
<1>0. PICK flag \in Flag, room \in 0 .. MaxRoom :
        /\ \E o \in WriteToString(flag, room) : Call(Write("write_to_str_direct", flag, room), o)
        /\ ReadOnly
  BY DEF json_doc_write_to_str_direct
<1>1. PICK o \in WriteToString(flag, room) :
        Call(Write("write_to_str_direct", flag, room), o) /\ ReadOnly
  BY <1>0
<1>2. room \in Nat
  BY AccessAssumption
<1>3. \/ o = Threw \/ o = Outcome("threw", Empty, Torn)
      \/ o = Outcome("ok", Size(flag) + 1, [what |-> JsonText(flag), chars |-> Size(flag)])
  BY DEF WriteToString
<1>4. /\ o.result \in {"ok", "threw"}
      /\ o.result # "ok" => o.wrote \in {Empty, Torn}
      /\ o.result = "ok" => o.wrote = [what |-> JsonText(flag), chars |-> Size(flag)]
  BY <1>3, OutcomeIs
<1> QED BY <1>1, <1>2, <1>4, WriteIsWhole DEF WriteNames

LEMMA WriteANumber ==
  ASSUME Sound, SizeIsRight, json_write_number
  PROVE  ReadOnly /\ Answered' /\ WholeOrNothing'
<1>1. PICK room \in 0 .. MaxRoom :
        /\ Call(Write("write_number", InfNan, room),
                IF \/ room < (IF Is.IsFloat THEN RealRoom ELSE IntRoom)
                   \/ WriteNumber(room) = Refused
                THEN Threw
                ELSE Outcome("ok", WriteNumber(room)[1],
                             Copied(JsonText(InfNan), WriteNumber(room)[1], room)))
        /\ ReadOnly
  BY DEF json_write_number
<1>2. InfNan \in Flag /\ Size(InfNan) \in Nat /\ room \in Nat
  BY Lengths, AccessAssumption
<1>3. PICK o :
        /\ Call(Write("write_number", InfNan, room), o)
        /\ \/ o = Threw
           \/ /\ WriteNumber(room) # Refused
              /\ o = Outcome("ok", WriteNumber(room)[1],
                             Copied(JsonText(InfNan), WriteNumber(room)[1], room))
  BY <1>1
<1>4. ASSUME o # Threw
      PROVE  /\ o.result = "ok"
             /\ o.wrote = [what |-> JsonText(InfNan), chars |-> Size(InfNan)]
  <2>1. WriteNumber(room)[1] = Size(InfNan) /\ Size(InfNan) < room
    BY <1>2, <1>3, <1>4, AnswerIs DEF WriteNumber
  <2>2. Min(Size(InfNan), room - 1) = Size(InfNan)
    BY <1>2, <2>1 DEF Min
  <2>3. o = Outcome("ok", Size(InfNan), Copied(JsonText(InfNan), Size(InfNan), room))
    BY <1>3, <1>4, <2>1
  <2>4. o.result = "ok" /\ o.wrote = Copied(JsonText(InfNan), Size(InfNan), room)
    BY <2>3, OutcomeIs
  <2> QED BY <2>2, <2>4 DEF Copied
<1>5. /\ o.result \in {"ok", "threw"}
      /\ o.result # "ok" => o.wrote = Empty
      /\ o.result = "ok" => o.wrote = [what |-> JsonText(InfNan), chars |-> Size(InfNan)]
  BY <1>4, OutcomeIs
<1> QED BY <1>1, <1>2, <1>3, <1>5, WriteIsWhole DEF WriteNames

-----------------------------------------------------------------------------
(* What is put *)

\* The calls that hand out no text.
LEMMA QuietCall ==
  ASSUME NEW call, NEW o, Call(call, o),
         call.name \notin ReadNames \cup WriteNames \cup {"none"},
         o.result \in {"ok", "threw", "zero"}, o.wrote = Empty
  PROVE  Answered' /\ WholeOrNothing'
<1>1. /\ ret'.call = call /\ ret'.result = o.result /\ ret'.wrote = o.wrote
  BY CallTells
<1>2. WholeOrNothing'
  BY <1>1, QuietIsWhole
<1> QED BY <1>1, <1>2 DEF Answered

Quietly(name) == name \notin ReadNames \cup WriteNames \cup {"none"}

LEMMA LookingHolds ==
  ASSUME IInv, NEW call, NEW o, Call(call, o), Quietly(call.name),
         o.result \in {"ok", "threw", "zero"}, o.wrote = Empty, ReadOnly
  PROVE  IInv'
BY LookingKeeps, QuietCall DEF IInv, Quietly

LEMMA FailHolds ==
  ASSUME IInv, NEW name, Quietly(name), NEW o \in {Threw, Zero}, Fail(name, o)
  PROVE  IInv'
<1> DEFINE call == [name |-> name]
<1>1. call.name = name
  OBVIOUS
<1>2. Call(call, o) /\ ReadOnly
  BY DEF Fail
<1> HIDE DEF call
<1> QED BY <1>1, <1>2, OutcomeIs, LookingHolds

\* What a plugin puts, by its kind.
LEMMA DataIs ==
  ASSUME NEW g \in Data, ~IsBad(g)
  PROVE  \/ g.kind = "null" /\ g.datum = Empty
         \/ g.kind = "bool" /\ g.datum \in {0, 1}
         \/ g.kind = "int" /\ g.datum \in Int64 /\ g.datum = Cell(g.datum)
         \/ g.kind = "float" /\ \E d \in Double \cup {NaN} : g.datum = Single(d)
         \/ g.kind = "string" /\ g.datum = input
         \/ g.kind = "int64" /\ g.datum \in Int64
         \/ g.kind = "uint64" /\ g.datum \in Uint64
BY DEF Data, Datum64, IsBad

\* A float is put and read as a float: cutting it again changes nothing.
LEMMA SingleIsStable ==
  ASSUME NEW d \in Double \cup {NaN}
  PROVE  Single(d) \in Double \cup {NaN} /\ Single(Single(d)) = Single(d)
BY AccessAssumption

LEMMA MadeIs ==
  ASSUME NEW g \in Data, ~IsBad(g), input \in Text
  PROVE  /\ Made(g) \in Values
         /\ Made(g).type # "raw"
         /\ g.kind \in Kept
         /\ g.kind = "null" => Made(g).type = "null"
         /\ g.kind = "bool" => Made(g).type = "bool" /\ Made(g).data = g.datum
         /\ g.kind = "int" =>
              Made(g).type = "sint" /\ Made(g).data = g.datum /\ Cell(g.datum) = g.datum
         /\ g.kind = "int64" => Made(g).type = "sint" /\ Made(g).data = g.datum
         /\ g.kind = "uint64" => Made(g).type = "uint" /\ Made(g).data = g.datum
         /\ g.kind = "float" =>
              Made(g).type = "real" /\ Made(g).data = g.datum /\ Single(g.datum) = g.datum
         /\ g.kind = "string" =>
              Made(g).type = "str" /\ Made(g).data = input /\ input = g.datum
<1>1. CASE g.kind = "null" /\ g.datum = Empty
  <2>1. Made(g) = Null
    BY <1>1 DEF Made
  <2> QED BY <1>1, <2>1 DEF Values, Scalars, Null, Val, Kept
<1>2. CASE g.kind = "bool" /\ g.datum \in {0, 1}
  <2>1. Made(g) = Bool(g.datum)
    BY <1>2 DEF Made
  <2>2. Made(g) \in Values
    BY <1>2, <2>1 DEF Values, Scalars
  <2>3. Made(g).type = "bool" /\ Made(g).data = g.datum
    BY <2>1 DEF Bool, Val
  <2> QED BY <1>2, <2>2, <2>3 DEF Kept
<1>3. CASE g.kind \in {"int", "int64"} /\ g.datum \in Int64 /\ (g.kind = "int" => Cell(g.datum) = g.datum)
  <2>1. Made(g) = Sint(g.datum)
    BY <1>3 DEF Made
  <2>2. Made(g) \in Values
    BY <1>3, <2>1 DEF Values, Scalars
  <2>3. Made(g).type = "sint" /\ Made(g).data = g.datum
    BY <2>1 DEF Sint, Val
  <2> QED BY <1>3, <2>2, <2>3 DEF Kept
<1>4. CASE g.kind = "uint64" /\ g.datum \in Uint64
  <2>1. Made(g) = Uint(g.datum)
    BY <1>4 DEF Made
  <2>2. Made(g) \in Values
    BY <1>4, <2>1 DEF Values, Scalars
  <2>3. Made(g).type = "uint" /\ Made(g).data = g.datum
    BY <2>1 DEF Uint, Val
  <2> QED BY <1>4, <2>2, <2>3 DEF Kept
<1>5. CASE g.kind = "float" /\ \E d \in Double \cup {NaN} : g.datum = Single(d)
  <2>1. Made(g) = Real(g.datum)
    BY <1>5 DEF Made
  <2>2. g.datum \in Double \cup {NaN} /\ Single(g.datum) = g.datum
    BY <1>5, SingleIsStable
  <2>3. Made(g) \in Values
    BY <2>1, <2>2 DEF Values, Scalars
  <2>4. Made(g).type = "real" /\ Made(g).data = g.datum
    BY <2>1 DEF Real, Val
  <2> QED BY <1>5, <2>2, <2>3, <2>4 DEF Kept
<1>6. CASE g.kind = "string" /\ g.datum = input
  <2>1. Made(g) = Str(input)
    BY <1>6 DEF Made
  <2>2. Made(g) \in Values
    BY <2>1 DEF Values, Scalars
  <2>3. Made(g).type = "str" /\ Made(g).data = input
    BY <2>1 DEF Str, Val
  <2> QED BY <1>6, <2>2, <2>3 DEF Kept
<1> QED BY <1>1, <1>2, <1>3, <1>4, <1>5, <1>6, DataIs

LEMMA IsNullNext == (Is.IsNull = (v.type = "null"))'
BY IsAre, PTL

\* What was made of a datum reads as that datum.
LEMMA MadeReads ==
  ASSUME NEW g \in Data, ~IsBad(g), input \in Text, input' = input,
         v' = Made(g), given'.kind = g.kind, given'.datum = g.datum
  PROVE  /\ Reads(given)' /\ given'.kind \in Kept
         /\ given'.kind = "string" => v'.data # Input
<1> USE MadeIs, GetIsNext
<1>1. CASE g.kind = "null"
  <2>1. v'.type = "null"
    BY <1>1
  <2>2. Is'.IsNull
    BY <2>1, IsNullNext
  <2> QED BY <1>1, <2>2 DEF Reads
<1>2. CASE g.kind = "bool"
  BY <1>2 DEF Reads
<1>3. CASE g.kind = "int"
  BY <1>3 DEF Reads, IntTypes
<1>4. CASE g.kind = "int64"
  BY <1>4 DEF Reads
<1>5. CASE g.kind = "uint64"
  BY <1>5 DEF Reads
<1>6. CASE g.kind = "float"
  BY <1>6 DEF Reads, Numbers, DoubleOf
<1>7. CASE g.kind = "string"
  <2>1. v'.type = "str" /\ v'.data = input /\ v'.data # Input /\ input = g.datum
    BY <1>7, AccessAssumption
  <2>2. TextOf(v)' = g.datum
    BY <2>1 DEF TextOf
  <2> QED BY <1>7, <2>1, <2>2 DEF Reads
<1> QED BY <1>1, <1>2, <1>3, <1>4, <1>5, <1>6, <1>7, DataIs

\* What may be put in the place of a value: it is read as it was given, unless
\* the document borrows it.
Puts(name, g, mutable, val) ==
  \/ g.kind = "none"
  \/ g.kind \in Kept /\ name = "obj_init_with_str"
  \/ g.kind = "string" /\ ~mutable
  \/ g \in Data /\ ~IsBad(g) /\ val = Made(g)

LEMMA PutHolds ==
  ASSUME IInv, NEW name, Quietly(name), NEW g, NEW mutable \in BOOLEAN,
         NEW within \in {"arr", "obj", "root"}, NEW val \in Values \cup Pointing(Input),
         val.type # "raw", Puts(name, g, mutable, val),
         Put(name, g, [mutable |-> mutable, within |-> within, val |-> val])
  PROVE  IInv'
<1>1. /\ Call([name |-> name], Outcome("ok", 1, Empty))
      /\ doc' = [mutable |-> mutable, within |-> within, val |-> val]
      /\ asked' = NotAsked
      /\ given' = [kind |-> g.kind, datum |-> g.datum, pair |-> name = "obj_init_with_str"]
      /\ input' = input /\ input \in Text
  BY DEF Put, IInv, Sound
<1>2. v' = val /\ doc'.mutable = mutable /\ doc'.within = within
  BY <1>1 DEF v
<1>3. Sound'
  <2>1. val \in Stored /\ val.fixed = 0 /\ val.float = FALSE
    BY PlainStored
  <2>2. ~(val.fixed > 0) /\ ~val.float
    BY <2>1
  <2>3. asked'.of = "none" /\ asked'.flag \in Flag /\ asked'.size \in Nat
    BY <1>1, AccessAssumption DEF NotAsked
  <2> QED BY <1>1, <1>2, <2>1, <2>2, <2>3 DEF Sound
<1>4. SizeIsRight'
  BY <1>1 DEF SizeIsRight, NotAsked
<1>5. GivenIsRead'
  <2>1. given'.kind = g.kind /\ given'.datum = g.datum
        /\ given'.pair = (name = "obj_init_with_str")
    BY <1>1, Zenon
  <2>2. CASE g.kind = "none"
    BY <2>1, <2>2 DEF GivenIsRead, Kept
  <2>3. CASE g.kind \in Kept /\ name = "obj_init_with_str"
    BY <2>1, <2>3 DEF GivenIsRead
  <2>4. CASE g.kind = "string" /\ ~mutable
    BY <1>2, <2>1, <2>4 DEF GivenIsRead, Kept
  <2>5. CASE g \in Data /\ ~IsBad(g) /\ val = Made(g)
    BY <1>1, <1>2, <2>1, <2>5, MadeReads DEF GivenIsRead
  <2> QED BY <2>2, <2>3, <2>4, <2>5 DEF Puts
<1>6. Answered' /\ WholeOrNothing'
  <2> DEFINE call == [name |-> name]
             o == Outcome("ok", 1, Empty)
  <2>1. call.name = name /\ o.result = "ok" /\ o.wrote = Empty /\ Call(call, o)
    BY <1>1, OutcomeIs
  <2> HIDE DEF call, o
  <2> QED BY <2>1, QuietCall DEF Quietly
<1> QED BY <1>3, <1>4, <1>5, <1>6 DEF IInv

\* A new value in the place of the value.
LEMMA ReplaceHolds ==
  ASSUME IInv, NEW name, Quietly(name), NEW g, NEW val \in Values \cup Pointing(Input),
         val.type # "raw", Puts(name, g, doc.mutable, val),
         Put(name, g, [doc EXCEPT !.val = val])
  PROVE  IInv'
<1>1. doc = [mutable |-> doc.mutable, within |-> doc.within, val |-> v]
  BY DEF IInv, Sound
<1>2. [doc EXCEPT !.val = val] = [mutable |-> doc.mutable, within |-> doc.within, val |-> val]
  BY <1>1
<1>3. doc.mutable \in BOOLEAN /\ doc.within \in {"arr", "obj", "root"}
  BY DEF IInv, Sound
<1> QED BY <1>2, <1>3, PutHolds

LEMMA ReplacedHolds ==
  ASSUME IInv, NEW name, Quietly(name), NEW g \in Data, ~IsBad(g), Put(name, g, Replaced(g))
  PROVE  IInv'
<1>1. Made(g) \in Values /\ Made(g).type # "raw"
  BY MadeIs DEF IInv, Sound
<1>2. PICK val : val = Made(g)
  OBVIOUS
<1>3. Put(name, g, [doc EXCEPT !.val = val]) /\ Puts(name, g, doc.mutable, val)
  BY <1>2 DEF Replaced, Puts
<1> QED BY <1>1, <1>2, <1>3, ReplaceHolds

LEMMA QuietNames ==
  /\ Quietly("create") /\ Quietly("arr_init_with") /\ Quietly("obj_init_with_str")
  /\ Quietly("set_scalar") /\ Quietly("set_string") /\ Quietly("obj_set")
  /\ Quietly("arr_replace") /\ Quietly("ptr_set") /\ Quietly("set_fp_to_float")
  /\ Quietly("set_fp_to_fixed") /\ Quietly("read_number") /\ Quietly("equals_str")
  /\ Quietly("index_of_bool") /\ Quietly("index_of_str") /\ Quietly("index_of_float")
  /\ Quietly("get_serialized_size") /\ Quietly("ptr_get_length")
  /\ Quietly("obj_is_null") /\ Quietly("arr_is_null") /\ Quietly("ptr_is_null")
BY DEF Quietly, ReadNames, WriteNames

LEMMA CreateHolds ==
  ASSUME IInv, json_create
  PROVE  IInv'
<1>1. PICK g \in Data :
        IF IsBad(g) THEN Fail("create", Zero) ELSE Put("create", g, NewRoot(Made(g)))
  BY DEF json_create
<1>2. CASE IsBad(g)
  BY <1>1, <1>2, QuietNames, FailHolds
<1>3. CASE ~IsBad(g)
  <2>1. Made(g) \in Values /\ Made(g).type # "raw"
    BY <1>3, MadeIs DEF IInv, Sound
  <2>2. PICK val : val = Made(g)
    OBVIOUS
  <2>3. Put("create", g, [mutable |-> TRUE, within |-> "root", val |-> val])
        /\ Puts("create", g, TRUE, val)
    BY <1>1, <1>3, <2>2 DEF NewRoot, Puts
  <2> QED BY <2>1, <2>2, <2>3, QuietNames, PutHolds
<1> QED BY <1>2, <1>3

LEMMA ArrInitHolds ==
  ASSUME IInv, json_arr_init_with
  PROVE  IInv'
<1> DEFINE name == "arr_init_with"
<1>1. PICK size \in -1 .. 1, g \in Data :
        IF size < 0 \/ (size = 1 /\ IsBad(g)) THEN Fail(name, Zero)
        ELSE IF size = 0 THEN Put(name, NotGiven, NewRoot(Val("arr", Empty, 0)))
        ELSE Put(name, g, [mutable |-> TRUE, within |-> "arr", val |-> Made(g)])
  BY DEF json_arr_init_with
<1>2. CASE size < 0 \/ (size = 1 /\ IsBad(g))
  BY <1>1, <1>2, QuietNames, FailHolds
<1>3. CASE size = 0
  <2>1. PICK val : val = Val("arr", Empty, 0)
    OBVIOUS
  <2>2. val \in Values /\ val.type # "raw"
    BY <2>1 DEF Values, Containers, Val
  <2>3. PICK none : none = NotGiven
    OBVIOUS
  <2>4. Put(name, none, [mutable |-> TRUE, within |-> "root", val |-> val])
        /\ Puts(name, none, TRUE, val)
    BY <1>1, <1>3, <2>1, <2>3 DEF NewRoot, Puts, NotGiven
  <2> QED BY <2>2, <2>4, QuietNames, PutHolds
<1>4. CASE size = 1 /\ ~IsBad(g)
  <2>1. Made(g) \in Values /\ Made(g).type # "raw"
    BY <1>4, MadeIs DEF IInv, Sound
  <2>2. PICK val : val = Made(g)
    OBVIOUS
  <2>3. Put(name, g, [mutable |-> TRUE, within |-> "arr", val |-> val])
        /\ Puts(name, g, TRUE, val)
    BY <1>1, <1>4, <2>2 DEF Puts
  <2> QED BY <2>1, <2>2, <2>3, QuietNames, PutHolds
<1> QED BY <1>2, <1>3, <1>4

LEMMA BorrowedIs ==
  ASSUME NEW text \in Text
  PROVE  Borrowed(text) \in Pointing(Input) /\ Borrowed(text).type # "raw"
<1>1. PICK x : x = Borrowed(text)
  OBVIOUS
<1>2. x = Val("str", Input, TextLen[text])
  BY <1>1 DEF Borrowed
<1>3. x \in Pointing(Input)
  BY <1>2 DEF Pointing
<1>4. x.type = "str"
  BY <1>2 DEF Val
<1> QED BY <1>1, <1>3, <1>4

LEMMA ObjInitHolds ==
  ASSUME IInv, json_obj_init_with_str
  PROVE  IInv'
<1> DEFINE name == "obj_init_with_str"
<1>1. PICK g : g = [kind |-> "string", datum |-> input]
  OBVIOUS
<1>2. Fail(name, Zero) \/ Put(name, g, ObjectInitWithStrings(input))
  BY <1>1 DEF json_obj_init_with_str
<1>3. input \in Text
  BY DEF IInv, Sound
<1>4. CASE Fail(name, Zero)
  BY <1>4, QuietNames, FailHolds
<1>5. CASE Put(name, g, ObjectInitWithStrings(input))
  <2>1. PICK val : val = Borrowed(input)
    OBVIOUS
  <2>2. Put(name, g, [mutable |-> TRUE, within |-> "obj", val |-> val])
        /\ Puts(name, g, TRUE, val)
    BY <1>1, <1>5, <2>1 DEF ObjectInitWithStrings, Puts, Kept
  <2>3. val \in Pointing(Input) /\ val.type # "raw"
    BY <1>3, <2>1, BorrowedIs
  <2> QED BY <2>2, <2>3, QuietNames, PutHolds
<1> QED BY <1>2, <1>4, <1>5

LEMMA SetScalarHolds ==
  ASSUME IInv, json_set_scalar
  PROVE  IInv'
<1> DEFINE name == "set_scalar"
<1>1. PICK g \in Data :
        IF IsBad(g) THEN Fail(name, Threw) ELSE SetInPlace(name, g, Made(g))
  BY DEF json_set_scalar
<1>2. CASE Fail(name, Threw)
  BY <1>2, QuietNames, FailHolds
<1>3. CASE ~IsBad(g) /\ Put(name, g, [doc EXCEPT !.val = Made(g)])
  BY <1>3, QuietNames, ReplacedHolds DEF Replaced
<1> QED BY <1>1, <1>2, <1>3 DEF SetInPlace

LEMMA SetStringHolds ==
  ASSUME IInv, json_set_string
  PROVE  IInv'
<1> DEFINE name == "set_string"
<1>1. PICK g : g = [kind |-> "string", datum |-> input]
  OBVIOUS
<1>2. PICK val : val = SetString(input)
  OBVIOUS
<1>3. Fail(name, Threw) \/ Put(name, g, [doc EXCEPT !.val = val])
  BY <1>1, <1>2 DEF json_set_string, SetInPlace
<1>4. input \in Text
  BY DEF IInv, Sound
<1>5. CASE Fail(name, Threw)
  BY <1>5, QuietNames, FailHolds
<1>6. CASE Put(name, g, [doc EXCEPT !.val = val]) /\ doc.mutable
  <2>1. g \in Data /\ ~IsBad(g)
    BY <1>1, <1>4, AccessAssumption DEF Data, IsBad
  <2>2. val = Made(g)
    BY <1>1, <1>2, <1>6 DEF SetString, Made
  <2>3. val = Str(input)
    BY <1>2, <1>6 DEF SetString
  <2>4. val \in Values /\ val.type # "raw"
    <3>1. val \in Values
      BY <1>4, <2>3 DEF Values, Scalars
    <3>2. val.type = "str"
      BY <2>3 DEF Str, Val
    <3> QED BY <3>1, <3>2
  <2>5. Puts(name, g, doc.mutable, val)
    BY <2>1, <2>2 DEF Puts
  <2> QED BY <1>6, <2>4, <2>5, QuietNames, ReplaceHolds
<1>7. CASE Put(name, g, [doc EXCEPT !.val = val]) /\ ~doc.mutable
  <2>1. val = Borrowed(input)
    BY <1>2, <1>7 DEF SetString
  <2>2. val \in Pointing(Input) /\ val.type # "raw"
    BY <1>4, <2>1, BorrowedIs
  <2>3. Puts(name, g, doc.mutable, val)
    BY <1>1, <1>7 DEF Puts
  <2> QED BY <1>7, <2>2, <2>3, QuietNames, ReplaceHolds
<1> QED BY <1>3, <1>5, <1>6, <1>7

LEMMA ObjSetHolds ==
  ASSUME IInv, json_obj_set
  PROVE  IInv'
<1> DEFINE name == "obj_set"
<1>1. PICK g \in Data : \/ Fail(name, Threw) \/ Fail(name, Zero)
                        \/ ~IsBad(g) /\ Put(name, g, Replaced(g))
  BY DEF json_obj_set
<1> QED BY <1>1, QuietNames, FailHolds, ReplacedHolds

LEMMA ArrReplaceHolds ==
  ASSUME IInv, json_arr_replace
  PROVE  IInv'
<1> DEFINE name == "arr_replace"
<1>1. PICK g \in Data : \/ Fail(name, Threw) \/ Fail(name, Zero)
                        \/ ~IsBad(g) /\ Put(name, g, Replaced(g))
  BY DEF json_arr_replace
<1> QED BY <1>1, QuietNames, FailHolds, ReplacedHolds

LEMMA PtrSetHolds ==
  ASSUME IInv, json_ptr_set
  PROVE  IInv'
<1> DEFINE name == "ptr_set"
<1>1. PICK g \in Data : \/ Fail(name, Threw)
                        \/ ~IsBad(g) /\ Put(name, g, Replaced(g))
  BY DEF json_ptr_set
<1> QED BY <1>1, QuietNames, FailHolds, ReplacedHolds

\* The same datum reads the same, whatever its format and the plugin's array:
\* but a string in that array.
LEMMA SameReads ==
  ASSUME GivenIsRead, given' = given, doc'.mutable = doc.mutable,
         v'.type = v.type, v'.data = v.data, input' = input \/ given.kind # "string" \/ v.data # Input
  PROVE  GivenIsRead'
<1> USE GetIs, GetIsNext
<1>1. Is.IsNull' = Is.IsNull
  BY IsAre, IsNullNext
<1>2. /\ Get["bool"]' = Get["bool"] /\ Get["int"]' = Get["int"]
      /\ Get["int64"]' = Get["int64"] /\ Get["uint64"]' = Get["uint64"]
  OBVIOUS
<1>3. Get["float"]' = Get["float"]
  BY DEF DoubleOf
<1>4. given.kind = "string" => Get["string"]' = Get["string"]
  BY DEF TextOf
<1>5. given.kind \in Kept \ {"none"} => Reads(given)' = Reads(given)
  <2>1. CASE given.kind = "null"
    BY <1>1, <2>1, Zenon DEF Reads
  <2>2. CASE given.kind \in Kept \ {"none", "null"}
    BY <1>2, <1>3, <1>4, <2>2 DEF Reads, Kept
  <2> QED BY <2>1, <2>2
<1> QED BY <1>5 DEF GivenIsRead

\* A real keeps what it is when it gets another format.
LEMMA SetFormatHolds ==
  ASSUME IInv, NEW name, Quietly(name), NEW fixed \in 0 .. 7, NEW float \in BOOLEAN,
         NEW val, NEW valid,
         valid /\ v.type = "real" =>
           val = [type |-> v.type, data |-> v.data, len |-> v.len, fixed |-> fixed, float |-> float],
         SetFormat(name, val, valid)
  PROVE  IInv'
<1>1. CASE ~(valid /\ v.type = "real")
  <2>1. Fail(name, Threw)
    BY <1>1 DEF SetFormat
  <2> QED BY <2>1, FailHolds
<1>2. CASE valid /\ v.type = "real"
  <2>1. /\ Call([name |-> name], Outcome("ok", 1, Empty))
        /\ doc' = [doc EXCEPT !.val = val]
        /\ asked' = NotAsked /\ input' = input /\ given' = given
    BY <1>2 DEF SetFormat
  <2>2. /\ doc = [mutable |-> doc.mutable, within |-> doc.within, val |-> v]
        /\ doc.mutable \in BOOLEAN /\ doc.within \in {"arr", "obj", "root"}
        /\ v \in Stored /\ input \in Text
    BY DEF IInv, Sound
  <2>3. doc' = [mutable |-> doc.mutable, within |-> doc.within, val |-> val]
    BY <2>1, <2>2
  <2>4. v' = val /\ doc'.mutable = doc.mutable /\ doc'.within = doc.within
    BY <2>3 DEF v
  <2>5. /\ val.type = "real" /\ val.data = v.data /\ val.len = v.len
        /\ val.fixed = fixed /\ val.float = float
    BY <1>2
  <2>6. val \in Stored
    <3>1. Plainly(v)
      BY <2>2, StoredIs
    <3>2. Plainly(val)
      BY <1>2, <2>5, <3>1 DEF Plainly, Containers
    <3>3. Record(val)
      BY <1>2 DEF Record
    <3> QED BY <2>5, <3>2, <3>3, StoredIs
  <2>7. Sound'
    <3>1. asked'.of = "none" /\ asked'.flag \in Flag /\ asked'.size \in Nat
      BY <2>1, AccessAssumption DEF NotAsked
    <3> QED BY <2>1, <2>2, <2>3, <2>4, <2>5, <2>6, <3>1 DEF Sound
  <2>8. SizeIsRight'
    BY <2>1 DEF SizeIsRight, NotAsked
  <2>9. GivenIsRead'
    BY <1>2, <2>1, <2>4, <2>5, SameReads DEF IInv
  <2>10. Answered' /\ WholeOrNothing'
    <3> DEFINE call == [name |-> name]
               o == Outcome("ok", 1, Empty)
    <3>1. call.name = name /\ o.result = "ok" /\ o.wrote = Empty /\ Call(call, o)
      BY <2>1, OutcomeIs
    <3> HIDE DEF call, o
    <3> QED BY <3>1, QuietCall DEF Quietly
  <2> QED BY <2>7, <2>8, <2>9, <2>10 DEF IInv
<1> QED BY <1>1, <1>2

LEMMA FormatHolds ==
  ASSUME IInv, json_set_fp_to_float \/ json_set_fp_to_fixed
  PROVE  IInv'
<1>1. Record(v) /\ v.fixed \in 0 .. 7 /\ v.float \in BOOLEAN
  BY StoredIs DEF IInv, Sound
<1>2. CASE json_set_fp_to_float
  <2>1. PICK flt \in BOOLEAN : SetFormat("set_fp_to_float", [v EXCEPT !.float = flt], TRUE)
    BY <1>2 DEF json_set_fp_to_float
  <2>2. [v EXCEPT !.float = flt] =
          [type |-> v.type, data |-> v.data, len |-> v.len, fixed |-> v.fixed, float |-> flt]
    BY <1>1 DEF Record
  <2> QED BY <1>1, <2>1, <2>2, QuietNames, SetFormatHolds
<1>3. CASE json_set_fp_to_fixed
  <2>1. PICK prec \in {0, 7, 8} :
          SetFormat("set_fp_to_fixed", [v EXCEPT !.fixed = prec], prec \in 1 .. 7)
    BY <1>3 DEF json_set_fp_to_fixed
  <2>2. [v EXCEPT !.fixed = prec] =
          [type |-> v.type, data |-> v.data, len |-> v.len, fixed |-> prec, float |-> v.float]
    BY <1>1 DEF Record
  <2>3. CASE prec \in 0 .. 7
    BY <1>1, <2>1, <2>2, <2>3, QuietNames, SetFormatHolds
  <2>4. CASE prec = 8
    <3>1. ~(prec \in 1 .. 7)
      BY <2>4
    <3>2. Fail("set_fp_to_fixed", Threw)
      BY <2>1, <3>1 DEF SetFormat
    <3> QED BY <3>2, QuietNames, FailHolds
  <2> QED BY <2>3, <2>4
<1> QED BY <1>2, <1>3

LEMMA ReadNumberHolds ==
  ASSUME IInv, json_read_number
  PROVE  IInv'
<1>1. PICK raw \in BOOLEAN :
        IF ReadNumber(raw) = Refused THEN Fail("read_number", Zero)
        ELSE /\ Call([name |-> "read_number"], Outcome("ok", TextLen[input], Empty))
             /\ doc' = ReadNumber(raw)[1]
             /\ asked' = NotAsked /\ given' = NotGiven /\ UNCHANGED input
  BY DEF json_read_number
<1>2. CASE ReadNumber(raw) = Refused
  BY <1>1, <1>2, QuietNames, FailHolds
<1>3. CASE ReadNumber(raw) # Refused
  <2>1. input \in Text /\ input' = input
    BY <1>1, <1>3 DEF IInv, Sound
  <2>2. PICK val : val = IF raw THEN Val("raw", Input, TextLen[input]) ELSE NumberIn[input]
    OBVIOUS
  <2>3. NumberIn[input] # NotANumber /\ ReadNumber(raw) = <<NewRoot(val)>>
    BY <1>3, <2>2 DEF ReadNumber
  <2>4. doc' = [mutable |-> TRUE, within |-> "root", val |-> val]
    BY <1>1, <1>3, <2>3 DEF NewRoot
  <2>5. val \in Values \cup Pointing(Input)
    <3>1. CASE raw
      BY <2>1, <2>2, <3>1 DEF Pointing
    <3>2. CASE ~raw
      BY <2>1, <2>2, <2>3, <3>2, AccessAssumption DEF Values
    <3> QED BY <3>1, <3>2
  <2>6. val \in Stored /\ ~(val.fixed > 0) /\ ~val.float
    <3>1. val \in Stored /\ val.fixed = 0 /\ val.float = FALSE
      BY <2>5, PlainStored
    <3> QED BY <3>1
  <2>7. v' = val /\ doc'.mutable = TRUE /\ doc'.within = "root"
    BY <2>4 DEF v
  <2>8. asked'.of = "none" /\ asked'.flag \in Flag /\ asked'.size \in Nat
    BY <1>1, <1>3, AccessAssumption DEF NotAsked
  <2>9. Sound'
    BY <2>1, <2>4, <2>6, <2>7, <2>8 DEF Sound
  <2>10. SizeIsRight' /\ GivenIsRead'
    BY <1>1, <1>3 DEF SizeIsRight, NotAsked, GivenIsRead, NotGiven, Kept
  <2>11. Answered' /\ WholeOrNothing'
    <3> DEFINE call == [name |-> "read_number"]
               o == Outcome("ok", TextLen[input], Empty)
    <3>1. call.name = "read_number" /\ o.result = "ok" /\ o.wrote = Empty /\ Call(call, o)
      BY <1>1, <1>3, OutcomeIs
    <3> HIDE DEF call, o
    <3> QED BY <3>1, QuietNames, QuietCall DEF Quietly
  <2> QED BY <2>9, <2>10, <2>11 DEF IInv
<1> QED BY <1>2, <1>3

\* The plugin asks for a size.
LEMMA AskHolds ==
  ASSUME IInv, NEW name, Quietly(name), NEW size \in Nat, NEW of, NEW flag \in Flag,
         \/ of = "json" /\ size = GetSerializedSize(flag)
         \/ of = "length" /\ size = PtrGetLength,
         Call([name |-> name], Outcome("ok", size, Empty)),
         asked' = [of |-> of, flag |-> flag, size |-> size],
         UNCHANGED <<doc, input, given>>
  PROVE  IInv'
<1>1. doc' = doc /\ input' = input /\ given' = given /\ v' = v
  BY DEF v
<1>2. asked'.of = of /\ asked'.flag = flag /\ asked'.size = size
  OBVIOUS
<1>3. Sound'
  BY <1>1, <1>2 DEF IInv, Sound
<1>4. SizeIsRight'
  <2>1. PtrGetLength' = PtrGetLength /\ GetSerializedSize(flag)' = GetSerializedSize(flag)
    BY <1>1 DEF PtrGetLength, GetSerializedSize, Size, Meaning, TextOf
  <2> QED BY <1>2, <2>1 DEF SizeIsRight
<1>5. GivenIsRead'
  BY <1>1, SameReads DEF IInv
<1>6. Answered' /\ WholeOrNothing'
  <2> DEFINE call == [name |-> name]
             o == Outcome("ok", size, Empty)
  <2>1. call.name = name /\ o.result = "ok" /\ o.wrote = Empty /\ Call(call, o)
    BY OutcomeIs
  <2> HIDE DEF call, o
  <2> QED BY <2>1, QuietCall DEF Quietly
<1> QED BY <1>3, <1>4, <1>5, <1>6 DEF IInv

LEMMA SerializedSizeHolds ==
  ASSUME IInv, json_get_serialized_size
  PROVE  IInv'
<1>1. PICK flag \in Flag :
        /\ Call([name |-> "get_serialized_size"], Outcome("ok", GetSerializedSize(flag), Empty))
        /\ asked' = [of |-> "json", flag |-> flag, size |-> GetSerializedSize(flag)]
        /\ UNCHANGED <<doc, input, given>>
  BY DEF json_get_serialized_size
<1>2. GetSerializedSize(flag) \in Nat
  BY Lengths DEF GetSerializedSize, IInv
<1> QED BY <1>1, <1>2, QuietNames, AskHolds

LEMMA PtrLengthHolds ==
  ASSUME IInv, json_ptr_get_length
  PROVE  IInv'
<1>1. PICK at \in {"member", "none"} :
        /\ IF Resolves(at)
           THEN /\ Call([name |-> "ptr_get_length"], Outcome("ok", PtrGetLength, Empty))
                /\ asked' = [of |-> "length", flag |-> Plain, size |-> PtrGetLength]
           ELSE Call([name |-> "ptr_get_length"], Threw) /\ UNCHANGED asked
        /\ UNCHANGED <<doc, input, given>>
  BY DEF json_ptr_get_length
<1>2. CASE Resolves(at)
  <2>1. PtrGetLength \in Nat /\ Plain \in Flag
    BY Lengths, AccessAssumption DEF PtrGetLength, IInv
  <2> QED BY <1>1, <1>2, <2>1, QuietNames, AskHolds
<1>3. CASE ~Resolves(at)
  <2>1. Fail("ptr_get_length", Threw)
    BY <1>1, <1>3 DEF Fail, ReadOnly
  <2> QED BY <2>1, QuietNames, FailHolds
<1> QED BY <1>2, <1>3

\* The plugin's array changes: what is read from the document does not, but a
\* string that is in the array.
LEMMA OverwriteHolds ==
  ASSUME IInv, Overwrite
  PROVE  IInv'
<1>1. PICK t \in Text :
        /\ ret = Idle /\ input' = t
        /\ asked' = IF v.data = Input THEN NotAsked ELSE asked
        /\ doc' = doc /\ ret' = ret /\ given' = given
  BY DEF Overwrite
<1>2. v' = v
  BY <1>1 DEF v
<1>3. Sound'
  <2>1. asked'.of \in {"none", "json", "length"} /\ asked'.flag \in Flag /\ asked'.size \in Nat
    BY <1>1, AccessAssumption DEF NotAsked, IInv, Sound
  <2> QED BY <1>1, <1>2, <2>1 DEF IInv, Sound
<1>4. SizeIsRight'
  <2>1. CASE v.data = Input
    BY <1>1, <2>1 DEF SizeIsRight, NotAsked
  <2>2. CASE v.data # Input
    <3>1. Meaning(v)' = Meaning(v)
      BY <1>2, <2>2 DEF Meaning, TextOf
    <3>2. PtrGetLength' = PtrGetLength /\ \A f : GetSerializedSize(f)' = GetSerializedSize(f)
      BY <1>2, <3>1 DEF PtrGetLength, GetSerializedSize, Size
    <3> QED BY <1>1, <2>2, <3>2 DEF SizeIsRight, IInv
  <2> QED BY <2>1, <2>2
<1>5. GivenIsRead'
  <2>1. CASE given.kind # "string" \/ v.data # Input
    BY <1>1, <1>2, <2>1, SameReads DEF IInv
  <2>2. CASE given.kind = "string" /\ v.data = Input
    BY <1>1, <2>2 DEF GivenIsRead, IInv
  <2> QED BY <2>1, <2>2
<1>6. Answered' /\ WholeOrNothing'
  <2>1. ret'.call.name = "none" /\ ret'.wrote = Empty
    BY <1>1 DEF Idle
  <2>2. "none" \notin ReadNames \cup WriteNames
    BY DEF ReadNames, WriteNames
  <2>3. WholeOrNothing'
    BY <2>1, <2>2, QuietIsWhole
  <2> QED BY <1>1, <2>3 DEF Answered, IInv
<1> QED BY <1>3, <1>4, <1>5, <1>6 DEF IInv

LEMMA ResumeHolds ==
  ASSUME IInv, Resume
  PROVE  IInv'
<1>1. ret' = Idle /\ ReadOnly
  BY DEF Resume
<1>2. ret'.call.name = "none" /\ ret'.wrote = Empty /\ ret'.result = "none"
  BY <1>1 DEF Idle
<1>3. "none" \notin ReadNames \cup WriteNames
  BY DEF ReadNames, WriteNames
<1>4. Answered' /\ WholeOrNothing'
  BY <1>2, <1>3, QuietIsWhole DEF Answered
<1> QED BY <1>1, <1>4, LookingKeeps DEF IInv

-----------------------------------------------------------------------------
(* Every call *)

LEMMA DeliverNothing ==
  ASSUME NEW found, ~found, NEW r \in Readings, NEW failed
  PROVE  Deliver(Answers(Taken, found), r.kind, r.room, failed) = failed
<1>1. \A k \in Kinds : Answers(Taken, found)[k] = Refused
  BY AnswersAre
<1>2. r.kind \in {"bool", "float", "int", "int64", "string"}
  BY DEF Readings
<1> QED BY <1>1, <1>2 DEF Deliver, Kinds

LEMMA ReadHolds ==
  ASSUME IInv, ReadOnly,
         NEW name \in ReadNames, NEW at, NEW r \in Readings, NEW failed \in {Threw, Zero},
         Call(Read(name, at, r),
              Deliver(Answers(Taken, Reaches(name, at)), r.kind, r.room, failed))
  PROVE  IInv'
BY ReadIsWhole, LookingKeeps DEF IInv

LEMMA ReadingHolds ==
  ASSUME IInv, json_get \/ json_obj_get \/ json_arr_get \/ json_ptr_get \/ json_ptr_try_get
  PROVE  IInv'
<1> USE DEF ReadNames
<1>1. CASE json_get
  <2>1. PICK r \in Readings :
          Call(Read("get", "member", r), Deliver(Get, r.kind, r.room, Threw)) /\ ReadOnly
    BY <1>1 DEF json_get
  <2>2. Get = Answers(Taken, Reaches("get", "member"))
    <3>1. Reaches("get", "member")
      BY DEF Reaches
    <3> QED BY <3>1, WaysAre, AnswersAre
  <2> QED BY <2>1, <2>2, ReadHolds
<1>2. CASE json_obj_get
  <2>1. PICK at \in {"member", "none"}, r \in Readings :
          Call(Read("obj_get", at, r), Deliver(ObjectGet(at), r.kind, r.room, Threw)) /\ ReadOnly
    BY <1>2 DEF json_obj_get
  <2>2. Reaches("obj_get", at) = (doc.within = "obj" /\ at = "member")
    BY DEF Reaches
  <2>3. ObjectGet(at) = Answers(Taken, Reaches("obj_get", at))
    BY <2>2, WaysAre, Zenon
  <2> QED BY <2>1, <2>3, ReadHolds
<1>3. CASE json_arr_get
  <2>1. PICK at \in {"member", "none", "negative"}, r \in Readings :
          /\ Call(Read("arr_get", at, r),
                  IF ~IsIndex(at) THEN Threw ELSE Deliver(ArrayGet(at), r.kind, r.room, Threw))
          /\ ReadOnly
    BY <1>3 DEF json_arr_get
  <2>2. Reaches("arr_get", at) = (doc.within = "arr" /\ at = "member")
    BY DEF Reaches
  <2>3. ArrayGet(at) = Answers(Taken, Reaches("arr_get", at))
    BY <2>2, WaysAre, Zenon
  <2>4. CASE IsIndex(at)
    BY <2>1, <2>3, <2>4, ReadHolds
  <2>5. CASE ~IsIndex(at)
    <3>1. ~Reaches("arr_get", at)
      BY <2>5 DEF IsIndex, Reaches
    <3>2. Threw = Deliver(Answers(Taken, Reaches("arr_get", at)), r.kind, r.room, Threw)
      BY <3>1, DeliverNothing
    <3> QED BY <2>1, <2>5, <3>2, ReadHolds
  <2> QED BY <2>4, <2>5
<1>4. CASE json_ptr_get
  <2>1. PICK at \in {"member", "none"}, r \in Readings :
          Call(Read("ptr_get", at, r), Deliver(PtrGet(at), r.kind, r.room, Threw)) /\ ReadOnly
    BY <1>4 DEF json_ptr_get
  <2>2. Reaches("ptr_get", at) = (at = "member")
    BY DEF Reaches
  <2>3. PtrGet(at) = Answers(Taken, Reaches("ptr_get", at))
    BY <2>2, WaysAre, Zenon
  <2> QED BY <2>1, <2>3, ReadHolds
<1>5. CASE json_ptr_try_get
  <2>1. PICK at \in {"member", "none"}, r \in Readings :
          Call(Read("ptr_try_get", at, r), Deliver(PtrTryGet(at), r.kind, r.room, Zero)) /\ ReadOnly
    BY <1>5 DEF json_ptr_try_get
  <2>2. Reaches("ptr_try_get", at) = (at = "member")
    BY DEF Reaches
  <2>3. PtrTryGet(at) = Answers(Taken, Reaches("ptr_try_get", at))
    BY <2>2, WaysAre, Zenon
  <2> QED BY <2>1, <2>3, ReadHolds
<1> QED BY <1>1, <1>2, <1>3, <1>4, <1>5

LEMMA WritingHolds ==
  ASSUME IInv, json_doc_write_to_str \/ json_doc_write_to_str_direct \/ json_write_number
  PROVE  IInv'
<1>1. ReadOnly /\ Answered' /\ WholeOrNothing'
  BY WriteToStr, WriteToStrDirect, WriteANumber DEF IInv
<1> QED BY <1>1, LookingKeeps DEF IInv

\* A question about the value.
LEMMA QuestionHolds ==
  ASSUME IInv, NEW name, Quietly(name), NEW answer,
         Call([name |-> name], Outcome("ok", answer, Empty)), ReadOnly
  PROVE  IInv'
<1> DEFINE call == [name |-> name]
           o == Outcome("ok", answer, Empty)
<1>1. call.name = name /\ o.result = "ok" /\ o.wrote = Empty /\ Call(call, o)
  BY OutcomeIs
<1> HIDE DEF call, o
<1> QED BY <1>1, LookingHolds

LEMMA AskingHolds ==
  ASSUME IInv, json_is \/ json_equals_str \/ json_is_null \/ json_arr_index_of_bool
                 \/ json_arr_index_of_str \/ json_arr_index_of_float
  PROVE  IInv'
<1>1. CASE json_is
  <2>1. PICK name \in DOMAIN Is :
          Call([name |-> name], Outcome("ok", Is[name], Empty)) /\ ReadOnly
    BY <1>1 DEF json_is
  <2>2. Quietly(name)
    BY <2>1 DEF Is, Quietly, ReadNames, WriteNames
  <2> QED BY <2>1, <2>2, QuestionHolds
<1>2. CASE json_equals_str
  BY <1>2, QuietNames, QuestionHolds DEF json_equals_str
<1>3. CASE json_is_null
  <2>1. PICK at \in {"member", "none"} : \E way \in DOMAIN IsNullWays(at) :
          LET answer == IsNullWays(at)[way] IN
          /\ Call([name |-> way, at |-> at],
                  IF answer = Refused THEN Threw ELSE Outcome("ok", answer[1], Empty))
          /\ ReadOnly
    BY <1>3 DEF json_is_null
  <2>2. PICK way, o :
          /\ way \in DOMAIN IsNullWays(at)
          /\ o = Threw \/ \E x : o = Outcome("ok", x, Empty)
          /\ Call([name |-> way, at |-> at], o)
          /\ ReadOnly
    BY <2>1
  <2>3. way \in {"obj_is_null", "arr_is_null", "ptr_is_null"}
    BY <2>2 DEF IsNullWays
  <2> DEFINE call == [name |-> way, at |-> at]
  <2>4. call.name = way /\ o.result \in {"ok", "threw"} /\ o.wrote = Empty /\ Call(call, o)
    BY <2>2, OutcomeIs
  <2> HIDE DEF call
  <2> QED BY <2>2, <2>3, <2>4, QuietNames, LookingHolds
<1>4. CASE json_arr_index_of_bool
  BY <1>4, QuietNames, QuestionHolds DEF json_arr_index_of_bool
<1>5. CASE json_arr_index_of_str
  BY <1>5, QuietNames, QuestionHolds DEF json_arr_index_of_str
<1>6. CASE json_arr_index_of_float
  BY <1>6, QuietNames, QuestionHolds DEF json_arr_index_of_float
<1> QED BY <1>1, <1>2, <1>3, <1>4, <1>5, <1>6

LEMMA StutterHolds ==
  ASSUME IInv, UNCHANGED vars
  PROVE  IInv'
<1>1. ReadOnly /\ ret' = ret
  BY DEF vars, ReadOnly
<1>2. Answered' /\ WholeOrNothing'
  <2>1. doc' = doc /\ input' = input /\ asked' = asked /\ v' = v
    BY <1>1 DEF ReadOnly, v
  <2>2. Answered'
    BY <1>1 DEF Answered, IInv
  <2>3. WholeOrNothing'
    BY <1>1, <2>1, ZenonT(60)
       DEF IInv, WholeOrNothing, ReadsString, WritesJson, InStep, TextOf, JsonText, Size, Meaning,
           PtrGet, Get, Answers, Datum, Resolves
  <2> QED BY <2>2, <2>3
<1> QED BY <1>1, <1>2, LookingKeeps DEF IInv

LEMMA InitHolds ==
  ASSUME Init
  PROVE  IInv
<1>1. PICK mutable \in BOOLEAN, within \in {"arr", "obj", "root"}, val \in Values :
        doc = [mutable |-> mutable, within |-> within, val |-> val]
  <2>1. PICK d : d = doc
    OBVIOUS
  <2>2. d \in [mutable : BOOLEAN, within : {"arr", "obj", "root"}, val : Values]
    BY <2>1 DEF Init
  <2>3. /\ d.mutable \in BOOLEAN /\ d.within \in {"arr", "obj", "root"} /\ d.val \in Values
        /\ d = [mutable |-> d.mutable, within |-> d.within, val |-> d.val]
    BY <2>2
  <2> QED BY <2>1, <2>3
<1>2. /\ input \in Text /\ ret = Idle /\ asked = NotAsked /\ given = NotGiven
  BY DEF Init
<1>3. v = val /\ doc.mutable = mutable /\ doc.within = within
  BY <1>1 DEF v
<1>4. val \in Stored /\ ~(val.fixed > 0) /\ ~val.float /\ val.type # "raw"
  <2>1. val \in Stored /\ val.fixed = 0 /\ val.float = FALSE
    BY PlainStored
  <2>2. val.type # "raw"
    <3>1. Containers = {"arr", "obj"}
      BY DEF Containers
    <3> QED BY <3>1 DEF Values, Scalars, Null, Bool, Sint, Uint, Real, Str, Val
  <2> QED BY <2>1, <2>2
<1>5. Sound
  <2>1. asked.of = "none" /\ asked.flag \in Flag /\ asked.size \in Nat
    BY <1>2, AccessAssumption DEF NotAsked
  <2> QED BY <1>1, <1>2, <1>3, <1>4, <2>1 DEF Sound
<1>6. SizeIsRight /\ GivenIsRead
  BY <1>2 DEF SizeIsRight, NotAsked, GivenIsRead, NotGiven, Kept
<1>7. Answered /\ WholeOrNothing
  BY <1>2 DEF Answered, WholeOrNothing, Idle, ReadsString, WritesJson
<1> QED BY <1>5, <1>6, <1>7 DEF IInv

LEMMA NextHolds ==
  ASSUME IInv, [Next]_vars
  PROVE  IInv'
<1>1. CASE UNCHANGED vars
  BY <1>1, StutterHolds
<1>2. CASE json_get \/ json_obj_get \/ json_arr_get \/ json_ptr_get \/ json_ptr_try_get
  BY <1>2, ReadingHolds
<1>3. CASE json_is \/ json_equals_str \/ json_is_null \/ json_arr_index_of_bool
             \/ json_arr_index_of_str \/ json_arr_index_of_float
  BY <1>3, AskingHolds
<1>4. CASE json_get_serialized_size
  BY <1>4, SerializedSizeHolds
<1>5. CASE json_ptr_get_length
  BY <1>5, PtrLengthHolds
<1>6. CASE json_doc_write_to_str \/ json_doc_write_to_str_direct \/ json_write_number
  BY <1>6, WritingHolds
<1>7. CASE json_create
  BY <1>7, CreateHolds
<1>8. CASE json_arr_init_with
  BY <1>8, ArrInitHolds
<1>9. CASE json_obj_init_with_str
  BY <1>9, ObjInitHolds
<1>10. CASE json_obj_set \/ json_arr_replace \/ json_ptr_set
  BY <1>10, ObjSetHolds, ArrReplaceHolds, PtrSetHolds
<1>11. CASE json_set_scalar \/ json_set_string
  BY <1>11, SetScalarHolds, SetStringHolds
<1>12. CASE json_set_fp_to_float \/ json_set_fp_to_fixed
  BY <1>12, FormatHolds
<1>13. CASE json_read_number
  BY <1>13, ReadNumberHolds
<1>14. CASE Resume \/ Overwrite
  BY <1>14, ResumeHolds, OverwriteHolds
<1> QED BY <1>1, <1>2, <1>3, <1>4, <1>5, <1>6, <1>7, <1>8, <1>9, <1>10, <1>11, <1>12, <1>13, <1>14
       DEF Next

-----------------------------------------------------------------------------
(* Theorems *)

LEMMA Invariant == Spec => []IInv
<1>1. Init => IInv
  BY InitHolds
<1>2. IInv /\ [Next]_vars => IInv'
  BY NextHolds
<1> QED BY <1>1, <1>2, PTL DEF Spec

\* A value has the length and the format that belong to its type, raw numbers
\* are roots of mutable documents, and a size asked for is a size.
THEOREM AccessTypeOK == Spec => []TypeOK
<1>1. IInv => TypeOK
  BY Shown
<1> QED BY <1>1, Invariant, PTL

\* Whichever way a plugin reaches a value, by its handle, an index, a key or a
\* JSON Pointer, with Try or without, reading it gives the same, and the Is,
\* EqualsStr and IndexOf natives agree with what it reads.
THEOREM AllWaysAgree == Spec => []WaysAgree
<1>1. IInv => WaysAgree
  BY Shown, TypedWaysAgree
<1> QED BY <1>1, Invariant, PTL

\* A native that hands out a text hands out all of it or fails and leaves the
\* plugin's buffer; and the size that GetSerializedSize or PtrGetLength gave is
\* exactly the room it takes, until the value changes.
THEOREM TextsAreWhole == Spec => []WholeOrNothing
<1>1. IInv => WholeOrNothing
  BY Shown
<1> QED BY <1>1, Invariant, PTL

\* What the plugin put is what it reads, whichever call put it, whatever it
\* does with its array afterwards.
THEOREM ReadsAsPut == Spec => []PutIsRead
<1>1. IInv => PutIsRead
  BY Shown
<1> QED BY <1>1, Invariant, PTL
=============================================================================
