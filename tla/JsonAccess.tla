----------------------------- MODULE JsonAccess -----------------------------
(***************************************************************************)
(* What a plugin reads from a value and what it puts there.  A handle      *)
(* refers to the only member of an array or of an object, or to a root;    *)
(* the plugin also reaches the member by its index, its key or a JSON      *)
(* Pointer.  Each of these five ways has its own copy of the rules that    *)
(* say which types a reading takes, and its own natives.                   *)
(* Texts are names with a length; what matters of them is whether they are *)
(* handed over whole, and in whose memory they are.  No text holds a NUL,  *)
(* and none is the beginning of another.                                   *)
(***************************************************************************)
EXTENDS Integers

CONSTANTS
  Text,             \* strings
  TextLen,          \* their lengths in bytes
  Int64, Uint64,    \* some integers that a value holds, signed and unsigned
  LongLimit,        \* 2^63
  CellSpan,         \* 2^32, the number of integers a cell holds
  Double,           \* some finite doubles, in units of 1/Unit
  Unit,
  Single(_),        \* a double as the float of a cell
  RelTolerance,     \* 10^6, inverse of the relative tolerance of IndexOfFloat
  NumberIn,         \* the number a text spells, or NotANumber
  Flag,             \* write flags
  JsonLen(_, _),    \* length of a value's JSON text under a flag, 0 if it has none
  IntRoom,          \* 21, the room WriteNumber asks for an integer
  RealRoom,         \* 40, and for a real
  MaxRoom,          \* bound: size of the plugin's buffer
  NaN, NotANumber,
  Input,            \* the plugin's own array, where a string is not copied
  Empty             \* no datum, no call; the buffer as it was before the call

Plain  == "plain"   \* JSON_WRITE_NOFLAG
InfNan == "infnan"  \* JSON_WRITE_ALLOW_INF_AND_NAN

\* A value: its type, its datum, the length in its tag, and for a real the
\* digits and the precision it is to be written with.
Val(type, data, len) == [type |-> type, data |-> data, len |-> len, fixed |-> 0, float |-> FALSE]

IntTypes   == {"uint", "sint"}         \* yyjson_is_int
Numbers    == IntTypes \cup {"real"}   \* yyjson_is_num
Containers == {"arr", "obj"}           \* yyjson_is_ctn

Null      == Val("null", Empty, 0)
Bool(b)   == Val("bool", b, 0)         \* 0 or 1
Sint(n)   == Val("sint", n, 0)
Uint(n)   == Val("uint", n, 0)
Real(d)   == Val("real", d, 0)
Str(t)    == Val("str", t, TextLen[t])

Scalars == {Null, Bool(0), Bool(1)} \cup {Sint(n) : n \in Int64} \cup {Uint(n) : n \in Uint64}
             \cup {Real(d) : d \in Double \cup {NaN}} \cup {Str(t) : t \in Text}
Values  == Scalars \cup {Val(c, Empty, n) : c \in Containers, n \in {0, 2}}

\* Values whose text is t, or in the plugin's array, with the length of a text.
Pointing(t) == {Val(type, t, TextLen[u]) : type \in {"str", "raw"}, u \in Text}

Format(val, prec, flt) == [val EXCEPT !.fixed = prec, !.float = flt]
Formatted(S) == {Format(val, prec, flt) : val \in S, prec \in 0 .. 7, flt \in BOOLEAN}

\* What a document may hold, and what may be written of it.
Stored  == Formatted(Values \cup Pointing(Input))
Written == Formatted(Values \cup UNION {Pointing(t) : t \in Text})

Abs(n) == IF n < 0 THEN -n ELSE n
Max(a, b) == IF a > b THEN a ELSE b
Min(a, b) == IF a < b THEN a ELSE b

ASSUME AccessAssumption ==
  /\ TextLen \in [Text -> Nat]
  /\ Int64 \subseteq -LongLimit .. LongLimit - 1 /\ Uint64 \subseteq Nat /\ Double \subseteq Int
  /\ {CellSpan, LongLimit, Unit, RelTolerance, IntRoom, RealRoom, MaxRoom} \subseteq Nat \ {0}
  /\ \A d \in Double : /\ Single(d) \in Double
                        /\ Single(Single(d)) = Single(d)
                        /\ Abs(d - Single(d)) * RelTolerance <= Abs(d)
  /\ NaN \notin Double /\ Single(NaN) = NaN
  /\ Input \notin Text /\ NotANumber \notin Text
  /\ NumberIn \in [Text -> Scalars \cup {NotANumber}]
  /\ \A t \in Text : NumberIn[t] # NotANumber => NumberIn[t].type \in Numbers
  /\ {Plain, InfNan} \subseteq Flag
  /\ \A val \in Written :
       /\ \A flag \in Flag : JsonLen(val, flag) \in Nat
       \* The longest integer and the longest real fit.
       /\ val.type \in IntTypes => JsonLen(val, InfNan) \in 1 .. IntRoom - 1
       /\ val.type = "real" => JsonLen(val, InfNan) \in 1 .. RealRoom - 1

VARIABLES
  doc,    \* [mutable, within, val]: within is "arr", "obj" or "root"
  input,  \* the text in the plugin's array
  ret,    \* the last call and what it gave, until the plugin goes on
  asked,  \* the last size the plugin asked for, void once the value changes
  given   \* history: what the plugin last put there, and whether by FromStrings

vars == <<doc, input, ret, asked, given>>

v == doc.val

\* The text a string stands for: the plugin's array may hold another by now.
TextOf(val) == IF val.data = Input THEN input ELSE val.data

\* The value with the text it stands for.
Meaning(val) == IF val.type \in {"str", "raw"} THEN [val EXCEPT !.data = TextOf(val)] ELSE val

\* The length of the JSON text of the value.
Size(flag) == JsonLen(Meaning(v), flag)

-----------------------------------------------------------------------------
(* What each way of reading takes *)

Kinds == {"bool", "float", "int", "int64", "uint64", "string"}

\* An answer is the datum, or nothing.
Refused == << >>

\* The integer of the cell that n is cut to.
Cell(n) == LET low == n % CellSpan IN IF 2 * low >= CellSpan THEN low - CellSpan ELSE low

DoubleOf(val) == IF val.type = "real" THEN val.data ELSE val.data * Unit

\* yyjson_get_bool, yyjson_get_num as a float, yyjson_get_int, ...
Datum(kind, val) == CASE kind = "float"  -> Single(DoubleOf(val))
                      [] kind = "int"    -> Cell(val.data)
                      [] kind = "string" -> TextOf(val)
                      [] OTHER           -> val.data

\* The answers of one way to every kind of reading, by the types it takes.
Answers(takes, found) ==
  [kind \in Kinds |-> IF found /\ v.type \in takes[kind] THEN <<Datum(kind, v)>> ELSE Refused]

\* GetBool .. GetString: the value of the handle itself.
Get ==
  Answers([bool |-> {"bool"}, float |-> Numbers, int |-> IntTypes,
           int64 |-> {"sint"}, uint64 |-> {"uint"}, string |-> {"str"}],
          TRUE)

\* ObjectGetBool .. ObjectGetString, the first three by TypeTraits.
ObjectGet(at) ==
  Answers([bool |-> {"bool"}, float |-> Numbers, int |-> IntTypes,
           int64 |-> {"sint"}, uint64 |-> {"uint"}, string |-> {"str"}],
          doc.within = "obj" /\ at = "member")

\* ArrayGetBool .. ArrayGetUint64; ArrayGetString
ArrayGet(at) ==
  Answers([bool |-> {"bool"}, float |-> Numbers, int |-> IntTypes,
           int64 |-> {"sint"}, uint64 |-> {"uint"}, string |-> {"str"}],
          doc.within = "arr" /\ at = "member")

\* ResolvePtrValue: the root of the handle's document has a path too.
Resolves(at) == at = "member"

\* PtrGetBool .. PtrGetString
PtrGet(at) ==
  Answers([bool |-> {"bool"}, float |-> Numbers, int |-> IntTypes,
           int64 |-> {"sint"}, uint64 |-> {"uint"}, string |-> {"str"}],
          Resolves(at))

\* A copy of the rule that forgot the integers.
PtrTryGetReals(at) ==
  Answers([bool |-> {"bool"}, float |-> {"real"}, int |-> IntTypes,
           int64 |-> {"sint"}, uint64 |-> {"uint"}, string |-> {"str"}],
          Resolves(at))

\* PtrTryGetBool .. PtrTryGetString
PtrTryGet(at) ==
  Answers([bool |-> {"bool"}, float |-> Numbers, int |-> IntTypes,
           int64 |-> {"sint"}, uint64 |-> {"uint"}, string |-> {"str"}],
          Resolves(at))

\* ObjectIsNull, ArrayIsNull, PtrGetIsNull: an index past the end is not null.
ObjectIsNull(at) ==
  IF doc.within = "obj" /\ at = "member" THEN <<v.type = "null">> ELSE Refused
ArrayIsNull(at)  == <<doc.within = "arr" /\ at = "member" /\ v.type = "null">>
PtrGetIsNull(at) == IF Resolves(at) THEN <<v.type = "null">> ELSE Refused

\* GetType, and IsArray .. IsCtn
Is == [IsArray |-> v.type = "arr",         IsObject |-> v.type = "obj",
       IsInt   |-> v.type \in IntTypes,    IsUint   |-> v.type = "uint",
       IsSint  |-> v.type = "sint",        IsNum    |-> v.type \in Numbers,
       IsBool  |-> v.type = "bool",        IsTrue   |-> v = Bool(1),
       IsFalse |-> v = Bool(0),            IsFloat  |-> v.type = "real",
       IsStr   |-> v.type = "str",         IsNull   |-> v.type = "null",
       IsCtn   |-> v.type \in Containers]

\* EqualsStr: yyjson compares the length in the tag, then the bytes.
EqualsStr(t) == v.type = "str" /\ v.len = TextLen[t] /\ TextOf(v) = t

EqualsFloatingPoint(a, b) ==
  /\ NaN \notin {a, b}
  /\ Abs(a - b) * RelTolerance <= Max(Abs(a), Abs(b))

\* The index of the element, if it is the one looked for.
IndexIf(found) == IF doc.within = "arr" /\ found THEN 0 ELSE -1

ArrayIndexOfBool(b)   == IndexIf(v.type = "bool" /\ v.data = b)
ArrayIndexOfString(t) == IndexIf(v.type = "str" /\ TextOf(v) = t)
ArrayIndexOfDouble(d) == IndexIf(v.type = "real" /\ EqualsFloatingPoint(v.data, d))

-----------------------------------------------------------------------------
(* Natives that read *)

Idle == [call |-> [name |-> "none"], result |-> "none", value |-> Empty, wrote |-> Empty]

Outcome(result, value, wrote) == [result |-> result, value |-> value, wrote |-> wrote]
Threw == Outcome("threw", Empty, Empty)   \* ThrowNativeError
Zero  == Outcome("zero", Empty, Empty)    \* returns 0

\* A plugin makes one call at a time, and looks at what it gave.
Call(call, outcome) ==
  /\ ret = Idle
  /\ ret' = [call |-> call, result |-> outcome.result, value |-> outcome.value,
             wrote |-> outcome.wrote]

ReadOnly == UNCHANGED <<doc, input, asked, given>>

\* StringToLocalUTF8: as much as fits before the terminating NUL.
Copied(what, len, room) == [what |-> what, chars |-> Min(len, room - 1)]

Text64 == <<"integer64", v.data>>         \* Int64VariantToString
JsonText(flag) == <<"json", Meaning(v), flag>>

\* The natives json_get_bool .. json_get_str: a cell, or a text in the buffer.
Deliver(answers, kind, room, failed) ==
  CASE kind = "int64" ->
         IF answers["int64"] = Refused /\ answers["uint64"] = Refused THEN failed
         ELSE Outcome("ok", 1, Copied(Text64, Size(Plain), room))
    [] kind = "string" ->
         IF answers["string"] = Refused \/ v.len + 1 > room THEN failed
         ELSE Outcome("ok", 1, Copied(<<"string", TextOf(v)>>, TextLen[TextOf(v)], room))
    [] OTHER ->
         IF answers[kind] = Refused THEN failed ELSE Outcome("ok", answers[kind][1], Empty)

Read(name, at, r) == [name |-> name, at |-> at, kind |-> r.kind, room |-> r.room]

\* The size of the buffer matters to the readings that fill one.
Readings == [kind : {"bool", "float", "int"}, room : {1}]
              \cup [kind : {"int64", "string"}, room : 1 .. MaxRoom]

json_get == \E r \in Readings :
  /\ Call(Read("get", "member", r), Deliver(Get, r.kind, r.room, Threw))
  /\ ReadOnly

json_obj_get == \E at \in {"member", "none"}, r \in Readings :
  /\ Call(Read("obj_get", at, r), Deliver(ObjectGet(at), r.kind, r.room, Threw))
  /\ ReadOnly

\* TryReadNonNegativeIndexOrThrow
IsIndex(at) == at # "negative"

json_arr_get == \E at \in {"member", "none", "negative"}, r \in Readings :
  /\ Call(Read("arr_get", at, r),
          IF ~IsIndex(at) THEN Threw ELSE Deliver(ArrayGet(at), r.kind, r.room, Threw))
  /\ ReadOnly

json_ptr_get == \E at \in {"member", "none"}, r \in Readings :
  /\ Call(Read("ptr_get", at, r), Deliver(PtrGet(at), r.kind, r.room, Threw))
  /\ ReadOnly

\* What the others throw for is 0 here, and the plugin's cell or buffer stays.
json_ptr_try_get == \E at \in {"member", "none"}, r \in Readings :
  /\ Call(Read("ptr_try_get", at, r), Deliver(PtrTryGet(at), r.kind, r.room, Zero))
  /\ ReadOnly

\* JSON.IsArray .. JSON.IsCtn
json_is == \E name \in DOMAIN Is :
  /\ Call([name |-> name], Outcome("ok", Is[name], Empty))
  /\ ReadOnly

json_equals_str ==
  /\ Call([name |-> "equals_str"], Outcome("ok", EqualsStr(input), Empty))
  /\ ReadOnly

json_arr_index_of_bool == \E b \in {0, 1} :
  /\ Call([name |-> "index_of_bool"], Outcome("ok", ArrayIndexOfBool(b), Empty))
  /\ ReadOnly

json_arr_index_of_str ==
  /\ Call([name |-> "index_of_str"], Outcome("ok", ArrayIndexOfString(input), Empty))
  /\ ReadOnly

\* A float to look for comes in a cell.
json_arr_index_of_float == \E d \in Double :
  /\ Call([name |-> "index_of_float"], Outcome("ok", ArrayIndexOfDouble(Single(d)), Empty))
  /\ ReadOnly

\* JSONObject.IsNull, JSONArray.IsNull, PtrGetIsNull
IsNullWays(at) == [obj_is_null |-> ObjectIsNull(at), arr_is_null |-> ArrayIsNull(at),
                   ptr_is_null |-> PtrGetIsNull(at)]

json_is_null == \E at \in {"member", "none"} : \E way \in DOMAIN IsNullWays(at) :
  LET answer == IsNullWays(at)[way] IN
  /\ Call([name |-> way, at |-> at],
          IF answer = Refused THEN Threw ELSE Outcome("ok", answer[1], Empty))
  /\ ReadOnly

-----------------------------------------------------------------------------
(* Sizes and texts *)

NotAsked == [of |-> "none", flag |-> Plain, size |-> 0]

\* GetSerializedSize: the terminating NUL is counted; 0 if the value has no text.
GetSizeWithoutNul(flag) == Size(flag)
GetSerializedSize(flag) == IF Size(flag) = 0 THEN 0 ELSE Size(flag) + 1

json_get_serialized_size == \E flag \in Flag :
  /\ Call([name |-> "get_serialized_size"], Outcome("ok", GetSerializedSize(flag), Empty))
  /\ asked' = [of |-> "json", flag |-> flag, size |-> GetSerializedSize(flag)]
  /\ UNCHANGED <<doc, input, given>>

\* PtrGetLength: the room a string takes, the number of elements of a container.
PtrGetLength == IF v.type = "str" THEN v.len + 1 ELSE v.len

json_ptr_get_length == \E at \in {"member", "none"} :
  /\ IF Resolves(at)
     THEN /\ Call([name |-> "ptr_get_length"], Outcome("ok", PtrGetLength, Empty))
          /\ asked' = [of |-> "length", flag |-> Plain, size |-> PtrGetLength]
     ELSE Call([name |-> "ptr_get_length"], Threw) /\ UNCHANGED asked
  /\ UNCHANGED <<doc, input, given>>

Write(name, flag, room) == [name |-> name, flag |-> flag, room |-> room]

\* The size of the text that is allocated for ToString, or nothing.
WriteToStringPtr(flag) == IF Size(flag) = 0 THEN Refused ELSE <<Size(flag) + 1>>

json_doc_write_to_str == \E flag \in Flag, room \in 0 .. MaxRoom :
  /\ LET json_size == WriteToStringPtr(flag)[1] IN
     Call(Write("write_to_str", flag, room),
          IF room = 0 \/ WriteToStringPtr(flag) = Refused \/ json_size > room THEN Threw
          ELSE Outcome("ok", json_size, Copied(JsonText(flag), Size(flag), room)))
  /\ ReadOnly

Torn == [what |-> <<"part">>, chars |-> 0]

\* ToStringDirect writes into the buffer.  yyjson needs room to work in beyond
\* the text, so it may fail although the text would fit; and when it fails it
\* may have written.
WriteToString(flag, room) ==
  IF room <= 1 THEN {Threw}
  ELSE {Threw, Outcome("threw", Empty, Torn)}
         \cup {o \in {Outcome("ok", Size(flag) + 1,
                             [what |-> JsonText(flag), chars |-> Size(flag)])} :
                Size(flag) \in 1 .. room - 1}

json_doc_write_to_str_direct == \E flag \in Flag, room \in 0 .. MaxRoom :
  /\ \E o \in WriteToString(flag, room) : Call(Write("write_to_str_direct", flag, room), o)
  /\ ReadOnly

\* WriteNumber: the number of bytes without the NUL.
WriteNumber(room) ==
  LET written == Size(InfNan) IN
  IF \/ v.type \notin Numbers
     \/ room < (IF v.type = "real" THEN RealRoom ELSE IntRoom)
     \/ written >= room
  THEN Refused ELSE <<written>>

\* By way of a temporary buffer of the same size.
json_write_number == \E room \in 0 .. MaxRoom :
  /\ Call(Write("write_number", InfNan, room),
          IF \/ room < (IF Is.IsFloat THEN RealRoom ELSE IntRoom)
             \/ WriteNumber(room) = Refused
          THEN Threw
          ELSE Outcome("ok", WriteNumber(room)[1],
                       Copied(JsonText(InfNan), WriteNumber(room)[1], room)))
  /\ ReadOnly

-----------------------------------------------------------------------------
(* Natives that put a value there *)

Datum64 == [kind : {"int64"}, datum : Int64]
             \cup [kind : {"uint64"}, datum : {n \in Uint64 : n >= LongLimit}]
             \cup [kind : {"int64"}, datum : {NotANumber}]

\* What a plugin can put: ints and floats are cells; a 64-bit integer comes as
\* a text, which may be none, and is taken as signed if it fits; a string is
\* what the array holds.
Data == [kind : {"null"}, datum : {Empty}]
          \cup [kind : {"bool"}, datum : {0, 1}]
          \cup [kind : {"int"}, datum : {n \in Int64 : n = Cell(n)}]
          \cup [kind : {"float"}, datum : {Single(d) : d \in Double \cup {NaN}}]
          \cup [kind : {"string"}, datum : {input}]
          \cup Datum64

IsBad(g) == g.datum = NotANumber   \* ParseInt64Variant refuses it

\* The new value: TypeTraits::create_value and the typed functions beside it.
Made(g) == CASE g.kind = "null"             -> Null
             [] g.kind = "bool"             -> Bool(g.datum)
             [] g.kind \in {"int", "int64"} -> Sint(g.datum)
             [] g.kind = "uint64"           -> Uint(g.datum)
             [] g.kind = "float"            -> Real(g.datum)
             [] g.kind = "string"           -> Str(g.datum)

\* The string itself, in the plugin's array, with the length it has now.
Borrowed(text) == Val("str", Input, TextLen[text])

NotGiven == [kind |-> "none", datum |-> Empty, pair |-> FALSE]

\* The call fails and leaves everything as it was.
Fail(name, outcome) == Call([name |-> name], outcome) /\ ReadOnly

\* The call succeeds, and the plugin goes on with the value d.val.
Put(name, g, d) ==
  /\ Call([name |-> name], Outcome("ok", 1, Empty))
  /\ doc' = d
  /\ asked' = NotAsked
  /\ given' = [kind |-> g.kind, datum |-> g.datum, pair |-> name = "obj_init_with_str"]
  /\ UNCHANGED input

NewRoot(val) == [mutable |-> TRUE, within |-> "root", val |-> val]

\* JSON.CreateBool .. CreateString
json_create == \E g \in Data :
  IF IsBad(g) THEN Fail("create", Zero) ELSE Put("create", g, NewRoot(Made(g)))

\* JSONArray.FromStrings, FromInt, FromInt64, FromBool, FromFloat, of at most
\* one element.
json_arr_init_with == \E size \in -1 .. 1 : \E g \in {x \in Data : x.kind # "null"} :
  IF size < 0 \/ (size = 1 /\ IsBad(g)) THEN Fail("arr_init_with", Zero)
  ELSE IF size = 0 THEN Put("arr_init_with", NotGiven, NewRoot(Val("arr", Empty, 0)))
  ELSE Put("arr_init_with", g, [mutable |-> TRUE, within |-> "arr", val |-> Made(g)])

\* JSONObject.FromStrings, of at most one pair.  yyjson_mut_obj_with_kv keeps
\* the pointers it is given.
ObjectInitWithStrings(text) ==
  [mutable |-> TRUE, within |-> "obj", val |-> Borrowed(text)]

json_obj_init_with_str == \E size \in -1 .. 3, named \in BOOLEAN :
  IF size < 2 \/ size % 2 # 0 \/ ~named THEN Fail("obj_init_with_str", Zero)
  ELSE Put("obj_init_with_str", [kind |-> "string", datum |-> input], ObjectInitWithStrings(input))

\* SetNull .. SetFloat: yyjson refuses to turn a container of an immutable
\* document into a scalar; one of a mutable document it converts.
SetInPlace(name, g, val) ==
  IF ~doc.mutable /\ v.type \in Containers THEN Fail(name, Threw)
  ELSE Put(name, g, [doc EXCEPT !.val = val])

json_set_scalar == \E g \in {x \in Data : x.kind # "string"} :
  IF IsBad(g) THEN Fail("set_scalar", Threw) ELSE SetInPlace("set_scalar", g, Made(g))

\* SetString: a mutable document takes a copy; a value of an immutable one is
\* made to point to the plugin's array.
SetStringKeepingPointer(text) == Borrowed(text)
SetString(text) == IF doc.mutable THEN Str(text) ELSE Borrowed(text)

json_set_string ==
  SetInPlace("set_string", [kind |-> "string", datum |-> input], SetString(input))

\* The others put a new value in the place of the member.

Replaced(g) == [doc EXCEPT !.val = Made(g)]

\* JSONObject.SetBool .. SetString
json_obj_set == doc.within # "root" /\ \E g \in Data :
  IF ~doc.mutable \/ IsBad(g) THEN Fail("obj_set", Threw)
  ELSE IF doc.within # "obj" THEN Fail("obj_set", Zero)
  ELSE Put("obj_set", g, Replaced(g))

\* JSONArray.SetBool .. SetString
json_arr_replace == doc.within # "root" /\ \E at \in {"member", "none", "negative"}, g \in Data :
  IF ~doc.mutable \/ IsBad(g) \/ ~IsIndex(at) THEN Fail("arr_replace", Threw)
  ELSE IF doc.within # "arr" \/ at = "none" THEN Fail("arr_replace", Zero)
  ELSE Put("arr_replace", g, Replaced(g))

\* JSON.PtrSetBool .. PtrSetString; "none" is a path that can not be made.
json_ptr_set == \E at \in {"member", "none"}, g \in Data :
  IF ~doc.mutable \/ IsBad(g) \/ ~Resolves(at) THEN Fail("ptr_set", Threw)
  ELSE Put("ptr_set", g, Replaced(g))

\* How a real is written, kept in its tag.
SetFormatOfAny(name, val, valid) ==
  IF valid
  THEN /\ Call([name |-> name], Outcome("ok", 1, Empty))
       /\ doc' = [doc EXCEPT !.val = val]
       /\ asked' = NotAsked
       /\ UNCHANGED <<input, given>>
  ELSE Fail(name, Threw)
SetFormat(name, val, valid) ==
  IF valid /\ v.type = "real"
  THEN /\ Call([name |-> name], Outcome("ok", 1, Empty))
       /\ doc' = [doc EXCEPT !.val = val]
       /\ asked' = NotAsked
       /\ UNCHANGED <<input, given>>
  ELSE Fail(name, Threw)

json_set_fp_to_float == \E flt \in BOOLEAN :
  SetFormat("set_fp_to_float", [v EXCEPT !.float = flt], TRUE)
json_set_fp_to_fixed == \E prec \in {0, 7, 8} :
  SetFormat("set_fp_to_fixed", [v EXCEPT !.fixed = prec], prec \in 1 .. 7)

\* ReadNumber makes a document of the number the plugin's array spells; as raw,
\* its value points to the array.
ReadNumber(raw) ==
  IF NumberIn[input] = NotANumber THEN Refused
  ELSE <<NewRoot(IF raw THEN Val("raw", Input, TextLen[input]) ELSE NumberIn[input])>>

json_read_number == \E raw \in BOOLEAN :
  IF ReadNumber(raw) = Refused THEN Fail("read_number", Zero)
  ELSE /\ Call([name |-> "read_number"], Outcome("ok", TextLen[input], Empty))
       /\ doc' = ReadNumber(raw)[1]
       /\ asked' = NotAsked
       /\ given' = NotGiven
       /\ UNCHANGED input

-----------------------------------------------------------------------------
(* The plugin *)

Resume == ret # Idle /\ ret' = Idle /\ ReadOnly

\* The plugin puts another text in its array.
Overwrite == \E t \in Text \ {input} :
  /\ ret = Idle
  /\ input' = t
  /\ asked' = IF v.data = Input THEN NotAsked ELSE asked
  /\ UNCHANGED <<doc, ret, given>>

Init ==
  /\ doc \in [mutable : BOOLEAN, within : {"arr", "obj", "root"}, val : Values]
  /\ input \in Text
  /\ ret = Idle
  /\ asked = NotAsked
  /\ given = NotGiven

Next ==
  \/ json_get \/ json_obj_get \/ json_arr_get \/ json_ptr_get \/ json_ptr_try_get
  \/ json_is \/ json_equals_str \/ json_is_null
  \/ json_arr_index_of_bool \/ json_arr_index_of_str \/ json_arr_index_of_float
  \/ json_get_serialized_size \/ json_ptr_get_length
  \/ json_doc_write_to_str \/ json_doc_write_to_str_direct \/ json_write_number
  \/ json_create \/ json_arr_init_with \/ json_obj_init_with_str
  \/ json_obj_set \/ json_arr_replace \/ json_ptr_set
  \/ json_set_scalar \/ json_set_string \/ json_set_fp_to_float \/ json_set_fp_to_fixed
  \/ json_read_number \/ Resume \/ Overwrite

Spec == Init /\ [][Next]_vars

-----------------------------------------------------------------------------
(* Properties *)

\* Type invariant.  Only a real has a format, and a raw number is the root of a
\* document that ReadNumber made.
TypeOK ==
  /\ doc.mutable \in BOOLEAN /\ doc.within \in {"arr", "obj", "root"}
  /\ v \in Stored
  /\ v.fixed > 0 \/ v.float => v.type = "real"
  /\ v.type = "raw" => doc.mutable /\ doc.within = "root"
  /\ input \in Text
  /\ ret.result \in {"none", "ok", "threw", "zero"}
  /\ asked.of \in {"none", "json", "length"} /\ asked.flag \in Flag /\ asked.size \in Nat

\* A string whose length is that of the text it points to.
InStep == v.type = "str" => v.len = TextLen[TextOf(v)]

\* Whichever way a value is reached, a reading takes it or refuses it alike and
\* gives the same datum: by its handle, its index, its key, or a pointer, with
\* Try or without.  What the Is natives say of its type, what EqualsStr says,
\* and what the IndexOf natives find agree with what the readings give.  What
\* is not there is refused everywhere, but by JSONArray.IsNull.
WaysAgree ==
  /\ doc.within = "obj" => ObjectGet("member") = Get
  /\ doc.within = "arr" => ArrayGet("member") = Get
  /\ PtrGet("member") = Get /\ PtrTryGet("member") = Get
  /\ \A k \in Kinds : /\ ObjectGet("none")[k] = Refused /\ ArrayGet("none")[k] = Refused
                      /\ PtrGet("none")[k] = Refused /\ PtrTryGet("none")[k] = Refused
  /\ doc.within = "obj" => ObjectIsNull("member") = <<Is.IsNull>>
  /\ doc.within = "arr" => ArrayIsNull("member") = <<Is.IsNull>>
  /\ PtrGetIsNull("member") = <<Is.IsNull>>
  /\ Is.IsBool <=> Get["bool"] # Refused
  /\ Is.IsTrue <=> Get["bool"] = <<1>>
  /\ Is.IsFalse <=> Get["bool"] = <<0>>
  /\ Is.IsNum <=> Get["float"] # Refused
  /\ Is.IsInt <=> Get["int"] # Refused
  /\ Is.IsSint <=> Get["int64"] # Refused
  /\ Is.IsUint <=> Get["uint64"] # Refused
  /\ Is.IsInt <=> Get["int64"] # Refused \/ Get["uint64"] # Refused
  /\ Is.IsStr <=> Get["string"] # Refused
  /\ InStep => \A t \in Text : EqualsStr(t) <=> Get["string"] = <<t>>
  /\ doc.within = "arr" =>
       /\ \A b \in {0, 1} : ArrayIndexOfBool(b) = 0 <=> Get["bool"] = <<b>>
       /\ \A t \in Text : ArrayIndexOfString(t) = 0 <=> Get["string"] = <<t>>
       /\ Is.IsFloat /\ v.data # NaN => ArrayIndexOfDouble(Get["float"][1]) = 0

ReadsString == ret.call.name \in {"get", "obj_get", "arr_get", "ptr_get", "ptr_try_get"}
                 /\ ret.call.kind = "string"
WritesJson  == ret.call.name \in {"write_to_str", "write_to_str_direct", "write_number"}

\* A native that hands out a text hands out all of it, or fails and leaves the
\* plugin's buffer as it was: GetString and its four relatives, ToString and
\* WriteNumber; ToStringDirect may leave a part behind when it fails.  (The
\* string a value borrows from the plugin's array may have changed its length;
\* GetInt64 cuts its digits to the buffer, and is left out.)  The
\* size that GetSerializedSize or PtrGetLength gave is enough as long as the
\* value has not been changed, and ToString returns that size.
WholeOrNothing ==
  /\ ret.result \in {"threw", "zero"} =>
       ret.wrote \in IF ret.call.name = "write_to_str_direct" THEN {Empty, Torn} ELSE {Empty}
  /\ ReadsString /\ ret.result = "ok" /\ InStep =>
       ret.wrote = [what |-> <<"string", TextOf(v)>>, chars |-> TextLen[TextOf(v)]]
  /\ WritesJson /\ ret.result = "ok" =>
       ret.wrote = [what |-> JsonText(ret.call.flag), chars |-> Size(ret.call.flag)]
  /\ ret.call.name = "write_to_str" /\ asked.of = "json" /\ ret.call.flag = asked.flag =>
       IF ret.call.room >= asked.size /\ asked.size > 0
       THEN ret.result = "ok" /\ ret.value = asked.size
       ELSE ret.result = "threw"
  /\ ReadsString /\ asked.of = "length" /\ v.type = "str" /\ PtrGet(ret.call.at) = Get =>
       \/ ret.result = "ok" <=> ret.call.room >= asked.size
       \/ ret.call.name = "obj_get" /\ doc.within # "obj"
       \/ ret.call.name = "arr_get" /\ doc.within # "arr"

Reads(g) == IF g.kind = "null" THEN Is.IsNull ELSE Get[g.kind] = <<g.datum>>

\* What the plugin put is what it reads, whichever call put it: of the same
\* kind, the same number, and for a string the text it had then, because the
\* document holds a copy and the plugin may reuse its array.  Only SetString
\* on a value of an immutable document, and FromStrings of an object, borrow.
PutIsRead ==
  \/ given.kind = "none"
  \/ given.kind = "string" /\ ~doc.mutable
  \/ given.pair
  \/ Reads(given)

\* "Creates a new JSON object from an array of strings representing key-value
\* pairs": its values are the strings it was created from.
HoldsItsPairs == given.pair => Reads(given)
=============================================================================
