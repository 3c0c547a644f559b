------------------------------ MODULE JsonPack ------------------------------
(***************************************************************************)
(* JSON.Pack: a recursive descent over a format string that takes its      *)
(* values from the parameters of the native.  The recursion is the stack   *)
(* open; a step is what the parser does between two looks at the format,   *)
(* the skipping of separators included.                                    *)
(*                                                                         *)
(* A value is <<c, p>> for a scalar of format character c taken from       *)
(* parameter p, or <<"[", items>> or <<"{", items>>; the items of an       *)
(* object are pairs of the parameter that is the key, and a value.         *)
(***************************************************************************)
EXTENDS Integers, Sequences, SequencesExt

CONSTANTS
  Format,    \* format strings, sequences of characters
  Params     \* what follows the format in a call: a sequence of BOOLEAN,
             \* TRUE if the provider can read that parameter

Nul  == "NUL"
None    == << >>  \* nullptr
NoParam == 0

ASSUME FormatAssumption == \A f \in Format : f \in Seq(STRING) /\ Nul \notin ToSet(f)
ASSUME ParamsAssumption == Params \subseteq Seq(BOOLEAN)

VARIABLES
  format,    \* the format string, without its NUL
  params,
  ptr,       \* m_ptr: place in format
  index,     \* m_currentIndex: params[0] is the count, params[1] the format
  open,      \* the containers being parsed, innermost first
  root,      \* the finished root, or None
  status     \* "running", "packed", or the error: "format", "parameter", "trailing"

vars == <<format, params, ptr, index, open, root, status>>

paramCount == Len(params) + 1
Space     == {" "}
Separator == {" ", ":", ","}

At(p) == IF p <= Len(format) THEN format[p] ELSE Nul

\* The first place from p on that does not hold one of the characters C.
SkipWhile(C, p) ==
  CHOOSE q \in p .. Len(format) + 1 : At(q) \notin C /\ \A r \in p .. q - 1 : At(r) \in C

SkipPackSeparators(p) == SkipWhile(Separator, p)
SkipPackWhitespace(p) == SkipWhile(Space, p)

HasNextParamCounted == index - 1 <= paramCount
HasNextParam == index <= paramCount

\* Past the parameters there is always something that can be read.
CanRead == HasNextParam /\ (index <= paramCount => params[index - 1])

Init ==
  /\ format \in Format
  /\ params \in Params
  /\ ptr = 1
  /\ index = 2
  /\ open = << >>
  /\ root = None
  /\ status = "running"

-----------------------------------------------------------------------------
Here == At(ptr)

Parsing  == status = "running" /\ root = None
AtRoot   == Parsing /\ open = << >>
AtKey    == Parsing /\ open # << >> /\ open[1].type = "{" /\ open[1].key = NoParam
AtItem   == Parsing /\ open # << >> /\ open[1].type = "["
AtMember == Parsing /\ open # << >> /\ open[1].type = "{" /\ open[1].key # NoParam

AtEnd   == (AtKey /\ Here = "}") \/ (AtItem /\ Here = "]")
AtValue == AtMember \/ (AtItem /\ Here # "]")

\* yyjson_mut_arr_append, yyjson_mut_obj_add; in an object a key comes next.
Add(stack, v) ==
  <<IF Head(stack).type = "["
    THEN [Head(stack) EXCEPT !.items = Append(@, v)]
    ELSE [Head(stack) EXCEPT !.items = Append(@, <<Head(stack).key, v>>), !.key = NoParam]>>
  \o Tail(stack)

\* ParseContainer, and ParseObject or ParseArray up to its loop.
OpenContainer ==
  /\ AtRoot \/ AtValue
  /\ Here \in {"{", "["}
  /\ open' = <<[type |-> Here, items |-> << >>, key |-> NoParam]>> \o open
  /\ ptr' = SkipPackSeparators(ptr + 1)
  /\ UNCHANGED <<format, params, index, root, status>>

\* ParseObject or ParseArray from its loop on, and what its caller does with
\* the value.
CloseContainer ==
  /\ AtEnd
  /\ LET v == <<open[1].type, open[1].items>>
     IN  IF Len(open) = 1
         THEN /\ root' = v
              /\ open' = << >>
              /\ ptr' = ptr + 1
         ELSE /\ open' = Add(Tail(open), v)
              /\ ptr' = SkipPackSeparators(ptr + 1)
              /\ UNCHANGED root
  /\ UNCHANGED <<format, params, index, status>>

\* ParseObjectMember up to its value.
ParseKey ==
  /\ AtKey
  /\ Here = "s"
  /\ CanRead
  /\ open' = [open EXCEPT ![1].key = index]
  /\ index' = index + 1
  /\ ptr' = SkipPackSeparators(ptr + 1)
  /\ UNCHANGED <<format, params, root, status>>

\* ParseStringValue, ParseIntValue, ParseFloatValue, ParseBoolValue
ParseScalar ==
  /\ AtValue
  /\ Here \in {"s", "i", "f", "b"}
  /\ CanRead
  /\ open' = Add(open, <<Here, index>>)
  /\ index' = index + 1
  /\ ptr' = SkipPackSeparators(ptr + 1)
  /\ UNCHANGED <<format, params, root, status>>

ParseNullValueTakes ==
  /\ AtValue
  /\ Here = "n"
  /\ open' = Add(open, <<Here, NoParam>>)
  /\ index' = index + 1
  /\ ptr' = SkipPackSeparators(ptr + 1)
  /\ UNCHANGED <<format, params, root, status>>

ParseNullValue ==
  /\ AtValue
  /\ Here = "n"
  /\ open' = Add(open, <<Here, NoParam>>)
  /\ ptr' = SkipPackSeparators(ptr + 1)
  /\ UNCHANGED <<format, params, index, root, status>>

Error(what) ==
  /\ status' = what
  /\ UNCHANGED <<format, params, ptr, open, root>>

FormatErrorRetries ==
  /\ \/ AtRoot /\ Here \notin {"{", "["}
     \/ AtKey /\ Here \notin {"}", "s"}
     \/ AtValue /\ Here \notin {"s", "i", "f", "b", "n", "{", "["}
  /\ IF Here = Nul THEN UNCHANGED status ELSE status' = "format"
  /\ UNCHANGED <<format, params, ptr, index, open, root>>

\* A character that cannot stand here, or the end of the format.
FormatError ==
  /\ \/ AtRoot /\ Here \notin {"{", "["}
     \/ AtKey /\ Here \notin {"}", "s"}
     \/ AtValue /\ Here \notin {"s", "i", "f", "b", "n", "{", "["}
  /\ Error("format")
  /\ UNCHANGED index

\* No parameter is left, or the provider cannot read it.
ParameterError ==
  /\ (AtKey /\ Here = "s") \/ (AtValue /\ Here \in {"s", "i", "f", "b"})
  /\ ~CanRead
  /\ Error("parameter")
  /\ index' = IF HasNextParam THEN index + 1 ELSE index

\* Pack, after ParseRoot
FinishAnywhere ==
  /\ status = "running"
  /\ root # None
  /\ status' = IF At(SkipPackSeparators(ptr)) = Nul THEN "packed" ELSE "trailing"
  /\ UNCHANGED <<format, params, ptr, index, open, root>>

Finish ==
  /\ status = "running"
  /\ root # None
  /\ status' = IF At(SkipPackWhitespace(ptr)) = Nul THEN "packed" ELSE "trailing"
  /\ UNCHANGED <<format, params, ptr, index, open, root>>

Step ==
  \/ OpenContainer
  \/ CloseContainer
  \/ ParseKey
  \/ ParseScalar
  \/ ParseNullValue
  \/ FormatError
  \/ ParameterError
  \/ Finish

Returned == status # "running" /\ UNCHANGED vars
Next == Step \/ Returned

\* A call runs to its end: nothing can interrupt it.
Spec == Init /\ [][Next]_vars /\ WF_vars(Step)

-----------------------------------------------------------------------------
(* Properties *)

\* The parser never looks past the NUL of the format, nor past the parameters
\* of the call.
TypeOK ==
  /\ format \in Format
  /\ params \in Params
  /\ ptr \in 1 .. Len(format) + 1
  /\ index \in 2 .. paramCount + 1
  /\ \A k \in DOMAIN open :
       /\ open[k].type \in {"{", "["}
       /\ open[k].key \in 2 .. index - 1 \cup {NoParam}
  /\ status \in {"running", "packed", "format", "parameter", "trailing"}

\* Every call returns, whatever the format is.
Returns == <>(status # "running")
=============================================================================
