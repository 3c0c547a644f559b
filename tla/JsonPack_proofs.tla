-------------------------- MODULE JsonPack_proofs ---------------------------
(* For formats and parameters of any length: the parser stays within both,  *)
(* and every step brings it nearer to the end of the call.                  *)
EXTENDS JsonPack, SequenceTheorems, WellFoundedInduction, TLAPS

-----------------------------------------------------------------------------
(* Induction, stated with sets so that the provers can use it *)

\* Every set of natural numbers has a least member.
LEMMA LeastNatural ==
  ASSUME NEW S \in SUBSET Nat, S # {}
  PROVE  \E m \in S : \A k \in S : m <= k
<1> DEFINE R == {p \in Nat \X Nat : p[1] < p[2]}
<1>1. IsWellFoundedOn(R, Nat)
  <2>1. R = OpToRel(<, Nat)
    BY Zenon DEF OpToRel
  <2> QED BY <2>1, NatLessThanWellFounded
<1>2. \A x, y \in Nat : x < y => <<x, y>> \in R
  OBVIOUS
<1> HIDE DEF R
<1>3. PICK m \in S : \A k \in S : <<k, m>> \notin R
  BY <1>1, WFMin
<1>4. \A k \in S : m <= k
  <2> TAKE k \in S
  <2>1. k \in Nat /\ m \in Nat
    OBVIOUS
  <2>2. ~(k < m)
    BY <1>2, <1>3, <2>1
  <2> QED BY <2>1, <2>2
<1> QED BY <1>4

\* A container that is being parsed, with one of the item lists I, when the
\* next parameter is number i.
Container(I, i) == [type : {"{", "["}, items : I, key : (2 .. i - 1) \cup {NoParam}]

\* A sequence of containers, whatever they have collected.
Stacked(stack, i) == \E I : stack \in Seq(Container(I, i))

\* The invariant that carries TypeOK.
IInv ==
  /\ format \in Format
  /\ params \in Params
  /\ ptr \in 1 .. Len(format) + 1
  /\ index \in 2 .. paramCount + 1
  /\ Stacked(open, index)
  /\ status \in {"running", "packed", "format", "parameter", "trailing"}

LEMMA Lengths ==
  ASSUME IInv PROVE Len(format) \in Nat /\ Len(params) \in Nat
<1>1. format \in Seq(STRING) /\ params \in Seq(BOOLEAN)
  BY FormatAssumption, ParamsAssumption DEF IInv
<1> QED BY <1>1

\* The places that are skipped end at a character that is none of C: at the
\* latest at the NUL.
LEMMA SkipStops ==
  ASSUME IInv, NEW C, Nul \notin C, NEW p \in 1 .. Len(format) + 1
  PROVE  /\ SkipWhile(C, p) \in p .. Len(format) + 1
         /\ At(SkipWhile(C, p)) \notin C
<1>1. Len(format) \in Nat
  BY Lengths
<1> DEFINE S == {q \in p .. Len(format) + 1 : At(q) \notin C}
<1>2. Len(format) + 1 \in S
  <2>1. At(Len(format) + 1) = Nul
    BY <1>1 DEF At
  <2> HIDE DEF Nul
  <2> QED BY <1>1, <2>1
<1>3. S \in SUBSET Nat
  BY <1>1
<1>4. PICK m \in S : \A k \in S : m <= k
  <2> HIDE DEF S
  <2> QED BY <1>2, <1>3, LeastNatural
<1>5. \A r \in p .. m - 1 : At(r) \in C
  <2> TAKE r \in p .. m - 1
  <2>1. r \in p .. Len(format) + 1 /\ ~(m <= r)
    BY <1>1, <1>4
  <2>2. r \notin S
    BY <1>4, <2>1
  <2> QED BY <2>1, <2>2
<1>6. \E q \in p .. Len(format) + 1 : At(q) \notin C /\ \A r \in p .. q - 1 : At(r) \in C
  BY <1>4, <1>5
<1>7. SkipWhile(C, p) \in p .. Len(format) + 1 /\ At(SkipWhile(C, p)) \notin C
  BY <1>6, Zenon DEF SkipWhile
<1> QED BY <1>7

LEMMA SkipsAhead ==
  ASSUME IInv, Here # Nul
  PROVE  /\ ptr + 1 \in 1 .. Len(format) + 1
         /\ SkipPackSeparators(ptr + 1) \in 1 .. Len(format) + 1
         /\ SkipPackSeparators(ptr + 1) > ptr
<1>1. Len(format) \in Nat
  BY Lengths
<1>2. ptr + 1 \in 1 .. Len(format) + 1
  BY <1>1 DEF IInv, Here, At
<1>3. Nul \notin Separator
  BY DEF Nul, Separator
<1>4. SkipWhile(Separator, ptr + 1) \in (ptr + 1) .. Len(format) + 1
  BY <1>2, <1>3, SkipStops
<1>5. ptr \in Nat
  BY <1>1 DEF IInv
<1> QED BY <1>1, <1>2, <1>4, <1>5 DEF SkipPackSeparators

\* A container with an older count of parameters is one with a newer, and with
\* more item lists to choose from.
LEMMA Wider ==
  ASSUME NEW I, NEW J, I \subseteq J, NEW i \in Int, NEW j \in Int, i <= j
  PROVE  Container(I, i) \subseteq Container(J, j)
<1> SUFFICES ASSUME NEW c \in Container(I, i) PROVE c \in Container(J, j)
  OBVIOUS
<1>1. c.type \in {"{", "["} /\ c.items \in J /\ c.key \in (2 .. j - 1) \cup {NoParam}
  <2>1. c.type \in {"{", "["} /\ c.items \in I /\ c.key \in (2 .. i - 1) \cup {NoParam}
    BY DEF Container
  <2>2. (2 .. i - 1) \subseteq (2 .. j - 1)
    OBVIOUS
  <2> QED BY <2>1, <2>2
<1>2. c = [type |-> c.type, items |-> c.items, key |-> c.key]
  BY DEF Container
<1>3. PICK t \in {"{", "["}, s \in J, k \in (2 .. j - 1) \cup {NoParam} : t = c.type /\ s = c.items /\ k = c.key
  BY <1>1
<1>4. c = [type |-> t, items |-> s, key |-> k]
  BY <1>2, <1>3
<1> QED BY <1>4 DEF Container

LEMMA StacksUp ==
  ASSUME NEW I, NEW i, NEW stack \in Seq(Container(I, i))
  PROVE  Stacked(stack, i)
BY Zenon DEF Stacked

LEMMA Unstack ==
  ASSUME NEW i, NEW stack, Stacked(stack, i)
  PROVE  \E I : stack \in Seq(Container(I, i))
BY Zenon DEF Stacked

LEMMA SeqWidens ==
  ASSUME NEW S, NEW T, S \subseteq T, NEW s \in Seq(S)
  PROVE  s \in Seq(T)
OBVIOUS

LEMMA TailLeft ==
  ASSUME NEW S, NEW s \in Seq(S), s # << >>, Len(s) # 1
  PROVE  Tail(s) \in Seq(S) /\ Tail(s) # << >>
<1>1. Len(s) \in Nat \ {0}
  BY EmptySeq
<1>2. PICK t \in Seq(S) : t = Tail(s)
  BY HeadTailProperties
<1>3. Len(t) = Len(s) - 1
  BY <1>2, HeadTailProperties
<1>4. t # << >>
  BY <1>1, <1>3
<1> QED BY <1>2, <1>4

\* A container that collects a value is a container.
LEMMA AddKeeps ==
  ASSUME NEW i \in Int, NEW j \in Int, i <= j, NEW I, NEW stack \in Seq(Container(I, i)), stack # << >>,
         NEW x
  PROVE  Stacked(Add(stack, x), j)
<1>1. PICK hd \in Container(I, i), tl \in Seq(Container(I, i)) : hd = Head(stack) /\ tl = Tail(stack)
  BY HeadTailProperties
<1>2. PICK a, b : a = Append(hd.items, x) /\ b = Append(hd.items, <<hd.key, x>>)
  OBVIOUS
<1>3. PICK J : J = I \cup {a, b}
  OBVIOUS
<1>4. Container(I, i) \subseteq Container(J, j)
  BY <1>3, Wider
<1>5. PICK new : new = IF hd.type = "[" THEN [hd EXCEPT !.items = a]
                       ELSE [hd EXCEPT !.items = b, !.key = NoParam]
  OBVIOUS
<1>6. new \in Container(J, j)
  <2>1. a \in J /\ b \in J
    BY <1>3
  <2>2. hd \in Container(J, j)
    BY <1>4
  <2>3. CASE hd.type = "["
    <3>1. new = [hd EXCEPT !.items = a]
      BY <1>5, <2>3
    <3> QED BY <2>1, <2>2, <3>1 DEF Container
  <2>4. CASE hd.type # "["
    <3>1. new = [hd EXCEPT !.items = b, !.key = NoParam]
      BY <1>5, <2>4
    <3> QED BY <2>1, <2>2, <3>1 DEF Container
  <2> QED BY <2>3, <2>4
<1>7. Add(stack, x) = <<new>> \o tl
  BY <1>1, <1>2, <1>5 DEF Add
<1>8. tl \in Seq(Container(J, j)) /\ <<new>> \in Seq(Container(J, j))
  <2>1. tl \in Seq(Container(J, j))
    BY <1>4, SeqWidens
  <2> QED BY <1>6, <2>1
<1>9. Add(stack, x) \in Seq(Container(J, j))
  BY <1>7, <1>8
<1> QED BY <1>9, StacksUp

LEMMA InitHolds == ASSUME Init PROVE IInv
<1>1. Len(format) \in Nat /\ Len(params) \in Nat
  BY FormatAssumption, ParamsAssumption DEF Init
<1>2. Stacked(<< >>, index)
  <2>1. << >> \in Seq(Container({}, index))
    OBVIOUS
  <2> QED BY <2>1, StacksUp
<1> QED BY <1>1, <1>2 DEF Init, IInv, paramCount

LEMMA StepHolds == ASSUME IInv, Step PROVE IInv'
<1>1. Len(format) \in Nat /\ Len(params) \in Nat /\ paramCount = Len(params) + 1
  BY Lengths DEF paramCount
<1>2. ptr \in 1 .. Len(format) + 1 /\ index \in 2 .. paramCount + 1
  BY DEF IInv
<1>3. PICK I : open \in Seq(Container(I, index))
  <2>1. Stacked(open, index)
    BY DEF IInv
  <2> QED BY <2>1, Unstack
<1>4. CASE OpenContainer
  <2>1. Here \in {"{", "["} /\ Here # Nul /\ ptr' = SkipPackSeparators(ptr + 1)
        /\ UNCHANGED <<format, params, index, status>>
    BY <1>4 DEF OpenContainer, Nul
  <2>2. ptr' \in 1 .. Len(format) + 1
    BY <1>1, <1>2, <2>1, SkipsAhead
  <2>3. PICK J : J = I \cup {<< >>}
    OBVIOUS
  <2>4. PICK new : new = [type |-> Here, items |-> << >>, key |-> NoParam]
    OBVIOUS
  <2>5. new \in Container(J, index)
    <3>1. << >> \in J
      BY <2>3
    <3> QED BY <2>1, <2>4, <3>1 DEF Container
  <2>6. open' = <<new>> \o open
    BY <1>4, <2>4 DEF OpenContainer
  <2>7. open' \in Seq(Container(J, index))
    <3>1. I \subseteq J /\ index \in Int /\ index <= index
      BY <1>2, <2>3
    <3>2. Container(I, index) \subseteq Container(J, index)
      BY <3>1, Wider
    <3>3. open \in Seq(Container(J, index))
      BY <1>3, <3>2, SeqWidens
    <3> QED BY <2>5, <2>6, <3>3
  <2>8. Stacked(open', index)
    BY <2>7, StacksUp
  <2> QED BY <2>1, <2>2, <2>8 DEF IInv, paramCount
<1>5. CASE CloseContainer
  <2>1. Here \in {"}", "]"} /\ Here # Nul /\ open # << >>
        /\ UNCHANGED <<format, params, index, status>>
    BY <1>5 DEF CloseContainer, AtEnd, AtKey, AtItem, Nul
  <2>x. PICK x : x = <<open[1].type, open[1].items>>
    OBVIOUS
  <2>2. CASE Len(open) = 1
    <3>1. open' = << >> /\ ptr' = ptr + 1
      BY <1>5, <2>2 DEF CloseContainer
    <3>2. ptr' \in 1 .. Len(format) + 1
      BY <2>1, <3>1, SkipsAhead
    <3>3. Stacked(open', index)
      <4>1. open' \in Seq(Container(I, index))
        BY <3>1
      <4> QED BY <4>1, StacksUp
    <3> QED BY <2>1, <3>2, <3>3 DEF IInv, paramCount
  <2>3. CASE Len(open) # 1
    <3>1. open' = Add(Tail(open), x) /\ ptr' = SkipPackSeparators(ptr + 1)
      BY <1>5, <2>x, <2>3 DEF CloseContainer
    <3>2. ptr' \in 1 .. Len(format) + 1
      BY <1>1, <1>2, <2>1, <3>1, SkipsAhead
    <3>3. Tail(open) \in Seq(Container(I, index)) /\ Tail(open) # << >>
      BY <1>3, <2>1, <2>3, TailLeft
    <3>4. index \in Int /\ index <= index
      BY <1>2
    <3>5. Stacked(open', index)
      BY <3>1, <3>3, <3>4, AddKeeps
    <3> QED BY <2>1, <3>2, <3>5 DEF IInv, paramCount
  <2> QED BY <2>2, <2>3
<1>6. ASSUME CanRead, Here # Nul, ptr' = SkipPackSeparators(ptr + 1), index' = index + 1,
             UNCHANGED <<format, params, status>>, Stacked(open', index + 1)
      PROVE  IInv'
  <2>1. ptr' \in 1 .. Len(format) + 1
    BY <1>1, <1>2, <1>6, SkipsAhead
  <2>2. index' \in 2 .. paramCount + 1
    BY <1>1, <1>2, <1>6 DEF CanRead, HasNextParam
  <2> QED BY <1>6, <2>1, <2>2 DEF IInv, paramCount
<1>7. CASE ParseKey
  <2>1. /\ Here = "s" /\ Here # Nul /\ CanRead /\ open # << >> /\ open' = [open EXCEPT ![1].key = index]
        /\ ptr' = SkipPackSeparators(ptr + 1) /\ index' = index + 1
        /\ UNCHANGED <<format, params, status>>
    BY <1>7 DEF ParseKey, AtKey, Nul
  <2>2. open' \in Seq(Container(I, index + 1))
    <3> DEFINE new == [open[1] EXCEPT !.key = index]
    <3>1. Len(open) \in Nat /\ Len(open) >= 1 /\ \A k \in 1 .. Len(open) : open[k] \in Container(I, index)
      BY <1>3, <2>1
    <3>2. Container(I, index) \subseteq Container(I, index + 1)
      BY <1>2, Wider
    <3>3. new \in Container(I, index + 1)
      <4>1. open[1] \in Container(I, index + 1) /\ index \in 2 .. (index + 1) - 1
        BY <1>2, <3>1, <3>2
      <4> QED BY <4>1 DEF Container
    <3>4. open' = [open EXCEPT ![1] = new]
      BY <2>1
    <3> HIDE DEF new
    <3>5. open \in Seq(Container(I, index + 1))
      BY <1>3, <3>2, SeqWidens
    <3> QED BY <3>1, <3>3, <3>4, <3>5, ExceptSeq
  <2>3. Stacked(open', index + 1)
    BY <2>2, StacksUp
  <2> QED BY <1>6, <2>1, <2>3
<1>8. CASE ParseScalar
  <2>1. /\ Here \in {"s", "i", "f", "b"} /\ Here # Nul /\ CanRead /\ open # << >>
        /\ open' = Add(open, <<Here, index>>)
        /\ ptr' = SkipPackSeparators(ptr + 1) /\ index' = index + 1
        /\ UNCHANGED <<format, params, status>>
    BY <1>8 DEF ParseScalar, AtValue, AtMember, AtItem, Nul
  <2>2. Stacked(open', index + 1)
    <3>1. index \in Int /\ index + 1 \in Int /\ index <= index + 1
      BY <1>2
    <3>2. PICK x : x = <<Here, index>>
      OBVIOUS
    <3> QED BY <1>3, <2>1, <3>1, <3>2, AddKeeps
  <2> QED BY <1>6, <2>1, <2>2
<1>9. CASE ParseNullValue
  <2>1. /\ Here = "n" /\ Here # Nul /\ open # << >>
        /\ open' = Add(open, <<Here, NoParam>>)
        /\ ptr' = SkipPackSeparators(ptr + 1)
        /\ UNCHANGED <<format, params, index, status>>
    BY <1>9 DEF ParseNullValue, AtValue, AtMember, AtItem, Nul
  <2>2. Stacked(open', index)
    <3>1. index \in Int /\ index <= index
      BY <1>2
    <3>2. PICK x : x = <<Here, NoParam>>
      OBVIOUS
    <3> QED BY <1>3, <2>1, <3>1, <3>2, AddKeeps
  <2>3. ptr' \in 1 .. Len(format) + 1
    BY <1>1, <1>2, <2>1, SkipsAhead
  <2> QED BY <2>1, <2>2, <2>3 DEF IInv, paramCount
<1>10. CASE FormatError
  BY <1>10 DEF FormatError, Error, IInv, paramCount
<1>11. CASE ParameterError
  <2>1. /\ status' = "parameter" /\ UNCHANGED <<format, params, ptr, open>>
        /\ index' = IF HasNextParam THEN index + 1 ELSE index
    BY <1>11 DEF ParameterError, Error
  <2>2. index' \in 2 .. paramCount + 1 /\ index <= index'
    BY <1>1, <1>2, <2>1 DEF HasNextParam
  <2>3. Container(I, index) \subseteq Container(I, index')
    BY <1>2, <2>2, Wider
  <2>4. Stacked(open', index')
    <3>1. open' \in Seq(Container(I, index'))
      BY <1>3, <2>1, <2>3, SeqWidens
    <3> QED BY <3>1, StacksUp
  <2> QED BY <2>1, <2>2, <2>4 DEF IInv, paramCount
<1>12. CASE Finish
  BY <1>12 DEF Finish, IInv, paramCount
<1> QED BY <1>4, <1>5, <1>7, <1>8, <1>9, <1>10, <1>11, <1>12 DEF Step

LEMMA InvariantHolds == Spec => []IInv
<1>1. Init => IInv
  BY InitHolds
<1>2. IInv /\ [Next]_vars => IInv'
  <2>1. CASE Step
    BY <2>1, StepHolds
  <2>2. CASE UNCHANGED vars
    BY <2>2 DEF vars, IInv, paramCount
  <2> QED BY <2>1, <2>2 DEF Next, Returned
<1> QED BY <1>1, <1>2, PTL DEF Spec

\* The parser never looks past the NUL of the format and never asks for a
\* parameter that was not passed (m_ptr and m_currentIndex of ParseObject,
\* ParseArray and the Parse*Value functions), for formats of any length.
THEOREM StaysWithin == Spec => []TypeOK
<1>1. ASSUME IInv PROVE TypeOK
  <2>1. PICK I : open \in Seq(Container(I, index))
    <3>1. Stacked(open, index)
      BY <1>1 DEF IInv
    <3> QED BY <3>1, Unstack
  <2>2. \A k \in DOMAIN open : open[k] \in Container(I, index)
    BY <2>1
  <2>3. \A k \in DOMAIN open :
          open[k].type \in {"{", "["} /\ open[k].key \in (2 .. index - 1) \cup {NoParam}
    BY <2>2 DEF Container
  <2> QED BY <1>1, <2>3 DEF IInv, TypeOK
<1> QED BY <1>1, InvariantHolds, PTL

\* A step consumes a character or ends the call.
Advances == ptr' > ptr \/ (status = "running" /\ status' # "running")

\* Every step of the parser consumes a character of the format or ends the call.
\* As it stays within the format, no call takes more steps than the format has
\* characters and one: no format makes Pack loop.
THEOREM EveryStepAdvances == Spec => [][Advances /\ format' = format]_vars
<1>1. ASSUME IInv, [Next]_vars PROVE [Advances /\ format' = format]_vars
  <2>1. ptr \in Nat /\ Len(format) \in Nat
    BY <1>1, Lengths DEF IInv
  <2>2. CASE OpenContainer \/ CloseContainer \/ ParseKey \/ ParseScalar \/ ParseNullValue
    <3>1. Here # Nul
      BY <2>2 DEF OpenContainer, CloseContainer, AtEnd, ParseKey, ParseScalar, ParseNullValue, Nul
    <3>2. ptr' \in {ptr + 1, SkipPackSeparators(ptr + 1)} /\ format' = format
      BY <2>2 DEF OpenContainer, CloseContainer, ParseKey, ParseScalar, ParseNullValue
    <3>3. ptr' > ptr
      BY <1>1, <2>1, <3>1, <3>2, SkipsAhead
    <3> QED BY <3>2, <3>3 DEF Advances
  <2>3. CASE FormatError \/ ParameterError \/ Finish
    BY <2>3 DEF FormatError, ParameterError, Finish, Error, Advances, AtRoot, AtKey, AtValue,
                AtItem, AtMember, Parsing
  <2>4. CASE UNCHANGED vars
    BY <2>4
  <2> QED BY <1>1, <2>2, <2>3, <2>4 DEF Next, Step, Returned
<1> QED BY <1>1, InvariantHolds, PTL DEF Spec
=============================================================================
