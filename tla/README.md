# Verification of sm-ext-yyjson

TLA+ models of the SourceMod extension *sm-ext-yyjson*, the TLC runs that check
them on small instances, and proofs, checked by TLAPS, that the most important
properties hold for every instance. `PROJECT.json` lists runs, mutants,
hazards, findings and theorems, and maps every definition to the lines it
models.

The extension wraps the C library yyjson for SourcePawn plugins and, through
`IJsonManager`, for other extensions. Natives run to completion on the game's
main thread: nothing is concurrent inside a call. What is hard is the *order*
of calls: many handles, children, iterators and extensions share documents
through reference counters; values are raw pointers into documents that other
handles change; every creating call has several failure paths.

## 1. Inventory

| Component | State | Operations | Hard behaviours |
|---|---|---|---|
| `RefCounted`, `RefPtr` (`RefCounted.h`) | a counter per document, one pointer per `RefPtr` | construct, copy, move, assign, `reset`, destroy, `make_ref` | aliases: assignment from itself or from a pointer to the same document; the order of `add_ref` and `release` |
| Wrappers `JsonValue`, `JsonArrIter`, `JsonObjIter` (`JsonManager.h`) | two `RefPtr` members of which one is set, raw value pointers, the cursor of an iterator | created by every creating manager function, deleted by the handle type's callback or `Release...` | failure half way through a creation; children and iterators that outlive the handle they came from |
| Handles (natives, `extension.cpp`; SourceMod's handle system is external) | handle table: handle to object | `CreateAndReturnHandle`, `CloneHandle`, close, `RemoveType` on unload | a handle refused after the object was made; any plugin may close any handle; unload order |
| Document operations of `JsonManager` | contents of documents | parse, write, copy, convert, compare, patch | patches replace the root under other wrappers; comparison across mutability |
| Array operations, `JsonArrIter` | a ring of values with a separate length; per iterator `idx`, `max`, `cur`, `pre` | get, set, append, insert, remove (one, first, last, range), clear, sort, rotate, search; `Next`, `HasNext`, `Index`, `Reset`, `Remove` | any call may change the array under an open iterator; removal while iterating; index arithmetic |
| Object operations, `JsonObjIter` | the same ring of keys with values; `m_currentKey` besides the library's cursor | get, set, remove, rename, clear, sort, rotate; `Next`, `Value`, `Get`, `Index`, `Reset`, `Remove` | duplicate keys; two records of the position |
| JSON Pointer operations | contents of documents | get, set, add, remove by path | always resolved from the document's root; creation of parents |
| Scalars and numbers | type, subtype and datum of a value; the format of a real | `Create*`, `Get*`, `Is*`, `Set*`, `ReadNumber`, `WriteNumber`, `ParseInt64Variant`, comparator of the sort | 32 and 64 bits, signed and unsigned, conversion to double; five copies of the rules by which a value is read; whose memory a string is in |
| Pack parser | position in the format, parameters consumed | `Pack` | format longer than the parameters, errors half way |
| Native layer (`JsonNatives.cpp`) | none | reads arguments, calls the manager, fills the plugin's cell or buffer, creates the handle | index conversion; the size of the plugin's buffer, the size that was announced, and what is written |
| Extension lifecycle (`extension.cpp`) | registered types, the manager | `SDK_OnLoad`, `SDK_OnUnload`, `OnHandleDestroy` | partial failure of load, order of unload |
| `NativeErrorBuffer`, templates, `IJsonManager.h`, `json.inc` | none | formatting, declarations | documentation that the code contradicts |

**Interactions.** A plugin calls a native with handles; the native resolves
them to wrappers (`GetValueFromHandle`), calls the manager, and wraps the
result in a handle. Closing a handle calls back `OnHandleDestroy`, which deletes
the wrapper; its `RefPtr` members release the document, and the last release
frees it with all its values. Another extension calls the manager directly and
must `Release...` what it got. A value in a mutable document is a node of the
document's pool; nodes are only freed with the document, so a wrapper of a
removed value stays readable.

**What makes each correct.** Counters equal the number of references, a document
is freed with its last holder and not before; an object has one owner and goes
with it; every failure path leaves nothing behind; a wrapper refers to exactly
one document; edits do to arrays and objects what they say; an iterator hands out
each element once and may remove it; no call follows a null pointer, however
calls are ordered; numbers survive being stored, sorted, written and parsed; every way of reading a value
says the same of it, and says what was put there by any of the ways of setting it; a
text is handed out whole or not at all; Pack accepts its format language and nothing else; a document contains only its own
values, each in one place, edits by name, by pointer or by patch do exactly what they
say, and an immutable document stays as it is. Across calls there is nothing that
must *eventually* happen: no queue, no timer, no thread, so properties are safety
properties. The one exception is inside a call, the loops of the Pack parser, which
must end for every format.

## 2. Modules

```
DocLifetime        what callers may rely on: a document lives while it has a holder
  ^  ^
  |  +-- RefPtrProgram   any program of RefPtr operations     EXTENDS RefCounted
  +----- JsonOwnership   objects, handles, unload             EXTENDS RefCounted
RefCounted         counters and RefPtr operations, as operators on a heap

ListIteration      what a sequence and its iterators promise
  ^  ^
  |  +-- JsonArray       one array and its iterators          EXTENDS MutRing
  +----- JsonObject      one object and its iterators         EXTENDS MutRing
MutRing            the library's ring of values and its cursor, as operators

JsonTree           the contents of documents and the calls that change them
JsonPack           one call of Pack, step by step
PackGrammar        the formats as a grammar, and JsonPack compared with it
JsonNumbers        numbers of one array: storing, sorting, searching, reading
JsonAccess         one value as a plugin puts, reads, tests and writes it
```

Arrows up are refinements (`INSTANCE ... WITH`). `MCx` modules add inputs, symmetry
sets and, for JsonTree, a view; `x_proofs` modules hold the theorems about `x`.
`JsonOwnership_proofs` also holds those about RefCounted and RefPtrProgram, and
`MutRing_proofs` the lemmas from which both kinds of ring are proved.

* **RefCounted** - a heap is a record: counters, allocated documents, plain
  (`yyjson_doc*` not yet in a `RefPtr`) documents, and the target of every
  `RefPtr` cell. One operator per member function of `RefPtr`, with the source's
  order of `add_ref`, `release` and assignment. Cells are the two members of each
  object and the temporaries of a call (`Tmp`, `DocRef`, `Param`).
* **RefPtrProgram** - a state machine that applies any of these operations to any
  cells, aliases included. Abstracts nothing but the types.
* **DocLifetime** - abstract: `holds`, who holds which document, and `live`, what is
  allocated; a holder is given a new document or another holder's, or lets go (of what it
  held, also when given something else), and the very same step frees exactly the
  documents no one holds any more.
* **JsonOwnership** - one action per native or `IJsonManager` call, whole: the
  manager function with each of its returns, then the handle's creation, which
  may fail. State: the heap, the kind of each object, the iterators'
  `m_isMutable`, the handle table, objects held raw by another extension, the types
  registered, whether there is a manager, and how far `SDK_OnUnload` has come. `Load`
  is `SDK_OnLoad` with each of its returns: after a failed one the types made so far
  stay registered, and a type whose name is taken is refused. Whether a parse, a lookup or an allocation succeeds
  is a choice; contents are abstracted.
* **MutRing** - yyjson is a git submodule that is not in the repository; the
  operators describe its mutable rings as the manager uses them, all marked
  external. They say what happens on a damaged ring too, because stale iterators
  damage rings. A pair of an object is one node.
* **JsonArray, JsonObject** - one action per operation that changes the container
  or an iterator. The gets by index (`ArrayGet`, `ArrayGetFirst`, `ArrayGetLast`,
  `ObjectGetKey`, `ObjectGetValueAt`) are operators on the state. Guards are the manager's checks, indices range over every
  `size_t` (`0..SizeMax`), so that wrap-around is reachable. `SetScalar` is any of
  the `Set*` functions applied to the container itself. History variables:
  `current` (the element handed out and not yet removed, or `Void` once something
  else changed the container), `careful` and, for objects, `intact`. No guard reads
  them. `careful` turns `FALSE` for good when an iterator removes something it has not
  just handed out; it is a condition on callers, not on the code, and most
  properties start with it. `TypeOK` and `NeverFollowsNull` do not.
* **JsonTree** - several documents, the nodes in them, and wrappers that point to
  nodes. One action per manager call that makes a wrapper or edits; whole, with
  what a patch does to the root and where it moves the wrapper. A node records the
  document it was allocated from, its content (a scalar, or that it is an object) and its
  members, a function from names to nodes. A *tree* is what is read from a node: a function from
  paths to contents; copies, patches and pointer calls are defined on trees
  (`MergePatch`, `JsonPatch`, `Graft`), links between nodes are what the actions change.
  Nodes are named by the copy that made them and dropped once nothing reaches them; a
  document is freed with its last wrapper, which is what JsonOwnership shows. Containers
  are objects without duplicate names (rings, duplicates and iterators are
  JsonObject's). A call that fails changes nothing, so it is a stuttering step and not
  written as an action; `call` is a history variable: the last edit and what it was
  given. No guard reads it.
* **JsonPack** - the recursive descent, with the recursion as a stack of open
  containers; a step is what the parser does between two looks at the format. State:
  place in the format, next parameter, the stack, the root, the outcome. A value is
  the format character and the parameter it was taken from.
* **PackGrammar** - what a format may be, by generation (`Words`) and not by parsing,
  and what it spells (`Spell`): written from the parser's cases, but without its
  order of steps.
* **JsonNumbers** - one array of numbers, each a subtype and a word, as the library
  stores them. One action per call that puts a number there, sorts, or writes and
  parses again; the searches and reads are operators on the state. The widths are
  constants, so 2^31 < 2^53 < 2^63 becomes 2 < 8 < 16 in the run. The comparator
  `Below` is written case by case like the source's; `sent` is a history variable.
  `std::sort` is external, and `SortOutcomes` says what it may leave. Up to
  `InsertionMax` elements it is an insertion sort (16 in libstdc++, which the builds for Linux
  link, 32 in MSVC's library), which leaves one result whatever the comparator. Of more
  elements it may leave any order that the comparator admits, if the
  comparator is the strict weak order that the standard requires (`WeakOrder`). If
  not, the behaviour is undefined. What the two libraries do then depends on less than
  that: if the comparator is at least a partial order (`PartialOrder`), any rearrangement
  is possible, but only that. In libstdc++ a scan for an element to exchange has no bound
  of its own. The pivot is a median of three, so the first scans meet an element on each side that
  does not go beyond it, and later ones meet elements they have exchanged; that elements do not go
  both before and after the pivot is all it takes. The insertions without a bound at the end stop at an
  earlier pivot, and the heap sort that takes over in deep recursions exchanges within
  bounds. MSVC bounds every scan. Without a partial order the model
  lets elements be lost and repeated.
* **JsonAccess** - one value, alone in an array or in an object, or a root, and a plugin
  with one array of characters. State: the value with its document's mutability, the
  plugin's text, the last call with what it returned and what it wrote into the
  plugin's buffer, the last size asked for, and, as a history variable, what the plugin
  last put there (`given`). One action per group of natives that differ in the type of
  their datum only: `CreateBool` .. `CreateString`, `FromStrings` .. `FromFloat`, the setters by
  key, index and pointer, the ones in place, and the readings. Which types each of the
  five ways of reading takes is spelled out for each, as in the source. A call that
  creates or replaces a value is followed by the plugin going on with the new one; the
  old one is what JsonOwnership and JsonTree are about. A string is a text and its
  length, either copied or at the plugin's array (`Input`), whose text may change under
  it (`Overwrite`); what is written to a buffer is which text and how many characters of
  it. Assumed: texts hold no NUL and none is the beginning of another; a reading native
  is told the true size of its buffer; the plugin looks at the result of a call before
  the next one. The room that the library needs to work in for `ToStringDirect` is a
  choice: it may fail with any buffer.
* **ListIteration** - abstract: `seq`, what each iterator has still `todo`, and its
  `current` element; a change by other means voids the iterators.

## 3. Runs

| Run | Bounds | Shows |
|---|---|---|
| `refptr` | 3 documents, 2 objects (7 cells) | counters are exact and DocLifetime is implemented under every alias pattern |
| `ownership` | 3 documents, 3 objects, 3 handles | calls are complete, nothing leaks or dangles, owners are unique, natives run only on whole loads, an unload leaves no type, manager, handle, object or document, DocLifetime is implemented |
| `array` | 3 values, 2 iterators, `SizeMax` 7 | every edit is exact at every index, the ring stays sound, ListIteration is implemented, `Index` is the position and the gets by index agree with it; under any calls no null pointer is ever followed and no length wraps |
| `array_double_remove` (violation) | 3 values, 1 iterator | a second `Remove` loses another element |
| `object` | 3 pairs, 2 names, 2 values, 1 iterator, up to 2 pairs to begin with | `Set` leaves one pair, `Remove` none, of a name that stands there more than once, and names double only where allowed; `Value`, `Index` and the gets by index are at the pair handed out, `Get` finds what is there, ListIteration is implemented; under any calls as `array` |
| `pack` | all formats of up to 3 characters, of up to 5 brackets and keys, of up to 4 characters of arrays, and longer nested ones; up to 7 parameters | exactly the grammar is accepted and built, parameters and format are never overrun, every call returns |
| `numbers` | 4 numbers, insertion sort up to 3 of them; ints of 2 bits, doubles exact up to 8, words of 5 bits | storing, sorting and parsing again keep the numbers; integers are sorted by value; the comparator is a partial order on all numbers; what was appended is found |
| `numbers_find_first` (violation) | same | `IndexOfInt64` in a parsed array |
| `tree` | 2 wrappers, 2 documents, 2 names, null and one other scalar, 4 nodes, paths of length 2 | documents hold only their own values, each in one place; edits, removals by name, pointer calls and patches do what they say and nothing else; immutable documents are frozen but for `Set*` |
| `tree_equals` (violation) | same | `Equals` of a value with one of the other mutability |
| `access` | a value of every type: 2 signed and 2 unsigned integers, 2 doubles and NaN, 2 texts, containers of 0 and 2 members; cells of 3 bits, words of 4, buffers of up to 6 bytes | every way of reading agrees with every other and with the tests and searches; texts are whole or refused, announced sizes suffice; what is put, by whichever way, is what is read, and strings are copies |
| `access_from_strings` (violation) | same | `JSONObject.FromStrings`, and the plugin's array reused |

**Why the bounds are enough.** *Documents:* the deepest call holds two at once
(`DeepCopy`, `ParseJSON`); a third one is a bystander. *Objects:* a parent, a
child or iterator, and one more. *Handles:* a clone and two others. *Values:* first,
middle and last differ; a removal that wraps needs two, a stale cursor a third;
values are never reused, so the number also bounds the inserts of a run.
*`SizeMax`:* larger than any length, and `start + count` wraps. The two iterators of
the array run interfere in every way two can; objects share the ring
code, so one iterator is enough for what is theirs alone (`m_currentKey`, `Get`).
Names and values are compared for equality only. *Formats:* a container in a
container, every character in every position, and every way to end too early are
short. *Numbers:* every boundary (largest int, last exact double, both signs of the
largest word, one beyond) has a number on each side in the sets of `MCJsonNumbers`;
a comparator that is not transitive shows with three elements, and four are more than `InsertionMax`,
so that both kinds of sort occur, on numbers that the comparator orders and on such that it does not.
*Trees:* two wrappers are a target and a source, in one document or in two; with two,
the calls that make a third wrapper from two (`DeepCopy`, `ApplyMergePatch`) take target and
source from the same wrapper, which loses nothing, as they read each for a different
purpose and change neither. Four nodes hold a value, the object around it, and what replaces
both; a path of length two has a parent to be created. States that differ only in
the names of nodes and in `call` are identified by `View`: it lists each node by every way
that leads to it from a root or a wrapper, which determines the state up to the names,
and neither a guard nor a state predicate tells more; `call` only labels the step
that has just been taken, and action properties are evaluated on the steps themselves.

*Access:* the texts differ in length by one and the buffers
range from none to one more than any text needs, so each boundary is met from both sides;
of the integers one fits a cell, one does not, one is negative and one only fits unsigned;
doubles are counted in quarters, of which a float holds every second, so that one is
changed by the conversion.

Symmetry is declared for sets whose members no definition tells apart. Deadlock is
checked in all runs: some call is always possible.

**Fairness.** Only `JsonPack` has a liveness property, `Returns`, under `WF_vars(Step)`: a
native runs on the one thread of the game until it returns, and nothing can
suspend it, so a parser that can take a step takes one.

## 4. Proofs

The theorems hold for every finite or infinite set of documents, objects, handles,
wrappers, iterators, names, texts and formats, for rings of any length, and for every width
of integers. They rest on the named assumptions about constants and on nothing else:

| Assumption | Says |
|---|---|
| `ObjAssumption`, `NoDocAssumption`, `HandleAssumption` | the null values and the temporaries are not members of the sets |
| `ScalarAssumption`, `SentinelAssumption`, `BoundAssumption` | the mark of an object is no scalar, `None` is no node, `Closed` no wrapper and no iterator, `Void` no node and no sequence; the bounds are numbers |
| `NodeAssumption` | `Null` is no node; the nodes a document ever makes are fewer than the largest `size_t`: a node takes more than one byte of memory |
| `InputAssumption` | a text that is parsed, and what a JSON Patch adds, is a tree: every path but the first extends that of an object |
| `FormatAssumption` | a format is a sequence of characters without NUL, which ends it |
| `WidthAssumption` | 2^31 < 2^53 < 2^63, and 2^53 is even |
| `ArgumentAssumption` | what plugins pass lies in the widths of its types; `InsertionMax` and `MaxLen` are numbers, the second at least 2 (`FromInt64` of two texts); neither bounds the other |
| `AccessAssumption` | numbers lie in their widths; cutting a double to a float twice is cutting it once, and stays within the tolerance of `IndexOfFloat`; `Input` and `NotANumber` are no texts; the JSON text of a value has a length, and the longest number fits the room that `WriteNumber` asks for |

* `JsonOwnership_proofs`, first part, RefCounted - each operator on a heap keeps it
  well-formed, changes only the cells it names, and frees a document exactly when the last
  cell lets go. The central fact is that a counter equals the cardinality of the set of
  cells that point to its document; `AddRefFacts` and `ReleaseFacts` give the two
  elementary steps, the others are compositions.
* Second part, RefPtrProgram - `CountsMatch`, and `RefinesLifetime`: every step of any
  program maps to a step of DocLifetime or a stutter.
* Third part, the extension itself - one inductive invariant,
  `IInv == TypeOK /\ CallsComplete /\ OneDocument /\ OwnedOnce /\ Unloading`.
  No part is inductive alone: `CallsComplete` (temporaries empty, counters exact,
  free storage holds nothing) is what lets a call start from a clean heap and a
  wrapper be built in free storage; `OneDocument` says which cell a child or an
  iterator copies; `OwnedOnce` says that an object deleted with its last handle is
  in no one else's hands; `Unloading` is `WholeLoads`, the invariant in `UnloadFreesAll`, with `TypesOfPhase`, which types are registered
  in each phase, and needs `OwnedOnce` to know that destroying the
  handles of a type destroys its objects. Each creating call is proved once, for
  all its outcomes, as *nothing happened* or *born*; each destroying one as *died*. From
  `IInv` follow `NothingLeaks` (with a bijection between the live objects
  on a document and the cells that point to it, so that `JSON.RefCount` is their number),
  `DocumentsAreFixed` (no call makes a surviving object refer to another document; stated
  only as a theorem) and `OwnershipRefinesLifetime`. `UnloadIsComplete` is about the step in which
  `SDK_OnUnload` returns: only the last `RemoveType` takes it (`OnlyRemoveTypeEnds`), by then
  `TypesOfPhase` leaves no other type, and every object is of a registered one. It says
  little of a load that fails, which no unload follows: by `WholeLoads` no native runs
  on what it left.
* `JsonTree_proofs` - for any number of wrappers, documents and nodes, with the invariant
  `IInv == Heap /\ Roots /\ Forest /\ Small /\ Shallow`. `OwnPool` is not inductive as the
  run states it: it looks at wrappers and members, while a call moves nodes from the heap to
  a root, from a member to a wrapper and back. `Heap` and `Roots` say of *every* node, reached
  or not, that it lies in the document of whatever refers to it; `Forest` says that nothing
  refers to a node twice, without which a copy linked into its own source would be shared;
  `Small` and `Shallow` are the bounds that `Settle` keeps; with `Shallow` no path is cut when
  a node is read, so that what it shows changes by what is linked and by nothing else. All calls end in `Settle`, which drops what
  is no longer reached: it is proved once to keep the invariant, and each call only has to show
  that what it hands to `Settle` is a heap, copies with their new link included. From the
  invariant follow `TypesHold`, `ValuesStayInTheirDocument` and `DocumentsAreForests`.
  `ImmutableStaysAsItIs` goes by way of `Changes(D)`: a step touches no node of a document
  outside `D`, and an immutable document is in `D` for `SetScalar` only; so what is read from
  it is the same function on paths. `EditsDoWhatTheySay` and `PatchesShow` compare trees, path by
  path (`Shows`, `Changed`, `Kept`, `Through`): in a forest one path leads through the changed
  member, and every other path shows what it showed; a copy shows the tree it was made of; a
  pointer call that creates parents is a graft below a chain of new objects (`Chained`,
  `GraftDeep`); what `Settle` drops was not to be seen. Removals by name, clears and scalars
  are compared the same way (`RemoveExact`, `ClearExact`, `ScalarExact`): the value shows its tree
  without the path, an empty object, or the scalar alone (`AloneShows`).
* `JsonPack_proofs` - for formats and calls of any length. `StaysWithin`: the invariant says in
  addition of every open container that its keys are parameters already consumed. The items
  it has collected are bounded by no constant, so the invariant says that *there is* a set
  they are from (`Stacked`). `EveryStepAdvances`: every step consumes a character or ends the
  call; with `StaysWithin` no format makes the parser loop, which is the safety half of
  `Returns`.
* `JsonNumbers_proofs` - for all widths: `BelowIsNumericOrder`, the comparator of
  `ArraySort` orders two integers of either subtype by their value, which makes it a
  strict weak order among integers; `ParsersAgree`, both copies of
  `ParseInt64Variant` take the same texts, namely those of numbers that fit. Both rest
  on `WordMeaning`, that a word written for a number is read back as that number. The
  invariant of the array is that it holds each number as often as `sent` says: a sort moves
  elements about (`TimesInserted` for the insertion sort, a bijection for the others), parsing again may change the subtype but
  not the meaning. `ReadsWhatWasPut` and `FindsWhatWasAppended` follow. `SortsByValue` is by
  induction over the prefixes that are already sorted (`SortFacts`): an element is placed after
  everything it does not belong before, which is only right because the comparator is a
  strict weak order on the numbers of the theorem (`PlaceOrders`). For the same reason longer arrays
  fall under `WeakOrder`, where `std::sort` keeps what it promises. That the
  comparator is a partial order on all numbers is the rest of `SortIsSound`, and
  makes `ReadsWhatWasPut` true of arrays of any length and content: conversion to a
  double is monotone, so that three numbers of any subtypes never contradict each other, even where
  equality as doubles is not transitive (`ComparatorNeverContradicts`); so every sort is a
  rearrangement.
* `JsonAccess_proofs` - for any texts, numbers, flags and buffers. `AllWaysAgree` follows from
  `TypeOK`: the five ways are one function of the types they take (`WaysAre`), and only truth
  values and reals need more than the type (`Truth`, `FoundAsFloat`). `TextsAreWhole` needs that
  the size the plugin remembers is that of the value as it is now (`SizeIsRight`), which every
  setter, every format and every change of a borrowed text must void. `ReadsAsPut` is not inductive:
  a string that happens to be read as it was put may lie in the plugin's array, and
  is gone when the plugin overwrites it. `GivenIsRead` says in addition that it lies elsewhere.
* `MutRing_proofs` - the library's operations, in two halves. The first is about *any* ring,
  a damaged one too. `Loose(L, S)`: exactly the values in `S` have ever been linked, and no
  link leads out of `S`; `Usual` adds that the end of the ring is one of them and that the
  length is at most their number. Each operation keeps this (`InsertLoose`, `RemoveLoose`,
  `RotateLoose`, ...). The second half is about a ring that `IsRing(L, s)`: the links lead once
  round the distinct values of `s` and back, and the length is that of `s`. Each operation
  gives the ring of another sequence (`InsertRing`, `RemoveRangeRing`, `RotateRing`,
  `AppendAllRing`, ...), which the last section brings into the words the properties use
  (`SubSeq`, `\o`, `Tail`, `Front`: `CutIs`, `Put1Is`, `TurnIs`).
* `JsonArray_proofs` and `JsonObject_proofs` - for any number of values, pairs and iterators,
  with two invariants. `Followable` asks nothing of callers: the ring is `Usual`, and what an
  iterator may follow (`cur`, `pre`, `m_currentKey`) is a value that has been linked. A stale
  iterator may join two rings or cut off a part, so soundness is not inductive; that links lead
  from linked values to linked values is. `LengthsAreBounded` and `NullIsNeverFollowed` follow: no
  `size_t` wraps, because no length outgrows the number of values ever linked. `WellKept` is for careful
  callers: the container is a ring of its `Elements`, and an open iterator that `current`
  has not given up is in step with it (`Stands`: its count is the length, and `cur`, `pre`
  and `m_currentKey` are where `idx` says). After `Get` only the weaker `Fits` is left, that it is
  somewhere on the ring; for `Get` to find a key that is enough, since it goes once around from
  wherever it is (`RingReaches`). From the two invariants follow
  `RingStaysSound`, `IndexIsWhereItIs`, `IteratorsKnowTheirPosition`, `GetFindsWhatIsThere`.
  - `EditsDoWhatTheySay` compares sequences before and after, call by call and at every
    index; that `start + count` cannot wrap is the manager's own test,
    `count <= arr_size - start`.
  - `EditsByNameDoWhatTheySay`: for Set, `obj_put` walks the ring while it removes from it. `PutRing` is by
    induction over the pairs that it has passed: those of another name stay, of the name
    the first is left, and what is still ahead is as it was (`AheadNext`, `AheadCut`), which
    is what the cursor needs to go on after a removal. For Remove it is the same
    kind of induction over `obj_remove_key`, which ends with the pairs of other names in their order
    (`RemoveKeyRing`: `Among(e, Node \ M)`). That names repeat after a `RenameKey` only is `OnlyRename`: what
    every other call leaves is taken from what was there (`StaysUnique`).
  - `IterationIsImplemented`, in both: every step that leaves the callers careful is a step of
    ListIteration or a stutter. A state maps to the sequence of the elements, what is
    left of it after `idx`, and `current` (`Values`, `TodoOf`, `CurrentOf`). A call through a
    handle maps to a change by other means, `Next` to handing out the head of `todo`, `Remove` to
    taking `current` out of the sequence while `todo` of this iterator stays and the others
    are void.

**How induction is done.** The library's induction theorems take an operator as a
parameter, which no installed prover can instantiate. The modules state what they need with
sets instead (`NaturalInduction`, `SequenceInduction`, `LeastNatural`, `GreatestNatural`). That a
recursive function of a `LET` or a fold exists and is what its equation says is proved from its
prefixes (`DescendRecursion`, `SortRecursion`, `WalkRecursion`, `AppendRecursion`,
`PutRecursion`, `RemoveRecursion`, `AmongRecursion`, `StepRecursion`).

**Only model-checked:** `Returns` is a liveness property and
`BothTakeTheSame` speaks of `ENABLED`, which the provers do not reach; `EveryStepAdvances` is
the safety half of the one, and `ParsersAgree` says of
the parsers what `BothTakeTheSame` says of the calls. `PacksTheGrammar` and `PacksWhatIsSpelled`
compare with the grammar of `PackGrammar`, which is generated by `RECURSIVE` operators.
The properties of the violation runs are refuted, so there is nothing to prove.

## 5. Findings

1. `JSONArrIter.Remove` called twice without `Next` succeeds and drops another
   element: the second call only shortens the array. `JSONObjIter.Remove` shares the
   code path.
2. `JSONArray.IndexOfInt64` does not find non-negative integers of a parsed document.
3. `JSON.Equals` of a mutable and an immutable value compares with the root of the
   immutable document, not with the value; the same two values are equal when the
   wrapper happens to hold the root.
4. `JSONObject.FromStrings` does not copy: keys and values of the new, mutable document
   point into the plugin's array. Once the plugin reuses it, the object reads, compares and
   writes what is there then, with the lengths of before. The same call on arrays copies,
   as do all setters of a mutable document. (`PutIsRead` says so of every other way to
   put a value.)

Without a run of their own, because the code contradicts the documentation on every
such call and there is nothing to explore:

* `JSONObjIter.Index` is -1 after `Get` on a mutable object, because `Get` leaves
  `m_currentKey` unset (`JsonManager.cpp:4382`; "Current index (0-based), or SIZE_MAX if
  iterator is invalid or not positioned", `IJsonManager.h:1900`);
* `GetInt64` and its four relatives return true with the number cut short when the buffer
  is too small ("True on success, false on failure", `json.inc:544`);
* the example of "Correct usage" in `IJsonManager.h:247` sizes the buffer of `WriteToString`
  by `GetSerializedSize`, which leaves out the room that `IJsonManager.h:98` asks for;
* `SetBool` .. `SetNull` turn an array or object of a mutable document into a scalar, for
  which `json.inc:333` says "false if value is object or array";
* `MergePatchInPlace` and `JsonPatchInPlace` on a value inside a document patch the document
  from its root, and the wrapper then holds the root ("Apply a JSON Merge Patch (RFC 7396)
  to this value in place", `json.inc:188`); `PatchShowsInTarget` says what they do;
* a number read as raw by `ReadNumber` stays in the plugin's array, also in its mutable document;
* `JSON.Pack` ignores arguments that its format does not use ("@error If format string
  is invalid or arguments don't match", `json.inc:119`);
* `JSONArray.Sort` does not sort by value when doubles stand among integers beyond 2^53:
  it compares an integer with a double as doubles, which is not transitive with the
  exact order of integers (`json.inc:1940`). Nor is it then the strict weak order that `std::sort`
  requires, so that in long arrays the behaviour is undefined by the standard;
  `SortIsSound` says what holds;
* `JSONArray.IndexOfInt` takes a 64-bit integer for its low 32 bits (`json.inc:1898`);
* `SetBool` .. `SetNull` change scalars of immutable documents, which "are read-only and
  cannot be modified" (`README.md:419`; `json.inc:289` warns of it); `ImmutableIsFrozen`
  excepts exactly these calls;
* `DeepCopy` makes a document of its own; by `json.inc:401` the value belongs to `targetDoc`'s;
* `JSON.RefCount` includes open iterators (documented as the number of JSON objects;
  `NoLeakNoDangling` says what it counts), and
  `JSONObjIter.Value` after `Remove` returns the removed pair's value.

Met while modelling `SDK_OnLoad`: if it fails after the first type was created, it does not remove
what it registered, and as no `SDK_OnUnload` follows, the names stay taken and later loads are
refused. Nothing in the repository promises otherwise; `UnloadFreesAll` says that natives never run
on such a rest, and that a load that succeeded and was unloaded leaves none.

Met while modelling the library's cursor, and the reason why `careful` of
JsonObject excludes `Remove` after `Get`: when `Get` wraps around the end, `idx` is
corrected to one less than the position, and a later `Remove` of the last pair does
not move the end of the ring. Nothing in the repository promises otherwise, so
it is a condition on callers here.

## 6. Not modelled

* Iterators over immutable containers: nothing changes under them.
* Arrays inside the documents of JsonTree, and array indices in a pointer: the library
  resolves them, and the manager treats what they lead to like any other value.
* Writing to files; `GetTypeDesc`, `GetReadSize`, `GetValCount`; the texts of errors.
* The text formats of yyjson: `JsonLen`, what a text spells, and the working room are
  parameters or choices.
* Memory exhaustion inside the library's pool.
* yyjson and SourceMod themselves beyond what the extension uses.
* That another extension releases what it got before the types are removed on unload
  is assumed, as SourceMod unloads dependent extensions first.
* `IJsonManager.h` and `json.inc` declare and document; the findings quote them.

## 7. Plan

Done: every module of section 2, model-checked, and every safety property and refinement that
a passing run checks proved, but for those that section 4 lists as only model-checked.

What would say more:

| Next | Contents |
|---|---|
| arrays in JsonTree | a document that mixes arrays and objects, and pointers with indices |
| JsonPack against its grammar | an inductive invariant that says what the stack of open containers has spelled so far; `PackGrammar` would first have to be written without `RECURSIVE` |
| iterators over immutable containers | they share `idx` and `max` with the mutable ones, but nothing changes under them |
