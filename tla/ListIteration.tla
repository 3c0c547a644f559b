--------------------------- MODULE ListIteration ----------------------------
(***************************************************************************)
(* What an array and its iterators promise, without rings or indices: an   *)
(* iterator opened on a sequence hands out its elements one by one, in     *)
(* order, each once; it may remove the element it handed out last, and     *)
(* goes on with the rest.  Once the sequence has been changed in any other *)
(* way the iterator is void until it is opened again.                      *)
(***************************************************************************)
EXTENDS Integers, Sequences

CONSTANTS
  Item,
  Iter,
  None,      \* no current element
  Void       \* of an iterator that is closed, or that a change overtook

VARIABLES
  seq,       \* the elements
  todo,      \* what each iterator has still to hand out, or Void
  current    \* what it may remove

vars == <<seq, todo, current>>

Init ==
  /\ seq = << >>
  /\ todo = [i \in Iter |-> Void]
  /\ current = [i \in Iter |-> None]

\* A change by other means than an iterator: never two of the same element.
Edit ==
  /\ seq' \in Seq(Item)
  /\ \A j, k \in DOMAIN seq' : seq'[j] = seq'[k] => j = k
  /\ todo' = [i \in Iter |-> Void]
  /\ current' = [i \in Iter |-> None]

Open(i) ==
  /\ todo' = [todo EXCEPT ![i] = seq]
  /\ current' = [current EXCEPT ![i] = None]
  /\ UNCHANGED seq

Close(i) ==
  /\ todo' = [todo EXCEPT ![i] = Void]
  /\ current' = [current EXCEPT ![i] = None]
  /\ UNCHANGED seq

Advance(i) ==
  /\ todo[i] # Void
  /\ todo[i] # << >>
  /\ current' = [current EXCEPT ![i] = Head(todo[i])]
  /\ todo' = [todo EXCEPT ![i] = Tail(todo[i])]
  /\ UNCHANGED seq

Remove(i) ==
  /\ current[i] # None
  /\ \E k \in DOMAIN seq :
       /\ seq[k] = current[i]
       /\ seq' = SubSeq(seq, 1, k - 1) \o SubSeq(seq, k + 1, Len(seq))
  /\ todo' = [j \in Iter |-> IF j = i THEN todo[i] ELSE Void]
  /\ current' = [j \in Iter |-> None]

Next == Edit \/ \E i \in Iter : Open(i) \/ Close(i) \/ Advance(i) \/ Remove(i)

Spec == Init /\ [][Next]_vars
=============================================================================
