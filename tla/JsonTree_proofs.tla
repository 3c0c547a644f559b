-------------------------- MODULE JsonTree_proofs ---------------------------
(* The contents of documents, for any number of wrappers, documents and     *)
(* nodes: no call links a value of one document into another, what an        *)
(* immutable document holds stays as it is, and edits and patches leave      *)
(* exactly what they say.                                                    *)
EXTENDS JsonTree, FiniteSetTheorems, SequenceTheorems, WellFoundedInduction, TLAPS

-----------------------------------------------------------------------------
(* Induction, stated with sets so that the provers can use it *)

\* Every set of natural numbers has a least member.
LEMMA LeastNatural ==
  ASSUME NEW S \in SUBSET Nat, S # {}
  PROVE  \E m \in S : \A k \in S : m <= k
<1> DEFINE R == {p \in Nat \X Nat : p[1] < p[2]}
<1>1. IsWellFoundedOn(R, Nat)
  <2>1. R = OpToRel(<, Nat)
    BY Zenon DEF OpToRel
  <2> QED BY <2>1, NatLessThanWellFounded
<1>2. \A x, y \in Nat : x < y => <<x, y>> \in R
  OBVIOUS
<1> HIDE DEF R
<1>3. PICK m \in S : \A k \in S : <<k, m>> \notin R
  BY <1>1, WFMin
<1>4. \A k \in S : m <= k
  <2> TAKE k \in S
  <2>1. k \in Nat /\ m \in Nat
    OBVIOUS
  <2>2. ~(k < m)
    BY <1>2, <1>3, <2>1
  <2> QED BY <2>1, <2>2
<1> QED BY <1>4

\* A set of natural numbers that has a member in 0 .. n and is not empty above
\* has a greatest one there.
LEMMA GreatestNatural ==
  ASSUME NEW n \in Nat, NEW S \in SUBSET (0 .. n), S # {}
  PROVE  \E m \in S : \A k \in S : k <= m
<1> DEFINE T == {n - k : k \in S}
<1>1. T \in SUBSET Nat /\ T # {}
  <2>1. \A k \in S : k \in Int /\ n - k \in Nat
    OBVIOUS
  <2> QED BY <2>1
<1>2. PICK m \in T : \A k \in T : m <= k
  <2> HIDE DEF T
  <2> QED BY <1>1, LeastNatural
<1>3. PICK g \in S : m = n - g
  BY <1>2
<1>4. \A k \in S : n - g <= n - k
  BY <1>2, <1>3
<1>5. \A k \in S : k <= g
  <2> TAKE k \in S
  <2>1. k \in 0 .. n /\ g \in 0 .. n
    OBVIOUS
  <2> QED BY <1>4, <2>1
<1> QED BY <1>5

\* To show that all numbers have a property, one shows it of the set of those
\* that do.
LEMMA NaturalInduction ==
  ASSUME NEW S, 0 \in S, \A n \in S \cap Nat : n + 1 \in S
  PROVE  Nat \subseteq S
<1> SUFFICES ASSUME Nat \ S # {} PROVE FALSE
  OBVIOUS
<1> DEFINE T == Nat \ S
<1>1. PICK m \in T : \A k \in T : m <= k
  <2>1. T \in SUBSET Nat /\ T # {}
    OBVIOUS
  <2> HIDE DEF T
  <2> QED BY <2>1, LeastNatural
<1>2. m \in Nat /\ m # 0
  BY <1>1
<1>3. m - 1 \in Nat /\ ~(m <= m - 1)
  BY <1>2
<1>4. m - 1 \in S
  BY <1>1, <1>3
<1>5. m - 1 + 1 \in S
  BY <1>3, <1>4
<1> QED BY <1>1, <1>2, <1>5

\* Sequences are built by appending elements.
LEMMA SequenceInduction ==
  ASSUME NEW A, NEW S, << >> \in S,
         \A p \in S \cap Seq(A), x \in A : Append(p, x) \in S
  PROVE  Seq(A) \subseteq S
<1> DEFINE T == {n \in Nat : \A p \in Seq(A) : Len(p) = n => p \in S}
<1>1. 0 \in T
  <2>1. \A p \in Seq(A) : Len(p) = 0 => p = << >>
    BY EmptySeq
  <2> QED BY <2>1
<1>2. \A n \in T \cap Nat : n + 1 \in T
  <2> SUFFICES ASSUME NEW n \in Nat, \A p \in Seq(A) : Len(p) = n => p \in S,
                      NEW p \in Seq(A), Len(p) = n + 1
               PROVE  p \in S
    OBVIOUS
  <2> DEFINE q == SubSeq(p, 1, n)
  <2>1. q \in Seq(A) /\ Len(q) = n /\ p[n + 1] \in A
    OBVIOUS
  <2>2. p = Append(q, p[n + 1])
    OBVIOUS
  <2> HIDE DEF q
  <2> QED BY <2>1, <2>2
<1>3. Nat \subseteq T
  <2> HIDE DEF T
  <2> QED BY <1>1, <1>2, NaturalInduction
<1>4. \A p \in Seq(A) : Len(p) \in Nat
  OBVIOUS
<1> QED BY <1>3, <1>4

-----------------------------------------------------------------------------
(* Following a path *)

\* The nodes on the way from n along the first m names of p.
Follows(nd, n, p, m, at) ==
  /\ at[0] = n
  /\ \A i \in 1..m : at[i] = Child(nd, at[i - 1], p[i])

LEMMA DescendRecursion ==
  ASSUME NEW nd, NEW n, NEW p, Len(p) \in Nat
  PROVE  \E at : Follows(nd, n, p, Len(p), at) /\ Descend(nd, n, p) = at[Len(p)]
<1> DEFINE Good(at, m) == at = [i \in 0..m |-> IF i = 0 THEN n ELSE Child(nd, at[i - 1], p[i])]
           S == {m \in Nat : \E at : Good(at, m)}
<1>1. 0 \in S
  <2>1. Good([i \in 0..0 |-> n], 0)
    OBVIOUS
  <2> QED BY <2>1
<1>2. \A m \in S \cap Nat : m + 1 \in S
  <2> SUFFICES ASSUME NEW m \in Nat, NEW at, Good(at, m)
               PROVE  m + 1 \in S
    OBVIOUS
  <2> DEFINE more == [i \in 0..m + 1 |-> IF i = m + 1 THEN Child(nd, at[m], p[m + 1]) ELSE at[i]]
  <2>1. Good(more, m + 1)
    OBVIOUS
  <2> HIDE DEF Good
  <2> QED BY <2>1
<1>3. Len(p) \in S
  <2> HIDE DEF S
  <2> QED BY <1>1, <1>2, NaturalInduction
<1> DEFINE way == CHOOSE at : Good(at, Len(p))
<1>4. Good(way, Len(p))
  <2> HIDE DEF Good
  <2> QED BY <1>3
<1>5. Descend(nd, n, p) = way[Len(p)]
  BY Zenon DEF Descend
<1>6. Follows(nd, n, p, Len(p), way)
  <2> HIDE DEF way
  <2> QED BY <1>4 DEF Follows
<1> QED BY <1>5, <1>6

\* There is one way along a path, also along a longer path that begins alike.
LEMMA DescendUnique ==
  ASSUME NEW nd, NEW n, NEW m \in Nat, NEW l \in Nat, m <= l, NEW p, NEW q, NEW f, NEW g,
         \A i \in 1..m : p[i] = q[i],
         Follows(nd, n, p, m, f), Follows(nd, n, q, l, g)
  PROVE  f[m] = g[m]
<1> DEFINE S == {i \in Nat : i <= m => f[i] = g[i]}
<1>1. 0 \in S
  BY DEF Follows
<1>2. \A i \in S \cap Nat : i + 1 \in S
  <2> SUFFICES ASSUME NEW i \in Nat, i \in S, i + 1 <= m
               PROVE  f[i + 1] = g[i + 1]
    OBVIOUS
  <2>1. f[i] = g[i] /\ i + 1 \in 1..m /\ i + 1 \in 1..l /\ (i + 1) - 1 = i
    OBVIOUS
  <2>2. f[i + 1] = Child(nd, f[i], p[i + 1]) /\ g[i + 1] = Child(nd, g[i], q[i + 1])
    BY <2>1 DEF Follows
  <2> QED BY <2>1, <2>2
<1>3. m \in S
  <2> HIDE DEF S
  <2> QED BY <1>1, <1>2, NaturalInduction
<1> QED BY <1>3

\* A path is followed name by name.
LEMMA DescendEmpty == ASSUME NEW nd, NEW n PROVE Descend(nd, n, << >>) = n
<1>1. Len(<< >>) = 0
  OBVIOUS
<1>2. PICK at : Follows(nd, n, << >>, Len(<< >>), at) /\ Descend(nd, n, << >>) = at[Len(<< >>)]
  BY <1>1, DescendRecursion, Zenon
<1> QED BY <1>1, <1>2 DEF Follows

LEMMA DescendAppend ==
  ASSUME NEW nd, NEW n, NEW p \in Seq(Key), NEW k \in Key
  PROVE  Descend(nd, n, Append(p, k)) = Child(nd, Descend(nd, n, p), k)
<1> DEFINE q == Append(p, k)
           m == Len(p)
<1>1. /\ Len(q) = m + 1 /\ m \in Nat /\ m + 1 \in Nat /\ q[m + 1] = k
      /\ \A i \in 1..m : p[i] = q[i]
  OBVIOUS
<1>2. PICK f : Follows(nd, n, p, m, f) /\ Descend(nd, n, p) = f[m]
  BY <1>1, DescendRecursion
<1> HIDE DEF q, m
<1>3. PICK g : Follows(nd, n, q, m + 1, g) /\ Descend(nd, n, q) = g[m + 1]
  BY <1>1, DescendRecursion
<1>4. f[m] = g[m]
  <2>1. m <= m + 1
    BY <1>1
  <2> QED BY <1>1, <1>2, <1>3, <2>1, DescendUnique
<1>5. g[m + 1] = Child(nd, g[m], k)
  <2>1. m + 1 \in 1..m + 1 /\ (m + 1) - 1 = m
    BY <1>1
  <2> QED BY <1>1, <1>3, <2>1 DEF Follows
<1> QED BY <1>2, <1>3, <1>4, <1>5 DEF q

-----------------------------------------------------------------------------
(* Paths *)

LEMMA PathIs == Path = {p \in Seq(Key) : Len(p) <= MaxDepth}
<1>1. \A p \in Path : p \in Seq(Key) /\ Len(p) <= MaxDepth
  <2> TAKE p \in Path
  <2>1. PICK n \in 0..MaxDepth : p \in [1..n -> Key]
    BY DEF Path
  <2>2. n \in Nat /\ n <= MaxDepth
    BY BoundAssumption
  <2>3. p \in Seq(Key)
    BY <2>1, <2>2, SeqDef
  <2>4. Len(p) = n
    BY <2>1, <2>2
  <2> QED BY <2>2, <2>3, <2>4
<1>2. \A p \in Seq(Key) : Len(p) <= MaxDepth => p \in Path
  <2> SUFFICES ASSUME NEW p \in Seq(Key), Len(p) <= MaxDepth PROVE p \in Path
    OBVIOUS
  <2>1. Len(p) \in 0..MaxDepth /\ p \in [1..Len(p) -> Key]
    BY BoundAssumption, LenProperties
  <2> QED BY <2>1 DEF Path
<1> QED BY <1>1, <1>2

LEMMA AppendSame ==
  ASSUME NEW p \in Seq(Key), NEW q \in Seq(Key), NEW j \in Key, NEW k \in Key,
         Append(p, j) = Append(q, k)
  PROVE  p = q /\ j = k
<1>1. Len(p) = Len(q)
  BY AppendProperties
<1>2. j = k
  BY <1>1, AppendProperties
<1>3. \A i \in 1..Len(p) : p[i] = q[i]
  BY <1>1, AppendProperties
<1> QED BY <1>1, <1>2, <1>3, SeqEqual

LEMMA FrontLast ==
  ASSUME NEW p \in Seq(Key), p # << >>
  PROVE  /\ Front(p) \in Seq(Key) /\ Last(p) \in Key
         /\ p = Append(Front(p), Last(p)) /\ Len(Front(p)) = Len(p) - 1
<1>1. Len(p) \in Nat /\ Len(p) > 0
  BY EmptySeq
<1>2. Front(p) \in Seq(Key) /\ Len(Front(p)) = Len(p) - 1 /\ Last(p) \in Key
  BY <1>1, SMTT(30) DEF Front, Last
<1>3. \A i \in 1..Len(p) - 1 : Front(p)[i] = p[i]
  BY <1>1 DEF Front
<1>4. p = Append(Front(p), Last(p))
  BY <1>1, <1>2, <1>3 DEF Last
<1> QED BY <1>2, <1>4

LEMMA PrefixMeaning ==
  ASSUME NEW p \in Seq(Key), NEW q \in Seq(Key)
  PROVE  IsPrefix(p, q) <=> Len(p) <= Len(q) /\ \A i \in 1..Len(p) : p[i] = q[i]
<1> DEFINE m == Len(p)
<1>1. SubSeq(p, 1, m) = p
  BY SubSeqFull
<1>2. m \in Nat /\ Len(q) \in Nat
  OBVIOUS
<1>3. ASSUME m <= Len(q)
      PROVE  /\ SubSeq(q, 1, m) \in Seq(Key) /\ Len(SubSeq(q, 1, m)) = m
             /\ \A i \in 1..m : SubSeq(q, 1, m)[i] = q[i]
  BY <1>2, <1>3
<1>4. ASSUME m <= Len(q), \A i \in 1..m : p[i] = q[i]
      PROVE  p = SubSeq(q, 1, m)
  BY <1>3, <1>4, SeqEqual
<1> QED BY <1>1, <1>3, <1>4 DEF IsPrefix

LEMMA PrefixAppend ==
  ASSUME NEW r \in Seq(Key), NEW q \in Seq(Key), NEW k \in Key
  PROVE  IsPrefix(r, Append(q, k)) <=> IsPrefix(r, q) \/ r = Append(q, k)
<1> DEFINE a == Append(q, k)
<1>1. /\ a \in Seq(Key) /\ Len(a) = Len(q) + 1 /\ a[Len(q) + 1] = k /\ Len(q) \in Nat /\ Len(r) \in Nat
      /\ \A i \in 1..Len(q) : a[i] = q[i]
  OBVIOUS
<1> HIDE DEF a
<1>2. IsPrefix(r, a) <=> Len(r) <= Len(a) /\ \A i \in 1..Len(r) : r[i] = a[i]
  BY <1>1, PrefixMeaning
<1>3. IsPrefix(r, q) <=> Len(r) <= Len(q) /\ \A i \in 1..Len(r) : r[i] = q[i]
  BY PrefixMeaning
<1>4. CASE Len(r) <= Len(q)
  <2>1. IsPrefix(r, a) <=> IsPrefix(r, q)
    BY <1>1, <1>2, <1>3, <1>4
  <2>2. r # a
    BY <1>1, <1>4
  <2> QED BY <2>1, <2>2 DEF a
<1>5. CASE Len(r) > Len(q)
  <2>1. IsPrefix(r, a) => r = a
    <3> SUFFICES ASSUME IsPrefix(r, a) PROVE r = a
      OBVIOUS
    <3>1. Len(r) = Len(a)
      BY <1>1, <1>2, <1>5
    <3> QED BY <1>1, <1>2, <3>1, SeqEqual
  <2>2. r = a => IsPrefix(r, a)
    BY <1>1, <1>2
  <2>3. ~IsPrefix(r, q)
    BY <1>1, <1>3, <1>5
  <2> QED BY <2>1, <2>2, <2>3 DEF a
<1> QED BY <1>1, <1>4, <1>5

LEMMA PrefixSame ==
  ASSUME NEW p \in Seq(Key), NEW q \in Seq(Key), NEW r \in Seq(Key),
         IsPrefix(p, r), IsPrefix(q, r), Len(p) = Len(q)
  PROVE  p = q
BY PrefixMeaning, SeqEqual

LEMMA PrefixFacts ==
  ASSUME NEW p \in Seq(Key)
  PROVE  /\ IsPrefix(<< >>, p) /\ IsPrefix(p, p)
         /\ \A q \in Seq(Key) : IsPrefix(q, p) => Len(q) <= Len(p) /\ (Len(q) = Len(p) => q = p)
         /\ IsPrefix(p, << >>) => p = << >>
<1>1. PICK e \in Seq(Key) : e = << >>
  BY EmptySeq
<1>2. Len(e) = 0 /\ Len(p) \in Nat /\ (Len(p) = 0 => p = e)
  BY <1>1, EmptySeq
<1>3. IsPrefix(e, p) /\ IsPrefix(p, p)
  <2>1. IsPrefix(p, p)
    BY <1>2, PrefixMeaning
  <2>2. \A i \in 1..Len(e) : e[i] = p[i]
    BY <1>2
  <2>3. Len(e) <= Len(p)
    BY <1>2
  <2> QED BY <2>1, <2>2, <2>3, PrefixMeaning
<1>4. \A q \in Seq(Key) : IsPrefix(q, p) => Len(q) <= Len(p) /\ (Len(q) = Len(p) => q = p)
  BY <1>3, PrefixMeaning, PrefixSame
<1>5. IsPrefix(p, e) => p = e
  <2>1. IsPrefix(p, e) => Len(p) <= Len(e)
    BY PrefixMeaning
  <2> QED BY <1>2, <2>1
<1> QED BY <1>1, <1>3, <1>4, <1>5

-----------------------------------------------------------------------------
(* Trees *)

LEMMA TreeParent ==
  ASSUME NEW t, IsTree(t), NEW p \in Seq(Key), NEW k \in Key, Append(p, k) \in DOMAIN t
  PROVE  p \in DOMAIN t /\ t[p] = Object
<1>1. Append(p, k) # << >>
  OBVIOUS
<1>2. PICK q \in DOMAIN t, j \in Key : Append(p, k) = Append(q, j) /\ t[q] = Object
  BY <1>1 DEF IsTree
<1>3. q \in Seq(Key)
  BY DEF IsTree
<1> QED BY <1>2, <1>3, AppendSame

LEMMA TreePrefix ==
  ASSUME NEW t, IsTree(t), NEW q \in DOMAIN t, NEW p \in Seq(Key), IsPrefix(p, q)
  PROVE  p \in DOMAIN t /\ (p # q => t[p] = Object)
<1> DEFINE S == {r \in Seq(Key) : r \in DOMAIN t /\ IsPrefix(p, r) => p \in DOMAIN t /\ (p # r => t[p] = Object)}
<1>1. << >> \in S
  <2>1. << >> \in Seq(Key)
    OBVIOUS
  <2> QED BY <2>1, PrefixFacts
<1>2. \A r \in S \cap Seq(Key), k \in Key : Append(r, k) \in S
  <2> SUFFICES ASSUME NEW r \in Seq(Key), r \in S, NEW k \in Key,
                      Append(r, k) \in DOMAIN t, IsPrefix(p, Append(r, k)), p # Append(r, k)
               PROVE  p \in DOMAIN t /\ t[p] = Object
    <3>1. \A r \in Seq(Key), k \in Key : Append(r, k) \in Seq(Key)
      OBVIOUS
    <3> QED BY <3>1
  <2>1. r \in DOMAIN t /\ t[r] = Object
    BY TreeParent
  <2>2. IsPrefix(p, r)
    BY PrefixAppend
  <2> QED BY <2>1, <2>2
<1>3. Seq(Key) \subseteq S
  <2> HIDE DEF S
  <2> QED BY <1>1, <1>2, SequenceInduction
<1> QED BY <1>3 DEF IsTree

-----------------------------------------------------------------------------
(* The invariant *)

\* Functions from some names to the nodes N.
MembersIn(N) == UNION {[K -> N] : K \in SUBSET Key}

\* Members are nodes of the same document; only objects have some.
Heap(nd) ==
  /\ DOMAIN nd \subseteq Nat \X Seq(Key)
  /\ \A n \in DOMAIN nd :
       /\ nd[n] \in [doc : Doc, val : Content, mem : MembersIn(DOMAIN nd)]
       /\ nd[n].val \in Scalar => DOMAIN nd[n].mem = {}
       /\ \A k \in DOMAIN nd[n].mem : nd[nd[n].mem[k]].doc = nd[n].doc

\* Documents and wrappers refer to nodes of their document.
Roots(nd, dc, wr) ==
  /\ dc \in [Doc -> [root : DOMAIN nd \cup {None}, mutable : BOOLEAN]]
  /\ wr \in [Wrapper -> [doc : Doc, val : DOMAIN nd] \cup {Closed}]
  /\ \A d \in Doc : dc[d].root # None => nd[dc[d].root].doc = d
  /\ \A w \in Wrapper : wr[w] # Closed => nd[wr[w].val].doc = wr[w].doc

\* No node is a member twice, and no root is a member.
Forest(nd, dc) ==
  /\ \A m, n \in DOMAIN nd : \A j \in DOMAIN nd[m].mem, k \in DOMAIN nd[n].mem :
       nd[m].mem[j] = nd[n].mem[k] => m = n /\ j = k
  /\ \A d \in Doc, n \in DOMAIN nd : \A k \in DOMAIN nd[n].mem : nd[n].mem[k] # dc[d].root

\* No node has m as a member.
NoMember(nd, m) == \A n \in DOMAIN nd : \A k \in DOMAIN nd[n].mem : nd[n].mem[k] # m

Small(nd) ==
  /\ DOMAIN nd \subseteq Node
  /\ IsFiniteSet(DOMAIN nd) /\ Cardinality(DOMAIN nd) <= MaxNode

\* No path from a node is longer than the bound: none leads back to where it came from.
Shallow(nd) ==
  \A n \in DOMAIN nd : \A p \in Seq(Key) : Descend(nd, n, p) # None => Len(p) <= MaxDepth

IInv ==
  Heap(node) /\ Roots(node, doc, wrap) /\ Forest(node, doc) /\ Small(node) /\ Shallow(node)

LEMMA MembersInMeaning ==
  ASSUME NEW N, NEW m
  PROVE  m \in MembersIn(N) <=> m \in [DOMAIN m -> N] /\ DOMAIN m \subseteq Key
BY DEF MembersIn

LEMMA NoneIsNoNode == ASSUME NEW nd, Heap(nd) PROVE None \notin DOMAIN nd
BY SentinelAssumption DEF Heap

\* What Heap says of the members of a node.
LEMMA HeapMembers ==
  ASSUME NEW nd, Heap(nd), NEW n \in DOMAIN nd
  PROVE  /\ n \in Nat \X Seq(Key)
         /\ nd[n].doc \in Doc /\ nd[n].val \in Content
         /\ nd[n].mem \in [DOMAIN nd[n].mem -> DOMAIN nd] /\ DOMAIN nd[n].mem \subseteq Key
         /\ Names(nd, n) = DOMAIN nd[n].mem /\ Names(nd, n) \subseteq Key
         /\ DOMAIN nd[n].mem # {} => nd[n].val = Object
         /\ \A k \in Names(nd, n) : Child(nd, n, k) = nd[n].mem[k] /\ Child(nd, n, k) \in DOMAIN nd
         /\ \A k : k \notin Names(nd, n) => Child(nd, n, k) = None
<1>1. n # None
  BY NoneIsNoNode
<1>2. Names(nd, n) = DOMAIN nd[n].mem
  BY <1>1 DEF Names
<1>3. nd[n].doc \in Doc /\ nd[n].val \in Content /\ nd[n].mem \in MembersIn(DOMAIN nd)
  BY DEF Heap
<1>4. nd[n].mem \in [DOMAIN nd[n].mem -> DOMAIN nd] /\ DOMAIN nd[n].mem \subseteq Key
  BY <1>3, MembersInMeaning
<1>5. DOMAIN nd[n].mem # {} => nd[n].val = Object
  BY <1>3 DEF Heap, Content
<1>6. n \in Nat \X Seq(Key)
  BY DEF Heap
<1>7. \A k \in Names(nd, n) : Child(nd, n, k) = nd[n].mem[k] /\ Child(nd, n, k) \in DOMAIN nd
  BY <1>2, <1>4 DEF Child
<1> QED BY <1>2, <1>3, <1>4, <1>5, <1>6, <1>7 DEF Child

LEMMA NoMembersOfNone ==
  ASSUME NEW nd PROVE Names(nd, None) = {} /\ \A k : Child(nd, None, k) = None
BY DEF Names, Child

-----------------------------------------------------------------------------
(* Copies *)

\* The members of the copy, numbered c, of what is at p in t.
CopyMembers(t, c, p) == [k \in {j \in Key : Append(p, j) \in DOMAIN t} |-> <<c, Append(p, k)>>]

\* new is nd with a copy of t for document d, made of nodes numbered c.
Copied(nd, d, t, new, c) ==
  /\ c \in 1..MaxNode + 1
  /\ DOMAIN new = DOMAIN nd \cup ({c} \X DOMAIN t)
  /\ \A n \in DOMAIN nd : new[n] = nd[n] /\ n[1] # c
  /\ \A p \in DOMAIN t : new[<<c, p>>] = [doc |-> d, val |-> t[p], mem |-> CopyMembers(t, c, p)]

\* There is always a number that no node has.
LEMMA FreshNumber ==
  ASSUME NEW nd, Small(nd)
  PROVE  \E c \in 1..MaxNode + 1 : /\ c = Min((1..MaxNode + 1) \ {n[1] : n \in DOMAIN nd})
                                   /\ \A n \in DOMAIN nd : n[1] # c
<1> DEFINE used == {n[1] : n \in DOMAIN nd}
           free == (1..MaxNode + 1) \ used
<1>1. free # {}
  <2> SUFFICES ASSUME 1..MaxNode + 1 \subseteq used PROVE FALSE
    OBVIOUS
  <2> DEFINE f == [i \in 1..MaxNode + 1 |-> CHOOSE n \in DOMAIN nd : n[1] = i]
  <2>1. \A i \in 1..MaxNode + 1 : f[i] \in DOMAIN nd /\ f[i][1] = i
    OBVIOUS
  <2>2. f \in [1..MaxNode + 1 -> DOMAIN nd]
    BY <2>1
  <2>3. f \in Injection(1..MaxNode + 1, DOMAIN nd)
    <3> HIDE DEF f
    <3> QED BY <2>1, <2>2 DEF Injection, IsInjective
  <2>4. IsFiniteSet(DOMAIN nd) /\ Cardinality(DOMAIN nd) <= MaxNode
    BY DEF Small
  <2>5. Cardinality(1..MaxNode + 1) <= Cardinality(DOMAIN nd)
    <3> HIDE DEF f
    <3> QED BY <2>3, <2>4, FS_Injection
  <2>6. Cardinality(1..MaxNode + 1) = MaxNode + 1
    BY BoundAssumption, FS_Interval
  <2>7. Cardinality(DOMAIN nd) \in Nat
    BY <2>4, FS_CardinalityType
  <2> QED BY <2>4, <2>5, <2>6, <2>7, BoundAssumption
<1>2. free \in SUBSET Nat
  BY BoundAssumption
<1>3. \E x \in free : \A y \in free : x <= y
  <2> HIDE DEF free
  <2> QED BY <1>1, <1>2, LeastNatural
<1>4. Min(free) \in free
  <2> HIDE DEF free
  <2> QED BY <1>3, Zenon DEF Min
<1>5. \A n \in DOMAIN nd : n[1] \in used
  OBVIOUS
<1> QED BY <1>4, <1>5

LEMMA CopyIntoCopies ==
  ASSUME NEW nd, Heap(nd), Small(nd), NEW d, NEW t, DOMAIN t \subseteq Seq(Key)
  PROVE  \E c : Copied(nd, d, t, CopyInto(nd, d, t).nodes, c) /\ CopyInto(nd, d, t).top = <<c, << >> >>
<1>1. PICK c \in 1..MaxNode + 1 : /\ c = Min((1..MaxNode + 1) \ {n[1] : n \in DOMAIN nd})
                                  /\ \A n \in DOMAIN nd : n[1] # c
  BY FreshNumber
<1> DEFINE copy == [n \in {c} \X DOMAIN t |->
                      [doc |-> d, val |-> t[n[2]],
                       mem |-> [k \in {k \in Key : Append(n[2], k) \in DOMAIN t} |-> <<c, Append(n[2], k)>>]]]
           new  == Over(copy, nd)
<1>2. CopyInto(nd, d, t) = [nodes |-> new, top |-> <<c, << >> >>]
  BY <1>1, Zenon DEF CopyInto
<1>3. DOMAIN new = DOMAIN nd \cup ({c} \X DOMAIN t)
  BY DEF Over
<1>4. \A n \in DOMAIN nd : new[n] = nd[n] /\ n[1] # c
  BY <1>1 DEF Over
<1>5. \A p \in DOMAIN t : new[<<c, p>>] = [doc |-> d, val |-> t[p], mem |-> CopyMembers(t, c, p)]
  BY <1>1 DEF Over, CopyMembers
<1>6. Copied(nd, d, t, new, c)
  <2> HIDE DEF new
  <2> QED BY <1>3, <1>4, <1>5 DEF Copied
<1>7. CopyInto(nd, d, t).nodes = new /\ CopyInto(nd, d, t).top = <<c, << >> >>
  <2> HIDE DEF new
  <2> QED BY <1>2
<1> HIDE DEF new
<1> QED BY <1>6, <1>7

-----------------------------------------------------------------------------
(* What is left after a call *)

Tops(dc, wr) ==
  ({dc[d].root : d \in {e \in Doc : Held(wr, e)}}
     \cup {wr[w].val : w \in {v \in Wrapper : wr[v] # Closed}}) \ {None}

Levels(nd, dc, wr, level) ==
  /\ level[0] = Tops(dc, wr)
  /\ \A i \in 1..MaxDepth + 1 : level[i] = Children(nd, level[i - 1])

Live(level) == UNION {level[i] : i \in 0..MaxDepth}

Leaves(nd, dc, wr, live) ==
  /\ IsFiniteSet(live) /\ Cardinality(live) <= MaxNode
  /\ node' = Restrict(nd, live)
  /\ doc' = [d \in Doc |-> IF Held(wr, d) THEN dc[d] ELSE NoDoc]
  /\ wrap' = wr

\* The levels of Settle exist.
LEMMA SettleMeaning ==
  ASSUME NEW nd, NEW dc, NEW wr, Settle(nd, dc, wr)
  PROVE  \E level : /\ Levels(nd, dc, wr, level) /\ level[MaxDepth + 1] = {}
                    /\ Leaves(nd, dc, wr, Live(level))
<1> DEFINE tops == Tops(dc, wr)
           Good(lv, m) == lv = [i \in 0..m |-> IF i = 0 THEN tops ELSE Children(nd, lv[i - 1])]
           S == {m \in Nat : \E lv : Good(lv, m)}
<1>1. 0 \in S
  <2>1. Good([i \in 0..0 |-> tops], 0)
    OBVIOUS
  <2> QED BY <2>1
<1>2. \A m \in S \cap Nat : m + 1 \in S
  <2> SUFFICES ASSUME NEW m \in Nat, NEW lv, Good(lv, m)
               PROVE  m + 1 \in S
    OBVIOUS
  <2> DEFINE more == [i \in 0..m + 1 |-> IF i = m + 1 THEN Children(nd, lv[m]) ELSE lv[i]]
  <2> HIDE DEF tops
  <2>1. Good(more, m + 1)
    OBVIOUS
  <2> HIDE DEF Good
  <2> QED BY <2>1
<1>3. MaxDepth + 1 \in S
  <2> HIDE DEF S
  <2> QED BY <1>1, <1>2, NaturalInduction, BoundAssumption
<1> DEFINE level == CHOOSE lv : Good(lv, MaxDepth + 1)
<1>4. Good(level, MaxDepth + 1)
  <2> HIDE DEF Good
  <2> QED BY <1>3
<1>5. level[MaxDepth + 1] = {} /\ Leaves(nd, dc, wr, Live(level))
  BY Zenon DEF Settle, Tops, Leaves, Live
<1>6. Levels(nd, dc, wr, level)
  <2> HIDE DEF level, tops
  <2> QED BY <1>4, BoundAssumption DEF Levels, tops
<1> QED BY <1>5, <1>6

\* Members of what is left are left.
LEMMA SettleLive ==
  ASSUME NEW nd, NEW dc, NEW wr, Heap(nd), Roots(nd, dc, wr), Settle(nd, dc, wr)
  PROVE  \E live \in SUBSET DOMAIN nd :
           /\ Leaves(nd, dc, wr, live)
           /\ Tops(dc, wr) \subseteq live
           /\ \A n \in live : \A k \in DOMAIN nd[n].mem : nd[n].mem[k] \in live
<1>1. PICK level : /\ Levels(nd, dc, wr, level) /\ level[MaxDepth + 1] = {}
                   /\ Leaves(nd, dc, wr, Live(level))
  BY SettleMeaning
<1>2. Tops(dc, wr) \subseteq DOMAIN nd
  BY DEF Tops, Roots
<1>3. \A S : S \subseteq DOMAIN nd => Children(nd, S) \subseteq DOMAIN nd
  BY HeapMembers DEF Children, Range
<1> DEFINE I == {i \in Nat : i <= MaxDepth + 1 => level[i] \subseteq DOMAIN nd}
<1>4. 0 \in I
  BY <1>1, <1>2 DEF Levels
<1>5. \A i \in I \cap Nat : i + 1 \in I
  <2> SUFFICES ASSUME NEW i \in Nat, i + 1 <= MaxDepth + 1, level[i] \subseteq DOMAIN nd
               PROVE  level[i + 1] \subseteq DOMAIN nd
    BY BoundAssumption
  <2>1. i + 1 \in 1..MaxDepth + 1 /\ (i + 1) - 1 = i
    BY BoundAssumption
  <2>2. level[i + 1] = Children(nd, level[i])
    BY <1>1, <2>1 DEF Levels
  <2> QED BY <1>3, <2>2
<1>6. \A i \in 0..MaxDepth : level[i] \subseteq DOMAIN nd
  <2> HIDE DEF I
  <2>1. Nat \subseteq I
    BY <1>4, <1>5, NaturalInduction
  <2> QED BY <2>1, BoundAssumption DEF I
<1>7. Live(level) \subseteq DOMAIN nd
  BY <1>6 DEF Live
<1>8. Tops(dc, wr) \subseteq Live(level)
  BY <1>1, BoundAssumption DEF Levels, Live
<1>9. ASSUME NEW n \in Live(level), NEW k \in DOMAIN nd[n].mem
      PROVE  nd[n].mem[k] \in Live(level)
  <2>1. PICK i \in 0..MaxDepth : n \in level[i]
    BY DEF Live
  <2>2. nd[n].mem[k] \in Children(nd, level[i])
    BY <2>1 DEF Children, Range
  <2>3. i + 1 \in 1..MaxDepth + 1 /\ (i + 1) - 1 = i
    BY BoundAssumption
  <2>4. nd[n].mem[k] \in level[i + 1]
    BY <1>1, <2>2, <2>3 DEF Levels
  <2>5. i + 1 # MaxDepth + 1
    BY <1>1, <2>4
  <2>6. i + 1 \in 0..MaxDepth
    BY <2>3, <2>5, BoundAssumption
  <2> QED BY <2>4, <2>6 DEF Live
<1> QED BY <1>1, <1>7, <1>8, <1>9

LEMMA RestrictHeap ==
  ASSUME NEW nd, Heap(nd), NEW live \in SUBSET DOMAIN nd,
         \A n \in live : \A k \in DOMAIN nd[n].mem : nd[n].mem[k] \in live
  PROVE  Heap(Restrict(nd, live))
<1> DEFINE new == Restrict(nd, live)
<1>1. DOMAIN new = live /\ \A n \in live : new[n] = nd[n]
  BY DEF Restrict
<1> HIDE DEF new
<1>2. ASSUME NEW n \in live
      PROVE  /\ new[n] \in [doc : Doc, val : Content, mem : MembersIn(DOMAIN new)]
             /\ new[n].val \in Scalar => DOMAIN new[n].mem = {}
             /\ \A k \in DOMAIN new[n].mem : new[new[n].mem[k]].doc = new[n].doc
  <2>1. n \in DOMAIN nd /\ new[n] = nd[n]
    BY <1>1
  <2>2. nd[n] \in [doc : Doc, val : Content, mem : MembersIn(DOMAIN nd)]
    BY <2>1 DEF Heap
  <2>3. nd[n].mem \in [DOMAIN nd[n].mem -> live] /\ DOMAIN nd[n].mem \subseteq Key
    BY <2>1, HeapMembers
  <2>4. nd[n].mem \in MembersIn(DOMAIN new)
    BY <1>1, <2>3, MembersInMeaning
  <2>5. new[n] \in [doc : Doc, val : Content, mem : MembersIn(DOMAIN new)]
    BY <2>1, <2>2, <2>4
  <2>6. \A k \in DOMAIN new[n].mem : new[new[n].mem[k]].doc = new[n].doc
    BY <1>1, <2>1 DEF Heap
  <2>7. new[n].val \in Scalar => DOMAIN new[n].mem = {}
    BY <2>1 DEF Heap
  <2> QED BY <2>5, <2>6, <2>7
<1>3. live \subseteq Nat \X Seq(Key)
  BY DEF Heap
<1> QED BY <1>1, <1>2, <1>3 DEF new, Heap

\* A call leaves a sound state if what it hands to Settle is sound.
LEMMA SettleKeeps ==
  ASSUME NEW nd, NEW dc, NEW wr, Heap(nd), Roots(nd, dc, wr), Forest(nd, dc), Settle(nd, dc, wr)
  PROVE  /\ Heap(node') /\ Roots(node', doc', wrap') /\ Forest(node', doc')
         /\ IsFiniteSet(DOMAIN node') /\ Cardinality(DOMAIN node') <= MaxNode
<1>1. PICK live \in SUBSET DOMAIN nd :
           /\ Leaves(nd, dc, wr, live)
           /\ Tops(dc, wr) \subseteq live
           /\ \A n \in live : \A k \in DOMAIN nd[n].mem : nd[n].mem[k] \in live
  BY SettleLive
<1>2. /\ node' = Restrict(nd, live) /\ wrap' = wr
      /\ doc' = [d \in Doc |-> IF Held(wr, d) THEN dc[d] ELSE NoDoc]
      /\ IsFiniteSet(live) /\ Cardinality(live) <= MaxNode
  BY <1>1 DEF Leaves
<1>3. DOMAIN node' = live /\ \A n \in live : node'[n] = nd[n]
  BY <1>2 DEF Restrict
<1>4. Heap(node')
  BY <1>1, <1>2, RestrictHeap
<1>5. ASSUME NEW d \in Doc
      PROVE  /\ doc'[d] \in [root : live \cup {None}, mutable : BOOLEAN]
             /\ doc'[d].root # None => node'[doc'[d].root].doc = d
             /\ doc'[d].root \in {dc[d].root, None}
  <2>1. dc[d] \in [root : DOMAIN nd \cup {None}, mutable : BOOLEAN]
    BY DEF Roots
  <2>2. CASE Held(wr, d)
    <3>1. doc'[d] = dc[d]
      BY <1>2, <2>2
    <3>2. dc[d].root # None => dc[d].root \in live
      BY <1>1, <2>2 DEF Tops
    <3>3. dc[d].root # None => nd[dc[d].root].doc = d
      BY DEF Roots
    <3> QED BY <1>3, <2>1, <3>1, <3>2, <3>3
  <2>3. CASE ~Held(wr, d)
    <3>1. doc'[d] = [root |-> None, mutable |-> FALSE]
      BY <1>2, <2>3 DEF NoDoc
    <3> QED BY <3>1
  <2> QED BY <2>2, <2>3
<1>6. ASSUME NEW w \in Wrapper
      PROVE  /\ wrap'[w] \in [doc : Doc, val : live] \cup {Closed}
             /\ wrap'[w] # Closed => node'[wrap'[w].val].doc = wrap'[w].doc
  <2>1. wr[w] \in [doc : Doc, val : DOMAIN nd] \cup {Closed}
    BY DEF Roots
  <2>2. CASE wr[w] = Closed
    BY <1>2, <2>2
  <2>3. CASE wr[w] # Closed
    <3>1. wr[w] \in [doc : Doc, val : DOMAIN nd] /\ nd[wr[w].val].doc = wr[w].doc
      BY <2>1, <2>3 DEF Roots
    <3>2. wr[w].val # None
      BY <3>1, NoneIsNoNode
    <3>3. wr[w].val \in live
      BY <1>1, <2>3, <3>2 DEF Tops
    <3> QED BY <1>2, <1>3, <3>1, <3>3
  <2> QED BY <2>2, <2>3
<1>7. Roots(node', doc', wrap')
  <2>1. doc' \in [Doc -> [root : live \cup {None}, mutable : BOOLEAN]]
    BY <1>2, <1>5
  <2>2. wrap' \in [Wrapper -> [doc : Doc, val : live] \cup {Closed}]
    <3>1. wr \in [Wrapper -> [doc : Doc, val : DOMAIN nd] \cup {Closed}]
      BY DEF Roots
    <3> QED BY <1>2, <1>6, <3>1
  <2> QED BY <1>3, <1>5, <1>6, <2>1, <2>2 DEF Roots
<1>8. Forest(node', doc')
  <2>1. ASSUME NEW m \in live, NEW n \in live, NEW j \in DOMAIN node'[m].mem, NEW k \in DOMAIN node'[n].mem,
               node'[m].mem[j] = node'[n].mem[k]
        PROVE  m = n /\ j = k
    BY <1>3, <2>1 DEF Forest
  <2>2. ASSUME NEW d \in Doc, NEW n \in live, NEW k \in DOMAIN node'[n].mem
        PROVE  node'[n].mem[k] # doc'[d].root
    <3>1. node'[n].mem[k] \in DOMAIN node'
      BY <1>3, <1>4, HeapMembers
    <3>2. node'[n].mem[k] # None
      BY <1>4, <3>1, NoneIsNoNode
    <3>3. node'[n].mem[k] # dc[d].root
      BY <1>3 DEF Forest
    <3> QED BY <1>5, <3>2, <3>3
  <2> QED BY <1>3, <2>1, <2>2 DEF Forest
<1> QED BY <1>2, <1>3, <1>4, <1>7, <1>8

\* Nodes that are not old are numbered, and their place in their copy is as deep
\* below the top of the copy as it says.
Grown(nd, dc, wr, old) ==
  /\ old \subseteq Node
  /\ \A n \in DOMAIN nd : n \in old \/ n[1] \in 1..MaxNode + 1
  /\ \A n \in Tops(dc, wr) : n \in old \/ Len(n[2]) = 0
  /\ \A n \in DOMAIN nd : \A k \in DOMAIN nd[n].mem :
       \/ nd[n].mem[k] \in old
       \/ Len(nd[n].mem[k][2]) = 0
       \/ n \notin old /\ Len(nd[n].mem[k][2]) = Len(n[2]) + 1

LEMMA SettleNames ==
  ASSUME NEW nd, NEW dc, NEW wr, NEW old, Heap(nd), Roots(nd, dc, wr), Grown(nd, dc, wr, old),
         Settle(nd, dc, wr)
  PROVE  DOMAIN node' \subseteq Node
<1>1. PICK level : /\ Levels(nd, dc, wr, level) /\ level[MaxDepth + 1] = {}
                   /\ Leaves(nd, dc, wr, Live(level))
  BY SettleMeaning
<1>2. Tops(dc, wr) \subseteq DOMAIN nd
  BY DEF Tops, Roots
<1> DEFINE deep(n, i) == n \in DOMAIN nd /\ (n \in old \/ Len(n[2]) <= i)
           I == {i \in Nat : i <= MaxDepth + 1 => \A n \in level[i] : deep(n, i)}
<1>3. 0 \in I
  BY <1>1, <1>2 DEF Levels, Grown
<1>4. \A i \in I \cap Nat : i + 1 \in I
  <2> SUFFICES ASSUME NEW i \in Nat, i + 1 <= MaxDepth + 1, \A n \in level[i] : deep(n, i),
                      NEW m \in level[i + 1]
               PROVE  deep(m, i + 1)
    BY BoundAssumption
  <2>1. i + 1 \in 1..MaxDepth + 1 /\ (i + 1) - 1 = i
    BY BoundAssumption
  <2>2. level[i + 1] = Children(nd, level[i])
    BY <1>1, <2>1 DEF Levels
  <2>3. PICK n \in level[i] : \E k \in DOMAIN nd[n].mem : m = nd[n].mem[k]
    BY <2>2 DEF Children, Range
  <2>4. n \in DOMAIN nd /\ m \in DOMAIN nd /\ m \in Nat \X Seq(Key) /\ n \in Nat \X Seq(Key)
    BY <2>3, HeapMembers
  <2>5. Len(m[2]) \in Nat /\ Len(n[2]) \in Nat
    BY <2>4
  <2>6. \/ m \in old
        \/ Len(m[2]) = 0
        \/ n \notin old /\ Len(m[2]) = Len(n[2]) + 1
    BY <2>3, <2>4 DEF Grown
  <2> QED BY <2>4, <2>5, <2>6
<1>5. ASSUME NEW i \in 0..MaxDepth, NEW n \in level[i]
      PROVE  n \in Node
  <2>1. Nat \subseteq I
    <3> HIDE DEF I
    <3> QED BY <1>3, <1>4, NaturalInduction
  <2>2. deep(n, i)
    BY <2>1, BoundAssumption
  <2>3. n \in Nat \X Seq(Key) /\ (n \in old \/ n[1] \in 1..MaxNode + 1)
    BY <2>2 DEF Heap, Grown
  <2>4. Len(n[2]) \in Nat
    BY <2>3
  <2>5. n \notin old => n[2] \in Path
    <3>1. n \notin old => Len(n[2]) <= MaxDepth
      BY <2>2, <2>4, BoundAssumption
    <3> QED BY <2>3, <3>1, PathIs
  <2>6. n = <<n[1], n[2]>>
    BY <2>3
  <2> QED BY <2>3, <2>5, <2>6 DEF Node, Grown
<1>6. DOMAIN node' = Live(level)
  BY <1>1 DEF Leaves, Restrict
<1> QED BY <1>5, <1>6 DEF Live

\* The nodes that are left lie on levels, of which there are not more than the bound.
LEMMA SettleShallow ==
  ASSUME NEW nd, NEW dc, NEW wr, Heap(nd), Roots(nd, dc, wr), Settle(nd, dc, wr)
  PROVE  Shallow(node')
<1>1. PICK level : /\ Levels(nd, dc, wr, level) /\ level[MaxDepth + 1] = {}
                   /\ Leaves(nd, dc, wr, Live(level))
  BY SettleMeaning
<1>2. PICK live \in SUBSET DOMAIN nd : Leaves(nd, dc, wr, live)
  BY SettleLive
<1>3. DOMAIN node' \subseteq DOMAIN nd /\ DOMAIN node' = Live(level) /\ \A n \in DOMAIN node' : node'[n] = nd[n]
  <2>1. node' = Restrict(nd, live) /\ node' = Restrict(nd, Live(level))
    BY <1>1, <1>2 DEF Leaves
  <2>2. DOMAIN node' = live /\ DOMAIN node' = Live(level)
    BY <2>1 DEF Restrict
  <2>3. \A n \in DOMAIN node' : node'[n] = nd[n]
    BY <2>1, <2>2 DEF Restrict
  <2> QED BY <2>2, <2>3
<1>4. SUFFICES ASSUME NEW n \in DOMAIN node'
               PROVE  \A p \in Seq(Key) : Descend(node', n, p) # None => Len(p) <= MaxDepth
  BY DEF Shallow
<1>5. PICK i \in 0..MaxDepth : n \in level[i]
  BY <1>3 DEF Live
<1> DEFINE T == {p \in Seq(Key) : Descend(node', n, p) # None =>
                   i + Len(p) <= MaxDepth /\ Descend(node', n, p) \in level[i + Len(p)]}
<1>6. << >> \in T
  <2>1. Descend(node', n, << >>) = n
    BY DescendEmpty
  <2>2. << >> \in Seq(Key) /\ Len(<< >>) = 0 /\ i + 0 = i /\ i <= MaxDepth
    BY BoundAssumption
  <2> QED BY <1>5, <2>1, <2>2
<1>7. \A p \in T \cap Seq(Key), k \in Key : Append(p, k) \in T
  <2> TAKE p \in T \cap Seq(Key), k \in Key
  <2>1. Append(p, k) \in Seq(Key) /\ Len(Append(p, k)) = Len(p) + 1 /\ Len(p) \in Nat
    OBVIOUS
  <2> DEFINE q == Append(p, k)
             m == Descend(node', n, p)
  <2>2. Descend(node', n, q) = Child(node', m, k)
    <3>1. p \in Seq(Key) /\ k \in Key
      OBVIOUS
    <3> HIDE DEF T
    <3> QED BY <3>1, DescendAppend
  <2>3. ASSUME Child(node', m, k) # None
        PROVE  i + Len(q) <= MaxDepth /\ Child(node', m, k) \in level[i + Len(q)]
    <3>1. m # None /\ k \in Names(node', m)
      BY <2>3, NoMembersOfNone DEF Child
    <3>2. i + Len(p) <= MaxDepth /\ m \in level[i + Len(p)]
      BY <3>1
    <3> DEFINE j == i + Len(p)
    <3>3. j \in Nat /\ j + 1 \in 1..MaxDepth + 1 /\ (j + 1) - 1 = j /\ i + Len(q) = j + 1 /\ j \in 0..MaxDepth
      BY <2>1, <3>2, BoundAssumption
    <3> HIDE DEF j, T
    <3>4. m \in level[j]
      BY <3>2 DEF j
    <3>5. m \in DOMAIN node'
      BY <1>3, <3>3, <3>4 DEF Live
    <3>6. k \in DOMAIN nd[m].mem /\ Child(node', m, k) = nd[m].mem[k]
      BY <1>3, <3>1, <3>5 DEF Child, Names
    <3>7. level[j + 1] = Children(nd, level[j])
      BY <1>1, <3>3 DEF Levels
    <3>8. Child(node', m, k) \in level[j + 1]
      BY <3>4, <3>6, <3>7 DEF Children, Range
    <3>9. j + 1 # MaxDepth + 1
      BY <1>1, <3>8
    <3>10. j + 1 <= MaxDepth
      BY <3>3, <3>9, BoundAssumption
    <3> QED BY <3>3, <3>8, <3>10
  <2> HIDE DEF m
  <2> QED BY <2>1, <2>2, <2>3
<1>8. Seq(Key) \subseteq T
  <2> HIDE DEF T
  <2> QED BY <1>6, <1>7, SequenceInduction
<1> QED BY <1>8, BoundAssumption

-----------------------------------------------------------------------------
(* What the calls hand to Settle *)

Ready(nd, dc, wr) ==
  Heap(nd) /\ Roots(nd, dc, wr) /\ Forest(nd, dc) /\ Grown(nd, dc, wr, DOMAIN node)

LEMMA SettleInvariant ==
  ASSUME NEW nd, NEW dc, NEW wr, Ready(nd, dc, wr), Settle(nd, dc, wr)
  PROVE  IInv'
BY SettleKeeps, SettleNames, SettleShallow DEF Ready, IInv, Small

\* With its old nodes every state is ready.
LEMMA InvariantReady == ASSUME IInv PROVE Ready(node, doc, wrap)
<1>1. Heap(node) /\ Roots(node, doc, wrap) /\ Forest(node, doc) /\ DOMAIN node \subseteq Node
  BY DEF IInv, Small
<1>2. Tops(doc, wrap) \subseteq DOMAIN node
  BY <1>1 DEF Roots, Tops
<1>3. \A n \in DOMAIN node : \A k \in DOMAIN node[n].mem : node[n].mem[k] \in DOMAIN node
  BY <1>1, HeapMembers
<1> QED BY <1>1, <1>2, <1>3 DEF Ready, Grown

LEMMA CopyHeap ==
  ASSUME NEW nd, Heap(nd), NEW d \in Doc, NEW t, IsTree(t), NEW new, NEW c, Copied(nd, d, t, new, c)
  PROVE  /\ Heap(new)
         /\ <<c, << >> >> \in DOMAIN new /\ new[<<c, << >> >>].doc = d
         /\ NoMember(new, <<c, << >> >>)
<1>1. DOMAIN t \subseteq Seq(Key) /\ << >> \in DOMAIN t /\ t \in [DOMAIN t -> Content]
  BY DEF IsTree
<1>2. /\ DOMAIN new = DOMAIN nd \cup ({c} \X DOMAIN t) /\ c \in Nat
      /\ \A n \in DOMAIN nd : new[n] = nd[n] /\ n[1] # c
  BY BoundAssumption DEF Copied
<1>3. ASSUME NEW p \in DOMAIN t
      PROVE  /\ <<c, p>> \in DOMAIN new
             /\ new[<<c, p>>] = [doc |-> d, val |-> t[p], mem |-> CopyMembers(t, c, p)]
             /\ new[<<c, p>>].doc = d
  <2>1. new[<<c, p>>] = [doc |-> d, val |-> t[p], mem |-> CopyMembers(t, c, p)]
    BY DEF Copied
  <2>2. <<c, p>> \in DOMAIN new
    BY <1>2
  <2>3. [doc |-> d, val |-> t[p], mem |-> CopyMembers(t, c, p)].doc = d
    OBVIOUS
  <2> QED BY <2>1, <2>2, <2>3, Zenon
<1>4. ASSUME NEW n \in DOMAIN new
      PROVE  n \in DOMAIN nd \/ \E p \in DOMAIN t : n = <<c, p>>
  BY <1>2
<1>5. ASSUME NEW n \in DOMAIN nd
      PROVE  /\ new[n] \in [doc : Doc, val : Content, mem : MembersIn(DOMAIN new)]
             /\ new[n].val \in Scalar => DOMAIN new[n].mem = {}
             /\ \A k \in DOMAIN new[n].mem : /\ new[new[n].mem[k]].doc = new[n].doc
                                             /\ new[n].mem[k] # <<c, << >> >>
  <2>1. nd[n] \in [doc : Doc, val : Content, mem : MembersIn(DOMAIN nd)]
    BY DEF Heap
  <2>2. nd[n].mem \in [DOMAIN nd[n].mem -> DOMAIN nd] /\ DOMAIN nd[n].mem \subseteq Key
    BY HeapMembers
  <2>3. nd[n].mem \in MembersIn(DOMAIN new)
    <3>1. nd[n].mem \in [DOMAIN nd[n].mem -> DOMAIN new]
      BY <1>2, <2>2
    <3> QED BY <2>2, <3>1, MembersInMeaning
  <2>4. new[n] = nd[n]
    BY <1>2
  <2>5. new[n] \in [doc : Doc, val : Content, mem : MembersIn(DOMAIN new)]
    BY <2>1, <2>3, <2>4
  <2>6. new[n].val \in Scalar => DOMAIN new[n].mem = {}
    BY <2>4 DEF Heap
  <2>7. \A k \in DOMAIN new[n].mem : /\ new[new[n].mem[k]].doc = new[n].doc
                                     /\ new[n].mem[k] # <<c, << >> >>
    BY <1>2, <2>2, <2>4 DEF Heap
  <2> QED BY <2>5, <2>6, <2>7
<1>6. ASSUME NEW p \in DOMAIN t
      PROVE  /\ new[<<c, p>>] \in [doc : Doc, val : Content, mem : MembersIn(DOMAIN new)]
             /\ new[<<c, p>>].val \in Scalar => DOMAIN new[<<c, p>>].mem = {}
             /\ \A k \in DOMAIN new[<<c, p>>].mem : /\ new[new[<<c, p>>].mem[k]].doc = new[<<c, p>>].doc
                                                    /\ new[<<c, p>>].mem[k] # <<c, << >> >>
  <2> DEFINE mem == CopyMembers(t, c, p)
  <2>1. \A k \in DOMAIN mem : k \in Key /\ mem[k] = <<c, Append(p, k)>> /\ Append(p, k) \in DOMAIN t
    BY DEF CopyMembers
  <2>2. mem \in MembersIn(DOMAIN new)
    <3>1. \A k \in DOMAIN mem : mem[k] \in DOMAIN new
      <4> TAKE k \in DOMAIN mem
      <4>1. PICK q \in DOMAIN t : mem[k] = <<c, q>>
        BY <2>1
      <4> QED BY <1>2, <4>1
    <3>2. mem = [k \in DOMAIN mem |-> mem[k]]
      BY DEF CopyMembers
    <3>3. mem \in [DOMAIN mem -> DOMAIN new]
      <4> HIDE DEF mem
      <4> QED BY <3>1, <3>2
    <3> QED BY <2>1, <3>3, MembersInMeaning
  <2>3. t[p] \in Content
    BY <1>1
  <2>4. t[p] \in Scalar => DOMAIN mem = {}
    <3>1. p \in Seq(Key)
      BY <1>1
    <3>2. \A k \in Key : Append(p, k) \in DOMAIN t => t[p] = Object
      BY <3>1, TreeParent
    <3> QED BY <2>1, <3>2, ScalarAssumption
  <2>5. \A k \in DOMAIN mem : new[mem[k]].doc = d /\ mem[k] # <<c, << >> >>
    <3> TAKE k \in DOMAIN mem
    <3>1. PICK q \in DOMAIN t : mem[k] = <<c, q>> /\ q = Append(p, k) /\ k \in Key
      BY <2>1
    <3>2. new[<<c, q>>].doc = d
      BY <1>3
    <3>3. q # << >>
      <4>1. p \in Seq(Key)
        BY <1>1
      <4> QED BY <3>1, <4>1, AppendProperties
    <3> QED BY <3>1, <3>2, <3>3
  <2>6. new[<<c, p>>] = [doc |-> d, val |-> t[p], mem |-> mem]
    BY <1>3
  <2> HIDE DEF mem
  <2> QED BY <2>2, <2>3, <2>4, <2>5, <2>6
<1>7. DOMAIN new \subseteq Nat \X Seq(Key)
  BY <1>1, <1>2 DEF Heap
<1>8. Heap(new)
  BY <1>4, <1>5, <1>6, <1>7 DEF Heap
<1>9. <<c, << >> >> \in DOMAIN new /\ new[<<c, << >> >>].doc = d
  <2>1. \A p \in DOMAIN t : <<c, p>> \in DOMAIN new /\ new[<<c, p>>].doc = d
    BY <1>3
  <2> QED BY <1>1, <2>1
<1>10. NoMember(new, <<c, << >> >>)
  BY <1>4, <1>5, <1>6 DEF NoMember
<1> QED BY <1>8, <1>9, <1>10

\* The members of copied nodes are copied nodes, those of old nodes are old.
LEMMA CopyMember ==
  ASSUME NEW nd, Heap(nd), NEW d \in Doc, NEW t, IsTree(t), NEW new, NEW c, Copied(nd, d, t, new, c)
  PROVE  /\ \A n \in DOMAIN nd : /\ n \in DOMAIN new /\ new[n] = nd[n] /\ n[1] # c
                                 /\ \A k \in DOMAIN nd[n].mem : nd[n].mem[k] \in DOMAIN nd
         /\ \A n \in DOMAIN new \ DOMAIN nd :
              /\ n[1] = c /\ n[2] \in DOMAIN t /\ n[2] \in Seq(Key) /\ n = <<c, n[2]>>
              /\ DOMAIN new[n].mem = {k \in Key : Append(n[2], k) \in DOMAIN t}
              /\ \A k \in DOMAIN new[n].mem : /\ new[n].mem[k] = <<c, Append(n[2], k)>>
                                              /\ new[n].mem[k] \in DOMAIN new \ DOMAIN nd
<1>1. /\ DOMAIN new = DOMAIN nd \cup ({c} \X DOMAIN t)
      /\ \A n \in DOMAIN nd : new[n] = nd[n] /\ n[1] # c
  BY DEF Copied
<1>2. \A n \in DOMAIN nd : \A k \in DOMAIN nd[n].mem : nd[n].mem[k] \in DOMAIN nd
  BY HeapMembers
<1>3. ASSUME NEW n \in DOMAIN new \ DOMAIN nd
      PROVE  /\ n[1] = c /\ n[2] \in DOMAIN t /\ n[2] \in Seq(Key) /\ n = <<c, n[2]>>
             /\ DOMAIN new[n].mem = {k \in Key : Append(n[2], k) \in DOMAIN t}
             /\ \A k \in DOMAIN new[n].mem : /\ new[n].mem[k] = <<c, Append(n[2], k)>>
                                             /\ new[n].mem[k] \in DOMAIN new \ DOMAIN nd
  <2>1. PICK p \in DOMAIN t : n = <<c, p>> /\ n[1] = c /\ n[2] = p /\ p \in Seq(Key)
    BY <1>1 DEF IsTree
  <2>2. new[<<c, p>>] = [doc |-> d, val |-> t[p], mem |-> CopyMembers(t, c, p)]
    BY DEF Copied
  <2>3. new[n].mem = CopyMembers(t, c, p)
    BY <2>1, <2>2
  <2>4. DOMAIN CopyMembers(t, c, p) = {k \in Key : Append(p, k) \in DOMAIN t}
    BY DEF CopyMembers
  <2>5. ASSUME NEW k \in DOMAIN CopyMembers(t, c, p)
        PROVE  /\ CopyMembers(t, c, p)[k] = <<c, Append(p, k)>>
               /\ CopyMembers(t, c, p)[k] \in DOMAIN new \ DOMAIN nd
    <3>1. CopyMembers(t, c, p)[k] = <<c, Append(p, k)>>
      BY DEF CopyMembers
    <3>2. PICK q \in DOMAIN t : q = Append(p, k)
      BY <2>4
    <3>3. <<c, q>> \in DOMAIN new /\ <<c, q>>[1] = c
      BY <1>1
    <3>4. <<c, q>> \notin DOMAIN nd
      BY <1>1, <3>3
    <3> QED BY <3>1, <3>2, <3>3, <3>4
  <2> QED BY <2>1, <2>3, <2>4, <2>5
<1> QED BY <1>1, <1>2, <1>3

LEMMA CopyForest ==
  ASSUME NEW nd, Heap(nd), NEW d \in Doc, NEW t, IsTree(t), NEW new, NEW c, Copied(nd, d, t, new, c),
         NEW dc, Forest(nd, dc), \A e \in Doc : dc[e].root \in DOMAIN nd \cup {None}
  PROVE  Forest(new, dc)
<1>1. ASSUME NEW m \in DOMAIN new, NEW n \in DOMAIN new,
             NEW j \in DOMAIN new[m].mem, NEW k \in DOMAIN new[n].mem, new[m].mem[j] = new[n].mem[k]
      PROVE  m = n /\ j = k
  <2>1. CASE m \in DOMAIN nd /\ n \in DOMAIN nd
    BY <1>1, <2>1, CopyMember DEF Forest
  <2>2. CASE m \in DOMAIN nd /\ n \notin DOMAIN nd
    BY <1>1, <2>2, CopyMember
  <2>3. CASE m \notin DOMAIN nd /\ n \in DOMAIN nd
    BY <1>1, <2>3, CopyMember
  <2>4. CASE m \notin DOMAIN nd /\ n \notin DOMAIN nd
    <3>1. /\ m = <<c, m[2]>> /\ m[2] \in Seq(Key) /\ j \in Key /\ new[m].mem[j] = <<c, Append(m[2], j)>>
          /\ n = <<c, n[2]>> /\ n[2] \in Seq(Key) /\ k \in Key /\ new[n].mem[k] = <<c, Append(n[2], k)>>
      BY <2>4, CopyMember
    <3>2. Append(m[2], j) = Append(n[2], k)
      <4>1. <<c, Append(m[2], j)>> = <<c, Append(n[2], k)>>
        BY <1>1, <3>1, Zenon
      <4>2. \A x, y : <<c, x>> = <<c, y>> => x = y
        OBVIOUS
      <4> QED BY <4>1, <4>2
    <3>3. m[2] = n[2] /\ j = k
      BY <3>1, <3>2, AppendSame
    <3> QED BY <3>1, <3>3
  <2> QED BY <2>1, <2>2, <2>3, <2>4
<1>2. ASSUME NEW e \in Doc, NEW n \in DOMAIN new, NEW k \in DOMAIN new[n].mem
      PROVE  new[n].mem[k] # dc[e].root
  <2>1. CASE n \in DOMAIN nd
    BY <2>1, CopyMember DEF Forest
  <2>2. CASE n \notin DOMAIN nd
    <3>1. Heap(new)
      BY CopyHeap
    <3>2. None \notin DOMAIN new
      BY <3>1, NoneIsNoNode
    <3> QED BY <2>2, <3>2, CopyMember
  <2> QED BY <2>1, <2>2
<1> QED BY <1>1, <1>2 DEF Forest

LEMMA RootsKept ==
  ASSUME NEW nd, NEW dc, NEW wr, Roots(nd, dc, wr), NEW new, DOMAIN nd \subseteq DOMAIN new,
         \A n \in DOMAIN nd : new[n].doc = nd[n].doc
  PROVE  Roots(new, dc, wr)
<1>1. dc \in [Doc -> [root : DOMAIN new \cup {None}, mutable : BOOLEAN]]
  BY DEF Roots
<1>2. wr \in [Wrapper -> [doc : Doc, val : DOMAIN new] \cup {Closed}]
  BY DEF Roots
<1>3. ASSUME NEW d \in Doc, dc[d].root # None PROVE new[dc[d].root].doc = d
  <2>1. dc[d] \in [root : DOMAIN nd \cup {None}, mutable : BOOLEAN]
    BY DEF Roots
  <2>2. dc[d].root \in DOMAIN nd /\ nd[dc[d].root].doc = d
    BY <1>3, <2>1 DEF Roots
  <2> QED BY <2>2
<1>4. ASSUME NEW w \in Wrapper, wr[w] # Closed PROVE new[wr[w].val].doc = wr[w].doc
  <2>1. wr[w] \in [doc : Doc, val : DOMAIN nd]
    BY <1>4 DEF Roots
  <2>2. wr[w].val \in DOMAIN nd /\ nd[wr[w].val].doc = wr[w].doc
    BY <1>4, <2>1 DEF Roots
  <2> QED BY <2>2
<1> QED BY <1>1, <1>2, <1>3, <1>4 DEF Roots

\* What Roots says of a wrapper and of a document.
LEMMA RootsFacts ==
  ASSUME NEW nd, NEW dc, NEW wr, Roots(nd, dc, wr)
  PROVE  /\ \A w \in Wrapper : wr[w] # Closed =>
              /\ wr[w] \in [doc : Doc, val : DOMAIN nd]
              /\ wr[w].doc \in Doc /\ wr[w].val \in DOMAIN nd /\ nd[wr[w].val].doc = wr[w].doc
         /\ \A d \in Doc :
              /\ dc[d] \in [root : DOMAIN nd \cup {None}, mutable : BOOLEAN]
              /\ dc[d].root \in DOMAIN nd \cup {None} /\ dc[d].mutable \in BOOLEAN
              /\ dc[d].root # None => nd[dc[d].root].doc = d
<1>1. ASSUME NEW w \in Wrapper, wr[w] # Closed
      PROVE  /\ wr[w] \in [doc : Doc, val : DOMAIN nd]
             /\ wr[w].doc \in Doc /\ wr[w].val \in DOMAIN nd /\ nd[wr[w].val].doc = wr[w].doc
  <2>1. wr[w] \in [doc : Doc, val : DOMAIN nd]
    BY <1>1 DEF Roots
  <2> QED BY <1>1, <2>1 DEF Roots
<1>2. ASSUME NEW d \in Doc
      PROVE  /\ dc[d] \in [root : DOMAIN nd \cup {None}, mutable : BOOLEAN]
             /\ dc[d].root \in DOMAIN nd \cup {None} /\ dc[d].mutable \in BOOLEAN
             /\ dc[d].root # None => nd[dc[d].root].doc = d
  <2>1. dc[d] \in [root : DOMAIN nd \cup {None}, mutable : BOOLEAN]
    BY DEF Roots
  <2> QED BY <2>1 DEF Roots
<1> QED BY <1>1, <1>2

LEMMA CopyReady ==
  ASSUME IInv, NEW d \in Doc, NEW t, IsTree(t), NEW new, NEW c, Copied(node, d, t, new, c)
  PROVE  /\ Heap(new) /\ Roots(new, doc, wrap) /\ Forest(new, doc)
         /\ \A dc, wr : (\A n \in Tops(dc, wr) : n \in DOMAIN node \/ Len(n[2]) = 0)
                          => Grown(new, dc, wr, DOMAIN node)
         /\ DOMAIN node \subseteq DOMAIN new /\ \A n \in DOMAIN node : new[n] = node[n]
         /\ <<c, << >> >> \in DOMAIN new \ DOMAIN node /\ new[<<c, << >> >>].doc = d
         /\ NoMember(new, <<c, << >> >>)
<1>1. Heap(node) /\ Roots(node, doc, wrap) /\ Forest(node, doc) /\ DOMAIN node \subseteq Node
  BY DEF IInv, Small
<1>2. Heap(new) /\ <<c, << >> >> \in DOMAIN new /\ new[<<c, << >> >>].doc = d
  BY <1>1, CopyHeap
<1>3. NoMember(new, <<c, << >> >>)
  BY <1>1, CopyHeap
<1>4. \A n \in DOMAIN node : n \in DOMAIN new /\ new[n] = node[n] /\ n[1] # c
  BY <1>1, CopyMember
<1>5. <<c, << >> >> \notin DOMAIN node
  <2>1. <<c, << >> >>[1] = c
    OBVIOUS
  <2> QED BY <1>4, <2>1
<1>6. Roots(new, doc, wrap)
  BY <1>1, <1>4, RootsKept
<1>7. Forest(new, doc)
  <2>1. \A e \in Doc : doc[e].root \in DOMAIN node \cup {None}
    BY <1>1, RootsFacts
  <2> QED BY <1>1, <2>1, CopyForest
<1>8. ASSUME NEW dc, NEW wr, \A n \in Tops(dc, wr) : n \in DOMAIN node \/ Len(n[2]) = 0
      PROVE  Grown(new, dc, wr, DOMAIN node)
  <2>1. \A n \in DOMAIN new : n \in DOMAIN node \/ n[1] \in 1..MaxNode + 1
    BY <1>1, CopyMember DEF Copied
  <2>2. ASSUME NEW n \in DOMAIN new, NEW k \in DOMAIN new[n].mem
        PROVE  \/ new[n].mem[k] \in DOMAIN node
               \/ n \notin DOMAIN node /\ Len(new[n].mem[k][2]) = Len(n[2]) + 1
    <3>1. CASE n \in DOMAIN node
      BY <1>1, <3>1, CopyMember
    <3>2. CASE n \notin DOMAIN node
      <4>1. n[2] \in Seq(Key) /\ k \in Key /\ new[n].mem[k] = <<c, Append(n[2], k)>>
        BY <1>1, <3>2, CopyMember
      <4>2. PICK q : q = Append(n[2], k) /\ Len(q) = Len(n[2]) + 1
        BY <4>1
      <4>3. new[n].mem[k][2] = q
        BY <4>1, <4>2
      <4> QED BY <3>2, <4>2, <4>3
    <3> QED BY <3>1, <3>2
  <2> QED BY <1>1, <1>8, <2>1, <2>2 DEF Grown
<1> QED BY <1>2, <1>3, <1>4, <1>5, <1>6, <1>7, <1>8

\* A copy as the root of a document that no wrapper holds yet.
LEMMA NewDocumentReady ==
  ASSUME IInv, NEW d \in Doc, NEW w \in Wrapper, NEW m \in BOOLEAN,
         NEW t, IsTree(t), NEW new, NEW c, Copied(node, d, t, new, c)
  PROVE  Ready(new, [doc EXCEPT ![d] = [root |-> <<c, << >> >>, mutable |-> m]],
               [wrap EXCEPT ![w] = [doc |-> d, val |-> <<c, << >> >>]])
<1> DEFINE top == <<c, << >> >>
           dc  == [doc EXCEPT ![d] = [root |-> top, mutable |-> m]]
           wr  == [wrap EXCEPT ![w] = [doc |-> d, val |-> top]]
<1>1. /\ Heap(new) /\ Roots(new, doc, wrap) /\ Forest(new, doc)
      /\ top \in DOMAIN new /\ new[top].doc = d /\ Roots(node, doc, wrap)
      /\ NoMember(new, top)
  BY CopyReady DEF IInv
<1>2. Len(top[2]) = 0
  OBVIOUS
<1>3. DOMAIN doc = Doc /\ DOMAIN wrap = Wrapper
  BY <1>1 DEF Roots
<1> HIDE DEF top
<1>4. Roots(new, dc, wr)
  <2>1. \A e \in Doc : dc[e] = IF e = d THEN [root |-> top, mutable |-> m] ELSE doc[e]
    BY <1>3
  <2>2. \A v \in Wrapper : wr[v] = IF v = w THEN [doc |-> d, val |-> top] ELSE wrap[v]
    BY <1>3
  <2>3. dc \in [Doc -> [root : DOMAIN new \cup {None}, mutable : BOOLEAN]]
    BY <1>1 DEF Roots
  <2>4. wr \in [Wrapper -> [doc : Doc, val : DOMAIN new] \cup {Closed}]
    BY <1>1 DEF Roots
  <2>5. \A e \in Doc : dc[e].root # None => new[dc[e].root].doc = e
    BY <1>1, <2>1 DEF Roots
  <2>6. \A v \in Wrapper : wr[v] # Closed => new[wr[v].val].doc = wr[v].doc
    BY <1>1, <2>2 DEF Roots
  <2> QED BY <2>3, <2>4, <2>5, <2>6 DEF Roots
<1>5. Forest(new, dc)
  BY <1>1, <1>3 DEF Forest, NoMember
<1>6. ASSUME NEW n \in Tops(dc, wr) PROVE n \in DOMAIN node \/ Len(n[2]) = 0
  <2>1. CASE n = top
    BY <1>2, <2>1
  <2>2. CASE \E e \in Doc : n = doc[e].root
    BY <1>1, <1>6, <2>2, RootsFacts DEF Tops
  <2>3. CASE \E v \in Wrapper : wrap[v] # Closed /\ n = wrap[v].val
    BY <1>1, <2>3, RootsFacts
  <2>4. (\E e \in Doc : n = dc[e].root) \/ \E v \in Wrapper : wr[v] # Closed /\ n = wr[v].val
    BY <1>6 DEF Tops
  <2> QED BY <1>3, <2>1, <2>2, <2>3, <2>4
<1>7. Grown(new, dc, wr, DOMAIN node)
  <2> HIDE DEF dc, wr
  <2> QED BY <1>6, CopyReady
<1> QED BY <1>1, <1>4, <1>5, <1>7 DEF Ready, top

\* A copy as the new root of a document; wrappers of that document may move there.
\* The wrappers after some of them move to node n, as in SetRoot.
Moved(moves, n) ==
  [w \in Wrapper |-> IF w \in moves THEN [wrap[w] EXCEPT !.val = n] ELSE wrap[w]]

LEMMA SetRootReady ==
  ASSUME IInv, NEW v \in Wrapper, wrap[v] # Closed, NEW moves \in SUBSET {v},
         NEW t, IsTree(t), NEW new, NEW c, Copied(node, wrap[v].doc, t, new, c)
  PROVE  Ready(new, [doc EXCEPT ![wrap[v].doc].root = <<c, << >> >>], Moved(moves, <<c, << >> >>))
<1> DEFINE top == <<c, << >> >>
           d   == wrap[v].doc
           dc  == [doc EXCEPT ![d].root = top]
           wr  == [w \in Wrapper |-> IF w \in moves THEN [wrap[w] EXCEPT !.val = top] ELSE wrap[w]]
<1>1. Roots(node, doc, wrap)
  BY DEF IInv
<1>2. d \in Doc /\ wrap[v] \in [doc : Doc, val : DOMAIN node]
  BY <1>1, RootsFacts
<1>3. /\ Heap(new) /\ Roots(new, doc, wrap) /\ Forest(new, doc)
      /\ top \in DOMAIN new /\ new[top].doc = d
      /\ NoMember(new, top)
  BY <1>2, CopyReady
<1>4. Len(top[2]) = 0
  OBVIOUS
<1>5. DOMAIN doc = Doc /\ DOMAIN wrap = Wrapper
  BY <1>1 DEF Roots
<1> HIDE DEF top
<1>6. \A e \in Doc : /\ dc[e].root = (IF e = d THEN top ELSE doc[e].root)
                     /\ dc[e] \in [root : DOMAIN new \cup {None}, mutable : BOOLEAN]
  <2> TAKE e \in Doc
  <2>1. doc[e] \in [root : DOMAIN new \cup {None}, mutable : BOOLEAN]
    BY <1>3 DEF Roots
  <2>2. dc[e] = IF e = d THEN [doc[e] EXCEPT !.root = top] ELSE doc[e]
    BY <1>2, <1>5
  <2> QED BY <1>3, <2>1, <2>2
<1>7. \A w \in Wrapper : /\ wr[w] = IF w \in moves THEN [doc |-> d, val |-> top] ELSE wrap[w]
                         /\ w \in moves => w = v
  <2>1. [wrap[v] EXCEPT !.val = top] = [doc |-> d, val |-> top]
    BY <1>2
  <2> QED BY <2>1
<1>8. dc = [e \in Doc |-> dc[e]] /\ wr = [w \in Wrapper |-> wr[w]]
  BY <1>5
<1> HIDE DEF dc, wr
<1>9. Roots(new, dc, wr)
  <2>1. dc \in [Doc -> [root : DOMAIN new \cup {None}, mutable : BOOLEAN]]
    BY <1>6, <1>8
  <2>2. wr \in [Wrapper -> [doc : Doc, val : DOMAIN new] \cup {Closed}]
    <3>1. \A w \in Wrapper : wr[w] \in [doc : Doc, val : DOMAIN new] \cup {Closed}
      BY <1>2, <1>3, <1>7 DEF Roots
    <3> QED BY <1>8, <3>1
  <2>3. \A e \in Doc : dc[e].root # None => new[dc[e].root].doc = e
    BY <1>3, <1>6 DEF Roots
  <2>4. \A w \in Wrapper : wr[w] # Closed => new[wr[w].val].doc = wr[w].doc
    BY <1>3, <1>7 DEF Roots
  <2> QED BY <2>1, <2>2, <2>3, <2>4 DEF Roots
<1>10. Forest(new, dc)
  BY <1>3, <1>6 DEF Forest, NoMember
<1>11. ASSUME NEW n \in Tops(dc, wr) PROVE n \in DOMAIN node \/ Len(n[2]) = 0
  <2>1. (\E e \in Doc : n = dc[e].root) \/ \E w \in Wrapper : wr[w] # Closed /\ n = wr[w].val
    BY DEF Tops
  <2>2. CASE n = top
    BY <1>4, <2>2
  <2>3. CASE \E e \in Doc : n = doc[e].root
    BY <1>1, <2>3, RootsFacts DEF Tops
  <2>4. CASE \E w \in Wrapper : wrap[w] # Closed /\ n = wrap[w].val
    BY <1>1, <2>4, RootsFacts
  <2> QED BY <1>6, <1>7, <2>1, <2>2, <2>3, <2>4
<1>12. Grown(new, dc, wr, DOMAIN node)
  BY <1>2, <1>11, CopyReady
<1> QED BY <1>3, <1>9, <1>10, <1>12 DEF Ready, top, dc, wr, Moved

\* new is nd with node m as member k of node n.
Linked(nd, n, k, m, new) ==
  /\ DOMAIN new = DOMAIN nd
  /\ \A o \in DOMAIN nd \ {n} : new[o] = nd[o]
  /\ new[n] = [doc |-> nd[n].doc, val |-> nd[n].val, mem |-> Over([j \in {k} |-> m], nd[n].mem)]
  /\ DOMAIN new[n].mem = {k} \cup DOMAIN nd[n].mem
  /\ \A j \in DOMAIN new[n].mem : new[n].mem[j] = IF j = k THEN m ELSE nd[n].mem[j]
  /\ \A o \in DOMAIN nd : new[o].doc = nd[o].doc /\ new[o].val = nd[o].val

LEMMA LinkLinks ==
  ASSUME NEW nd, Heap(nd), NEW n \in DOMAIN nd, NEW k, NEW m
  PROVE  Linked(nd, n, k, m, Link(nd, n, k, m))
<1> DEFINE new  == Link(nd, n, k, m)
           more == Over([j \in {k} |-> m], nd[n].mem)
<1>1. DOMAIN more = {k} \cup DOMAIN nd[n].mem
  BY DEF Over
<1>2. \A j \in DOMAIN more : more[j] = IF j = k THEN m ELSE nd[n].mem[j]
  BY DEF Over
<1>3. nd[n] \in [doc : Doc, val : Content, mem : MembersIn(DOMAIN nd)]
  BY DEF Heap
<1>4. new = [nd EXCEPT ![n] = [nd[n] EXCEPT !.mem = more]]
  BY DEF Link
<1>5. [nd[n] EXCEPT !.mem = more] = [doc |-> nd[n].doc, val |-> nd[n].val, mem |-> more]
  <2> HIDE DEF more
  <2> QED BY <1>3
<1> HIDE DEF more, new
<1>6. DOMAIN new = DOMAIN nd /\ \A o \in DOMAIN nd \ {n} : new[o] = nd[o]
  BY <1>4
<1>7. new[n] = [doc |-> nd[n].doc, val |-> nd[n].val, mem |-> more]
  BY <1>4, <1>5
<1>8. new[n].mem = more /\ new[n].doc = nd[n].doc /\ new[n].val = nd[n].val
  BY <1>7
<1> QED BY <1>1, <1>2, <1>6, <1>7, <1>8 DEF Linked, new, more

\* A node that is no member and no root becomes a member of an object of its
\* document.
LEMMA LinkKeeps ==
  ASSUME NEW nd, NEW dc, NEW wr, NEW old, Heap(nd), Roots(nd, dc, wr), Forest(nd, dc),
         Grown(nd, dc, wr, old), NEW n \in DOMAIN nd, IsObj(nd, n), NEW k \in Key,
         NEW m \in DOMAIN nd, nd[m].doc = nd[n].doc, Len(m[2]) = 0,
         NoMember(nd, m), \A d \in Doc : dc[d].root # m,
         NEW new, Linked(nd, n, k, m, new)
  PROVE  Heap(new) /\ Roots(new, dc, wr) /\ Forest(new, dc) /\ Grown(new, dc, wr, old)
<1> DEFINE more == Over([j \in {k} |-> m], nd[n].mem)
<1>1. /\ DOMAIN new = DOMAIN nd
      /\ \A o \in DOMAIN nd \ {n} : new[o] = nd[o]
      /\ new[n] = [doc |-> nd[n].doc, val |-> nd[n].val, mem |-> more]
      /\ DOMAIN new[n].mem = {k} \cup DOMAIN nd[n].mem
      /\ \A j \in DOMAIN new[n].mem : new[n].mem[j] = IF j = k THEN m ELSE nd[n].mem[j]
      /\ \A o \in DOMAIN nd : new[o].doc = nd[o].doc /\ new[o].val = nd[o].val
  BY DEF Linked
<1>2. /\ nd[n].mem \in [DOMAIN nd[n].mem -> DOMAIN nd] /\ DOMAIN nd[n].mem \subseteq Key
      /\ nd[n].doc \in Doc /\ nd[n].val \in Content
  BY HeapMembers
<1>3. more \in MembersIn(DOMAIN nd)
  <2>1. more \in [DOMAIN more -> DOMAIN nd] /\ DOMAIN more \subseteq Key
    BY <1>2 DEF Over
  <2> HIDE DEF more
  <2> QED BY <2>1, MembersInMeaning
<1> HIDE DEF more
<1>4. \A o \in DOMAIN nd : \A j \in DOMAIN new[o].mem :
        (o = n /\ j = k /\ new[o].mem[j] = m) \/ (j \in DOMAIN nd[o].mem /\ new[o].mem[j] = nd[o].mem[j])
  <2> TAKE o \in DOMAIN nd
  <2>1. CASE o = n
    <3> TAKE j \in DOMAIN new[o].mem
    <3>1. new[n].mem[j] = (IF j = k THEN m ELSE nd[n].mem[j]) /\ (j # k => j \in DOMAIN nd[n].mem)
      BY <1>1, <2>1, Zenon
    <3> QED BY <2>1, <3>1
  <2>2. CASE o # n
    <3>1. new[o] = nd[o]
      BY <1>1, <2>2
    <3> QED BY <3>1
  <2> QED BY <2>1, <2>2
<1>5. Heap(new)
  <2>1. \A o \in DOMAIN nd : new[o] \in [doc : Doc, val : Content, mem : MembersIn(DOMAIN new)]
    <3> TAKE o \in DOMAIN nd
    <3>1. CASE o = n
      BY <1>1, <1>2, <1>3, <3>1
    <3>2. CASE o # n
      BY <1>1, <3>2 DEF Heap
    <3> QED BY <3>1, <3>2
  <2>2. \A o \in DOMAIN nd : new[o].val \in Scalar => DOMAIN new[o].mem = {}
    <3> TAKE o \in DOMAIN nd
    <3>1. CASE o = n
      BY <1>1, <3>1, ScalarAssumption DEF IsObj
    <3>2. CASE o # n
      BY <1>1, <3>2 DEF Heap
    <3> QED BY <3>1, <3>2
  <2>3. \A o \in DOMAIN nd : \A j \in DOMAIN new[o].mem : new[new[o].mem[j]].doc = new[o].doc
    <3> TAKE o \in DOMAIN nd
    <3> TAKE j \in DOMAIN new[o].mem
    <3>1. CASE o = n /\ j = k /\ new[o].mem[j] = m
      BY <1>1, <3>1
    <3>2. CASE j \in DOMAIN nd[o].mem /\ new[o].mem[j] = nd[o].mem[j]
      <4>1. nd[o].mem[j] \in DOMAIN nd /\ nd[nd[o].mem[j]].doc = nd[o].doc
        BY <3>2, HeapMembers, SMTT(30) DEF Heap
      <4> QED BY <1>1, <3>2, <4>1
    <3> QED BY <1>4, <3>1, <3>2
  <2>4. DOMAIN new \subseteq Nat \X Seq(Key)
    BY <1>1 DEF Heap
  <2> QED BY <1>1, <2>1, <2>2, <2>3, <2>4 DEF Heap
<1>6. Roots(new, dc, wr)
  BY <1>1, RootsKept
<1>7. Forest(new, dc)
  <2>1. ASSUME NEW a \in DOMAIN nd, NEW b \in DOMAIN nd,
               NEW i \in DOMAIN new[a].mem, NEW j \in DOMAIN new[b].mem, new[a].mem[i] = new[b].mem[j]
        PROVE  a = b /\ i = j
    BY <1>4, <2>1 DEF Forest, NoMember
  <2>2. \A d \in Doc, o \in DOMAIN nd : \A j \in DOMAIN new[o].mem : new[o].mem[j] # dc[d].root
    BY <1>4 DEF Forest
  <2> QED BY <1>1, <2>1, <2>2 DEF Forest
<1>8. Grown(new, dc, wr, old)
  <2>1. ASSUME NEW o \in DOMAIN nd, NEW j \in DOMAIN new[o].mem
        PROVE  \/ new[o].mem[j] \in old
               \/ Len(new[o].mem[j][2]) = 0
               \/ o \notin old /\ Len(new[o].mem[j][2]) = Len(o[2]) + 1
    BY <1>4 DEF Grown
  <2> QED BY <1>1, <2>1 DEF Grown
<1> QED BY <1>5, <1>6, <1>7, <1>8

LEMMA PutReady ==
  ASSUME IInv, NEW n \in DOMAIN node, IsObj(node, n), NEW k \in Key, NEW t, IsTree(t)
  PROVE  Ready(PutMember(node, n, k, t), doc, wrap)
<1>1. Heap(node) /\ Small(node) /\ Roots(node, doc, wrap)
  BY DEF IInv
<1>2. node[n].doc \in Doc
  BY <1>1, HeapMembers
<1> DEFINE cp == CopyInto(node, node[n].doc, t)
<1>3. PICK c : Copied(node, node[n].doc, t, cp.nodes, c) /\ cp.top = <<c, << >> >>
  <2>1. DOMAIN t \subseteq Seq(Key)
    BY DEF IsTree
  <2> QED BY <1>1, <2>1, CopyIntoCopies
<1>4. PutMember(node, n, k, t) = Link(cp.nodes, n, k, cp.top)
  BY DEF PutMember
<1> DEFINE nd  == cp.nodes
           top == <<c, << >> >>
<1> HIDE DEF cp
<1>5. /\ Heap(nd) /\ Roots(nd, doc, wrap) /\ Forest(nd, doc)
      /\ n \in DOMAIN nd /\ nd[n] = node[n]
      /\ top \in DOMAIN nd \ DOMAIN node /\ nd[top].doc = node[n].doc
      /\ NoMember(nd, top)
  BY <1>2, <1>3, CopyReady
<1>6. Grown(nd, doc, wrap, DOMAIN node)
  <2>1. Tops(doc, wrap) \subseteq DOMAIN node
    BY <1>1 DEF Tops, Roots
  <2> QED BY <1>2, <1>3, <2>1, CopyReady
<1>7. Len(top[2]) = 0
  OBVIOUS
<1>8. \A d \in Doc : doc[d].root # top
  <2>1. \A d \in Doc : doc[d].root \in DOMAIN node \cup {None}
    BY <1>1, RootsFacts
  <2>2. top # None
    BY <1>5, NoneIsNoNode
  <2> QED BY <1>5, <2>1, <2>2
<1>9. IsObj(nd, n)
  BY <1>5 DEF IsObj
<1> HIDE DEF top
<1>10. Linked(nd, n, k, top, Link(nd, n, k, top))
  BY <1>5, LinkLinks
<1>11. nd[top].doc = nd[n].doc
  BY <1>5
<1> DEFINE new == Link(nd, n, k, top)
<1> HIDE DEF nd, new
<1>12. Heap(new) /\ Roots(new, doc, wrap) /\ Forest(new, doc) /\ Grown(new, doc, wrap, DOMAIN node)
  BY <1>5, <1>6, <1>7, <1>8, <1>9, <1>10, <1>11, LinkKeeps DEF new
<1> QED BY <1>3, <1>4, <1>12 DEF Ready, new, nd, top

\* Nodes of which some lost members, or became scalars.
Fewer(nd, new) ==
  /\ DOMAIN new = DOMAIN nd
  /\ \A o \in DOMAIN nd :
       /\ new[o] = [doc |-> nd[o].doc, val |-> new[o].val, mem |-> new[o].mem]
       /\ new[o].val \in Content /\ new[o].mem = [j \in DOMAIN new[o].mem |-> new[o].mem[j]]
       /\ new[o].val \in Scalar => DOMAIN new[o].mem = {}
       /\ \A j \in DOMAIN new[o].mem : j \in DOMAIN nd[o].mem /\ new[o].mem[j] = nd[o].mem[j]

LEMMA FewerReady ==
  ASSUME IInv, NEW new, Fewer(node, new)
  PROVE  Ready(new, doc, wrap)
<1>1. /\ Heap(node) /\ Roots(node, doc, wrap) /\ Forest(node, doc)
      /\ Grown(node, doc, wrap, DOMAIN node)
  BY InvariantReady DEF Ready
<1>2. DOMAIN new = DOMAIN node
  BY DEF Fewer
<1>3. ASSUME NEW o \in DOMAIN node
      PROVE  /\ new[o] \in [doc : Doc, val : Content, mem : MembersIn(DOMAIN new)]
             /\ new[o].val \in Scalar => DOMAIN new[o].mem = {}
             /\ new[o].doc = node[o].doc
             /\ \A j \in DOMAIN new[o].mem : j \in DOMAIN node[o].mem /\ new[o].mem[j] = node[o].mem[j]
  <2>1. /\ new[o] = [doc |-> node[o].doc, val |-> new[o].val, mem |-> new[o].mem]
        /\ new[o].val \in Content /\ new[o].mem = [j \in DOMAIN new[o].mem |-> new[o].mem[j]]
        /\ \A j \in DOMAIN new[o].mem : j \in DOMAIN node[o].mem /\ new[o].mem[j] = node[o].mem[j]
    BY DEF Fewer
  <2>2. /\ node[o].mem \in [DOMAIN node[o].mem -> DOMAIN node] /\ DOMAIN node[o].mem \subseteq Key
        /\ node[o].doc \in Doc
    BY <1>1, HeapMembers
  <2>3. new[o].mem \in [DOMAIN new[o].mem -> DOMAIN new]
    <3>1. \A j \in DOMAIN new[o].mem : new[o].mem[j] \in DOMAIN new
      BY <1>2, <2>1, <2>2
    <3> DEFINE mem == new[o].mem
    <3>2. mem = [j \in DOMAIN mem |-> mem[j]]
      BY <2>1, Zenon
    <3> HIDE DEF mem
    <3> QED BY <3>1, <3>2 DEF mem
  <2>4. new[o].mem \in MembersIn(DOMAIN new)
    BY <2>1, <2>2, <2>3, MembersInMeaning
  <2>5. new[o].doc = node[o].doc
    <3> DEFINE v == new[o].val
               m == new[o].mem
    <3>1. new[o] = [doc |-> node[o].doc, val |-> v, mem |-> m]
      BY <2>1, Zenon
    <3> HIDE DEF v, m
    <3> QED BY <3>1
  <2>6. new[o] \in [doc : Doc, val : Content, mem : MembersIn(DOMAIN new)]
    BY <2>1, <2>2, <2>4
  <2>7. new[o].val \in Scalar => DOMAIN new[o].mem = {}
    BY DEF Fewer
  <2> QED BY <2>1, <2>5, <2>6, <2>7
<1>4. Heap(new)
  <2>1. \A o \in DOMAIN node : \A j \in DOMAIN new[o].mem : new[new[o].mem[j]].doc = new[o].doc
    <3> TAKE o \in DOMAIN node
    <3> TAKE j \in DOMAIN new[o].mem
    <3>1. j \in DOMAIN node[o].mem /\ new[o].mem[j] = node[o].mem[j]
      BY <1>3
    <3>2. node[o].mem[j] \in DOMAIN node /\ node[node[o].mem[j]].doc = node[o].doc
      BY <1>1, <3>1, HeapMembers DEF Heap
    <3> QED BY <1>3, <3>1, <3>2
  <2>2. DOMAIN new \subseteq Nat \X Seq(Key)
    BY <1>1, <1>2 DEF Heap
  <2> QED BY <1>2, <1>3, <2>1, <2>2 DEF Heap
<1>5. Roots(new, doc, wrap)
  BY <1>1, <1>2, <1>3, RootsKept
<1>6. Forest(new, doc)
  BY <1>1, <1>2, <1>3 DEF Forest
<1>7. Grown(new, doc, wrap, DOMAIN node)
  BY <1>1, <1>2, <1>3 DEF Grown
<1> QED BY <1>4, <1>5, <1>6, <1>7 DEF Ready

LEMMA DropFewer ==
  ASSUME Heap(node), NEW n \in DOMAIN node, NEW K
  PROVE  Fewer(node, DropMembers(node, n, K))
<1> DEFINE new  == DropMembers(node, n, K)
           less == Restrict(node[n].mem, DOMAIN node[n].mem \ K)
<1>1. /\ less = [j \in DOMAIN less |-> less[j]]
      /\ \A j \in DOMAIN less : j \in DOMAIN node[n].mem /\ less[j] = node[n].mem[j]
  BY DEF Restrict
<1>2. \A o \in DOMAIN node : /\ node[o] \in [doc : Doc, val : Content, mem : MembersIn(DOMAIN node)]
                             /\ node[o].val \in Scalar => DOMAIN node[o].mem = {}
                             /\ node[o].mem = [j \in DOMAIN node[o].mem |-> node[o].mem[j]]
  BY HeapMembers DEF Heap
<1>3. new = [node EXCEPT ![n] = [node[n] EXCEPT !.mem = less]]
  BY DEF DropMembers
<1> HIDE DEF less, new
<1>4. [node[n] EXCEPT !.mem = less] = [doc |-> node[n].doc, val |-> node[n].val, mem |-> less]
  <2>1. node[n] \in [doc : Doc, val : Content, mem : MembersIn(DOMAIN node)]
    BY <1>2
  <2> QED BY <2>1
<1>5. DOMAIN new = DOMAIN node /\ \A o \in DOMAIN node \ {n} : new[o] = node[o]
  BY <1>3
<1>6. new[n] = [doc |-> node[n].doc, val |-> node[n].val, mem |-> less]
  BY <1>3, <1>4
<1>7. new[n].mem = less /\ new[n].doc = node[n].doc /\ new[n].val = node[n].val
  BY <1>6
<1>8. ASSUME NEW o \in DOMAIN node
      PROVE  /\ new[o] = [doc |-> node[o].doc, val |-> new[o].val, mem |-> new[o].mem]
             /\ new[o].val \in Content /\ new[o].mem = [j \in DOMAIN new[o].mem |-> new[o].mem[j]]
             /\ new[o].val \in Scalar => DOMAIN new[o].mem = {}
             /\ \A j \in DOMAIN new[o].mem : j \in DOMAIN node[o].mem /\ new[o].mem[j] = node[o].mem[j]
  <2>1. CASE o = n
    <3>1. new[n] = [doc |-> node[n].doc, val |-> new[n].val, mem |-> new[n].mem]
      BY <1>6, <1>7, Zenon
    <3>2. node[n].val \in Scalar => DOMAIN less = {}
      BY <1>1, <1>2
    <3> QED BY <1>1, <1>2, <1>7, <2>1, <3>1, <3>2
  <2>2. CASE o # n
    <3>1. new[o] = node[o]
      BY <1>5, <2>2
    <3>2. node[o] = [doc |-> node[o].doc, val |-> node[o].val, mem |-> node[o].mem]
      BY <1>2
    <3> QED BY <1>2, <3>1, <3>2
  <2> QED BY <2>1, <2>2
<1> QED BY <1>5, <1>8 DEF Fewer, new

LEMMA ScalarFewer ==
  ASSUME Heap(node), NEW n \in DOMAIN node, NEW s \in Scalar
  PROVE  Fewer(node, [node EXCEPT ![n].val = s, ![n].mem = << >>])
<1> DEFINE new == [node EXCEPT ![n].val = s, ![n].mem = << >>]
<1>1. \A o \in DOMAIN node : /\ node[o] \in [doc : Doc, val : Content, mem : MembersIn(DOMAIN node)]
                             /\ node[o].val \in Scalar => DOMAIN node[o].mem = {}
                             /\ node[o].mem = [j \in DOMAIN node[o].mem |-> node[o].mem[j]]
  BY HeapMembers DEF Heap
<1>2. new[n] = [doc |-> node[n].doc, val |-> s, mem |-> << >>]
  <2>1. node[n] = [doc |-> node[n].doc, val |-> node[n].val, mem |-> node[n].mem]
    BY <1>1
  <2> QED BY <2>1
<1>3. DOMAIN new = DOMAIN node /\ \A o \in DOMAIN node \ {n} : new[o] = node[o]
  OBVIOUS
<1> HIDE DEF new
<1>4. ASSUME NEW o \in DOMAIN node
      PROVE  /\ new[o] = [doc |-> node[o].doc, val |-> new[o].val, mem |-> new[o].mem]
             /\ new[o].val \in Content /\ new[o].mem = [j \in DOMAIN new[o].mem |-> new[o].mem[j]]
             /\ new[o].val \in Scalar => DOMAIN new[o].mem = {}
             /\ \A j \in DOMAIN new[o].mem : j \in DOMAIN node[o].mem /\ new[o].mem[j] = node[o].mem[j]
  <2>1. CASE o = n
    <3>1. new[n].val = s /\ new[n].mem = << >>
      BY <1>2
    <3>2. DOMAIN << >> = {} /\ << >> = [j \in DOMAIN << >> |-> << >>[j]]
      OBVIOUS
    <3>3. new[n] = [doc |-> node[n].doc, val |-> new[n].val, mem |-> new[n].mem]
      BY <1>2, <3>1, Zenon
    <3> QED BY <2>1, <3>1, <3>2, <3>3 DEF Content
  <2>2. CASE o # n
    <3>1. new[o] = node[o]
      BY <1>3, <2>2
    <3>2. node[o] = [doc |-> node[o].doc, val |-> node[o].val, mem |-> node[o].mem]
      BY <1>1
    <3> QED BY <1>1, <3>1, <3>2
  <2> QED BY <2>1, <2>2
<1> QED BY <1>3, <1>4 DEF Fewer, new

LEMMA LeafIsTree ==
  ASSUME NEW s \in Content
  PROVE  IsTree(Leaf(s))
<1>1. << >> \in Seq(Key)
  OBVIOUS
<1>2. DOMAIN Leaf(s) = {<< >>} /\ Leaf(s) \in [DOMAIN Leaf(s) -> Content]
  BY DEF Leaf
<1> QED BY <1>1, <1>2 DEF IsTree

LEMMA ConcatFacts ==
  ASSUME NEW p \in Seq(Key), NEW r \in Seq(Key)
  PROVE  /\ p \o r \in Seq(Key) /\ Len(p \o r) = Len(p) + Len(r)
         /\ IsPrefix(p, p \o r) /\ SubSeq(p \o r, Len(p) + 1, Len(p \o r)) = r
         /\ \A k \in Key : p \o Append(r, k) = Append(p \o r, k)
<1> DEFINE q == p \o r
<1>1. /\ q \in Seq(Key) /\ Len(q) = Len(p) + Len(r) /\ Len(p) \in Nat /\ Len(r) \in Nat
      /\ \A i \in 1..Len(q) : q[i] = IF i <= Len(p) THEN p[i] ELSE r[i - Len(p)]
  BY ConcatProperties
<1> HIDE DEF q
<1>2. IsPrefix(p, q)
  <2>1. \A i \in 1..Len(p) : p[i] = q[i]
    BY <1>1, SMTT(30)
  <2> QED BY <1>1, <2>1, PrefixMeaning
<1>3. SubSeq(q, Len(p) + 1, Len(q)) = r
  <2> DEFINE s == SubSeq(q, Len(p) + 1, Len(q))
  <2>1. \A i \in Len(p) + 1..Len(q) : q[i] \in Key
    BY <1>1
  <2>2. /\ s \in Seq(Key)
        /\ Len(s) = IF Len(p) + 1 <= Len(q) THEN Len(q) - (Len(p) + 1) + 1 ELSE 0
        /\ \A i \in 1..Len(q) - (Len(p) + 1) + 1 : s[i] = q[Len(p) + 1 + i - 1]
    BY <1>1, <2>1, SubSeqProperties
  <2> HIDE DEF s
  <2>3. Len(s) = Len(r)
    BY <1>1, <2>2
  <2>4. ASSUME NEW i \in 1..Len(s) PROVE s[i] = r[i]
    <3> DEFINE j == Len(p) + i
    <3>1. /\ j \in 1..Len(q) /\ ~(j <= Len(p)) /\ j - Len(p) = i
          /\ Len(p) + 1 + i - 1 = j /\ i \in 1..Len(q) - (Len(p) + 1) + 1
      BY <1>1, <2>2, <2>3
    <3>2. s[i] = q[j]
      BY <2>2, <3>1
    <3>3. q[j] = r[j - Len(p)]
      <4> HIDE DEF j
      <4> QED BY <1>1, <3>1
    <3> QED BY <3>1, <3>2, <3>3
  <2> QED BY <2>2, <2>3, <2>4, SeqEqual DEF s
<1>4. ASSUME NEW k \in Key PROVE p \o Append(r, k) = Append(q, k)
  <2> DEFINE a == Append(r, k)
             b == p \o a
             e == Append(q, k)
  <2>1. /\ a \in Seq(Key) /\ Len(a) = Len(r) + 1 /\ a[Len(r) + 1] = k
        /\ \A i \in 1..Len(r) : a[i] = r[i]
    BY AppendProperties
  <2>2. /\ e \in Seq(Key) /\ Len(e) = Len(q) + 1 /\ e[Len(q) + 1] = k
        /\ \A i \in 1..Len(q) : e[i] = q[i]
    BY <1>1, AppendProperties
  <2> HIDE DEF a
  <2>3. /\ b \in Seq(Key) /\ Len(b) = Len(p) + Len(a)
        /\ \A i \in 1..Len(p) + Len(a) : b[i] = IF i <= Len(p) THEN p[i] ELSE a[i - Len(p)]
    BY <2>1, ConcatProperties
  <2> HIDE DEF b, e
  <2>4. Len(b) = Len(e)
    BY <1>1, <2>1, <2>2, <2>3
  <2>5. ASSUME NEW i \in 1..Len(b) PROVE b[i] = e[i]
    <3>1. CASE i = Len(q) + 1
      BY <1>1, <2>1, <2>2, <2>3, <3>1
    <3>2. CASE i \in 1..Len(q)
      <4>1. e[i] = q[i] /\ q[i] = IF i <= Len(p) THEN p[i] ELSE r[i - Len(p)]
        BY <1>1, <2>2, <3>2
      <4>2. b[i] = IF i <= Len(p) THEN p[i] ELSE a[i - Len(p)]
        BY <2>3
      <4>3. i > Len(p) => i - Len(p) \in 1..Len(r)
        BY <1>1, <3>2
      <4> QED BY <2>1, <4>1, <4>2, <4>3
    <3>3. i = Len(q) + 1 \/ i \in 1..Len(q)
      <4>1. Len(b) = Len(q) + 1 /\ Len(q) \in Nat
        BY <1>1, <2>2, <2>4
      <4> QED BY <4>1
    <3> QED BY <3>1, <3>2, <3>3
  <2>6. b = e
    BY <2>2, <2>3, <2>4, <2>5, SeqEqual
  <2> QED BY <2>6 DEF a, b, e
<1> QED BY <1>1, <1>2, <1>3, <1>4 DEF q

\* The names of a path before the i-th name that follows.
LEMMA SubSeqFacts ==
  ASSUME NEW p \in Seq(Key), NEW i \in 0..Len(p)
  PROVE  /\ SubSeq(p, 1, i) \in Seq(Key) /\ Len(SubSeq(p, 1, i)) = i
         /\ IsPrefix(SubSeq(p, 1, i), p)
         /\ i = 0 => SubSeq(p, 1, i) = << >>
         /\ i = Len(p) => SubSeq(p, 1, i) = p
         /\ i # 0 => p[i] \in Key /\ SubSeq(p, 1, i) = Append(SubSeq(p, 1, i - 1), p[i])
<1>1. ASSUME NEW j \in 0..Len(p)
      PROVE  /\ SubSeq(p, 1, j) \in Seq(Key) /\ Len(SubSeq(p, 1, j)) = j
             /\ \A m \in 1..j : SubSeq(p, 1, j)[m] = p[m]
  <2>1. Len(p) \in Nat /\ \A m \in 1..j : p[m] \in Key
    OBVIOUS
  <2>2. /\ SubSeq(p, 1, j) \in Seq(Key)
        /\ Len(SubSeq(p, 1, j)) = IF 1 <= j THEN j - 1 + 1 ELSE 0
        /\ \A m \in 1..j - 1 + 1 : SubSeq(p, 1, j)[m] = p[1 + m - 1]
    BY <2>1, SubSeqProperties
  <2> QED BY <2>2
<1> DEFINE s == SubSeq(p, 1, i)
<1>2. s \in Seq(Key) /\ Len(s) = i /\ \A m \in 1..i : s[m] = p[m]
  BY <1>1
<1>3. IsPrefix(s, p)
  <2>1. Len(s) <= Len(p) /\ \A m \in 1..Len(s) : s[m] = p[m]
    BY <1>2
  <2> HIDE DEF s
  <2> QED BY <1>2, <2>1, PrefixMeaning
<1>4. i = 0 => s = << >>
  BY <1>2, EmptySeq
<1>5. i = Len(p) => s = p
  BY SubSeqFull
<1>6. ASSUME i # 0 PROVE p[i] \in Key /\ s = Append(SubSeq(p, 1, i - 1), p[i])
  <2> DEFINE f == SubSeq(p, 1, i - 1)
             a == Append(f, p[i])
  <2>1. p[i] \in Key /\ i - 1 \in 0..Len(p)
    BY <1>6
  <2>2. f \in Seq(Key) /\ Len(f) = i - 1 /\ \A m \in 1..i - 1 : f[m] = p[m]
    BY <1>1, <2>1
  <2> HIDE DEF f
  <2>3. /\ a \in Seq(Key) /\ Len(a) = Len(f) + 1 /\ a[Len(f) + 1] = p[i]
        /\ \A m \in 1..Len(f) : a[m] = f[m]
    BY <2>1, <2>2, AppendProperties
  <2> HIDE DEF a, s
  <2>4. Len(s) = Len(a) /\ \A m \in 1..Len(s) : s[m] = a[m]
    BY <1>2, <1>6, <2>2, <2>3, SMTT(30)
  <2>5. s = a
    BY <1>2, <2>3, <2>4, SeqEqual
  <2> QED BY <2>1, <2>5 DEF a, f
<1> QED BY <1>2, <1>3, <1>4, <1>5, <1>6

LEMMA PrefixSplit ==
  ASSUME NEW p \in Seq(Key), NEW q \in Seq(Key), IsPrefix(p, q)
  PROVE  /\ \E r \in Seq(Key) : q = p \o r
         /\ \E i \in 0..Len(q) : p = SubSeq(q, 1, i) /\ i = Len(p)
<1>1. Len(p) <= Len(q) /\ Len(p) \in Nat /\ Len(q) \in Nat /\ \A i \in 1..Len(p) : p[i] = q[i]
  BY PrefixMeaning
<1> DEFINE r == SubSeq(q, Len(p) + 1, Len(q))
           b == p \o r
<1>2. /\ r \in Seq(Key)
      /\ Len(r) = IF Len(p) + 1 <= Len(q) THEN Len(q) - (Len(p) + 1) + 1 ELSE 0
      /\ \A i \in 1..Len(q) - (Len(p) + 1) + 1 : r[i] = q[Len(p) + 1 + i - 1]
  <2>1. \A i \in Len(p) + 1..Len(q) : q[i] \in Key
    BY <1>1
  <2> QED BY <1>1, <2>1, SubSeqProperties
<1> HIDE DEF r
<1>3. /\ b \in Seq(Key) /\ Len(b) = Len(p) + Len(r)
      /\ \A i \in 1..Len(p) + Len(r) : b[i] = IF i <= Len(p) THEN p[i] ELSE r[i - Len(p)]
  BY <1>2, ConcatProperties
<1> HIDE DEF b
<1>4. Len(b) = Len(q) /\ \A i \in 1..Len(b) : b[i] = q[i]
  BY <1>1, <1>2, <1>3
<1>5. q = b
  BY <1>3, <1>4, SeqEqual
<1>6. Len(p) \in 0..Len(q)
  BY <1>1
<1>7. p = SubSeq(q, 1, Len(p))
  <2>1. PICK s \in Seq(Key) : s = SubSeq(q, 1, Len(p)) /\ Len(s) = Len(p) /\ IsPrefix(s, q)
    BY <1>6, SubSeqFacts
  <2> QED BY <2>1, PrefixSame
<1> QED BY <1>2, <1>5, <1>6, <1>7 DEF b

\* What Chain says of each path: below p it is u, above p it is objects.
LEMMA ChainMeaning ==
  ASSUME NEW p \in Seq(Key), NEW u, IsTree(u)
  PROVE  /\ DOMAIN Chain(p, u) \subseteq Seq(Key)
         /\ \A r \in DOMAIN u : /\ p \o r \in DOMAIN Chain(p, u)
                                /\ Chain(p, u)[p \o r] = u[r]
         /\ \A i \in 0..Len(p) - 1 : /\ SubSeq(p, 1, i) \in DOMAIN Chain(p, u)
                                     /\ Chain(p, u)[SubSeq(p, 1, i)] = Object
         /\ \A q \in DOMAIN Chain(p, u) : \/ \E r \in DOMAIN u : q = p \o r
                                          \/ \E i \in 0..Len(p) - 1 : q = SubSeq(p, 1, i)
<1> DEFINE ch == Chain(p, u)
<1>1. DOMAIN u \subseteq Seq(Key) /\ Len(p) \in Nat
  BY DEF IsTree
<1>2. DOMAIN ch = {SubSeq(p, 1, i) : i \in 0..Len(p) - 1} \cup {p \o r : r \in DOMAIN u}
  BY DEF Chain
<1>3. \A q \in DOMAIN ch : ch[q] = IF IsPrefix(p, q) THEN u[SubSeq(q, Len(p) + 1, Len(q))] ELSE Object
  BY DEF Chain
<1> HIDE DEF ch
<1>4. ASSUME NEW r \in DOMAIN u PROVE p \o r \in DOMAIN ch /\ ch[p \o r] = u[r] /\ p \o r \in Seq(Key)
  <2>1. p \o r \in DOMAIN ch
    BY <1>2
  <2>2. /\ p \o r \in Seq(Key) /\ IsPrefix(p, p \o r)
        /\ SubSeq(p \o r, Len(p) + 1, Len(p \o r)) = r
    BY <1>1, ConcatFacts
  <2>3. ch[p \o r] = u[SubSeq(p \o r, Len(p) + 1, Len(p \o r))]
    BY <1>3, <2>1, <2>2
  <2> QED BY <2>1, <2>2, <2>3
<1>5. ASSUME NEW i \in 0..Len(p) - 1
      PROVE  SubSeq(p, 1, i) \in DOMAIN ch /\ ch[SubSeq(p, 1, i)] = Object /\ SubSeq(p, 1, i) \in Seq(Key)
  <2>1. i \in 0..Len(p) /\ i < Len(p)
    BY <1>1
  <2>2. PICK s \in Seq(Key) : s = SubSeq(p, 1, i) /\ Len(s) = i
    BY <2>1, SubSeqFacts
  <2>3. s \in DOMAIN ch
    BY <1>2, <2>2
  <2>4. ~IsPrefix(p, s)
    <3>1. Len(s) < Len(p)
      BY <2>1, <2>2
    <3>2. IsPrefix(p, s) => Len(p) <= Len(s)
      BY <2>2, PrefixMeaning
    <3> QED BY <1>1, <2>1, <2>2, <3>1, <3>2
  <2>5. ch[s] = Object
    BY <1>3, <2>3, <2>4
  <2> QED BY <2>2, <2>3, <2>5
<1>6. \A q \in DOMAIN ch : \/ \E r \in DOMAIN u : q = p \o r
                           \/ \E i \in 0..Len(p) - 1 : q = SubSeq(p, 1, i)
  BY <1>2
<1>7. DOMAIN ch \subseteq Seq(Key)
  BY <1>4, <1>5, <1>6
<1> QED BY <1>4, <1>5, <1>6, <1>7 DEF ch

LEMMA ChainIsTree ==
  ASSUME NEW p \in Seq(Key), NEW u, IsTree(u)
  PROVE  IsTree(Chain(p, u))
<1> DEFINE ch == Chain(p, u)
<1>1. /\ DOMAIN u \subseteq Seq(Key) /\ << >> \in DOMAIN u /\ u \in [DOMAIN u -> Content]
      /\ Len(p) \in Nat
  BY DEF IsTree
<1>2. /\ DOMAIN ch \subseteq Seq(Key)
      /\ \A r \in DOMAIN u : p \o r \in DOMAIN ch /\ ch[p \o r] = u[r]
      /\ \A i \in 0..Len(p) - 1 : SubSeq(p, 1, i) \in DOMAIN ch /\ ch[SubSeq(p, 1, i)] = Object
      /\ \A q \in DOMAIN ch : \/ \E r \in DOMAIN u : q = p \o r
                              \/ \E i \in 0..Len(p) - 1 : q = SubSeq(p, 1, i)
  BY ChainMeaning
<1>3. ch = [q \in DOMAIN ch |-> ch[q]]
  BY DEF Chain
<1> HIDE DEF ch
<1>4. ASSUME NEW q \in DOMAIN ch PROVE ch[q] \in Content
  <2>1. CASE \E r \in DOMAIN u : q = p \o r
    BY <1>1, <1>2, <2>1
  <2>2. CASE \E i \in 0..Len(p) - 1 : q = SubSeq(p, 1, i)
    BY <1>2, <2>2 DEF Content
  <2> QED BY <1>2, <2>1, <2>2
\* The parent of what stands at place i of p.
<1>5. ASSUME NEW i \in 1..Len(p)
      PROVE  \E q \in DOMAIN ch, k \in Key : SubSeq(p, 1, i) = Append(q, k) /\ ch[q] = Object
  <2>1. i \in 0..Len(p) /\ i # 0 /\ i - 1 \in 0..Len(p) - 1
    BY <1>1
  <2>2. p[i] \in Key /\ SubSeq(p, 1, i) = Append(SubSeq(p, 1, i - 1), p[i])
    BY <2>1, SubSeqFacts
  <2>3. SubSeq(p, 1, i - 1) \in DOMAIN ch /\ ch[SubSeq(p, 1, i - 1)] = Object
    BY <1>2, <2>1
  <2> QED BY <2>2, <2>3
<1>6. p \o << >> = p
  BY ConcatEmptySeq
<1>7. << >> \in DOMAIN ch
  <2>1. CASE p = << >>
    BY <1>1, <1>2, <1>6, <2>1
  <2>2. CASE p # << >>
    <3>1. Len(p) > 0
      BY <2>2, EmptySeq
    <3>2. 0 \in 0..Len(p) - 1 /\ 0 \in 0..Len(p)
      BY <1>1, <3>1
    <3>3. SubSeq(p, 1, 0) = << >>
      BY <3>2, SubSeqFacts
    <3> QED BY <1>2, <3>2, <3>3
  <2> QED BY <2>1, <2>2
<1>8. ASSUME NEW q \in DOMAIN ch, q # << >>
      PROVE  \E x \in DOMAIN ch, k \in Key : q = Append(x, k) /\ ch[x] = Object
  <2>1. CASE \E i \in 0..Len(p) - 1 : q = SubSeq(p, 1, i)
    <3>1. PICK i \in 0..Len(p) - 1 : q = SubSeq(p, 1, i)
      BY <2>1
    <3>2. i \in 0..Len(p)
      BY <1>1
    <3>3. i # 0
      BY <1>8, <3>1, <3>2, SubSeqFacts
    <3>4. i \in 1..Len(p)
      BY <3>2, <3>3
    <3> QED BY <1>5, <3>1, <3>4
  <2>2. CASE \E r \in DOMAIN u : q = p \o r
    <3>1. PICK r \in DOMAIN u : q = p \o r
      BY <2>2
    <3>2. CASE r = << >>
      <4>1. q = p /\ Len(p) \in 1..Len(p) /\ Len(p) \in 0..Len(p)
        BY <1>1, <1>6, <1>8, <3>1, <3>2, EmptySeq
      <4>2. SubSeq(p, 1, Len(p)) = p
        BY <4>1, SubSeqFacts
      <4> QED BY <1>5, <4>1, <4>2
    <3>3. CASE r # << >>
      <4>1. PICK s \in DOMAIN u, k \in Key : r = Append(s, k) /\ u[s] = Object
        BY <3>3 DEF IsTree
      <4>2. s \in Seq(Key)
        BY <1>1
      <4>3. q = Append(p \o s, k)
        BY <3>1, <4>1, <4>2, ConcatFacts
      <4>4. p \o s \in DOMAIN ch /\ ch[p \o s] = Object
        BY <1>2, <4>1
      <4> QED BY <4>3, <4>4
    <3> QED BY <3>2, <3>3
  <2> QED BY <1>2, <2>1, <2>2
<1>9. ch \in [DOMAIN ch -> Content]
  BY <1>3, <1>4
<1> QED BY <1>2, <1>7, <1>8, <1>9 DEF IsTree, ch

LEMMA PruneIsTree ==
  ASSUME NEW t, IsTree(t), NEW p \in Seq(Key), p # << >>
  PROVE  IsTree(Prune(t, p))
<1> DEFINE D == {q \in DOMAIN t : ~IsPrefix(p, q)}
<1>1. /\ DOMAIN t \subseteq Seq(Key) /\ << >> \in DOMAIN t /\ t \in [DOMAIN t -> Content]
  BY DEF IsTree
<1>2. DOMAIN Prune(t, p) = D /\ \A q \in D : Prune(t, p)[q] = t[q]
  BY DEF Prune, Restrict
<1>3. Prune(t, p) \in [D -> Content]
  BY <1>1 DEF Prune, Restrict
<1>4. << >> \in D
  BY <1>1, PrefixFacts
<1>5. ASSUME NEW x \in D, x # << >>
      PROVE  \E q \in D, k \in Key : x = Append(q, k) /\ t[q] = Object
  <2>1. PICK q \in DOMAIN t, k \in Key : x = Append(q, k) /\ t[q] = Object
    BY <1>5 DEF IsTree
  <2>2. q \in Seq(Key)
    BY <1>1
  <2>3. ~IsPrefix(p, q)
    BY <2>1, <2>2, PrefixAppend
  <2> QED BY <2>1, <2>3
<1> HIDE DEF D
<1>6. D \subseteq Seq(Key)
  BY <1>1 DEF D
<1> QED BY <1>2, <1>3, <1>4, <1>5, <1>6, SMTT(30) DEF IsTree

LEMMA GraftIsTree ==
  ASSUME NEW t, IsTree(t), NEW u, IsTree(u), NEW p \in Seq(Key)
  PROVE  IsTree(Graft(t, p, u))
<1> DEFINE ch == Chain(p, u)
           D  == {q \in DOMAIN t : ~IsPrefix(p, q)}
           g  == Graft(t, p, u)
<1>1. IsTree(ch)
  BY ChainIsTree
<1>2. /\ DOMAIN t \subseteq Seq(Key) /\ << >> \in DOMAIN t /\ t \in [DOMAIN t -> Content]
  BY DEF IsTree
<1>3. /\ DOMAIN ch \subseteq Seq(Key) /\ << >> \in DOMAIN ch /\ ch \in [DOMAIN ch -> Content]
  BY <1>1 DEF IsTree
<1>4. /\ \A i \in 0..Len(p) - 1 : SubSeq(p, 1, i) \in DOMAIN ch /\ ch[SubSeq(p, 1, i)] = Object
      /\ \A q \in DOMAIN ch : \/ \E r \in DOMAIN u : q = p \o r
                              \/ \E i \in 0..Len(p) - 1 : q = SubSeq(p, 1, i)
  BY ChainMeaning
<1>5. DOMAIN Prune(t, p) = D /\ \A q \in D : Prune(t, p)[q] = t[q]
  BY DEF Prune, Restrict
<1>6. g = Over(ch, Prune(t, p))
  BY DEF Graft
<1> HIDE DEF ch, g
<1>7. DOMAIN g = DOMAIN ch \cup D
  BY <1>5, <1>6 DEF Over
<1>8. \A q \in DOMAIN ch : g[q] = ch[q]
  BY <1>6 DEF Over
<1>9. \A q \in D : q \notin DOMAIN ch => g[q] = t[q]
  BY <1>5, <1>6 DEF Over
<1>10. g = [q \in DOMAIN g |-> g[q]]
  BY <1>6 DEF Over
<1>11. \A q \in DOMAIN g : g[q] \in Content
  BY <1>2, <1>3, <1>7, <1>8, <1>9
<1>12. g \in [DOMAIN g -> Content]
  BY <1>10, <1>11
<1>13. ASSUME NEW x \in DOMAIN g, x # << >>
       PROVE  \E q \in DOMAIN g, k \in Key : x = Append(q, k) /\ g[q] = Object
  <2>1. CASE x \in DOMAIN ch
    <3>1. PICK q \in DOMAIN ch, k \in Key : x = Append(q, k) /\ ch[q] = Object
      BY <1>1, <1>13, <2>1 DEF IsTree
    <3> QED BY <1>7, <1>8, <3>1
  <2>2. CASE x \notin DOMAIN ch
    <3>1. x \in D
      BY <1>7, <2>2
    <3>2. PICK q \in DOMAIN t, k \in Key : x = Append(q, k) /\ t[q] = Object
      BY <1>13, <3>1 DEF IsTree
    <3>3. q \in Seq(Key)
      BY <1>2
    <3>4. ~IsPrefix(p, q) /\ q \in D
      BY <3>1, <3>2, <3>3, PrefixAppend
    <3>5. CASE q \in DOMAIN ch
      <4>1. \A r \in DOMAIN u : q # p \o r
        <5>1. DOMAIN u \subseteq Seq(Key)
          BY DEF IsTree
        <5> QED BY <3>4, <5>1, ConcatFacts
      <4>2. ch[q] = Object
        BY <1>4, <3>5, <4>1
      <4> QED BY <1>7, <1>8, <3>2, <3>5, <4>2
    <3>6. CASE q \notin DOMAIN ch
      BY <1>7, <1>9, <3>2, <3>4, <3>6
    <3> QED BY <3>5, <3>6
  <2> QED BY <2>1, <2>2
<1>14. DOMAIN g \subseteq Seq(Key) /\ << >> \in DOMAIN g
  BY <1>2, <1>3, <1>7
<1> QED BY <1>12, <1>13, <1>14 DEF IsTree, g

\* The longest path of u on the way to q.
Above(u, q) ==
  CHOOSE r \in DOMAIN u : IsPrefix(r, q) /\ \A s \in DOMAIN u : IsPrefix(s, q) => Len(s) <= Len(r)

LEMMA AboveFacts ==
  ASSUME NEW u, IsTree(u), NEW q \in Seq(Key)
  PROVE  /\ Above(u, q) \in DOMAIN u /\ IsPrefix(Above(u, q), q)
         /\ \A s \in DOMAIN u : IsPrefix(s, q) => Len(s) <= Len(Above(u, q))
<1> DEFINE Best(r) == IsPrefix(r, q) /\ \A s \in DOMAIN u : IsPrefix(s, q) => Len(s) <= Len(r)
           L == {i \in 0..Len(q) : \E s \in DOMAIN u : IsPrefix(s, q) /\ Len(s) = i}
<1>1. DOMAIN u \subseteq Seq(Key) /\ << >> \in DOMAIN u
  BY DEF IsTree
<1>2. \A s \in DOMAIN u : IsPrefix(s, q) => Len(s) \in L
  <2> TAKE s \in DOMAIN u
  <2>1. s \in Seq(Key) /\ Len(s) \in Nat /\ Len(q) \in Nat
    BY <1>1
  <2>2. IsPrefix(s, q) => Len(s) <= Len(q)
    BY <2>1, PrefixMeaning
  <2> QED BY <2>1, <2>2
<1>3. L # {}
  BY <1>1, <1>2, PrefixFacts
<1>4. PICK m \in L : \A i \in L : i <= m
  <2>1. L \in SUBSET (0..Len(q)) /\ Len(q) \in Nat
    OBVIOUS
  <2> HIDE DEF L
  <2> QED BY <1>3, <2>1, GreatestNatural
<1>5. PICK r \in DOMAIN u : IsPrefix(r, q) /\ Len(r) = m
  BY <1>4
<1>6. Best(r)
  <2> HIDE DEF L
  <2> QED BY <1>2, <1>4, <1>5
<1>7. Above(u, q) = CHOOSE x \in DOMAIN u : Best(x)
  BY DEF Above
<1>8. Best(Above(u, q)) /\ Above(u, q) \in DOMAIN u
  <2> HIDE DEF Best
  <2> QED BY <1>5, <1>6, <1>7
<1> QED BY <1>8

LEMMA AboveAppend ==
  ASSUME NEW u, IsTree(u), NEW q \in Seq(Key), NEW k \in Key, Append(q, k) \notin DOMAIN u
  PROVE  /\ q \in DOMAIN u => Above(u, Append(q, k)) = q
         /\ q \notin DOMAIN u => Above(u, Append(q, k)) = Above(u, q)
<1> DEFINE a == Append(q, k)
           r == Above(u, a)
           o == Above(u, q)
<1>1. a \in Seq(Key) /\ DOMAIN u \subseteq Seq(Key)
  BY DEF IsTree
<1>2. r \in DOMAIN u /\ IsPrefix(r, a) /\ \A s \in DOMAIN u : IsPrefix(s, a) => Len(s) <= Len(r)
  BY <1>1, AboveFacts
<1>3. o \in DOMAIN u /\ IsPrefix(o, q) /\ \A s \in DOMAIN u : IsPrefix(s, q) => Len(s) <= Len(o)
  BY AboveFacts
<1> HIDE DEF r, o
<1>4. \A s \in DOMAIN u : IsPrefix(s, a) <=> IsPrefix(s, q)
  BY <1>1, PrefixAppend
<1>5. r \in Seq(Key) /\ o \in Seq(Key) /\ IsPrefix(r, q) /\ Len(r) \in Nat /\ Len(o) \in Nat
  BY <1>1, <1>2, <1>3, <1>4
<1>6. ASSUME q \in DOMAIN u PROVE r = q
  <2>1. IsPrefix(q, q) /\ Len(q) \in Nat
    BY PrefixFacts
  <2>2. Len(q) <= Len(r)
    BY <1>2, <1>4, <1>6, <2>1
  <2>3. Len(r) <= Len(q)
    BY <1>5, PrefixMeaning
  <2> QED BY <1>5, <2>1, <2>2, <2>3, PrefixSame
<1>7. r = o
  <2>1. Len(r) <= Len(o) /\ Len(o) <= Len(r)
    BY <1>2, <1>3, <1>4, <1>5
  <2> QED BY <1>3, <1>5, <2>1, PrefixSame
<1> QED BY <1>6, <1>7 DEF r, o

LEMMA MergePatchIsTree ==
  ASSUME NEW t, IsTree(t), NEW u, IsTree(u)
  PROVE  IsTree(MergePatch(t, u))
<1> DEFINE kept    == {q \in DOMAIN t \ DOMAIN u : u[Above(u, q)] = Object}
           removed == {q \in DOMAIN u : u[q] = Null /\ q # << >>}
           g       == MergePatch(t, u)
<1>1. /\ DOMAIN t \subseteq Seq(Key) /\ << >> \in DOMAIN t /\ t \in [DOMAIN t -> Content]
      /\ DOMAIN u \subseteq Seq(Key) /\ << >> \in DOMAIN u /\ u \in [DOMAIN u -> Content]
  BY DEF IsTree
<1>2. g = Over(Restrict(u, DOMAIN u \ removed), Restrict(t, kept))
  BY DEF MergePatch, Above
<1> HIDE DEF g
<1>3. DOMAIN g = (DOMAIN u \ removed) \cup kept /\ g = [q \in DOMAIN g |-> g[q]]
  BY <1>2 DEF Over, Restrict
<1>4. \A q \in DOMAIN u \ removed : g[q] = u[q]
  BY <1>2 DEF Over, Restrict
<1>5. \A q \in kept : g[q] = t[q]
  BY <1>2 DEF Over, Restrict
<1>6. g \in [DOMAIN g -> Content]
  <2>1. \A q \in DOMAIN g : g[q] \in Content
    BY <1>1, <1>3, <1>4, <1>5
  <2> QED BY <1>3, <2>1
<1>7. \A q \in DOMAIN u : u[q] = Object => q \in DOMAIN g /\ g[q] = Object
  BY <1>3, <1>4, ScalarAssumption
<1>8. ASSUME NEW x \in DOMAIN g, x # << >>
      PROVE  \E q \in DOMAIN g, k \in Key : x = Append(q, k) /\ g[q] = Object
  <2>1. CASE x \in DOMAIN u
    <3>1. PICK q \in DOMAIN u, k \in Key : x = Append(q, k) /\ u[q] = Object
      BY <1>8, <2>1 DEF IsTree
    <3> QED BY <1>7, <3>1
  <2>2. CASE x \notin DOMAIN u
    <3>1. x \in DOMAIN t /\ u[Above(u, x)] = Object
      <4>1. x \in kept
        BY <1>3, <2>2
      <4> QED BY <4>1
    <3>2. PICK q \in DOMAIN t, k \in Key : x = Append(q, k) /\ t[q] = Object
      BY <1>8, <3>1 DEF IsTree
    <3>3. q \in Seq(Key)
      BY <1>1
    <3>4. CASE q \in DOMAIN u
      <4>1. Above(u, x) = q
        BY <2>2, <3>2, <3>3, <3>4, AboveAppend
      <4> QED BY <1>7, <3>1, <3>2, <3>4, <4>1
    <3>5. CASE q \notin DOMAIN u
      <4>1. Above(u, x) = Above(u, q)
        BY <2>2, <3>2, <3>3, <3>5, AboveAppend
      <4>2. q \in kept
        BY <3>1, <3>5, <4>1
      <4> QED BY <1>3, <1>5, <3>2, <4>2
    <3> QED BY <3>4, <3>5
  <2> QED BY <2>1, <2>2
<1>9. << >> \in DOMAIN g /\ DOMAIN g \subseteq Seq(Key)
  BY <1>1, <1>3
<1> QED BY <1>6, <1>8, <1>9 DEF IsTree, g

LEMMA PatchStepIsTree ==
  ASSUME NEW t, t = Failed \/ IsTree(t), NEW o, o.path \in Seq(Key),
         o.op = "add" => IsTree(o.value)
  PROVE  PatchStep(t, o) = Failed \/ IsTree(PatchStep(t, o))
<1> DEFINE add    == o.op = "add" /\ (o.path = << >> \/ (Front(o.path) \in DOMAIN t /\ t[Front(o.path)] = Object))
           remove == o.op = "remove" /\ o.path # << >> /\ o.path \in DOMAIN t
<1>1. CASE t = Failed
  <2>1. DOMAIN t = {}
    BY <1>1 DEF Failed
  <2>2. PatchStep(t, o) = Failed
    BY <1>1, <2>1 DEF PatchStep
  <2> QED BY <2>2
<1>2. CASE t # Failed /\ add
  <2>1. PatchStep(t, o) \in {Graft(t, o.path, o.value), Failed}
    BY <1>2 DEF PatchStep
  <2>2. IsTree(Graft(t, o.path, o.value))
    BY <1>2, GraftIsTree
  <2> QED BY <2>1, <2>2
<1>3. CASE t # Failed /\ ~add /\ remove
  <2>1. PatchStep(t, o) = Prune(t, o.path)
    BY <1>3 DEF PatchStep
  <2>2. IsTree(Prune(t, o.path))
    BY <1>3, PruneIsTree
  <2> QED BY <2>1, <2>2
<1>4. CASE t # Failed /\ ~add /\ ~remove
  <2>1. PatchStep(t, o) = Failed
    BY <1>4 DEF PatchStep
  <2> QED BY <2>1
<1> QED BY <1>1, <1>2, <1>3, <1>4

LEMMA JsonPatchIsTree ==
  ASSUME NEW t, IsTree(t), NEW ops \in Patches
  PROVE  JsonPatch(t, ops) = Failed \/ IsTree(JsonPatch(t, ops))
<1> DEFINE Good(at, m) == at = [i \in 0..m |-> IF i = 0 THEN t ELSE PatchStep(at[i - 1], ops[i])]
           S == {m \in Nat : \E at : Good(at, m)}
           l == Len(ops)
<1>1. 0 \in S
  <2>1. Good([i \in 0..0 |-> t], 0)
    OBVIOUS
  <2> QED BY <2>1
<1>2. \A m \in S \cap Nat : m + 1 \in S
  <2> SUFFICES ASSUME NEW m \in Nat, NEW at, Good(at, m)
               PROVE  m + 1 \in S
    OBVIOUS
  <2> DEFINE more == [i \in 0..m + 1 |-> IF i = m + 1 THEN PatchStep(at[m], ops[m + 1]) ELSE at[i]]
  <2>1. Good(more, m + 1)
    OBVIOUS
  <2> HIDE DEF Good
  <2> QED BY <2>1
<1>3. l \in Nat /\ \A i \in 1..l : ops[i].path \in Seq(Key) /\ (ops[i].op = "add" => IsTree(ops[i].value))
  BY InputAssumption
<1>4. l \in S
  <2> HIDE DEF S, l
  <2> QED BY <1>1, <1>2, <1>3, NaturalInduction
<1> DEFINE after == CHOOSE at : Good(at, l)
<1>5. Good(after, l)
  <2> HIDE DEF Good, l
  <2> QED BY <1>4
<1>6. JsonPatch(t, ops) = after[l]
  BY Zenon DEF JsonPatch
<1> HIDE DEF after
<1> DEFINE T == {i \in Nat : i <= l => after[i] = Failed \/ IsTree(after[i])}
<1>7. 0 \in T
  BY <1>3, <1>5
<1>8. \A i \in T \cap Nat : i + 1 \in T
  <2> SUFFICES ASSUME NEW i \in Nat, i + 1 <= l, after[i] = Failed \/ IsTree(after[i])
               PROVE  after[i + 1] = Failed \/ IsTree(after[i + 1])
    BY <1>3
  <2>1. i + 1 \in 1..l /\ (i + 1) - 1 = i /\ i + 1 \in 0..l /\ i + 1 # 0
    BY <1>3
  <2>2. after[i + 1] = PatchStep(after[i], ops[i + 1])
    BY <1>5, <2>1
  <2> QED BY <1>3, <2>1, <2>2, PatchStepIsTree
<1>9. l \in T
  <2> HIDE DEF T, l
  <2> QED BY <1>3, <1>7, <1>8, NaturalInduction
<1> QED BY <1>3, <1>6, <1>9

-----------------------------------------------------------------------------
(* What is read is a tree, and nothing but what a node leads to *)

LEMMA TreeMeaning ==
  ASSUME NEW nd, NEW n
  PROVE  /\ DOMAIN Tree(nd, n) = {q \in Path : Descend(nd, n, q) # None}
         /\ \A q \in DOMAIN Tree(nd, n) : Tree(nd, n)[q] = nd[Descend(nd, n, q)].val
         /\ Tree(nd, n) = [q \in DOMAIN Tree(nd, n) |-> Tree(nd, n)[q]]
<1> DEFINE at == [p \in Path |-> Descend(nd, n, p)]
           t  == [p \in {q \in Path : at[q] # None} |-> nd[at[p]].val]
<1>1. Tree(nd, n) = t
  BY Zenon DEF Tree
<1>2. \A q \in Path : at[q] = Descend(nd, n, q)
  OBVIOUS
<1>3. DOMAIN t = {q \in Path : at[q] # None} /\ \A q \in DOMAIN t : q \in Path /\ t[q] = nd[at[q]].val
  OBVIOUS
<1>4. t = [q \in DOMAIN t |-> t[q]]
  OBVIOUS
<1> HIDE DEF at, t
<1>5. DOMAIN t = {q \in Path : Descend(nd, n, q) # None}
  BY <1>2, <1>3
<1>6. \A q \in DOMAIN t : t[q] = nd[Descend(nd, n, q)].val
  BY <1>2, <1>3
<1> QED BY <1>1, <1>4, <1>5, <1>6

\* A path stays among nodes that have all their members among them.
LEMMA DescendInside ==
  ASSUME NEW nd, NEW S, \A m \in S : \A k \in Names(nd, m) : Child(nd, m, k) \in S,
         NEW n \in S \cup {None}
  PROVE  \A p \in Seq(Key) : Descend(nd, n, p) \in S \cup {None}
<1> DEFINE T == {p \in Seq(Key) : Descend(nd, n, p) \in S \cup {None}}
<1>1. << >> \in T
  <2>1. << >> \in Seq(Key)
    OBVIOUS
  <2>2. Descend(nd, n, << >>) = n
    BY DescendEmpty
  <2> QED BY <2>1, <2>2
<1>2. \A p \in T \cap Seq(Key), k \in Key : Append(p, k) \in T
  <2> TAKE p \in T \cap Seq(Key), k \in Key
  <2>1. Append(p, k) \in Seq(Key)
    BY AppendProperties
  <2>2. PICK m \in S \cup {None} : m = Descend(nd, n, p)
    OBVIOUS
  <2> DEFINE q == Append(p, k)
  <2>3. Descend(nd, n, q) = Child(nd, m, k)
    <3>1. p \in Seq(Key) /\ k \in Key
      OBVIOUS
    <3> HIDE DEF T
    <3>2. Descend(nd, n, q) = Child(nd, Descend(nd, n, p), k)
      BY <3>1, DescendAppend
    <3> QED BY <2>2, <3>2, Zenon
  <2>4. Child(nd, m, k) \in S \cup {None}
    <3>1. CASE k \in Names(nd, m)
      BY <3>1 DEF Names
    <3>2. CASE k \notin Names(nd, m)
      BY <3>2 DEF Child
    <3> QED BY <3>1, <3>2
  <2> QED BY <2>1, <2>3, <2>4
<1>3. Seq(Key) \subseteq T
  <2> HIDE DEF T
  <2> QED BY <1>1, <1>2, SequenceInduction
<1> QED BY <1>3

LEMMA DescendIn ==
  ASSUME NEW nd, Heap(nd), NEW n \in DOMAIN nd \cup {None}
  PROVE  \A p \in Seq(Key) : Descend(nd, n, p) \in DOMAIN nd \cup {None}
<1>1. \A m \in DOMAIN nd : \A k \in Names(nd, m) : Child(nd, m, k) \in DOMAIN nd
  BY HeapMembers
<1> QED BY <1>1, DescendInside

LEMMA TreeIsTree ==
  ASSUME NEW nd, Heap(nd), NEW n \in DOMAIN nd
  PROVE  IsTree(Tree(nd, n))
<1> DEFINE t == Tree(nd, n)
<1>1. /\ DOMAIN t = {q \in Path : Descend(nd, n, q) # None}
      /\ \A q \in DOMAIN t : t[q] = nd[Descend(nd, n, q)].val
      /\ t = [q \in DOMAIN t |-> t[q]]
  BY TreeMeaning
<1> HIDE DEF t
<1>2. DOMAIN t \subseteq Seq(Key)
  BY <1>1, PathIs
<1>3. \A q \in Seq(Key) : Descend(nd, n, q) \in DOMAIN nd \cup {None}
  BY DescendIn
<1>4. t \in [DOMAIN t -> Content]
  <2>1. \A q \in DOMAIN t : t[q] \in Content
    BY <1>1, <1>2, <1>3, HeapMembers
  <2> QED BY <1>1, <2>1
<1>5. << >> \in DOMAIN t
  <2>1. << >> \in Path
    <3>1. PICK e \in Seq(Key) : e = << >>
      BY EmptySeq
    <3>2. Len(e) = 0
      BY <3>1
    <3>3. e \in Path
      BY <3>2, PathIs, BoundAssumption
    <3> QED BY <3>1, <3>3
  <2>2. Descend(nd, n, << >>) = n
    BY DescendEmpty
  <2> QED BY <1>1, <2>1, <2>2, NoneIsNoNode
<1>6. ASSUME NEW x \in DOMAIN t, x # << >>
      PROVE  \E q \in DOMAIN t, k \in Key : x = Append(q, k) /\ t[q] = Object
  <2>1. PICK q \in Seq(Key), k \in Key : x = Append(q, k) /\ Len(q) = Len(x) - 1
    BY <1>2, <1>6, FrontLast
  <2>2. Len(x) \in Nat /\ Len(x) <= MaxDepth /\ Len(q) \in Nat
    BY <1>1, <2>1, PathIs
  <2>3. q \in Path
    BY <2>1, <2>2, PathIs, BoundAssumption
  <2> DEFINE m == Descend(nd, n, q)
  <2>4. Child(nd, m, k) # None
    <3>1. Descend(nd, n, x) # None
      BY <1>1
    <3>2. Descend(nd, n, Append(q, k)) = Child(nd, m, k)
      BY <2>1, DescendAppend
    <3> QED BY <2>1, <3>1, <3>2
  <2> HIDE DEF m
  <2>5. m # None /\ k \in Names(nd, m)
    BY <2>4, NoMembersOfNone DEF Child
  <2>6. m \in DOMAIN nd
    BY <1>3, <2>1, <2>5 DEF m
  <2>7. nd[m].val = Object
    BY <2>5, <2>6, HeapMembers
  <2>8. q \in DOMAIN t
    BY <1>1, <2>3, <2>5 DEF m
  <2> QED BY <1>1, <2>1, <2>7, <2>8 DEF m
<1> QED BY <1>2, <1>4, <1>5, <1>6 DEF IsTree, t

\* Where a path leads is the same in two heaps that agree on the nodes it passes.
LEMMA SameDescend ==
  ASSUME NEW a, NEW b, NEW S, None \notin S, NEW n \in S \cup {None},
         \A m \in S : a[m] = b[m] /\ \A k \in DOMAIN a[m].mem : a[m].mem[k] \in S
  PROVE  \A p \in Seq(Key) : Descend(a, n, p) = Descend(b, n, p) /\ Descend(a, n, p) \in S \cup {None}
<1>1. \A m \in S \cup {None} : \A k : /\ Child(a, m, k) = Child(b, m, k)
                                      /\ Child(a, m, k) \in S \cup {None}
  BY DEF Child, Names
<1> DEFINE T == {p \in Seq(Key) : /\ Descend(a, n, p) = Descend(b, n, p)
                                  /\ Descend(a, n, p) \in S \cup {None}}
<1>2. << >> \in T
  <2>1. << >> \in Seq(Key)
    OBVIOUS
  <2>2. Descend(a, n, << >>) = n /\ Descend(b, n, << >>) = n
    BY DescendEmpty
  <2> QED BY <2>1, <2>2
<1>3. \A p \in T \cap Seq(Key), k \in Key : Append(p, k) \in T
  <2> TAKE p \in T \cap Seq(Key), k \in Key
  <2>1. Append(p, k) \in Seq(Key)
    BY AppendProperties
  <2>2. PICK m \in S \cup {None} : m = Descend(a, n, p) /\ m = Descend(b, n, p)
    OBVIOUS
  <2> DEFINE q == Append(p, k)
  <2>3. Descend(a, n, q) = Child(a, m, k) /\ Descend(b, n, q) = Child(b, m, k)
    <3>1. p \in Seq(Key) /\ k \in Key
      OBVIOUS
    <3> HIDE DEF T
    <3>2. Descend(a, n, q) = Child(a, Descend(a, n, p), k)
      BY <3>1, DescendAppend
    <3>3. Descend(b, n, q) = Child(b, Descend(b, n, p), k)
      BY <3>1, DescendAppend
    <3> QED BY <2>2, <3>2, <3>3, Zenon
  <2> QED BY <1>1, <2>1, <2>3
<1>4. Seq(Key) \subseteq T
  <2> HIDE DEF T
  <2> QED BY <1>2, <1>3, SequenceInduction
<1> QED BY <1>4

\* What a node leads to is the same in two heaps that agree on it.
LEMMA SameTree ==
  ASSUME NEW a, NEW b, NEW S, None \notin S, NEW n \in S \cup {None},
         \A m \in S : a[m] = b[m] /\ \A k \in DOMAIN a[m].mem : a[m].mem[k] \in S
  PROVE  Tree(a, n) = Tree(b, n)
<1>4. \A p \in Seq(Key) : Descend(a, n, p) = Descend(b, n, p) /\ Descend(a, n, p) \in S \cup {None}
  BY SameDescend
<1> DEFINE t == Tree(a, n)
           u == Tree(b, n)
<1>5. /\ DOMAIN t = {q \in Path : Descend(a, n, q) # None}
      /\ \A q \in DOMAIN t : t[q] = a[Descend(a, n, q)].val
      /\ t = [q \in DOMAIN t |-> t[q]]
  BY TreeMeaning
<1>8. /\ DOMAIN u = {q \in Path : Descend(b, n, q) # None}
      /\ \A q \in DOMAIN u : u[q] = b[Descend(b, n, q)].val
      /\ u = [q \in DOMAIN u |-> u[q]]
  BY TreeMeaning
<1> HIDE DEF t, u
<1>6. DOMAIN t = DOMAIN u
  BY <1>4, <1>5, <1>8, PathIs
<1>7. ASSUME NEW q \in DOMAIN t PROVE t[q] = u[q]
  <2>1. q \in Seq(Key) /\ Descend(a, n, q) # None
    BY <1>5, PathIs
  <2>2. Descend(a, n, q) = Descend(b, n, q) /\ Descend(a, n, q) \in S
    BY <1>4, <2>1
  <2> QED BY <1>5, <1>6, <1>8, <2>2
<1> QED BY <1>5, <1>6, <1>7, <1>8 DEF t, u

-----------------------------------------------------------------------------
(* What stays as it was *)

\* What an open wrapper leads to.
LEMMA OpenFacts ==
  ASSUME IInv, NEW v \in Wrapper, IsOpen(v)
  PROVE  /\ wrap[v].doc \in Doc /\ wrap[v].val \in DOMAIN node
         /\ node[wrap[v].val].doc = wrap[v].doc /\ IsTree(TreeOf(v))
         /\ HasRoot(v) => /\ RootOf(v) \in DOMAIN node /\ node[RootOf(v)].doc = wrap[v].doc
                          /\ IsTree(RootTree(v))
<1>1. Heap(node) /\ Roots(node, doc, wrap)
  BY DEF IInv
<1>2. wrap[v].doc \in Doc /\ wrap[v].val \in DOMAIN node /\ node[wrap[v].val].doc = wrap[v].doc
  BY <1>1, RootsFacts DEF IsOpen
<1>3. IsTree(TreeOf(v))
  BY <1>1, <1>2, TreeIsTree DEF TreeOf
<1>4. ASSUME HasRoot(v)
      PROVE  RootOf(v) \in DOMAIN node /\ node[RootOf(v)].doc = wrap[v].doc
  BY <1>1, <1>2, <1>4, RootsFacts DEF HasRoot, RootOf
<1>5. ASSUME HasRoot(v) PROVE IsTree(RootTree(v))
  BY <1>1, <1>4, <1>5, TreeIsTree DEF RootTree
<1> QED BY <1>2, <1>3, <1>4, <1>5

\* Nodes that are left and were not changed show what they showed.
LEMMA SettleSame ==
  ASSUME IInv, NEW nd, NEW dc, NEW wr, Ready(nd, dc, wr), Settle(nd, dc, wr),
         NEW S \in SUBSET DOMAIN node,
         \A m \in S : \A k \in DOMAIN node[m].mem : node[m].mem[k] \in S,
         \A m \in S : m \in DOMAIN nd /\ nd[m] = node[m],
         NEW n \in S \cup {None}, n \in Tops(dc, wr) \cup {None}
  PROVE  Tree(node', n) = Tree(node, n)
<1>1. Heap(nd) /\ Roots(nd, dc, wr) /\ Heap(node)
  BY DEF Ready, IInv
<1>2. PICK live \in SUBSET DOMAIN nd :
        /\ Leaves(nd, dc, wr, live)
        /\ Tops(dc, wr) \subseteq live
        /\ \A m \in live : \A k \in DOMAIN nd[m].mem : nd[m].mem[k] \in live
  BY <1>1, SettleLive
<1>3. node' = Restrict(nd, live)
  BY <1>2 DEF Leaves
<1>4. \A m \in live : node'[m] = nd[m]
  BY <1>3 DEF Restrict
<1> DEFINE R == S \cap live
<1>5. None \notin R
  BY <1>1, NoneIsNoNode
<1>6. n \in R \cup {None}
  BY <1>2
<1>7. \A m \in R : node[m] = node'[m] /\ \A k \in DOMAIN node[m].mem : node[m].mem[k] \in R
  BY <1>2, <1>4
<1> HIDE DEF R
<1>8. Tree(node, n) = Tree(node', n)
  BY <1>5, <1>6, <1>7, SameTree
<1> QED BY <1>8

\* What is handed to Settle leaves document d alone.
Spares(nd, dc, d) ==
  dc[d] = doc[d] /\ \A m \in DOMAIN node : node[m].doc = d => m \in DOMAIN nd /\ nd[m] = node[m]

\* What w and its document show stays.
Frozen(w) ==
  /\ doc'[wrap[w].doc] = doc[wrap[w].doc]
  /\ Tree(node', wrap[w].val) = TreeOf(w)
  /\ Tree(node', RootOf(w)) = RootTree(w)

LEMMA SettleSpares ==
  ASSUME IInv, NEW nd, NEW dc, NEW wr, Ready(nd, dc, wr), Settle(nd, dc, wr),
         NEW w \in Wrapper, IsOpen(w), wrap'[w] = wrap[w], Spares(nd, dc, wrap[w].doc)
  PROVE  Frozen(w)
<1>1. Heap(node) /\ Roots(node, doc, wrap)
  BY DEF IInv
<1>2. PICK live : Leaves(nd, dc, wr, live)
  BY SettleLive DEF Ready
<1>3. wr[w] = wrap[w] /\ wr[w] # Closed
  BY <1>2 DEF Leaves, IsOpen
<1> DEFINE d == wrap[w].doc
           S == {m \in DOMAIN node : node[m].doc = d}
<1>4. d \in Doc /\ wrap[w].val \in S
  BY OpenFacts
<1>5. doc[d].root \in S \cup {None}
  BY <1>1, <1>4, RootsFacts
<1>6. DOMAIN wr = Wrapper
  BY DEF Ready, Roots
<1>7. Held(wr, d)
  BY <1>3, <1>6 DEF Held
<1>8. doc'[d] = doc[d]
  <2>1. doc' = [e \in Doc |-> IF Held(wr, e) THEN dc[e] ELSE NoDoc]
    BY <1>2 DEF Leaves
  <2>2. doc'[d] = dc[d]
    BY <1>4, <1>7, <2>1
  <2> QED BY <2>2 DEF Spares
<1>9. \A m \in S : \A k \in DOMAIN node[m].mem : node[m].mem[k] \in S
  BY <1>1, HeapMembers DEF Heap
<1>10. \A m \in S : m \in DOMAIN nd /\ nd[m] = node[m]
  BY DEF Spares
<1>11. wrap[w].val \in Tops(dc, wr) \cup {None} /\ doc[d].root \in Tops(dc, wr) \cup {None}
  BY <1>3, <1>4, <1>7 DEF Tops, Spares
<1>12. S \in SUBSET DOMAIN node
  OBVIOUS
<1> HIDE DEF S
<1>13. Tree(node', wrap[w].val) = Tree(node, wrap[w].val)
  BY <1>4, <1>9, <1>10, <1>11, <1>12, SettleSame
<1>14. Tree(node', doc[d].root) = Tree(node, doc[d].root)
  BY <1>5, <1>9, <1>10, <1>11, <1>12, SettleSame
<1> QED BY <1>8, <1>13, <1>14 DEF Frozen, TreeOf, RootTree, RootOf

-----------------------------------------------------------------------------
(* What every call does: it changes the documents it may change, and hands   *)
(* the rest as it was to Settle                                              *)

Touches(D) ==
  \E nd, dc, wr : Ready(nd, dc, wr) /\ Settle(nd, dc, wr) /\ \A d \in Doc \ D : Spares(nd, dc, d)

LEMMA TouchesInvariant == ASSUME NEW D, Touches(D) PROVE IInv'
BY SettleInvariant DEF Touches

LEMMA TouchesFrozen ==
  ASSUME IInv, NEW D, Touches(D), NEW w \in Wrapper, IsOpen(w), wrap'[w] = wrap[w], wrap[w].doc \notin D
  PROVE  Frozen(w)
<1>1. PICK nd, dc, wr : Ready(nd, dc, wr) /\ Settle(nd, dc, wr) /\ \A d \in Doc \ D : Spares(nd, dc, d)
  BY DEF Touches
<1>2. Spares(nd, dc, wrap[w].doc)
  BY <1>1, OpenFacts
<1> QED BY <1>1, <1>2, SettleSpares

LEMMA NewDocumentTouches ==
  ASSUME IInv, NEW w \in Wrapper, NEW t, IsTree(t), NEW m \in BOOLEAN, NewDocument(w, t, m)
  PROVE  \E d \in Doc : ~Held(wrap, d) /\ Touches({d})
<1>1. PICK d \in Doc :
        /\ ~Held(wrap, d)
        /\ Settle(CopyInto(node, d, t).nodes,
                  [doc EXCEPT ![d] = [root |-> CopyInto(node, d, t).top, mutable |-> m]],
                  [wrap EXCEPT ![w] = [doc |-> d, val |-> CopyInto(node, d, t).top]])
  BY Zenon DEF NewDocument
<1>2. Heap(node) /\ Small(node) /\ DOMAIN t \subseteq Seq(Key)
  BY DEF IInv, IsTree
<1>3. PICK c : /\ Copied(node, d, t, CopyInto(node, d, t).nodes, c)
               /\ CopyInto(node, d, t).top = <<c, << >> >>
  BY <1>2, CopyIntoCopies
<1> DEFINE nd == CopyInto(node, d, t).nodes
           dc == [doc EXCEPT ![d] = [root |-> <<c, << >> >>, mutable |-> m]]
           wr == [wrap EXCEPT ![w] = [doc |-> d, val |-> <<c, << >> >>]]
<1>4. Settle(nd, dc, wr)
  BY <1>1, <1>3, Zenon
<1>5. Copied(node, d, t, nd, c)
  BY <1>3
<1> HIDE DEF nd
<1>6. Ready(nd, dc, wr)
  BY <1>5, NewDocumentReady, Zenon
<1>7. \A e \in Doc \ {d} : Spares(nd, dc, e)
  <2>1. \A e \in Doc \ {d} : dc[e] = doc[e]
    BY DEF IInv, Roots
  <2> HIDE DEF dc
  <2> QED BY <1>5, <2>1 DEF Spares, Copied
<1> HIDE DEF dc, wr
<1> QED BY <1>1, <1>4, <1>6, <1>7 DEF Touches

LEMMA SetRootTouches ==
  ASSUME IInv, NEW v \in Wrapper, wrap[v] # Closed, NEW moves \in SUBSET {v},
         NEW t, IsTree(t), SetRoot(v, t, moves)
  PROVE  Touches({wrap[v].doc})
<1> DEFINE d == wrap[v].doc
<1>1. Settle(CopyInto(node, d, t).nodes,
             [doc EXCEPT ![d].root = CopyInto(node, d, t).top],
             [w \in Wrapper |-> IF w \in moves THEN [wrap[w] EXCEPT !.val = CopyInto(node, d, t).top]
                                ELSE wrap[w]])
  BY Zenon DEF SetRoot
<1>2. Heap(node) /\ Small(node) /\ DOMAIN t \subseteq Seq(Key)
  BY DEF IInv, IsTree
<1>3. PICK c : /\ Copied(node, d, t, CopyInto(node, d, t).nodes, c)
               /\ CopyInto(node, d, t).top = <<c, << >> >>
  BY <1>2, CopyIntoCopies
<1> DEFINE nd == CopyInto(node, d, t).nodes
           dc == [doc EXCEPT ![d].root = <<c, << >> >>]
           wr == Moved(moves, <<c, << >> >>)
<1>4. Settle(nd, dc, wr)
  BY <1>1, <1>3, Zenon DEF Moved
<1>5. Copied(node, d, t, nd, c)
  BY <1>3
<1> HIDE DEF nd
<1>6. Ready(nd, dc, wr)
  BY <1>5, SetRootReady, Zenon
<1>7. \A e \in Doc \ {d} : Spares(nd, dc, e)
  <2>1. \A e \in Doc \ {d} : dc[e] = doc[e]
    BY DEF IInv, Roots
  <2> HIDE DEF dc
  <2> QED BY <1>5, <2>1 DEF Spares, Copied
<1> HIDE DEF dc, wr
<1> QED BY <1>4, <1>6, <1>7 DEF Touches

LEMMA NewWrapperRoots ==
  ASSUME IInv, NEW w \in Wrapper, NEW v \in Wrapper, wrap[v] # Closed,
         NEW n \in DOMAIN node, node[n].doc = wrap[v].doc, NewWrapper(w, v, n)
  PROVE  Roots(node, doc, wrap') /\ UNCHANGED <<node, doc>>
<1>1. wrap' = [wrap EXCEPT ![w] = [doc |-> wrap[v].doc, val |-> n]] /\ node' = node /\ doc' = doc
  BY DEF NewWrapper
<1>2. Roots(node, doc, wrap)
  BY DEF IInv
<1>3. wrap[v].doc \in Doc
  BY <1>2, RootsFacts
<1>4. wrap \in [Wrapper -> [doc : Doc, val : DOMAIN node] \cup {Closed}]
  BY <1>2 DEF Roots
<1> DEFINE r == [doc |-> wrap[v].doc, val |-> n]
<1>5. r \in [doc : Doc, val : DOMAIN node] /\ r.val = n /\ r.doc = wrap[v].doc
  BY <1>3
<1> HIDE DEF r
<1>6. wrap' = [wrap EXCEPT ![w] = r]
  BY <1>1 DEF r
<1>7. wrap' \in [Wrapper -> [doc : Doc, val : DOMAIN node] \cup {Closed}]
  BY <1>4, <1>5, <1>6
<1>8. ASSUME NEW x \in Wrapper, wrap'[x] # Closed PROVE node[wrap'[x].val].doc = wrap'[x].doc
  <2>1. CASE x = w
    <3>1. wrap'[x] = r
      BY <1>4, <1>6, <2>1
    <3> QED BY <1>5, <3>1
  <2>2. CASE x # w
    <3>1. wrap'[x] = wrap[x]
      BY <1>4, <1>6, <2>2
    <3> QED BY <1>2, <1>8, <3>1, RootsFacts
  <2> QED BY <2>1, <2>2
<1>9. Roots(node, doc, wrap')
  BY <1>2, <1>7, <1>8 DEF Roots
<1> QED BY <1>1, <1>9

LEMMA CloseTouches == ASSUME IInv, NEW w \in Wrapper, Close(w) PROVE Touches({})
<1> DEFINE wr == [wrap EXCEPT ![w] = Closed]
<1>1. Settle(node, doc, wr)
  BY DEF Close
<1>2. Ready(node, doc, wrap)
  BY InvariantReady
<1>3. Roots(node, doc, wrap)
  BY DEF IInv
<1>4. wrap \in [Wrapper -> [doc : Doc, val : DOMAIN node] \cup {Closed}]
  BY <1>3 DEF Roots
<1>5. wr \in [Wrapper -> [doc : Doc, val : DOMAIN node] \cup {Closed}]
  BY <1>4
<1>6. \A x \in Wrapper : wr[x] = Closed \/ wr[x] = wrap[x]
  BY <1>4
<1> HIDE DEF wr
<1>7. Roots(node, doc, wr)
  BY <1>3, <1>5, <1>6 DEF Roots
<1>8. Tops(doc, wr) \subseteq DOMAIN node
  <2>1. \A d \in Doc : doc[d].root \in DOMAIN node \cup {None}
    BY <1>3, RootsFacts
  <2>2. \A x \in Wrapper : wr[x] # Closed => wr[x].val \in DOMAIN node
    BY <1>7, RootsFacts
  <2> QED BY <2>1, <2>2 DEF Tops
<1>9. Grown(node, doc, wr, DOMAIN node)
  BY <1>2, <1>8 DEF Ready, Grown
<1>10. Ready(node, doc, wr)
  BY <1>2, <1>7, <1>9 DEF Ready
<1>11. \A d \in Doc : Spares(node, doc, d)
  BY DEF Spares
<1> QED BY <1>1, <1>10, <1>11 DEF Touches

\* What remains of a document whose root is taken away.
LEMMA NoRootTouches ==
  ASSUME IInv, NEW d \in Doc, Settle(node, [doc EXCEPT ![d].root = None], wrap)
  PROVE  Touches({d})
<1> DEFINE dc == [doc EXCEPT ![d].root = None]
<1>1. Roots(node, doc, wrap) /\ Forest(node, doc) /\ Heap(node)
  BY DEF IInv
<1>2. doc \in [Doc -> [root : DOMAIN node \cup {None}, mutable : BOOLEAN]]
  BY <1>1 DEF Roots
<1>3. dc \in [Doc -> [root : DOMAIN node \cup {None}, mutable : BOOLEAN]]
  BY <1>2
<1>4. \A e \in Doc : dc[e].root = None \/ dc[e].root = doc[e].root
  BY <1>2
<1>5. Settle(node, dc, wrap)
  OBVIOUS
<1>10. \A e \in Doc \ {d} : dc[e] = doc[e]
  BY <1>2
<1> HIDE DEF dc
<1>6. Roots(node, dc, wrap)
  BY <1>1, <1>3, <1>4 DEF Roots
<1>7. Forest(node, dc)
  <2>1. \A n \in DOMAIN node : \A k \in DOMAIN node[n].mem : node[n].mem[k] # None
    BY <1>1, HeapMembers, NoneIsNoNode
  <2> QED BY <1>1, <1>4, <2>1 DEF Forest
<1>8. Tops(dc, wrap) \subseteq DOMAIN node
  <2>1. \A e \in Doc : dc[e].root \in DOMAIN node \cup {None}
    BY <1>6, RootsFacts
  <2>2. \A x \in Wrapper : wrap[x] # Closed => wrap[x].val \in DOMAIN node
    BY <1>1, RootsFacts
  <2> QED BY <2>1, <2>2 DEF Tops
<1>9. Ready(node, dc, wrap)
  BY <1>1, <1>6, <1>7, <1>8, InvariantReady DEF Ready, Grown
<1>11. \A e \in Doc \ {d} : Spares(node, dc, e)
  BY <1>10 DEF Spares
<1> QED BY <1>5, <1>9, <1>11 DEF Touches

\* Members taken away, and a scalar put in the place of a value.
LEMMA DropTouches ==
  ASSUME IInv, NEW n \in DOMAIN node, NEW K, Settle(DropMembers(node, n, K), doc, wrap)
  PROVE  Touches({node[n].doc})
<1> DEFINE nd == DropMembers(node, n, K)
<1>1. Fewer(node, nd)
  BY DropFewer DEF IInv
<1>2. Ready(nd, doc, wrap)
  BY <1>1, FewerReady
<1>3. DOMAIN nd = DOMAIN node /\ \A m \in DOMAIN node \ {n} : nd[m] = node[m]
  BY DEF DropMembers
<1> HIDE DEF nd
<1>4. \A d \in Doc \ {node[n].doc} : Spares(nd, doc, d)
  BY <1>3 DEF Spares
<1> QED BY <1>2, <1>4 DEF Touches, nd

LEMMA SetScalarTouches ==
  ASSUME IInv, NEW v \in Wrapper, NEW s \in Scalar, SetScalar(v, s)
  PROVE  Touches({wrap[v].doc})
<1> DEFINE n  == wrap[v].val
           nd == [node EXCEPT ![n].val = s, ![n].mem = << >>]
<1>1. IsOpen(v) /\ Settle(nd, doc, wrap)
  BY Zenon DEF SetScalar
<1>2. n \in DOMAIN node /\ node[n].doc = wrap[v].doc /\ Heap(node)
  BY <1>1, OpenFacts DEF IInv
<1> HIDE DEF n
<1>3. Fewer(node, nd)
  BY <1>2, ScalarFewer, Zenon
<1>4. DOMAIN nd = DOMAIN node /\ \A m \in DOMAIN node \ {n} : nd[m] = node[m]
  BY <1>2
<1> HIDE DEF nd
<1>5. Ready(nd, doc, wrap)
  BY <1>3, FewerReady
<1>6. \A d \in Doc \ {wrap[v].doc} : Spares(nd, doc, d)
  BY <1>2, <1>4 DEF Spares
<1> QED BY <1>1, <1>5, <1>6 DEF Touches

LEMMA PutTouches ==
  ASSUME IInv, NEW n \in DOMAIN node, IsObj(node, n), NEW k \in Key, NEW t, IsTree(t),
         Settle(PutMember(node, n, k, t), doc, wrap)
  PROVE  Touches({node[n].doc})
<1> DEFINE cp == CopyInto(node, node[n].doc, t)
           nd == PutMember(node, n, k, t)
<1>1. Ready(nd, doc, wrap)
  BY PutReady
<1>2. Heap(node) /\ Small(node) /\ DOMAIN t \subseteq Seq(Key)
  BY DEF IInv, IsTree
<1>3. PICK c : Copied(node, node[n].doc, t, cp.nodes, c)
  BY <1>2, CopyIntoCopies
<1>4. nd = Link(cp.nodes, n, k, cp.top)
  BY DEF PutMember
<1> HIDE DEF cp, nd
<1>5. DOMAIN nd = DOMAIN cp.nodes /\ \A m \in DOMAIN nd \ {n} : nd[m] = cp.nodes[m]
  BY <1>4 DEF Link
<1>6. \A d \in Doc \ {node[n].doc} : Spares(nd, doc, d)
  BY <1>3, <1>5 DEF Spares, Copied
<1> QED BY <1>1, <1>6 DEF Touches, nd

\* A node that a path leads to, from a node of a document, is of that document.
LEMMA DescendOwn ==
  ASSUME NEW nd, Heap(nd), NEW n \in DOMAIN nd, NEW p \in Seq(Key), Descend(nd, n, p) # None
  PROVE  Descend(nd, n, p) \in DOMAIN nd /\ nd[Descend(nd, n, p)].doc = nd[n].doc
<1> DEFINE S == {m \in DOMAIN nd : nd[m].doc = nd[n].doc}
<1>1. \A m \in S : \A k \in Names(nd, m) : Child(nd, m, k) \in S
  <2> TAKE m \in S
  <2>1. m \in DOMAIN nd
    OBVIOUS
  <2>2. \A k \in Names(nd, m) : Child(nd, m, k) = nd[m].mem[k] /\ Child(nd, m, k) \in DOMAIN nd
    BY <2>1, HeapMembers
  <2>3. \A k \in Names(nd, m) : nd[nd[m].mem[k]].doc = nd[m].doc
    BY <2>1, HeapMembers, SMTT(30) DEF Heap
  <2> QED BY <2>2, <2>3
<1>2. n \in S \cup {None}
  OBVIOUS
<1>3. Descend(nd, n, p) \in S \cup {None}
  <2> HIDE DEF S
  <2> QED BY <1>1, <1>2, DescendInside
<1> QED BY <1>3

LEMMA ObjectPutTouches ==
  ASSUME IInv, NEW v \in Wrapper, NEW k \in Key, NEW t, IsTree(t), ObjectPut(v, k, t)
  PROVE  Touches({wrap[v].doc}) /\ IsMutable(v)
<1>1. /\ IsOpen(v) /\ IsMutable(v) /\ IsObj(node, wrap[v].val)
      /\ Settle(PutMember(node, wrap[v].val, k, t), doc, wrap)
  BY DEF ObjectPut, IsMutable
<1>2. wrap[v].val \in DOMAIN node /\ node[wrap[v].val].doc = wrap[v].doc
  BY <1>1, OpenFacts
<1> QED BY <1>1, <1>2, PutTouches

LEMMA PtrRemoveTouches ==
  ASSUME IInv, NEW v \in Wrapper, NEW p \in Path, PtrRemove(v, p)
  PROVE  Touches({wrap[v].doc}) /\ IsMutable(v)
<1>1. IsOpen(v) /\ HasRoot(v) /\ IsMutable(v)
  BY DEF PtrRemove, IsMutable
<1>2. /\ wrap[v].doc \in Doc /\ Heap(node)
      /\ RootOf(v) \in DOMAIN node /\ node[RootOf(v)].doc = wrap[v].doc
  BY <1>1, OpenFacts DEF IInv
<1>3. CASE Settle(node, [doc EXCEPT ![wrap[v].doc].root = None], wrap)
  BY <1>1, <1>2, <1>3, NoRootTouches
<1>4. ASSUME NEW n, n = Descend(node, RootOf(v), Front(p)), p # << >>, Last(p) \in Names(node, n),
             Settle(DropMembers(node, n, {Last(p)}), doc, wrap)
      PROVE  Touches({wrap[v].doc})
  <2>1. p \in Seq(Key)
    BY PathIs
  <2>2. Front(p) \in Seq(Key)
    BY <1>4, <2>1, FrontLast
  <2>3. n # None
    BY <1>4, NoMembersOfNone
  <2>4. n \in DOMAIN node /\ node[n].doc = wrap[v].doc
    BY <1>2, <1>4, <2>2, <2>3, DescendOwn
  <2> QED BY <1>4, <2>4, DropTouches
<1> QED BY <1>1, <1>3, <1>4 DEF PtrRemove

LEMMA PtrPutTouches ==
  ASSUME IInv, NEW v \in Wrapper, NEW p \in Path, NEW t, IsTree(t), PtrPut(v, p, t)
  PROVE  Touches({wrap[v].doc}) /\ IsMutable(v)
<1>1. IsOpen(v) /\ IsMutable(v) /\ wrap[v] # Closed /\ Heap(node)
  BY DEF PtrPut, IsMutable, IsOpen, IInv
<1>2. p \in Seq(Key)
  BY PathIs
<1>3. CASE SetRoot(v, Chain(p, t), {})
  <2>1. IsTree(Chain(p, t))
    BY <1>2, ChainIsTree
  <2> QED BY <1>1, <1>3, <2>1, SetRootTouches
<1> DEFINE at(j)  == Descend(node, RootOf(v), SubSeq(p, 1, j))
           S      == {j \in 0..Len(p) - 1 : at(j) # None}
           new(j) == Chain(SubSeq(p, j + 2, Len(p)), t)
<1>4. ASSUME p # << >>, HasRoot(v), NEW i, i = Max(S), IsObj(node, at(i)),
             Settle(PutMember(node, at(i), p[i + 1], new(i)), doc, wrap)
      PROVE  Touches({wrap[v].doc})
  <2>1. /\ Len(p) \in Nat /\ Len(p) > 0 /\ RootOf(v) \in DOMAIN node
        /\ node[RootOf(v)].doc = wrap[v].doc
    <3>1. Len(p) \in Nat /\ Len(p) > 0
      BY <1>2, <1>4
    <3>2. RootOf(v) \in DOMAIN node /\ node[RootOf(v)].doc = wrap[v].doc
      BY <1>1, <1>4, OpenFacts
    <3> QED BY <3>1, <3>2
  <2>2. 0 \in S
    <3>1. SubSeq(p, 1, 0) = << >>
      BY <1>2, <2>1, SubSeqFacts
    <3>2. at(0) = RootOf(v)
      BY <3>1, DescendEmpty
    <3>3. at(0) # None
      BY <1>1, <2>1, <3>2, NoneIsNoNode
    <3> HIDE DEF at
    <3> QED BY <2>1, <3>3
  <2>3. i \in S
    <3>1. S \in SUBSET (0..Len(p) - 1) /\ Len(p) - 1 \in Nat
      BY <2>1
    <3> HIDE DEF S
    <3>2. \E m \in S : \A j \in S : j <= m
      BY <2>2, <3>1, GreatestNatural
    <3>3. \A x, y \in S : y <= x => x >= y
      BY <3>1
    <3> QED BY <1>4, <3>2, <3>3 DEF Max
  <2>4. i \in 0..Len(p) - 1 /\ at(i) # None
    BY <2>3
  <2>5. SubSeq(p, 1, i) \in Seq(Key) /\ p[i + 1] \in Key
    BY <1>2, <2>1, <2>4, SubSeqFacts
  <2>6. at(i) \in DOMAIN node /\ node[at(i)].doc = wrap[v].doc
    BY <1>1, <2>1, <2>4, <2>5, DescendOwn
  <2>7. IsTree(new(i))
    <3>1. SubSeq(p, i + 2, Len(p)) \in Seq(Key)
      BY <1>2, <2>1, <2>4
    <3> QED BY <3>1, ChainIsTree
  <2> HIDE DEF at, new
  <2> QED BY <1>4, <2>5, <2>6, <2>7, PutTouches
<1>5. Touches({wrap[v].doc})
  BY <1>3, <1>4, Zenon DEF PtrPut
<1> QED BY <1>1, <1>5


\* What PtrSet can be given.
LEMMA ValuesAreTrees == ASSUME IInv PROVE \A t \in Values : IsTree(t)
<1>1. \A u \in Wrapper : IsOpen(u) => IsTree(TreeOf(u))
  BY OpenFacts
<1>2. \A s \in Scalar : IsTree(Leaf(s))
  BY LeafIsTree DEF Content
<1> QED BY <1>1, <1>2 DEF Values

LEMMA InitInvariant == ASSUME Init PROVE IInv
<1>1. node = << >> /\ DOMAIN node = {}
  BY DEF Init
<1>2. Heap(node)
  BY <1>1 DEF Heap
<1>3. Roots(node, doc, wrap)
  BY DEF Init, Roots, NoDoc
<1>4. Forest(node, doc)
  BY <1>1 DEF Forest
<1>5. Small(node)
  BY <1>1, FS_EmptySet, BoundAssumption DEF Small
<1>6. Shallow(node)
  BY <1>1 DEF Shallow
<1> QED BY <1>2, <1>3, <1>4, <1>5, <1>6 DEF IInv

\* A document that is new or mutable, unless SetScalar was called.
MayChange(d) == ~Held(wrap, d) \/ doc[d].mutable \/ call'.op = "SetScalar"
Changes(D)   == Touches(D) /\ D \subseteq Doc /\ \A d \in D : MayChange(d)

LEMMA NewDocumentChanges ==
  ASSUME IInv, NEW w \in Wrapper, NEW t, IsTree(t), NEW m \in BOOLEAN, NewDocument(w, t, m)
  PROVE  \E D : Changes(D)
<1>1. PICK d \in Doc : ~Held(wrap, d) /\ Touches({d})
  BY NewDocumentTouches
<1>2. Changes({d})
  BY <1>1 DEF Changes, MayChange
<1> QED BY <1>2

LEMMA MutableChanges ==
  ASSUME IInv, NEW v \in Wrapper, IsMutable(v), Touches({wrap[v].doc})
  PROVE  \E D : Changes(D)
<1>1. wrap[v].doc \in Doc
  BY OpenFacts DEF IsMutable
<1>2. Changes({wrap[v].doc})
  BY <1>1 DEF Changes, MayChange, IsMutable
<1> QED BY <1>2

LEMMA NextChanges ==
  ASSUME IInv, Next
  PROVE  \/ \E D : Changes(D)
         \/ Roots(node, doc, wrap') /\ UNCHANGED <<node, doc>>
<1> DEFINE Goal == \/ \E D : Changes(D)
                   \/ Roots(node, doc, wrap') /\ UNCHANGED <<node, doc>>
<1>1. PICK v \in Wrapper :
        \/ ObjectInit(v)
        \/ Close(v)
        \/ ObjectClear(v)
        \/ \E s \in Scalar : Create(v, s) \/ SetScalar(v, s)
        \/ \E t \in Texts, m \in BOOLEAN : ParseJSON(v, t, m)
        \/ \E k \in Key : ObjectRemove(v, k) \/ \E s \in Scalar : ObjectSetScalar(v, k, s)
        \/ \E p \in Path : PtrRemove(v, p) \/ \E s \in Scalar : PtrAdd(v, p, Leaf(s))
        \/ \E t \in Values, p \in Path : PtrSet(v, p, t)
        \/ \E ops \in Patches : JsonPatchInPlace(v, ops)
        \/ \E u \in Wrapper :
             \/ ToMutable(v, u)
             \/ ToImmutable(v, u)
             \/ MergePatchInPlace(v, u)
             \/ \E k \in Key : ObjectGet(v, u, k) \/ ObjectSet(v, k, u)
             \/ \E p \in Path : PtrGet(v, u, p)
             \/ \E ops \in Patches, m \in BOOLEAN : ApplyJsonPatch(v, u, ops, m)
             \/ \E x \in Wrapper : DeepCopy(v, x, u) \/ \E m \in BOOLEAN : ApplyMergePatch(v, u, x, m)
  BY Zenon DEF Next
<1>2. Heap(node)
  BY DEF IInv
<1>3. \A s \in Content : IsTree(Leaf(s))
  BY LeafIsTree
<1>4. \A u \in Wrapper : IsOpen(u) => wrap[u] # Closed
  BY DEF IsOpen
<1> SUFFICES Goal
  OBVIOUS
<1> HIDE DEF Goal
<1>5. CASE ObjectInit(v)
  <2>1. NewDocument(v, Leaf(Object), TRUE) /\ IsTree(Leaf(Object))
    BY <1>3, <1>5 DEF ObjectInit, Content
  <2> QED BY <2>1, NewDocumentChanges DEF Goal
<1>6. CASE Close(v)
  <2>1. Changes({})
    BY <1>6, CloseTouches DEF Changes
  <2> QED BY <2>1 DEF Goal
<1>7. CASE ObjectClear(v)
  <2>1. IsOpen(v) /\ IsMutable(v) /\ Settle(DropMembers(node, wrap[v].val, Key), doc, wrap)
    BY <1>7 DEF ObjectClear, IsMutable
  <2>2. wrap[v].val \in DOMAIN node /\ node[wrap[v].val].doc = wrap[v].doc
    BY <2>1, OpenFacts
  <2> QED BY <2>1, <2>2, DropTouches, MutableChanges DEF Goal
<1>8. ASSUME NEW s \in Scalar, Create(v, s) PROVE Goal
  <2>1. NewDocument(v, Leaf(s), TRUE) /\ IsTree(Leaf(s))
    BY <1>3, <1>8 DEF Create, Content
  <2> QED BY <2>1, NewDocumentChanges DEF Goal
<1>9. ASSUME NEW s \in Scalar, SetScalar(v, s) PROVE Goal
  <2>1. call'.op = "SetScalar" /\ wrap[v].doc \in Doc
    BY <1>9, OpenFacts DEF SetScalar, Edit
  <2>2. Changes({wrap[v].doc})
    BY <1>9, <2>1, SetScalarTouches DEF Changes, MayChange
  <2> QED BY <2>2 DEF Goal
<1>10. ASSUME NEW t \in Texts, NEW m \in BOOLEAN, ParseJSON(v, t, m) PROVE Goal
  <2>1. NewDocument(v, t, m) /\ IsTree(t)
    BY <1>10, InputAssumption DEF ParseJSON
  <2> QED BY <2>1, NewDocumentChanges DEF Goal
<1>11. ASSUME NEW k \in Key, ObjectRemove(v, k) PROVE Goal
  <2>1. IsOpen(v) /\ IsMutable(v) /\ Settle(DropMembers(node, wrap[v].val, {k}), doc, wrap)
    BY <1>11 DEF ObjectRemove, IsMutable
  <2>2. wrap[v].val \in DOMAIN node /\ node[wrap[v].val].doc = wrap[v].doc
    BY <2>1, OpenFacts
  <2> QED BY <2>1, <2>2, DropTouches, MutableChanges DEF Goal
<1>12. ASSUME NEW k \in Key, NEW s \in Scalar, ObjectSetScalar(v, k, s) PROVE Goal
  <2>1. ObjectPut(v, k, Leaf(s)) /\ IsTree(Leaf(s))
    BY <1>3, <1>12 DEF ObjectSetScalar, Content
  <2> QED BY <2>1, ObjectPutTouches, MutableChanges DEF Goal
<1>13. ASSUME NEW p \in Path, PtrRemove(v, p) PROVE Goal
  BY <1>13, PtrRemoveTouches, MutableChanges DEF Goal
<1>14. ASSUME NEW p \in Path, NEW s \in Scalar, PtrAdd(v, p, Leaf(s)) PROVE Goal
  <2>1. PtrPut(v, p, Leaf(s)) /\ IsTree(Leaf(s))
    BY <1>3, <1>14 DEF PtrAdd, Content
  <2> QED BY <2>1, PtrPutTouches, MutableChanges DEF Goal
<1>15. ASSUME NEW t \in Values, NEW p \in Path, PtrSet(v, p, t) PROVE Goal
  <2>1. PtrPut(v, p, t) /\ IsTree(t)
    BY <1>15, ValuesAreTrees DEF PtrSet
  <2> QED BY <2>1, PtrPutTouches, MutableChanges DEF Goal
<1>16. ASSUME NEW ops \in Patches, JsonPatchInPlace(v, ops) PROVE Goal
  <2>1. IsMutable(v) /\ IsOpen(v) /\ HasRoot(v) /\ JsonPatch(RootTree(v), ops) # Failed
    BY <1>16 DEF JsonPatchInPlace, IsMutable
  <2>2. SetRoot(v, JsonPatch(RootTree(v), ops), {v})
    BY <1>16, Zenon DEF JsonPatchInPlace
  <2>3. IsTree(JsonPatch(RootTree(v), ops))
    BY <2>1, OpenFacts, JsonPatchIsTree
  <2> QED BY <1>4, <2>1, <2>2, <2>3, SetRootTouches, MutableChanges DEF Goal
<1>17. ASSUME NEW u \in Wrapper, ToMutable(v, u) \/ ToImmutable(v, u) PROVE Goal
  <2>1. IsOpen(u) /\ HasRoot(u) /\ \E m \in BOOLEAN : NewDocument(v, RootTree(u), m)
    BY <1>17 DEF ToMutable, ToImmutable, HasRoot
  <2>2. IsTree(RootTree(u))
    BY <2>1, OpenFacts
  <2> QED BY <2>1, <2>2, NewDocumentChanges DEF Goal
<1>18. ASSUME NEW u \in Wrapper, MergePatchInPlace(v, u) PROVE Goal
  <2>1. /\ IsMutable(v) /\ IsOpen(v) /\ HasRoot(v) /\ IsOpen(u)
        /\ SetRoot(v, MergePatch(RootTree(v), TreeOf(u)), {v})
    BY <1>18 DEF MergePatchInPlace, IsMutable
  <2>2. IsTree(MergePatch(RootTree(v), TreeOf(u)))
    BY <2>1, OpenFacts, MergePatchIsTree
  <2> QED BY <1>4, <2>1, <2>2, SetRootTouches, MutableChanges DEF Goal
<1>19. ASSUME NEW u \in Wrapper, NEW k \in Key, ObjectGet(v, u, k) PROVE Goal
  <2>1. IsOpen(u) /\ NewWrapper(v, u, Child(node, wrap[u].val, k)) /\ Child(node, wrap[u].val, k) # None
    BY <1>19 DEF ObjectGet, NewWrapper
  <2>2. wrap[u].val \in DOMAIN node /\ node[wrap[u].val].doc = wrap[u].doc
    BY <2>1, OpenFacts
  <2>3. k \in Names(node, wrap[u].val)
    BY <2>1 DEF Child
  <2>4. Child(node, wrap[u].val, k) \in DOMAIN node
    BY <1>2, <2>2, <2>3, HeapMembers
  <2>5. node[Child(node, wrap[u].val, k)].doc = wrap[u].doc
    <3>1. Child(node, wrap[u].val, k) = node[wrap[u].val].mem[k] /\ k \in DOMAIN node[wrap[u].val].mem
      BY <1>2, <2>2, <2>3, HeapMembers
    <3> QED BY <1>2, <2>2, <3>1 DEF Heap
  <2> QED BY <1>4, <2>1, <2>4, <2>5, NewWrapperRoots DEF Goal
<1>20. ASSUME NEW u \in Wrapper, NEW k \in Key, ObjectSet(v, k, u) PROVE Goal
  <2>1. IsOpen(u) /\ ObjectPut(v, k, TreeOf(u))
    BY <1>20 DEF ObjectSet
  <2>2. IsTree(TreeOf(u))
    BY <2>1, OpenFacts
  <2> QED BY <2>1, <2>2, ObjectPutTouches, MutableChanges DEF Goal
<1>21. ASSUME NEW u \in Wrapper, NEW p \in Path, PtrGet(v, u, p) PROVE Goal
  <2>1. IsOpen(u) /\ HasRoot(u) /\ NewWrapper(v, u, Descend(node, RootOf(u), p))
        /\ Descend(node, RootOf(u), p) # None
    BY <1>21 DEF PtrGet, NewWrapper, HasRoot
  <2>2. p \in Seq(Key)
    BY PathIs
  <2>3. RootOf(u) \in DOMAIN node /\ node[RootOf(u)].doc = wrap[u].doc
    BY <2>1, OpenFacts
  <2>4. /\ Descend(node, RootOf(u), p) \in DOMAIN node
        /\ node[Descend(node, RootOf(u), p)].doc = wrap[u].doc
    BY <1>2, <2>1, <2>2, <2>3, DescendOwn
  <2> QED BY <1>4, <2>1, <2>4, NewWrapperRoots DEF Goal
<1>22. ASSUME NEW u \in Wrapper, NEW ops \in Patches, NEW m \in BOOLEAN, ApplyJsonPatch(v, u, ops, m)
       PROVE  Goal
  <2>1. IsOpen(u) /\ HasRoot(u) /\ JsonPatch(RootTree(u), ops) # Failed
    BY <1>22 DEF ApplyJsonPatch, HasRoot
  <2>2. NewDocument(v, JsonPatch(RootTree(u), ops), m)
    BY <1>22, Zenon DEF ApplyJsonPatch
  <2>3. IsTree(JsonPatch(RootTree(u), ops))
    BY <2>1, OpenFacts, JsonPatchIsTree
  <2> QED BY <2>2, <2>3, NewDocumentChanges DEF Goal
<1>23. ASSUME NEW u \in Wrapper, NEW x \in Wrapper, DeepCopy(v, x, u) PROVE Goal
  <2>1. IsOpen(x) /\ IsOpen(u) /\ NewDocument(v, TreeOf(u), IsMutable(x))
    BY <1>23 DEF DeepCopy
  <2>2. IsTree(TreeOf(u))
    BY <2>1, OpenFacts
  <2>3. IsMutable(x) \in BOOLEAN
    BY DEF IsMutable
  <2> QED BY <2>1, <2>2, <2>3, NewDocumentChanges DEF Goal
<1>24. ASSUME NEW u \in Wrapper, NEW x \in Wrapper, NEW m \in BOOLEAN, ApplyMergePatch(v, u, x, m)
       PROVE  Goal
  <2>1. /\ IsOpen(u) /\ HasRoot(u) /\ IsOpen(x)
        /\ NewDocument(v, MergePatch(RootTree(u), TreeOf(x)), m)
    BY <1>24 DEF ApplyMergePatch, HasRoot
  <2>2. IsTree(MergePatch(RootTree(u), TreeOf(x)))
    BY <2>1, OpenFacts, MergePatchIsTree
  <2> QED BY <2>1, <2>2, NewDocumentChanges DEF Goal
<1> QED BY <1>1, <1>5, <1>6, <1>7, <1>8, <1>9, <1>10, <1>11, <1>12, <1>13, <1>14, <1>15, <1>16,
           <1>17, <1>18, <1>19, <1>20, <1>21, <1>22, <1>23, <1>24, Zenon, Zenon


LEMMA InvariantHolds == Spec => []IInv
<1>1. ASSUME Init PROVE IInv
  BY <1>1, InitInvariant
<1>2. ASSUME IInv, [Next]_vars PROVE IInv'
  <2>1. CASE Next
    <3>1. CASE \E D : Changes(D)
      BY <3>1, TouchesInvariant DEF Changes
    <3>2. CASE Roots(node, doc, wrap') /\ UNCHANGED <<node, doc>>
      BY <1>2, <3>2 DEF IInv
    <3> QED BY <1>2, <2>1, <3>1, <3>2, NextChanges
  <2>2. CASE UNCHANGED vars
    BY <1>2, <2>2 DEF vars, IInv
  <2> QED BY <1>2, <2>1, <2>2
<1> QED BY <1>1, <1>2, PTL DEF Spec

-----------------------------------------------------------------------------
(* The invariants that the runs check *)

LEMMA InvariantImplies == ASSUME IInv PROVE TypeOK /\ OwnPool /\ IsForest
<1>1. Heap(node) /\ Roots(node, doc, wrap) /\ Forest(node, doc) /\ Small(node)
  BY DEF IInv
<1>2. TypeOK
  <2>1. MembersIn(DOMAIN node) = Members
    BY DEF MembersIn, Members
  <2>2. \A n \in DOMAIN node : node[n] \in [doc : Doc, val : Content, mem : Members]
    BY <1>1, <2>1 DEF Heap
  <2> QED BY <1>1, <2>2 DEF TypeOK, Heap, Roots, Small
<1>3. OwnPool
  <2>1. ASSUME NEW n \in DOMAIN node, NEW k \in Key, k \in Names(node, n)
        PROVE  node[Child(node, n, k)].doc = node[n].doc
    <3>1. Child(node, n, k) = node[n].mem[k] /\ k \in DOMAIN node[n].mem
      BY <1>1, <2>1, HeapMembers
    <3> QED BY <1>1, <3>1 DEF Heap
  <2> QED BY <1>1, <2>1 DEF OwnPool, Roots, IsOpen
<1>4. ASSUME NEW n \in DOMAIN node
      PROVE  LET places == {mk \in (DOMAIN node) \X Key : Child(node, mk[1], mk[2]) = n}
             IN  Cardinality(places) <= 1 /\ \A d \in Doc : doc[d].root = n => places = {}
  <2> DEFINE places == {mk \in (DOMAIN node) \X Key : Child(node, mk[1], mk[2]) = n}
  <2>1. ASSUME NEW x \in places
        PROVE  /\ x = <<x[1], x[2]>> /\ x[1] \in DOMAIN node /\ x[2] \in DOMAIN node[x[1]].mem
               /\ node[x[1]].mem[x[2]] = n
    <3>1. x \in (DOMAIN node) \X Key /\ Child(node, x[1], x[2]) = n /\ n # None
      BY <1>1, NoneIsNoNode
    <3>2. x = <<x[1], x[2]>> /\ x[1] \in DOMAIN node
      BY <3>1
    <3> HIDE DEF places
    <3>3. x[2] \in Names(node, x[1])
      BY <3>1 DEF Child
    <3> QED BY <1>1, <3>1, <3>2, <3>3, HeapMembers
  <2> HIDE DEF places
  <2>2. \A x, y \in places : x = y
    <3> TAKE x, y \in places
    <3>1. x[1] = y[1] /\ x[2] = y[2]
      BY <1>1, <2>1 DEF Forest
    <3>2. x = <<x[1], x[2]>> /\ y = <<y[1], y[2]>>
      BY <2>1
    <3> QED BY <3>1, <3>2, Zenon
  <2>3. Cardinality(places) <= 1
    <3>1. CASE places = {}
      <4>1. Cardinality(places) = 0
        BY <3>1, FS_EmptySet
      <4> QED BY <4>1
    <3>2. CASE places # {}
      <4>1. PICK x : places = {x}
        BY <2>2, <3>2
      <4>2. Cardinality({x}) = 1
        BY FS_Singleton
      <4> QED BY <4>1, <4>2
    <3> QED BY <3>1, <3>2
  <2>4. \A d \in Doc : doc[d].root = n => places = {}
    BY <1>1, <2>1 DEF Forest
  <2> QED BY <2>3, <2>4 DEF places
<1>5. IsForest
  BY <1>4, Zenon DEF IsForest
<1> QED BY <1>2, <1>3, <1>5

\* Nodes, documents and wrappers are what their types say: a wrapper that is open
\* and a document that has a root lead to a node that exists.
THEOREM TypesHold == Spec => []TypeOK
<1>1. IInv => TypeOK
  BY InvariantImplies
<1> QED BY <1>1, InvariantHolds, PTL

\* No value of one document is a member of another's or held through a wrapper of
\* another: every call that stores a value copies it into the target's document
\* (ObjectSet, PtrSet, the patches and conversions of JsonManager.cpp).
THEOREM ValuesStayInTheirDocument == Spec => []OwnPool
<1>1. IInv => OwnPool
  BY InvariantImplies
<1> QED BY <1>1, InvariantHolds, PTL

\* No value is a member twice, or a member and a root, whatever sequence of calls
\* passes values of a document back into it.
THEOREM DocumentsAreForests == Spec => []IsForest
<1>1. IInv => IsForest
  BY InvariantImplies
<1> QED BY <1>1, InvariantHolds, PTL

-----------------------------------------------------------------------------
(* What steps may not do *)

LEMMA FrozenStep ==
  ASSUME IInv, Next, NEW w \in Wrapper, IsOpen(w), ~IsMutable(w), wrap'[w] = wrap[w],
         call'.op # "SetScalar"
  PROVE  ~IsMutable(w)' /\ TreeOf(w)' = TreeOf(w) /\ RootTree(w)' = RootTree(w)
<1>1. Held(wrap, wrap[w].doc) /\ ~doc[wrap[w].doc].mutable
  <2>1. DOMAIN wrap = Wrapper
    BY DEF IInv, Roots
  <2> QED BY <2>1 DEF Held, IsOpen, IsMutable
<1>2. Frozen(w)
  <2>1. CASE \E D : Changes(D)
    <3>1. PICK D : Changes(D)
      BY <2>1
    <3>2. wrap[w].doc \notin D
      BY <1>1, <3>1 DEF Changes, MayChange
    <3> QED BY <3>1, <3>2, TouchesFrozen DEF Changes
  <2>2. CASE UNCHANGED <<node, doc>>
    BY <2>2 DEF Frozen, TreeOf, RootTree
  <2> QED BY <2>1, <2>2, NextChanges
<1>3. ~IsMutable(w)'
  BY <1>1, <1>2 DEF IsMutable, Frozen
<1>4. TreeOf(w)' = Tree(node', wrap[w].val)
  BY DEF TreeOf
<1>5. RootTree(w)' = Tree(node', RootOf(w))
  BY <1>2 DEF RootTree, RootOf, Frozen
<1> QED BY <1>2, <1>3, <1>4, <1>5 DEF Frozen

\* Whatever is done to the documents it was converted from or into, nothing but
\* SetScalar changes what an immutable document holds: conversions and patches
\* copy (ToMutable, ToImmutable, ApplyMergePatch, ApplyJsonPatch), and every other
\* call that edits asks for a mutable document.
THEOREM ImmutableStaysAsItIs == Spec => ImmutableIsFrozen
<1> DEFINE Frz == \A w \in Wrapper :
                    /\ IsOpen(w) /\ ~IsMutable(w) /\ wrap'[w] = wrap[w]
                    /\ call'.op # "SetScalar"
                    => ~IsMutable(w)' /\ TreeOf(w)' = TreeOf(w) /\ RootTree(w)' = RootTree(w)
<1>1. ASSUME IInv, [Next]_vars PROVE [Frz]_vars
  <2>1. CASE Next
    BY <1>1, <2>1, FrozenStep
  <2>2. CASE UNCHANGED vars
    BY <2>2
  <2> QED BY <1>1, <2>1, <2>2
<1>2. Spec => [][Frz]_vars
  <2> HIDE DEF Frz
  <2> QED BY <1>1, InvariantHolds, PTL DEF Spec
<1> QED BY <1>2 DEF ImmutableIsFrozen

-----------------------------------------------------------------------------
(* Where paths lead *)

LEMMA ConcatIsKeys ==
  ASSUME NEW p \in Seq(Key), NEW r \in Seq(Key), NEW s \in Seq(Key)
  PROVE  /\ p \o << >> = p /\ << >> \o p = p
         /\ p \o r \in Seq(Key) /\ Len(p \o r) = Len(p) + Len(r)
         /\ (p \o r) \o s = p \o (r \o s)
<1>1. p \o << >> = p /\ << >> \o p = p
  BY ConcatEmptySeq
<1>2. p \o r \in Seq(Key) /\ Len(p \o r) = Len(p) + Len(r)
  BY ConcatFacts
<1>3. (p \o r) \o s = p \o (r \o s)
  BY ConcatAssociative
<1> QED BY <1>1, <1>2, <1>3

LEMMA ConcatCancel ==
  ASSUME NEW p \in Seq(Key), NEW r \in Seq(Key), NEW s \in Seq(Key), p \o r = p \o s
  PROVE  r = s
<1>1. r = SubSeq(p \o r, Len(p) + 1, Len(p \o r)) /\ s = SubSeq(p \o s, Len(p) + 1, Len(p \o s))
  BY ConcatFacts
<1> QED BY <1>1, Zenon

\* A path after another.
LEMMA DescendConcat ==
  ASSUME NEW nd, NEW n, NEW p \in Seq(Key)
  PROVE  \A r \in Seq(Key) : Descend(nd, n, p \o r) = Descend(nd, Descend(nd, n, p), r)
<1> DEFINE m == Descend(nd, n, p)
           T == {r \in Seq(Key) : Descend(nd, n, p \o r) = Descend(nd, m, r)}
<1>1. << >> \in T
  <2>1. p \o << >> = p /\ << >> \in Seq(Key)
    BY ConcatIsKeys
  <2>2. Descend(nd, m, << >>) = m
    BY DescendEmpty
  <2> QED BY <2>1, <2>2
<1>2. \A r \in T \cap Seq(Key), k \in Key : Append(r, k) \in T
  <2> TAKE r \in T \cap Seq(Key), k \in Key
  <2>1. r \in Seq(Key) /\ k \in Key /\ p \o r \in Seq(Key) /\ Append(r, k) \in Seq(Key)
    BY ConcatFacts, AppendProperties
  <2>2. p \o Append(r, k) = Append(p \o r, k)
    BY ConcatFacts
  <2>3. Descend(nd, n, p \o r) = Descend(nd, m, r)
    OBVIOUS
  <2> HIDE DEF m, T
  <2>4. Descend(nd, n, Append(p \o r, k)) = Child(nd, Descend(nd, n, p \o r), k)
    BY <2>1, DescendAppend
  <2>5. Descend(nd, m, Append(r, k)) = Child(nd, Descend(nd, m, r), k)
    BY <2>1, DescendAppend
  <2>6. Descend(nd, n, p \o Append(r, k)) = Descend(nd, m, Append(r, k))
    BY <2>2, <2>3, <2>4, <2>5, Zenon
  <2> QED BY <2>1, <2>6 DEF T
<1>3. Seq(Key) \subseteq T
  <2> HIDE DEF T
  <2> QED BY <1>1, <1>2, SequenceInduction
<1> QED BY <1>3

LEMMA DescendNone == ASSUME NEW nd, NEW p \in Seq(Key) PROVE Descend(nd, None, p) = None
<1>1. None \in {} \cup {None} /\ \A m \in {} : \A k \in Names(nd, m) : Child(nd, m, k) \in {}
  OBVIOUS
<1>2. \A r \in Seq(Key) : Descend(nd, None, r) \in {} \cup {None}
  BY <1>1, DescendInside
<1> QED BY <1>2

\* No path leads from a node back to it: it could be walked again and again.
LEMMA NoWayBack ==
  ASSUME NEW nd, Heap(nd), Shallow(nd), NEW n \in DOMAIN nd, NEW q \in Seq(Key), Descend(nd, n, q) = n
  PROVE  q = << >>
<1> DEFINE L == {i \in 0..MaxDepth : \E p \in Seq(Key) : Len(p) = i /\ Descend(nd, n, p) # None}
<1>1. \A p \in Seq(Key) : Descend(nd, n, p) # None => Len(p) \in L
  <2> TAKE p \in Seq(Key)
  <2>1. Len(p) \in Nat
    OBVIOUS
  <2> QED BY <2>1, BoundAssumption DEF Shallow
<1>2. L # {}
  <2>1. Descend(nd, n, << >>) = n /\ << >> \in Seq(Key) /\ n # None
    BY DescendEmpty, NoneIsNoNode
  <2> HIDE DEF L
  <2> QED BY <1>1, <2>1
<1>3. PICK m \in L : \A i \in L : i <= m
  <2>1. L \in SUBSET (0..MaxDepth) /\ MaxDepth \in Nat
    BY BoundAssumption
  <2> HIDE DEF L
  <2> QED BY <1>2, <2>1, GreatestNatural
<1>4. PICK p \in Seq(Key) : Len(p) = m /\ Descend(nd, n, p) # None
  BY <1>3
<1>5. Descend(nd, n, q \o p) = Descend(nd, n, p)
  BY DescendConcat
<1>6. q \o p \in Seq(Key) /\ Len(q \o p) = Len(q) + Len(p)
  BY ConcatFacts
<1> HIDE DEF L
<1>7. Len(q) + Len(p) <= m
  BY <1>1, <1>3, <1>4, <1>5, <1>6
<1>8. Len(q) = 0
  <2>1. Len(q) \in Nat /\ Len(p) \in Nat
    OBVIOUS
  <2> QED BY <1>4, <1>7, <2>1
<1> QED BY <1>8, EmptySeq

\* No node is a member twice.
Single(nd) ==
  \A m, n \in DOMAIN nd : \A j \in DOMAIN nd[m].mem, k \in DOMAIN nd[n].mem :
    nd[m].mem[j] = nd[n].mem[k] => m = n /\ j = k

\* No two paths lead from a node to the same node.
LEMMA OneWay ==
  ASSUME NEW nd, Heap(nd), Shallow(nd), Single(nd), NEW n \in DOMAIN nd
  PROVE  \A a, b \in Seq(Key) :
           Descend(nd, n, a) # None /\ Descend(nd, n, b) = Descend(nd, n, a) => b = a
<1> DEFINE T == {a \in Seq(Key) : \A b \in Seq(Key) :
                   Descend(nd, n, a) # None /\ Descend(nd, n, b) = Descend(nd, n, a) => b = a}
<1>1. << >> \in T
  <2>1. Descend(nd, n, << >>) = n /\ << >> \in Seq(Key)
    BY DescendEmpty
  <2>2. \A b \in Seq(Key) : Descend(nd, n, b) = n => b = << >>
    BY NoWayBack
  <2> QED BY <2>1, <2>2
<1>2. \A a \in T \cap Seq(Key), k \in Key : Append(a, k) \in T
  <2> SUFFICES ASSUME NEW a \in Seq(Key), a \in T, NEW k \in Key, NEW b \in Seq(Key),
                      Descend(nd, n, Append(a, k)) # None,
                      Descend(nd, n, b) = Descend(nd, n, Append(a, k))
               PROVE  b = Append(a, k)
    BY AppendProperties
  <2> DEFINE m == Descend(nd, n, a)
  <2>1. \A c \in Seq(Key) : m # None /\ Descend(nd, n, c) = m => c = a
    OBVIOUS
  <2> HIDE DEF m, T
  <2>2. Descend(nd, n, Append(a, k)) = Child(nd, m, k)
    BY DescendAppend DEF m
  <2>3. b # << >>
    <3>1. ASSUME b = << >> PROVE FALSE
      <4>1. Descend(nd, n, b) = n
        BY <3>1, DescendEmpty
      <4>2. Append(a, k) = << >>
        BY <4>1, NoWayBack, AppendProperties
      <4> QED BY <4>2, AppendProperties
    <3> QED BY <3>1
  <2>4. PICK c \in Seq(Key), j \in Key : b = Append(c, j)
    BY <2>3, FrontLast
  <2> DEFINE o == Descend(nd, n, c)
  <2>5. Descend(nd, n, Append(c, j)) = Child(nd, o, j)
    BY DescendAppend
  <2>6. Child(nd, o, j) = Child(nd, m, k) /\ Child(nd, m, k) # None
    BY <2>2, <2>4, <2>5, Zenon
  <2>7. m # None /\ o # None /\ k \in Names(nd, m) /\ j \in Names(nd, o)
    BY <2>6, NoMembersOfNone DEF Child
  <2>8. m \in DOMAIN nd /\ o \in DOMAIN nd
    BY <2>7, DescendIn DEF m
  <2> HIDE DEF o
  <2>9. m = o /\ j = k
    <3>1. Child(nd, m, k) = nd[m].mem[k] /\ k \in DOMAIN nd[m].mem
      BY <2>7, <2>8, HeapMembers
    <3>2. Child(nd, o, j) = nd[o].mem[j] /\ j \in DOMAIN nd[o].mem
      BY <2>7, <2>8, HeapMembers
    <3> QED BY <2>6, <2>8, <3>1, <3>2 DEF Single
  <2>10. c = a
    BY <2>1, <2>7, <2>9 DEF o
  <2> QED BY <2>4, <2>9, <2>10
<1>3. Seq(Key) \subseteq T
  <2> HIDE DEF T
  <2> QED BY <1>1, <1>2, SequenceInduction
<1> QED BY <1>3

-----------------------------------------------------------------------------
(* What a node shows: its tree, before Settle cuts paths to the bound *)

Shows(nd, n, t) ==
  /\ t = [q \in DOMAIN t |-> t[q]] /\ DOMAIN t \subseteq Seq(Key)
  /\ \A q \in Seq(Key) : q \in DOMAIN t <=> Descend(nd, n, q) # None
  /\ \A q \in DOMAIN t : t[q] = nd[Descend(nd, n, q)].val

LEMMA TreeShows ==
  ASSUME NEW nd, Shallow(nd), NEW n \in DOMAIN nd
  PROVE  Shows(nd, n, Tree(nd, n))
<1> DEFINE t == Tree(nd, n)
<1>1. /\ DOMAIN t = {q \in Path : Descend(nd, n, q) # None}
      /\ \A q \in DOMAIN t : t[q] = nd[Descend(nd, n, q)].val
      /\ t = [q \in DOMAIN t |-> t[q]]
  BY TreeMeaning
<1> HIDE DEF t
<1>2. DOMAIN t \subseteq Seq(Key)
  BY <1>1, PathIs
<1>3. \A q \in Seq(Key) : Descend(nd, n, q) # None => q \in Path
  BY PathIs DEF Shallow
<1> QED BY <1>1, <1>2, <1>3 DEF Shows, t

LEMMA ShownTree ==
  ASSUME NEW nd, Shallow(nd), NEW n \in DOMAIN nd, NEW t, Shows(nd, n, t)
  PROVE  Tree(nd, n) = t
<1> DEFINE u == Tree(nd, n)
<1>1. Shows(nd, n, u)
  BY TreeShows
<1> HIDE DEF u
<1>2. DOMAIN u = DOMAIN t
  BY <1>1 DEF Shows
<1>3. \A q \in DOMAIN t : t[q] = u[q]
  BY <1>1, <1>2 DEF Shows
<1> QED BY <1>1, <1>2, <1>3 DEF Shows, u

\* What heaps agree on shows the same in both.
LEMMA SameShows ==
  ASSUME NEW a, NEW b, NEW S, None \notin S, NEW n \in S, NEW t, Shows(a, n, t),
         \A m \in S : a[m] = b[m] /\ \A k \in DOMAIN a[m].mem : a[m].mem[k] \in S
  PROVE  Shows(b, n, t)
<1>1. \A p \in Seq(Key) : Descend(a, n, p) = Descend(b, n, p) /\ Descend(a, n, p) \in S \cup {None}
  BY SameDescend
<1>2. \A q \in DOMAIN t : q \in Seq(Key) /\ Descend(a, n, q) \in S
  BY <1>1 DEF Shows
<1> QED BY <1>1, <1>2 DEF Shows

\* What a root or a wrapper shows when it is handed to Settle, it shows after it.
LEMMA SettleShows ==
  ASSUME NEW nd, NEW dc, NEW wr, Heap(nd), Roots(nd, dc, wr), Settle(nd, dc, wr),
         NEW n \in Tops(dc, wr), NEW t, Shows(nd, n, t)
  PROVE  Tree(node', n) = t
<1>1. PICK live \in SUBSET DOMAIN nd :
        /\ Leaves(nd, dc, wr, live)
        /\ Tops(dc, wr) \subseteq live
        /\ \A m \in live : \A k \in DOMAIN nd[m].mem : nd[m].mem[k] \in live
  BY SettleLive
<1>2. node' = Restrict(nd, live)
  BY <1>1 DEF Leaves
<1>3. DOMAIN node' = live /\ \A m \in live : nd[m] = node'[m]
  BY <1>2 DEF Restrict
<1>4. None \notin live /\ n \in live
  BY <1>1, NoneIsNoNode
<1>5. Shows(node', n, t)
  BY <1>1, <1>3, <1>4, SameShows
<1>6. Shallow(node')
  BY SettleShallow
<1> QED BY <1>3, <1>4, <1>5, <1>6, ShownTree

\* A copy shows what was copied.
LEMMA CopyShows ==
  ASSUME NEW nd, Heap(nd), NEW d \in Doc, NEW t, IsTree(t), NEW new, NEW c, Copied(nd, d, t, new, c)
  PROVE  Shows(new, <<c, << >> >>, t)
<1> DEFINE top == <<c, << >> >>
           T == {p \in Seq(Key) : Descend(new, top, p) = IF p \in DOMAIN t THEN <<c, p>> ELSE None}
<1>1. /\ DOMAIN t \subseteq Seq(Key) /\ << >> \in DOMAIN t /\ t \in [DOMAIN t -> Content]
  BY DEF IsTree
<1>2. \A p \in DOMAIN t : new[<<c, p>>] = [doc |-> d, val |-> t[p], mem |-> CopyMembers(t, c, p)]
  BY DEF Copied
<1>3. Heap(new) /\ \A p \in DOMAIN t : <<c, p>> \in DOMAIN new
  <2>1. Heap(new)
    BY CopyHeap
  <2>2. {c} \X DOMAIN t \subseteq DOMAIN new
    BY DEF Copied
  <2> QED BY <2>1, <2>2
<1>4. ASSUME NEW p \in DOMAIN t
      PROVE  new[<<c, p>>].val = t[p] /\ new[<<c, p>>].mem = CopyMembers(t, c, p)
  <2>1. PICK r : r = new[<<c, p>>]
    OBVIOUS
  <2>2. r = [doc |-> d, val |-> t[p], mem |-> CopyMembers(t, c, p)]
    BY <1>2, <2>1
  <2>3. r.val = t[p] /\ r.mem = CopyMembers(t, c, p)
    BY <2>2
  <2> QED BY <2>1, <2>3, Zenon
<1>5. << >> \in T
  <2>1. Descend(new, top, << >>) = top
    BY DescendEmpty
  <2> QED BY <1>1, <2>1
<1>6. \A p \in T \cap Seq(Key), k \in Key : Append(p, k) \in T
  <2> SUFFICES ASSUME NEW p \in Seq(Key), p \in T, NEW k \in Key, NEW q \in Seq(Key), q = Append(p, k)
               PROVE  q \in T
    BY AppendProperties
  <2>1. Descend(new, top, Append(p, k)) = Child(new, Descend(new, top, p), k)
    BY DescendAppend
  <2>2. Descend(new, top, q) = Child(new, Descend(new, top, p), k)
    BY <2>1, Zenon
  <2>3. CASE p \in DOMAIN t
    <3>1. Descend(new, top, p) = <<c, p>>
      BY <2>3
    <3>2. Names(new, <<c, p>>) = {j \in Key : Append(p, j) \in DOMAIN t}
      <4>1. Names(new, <<c, p>>) = DOMAIN new[<<c, p>>].mem
        BY <1>3, <2>3, HeapMembers
      <4> QED BY <1>4, <2>3, <4>1 DEF CopyMembers
    <3>3. CASE q \in DOMAIN t
      <4>1. k \in Names(new, <<c, p>>)
        BY <3>2, <3>3
      <4>2. Child(new, <<c, p>>, k) = CopyMembers(t, c, p)[k]
        BY <1>4, <2>3, <4>1 DEF Child
      <4>3. CopyMembers(t, c, p)[k] = <<c, q>>
        BY <3>3 DEF CopyMembers
      <4> QED BY <2>2, <3>1, <3>3, <4>2, <4>3
    <3>4. CASE q \notin DOMAIN t
      <4>1. k \notin Names(new, <<c, p>>)
        BY <3>2, <3>4
      <4>2. Child(new, <<c, p>>, k) = None
        BY <4>1 DEF Child
      <4> QED BY <2>2, <3>1, <3>4, <4>2
    <3> QED BY <3>3, <3>4
  <2>4. CASE p \notin DOMAIN t
    <3>1. Descend(new, top, p) = None
      BY <2>4
    <3>2. q \notin DOMAIN t
      BY <2>4, TreeParent
    <3>3. Child(new, None, k) = None
      BY NoMembersOfNone
    <3> QED BY <2>2, <3>1, <3>2, <3>3
  <2> QED BY <2>3, <2>4
<1>7. \A q \in Seq(Key) : Descend(new, top, q) = IF q \in DOMAIN t THEN <<c, q>> ELSE None
  <2>1. Seq(Key) \subseteq T
    <3> HIDE DEF T
    <3> QED BY <1>5, <1>6, SequenceInduction
  <2> QED BY <2>1
<1>8. \A q \in DOMAIN t : <<c, q>> # None
  BY <1>3, NoneIsNoNode
<1> HIDE DEF T, top
<1>9. t = [q \in DOMAIN t |-> t[q]]
  BY <1>1
<1>10. \A q \in Seq(Key) : q \in DOMAIN t <=> Descend(new, top, q) # None
  BY <1>7, <1>8
<1>11. \A q \in DOMAIN t : t[q] = new[Descend(new, top, q)].val
  BY <1>1, <1>4, <1>7
<1> QED BY <1>1, <1>9, <1>10, <1>11 DEF Shows, top

-----------------------------------------------------------------------------
(* One member of one node changes *)

\* new is nd but for member k of node n, and for nodes that nd does not have.
Changed(nd, n, k, new) ==
  /\ n \in DOMAIN nd /\ k \in Key
  /\ \A m \in DOMAIN nd \ {n} : new[m] = nd[m]
  /\ \A m \in DOMAIN nd : new[m].val = nd[m].val
  /\ \A j \in Key \ {k} : Child(new, n, j) = Child(nd, n, j)

\* Paths that do not begin with p lead where they led; those that do go on from m.
Kept(nd, r, p, new) ==
  \A q \in Seq(Key) : ~IsPrefix(p, q) => Descend(new, r, q) = Descend(nd, r, q)
Through(r, p, m, new) ==
  \A s \in Seq(Key) : Descend(new, r, p \o s) = Descend(new, m, s)

\* g is t with the tree u at path p.
Grafted(t, p, u, g) ==
  /\ g = [q \in DOMAIN g |-> g[q]] /\ DOMAIN g \subseteq Seq(Key)
  /\ \A q \in Seq(Key) : ~IsPrefix(p, q) =>
       /\ q \in DOMAIN g <=> q \in DOMAIN t
       /\ q \in DOMAIN t => g[q] = t[q]
  /\ \A s \in Seq(Key) :
       /\ p \o s \in DOMAIN g <=> s \in DOMAIN u
       /\ s \in DOMAIN u => g[p \o s] = u[s]

\* Paths that do not go through the member lead where they led.
LEMMA WaysKept ==
  ASSUME NEW nd, Heap(nd), Shallow(nd), Single(nd), NEW n \in DOMAIN nd, NEW k \in Key,
         NEW r \in DOMAIN nd, NEW a \in Seq(Key), Descend(nd, r, a) = n,
         NEW new, Changed(nd, n, k, new)
  PROVE  Kept(nd, r, Append(a, k), new)
<1> DEFINE T == {q \in Seq(Key) :
                   ~IsPrefix(Append(a, k), q) => Descend(new, r, q) = Descend(nd, r, q)}
<1>1. Append(a, k) \in Seq(Key)
  BY AppendProperties
<1>2. << >> \in T
  <2>1. Descend(new, r, << >>) = r /\ Descend(nd, r, << >>) = r /\ << >> \in Seq(Key)
    BY DescendEmpty
  <2> QED BY <2>1
<1>3. n # None
  BY NoneIsNoNode
<1>4. \A q \in T \cap Seq(Key), j \in Key : Append(q, j) \in T
  <2> SUFFICES ASSUME NEW q \in Seq(Key), q \in T, NEW j \in Key, NEW x \in Seq(Key), x = Append(q, j),
                      ~IsPrefix(Append(a, k), x)
               PROVE  Descend(new, r, x) = Descend(nd, r, x)
    BY AppendProperties
  <2>1. ~IsPrefix(Append(a, k), q) /\ x # Append(a, k)
    <3>1. IsPrefix(Append(a, k), Append(q, j)) <=> IsPrefix(Append(a, k), q) \/ Append(a, k) = Append(q, j)
      BY <1>1, PrefixAppend
    <3> QED BY <3>1
  <2> DEFINE m == Descend(nd, r, q)
  <2>2. Descend(new, r, q) = m
    BY <2>1
  <2>3. Descend(new, r, Append(q, j)) = Child(new, Descend(new, r, q), j)
    BY DescendAppend
  <2>4. Descend(nd, r, Append(q, j)) = Child(nd, Descend(nd, r, q), j)
    BY DescendAppend
  <2>5. m \in DOMAIN nd \cup {None}
    BY DescendIn
  <2>6. m = n => q = a
    BY <1>3, OneWay
  <2> HIDE DEF m, T
  <2>7. Child(new, m, j) = Child(nd, m, j)
    <3>1. CASE m = n
      <4>1. j # k
        BY <2>1, <2>6, <3>1
      <4> QED BY <3>1, <4>1 DEF Changed
    <3>2. CASE m = None
      BY <3>2, NoMembersOfNone
    <3>3. CASE m # n /\ m # None
      <4>1. new[m] = nd[m]
        BY <2>5, <3>3 DEF Changed
      <4> QED BY <4>1 DEF Child, Names
    <3> QED BY <3>1, <3>2, <3>3
  <2> QED BY <2>2, <2>3, <2>4, <2>7, Zenon DEF m
<1>5. Seq(Key) \subseteq T
  <2> HIDE DEF T
  <2> QED BY <1>2, <1>4, SequenceInduction
<1> QED BY <1>5 DEF Kept

\* Paths that go through the member go on from the new one.
LEMMA WaysThrough ==
  ASSUME NEW nd, Heap(nd), Shallow(nd), Single(nd), NEW n \in DOMAIN nd, NEW k \in Key,
         NEW r \in DOMAIN nd, NEW a \in Seq(Key), Descend(nd, r, a) = n,
         NEW new, Changed(nd, n, k, new)
  PROVE  Through(r, Append(a, k), Child(new, n, k), new)
<1>1. Append(a, k) \in Seq(Key)
  BY AppendProperties
<1>2. ~IsPrefix(Append(a, k), a)
  <2>1. Len(Append(a, k)) = Len(a) + 1 /\ Len(a) \in Nat
    OBVIOUS
  <2>2. IsPrefix(Append(a, k), a) => Len(Append(a, k)) <= Len(a)
    BY <1>1, PrefixMeaning
  <2> QED BY <2>1, <2>2
<1>3. Descend(new, r, a) = n
  BY <1>2, WaysKept DEF Kept
<1>4. Descend(new, r, Append(a, k)) = Child(new, Descend(new, r, a), k)
  BY DescendAppend
<1>5. ASSUME NEW p \in Seq(Key)
      PROVE  \A s \in Seq(Key) : Descend(new, r, p \o s) = Descend(new, Descend(new, r, p), s)
  BY DescendConcat
<1> QED BY <1>1, <1>3, <1>4, <1>5, ZenonT(60) DEF Through

\* Graft below an object of the tree: the path is cut and the new tree put there.
LEMMA GraftMeaning ==
  ASSUME NEW t, IsTree(t), NEW u, IsTree(u), NEW a \in DOMAIN t, t[a] = Object, NEW k \in Key,
         NEW p, p = Append(a, k)
  PROVE  Grafted(t, p, u, Graft(t, p, u))
<1> DEFINE g  == Graft(t, p, u)
           ch == Chain(p, u)
           D  == {q \in DOMAIN t : ~IsPrefix(p, q)}
<1>1. /\ DOMAIN t \subseteq Seq(Key) /\ DOMAIN u \subseteq Seq(Key)
      /\ a \in Seq(Key) /\ p \in Seq(Key) /\ Len(p) = Len(a) + 1 /\ Len(a) \in Nat
  <2>1. DOMAIN t \subseteq Seq(Key) /\ DOMAIN u \subseteq Seq(Key)
    BY DEF IsTree
  <2> QED BY <2>1, AppendProperties
<1>2. /\ DOMAIN ch \subseteq Seq(Key)
      /\ \A r \in DOMAIN u : p \o r \in DOMAIN ch /\ ch[p \o r] = u[r]
      /\ \A i \in 0..Len(p) - 1 : SubSeq(p, 1, i) \in DOMAIN ch /\ ch[SubSeq(p, 1, i)] = Object
      /\ \A q \in DOMAIN ch : \/ \E r \in DOMAIN u : q = p \o r
                              \/ \E i \in 0..Len(p) - 1 : q = SubSeq(p, 1, i)
  BY <1>1, ChainMeaning, ZenonT(60)
<1>3. DOMAIN Prune(t, p) = D /\ \A q \in D : Prune(t, p)[q] = t[q]
  BY DEF Prune, Restrict
<1>4. g = Over(ch, Prune(t, p))
  BY DEF Graft
<1> HIDE DEF g, ch
<1>5. /\ g = [q \in DOMAIN g |-> g[q]] /\ DOMAIN g = DOMAIN ch \cup D
      /\ \A q \in DOMAIN ch : g[q] = ch[q]
      /\ \A q \in D : q \notin DOMAIN ch => g[q] = t[q]
  BY <1>3, <1>4 DEF Over
\* The parents of p are objects of t.
<1>6. ASSUME NEW i \in 0..Len(p) - 1
      PROVE  SubSeq(p, 1, i) \in DOMAIN t /\ t[SubSeq(p, 1, i)] = Object
  <2>1. i \in 0..Len(p) /\ i # Len(p)
    BY <1>1
  <2>2. PICK s \in Seq(Key) : s = SubSeq(p, 1, i) /\ Len(s) = i /\ IsPrefix(s, p)
    BY <1>1, <2>1, SubSeqFacts
  <2>3. IsPrefix(s, a)
    <3>1. IsPrefix(s, Append(a, k)) <=> IsPrefix(s, a) \/ s = Append(a, k)
      BY <1>1, PrefixAppend
    <3>2. s # p
      BY <2>1, <2>2
    <3> QED BY <2>2, <3>1, <3>2
  <2>4. s \in DOMAIN t /\ (s # a => t[s] = Object)
    BY <2>3, TreePrefix
  <2> QED BY <2>2, <2>4
<1>7. ASSUME NEW q \in Seq(Key), ~IsPrefix(p, q)
      PROVE  /\ q \in DOMAIN g <=> q \in DOMAIN t
             /\ q \in DOMAIN t => g[q] = t[q]
  <2>1. \A r \in DOMAIN u : q # p \o r
    BY <1>1, <1>7, ConcatFacts, ZenonT(60)
  <2>2. q \in DOMAIN ch => q \in DOMAIN t /\ ch[q] = t[q]
    BY <1>2, <1>6, <2>1, ZenonT(60)
  <2>3. q \in DOMAIN t => q \in D
    BY <1>7
  <2> QED BY <1>5, <2>2, <2>3
<1>8. ASSUME NEW s \in Seq(Key)
      PROVE  /\ p \o s \in DOMAIN g <=> s \in DOMAIN u
             /\ s \in DOMAIN u => g[p \o s] = u[s]
  <2>1. p \o s \in Seq(Key) /\ Len(p \o s) = Len(p) + Len(s) /\ IsPrefix(p, p \o s) /\ Len(s) \in Nat
    <3>1. p \in Seq(Key)
      BY <1>1
    <3>2. p \o s \in Seq(Key) /\ Len(p \o s) = Len(p) + Len(s) /\ IsPrefix(p, p \o s)
      BY <3>1, ConcatFacts, Zenon
    <3>3. Len(s) \in Nat
      BY LenProperties
    <3> QED BY <3>2, <3>3, Zenon
  <2>2. p \o s \notin D
    BY <2>1
  <2>3. \A i \in 0..Len(p) - 1 : p \o s # SubSeq(p, 1, i)
    <3> TAKE i \in 0..Len(p) - 1
    <3>1. i \in 0..Len(p) /\ i < Len(p)
      BY <1>1
    <3>2. Len(SubSeq(p, 1, i)) = i
      BY <1>1, <3>1, SubSeqFacts
    <3>3. Len(p \o s) # i
      BY <1>1, <2>1, <3>1
    <3> QED BY <3>2, <3>3, Zenon
  <2>4. \A r \in DOMAIN u : p \o s = p \o r => s = r
    <3>1. p \in Seq(Key) /\ \A r \in DOMAIN u : r \in Seq(Key)
      BY <1>1
    <3> QED BY <3>1, ConcatCancel, Zenon
  <2>5. p \o s \in DOMAIN ch => s \in DOMAIN u
    BY <1>2, <2>3, <2>4
  <2>6. p \o s \in DOMAIN g <=> p \o s \in DOMAIN ch
    BY <1>5, <2>2
  <2>7. s \in DOMAIN u => p \o s \in DOMAIN ch /\ g[p \o s] = u[s]
    BY <1>2, <1>5
  <2> QED BY <2>5, <2>6, <2>7
<1>9. DOMAIN g \subseteq Seq(Key)
  BY <1>1, <1>2, <1>5
<1>10. Grafted(t, p, u, g)
  BY <1>5, <1>7, <1>8, <1>9 DEF Grafted
<1> QED BY <1>10 DEF g


LEMMA GraftShows ==
  ASSUME NEW nd, Heap(nd), Shallow(nd), Single(nd), NEW n \in DOMAIN nd, NEW k \in Key,
         NEW new, Changed(nd, n, k, new),
         IsObj(nd, n), NEW r \in DOMAIN nd, NEW a \in Seq(Key), Descend(nd, r, a) = n,
         NEW u, IsTree(u), Shows(new, Child(new, n, k), u)
  PROVE  Shows(new, r, Graft(Tree(nd, r), Append(a, k), u))
<1>1. PICK p \in Seq(Key) : p = Append(a, k)
  BY AppendProperties DEF Changed
<1>2. PICK t : t = Tree(nd, r)
  OBVIOUS
<1>3. IsTree(t) /\ Shows(nd, r, t)
  BY <1>2, TreeIsTree, TreeShows
<1>4. a \in DOMAIN t /\ t[a] = Object
  <2>1. n # None
    BY NoneIsNoNode DEF Changed
  <2> QED BY <1>3, <2>1 DEF Shows, IsObj
<1> DEFINE g == Graft(t, p, u)
<1>5. Grafted(t, p, u, g)
  <2>1. k \in Key
    BY DEF Changed
  <2> QED BY <1>1, <1>3, <1>4, <2>1, GraftMeaning, Zenon
<1> HIDE DEF g
<1> DEFINE top == Child(new, n, k)
<1>6. Kept(nd, r, p, new)
  BY <1>1, WaysKept, Zenon
<1>7. Through(r, p, top, new)
  BY <1>1, WaysThrough, Zenon
<1>8. /\ \A s \in Seq(Key) : s \in DOMAIN u <=> Descend(new, top, s) # None
      /\ \A s \in DOMAIN u : s \in Seq(Key) /\ u[s] = new[Descend(new, top, s)].val
  BY DEF Shows
<1> HIDE DEF top
<1>9. ASSUME NEW q \in Seq(Key)
      PROVE  /\ q \in DOMAIN g <=> Descend(new, r, q) # None
             /\ q \in DOMAIN g => g[q] = new[Descend(new, r, q)].val
  <2>1. CASE IsPrefix(p, q)
    <3>1. PICK s \in Seq(Key) : q = p \o s
      BY <2>1, PrefixSplit
    <3> QED BY <1>5, <1>7, <1>8, <3>1 DEF Grafted, Through
  <2>2. CASE ~IsPrefix(p, q)
    <3>1. q \in DOMAIN g <=> q \in DOMAIN t
      BY <1>5, <2>2 DEF Grafted, Kept
    <3>2. Descend(new, r, q) = Descend(nd, r, q)
      BY <1>6, <2>2 DEF Kept
    <3>3. q \in DOMAIN t <=> Descend(nd, r, q) # None
      BY <1>3 DEF Shows
    <3>4. ASSUME q \in DOMAIN t PROVE g[q] = new[Descend(nd, r, q)].val
      <4>1. g[q] = t[q] /\ t[q] = nd[Descend(nd, r, q)].val
        BY <1>3, <1>5, <2>2, <3>4 DEF Shows, Grafted
      <4>2. Descend(nd, r, q) \in DOMAIN nd
        BY <3>3, <3>4, DescendIn
      <4> QED BY <4>1, <4>2 DEF Changed
    <3> QED BY <3>1, <3>2, <3>3, <3>4
  <2> QED BY <2>1, <2>2
<1>10. Shows(new, r, g)
  BY <1>5, <1>9 DEF Shows, Grafted
<1> QED BY <1>1, <1>2, <1>10 DEF g

LEMMA PruneShows ==
  ASSUME NEW nd, Heap(nd), Shallow(nd), Single(nd), NEW n \in DOMAIN nd, NEW k \in Key,
         NEW new, Changed(nd, n, k, new),
         Child(new, n, k) = None, NEW r \in DOMAIN nd, NEW a \in Seq(Key), Descend(nd, r, a) = n
  PROVE  Shows(new, r, Prune(Tree(nd, r), Append(a, k)))
<1>1. PICK p \in Seq(Key) : p = Append(a, k)
  BY AppendProperties DEF Changed
<1>2. PICK t : t = Tree(nd, r)
  OBVIOUS
<1>3. Shows(nd, r, t)
  BY <1>2, TreeShows
<1> DEFINE g == Prune(t, p)
<1>4. /\ g = [q \in DOMAIN g |-> g[q]] /\ DOMAIN g = {q \in DOMAIN t : ~IsPrefix(p, q)}
      /\ \A q \in DOMAIN g : g[q] = t[q]
  BY DEF Prune, Restrict
<1> HIDE DEF g
<1>5. Kept(nd, r, p, new)
  BY <1>1, WaysKept, Zenon
<1>6. Through(r, p, Child(new, n, k), new)
  BY <1>1, WaysThrough, Zenon
<1>7. ASSUME NEW q \in Seq(Key)
      PROVE  /\ q \in DOMAIN g <=> Descend(new, r, q) # None
             /\ q \in DOMAIN g => g[q] = new[Descend(new, r, q)].val
  <2>1. CASE IsPrefix(p, q)
    <3>1. PICK s \in Seq(Key) : q = p \o s
      BY <2>1, PrefixSplit
    <3>2. Descend(new, r, q) = None
      BY <1>6, <3>1, DescendNone, Zenon DEF Through
    <3> QED BY <1>4, <2>1, <3>2
  <2>2. CASE ~IsPrefix(p, q)
    <3>1. q \in DOMAIN g <=> q \in DOMAIN t
      BY <1>4, <2>2
    <3>2. Descend(new, r, q) = Descend(nd, r, q)
      BY <1>5, <2>2 DEF Grafted, Kept
    <3>3. q \in DOMAIN t <=> Descend(nd, r, q) # None
      BY <1>3 DEF Shows
    <3>4. ASSUME q \in DOMAIN t PROVE g[q] = new[Descend(nd, r, q)].val
      <4>1. g[q] = t[q] /\ t[q] = nd[Descend(nd, r, q)].val
        BY <1>3, <1>4, <3>1, <3>4 DEF Shows
      <4>2. Descend(nd, r, q) \in DOMAIN nd
        BY <3>3, <3>4, DescendIn
      <4> QED BY <4>1, <4>2 DEF Changed
    <3> QED BY <3>1, <3>2, <3>3, <3>4
  <2> QED BY <2>1, <2>2
<1>8. DOMAIN g \subseteq Seq(Key)
  BY <1>3, <1>4 DEF Shows
<1>9. Shows(new, r, g)
  BY <1>4, <1>7, <1>8 DEF Shows
<1> QED BY <1>1, <1>2, <1>9 DEF g

-----------------------------------------------------------------------------
(* What edits show *)

\* A member that is put is seen at its path from every node that leads there.
LEMMA PutShows ==
  ASSUME IInv, NEW n \in DOMAIN node, IsObj(node, n), NEW k \in Key, NEW t, IsTree(t),
         NEW r \in DOMAIN node, NEW a \in Seq(Key), Descend(node, r, a) = n
  PROVE  Shows(PutMember(node, n, k, t), r, Graft(Tree(node, r), Append(a, k), t))
<1>1. Heap(node) /\ Small(node) /\ Shallow(node) /\ Single(node)
  BY DEF IInv, Forest, Single
<1>2. node[n].doc \in Doc
  BY <1>1, HeapMembers
<1> DEFINE cp == CopyInto(node, node[n].doc, t)
<1>3. PICK c : Copied(node, node[n].doc, t, cp.nodes, c) /\ cp.top = <<c, << >> >>
  <2>1. DOMAIN t \subseteq Seq(Key)
    BY DEF IsTree
  <2> QED BY <1>1, <2>1, CopyIntoCopies
<1>4. PutMember(node, n, k, t) = Link(cp.nodes, n, k, cp.top)
  BY DEF PutMember
<1> DEFINE nd  == cp.nodes
           top == <<c, << >> >>
           S   == DOMAIN nd \ DOMAIN node
<1> HIDE DEF cp
<1>5. /\ Heap(nd) /\ n \in DOMAIN nd
      /\ DOMAIN node \subseteq DOMAIN nd /\ \A m \in DOMAIN node : nd[m] = node[m]
      /\ top \in S
  BY <1>2, <1>3, CopyReady
<1>6. \A m \in S : \A j \in DOMAIN nd[m].mem : nd[m].mem[j] \in S
  BY <1>1, <1>2, <1>3, CopyMember
<1>7. Shows(nd, top, t)
  BY <1>1, <1>2, <1>3, CopyShows
<1> DEFINE new == Link(nd, n, k, top)
<1> HIDE DEF top, nd
<1>8. Linked(nd, n, k, top, new)
  BY <1>5, LinkLinks
<1> HIDE DEF new
<1>9. Changed(node, n, k, new)
  <2>1. \A m \in DOMAIN node \ {n} : new[m] = node[m]
    BY <1>5, <1>8 DEF Linked
  <2>2. \A m \in DOMAIN node : new[m].val = node[m].val
    BY <1>5, <1>8 DEF Linked
  <2>3. n # None
    BY <1>1, NoneIsNoNode
  <2>4. \A j \in Key \ {k} : Child(new, n, j) = Child(node, n, j)
    BY <1>5, <1>8, <2>3 DEF Linked, Child, Names
  <2> QED BY <2>1, <2>2, <2>4 DEF Changed
<1>10. Child(new, n, k) = top
  <2>1. n # None
    BY <1>1, NoneIsNoNode
  <2> QED BY <1>8, <2>1 DEF Linked, Child, Names
<1>11. Shows(new, top, t)
  <2>1. None \notin S
    BY <1>5, NoneIsNoNode
  <2>2. \A m \in S : nd[m] = new[m]
    BY <1>8 DEF Linked
  <2> QED BY <1>5, <1>6, <1>7, <2>1, <2>2, SameShows
<1>12. Shows(new, r, Graft(Tree(node, r), Append(a, k), t))
  BY <1>1, <1>9, <1>10, <1>11, GraftShows
<1> QED BY <1>3, <1>4, <1>12 DEF new, nd, top

\* A member that is dropped is missed at its path from every node that led there.
LEMMA DropShows ==
  ASSUME IInv, NEW n \in DOMAIN node, NEW k \in Key,
         NEW r \in DOMAIN node, NEW a \in Seq(Key), Descend(node, r, a) = n
  PROVE  Shows(DropMembers(node, n, {k}), r, Prune(Tree(node, r), Append(a, k)))
<1>1. Heap(node) /\ Small(node) /\ Shallow(node) /\ Single(node) /\ n # None
  BY NoneIsNoNode DEF IInv, Forest, Single
<1> DEFINE new  == DropMembers(node, n, {k})
           left == Restrict(node[n].mem, DOMAIN node[n].mem \ {k})
<1>2. \A m \in DOMAIN node \ {n} : new[m] = node[m]
  BY DEF DropMembers
<1>3. new[n] = [node[n] EXCEPT !.mem = left]
  BY DEF DropMembers
<1>4. node[n] \in [doc : Doc, val : Content, mem : MembersIn(DOMAIN node)]
  BY <1>1 DEF Heap
<1>5. DOMAIN left = DOMAIN node[n].mem \ {k} /\ \A j \in DOMAIN left : left[j] = node[n].mem[j]
  BY DEF Restrict
<1> HIDE DEF new, left
<1>6. new[n].val = node[n].val /\ new[n].mem = left
  BY <1>3, <1>4
<1>7. Child(new, n, k) = None
  BY <1>5, <1>6 DEF Child, Names
<1>8. \A j \in Key \ {k} : Child(new, n, j) = Child(node, n, j)
  BY <1>1, <1>5, <1>6 DEF Child, Names
<1>9. Changed(node, n, k, new)
  BY <1>2, <1>6, <1>8 DEF Changed
<1>10. Shows(new, r, Prune(Tree(node, r), Append(a, k)))
  BY <1>1, <1>7, <1>9, PruneShows
<1> QED BY <1>10 DEF new

\* A new root shows the tree that was copied, and so do the wrappers that move there;
\* the others show what they showed.
LEMMA SetRootShows ==
  ASSUME IInv, NEW v \in Wrapper, IsOpen(v), NEW moves \in SUBSET {v}, NEW t, IsTree(t),
         SetRoot(v, t, moves)
  PROVE  /\ RootTree(v)' = t
         /\ v \in moves => TreeOf(v)' = t
         /\ \A w \in Wrapper \ moves : IsOpen(w) => TreeOf(w)' = TreeOf(w)
<1>1. Heap(node) /\ Small(node) /\ Roots(node, doc, wrap) /\ wrap[v] # Closed
  BY DEF IInv, IsOpen
<1>2. wrap[v].doc \in Doc /\ wrap[v] \in [doc : Doc, val : DOMAIN node]
  BY <1>1, RootsFacts
<1> DEFINE d  == wrap[v].doc
           cp == CopyInto(node, wrap[v].doc, t)
<1>3. PICK c : Copied(node, d, t, cp.nodes, c) /\ cp.top = <<c, << >> >>
  <2>1. DOMAIN t \subseteq Seq(Key)
    BY DEF IsTree
  <2> QED BY <1>1, <2>1, CopyIntoCopies
<1>4. Settle(cp.nodes, [doc EXCEPT ![d].root = cp.top], Moved(moves, cp.top))
  BY DEF SetRoot, Moved
<1> DEFINE nd  == cp.nodes
           top == <<c, << >> >>
           dc  == [doc EXCEPT ![d].root = top]
           wr  == Moved(moves, top)
<1> HIDE DEF cp
<1>5. Copied(node, d, t, nd, c) /\ Settle(nd, dc, wr)
  BY <1>3, <1>4
<1>6. Ready(nd, dc, wr)
  BY <1>1, <1>5, SetRootReady
<1>7. Shows(nd, top, t)
  BY <1>1, <1>2, <1>5, CopyShows
<1>8. /\ DOMAIN node \subseteq DOMAIN nd /\ \A m \in DOMAIN node : nd[m] = node[m]
      /\ top \in DOMAIN nd /\ top # None
  <2>1. /\ DOMAIN node \subseteq DOMAIN nd /\ \A m \in DOMAIN node : nd[m] = node[m]
        /\ top \in DOMAIN nd /\ Heap(nd)
    BY <1>2, <1>5, CopyReady
  <2>2. top # None
    BY <2>1, NoneIsNoNode
  <2> QED BY <2>1, <2>2
<1> HIDE DEF top, nd
<1>9. dc[d].root = top
  <2>1. doc[d] \in [root : DOMAIN node \cup {None}, mutable : BOOLEAN] /\ d \in DOMAIN doc
    BY <1>1, <1>2 DEF Roots
  <2> HIDE DEF d
  <2> QED BY <2>1
<1>10. /\ DOMAIN wr = Wrapper /\ wr[v] # Closed /\ wr[v].doc = d
       /\ v \in moves => wr[v].val = top
       /\ \A w \in Wrapper \ moves : wr[w] = wrap[w]
  <2>1. \A w \in Wrapper \ moves : wr[w] = wrap[w]
    BY DEF Moved
  <2>2. ASSUME v \in moves PROVE wr[v].doc = d /\ wr[v].val = top /\ wr[v] # Closed
    <3>1. wr[v] = [wrap[v] EXCEPT !.val = top]
      BY <2>2 DEF Moved
    <3>2. wr[v].doc = wrap[v].doc /\ wr[v].val = top
      BY <1>2, <3>1
    <3>3. Roots(nd, dc, wr)
      BY <1>6 DEF Ready
    <3>4. [wrap[v] EXCEPT !.val = top] \in [doc : Doc, val : Nat \X Seq(Key)]
      <4>1. top \in Nat \X Seq(Key)
        BY <1>6, <1>8 DEF Ready, Heap
      <4> QED BY <1>2, <4>1
    <3> QED BY <3>1, <3>2, <3>4, SentinelAssumption
  <2>3. DOMAIN wr = Wrapper
    BY DEF Moved
  <2> QED BY <1>1, <2>1, <2>2, <2>3
<1> HIDE DEF wr, dc
<1>11. /\ wrap' = wr /\ \A e \in Doc : doc'[e] = IF Held(wr, e) THEN dc[e] ELSE NoDoc
  <2>1. PICK level : Leaves(nd, dc, wr, Live(level))
    BY <1>5, SettleMeaning
  <2> QED BY <2>1 DEF Leaves
<1>12. Held(wr, d) /\ top \in Tops(dc, wr)
  <2>1. Held(wr, d)
    BY <1>10 DEF Held
  <2> QED BY <1>2, <1>8, <1>9, <2>1 DEF Tops
<1>13. Tree(node', top) = t
  BY <1>5, <1>6, <1>7, <1>12, SettleShows DEF Ready
<1>14. RootTree(v)' = t
  <2>1. doc'[d].root = top /\ wrap'[v].doc = d
    BY <1>2, <1>9, <1>10, <1>11, <1>12
  <2> QED BY <1>13, <2>1 DEF RootTree, RootOf
<1>15. v \in moves => TreeOf(v)' = t
  BY <1>10, <1>11, <1>13 DEF TreeOf
<1>16. ASSUME NEW w \in Wrapper \ moves, IsOpen(w) PROVE TreeOf(w)' = TreeOf(w)
  <2>1. wrap'[w] = wrap[w] /\ wr[w] = wrap[w] /\ wrap[w] # Closed
    BY <1>10, <1>11, <1>16 DEF IsOpen
  <2>2. wrap[w].val \in DOMAIN node
    BY <1>16, OpenFacts
  <2>3. wrap[w].val \in Tops(dc, wr)
    <3>1. wrap[w].val # None
      BY <1>1, <2>2, NoneIsNoNode
    <3> QED BY <1>10, <2>1, <3>1 DEF Tops
  <2>4. \A m \in DOMAIN node : \A k \in DOMAIN node[m].mem : node[m].mem[k] \in DOMAIN node
    BY <1>1, HeapMembers
  <2>5. Tree(node', wrap[w].val) = Tree(node, wrap[w].val)
    BY <1>5, <1>6, <1>8, <2>2, <2>3, <2>4, SettleSame
  <2> QED BY <2>1, <2>5 DEF TreeOf
<1> QED BY <1>14, <1>15, <1>16

-----------------------------------------------------------------------------
(* A tree grafted below objects that are missing *)

\* Of two beginnings of a path, one begins the other.
LEMMA PrefixesOfOne ==
  ASSUME NEW p \in Seq(Key), NEW q \in Seq(Key), NEW r \in Seq(Key), IsPrefix(p, r), IsPrefix(q, r)
  PROVE  IsPrefix(p, q) \/ IsPrefix(q, p)
<1>1. Len(p) \in Nat /\ Len(q) \in Nat
  OBVIOUS
<1>2. /\ Len(p) <= Len(r) /\ \A i \in 1..Len(p) : p[i] = r[i]
      /\ Len(q) <= Len(r) /\ \A i \in 1..Len(q) : q[i] = r[i]
  BY PrefixMeaning
<1>3. CASE Len(p) <= Len(q)
  <2>1. \A i \in 1..Len(p) : p[i] = q[i]
    BY <1>1, <1>2, <1>3
  <2> QED BY <1>3, <2>1, PrefixMeaning
<1>4. CASE Len(q) <= Len(p)
  <2>1. \A i \in 1..Len(q) : q[i] = p[i]
    BY <1>1, <1>2, <1>4
  <2> QED BY <1>4, <2>1, PrefixMeaning
<1> QED BY <1>1, <1>3, <1>4

LEMMA PrefixTransitive ==
  ASSUME NEW p \in Seq(Key), NEW q \in Seq(Key), NEW r \in Seq(Key), IsPrefix(p, q), IsPrefix(q, r)
  PROVE  IsPrefix(p, r)
<1>1. Len(p) \in Nat /\ Len(q) \in Nat /\ Len(r) \in Nat
  OBVIOUS
<1>2. /\ Len(p) <= Len(q) /\ \A i \in 1..Len(p) : p[i] = q[i]
      /\ Len(q) <= Len(r) /\ \A i \in 1..Len(q) : q[i] = r[i]
  BY PrefixMeaning
<1>3. Len(p) <= Len(r) /\ \A i \in 1..Len(p) : p[i] = r[i]
  BY <1>1, <1>2
<1> QED BY <1>3, PrefixMeaning

LEMMA PrefixConcat ==
  ASSUME NEW p \in Seq(Key), NEW r \in Seq(Key), NEW s \in Seq(Key)
  PROVE  IsPrefix(p \o r, p \o s) <=> IsPrefix(r, s)
<1>1. /\ p \o r \in Seq(Key) /\ Len(p \o r) = Len(p) + Len(r)
      /\ p \o s \in Seq(Key) /\ Len(p \o s) = Len(p) + Len(s)
  BY ConcatIsKeys
<1>2. ASSUME IsPrefix(r, s) PROVE IsPrefix(p \o r, p \o s)
  <2>1. PICK x \in Seq(Key) : s = r \o x
    BY <1>2, PrefixSplit
  <2>2. p \o s = (p \o r) \o x
    BY <2>1, ConcatIsKeys, SMTT(30)
  <2>3. IsPrefix(p \o r, (p \o r) \o x)
    BY <1>1, ConcatFacts
  <2> QED BY <2>2, <2>3, Zenon
<1>3. ASSUME IsPrefix(p \o r, p \o s) PROVE IsPrefix(r, s)
  <2>1. PICK x \in Seq(Key) : p \o s = (p \o r) \o x
    BY <1>1, <1>3, PrefixSplit
  <2>2. p \o s = p \o (r \o x) /\ r \o x \in Seq(Key)
    <3>1. (p \o r) \o x = p \o (r \o x)
      BY ConcatIsKeys
    <3>2. r \o x \in Seq(Key)
      BY ConcatIsKeys
    <3> QED BY <2>1, <3>1, <3>2
  <2>3. s = r \o x
    BY <2>2, ConcatCancel
  <2> QED BY <2>3, ConcatFacts, Zenon
<1> QED BY <1>2, <1>3

LEMMA SplitAt ==
  ASSUME NEW p \in Seq(Key), NEW i \in 0..Len(p)
  PROVE  SubSeq(p, 1, i) \o SubSeq(p, i + 1, Len(p)) = p
<1>1. PICK q \in Seq(Key) : q = SubSeq(p, 1, i) /\ Len(q) = i /\ IsPrefix(q, p)
  BY SubSeqFacts
<1>2. PICK r \in Seq(Key) : p = q \o r
  BY <1>1, PrefixSplit
<1>3. SubSeq(q \o r, Len(q) + 1, Len(q \o r)) = r
  BY ConcatFacts
<1>4. SubSeq(p, i + 1, Len(p)) = r
  BY <1>1, <1>2, <1>3
<1> QED BY <1>1, <1>2, <1>4

LEMMA ThreeParts ==
  ASSUME NEW x \in Seq(Key), NEW b \in Seq(Key), NEW r \in Seq(Key),
         NEW p, p = x \o b, NEW s, s = b \o r
  PROVE  x \o s = p \o r
BY ConcatIsKeys

\* What Chain is, path by path.
Chained(p, u, c) ==
  /\ c = [q \in DOMAIN c |-> c[q]] /\ DOMAIN c \subseteq Seq(Key)
  /\ \A s \in Seq(Key) : /\ p \o s \in DOMAIN c <=> s \in DOMAIN u
                         /\ s \in DOMAIN u => c[p \o s] = u[s]
  /\ \A q \in Seq(Key) : ~IsPrefix(p, q) => /\ q \in DOMAIN c <=> IsPrefix(q, p)
                                            /\ q \in DOMAIN c => c[q] = Object

LEMMA ChainChained ==
  ASSUME NEW p \in Seq(Key), NEW u, IsTree(u)
  PROVE  Chained(p, u, Chain(p, u))
<1> DEFINE c == Chain(p, u)
<1>1. c = [q \in DOMAIN c |-> c[q]]
  BY DEF Chain
<1>2. /\ DOMAIN c \subseteq Seq(Key)
      /\ \A r \in DOMAIN u : p \o r \in DOMAIN c /\ c[p \o r] = u[r]
      /\ \A i \in 0..Len(p) - 1 : SubSeq(p, 1, i) \in DOMAIN c /\ c[SubSeq(p, 1, i)] = Object
      /\ \A q \in DOMAIN c : \/ \E r \in DOMAIN u : q = p \o r
                             \/ \E i \in 0..Len(p) - 1 : q = SubSeq(p, 1, i)
  BY ChainMeaning
<1> HIDE DEF c
<1>3. DOMAIN u \subseteq Seq(Key) /\ Len(p) \in Nat
  BY DEF IsTree
<1>4. ASSUME NEW i \in 0..Len(p) - 1
      PROVE  /\ SubSeq(p, 1, i) \in Seq(Key) /\ Len(SubSeq(p, 1, i)) < Len(p)
             /\ IsPrefix(SubSeq(p, 1, i), p)
  <2>1. i \in 0..Len(p) /\ i < Len(p)
    BY <1>3
  <2> QED BY <2>1, SubSeqFacts
<1>5. ASSUME NEW s \in Seq(Key)
      PROVE  /\ p \o s \in DOMAIN c <=> s \in DOMAIN u
             /\ s \in DOMAIN u => c[p \o s] = u[s]
  <2>1. ASSUME p \o s \in DOMAIN c PROVE s \in DOMAIN u
    <3>1. \A i \in 0..Len(p) - 1 : p \o s # SubSeq(p, 1, i)
      <4> TAKE i \in 0..Len(p) - 1
      <4>1. Len(p \o s) >= Len(p)
        <5>1. Len(p \o s) = Len(p) + Len(s)
          BY ConcatIsKeys
        <5> QED BY <5>1
      <4>2. Len(p \o s) \in Nat
        BY ConcatIsKeys
      <4> QED BY <1>3, <1>4, <4>1, <4>2
    <3>2. PICK r \in DOMAIN u : p \o s = p \o r
      BY <1>2, <2>1, <3>1
    <3>3. r \in Seq(Key)
      BY <1>3
    <3>4. s = r
      BY <3>2, <3>3, ConcatCancel
    <3> QED BY <3>4
  <2> QED BY <1>2, <2>1
<1>6. ASSUME NEW q \in Seq(Key), ~IsPrefix(p, q)
      PROVE  /\ q \in DOMAIN c <=> IsPrefix(q, p)
             /\ q \in DOMAIN c => c[q] = Object
  <2>1. ASSUME q \in DOMAIN c PROVE \E i \in 0..Len(p) - 1 : q = SubSeq(p, 1, i)
    <3>1. \A r \in DOMAIN u : q # p \o r
      BY <1>3, <1>6, ConcatFacts
    <3> QED BY <1>2, <2>1, <3>1
  <2>2. ASSUME IsPrefix(q, p) PROVE \E i \in 0..Len(p) - 1 : q = SubSeq(p, 1, i)
    <3>1. PICK i \in 0..Len(p) : q = SubSeq(p, 1, i) /\ i = Len(q)
      BY <2>2, PrefixSplit
    <3>2. i # Len(p)
      BY <1>3, <1>6, <3>1, PrefixFacts, SubSeqFacts, ZenonT(60)
    <3>3. i \in 0..Len(p) - 1
      BY <1>3, <3>2
    <3> QED BY <3>1, <3>3
  <2> QED BY <1>2, <1>4, <2>1, <2>2
<1>7. Chained(p, u, c)
  BY <1>1, <1>2, <1>5, <1>6 DEF Chained
<1> QED BY <1>7 DEF c

\* Two trees with the same graft are the same.
LEMMA GraftedSame ==
  ASSUME NEW t, NEW p \in Seq(Key), NEW u, NEW g, NEW h, Grafted(t, p, u, g), Grafted(t, p, u, h)
  PROVE  g = h
<1>1. ASSUME NEW q \in Seq(Key)
      PROVE  (q \in DOMAIN g <=> q \in DOMAIN h) /\ (q \in DOMAIN g => g[q] = h[q])
  <2>1. CASE IsPrefix(p, q)
    <3>1. PICK s \in Seq(Key) : q = p \o s
      BY <2>1, PrefixSplit
    <3> QED BY <3>1 DEF Grafted
  <2>2. CASE ~IsPrefix(p, q)
    BY <2>2 DEF Grafted
  <2> QED BY <2>1, <2>2
<1>2. /\ DOMAIN g \subseteq Seq(Key) /\ DOMAIN h \subseteq Seq(Key)
      /\ g = [q \in DOMAIN g |-> g[q]] /\ h = [q \in DOMAIN h |-> h[q]]
  BY DEF Grafted
<1>3. DOMAIN g = DOMAIN h /\ \A q \in DOMAIN g : g[q] = h[q]
  BY <1>1, <1>2
<1> QED BY <1>2, <1>3

\* A graft at a path of which only the beginning exists is one of the missing objects.
LEMMA GraftDeep ==
  ASSUME NEW t, IsTree(t), NEW u, IsTree(u), NEW a \in DOMAIN t, t[a] = Object, NEW k \in Key,
         NEW b \in Seq(Key), b # << >> => Append(a, k) \notin DOMAIN t
  PROVE  Graft(t, Append(a, k) \o b, u) = Graft(t, Append(a, k), Chain(b, u))
<1>1. PICK x \in Seq(Key) : x = Append(a, k)
  <2>1. a \in Seq(Key)
    BY DEF IsTree
  <2> QED BY <2>1, AppendProperties
<1>2. a \in Seq(Key) /\ x \in Seq(Key) /\ DOMAIN t \subseteq Seq(Key)
  <2>1. DOMAIN t \subseteq Seq(Key)
    BY DEF IsTree
  <2> QED BY <1>1, <2>1, AppendProperties
<1>3. PICK p : p = x \o b
  OBVIOUS
<1>4. p \in Seq(Key) /\ IsPrefix(x, p) /\ (b = << >> => p = x)
  BY <1>2, <1>3, ConcatFacts, ConcatIsKeys
<1> DEFINE w  == Chain(b, u)
           ch == Chain(p, u)
           g  == Graft(t, p, u)
           D  == {q \in DOMAIN t : ~IsPrefix(p, q)}
<1>5. IsTree(w) /\ Chained(b, u, w)
  BY ChainIsTree, ChainChained
<1>6. Chained(p, u, ch)
  BY <1>4, ChainChained
<1>7. DOMAIN Prune(t, p) = D /\ \A q \in D : Prune(t, p)[q] = t[q]
  BY DEF Prune, Restrict
<1>8. g = Over(ch, Prune(t, p))
  BY DEF Graft
<1> HIDE DEF g, ch, w
<1>9. /\ g = [q \in DOMAIN g |-> g[q]] /\ DOMAIN g = DOMAIN ch \cup D
      /\ \A q \in DOMAIN ch : g[q] = ch[q]
      /\ \A q \in D : q \notin DOMAIN ch => g[q] = t[q]
  BY <1>7, <1>8 DEF Over
<1>10. DOMAIN ch \subseteq Seq(Key)
  BY <1>6 DEF Chained
<1>11. ASSUME NEW q \in Seq(Key), ~IsPrefix(x, q)
       PROVE  /\ q \in DOMAIN g <=> q \in DOMAIN t
              /\ q \in DOMAIN t => g[q] = t[q]
  <2>1. ~IsPrefix(p, q)
    BY <1>2, <1>4, <1>11, PrefixTransitive
  <2>2. ASSUME q \in DOMAIN ch PROVE q \in DOMAIN t /\ t[q] = Object /\ ch[q] = Object
    <3>1. IsPrefix(q, p) /\ ch[q] = Object
      BY <1>6, <2>1, <2>2 DEF Chained
    <3>2. IsPrefix(q, x) /\ q # x
      BY <1>2, <1>4, <1>11, <3>1, PrefixesOfOne, PrefixFacts
    <3>3. IsPrefix(q, Append(a, k)) <=> IsPrefix(q, a) \/ q = Append(a, k)
      BY <1>2, PrefixAppend
    <3>4. IsPrefix(q, a)
      BY <1>1, <3>2, <3>3
    <3>5. q \in DOMAIN t /\ (q # a => t[q] = Object)
      BY <3>4, TreePrefix
    <3> QED BY <3>1, <3>5
  <2>3. q \in DOMAIN t => q \in D
    BY <2>1
  <2> QED BY <1>9, <2>2, <2>3
<1>12. ASSUME NEW s \in Seq(Key)
       PROVE  /\ x \o s \in DOMAIN g <=> s \in DOMAIN w
              /\ s \in DOMAIN w => g[x \o s] = w[s]
  <2>1. PICK y \in Seq(Key) : y = x \o s
    BY <1>2, ConcatIsKeys
  <2>2. y \notin D
    <3>1. CASE b = << >>
      <4>1. IsPrefix(x, x \o s)
        BY <1>2, ConcatFacts
      <4> QED BY <1>4, <2>1, <3>1, <4>1
    <3>2. CASE b # << >>
      <4>1. IsPrefix(x, x \o s) /\ x \notin DOMAIN t
        BY <1>1, <1>2, <3>2, ConcatFacts
      <4>2. IsPrefix(x, y)
        BY <2>1, <4>1
      <4>3. y \notin DOMAIN t
        BY <1>2, <4>1, <4>2, TreePrefix
      <4> QED BY <4>3
    <3> QED BY <3>1, <3>2
  <2>3. (IsPrefix(p, y) <=> IsPrefix(b, s)) /\ (IsPrefix(y, p) <=> IsPrefix(s, b))
    <3>1. /\ IsPrefix(x \o b, x \o s) <=> IsPrefix(b, s)
          /\ IsPrefix(x \o s, x \o b) <=> IsPrefix(s, b)
      BY <1>2, PrefixConcat
    <3> QED BY <1>3, <2>1, <3>1, Zenon
  <2>4. (y \in DOMAIN ch <=> s \in DOMAIN w) /\ (s \in DOMAIN w => ch[y] = w[s])
    <3>1. CASE IsPrefix(b, s)
      <4>1. PICK r \in Seq(Key) : s = b \o r
        BY <3>1, PrefixSplit
      <4>2. y = p \o r
        BY <1>3, <2>1, <4>1, ThreeParts
      <4>3. (b \o r \in DOMAIN w <=> r \in DOMAIN u) /\ (r \in DOMAIN u => w[b \o r] = u[r])
        BY <1>5 DEF Chained
      <4>4. (p \o r \in DOMAIN ch <=> r \in DOMAIN u) /\ (r \in DOMAIN u => ch[p \o r] = u[r])
        BY <1>6 DEF Chained
      <4> QED BY <4>1, <4>2, <4>3, <4>4
    <3>2. CASE ~IsPrefix(b, s)
      <4>1. (s \in DOMAIN w <=> IsPrefix(s, b)) /\ (s \in DOMAIN w => w[s] = Object)
        BY <1>5, <3>2 DEF Chained
      <4>2. (y \in DOMAIN ch <=> IsPrefix(y, p)) /\ (y \in DOMAIN ch => ch[y] = Object)
        BY <1>6, <2>3, <3>2 DEF Chained
      <4> QED BY <2>3, <4>1, <4>2
    <3> QED BY <3>1, <3>2
  <2>5. (y \in DOMAIN g <=> s \in DOMAIN w) /\ (s \in DOMAIN w => g[y] = w[s])
    BY <1>9, <2>2, <2>4
  <2> QED BY <2>1, <2>5
<1>13. DOMAIN g \subseteq Seq(Key)
  BY <1>2, <1>9, <1>10
<1>14. Grafted(t, x, w, g)
  BY <1>9, <1>11, <1>12, <1>13 DEF Grafted
<1>15. Grafted(t, x, w, Graft(t, x, w))
  BY <1>1, <1>5, GraftMeaning
<1>16. g = Graft(t, x, w)
  BY <1>2, <1>14, <1>15, GraftedSame
<1> QED BY <1>1, <1>3, <1>16 DEF g, w

-----------------------------------------------------------------------------
(* Edits are exact *)

LEMMA OpenTops ==
  ASSUME IInv, NEW v \in Wrapper, IsOpen(v)
  PROVE  /\ wrap[v].val \in Tops(doc, wrap)
         /\ HasRoot(v) => RootOf(v) \in Tops(doc, wrap)
         /\ Held(wrap, wrap[v].doc)
<1>1. Heap(node) /\ DOMAIN wrap = Wrapper
  BY DEF IInv, Roots
<1>2. wrap[v].doc \in Doc /\ wrap[v].val \in DOMAIN node
  BY OpenFacts
<1>3. wrap[v].val # None
  BY <1>1, <1>2, NoneIsNoNode
<1>4. Held(wrap, wrap[v].doc) /\ wrap[v] # Closed
  BY <1>1 DEF Held, IsOpen
<1> QED BY <1>1, <1>2, <1>3, <1>4 DEF Tops, HasRoot, RootOf

\* After an edit that moves nothing, wrapper and document are where they were.
LEMMA StaysInPlace ==
  ASSUME IInv, NEW v \in Wrapper, IsOpen(v), NEW nd, NEW dc, Settle(nd, dc, wrap)
  PROVE  /\ TreeOf(v)' = Tree(node', wrap[v].val)
         /\ RootOf(v)' = dc[wrap[v].doc].root
         /\ RootTree(v)' = Tree(node', dc[wrap[v].doc].root)
<1>1. PICK level : Leaves(nd, dc, wrap, Live(level))
  BY SettleMeaning
<1>2. wrap[v].doc \in Doc /\ Held(wrap, wrap[v].doc)
  BY OpenFacts, OpenTops
<1>3. wrap' = wrap /\ doc'[wrap[v].doc] = dc[wrap[v].doc]
  BY <1>1, <1>2 DEF Leaves
<1> QED BY <1>3 DEF TreeOf, RootTree, RootOf

LEMMA PutExact ==
  ASSUME IInv, NEW v \in Wrapper, NEW k \in Key, NEW t, IsTree(t), ObjectPut(v, k, t)
  PROVE  TreeOf(v)' = Graft(TreeOf(v), <<k>>, t)
<1> DEFINE n  == wrap[v].val
           nd == PutMember(node, n, k, t)
<1>1. IsOpen(v) /\ IsObj(node, n) /\ Settle(nd, doc, wrap)
  BY DEF ObjectPut, IsMutable
<1>2. n \in DOMAIN node /\ n \in Tops(doc, wrap)
  BY <1>1, OpenFacts, OpenTops
<1>3. Ready(nd, doc, wrap)
  BY <1>1, <1>2, PutReady
<1>4. Shows(nd, n, Graft(Tree(node, n), Append(<< >>, k), t))
  <2>1. Descend(node, n, << >>) = n /\ << >> \in Seq(Key)
    BY DescendEmpty
  <2> HIDE DEF n
  <2> QED BY <1>1, <1>2, <2>1, PutShows
<1>5. Append(<< >>, k) = <<k>>
  OBVIOUS
<1> HIDE DEF n, nd
<1>6. Tree(node', n) = Graft(Tree(node, n), Append(<< >>, k), t)
  BY <1>1, <1>2, <1>3, <1>4, SettleShows DEF Ready
<1>7. TreeOf(v)' = Tree(node', n)
  BY <1>1, StaysInPlace DEF n
<1> QED BY <1>5, <1>6, <1>7 DEF TreeOf, n

\* Where nothing was, or all of it gives way, a graft is the chain to its tree.
LEMMA GraftAlone ==
  ASSUME NEW p \in Seq(Key), NEW u, IsTree(u), NEW t, t = << >> \/ (IsTree(t) /\ p = << >>)
  PROVE  Graft(t, p, u) = Chain(p, u)
<1>1. {q \in DOMAIN t : ~IsPrefix(p, q)} = {}
  <2>1. CASE t = << >>
    BY <2>1
  <2>2. CASE IsTree(t) /\ p = << >>
    <3>1. \A q \in DOMAIN t : q \in Seq(Key)
      BY <2>2 DEF IsTree
    <3> QED BY <2>2, <3>1, PrefixFacts
  <2> QED BY <2>1, <2>2
<1>2. DOMAIN Prune(t, p) = {}
  BY <1>1 DEF Prune, Restrict
<1> DEFINE c == Chain(p, u)
<1>3. c = [q \in DOMAIN c |-> c[q]]
  BY DEF Chain
<1>4. Graft(t, p, u) = Over(c, Prune(t, p))
  BY DEF Graft
<1> HIDE DEF c
<1>5. Over(c, Prune(t, p)) = [q \in DOMAIN c |-> c[q]]
  BY <1>2 DEF Over
<1> QED BY <1>3, <1>4, <1>5 DEF c

LEMMA PtrPutExact ==
  ASSUME IInv, NEW v \in Wrapper, NEW p \in Path, NEW t, IsTree(t), PtrPut(v, p, t)
  PROVE  RootTree(v)' = Graft(IF HasRoot(v) THEN RootTree(v) ELSE << >>, p, t)
<1> DEFINE was  == IF HasRoot(v) THEN RootTree(v) ELSE << >>
           Goal == RootTree(v)' = Graft(was, p, t)
<1>1. IsOpen(v) /\ Heap(node) /\ Shallow(node)
  BY DEF PtrPut, IsMutable, IInv
<1>2. p \in Seq(Key)
  BY PathIs
<1>3. ASSUME p = << >> \/ ~HasRoot(v), SetRoot(v, Chain(p, t), {}) PROVE Goal
  <2>1. IsTree(Chain(p, t))
    BY <1>2, ChainIsTree
  <2>2. RootTree(v)' = Chain(p, t)
    BY <1>1, <1>3, <2>1, SetRootShows
  <2>3. was = << >> \/ (IsTree(was) /\ p = << >>)
    BY <1>1, <1>3, OpenFacts
  <2> HIDE DEF was
  <2>4. Graft(was, p, t) = Chain(p, t)
    BY <1>2, <2>3, GraftAlone
  <2> QED BY <2>2, <2>4
<1> DEFINE root   == RootOf(v)
           at(j)  == Descend(node, root, SubSeq(p, 1, j))
           S      == {j \in 0..Len(p) - 1 : at(j) # None}
           new(j) == Chain(SubSeq(p, j + 2, Len(p)), t)
<1>4. ASSUME p # << >>, HasRoot(v), NEW i, i = Max(S), IsObj(node, at(i)),
             Settle(PutMember(node, at(i), p[i + 1], new(i)), doc, wrap)
      PROVE  Goal
  <2>1. Len(p) \in Nat /\ Len(p) > 0
    BY <1>2, <1>4
  <2>2. root \in DOMAIN node /\ root \in Tops(doc, wrap)
    BY <1>1, <1>4, OpenFacts, OpenTops
  <2>3. 0 \in S
    <3>1. SubSeq(p, 1, 0) = << >>
      BY <1>2, <2>1, SubSeqFacts
    <3>2. at(0) = root
      BY <3>1, DescendEmpty
    <3>3. at(0) # None
      BY <1>1, <2>2, <3>2, NoneIsNoNode
    <3> HIDE DEF at
    <3> QED BY <2>1, <3>3
  <2>4. i \in S /\ \A j \in S : j <= i
    <3>1. S \in SUBSET (0..Len(p) - 1) /\ Len(p) - 1 \in Nat
      BY <2>1
    <3> HIDE DEF S
    <3>2. \E m \in S : \A j \in S : j <= m
      BY <2>3, <3>1, GreatestNatural
    <3>3. \A x, y \in S : y <= x => x >= y
      BY <3>1
    <3>4. \A x, y \in S : x >= y => y <= x
      BY <3>1
    <3> QED BY <1>4, <3>2, <3>3, <3>4 DEF Max
  <2>5. i \in 0..Len(p) - 1 /\ at(i) # None
    BY <2>4
  <2> DEFINE b == SubSeq(p, i + 2, Len(p))
             k == p[i + 1]
  <2>6. PICK a \in Seq(Key) : a = SubSeq(p, 1, i) /\ Len(a) = i
    <3>1. i \in 0..Len(p)
      BY <2>1, <2>5
    <3> QED BY <1>2, <3>1, SubSeqFacts
  <2>7. k \in Key /\ b \in Seq(Key) /\ Len(b) = Len(p) - (i + 1)
    BY <1>2, <2>1, <2>5
  <2>8. SubSeq(p, 1, i + 1) = Append(a, k) /\ Append(a, k) \in Seq(Key)
    <3>1. i + 1 \in 0..Len(p) /\ i + 1 # 0 /\ (i + 1) - 1 = i
      BY <2>1, <2>5
    <3>2. SubSeq(p, 1, i + 1) = Append(SubSeq(p, 1, (i + 1) - 1), p[i + 1])
      BY <1>2, <3>1, SubSeqFacts
    <3>3. Append(a, k) \in Seq(Key)
      BY <2>7, AppendProperties
    <3> QED BY <2>6, <3>1, <3>2, <3>3
  <2>9. Append(a, k) \o b = p
    <3>1. i + 1 \in 0..Len(p) /\ i + 2 = (i + 1) + 1
      BY <2>1, <2>5
    <3>2. SubSeq(p, 1, i + 1) \o SubSeq(p, (i + 1) + 1, Len(p)) = p
      BY <1>2, <3>1, SplitAt
    <3> QED BY <2>8, <3>1, <3>2
  <2> DEFINE n  == at(i)
             nd == PutMember(node, n, k, new(i))
             T  == Tree(node, root)
  <2>10. n = Descend(node, root, a) /\ n \in DOMAIN node /\ IsObj(node, n)
    <3>1. n = Descend(node, root, a)
      BY <2>6
    <3>2. n # None
      BY <2>5
    <3>3. n \in DOMAIN node
      BY <1>1, <2>2, <3>1, <3>2, DescendIn
    <3> QED BY <1>4, <3>1, <3>3
  <2>11. new(i) = Chain(b, t) /\ IsTree(Chain(b, t))
    BY <2>7, ChainIsTree
  <2>12. Settle(nd, doc, wrap)
    BY <1>4
  <2>13. b # << >> => Descend(node, root, Append(a, k)) = None
    <3> SUFFICES ASSUME b # << >> PROVE at(i + 1) = None
      BY <2>8
    <3>1. i + 1 \in 0..Len(p) - 1
      <4>1. Len(b) # 0
        BY <2>7
      <4> HIDE DEF b
      <4> QED BY <2>1, <2>5, <2>7, <4>1
    <3>2. i + 1 \notin S
      <4>1. ~(i + 1 <= i)
        BY <2>5
      <4> HIDE DEF S
      <4> QED BY <2>4, <4>1
    <3> HIDE DEF at
    <3> QED BY <3>1, <3>2
  <2> HIDE DEF n, root, at, b, k, new
  <2>14. Ready(nd, doc, wrap)
    BY <2>7, <2>10, <2>11, PutReady
  <2>15. Shows(nd, root, Graft(T, Append(a, k), Chain(b, t)))
    BY <2>2, <2>7, <2>10, <2>11, PutShows
  <2>16. Shows(node, root, T) /\ IsTree(T)
    BY <1>1, <2>2, TreeShows, TreeIsTree
  <2> HIDE DEF nd, T
  <2>17. Graft(T, p, t) = Graft(T, Append(a, k), Chain(b, t))
    <3>1. a \in DOMAIN T /\ T[a] = Object
      <4>1. n # None
        BY <1>1, <2>10, NoneIsNoNode
      <4>2. a \in DOMAIN T
        BY <2>10, <2>16, <4>1 DEF Shows
      <4> QED BY <2>10, <2>16, <4>2 DEF Shows, IsObj
    <3>2. b # << >> => Append(a, k) \notin DOMAIN T
      BY <2>8, <2>13, <2>16 DEF Shows
    <3>3. Graft(T, Append(a, k) \o b, t) = Graft(T, Append(a, k), Chain(b, t))
      BY <2>7, <2>16, <3>1, <3>2, GraftDeep
    <3> QED BY <2>9, <3>3
  <2>18. Tree(node', root) = Graft(T, Append(a, k), Chain(b, t))
    BY <2>2, <2>12, <2>14, <2>15, SettleShows DEF Ready
  <2>19. RootTree(v)' = Tree(node', root)
    BY <1>1, <2>12, StaysInPlace DEF root, RootOf
  <2>20. was = T
    BY <1>4 DEF RootTree, T, root
  <2> QED BY <2>17, <2>18, <2>19, <2>20
<1>5. Goal
  <2> SUFFICES Goal
    OBVIOUS
  <2> HIDE DEF Goal
  <2> QED BY <1>3, <1>4, Zenon DEF PtrPut
<1> QED BY <1>5

LEMMA PtrRemoveExact ==
  ASSUME IInv, NEW v \in Wrapper, NEW p \in Path, PtrRemove(v, p)
  PROVE  /\ HasRoot(v)
         /\ IF p = << >> THEN RootOf(v)' = None ELSE RootTree(v)' = Prune(RootTree(v), p)
<1>1. IsOpen(v) /\ HasRoot(v) /\ Heap(node) /\ wrap[v].doc \in Doc
  BY OpenFacts DEF PtrRemove, IsMutable, IInv
<1>2. p \in Seq(Key)
  BY PathIs
<1>3. ASSUME Settle(node, [doc EXCEPT ![wrap[v].doc].root = None], wrap)
      PROVE  RootOf(v)' = None
  <2> DEFINE dc == [doc EXCEPT ![wrap[v].doc].root = None]
  <2>1. RootOf(v)' = dc[wrap[v].doc].root
    BY <1>1, <1>3, StaysInPlace
  <2>2. /\ doc[wrap[v].doc] \in [root : DOMAIN node \cup {None}, mutable : BOOLEAN]
        /\ wrap[v].doc \in DOMAIN doc
    BY <1>1 DEF IInv, Roots
  <2> QED BY <2>1, <2>2
<1>4. ASSUME NEW n, n = Descend(node, RootOf(v), Front(p)), p # << >>, Last(p) \in Names(node, n),
             Settle(DropMembers(node, n, {Last(p)}), doc, wrap)
      PROVE  RootTree(v)' = Prune(RootTree(v), p)
  <2>1. PICK a \in Seq(Key), k \in Key : a = Front(p) /\ k = Last(p) /\ p = Append(a, k)
    BY <1>2, <1>4, FrontLast
  <2>2. n # None
    BY <1>4, NoMembersOfNone
  <2>3. RootOf(v) \in DOMAIN node /\ RootOf(v) \in Tops(doc, wrap)
    BY <1>1, OpenFacts, OpenTops
  <2>4. n \in DOMAIN node /\ n = Descend(node, RootOf(v), a)
    BY <1>1, <1>4, <2>1, <2>2, <2>3, DescendIn
  <2> DEFINE nd == DropMembers(node, n, {k})
  <2>5. Shows(nd, RootOf(v), Prune(Tree(node, RootOf(v)), Append(a, k)))
    BY <2>3, <2>4, DropShows
  <2>6. Ready(nd, doc, wrap)
    BY <1>1, <2>4, DropFewer, FewerReady
  <2>7. Settle(nd, doc, wrap)
    BY <1>4, <2>1
  <2> HIDE DEF nd
  <2>8. Tree(node', RootOf(v)) = Prune(Tree(node, RootOf(v)), Append(a, k))
    BY <2>3, <2>5, <2>6, <2>7, SettleShows DEF Ready
  <2>9. RootTree(v)' = Tree(node', RootOf(v))
    BY <1>1, <2>7, StaysInPlace DEF RootOf
  <2> QED BY <2>1, <2>8, <2>9 DEF RootTree
<1>5. CASE p = << >>
  BY <1>1, <1>3, <1>5 DEF PtrRemove
<1>6. CASE p # << >>
  BY <1>1, <1>4, <1>6 DEF PtrRemove
<1> QED BY <1>5, <1>6

\* A node without members shows its own value only.
LEMMA AloneShows ==
  ASSUME NEW nd, NEW n, n # None, DOMAIN nd[n].mem = {}
  PROVE  Shows(nd, n, Leaf(nd[n].val))
<1> DEFINE T == {q \in Seq(Key) : q = << >> \/ Descend(nd, n, q) = None}
<1>1. Descend(nd, n, << >>) = n /\ << >> \in Seq(Key)
  BY DescendEmpty
<1>2. << >> \in T
  BY <1>1
<1>3. \A q \in T \cap Seq(Key), j \in Key : Append(q, j) \in T
  <2> SUFFICES ASSUME NEW q \in Seq(Key), q \in T, NEW j \in Key
               PROVE  Append(q, j) \in T
    OBVIOUS
  <2>1. Append(q, j) \in Seq(Key)
    BY AppendProperties
  <2>2. Descend(nd, n, Append(q, j)) = Child(nd, Descend(nd, n, q), j)
    BY DescendAppend
  <2>3. Child(nd, None, j) = None
    BY NoMembersOfNone
  <2>4. Child(nd, n, j) = None
    BY DEF Child, Names
  <2>5. Descend(nd, n, q) \in {n, None}
    BY <1>1
  <2>6. Descend(nd, n, Append(q, j)) = None
    BY <2>2, <2>3, <2>4, <2>5
  <2> QED BY <2>1, <2>6
<1>4. Seq(Key) \subseteq T
  <2> HIDE DEF T
  <2> QED BY <1>2, <1>3, SequenceInduction
<1>5. \A q \in Seq(Key) : q = << >> <=> Descend(nd, n, q) # None
  BY <1>1, <1>4
<1> DEFINE t == Leaf(nd[n].val)
<1>6. t = [q \in DOMAIN t |-> t[q]] /\ DOMAIN t = {<< >>} /\ t[<< >>] = nd[n].val
  BY DEF Leaf
<1> HIDE DEF t
<1>7. Shows(nd, n, t)
  BY <1>1, <1>5, <1>6 DEF Shows
<1> QED BY <1>7 DEF t

LEMMA RemoveExact ==
  ASSUME IInv, NEW v \in Wrapper, NEW k \in Key, ObjectRemove(v, k)
  PROVE  TreeOf(v)' = Prune(TreeOf(v), <<k>>)
<1> DEFINE n  == wrap[v].val
           nd == DropMembers(node, n, {k})
<1>1. IsOpen(v) /\ Settle(nd, doc, wrap)
  BY DEF ObjectRemove, IsMutable
<1>2. n \in DOMAIN node /\ n \in Tops(doc, wrap)
  BY <1>1, OpenFacts, OpenTops
<1>3. Ready(nd, doc, wrap)
  BY <1>2, DropFewer, FewerReady DEF IInv
<1>4. Shows(nd, n, Prune(Tree(node, n), Append(<< >>, k)))
  <2>1. Descend(node, n, << >>) = n /\ << >> \in Seq(Key)
    BY DescendEmpty
  <2> HIDE DEF n
  <2> QED BY <1>2, <2>1, DropShows
<1>5. Append(<< >>, k) = <<k>>
  OBVIOUS
<1> HIDE DEF n, nd
<1>6. Tree(node', n) = Prune(Tree(node, n), Append(<< >>, k))
  BY <1>1, <1>2, <1>3, <1>4, SettleShows DEF Ready
<1>7. TreeOf(v)' = Tree(node', n)
  BY <1>1, StaysInPlace DEF n
<1> QED BY <1>5, <1>6, <1>7 DEF TreeOf, n

LEMMA ClearExact ==
  ASSUME IInv, NEW v \in Wrapper, ObjectClear(v)
  PROVE  TreeOf(v)' = Leaf(Object)
<1> DEFINE n  == wrap[v].val
           nd == DropMembers(node, n, Key)
<1>1. IsOpen(v) /\ IsObj(node, n) /\ Settle(nd, doc, wrap)
  BY DEF ObjectClear, IsMutable
<1>2. n \in DOMAIN node /\ n \in Tops(doc, wrap)
  BY <1>1, OpenFacts, OpenTops
<1>3. Ready(nd, doc, wrap)
  BY <1>2, DropFewer, FewerReady DEF IInv
<1>4. Heap(node) /\ n # None
  BY <1>2, NoneIsNoNode DEF IInv
<1>5. DOMAIN nd[n].mem = {} /\ nd[n].val = Object
  <2>1. node[n] \in [doc : Doc, val : Content, mem : MembersIn(DOMAIN node)]
    BY <1>2, <1>4 DEF Heap
  <2>2. DOMAIN node[n].mem \subseteq Key
    BY <1>2, <1>4, HeapMembers DEF Names
  <2> DEFINE none == Restrict(node[n].mem, DOMAIN node[n].mem \ Key)
  <2>3. DOMAIN none = {}
    BY <2>2 DEF Restrict
  <2>4. nd[n] = [node[n] EXCEPT !.mem = none]
    BY <1>2 DEF DropMembers
  <2>5. node[n].val = Object
    BY <1>1 DEF IsObj
  <2> HIDE DEF none, nd, n
  <2>6. nd[n].mem = none /\ nd[n].val = node[n].val
    BY <2>1, <2>4
  <2> QED BY <2>3, <2>5, <2>6
<1> HIDE DEF n, nd
<1>6. Shows(nd, n, Leaf(Object))
  BY <1>4, <1>5, AloneShows
<1>7. Tree(node', n) = Leaf(Object)
  BY <1>1, <1>2, <1>3, <1>6, SettleShows DEF Ready
<1>8. TreeOf(v)' = Tree(node', n)
  BY <1>1, StaysInPlace DEF n
<1> QED BY <1>7, <1>8

LEMMA ScalarExact ==
  ASSUME IInv, NEW v \in Wrapper, NEW s \in Scalar, SetScalar(v, s)
  PROVE  TreeOf(v)' = Leaf(s)
<1> DEFINE n  == wrap[v].val
           nd == [node EXCEPT ![n].val = s, ![n].mem = << >>]
<1>1. IsOpen(v) /\ Settle(nd, doc, wrap)
  BY Zenon DEF SetScalar
<1>2. n \in DOMAIN node /\ n \in Tops(doc, wrap)
  BY <1>1, OpenFacts, OpenTops
<1>3. Heap(node) /\ n # None
  BY <1>2, NoneIsNoNode DEF IInv
<1>4. Ready(nd, doc, wrap)
  <2> HIDE DEF n
  <2>1. Fewer(node, nd)
    BY <1>2, <1>3, ScalarFewer, Zenon
  <2> HIDE DEF nd
  <2> QED BY <2>1, FewerReady
<1>5. DOMAIN nd[n].mem = {} /\ nd[n].val = s
  <2>1. node[n] \in [doc : Doc, val : Content, mem : MembersIn(DOMAIN node)]
    BY <1>2, <1>3 DEF Heap
  <2> HIDE DEF n
  <2>2. nd[n].mem = << >> /\ nd[n].val = s
    BY <1>2, <2>1
  <2> QED BY <2>2
<1> HIDE DEF n, nd
<1>6. Shows(nd, n, Leaf(s))
  BY <1>3, <1>5, AloneShows
<1>7. Tree(node', n) = Leaf(s)
  BY <1>1, <1>2, <1>4, <1>6, SettleShows DEF Ready
<1>8. TreeOf(v)' = Tree(node', n)
  BY <1>1, StaysInPlace DEF n
<1> QED BY <1>7, <1>8

\* Each call edits in one of these ways, or leaves what EditsAreExact and
\* PatchShowsInTarget speak of alone.
LEMMA EditKinds ==
  ASSUME IInv, Next
  PROVE  \/ call' = NoEdit
         \/ \E v \in Wrapper :
              \/ \E k \in Key : ObjectRemove(v, k)
              \/ ObjectClear(v)
              \/ \E s \in Scalar : SetScalar(v, s)
              \/ \E k \in Key : \E t : IsTree(t) /\ ObjectPut(v, k, t)
              \/ \E p \in Path : \E t : IsTree(t) /\ PtrPut(v, p, t)
              \/ \E p \in Path : PtrRemove(v, p)
              \/ \E ops \in Patches : JsonPatchInPlace(v, ops)
              \/ \E u \in Wrapper : MergePatchInPlace(v, u)
<1> DEFINE Other == \/ call' = NoEdit
                     \/ \E v \in Wrapper : \/ \E k \in Key : ObjectRemove(v, k)
                                           \/ ObjectClear(v)
                                           \/ \E s \in Scalar : SetScalar(v, s)
           Put(v) == \/ \E k \in Key : \E t : IsTree(t) /\ ObjectPut(v, k, t)
                     \/ \E p \in Path : \E t : IsTree(t) /\ PtrPut(v, p, t)
<1>2. \A s \in Content : IsTree(Leaf(s))
  BY LeafIsTree
<1>3. \A w, t, m : NewDocument(w, t, m) => Other
  BY DEF NewDocument
<1>4. \A w, v, n : NewWrapper(w, v, n) => Other
  BY DEF NewWrapper
<1>5. ASSUME NEW v \in Wrapper
      PROVE  /\ ObjectInit(v) \/ Close(v) \/ ObjectClear(v) => Other
             /\ \A s \in Scalar : Create(v, s) \/ SetScalar(v, s) => Other
             /\ \A t \in Texts, m \in BOOLEAN : ParseJSON(v, t, m) => Other
             /\ \A k \in Key : ObjectRemove(v, k) => Other
  <2>1. ObjectInit(v) \/ (\E s \in Scalar : Create(v, s))
          \/ (\E t \in Texts, m \in BOOLEAN : ParseJSON(v, t, m)) => Other
    <3> HIDE DEF Other
    <3> QED BY <1>3 DEF ObjectInit, Create, ParseJSON
  <2>2. Close(v) => Other
    BY DEF Close
  <2>3. ObjectClear(v) => Other
    OBVIOUS
  <2>4. \A s \in Scalar : SetScalar(v, s) => Other
    OBVIOUS
  <2>5. \A k \in Key : ObjectRemove(v, k) => Other
    OBVIOUS
  <2> HIDE DEF Other
  <2> QED BY <2>1, <2>2, <2>3, <2>4, <2>5
<1>6. ASSUME NEW v \in Wrapper, NEW u \in Wrapper
      PROVE  /\ ToMutable(v, u) \/ ToImmutable(v, u) => Other
             /\ \A k \in Key : ObjectGet(v, u, k) => Other
             /\ \A p \in Path : PtrGet(v, u, p) => Other
             /\ \A ops \in Patches, m \in BOOLEAN : ApplyJsonPatch(v, u, ops, m) => Other
             /\ \A x \in Wrapper : DeepCopy(v, x, u) => Other
             /\ \A x \in Wrapper, m \in BOOLEAN : ApplyMergePatch(v, u, x, m) => Other
  <2> HIDE DEF Other
  <2>1. ToMutable(v, u) \/ ToImmutable(v, u) => Other
    BY <1>3 DEF ToMutable, ToImmutable
  <2>2. /\ \A k \in Key : ObjectGet(v, u, k) => Other
        /\ \A p \in Path : PtrGet(v, u, p) => Other
    BY <1>4 DEF ObjectGet, PtrGet
  <2>3. \A ops \in Patches, m \in BOOLEAN : ApplyJsonPatch(v, u, ops, m) => Other
    BY <1>3 DEF ApplyJsonPatch
  <2>4. \A x \in Wrapper : DeepCopy(v, x, u) => Other
    BY <1>3 DEF DeepCopy
  <2>5. \A x \in Wrapper, m \in BOOLEAN : ApplyMergePatch(v, u, x, m) => Other
    BY <1>3 DEF ApplyMergePatch
  <2> QED BY <2>1, <2>2, <2>3, <2>4, <2>5
<1>7. ASSUME NEW v \in Wrapper
      PROVE  /\ \A k \in Key, s \in Scalar : ObjectSetScalar(v, k, s) => Put(v)
             /\ \A p \in Path, s \in Scalar : PtrAdd(v, p, Leaf(s)) => Put(v)
             /\ \A t \in Values, p \in Path : PtrSet(v, p, t) => Put(v)
             /\ \A u \in Wrapper, k \in Key : ObjectSet(v, k, u) => Put(v)
  <2>1. \A k \in Key, s \in Scalar : ObjectSetScalar(v, k, s) => Put(v)
    BY <1>2 DEF ObjectSetScalar, Content
  <2>2. \A p \in Path, s \in Scalar : PtrAdd(v, p, Leaf(s)) => Put(v)
    BY <1>2 DEF PtrAdd, Content
  <2>3. \A t \in Values, p \in Path : PtrSet(v, p, t) => Put(v)
    BY ValuesAreTrees DEF PtrSet
  <2>4. \A u \in Wrapper, k \in Key : ObjectSet(v, k, u) => Put(v)
    BY OpenFacts DEF ObjectSet
  <2> QED BY <2>1, <2>2, <2>3, <2>4
<1> SUFFICES \/ Other
             \/ \E v \in Wrapper :
                  \/ Put(v)
                  \/ \E p \in Path : PtrRemove(v, p)
                  \/ \E ops \in Patches : JsonPatchInPlace(v, ops)
                  \/ \E u \in Wrapper : MergePatchInPlace(v, u)
  BY Zenon
<1> HIDE DEF Other, Put
<1> QED BY <1>5, <1>6, <1>7 DEF Next

\* What the kinds of edits record.
LEMMA EditRecords ==
  ASSUME NEW op, NEW v, NEW p, NEW arg
  PROVE  /\ Edit(op, v, p, arg).op = op /\ Edit(op, v, p, arg).on = v
         /\ Edit(op, v, p, arg).path = p /\ Edit(op, v, p, arg).arg = arg
BY DEF Edit

LEMMA ExactStep ==
  ASSUME IInv, Next, NEW v \in Wrapper, call' # NoEdit, call'.on = v
  PROVE  /\ call'.op = "Put" => TreeOf(v)' = Graft(TreeOf(v), call'.path, call'.arg)
         /\ call'.op = "PtrPut" =>
              RootTree(v)' = Graft(IF HasRoot(v) THEN RootTree(v) ELSE << >>, call'.path, call'.arg)
         /\ call'.op = "PtrRemove" =>
              /\ HasRoot(v)
              /\ IF call'.path = << >> THEN RootOf(v)' = None
                 ELSE RootTree(v)' = Prune(RootTree(v), call'.path)
         /\ call'.op = "Remove" => TreeOf(v)' = Prune(TreeOf(v), call'.path)
         /\ call'.op = "Clear" => TreeOf(v)' = Leaf(Object)
         /\ call'.op = "SetScalar" => TreeOf(v)' = Leaf(call'.arg)
         /\ call'.op \in {"Put", "PtrPut", "PtrRemove", "Remove", "Clear", "SetScalar",
                          "MergePatch", "JsonPatch"}
         /\ call'.op \in {"MergePatch", "JsonPatch"} =>
              /\ TreeOf(v)' = IF call'.op = "MergePatch" THEN MergePatch(RootTree(v), call'.arg)
                              ELSE JsonPatch(RootTree(v), call'.arg)
              /\ RootTree(v)' = TreeOf(v)'
              /\ \A w \in Wrapper \ {v} : IsOpen(w) => TreeOf(w)' = TreeOf(w)
<1>1. ASSUME NEW u \in Wrapper
      PROVE  /\ \A k \in Key : ObjectRemove(u, k) =>
                  /\ call'.op = "Remove" /\ call'.on = u /\ call'.path = <<k>>
                  /\ TreeOf(u)' = Prune(TreeOf(u), <<k>>)
             /\ ObjectClear(u) =>
                  call'.op = "Clear" /\ call'.on = u /\ TreeOf(u)' = Leaf(Object)
             /\ \A s \in Scalar : SetScalar(u, s) =>
                  /\ call'.op = "SetScalar" /\ call'.on = u /\ call'.arg = s
                  /\ TreeOf(u)' = Leaf(s)
  <2>1. ASSUME NEW k \in Key, ObjectRemove(u, k)
        PROVE  /\ call'.op = "Remove" /\ call'.on = u /\ call'.path = <<k>>
               /\ TreeOf(u)' = Prune(TreeOf(u), <<k>>)
    <3>1. call' = Edit("Remove", u, <<k>>, None)
      BY <2>1 DEF ObjectRemove
    <3> QED BY <2>1, <3>1, EditRecords, RemoveExact
  <2>2. ASSUME ObjectClear(u)
        PROVE  call'.op = "Clear" /\ call'.on = u /\ TreeOf(u)' = Leaf(Object)
    <3>1. call' = Edit("Clear", u, << >>, None)
      BY <2>2 DEF ObjectClear
    <3> QED BY <2>2, <3>1, EditRecords, ClearExact
  <2>3. ASSUME NEW s \in Scalar, SetScalar(u, s)
        PROVE  /\ call'.op = "SetScalar" /\ call'.on = u /\ call'.arg = s
               /\ TreeOf(u)' = Leaf(s)
    <3>1. call' = Edit("SetScalar", u, << >>, s)
      BY <2>3, Zenon DEF SetScalar
    <3> QED BY <2>3, <3>1, EditRecords, ScalarExact
  <2> QED BY <2>1, <2>2, <2>3
<1>2. ASSUME NEW u \in Wrapper, NEW k \in Key, NEW t, IsTree(t), ObjectPut(u, k, t)
      PROVE  /\ call'.op = "Put" /\ call'.on = u /\ call'.path = <<k>> /\ call'.arg = t
             /\ TreeOf(u)' = Graft(TreeOf(u), <<k>>, t)
  <2>1. call' = Edit("Put", u, <<k>>, t)
    BY <1>2 DEF ObjectPut
  <2>2. TreeOf(u)' = Graft(TreeOf(u), <<k>>, t)
    BY <1>2, PutExact
  <2> QED BY <2>1, <2>2, EditRecords
<1>3. ASSUME NEW u \in Wrapper, NEW p \in Path, NEW t, IsTree(t), PtrPut(u, p, t)
      PROVE  /\ call'.op = "PtrPut" /\ call'.on = u /\ call'.path = p /\ call'.arg = t
             /\ RootTree(u)' = Graft(IF HasRoot(u) THEN RootTree(u) ELSE << >>, p, t)
  <2>1. call' = Edit("PtrPut", u, p, t)
    BY <1>3 DEF PtrPut
  <2>2. RootTree(u)' = Graft(IF HasRoot(u) THEN RootTree(u) ELSE << >>, p, t)
    BY <1>3, PtrPutExact
  <2> QED BY <2>1, <2>2, EditRecords
<1>4. ASSUME NEW u \in Wrapper, NEW p \in Path, PtrRemove(u, p)
      PROVE  /\ call'.op = "PtrRemove" /\ call'.on = u /\ call'.path = p /\ HasRoot(u)
             /\ IF p = << >> THEN RootOf(u)' = None ELSE RootTree(u)' = Prune(RootTree(u), p)
  <2>1. call' = Edit("PtrRemove", u, p, None)
    BY <1>4 DEF PtrRemove
  <2>2. /\ HasRoot(u)
        /\ IF p = << >> THEN RootOf(u)' = None ELSE RootTree(u)' = Prune(RootTree(u), p)
    BY <1>4, PtrRemoveExact
  <2> QED BY <2>1, <2>2, EditRecords
<1>5. ASSUME NEW u \in Wrapper, IsOpen(u), NEW t, IsTree(t), SetRoot(u, t, {u})
      PROVE  /\ TreeOf(u)' = t /\ RootTree(u)' = t
             /\ \A w \in Wrapper \ {u} : IsOpen(w) => TreeOf(w)' = TreeOf(w)
  BY <1>5, SetRootShows
<1>6. ASSUME NEW u \in Wrapper, NEW ops \in Patches, JsonPatchInPlace(u, ops)
      PROVE  /\ call'.op = "JsonPatch" /\ call'.on = u /\ call'.arg = ops
             /\ TreeOf(u)' = JsonPatch(RootTree(u), ops) /\ RootTree(u)' = TreeOf(u)'
             /\ \A w \in Wrapper \ {u} : IsOpen(w) => TreeOf(w)' = TreeOf(w)
  <2>1. call' = Edit("JsonPatch", u, << >>, ops)
    BY <1>6, Zenon DEF JsonPatchInPlace
  <2>2. IsOpen(u) /\ HasRoot(u) /\ JsonPatch(RootTree(u), ops) # Failed
    BY <1>6 DEF JsonPatchInPlace, IsMutable
  <2>3. SetRoot(u, JsonPatch(RootTree(u), ops), {u})
    BY <1>6, Zenon DEF JsonPatchInPlace
  <2>4. IsTree(JsonPatch(RootTree(u), ops))
    BY <2>2, OpenFacts, JsonPatchIsTree
  <2> QED BY <1>5, <2>1, <2>2, <2>3, <2>4, EditRecords
<1>7. ASSUME NEW u \in Wrapper, NEW x \in Wrapper, MergePatchInPlace(u, x)
      PROVE  /\ call'.op = "MergePatch" /\ call'.on = u /\ call'.arg = TreeOf(x)
             /\ TreeOf(u)' = MergePatch(RootTree(u), TreeOf(x)) /\ RootTree(u)' = TreeOf(u)'
             /\ \A w \in Wrapper \ {u} : IsOpen(w) => TreeOf(w)' = TreeOf(w)
  <2>1. call' = Edit("MergePatch", u, << >>, TreeOf(x))
    BY <1>7 DEF MergePatchInPlace
  <2>2. /\ IsOpen(u) /\ HasRoot(u) /\ IsOpen(x)
        /\ SetRoot(u, MergePatch(RootTree(u), TreeOf(x)), {u})
    BY <1>7 DEF MergePatchInPlace, IsMutable
  <2>3. IsTree(MergePatch(RootTree(u), TreeOf(x)))
    BY <2>2, OpenFacts, MergePatchIsTree
  <2> QED BY <1>5, <2>1, <2>2, <2>3, EditRecords
<1> QED BY <1>1, <1>2, <1>3, <1>4, <1>6, <1>7, EditKinds

\* Put and PtrPut leave exactly the given tree at the path, Remove and PtrRemove
\* exactly nothing, Clear an empty object and SetScalar the scalar alone, whatever else the value or the document holds, and also when what is
\* put is, holds or lies within what it is put into (ObjectSet, PtrSet and the
\* calls that set a scalar): the value given is copied before anything is linked.
THEOREM EditsDoWhatTheySay == Spec => EditsAreExact
<1> DEFINE Exact ==
      \A v \in Wrapper : call' # NoEdit /\ call'.on = v =>
        LET was == IF HasRoot(v) THEN RootTree(v) ELSE << >>
        IN  CASE call'.op = "Put"       -> TreeOf(v)' = Graft(TreeOf(v), call'.path, call'.arg)
              [] call'.op = "PtrPut"    -> RootTree(v)' = Graft(was, call'.path, call'.arg)
              [] call'.op = "PtrRemove" -> IF call'.path = << >> THEN RootOf(v)' = None
                                           ELSE RootTree(v)' = Prune(was, call'.path)
              [] call'.op = "Remove"    -> TreeOf(v)' = Prune(TreeOf(v), call'.path)
              [] call'.op = "Clear"     -> TreeOf(v)' = Leaf(Object)
              [] call'.op = "SetScalar" -> TreeOf(v)' = Leaf(call'.arg)
              [] OTHER                  -> call'.op \in {"MergePatch", "JsonPatch"}
<1>1. ASSUME IInv, [Next]_vars PROVE [Exact]_vars
  <2>1. CASE Next
    <3> SUFFICES Exact
      OBVIOUS
    <3> SUFFICES ASSUME NEW v \in Wrapper, call' # NoEdit, call'.on = v
                 PROVE  LET was == IF HasRoot(v) THEN RootTree(v) ELSE << >>
                        IN  CASE call'.op = "Put"       -> TreeOf(v)' = Graft(TreeOf(v), call'.path, call'.arg)
                              [] call'.op = "PtrPut"    -> RootTree(v)' = Graft(was, call'.path, call'.arg)
                              [] call'.op = "PtrRemove" -> IF call'.path = << >> THEN RootOf(v)' = None
                                                           ELSE RootTree(v)' = Prune(was, call'.path)
                              [] call'.op = "Remove"    -> TreeOf(v)' = Prune(TreeOf(v), call'.path)
                              [] call'.op = "Clear"     -> TreeOf(v)' = Leaf(Object)
                              [] call'.op = "SetScalar" -> TreeOf(v)' = Leaf(call'.arg)
                              [] OTHER                  -> call'.op \in {"MergePatch", "JsonPatch"}
      BY Zenon
    <3> QED BY <1>1, <2>1, ExactStep
  <2>2. CASE UNCHANGED vars
    BY <2>2
  <2> QED BY <1>1, <2>1, <2>2
<1>2. Spec => [][Exact]_vars
  <2> HIDE DEF Exact
  <2> QED BY <1>1, InvariantHolds, PTL DEF Spec
<1> QED BY <1>2 DEF EditsAreExact

\* After MergePatchInPlace and JsonPatchInPlace the target wrapper and its document
\* show the patched tree, and no other wrapper, in whatever document, shows anything
\* else than before: the copies the patch is made of are new nodes.
THEOREM PatchesShow == Spec => PatchShowsInTarget
<1> DEFINE Shown ==
      \A v \in Wrapper : call'.op \in {"MergePatch", "JsonPatch"} /\ call'.on = v =>
        /\ TreeOf(v)' = IF call'.op = "MergePatch" THEN MergePatch(RootTree(v), call'.arg)
                        ELSE JsonPatch(RootTree(v), call'.arg)
        /\ RootTree(v)' = TreeOf(v)'
        /\ \A w \in Wrapper \ {v} : IsOpen(w) => TreeOf(w)' = TreeOf(w)
<1>1. ASSUME IInv, [Next]_vars PROVE [Shown]_vars
  <2>1. CASE Next
    <3> SUFFICES Shown
      OBVIOUS
    <3>1. NoEdit.op = "none"
      BY DEF NoEdit
    <3>2. call'.op \in {"MergePatch", "JsonPatch"} => call' # NoEdit
      BY <3>1
    <3> QED BY <1>1, <2>1, <3>2, ExactStep
  <2>2. CASE UNCHANGED vars
    BY <2>2
  <2> QED BY <1>1, <2>1, <2>2
<1>2. Spec => [][Shown]_vars
  <2> HIDE DEF Shown
  <2> QED BY <1>1, InvariantHolds, PTL DEF Spec
<1> QED BY <1>2 DEF PatchShowsInTarget
=============================================================================
