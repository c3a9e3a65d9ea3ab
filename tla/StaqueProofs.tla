---------------------------- MODULE StaqueProofs ----------------------------
(* Staque for any amount of memory and any values: the doubly linked list  *)
(* holds together under every sequence of calls, frees what it lets go of, *)
(* and is a sequence.                                                      *)
EXTENDS Staque, FiniteSetTheorems, SequenceTheorems, TLAPS

Records == [value : Values, next : Pointers, prev : Pointers]

(* The i-th node of a chain, and a null pointer beyond either end.         *)
Link(q, i) == IF i \in 1..Len(q) THEN q[i] ELSE Null

Cells(q) == {q[i] : i \in 1..Len(q)}

(* The pointers s and e and those in heap make a chain of q.               *)
Linked(q, s, e, heap) ==
  /\ s = Link(q, 1) /\ e = Link(q, Len(q))
  /\ \A i \in 1..Len(q) : /\ q[i] \in DOMAIN heap
                          /\ heap[q[i]].next = Link(q, i + 1)
                          /\ heap[q[i]].prev = Link(q, i - 1)

Distinct(q) == \A i, j \in 1..Len(q) : q[i] = q[j] => i = j

(* q is the chain of a list with these members, in this stage of its life. *)
ChainOf(q, s, e, heap, count, stage) ==
  /\ q \in Seq(Nodes) /\ Distinct(q)
  /\ Linked(q, s, e, heap)
  /\ q # << >> => count = Len(q)
  /\ stage = "fresh" => DOMAIN heap = Cells(q)

Chained(q) == ChainOf(q, start, end, node, length, life)

IInv == TypeOK /\ \E q \in Seq(Nodes) : Chained(q)

ValuesOf(q, heap) == [k \in 1..Len(q) |-> heap[q[k]].value]

-----------------------------------------------------------------------------
(* A set of numbers has a least one. *)
LEMMA LeastNumber ==
  ASSUME NEW T, T \subseteq Nat, T # {}
  PROVE  \E m \in T : \A y \in T : m <= y
<1> DEFINE R == {ss \in Nat \X Nat : ss[1] < ss[2]}
<1>1. IsWellFoundedOn(R, Nat)
  BY NatLessThanWellFounded DEF OpToRel
<1>2. \A y \in Nat, m \in Nat : y < m => <<y, m>> \in R
  OBVIOUS
<1> HIDE DEF R
<1>3. PICK m \in T : \A y \in T : <<y, m>> \notin R
  BY <1>1, WFMin
<1>4. ASSUME NEW y \in T PROVE m <= y
  <2>1. m \in Nat /\ y \in Nat /\ ~(y < m)
    BY <1>2, <1>3
  <2> QED
    BY <2>1
<1> QED
  BY <1>4

(* Memory bounds the length of a chain. *)
LEMMA ChainFits ==
  ASSUME NEW q \in Seq(Nodes), Distinct(q)
  PROVE  Len(q) \in 0..Cardinality(Nodes) /\ Cardinality(Nodes) \in Nat
<1>1. Len(q) \in Nat /\ q \in [1..Len(q) -> Nodes]
  OBVIOUS
<1>2. q \in Injection(1..Len(q), Nodes)
  BY <1>1 DEF Distinct, Injection, IsInjective
<1>3. Cardinality(1..Len(q)) <= Cardinality(Nodes)
  BY <1>2, FS_Injection, StaqueAssumption
<1>4. Cardinality(1..Len(q)) = Len(q)
  BY <1>1, FS_Interval
<1>5. Cardinality(Nodes) \in Nat
  BY FS_CardinalityType, StaqueAssumption
<1> QED
  BY <1>1, <1>3, <1>4, <1>5

(* What reference counting keeps. *)
LEMMA KeptHas ==
  ASSUME NEW roots, NEW heap, NEW S \in SUBSET DOMAIN heap,
         \A n \in S : n \in roots \/ \E m \in S : n \in {heap[m].next, heap[m].prev}
  PROVE  S \subseteq Kept(roots, heap)
  BY DEF Kept

LEMMA KeptInHeap == ASSUME NEW roots, NEW heap PROVE Kept(roots, heap) \subseteq DOMAIN heap
  BY DEF Kept

LEMMA KeptForReason ==
  ASSUME NEW roots, NEW heap, NEW n \in Kept(roots, heap), n \notin roots
  PROVE  \E m \in Kept(roots, heap) : n \in {heap[m].next, heap[m].prev}
<1>1. PICK S \in SUBSET DOMAIN heap :
        /\ n \in S
        /\ \A x \in S : x \in roots \/ \E m \in S : x \in {heap[m].next, heap[m].prev}
  BY DEF Kept
<1>2. S \subseteq Kept(roots, heap)
  BY <1>1, KeptHas
<1> QED
  BY <1>1, <1>2

LEMMA ChainKept ==
  ASSUME NEW q \in Seq(Nodes), NEW s, NEW e, NEW heap, Linked(q, s, e, heap)
  PROVE  Cells(q) \subseteq Kept({s, e}, heap)
<1>1. Cells(q) \subseteq DOMAIN heap
  BY DEF Linked, Cells
<1>2. ASSUME NEW i \in 1..Len(q)
      PROVE  q[i] \in {s, e} \/ \E m \in Cells(q) : q[i] \in {heap[m].next, heap[m].prev}
  <2>1. CASE i = 1
    BY <2>1 DEF Linked, Link
  <2>2. CASE i # 1
    <3>1. i - 1 \in 1..Len(q) /\ (i - 1) + 1 = i
      BY <2>2
    <3>2. heap[q[i - 1]].next = q[i] /\ q[i - 1] \in Cells(q)
      BY <3>1 DEF Linked, Link, Cells
    <3> QED
      BY <3>2
  <2> QED
    BY <2>1, <2>2
<1>3. \A n \in Cells(q) : n \in {s, e} \/ \E m \in Cells(q) : n \in {heap[m].next, heap[m].prev}
  BY <1>2 DEF Cells
<1> HIDE DEF Cells
<1> QED
  BY <1>1, <1>3, KeptHas

(* A node beside the chain that nothing in it refers to is freed. *)
LEMMA OnlyChainKept ==
  ASSUME NEW q \in Seq(Nodes), NEW s, NEW e, NEW heap, Linked(q, s, e, heap),
         NEW x \in Nodes, x \notin Cells(q), DOMAIN heap \subseteq Cells(q) \cup {x},
         x \in DOMAIN heap => x \notin {heap[x].next, heap[x].prev}
  PROVE  Kept({s, e}, heap) = Cells(q)
<1>1. x # Null /\ \A i \in Int : Link(q, i) # x
  BY StaqueAssumption DEF Link, Cells
<1>2. x \notin {s, e} /\ \A m \in Cells(q) : x \notin {heap[m].next, heap[m].prev}
  <2>1. Len(q) \in Int
    OBVIOUS
  <2>2. x \notin {s, e}
    BY <1>1, <2>1 DEF Linked
  <2>3. ASSUME NEW i \in 1..Len(q) PROVE x \notin {heap[q[i]].next, heap[q[i]].prev}
    <3>1. i + 1 \in Int /\ i - 1 \in Int
      OBVIOUS
    <3> QED
      BY <1>1, <3>1 DEF Linked
  <2> QED
    BY <2>2, <2>3 DEF Cells
<1>3. x \notin Kept({s, e}, heap)
  <2> SUFFICES ASSUME x \in Kept({s, e}, heap) PROVE FALSE
    OBVIOUS
  <2>1. PICK m \in Kept({s, e}, heap) : x \in {heap[m].next, heap[m].prev}
    BY <1>2, KeptForReason
  <2>2. m \in Cells(q) \cup {x} /\ x \in DOMAIN heap
    BY KeptInHeap
  <2> QED
    BY <1>2, <2>1, <2>2
<1>4. Cells(q) \subseteq Kept({s, e}, heap)
  BY ChainKept
<1>5. Kept({s, e}, heap) \subseteq DOMAIN heap
  BY KeptInHeap
<1> HIDE DEF Cells
<1> QED
  BY <1>3, <1>4, <1>5

LEMMA AllKept ==
  ASSUME NEW q \in Seq(Nodes), NEW s, NEW e, NEW heap, Linked(q, s, e, heap),
         DOMAIN heap = Cells(q)
  PROVE  Kept({s, e}, heap) = Cells(q)
<1>1. Cells(q) \subseteq Kept({s, e}, heap)
  BY ChainKept
<1>2. Kept({s, e}, heap) \subseteq DOMAIN heap
  BY KeptInHeap
<1> HIDE DEF Cells
<1> QED
  BY <1>1, <1>2

-----------------------------------------------------------------------------
(* What every call leaves: a heap of nodes, and the chain it made of them. *)
Heap(heap) == DOMAIN heap \subseteq Nodes /\ heap \in [DOMAIN heap -> Records]

Agree(q, old, new) == \A i \in 1..Len(q) : new[q[i]] = old[q[i]]

Becomes(q) == TypeOK' /\ ChainOf(q, start', end', node', length', life')

LEMMA Ends ==
  ASSUME NEW q \in Seq(Nodes), NEW s, NEW e, NEW heap, Linked(q, s, e, heap)
  PROVE  /\ s \in Pointers /\ e \in Pointers
         /\ s = Null <=> q = << >>
         /\ e = Null <=> q = << >>
         /\ \A i \in 1..Len(q) : q[i] \in Nodes
         /\ q = << >> <=> Len(q) = 0
<1>1. \A i \in 1..Len(q) : q[i] \in Nodes
  BY ElementOfSeq
<1>2. Len(q) \in Nat /\ (q = << >> <=> Len(q) = 0)
  BY EmptySeq
<1> QED
  BY <1>1, <1>2, StaqueAssumption DEF Linked, Link, Pointers

LEMMA Relinked ==
  ASSUME NEW q \in Seq(Nodes), NEW s, NEW e, NEW heap,
         Linked(q, s, e, heap), Heap(heap), Relink(s, e, heap)
  PROVE  /\ start' = s /\ end' = e
         /\ Linked(q, start', end', node')
         /\ Heap(node')
         /\ DOMAIN node' = Kept({s, e}, heap)
         /\ Agree(q, heap, node')
<1> DEFINE kept == Kept({s, e}, heap)
<1>1. start' = s /\ end' = e /\ node' = [n \in kept |-> heap[n]]
  BY DEF Relink
<1>2. kept \subseteq DOMAIN heap
  BY KeptInHeap
<1>3. \A i \in 1..Len(q) : q[i] \in kept
  BY ChainKept DEF Cells
<1> HIDE DEF kept
<1>4. Heap(node')
  BY <1>1, <1>2 DEF Heap
<1>5. DOMAIN node' = kept /\ \A i \in 1..Len(q) : node'[q[i]] = heap[q[i]]
  BY <1>1, <1>3
<1>6. Linked(q, start', end', node')
  BY <1>1, <1>3, <1>5 DEF Linked
<1> QED
  BY <1>1, <1>4, <1>5, <1>6 DEF kept, Agree

(* A call that relinks heap, whose chain is q. *)
LEMMA RelinkBecomes ==
  ASSUME NEW q \in Seq(Nodes), NEW s, NEW e, NEW heap, Distinct(q),
         Linked(q, s, e, heap), Heap(heap), Relink(s, e, heap),
         life' = "fresh" => Kept({s, e}, heap) = Cells(q),
         q # << >> => length' = Len(q),
         length' \in 0..Cardinality(Nodes), ret' \in 0..Cardinality(Nodes),
         life' \in {"fresh", "cleared", "destroyed"},
         out' \in {<< >>} \cup {<<v>> : v \in Values}
  PROVE  Becomes(q)
<1>1. /\ Linked(q, start', end', node') /\ Heap(node')
      /\ DOMAIN node' = Kept({s, e}, heap)
  BY Relinked
<1>2. start' \in Pointers /\ end' \in Pointers
  BY <1>1, Ends
<1>3. TypeOK'
  BY <1>1, <1>2 DEF TypeOK, Heap, Records, alive
<1> QED
  BY <1>1, <1>3 DEF Becomes, ChainOf

LEMMA TypedHeap ==
  ASSUME TypeOK
  PROVE  /\ Heap(node) /\ alive = DOMAIN node
         /\ \A n \in alive : node[n] \in Records /\ node[n].value \in Values
  BY DEF TypeOK, Heap, Records, alive

-----------------------------------------------------------------------------
(* A node before the first of a chain, and one after its last. *)
LEMMA Prepended ==
  ASSUME NEW p \in Seq(Nodes), NEW n \in Nodes, Distinct(p), n \notin Cells(p)
  PROVE  LET q == <<n>> \o p IN
         /\ q \in Seq(Nodes) /\ Len(q) = Len(p) + 1 /\ q # << >>
         /\ q[1] = n /\ \A i \in 1..Len(p) : q[i + 1] = p[i]
         /\ \A i \in 2..Len(q) : i - 1 \in 1..Len(p) /\ q[i] = p[i - 1]
         /\ Cells(q) = Cells(p) \cup {n} /\ Distinct(q)
<1> DEFINE q == <<n>> \o p
<1>1. q \in Seq(Nodes) /\ Len(q) = Len(p) + 1 /\ Len(p) \in Nat /\ q # << >>
  OBVIOUS
<1>2. q[1] = n /\ \A i \in 1..Len(p) : q[i + 1] = p[i]
  OBVIOUS
<1>3. \A i \in 2..Len(q) : i - 1 \in 1..Len(p) /\ q[i] = p[i - 1]
  BY <1>1, <1>2
<1> HIDE DEF q
<1>4. Cells(q) = Cells(p) \cup {n}
  <2>1. \A i \in 1..Len(p) : i + 1 \in 1..Len(q)
    BY <1>1
  <2>2. \A i \in 1..Len(q) : i = 1 \/ i \in 2..Len(q)
    BY <1>1
  <2>3. 1 \in 1..Len(q)
    BY <1>1
  <2>4. \A i \in 1..Len(p) : p[i] \in Cells(q)
    BY <1>2, <2>1 DEF Cells
  <2>5. n \in Cells(q)
    BY <1>2, <2>3 DEF Cells
  <2>6. \A i \in 1..Len(q) : q[i] \in Cells(p) \cup {n}
    BY <1>2, <1>3, <2>2 DEF Cells
  <2> QED
    BY <2>4, <2>5, <2>6 DEF Cells
<1>5. Distinct(q)
  <2>1. \A i \in 1..Len(p) : p[i] # n
    BY DEF Cells
  <2>2. \A i \in 1..Len(q) : i = 1 \/ i \in 2..Len(q)
    BY <1>1
  <2> SUFFICES ASSUME NEW i \in 1..Len(q), NEW j \in 1..Len(q), q[i] = q[j] PROVE i = j
    BY DEF Distinct
  <2>3. (i = 1) <=> (j = 1)
    BY <1>2, <1>3, <2>1, <2>2
  <2>4. CASE i # 1
    BY <1>3, <2>2, <2>3, <2>4 DEF Distinct
  <2> QED
    BY <2>3, <2>4
<1> QED
  BY <1>1, <1>2, <1>3, <1>4, <1>5 DEF q

LEMMA Appended ==
  ASSUME NEW p \in Seq(Nodes), NEW n \in Nodes, Distinct(p), n \notin Cells(p)
  PROVE  LET q == Append(p, n) IN
         /\ q \in Seq(Nodes) /\ Len(q) = Len(p) + 1 /\ q # << >>
         /\ q[Len(q)] = n /\ \A i \in 1..Len(p) : q[i] = p[i]
         /\ Cells(q) = Cells(p) \cup {n} /\ Distinct(q)
<1> DEFINE q == Append(p, n)
<1>1. q \in Seq(Nodes) /\ Len(q) = Len(p) + 1 /\ Len(p) \in Nat /\ q # << >>
  OBVIOUS
<1>2. q[Len(q)] = n /\ \A i \in 1..Len(p) : q[i] = p[i]
  OBVIOUS
<1>3. \A i \in 1..Len(q) : i = Len(q) \/ i \in 1..Len(p)
  BY <1>1
<1> HIDE DEF q
<1>4. Len(q) \in 1..Len(q) /\ \A i \in 1..Len(p) : i \in 1..Len(q)
  BY <1>1
<1>5. Cells(q) = Cells(p) \cup {n}
  BY <1>2, <1>3, <1>4 DEF Cells
<1>6. Distinct(q)
  BY <1>2, <1>3 DEF Distinct, Cells
<1> QED
  BY <1>1, <1>2, <1>5, <1>6 DEF q

LEMMA OneLinked ==
  ASSUME NEW n \in Nodes, NEW heap, n \in DOMAIN heap,
         heap[n].next = Null, heap[n].prev = Null
  PROVE  /\ Linked(<<n>>, n, n, heap) /\ Distinct(<<n>>) /\ Cells(<<n>>) = {n}
         /\ <<n>> \in Seq(Nodes) /\ Len(<<n>>) = 1 /\ <<n>> # << >>
  BY DEF Linked, Link, Distinct, Cells

(* The new node's fields, and the rest of the heap. *)
IsMade(made, n, v, next, prev, heap) ==
  /\ Heap(made) /\ DOMAIN made = DOMAIN heap \cup {n}
  /\ made[n].value = v /\ made[n].next = next /\ made[n].prev = prev
  /\ \A m \in DOMAIN heap : made[m] = heap[m]

LEMMA MadeIs ==
  ASSUME NEW n \in Nodes, NEW v \in Values, NEW next \in Pointers,
         NEW prev \in Pointers, NEW heap, Heap(heap), n \notin DOMAIN heap
  PROVE  IsMade(Made(n, v, next, prev, heap), n, v, next, prev, heap)
  BY DEF IsMade, Made, Heap, Records

(* A heap in which one pointer of m was set to p. *)
SetPrev(heap, m, p) == [heap EXCEPT ![m].prev = p]
SetNext(heap, m, p) == [heap EXCEPT ![m].next = p]

IsPrevSet(set, heap, m, p) ==
  /\ Heap(set) /\ DOMAIN set = DOMAIN heap
  /\ \A x \in DOMAIN heap :
       /\ set[x].value = heap[x].value /\ set[x].next = heap[x].next
       /\ set[x].prev = IF x = m THEN p ELSE heap[x].prev

IsNextSet(set, heap, m, p) ==
  /\ Heap(set) /\ DOMAIN set = DOMAIN heap
  /\ \A x \in DOMAIN heap :
       /\ set[x].value = heap[x].value /\ set[x].prev = heap[x].prev
       /\ set[x].next = IF x = m THEN p ELSE heap[x].next

LEMMA PointerSet ==
  ASSUME NEW heap, Heap(heap), NEW m \in DOMAIN heap, NEW p \in Pointers
  PROVE  /\ IsPrevSet(SetPrev(heap, m, p), heap, m, p)
         /\ IsNextSet(SetNext(heap, m, p), heap, m, p)
<1>1. \A x \in DOMAIN heap : heap[x] \in Records
  BY DEF Heap
<1>2. IsPrevSet(SetPrev(heap, m, p), heap, m, p)
  BY <1>1 DEF Heap, Records, IsPrevSet, SetPrev
<1>3. IsNextSet(SetNext(heap, m, p), heap, m, p)
  BY <1>1 DEF Heap, Records, IsNextSet, SetNext
<1> QED
  BY <1>2, <1>3

-----------------------------------------------------------------------------
(* Push and Enqueue put a fresh node at their end of the chain. *)
LEMMA PushBecomes ==
  ASSUME IInv, NEW p, Chained(p), NEW v \in Values, NEW n \in Nodes, Push(v, n)
  PROVE  /\ Becomes(<<n>> \o p)
         /\ node'[n].value = v
         /\ \A i \in 1..Len(p) : node'[p[i]].value = node[p[i]].value
<1> DEFINE q == <<n>> \o p
<1>1. /\ p \in Seq(Nodes) /\ Distinct(p) /\ Linked(p, start, end, node)
      /\ (p # << >> => length = Len(p)) /\ (life = "fresh" => alive = Cells(p))
      /\ TypeOK /\ Len(p) \in Nat /\ (p = << >> <=> Len(p) = 0)
  BY EmptySeq DEF Chained, ChainOf, IInv, alive
<1>2. n \notin alive /\ n \notin Cells(p) /\ Heap(node) /\ alive = DOMAIN node
  BY <1>1, TypedHeap DEF Push, Linked, Cells
<1>3. /\ q \in Seq(Nodes) /\ Len(q) = Len(p) + 1 /\ q # << >>
      /\ q[1] = n /\ \A i \in 1..Len(p) : q[i + 1] = p[i]
      /\ \A i \in 2..Len(q) : i - 1 \in 1..Len(p) /\ q[i] = p[i - 1]
      /\ Cells(q) = Cells(p) \cup {n} /\ Distinct(q)
  BY <1>1, <1>2, Prepended
<1> HIDE DEF q
<1>4. /\ start \in Pointers /\ end \in Pointers
      /\ start = Null <=> p = << >>
      /\ \A i \in 1..Len(p) : p[i] \in Nodes /\ p[i] # n
  BY <1>1, <1>2, Ends DEF Cells
<1>5. /\ Len(q) \in 0..Cardinality(Nodes) /\ 1 \in 0..Cardinality(Nodes)
  BY <1>1, <1>3, ChainFits
<1>6. /\ life' = life /\ life \in {"fresh", "cleared", "destroyed"}
      /\ out' = << >> /\ ret' = 1
  BY <1>1 DEF Push, TypeOK
<1>7. ASSUME NEW s, NEW e, NEW heap, Linked(q, s, e, heap), Heap(heap), Relink(s, e, heap),
             DOMAIN heap = alive \cup {n}, length' = Len(q), heap[n].value = v,
             \A i \in 1..Len(p) : heap[p[i]].value = node[p[i]].value
      PROVE  /\ Becomes(q)
             /\ node'[n].value = v
             /\ \A i \in 1..Len(p) : node'[p[i]].value = node[p[i]].value
  <2>1. q \in Seq(Nodes) /\ Distinct(q) /\ Linked(q, s, e, heap) /\ Heap(heap) /\ Relink(s, e, heap)
    BY <1>3, <1>7
  <2>2. ASSUME life' = "fresh" PROVE Kept({s, e}, heap) = Cells(q)
    <3>1. DOMAIN heap = Cells(q)
      BY <1>1, <1>3, <1>6, <1>7, <2>2
    <3> QED
      BY <2>1, <3>1, AllKept
  <2>3. Becomes(q)
    <3>1. out' \in {<< >>} \cup {<<x>> : x \in Values} /\ ret' \in 0..Cardinality(Nodes)
      BY <1>5, <1>6
    <3>2. length' = Len(q) /\ length' \in 0..Cardinality(Nodes)
      BY <1>5, <1>7
    <3>3. life' \in {"fresh", "cleared", "destroyed"}
      BY <1>6
    <3> QED
      BY <2>1, <2>2, <3>1, <3>2, <3>3, RelinkBecomes
  <2>4. \A i \in 1..Len(q) : node'[q[i]] = heap[q[i]]
    <3>1. Agree(q, heap, node')
      BY <2>1, Relinked
    <3> QED
      BY <3>1 DEF Agree
  <2>5. 1 \in 1..Len(q) /\ \A i \in 1..Len(p) : i + 1 \in 1..Len(q)
    BY <1>1, <1>3
  <2>6. node'[n].value = v
    <3>1. node'[q[1]] = heap[q[1]] /\ q[1] = n
      BY <1>3, <2>4, <2>5
    <3> QED
      BY <1>7, <3>1
  <2>7. ASSUME NEW i \in 1..Len(p) PROVE node'[p[i]].value = node[p[i]].value
    <3>1. node'[q[i + 1]] = heap[q[i + 1]] /\ q[i + 1] = p[i]
      BY <1>3, <2>4, <2>5
    <3> QED
      BY <1>7, <3>1
  <2> QED
    BY <2>3, <2>6, <2>7
<1>8. CASE start = Null
  <2> DEFINE heap == Made(n, v, Null, Null, node)
  <2>1. /\ Heap(heap) /\ DOMAIN heap = alive \cup {n}
        /\ heap[n].value = v /\ heap[n].next = Null /\ heap[n].prev = Null
    <3>1. Null \in Pointers
      BY DEF Pointers
    <3>2. IsMade(heap, n, v, Null, Null, node)
      BY <1>2, <3>1, MadeIs
    <3> QED
      BY <1>2, <3>2 DEF IsMade
  <2>2. Relink(n, n, heap) /\ length' = 1
    BY <1>8 DEF Push
  <2> HIDE DEF heap
  <2>3. q = <<n>> /\ p = << >> /\ Len(p) = 0 /\ Len(q) = 1
    BY <1>1, <1>3, <1>4, <1>8 DEF q
  <2>4. Linked(q, n, n, heap)
    BY <2>1, <2>3, OneLinked
  <2> QED
    BY <1>7, <2>1, <2>2, <2>3, <2>4 DEF q
<1>9. CASE start # Null
  <2> DEFINE set == SetPrev(node, start, n)
             heap == Made(n, v, start, Null, set)
  <2>1. 1 \in 1..Len(p) /\ start = p[1] /\ start \in DOMAIN node /\ length = Len(p)
    BY <1>1, <1>4, <1>9 DEF Linked, Link
  <2>2. /\ Heap(set) /\ DOMAIN set = alive
        /\ \A x \in alive : /\ set[x].value = node[x].value /\ set[x].next = node[x].next
                            /\ set[x].prev = IF x = start THEN n ELSE node[x].prev
    <3>1. n \in Pointers
      BY DEF Pointers
    <3>2. IsPrevSet(set, node, start, n)
      BY <1>2, <2>1, <3>1, PointerSet
    <3> QED
      BY <1>2, <3>2 DEF IsPrevSet
  <2>3. Relink(n, end, heap) /\ length' = length + 1
    BY <1>9 DEF Push, SetPrev
  <2> HIDE DEF set
  <2>4. /\ Heap(heap) /\ DOMAIN heap = alive \cup {n}
        /\ heap[n].value = v /\ heap[n].next = start /\ heap[n].prev = Null
        /\ \A m \in alive : heap[m] = set[m]
    <3>1. Null \in Pointers
      BY DEF Pointers
    <3>2. IsMade(heap, n, v, start, Null, set)
      BY <1>2, <1>4, <2>2, <3>1, MadeIs
    <3> QED
      BY <2>2, <3>2 DEF IsMade
  <2> HIDE DEF heap
  <2>5. ASSUME NEW i \in 1..Len(p)
        PROVE  /\ p[i] \in DOMAIN heap /\ heap[p[i]].value = node[p[i]].value
               /\ heap[p[i]].next = Link(p, i + 1)
               /\ heap[p[i]].prev = IF i = 1 THEN n ELSE Link(p, i - 1)
    <3>1. /\ p[i] \in alive /\ node[p[i]].next = Link(p, i + 1)
          /\ node[p[i]].prev = Link(p, i - 1)
      BY <1>1, <1>2 DEF Linked
    <3>2. p[i] = start <=> i = 1
      BY <1>1, <2>1 DEF Distinct
    <3> QED
      BY <2>2, <2>4, <3>1, <3>2
  <2>6. \A i \in 0..(Len(p) + 1) : Link(q, i + 1) = IF i = 0 THEN n ELSE Link(p, i)
    <3> SUFFICES ASSUME NEW i \in 0..(Len(p) + 1)
                 PROVE  Link(q, i + 1) = IF i = 0 THEN n ELSE Link(p, i)
      OBVIOUS
    <3>1. CASE i = 0
      BY <1>1, <1>3, <3>1 DEF Link
    <3>2. CASE i \in 1..Len(p)
      BY <1>1, <1>3, <3>2 DEF Link
    <3>3. CASE i = Len(p) + 1
      BY <1>1, <1>3, <3>3 DEF Link
    <3> QED
      BY <1>1, <3>1, <3>2, <3>3
  <2>7. Linked(q, n, end, heap)
    <3>1. n = Link(q, 1)
      BY <1>1, <1>3 DEF Link
    <3>2. end = Link(q, Len(q))
      BY <1>1, <1>3, <2>1, <2>6 DEF Linked
    <3>3. ASSUME NEW i \in 1..Len(q)
          PROVE  /\ q[i] \in DOMAIN heap
                 /\ heap[q[i]].next = Link(q, i + 1)
                 /\ heap[q[i]].prev = Link(q, i - 1)
      <4>1. CASE i = 1
        <5>1. Link(q, 1 + 1) = start /\ Link(q, 0) = Null
          BY <1>1, <1>3, <2>1 DEF Link
        <5> QED
          BY <1>3, <2>4, <4>1, <5>1
      <4>2. CASE i # 1
        <5>1. PICK j \in 1..Len(p) : i = j + 1 /\ q[i] = p[j]
          BY <1>3, <4>2
        <5>2. /\ Link(q, i + 1) = Link(p, j + 1)
              /\ Link(q, i - 1) = IF j = 1 THEN n ELSE Link(p, j - 1)
          BY <1>1, <2>6, <5>1
        <5> QED
          BY <2>5, <5>1, <5>2
      <4> QED
        BY <4>1, <4>2
    <3> QED
      BY <3>1, <3>2, <3>3 DEF Linked
  <2>8. length' = Len(q)
    BY <1>3, <2>1, <2>3
  <2> QED
    BY <1>7, <2>3, <2>4, <2>5, <2>7, <2>8 DEF q
<1> QED
  BY <1>8, <1>9

LEMMA EnqueueBecomes ==
  ASSUME IInv, NEW p, Chained(p), NEW v \in Values, NEW n \in Nodes, Enqueue(v, n)
  PROVE  /\ Becomes(Append(p, n))
         /\ node'[n].value = v
         /\ \A i \in 1..Len(p) : node'[p[i]].value = node[p[i]].value
<1> DEFINE q == Append(p, n)
<1>1. /\ p \in Seq(Nodes) /\ Distinct(p) /\ Linked(p, start, end, node)
      /\ (p # << >> => length = Len(p)) /\ (life = "fresh" => alive = Cells(p))
      /\ TypeOK /\ Len(p) \in Nat /\ (p = << >> <=> Len(p) = 0)
  BY EmptySeq DEF Chained, ChainOf, IInv, alive
<1>2. n \notin alive /\ n \notin Cells(p) /\ Heap(node) /\ alive = DOMAIN node
  BY <1>1, TypedHeap DEF Enqueue, Linked, Cells
<1>3. /\ q \in Seq(Nodes) /\ Len(q) = Len(p) + 1 /\ q # << >>
      /\ q[Len(q)] = n /\ \A i \in 1..Len(p) : q[i] = p[i]
      /\ Cells(q) = Cells(p) \cup {n} /\ Distinct(q)
  BY <1>1, <1>2, Appended
<1> HIDE DEF q
<1>4. /\ start \in Pointers /\ end \in Pointers
      /\ end = Null <=> p = << >>
      /\ \A i \in 1..Len(p) : p[i] \in Nodes /\ p[i] # n
  BY <1>1, <1>2, Ends DEF Cells
<1>5. /\ Len(q) \in 0..Cardinality(Nodes) /\ 1 \in 0..Cardinality(Nodes)
  BY <1>1, <1>3, ChainFits
<1>6. /\ life' = life /\ life \in {"fresh", "cleared", "destroyed"}
      /\ out' = << >> /\ ret' = 1
  BY <1>1 DEF Enqueue, TypeOK
<1>7. ASSUME NEW s, NEW e, NEW heap, Linked(q, s, e, heap), Heap(heap), Relink(s, e, heap),
             DOMAIN heap = alive \cup {n}, length' = Len(q), heap[n].value = v,
             \A i \in 1..Len(p) : heap[p[i]].value = node[p[i]].value
      PROVE  /\ Becomes(q)
             /\ node'[n].value = v
             /\ \A i \in 1..Len(p) : node'[p[i]].value = node[p[i]].value
  <2>1. q \in Seq(Nodes) /\ Distinct(q) /\ Linked(q, s, e, heap) /\ Heap(heap) /\ Relink(s, e, heap)
    BY <1>3, <1>7
  <2>2. ASSUME life' = "fresh" PROVE Kept({s, e}, heap) = Cells(q)
    <3>1. DOMAIN heap = Cells(q)
      BY <1>1, <1>3, <1>6, <1>7, <2>2
    <3> QED
      BY <2>1, <3>1, AllKept
  <2>3. Becomes(q)
    <3>1. out' \in {<< >>} \cup {<<x>> : x \in Values} /\ ret' \in 0..Cardinality(Nodes)
      BY <1>5, <1>6
    <3>2. length' = Len(q) /\ length' \in 0..Cardinality(Nodes)
      BY <1>5, <1>7
    <3>3. life' \in {"fresh", "cleared", "destroyed"}
      BY <1>6
    <3> QED
      BY <2>1, <2>2, <3>1, <3>2, <3>3, RelinkBecomes
  <2>4. \A i \in 1..Len(q) : node'[q[i]] = heap[q[i]]
    <3>1. Agree(q, heap, node')
      BY <2>1, Relinked
    <3> QED
      BY <3>1 DEF Agree
  <2>5. Len(q) \in 1..Len(q) /\ \A i \in 1..Len(p) : i \in 1..Len(q)
    BY <1>1, <1>3
  <2>6. node'[n].value = v
    <3>1. node'[q[Len(q)]] = heap[q[Len(q)]] /\ q[Len(q)] = n
      BY <1>3, <2>4, <2>5
    <3> QED
      BY <1>7, <3>1
  <2>7. ASSUME NEW i \in 1..Len(p) PROVE node'[p[i]].value = node[p[i]].value
    <3>1. node'[q[i]] = heap[q[i]] /\ q[i] = p[i]
      BY <1>3, <2>4, <2>5
    <3> QED
      BY <1>7, <3>1
  <2> QED
    BY <2>3, <2>6, <2>7
<1>8. CASE end = Null
  <2> DEFINE heap == Made(n, v, Null, Null, node)
  <2>1. /\ Heap(heap) /\ DOMAIN heap = alive \cup {n}
        /\ heap[n].value = v /\ heap[n].next = Null /\ heap[n].prev = Null
    <3>1. Null \in Pointers
      BY DEF Pointers
    <3>2. IsMade(heap, n, v, Null, Null, node)
      BY <1>2, <3>1, MadeIs
    <3> QED
      BY <1>2, <3>2 DEF IsMade
  <2>2. Relink(n, n, heap) /\ length' = 1
    BY <1>8 DEF Enqueue
  <2> HIDE DEF heap
  <2>3. q = <<n>> /\ p = << >> /\ Len(p) = 0 /\ Len(q) = 1
    BY <1>1, <1>3, <1>4, <1>8 DEF q
  <2>4. Linked(q, n, n, heap)
    BY <2>1, <2>3, OneLinked
  <2> QED
    BY <1>7, <2>1, <2>2, <2>3, <2>4 DEF q
<1>9. CASE end # Null
  <2> DEFINE set == SetNext(node, end, n)
             heap == Made(n, v, Null, end, set)
             l == Len(p)
  <2>1. l \in 1..l /\ end = p[l] /\ end \in DOMAIN node /\ length = l
    BY <1>1, <1>4, <1>9 DEF Linked, Link
  <2>2. /\ Heap(set) /\ DOMAIN set = alive
        /\ \A x \in alive : /\ set[x].value = node[x].value /\ set[x].prev = node[x].prev
                            /\ set[x].next = IF x = end THEN n ELSE node[x].next
    <3>1. n \in Pointers
      BY DEF Pointers
    <3>2. IsNextSet(set, node, end, n)
      BY <1>2, <2>1, <3>1, PointerSet
    <3> QED
      BY <1>2, <3>2 DEF IsNextSet
  <2>3. Relink(start, n, heap) /\ length' = length + 1
    BY <1>9 DEF Enqueue, SetNext
  <2> HIDE DEF set
  <2>4. /\ Heap(heap) /\ DOMAIN heap = alive \cup {n}
        /\ heap[n].value = v /\ heap[n].next = Null /\ heap[n].prev = end
        /\ \A m \in alive : heap[m] = set[m]
    <3>1. Null \in Pointers
      BY DEF Pointers
    <3>2. IsMade(heap, n, v, Null, end, set)
      BY <1>2, <1>4, <2>2, <3>1, MadeIs
    <3> QED
      BY <2>2, <3>2 DEF IsMade
  <2> HIDE DEF heap
  <2>5. ASSUME NEW i \in 1..l
        PROVE  /\ p[i] \in DOMAIN heap /\ heap[p[i]].value = node[p[i]].value
               /\ heap[p[i]].prev = Link(p, i - 1)
               /\ heap[p[i]].next = IF i = l THEN n ELSE Link(p, i + 1)
    <3>1. /\ p[i] \in alive /\ node[p[i]].next = Link(p, i + 1)
          /\ node[p[i]].prev = Link(p, i - 1)
      BY <1>1, <1>2 DEF Linked
    <3>2. p[i] = end <=> i = l
      BY <1>1, <2>1 DEF Distinct
    <3> QED
      BY <2>2, <2>4, <3>1, <3>2
  <2>6. \A i \in 0..l : Link(q, i) = Link(p, i)
    BY <1>1, <1>3 DEF Link
  <2>7. Link(q, l + 1) = n /\ Link(q, l + 2) = Null /\ Link(q, l) = end /\ Link(q, 1) = start
    <3>1. Link(q, l + 1) = n /\ Link(q, l + 2) = Null
      BY <1>1, <1>3 DEF Link
    <3>2. Link(p, l) = end /\ Link(p, 1) = start /\ 1 \in 0..l /\ l \in 0..l
      BY <1>1, <2>1 DEF Linked
    <3> QED
      BY <2>6, <3>1, <3>2
  <2>8. Linked(q, start, n, heap)
    <3>1. ASSUME NEW i \in 1..Len(q)
          PROVE  /\ q[i] \in DOMAIN heap
                 /\ heap[q[i]].next = Link(q, i + 1)
                 /\ heap[q[i]].prev = Link(q, i - 1)
      <4>1. CASE i = l + 1
        <5>1. q[i] = n /\ i + 1 = l + 2 /\ i - 1 = l
          BY <1>1, <1>3, <4>1
        <5> QED
          BY <2>4, <2>7, <5>1
      <4>2. CASE i # l + 1
        <5>1. i \in 1..l /\ q[i] = p[i] /\ i - 1 \in 0..l /\ (i # l => i + 1 \in 0..l)
          BY <1>1, <1>3, <4>2
        <5>2. /\ Link(q, i - 1) = Link(p, i - 1)
              /\ Link(q, i + 1) = IF i = l THEN n ELSE Link(p, i + 1)
          BY <2>6, <2>7, <5>1
        <5> QED
          BY <2>5, <5>1, <5>2
      <4> QED
        BY <4>1, <4>2
    <3>2. Len(q) = l + 1
      BY <1>3
    <3> QED
      BY <2>7, <3>1, <3>2 DEF Linked
  <2>9. length' = Len(q)
    BY <1>3, <2>1, <2>3
  <2> QED
    BY <1>7, <2>3, <2>4, <2>5, <2>8, <2>9 DEF q
<1> QED
  BY <1>8, <1>9

-----------------------------------------------------------------------------
(* The rest of a chain, and what Pop and Clear leave. *)
LEMMA Rest ==
  ASSUME NEW p \in Seq(Nodes), p # << >>, Distinct(p)
  PROVE  LET q == Tail(p) IN
         /\ q \in Seq(Nodes) /\ Len(q) = Len(p) - 1
         /\ \A i \in 1..Len(q) : q[i] = p[i + 1] /\ i + 1 \in 1..Len(p)
         /\ Distinct(q) /\ p[1] \notin Cells(q) /\ Cells(p) = Cells(q) \cup {p[1]}
<1> DEFINE q == Tail(p)
<1>1. q \in Seq(Nodes) /\ Len(q) = Len(p) - 1 /\ Len(p) \in Nat /\ Len(p) > 0
  BY EmptySeq
<1>2. \A i \in 1..Len(q) : q[i] = p[i + 1]
  OBVIOUS
<1>3. \A i \in 1..Len(q) : i \in Int /\ i + 1 \in 1..Len(p) /\ i + 1 # 1
  BY <1>1
<1> HIDE DEF q
<1>4. \A i \in 1..Len(p) : i = 1 \/ (i - 1 \in 1..Len(q) /\ (i - 1) + 1 = i)
  BY <1>1
<1>5. Distinct(q)
  <2> SUFFICES ASSUME NEW i \in 1..Len(q), NEW j \in 1..Len(q), q[i] = q[j] PROVE i = j
    BY DEF Distinct
  <2>1. i + 1 = j + 1
    BY <1>2, <1>3 DEF Distinct
  <2> QED
    BY <1>3, <2>1
<1>6. 1 \in 1..Len(p)
  BY <1>1
<1>7. p[1] \notin Cells(q)
  BY <1>2, <1>3, <1>6 DEF Distinct, Cells
<1>8. \A i \in 1..Len(p) : p[i] \in Cells(q) \cup {p[1]}
  <2> SUFFICES ASSUME NEW i \in 1..Len(p), i # 1 PROVE p[i] \in Cells(q)
    OBVIOUS
  <2>1. i - 1 \in 1..Len(q) /\ q[i - 1] = p[i]
    BY <1>2, <1>4
  <2> QED
    BY <2>1 DEF Cells
<1>9. \A i \in 1..Len(q) : q[i] \in Cells(p)
  BY <1>2, <1>3 DEF Cells
<1>10. Cells(p) = Cells(q) \cup {p[1]}
  BY <1>6, <1>8, <1>9 DEF Cells
<1> QED
  BY <1>1, <1>2, <1>3, <1>5, <1>7, <1>10 DEF q

LEMMA NoneLinked ==
  ASSUME NEW heap
  PROVE  /\ Linked(<< >>, Null, Null, heap) /\ Distinct(<< >>) /\ Cells(<< >>) = {}
         /\ << >> \in Seq(Nodes) /\ Len(<< >>) = 0
  BY DEF Linked, Link, Distinct, Cells

LEMMA EmptiedBecomes ==
  ASSUME IInv, NEW p, Chained(p), Relink(Null, Null, node), life' \in {"cleared", "destroyed"},
         out' = << >>, ret' = 0, length' = length
  PROVE  Becomes(<< >>)
<1>1. TypeOK /\ Heap(node) /\ length' \in 0..Cardinality(Nodes)
  BY TypedHeap DEF IInv, TypeOK
<1>2. 0 \in 0..Cardinality(Nodes)
  BY ChainFits, NoneLinked
<1> DEFINE q == << >>
           null == Null
<1>3. /\ q \in Seq(Nodes) /\ Distinct(q) /\ Linked(q, null, null, node) /\ q = << >>
  BY NoneLinked
<1>4. out' \in {<< >>} \cup {<<v>> : v \in Values}
  OBVIOUS
<1>5. life' # "fresh" /\ life' \in {"fresh", "cleared", "destroyed"} /\ Relink(null, null, node)
  OBVIOUS
<1> HIDE DEF q, null
<1>6. Becomes(q)
  BY <1>1, <1>2, <1>3, <1>4, <1>5, RelinkBecomes
<1> QED
  BY <1>6 DEF q

LEMMA PopBecomes ==
  ASSUME IInv, NEW p, Chained(p), Pop, p # << >>
  PROVE  /\ Becomes(Tail(p))
         /\ \A i \in 1..(Len(p) - 1) : node'[p[i + 1]].value = node[p[i + 1]].value
<1> DEFINE q == Tail(p)
           x == p[1]
           second == node[start].next
<1>1. /\ p \in Seq(Nodes) /\ Distinct(p) /\ Linked(p, start, end, node)
      /\ length = Len(p) /\ (life = "fresh" => alive = Cells(p))
      /\ TypeOK /\ Len(p) \in Nat /\ Len(p) > 0
  BY EmptySeq DEF Chained, ChainOf, IInv, alive
<1>2. Heap(node) /\ alive = DOMAIN node
  BY <1>1, TypedHeap
<1>3. /\ q \in Seq(Nodes) /\ Len(q) = Len(p) - 1
      /\ \A i \in 1..Len(q) : q[i] = p[i + 1] /\ i + 1 \in 1..Len(p)
      /\ Distinct(q) /\ x \notin Cells(q) /\ Cells(p) = Cells(q) \cup {x}
  BY <1>1, Rest
<1>4. /\ start = x /\ x \in alive /\ x \in Nodes /\ start # Null
      /\ second = Link(p, 2) /\ node[x].prev = Null
      /\ \A i \in 1..Len(p) : p[i] \in Nodes /\ p[i] \in alive
  <2>1. 1 \in 1..Len(p) /\ Link(p, 1) = x /\ Link(p, 0) = Null
    BY <1>1 DEF Link
  <2>2. \A i \in 1..Len(p) : p[i] \in Nodes
    BY <1>1, Ends
  <2> QED
    BY <1>1, <1>2, <2>1, <2>2, StaqueAssumption DEF Linked
<1>5. /\ Len(q) \in 0..Cardinality(Nodes) /\ 1 \in 0..Cardinality(Nodes)
  BY <1>1, <1>3, ChainFits
<1>6. /\ life' = life /\ life \in {"fresh", "cleared", "destroyed"}
      /\ out' \in {<< >>} \cup {<<v>> : v \in Values} /\ ret' = 1 /\ length' = Len(q)
  <2>1. out' = <<node[start].value>> /\ ret' = 1 /\ life' = life /\ length' = length - 1
    BY <1>4 DEF Pop
  <2>2. node[start].value \in Values
    BY <1>1, <1>4, TypedHeap
  <2>3. life \in {"fresh", "cleared", "destroyed"}
    BY <1>1 DEF TypeOK
  <2> QED
    BY <1>1, <1>3, <2>1, <2>2, <2>3
<1> HIDE DEF q, x
<1>7. ASSUME NEW s, NEW e, NEW heap, Linked(q, s, e, heap), Heap(heap), Relink(s, e, heap),
             DOMAIN heap = alive, x \notin {heap[x].next, heap[x].prev},
             \A i \in 1..Len(q) : heap[q[i]].value = node[q[i]].value
      PROVE  /\ Becomes(q)
             /\ \A i \in 1..Len(q) : node'[q[i]].value = node[q[i]].value
  <2>1. q \in Seq(Nodes) /\ Distinct(q) /\ Linked(q, s, e, heap) /\ Heap(heap) /\ Relink(s, e, heap)
    BY <1>3, <1>7
  <2>2. ASSUME life' = "fresh" PROVE Kept({s, e}, heap) = Cells(q)
    <3>1. DOMAIN heap \subseteq Cells(q) \cup {x} /\ x \notin Cells(q) /\ x \in Nodes
      BY <1>1, <1>3, <1>4, <1>6, <1>7, <2>2
    <3>2. x \in DOMAIN heap => x \notin {heap[x].next, heap[x].prev}
      BY <1>7
    <3> QED
      BY <2>1, <3>1, <3>2, OnlyChainKept
  <2>3. Becomes(q)
    <3>1. out' \in {<< >>} \cup {<<v>> : v \in Values} /\ ret' \in 0..Cardinality(Nodes)
      BY <1>5, <1>6
    <3>2. length' = Len(q) /\ length' \in 0..Cardinality(Nodes)
      BY <1>5, <1>6
    <3>3. life' \in {"fresh", "cleared", "destroyed"}
      BY <1>6
    <3> QED
      BY <2>1, <2>2, <3>1, <3>2, <3>3, RelinkBecomes
  <2>4. Agree(q, heap, node')
    BY <2>1, Relinked
  <2>5. \A i \in 1..Len(q) : node'[q[i]].value = node[q[i]].value
    BY <1>7, <2>4 DEF Agree
  <2> QED
    BY <2>3, <2>5
<1>8. CASE second = Null
  <2>1. Len(p) = 1
    <3>1. ~(2 \in 1..Len(p))
      BY <1>4, <1>8, StaqueAssumption DEF Link
    <3> QED
      BY <1>1, <3>1
  <2>2. q = << >> /\ Len(q) = 0
    BY <1>1, <1>3, <2>1, EmptySeq
  <2>3. Relink(Null, Null, node)
    BY <1>4, <1>8 DEF Pop
  <2>4. Linked(q, Null, Null, node)
    BY <2>2, NoneLinked
  <2>5. x \notin {node[x].next, node[x].prev}
    BY <1>4, <1>8
  <2>6. \A i \in 1..Len(q) : node[q[i]].value = node[q[i]].value
    OBVIOUS
  <2>7. Becomes(q)
    BY <1>2, <1>7, <2>3, <2>4, <2>5
  <2>8. 1..(Len(p) - 1) = {}
    BY <2>1
  <2> QED
    BY <2>7, <2>8 DEF q
<1>9. CASE second # Null
  <2> DEFINE heap == SetPrev(node, second, Null)
             null == Null
  <2>1. 2 \in 1..Len(p) /\ second = p[2] /\ second \in alive /\ 1 \in 1..Len(q) /\ second = q[1]
    <3>1. 2 \in 1..Len(p) /\ second = p[2]
      BY <1>4, <1>9 DEF Link
    <3>2. 1 \in 1..Len(q)
      BY <1>1, <1>3, <3>1
    <3> QED
      BY <1>3, <1>4, <3>1, <3>2
  <2>2. /\ Heap(heap) /\ DOMAIN heap = alive
        /\ \A y \in alive : /\ heap[y].value = node[y].value /\ heap[y].next = node[y].next
                            /\ heap[y].prev = IF y = second THEN Null ELSE node[y].prev
    <3>1. Null \in Pointers
      BY DEF Pointers
    <3>2. IsPrevSet(heap, node, second, Null)
      BY <1>2, <2>1, <3>1, PointerSet
    <3> QED
      BY <1>2, <3>2 DEF IsPrevSet
  <2>3. Relink(second, end, heap)
    BY <1>4, <1>9 DEF Pop, SetPrev
  <2> HIDE DEF heap, second
  <2>4. \A i \in 1..(Len(q) + 1) : Link(q, i) = Link(p, i + 1)
    BY <1>1, <1>3 DEF Link
  <2>5. Linked(q, second, end, heap)
    <3>1. second = Link(q, 1)
      BY <2>1 DEF Link
    <3>2. end = Link(q, Len(q))
      <4>1. Len(q) \in 1..(Len(q) + 1) /\ Len(q) + 1 = Len(p)
        BY <1>1, <1>3, <2>1
      <4> QED
        BY <1>1, <2>4, <4>1 DEF Linked
    <3>3. ASSUME NEW i \in 1..Len(q)
          PROVE  /\ q[i] \in DOMAIN heap
                 /\ heap[q[i]].next = Link(q, i + 1)
                 /\ heap[q[i]].prev = Link(q, i - 1)
      <4>1. q[i] = p[i + 1] /\ i + 1 \in 1..Len(p) /\ (i + 1) - 1 = i
        BY <1>3
      <4>2. /\ q[i] \in alive /\ node[q[i]].next = Link(p, (i + 1) + 1)
            /\ node[q[i]].prev = Link(p, i)
        BY <1>1, <1>2, <4>1 DEF Linked
      <4>3. i + 1 \in 1..(Len(q) + 1) /\ (i # 1 => i - 1 \in 1..(Len(q) + 1) /\ (i - 1) + 1 = i)
        BY <1>1, <1>3
      <4>4. q[i] = second <=> i = 1
        BY <1>3, <2>1 DEF Distinct
      <4>5. heap[q[i]].next = Link(q, i + 1)
        BY <2>2, <2>4, <4>2, <4>3
      <4>6. CASE i = 1
        <5>1. Link(q, i - 1) = Null
          BY <4>6 DEF Link
        <5> QED
          BY <2>2, <4>2, <4>4, <4>5, <4>6, <5>1
      <4>7. CASE i # 1
        <5>1. Link(q, i - 1) = Link(p, i)
          BY <2>4, <4>3, <4>7
        <5> QED
          BY <2>2, <4>2, <4>4, <4>5, <4>7, <5>1
      <4> QED
        BY <4>6, <4>7
    <3> QED
      BY <3>1, <3>2, <3>3 DEF Linked
  <2>6. x # second /\ x \notin {heap[x].next, heap[x].prev}
    <3>1. x # second
      BY <1>3, <2>1 DEF Cells
    <3>2. node[x].next = second
      BY <1>4 DEF second
    <3> QED
      BY <1>4, <2>2, <3>1, <3>2, StaqueAssumption
  <2>7. \A i \in 1..Len(q) : heap[q[i]].value = node[q[i]].value
    BY <1>3, <1>4, <2>2
  <2>8. Becomes(q) /\ \A i \in 1..Len(q) : node'[q[i]].value = node[q[i]].value
    BY <1>7, <2>2, <2>3, <2>5, <2>6, <2>7
  <2> QED
    BY <1>3, <2>8 DEF q
<1> QED
  BY <1>8, <1>9

-----------------------------------------------------------------------------
(* Over k next pointers from m_start, one reaches element k of the chain.  *)
(* The numbers of steps at which that fails would have a least one.        *)
WalkOf(q) == [k \in 0..Cardinality(Nodes) |-> Link(q, k + 1)]

Steps(s, heap, f) ==
  [k \in 0..Cardinality(Nodes) |->
     IF k = 0 THEN s ELSE IF f[k - 1] = Null THEN Null ELSE heap[f[k - 1]].next]

LEMMA NextLink ==
  ASSUME NEW q \in Seq(Nodes), NEW s, NEW e, NEW heap, Linked(q, s, e, heap), NEW k \in Nat, k > 0
  PROVE  Link(q, k + 1) = IF Link(q, k) = Null THEN Null ELSE heap[Link(q, k)].next
<1>1. \A i \in 1..Len(q) : q[i] \in Nodes
  BY ElementOfSeq
<1>2. CASE k \in 1..Len(q)
  <2>1. Link(q, k) = q[k] /\ q[k] # Null
    BY <1>1, <1>2, StaqueAssumption DEF Link
  <2> QED
    BY <1>2, <2>1 DEF Linked
<1>3. CASE ~(k \in 1..Len(q))
  <2>1. ~(k + 1 \in 1..Len(q))
    BY <1>3
  <2> QED
    BY <1>3, <2>1 DEF Link
<1> QED
  BY <1>2, <1>3

LEMMA Walks ==
  ASSUME NEW q \in Seq(Nodes), NEW s, NEW e, NEW heap, Linked(q, s, e, heap), Distinct(q)
  PROVE  (CHOOSE f : f = Steps(s, heap, f)) = WalkOf(q)
<1> DEFINE w == WalkOf(q)
           top == Cardinality(Nodes)
<1>1. top \in Nat
  BY ChainFits
<1> HIDE DEF top
<1>2. \A k \in 0..top : w[k] = Link(q, k + 1)
  BY DEF WalkOf, top
<1>3. s = Link(q, 1)
  BY DEF Linked
<1>4. w = Steps(s, heap, w)
  <2>1. ASSUME NEW k \in 0..top
        PROVE  Link(q, k + 1) =
                 IF k = 0 THEN s ELSE IF w[k - 1] = Null THEN Null ELSE heap[w[k - 1]].next
    <3> HIDE DEF w
    <3>1. CASE k = 0
      BY <1>3, <3>1
    <3>2. CASE k # 0
      <4>1. k - 1 \in 0..top /\ (k - 1) + 1 = k /\ k \in Nat /\ k > 0
        BY <1>1, <3>2
      <4>2. w[k - 1] = Link(q, k)
        BY <1>2, <4>1
      <4>3. Link(q, k + 1) = IF Link(q, k) = Null THEN Null ELSE heap[Link(q, k)].next
        BY <4>1, NextLink
      <4> QED
        BY <3>2, <4>2, <4>3
    <3> QED
      BY <3>1, <3>2
  <2> DEFINE step(k) == IF k = 0 THEN s ELSE IF w[k - 1] = Null THEN Null ELSE heap[w[k - 1]].next
  <2>2. \A k \in 0..top : Link(q, k + 1) = step(k)
    BY <2>1
  <2> HIDE DEF step
  <2>3. w = [k \in 0..top |-> step(k)]
    BY <2>2 DEF WalkOf, top
  <2> QED
    BY <2>3 DEF step, Steps, top
<1>5. ASSUME NEW f, f = Steps(s, heap, f) PROVE f = w
  <2> DEFINE wrong == {k \in 0..top : f[k] # w[k]}
  <2>1. \A k \in 0..top : f[k] = IF k = 0 THEN s
                                 ELSE IF f[k - 1] = Null THEN Null ELSE heap[f[k - 1]].next
    BY <1>5 DEF Steps, top
  <2>2. wrong = {}
    <3> SUFFICES ASSUME wrong # {} PROVE FALSE
      OBVIOUS
    <3>1. PICK k \in wrong : \A y \in wrong : k <= y
      <4>1. wrong \subseteq Nat
        BY <1>1
      <4> HIDE DEF wrong
      <4> QED
        BY <4>1, LeastNumber
    <3>2. k \in 0..top /\ f[k] # w[k]
      OBVIOUS
    <3> HIDE DEF w
    <3>3. CASE k = 0
      BY <1>2, <1>3, <2>1, <3>2, <3>3
    <3>4. CASE k # 0
      <4>1. k - 1 \in 0..top /\ (k - 1) + 1 = k /\ k \in Nat /\ k > 0 /\ ~(k <= k - 1)
        BY <1>1, <3>2, <3>4
      <4>2. f[k - 1] = w[k - 1]
        BY <3>1, <4>1
      <4>3. w[k - 1] = Link(q, k) /\ w[k] = Link(q, k + 1)
        BY <1>2, <3>2, <4>1
      <4>4. Link(q, k + 1) = IF Link(q, k) = Null THEN Null ELSE heap[Link(q, k)].next
        BY <4>1, NextLink
      <4>5. f[k] = IF f[k - 1] = Null THEN Null ELSE heap[f[k - 1]].next
        BY <2>1, <3>2, <3>4
      <4> QED
        BY <3>2, <4>2, <4>3, <4>4, <4>5
    <3> QED
      BY <3>3, <3>4
  <2> DEFINE step(k) == IF k = 0 THEN s ELSE IF f[k - 1] = Null THEN Null ELSE heap[f[k - 1]].next
  <2>3. f = [k \in 0..top |-> step(k)]
    BY <1>5 DEF Steps, top
  <2>4. \A k \in 0..top : step(k) = Link(q, k + 1)
    <3>1. \A k \in 0..top : f[k] = step(k)
      BY <2>1
    <3> QED
      BY <1>2, <2>2, <3>1
  <2> HIDE DEF step
  <2> QED
    BY <2>3, <2>4 DEF WalkOf, top
<1> HIDE DEF w
<1>6. (CHOOSE f : f = Steps(s, heap, f)) = w
  <2> DEFINE c == CHOOSE f : f = Steps(s, heap, f)
  <2>1. c = Steps(s, heap, c)
    BY <1>4
  <2> HIDE DEF c
  <2>2. c = w
    BY <1>5, <2>1
  <2> QED
    BY <2>2 DEF c
<1> QED
  BY <1>6 DEF w

LEMMA WalkMeets ==
  ASSUME NEW q \in Seq(Nodes), Distinct(q)
  PROVE  /\ DOMAIN WalkOf(q) = 0..Cardinality(Nodes)
         /\ Cardinality({k \in DOMAIN WalkOf(q) : WalkOf(q)[k] # Null}) = Len(q)
         /\ {WalkOf(q)[k] : k \in DOMAIN WalkOf(q)} \ {Null} = Cells(q)
         /\ \A k \in 1..Len(q) : WalkOf(q)[k - 1] = q[k]
<1> DEFINE w == WalkOf(q)
           top == Cardinality(Nodes)
<1>1. top \in Nat /\ Len(q) \in Nat /\ Len(q) <= top
  BY ChainFits
<1> HIDE DEF top
<1>2. DOMAIN w = 0..top /\ \A k \in 0..top : w[k] = Link(q, k + 1)
  BY DEF WalkOf, top
<1> HIDE DEF w
<1>3. \A i \in 1..Len(q) : q[i] \in Nodes /\ q[i] # Null
  BY ElementOfSeq, StaqueAssumption
<1>4. \A k \in 1..Len(q) : k - 1 \in 0..top /\ w[k - 1] = q[k]
  BY <1>1, <1>2 DEF Link
<1>5. \A k \in 0..top : /\ w[k] # Null <=> k \in 0..(Len(q) - 1)
                        /\ w[k] # Null => k + 1 \in 1..Len(q) /\ w[k] = q[k + 1]
  BY <1>1, <1>2, <1>3 DEF Link
<1>6. {k \in DOMAIN w : w[k] # Null} = 0..(Len(q) - 1)
  <2>1. 0..(Len(q) - 1) \subseteq 0..top
    BY <1>1
  <2> QED
    BY <1>2, <1>5, <2>1
<1>7. Cardinality(0..(Len(q) - 1)) = Len(q)
  <2> DEFINE l == Len(q)
  <2>1. l \in Nat /\ l - 1 \in Int /\ 0 \in Int
    BY <1>1
  <2> HIDE DEF l
  <2>2. Cardinality(0..(l - 1)) = IF 0 > l - 1 THEN 0 ELSE (l - 1) - 0 + 1
    BY <2>1, FS_Interval
  <2>3. Cardinality(0..(l - 1)) = l
    BY <2>1, <2>2
  <2> QED
    BY <2>3 DEF l
<1>8. {w[k] : k \in DOMAIN w} \ {Null} = Cells(q)
  <2>1. \A k \in 0..top : w[k] # Null => w[k] \in Cells(q)
    BY <1>5 DEF Cells
  <2>2. \A i \in 1..Len(q) : q[i] \in {w[k] : k \in DOMAIN w} \ {Null}
    BY <1>2, <1>3, <1>4
  <2> QED
    BY <1>2, <2>1, <2>2 DEF Cells
<1> QED
  BY <1>2, <1>4, <1>6, <1>7, <1>8 DEF w, top

(* What the chain of a list is, as its users see it. *)
LEMMA Seen ==
  ASSUME NEW q, Chained(q)
  PROVE  /\ Count = Len(q) /\ Chain = Cells(q) /\ Contents = ValuesOf(q, node)
         /\ \A k \in 1..Len(q) : NodeAt[k - 1] = q[k]
         /\ \A k \in 0..Cardinality(Nodes) : NodeAt[k] = Link(q, k + 1)
<1>1. q \in Seq(Nodes) /\ Distinct(q) /\ Linked(q, start, end, node)
  BY DEF Chained, ChainOf
<1>2. NodeAt = WalkOf(q)
  <2>1. (CHOOSE f : f = Steps(start, node, f)) = WalkOf(q)
    BY <1>1, Walks
  <2> QED
    BY <2>1, Zenon DEF NodeAt, Steps
<1>3. /\ Count = Len(q) /\ Chain = Cells(q)
      /\ \A k \in 1..Len(q) : NodeAt[k - 1] = q[k]
  BY <1>1, <1>2, WalkMeets DEF Count, Chain
<1>4. Contents = ValuesOf(q, node)
  BY <1>3 DEF Contents, ValuesOf
<1>5. \A k \in 0..Cardinality(Nodes) : NodeAt[k] = Link(q, k + 1)
  BY <1>2 DEF WalkOf
<1> QED
  BY <1>3, <1>4, <1>5

LEMMA SeenNext ==
  ASSUME NEW q, ChainOf(q, start', end', node', length', life')
  PROVE  Contents' = ValuesOf(q, node')
<1>1. q \in Seq(Nodes) /\ Distinct(q) /\ Linked(q, start', end', node')
  BY DEF ChainOf
<1>2. NodeAt' = WalkOf(q)
  <2>1. (CHOOSE f : f = Steps(start', node', f)) = WalkOf(q)
    BY <1>1, Walks
  <2> QED
    BY <2>1, Zenon DEF NodeAt, Steps
<1>3. /\ Count' = Len(q) /\ \A k \in 1..Len(q) : NodeAt'[k - 1] = q[k]
  BY <1>1, <1>2, WalkMeets DEF Count
<1> QED
  BY <1>3 DEF Contents, ValuesOf

-----------------------------------------------------------------------------
(* The calls, one by one. *)
LEMMA InitHolds == ASSUME Init PROVE IInv /\ Chained(<< >>)
<1>1. 0 \in 0..Cardinality(Nodes)
  BY ChainFits, NoneLinked
<1>2. DOMAIN node = {} /\ alive = {} /\ node \in [{} -> Records]
  BY DEF Init, alive
<1>3. TypeOK
  BY <1>1, <1>2 DEF Init, TypeOK, Pointers, Records
<1>4. Chained(<< >>)
  BY <1>2, NoneLinked DEF Init, Chained, ChainOf
<1> QED
  BY <1>3, <1>4, NoneLinked DEF IInv

(* Calls that leave the list as it is. *)
LEMMA SameBecomes ==
  ASSUME IInv, NEW p, Chained(p), UNCHANGED <<listVars, life>>,
         out' \in {<< >>} \cup {<<v>> : v \in Values}, ret' \in 0..Cardinality(Nodes)
  PROVE  Becomes(p)
<1>1. TypeOK' /\ UNCHANGED <<start, end, length, node, life>>
  BY DEF IInv, TypeOK, listVars, alive, Pointers
<1> QED
  BY <1>1 DEF Chained, ChainOf, Becomes

LEMMA OneCell ==
  ASSUME IInv, NEW p, Chained(p)
  PROVE  /\ start = Null <=> p = << >>
         /\ p # << >> => /\ start = p[1] /\ node[start].value \in Values
                         /\ 1 \in 0..Cardinality(Nodes)
         /\ 0 \in 0..Cardinality(Nodes)
<1>1. /\ p \in Seq(Nodes) /\ Distinct(p) /\ Linked(p, start, end, node)
      /\ TypeOK /\ Len(p) \in Nat /\ (p = << >> <=> Len(p) = 0)
  BY EmptySeq DEF Chained, ChainOf, IInv
<1>2. start = Null <=> p = << >>
  BY <1>1, Ends
<1>3. Len(p) \in 0..Cardinality(Nodes) /\ Cardinality(Nodes) \in Nat
  BY <1>1, ChainFits
<1>4. ASSUME p # << >> PROVE start = p[1] /\ node[start].value \in Values
  <2>1. 1 \in 1..Len(p) /\ start = p[1] /\ start \in DOMAIN node
    BY <1>1, <1>4 DEF Linked, Link
  <2> QED
    BY <1>1, <2>1, TypedHeap
<1> QED
  BY <1>1, <1>2, <1>3, <1>4

LEMMA ElementAt ==
  ASSUME IInv, NEW p, Chained(p), NEW i \in Indices
  PROVE  /\ i < length /\ NodeAt[i] # Null <=> i < Len(p)
         /\ i < Len(p) => /\ i + 1 \in 1..Len(p) /\ NodeAt[i] = p[i + 1]
                          /\ node[p[i + 1]].value \in Values
<1>1. /\ p \in Seq(Nodes) /\ Linked(p, start, end, node) /\ (p # << >> => length = Len(p))
      /\ TypeOK /\ Len(p) \in Nat /\ (p = << >> <=> Len(p) = 0) /\ i \in Nat
      /\ length \in 0..Cardinality(Nodes) /\ Distinct(p)
  BY EmptySeq, StaqueAssumption DEF Chained, ChainOf, IInv, TypeOK
<1>2. Len(p) \in 0..Cardinality(Nodes) /\ Cardinality(Nodes) \in Nat
  BY <1>1, ChainFits
<1>3. \A j \in 1..Len(p) : p[j] # Null /\ p[j] \in DOMAIN node /\ node[p[j]].value \in Values
  <2> SUFFICES ASSUME NEW j \in 1..Len(p)
               PROVE  p[j] # Null /\ p[j] \in DOMAIN node /\ node[p[j]].value \in Values
    OBVIOUS
  <2>1. p[j] \in Nodes /\ p[j] \in DOMAIN node
    BY <1>1, Ends DEF Linked
  <2> QED
    BY <1>1, <2>1, TypedHeap, StaqueAssumption
<1>4. i <= Cardinality(Nodes) => NodeAt[i] = Link(p, i + 1)
  BY <1>1, <1>2, Seen
<1>5. CASE i < Len(p)
  <2>1. i + 1 \in 1..Len(p) /\ i <= Cardinality(Nodes) /\ i < length
    BY <1>1, <1>2, <1>5
  <2> QED
    BY <1>3, <1>4, <1>5, <2>1 DEF Link
<1>6. CASE ~(i < Len(p))
  <2>1. ~(i + 1 \in 1..Len(p)) /\ (i < length => i <= Cardinality(Nodes))
    BY <1>1, <1>2, <1>6
  <2> QED
    BY <1>4, <1>6, <2>1 DEF Link
<1> QED
  BY <1>5, <1>6

(* The chain after a step, from the chain before it. *)
LEMMA StepBecomes ==
  ASSUME IInv, NEW p, Chained(p), [Next]_vars
  PROVE  \E q : Becomes(q)
<1>1. ASSUME NEW v \in Values, NEW n \in Nodes, Push(v, n) PROVE \E q : Becomes(q)
  BY <1>1, PushBecomes
<1>2. ASSUME NEW v \in Values, NEW n \in Nodes, Enqueue(v, n) PROVE \E q : Becomes(q)
  BY <1>2, EnqueueBecomes
<1>3. CASE Pop
  <2>1. CASE p = << >>
    <3>1. UNCHANGED <<listVars, life>> /\ out' = << >> /\ ret' = 0
      BY <1>3, <2>1, OneCell DEF Pop
    <3>2. out' \in {<< >>} \cup {<<v>> : v \in Values} /\ ret' \in 0..Cardinality(Nodes)
      BY <3>1, OneCell
    <3> QED
      BY <3>1, <3>2, SameBecomes
  <2> QED
    BY <1>3, <2>1, PopBecomes
<1>4. CASE Peek
  <2>1. UNCHANGED <<listVars, life>>
    BY <1>4 DEF Peek
  <2>2. out' \in {<< >>} \cup {<<v>> : v \in Values} /\ ret' \in 0..Cardinality(Nodes)
    BY <1>4, OneCell DEF Peek
  <2> QED
    BY <2>1, <2>2, SameBecomes
<1>5. CASE Clear
  <2>1. Becomes(<< >>)
    BY <1>5, EmptiedBecomes DEF Clear
  <2> QED
    BY <2>1
<1>6. CASE AskLength
  <2>1. /\ UNCHANGED <<listVars, life>>
        /\ out' \in {<< >>} \cup {<<v>> : v \in Values} /\ ret' \in 0..Cardinality(Nodes)
    BY <1>6 DEF AskLength, IInv, TypeOK
  <2> QED
    BY <2>1, SameBecomes
<1>7. CASE Destroy
  <2>1. Becomes(<< >>)
    BY <1>7, EmptiedBecomes DEF Destroy
  <2> QED
    BY <2>1
<1>8. ASSUME NEW i \in Indices, GetAt(i) PROVE \E q : Becomes(q)
  <2>1. UNCHANGED <<listVars, life>>
    BY <1>8 DEF GetAt
  <2>2. out' \in {<< >>} \cup {<<v>> : v \in Values} /\ ret' \in 0..Cardinality(Nodes)
    <3>1. i < Len(p) => 1 \in 0..Cardinality(Nodes)
      <4>1. p \in Seq(Nodes) /\ i \in Nat
        BY StaqueAssumption DEF Chained, ChainOf
      <4>2. i < Len(p) => p # << >>
        BY <4>1
      <4> QED
        BY <4>2, OneCell
    <3> QED
      BY <1>8, <3>1, ElementAt, OneCell DEF GetAt
  <2> QED
    BY <2>1, <2>2, SameBecomes
<1>9. CASE UNCHANGED vars
  <2>1. /\ UNCHANGED <<listVars, life>>
        /\ out' \in {<< >>} \cup {<<v>> : v \in Values} /\ ret' \in 0..Cardinality(Nodes)
    BY <1>9 DEF vars, IInv, TypeOK
  <2> QED
    BY <2>1, SameBecomes
<1> QED
  BY <1>1, <1>2, <1>3, <1>4, <1>5, <1>6, <1>7, <1>8, <1>9 DEF Next

LEMMA IInvHolds == Spec => []IInv
<1>1. Init => IInv
  BY InitHolds
<1>2. IInv /\ [Next]_vars => IInv'
  <2> SUFFICES ASSUME IInv, [Next]_vars PROVE IInv'
    OBVIOUS
  <2>1. PICK p : Chained(p)
    BY DEF IInv
  <2>2. PICK q : Becomes(q)
    BY <2>1, StepBecomes
  <2> QED
    BY <2>2 DEF Becomes, ChainOf, Chained, IInv
<1> QED
  BY <1>1, <1>2, PTL DEF Spec

-----------------------------------------------------------------------------
(* Pointers point into memory, and no number exceeds what memory holds. *)
THEOREM TypeCorrect == Spec => []TypeOK
<1>1. IInv => TypeOK
  BY DEF IInv
<1> QED
  BY <1>1, IInvHolds, PTL

(* However calls alternate, the list is linked backwards as forwards, from *)
(* m_start to m_end, and m_length counts it.                               *)
THEOREM LinkedCorrect == Spec => []LinkedBothWays
<1>1. IInv => LinkedBothWays
  <2> SUFFICES ASSUME IInv PROVE LinkedBothWays
    OBVIOUS
  <2>1. PICK q : Chained(q)
    BY DEF IInv
  <2>2. /\ q \in Seq(Nodes) /\ Distinct(q) /\ Linked(q, start, end, node)
        /\ (q # << >> => length = Len(q)) /\ Len(q) \in Nat
    BY <2>1 DEF Chained, ChainOf
  <2>3. (start = Null <=> q = << >>) /\ (end = Null <=> q = << >>) /\ (q = << >> <=> Len(q) = 0)
    BY <2>2, Ends
  <2>4. Count = Len(q) /\ \A k \in 1..Len(q) : NodeAt[k - 1] = q[k]
    BY <2>1, Seen
  <2>5. ASSUME start # Null
        PROVE  /\ length = Count /\ end = NodeAt[Count - 1]
               /\ node[start].prev = Null /\ node[end].next = Null
    <3>1. /\ 1 \in 1..Len(q) /\ Len(q) \in 1..Len(q) /\ ~(Len(q) + 1 \in 1..Len(q))
          /\ ~(1 - 1 \in 1..Len(q))
      BY <2>2, <2>3, <2>5
    <3>2. start = q[1] /\ end = q[Len(q)]
      BY <2>2, <3>1 DEF Linked, Link
    <3>3. node[q[1]].prev = Null /\ node[q[Len(q)]].next = Null
      BY <2>2, <3>1 DEF Linked, Link
    <3> QED
      BY <2>2, <2>3, <2>4, <2>5, <3>1, <3>2, <3>3
  <2>6. ASSUME NEW k \in 1..(Count - 1) PROVE node[NodeAt[k]].prev = NodeAt[k - 1]
    <3>1. k \in 1..Len(q) /\ k + 1 \in 1..Len(q) /\ (k + 1) - 1 = k
      BY <2>2, <2>4
    <3>2. NodeAt[k] = q[k + 1] /\ NodeAt[k - 1] = q[k]
      BY <2>4, <3>1
    <3>3. node[q[k + 1]].prev = q[k]
      BY <2>2, <3>1 DEF Linked, Link
    <3> QED
      BY <3>2, <3>3
  <2> QED
    BY <2>3, <2>5, <2>6 DEF LinkedBothWays
<1> QED
  BY <1>1, IInvHolds, PTL

(* No node of the chain is freed under it, and none that left it stays. *)
THEOREM FreedCorrect == Spec => []FreedWhenUnlinked
<1>1. IInv => FreedWhenUnlinked
  <2> SUFFICES ASSUME IInv PROVE FreedWhenUnlinked
    OBVIOUS
  <2>1. PICK q : Chained(q)
    BY DEF IInv
  <2>2. Chain = Cells(q)
    BY <2>1, Seen
  <2>3. Cells(q) \subseteq alive /\ (life = "fresh" => alive = Cells(q))
    BY <2>1 DEF Chained, ChainOf, Linked, Cells, alive
  <2> QED
    BY <2>2, <2>3 DEF FreedWhenUnlinked
<1> QED
  BY <1>1, IInvHolds, PTL

-----------------------------------------------------------------------------
(* The sequence a chain holds, and what the calls do to it. *)
LEMMA SeesSeq ==
  ASSUME NEW p, Chained(p)
  PROVE  /\ Contents = ValuesOf(p, node) /\ Len(Contents) = Len(p)
         /\ Contents = << >> <=> p = << >>
         /\ \A k \in 1..Len(p) : Contents[k] = node[p[k]].value
<1>1. p \in Seq(Nodes) /\ Len(p) \in Nat /\ (p = << >> <=> Len(p) = 0)
  BY EmptySeq DEF Chained, ChainOf
<1>2. Contents = ValuesOf(p, node)
  BY Seen
<1>3. DOMAIN Contents = 1..Len(p) /\ Len(Contents) = Len(p)
  BY <1>1, <1>2, LenProperties DEF ValuesOf
<1> QED
  BY <1>1, <1>2, <1>3 DEF ValuesOf

LEMMA ValuesSeq ==
  ASSUME NEW q \in Seq(Nodes), NEW heap, \A k \in 1..Len(q) : heap[q[k]].value \in Values
  PROVE  ValuesOf(q, heap) \in Seq(Values) /\ Len(ValuesOf(q, heap)) = Len(q)
<1>1. Len(q) \in Nat
  OBVIOUS
<1>2. ValuesOf(q, heap) \in [1..Len(q) -> Values]
  BY DEF ValuesOf
<1> QED
  BY <1>1, <1>2

LEMMA IsSequence ==
  ASSUME IInv, NEW p, Chained(p)
  PROVE  Contents \in Seq(Values)
<1>1. /\ p \in Seq(Nodes) /\ Linked(p, start, end, node) /\ TypeOK
  BY DEF Chained, ChainOf, IInv
<1>2. \A k \in 1..Len(p) : node[p[k]].value \in Values
  <2> SUFFICES ASSUME NEW k \in 1..Len(p) PROVE node[p[k]].value \in Values
    OBVIOUS
  <2>1. p[k] \in DOMAIN node
    BY <1>1 DEF Linked
  <2> QED
    BY <1>1, <2>1, TypedHeap
<1>3. ValuesOf(p, node) \in Seq(Values)
  BY <1>1, <1>2, ValuesSeq
<1> QED
  BY <1>3, SeesSeq

(* What a call leaves. *)
LEMMA SeesNext ==
  ASSUME NEW q, Becomes(q)
  PROVE  /\ q \in Seq(Nodes)
         /\ Contents' \in Seq(Values) /\ Len(Contents') = Len(q)
         /\ \A k \in 1..Len(q) : Contents'[k] = node'[q[k]].value
<1>1. /\ q \in Seq(Nodes) /\ Linked(q, start', end', node') /\ TypeOK'
      /\ ChainOf(q, start', end', node', length', life')
  BY DEF Becomes, ChainOf
<1>2. Contents' = ValuesOf(q, node')
  BY <1>1, SeenNext
<1>3. \A n \in DOMAIN node' : node'[n].value \in Values
  BY <1>1 DEF TypeOK, alive
<1>4. \A k \in 1..Len(q) : node'[q[k]].value \in Values
  <2> SUFFICES ASSUME NEW k \in 1..Len(q) PROVE node'[q[k]].value \in Values
    OBVIOUS
  <2>1. q[k] \in DOMAIN node'
    BY <1>1 DEF Linked
  <2> QED
    BY <1>3, <2>1
<1>5. ValuesOf(q, node') \in Seq(Values) /\ Len(ValuesOf(q, node')) = Len(q)
  BY <1>1, <1>4, ValuesSeq
<1> QED
  BY <1>1, <1>2, <1>5 DEF ValuesOf

-----------------------------------------------------------------------------
(* Every call is the call on the sequence. *)
LEMMA PushIs ==
  ASSUME IInv, NEW v \in Values, NEW n \in Nodes, Push(v, n)
  PROVE  Promise!Push(v)
<1>1. PICK p : Chained(p)
  BY DEF IInv
<1> DEFINE q == <<n>> \o p
           s == <<v>> \o Contents
           c == Contents
           d == Contents'
<1>2. /\ Becomes(q) /\ node'[n].value = v
      /\ \A i \in 1..Len(p) : node'[p[i]].value = node[p[i]].value
  BY <1>1, PushBecomes
<1>3. p \in Seq(Nodes) /\ Len(p) \in Nat
  BY <1>1 DEF Chained, ChainOf
<1>4. /\ c \in Seq(Values) /\ Len(c) = Len(p)
      /\ \A k \in 1..Len(p) : c[k] = node[p[k]].value
  BY <1>1, SeesSeq, IsSequence
<1>5. /\ d \in Seq(Values) /\ Len(d) = Len(q)
      /\ \A k \in 1..Len(q) : d[k] = node'[q[k]].value
  BY <1>2, SeesNext
<1> HIDE DEF c, d
<1>6. /\ Len(q) = Len(p) + 1
      /\ \A k \in 1..Len(q) : q[k] = IF k = 1 THEN n ELSE p[k - 1]
  BY <1>3
<1>7. /\ s \in Seq(Values) /\ Len(s) = Len(p) + 1
      /\ \A k \in 1..Len(s) : s[k] = IF k = 1 THEN v ELSE c[k - 1]
  BY <1>3, <1>4 DEF c
<1> HIDE DEF q, s
<1>8. ASSUME NEW k \in 1..Len(d) PROVE d[k] = s[k]
  <2>1. k \in 1..Len(q) /\ k \in 1..Len(s) /\ (k # 1 => k - 1 \in 1..Len(p))
    BY <1>3, <1>5, <1>6, <1>7
  <2> QED
    BY <1>2, <1>4, <1>5, <1>6, <1>7, <2>1
<1>9. d = s
  BY <1>5, <1>6, <1>7, <1>8, SeqEqual
<1> QED
  BY <1>9 DEF d, s, Push, Promise!Push

LEMMA EnqueueIs ==
  ASSUME IInv, NEW v \in Values, NEW n \in Nodes, Enqueue(v, n)
  PROVE  Promise!Enqueue(v)
<1>1. PICK p : Chained(p)
  BY DEF IInv
<1> DEFINE q == Append(p, n)
           s == Append(Contents, v)
           c == Contents
           d == Contents'
<1>2. /\ Becomes(q) /\ node'[n].value = v
      /\ \A i \in 1..Len(p) : node'[p[i]].value = node[p[i]].value
  BY <1>1, EnqueueBecomes
<1>3. p \in Seq(Nodes) /\ Len(p) \in Nat
  BY <1>1 DEF Chained, ChainOf
<1>4. /\ c \in Seq(Values) /\ Len(c) = Len(p)
      /\ \A k \in 1..Len(p) : c[k] = node[p[k]].value
  BY <1>1, SeesSeq, IsSequence
<1>5. /\ d \in Seq(Values) /\ Len(d) = Len(q)
      /\ \A k \in 1..Len(q) : d[k] = node'[q[k]].value
  BY <1>2, SeesNext
<1> HIDE DEF c, d
<1>6. /\ Len(q) = Len(p) + 1
      /\ \A k \in 1..Len(q) : q[k] = IF k = Len(p) + 1 THEN n ELSE p[k]
  BY <1>3
<1>7. /\ s \in Seq(Values) /\ Len(s) = Len(p) + 1
      /\ \A k \in 1..Len(s) : s[k] = IF k = Len(p) + 1 THEN v ELSE c[k]
  BY <1>3, <1>4 DEF c
<1> HIDE DEF q, s
<1>8. ASSUME NEW k \in 1..Len(d) PROVE d[k] = s[k]
  <2>1. k \in 1..Len(q) /\ k \in 1..Len(s) /\ (k # Len(p) + 1 => k \in 1..Len(p))
    BY <1>3, <1>5, <1>6, <1>7
  <2> QED
    BY <1>2, <1>4, <1>5, <1>6, <1>7, <2>1
<1>9. d = s
  BY <1>5, <1>6, <1>7, <1>8, SeqEqual
<1> QED
  BY <1>9 DEF d, s, Enqueue, Promise!Enqueue

LEMMA SameSeen ==
  ASSUME IInv, UNCHANGED <<listVars, life>>
  PROVE  UNCHANGED Contents
<1>1. PICK p : Chained(p)
  BY DEF IInv
<1>2. ChainOf(p, start', end', node', length', life') /\ node' = node
  BY <1>1 DEF Chained, listVars
<1>3. Contents = ValuesOf(p, node)
  BY <1>1, Seen
<1>4. Contents' = ValuesOf(p, node')
  BY <1>2, SeenNext
<1> QED
  BY <1>2, <1>3, <1>4

LEMMA PopIs == ASSUME IInv, Pop PROVE Promise!Pop
<1>1. PICK p : Chained(p)
  BY DEF IInv
<1>2. /\ Contents \in Seq(Values) /\ Len(Contents) = Len(p)
      /\ Contents = << >> <=> p = << >>
      /\ \A k \in 1..Len(p) : Contents[k] = node[p[k]].value
  BY <1>1, SeesSeq, IsSequence
<1>3. CASE p = << >>
  <2>1. UNCHANGED <<listVars, life>> /\ out' = << >> /\ ret' = 0
    BY <1>1, <1>3, OneCell DEF Pop
  <2>2. UNCHANGED Contents
    BY <2>1, SameSeen
  <2> QED
    BY <1>2, <1>3, <2>1, <2>2 DEF Promise!Pop, Promise!Empty
<1>4. CASE p # << >>
  <2> DEFINE q == Tail(p)
             s == Tail(Contents)
             c == Contents
             d == Contents'
  <2>1. p \in Seq(Nodes) /\ Len(p) \in Nat /\ Len(p) > 0
    BY <1>1, <1>4, EmptySeq DEF Chained, ChainOf
  <2>2. /\ Becomes(q)
        /\ \A i \in 1..(Len(p) - 1) : node'[p[i + 1]].value = node[p[i + 1]].value
    BY <1>1, <1>4, PopBecomes
  <2>3. /\ d \in Seq(Values) /\ Len(d) = Len(q)
        /\ \A k \in 1..Len(q) : d[k] = node'[q[k]].value
    BY <2>2, SeesNext
  <2>4. /\ Len(q) = Len(p) - 1 /\ \A k \in 1..Len(q) : q[k] = p[k + 1]
    BY <1>4, <2>1
  <2> HIDE DEF c, d
  <2>5. c \in Seq(Values) /\ c # << >> /\ Len(c) = Len(p)
    BY <1>2, <1>4 DEF c
  <2>6. /\ s \in Seq(Values) /\ Len(s) = Len(p) - 1
        /\ \A k \in 1..Len(s) : s[k] = c[k + 1]
    BY <2>1, <2>5 DEF c
  <2> HIDE DEF q, s
  <2>7. ASSUME NEW k \in 1..Len(d) PROVE d[k] = s[k]
    <3>1. k \in 1..Len(q) /\ k \in 1..Len(s) /\ k \in 1..(Len(p) - 1) /\ k + 1 \in 1..Len(p)
      BY <2>1, <2>3, <2>4, <2>6
    <3>2. d[k] = node'[p[k + 1]].value /\ s[k] = c[k + 1]
      BY <2>3, <2>4, <2>6, <3>1
    <3>3. c[k + 1] = node[p[k + 1]].value
      BY <1>2, <3>1 DEF c
    <3> QED
      BY <2>2, <3>1, <3>2, <3>3
  <2>8. d = s
    BY <2>3, <2>4, <2>6, <2>7, SeqEqual
  <2>9. start = p[1] /\ start # Null
    BY <1>1, <1>4, OneCell
  <2>10. out' = <<Head(c)>> /\ ret' = 1
    <3>1. 1 \in 1..Len(p) /\ Head(c) = c[1]
      BY <2>1, <2>5
    <3>2. c[1] = node[start].value
      BY <1>2, <2>9, <3>1 DEF c
    <3> QED
      BY <2>9, <3>1, <3>2 DEF Pop
  <2> QED
    BY <2>5, <2>8, <2>10 DEF c, d, s, Promise!Pop
<1> QED
  BY <1>3, <1>4

LEMMA PeekIs == ASSUME IInv, Peek PROVE Promise!Peek
<1>1. PICK p : Chained(p)
  BY DEF IInv
<1>2. /\ Contents \in Seq(Values) /\ Len(Contents) = Len(p)
      /\ Contents = << >> <=> p = << >>
      /\ \A k \in 1..Len(p) : Contents[k] = node[p[k]].value
  BY <1>1, SeesSeq, IsSequence
<1>3. UNCHANGED Contents
  BY SameSeen DEF Peek
<1>4. CASE p = << >>
  <2>1. out' = << >> /\ ret' = 0
    BY <1>1, <1>4, OneCell DEF Peek
  <2> QED
    BY <1>2, <1>3, <1>4, <2>1 DEF Promise!Peek, Promise!Empty
<1>5. CASE p # << >>
  <2>1. start = p[1] /\ start # Null
    BY <1>1, <1>5, OneCell
  <2>2. out' = <<node[start].value>> /\ ret' = 1
    BY <2>1 DEF Peek
  <2>3. 1 \in 1..Len(p) /\ Head(Contents) = Contents[1]
    BY <1>2, <1>5
  <2> QED
    BY <1>2, <1>3, <1>5, <2>1, <2>2, <2>3 DEF Promise!Peek
<1> QED
  BY <1>4, <1>5

LEMMA GetAtIs == ASSUME IInv, NEW i \in Indices, GetAt(i) PROVE Promise!GetAt(i)
<1>1. PICK p : Chained(p)
  BY DEF IInv
<1>2. /\ Len(Contents) = Len(p)
      /\ \A k \in 1..Len(p) : Contents[k] = node[p[k]].value
  BY <1>1, SeesSeq
<1>3. UNCHANGED Contents
  BY SameSeen DEF GetAt
<1>4. /\ i < length /\ NodeAt[i] # Null <=> i < Len(p)
      /\ i < Len(p) => i + 1 \in 1..Len(p) /\ NodeAt[i] = p[i + 1]
  BY <1>1, ElementAt
<1>5. out' = IF i < Len(Contents) THEN <<Contents[i + 1]>> ELSE << >>
  BY <1>2, <1>4 DEF GetAt
<1> QED
  BY <1>3, <1>5 DEF GetAt, Promise!GetAt

LEMMA EmptiedIs ==
  ASSUME IInv, Clear \/ Destroy
  PROVE  Promise!Clear
<1>1. PICK p : Chained(p)
  BY DEF IInv
<1>2. Becomes(<< >>)
  BY <1>1, EmptiedBecomes DEF Clear, Destroy
<1>3. Contents' \in Seq(Values) /\ Len(Contents') = 0
  BY <1>2, SeesNext
<1>4. Contents' = << >>
  BY <1>3, EmptySeq
<1> QED
  BY <1>4 DEF Clear, Destroy, Promise!Clear

LEMMA AskLengthIs == ASSUME IInv, AskLength PROVE Promise!AskLength
<1>1. PICK p : Chained(p)
  BY DEF IInv
<1>2. Len(Contents) = Len(p) /\ (Contents = << >> <=> p = << >>)
  BY <1>1, SeesSeq
<1>3. UNCHANGED Contents
  BY SameSeen DEF AskLength
<1>4. length \in Nat /\ (p # << >> => length = Len(p))
  BY <1>1 DEF IInv, TypeOK, Chained, ChainOf
<1> QED
  BY <1>2, <1>3, <1>4 DEF AskLength, Promise!AskLength

(* The nodes and their cursors implement a sequence, Clear and refilling   *)
(* included.                                                               *)
THEOREM DequeCorrect == Spec => ImplementsDeque
<1>1. Init => Promise!Init
  <2> SUFFICES ASSUME Init PROVE Promise!Init
    OBVIOUS
  <2>1. Chained(<< >>)
    BY InitHolds
  <2>2. Contents = << >>
    BY <2>1, SeesSeq
  <2> QED
    BY <2>2 DEF Init, Promise!Init
<1>2. IInv /\ [Next]_vars => [Promise!Next]_(Promise!vars)
  <2> SUFFICES ASSUME IInv, [Next]_vars PROVE [Promise!Next]_(Promise!vars)
    OBVIOUS
  <2>1. ASSUME NEW v \in Values, NEW n \in Nodes, Push(v, n) PROVE Promise!Next
    BY <2>1, PushIs DEF Promise!Next
  <2>2. ASSUME NEW v \in Values, NEW n \in Nodes, Enqueue(v, n) PROVE Promise!Next
    BY <2>2, EnqueueIs DEF Promise!Next
  <2>3. CASE Pop
    BY <2>3, PopIs DEF Promise!Next
  <2>4. CASE Peek
    BY <2>4, PeekIs DEF Promise!Next
  <2>5. CASE Clear \/ Destroy
    BY <2>5, EmptiedIs DEF Promise!Next
  <2>6. CASE AskLength
    BY <2>6, AskLengthIs DEF Promise!Next
  <2>7. ASSUME NEW i \in Indices, GetAt(i) PROVE Promise!Next
    BY <2>7, GetAtIs DEF Promise!Next
  <2>8. CASE UNCHANGED vars
    <3>1. UNCHANGED <<listVars, life>> /\ UNCHANGED <<out, ret>>
      BY <2>8 DEF vars
    <3> QED
      BY <3>1, SameSeen DEF Promise!vars
  <2> QED
    BY <2>1, <2>2, <2>3, <2>4, <2>5, <2>6, <2>7, <2>8 DEF Next
<1> QED
  BY <1>1, <1>2, IInvHolds, PTL DEF Spec, ImplementsDeque, Promise!Spec
=============================================================================
