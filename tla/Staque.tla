------------------------------- MODULE Staque -------------------------------
(***************************************************************************)
(* utils::Staque< type > (include/utils/Staque.hpp): a list of nodes that  *)
(* hold shared pointers to both neighbours, so that any two neighbours     *)
(* keep each other alive. A node is freed when nothing refers to it, which *)
(* is modelled as the effect of dropping a reference. The class asks its   *)
(* users to keep calls apart, so a call is one step.                       *)
(***************************************************************************)
EXTENDS Naturals, Sequences, FiniteSets

CONSTANTS Nodes,   \* memory: how many nodes can be allocated at once
          Values,  \* what the elements hold
          Indices, \* arguments of GetAt
          Null     \* a null shared_ptr

ASSUME StaqueAssumption ==
  /\ IsFiniteSet(Nodes) /\ Null \notin Nodes
  /\ Indices \subseteq Nat

VARIABLES
  start, end,  \* m_start and m_end
  length,      \* m_length
  node,        \* the allocated nodes: value, next and prev of each
  life,        \* history: "fresh", "cleared" once Clear was called, "destroyed"
  out, ret     \* the element and the number the last call handed back

listVars == <<start, end, length, node>>
vars     == <<listVars, life, out, ret>>

Pointers == Nodes \cup {Null}
alive    == DOMAIN node

TypeOK ==
  /\ start \in Pointers /\ end \in Pointers
  /\ length \in 0..Cardinality(Nodes)
  /\ alive \subseteq Nodes
  /\ node \in [alive -> [value : Values, next : Pointers, prev : Pointers]]
  /\ life \in {"fresh", "cleared", "destroyed"}
  /\ out \in {<< >>} \cup {<<v>> : v \in Values}
  /\ ret \in 0..Cardinality(Nodes)

Init ==
  /\ start = Null /\ end = Null /\ length = 0
  /\ node = << >>
  /\ life = "fresh"
  /\ out = << >> /\ ret = 0

(* NodeAt[k]: the node reached over k next pointers. *)
NodeAt ==
  LET f[k \in 0..Cardinality(Nodes)] ==
        IF k = 0 THEN start
        ELSE IF f[k - 1] = Null THEN Null ELSE node[f[k - 1]].next
  IN  f

Count    == Cardinality({k \in DOMAIN NodeAt : NodeAt[k] # Null})
Chain    == {NodeAt[k] : k \in DOMAIN NodeAt} \ {Null}
Contents == [k \in 1..Count |-> node[NodeAt[k - 1]].value]

(* What reference counting keeps of a heap: the largest set of nodes each  *)
(* of which a root or a member refers to.                                  *)
Kept(roots, heap) ==
  UNION {S \in SUBSET DOMAIN heap :
           \A n \in S : \/ n \in roots
                        \/ \E m \in S : n \in {heap[m].next, heap[m].prev}}

(* m_start and m_end after a call, and of the heap what they keep alive.   *)
Relink(s, e, heap) ==
  /\ start' = s /\ end' = e
  /\ node' = [n \in Kept({s, e}, heap) |-> heap[n]]

(* std::make_shared of a node: n, in a heap where it was free.             *)
Made(n, v, next, prev, heap) ==
  [m \in DOMAIN heap \cup {n} |->
     IF m = n THEN [value |-> v, next |-> next, prev |-> prev] ELSE heap[m]]

Push(v, n) ==
  /\ life # "destroyed" /\ n \notin alive
  /\ IF start = Null
       THEN /\ Relink(n, n, Made(n, v, Null, Null, node))
            /\ length' = 1
       ELSE /\ Relink(n, end, Made(n, v, start, Null, [node EXCEPT ![start].prev = n]))
            /\ length' = length + 1
  /\ out' = << >> /\ ret' = 1
  /\ UNCHANGED life

(* Seeded fault: m_end stays behind.                                       *)
EnqueueKeepsEnd(v, n) ==
  /\ life # "destroyed" /\ n \notin alive
  /\ IF end = Null
       THEN /\ Relink(n, n, Made(n, v, Null, Null, node))
            /\ length' = 1
       ELSE /\ Relink(start, end, Made(n, v, Null, end, [node EXCEPT ![end].next = n]))
            /\ length' = length + 1
  /\ out' = << >> /\ ret' = 1
  /\ UNCHANGED life

Enqueue(v, n) ==
  /\ life # "destroyed" /\ n \notin alive
  /\ IF end = Null
       THEN /\ Relink(n, n, Made(n, v, Null, Null, node))
            /\ length' = 1
       ELSE /\ Relink(start, n, Made(n, v, Null, end, [node EXCEPT ![end].next = n]))
            /\ length' = length + 1
  /\ out' = << >> /\ ret' = 1
  /\ UNCHANGED life

(* Seeded fault: the new first node keeps its prev.                        *)
PopKeepsPrev ==
  /\ life # "destroyed"
  /\ IF start = Null
       THEN UNCHANGED listVars /\ out' = << >> /\ ret' = 0
       ELSE LET second == node[start].next IN
            /\ IF second = Null
                 THEN Relink(Null, Null, node)
                 ELSE Relink(second, end, node)
            /\ length' = length - 1
            /\ out' = <<node[start].value>> /\ ret' = 1
  /\ UNCHANGED life

(* Seeded fault: m_length is decremented before the test for an empty      *)
(* list.                                                                   *)
PopCountsFirst ==
  /\ life # "destroyed"
  /\ IF start = Null
       THEN length' = length - 1 /\ UNCHANGED <<start, end, node>> /\ out' = << >> /\ ret' = 0
       ELSE LET second == node[start].next IN
            /\ IF second = Null
                 THEN Relink(Null, Null, node)
                 ELSE Relink(second, end, [node EXCEPT ![second].prev = Null])
            /\ length' = length - 1
            /\ out' = <<node[start].value>> /\ ret' = 1
  /\ UNCHANGED life

(* Dequeue is Pop. *)
Pop ==
  /\ life # "destroyed"
  /\ IF start = Null
       THEN UNCHANGED listVars /\ out' = << >> /\ ret' = 0
       ELSE LET second == node[start].next IN
            /\ IF second = Null
                 THEN Relink(Null, Null, node)
                 ELSE Relink(second, end, [node EXCEPT ![second].prev = Null])
            /\ length' = length - 1
            /\ out' = <<node[start].value>> /\ ret' = 1
  /\ UNCHANGED life

Peek ==
  /\ life # "destroyed"
  /\ out' = IF start = Null THEN << >> ELSE <<node[start].value>>
  /\ ret' = Len(out')
  /\ UNCHANGED <<listVars, life>>

(* Clear leaves m_length as it is. *)
Clear ==
  /\ life # "destroyed"
  /\ Relink(Null, Null, node)
  /\ life' = "cleared"
  /\ out' = << >> /\ ret' = 0
  /\ UNCHANGED length

GetAt(i) ==
  /\ life # "destroyed"
  /\ out' = IF i < length /\ NodeAt[i] # Null THEN <<node[NodeAt[i]].value>> ELSE << >>
  /\ ret' = Len(out')
  /\ UNCHANGED <<listVars, life>>

AskLength ==
  /\ life # "destroyed"
  /\ out' = << >> /\ ret' = length
  /\ UNCHANGED <<listVars, life>>

(* ~Staque: the members' destructors drop m_end and m_start.               *)
Destroy ==
  /\ life # "destroyed"
  /\ Relink(Null, Null, node)
  /\ life' = "destroyed"
  /\ out' = << >> /\ ret' = 0
  /\ UNCHANGED length

Next ==
  \/ \E v \in Values, n \in Nodes : Push(v, n) \/ Enqueue(v, n)
  \/ Pop \/ Peek \/ Clear \/ AskLength \/ Destroy
  \/ \E i \in Indices : GetAt(i)

Spec == Init /\ [][Next]_vars

-----------------------------------------------------------------------------
(* However pushes, pops and clears alternate, the chain from m_start is    *)
(* finite, ends in m_end, is linked backwards as forwards, and holds       *)
(* m_length nodes; only an empty container may have a stale m_length.      *)
LinkedBothWays ==
  /\ start = Null <=> end = Null
  /\ start # Null =>
       /\ length = Count
       /\ end = NodeAt[Count - 1]
       /\ node[start].prev = Null /\ node[end].next = Null
       /\ \A k \in 1..(Count - 1) : node[NodeAt[k]].prev = NodeAt[k - 1]

(* The nodes in the chain are never freed under it, and until Clear or the *)
(* destructor is called every node that left the chain is freed: the two   *)
(* pointers of the removed node and its neighbour are both dropped.        *)
FreedWhenUnlinked ==
  /\ Chain \subseteq alive
  /\ life = "fresh" => alive = Chain

(* The nodes and their cursors implement a sequence, Clear and refilling   *)
(* included.                                                               *)
Promise == INSTANCE Deque WITH seq <- Contents
ImplementsDeque == Promise!Spec
=============================================================================
