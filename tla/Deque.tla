------------------------------- MODULE Deque -------------------------------
(***************************************************************************)
(* What utils::Staque promises: a sequence that grows at either end and    *)
(* shrinks at the front. out is the element the last call delivered, ret   *)
(* what it returned. Length is left open while the sequence is empty.      *)
(***************************************************************************)
EXTENDS Naturals, Sequences

CONSTANTS Values, Indices

VARIABLES seq, out, ret

vars == <<seq, out, ret>>

Init == seq = << >> /\ out = << >> /\ ret = 0

Push(v)    == seq' = <<v>> \o seq /\ out' = << >> /\ ret' = 1
Enqueue(v) == seq' = Append(seq, v) /\ out' = << >> /\ ret' = 1

Empty == seq = << >> /\ out' = << >> /\ ret' = 0 /\ UNCHANGED seq

Pop ==
  \/ Empty
  \/ seq # << >> /\ seq' = Tail(seq) /\ out' = <<Head(seq)>> /\ ret' = 1

Peek ==
  \/ Empty
  \/ seq # << >> /\ out' = <<Head(seq)>> /\ ret' = 1 /\ UNCHANGED seq

GetAt(i) ==
  /\ out' = IF i < Len(seq) THEN <<seq[i + 1]>> ELSE << >>
  /\ ret' = Len(out')
  /\ UNCHANGED seq

Clear == seq' = << >> /\ out' = << >> /\ ret' = 0

AskLength ==
  /\ ret' \in Nat
  /\ seq # << >> => ret' = Len(seq)
  /\ out' = << >>
  /\ UNCHANGED seq

Next ==
  \/ \E v \in Values : Push(v) \/ Enqueue(v)
  \/ Pop \/ Peek \/ Clear \/ AskLength
  \/ \E i \in Indices : GetAt(i)

Spec == Init /\ [][Next]_vars
=============================================================================
