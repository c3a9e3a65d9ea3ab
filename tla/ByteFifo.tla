------------------------------ MODULE ByteFifo ------------------------------
(***************************************************************************)
(* What utils::Buffer promises: a queue of at most SIZE bytes. A write     *)
(* takes what fits, a read or a trim takes what is there. out is what the  *)
(* last call delivered, ret the number it returned.                        *)
(***************************************************************************)
EXTENDS Integers, Sequences

CONSTANTS Byte, SIZE, Inputs, Counts

VARIABLES queue, out, ret

vars == <<queue, out, ret>>

Least(a, b) == IF a <= b THEN a ELSE b
Drop(n) == SubSeq(queue, n + 1, Len(queue))

Init == queue = << >> /\ out = << >> /\ ret = 0

Write(v) ==
  LET n == Least(Len(v), SIZE - Len(queue))
  IN  /\ queue' = queue \o SubSeq(v, 1, n)
      /\ ret' = n
      /\ out' = << >>

Read(n) ==
  LET m == Least(n, Len(queue))
  IN  /\ out' = SubSeq(queue, 1, m)
      /\ ret' = m
      /\ queue' = Drop(m)

Peek(n) ==
  LET m == Least(n, Len(queue))
  IN  /\ out' = SubSeq(queue, 1, m)
      /\ ret' = m
      /\ UNCHANGED queue

PeekAt(i) ==
  /\ out' = SubSeq(queue, i + 1, Least(i + 1, Len(queue)))
  /\ ret' = IF i < Len(queue) THEN 1 ELSE 0
  /\ UNCHANGED queue

TrimLeft(n) ==
  /\ queue' = Drop(Least(n, Len(queue)))
  /\ UNCHANGED <<out, ret>>

TrimRight(n) ==
  /\ queue' = SubSeq(queue, 1, Len(queue) - Least(n, Len(queue)))
  /\ UNCHANGED <<out, ret>>

Clear ==
  /\ queue' = << >>
  /\ UNCHANGED <<out, ret>>

(* Whether v occurs in the queue; an empty v occurs nowhere. *)
Contains(v) ==
  /\ ret' = IF v # << >> /\ \E i \in 0..(Len(queue) - Len(v)) :
                              SubSeq(queue, i + 1, i + Len(v)) = v
            THEN 1 ELSE 0
  /\ out' = << >>
  /\ UNCHANGED queue

AskLength == ret' = Len(queue) /\ out' = << >> /\ UNCHANGED queue
AskSpace  == ret' = SIZE - Len(queue) /\ out' = << >> /\ UNCHANGED queue

Next ==
  \/ \E v \in Inputs : Write(v) \/ Contains(v)
  \/ \E n \in Counts : Read(n) \/ Peek(n) \/ PeekAt(n) \/ TrimLeft(n) \/ TrimRight(n)
  \/ Clear
  \/ AskLength \/ AskSpace

Spec == Init /\ [][Next]_vars
=============================================================================
