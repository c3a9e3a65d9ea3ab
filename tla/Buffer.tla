------------------------------- MODULE Buffer -------------------------------
(***************************************************************************)
(* utils::Buffer (code/utils/Buffer.cpp): SIZE bytes of memory and two     *)
(* cursors into it. mem[0] is *m_buffer; start and end are the offsets of  *)
(* m_start and m_end. Every method runs under the object's lock, so one    *)
(* call is one step. out and ret are what the call hands back.             *)
(***************************************************************************)
EXTENDS Integers, Sequences

CONSTANTS Byte,    \* the byte values used; 0 is one of them
          SIZE,    \* m_size
          Inputs,  \* byte sequences that callers write and search for
          Counts   \* lengths, counts and indices that callers pass

ASSUME BufferAssumption ==
  /\ 0 \in Byte
  /\ SIZE \in Nat
  /\ Inputs \subseteq Seq(Byte)
  /\ Counts \subseteq Nat

VARIABLES mem, start, end, out, ret

vars == <<mem, start, end, out, ret>>

Offsets == 0..(SIZE - 1)

TypeOK ==
  /\ mem \in [Offsets -> Byte]
  /\ start \in Nat
  /\ end \in Nat
  /\ out \in Seq(Byte)
  /\ ret \in Nat

Init ==
  /\ mem = [i \in Offsets |-> 0]
  /\ start = 0 /\ end = 0
  /\ out = << >> /\ ret = 0

Length == IF start >= end THEN 0 ELSE end - start
Space  == IF start > end \/ end - start >= SIZE THEN 0 ELSE SIZE - (end - start)

Shorter(a, b) == IF a <= b THEN a ELSE b

(* n bytes of memory from offset i on. *)
Bytes(i, n) == [k \in 1..n |-> mem[i + k - 1]]

(* What a reader would get. *)
Contents == Bytes(start, Length)

(* memory and cursors after Defragment *)
Compacts == start > 0 /\ start # end
(* Seeded fault: Defragment moves the cursors and not the bytes.           *)
CompactMemSkipped == mem

CompactMem ==
  IF Compacts
    THEN [i \in Offsets |-> IF i < end - start THEN mem[start + i] ELSE mem[i]]
    ELSE mem
CompactStart == IF Compacts THEN 0 ELSE start
CompactEnd   == IF Compacts THEN end - start ELSE end

Defragment ==
  /\ mem' = CompactMem /\ start' = CompactStart /\ end' = CompactEnd
  /\ UNCHANGED <<out, ret>>

(* Seeded fault: cursors that met stay where they met.                     *)
SettleLeaves(s, e) == start' = s /\ end' = e

(* Both cursors go back to the base once the new start has met the end. *)
Settle(s, e) ==
  IF s >= e THEN start' = 0 /\ end' = 0 ELSE start' = s /\ end' = e

(* Write( const uint8_t *, uint32_t ); Write( const uint8_t & ) is the     *)
(* case of one byte. v is what the caller's pointer and length denote.     *)
Write(v) ==
  LET n == Shorter(Len(v), SIZE - (CompactEnd - CompactStart))
  IN  /\ IF v = << >>
           THEN UNCHANGED <<mem, start, end>>
           ELSE /\ mem' = [i \in Offsets |->
                             IF i \in CompactEnd..(CompactEnd + n - 1)
                               THEN v[i - CompactEnd + 1] ELSE CompactMem[i]]
                /\ start' = CompactStart
                /\ end' = CompactEnd + n
      /\ ret' = IF v = << >> THEN 0 ELSE n
      /\ out' = << >>

(* Read( uint8_t *, uint32_t ); Read( uint8_t & ) is the case n = 1. *)
Read(n) ==
  LET m == Shorter(n, end - start)
  IN  /\ IF start >= end \/ n = 0
           THEN out' = << >> /\ ret' = 0 /\ UNCHANGED <<start, end>>
           ELSE out' = Bytes(start, m) /\ ret' = m /\ Settle(start + m, end)
      /\ UNCHANGED mem

Peek(n) ==
  LET m == IF start >= end \/ n = 0 THEN 0 ELSE Shorter(n, end - start)
  IN  /\ out' = Bytes(start, m)
      /\ ret' = m
      /\ UNCHANGED <<mem, start, end>>

(* Peek( uint8_t &, uint32_t ) *)
PeekAt(i) ==
  LET m == IF start >= end \/ start + i >= end THEN 0 ELSE 1
  IN  /\ out' = Bytes(start + i, m)
      /\ ret' = m
      /\ UNCHANGED <<mem, start, end>>

TrimLeft(n) ==
  /\ IF n > end - start THEN start' = 0 /\ end' = 0 ELSE Settle(start + n, end)
  /\ UNCHANGED <<mem, out, ret>>

TrimRight(n) ==
  /\ IF n > end - start THEN start' = 0 /\ end' = 0 ELSE Settle(start, end - n)
  /\ UNCHANGED <<mem, out, ret>>

Clear ==
  /\ start' = 0 /\ end' = 0
  /\ mem' = [i \in Offsets |-> 0]
  /\ UNCHANGED <<out, ret>>

(* The loop of Contains: left bytes are still to be looked at. *)
Found(v) ==
  LET f[left \in 0..SIZE] ==
        /\ left >= Len(v)
        /\ \/ Bytes(end - left, Len(v)) = v
           \/ left > 0 /\ f[left - 1]
  IN  f[end - start]

Contains(v) ==
  /\ ret' = IF start # end /\ v # << >> /\ Found(v) THEN 1 ELSE 0
  /\ out' = << >>
  /\ UNCHANGED <<mem, start, end>>

AskLength == ret' = Length /\ out' = << >> /\ UNCHANGED <<mem, start, end>>
AskSpace  == ret' = Space /\ out' = << >> /\ UNCHANGED <<mem, start, end>>

Next ==
  \/ \E v \in Inputs : Write(v) \/ Contains(v)
  \/ \E n \in Counts : Read(n) \/ Peek(n) \/ PeekAt(n) \/ TrimLeft(n) \/ TrimRight(n)
  \/ Clear
  \/ Defragment
  \/ AskLength \/ AskSpace

Spec == Init /\ [][Next]_vars

-----------------------------------------------------------------------------
(* The cursors stay inside the memory and in order, and meet only at the   *)
(* base: Defragment does nothing when they are equal, so a write after     *)
(* them meeting elsewhere would run past the end of the allocation.        *)
CursorsInside ==
  /\ start <= end /\ end <= SIZE
  /\ start = end => start = 0

(* Reads, trims, compactions and truncated writes in any order deliver the *)
(* bytes of a bounded queue, and Length and Space account for its whole    *)
(* capacity, wherever the cursors stand.                                   *)
Fifo == INSTANCE ByteFifo WITH queue <- Contents
ImplementsByteFifo == Fifo!Spec
=============================================================================
