---------------------------- MODULE BufferProofs ----------------------------
(***************************************************************************)
(* utils::Buffer for every capacity and every input: its cursors never     *)
(* leave the memory, and it is a bounded queue.                            *)
(***************************************************************************)
EXTENDS Buffer, SequenceTheorems, WellFoundedInduction, TLAPS

IInv == TypeOK /\ CursorsInside

(* A stretch of the memory is a sequence of bytes. *)
LEMMA BytesType ==
  ASSUME TypeOK, NEW i \in Nat, NEW n \in Nat, i + n <= SIZE
  PROVE  /\ Bytes(i, n) \in Seq(Byte) /\ Len(Bytes(i, n)) = n
         /\ \A k \in 1..n : Bytes(i, n)[k] = mem[i + k - 1]
BY BufferAssumption DEF Bytes, TypeOK, Offsets

LEMMA InitIInv == Init => IInv
BY BufferAssumption DEF Init, IInv, TypeOK, CursorsInside, Offsets

(* Every call keeps the cursors in order and inside. *)
LEMMA StepIInv == IInv /\ [Next]_vars => IInv'
<1> SUFFICES ASSUME IInv, [Next]_vars PROVE IInv'
  OBVIOUS
<1> USE BufferAssumption DEF IInv, TypeOK, CursorsInside, Settle, Shorter, Offsets
<1>1. ASSUME NEW v \in Inputs, Write(v) PROVE IInv'
  <2> DEFINE n == Shorter(Len(v), SIZE - (CompactEnd - CompactStart))
  <2>1. /\ CompactEnd - CompactStart = end - start
        /\ CompactStart = 0 /\ CompactEnd \in 0..SIZE
        /\ CompactMem \in [Offsets -> Byte]
    BY DEF CompactEnd, CompactStart, CompactMem, Compacts
  <2>2. v \in Seq(Byte) /\ Len(v) \in Nat
    OBVIOUS
  <2>3. n \in Nat /\ n <= Len(v) /\ CompactEnd + n <= SIZE
    BY <2>1, <2>2
  <2>4. CASE v = << >>
    BY <1>1, <2>4 DEF Write
  <2>5. CASE v # << >>
    <3>1. \A i \in Offsets : i \in CompactEnd..(CompactEnd + n - 1) =>
                               v[i - CompactEnd + 1] \in Byte
      BY <2>1, <2>2, <2>3
    <3>2. mem' \in [Offsets -> Byte]
      BY <1>1, <2>1, <2>5, <3>1 DEF Write
    <3>3. start' = 0 /\ end' = CompactEnd + n /\ ret' = n /\ out' = << >>
      BY <1>1, <2>1, <2>5 DEF Write
    <3> QED
      BY <2>1, <2>3, <3>2, <3>3
  <2> QED
    BY <2>4, <2>5
<1>2. ASSUME NEW v \in Inputs, Contains(v) PROVE IInv'
  BY <1>2 DEF Contains
<1>3. ASSUME NEW n \in Counts, Read(n) PROVE IInv'
  <2> DEFINE m == Shorter(n, end - start)
  <2>1. start \in Nat /\ end \in Nat /\ SIZE \in Nat /\ n \in Nat
        /\ start <= end /\ end <= SIZE
    OBVIOUS
  <2>2. m \in Nat /\ start + m <= end /\ start + m <= SIZE
    BY <2>1
  <2> HIDE DEF m
  <2>3. Bytes(start, m) \in Seq(Byte)
    BY <2>1, <2>2, BytesType
  <2>4. CASE start >= end \/ n = 0
    BY <1>3, <2>4 DEF Read
  <2>5. CASE ~(start >= end \/ n = 0)
    <3>1. out' = Bytes(start, m) /\ ret' = m /\ Settle(start + m, end) /\ UNCHANGED mem
      BY <1>3, <2>5 DEF Read, m
    <3> QED
      BY <2>1, <2>2, <2>3, <3>1
  <2> QED
    BY <2>4, <2>5
<1>4. ASSUME NEW n \in Counts, Peek(n) PROVE IInv'
  <2> DEFINE m == IF start >= end \/ n = 0 THEN 0 ELSE Shorter(n, end - start)
  <2>1. m \in Nat /\ start + m <= SIZE
    OBVIOUS
  <2>2. Bytes(start, m) \in Seq(Byte)
    BY <2>1, BytesType
  <2>3. out' = Bytes(start, m) /\ ret' = m /\ UNCHANGED <<mem, start, end>>
    BY <1>4 DEF Peek
  <2> HIDE DEF m
  <2> QED
    BY <2>1, <2>2, <2>3
<1>5. ASSUME NEW n \in Counts, PeekAt(n) PROVE IInv'
  <2> DEFINE m == IF start >= end \/ start + n >= end THEN 0 ELSE 1
  <2>1. m \in Nat /\ (m # 0 => start + n + m <= SIZE) /\ start + n \in Nat
    OBVIOUS
  <2>2. Bytes(start + n, m) \in Seq(Byte)
    <3>1. CASE m = 0
      <4>1. Bytes(start + n, 0) = << >>
        BY DEF Bytes
      <4>2. << >> \in Seq(Byte)
        OBVIOUS
      <4> HIDE DEF m
      <4> QED
        BY <3>1, <4>1, <4>2
    <3>2. CASE m # 0
      BY <2>1, <3>2, BytesType
    <3> QED
      BY <3>1, <3>2
  <2>3. out' = Bytes(start + n, m) /\ ret' = m /\ UNCHANGED <<mem, start, end>>
    BY <1>5 DEF PeekAt
  <2> HIDE DEF m
  <2> QED
    BY <2>1, <2>2, <2>3
<1>6. ASSUME NEW n \in Counts, TrimLeft(n) \/ TrimRight(n) PROVE IInv'
  BY <1>6 DEF TrimLeft, TrimRight
<1>7. CASE Clear
  BY <1>7 DEF Clear
<1>8. CASE Defragment
  BY <1>8 DEF Defragment, CompactMem, CompactStart, CompactEnd, Compacts
<1>9. CASE AskLength \/ AskSpace
  BY <1>9 DEF AskLength, AskSpace, Length, Space
<1>10. CASE UNCHANGED vars
  BY <1>10 DEF vars
<1> QED
  BY <1>1, <1>2, <1>3, <1>4, <1>5, <1>6, <1>7, <1>8, <1>9, <1>10 DEF Next

LEMMA AlwaysIInv == Spec => []IInv
BY InitIInv, StepIInv, PTL DEF Spec

(* Memory, cursors and results keep their types for every capacity.        *)
THEOREM TypeCorrect == Spec => []TypeOK
<1>1. IInv => TypeOK
  BY DEF IInv
<1> QED
  BY <1>1, AlwaysIInv, PTL

(* No sequence of calls makes a write run past the allocation.             *)
THEOREM CursorsCorrect == Spec => []CursorsInside
<1>1. IInv => CursorsInside
  BY DEF IInv
<1> QED
  BY <1>1, AlwaysIInv, PTL

-----------------------------------------------------------------------------
(* A stretch of one memory or another: Bytes and Contents, now and after a *)
(* call.                                                                   *)
Stretch(m, i, n) == [k \in 1..n |-> m[i + k - 1]]

LEMMA StretchIs ==
  ASSUME NEW m \in [Offsets -> Byte], NEW i \in Nat, NEW n \in Nat, i + n <= SIZE
  PROVE  /\ Stretch(m, i, n) \in Seq(Byte) /\ Len(Stretch(m, i, n)) = n
         /\ \A k \in 1..n : Stretch(m, i, n)[k] = m[i + k - 1]
<1>1. \A k \in 1..n : m[i + k - 1] \in Byte
  BY BufferAssumption DEF Offsets
<1> QED
  BY <1>1 DEF Stretch

LEMMA StretchEmpty == \A m, i : Stretch(m, i, 0) = << >>
BY DEF Stretch

(* A part of a stretch is one. *)
Cut(s, a, b) == SubSeq(s, a + 1, b)

LEMMA StretchPart ==
  ASSUME NEW m \in [Offsets -> Byte], NEW i \in Nat, NEW n \in Nat, i + n <= SIZE,
         NEW a \in Nat, NEW b \in Nat, a <= b, b <= n
  PROVE  Cut(Stretch(m, i, n), a, b) = Stretch(m, i + a, b - a)
<1> USE DEF Cut
<1> DEFINE s == Stretch(m, i, n)
           t == SubSeq(s, a + 1, b)
           u == Stretch(m, i + a, b - a)
<1>1. s \in Seq(Byte) /\ Len(s) = n /\ \A k \in 1..n : s[k] = m[i + k - 1]
  BY StretchIs
<1>2. u \in Seq(Byte) /\ Len(u) = b - a /\ \A k \in 1..(b - a) : u[k] = m[i + a + k - 1]
  <2>1. i + a \in Nat /\ b - a \in Nat /\ i + a + (b - a) <= SIZE
    BY BufferAssumption
  <2> QED
    BY <2>1, StretchIs
<1> HIDE DEF s, u
<1>3. CASE a = b
  <2>1. t = << >>
    BY <1>1, <1>3
  <2>2. u = << >>
    BY <1>2, <1>3
  <2> QED
    BY <2>1, <2>2 DEF s, u
<1>4. CASE a # b
  <2>1. a + 1 \in 1..Len(s) /\ b \in (a + 1)..Len(s)
    BY <1>1, <1>4
  <2>2. t \in Seq(Byte) /\ Len(t) = b - a /\ \A k \in 1..(b - a) : t[k] = s[a + k]
    <3>1. /\ t \in Seq(Byte) /\ Len(t) = b - (a + 1) + 1
          /\ \A k \in 1..(b - (a + 1) + 1) : t[k] = s[a + 1 + k - 1]
      BY <1>1, <2>1, SubSeqProperties
    <3>2. b - (a + 1) + 1 = b - a /\ \A k \in Int : a + 1 + k - 1 = a + k
      OBVIOUS
    <3> QED
      BY <3>1, <3>2
  <2>3. ASSUME NEW k \in 1..(b - a) PROVE t[k] = u[k]
    <3>1. a + k \in 1..n /\ i + (a + k) - 1 = i + a + k - 1
      OBVIOUS
    <3> QED
      BY <1>1, <1>2, <2>2, <3>1
  <2> HIDE DEF t
  <2>4. t = u
    BY <1>2, <2>2, <2>3, SeqEqual
  <2> QED
    BY <2>4 DEF t, s, u
<1> QED
  BY <1>3, <1>4

(* What a reader would get, before and after a step, and the variables of  *)
(* the queue that it is.                                                   *)
LEMMA ContentsAre ==
  ASSUME IInv
  PROVE  /\ Contents = Stretch(mem, start, end - start)
         /\ Length = end - start /\ end - start \in Nat
         /\ Contents \in Seq(Byte) /\ Len(Contents) = end - start
<1>1. /\ start \in Nat /\ end \in Nat /\ SIZE \in Nat /\ start <= end /\ end <= SIZE
      /\ mem \in [Offsets -> Byte] /\ Length = end - start
  BY BufferAssumption DEF IInv, TypeOK, CursorsInside, Length
<1>2. Contents = Stretch(mem, start, end - start)
  BY <1>1 DEF Contents, Bytes, Stretch
<1>3. end - start \in Nat /\ start + (end - start) <= SIZE
  BY <1>1
<1> QED
  BY <1>1, <1>2, <1>3, StretchIs

LEMMA ContentsBecome ==
  ASSUME IInv'
  PROVE  /\ Contents' = Stretch(mem', start', end' - start')
         /\ Contents' \in Seq(Byte) /\ Len(Contents') = end' - start'
<1>1. /\ start' \in Nat /\ end' \in Nat /\ SIZE \in Nat /\ start' <= end' /\ end' <= SIZE
      /\ mem' \in [Offsets -> Byte] /\ Length' = end' - start'
  <2>1. mem' \in [Offsets -> Byte]
    BY DEF IInv, TypeOK
  <2>2. start' \in Nat /\ end' \in Nat /\ SIZE \in Nat /\ start' <= end' /\ end' <= SIZE
    BY BufferAssumption DEF IInv, TypeOK, CursorsInside
  <2>3. Length' = end' - start'
    <3> DEFINE s == start'
               e == end'
    <3>1. s \in Nat /\ e \in Nat /\ s <= e /\ Length' = IF s >= e THEN 0 ELSE e - s
      BY <2>2 DEF Length
    <3> HIDE DEF s, e
    <3>2. Length' = e - s
      BY <3>1
    <3> QED
      BY <3>2 DEF s, e
  <2> QED
    BY <2>1, <2>2, <2>3
<1>2. Contents' = Stretch(mem', start', end' - start')
  BY <1>1 DEF Contents, Bytes, Stretch
<1>3. end' - start' \in Nat /\ start' + (end' - start') <= SIZE
  <2> DEFINE s == start'
             e == end'
  <2>1. s \in Nat /\ e \in Nat /\ SIZE \in Nat /\ s <= e /\ e <= SIZE
    BY <1>1
  <2> HIDE DEF s, e
  <2>2. e - s \in Nat /\ s + (e - s) <= SIZE
    BY <2>1
  <2> QED
    BY <2>2 DEF s, e
<1> QED
  BY <1>1, <1>2, <1>3, StretchIs

(* Offsets and lengths are numbers inside of the memory. *)
LEMMA Inside ==
  ASSUME IInv
  PROVE  /\ start \in Nat /\ end \in Nat /\ SIZE \in Nat /\ start <= end /\ end <= SIZE
         /\ mem \in [Offsets -> Byte]
         /\ start + (end - start) <= SIZE
         /\ start = end => start = 0 /\ end = 0
         /\ Counts \subseteq Nat
BY BufferAssumption DEF IInv, TypeOK, CursorsInside

LEMMA PartOfContents ==
  ASSUME IInv, NEW a \in Nat, NEW b \in Nat, a <= b, b <= end - start
  PROVE  /\ SubSeq(Contents, a + 1, b) = Stretch(mem, start + a, b - a)
         /\ a = 0 => SubSeq(Contents, 1, b) = Stretch(mem, start, b)
<1> DEFINE n == end - start
<1>1. /\ start \in Nat /\ n \in Nat /\ start + n <= SIZE /\ mem \in [Offsets -> Byte]
      /\ b <= n
  BY Inside, ContentsAre
<1>4. Contents = Stretch(mem, start, n)
  BY ContentsAre
<1> HIDE DEF n
<1>5. Cut(Stretch(mem, start, n), a, b) = Stretch(mem, start + a, b - a)
  BY <1>1, StretchPart
<1>2. SubSeq(Contents, a + 1, b) = Stretch(mem, start + a, b - a)
  BY <1>4, <1>5 DEF Cut
<1>3. a = 0 => a + 1 = 1 /\ start + a = start /\ b - a = b
  BY <1>1
<1> QED
  BY <1>2, <1>3

LEMMA ReadIs == ASSUME IInv, IInv', NEW n \in Counts, Read(n) PROVE Fifo!Read(n)
<1> DEFINE l == end - start
           m == IF n <= l THEN n ELSE l
<1>1. /\ start \in Nat /\ n \in Nat /\ l \in Nat /\ start + l <= SIZE
      /\ mem \in [Offsets -> Byte] /\ end = start + l
  BY Inside
<1>2. m \in Nat /\ m <= l
  BY <1>1
<1>3. Contents = Stretch(mem, start, l) /\ Len(Contents) = l /\ Contents \in Seq(Byte)
  BY ContentsAre
<1>4. Contents' = Stretch(mem', start', end' - start') /\ mem' = mem
  BY ContentsBecome DEF Read
<1> HIDE DEF l
<1>5. SubSeq(Contents, 1, m) = Stretch(mem, start, m)
  <2> HIDE DEF m
  <2> QED
    BY <1>2, PartOfContents DEF l
<1>6. SubSeq(Contents, m + 1, l) = Stretch(mem, start + m, l - m)
  <2> HIDE DEF m
  <2> QED
    BY <1>1, <1>2, PartOfContents DEF l
<1>8. CASE start >= end \/ n = 0
  <2>1. m = 0
    BY <1>1, <1>8
  <2>2. out' = << >> /\ ret' = 0 /\ start' = start /\ end' = end
    BY <1>8 DEF Read
  <2>3. SubSeq(Contents, 1, 0) = << >> /\ SubSeq(Contents, 1, l) = Contents
    BY <1>3
  <2>4. Contents' = Contents
    BY <1>3, <1>4, <2>2 DEF l
  <2> QED
    BY <1>3, <2>1, <2>2, <2>3, <2>4 DEF Fifo!Read, Fifo!Least, Fifo!Drop
<1>9. CASE ~(start >= end \/ n = 0)
  <2>1. Shorter(n, end - start) = m
    BY DEF Shorter, l
  <2>2. out' = Stretch(mem, start, m) /\ ret' = m /\ Settle(start + m, end)
    BY <1>9, <2>1 DEF Read, Bytes, Stretch
  <2>3. Contents' = Stretch(mem, start + m, l - m)
    <3>1. CASE start + m >= end
      <4>1. start' = 0 /\ end' = 0 /\ l - m = 0
        BY <1>1, <1>2, <2>2, <3>1 DEF Settle
      <4>2. Contents' = Stretch(mem, 0, 0)
        BY <1>4, <4>1
      <4> QED
        BY <4>1, <4>2, StretchEmpty
    <3>2. CASE ~(start + m >= end)
      <4>1. start' = start + m /\ end' = end /\ end - (start + m) = l - m
        BY <1>1, <1>2, <2>2, <3>2 DEF Settle
      <4> QED
        BY <1>4, <4>1
    <3> QED
      BY <3>1, <3>2
  <2>4. Fifo!Least(n, Len(Contents)) = m
    BY <1>3 DEF Fifo!Least
  <2> HIDE DEF m
  <2> QED
    BY <1>3, <1>5, <1>6, <2>2, <2>3, <2>4 DEF Fifo!Read, Fifo!Drop
<1> QED
  BY <1>8, <1>9

LEMMA PeekIs == ASSUME IInv, IInv', NEW n \in Counts, Peek(n) PROVE Fifo!Peek(n)
<1> DEFINE l == end - start
           m == IF n <= l THEN n ELSE l
<1>1. /\ start \in Nat /\ n \in Nat /\ l \in Nat /\ start + l <= SIZE
      /\ mem \in [Offsets -> Byte] /\ end = start + l
  BY Inside
<1>2. m \in Nat /\ m <= l
  BY <1>1
<1>3. Contents = Stretch(mem, start, l) /\ Len(Contents) = l
  BY ContentsAre
<1>4. Contents' = Contents
  BY <1>3, ContentsBecome DEF Peek
<1>5. (IF start >= end \/ n = 0 THEN 0 ELSE Shorter(n, end - start)) = m
  BY <1>1 DEF Shorter
<1> HIDE DEF l, m
<1>6. out' = Stretch(mem, start, m) /\ ret' = m
  BY <1>5 DEF Peek, Bytes, Stretch
<1>7. SubSeq(Contents, 1, m) = Stretch(mem, start, m)
  BY <1>2, PartOfContents DEF l
<1>8. Fifo!Least(n, Len(Contents)) = m
  BY <1>3 DEF Fifo!Least, m
<1> QED
  BY <1>4, <1>6, <1>7, <1>8 DEF Fifo!Peek

LEMMA PeekAtIs == ASSUME IInv, IInv', NEW i \in Counts, PeekAt(i) PROVE Fifo!PeekAt(i)
<1> DEFINE l == end - start
<1>1. /\ start \in Nat /\ i \in Nat /\ l \in Nat /\ start + l <= SIZE
      /\ mem \in [Offsets -> Byte] /\ end = start + l
  BY Inside
<1>2. Contents = Stretch(mem, start, l) /\ Len(Contents) = l
  BY ContentsAre
<1>3. Contents' = Contents
  BY <1>2, ContentsBecome DEF PeekAt
<1> HIDE DEF l
<1>4. CASE i < l
  <2>1. ~(start >= end \/ start + i >= end)
    BY <1>1, <1>4
  <2>2. out' = Stretch(mem, start + i, 1) /\ ret' = 1
    BY <2>1 DEF PeekAt, Bytes, Stretch
  <2>3. SubSeq(Contents, i + 1, i + 1) = Stretch(mem, start + i, (i + 1) - i)
    <3>1. i + 1 \in Nat /\ i <= i + 1 /\ i + 1 <= end - start
      BY <1>1, <1>4 DEF l
    <3> QED
      BY <1>1, <3>1, PartOfContents
  <2>4. (i + 1) - i = 1 /\ Fifo!Least(i + 1, Len(Contents)) = i + 1
    BY <1>1, <1>2, <1>4 DEF Fifo!Least
  <2> QED
    BY <1>2, <1>3, <1>4, <2>2, <2>3, <2>4 DEF Fifo!PeekAt
<1>5. CASE ~(i < l)
  <2>1. start >= end \/ start + i >= end
    BY <1>1, <1>5
  <2>2. out' = Stretch(mem, start + i, 0) /\ ret' = 0
    BY <2>1 DEF PeekAt, Bytes, Stretch
  <2>3. out' = << >>
    BY <2>2, StretchEmpty
  <2>4. Fifo!Least(i + 1, Len(Contents)) = l
    BY <1>1, <1>2, <1>5 DEF Fifo!Least
  <2>5. SubSeq(Contents, i + 1, l) = << >>
    BY <1>1, <1>5, SubSeqEmpty
  <2> QED
    BY <1>2, <1>3, <1>5, <2>2, <2>3, <2>4, <2>5 DEF Fifo!PeekAt
<1> QED
  BY <1>4, <1>5

LEMMA TrimLeftIs == ASSUME IInv, IInv', NEW n \in Counts, TrimLeft(n) PROVE Fifo!TrimLeft(n)
<1> DEFINE l == end - start
           m == IF n <= l THEN n ELSE l
<1>1. /\ start \in Nat /\ n \in Nat /\ l \in Nat /\ start + l <= SIZE
      /\ mem \in [Offsets -> Byte] /\ end = start + l
  BY Inside
<1>2. m \in Nat /\ m <= l
  BY <1>1
<1>3. Contents = Stretch(mem, start, l) /\ Len(Contents) = l
  BY ContentsAre
<1>4. Contents' = Stretch(mem', start', end' - start') /\ mem' = mem
  BY ContentsBecome DEF TrimLeft
<1> HIDE DEF l
<1>5. Fifo!Least(n, Len(Contents)) = m
  BY <1>3 DEF Fifo!Least
<1>6. SubSeq(Contents, m + 1, l) = Stretch(mem, start + m, l - m)
  <2> HIDE DEF m
  <2> QED
    BY <1>1, <1>2, PartOfContents DEF l
<1>7. CASE start + n >= end
  <2>1. start' = 0 /\ end' = 0
    BY <1>7 DEF TrimLeft, Settle
  <2>2. Contents' = << >>
    BY <1>4, <2>1, StretchEmpty
  <2>3. l - m = 0
    BY <1>1, <1>7
  <2> HIDE DEF m
  <2> QED
    BY <1>3, <1>5, <1>6, <2>2, <2>3, StretchEmpty DEF TrimLeft, Fifo!TrimLeft, Fifo!Drop
<1>8. CASE ~(start + n >= end)
  <2>1. start' = start + n /\ end' = end /\ m = n
    BY <1>1, <1>8 DEF TrimLeft, Settle, l
  <2>2. end' - start' = l - m
    BY <1>1, <2>1
  <2> HIDE DEF m
  <2> QED
    BY <1>3, <1>4, <1>5, <1>6, <2>1, <2>2 DEF TrimLeft, Fifo!TrimLeft, Fifo!Drop
<1> QED
  BY <1>7, <1>8

LEMMA TrimRightIs == ASSUME IInv, IInv', NEW n \in Counts, TrimRight(n) PROVE Fifo!TrimRight(n)
<1> DEFINE l == end - start
           m == IF n <= l THEN n ELSE l
<1>1. /\ start \in Nat /\ n \in Nat /\ l \in Nat /\ start + l <= SIZE
      /\ mem \in [Offsets -> Byte] /\ end = start + l
  BY Inside
<1>2. l - m \in Nat /\ l - m <= l
  BY <1>1
<1>3. Contents = Stretch(mem, start, l) /\ Len(Contents) = l
  BY ContentsAre
<1>4. Contents' = Stretch(mem', start', end' - start') /\ mem' = mem
  BY ContentsBecome DEF TrimRight
<1> HIDE DEF l
<1>5. Fifo!Least(n, Len(Contents)) = m
  BY <1>3 DEF Fifo!Least
<1>6. SubSeq(Contents, 1, l - m) = Stretch(mem, start, l - m)
  <2> DEFINE k == l - m
  <2>1. k \in Nat /\ k <= end - start
    BY <1>2 DEF l
  <2> HIDE DEF k
  <2>2. SubSeq(Contents, 1, k) = Stretch(mem, start, k)
    BY <2>1, PartOfContents
  <2> QED
    BY <2>2 DEF k
<1>7. CASE n >= l
  <2>1. start' = 0 /\ end' = 0
    BY <1>1, <1>7 DEF TrimRight, Settle, l
  <2>2. Contents' = << >>
    BY <1>4, <2>1, StretchEmpty
  <2>3. l - m = 0
    BY <1>1, <1>7
  <2> HIDE DEF m
  <2> QED
    BY <1>3, <1>5, <1>6, <2>2, <2>3, StretchEmpty DEF TrimRight, Fifo!TrimRight
<1>8. CASE ~(n >= l)
  <2>1. start' = start /\ end' = end - n /\ m = n
    BY <1>1, <1>8 DEF TrimRight, Settle, l
  <2>2. end' - start' = l - m
    BY <1>1, <2>1
  <2> HIDE DEF m
  <2> QED
    BY <1>3, <1>4, <1>5, <1>6, <2>1, <2>2 DEF TrimRight, Fifo!TrimRight
<1> QED
  BY <1>7, <1>8

(* Compaction moves the bytes and changes nothing that a reader would get. *)
LEMMA CompactIs ==
  ASSUME IInv
  PROVE  /\ CompactStart = 0 /\ CompactEnd = end - start
         /\ CompactMem \in [Offsets -> Byte]
         /\ \A i \in 0..(end - start - 1) : CompactMem[i] = mem[start + i]
<1>1. /\ start \in Nat /\ end \in Nat /\ SIZE \in Nat /\ start <= end /\ end <= SIZE
      /\ mem \in [Offsets -> Byte] /\ (start = end => start = 0)
  BY Inside
<1>2. CASE Compacts
  BY <1>1, <1>2 DEF Compacts, CompactStart, CompactEnd, CompactMem, Offsets
<1>3. CASE ~Compacts
  BY <1>1, <1>3 DEF Compacts, CompactStart, CompactEnd, CompactMem, Offsets
<1> QED
  BY <1>2, <1>3

LEMMA DefragmentIs == ASSUME IInv, IInv', Defragment PROVE UNCHANGED Fifo!vars
<1> DEFINE l == end - start
<1>1. Contents \in Seq(Byte) /\ Len(Contents) = l /\ l \in Nat
      /\ Contents = Stretch(mem, start, l)
  BY ContentsAre
<1>2. mem' = CompactMem /\ start' = 0 /\ end' = l /\ UNCHANGED <<out, ret>>
  BY CompactIs DEF Defragment
<1>3. \A i \in 0..(l - 1) : CompactMem[i] = mem[start + i]
  BY CompactIs
<1>4. start \in Nat
  BY Inside
<1> HIDE DEF l
<1>5. l - 0 = l
  BY <1>1
<1>6. Contents' = Stretch(CompactMem, 0, l)
  BY <1>2, <1>5, ContentsBecome
<1>7. ASSUME NEW k \in 1..l PROVE CompactMem[0 + k - 1] = mem[start + k - 1]
  <2>1. k - 1 \in 0..(l - 1) /\ start + (k - 1) = start + k - 1 /\ 0 + k - 1 = k - 1
    BY <1>1, <1>4
  <2> QED
    BY <1>3, <2>1
<1>8. Contents' = Contents
  BY <1>1, <1>6, <1>7 DEF Stretch
<1> QED
  BY <1>2, <1>8 DEF Fifo!vars

LEMMA WriteIs == ASSUME IInv, IInv', NEW v \in Inputs, Write(v) PROVE Fifo!Write(v)
<1> DEFINE l == end - start
           n == IF Len(v) <= SIZE - l THEN Len(v) ELSE SIZE - l
<1>1. /\ start \in Nat /\ l \in Nat /\ SIZE \in Nat /\ l <= SIZE
      /\ v \in Seq(Byte) /\ Len(v) \in Nat
  BY Inside, BufferAssumption
<1>2. n \in Nat /\ n <= Len(v) /\ n <= SIZE - l
  BY <1>1
<1>3. /\ Contents \in Seq(Byte) /\ Len(Contents) = l
      /\ Contents = Stretch(mem, start, l)
  BY ContentsAre
<1>4. CompactStart = 0 /\ CompactEnd = l
      /\ \A i \in 0..(l - 1) : CompactMem[i] = mem[start + i]
  BY CompactIs
<1>5. Fifo!Least(Len(v), SIZE - Len(Contents)) = n
  BY <1>3 DEF Fifo!Least
<1> HIDE DEF l
<1>6. l - 0 = l
  BY <1>1
<1>7. Shorter(Len(v), SIZE - (CompactEnd - CompactStart)) = n
  BY <1>4, <1>6 DEF Shorter
<1> HIDE DEF n
<1>8. SubSeq(v, 1, n) \in Seq(Byte) /\ Len(SubSeq(v, 1, n)) = n
      /\ \A k \in 1..n : SubSeq(v, 1, n)[k] = v[k]
  <2>1. \A k \in 1..n : v[k] \in Byte
    BY <1>1, <1>2
  <2>2. /\ SubSeq(v, 1, n) \in Seq(Byte)
        /\ Len(SubSeq(v, 1, n)) = IF 1 <= n THEN n - 1 + 1 ELSE 0
        /\ \A k \in 1..(n - 1 + 1) : SubSeq(v, 1, n)[k] = v[1 + k - 1]
    BY <1>2, <2>1, SubSeqProperties
  <2>3. n - 1 + 1 = n /\ \A k \in Int : 1 + k - 1 = k
    BY <1>2
  <2> QED
    BY <1>2, <2>2, <2>3
<1>9. CASE v = << >>
  <2>1. Len(v) = 0 /\ n = 0
    BY <1>2, <1>9, EmptySeq
  <2>2. UNCHANGED <<mem, start, end>> /\ ret' = 0 /\ out' = << >>
    BY <1>9 DEF Write
  <2>3. Contents' = Contents
    BY <1>3, <2>2, ContentsBecome DEF l
  <2>4. SubSeq(v, 1, n) = << >>
    BY <1>8, <2>1
  <2>5. Contents \o << >> = Contents
    BY <1>3
  <2> QED
    BY <1>5, <2>1, <2>2, <2>3, <2>4, <2>5 DEF Fifo!Write
<1>10. CASE v # << >>
  <2>1. /\ mem' = [i \in Offsets |->
                     IF i \in l..(l + n - 1) THEN v[i - l + 1] ELSE CompactMem[i]]
        /\ start' = 0 /\ end' = l + n /\ ret' = n /\ out' = << >>
    BY <1>4, <1>7, <1>10 DEF Write
  <2>2. (l + n) - 0 = l + n
    BY <1>1, <1>2
  <2>3. Contents' = Stretch(mem', 0, l + n) /\ Contents' \in Seq(Byte) /\ Len(Contents') = l + n
    BY <2>1, <2>2, ContentsBecome
  <2> DEFINE r == SubSeq(v, 1, n)
             s == Contents
  <2>4. s \in Seq(Byte) /\ Len(s) = l /\ r \in Seq(Byte) /\ Len(r) = n
    BY <1>3, <1>8
  <2>5. s \o r \in Seq(Byte) /\ Len(s \o r) = l + n
        /\ \A k \in 1..(l + n) : (s \o r)[k] = IF k <= l THEN s[k] ELSE r[k - l]
    <3> HIDE DEF r, s
    <3> QED
      BY <2>4, ConcatProperties
  <2>6. ASSUME NEW k \in 1..(l + n) PROVE Contents'[k] = (s \o r)[k]
    <3>1. k - 1 \in Offsets /\ 0 + k - 1 = k - 1
      BY <1>1, <1>2 DEF Offsets
    <3>2. Contents'[k] = mem'[k - 1]
      BY <2>3, <3>1 DEF Stretch
    <3>3. CASE k <= l
      <4>1. k - 1 \notin l..(l + n - 1) /\ k - 1 \in 0..(l - 1) /\ k \in 1..l
            /\ start + (k - 1) = start + k - 1
        BY <1>1, <1>2, <3>3
      <4>2. mem'[k - 1] = CompactMem[k - 1]
        BY <2>1, <3>1, <4>1
      <4>3. CompactMem[k - 1] = mem[start + k - 1]
        BY <1>4, <4>1
      <4>4. s[k] = mem[start + k - 1]
        BY <1>3, <4>1 DEF Stretch
      <4>5. (s \o r)[k] = s[k]
        BY <2>5, <3>3
      <4> QED
        BY <3>2, <4>2, <4>3, <4>4, <4>5
    <3>4. CASE ~(k <= l)
      <4>1. k - 1 \in l..(l + n - 1) /\ (k - 1) - l + 1 = k - l /\ k - l \in 1..n
        BY <1>1, <1>2, <3>4
      <4>2. mem'[k - 1] = v[k - l]
        BY <2>1, <3>1, <4>1
      <4>3. r[k - l] = v[k - l]
        BY <1>8, <4>1
      <4>4. (s \o r)[k] = r[k - l]
        BY <2>5, <3>4
      <4> QED
        BY <3>2, <4>2, <4>3, <4>4
    <3> QED
      BY <3>3, <3>4
  <2>7. Contents' = s \o r
    <3> DEFINE c == Contents'
               t == s \o r
    <3>1. c \in Seq(Byte) /\ t \in Seq(Byte) /\ Len(c) = l + n /\ Len(t) = l + n
          /\ \A k \in 1..(l + n) : c[k] = t[k]
      BY <2>3, <2>5, <2>6
    <3> HIDE DEF c, t
    <3>2. c = t
      BY <3>1, SeqEqual
    <3> QED
      BY <3>2 DEF c, t
  <2> QED
    BY <1>5, <2>1, <2>7 DEF Fifo!Write
<1> QED
  BY <1>9, <1>10

-----------------------------------------------------------------------------
(* A set of numbers has a least one: what a recursive function computes is *)
(* shown by the least argument for which it would not.                     *)
LEMMA LeastNumber ==
  ASSUME NEW T, T \subseteq Nat, T # {}
  PROVE  \E m \in T : \A y \in T : m <= y
<1> DEFINE R == {ss \in Nat \X Nat : ss[1] < ss[2]}
<1>1. IsWellFoundedOn(R, Nat)
  BY NatLessThanWellFounded DEF OpToRel
<1>2. \A y \in Nat, m \in Nat : y < m => <<y, m>> \in R
  OBVIOUS
<1> HIDE DEF R
<1>3. PICK m \in T : \A y \in T : <<y, m>> \notin R
  BY <1>1, WFMin
<1>4. ASSUME NEW y \in T PROVE m <= y
  <2>1. m \in Nat /\ y \in Nat /\ ~(y < m)
    BY <1>2, <1>3
  <2> QED
    BY <2>1
<1> QED
  BY <1>4

(* The loop of Contains, which looks at ever fewer of the last bytes,      *)
(* finds v if it stands before any number of them.                         *)
Matches(v, k) == Bytes(end - k, Len(v)) = v

Loop(v, f) ==
  [left \in 0..SIZE |->
     left >= Len(v) /\ (Bytes(end - left, Len(v)) = v \/ (left > 0 /\ f[left - 1]))]

LEMMA UpTo ==
  ASSUME NEW n \in Nat, NEW left \in Nat, NEW v
  PROVE  (\E k \in n..left : Matches(v, k)) <=>
           (left >= n /\ (Matches(v, left) \/ (left > 0 /\ \E k \in n..(left - 1) : Matches(v, k))))
<1>1. ASSUME NEW k \in n..left, Matches(v, k)
      PROVE  left >= n /\ (Matches(v, left) \/ (left > 0 /\ \E j \in n..(left - 1) : Matches(v, j)))
  <2>1. left >= n /\ (k = left \/ (left > 0 /\ k \in n..(left - 1)))
    OBVIOUS
  <2> QED
    BY <1>1, <2>1
<1>2. ASSUME left >= n, Matches(v, left) PROVE \E k \in n..left : Matches(v, k)
  <2>1. left \in n..left
    BY <1>2
  <2> QED
    BY <1>2, <2>1
<1>3. ASSUME NEW j \in n..(left - 1), Matches(v, j) PROVE \E k \in n..left : Matches(v, k)
  <2>1. j \in n..left
    OBVIOUS
  <2> QED
    BY <1>3, <2>1
<1> QED
  BY <1>1, <1>2, <1>3

LEMMA LoopExists ==
  ASSUME NEW v, Len(v) \in Nat
  PROVE  \E f : f = Loop(v, f)
<1> DEFINE f == [left \in 0..SIZE |-> \E k \in Len(v)..left : Matches(v, k)]
<1>1. ASSUME NEW left \in 0..SIZE
      PROVE  f[left] <=> (left >= Len(v) /\ (Matches(v, left) \/ (left > 0 /\ f[left - 1])))
  <2>1. f[left] <=> \E k \in Len(v)..left : Matches(v, k)
    OBVIOUS
  <2>2. left > 0 => (f[left - 1] <=> \E k \in Len(v)..(left - 1) : Matches(v, k))
    <3>1. left > 0 => left - 1 \in 0..SIZE
      BY BufferAssumption
    <3> QED
      BY <3>1
  <2>3. left \in Nat
    BY BufferAssumption
  <2> HIDE DEF f
  <2> QED
    BY <2>1, <2>2, <2>3, UpTo
<1>2. f = Loop(v, f)
  BY <1>1 DEF Loop, Matches
<1> QED
  BY <1>2

LEMMA FoundIs ==
  ASSUME IInv, NEW v, Len(v) \in Nat
  PROVE  Found(v) <=> \E k \in Len(v)..(end - start) : Matches(v, k)
<1> DEFINE f == CHOOSE f : f = Loop(v, f)
<1>1. f = Loop(v, f)
  BY LoopExists
<1>2. Found(v) = f[end - start]
  BY Zenon DEF Found, Loop
<1> HIDE DEF f
<1>3. \A left \in 0..SIZE :
        f[left] <=> (left >= Len(v) /\ (Matches(v, left) \/ (left > 0 /\ f[left - 1])))
  BY <1>1 DEF Loop, Matches
<1> DEFINE Right(left) == f[left] <=> \E k \in Len(v)..left : Matches(v, k)
           wrong == {left \in 0..SIZE : ~Right(left)}
<1>4. wrong = {}
  <2> SUFFICES ASSUME wrong # {} PROVE FALSE
    OBVIOUS
  <2>1. PICK left \in wrong : \A y \in wrong : left <= y
    <3>1. wrong \subseteq Nat
      BY BufferAssumption
    <3> HIDE DEF wrong
    <3> QED
      BY <3>1, LeastNumber
  <2>2. left \in 0..SIZE /\ left \in Nat /\ ~Right(left)
    BY BufferAssumption
  <2>3. left > 0 => Right(left - 1)
    <3> SUFFICES ASSUME left > 0, left - 1 \in wrong PROVE FALSE
      BY <2>2, BufferAssumption
    <3> QED
      BY <2>1, <2>2
  <2>4. f[left] <=> (left >= Len(v) /\ (Matches(v, left) \/ (left > 0 /\ f[left - 1])))
    BY <1>3, <2>2
  <2>5. left > 0 => (f[left - 1] <=> \E k \in Len(v)..(left - 1) : Matches(v, k))
    BY <2>3
  <2>6. f[left] <=> \E k \in Len(v)..left : Matches(v, k)
    <3> HIDE DEF wrong
    <3> QED
      BY <2>2, <2>4, <2>5, UpTo
  <2> QED
    BY <2>2, <2>6
<1>5. end - start \in 0..SIZE
  <2>1. start \in Nat /\ end \in Nat /\ SIZE \in Nat /\ start <= end /\ end <= SIZE
    BY Inside
  <2> QED
    BY <2>1
<1> QED
  BY <1>2, <1>4, <1>5

LEMMA ContainsIs == ASSUME IInv, IInv', NEW v \in Inputs, Contains(v) PROVE Fifo!Contains(v)
<1> DEFINE l == end - start
           n == Len(v)
           q == Contents
<1>1. /\ start \in Nat /\ end \in Nat /\ start <= end /\ l \in Nat /\ n \in Nat
      /\ v \in Seq(Byte) /\ (start = end => l = 0)
  BY Inside, BufferAssumption
<1>2. Contents' = Contents
  BY ContentsAre, ContentsBecome DEF Contains
<1>3. Len(q) = l
  BY ContentsAre
<1>4. ASSUME NEW i \in 0..(l - n)
      PROVE  SubSeq(q, i + 1, i + n) = v <=> Matches(v, l - i)
  <2>1. i \in Nat /\ i + n \in Nat /\ i <= i + n /\ i + n <= end - start
    BY <1>1
  <2>2. (i + n) - i = n /\ end - (l - i) = start + i
    BY <1>1, <2>1
  <2>3. SubSeq(q, i + 1, i + n) = Stretch(mem, start + i, (i + n) - i)
    <3> DEFINE b == i + n
    <3>1. b \in Nat /\ i <= b /\ b <= end - start
      BY <2>1
    <3> HIDE DEF b
    <3>2. SubSeq(q, i + 1, b) = Stretch(mem, start + i, b - i)
      BY <2>1, <3>1, PartOfContents
    <3> QED
      BY <3>2 DEF b
  <2> QED
    BY <2>2, <2>3 DEF Matches, Bytes, Stretch
<1>5. (\E k \in n..l : Matches(v, k)) <=> \E i \in 0..(l - n) : SubSeq(q, i + 1, i + n) = v
  <2>1. ASSUME NEW k \in n..l, Matches(v, k)
        PROVE  \E i \in 0..(l - n) : SubSeq(q, i + 1, i + n) = v
    <3> DEFINE i == l - k
    <3>1. i \in 0..(l - n) /\ l - i = k
      BY <1>1
    <3> HIDE DEF i
    <3> QED
      BY <1>4, <2>1, <3>1
  <2>2. ASSUME NEW i \in 0..(l - n), SubSeq(q, i + 1, i + n) = v
        PROVE  \E k \in n..l : Matches(v, k)
    <3>1. l - i \in n..l
      BY <1>1
    <3> QED
      BY <1>4, <2>2, <3>1
  <2> QED
    BY <2>1, <2>2
<1>6. Found(v) <=> \E k \in n..l : Matches(v, k)
  BY <1>1, FoundIs
<1>7. start = end /\ v # << >> => ~\E i \in 0..(l - n) : SubSeq(q, i + 1, i + n) = v
  <2>1. v # << >> => n > 0
    BY <1>1, EmptySeq
  <2> QED
    BY <1>1, <2>1
<1>8. (start # end /\ v # << >> /\ Found(v)) <=>
        (v # << >> /\ \E i \in 0..(Len(q) - n) : SubSeq(q, i + 1, i + n) = v)
  BY <1>3, <1>5, <1>6, <1>7
<1> QED
  BY <1>2, <1>8 DEF Contains, Fifo!Contains

(* Every call is a call of the queue, and Defragment none.                 *)
LEMMA StepIsFifo == IInv /\ IInv' /\ [Next]_vars => [Fifo!Next]_Fifo!vars
<1> SUFFICES ASSUME IInv, IInv', [Next]_vars PROVE Fifo!Next \/ UNCHANGED Fifo!vars
  BY DEF Fifo!vars
<1>1. CASE \E v \in Inputs : Write(v) \/ Contains(v)
  BY <1>1, WriteIs, ContainsIs DEF Fifo!Next
<1>2. CASE \E n \in Counts : Read(n) \/ Peek(n) \/ PeekAt(n) \/ TrimLeft(n) \/ TrimRight(n)
  BY <1>2, ReadIs, PeekIs, PeekAtIs, TrimLeftIs, TrimRightIs DEF Fifo!Next
<1>3. CASE Clear
  <2>1. Contents' = Stretch(mem', 0, 0) /\ UNCHANGED <<out, ret>>
    BY <1>3, ContentsBecome DEF Clear
  <2>2. Fifo!Clear
    BY <2>1, StretchEmpty DEF Fifo!Clear
  <2> QED
    BY <2>2 DEF Fifo!Next
<1>4. CASE Defragment
  BY <1>4, DefragmentIs
<1>5. CASE AskLength
  <2>1. Contents' = Contents
    BY <1>5, ContentsAre, ContentsBecome DEF AskLength
  <2>2. Fifo!AskLength
    BY <1>5, <2>1, ContentsAre DEF AskLength, Fifo!AskLength
  <2> QED
    BY <2>2 DEF Fifo!Next
<1>6. CASE AskSpace
  <2>1. Contents' = Contents
    BY <1>6, ContentsAre, ContentsBecome DEF AskSpace
  <2>2. Space = SIZE - (end - start)
    BY Inside DEF Space
  <2>3. Fifo!AskSpace
    BY <1>6, <2>1, <2>2, ContentsAre DEF AskSpace, Fifo!AskSpace
  <2> QED
    BY <2>3 DEF Fifo!Next
<1>7. CASE UNCHANGED vars
  BY <1>7, ContentsAre, ContentsBecome DEF vars, Fifo!vars
<1> QED
  BY <1>1, <1>2, <1>3, <1>4, <1>5, <1>6, <1>7 DEF Next

LEMMA InitIsFifo == Init => Fifo!Init
<1> SUFFICES ASSUME Init PROVE Fifo!Init
  OBVIOUS
<1>1. Contents = Stretch(mem, 0, 0)
  BY InitIInv, ContentsAre DEF Init
<1> QED
  BY <1>1, StretchEmpty DEF Init, Fifo!Init

(* Writes cut short, reads, trims, searches and compactions in any order   *)
(* are those of a queue of SIZE bytes, for every capacity and every input. *)
THEOREM FifoCorrect == Spec => ImplementsByteFifo
<1>1. Spec => []IInv
  BY AlwaysIInv
<1> QED
  BY <1>1, InitIsFifo, StepIsFifo, PTL DEF Spec, ImplementsByteFifo, Fifo!Spec
=============================================================================
