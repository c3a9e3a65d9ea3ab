--------------------------- MODULE SessionProofs ---------------------------
(***************************************************************************)
(* ProcessClient for every number of threads: what one thread logs as a    *)
(* block stands together in the file, however the threads interleave, and  *)
(* ends its line unless a piece of it was lost. And HttpRequest::Read,     *)
(* with which a thread begins, for requests of every shape and size, cut   *)
(* into pieces of every size, and for buffers, numbers of fields and       *)
(* patience of any size. The two parts share the lemmas only.              *)
(***************************************************************************)
EXTENDS Session, HttpRead, SequenceTheorems, WellFoundedInduction, TLAPS

(* Places in the order a thread comes to them. *)
Rank(place) ==
  CASE place = "start" -> 0
    [] place = "connected" -> 1
    [] place = "read" -> 2
    [] place = "request" -> 3
    [] place = "path" -> 4
    [] place = "defaultPath" -> 5
    [] place = "document" -> 6
    [] place = "defaultDocument" -> 7
    [] place = "listing" -> 8
    [] place = "mime" -> 9
    [] place = "defaultMime" -> 10
    [] place = "authorize" -> 11
    [] place = "result" -> 12
    [] place = "verdict" -> 13
    [] place = "internal" -> 14
    [] place = "refuse" -> 15
    [] place = "respond" -> 16
    [] place = "response" -> 17
    [] place = "disconnected" -> 18
    [] place = "shutdown" -> 19
    [] place = "done" -> 20

(* A thread inside holds the mutex of its place, once. *)
Held == \A t \in Threads : inside[t] =>
          at[t] \in Guarded /\ mutex[Object(at[t])] = [owner |-> t, depth |-> 1]

(* Who owns a mutex is inside a place that it guards. *)
Owned == \A o \in Objects : mutex[o].owner # Nobody =>
           inside[mutex[o].owner] /\ Object(at[mutex[o].owner]) = o

(* Pieces in the file are of blocks that their thread is past, or in. *)
Behind == \A i \in 1..Len(log) :
            \/ Rank(log[i].block) < Rank(at[log[i].by])
            \/ log[i].block = at[log[i].by] /\ inside[log[i].by]

(* From the first piece of a block its thread is in, all are of that block. *)
OpenToTheEnd ==
  \A i \in 1..Len(log) : log[i].block = at[log[i].by] =>
    \A j \in i..Len(log) : SameBlock(log[i], log[j])

(* Neighbours in the file: a piece is followed by the next of its block,   *)
(* or it is the last of that.                                              *)
Counted ==
  \A i \in 1..(Len(log) - 1) :
    IF SameBlock(log[i], log[i + 1])
      THEN log[i].rest = log[i + 1].rest + 1
      ELSE log[i].rest = 0

(* The end of the file: its thread has still to write what is left.        *)
Freshest ==
  Len(log) > 0 =>
    LET p == log[Len(log)]
    IN  p.rest = IF inside[p.by] /\ p.block = at[p.by] THEN left[p.by] ELSE 0

IInv ==
  /\ TypeOK
  /\ Held
  /\ Owned
  /\ Behind
  /\ OpenToTheEnd
  /\ BlocksStayWhole

USE SessionAssumption

-----------------------------------------------------------------------------
(* The ranks one by one, for the provers. *)
LEMMA RankIs ==
  /\ Rank("start") = 0
  /\ Rank("connected") = 1
  /\ Rank("read") = 2
  /\ Rank("request") = 3
  /\ Rank("path") = 4
  /\ Rank("defaultPath") = 5
  /\ Rank("document") = 6
  /\ Rank("defaultDocument") = 7
  /\ Rank("listing") = 8
  /\ Rank("mime") = 9
  /\ Rank("defaultMime") = 10
  /\ Rank("authorize") = 11
  /\ Rank("result") = 12
  /\ Rank("verdict") = 13
  /\ Rank("internal") = 14
  /\ Rank("refuse") = 15
  /\ Rank("respond") = 16
  /\ Rank("response") = 17
  /\ Rank("disconnected") = 18
  /\ Rank("shutdown") = 19
  /\ Rank("done") = 20
BY DEF Rank

LEMMA RankType == \A place \in Places : Rank(place) \in Nat
<1>1. \A place \in LogBlocks : Rank(place) \in Nat
  BY RankIs DEF LogBlocks
<1>2. \A place \in Lookups : Rank(place) \in Nat
  BY RankIs DEF Lookups
<1>3. \A place \in Checks : Rank(place) \in Nat
  BY RankIs DEF Checks
<1>4. \A place \in {"start", "read", "respond", "shutdown", "done"} : Rank(place) \in Nat
  BY RankIs
<1> QED
  BY <1>1, <1>2, <1>3, <1>4 DEF Places, Guarded

(* What a thread knows when it goes on, and that it goes on to later. *)
Later(low, next) ==
  /\ next.at \in Places /\ Rank(low) < Rank(next.at)
  /\ next.mime \in {"cleared", "file", "internal"}
  /\ next.authorized \in BOOLEAN

LEMMA OperateIsLater ==
  ASSUME NEW low \in Places, Rank(low) < 14,
         NEW m \in {"cleared", "file", "internal"}, NEW next \in Operate(m)
  PROVE  Later(low, next)
<1>1. /\ next.at \in {"respond", "internal"}
      /\ next.mime = "cleared"
      /\ next.authorized \in BOOLEAN
  <2>1. next \in {To("respond", "cleared", TRUE), To("internal", "cleared", TRUE)}
    BY DEF Operate
  <2>2. CASE next = To("respond", "cleared", TRUE)
    BY <2>2 DEF To
  <2>3. CASE next = To("internal", "cleared", TRUE)
    BY <2>3 DEF To
  <2> QED
    BY <2>1, <2>2, <2>3
<1>2. Rank(next.at) \in {14, 16} /\ next.at \in Places
  BY <1>1, RankIs DEF Places, Guarded, LogBlocks
<1> QED
  BY <1>1, <1>2, RankType DEF Later

LEMMA DecideIsLater ==
  ASSUME NEW low \in Places, Rank(low) < 11,
         NEW m \in {"cleared", "file", "internal"}, NEW a \in BOOLEAN, NEW next \in Decide(m, a)
  PROVE  Later(low, next)
<1>1. CASE enabled
  <2>1. next.at = "authorize" /\ next.mime = m /\ next.authorized = a
    BY <1>1 DEF Decide, To
  <2>2. Rank(next.at) = 11 /\ next.at \in Places
    BY <2>1, RankIs DEF Places, Guarded, Checks
  <2> QED
    BY <2>1, <2>2 DEF Later
<1>2. CASE ~enabled
  BY <1>2, OperateIsLater, RankType DEF Decide
<1> QED
  BY <1>1, <1>2

LEMMA BlockIsLater ==
  ASSUME NEW place \in LogBlocks, NEW m \in {"cleared", "file", "internal"},
         NEW a \in BOOLEAN, NEW next \in AfterBlock(place, m, a)
  PROVE  Later(place, next)
<1>1. CASE place = "verdict" /\ a
  <2>1. Rank(place) = 13 /\ place \in Places
    BY <1>1, RankIs DEF Places, Guarded
  <2> QED
    BY <1>1, <2>1, OperateIsLater DEF AfterBlock
<1>2. CASE ~(place = "verdict" /\ a)
  <2>1. /\ next.at \in {"read", "path", "refuse", "respond", "disconnected", "shutdown"}
        /\ next.mime \in {m, "cleared"} /\ next.authorized \in BOOLEAN
        /\ Rank(place) < Rank(next.at)
    <3>1. CASE place = "verdict"
      <4>1. next = To("refuse", "cleared", TRUE)
        BY <1>2, <3>1 DEF AfterBlock
      <4> QED
        BY <3>1, <4>1, RankIs DEF To
    <3>2. CASE place # "verdict"
      BY <3>2, RankIs DEF AfterBlock, LogBlocks, To
    <3> QED
      BY <3>1, <3>2
  <2>2. next.at \in Places
    BY <2>1 DEF Places, Guarded, LogBlocks, Lookups, Checks
  <2> QED
    BY <2>1, <2>2 DEF Later
<1> QED
  BY <1>1, <1>2

LEMMA LookupIsLater ==
  ASSUME NEW place \in Lookups, NEW m \in {"cleared", "file", "internal"},
         NEW a \in BOOLEAN, NEW next \in AfterLookup(place, m, a)
  PROVE  Later(place, next)
<1>1. place \in Places /\ Rank(place) < 11
  BY RankIs DEF Lookups, Places, Guarded
<1>2. CASE \E k \in {"cleared", "file", "internal"} : next \in Decide(k, a)
  BY <1>1, <1>2, DecideIsLater
<1>3. CASE ~\E k \in {"cleared", "file", "internal"} : next \in Decide(k, a)
  <2>1. /\ next.at \in Lookups /\ next.mime = m /\ next.authorized = a
        /\ Rank(place) < Rank(next.at)
    BY <1>3, RankIs DEF AfterLookup, Lookups, To
  <2> QED
    BY <2>1 DEF Later, Places, Guarded
<1> QED
  BY <1>2, <1>3

LEMMA CheckIsLater ==
  ASSUME NEW place \in Checks, NEW m \in {"cleared", "file", "internal"},
         NEW a \in BOOLEAN, NEW next \in AfterCheck(place, m, a)
  PROVE  Later(place, next)
<1>1. /\ next.at \in {"result", "verdict", "response"} /\ next.mime = m
      /\ next.authorized \in BOOLEAN /\ Rank(place) < Rank(next.at)
  BY RankIs DEF AfterCheck, Checks, To
<1> QED
  BY <1>1 DEF Later, Places, Guarded, Checks, LogBlocks

(* Leaving a mutex leads to a later place, never back. *)
LEMMA AfterIsLater ==
  ASSUME NEW place \in Guarded, NEW m \in {"cleared", "file", "internal"},
         NEW a \in BOOLEAN, NEW next \in After(place, m, a)
  PROVE  Later(place, next)
BY BlockIsLater, LookupIsLater, CheckIsLater DEF After, Guarded

-----------------------------------------------------------------------------
LEMMA InitIInv == Init => IInv
<1> SUFFICES ASSUME Init PROVE IInv
  OBVIOUS
<1>1. TypeOK
  <2>1. Free \in Mutexes(Threads)
    BY DEF Mutexes
  <2>2. log \in Seq(Pieces) /\ Len(log) = 0
    BY DEF Init
  <2> QED
    BY <2>1, <2>2 DEF Init, TypeOK, Places
<1>2. Owned
  BY DEF Init, Owned, Free
<1>3. Held
  BY DEF Init, Held
<1>4. Behind /\ OpenToTheEnd /\ BlocksStayWhole
  BY DEF Init, Behind, OpenToTheEnd, BlocksStayWhole
<1> QED
  BY <1>1, <1>2, <1>3, <1>4 DEF IInv

LEMMA PieceType == ASSUME TypeOK, NEW i \in 1..Len(log)
                   PROVE  /\ log[i] \in Pieces
                          /\ log[i].by \in Threads
                          /\ log[i].block \in LogBlocks
                          /\ log[i].block \in Places
<1>1. log[i] \in Pieces
  BY DEF TypeOK
<1>2. log[i].by \in Threads /\ log[i].block \in LogBlocks
  BY <1>1 DEF Pieces
<1> QED
  BY <1>1, <1>2 DEF Places, Guarded

(* A thread that holds no mutex goes on to a later place. *)
LEMMA MoveKeeps ==
  ASSUME IInv, NEW t \in Threads, ~inside[t], NEW place \in Places,
         Rank(at[t]) < Rank(place), Goes(t, place),
         UNCHANGED <<enabled, inside, left, mime, authorized, mutex, log>>
  PROVE  IInv'
<1> USE DEF IInv
<1>1. TypeOK'
  BY DEF TypeOK, Goes
<1>2. Held'
  BY DEF Held, Goes, TypeOK
<1>3. Owned'
  <2> SUFFICES ASSUME NEW o \in Objects, mutex[o].owner # Nobody
               PROVE  inside[mutex[o].owner] /\ Object(at'[mutex[o].owner]) = o
    BY DEF Owned
  <2>1. mutex[o].owner # t /\ mutex[o].owner \in Threads
    BY DEF Owned, TypeOK, Mutexes, Free
  <2> QED
    BY <2>1 DEF Owned, Goes, TypeOK
<1>4. \A i \in 1..Len(log) : log[i].by = t => Rank(log[i].block) < Rank(at[t])
  BY DEF Behind
<1>5. at[t] \in Places /\ Rank(at[t]) \in Nat /\ Rank(place) \in Nat
  BY RankType DEF TypeOK
<1>6. Behind'
  <2> SUFFICES ASSUME NEW i \in 1..Len(log)
               PROVE  \/ Rank(log[i].block) < Rank(at'[log[i].by])
                      \/ log[i].block = at'[log[i].by] /\ inside[log[i].by]
    BY DEF Behind
  <2>1. log[i].by \in Threads /\ Rank(log[i].block) \in Nat
    BY PieceType, RankType
  <2>2. CASE log[i].by = t
    BY <1>4, <1>5, <2>1, <2>2 DEF Goes, TypeOK
  <2>3. CASE log[i].by # t
    BY <2>1, <2>3 DEF Behind, Goes, TypeOK
  <2> QED
    BY <2>2, <2>3
<1>7. OpenToTheEnd'
  <2> SUFFICES ASSUME NEW i \in 1..Len(log), log[i].block = at'[log[i].by]
               PROVE  \A j \in i..Len(log) : SameBlock(log[i], log[j])
    BY DEF OpenToTheEnd, SameBlock
  <2>1. log[i].by \in Threads /\ Rank(log[i].block) \in Nat
    BY PieceType, RankType
  <2>2. log[i].by # t
    BY <1>4, <1>5, <2>1 DEF Goes, TypeOK
  <2> QED
    BY <2>1, <2>2 DEF OpenToTheEnd, Goes, TypeOK
<1>8. BlocksStayWhole'
  BY DEF BlocksStayWhole, SameBlock
<1> QED
  BY <1>1, <1>2, <1>3, <1>6, <1>7, <1>8

LEMMA EnterKeeps == ASSUME IInv, NEW t \in Threads, Enter(t) PROVE IInv'
<1> USE DEF IInv
<1> DEFINE o == Object(at[t])
<1>1. o \in Objects
  BY DEF Object, Objects
<1>2. mutex[o] = Free
  BY <1>1 DEF Enter, CanLock, Owned, TypeOK, Mutexes, Free
<1>3. mutex' = [mutex EXCEPT ![o] = [owner |-> t, depth |-> 1]]
  BY <1>1, <1>2 DEF Enter, Locked, Free, TypeOK
<1>4. /\ inside' = [inside EXCEPT ![t] = TRUE]
      /\ UNCHANGED <<enabled, at, mime, authorized, log>>
      /\ at[t] \in Guarded /\ ~inside[t]
  BY DEF Enter
<1>5. left' \in [Threads -> Nat]
  <2>1. CASE at[t] \in LogBlocks
    <3>1. PICK lines \in 1..(IF at[t] = "request" THEN MaxLines ELSE 1) :
            left' = [left EXCEPT ![t] = lines * PiecesPerLine]
      BY <2>1 DEF Enter
    <3>2. lines * PiecesPerLine \in Nat
      OBVIOUS
    <3> QED
      BY <3>1, <3>2 DEF TypeOK
  <2>2. CASE at[t] \notin LogBlocks
    BY <2>2 DEF Enter, TypeOK
  <2> QED
    BY <2>1, <2>2
<1>6. TypeOK'
  <2>1. mutex' \in [Objects -> Mutexes(Threads)]
    BY <1>1, <1>3 DEF TypeOK, Mutexes
  <2>2. inside' \in [Threads -> BOOLEAN]
    BY <1>4 DEF TypeOK
  <2> QED
    BY <1>4, <1>5, <2>1, <2>2 DEF TypeOK
<1>7. Held'
  <2> SUFFICES ASSUME NEW u \in Threads, inside'[u]
               PROVE  at[u] \in Guarded /\ mutex'[Object(at[u])] = [owner |-> u, depth |-> 1]
    BY <1>4 DEF Held
  <2>1. CASE u = t
    BY <1>1, <1>3, <1>4, <2>1 DEF TypeOK
  <2>2. CASE u # t
    <3>1. inside[u]
      BY <1>4, <2>2 DEF TypeOK
    <3>2. at[u] \in Guarded /\ mutex[Object(at[u])] = [owner |-> u, depth |-> 1]
      BY <3>1 DEF Held
    <3>3. Object(at[u]) # o
      BY <1>2, <3>2, SessionAssumption DEF Free
    <3>4. Object(at[u]) \in Objects
      BY DEF Object, Objects
    <3> QED
      BY <1>3, <3>2, <3>3, <3>4 DEF TypeOK
  <2> QED
    BY <2>1, <2>2
<1>8. Owned'
  <2> SUFFICES ASSUME NEW p \in Objects, mutex'[p].owner # Nobody
               PROVE  inside'[mutex'[p].owner] /\ Object(at[mutex'[p].owner]) = p
    BY <1>4 DEF Owned
  <2>1. CASE p = o
    BY <1>1, <1>3, <1>4, <2>1 DEF TypeOK
  <2>2. CASE p # o
    <3>1. mutex'[p] = mutex[p] /\ mutex[p].owner \in Threads
      BY <1>3, <2>2 DEF TypeOK, Mutexes, Free
    <3> QED
      BY <1>4, <3>1 DEF Owned, TypeOK
  <2> QED
    BY <2>1, <2>2
<1>9. Behind'
  <2> SUFFICES ASSUME NEW i \in 1..Len(log)
               PROVE  \/ Rank(log[i].block) < Rank(at[log[i].by])
                      \/ log[i].block = at[log[i].by] /\ inside'[log[i].by]
    BY <1>4 DEF Behind
  <2>1. log[i].by \in Threads
    BY PieceType
  <2> QED
    BY <1>4, <2>1 DEF Behind, TypeOK
<1>10. OpenToTheEnd' /\ BlocksStayWhole'
  BY <1>4 DEF OpenToTheEnd, BlocksStayWhole, SameBlock
<1> QED
  BY <1>6, <1>7, <1>8, <1>9, <1>10

(* A call of Log adds one piece at the end and may let go of the oldest. *)
LEMMA LogAppends ==
  ASSUME TypeOK, NEW t \in Threads, Log(t)
  PROVE  \E piece \in Pieces, d \in {0, 1} :
           /\ piece.by = t /\ piece.block = at[t] /\ piece.rest = left[t] - 1
           /\ log' \in Seq(Pieces) /\ Len(log') \in 1..CallsSeen
           /\ Len(log') = Len(log) + 1 - d
           /\ \A i \in 1..Len(log') :
                log'[i] = IF i + d <= Len(log) THEN log[i + d] ELSE piece
<1>1. PICK written \in BOOLEAN :
        log' = Newest(Append(log, [by |-> t, block |-> at[t], rest |-> left[t] - 1,
                                   written |-> written]))
  BY DEF Log
<1> DEFINE piece == [by |-> t, block |-> at[t], rest |-> left[t] - 1, written |-> written]
<1>2. piece \in Pieces /\ piece.by = t /\ piece.block = at[t] /\ piece.rest = left[t] - 1
  <2>1. left[t] - 1 \in Nat /\ at[t] \in LogBlocks
    BY DEF Log, TypeOK
  <2> QED
    BY <2>1 DEF Pieces
<1> HIDE DEF piece
<1>3. /\ log \in Seq(Pieces) /\ Len(log) \in Nat /\ Len(log) <= CallsSeen
      /\ Append(log, piece) \in Seq(Pieces)
      /\ Len(Append(log, piece)) = Len(log) + 1
      /\ \A i \in 1..(Len(log) + 1) :
           Append(log, piece)[i] = IF i <= Len(log) THEN log[i] ELSE piece
  BY <1>2 DEF TypeOK
<1>4. log' = Newest(Append(log, piece))
  BY <1>1 DEF piece
<1>5. CASE Len(log) + 1 > CallsSeen
  <2>1. log' = Tail(Append(log, piece))
    BY <1>3, <1>4, <1>5 DEF Newest
  <2>2. Append(log, piece) # <<>>
    BY <1>3
  <2>3. /\ log' \in Seq(Pieces) /\ Len(log') = Len(log) /\ Len(log') \in 1..CallsSeen
        /\ \A i \in 1..Len(log') : log'[i] = Append(log, piece)[i + 1]
    BY <1>3, <2>1, <2>2, <1>5, SessionAssumption
  <2>4. \A i \in 1..Len(log') : log'[i] = IF i + 1 <= Len(log) THEN log[i + 1] ELSE piece
    BY <1>3, <2>3
  <2> QED
    BY <1>2, <1>3, <2>3, <2>4
<1>6. CASE ~(Len(log) + 1 > CallsSeen)
  <2>1. log' = Append(log, piece)
    BY <1>3, <1>4, <1>6 DEF Newest
  <2>2. /\ log' \in Seq(Pieces) /\ Len(log') \in 1..CallsSeen
        /\ Len(log') = Len(log) + 1 - 0
    BY <1>3, <1>6, <2>1
  <2>3. \A i \in 1..Len(log') : log'[i] = IF i + 0 <= Len(log) THEN log[i + 0] ELSE piece
    BY <1>3, <2>1
  <2> QED
    BY <1>2, <2>2, <2>3
<1> QED
  BY <1>5, <1>6

LEMMA LogKeeps == ASSUME IInv, NEW t \in Threads, Log(t) PROVE IInv'
<1> USE DEF IInv
<1>1. /\ at[t] \in LogBlocks /\ inside[t]
      /\ UNCHANGED <<enabled, at, inside, mime, authorized>>
      /\ left' = [left EXCEPT ![t] = @ - 1] /\ left[t] > 0
  BY DEF Log
<1>2. mutex["logger"] = [owner |-> t, depth |-> 1]
  BY <1>1 DEF Held, Object
<1>3. mutex' = mutex
  <2>1. Unlocked(Locked(mutex["logger"], t)) = mutex["logger"]
    BY <1>2 DEF Locked, Unlocked
  <2>2. mutex' = [mutex EXCEPT !["logger"] = Unlocked(Locked(@, t))]
    BY DEF Log
  <2> QED
    BY <2>1, <2>2 DEF TypeOK
<1>4. PICK piece \in Pieces, d \in {0, 1} :
        /\ piece.by = t /\ piece.block = at[t]
        /\ log' \in Seq(Pieces) /\ Len(log') <= CallsSeen
        /\ Len(log') = Len(log) + 1 - d
        /\ \A i \in 1..Len(log') :
             log'[i] = IF i + d <= Len(log) THEN log[i + d] ELSE piece
  BY LogAppends
<1>5. Len(log) \in Nat /\ Len(log') \in Nat
  BY <1>4 DEF TypeOK
<1>6. TypeOK'
  <2>1. left' \in [Threads -> Nat]
    BY <1>1 DEF TypeOK
  <2> QED
    BY <1>1, <1>3, <1>4, <2>1 DEF TypeOK
<1>7. Held' /\ Owned'
  BY <1>1, <1>3 DEF Held, Owned
<1>8. Behind'
  <2> SUFFICES ASSUME NEW i \in 1..Len(log')
               PROVE  \/ Rank(log'[i].block) < Rank(at[log'[i].by])
                      \/ log'[i].block = at[log'[i].by] /\ inside[log'[i].by]
    BY <1>1 DEF Behind
  <2>1. CASE i + d <= Len(log)
    <3>1. i + d \in 1..Len(log) /\ log'[i] = log[i + d]
      BY <1>4, <1>5, <2>1
    <3> QED
      BY <3>1 DEF Behind
  <2>2. CASE ~(i + d <= Len(log))
    BY <1>1, <1>4, <2>2
  <2> QED
    BY <2>1, <2>2
(* A piece of an open block in the file is the writer's own. *)
<1>9. ASSUME NEW i \in 1..Len(log), log[i].block = at[log[i].by]
      PROVE  log[i].by = t
  <2>1. log[i].by \in Threads /\ log[i].block \in LogBlocks /\ Rank(log[i].block) \in Nat
    BY PieceType, RankType
  <2>2. inside[log[i].by]
    BY <1>9, <2>1 DEF Behind
  <2>3. mutex["logger"] = [owner |-> log[i].by, depth |-> 1]
    BY <1>9, <2>1, <2>2 DEF Held, Object
  <2> QED
    BY <1>2, <2>3
<1>10. OpenToTheEnd'
  <2> SUFFICES ASSUME NEW i \in 1..Len(log'), log'[i].block = at[log'[i].by],
                      NEW j \in i..Len(log')
               PROVE  SameBlock(log'[i], log'[j])
    BY <1>1 DEF OpenToTheEnd, SameBlock
  <2>1. CASE i + d <= Len(log) /\ j + d <= Len(log)
    <3>1. /\ i + d \in 1..Len(log) /\ j + d \in (i + d)..Len(log)
          /\ log'[i] = log[i + d] /\ log'[j] = log[j + d]
      BY <1>4, <1>5, <2>1
    <3> QED
      BY <3>1 DEF OpenToTheEnd
  <2>2. CASE i + d <= Len(log) /\ ~(j + d <= Len(log))
    <3> i \in 1..Len(log') /\ j \in 1..Len(log')
      BY <1>5
    <3>1. i + d \in 1..Len(log) /\ log'[i] = log[i + d]
      BY <1>4, <1>5, <2>2
    <3>3. log'[j] = piece
      BY <1>4, <2>2
    <3>2. log[i + d].by = t
      BY <1>9, <3>1
    <3> QED
      BY <1>4, <3>1, <3>2, <3>3 DEF SameBlock
  <2>3. CASE ~(i + d <= Len(log))
    <3>1. log'[i] = piece /\ log'[j] = piece
      BY <1>4, <1>5, <2>3
    <3> QED
      BY <3>1 DEF SameBlock
  <2> QED
    BY <2>1, <2>2, <2>3
<1>11. BlocksStayWhole'
  <2> SUFFICES ASSUME NEW i \in 1..Len(log'), NEW j \in 1..Len(log'), NEW k \in 1..Len(log'),
                      i < j, j < k, SameBlock(log'[i], log'[k])
               PROVE  SameBlock(log'[i], log'[j])
    BY DEF BlocksStayWhole, SameBlock
  <2>1. /\ i + d \in 1..Len(log) /\ j + d \in 1..Len(log) /\ j + d \in (i + d)..Len(log)
        /\ log'[i] = log[i + d] /\ log'[j] = log[j + d]
    <3>1. Len(log') = Len(log) + 1 - d /\ (d = 0 \/ d = 1)
      BY <1>4
    <3>2. /\ i + d \in 1..Len(log) /\ j + d \in 1..Len(log) /\ j + d \in (i + d)..Len(log)
          /\ i + d <= Len(log) /\ j + d <= Len(log)
      BY <1>5, <3>1
    <3>3. \A m \in 1..Len(log') :
            log'[m] = IF m + d <= Len(log) THEN log[m + d] ELSE piece
      BY <1>4
    <3> QED
      BY <3>2, <3>3
  <2>2. CASE k + d <= Len(log)
    <3>1. k + d \in 1..Len(log) /\ log'[k] = log[k + d] /\ i + d < j + d /\ j + d < k + d
      BY <1>4, <1>5, <2>2
    <3> QED
      BY <2>1, <3>1 DEF BlocksStayWhole
  <2>3. CASE ~(k + d <= Len(log))
    <3>1. log'[k] = piece
      BY <1>4, <1>5, <2>3
    <3>2. log[i + d].by = t /\ log[i + d].block = at[t]
      BY <1>4, <2>1, <3>1 DEF SameBlock
    <3> QED
      BY <2>1, <3>2 DEF OpenToTheEnd
  <2> QED
    BY <2>2, <2>3
<1> QED
  BY <1>6, <1>7, <1>8, <1>10, <1>11

LEMMA LeaveKeeps == ASSUME IInv, NEW t \in Threads, Leave(t) PROVE IInv'
<1> USE DEF IInv
<1> DEFINE o == Object(at[t])
<1>1. /\ inside[t] /\ at[t] \in Guarded /\ at[t] \in Places
      /\ inside' = [inside EXCEPT ![t] = FALSE]
      /\ UNCHANGED <<enabled, left, log>>
  BY DEF Leave, Held, Places
<1>2. PICK next \in After(at[t], mime[t], authorized[t]) :
        /\ at' = [at EXCEPT ![t] = next.at]
        /\ mime' = [mime EXCEPT ![t] = next.mime]
        /\ authorized' = [authorized EXCEPT ![t] = next.authorized]
  BY DEF Leave, Goes
<1>3. Later(at[t], next)
  BY <1>1, AfterIsLater DEF TypeOK
<1>4. o \in Objects /\ mutex[o] = [owner |-> t, depth |-> 1]
  BY <1>1 DEF Held, Object, Objects
<1>5. mutex' = [mutex EXCEPT ![o] = Free]
  BY <1>4 DEF Leave, Unlocked, TypeOK
<1>6. TypeOK'
  <2>1. mutex' \in [Objects -> Mutexes(Threads)]
    BY <1>5 DEF TypeOK, Mutexes
  <2>2. /\ at' \in [Threads -> Places]
        /\ inside' \in [Threads -> BOOLEAN]
        /\ mime' \in [Threads -> {"cleared", "file", "internal"}]
    BY <1>1, <1>2, <1>3 DEF TypeOK, Later
  <2>3. authorized' \in [Threads -> BOOLEAN]
    BY <1>2, <1>3 DEF TypeOK, Later
  <2> QED
    BY <1>1, <2>1, <2>2, <2>3 DEF TypeOK
<1>7. Held'
  <2> SUFFICES ASSUME NEW u \in Threads, inside'[u]
               PROVE  at'[u] \in Guarded /\ mutex'[Object(at'[u])] = [owner |-> u, depth |-> 1]
    BY DEF Held
  <2>1. u # t /\ inside[u] /\ at'[u] = at[u]
    BY <1>1, <1>2 DEF TypeOK
  <2>2. at[u] \in Guarded /\ mutex[Object(at[u])] = [owner |-> u, depth |-> 1]
    BY <2>1 DEF Held
  <2>3. Object(at[u]) # o /\ Object(at[u]) \in Objects
    BY <1>4, <2>1, <2>2 DEF Object, Objects
  <2> QED
    BY <1>5, <2>1, <2>2, <2>3 DEF TypeOK
<1>8. Owned'
  <2> SUFFICES ASSUME NEW p \in Objects, mutex'[p].owner # Nobody
               PROVE  inside'[mutex'[p].owner] /\ Object(at'[mutex'[p].owner]) = p
    BY DEF Owned
  <2>1. p # o
    BY <1>4, <1>5 DEF TypeOK, Free
  <2>2. mutex'[p] = mutex[p] /\ mutex[p].owner \in Threads
    BY <1>5, <2>1 DEF TypeOK, Mutexes, Free
  <2>3. inside[mutex[p].owner] /\ Object(at[mutex[p].owner]) = p
    BY <2>2 DEF Owned
  <2>4. mutex[p].owner # t
    BY <2>1, <2>3
  <2> QED
    BY <1>1, <1>2, <2>2, <2>3, <2>4 DEF TypeOK
<1>9. /\ Rank(at[t]) \in Nat /\ Rank(next.at) \in Nat /\ Rank(at[t]) < Rank(next.at)
  BY <1>1, <1>3, RankType DEF Later
<1>10. ASSUME NEW i \in 1..Len(log), log[i].by = t
       PROVE  Rank(log[i].block) < Rank(at'[t])
  <2>1. Rank(log[i].block) \in Nat
    BY PieceType, RankType
  <2>2. Rank(log[i].block) < Rank(at[t]) \/ log[i].block = at[t]
    BY <1>10 DEF Behind
  <2>3. at'[t] = next.at
    BY <1>2 DEF TypeOK
  <2> QED
    BY <1>9, <2>1, <2>2, <2>3
<1>11. Behind'
  <2> SUFFICES ASSUME NEW i \in 1..Len(log)
               PROVE  \/ Rank(log[i].block) < Rank(at'[log[i].by])
                      \/ log[i].block = at'[log[i].by] /\ inside'[log[i].by]
    BY <1>1 DEF Behind
  <2>1. log[i].by \in Threads
    BY PieceType
  <2>2. CASE log[i].by = t
    BY <1>10, <2>2
  <2>3. CASE log[i].by # t
    BY <1>1, <1>2, <2>1, <2>3 DEF Behind, TypeOK
  <2> QED
    BY <2>2, <2>3
<1>12. OpenToTheEnd'
  <2> SUFFICES ASSUME NEW i \in 1..Len(log), log[i].block = at'[log[i].by]
               PROVE  \A j \in i..Len(log) : SameBlock(log[i], log[j])
    BY <1>1 DEF OpenToTheEnd, SameBlock
  <2>1. log[i].by \in Threads /\ Rank(log[i].block) \in Nat
    BY PieceType, RankType
  <2>2. log[i].by # t
    BY <1>10, <2>1
  <2> QED
    BY <1>2, <2>1, <2>2 DEF OpenToTheEnd, TypeOK
<1>13. BlocksStayWhole'
  BY <1>1 DEF BlocksStayWhole, SameBlock
<1> QED
  BY <1>6, <1>7, <1>8, <1>11, <1>12, <1>13

LEMMA StepIInv == IInv /\ [Next]_vars => IInv'
<1> SUFFICES ASSUME IInv, [Next]_vars PROVE IInv'
  OBVIOUS
<1>1. ASSUME NEW t \in Threads, Start(t) PROVE IInv'
  <2>1. PICK place \in {"connected", "done"} : Goes(t, place)
    BY <1>1 DEF Start
  <2>2. place \in Places /\ Rank(at[t]) < Rank(place)
    BY <1>1, <2>1, RankIs DEF Start, Places, Guarded, LogBlocks
  <2>3. ~inside[t]
    BY <1>1 DEF Start, IInv, Held, Guarded, LogBlocks, Lookups, Checks
  <2> QED
    BY <1>1, <2>1, <2>2, <2>3, MoveKeeps DEF Start
<1>2. ASSUME NEW t \in Threads, Enter(t) PROVE IInv'
  BY <1>2, EnterKeeps
<1>3. ASSUME NEW t \in Threads, Log(t) PROVE IInv'
  BY <1>3, LogKeeps
<1>4. ASSUME NEW t \in Threads, Leave(t) PROVE IInv'
  BY <1>4, LeaveKeeps
<1>5. ASSUME NEW t \in Threads, Finish(t) PROVE IInv'
  <2>1. "done" \in Places /\ Rank(at[t]) < Rank("done") /\ Goes(t, "done")
    BY <1>5, RankIs DEF Finish, Places
  <2>2. ~inside[t]
    BY <1>5 DEF Finish, IInv, Held, Guarded, LogBlocks, Lookups, Checks
  <2> QED
    BY <1>5, <2>1, <2>2, MoveKeeps DEF Finish
<1>6. ASSUME NEW t \in Threads, ReadReturns(t) PROVE IInv'
  <2>1. PICK place \in {"request", "disconnected"} : Goes(t, place)
    BY <1>6 DEF ReadReturns
  <2>2. place \in Places /\ Rank(at[t]) < Rank(place)
    BY <1>6, <2>1, RankIs DEF ReadReturns, Places, Guarded, LogBlocks
  <2>3. ~inside[t]
    BY <1>6 DEF ReadReturns, IInv, Held, Guarded, LogBlocks, Lookups, Checks
  <2> QED
    BY <1>6, <2>1, <2>2, <2>3, MoveKeeps DEF ReadReturns
<1>7. ASSUME NEW t \in Threads, RespondReturns(t) PROVE IInv'
  <2>1. "response" \in Places /\ Rank(at[t]) < Rank("response") /\ Goes(t, "response")
    BY <1>7, RankIs DEF RespondReturns, Places, Guarded, LogBlocks
  <2>2. ~inside[t]
    BY <1>7 DEF RespondReturns, IInv, Held, Guarded, LogBlocks, Lookups, Checks
  <2> QED
    BY <1>7, <2>1, <2>2, MoveKeeps DEF RespondReturns
<1>8. CASE UNCHANGED vars
  <2>1. UNCHANGED <<enabled, at, inside, left, mime, authorized, mutex, log>>
    BY <1>8 DEF vars
  <2>2. TypeOK'
    BY <2>1 DEF IInv, TypeOK
  <2>3. Held' /\ Owned'
    BY <2>1 DEF IInv, Held, Owned
  <2>4. Behind' /\ OpenToTheEnd'
    BY <2>1 DEF IInv, Behind, OpenToTheEnd, SameBlock
  <2>5. BlocksStayWhole'
    BY <2>1 DEF IInv, BlocksStayWhole, SameBlock
  <2> QED
    BY <2>2, <2>3, <2>4, <2>5 DEF IInv
<1>9. CASE AllDone
  BY <1>8, <1>9 DEF AllDone
<1> QED
  BY <1>1, <1>2, <1>3, <1>4, <1>5, <1>6, <1>7, <1>8, <1>9 DEF Next

(* Whatever the number of threads, calls and losses, the state has its     *)
(* type: a mutex has an owner exactly while it is locked.                  *)
THEOREM TypeCorrect == Spec => []TypeOK
<1>1. IInv => TypeOK
  BY DEF IInv
<1> QED
  BY <1>1, InitIInv, StepIInv, PTL DEF Spec

(* Blocks stand together in the log of any number of threads. The thread   *)
(* of an unfinished block owns the logger (Held), so nobody else appends   *)
(* behind its pieces (OpenToTheEnd), and no thread comes back to a block   *)
(* it has left (Behind).                                                   *)
THEOREM LogCorrect == Spec => []BlocksStayWhole
<1>1. IInv => BlocksStayWhole
  BY DEF IInv
<1> QED
  BY <1>1, InitIInv, StepIInv, PTL DEF Spec

-----------------------------------------------------------------------------
(* How many pieces are still to come is right from piece to piece. *)
LEMMA InitCounted == Init => Counted /\ Freshest
<1> SUFFICES ASSUME Init PROVE Counted /\ Freshest
  OBVIOUS
<1>1. Len(log) = 0
  BY DEF Init
<1> QED
  BY <1>1 DEF Counted, Freshest

LEMMA LastType == ASSUME TypeOK, Len(log) > 0
                  PROVE  /\ Len(log) \in 1..Len(log)
                         /\ log[Len(log)].by \in Threads /\ log[Len(log)].rest \in Nat
                         /\ log[Len(log)].block \in LogBlocks
<1>1. Len(log) \in 1..Len(log)
  BY DEF TypeOK
<1>2. log[Len(log)] \in Pieces
  BY <1>1 DEF TypeOK
<1> QED
  BY <1>1, <1>2 DEF Pieces

LEMMA MoveCounts ==
  ASSUME IInv, Counted, Freshest, NEW t \in Threads, ~inside[t], NEW place,
         Goes(t, place), UNCHANGED <<inside, left, log>>
  PROVE  Counted' /\ Freshest'
<1>1. Counted'
  BY DEF Counted, SameBlock
<1>2. Freshest'
  <2> SUFFICES ASSUME Len(log) > 0
               PROVE  LET p == log[Len(log)] IN
                      p.rest = IF inside[p.by] /\ p.block = at'[p.by] THEN left[p.by] ELSE 0
    BY DEF Freshest
  <2> DEFINE p == log[Len(log)]
  <2>1. p.by \in Threads
    BY LastType DEF IInv
  <2>2. p.rest = IF inside[p.by] /\ p.block = at[p.by] THEN left[p.by] ELSE 0
    BY DEF Freshest
  <2>3. p.by # t => at'[p.by] = at[p.by]
    BY <2>1 DEF Goes, IInv, TypeOK
  <2> HIDE DEF p
  <2>4. p.rest = IF inside[p.by] /\ p.block = at'[p.by] THEN left[p.by] ELSE 0
    BY <2>2, <2>3
  <2> QED
    BY <2>4 DEF p
<1> QED
  BY <1>1, <1>2

LEMMA EnterCounts ==
  ASSUME IInv, Counted, Freshest, NEW t \in Threads, Enter(t) PROVE Counted' /\ Freshest'
<1>1. UNCHANGED <<at, log>> /\ ~inside[t] /\ inside' = [inside EXCEPT ![t] = TRUE]
  BY DEF Enter
<1>2. \A u \in Threads : u # t => left'[u] = left[u] /\ inside'[u] = inside[u]
  BY DEF Enter, IInv, TypeOK
<1>3. Counted'
  BY <1>1 DEF Counted, SameBlock
<1>4. Freshest'
  <2> SUFFICES ASSUME Len(log) > 0
               PROVE  LET p == log[Len(log)] IN
                      p.rest = IF inside'[p.by] /\ p.block = at[p.by] THEN left'[p.by] ELSE 0
    BY <1>1 DEF Freshest
  <2> DEFINE p == log[Len(log)]
  <2>1. p.by \in Threads /\ Len(log) \in 1..Len(log)
    BY LastType DEF IInv
  <2>2. p.rest = IF inside[p.by] /\ p.block = at[p.by] THEN left[p.by] ELSE 0
    BY DEF Freshest
  <2>3. p.by = t => p.block # at[t]
    <3>1. Rank(p.block) \in Nat
      BY <2>1, PieceType, RankType DEF IInv
    <3>2. Rank(p.block) < Rank(at[p.by]) \/ inside[p.by]
      BY <2>1 DEF IInv, Behind
    <3> QED
      BY <1>1, <3>1, <3>2
  <2> HIDE DEF p
  <2>4. p.rest = IF inside'[p.by] /\ p.block = at[p.by] THEN left'[p.by] ELSE 0
    BY <1>1, <1>2, <2>1, <2>2, <2>3
  <2> QED
    BY <2>4 DEF p
<1> QED
  BY <1>3, <1>4

LEMMA LeaveCounts ==
  ASSUME IInv, Counted, Freshest, NEW t \in Threads, Leave(t) PROVE Counted' /\ Freshest'
<1>1. UNCHANGED <<left, log>> /\ left[t] = 0 /\ inside' = [inside EXCEPT ![t] = FALSE]
  BY DEF Leave
<1>2. \A u \in Threads : u # t => at'[u] = at[u] /\ inside'[u] = inside[u]
  BY DEF Leave, Goes, IInv, TypeOK
<1>3. Counted'
  BY <1>1 DEF Counted, SameBlock
<1>4. Freshest'
  <2> SUFFICES ASSUME Len(log) > 0
               PROVE  LET p == log[Len(log)] IN
                      p.rest = IF inside'[p.by] /\ p.block = at'[p.by] THEN left[p.by] ELSE 0
    BY <1>1 DEF Freshest
  <2> DEFINE p == log[Len(log)]
  <2>1. p.by \in Threads
    BY LastType DEF IInv
  <2>2. p.rest = IF inside[p.by] /\ p.block = at[p.by] THEN left[p.by] ELSE 0
    BY DEF Freshest
  <2>3. inside'[t] = FALSE
    BY <1>1 DEF IInv, TypeOK
  <2> HIDE DEF p
  <2>4. p.rest = IF inside'[p.by] /\ p.block = at'[p.by] THEN left[p.by] ELSE 0
    BY <1>1, <1>2, <2>1, <2>2, <2>3
  <2> QED
    BY <2>4 DEF p
<1> QED
  BY <1>3, <1>4

(* A piece of a block that its thread is in is the logger's owner's. *)
LEMMA OpenIsOwn ==
  ASSUME IInv, NEW t \in Threads, Log(t),
         NEW i \in 1..Len(log), inside[log[i].by], log[i].block = at[log[i].by]
  PROVE  log[i].by = t
<1>1. log[i].by \in Threads /\ log[i].block \in LogBlocks
  BY PieceType DEF IInv
<1>2. mutex["logger"] = [owner |-> t, depth |-> 1]
  BY DEF IInv, Held, Object, Log
<1>3. mutex["logger"] = [owner |-> log[i].by, depth |-> 1]
  BY <1>1 DEF IInv, Held, Object
<1> QED
  BY <1>2, <1>3

LEMMA LogCounts ==
  ASSUME IInv, Counted, Freshest, NEW t \in Threads, Log(t) PROVE Counted' /\ Freshest'
<1>1. /\ inside[t] /\ UNCHANGED <<at, inside>>
      /\ left' = [left EXCEPT ![t] = left[t] - 1] /\ left[t] \in Nat /\ left[t] > 0
  BY DEF Log, IInv, TypeOK
<1>2. PICK piece \in Pieces, d \in {0, 1} :
        /\ piece.by = t /\ piece.block = at[t] /\ piece.rest = left[t] - 1
        /\ log' \in Seq(Pieces) /\ Len(log') \in 1..CallsSeen
        /\ Len(log') = Len(log) + 1 - d
        /\ \A i \in 1..Len(log') :
             log'[i] = IF i + d <= Len(log) THEN log[i + d] ELSE piece
  BY LogAppends DEF IInv
<1>3. Len(log) \in Nat /\ Len(log') \in Nat
  BY <1>2 DEF IInv, TypeOK
(* What was the end of the file, and what follows it. *)
<1>4. ASSUME Len(log) > 0
      PROVE  LET p == log[Len(log)] IN
             IF SameBlock(p, piece) THEN p.rest = piece.rest + 1 ELSE p.rest = 0
  <2> DEFINE p == log[Len(log)]
  <2>1. Len(log) \in 1..Len(log)
    BY <1>4, LastType DEF IInv
  <2>2. p.rest = IF inside[p.by] /\ p.block = at[p.by] THEN left[p.by] ELSE 0
    BY <1>4 DEF Freshest
  <2>3. inside[p.by] /\ p.block = at[p.by] => p.by = t
    BY <2>1, OpenIsOwn
  <2> HIDE DEF p
  <2>4. CASE SameBlock(p, piece)
    <3>1. p.by = t /\ p.block = at[t]
      BY <1>2, <2>4 DEF SameBlock
    <3>2. p.rest = left[t] /\ piece.rest = left[t] - 1
      BY <1>1, <1>2, <2>2, <3>1
    <3> QED
      BY <1>1, <2>4, <3>2 DEF p
  <2>5. CASE ~SameBlock(p, piece)
    <3>1. ~(inside[p.by] /\ p.block = at[p.by])
      BY <1>2, <2>3, <2>5 DEF SameBlock
    <3> QED
      BY <2>2, <2>5, <3>1 DEF p
  <2> QED
    BY <2>4, <2>5
<1>5. Counted'
  <2> SUFFICES ASSUME NEW i \in 1..(Len(log') - 1)
               PROVE  IF SameBlock(log'[i], log'[i + 1])
                        THEN log'[i].rest = log'[i + 1].rest + 1
                        ELSE log'[i].rest = 0
    BY DEF Counted, SameBlock
  <2>1. i \in 1..Len(log') /\ i + 1 \in 1..Len(log') /\ i + d \in 1..Len(log)
        /\ (i + 1) + d = (i + d) + 1
    BY <1>2, <1>3
  <2>2. log'[i] = log[i + d]
    BY <1>2, <2>1
  <2>3. CASE i + 1 + d <= Len(log)
    <3>1. log'[i + 1] = log[(i + d) + 1] /\ i + d \in 1..(Len(log) - 1)
      BY <1>2, <1>3, <2>1, <2>3
    <3> QED
      BY <2>2, <3>1 DEF Counted
  <2>4. CASE ~(i + 1 + d <= Len(log))
    <3>1. log'[i + 1] = piece /\ i + d = Len(log) /\ Len(log) > 0
      BY <1>2, <1>3, <2>1, <2>4
    <3> QED
      BY <1>4, <2>2, <3>1
  <2> QED
    BY <2>3, <2>4
<1>6. Freshest'
  <2>1. Len(log') \in 1..Len(log') /\ ~(Len(log') + d <= Len(log))
    BY <1>2, <1>3, SessionAssumption
  <2>2. log'[Len(log')] = piece
    BY <1>2, <2>1
  <2>3. left'[t] = left[t] - 1
    BY <1>1 DEF IInv, TypeOK
  <2> QED
    BY <1>1, <1>2, <2>2, <2>3 DEF Freshest
<1> QED
  BY <1>5, <1>6

LEMMA StepCounted == IInv /\ Counted /\ Freshest /\ [Next]_vars => Counted' /\ Freshest'
<1> SUFFICES ASSUME IInv, Counted, Freshest, [Next]_vars PROVE Counted' /\ Freshest'
  OBVIOUS
<1>1. ASSUME NEW t \in Threads,
             Start(t) \/ Finish(t) \/ ReadReturns(t) \/ RespondReturns(t)
      PROVE  Counted' /\ Freshest'
  <2>1. ~inside[t]
    BY <1>1 DEF Start, Finish, ReadReturns, RespondReturns, IInv, Held,
                Guarded, LogBlocks, Lookups, Checks
  <2>2. (\E place : Goes(t, place)) /\ UNCHANGED <<inside, left, log>>
    BY <1>1 DEF Start, Finish, ReadReturns, RespondReturns
  <2> QED
    BY <2>1, <2>2, MoveCounts
<1>2. ASSUME NEW t \in Threads, Enter(t) PROVE Counted' /\ Freshest'
  BY <1>2, EnterCounts
<1>3. ASSUME NEW t \in Threads, Log(t) PROVE Counted' /\ Freshest'
  BY <1>3, LogCounts
<1>4. ASSUME NEW t \in Threads, Leave(t) PROVE Counted' /\ Freshest'
  BY <1>4, LeaveCounts
<1>5. CASE UNCHANGED vars
  <2>1. UNCHANGED <<at, inside, left, log>>
    BY <1>5 DEF vars
  <2> QED
    BY <2>1 DEF Counted, Freshest, SameBlock
<1>6. CASE AllDone
  BY <1>5, <1>6 DEF AllDone
<1> QED
  BY <1>1, <1>2, <1>3, <1>4, <1>5, <1>6 DEF Next

(* A set of numbers has a least one. *)
LEMMA LeastNumber ==
  ASSUME NEW T, T \subseteq Nat, T # {}
  PROVE  \E m \in T : \A y \in T : m <= y
<1> DEFINE R == {ss \in Nat \X Nat : ss[1] < ss[2]}
<1>1. IsWellFoundedOn(R, Nat)
  BY NatLessThanWellFounded DEF OpToRel
<1>2. \A y \in Nat, m \in Nat : y < m => <<y, m>> \in R
  OBVIOUS
<1> HIDE DEF R
<1>3. PICK m \in T : \A y \in T : <<y, m>> \notin R
  BY <1>1, WFMin
<1>4. ASSUME NEW y \in T PROVE m <= y
  <2>1. m \in Nat /\ y \in Nat /\ ~(y < m)
    BY <1>2, <1>3
  <2> QED
    BY <2>1
<1> QED
  BY <1>4

(* The block of a piece goes on to its last piece, or to the end of the    *)
(* file: before the first piece of another stands the one that ends it.    *)
LEMMA BlocksEnd ==
  ASSUME TypeOK, Counted, NEW i \in 1..Len(log), NEW j \in 1..Len(log), i < j,
         ~SameBlock(log[i], log[j])
  PROVE  \E k \in i..(j - 1) : SameBlock(log[i], log[k]) /\ log[k].rest = 0
<1> DEFINE T == {m \in i..j : ~SameBlock(log[i], log[m])}
<1>1. Len(log) \in Nat /\ T \subseteq Nat /\ j \in T
  BY DEF TypeOK
<1>2. PICK m \in T : \A y \in T : m <= y
  <2> HIDE DEF T
  <2> QED
    BY <1>1, LeastNumber
<1>3. m \in i..j /\ ~SameBlock(log[i], log[m]) /\ m # i
  BY DEF SameBlock
<1>4. m - 1 \in i..(j - 1) /\ m - 1 \in 1..(Len(log) - 1) /\ (m - 1) + 1 = m
  BY <1>1, <1>3
<1>5. SameBlock(log[i], log[m - 1])
  <2>1. m - 1 \notin T
    BY <1>2, <1>4
  <2> QED
    BY <1>4, <2>1
<1>6. ~SameBlock(log[m - 1], log[m])
  BY <1>3, <1>5 DEF SameBlock
<1>7. log[m - 1].rest = 0
  BY <1>4, <1>6 DEF Counted
<1> QED
  BY <1>4, <1>5, <1>7

(* A line of the log that another block's words continue was ended by a    *)
(* piece that was lost, for any number of threads, lines and pieces: what  *)
(* LogFile::Log loses is all that can glue two clients' lines together.    *)
THEOREM LinesCorrect == Spec => []LinesEndUnlessLost
<1>1. IInv /\ Counted => LinesEndUnlessLost
  <2> SUFFICES ASSUME IInv, Counted, NEW i \in 1..Len(log), NEW j \in 1..Len(log),
                      i < j, ~EndsLine(log[i]), ~SameBlock(log[i], log[j])
               PROVE  \E k \in (i + 1)..(j - 1) : SameBlock(log[i], log[k]) /\ EndsLine(log[k])
    BY DEF LinesEndUnlessLost
  <2>1. 0 % PiecesPerLine = 0
    BY SessionAssumption
  <2>2. PICK k \in i..(j - 1) : SameBlock(log[i], log[k]) /\ log[k].rest = 0
    BY BlocksEnd DEF IInv
  <2>3. EndsLine(log[k])
    BY <2>1, <2>2 DEF EndsLine
  <2>4. k # i
    BY <2>3
  <2>5. k \in (i + 1)..(j - 1)
    BY <2>2, <2>4
  <2> QED
    BY <2>2, <2>3, <2>5
<1> QED
  BY <1>1, InitIInv, StepIInv, InitCounted, StepCounted, PTL DEF Spec

-----------------------------------------------------------------------------
(* Read, for one connection. The lines of a request: the request line, its *)
(* fields, and the empty one.                                              *)
Line(r, k) ==
  IF k = 1 THEN r.method \o <<" ">> \o r.uri \o <<" ">> \o r.version
  ELSE IF k <= Len(r.fields) + 1
    THEN r.fields[k - 1].key \o <<":">> \o r.fields[k - 1].value
    ELSE << >>

(* b lies in s after its first n bytes. *)
Lies(b, s, n) == \A i \in 1..Len(b) : s[n + i] = b[i]

(* Line k of r begins in s after the first st[k] bytes, and the body after *)
(* the last line.                                                          *)
Laid(r, s, st) ==
  LET n == Len(r.fields) IN
  /\ s \in Seq(Bytes)
  /\ st \in [1..(n + 3) -> Nat] /\ st[1] = 0
  /\ \A k \in 1..(n + 2) :
       /\ Lies(Line(r, k) \o <<"CR", "LF">>, s, st[k])
       /\ st[k + 1] = st[k] + Len(Line(r, k)) + 2 /\ st[k + 1] <= Len(s)
  /\ Lies(r.body, s, st[n + 3]) /\ Len(s) = st[n + 3] + Len(r.body)

-----------------------------------------------------------------------------
(* f begins with a and goes on by the step g, up to m. *)
Iterates(f, a, g, m) == f[0] = a /\ \A n \in 1..m : f[n] = g[<<n, f[n - 1]>>]

(* A step can be repeated as often as one likes. *)
LEMMA IterationExists ==
  ASSUME NEW S, NEW a \in S, NEW m \in Nat, NEW g \in [(1..m) \X S -> S]
  PROVE  \E f \in [0..m -> S] : Iterates(f, a, g, m)
<1> DEFINE missing == {n \in 0..m : ~ \E f \in [0..n -> S] : Iterates(f, a, g, n)}
<1>1. missing = {}
  <2> SUFFICES ASSUME missing # {} PROVE FALSE
    OBVIOUS
  <2>1. missing \subseteq Nat
    OBVIOUS
  <2>2. PICK n \in missing : \A y \in missing : n <= y
    <3> HIDE DEF missing
    <3> QED
      BY <2>1, LeastNumber
  <2>3. n \in 0..m /\ n \in Nat /\ ~ \E f \in [0..n -> S] : Iterates(f, a, g, n)
    OBVIOUS
  <2>4. CASE n = 0
    <3> DEFINE f == [i \in 0..0 |-> a]
    <3>1. f \in [0..0 -> S] /\ f[0] = a
      OBVIOUS
    <3> HIDE DEF f
    <3>2. Iterates(f, a, g, 0)
      BY <3>1 DEF Iterates
    <3> QED
      BY <2>3, <2>4, <3>1, <3>2
  <2>5. CASE n > 0
    <3>1. n - 1 \notin missing /\ n - 1 \in 0..m
      BY <2>2, <2>3, <2>5
    <3>2. PICK h \in [0..(n - 1) -> S] : Iterates(h, a, g, n - 1)
      BY <3>1
    <3>3. h[n - 1] \in S /\ n \in 1..m
      BY <2>3, <2>5
    <3>4. <<n, h[n - 1]>> \in (1..m) \X S
      BY <3>3
    <3>5. g[<<n, h[n - 1]>>] \in S
      <4> DEFINE p == <<n, h[n - 1]>>
      <4>1. p \in (1..m) \X S
        BY <3>4
      <4> HIDE DEF p
      <4>2. g[p] \in S
        BY <4>1
      <4> QED
        BY <4>2 DEF p
    <3> DEFINE f == [i \in 0..n |-> IF i = n THEN g[<<n, h[n - 1]>>] ELSE h[i]]
    <3>6. f \in [0..n -> S]
      BY <2>3, <3>5
    <3>7. f[0] = a /\ \A i \in 0..(n - 1) : f[i] = h[i]
      BY <2>3, <2>5, <3>2 DEF Iterates
    <3>8. f[n] = g[<<n, h[n - 1]>>]
      BY <2>3
    <3> HIDE DEF f
    <3>9. ASSUME NEW i \in 1..n PROVE f[i] = g[<<i, f[i - 1]>>]
      <4>1. f[i - 1] = h[i - 1]
        BY <2>3, <3>7
      <4>2. i = n \/ i \in 1..(n - 1)
        BY <2>3
      <4>3. i # n => f[i] = h[i] /\ h[i] = g[<<i, h[i - 1]>>]
        BY <2>3, <3>2, <3>7, <4>2 DEF Iterates
      <4> QED
        BY <3>8, <4>1, <4>3
    <3> QED
      BY <2>3, <3>6, <3>7, <3>9 DEF Iterates
  <2> QED
    BY <2>3, <2>4, <2>5
<1> QED
  BY <1>1

-----------------------------------------------------------------------------
(* A sequence put before another one. *)
LEMMA Catenated ==
  ASSUME NEW S, NEW a \in Seq(S), NEW b \in Seq(S)
  PROVE  /\ a \o b \in Seq(S) /\ Len(a \o b) = Len(a) + Len(b)
         /\ \A i \in 1..Len(a) : (a \o b)[i] = a[i]
         /\ \A i \in 1..Len(b) : (a \o b)[Len(a) + i] = b[i]
<1>1. Len(a) \in Nat /\ Len(b) \in Nat
  BY LenProperties
<1>2. \A i \in 1..Len(b) : (Len(a) + i) - Len(a) = i
  BY <1>1
<1> QED
  BY <1>1, <1>2, ConcatProperties

(* f[k] is the first k sequences of ls, one after the other. *)
Chained(f, ls, S) ==
  /\ f \in [0..Len(ls) -> Seq(S)]
  /\ f[0] = << >>
  /\ \A k \in 1..Len(ls) : f[k] = f[k - 1] \o ls[k]

Regroups(s, t, u) == (s \o t) \o u = s \o (t \o u)

LEMMA Regrouped ==
  ASSUME NEW S, NEW s \in Seq(S), NEW t \in Seq(S), NEW u \in Seq(S)
  PROVE  Regroups(s, t, u)
BY ConcatAssociative DEF Regroups

LEMMA NotEmpty ==
  ASSUME NEW S, NEW s \in Seq(S), NEW t \in Seq(S), s # << >> \/ t # << >>
  PROVE  s \o t # << >>
<1>1. Len(s \o t) = Len(s) + Len(t) /\ Len(s) \in Nat /\ Len(t) \in Nat
  BY Catenated, LenProperties
<1>2. Len(s) # 0 \/ Len(t) # 0
  BY EmptySeq
<1>3. Len(s \o t) # 0
  BY <1>1, <1>2
<1> QED
  BY <1>3, EmptySeq

(* FlattenSeq appends one sequence after the other. *)
LEMMA Flattened ==
  ASSUME NEW S, NEW ls \in Seq(Seq(S))
  PROVE  \E f : Chained(f, ls, S) /\ FlattenSeq(ls) = f[Len(ls)]
<1> DEFINE m == Len(ls)
           T == Seq(S)
           g == [p \in (1..m) \X T |-> p[2] \o ls[p[1]]]
<1>1. m \in Nat /\ << >> \in T
  BY LenProperties, EmptySeq
<1>2. \A k \in 1..m : ls[k] \in T
  BY ElementOfSeq
<1>3. g \in [(1..m) \X T -> T]
  BY <1>2, ConcatProperties
<1>4. \A k \in 1..m, s \in T : g[<<k, s>>] = s \o ls[k]
  OBVIOUS
<1> HIDE DEF g
<1>5. CASE m = 0
  <2>1. FlattenSeq(ls) = << >>
    BY <1>5, EmptySeq DEF FlattenSeq
  <2> DEFINE f == [k \in 0..0 |-> << >>]
  <2>2. f \in [0..m -> T] /\ f[0] = << >>
    BY <1>1, <1>5
  <2> HIDE DEF f
  <2> QED
    BY <1>5, <2>1, <2>2 DEF Chained
<1>6. CASE m > 0
  <2> DEFINE flatten == CHOOSE f : f = [i \in 1..Len(ls) |->
                                          IF i = 1 THEN ls[i] ELSE f[i - 1] \o ls[i]]
  <2>1. \E f : f = [i \in 1..Len(ls) |-> IF i = 1 THEN ls[i] ELSE f[i - 1] \o ls[i]]
    <3>1. PICK h \in [0..m -> T] : Iterates(h, << >>, g, m)
      BY <1>1, <1>3, IterationExists
    <3> DEFINE f == [i \in 1..Len(ls) |-> h[i]]
    <3>2. ASSUME NEW i \in 1..Len(ls)
          PROVE  f[i] = IF i = 1 THEN ls[i] ELSE f[i - 1] \o ls[i]
      <4>1. i - 1 \in 0..m /\ h[i - 1] \in T
        <5>1. i \in 1..m
          OBVIOUS
        <5> HIDE DEF m, T
        <5> QED
          BY <1>1, <3>1, <5>1
      <4>2. h[i] = h[i - 1] \o ls[i]
        BY <1>4, <3>1, <4>1 DEF Iterates
      <4>3. i = 1 => h[i - 1] = << >>
        BY <3>1 DEF Iterates
      <4>4. << >> \o ls[i] = ls[i]
        BY <1>2, ConcatEmptySeq
      <4>5. i # 1 => f[i - 1] = h[i - 1]
        BY <1>1
      <4> HIDE DEF m, T
      <4> QED
        BY <4>2, <4>3, <4>4, <4>5
    <3>3. f = [i \in 1..Len(ls) |-> IF i = 1 THEN ls[i] ELSE f[i - 1] \o ls[i]]
      BY <3>2
    <3> HIDE DEF f
    <3> QED
      BY <3>3
  <2>2. flatten = [i \in 1..Len(ls) |-> IF i = 1 THEN ls[i] ELSE flatten[i - 1] \o ls[i]]
    BY <2>1
  <2>3. FlattenSeq(ls) = flatten[Len(ls)]
    <3>1. Len(ls) # 0
      BY <1>6
    <3> QED
      BY <3>1, Zenon DEF FlattenSeq
  <2> HIDE DEF flatten
  <2> DEFINE f == [k \in 0..m |-> IF k = 0 THEN << >> ELSE flatten[k]]
  <2>4. ASSUME NEW k \in 1..m PROVE f[k] = f[k - 1] \o ls[k]
    <3>1. f[k] = flatten[k] /\ (k # 1 => f[k - 1] = flatten[k - 1]) /\ (k = 1 => f[k - 1] = << >>)
      BY <1>1
    <3>2. << >> \o ls[k] = ls[k]
      BY <1>2, ConcatEmptySeq
    <3>3. flatten[k] = IF k = 1 THEN ls[k] ELSE flatten[k - 1] \o ls[k]
      BY <2>2
    <3> HIDE DEF f, m
    <3> QED
      BY <3>1, <3>2, <3>3
  <2>5. f[0] = << >> /\ FlattenSeq(ls) = f[m] /\ f = [k \in 0..m |-> f[k]]
    BY <1>1, <1>6, <2>3
  <2> HIDE DEF f
  <2> DEFINE wrong == {n \in 0..m : f[n] \notin T}
  <2>6. wrong = {}
    <3> SUFFICES ASSUME wrong # {} PROVE FALSE
      OBVIOUS
    <3>1. wrong \subseteq Nat
      OBVIOUS
    <3>2. PICK n \in wrong : \A y \in wrong : n <= y
      <4> HIDE DEF wrong
      <4> QED
        BY <3>1, LeastNumber
    <3>3. n \in 0..m /\ f[n] \notin T /\ n # 0
      BY <1>1, <2>5
    <3>4. n - 1 \in 0..m /\ n - 1 \notin wrong /\ n \in 1..m
      BY <1>1, <3>2, <3>3
    <3>5. f[n - 1] \in T /\ ls[n] \in T
      BY <1>2, <3>4
    <3>6. f[n - 1] \o ls[n] \in T
      BY <3>5, ConcatProperties
    <3> QED
      BY <2>4, <3>3, <3>4, <3>6
  <2> QED
    BY <2>4, <2>5, <2>6 DEF Chained
<1>7. m = 0 \/ m > 0
  BY <1>1
<1> QED
  BY <1>5, <1>6, <1>7

(* What was flattened so far stays in front. *)
LEMMA Grows ==
  ASSUME NEW S, NEW ls \in Seq(Seq(S)), NEW f, Chained(f, ls, S),
         NEW k \in 0..Len(ls), NEW n \in k..Len(ls)
  PROVE  Lies(f[k], f[n], 0) /\ Len(f[k]) <= Len(f[n])
<1> DEFINE m == Len(ls)
           T == Seq(S)
           Right(i) == Len(f[k]) <= Len(f[i]) /\ \A j \in 1..Len(f[k]) : f[i][j] = f[k][j]
           wrong == {i \in k..m : ~Right(i)}
<1>1. m \in Nat /\ k \in Nat /\ n \in k..m
  BY LenProperties
<1>2. \A i \in 0..m : f[i] \in T /\ Len(f[i]) \in Nat
  BY LenProperties DEF Chained
<1>3. wrong = {}
  <2> SUFFICES ASSUME wrong # {} PROVE FALSE
    OBVIOUS
  <2>1. wrong \subseteq Nat
    BY <1>1
  <2>2. PICK i \in wrong : \A y \in wrong : i <= y
    <3> HIDE DEF wrong
    <3> QED
      BY <2>1, LeastNumber
  <2>3. i \in k..m /\ ~Right(i)
    OBVIOUS
  <2>4. Right(k)
    BY <1>1, <1>2
  <2> HIDE DEF m, T
  <2>5. i - 1 \in k..m /\ i \in 1..m /\ i - 1 \in 0..m
    <3> HIDE DEF wrong, Right
    <3>1. i # k
      BY <2>3, <2>4
    <3> QED
      BY <1>1, <2>3, <3>1
  <2>6. Right(i - 1)
    <3>1. i - 1 \notin wrong
      <4> HIDE DEF wrong, Right
      <4> QED
        BY <1>1, <2>2, <2>3, <2>5
    <3> HIDE DEF Right
    <3> QED
      BY <2>5, <3>1
  <2> DEFINE a == f[i - 1]
             b == ls[i]
  <2>7. a \in T /\ b \in T /\ f[i] = a \o b
    BY <1>2, <2>5, ElementOfSeq DEF m, T, Chained
  <2>8. Len(a) \in Nat /\ Len(b) \in Nat /\ Len(f[k]) \in Nat
    BY <1>1, <1>2, <2>7, LenProperties DEF T
  <2>9. Len(f[k]) <= Len(a) /\ \A j \in 1..Len(f[k]) : a[j] = f[k][j]
    BY <2>6
  <2> HIDE DEF a, b
  <2>10. Len(f[i]) = Len(a) + Len(b) /\ \A j \in 1..Len(a) : f[i][j] = a[j]
    BY <2>7, Catenated DEF T
  <2>11. Right(i)
    BY <2>8, <2>9, <2>10
  <2> QED
    BY <2>3, <2>11
<1>4. Right(n)
  BY <1>1, <1>3
<1>5. \A j \in 1..Len(f[k]) : 0 + j = j
  BY <1>1, <1>2
<1> QED
  BY <1>4, <1>5 DEF Lies

(* The words of a request are sequences of bytes, its lines of text.       *)
LEMMA RequestType ==
  ASSUME NEW r \in Requests
  PROVE  /\ r.method \in Words /\ r.method # << >>
         /\ r.uri \in Words /\ r.version \in Words /\ r.body \in Seq(Bytes)
         /\ r.fields \in Seq([key : Seq(Text \ {":"}), value : Seq(Text)])
         /\ {" ", ":", "CR", "LF"} \subseteq Bytes
  BY ReadAssumption

LEMMA OneByte ==
  ASSUME NEW S, NEW b \in S
  PROVE  <<b>> \in Seq(S) /\ Len(<<b>>) = 1 /\ <<b>>[1] = b
  OBVIOUS

LEMMA TwoBytes ==
  ASSUME NEW S, NEW b \in S, NEW c \in S
  PROVE  <<b, c>> \in Seq(S) /\ Len(<<b, c>>) = 2 /\ <<b, c>>[1] = b /\ <<b, c>>[2] = c
  OBVIOUS

LEMMA SomeLine ==
  ASSUME NEW r \in Requests, NEW i \in 1..Len(r.fields)
  PROVE  /\ r.fields[i].key \in Seq(Text \ {":"}) /\ r.fields[i].value \in Seq(Text)
         /\ Line(r, i + 1) = r.fields[i].key \o <<":">> \o r.fields[i].value
<1>1. r.fields[i] \in [key : Seq(Text \ {":"}), value : Seq(Text)]
  BY RequestType, ElementOfSeq
<1>2. Len(r.fields) \in Nat
  BY RequestType, LenProperties
<1>3. i + 1 # 1 /\ i + 1 <= Len(r.fields) + 1 /\ (i + 1) - 1 = i
  BY <1>2
<1>4. Line(r, i + 1) = r.fields[i].key \o <<":">> \o r.fields[i].value
  BY <1>3 DEF Line
<1> QED
  BY <1>1, <1>4

LEMMA LineType ==
  ASSUME NEW r \in Requests, NEW k \in 1..(Len(r.fields) + 2)
  PROVE  Line(r, k) \in Seq(Text) /\ Len(Line(r, k)) \in Nat
<1>1. Len(r.fields) \in Nat
  BY RequestType, LenProperties
<1>2. " " \in Text /\ ":" \in Text
  BY RequestType DEF Text
<1>3. <<" ">> \in Seq(Text) /\ <<":">> \in Seq(Text)
  BY <1>2, OneByte
<1>4. CASE k = 1
  <2>1. r.method \in Seq(Text) /\ r.uri \in Seq(Text) /\ r.version \in Seq(Text)
    <3>1. Text \ {" "} \subseteq Text
      OBVIOUS
    <3>2. r.method \in Seq(Text \ {" "}) /\ r.uri \in Seq(Text \ {" "}) /\ r.version \in Seq(Text \ {" "})
      BY RequestType DEF Words
    <3> QED
      BY <3>1, <3>2, SeqMonotonic
  <2>2. r.method \o <<" ">> \in Seq(Text)
    BY <1>3, <2>1, Catenated
  <2>3. r.method \o <<" ">> \o r.uri \in Seq(Text)
    BY <2>1, <2>2, Catenated
  <2>4. r.method \o <<" ">> \o r.uri \o <<" ">> \in Seq(Text)
    BY <1>3, <2>3, Catenated
  <2>5. r.method \o <<" ">> \o r.uri \o <<" ">> \o r.version \in Seq(Text)
    BY <2>1, <2>4, Catenated
  <2> QED
    BY <1>4, <2>5, LenProperties DEF Line
<1>5. CASE k # 1 /\ k <= Len(r.fields) + 1
  <2>1. k - 1 \in 1..Len(r.fields) /\ (k - 1) + 1 = k
    BY <1>1, <1>5
  <2> DEFINE i == k - 1
             key == r.fields[i].key
             value == r.fields[i].value
  <2>2. i \in 1..Len(r.fields) /\ i + 1 = k
    BY <2>1
  <2>3. key \in Seq(Text \ {":"}) /\ value \in Seq(Text)
    <3> HIDE DEF i
    <3> QED
      BY <2>2, SomeLine
  <2>4. Line(r, k) = key \o <<":">> \o value
    <3> HIDE DEF i
    <3>1. Line(r, i + 1) = key \o <<":">> \o value
      BY <2>2, SomeLine
    <3> QED
      BY <2>2, <3>1
  <2> HIDE DEF key, value
  <2>5. key \in Seq(Text)
    BY <2>3, SeqMonotonic
  <2>6. key \o <<":">> \in Seq(Text)
    BY <1>3, <2>5, Catenated
  <2>7. key \o <<":">> \o value \in Seq(Text)
    BY <2>3, <2>6, Catenated
  <2> QED
    BY <2>4, <2>7, LenProperties
<1>6. CASE k # 1 /\ ~(k <= Len(r.fields) + 1)
  <2>1. Line(r, k) = << >>
    BY <1>6 DEF Line
  <2> QED
    BY <2>1, EmptySeq
<1> QED
  BY <1>4, <1>5, <1>6

(* A sequence lies at the front of one that goes on, and what goes on      *)
(* after it.                                                               *)
LEMMA LiesFirst ==
  ASSUME NEW S, NEW s \in Seq(S), NEW u \in Seq(S), NEW b \in Seq(S), NEW n \in Nat,
         n + Len(b) <= Len(s), Lies(b, s, n)
  PROVE  Lies(b, s \o u, n)
<1>1. Len(b) \in Nat /\ Len(s) \in Nat
  BY LenProperties
<1>2. ASSUME NEW i \in 1..Len(b) PROVE (s \o u)[n + i] = b[i]
  <2>1. n + i \in 1..Len(s)
    BY <1>1
  <2>2. (s \o u)[n + i] = s[n + i]
    BY <2>1, Catenated
  <2>3. s[n + i] = b[i]
    BY DEF Lies
  <2> QED
    BY <2>2, <2>3
<1> QED
  BY <1>2 DEF Lies

LEMMA LiesAfter ==
  ASSUME NEW S, NEW s \in Seq(S), NEW u \in Seq(S), NEW b \in Seq(S), NEW n \in Nat,
         n + Len(b) <= Len(u), Lies(b, u, n)
  PROVE  Lies(b, s \o u, Len(s) + n)
<1>1. Len(b) \in Nat /\ Len(s) \in Nat /\ Len(u) \in Nat
  BY LenProperties
<1>2. ASSUME NEW i \in 1..Len(b) PROVE (s \o u)[(Len(s) + n) + i] = b[i]
  <2> DEFINE j == n + i
  <2>1. j \in 1..Len(u) /\ (Len(s) + n) + i = Len(s) + j
    BY <1>1
  <2>2. u[j] = b[i]
    BY DEF Lies
  <2> HIDE DEF j
  <2>3. (s \o u)[Len(s) + j] = u[j]
    BY <2>1, Catenated
  <2> QED
    BY <2>1, <2>2, <2>3
<1> QED
  BY <1>2 DEF Lies

LEMMA LiesAtEnd ==
  ASSUME NEW S, NEW s \in Seq(S), NEW b \in Seq(S)
  PROVE  Lies(b, s \o b, Len(s)) /\ Lies(s, s \o b, 0)
<1>1. Len(b) \in Nat /\ Len(s) \in Nat
  BY LenProperties
<1>2. ASSUME NEW i \in 1..Len(s) PROVE (s \o b)[0 + i] = s[i]
  <2>1. 0 + i = i
    BY <1>1
  <2> QED
    BY <2>1, Catenated
<1>3. ASSUME NEW i \in 1..Len(b) PROVE (s \o b)[Len(s) + i] = b[i]
  BY Catenated
<1> QED
  BY <1>2, <1>3 DEF Lies

(* The fields, one after the other, as FlattenSeq puts them. *)
LEMMA FieldsLaid ==
  ASSUME NEW r \in Requests
  PROVE  LET n   == Len(r.fields)
             all == FlattenSeq([i \in DOMAIN r.fields |-> FieldLine(r.fields[i])])
         IN  /\ n \in Nat /\ all \in Seq(Bytes)
             /\ \E to \in [0..n -> Nat] :
                  /\ to[0] = 0 /\ to[n] = Len(all)
                  /\ \A i \in 1..n :
                       /\ to[i] = to[i - 1] + Len(Line(r, i + 1)) + 2
                       /\ to[i] <= Len(all)
                       /\ Lies(Line(r, i + 1) \o <<"CR", "LF">>, all, to[i - 1])
<1> DEFINE n   == Len(r.fields)
           ls  == [i \in DOMAIN r.fields |-> FieldLine(r.fields[i])]
           all == FlattenSeq(ls)
           T   == Seq(Bytes)
           full(i) == Line(r, i + 1) \o <<"CR", "LF">>
<1>1. n \in Nat /\ DOMAIN r.fields = 1..n
  BY RequestType, LenProperties
<1>2. <<"CR", "LF">> \in T /\ Len(<<"CR", "LF">>) = 2
  BY RequestType, TwoBytes
<1>3. ASSUME NEW i \in 1..n
      PROVE  /\ ls[i] = full(i) /\ full(i) \in T
             /\ Len(full(i)) = Len(Line(r, i + 1)) + 2 /\ Len(Line(r, i + 1)) \in Nat
  <2> DEFINE k == i + 1
             line == Line(r, k)
             eol == <<"CR", "LF">>
  <2>1. k \in 1..(n + 2)
    BY <1>1
  <2>2. line \in Seq(Text) /\ Len(line) \in Nat
    <3> HIDE DEF k
    <3> QED
      BY <2>1, LineType
  <2>3. ls[i] = line \o eol
    BY <1>1, SomeLine DEF FieldLine
  <2>4. eol \in T /\ Len(eol) = 2
    BY <1>2
  <2>5. full(i) = line \o eol
    OBVIOUS
  <2> HIDE DEF line, eol, ls, full
  <2>6. line \in T
    <3>1. Text \subseteq Bytes
      BY DEF Text
    <3> QED
      BY <2>2, <3>1, SeqMonotonic
  <2>7. line \o eol \in T /\ Len(line \o eol) = Len(line) + 2
    <3>1. line \o eol \in Seq(Bytes) /\ Len(line \o eol) = Len(line) + Len(eol)
      BY <2>4, <2>6, Catenated
    <3> QED
      BY <2>4, <3>1
  <2> QED
    BY <2>2, <2>3, <2>5, <2>7 DEF line
<1>4. ls \in Seq(T) /\ Len(ls) = n
  <2>1. ls = [i \in 1..n |-> ls[i]] /\ \A i \in 1..n : ls[i] \in T
    BY <1>1, <1>3
  <2> HIDE DEF ls, T, n
  <2> QED
    BY <1>1, <2>1, IsASeq
<1> HIDE DEF ls, full
<1>5. PICK f : Chained(f, ls, Bytes) /\ all = f[Len(ls)]
  BY <1>4, Flattened
<1> HIDE DEF all
<1> DEFINE to == [k \in 0..n |-> Len(f[k])]
<1>6. to \in [0..n -> Nat] /\ \A k \in 0..n : f[k] \in T /\ to[k] = Len(f[k]) /\ to[k] \in Nat
  BY <1>4, <1>5, LenProperties DEF Chained
<1> HIDE DEF to, T, n
<1>7. all \in T /\ to[0] = 0 /\ to[n] = Len(all)
  BY <1>1, <1>4, <1>5, <1>6, EmptySeq DEF Chained
<1>8. ASSUME NEW i \in 1..n
      PROVE  /\ to[i] = to[i - 1] + Len(Line(r, i + 1)) + 2
             /\ to[i] <= Len(all)
             /\ Lies(full(i), all, to[i - 1])
  <2> DEFINE a == f[i - 1]
             b == full(i)
             s == f[i]
  <2>1. i \in 0..n /\ i - 1 \in 0..n /\ n \in i..n
    BY <1>1
  <2>2. a \in T /\ b \in T /\ s = a \o b /\ s \in T
    BY <1>3, <1>4, <1>5, <1>6, <2>1 DEF Chained
  <2>3. to[i] = Len(s) /\ to[i - 1] = Len(a) /\ Len(a) \in Nat /\ Len(s) \in Nat
    BY <1>6, <2>1
  <2>4. Len(b) = Len(Line(r, i + 1)) + 2 /\ Len(b) \in Nat
    BY <1>3
  <2>5. Lies(s, all, 0) /\ Len(s) <= Len(all)
    <3>1. ls \in Seq(Seq(Bytes)) /\ i \in 0..Len(ls) /\ n \in i..Len(ls)
      BY <1>4, <2>1 DEF T
    <3>2. Lies(f[i], f[n], 0) /\ Len(f[i]) <= Len(f[n])
      BY <1>5, <3>1, Grows
    <3> QED
      BY <1>4, <1>5, <3>2
  <2> HIDE DEF a, b
  <2>6. Len(s) = Len(a) + Len(b) /\ Lies(b, s, Len(a))
    BY <2>2, Catenated, LiesAtEnd DEF T
  <2>7. ASSUME NEW j \in 1..Len(b) PROVE all[Len(a) + j] = b[j]
    <3>1. Len(a) + j \in 1..Len(s) /\ 0 + (Len(a) + j) = Len(a) + j
      BY <2>3, <2>4, <2>6
    <3>2. s[Len(a) + j] = b[j]
      BY <2>6 DEF Lies
    <3> QED
      BY <2>5, <3>1, <3>2 DEF Lies
  <2>8. Lies(b, all, Len(a))
    BY <2>7 DEF Lies
  <2>9. Line(r, i + 1) = Line(r, i + 1) /\ Len(Line(r, i + 1)) \in Nat
    BY <1>3
  <2>10. to[i] = to[i - 1] + Len(Line(r, i + 1)) + 2
    BY <2>3, <2>4, <2>6, <2>9
  <2> QED
    BY <1>5, <2>3, <2>5, <2>8, <2>10 DEF b
<1> QED
  BY <1>1, <1>6, <1>7, <1>8 DEF full, ls, T, all, n

(* What is on the wire are the lines of the request, each with its end,    *)
(* and the body.                                                           *)
LEMMA LaidOut ==
  ASSUME NEW r \in Requests
  PROVE  \E st : Laid(r, Wire(r), st)
<1> DEFINE n    == Len(r.fields)
           all  == FlattenSeq([i \in DOMAIN r.fields |-> FieldLine(r.fields[i])])
           eol  == <<"CR", "LF">>
           line == Line(r, 1)
           s1   == line \o eol
           s2   == s1 \o all
           s3   == s2 \o eol
           data == r.body
           s    == s3 \o data
<1>1. n \in Nat /\ all \in Seq(Bytes)
  BY FieldsLaid
<1>2. PICK to \in [0..n -> Nat] :
        /\ to[0] = 0 /\ to[n] = Len(all)
        /\ \A i \in 1..n : /\ to[i] = to[i - 1] + Len(Line(r, i + 1)) + 2
                           /\ to[i] <= Len(all)
                           /\ Lies(Line(r, i + 1) \o eol, all, to[i - 1])
  BY FieldsLaid
<1>3. s = Wire(r)
  <2>1. line = r.method \o <<" ">> \o r.uri \o <<" ">> \o r.version
    BY DEF Line
  <2> HIDE DEF line
  <2> QED
    BY <2>1 DEF Wire
<1>4. eol \in Seq(Bytes) /\ Len(eol) = 2 /\ data \in Seq(Bytes)
  BY RequestType, TwoBytes
<1>5. \A k \in 1..(n + 2) : Line(r, k) \in Seq(Bytes) /\ Len(Line(r, k)) \in Nat
  <2>1. Text \subseteq Bytes
    BY DEF Text
  <2> SUFFICES ASSUME NEW k \in 1..(n + 2) PROVE Line(r, k) \in Seq(Bytes) /\ Len(Line(r, k)) \in Nat
    OBVIOUS
  <2>2. Line(r, k) \in Seq(Text) /\ Len(Line(r, k)) \in Nat
    BY LineType
  <2> QED
    BY <2>1, <2>2, SeqMonotonic
<1>6. line \in Seq(Bytes) /\ Len(line) \in Nat
  BY <1>1, <1>5
<1> HIDE DEF line, eol, n, all, data
<1>7. s1 \in Seq(Bytes) /\ Len(s1) = Len(line) + 2
  <2>1. line \in Seq(Bytes)
    BY <1>6
  <2>2. eol \in Seq(Bytes)
    BY <1>4
  <2>3. s1 \in Seq(Bytes) /\ Len(s1) = Len(line) + Len(eol)
    BY <2>1, <2>2, Catenated
  <2> QED
    BY <1>4, <2>3
<1> HIDE DEF s1
<1>8. s2 \in Seq(Bytes) /\ Len(s2) = Len(s1) + Len(all)
  <2>1. s1 \in Seq(Bytes)
    BY <1>7
  <2>2. all \in Seq(Bytes)
    BY <1>1
  <2> QED
    BY <2>1, <2>2, Catenated
<1> HIDE DEF s2
<1>9. s3 \in Seq(Bytes) /\ Len(s3) = Len(s2) + 2
  <2>1. s2 \in Seq(Bytes)
    BY <1>8
  <2>2. eol \in Seq(Bytes)
    BY <1>4
  <2>3. s3 \in Seq(Bytes) /\ Len(s3) = Len(s2) + Len(eol)
    BY <2>1, <2>2, Catenated
  <2> QED
    BY <1>4, <2>3
<1> HIDE DEF s3
<1>10. s \in Seq(Bytes) /\ Len(s) = Len(s3) + Len(data)
  <2>1. s3 \in Seq(Bytes)
    BY <1>9
  <2>2. data \in Seq(Bytes)
    BY <1>4
  <2> QED
    BY <2>1, <2>2, Catenated
<1>11. /\ Len(s1) \in Nat /\ Len(all) \in Nat /\ Len(s2) \in Nat /\ Len(s3) \in Nat
       /\ Len(data) \in Nat /\ Len(s) \in Nat /\ Len(eol) \in Nat
  BY <1>1, <1>4, <1>7, <1>8, <1>9, <1>10, LenProperties
<1> DEFINE st == [k \in 1..(n + 3) |-> IF k = 1 THEN 0
                                       ELSE IF k = n + 3 THEN Len(s3)
                                       ELSE Len(s1) + to[k - 2]]
<1>12. /\ st \in [1..(n + 3) -> Nat] /\ st[1] = 0 /\ st[n + 3] = Len(s3)
       /\ \A k \in 2..(n + 2) : st[k] = Len(s1) + to[k - 2] /\ to[k - 2] \in Nat
  <2>1. \A k \in 1..(n + 3) : k # 1 /\ k # n + 3 => to[k - 2] \in Nat
    BY <1>1, <1>2
  <2> QED
    BY <1>1, <1>11, <2>1
<1> HIDE DEF st
<1>13. ASSUME NEW b \in Seq(Bytes), NEW j \in Nat, j + Len(b) <= Len(s2), Lies(b, s2, j)
       PROVE  Lies(b, s, j)
  <2>1. Lies(b, s3, j)
    BY <1>4, <1>8, <1>13, LiesFirst DEF s3
  <2>2. Len(b) \in Nat /\ j + Len(b) <= Len(s3)
    BY <1>9, <1>11, <1>13, LenProperties
  <2> QED
    BY <1>4, <1>9, <2>1, <2>2, LiesFirst
<1>14. ASSUME NEW k \in 1..(n + 2)
       PROVE  /\ Lies(Line(r, k) \o eol, s, st[k])
              /\ st[k + 1] = st[k] + Len(Line(r, k)) + 2 /\ st[k + 1] <= Len(s)
  <2>1. CASE k = 1
    <3>1. Lies(s1, s2, 0)
      BY <1>1, <1>7, LiesAtEnd DEF s2
    <3>2. 0 \in Nat /\ 0 + Len(s1) <= Len(s2)
      BY <1>8, <1>11
    <3>3. Lies(s1, s, 0)
      BY <1>7, <1>13, <3>1, <3>2
    <3>4. Line(r, k) \o eol = s1 /\ st[k] = 0
      BY <1>12, <2>1 DEF s1, line
    <3>5. st[k + 1] = Len(s1) + 0
      BY <1>1, <1>2, <1>12, <2>1
    <3>6. Line(r, k) = line
      BY <2>1 DEF line
    <3>7. st[k + 1] = st[k] + Len(line) + 2 /\ st[k + 1] <= Len(s)
      <4>1. st[k + 1] = Len(s1) /\ st[k] = 0
        BY <1>11, <3>4, <3>5
      <4> HIDE DEF s
      <4> QED
        BY <1>6, <1>7, <1>8, <1>9, <1>10, <1>11, <4>1
    <3> QED
      BY <3>3, <3>4, <3>6, <3>7
  <2>2. CASE k \in 2..(n + 1)
    <3> DEFINE i == k - 1
               b == Line(r, k) \o eol
    <3>1. i \in 1..n /\ i + 1 = k /\ i - 1 = k - 2 /\ (k + 1) - 2 = i
      BY <1>1, <2>2
    <3>2. b \in Seq(Bytes) /\ Len(b) = Len(Line(r, k)) + 2 /\ Len(Line(r, k)) \in Nat
      <4>1. Line(r, k) \in Seq(Bytes) /\ Len(Line(r, k)) \in Nat
        BY <1>5 DEF n
      <4>2. b \in Seq(Bytes) /\ Len(b) = Len(Line(r, k)) + Len(eol)
        BY <1>4, <4>1, Catenated
      <4> QED
        BY <1>4, <4>1, <4>2
    <3> HIDE DEF i
    <3>3. /\ to[i] = to[i - 1] + Len(Line(r, i + 1)) + 2 /\ to[i] <= Len(all)
          /\ Lies(Line(r, i + 1) \o eol, all, to[i - 1])
      BY <1>2, <3>1
    <3>4. st[k] = Len(s1) + to[i - 1] /\ to[i - 1] \in Nat
      BY <1>1, <1>12, <2>2, <3>1
    <3>5. st[k + 1] = Len(s1) + to[i] /\ to[i] \in Nat
      <4>1. k + 1 \in 2..(n + 2)
        BY <1>1, <2>2
      <4> QED
        BY <1>12, <3>1, <4>1
    <3>6. Lies(b, all, to[i - 1])
      BY <3>1, <3>3
    <3> HIDE DEF b
    <3>7. to[i - 1] + Len(b) <= Len(all)
      BY <3>1, <3>2, <3>3, <3>4
    <3>8. Lies(b, s2, Len(s1) + to[i - 1])
      <4> DEFINE p == to[i - 1]
      <4>1. s1 \in Seq(Bytes)
        BY <1>7
      <4>2. all \in Seq(Bytes)
        BY <1>1
      <4>3. b \in Seq(Bytes) /\ p \in Nat
        BY <3>2, <3>4
      <4>4. p + Len(b) <= Len(all) /\ Lies(b, all, p)
        BY <3>6, <3>7
      <4> HIDE DEF p
      <4>5. Lies(b, s1 \o all, Len(s1) + p)
        <5> HIDE DEF b
        <5> QED
          BY <4>1, <4>2, <4>3, <4>4, LiesAfter
      <4> QED
        BY <4>5 DEF p, s2
    <3>9. st[k] \in Nat /\ st[k] + Len(b) <= Len(s2) /\ st[k + 1] = st[k] + Len(b)
      <4> DEFINE p == to[i - 1]
                 q == to[i]
      <4>1. /\ st[k] = Len(s1) + p /\ st[k + 1] = Len(s1) + q
            /\ p \in Nat /\ q \in Nat /\ p + Len(b) <= Len(all)
        BY <3>4, <3>5, <3>7
      <4>2. q = p + Len(b)
        BY <3>1, <3>2, <3>3, <3>4
      <4>3. Len(b) \in Nat
        BY <3>2
      <4>4. Len(s2) = Len(s1) + Len(all) /\ Len(s1) \in Nat /\ Len(all) \in Nat
        BY <1>8, <1>11
      <4> HIDE DEF p, q
      <4> QED
        BY <4>1, <4>2, <4>3, <4>4
    <3>10. Lies(b, s, st[k])
      BY <1>13, <3>2, <3>4, <3>8, <3>9
    <3>11. st[k + 1] = st[k] + Len(Line(r, k)) + 2 /\ st[k + 1] <= Len(s)
      <4> DEFINE p == st[k]
                 q == st[k + 1]
                 l == Len(Line(r, k))
      <4>1. p \in Nat /\ q = p + Len(b) /\ p + Len(b) <= Len(s2) /\ Len(b) = l + 2 /\ l \in Nat
        BY <3>2, <3>9
      <4> HIDE DEF s, p, q, l
      <4>2. q = p + l + 2 /\ q <= Len(s)
        BY <1>9, <1>10, <1>11, <4>1
      <4> QED
        BY <4>2 DEF p, q, l
    <3> QED
      BY <3>10, <3>11 DEF b
  <2>3. CASE k = n + 2
    <3>1. Line(r, k) = << >>
      BY <1>1, <2>3 DEF Line, n
    <3>2. << >> \o eol = eol /\ Len(<< >>) = 0
      BY <1>4, ConcatEmptySeq, EmptySeq
    <3>3. Lies(eol, s3, Len(s2))
      BY <1>4, <1>8, LiesAtEnd DEF s3
    <3>4. Len(s2) + Len(eol) <= Len(s3)
      BY <1>4, <1>9, <1>11
    <3>5. Lies(eol, s, Len(s2))
      BY <1>4, <1>9, <1>11, <3>3, <3>4, LiesFirst
    <3>6. k \in 2..(n + 2) /\ k - 2 = n /\ k + 1 = n + 3
      BY <1>1, <2>3
    <3>7. st[k] = Len(s2)
      BY <1>2, <1>8, <1>12, <3>6
    <3>8. st[k + 1] = Len(s3)
      BY <1>12, <3>6
    <3>9. Line(r, k) \o eol = eol /\ Len(Line(r, k)) = 0
      BY <3>1, <3>2
    <3>10. st[k + 1] = st[k] + 0 + 2 /\ st[k + 1] <= Len(s)
      <4> HIDE DEF s
      <4> QED
        BY <1>9, <1>10, <1>11, <3>7, <3>8
    <3> QED
      BY <3>5, <3>7, <3>9, <3>10
  <2>4. k = 1 \/ k \in 2..(n + 1) \/ k = n + 2
    BY <1>1
  <2> QED
    BY <2>1, <2>2, <2>3, <2>4
<1>15. Lies(data, s, Len(s3))
  BY <1>4, <1>9, LiesAtEnd
<1> HIDE DEF s
<1>16. Laid(r, s, st)
  BY <1>10, <1>12, <1>14, <1>15 DEF Laid, n, eol, data
<1> QED
  BY <1>3, <1>16


-----------------------------------------------------------------------------
LEMMA MinIs ==
  ASSUME NEW T, T \subseteq Int, NEW m \in T, \A y \in T : m <= y
  PROVE  Min(T) = m
<1>1. \A x \in T : (\A y \in T : x <= y) => x = m
  OBVIOUS
<1> QED
  BY <1>1 DEF Min

LEMMA MinOfPair ==
  ASSUME NEW m \in Int, NEW n \in Int
  PROVE  Min({m, n}) = IF m <= n THEN m ELSE n
<1>1. m <= n => Min({m, n}) = m
  BY MinIs
<1>2. ~(m <= n) => Min({m, n}) = n
  BY MinIs
<1> QED
  BY <1>1, <1>2

(* A token ends at the first delimiter. *)
LEMMA TokenAt ==
  ASSUME NEW S, NEW d \in S, NEW a \in Seq(S \ {d}), NEW b \in Seq(S)
  PROVE  Token(a \o (<<d>> \o b), d) = [token |-> a, rest |-> b]
<1> DEFINE one == <<d>>
           t == one \o b
           s == a \o t
           D == {i \in DOMAIN s : s[i] = d} \cup {Len(s) + 1}
           st == Len(a) + 1
<1>1. one \in Seq(S) /\ Len(one) = 1 /\ one[1] = d
  OBVIOUS
<1>2. a \in Seq(S)
  <2>1. S \ {d} \subseteq S
    OBVIOUS
  <2> QED
    BY <2>1, SeqMonotonic
<1> HIDE DEF one
<1>3. /\ t \in Seq(S) /\ Len(t) = Len(one) + Len(b)
      /\ \A i \in 1..Len(one) : t[i] = one[i]
      /\ \A i \in 1..Len(b) : t[Len(one) + i] = b[i]
  <2>1. t \in Seq(S) /\ Len(t) = Len(one) + Len(b)
    BY <1>1, Catenated
  <2>2. \A i \in 1..Len(one) : t[i] = one[i]
    BY <1>1, Catenated
  <2>3. \A i \in 1..Len(b) : t[Len(one) + i] = b[i]
    <3>1. one \in Seq(S)
      BY <1>1
    <3> QED
      BY <3>1, Catenated
  <2> QED
    BY <2>1, <2>2, <2>3
<1> HIDE DEF t
<1>4. /\ s \in Seq(S) /\ Len(s) = Len(a) + Len(t)
      /\ \A i \in 1..Len(a) : s[i] = a[i]
      /\ \A i \in 1..Len(t) : s[Len(a) + i] = t[i]
  <2>1. s \in Seq(S) /\ Len(s) = Len(a) + Len(t)
    BY <1>2, <1>3, Catenated
  <2>2. \A i \in 1..Len(a) : s[i] = a[i]
    BY <1>2, <1>3, Catenated
  <2>3. \A i \in 1..Len(t) : s[Len(a) + i] = t[i]
    BY <1>2, <1>3, Catenated
  <2> QED
    BY <2>1, <2>2, <2>3
<1> HIDE DEF s
<1>5. /\ Len(a) \in Nat /\ Len(b) \in Nat /\ Len(t) = 1 + Len(b)
      /\ Len(s) = Len(a) + 1 + Len(b) /\ DOMAIN s = 1..Len(s)
  BY <1>1, <1>2, <1>3, <1>4, LenProperties
<1>6. s[st] = d
  BY <1>1, <1>3, <1>4, <1>5
<1>7. \A i \in 1..Len(a) : s[i] # d
  <2>1. \A i \in 1..Len(a) : a[i] \in S \ {d}
    BY ElementOfSeq
  <2> QED
    BY <1>4, <2>1
<1>8. st \in D /\ D \subseteq Int /\ \A y \in D : st <= y
  BY <1>5, <1>6, <1>7
<1>9. Min(D) = st
  <2> HIDE DEF D, st
  <2> QED
    BY <1>8, MinIs
<1>10. \A i \in 1..Len(s) : s[i] \in S
  BY <1>4, ElementOfSeq
<1>11. SubSeq(s, 1, st - 1) = a
  <2> DEFINE u == SubSeq(s, 1, Len(a))
  <2>1. \A i \in 1..Len(a) : s[i] \in S
    BY <1>5, <1>10
  <2>2. /\ u \in Seq(S) /\ Len(u) = (IF 1 <= Len(a) THEN Len(a) - 1 + 1 ELSE 0)
        /\ \A i \in 1..(Len(a) - 1 + 1) : u[i] = s[1 + i - 1]
    BY <1>5, <2>1, SubSeqProperties
  <2> HIDE DEF u
  <2>3. Len(u) = Len(a) /\ \A i \in 1..Len(a) : u[i] = s[i]
    BY <1>5, <2>2
  <2>4. u = a
    BY <1>2, <1>4, <2>2, <2>3, SeqEqual
  <2>5. st - 1 = Len(a)
    BY <1>5
  <2> QED
    BY <2>4, <2>5 DEF u
<1>12. SubSeq(s, st + 1, Len(s)) = b
  <2> DEFINE m == st + 1
             u == SubSeq(s, m, Len(s))
  <2>1. \A i \in m..Len(s) : s[i] \in S
    BY <1>5, <1>10
  <2>2. m \in Int /\ Len(s) \in Int /\ m = Len(a) + 2
    BY <1>5
  <2> HIDE DEF m
  <2>3. /\ u \in Seq(S) /\ Len(u) = (IF m <= Len(s) THEN Len(s) - m + 1 ELSE 0)
        /\ \A i \in 1..(Len(s) - m + 1) : u[i] = s[m + i - 1]
    BY <2>1, <2>2, SubSeqProperties
  <2> HIDE DEF u
  <2>4. Len(u) = Len(b) /\ \A i \in 1..Len(b) : u[i] = s[m + i - 1]
    BY <1>5, <2>2, <2>3
  <2>5. ASSUME NEW i \in 1..Len(b) PROVE u[i] = b[i]
    <3>1. m + i - 1 = Len(a) + (1 + i) /\ 1 + i \in 1..Len(t)
      BY <1>5, <2>2
    <3>2. s[Len(a) + (1 + i)] = t[1 + i]
      BY <1>4, <3>1
    <3>3. t[1 + i] = b[i]
      BY <1>1, <1>3
    <3> QED
      BY <2>4, <3>1, <3>2, <3>3
  <2>6. u = b
    BY <2>3, <2>4, <2>5, SeqEqual
  <2> QED
    BY <2>6 DEF m, u
<1>13. Token(s, d) = [token |-> SubSeq(s, 1, Min(D) - 1), rest |-> SubSeq(s, Min(D) + 1, Len(s))]
  BY DEF Token
<1>14. Token(s, d) = [token |-> a, rest |-> b]
  <2> HIDE DEF D, st
  <2> QED
    BY <1>9, <1>11, <1>12, <1>13
<1> QED
  BY <1>14 DEF s, t, one

(* Without one it is the whole line. *)
LEMMA TokenAll ==
  ASSUME NEW S, NEW d, NEW a \in Seq(S \ {d})
  PROVE  Token(a, d).token = a
<1> DEFINE D == {i \in DOMAIN a : a[i] = d} \cup {Len(a) + 1}
           st == Len(a) + 1
<1>1. Len(a) \in Nat /\ DOMAIN a = 1..Len(a)
  BY LenProperties
<1>2. \A i \in 1..Len(a) : a[i] # d
  <2>1. \A i \in 1..Len(a) : a[i] \in S \ {d}
    BY ElementOfSeq
  <2> QED
    BY <2>1
<1>3. st \in D /\ D \subseteq Int /\ \A y \in D : st <= y
  BY <1>1, <1>2
<1>4. Min(D) = st
  <2> HIDE DEF D, st
  <2> QED
    BY <1>3, MinIs
<1>5. Token(a, d).token = SubSeq(a, 1, Min(D) - 1)
  BY DEF Token
<1>6. st - 1 = Len(a)
  BY <1>1
<1>7. SubSeq(a, 1, Len(a)) = a
  BY SubSeqFull
<1> HIDE DEF D, st
<1> QED
  BY <1>4, <1>5, <1>6, <1>7

(* The first n of a sequence, and what a token leaves of a line. *)
LEMMA FrontOf ==
  ASSUME NEW S, NEW s \in Seq(S), NEW n \in 0..Len(s)
  PROVE  /\ SubSeq(s, 1, n) \in Seq(S) /\ Len(SubSeq(s, 1, n)) = n
         /\ \A i \in 1..n : SubSeq(s, 1, n)[i] = s[i]
<1>1. Len(s) \in Nat /\ 1 \in Int /\ n \in Int
  BY LenProperties
<1>2. \A i \in 1..n : s[i] \in S
  BY <1>1, ElementOfSeq
<1> DEFINE u == SubSeq(s, 1, n)
<1>3. /\ u \in Seq(S) /\ Len(u) = (IF 1 <= n THEN n - 1 + 1 ELSE 0)
      /\ \A i \in 1..(n - 1 + 1) : u[i] = s[1 + i - 1]
  BY <1>1, <1>2, SubSeqProperties
<1> HIDE DEF u
<1>4. Len(u) = n /\ \A i \in 1..n : u[i] = s[i]
  BY <1>1, <1>3
<1> QED
  BY <1>3, <1>4 DEF u

LEMMA RestType ==
  ASSUME NEW S, NEW s \in Seq(S), NEW d
  PROVE  Token(s, d).rest \in Seq(S)
<1> DEFINE D == {i \in DOMAIN s : s[i] = d} \cup {Len(s) + 1}
           m == Min(D) + 1
<1>1. Len(s) \in Nat /\ DOMAIN s = 1..Len(s)
  BY LenProperties
<1>2. D \subseteq 1..(Len(s) + 1) /\ D # {}
  BY <1>1
<1>3. Token(s, d).rest = SubSeq(s, m, Len(s))
  BY DEF Token
<1>4. Min(D) \in D
  <2> HIDE DEF D
  <2>1. D \subseteq Nat
    BY <1>1, <1>2
  <2>2. \E x \in D : \A y \in D : x <= y
    BY <1>2, <2>1, LeastNumber
  <2> QED
    BY <2>2 DEF Min
<1>5. m \in Int /\ Len(s) \in Int /\ \A i \in m..Len(s) : i \in 1..Len(s)
  <2> HIDE DEF D
  <2>1. Min(D) \in 1..(Len(s) + 1)
    BY <1>2, <1>4
  <2> QED
    BY <1>1, <2>1
<1> HIDE DEF m, D
<1>6. \A i \in m..Len(s) : s[i] \in S
  BY <1>5, ElementOfSeq
<1>7. SubSeq(s, m, Len(s)) \in Seq(S)
  BY <1>5, <1>6, SubSeqProperties
<1> QED
  BY <1>3, <1>7

(* What is left of a token after trimming is a piece of it. *)
LEMMA TrimType ==
  ASSUME NEW S, NEW s \in Seq(S)
  PROVE  TrimSpace(s) \in Seq(S)
<1> DEFINE ink == {i \in DOMAIN s : s[i] \notin {" ", "TAB"}}
<1>1. Len(s) \in Nat /\ DOMAIN s = 1..Len(s)
  BY LenProperties
<1>2. CASE ink = {}
  <2>1. TrimSpace(s) = << >>
    BY <1>2 DEF TrimSpace
  <2> QED
    BY <2>1, EmptySeq
<1>3. CASE ink # {}
  <2>1. ink \subseteq Nat /\ ink \subseteq 1..Len(s)
    <3>1. ink \subseteq DOMAIN s
      OBVIOUS
    <3> HIDE DEF ink
    <3> QED
      BY <1>1, <3>1
  <2>2. TrimSpace(s) = SubSeq(s, Min(ink), Max(ink))
    BY <1>3 DEF TrimSpace
  <2> HIDE DEF ink
  <2>3. \E m \in ink : \A y \in ink : m <= y
    BY <1>3, <2>1, LeastNumber
  <2>4. Min(ink) \in ink
    BY <2>3 DEF Min
  <2> DEFINE gaps == {i \in 0..Len(s) : Len(s) - i \in ink}
  <2>5. gaps # {} /\ gaps \subseteq Nat
    <3>1. PICK i \in ink : TRUE
      BY <1>3
    <3>2. Len(s) - i \in 0..Len(s) /\ Len(s) - (Len(s) - i) = i
      BY <1>1, <2>1
    <3> QED
      BY <3>1, <3>2
  <2>6. PICK n \in gaps : \A y \in gaps : n <= y
    <3> HIDE DEF gaps
    <3> QED
      BY <2>5, LeastNumber
  <2>7. Len(s) - n \in ink /\ n \in 0..Len(s)
    OBVIOUS
  <2>8. \A y \in ink : Len(s) - n >= y
    <3> SUFFICES ASSUME NEW y \in ink PROVE Len(s) - n >= y
      OBVIOUS
    <3>1. y \in 1..Len(s)
      BY <2>1
    <3>2. Len(s) - y \in 0..Len(s) /\ Len(s) - (Len(s) - y) = y
      BY <1>1, <3>1
    <3>3. Len(s) - y \in gaps
      BY <3>2
    <3> HIDE DEF gaps
    <3> QED
      BY <1>1, <2>6, <2>7, <3>1, <3>3
  <2>9. Max(ink) \in ink
    BY <2>7, <2>8 DEF Max
  <2> DEFINE p == Min(ink)
             q == Max(ink)
  <2>10. p \in Int /\ q \in Int /\ \A i \in p..q : i \in 1..Len(s)
    <3>1. p \in 1..Len(s) /\ q \in 1..Len(s)
      BY <2>1, <2>4, <2>9
    <3> HIDE DEF p, q
    <3> QED
      BY <1>1, <3>1
  <2>11. \A i \in p..q : s[i] \in S
    <3> HIDE DEF p, q
    <3> QED
      BY <2>10, ElementOfSeq
  <2> HIDE DEF p, q
  <2>12. SubSeq(s, p, q) \in Seq(S)
    BY <2>10, <2>11, SubSeqProperties
  <2> QED
    BY <2>2, <2>12 DEF p, q
<1> QED
  BY <1>2, <1>3

(* Digits denote a number.                                                 *)
LEMMA MagnitudeType ==
  ASSUME NEW S, NEW s \in Seq(S), \A i \in DOMAIN s : s[i] \in DOMAIN Digit
  PROVE  Magnitude(s) \in Nat
<1>1. Len(s) \in Nat /\ DOMAIN s = 1..Len(s)
  BY LenProperties
<1> DEFINE sum == CHOOSE f : f = [n \in 0..Len(s) |->
                                    IF n = 0 THEN 0 ELSE 10 * f[n - 1] + Digit[s[n]]]
           v == [n \in 1..Len(s) |-> Digit[s[n]]]
           g == [p \in (1..Len(s)) \X Nat |-> 10 * p[2] + v[p[1]]]
<1>2. \A n \in 1..Len(s) : v[n] = Digit[s[n]] /\ v[n] \in Nat
  <2>1. \A n \in 1..Len(s) : s[n] \in DOMAIN Digit
    BY <1>1
  <2>2. \A d \in DOMAIN Digit : Digit[d] \in 0..9
    BY ReadAssumption
  <2> QED
    BY <2>1, <2>2
<1> HIDE DEF v
<1>3. g \in [(1..Len(s)) \X Nat -> Nat]
  BY <1>2
<1>4. \A n \in 1..Len(s), k \in Nat : g[<<n, k>>] = 10 * k + v[n]
  OBVIOUS
<1> HIDE DEF g
<1>5. PICK h \in [0..Len(s) -> Nat] : Iterates(h, 0, g, Len(s))
  BY <1>1, <1>3, IterationExists
<1>6. ASSUME NEW n \in 0..Len(s)
      PROVE  h[n] = IF n = 0 THEN 0 ELSE 10 * h[n - 1] + Digit[s[n]]
  <2>1. n # 0 => n \in 1..Len(s) /\ n - 1 \in 0..Len(s)
    BY <1>1
  <2>2. n # 0 => h[n] = g[<<n, h[n - 1]>>] /\ h[n - 1] \in Nat
    BY <1>5, <2>1 DEF Iterates
  <2>3. n # 0 => g[<<n, h[n - 1]>>] = 10 * h[n - 1] + v[n]
    BY <1>4, <2>1, <2>2
  <2>4. n = 0 => h[n] = 0
    BY <1>5 DEF Iterates
  <2> QED
    BY <1>2, <2>1, <2>2, <2>3, <2>4
<1>7. h = [n \in 0..Len(s) |-> IF n = 0 THEN 0 ELSE 10 * h[n - 1] + Digit[s[n]]]
  BY <1>5, <1>6
<1>8. sum = [n \in 0..Len(s) |-> IF n = 0 THEN 0 ELSE 10 * sum[n - 1] + Digit[s[n]]]
  <2>1. \E f : f = [n \in 0..Len(s) |-> IF n = 0 THEN 0 ELSE 10 * f[n - 1] + Digit[s[n]]]
    BY <1>7
  <2> QED
    BY <2>1
<1>9. Magnitude(s) = sum[Len(s)]
  BY Zenon DEF Magnitude
<1> HIDE DEF sum
<1>10. \A n \in 0..Len(s) : sum[n] = IF n = 0 THEN 0 ELSE 10 * sum[n - 1] + v[n]
  <2>1. \A n \in 0..Len(s) : n # 0 => n \in 1..Len(s)
    BY <1>1
  <2> QED
    BY <1>2, <1>8, <2>1
<1> DEFINE wrong == {n \in 0..Len(s) : sum[n] \notin Nat}
<1>11. wrong = {}
  <2> SUFFICES ASSUME wrong # {} PROVE FALSE
    OBVIOUS
  <2>1. wrong \subseteq Nat
    BY <1>1
  <2>2. PICK n \in wrong : \A y \in wrong : n <= y
    <3> HIDE DEF wrong
    <3> QED
      BY <2>1, LeastNumber
  <2>3. n \in 0..Len(s) /\ sum[n] \notin Nat
    OBVIOUS
  <2>4. n # 0
    BY <1>10, <2>3
  <2>5. n - 1 \in 0..Len(s) /\ n - 1 \notin wrong /\ n \in 1..Len(s)
    BY <1>1, <2>2, <2>3, <2>4
  <2>6. sum[n - 1] \in Nat /\ v[n] \in Nat
    BY <1>2, <2>5
  <2>7. sum[n] = 10 * sum[n - 1] + v[n]
    BY <1>10, <2>3, <2>4
  <2> QED
    BY <2>3, <2>6, <2>7
<1> DEFINE x == sum[Len(s)]
<1>12. x \in Nat
  <2>1. Len(s) \in 0..Len(s)
    BY <1>1
  <2> QED
    BY <1>11, <2>1
<1> QED
  BY <1>9, <1>12

(* The length announced is a number, signed or not, cut to the buffer.     *)
LEMMA LengthType ==
  ASSUME NEW S, NEW s \in Seq(S)
  PROVE  LengthOf(s) \in 0..MAXBUFFERLEN
<1>1. MAXBUFFERLEN \in Nat /\ MaxLong \in Nat
  BY ReadAssumption
<1> DEFINE size   == Magnitude(Unsigned(s))
           value  == IF Head(s) = "-" THEN -size ELSE size
           number == IsNumber(s) /\ -(MaxLong + 1) <= value /\ value <= MaxLong
           x      == value % (2 * (MaxLong + 1))
<1>2. LengthOf(s) = IF number THEN Min({x, MAXBUFFERLEN}) ELSE 0
  BY Zenon DEF LengthOf
<1>3. ASSUME number PROVE Min({x, MAXBUFFERLEN}) \in 0..MAXBUFFERLEN
  <2>1. Unsigned(s) \in Seq(S)
    <3>1. s # << >> => Tail(s) \in Seq(S)
      BY HeadTailProperties
    <3> QED
      BY <3>1 DEF Unsigned
  <2>2. size \in Nat
    <3>1. \A i \in DOMAIN Unsigned(s) : Unsigned(s)[i] \in DOMAIN Digit
      BY <1>3 DEF IsNumber
    <3> QED
      BY <2>1, <3>1, MagnitudeType
  <2>3. value \in Int
    <3> HIDE DEF size
    <3> QED
      BY <2>2
  <2>4. x \in Nat
    <3> HIDE DEF value
    <3> DEFINE w == 2 * (MaxLong + 1)
    <3>1. w \in Nat /\ w > 0
      BY <1>1
    <3> HIDE DEF w
    <3>2. value % w \in 0..(w - 1)
      BY <2>3, <3>1
    <3>3. value % w \in Nat
      BY <3>1, <3>2
    <3> QED
      BY <3>3 DEF w
  <2> HIDE DEF x
  <2>5. Min({x, MAXBUFFERLEN}) = IF x <= MAXBUFFERLEN THEN x ELSE MAXBUFFERLEN
    BY <1>1, <2>4, MinOfPair
  <2> QED
    BY <1>1, <2>4, <2>5
<1>4. 0 \in 0..MAXBUFFERLEN
  BY <1>1
<1> HIDE DEF number, x
<1> QED
  BY <1>2, <1>3, <1>4

-----------------------------------------------------------------------------
LEMMA UpperLen ==
  ASSUME NEW S, NEW s \in Seq(S)
  PROVE  MakeUpper(s) = << >> <=> s = << >>
<1>1. Len(s) \in Nat /\ DOMAIN s = 1..Len(s)
  BY LenProperties
<1>2. DOMAIN MakeUpper(s) = DOMAIN s
  BY DEF MakeUpper
<1>3. s = << >> <=> DOMAIN s = {}
  <2>1. s # << >> => Len(s) # 0
    BY EmptySeq
  <2>2. DOMAIN << >> = {} /\ (Len(s) # 0 => 1 \in DOMAIN s)
    BY <1>1
  <2> QED
    BY <2>1, <2>2
<1>4. MakeUpper(s) = << >> <=> DOMAIN MakeUpper(s) = {}
  <2>1. DOMAIN << >> = {}
    OBVIOUS
  <2>2. DOMAIN s = {} => MakeUpper(s) = << >>
    BY DEF MakeUpper
  <2> QED
    BY <1>2, <2>1, <2>2
<1> QED
  BY <1>2, <1>3, <1>4

(* The three tokens of the request line. *)
LEMMA FirstLine ==
  ASSUME NEW r \in Requests
  PROVE  LET first  == Token(Line(r, 1), " ")
             second == Token(first.rest, " ")
             third  == Token(second.rest, " ")
         IN  /\ Line(r, 1) # << >>
             /\ first.token = r.method /\ second.token = r.uri /\ third.token = r.version
<1> DEFINE a == r.method
           b == r.uri
           c == r.version
           sp == <<" ">>
           W == Text \ {" "}
<1>1. a \in Seq(W) /\ b \in Seq(W) /\ c \in Seq(W) /\ a # << >>
  BY RequestType DEF Words
<1>2. " " \in Text
  BY RequestType DEF Text
<1>3. sp \in Seq(Text)
  BY <1>2, OneByte
<1>4. Line(r, 1) = a \o sp \o b \o sp \o c
  BY DEF Line
<1>5. W \subseteq Text
  OBVIOUS
<1> HIDE DEF a, b, c, W
<1>6. a \in Seq(Text) /\ b \in Seq(Text) /\ c \in Seq(Text)
  BY <1>1, <1>5, SeqMonotonic
<1> DEFINE tail2 == b \o (sp \o c)
<1> HIDE DEF sp
<1>7. sp \o c \in Seq(Text)
  BY <1>3, <1>6, Catenated
<1>8. tail2 \in Seq(Text)
  BY <1>6, <1>7, Catenated
<1>9. a \o sp \in Seq(Text)
  BY <1>3, <1>6, Catenated
<1>10. (a \o sp) \o b \in Seq(Text)
  BY <1>6, <1>9, Catenated
<1>11. Line(r, 1) = a \o (sp \o tail2)
  <2> DEFINE u == a \o sp
  <2>1. u \in Seq(Text)
    BY <1>9
  <2> HIDE DEF u
  <2>2. ((u \o b) \o sp) \o c = (u \o b) \o (sp \o c)
    <3> DEFINE w == u \o b
    <3>1. w \in Seq(Text)
      BY <1>6, <2>1, Catenated
    <3> HIDE DEF w
    <3>2. (w \o sp) \o c = w \o (sp \o c)
      <4>1. Regroups(w, sp, c)
        BY <1>3, <1>6, <3>1, Regrouped
      <4> QED
        BY <4>1 DEF Regroups
    <3> QED
      BY <3>2 DEF w
  <2>3. (u \o b) \o (sp \o c) = u \o tail2
    <3> DEFINE w == sp \o c
    <3>1. w \in Seq(Text)
      BY <1>7
    <3> HIDE DEF w
    <3>2. (u \o b) \o w = u \o (b \o w)
      <4>1. Regroups(u, b, w)
        BY <1>6, <2>1, <3>1, Regrouped
      <4> QED
        BY <4>1 DEF Regroups
    <3> QED
      BY <3>2 DEF w
  <2> HIDE DEF tail2
  <2>4. (a \o sp) \o tail2 = a \o (sp \o tail2)
    <3>1. Regroups(a, sp, tail2)
      BY <1>3, <1>6, <1>8, Regrouped
    <3> QED
      BY <3>1 DEF Regroups
  <2> QED
    BY <1>4, <2>2, <2>3, <2>4 DEF u
<1> HIDE DEF tail2
<1>12. Token(Line(r, 1), " ") = [token |-> a, rest |-> tail2]
  <2>1. Token(a \o (<<" ">> \o tail2), " ") = [token |-> a, rest |-> tail2]
    BY <1>1, <1>2, <1>8, TokenAt DEF W
  <2> QED
    BY <1>11, <2>1 DEF sp
<1>13. Token(tail2, " ") = [token |-> b, rest |-> c]
  <2>1. Token(b \o (<<" ">> \o c), " ") = [token |-> b, rest |-> c]
    BY <1>1, <1>2, <1>6, TokenAt DEF W
  <2> QED
    BY <2>1 DEF tail2, sp
<1>14. Token(c, " ").token = c
  BY <1>1, TokenAll DEF W
<1>15. Line(r, 1) # << >>
  <2> DEFINE u == sp \o tail2
  <2>1. u \in Seq(Text)
    BY <1>3, <1>8, Catenated
  <2> HIDE DEF u
  <2>2. a \o u # << >>
    BY <1>1, <1>6, <2>1, NotEmpty
  <2> QED
    BY <1>1, <1>11, <2>2 DEF u
<1>16. /\ Token(Line(r, 1), " ").token = a /\ Token(Line(r, 1), " ").rest = tail2
       /\ Token(tail2, " ").token = b /\ Token(tail2, " ").rest = c
  <2> DEFINE first == Token(Line(r, 1), " ")
             second == Token(tail2, " ")
  <2>1. first = [token |-> a, rest |-> tail2]
    BY <1>12
  <2>2. second = [token |-> b, rest |-> c]
    BY <1>13
  <2> HIDE DEF first, second
  <2>3. first.token = a /\ first.rest = tail2
    BY <2>1
  <2>4. second.token = b /\ second.rest = c
    BY <2>2
  <2> QED
    BY <2>3, <2>4 DEF first, second
<1> QED
  BY <1>14, <1>15, <1>16 DEF a, b, c

(* The key and the value of a field's line. *)
LEMMA FieldTokens ==
  ASSUME NEW r \in Requests, NEW i \in 1..Len(r.fields)
  PROVE  /\ Line(r, i + 1) # << >>
         /\ Token(Line(r, i + 1), ":").token = r.fields[i].key
         /\ Token(Line(r, i + 1), ":").rest = r.fields[i].value
<1> DEFINE a == r.fields[i].key
           b == r.fields[i].value
           colon == <<":">>
           W == Text \ {":"}
<1>1. a \in Seq(W) /\ b \in Seq(Text) /\ Line(r, i + 1) = a \o colon \o b
  BY SomeLine
<1>2. ":" \in Text
  BY RequestType DEF Text
<1>3. colon \in Seq(Text) /\ Len(colon) = 1
  BY <1>2, OneByte
<1>4. W \subseteq Text
  OBVIOUS
<1> HIDE DEF a, b, W
<1>5. a \in Seq(Text)
  BY <1>1, <1>4, SeqMonotonic
<1> HIDE DEF colon
<1>6. Line(r, i + 1) = a \o (colon \o b)
  <2>1. Regroups(a, colon, b)
    BY <1>1, <1>3, <1>5, Regrouped
  <2> QED
    BY <1>1, <2>1 DEF Regroups
<1>7. Token(a \o (<<":">> \o b), ":") = [token |-> a, rest |-> b]
  BY <1>1, <1>2, TokenAt DEF W
<1>8. Line(r, i + 1) # << >>
  <2> DEFINE u == colon \o b
  <2>1. colon # << >>
    BY DEF colon
  <2>2. u \in Seq(Text)
    BY <1>1, <1>3, Catenated
  <2>3. u # << >>
    BY <1>1, <1>3, <2>1, NotEmpty
  <2> HIDE DEF u
  <2>4. a \o u # << >>
    BY <1>5, <2>2, <2>3, NotEmpty
  <2> QED
    BY <1>6, <2>4 DEF u
<1>9. Token(Line(r, i + 1), ":") = [token |-> a, rest |-> b]
  BY <1>6, <1>7 DEF colon
<1>10. Token(Line(r, i + 1), ":").token = a /\ Token(Line(r, i + 1), ":").rest = b
  BY <1>9
<1> QED
  BY <1>8, <1>10 DEF a, b

(* Only the last line is empty. *)
LEMMA LastLine ==
  ASSUME NEW r \in Requests, NEW k \in 1..(Len(r.fields) + 2)
  PROVE  Line(r, k) = << >> <=> k = Len(r.fields) + 2
<1>1. Len(r.fields) \in Nat
  BY RequestType, LenProperties
<1>2. k = Len(r.fields) + 2 => Line(r, k) = << >>
  BY <1>1 DEF Line
<1>3. k = 1 => Line(r, k) # << >>
  BY FirstLine
<1>4. ASSUME k # 1, k # Len(r.fields) + 2
      PROVE  Line(r, k) # << >>
  <2> DEFINE i == k - 1
  <2>1. i \in 1..Len(r.fields) /\ i + 1 = k
    BY <1>1, <1>4
  <2> HIDE DEF i
  <2>2. Line(r, i + 1) # << >>
    BY <2>1, FieldTokens
  <2> QED
    BY <2>1, <2>2
<1> QED
  BY <1>1, <1>2, <1>3, <1>4
-----------------------------------------------------------------------------
Starts(r) == CHOOSE st : Laid(r, Wire(r), st)

(* The number of the line that is being read. *)
Current == IF method = << >> THEN 1 ELSE Len(meta) + 2

(* s is the beginning of t. *)
Begins(s, t) == Len(s) <= Len(t) /\ Lies(s, t, 0)

Listed == \E S : meta \in Seq(S)

(* What holds of every Read, whatever was torn. *)
Typed ==
  /\ ReadTypeOK
  /\ stream = Wire(request)
  /\ recvb \in Seq(Bytes) /\ body \in Seq(Bytes) /\ Listed
  /\ pc # "done" => timeout > 0
  /\ pc \notin {"body", "done"} => body = << >>

(* While no line was torn, what was stored is what was sent; a length is   *)
(* one that a field announced.                                             *)
Stored ==
  /\ method = << >> => << >> = uri /\ << >> = version /\ << >> = meta
  /\ method # << >> => /\ method = MakeUpper(request.method)
                       /\ uri = request.uri
                       /\ version = MakeUpper(request.version)
  /\ Len(meta) <= Len(request.fields)
  /\ \A i \in 1..Len(meta) : meta[i] = Sent(request.fields[i])
  /\ length # 0 => \E i \in 1..Len(meta) : /\ meta[i].key = ContentLength
                                           /\ length = LengthOf(meta[i].value)
  /\ Begins(body, request.body)

(* The reader is where in the request it seems to be. *)
Placed ==
  LET k  == Current
      st == Starts(request)
  IN  /\ pc # "done" => valid /\ count = Len(meta)
      /\ pc = "line" => Begins(recvb, Line(request, k)) /\ taken = st[k] + Len(recvb)
      /\ pc = "strip" => recvb = Line(request, k) /\ taken = st[k] + Len(recvb) + 1
      /\ pc = "parse" => recvb = Line(request, k) /\ taken = st[k + 1]
      /\ pc = "body" => /\ k = Len(request.fields) + 2
                        /\ taken = st[k + 1] + Len(body) /\ Len(body) < length

(* Why it returned. *)
Ended ==
  pc = "done" => \/ TimedOut \/ ~Clean(request)
                 \/ closed /\ arrived < Len(stream)
                 \/ /\ method # << >> /\ Len(meta) = Len(request.fields)
                    /\ Len(body) = length

(* What holds while no line was torn. *)
Whole == Stored /\ Placed /\ Ended

ReadIInv == Typed /\ (~torn => Whole)

-----------------------------------------------------------------------------
(* Where the k-th line lies on the wire. *)
LEMMA LineLies ==
  ASSUME NEW r \in Requests, NEW k \in 1..(Len(r.fields) + 2)
  PROVE  LET st   == Starts(r)
             line == Line(r, k)
             s    == Wire(r)
         IN  /\ s \in Seq(Bytes) /\ Len(s) \in Nat /\ Len(line) \in Nat /\ line \in Seq(Text)
             /\ st[k] \in Nat /\ st[k + 1] \in Nat
             /\ st[k + 1] = st[k] + Len(line) + 2 /\ st[k + 1] <= Len(s)
             /\ \A i \in 1..Len(line) : s[st[k] + i] = line[i] /\ line[i] \in Text
             /\ s[st[k] + (Len(line) + 1)] = "CR" /\ s[st[k] + (Len(line) + 2)] = "LF"
<1> DEFINE st   == Starts(r)
           line == Line(r, k)
           s    == Wire(r)
           n    == Len(r.fields)
           eol  == <<"CR", "LF">>
           b    == line \o eol
<1>1. Laid(r, s, st)
  BY LaidOut DEF Starts
<1>2. line \in Seq(Text) /\ Len(line) \in Nat /\ n \in Nat
  BY LineType, RequestType, LenProperties
<1>3. eol \in Seq(Bytes) /\ Len(eol) = 2 /\ eol[1] = "CR" /\ eol[2] = "LF"
  BY RequestType, TwoBytes
<1> HIDE DEF st, line, s, eol
<1>4. line \in Seq(Bytes)
  <2>1. Text \subseteq Bytes
    BY DEF Text
  <2> QED
    BY <1>2, <2>1, SeqMonotonic
<1>5. Len(b) = Len(line) + Len(eol)
  BY <1>3, <1>4, Catenated
<1>6. \A i \in 1..Len(line) : b[i] = line[i]
  BY <1>3, <1>4, Catenated
<1>7. \A i \in 1..Len(eol) : b[Len(line) + i] = eol[i]
  <2>1. eol \in Seq(Bytes)
    BY <1>3
  <2> QED
    BY <1>4, <2>1, Catenated
<1> HIDE DEF b
<1>8. /\ s \in Seq(Bytes) /\ st \in [1..(n + 3) -> Nat]
      /\ Lies(b, s, st[k])
      /\ st[k + 1] = st[k] + Len(line) + 2 /\ st[k + 1] <= Len(s)
  BY <1>1 DEF Laid, b, line, eol
<1>9. st[k] \in Nat /\ st[k + 1] \in Nat
  <2>1. k \in 1..(n + 3) /\ k + 1 \in 1..(n + 3)
    BY <1>2
  <2> HIDE DEF n
  <2> QED
    BY <1>8, <2>1
<1>10. \A i \in 1..Len(b) : s[st[k] + i] = b[i]
  BY <1>8 DEF Lies
<1>11. ASSUME NEW i \in 1..Len(line) PROVE s[st[k] + i] = line[i] /\ line[i] \in Text
  <2>1. i \in 1..Len(b)
    BY <1>2, <1>3, <1>5
  <2> QED
    BY <1>2, <1>6, <1>10, <2>1, ElementOfSeq
<1>12. s[st[k] + (Len(line) + 1)] = "CR" /\ s[st[k] + (Len(line) + 2)] = "LF"
  <2>1. Len(line) + 1 \in 1..Len(b) /\ Len(line) + 2 \in 1..Len(b)
    BY <1>2, <1>3, <1>5
  <2>2. b[Len(line) + 1] = "CR" /\ b[Len(line) + 2] = "LF"
    BY <1>3, <1>7
  <2> QED
    BY <1>10, <2>1, <2>2
<1>13. Len(s) \in Nat
  BY <1>8, LenProperties
<1> QED
  BY <1>2, <1>8, <1>9, <1>11, <1>12, <1>13 DEF st, line, s

(* And the body. *)
LEMMA BodyLies ==
  ASSUME NEW r \in Requests
  PROVE  LET from == Starts(r)[Len(r.fields) + 3]
             s    == Wire(r)
         IN  /\ from \in Nat /\ Len(r.body) \in Nat /\ Len(s) = from + Len(r.body)
             /\ Lies(r.body, s, from)
<1> DEFINE n == Len(r.fields)
<1>1. Laid(r, Wire(r), Starts(r))
  BY LaidOut DEF Starts
<1>2. n \in Nat /\ Len(r.body) \in Nat
  BY RequestType, LenProperties
<1>3. n + 3 \in 1..(n + 3)
  BY <1>2
<1>4. Starts(r)[n + 3] \in Nat
  BY <1>1, <1>3 DEF Laid
<1> QED
  BY <1>1, <1>2, <1>4 DEF Laid

-----------------------------------------------------------------------------
LEMMA Bounds ==
  /\ MAXBUFFERLEN \in Nat /\ MaxFields \in Nat
  /\ Patience \in Nat /\ Patience > 0
<1>1. MAXBUFFERLEN \in Nat \ {0} /\ MaxFields \in Nat /\ Patience \in Nat \ {0}
  BY ReadAssumption, Zenon
<1> QED
  BY <1>1

LEMMA WireType == Typed => stream \in Seq(Bytes) /\ Len(stream) \in Nat /\ request \in Requests
<1> SUFFICES ASSUME Typed PROVE stream \in Seq(Bytes) /\ Len(stream) \in Nat /\ request \in Requests
  OBVIOUS
<1>1. request \in Requests /\ stream = Wire(request)
  BY DEF Typed, ReadTypeOK
<1>2. \E st : Laid(request, Wire(request), st)
  BY <1>1, LaidOut
<1>3. stream \in Seq(Bytes)
  BY <1>1, <1>2 DEF Laid
<1> QED
  BY <1>1, <1>3, LenProperties

LEMMA InitTyped == ReadInit => Typed
<1> SUFFICES ASSUME ReadInit PROVE Typed
  OBVIOUS
<1>1. request \in Requests /\ stream = Wire(request)
  BY DEF ReadInit
<1>2. \E st : Laid(request, Wire(request), st)
  BY <1>1, LaidOut
<1>3. stream \in Seq(Bytes)
  BY <1>1, <1>2 DEF Laid
<1>4. Len(stream) \in Nat
  BY <1>3, LenProperties
<1>5. << >> \in Seq(Bytes) /\ Len(<< >>) = 0
  BY EmptySeq
<1>6. Listed
  BY <1>5 DEF Listed, ReadInit
<1>7. MAXBUFFERLEN \in Nat /\ MaxFields \in Nat /\ Patience \in Nat /\ Patience > 0
  BY Bounds
<1>8. recvb = << >> /\ body = << >> /\ meta = << >> /\ pc = "line" /\ length = 0
  BY DEF ReadInit
<1>9. ReadTypeOK
  <2>1. {closed, valid, again, torn} \subseteq BOOLEAN
    BY DEF ReadInit
  <2>2. taken \in 0..arrived /\ arrived \in 0..Len(stream)
    BY <1>4 DEF ReadInit
  <2>3. timeout \in 0..Patience /\ count \in 0..MaxFields
    BY <1>7 DEF ReadInit
  <2>4. /\ Len(recvb) <= MAXBUFFERLEN /\ Len(meta) <= count
        /\ length \in 0..MAXBUFFERLEN /\ Len(body) <= length
    <3>1. Len(recvb) = 0 /\ Len(meta) = 0 /\ Len(body) = 0
      BY <1>5, <1>8
    <3>2. count = 0
      BY DEF ReadInit
    <3> QED
      BY <1>7, <1>8, <3>1, <3>2
  <2> QED
    BY <1>1, <1>8, <2>1, <2>2, <2>3, <2>4 DEF ReadTypeOK, Labels
<1>10. timeout > 0 /\ recvb \in Seq(Bytes) /\ body \in Seq(Bytes)
  BY <1>5, <1>7, <1>8 DEF ReadInit
<1> QED
  BY <1>1, <1>6, <1>8, <1>9, <1>10 DEF Typed

-----------------------------------------------------------------------------
(* The steps one by one. *)
LEMMA Steps ==
  ASSUME [ReadNext]_readVars
  PROVE  \/ Arrive \/ PeerCloses
         \/ GetByte \/ GetEnd \/ StripNewLine \/ LineRunsDry \/ NoLine
         \/ BlankLine \/ RequestLine \/ Field
         \/ BodyRead \/ BodyRunsDry
         \/ UNCHANGED readVars
BY Zenon DEF ReadNext, Reader

(* The network: nothing is read that has not arrived. *)
Fetched ==
  /\ request \in Requests /\ stream = Wire(request)
  /\ taken \in 0..arrived /\ arrived \in 0..Len(stream)
  /\ {closed, valid, again, torn} \subseteq BOOLEAN

LEMMA FetchedStep ==
  ASSUME Typed, [ReadNext]_readVars
  PROVE  Fetched'
<1>1. /\ request \in Requests /\ stream = Wire(request)
      /\ taken \in Nat /\ arrived \in Nat /\ taken <= arrived /\ arrived <= Len(stream)
      /\ Len(stream) \in Nat
  BY WireType DEF Typed, ReadTypeOK
<1>2. closed \in BOOLEAN /\ valid \in BOOLEAN /\ again \in BOOLEAN /\ torn \in BOOLEAN
  BY DEF Typed, ReadTypeOK
<1> USE DEF Fetched
<1>3. CASE Arrive
  BY <1>1, <1>2, <1>3 DEF Arrive, parsedVars
<1>4. CASE PeerCloses
  BY <1>1, <1>2, <1>4 DEF PeerCloses, parsedVars
<1>5. CASE GetByte
  <2>1. taken' = taken + 1 /\ Avail /\ UNCHANGED <<netVars, valid, again>>
    BY <1>5 DEF GetByte, Take
  <2>2. torn' = torn \/ torn' = TRUE
    BY <1>5 DEF GetByte
  <2>3. torn' \in BOOLEAN /\ UNCHANGED <<request, stream, arrived, closed, valid, again>>
    BY <1>2, <2>1, <2>2 DEF netVars
  <2>4. taken' \in 0..arrived' /\ arrived' \in 0..Len(stream')
    BY <1>1, <2>1, <2>3 DEF Avail
  <2> QED
    BY <1>1, <1>2, <2>3, <2>4
<1>6. CASE GetEnd
  BY <1>1, <1>2, <1>6 DEF GetEnd, Take, Avail, netVars, parsedVars
<1>7. CASE StripNewLine
  <2>1. CASE RecvNothing /\ torn' = TRUE
    BY <1>1, <1>2, <2>1 DEF RecvNothing, netVars
  <2>2. CASE Avail /\ Take(IF Byte = "LF" THEN 1 ELSE 0) /\ UNCHANGED torn
    <3>1. taken' = taken + 1 \/ taken' = taken + 0
      BY <2>2 DEF Take
    <3>2. Avail /\ UNCHANGED <<netVars, valid, again, torn>>
      BY <2>2 DEF Take
    <3> QED
      BY <1>1, <1>2, <3>1, <3>2 DEF Avail, netVars
  <2> QED
    BY <1>7, <2>1, <2>2 DEF StripNewLine
<1>8. CASE LineRunsDry
  BY <1>1, <1>2, <1>8 DEF LineRunsDry, RecvNothing, netVars, parsedVars
<1>9. CASE NoLine
  BY <1>1, <1>2, <1>9 DEF NoLine, RecvNothing, Continue, netVars, parsedVars
<1>10. CASE BlankLine
  BY <1>1, <1>2, <1>10 DEF BlankLine, netVars, parsedVars
<1>11. CASE RequestLine
  <2>1. UNCHANGED <<netVars, taken, valid, again, torn>>
    BY <1>11 DEF RequestLine
  <2> QED
    BY <1>1, <1>2, <2>1 DEF netVars
<1>12. CASE Field
  BY <1>1, <1>2, <1>12 DEF Field, Continue, netVars
<1>13. CASE BodyRead
  <2> DEFINE k == Min({arrived - taken, MAXBUFFERLEN})
  <2>1. k \in Nat /\ k <= arrived - taken
    BY <1>1, <1>13, Bounds, MinOfPair DEF BodyRead, Avail
  <2>2. taken' = taken + k /\ UNCHANGED <<netVars, valid, again, torn>>
    BY <1>13 DEF BodyRead, Take
  <2> HIDE DEF k
  <2>3. taken' \in 0..arrived' /\ arrived' \in 0..Len(stream')
    BY <1>1, <2>1, <2>2 DEF netVars
  <2> QED
    BY <1>1, <1>2, <2>2, <2>3 DEF netVars
<1>14. CASE BodyRunsDry
  BY <1>1, <1>2, <1>14 DEF BodyRunsDry, RecvNothing, netVars, parsedVars
<1>15. CASE UNCHANGED readVars
  BY <1>1, <1>2, <1>15 DEF readVars, netVars, parsedVars
<1> QED
  BY <1>3, <1>4, <1>5, <1>6, <1>7, <1>8, <1>9, <1>10, <1>11, <1>12, <1>13, <1>14, <1>15, Steps

(* The patience is never overdrawn, and it is over when it is used up. *)
Patient ==
  /\ pc \in Labels
  /\ timeout \in 0..Patience /\ count \in 0..MaxFields
  /\ pc # "done" => timeout > 0

LEMMA PatientStep ==
  ASSUME Typed, [ReadNext]_readVars
  PROVE  Patient'
<1>1. /\ pc \in Labels /\ timeout \in Nat /\ timeout <= Patience
      /\ count \in Nat /\ count <= MaxFields
      /\ pc # "done" => timeout > 0
  BY Bounds DEF Typed, ReadTypeOK
<1>2. /\ MAXBUFFERLEN \in Nat /\ MaxFields \in Nat
      /\ Patience \in Nat /\ Patience > 0
  BY Bounds
<1>3. /\ "line" \in Labels /\ "strip" \in Labels /\ "parse" \in Labels
      /\ "body" \in Labels /\ "done" \in Labels
  BY DEF Labels
<1>4. ASSUME pc' \in Labels, timeout' = timeout, count' = count, pc # "done"
      PROVE  Patient'
  BY <1>1, <1>2, <1>4 DEF Patient
<1>5. ASSUME NEW p \in Nat, p <= Patience, Continue(p), count' \in 0..MaxFields
      PROVE  Patient'
  <2>1. timeout' = p /\ pc' \in {"line", "done"} /\ (pc' # "done" => p > 0)
    BY <1>5 DEF Continue
  <2> QED
    BY <1>2, <1>3, <1>5, <2>1 DEF Patient
<1>6. ASSUME UNCHANGED <<pc, timeout, count>>
      PROVE  Patient'
  BY <1>1, <1>2, <1>6 DEF Patient
<1>7. CASE Arrive
  BY <1>6, <1>7 DEF Arrive, parsedVars
<1>8. CASE PeerCloses
  BY <1>6, <1>8 DEF PeerCloses, parsedVars
<1>9. CASE GetByte
  <2>1. pc # "done" /\ pc' \in Labels /\ timeout' = timeout /\ count' = count
    BY <1>1, <1>3, <1>9 DEF GetByte, parsedVars
  <2> QED
    BY <1>4, <2>1
<1>10. CASE GetEnd
  <2>1. pc # "done" /\ pc' \in Labels /\ timeout' = timeout /\ count' = count
    BY <1>1, <1>3, <1>10 DEF GetEnd, parsedVars
  <2> QED
    BY <1>4, <2>1
<1>11. CASE StripNewLine
  <2>1. pc # "done" /\ pc' \in Labels /\ timeout' = timeout /\ count' = count
    BY <1>1, <1>3, <1>11 DEF StripNewLine, parsedVars
  <2> QED
    BY <1>4, <2>1
<1>12. CASE LineRunsDry
  <2>1. pc # "done" /\ pc' \in Labels /\ timeout' = timeout /\ count' = count
    BY <1>1, <1>3, <1>12 DEF LineRunsDry, parsedVars
  <2> QED
    BY <1>4, <2>1
<1>13. CASE NoLine
  <2>1. timeout > 0 /\ Continue(timeout - 1) /\ count' = count
    BY <1>1, <1>13 DEF NoLine, parsedVars
  <2>2. timeout - 1 \in Nat /\ timeout - 1 <= Patience /\ count' \in 0..MaxFields
    BY <1>1, <1>2, <2>1
  <2> QED
    BY <1>5, <2>1, <2>2
<1>14. CASE BlankLine
  <2>1. count' = count
    BY <1>14 DEF BlankLine, parsedVars
  <2>2. \/ pc' = "body" /\ timeout' = Patience
        \/ pc' = "done" /\ timeout' = timeout
    BY <1>14 DEF BlankLine
  <2> QED
    BY <1>1, <1>2, <1>3, <2>1, <2>2 DEF Patient
<1>15. CASE RequestLine
  <2>1. Continue(timeout) /\ count' = count
    BY <1>15 DEF RequestLine
  <2>2. count' \in 0..MaxFields
    BY <1>1, <1>2, <2>1
  <2> QED
    BY <1>1, <1>5, <2>1, <2>2
<1>16. CASE Field
  <2>1. count' = Min({count + 1, MaxFields})
    BY <1>16 DEF Field
  <2>2. count' \in 0..MaxFields
    BY <1>1, <1>2, <2>1, MinOfPair
  <2>3. Continue(timeout) \/ (pc' = "done" /\ timeout' = timeout)
    BY <1>16 DEF Field
  <2>4. CASE Continue(timeout)
    BY <1>1, <1>5, <2>2, <2>4
  <2>5. CASE pc' = "done" /\ timeout' = timeout
    BY <1>1, <1>2, <1>3, <2>2, <2>5 DEF Patient
  <2> QED
    BY <2>3, <2>4, <2>5
<1>17. CASE BodyRead
  <2>1. pc # "done" /\ pc' \in Labels /\ timeout' = timeout /\ count' = count
    <3>1. pc = "body" /\ timeout' = timeout /\ count' = count
      BY <1>17 DEF BodyRead
    <3>2. pc' = "done" \/ pc' = "body"
      BY <1>17 DEF BodyRead
    <3> QED
      BY <1>3, <3>1, <3>2
  <2> QED
    BY <1>4, <2>1
<1>18. CASE BodyRunsDry
  <2>1. /\ pc = "body" /\ count' = count
        /\ \/ pc' = pc /\ timeout' = timeout
           \/ pc' = "done" /\ timeout' = timeout - 1
    BY <1>18 DEF BodyRunsDry, parsedVars
  <2> QED
    BY <1>1, <1>2, <1>3, <2>1 DEF Patient
<1>19. CASE UNCHANGED readVars
  BY <1>6, <1>19 DEF readVars, parsedVars
<1> QED
  BY <1>7, <1>8, <1>9, <1>10, <1>11, <1>12, <1>13, <1>14, <1>15, <1>16, <1>17, <1>18, <1>19, Steps

(* The buffers hold no more than they have room for. *)
Kept ==
  /\ Len(recvb) <= MAXBUFFERLEN /\ recvb \in Seq(Bytes)
  /\ Len(meta) <= count /\ Listed
  /\ length \in 0..MAXBUFFERLEN /\ Len(body) <= length /\ body \in Seq(Bytes)
  /\ pc \notin {"body", "done"} => body = << >>

LEMMA KeptStep ==
  ASSUME Typed, [ReadNext]_readVars
  PROVE  Kept'
<1>1. Kept
  BY DEF Kept, Typed, ReadTypeOK
<1>2. /\ MAXBUFFERLEN \in Nat /\ MaxFields \in Nat
      /\ Len(recvb) \in Nat /\ Len(body) \in Nat /\ count \in Nat /\ count <= MaxFields
      /\ length \in Nat /\ << >> \in Seq(Bytes) /\ Len(<< >>) = 0
  <2>1. recvb \in Seq(Bytes) /\ body \in Seq(Bytes) /\ count \in 0..MaxFields
    BY DEF Typed, ReadTypeOK
  <2>2. length \in 0..MAXBUFFERLEN
    BY DEF Typed, ReadTypeOK
  <2> QED
    BY <2>1, <2>2, Bounds, LenProperties, EmptySeq
<1>3. Len(meta) \in Nat
  BY <1>1, LenProperties DEF Kept, Listed
<1>4. ASSUME recvb' = recvb \/ recvb' = << >>, UNCHANGED <<meta, count, length, body>>,
             pc' \notin {"body", "done"} => body = << >>
      PROVE  Kept'
  <2>1. Len(recvb') <= MAXBUFFERLEN /\ recvb' \in Seq(Bytes)
    <3>1. Len(recvb) <= MAXBUFFERLEN /\ recvb \in Seq(Bytes)
      BY <1>1 DEF Kept
    <3>2. CASE recvb' = recvb
      BY <3>1, <3>2
    <3>3. CASE recvb' = << >>
      BY <1>2, <3>3
    <3> QED
      BY <1>4, <3>2, <3>3
  <2>2. Listed'
    BY <1>1, <1>4 DEF Kept, Listed
  <2> QED
    BY <1>1, <1>4, <2>1, <2>2 DEF Kept
<1>5. pc \notin {"body", "done"} => body = << >>
  BY <1>1 DEF Kept
<1>6. CASE Arrive
  BY <1>4, <1>5, <1>6 DEF Arrive, parsedVars
<1>7. CASE PeerCloses
  BY <1>4, <1>5, <1>7 DEF PeerCloses, parsedVars
<1>8. CASE GetByte
  <2>1. UNCHANGED <<meta, count, length, body>> /\ body = << >>
    BY <1>5, <1>8 DEF GetByte, parsedVars
  <2>2. CASE Len(recvb) < MAXBUFFERLEN
    <3>1. recvb' = Append(recvb, Byte)
      BY <1>8, <2>2 DEF GetByte
    <3>2. Byte \in Bytes
      <4>1. stream \in Seq(Bytes) /\ taken + 1 \in 1..Len(stream)
        BY <1>8, WireType DEF GetByte, Avail, Typed, ReadTypeOK
      <4> QED
        BY <4>1, ElementOfSeq DEF Byte
    <3> DEFINE b == Byte
    <3> HIDE DEF b
    <3>3. Append(recvb, b) \in Seq(Bytes) /\ Len(Append(recvb, b)) = Len(recvb) + 1
      BY <1>1, <3>2, AppendProperties DEF Kept, b
    <3>4. recvb' \in Seq(Bytes) /\ Len(recvb') = Len(recvb) + 1
      BY <3>1, <3>3 DEF b
    <3>5. Len(recvb') <= MAXBUFFERLEN
      BY <1>2, <2>2, <3>4
    <3>6. Listed'
      BY <1>1, <2>1 DEF Kept, Listed
    <3> QED
      BY <1>1, <2>1, <3>4, <3>5, <3>6 DEF Kept
  <2>3. CASE ~(Len(recvb) < MAXBUFFERLEN)
    <3>1. recvb' = recvb
      BY <1>8, <2>3 DEF GetByte
    <3> QED
      BY <1>4, <2>1, <3>1
  <2> QED
    BY <2>2, <2>3
<1>9. CASE GetEnd
  BY <1>4, <1>5, <1>9 DEF GetEnd, parsedVars
<1>10. CASE StripNewLine
  <2>1. UNCHANGED recvb /\ UNCHANGED parsedVars /\ pc = "strip"
    BY <1>10 DEF StripNewLine
  <2> QED
    BY <1>4, <1>5, <2>1 DEF parsedVars
<1>11. CASE LineRunsDry
  BY <1>4, <1>5, <1>11 DEF LineRunsDry, parsedVars
<1>12. CASE NoLine
  <2>1. recvb' = << >> /\ UNCHANGED parsedVars /\ pc = "line"
    BY <1>12 DEF NoLine, Continue
  <2> QED
    BY <1>4, <1>5, <2>1 DEF parsedVars
<1>13. CASE BlankLine
  <2>1. UNCHANGED recvb /\ UNCHANGED parsedVars /\ pc = "parse"
    BY <1>13 DEF BlankLine
  <2> QED
    BY <1>4, <1>5, <2>1 DEF parsedVars
<1>14. CASE RequestLine
  <2>1. recvb' = << >> /\ UNCHANGED <<meta, count, length, body>> /\ pc = "parse"
    BY <1>14 DEF RequestLine, Continue
  <2> QED
    BY <1>4, <1>5, <2>1
<1>15. CASE Field
  <2>1. body' = body /\ body = << >> /\ count' = Min({count + 1, MaxFields})
    BY <1>5, <1>15 DEF Field
  <2>2. count' = IF count + 1 <= MaxFields THEN count + 1 ELSE MaxFields
    BY <1>2, <2>1, MinOfPair
  <2> DEFINE key   == MakeUpper(TrimSpace(Token(recvb, ":").token))
             value == Token(recvb, ":").rest
             kept  == count < MaxFields /\ value # << >>
             data  == TrimSpace(value)
  <2>3. CASE kept
    <3> DEFINE entry == [key |-> key, value |-> data]
    <3>1. /\ meta' = Append(meta, entry) /\ recvb' = << >>
          /\ length' = IF key = ContentLength THEN LengthOf(data) ELSE length
      BY <1>15, <2>3 DEF Field, Continue
    <3>2. value \in Seq(Bytes)
      BY <1>1, RestType DEF Kept
    <3> HIDE DEF key, value, kept
    <3>3. data \in Seq(Bytes)
      BY <3>2, TrimType
    <3> HIDE DEF data
    <3>4. LengthOf(data) \in 0..MAXBUFFERLEN
      BY <3>3, LengthType
    <3>5. length' \in 0..MAXBUFFERLEN
      BY <1>1, <3>1, <3>4 DEF Kept
    <3>6. Listed' /\ Len(meta') = Len(meta) + 1
      <4> HIDE DEF entry
      <4>1. PICK S : meta \in Seq(S)
        BY <1>1 DEF Kept, Listed
      <4> DEFINE T == S \cup {entry}
      <4>2. meta \in Seq(T) /\ entry \in T
        <5>1. S \subseteq T
          OBVIOUS
        <5> QED
          BY <4>1, <5>1, SeqMonotonic
      <4> HIDE DEF T
      <4>3. Append(meta, entry) \in Seq(T) /\ Len(Append(meta, entry)) = Len(meta) + 1
        BY <4>2, AppendProperties
      <4> QED
        BY <3>1, <4>3 DEF Listed
    <3>7. Len(meta') <= count'
      BY <1>1, <1>2, <1>3, <2>2, <2>3, <3>6 DEF Kept, kept
    <3>8. Len(body') <= length' /\ Len(recvb') <= MAXBUFFERLEN
      BY <1>2, <2>1, <3>1, <3>5
    <3> QED
      BY <1>2, <2>1, <3>1, <3>5, <3>6, <3>7, <3>8 DEF Kept
  <2>4. CASE ~kept
    <3>1. UNCHANGED <<recvb, meta, length>> /\ pc' = "done"
      BY <1>15, <2>4 DEF Field
    <3>2. Listed' /\ Len(meta') <= count'
      <4>1. Listed'
        BY <1>1, <3>1 DEF Kept, Listed
      <4>2. Len(meta) <= count
        BY <1>1 DEF Kept
      <4> QED
        BY <1>2, <1>3, <2>2, <3>1, <4>1, <4>2
    <3> QED
      BY <1>1, <2>1, <3>1, <3>2 DEF Kept
  <2> QED
    BY <2>3, <2>4
<1>16. CASE BodyRead
  <2> DEFINE n   == Min({arrived - taken, MAXBUFFERLEN})
             got == SubSeq(stream, taken + 1, taken + n)
             all == body \o got
             cut == Min({Len(all), length})
  <2>1. /\ body' = SubSeq(all, 1, cut) /\ UNCHANGED <<recvb, meta, length, count>>
        /\ pc = "body" /\ (pc' = "done" \/ pc' = "body")
    BY <1>16 DEF BodyRead
  <2>2. n \in Nat /\ n <= arrived - taken /\ taken \in Nat /\ arrived \in Nat
    BY <1>2, MinOfPair, WireType DEF Typed, ReadTypeOK
  <2>3. stream \in Seq(Bytes) /\ arrived <= Len(stream) /\ Len(stream) \in Nat
    BY WireType DEF Typed, ReadTypeOK
  <2> HIDE DEF n
  <2>4. got \in Seq(Bytes)
    <3>1. \A i \in (taken + 1)..(taken + n) : stream[i] \in Bytes
      <4>1. \A i \in (taken + 1)..(taken + n) : i \in 1..Len(stream)
        BY <2>2, <2>3
      <4> QED
        BY <2>3, <4>1, ElementOfSeq
    <3> DEFINE p == taken + 1
               q == taken + n
    <3>2. p \in Int /\ q \in Int /\ \A i \in p..q : stream[i] \in Bytes
      BY <2>2, <3>1
    <3> HIDE DEF p, q
    <3>3. SubSeq(stream, p, q) \in Seq(Bytes)
      BY <3>2, SubSeqProperties
    <3> QED
      BY <3>3 DEF p, q
  <2> HIDE DEF got
  <2>5. all \in Seq(Bytes)
    BY <1>1, <2>4, Catenated DEF Kept
  <2> HIDE DEF all
  <2>6. cut \in 0..Len(all) /\ cut <= length /\ Len(all) \in Nat
    BY <1>2, <2>5, LenProperties, MinOfPair
  <2> HIDE DEF cut
  <2>7. SubSeq(all, 1, cut) \in Seq(Bytes) /\ Len(SubSeq(all, 1, cut)) = cut
    BY <2>5, <2>6, FrontOf
  <2>8. Listed'
    BY <1>1, <2>1 DEF Kept, Listed
  <2> QED
    BY <1>1, <2>1, <2>6, <2>7, <2>8 DEF Kept
<1>17. CASE BodyRunsDry
  <2>1. UNCHANGED recvb /\ UNCHANGED parsedVars /\ pc = "body" /\ (pc' = "body" \/ pc' = "done")
    BY <1>17 DEF BodyRunsDry
  <2> QED
    BY <1>4, <2>1 DEF parsedVars
<1>18. CASE UNCHANGED readVars
  BY <1>4, <1>5, <1>18 DEF readVars, parsedVars
<1> QED
  BY <1>6, <1>7, <1>8, <1>9, <1>10, <1>11, <1>12, <1>13, <1>14, <1>15, <1>16, <1>17,
     <1>18, Steps

LEMMA TypedStep == Typed /\ [ReadNext]_readVars => Typed'
<1> SUFFICES ASSUME Typed, [ReadNext]_readVars PROVE Typed'
  OBVIOUS
<1>1. Fetched' /\ Patient' /\ Kept'
  BY FetchedStep, PatientStep, KeptStep
<1> QED
  BY <1>1 DEF Fetched, Patient, Kept, Typed, ReadTypeOK

-----------------------------------------------------------------------------
(* Which line is being read, and where it lies. *)
LEMMA Here ==
  ASSUME Typed, Stored
  PROVE  LET k    == Current
             st   == Starts(request)
             line == Line(request, k)
             n    == Len(request.fields)
         IN  /\ request \in Requests /\ n \in Nat /\ k \in 1..(n + 2)
             /\ Len(meta) \in Nat /\ Len(meta) <= n
             /\ method = << >> => k = 1 /\ Len(meta) = 0
             /\ method # << >> => k = Len(meta) + 2
             /\ taken \in Nat /\ arrived \in Nat /\ taken <= arrived /\ arrived <= Len(stream)
             /\ Len(stream) \in Nat /\ recvb \in Seq(Bytes) /\ Len(recvb) \in Nat
             /\ line \in Seq(Bytes) /\ Len(line) \in Nat
             /\ st[k] \in Nat /\ st[k + 1] = st[k] + Len(line) + 2 /\ st[k + 1] <= Len(stream)
             /\ \A i \in 1..Len(line) :
                  stream[st[k] + i] = line[i] /\ line[i] \notin {"CR", "LF"}
             /\ stream[st[k] + (Len(line) + 1)] = "CR" /\ stream[st[k] + (Len(line) + 2)] = "LF"
             /\ line = << >> <=> k = n + 2
<1> DEFINE k    == Current
           st   == Starts(request)
           line == Line(request, k)
           n    == Len(request.fields)
<1>1. request \in Requests /\ stream = Wire(request) /\ Len(stream) \in Nat
  BY WireType DEF Typed, ReadTypeOK
<1>2. n \in Nat
  BY <1>1, RequestType, LenProperties
<1>3. Len(meta) \in Nat /\ Len(meta) <= n /\ (meta = << >> => Len(meta) = 0)
  BY LenProperties, EmptySeq DEF Typed, Listed, Stored
<1>4. /\ method = << >> => k = 1 /\ Len(meta) = 0
      /\ method # << >> => k = Len(meta) + 2
  BY <1>3 DEF Current, Stored
<1>5. k \in 1..(n + 2)
  <2> HIDE DEF k, n
  <2> QED
    BY <1>2, <1>3, <1>4
<1>6. recvb \in Seq(Bytes) /\ Len(recvb) \in Nat
  BY LenProperties DEF Typed
<1>7. taken \in Nat /\ arrived \in Nat /\ taken <= arrived /\ arrived <= Len(stream)
  <2>1. taken \in 0..arrived /\ arrived \in 0..Len(stream)
    BY DEF Typed, ReadTypeOK
  <2> QED
    BY <1>1, <2>1
<1> HIDE DEF k
<1>8. /\ Len(line) \in Nat /\ line \in Seq(Text)
      /\ st[k] \in Nat
      /\ st[k + 1] = st[k] + Len(line) + 2 /\ st[k + 1] <= Len(stream)
      /\ \A i \in 1..Len(line) : stream[st[k] + i] = line[i] /\ line[i] \in Text
      /\ stream[st[k] + (Len(line) + 1)] = "CR" /\ stream[st[k] + (Len(line) + 2)] = "LF"
  BY <1>1, <1>5, LineLies
<1>9. line \in Seq(Bytes)
  <2>1. Text \subseteq Bytes
    BY DEF Text
  <2> HIDE DEF line
  <2> QED
    BY <1>8, <2>1, SeqMonotonic
<1>10. \A i \in 1..Len(line) : line[i] \notin {"CR", "LF"}
  BY <1>8 DEF Text
<1>11. line = << >> <=> k = n + 2
  BY <1>1, <1>5, LastLine
<1> QED
  BY <1>1, <1>2, <1>3, <1>4, <1>5, <1>6, <1>7, <1>8, <1>9, <1>10, <1>11 DEF k

(* Nothing is the beginning of everything. *)
LEMMA BeginsEmpty == ASSUME NEW t, Len(t) \in Nat PROVE Begins(<< >>, t)
  BY EmptySeq DEF Begins, Lies

LEMMA WholeNetwork ==
  ASSUME Typed, Whole, Arrive \/ PeerCloses
  PROVE  Whole'
<1>1. /\ UNCHANGED <<request, stream, taken, valid, pc, timeout, recvb, parsedVars>>
      /\ closed /\ arrived < Len(stream) => closed' /\ arrived' < Len(stream')
  BY DEF Arrive, PeerCloses
<1>2. Stored'
  BY <1>1 DEF Whole, Stored, parsedVars
<1>3. Current' = Current
  BY <1>1 DEF Current, parsedVars
<1>4. Placed'
  BY <1>1, <1>3 DEF Whole, Placed, parsedVars
<1>5. Ended'
  BY <1>1 DEF Whole, Ended, TimedOut, parsedVars
<1> QED
  BY <1>2, <1>4, <1>5 DEF Whole

LEMMA WholeByte ==
  ASSUME Typed, Whole, GetByte, ~torn, ~torn'
  PROVE  Whole'
<1> DEFINE k    == Current
           st   == Starts(request)
           line == Line(request, k)
           b    == Byte
           m    == Len(recvb)
<1>1. /\ UNCHANGED <<request, parsedVars, valid, pc>> /\ taken' = taken + 1
      /\ pc = "line" /\ recvb' = Append(recvb, b) /\ b \notin {"CR", "LF"}
  <2>1. Len(recvb) < MAXBUFFERLEN
    BY DEF GetByte
  <2> QED
    BY <2>1 DEF GetByte, Take, netVars
<1>2. /\ request \in Requests /\ line \in Seq(Bytes) /\ Len(line) \in Nat
      /\ recvb \in Seq(Bytes) /\ m \in Nat /\ st[k] \in Nat
      /\ taken \in Nat /\ taken + 1 <= Len(stream) /\ Len(stream) \in Nat
      /\ \A i \in 1..Len(line) : stream[st[k] + i] = line[i]
      /\ stream[st[k] + (Len(line) + 1)] = "CR"
  <2>1. taken \in Nat /\ arrived \in Nat /\ arrived <= Len(stream) /\ Len(stream) \in Nat
    BY Here DEF Whole
  <2>2. arrived > taken
    BY DEF GetByte, Avail
  <2>3. taken + 1 <= Len(stream)
    BY <2>1, <2>2
  <2> QED
    BY <2>1, <2>3, Here DEF Whole
<1>3. Begins(recvb, line) /\ taken = st[k] + m
  BY <1>1 DEF Whole, Placed
<1>4. b = stream[taken + 1] /\ b \in Bytes
  <2>1. stream \in Seq(Bytes) /\ taken + 1 \in 1..Len(stream)
    BY <1>2, WireType
  <2> QED
    BY <2>1, ElementOfSeq DEF Byte
<1>5. Stored'
  BY <1>1 DEF Whole, Stored, parsedVars
<1>6. Current' = k
  BY <1>1 DEF Current, parsedVars
<1> HIDE DEF k, st, line, b, m
<1>7. m <= Len(line) /\ \A i \in 1..m : recvb[i] = line[i]
  <2>1. m <= Len(line)
    BY <1>3 DEF Begins, m
  <2>2. \A i \in 1..m : line[0 + i] = recvb[i] /\ 0 + i = i
    BY <1>2, <1>3 DEF Begins, Lies, m
  <2> QED
    BY <2>1, <2>2
<1>8. taken + 1 = st[k] + (m + 1)
  BY <1>2, <1>3
<1>9. m # Len(line)
  BY <1>1, <1>2, <1>4, <1>8
<1>10. m + 1 \in 1..Len(line)
  BY <1>2, <1>7, <1>9
<1>11. b = line[m + 1]
  BY <1>2, <1>4, <1>8, <1>10
<1>12. /\ Len(recvb') = m + 1 /\ recvb'[m + 1] = b
       /\ \A i \in 1..m : recvb'[i] = recvb[i]
  BY <1>1, <1>2, <1>4, AppendProperties DEF m
<1>13. Begins(recvb', line)
  <2>1. ASSUME NEW i \in 1..(m + 1) PROVE line[0 + i] = recvb'[i]
    <3>1. 0 + i = i /\ (i = m + 1 \/ i \in 1..m)
      BY <1>2
    <3> QED
      BY <1>7, <1>11, <1>12, <3>1
  <2>2. Len(recvb') <= Len(line)
    BY <1>10, <1>12
  <2> QED
    BY <1>12, <2>1, <2>2 DEF Begins, Lies
<1>14. taken' = st[k] + Len(recvb')
  BY <1>1, <1>8, <1>12
<1>15. Placed'
  <2>1. (pc # "done" => valid /\ count = Len(meta))'
    BY <1>1 DEF Whole, Placed, parsedVars
  <2> QED
    BY <1>1, <1>6, <1>13, <1>14, <2>1 DEF Placed, k, st, line
<1>16. Ended'
  BY <1>1 DEF Ended
<1> QED
  BY <1>5, <1>15, <1>16 DEF Whole

LEMMA WholeEnd ==
  ASSUME Typed, Whole, GetEnd
  PROVE  Whole'
<1> DEFINE k    == Current
           st   == Starts(request)
           line == Line(request, k)
           m    == Len(recvb)
<1>1. /\ UNCHANGED <<request, parsedVars, valid, recvb>> /\ taken' = taken + 1
      /\ pc = "line" /\ pc' = (IF Byte = "CR" THEN "strip" ELSE "parse")
      /\ Byte \in {"CR", "LF"}
  BY DEF GetEnd, Take, netVars
<1>2. /\ line \in Seq(Bytes) /\ Len(line) \in Nat
      /\ recvb \in Seq(Bytes) /\ m \in Nat /\ st[k] \in Nat
      /\ \A i \in 1..Len(line) : stream[st[k] + i] = line[i] /\ line[i] \notin {"CR", "LF"}
      /\ stream[st[k] + (Len(line) + 1)] = "CR"
  BY Here DEF Whole
<1>3. Begins(recvb, line) /\ taken = st[k] + m
  BY <1>1 DEF Whole, Placed
<1>4. Stored'
  BY <1>1 DEF Whole, Stored, parsedVars
<1>5. Current' = k
  BY <1>1 DEF Current, parsedVars
<1> HIDE DEF k, st, line, m
<1>6. m <= Len(line) /\ \A i \in 1..m : recvb[i] = line[i]
  <2>1. m <= Len(line)
    BY <1>3 DEF Begins, m
  <2>2. \A i \in 1..m : line[0 + i] = recvb[i] /\ 0 + i = i
    BY <1>2, <1>3 DEF Begins, Lies, m
  <2> QED
    BY <2>1, <2>2
<1>7. taken + 1 = st[k] + (m + 1)
  BY <1>2, <1>3
<1>8. Byte = stream[st[k] + (m + 1)]
  BY <1>7 DEF Byte
<1>9. m = Len(line)
  <2> SUFFICES ASSUME m # Len(line) PROVE FALSE
    OBVIOUS
  <2>1. m + 1 \in 1..Len(line)
    BY <1>2, <1>6
  <2> QED
    BY <1>1, <1>2, <1>8, <2>1
<1>10. recvb = line
  BY <1>2, <1>6, <1>9, SeqEqual DEF m
<1>11. pc' = "strip"
  BY <1>1, <1>2, <1>8, <1>9
<1>12. taken' = st[k] + Len(recvb') + 1
  BY <1>1, <1>2, <1>3 DEF m
<1>13. Placed'
  <2>1. (pc # "done" => valid /\ count = Len(meta))'
    BY <1>1 DEF Whole, Placed, parsedVars
  <2> QED
    BY <1>1, <1>5, <1>10, <1>11, <1>12, <2>1 DEF Placed, k, st, line
<1>14. Ended'
  BY <1>11 DEF Ended
<1> QED
  BY <1>4, <1>13, <1>14 DEF Whole

LEMMA WholeStrip ==
  ASSUME Typed, Whole, StripNewLine, ~torn'
  PROVE  Whole'
<1> DEFINE k    == Current
           st   == Starts(request)
           line == Line(request, k)
           m    == Len(line)
<1>1. /\ UNCHANGED <<request, parsedVars, valid, recvb>>
      /\ taken' = taken + (IF Byte = "LF" THEN 1 ELSE 0)
      /\ pc = "strip" /\ pc' = "parse"
  BY DEF StripNewLine, Take, netVars
<1>2. /\ m \in Nat /\ st[k] \in Nat /\ st[k + 1] = st[k] + m + 2
      /\ stream[st[k] + (m + 2)] = "LF"
  BY Here DEF Whole
<1>3. recvb = line /\ taken = st[k] + m + 1
  BY <1>1 DEF Whole, Placed
<1>4. Stored'
  BY <1>1 DEF Whole, Stored, parsedVars
<1>5. Current' = k
  BY <1>1 DEF Current, parsedVars
<1> HIDE DEF k, st, line, m
<1>6. taken + 1 = st[k] + (m + 2)
  BY <1>2, <1>3
<1>7. Byte = "LF"
  BY <1>2, <1>6 DEF Byte
<1>8. taken' = st[k + 1]
  BY <1>1, <1>2, <1>3, <1>7
<1>9. Placed'
  <2>1. (pc # "done" => valid /\ count = Len(meta))'
    BY <1>1 DEF Whole, Placed, parsedVars
  <2> QED
    BY <1>1, <1>3, <1>5, <1>8, <2>1 DEF Placed, k, st, line
<1>10. Ended'
  BY <1>1 DEF Ended
<1> QED
  BY <1>4, <1>9, <1>10 DEF Whole

LEMMA WholeNoLine ==
  ASSUME Typed, Whole, NoLine
  PROVE  Whole'
<1> DEFINE k    == Current
           st   == Starts(request)
           line == Line(request, k)
<1>1. /\ UNCHANGED <<request, stream, arrived, closed, taken, parsedVars>>
      /\ recvb = << >> /\ recvb' = << >> /\ pc = "line" /\ timeout' = timeout - 1
      /\ pc' = (IF valid' /\ timeout - 1 > 0 THEN "line" ELSE "done")
      /\ ~(arrived > taken) /\ valid' = again' /\ again' = (again \/ ~closed)
  BY DEF NoLine, Continue, RecvNothing, Avail, netVars
<1>2. /\ Len(line) \in Nat /\ st[k] \in Nat /\ arrived \in Nat /\ taken \in Nat
      /\ st[k + 1] = st[k] + Len(line) + 2 /\ st[k + 1] <= Len(stream)
      /\ Len(stream) \in Nat /\ taken <= arrived
  BY Here DEF Whole
<1>3. taken = st[k] + Len(recvb) /\ count = Len(meta)
  BY <1>1 DEF Whole, Placed
<1>4. Stored'
  BY <1>1 DEF Whole, Stored, parsedVars
<1>5. Current' = k
  BY <1>1 DEF Current, parsedVars
<1>6. timeout \in Nat /\ timeout > 0
  BY <1>1, Bounds DEF Typed, ReadTypeOK
<1>7. count' = Len(meta')
  BY <1>1, <1>3 DEF parsedVars
<1> HIDE DEF k, st, line
<1>8. CASE pc' = "line"
  <2>1. valid'
    BY <1>1, <1>8
  <2>2. Begins(recvb', line) /\ taken' = st[k] + Len(recvb')
    BY <1>1, <1>2, <1>3, BeginsEmpty
  <2>3. Placed'
    BY <1>1, <1>5, <1>7, <1>8, <2>1, <2>2 DEF Placed, k, st, line
  <2>4. Ended'
    BY <1>8 DEF Ended
  <2> QED
    BY <1>4, <2>3, <2>4 DEF Whole
<1>9. CASE pc' # "line"
  <2>1. pc' = "done" /\ (~valid' \/ ~(timeout - 1 > 0))
    BY <1>1, <1>9
  <2>2. Placed'
    BY <2>1 DEF Placed
  <2>3. ASSUME ~valid' PROVE closed' /\ arrived' < Len(stream')
    <3>1. closed
      BY <1>1, <2>3
    <3>2. arrived = taken /\ taken = st[k]
      BY <1>1, <1>2, <1>3, EmptySeq
    <3> QED
      BY <1>1, <1>2, <3>1, <3>2
  <2>4. ASSUME ~(timeout - 1 > 0) PROVE timeout' = 0
    BY <1>1, <1>6, <2>4
  <2>5. Ended'
    BY <2>1, <2>3, <2>4 DEF Ended, TimedOut
  <2> QED
    BY <1>4, <2>2, <2>5 DEF Whole
<1> QED
  BY <1>8, <1>9

LEMMA WholeBlank ==
  ASSUME Typed, Whole, BlankLine
  PROVE  Whole'
<1> DEFINE k    == Current
           st   == Starts(request)
           n    == Len(request.fields)
<1>1. /\ UNCHANGED <<request, taken, valid, recvb, parsedVars>>
      /\ recvb = << >> /\ pc = "parse"
      /\ pc' = (IF length > 0 THEN "body" ELSE "done")
  <2>1. UNCHANGED <<request, taken, valid, recvb, parsedVars>> /\ recvb = << >> /\ pc = "parse"
    BY DEF BlankLine, netVars
  <2>2. pc' = (IF length > 0 THEN "body" ELSE "done")
    BY DEF BlankLine
  <2> QED
    BY <2>1, <2>2
<1>2. recvb = Line(request, k) /\ taken = st[k + 1] /\ valid /\ count = Len(meta)
  BY <1>1 DEF Whole, Placed
<1>3. k = n + 2 /\ n \in Nat /\ st[k + 1] \in Nat
  <2>1. Line(request, k) = << >>
    BY <1>1, <1>2
  <2>2. /\ n \in Nat /\ st[k] \in Nat /\ Len(Line(request, k)) \in Nat
        /\ st[k + 1] = st[k] + Len(Line(request, k)) + 2
        /\ Line(request, k) = << >> <=> k = n + 2
    BY Here DEF Whole
  <2> HIDE DEF k, st, n
  <2> QED
    BY <2>1, <2>2
<1>4. method # << >> /\ Len(meta) = n
  <2>1. /\ Len(meta) \in Nat
        /\ method = << >> => k = 1 /\ Len(meta) = 0
        /\ method # << >> => k = Len(meta) + 2
    BY Here DEF Whole
  <2> HIDE DEF k, n
  <2> QED
    BY <1>3, <2>1
<1>5. body = << >> /\ Len(body) = 0 /\ length \in Nat
  BY <1>1, Bounds, EmptySeq DEF Typed, ReadTypeOK
<1>6. Stored'
  BY <1>1 DEF Whole, Stored, parsedVars
<1>7. Current' = k
  BY <1>1 DEF Current, parsedVars
<1>8. count' = Len(meta') /\ valid'
  BY <1>1, <1>2 DEF parsedVars
<1> HIDE DEF k, st, n
<1>9. CASE length > 0
  <2>1. pc' = "body"
    BY <1>1, <1>9
  <2>2. taken' = st[k + 1] + Len(body') /\ Len(body') < length'
    BY <1>1, <1>2, <1>3, <1>5, <1>9 DEF parsedVars
  <2>3. Placed'
    BY <1>1, <1>3, <1>7, <1>8, <2>1, <2>2 DEF Placed, k, st, n
  <2>4. Ended'
    BY <2>1 DEF Ended
  <2> QED
    BY <1>6, <2>3, <2>4 DEF Whole
<1>10. CASE ~(length > 0)
  <2>1. pc' = "done"
    BY <1>1, <1>10
  <2>2. Placed'
    BY <2>1 DEF Placed
  <2>3. method' # << >> /\ Len(meta') = Len(request'.fields) /\ Len(body') = length'
    BY <1>1, <1>4, <1>5, <1>10 DEF parsedVars, n
  <2>4. Ended'
    BY <2>3 DEF Ended
  <2> QED
    BY <1>6, <2>2, <2>4 DEF Whole
<1> QED
  BY <1>9, <1>10

LEMMA WholeRequest ==
  ASSUME Typed, Whole, RequestLine
  PROVE  Whole'
<1> DEFINE st == Starts(request)
           first  == Token(recvb, " ")
           second == Token(first.rest, " ")
           third  == Token(second.rest, " ")
<1>1. /\ UNCHANGED <<request, taken, valid, meta, length, body, count>>
      /\ method = << >> /\ pc = "parse"
      /\ method' = MakeUpper(first.token) /\ uri' = second.token
      /\ version' = MakeUpper(third.token)
  BY DEF RequestLine, netVars
<1>2. recvb' = << >> /\ pc' = (IF valid' /\ timeout > 0 THEN "line" ELSE "done")
  BY DEF RequestLine, Continue
<1>3. /\ request \in Requests /\ Current = 1 /\ Len(meta) = 0
      /\ Len(request.fields) \in Nat /\ st[1] \in Nat /\ Len(Line(request, 1)) \in Nat
      /\ st[1 + 1] = st[1] + Len(Line(request, 1)) + 2
  <2> DEFINE k == Current
  <2>1. k = 1
    BY <1>1, Here DEF Whole
  <2>2. /\ request \in Requests /\ (method = << >> => Len(meta) = 0)
        /\ Len(request.fields) \in Nat /\ st[k] \in Nat /\ Len(Line(request, k)) \in Nat
        /\ st[k + 1] = st[k] + Len(Line(request, k)) + 2
    BY Here DEF Whole
  <2> HIDE DEF k, st
  <2> QED
    BY <1>1, <2>1, <2>2 DEF k
<1>4. recvb = Line(request, 1) /\ taken = st[1 + 1] /\ valid /\ count = Len(meta)
  BY <1>1, <1>3 DEF Whole, Placed
<1>5. pc' = "line" /\ valid'
  <2>1. timeout > 0
    BY <1>1 DEF Typed
  <2> QED
    BY <1>1, <1>2, <1>4, <2>1
<1>6. first.token = request.method /\ second.token = request.uri /\ third.token = request.version
  BY <1>3, <1>4, FirstLine
<1> HIDE DEF first, second, third
<1>7. /\ method' = MakeUpper(request.method) /\ uri' = request.uri
      /\ version' = MakeUpper(request.version)
  BY <1>1, <1>6
<1>8. method' # << >>
  <2>1. request.method \in Seq(Text \ {" "}) /\ request.method # << >>
    BY <1>3, RequestType DEF Words
  <2> DEFINE m == request.method
  <2> HIDE DEF m
  <2>2. MakeUpper(m) = << >> <=> m = << >>
    BY <2>1, UpperLen DEF m
  <2> QED
    BY <1>7, <2>1, <2>2 DEF m
<1>9. Stored'
  BY <1>1, <1>7, <1>8 DEF Whole, Stored
<1>10. Current' = 2
  BY <1>1, <1>3, <1>8 DEF Current
<1>11. Begins(recvb', Line(request', 2))
  <2>1. 2 \in 1..(Len(request.fields) + 2)
    BY <1>3
  <2>2. Len(Line(request, 2)) \in Nat
    BY <1>3, <2>1, LineType
  <2> QED
    BY <1>1, <1>2, <2>2, BeginsEmpty
<1>12. taken' = st[2] + Len(recvb')
  <2>1. st[2] \in Nat /\ taken = st[2]
    BY <1>3, <1>4
  <2> HIDE DEF st
  <2>2. Len(recvb') = 0
    BY <1>2
  <2> QED
    BY <1>1, <2>1, <2>2
<1>13. Placed'
  BY <1>1, <1>4, <1>5, <1>10, <1>11, <1>12 DEF Placed
<1>14. Ended'
  BY <1>5 DEF Ended
<1> QED
  BY <1>9, <1>13, <1>14 DEF Whole

LEMMA WholeField ==
  ASSUME Typed, Whole, Field
  PROVE  Whole'
<1> DEFINE i  == Len(meta) + 1
           st == Starts(request)
           n  == Len(request.fields)
           f  == request.fields[i]
           key   == MakeUpper(TrimSpace(Token(recvb, ":").token))
           value == Token(recvb, ":").rest
           kept  == count < MaxFields /\ value # << >>
<1>1. /\ UNCHANGED <<request, stream, arrived, closed, taken, valid, method, uri, version, body>>
      /\ recvb # << >> /\ method # << >> /\ pc = "parse"
      /\ count' = Min({count + 1, MaxFields})
  BY DEF Field, netVars
<1>2. /\ request \in Requests /\ Len(meta) \in Nat /\ n \in Nat /\ Current = i + 1
      /\ st[i + 1] \in Nat /\ Len(Line(request, i + 1)) \in Nat
      /\ st[(i + 1) + 1] = st[i + 1] + Len(Line(request, i + 1)) + 2
      /\ i + 1 \in 1..(n + 2) /\ (Line(request, i + 1) = << >> <=> i + 1 = n + 2)
  <2> DEFINE k == Current
  <2>1. Len(meta) \in Nat /\ k = Len(meta) + 2
    BY <1>1, Here DEF Whole
  <2>2. k = i + 1
    BY <2>1
  <2>3. /\ request \in Requests /\ n \in Nat
        /\ st[k] \in Nat /\ Len(Line(request, k)) \in Nat
        /\ st[k + 1] = st[k] + Len(Line(request, k)) + 2
        /\ k \in 1..(n + 2) /\ (Line(request, k) = << >> <=> k = n + 2)
    BY Here DEF Whole
  <2> HIDE DEF k, st, n, i
  <2> QED
    BY <2>1, <2>2, <2>3 DEF k
<1>3. recvb = Line(request, i + 1) /\ taken = st[(i + 1) + 1] /\ valid /\ count = Len(meta)
  BY <1>1, <1>2 DEF Whole, Placed
<1>4. i \in 1..n
  <2> HIDE DEF n
  <2>1. i + 1 # n + 2
    BY <1>1, <1>2, <1>3
  <2> QED
    BY <1>2, <2>1
<1>5. Token(recvb, ":").token = f.key /\ value = f.value
  <2> HIDE DEF i
  <2> QED
    BY <1>2, <1>3, <1>4, FieldTokens
<1>6. Sent(f) = [key |-> key, value |-> TrimSpace(value)]
  BY <1>5 DEF Sent
<1>7. count + 1 = i /\ count \in Nat /\ MaxFields \in Nat /\ count <= MaxFields
  <2>1. count \in 0..MaxFields
    BY DEF Typed, ReadTypeOK
  <2> QED
    BY <1>3, <2>1, Bounds
<1>8. body' = body /\ Begins(body, request.body)
  BY <1>1 DEF Whole, Stored
<1>9. CASE kept
  <2> DEFINE entry == [key |-> key, value |-> TrimSpace(value)]
  <2>1. /\ meta' = Append(meta, entry) /\ recvb' = << >>
        /\ length' = (IF key = ContentLength THEN LengthOf(TrimSpace(value)) ELSE length)
        /\ pc' = (IF valid' /\ timeout > 0 THEN "line" ELSE "done")
    BY <1>9 DEF Field, Continue
  <2>2. pc' = "line" /\ valid'
    <3>1. timeout > 0
      BY <1>1 DEF Typed
    <3> QED
      BY <1>1, <1>3, <2>1, <3>1
  <2>3. entry = Sent(f) /\ entry.key = key /\ entry.value = TrimSpace(value)
    BY <1>6
  <2>4. count' = i
    <3>1. count + 1 <= MaxFields
      BY <1>7, <1>9
    <3> QED
      BY <1>1, <1>7, <3>1, MinOfPair
  <2> HIDE DEF entry, key, value, f, kept
  <2>5. Len(meta') = i /\ meta'[i] = entry /\ \A j \in 1..Len(meta) : meta'[j] = meta[j]
    <3>1. PICK S : meta \in Seq(S)
      BY DEF Typed, Listed
    <3> DEFINE T == S \cup {entry}
    <3>2. meta \in Seq(T) /\ entry \in T
      <4>1. S \subseteq T
        OBVIOUS
      <4> QED
        BY <3>1, <4>1, SeqMonotonic
    <3> HIDE DEF T
    <3> DEFINE longer == Append(meta, entry)
    <3>3. /\ Len(longer) = Len(meta) + 1 /\ longer[Len(meta) + 1] = entry
          /\ \A j \in 1..Len(meta) : longer[j] = meta[j]
      BY <3>2, AppendProperties
    <3>4. meta' = longer
      BY <2>1
    <3> HIDE DEF longer
    <3> QED
      BY <3>3, <3>4
  <2>6. \A j \in 1..Len(meta) : meta[j] = Sent(request.fields[j])
    BY DEF Whole, Stored
  <2>7. ASSUME NEW j \in 1..Len(meta') PROVE meta'[j] = Sent(request.fields[j])
    <3>1. j = i \/ j \in 1..Len(meta)
      BY <1>2, <2>5
    <3> QED
      BY <2>3, <2>5, <2>6, <3>1 DEF f
  <2>8. ASSUME length' # 0
        PROVE  \E j \in 1..Len(meta') : /\ meta'[j].key = ContentLength
                                        /\ length' = LengthOf(meta'[j].value)
    <3>1. CASE key = ContentLength
      <4>1. i \in 1..Len(meta')
        BY <1>2, <2>5
      <4> QED
        BY <2>1, <2>3, <2>5, <3>1, <4>1
    <3>2. CASE key # ContentLength
      <4>1. length # 0
        BY <2>1, <2>8, <3>2
      <4>2. PICK j \in 1..Len(meta) : meta[j].key = ContentLength /\ length = LengthOf(meta[j].value)
        BY <4>1 DEF Whole, Stored
      <4>3. j \in 1..Len(meta') /\ meta'[j] = meta[j]
        BY <1>2, <2>5
      <4> QED
        BY <2>1, <3>2, <4>2, <4>3
    <3> QED
      BY <3>1, <3>2
  <2>9. Stored'
    <3>1. /\ method' # << >> /\ method' = MakeUpper(request'.method)
          /\ uri' = request'.uri /\ version' = MakeUpper(request'.version)
      BY <1>1 DEF Whole, Stored
    <3>2. Len(meta') <= Len(request'.fields)
      BY <1>1, <1>4, <2>5
    <3>3. Begins(body', request'.body)
      BY <1>1, <1>8
    <3> QED
      BY <1>1, <2>7, <2>8, <3>1, <3>2, <3>3 DEF Stored
  <2>10. Current' = (i + 1) + 1
    BY <1>1, <1>2, <2>5 DEF Current
  <2>11. (i + 1) + 1 \in 1..(n + 2)
    <3> HIDE DEF n, i
    <3> QED
      BY <1>2, <1>4
  <2> DEFINE k == (i + 1) + 1
  <2>12. Begins(recvb', Line(request', k)) /\ taken' = st[k] + Len(recvb')
    <3> HIDE DEF k
    <3>1. Len(Line(request, k)) \in Nat
      BY <1>2, <2>11, LineType DEF k
    <3>2. Begins(recvb', Line(request', k))
      BY <1>1, <2>1, <3>1, BeginsEmpty
    <3>3. st[k] \in Nat /\ taken' = st[k]
      <4> HIDE DEF i, st
      <4> QED
        BY <1>1, <1>2, <1>3 DEF k
    <3>4. Len(recvb') = 0
      BY <2>1
    <3> QED
      BY <3>2, <3>3, <3>4
  <2>13. Placed'
    <3> HIDE DEF k, i
    <3>1. Current' = k
      BY <2>10 DEF k
    <3> QED
      BY <1>1, <2>2, <2>4, <2>5, <2>12, <3>1 DEF Placed
  <2>14. Ended'
    BY <2>2 DEF Ended
  <2> QED
    BY <2>9, <2>13, <2>14 DEF Whole
<1>10. CASE ~kept
  <2>1. UNCHANGED <<meta, length>> /\ pc' = "done"
    BY <1>10 DEF Field
  <2>2. ~Clean(request)
    <3>1. CASE ~(count < MaxFields)
      <4>1. MaxFields < n
        <5> HIDE DEF n
        <5> QED
          BY <1>2, <1>4, <1>7, <3>1
      <4> QED
        BY <1>2, <1>7, <4>1 DEF Clean
    <3>2. CASE f.value = << >>
      <4>1. i \in DOMAIN request.fields
        BY <1>2, <1>4, RequestType, LenProperties
      <4> QED
        BY <3>2, <4>1 DEF Clean
    <3> QED
      BY <1>5, <1>10, <3>1, <3>2
  <2>3. Stored'
    BY <1>1, <2>1 DEF Whole, Stored
  <2>4. Placed' /\ Ended'
    BY <1>1, <2>1, <2>2 DEF Placed, Ended
  <2> QED
    BY <2>3, <2>4 DEF Whole
<1> QED
  BY <1>9, <1>10

(* A piece of the wire. *)
LEMMA Slice ==
  ASSUME NEW S, NEW s \in Seq(S), NEW p \in Nat, NEW n \in Nat, p + n <= Len(s)
  PROVE  LET got == SubSeq(s, p + 1, p + n)
         IN  got \in Seq(S) /\ Len(got) = n /\ \A i \in 1..n : got[i] = s[p + i]
<1> DEFINE from == p + 1
           to   == p + n
           got  == SubSeq(s, from, to)
<1>1. Len(s) \in Nat /\ from \in Int /\ to \in Int
  BY LenProperties
<1>2. \A i \in from..to : s[i] \in S
  <2>1. \A i \in from..to : i \in 1..Len(s)
    BY <1>1
  <2> QED
    BY <2>1, ElementOfSeq
<1>3. to - from + 1 = n /\ (from <= to <=> n > 0)
  OBVIOUS
<1>4. \A i \in 1..n : from + i - 1 = p + i
  OBVIOUS
<1> HIDE DEF from, to, got
<1>5. /\ got \in Seq(S) /\ Len(got) = (IF from <= to THEN to - from + 1 ELSE 0)
      /\ \A i \in 1..(to - from + 1) : got[i] = s[from + i - 1]
  BY <1>1, <1>2, SubSeqProperties DEF got
<1>6. Len(got) = n /\ \A i \in 1..n : got[i] = s[p + i]
  BY <1>3, <1>4, <1>5
<1> QED
  BY <1>5, <1>6 DEF got, from, to

(* More of a body after the beginning of it is still its beginning. *)
LEMMA BeginsLonger ==
  ASSUME NEW S, NEW s \in Seq(S), NEW g \in Seq(S), NEW t, NEW w, NEW p \in Nat,
         Begins(s, t), Lies(t, w, p), Len(s) + Len(g) <= Len(t), Len(t) \in Nat,
         \A i \in 1..Len(g) : g[i] = w[(p + Len(s)) + i]
  PROVE  Begins(s \o g, t)
<1> DEFINE u == s \o g
           m == Len(s)
<1>1. m \in Nat /\ Len(g) \in Nat
  BY LenProperties
<1>2. /\ Len(u) = m + Len(g)
      /\ \A i \in 1..m : u[i] = s[i]
      /\ \A i \in 1..Len(g) : u[m + i] = g[i]
  BY Catenated
<1>3. \A i \in 1..m : t[0 + i] = s[i]
  BY DEF Begins, Lies
<1>4. \A i \in 1..Len(t) : w[p + i] = t[i]
  BY DEF Lies
<1> HIDE DEF u
<1>5. ASSUME NEW i \in 1..Len(u) PROVE t[0 + i] = u[i]
  <2>1. CASE i \in 1..m
    BY <1>2, <1>3, <2>1
  <2>2. CASE i \notin 1..m
    <3> DEFINE j == i - m
    <3>1. j \in 1..Len(g) /\ i = m + j /\ i \in 1..Len(t) /\ 0 + i = i /\ (p + m) + j = p + i
      BY <1>1, <1>2, <2>2
    <3> HIDE DEF j
    <3>2. u[i] = g[j]
      BY <1>2, <3>1
    <3>3. g[j] = w[p + i]
      BY <3>1
    <3> QED
      BY <1>4, <3>1, <3>2, <3>3
  <2> QED
    BY <2>1, <2>2
<1> QED
  BY <1>2, <1>5 DEF Begins, Lies, u

(* And so is what is kept of it. *)
LEMMA BeginsShorter ==
  ASSUME NEW S, NEW s \in Seq(S), NEW n \in 0..Len(s), NEW t, Begins(s, t), Len(t) \in Nat
  PROVE  Begins(SubSeq(s, 1, n), t) /\ Len(SubSeq(s, 1, n)) = n
<1> DEFINE u == SubSeq(s, 1, n)
<1>1. Len(u) = n /\ \A i \in 1..n : u[i] = s[i]
  BY FrontOf
<1>2. Len(s) \in Nat
  BY LenProperties
<1>3. n <= Len(t) /\ \A i \in 1..n : t[0 + i] = s[i]
  BY <1>2 DEF Begins, Lies
<1> HIDE DEF u
<1>4. Begins(u, t)
  BY <1>1, <1>3 DEF Begins, Lies
<1> QED
  BY <1>1, <1>4 DEF u

LEMMA WholeBody ==
  ASSUME Typed, Whole, BodyRead
  PROVE  Whole'
<1> DEFINE n    == Len(request.fields)
           st   == Starts(request)
           from == st[n + 3]
           k    == Min({arrived - taken, MAXBUFFERLEN})
           got  == SubSeq(stream, taken + 1, taken + k)
           all  == body \o got
           cut  == Min({Len(all), length})
<1>1. /\ UNCHANGED <<request, stream, valid, timeout, method, uri, version, meta, length, count>>
      /\ pc = "body" /\ taken' = taken + k /\ body' = SubSeq(all, 1, cut)
      /\ pc' = (IF Len(all) >= length THEN "done" ELSE "body")
  BY DEF BodyRead, Take, netVars
<1>2. /\ valid /\ count = Len(meta) /\ Current = n + 2
      /\ taken = st[Current + 1] + Len(body) /\ Len(body) < length
  BY <1>1 DEF Whole, Placed
<1>3. /\ request \in Requests /\ n \in Nat /\ stream = Wire(request)
      /\ taken \in Nat /\ arrived \in Nat /\ taken <= arrived /\ arrived <= Len(stream)
      /\ Len(stream) \in Nat
  BY Here DEF Whole, Typed
<1>4. /\ from \in Nat /\ Len(request.body) \in Nat
      /\ Len(stream) = from + Len(request.body)
      /\ Lies(request.body, stream, from)
  BY <1>3, BodyLies
<1>5. body \in Seq(Bytes) /\ Len(body) \in Nat /\ length \in Nat
  <2>1. body \in Seq(Bytes) /\ length \in 0..MAXBUFFERLEN
    BY DEF Typed, ReadTypeOK
  <2> QED
    BY <2>1, Bounds, LenProperties
<1>6. taken = from + Len(body)
  <2>1. Current + 1 = n + 3
    BY <1>2, <1>3
  <2> QED
    BY <1>2, <2>1
<1>7. k \in Nat /\ k <= arrived - taken
  BY <1>3, Bounds, MinOfPair
<1> HIDE DEF k, n, st
<1>8. taken + k <= Len(stream)
  BY <1>3, <1>7
<1>9. got \in Seq(Bytes) /\ Len(got) = k /\ \A i \in 1..k : got[i] = stream[taken + i]
  <2>1. stream \in Seq(Bytes)
    BY WireType
  <2>2. taken \in Nat /\ k \in Nat
    BY <1>3, <1>7
  <2>3. /\ got \in Seq(Bytes) /\ Len(got) = k
        /\ \A i \in 1..k : got[i] = stream[taken + i]
    BY <1>8, <2>1, <2>2, Slice
  <2> QED
    BY <2>3
<1> HIDE DEF got, from
<1>10. all \in Seq(Bytes) /\ Len(all) = Len(body) + k /\ Len(all) \in Nat
  <2>1. body \in Seq(Bytes) /\ got \in Seq(Bytes)
    BY <1>5, <1>9
  <2>2. all \in Seq(Bytes) /\ Len(all) = Len(body) + Len(got)
    BY <2>1, Catenated
  <2> HIDE DEF all
  <2> QED
    BY <1>5, <1>7, <1>9, <2>2
<1>11. Begins(all, request.body)
  <2>1. Begins(body, request.body)
    BY DEF Whole, Stored
  <2>2. Len(body) + Len(got) <= Len(request.body)
    BY <1>4, <1>5, <1>6, <1>7, <1>8, <1>9
  <2>3. \A i \in 1..Len(got) : got[i] = stream[(from + Len(body)) + i]
    BY <1>6, <1>9
  <2> QED
    BY <1>4, <1>5, <1>9, <2>1, <2>2, <2>3, BeginsLonger
<1> HIDE DEF all
<1>12. cut \in 0..Len(all) /\ cut = (IF Len(all) <= length THEN Len(all) ELSE length)
  BY <1>5, <1>10, MinOfPair
<1> HIDE DEF cut
<1>13. Begins(body', request.body) /\ Len(body') = cut
  BY <1>1, <1>4, <1>10, <1>11, <1>12, BeginsShorter
<1>14. Stored'
  <2>1. Begins(body', request'.body)
    BY <1>1, <1>13
  <2> QED
    BY <1>1, <2>1 DEF Whole, Stored
<1>15. Current' = n + 2
  BY <1>1, <1>2 DEF Current
<1>16. CASE Len(all) >= length
  <2>1. pc' = "done" /\ Len(body') = length
    BY <1>1, <1>5, <1>10, <1>12, <1>13, <1>16
  <2>2. method # << >> /\ Len(meta) = n
    <3>1. /\ Len(meta) \in Nat /\ (method = << >> => Current = 1 /\ Len(meta) = 0)
          /\ (method # << >> => Current = Len(meta) + 2)
      BY Here DEF Whole
    <3> QED
      BY <1>2, <1>3, <3>1
  <2>3. Placed'
    BY <2>1 DEF Placed
  <2>4. method' # << >> /\ Len(meta') = Len(request'.fields) /\ Len(body') = length'
    BY <1>1, <2>1, <2>2 DEF n
  <2>5. Ended'
    BY <2>4 DEF Ended
  <2> QED
    BY <1>14, <2>3, <2>5 DEF Whole
<1>17. CASE ~(Len(all) >= length)
  <2>1. pc' = "body" /\ Len(body') = Len(all) /\ Len(all) < length
    BY <1>1, <1>5, <1>10, <1>12, <1>13, <1>17
  <2>2. taken' = st[n + 3] + Len(body')
    <3>1. taken' = from + Len(body')
      <4>1. taken' = taken + k
        BY <1>1
      <4>2. from \in Nat
        BY <1>4
      <4> QED
        BY <1>5, <1>6, <1>7, <1>10, <2>1, <4>1, <4>2
    <3> QED
      BY <3>1 DEF from
  <2> DEFINE next == n + 2
  <2>3. next + 1 = n + 3
    BY <1>3
  <2>4. taken' = st[next + 1] + Len(body')
    <3> HIDE DEF next
    <3> QED
      BY <2>2, <2>3
  <2>5. Placed'
    <3>1. Current' = next /\ next = Len(request'.fields) + 2 /\ st = Starts(request')
      BY <1>1, <1>15 DEF n, st
    <3>2. count' = Len(meta') /\ valid' /\ Len(body') < length'
      BY <1>1, <1>2, <2>1
    <3> HIDE DEF next
    <3> QED
      BY <2>1, <2>4, <3>1, <3>2 DEF Placed
  <2>6. Ended'
    BY <2>1 DEF Ended
  <2> QED
    BY <1>14, <2>5, <2>6 DEF Whole
<1> QED
  BY <1>16, <1>17

LEMMA WholeDry ==
  ASSUME Typed, Whole, BodyRunsDry
  PROVE  Whole'
<1> DEFINE n    == Len(request.fields)
           from == Starts(request)[n + 3]
<1>1. /\ UNCHANGED <<request, stream, arrived, closed, taken, recvb, parsedVars>>
      /\ pc = "body" /\ ~(arrived > taken)
      /\ valid' = again' /\ again' = (again \/ ~closed)
      /\ valid' => UNCHANGED <<pc, timeout>>
      /\ ~valid' => pc' = "done"
  BY DEF BodyRunsDry, RecvNothing, Avail, netVars
<1>2. Stored'
  BY <1>1 DEF Whole, Stored, parsedVars
<1>3. Current' = Current
  BY <1>1 DEF Current, parsedVars
<1>4. CASE valid'
  <2>1. Placed'
    BY <1>1, <1>3, <1>4 DEF Whole, Placed, parsedVars
  <2>2. Ended'
    BY <1>1, <1>4 DEF Ended
  <2> QED
    BY <1>2, <2>1, <2>2 DEF Whole
<1>5. CASE ~valid'
  <2>1. pc' = "done" /\ closed
    BY <1>1, <1>5
  <2>2. Placed'
    BY <2>1 DEF Placed
  <2>3. /\ Current = n + 2 /\ taken = Starts(request)[Current + 1] + Len(body)
        /\ Len(body) < length
    BY <1>1 DEF Whole, Placed
  <2>4. /\ request \in Requests /\ n \in Nat /\ stream = Wire(request)
        /\ taken \in Nat /\ arrived \in Nat /\ taken <= arrived /\ arrived <= Len(stream)
        /\ Len(stream) \in Nat
    BY Here DEF Whole, Typed
  <2>5. from \in Nat /\ Len(request.body) \in Nat /\ Len(stream) = from + Len(request.body)
    BY <2>4, BodyLies
  <2>6. Len(body) \in Nat /\ length \in Nat
    <3>1. body \in Seq(Bytes) /\ length \in 0..MAXBUFFERLEN
      BY DEF Typed, ReadTypeOK
    <3> QED
      BY <3>1, Bounds, LenProperties
  <2>7. taken = from + Len(body)
    <3>1. Current + 1 = n + 3
      BY <2>3, <2>4
    <3> QED
      BY <2>3, <3>1
  <2>8. CASE arrived < Len(stream)
    <3>1. Ended'
      BY <1>1, <2>1, <2>8 DEF Ended
    <3> QED
      BY <1>2, <2>2, <3>1 DEF Whole
  <2>9. CASE ~(arrived < Len(stream))
    <3> HIDE DEF n, from
    <3>1. Len(request.body) < length
      BY <1>1, <2>3, <2>4, <2>5, <2>6, <2>7, <2>9
    <3>2. PICK i \in 1..Len(meta) : /\ meta[i].key = ContentLength
                                    /\ length = LengthOf(meta[i].value)
      BY <2>3, <2>6 DEF Whole, Stored
    <3>3. meta[i] = Sent(request.fields[i]) /\ Len(meta) <= n
      BY DEF Whole, Stored, n
    <3>4. i \in DOMAIN request.fields
      <4>1. Len(meta) \in Nat
        BY Here DEF Whole
      <4>2. DOMAIN request.fields = 1..n
        BY <2>4, RequestType, LenProperties DEF n
      <4> QED
        BY <2>4, <3>3, <4>1, <4>2
    <3>5. ~Clean(request)
      <4>1. ~(LengthOf(Sent(request.fields[i]).value) <= Len(request.body))
        BY <2>5, <2>6, <3>1, <3>2, <3>3
      <4> QED
        BY <3>2, <3>3, <3>4, <4>1 DEF Clean
    <3>6. Ended'
      BY <1>1, <3>5 DEF Ended
    <3> QED
      BY <1>2, <2>2, <3>6 DEF Whole
  <2> QED
    BY <2>8, <2>9
<1> QED
  BY <1>4, <1>5

LEMMA InitWhole == ReadInit => Whole
<1> SUFFICES ASSUME ReadInit PROVE Whole
  OBVIOUS
<1> DEFINE st   == Starts(request)
           line == Line(request, 1)
<1>1. /\ request \in Requests /\ taken = 0 /\ valid = TRUE /\ pc = "line" /\ count = 0
      /\ recvb = << >> /\ method = << >> /\ uri = << >> /\ version = << >>
      /\ meta = << >> /\ length = 0 /\ body = << >>
  BY DEF ReadInit
<1>2. Len(request.fields) \in Nat /\ Len(request.body) \in Nat
  BY <1>1, RequestType, LenProperties
<1>3. Len(meta) = 0
  BY <1>1
<1>4. Stored
  <2>1. Begins(body, request.body)
    BY <1>1, <1>2, BeginsEmpty
  <2> QED
    BY <1>1, <1>2, <1>3, <2>1 DEF Stored
<1>5. st[1] = 0
  <2>1. Laid(request, Wire(request), st)
    BY <1>1, LaidOut DEF Starts
  <2> HIDE DEF st
  <2> QED
    BY <2>1 DEF Laid
<1>6. Begins(recvb, line)
  <2>1. 1 \in 1..(Len(request.fields) + 2)
    BY <1>2
  <2>2. Len(line) \in Nat
    BY <1>1, <2>1, LineType, LenProperties
  <2> HIDE DEF line
  <2> QED
    BY <1>1, <2>2, BeginsEmpty
<1>7. Placed
  <2>1. Current = 1 /\ Len(recvb) = 0
    BY <1>1 DEF Current
  <2>2. taken = st[1] + Len(recvb)
    BY <1>1, <1>5, <2>1
  <2> QED
    BY <1>1, <1>3, <1>6, <2>1, <2>2 DEF Placed
<1>8. Ended
  BY <1>1 DEF Ended
<1> QED
  BY <1>4, <1>7, <1>8 DEF Whole

(* A line that was torn stays torn. *)
LEMMA TornStays ==
  ASSUME Typed, [ReadNext]_readVars, ~torn'
  PROVE  ~torn
<1>1. torn \in BOOLEAN
  BY DEF Typed, ReadTypeOK
<1>2. CASE BlankLine \/ RequestLine \/ Field
  BY <1>1, <1>2 DEF BlankLine, RequestLine, Field
<1>3. CASE GetByte \/ GetEnd \/ StripNewLine
  BY <1>1, <1>3 DEF GetByte, GetEnd, StripNewLine
<1>4. CASE LineRunsDry \/ NoLine \/ BodyRead \/ BodyRunsDry
  BY <1>1, <1>4 DEF LineRunsDry, NoLine, BodyRead, BodyRunsDry
<1>5. CASE Arrive \/ PeerCloses
  BY <1>1, <1>5 DEF Arrive, PeerCloses
<1>6. CASE UNCHANGED readVars
  BY <1>1, <1>6 DEF readVars
<1> QED
  BY <1>2, <1>3, <1>4, <1>5, <1>6, Steps

LEMMA WholeStep ==
  ASSUME Typed, ~torn => Whole, [ReadNext]_readVars
  PROVE  ~torn' => Whole'
<1> SUFFICES ASSUME ~torn' PROVE Whole'
  OBVIOUS
<1>1. ~torn /\ Whole
  BY TornStays
<1>2. CASE Arrive \/ PeerCloses
  BY <1>1, <1>2, WholeNetwork
<1>3. CASE GetByte
  BY <1>1, <1>3, WholeByte
<1>4. CASE GetEnd
  BY <1>1, <1>4, WholeEnd
<1>5. CASE StripNewLine
  BY <1>1, <1>5, WholeStrip
<1>6. CASE LineRunsDry
  BY <1>6 DEF LineRunsDry
<1>7. CASE NoLine
  BY <1>1, <1>7, WholeNoLine
<1>8. CASE BlankLine
  BY <1>1, <1>8, WholeBlank
<1>9. CASE RequestLine
  BY <1>1, <1>9, WholeRequest
<1>10. CASE Field
  BY <1>1, <1>10, WholeField
<1>11. CASE BodyRead
  BY <1>1, <1>11, WholeBody
<1>12. CASE BodyRunsDry
  BY <1>1, <1>12, WholeDry
<1>13. CASE UNCHANGED readVars
  <2>1. UNCHANGED <<request, stream, arrived, closed, taken, valid, pc, timeout, recvb>>
    BY <1>13 DEF readVars, netVars
  <2>2. UNCHANGED <<method, uri, version, meta, length, body, count>>
    BY <1>13 DEF readVars, parsedVars
  <2>3. Stored'
    BY <1>1, <2>1, <2>2 DEF Whole, Stored
  <2>4. Current' = Current
    BY <2>2 DEF Current
  <2>5. Placed'
    BY <1>1, <2>1, <2>2, <2>4 DEF Whole, Placed
  <2>6. Ended'
    BY <1>1, <2>1, <2>2 DEF Whole, Ended, TimedOut
  <2> QED
    BY <2>3, <2>5, <2>6 DEF Whole
<1> QED
  BY <1>2, <1>3, <1>4, <1>5, <1>6, <1>7, <1>8, <1>9, <1>10, <1>11, <1>12, <1>13, Steps

-----------------------------------------------------------------------------
LEMMA InitReadIInv == ReadInit => ReadIInv
  BY InitTyped, InitWhole DEF ReadIInv

LEMMA StepReadIInv == ReadIInv /\ [ReadNext]_readVars => ReadIInv'
<1> SUFFICES ASSUME ReadIInv, [ReadNext]_readVars PROVE ReadIInv'
  OBVIOUS
<1>1. Typed /\ (~torn => Whole)
  BY DEF ReadIInv
<1>2. Typed'
  BY <1>1, TypedStep
<1>3. ~torn' => Whole'
  BY <1>1, WholeStep
<1> QED
  BY <1>2, <1>3 DEF ReadIInv

(* What begins another sequence is a prefix of it. *)
LEMMA BeginsPrefix ==
  ASSUME NEW S, NEW s \in Seq(S), NEW T, NEW t \in Seq(T),
         Len(s) <= Len(t), \A i \in 1..Len(s) : t[i] = s[i]
  PROVE  IsPrefix(s, t)
<1> DEFINE m == Len(s)
           u == SubSeq(t, 1, m)
<1>1. m \in Nat /\ Len(t) \in Nat
  BY LenProperties
<1>2. m \in 0..Len(t)
  BY <1>1
<1>3. u \in Seq(T) /\ Len(u) = m /\ \A i \in 1..m : u[i] = t[i]
  BY <1>2, FrontOf
<1> HIDE DEF u
<1>4. s = u
  BY <1>1, <1>3, SeqEqual
<1> QED
  BY <1>4 DEF IsPrefix, u

(* The types hold for every request and for buffers, numbers of fields and *)
(* patience of any size: no more is taken from the socket than arrived, no *)
(* line outgrows the buffer, and no body is kept that is longer than what  *)
(* was announced, or than the buffer.                                      *)
THEOREM ReadTypeCorrect == ReadSpec => []ReadTypeOK
<1>1. ReadIInv => ReadTypeOK
  BY DEF ReadIInv, Typed
<1> QED
  BY <1>1, InitReadIInv, StepReadIInv, PTL DEF ReadSpec

(* Whatever the requests are and however the bytes of one trickle in: if   *)
(* every line was whole when it was taken, what a successful Read stored   *)
(* is the request line that was sent, the first of its fields and the      *)
(* first of its body.                                                      *)
THEOREM GenuineCorrect == ReadSpec => []UntornIsGenuine
<1>1. ReadIInv => UntornIsGenuine
  <2> SUFFICES ASSUME ReadIInv, pc = "done", Result, ~torn
               PROVE  /\ method = MakeUpper(request.method)
                      /\ uri = request.uri
                      /\ version = MakeUpper(request.version)
                      /\ IsPrefix(meta, [i \in DOMAIN request.fields |-> Sent(request.fields[i])])
                      /\ IsPrefix(body, request.body)
    BY DEF UntornIsGenuine
  <2> DEFINE sent == [i \in DOMAIN request.fields |-> Sent(request.fields[i])]
             T    == {sent[i] : i \in DOMAIN request.fields}
             n    == Len(request.fields)
  <2>1. Typed /\ Stored /\ method # << >>
    BY DEF ReadIInv, Whole, Result
  <2>2. /\ method = MakeUpper(request.method) /\ uri = request.uri
        /\ version = MakeUpper(request.version)
    BY <2>1 DEF Stored
  <2>3. request \in Requests
    BY <2>1, WireType
  <2>4. n \in Nat /\ DOMAIN request.fields = 1..n /\ request.body \in Seq(Bytes)
    BY <2>3, RequestType, LenProperties
  <2>5. sent \in Seq(T) /\ Len(sent) = n
    <3>1. sent \in [1..n -> T]
      BY <2>4
    <3> HIDE DEF sent, T, n
    <3> QED
      BY <2>4, <3>1, SeqDef, LenProperties
  <2>6. Len(meta) <= n /\ \A i \in 1..Len(meta) : meta[i] = Sent(request.fields[i])
    BY <2>1 DEF Stored
  <2>7. PICK S : meta \in Seq(S)
    BY <2>1 DEF Typed, Listed
  <2>8. Len(meta) \in Nat
    BY <2>7, LenProperties
  <2>9. \A i \in 1..Len(meta) : sent[i] = meta[i]
    BY <2>4, <2>6, <2>8
  <2>10. IsPrefix(meta, sent)
    <3> HIDE DEF sent, T, n
    <3> QED
      BY <2>5, <2>6, <2>7, <2>9, BeginsPrefix
  <2>11. IsPrefix(body, request.body)
    <3>1. body \in Seq(Bytes) /\ Begins(body, request.body)
      BY <2>1 DEF Typed, Stored
    <3>2. Len(body) \in Nat
      BY <3>1, LenProperties
    <3>3. Len(body) <= Len(request.body) /\ \A i \in 1..Len(body) : request.body[i] = body[i]
      <4>1. \A i \in 1..Len(body) : request.body[0 + i] = body[i] /\ 0 + i = i
        BY <3>1, <3>2 DEF Begins, Lies
      <4> QED
        BY <3>1, <4>1 DEF Begins
    <3> QED
      BY <2>4, <3>1, <3>3, BeginsPrefix
  <2> QED
    BY <2>2, <2>10, <2>11
<1> QED
  BY <1>1, InitReadIInv, StepReadIInv, PTL DEF ReadSpec

(* And it is complete, if the peer sent all it meant to and announced no   *)
(* more than that: every field is there, and as much of the body as was    *)
(* announced.                                                              *)
THEOREM CompleteCorrect == ReadSpec => []UntornIsComplete
<1>1. ReadIInv => UntornIsComplete
  <2> SUFFICES ASSUME ReadIInv, pc = "done", ~torn, ~TimedOut, Clean(request),
                      closed => arrived = Len(stream)
               PROVE  Result /\ Len(meta) = Len(request.fields) /\ Len(body) = length
    BY DEF UntornIsComplete
  <2>1. Typed /\ Stored /\ Ended
    BY DEF ReadIInv, Whole
  <2>2. request \in Requests /\ Len(stream) \in Nat
    BY <2>1, WireType
  <2>3. method # << >> /\ Len(meta) = Len(request.fields) /\ Len(body) = length
    <3>1. ~(closed /\ arrived < Len(stream))
      BY <2>2
    <3> QED
      BY <2>1, <3>1 DEF Ended
  <2>4. uri = request.uri /\ version = MakeUpper(request.version)
    BY <2>1, <2>3 DEF Stored
  <2>5. request.uri # << >> /\ request.version # << >>
    BY DEF Clean
  <2>6. version # << >>
    <3>1. request.version \in Seq(Text \ {" "})
      BY <2>2, RequestType DEF Words
    <3> QED
      BY <2>4, <2>5, <3>1, UpperLen
  <2> QED
    BY <2>3, <2>4, <2>5, <2>6 DEF Result
<1> QED
  BY <1>1, InitReadIInv, StepReadIInv, PTL DEF ReadSpec
=============================================================================
