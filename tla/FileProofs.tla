----------------------------- MODULE FileProofs -----------------------------
(* File for every set of modes, every length and any number of seconds:    *)
(* what the cached stat and IsModified tell, under every sequence of calls *)
(* and whatever other programs do to the path.                             *)
EXTENDS File, TLAPS

Streams == [on : BOOLEAN, linked : BOOLEAN, pos : Lengths, pending : Lengths]

Objects ==
  [ready : BOOLEAN, mode : Modes, valid : BOOLEAN, exists : BOOLEAN,
   kind : {"none", "file", "dir"}, size : Lengths, last : Times, known : BOOLEAN,
   local : BOOLEAN, stream : Streams]

Disks  == [at : Contents, gone : Contents]
Worlds == [file : Objects, disk : Disks, wrote : BOOLEAN]

(* A stream has the file at the path or the one that is gone from it, and  *)
(* bytes wait only in a stream for writing.                                *)
StreamOf(f, d) ==
  /\ ~f.stream.on => f.stream = NoStream /\ d.gone = Nothing
  /\ f.stream.on => /\ f.ready
                    /\ f.stream.linked <=> d.gone = Nothing
                    /\ f.stream.linked => d.at # Nothing
  /\ f.stream.pending > 0 => f.mode # [base |-> "r", update |-> FALSE]

Past == disk.at.mtime <= now /\ base.mtime <= now

(* The cache was filled before the waiting bytes go to the file.           *)
Early == file.valid /\ file.stream.pending > 0 => early

(* What the object remembers is what was at the path when it last asked.   *)
Knows ==
  ~blind => /\ file.known = (base.kind # "none")
            /\ file.known => file.last = base.mtime

(* The history of the path since, and what a stream without a file at the  *)
(* path and a change of the object's own have to do with it.               *)
Changes ==
  /\ changed = "never" => disk.at = base
  /\ changed = "later" /\ base.kind # "none" =>
       base.mtime < now /\ (disk.at.kind # "none" => base.mtime < disk.at.mtime)
  /\ ~blind /\ file.stream.on /\ ~file.stream.linked => changed # "never"
  /\ ~blind /\ file.local => changed # "never" \/ file.stream.pending > 0

IInv ==
  /\ TypeOK /\ file \in Objects /\ StreamOf(file, disk) /\ Past
  /\ OwnChangesSeen /\ Early /\ Knows /\ Changes /\ ModifiedTold

(* What a call has made of the object and the disk, w, of what they were,  *)
(* as far as the invariants can tell: the path has either not changed or   *)
(* has a file of this second or nothing, a cache that is still valid was   *)
(* so before, and waiting bytes have not vanished.                         *)
Sound(w) ==
  /\ w \in Worlds /\ StreamOf(w.file, w.disk)
  /\ w.disk.at.mtime <= now
  /\ w.file.last = file.last /\ w.file.known = file.known
  /\ w.disk.at # disk.at \/ (w.wrote /\ (file.stream.on => file.stream.linked)) =>
       w.disk.at = Nothing \/ w.disk.at.mtime = now
  /\ w.file.valid =>
       /\ file.valid
       /\ file.stream.on => w.file.stream.on
       /\ w.file.stream.pending > 0 \/ w.wrote => file.stream.pending > 0
  /\ w.file.stream.on /\ ~w.file.stream.linked => file.stream.on /\ ~file.stream.linked
  /\ file.stream.pending > 0 => w.file.stream.pending > 0 \/ w.wrote
  /\ w.file.local => file.local \/ w.file.stream.pending > 0 \/ w.wrote

-----------------------------------------------------------------------------
LEMMA MaxOfTwo ==
  ASSUME NEW a \in Int, NEW b \in Int
  PROVE  Max({a, b}) = IF a >= b THEN a ELSE b
<1>1. \E x \in {a, b} : \A y \in {a, b} : x >= y
  OBVIOUS
<1>2. Max({a, b}) \in {a, b} /\ \A y \in {a, b} : Max({a, b}) >= y
  BY <1>1 DEF Max
<1> HIDE DEF Max
<1> QED
  BY <1>2

LEMMA MinOfTwo ==
  ASSUME NEW a \in Int, NEW b \in Int
  PROVE  Min({a, b}) = IF a <= b THEN a ELSE b
<1>1. \E x \in {a, b} : \A y \in {a, b} : x <= y
  OBVIOUS
<1>2. Min({a, b}) \in {a, b} /\ \A y \in {a, b} : Min({a, b}) <= y
  BY <1>1 DEF Min
<1> HIDE DEF Min
<1> QED
  BY <1>2

LEMMA ContentTypes ==
  /\ Nothing \in Contents /\ Nothing.mtime = 0 /\ Nothing.kind = "none" /\ 0 \in Lengths /\ 0 \in Times
  /\ \A c \in Contents : /\ c.kind \in {"none", "dir", "file"}
                         /\ c.length \in Lengths /\ c.mtime \in Times
                         /\ c.kind = "none" <=> c = Nothing
  /\ NoStream \in Streams /\ ~NoStream.on /\ ~NoStream.linked /\ NoStream.pending = 0
<1>1. 0 \in Lengths /\ 0 \in Times
  BY FileAssumption DEF Lengths, Times
<1>2. Nothing \in Contents /\ Nothing.mtime = 0 /\ Nothing.kind = "none"
  BY DEF Nothing, Contents
<1>3. ASSUME NEW c \in Contents
      PROVE  /\ c.kind \in {"none", "dir", "file"}
             /\ c.length \in Lengths /\ c.mtime \in Times
             /\ c.kind = "none" <=> c = Nothing
  BY <1>1 DEF Contents, Nothing
<1>4. NoStream \in Streams /\ ~NoStream.on /\ ~NoStream.linked /\ NoStream.pending = 0
  BY <1>1 DEF NoStream, Streams
<1> QED
  BY <1>1, <1>2, <1>3, <1>4

LEMMA FileContent ==
  ASSUME NEW l \in Lengths, NEW t \in Times, NEW k \in {"file", "dir"}
  PROVE  /\ [kind |-> "file", length |-> l, mtime |-> t] \in Contents
         /\ [kind |-> "dir", length |-> 0, mtime |-> t] \in Contents
         /\ [kind |-> k, length |-> 0, mtime |-> t] \in Contents
<1>1. 0 \in Lengths
  BY ContentTypes
<1> QED
  BY <1>1 DEF Contents

(* The stream's buffer. *)
LEMMA FlushedIs ==
  ASSUME now \in Times, NEW w \in Worlds, StreamOf(w.file, w.disk)
  PROVE  /\ w.file.stream.pending = 0 => Flushed(w) = w
         /\ w.file.stream.pending # 0 =>
              \E c \in Contents :
                /\ c.mtime = now /\ c # Nothing
                /\ Flushed(w).file = [w.file EXCEPT !.stream.pending = 0]
                /\ Flushed(w).disk = IF w.file.stream.linked THEN [w.disk EXCEPT !.at = c]
                                     ELSE [w.disk EXCEPT !.gone = c]
                /\ Flushed(w).wrote = TRUE
                /\ Flushed(w) \in Worlds
<1> DEFINE s == w.file.stream
           end == IF w.file.mode.base = "a" THEN Held(w).length + s.pending
                  ELSE Max({Held(w).length, s.pos})
           c == [kind |-> "file", length |-> Min({end, MaxLength}), mtime |-> now]
<1>1. s.pos \in Lengths /\ s.pending \in Lengths /\ Held(w).length \in Lengths
  <2>1. w.disk.at \in Contents /\ w.disk.gone \in Contents /\ s \in Streams
    BY DEF Worlds, Disks, Objects
  <2>2. Held(w) \in Contents
    BY <2>1 DEF Held
  <2> QED
    BY <2>1, <2>2, ContentTypes DEF Streams
<1>2. end \in Nat
  <2>1. Held(w).length + s.pending \in Nat
    BY <1>1 DEF Lengths
  <2>2. Max({Held(w).length, s.pos}) \in Nat
    BY <1>1, MaxOfTwo DEF Lengths
  <2> QED
    BY <2>1, <2>2
<1> HIDE DEF end
<1>3. Min({end, MaxLength}) \in Lengths
  BY <1>2, MinOfTwo, FileAssumption DEF Lengths
<1>4. c \in Contents /\ c.mtime = now /\ c # Nothing
  BY <1>3, FileContent, ContentTypes DEF Nothing
<1>5. Flushed(w) = IF s.pending = 0 THEN w ELSE [WithHeld(w, c) EXCEPT !.file.stream.pending = 0]
  BY DEF Flushed, end
<1> HIDE DEF c
<1>6. ASSUME s.pending # 0
      PROVE  /\ Flushed(w).file = [w.file EXCEPT !.stream.pending = 0]
             /\ Flushed(w).disk = IF w.file.stream.linked THEN [w.disk EXCEPT !.at = c]
                                  ELSE [w.disk EXCEPT !.gone = c]
             /\ Flushed(w).wrote = TRUE
             /\ Flushed(w) \in Worlds
  <2>1. /\ WithHeld(w, c).file = w.file /\ WithHeld(w, c).wrote = TRUE
        /\ WithHeld(w, c).disk = IF w.file.stream.linked THEN [w.disk EXCEPT !.at = c]
                                 ELSE [w.disk EXCEPT !.gone = c]
        /\ WithHeld(w, c) \in Worlds
    BY <1>4 DEF WithHeld, Worlds, Disks
  <2> DEFINE v == WithHeld(w, c)
  <2>2. Flushed(w) = [v EXCEPT !.file.stream.pending = 0]
    BY <1>5, <1>6
  <2> HIDE DEF v
  <2>3. v \in Worlds
    BY <2>1 DEF v
  <2>4. /\ Flushed(w).file = [v.file EXCEPT !.stream.pending = 0]
        /\ Flushed(w).disk = v.disk /\ Flushed(w).wrote = v.wrote
        /\ Flushed(w) \in Worlds
    BY <2>2, <2>3, ContentTypes DEF Worlds, Objects, Streams
  <2> QED
    BY <2>1, <2>4 DEF v
<1> QED
  BY <1>4, <1>5, <1>6

LEMMA OpenedIs ==
  ASSUME now \in Times, NEW w \in Worlds, Opens(w), w.file.stream = NoStream, w.disk.gone = Nothing
  PROVE  /\ Opened(w) \in Worlds /\ Opened(w).disk.gone = Nothing
         /\ Opened(w).file.valid = FALSE
         /\ Opened(w).file.stream.on /\ Opened(w).file.stream.linked
         /\ Opened(w).file.stream.pending = 0
         /\ Opened(w).file.mode = w.file.mode /\ Opened(w).file.ready
         /\ Opened(w).file.last = w.file.last /\ Opened(w).file.known = w.file.known
         /\ Opened(w).file.local => w.file.local \/ Opened(w).wrote
         /\ \/ /\ Opened(w).wrote = TRUE /\ Opened(w).disk.at # Nothing
               /\ Opened(w).disk.at.mtime = now
            \/ /\ Opened(w).wrote = w.wrote /\ Opened(w).disk = w.disk
               /\ w.disk.at # Nothing
<1> DEFINE mode == w.file.mode
           anew == mode.base = "w" \/ w.disk.at = Nothing
           stream == [on |-> TRUE, linked |-> TRUE, pending |-> 0,
                      pos |-> IF mode.base = "a" /\ ~mode.update THEN w.disk.at.length ELSE 0]
           opened == [w EXCEPT !.file = [Invalidated(w.file) EXCEPT
                                     !.stream = stream, !.local = @ \/ mode.base = "w"]]
           c == [kind |-> "file", length |-> 0, mtime |-> now]
<1>1. w.file \in Objects /\ w.disk.at \in Contents /\ w.file.ready
  BY DEF Worlds, Disks, Opens
<1>2. stream \in Streams
  BY <1>1, ContentTypes DEF Streams
<1>3. c \in Contents /\ c.mtime = now /\ c # Nothing
  BY ContentTypes, FileContent DEF Nothing
<1>4. Opened(w) = IF anew THEN WithHeld(opened, c) ELSE opened
  BY DEF Opened
<1>5. stream.on /\ stream.linked /\ stream.pending = 0
  OBVIOUS
<1> HIDE DEF stream, c
<1> DEFINE f == [Invalidated(w.file) EXCEPT !.stream = stream, !.local = @ \/ mode.base = "w"]
<1>6. Invalidated(w.file) \in Objects
  BY <1>1, ContentTypes DEF Invalidated, Objects
<1>7. /\ Invalidated(w.file).valid = FALSE /\ Invalidated(w.file).mode = mode
      /\ Invalidated(w.file).ready = w.file.ready /\ Invalidated(w.file).last = w.file.last
      /\ Invalidated(w.file).known = w.file.known /\ Invalidated(w.file).local = w.file.local
  BY <1>1 DEF Invalidated, Objects
<1>8. /\ f \in Objects /\ f.valid = FALSE /\ f.stream = stream /\ f.mode = mode
      /\ f.ready = w.file.ready /\ f.last = w.file.last /\ f.known = w.file.known
      /\ f.local = (w.file.local \/ mode.base = "w")
  <2> DEFINE g == Invalidated(w.file)
  <2> HIDE DEF g
  <2>1. g \in Objects /\ f = [g EXCEPT !.stream = stream, !.local = @ \/ mode.base = "w"]
    BY <1>6 DEF g
  <2>2. /\ f \in Objects /\ f.valid = g.valid /\ f.stream = stream /\ f.mode = g.mode
        /\ f.ready = g.ready /\ f.last = g.last /\ f.known = g.known
        /\ f.local = (g.local \/ mode.base = "w")
    <3> HIDE DEF f, mode
    <3> QED
      BY <1>2, <2>1 DEF Objects
  <2> QED
    BY <1>7, <2>2 DEF g
<1>9. opened = [w EXCEPT !.file = f]
  OBVIOUS
<1> HIDE DEF f, opened
<1>10. opened \in Worlds /\ opened.file = f /\ opened.disk = w.disk /\ opened.wrote = w.wrote
  BY <1>8, <1>9 DEF Worlds
<1>11. CASE anew
  <2>1. Opened(w) = [opened EXCEPT !.wrote = TRUE, !.disk = [@ EXCEPT !.at = c]]
    BY <1>4, <1>5, <1>8, <1>10, <1>11 DEF WithHeld
  <2>2. /\ Opened(w) \in Worlds /\ Opened(w).file = f /\ Opened(w).wrote = TRUE
        /\ Opened(w).disk.at = c /\ Opened(w).disk.gone = w.disk.gone
    BY <1>3, <1>10, <2>1 DEF Worlds, Disks
  <2> QED
    BY <1>1, <1>3, <1>5, <1>8, <2>2
<1>12. CASE ~anew
  <2>1. Opened(w) = opened
    BY <1>4, <1>12
  <2> QED
    BY <1>1, <1>5, <1>8, <1>10, <1>12, <2>1
<1> QED
  BY <1>11, <1>12

(* The methods keep a world sound. *)
LEMMA FlushedSound ==
  ASSUME now \in Times, NEW w, Sound(w), file \in Objects, StreamOf(file, disk)
  PROVE  Sound(Flushed(w)) /\ Flushed(w).file.stream.on = w.file.stream.on
         /\ Flushed(w).file.stream.pending = 0 /\ Flushed(w).file.mode = w.file.mode
<1>1. w \in Worlds /\ StreamOf(w.file, w.disk)
  BY DEF Sound
<1>2. CASE w.file.stream.pending = 0
  BY <1>1, <1>2, FlushedIs
<1>3. CASE w.file.stream.pending # 0
  <2> DEFINE v == Flushed(w)
  <2>1. PICK c \in Contents :
          /\ c.mtime = now /\ c # Nothing
          /\ v.file = [w.file EXCEPT !.stream.pending = 0]
          /\ v.disk = IF w.file.stream.linked THEN [w.disk EXCEPT !.at = c]
                      ELSE [w.disk EXCEPT !.gone = c]
          /\ v.wrote = TRUE
          /\ v \in Worlds
    BY <1>1, <1>3, FlushedIs
  <2> HIDE DEF v
  <2>2. /\ v.file.stream.pending = 0 /\ v.file.stream.on = w.file.stream.on
        /\ v.file.stream.linked = w.file.stream.linked
        /\ v.file.mode = w.file.mode /\ v.file.ready = w.file.ready
        /\ v.file.valid = w.file.valid /\ v.file.last = w.file.last
        /\ v.file.known = w.file.known /\ v.file.local = w.file.local
    BY <1>1, <2>1 DEF Worlds, Objects, Streams
  <2>3. w.file.stream.on /\ w.file.stream.pending > 0
    BY <1>1, <1>3, ContentTypes DEF StreamOf, Worlds, Objects, Streams, Lengths
  <2>4. CASE w.file.stream.linked
    <3>1. v.disk.at = c /\ v.disk.gone = w.disk.gone
      BY <1>1, <2>1, <2>4 DEF Worlds, Disks
    <3>2. StreamOf(v.file, v.disk)
      BY <1>1, <2>1, <2>2, <2>3, <2>4, <3>1 DEF StreamOf
    <3>3. v.disk.at.mtime <= now
      BY <2>1, <3>1 DEF Times
    <3> QED
      BY <2>1, <2>2, <2>3, <3>1, <3>2, <3>3 DEF Sound, v
  <2>5. CASE ~w.file.stream.linked
    <3>1. v.disk.at = w.disk.at /\ v.disk.gone = c
      BY <1>1, <2>1, <2>5 DEF Worlds, Disks
    <3>2. StreamOf(v.file, v.disk)
      BY <1>1, <2>1, <2>2, <2>3, <2>5, <3>1 DEF StreamOf
    <3> QED
      BY <2>1, <2>2, <2>3, <2>5, <3>1, <3>2 DEF Sound, v
  <2> QED
    BY <2>4, <2>5
<1> QED
  BY <1>2, <1>3

LEMMA OpenedSound ==
  ASSUME now \in Times, NEW w, Sound(w)
  PROVE  /\ Sound(Opened(w)) /\ Opened(w).file.mode = w.file.mode
<1>1. w \in Worlds /\ StreamOf(w.file, w.disk)
  BY DEF Sound
<1>2. CASE ~Opens(w)
  BY <1>2 DEF Opened
<1>3. CASE Opens(w)
  <2>1. w.file.stream = NoStream /\ w.disk.gone = Nothing
    BY <1>1, <1>3 DEF Opens, StreamOf
  <2> DEFINE v == Opened(w)
  <2>2. /\ v \in Worlds /\ v.disk.gone = Nothing
        /\ v.file.valid = FALSE
        /\ v.file.stream.on /\ v.file.stream.linked
        /\ v.file.stream.pending = 0
        /\ v.file.mode = w.file.mode /\ v.file.ready
        /\ v.file.last = w.file.last /\ v.file.known = w.file.known
        /\ v.file.local => w.file.local \/ v.wrote
        /\ \/ /\ v.wrote = TRUE /\ v.disk.at # Nothing
              /\ v.disk.at.mtime = now
           \/ /\ v.wrote = w.wrote /\ v.disk = w.disk
              /\ w.disk.at # Nothing
    BY <1>1, <1>3, <2>1, OpenedIs
  <2> HIDE DEF v
  <2>3. StreamOf(v.file, v.disk)
    BY <2>2 DEF StreamOf
  <2>4. w.file.stream.pending = 0
    BY <2>1, ContentTypes
  <2>5. v.disk.at.mtime <= now
    BY <2>2 DEF Sound, Times
  <2>6. Sound(v)
    BY <2>2, <2>3, <2>4, <2>5 DEF Sound
  <2> QED
    BY <2>2, <2>6 DEF v
<1> QED
  BY <1>2, <1>3

LEMMA WorldSound == ASSUME IInv PROVE Sound(World)
<1>1. World \in Worlds /\ World.file = file /\ World.disk = disk /\ World.wrote = FALSE
  BY DEF IInv, TypeOK, World, Worlds, Disks
<1>2. file.stream.pending \in Nat
  BY DEF IInv, Objects, Streams, Lengths
<1> HIDE DEF World
<1> QED
  BY <1>1, <1>2 DEF IInv, Past, Sound

(* Where the stream stands does not matter. *)
LEMMA MovedSound ==
  ASSUME NEW w, Sound(w), w.file.stream.on, NEW p \in Lengths
  PROVE  /\ Sound([w EXCEPT !.file.stream.pos = p])
         /\ [w EXCEPT !.file.stream.pos = p].file.mode = w.file.mode
<1> DEFINE v == [w EXCEPT !.file.stream.pos = p]
<1>1. w \in Worlds
  BY DEF Sound
<1>2. v \in Worlds /\ v.disk = w.disk /\ v.wrote = w.wrote /\ v.file = [w.file EXCEPT !.stream.pos = p]
  BY <1>1 DEF Worlds, Objects, Streams
<1> HIDE DEF v
<1>3. /\ v.file.ready = w.file.ready /\ v.file.mode = w.file.mode
      /\ v.file.valid = w.file.valid /\ v.file.last = w.file.last
      /\ v.file.known = w.file.known /\ v.file.local = w.file.local
      /\ v.file.stream.on = w.file.stream.on /\ v.file.stream.linked = w.file.stream.linked
      /\ v.file.stream.pending = w.file.stream.pending
  BY <1>1, <1>2 DEF Worlds, Objects, Streams
<1>4. StreamOf(v.file, v.disk)
  BY <1>2, <1>3 DEF Sound, StreamOf
<1> QED
  BY <1>2, <1>3, <1>4 DEF Sound, v

LEMMA SoughtSound ==
  ASSUME IInv, NEW w, Sound(w), NEW position \in {0 - 1} \cup Lengths
  PROVE  Sound(Sought(w, position)) /\ Sought(w, position).file.mode = w.file.mode
<1> DEFINE opened == Opened(w)
           flushed == Flushed(opened)
<1>1. now \in Times /\ file \in Objects /\ StreamOf(file, disk)
  BY DEF IInv, TypeOK
<1>2. Sound(opened) /\ opened.file.mode = w.file.mode
  BY <1>1, OpenedSound
<1>3. Sought(w, position) = IF opened.file.stream.on /\ position >= 0
                              THEN [flushed EXCEPT !.file.stream.pos = position] ELSE opened
  BY DEF Sought
<1> HIDE DEF opened
<1>4. Sound(flushed) /\ flushed.file.stream.on = opened.file.stream.on
      /\ flushed.file.mode = opened.file.mode
  BY <1>1, <1>2, FlushedSound
<1> HIDE DEF flushed
<1>5. position >= 0 => position \in Lengths
  BY DEF Lengths
<1> QED
  BY <1>2, <1>3, <1>4, <1>5, MovedSound

LEMMA InvalidatedIs ==
  ASSUME NEW f \in Objects
  PROVE  /\ Invalidated(f) \in Objects /\ Invalidated(f).valid = FALSE
         /\ Invalidated(f).mode = f.mode /\ Invalidated(f).ready = f.ready
         /\ Invalidated(f).last = f.last /\ Invalidated(f).known = f.known
         /\ Invalidated(f).local = f.local /\ Invalidated(f).stream = f.stream
  BY ContentTypes DEF Invalidated, Objects

LEMMA ClosedSound ==
  ASSUME IInv, NEW w, Sound(w)
  PROVE  /\ Sound(Closed(w)) /\ Closed(w).file.mode = w.file.mode
         /\ ~Closed(w).file.stream.on
         /\ w.file.stream.on => Closed(w).file.valid = FALSE
<1>1. now \in Times /\ file \in Objects /\ StreamOf(file, disk)
  BY DEF IInv, TypeOK
<1>2. CASE ~w.file.stream.on
  BY <1>2 DEF Closed
<1>3. CASE w.file.stream.on
  <2> DEFINE u == Flushed(w)
             f == [Invalidated(u.file) EXCEPT !.stream = NoStream]
             v == [u EXCEPT !.file = f, !.disk.gone = Nothing]
  <2>1. Closed(w) = v
    BY <1>3 DEF Closed
  <2>2. Sound(u) /\ u.file.stream.pending = 0 /\ u.file.mode = w.file.mode
    BY <1>1, FlushedSound
  <2> HIDE DEF u
  <2>3. u \in Worlds /\ u.file \in Objects
    BY <2>2 DEF Sound, Worlds
  <2>4. /\ f \in Objects /\ f.valid = FALSE /\ f.mode = u.file.mode /\ f.last = u.file.last
        /\ f.known = u.file.known /\ f.local = u.file.local /\ f.stream = NoStream
    <3> DEFINE g == Invalidated(u.file)
    <3>1. /\ g \in Objects /\ g.valid = FALSE /\ g.mode = u.file.mode /\ g.last = u.file.last
          /\ g.known = u.file.known /\ g.local = u.file.local
      BY <2>3, InvalidatedIs
    <3>2. f = [g EXCEPT !.stream = NoStream]
      OBVIOUS
    <3> HIDE DEF f, g
    <3> QED
      BY <3>1, <3>2, ContentTypes DEF Objects
  <2> HIDE DEF f
  <2>5. /\ v \in Worlds /\ v.file = f /\ v.disk.at = u.disk.at /\ v.disk.gone = Nothing
        /\ v.wrote = u.wrote
    BY <2>3, <2>4, ContentTypes DEF Worlds, Disks
  <2> HIDE DEF v
  <2>6. StreamOf(v.file, v.disk)
    BY <2>4, <2>5, ContentTypes DEF StreamOf
  <2>7. Sound(v)
    BY <2>2, <2>4, <2>5, <2>6, ContentTypes DEF Sound
  <2> QED
    BY <2>1, <2>2, <2>4, <2>5, <2>7, ContentTypes
<1> QED
  BY <1>2, <1>3

LEMMA ReadSound ==
  ASSUME IInv, NEW w, Sound(w), NEW count \in 1..MaxLength
  PROVE  /\ Sound(ReadUpTo(w, count)) /\ ReadUpTo(w, count).file.mode = w.file.mode
<1> DEFINE opened == Opened(w)
           ready  == IF CanRead(opened.file) THEN Flushed(opened) ELSE opened
           to     == Max({ready.file.stream.pos,
                          Min({ready.file.stream.pos + count, Held(ready).length})})
<1>1. now \in Times /\ file \in Objects /\ StreamOf(file, disk)
  BY DEF IInv, TypeOK
<1>2. Sound(opened) /\ opened.file.mode = w.file.mode
  BY <1>1, OpenedSound
<1>3. ReadUpTo(w, count) = IF ~ready.file.stream.on \/ ~CanRead(ready.file) \/ Held(ready).kind = "dir"
                             THEN ready
                             ELSE [ready EXCEPT !.file.stream.pos = to]
  BY DEF ReadUpTo
<1> HIDE DEF opened
<1>4. Sound(ready) /\ ready.file.mode = opened.file.mode
  BY <1>1, <1>2, FlushedSound
<1> HIDE DEF ready
<1>5. to \in Lengths
  <2>1. ready.file.stream.pos \in Lengths /\ Held(ready) \in Contents
    BY <1>4 DEF Sound, Worlds, Objects, Streams, Disks, Held
  <2>2. Held(ready).length \in Lengths
    BY <2>1, ContentTypes
  <2> DEFINE pos == ready.file.stream.pos
             end == Held(ready).length
  <2> HIDE DEF pos, end
  <2>3. pos \in Lengths /\ end \in Lengths /\ to = Max({pos, Min({pos + count, end})})
    BY <2>1, <2>2 DEF pos, end
  <2> DEFINE last == Min({pos + count, end})
  <2>4. last \in Lengths
    BY <2>3, MinOfTwo, FileAssumption DEF Lengths
  <2>5. to = Max({pos, last})
    BY <2>3
  <2> HIDE DEF last, to
  <2>6. pos \in Int /\ last \in Int
    BY <2>3, <2>4 DEF Lengths
  <2>7. to = IF pos >= last THEN pos ELSE last
    BY <2>5, <2>6, MaxOfTwo
  <2> QED
    BY <2>3, <2>4, <2>7
<1> HIDE DEF to
<1> QED
  BY <1>2, <1>3, <1>4, <1>5, MovedSound

-----------------------------------------------------------------------------
(* A call that does not fill the cache. *)
LEMMA BecomesKeeps ==
  ASSUME IInv, NEW w, Sound(w), Becomes(w, FALSE) PROVE IInv'
<1>1. /\ file' = w.file /\ disk' = w.disk /\ UNCHANGED <<now, base, blind, early>>
      /\ changed' = (IF w.disk.at # disk.at \/ (w.wrote /\ (file.stream.on => file.stream.linked))
                       THEN ChangedNow ELSE changed)
      /\ own' = (own \/ w.wrote) /\ asked' = NotAsked
  BY DEF Becomes
<1>2. w \in Worlds /\ file' \in Objects /\ disk' \in Disks
  BY <1>1 DEF Sound, Worlds
<1>3. StreamOf(file, disk)'
  BY <1>1 DEF Sound, StreamOf
<1>4. Past'
  BY <1>1 DEF Sound, IInv, Past
<1>5. TypeOK'
  <2>1. changed' \in {"never", "within", "later"}
    BY <1>1 DEF ChangedNow, IInv, TypeOK
  <2>2. own' \in BOOLEAN
    BY <1>1, <1>2 DEF IInv, TypeOK, Worlds
  <2>3. /\ \/ file'.stream = NoStream
           \/ /\ file'.ready
              /\ file'.stream \in [on : {TRUE}, linked : BOOLEAN, pos : Lengths, pending : Lengths]
              /\ file'.stream.pending > 0 => file'.mode # [base |-> "r", update |-> FALSE]
              /\ file'.stream.linked <=> disk'.gone = Nothing
    <3>1. file'.stream \in Streams
      BY <1>2 DEF Objects
    <3>2. file'.stream.on =>
            file'.stream \in [on : {TRUE}, linked : BOOLEAN, pos : Lengths, pending : Lengths]
      BY <3>1 DEF Streams
    <3> QED
      BY <1>3, <3>2 DEF StreamOf
  <2> QED
    BY <1>1, <1>2, <2>1, <2>2, <2>3 DEF IInv, TypeOK, Objects, Disks
<1>6. OwnChangesSeen' /\ Early'
  <2>1. file.stream.pending > 0 => file.stream.on
    BY ContentTypes DEF IInv, StreamOf
  <2>2. w.file.valid =>
          /\ file.valid /\ (file.stream.on => w.file.stream.on)
          /\ w.file.stream.pending > 0 \/ w.wrote => file.stream.pending > 0
    BY DEF Sound
  <2>3. OwnChangesSeen'
    BY <1>1, <2>1, <2>2 DEF IInv, OwnChangesSeen, Early
  <2>4. Early'
    BY <1>1, <2>2 DEF IInv, Early
  <2> QED
    BY <2>3, <2>4
<1>7. Knows'
  BY <1>1 DEF IInv, Knows, Sound
<1>8. Changes'
  <2>1. ChangedNow \in {"within", "later"}
    BY DEF ChangedNow
  <2>2. changed' = "never" => disk'.at = base'
    BY <1>1, <2>1 DEF IInv, Changes
  <2>3. changed' = "later" /\ base.kind # "none" =>
          base.mtime < now /\ (w.disk.at.kind # "none" => base.mtime < w.disk.at.mtime)
    <3> SUFFICES ASSUME changed' = "later", base.kind # "none"
                 PROVE  base.mtime < now /\ (w.disk.at.kind # "none" => base.mtime < w.disk.at.mtime)
      OBVIOUS
    <3>1. base.mtime \in Nat /\ now \in Nat /\ base.mtime <= now
      BY ContentTypes DEF IInv, TypeOK, Past, Times
    <3>2. CASE changed' = changed /\ w.disk.at = disk.at
      BY <3>2 DEF IInv, Changes
    <3>3. CASE w.disk.at # disk.at \/ (w.wrote /\ (file.stream.on => file.stream.linked))
      <4>1. w.disk.at.kind # "none" => w.disk.at.mtime = now
        BY <3>3, ContentTypes DEF Sound
      <4>2. ChangedNow = "later"
        BY <1>1, <3>3
      <4>3. base.mtime < now
        BY <3>1, <4>2 DEF ChangedNow, IInv, Changes
      <4> QED
        BY <4>1, <4>3
    <3> QED
      BY <1>1, <3>2, <3>3
  <2>4. ~blind' /\ file'.stream.on /\ ~file'.stream.linked => changed' # "never"
    BY <1>1, <2>1 DEF IInv, Changes, Sound
  <2>5. ~blind' /\ file'.local => changed' # "never" \/ file'.stream.pending > 0
    <3> SUFFICES ASSUME ~blind, w.file.local, ~(w.file.stream.pending > 0)
                 PROVE  changed' # "never"
      BY <1>1
    <3>1. changed # "never" => changed' # "never"
      BY <1>1, <2>1
    <3>2. CASE w.wrote
      BY <1>1, <2>1, <3>1, <3>2 DEF IInv, Changes
    <3>3. CASE ~w.wrote
      BY <3>1, <3>3 DEF Sound, IInv, Changes
    <3> QED
      BY <3>2, <3>3
  <2> QED
    BY <1>1, <2>2, <2>3, <2>4, <2>5 DEF Changes
<1>9. ModifiedTold'
  BY <1>1 DEF ModifiedTold, NotAsked
<1> QED
  BY <1>2, <1>3, <1>4, <1>5, <1>6, <1>7, <1>8, <1>9 DEF IInv

LEMMA WriteKeeps ==
  ASSUME IInv, NEW count \in 1..MaxLength, NEW passesOn \in BOOLEAN, Write(count, passesOn)
  PROVE  IInv'
<1> DEFINE opened  == Opened(World)
           s       == opened.file.stream
           written == [opened EXCEPT !.file = [Invalidated(@) EXCEPT !.local = TRUE],
                                     !.file.stream.pos = s.pos + count,
                                     !.file.stream.pending = s.pending + count]
<1>1. now \in Times /\ file \in Objects /\ StreamOf(file, disk)
  BY DEF IInv, TypeOK
<1>2. Sound(opened)
  BY <1>1, WorldSound, OpenedSound
<1>3. CASE Becomes(opened, FALSE)
  BY <1>2, <1>3, BecomesKeeps
<1>4. CASE /\ s.on /\ CanWrite(opened.file)
           /\ Max({s.pos, s.pending}) + count <= MaxLength
           /\ Becomes(IF passesOn THEN Flushed(written) ELSE written, FALSE)
  <2> DEFINE f == [Invalidated(opened.file) EXCEPT !.local = TRUE]
             st == [s EXCEPT !.pos = s.pos + count, !.pending = s.pending + count]
  <2>1. written = [opened EXCEPT !.file = [f EXCEPT !.stream.pos = s.pos + count,
                                                    !.stream.pending = s.pending + count]]
    OBVIOUS
  <2> HIDE DEF opened
  <2>2. opened \in Worlds /\ opened.file \in Objects /\ s \in Streams
    BY <1>2 DEF Sound, Worlds, Objects
  <2>3. /\ f \in Objects /\ f.valid = FALSE /\ f.mode = opened.file.mode
        /\ f.ready = opened.file.ready /\ f.last = opened.file.last
        /\ f.known = opened.file.known /\ f.local = TRUE /\ f.stream = s
    <3> DEFINE g == Invalidated(opened.file)
    <3>1. /\ g \in Objects /\ g.valid = FALSE /\ g.mode = opened.file.mode
          /\ g.ready = opened.file.ready /\ g.last = opened.file.last
          /\ g.known = opened.file.known /\ g.stream = s
      BY <2>2, InvalidatedIs
    <3>2. f = [g EXCEPT !.local = TRUE]
      OBVIOUS
    <3> HIDE DEF f, g, s
    <3> QED
      BY <3>1, <3>2 DEF Objects
  <2>4. /\ st \in Streams /\ st.on /\ st.linked = s.linked /\ st.pending > 0
    <3>1. s.pos \in Nat /\ s.pending \in Nat /\ MaxLength \in Nat
      BY <2>2, FileAssumption DEF Streams, Lengths
    <3> DEFINE pos == s.pos
               pending == s.pending
    <3>2. pos + count \in Lengths /\ pending + count \in Lengths /\ pending + count > 0
      <4> HIDE DEF pos, pending
      <4>1. pos \in Nat /\ pending \in Nat /\ Max({pos, pending}) + count <= MaxLength
        BY <1>4, <3>1 DEF pos, pending
      <4> QED
        BY <3>1, <4>1, MaxOfTwo DEF Lengths
    <3> QED
      BY <1>4, <2>2, <3>2 DEF Streams
  <2> HIDE DEF f
  <2>5. written.file = [f EXCEPT !.stream = st] /\ written.disk = opened.disk
        /\ written.wrote = opened.wrote /\ written \in Worlds
    <3>1. [f EXCEPT !.stream.pos = s.pos + count, !.stream.pending = s.pending + count]
            = [f EXCEPT !.stream = st]
      BY <2>2, <2>3 DEF Objects, Streams
    <3>2. [f EXCEPT !.stream = st] \in Objects
      BY <2>3, <2>4 DEF Objects
    <3>3. written = [opened EXCEPT !.file = [f EXCEPT !.stream = st]]
      BY <2>1, <3>1
    <3> HIDE DEF written, st
    <3> QED
      BY <2>2, <3>2, <3>3 DEF Worlds
  <2> HIDE DEF written, st
  <2>6. /\ written.file.stream = st /\ written.file.valid = FALSE
        /\ written.file.mode = opened.file.mode /\ written.file.ready = opened.file.ready
        /\ written.file.last = opened.file.last /\ written.file.known = opened.file.known
    BY <2>3, <2>5 DEF Objects
  <2>7. StreamOf(written.file, written.disk)
    <3>1. opened.file.mode # [base |-> "r", update |-> FALSE]
      BY <1>4 DEF CanWrite
    <3> QED
      BY <1>2, <1>4, <2>4, <2>5, <2>6, <3>1 DEF Sound, StreamOf
  <2>8. Sound(written)
    BY <1>2, <1>4, <2>4, <2>5, <2>6, <2>7 DEF Sound
  <2>9. Sound(Flushed(written))
    BY <1>1, <2>8, FlushedSound
  <2> QED
    BY <1>4, <2>8, <2>9, BecomesKeeps
<1> QED
  BY <1>3, <1>4 DEF Write

LEMMA SetModeKeeps == ASSUME IInv, NEW mode \in Modes, SetMode(mode) PROVE IInv'
<1> DEFINE w == IF mode = file.mode THEN Sought(World, 0) ELSE Closed(World)
           v == [w EXCEPT !.file.mode = mode]
<1>1. Becomes(v, FALSE)
  BY DEF SetMode
<1>2. World.file = file /\ Sound(World) /\ 0 \in Lengths
  BY WorldSound, ContentTypes DEF World
<1>3. Sound(w) /\ (w.file.mode = mode \/ ~w.file.stream.on)
  BY <1>2, SoughtSound, ClosedSound
<1> HIDE DEF w
<1>4. /\ v \in Worlds /\ v.disk = w.disk /\ v.wrote = w.wrote
      /\ v.file = [w.file EXCEPT !.mode = mode]
  BY <1>3 DEF Sound, Worlds, Objects
<1> HIDE DEF v
<1>5. /\ v.file.ready = w.file.ready /\ v.file.mode = mode /\ v.file.valid = w.file.valid
      /\ v.file.last = w.file.last /\ v.file.known = w.file.known
      /\ v.file.local = w.file.local /\ v.file.stream = w.file.stream
  BY <1>3, <1>4 DEF Sound, Worlds, Objects
<1>6. StreamOf(v.file, v.disk)
  <2>1. StreamOf(w.file, w.disk)
    BY <1>3 DEF Sound
  <2>2. CASE w.file.mode = mode
    BY <1>4, <1>5, <2>1, <2>2 DEF StreamOf
  <2>3. CASE ~w.file.stream.on
    <3>1. w.file.stream = NoStream /\ ~(NoStream.pending > 0) /\ ~NoStream.on
      BY <2>1, <2>3, ContentTypes DEF StreamOf
    <3> QED
      BY <1>4, <1>5, <2>1, <3>1 DEF StreamOf
  <2> QED
    BY <1>3, <2>2, <2>3
<1>7. Sound(v)
  BY <1>3, <1>4, <1>5, <1>6 DEF Sound
<1> QED
  BY <1>1, <1>7, BecomesKeeps

LEMMA DeleteKeeps == ASSUME IInv, Delete PROVE IInv'
<1> DEFINE closed  == Closed(World)
           f       == [Invalidated(closed.file) EXCEPT !.ready = FALSE, !.local = TRUE]
           removed == [closed EXCEPT !.file = f, !.disk.at = Nothing, !.wrote = TRUE]
<1>1. Becomes(IF file.stream.on /\ disk.at # Nothing THEN removed ELSE closed, FALSE)
  BY DEF Delete
<1>2. Sound(World) /\ World.file = file
  BY WorldSound DEF World
<1>3. Sound(closed) /\ ~closed.file.stream.on
  BY <1>2, ClosedSound
<1> HIDE DEF closed
<1>4. closed \in Worlds /\ closed.file \in Objects /\ StreamOf(closed.file, closed.disk)
  BY <1>3 DEF Sound, Worlds
<1>5. /\ f \in Objects /\ f.valid = FALSE /\ f.mode = closed.file.mode
      /\ f.last = closed.file.last /\ f.known = closed.file.known
      /\ f.stream = closed.file.stream
  <2> DEFINE g == Invalidated(closed.file)
  <2>1. /\ g \in Objects /\ g.valid = FALSE /\ g.mode = closed.file.mode
        /\ g.last = closed.file.last /\ g.known = closed.file.known
        /\ g.stream = closed.file.stream
    BY <1>4, InvalidatedIs
  <2>2. f = [g EXCEPT !.ready = FALSE, !.local = TRUE]
    OBVIOUS
  <2> HIDE DEF f, g
  <2> QED
    BY <2>1, <2>2 DEF Objects
<1> HIDE DEF f
<1>6. /\ removed \in Worlds /\ removed.file = f /\ removed.wrote = TRUE
      /\ removed.disk.at = Nothing /\ removed.disk.gone = closed.disk.gone
  BY <1>4, <1>5, ContentTypes DEF Worlds, Disks
<1> HIDE DEF removed
<1>7. StreamOf(removed.file, removed.disk)
  BY <1>3, <1>4, <1>5, <1>6 DEF StreamOf
<1>8. removed.disk.at.mtime <= now
  BY <1>6, ContentTypes DEF IInv, TypeOK, Times
<1>9. Sound(removed)
  BY <1>3, <1>5, <1>6, <1>7, <1>8 DEF Sound
<1> QED
  BY <1>1, <1>3, <1>9, BecomesKeeps

LEMMA PeekKeeps == ASSUME IInv, NEW count \in 1..MaxLength, Peek(count) PROVE IInv'
<1> DEFINE opened == Opened(World)
           read   == ReadUpTo(opened, count)
           pos    == opened.file.stream.pos
<1>1. Becomes(IF read.file.stream.pos = pos THEN read ELSE Sought(read, pos), FALSE)
  BY DEF Peek
<1>2. now \in Times
  BY DEF IInv, TypeOK
<1>3. Sound(opened)
  BY <1>2, WorldSound, OpenedSound
<1> HIDE DEF opened
<1>4. Sound(read) /\ pos \in Lengths
  BY <1>3, ReadSound DEF Sound, Worlds, Objects, Streams
<1> HIDE DEF read, pos
<1>5. Sound(Sought(read, pos))
  BY <1>4, SoughtSound
<1> QED
  BY <1>1, <1>4, <1>5, BecomesKeeps

-----------------------------------------------------------------------------
(* Filling the cache. *)
LEMMA Comparison == \A a : (a > 0) \in BOOLEAN
  OBVIOUS

LEMMA RefreshedIs ==
  ASSUME IInv, NEW force \in BOOLEAN
  PROVE  /\ RefreshStatCache(World, force).disk = disk
         /\ RefreshStatCache(World, force).wrote = FALSE
         /\ RefreshStatCache(World, force).file \in Objects
         /\ RefreshStatCache(World, force).file.ready = file.ready
         /\ RefreshStatCache(World, force).file.mode = file.mode
         /\ RefreshStatCache(World, force).file.last = file.last
         /\ RefreshStatCache(World, force).file.known = file.known
         /\ RefreshStatCache(World, force).file.local = file.local
         /\ RefreshStatCache(World, force).file.stream = file.stream
         /\ ~force /\ file.valid => RefreshStatCache(World, force).file = file
<1> DEFINE st == Looked(World)
           w  == World
<1>1. w \in Worlds /\ w.file = file /\ w.disk = disk /\ w.wrote = FALSE
  BY DEF IInv, TypeOK, World, Worlds, Disks
<1>2. st \in Contents
  BY <1>1 DEF Looked, Held, Worlds, Disks
<1>3. st.length \in Lengths /\ st.kind \in {"none", "file", "dir"}
  BY <1>2, ContentTypes
<1>4. RefreshStatCache(World, force) =
        IF ~force /\ w.file.valid THEN w
        ELSE [w EXCEPT !.file.valid = TRUE, !.file.exists = st.kind # "none",
                       !.file.kind = st.kind, !.file.size = st.length]
  BY DEF RefreshStatCache
<1> HIDE DEF w, st
<1>5. CASE ~force /\ w.file.valid
  BY <1>1, <1>4, <1>5 DEF Worlds
<1>6. CASE ~(~force /\ w.file.valid)
  <2> DEFINE f == [w.file EXCEPT !.valid = TRUE, !.exists = st.kind # "none",
                                 !.kind = st.kind, !.size = st.length]
  <2>1. w.file \in Objects
    BY <1>1 DEF Worlds
  <2>2. /\ f \in Objects /\ f.ready = w.file.ready /\ f.mode = w.file.mode
        /\ f.last = w.file.last /\ f.known = w.file.known /\ f.local = w.file.local
        /\ f.stream = w.file.stream
    BY <1>3, <2>1 DEF Objects
  <2>3. [w EXCEPT !.file.valid = TRUE, !.file.exists = st.kind # "none",
                  !.file.kind = st.kind, !.file.size = st.length] = [w EXCEPT !.file = f]
    BY <1>1 DEF Worlds
  <2> HIDE DEF f
  <2>4. RefreshStatCache(World, force) = [w EXCEPT !.file = f]
    BY <1>4, <1>6, <2>3
  <2> DEFINE v == [w EXCEPT !.file = f]
  <2>5. v.file = f /\ v.disk = w.disk /\ v.wrote = w.wrote
    BY <1>1 DEF Worlds
  <2> HIDE DEF v
  <2> QED
    BY <1>1, <1>6, <2>2, <2>4, <2>5 DEF v
<1> QED
  BY <1>5, <1>6

(* The parts of the invariant that a look at the disk leaves as they are. *)
LEMMA LookKeeps ==
  ASSUME IInv, file' \in Objects, UNCHANGED <<disk, now>>,
         file'.ready = file.ready, file'.mode = file.mode, file'.stream = file.stream,
         changed' \in {"never", "within", "later"}, base' \in Contents,
         blind' \in BOOLEAN, own' \in BOOLEAN, early' \in BOOLEAN
  PROVE  TypeOK' /\ StreamOf(file, disk)'
<1>1. StreamOf(file, disk)'
  BY DEF IInv, StreamOf
<1>2. TypeOK'
  BY DEF IInv, TypeOK, Objects
<1> QED
  BY <1>1, <1>2

LEMMA FillKeeps ==
  ASSUME IInv, NEW force \in BOOLEAN,
         Becomes(RefreshStatCache(World, force), force \/ ~file.valid)
  PROVE  IInv'
<1> DEFINE w == RefreshStatCache(World, force)
<1>1. /\ w.disk = disk /\ w.wrote = FALSE /\ w.file \in Objects
      /\ w.file.ready = file.ready /\ w.file.mode = file.mode
      /\ w.file.last = file.last /\ w.file.known = file.known
      /\ w.file.local = file.local /\ w.file.stream = file.stream
      /\ ~force /\ file.valid => w.file = file
  BY RefreshedIs
<1>2. /\ file' = w.file /\ disk' = w.disk /\ UNCHANGED <<now, base, blind>>
      /\ changed' = (IF w.disk.at # disk.at \/ (w.wrote /\ (file.stream.on => file.stream.linked))
                       THEN ChangedNow ELSE changed)
      /\ own' = ((own /\ ~(force \/ ~file.valid)) \/ w.wrote) /\ asked' = NotAsked
      /\ early' = (IF force \/ ~file.valid THEN w.file.stream.pending > 0 ELSE early)
  BY DEF Becomes
<1> HIDE DEF w
<1>3. /\ UNCHANGED <<disk, changed>> /\ asked' = NotAsked
      /\ own' = (own /\ ~(force \/ ~file.valid))
      /\ early' = (IF force \/ ~file.valid THEN file.stream.pending > 0 ELSE early)
  BY <1>1, <1>2
<1>4. TypeOK' /\ StreamOf(file, disk)'
  <2>1. own' \in BOOLEAN /\ early' \in BOOLEAN
    <3>1. own' \in BOOLEAN
      BY <1>3
    <3>2. CASE force \/ ~file.valid
      <4>1. early' = (file.stream.pending > 0)
        BY <1>3, <3>2
      <4> QED
        BY <3>1, <4>1, Comparison
    <3>3. CASE ~(force \/ ~file.valid)
      BY <1>3, <3>1, <3>3 DEF IInv, TypeOK
    <3> QED
      BY <3>2, <3>3
  <2>2. changed' \in {"never", "within", "later"} /\ base' \in Contents /\ blind' \in BOOLEAN
    BY <1>2, <1>3 DEF IInv, TypeOK
  <2> QED
    BY <1>1, <1>2, <1>3, <2>1, <2>2, LookKeeps
<1>5. Past' /\ Knows' /\ Changes'
  BY <1>1, <1>2, <1>3 DEF IInv, Past, Knows, Changes
<1>6. OwnChangesSeen' /\ Early'
  BY <1>1, <1>2, <1>3 DEF IInv, OwnChangesSeen, Early
<1>7. ModifiedTold'
  BY <1>3 DEF ModifiedTold, NotAsked
<1> QED
  BY <1>1, <1>2, <1>4, <1>5, <1>6, <1>7 DEF IInv

LEMMA IsModifiedKeeps == ASSUME IInv, IsModified PROVE IInv'
<1> DEFINE w  == RefreshStatCache(World, TRUE)
           st == Looked(World)
           elsewhere == file.stream.on /\ (~file.stream.linked \/ file.stream.pending > 0)
           told == SaysModified(file, st)
<1>1. /\ w.disk = disk /\ w.file \in Objects
      /\ w.file.ready = file.ready /\ w.file.mode = file.mode
      /\ w.file.stream = file.stream
  BY RefreshedIs
<1>2. /\ file' = [Remembered(w.file, st) EXCEPT !.local = FALSE]
      /\ asked' = [is |-> TRUE, told |-> told, changed |-> changed,
                   absent |-> base = Nothing /\ disk.at = Nothing,
                   blind |-> blind \/ elsewhere]
      /\ changed' = "never" /\ base' = disk.at /\ blind' = elsewhere
      /\ own' = FALSE /\ early' = (file.stream.pending > 0)
      /\ UNCHANGED <<disk, now>>
  BY DEF IsModified
<1>3. st \in Contents /\ (~elsewhere => st = disk.at)
  <2>1. World.file = file /\ World.disk = disk
    BY DEF World
  <2> QED
    BY <2>1 DEF Looked, Held, IInv, TypeOK
<1>4. elsewhere \in BOOLEAN /\ told \in BOOLEAN
  BY DEF IInv, Objects, Streams, SaysModified
<1> HIDE DEF w, st, elsewhere
<1>5. /\ file' \in Objects /\ file'.ready = file.ready /\ file'.mode = file.mode
      /\ file'.stream = file.stream /\ file'.local = FALSE
      /\ file'.last = st.mtime /\ file'.known = (st.kind # "none")
  <2>1. st.mtime \in Times
    BY <1>3, ContentTypes
  <2>2. file' = [[w.file EXCEPT !.last = st.mtime, !.known = st.kind # "none"] EXCEPT !.local = FALSE]
    BY <1>2 DEF Remembered
  <2> QED
    BY <1>1, <2>1, <2>2 DEF Objects
<1>6. TypeOK' /\ StreamOf(file, disk)'
  <2>1. base' \in Contents
    BY <1>2 DEF IInv, TypeOK
  <2>2. blind' \in BOOLEAN /\ own' \in BOOLEAN /\ early' \in BOOLEAN
    BY <1>2, <1>4, Comparison
  <2>3. changed' \in {"never", "within", "later"} /\ UNCHANGED <<disk, now>>
    BY <1>2
  <2> QED
    BY <1>5, <2>1, <2>2, <2>3, LookKeeps
<1>7. Past' /\ OwnChangesSeen' /\ Early'
  BY <1>2, <1>5 DEF IInv, Past, OwnChangesSeen, Early
<1>8. Knows'
  BY <1>2, <1>3, <1>5 DEF Knows
<1>9. Changes'
  BY <1>2, <1>5 DEF Changes, elsewhere
<1>10. ModifiedTold'
  <2> SUFFICES ASSUME ~blind, ~elsewhere
               PROVE  IF told THEN changed # "never"
                      ELSE changed # "later" \/ (base = Nothing /\ disk.at = Nothing)
    BY <1>2, <1>4 DEF ModifiedTold
  <2>1. st = disk.at /\ disk.at \in Contents /\ base \in Contents
    BY <1>3 DEF IInv, TypeOK
  <2>2. /\ file.known = (base.kind # "none") /\ (file.known => file.last = base.mtime)
        /\ file.known \in BOOLEAN
    BY DEF IInv, Knows, Objects
  <2>3. file.local => changed # "never"
    BY ContentTypes DEF IInv, Changes, elsewhere, StreamOf
  <2>4. CASE told
    <3>1. CASE file.local
      BY <2>3, <2>4, <3>1
    <3>2. CASE base.kind # disk.at.kind \/ base.mtime # disk.at.mtime
      BY <2>4, <3>2 DEF IInv, Changes
    <3>3. ~file.local => base.kind # disk.at.kind \/ base.mtime # disk.at.mtime
      BY <2>1, <2>2, <2>4 DEF SaysModified
    <3> QED
      BY <3>1, <3>2, <3>3
  <2>5. CASE ~told
    <3> SUFFICES ASSUME changed = "later" PROVE base = Nothing /\ disk.at = Nothing
      BY <2>5
    <3>1. file.known = (disk.at.kind # "none") /\ ~(file.known /\ file.last # disk.at.mtime)
      BY <2>1, <2>2, <2>5 DEF SaysModified
    <3>2. CASE file.known
      <4>1. /\ base.kind # "none" /\ disk.at.kind # "none" /\ base.mtime = disk.at.mtime
            /\ base.mtime < disk.at.mtime /\ base.mtime \in Nat
        <5>1. base.kind # "none" /\ disk.at.kind # "none" /\ file.last = disk.at.mtime
              /\ file.last = base.mtime
          BY <2>2, <3>1, <3>2
        <5>2. base.mtime < disk.at.mtime
          BY <5>1 DEF IInv, Changes
        <5>3. base.mtime \in Nat
          BY <2>1, ContentTypes DEF Times
        <5> QED
          BY <5>1, <5>2, <5>3
      <4> QED
        BY <4>1
    <3>3. CASE ~file.known
      BY <2>1, <2>2, <3>1, <3>3, ContentTypes
    <3> QED
      BY <2>2, <3>2, <3>3
  <2> HIDE DEF told
  <2> QED
    BY <1>4, <2>4, <2>5
<1> QED
  BY <1>5, <1>6, <1>7, <1>8, <1>9, <1>10 DEF IInv

-----------------------------------------------------------------------------
(* Other programs. *)
LEMMA PathKeeps ==
  ASSUME IInv, NEW there \in Contents, NEW unlinks \in BOOLEAN,
         there = Nothing \/ there.mtime = now, ~unlinks => there # Nothing,
         PathBecomes(there, unlinks)
  PROVE  IInv'
<1>1. /\ disk' = [at |-> there,
                  gone |-> IF unlinks /\ file.stream.linked THEN disk.at ELSE disk.gone]
      /\ file' = (IF unlinks THEN [file EXCEPT !.stream.linked = FALSE] ELSE file)
      /\ changed' = ChangedNow /\ asked' = NotAsked
      /\ UNCHANGED <<now, base, blind, own, early>>
  BY DEF PathBecomes
<1>2. file \in Objects /\ disk.at \in Contents /\ disk.gone \in Contents /\ StreamOf(file, disk)
  BY DEF IInv, TypeOK
<1>3. /\ file' \in Objects /\ file'.ready = file.ready /\ file'.mode = file.mode
      /\ file'.valid = file.valid /\ file'.last = file.last /\ file'.known = file.known
      /\ file'.local = file.local
      /\ file'.stream.on = file.stream.on /\ file'.stream.pending = file.stream.pending
      /\ file'.stream.linked = (file.stream.linked /\ ~unlinks)
      /\ file.stream = NoStream => file'.stream = NoStream
  <2>1. CASE unlinks
    <3> DEFINE s == [file.stream EXCEPT !.linked = FALSE]
    <3>1. file.stream \in Streams
      BY <1>2 DEF Objects
    <3>2. /\ s \in Streams /\ s.on = file.stream.on /\ s.pending = file.stream.pending
          /\ s.linked = FALSE /\ (file.stream = NoStream => s = NoStream)
      <4>1. [NoStream EXCEPT !.linked = FALSE] = NoStream
        <5> DEFINE n == [NoStream EXCEPT !.linked = FALSE]
        <5>1. /\ n \in Streams /\ NoStream \in Streams
              /\ n.on = NoStream.on /\ n.linked = NoStream.linked
              /\ n.pos = NoStream.pos /\ n.pending = NoStream.pending
          BY ContentTypes DEF Streams, NoStream
        <5> HIDE DEF n
        <5>2. n = NoStream
          BY <5>1 DEF Streams
        <5> QED
          BY <5>2 DEF n
      <4>2. /\ s \in Streams /\ s.on = file.stream.on /\ s.pending = file.stream.pending
            /\ s.linked = FALSE
        BY <3>1 DEF Streams
      <4> QED
        BY <4>1, <4>2
    <3>3. file' = [file EXCEPT !.stream = s]
      BY <1>1, <2>1
    <3> HIDE DEF s
    <3>4. /\ file' \in Objects /\ file'.stream = s /\ file'.ready = file.ready
          /\ file'.mode = file.mode /\ file'.valid = file.valid /\ file'.last = file.last
          /\ file'.known = file.known /\ file'.local = file.local
      BY <1>2, <3>2, <3>3 DEF Objects
    <3> QED
      BY <2>1, <3>2, <3>4
  <2>2. CASE ~unlinks
    BY <1>1, <1>2, <2>2 DEF Objects, Streams
  <2> QED
    BY <2>1, <2>2
<1>4. disk'.at = there /\ disk' \in Disks
      /\ disk'.gone = (IF unlinks /\ file.stream.linked THEN disk.at ELSE disk.gone)
  BY <1>1, <1>2 DEF Disks
<1>5. StreamOf(file, disk)'
  <2>1. ~file.stream.on => file.stream = NoStream /\ ~file.stream.linked
    BY <1>2, ContentTypes DEF StreamOf
  <2> QED
    BY <1>2, <1>3, <1>4, <2>1 DEF StreamOf
<1>6. ChangedNow \in {"within", "later"}
  BY DEF ChangedNow
<1>7. TypeOK'
  <2>1. file'.stream.on =>
          file'.stream \in [on : {TRUE}, linked : BOOLEAN, pos : Lengths, pending : Lengths]
    BY <1>3 DEF Objects, Streams
  <2>2. /\ \/ file'.stream = NoStream
           \/ /\ file'.ready
              /\ file'.stream \in [on : {TRUE}, linked : BOOLEAN, pos : Lengths, pending : Lengths]
              /\ file'.stream.pending > 0 => file'.mode # [base |-> "r", update |-> FALSE]
              /\ file'.stream.linked <=> disk'.gone = Nothing
    BY <1>5, <2>1 DEF StreamOf
  <2> QED
    BY <1>1, <1>3, <1>4, <1>6, <2>2 DEF IInv, TypeOK, Objects, Disks
<1>8. Past' /\ OwnChangesSeen' /\ Early' /\ Knows'
  <2>1. there.mtime <= now
    BY ContentTypes DEF IInv, TypeOK, Times
  <2> QED
    BY <1>1, <1>3, <1>4, <2>1 DEF IInv, Past, OwnChangesSeen, Early, Knows
<1>9. Changes'
  <2>1. ASSUME ChangedNow = "later", base.kind # "none"
        PROVE  base.mtime < now /\ (there.kind # "none" => base.mtime < there.mtime)
    <3>1. base.mtime \in Nat /\ now \in Nat /\ base.mtime <= now
      BY ContentTypes DEF IInv, TypeOK, Past, Times
    <3>2. base.mtime < now
      BY <2>1, <3>1 DEF ChangedNow, IInv, Changes
    <3> QED
      BY <3>2, ContentTypes
  <2> QED
    BY <1>1, <1>4, <1>6, <2>1 DEF Changes
<1>10. ModifiedTold'
  BY <1>1 DEF ModifiedTold, NotAsked
<1> QED
  BY <1>3, <1>5, <1>7, <1>8, <1>9, <1>10 DEF IInv

LEMMA EditKeeps == ASSUME IInv, Edit PROVE IInv'
<1>1. PICK length \in Lengths : PathBecomes([kind |-> "file", length |-> length, mtime |-> now], FALSE)
  BY DEF Edit
<1> DEFINE c == [kind |-> "file", length |-> length, mtime |-> now]
<1>2. c \in Contents /\ c.mtime = now /\ c # Nothing
  BY FileContent DEF IInv, TypeOK, Nothing
<1> HIDE DEF c
<1>3. PathBecomes(c, FALSE)
  BY <1>1 DEF c
<1> QED
  BY <1>2, <1>3, PathKeeps

LEMMA ReplaceKeeps == ASSUME IInv, Replace PROVE IInv'
<1>1. PICK kind \in {"file", "dir"} :
        PathBecomes([kind |-> kind, length |-> 0, mtime |-> now], TRUE)
  BY DEF Replace
<1> DEFINE c == [kind |-> kind, length |-> 0, mtime |-> now]
<1>2. c \in Contents /\ c.mtime = now
  BY FileContent, ContentTypes DEF IInv, TypeOK
<1> HIDE DEF c
<1>3. PathBecomes(c, TRUE)
  BY <1>1 DEF c
<1> QED
  BY <1>2, <1>3, PathKeeps

LEMMA TickKeeps == ASSUME IInv, Tick PROVE IInv'
<1>1. /\ UNCHANGED <<file, disk, changed, base, blind, own, early>> /\ asked' = NotAsked
      /\ now' = now + 1 /\ now' \in Times /\ now \in Nat
  BY FileAssumption DEF Tick, IInv, TypeOK, Times
<1>2. disk.at.mtime \in Nat /\ base.mtime \in Nat
  BY ContentTypes DEF IInv, TypeOK, Times
<1>3. Past' /\ Changes'
  BY <1>1, <1>2 DEF IInv, Past, Changes
<1>4. TypeOK' /\ StreamOf(file, disk)' /\ OwnChangesSeen' /\ Early' /\ Knows'
  <2>1. TypeOK'
    BY <1>1 DEF IInv, TypeOK
  <2>2. StreamOf(file, disk)'
    BY <1>1 DEF IInv, StreamOf
  <2>3. OwnChangesSeen' /\ Early' /\ Knows'
    BY <1>1 DEF IInv, OwnChangesSeen, Early, Knows
  <2> QED
    BY <2>1, <2>2, <2>3
<1>5. ModifiedTold'
  BY <1>1 DEF ModifiedTold, NotAsked
<1> QED
  BY <1>1, <1>3, <1>4, <1>5 DEF IInv

-----------------------------------------------------------------------------
LEMMA InitIInv == Init => IInv
<1> SUFFICES ASSUME Init PROVE IInv
  OBVIOUS
<1>1. PICK there \in Contents, mode \in Modes :
        /\ there.mtime = 0 /\ disk = [at |-> there, gone |-> Nothing]
        /\ file = [ready |-> there.kind = "file", mode |-> mode, valid |-> TRUE,
                   exists |-> there.kind # "none", kind |-> there.kind, size |-> there.length,
                   last |-> 0, known |-> there.kind # "none", local |-> FALSE,
                   stream |-> NoStream]
        /\ now = 0 /\ changed = "never" /\ base = there /\ blind = FALSE
        /\ asked = NotAsked /\ own = FALSE /\ early = FALSE
  BY DEF Init
<1>2. file \in Objects /\ file.stream = NoStream /\ file.local = FALSE
      /\ file.known = (there.kind # "none") /\ file.last = 0
  BY <1>1, ContentTypes DEF Objects
<1>3. TypeOK
  BY <1>1, <1>2, ContentTypes DEF TypeOK, Objects
<1>4. StreamOf(file, disk)
  BY <1>1, <1>2, ContentTypes DEF StreamOf
<1>5. Past /\ OwnChangesSeen /\ Early /\ Knows /\ Changes /\ ModifiedTold
  BY <1>1, <1>2, ContentTypes DEF Past, OwnChangesSeen, Early, Knows, Changes, ModifiedTold,
     NotAsked
<1> QED
  BY <1>2, <1>3, <1>4, <1>5 DEF IInv

LEMMA StepIInv == IInv /\ [Next]_vars => IInv'
<1> SUFFICES ASSUME IInv, [Next]_vars PROVE IInv'
  OBVIOUS
<1>1. CASE Query
  BY <1>1, FillKeeps DEF Query
<1>2. CASE ModificationTime
  BY <1>2, FillKeeps DEF ModificationTime
<1>3. CASE IsModified
  BY <1>3, IsModifiedKeeps
<1>4. CASE Position
  <2>1. Sound(Opened(World))
    BY WorldSound, OpenedSound DEF IInv, TypeOK
  <2> QED
    BY <1>4, <2>1, BecomesKeeps DEF Position
<1>5. ASSUME NEW position \in {0 - 1} \cup Lengths, Seek(position) PROVE IInv'
  BY <1>5, WorldSound, SoughtSound, BecomesKeeps DEF Seek
<1>6. ASSUME NEW count \in 1..MaxLength, Read(count) PROVE IInv'
  BY <1>6, WorldSound, ReadSound, BecomesKeeps DEF Read
<1>7. ASSUME NEW count \in 1..MaxLength, Peek(count) PROVE IInv'
  BY <1>7, PeekKeeps
<1>8. ASSUME NEW count \in 1..MaxLength, NEW passesOn \in BOOLEAN, Write(count, passesOn)
      PROVE  IInv'
  BY <1>8, WriteKeeps
<1>9. CASE Close
  BY <1>9, WorldSound, ClosedSound, BecomesKeeps DEF Close
<1>10. CASE Delete
  BY <1>10, DeleteKeeps
<1>11. ASSUME NEW mode \in Modes, SetMode(mode) PROVE IInv'
  BY <1>11, SetModeKeeps
<1>12. CASE Edit
  BY <1>12, EditKeeps
<1>13. CASE Replace
  BY <1>13, ReplaceKeeps
<1>14. CASE Remove
  BY <1>14, PathKeeps, ContentTypes DEF Remove
<1>15. CASE Tick
  BY <1>15, TickKeeps
<1>16. CASE UNCHANGED vars
  <2>1. UNCHANGED <<file, disk, now, changed, base, blind, asked, own, early>>
    BY <1>16 DEF vars
  <2>2. TypeOK' /\ file' \in Objects
    BY <2>1 DEF IInv, TypeOK
  <2>3. StreamOf(file, disk)'
    BY <2>1 DEF IInv, StreamOf
  <2>4. Past' /\ OwnChangesSeen' /\ Early' /\ Knows' /\ Changes' /\ ModifiedTold'
    BY <2>1 DEF IInv, Past, OwnChangesSeen, Early, Knows, Changes, ModifiedTold
  <2> QED
    BY <2>2, <2>3, <2>4 DEF IInv
<1> QED
  BY <1>1, <1>2, <1>3, <1>4, <1>5, <1>6, <1>7, <1>8, <1>9, <1>10, <1>11, <1>12, <1>13, <1>14,
     <1>15, <1>16 DEF Next

(* The object's members keep their types and its stream its file, for      *)
(* every set of modes, every length and any number of seconds.             *)
THEOREM TypeCorrect == Spec => []TypeOK
<1>1. IInv => TypeOK
  BY DEF IInv
<1> QED
  BY <1>1, InitIInv, StepIInv, PTL DEF Spec

(* IsModified neither misses a change of the path nor invents one, but for *)
(* the second it compares by, under every sequence of calls and whatever   *)
(* other programs do to the path.                                          *)
THEOREM ModifiedCorrect == Spec => []ModifiedTold
<1>1. IInv => ModifiedTold
  BY DEF IInv
<1> QED
  BY <1>1, InitIInv, StepIInv, PTL DEF Spec

(* The cached stat is older than a change of the object's own only while   *)
(* the stream is open that the bytes waited in when the cache was filled.  *)
THEOREM CacheCorrect == Spec => []OwnChangesSeen
<1>1. IInv => OwnChangesSeen
  BY DEF IInv
<1> QED
  BY <1>1, InitIInv, StepIInv, PTL DEF Spec
=============================================================================
