-------------------------------- MODULE File --------------------------------
(***************************************************************************)
(* One utils::File (code/utils/File.cpp, include/utils/File.hpp) under     *)
(* every sequence of calls, while other programs write to, replace and     *)
(* remove what is at its path. A file is its kind, its length and the      *)
(* second it was last changed in; an open stream stays with the file it    *)
(* opened when the path gets another. Every method holds the object's lock *)
(* and is one step; what it does is a function of the object and the disk. *)
(***************************************************************************)
EXTENDS Integers, FiniteSetsExt

CONSTANTS Modes,      \* the modes asked for: records [base, update]
          MaxLength,  \* bound on the length of a file
          MaxTime     \* bound on the clock, in seconds

ASSUME FileAssumption ==
  /\ Modes \subseteq [base : {"r", "w", "a"}, update : BOOLEAN]
  /\ MaxLength \in Nat /\ MaxTime \in Nat

VARIABLES
  file,     \* the members of the object, its stream included
  disk,     \* at: what is at the path; gone: the stream's file, once unlinked
  now,      \* the clock, in seconds
  changed,  \* (history) since IsModified was last asked, the path changed:
            \*   "never", "within" the second of the version then, or "later"
  base,     \* (history) what was at the path then
  blind,    \* (history) it looked at another file then, or at unwritten bytes
  asked,    \* (history) the last answer of IsModified, and what it was about
  own,      \* (history) the object changed a file since it filled its cache
  early     \* (history) bytes waited in the stream when it did

vars == <<file, disk, now, changed, base, blind, asked, own, early>>

Times   == 0..MaxTime
Lengths == 0..MaxLength

Nothing  == [kind |-> "none", length |-> 0, mtime |-> 0]
Contents == {Nothing} \cup [kind : {"dir"}, length : {0}, mtime : Times]
                      \cup [kind : {"file"}, length : Lengths, mtime : Times]
NoStream == [on |-> FALSE, linked |-> FALSE, pos |-> 0, pending |-> 0]
NotAsked == [is |-> FALSE, told |-> FALSE, changed |-> "never", absent |-> FALSE, blind |-> FALSE]

TypeOK ==
  /\ file.ready \in BOOLEAN /\ file.mode \in Modes
  /\ file.valid \in BOOLEAN /\ file.exists \in BOOLEAN
  /\ file.kind \in {"none", "file", "dir"} /\ file.size \in Lengths
  /\ file.last \in Times /\ file.known \in BOOLEAN /\ file.local \in BOOLEAN
  /\ \/ file.stream = NoStream
     \/ /\ file.ready
        /\ file.stream \in [on : {TRUE}, linked : BOOLEAN, pos : Lengths, pending : Lengths]
        /\ file.stream.pending > 0 => file.mode # [base |-> "r", update |-> FALSE]
        /\ file.stream.linked <=> disk.gone = Nothing
  /\ disk \in [at : Contents, gone : Contents]
  /\ now \in Times /\ changed \in {"never", "within", "later"} /\ base \in Contents
  /\ {blind, own, early} \subseteq BOOLEAN

-----------------------------------------------------------------------------
(* A call works on the object and the disk, and notes whether it changed   *)
(* the stream's file or the path.                                          *)
World == [file |-> file, disk |-> disk, wrote |-> FALSE]

Invalidated(f) == [f EXCEPT !.valid = FALSE, !.exists = FALSE, !.kind = "none", !.size = 0]

(* The file the stream holds, and what a change of it leaves.              *)
Held(w) == IF w.file.stream.linked THEN w.disk.at ELSE w.disk.gone

WithHeld(w, content) ==
  [w EXCEPT !.wrote = TRUE,
            !.disk = IF w.file.stream.linked THEN [@ EXCEPT !.at = content]
                     ELSE [@ EXCEPT !.gone = content]]

(* What stat tells: of the file that is open, else of the one at the path. *)
Looked(w) == IF w.file.stream.on THEN Held(w) ELSE w.disk.at

RefreshStatCache(w, force) ==
  IF ~force /\ w.file.valid THEN w
  ELSE LET st == Looked(w) IN
       [w EXCEPT !.file.valid = TRUE, !.file.exists = st.kind # "none",
                 !.file.kind = st.kind, !.file.size = st.length]

(* The stream's buffer goes to its file: at the end for append, where the  *)
(* bytes were put otherwise.                                               *)
Flushed(w) ==
  LET s == w.file.stream
      end == IF w.file.mode.base = "a" THEN Held(w).length + s.pending
             ELSE Max({Held(w).length, s.pos})
  IN IF s.pending = 0 THEN w
     ELSE [WithHeld(w, [kind |-> "file", length |-> Min({end, MaxLength}), mtime |-> now])
             EXCEPT !.file.stream.pending = 0]

(* Seeded fault: what was no file when the object was made is opened too.  *)
OpensUnready(w) == ~w.file.stream.on /\ w.disk.at.kind = "file"

(* Whether fopen gives a stream: not of a directory to write, nor of a     *)
(* missing file to read.                                                   *)
Opens(w) ==
  /\ w.file.ready /\ ~w.file.stream.on
  /\ CASE w.disk.at.kind = "none" -> w.file.mode.base # "r"
       [] w.disk.at.kind = "dir"  -> w.file.mode = [base |-> "r", update |-> FALSE]
       [] OTHER -> TRUE

Opened(w) ==
  LET mode    == w.file.mode
      anew    == mode.base = "w" \/ w.disk.at = Nothing
      stream  == [on |-> TRUE, linked |-> TRUE, pending |-> 0,
                  pos |-> IF mode.base = "a" /\ ~mode.update THEN w.disk.at.length ELSE 0]
      opened  == [w EXCEPT !.file = [Invalidated(w.file) EXCEPT
                               !.stream = stream, !.local = @ \/ mode.base = "w"]]
  IN IF ~Opens(w) THEN w
     ELSE IF anew THEN WithHeld(opened, [kind |-> "file", length |-> 0, mtime |-> now])
     ELSE opened

(* Seeded fault: closing keeps the cached stat.                            *)
ClosedKeepsStat(w) ==
  IF ~w.file.stream.on THEN w
  ELSE [Flushed(w) EXCEPT !.file.stream = NoStream, !.disk.gone = Nothing]

(* Close: fflush and fclose, of what was open. (It answers false, and      *)
(* leaves the file, when nothing was.)                                     *)
Closed(w) ==
  IF ~w.file.stream.on THEN w
  ELSE [Flushed(w) EXCEPT !.file = [Invalidated(@) EXCEPT !.stream = NoStream],
                          !.disk.gone = Nothing]

(* Seek opens a file that is not open, for a refused position too; fseek   *)
(* flushes.                                                                *)
Sought(w, position) ==
  LET opened == Opened(w) IN
  IF opened.file.stream.on /\ position >= 0
    THEN [Flushed(opened) EXCEPT !.file.stream.pos = position] ELSE opened

-----------------------------------------------------------------------------
Init ==
  \E there \in {c \in Contents : c.mtime = 0}, mode \in Modes :
    /\ disk = [at |-> there, gone |-> Nothing]
    /\ file = [ready |-> there.kind = "file", mode |-> mode, valid |-> TRUE,
               exists |-> there.kind # "none", kind |-> there.kind, size |-> there.length,
               last |-> 0, known |-> there.kind # "none", local |-> FALSE, stream |-> NoStream]
    /\ now = 0 /\ changed = "never" /\ base = there /\ blind = FALSE
    /\ asked = NotAsked /\ own = FALSE /\ early = FALSE

ChangedNow ==
  IF changed # "later" /\ base.kind # "none" /\ base.mtime = now THEN "within" ELSE "later"

(* What a call leaves behind, with the histories: whether it changed the   *)
(* path or another file, and whether it filled the cache.                  *)
Becomes(w, filled) ==
  /\ file' = w.file /\ disk' = w.disk
  /\ changed' = IF w.disk.at # disk.at \/ (w.wrote /\ (file.stream.on => file.stream.linked))
                  THEN ChangedNow ELSE changed
  /\ own' = ((own /\ ~filled) \/ w.wrote)
  /\ early' = IF filled THEN w.file.stream.pending > 0 ELSE early
  /\ asked' = NotAsked
  /\ UNCHANGED <<now, base, blind>>

(* Exists, IsFile, IsDirectory and Size answer from the cache.             *)
Query == Becomes(RefreshStatCache(World, FALSE), ~file.valid)

ModificationTime == Becomes(RefreshStatCache(World, TRUE), TRUE)

(* Seeded fault: the time of a file that is not there is left as it was.   *)
RememberedOld(f, st) ==
  IF st.kind = "none" THEN f ELSE [f EXCEPT !.last = st.mtime, !.known = TRUE]

Remembered(f, st) == [f EXCEPT !.last = st.mtime, !.known = st.kind # "none"]

(* After a change by the object itself the answer is yes without looking.  *)
SaysModified(f, st) ==
  \/ f.local
  \/ f.known # (st.kind # "none")
  \/ f.known /\ f.last # st.mtime

IsModified ==
  LET w  == RefreshStatCache(World, TRUE)
      st == Looked(World)
      elsewhere == file.stream.on /\ (~file.stream.linked \/ file.stream.pending > 0)
  IN /\ file' = [Remembered(w.file, st) EXCEPT !.local = FALSE]
     /\ asked' = [is |-> TRUE, told |-> SaysModified(file, st), changed |-> changed,
                  absent |-> base = Nothing /\ disk.at = Nothing,
                  blind |-> blind \/ elsewhere]
     /\ changed' = "never" /\ base' = disk.at /\ blind' = elsewhere
     /\ own' = FALSE /\ early' = (file.stream.pending > 0)
     /\ UNCHANGED <<disk, now>>

Position == Becomes(Opened(World), FALSE)

Seek(position) == Becomes(Sought(World, position), FALSE)

(* What the mode that fopen got lets fread and fwrite do: File itself does *)
(* not ask before it calls them.                                           *)
CanRead(f)  == f.mode.base = "r" \/ f.mode.update
CanWrite(f) == f.mode.base # "r" \/ f.mode.update

(* Reading on a stream with buffered bytes writes them first.              *)
ReadUpTo(w, count) ==
  LET opened == Opened(w)
      ready  == IF CanRead(opened.file) THEN Flushed(opened) ELSE opened
      s      == ready.file.stream
  IN IF ~s.on \/ ~CanRead(ready.file) \/ Held(ready).kind = "dir" THEN ready
     ELSE [ready EXCEPT !.file.stream.pos =
             Max({s.pos, Min({s.pos + count, Held(ready).length})})]

Read(count) == Becomes(ReadUpTo(World, count), FALSE)

(* Peek is Position, Read and, if anything was read, Seek back.            *)
Peek(count) ==
  LET opened == Opened(World)
      read   == ReadUpTo(opened, count)
  IN Becomes(IF read.file.stream.pos = opened.file.stream.pos THEN read
             ELSE Sought(read, opened.file.stream.pos), FALSE)

(* fwrite keeps the bytes in the stream, or passes them on.                *)
Write(count, passesOn) ==
  LET opened  == Opened(World)
      s       == opened.file.stream
      written == [opened EXCEPT !.file = [Invalidated(@) EXCEPT !.local = TRUE],
                                !.file.stream.pos = s.pos + count,
                                !.file.stream.pending = s.pending + count]
  IN IF ~s.on \/ ~CanWrite(opened.file) THEN Becomes(opened, FALSE)
     ELSE /\ Max({s.pos, s.pending}) + count <= MaxLength
          /\ Becomes(IF passesOn THEN Flushed(written) ELSE written, FALSE)

Close == Becomes(Closed(World), FALSE)

(* Another mode closes an open file; the same mode rewinds it.             *)
SetMode(mode) ==
  LET w == IF mode = file.mode THEN Sought(World, 0) ELSE Closed(World) IN
  Becomes([w EXCEPT !.file.mode = mode], FALSE)

(* Delete removes only a file that was open, because Close has to succeed. *)
(* remove also takes an empty directory.                                   *)
Delete ==
  LET closed  == Closed(World)
      removed == [closed EXCEPT !.file = [Invalidated(@) EXCEPT !.ready = FALSE, !.local = TRUE],
                                !.disk.at = Nothing, !.wrote = TRUE]
  IN Becomes(IF file.stream.on /\ disk.at # Nothing THEN removed ELSE closed, FALSE)

-----------------------------------------------------------------------------
(* Other programs write to the file at the path, put another file or a     *)
(* directory there, or remove it; an open stream keeps the file it had.    *)
PathBecomes(there, unlinks) ==
  /\ disk' = [at |-> there,
              gone |-> IF unlinks /\ file.stream.linked THEN disk.at ELSE disk.gone]
  /\ file' = IF unlinks THEN [file EXCEPT !.stream.linked = FALSE] ELSE file
  /\ changed' = ChangedNow /\ asked' = NotAsked
  /\ UNCHANGED <<now, base, blind, own, early>>

Edit ==
  /\ disk.at.kind = "file"
  /\ \E length \in Lengths :
       PathBecomes([kind |-> "file", length |-> length, mtime |-> now], FALSE)

Replace == \E kind \in {"file", "dir"} :
  PathBecomes([kind |-> kind, length |-> 0, mtime |-> now], TRUE)

Remove == disk.at # Nothing /\ PathBecomes(Nothing, TRUE)

Tick ==
  /\ now < MaxTime /\ now' = now + 1 /\ asked' = NotAsked
  /\ UNCHANGED <<file, disk, changed, base, blind, own, early>>

Next ==
  \/ Query \/ ModificationTime \/ IsModified \/ Position
  \/ \E position \in {0 - 1} \cup Lengths : Seek(position)
  \/ \E count \in 1..MaxLength : Read(count) \/ Peek(count)
  \/ \E count \in 1..MaxLength, passesOn \in BOOLEAN : Write(count, passesOn)
  \/ Close \/ Delete
  \/ \E mode \in Modes : SetMode(mode)
  \/ Edit \/ Replace \/ Remove \/ Tick

Spec == Init /\ [][Next]_vars

-----------------------------------------------------------------------------
(* IsModified neither misses a change of the path nor invents one, while   *)
(* it looks at the file at the path. A yes has a change behind it, by this *)
(* object or by another program. A no may hide changes within the second   *)
(* of the version known before, the unit of the times it compares          *)
(* (File.cpp:168), and a file that came and went; nothing else.            *)
ModifiedTold ==
  asked.is /\ ~asked.blind =>
    IF asked.told THEN asked.changed # "never" ELSE asked.changed # "later" \/ asked.absent

(* The cached stat is older than a change the object made itself only if   *)
(* the bytes were in the stream's buffer when the cache was filled, and    *)
(* only until the stream is closed.                                        *)
OwnChangesSeen == file.valid /\ own => early /\ file.stream.on
=============================================================================
