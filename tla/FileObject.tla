----------------------------- MODULE FileObject -----------------------------
(***************************************************************************)
(* The part of utils::File (code/utils/File.cpp) that its users' decisions *)
(* rest on: the cached stat, the remembered modification time and the flag *)
(* that lets it open. A File opened for reading is a record, and each      *)
(* method a function of that record and of what the disk holds at the path *)
(* when the method looks: Absent, or a record with the field mtime.        *)
(***************************************************************************)
EXTENDS Naturals

CONSTANT Absent  \* nothing at the path

There(d)   == d # Absent
(* Seeded fault: the time of a file that is not there is -1.               *)
MTimeOfUnset(d) == IF There(d) THEN d.mtime ELSE 0 - 1

MTimeOf(d) == IF There(d) THEN d.mtime ELSE 0

FileObjects(Times) ==
  [ready  : BOOLEAN,   \* m_ready, set by the constructor and by it only
   valid  : BOOLEAN,   \* m_cachedStatValid
   exists : BOOLEAN,   \* m_cachedPathExists
   last   : Times,     \* m_lastModTime
   known  : BOOLEAN]   \* m_lastModTimeValid

(* The constructor, of a path that names a regular file or nothing.        *)
NewFile(d) ==
  [ready |-> There(d), valid |-> TRUE, exists |-> There(d),
   last |-> MTimeOf(d), known |-> There(d)]

(* RefreshStatCache: looks only when told to or when nothing is cached.    *)
RefreshStatCache(f, d, force) ==
  IF ~force /\ f.valid THEN f ELSE [f EXCEPT !.valid = TRUE, !.exists = There(d)]

AfterExists(f, d) == RefreshStatCache(f, d, FALSE)
Exists(f, d)      == AfterExists(f, d).exists

(* IsModified always looks, and from then on compares with what it saw.    *)
AfterIsModified(f, d) ==
  [RefreshStatCache(f, d, TRUE) EXCEPT !.last = MTimeOf(d), !.known = There(d)]
IsModified(f, d) ==
  \/ f.known # There(d)
  \/ f.known /\ There(d) /\ f.last # d.mtime

(* Seek( 0 ), reading to the end, Close: opening and closing both throw    *)
(* the cached stat away; a file that does not open leaves it alone.        *)
Opens(f, d)         == f.ready /\ There(d)
AfterReading(f, d)  ==
  IF Opens(f, d) THEN [f EXCEPT !.valid = FALSE, !.exists = FALSE] ELSE f
=============================================================================
