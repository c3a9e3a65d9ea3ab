------------------------------ MODULE IniFile ------------------------------
(***************************************************************************)
(* utils::IniFile (code/utils/IniFile.cpp): settings kept in memory, read  *)
(* again when the file's modification time differs from the one            *)
(* remembered, and saved whole when one is written; while others edit the  *)
(* file, writes fail, and the process ends and starts again. A call holds  *)
(* the object's lock, so calls follow one another; inside a call every     *)
(* look at the disk is a step of its own. A section is a record; its       *)
(* entries are a function from keys, which the code keeps in upper case,   *)
(* to texts. Keys and names of headings are those that a line can carry:   *)
(* not empty, without blanks, =, ; and brackets. So are line ends left out *)
(* of values, and a value that has both brackets, which would be read as a *)
(* heading (IniFile.cpp:140-161); a line fits the buffer of 4096 bytes.    *)
(***************************************************************************)
EXTENDS Integers, Sequences

CONSTANTS Upper,      \* function: the name of a heading in upper case
          Keys,       \* of the entries
          Characters, \* of the values
          Contents,   \* what editors put into the file: sequences of sections
          Reads,      \* [name, key] that callers read
          Writes,     \* [name, key, value] that callers write
          Absent,     \* nothing at the path
          None,       \* no value
          MaxTime,    \* bound on the clock, in seconds
          MaxEdits,   \* bound on the edits by others
          MaxCrashes  \* bound on the ends of the process

Texts    == Seq(Characters)
Entries  == UNION {[k -> Texts] : k \in (SUBSET Keys) \ {{}}}
Sections == [name : DOMAIN Upper, entries : Entries]
OnDisk   == [content : Seq(Sections), mtime : 1..MaxTime]

ASSUME IniAssumption ==
  /\ \A n \in DOMAIN Upper : Upper[n] \in DOMAIN Upper /\ Upper[Upper[n]] = Upper[n]
  /\ \A c \in Contents : c \in Seq(Sections)
  /\ \A r \in Reads : r.name \in DOMAIN Upper
  /\ \A w \in Writes : w \in [name : DOMAIN Upper, key : Keys, value : Texts]
  /\ Characters \cap {"CR", "LF"} = {} /\ ~({"[", "]"} \subseteq Characters)
  /\ None \notin Texts
  /\ Absent \notin OnDisk
  /\ MaxTime \in Nat /\ MaxTime > 1 /\ MaxEdits \in Nat /\ MaxCrashes \in Nat

VARIABLES
  disk,    \* what the path holds: Absent, or its content and mtime
  now, edits, crashes,
  heading, \* m_heading
  modTime, \* m_modTime
  ready,   \* m_ready of m_file
  pc,      \* where the call is; "free" between calls
  call,    \* which call it is: the constructor, ReadValue or WriteValue
  left,    \* the sections that SaveFile has still to write
  linked,  \* the path still holds the file that SaveFile opened
  trusted, \* history: memory was loaded from the file, or saved whole with
           \* nobody in between
  written, seen \* history, see below

diskVars   == <<disk, now, edits, written>>
memoryVars == <<heading, modTime, ready>>
vars == <<diskVars, crashes, memoryVars, pc, call, left, linked, trusted, seen>>

There(d)   == d # Absent

(* Seeded fault: -1 for a file that is not there.                          *)
MTimeUnset(d) == IF There(d) THEN d.mtime ELSE -1

MTime(d)   == IF There(d) THEN d.mtime ELSE 0
Content(d) == IF There(d) THEN d.content ELSE << >>
Constructs == [op |-> "construct"]

TypeOK ==
  /\ disk \in OnDisk \cup {Absent}
  /\ now \in 2..MaxTime /\ edits \in 0..MaxEdits /\ crashes \in 0..MaxCrashes
  /\ heading \in Seq(Sections) /\ modTime \in 0..MaxTime /\ ready \in BOOLEAN
  /\ pc \in {"free", "look", "stamp", "load", "answer", "open", "write", "restamp"}
  /\ call.op \in {"construct", "read", "write"}
  /\ \E n \in 0..Len(heading) : left = SubSeq(heading, n + 1, Len(heading))
  /\ {linked, trusted} \subseteq BOOLEAN
  /\ written.at \in 1..MaxTime /\ written.again \in BOOLEAN

(* The process starts: the File is constructed and looks at the disk.      *)
Init ==
  /\ disk \in {[content |-> c, mtime |-> 1] : c \in Contents} \cup {Absent}
  /\ now = 2 /\ edits = 0 /\ crashes = 0
  /\ heading = << >> /\ modTime = 0 /\ ready = There(disk)
  /\ pc = "stamp" /\ call = Constructs
  /\ left = << >> /\ linked = FALSE /\ trusted = FALSE
  /\ written = [at |-> 1, again |-> FALSE]
  /\ seen = {}

-----------------------------------------------------------------------------
(* The list of headings. *)

(* IniFileHeading::SetValue for each of the entries, under the heading of  *)
(* exactly this name, which is added at the end if there is none.          *)
Over(new, old) ==
  [k \in DOMAIN new \cup DOMAIN old |-> IF k \in DOMAIN new THEN new[k] ELSE old[k]]

Put(list, name, entries) ==
  IF \E i \in DOMAIN list : list[i].name = name
    THEN [i \in DOMAIN list |->
            IF list[i].name = name
              THEN [name |-> name, entries |-> Over(entries, list[i].entries)]
              ELSE list[i]]
    ELSE Append(list, [name |-> name, entries |-> entries])

(* What LoadFile makes of a value in a line: nothing from a semicolon on,  *)
(* and no blanks, tabs and =. The value was written as it is.              *)
Lost == {" ", "TAB", "="}

Carried(text) ==
  LET kept[n \in 0..Len(text)] ==
        IF n = 0 THEN << >>
        ELSE IF text[n] \in Lost \/ \E i \in 1..n : text[i] = ";"
          THEN kept[n - 1]
          ELSE Append(kept[n - 1], text[n])
  IN  kept[Len(text)]

(* A line with no value left is no entry. *)
Carries(entries) == {k \in DOMAIN entries : Carried(entries[k]) # << >>}
Taken(entries)   == [k \in Carries(entries) |-> Carried(entries[k])]

(* Reading lines: WriteValue under the heading in upper case.              *)
Parsed(content) ==
  LET list[n \in 0..Len(content)] ==
        IF n = 0 THEN << >>
        ELSE IF Carries(content[n].entries) = {} THEN list[n - 1]
        ELSE Put(list[n - 1], Upper[content[n].name], Taken(content[n].entries))
  IN  list[Len(content)]

(* What is read back of a value, if it was one. *)
AsText(value) ==
  IF value = None \/ Carried(value) = << >> THEN None ELSE Carried(value)

(* What the first section of this name says.                               *)
Value(list, name, key) ==
  LET at == {i \in DOMAIN list : list[i].name = name}
      first == CHOOSE i \in at : \A j \in at : i <= j
  IN  IF at # {} /\ key \in DOMAIN list[first].entries THEN list[first].entries[key] ELSE None

Entry(w) == [k \in {w.key} |-> w.value]

(* Seeded fault: the list is not searched for the heading.                 *)
WithValueLast(list, w) ==
  Append(list, [name |-> w.name, entries |-> Entry(w)])

(* WriteValue gives the first heading its name in upper case, and others   *)
(* the name as it is.                                                      *)
WithValue(list, w) ==
  IF list = << >> THEN Put(list, Upper[w.name], Entry(w)) ELSE Put(list, w.name, Entry(w))

-----------------------------------------------------------------------------
(* The outside. written tells when the path was last written, and whether  *)
(* that was an edit in the same second as the writing before, so that the  *)
(* modification time does not tell the two apart. seen collects what the   *)
(* path held during the current call.                                      *)
Version(d, w) == [content |-> Content(d), again |-> There(d) /\ w.again]

Tick ==
  /\ now < MaxTime
  /\ now' = now + 1
  /\ UNCHANGED <<disk, edits, written, crashes, memoryVars, pc, call, left, linked, trusted, seen>>

(* Another program replaces the file, or deletes it. *)
Edit(d) ==
  /\ edits < MaxEdits /\ d # disk
  /\ disk' = d
  /\ edits' = edits + 1
  /\ written' = IF There(d) THEN [at |-> now, again |-> written.at = now] ELSE written
  /\ linked' = FALSE
  /\ seen' = IF pc = "free" THEN seen ELSE seen \cup {Version(d, written')}
  /\ UNCHANGED <<now, crashes, memoryVars, pc, call, left, trusted>>

Editor ==
  Edit(Absent) \/ \E c \in Contents : Edit([content |-> c, mtime |-> now])

(* The process ends wherever it is, and is started again. *)
Crash ==
  /\ crashes < MaxCrashes
  /\ crashes' = crashes + 1
  /\ heading' = << >> /\ modTime' = 0 /\ ready' = There(disk)
  /\ pc' = "stamp" /\ call' = Constructs
  /\ left' = << >> /\ linked' = FALSE /\ trusted' = FALSE /\ seen' = {}
  /\ UNCHANGED diskVars

-----------------------------------------------------------------------------
(* ReadValue. *)
ReadValue(r) ==
  /\ pc = "free"
  /\ pc' = "look"
  /\ call' = [op |-> "read", name |-> r.name, key |-> r.key]
  /\ seen' = {Version(disk, written)}
  /\ UNCHANGED <<diskVars, crashes, memoryVars, left, linked, trusted>>

(* Seeded fault: only a newer file is read again.                          *)
LookNewer ==
  /\ pc = "look"
  /\ pc' = IF MTime(disk) > modTime THEN "stamp" ELSE "answer"
  /\ UNCHANGED <<diskVars, crashes, memoryVars, call, left, linked, trusted, seen>>

Look ==
  /\ pc = "look"
  /\ pc' = IF MTime(disk) # modTime THEN "stamp" ELSE "answer"
  /\ UNCHANGED <<diskVars, crashes, memoryVars, call, left, linked, trusted, seen>>

(* LoadFile: the time is remembered before the file is read. *)
Stamp ==
  /\ pc = "stamp"
  /\ modTime' = MTime(disk) /\ heading' = << >>
  /\ pc' = "load"
  /\ UNCHANGED <<diskVars, crashes, ready, call, left, linked, trusted, seen>>

(* The file opens or not; one that was not there when the object was made  *)
(* is never opened. A file that does not open has no lines.                *)
LoadFile ==
  /\ pc = "load"
  /\ \/ ready /\ heading' = Parsed(Content(disk)) /\ trusted' = TRUE
     \/ heading' = << >> /\ trusted' = FALSE
  /\ pc' = IF call.op = "construct" THEN "free" ELSE "answer"
  /\ UNCHANGED <<diskVars, crashes, modTime, ready, call, left, linked, seen>>

Answer == Value(heading, Upper[call.name], call.key)

ReadReturns ==
  /\ pc = "answer"
  /\ pc' = "free" /\ seen' = {}
  /\ UNCHANGED <<diskVars, crashes, memoryVars, call, left, linked, trusted>>

-----------------------------------------------------------------------------
(* WriteValue; it does not look whether the file has changed. A value that *)
(* is there already is not saved again.                                    *)
WriteValue(w) ==
  /\ pc = "free"
  /\ call' = [op |-> "write", name |-> w.name, key |-> w.key]
  /\ heading' = WithValue(heading, w)
  /\ IF heading' = heading
       THEN UNCHANGED <<pc, left, trusted>>
       ELSE pc' = "open" /\ left' = heading' /\ trusted' = FALSE
  /\ UNCHANGED <<diskVars, crashes, modTime, ready, linked, seen>>

(* What SaveFile puts into the path, if that is still the file it opened.  *)
(* The content holds the values as they are; see Carried.                  *)
Store(content) ==
  /\ disk' = [content |-> content, mtime |-> now]
  /\ written' = [at |-> now, again |-> FALSE]
  /\ UNCHANGED <<now, edits>>

(* SaveFile: opening truncates the file. Nobody looks at what the writes   *)
(* answer: one that finds the file unopened opens it, and if that fails its *)
(* text is lost. Text is counted in sections: lines without their heading   *)
(* would be skipped by LoadFile.                                            *)
SaveOpens ==
  /\ pc = "open"
  /\ \/ ready /\ Store(<< >>) /\ linked' = TRUE
        /\ left' = left /\ pc' = "write"
     \/ UNCHANGED diskVars /\ linked' = FALSE
        /\ left' = Tail(left)
        /\ pc' = IF left' = << >> THEN "restamp" ELSE "open"
  /\ UNCHANGED <<crashes, memoryVars, call, trusted, seen>>

(* The stream hands on more of the text, to the last by Close, or loses it. *)
SaveWrites ==
  /\ pc = "write"
  /\ \E n \in 1..Len(left) :
       /\ left' = SubSeq(left, n + 1, Len(left))
       /\ \/ linked /\ Store(Content(disk) \o SubSeq(left, 1, n))
          \/ UNCHANGED diskVars
  /\ pc' = IF left' = << >> THEN "restamp" ELSE "write"
  /\ UNCHANGED <<crashes, memoryVars, call, linked, trusted, seen>>

(* The time is remembered after the file was closed. *)
Restamp ==
  /\ pc = "restamp"
  /\ modTime' = MTime(disk)
  /\ trusted' = (linked /\ Content(disk) = heading)
  /\ pc' = "free"
  /\ UNCHANGED <<diskVars, crashes, heading, ready, call, left, linked, seen>>

-----------------------------------------------------------------------------
Next ==
  \/ Tick \/ Editor \/ Crash
  \/ \E r \in Reads : ReadValue(r)
  \/ \E w \in Writes : WriteValue(w)
  \/ Look \/ Stamp \/ LoadFile \/ ReadReturns
  \/ SaveOpens \/ SaveWrites \/ Restamp

Spec == Init /\ [][Next]_vars

-----------------------------------------------------------------------------
(* Headings are looked for in upper case, but written as they are spelled. *)
CallersUseUpper == \A w \in Writes : Upper[w.name] = w.name

(* What ReadValue answers is what a version of the file says that was there *)
(* during the call: after a reload that raced with an edit, a save, a save  *)
(* that failed half way, or a restart. Five things escape: two writings in  *)
(* one second; what happens to the file during a save, and a file that did  *)
(* not open, each until the file changes again; a file that came when       *)
(* LoadFile had found none (and remembered the time 0), and that was read   *)
(* and then removed; and what a line does not carry of a value that the     *)
(* object itself has saved, which is answered as it was written until the   *)
(* file is loaded again (AsText). Callers of WriteValue spell headings in   *)
(* upper case.                                                              *)
ReadsWhatTheFileSays ==
  [][CallersUseUpper /\ pc = "answer" /\ pc' = "free" /\ trusted =>
       \/ modTime = 0 /\ heading # << >>
       \/ \E v \in seen :
            \/ v.again
            \/ AsText(Answer) = Value(Parsed(v.content), Upper[call.name], call.key)]_vars

(* Saving and reading again neither loses a setting nor mixes two, however *)
(* the sections were spelled in the file and in whatever order they were   *)
(* written: each reads back as what a line carries of its value, without   *)
(* comment, blanks, tabs and =, and not at all exactly if nothing is left. *)
(* This asks callers of WriteValue to spell headings in upper case.        *)
SavedReadsBack ==
  CallersUseUpper =>
    \A n \in DOMAIN Upper, k \in Keys :
      Value(Parsed(heading), Upper[n], k) = AsText(Value(heading, Upper[n], k))
=============================================================================
