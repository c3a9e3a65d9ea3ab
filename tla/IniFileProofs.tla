---------------------------- MODULE IniFileProofs ----------------------------
(***************************************************************************)
(* The safety of IniFile for all headings, entries and contents of the     *)
(* file, and any number of edits, crashes and seconds. Carried and Parsed  *)
(* are recursive functions; what they compute is shown by the least number *)
(* of characters or sections at which they would compute something else    *)
(* (Onwards).                                                              *)
(***************************************************************************)
EXTENDS IniFile, SequenceTheorems, WellFoundedInduction, TLAPS

(* The sections have different names, in upper case: so LoadFile leaves    *)
(* them.                                                                   *)
Canonical(list) ==
  /\ \A i \in 1..Len(list) : Upper[list[i].name] = list[i].name
  /\ \A i, j \in 1..Len(list) : list[i].name = list[j].name => i = j

(* A text that a line carries whole.                                       *)
Clean(text) == \A i \in 1..Len(text) : text[i] \notin Lost /\ text[i] # ";"

(* Sections whose values are carried whole, and are some.                  *)
NeatEntries(e) == \A k \in DOMAIN e : e[k] # << >> /\ Clean(e[k])
Neat(list)     == \A i \in 1..Len(list) : NeatEntries(list[i].entries)

(* What LoadFile leaves.                                                   *)
Loaded == {list \in Seq(Sections) : Canonical(list) /\ Neat(list)}

(* Memory says what the content does: it was loaded from it, or saved.     *)
Says(content) == (heading = Parsed(content) /\ heading \in Loaded) \/ heading = content

(* There are sections to be written exactly while a save writes.           *)
Saving == left # << >> <=> pc \in {"open", "write"}

(* A call that looks at the file is one that reads, or the constructor.    *)
Calling ==
  /\ pc \in {"look", "answer"} => call.op = "read"
  /\ pc \in {"stamp", "load"} => call.op \in {"read", "construct"}

(* The time in memory is not later than the last writing of the path, and  *)
(* that not later than the present.                                        *)
Dated == MTime(disk) <= written.at /\ modTime <= written.at /\ written.at <= now

(* What the path holds is among what it held during the call.              *)
Latest ==
  pc \in {"look", "stamp", "load", "answer"} /\ call.op = "read" =>
    Version(disk, written) \in seen

Vanished == modTime = 0 /\ heading # << >>

(* While the time in memory is that of the file, so are the settings.      *)
Fresh ==
  trusted /\ pc \in {"free", "look", "answer"} /\ modTime = MTime(disk) =>
    \/ Vanished
    \/ Version(disk, written).again
    \/ Says(Content(disk))

(* What is about to be answered comes from what the path held.             *)
Backed ==
  trusted /\ pc = "answer" =>
    Vanished \/ \E v \in seen : v.again \/ Says(v.content)

IInv ==
  /\ TypeOK /\ Saving /\ Calling /\ Dated /\ Latest
  /\ CallersUseUpper => Canonical(heading) /\ Fresh /\ Backed

-----------------------------------------------------------------------------
(* What the constants say, taken apart. *)
LEMMA Sorts ==
  /\ \A n \in DOMAIN Upper : Upper[n] \in DOMAIN Upper /\ Upper[Upper[n]] = Upper[n]
  /\ \A c \in Contents : c \in Seq(Sections)
  /\ \A w \in Writes : w \in [name : DOMAIN Upper, key : Keys, value : Texts]
  /\ MaxTime \in Nat /\ MaxTime > 1 /\ MaxEdits \in Nat /\ MaxCrashes \in Nat
  /\ Absent \notin OnDisk
BY IniAssumption

LEMMA EntryType ==
  ASSUME NEW w \in Writes
  PROVE  w.name \in DOMAIN Upper /\ Entry(w) \in Entries
<1>1. w.name \in DOMAIN Upper /\ w.key \in Keys /\ w.value \in Texts
  BY Sorts
<1>2. Entry(w) \in [{w.key} -> Texts]
  BY <1>1 DEF Entry
<1>3. {w.key} \in (SUBSET Keys) \ {{}}
  BY <1>1
<1> QED
  BY <1>1, <1>2, <1>3 DEF Entries

LEMMA OverType ==
  ASSUME NEW new \in Entries, NEW old \in Entries
  PROVE  Over(new, old) \in Entries
<1>1. PICK j \in (SUBSET Keys) \ {{}} : new \in [j -> Texts]
  BY DEF Entries
<1>2. PICK k \in (SUBSET Keys) \ {{}} : old \in [k -> Texts]
  BY DEF Entries
<1>3. DOMAIN new = j /\ DOMAIN old = k /\ j \cup k \in (SUBSET Keys) \ {{}}
  BY <1>1, <1>2
<1>4. Over(new, old) \in [j \cup k -> Texts]
  BY <1>1, <1>2, <1>3 DEF Over
<1> QED
  BY <1>3, <1>4 DEF Entries

(* Put leaves a list of sections, and one whose headings differ if they    *)
(* did and the new one is in upper case.                                   *)
LEMMA PutType ==
  ASSUME NEW list \in Seq(Sections), NEW name \in DOMAIN Upper, NEW entries \in Entries
  PROVE  Put(list, name, entries) \in Seq(Sections)
<1>1. /\ Len(list) \in Nat /\ DOMAIN list = 1..Len(list)
      /\ \A i \in 1..Len(list) : list[i] \in Sections
  BY LenProperties, ElementOfSeq
<1>2. CASE \E i \in DOMAIN list : list[i].name = name
  <2>1. ASSUME NEW i \in 1..Len(list)
        PROVE  [name |-> name, entries |-> Over(entries, list[i].entries)] \in Sections
    <3>1. list[i].entries \in Entries
      BY <1>1 DEF Sections
    <3> QED
      BY <3>1, OverType DEF Sections
  <2>2. Put(list, name, entries) \in [1..Len(list) -> Sections]
    BY <1>1, <1>2, <2>1 DEF Put
  <2> QED
    BY <1>1, <2>2, SeqDef
<1>3. CASE ~ \E i \in DOMAIN list : list[i].name = name
  BY <1>3, AppendProperties DEF Put, Sections
<1> QED
  BY <1>2, <1>3

LEMMA PutCanonical ==
  ASSUME NEW list \in Seq(Sections), NEW name \in DOMAIN Upper, NEW entries \in Entries,
         Canonical(list), Upper[name] = name
  PROVE  Canonical(Put(list, name, entries))
<1> DEFINE p == Put(list, name, entries)
<1>1. Len(list) \in Nat /\ DOMAIN list = 1..Len(list)
  BY LenProperties
<1>2. CASE \E i \in DOMAIN list : list[i].name = name
  <2>1. p = [i \in 1..Len(list) |->
               IF list[i].name = name
                 THEN [name |-> name, entries |-> Over(entries, list[i].entries)]
                 ELSE list[i]]
    BY <1>1, <1>2 DEF Put
  <2>2. Len(p) = Len(list)
    BY <1>1, <2>1
  <2>3. \A i \in 1..Len(list) : p[i].name = list[i].name
    BY <2>1
  <2> HIDE DEF p
  <2>4. Canonical(p)
    BY <2>2, <2>3 DEF Canonical
  <2> QED
    BY <2>4 DEF p
<1>3. CASE ~ \E i \in DOMAIN list : list[i].name = name
  <2> DEFINE new == [name |-> name, entries |-> entries]
  <2>1. new \in Sections /\ new.name = name
    BY DEF Sections
  <2> HIDE DEF new
  <2>2. p = Append(list, new)
    BY <1>3 DEF Put, new
  <2>3. /\ Len(p) = Len(list) + 1 /\ p[Len(list) + 1] = new
        /\ \A i \in 1..Len(list) : p[i] = list[i]
    BY <2>1, <2>2, AppendProperties
  <2>4. \A i \in 1..Len(p) : i = Len(list) + 1 \/ i \in 1..Len(list)
    BY <1>1, <2>3
  <2> HIDE DEF p
  <2>5. Canonical(p)
    BY <1>1, <1>3, <2>1, <2>3, <2>4 DEF Canonical
  <2> QED
    BY <2>5 DEF p
<1> QED
  BY <1>2, <1>3

-----------------------------------------------------------------------------
(* A set of numbers has a least one. *)
LEMMA LeastNumber ==
  ASSUME NEW T, T \subseteq Nat, T # {}
  PROVE  \E m \in T : \A y \in T : m <= y
<1> DEFINE R == {ss \in Nat \X Nat : ss[1] < ss[2]}
<1>1. IsWellFoundedOn(R, Nat)
  BY NatLessThanWellFounded DEF OpToRel
<1>2. \A y \in Nat, m \in Nat : y < m => <<y, m>> \in R
  OBVIOUS
<1> HIDE DEF R
<1>3. PICK m \in T : \A y \in T : <<y, m>> \notin R
  BY <1>1, WFMin
<1>4. ASSUME NEW y \in T PROVE m <= y
  <2>1. m \in Nat /\ y \in Nat /\ ~(y < m)
    BY <1>2, <1>3
  <2> QED
    BY <2>1
<1> QED
  BY <1>4

(* What holds of 0, and of a number up to m with the one before it, holds  *)
(* up to m.                                                                *)
LEMMA Onwards ==
  ASSUME NEW m \in Nat, NEW good, 0 \in good,
         \A n \in 1..m : n - 1 \in good => n \in good
  PROVE  \A n \in 0..m : n \in good
<1> DEFINE wrong == {n \in 0..m : n \notin good}
<1> SUFFICES ASSUME wrong # {} PROVE FALSE
  OBVIOUS
<1>1. wrong \subseteq Nat
  OBVIOUS
<1>2. PICK n \in wrong : \A y \in wrong : n <= y
  <2> HIDE DEF wrong
  <2> QED
    BY <1>1, LeastNumber
<1>3. n \in 0..m /\ n \notin good /\ n # 0
  OBVIOUS
<1>4. n \in 1..m /\ n - 1 \in 0..m /\ n - 1 \notin wrong
  BY <1>2, <1>3
<1> QED
  BY <1>3, <1>4

(* There is a sequence of values, each made of the one before by the step  *)
(* of its number.                                                          *)
Follows(f, m, z, step) == f[0] = z /\ \A n \in 1..m : f[n] = step[n][f[n - 1]]

LEMMA Iterates ==
  ASSUME NEW m \in Nat, NEW S, NEW z \in S, NEW step \in [1..m -> [S -> S]]
  PROVE  \E f \in [0..m -> S] : Follows(f, m, z, step)
<1> DEFINE Runs(l, f) == f[0] = z /\ \A n \in 1..l : f[n] = step[n][f[n - 1]]
           good == {l \in 0..m : \E f \in [0..l -> S] : Runs(l, f)}
<1>1. 0 \in good
  <2> DEFINE one == [n \in 0..0 |-> z]
  <2>1. one \in [0..0 -> S] /\ Runs(0, one)
    OBVIOUS
  <2> HIDE DEF one
  <2>2. \E f \in [0..0 -> S] : Runs(0, f)
    BY <2>1
  <2> QED
    BY <2>2
<1>2. ASSUME NEW l \in 1..m, l - 1 \in good PROVE l \in good
  <2>1. PICK g \in [0..(l - 1) -> S] : Runs(l - 1, g)
    BY <1>2
  <2> DEFINE f == [n \in 0..l |-> IF n = l THEN step[l][g[l - 1]] ELSE g[n]]
  <2>2. f \in [0..l -> S]
    <3>1. step[l][g[l - 1]] \in S
      <4>1. g[l - 1] \in S
        BY <2>1
      <4>2. step[l] \in [S -> S]
        OBVIOUS
      <4> QED
        BY <4>1, <4>2
    <3>2. \A n \in 0..l : n # l => n \in 0..(l - 1)
      OBVIOUS
    <3> QED
      BY <3>1, <3>2
  <2>3. \A n \in 0..(l - 1) : f[n] = g[n]
    OBVIOUS
  <2>4. f[l] = step[l][g[l - 1]]
    OBVIOUS
  <2> HIDE DEF f
  <2>5. f[0] = z
    BY <2>1, <2>3
  <2>6. ASSUME NEW n \in 1..l PROVE f[n] = step[n][f[n - 1]]
    <3>1. n - 1 \in 0..(l - 1) /\ f[n - 1] = g[n - 1]
      BY <2>3
    <3>2. CASE n = l
      BY <2>4, <3>1, <3>2
    <3>3. CASE n # l
      <4>1. n \in 1..(l - 1) /\ n \in 0..(l - 1)
        BY <3>3
      <4>2. f[n] = g[n] /\ g[n] = step[n][g[n - 1]]
        BY <2>1, <2>3, <4>1
      <4> QED
        BY <3>1, <4>2
    <3> QED
      BY <3>2, <3>3
  <2>7. \E h \in [0..l -> S] : Runs(l, h)
    BY <2>2, <2>5, <2>6
  <2>8. l \in 0..m
    OBVIOUS
  <2> HIDE DEF Runs
  <2> QED
    BY <2>7, <2>8
<1>3. \A l \in 0..m : l \in good
  <2> HIDE DEF good
  <2> QED
    BY <1>1, <1>2, Onwards
<1>4. m \in good
  BY <1>3
<1> QED
  BY <1>4 DEF Follows

-----------------------------------------------------------------------------
(* What is kept of the first n characters, of which kept holds what is     *)
(* kept of those before the n-th.                                          *)
Keeps(text, n, kept) ==
  IF text[n] \in Lost \/ \E i \in 1..n : text[i] = ";" THEN kept ELSE Append(kept, text[n])

LEMMA KeepsType ==
  ASSUME NEW text \in Texts, NEW n \in 1..Len(text), NEW kept \in Texts
  PROVE  Keeps(text, n, kept) \in Texts /\ (Clean(kept) => Clean(Keeps(text, n, kept)))
<1>1. text[n] \in Characters /\ n \in 1..n /\ Len(kept) \in Nat
  BY LenProperties, ElementOfSeq DEF Texts
<1>2. CASE text[n] \in Lost \/ \E i \in 1..n : text[i] = ";"
  BY <1>2 DEF Keeps
<1>3. CASE ~(text[n] \in Lost \/ \E i \in 1..n : text[i] = ";")
  <2> DEFINE more == Append(kept, text[n])
  <2>1. Keeps(text, n, kept) = more
    BY <1>3 DEF Keeps
  <2>2. text[n] \notin Lost /\ text[n] # ";"
    BY <1>1, <1>3
  <2>3. /\ more \in Texts /\ Len(more) = Len(kept) + 1 /\ more[Len(kept) + 1] = text[n]
        /\ \A i \in 1..Len(kept) : more[i] = kept[i]
    BY <1>1, AppendProperties DEF Texts
  <2>4. \A i \in 1..Len(more) : i \in 1..Len(kept) \/ i = Len(kept) + 1
    BY <1>1, <2>3
  <2> HIDE DEF more
  <2>5. Clean(kept) => Clean(more)
    BY <2>2, <2>3, <2>4 DEF Clean
  <2> QED
    BY <2>1, <2>3, <2>5
<1> QED
  BY <1>2, <1>3

(* Carried is what is kept of all characters.                              *)
LEMMA CarriedReads ==
  ASSUME NEW text \in Texts
  PROVE  \E f : /\ f[0] = << >>
                /\ \A n \in 1..Len(text) : f[n] = Keeps(text, n, f[n - 1])
                /\ Carried(text) = f[Len(text)]
<1> DEFINE m == Len(text)
           Is(f) == f = [n \in 0..m |->
                           IF n = 0 THEN << >>
                           ELSE IF text[n] \in Lost \/ \E i \in 1..n : text[i] = ";"
                             THEN f[n - 1]
                             ELSE Append(f[n - 1], text[n])]
           f == CHOOSE f : Is(f)
<1>1. m \in Nat /\ << >> \in Texts
  BY LenProperties, EmptySeq DEF Texts
<1>2. \E g : Is(g)
  <2> DEFINE step == [n \in 1..m |-> [kept \in Texts |-> Keeps(text, n, kept)]]
  <2>1. step \in [1..m -> [Texts -> Texts]]
    BY KeepsType
  <2>2. \A n \in 1..m : \A kept \in Texts : step[n][kept] = Keeps(text, n, kept)
    OBVIOUS
  <2> HIDE DEF step
  <2>3. PICK g \in [0..m -> Texts] : g[0] = << >> /\ \A n \in 1..m : g[n] = step[n][g[n - 1]]
    <3> DEFINE none == << >>
    <3>1. none \in Texts
      BY <1>1
    <3> HIDE DEF m, none
    <3>2. \E g \in [0..m -> Texts] : Follows(g, m, none, step)
      BY <1>1, <2>1, <3>1, Iterates
    <3> QED
      BY <3>2 DEF none, Follows
  <2>4. \A n \in 1..m : n - 1 \in 0..m /\ g[n - 1] \in Texts
    BY <1>1, <2>3
  <2>5. \A n \in 1..m : g[n] = Keeps(text, n, g[n - 1])
    BY <2>2, <2>3, <2>4
  <2>6. \A n \in 0..m : n # 0 => n \in 1..m
    BY <1>1
  <2>7. g = [n \in 0..m |-> IF n = 0 THEN << >> ELSE Keeps(text, n, g[n - 1])]
    BY <2>3, <2>5, <2>6
  <2>8. Is(g)
    BY <2>7 DEF Keeps
  <2> QED
    BY <2>8
<1>3. Is(f)
  BY <1>2
<1>4. Carried(text) = f[m]
  BY Zenon DEF Carried
<1>5. f = [n \in 0..m |-> IF n = 0 THEN << >> ELSE Keeps(text, n, f[n - 1])]
  BY <1>3 DEF Keeps
<1> HIDE DEF f
<1>6. f[0] = << >> /\ \A n \in 1..m : f[n] = Keeps(text, n, f[n - 1])
  BY <1>1, <1>5
<1> QED
  BY <1>4, <1>6

(* What a line carries is carried whole when it is written again.          *)
LEMMA CarriedClean ==
  ASSUME NEW text \in Texts
  PROVE  Carried(text) \in Texts /\ Clean(Carried(text))
<1>1. PICK f : /\ f[0] = << >>
               /\ \A n \in 1..Len(text) : f[n] = Keeps(text, n, f[n - 1])
               /\ Carried(text) = f[Len(text)]
  BY CarriedReads
<1>2. Len(text) \in Nat
  BY LenProperties DEF Texts
<1> DEFINE good == {n \in 0..Len(text) : f[n] \in Texts /\ Clean(f[n])}
<1>3. 0 \in good
  <2>1. << >> \in Texts /\ Len(<< >>) = 0
    BY EmptySeq DEF Texts
  <2>2. f[0] \in Texts /\ Len(f[0]) = 0
    BY <1>1, <2>1
  <2>3. \A i \in 1..Len(f[0]) : FALSE
    BY <2>2
  <2>4. Clean(f[0])
    BY <2>3 DEF Clean
  <2> QED
    BY <1>2, <2>2, <2>4
<1>4. ASSUME NEW n \in 1..Len(text), n - 1 \in good PROVE n \in good
  <2> DEFINE before == f[n - 1]
  <2>1. before \in Texts /\ Clean(before) /\ f[n] = Keeps(text, n, before)
    BY <1>1, <1>4
  <2> HIDE DEF before
  <2> QED
    BY <1>2, <2>1, KeepsType
<1>5. \A n \in 0..Len(text) : n \in good
  <2> HIDE DEF good
  <2> QED
    BY <1>2, <1>3, <1>4, Onwards
<1> QED
  BY <1>1, <1>2, <1>5

LEMMA CarriedSame ==
  ASSUME NEW text \in Texts, Clean(text)
  PROVE  Carried(text) = text
<1>1. PICK f : /\ f[0] = << >>
               /\ \A n \in 1..Len(text) : f[n] = Keeps(text, n, f[n - 1])
               /\ Carried(text) = f[Len(text)]
  BY CarriedReads
<1>2. Len(text) \in Nat /\ text \in Seq(Characters)
  BY LenProperties DEF Texts
<1> DEFINE good == {n \in 0..Len(text) : f[n] = SubSeq(text, 1, n)}
<1>3. 0 \in good
  <2>1. SubSeq(text, 1, 0) = << >>
    BY SubSeqEmpty
  <2>2. f[0] = SubSeq(text, 1, 0) /\ 0 \in 0..Len(text)
    BY <1>1, <1>2, <2>1
  <2> QED
    BY <2>2
<1>4. ASSUME NEW n \in 1..Len(text), n - 1 \in good PROVE n \in good
  <2> DEFINE before == SubSeq(text, 1, n - 1)
  <2>1. f[n] = Keeps(text, n, before)
    BY <1>1, <1>4
  <2>2. \A i \in 1..n : i \in 1..Len(text)
    BY <1>2
  <2>3. Keeps(text, n, before) = Append(before, text[n])
    BY <2>2 DEF Keeps, Clean
  <2>4. before \in Seq(Characters) /\ text[n] \in Characters
    <3>1. text[n] \in Characters /\ \A i \in 1..(n - 1) : text[i] \in Characters
      BY <1>2, ElementOfSeq
    <3> QED
      BY <3>1, SubSeqProperties
  <2>5. SubSeq(text, 1, n) = before \o <<text[n]>>
    BY <1>2, SubSeqRecursiveSecond
  <2> HIDE DEF before
  <2>6. Append(before, text[n]) = before \o <<text[n]>>
    BY <2>4, AppendIsConcat
  <2> QED
    BY <1>2, <2>1, <2>3, <2>5, <2>6
<1>5. \A n \in 0..Len(text) : n \in good
  <2> HIDE DEF good
  <2> QED
    BY <1>2, <1>3, <1>4, Onwards
<1> QED
  BY <1>1, <1>2, <1>5, SubSeqFull

LEMMA TakenType ==
  ASSUME NEW e \in Entries, Carries(e) # {}
  PROVE  Taken(e) \in Entries /\ NeatEntries(Taken(e))
<1>1. PICK d \in (SUBSET Keys) \ {{}} : e \in [d -> Texts]
  BY DEF Entries
<1>2. Carries(e) \subseteq d /\ Carries(e) \in (SUBSET Keys) \ {{}}
  BY <1>1 DEF Carries
<1>3. ASSUME NEW k \in Carries(e)
      PROVE  Carried(e[k]) \in Texts /\ Clean(Carried(e[k])) /\ Carried(e[k]) # << >>
  <2>1. e[k] \in Texts
    BY <1>1, <1>2
  <2> QED
    BY <2>1, CarriedClean DEF Carries
<1>4. Taken(e) \in [Carries(e) -> Texts]
  BY <1>3 DEF Taken
<1>5. NeatEntries(Taken(e))
  BY <1>3 DEF NeatEntries, Taken
<1> QED
  BY <1>2, <1>4, <1>5 DEF Entries

LEMMA PutNeat ==
  ASSUME NEW list \in Seq(Sections), NEW name \in DOMAIN Upper, NEW entries \in Entries,
         Neat(list), NeatEntries(entries)
  PROVE  Neat(Put(list, name, entries))
<1> DEFINE p == Put(list, name, entries)
<1>1. Len(list) \in Nat /\ DOMAIN list = 1..Len(list)
  BY LenProperties
<1>2. CASE \E i \in DOMAIN list : list[i].name = name
  <2>1. p = [i \in 1..Len(list) |->
               IF list[i].name = name
                 THEN [name |-> name, entries |-> Over(entries, list[i].entries)]
                 ELSE list[i]]
    BY <1>1, <1>2 DEF Put
  <2>2. Len(p) = Len(list)
    BY <1>1, <2>1
  <2>3. \A i \in 1..Len(list) :
          \/ p[i] = list[i]
          \/ p[i].entries = Over(entries, list[i].entries)
    BY <2>1
  <2> HIDE DEF p
  <2>4. \A i \in 1..Len(list) : NeatEntries(Over(entries, list[i].entries))
    BY DEF Neat, NeatEntries, Over
  <2>5. Neat(p)
    BY <2>2, <2>3, <2>4 DEF Neat
  <2> QED
    BY <2>5 DEF p
<1>3. CASE ~ \E i \in DOMAIN list : list[i].name = name
  <2> DEFINE new == [name |-> name, entries |-> entries]
  <2>1. new \in Sections /\ new.entries = entries
    BY DEF Sections
  <2> HIDE DEF new
  <2>2. p = Append(list, new)
    BY <1>3 DEF Put, new
  <2>3. /\ Len(p) = Len(list) + 1 /\ p[Len(list) + 1] = new
        /\ \A i \in 1..Len(list) : p[i] = list[i]
    BY <2>1, <2>2, AppendProperties
  <2>4. \A i \in 1..Len(p) : i = Len(list) + 1 \/ i \in 1..Len(list)
    BY <1>1, <2>3
  <2> HIDE DEF p
  <2>5. Neat(p)
    BY <2>1, <2>3, <2>4 DEF Neat
  <2> QED
    BY <2>5 DEF p
<1> QED
  BY <1>2, <1>3

-----------------------------------------------------------------------------
(* What the n-th section of the content makes of the list.                 *)
Added(content, n, list) ==
  IF Carries(content[n].entries) = {} THEN list
  ELSE Put(list, Upper[content[n].name], Taken(content[n].entries))

LEMMA NoneLoaded == << >> \in Seq(Sections) /\ Canonical(<< >>) /\ << >> \in Loaded
<1>1. << >> \in Seq(Sections) /\ Len(<< >>) = 0
  BY EmptySeq
<1>2. Canonical(<< >>) /\ Neat(<< >>)
  BY <1>1 DEF Canonical, Neat
<1> QED
  BY <1>1, <1>2 DEF Loaded

LEMMA AddedLoaded ==
  ASSUME NEW content \in Seq(Sections), NEW n \in 1..Len(content), NEW list \in Loaded
  PROVE  Added(content, n, list) \in Loaded
<1> DEFINE name == Upper[content[n].name]
           e == content[n].entries
           entries == Taken(e)
<1>1. content[n] \in Sections
  BY ElementOfSeq
<1>2. name \in DOMAIN Upper /\ e \in Entries /\ Upper[name] = name
  BY <1>1, Sorts DEF Sections
<1>3. list \in Seq(Sections) /\ Canonical(list) /\ Neat(list)
  BY DEF Loaded
<1>4. CASE Carries(e) = {}
  BY <1>4 DEF Added
<1>5. CASE Carries(e) # {}
  <2>1. entries \in Entries /\ NeatEntries(entries)
    <3> HIDE DEF e
    <3> QED
      BY <1>2, <1>5, TakenType
  <2>2. Added(content, n, list) = Put(list, name, entries)
    BY <1>5 DEF Added
  <2> HIDE DEF name, entries
  <2> QED
    BY <1>2, <1>3, <2>1, <2>2, PutType, PutCanonical, PutNeat DEF Loaded
<1> QED
  BY <1>4, <1>5

(* Parsed is the last of the lists that adding the sections leaves.        *)
LEMMA ParsedReads ==
  ASSUME NEW content \in Seq(Sections)
  PROVE  \E f : /\ f[0] = << >>
                /\ \A n \in 1..Len(content) : f[n] = Added(content, n, f[n - 1])
                /\ \A n \in 0..Len(content) : f[n] \in Loaded
                /\ Parsed(content) = f[Len(content)]
<1> DEFINE m == Len(content)
           Is(f) == f = [n \in 0..m |->
                           IF n = 0 THEN << >>
                           ELSE IF Carries(content[n].entries) = {} THEN f[n - 1]
                           ELSE Put(f[n - 1], Upper[content[n].name],
                                    Taken(content[n].entries))]
           f == CHOOSE f : Is(f)
<1>1. m \in Nat
  BY LenProperties
<1>2. \E g : Is(g)
  <2> DEFINE step == [n \in 1..m |-> [list \in Loaded |-> Added(content, n, list)]]
  <2>1. step \in [1..m -> [Loaded -> Loaded]]
    BY AddedLoaded
  <2>2. \A n \in 1..m : \A list \in Loaded : step[n][list] = Added(content, n, list)
    OBVIOUS
  <2> HIDE DEF step
  <2>3. PICK g \in [0..m -> Loaded] : g[0] = << >> /\ \A n \in 1..m : g[n] = step[n][g[n - 1]]
    <3> DEFINE none == << >>
    <3>1. none \in Loaded
      BY <1>1, NoneLoaded
    <3> HIDE DEF m, none
    <3>2. \E g \in [0..m -> Loaded] : Follows(g, m, none, step)
      BY <1>1, <2>1, <3>1, Iterates
    <3> QED
      BY <3>2 DEF none, Follows
  <2>4. \A n \in 1..m : n - 1 \in 0..m /\ g[n - 1] \in Loaded
    BY <1>1, <2>3
  <2>5. \A n \in 1..m : g[n] = Added(content, n, g[n - 1])
    BY <2>2, <2>3, <2>4
  <2>6. \A n \in 0..m : n # 0 => n \in 1..m
    BY <1>1
  <2>7. g = [n \in 0..m |-> IF n = 0 THEN << >> ELSE Added(content, n, g[n - 1])]
    BY <2>3, <2>5, <2>6
  <2>8. Is(g)
    BY <2>7 DEF Added
  <2> QED
    BY <2>8
<1>3. Is(f)
  BY <1>2
<1>4. Parsed(content) = f[m]
  BY Zenon DEF Parsed
<1>5. f = [n \in 0..m |-> IF n = 0 THEN << >> ELSE Added(content, n, f[n - 1])]
  BY <1>3 DEF Added
<1> HIDE DEF f
<1>6. f[0] = << >> /\ \A n \in 1..m : f[n] = Added(content, n, f[n - 1])
  BY <1>1, <1>5
<1> DEFINE good == {n \in 0..m : f[n] \in Loaded}
<1>7. 0 \in good
  BY <1>1, <1>6, NoneLoaded
<1>8. ASSUME NEW n \in 1..m, n - 1 \in good PROVE n \in good
  <2> DEFINE before == f[n - 1]
  <2>1. before \in Loaded /\ f[n] = Added(content, n, before)
    BY <1>6, <1>8
  <2> HIDE DEF before
  <2>2. f[n] \in Loaded
    BY <2>1, AddedLoaded
  <2> QED
    BY <1>1, <2>2
<1>9. \A n \in 0..m : n \in good
  <2> HIDE DEF good, m
  <2> QED
    BY <1>1, <1>7, <1>8, Onwards
<1> QED
  BY <1>4, <1>6, <1>9

(* Whatever the file holds, reading it leaves a canonical list, whose      *)
(* values a line carries whole.                                            *)
LEMMA ParsedLoaded ==
  ASSUME NEW content \in Seq(Sections)
  PROVE  /\ Parsed(content) \in Loaded
         /\ Parsed(content) \in Seq(Sections) /\ Canonical(Parsed(content))
<1>1. Parsed(content) \in Loaded
  <2>1. Len(content) \in Nat
    BY LenProperties
  <2> QED
    BY <2>1, ParsedReads
<1> QED
  BY <1>1 DEF Loaded

(* Each section of g is what its lines carry of one of the first n of h    *)
(* that has a value left, and each of these is there.                      *)
Read(section) == [name |-> section.name, entries |-> Taken(section.entries)]

Mirrors(g, h, n) ==
  /\ \A j \in 1..Len(g) : \E i \in 1..n : Carries(h[i].entries) # {} /\ g[j] = Read(h[i])
  /\ \A i \in 1..n : Carries(h[i].entries) # {} => \E j \in 1..Len(g) : g[j] = Read(h[i])

LEMMA ParsedMirrors ==
  ASSUME NEW h \in Seq(Sections), Canonical(h)
  PROVE  Mirrors(Parsed(h), h, Len(h))
<1>1. PICK f : /\ f[0] = << >>
               /\ \A n \in 1..Len(h) : f[n] = Added(h, n, f[n - 1])
               /\ \A n \in 0..Len(h) : f[n] \in Loaded
               /\ Parsed(h) = f[Len(h)]
  BY ParsedReads
<1>2. Len(h) \in Nat /\ \A i \in 1..Len(h) : h[i] \in Sections
  BY LenProperties, ElementOfSeq
<1> DEFINE good == {n \in 0..Len(h) : Mirrors(f[n], h, n)}
<1>3. 0 \in good
  <2>1. Len(f[0]) = 0
    BY <1>1, EmptySeq
  <2> QED
    BY <1>2, <2>1 DEF Mirrors
<1>4. ASSUME NEW n \in 1..Len(h), n - 1 \in good PROVE n \in good
  <2> DEFINE b == f[n - 1]
             a == f[n]
  <2>1. /\ n - 1 \in 0..Len(h) /\ b \in Loaded /\ a = Added(h, n, b) /\ Mirrors(b, h, n - 1)
        /\ h[n] \in Sections /\ Upper[h[n].name] = h[n].name
    BY <1>1, <1>2, <1>4 DEF Canonical
  <2> HIDE DEF a, b
  <2>2. b \in Seq(Sections) /\ Len(b) \in Nat /\ DOMAIN b = 1..Len(b)
    BY <2>1, LenProperties DEF Loaded
  <2>3. \A i \in 1..n : i \in 1..(n - 1) \/ i = n
    OBVIOUS
  <2>4. \A i \in 1..(n - 1) : i \in 1..n /\ i \in 1..Len(h) /\ i # n
    BY <1>2
  <2>5. CASE Carries(h[n].entries) = {}
    <3>1. a = b
      BY <2>1, <2>5 DEF Added
    <3>2. \A j \in 1..Len(a) :
            \E i \in 1..n : Carries(h[i].entries) # {} /\ a[j] = Read(h[i])
      BY <2>1, <2>4, <3>1 DEF Mirrors
    <3>3. \A i \in 1..n : Carries(h[i].entries) # {} => \E j \in 1..Len(a) : a[j] = Read(h[i])
      BY <2>1, <2>3, <2>5, <3>1 DEF Mirrors
    <3>4. Mirrors(a, h, n)
      BY <3>2, <3>3 DEF Mirrors
    <3> QED
      BY <1>2, <3>4 DEF a
  <2>6. CASE Carries(h[n].entries) # {}
    <3> DEFINE new == Read(h[n])
    <3>1. new \in Sections
      BY <2>1, <2>6, TakenType DEF Sections, Read
    <3>2. ASSUME NEW j \in DOMAIN b PROVE b[j].name # h[n].name
      <4>1. PICK i \in 1..(n - 1) : b[j] = Read(h[i])
        BY <2>1, <2>2 DEF Mirrors
      <4>2. h[i].name # h[n].name
        BY <2>4 DEF Canonical
      <4> QED
        BY <4>1, <4>2 DEF Read
    <3>3. a = Append(b, new)
      BY <2>1, <2>6, <3>2 DEF Added, Put, Read
    <3> HIDE DEF new
    <3>4. /\ Len(a) = Len(b) + 1 /\ a[Len(b) + 1] = new
          /\ \A j \in 1..Len(b) : a[j] = b[j]
      BY <2>2, <3>1, <3>3, AppendProperties
    <3>5. /\ \A j \in 1..Len(a) : j \in 1..Len(b) \/ j = Len(b) + 1
          /\ \A j \in 1..Len(b) : j \in 1..Len(a)
          /\ Len(b) + 1 \in 1..Len(a)
      BY <2>2, <3>4
    <3>6. ASSUME NEW j \in 1..Len(a)
          PROVE  \E i \in 1..n : Carries(h[i].entries) # {} /\ a[j] = Read(h[i])
      <4>1. CASE j \in 1..Len(b)
        BY <2>1, <2>4, <3>4, <4>1 DEF Mirrors
      <4>2. CASE j = Len(b) + 1
        <5>1. n \in 1..n /\ a[j] = Read(h[n])
          BY <3>4, <4>2 DEF new
        <5> QED
          BY <2>6, <5>1
      <4> QED
        BY <3>5, <4>1, <4>2
    <3>7. ASSUME NEW i \in 1..n, Carries(h[i].entries) # {}
          PROVE  \E j \in 1..Len(a) : a[j] = Read(h[i])
      <4>1. CASE i \in 1..(n - 1)
        BY <2>1, <3>4, <3>5, <3>7, <4>1 DEF Mirrors
      <4>2. CASE i = n
        BY <3>4, <3>5, <4>2 DEF new
      <4> QED
        BY <2>3, <4>1, <4>2
    <3>8. Mirrors(a, h, n)
      BY <3>6, <3>7 DEF Mirrors
    <3> QED
      BY <1>2, <3>8 DEF a
  <2> QED
    BY <2>5, <2>6
<1>5. \A n \in 0..Len(h) : n \in good
  <2> HIDE DEF good
  <2> QED
    BY <1>2, <1>3, <1>4, Onwards
<1> QED
  BY <1>1, <1>2, <1>5

(* What a canonical list says under a name and a key.                      *)
LEMMA ValueAt ==
  ASSUME NEW h \in Seq(Sections), Canonical(h), NEW i \in 1..Len(h), NEW k
  PROVE  Value(h, h[i].name, k)
           = IF k \in DOMAIN h[i].entries THEN h[i].entries[k] ELSE None
<1> DEFINE at == {j \in DOMAIN h : h[j].name = h[i].name}
           first == CHOOSE j \in at : \A l \in at : j <= l
<1>1. DOMAIN h = 1..Len(h) /\ Len(h) \in Nat
  BY LenProperties
<1>2. at = {i}
  BY <1>1 DEF Canonical
<1>3. first = i
  BY <1>1, <1>2
<1>4. Value(h, h[i].name, k)
        = IF at # {} /\ k \in DOMAIN h[first].entries THEN h[first].entries[k] ELSE None
  BY Zenon DEF Value
<1> HIDE DEF at, first
<1> QED
  BY <1>2, <1>3, <1>4

LEMMA ValueNowhere ==
  ASSUME NEW h \in Seq(Sections), NEW name, NEW k, \A i \in 1..Len(h) : h[i].name # name
  PROVE  Value(h, name, k) = None
<1>1. DOMAIN h = 1..Len(h)
  BY LenProperties
<1> QED
  BY <1>1 DEF Value

LEMMA EntryText ==
  ASSUME NEW h \in Seq(Sections), NEW i \in 1..Len(h), NEW k \in DOMAIN h[i].entries
  PROVE  h[i].entries[k] \in Texts /\ h[i].entries[k] # None
<1>1. h[i] \in Sections
  BY ElementOfSeq
<1>2. h[i].entries \in Entries
  BY <1>1 DEF Sections
<1> QED
  BY <1>2, IniAssumption DEF Entries

(* Saving a canonical list and reading it again leaves what lines carry.   *)
LEMMA ReadsBack ==
  ASSUME NEW h \in Seq(Sections), Canonical(h), NEW name, NEW k
  PROVE  Value(Parsed(h), name, k) = AsText(Value(h, name, k))
<1> DEFINE g == Parsed(h)
<1>1. g \in Seq(Sections) /\ Canonical(g) /\ Mirrors(g, h, Len(h))
  BY ParsedLoaded, ParsedMirrors
<1> HIDE DEF g
<1>2. CASE \A i \in 1..Len(h) : h[i].name # name
  <2>1. ASSUME NEW j \in 1..Len(g) PROVE g[j].name # name
    <3>1. PICK i \in 1..Len(h) : g[j] = Read(h[i])
      BY <1>1 DEF Mirrors
    <3>2. g[j].name = h[i].name
      BY <3>1 DEF Read
    <3> QED
      BY <1>2, <3>2
  <2>2. Value(h, name, k) = None /\ Value(g, name, k) = None
    BY <1>1, <1>2, <2>1, ValueNowhere
  <2> QED
    BY <2>2 DEF AsText, g
<1>3. ASSUME NEW i \in 1..Len(h), h[i].name = name
      PROVE  Value(g, name, k) = AsText(Value(h, name, k))
  <2> DEFINE e == h[i].entries
  <2>1. Value(h, name, k) = IF k \in DOMAIN e THEN e[k] ELSE None
    BY <1>3, ValueAt
  <2>2. k \in DOMAIN e => e[k] \in Texts /\ e[k] # None
    BY EntryText
  <2>3. CASE Carries(e) # {}
    <3>1. PICK j \in 1..Len(g) : g[j] = Read(h[i])
      BY <1>1, <2>3 DEF Mirrors
    <3>2. g[j].name = name /\ g[j].entries = Taken(e)
      BY <1>3, <3>1 DEF Read
    <3>3. Value(g, name, k) = IF k \in DOMAIN Taken(e) THEN Taken(e)[k] ELSE None
      <4>1. Value(g, g[j].name, k)
              = IF k \in DOMAIN g[j].entries THEN g[j].entries[k] ELSE None
        BY <1>1, ValueAt
      <4> QED
        BY <3>2, <4>1
    <3>4. /\ k \in DOMAIN Taken(e) <=> k \in DOMAIN e /\ Carried(e[k]) # << >>
          /\ k \in DOMAIN Taken(e) => Taken(e)[k] = Carried(e[k])
      BY DEF Taken, Carries
    <3> HIDE DEF e
    <3> QED
      BY <2>1, <2>2, <3>3, <3>4 DEF AsText
  <2>4. CASE Carries(e) = {}
    <3>1. ASSUME NEW j \in 1..Len(g) PROVE g[j].name # name
      <4>1. PICK l \in 1..Len(h) : Carries(h[l].entries) # {} /\ g[j] = Read(h[l])
        BY <1>1 DEF Mirrors
      <4>2. l # i
        BY <2>4, <4>1
      <4> QED
        BY <1>3, <4>1, <4>2 DEF Read, Canonical
    <3>2. Value(g, name, k) = None
      BY <1>1, <3>1, ValueNowhere
    <3>3. k \in DOMAIN e => Carried(e[k]) = << >>
      BY <2>4 DEF Carries
    <3> HIDE DEF e
    <3> QED
      BY <2>1, <3>2, <3>3 DEF AsText
  <2> QED
    BY <2>3, <2>4
<1> QED
  BY <1>2, <1>3 DEF g

(* What was loaded is carried whole.                                       *)
LEMMA LoadedIsText ==
  ASSUME NEW g \in Loaded, NEW name, NEW k
  PROVE  AsText(Value(g, name, k)) = Value(g, name, k)
<1>1. g \in Seq(Sections) /\ Canonical(g) /\ Neat(g)
  BY DEF Loaded
<1>2. CASE \A i \in 1..Len(g) : g[i].name # name
  BY <1>1, <1>2, ValueNowhere DEF AsText
<1>3. ASSUME NEW i \in 1..Len(g), g[i].name = name
      PROVE  AsText(Value(g, name, k)) = Value(g, name, k)
  <2> DEFINE t == g[i].entries[k]
  <2>1. Value(g, name, k) = IF k \in DOMAIN g[i].entries THEN t ELSE None
    BY <1>1, <1>3, ValueAt
  <2>2. ASSUME k \in DOMAIN g[i].entries PROVE AsText(t) = t
    <3>1. t \in Texts /\ t # None
      BY <1>1, <2>2, EntryText
    <3>2. Clean(t) /\ t # << >>
      BY <1>1, <2>2 DEF Neat, NeatEntries
    <3> HIDE DEF t
    <3>3. Carried(t) = t
      BY <3>1, <3>2, CarriedSame
    <3> QED
      BY <3>1, <3>2, <3>3 DEF AsText
  <2> HIDE DEF t
  <2> QED
    BY <2>1, <2>2 DEF AsText
<1> QED
  BY <1>2, <1>3

LEMMA SaysSame ==
  ASSUME NEW content, Says(content), heading \in Seq(Sections), Canonical(heading),
         NEW name, NEW k
  PROVE  AsText(Value(heading, name, k)) = Value(Parsed(content), name, k)
<1>1. CASE heading = content
  BY <1>1, ReadsBack
<1>2. CASE heading = Parsed(content) /\ heading \in Loaded
  BY <1>2, LoadedIsText
<1> QED
  BY <1>1, <1>2 DEF Says

LEMMA WithValueType ==
  ASSUME NEW list \in Seq(Sections), NEW w \in Writes
  PROVE  /\ WithValue(list, w) \in Seq(Sections)
         /\ CallersUseUpper /\ Canonical(list) => Canonical(WithValue(list, w))
<1>1. /\ w.name \in DOMAIN Upper /\ Upper[w.name] \in DOMAIN Upper
      /\ Entry(w) \in Entries
      /\ Upper[Upper[w.name]] = Upper[w.name]
  BY EntryType, Sorts
<1> DEFINE e == Entry(w)
           u == Upper[w.name]
           n == w.name
<1> HIDE DEF e, u, n
<1>2. e \in Entries /\ u \in DOMAIN Upper /\ n \in DOMAIN Upper /\ Upper[u] = u
  BY <1>1 DEF e, u, n
<1>3. WithValue(list, w) = IF list = << >> THEN Put(list, u, e) ELSE Put(list, n, e)
  BY DEF WithValue, e, u, n
<1>4. CallersUseUpper => Upper[n] = n
  BY DEF CallersUseUpper, n
<1>5. Put(list, u, e) \in Seq(Sections) /\ Put(list, n, e) \in Seq(Sections)
  BY <1>2, PutType
<1>6. Canonical(list) => Canonical(Put(list, u, e))
  BY <1>2, PutCanonical
<1>7. Canonical(list) /\ CallersUseUpper => Canonical(Put(list, n, e))
  BY <1>2, <1>4, PutCanonical
<1> QED
  BY <1>3, <1>5, <1>6, <1>7

LEMMA PutSome ==
  ASSUME NEW list \in Seq(Sections), NEW name \in DOMAIN Upper, NEW entries \in Entries
  PROVE  Put(list, name, entries) # << >>
<1>1. CASE \E i \in DOMAIN list : list[i].name = name
  <2>1. DOMAIN Put(list, name, entries) = DOMAIN list /\ DOMAIN list # {}
    BY <1>1 DEF Put
  <2> QED
    BY <2>1
<1>2. CASE ~ \E i \in DOMAIN list : list[i].name = name
  <2>1. [name |-> name, entries |-> entries] \in Sections
    BY DEF Sections
  <2> QED
    BY <1>2, <2>1, AppendProperties DEF Put
<1> QED
  BY <1>1, <1>2

LEMMA WithValueSome ==
  ASSUME NEW list \in Seq(Sections), NEW w \in Writes
  PROVE  WithValue(list, w) # << >>
<1>1. w.name \in DOMAIN Upper /\ Upper[w.name] \in DOMAIN Upper /\ Entry(w) \in Entries
  BY EntryType, Sorts
<1> DEFINE e == Entry(w)
           u == Upper[w.name]
           n == w.name
<1>2. Put(list, u, e) # << >> /\ Put(list, n, e) # << >>
  <2> HIDE DEF e, u, n
  <2>1. e \in Entries /\ u \in DOMAIN Upper /\ n \in DOMAIN Upper
    BY <1>1 DEF e, u, n
  <2> QED
    BY <2>1, PutSome
<1> QED
  BY <1>2 DEF WithValue

-----------------------------------------------------------------------------
(* What is left of the list, and what is at the path. *)
LEMMA LastNone ==
  ASSUME NEW h \in Seq(Sections)
  PROVE  \E n \in 0..Len(h) : << >> = SubSeq(h, n + 1, Len(h))
<1>1. Len(h) \in Nat
  BY LenProperties
<1>2. SubSeq(h, Len(h) + 1, Len(h)) = << >>
  BY <1>1, SubSeqEmpty
<1> QED
  BY <1>1, <1>2

LEMMA LastAll ==
  ASSUME NEW h \in Seq(Sections)
  PROVE  \E n \in 0..Len(h) : h = SubSeq(h, n + 1, Len(h))
<1>1. Len(h) \in Nat
  BY LenProperties
<1>2. SubSeq(h, 0 + 1, Len(h)) = h
  BY SubSeqFull
<1> QED
  BY <1>1, <1>2

(* The part of a list behind its n-th element, without its first k.        *)
LEMMA LastOfLast ==
  ASSUME NEW h \in Seq(Sections), NEW n \in 0..Len(h), NEW s, s = SubSeq(h, n + 1, Len(h)),
         NEW k \in 1..Len(s)
  PROVE  /\ s \in Seq(Sections) /\ SubSeq(s, 1, k) \in Seq(Sections)
         /\ \E m \in 0..Len(h) : SubSeq(s, k + 1, Len(s)) = SubSeq(h, m + 1, Len(h))
<1>1. Len(h) \in Nat /\ n \in Nat /\ \A i \in 1..Len(h) : h[i] \in Sections
  BY LenProperties, ElementOfSeq
<1>2. \A i \in (n + 1)..Len(h) : h[i] \in Sections
  BY <1>1
<1>3. /\ s \in Seq(Sections)
      /\ Len(s) = IF n + 1 <= Len(h) THEN Len(h) - (n + 1) + 1 ELSE 0
  BY <1>1, <1>2, SubSeqProperties
<1>4. Len(s) = Len(h) - n /\ k \in Nat /\ k <= Len(s) /\ Len(s) \in Nat
  BY <1>1, <1>3
<1>5. SubSeq(s, 1, k) \in Seq(Sections)
  <2>1. \A i \in 1..k : s[i] \in Sections
    BY <1>3, <1>4, ElementOfSeq
  <2> QED
    BY <1>4, <2>1, SubSeqProperties
<1>6. CASE k = Len(s)
  <2>1. SubSeq(s, k + 1, Len(s)) = << >>
    BY <1>4, <1>6, SubSeqEmpty
  <2> QED
    BY <1>3, <1>5, <2>1, LastNone
<1>7. CASE k < Len(s)
  <2>1. /\ n + 1 \in 1..Len(h) /\ Len(h) \in 1..Len(h)
        /\ k + 1 \in 1..(Len(h) - (n + 1) + 1) /\ Len(s) \in 1..(Len(h) - (n + 1) + 1)
    BY <1>1, <1>4, <1>7
  <2>2. SubSeq(SubSeq(h, n + 1, Len(h)), k + 1, Len(s))
          = SubSeq(h, (n + 1) + (k + 1) - 1, (n + 1) + Len(s) - 1)
    <3> DEFINE a == n + 1  b == k + 1  l == Len(s)  z == Len(h)
    <3>1. a \in 1..Len(h) /\ z \in 1..Len(h) /\ b \in 1..(z - a + 1) /\ l \in 1..(z - a + 1)
      BY <2>1
    <3> HIDE DEF a, b, l, z
    <3>2. SubSeq(SubSeq(h, a, z), b, l) = SubSeq(h, a + b - 1, a + l - 1)
      BY <3>1, SubSeqOfSubSeq
    <3> QED
      BY <3>2 DEF a, b, l, z
  <2>3. (n + 1) + (k + 1) - 1 = (n + k) + 1 /\ (n + 1) + Len(s) - 1 = Len(h)
    <3> DEFINE l == Len(s)  z == Len(h)
    <3>1. z \in Nat /\ n \in Nat /\ k \in Nat /\ l = z - n
      BY <1>1, <1>4
    <3> HIDE DEF l, z
    <3>2. (n + 1) + (k + 1) - 1 = (n + k) + 1 /\ (n + 1) + l - 1 = z
      BY <3>1
    <3> QED
      BY <3>2 DEF l, z
  <2>4. n + k \in 0..Len(h)
    BY <1>1, <1>4
  <2> QED
    BY <1>3, <1>5, <2>2, <2>3, <2>4
<1>8. k = Len(s) \/ k < Len(s)
  BY <1>4
<1> QED
  BY <1>6, <1>7, <1>8

LEMMA ContentType == ASSUME NEW d \in OnDisk \cup {Absent} PROVE Content(d) \in Seq(Sections)
<1>1. d # Absent => d.content \in Seq(Sections)
  BY DEF OnDisk
<1> QED
  BY <1>1, EmptySeq DEF Content, There

LEMMA Stored ==
  ASSUME TypeOK, NEW c \in Seq(Sections), Store(c)
  PROVE  /\ disk' \in OnDisk /\ There(disk') /\ disk'.mtime = now
         /\ written'.at \in 1..MaxTime /\ written'.again \in BOOLEAN /\ written'.at = now
<1>1. now \in 1..MaxTime
  BY Sorts DEF TypeOK
<1>2. disk' = [content |-> c, mtime |-> now] /\ disk' \in OnDisk
  BY <1>1 DEF Store, OnDisk
<1>3. There(disk')
  BY <1>2, Sorts DEF There
<1>4. disk'.mtime = now
  BY <1>2
<1> QED
  BY <1>1, <1>2, <1>3, <1>4 DEF Store

(* Opening puts nothing at the path, and may lose the first section; each  *)
(* write takes some.                                                       *)
LEMMA LeftOver ==
  ASSUME TypeOK, Saving, SaveOpens \/ SaveWrites
  PROVE  /\ \E n \in 0..Len(heading) : left' = SubSeq(heading, n + 1, Len(heading))
         /\ (UNCHANGED diskVars) \/ \E c \in Seq(Sections) : Store(c)
<1>1. PICK n \in 0..Len(heading) : left = SubSeq(heading, n + 1, Len(heading))
  BY DEF TypeOK
<1>2. heading \in Seq(Sections) /\ left # << >>
  BY DEF TypeOK, Saving, SaveOpens, SaveWrites
<1>3. /\ left \in Seq(Sections)
      /\ \A k \in 1..Len(left) :
           /\ SubSeq(left, 1, k) \in Seq(Sections)
           /\ \E m \in 0..Len(heading) :
                SubSeq(left, k + 1, Len(left)) = SubSeq(heading, m + 1, Len(heading))
  <2>1. left \in Seq(Sections)
    <3>1. Len(heading) \in Nat /\ \A i \in 1..Len(heading) : heading[i] \in Sections
      BY <1>2, LenProperties, ElementOfSeq
    <3>2. n + 1 \in Int /\ Len(heading) \in Int
      BY <3>1
    <3>3. \A i \in (n + 1)..Len(heading) : heading[i] \in Sections
      BY <3>1
    <3> QED
      BY <1>1, <3>2, <3>3, SubSeqProperties
  <2> QED
    BY <1>1, <1>2, <2>1, LastOfLast
<1>4. CASE SaveOpens
  <2>1. CASE Store(<< >>) /\ left' = left
    BY <1>1, <2>1, EmptySeq
  <2>2. CASE UNCHANGED diskVars /\ left' = Tail(left)
    <3>1. Tail(left) = SubSeq(left, 2, Len(left)) /\ 1 \in 1..Len(left)
      BY <1>2, <1>3, TailIsSubSeq, EmptySeq
    <3>2. \E m \in 0..Len(heading) :
            SubSeq(left, 1 + 1, Len(left)) = SubSeq(heading, m + 1, Len(heading))
      BY <1>3, <3>1
    <3> QED
      BY <2>2, <3>1, <3>2
  <2> QED
    BY <1>4, <2>1, <2>2 DEF SaveOpens
<1>5. CASE SaveWrites
  <2>1. PICK k \in 1..Len(left) :
          /\ left' = SubSeq(left, k + 1, Len(left))
          /\ \/ Store(Content(disk) \o SubSeq(left, 1, k))
             \/ UNCHANGED diskVars
    BY <1>5 DEF SaveWrites
  <2>2. Content(disk) \o SubSeq(left, 1, k) \in Seq(Sections)
    <3>1. Content(disk) \in Seq(Sections) /\ SubSeq(left, 1, k) \in Seq(Sections)
      BY <1>3, ContentType DEF TypeOK
    <3> QED
      BY <3>1, ConcatProperties
  <2> QED
    BY <1>3, <2>1, <2>2
<1> QED
  BY <1>4, <1>5

LEMMA EditedType ==
  ASSUME TypeOK, Editor
  PROVE  /\ disk' \in OnDisk \cup {Absent} /\ edits' \in 0..MaxEdits
         /\ There(disk') => disk'.mtime = now /\ written'.at = now
         /\ There(disk') => written'.again = (written.at = now)
         /\ ~There(disk') => written' = written
         /\ written'.at \in 1..MaxTime /\ written'.again \in BOOLEAN
<1>1. PICK d : Edit(d) /\ (d = Absent \/ \E c \in Contents : d = [content |-> c, mtime |-> now])
  BY DEF Editor
<1>2. now \in 1..MaxTime /\ edits + 1 \in 0..MaxEdits
  BY <1>1, Sorts DEF TypeOK, Edit
<1>3. d # Absent => d \in OnDisk /\ d.mtime = now
  BY <1>1, <1>2, Sorts DEF OnDisk
<1>4. disk' = d /\ edits' = edits + 1
      /\ written' = IF There(d) THEN [at |-> now, again |-> written.at = now] ELSE written
  BY <1>1 DEF Edit
<1>5. CASE d = Absent
  BY <1>2, <1>4, <1>5 DEF There, TypeOK
<1>6. CASE d # Absent
  <2>1. There(d) /\ There(disk')
    BY <1>4, <1>6 DEF There
  <2>2. written'.at = now /\ written'.again = (written.at = now)
    BY <1>4, <2>1
  <2>3. (written.at = now) \in BOOLEAN
    OBVIOUS
  <2> QED
    BY <1>2, <1>3, <1>4, <1>6, <2>1, <2>2, <2>3
<1> QED
  BY <1>5, <1>6

(* The types are kept. *)
LEMMA TypeStep == IInv /\ [Next]_vars => TypeOK'
<1> SUFFICES ASSUME IInv, [Next]_vars PROVE TypeOK'
  OBVIOUS
<1> USE DEF IInv, memoryVars, diskVars
<1>1. CASE Tick
  BY <1>1, Sorts DEF Tick, TypeOK
<1>2. CASE Editor
  <2>1. /\ UNCHANGED <<now, crashes, heading, modTime, ready, pc, call, left, trusted>>
        /\ linked' = FALSE
    BY <1>2 DEF Editor, Edit
  <2> QED
    BY <1>2, <2>1, EditedType DEF TypeOK
<1>3. CASE Crash
  <2>1. \E n \in 0..Len(<< >>) : << >> = SubSeq(<< >>, n + 1, Len(<< >>))
    BY NoneLoaded, LastNone
  <2>2. << >> \in Seq(Sections) /\ 0 \in 0..MaxTime /\ There(disk) \in BOOLEAN
    BY NoneLoaded, Sorts DEF There
  <2>3. crashes' \in 0..MaxCrashes /\ call'.op = "construct"
    BY <1>3, Sorts DEF Crash, Constructs, TypeOK
  <2> QED
    BY <1>3, <2>1, <2>2, <2>3 DEF Crash, TypeOK
<1>4. ASSUME NEW r \in Reads, ReadValue(r) PROVE TypeOK'
  BY <1>4 DEF ReadValue, TypeOK
<1>5. ASSUME NEW w \in Writes, WriteValue(w) PROVE TypeOK'
  <2>1. heading' \in Seq(Sections)
    BY <1>5, WithValueType DEF WriteValue, TypeOK
  <2>2. \E n \in 0..Len(heading') : left' = SubSeq(heading', n + 1, Len(heading'))
    <3>1. CASE heading' = heading
      BY <1>5, <3>1 DEF WriteValue, TypeOK
    <3>2. CASE left' = heading'
      BY <2>1, <3>2, LastAll
    <3> QED
      BY <1>5, <3>1, <3>2 DEF WriteValue
  <2>3. call'.op = "write" /\ trusted' \in BOOLEAN /\ pc' \in {"free", "open"}
    BY <1>5 DEF WriteValue, TypeOK
  <2> QED
    BY <1>5, <2>1, <2>2, <2>3 DEF WriteValue, TypeOK
<1>6. CASE Look
  BY <1>6 DEF Look, TypeOK
<1>7. CASE Stamp
  <2>1. left = << >>
    BY <1>7 DEF Stamp, Saving
  <2>2. \E n \in 0..Len(<< >>) : << >> = SubSeq(<< >>, n + 1, Len(<< >>))
    BY NoneLoaded, LastNone
  <2>3. MTime(disk) \in 0..MaxTime
    BY Sorts DEF MTime, There, TypeOK, OnDisk
  <2> QED
    BY <1>7, <2>1, <2>2, <2>3, NoneLoaded DEF Stamp, TypeOK
<1>8. CASE LoadFile
  <2>1. heading' \in Seq(Sections)
    <3>1. Content(disk) \in Seq(Sections)
      BY ContentType DEF TypeOK
    <3> QED
      BY <1>8, <3>1, ParsedLoaded, NoneLoaded DEF LoadFile
  <2>2. left' = << >>
    BY <1>8 DEF LoadFile, Saving
  <2>3. \E n \in 0..Len(heading') : left' = SubSeq(heading', n + 1, Len(heading'))
    BY <2>1, <2>2, LastNone
  <2> QED
    BY <1>8, <2>1, <2>3 DEF LoadFile, TypeOK
<1>9. CASE ReadReturns
  BY <1>9 DEF ReadReturns, TypeOK
<1>10. CASE SaveOpens \/ SaveWrites
  <2>1. /\ UNCHANGED <<crashes, heading, modTime, ready, call, trusted>>
        /\ pc' \in {"open", "write", "restamp"} /\ linked' \in BOOLEAN
    BY <1>10 DEF SaveOpens, SaveWrites, TypeOK
  <2>2. /\ disk' \in OnDisk \cup {Absent}
        /\ written'.at \in 1..MaxTime /\ written'.again \in BOOLEAN
        /\ UNCHANGED <<now, edits>>
    <3>1. CASE UNCHANGED diskVars
      BY <3>1 DEF TypeOK
    <3>2. ASSUME NEW c \in Seq(Sections), Store(c) PROVE <2>2
      <4>1. UNCHANGED <<now, edits>>
        BY <3>2 DEF Store
      <4> QED
        BY <3>2, <4>1, Stored
    <3> QED
      BY <1>10, <3>1, <3>2, LeftOver
  <2>3. \E n \in 0..Len(heading) : left' = SubSeq(heading, n + 1, Len(heading))
    BY <1>10, LeftOver
  <2> QED
    BY <2>1, <2>2, <2>3 DEF TypeOK
<1>11. CASE Restamp
  <2>1. MTime(disk) \in 0..MaxTime
    BY Sorts DEF MTime, There, TypeOK, OnDisk
  <2>2. (linked /\ Content(disk) = heading) \in BOOLEAN
    BY DEF TypeOK
  <2> QED
    BY <1>11, <2>1, <2>2 DEF Restamp, TypeOK
<1>12. CASE UNCHANGED vars
  BY <1>12 DEF vars, TypeOK
<1> QED
  BY <1>1, <1>2, <1>3, <1>4, <1>5, <1>6, <1>7, <1>8, <1>9, <1>10, <1>11, <1>12 DEF Next

(* The sections left, the call and the canonical list are as they should be. *)
LEMMA ControlStep == IInv /\ [Next]_vars => Saving' /\ Calling'
<1> SUFFICES ASSUME IInv, [Next]_vars PROVE Saving' /\ Calling'
  OBVIOUS
<1> USE DEF IInv, Saving, Calling, memoryVars, diskVars
<1>1. CASE Tick
  BY <1>1 DEF Tick
<1>2. CASE Editor
  BY <1>2 DEF Editor, Edit
<1>3. CASE Crash
  BY <1>3 DEF Crash, Constructs
<1>4. ASSUME NEW r \in Reads, ReadValue(r) PROVE Saving' /\ Calling'
  BY <1>4 DEF ReadValue
<1>5. ASSUME NEW w \in Writes, WriteValue(w) PROVE Saving' /\ Calling'
  <2>1. CASE UNCHANGED <<pc, left>>
    BY <1>5, <2>1 DEF WriteValue
  <2>2. CASE pc' = "open" /\ left' = heading'
    <3>1. heading \in Seq(Sections) /\ heading' = WithValue(heading, w)
      BY <1>5 DEF WriteValue, TypeOK
    <3>2. heading' # << >>
      BY <3>1, WithValueSome
    <3> QED
      BY <2>2, <3>2
  <2> QED
    BY <1>5, <2>1, <2>2 DEF WriteValue
<1>6. CASE Look
  BY <1>6 DEF Look
<1>7. CASE Stamp
  BY <1>7 DEF Stamp
<1>8. CASE LoadFile
  BY <1>8 DEF LoadFile
<1>9. CASE ReadReturns
  BY <1>9 DEF ReadReturns
<1>10. CASE SaveOpens
  BY <1>10 DEF SaveOpens
<1>11. CASE SaveWrites
  BY <1>11 DEF SaveWrites
<1>12. CASE Restamp
  BY <1>12 DEF Restamp
<1>13. CASE UNCHANGED vars
  BY <1>13 DEF vars
<1> QED
  BY <1>1, <1>2, <1>3, <1>4, <1>5, <1>6, <1>7, <1>8, <1>9, <1>10, <1>11, <1>12, <1>13 DEF Next

LEMMA CanonicalStep ==
  IInv /\ [Next]_vars => (CallersUseUpper => Canonical(heading'))
<1> SUFFICES ASSUME IInv, [Next]_vars, CallersUseUpper PROVE Canonical(heading')
  OBVIOUS
<1>1. Canonical(heading) /\ heading \in Seq(Sections) /\ Content(disk) \in Seq(Sections)
  BY ContentType DEF IInv, TypeOK
<1>2. CASE UNCHANGED heading
  BY <1>1, <1>2
<1>3. ASSUME NEW w \in Writes, WriteValue(w) PROVE Canonical(heading')
  BY <1>1, <1>3, WithValueType DEF WriteValue
<1>4. CASE heading' = << >>
  BY <1>4, NoneLoaded
<1>5. CASE heading' = Parsed(Content(disk))
  BY <1>1, <1>5, ParsedLoaded
<1>6. Tick \/ Editor \/ Look \/ ReadReturns \/ SaveOpens \/ SaveWrites \/ Restamp
        => UNCHANGED heading
  BY DEF Tick, Editor, Edit, Look, ReadReturns, SaveOpens, SaveWrites, Restamp, memoryVars
<1>7. \A r \in Reads : ReadValue(r) => UNCHANGED heading
  BY DEF ReadValue, memoryVars
<1>8. Crash \/ Stamp => heading' = << >>
  BY DEF Crash, Stamp
<1>9. LoadFile => heading' = << >> \/ heading' = Parsed(Content(disk))
  BY DEF LoadFile
<1>10. UNCHANGED vars => UNCHANGED heading
  BY DEF vars, memoryVars
<1> QED
  BY <1>2, <1>3, <1>4, <1>5, <1>6, <1>7, <1>8, <1>9, <1>10 DEF Next

(* Time goes on, and every writing of the path has the time it is made. *)
LEMMA DatedStep == IInv /\ [Next]_vars => Dated'
<1> SUFFICES ASSUME IInv, [Next]_vars PROVE Dated'
  OBVIOUS
<1>1. /\ now \in Nat /\ modTime \in Nat /\ written.at \in Nat /\ MTime(disk) \in Nat
      /\ MTime(disk) <= written.at /\ modTime <= written.at /\ written.at <= now
  <2>1. now \in Nat /\ modTime \in Nat /\ written.at \in Nat /\ MTime(disk) \in Nat
    BY Sorts DEF IInv, TypeOK, MTime, There, OnDisk
  <2> QED
    BY <2>1 DEF IInv, Dated
<1>2. CASE UNCHANGED <<disk, written, modTime>> /\ now' \in {now, now + 1}
  BY <1>1, <1>2 DEF Dated, MTime, There
<1>3. CASE UNCHANGED diskVars /\ modTime' \in {0, MTime(disk)}
  BY <1>1, <1>3 DEF Dated, MTime, There, diskVars
<1>4. CASE Editor
  <2>1. UNCHANGED <<now, modTime>>
    BY <1>4 DEF Editor, Edit, memoryVars
  <2>2. /\ There(disk') => disk'.mtime = now /\ written'.at = now
        /\ ~There(disk') => written' = written
    BY <1>4, EditedType DEF IInv
  <2> QED
    BY <1>1, <2>1, <2>2 DEF Dated, MTime
<1>5. CASE SaveOpens \/ SaveWrites
  <2>1. UNCHANGED modTime
    BY <1>5 DEF SaveOpens, SaveWrites, memoryVars
  <2>2. ASSUME NEW c \in Seq(Sections), Store(c) PROVE Dated'
    <3>1. There(disk') /\ disk'.mtime = now /\ written'.at = now /\ now' = now
      BY <2>2, Stored DEF IInv, Store
    <3> QED
      BY <1>1, <2>1, <3>1 DEF Dated, MTime
  <2>3. UNCHANGED diskVars \/ \E c \in Seq(Sections) : Store(c)
    BY <1>5, LeftOver DEF IInv
  <2> QED
    BY <1>3, <2>1, <2>2, <2>3, <1>2 DEF diskVars
<1>6. Tick => UNCHANGED <<disk, written, modTime>> /\ now' = now + 1
  BY DEF Tick, memoryVars
<1>7. Crash \/ Stamp \/ Restamp => UNCHANGED diskVars /\ modTime' \in {0, MTime(disk)}
  BY DEF Crash, Stamp, Restamp
<1>8. Look \/ LoadFile \/ ReadReturns \/ UNCHANGED vars
        => UNCHANGED <<disk, written, modTime, now>>
  BY DEF Look, LoadFile, ReadReturns, vars, diskVars, memoryVars
<1>9. \A r \in Reads : ReadValue(r) => UNCHANGED <<disk, written, modTime, now>>
  BY DEF ReadValue, diskVars, memoryVars
<1>10. \A w \in Writes : WriteValue(w) => UNCHANGED <<disk, written, modTime, now>>
  BY DEF WriteValue, diskVars, memoryVars
<1> QED
  BY <1>2, <1>3, <1>4, <1>5, <1>6, <1>7, <1>8, <1>9, <1>10 DEF Next

LEMMA LatestStep == IInv /\ [Next]_vars => Latest'
<1> SUFFICES ASSUME IInv, [Next]_vars PROVE Latest'
  OBVIOUS
<1>1. Latest /\ Calling
  BY DEF IInv
<1>2. CASE UNCHANGED <<disk, written, call, seen>> /\ pc \in {"look", "stamp", "load", "answer"}
  BY <1>1, <1>2 DEF Latest, Version
<1>3. CASE pc' \notin {"look", "stamp", "load", "answer"} \/ call'.op # "read"
  BY <1>3 DEF Latest
<1>4. CASE Tick
  BY <1>1, <1>4 DEF Tick, Latest, Version
<1>5. CASE Editor
  <2>1. /\ UNCHANGED <<pc, call>>
        /\ seen' = IF pc = "free" THEN seen ELSE seen \cup {Version(disk', written')}
    BY <1>5 DEF Editor, Edit
  <2> QED
    BY <2>1 DEF Latest
<1>6. ASSUME NEW r \in Reads, ReadValue(r) PROVE Latest'
  BY <1>6 DEF ReadValue, Latest, diskVars, Version
<1>7. ASSUME NEW w \in Writes, WriteValue(w) PROVE Latest'
  BY <1>3, <1>7 DEF WriteValue
<1>8. Look \/ Stamp \/ LoadFile
        => /\ UNCHANGED <<disk, written, call, seen>>
           /\ pc \in {"look", "stamp", "load", "answer"}
  BY DEF Look, Stamp, LoadFile, diskVars
<1>9. ReadReturns \/ SaveOpens \/ SaveWrites \/ Restamp
        => pc' \notin {"look", "stamp", "load", "answer"}
  BY DEF ReadReturns, SaveOpens, SaveWrites, Restamp
<1>10. Crash => call'.op # "read"
  BY DEF Crash, Constructs
<1>11. CASE UNCHANGED vars
  BY <1>1, <1>11 DEF vars, diskVars, Latest, Version
<1> QED
  BY <1>2, <1>3, <1>4, <1>5, <1>6, <1>7, <1>8, <1>9, <1>10, <1>11 DEF Next

(* A change of the file changes its time, unless it falls in the second of *)
(* the writing before, or leaves nothing, as LoadFile found it.            *)
LEMMA FreshStep == IInv /\ [Next]_vars => (CallersUseUpper => Fresh')
<1> SUFFICES ASSUME IInv, [Next]_vars, CallersUseUpper PROVE Fresh'
  OBVIOUS
<1>1. Fresh /\ Canonical(heading) /\ heading \in Seq(Sections)
  BY DEF IInv, TypeOK
<1>2. CASE /\ UNCHANGED <<disk, written, trusted, modTime, heading>>
           /\ pc \in {"free", "look", "answer"}
  BY <1>1, <1>2 DEF Fresh, Vanished, Version, Says
<1>3. CASE pc' \notin {"free", "look", "answer"} \/ trusted' = FALSE
  BY <1>3 DEF Fresh
<1>4. CASE Editor
  <2> SUFFICES ASSUME trusted, pc \in {"free", "look", "answer"}, modTime = MTime(disk'),
                      ~Vanished
               PROVE  Version(disk', written').again \/ heading = Content(disk')
    <3>1. UNCHANGED <<trusted, pc, modTime, heading>>
      BY <1>4 DEF Editor, Edit, memoryVars
    <3> QED
      BY <3>1 DEF Fresh, Vanished, Says
  <2>1. /\ There(disk') => /\ disk'.mtime = now
                           /\ written'.again = (written.at = now)
        /\ modTime <= written.at /\ written.at <= now
        /\ modTime \in Nat /\ written.at \in Nat /\ now \in Nat
    <3>1. modTime \in Nat /\ written.at \in Nat /\ now \in Nat
      BY Sorts DEF IInv, TypeOK
    <3> QED
      BY <1>4, <3>1, EditedType DEF IInv, Dated
  <2>2. CASE There(disk')
    <3>1. modTime = now
      BY <2>1, <2>2 DEF MTime
    <3>2. written.at = now
      BY <2>1, <3>1
    <3>3. written'.again = (written.at = now)
      BY <2>1, <2>2
    <3>4. written'.again = TRUE
      BY <3>2, <3>3
    <3> QED
      BY <2>2, <3>4 DEF Version
  <2>3. CASE ~There(disk')
    <3>1. modTime = 0 /\ Content(disk') = << >>
      BY <2>3 DEF MTime, Content
    <3>2. heading = << >>
      BY <3>1 DEF Vanished
    <3> QED
      BY <3>1, <3>2
  <2> QED
    BY <2>2, <2>3
<1>5. CASE LoadFile
  <2>1. trusted' = FALSE \/ (heading' = Parsed(Content(disk)) /\ disk' = disk)
    BY <1>5 DEF LoadFile, diskVars
  <2>2. Parsed(Content(disk)) \in Loaded
    BY ContentType, ParsedLoaded DEF IInv, TypeOK
  <2> QED
    BY <1>3, <2>1, <2>2 DEF Fresh, Says
<1>6. CASE Restamp
  <2>1. /\ UNCHANGED <<disk, heading>>
        /\ trusted' => Content(disk) = heading
    BY <1>6 DEF Restamp, diskVars
  <2> QED
    BY <2>1 DEF Fresh, Says
<1>7. Tick => /\ UNCHANGED <<disk, written, trusted, modTime, heading, pc>>
  BY DEF Tick, memoryVars
<1>8. \A r \in Reads : ReadValue(r) =>
        UNCHANGED <<disk, written, trusted, modTime, heading>> /\ pc = "free"
  BY DEF ReadValue, diskVars, memoryVars
<1>9. Look \/ ReadReturns => /\ UNCHANGED <<disk, written, trusted, modTime, heading>>
                             /\ pc \in {"look", "answer"}
  BY DEF Look, ReadReturns, diskVars, memoryVars
<1>10. ASSUME NEW w \in Writes, WriteValue(w) PROVE Fresh'
  BY <1>2, <1>3, <1>10 DEF WriteValue, diskVars
<1>11. Stamp \/ SaveOpens \/ SaveWrites => pc' \in {"load", "open", "write", "restamp"}
  BY DEF Stamp, SaveOpens, SaveWrites
<1>12. Crash => trusted' = FALSE
  BY DEF Crash
<1>13. CASE UNCHANGED <<disk, written, trusted, modTime, heading, pc>>
  BY <1>1, <1>13 DEF Fresh, Vanished, Version, Says
<1>14. UNCHANGED vars => UNCHANGED <<disk, written, trusted, modTime, heading, pc>>
  BY DEF vars, diskVars, memoryVars
<1> QED
  BY <1>2, <1>3, <1>4, <1>5, <1>6, <1>7, <1>8, <1>9, <1>10, <1>11, <1>12, <1>13, <1>14 DEF Next

LEMMA BackedStep == IInv /\ [Next]_vars => (CallersUseUpper => Backed')
<1> SUFFICES ASSUME IInv, [Next]_vars, CallersUseUpper PROVE Backed'
  OBVIOUS
<1>1. Backed /\ Fresh /\ Latest /\ Calling
  BY DEF IInv
<1>2. CASE UNCHANGED <<trusted, pc, modTime, heading>> /\ seen \subseteq seen'
  <2> SUFFICES ASSUME trusted, pc = "answer", ~Vanished
               PROVE  \E v \in seen' : v.again \/ Says(v.content)
    BY <1>2 DEF Backed, Vanished, Says
  <2> QED
    BY <1>1, <1>2 DEF Backed
<1>3. CASE pc' # "answer" \/ trusted' = FALSE
  BY <1>3 DEF Backed
<1>4. CASE Look
  <2> SUFFICES ASSUME trusted, pc' = "answer", ~Vanished
               PROVE  \E v \in seen : v.again \/ Says(v.content)
    BY <1>4 DEF Look, Backed, Vanished, Says, memoryVars
  <2>1. modTime = MTime(disk) /\ pc = "look" /\ call.op = "read"
    BY <1>1, <1>4 DEF Look, Calling
  <2>2. Version(disk, written).again \/ Says(Content(disk))
    BY <1>1, <2>1 DEF Fresh
  <2>3. Version(disk, written) \in seen /\ Version(disk, written).content = Content(disk)
    BY <1>1, <2>1 DEF Latest, Version
  <2> QED
    BY <2>2, <2>3
<1>5. CASE LoadFile
  <2> SUFFICES ASSUME trusted', pc' = "answer"
               PROVE  \E v \in seen : heading' = Parsed(v.content) /\ heading' \in Loaded
    BY <1>5 DEF LoadFile, Backed, Says
  <2>1. heading' = Parsed(Content(disk)) /\ pc = "load" /\ call.op = "read"
    BY <1>1, <1>5 DEF LoadFile, Calling
  <2>2. Version(disk, written) \in seen /\ Version(disk, written).content = Content(disk)
    BY <1>1, <2>1 DEF Latest, Version
  <2>3. Parsed(Content(disk)) \in Loaded
    BY ContentType, ParsedLoaded DEF IInv, TypeOK
  <2> QED
    BY <2>1, <2>2, <2>3
<1>6. Tick \/ UNCHANGED vars => UNCHANGED <<trusted, pc, modTime, heading, seen>>
  BY DEF Tick, vars, memoryVars
<1>7. Editor => UNCHANGED <<trusted, pc, modTime, heading>> /\ seen \subseteq seen'
  BY DEF Editor, Edit, memoryVars
<1>8. /\ \A r \in Reads : ReadValue(r) => pc' # "answer"
      /\ \A w \in Writes : WriteValue(w) => pc' # "answer"
  BY DEF ReadValue, WriteValue
<1>9. Crash \/ Stamp \/ ReadReturns \/ SaveOpens \/ SaveWrites \/ Restamp => pc' # "answer"
  BY DEF Crash, Stamp, ReadReturns, SaveOpens, SaveWrites, Restamp
<1> QED
  BY <1>2, <1>3, <1>4, <1>5, <1>6, <1>7, <1>8, <1>9 DEF Next

-----------------------------------------------------------------------------
LEMMA InitIInv == Init => IInv
<1> SUFFICES ASSUME Init PROVE IInv
  OBVIOUS
<1>1. disk \in OnDisk \cup {Absent} /\ (There(disk) => disk.mtime = 1)
  BY Sorts DEF Init, OnDisk, There
<1>2. \E n \in 0..Len(heading) : left = SubSeq(heading, n + 1, Len(heading))
  BY NoneLoaded, LastNone DEF Init
<1>3. TypeOK
  <2>1. heading \in Seq(Sections) /\ ready \in BOOLEAN /\ call.op = "construct"
    BY NoneLoaded DEF Init, There, Constructs
  <2>2. now \in 2..MaxTime /\ edits \in 0..MaxEdits /\ crashes \in 0..MaxCrashes
    BY Sorts DEF Init
  <2>3. modTime \in 0..MaxTime /\ written.at \in 1..MaxTime /\ written.again \in BOOLEAN
    BY Sorts DEF Init
  <2> QED
    BY <1>1, <1>2, <2>1, <2>2, <2>3 DEF Init, TypeOK
<1>4. Saving /\ Calling /\ Latest /\ Fresh /\ Backed
  BY DEF Init, Saving, Calling, Latest, Fresh, Backed, Constructs
<1>5. Dated
  BY <1>1 DEF Init, Dated, MTime
<1>6. Canonical(heading)
  BY NoneLoaded DEF Init
<1> QED
  BY <1>3, <1>4, <1>5, <1>6 DEF IInv

LEMMA AlwaysIInv == Spec => []IInv
<1>1. IInv /\ [Next]_vars => IInv'
  BY TypeStep, ControlStep, DatedStep, LatestStep, CanonicalStep, FreshStep, BackedStep DEF IInv
<1> QED
  BY <1>1, InitIInv, PTL DEF Spec

(* The settings, the times and the sections left keep their types.         *)
THEOREM TypeCorrect == Spec => []TypeOK
<1>1. IInv => TypeOK
  BY DEF IInv
<1> QED
  BY <1>1, AlwaysIInv, PTL

(* For all headings, entries and contents, and values of any characters:   *)
(* of a list of settings that LoadFile and WriteValue made, LoadFile reads *)
(* back each value as what its line carries, and no other.                 *)
THEOREM SavedCorrect == Spec => []SavedReadsBack
<1>1. IInv => SavedReadsBack
  BY ReadsBack DEF IInv, TypeOK, SavedReadsBack
<1> QED
  BY <1>1, AlwaysIInv, PTL

(* Whatever others do to the file, and whenever the process ends, an       *)
(* answer of ReadValue is what a version of the file says that was there   *)
(* during the call, but for the five exceptions that the property names.   *)
THEOREM ReadsCorrect == Spec => ReadsWhatTheFileSays
<1>1. IInv /\ [Next]_vars =>
        [CallersUseUpper /\ pc = "answer" /\ pc' = "free" /\ trusted =>
           \/ modTime = 0 /\ heading # << >>
           \/ \E v \in seen :
                \/ v.again
                \/ AsText(Answer) = Value(Parsed(v.content), Upper[call.name], call.key)]_vars
  <2> SUFFICES ASSUME IInv, CallersUseUpper, pc = "answer", trusted, ~Vanished
               PROVE  \E v \in seen :
                        \/ v.again
                        \/ AsText(Answer) = Value(Parsed(v.content), Upper[call.name], call.key)
    BY DEF Vanished
  <2>1. PICK v \in seen : v.again \/ Says(v.content)
    BY DEF IInv, Backed
  <2>2. heading \in Seq(Sections) /\ Canonical(heading)
    BY DEF IInv, TypeOK
  <2>3. Says(v.content) => AsText(Answer) = Value(Parsed(v.content), Upper[call.name], call.key)
    BY <2>2, SaysSame DEF Answer
  <2> QED
    BY <2>1, <2>3
<1> QED
  BY <1>1, AlwaysIInv, PTL DEF Spec, ReadsWhatTheFileSays
=============================================================================
