-------------------------- MODULE HttpAccessProofs --------------------------
(* HttpAccess for every tree of directories, every number of workers and   *)
(* of users, and every history of edits: what is granted was justified     *)
(* while the call ran, and no worker logs a verdict older than its own.    *)
(* And base 64, in which a client sends its name and its password, for     *)
(* every string of bytes; and, last, the other conversion of Coding that   *)
(* has a proof, vic, for every text and every number.                      *)
EXTENDS HttpAccess, Coding, FiniteSetTheorems, SequenceTheorems, WellFoundedInduction, TLAPS

(* When the files were written: no later than now, and what is there has   *)
(* the time of the last writing.                                           *)
Dated ==
  \A p \in Files : /\ written[p].at <= now
                   /\ There(disk[p]) => disk[p].mtime = written[p].at

(* A call has seen what the disk holds at this moment.                     *)
Latest ==
  owner # None => \A p \in Files : Version(p, disk[p], written[p].again) \in seen[p]

(* A handle remembers no time later than the last writing. One that does   *)
(* not know a time has found nothing, and never looks again.               *)
Handles(f, p) ==
  /\ f.known => f.last <= written[p].at
  /\ ~f.known => f.valid /\ ~f.exists

(* What was loaded is what the path holds, unless the modification time    *)
(* has moved on since the handle looked, or two writings shared a second.  *)
Fresh(f, p, users) ==
  users # {} /\ f.known =>
    \/ written[p].at > f.last
    \/ written[p].again
    \/ There(disk[p]) => disk[p].users = users

Walking == {"find", "access", "accessModified", "accessLoad", "allowed"}

InCall ==
  /\ pc = "free" <=> owner = None
  /\ owner # None => request \in Requests
  /\ pc \in Walking =>
       /\ request.header = "basic" /\ request.user \in entries
       /\ IF request.dir = None
            THEN dir = None /\ (pc = "find" \/ (pc = "allowed" /\ accessFile = None))
            ELSE dir \in Dirs

PasswdCache ==
  /\ Handles(fileHandle, Passwd)
  /\ loaded /\ pc # "load" => Fresh(fileHandle, Passwd, entries)
  /\ pc = "load" => fileHandle.exists \/ ~fileHandle.known
  /\ pc = "modified" => loaded /\ fileHandle.exists
  /\ pc \in Walking \cup {"check"} => entries = {} \/ Current(Passwd, entries)

AccessCache ==
  /\ accessFile = None => accessUsers = {}
  /\ accessFile # None =>
       /\ accessHandle \in FileObjects(Times) /\ Handles(accessHandle, accessFile)
       /\ accessLoaded /\ pc # "accessLoad" => Fresh(accessHandle, accessFile, accessUsers)
  /\ pc \in {"accessModified", "accessLoad"} => accessFile = dir
  /\ pc = "accessLoad" => accessHandle.exists \/ ~accessHandle.known
  /\ pc = "accessModified" => accessLoaded /\ accessHandle.exists
  /\ pc = "allowed" /\ accessFile # None =>
       accessFile = dir /\ (accessUsers = {} \/ Current(accessFile, accessUsers))

(* The walk has come to dir, and there was nothing below.                  *)
Walk ==
  pc \in Walking /\ request.dir # None =>
    /\ dir \in Upwards(request.dir)
    /\ \A d \in Upwards(request.dir) \ Upwards(dir) : Missed(d)
    /\ pc = "allowed" /\ accessFile = None => \A d \in Upwards(request.dir) : Missed(d)

Verdicts ==
  owner = None => \A w \in Workers : state[w] = "answered" => lastAuth \in since[w]

(* TypeOK in parts. *)
WorldType ==
  /\ disk \in [Files -> OnDisk] /\ now \in Times /\ edits \in 0..MaxEdits
  /\ written \in [Files -> [at : Times, again : BOOLEAN]]

CallType ==
  /\ owner \in Workers \cup {None}
  /\ pc \in {"free", "exists", "modified", "load", "check", "find", "access",
             "accessModified", "accessLoad", "allowed"}
  /\ dir \in Dirs \cup {None}
  /\ request \in Requests \cup {None}
  /\ state \in [Workers -> {"idle", "asking", "answered"}]
  /\ lastAuth \in Verdict
  /\ seen \in [Files -> SUBSET Versions]
  /\ since \in [Workers -> SUBSET Verdict]

PasswdType ==
  /\ fileHandle \in FileObjects(Times) /\ loaded \in BOOLEAN
  /\ entries \in SUBSET Users

AccessType ==
  /\ accessFile \in Dirs \cup {None}
  /\ accessHandle \in FileObjects(Times) \cup {None}
  /\ accessLoaded \in BOOLEAN /\ accessUsers \in SUBSET Users

IInv ==
  /\ TypeOK /\ Dated /\ Latest /\ InCall
  /\ PasswdCache /\ AccessCache /\ Walk /\ Verdicts

-----------------------------------------------------------------------------
(* The tree of directories.                                                *)
LEMMA UpwardsStep ==
  ASSUME NEW d \in Dirs, NEW x \in Upwards(d), x # d
  PROVE  Parent[d] # None /\ x \in Upwards(Parent[d])
<1>1. Parent[d] \in Dirs \cup {None}
  BY AccessAssumption
<1>2. CASE Parent[d] = None
  <2>1. d \in {d} /\ \A y \in {d} : Parent[y] # None => Parent[y] \in {d}
    BY <1>2
  <2>2. x \in {d}
    BY <2>1 DEF Upwards
  <2> QED
    BY <2>2
<1>3. CASE Parent[d] \in Dirs
  <2>1. Parent[d] # None
    BY <1>3, AccessAssumption
  <2>2. ASSUME NEW S \in SUBSET Dirs, Parent[d] \in S,
               \A y \in S : Parent[y] # None => Parent[y] \in S
        PROVE  x \in S
    <3>1. /\ S \cup {d} \in SUBSET Dirs /\ d \in S \cup {d}
          /\ \A y \in S \cup {d} : Parent[y] # None => Parent[y] \in S \cup {d}
      BY <2>2
    <3>2. x \in S \cup {d}
      BY <3>1 DEF Upwards
    <3> QED
      BY <3>2
  <2>3. x \in Dirs
    BY DEF Upwards
  <2> QED
    BY <2>1, <2>2, <2>3 DEF Upwards
<1> QED
  BY <1>1, <1>2, <1>3

LEMMA UpwardsHas == ASSUME NEW d \in Dirs PROVE d \in Upwards(d)
  BY DEF Upwards

LEMMA UpwardsCloses ==
  ASSUME NEW d \in Dirs, NEW x \in Upwards(d), Parent[x] # None
  PROVE  Parent[x] \in Upwards(d)
<1>1. x \in Dirs /\ Parent[x] \in Dirs
  BY AccessAssumption DEF Upwards
<1> QED
  BY <1>1 DEF Upwards

(* What a File answers and remembers.                                      *)
LEMMA ExistsLooks ==
  ASSUME NEW f \in FileObjects(Times), NEW d \in OnDisk
  PROVE  /\ AfterExists(f, d) \in FileObjects(Times)
         /\ AfterExists(f, d).valid
         /\ AfterExists(f, d).exists = (IF f.valid THEN f.exists ELSE There(d))
         /\ AfterExists(f, d).known = f.known /\ AfterExists(f, d).last = f.last
  BY DEF AfterExists, RefreshStatCache, FileObjects, There

LEMMA TimeOfDisk == ASSUME NEW d \in OnDisk PROVE MTimeOf(d) \in Times
  BY AccessAssumption DEF OnDisk, MTimeOf, There, Times

LEMMA ModifiedLooks ==
  ASSUME NEW f \in FileObjects(Times), NEW d \in OnDisk
  PROVE  /\ AfterIsModified(f, d) \in FileObjects(Times)
         /\ AfterIsModified(f, d).valid
         /\ AfterIsModified(f, d).exists = There(d)
         /\ AfterIsModified(f, d).known = There(d)
         /\ AfterIsModified(f, d).last = MTimeOf(d)
  BY TimeOfDisk DEF AfterIsModified, RefreshStatCache, FileObjects, There

LEMMA ReadingKeeps ==
  ASSUME NEW f \in FileObjects(Times), NEW d \in OnDisk
  PROVE  /\ AfterReading(f, d) \in FileObjects(Times)
         /\ AfterReading(f, d).known = f.known
         /\ AfterReading(f, d).last = f.last
         /\ ~Opens(f, d) => AfterReading(f, d) = f
  BY DEF AfterReading, Opens, FileObjects, There

LEMMA NewLooks ==
  ASSUME NEW d \in OnDisk
  PROVE  /\ NewFile(d) \in FileObjects(Times)
         /\ NewFile(d).valid /\ NewFile(d).exists = There(d)
         /\ NewFile(d).known = There(d) /\ NewFile(d).last = MTimeOf(d)
  BY TimeOfDisk DEF NewFile, FileObjects, There

LEMMA DiskType ==
  ASSUME TypeOK, NEW p \in Files
  PROVE  /\ disk[p] \in OnDisk /\ written[p].at \in Times /\ written[p].again \in BOOLEAN
         /\ There(disk[p]) => disk[p].users \in SUBSET Users /\ disk[p].users \in Contents
                              /\ disk[p].mtime \in Times
         /\ Version(p, disk[p], written[p].again) \in Versions
  BY AccessAssumption DEF TypeOK, OnDisk, There, Version, Versions

-----------------------------------------------------------------------------
LEMMA InitIInv == Init => IInv
<1> SUFFICES ASSUME Init PROVE IInv
  OBVIOUS
<1>1. \A p \in Files : disk[p] \in OnDisk /\ (There(disk[p]) => disk[p].mtime = 0)
  BY AccessAssumption DEF Init, OnDisk, There, Times
<1>2. Passwd \in Files /\ 0 \in Times /\ 1 \in Times
  BY AccessAssumption DEF Files, Times
<1>3. /\ fileHandle \in FileObjects(Times) /\ fileHandle.valid
      /\ fileHandle.exists = There(disk[Passwd]) /\ fileHandle.known = There(disk[Passwd])
      /\ fileHandle.last = MTimeOf(disk[Passwd])
  BY <1>1, <1>2, NewLooks DEF Init
<1>4. TypeOK
  <2>1. disk \in [Files -> OnDisk]
    BY <1>1 DEF Init
  <2>2. written \in [Files -> [at : Times, again : BOOLEAN]]
    BY <1>2 DEF Init
  <2>3. now \in Times /\ edits \in 0..MaxEdits
    BY <1>2, AccessAssumption DEF Init
  <2>4. lastAuth \in Verdict
    BY DEF Init, Verdict
  <2>5. state \in [Workers -> {"idle", "asking", "answered"}]
    BY DEF Init
  <2>6. seen \in [Files -> SUBSET Versions] /\ since \in [Workers -> SUBSET Verdict]
    BY DEF Init
  <2> QED
    BY <1>3, <2>1, <2>2, <2>3, <2>4, <2>5, <2>6 DEF Init, TypeOK
<1>5. \A p \in Files : written[p].at = 0
  BY DEF Init
<1>6. Dated /\ Latest
  BY <1>1, <1>5 DEF Init, Dated, Latest
<1>7. InCall /\ AccessCache /\ Walk /\ Verdicts
  BY DEF Init, InCall, AccessCache, Walk, Walking, Verdicts
<1>8. PasswdCache
  <2>1. Handles(fileHandle, Passwd)
    BY <1>1, <1>2, <1>3, <1>5 DEF Handles, MTimeOf
  <2> QED
    BY <2>1 DEF Init, PasswdCache, Walking
<1> QED
  BY <1>4, <1>6, <1>7, <1>8 DEF IInv

LEMMA TypeParts == TypeOK = (WorldType /\ CallType /\ PasswdType /\ AccessType)
  BY DEF TypeOK, WorldType, CallType, PasswdType, AccessType

-----------------------------------------------------------------------------
(* What every step inside a call has in common.                            *)
LEMMA GotoKeeps ==
  ASSUME IInv, owner # None, NEW d \in Dirs \cup {None},
         NEW label \in {"modified", "load", "check", "find", "access", "accessModified",
                        "accessLoad", "allowed"},
         Goto(label, d), UNCHANGED <<diskVars, written>>
  PROVE  WorldType' /\ CallType' /\ Dated' /\ Latest' /\ Verdicts'
<1>1. /\ UNCHANGED <<disk, now, edits, written, owner, request, state, lastAuth, since, seen>>
      /\ pc' = label /\ dir' = d
  BY DEF Goto, diskVars
<1>2. WorldType /\ CallType
  BY TypeParts DEF IInv
<1>3. WorldType' /\ CallType'
  BY <1>1, <1>2 DEF WorldType, CallType
<1>4. Dated' /\ Latest' /\ Verdicts'
  BY <1>1 DEF IInv, Dated, Latest, Verdicts, Version
<1> QED
  BY <1>3, <1>4

LEMMA AnswerKeeps ==
  ASSUME IInv, owner # None, NEW verdict \in Verdict, Answer(verdict),
         UNCHANGED <<diskVars, written>>
  PROVE  /\ WorldType' /\ CallType' /\ Dated' /\ Latest' /\ InCall' /\ Walk' /\ Verdicts'
         /\ pc' = "free"
<1>1. /\ UNCHANGED <<disk, now, edits, written>> /\ pc' = "free" /\ owner' = None
      /\ dir' = None /\ request' = None /\ lastAuth' = verdict
      /\ seen' = [p \in Files |-> {}]
      /\ state' = [state EXCEPT ![owner] = "answered"]
      /\ since' = [w \in Workers |->
                     IF w = owner THEN {verdict}
                     ELSE IF state[w] = "answered" THEN since[w] \cup {verdict}
                     ELSE since[w]]
  BY DEF Answer, diskVars
<1>2. WorldType /\ CallType
  BY TypeParts DEF IInv
<1>3. WorldType'
  BY <1>1, <1>2 DEF WorldType
<1>4. CallType'
  <2>1. since' \in [Workers -> SUBSET Verdict]
    BY <1>1, <1>2 DEF CallType
  <2> QED
    BY <1>1, <1>2, <2>1 DEF CallType
<1>5. Dated' /\ Latest' /\ InCall' /\ Walk'
  BY <1>1 DEF IInv, Dated, Latest, InCall, Walk, Walking
<1>6. Verdicts'
  BY <1>1, <1>2 DEF Verdicts, CallType
<1> QED
  BY <1>1, <1>3, <1>4, <1>5, <1>6

LEMMA PasswdStays ==
  ASSUME PasswdType, PasswdCache, UNCHANGED <<diskVars, written, cacheVars>>,
         pc # "load", pc' \notin {"load", "modified"},
         pc' \in Walking \cup {"check"} => pc \in Walking \cup {"check"} /\ seen' = seen
  PROVE  PasswdType' /\ PasswdCache'
<1>1. UNCHANGED <<disk, written, fileHandle, loaded, entries>>
  BY DEF diskVars, cacheVars
<1>2. Handles(fileHandle, Passwd)' /\ (Fresh(fileHandle, Passwd, entries)' = Fresh(fileHandle, Passwd, entries))
  BY <1>1 DEF PasswdCache, Handles, Fresh
<1>3. seen' = seen => (Current(Passwd, entries)' = Current(Passwd, entries))
  BY <1>1 DEF Current
<1> QED
  BY <1>1, <1>2, <1>3 DEF PasswdCache, PasswdType

LEMMA AccessStays ==
  ASSUME AccessType, AccessCache, UNCHANGED <<diskVars, written, accessVars>>,
         pc # "accessLoad", pc' \notin {"accessModified", "accessLoad", "allowed"}
  PROVE  AccessType' /\ AccessCache'
<1>1. UNCHANGED <<disk, written, accessFile, accessHandle, accessLoaded, accessUsers>>
  BY DEF diskVars, accessVars
<1>2. accessFile # None =>
        /\ Handles(accessHandle, accessFile)'
        /\ Fresh(accessHandle, accessFile, accessUsers)' = Fresh(accessHandle, accessFile, accessUsers)
  BY <1>1 DEF AccessCache, Handles, Fresh
<1> QED
  BY <1>1, <1>2 DEF AccessCache, AccessType

LEMMA CallsOwn ==
  ASSUME IInv, pc # "free"
  PROVE  /\ owner # None /\ owner \in Workers
         /\ request \in [user : Users, dir : Dirs \cup {None}, header : {"basic", "bad"}]
         /\ Unidentified \in Verdict /\ Denied \in Verdict /\ Granted \in Verdict
<1>1. owner # None /\ owner \in Workers /\ request \in Requests
  BY DEF IInv, InCall, TypeOK
<1>2. request \in [user : Users, dir : Dirs \cup {None}, header : {"basic", "bad"}]
  BY <1>1, AccessAssumption
<1> QED
  BY <1>1, <1>2 DEF Unidentified, NoVerdict, Denied, Granted, Verdict

-----------------------------------------------------------------------------
(* The outside.                                                            *)
LEMMA TickKeeps == ASSUME IInv, Tick PROVE IInv'
<1>1. /\ UNCHANGED <<disk, edits, written, seen>> /\ UNCHANGED callVars
      /\ UNCHANGED <<fileHandle, loaded, entries>>
      /\ UNCHANGED <<accessFile, accessHandle, accessLoaded, accessUsers>>
      /\ now' = now + 1 /\ now' \in Times
  BY AccessAssumption DEF Tick, cacheVars, accessVars, IInv, TypeOK, Times
<1>2. TypeOK'
  BY <1>1 DEF IInv, TypeOK, callVars
<1>3. Dated'
  <2>1. \A p \in Files : written[p].at \in Times
    BY DiskType DEF IInv
  <2> QED
    BY <1>1, <2>1 DEF IInv, TypeOK, Dated, Times
<1>4. Latest' /\ InCall' /\ Walk' /\ Verdicts'
  BY <1>1 DEF IInv, Latest, InCall, Walk, Verdicts, callVars, Missed, Version
<1>5. PasswdCache' /\ AccessCache'
  BY <1>1 DEF IInv, PasswdCache, AccessCache, callVars, Handles, Fresh, Current
<1> QED
  BY <1>2, <1>3, <1>4, <1>5 DEF IInv

(* An edit leaves a handle's memory behind, or in the second it remembers. *)
LEMMA EditedHandle ==
  ASSUME IInv, NEW p \in Files, NEW d \in OnDisk, There(d) => d.mtime = now, Edit(p, d),
         NEW f \in FileObjects(Times), NEW q \in Files, NEW users, Handles(f, q)
  PROVE  /\ (f.known => f.last <= written'[q].at)
         /\ Fresh(f, q, users) /\ users # {} /\ f.known =>
              \/ written'[q].at > f.last
              \/ written'[q].again
              \/ There(disk'[q]) => disk'[q].users = users
<1>1. /\ disk' = [disk EXCEPT ![p] = d]
      /\ written' = IF There(d)
                      THEN [written EXCEPT ![p] = [at |-> now, again |-> written[p].at = now]]
                      ELSE written
  BY DEF Edit
<1>2. f.last \in Nat /\ now \in Nat /\ written[q].at \in Nat /\ written[q].at <= now
  BY DiskType DEF IInv, TypeOK, FileObjects, Times, Dated
<1>3. CASE q # p
  <2>1. disk'[q] = disk[q] /\ written'[q] = written[q]
    BY <1>1, <1>3 DEF IInv, TypeOK
  <2> QED
    BY <2>1 DEF Handles, Fresh
<1>4. CASE q = p /\ ~There(d)
  <2>1. ~There(disk'[q]) /\ written' = written
    BY <1>1, <1>4 DEF IInv, TypeOK
  <2> QED
    BY <2>1 DEF Handles, Fresh
<1>5. CASE q = p /\ There(d)
  <2>1. written'[q].at = now /\ written'[q].again = (written[q].at = now)
    BY <1>1, <1>5 DEF IInv, TypeOK
  <2>2. f.known => f.last <= now /\ (f.last < now \/ written[q].at = now)
    BY <1>2 DEF Handles
  <2>3. CASE f.known /\ f.last < now
    BY <1>2, <2>1, <2>3
  <2>4. CASE f.known /\ written[q].at = now
    BY <1>2, <2>1, <2>2, <2>4
  <2> QED
    BY <2>2, <2>3, <2>4
<1> QED
  BY <1>3, <1>4, <1>5

LEMMA EditKeeps ==
  ASSUME IInv, NEW p \in Files, NEW d \in OnDisk, There(d) => d.mtime = now, Edit(p, d)
  PROVE  IInv'
<1>1. /\ UNCHANGED <<now, fileHandle, loaded, entries, accessFile, accessHandle,
                     accessLoaded, accessUsers>>
      /\ UNCHANGED <<owner, pc, dir, request, state, lastAuth, since>>
      /\ disk' = [disk EXCEPT ![p] = d] /\ edits' = edits + 1 /\ edits < MaxEdits
      /\ written' = IF There(d)
                      THEN [written EXCEPT ![p] = [at |-> now, again |-> written[p].at = now]]
                      ELSE written
      /\ seen' = IF owner = None THEN seen
                 ELSE [seen EXCEPT ![p] = @ \cup {Version(p, d, written'[p].again)}]
  BY DEF Edit, cacheVars, accessVars, callVars
<1>2. written' \in [Files -> [at : Times, again : BOOLEAN]]
  <2>1. [at |-> now, again |-> written[p].at = now] \in [at : Times, again : BOOLEAN]
    BY DEF IInv, TypeOK
  <2> QED
    BY <1>1, <2>1 DEF IInv, TypeOK
<1>3. Version(p, d, written'[p].again) \in Versions
  <2>1. written'[p].again \in BOOLEAN
    BY <1>2
  <2> QED
    BY <2>1 DEF Version, Versions, OnDisk, There
<1>4. seen' \in [Files -> SUBSET Versions] /\ \A q \in Files : seen[q] \subseteq seen'[q]
  BY <1>1, <1>3 DEF IInv, TypeOK
<1>5. TypeOK'
  <2>1. disk' \in [Files -> OnDisk]
    BY <1>1 DEF IInv, TypeOK
  <2>2. edits' \in 0..MaxEdits
    BY <1>1, AccessAssumption DEF IInv, TypeOK
  <2> QED
    BY <1>1, <1>2, <1>4, <2>1, <2>2 DEF IInv, TypeOK
<1>6. Dated'
  <2> SUFFICES ASSUME NEW q \in Files
               PROVE  written'[q].at <= now /\ (There(disk'[q]) => disk'[q].mtime = written'[q].at)
    BY <1>1 DEF Dated
  <2>1. now \in Nat /\ written[q].at \in Nat /\ written[q].at <= now
        /\ (There(disk[q]) => disk[q].mtime = written[q].at)
    BY DiskType DEF IInv, TypeOK, Times, Dated
  <2>2. CASE q # p
    BY <1>1, <2>1, <2>2 DEF IInv, TypeOK
  <2>3. CASE q = p
    BY <1>1, <2>1, <2>3 DEF IInv, TypeOK
  <2> QED
    BY <2>2, <2>3
<1>7. Latest'
  <2> SUFFICES ASSUME owner # None, NEW q \in Files
               PROVE  Version(q, disk'[q], written'[q].again) \in seen'[q]
    BY <1>1 DEF Latest, Version
  <2>1. CASE q # p
    <3>1. disk'[q] = disk[q] /\ written'[q] = written[q] /\ seen'[q] = seen[q]
      BY <1>1, <2>1 DEF IInv, TypeOK
    <3> QED
      BY <3>1 DEF IInv, Latest
  <2>2. CASE q = p
    <3>1. disk'[q] = d /\ seen'[q] = seen[q] \cup {Version(p, d, written'[p].again)}
      BY <1>1, <2>2 DEF IInv, TypeOK
    <3> QED
      BY <2>2, <3>1
  <2> QED
    BY <2>1, <2>2
<1>8. /\ \A q \in Files : Missed(q) => Missed(q)'
      /\ \A q \in Files, users \in SUBSET Users : Current(q, users) => Current(q, users)'
  BY <1>4 DEF Missed, Current
<1>9. Passwd \in Files /\ Dirs \subseteq Files
  BY DEF Files
<1>10. PasswdCache'
  <2>1. /\ fileHandle.known => fileHandle.last <= written'[Passwd].at
        /\ Fresh(fileHandle, Passwd, entries) => Fresh(fileHandle, Passwd, entries)'
    BY <1>1, <1>9, EditedHandle DEF IInv, TypeOK, PasswdCache, Fresh
  <2>2. Handles(fileHandle, Passwd)'
    BY <1>1, <2>1 DEF IInv, PasswdCache, Handles
  <2>3. Current(Passwd, entries) => Current(Passwd, entries)'
    BY <1>1, <1>8, <1>9 DEF IInv, TypeOK, Current
  <2> QED
    BY <1>1, <2>1, <2>2, <2>3 DEF IInv, PasswdCache
<1>11. AccessCache'
  <2>1. CASE accessFile = None
    BY <1>1, <2>1 DEF IInv, AccessCache
  <2>2. CASE accessFile # None
    <3>1. accessFile \in Files /\ accessHandle \in FileObjects(Times)
          /\ Handles(accessHandle, accessFile)
      BY <1>9, <2>2 DEF IInv, TypeOK, AccessCache
    <3>2. /\ accessHandle.known => accessHandle.last <= written'[accessFile].at
          /\ Fresh(accessHandle, accessFile, accessUsers)
               => Fresh(accessHandle, accessFile, accessUsers)'
      BY <1>1, <3>1, EditedHandle DEF Fresh
    <3>3. Handles(accessHandle, accessFile)'
      BY <1>1, <3>1, <3>2 DEF Handles
    <3>4. Current(accessFile, accessUsers) => Current(accessFile, accessUsers)'
      BY <1>1, <1>4, <3>1 DEF Current
    <3> QED
      BY <1>1, <2>2, <3>2, <3>3, <3>4 DEF IInv, AccessCache
  <2> QED
    BY <2>1, <2>2
<1>12. Walk'
  <2>1. \A x : Upwards(x) \subseteq Files
    BY <1>9 DEF Upwards
  <2>2. \A x : Upwards(x)' = Upwards(x)
    BY DEF Upwards
  <2> QED
    BY <1>1, <1>8, <2>1, <2>2 DEF IInv, Walk
<1>13. InCall' /\ Verdicts'
  BY <1>1 DEF IInv, InCall, Verdicts
<1> QED
  BY <1>5, <1>6, <1>7, <1>10, <1>11, <1>12, <1>13 DEF IInv

LEMMA EditorKeeps == ASSUME IInv, Editor PROVE IInv'
<1>1. PICK p \in Files :
        \/ Edit(p, Absent)
        \/ \E u \in Contents : Edit(p, [users |-> u, mtime |-> now])
  BY DEF Editor
<1>2. CASE Edit(p, Absent)
  BY <1>2, EditKeeps DEF OnDisk, There
<1>3. ASSUME NEW u \in Contents, Edit(p, [users |-> u, mtime |-> now]) PROVE IInv'
  <2> DEFINE d == [users |-> u, mtime |-> now]
  <2>1. d \in OnDisk /\ d.mtime = now
    BY DEF OnDisk, IInv, TypeOK
  <2> HIDE DEF d
  <2>2. Edit(p, d)
    BY <1>3 DEF d
  <2> QED
    BY <2>1, <2>2, EditKeeps
<1> QED
  BY <1>1, <1>2, <1>3

-----------------------------------------------------------------------------
(* The calls.                                                              *)
LEMMA CallKeeps == ASSUME IInv, NEW w \in Workers, NEW r \in Requests, Call(w, r) PROVE IInv'
<1>1. /\ UNCHANGED <<disk, now, edits, written, since, dir>>
      /\ UNCHANGED cacheVars /\ UNCHANGED accessVars /\ UNCHANGED diskVars
      /\ owner = None /\ owner' = w /\ pc' = "exists" /\ request' = r
      /\ state' = [state EXCEPT ![w] = "asking"] /\ lastAuth' = NoVerdict
      /\ seen' = [p \in Files |-> {Version(p, disk[p], written[p].again)}]
  BY DEF Call, diskVars
<1>2. owner' # None
  BY <1>1, AccessAssumption
<1>3. WorldType /\ CallType /\ PasswdType /\ AccessType /\ PasswdCache /\ AccessCache
  BY TypeParts DEF IInv
<1>4. CallType'
  <2>1. seen' \in [Files -> SUBSET Versions]
    <3>1. \A p \in Files : Version(p, disk[p], written[p].again) \in Versions
      BY DiskType DEF IInv
    <3> QED
      BY <1>1, <3>1
  <2>2. NoVerdict \in Verdict
    BY DEF NoVerdict, Verdict
  <2> QED
    BY <1>1, <1>3, <2>1, <2>2 DEF CallType
<1>5. WorldType' /\ Dated'
  BY <1>1, <1>3 DEF WorldType, IInv, Dated
<1>6. Latest'
  BY <1>1 DEF Latest, Version
<1>7. InCall' /\ Walk' /\ Verdicts'
  BY <1>1, <1>2 DEF InCall, Walk, Walking, Verdicts
<1>8. pc = "free"
  BY <1>1 DEF IInv, InCall
<1>9. PasswdType' /\ PasswdCache'
  BY <1>1, <1>3, <1>8, PasswdStays DEF Walking
<1>10. AccessType' /\ AccessCache'
  BY <1>1, <1>3, <1>8, AccessStays
<1> QED
  BY <1>4, <1>5, <1>6, <1>7, <1>9, <1>10, TypeParts DEF IInv, TypeOK, WorldType, CallType,
     PasswdType, AccessType

LEMMA FetchKeeps == ASSUME IInv, NEW w \in Workers, GetLastResult(w) PROVE IInv'
<1>1. /\ UNCHANGED <<disk, now, edits, written, owner, pc, dir, request, lastAuth, seen>>
      /\ UNCHANGED <<fileHandle, loaded, entries>>
      /\ UNCHANGED <<accessFile, accessHandle, accessLoaded, accessUsers>>
      /\ state' = [state EXCEPT ![w] = "idle"] /\ since' = [since EXCEPT ![w] = {}]
  BY DEF GetLastResult, diskVars, cacheVars, accessVars
<1>2. TypeOK'
  BY <1>1 DEF IInv, TypeOK
<1>3. Verdicts'
  BY <1>1 DEF IInv, TypeOK, Verdicts
<1>4. Dated' /\ Latest' /\ InCall' /\ Walk'
  BY <1>1 DEF IInv, Dated, Latest, InCall, Walk, Missed, Version
<1>5. PasswdCache' /\ AccessCache'
  BY <1>1 DEF IInv, PasswdCache, AccessCache, Handles, Fresh, Current
<1> QED
  BY <1>2, <1>3, <1>4, <1>5 DEF IInv

LEMMA Together ==
  ASSUME WorldType', CallType', PasswdType', AccessType', Dated', Latest', InCall',
         PasswdCache', AccessCache', Walk', Verdicts'
  PROVE  IInv'
  BY DEF IInv, TypeOK, WorldType, CallType, PasswdType, AccessType

LEMMA PasswdExistsKeeps == ASSUME IInv, PasswdExists PROVE IInv'
<1>1. /\ pc = "exists" /\ UNCHANGED <<disk, now, edits, written>>
      /\ fileHandle' = AfterExists(fileHandle, disk[Passwd])
      /\ UNCHANGED <<loaded, entries>> /\ UNCHANGED accessVars /\ UNCHANGED diskVars
  BY DEF PasswdExists, diskVars
<1>2. /\ owner # None /\ Unidentified \in Verdict
      /\ WorldType /\ CallType /\ PasswdType /\ AccessType /\ PasswdCache /\ AccessCache
  BY <1>1, CallsOwn, TypeParts DEF IInv
<1>3. Passwd \in Files /\ disk[Passwd] \in OnDisk /\ dir \in Dirs \cup {None}
  BY <1>2, DiskType DEF Files, IInv, CallType
<1>4. /\ fileHandle' \in FileObjects(Times) /\ fileHandle'.valid
      /\ fileHandle'.exists = (IF fileHandle.valid THEN fileHandle.exists ELSE There(disk[Passwd]))
      /\ fileHandle'.known = fileHandle.known /\ fileHandle'.last = fileHandle.last
  BY <1>1, <1>2, <1>3, ExistsLooks DEF PasswdType
<1>5. Handles(fileHandle, Passwd)' /\ (Fresh(fileHandle, Passwd, entries) => Fresh(fileHandle, Passwd, entries)')
  BY <1>1, <1>2, <1>4 DEF PasswdCache, Handles, Fresh
<1>6. PasswdType'
  BY <1>1, <1>2, <1>4 DEF PasswdType
<1>7. CASE Exists(fileHandle, disk[Passwd]) /\ Goto(IF loaded THEN "modified" ELSE "load", dir)
  <2>1. fileHandle'.exists
    BY <1>1, <1>7 DEF Exists
  <2>2. CASE loaded /\ Goto("modified", dir)
    <3>1. WorldType' /\ CallType' /\ Dated' /\ Latest' /\ Verdicts'
      BY <1>1, <1>2, <1>3, <2>2, GotoKeeps
    <3>2. pc' = "modified" /\ UNCHANGED <<owner, request>>
      BY <2>2 DEF Goto
    <3>3. PasswdCache'
      BY <1>1, <1>2, <1>5, <2>1, <2>2, <3>2 DEF PasswdCache, Walking
    <3>4. AccessType' /\ AccessCache'
      BY <1>1, <1>2, <3>2, AccessStays
    <3>5. InCall' /\ Walk'
      BY <1>1, <3>2 DEF IInv, InCall, Walk, Walking
    <3> QED
      BY <1>6, <3>1, <3>3, <3>4, <3>5, Together
  <2>3. CASE ~loaded /\ Goto("load", dir)
    <3>1. WorldType' /\ CallType' /\ Dated' /\ Latest' /\ Verdicts'
      BY <1>1, <1>2, <1>3, <2>3, GotoKeeps
    <3>2. pc' = "load" /\ UNCHANGED <<owner, request>>
      BY <2>3 DEF Goto
    <3>3. PasswdCache'
      BY <1>1, <1>2, <1>5, <2>1, <2>3, <3>2 DEF PasswdCache, Walking
    <3>4. AccessType' /\ AccessCache'
      BY <1>1, <1>2, <3>2, AccessStays
    <3>5. InCall' /\ Walk'
      BY <1>1, <3>2 DEF IInv, InCall, Walk, Walking
    <3> QED
      BY <1>6, <3>1, <3>3, <3>4, <3>5, Together
  <2> QED
    BY <1>2, <1>7, <2>2, <2>3 DEF PasswdType
<1>8. CASE Answer(Unidentified)
  <2>1. /\ WorldType' /\ CallType' /\ Dated' /\ Latest' /\ InCall' /\ Walk' /\ Verdicts'
        /\ pc' = "free"
    BY <1>1, <1>2, <1>8, AnswerKeeps
  <2>2. PasswdCache'
    BY <1>1, <1>2, <1>5, <2>1 DEF PasswdCache, Walking
  <2>3. AccessType' /\ AccessCache'
    BY <1>1, <1>2, <2>1, AccessStays
  <2> QED
    BY <1>6, <2>1, <2>2, <2>3, Together
<1> QED
  BY <1>7, <1>8 DEF PasswdExists

(* What an IsModified that answers no says of what was loaded.             *)
LEMMA UnmodifiedIsCurrent ==
  ASSUME IInv, owner # None, NEW f \in FileObjects(Times), NEW p \in Files,
         NEW users \in SUBSET Users,
         f.known, Fresh(f, p, users), ~IsModified(f, disk[p])
  PROVE  users = {} \/ Current(p, users)
<1>1. /\ There(disk[p]) /\ f.last = disk[p].mtime /\ written[p].at = f.last
      /\ f.last \in Nat
  <2>1. There(disk[p]) /\ f.last = disk[p].mtime
    <3>1. f.known \in BOOLEAN /\ There(disk[p]) \in BOOLEAN
      BY DEF FileObjects, There
    <3>2. f.known = There(disk[p]) /\ ~(f.known /\ There(disk[p]) /\ f.last # disk[p].mtime)
      BY DEF IsModified
    <3> QED
      BY <3>1, <3>2
  <2>2. written[p].at = f.last
    BY <2>1 DEF IInv, Dated
  <2> QED
    BY <2>1, <2>2 DEF FileObjects, Times
<1>2. Version(p, disk[p], written[p].again) \in seen[p]
  BY DEF IInv, Latest
<1>3. CASE users # {} /\ written[p].again
  BY <1>2, <1>3 DEF Current, Version
<1>4. CASE users # {} /\ disk[p].users = users
  BY <1>1, <1>2, <1>4 DEF Current, Version
<1> QED
  BY <1>1, <1>3, <1>4 DEF Fresh

(* And what reading the file does.                                         *)
LEMMA ReadIsCurrent ==
  ASSUME IInv, owner # None, NEW f \in FileObjects(Times), NEW p \in Files, NEW users,
         users = IF Opens(f, disk[p]) THEN disk[p].users ELSE {}
  PROVE  /\ users \in SUBSET Users
         /\ users = {} \/ Current(p, users)
         /\ users # {} => disk[p].users = users
<1>1. Version(p, disk[p], written[p].again) \in seen[p]
  BY DEF IInv, Latest
<1>2. CASE Opens(f, disk[p])
  <2>1. There(disk[p]) /\ users = disk[p].users
    BY <1>2 DEF Opens
  <2>2. users \in SUBSET Users
    BY <2>1, DiskType DEF IInv
  <2> QED
    BY <1>1, <2>1, <2>2 DEF Current, Version
<1>3. CASE ~Opens(f, disk[p])
  BY <1>3
<1> QED
  BY <1>2, <1>3

LEMMA PasswdModifiedKeeps == ASSUME IInv, PasswdModified PROVE IInv'
<1>1. /\ pc = "modified" /\ UNCHANGED <<disk, now, edits, written>>
      /\ fileHandle' = AfterIsModified(fileHandle, disk[Passwd])
      /\ UNCHANGED <<loaded, entries>> /\ UNCHANGED accessVars /\ UNCHANGED diskVars
  BY DEF PasswdModified, diskVars
<1>2. /\ owner # None
      /\ WorldType /\ CallType /\ PasswdType /\ AccessType /\ PasswdCache /\ AccessCache
  BY <1>1, CallsOwn, TypeParts DEF IInv
<1>3. Passwd \in Files /\ disk[Passwd] \in OnDisk /\ dir \in Dirs \cup {None}
  BY <1>2, DiskType DEF Files, IInv, CallType
<1>4. /\ fileHandle' \in FileObjects(Times) /\ fileHandle'.valid
      /\ fileHandle'.exists = There(disk[Passwd]) /\ fileHandle'.known = There(disk[Passwd])
      /\ fileHandle'.last = MTimeOf(disk[Passwd])
  BY <1>1, <1>2, <1>3, ModifiedLooks DEF PasswdType
<1>5. There(disk[Passwd]) => written[Passwd].at = disk[Passwd].mtime
  BY <1>3 DEF IInv, Dated
<1>6. Handles(fileHandle, Passwd)'
  <2>1. written[Passwd].at \in Nat
    BY <1>3, DiskType DEF IInv, Times
  <2> QED
    BY <1>1, <1>4, <1>5, <2>1 DEF Handles, MTimeOf
<1>7. PasswdType'
  BY <1>1, <1>2, <1>4 DEF PasswdType
<1>8. CASE IsModified(fileHandle, disk[Passwd]) /\ Goto("load", dir)
  <2>1. WorldType' /\ CallType' /\ Dated' /\ Latest' /\ Verdicts'
    BY <1>1, <1>2, <1>3, <1>8, GotoKeeps
  <2>2. pc' = "load" /\ UNCHANGED <<owner, request>>
    BY <1>8 DEF Goto
  <2>3. PasswdCache'
    BY <1>4, <1>6, <2>2 DEF PasswdCache, Walking
  <2>4. AccessType' /\ AccessCache'
    BY <1>1, <1>2, <2>2, AccessStays
  <2>5. InCall' /\ Walk'
    BY <1>1, <2>2 DEF IInv, InCall, Walk, Walking
  <2> QED
    BY <1>7, <2>1, <2>3, <2>4, <2>5, Together
<1>9. CASE ~IsModified(fileHandle, disk[Passwd]) /\ Goto("check", dir)
  <2>1. WorldType' /\ CallType' /\ Dated' /\ Latest' /\ Verdicts'
    BY <1>1, <1>2, <1>3, <1>9, GotoKeeps
  <2>2. pc' = "check" /\ UNCHANGED <<owner, request, seen>>
    BY <1>9 DEF Goto
  <2>3. /\ loaded /\ fileHandle.exists /\ fileHandle.known
        /\ Fresh(fileHandle, Passwd, entries)
    BY <1>1, <1>2 DEF PasswdCache, Handles
  <2>4. entries = {} \/ Current(Passwd, entries)
    BY <1>2, <1>3, <1>9, <2>3, UnmodifiedIsCurrent DEF PasswdType
  <2>5. fileHandle'.known = fileHandle.known /\ fileHandle'.last = fileHandle.last
    BY <1>4, <1>9, <2>3 DEF IsModified, MTimeOf
  <2>6. Fresh(fileHandle, Passwd, entries)'
    BY <1>1, <2>3, <2>5 DEF Fresh
  <2>7. PasswdCache'
    BY <1>1, <1>6, <2>2, <2>4, <2>6 DEF PasswdCache, Walking, Current
  <2>8. AccessType' /\ AccessCache'
    BY <1>1, <1>2, <2>2, AccessStays
  <2>9. InCall' /\ Walk'
    BY <1>1, <2>2 DEF IInv, InCall, Walk, Walking
  <2> QED
    BY <1>7, <2>1, <2>7, <2>8, <2>9, Together
<1> QED
  BY <1>8, <1>9 DEF PasswdModified

LEMMA LoadEntriesKeeps == ASSUME IInv, LoadEntries PROVE IInv'
<1>1. /\ pc = "load" /\ UNCHANGED <<disk, now, edits, written>>
      /\ UNCHANGED accessVars /\ UNCHANGED diskVars
  BY DEF LoadEntries, diskVars
<1>2. /\ owner # None /\ Unidentified \in Verdict
      /\ WorldType /\ CallType /\ PasswdType /\ AccessType /\ PasswdCache /\ AccessCache
  BY <1>1, CallsOwn, TypeParts DEF IInv
<1>3. Passwd \in Files /\ disk[Passwd] \in OnDisk /\ dir \in Dirs \cup {None}
  BY <1>2, DiskType DEF Files, IInv, CallType
<1>4. CASE /\ fileHandle.exists
           /\ entries' = IF Opens(fileHandle, disk[Passwd]) THEN disk[Passwd].users ELSE {}
           /\ fileHandle' = AfterReading(fileHandle, disk[Passwd])
           /\ loaded' = TRUE /\ Goto("check", dir)
  <2>1. WorldType' /\ CallType' /\ Dated' /\ Latest' /\ Verdicts'
    BY <1>1, <1>2, <1>3, <1>4, GotoKeeps
  <2>2. pc' = "check" /\ UNCHANGED <<owner, request, seen>>
    BY <1>4 DEF Goto
  <2>3. /\ entries' \in SUBSET Users /\ (entries' = {} \/ Current(Passwd, entries'))
        /\ (entries' # {} => disk[Passwd].users = entries')
    BY <1>2, <1>3, <1>4, ReadIsCurrent DEF PasswdType
  <2>4. /\ fileHandle' \in FileObjects(Times)
        /\ fileHandle'.known = fileHandle.known /\ fileHandle'.last = fileHandle.last
    BY <1>2, <1>3, <1>4, ReadingKeeps DEF PasswdType
  <2>5. fileHandle.known
    BY <1>2, <1>4 DEF PasswdCache, Handles
  <2>6. Handles(fileHandle, Passwd)'
    BY <1>1, <1>2, <2>4, <2>5 DEF PasswdCache, Handles
  <2>7. Fresh(fileHandle, Passwd, entries)'
    BY <1>1, <2>3 DEF Fresh
  <2>8. PasswdType' /\ PasswdCache'
    BY <1>4, <2>2, <2>3, <2>4, <2>6, <2>7 DEF PasswdType, PasswdCache, Walking, Current
  <2>9. AccessType' /\ AccessCache'
    BY <1>1, <1>2, <2>2, AccessStays
  <2>10. InCall' /\ Walk'
    BY <1>1, <2>2 DEF IInv, InCall, Walk, Walking
  <2> QED
    BY <2>1, <2>8, <2>9, <2>10, Together
<1>5. CASE ~fileHandle.exists /\ Answer(Unidentified) /\ UNCHANGED cacheVars
  <2>1. /\ WorldType' /\ CallType' /\ Dated' /\ Latest' /\ InCall' /\ Walk' /\ Verdicts'
        /\ pc' = "free"
    BY <1>1, <1>2, <1>5, AnswerKeeps
  <2>2. UNCHANGED <<fileHandle, loaded, entries>> /\ ~fileHandle.known
    BY <1>1, <1>2, <1>5 DEF cacheVars, PasswdCache
  <2>3. Handles(fileHandle, Passwd)' /\ Fresh(fileHandle, Passwd, entries)'
    BY <1>1, <1>2, <2>2 DEF PasswdCache, Handles, Fresh
  <2>4. PasswdType' /\ PasswdCache'
    BY <1>2, <2>1, <2>2, <2>3 DEF PasswdType, PasswdCache, Walking
  <2>5. AccessType' /\ AccessCache'
    BY <1>1, <1>2, <2>1, AccessStays
  <2> QED
    BY <2>1, <2>4, <2>5, Together
<1> QED
  BY <1>4, <1>5 DEF LoadEntries

LEMMA CheckCredentialsKeeps == ASSUME IInv, CheckCredentials PROVE IInv'
<1>1. /\ pc = "check" /\ UNCHANGED <<disk, now, edits, written>>
      /\ UNCHANGED cacheVars /\ UNCHANGED accessVars /\ UNCHANGED diskVars
  BY DEF CheckCredentials, diskVars
<1>2. /\ owner # None /\ Unidentified \in Verdict /\ Denied \in Verdict
      /\ WorldType /\ CallType /\ PasswdType /\ AccessType /\ PasswdCache /\ AccessCache
      /\ request \in [user : Users, dir : Dirs \cup {None}, header : {"basic", "bad"}]
  BY <1>1, CallsOwn, TypeParts DEF IInv
<1>3. ASSUME NEW verdict \in Verdict, Answer(verdict) PROVE IInv'
  <2>1. /\ WorldType' /\ CallType' /\ Dated' /\ Latest' /\ InCall' /\ Walk' /\ Verdicts'
        /\ pc' = "free"
    BY <1>1, <1>2, <1>3, AnswerKeeps
  <2>2. PasswdType' /\ PasswdCache'
    BY <1>1, <1>2, <2>1, PasswdStays DEF Walking
  <2>3. AccessType' /\ AccessCache'
    BY <1>1, <1>2, <2>1, AccessStays
  <2> QED
    BY <2>1, <2>2, <2>3, Together
<1>4. CASE request.header = "basic" /\ request.user \in entries /\ Goto("find", request.dir)
  <2>1. request.dir \in Dirs \cup {None}
    BY <1>2
  <2>2. WorldType' /\ CallType' /\ Dated' /\ Latest' /\ Verdicts'
    <3> DEFINE d == request.dir
    <3>1. d \in Dirs \cup {None} /\ Goto("find", d)
      BY <1>4, <2>1
    <3> HIDE DEF d
    <3> QED
      BY <1>1, <1>2, <3>1, GotoKeeps
  <2>3. pc' = "find" /\ dir' = request.dir /\ UNCHANGED <<owner, request, seen>>
    BY <1>4 DEF Goto
  <2>4. PasswdType' /\ PasswdCache'
    BY <1>1, <1>2, <2>3, PasswdStays
  <2>5. AccessType' /\ AccessCache'
    BY <1>1, <1>2, <2>3, AccessStays
  <2>6. InCall'
    BY <1>1, <1>2, <1>4, <2>1, <2>3 DEF IInv, InCall, cacheVars
  <2>7. Walk'
    BY <2>1, <2>3, UpwardsHas DEF Walk, Upwards
  <2> QED
    BY <2>2, <2>4, <2>5, <2>6, <2>7, Together
<1> QED
  BY <1>2, <1>3, <1>4 DEF CheckCredentials

(* What the walk has found so far is not forgotten while it goes on.       *)
LEMMA WalkStays ==
  ASSUME Walk, pc \in Walking, pc' \in Walking, dir' = dir,
         UNCHANGED <<request, seen>>,
         pc' = "allowed" /\ accessFile' = None /\ request.dir # None =>
           \A d \in Upwards(request.dir) : Missed(d)
  PROVE  Walk'
<1>1. \A x : Upwards(x)' = Upwards(x)
  BY DEF Upwards
<1>2. \A x : Missed(x)' = Missed(x)
  BY DEF Missed
<1> QED
  BY <1>1, <1>2 DEF Walk

LEMMA FindAccessFileKeeps == ASSUME IInv, FindAccessFile PROVE IInv'
<1>1. /\ pc = "find" /\ UNCHANGED <<disk, now, edits, written>>
      /\ UNCHANGED cacheVars /\ UNCHANGED diskVars
  BY DEF FindAccessFile, diskVars
<1>2. /\ owner # None
      /\ WorldType /\ CallType /\ PasswdType /\ AccessType /\ PasswdCache /\ AccessCache
  BY <1>1, CallsOwn, TypeParts DEF IInv
<1>3. request.dir # None =>
        /\ dir \in Upwards(request.dir)
        /\ \A d \in Upwards(request.dir) \ Upwards(dir) : Missed(d)
  BY <1>1 DEF IInv, Walk, Walking
<1>4. /\ request.dir \in Dirs \cup {None}
      /\ IF request.dir = None THEN dir = None ELSE dir \in Dirs
      /\ dir # None => dir \in Dirs /\ request.dir \in Dirs
  BY <1>1, CallsOwn, AccessAssumption DEF IInv, InCall, Walking
<1>5. ASSUME dir # None, ~There(disk[dir]) PROVE Missed(dir)
  <2>1. dir \in Files
    BY <1>4, <1>5 DEF Files
  <2>2. Version(dir, disk[dir], written[dir].again) \in seen[dir]
    BY <1>2, <2>1 DEF IInv, Latest
  <2> QED
    BY <1>5, <2>2 DEF Version, Missed
<1>6. CASE dir # None /\ There(disk[dir]) /\ Goto("access", dir) /\ UNCHANGED accessVars
  <2>1. WorldType' /\ CallType' /\ Dated' /\ Latest' /\ Verdicts'
    BY <1>1, <1>2, <1>4, <1>6, GotoKeeps
  <2>2. pc' = "access" /\ dir' = dir /\ UNCHANGED <<owner, request, seen>>
    BY <1>6 DEF Goto
  <2>3. PasswdType' /\ PasswdCache'
    BY <1>1, <1>2, <2>2, PasswdStays DEF Walking
  <2>4. AccessType' /\ AccessCache'
    BY <1>1, <1>2, <1>6, <2>2, AccessStays
  <2>5. InCall'
    BY <1>1, <1>4, <1>6, <2>2, AccessAssumption DEF IInv, InCall, cacheVars, Walking
  <2>6. Walk'
    BY <1>1, <2>2, WalkStays DEF IInv, Walking
  <2> QED
    BY <2>1, <2>3, <2>4, <2>5, <2>6, Together
<1>7. CASE dir # None /\ ~There(disk[dir]) /\ Parent[dir] # None /\ Goto("find", Parent[dir])
           /\ UNCHANGED accessVars
  <2> DEFINE p == Parent[dir]
  <2>1. p \in Dirs /\ p \in Upwards(request.dir)
    BY <1>3, <1>4, <1>7, UpwardsCloses, AccessAssumption
  <2>2. \A d \in Upwards(dir) : d = dir \/ d \in Upwards(p)
    BY <1>4, <1>7, UpwardsStep
  <2>3. Goto("find", p)
    BY <1>7
  <2> HIDE DEF p
  <2>4. WorldType' /\ CallType' /\ Dated' /\ Latest' /\ Verdicts'
    BY <1>1, <1>2, <2>1, <2>3, GotoKeeps
  <2>5. pc' = "find" /\ dir' = p /\ UNCHANGED <<owner, request, seen>>
    BY <2>3 DEF Goto
  <2>6. PasswdType' /\ PasswdCache'
    BY <1>1, <1>2, <2>5, PasswdStays DEF Walking
  <2>7. AccessType' /\ AccessCache'
    BY <1>1, <1>2, <1>7, <2>5, AccessStays
  <2>8. InCall'
    BY <1>1, <1>4, <1>7, <2>1, <2>5, AccessAssumption DEF IInv, InCall, cacheVars, Walking
  <2>9. \A d \in Upwards(request.dir) \ Upwards(p) : Missed(d)
    BY <1>3, <1>4, <1>5, <1>7, <2>2, AccessAssumption
  <2>10. Walk'
    <3>1. \A x : Upwards(x)' = Upwards(x)
      BY DEF Upwards
    <3>2. \A x : Missed(x)' = Missed(x)
      BY <2>5 DEF Missed
    <3> QED
      BY <2>1, <2>5, <2>9, <3>1, <3>2 DEF Walk
  <2> QED
    BY <2>4, <2>6, <2>7, <2>8, <2>10, Together
<1>8. CASE /\ dir = None \/ (~There(disk[dir]) /\ Parent[dir] = None)
           /\ Goto("allowed", dir)
           /\ accessFile' = None /\ accessHandle' = None
           /\ accessLoaded' = FALSE /\ accessUsers' = {}
  <2>1. WorldType' /\ CallType' /\ Dated' /\ Latest' /\ Verdicts'
    BY <1>1, <1>2, <1>4, <1>8, GotoKeeps
  <2>2. pc' = "allowed" /\ dir' = dir /\ UNCHANGED <<owner, request, seen>>
    BY <1>8 DEF Goto
  <2>3. PasswdType' /\ PasswdCache'
    BY <1>1, <1>2, <2>2, PasswdStays DEF Walking
  <2>4. AccessType' /\ AccessCache'
    BY <1>8, <2>2 DEF AccessType, AccessCache
  <2>5. InCall'
    BY <1>1, <1>4, <1>8, <2>2 DEF IInv, InCall, cacheVars, Walking
  <2>6. ASSUME request.dir # None PROVE \A d \in Upwards(request.dir) : Missed(d)
    <3>1. dir \in Dirs /\ dir # None
      BY <1>4, <2>6, AccessAssumption
    <3>2. \A d \in Upwards(dir) : d = dir
      BY <1>8, <3>1, UpwardsStep
    <3> QED
      BY <1>3, <1>5, <1>8, <2>6, <3>1, <3>2
  <2>7. Walk'
    BY <1>1, <2>2, <2>6, WalkStays DEF IInv, Walking
  <2> QED
    BY <2>1, <2>3, <2>4, <2>5, <2>7, Together
<1> QED
  BY <1>6, <1>7, <1>8 DEF FindAccessFile

LEMMA AccessExistsKeeps == ASSUME IInv, AccessExists PROVE IInv'
<1> DEFINE same   == accessFile = dir
           handle == IF same THEN AfterExists(accessHandle, disk[dir])
                             ELSE NewFile(disk[dir])
           fresh  == ~same \/ ~accessLoaded
<1>1. /\ pc = "access" /\ UNCHANGED <<disk, now, edits, written>>
      /\ UNCHANGED cacheVars /\ UNCHANGED diskVars
      /\ accessFile' = dir /\ accessHandle' = handle /\ accessLoaded' = ~fresh
      /\ accessUsers' = accessUsers
      /\ IF handle.exists
           THEN Goto(IF fresh THEN "accessLoad" ELSE "accessModified", dir)
           ELSE Answer(Denied)
  BY DEF AccessExists, diskVars
<1>2. /\ owner # None /\ dir \in Dirs /\ dir # None /\ Denied \in Verdict
      /\ WorldType /\ CallType /\ PasswdType /\ AccessType /\ PasswdCache /\ AccessCache
  BY <1>1, CallsOwn, TypeParts, AccessAssumption DEF IInv, InCall, Walking
<1>3. /\ dir \in Files /\ disk[dir] \in OnDisk /\ written[dir].at \in Times
      /\ (There(disk[dir]) => disk[dir].mtime = written[dir].at)
  BY <1>2, DiskType DEF Files, IInv, Dated
<1>4. handle \in FileObjects(Times) /\ Handles(handle, dir)
  <2>1. CASE same
    <3>1. accessHandle \in FileObjects(Times) /\ Handles(accessHandle, dir)
      BY <1>2, <2>1 DEF AccessCache
    <3>2. handle = AfterExists(accessHandle, disk[dir])
      BY <2>1
    <3> HIDE DEF handle
    <3> QED
      BY <1>3, <3>1, <3>2, ExistsLooks DEF Handles
  <2>2. CASE ~same
    <3>1. handle = NewFile(disk[dir])
      BY <2>2
    <3> HIDE DEF handle
    <3> QED
      BY <1>3, <3>1, NewLooks DEF Handles, MTimeOf, Times
  <2> QED
    BY <2>1, <2>2
<1>5. ~fresh => /\ same /\ accessLoaded /\ accessHandle \in FileObjects(Times)
                /\ handle.known = accessHandle.known /\ handle.last = accessHandle.last
                /\ Fresh(accessHandle, dir, accessUsers)
  <2> SUFFICES ASSUME ~fresh
               PROVE  /\ same /\ accessLoaded /\ accessHandle \in FileObjects(Times)
                      /\ handle.known = accessHandle.known /\ handle.last = accessHandle.last
                      /\ Fresh(accessHandle, dir, accessUsers)
    OBVIOUS
  <2>1. /\ same /\ accessLoaded /\ accessHandle \in FileObjects(Times)
        /\ Fresh(accessHandle, dir, accessUsers)
    BY <1>1, <1>2 DEF AccessCache
  <2>2. handle = AfterExists(accessHandle, disk[dir])
    BY <2>1
  <2> HIDE DEF handle
  <2> QED
    BY <1>3, <2>1, <2>2, ExistsLooks
<1> HIDE DEF handle
<1>6. Handles(accessHandle, accessFile)' /\ AccessType'
  BY <1>1, <1>2, <1>4 DEF Handles, AccessType
<1>7. accessLoaded' => Fresh(accessHandle, accessFile, accessUsers)'
  BY <1>1, <1>5 DEF Fresh
<1>8. ASSUME NEW label \in {"accessLoad", "accessModified"}, handle.exists, Goto(label, dir),
             label = "accessModified" => accessLoaded'
      PROVE  IInv'
  <2>1. WorldType' /\ CallType' /\ Dated' /\ Latest' /\ Verdicts'
    BY <1>1, <1>2, <1>8, GotoKeeps
  <2>2. pc' = label /\ dir' = dir /\ UNCHANGED <<owner, request, seen>>
    BY <1>8 DEF Goto
  <2>3. PasswdType' /\ PasswdCache'
    BY <1>1, <1>2, <1>8, <2>2, PasswdStays DEF Walking
  <2>4. AccessCache'
    BY <1>1, <1>2, <1>4, <1>6, <1>7, <1>8, <2>2 DEF AccessCache
  <2>5. InCall'
    BY <1>1, <1>8, <2>2 DEF IInv, InCall, cacheVars, Walking
  <2>6. Walk'
    BY <1>1, <1>8, <2>2, WalkStays DEF IInv, Walking
  <2> QED
    BY <1>6, <2>1, <2>3, <2>4, <2>5, <2>6, Together
<1>9. CASE Answer(Denied)
  <2>1. /\ WorldType' /\ CallType' /\ Dated' /\ Latest' /\ InCall' /\ Walk' /\ Verdicts'
        /\ pc' = "free"
    BY <1>1, <1>2, <1>9, AnswerKeeps
  <2>2. PasswdType' /\ PasswdCache'
    BY <1>1, <1>2, <2>1, PasswdStays DEF Walking
  <2>3. AccessCache'
    BY <1>1, <1>2, <1>4, <1>6, <1>7, <2>1 DEF AccessCache
  <2> QED
    BY <1>6, <2>1, <2>2, <2>3, Together
<1> QED
  BY <1>1, <1>8, <1>9

LEMMA AccessModifiedKeeps == ASSUME IInv, AccessModified PROVE IInv'
<1>1. /\ pc = "accessModified" /\ UNCHANGED <<disk, now, edits, written>>
      /\ accessHandle' = AfterIsModified(accessHandle, disk[dir])
      /\ UNCHANGED <<accessFile, accessLoaded, accessUsers>>
      /\ UNCHANGED cacheVars /\ UNCHANGED diskVars
  BY DEF AccessModified, diskVars
<1>2. /\ owner # None /\ dir \in Dirs /\ dir # None
      /\ WorldType /\ CallType /\ PasswdType /\ AccessType /\ PasswdCache /\ AccessCache
  BY <1>1, CallsOwn, TypeParts, AccessAssumption DEF IInv, InCall, Walking
<1>3. /\ dir \in Files /\ disk[dir] \in OnDisk /\ written[dir].at \in Times
      /\ (There(disk[dir]) => disk[dir].mtime = written[dir].at)
  BY <1>2, DiskType DEF Files, IInv, Dated
<1>4. /\ accessFile = dir /\ accessHandle \in FileObjects(Times) /\ accessLoaded
      /\ accessHandle.known /\ Fresh(accessHandle, dir, accessUsers)
  BY <1>1, <1>2 DEF AccessCache, Handles
<1>5. /\ accessHandle' \in FileObjects(Times) /\ accessHandle'.valid
      /\ accessHandle'.exists = There(disk[dir]) /\ accessHandle'.known = There(disk[dir])
      /\ accessHandle'.last = MTimeOf(disk[dir])
  BY <1>1, <1>3, <1>4, ModifiedLooks
<1>6. Handles(accessHandle, accessFile)' /\ AccessType'
  BY <1>1, <1>2, <1>3, <1>4, <1>5 DEF Handles, AccessType, MTimeOf, Times
<1>7. CASE IsModified(accessHandle, disk[dir]) /\ Goto("accessLoad", dir)
  <2>1. WorldType' /\ CallType' /\ Dated' /\ Latest' /\ Verdicts'
    BY <1>1, <1>2, <1>7, GotoKeeps
  <2>2. pc' = "accessLoad" /\ dir' = dir /\ UNCHANGED <<owner, request, seen>>
    BY <1>7 DEF Goto
  <2>3. PasswdType' /\ PasswdCache'
    BY <1>1, <1>2, <2>2, PasswdStays DEF Walking
  <2>4. AccessCache'
    BY <1>1, <1>2, <1>4, <1>5, <1>6, <2>2 DEF AccessCache
  <2>5. InCall'
    BY <1>1, <2>2 DEF IInv, InCall, cacheVars, Walking
  <2>6. Walk'
    BY <1>1, <2>2, WalkStays DEF IInv, Walking
  <2> QED
    BY <1>6, <2>1, <2>3, <2>4, <2>5, <2>6, Together
<1>8. CASE ~IsModified(accessHandle, disk[dir]) /\ Goto("allowed", dir)
  <2>1. WorldType' /\ CallType' /\ Dated' /\ Latest' /\ Verdicts'
    BY <1>1, <1>2, <1>8, GotoKeeps
  <2>2. pc' = "allowed" /\ dir' = dir /\ UNCHANGED <<owner, request, seen>>
    BY <1>8 DEF Goto
  <2>3. PasswdType' /\ PasswdCache'
    BY <1>1, <1>2, <2>2, PasswdStays DEF Walking
  <2>4. accessUsers = {} \/ Current(dir, accessUsers)
    BY <1>2, <1>3, <1>4, <1>8, UnmodifiedIsCurrent DEF AccessType
  <2>5. accessHandle'.known = accessHandle.known /\ accessHandle'.last = accessHandle.last
    BY <1>4, <1>5, <1>8 DEF IsModified, MTimeOf
  <2>6. Fresh(accessHandle, accessFile, accessUsers)'
    BY <1>1, <1>4, <2>5 DEF Fresh
  <2>7. AccessCache'
    BY <1>1, <1>2, <1>4, <1>5, <1>6, <2>2, <2>4, <2>6 DEF AccessCache, Current
  <2>8. InCall'
    BY <1>1, <2>2 DEF IInv, InCall, cacheVars, Walking
  <2>9. Walk'
    BY <1>1, <1>2, <1>4, <2>2, WalkStays DEF IInv, Walking
  <2> QED
    BY <1>6, <2>1, <2>3, <2>7, <2>8, <2>9, Together
<1> QED
  BY <1>7, <1>8 DEF AccessModified

LEMMA LoadAccessListKeeps == ASSUME IInv, LoadAccessList PROVE IInv'
<1>1. /\ pc = "accessLoad" /\ UNCHANGED <<disk, now, edits, written>>
      /\ accessFile' = accessFile /\ UNCHANGED cacheVars /\ UNCHANGED diskVars
  BY DEF LoadAccessList, diskVars
<1>2. /\ owner # None /\ dir \in Dirs /\ dir # None /\ Denied \in Verdict
      /\ WorldType /\ CallType /\ PasswdType /\ AccessType /\ PasswdCache /\ AccessCache
  BY <1>1, CallsOwn, TypeParts, AccessAssumption DEF IInv, InCall, Walking
<1>3. /\ accessFile = dir /\ accessHandle \in FileObjects(Times)
      /\ Handles(accessHandle, dir) /\ (accessHandle.exists \/ ~accessHandle.known)
      /\ dir \in Files /\ disk[dir] \in OnDisk
  BY <1>1, <1>2, DiskType DEF AccessCache, Files, IInv
<1>4. CASE /\ accessHandle.exists
           /\ accessUsers' = IF Opens(accessHandle, disk[dir]) THEN disk[dir].users ELSE {}
           /\ accessHandle' = AfterReading(accessHandle, disk[dir])
           /\ accessLoaded' = TRUE /\ Goto("allowed", dir)
  <2>1. WorldType' /\ CallType' /\ Dated' /\ Latest' /\ Verdicts'
    BY <1>1, <1>2, <1>4, GotoKeeps
  <2>2. pc' = "allowed" /\ dir' = dir /\ UNCHANGED <<owner, request, seen>>
    BY <1>4 DEF Goto
  <2>3. /\ accessUsers' \in SUBSET Users /\ (accessUsers' = {} \/ Current(dir, accessUsers'))
        /\ (accessUsers' # {} => disk[dir].users = accessUsers')
    BY <1>2, <1>3, <1>4, ReadIsCurrent
  <2>4. /\ accessHandle' \in FileObjects(Times)
        /\ accessHandle'.known = accessHandle.known /\ accessHandle'.last = accessHandle.last
    BY <1>3, <1>4, ReadingKeeps
  <2>5. accessHandle.known
    BY <1>3, <1>4 DEF Handles
  <2>6. Handles(accessHandle, accessFile)'
    BY <1>1, <1>3, <2>4, <2>5 DEF Handles
  <2>7. Fresh(accessHandle, accessFile, accessUsers)'
    BY <1>1, <1>3, <2>3 DEF Fresh
  <2>8. AccessType' /\ AccessCache'
    BY <1>1, <1>2, <1>3, <1>4, <2>2, <2>3, <2>4, <2>6, <2>7
       DEF AccessType, AccessCache, Current
  <2>9. PasswdType' /\ PasswdCache'
    BY <1>1, <1>2, <2>2, PasswdStays DEF Walking
  <2>10. InCall'
    BY <1>1, <2>2 DEF IInv, InCall, cacheVars, Walking
  <2>11. Walk'
    BY <1>1, <1>2, <1>3, <2>2, WalkStays DEF IInv, Walking
  <2> QED
    BY <2>1, <2>8, <2>9, <2>10, <2>11, Together
<1>5. CASE /\ ~accessHandle.exists /\ Answer(Denied)
           /\ UNCHANGED <<accessUsers, accessHandle, accessLoaded>>
  <2>1. /\ WorldType' /\ CallType' /\ Dated' /\ Latest' /\ InCall' /\ Walk' /\ Verdicts'
        /\ pc' = "free"
    BY <1>1, <1>2, <1>5, AnswerKeeps
  <2>2. Handles(accessHandle, accessFile)' /\ Fresh(accessHandle, accessFile, accessUsers)'
    BY <1>1, <1>3, <1>5 DEF Handles, Fresh
  <2>3. AccessType' /\ AccessCache'
    BY <1>1, <1>2, <1>3, <1>5, <2>1, <2>2 DEF AccessType, AccessCache
  <2>4. PasswdType' /\ PasswdCache'
    BY <1>1, <1>2, <2>1, PasswdStays DEF Walking
  <2> QED
    BY <2>1, <2>3, <2>4, Together
<1> QED
  BY <1>4, <1>5 DEF LoadAccessList

LEMMA DecideKeeps == ASSUME IInv, Decide PROVE IInv'
<1>1. /\ pc = "allowed" /\ UNCHANGED cacheVars /\ UNCHANGED accessVars
      /\ UNCHANGED <<diskVars, written>>
  BY DEF Decide
<1>2. /\ owner # None /\ Granted \in Verdict /\ Denied \in Verdict
      /\ PasswdType /\ AccessType /\ PasswdCache /\ AccessCache
  BY <1>1, CallsOwn, TypeParts DEF IInv
<1>3. PICK verdict \in Verdict : Answer(verdict)
  BY <1>2 DEF Decide
<1>4. /\ WorldType' /\ CallType' /\ Dated' /\ Latest' /\ InCall' /\ Walk' /\ Verdicts'
      /\ pc' = "free"
  BY <1>1, <1>2, <1>3, AnswerKeeps
<1>5. PasswdType' /\ PasswdCache'
  BY <1>1, <1>2, <1>4, PasswdStays DEF Walking
<1>6. AccessType' /\ AccessCache'
  BY <1>1, <1>2, <1>4, AccessStays
<1> QED
  BY <1>4, <1>5, <1>6, Together

LEMMA StepIInv == IInv /\ [Next]_vars => IInv'
<1> SUFFICES ASSUME IInv, [Next]_vars PROVE IInv'
  OBVIOUS
<1>1. CASE Tick
  BY <1>1, TickKeeps
<1>2. CASE Editor
  BY <1>2, EditorKeeps
<1>3. ASSUME NEW w \in Workers, NEW r \in Requests, Call(w, r) PROVE IInv'
  BY <1>3, CallKeeps
<1>4. ASSUME NEW w \in Workers, GetLastResult(w) PROVE IInv'
  BY <1>4, FetchKeeps
<1>5. CASE IsAuthorizedStep
  BY <1>5, PasswdExistsKeeps, PasswdModifiedKeeps, LoadEntriesKeeps, CheckCredentialsKeeps,
     FindAccessFileKeeps, AccessExistsKeeps, AccessModifiedKeeps, LoadAccessListKeeps,
     DecideKeeps DEF IsAuthorizedStep
<1>6. CASE UNCHANGED vars
  <2>1. /\ UNCHANGED <<disk, now, edits, written, owner, pc, dir, request, state, lastAuth,
                       since, seen>>
        /\ UNCHANGED <<fileHandle, loaded, entries, accessFile, accessHandle, accessLoaded,
                       accessUsers>>
    BY <1>6 DEF vars, diskVars, callVars, cacheVars, accessVars
  <2>2. TypeOK' /\ Dated' /\ Latest' /\ InCall'
    BY <2>1 DEF IInv, TypeOK, Dated, Latest, InCall, Version
  <2>3. PasswdCache' /\ AccessCache'
    BY <2>1 DEF IInv, PasswdCache, AccessCache, Handles, Fresh, Current
  <2>4. Walk' /\ Verdicts'
    BY <2>1 DEF IInv, Walk, Verdicts, Missed
  <2> QED
    BY <2>2, <2>3, <2>4 DEF IInv
<1> QED
  BY <1>1, <1>2, <1>3, <1>4, <1>5, <1>6 DEF Next

-----------------------------------------------------------------------------
(* The members and the locals of every worker keep their types, for any    *)
(* number of workers, users, directories and edits.                        *)
THEOREM TypeCorrect == Spec => []TypeOK
<1>1. IInv => TypeOK
  BY DEF IInv
<1> QED
  BY <1>1, InitIInv, StepIInv, PTL DEF Spec

(* What IsAuthorized grants was justified by versions of the password file *)
(* and of the nearest .htaccess file that were there while it ran, in any  *)
(* tree of directories and under any edits.                                *)
THEOREM GrantsCorrect == Spec => GrantsAreJustified
<1>1. ASSUME IInv, [Next]_vars, owner # None, owner' = None, lastAuth'.authorized
      PROVE  Justified
  <2>1. ~Unidentified.authorized /\ ~Denied.authorized
    BY DEF Unidentified, NoVerdict, Denied
  <2>2. Decide /\ IsUserAllowed(request.user)
    <3>1. UNCHANGED vars \/ Tick \/ Editor => UNCHANGED owner
      BY DEF vars, callVars, Tick, Editor, Edit
    <3>2. \A w \in Workers : (\A r \in Requests : ~Call(w, r)) /\ ~GetLastResult(w)
      BY <1>1 DEF Call, GetLastResult
    <3>3. IsAuthorizedStep
      BY <1>1, <3>1, <3>2 DEF Next
    <3>4. ~Answer(Unidentified) /\ ~Answer(Denied)
      BY <1>1, <2>1 DEF Answer
    <3>5. \A label, d : ~Goto(label, d)
      BY <1>1 DEF Goto
    <3>6. Decide
      BY <3>3, <3>4, <3>5 DEF IsAuthorizedStep, PasswdExists, PasswdModified, LoadEntries,
         CheckCredentials, FindAccessFile, AccessExists, AccessModified, LoadAccessList
    <3> QED
      BY <3>4, <3>6 DEF Decide
  <2>3. /\ pc = "allowed" /\ request.header = "basic" /\ request.user \in entries
        /\ entries = {} \/ Current(Passwd, entries)
    BY <1>1, <2>2 DEF Decide, IInv, InCall, Walking, PasswdCache
  <2>4. IF request.dir = None THEN accessFile = None
        ELSE /\ dir \in Upwards(request.dir)
             /\ \A d \in Upwards(request.dir) \ Upwards(dir) : Missed(d)
             /\ accessFile = None => \A d \in Upwards(request.dir) : Missed(d)
    BY <1>1, <2>3 DEF IInv, InCall, Walk, Walking
  <2>5. accessFile # None =>
          accessFile = dir /\ request.user \in accessUsers /\ Current(accessFile, accessUsers)
    BY <1>1, <2>2, <2>3 DEF IInv, AccessCache, IsUserAllowed
  <2> QED
    BY <2>3, <2>4, <2>5 DEF Justified
<1>2. IInv /\ [Next]_vars =>
        [owner # None /\ owner' = None /\ lastAuth'.authorized => Justified]_vars
  BY <1>1
<1> QED
  BY <1>2, InitIInv, StepIInv, PTL DEF Spec, GrantsAreJustified

(* A worker that fetches the last result finds its own verdict, or a later *)
(* one, however many workers share the object.                             *)
THEOREM VerdictsCorrect == Spec => LogsOwnOrLaterVerdict
<1>1. ASSUME IInv, [Next]_vars, NEW w \in Workers, state[w] = "answered", state'[w] = "idle"
      PROVE  lastAuth \in since[w]
  <2>1. owner = None
    <3>1. CASE UNCHANGED state
      BY <1>1, <3>1
    <3>2. ASSUME NEW v \in Workers, (\E r \in Requests : Call(v, r)) \/ GetLastResult(v)
          PROVE  owner = None
      BY <3>2 DEF Call, GetLastResult
    <3>3. ASSUME NEW verdict, Answer(verdict) PROVE FALSE
      BY <1>1, <3>3 DEF Answer, IInv, TypeOK
    <3>4. ASSUME NEW label, NEW d, Goto(label, d) PROVE UNCHANGED state
      BY <3>4 DEF Goto
    <3>5. IsAuthorizedStep => UNCHANGED state
      BY <3>3, <3>4 DEF IsAuthorizedStep, PasswdExists, PasswdModified, LoadEntries, Decide,
         CheckCredentials, FindAccessFile, AccessExists, AccessModified, LoadAccessList
    <3>6. UNCHANGED vars \/ Tick \/ Editor => UNCHANGED state
      BY DEF vars, callVars, Tick, Editor, Edit
    <3> QED
      BY <1>1, <3>1, <3>2, <3>5, <3>6 DEF Next
  <2> QED
    BY <1>1, <2>1 DEF IInv, Verdicts
<1>2. IInv /\ [Next]_vars =>
        [\A w \in Workers :
           state[w] = "answered" /\ state'[w] = "idle" => lastAuth \in since[w]]_vars
  BY <1>1
<1> QED
  BY <1>2, InitIInv, StepIInv, PTL DEF Spec, LogsOwnOrLaterVerdict

-----------------------------------------------------------------------------
(* A set of numbers has a least one. *)
LEMMA LeastNumber ==
  ASSUME NEW T, T \subseteq Nat, T # {}
  PROVE  \E m \in T : \A y \in T : m <= y
<1> DEFINE R == {ss \in Nat \X Nat : ss[1] < ss[2]}
<1>1. IsWellFoundedOn(R, Nat)
  BY NatLessThanWellFounded DEF OpToRel
<1>2. \A y \in Nat, m \in Nat : y < m => <<y, m>> \in R
  OBVIOUS
<1> HIDE DEF R
<1>3. PICK m \in T : \A y \in T : <<y, m>> \notin R
  BY <1>1, WFMin
<1>4. ASSUME NEW y \in T PROVE m <= y
  <2>1. m \in Nat /\ y \in Nat /\ ~(y < m)
    BY <1>2, <1>3
  <2> QED
    BY <2>1
<1> QED
  BY <1>4

(* f begins with a and goes on by the step g, up to m. *)
Iterates(f, a, g, m) == f[0] = a /\ \A n \in 1..m : f[n] = g[<<n, f[n - 1]>>]

(* A step can be repeated as often as one likes. *)
LEMMA IterationExists ==
  ASSUME NEW S, NEW a \in S, NEW m \in Nat, NEW g \in [(1..m) \X S -> S]
  PROVE  \E f \in [0..m -> S] : Iterates(f, a, g, m)
<1> DEFINE missing == {n \in 0..m : ~ \E f \in [0..n -> S] : Iterates(f, a, g, n)}
<1>1. missing = {}
  <2> SUFFICES ASSUME missing # {} PROVE FALSE
    OBVIOUS
  <2>1. missing \subseteq Nat
    OBVIOUS
  <2>2. PICK n \in missing : \A y \in missing : n <= y
    <3> HIDE DEF missing
    <3> QED
      BY <2>1, LeastNumber
  <2>3. n \in 0..m /\ n \in Nat /\ ~ \E f \in [0..n -> S] : Iterates(f, a, g, n)
    OBVIOUS
  <2>4. CASE n = 0
    <3> DEFINE f == [i \in 0..0 |-> a]
    <3>1. f \in [0..0 -> S] /\ f[0] = a
      OBVIOUS
    <3> HIDE DEF f
    <3>2. Iterates(f, a, g, 0)
      BY <3>1 DEF Iterates
    <3> QED
      BY <2>3, <2>4, <3>1, <3>2
  <2>5. CASE n > 0
    <3>1. n - 1 \notin missing /\ n - 1 \in 0..m
      BY <2>2, <2>3, <2>5
    <3>2. PICK h \in [0..(n - 1) -> S] : Iterates(h, a, g, n - 1)
      BY <3>1
    <3>3. h[n - 1] \in S /\ n \in 1..m
      BY <2>3, <2>5
    <3>4. <<n, h[n - 1]>> \in (1..m) \X S
      BY <3>3
    <3>5. g[<<n, h[n - 1]>>] \in S
      <4> DEFINE p == <<n, h[n - 1]>>
      <4>1. p \in (1..m) \X S
        BY <3>4
      <4> HIDE DEF p
      <4>2. g[p] \in S
        BY <4>1
      <4> QED
        BY <4>2 DEF p
    <3> DEFINE f == [i \in 0..n |-> IF i = n THEN g[<<n, h[n - 1]>>] ELSE h[i]]
    <3>6. f \in [0..n -> S]
      BY <2>3, <3>5
    <3>7. f[0] = a /\ \A i \in 0..(n - 1) : f[i] = h[i]
      BY <2>3, <2>5, <3>2 DEF Iterates
    <3>8. f[n] = g[<<n, h[n - 1]>>]
      BY <2>3
    <3> HIDE DEF f
    <3>9. ASSUME NEW i \in 1..n PROVE f[i] = g[<<i, f[i - 1]>>]
      <4>1. f[i - 1] = h[i - 1]
        BY <2>3, <3>7
      <4>2. i = n \/ i \in 1..(n - 1)
        BY <2>3
      <4>3. i # n => f[i] = h[i] /\ h[i] = g[<<i, h[i - 1]>>]
        BY <2>3, <3>2, <3>7, <4>2 DEF Iterates
      <4> QED
        BY <3>8, <4>1, <4>3
    <3> QED
      BY <2>3, <3>6, <3>7, <3>9 DEF Iterates
  <2> QED
    BY <2>3, <2>4, <2>5
<1> QED
  BY <1>1

-----------------------------------------------------------------------------
(* The decoder between two characters: it has six, four or two bits of a   *)
(* byte, or none.                                                          *)
LowBits     == 0..4095
BitCounts   == {0 - 8, 0 - 6, 0 - 4, 0 - 2}
ByteStrings == Seq(0..255)
Decoders == [value : LowBits, bits : BitCounts, out : ByteStrings, done : BOOLEAN, bad : BOOLEAN]

LEMMA ValueType == ASSUME NEW c PROVE Base64Value(c) \in 0..64
  BY DEF Base64Value

(* Each of 64 numbers has a digit of its own, and none of them is a space  *)
(* or a padding.                                                           *)
LEMMA DigitIs ==
  ASSUME NEW v \in 0..63
  PROVE  LET c == Digit64(v) IN Base64Value(c) = v /\ ~IsSpace(c) /\ c # Equals
<1> DEFINE D == {43, 47} \cup (48..57) \cup (65..90) \cup (97..122)
<1>1. \E c \in D : Base64Value(c) = v
  <2>1. CASE v \in 0..25
    <3>1. v + 65 \in D /\ Base64Value(v + 65) = v
      BY <2>1 DEF Base64Value
    <3> QED
      BY <3>1
  <2>2. CASE v \in 26..51
    <3>1. v + 71 \in D /\ Base64Value(v + 71) = v
      BY <2>2 DEF Base64Value
    <3> QED
      BY <3>1
  <2>3. CASE v \in 52..61
    <3>1. v - 4 \in D /\ Base64Value(v - 4) = v
      BY <2>3 DEF Base64Value
    <3> QED
      BY <3>1
  <2>4. CASE v = 62
    <3>1. 43 \in D /\ Base64Value(43) = v
      BY <2>4 DEF Base64Value
    <3> QED
      BY <3>1
  <2>5. CASE v = 63
    <3>1. 47 \in D /\ Base64Value(47) = v
      BY <2>5 DEF Base64Value
    <3> QED
      BY <3>1
  <2> QED
    BY <2>1, <2>2, <2>3, <2>4, <2>5
<1>2. Digit64(v) \in D /\ Base64Value(Digit64(v)) = v
  BY <1>1 DEF Digit64
<1> QED
  BY <1>2 DEF IsSpace, Equals, Blank

(* The byte that leaves the decoder once there are eight bits.             *)
Emitted(value, bits) == HighByte(value, bits + 6)

LEMMA Powers ==
  ASSUME NEW x PROVE (x = 4 => 2^x = 16) /\ (x = 2 => 2^x = 4) /\ (x = 0 => 2^x = 1)
<1>1. 2^4 = 16 /\ 2^2 = 4 /\ 2^0 = 1
  OBVIOUS
<1> QED
  BY <1>1, Zenon

LEMMA EmittedIs ==
  ASSUME NEW w \in LowBits, NEW b \in BitCounts, b # 0 - 8
  PROVE  /\ Emitted(w, b) \in 0..255
         /\ b = 0 - 2 => Emitted(w, b) = (w \div 16) % 256
         /\ b = 0 - 4 => Emitted(w, b) = (w \div 4) % 256
         /\ b = 0 - 6 => Emitted(w, b) = w % 256
<1> DEFINE x == 2^(b + 6)
<1>1. /\ b = 0 - 2 => b + 6 = 4
      /\ b = 0 - 4 => b + 6 = 2
      /\ b = 0 - 6 => b + 6 = 0
  OBVIOUS
<1>2. /\ b = 0 - 2 => x = 16
      /\ b = 0 - 4 => x = 4
      /\ b = 0 - 6 => x = 1
  BY <1>1, Powers
<1>3. Emitted(w, b) = (w \div x) % 256
  BY Zenon DEF Emitted, HighByte
<1>4. b \in {0 - 6, 0 - 4, 0 - 2} /\ w \in 0..4095
  BY DEF BitCounts, LowBits
<1> HIDE DEF x
<1>5. CASE b = 0 - 2
  <2>1. (w \div 16) % 256 \in 0..255
    BY <1>4
  <2> QED
    BY <1>2, <1>3, <1>5, <2>1
<1>6. CASE b = 0 - 4
  <2>1. (w \div 4) % 256 \in 0..255
    BY <1>4
  <2> QED
    BY <1>2, <1>3, <1>6, <2>1
<1>7. CASE b = 0 - 6
  <2>1. w % 256 \in 0..255 /\ (w \div 1) = w
    BY <1>4
  <2> QED
    BY <1>2, <1>3, <1>7, <2>1
<1> QED
  BY <1>4, <1>5, <1>6, <1>7

(* What the decoder writes: six bits more, the same and a byte, that the   *)
(* padding has come, that a character is no digit.                         *)
Longer(s, w, b)    == [s EXCEPT !.value = w, !.bits = b]
Fuller(s, w, b, l) == [s EXCEPT !.value = w, !.bits = b, !.out = l]
Ended(s)           == [s EXCEPT !.done = TRUE]
Refused(s)         == [s EXCEPT !.bad = TRUE]

(* A decoder with these low bits, bit count and output, which goes on as   *)
(* another did.                                                            *)
After(t, s, w, b, l) ==
  /\ t \in Decoders /\ t.done = s.done /\ t.bad = s.bad
  /\ t.value = w /\ t.bits = b /\ t.out = l

LEMMA LongerIs ==
  ASSUME NEW s \in Decoders, NEW w \in LowBits, NEW b \in BitCounts
  PROVE  After(Longer(s, w, b), s, w, b, s.out)
  BY DEF Decoders, Longer, After

LEMMA FullerIs ==
  ASSUME NEW s \in Decoders, NEW w \in LowBits, NEW b \in BitCounts, NEW l \in ByteStrings
  PROVE  After(Fuller(s, w, b, l), s, w, b, l)
  BY DEF Decoders, Fuller, After

LEMMA EndedIs ==
  ASSUME NEW s \in Decoders
  PROVE  /\ Refused(s) \in Decoders
         /\ LET t == Ended(s) IN t \in Decoders /\ t.done /\ t.bad = s.bad /\ t.out = s.out
  BY DEF Decoders, Ended, Refused

(* The bits of the decoder and those of one digit more.                    *)
NextBits(s, v) == Shifted(s.value, v)

LEMMA DecodesIs ==
  ASSUME NEW s, NEW c
  PROVE  LET v == Base64Value(c)
             w == NextBits(s, v)
             t == Decodes(s, c)
             skip == s.done \/ s.bad \/ IsSpace(c)
         IN  /\ skip => t = s
             /\ ~skip /\ c = Equals => t = Ended(s)
             /\ ~skip /\ c # Equals /\ v = 64 => t = Refused(s)
             /\ ~skip /\ c # Equals /\ v # 64 /\ s.bits + 6 < 0 => t = Longer(s, w, s.bits + 6)
             /\ ~skip /\ c # Equals /\ v # 64 /\ ~(s.bits + 6 < 0) =>
                  t = Fuller(s, w, (s.bits + 6) - 8, Append(s.out, Emitted(w, s.bits)))
  BY Zenon DEF Decodes, Emitted, NextBits, Longer, Fuller, Ended, Refused

LEMMA LowBitsOf ==
  ASSUME NEW x \in LowBits, NEW v \in 0..64 PROVE Shifted(x, v) \in LowBits
  BY DEF LowBits, Shifted

(* The bits that a digit adds, and the byte that it may complete.          *)
Writes(s, w) ==
  LET e == Emitted(w, s.bits)
  IN  /\ w \in LowBits
      /\ s.bits = 0 - 8 => s.bits + 6 < 0 /\ s.bits + 6 = 0 - 2 /\ 0 - 2 \in BitCounts
      /\ s.bits # 0 - 8 => /\ ~(s.bits + 6 < 0) /\ (s.bits + 6) - 8 = s.bits - 2
                           /\ s.bits - 2 \in BitCounts
                           /\ e \in 0..255 /\ Append(s.out, e) \in ByteStrings

LEMMA WritesIs ==
  ASSUME NEW s \in Decoders, NEW v \in 0..64
  PROVE  Writes(s, NextBits(s, v))
<1> DEFINE w == NextBits(s, v)
           e == Emitted(w, s.bits)
<1>1. s.value \in LowBits /\ s.bits \in BitCounts /\ s.out \in ByteStrings
  BY DEF Decoders
<1>2. w \in LowBits
  <2> DEFINE x == s.value
  <2>1. w = Shifted(x, v)
    BY DEF NextBits
  <2>2. x \in LowBits
    BY <1>1
  <2> HIDE DEF x, w
  <2> QED
    BY <2>1, <2>2, LowBitsOf, Zenon
<1> HIDE DEF w
<1>3. 0 - 2 \in BitCounts /\ (s.bits = 0 - 8 => s.bits + 6 < 0 /\ s.bits + 6 = 0 - 2)
  BY DEF BitCounts
<1>4. ASSUME s.bits # 0 - 8
      PROVE  /\ ~(s.bits + 6 < 0) /\ (s.bits + 6) - 8 = s.bits - 2 /\ s.bits - 2 \in BitCounts
             /\ e \in 0..255 /\ Append(s.out, e) \in ByteStrings
  <2>1. ~(s.bits + 6 < 0) /\ (s.bits + 6) - 8 = s.bits - 2 /\ s.bits - 2 \in BitCounts
    BY <1>1, <1>4 DEF BitCounts
  <2>2. e \in 0..255
    BY <1>1, <1>2, <1>4, EmittedIs
  <2> HIDE DEF e
  <2>3. Append(s.out, e) \in ByteStrings
    BY <1>1, <2>2 DEF ByteStrings
  <2> QED
    BY <2>1, <2>2, <2>3
<1> QED
  BY <1>2, <1>3, <1>4 DEF Writes, w

(* What the decoder makes of a digit, of a space, and of the padding.      *)
DigitRead(s, v, t) ==
  /\ t \in Decoders /\ ~t.done /\ ~t.bad /\ t.value = Shifted(s.value, v)
  /\ s.bits = 0 - 8 => t.bits = 0 - 2 /\ t.out = s.out
  /\ s.bits = 0 - 2 => t.bits = 0 - 4 /\ t.out = Append(s.out, (t.value \div 16) % 256)
  /\ s.bits = 0 - 4 => t.bits = 0 - 6 /\ t.out = Append(s.out, (t.value \div 4) % 256)
  /\ s.bits = 0 - 6 => t.bits = 0 - 8 /\ t.out = Append(s.out, t.value % 256)

LEMMA DecodesDigit ==
  ASSUME NEW s \in Decoders, ~s.done, ~s.bad, NEW v \in 0..63
  PROVE  DigitRead(s, v, Decodes(s, Digit64(v)))
<1> DEFINE c == Digit64(v)
           w == NextBits(s, v)
           t == Decodes(s, c)
           e == Emitted(w, s.bits)
           l == Append(s.out, e)
<1>1. Base64Value(c) = v /\ ~IsSpace(c) /\ c # Equals
  BY DigitIs
<1>2. s.bits \in BitCounts /\ s.out \in ByteStrings
  BY DEF Decoders
<1>3. v # 64 /\ v \in 0..64
  OBVIOUS
<1>4. Writes(s, w)
  BY <1>3, WritesIs
<1>5. w = Shifted(s.value, v)
  BY DEF NextBits
<1> HIDE DEF c
<1>6. t = IF s.bits + 6 < 0 THEN Longer(s, w, s.bits + 6)
          ELSE Fuller(s, w, (s.bits + 6) - 8, l)
  BY <1>1, <1>3, DecodesIs, Zenon
<1> HIDE DEF w, t, e, l
<1>7. CASE s.bits = 0 - 8
  <2>1. w \in LowBits /\ t = Longer(s, w, 0 - 2) /\ 0 - 2 \in BitCounts
    BY <1>4, <1>6, <1>7 DEF Writes
  <2>2. After(t, s, w, 0 - 2, s.out)
    BY <2>1, LongerIs
  <2>3. t \in Decoders /\ t.done = s.done /\ t.bad = s.bad /\ t.value = w /\ t.bits = 0 - 2 /\ t.out = s.out
    BY <2>2 DEF After
  <2> QED
    BY <1>5, <1>7, <2>3 DEF t, c, DigitRead
<1>8. CASE s.bits # 0 - 8
  <2> DEFINE b == s.bits - 2
  <2>1. /\ w \in LowBits /\ t = Fuller(s, w, b, l)
        /\ b \in BitCounts /\ l \in ByteStrings
    BY <1>4, <1>6, <1>8 DEF Writes, e, l
  <2>2. /\ s.bits = 0 - 2 => e = (w \div 16) % 256 /\ b = 0 - 4
        /\ s.bits = 0 - 4 => e = (w \div 4) % 256 /\ b = 0 - 6
        /\ s.bits = 0 - 6 => e = w % 256 /\ b = 0 - 8
    <3>1. /\ s.bits = 0 - 2 => b = 0 - 4
          /\ s.bits = 0 - 4 => b = 0 - 6
          /\ s.bits = 0 - 6 => b = 0 - 8
      OBVIOUS
    <3> QED
      BY <1>2, <1>8, <2>1, <3>1, EmittedIs DEF e
  <2> HIDE DEF b
  <2>3. t \in Decoders /\ t.done = s.done /\ t.bad = s.bad /\ t.value = w /\ t.bits = b /\ t.out = l
    <3>1. After(t, s, w, b, l)
      BY <2>1, FullerIs
    <3> QED
      BY <3>1 DEF After
  <2>4. /\ s.bits = 0 - 2 => t.bits = 0 - 4 /\ t.out = Append(s.out, (t.value \div 16) % 256)
        /\ s.bits = 0 - 4 => t.bits = 0 - 6 /\ t.out = Append(s.out, (t.value \div 4) % 256)
        /\ s.bits = 0 - 6 => t.bits = 0 - 8 /\ t.out = Append(s.out, t.value % 256)
    BY <2>2, <2>3 DEF l
  <2> QED
    BY <1>5, <1>8, <2>3, <2>4 DEF t, c, DigitRead
<1> QED
  BY <1>7, <1>8

LEMMA DecodesBlank == \A s : Decodes(s, Blank) = s
  BY DEF Decodes, IsSpace

LEMMA DecodesPadding ==
  ASSUME NEW s \in Decoders
  PROVE  LET t == Decodes(s, Equals)
         IN  /\ s.done => t = s
             /\ ~s.done /\ ~s.bad => t \in Decoders /\ t.done /\ ~t.bad /\ t.out = s.out
<1>1. ~IsSpace(Equals)
  BY DEF IsSpace, Blank, Equals
<1>2. s.done => Decodes(s, Equals) = s
  BY DecodesIs, Zenon
<1>3. ~s.done /\ ~s.bad => Decodes(s, Equals) = Ended(s)
  BY <1>1, DecodesIs, Zenon
<1> QED
  BY <1>2, <1>3, EndedIs, Zenon

(* Any character leaves a decoder. *)
LEMMA DecodesType ==
  ASSUME NEW s \in Decoders, NEW c
  PROVE  Decodes(s, c) \in Decoders
<1> DEFINE v == Base64Value(c)
           w == NextBits(s, v)
           l == Append(s.out, Emitted(w, s.bits))
           t == Decodes(s, c)
<1>1. v \in 0..64
  BY ValueType
<1>2. \/ t = s \/ t = Ended(s) \/ t = Refused(s)
      \/ s.bits + 6 < 0 /\ t = Longer(s, w, s.bits + 6)
      \/ ~(s.bits + 6 < 0) /\ t = Fuller(s, w, (s.bits + 6) - 8, l)
  BY DecodesIs, Zenon
<1> HIDE DEF v, t
<1>3. Writes(s, w)
  BY <1>1, WritesIs
<1> HIDE DEF w
<1>4. CASE s.bits = 0 - 8
  <2>1. w \in LowBits /\ s.bits + 6 < 0 /\ s.bits + 6 = 0 - 2 /\ 0 - 2 \in BitCounts
    BY <1>3, <1>4, Zenon DEF Writes
  <2>2. Longer(s, w, s.bits + 6) \in Decoders
    BY <2>1, LongerIs DEF After
  <2> QED
    BY <1>2, <2>1, <2>2, EndedIs, Zenon DEF t
<1>5. CASE s.bits # 0 - 8
  <2>1. /\ w \in LowBits /\ ~(s.bits + 6 < 0) /\ (s.bits + 6) - 8 = s.bits - 2
        /\ s.bits - 2 \in BitCounts /\ l \in ByteStrings
    BY <1>3, <1>5, Zenon DEF Writes
  <2> HIDE DEF l
  <2>2. Fuller(s, w, (s.bits + 6) - 8, l) \in Decoders
    BY <2>1, FullerIs DEF After
  <2> QED
    BY <1>2, <2>1, <2>2, EndedIs, Zenon DEF t
<1> QED
  BY <1>4, <1>5

-----------------------------------------------------------------------------
(* DecodeBase64 goes through the text from its first character on.         *)
Start == [value |-> 0, bits |-> 0 - 8, out |-> <<>>, done |-> FALSE, bad |-> FALSE]

LEMMA StartIs ==
  /\ Start \in Decoders /\ ~Start.done /\ ~Start.bad
  /\ Start.bits = 0 - 8 /\ Start.out = <<>>
<1>1. 0 \in LowBits /\ 0 - 8 \in BitCounts /\ <<>> \in ByteStrings
  BY DEF LowBits, BitCounts, ByteStrings
<1> QED
  BY <1>1 DEF Start, Decoders

Goes(text, f) ==
  f[0] = Start /\ \A n \in 1..Len(text) : f[n] = Decodes(f[n - 1], text[n])

LEMMA DecodeIs ==
  ASSUME NEW C, NEW text, text \in Seq(C)
  PROVE  \E f : Goes(text, f) /\ DecodeBase64(text) = f[Len(text)]
<1> DEFINE m == Len(text)
           after == CHOOSE f : f = [n \in 0..m |-> IF n = 0 THEN Start ELSE Decodes(f[n - 1], text[n])]
           g == [p \in (1..m) \X Decoders |-> Decodes(p[2], text[p[1]])]
<1>1. m \in Nat
  BY LenProperties
<1>2. DecodeBase64(text) = after[m]
  BY Zenon DEF DecodeBase64, Start
<1>3. g \in [(1..m) \X Decoders -> Decoders]
  <2>1. ASSUME NEW p \in (1..m) \X Decoders PROVE Decodes(p[2], text[p[1]]) \in Decoders
    <3>1. p[2] \in Decoders
      OBVIOUS
    <3> QED
      BY <3>1, DecodesType
  <2> QED
    BY <2>1
<1>4. \A n \in 1..m, s \in Decoders : g[<<n, s>>] = Decodes(s, text[n])
  OBVIOUS
<1> HIDE DEF g, m
<1>5. PICK h \in [0..m -> Decoders] : Iterates(h, Start, g, m)
  BY <1>1, <1>3, StartIs, IterationExists
<1>6. ASSUME NEW n \in 0..m
      PROVE  h[n] = IF n = 0 THEN Start ELSE Decodes(h[n - 1], text[n])
  <2>1. n # 0 => n \in 1..m /\ n - 1 \in 0..m
    BY <1>1
  <2>2. n # 0 => h[n] = g[<<n, h[n - 1]>>] /\ h[n - 1] \in Decoders
    BY <1>5, <2>1 DEF Iterates
  <2>3. n # 0 => g[<<n, h[n - 1]>>] = Decodes(h[n - 1], text[n])
    BY <1>4, <2>1, <2>2
  <2>4. n = 0 => h[n] = Start
    BY <1>5 DEF Iterates
  <2> QED
    BY <2>2, <2>3, <2>4
<1>7. h = [n \in 0..m |-> IF n = 0 THEN Start ELSE Decodes(h[n - 1], text[n])]
  BY <1>5, <1>6
<1>8. after = [n \in 0..m |-> IF n = 0 THEN Start ELSE Decodes(after[n - 1], text[n])]
  <2>1. \E f : f = [n \in 0..m |-> IF n = 0 THEN Start ELSE Decodes(f[n - 1], text[n])]
    BY <1>7
  <2> QED
    BY <2>1
<1> HIDE DEF after
<1>9. after[0] = Start /\ \A n \in 1..m : after[n] = Decodes(after[n - 1], text[n])
  <2>1. 0 \in 0..m /\ \A n \in 1..m : n \in 0..m /\ n # 0
    BY <1>1
  <2> QED
    BY <1>8, <2>1
<1> QED
  BY <1>2, <1>9, Zenon DEF Goes, m

-----------------------------------------------------------------------------
(* Of the value and the digit, p is shifted out and r is left.             *)
Parts(value, v, p, r) ==
  /\ value \in Nat /\ v \in Nat /\ p \in Nat /\ r \in 0..4095
  /\ value * 64 + v = 4096 * p + r

LEMMA ShiftedIs ==
  ASSUME NEW value, NEW v, NEW p, NEW r, Parts(value, v, p, r)
  PROVE  Shifted(value, v) = r
<1> DEFINE n == value * 64 + v
<1>1. /\ n \in Nat /\ p \in Nat /\ r \in 0..4095
      /\ n = 4096 * p + r /\ Shifted(value, v) = n % 4096
  BY DEF Shifted, Parts
<1> HIDE DEF n
<1> QED
  BY <1>1

(* A byte in two parts: six bits and two, four and four, two and six.      *)
LEMMA SixTwo ==
  ASSUME NEW a \in 0..255
  PROVE  \E x \in 0..63, y \in 0..3 : a = 4 * x + y /\ a \div 4 = x /\ a % 4 = y
<1>1. a = 4 * (a \div 4) + (a % 4) /\ a % 4 \in 0..3 /\ a \div 4 \in 0..63
  OBVIOUS
<1> QED
  BY <1>1

LEMMA FourFour ==
  ASSUME NEW b \in 0..255
  PROVE  \E x \in 0..15, y \in 0..15 : b = 16 * x + y /\ b \div 16 = x /\ b % 16 = y
<1>1. b = 16 * (b \div 16) + (b % 16) /\ b % 16 \in 0..15 /\ b \div 16 \in 0..15
  OBVIOUS
<1> QED
  BY <1>1

LEMMA TwoSix ==
  ASSUME NEW c \in 0..255
  PROVE  \E x \in 0..3, y \in 0..63 : c = 64 * x + y /\ c \div 64 = x /\ c % 64 = y
<1>1. c = 64 * (c \div 64) + (c % 64) /\ c % 64 \in 0..63 /\ c \div 64 \in 0..3
  OBVIOUS
<1> QED
  BY <1>1

(* The low bits of the decoder: the last six, four or two, and those that  *)
(* the next digit moves out, above the others.                             *)
LEMMA LowParts ==
  ASSUME NEW value \in LowBits
  PROVE  /\ \E p \in 0..63, x \in 0..63 : value = 64 * p + x /\ value % 64 = x
         /\ \E p \in 0..63, q \in 0..3, x \in 0..15 : value = 64 * p + 16 * q + x /\ value % 16 = x
         /\ \E p \in 0..63, q \in 0..15, x \in 0..3 : value = 64 * p + 4 * q + x /\ value % 4 = x
<1>1. value \in 0..4095
  BY DEF LowBits
<1>2. PICK p \in 0..63, x \in 0..63 : value = 64 * p + x /\ value % 64 = x
  <2>1. value = 64 * (value \div 64) + (value % 64) /\ value % 64 \in 0..63 /\ value \div 64 \in 0..63
    BY <1>1
  <2> QED
    BY <2>1
<1>3. PICK q \in 0..3, y \in 0..15 : x = 16 * q + y
  <2>1. x = 16 * (x \div 16) + (x % 16) /\ x % 16 \in 0..15 /\ x \div 16 \in 0..3
    OBVIOUS
  <2> QED
    BY <2>1
<1>4. PICK r \in 0..15, z \in 0..3 : x = 4 * r + z
  <2>1. x = 4 * (x \div 4) + (x % 4) /\ x % 4 \in 0..3 /\ x \div 4 \in 0..15
    OBVIOUS
  <2> QED
    BY <2>1
<1>5. value = 64 * p + 16 * q + y /\ value = 64 * p + 4 * r + z
  BY <1>2, <1>3, <1>4
<1>6. (64 * p + 16 * q + y) % 16 = y /\ (64 * p + 4 * r + z) % 4 = z
  OBVIOUS
<1> QED
  BY <1>2, <1>5, <1>6

(* What follows from a digit's six bits, by where in a group it stands:    *)
(* the byte it completes and the bits left over.                           *)
First(value, a, v) ==
  v = a \div 4 => v \in 0..63 /\ Shifted(value, v) % 64 = a \div 4

Second(value, a, b, v) ==
  v = (a % 4) * 16 + b \div 16 /\ value % 64 = a \div 4 =>
    LET w == Shifted(value, v)
    IN  v \in 0..63 /\ (w \div 16) % 256 = a /\ w % 16 = b \div 16

Third(value, b, c, v) ==
  v = (b % 16) * 4 + c \div 64 /\ value % 16 = b \div 16 =>
    LET w == Shifted(value, v)
    IN  v \in 0..63 /\ (w \div 4) % 256 = b /\ w % 4 = c \div 64

Fourth(value, c, v) ==
  v = c % 64 /\ value % 4 = c \div 64 => v \in 0..63 /\ Shifted(value, v) % 256 = c

LEMMA FirstDigit ==
  ASSUME NEW value \in LowBits, NEW a \in 0..255, NEW v
  PROVE  First(value, a, v)
<1>1. PICK x \in 0..63 : a \div 4 = x
  BY SixTwo
<1>2. PICK p \in 0..63, q \in 0..63 : value = 64 * p + q
  BY LowParts
<1>3. value * 64 + x = 4096 * p + (64 * q + x) /\ 64 * q + x \in 0..4095
  BY <1>2
<1>4. value \in Nat /\ x \in Nat /\ p \in Nat
  BY DEF LowBits
<1>5. Shifted(value, x) = 64 * q + x
  <2> DEFINE r0 == 64 * q + x
  <2>1. value * 64 + x = 4096 * p + r0 /\ r0 \in 0..4095 /\ x \in Nat
    BY <1>3, <1>4
  <2> HIDE DEF r0
  <2>2. Parts(value, x, p, r0)
    BY <1>4, <2>1 DEF Parts
  <2>3. Shifted(value, x) = r0
    BY <2>2, ShiftedIs
  <2> QED
    BY <2>3 DEF r0
<1>6. (64 * q + x) % 64 = x
  OBVIOUS
<1> QED
  BY <1>1, <1>5, <1>6 DEF First

LEMMA SecondDigit ==
  ASSUME NEW value \in LowBits, NEW a \in 0..255, NEW b \in 0..255, NEW v
  PROVE  Second(value, a, b, v)
<1>1. PICK x \in 0..63, y \in 0..3 : a = 4 * x + y /\ a \div 4 = x /\ a % 4 = y
  BY SixTwo
<1>2. PICK z \in 0..15 : b \div 16 = z
  BY FourFour
<1>3. PICK p \in 0..63, q \in 0..63 : value = 64 * p + q /\ value % 64 = q
  BY LowParts
<1>4. value * 64 + (16 * y + z) = 4096 * p + (64 * q + 16 * y + z) /\ 64 * q + 16 * y + z \in 0..4095
  BY <1>3
<1>5. value \in Nat /\ 16 * y + z \in Nat /\ p \in Nat
  BY DEF LowBits
<1>6. Shifted(value, 16 * y + z) = 64 * q + 16 * y + z
  <2> DEFINE r0 == 64 * q + 16 * y + z
             v0 == 16 * y + z
  <2>1. value * 64 + v0 = 4096 * p + r0 /\ r0 \in 0..4095 /\ v0 \in Nat
    BY <1>4, <1>5
  <2> HIDE DEF r0, v0
  <2>2. Parts(value, v0, p, r0)
    BY <1>5, <2>1 DEF Parts
  <2>3. Shifted(value, v0) = r0
    BY <2>2, ShiftedIs
  <2> QED
    BY <2>3 DEF r0, v0
<1>7. (64 * x + 16 * y + z) \div 16 = 4 * x + y /\ (64 * x + 16 * y + z) % 16 = z
  OBVIOUS
<1>8. (4 * x + y) % 256 = 4 * x + y /\ 16 * y + z \in 0..63
  OBVIOUS
<1> SUFFICES ASSUME v = y * 16 + z, q = x
             PROVE  v \in 0..63 /\ (Shifted(value, v) \div 16) % 256 = a /\ Shifted(value, v) % 16 = z
  BY <1>1, <1>2, <1>3 DEF Second
<1>9. v = 16 * y + z
  OBVIOUS
<1> QED
  BY <1>1, <1>6, <1>7, <1>8, <1>9

LEMMA ThirdDigit ==
  ASSUME NEW value \in LowBits, NEW b \in 0..255, NEW c \in 0..255, NEW v
  PROVE  Third(value, b, c, v)
<1>1. PICK x \in 0..15, y \in 0..15 : b = 16 * x + y /\ b \div 16 = x /\ b % 16 = y
  BY FourFour
<1>2. PICK z \in 0..3 : c \div 64 = z
  BY TwoSix
<1>3. PICK p \in 0..63, q \in 0..3, u \in 0..15 : value = 64 * p + 16 * q + u /\ value % 16 = u
  BY LowParts
<1>4. /\ value * 64 + (4 * y + z) = 4096 * p + (1024 * q + 64 * u + 4 * y + z)
      /\ 1024 * q + 64 * u + 4 * y + z \in 0..4095
  BY <1>3
<1>5. value \in Nat /\ 4 * y + z \in Nat /\ p \in Nat
  BY DEF LowBits
<1>6. Shifted(value, 4 * y + z) = 1024 * q + 64 * u + 4 * y + z
  <2> DEFINE r0 == 1024 * q + 64 * u + 4 * y + z
             v0 == 4 * y + z
  <2>1. value * 64 + v0 = 4096 * p + r0 /\ r0 \in 0..4095 /\ v0 \in Nat
    BY <1>4, <1>5
  <2> HIDE DEF r0, v0
  <2>2. Parts(value, v0, p, r0)
    BY <1>5, <2>1 DEF Parts
  <2>3. Shifted(value, v0) = r0
    BY <2>2, ShiftedIs
  <2> QED
    BY <2>3 DEF r0, v0
<1>7. /\ (1024 * q + 64 * x + 4 * y + z) \div 4 = 256 * q + 16 * x + y
      /\ (1024 * q + 64 * x + 4 * y + z) % 4 = z
  OBVIOUS
<1>8. (256 * q + 16 * x + y) % 256 = 16 * x + y /\ 4 * y + z \in 0..63
  OBVIOUS
<1> SUFFICES ASSUME v = y * 4 + z, u = x
             PROVE  v \in 0..63 /\ (Shifted(value, v) \div 4) % 256 = b /\ Shifted(value, v) % 4 = z
  BY <1>1, <1>2, <1>3 DEF Third
<1>9. v = 4 * y + z
  OBVIOUS
<1> QED
  BY <1>1, <1>6, <1>7, <1>8, <1>9

LEMMA FourthDigit ==
  ASSUME NEW value \in LowBits, NEW c \in 0..255, NEW v
  PROVE  Fourth(value, c, v)
<1>1. PICK x \in 0..3, y \in 0..63 : c = 64 * x + y /\ c \div 64 = x /\ c % 64 = y
  BY TwoSix
<1>2. PICK p \in 0..63, q \in 0..15, u \in 0..3 : value = 64 * p + 4 * q + u /\ value % 4 = u
  BY LowParts
<1>3. /\ value * 64 + y = 4096 * p + (256 * q + 64 * u + y)
      /\ 256 * q + 64 * u + y \in 0..4095
  BY <1>2
<1>4. value \in Nat /\ y \in Nat /\ p \in Nat
  BY DEF LowBits
<1>5. Shifted(value, y) = 256 * q + 64 * u + y
  <2> DEFINE r0 == 256 * q + 64 * u + y
  <2>1. value * 64 + y = 4096 * p + r0 /\ r0 \in 0..4095 /\ y \in Nat
    BY <1>3, <1>4
  <2> HIDE DEF r0
  <2>2. Parts(value, y, p, r0)
    BY <1>4, <2>1 DEF Parts
  <2>3. Shifted(value, y) = r0
    BY <2>2, ShiftedIs
  <2> QED
    BY <2>3 DEF r0
<1>6. (256 * q + 64 * x + y) % 256 = 64 * x + y
  OBVIOUS
<1> SUFFICES ASSUME v = y, u = x PROVE v \in 0..63 /\ Shifted(value, v) % 256 = c
  BY <1>1, <1>2 DEF Fourth
<1> QED
  BY <1>1, <1>5, <1>6

-----------------------------------------------------------------------------
(* The six bits of the digit r of the group g of the bytes, from 0 on.     *)
At(bs, i) == IF i <= Len(bs) THEN bs[i] ELSE 0

Six(bs, g, r) ==
  IF r = 0 THEN At(bs, 3 * g + 1) \div 4
  ELSE IF r = 1 THEN (At(bs, 3 * g + 1) % 4) * 16 + At(bs, 3 * g + 2) \div 16
  ELSE IF r = 2 THEN (At(bs, 3 * g + 2) % 16) * 4 + At(bs, 3 * g + 3) \div 64
  ELSE At(bs, 3 * g + 3) % 64

LEMMA AtType ==
  ASSUME NEW bs, bs \in ByteStrings, NEW i \in Nat, i >= 1
  PROVE  At(bs, i) \in 0..255
<1>1. Len(bs) \in Nat /\ \A j \in 1..Len(bs) : bs[j] \in 0..255
  BY LenProperties, ElementOfSeq DEF ByteStrings
<1> QED
  BY <1>1 DEF At

(* The four digits of three bytes.                                         *)
Splits(x, m, n, s) ==
  LET t == 262144 * x + 4096 * m + 64 * n + s
  IN  /\ t \div 262144 = x /\ t \div 4096 = 64 * x + m
      /\ t \div 64 = 4096 * x + 64 * m + n
      /\ (64 * x + m) % 64 = m /\ (4096 * x + 64 * m + n) % 64 = n /\ t % 64 = s

LEMMA FourDigits ==
  ASSUME NEW x \in 0..63, NEW m \in 0..63, NEW n \in 0..63, NEW s \in 0..63
  PROVE  Splits(x, m, n, s)
  BY SMT DEF Splits

InDigits(a, b, c) ==
  LET t == a * 65536 + b * 256 + c
  IN  /\ (t \div 64^3) % 64 = a \div 4
      /\ (t \div 64^2) % 64 = (a % 4) * 16 + b \div 16
      /\ (t \div 64^1) % 64 = (b % 16) * 4 + c \div 64
      /\ (t \div 64^0) % 64 = c % 64

LEMMA TripleIs ==
  ASSUME NEW a \in 0..255, NEW b \in 0..255, NEW c \in 0..255
  PROVE  InDigits(a, b, c)
<1>1. PICK x \in 0..63, y \in 0..3 : a = 4 * x + y /\ a \div 4 = x /\ a % 4 = y
  BY SixTwo
<1>2. PICK z \in 0..15, u \in 0..15 : b = 16 * z + u /\ b \div 16 = z /\ b % 16 = u
  BY FourFour
<1>3. PICK v \in 0..3, s \in 0..63 : c = 64 * v + s /\ c \div 64 = v /\ c % 64 = s
  BY TwoSix
<1> DEFINE m == 16 * y + z
           n == 4 * u + v
           t == 262144 * x + 4096 * m + 64 * n + s
           w == a * 65536 + b * 256 + c
           cube == 64^3
<1>4. w = t
  BY <1>1, <1>2, <1>3, SMT
<1>5. m \in 0..63 /\ n \in 0..63
  OBVIOUS
<1>6. m = (a % 4) * 16 + b \div 16 /\ n = (b % 16) * 4 + c \div 64
  <2>1. m = y * 16 + z /\ n = u * 4 + v
    OBVIOUS
  <2> QED
    BY <1>1, <1>2, <1>3, <2>1
<1> HIDE DEF m, n
<1>7. /\ t \div 262144 = x /\ t \div 4096 = 64 * x + m
      /\ t \div 64 = 4096 * x + 64 * m + n
      /\ (64 * x + m) % 64 = m /\ (4096 * x + 64 * m + n) % 64 = n /\ t % 64 = s
  <2>1. Splits(x, m, n, s)
    BY <1>5, FourDigits
  <2> QED
    BY <2>1, SMT DEF Splits
<1>8. cube = 262144 /\ 64^2 = 4096 /\ 64^1 = 64 /\ 64^0 = 1
  BY SMT
<1>9. x % 64 = x /\ t \div 1 = t
  BY <1>5, SMT
<1> HIDE DEF t, w, cube
<1>10. (w \div cube) % 64 = x
  BY <1>4, <1>7, <1>8, <1>9, SMT
<1>11. (w \div 64^2) % 64 = m
  BY <1>4, <1>7, <1>8, SMT
<1>12. (w \div 64^1) % 64 = n
  BY <1>4, <1>7, <1>8, SMT
<1>13. (w \div 64^0) % 64 = s
  BY <1>4, <1>7, <1>8, <1>9, SMT
<1> QED
  BY <1>1, <1>3, <1>6, <1>10, <1>11, <1>12, <1>13, SMT DEF w, cube, InDigits

(* Three bytes from the place 3 g + 1 on, or what is left of them.         *)
Bytes3(bs, g) == SubSeq(bs, 3 * g + 1, Min({3 * g + 3, Len(bs)}))

LEMMA Bytes3Is ==
  ASSUME NEW bs, bs \in ByteStrings, NEW g \in Nat, 3 * g + 1 <= Len(bs)
  PROVE  LET q == Bytes3(bs, g)
         IN  /\ Len(q) \in 1..3
             /\ Len(q) > 1 <=> 3 * g + 2 <= Len(bs)
             /\ Len(q) > 2 <=> 3 * g + 3 <= Len(bs)
             /\ \A i \in 1..3 : (IF i <= Len(q) THEN q[i] ELSE 0) = At(bs, 3 * g + i)
<1> DEFINE N == Len(bs)
           last == Min({3 * g + 3, N})
           q == Bytes3(bs, g)
<1>1. N \in Nat
  BY LenProperties DEF ByteStrings
<1>2. last = IF 3 * g + 3 <= N THEN 3 * g + 3 ELSE N
  BY <1>1 DEF Min
<1> HIDE DEF last
<1>3. last \in 1..N /\ 3 * g + 1 <= last /\ last <= 3 * g + 3 /\ 3 * g + 1 \in 1..N
  BY <1>1, <1>2
<1>4. q = SubSeq(bs, 3 * g + 1, last)
  BY DEF Bytes3, last
<1>5. Len(q) = last - 3 * g /\ \A i \in 1..(last - 3 * g) : q[i] = bs[3 * g + i]
  <2> DEFINE m == 3 * g + 1
  <2>1. m \in 1..(N + 1) /\ last \in (m - 1)..N
    BY <1>1, <1>3
  <2> HIDE DEF m
  <2>2. /\ Len(SubSeq(bs, m, last)) = IF m <= last THEN last - m + 1 ELSE 0
        /\ \A i \in 1..(last - m + 1) : SubSeq(bs, m, last)[i] = bs[m + i - 1]
    BY <2>1, SubSeqProperties DEF ByteStrings
  <2>3. m <= last /\ last - m + 1 = last - 3 * g /\ \A i \in Nat : m + i - 1 = 3 * g + i
    BY <1>1, <1>3 DEF m
  <2>4. q = SubSeq(bs, m, last)
    BY <1>4 DEF m
  <2> HIDE DEF q
  <2>5. Len(q) = last - 3 * g
    BY <2>2, <2>3, <2>4
  <2>6. ASSUME NEW i \in 1..(last - 3 * g) PROVE q[i] = bs[3 * g + i]
    <3>1. i \in 1..(last - m + 1) /\ m + i - 1 = 3 * g + i
      BY <2>3
    <3> QED
      BY <2>2, <2>4, <3>1
  <2> QED
    BY <2>5, <2>6
<1> HIDE DEF q
<1>6. Len(q) \in 1..3 /\ (Len(q) > 1 <=> 3 * g + 2 <= N) /\ (Len(q) > 2 <=> 3 * g + 3 <= N)
  <2>1. CASE 3 * g + 3 <= N
    <3>1. Len(q) = 3
      BY <1>1, <1>2, <1>5, <2>1
    <3> QED
      BY <1>1, <2>1, <3>1
  <2>2. CASE ~(3 * g + 3 <= N)
    <3>1. Len(q) = N - 3 * g /\ N - 3 * g \in 1..2
      BY <1>1, <1>2, <1>5, <2>2
    <3> QED
      BY <1>1, <2>2, <3>1
  <2> QED
    BY <2>1, <2>2
<1>7. ASSUME NEW i \in 1..3 PROVE (IF i <= Len(q) THEN q[i] ELSE 0) = At(bs, 3 * g + i)
  <2>1. i <= Len(q) <=> 3 * g + i <= N
    BY <1>1, <1>2, <1>3, <1>5
  <2>2. i <= Len(q) => q[i] = bs[3 * g + i]
    BY <1>3, <1>5
  <2> QED
    BY <2>1, <2>2, Zenon DEF At
<1> QED
  BY <1>6, <1>7, Zenon DEF q

(* The character r of the group g: a digit, or the padding where no byte   *)
(* has bits for one.                                                       *)
CodeAt(bs, g, r) ==
  IF r < 2 \/ 3 * g + r <= Len(bs) THEN Digit64(Six(bs, g, r)) ELSE Equals

LEMMA GroupIs ==
  ASSUME NEW bs, bs \in ByteStrings, NEW g \in Nat, 3 * g + 1 <= Len(bs), NEW r \in 0..3
  PROVE  Group(Bytes3(bs, g))[r + 1] = CodeAt(bs, g, r)
<1> DEFINE q == Bytes3(bs, g)
           a == IF 1 <= Len(q) THEN q[1] ELSE 0
           b == IF 2 <= Len(q) THEN q[2] ELSE 0
           c == IF 3 <= Len(q) THEN q[3] ELSE 0
           t == a * 65536 + b * 256 + c
           d(k) == Digit64((t \div 64^k) % 64)
           s == Group(q)
<1>1. s = <<d(3), d(2), IF Len(q) > 1 THEN d(1) ELSE Equals, IF Len(q) > 2 THEN d(0) ELSE Equals>>
  BY SMT DEF Group
<1>2. /\ Len(q) \in 1..3 /\ (Len(q) > 1 <=> 3 * g + 2 <= Len(bs))
      /\ (Len(q) > 2 <=> 3 * g + 3 <= Len(bs))
      /\ \A i \in 1..3 : (IF i <= Len(q) THEN q[i] ELSE 0) = At(bs, 3 * g + i)
  BY Bytes3Is
<1>3. a = At(bs, 3 * g + 1) /\ b = At(bs, 3 * g + 2) /\ c = At(bs, 3 * g + 3)
  <2>1. 1 \in 1..3 /\ 2 \in 1..3 /\ 3 \in 1..3
    OBVIOUS
  <2> QED
    BY <1>2, <2>1, Zenon
<1> HIDE DEF q, a, b, c
<1>4. a \in 0..255 /\ b \in 0..255 /\ c \in 0..255
  <2>1. /\ 3 * g + 1 \in Nat /\ 3 * g + 1 >= 1 /\ 3 * g + 2 \in Nat /\ 3 * g + 2 >= 1
        /\ 3 * g + 3 \in Nat /\ 3 * g + 3 >= 1
    OBVIOUS
  <2> QED
    BY <1>3, <2>1, AtType
<1>5. /\ (t \div 64^3) % 64 = a \div 4
      /\ (t \div 64^2) % 64 = (a % 4) * 16 + b \div 16
      /\ (t \div 64^1) % 64 = (b % 16) * 4 + c \div 64
      /\ (t \div 64^0) % 64 = c % 64
  <2>1. InDigits(a, b, c)
    BY <1>4, TripleIs
  <2> QED
    BY <2>1, SMT DEF InDigits
<1>6. /\ Six(bs, g, 0) = a \div 4 /\ Six(bs, g, 1) = (a % 4) * 16 + b \div 16
      /\ Six(bs, g, 2) = (b % 16) * 4 + c \div 64 /\ Six(bs, g, 3) = c % 64
  BY <1>3 DEF Six
<1> HIDE DEF t
<1>7. /\ d(3) = Digit64(Six(bs, g, 0)) /\ d(2) = Digit64(Six(bs, g, 1))
      /\ d(1) = Digit64(Six(bs, g, 2)) /\ d(0) = Digit64(Six(bs, g, 3))
  BY <1>5, <1>6, Zenon
<1> HIDE DEF d
<1>8. /\ s[1] = d(3) /\ s[2] = d(2)
      /\ s[3] = (IF Len(q) > 1 THEN d(1) ELSE Equals)
      /\ s[4] = (IF Len(q) > 2 THEN d(0) ELSE Equals)
  BY <1>1
<1> HIDE DEF s
<1>9. CASE r = 0
  BY <1>7, <1>8, <1>9 DEF CodeAt, s, q
<1>10. CASE r = 1
  BY <1>7, <1>8, <1>10 DEF CodeAt, s, q
<1>11. CASE r = 2
  BY <1>2, <1>7, <1>8, <1>11 DEF CodeAt, s, q
<1>12. CASE r = 3
  BY <1>2, <1>7, <1>8, <1>12 DEF CodeAt, s, q
<1> QED
  BY <1>9, <1>10, <1>11, <1>12

(* What Base64Encode writes.                                               *)
TextLen(bs) == 4 * ((Len(bs) + 2) \div 3)

LEMMA TextIs ==
  ASSUME NEW bs, bs \in ByteStrings
  PROVE  LET text == Base64Encode(bs)
         IN  /\ DOMAIN text = 1..TextLen(bs) /\ TextLen(bs) \in Nat /\ Len(text) = TextLen(bs)
             /\ \A g \in Nat, r \in 0..3 :
                  4 * g + r + 1 <= TextLen(bs) => text[4 * g + r + 1] = CodeAt(bs, g, r)
<1> DEFINE N == Len(bs)
           M == TextLen(bs)
           text == Base64Encode(bs)
           at(i, g) == Group(SubSeq(bs, 3 * g + 1, Min({3 * g + 3, N})))[((i - 1) % 4) + 1]
<1>1. N \in Nat
  BY LenProperties DEF ByteStrings
<1>2. M \in Nat /\ M = 4 * ((N + 2) \div 3)
  BY <1>1 DEF TextLen
<1>3. text = [i \in 1..M |-> at(i, (i - 1) \div 4)]
  BY DEF Base64Encode, TextLen
<1> HIDE DEF M, text, at
<1>4. DOMAIN text = 1..M /\ Len(text) = M
  BY <1>2, <1>3
<1>5. ASSUME NEW g \in Nat, NEW r \in 0..3, 4 * g + r + 1 <= M
      PROVE  text[4 * g + r + 1] = CodeAt(bs, g, r)
  <2> DEFINE i == 4 * g + r + 1
  <2>1. i \in 1..M /\ (i - 1) \div 4 = g /\ (i - 1) % 4 = r
    <3>1. i - 1 = 4 * g + r
      OBVIOUS
    <3>2. (4 * g + r) \div 4 = g /\ (4 * g + r) % 4 = r
      OBVIOUS
    <3> QED
      BY <1>2, <1>5, <3>1, <3>2
  <2>2. 3 * g + 1 <= N
    BY <1>1, <1>2, <1>5
  <2> HIDE DEF i
  <2>3. text[i] = at(i, g)
    BY <1>3, <2>1
  <2>4. at(i, g) = Group(Bytes3(bs, g))[r + 1]
    BY <2>1, Zenon DEF at, Bytes3
  <2> QED
    BY <2>2, <2>3, <2>4, GroupIs DEF i
<1> QED
  BY <1>2, <1>4, <1>5 DEF M, text

-----------------------------------------------------------------------------
(* The decoder after 4 g + r digits of the bytes: it has written the bytes *)
(* that are complete, and has the bits of the next one that came so far.   *)
Complete(g, r) == IF r = 0 THEN 3 * g ELSE 3 * g + (r - 1)

Written(out, bs, m) == Len(out) = m /\ \A i \in 1..m : out[i] = bs[i]

Waits(bs, g, r, s) ==
  /\ s \in Decoders /\ ~s.done /\ ~s.bad
  /\ Complete(g, r) <= Len(bs) /\ Written(s.out, bs, Complete(g, r))
  /\ r = 0 => s.bits = 0 - 8
  /\ r = 1 => s.bits = 0 - 2 /\ s.value % 64 = At(bs, 3 * g + 1) \div 4
  /\ r = 2 => s.bits = 0 - 4 /\ s.value % 16 = At(bs, 3 * g + 2) \div 16
  /\ r = 3 => s.bits = 0 - 6 /\ s.value % 4 = At(bs, 3 * g + 3) \div 64

LEMMA WrittenNext ==
  ASSUME NEW bs, bs \in ByteStrings, NEW out, out \in ByteStrings, NEW m \in Nat,
         m < Len(bs), Written(out, bs, m)
  PROVE  Written(Append(out, At(bs, m + 1)), bs, m + 1)
<1>1. Len(bs) \in Nat /\ \A j \in 1..Len(bs) : bs[j] \in 0..255
  BY LenProperties, ElementOfSeq DEF ByteStrings
<1> DEFINE b == At(bs, m + 1)
<1>2. b = bs[m + 1] /\ b \in 0..255
  BY <1>1 DEF At
<1> HIDE DEF b
<1>3. Len(out) = m
  BY DEF Written
<1>4. Len(Append(out, b)) = m + 1 /\ Append(out, b)[m + 1] = b
      /\ \A i \in 1..m : Append(out, b)[i] = out[i]
  BY <1>2, <1>3, AppendProperties DEF ByteStrings
<1>5. ASSUME NEW i \in 1..(m + 1) PROVE Append(out, b)[i] = bs[i]
  <2>1. CASE i = m + 1
    BY <1>2, <1>4, <2>1
  <2>2. CASE i \in 1..m
    <3>1. out[i] = bs[i]
      BY <2>2 DEF Written
    <3> QED
      BY <1>4, <2>2, <3>1
  <2>3. i = m + 1 \/ i \in 1..m
    OBVIOUS
  <2> QED
    BY <2>1, <2>2, <2>3, Zenon
<1> QED
  BY <1>4, <1>5, Zenon DEF Written, b

LEMMA DigitStep ==
  ASSUME NEW bs, bs \in ByteStrings, NEW g \in Nat, NEW r \in 0..3, NEW s,
         Waits(bs, g, r, s), 3 * g + 1 <= Len(bs), r < 2 \/ 3 * g + r <= Len(bs)
  PROVE  LET t == Decodes(s, Digit64(Six(bs, g, r)))
         IN  IF r = 3 THEN Waits(bs, g + 1, 0, t) ELSE Waits(bs, g, r + 1, t)
<1> DEFINE N == Len(bs)
           a == At(bs, 3 * g + 1)
           b == At(bs, 3 * g + 2)
           c == At(bs, 3 * g + 3)
           v == Six(bs, g, r)
           t == Decodes(s, Digit64(v))
           w == Shifted(s.value, v)
<1>1. N \in Nat
  BY LenProperties DEF ByteStrings
<1>2. a \in 0..255 /\ b \in 0..255 /\ c \in 0..255
  <2>1. /\ 3 * g + 1 \in Nat /\ 3 * g + 1 >= 1 /\ 3 * g + 2 \in Nat /\ 3 * g + 2 >= 1
        /\ 3 * g + 3 \in Nat /\ 3 * g + 3 >= 1
    OBVIOUS
  <2> QED
    BY <2>1, AtType
<1>3. /\ s \in Decoders /\ ~s.done /\ ~s.bad /\ s.value \in LowBits /\ s.out \in ByteStrings
      /\ Written(s.out, bs, Complete(g, r))
  BY DEF Waits, Decoders
<1>4. ASSUME v \in 0..63
      PROVE  /\ t \in Decoders /\ ~t.done /\ ~t.bad /\ t.value = w
             /\ s.bits = 0 - 8 => t.bits = 0 - 2 /\ t.out = s.out
             /\ s.bits = 0 - 2 => t.bits = 0 - 4 /\ t.out = Append(s.out, (w \div 16) % 256)
             /\ s.bits = 0 - 4 => t.bits = 0 - 6 /\ t.out = Append(s.out, (w \div 4) % 256)
             /\ s.bits = 0 - 6 => t.bits = 0 - 8 /\ t.out = Append(s.out, w % 256)
  <2> HIDE DEF v
  <2>1. DigitRead(s, v, t)
    BY <1>3, <1>4, DecodesDigit
  <2> HIDE DEF t
  <2> QED
    BY <2>1 DEF DigitRead
<1>5. CASE r = 0
  <2>1. v = a \div 4 /\ s.bits = 0 - 8
    BY <1>5 DEF Six, Waits
  <2>2. v \in 0..63 /\ w % 64 = a \div 4
    <3> DEFINE u == s.value
    <3> HIDE DEF a, v, u
    <3>1. First(u, a, v)
      BY <1>2, <1>3, FirstDigit DEF u
    <3> QED
      BY <2>1, <3>1 DEF First, u
  <2> HIDE DEF v, w, t
  <2>3. t \in Decoders /\ ~t.done /\ ~t.bad /\ t.value = w /\ t.bits = 0 - 2 /\ t.out = s.out
    BY <1>4, <2>1, <2>2 DEF t
  <2>4. Complete(g, 0) = 3 * g /\ Complete(g, 1) = 3 * g /\ 3 * g <= N
    BY <1>1 DEF Complete
  <2>5. Written(t.out, bs, 3 * g)
    BY <1>3, <1>5, <2>3, <2>4
  <2>6. Waits(bs, g, 1, t)
    BY <2>2, <2>3, <2>4, <2>5 DEF Waits
  <2> QED
    BY <1>5, <2>6 DEF t, v
<1>6. CASE r = 1
  <2>1. v = (a % 4) * 16 + b \div 16 /\ s.bits = 0 - 2 /\ s.value % 64 = a \div 4
    BY <1>6 DEF Six, Waits
  <2>2. v \in 0..63 /\ (w \div 16) % 256 = a /\ w % 16 = b \div 16
    <3> DEFINE u == s.value
    <3> HIDE DEF a, b, v, u
    <3>1. Second(u, a, b, v)
      BY <1>2, <1>3, SecondDigit DEF u
    <3> QED
      BY <2>1, <3>1 DEF Second, u
  <2> HIDE DEF v, w, t
  <2>3. t \in Decoders /\ ~t.done /\ ~t.bad /\ t.value = w /\ t.bits = 0 - 4 /\ t.out = Append(s.out, a)
    BY <1>4, <2>1, <2>2 DEF t
  <2>4. Complete(g, 1) = 3 * g /\ Complete(g, 2) = 3 * g + 1 /\ 3 * g < N /\ 3 * g \in Nat
    BY <1>1 DEF Complete
  <2>5. Written(t.out, bs, 3 * g + 1)
    BY <1>3, <1>6, <2>3, <2>4, WrittenNext
  <2>6. Waits(bs, g, 2, t)
    BY <2>2, <2>3, <2>4, <2>5 DEF Waits
  <2> QED
    BY <1>6, <2>6 DEF t, v
<1>7. CASE r = 2
  <2>1. v = (b % 16) * 4 + c \div 64 /\ s.bits = 0 - 4 /\ s.value % 16 = b \div 16
    BY <1>7 DEF Six, Waits
  <2>2. v \in 0..63 /\ (w \div 4) % 256 = b /\ w % 4 = c \div 64
    <3> DEFINE u == s.value
    <3> HIDE DEF b, c, v, u
    <3>1. Third(u, b, c, v)
      BY <1>2, <1>3, ThirdDigit DEF u
    <3> QED
      BY <2>1, <3>1 DEF Third, u
  <2> HIDE DEF v, w, t
  <2>3. t \in Decoders /\ ~t.done /\ ~t.bad /\ t.value = w /\ t.bits = 0 - 6 /\ t.out = Append(s.out, b)
    BY <1>4, <2>1, <2>2 DEF t
  <2>4. /\ Complete(g, 2) = 3 * g + 1 /\ Complete(g, 3) = 3 * g + 2 /\ 3 * g + 1 < N
        /\ 3 * g + 1 \in Nat /\ (3 * g + 1) + 1 = 3 * g + 2
    BY <1>1, <1>7 DEF Complete
  <2>5. Written(t.out, bs, 3 * g + 2)
    BY <1>3, <1>7, <2>3, <2>4, WrittenNext
  <2>6. Waits(bs, g, 3, t)
    BY <2>2, <2>3, <2>4, <2>5 DEF Waits
  <2> QED
    BY <1>7, <2>6 DEF t, v
<1>8. CASE r = 3
  <2>1. v = c % 64 /\ s.bits = 0 - 6 /\ s.value % 4 = c \div 64
    BY <1>8 DEF Six, Waits
  <2>2. v \in 0..63 /\ w % 256 = c
    <3> DEFINE u == s.value
    <3> HIDE DEF c, v, u
    <3>1. Fourth(u, c, v)
      BY <1>2, <1>3, FourthDigit DEF u
    <3> QED
      BY <2>1, <3>1 DEF Fourth, u
  <2> HIDE DEF v, w, t
  <2>3. t \in Decoders /\ ~t.done /\ ~t.bad /\ t.value = w /\ t.bits = 0 - 8 /\ t.out = Append(s.out, c)
    BY <1>4, <2>1, <2>2 DEF t
  <2>4. /\ Complete(g, 3) = 3 * g + 2 /\ Complete(g + 1, 0) = 3 * g + 3 /\ 3 * g + 2 < N
        /\ 3 * g + 2 \in Nat /\ (3 * g + 2) + 1 = 3 * g + 3
    BY <1>1, <1>8 DEF Complete
  <2>5. Written(t.out, bs, 3 * g + 3)
    BY <1>3, <1>8, <2>3, <2>4, WrittenNext
  <2>6. Waits(bs, g + 1, 0, t)
    BY <2>3, <2>4, <2>5 DEF Waits
  <2> QED
    BY <1>8, <2>6 DEF t, v
<1> QED
  BY <1>5, <1>6, <1>7, <1>8

(* Where the digits end, and the padding begins.                           *)
LEMMA DigitCount ==
  ASSUME NEW N \in Nat, NEW g \in Nat, NEW r \in 0..3
  PROVE  /\ 4 * g + r + 1 <= 4 * ((N + 2) \div 3) => 3 * g + 1 <= N
         /\ 4 * g + r + 1 <= (4 * N + 2) \div 3 =>
              3 * g + 1 <= N /\ (r < 2 \/ 3 * g + r <= N)
         /\ ~(4 * g + r + 1 <= (4 * N + 2) \div 3) =>
              ~(3 * g + 1 <= N) \/ (r >= 2 /\ ~(3 * g + r <= N))
         /\ 4 * g + r = (4 * N + 2) \div 3 => Complete(g, r) = N
<1>1. PICK q \in Nat, u \in 0..2 : N = 3 * q + u
  <2>1. N = 3 * (N \div 3) + (N % 3) /\ N % 3 \in 0..2 /\ N \div 3 \in Nat
    OBVIOUS
  <2> QED
    BY <2>1
<1>2. (N + 2) \div 3 = IF u = 0 THEN q ELSE q + 1
  <2>1. CASE u = 0
    BY <1>1, <2>1
  <2>2. CASE u # 0
    BY <1>1, <2>2
  <2> QED
    BY <2>1, <2>2
<1>3. (4 * N + 2) \div 3 = IF u = 0 THEN 4 * q ELSE 4 * q + u + 1
  <2>1. CASE u = 0
    BY <1>1, <2>1
  <2>2. CASE u = 1
    BY <1>1, <2>2
  <2>3. CASE u = 2
    BY <1>1, <2>3
  <2> QED
    BY <2>1, <2>2, <2>3
<1> DEFINE d == (4 * N + 2) \div 3
           M == (N + 2) \div 3
<1> HIDE DEF d, M
<1>4. 4 * g + r + 1 <= 4 * M => 3 * g + 1 <= N
  BY <1>1, <1>2 DEF M
<1>5. 4 * g + r + 1 <= d => 3 * g + 1 <= N /\ (r < 2 \/ 3 * g + r <= N)
  BY <1>1, <1>3 DEF d
<1>6. ~(4 * g + r + 1 <= d) => ~(3 * g + 1 <= N) \/ (r >= 2 /\ ~(3 * g + r <= N))
  BY <1>1, <1>3 DEF d
<1>7. 4 * g + r = d => Complete(g, r) = N
  BY <1>1, <1>3 DEF d, Complete
<1> QED
  BY <1>4, <1>5, <1>6, <1>7 DEF d, M

Padded(bs, s) == s \in Decoders /\ s.done /\ ~s.bad /\ s.out = bs

(* The decoder after c characters of what Base64Encode writes.             *)
DigitsOf(bs) == (4 * Len(bs) + 2) \div 3

Reads(bs, c, s) ==
  IF c <= DigitsOf(bs) THEN Waits(bs, c \div 4, c % 4, s) ELSE Padded(bs, s)

LEMMA WrittenAll ==
  ASSUME NEW bs, bs \in ByteStrings, NEW out, out \in ByteStrings, Written(out, bs, Len(bs))
  PROVE  out = bs
<1>1. Len(out) = Len(bs) /\ \A i \in 1..Len(bs) : out[i] = bs[i]
  BY DEF Written
<1> QED
  BY <1>1, SeqEqual DEF ByteStrings

LEMMA ReadsFirst ==
  ASSUME NEW bs, bs \in ByteStrings
  PROVE  Reads(bs, 0, Start)
<1>1. Len(bs) \in Nat
  BY LenProperties DEF ByteStrings
<1>2. 0 <= DigitsOf(bs) /\ 0 \div 4 = 0 /\ 0 % 4 = 0
  <2> DEFINE N == Len(bs)
  <2>1. N \in Nat
    BY <1>1
  <2> HIDE DEF N
  <2>2. 0 <= (4 * N + 2) \div 3
    BY <2>1
  <2> QED
    BY <2>2 DEF DigitsOf, N
<1>3. Complete(0, 0) = 0
  BY DEF Complete
<1>4. Written(Start.out, bs, 0)
  BY StartIs DEF Written
<1>5. Waits(bs, 0, 0, Start)
  BY <1>1, <1>3, <1>4, StartIs DEF Waits
<1> QED
  BY <1>2, <1>5 DEF Reads

(* Once all the digits are read the bytes are there.                       *)
LEMMA ReadsLast ==
  ASSUME NEW bs, bs \in ByteStrings, NEW c \in Nat, DigitsOf(bs) <= c, NEW s, Reads(bs, c, s)
  PROVE  s \in Decoders /\ ~s.bad /\ s.out = bs
<1>1. CASE c <= DigitsOf(bs)
  <2> DEFINE g == c \div 4
             r == c % 4
             N == Len(bs)
  <2>1. N \in Nat
    BY LenProperties DEF ByteStrings
  <2>2. g \in Nat /\ r \in 0..3 /\ c = 4 * g + r
    OBVIOUS
  <2>3. DigitsOf(bs) = (4 * N + 2) \div 3
    BY DEF DigitsOf
  <2>4. Waits(bs, g, r, s)
    BY <1>1 DEF Reads
  <2> HIDE DEF g, r, N
  <2>5. (4 * N + 2) \div 3 \in Nat
    BY <2>1
  <2>6. 4 * g + r = (4 * N + 2) \div 3
    BY <1>1, <2>2, <2>3, <2>5
  <2>7. Complete(g, r) = N
    BY <2>1, <2>2, <2>6, DigitCount
  <2>8. s \in Decoders /\ ~s.bad /\ s.out \in ByteStrings /\ Written(s.out, bs, N)
    BY <2>4, <2>7 DEF Waits, Decoders
  <2> QED
    BY <2>8, WrittenAll DEF N
<1>2. CASE ~(c <= DigitsOf(bs))
  BY <1>2 DEF Reads, Padded
<1> QED
  BY <1>1, <1>2

LEMMA ReadsNext ==
  ASSUME NEW bs, bs \in ByteStrings, NEW c \in Nat, c + 1 <= TextLen(bs), NEW s, Reads(bs, c, s)
  PROVE  Reads(bs, c + 1, Decodes(s, Base64Encode(bs)[c + 1]))
<1> DEFINE g == c \div 4
           r == c % 4
           N == Len(bs)
           k == DigitsOf(bs)
           x == Base64Encode(bs)[c + 1]
           t == Decodes(s, x)
<1>1. N \in Nat
  BY LenProperties DEF ByteStrings
<1>2. g \in Nat /\ r \in 0..3 /\ c = 4 * g + r
  OBVIOUS
<1>3. (c + 1) \div 4 = (IF r = 3 THEN g + 1 ELSE g) /\ (c + 1) % 4 = (IF r = 3 THEN 0 ELSE r + 1)
  <2> HIDE DEF g, r
  <2>1. CASE r = 3
    <3>1. c + 1 = 4 * (g + 1)
      BY <1>2, <2>1
    <3>2. (4 * (g + 1)) \div 4 = g + 1 /\ (4 * (g + 1)) % 4 = 0
      BY <1>2
    <3> QED
      BY <2>1, <3>1, <3>2
  <2>2. CASE r # 3
    <3>1. c + 1 = 4 * g + (r + 1) /\ r + 1 \in 0..3
      BY <1>2, <2>2
    <3>2. (4 * g + (r + 1)) \div 4 = g /\ (4 * g + (r + 1)) % 4 = r + 1
      BY <1>2, <3>1
    <3> QED
      BY <2>2, <3>1, <3>2
  <2> QED
    BY <2>1, <2>2
<1>4. k = (4 * N + 2) \div 3 /\ TextLen(bs) = 4 * ((N + 2) \div 3)
  BY DEF DigitsOf, TextLen
<1> HIDE DEF g, r, N, k
<1>5. k \in Nat
  BY <1>1, <1>4
<1>6. 3 * g + 1 <= N
  BY <1>1, <1>2, <1>4, DigitCount
<1>7. x = CodeAt(bs, g, r)
  BY <1>2, TextIs
<1> HIDE DEF x
<1>8. CASE c + 1 <= k
  <2>1. r < 2 \/ 3 * g + r <= N
    BY <1>1, <1>2, <1>4, <1>8, DigitCount
  <2>2. x = Digit64(Six(bs, g, r))
    BY <1>7, <2>1 DEF CodeAt, N
  <2>3. Waits(bs, g, r, s)
    <3>1. c <= k
      BY <1>5, <1>8
    <3> QED
      BY <3>1 DEF Reads, k, g, r
  <2>4. IF r = 3 THEN Waits(bs, g + 1, 0, t) ELSE Waits(bs, g, r + 1, t)
    BY <1>2, <1>6, <2>1, <2>2, <2>3, DigitStep DEF N
  <2> HIDE DEF t
  <2>5. Waits(bs, (c + 1) \div 4, (c + 1) % 4, t)
    BY <1>3, <2>4
  <2> QED
    BY <1>8, <2>5 DEF Reads, k, t, x
<1>9. CASE ~(c + 1 <= k)
  <2>1. r >= 2 /\ ~(3 * g + r <= N)
    BY <1>1, <1>2, <1>4, <1>6, <1>9, DigitCount
  <2>2. x = Equals
    BY <1>2, <1>7, <2>1 DEF CodeAt, N
  <2>3. s \in Decoders /\ ~s.bad /\ s.out = bs
    <3>1. k <= c
      BY <1>5, <1>9
    <3> QED
      BY <3>1, ReadsLast DEF k
  <2>4. Padded(bs, t)
    <3>1. /\ s.done => t = s
          /\ ~s.done => t \in Decoders /\ t.done /\ ~t.bad /\ t.out = s.out
      BY <2>2, <2>3, DecodesPadding
    <3> QED
      BY <2>3, <3>1 DEF Padded
  <2> QED
    BY <1>9, <2>4 DEF Reads, k, x
<1> QED
  BY <1>8, <1>9

-----------------------------------------------------------------------------
(* A text that holds the characters of the encoded bytes in their order,   *)
(* c[i] of them among its first i, and otherwise spaces.                   *)
Follows(text, bs, c) ==
  /\ c[0] = 0
  /\ \A i \in 1..Len(text) :
       \/ text[i] = Blank /\ c[i] = c[i - 1]
       \/ /\ c[i] = c[i - 1] + 1 /\ c[i] <= TextLen(bs)
          /\ text[i] = Base64Encode(bs)[c[i]]

LEMMA Followed ==
  ASSUME NEW bs, bs \in ByteStrings, NEW text, Len(text) \in Nat,
         NEW c, c \in [0..Len(text) -> Nat], Follows(text, bs, c), NEW f, Goes(text, f)
  PROVE  \A n \in 0..Len(text) : Reads(bs, c[n], f[n])
<1> DEFINE wrong == {n \in 0..Len(text) : ~Reads(bs, c[n], f[n])}
<1> SUFFICES ASSUME wrong # {} PROVE FALSE
  OBVIOUS
<1>1. wrong \subseteq Nat
  OBVIOUS
<1>2. PICK n \in wrong : \A y \in wrong : n <= y
  <2> HIDE DEF wrong
  <2> QED
    BY <1>1, LeastNumber
<1>3. n \in 0..Len(text) /\ ~Reads(bs, c[n], f[n])
  OBVIOUS
<1>4. n # 0
  <2>1. c[0] = 0 /\ f[0] = Start
    BY DEF Follows, Goes
  <2> QED
    BY <1>3, <2>1, ReadsFirst
<1>5. n \in 1..Len(text) /\ n - 1 \in 0..Len(text) /\ n - 1 \notin wrong
  BY <1>2, <1>3, <1>4
<1>6. Reads(bs, c[n - 1], f[n - 1]) /\ c[n - 1] \in Nat
  BY <1>5
<1> DEFINE k == c[n - 1]
           s == f[n - 1]
<1>7. f[n] = Decodes(s, text[n])
  BY <1>5 DEF Goes
<1>8. \/ text[n] = Blank /\ c[n] = k
      \/ c[n] = k + 1 /\ c[n] <= TextLen(bs) /\ text[n] = Base64Encode(bs)[c[n]]
  BY <1>5 DEF Follows
<1>9. k \in Nat /\ Reads(bs, k, s)
  BY <1>6
<1> HIDE DEF k, s, wrong
<1>10. CASE text[n] = Blank /\ c[n] = k
  <2>1. f[n] = s
    BY <1>7, <1>10, DecodesBlank
  <2> QED
    BY <1>3, <1>9, <1>10, <2>1
<1>11. CASE c[n] = k + 1 /\ c[n] <= TextLen(bs) /\ text[n] = Base64Encode(bs)[c[n]]
  <2>1. Reads(bs, k + 1, Decodes(s, Base64Encode(bs)[k + 1]))
    BY <1>9, <1>11, ReadsNext
  <2> QED
    BY <1>3, <1>7, <1>11, <2>1
<1> QED
  BY <1>8, <1>10, <1>11

Recovers(bs, text) == LET d == DecodeBase64(text) IN ~d.bad /\ d.out = bs

LEMMA TextDecoded ==
  ASSUME NEW bs, bs \in ByteStrings, NEW C, NEW text, text \in Seq(C),
         NEW c, c \in [0..Len(text) -> Nat], Follows(text, bs, c),
         DigitsOf(bs) <= c[Len(text)]
  PROVE  Recovers(bs, text)
<1>1. Len(text) \in Nat /\ Len(text) \in 0..Len(text)
  BY LenProperties
<1>2. PICK f : Goes(text, f) /\ DecodeBase64(text) = f[Len(text)]
  BY DecodeIs
<1>3. Reads(bs, c[Len(text)], f[Len(text)])
  BY <1>1, <1>2, Followed
<1>4. c[Len(text)] \in Nat
  BY <1>1
<1>5. ~f[Len(text)].bad /\ f[Len(text)].out = bs
  BY <1>3, <1>4, ReadsLast
<1> QED
  BY <1>2, <1>5 DEF Recovers

(* Base 64, with padding cut off, as it is and with a space in it.         *)
LEMMA CutDecoded ==
  ASSUME NEW bs, bs \in ByteStrings, NEW n \in Nat, DigitsOf(bs) <= n, n <= TextLen(bs)
  PROVE  LET cut == SubSeq(Base64Encode(bs), 1, n)
         IN  Recovers(bs, cut) /\ \A p \in 0..n : Recovers(bs, Spaced(cut, p))
<1> DEFINE code == Base64Encode(bs)
           C == {code[i] : i \in 1..TextLen(bs)} \cup {Blank}
           cut == SubSeq(code, 1, n)
<1>1. DOMAIN code = 1..TextLen(bs) /\ Len(code) = TextLen(bs) /\ TextLen(bs) \in Nat
  BY TextIs
<1> HIDE DEF code
<1>2. \A i \in 1..n : code[i] \in C
  BY <1>1
<1>3. Blank \in C
  OBVIOUS
<1> HIDE DEF C
<1>4. cut \in Seq(C) /\ Len(cut) = n /\ \A i \in 1..n : cut[i] = code[i]
  <2>1. 1 \in Int /\ n \in Int
    OBVIOUS
  <2>2. /\ cut \in Seq(C) /\ Len(cut) = IF 1 <= n THEN n - 1 + 1 ELSE 0
        /\ \A i \in 1..(n - 1 + 1) : cut[i] = code[1 + i - 1]
    BY <1>2, <2>1, SubSeqProperties
  <2> HIDE DEF cut
  <2>3. n - 1 + 1 = n
    OBVIOUS
  <2>4. Len(cut) = n
    BY <2>2, <2>3
  <2>5. ASSUME NEW i \in 1..n PROVE cut[i] = code[i]
    <3>1. 1 + i - 1 = i
      OBVIOUS
    <3> QED
      BY <2>2, <2>3, <3>1
  <2> QED
    BY <2>2, <2>4, <2>5
<1> HIDE DEF cut
<1>5. Recovers(bs, cut)
  <2> DEFINE c == [i \in 0..n |-> i]
  <2>1. c \in [0..Len(cut) -> Nat] /\ c[Len(cut)] = n
    BY <1>4
  <2>2. c[0] = 0 /\ \A i \in 1..n : c[i] = i /\ c[i - 1] = i - 1
    OBVIOUS
  <2> HIDE DEF c
  <2>3. Follows(cut, bs, c)
    <3>1. ASSUME NEW i \in 1..n
          PROVE  c[i] = c[i - 1] + 1 /\ c[i] <= TextLen(bs) /\ cut[i] = code[c[i]]
      <4>1. c[i] = i /\ c[i - 1] = i - 1 /\ cut[i] = code[i]
        BY <1>4, <2>2
      <4>2. i <= TextLen(bs) /\ (i - 1) + 1 = i
        BY <1>1
      <4> QED
        BY <4>1, <4>2
    <3> QED
      BY <1>4, <2>2, <3>1 DEF Follows, code
  <2> QED
    BY <1>4, <2>1, <2>3, TextDecoded
<1>6. ASSUME NEW p \in 0..n PROVE Recovers(bs, Spaced(cut, p))
  <2> DEFINE text == Spaced(cut, p)
             c == [i \in 0..(n + 1) |-> IF i <= p THEN i ELSE i - 1]
  <2>1. text = [i \in 1..(n + 1) |-> IF i <= p THEN cut[i] ELSE IF i = p + 1 THEN Blank ELSE cut[i - 1]]
    BY <1>4 DEF Spaced
  <2>2. c[0] = 0 /\ c[n + 1] = n /\ c \in [0..(n + 1) -> Nat]
    OBVIOUS
  <2>3. ASSUME NEW i \in 1..(n + 1)
        PROVE  /\ c[i] = (IF i <= p THEN i ELSE i - 1)
               /\ c[i - 1] = (IF i <= p + 1 THEN i - 1 ELSE (i - 1) - 1)
    OBVIOUS
  <2> HIDE DEF text, c
  <2>4. text \in Seq(C) /\ Len(text) = n + 1
    <3>1. ASSUME NEW i \in 1..(n + 1)
          PROVE  (IF i <= p THEN cut[i] ELSE IF i = p + 1 THEN Blank ELSE cut[i - 1]) \in C
      <4>1. i <= p => i \in 1..n
        OBVIOUS
      <4>2. ~(i <= p) /\ i # p + 1 => i - 1 \in 1..n
        OBVIOUS
      <4> QED
        BY <1>2, <1>3, <1>4, <4>1, <4>2
    <3>2. text \in [1..(n + 1) -> C]
      BY <2>1, <3>1
    <3>3. n + 1 \in Nat
      OBVIOUS
    <3> QED
      BY <3>2, <3>3
  <2>5. Follows(text, bs, c)
    <3>1. ASSUME NEW i \in 1..(n + 1)
          PROVE  \/ text[i] = Blank /\ c[i] = c[i - 1]
                 \/ c[i] = c[i - 1] + 1 /\ c[i] <= TextLen(bs) /\ text[i] = code[c[i]]
      <4>1. CASE i <= p
        <5>1. i \in 1..n /\ text[i] = cut[i] /\ c[i] = i /\ c[i - 1] = i - 1
          BY <2>1, <2>3, <4>1
        <5> QED
          BY <1>1, <1>4, <5>1
      <4>2. CASE i = p + 1
        <5>1. text[i] = Blank /\ c[i] = i - 1 /\ c[i - 1] = i - 1
          BY <2>1, <2>3, <4>2
        <5> QED
          BY <5>1
      <4>3. CASE ~(i <= p) /\ i # p + 1
        <5>1. i - 1 \in 1..n /\ text[i] = cut[i - 1] /\ c[i] = i - 1 /\ c[i - 1] = (i - 1) - 1
          BY <2>1, <2>3, <4>3
        <5> QED
          BY <1>1, <1>4, <5>1
      <4> QED
        BY <4>1, <4>2, <4>3
    <3> QED
      BY <2>2, <2>4, <3>1 DEF Follows, code
  <2>6. c \in [0..Len(text) -> Nat] /\ DigitsOf(bs) <= c[Len(text)]
    BY <2>2, <2>4
  <2>7. Recovers(bs, text)
    <3> HIDE DEF C
    <3>1. text \in Seq(C)
      BY <2>4
    <3>2. c \in [0..Len(text) -> Nat]
      BY <2>6
    <3>3. DigitsOf(bs) <= c[Len(text)]
      BY <2>6
    <3> QED
      BY <2>5, <3>1, <3>2, <3>3, TextDecoded
  <2> QED
    BY <2>7, Zenon DEF text
<1> QED
  BY <1>5, <1>6 DEF cut, code

-----------------------------------------------------------------------------
(* What is encoded are bytes.                                              *)
AreBytes == task.is = "base64" => input \in Seq(0..255)

THEOREM BytesCorrect == CodingSpec => []AreBytes
<1>1. CodingInit => AreBytes
  BY DEF CodingInit, AreBytes
<1>2. AreBytes /\ [CodingNext]_codingVars => AreBytes'
  <2> SUFFICES ASSUME AreBytes, [CodingNext]_codingVars PROVE AreBytes'
    OBVIOUS
  <2>1. CASE GrowText
    BY <2>1 DEF GrowText, AreBytes
  <2>2. CASE GrowName
    BY <2>2 DEF GrowName, AreBytes
  <2>3. CASE GrowBytes
    <3>1. task.is = "base64" /\ input \in Seq(0..255) /\ task' = task /\ Len(input) < MaxBytes
      BY <2>3 DEF GrowBytes, AreBytes
    <3>2. Len(input) \in 0..(MaxBytes - 1)
      <4>1. Len(input) \in Nat /\ MaxBytes \in Nat
        BY <3>1, LenProperties, CodingAssumption
      <4> QED
        BY <3>1, <4>1
    <3>3. PICK b \in Octets[Len(input)] : input' = Append(input, b)
      BY <2>3 DEF GrowBytes
    <3>4. b \in 0..255
      BY <3>2, <3>3, CodingAssumption
    <3>5. input' \in Seq(0..255)
      BY <3>1, <3>3, <3>4
    <3> QED
      BY <3>1, <3>5 DEF AreBytes
  <2>4. CASE UNCHANGED codingVars
    BY <2>4 DEF codingVars, AreBytes
  <2> QED
    BY <2>1, <2>2, <2>3, <2>4 DEF CodingNext
<1> QED
  BY <1>1, <1>2, PTL DEF CodingSpec

(* Base 64 gives every string of bytes back, with all of its padding or    *)
(* with some of it or none, and with a space at any place.                 *)
THEOREM Base64Correct == CodingSpec => []Base64Recovers
<1>1. AreBytes => Base64Recovers
  <2> SUFFICES ASSUME task.is = "base64", input \in Seq(0..255) PROVE Base64Recovers
    BY DEF AreBytes, Base64Recovers
  <2> DEFINE code == Base64Encode(input)
             digits == (4 * Len(input) + 2) \div 3
             cut(n) == SubSeq(code, 1, n)
  <2>1. input \in ByteStrings
    BY DEF ByteStrings
  <2>2. Len(code) = TextLen(input) /\ TextLen(input) \in Nat
    BY <2>1, TextIs
  <2>3. digits \in Nat /\ digits = DigitsOf(input)
    <3>1. Len(input) \in Nat
      BY LenProperties
    <3> QED
      BY <3>1 DEF DigitsOf
  <2> HIDE DEF code, digits
  <2>4. ASSUME NEW n \in digits..Len(code)
        PROVE  Recovers(input, cut(n)) /\ \A p \in 0..n : Recovers(input, Spaced(cut(n), p))
    <3>1. n \in Nat /\ DigitsOf(input) <= n /\ n <= TextLen(input)
      BY <2>2, <2>3
    <3> QED
      BY <2>1, <3>1, CutDecoded DEF code
  <2>5. \A n \in digits..Len(code) :
          \A t \in {cut(n)} \cup {Spaced(cut(n), p) : p \in 0..n} : Recovers(input, t)
    BY <2>4
  <2> QED
    BY <2>5 DEF Base64Recovers, Recovers, code, digits
<1> QED
  BY <1>1, BytesCorrect, PTL

-----------------------------------------------------------------------------
(* The board of the cipher. What the decoder writes for a digit, in each   *)
(* of the three rows, is a letter whose code is that digit in that row.    *)
LEMMA TopRow ==
  ASSUME NEW d \in 0..9, d # 4, d # 0
  PROVE  Code(Top[d + 1]) = <<d>> /\ Lower(Top[d + 1]) = Top[d + 1]
<1>1. d \in {1, 2, 3, 5, 6, 7, 8, 9}
  OBVIOUS
<1>2. /\ Top[1 + 1] = "r" /\ Top[2 + 1] = "n" /\ Top[3 + 1] = "a" /\ Top[5 + 1] = "s"
      /\ Top[6 + 1] = "i" /\ Top[7 + 1] = "o" /\ Top[8 + 1] = "e" /\ Top[9 + 1] = "t"
  BY DEF Top
<1>3. /\ Code("r") = <<1>> /\ Code("n") = <<2>> /\ Code("a") = <<3>> /\ Code("s") = <<5>>
      /\ Code("i") = <<6>> /\ Code("o") = <<7>> /\ Code("e") = <<8>> /\ Code("t") = <<9>>
  BY DEF Code, Letters
<1>4. /\ Lower("r") = "r" /\ Lower("n") = "n" /\ Lower("a") = "a" /\ Lower("s") = "s"
      /\ Lower("i") = "i" /\ Lower("o") = "o" /\ Lower("e") = "e" /\ Lower("t") = "t"
  BY DEF Lower, Small
<1> QED
  BY <1>1, <1>2, <1>3, <1>4

LEMMA ZeroRow ==
  ASSUME NEW d \in 0..9
  PROVE  Code(Zero[d + 1]) = <<0, d>> /\ Lower(Zero[d + 1]) = Zero[d + 1]
  BY DEF Code, Letters, Zero, Lower, Small

LEMMA FourRow ==
  ASSUME NEW d \in 0..9, d # 8
  PROVE  Code(Four[d + 1]) = <<4, d>> /\ Lower(Four[d + 1]) = Four[d + 1]
  BY DEF Code, Letters, Four, Lower, Small

(* And each letter stands somewhere on the board.                          *)
LEMMA CodeIs ==
  ASSUME NEW c \in DOMAIN Letters \cup {"."}
  PROVE \/ \E d \in (0..9) \ {0, 4} : Code(c) = <<d>> /\ Top[d + 1] = c
        \/ \E d \in 0..9 : Code(c) = <<0, d>> /\ Zero[d + 1] = c
        \/ \E d \in (0..9) \ {8} : Code(c) = <<4, d>> /\ Four[d + 1] = c
<1>1. \/ \E e \in {1, 2, 3, 5, 6, 7, 8, 9} : Top[e + 1] = c
      \/ \E e \in 0..9 : Zero[e + 1] = c
      \/ \E e \in {0, 1, 2, 3, 4, 5, 6, 7, 9} : Four[e + 1] = c
  <2>1. c \in {"r", "n", "a", "s", "i", "o", "e", "t", "d", "q", "h", "f", "j", ".", "c", "y", "x",
               "p", "g", "m", "w", "v", "u", "b", "k", "l", "z"}
    BY DEF Letters
  <2>2. /\ "r" = Top[1 + 1] /\ "n" = Top[2 + 1] /\ "a" = Top[3 + 1] /\ "s" = Top[5 + 1] /\ "i" = Top[6 + 1]
        /\ "o" = Top[7 + 1] /\ "e" = Top[8 + 1] /\ "t" = Top[9 + 1]
    BY DEF Top
  <2>3. /\ "d" = Zero[0 + 1] /\ "q" = Zero[1 + 1] /\ "h" = Zero[2 + 1] /\ "f" = Zero[3 + 1] /\ "j" = Zero[4 + 1]
        /\ "." = Zero[5 + 1] /\ "c" = Zero[6 + 1] /\ "y" = Zero[7 + 1] /\ "x" = Zero[8 + 1] /\ "p" = Zero[9 + 1]
    BY DEF Zero
  <2>4. /\ "g" = Four[0 + 1] /\ "m" = Four[1 + 1] /\ "w" = Four[2 + 1] /\ "v" = Four[3 + 1] /\ "u" = Four[4 + 1]
        /\ "b" = Four[5 + 1] /\ "k" = Four[6 + 1] /\ "l" = Four[7 + 1] /\ "z" = Four[9 + 1]
    BY DEF Four
  <2>5. c \in {"r", "n", "a", "s", "i", "o", "e", "t"} => \E e \in {1, 2, 3, 5, 6, 7, 8, 9} : Top[e + 1] = c
    BY <2>2
  <2>6. c \in {"d", "q", "h", "f", "j", ".", "c", "y", "x", "p"} => \E e \in 0..9 : Zero[e + 1] = c
    BY <2>3
  <2>7. c \in {"g", "m", "w", "v", "u", "b", "k", "l", "z"} =>
          \E e \in {0, 1, 2, 3, 4, 5, 6, 7, 9} : Four[e + 1] = c
    BY <2>4
  <2> QED
    BY <2>1, <2>5, <2>6, <2>7
<1>2. (\E e \in {1, 2, 3, 5, 6, 7, 8, 9} : Top[e + 1] = c) =>
        \E d \in (0..9) \ {0, 4} : Code(c) = <<d>> /\ Top[d + 1] = c
  BY TopRow
<1>3. (\E e \in 0..9 : Zero[e + 1] = c) => \E d \in 0..9 : Code(c) = <<0, d>> /\ Zero[d + 1] = c
  BY ZeroRow
<1>4. (\E e \in {0, 1, 2, 3, 4, 5, 6, 7, 9} : Four[e + 1] = c) =>
        \E d \in (0..9) \ {8} : Code(c) = <<4, d>> /\ Four[d + 1] = c
  BY FourRow
<1> QED
  BY <1>1, <1>2, <1>3, <1>4

(* No capital becomes a slash, a space or a digit.                         *)
LEMMA LowerIs ==
  ASSUME NEW c
  PROVE  Lower(c) = c \/ Lower(c) \in DOMAIN Letters
<1>1. \A x \in DOMAIN Small : Small[x] \in DOMAIN Letters
  BY DEF Small, Letters
<1> QED
  BY <1>1 DEF Lower

LEMMA NoLetter ==
  /\ "/" \notin DOMAIN Letters \cup {"."} /\ " " \notin DOMAIN Letters \cup {"."}
  /\ "/" \notin ToSet(Digits) /\ " " \notin ToSet(Digits)
  /\ \A d \in 0..9 : Digits[d + 1] \notin DOMAIN Letters \cup {"."}
<1>1. ToSet(Digits) = {"0", "1", "2", "3", "4", "5", "6", "7", "8", "9"}
  BY DEF ToSet, Digits
<1>2. \A d \in 0..9 : Digits[d + 1] \in ToSet(Digits)
  BY DEF ToSet, Digits
<1> QED
  BY <1>1, <1>2 DEF Letters

LEMMA DigitValue ==
  ASSUME NEW d \in 0..9
  PROVE  DigitOf(Digits[d + 1]) = d /\ Digits[d + 1] \in ToSet(Digits)
<1>1. \A e \in 0..9 : Digits[e + 1] = Digits[d + 1] => e = d
  BY DEF Digits
<1>2. Digits[d + 1] \in ToSet(Digits)
  BY DEF ToSet, Digits
<1> QED
  BY <1>1, <1>2 DEF DigitOf

-----------------------------------------------------------------------------
(* One character: the digits it becomes, and whether a number follows.     *)
Ciphers  == Seq(0..9)
Encoders == [out : Ciphers, number : BOOLEAN, stopped : BOOLEAN]

Emit(s, digits, number) == [out |-> s.out \o digits, number |-> number, stopped |-> s.stopped]

LEMMA EmitIs ==
  ASSUME NEW s \in Encoders, NEW digits \in Ciphers, NEW number \in BOOLEAN
  PROVE  /\ Emit(s, digits, number) \in Encoders
         /\ Emit(s, digits, number).out = s.out \o digits
         /\ Emit(s, digits, number).number = number
         /\ Emit(s, digits, number).stopped = s.stopped
<1>1. s.out \o digits \in Ciphers
  BY DEF Encoders, Ciphers
<1> QED
  BY <1>1 DEF Emit, Encoders

LEMMA EmitOut ==
  ASSUME NEW s \in Encoders, NEW w \in Ciphers, NEW n \in BOOLEAN, NEW f, f = Emit(s, w, n)
  PROVE  f.out = s.out \o w /\ f.number = n
  BY EmitIs

LEMMA EncoderIs ==
  ASSUME NEW s \in Encoders
  PROVE  s = [out |-> s.out, number |-> s.number, stopped |-> s.stopped]
  BY DEF Encoders

LEMMA CodeType ==
  ASSUME NEW c \in DOMAIN Letters \cup {"."}
  PROVE  Code(c) \in Ciphers
<1>1. \A d \in 0..9 : <<d>> \in Ciphers /\ <<0, d>> \in Ciphers /\ <<4, d>> \in Ciphers
  BY DEF Ciphers
<1> QED
  BY <1>1, CodeIs

(* A space leaves everything as it is.                                     *)
LEMMA EncodedSpace ==
  ASSUME NEW s \in Encoders
  PROVE  Encoded(s, " ") = s
<1>1. Lower(" ") = " "
  BY DEF Lower, Small
<1> QED
  BY <1>1 DEF Encoded

LEMMA EncodedStopped ==
  ASSUME NEW s \in Encoders, NEW c, s.stopped
  PROVE  Encoded(s, c) = s
  BY DEF Encoded

LEMMA EncodedSlash ==
  ASSUME NEW s \in Encoders, ~s.stopped
  PROVE  Encoded(s, "/") = Emit(s, <<4, 8>>, ~s.number)
<1>1. Lower("/") = "/"
  BY DEF Lower, Small
<1>2. Encoded(s, "/") = [s EXCEPT !.out = @ \o <<4, 8>>, !.number = ~@]
  BY <1>1 DEF Encoded
<1> QED
  BY <1>2, EncoderIs DEF Emit, Encoders

LEMMA EncodedLetter ==
  ASSUME NEW s \in Encoders, ~s.stopped, NEW c, Lower(c) \in DOMAIN Letters \cup {"."}
  PROVE  Encoded(s, c) = Emit(s, Code(Lower(c)), s.number)
<1>1. Lower(c) # " " /\ Lower(c) # "/"
  BY NoLetter
<1>2. Encoded(s, c) = [s EXCEPT !.out = @ \o Code(Lower(c))]
  BY <1>1 DEF Encoded
<1> HIDE DEF Lower
<1> QED
  BY <1>2, EncoderIs DEF Emit, Encoders

LEMMA EncodedDigit ==
  ASSUME NEW s \in Encoders, ~s.stopped, s.number, NEW d \in 0..9
  PROVE  Encoded(s, Digits[d + 1]) = Emit(s, <<d>>, TRUE)
<1> DEFINE c == Digits[d + 1]
<1>1. c \in ToSet(Digits) /\ DigitOf(c) = d /\ c \notin DOMAIN Letters \cup {"."}
  BY DigitValue, NoLetter
<1>2. Lower(c) = c
  <2>1. c \in {"0", "1", "2", "3", "4", "5", "6", "7", "8", "9"}
    BY DEF Digits
  <2> HIDE DEF c
  <2> QED
    BY <2>1 DEF Lower, Small
<1>3. c # " " /\ c # "/"
  BY <1>1, NoLetter
<1> HIDE DEF c
<1>4. Encoded(s, c) = [s EXCEPT !.out = Append(@, d)]
  BY <1>1, <1>2, <1>3 DEF Encoded
<1>5. Append(s.out, d) = s.out \o <<d>>
  BY DEF Encoders, Ciphers
<1> QED
  BY <1>4, <1>5, EncoderIs DEF Emit, Encoders, c

(* What a character that is taken can be.                                  *)
Taken(s, c) ==
  \/ c = " "
  \/ c = "/"
  \/ Lower(c) \in DOMAIN Letters \cup {"."}
  \/ s.number /\ \E d \in 0..9 : c = Digits[d + 1]

LEMMA EncodedCases ==
  ASSUME NEW s \in Encoders, ~s.stopped, NEW c
  PROVE  Taken(s, c) \/ Encoded(s, c) = [s EXCEPT !.stopped = TRUE]
<1> SUFFICES ASSUME ~Taken(s, c) PROVE Encoded(s, c) = [s EXCEPT !.stopped = TRUE]
  OBVIOUS
<1>1. Lower(c) = c /\ c # " " /\ c # "/" /\ c \notin DOMAIN Letters \cup {"."}
  BY LowerIs DEF Taken
<1>2. ~(c \in ToSet(Digits) /\ s.number)
  <2>1. \A x \in ToSet(Digits) : \E d \in 0..9 : x = Digits[d + 1]
    <3>1. DOMAIN Digits = 1..10
      BY DEF Digits
    <3>2. ASSUME NEW i \in 1..10 PROVE i - 1 \in 0..9 /\ Digits[i] = Digits[(i - 1) + 1]
      OBVIOUS
    <3>3. ToSet(Digits) = {Digits[i] : i \in 1..10}
      BY <3>1 DEF ToSet
    <3> QED
      BY <3>2, <3>3
  <2> QED
    BY <2>1 DEF Taken
<1> QED
  BY <1>1, <1>2 DEF Encoded

LEMMA EncodedType ==
  ASSUME NEW s \in Encoders, NEW c
  PROVE  /\ Encoded(s, c) \in Encoders
         /\ ~Encoded(s, c).stopped => ~s.stopped
<1>1. CASE s.stopped
  BY <1>1, EncodedStopped
<1>2. CASE ~s.stopped /\ ~Taken(s, c)
  <2>2. [s EXCEPT !.stopped = TRUE] \in Encoders
    BY DEF Encoders
  <2> QED
    BY <1>2, <2>2, EncodedCases
<1>3. CASE ~s.stopped /\ c = " "
  BY <1>3, EncodedSpace
<1>4. CASE ~s.stopped /\ c = "/"
  <2> DEFINE number == ~s.number
  <2>1. <<4, 8>> \in Ciphers /\ number \in BOOLEAN
    BY DEF Ciphers
  <2>2. Encoded(s, c) = Emit(s, <<4, 8>>, number)
    BY <1>4, EncodedSlash
  <2> HIDE DEF number
  <2>3. Emit(s, <<4, 8>>, number) \in Encoders
    BY <2>1, EmitIs
  <2> QED
    BY <1>4, <2>2, <2>3
<1>5. CASE ~s.stopped /\ Lower(c) \in DOMAIN Letters \cup {"."}
  <2>1. Code(Lower(c)) \in Ciphers /\ s.number \in BOOLEAN
    BY <1>5, CodeType DEF Encoders
  <2> QED
    BY <1>5, <2>1, EncodedLetter, EmitIs
<1>6. CASE ~s.stopped /\ s.number /\ \E d \in 0..9 : c = Digits[d + 1]
  <2>1. PICK d \in 0..9 : c = Digits[d + 1]
    BY <1>6
  <2>2. <<d>> \in Ciphers /\ TRUE \in BOOLEAN
    BY DEF Ciphers
  <2> QED
    BY <1>6, <2>1, <2>2, EncodedDigit, EmitIs
<1> QED
  BY <1>1, <1>2, <1>3, <1>4, <1>5, <1>6 DEF Taken

-----------------------------------------------------------------------------
(* VicEncode goes through the text character by character.                 *)
FirstEncoder == [out |-> <<>>, number |-> FALSE, stopped |-> FALSE]

LEMMA FirstEncoderIs ==
  /\ FirstEncoder \in Encoders /\ FirstEncoder.out = <<>>
  /\ ~FirstEncoder.number /\ ~FirstEncoder.stopped
<1>1. <<>> \in Ciphers
  BY DEF Ciphers
<1> QED
  BY <1>1 DEF FirstEncoder, Encoders

Encodes(text, f) ==
  /\ f[0] = FirstEncoder
  /\ \A n \in 1..Len(text) : f[n] = Encoded(f[n - 1], text[n])

(* Over texts that begin alike it does the same.                           *)
LEMMA EncodesOnce ==
  ASSUME NEW t, NEW u, NEW f, NEW g, Encodes(t, f), Encodes(u, g),
         NEW m \in Nat, Len(t) \in Nat, Len(u) \in Nat, m <= Len(t), m <= Len(u),
         \A n \in 1..m : t[n] = u[n]
  PROVE  \A n \in 0..m : f[n] = g[n]
<1> DEFINE wrong == {n \in 0..m : f[n] # g[n]}
<1> SUFFICES ASSUME wrong # {} PROVE FALSE
  OBVIOUS
<1>1. wrong \subseteq Nat
  OBVIOUS
<1>2. PICK n \in wrong : \A y \in wrong : n <= y
  <2> HIDE DEF wrong
  <2> QED
    BY <1>1, LeastNumber
<1>3. n \in 0..m /\ f[n] # g[n]
  OBVIOUS
<1>4. n # 0
  BY <1>3 DEF Encodes
<1>5. n - 1 \in 0..m /\ n - 1 \notin wrong /\ n \in 1..m
  BY <1>2, <1>3, <1>4
<1>6. f[n - 1] = g[n - 1]
  BY <1>5
<1>7. f[n] = Encoded(f[n - 1], t[n]) /\ g[n] = Encoded(g[n - 1], u[n]) /\ t[n] = u[n]
  BY <1>5 DEF Encodes
<1> QED
  BY <1>3, <1>6, <1>7

LEMMA EncodeIs ==
  ASSUME NEW C, NEW text, text \in Seq(C)
  PROVE  \E f \in [0..Len(text) -> Encoders] : Encodes(text, f) /\ VicEncode(text) = f[Len(text)]
<1> DEFINE m == Len(text)
           after == CHOOSE f : f = [n \in 0..m |->
                       IF n = 0 THEN FirstEncoder ELSE Encoded(f[n - 1], text[n])]
           g == [p \in (1..m) \X Encoders |-> Encoded(p[2], text[p[1]])]
<1>1. m \in Nat
  BY LenProperties
<1>2. VicEncode(text) = after[m]
  BY Zenon DEF VicEncode, FirstEncoder
<1>3. g \in [(1..m) \X Encoders -> Encoders]
  <2>1. ASSUME NEW p \in (1..m) \X Encoders PROVE Encoded(p[2], text[p[1]]) \in Encoders
    <3>1. p[2] \in Encoders
      OBVIOUS
    <3> QED
      BY <3>1, EncodedType
  <2> QED
    BY <2>1
<1>4. \A n \in 1..m, s \in Encoders : g[<<n, s>>] = Encoded(s, text[n])
  OBVIOUS
<1> HIDE DEF g, m
<1>5. PICK h \in [0..m -> Encoders] : Iterates(h, FirstEncoder, g, m)
  BY <1>1, <1>3, FirstEncoderIs, IterationExists
<1>6. ASSUME NEW n \in 0..m
      PROVE  h[n] = IF n = 0 THEN FirstEncoder ELSE Encoded(h[n - 1], text[n])
  <2>1. n # 0 => n \in 1..m /\ n - 1 \in 0..m
    BY <1>1
  <2>2. n # 0 => h[n] = g[<<n, h[n - 1]>>] /\ h[n - 1] \in Encoders
    BY <1>5, <2>1 DEF Iterates
  <2>3. n # 0 => g[<<n, h[n - 1]>>] = Encoded(h[n - 1], text[n])
    BY <1>4, <2>1, <2>2
  <2>4. n = 0 => h[n] = FirstEncoder
    BY <1>5 DEF Iterates
  <2> QED
    BY <2>2, <2>3, <2>4
<1>7. h = [n \in 0..m |-> IF n = 0 THEN FirstEncoder ELSE Encoded(h[n - 1], text[n])]
  BY <1>5, <1>6
<1>8. after = [n \in 0..m |-> IF n = 0 THEN FirstEncoder ELSE Encoded(after[n - 1], text[n])]
  <2>1. \E f : f = [n \in 0..m |-> IF n = 0 THEN FirstEncoder ELSE Encoded(f[n - 1], text[n])]
    BY <1>7
  <2> QED
    BY <2>1
<1> HIDE DEF after
<1>9. after[0] = FirstEncoder /\ \A n \in 1..m : after[n] = Encoded(after[n - 1], text[n])
  <2>1. 0 \in 0..m /\ \A n \in 1..m : n \in 0..m /\ n # 0
    BY <1>1
  <2> QED
    BY <1>8, <2>1
<1>10. Encodes(text, after) /\ Encodes(text, h)
  <2>1. \A n \in 1..m : h[n] = Encoded(h[n - 1], text[n])
    <3>1. \A n \in 1..m : n \in 0..m /\ n # 0
      BY <1>1
    <3> QED
      BY <1>6, <3>1
  <2>2. h[0] = FirstEncoder
    BY <1>5 DEF Iterates
  <2> QED
    BY <1>9, <2>1, <2>2 DEF Encodes, m
<1>11. after[m] = h[m]
  <2>1. \A n \in 0..m : after[n] = h[n]
    BY <1>1, <1>10, EncodesOnce DEF m
  <2> QED
    BY <1>1, <2>1
<1> QED
  BY <1>2, <1>5, <1>10, <1>11 DEF m

LEMMA EncodeEmpty == VicEncode(<<>>) = FirstEncoder
<1>1. <<>> \in Seq({}) /\ Len(<<>>) = 0
  OBVIOUS
<1>2. PICK f : Encodes(<<>>, f) /\ VicEncode(<<>>) = f[Len(<<>>)]
  BY <1>1, EncodeIs
<1> QED
  BY <1>1, <1>2 DEF Encodes

(* One character more.                                                     *)
LEMMA EncodeAppend ==
  ASSUME NEW C, NEW text \in Seq(C), NEW c \in C
  PROVE  VicEncode(Append(text, c)) = Encoded(VicEncode(text), c)
<1> DEFINE m    == Len(text)
           more == Append(text, c)
<1>1. m \in Nat /\ more \in Seq(C) /\ Len(more) = m + 1 /\ more[m + 1] = c
      /\ \A n \in 1..m : text[n] = more[n]
  OBVIOUS
<1>2. PICK f : Encodes(text, f) /\ VicEncode(text) = f[m]
  BY EncodeIs
<1>3. PICK g : Encodes(more, g) /\ VicEncode(more) = g[m + 1]
  BY <1>1, EncodeIs
<1> HIDE DEF more, m
<1>4. Len(text) = m
  BY DEF m
<1>5. \A n \in 0..m : f[n] = g[n]
  BY <1>1, <1>2, <1>3, <1>4, EncodesOnce
<1>6. f[m] = g[m]
  BY <1>1, <1>5
<1>7. g[m + 1] = Encoded(g[m], c)
  <2>1. m + 1 \in 1..Len(more) /\ (m + 1) - 1 = m
    BY <1>1
  <2>2. g[m + 1] = Encoded(g[(m + 1) - 1], more[m + 1])
    BY <1>3, <2>1 DEF Encodes
  <2> QED
    BY <1>1, <2>1, <2>2
<1> QED
  BY <1>2, <1>3, <1>6, <1>7 DEF more

LEMMA EncodeType ==
  ASSUME NEW C, NEW text \in Seq(C)
  PROVE  VicEncode(text) \in Encoders
<1>1. PICK f \in [0..Len(text) -> Encoders] : VicEncode(text) = f[Len(text)]
  BY EncodeIs
<1>2. Len(text) \in 0..Len(text)
  BY LenProperties
<1> QED
  BY <1>1, <1>2

-----------------------------------------------------------------------------
(* One digit: the characters it completes, and the state after it.         *)
States  == {"top", "zero", "four", "number", "number4"}
Marks   == {"/", "4"} \cup UNION {{Top[d + 1], Zero[d + 1], Four[d + 1], Digits[d + 1]} : d \in 0..9}
Texts   == Seq(Marks)
Readers == [out : Texts, state : States]

LEMMA BoardType ==
  ASSUME NEW d \in 0..9
  PROVE  /\ Top[d + 1] \in Marks /\ Zero[d + 1] \in Marks
         /\ Four[d + 1] \in Marks /\ Digits[d + 1] \in Marks
  BY DEF Marks

LEMMA PutsIs ==
  ASSUME NEW s \in Readers, NEW characters \in Texts, NEW row \in States
  PROVE  /\ Puts(s, characters, row) \in Readers
         /\ Puts(s, characters, row).out = s.out \o characters
         /\ Puts(s, characters, row).state = row
<1>1. s.out \o characters \in Texts
  BY DEF Readers, Texts
<1> QED
  BY <1>1 DEF Puts, Readers

(* The characters and the state, by the state before.                      *)
Put(row, d) ==
  IF row = "zero" THEN <<Zero[d + 1]>>
  ELSE IF row = "four" THEN <<Four[d + 1]>>
  ELSE IF row = "number4"
       THEN IF d = 8 THEN <<"/">> ELSE IF d = 4 THEN <<"4">> ELSE <<"4", Digits[d + 1]>>
  ELSE IF row = "number" THEN IF d = 4 THEN <<>> ELSE <<Digits[d + 1]>>
  ELSE IF d = 0 \/ d = 4 THEN <<>> ELSE <<Top[d + 1]>>

StateAfter(row, d) ==
  IF row = "zero" THEN "top"
  ELSE IF row = "four" THEN IF d = 8 THEN "number" ELSE "top"
  ELSE IF row = "number4" THEN IF d = 8 THEN "top" ELSE IF d = 4 THEN "number4" ELSE "number"
  ELSE IF row = "number" THEN IF d = 4 THEN "number4" ELSE "number"
  ELSE IF d = 0 THEN "zero" ELSE IF d = 4 THEN "four" ELSE "top"

LEMMA DecodedIs ==
  ASSUME NEW s \in Readers, NEW d \in 0..9
  PROVE  Decoded(s, d) = Puts(s, Put(s.state, d), StateAfter(s.state, d))
<1>1. s.state \in States
  BY DEF Readers
<1>2. CASE s.state = "zero"
  BY <1>2 DEF Decoded, Put, StateAfter
<1>3. CASE s.state = "four"
  BY <1>3 DEF Decoded, Put, StateAfter
<1>4. CASE s.state = "number4"
  BY <1>4 DEF Decoded, Put, StateAfter, FourInNumber
<1>5. CASE s.state = "number"
  BY <1>5 DEF Decoded, Put, StateAfter, FourOrDigit
<1>6. CASE s.state = "top"
  BY <1>6 DEF Decoded, Put, StateAfter, FirstRow
<1> QED
  BY <1>1, <1>2, <1>3, <1>4, <1>5, <1>6 DEF States

LEMMA PutType ==
  ASSUME NEW row \in States, NEW d \in 0..9
  PROVE  Put(row, d) \in Texts /\ StateAfter(row, d) \in States
<1>1. /\ <<>> \in Texts /\ <<"/">> \in Texts /\ <<"4">> \in Texts
      /\ <<Top[d + 1]>> \in Texts /\ <<Zero[d + 1]>> \in Texts /\ <<Four[d + 1]>> \in Texts
      /\ <<Digits[d + 1]>> \in Texts /\ <<"4", Digits[d + 1]>> \in Texts
  <2>1. "/" \in Marks /\ "4" \in Marks
    BY DEF Marks
  <2>2. \A x \in Marks, y \in Marks : <<x>> \in Texts /\ <<x, y>> \in Texts
    BY DEF Texts
  <2>3. <<>> \in Texts
    BY DEF Texts
  <2> QED
    BY <2>1, <2>2, <2>3, BoardType
<1> HIDE DEF Texts
<1>2. Put(row, d) \in Texts
  BY <1>1 DEF Put
<1>3. StateAfter(row, d) \in States
  BY DEF StateAfter, States
<1> QED
  BY <1>2, <1>3

LEMMA DecodedType ==
  ASSUME NEW s \in Readers, NEW d \in 0..9
  PROVE  /\ Decoded(s, d) \in Readers
         /\ Decoded(s, d).out = s.out \o Put(s.state, d)
         /\ Decoded(s, d).state = StateAfter(s.state, d)
<1> DEFINE characters == Put(s.state, d)
           row      == StateAfter(s.state, d)
<1>1. s.state \in States
  BY DEF Readers
<1>2. characters \in Texts /\ row \in States
  BY <1>1, PutType
<1>3. Decoded(s, d) = Puts(s, characters, row)
  BY DecodedIs
<1> HIDE DEF characters, row
<1>4. /\ Puts(s, characters, row) \in Readers
      /\ Puts(s, characters, row).out = s.out \o characters
      /\ Puts(s, characters, row).state = row
  BY <1>2, PutsIs
<1> QED
  BY <1>3, <1>4 DEF characters, row

-----------------------------------------------------------------------------
(* The decoder goes through the digits one by one.                         *)
FirstReader == [out |-> <<>>, state |-> "top"]

LEMMA FirstReaderIs ==
  FirstReader \in Readers /\ FirstReader.out = <<>> /\ FirstReader.state = "top"
<1>1. <<>> \in Texts
  BY DEF Texts
<1> QED
  BY <1>1 DEF FirstReader, Readers, States

Steps(cipher, f) ==
  /\ f[0] = FirstReader
  /\ \A n \in 1..Len(cipher) : f[n] = Decoded(f[n - 1], cipher[n])

(* Over ciphers that begin alike it does the same.                         *)
LEMMA StepsOnce ==
  ASSUME NEW t, NEW u, NEW f, NEW g, Steps(t, f), Steps(u, g),
         NEW m \in Nat, Len(t) \in Nat, Len(u) \in Nat, m <= Len(t), m <= Len(u),
         \A n \in 1..m : t[n] = u[n]
  PROVE  \A n \in 0..m : f[n] = g[n]
<1> DEFINE wrong == {n \in 0..m : f[n] # g[n]}
<1> SUFFICES ASSUME wrong # {} PROVE FALSE
  OBVIOUS
<1>1. wrong \subseteq Nat
  OBVIOUS
<1>2. PICK n \in wrong : \A y \in wrong : n <= y
  <2> HIDE DEF wrong
  <2> QED
    BY <1>1, LeastNumber
<1>3. n \in 0..m /\ f[n] # g[n]
  OBVIOUS
<1>4. n # 0
  BY <1>3 DEF Steps
<1>5. n - 1 \in 0..m /\ n - 1 \notin wrong /\ n \in 1..m
  BY <1>2, <1>3, <1>4
<1>6. f[n - 1] = g[n - 1]
  BY <1>5
<1>7. f[n] = Decoded(f[n - 1], t[n]) /\ g[n] = Decoded(g[n - 1], u[n]) /\ t[n] = u[n]
  BY <1>5 DEF Steps
<1> QED
  BY <1>3, <1>6, <1>7

LEMMA EndsIs ==
  ASSUME NEW cipher \in Ciphers
  PROVE  \E f \in [0..Len(cipher) -> Readers] : Steps(cipher, f) /\ Ends(cipher) = f[Len(cipher)]
<1> DEFINE m == Len(cipher)
           after == CHOOSE f : f = [n \in 0..m |->
                       IF n = 0 THEN FirstReader ELSE Decoded(f[n - 1], cipher[n])]
           g == [p \in (1..m) \X Readers |-> Decoded(p[2], cipher[p[1]])]
<1>1. m \in Nat
  BY LenProperties DEF Ciphers
<1>2. Ends(cipher) = after[m]
  BY Zenon DEF Ends, FirstReader
<1>3. g \in [(1..m) \X Readers -> Readers]
  <2>1. ASSUME NEW p \in (1..m) \X Readers PROVE Decoded(p[2], cipher[p[1]]) \in Readers
    <3>1. p[2] \in Readers /\ cipher[p[1]] \in 0..9
      BY ElementOfSeq DEF Ciphers, m
    <3> QED
      BY <3>1, DecodedType
  <2> QED
    BY <2>1
<1>4. \A n \in 1..m, s \in Readers : g[<<n, s>>] = Decoded(s, cipher[n])
  OBVIOUS
<1> HIDE DEF g, m
<1>5. PICK h \in [0..m -> Readers] : Iterates(h, FirstReader, g, m)
  BY <1>1, <1>3, FirstReaderIs, IterationExists
<1>6. ASSUME NEW n \in 0..m
      PROVE  h[n] = IF n = 0 THEN FirstReader ELSE Decoded(h[n - 1], cipher[n])
  <2>1. n # 0 => n \in 1..m /\ n - 1 \in 0..m
    BY <1>1
  <2>2. n # 0 => h[n] = g[<<n, h[n - 1]>>] /\ h[n - 1] \in Readers
    BY <1>5, <2>1 DEF Iterates
  <2>3. n # 0 => g[<<n, h[n - 1]>>] = Decoded(h[n - 1], cipher[n])
    BY <1>4, <2>1, <2>2
  <2>4. n = 0 => h[n] = FirstReader
    BY <1>5 DEF Iterates
  <2> QED
    BY <2>2, <2>3, <2>4
<1>7. h = [n \in 0..m |-> IF n = 0 THEN FirstReader ELSE Decoded(h[n - 1], cipher[n])]
  BY <1>5, <1>6
<1>8. after = [n \in 0..m |-> IF n = 0 THEN FirstReader ELSE Decoded(after[n - 1], cipher[n])]
  <2>1. \E f : f = [n \in 0..m |-> IF n = 0 THEN FirstReader ELSE Decoded(f[n - 1], cipher[n])]
    BY <1>7
  <2> QED
    BY <2>1
<1> HIDE DEF after
<1>9. after[0] = FirstReader /\ \A n \in 1..m : after[n] = Decoded(after[n - 1], cipher[n])
  <2>1. 0 \in 0..m /\ \A n \in 1..m : n \in 0..m /\ n # 0
    BY <1>1
  <2> QED
    BY <1>8, <2>1
<1>10. Steps(cipher, after) /\ Steps(cipher, h)
  <2>1. \A n \in 1..m : h[n] = Decoded(h[n - 1], cipher[n])
    <3>1. \A n \in 1..m : n \in 0..m /\ n # 0
      BY <1>1
    <3> QED
      BY <1>6, <3>1
  <2>2. h[0] = FirstReader
    BY <1>5 DEF Iterates
  <2> QED
    BY <1>9, <2>1, <2>2 DEF Steps, m
<1>11. after[m] = h[m]
  <2>1. \A n \in 0..m : after[n] = h[n]
    BY <1>1, <1>10, StepsOnce DEF m
  <2> QED
    BY <1>1, <2>1
<1> QED
  BY <1>2, <1>5, <1>10, <1>11 DEF m

LEMMA EndsEmpty == Ends(<<>>) = FirstReader
<1>1. <<>> \in Ciphers /\ Len(<<>>) = 0
  BY DEF Ciphers
<1>2. PICK f : Steps(<<>>, f) /\ Ends(<<>>) = f[Len(<<>>)]
  BY <1>1, EndsIs
<1> QED
  BY <1>1, <1>2 DEF Steps

(* One digit more.                                                         *)
LEMMA EndsAppend ==
  ASSUME NEW cipher \in Ciphers, NEW d \in 0..9
  PROVE  Ends(Append(cipher, d)) = Decoded(Ends(cipher), d)
<1> DEFINE m    == Len(cipher)
           more == Append(cipher, d)
<1>1. m \in Nat /\ more \in Ciphers /\ Len(more) = m + 1 /\ more[m + 1] = d
      /\ \A n \in 1..m : cipher[n] = more[n]
  BY DEF Ciphers
<1>2. PICK f : Steps(cipher, f) /\ Ends(cipher) = f[m]
  BY EndsIs
<1>3. PICK g : Steps(more, g) /\ Ends(more) = g[m + 1]
  BY <1>1, EndsIs
<1> HIDE DEF more, m
<1>4. Len(cipher) = m
  BY DEF m
<1>5. \A n \in 0..m : f[n] = g[n]
  BY <1>1, <1>2, <1>3, <1>4, StepsOnce
<1>6. f[m] = g[m]
  BY <1>1, <1>5
<1>7. g[m + 1] = Decoded(g[m], d)
  <2>1. m + 1 \in 1..Len(more) /\ (m + 1) - 1 = m
    BY <1>1
  <2>2. g[m + 1] = Decoded(g[(m + 1) - 1], more[m + 1])
    BY <1>3, <2>1 DEF Steps
  <2> QED
    BY <1>1, <2>1, <2>2
<1> QED
  BY <1>2, <1>3, <1>6, <1>7 DEF more

LEMMA EndsType ==
  ASSUME NEW cipher \in Ciphers
  PROVE  Ends(cipher) \in Readers
<1>1. PICK f \in [0..Len(cipher) -> Readers] : Ends(cipher) = f[Len(cipher)]
  BY EndsIs
<1>2. Len(cipher) \in 0..Len(cipher)
  BY LenProperties DEF Ciphers
<1> QED
  BY <1>1, <1>2

-----------------------------------------------------------------------------
(* What the decoder writes, encoded, is what it read, but for a digit that *)
(* waits for another.                                                      *)
Numbers == {"number", "number4"}

Pending(row) ==
  IF row = "zero" THEN <<0>> ELSE IF row \in {"four", "number4"} THEN <<4>> ELSE <<>>

LEMMA PairIs ==
  ASSUME NEW C, NEW a \in C, NEW b \in C
  PROVE  <<a>> \o <<b>> = <<a, b>> /\ Append(<<a>>, b) = <<a, b>> /\ Append(<<>>, a) = <<a>>
<1>1. <<a>> \in Seq(C) /\ <<b>> \in Seq(C) /\ <<a, b>> \in Seq(C) /\ <<>> \in Seq(C)
  OBVIOUS
<1>2. <<a>> \o <<b>> = <<a, b>>
  <2> DEFINE c == <<a>> \o <<b>>
  <2>1. c \in Seq(C) /\ Len(c) = 2 /\ c[1] = a /\ c[2] = b
    BY <1>1, ConcatProperties
  <2>2. Len(<<a, b>>) = 2 /\ <<a, b>>[1] = a /\ <<a, b>>[2] = b
    OBVIOUS
  <2>3. \A i \in 1..Len(c) : c[i] = <<a, b>>[i]
    BY <2>1, <2>2
  <2> HIDE DEF c
  <2>4. c = <<a, b>>
    BY <1>1, <2>1, <2>2, <2>3, SeqEqual
  <2> QED
    BY <2>4 DEF c
<1>3. Append(<<a>>, b) = <<a>> \o <<b>>
  BY <1>1
<1>4. Append(<<>>, a) = <<a>>
  OBVIOUS
<1> QED
  BY <1>2, <1>3, <1>4

LEMMA AppendIs ==
  ASSUME NEW C, NEW s \in Seq(C), NEW a \in C
  PROVE  Append(s, a) = s \o <<a>> /\ <<a>> \in Seq(C) /\ Append(s, a) \in Seq(C)
  OBVIOUS

LEMMA Twice ==
  ASSUME NEW C, NEW s \in Seq(C), NEW a \in C, NEW b \in C
  PROVE  s \o <<a, b>> = (s \o <<a>>) \o <<b>> /\ s \o <<a>> \in Seq(C)
<1>1. <<a>> \in Seq(C) /\ <<b>> \in Seq(C)
  OBVIOUS
<1>2. s \o (<<a>> \o <<b>>) = (s \o <<a>>) \o <<b>>
  BY <1>1, ConcatAssociative
<1>3. <<a>> \o <<b>> = <<a, b>>
  BY PairIs
<1>4. s \o <<a>> \in Seq(C)
  BY <1>1, ConcatProperties
<1> QED
  BY <1>2, <1>3, <1>4

(* The code of Put.                                                        *)
Word(row, d) ==
  IF row = "zero" THEN <<0, d>>
  ELSE IF row = "four" THEN <<4, d>>
  ELSE IF row = "number4" THEN IF d = 4 THEN <<4>> ELSE <<4, d>>
  ELSE IF row = "number" THEN IF d = 4 THEN <<>> ELSE <<d>>
  ELSE IF d = 0 \/ d = 4 THEN <<>> ELSE <<d>>

LEMMA WordIs ==
  ASSUME NEW row \in States, NEW d \in 0..9
  PROVE  /\ Word(row, d) \in Ciphers /\ Pending(row) \in Ciphers
         /\ Pending(StateAfter(row, d)) \in Ciphers
         /\ Word(row, d) \o Pending(StateAfter(row, d)) = Append(Pending(row), d)
<1>1. /\ <<>> \in Ciphers /\ <<0>> \in Ciphers /\ <<4>> \in Ciphers /\ <<d>> \in Ciphers
      /\ <<0, d>> \in Ciphers /\ <<4, d>> \in Ciphers
  BY DEF Ciphers
<1>2. \A x \in Ciphers : x \o <<>> = x /\ <<>> \o x = x
  BY DEF Ciphers
<1>3. /\ <<4>> \o <<4>> = <<4, 4>> /\ Append(<<>>, d) = <<d>>
      /\ Append(<<0>>, d) = <<0, d>> /\ Append(<<4>>, d) = <<4, d>>
  <2>1. 0 \in 0..9 /\ 4 \in 0..9
    OBVIOUS
  <2> QED
    BY <2>1, PairIs
<1>4. Pending(row) \in Ciphers /\ Pending(StateAfter(row, d)) \in Ciphers /\ Word(row, d) \in Ciphers
  BY <1>1 DEF Pending, Word
<1> HIDE DEF Ciphers
<1>5. CASE row = "zero"
  BY <1>1, <1>2, <1>3, <1>5 DEF Word, Pending, StateAfter
<1>6. CASE row = "four"
  BY <1>1, <1>2, <1>3, <1>6 DEF Word, Pending, StateAfter
<1>7. CASE row = "number4"
  BY <1>1, <1>2, <1>3, <1>7 DEF Word, Pending, StateAfter
<1>8. CASE row = "number"
  BY <1>1, <1>2, <1>3, <1>8 DEF Word, Pending, StateAfter
<1>9. CASE row = "top"
  BY <1>1, <1>2, <1>3, <1>9 DEF Word, Pending, StateAfter
<1> QED
  BY <1>4, <1>5, <1>6, <1>7, <1>8, <1>9 DEF States

LEMMA EncodesOne ==
  ASSUME NEW text \in Texts, NEW x \in Marks
  PROVE  VicEncode(text \o <<x>>) = Encoded(VicEncode(text), x)
<1>1. text \o <<x>> = Append(text, x)
  BY DEF Texts
<1> QED
  BY <1>1, EncodeAppend DEF Texts

LEMMA EncodesTwo ==
  ASSUME NEW text \in Texts, NEW x \in Marks, NEW y \in Marks
  PROVE  VicEncode(text \o <<x, y>>) = Encoded(Encoded(VicEncode(text), x), y)
<1>1. text \o <<x>> \in Texts /\ text \o <<x, y>> = (text \o <<x>>) \o <<y>>
  BY Twice DEF Texts
<1> QED
  BY <1>1, EncodesOne

LEMMA EmitTwice ==
  ASSUME NEW s \in Encoders, NEW a \in 0..9, NEW b \in 0..9, NEW m \in BOOLEAN, NEW n \in BOOLEAN
  PROVE  Emit(Emit(s, <<a>>, m), <<b>>, n) = Emit(s, <<a, b>>, n)
<1>1. (s.out \o <<a>>) \o <<b>> = s.out \o <<a, b>>
  <2> DEFINE x == s.out
             C == 0..9
  <2>1. x \in Seq(C) /\ a \in C /\ b \in C
    BY DEF Encoders, Ciphers
  <2> HIDE DEF x, C
  <2>2. x \o <<a, b>> = (x \o <<a>>) \o <<b>>
    BY <2>1, Twice
  <2> QED
    BY <2>2 DEF x
<1> QED
  BY <1>1 DEF Emit

(* An encoder in step with a decoder that is in a state.                   *)
InStep(e, row) == e \in Encoders /\ ~e.stopped /\ (e.number <=> row \in Numbers)

LEMMA StaysInStep ==
  ASSUME NEW e \in Encoders, ~e.stopped, NEW w \in Ciphers, NEW n \in BOOLEAN, NEW row,
         n <=> row \in Numbers
  PROVE  InStep(Emit(e, w, n), row) /\ Emit(e, w, n).out = e.out \o w
  BY EmitIs DEF InStep

LEMMA FlagsOf ==
  ASSUME NEW e \in Encoders
  PROVE  (e.number => e.number = TRUE) /\ (~e.number => e.number = FALSE /\ (~e.number) = TRUE)
         /\ (e.number => (~e.number) = FALSE)
  BY DEF Encoders

(* What is written for one digit, encoded.                                 *)
Continues(text, row, d) ==
  LET next == VicEncode(text \o Put(row, d))
  IN  /\ InStep(next, StateAfter(row, d))
      /\ next.out = VicEncode(text).out \o Word(row, d)

LEMMA EncodesZero ==
  ASSUME NEW text \in Texts, NEW d \in 0..9, InStep(VicEncode(text), "zero")
  PROVE  Continues(text, "zero", d)
<1> DEFINE e == VicEncode(text)
<1>1. e \in Encoders /\ ~e.stopped /\ e.number = FALSE
  BY FlagsOf DEF InStep, Numbers
<1>2. Zero[d + 1] \in DOMAIN Letters \cup {"."}
  BY DEF Zero, Letters
<1>3. Encoded(e, Zero[d + 1]) = Emit(e, <<0, d>>, FALSE)
  BY <1>1, <1>2, ZeroRow, EncodedLetter
<1>4. <<0, d>> \in Ciphers /\ FALSE \in BOOLEAN /\ ~("top" \in Numbers)
  BY DEF Ciphers, Numbers
<1>5. InStep(Emit(e, <<0, d>>, FALSE), "top") /\ Emit(e, <<0, d>>, FALSE).out = e.out \o <<0, d>>
  BY <1>1, <1>4, StaysInStep
<1>6. Put("zero", d) = <<Zero[d + 1]>> /\ StateAfter("zero", d) = "top" /\ Word("zero", d) = <<0, d>>
  BY DEF Put, StateAfter, Word
<1>7. VicEncode(text \o Put("zero", d)) = Emit(e, <<0, d>>, FALSE)
  BY <1>3, <1>6, EncodesOne, BoardType
<1> QED
  BY <1>5, <1>6, <1>7 DEF Continues

LEMMA EncodesFour ==
  ASSUME NEW text \in Texts, NEW d \in 0..9, InStep(VicEncode(text), "four")
  PROVE  Continues(text, "four", d)
<1> DEFINE e == VicEncode(text)
<1>1. e \in Encoders /\ ~e.stopped /\ e.number = FALSE
  BY FlagsOf DEF InStep, Numbers
<1>2. <<4, d>> \in Ciphers /\ ~("top" \in Numbers) /\ "number" \in Numbers
  BY DEF Ciphers, Numbers
<1>3. Put("four", d) = <<Four[d + 1]>> /\ Word("four", d) = <<4, d>>
  BY DEF Put, Word
<1>4. VicEncode(text \o Put("four", d)) = Encoded(e, Four[d + 1])
  BY <1>3, EncodesOne, BoardType
<1>5. CASE d = 8
  <2>1. Four[d + 1] = "/" /\ StateAfter("four", d) = "number"
    BY <1>5 DEF Four, StateAfter
  <2>2. Encoded(e, Four[d + 1]) = Emit(e, <<4, d>>, TRUE)
    BY <1>1, <1>5, <2>1, EncodedSlash, FlagsOf
  <2>3. InStep(Emit(e, <<4, d>>, TRUE), "number") /\ Emit(e, <<4, d>>, TRUE).out = e.out \o <<4, d>>
    BY <1>1, <1>2, StaysInStep
  <2> QED
    BY <1>3, <1>4, <2>1, <2>2, <2>3 DEF Continues
<1>6. CASE d # 8
  <2>1. Four[d + 1] \in DOMAIN Letters \cup {"."} /\ StateAfter("four", d) = "top"
    BY <1>6 DEF Four, Letters, StateAfter
  <2>2. Encoded(e, Four[d + 1]) = Emit(e, <<4, d>>, FALSE)
    BY <1>1, <1>6, <2>1, FourRow, EncodedLetter
  <2>3. InStep(Emit(e, <<4, d>>, FALSE), "top") /\ Emit(e, <<4, d>>, FALSE).out = e.out \o <<4, d>>
    BY <1>1, <1>2, StaysInStep
  <2> QED
    BY <1>3, <1>4, <2>1, <2>2, <2>3 DEF Continues
<1> QED
  BY <1>5, <1>6

LEMMA EncodesNumber4 ==
  ASSUME NEW text \in Texts, NEW d \in 0..9, InStep(VicEncode(text), "number4")
  PROVE  Continues(text, "number4", d)
<1> DEFINE e == VicEncode(text)
<1>1. e \in Encoders /\ ~e.stopped /\ e.number = TRUE /\ e.number
  BY FlagsOf DEF InStep, Numbers
<1>2. /\ <<4, d>> \in Ciphers /\ <<4>> \in Ciphers /\ ~("top" \in Numbers)
      /\ "number" \in Numbers /\ "number4" \in Numbers
  BY DEF Ciphers, Numbers
<1>3. "/" \in Marks /\ "4" \in Marks /\ Digits[4 + 1] = "4"
  BY DEF Marks, Digits
<1>4. CASE d = 8
  <2>1. Put("number4", d) = <<"/">> /\ Word("number4", d) = <<4, d>> /\ StateAfter("number4", d) = "top"
    BY <1>4 DEF Put, Word, StateAfter
  <2>2. VicEncode(text \o Put("number4", d)) = Emit(e, <<4, d>>, FALSE)
    BY <1>1, <1>3, <1>4, <2>1, EncodesOne, EncodedSlash, FlagsOf
  <2>3. InStep(Emit(e, <<4, d>>, FALSE), "top") /\ Emit(e, <<4, d>>, FALSE).out = e.out \o <<4, d>>
    BY <1>1, <1>2, StaysInStep
  <2> QED
    BY <2>1, <2>2, <2>3 DEF Continues
<1>5. CASE d = 4
  <2>1. Put("number4", d) = <<"4">> /\ Word("number4", d) = <<4>> /\ StateAfter("number4", d) = "number4"
    BY <1>5 DEF Put, Word, StateAfter
  <2>2. VicEncode(text \o Put("number4", d)) = Emit(e, <<4>>, TRUE)
    BY <1>1, <1>3, <1>5, <2>1, EncodesOne, EncodedDigit
  <2>3. InStep(Emit(e, <<4>>, TRUE), "number4") /\ Emit(e, <<4>>, TRUE).out = e.out \o <<4>>
    BY <1>1, <1>2, StaysInStep
  <2> QED
    BY <2>1, <2>2, <2>3 DEF Continues
<1>6. CASE d # 4 /\ d # 8
  <2>1. /\ Put("number4", d) = <<"4", Digits[d + 1]>> /\ Word("number4", d) = <<4, d>>
        /\ StateAfter("number4", d) = "number"
    BY <1>6 DEF Put, Word, StateAfter
  <2>2. VicEncode(text \o Put("number4", d)) = Encoded(Encoded(e, "4"), Digits[d + 1])
    BY <1>3, <2>1, EncodesTwo, BoardType
  <2>3. Encoded(e, "4") = Emit(e, <<4>>, TRUE)
    <3>1. \A x \in 0..9 : Encoded(e, Digits[x + 1]) = Emit(e, <<x>>, TRUE)
      BY <1>1, EncodedDigit
    <3>2. 4 \in 0..9
      OBVIOUS
    <3>3. Encoded(e, Digits[4 + 1]) = Emit(e, <<4>>, TRUE)
      BY <3>1, <3>2, Zenon
    <3> QED
      BY <1>3, <3>3
  <2>4. /\ Emit(e, <<4>>, TRUE) \in Encoders /\ Emit(e, <<4>>, TRUE).number = TRUE
        /\ ~Emit(e, <<4>>, TRUE).stopped
    BY <1>1, <1>2, EmitIs
  <2>5. Encoded(Emit(e, <<4>>, TRUE), Digits[d + 1]) = Emit(Emit(e, <<4>>, TRUE), <<d>>, TRUE)
    BY <2>4, EncodedDigit
  <2>6. VicEncode(text \o Put("number4", d)) = Emit(e, <<4, d>>, TRUE)
    <3>1. Emit(Emit(e, <<4>>, TRUE), <<d>>, TRUE) = Emit(e, <<4, d>>, TRUE)
      <4>1. 4 \in 0..9 /\ TRUE \in BOOLEAN
        OBVIOUS
      <4> QED
        BY <1>1, <4>1, EmitTwice, Zenon
    <3> QED
      BY <2>2, <2>3, <2>5, <3>1
  <2>7. InStep(Emit(e, <<4, d>>, TRUE), "number") /\ Emit(e, <<4, d>>, TRUE).out = e.out \o <<4, d>>
    BY <1>1, <1>2, StaysInStep
  <2> QED
    BY <2>1, <2>6, <2>7 DEF Continues
<1> QED
  BY <1>4, <1>5, <1>6

LEMMA EncodesNothing ==
  ASSUME NEW text \in Texts, NEW row \in States, NEW d \in 0..9, InStep(VicEncode(text), row),
         Put(row, d) = <<>>, Word(row, d) = <<>>, StateAfter(row, d) \in Numbers <=> row \in Numbers
  PROVE  Continues(text, row, d)
<1>1. text \o <<>> = text
  BY DEF Texts
<1>2. VicEncode(text).out \o <<>> = VicEncode(text).out
  BY DEF InStep, Encoders, Ciphers
<1> QED
  BY <1>1, <1>2 DEF Continues, InStep

LEMMA EncodesNumber ==
  ASSUME NEW text \in Texts, NEW d \in 0..9, InStep(VicEncode(text), "number")
  PROVE  Continues(text, "number", d)
<1> DEFINE e == VicEncode(text)
<1>1. e \in Encoders /\ ~e.stopped /\ e.number = TRUE /\ e.number
  BY FlagsOf DEF InStep, Numbers
<1>2. <<d>> \in Ciphers /\ "number" \in Numbers /\ "number4" \in Numbers /\ "number" \in States
  BY DEF Ciphers, Numbers, States
<1>3. CASE d = 4
  <2>1. Put("number", d) = <<>> /\ Word("number", d) = <<>> /\ StateAfter("number", d) = "number4"
    BY <1>3 DEF Put, Word, StateAfter
  <2> QED
    BY <1>2, <2>1, EncodesNothing
<1>4. CASE d # 4
  <2>1. /\ Put("number", d) = <<Digits[d + 1]>> /\ Word("number", d) = <<d>>
        /\ StateAfter("number", d) = "number"
    BY <1>4 DEF Put, Word, StateAfter
  <2>2. VicEncode(text \o Put("number", d)) = Emit(e, <<d>>, TRUE)
    BY <1>1, <2>1, EncodesOne, BoardType, EncodedDigit
  <2>3. InStep(Emit(e, <<d>>, TRUE), "number") /\ Emit(e, <<d>>, TRUE).out = e.out \o <<d>>
    BY <1>1, <1>2, StaysInStep
  <2> QED
    BY <2>1, <2>2, <2>3 DEF Continues
<1> QED
  BY <1>3, <1>4

LEMMA EncodesTop ==
  ASSUME NEW text \in Texts, NEW d \in 0..9, InStep(VicEncode(text), "top")
  PROVE  Continues(text, "top", d)
<1> DEFINE e == VicEncode(text)
<1>1. e \in Encoders /\ ~e.stopped /\ e.number = FALSE
  BY FlagsOf DEF InStep, Numbers
<1>2. <<d>> \in Ciphers /\ "top" \in States /\ \A x \in {"top", "zero", "four"} : x \notin Numbers
  BY DEF Ciphers, Numbers, States
<1>3. CASE d = 0 \/ d = 4
  <2>1. Put("top", d) = <<>> /\ Word("top", d) = <<>> /\ StateAfter("top", d) \in {"zero", "four"}
    BY <1>3 DEF Put, Word, StateAfter
  <2> QED
    BY <1>2, <2>1, EncodesNothing
<1>4. CASE d # 0 /\ d # 4
  <2>1. /\ Put("top", d) = <<Top[d + 1]>> /\ Word("top", d) = <<d>>
        /\ StateAfter("top", d) = "top"
    BY <1>4 DEF Put, Word, StateAfter
  <2>2. Top[d + 1] \in DOMAIN Letters \cup {"."}
    <3>1. d \in {1, 2, 3, 5, 6, 7, 8, 9}
      BY <1>4
    <3>2. /\ Top[1 + 1] = "r" /\ Top[2 + 1] = "n" /\ Top[3 + 1] = "a" /\ Top[5 + 1] = "s"
          /\ Top[6 + 1] = "i" /\ Top[7 + 1] = "o" /\ Top[8 + 1] = "e" /\ Top[9 + 1] = "t"
      BY DEF Top
    <3>3. {"r", "n", "a", "s", "i", "o", "e", "t"} \subseteq DOMAIN Letters
      BY DEF Letters
    <3> QED
      BY <3>1, <3>2, <3>3
  <2>3. VicEncode(text \o Put("top", d)) = Emit(e, <<d>>, FALSE)
    <3>1. Lower(Top[d + 1]) = Top[d + 1] /\ Code(Top[d + 1]) = <<d>>
      BY <1>4, TopRow
    <3>2. Encoded(e, Top[d + 1]) = Emit(e, <<d>>, FALSE)
      BY <1>1, <2>2, <3>1, EncodedLetter
    <3> QED
      BY <2>1, <3>2, EncodesOne, BoardType
  <2>4. InStep(Emit(e, <<d>>, FALSE), "top") /\ Emit(e, <<d>>, FALSE).out = e.out \o <<d>>
    BY <1>1, <1>2, StaysInStep
  <2> QED
    BY <2>1, <2>3, <2>4 DEF Continues
<1> QED
  BY <1>3, <1>4

LEMMA EncodesPut ==
  ASSUME NEW text \in Texts, NEW row \in States, NEW d \in 0..9, InStep(VicEncode(text), row)
  PROVE  Continues(text, row, d)
  BY EncodesZero, EncodesFour, EncodesNumber4, EncodesNumber, EncodesTop DEF States

Associates(x, y, z) == (x \o y) \o z = x \o (y \o z)

LEMMA Joined ==
  ASSUME NEW C, NEW x \in Seq(C), NEW y \in Seq(C), NEW z \in Seq(C)
  PROVE  Associates(x, y, z)
  BY ConcatAssociative DEF Associates

LEMMA JoinedAppend ==
  ASSUME NEW C, NEW x \in Seq(C), NEW p \in Seq(C), NEW d \in C
  PROVE  x \o Append(p, d) = Append(x \o p, d)
<1>1. ASSUME NEW r \in Seq(C) PROVE Associates(x, p, r)
  BY Joined
<1>2. <<d>> \in Seq(C) /\ Append(p, d) = p \o <<d>>
  BY AppendIs
<1>3. x \o p \in Seq(C)
  BY ConcatProperties
<1>4. Append(x \o p, d) = (x \o p) \o <<d>>
  BY <1>3, AppendIs
<1>5. (x \o p) \o <<d>> = x \o (p \o <<d>>)
  BY <1>1, <1>2 DEF Associates
<1> QED
  BY <1>2, <1>4, <1>5

JoinsNext(x, w, q, p, d) ==
  w \o q = Append(p, d) => (x \o w) \o q = Append(x \o p, d)

LEMMA JoinNext ==
  ASSUME NEW C, NEW x \in Seq(C), NEW p \in Seq(C), NEW q \in Seq(C), NEW w \in Seq(C),
         NEW d \in C
  PROVE  JoinsNext(x, w, q, p, d)
<1>1. Associates(x, w, q)
  BY Joined
<1>2. x \o Append(p, d) = Append(x \o p, d)
  BY JoinedAppend
<1> QED
  BY <1>1, <1>2 DEF Associates, JoinsNext

(* The text of the digits so far, and the digit that waits, give them back. *)
Encoding(cipher) ==
  LET s == Ends(cipher) IN
  /\ InStep(VicEncode(s.out), s.state)
  /\ VicEncode(s.out).out \o Pending(s.state) = cipher

LEMMA EncodingNext ==
  ASSUME NEW cipher \in Ciphers, NEW d \in 0..9, Encoding(cipher)
  PROVE  Encoding(Append(cipher, d))
<1> DEFINE s == Ends(cipher)
           e == VicEncode(s.out)
           next == Ends(Append(cipher, d))
           after == StateAfter(s.state, d)
           word == Word(s.state, d)
<1>1. s \in Readers /\ s.out \in Texts /\ s.state \in States
  BY EndsType DEF Readers
<1>2. next = Decoded(s, d)
  BY EndsAppend
<1>3. next.out = s.out \o Put(s.state, d) /\ next.state = after
  BY <1>1, <1>2, DecodedType
<1>4. InStep(e, s.state) /\ e.out \o Pending(s.state) = cipher
  BY DEF Encoding
<1>5. Continues(s.out, s.state, d)
  BY <1>1, <1>4, EncodesPut
<1>6. InStep(VicEncode(next.out), after) /\ VicEncode(next.out).out = e.out \o word
  BY <1>3, <1>5 DEF Continues
<1>7. /\ word \in Ciphers /\ Pending(s.state) \in Ciphers /\ Pending(after) \in Ciphers
      /\ word \o Pending(after) = Append(Pending(s.state), d)
  BY <1>1, WordIs
<1>8. e.out \in Ciphers
  BY <1>4 DEF InStep, Encoders
<1> HIDE DEF e, word, after, next
<1>9. (e.out \o word) \o Pending(after) = Append(cipher, d)
  <2> DEFINE x == e.out
             p == Pending(s.state)
             q == Pending(after)
             C == 0..9
  <2>1. x \in Seq(C) /\ p \in Seq(C) /\ q \in Seq(C) /\ word \in Seq(C) /\ d \in C
    BY <1>7, <1>8 DEF Ciphers
  <2>2. word \o q = Append(p, d) /\ x \o p = cipher
    BY <1>4, <1>7
  <2> HIDE DEF x, p, q, C
  <2>3. JoinsNext(x, word, q, p, d)
    BY <2>1, JoinNext
  <2> QED
    BY <2>2, <2>3 DEF JoinsNext, x, q
<1> QED
  BY <1>3, <1>6, <1>9 DEF Encoding, next

LEMMA EncodingFirst == Encoding(<<>>)
<1>1. Ends(<<>>) = FirstReader
  BY EndsEmpty
<1>2. VicEncode(<<>>) = FirstEncoder
  BY EncodeEmpty
<1>3. <<>> \o <<>> = <<>> /\ Pending("top") = <<>> /\ ~("top" \in Numbers)
  BY DEF Pending, Numbers
<1> QED
  BY <1>1, <1>2, <1>3, FirstReaderIs, FirstEncoderIs DEF Encoding, InStep

(* A sequence is the empty one or an earlier one with one element more.    *)
LEMMA Grows ==
  ASSUME NEW C, NEW s \in Seq(C), NEW n \in 1..Len(s)
  PROVE  SubSeq(s, 1, n) = Append(SubSeq(s, 1, n - 1), s[n]) /\ SubSeq(s, 1, n - 1) \in Seq(C)
         /\ s[n] \in C
<1> DEFINE t == SubSeq(s, 1, n - 1)
           u == SubSeq(s, 1, n)
<1>1. t \in Seq(C) /\ u \in Seq(C) /\ s[n] \in C /\ Len(t) = n - 1 /\ Len(u) = n
  OBVIOUS
<1>2. Append(t, s[n]) \in Seq(C) /\ Len(Append(t, s[n])) = n
  BY <1>1
<1>3. \A i \in 1..n : u[i] = Append(t, s[n])[i]
  <2>1. ASSUME NEW i \in 1..n PROVE u[i] = Append(t, s[n])[i]
    <3>1. u[i] = s[i] /\ (i < n => t[i] = s[i])
      OBVIOUS
    <3> HIDE DEF t, u
    <3> QED
      BY <1>1, <3>1
  <2> QED
    BY <2>1
<1> HIDE DEF t, u
<1>4. u = Append(t, s[n])
  BY <1>1, <1>2, <1>3, SeqEqual
<1> QED
  BY <1>1, <1>4 DEF t, u

LEMMA EncodesBack ==
  ASSUME NEW cipher \in Ciphers
  PROVE  Encoding(cipher)
<1> DEFINE m == Len(cipher)
           wrong == {n \in 0..m : ~Encoding(SubSeq(cipher, 1, n))}
<1>1. m \in Nat /\ SubSeq(cipher, 1, m) = cipher /\ SubSeq(cipher, 1, 0) = <<>>
  BY DEF Ciphers
<1>2. wrong = {}
  <2> SUFFICES ASSUME wrong # {} PROVE FALSE
    OBVIOUS
  <2>1. wrong \subseteq Nat
    BY <1>1
  <2>2. PICK n \in wrong : \A y \in wrong : n <= y
    <3> HIDE DEF wrong
    <3> QED
      BY <2>1, LeastNumber
  <2>3. n \in 0..m /\ ~Encoding(SubSeq(cipher, 1, n))
    OBVIOUS
  <2>4. n # 0
    BY <1>1, <2>3, EncodingFirst
  <2>5. n \in 1..m /\ n - 1 \in 0..m /\ n - 1 \notin wrong
    BY <1>1, <2>2, <2>3, <2>4
  <2>6. Encoding(SubSeq(cipher, 1, n - 1))
    BY <2>5
  <2>7. /\ SubSeq(cipher, 1, n) = Append(SubSeq(cipher, 1, n - 1), cipher[n])
        /\ SubSeq(cipher, 1, n - 1) \in Ciphers /\ cipher[n] \in 0..9
    BY <2>5, Grows DEF Ciphers, m
  <2> QED
    BY <2>3, <2>6, <2>7, EncodingNext
<1>3. m \in 0..m
  BY <1>1
<1> QED
  BY <1>1, <1>2, <1>3

(* What vic makes of its own output: the digits it read, one more if one    *)
(* of them waits in a row, one less if a 4 waits in a number.              *)
LEMMA EncodesDecoded ==
  ASSUME NEW cipher \in Ciphers
  PROVE  LET s == Ends(cipher)
             e == VicEncode(VicDecode(cipher))
         IN  /\ e \in Encoders /\ ~e.stopped
             /\ s.state \in {"zero", "four"} => e.out = Append(cipher, 0)
             /\ s.state = "number4" => cipher = Append(e.out, 4)
             /\ s.state \in {"top", "number"} => e.out = cipher
<1> DEFINE s == Ends(cipher)
           e == VicEncode(VicDecode(cipher))
<1>1. s \in Readers /\ s.out \in Texts /\ s.state \in States
  BY EndsType DEF Readers
<1>2. Encoding(cipher)
  BY EncodesBack
<1>3. /\ VicEncode(s.out) \in Encoders /\ ~VicEncode(s.out).stopped /\ VicEncode(s.out).out \in Ciphers
      /\ VicEncode(s.out).out \o Pending(s.state) = cipher
  BY <1>2 DEF Encoding, InStep, Encoders
<1>4. CASE s.state \in {"zero", "four"}
  <2> DEFINE more == Append(cipher, 0)
             t    == Ends(more)
  <2>1. 0 \in 0..9 /\ more \in Ciphers
    BY DEF Ciphers
  <2>2. t = Decoded(s, 0)
    BY <2>1, EndsAppend
  <2>3. t.out = s.out \o Put(s.state, 0) /\ t.state = "top"
    <3>1. StateAfter(s.state, 0) = "top"
      BY <1>4 DEF StateAfter
    <3> QED
      BY <1>1, <2>1, <2>2, <3>1, DecodedType
  <2>4. Put(s.state, 0) = IF s.state = "zero" THEN <<"d">> ELSE IF s.state = "four" THEN <<"g">> ELSE <<>>
    BY <1>4 DEF Put, Zero, Four
  <2>5. VicDecode(cipher) = t.out
    BY <2>3, <2>4 DEF VicDecode
  <2> HIDE DEF more, t
  <2>6. Encoding(more)
    BY <2>1, EncodesBack
  <2>7. e \in Encoders /\ ~e.stopped /\ e.out \o <<>> = more
    BY <2>3, <2>5, <2>6 DEF Encoding, InStep, Pending, t
  <2>8. e.out = more
    <3>1. e.out \in Ciphers
      BY <2>7 DEF Encoders
    <3>2. e.out \o <<>> = e.out
      BY <3>1 DEF Ciphers
    <3> QED
      BY <2>7, <3>2
  <2> QED
    BY <1>4, <2>7, <2>8 DEF more
<1>5. CASE s.state \notin {"zero", "four"}
  <2>1. VicDecode(cipher) = s.out
    <3>1. VicDecode(cipher) = s.out \o <<>>
      BY <1>5 DEF VicDecode
    <3>2. s.out \o <<>> = s.out
      BY <1>1 DEF Texts
    <3> QED
      BY <3>1, <3>2
  <2>2. e.out \in Ciphers /\ e.out \o Pending(s.state) = cipher /\ e \in Encoders /\ ~e.stopped
    BY <1>3, <2>1
  <2> HIDE DEF e
  <2>3. CASE s.state = "number4"
    <3>1. e.out \o <<4>> = cipher
      BY <2>2, <2>3 DEF Pending
    <3>2. Append(e.out, 4) = e.out \o <<4>>
      BY <2>2 DEF Ciphers
    <3> QED
      BY <2>2, <2>3, <3>1, <3>2 DEF e
  <2>4. CASE s.state # "number4"
    <3>1. e.out \o <<>> = cipher
      BY <1>5, <2>2, <2>4 DEF Pending
    <3>2. e.out \o <<>> = e.out
      BY <2>2 DEF Ciphers
    <3> QED
      BY <1>5, <2>2, <2>4, <3>1, <3>2 DEF e
  <2> QED
    BY <2>3, <2>4
<1> QED
  BY <1>4, <1>5

-----------------------------------------------------------------------------
(* Spaces make no difference.                                              *)
Kept(text, f) ==
  /\ f[0] = <<>>
  /\ \A n \in 1..Len(text) : f[n] = IF text[n] = " " THEN f[n - 1] ELSE Append(f[n - 1], text[n])

LEMMA UnspacedIs ==
  ASSUME NEW C, NEW text \in Seq(C)
  PROVE  \E f : Kept(text, f) /\ Unspaced(text) = f[Len(text)]
<1> DEFINE m == Len(text)
           next(k, n) == IF text[n] = " " THEN k ELSE Append(k, text[n])
           after == CHOOSE f : f = [n \in 0..m |->
                       IF n = 0 THEN <<>> ELSE IF text[n] = " " THEN f[n - 1] ELSE Append(f[n - 1], text[n])]
           g == [p \in (1..m) \X Seq(C) |-> next(p[2], p[1])]
<1>1. m \in Nat /\ <<>> \in Seq(C)
  OBVIOUS
<1>2. Unspaced(text) = after[m]
  BY Zenon DEF Unspaced
<1>3. g \in [(1..m) \X Seq(C) -> Seq(C)]
  <2>1. ASSUME NEW k \in Seq(C), NEW n \in 1..m PROVE next(k, n) \in Seq(C)
    <3>1. text[n] \in C
      BY ElementOfSeq
    <3>2. Append(k, text[n]) \in Seq(C)
      BY <3>1, AppendIs
    <3> QED
      BY <3>2
  <2> HIDE DEF next
  <2>2. ASSUME NEW p \in (1..m) \X Seq(C) PROVE next(p[2], p[1]) \in Seq(C)
    BY <2>1
  <2> QED
    BY <2>2
<1> HIDE DEF next
<1>4. \A n \in 1..m, k \in Seq(C) : g[<<n, k>>] = next(k, n)
  OBVIOUS
<1> HIDE DEF g, m
<1>5. PICK h \in [0..m -> Seq(C)] : Iterates(h, <<>>, g, m)
  BY <1>1, <1>3, IterationExists
<1>6. ASSUME NEW n \in 0..m
      PROVE  h[n] = IF n = 0 THEN <<>> ELSE IF text[n] = " " THEN h[n - 1] ELSE Append(h[n - 1], text[n])
  <2>1. n # 0 => n \in 1..m /\ n - 1 \in 0..m
    BY <1>1
  <2>2. n # 0 => h[n] = g[<<n, h[n - 1]>>] /\ h[n - 1] \in Seq(C)
    BY <1>5, <2>1 DEF Iterates
  <2>3. n # 0 => g[<<n, h[n - 1]>>] = next(h[n - 1], n)
    BY <1>4, <2>1, <2>2
  <2>4. n = 0 => h[n] = <<>>
    BY <1>5 DEF Iterates
  <2> QED
    BY <2>2, <2>3, <2>4 DEF next
<1>7. h = [n \in 0..m |->
             IF n = 0 THEN <<>> ELSE IF text[n] = " " THEN h[n - 1] ELSE Append(h[n - 1], text[n])]
  BY <1>5, <1>6
<1>8. after = [n \in 0..m |->
        IF n = 0 THEN <<>> ELSE IF text[n] = " " THEN after[n - 1] ELSE Append(after[n - 1], text[n])]
  <2>1. \E f : f = [n \in 0..m |->
          IF n = 0 THEN <<>> ELSE IF text[n] = " " THEN f[n - 1] ELSE Append(f[n - 1], text[n])]
    BY <1>7
  <2> QED
    BY <2>1, Zenon
<1> HIDE DEF after
<1>9. /\ after[0] = <<>>
      /\ \A n \in 1..m : after[n] = IF text[n] = " " THEN after[n - 1] ELSE Append(after[n - 1], text[n])
  <2>1. 0 \in 0..m /\ \A n \in 1..m : n \in 0..m /\ n # 0
    BY <1>1
  <2> QED
    BY <1>8, <2>1
<1> QED
  BY <1>2, <1>9 DEF Kept, m

NoSpace(s) == \A i \in 1..Len(s) : s[i] # " "

LEMMA LastOrEarlier ==
  ASSUME NEW m \in Nat, NEW i \in 1..(m + 1)
  PROVE  i \in 1..m \/ i = m + 1
  OBVIOUS

LEMMA NoSpaceMore ==
  ASSUME NEW C, NEW s \in Seq(C), NEW c \in C, c # " ", NoSpace(s)
  PROVE  Append(s, c) \in Seq(C) /\ NoSpace(Append(s, c))
<1> DEFINE t == Append(s, c)
           m == Len(s)
<1>1. t \in Seq(C)
  BY AppendProperties
<1>2. Len(t) = m + 1
  BY AppendProperties
<1>3. m \in Nat
  BY LenProperties
<1>4. \A j \in 1..m : t[j] = s[j] /\ s[j] # " "
  BY AppendProperties DEF NoSpace
<1>5. t[m + 1] = c
  BY AppendProperties
<1> HIDE DEF t, m
<1>6. ASSUME NEW i \in 1..(m + 1) PROVE t[i] # " "
  <2>1. i \in 1..m \/ i = m + 1
    BY <1>3, LastOrEarlier
  <2> QED
    BY <1>4, <1>5, <2>1
<1> QED
  BY <1>1, <1>2, <1>6 DEF NoSpace, t

(* What is left of the first n characters is encoded as they are.          *)
SameCode(C, text, n, s) ==
  /\ s \in Seq(C) /\ NoSpace(s)
  /\ VicEncode(s) = VicEncode(SubSeq(text, 1, n))

LEMMA SpacesDrop ==
  ASSUME NEW C, NEW text \in Seq(C)
  PROVE  SameCode(C, text, Len(text), Unspaced(text))
<1> DEFINE m == Len(text)
<1>1. PICK f : Kept(text, f) /\ Unspaced(text) = f[m]
  BY UnspacedIs
<1> DEFINE wrong == {n \in 0..m : ~SameCode(C, text, n, f[n])}
<1>2. m \in Nat /\ SubSeq(text, 1, 0) = <<>> /\ <<>> \in Seq(C) /\ Len(<<>>) = 0
  OBVIOUS
<1>3. wrong = {}
  <2> SUFFICES ASSUME wrong # {} PROVE FALSE
    OBVIOUS
  <2>1. wrong \subseteq Nat
    BY <1>2
  <2>2. PICK n \in wrong : \A y \in wrong : n <= y
    <3> HIDE DEF wrong
    <3> QED
      BY <2>1, LeastNumber
  <2>3. n \in 0..m /\ ~SameCode(C, text, n, f[n])
    OBVIOUS
  <2>4. n # 0
    <3>1. f[0] = <<>>
      BY <1>1 DEF Kept
    <3>2. SameCode(C, text, 0, <<>>)
      <4>1. VicEncode(SubSeq(text, 1, 0)) = VicEncode(<<>>)
        BY <1>2
      <4>2. NoSpace(<<>>)
        <5>1. 1..Len(<<>>) = {}
          OBVIOUS
        <5> QED
          BY <5>1 DEF NoSpace
      <4>3. <<>> \in Seq(C)
        OBVIOUS
      <4> QED
        BY <4>1, <4>2, <4>3, Zenon DEF SameCode
    <3> QED
      BY <2>3, <3>1, <3>2
  <2>5. n \in 1..m /\ n - 1 \in 0..m /\ n - 1 \notin wrong
    BY <1>2, <2>2, <2>3, <2>4
  <2>6. SameCode(C, text, n - 1, f[n - 1])
    BY <2>5
  <2> DEFINE k == f[n - 1]
             c == text[n]
             t == SubSeq(text, 1, n - 1)
  <2>7. SubSeq(text, 1, n) = Append(t, c) /\ t \in Seq(C) /\ c \in C
    BY <2>5, Grows
  <2>8. VicEncode(Append(t, c)) = Encoded(VicEncode(t), c) /\ VicEncode(t) \in Encoders
    BY <2>7, EncodeAppend, EncodeType
  <2>9. k \in Seq(C) /\ NoSpace(k) /\ VicEncode(k) = VicEncode(t)
    BY <2>6 DEF SameCode
  <2>10. f[n] = IF c = " " THEN k ELSE Append(k, c)
    BY <1>1, <2>5 DEF Kept
  <2> HIDE DEF k, c, t, wrong
  <2>11. CASE c = " "
    <3>1. Encoded(VicEncode(t), c) = VicEncode(t)
      BY <2>8, <2>11, EncodedSpace
    <3> QED
      BY <2>3, <2>7, <2>8, <2>9, <2>10, <2>11, <3>1 DEF SameCode
  <2>12. CASE c # " "
    <3>1. VicEncode(Append(k, c)) = Encoded(VicEncode(k), c)
      BY <2>7, <2>9, EncodeAppend
    <3>2. k \in Seq(C) /\ c \in C /\ NoSpace(k)
      BY <2>7, <2>9 DEF NoSpace
    <3>3. Append(k, c) \in Seq(C) /\ NoSpace(Append(k, c))
      BY <2>12, <3>2, NoSpaceMore
    <3> QED
      BY <2>3, <2>7, <2>8, <2>9, <2>10, <2>12, <3>1, <3>3 DEF SameCode
  <2> QED
    BY <2>11, <2>12
<1>4. m \in 0..m
  BY <1>2
<1> QED
  BY <1>1, <1>3, <1>4

LEMMA UnspacedEncodes ==
  ASSUME NEW C, NEW text \in Seq(C)
  PROVE  /\ Unspaced(text) \in Seq(C) /\ NoSpace(Unspaced(text))
         /\ VicEncode(Unspaced(text)) = VicEncode(text)
<1>1. SubSeq(text, 1, Len(text)) = text
  OBVIOUS
<1> QED
  BY <1>1, SpacesDrop DEF SameCode

-----------------------------------------------------------------------------
(* The decoder after the code of the first n characters of a text without  *)
(* spaces: it has written them in small letters, but for a 4 within a      *)
(* number, which waits for the digit after it.                             *)
Slashes(s, n) == {j \in 1..n : s[j] = "/"}

LEMMA Parity ==
  ASSUME NEW s, NEW n \in Nat
  PROVE  /\ s[n + 1] = "/" => (InNumber(s, n + 2) <=> ~InNumber(s, n + 1))
         /\ s[n + 1] # "/" => (InNumber(s, n + 2) <=> InNumber(s, n + 1))
         /\ ~InNumber(s, 1)
<1> DEFINE S == Slashes(s, n)
           T == Slashes(s, n + 1)
<1>1. /\ InNumber(s, n + 1) <=> Cardinality(S) % 2 = 1
      /\ InNumber(s, n + 2) <=> Cardinality(T) % 2 = 1
  <2>1. (n + 1) - 1 = n /\ (n + 2) - 1 = n + 1
    OBVIOUS
  <2> QED
    BY <2>1, Zenon DEF InNumber, Slashes
<1>2. S \subseteq 1..n /\ IsFiniteSet(1..n)
  BY FS_Interval DEF Slashes
<1>3. IsFiniteSet(S) /\ Cardinality(S) \in Nat
  BY <1>2, FS_Subset, FS_CardinalityType
<1>4. n + 1 \notin S
  BY <1>2
<1>5. T = IF s[n + 1] = "/" THEN S \cup {n + 1} ELSE S
  BY DEF Slashes
<1> HIDE DEF S, T
<1>6. Cardinality(S \cup {n + 1}) = Cardinality(S) + 1
  BY <1>3, <1>4, FS_AddElement
<1>7. ~InNumber(s, 1)
  <2>1. {j \in 1..(1 - 1) : s[j] = "/"} = {}
    OBVIOUS
  <2>2. Cardinality({}) = 0
    BY FS_EmptySet
  <2>3. InNumber(s, 1) <=> 0 % 2 = 1
    BY <2>1, <2>2 DEF InNumber
  <2> QED
    BY <2>3
<1>8. \A k \in Nat : (k + 1) % 2 = 1 <=> ~(k % 2 = 1)
  OBVIOUS
<1> QED
  BY <1>1, <1>3, <1>5, <1>6, <1>7, <1>8

Lowered(s, n) == [i \in 1..n |-> Lower(s[i])]

LEMMA LoweredNext ==
  ASSUME NEW s, NEW n \in Nat
  PROVE  /\ Lowered(s, n + 1) = Lowered(s, n) \o <<Lower(s[n + 1])>>
         /\ Lowered(s, 0) = <<>>
<1> DEFINE C == {Lower(s[i]) : i \in 1..(n + 1)}
           t == Lowered(s, n)
           u == Lowered(s, n + 1)
           c == Lower(s[n + 1])
<1>1. t \in Seq(C) /\ Len(t) = n
  BY DEF Lowered
<1>2. u \in Seq(C) /\ Len(u) = n + 1
  BY DEF Lowered
<1>3. c \in C
  OBVIOUS
<1>4. \A i \in 1..n : t[i] = Lower(s[i])
  BY DEF Lowered
<1>5. \A i \in 1..(n + 1) : u[i] = Lower(s[i])
  BY DEF Lowered
<1>6. Lowered(s, 0) = <<>>
  BY DEF Lowered
<1>7. u[n + 1] = c
  <2>1. n + 1 \in 1..(n + 1)
    OBVIOUS
  <2> QED
    BY <1>5, <2>1
<1>8. \A i \in 1..n : t[i] = u[i]
  <2>1. \A i \in 1..n : i \in 1..(n + 1)
    OBVIOUS
  <2> QED
    BY <1>4, <1>5, <2>1
<1> HIDE DEF C, t, u, c
<1>9. u = t \o <<c>>
  <2> DEFINE v == Append(t, c)
  <2>1. v \in Seq(C)
    BY <1>1, <1>3, AppendProperties
  <2>2. Len(v) = n + 1
    BY <1>1, <1>3, AppendProperties
  <2>3. \A i \in 1..n : v[i] = t[i]
    BY <1>1, <1>3, AppendProperties
  <2>4. v[n + 1] = c
    BY <1>1, <1>3, AppendProperties
  <2>5. v = t \o <<c>>
    BY <1>1, <1>3, AppendIs
  <2> HIDE DEF v
  <2>6. ASSUME NEW i \in 1..(n + 1) PROVE u[i] = v[i]
    <3>1. i \in 1..n \/ i = n + 1
      BY LastOrEarlier
    <3> QED
      BY <1>7, <1>8, <2>3, <2>4, <3>1
  <2>7. u = v
    BY <1>2, <2>1, <2>2, <2>6, SeqEqual
  <2> QED
    BY <2>5, <2>7
<1> QED
  BY <1>6, <1>9 DEF t, u, c

LEMMA EndsOne ==
  ASSUME NEW cipher \in Ciphers, NEW a \in 0..9
  PROVE  Ends(cipher \o <<a>>) = Decoded(Ends(cipher), a)
<1>1. cipher \o <<a>> = Append(cipher, a)
  BY DEF Ciphers
<1> QED
  BY <1>1, EndsAppend

LEMMA EndsTwo ==
  ASSUME NEW cipher \in Ciphers, NEW a \in 0..9, NEW b \in 0..9
  PROVE  Ends(cipher \o <<a, b>>) = Decoded(Decoded(Ends(cipher), a), b)
<1>1. cipher \o <<a, b>> = (cipher \o <<a>>) \o <<b>> /\ cipher \o <<a>> \in Ciphers
  <2> DEFINE C == 0..9
  <2>1. cipher \in Seq(C) /\ a \in C /\ b \in C
    BY DEF Ciphers
  <2> HIDE DEF C
  <2>2. cipher \o <<a, b>> = (cipher \o <<a>>) \o <<b>> /\ cipher \o <<a>> \in Seq(C)
    BY <2>1, Twice
  <2> QED
    BY <2>2 DEF Ciphers, C
<1> QED
  BY <1>1, EndsOne

(* The decoder has written the text y, but for a 4 it waits with.          *)
Held(d, y) == IF d.state = "number4" THEN d.out \o <<"4">> = y ELSE d.out = y

LEMMA HeldType ==
  ASSUME NEW d \in Readers, NEW y, Held(d, y)
  PROVE  y \in Texts
<1>1. d.out \in Texts /\ "4" \in Marks
  BY DEF Readers, Marks
<1>2. d.out \o <<"4">> \in Texts
  BY <1>1 DEF Texts
<1> QED
  BY <1>1, <1>2 DEF Held

LEMMA TakesSlash ==
  ASSUME NEW d \in Readers, d.state \in {"top", "number", "number4"}, NEW y, Held(d, y)
  PROVE  LET next == Decoded(Decoded(d, 4), 8)
         IN  /\ next.state = IF d.state = "top" THEN "number" ELSE "top"
             /\ next.out = y \o <<"/">>
<1> DEFINE first == Decoded(d, 4)
           next  == Decoded(first, 8)
<1>1. 4 \in 0..9 /\ 8 \in 0..9 /\ d.out \in Texts /\ y \in Texts
  BY HeldType DEF Readers
<1>2. /\ first \in Readers /\ first.out = d.out \o Put(d.state, 4)
      /\ first.state = StateAfter(d.state, 4)
  BY <1>1, DecodedType
<1> HIDE DEF first
<1>3. next.out = first.out \o Put(first.state, 8) /\ next.state = StateAfter(first.state, 8)
  BY <1>1, <1>2, DecodedType
<1> HIDE DEF next
<1>4. d.out \o <<>> = d.out
  BY <1>1 DEF Texts
<1>5. CASE d.state = "top"
  <2>1. Put("top", 4) = <<>> /\ StateAfter("top", 4) = "four"
    BY DEF Put, StateAfter
  <2>2. Put("four", 8) = <<"/">> /\ StateAfter("four", 8) = "number"
    BY DEF Put, StateAfter, Four
  <2>3. d.out = y
    BY <1>5 DEF Held
  <2> QED
    BY <1>2, <1>3, <1>4, <1>5, <2>1, <2>2, <2>3 DEF next, first
<1>6. CASE d.state = "number"
  <2>1. Put("number", 4) = <<>> /\ StateAfter("number", 4) = "number4"
    BY DEF Put, StateAfter
  <2>2. Put("number4", 8) = <<"/">> /\ StateAfter("number4", 8) = "top"
    BY DEF Put, StateAfter
  <2>3. d.out = y
    BY <1>6 DEF Held
  <2> QED
    BY <1>2, <1>3, <1>4, <1>6, <2>1, <2>2, <2>3 DEF next, first
<1>7. CASE d.state = "number4"
  <2>1. Put("number4", 4) = <<"4">> /\ StateAfter("number4", 4) = "number4"
    BY DEF Put, StateAfter
  <2>2. Put("number4", 8) = <<"/">> /\ StateAfter("number4", 8) = "top"
    BY DEF Put, StateAfter
  <2>3. d.out \o <<"4">> = y
    BY <1>7 DEF Held
  <2> QED
    BY <1>2, <1>3, <1>7, <2>1, <2>2, <2>3 DEF next, first
<1> QED
  BY <1>5, <1>6, <1>7

LEMMA TakesLetter ==
  ASSUME NEW cipher \in Ciphers, Ends(cipher).state = "top", NEW c \in DOMAIN Letters \cup {"."}
  PROVE  LET next == Ends(cipher \o Code(c))
         IN  next.state = "top" /\ next.out = Ends(cipher).out \o <<c>>
<1> DEFINE d == Ends(cipher)
           next == Ends(cipher \o Code(c))
<1>1. d \in Readers /\ d.out \in Texts
  BY EndsType DEF Readers
<1>2. d.out \o <<>> = d.out
  BY <1>1 DEF Texts
<1>3. ASSUME NEW g \in (0..9) \ {0, 4}, Code(c) = <<g>>, Top[g + 1] = c
      PROVE  next.state = "top" /\ next.out = d.out \o <<c>>
  <2>1. next = Decoded(d, g)
    BY <1>3, EndsOne
  <2>2. Put("top", g) = <<c>> /\ StateAfter("top", g) = "top"
    BY <1>3 DEF Put, StateAfter
  <2> QED
    BY <1>1, <2>1, <2>2, DecodedType
<1>4. ASSUME NEW g \in 0..9, NEW h \in {0, 4}, Code(c) = <<h, g>>,
             c = IF h = 0 THEN Zero[g + 1] ELSE Four[g + 1], h = 4 => g # 8
      PROVE  next.state = "top" /\ next.out = d.out \o <<c>>
  <2> DEFINE first == Decoded(d, h)
  <2>1. next = Decoded(first, g) /\ h \in 0..9
    <3>1. h \in 0..9
      OBVIOUS
    <3>2. Ends(cipher \o <<h, g>>) = Decoded(Decoded(Ends(cipher), h), g)
      BY <3>1, EndsTwo
    <3> QED
      BY <1>4, <3>1, <3>2
  <2>2. first \in Readers /\ first.out = d.out \o Put("top", h) /\ first.state = StateAfter("top", h)
    BY <1>1, <2>1, DecodedType
  <2>3. Put("top", h) = <<>> /\ StateAfter("top", h) = IF h = 0 THEN "zero" ELSE "four"
    BY DEF Put, StateAfter
  <2>4. Put(first.state, g) = <<c>> /\ StateAfter(first.state, g) = "top"
    BY <1>4, <2>2, <2>3 DEF Put, StateAfter
  <2> HIDE DEF first
  <2>5. next.out = first.out \o Put(first.state, g) /\ next.state = StateAfter(first.state, g)
    BY <2>1, <2>2, DecodedType
  <2> QED
    BY <1>2, <2>2, <2>3, <2>4, <2>5
<1> SUFFICES next.state = "top" /\ next.out = d.out \o <<c>>
  OBVIOUS
<1> HIDE DEF next, d
<1>5. CASE \E g \in (0..9) \ {0, 4} : Code(c) = <<g>> /\ Top[g + 1] = c
  BY <1>3, <1>5
<1>6. CASE \E g \in 0..9 : Code(c) = <<0, g>> /\ Zero[g + 1] = c
  <2>1. PICK g \in 0..9 : Code(c) = <<0, g>> /\ Zero[g + 1] = c
    BY <1>6
  <2>2. 0 \in {0, 4}
    OBVIOUS
  <2> QED
    BY <1>4, <2>1, <2>2
<1>7. CASE \E g \in (0..9) \ {8} : Code(c) = <<4, g>> /\ Four[g + 1] = c
  <2>1. PICK g \in (0..9) \ {8} : Code(c) = <<4, g>> /\ Four[g + 1] = c
    BY <1>7
  <2>2. 4 \in {0, 4}
    OBVIOUS
  <2> QED
    BY <1>4, <2>1, <2>2
<1> QED
  BY <1>5, <1>6, <1>7, CodeIs

LEMMA TakesDigit ==
  ASSUME NEW d \in Readers, d.state \in Numbers, NEW y, Held(d, y), NEW g \in 0..9,
         ~(d.state = "number4" /\ g = 8)
  PROVE  LET next == Decoded(d, g)
         IN  /\ next.state = IF g = 4 THEN "number4" ELSE "number"
             /\ Held(next, y \o <<Digits[g + 1]>>)
<1> DEFINE next == Decoded(d, g)
           c == Digits[g + 1]
<1>1. d.out \in Texts /\ y \in Texts /\ c \in Marks /\ "4" \in Marks /\ Digits[4 + 1] = "4"
  BY HeldType, BoardType DEF Readers, Marks, Digits
<1>2. next.out = d.out \o Put(d.state, g) /\ next.state = StateAfter(d.state, g)
  BY DecodedType
<1> HIDE DEF next
<1>3. CASE d.state = "number"
  <2>1. Put("number", g) = (IF g = 4 THEN <<>> ELSE <<c>>)
        /\ StateAfter("number", g) = IF g = 4 THEN "number4" ELSE "number"
    BY DEF Put, StateAfter
  <2>2. d.out = y /\ d.out \o <<>> = d.out
    BY <1>1, <1>3 DEF Held, Texts
  <2> QED
    BY <1>1, <1>2, <1>3, <2>1, <2>2 DEF Held, next
<1>4. CASE d.state = "number4" /\ g = 4
  <2>1. Put("number4", 4) = <<"4">> /\ StateAfter("number4", 4) = "number4"
    BY DEF Put, StateAfter
  <2>2. d.out \o <<"4">> = y
    BY <1>4 DEF Held
  <2> QED
    BY <1>1, <1>2, <1>4, <2>1, <2>2 DEF Held, next
<1>5. CASE d.state = "number4" /\ g # 4
  <2>1. Put("number4", g) = <<"4", c>> /\ StateAfter("number4", g) = "number"
    BY <1>5 DEF Put, StateAfter
  <2>2. d.out \o <<"4">> = y
    BY <1>5 DEF Held
  <2>3. d.out \o <<"4", c>> = (d.out \o <<"4">>) \o <<c>>
    <3> DEFINE x == d.out
    <3>1. x \in Seq(Marks)
      BY <1>1 DEF Texts
    <3> HIDE DEF x
    <3>2. x \o <<"4", c>> = (x \o <<"4">>) \o <<c>>
      BY <1>1, <3>1, Twice
    <3> QED
      BY <3>2 DEF x
  <2> QED
    BY <1>2, <1>5, <2>1, <2>2, <2>3 DEF Held, next
<1> QED
  BY <1>3, <1>4, <1>5 DEF Numbers, next

(* Unambiguous, said of what is left without the spaces.                   *)
Clear(s) ==
  \A i \in DOMAIN s :
    /\ InNumber(s, i) => s[i] \in ToSet(Digits) \cup {"/"}
    /\ s[i] = "4" => i < Len(s) /\ s[i + 1] # "8"

Printed(s, n) ==
  LET e == VicEncode(SubSeq(s, 1, n))
      d == Ends(e.out)
  IN  /\ e.number <=> InNumber(s, n + 1)
      /\ IF e.number THEN d.state \in Numbers ELSE d.state = "top"
      /\ d.state = "number4" => n > 0 /\ s[n] = "4"
      /\ Held(d, Lowered(s, n))

LEMMA LowerSame ==
  /\ \A g \in 0..9 : Lower(Digits[g + 1]) = Digits[g + 1]
  /\ Lower("/") = "/"
  /\ \A x \in ToSet(Digits) \cup {"/"} : x \notin DOMAIN Letters \cup {"."} /\ Lower(x) = x
<1>1. ToSet(Digits) = {"0", "1", "2", "3", "4", "5", "6", "7", "8", "9"}
  BY DEF ToSet, Digits
<1>2. \A x \in ToSet(Digits) \cup {"/"} : x \notin DOMAIN Letters \cup {"."} /\ Lower(x) = x
  BY <1>1 DEF Lower, Small, Letters
<1> QED
  BY <1>2, DigitValue

LEMMA PrintedFirst ==
  ASSUME NEW C, NEW s \in Seq(C)
  PROVE  Printed(s, 0)
<1>1. SubSeq(s, 1, 0) = <<>>
  OBVIOUS
<1>2. /\ VicEncode(<<>>).out = <<>> /\ ~VicEncode(<<>>).number
      /\ Ends(<<>>).state = "top" /\ Ends(<<>>).out = <<>>
  BY EncodeEmpty, EndsEmpty, FirstEncoderIs, FirstReaderIs
<1>3. Lowered(s, 0) = <<>> /\ ~InNumber(s, 0 + 1)
  <2>1. 0 \in Nat /\ 0 + 1 = 1
    OBVIOUS
  <2> QED
    BY <2>1, LoweredNext, Parity
<1> QED
  BY <1>1, <1>2, <1>3 DEF Printed, Held

LEMMA PrintedNext ==
  ASSUME NEW C, NEW s \in Seq(C), NoSpace(s), Clear(s), NEW m \in Nat, m + 1 <= Len(s), Printed(s, m),
         ~VicEncode(SubSeq(s, 1, m + 1)).stopped
  PROVE  Printed(s, m + 1)
<1> DEFINE t == SubSeq(s, 1, m)
           c == s[m + 1]
           e == VicEncode(t)
           f == VicEncode(SubSeq(s, 1, m + 1))
           d == Ends(e.out)
           y == Lowered(s, m)
<1>1. SubSeq(s, 1, m + 1) = Append(t, c) /\ t \in Seq(C) /\ c \in C /\ m + 1 \in 1..Len(s)
  <2>1. m + 1 \in 1..Len(s) /\ (m + 1) - 1 = m
    OBVIOUS
  <2> QED
    BY <2>1, Grows
<1>2. f = Encoded(e, c) /\ e \in Encoders
  BY <1>1, EncodeAppend, EncodeType
<1>3. ~f.stopped /\ ~e.stopped
  BY <1>2, EncodedType
<1>4. e.out \in Ciphers /\ d \in Readers
  BY <1>2, EndsType DEF Encoders
<1>5. /\ e.number <=> InNumber(s, m + 1)
      /\ IF e.number THEN d.state \in Numbers ELSE d.state = "top"
      /\ d.state = "number4" => m > 0 /\ s[m] = "4"
      /\ Held(d, y)
  BY DEF Printed
<1>6. Lowered(s, m + 1) = y \o <<Lower(c)>>
  BY LoweredNext
<1>7. /\ c = "/" => (InNumber(s, (m + 1) + 1) <=> ~InNumber(s, m + 1))
      /\ c # "/" => (InNumber(s, (m + 1) + 1) <=> InNumber(s, m + 1))
  <2>1. (m + 1) + 1 = m + 2
    OBVIOUS
  <2> QED
    BY <2>1, Parity
<1>8. /\ m + 1 \in DOMAIN s /\ c # " "
      /\ InNumber(s, m + 1) => c \in ToSet(Digits) \cup {"/"}
      /\ m > 0 /\ s[m] = "4" => c # "8"
  <2>1. DOMAIN s = 1..Len(s)
    OBVIOUS
  <2>2. c # " "
    BY <1>1 DEF NoSpace
  <2>3. m > 0 => m \in DOMAIN s
    BY <1>1, <2>1
  <2> QED
    BY <1>1, <2>1, <2>2, <2>3 DEF Clear
<1> SUFFICES /\ f.number <=> InNumber(s, (m + 1) + 1)
             /\ IF f.number THEN Ends(f.out).state \in Numbers ELSE Ends(f.out).state = "top"
             /\ Ends(f.out).state = "number4" => s[m + 1] = "4"
             /\ Held(Ends(f.out), Lowered(s, m + 1))
  BY DEF Printed
<1> HIDE DEF t, c, e, f, d, y
<1>9. CASE c = "/"
  <2> DEFINE n == ~e.number
             next == Decoded(Decoded(d, 4), 8)
  <2>1. f = Emit(e, <<4, 8>>, n)
    BY <1>2, <1>3, <1>9, EncodedSlash
  <2>2. <<4, 8>> \in Ciphers /\ n \in BOOLEAN /\ 4 \in 0..9 /\ 8 \in 0..9
    BY DEF Ciphers
  <2>3. n <=> ~e.number
    OBVIOUS
  <2> DEFINE w == <<4, 8>>
  <2>3a. w \in Ciphers /\ f = Emit(e, w, n) /\ e \in Encoders
    BY <1>2, <2>1, <2>2
  <2> HIDE DEF n, w
  <2>3b. f.out = e.out \o w /\ f.number = n
    BY <2>2, <2>3a, EmitOut
  <2>4. f.out = e.out \o <<4, 8>> /\ f.number = n
    BY <2>3b DEF w
  <2>5. Ends(f.out) = next
    BY <1>4, <2>2, <2>4, EndsTwo DEF d
  <2>6. d.state \in {"top", "number", "number4"} /\ (d.state = "top" <=> ~e.number)
    BY <1>5 DEF Numbers
  <2>7. next.state = (IF d.state = "top" THEN "number" ELSE "top") /\ next.out = y \o <<"/">>
    BY <1>4, <1>5, <2>6, TakesSlash
  <2> HIDE DEF next
  <2>8. Held(next, Lowered(s, m + 1))
    BY <1>6, <1>9, <2>7, LowerSame DEF Held
  <2> QED
    BY <1>5, <1>7, <1>9, <2>3, <2>4, <2>5, <2>6, <2>7, <2>8 DEF Numbers
<1>10. CASE Lower(c) \in DOMAIN Letters \cup {"."}
  <2> DEFINE l == Lower(c)
             code == Code(l)
  <2>1. c \notin ToSet(Digits) \cup {"/"}
    BY <1>10, LowerSame
  <2>2. ~InNumber(s, m + 1) /\ ~e.number /\ d.state = "top" /\ e.number \in BOOLEAN
    BY <1>2, <1>5, <1>8, <2>1 DEF Encoders
  <2>3. f = Emit(e, code, e.number) /\ code \in Ciphers
    BY <1>2, <1>3, <1>10, EncodedLetter, CodeType
  <2>4. f.out = e.out \o code /\ f.number = e.number
    BY <1>2, <2>2, <2>3, EmitIs
  <2>5. Ends(e.out \o code).state = "top" /\ Ends(e.out \o code).out = d.out \o <<l>>
    BY <1>4, <1>10, <2>2, TakesLetter DEF d
  <2>6. d.out = y
    BY <1>5, <2>2 DEF Held
  <2> HIDE DEF l, code
  <2>7. Held(Ends(f.out), Lowered(s, m + 1))
    BY <1>6, <2>4, <2>5, <2>6 DEF Held, l
  <2> QED
    BY <1>7, <2>1, <2>2, <2>4, <2>5, <2>7
<1>11. CASE e.number /\ \E g \in 0..9 : c = Digits[g + 1]
  <2>1. PICK g \in 0..9 : c = Digits[g + 1]
    BY <1>11
  <2> DEFINE next == Decoded(d, g)
           w == <<g>>
  <2>2. f = Emit(e, w, TRUE) /\ w \in Ciphers
    <3>1. w \in Ciphers
      BY DEF Ciphers
    <3>2. e \in Encoders /\ ~e.stopped /\ e.number
      BY <1>2, <1>3, <1>11
    <3>3. Encoded(e, Digits[g + 1]) = Emit(e, <<g>>, TRUE)
      BY <3>2, EncodedDigit
    <3> QED
      BY <1>2, <2>1, <3>1, <3>3
  <2> HIDE DEF w
  <2>2a. f.out = e.out \o w /\ f.number = TRUE
    BY <1>2, <2>2, EmitOut
  <2>3. f.out = e.out \o <<g>> /\ f.number = TRUE
    BY <2>2a DEF w
  <2>4. Ends(f.out) = next
    BY <1>4, <2>3, EndsOne DEF d
  <2>5. d.state \in Numbers /\ InNumber(s, m + 1)
    BY <1>5, <1>11
  <2>6. ~(d.state = "number4" /\ g = 8)
    <3>1. Digits[8 + 1] = "8"
      BY DEF Digits
    <3> QED
      BY <1>5, <1>8, <2>1, <3>1
  <2>7. next.state = (IF g = 4 THEN "number4" ELSE "number") /\ Held(next, y \o <<Digits[g + 1]>>)
    BY <1>4, <1>5, <2>5, <2>6, TakesDigit
  <2>8. Lower(c) = c /\ c # "/"
    BY <2>1, LowerSame, NoLetter, DigitValue
  <2>9. g = 4 => s[m + 1] = "4"
    <3>1. Digits[4 + 1] = "4"
      BY DEF Digits
    <3> QED
      BY <2>1, <3>1 DEF c
  <2> HIDE DEF next
  <2> QED
    BY <1>6, <1>7, <2>1, <2>3, <2>4, <2>5, <2>7, <2>8, <2>9 DEF Numbers
<1>12. Taken(e, c)
  <2>1. Encoded(e, c) # [e EXCEPT !.stopped = TRUE]
    <3>1. [e EXCEPT !.stopped = TRUE].stopped = TRUE
      BY <1>2 DEF Encoders
    <3> QED
      BY <1>2, <1>3, <3>1
  <2> QED
    BY <1>2, <1>3, <2>1, EncodedCases
<1> QED
  BY <1>8, <1>9, <1>10, <1>11, <1>12 DEF Taken

LEMMA PrintedAll ==
  ASSUME NEW C, NEW s \in Seq(C), NoSpace(s), Clear(s)
  PROVE  ~VicEncode(s).stopped => Printed(s, Len(s))
<1> DEFINE m == Len(s)
           Fine(n) == VicEncode(SubSeq(s, 1, n)).stopped \/ Printed(s, n)
           wrong == {n \in 0..m : ~Fine(n)}
<1>1. m \in Nat /\ SubSeq(s, 1, m) = s
  OBVIOUS
<1>2. wrong = {}
  <2> SUFFICES ASSUME wrong # {} PROVE FALSE
    OBVIOUS
  <2>1. wrong \subseteq Nat
    BY <1>1
  <2>2. PICK n \in wrong : \A y \in wrong : n <= y
    <3> HIDE DEF wrong
    <3> QED
      BY <2>1, LeastNumber
  <2>3. n \in 0..m /\ ~VicEncode(SubSeq(s, 1, n)).stopped /\ ~Printed(s, n)
    OBVIOUS
  <2>4. n # 0
    BY <2>3, PrintedFirst
  <2> DEFINE k == n - 1
  <2>5. n \in 1..m /\ k \in 0..m /\ k \notin wrong /\ k \in Nat /\ k + 1 = n
    BY <1>1, <2>2, <2>3, <2>4
  <2>6. Fine(k)
    BY <2>5
  <2>7. SubSeq(s, 1, n) = Append(SubSeq(s, 1, k), s[n]) /\ SubSeq(s, 1, k) \in Seq(C) /\ s[n] \in C
    BY <2>5, Grows
  <2>8. ~VicEncode(SubSeq(s, 1, k)).stopped
    <3> DEFINE e == VicEncode(SubSeq(s, 1, k))
    <3>1. VicEncode(SubSeq(s, 1, n)) = Encoded(e, s[n])
      BY <2>7, EncodeAppend
    <3>2. e \in Encoders
      BY <2>7, EncodeType
    <3> HIDE DEF e, k
    <3>3. ~Encoded(e, s[n]).stopped
      BY <2>3, <3>1
    <3>4. ~e.stopped
      BY <3>2, <3>3, EncodedType
    <3> QED
      BY <3>4 DEF e
  <2> HIDE DEF k
  <2>9. Printed(s, k)
    BY <2>6, <2>8
  <2>10. k + 1 <= Len(s) /\ ~VicEncode(SubSeq(s, 1, k + 1)).stopped
    BY <2>3, <2>5
  <2>11. Printed(s, k + 1)
    BY <2>5, <2>9, <2>10, PrintedNext
  <2> QED
    BY <2>3, <2>5, <2>11
<1>3. m \in 0..m /\ Fine(m)
  BY <1>1, <1>2
<1> QED
  BY <1>1, <1>3

(* The digits of a text in which they mean one text are read as that text: *)
(* it does not end in a 4.                                                 *)
LEMMA Prints ==
  ASSUME NEW C, NEW s \in Seq(C), NoSpace(s), Clear(s), ~VicEncode(s).stopped
  PROVE  /\ Ends(VicEncode(s).out).out = Lowered(s, Len(s))
         /\ Ends(VicEncode(s).out).state \in {"top", "number"}
<1> DEFINE m == Len(s)
           d == Ends(VicEncode(s).out)
<1>1. m \in Nat /\ SubSeq(s, 1, m) = s /\ DOMAIN s = 1..m
  OBVIOUS
<1>2. Printed(s, m)
  BY PrintedAll
<1>3. d.state \in {"top", "number", "number4"} /\ (d.state = "number4" => m > 0 /\ s[m] = "4")
      /\ Held(d, Lowered(s, m))
  BY <1>1, <1>2 DEF Printed, Numbers
<1>4. d.state # "number4"
  <2> SUFFICES ASSUME d.state = "number4" PROVE FALSE
    OBVIOUS
  <2>1. m \in DOMAIN s /\ s[m] = "4"
    BY <1>1, <1>3
  <2> QED
    BY <1>1, <2>1 DEF Clear
<1> QED
  BY <1>3, <1>4 DEF Held

-----------------------------------------------------------------------------
(* The offset, put on and taken off again.                                 *)
Turned(o, x, i) ==
  IF o.sign = "-" THEN (x - OffsetAt(o, i)) % 10 ELSE (x + OffsetAt(o, i)) % 10

Offset == [sign : {"", "+", "-"}, digits : Seq(0..10)]

Usable(o) == o \in Offset /\ ToSet(o.digits) \subseteq 0..9 /\ Len(o.digits) >= 1

LEMMA OppositeIs ==
  ASSUME NEW o \in Offset
  PROVE  /\ Opposite(o) \in Offset /\ Opposite(o).digits = o.digits
         /\ Opposite(o).sign = IF o.sign = "-" THEN "+" ELSE "-"
  BY DEF Opposite, Offset

LEMMA OffsetDigit ==
  ASSUME NEW o, Usable(o), NEW i \in Nat \ {0}
  PROVE  OffsetAt(o, i) \in 0..9
<1> DEFINE n == Len(o.digits)
           j == ((i - 1) % n) + 1
<1>1. o.digits \in Seq(0..10) /\ n \in Nat /\ n >= 1
  <2>1. o.digits \in Seq(0..10) /\ Len(o.digits) >= 1
    BY DEF Usable, Offset
  <2>2. Len(o.digits) \in Nat
    BY <2>1, LenProperties
  <2> QED
    BY <2>1, <2>2
<1>2. j \in 1..n
  <2> HIDE DEF n
  <2>1. (i - 1) % n \in 0..(n - 1)
    BY <1>1
  <2> QED
    BY <1>1, <2>1
<1>3. o.digits[j] \in ToSet(o.digits)
  <2> HIDE DEF j
  <2> QED
    BY <1>1, <1>2 DEF ToSet
<1> QED
  BY <1>3 DEF Usable, OffsetAt

LEMMA TurnedBack ==
  ASSUME NEW o, Usable(o), NEW x \in 0..9, NEW i \in Nat \ {0}
  PROVE  Turned(o, x, i) \in 0..9 /\ Turned(Opposite(o), Turned(o, x, i), i) = x
<1> DEFINE k == OffsetAt(o, i)
<1>1. k \in 0..9
  BY OffsetDigit
<1>2. OffsetAt(Opposite(o), i) = k
  BY OppositeIs DEF OffsetAt, Usable
<1>3. Opposite(o).sign = IF o.sign = "-" THEN "+" ELSE "-"
  BY OppositeIs DEF Usable
<1> HIDE DEF k
<1>4. /\ (x - k) % 10 \in 0..9 /\ (x + k) % 10 \in 0..9
      /\ (((x - k) % 10) + k) % 10 = x /\ (((x + k) % 10) - k) % 10 = x
  BY <1>1
<1>5. CASE o.sign = "-"
  BY <1>2, <1>3, <1>4, <1>5 DEF Turned, k
<1>6. CASE o.sign # "-"
  BY <1>2, <1>3, <1>4, <1>6 DEF Turned, k
<1> QED
  BY <1>5, <1>6

LEMMA AppliedIs ==
  ASSUME NEW o, Usable(o), NEW cipher \in Ciphers
  PROVE  /\ ApplyOffset(o, cipher) \in Ciphers
         /\ Len(ApplyOffset(o, cipher)) = Len(cipher)
         /\ \A i \in 1..Len(cipher) : ApplyOffset(o, cipher)[i] = Turned(o, cipher[i], i)
<1> DEFINE m == Len(cipher)
           a == ApplyOffset(o, cipher)
<1>1. m \in Nat /\ DOMAIN cipher = 1..m /\ \A i \in 1..m : cipher[i] \in 0..9 /\ i \in Nat \ {0}
  BY DEF Ciphers
<1>2. a = [i \in 1..m |-> Turned(o, cipher[i], i)]
  BY <1>1 DEF ApplyOffset, Turned
<1>3. \A i \in 1..m : Turned(o, cipher[i], i) \in 0..9
  BY <1>1, TurnedBack
<1> HIDE DEF a, m
<1>4. a \in [1..m -> 0..9] /\ \A i \in 1..m : a[i] = Turned(o, cipher[i], i)
  BY <1>2, <1>3
<1>5. a \in Seq(0..9) /\ Len(a) = m
  BY <1>1, <1>4
<1> QED
  BY <1>4, <1>5 DEF Ciphers, a, m

LEMMA OppositeUsable ==
  ASSUME NEW o, Usable(o)
  PROVE  Usable(Opposite(o))
  BY OppositeIs DEF Usable

(* What starts with the digits that the offset made becomes what started   *)
(* with the digits it was put on.                                          *)
LEMMA TurnsBack ==
  ASSUME NEW o, Usable(o), NEW cipher \in Ciphers, NEW c \in Ciphers, NEW m \in Nat,
         m <= Len(c), m <= Len(cipher), \A i \in 1..m : c[i] = ApplyOffset(o, cipher)[i]
  PROVE  \A i \in 1..m : ApplyOffset(Opposite(o), c)[i] = cipher[i]
<1>1. Len(c) \in Nat /\ Len(cipher) \in Nat
  BY LenProperties DEF Ciphers
<1> TAKE i \in 1..m
<1>2. i \in 1..Len(c) /\ i \in 1..Len(cipher) /\ i \in Nat \ {0}
  BY <1>1
<1>3. cipher[i] \in 0..9
  BY <1>2, ElementOfSeq DEF Ciphers
<1>4. ApplyOffset(Opposite(o), c)[i] = Turned(Opposite(o), c[i], i)
  BY <1>2, OppositeUsable, AppliedIs
<1>5. c[i] = Turned(o, cipher[i], i)
  BY <1>2, AppliedIs
<1> QED
  BY <1>2, <1>3, <1>4, <1>5, TurnedBack

(* All of the digits come back: *)
LEMMA AllBack ==
  ASSUME NEW o, Usable(o), NEW cipher \in Ciphers
  PROVE  ApplyOffset(Opposite(o), ApplyOffset(o, cipher)) = cipher
<1> DEFINE m == Len(cipher)
           a == ApplyOffset(o, cipher)
           b == ApplyOffset(Opposite(o), a)
<1>1. m \in Nat
  BY LenProperties DEF Ciphers
<1>2. a \in Ciphers /\ Len(a) = m
  BY AppliedIs
<1>3. b \in Ciphers /\ Len(b) = m
  BY <1>2, OppositeUsable, AppliedIs
<1>4. \A i \in 1..m : b[i] = cipher[i]
  <2>1. m <= Len(a) /\ m <= Len(cipher)
    BY <1>1, <1>2
  <2>2. \A i \in 1..m : a[i] = ApplyOffset(o, cipher)[i]
    OBVIOUS
  <2> HIDE DEF a, m
  <2> QED
    BY <1>1, <1>2, <2>1, <2>2, TurnsBack
<1> DEFINE C == 0..9
<1>5. b \in Seq(C) /\ cipher \in Seq(C)
  BY <1>3 DEF Ciphers
<1>6. b = cipher
  <2> HIDE DEF b, C
  <2> QED
    BY <1>3, <1>4, <1>5, SeqEqual
<1> QED
  BY <1>6

(* With one digit more, they come back with one digit more: *)
LEMMA MoreBack ==
  ASSUME NEW o, Usable(o), NEW cipher \in Ciphers
  PROVE  \E d \in 0..9 : ApplyOffset(Opposite(o), Append(ApplyOffset(o, cipher), 0)) = Append(cipher, d)
<1> DEFINE m == Len(cipher)
           a == ApplyOffset(o, cipher)
           c == Append(a, 0)
           b == ApplyOffset(Opposite(o), c)
           C == 0..9
<1>1. m \in Nat /\ 0 \in C /\ cipher \in Seq(C)
  BY LenProperties DEF Ciphers
<1>2. a \in Seq(C) /\ Len(a) = m
  BY AppliedIs DEF Ciphers
<1> HIDE DEF C, a, m
<1>3. c \in Seq(C)
  BY <1>1, <1>2, AppendProperties
<1>4. Len(c) = m + 1
  BY <1>1, <1>2, AppendProperties
<1>5. \A i \in 1..m : c[i] = a[i]
  BY <1>1, <1>2, AppendProperties
<1> HIDE DEF c
<1>6. b \in Seq(C) /\ Len(b) = m + 1
  BY <1>3, <1>4, OppositeUsable, AppliedIs DEF Ciphers, C
<1>7. \A i \in 1..m : b[i] = cipher[i]
  <2>1. m <= Len(c) /\ m <= Len(cipher)
    BY <1>1, <1>4 DEF m
  <2> QED
    BY <1>1, <1>3, <1>5, <2>1, TurnsBack DEF Ciphers, C, a
<1> HIDE DEF b
<1> DEFINE d == b[m + 1]
<1>8. d \in C
  BY <1>1, <1>6, ElementOfSeq
<1> HIDE DEF d
<1>9. b = Append(cipher, d)
  <2> DEFINE t == Append(cipher, d)
  <2>1. t \in Seq(C)
    BY <1>1, <1>8, AppendProperties
  <2>2. Len(t) = m + 1
    BY <1>1, <1>8, AppendProperties DEF m
  <2>3. \A i \in 1..m : t[i] = cipher[i]
    BY <1>1, <1>8, AppendProperties DEF m
  <2>4. t[m + 1] = d
    BY <1>1, <1>8, AppendProperties DEF m
  <2> HIDE DEF t
  <2>5. ASSUME NEW i \in 1..(m + 1) PROVE b[i] = t[i]
    <3>1. i \in 1..m \/ i = m + 1
      BY <1>1, LastOrEarlier
    <3> QED
      BY <1>7, <2>3, <2>4, <3>1 DEF d
  <2>6. b = t
    BY <1>6, <2>1, <2>2, <2>5, SeqEqual
  <2> QED
    BY <2>6 DEF t
<1> QED
  BY <1>8, <1>9 DEF C, b, c, a

(* And without the last one, all but the last.                             *)
Fewer(o, cipher, c, g) ==
  ApplyOffset(o, cipher) = Append(c, g) =>
    \E d \in 0..9 : cipher = Append(ApplyOffset(Opposite(o), c), d)

LEMMA FewerBack ==
  ASSUME NEW o, Usable(o), NEW cipher \in Ciphers, NEW c \in Ciphers, NEW g \in 0..9
  PROVE  Fewer(o, cipher, c, g)
<1>0. SUFFICES ASSUME ApplyOffset(o, cipher) = Append(c, g)
               PROVE  \E d \in 0..9 : cipher = Append(ApplyOffset(Opposite(o), c), d)
  BY DEF Fewer
<1> DEFINE m == Len(c)
           a == ApplyOffset(o, cipher)
           b == ApplyOffset(Opposite(o), c)
           C == 0..9
<1>1. m \in Nat /\ g \in C /\ cipher \in Seq(C) /\ c \in Seq(C)
  BY LenProperties DEF Ciphers
<1>2. a \in Seq(C) /\ Len(a) = Len(cipher)
  BY AppliedIs DEF Ciphers
<1> HIDE DEF C, m
<1>3. Len(a) = m + 1
  BY <1>0, <1>1, AppendProperties DEF m, a
<1>4. \A i \in 1..m : c[i] = a[i]
  BY <1>0, <1>1, AppendProperties DEF m, a
<1> HIDE DEF a
<1>5. b \in Seq(C) /\ Len(b) = m
  BY <1>1, OppositeUsable, AppliedIs DEF Ciphers, C, m
<1>6. \A i \in 1..m : b[i] = cipher[i]
  <2>1. m <= Len(c) /\ m <= Len(cipher)
    BY <1>1, <1>2, <1>3 DEF m
  <2>2. \A i \in 1..m : c[i] = ApplyOffset(o, cipher)[i]
    BY <1>4 DEF a
  <2> HIDE DEF b
  <2>3. \A i \in 1..m : ApplyOffset(Opposite(o), c)[i] = cipher[i]
    BY <1>1, <2>1, <2>2, TurnsBack
  <2> QED
    BY <2>3 DEF b
<1> HIDE DEF b
<1> DEFINE d == cipher[m + 1]
<1>7. d \in C
  <2>1. m + 1 \in 1..Len(cipher)
    BY <1>1, <1>2, <1>3
  <2> QED
    BY <1>1, <2>1, ElementOfSeq
<1> HIDE DEF d
<1>8. cipher = Append(b, d)
  <2> DEFINE t == Append(b, d)
  <2>1. t \in Seq(C)
    BY <1>5, <1>7, AppendProperties
  <2>2. Len(t) = m + 1
    BY <1>5, <1>7, AppendProperties
  <2>3. \A i \in 1..m : t[i] = b[i]
    BY <1>5, <1>7, AppendProperties
  <2>4. t[m + 1] = d
    BY <1>5, <1>7, AppendProperties
  <2> HIDE DEF t
  <2>5. ASSUME NEW i \in 1..(m + 1) PROVE cipher[i] = t[i]
    <3>1. i \in 1..m \/ i = m + 1
      BY <1>1, LastOrEarlier
    <3> QED
      BY <1>6, <2>3, <2>4, <3>1 DEF d
  <2>6. cipher = t
    BY <1>1, <1>2, <1>3, <2>1, <2>2, <2>5, SeqEqual
  <2> QED
    BY <2>6 DEF t
<1> QED
  BY <1>7, <1>8 DEF C, b

-----------------------------------------------------------------------------
(* Prefixes.                                                               *)
LEMMA PrefixOf ==
  ASSUME NEW C, NEW x \in Seq(C), NEW y \in Seq(C)
  PROVE  IsPrefix(x, x \o y)
<1>1. Len(x \o y) = Len(x) + Len(y) /\ x \o y \in Seq(C) /\ \A i \in 1..Len(x) : (x \o y)[i] = x[i]
  OBVIOUS
<1>2. Len(x) \in Nat /\ Len(y) \in Nat
  BY LenProperties
<1> DEFINE z == x \o y
           a == SubSeq(x, 1, Len(x))
           b == SubSeq(z, 1, Len(x))
<1>3. a = x
  OBVIOUS
<1> HIDE DEF z
<1>4. b \in Seq(C) /\ Len(b) = Len(x) /\ \A i \in 1..Len(x) : b[i] = z[i]
  BY <1>1, <1>2 DEF z
<1> HIDE DEF b
<1>5. \A i \in 1..Len(x) : b[i] = x[i]
  BY <1>1, <1>4 DEF z
<1>6. b = x
  BY <1>4, <1>5, SeqEqual
<1>7. Len(x) <= Len(z)
  BY <1>1, <1>2 DEF z
<1> QED
  BY <1>3, <1>6, <1>7 DEF IsPrefix, b, z

LEMMA PrefixOfFront ==
  ASSUME NEW C, NEW x \in Seq(C), NEW y \in Seq(C), NEW w \in Seq(C), NEW k \in Nat,
         k <= Len(x)
  PROVE  IsPrefix(SubSeq(x \o w, 1, k), x \o y)
<1> DEFINE z == x \o y
           v == x \o w
           a == SubSeq(v, 1, k)
           b == SubSeq(z, 1, k)
<1>1. /\ Len(z) = Len(x) + Len(y) /\ z \in Seq(C) /\ \A i \in 1..Len(x) : z[i] = x[i]
      /\ Len(v) = Len(x) + Len(w) /\ v \in Seq(C) /\ \A i \in 1..Len(x) : v[i] = x[i]
  OBVIOUS
<1>2. Len(x) \in Nat /\ Len(y) \in Nat /\ Len(w) \in Nat
  BY LenProperties
<1> HIDE DEF z, v
<1>3. k <= Len(z) /\ k <= Len(v)
  BY <1>1, <1>2
<1>4. b \in Seq(C) /\ Len(b) = k /\ \A i \in 1..k : b[i] = z[i]
  BY <1>1, <1>2, <1>3
<1>5. a \in Seq(C) /\ Len(a) = k /\ \A i \in 1..k : a[i] = v[i]
  BY <1>1, <1>2, <1>3
<1> HIDE DEF a, b
<1>6. \A i \in 1..k : i \in 1..Len(x)
  BY <1>2
<1>7. \A i \in 1..k : a[i] = b[i]
  BY <1>1, <1>4, <1>5, <1>6
<1>8. a = b
  BY <1>4, <1>5, <1>7, SeqEqual
<1>9. SubSeq(a, 1, Len(a)) = a
  BY <1>5
<1> QED
  BY <1>3, <1>5, <1>8, <1>9 DEF IsPrefix, a, b, z, v

(* What is printed begins with what the digits complete.                   *)
LEMMA DecodeStarts ==
  ASSUME NEW cipher \in Ciphers
  PROVE  /\ \E rest \in Texts : VicDecode(cipher) = Ends(cipher).out \o rest
         /\ Ends(cipher).state \in {"top", "number"} => VicDecode(cipher) = Ends(cipher).out
<1> DEFINE s == Ends(cipher)
           rest == IF s.state = "zero" THEN <<"d">> ELSE IF s.state = "four" THEN <<"g">> ELSE <<>>
<1>1. s \in Readers /\ s.out \in Texts
  BY EndsType DEF Readers
<1>2. VicDecode(cipher) = s.out \o rest
  BY DEF VicDecode
<1>3. rest \in Texts
  <2>1. "d" \in Marks /\ "g" \in Marks
    <3>1. Zero[0 + 1] = "d" /\ Four[0 + 1] = "g"
      BY DEF Zero, Four
    <3> QED
      BY <3>1, BoardType
  <2> HIDE DEF s
  <2> QED
    BY <2>1 DEF Texts
<1>4. s.state \in {"top", "number"} => rest = <<>>
  OBVIOUS
<1>5. s.out \o <<>> = s.out
  BY <1>1 DEF Texts
<1> QED
  BY <1>2, <1>3, <1>4, <1>5

(* Digits that do not end within a letter or at a 4 in a number end with   *)
(* one character, or with a 4 and another digit.                           *)
LEMMA PutSize ==
  ASSUME NEW row \in States, NEW d \in 0..9, StateAfter(row, d) \in {"top", "number"}
  PROVE  \/ \E c \in Marks : Put(row, d) = <<c>>
         \/ Put(row, d) = <<"4", Digits[d + 1]>>
<1>1. /\ Top[d + 1] \in Marks /\ Zero[d + 1] \in Marks /\ Four[d + 1] \in Marks
      /\ Digits[d + 1] \in Marks /\ "/" \in Marks /\ "4" \in Marks
  BY BoardType DEF Marks
<1>2. CASE row = "zero"
  BY <1>1, <1>2 DEF Put
<1>3. CASE row = "four"
  BY <1>1, <1>3 DEF Put
<1>4. CASE row = "number4"
  BY <1>1, <1>4 DEF Put
<1>5. CASE row = "number"
  BY <1>1, <1>5 DEF Put, StateAfter
<1>6. CASE row = "top"
  BY <1>1, <1>6 DEF Put, StateAfter
<1> QED
  BY <1>2, <1>3, <1>4, <1>5, <1>6 DEF States

(* The last two of a text that ends in two characters: *)
LEMMA LastTwo ==
  ASSUME NEW C, NEW x \in Seq(C), NEW a \in C, NEW b \in C
  PROVE  LET z == x \o <<a, b>>
         IN  Len(z) = Len(x) + 2 /\ z[Len(z) - 1] = a /\ z[Len(z)] = b
  OBVIOUS

(* A text whose last digit is not read: what is left begins with all but   *)
(* one or two of its characters.                                           *)
LEMMA LosesLast ==
  ASSUME NEW f \in Ciphers, NEW d \in 0..9, Ends(Append(f, d)).state \in {"top", "number"}
  PROVE  LET z == Ends(Append(f, d)).out
         IN  IsPrefix(SubSeq(z, 1, Len(z) - Lost(z)), VicDecode(f))
<1> DEFINE r == Ends(f)
           x == r.out
           w == Put(r.state, d)
           z == Ends(Append(f, d)).out
           k == Len(z) - Lost(z)
<1>1. r \in Readers /\ x \in Texts /\ r.state \in States
  BY EndsType DEF Readers
<1>2. Ends(Append(f, d)) = Decoded(r, d)
  BY EndsAppend
<1>3. z = x \o w /\ StateAfter(r.state, d) \in {"top", "number"}
  BY <1>1, <1>2, DecodedType
<1>4. w \in Texts /\ ((\E c \in Marks : w = <<c>>) \/ w = <<"4", Digits[d + 1]>>)
  BY <1>1, <1>3, PutSize, PutType
<1>5. PICK rest \in Texts : VicDecode(f) = x \o rest
  BY DecodeStarts
<1>6. "4" \in Marks /\ Digits[d + 1] \in Marks /\ Digits[d + 1] # "/"
  <2>1. Digits[d + 1] # "/"
    BY DigitValue, NoLetter
  <2> QED
    BY <2>1, BoardType DEF Marks
<1> SUFFICES IsPrefix(SubSeq(z, 1, k), VicDecode(f))
  OBVIOUS
<1> HIDE DEF r, x, w, z
<1>7. Len(x) \in Nat /\ x \in Seq(Marks) /\ w \in Seq(Marks) /\ rest \in Seq(Marks)
  BY <1>1, <1>4, <1>5, LenProperties DEF Texts
<1>8. k \in Nat /\ k <= Len(x)
  <2>1. CASE \E c \in Marks : w = <<c>>
    <3>1. PICK c \in Marks : w = <<c>>
      BY <2>1
    <3>2. Len(z) = Len(x) + 1
      <4>1. Len(x \o <<c>>) = Len(x) + 1
        BY <1>7
      <4> QED
        BY <1>3, <3>1, <4>1
    <3>3. Lost(z) \in {1, 2} /\ (Len(z) = 1 => Lost(z) = 1)
      BY <3>2 DEF Lost
    <3> QED
      BY <1>7, <3>2, <3>3
  <2>2. CASE w = <<"4", Digits[d + 1]>>
    <3>1. Len(z) = Len(x) + 2 /\ z[Len(z) - 1] = "4" /\ z[Len(z)] = Digits[d + 1]
      BY <1>3, <1>6, <1>7, <2>2, LastTwo
    <3>2. Lost(z) = 2
      <4>1. Len(z) > 1
        BY <1>7, <3>1
      <4> QED
        BY <1>6, <3>1, <4>1 DEF Lost
    <3> QED
      BY <1>7, <3>1, <3>2
  <2> QED
    BY <1>4, <2>1, <2>2
<1> HIDE DEF k
<1>9. IsPrefix(SubSeq(x \o w, 1, k), x \o rest)
  BY <1>7, <1>8, PrefixOfFront
<1> QED
  BY <1>3, <1>5, <1>9

(* Digits there and back.                                                  *)
Back(o, cipher) ==
  VicDecode(ApplyOffset(Opposite(o), VicEncode(VicDecode(ApplyOffset(o, cipher))).out))

Recovered(z, back, row) ==
  CASE row \in {"zero", "four"} -> IsPrefix(z, back)
    [] row = "number4" -> IsPrefix(SubSeq(z, 1, Len(z) - Lost(z)), back)
    [] row \in {"top", "number"} -> back = z

LEMMA DigitsBack ==
  ASSUME NEW o, Usable(o), NEW cipher \in Ciphers, Ends(cipher).state \in {"top", "number"}
  PROVE  Recovered(Ends(cipher).out, Back(o, cipher), Ends(ApplyOffset(o, cipher)).state)
<1> DEFINE a == ApplyOffset(o, cipher)
           e == VicEncode(VicDecode(a)).out
           z == Ends(cipher).out
           row == Ends(a).state
           b == ApplyOffset(Opposite(o), e)
<1>1. a \in Ciphers
  BY AppliedIs
<1>2. /\ row \in {"zero", "four"} => e = Append(a, 0)
      /\ row = "number4" => a = Append(e, 4)
      /\ row \in {"top", "number"} => e = a
      /\ e \in Ciphers
  <2> HIDE DEF a
  <2> QED
    BY <1>1, EncodesDecoded DEF Encoders
<1>3. row \in {"zero", "four", "number4", "top", "number"} /\ z \in Texts
  BY <1>1, EndsType DEF Readers, States
<1>4. Back(o, cipher) = VicDecode(b)
  BY DEF Back
<1> HIDE DEF e, row
<1>5. CASE row \in {"zero", "four"}
  <2>1. PICK d \in 0..9 : b = Append(cipher, d)
    BY <1>2, <1>5, MoreBack
  <2> DEFINE more == Append(cipher, d)
             r == Ends(cipher)
             w == Put(r.state, d)
  <2>2. more \in Ciphers /\ r \in Readers /\ r.state \in States /\ r.out \in Texts
    <3>1. more \in Ciphers
      BY DEF Ciphers
    <3> QED
      BY <3>1, EndsType DEF Readers
  <2>3. Ends(more).out = r.out \o w /\ w \in Texts
    BY <2>2, EndsAppend, DecodedType, PutType
  <2>4. PICK rest \in Texts : VicDecode(more) = Ends(more).out \o rest
    BY <2>2, DecodeStarts
  <2> HIDE DEF more, w, r
  <2>5. VicDecode(more) = (z \o w) \o rest
    BY <2>3, <2>4 DEF r
  <2>6. IsPrefix(z, VicDecode(more))
    <3> HIDE DEF z
    <3>1. z \in Seq(Marks) /\ w \in Seq(Marks) /\ rest \in Seq(Marks) /\ w \o rest \in Seq(Marks)
      BY <1>3, <2>3, <2>4, ConcatProperties DEF Texts
    <3>2. Associates(z, w, rest)
      BY <3>1, Joined
    <3>3. IsPrefix(z, z \o (w \o rest))
      BY <3>1, PrefixOf
    <3> QED
      BY <2>5, <3>2, <3>3 DEF Associates
  <2>7. b = more
    BY <2>1 DEF more
  <2> HIDE DEF z, b, a
  <2>8. IsPrefix(z, Back(o, cipher))
    BY <1>4, <2>6, <2>7
  <2> QED
    BY <1>5, <2>8 DEF Recovered, z, row, a
<1>6. CASE row = "number4"
  <2> DEFINE g == 4
  <2>1. ApplyOffset(o, cipher) = Append(e, g)
    BY <1>2, <1>6
  <2>1a. g \in 0..9 /\ e \in Ciphers
    BY <1>2
  <2>2. PICK d \in 0..9 : cipher = Append(b, d)
    <3> HIDE DEF g, a
    <3>1. Fewer(o, cipher, e, g)
      BY <2>1a, FewerBack
    <3> QED
      BY <2>1, <3>1 DEF Fewer
  <2>3. b \in Ciphers
    BY <1>2, OppositeUsable, AppliedIs
  <2>4. Ends(Append(b, d)).state \in {"top", "number"} /\ Ends(Append(b, d)).out = z
    BY <2>2
  <2> HIDE DEF b, z, a
  <2>5. IsPrefix(SubSeq(z, 1, Len(z) - Lost(z)), VicDecode(b))
    BY <2>3, <2>4, LosesLast
  <2> QED
    BY <1>4, <1>6, <2>5 DEF Recovered, z, row, a
<1>7. CASE row \in {"top", "number"}
  <2>1. b = cipher
    BY <1>2, <1>7, AllBack
  <2>2. VicDecode(cipher) = z
    BY DecodeStarts
  <2> HIDE DEF b, z, a
  <2>3. Back(o, cipher) = z
    BY <1>4, <2>1, <2>2
  <2> QED
    BY <1>7, <2>3 DEF Recovered, z, row, a
<1> QED
  BY <1>3, <1>5, <1>6, <1>7

-----------------------------------------------------------------------------
(* What the run says of a text, from its letters without the spaces.       *)
LEMMA SolidIs ==
  ASSUME NEW C, NEW text \in Seq(C), Unambiguous(text), ~VicEncode(text).stopped
  PROVE  LET cipher == VicEncode(text).out
         IN  /\ cipher \in Ciphers
             /\ Ends(cipher).out = Solid(text)
             /\ Ends(cipher).state \in {"top", "number"}
<1> DEFINE s == Unspaced(text)
<1>1. s \in Seq(C) /\ NoSpace(s) /\ VicEncode(s) = VicEncode(text)
  BY UnspacedEncodes
<1>2. Clear(s)
  BY DEF Unambiguous, Clear
<1>3. Solid(text) = Lowered(s, Len(s))
  <2>1. DOMAIN s = 1..Len(s)
    BY <1>1
  <2> QED
    BY <2>1 DEF Solid, Lowered
<1>4. VicEncode(text) \in Encoders
  BY EncodeType
<1> HIDE DEF s
<1>5. ~VicEncode(s).stopped
  BY <1>1
<1>6. Ends(VicEncode(s).out).out = Lowered(s, Len(s)) /\ Ends(VicEncode(s).out).state \in {"top", "number"}
  BY <1>1, <1>2, <1>5, Prints
<1> QED
  BY <1>1, <1>3, <1>4, <1>6 DEF Encoders

LEMMA MainIs ==
  ASSUME NEW o, NEW text
  PROVE  LET e == VicEncode(text)
             accepted == ~e.stopped /\ OffsetFits(o, e.out)
         IN  /\ Main(o, text).accepted <=> accepted
             /\ accepted => /\ Main(o, text).cipher = ApplyOffset(o, e.out)
                            /\ Main(o, text).text = VicDecode(ApplyOffset(o, e.out))
  BY DEF Main

(* The opposite offset fits whatever the digits are.                       *)
LEMMA OppositeFits ==
  ASSUME NEW o, Usable(o), NEW cipher \in Ciphers
  PROVE  OffsetFits(Opposite(o), cipher)
<1> DEFINE p == Opposite(o)
<1>1. Usable(p) /\ p.sign # ""
  BY OppositeUsable, OppositeIs DEF Usable
<1> HIDE DEF p
<1>2. OffsetSize(p) >= 2
  <2>1. p.digits \in Seq(0..10) /\ Len(p.digits) >= 1
    BY <1>1 DEF Usable, Offset
  <2>2. Len(p.digits) \in Nat
    BY <2>1, LenProperties
  <2>3. OffsetSize(p) = Len(p.digits) + 1
    BY <1>1 DEF OffsetSize
  <2> QED
    BY <2>1, <2>2, <2>3
<1>3. \A i \in DOMAIN cipher : i \in Nat \ {0}
  BY DEF Ciphers
<1>4. \A i \in DOMAIN cipher : OffsetAt(p, i) \in 0..9
  BY <1>1, <1>3, OffsetDigit
<1> QED
  BY <1>2, <1>4 DEF OffsetFits, p

(* An offset that fits digits has digits itself.                           *)
LEMMA FitsUsable ==
  ASSUME NEW o \in Offset, ToSet(o.digits) \subseteq 0..9, NEW cipher, cipher # <<>>,
         OffsetFits(o, cipher)
  PROVE  Usable(o)
<1>1. o.digits \in Seq(0..10) /\ o.sign \in {"", "+", "-"}
  BY DEF Offset
<1>2. Len(o.digits) \in Nat
  BY <1>1, LenProperties
<1>3. OffsetSize(o) >= 2
  BY DEF OffsetFits
<1>4. Len(o.digits) >= 1
  <2>1. CASE o.sign = ""
    <3>1. OffsetSize(o) = Len(o.digits) + 0
      BY <2>1 DEF OffsetSize
    <3> QED
      BY <1>2, <1>3, <3>1
  <2>2. CASE o.sign # ""
    <3>1. OffsetSize(o) = Len(o.digits) + 1
      BY <2>2 DEF OffsetSize
    <3> QED
      BY <1>2, <1>3, <3>1
  <2> QED
    BY <2>1, <2>2
<1> QED
  BY <1>4 DEF Usable

LEMMA NothingBack ==
  ASSUME NEW o
  PROVE  /\ ApplyOffset(o, <<>>) = <<>> /\ VicDecode(<<>>) = <<>>
         /\ Ends(<<>>).state = "top" /\ Ends(<<>>).out = <<>>
         /\ VicEncode(<<>>).out = <<>> /\ ~VicEncode(<<>>).stopped
         /\ OffsetFits(o, <<>>)
<1>1. Ends(<<>>).state = "top" /\ Ends(<<>>).out = <<>>
  BY EndsEmpty, FirstReaderIs
<1>2. VicEncode(<<>>).out = <<>> /\ ~VicEncode(<<>>).stopped
  BY EncodeEmpty, FirstEncoderIs
<1>3. ApplyOffset(o, <<>>) = <<>> /\ OffsetFits(o, <<>>)
  BY DEF ApplyOffset, OffsetFits
<1>4. VicDecode(<<>>) = <<>>
  <2>1. <<>> \in Ciphers
    BY DEF Ciphers
  <2> QED
    BY <1>1, <2>1, DecodeStarts
<1> QED
  BY <1>1, <1>2, <1>3, <1>4

LEMMA TextBack ==
  ASSUME NEW C, NEW text \in Seq(C), Unambiguous(text), NEW o \in Offset,
         ToSet(o.digits) \subseteq 0..9, Main(o, text).accepted
  PROVE  LET there == Main(o, text)
             back  == Main(Opposite(o), there.text)
         IN  back.accepted /\ Recovered(Solid(text), back.text, Ends(there.cipher).state)
<1> DEFINE cipher == VicEncode(text).out
           a == ApplyOffset(o, cipher)
           t == VicDecode(a)
           e == VicEncode(t)
           p == Opposite(o)
<1>1. ~VicEncode(text).stopped /\ OffsetFits(o, cipher)
      /\ Main(o, text).cipher = a /\ Main(o, text).text = t
  BY MainIs
<1>2. cipher \in Ciphers /\ Ends(cipher).out = Solid(text) /\ Ends(cipher).state \in {"top", "number"}
  BY <1>1, SolidIs
<1>3. /\ Main(p, t).accepted <=> ~e.stopped /\ OffsetFits(p, e.out)
      /\ ~e.stopped /\ OffsetFits(p, e.out) => Main(p, t).text = VicDecode(ApplyOffset(p, e.out))
  BY MainIs
<1> SUFFICES Main(p, t).accepted /\ Recovered(Solid(text), Main(p, t).text, Ends(a).state)
  BY <1>1
<1>4. CASE cipher = <<>>
  <2>1. a = <<>> /\ t = <<>> /\ e.out = <<>> /\ ~e.stopped /\ OffsetFits(p, e.out)
    BY <1>4, NothingBack
  <2>2. Solid(text) = <<>> /\ Ends(a).state = "top"
    BY <1>2, <1>4, <2>1, NothingBack
  <2>3. VicDecode(ApplyOffset(p, e.out)) = <<>>
    BY <2>1, NothingBack
  <2> HIDE DEF a, t, e, p, cipher
  <2> QED
    BY <1>3, <2>1, <2>2, <2>3 DEF Recovered
<1>5. CASE cipher # <<>>
  <2>1. Usable(o)
    BY <1>1, <1>5, FitsUsable
  <2>2. a \in Ciphers
    BY <1>2, <2>1, AppliedIs
  <2>3. e \in Encoders /\ ~e.stopped
    <3> HIDE DEF a
    <3> QED
      BY <2>2, EncodesDecoded
  <2>4. e.out \in Ciphers
    BY <2>3 DEF Encoders
  <2>5. OffsetFits(p, e.out)
    BY <2>1, <2>4, OppositeFits
  <2>6. Recovered(Ends(cipher).out, Back(o, cipher), Ends(a).state)
    BY <1>2, <2>1, DigitsBack
  <2>7. Back(o, cipher) = VicDecode(ApplyOffset(p, e.out))
    BY DEF Back
  <2> HIDE DEF a, t, e, p, cipher
  <2> QED
    BY <1>2, <1>3, <2>3, <2>5, <2>6, <2>7
<1> QED
  BY <1>4, <1>5

-----------------------------------------------------------------------------
(* The texts of the module: the offset is one of VicOffsets, and the text  *)
(* is of their characters.                                                 *)
TextType ==
  task.is = "vic" => task.offset \in VicOffsets /\ input \in Seq(UNION {Characters[n] : n \in Nat})

LEMMA TextTypeHolds == CodingSpec => []TextType
<1>1. CodingInit => TextType
  BY DEF CodingInit, TextType
<1>2. TextType /\ [CodingNext]_codingVars => TextType'
  <2> SUFFICES ASSUME TextType, [CodingNext]_codingVars PROVE TextType'
    OBVIOUS
  <2>1. CASE GrowText
    <3>1. PICK c \in Characters[Len(input)] : input' = Append(input, c)
      BY <2>1 DEF GrowText
    <3> DEFINE C == UNION {Characters[n] : n \in Nat}
    <3>2. input \in Seq(C) /\ task.is = "vic" /\ task' = task
      BY <2>1 DEF GrowText, TextType
    <3>3. c \in C
      <4>1. Len(input) \in Nat
        BY <3>2, LenProperties
      <4> QED
        BY <3>1, <4>1
    <3> HIDE DEF C
    <3>4. input' \in Seq(C)
      BY <3>1, <3>2, <3>3, AppendProperties
    <3> QED
      BY <3>2, <3>4 DEF TextType, C
  <2>2. CASE GrowName
    BY <2>2 DEF GrowName, TextType
  <2>3. CASE GrowBytes
    BY <2>3 DEF GrowBytes, TextType
  <2>4. CASE UNCHANGED codingVars
    BY <2>4 DEF codingVars, TextType
  <2> QED
    BY <2>1, <2>2, <2>3, <2>4 DEF CodingNext
<1> QED
  BY <1>1, <1>2, PTL DEF CodingSpec

(* vic.cpp: what vic prints, put in again with the opposite number, gives  *)
(* the text back, for every text in which the digits mean one text and     *)
(* every number.                                                           *)
THEOREM VicCorrect == CodingSpec => []VicRecovers
<1>1. TextType => VicRecovers
  <2> SUFFICES ASSUME TextType, task.is = "vic", ToSet(task.offset.digits) \subseteq 0..9,
                      Unambiguous(input), Main(task.offset, input).accepted
               PROVE  LET there == Main(task.offset, input)
                          back  == Main(Opposite(task.offset), there.text)
                      IN  /\ back.accepted
                          /\ Recovered(Solid(input), back.text, Ends(there.cipher).state)
    BY DEF VicRecovers, Recovered
  <2> DEFINE C == UNION {Characters[n] : n \in Nat}
  <2>1. task.offset \in Offset /\ input \in Seq(C)
    BY CodingAssumption DEF TextType, Offset
  <2> HIDE DEF C
  <2> QED
    BY <2>1, TextBack
<1> QED
  BY <1>1, TextTypeHolds, PTL
=============================================================================
