----------------------------- MODULE HttpAccess -----------------------------
(***************************************************************************)
(* utils::HttpAccess (code/utils/HttpAccess.cpp), shared by the client     *)
(* threads of httpd: who may read what, from a password file and from the  *)
(* nearest .htaccess file, both cached and both edited by others at any    *)
(* moment. IsAuthorized holds the object's lock; inside it every look at   *)
(* the disk is a step of its own. Reading a file's contents is one step.   *)
(***************************************************************************)
EXTENDS FileObject

CONSTANTS Workers,   \* client threads
          Users,     \* names; whoever is in a password file has its password
          Dirs,      \* directories under which requests are served
          Parent,    \* Parent[d]: the directory above d, or None
          Passwd,    \* the password file, as a path
          Contents,  \* what editors put into a file: sets of users
          Requests,  \* [user, dir, header]; dir is None for an empty path
          None,      \* an empty string or a null pointer
          MaxTime,   \* bound on the clock
          MaxEdits   \* bound on the number of edits

ASSUME AccessAssumption ==
  /\ Passwd \notin Dirs
  /\ None \notin Dirs \cup Users \cup Workers
  /\ Parent \in [Dirs -> Dirs \cup {None}]
  /\ Contents \subseteq SUBSET Users
  /\ Requests \subseteq
       [user : Users, dir : Dirs \cup {None}, header : {"basic", "bad"}]
  /\ MaxTime \in Nat \ {0} /\ MaxEdits \in Nat

Files == Dirs \cup {Passwd}  \* a directory stands for its .htaccess

VARIABLES
  disk, now, edits,         \* what the paths hold, the clock in seconds
  owner, pc, dir,           \* who holds the lock, where, the candidate
  request,                  \* the request that IsAuthorized is called with
  state,                    \* state[w]: where worker w is between requests
  fileHandle, loaded, entries,
  accessFile, accessHandle, accessLoaded, accessUsers,
  lastAuth,                 \* m_lastAuth
  seen, written, since      \* history, see below

diskVars    == <<disk, now, edits>>
cacheVars   == <<fileHandle, loaded, entries>>
accessVars  == <<accessFile, accessHandle, accessLoaded, accessUsers>>
callVars == <<owner, pc, dir, request, state, lastAuth, since>>
vars     == <<diskVars, callVars, cacheVars, accessVars, seen, written>>

Times   == 0..MaxTime
OnDisk  == [users : Contents, mtime : Times] \cup {Absent}
Verdict == [user : Users \cup {None}, authorized : BOOLEAN]
Versions  == [held : Contents \cup {Absent}, again : BOOLEAN]
NoVerdict == [user |-> None, authorized |-> FALSE]

TypeOK ==
  /\ disk \in [Files -> OnDisk] /\ now \in Times /\ edits \in 0..MaxEdits
  /\ owner \in Workers \cup {None}
  /\ pc \in {"free", "exists", "modified", "load", "check", "find", "access",
             "accessModified", "accessLoad", "allowed"}
  /\ dir \in Dirs \cup {None}
  /\ request \in Requests \cup {None}
  /\ state \in [Workers -> {"idle", "asking", "answered"}]
  /\ fileHandle \in FileObjects(Times) /\ loaded \in BOOLEAN
  /\ entries \in SUBSET Users
  /\ accessFile \in Dirs \cup {None}
  /\ accessHandle \in FileObjects(Times) \cup {None}
  /\ accessLoaded \in BOOLEAN /\ accessUsers \in SUBSET Users
  /\ lastAuth \in Verdict
  /\ seen \in [Files -> SUBSET Versions]
  /\ written \in [Files -> [at : Times, again : BOOLEAN]]
  /\ since \in [Workers -> SUBSET Verdict]

(* After Configure found the "access" setting.                             *)
Init ==
  /\ disk \in [Files -> {[users |-> u, mtime |-> 0] : u \in Contents} \cup {Absent}]
  /\ now = 1 /\ edits = 0
  /\ owner = None /\ pc = "free" /\ dir = None
  /\ request = None
  /\ state = [w \in Workers |-> "idle"]
  /\ fileHandle = NewFile(disk[Passwd]) /\ loaded = FALSE /\ entries = {}
  /\ accessFile = None /\ accessHandle = None
  /\ accessLoaded = FALSE /\ accessUsers = {}
  /\ lastAuth = [user |-> None, authorized |-> TRUE]
  /\ seen = [p \in Files |-> {}]
  /\ written = [p \in Files |-> [at |-> 0, again |-> FALSE]]
  /\ since = [w \in Workers |-> {}]

(***************************************************************************)
(* The outside: editors and the clock. written[p] tells when p was last    *)
(* written, and whether that was in the same second as the time before, so *)
(* that the modification time does not tell the two versions apart.        *)
(* seen[p] collects what p held during the current call.                   *)
(***************************************************************************)
Version(p, d, again) ==
  [held |-> IF There(d) THEN d.users ELSE Absent, again |-> again]

Tick ==
  /\ now < MaxTime
  /\ now' = now + 1
  /\ UNCHANGED <<disk, edits, callVars, cacheVars, accessVars, seen, written>>

Edit(p, d) ==
  /\ edits < MaxEdits
  /\ d # disk[p]
  /\ disk' = [disk EXCEPT ![p] = d]
  /\ edits' = edits + 1
  /\ written' = IF There(d)
                  THEN [written EXCEPT ![p] = [at |-> now, again |-> @.at = now]]
                  ELSE written
  /\ seen' = IF owner = None THEN seen
             ELSE [seen EXCEPT ![p] = @ \cup {Version(p, d, written'[p].again)}]
  /\ UNCHANGED <<now, callVars, cacheVars, accessVars>>

Editor ==
  \E p \in Files :
    \/ Edit(p, Absent)
    \/ \E u \in Contents : Edit(p, [users |-> u, mtime |-> now])

(***************************************************************************)
(* IsAuthorized, by the worker that owns the lock.                         *)
(***************************************************************************)
Call(w, r) ==
  /\ owner = None /\ state[w] = "idle"
  /\ owner' = w /\ pc' = "exists"
  /\ request' = r
  /\ state' = [state EXCEPT ![w] = "asking"]
  /\ lastAuth' = NoVerdict
  /\ seen' = [p \in Files |-> {Version(p, disk[p], written[p].again)}]
  /\ UNCHANGED <<diskVars, dir, cacheVars, accessVars, since, written>>

(* Seeded fault: the verdict is returned and not remembered.               *)
AnswerForgets(verdict) ==
  /\ since' = [w \in Workers |->
                 IF w = owner THEN {verdict}
                 ELSE IF state[w] = "answered" THEN since[w] \cup {verdict}
                 ELSE since[w]]
  /\ state' = [state EXCEPT ![owner] = "answered"]
  /\ owner' = None /\ pc' = "free" /\ dir' = None /\ request' = None
  /\ seen' = [p \in Files |-> {}]
  /\ UNCHANGED lastAuth

(* The end of the call: m_lastAuth is set, the lock is released. since[w]  *)
(* collects the verdicts from w's own on, until w has fetched one.         *)
Answer(verdict) ==
  /\ lastAuth' = verdict
  /\ since' = [w \in Workers |->
                 IF w = owner THEN {verdict}
                 ELSE IF state[w] = "answered" THEN since[w] \cup {verdict}
                 ELSE since[w]]
  /\ state' = [state EXCEPT ![owner] = "answered"]
  /\ owner' = None /\ pc' = "free" /\ dir' = None /\ request' = None
  /\ seen' = [p \in Files |-> {}]

Unidentified == NoVerdict
Denied  == [user |-> request.user, authorized |-> FALSE]
Granted == [user |-> request.user, authorized |-> TRUE]

Goto(label, d) ==
  /\ pc' = label /\ dir' = d
  /\ UNCHANGED <<owner, request, state, lastAuth, since, seen>>

(* RefreshIfNeeded: Exists. *)
PasswdExists ==
  /\ pc = "exists"
  /\ fileHandle' = AfterExists(fileHandle, disk[Passwd])
  /\ IF Exists(fileHandle, disk[Passwd])
       THEN Goto(IF loaded THEN "modified" ELSE "load", dir)
       ELSE Answer(Unidentified)
  /\ UNCHANGED <<diskVars, loaded, entries, accessVars, written>>

(* RefreshIfNeeded: IsModified. *)
PasswdModified ==
  /\ pc = "modified"
  /\ fileHandle' = AfterIsModified(fileHandle, disk[Passwd])
  /\ Goto(IF IsModified(fileHandle, disk[Passwd]) THEN "load" ELSE "check", dir)
  /\ UNCHANGED <<diskVars, loaded, entries, accessVars, written>>

(* LoadEntries. Its own Exists is always answered from the cache.          *)
LoadEntries ==
  /\ pc = "load"
  /\ IF fileHandle.exists
       THEN /\ entries' = IF Opens(fileHandle, disk[Passwd])
                            THEN disk[Passwd].users ELSE {}
            /\ fileHandle' = AfterReading(fileHandle, disk[Passwd])
            /\ loaded' = TRUE
            /\ Goto("check", dir)
       ELSE /\ Answer(Unidentified)
            /\ UNCHANGED cacheVars
  /\ UNCHANGED <<diskVars, accessVars, written>>

(* The header, then CheckCredentials against the loaded entries. *)
CheckCredentials ==
  /\ pc = "check"
  /\ \/ request.header = "bad" /\ Answer(Unidentified)
     \/ /\ request.header = "basic"
        /\ request.user \notin entries
        /\ Answer(Denied)
     \/ /\ request.header = "basic"
        /\ request.user \in entries
        /\ Goto("find", request.dir)
  /\ UNCHANGED <<diskVars, cacheVars, accessVars, written>>

(* FindAccessFile: one candidate of the walk towards the root, from the    *)
(* directory that is asked for, or that of the file. When there is none,   *)
(* RefreshAccessList forgets the list it had. No candidate at all is there *)
(* for an empty path, which httpd passes where the settings know no place  *)
(* or no type (httpd.cpp:238). A path with no slash, which ends the search *)
(* too, cannot come from there: the place ends in one.                     *)
FindAccessFile ==
  /\ pc = "find"
  /\ IF dir # None /\ There(disk[dir])
       THEN Goto("access", dir) /\ UNCHANGED accessVars
       ELSE IF dir # None /\ Parent[dir] # None
       THEN Goto("find", Parent[dir]) /\ UNCHANGED accessVars
       ELSE /\ accessFile' = None /\ accessHandle' = None
            /\ accessLoaded' = FALSE /\ accessUsers' = {}
            /\ Goto("allowed", dir)
  /\ UNCHANGED <<diskVars, cacheVars, written>>

(* Seeded fault: the list of another directory still counts as loaded.     *)
AccessExistsKeepsList ==
  /\ pc = "access"
  /\ LET same   == accessFile = dir
         handle == IF same THEN AfterExists(accessHandle, disk[dir])
                           ELSE NewFile(disk[dir])
     IN  /\ accessFile' = dir
         /\ accessHandle' = handle
         /\ IF handle.exists
              THEN Goto(IF accessLoaded THEN "accessModified" ELSE "accessLoad", dir)
              ELSE Answer(Denied)
  /\ UNCHANGED <<diskVars, cacheVars, accessLoaded, accessUsers, written>>

(* RefreshAccessList: another file than last time gets a new handle, whose *)
(* constructor looks; the handle in use is asked for Exists.               *)
AccessExists ==
  /\ pc = "access"
  /\ LET same   == accessFile = dir
         handle == IF same THEN AfterExists(accessHandle, disk[dir])
                           ELSE NewFile(disk[dir])
         fresh  == ~same \/ ~accessLoaded
     IN  /\ accessFile' = dir
         /\ accessHandle' = handle
         /\ accessLoaded' = ~fresh
         /\ IF handle.exists
              THEN Goto(IF fresh THEN "accessLoad" ELSE "accessModified", dir)
              ELSE Answer(Denied)
  /\ UNCHANGED <<diskVars, cacheVars, accessUsers, written>>

AccessModified ==
  /\ pc = "accessModified"
  /\ accessHandle' = AfterIsModified(accessHandle, disk[dir])
  /\ Goto(IF IsModified(accessHandle, disk[dir]) THEN "accessLoad" ELSE "allowed", dir)
  /\ UNCHANGED <<diskVars, cacheVars, accessFile, accessLoaded, accessUsers,
                 written>>

(* LoadAccessList. *)
LoadAccessList ==
  /\ pc = "accessLoad"
  /\ IF accessHandle.exists
       THEN /\ accessUsers' = IF Opens(accessHandle, disk[dir])
                                THEN disk[dir].users ELSE {}
            /\ accessHandle' = AfterReading(accessHandle, disk[dir])
            /\ accessLoaded' = TRUE
            /\ Goto("allowed", dir)
       ELSE /\ Answer(Denied)
            /\ UNCHANGED <<accessUsers, accessHandle, accessLoaded>>
  /\ UNCHANGED <<diskVars, cacheVars, accessFile, written>>

IsUserAllowed(u) ==
  IF accessUsers = {} THEN accessFile = None ELSE u \in accessUsers

Decide ==
  /\ pc = "allowed"
  /\ Answer(IF IsUserAllowed(request.user) THEN Granted ELSE Denied)
  /\ UNCHANGED <<diskVars, cacheVars, accessVars, written>>

(***************************************************************************)
(* ProcessClient, after its IsAuthorized: GetLastResult takes the lock     *)
(* anew, and LogAuthResult writes what it got.                             *)
(***************************************************************************)
GetLastResult(w) ==
  /\ owner = None /\ state[w] = "answered"
  /\ state' = [state EXCEPT ![w] = "idle"]
  /\ since' = [since EXCEPT ![w] = {}]
  /\ UNCHANGED <<diskVars, owner, pc, dir, request, lastAuth, cacheVars,
                 accessVars, seen, written>>

IsAuthorizedStep ==
  \/ PasswdExists \/ PasswdModified \/ LoadEntries \/ CheckCredentials
  \/ FindAccessFile \/ AccessExists \/ AccessModified \/ LoadAccessList
  \/ Decide

Next ==
  \/ Tick \/ Editor
  \/ \E w \in Workers : \/ \E r \in Requests : Call(w, r)
                        \/ GetLastResult(w)
  \/ IsAuthorizedStep

Spec == Init /\ [][Next]_vars

-----------------------------------------------------------------------------
(* The content in use is one the path held during this call, or one that   *)
(* its modification time did not tell from it.                             *)
Current(p, users) == \E v \in seen[p] : v.held = users \/ v.again
Missed(p)         == \E v \in seen[p] : v.held = Absent

(* d and the directories above it: what every set with d in it, and with   *)
(* the parents of its directories, has in common.                          *)
Upwards(d) ==
  {x \in Dirs :
     \A S \in SUBSET Dirs :
       d \in S /\ (\A y \in S : Parent[y] # None => Parent[y] \in S) => x \in S}

Justified ==
  /\ request.header = "basic"
  /\ request.user \in entries /\ Current(Passwd, entries)
  /\ IF accessFile = None
       THEN request.dir = None \/ \A d \in Upwards(request.dir) : Missed(d)
       ELSE /\ accessFile \in Upwards(request.dir)
            /\ \A d \in Upwards(request.dir) \ Upwards(accessFile) : Missed(d)
            /\ request.user \in accessUsers /\ Current(accessFile, accessUsers)

(* A request is granted only for credentials in a version of the password  *)
(* file, and by a version of the nearest .htaccess file (or the absence of *)
(* any), that were there while the call ran: whatever was cached for other *)
(* requests and other directories, and however files are edited, deleted   *)
(* and restored meanwhile. Only two edits in one second escape the caches. *)
(* An empty path is granted for credentials alone; nothing is served then. *)
GrantsAreJustified ==
  [][owner # None /\ owner' = None /\ lastAuth'.authorized => Justified]_vars

(* What a worker logs for its request is its own verdict or that of a      *)
(* request decided after it, never an older one or one still being made.   *)
LogsOwnOrLaterVerdict ==
  [][\A w \in Workers :
       state[w] = "answered" /\ state'[w] = "idle" => lastAuth \in since[w]]_vars
=============================================================================
