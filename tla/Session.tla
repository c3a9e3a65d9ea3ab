------------------------------ MODULE Session ------------------------------
(***************************************************************************)
(* ProcessClient and LogAuthResult (code/httpd.cpp) as several threads run *)
(* them at once, over the objects they share: the LogFile, the IniFile and *)
(* the HttpAccess, each under its recursive mutex. A thread enters a       *)
(* mutex, does its work there and leaves; between two steps any other      *)
(* thread may run. What is logged under one hold of the logger is a block: *)
(* one line, or for a request its line and one per field. A line is        *)
(* written in pieces, and every piece opens, appends to and closes the     *)
(* file anew, which may fail without anyone noticing.                      *)
(***************************************************************************)
EXTENDS RecursiveLock, Sequences, FiniteSets

CONSTANTS Threads,        \* the threads, one client each
          PiecesPerLine,  \* calls of Log for one line; the last ends the line
          MaxLines,       \* lines of a request that is logged
          CallsSeen,      \* bound on the last calls of Log that are looked at
          MaxLost         \* bound on those among them whose fopen failed

ASSUME SessionAssumption ==
  /\ Nobody \notin Threads
  /\ PiecesPerLine \in Nat \ {0}
  /\ MaxLines \in Nat \ {0}
  /\ CallsSeen \in Nat \ {0}
  /\ MaxLost \in Nat

VARIABLES
  enabled,     \* HttpAccess::m_enabled, settled before the threads start
  at,          \* at[t]: where thread t is
  inside,      \* inside[t]: whether it holds the mutex of that place
  left,        \* left[t]: pieces of its block not yet handed to Log
  mime,        \* mime[t]: what the lookups said of the request
  authorized,  \* authorized[t]: the local variable
  mutex,       \* the shared objects' mutexes
  log          \* the last calls of Log, in order: the end of the file

vars == <<enabled, at, inside, left, mime, authorized, mutex, log>>

LogBlocks == {"connected", "request", "verdict", "internal", "response",
              "disconnected"}
Lookups   == {"path", "defaultPath", "document", "defaultDocument",
              "listing", "mime", "defaultMime"}
Checks    == {"authorize", "result", "refuse"}
Guarded   == LogBlocks \cup Lookups \cup Checks
Places    == Guarded \cup {"start", "read", "respond", "shutdown", "done"}
Objects   == {"logger", "settings", "access"}

Object(place) == IF place \in LogBlocks THEN "logger"
                 ELSE IF place \in Lookups THEN "settings" ELSE "access"

(* A piece, with the number of pieces of its block still to come, and      *)
(* whether it got into the file. No thread logs two blocks of one kind.    *)
Pieces == [by : Threads, block : LogBlocks, rest : Nat, written : BOOLEAN]

(* Seeded fault: the newline comes with the last piece but one.            *)
EndsLineEarly(piece) == piece.rest % PiecesPerLine = 1 % PiecesPerLine

(* The newline comes with the last piece of a line.                        *)
EndsLine(piece) == piece.rest % PiecesPerLine = 0

TypeOK ==
  /\ enabled \in BOOLEAN
  /\ at \in [Threads -> Places]
  /\ inside \in [Threads -> BOOLEAN]
  /\ left \in [Threads -> Nat]
  /\ mime \in [Threads -> {"cleared", "file", "internal"}]
  /\ authorized \in [Threads -> BOOLEAN]
  /\ mutex \in [Objects -> Mutexes(Threads)]
  /\ log \in Seq(Pieces) /\ Len(log) <= CallsSeen

Init ==
  /\ enabled \in BOOLEAN
  /\ at = [t \in Threads |-> "start"]
  /\ inside = [t \in Threads |-> FALSE]
  /\ left = [t \in Threads |-> 0]
  /\ mime = [t \in Threads |-> "cleared"]
  /\ authorized = [t \in Threads |-> TRUE]
  /\ mutex = [o \in Objects |-> Free]
  /\ log = <<>>

-----------------------------------------------------------------------------
(* Where a thread goes on when it leaves a mutex, and what it then knows:  *)
(* the type is forgotten where it is not looked at again, so is a verdict. *)
To(place, m, a) == [at |-> place, mime |-> m, authorized |-> a]

(* An authorized request is answered; one of type "internal" whose name is *)
(* not empty is logged first.                                              *)
Operate(m) ==
  {To("respond", "cleared", TRUE)} \cup
  (IF m = "internal" THEN {To("internal", "cleared", TRUE)} ELSE {})

(* The lookups are over.                                                   *)
Decide(m, a) == IF enabled THEN {To("authorize", m, a)} ELSE Operate(m)

(* Every ReadValue takes the mutex of the settings for itself, the default *)
(* is asked for when the particular value is missing.                      *)
AfterLookup(place, m, a) ==
  CASE place = "path"            -> {To("defaultPath", m, a), To("document", m, a)}
    [] place = "defaultPath"     -> {To("document", m, a)} \cup Decide(m, a)
    [] place = "document"        -> {To("defaultDocument", m, a), To("listing", m, a)}
    [] place = "defaultDocument" -> {To("listing", m, a)} \cup Decide(m, a)
    [] place = "listing"         -> {To("mime", m, a)} \cup Decide(m, a)
    [] place = "mime"            -> {To("defaultMime", m, a)} \cup
                                     Decide("file", a) \cup Decide("internal", a)
    [] place = "defaultMime"     -> Decide(m, a) \cup
                                     Decide("file", a) \cup Decide("internal", a)

AfterCheck(place, m, a) ==
  CASE place = "authorize" -> {To("result", m, b) : b \in BOOLEAN}
    [] place = "result"    -> {To("verdict", m, a)}
    [] place = "refuse"    -> {To("response", m, a)}

AfterBlock(place, m, a) ==
  CASE place = "connected"    -> {To("read", m, a)}
    [] place = "request"      -> {To("path", m, a)}
    [] place = "verdict"      -> IF a THEN Operate(m) ELSE {To("refuse", "cleared", TRUE)}
    [] place = "internal"     -> {To("respond", m, a)}
    [] place = "response"     -> {To("disconnected", m, a)}
    [] place = "disconnected" -> {To("shutdown", m, a)}

After(place, m, a) ==
  IF place \in LogBlocks THEN AfterBlock(place, m, a)
  ELSE IF place \in Lookups THEN AfterLookup(place, m, a)
  ELSE AfterCheck(place, m, a)

-----------------------------------------------------------------------------
Goes(t, place) == at' = [at EXCEPT ![t] = place]

(* The first checks: without a valid socket the thread is over.            *)
Start(t) ==
  /\ at[t] = "start"
  /\ \E valid \in BOOLEAN : Goes(t, IF valid THEN "connected" ELSE "done")
  /\ UNCHANGED <<enabled, inside, left, mime, authorized, mutex, log>>

(* Waits for the mutex of the place. A block begins with all its pieces.   *)
Enter(t) ==
  /\ at[t] \in Guarded /\ ~inside[t]
  /\ CanLock(mutex[Object(at[t])], t)
  /\ mutex' = [mutex EXCEPT ![Object(at[t])] = Locked(@, t)]
  /\ inside' = [inside EXCEPT ![t] = TRUE]
  /\ IF at[t] \in LogBlocks
       THEN \E lines \in 1..(IF at[t] = "request" THEN MaxLines ELSE 1) :
              left' = [left EXCEPT ![t] = lines * PiecesPerLine]
       ELSE UNCHANGED left
  /\ UNCHANGED <<enabled, at, mime, authorized, log>>

Newest(calls) == IF Len(calls) > CallsSeen THEN Tail(calls) ELSE calls

LostPieces == {i \in DOMAIN log : ~log[i].written}

(* LogFile::Log locks the logger once more, for the time of the call.      *)
Log(t) ==
  /\ at[t] \in LogBlocks /\ inside[t] /\ left[t] > 0
  /\ CanLock(mutex["logger"], t)
  /\ mutex' = [mutex EXCEPT !["logger"] = Unlocked(Locked(@, t))]
  /\ left' = [left EXCEPT ![t] = @ - 1]
  /\ \E written \in BOOLEAN :
       /\ ~written => Cardinality(LostPieces) < MaxLost
       /\ log' = Newest(Append(log, [by |-> t, block |-> at[t], rest |-> left[t] - 1,
                                     written |-> written]))
  /\ UNCHANGED <<enabled, at, inside, mime, authorized>>

(* The work under a mutex is done. RespondUnauthorized writes to the peer  *)
(* here; its answer is the first on the connection and fits the empty send *)
(* buffer, so it does not wait.                                            *)
Leave(t) ==
  /\ inside[t] /\ left[t] = 0
  /\ \E next \in After(at[t], mime[t], authorized[t]) :
       /\ Goes(t, next.at)
       /\ mime' = [mime EXCEPT ![t] = next.mime]
       /\ authorized' = [authorized EXCEPT ![t] = next.authorized]
  /\ mutex' = [mutex EXCEPT ![Object(at[t])] = Unlocked(@)]
  /\ inside' = [inside EXCEPT ![t] = FALSE]
  /\ UNCHANGED <<enabled, left, log>>

(* HttpRequest::Read comes back when the peer has sent enough, or too      *)
(* little for too long, or has left.                                       *)
ReadReturns(t) ==
  /\ at[t] = "read"
  /\ \E got \in BOOLEAN : Goes(t, IF got THEN "request" ELSE "disconnected")
  /\ UNCHANGED <<enabled, inside, left, mime, authorized, mutex, log>>

(* HttpRequest::Respond comes back when the peer has taken all, or left.   *)
RespondReturns(t) ==
  /\ at[t] = "respond"
  /\ Goes(t, "response")
  /\ UNCHANGED <<enabled, inside, left, mime, authorized, mutex, log>>

(* Shutdown, running = false, pthread_exit.                                *)
Finish(t) ==
  /\ at[t] = "shutdown"
  /\ Goes(t, "done")
  /\ UNCHANGED <<enabled, inside, left, mime, authorized, mutex, log>>

AllDone == (\A t \in Threads : at[t] = "done") /\ UNCHANGED vars

(* Seeded fault: the answer that refuses a client waits for its peer, with *)
(* the mutex of the HttpAccess held.                                       *)
RunsOrRefuses(t) ==
  Start(t) \/ Enter(t) \/ Log(t) \/ (at[t] # "refuse" /\ Leave(t)) \/ Finish(t)

(* The steps a thread takes by itself, when the kernel runs it.            *)
Runs(t) == Start(t) \/ Enter(t) \/ Log(t) \/ Leave(t) \/ Finish(t)

Next ==
  \/ \E t \in Threads :
       \/ Start(t) \/ Enter(t) \/ Log(t) \/ Leave(t) \/ Finish(t)
       \/ ReadReturns(t) \/ RespondReturns(t)
  \/ AllDone

(* The kernel runs every thread that can run; nothing is assumed of peers. *)
Spec == Init /\ [][Next]_vars /\ \A t \in Threads : WF_vars(Runs(t))

-----------------------------------------------------------------------------
SameBlock(p, q) == p.by = q.by /\ p.block = q.block

(* Between two pieces of one block lies no piece of another: the lines of  *)
(* a client, and the fields of its request, stand together (httpd.cpp:183, *)
(* HttpRequest.cpp:775), although every piece takes and frees the mutex.   *)
BlocksStayWhole ==
  \A i, j, k \in 1..Len(log) :
    i < j /\ j < k /\ SameBlock(log[i], log[k]) => SameBlock(log[i], log[j])

(* A line is continued by another block's words only if the piece that     *)
(* ends it was lost: LogFile::Log answered false and nobody looked.        *)
LinesEndUnlessLost ==
  \A i, j \in 1..Len(log) :
    /\ i < j /\ log[i].written /\ log[j].written
    /\ \A k \in (i + 1)..(j - 1) : ~log[k].written
    => \/ EndsLine(log[i]) \/ SameBlock(log[i], log[j])
       \/ \E k \in (i + 1)..(j - 1) : SameBlock(log[i], log[k]) /\ EndsLine(log[k])

(* A peer that neither sends nor takes keeps its own thread and no other:  *)
(* every thread comes to its end or waits for its own peer.                *)
OnlyOwnPeerWaitedFor ==
  \A t \in Threads : []<>(at[t] \in {"read", "respond", "done"})
=============================================================================
