---------------------------- MODULE HttpRespond ----------------------------
(***************************************************************************)
(* HttpRequest::Respond (code/utils/HttpRequest.cpp) with its File: which  *)
(* status it answers, what length it announces, and which bytes of the     *)
(* file it then sends, while others change the file and the peer goes      *)
(* away. A byte of the file is its offset. One step is one read of the     *)
(* file with the sending of what it read.                                  *)
(***************************************************************************)
EXTENDS HttpRange, FiniteSets

CONSTANTS Requests,     \* what Read may leave behind: see the MC module
          MaxSize,      \* sizes of files, and of internal responses
          MAXBUFFERLEN, \* bytes read at once
          MaxEdits      \* bound: changes to the file while it is served

ASSUME RespondAssumption ==
  /\ MaxSize \in Nat /\ MAXBUFFERLEN \in Nat \ {0} /\ MaxEdits \in Nat
  /\ \A r \in Requests : /\ r.response \in 0..MaxSize
                         /\ r.range.start \in Int /\ r.range.end \in Int
                         /\ r.tokens \in Seq([type : STRING, value : Nat])
                         /\ r.range = ParseRange(r.tokens)

VARIABLES
  request,  \* the members of the HttpRequest, and Respond's arguments
  kind,     \* what the file name denotes: "absent", "file" or "dir"
  readable, \* fopen will succeed
  size,     \* the file's size on the disk
  edits,    \* history: how often that was changed
  valid,    \* Socket::m_valid
  pc, status,
  announced, \* [from, to]: the bytes that the header promises
  cached,   \* File::m_cachedStat.st_size; Unknown after Open threw it away
  opened,   \* File::m_file is not null
  position, \* ftell of that
  eof,      \* feof of that
  sent      \* the body sent so far

diskVars  == <<kind, readable, size, edits>>
fileVars  == <<cached, opened, position, eof>>
replyVars == <<status, announced>>
vars == <<request, diskVars, valid, pc, replyVars, fileVars, sent>>

Sizes   == 0..MaxSize
Unknown == -1
Nothing == [from |-> 0, to |-> -1]
Offsets(f) == [i \in 1..(f.to - f.from + 1) |-> f.from + i - 1]

Labels == {"decide", "header", "seek", "part", "whole", "response", "listing", "done"}

TypeOK ==
  /\ request \in Requests
  /\ kind \in {"absent", "file", "dir"}
  /\ {readable, valid, opened, eof} \subseteq BOOLEAN
  /\ size \in Sizes /\ edits \in 0..MaxEdits
  /\ pc \in Labels
  /\ status \in {0, 200, 206, 404, 405, 408, 416}
  /\ announced.from >= 0 /\ announced.to < MaxSize
  /\ cached \in Sizes \cup {Unknown}
  /\ position \in Sizes
  /\ Len(sent) <= MaxSize

(* The File is constructed and has looked at the disk. *)
Init ==
  /\ request \in Requests
  /\ kind \in {"absent", "file", "dir"}
  /\ readable \in BOOLEAN
  /\ size \in IF kind = "file" THEN Sizes ELSE {0}
  /\ edits = 0
  /\ valid = TRUE
  /\ pc = "decide" /\ status = 0 /\ announced = Nothing
  /\ cached = size /\ opened = FALSE /\ position = 0 /\ eof = FALSE
  /\ sent = << >>

-----------------------------------------------------------------------------
(* Another process appends to the file or truncates it.                    *)
Edit(n) ==
  /\ kind = "file" /\ pc # "done" /\ edits < MaxEdits
  /\ size' = n /\ n # size
  /\ edits' = edits + 1
  /\ UNCHANGED <<request, kind, readable, valid, pc, replyVars, fileVars, sent>>

-----------------------------------------------------------------------------
(* The conditions that Respond tries in turn.                              *)
Fetches       == request.method \in {"HEAD", "GET"}
ServerOptions == request.method = "OPTIONS" /\ request.star
Missing ==
  /\ Fetches \/ request.method = "OPTIONS"
  /\ ~ServerOptions /\ kind = "absent" /\ request.response = 0
TimedOut == request.timeout \/ request.version = "none"
Options  == request.method = "OPTIONS" /\ request.version = "known"
Content ==
  /\ kind = "file" \/ request.response > 0
  /\ Fetches /\ request.version = "known"
Listing ==
  /\ request.list /\ kind = "dir"
  /\ Fetches /\ request.version = "known"
Partial == request.method = "GET" /\ request.range.sset /\ kind = "file"

Fitted == Fit(request.range, cached)

Empty(condition, code) ==
  [when |-> condition, code |-> code, slice |-> Nothing, next |-> "done"]

(* The answers in the order in which they are tried: the status, the bytes *)
(* that the header announces, and what is sent after it.                   *)
Replies == <<
  Empty(Missing, 404),
  Empty(TimedOut, 408),
  Empty(Options, 200),
  Empty(Content /\ ~request.typed, 404),
  Empty(Content /\ Partial /\ ~Satisfiable(Fitted, cached), 416),
  [when |-> Content /\ Partial, code |-> 206, slice |-> Fitted, next |-> "seek"],
  [when |-> Content, code |-> 200,
   slice |-> [from |-> 0,
              to   |-> (IF kind = "file" THEN cached ELSE request.response) - 1],
   next |-> IF request.method = "HEAD" THEN "done"
            ELSE IF kind = "file" THEN "whole" ELSE "response"],
  [when |-> Listing, code |-> 200, slice |-> Nothing,
   next |-> IF request.method = "HEAD" THEN "done" ELSE "listing"],
  Empty(TRUE, 405) >>

Reply == Replies[Min({i \in DOMAIN Replies : Replies[i].when})]

(* The header goes out, or finds the peer gone: Socket::Write then shuts   *)
(* the socket down.                                                        *)
Answer ==
  /\ pc = "decide"
  /\ status' = Reply.code /\ announced' = Reply.slice /\ pc' = Reply.next
  /\ valid' \in BOOLEAN
  /\ UNCHANGED <<request, diskVars, fileVars, sent>>

-----------------------------------------------------------------------------
(* File::Open, by the first Position, Seek or Read for which it succeeds.  *)
Opens == readable /\ ~opened

(* fread of at most n bytes, and the sending of what it got. A read that   *)
(* falls short is the last one to get anything; a send that fails has sent *)
(* a part.                                                                 *)
ReadAndSend(from, n) ==
  LET got == IF eof THEN 0 ELSE Min({n, Max({size - from, 0})})
  IN  /\ position' = from + got
      /\ eof' = (eof \/ got < n)
      /\ \E k \in 0..got :
           /\ sent' = sent \o [i \in 1..k |-> from + i - 1]
           /\ valid' = (valid /\ k = got)

(* GET of a whole file. Position opens the file if it can, which throws    *)
(* the cached size away; C++ leaves open whether Size is asked before or   *)
(* after. Their difference is unsigned: it is above zero unless they are   *)
(* equal, and Position answers -1 for a file that does not open.           *)
WholeStep ==
  /\ pc = "whole"
  /\ \E positionFirst \in BOOLEAN :
       LET fresh == IF cached = Unknown THEN size ELSE cached
           seen  == IF Opens /\ positionFirst THEN size ELSE fresh
           at    == IF opened \/ Opens THEN position ELSE -1
       IN  /\ cached' = IF Opens /\ ~positionFirst THEN Unknown ELSE seen
           /\ opened' = (opened \/ Opens)
           /\ IF seen # at /\ valid
                THEN /\ UNCHANGED pc
                     /\ IF at >= 0 THEN ReadAndSend(at, MAXBUFFERLEN)
                                   ELSE UNCHANGED <<position, eof, sent, valid>>
                ELSE pc' = "done" /\ UNCHANGED <<position, eof, sent, valid>>
  /\ UNCHANGED <<request, diskVars, replyVars>>

(* Seeded fault: the range is read from the start of the file.             *)
SeekStartForgets ==
  /\ pc = "seek"
  /\ opened' = (opened \/ Opens)
  /\ cached' = IF Opens THEN Unknown ELSE cached
  /\ pc' = IF opened' THEN "part" ELSE "done"
  /\ UNCHANGED <<request, diskVars, valid, replyVars, position, eof, sent>>

(* GET of a range. *)
SeekStart ==
  /\ pc = "seek"
  /\ opened' = (opened \/ Opens)
  /\ cached' = IF Opens THEN Unknown ELSE cached
  /\ IF opened' THEN pc' = "part" /\ position' = announced.from
                ELSE pc' = "done" /\ UNCHANGED position
  /\ UNCHANGED <<request, diskVars, valid, replyVars, eof, sent>>

(* Seeded fault: the last read of a range fills the buffer.                *)
PartStepFull ==
  /\ pc = "part"
  /\ IF position < announced.to + 1 /\ valid
       THEN /\ ReadAndSend(position, MAXBUFFERLEN)
            /\ UNCHANGED pc
       ELSE pc' = "done" /\ UNCHANGED <<position, eof, sent, valid>>
  /\ UNCHANGED <<request, diskVars, replyVars, cached, opened>>

(* Seeded fault: the loop goes on at the end of the range.                 *)
PartStepOneMore ==
  /\ pc = "part"
  /\ IF position <= announced.to + 1 /\ valid
       THEN /\ ReadAndSend(position, Min({announced.to + 1 - position, MAXBUFFERLEN}))
            /\ UNCHANGED pc
       ELSE pc' = "done" /\ UNCHANGED <<position, eof, sent, valid>>
  /\ UNCHANGED <<request, diskVars, replyVars, cached, opened>>

PartStep ==
  /\ pc = "part"
  /\ IF position < announced.to + 1 /\ valid
       THEN /\ ReadAndSend(position, Min({announced.to + 1 - position, MAXBUFFERLEN}))
            /\ UNCHANGED pc
       ELSE pc' = "done" /\ UNCHANGED <<position, eof, sent, valid>>
  /\ UNCHANGED <<request, diskVars, replyVars, cached, opened>>

(* Content that httpd made up itself. *)
SendResponse ==
  /\ pc = "response"
  /\ \E k \in 0..request.response :
       /\ sent' = [i \in 1..k |-> i - 1]
       /\ valid' = (valid /\ k = request.response)
       /\ valid \/ k = 0
  /\ pc' = "done"
  /\ UNCHANGED <<request, diskVars, replyVars, fileVars>>

(* The index of a directory announces no length; its text is left out. *)
SendListing ==
  /\ pc = "listing"
  /\ valid' \in IF valid THEN BOOLEAN ELSE {FALSE}
  /\ pc' = "done"
  /\ UNCHANGED <<request, diskVars, replyVars, fileVars, sent>>

-----------------------------------------------------------------------------
Server == Answer \/ WholeStep \/ SeekStart \/ PartStep \/ SendResponse \/ SendListing

Next == Server \/ \E n \in Sizes : Edit(n)

Spec == Init /\ [][Next]_vars

(* The thread runs, and its peer takes what is sent or goes away. *)
FairSpec == Spec /\ WF_vars(Server)

-----------------------------------------------------------------------------
(* Of a range, only bytes that the header announced are sent, in order and *)
(* each once, even if the file shrinks and grows back in the middle.       *)
PartialStaysInside ==
  status = 206 => IsPrefix(sent, Offsets(announced))

(* If nobody touches the file and the peer stays, the body is exactly what *)
(* the header announced, so that the peer can tell where it ends.          *)
UntouchedIsExact ==
  pc = "done" /\ edits = 0 /\ valid /\ readable =>
    sent = IF request.method = "GET" THEN Offsets(announced) ELSE << >>

(* What a RANGE field in one of its three forms asks for, "bytes=a-b",     *)
(* "bytes=a-" and "bytes=-n", for any a and b and any n above zero.        *)
Ranges(tokens) == Len(tokens) \in {4, 5} /\ SubSeq(tokens, 1, 2) = <<Symbol("bytes"), Symbol("=")>>
Asked(tokens) ==
  LET t(i) == tokens[i + 2]
  IN  IF Len(tokens) = 5 THEN {i \in Sizes : i \in t(1).value..t(3).value}
      ELSE IF t(2).type = "-" THEN {i \in Sizes : i >= t(1).value}
      ELSE {i \in Sizes : i >= size - t(2).value}
Canonical(tokens) ==
  /\ Ranges(tokens)
  /\ LET form == [i \in 1..(Len(tokens) - 2) |-> tokens[i + 2].type]
     IN  \/ form \in {<<"num", "-", "num">>, <<"num", "-">>}
         \/ form = <<"-", "num">> /\ tokens[4].value > 0

(* The bytes announced for such a field are those of the file that it asks *)
(* for, and 416 is the answer only if there are none.                      *)
RangeIsAsAsked ==
  status \in {206, 416} /\ edits = 0 /\ Canonical(request.tokens) =>
    announced.from..announced.to = Asked(request.tokens) \cap 0..(size - 1)

(* Respond returns, from every state in which the file is left alone from  *)
(* then on and was not changed before.                                     *)
UntouchedReturns == [](readable /\ edits = 0) => <>(pc = "done")
=============================================================================
