------------------------------ MODULE HttpRead ------------------------------
(***************************************************************************)
(* HttpRequest::Read (code/utils/HttpRequest.cpp), with what it calls of   *)
(* Tokens and Socket, over one connection. The peer sends one request, in  *)
(* pieces of any size and with any delay, and may stop or close at any     *)
(* byte. A step of the reader is one look at the socket (Socket::Peek with *)
(* its Read, or one Socket::Read of the body) or the parsing of one line.  *)
(* The range that a RANGE field asks for is left to HttpRange.             *)
(***************************************************************************)
EXTENDS Integers, SequencesExt

CONSTANTS Requests,      \* what the peer may send: see Wire
          Upper,         \* function: a byte in upper case
          Digit,         \* function: the value of the bytes that are digits
          ContentLength, \* the key CONTENT-LENGTH, a sequence of bytes
          MAXBUFFERLEN,  \* room in the line buffer, and most body bytes kept
          MaxLong,       \* the greatest long long (2^63 - 1)
          MaxFields,     \* header fields kept (100 in the code)
          Patience       \* looks at an empty socket allowed (10 in the code)

Bytes == DOMAIN Upper
Text  == Bytes \ {"CR", "LF"} \* what a line is made of
Words == Seq(Text \ {" "})

ASSUME ReadAssumption ==
  /\ MAXBUFFERLEN \in Nat \ {0} /\ MaxFields \in Nat /\ Patience \in Nat \ {0}
  /\ MaxLong \in Nat
  /\ {" ", ":", "CR", "LF"} \subseteq Bytes
  /\ Digit \in [DOMAIN Digit -> 0..9]
  /\ \A r \in Requests :
       /\ r.method \in Words \ {<< >>} /\ r.uri \in Words /\ r.version \in Words
       /\ r.fields \in Seq([key : Seq(Text \ {":"}), value : Seq(Text)])
       /\ r.body \in Seq(Bytes)

VARIABLES
  request,  \* what the peer sends
  stream,   \* the bytes of that
  arrived,  \* how many of its bytes have reached this host
  closed,   \* the peer closed its side
  taken,    \* how many bytes the reader took from the socket
  valid,    \* Socket::m_valid
  again,    \* errno is EAGAIN
  pc,       \* where the reader is
  timeout, count, recvb,                    \* locals of Read
  method, uri, version, meta, length, body, \* members of the HttpRequest
  torn      \* history: a line was taken that was not whole

netVars    == <<request, stream, arrived, closed>>
parsedVars == <<method, uri, version, meta, length, body, count>>
readVars == <<netVars, taken, valid, again, pc, timeout, recvb, parsedVars, torn>>

-----------------------------------------------------------------------------
(* What a client puts on the wire for a request.                           *)
FieldLine(f) == f.key \o <<":">> \o f.value \o <<"CR", "LF">>

Wire(r) ==
  r.method \o <<" ">> \o r.uri \o <<" ">> \o r.version \o <<"CR", "LF">>
    \o FlattenSeq([i \in DOMAIN r.fields |-> FieldLine(r.fields[i])])
    \o <<"CR", "LF">> \o r.body

Avail == arrived > taken
Byte  == stream[taken + 1]

(* Tokens::MakeUpper and Tokens::TrimSpace. *)
MakeUpper(s) == [i \in DOMAIN s |-> Upper[s[i]]]
TrimSpace(s) ==
  LET ink == {i \in DOMAIN s : s[i] \notin {" ", "TAB"}}
  IN  IF ink = {} THEN << >> ELSE SubSeq(s, Min(ink), Max(ink))

(* Tokens::GetToken with a delimiter, of a line in a Buffer: the token and *)
(* what is left. It answers Delineated even when the line is used up.      *)
Token(s, delim) ==
  LET at == Min({i \in DOMAIN s : s[i] = delim} \cup {Len(s) + 1})
  IN  [token |-> SubSeq(s, 1, at - 1), rest |-> SubSeq(s, at + 1, Len(s))]

(* Tokens::IsNumber: digits, and a sign in front of them or none.          *)
Unsigned(s) == IF s # << >> /\ Head(s) \in {"+", "-"} THEN Tail(s) ELSE s
IsNumber(s) ==
  Unsigned(s) # << >> /\ \A i \in DOMAIN Unsigned(s) : Unsigned(s)[i] \in DOMAIN Digit

Magnitude(s) ==
  LET sum[n \in 0..Len(s)] == IF n = 0 THEN 0 ELSE 10 * sum[n - 1] + Digit[s[n]]
  IN  sum[Len(s)]

(* What stoll makes of a number, put into an unsigned word of twice its    *)
(* range and cut to MAXBUFFERLEN: a negative number is cut like a great    *)
(* one. stoll throws at what it cannot hold.                               *)
LengthOf(s) ==
  LET size  == Magnitude(Unsigned(s))
      value == IF Head(s) = "-" THEN -size ELSE size
  IN  IF IsNumber(s) /\ -(MaxLong + 1) <= value /\ value <= MaxLong
        THEN Min({value % (2 * (MaxLong + 1)), MAXBUFFERLEN})
        ELSE 0

Labels == {"line", "strip", "parse", "body", "done"}

ReadTypeOK ==
  /\ request \in Requests
  /\ taken \in 0..arrived /\ arrived \in 0..Len(stream)
  /\ {closed, valid, again, torn} \subseteq BOOLEAN
  /\ pc \in Labels
  /\ timeout \in 0..Patience /\ count \in 0..MaxFields
  /\ Len(recvb) <= MAXBUFFERLEN
  /\ Len(meta) <= count /\ length \in 0..MAXBUFFERLEN /\ Len(body) <= length

ReadInit ==
  /\ request \in Requests /\ stream = Wire(request)
  /\ arrived = 0 /\ closed = FALSE /\ taken = 0
  /\ valid = TRUE /\ again = FALSE
  /\ pc = "line" /\ timeout = Patience /\ count = 0 /\ recvb = << >>
  /\ method = << >> /\ uri = << >> /\ version = << >>
  /\ meta = << >> /\ length = 0 /\ body = << >>
  /\ torn = FALSE

-----------------------------------------------------------------------------
Arrive ==
  /\ ~closed /\ arrived < Len(stream)
  /\ arrived' = arrived + 1
  /\ UNCHANGED <<request, stream, closed, taken, valid, again, pc, timeout, recvb,
                 parsedVars, torn>>

PeerCloses ==
  /\ ~closed
  /\ closed' = TRUE
  /\ UNCHANGED <<request, stream, arrived, taken, valid, again, pc, timeout, recvb,
                 parsedVars, torn>>

(* recv found nothing. An open peer makes it EAGAIN; a closed one makes it *)
(* return 0 and leaves errno alone, so that the socket is shut down only   *)
(* if no earlier recv on this thread left EAGAIN there.                    *)
RecvNothing ==
  /\ ~Avail
  /\ again' = (again \/ ~closed)
  /\ valid' = again'
  /\ UNCHANGED <<netVars, taken>>

Take(n) ==
  /\ taken' = taken + n
  /\ UNCHANGED <<netVars, valid, again>>

(* The head of the outer loop, which clears the buffer. *)
Continue(patience) ==
  /\ timeout' = patience
  /\ recvb' = << >>
  /\ pc' = IF valid' /\ patience > 0 THEN "line" ELSE "done"

-----------------------------------------------------------------------------
(* Tokens::GetLine( *a_socket, *recvb ).                                   *)
GetByte ==
  /\ pc = "line" /\ Avail /\ Byte \notin {"CR", "LF"}
  /\ Take(1)
  /\ IF Len(recvb) < MAXBUFFERLEN
       THEN recvb' = Append(recvb, Byte) /\ UNCHANGED <<pc, torn>>
       ELSE pc' = "parse" /\ torn' = TRUE /\ UNCHANGED recvb
  /\ UNCHANGED <<timeout, parsedVars>>

GetEnd ==
  /\ pc = "line" /\ Avail /\ Byte \in {"CR", "LF"}
  /\ Take(1)
  /\ pc' = IF Byte = "CR" THEN "strip" ELSE "parse"
  /\ UNCHANGED <<timeout, recvb, parsedVars, torn>>

(* Seeded fault: the line feed is looked at and not taken.                 *)
StripNothing ==
  /\ pc = "strip"
  /\ \/ Avail /\ Take(0) /\ UNCHANGED torn
     \/ RecvNothing /\ torn' = TRUE
  /\ pc' = "parse"
  /\ UNCHANGED <<timeout, recvb, parsedVars>>

(* The line feed after a carriage return, if it is there already. *)
StripNewLine ==
  /\ pc = "strip"
  /\ \/ Avail /\ Take(IF Byte = "LF" THEN 1 ELSE 0) /\ UNCHANGED torn
     \/ RecvNothing /\ torn' = TRUE
  /\ pc' = "parse"
  /\ UNCHANGED <<timeout, recvb, parsedVars>>

(* A line that runs dry is a Line all the same, unless it is empty. *)
LineRunsDry ==
  /\ pc = "line" /\ recvb # << >>
  /\ RecvNothing
  /\ pc' = "parse" /\ torn' = TRUE
  /\ UNCHANGED <<timeout, recvb, parsedVars>>

(* Seeded fault: an empty look at the socket costs no patience.            *)
NoLineForever ==
  /\ pc = "line" /\ recvb = << >>
  /\ RecvNothing
  /\ Continue(timeout)
  /\ UNCHANGED <<parsedVars, torn>>

NoLine ==
  /\ pc = "line" /\ recvb = << >>
  /\ RecvNothing
  /\ Continue(timeout - 1)
  /\ UNCHANGED <<parsedVars, torn>>

-----------------------------------------------------------------------------
(* One line, taken apart.                                                  *)
BlankLine ==
  /\ pc = "parse" /\ recvb = << >>
  /\ IF length > 0 THEN pc' = "body" /\ timeout' = Patience
                   ELSE pc' = "done" /\ UNCHANGED timeout
  /\ UNCHANGED <<netVars, taken, valid, again, recvb, parsedVars, torn>>

RequestLine ==
  /\ pc = "parse" /\ recvb # << >> /\ method = << >>
  /\ LET first  == Token(recvb, " ")
         second == Token(first.rest, " ")
         third  == Token(second.rest, " ")
     IN  /\ method' = MakeUpper(first.token)
         /\ uri' = second.token
         /\ version' = MakeUpper(third.token)
  /\ UNCHANGED <<netVars, taken, valid, again, meta, length, body, count, torn>>
  /\ Continue(timeout)

(* A field beyond the last one kept, or with nothing after its colon, ends *)
(* the reading. The latter is counted and not stored.                      *)
Field ==
  /\ pc = "parse" /\ recvb # << >> /\ method # << >>
  /\ UNCHANGED <<netVars, taken, valid, again, method, uri, version, body, torn>>
  /\ count' = Min({count + 1, MaxFields})
  /\ LET key   == MakeUpper(TrimSpace(Token(recvb, ":").token))
         value == Token(recvb, ":").rest
     IN  IF count < MaxFields /\ value # << >>
           THEN /\ meta' = Append(meta, [key |-> key, value |-> TrimSpace(value)])
                /\ length' = IF key = ContentLength THEN LengthOf(TrimSpace(value))
                                                    ELSE length
                /\ Continue(timeout)
           ELSE /\ pc' = "done"
                /\ UNCHANGED <<timeout, recvb, meta, length>>

-----------------------------------------------------------------------------
(* Seeded fault: everything that was read is taken for the body.           *)
BodyReadUncut ==
  /\ pc = "body" /\ Avail
  /\ LET n    == Min({arrived - taken, MAXBUFFERLEN})
         all  == body \o SubSeq(stream, taken + 1, taken + n)
     IN  /\ Take(n)
         /\ body' = all
         /\ pc' = IF Len(all) >= length THEN "done" ELSE "body"
  /\ UNCHANGED <<timeout, recvb, method, uri, version, meta, length, count, torn>>

(* Seeded fault: one byte more than announced is waited for.               *)
BodyReadOneMore ==
  /\ pc = "body" /\ Avail
  /\ LET n    == Min({arrived - taken, MAXBUFFERLEN})
         all  == body \o SubSeq(stream, taken + 1, taken + n)
     IN  /\ Take(n)
         /\ body' = SubSeq(all, 1, Min({Len(all), length}))
         /\ pc' = IF Len(all) > length THEN "done" ELSE "body"
  /\ UNCHANGED <<timeout, recvb, method, uri, version, meta, length, count, torn>>

(* Seeded fault: what is read replaces what was there.                     *)
BodyReadReplaces ==
  /\ pc = "body" /\ Avail
  /\ LET n    == Min({arrived - taken, MAXBUFFERLEN})
         all  == SubSeq(stream, taken + 1, taken + n)
     IN  /\ Take(n)
         /\ body' = SubSeq(all, 1, Min({Len(all), length}))
         /\ pc' = IF Len(all) >= length THEN "done" ELSE "body"
  /\ UNCHANGED <<timeout, recvb, method, uri, version, meta, length, count, torn>>

(* The body: Socket::Read into the whole buffer.                           *)
BodyRead ==
  /\ pc = "body" /\ Avail
  /\ LET n    == Min({arrived - taken, MAXBUFFERLEN})
         all  == body \o SubSeq(stream, taken + 1, taken + n)
     IN  /\ Take(n)
         /\ body' = SubSeq(all, 1, Min({Len(all), length}))
         /\ pc' = IF Len(all) >= length THEN "done" ELSE "body"
  /\ UNCHANGED <<timeout, recvb, method, uri, version, meta, length, count, torn>>

(* Read answers Valid(), not whether it read: only a socket that was shut  *)
(* down costs patience, and then IsReadable ends the loop at once.         *)
BodyRunsDry ==
  /\ pc = "body"
  /\ RecvNothing
  /\ IF valid' THEN UNCHANGED <<pc, timeout>>
               ELSE pc' = "done" /\ timeout' = timeout - 1
  /\ UNCHANGED <<recvb, parsedVars, torn>>

-----------------------------------------------------------------------------
Reader ==
  \/ GetByte \/ GetEnd \/ StripNewLine \/ LineRunsDry \/ NoLine
  \/ BlankLine \/ RequestLine \/ Field
  \/ BodyRead \/ BodyRunsDry

ReadNext == Arrive \/ PeerCloses \/ Reader

ReadSpec == ReadInit /\ [][ReadNext]_readVars

(* The reader's thread runs; the peer need not send, nor close.            *)
ReadFairSpec == ReadSpec /\ WF_readVars(Reader)

-----------------------------------------------------------------------------
TimedOut == timeout = 0
Result   == ~TimedOut /\ << >> \notin {method, uri, version}

Sent(f) == [key |-> MakeUpper(TrimSpace(f.key)), value |-> TrimSpace(f.value)]

(* Read keeps at most MaxFields fields and stops at one with no value; and *)
(* a peer that announces more than it has leaves the body short. A length  *)
(* that is negative announces the most that is kept, one out of range (and *)
(* what is no number) nothing: see LengthOf.                               *)
Clean(r) ==
  /\ << >> \notin {r.uri, r.version}
  /\ Len(r.fields) <= MaxFields
  /\ \A i \in DOMAIN r.fields :
       /\ r.fields[i].value # << >>
       /\ Sent(r.fields[i]).key = ContentLength =>
            LengthOf(Sent(r.fields[i]).value) <= Len(r.body)

(* However the bytes trickle in, and wherever the peer stops or closes: if *)
(* every line was whole when it was taken, what a successful Read stored   *)
(* is the request line that was sent, the first of its fields and the      *)
(* first of its body: never a piece of one part in another.                *)
UntornIsGenuine ==
  pc = "done" /\ Result /\ ~torn =>
    /\ method = MakeUpper(request.method)
    /\ uri = request.uri
    /\ version = MakeUpper(request.version)
    /\ IsPrefix(meta, [i \in DOMAIN request.fields |-> Sent(request.fields[i])])
    /\ IsPrefix(body, request.body)

(* Such a Read is also complete, if the peer sent all it meant to and      *)
(* announced no more than that, as Read takes the announcement: it ends    *)
(* with every field, and with as much of the body as was announced.        *)
UntornIsComplete ==
  pc = "done" /\ ~torn /\ ~TimedOut /\ Clean(request)
    /\ (closed => arrived = Len(stream)) =>
    /\ Result
    /\ Len(meta) = Len(request.fields)
    /\ Len(body) = length

(* A peer that sends nothing, or nothing more, holds up the request line   *)
(* and the fields for a bounded number of looks only.                      *)
HeaderEnds == (pc \notin {"body", "done"}) ~> (pc \in {"body", "done"})

(* Once the announced body has arrived, Read returns, however it was cut   *)
(* and whatever errno said before.                                         *)
BodyEndsWhenSent ==
  (pc = "body" /\ Len(body) + arrived - taken >= length) ~> (pc = "done")

(* HttpRequest.hpp:131: "The request may be partial if a timeout occurs",  *)
(* and :130: "True if a request was successfully parsed". Without a        *)
(* timeout, and with nothing cut short by the peer, success then means     *)
(* that the fields stored are the fields sent.                             *)
PartialOnlyOnTimeout ==
  pc = "done" /\ Result /\ Clean(request) /\ ~closed =>
    Len(meta) = Len(request.fields)
=============================================================================
