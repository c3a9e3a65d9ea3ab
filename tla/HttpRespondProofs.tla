------------------------- MODULE HttpRespondProofs -------------------------
(***************************************************************************)
(* HttpRequest::Respond for files of every size, buffers of every length,  *)
(* every range and every number of edits; and the links of its listings,   *)
(* for names of every length.                                              *)
(***************************************************************************)
EXTENDS HttpRespond, Coding, SequenceTheorems, WellFoundedInduction, TLAPS

(* Before the header nothing happened but a look at the file. *)
Undecided ==
  pc = "decide" => /\ status = 0 /\ announced = Nothing
                   /\ position = 0 /\ cached \in Sizes

(* What is announced lies in a file or response of the largest size; a     *)
(* range has bytes.                                                        *)
Announced ==
  /\ announced.from \in Nat /\ announced.to \in Int /\ announced.to + 1 \in Sizes
  /\ status = 206 => announced.from <= announced.to

(* k consecutive bytes of the file, and a sequence of such bytes. *)
Run(at, k)      == [i \in 1..k |-> at + i - 1]
Starts(s, from) == s = Run(from, Len(s))

(* The body so far: consecutive bytes from the first that was announced.   *)
InOrder ==
  /\ sent \in Seq(Nat)
  /\ Starts(sent, announced.from)
  /\ pc \in {"decide", "seek", "response", "listing"} => sent = << >>
  /\ status = 206 => Len(sent) <= announced.to - announced.from + 1

(* Only GET has a body. *)
OnlyGet ==
  pc \in {"seek", "part", "whole", "response", "listing"} => request.method = "GET"

(* While the peer is there, what was read of the file was sent. *)
InPart ==
  /\ pc = "seek" => status = 206
  /\ pc = "part" => /\ status = 206
                    /\ announced.from <= position /\ position <= announced.to + 1
                    /\ Len(sent) <= position - announced.from
                    /\ valid => Len(sent) = position - announced.from

InWhole ==
  pc = "whole" => /\ status = 200 /\ announced.from = 0
                  /\ Len(sent) <= position
                  /\ valid => Len(sent) = position
                  /\ edits = 0 => announced.to = size - 1

Made ==
  /\ pc = "response" => announced.from = 0 /\ announced.to = request.response - 1
  /\ pc = "listing" => announced = Nothing

(* A file that nobody touched has the size that was looked up. *)
Looked ==
  edits = 0 =>
    /\ cached \in {size, Unknown}
    /\ status = 206 => announced = Fit(request.range, size) /\ Satisfiable(announced, size)
    /\ status = 416 => announced = Nothing /\ ~Satisfiable(Fit(request.range, size), size)

IInv ==
  /\ TypeOK
  /\ Undecided
  /\ Announced
  /\ InOrder
  /\ OnlyGet
  /\ InPart
  /\ InWhole
  /\ Made
  /\ Looked
  /\ UntouchedIsExact

-----------------------------------------------------------------------------
(* A range that can be satisfied lies inside of the file. *)
LEMMA FitInside ==
  ASSUME NEW size0 \in Nat, NEW r, r.start \in Int, r.end \in Int,
         Satisfiable(Fit(r, size0), size0)
  PROVE  LET f == Fit(r, size0) IN
         f.from \in Nat /\ f.to \in Nat /\ f.from <= f.to /\ f.to < size0
BY DEF Fit, Satisfiable

(* The first of a few alternatives that is open. *)
LEMMA FirstOfNine ==
  ASSUME NEW S \in SUBSET (1..9), 9 \in S
  PROVE  Min(S) \in S /\ \A i \in S : Min(S) <= i
<1> SUFFICES \E x \in S : \A y \in S : x <= y
  BY DEF Min
<1>1. CASE 1 \in S BY <1>1
<1>2. CASE 1 \notin S /\ 2 \in S BY <1>2
<1>3. CASE 1 \notin S /\ 2 \notin S /\ 3 \in S BY <1>3
<1>4. CASE 1 \notin S /\ 2 \notin S /\ 3 \notin S /\ 4 \in S BY <1>4
<1>5. CASE 1 \notin S /\ 2 \notin S /\ 3 \notin S /\ 4 \notin S
  <2>1. S \subseteq 5..9
    BY <1>5
  <2>2. CASE 5 \in S BY <2>1, <2>2
  <2>3. CASE 5 \notin S /\ 6 \in S BY <2>1, <2>3
  <2>4. CASE 5 \notin S /\ 6 \notin S /\ 7 \in S BY <2>1, <2>4
  <2>5. CASE 5 \notin S /\ 6 \notin S /\ 7 \notin S /\ 8 \in S BY <2>1, <2>5
  <2>6. CASE 5 \notin S /\ 6 \notin S /\ 7 \notin S /\ 8 \notin S BY <2>1, <2>6
  <2> QED
    BY <2>2, <2>3, <2>4, <2>5, <2>6
<1> QED
  BY <1>1, <1>2, <1>3, <1>4, <1>5

(* What Respond answers: nothing but a status, a range of a file, a whole  *)
(* file or response, or an index.                                          *)
LEMMA ReplyIs ==
  LET empty == Reply.slice = Nothing /\ Reply.next = "done"
  IN  \/ empty /\ Reply.code \in {200, 404, 405, 408}
      \/ empty /\ Reply.code = 416 /\ Partial /\ ~Satisfiable(Fitted, cached)
      \/ /\ Reply.code = 206 /\ Reply.slice = Fitted /\ Reply.next = "seek"
         /\ Partial /\ Satisfiable(Fitted, cached)
      \/ /\ Reply.code = 200 /\ Content
         /\ Reply.slice = [from |-> 0, to |-> (IF kind = "file" THEN cached ELSE request.response) - 1]
         /\ Reply.next = IF request.method = "HEAD" THEN "done"
                         ELSE IF kind = "file" THEN "whole" ELSE "response"
      \/ /\ Reply.code = 200 /\ Listing /\ Reply.slice = Nothing
         /\ Reply.next = IF request.method = "HEAD" THEN "done" ELSE "listing"
<1> DEFINE S == {i \in DOMAIN Replies : Replies[i].when}
<1>1. DOMAIN Replies = 1..9
  BY DEF Replies
<1>2. S \in SUBSET (1..9) /\ 9 \in S
  BY <1>1 DEF Replies, Empty
<1>3. PICK i \in S : i = Min(S) /\ \A j \in S : i <= j
  BY <1>2, FirstOfNine
<1>4. Reply = Replies[i]
  BY <1>3 DEF Reply
<1>5. i \in 1..9 /\ Replies[i].when
  BY <1>1, <1>3
<1>6. CASE i \in {1, 2, 3, 4, 9}
  BY <1>4, <1>5, <1>6 DEF Replies, Empty
<1>7. CASE i = 5
  <2>1. Reply = Empty(Content /\ Partial /\ ~Satisfiable(Fitted, cached), 416)
    BY <1>4, <1>7 DEF Replies
  <2>2. Reply.when
    BY <1>4, <1>5
  <2>3. Partial /\ ~Satisfiable(Fitted, cached)
    BY <2>1, <2>2 DEF Empty
  <2> QED
    BY <2>1, <2>3 DEF Empty
<1>8. CASE i = 6
  <2>1. 5 \notin S
    <3> HIDE DEF S
    <3> QED
      BY <1>2, <1>3, <1>8
  <2>2. ~Replies[5].when
    BY <1>1, <2>1
  <2>3. Content /\ Partial
    BY <1>5, <1>8 DEF Replies
  <2>4. Satisfiable(Fitted, cached)
    BY <2>2, <2>3 DEF Replies, Empty
  <2> QED
    BY <1>4, <1>8, <2>3, <2>4 DEF Replies
<1>9. CASE i = 7
  BY <1>4, <1>5, <1>9 DEF Replies
<1>10. CASE i = 8
  BY <1>4, <1>5, <1>10 DEF Replies
<1> QED
  BY <1>5, <1>6, <1>7, <1>8, <1>9, <1>10
-----------------------------------------------------------------------------
LEMMA OfTwo ==
  ASSUME NEW a \in Int, NEW b \in Int
  PROVE  /\ Min({a, b}) = IF a <= b THEN a ELSE b
         /\ Max({a, b}) = IF a >= b THEN a ELSE b
BY DEF Min, Max

(* A run of consecutive bytes is a sequence. *)
LEMMA RunIs ==
  ASSUME NEW at \in Nat, NEW k \in Nat
  PROVE  /\ Run(at, k) \in Seq(Nat) /\ Len(Run(at, k)) = k
         /\ \A i \in 1..k : Run(at, k)[i] = at + i - 1
<1>1. \A i \in 1..k : at + i - 1 \in Nat
  OBVIOUS
<1> QED
  BY <1>1 DEF Run

(* Continued, it is one. *)
LEMMA Continued ==
  ASSUME NEW from \in Nat, NEW s \in Seq(Nat), Starts(s, from),
         NEW at, at = from + Len(s), NEW k \in Nat
  PROVE  /\ s \o Run(at, k) \in Seq(Nat)
         /\ Len(s \o Run(at, k)) = Len(s) + k
         /\ Starts(s \o Run(at, k), from)
<1> DEFINE r == Run(at, k)
           t == s \o r
<1>1. Len(s) \in Nat /\ at \in Nat
  BY LenProperties
<1>2. r \in Seq(Nat) /\ Len(r) = k /\ \A i \in 1..k : r[i] = at + i - 1
  BY <1>1, RunIs
<1> HIDE DEF r
<1>3. t \in Seq(Nat) /\ Len(t) = Len(s) + k
      /\ \A i \in 1..(Len(s) + k) : t[i] = IF i <= Len(s) THEN s[i] ELSE r[i - Len(s)]
  BY <1>2, ConcatProperties
<1> HIDE DEF t
<1>4. \A i \in 1..Len(s) : s[i] = from + i - 1
  BY DEF Starts, Run
<1>5. ASSUME NEW i \in 1..(Len(s) + k) PROVE t[i] = from + i - 1
  <2>1. CASE i <= Len(s)
    <3>1. t[i] = s[i]
      BY <1>3, <2>1
    <3>2. s[i] = from + i - 1
      BY <1>1, <1>4, <2>1
    <3> QED
      BY <3>1, <3>2
  <2>2. CASE ~(i <= Len(s))
    <3>1. i - Len(s) \in 1..k
      BY <1>1, <2>2
    <3> QED
      BY <1>1, <1>2, <1>3, <2>2, <3>1
  <2> QED
    BY <2>1, <2>2
<1>6. t = [i \in 1..Len(t) |-> t[i]]
  BY <1>3, LenProperties
<1>7. Starts(t, from)
  BY <1>3, <1>5, <1>6 DEF Starts, Run
<1> QED
  BY <1>3, <1>7 DEF t, r

(* One read of the file and the sending of what it got. *)
LEMMA ReadAndSendIs ==
  ASSUME TypeOK, InOrder, announced.from \in Nat, valid,
         NEW at, at = announced.from + Len(sent),
         NEW n \in Nat, ReadAndSend(at, n)
  PROVE  \E got \in 0..n, k \in 0..n :
           /\ k <= got /\ position' = at + got
           /\ got = 0 \/ at + got <= size
           /\ eof' \in BOOLEAN /\ valid' = (k = got)
           /\ sent' \in Seq(Nat) /\ Len(sent') = Len(sent) + k
           /\ Starts(sent', announced.from)
<1> DEFINE got == IF eof THEN 0 ELSE Min({n, Max({size - at, 0})})
<1>1. at \in Nat /\ size \in Nat /\ eof \in BOOLEAN
  BY RespondAssumption, LenProperties DEF TypeOK, Sizes, InOrder
<1> DEFINE left == size - at
           rest == Max({left, 0})
<1>2. rest = IF left >= 0 THEN left ELSE 0
  <2> DEFINE zero == 0
  <2>1. left \in Int /\ zero \in Int
    BY <1>1
  <2>2. rest = Max({left, zero})
    OBVIOUS
  <2> HIDE DEF left, zero, rest
  <2>3. rest = IF left >= zero THEN left ELSE zero
    BY <2>1, <2>2, OfTwo
  <2> QED
    BY <2>3 DEF zero
<1>3. rest \in Nat
  BY <1>1, <1>2
<1>4. Min({n, rest}) = IF n <= rest THEN n ELSE rest
  <2> HIDE DEF rest
  <2> QED
    BY <1>3, OfTwo
<1>5. got \in 0..n /\ (got = 0 \/ at + got <= size)
  BY <1>1, <1>2, <1>4
<1>6. position' = at + got /\ eof' \in BOOLEAN
      /\ \E k \in 0..got : sent' = sent \o Run(at, k) /\ valid' = (valid /\ k = got)
  BY DEF ReadAndSend, Run
<1> HIDE DEF got
<1>7. PICK k \in 0..got : sent' = sent \o Run(at, k) /\ valid' = (valid /\ k = got)
  BY <1>6
<1>8. k \in Nat /\ k \in 0..n /\ k <= got
  BY <1>5, <1>7
<1>9. sent' \in Seq(Nat) /\ Len(sent') = Len(sent) + k /\ Starts(sent', announced.from)
  <2>1. sent \in Seq(Nat) /\ Starts(sent, announced.from)
    BY DEF InOrder
  <2>2. sent' = sent \o Run(at, k)
    BY <1>7
  <2> QED
    BY <1>8, <2>1, <2>2, Continued
<1>10. valid' = (k = got)
  BY <1>7
<1> QED
  BY <1>5, <1>6, <1>8, <1>9, <1>10
-----------------------------------------------------------------------------
LEMMA InitIInv == Init => IInv
<1> SUFFICES ASSUME Init PROVE IInv
  OBVIOUS
<1>1. TypeOK
  <2>1. size \in Sizes /\ 0 \in Sizes /\ 0 \in 0..MaxEdits /\ MaxSize \in Nat
    BY RespondAssumption DEF Init, Sizes
  <2>2. sent = << >> /\ Len(sent) = 0
    BY EmptySeq DEF Init
  <2>3. Nothing.from >= 0 /\ Nothing.to < MaxSize
    BY <2>1 DEF Nothing
  <2> QED
    <3>1. {readable, valid, opened, eof} \subseteq BOOLEAN
      BY DEF Init
    <3>2. size \in Sizes /\ edits \in 0..MaxEdits /\ position \in Sizes /\ cached \in Sizes
      BY <2>1 DEF Init
    <3>3. announced.from >= 0 /\ announced.to < MaxSize /\ Len(sent) <= MaxSize
      BY <2>1, <2>2, <2>3 DEF Init
    <3> QED
      BY <3>1, <3>2, <3>3 DEF Init, TypeOK, Labels
<1>2. Undecided /\ Announced /\ OnlyGet /\ InPart /\ InWhole /\ Made /\ Looked
  BY <1>1, RespondAssumption
     DEF Init, Undecided, Announced, OnlyGet, InPart, InWhole, Made, Looked, TypeOK, Nothing, Sizes
<1>3. << >> \in Seq(Nat) /\ Len(<< >>) = 0
  BY EmptySeq
<1>4. InOrder
  <2>1. Starts(<< >>, announced.from)
    BY <1>3 DEF Starts, Run
  <2> QED
    BY <1>2, <1>3, <2>1 DEF Init, InOrder, Nothing
<1> QED
  BY <1>1, <1>2, <1>4 DEF IInv, UntouchedIsExact, Init

(* Nothing is announced: nothing can be owed. *)
LEMMA NothingOwed == Offsets(Nothing) = << >>
BY DEF Offsets, Nothing

LEMMA AnswerKeeps == IInv /\ Answer => IInv'
<1> SUFFICES ASSUME IInv, Answer PROVE IInv'
  OBVIOUS
<1> USE DEF IInv
<1>1. /\ pc = "decide" /\ status' = Reply.code /\ announced' = Reply.slice
      /\ pc' = Reply.next /\ valid' \in BOOLEAN
      /\ UNCHANGED <<request, kind, readable, size, edits, cached, opened, position, eof, sent>>
  BY DEF Answer, diskVars, fileVars
<1>2. sent = << >> /\ position = 0 /\ cached \in 0..MaxSize /\ MaxSize \in Nat
      /\ request \in Requests /\ size \in 0..MaxSize
  BY <1>1, RespondAssumption DEF InOrder, Undecided, Sizes, TypeOK
<1>3. /\ request.response \in 0..MaxSize
      /\ request.range.start \in Int /\ request.range.end \in Int
  BY <1>2, RespondAssumption
<1>4. Satisfiable(Fitted, cached) =>
        Fitted.from \in Nat /\ Fitted.to \in Nat /\ Fitted.from <= Fitted.to /\ Fitted.to < cached
  BY <1>2, <1>3, FitInside DEF Fitted
<1>5. Content => request.method \in {"HEAD", "GET"}
  BY DEF Content, Fetches
<1>6. Listing => request.method \in {"HEAD", "GET"}
  BY DEF Listing, Fetches
<1>7. edits = 0 => cached = size
  BY <1>2 DEF Looked, Unknown
<1>8. Partial => request.method = "GET"
  BY DEF Partial
<1>9. \/ /\ announced' = Nothing /\ pc' = "done"
         /\ \/ status' \in {200, 404, 405, 408}
            \/ status' = 416 /\ Partial /\ ~Satisfiable(Fitted, cached)
      \/ /\ status' = 206 /\ announced' = Fitted /\ pc' = "seek"
         /\ Partial /\ Satisfiable(Fitted, cached)
      \/ /\ status' = 200 /\ Content
         /\ announced' = [from |-> 0, to |-> (IF kind = "file" THEN cached ELSE request.response) - 1]
         /\ pc' = IF request.method = "HEAD" THEN "done"
                  ELSE IF kind = "file" THEN "whole" ELSE "response"
      \/ /\ status' = 200 /\ Listing /\ announced' = Nothing
         /\ pc' = IF request.method = "HEAD" THEN "done" ELSE "listing"
  BY <1>1, ReplyIs
<1>10. TypeOK'
  BY <1>1, <1>2, <1>3, <1>4, <1>9 DEF TypeOK, Labels, Nothing, Sizes
<1>11. Undecided' /\ OnlyGet' /\ Made'
  BY <1>1, <1>5, <1>6, <1>8, <1>9 DEF Undecided, OnlyGet, Made
<1>12. Announced'
  <2>1. CASE announced' = Nothing /\ status' # 206
    BY <1>2, <2>1 DEF Announced, Sizes, Nothing
  <2>2. CASE announced' = Fitted /\ Satisfiable(Fitted, cached)
    BY <1>2, <1>4, <2>2 DEF Announced, Sizes
  <2>3. CASE /\ status' = 200
             /\ announced' = [from |-> 0, to |-> (IF kind = "file" THEN cached ELSE request.response) - 1]
    BY <1>2, <1>3, <2>3 DEF Announced, Sizes
  <2> QED
    BY <1>9, <2>1, <2>2, <2>3
<1>13. Len(sent) = 0 /\ sent \in Seq(Nat)
  BY <1>2, EmptySeq
<1>14. InOrder'
  <2>1. sent' = << >> /\ sent' \in Seq(Nat) /\ Len(sent') = 0
    BY <1>1, <1>2, <1>13
  <2>2. Starts(sent', announced'.from)
    BY <2>1 DEF Starts, Run
  <2>3. status' = 206 => 0 <= announced'.to - announced'.from + 1
    BY <1>12 DEF Announced, Sizes
  <2> QED
    BY <2>1, <2>2, <2>3 DEF InOrder
<1>15. InPart'
  BY <1>1, <1>9 DEF InPart
<1>16. InWhole'
  BY <1>1, <1>2, <1>7, <1>9, <1>13 DEF InWhole
<1>17. Looked'
  BY <1>1, <1>2, <1>7, <1>9 DEF Looked, Fitted
<1>18. UntouchedIsExact'
  BY <1>1, <1>2, <1>9, NothingOwed DEF UntouchedIsExact
<1> QED
  BY <1>10, <1>11, <1>12, <1>14, <1>15, <1>16, <1>17, <1>18

LEMMA SeekStartKeeps == IInv /\ SeekStart => IInv'
<1> SUFFICES ASSUME IInv, SeekStart PROVE IInv'
  OBVIOUS
<1> USE DEF IInv
<1>1. /\ pc = "seek" /\ opened' = (opened \/ Opens)
      /\ cached' = IF Opens THEN Unknown ELSE cached
      /\ \/ opened' /\ pc' = "part" /\ position' = announced.from
         \/ ~opened' /\ pc' = "done" /\ UNCHANGED position
      /\ UNCHANGED <<request, kind, readable, size, edits, valid, status, announced, eof, sent>>
  BY DEF SeekStart, diskVars, replyVars
<1>2. status = 206 /\ sent = << >> /\ Len(sent) = 0 /\ request.method = "GET"
  BY <1>1, EmptySeq DEF InPart, InOrder, OnlyGet
<1>3. announced.from \in Nat /\ announced.to \in Int /\ announced.from <= announced.to
      /\ announced.to + 1 \in 0..MaxSize /\ MaxSize \in Nat
  BY <1>2, RespondAssumption DEF Announced, Sizes
<1>4. readable \in BOOLEAN /\ opened \in BOOLEAN
  BY DEF TypeOK
<1>5. readable => opened'
  BY <1>1, <1>4 DEF Opens
<1>6. TypeOK'
  BY <1>1, <1>3, <1>4 DEF TypeOK, Labels, Sizes, Unknown, Opens
<1>7. Undecided' /\ Announced' /\ OnlyGet' /\ InWhole' /\ Made' /\ InOrder'
  BY <1>1, <1>2 DEF Undecided, Announced, OnlyGet, InWhole, Made, InOrder
<1>8. InPart'
  BY <1>1, <1>2, <1>3 DEF InPart
<1>9. Looked'
  BY <1>1 DEF Looked
<1>10. UntouchedIsExact'
  BY <1>1, <1>5 DEF UntouchedIsExact
<1> QED
  BY <1>6, <1>7, <1>8, <1>9, <1>10

LEMMA PartStepKeeps == IInv /\ PartStep => IInv'
<1> SUFFICES ASSUME IInv, PartStep PROVE IInv'
  OBVIOUS
<1> USE DEF IInv
<1>1. /\ pc = "part"
      /\ UNCHANGED <<request, kind, readable, size, edits, status, announced, cached, opened>>
  BY DEF PartStep, diskVars, replyVars
<1>2. /\ status = 206 /\ request.method = "GET" /\ position \in Nat /\ valid \in BOOLEAN
      /\ announced.from <= position /\ position <= announced.to + 1
      /\ Len(sent) <= position - announced.from
      /\ valid => Len(sent) = position - announced.from
  BY <1>1, RespondAssumption DEF InPart, OnlyGet, TypeOK, Sizes
<1>3. announced.from \in Nat /\ announced.to \in Int /\ announced.from <= announced.to
      /\ announced.to + 1 \in 0..MaxSize /\ MaxSize \in Nat
      /\ sent \in Seq(Nat) /\ Len(sent) \in Nat
  BY <1>2, RespondAssumption, LenProperties DEF Announced, Sizes, InOrder
<1>4. CASE position < announced.to + 1 /\ valid
  <2> DEFINE n == Min({announced.to + 1 - position, MAXBUFFERLEN})
  <2>1. n \in Nat /\ n <= announced.to + 1 - position
    <3> DEFINE left == announced.to + 1 - position
    <3>1. left \in Nat /\ MAXBUFFERLEN \in Nat
      BY <1>2, <1>3, <1>4, RespondAssumption
    <3> HIDE DEF left
    <3>2. n = IF left <= MAXBUFFERLEN THEN left ELSE MAXBUFFERLEN
      BY <3>1, OfTwo DEF left
    <3> QED
      BY <3>1, <3>2 DEF left
  <2>2. ReadAndSend(position, n) /\ pc' = pc
    BY <1>4 DEF PartStep
  <2>3. position = announced.from + Len(sent)
    BY <1>2, <1>3, <1>4
  <2> HIDE DEF n
  <2>4. PICK got \in 0..n, k \in 0..n :
           /\ k <= got /\ position' = position + got
           /\ got = 0 \/ position + got <= size
           /\ eof' \in BOOLEAN /\ valid' = (k = got)
           /\ sent' \in Seq(Nat) /\ Len(sent') = Len(sent) + k
           /\ Starts(sent', announced.from)
    BY <1>3, <1>4, <2>1, <2>2, <2>3, ReadAndSendIs
  <2>5. /\ position' \in Nat /\ position' <= announced.to + 1
        /\ Len(sent') <= position' - announced.from
        /\ valid' => Len(sent') = position' - announced.from
        /\ Len(sent') <= announced.to - announced.from + 1
    <3>1. got \in Nat /\ k \in Nat /\ got <= n /\ k <= got
      BY <2>1, <2>4
    <3>2. position' = position + got /\ Len(sent') = Len(sent) + k /\ (valid' => k = got)
      BY <2>4
    <3>3. position + got <= announced.to + 1
      BY <1>2, <1>3, <2>1, <3>1
    <3>4. position' \in Nat /\ Len(sent') <= position' - announced.from
      <4> DEFINE l == Len(sent)
                 from == announced.from
      <4>1. l \in Nat /\ from \in Nat /\ position \in Nat /\ l <= position - from
            /\ Len(sent') = l + k /\ position' = position + got
        BY <1>2, <1>3, <3>2
      <4> HIDE DEF l, from
      <4>2. position' \in Nat /\ Len(sent') <= position' - from
        BY <3>1, <4>1
      <4> QED
        BY <4>2 DEF from
    <3>5. valid' => Len(sent') = position' - announced.from
      BY <1>2, <1>3, <2>3, <3>1, <3>2
    <3> QED
      BY <1>2, <1>3, <3>1, <3>2, <3>3, <3>4, <3>5
  <2>6. TypeOK'
    <3>1. eof' \in BOOLEAN /\ valid' \in BOOLEAN
      BY <2>4
    <3>2. position' \in 0..MaxSize /\ Len(sent') <= MaxSize
      <4> DEFINE from == announced.from
                 to == announced.to
      <4>1. from \in Nat /\ to \in Int /\ to + 1 \in 0..MaxSize /\ MaxSize \in Nat
            /\ position' \in Nat /\ position' <= to + 1 /\ Len(sent') <= to - from + 1
        BY <1>3, <2>5
      <4> HIDE DEF from, to
      <4> QED
        BY <4>1
    <3> QED
      BY <1>1, <2>2, <3>1, <3>2 DEF TypeOK, Sizes
  <2>7. Undecided' /\ Announced' /\ OnlyGet' /\ InWhole' /\ Made' /\ Looked' /\ UntouchedIsExact'
    BY <1>1, <2>2 DEF Undecided, Announced, OnlyGet, InWhole, Made, Looked, UntouchedIsExact
  <2>8. InOrder'
    <3>1. sent' \in Seq(Nat) /\ Starts(sent', announced'.from)
      BY <1>1, <2>4, Zenon
    <3>2. pc' = "part" /\ Len(sent') <= announced'.to - announced'.from + 1
      BY <1>1, <2>2, <2>5
    <3> QED
      BY <3>1, <3>2 DEF InOrder
  <2>9. InPart'
    <3>1. pc' = "part" /\ status' = 206 /\ announced' = announced
      BY <1>1, <1>2, <2>2
    <3>2. announced.from <= position'
      BY <1>2, <1>3, <2>1, <2>4
    <3> QED
      BY <2>5, <3>1, <3>2, Zenon DEF InPart
  <2> QED
    BY <2>6, <2>7, <2>8, <2>9
<1>5. CASE ~(position < announced.to + 1 /\ valid)
  <2>1. pc' = "done" /\ UNCHANGED <<position, eof, sent, valid>>
    BY <1>5 DEF PartStep
  <2>2. TypeOK' /\ Undecided' /\ Announced' /\ OnlyGet' /\ InWhole' /\ Made' /\ Looked' /\ InPart'
    BY <1>1, <2>1
       DEF TypeOK, Labels, Undecided, Announced, OnlyGet, InWhole, Made, Looked, InPart
  <2>3. InOrder'
    BY <1>1, <2>1 DEF InOrder
  <2>4. ASSUME valid PROVE sent = Offsets(announced)
    <3>1. Len(sent) = announced.to - announced.from + 1
      BY <1>2, <1>3, <1>5, <2>4
    <3> QED
      BY <3>1 DEF InOrder, Offsets, Starts, Run
  <2>5. UntouchedIsExact'
    BY <1>1, <1>2, <2>1, <2>4 DEF UntouchedIsExact, Offsets
  <2> QED
    BY <2>2, <2>3, <2>5
<1> QED
  BY <1>4, <1>5

LEMMA WholeStepKeeps == IInv /\ WholeStep => IInv'
<1> SUFFICES ASSUME IInv, WholeStep PROVE IInv'
  OBVIOUS
<1> USE DEF IInv
<1>1. /\ pc = "whole"
      /\ UNCHANGED <<request, kind, readable, size, edits, status, announced>>
  BY DEF WholeStep, diskVars, replyVars
<1>2. /\ status = 200 /\ announced.from = 0 /\ request.method = "GET"
      /\ sent \in Seq(Nat) /\ Starts(sent, 0) /\ Len(sent) \in Nat
      /\ position \in 0..MaxSize /\ size \in 0..MaxSize /\ MaxSize \in Nat /\ MAXBUFFERLEN \in Nat
      /\ Len(sent) <= position
      /\ valid => Len(sent) = position
  BY <1>1, RespondAssumption, LenProperties DEF InWhole, OnlyGet, InOrder, TypeOK, Sizes
<1>3. PICK positionFirst \in BOOLEAN :
        LET fresh == IF cached = Unknown THEN size ELSE cached
            seen  == IF Opens /\ positionFirst THEN size ELSE fresh
            at    == IF opened \/ Opens THEN position ELSE -1
        IN  /\ cached' = IF Opens /\ ~positionFirst THEN Unknown ELSE seen
            /\ opened' = (opened \/ Opens)
            /\ IF seen # at /\ valid
                 THEN /\ UNCHANGED pc
                      /\ IF at >= 0 THEN ReadAndSend(at, MAXBUFFERLEN)
                                    ELSE UNCHANGED <<position, eof, sent, valid>>
                 ELSE pc' = "done" /\ UNCHANGED <<position, eof, sent, valid>>
  BY DEF WholeStep
<1> DEFINE fresh == IF cached = Unknown THEN size ELSE cached
           seen  == IF Opens /\ positionFirst THEN size ELSE fresh
           at    == IF opened \/ Opens THEN position ELSE -1
<1>4. cached' \in Sizes \cup {Unknown} /\ opened' \in BOOLEAN
  BY <1>2, <1>3 DEF TypeOK, Sizes, Opens
<1>5. edits = 0 => seen = size /\ cached' \in {size, Unknown}
  BY <1>3 DEF Looked
<1>6. readable => at = position
  BY DEF Opens, TypeOK
<1>7. at = position \/ at = -1
  OBVIOUS
<1>8. \/ seen # at /\ valid /\ pc' = pc /\ at >= 0 /\ ReadAndSend(at, MAXBUFFERLEN)
      \/ seen # at /\ valid /\ pc' = pc /\ UNCHANGED <<position, eof, sent, valid>>
      \/ ~(seen # at /\ valid) /\ pc' = "done" /\ UNCHANGED <<position, eof, sent, valid>>
  BY <1>3
<1> HIDE DEF seen, at
<1>9. Undecided' /\ Announced' /\ OnlyGet' /\ Made'
  BY <1>1, <1>2, <1>8 DEF Undecided, Announced, OnlyGet, Made
<1>10. Looked'
  BY <1>1, <1>2, <1>5 DEF Looked
<1>11. CASE valid /\ pc' = pc /\ at >= 0 /\ ReadAndSend(at, MAXBUFFERLEN)
  <2>1. at = position /\ at = announced.from + Len(sent) /\ announced.from \in Nat
    BY <1>2, <1>7, <1>11
  <2>2. PICK got \in 0..MAXBUFFERLEN, k \in 0..MAXBUFFERLEN :
           /\ k <= got /\ position' = at + got
           /\ got = 0 \/ at + got <= size
           /\ eof' \in BOOLEAN /\ valid' = (k = got)
           /\ sent' \in Seq(Nat) /\ Len(sent') = Len(sent) + k
           /\ Starts(sent', announced.from)
    <3>1. valid /\ MAXBUFFERLEN \in Nat /\ ReadAndSend(at, MAXBUFFERLEN)
      BY <1>2, <1>11
    <3>2. at = announced.from + Len(sent) /\ announced.from \in Nat
      BY <2>1
    <3> QED
      BY <3>1, <3>2, ReadAndSendIs
  <2>3. /\ position' \in 0..MaxSize /\ Len(sent') \in Nat
        /\ Len(sent') <= position'
        /\ valid' => Len(sent') = position'
    <3>1. /\ position \in 0..MaxSize /\ size \in 0..MaxSize
          /\ MaxSize \in Nat /\ got \in Nat /\ k \in Nat /\ k <= got
          /\ position' = position + got /\ Len(sent') = position + k
          /\ got = 0 \/ position + got <= size
      BY <1>2, <1>11, <2>1, <2>2
    <3>2. valid' = (k = got)
      BY <2>2
    <3>3. position + got \in 0..MaxSize /\ position + k \in Nat /\ position + k <= position + got
      BY <3>1
    <3> QED
      BY <3>1, <3>2, <3>3
  <2>4. TypeOK'
    <3>1. eof' \in BOOLEAN /\ valid' \in BOOLEAN
      BY <2>2
    <3>2. Len(sent') <= MaxSize
      BY <1>2, <2>3
    <3> QED
      BY <1>1, <1>4, <1>11, <2>3, <3>1, <3>2 DEF TypeOK, Sizes
  <2>5. InOrder'
    <3>1. sent' \in Seq(Nat) /\ Starts(sent', announced'.from)
      BY <1>1, <2>2
    <3> QED
      BY <1>1, <1>2, <1>11, <3>1 DEF InOrder
  <2>6. InPart' /\ UntouchedIsExact'
    BY <1>1, <1>11 DEF InPart, UntouchedIsExact
  <2>7. InWhole'
    BY <1>1, <1>2, <1>11, <2>3 DEF InWhole
  <2> QED
    BY <1>9, <1>10, <2>4, <2>5, <2>6, <2>7
<1>12. CASE pc' = pc /\ UNCHANGED <<position, eof, sent, valid>>
  <2>1. TypeOK'
    BY <1>1, <1>4, <1>12 DEF TypeOK
  <2>2. InOrder' /\ InPart' /\ InWhole' /\ UntouchedIsExact'
    BY <1>1, <1>12 DEF InOrder, InPart, InWhole, UntouchedIsExact
  <2> QED
    BY <1>9, <1>10, <2>1, <2>2
<1>13. CASE ~(seen # at /\ valid) /\ pc' = "done" /\ UNCHANGED <<position, eof, sent, valid>>
  <2>1. TypeOK'
    BY <1>1, <1>4, <1>13 DEF TypeOK, Labels
  <2>2. InOrder'
    BY <1>1, <1>2, <1>13 DEF InOrder
  <2>3. InPart' /\ InWhole'
    BY <1>13 DEF InPart, InWhole
  <2>4. ASSUME edits = 0, valid, readable PROVE sent = Offsets(announced)
    <3>1. Len(sent) = size
      BY <1>2, <1>5, <1>6, <1>13, <2>4
    <3>2. announced.to = size - 1
      BY <1>1, <2>4 DEF InWhole
    <3>3. announced.to - announced.from + 1 = size
      BY <1>2, <3>2
    <3> QED
      BY <1>2, <3>1, <3>3 DEF Starts, Run, Offsets
  <2>5. UntouchedIsExact'
    BY <1>1, <1>2, <1>13, <2>4 DEF UntouchedIsExact, Offsets
  <2> QED
    BY <1>9, <1>10, <2>1, <2>2, <2>3, <2>5
<1> QED
  BY <1>8, <1>11, <1>12, <1>13

LEMMA SendResponseKeeps == IInv /\ SendResponse => IInv'
<1> SUFFICES ASSUME IInv, SendResponse PROVE IInv'
  OBVIOUS
<1> USE DEF IInv
<1>1. /\ pc = "response" /\ pc' = "done"
      /\ UNCHANGED <<request, kind, readable, size, edits, status, announced,
                     cached, opened, position, eof>>
  BY DEF SendResponse, diskVars, replyVars, fileVars
<1>2. /\ announced.from = 0 /\ announced.to = request.response - 1 /\ request.method = "GET"
      /\ request.response \in 0..MaxSize /\ MaxSize \in Nat
  BY <1>1, RespondAssumption DEF Made, OnlyGet, TypeOK
<1>3. PICK k \in 0..request.response :
        sent' = [i \in 1..k |-> i - 1] /\ valid' = (valid /\ k = request.response)
  BY DEF SendResponse
<1>4. k \in Nat /\ k <= request.response
  BY <1>2, <1>3
<1>5. sent' = Run(0, k)
  BY <1>3, <1>4 DEF Run
<1>6. sent' \in Seq(Nat) /\ Len(sent') = k
  BY <1>4, <1>5, RunIs
<1>7. TypeOK'
  <2>1. valid' \in BOOLEAN
    BY <1>3
  <2>2. Len(sent') <= MaxSize
    BY <1>2, <1>4, <1>6
  <2> QED
    BY <1>1, <2>1, <2>2 DEF TypeOK, Labels
<1>8. InOrder'
  <2>1. Starts(sent', announced'.from)
    BY <1>1, <1>2, <1>5, <1>6 DEF Starts
  <2>2. Len(sent') <= announced'.to - announced'.from + 1
    BY <1>1, <1>2, <1>4, <1>6
  <2> QED
    BY <1>1, <1>6, <2>1, <2>2 DEF InOrder
<1>9. Undecided' /\ Announced' /\ OnlyGet' /\ InPart' /\ InWhole' /\ Made' /\ Looked'
  BY <1>1 DEF Undecided, Announced, OnlyGet, InPart, InWhole, Made, Looked
<1>10. ASSUME valid' PROVE sent' = Offsets(announced')
  <2>1. announced'.to - announced'.from + 1 = request.response
    BY <1>1, <1>2
  <2>2. sent' = Run(0, request.response)
    BY <1>3, <1>5, <1>10
  <2> QED
    BY <1>1, <1>2, <2>1, <2>2 DEF Run, Offsets
<1>11. UntouchedIsExact'
  BY <1>1, <1>2, <1>10 DEF UntouchedIsExact
<1> QED
  BY <1>7, <1>8, <1>9, <1>11

LEMMA SendListingKeeps == IInv /\ SendListing => IInv'
<1> SUFFICES ASSUME IInv, SendListing PROVE IInv'
  OBVIOUS
<1> USE DEF IInv
<1>1. /\ pc = "listing" /\ pc' = "done" /\ valid' \in BOOLEAN
      /\ UNCHANGED <<request, kind, readable, size, edits, status, announced,
                     cached, opened, position, eof, sent>>
  BY DEF SendListing, diskVars, replyVars, fileVars
<1>2. sent = << >> /\ announced = Nothing
  BY <1>1 DEF InOrder, Made
<1>3. TypeOK'
  BY <1>1 DEF TypeOK, Labels
<1>4. InOrder'
  BY <1>1 DEF InOrder
<1>5. Undecided' /\ Announced' /\ OnlyGet' /\ InPart' /\ InWhole' /\ Made' /\ Looked'
  BY <1>1 DEF Undecided, Announced, OnlyGet, InPart, InWhole, Made, Looked
<1>6. UntouchedIsExact'
  BY <1>1, <1>2, NothingOwed DEF UntouchedIsExact
<1> QED
  BY <1>3, <1>4, <1>5, <1>6

LEMMA EditKeeps == ASSUME NEW n \in Sizes PROVE IInv /\ Edit(n) => IInv'
<1> SUFFICES ASSUME IInv, Edit(n) PROVE IInv'
  OBVIOUS
<1> USE DEF IInv
<1>1. /\ pc # "done" /\ size' = n /\ edits' = edits + 1 /\ edits < MaxEdits
      /\ UNCHANGED <<request, kind, readable, valid, pc, status, announced,
                     cached, opened, position, eof, sent>>
  BY DEF Edit, replyVars, fileVars
<1>2. edits \in Nat /\ MaxEdits \in Nat
  BY RespondAssumption DEF TypeOK
<1>3. edits' # 0 /\ edits' \in 0..MaxEdits
  BY <1>1, <1>2
<1>4. TypeOK'
  BY <1>1, <1>3 DEF TypeOK
<1>5. InOrder'
  BY <1>1 DEF InOrder
<1>6. Undecided' /\ Announced' /\ OnlyGet' /\ InPart' /\ InWhole' /\ Made' /\ Looked'
  BY <1>1, <1>3 DEF Undecided, Announced, OnlyGet, InPart, InWhole, Made, Looked
<1>7. UntouchedIsExact'
  BY <1>1 DEF UntouchedIsExact
<1> QED
  BY <1>4, <1>5, <1>6, <1>7

LEMMA StutterKeeps == IInv /\ UNCHANGED vars => IInv'
<1> SUFFICES ASSUME IInv, UNCHANGED vars PROVE IInv'
  OBVIOUS
<1> USE DEF IInv
<1>1. UNCHANGED <<request, kind, readable, size, edits, valid, pc, status, announced,
                  cached, opened, position, eof, sent>>
  BY DEF vars, diskVars, fileVars, replyVars
<1>2. TypeOK'
  BY <1>1 DEF TypeOK
<1>3. InOrder'
  BY <1>1 DEF InOrder
<1> QED
  BY <1>1, <1>2, <1>3
     DEF Undecided, Announced, OnlyGet, InPart, InWhole, Made, Looked, UntouchedIsExact

LEMMA StepIInv == IInv /\ [Next]_vars => IInv'
<1> SUFFICES ASSUME IInv, [Next]_vars PROVE IInv'
  OBVIOUS
<1>1. CASE Answer       BY <1>1, AnswerKeeps
<1>2. CASE WholeStep    BY <1>2, WholeStepKeeps
<1>3. CASE SeekStart    BY <1>3, SeekStartKeeps
<1>4. CASE PartStep     BY <1>4, PartStepKeeps
<1>5. CASE SendResponse BY <1>5, SendResponseKeeps
<1>6. CASE SendListing  BY <1>6, SendListingKeeps
<1>7. CASE \E n \in Sizes : Edit(n)
  BY <1>7, EditKeeps
<1>8. CASE UNCHANGED vars
  BY <1>8, StutterKeeps
<1> QED
  BY <1>1, <1>2, <1>3, <1>4, <1>5, <1>6, <1>7, <1>8 DEF Next, Server

LEMMA Invariance == Spec => []IInv
<1> QED
  BY InitIInv, StepIInv, PTL DEF Spec

-----------------------------------------------------------------------------
(* Every variable of Respond has its type: the stream never stands beyond  *)
(* the largest file, and no more is sent than that.                        *)
THEOREM TypeCorrect == Spec => []TypeOK
<1>1. IInv => TypeOK
  BY DEF IInv
<1> QED
  BY <1>1, Invariance, PTL

(* Of a range, only bytes that the header announced are sent, in order and *)
(* each once, whatever happens to the file.                                *)
THEOREM PartialCorrect == Spec => []PartialStaysInside
<1>1. IInv => PartialStaysInside
  <2> SUFFICES ASSUME IInv, status = 206 PROVE IsPrefix(sent, Offsets(announced))
    BY DEF PartialStaysInside
  <2>1. /\ sent \in Seq(Nat) /\ Starts(sent, announced.from) /\ announced.from \in Nat
        /\ announced.to \in Int /\ announced.from <= announced.to
        /\ Len(sent) <= announced.to - announced.from + 1
    BY DEF IInv, InOrder, Announced
  <2> DEFINE n == announced.to - announced.from + 1
             whole == Offsets(announced)
  <2>2. n \in Nat /\ Len(sent) \in Nat
    BY <2>1, LenProperties
  <2>3. whole = Run(announced.from, n)
    BY DEF Offsets, Run
  <2>4. whole \in Seq(Nat) /\ Len(whole) = n /\ \A i \in 1..n : whole[i] = announced.from + i - 1
    <3> HIDE DEF n, whole
    <3> QED
      BY <2>1, <2>2, <2>3, RunIs
  <2>5. \A i \in 1..Len(sent) : sent[i] = announced.from + i - 1
    BY <2>1 DEF Starts, Run
  <2> HIDE DEF n, whole
  <2>6. Len(sent) <= Len(whole)
    BY <2>1, <2>4 DEF n
  <2>7. SubSeq(whole, 1, Len(sent)) = [i \in 1..Len(sent) |-> whole[i]]
    BY <2>2, <2>4, <2>6
  <2>8. \A i \in 1..Len(sent) : whole[i] = announced.from + i - 1
    BY <2>2, <2>4, <2>6
  <2>9. sent = SubSeq(whole, 1, Len(sent))
    BY <2>1, <2>7, <2>8 DEF Starts, Run
  <2> QED
    BY <2>6, <2>9 DEF IsPrefix, whole
<1> QED
  BY <1>1, Invariance, PTL

(* If nobody touches the file and the peer stays, the body is exactly what *)
(* the header announced: a connection that stays open is never left with   *)
(* a body longer or shorter than its Content-Length.                       *)
THEOREM UntouchedCorrect == Spec => []UntouchedIsExact
<1>1. IInv => UntouchedIsExact
  BY DEF IInv
<1> QED
  BY <1>1, Invariance, PTL

-----------------------------------------------------------------------------
(* A non-empty set of numbers from 1 to 5 has a last one. *)
LEMMA LastOfFive ==
  ASSUME NEW S \in SUBSET (1..5), S # {}
  PROVE  Max(S) \in S /\ \A i \in S : i <= Max(S)
<1> SUFFICES \E x \in S : \A y \in S : x >= y
  BY DEF Max
<1>1. CASE 5 \in S BY <1>1
<1>2. CASE 5 \notin S /\ 4 \in S BY <1>2
<1>3. CASE 5 \notin S /\ 4 \notin S /\ 3 \in S BY <1>3
<1>4. CASE 5 \notin S /\ 4 \notin S /\ 3 \notin S
  <2>1. S \subseteq {1, 2}
    BY <1>4
  <2>2. CASE 2 \in S BY <2>1, <2>2
  <2>3. CASE 2 \notin S
    <3>1. S = {1}
      BY <2>1, <2>3
    <3> QED
      BY <3>1
  <2> QED
    BY <2>2, <2>3
<1> QED
  BY <1>1, <1>2, <1>3, <1>4

(* The fold over a short field goes through its tokens one by one: p[k] is *)
(* what the first k tokens leave.                                          *)
Fold(tokens, h) ==
  [s \in SUBSET DOMAIN tokens |->
     IF s = {} THEN NoRange ELSE NextToken(h[s \ {Max(s)}], tokens[Max(s)])]

LEMMA FoldExists ==
  ASSUME NEW tokens, NEW n \in {4, 5}, DOMAIN tokens = 1..n
  PROVE  \E h : h = Fold(tokens, h)
<1> DEFINE S  == SUBSET (1..n)
           h0 == [s \in S |-> NoRange]
           h1 == Fold(tokens, h0)
           h2 == Fold(tokens, h1)
           h3 == Fold(tokens, h2)
           h4 == Fold(tokens, h3)
           h5 == Fold(tokens, h4)
           h6 == Fold(tokens, h5)
<1>1. ASSUME NEW k \in 0..4, NEW f, NEW g,
             \A s \in S : s \subseteq 1..k => f[s] = g[s]
      PROVE  \A s \in S : s \subseteq 1..(k + 1) => Fold(tokens, f)[s] = Fold(tokens, g)[s]
  <2> TAKE s \in S
  <2> HAVE s \subseteq 1..(k + 1)
  <2>1. CASE s = {}
    BY <2>1 DEF Fold
  <2>2. CASE s # {}
    <3> DEFINE m == Max(s)
    <3>1. s \in SUBSET (1..5)
      OBVIOUS
    <3>2. m \in s /\ \A i \in s : i <= m
      BY <2>2, <3>1, LastOfFive
    <3> HIDE DEF m
    <3>3. s \ {m} \subseteq 1..k
      BY <3>2
    <3>4. s \ {m} \in S
      OBVIOUS
    <3>5. f[s \ {m}] = g[s \ {m}]
      BY <1>1, <3>3, <3>4
    <3> QED
      BY <2>2, <3>5 DEF Fold, m
  <2> QED
    BY <2>1, <2>2
<1>2. \A s \in S : s \subseteq 1..0 => h0[s] = h1[s]
  <2>1. \A s : s \subseteq 1..0 => s = {}
    OBVIOUS
  <2> QED
    BY <2>1 DEF Fold
<1> HIDE DEF h0
<1>3. \A s \in S : s \subseteq 1..1 => h1[s] = h2[s]
  BY <1>1, <1>2
<1> HIDE DEF h1
<1>4. \A s \in S : s \subseteq 1..2 => h2[s] = h3[s]
  BY <1>1, <1>3
<1> HIDE DEF h2
<1>5. \A s \in S : s \subseteq 1..3 => h3[s] = h4[s]
  BY <1>1, <1>4
<1> HIDE DEF h3
<1>6. \A s \in S : s \subseteq 1..4 => h4[s] = h5[s]
  BY <1>1, <1>5
<1> HIDE DEF h4
<1>7. \A s \in S : s \subseteq 1..5 => h5[s] = h6[s]
  BY <1>1, <1>6
<1>8. \A s \in S : h5[s] = h6[s]
  BY <1>7
<1>9. h5 = [s \in S |-> h5[s]] /\ h6 = [s \in S |-> h6[s]]
  BY DEF Fold
<1>10. h5 = h6
  <2> HIDE DEF h5, h6
  <2> QED
    BY <1>8, <1>9
<1> QED
  BY <1>10

LEMMA ParsedStepwise ==
  ASSUME NEW tokens, NEW n \in {4, 5}, DOMAIN tokens = 1..n
  PROVE  \E p : /\ p[0] = NoRange /\ p[n] = ParseRange(tokens)
                /\ \A k \in 1..n : p[k] = NextToken(p[k - 1], tokens[k])
<1> DEFINE h == CHOOSE h : h = Fold(tokens, h)
           p == [k \in 0..n |-> h[1..k]]
<1>1. h = Fold(tokens, h)
  BY FoldExists
<1>2. ParseRange(tokens) = h[1..n]
  BY DEF ParseRange, FoldLeft, MapThenFoldSet, Fold
<1> HIDE DEF h
<1>3. p[0] = NoRange
  <2>1. p[0] = h[{}]
    OBVIOUS
  <2>2. h[{}] = NoRange
    BY <1>1 DEF Fold
  <2> QED
    BY <2>1, <2>2
<1>4. ASSUME NEW k \in 1..n PROVE p[k] = NextToken(p[k - 1], tokens[k])
  <2>1. (1..k) \in SUBSET (1..5) /\ (1..k) # {} /\ (1..k) \in SUBSET DOMAIN tokens
    OBVIOUS
  <2>2. Max(1..k) = k
    <3>1. Max(1..k) \in 1..k /\ \A i \in 1..k : i <= Max(1..k)
      BY <2>1, LastOfFive
    <3> QED
      BY <3>1
  <2>3. (1..k) \ {k} = 1..(k - 1)
    OBVIOUS
  <2>4. h[1..k] = NextToken(h[(1..k) \ {Max(1..k)}], tokens[Max(1..k)])
    BY <1>1, <2>1 DEF Fold
  <2>5. h[1..k] = NextToken(h[1..(k - 1)], tokens[k])
    BY <2>2, <2>3, <2>4
  <2>6. k \in 0..n /\ k - 1 \in 0..n
    OBVIOUS
  <2>7. p[k] = h[1..k] /\ p[k - 1] = h[1..(k - 1)]
    BY <2>6
  <2> QED
    BY <2>5, <2>7
<1>5. p[n] = ParseRange(tokens)
  BY <1>2
<1> HIDE DEF p
<1> QED
  BY <1>3, <1>4, <1>5

(* What the three forms of a RANGE field leave.                            *)
Token == [type : STRING, value : Nat]

LEMMA FormIs ==
  ASSUME NEW tokens \in Seq(Token), Canonical(tokens)
  PROVE  /\ tokens[1].type = "bytes" /\ tokens[2].type = "="
         /\ \/ /\ Len(tokens) = 5 /\ tokens[3].type = "num"
               /\ tokens[4].type = "-" /\ tokens[5].type = "num"
            \/ Len(tokens) = 4 /\ tokens[3].type = "num" /\ tokens[4].type = "-"
            \/ /\ Len(tokens) = 4 /\ tokens[3].type = "-" /\ tokens[4].type = "num"
               /\ tokens[4].value > 0
<1> DEFINE n == Len(tokens)
           form == [i \in 1..(n - 2) |-> tokens[i + 2].type]
<1>1. n \in {4, 5} /\ SubSeq(tokens, 1, 2) = <<Symbol("bytes"), Symbol("=")>>
  BY DEF Canonical, Ranges
<1>2. SubSeq(tokens, 1, 2)[1] = tokens[1] /\ SubSeq(tokens, 1, 2)[2] = tokens[2]
  BY <1>1
<1>3. tokens[1].type = "bytes" /\ tokens[2].type = "="
  <2>1. tokens[1] = Symbol("bytes") /\ tokens[2] = Symbol("=")
    <3> DEFINE two == SubSeq(tokens, 1, 2)
               first == Symbol("bytes")
               second == Symbol("=")
    <3>1. two = <<first, second>> /\ two[1] = tokens[1] /\ two[2] = tokens[2]
      BY <1>1, <1>2
    <3> HIDE DEF two, first, second
    <3>2. tokens[1] = first /\ tokens[2] = second
      BY <3>1
    <3> QED
      BY <3>2 DEF first, second
  <2> QED
    BY <2>1 DEF Symbol
<1>4. \/ form = <<"num", "-", "num">> \/ form = <<"num", "-">>
      \/ form = <<"-", "num">> /\ tokens[4].value > 0
  BY DEF Canonical
<1>5. DOMAIN form = 1..(n - 2) /\ \A i \in 1..(n - 2) : form[i] = tokens[i + 2].type
  OBVIOUS
<1>6. form[1] = tokens[3].type /\ form[2] = tokens[4].type
  BY <1>1, <1>5
<1>7. n = 5 => form[3] = tokens[5].type
  BY <1>1, <1>5
<1>8. (DOMAIN form = 1..2 => n = 4) /\ (DOMAIN form = 1..3 => n = 5)
  <2>1. 3 \in 1..3 /\ 3 \notin 1..2
    OBVIOUS
  <2>2. n = 4 => DOMAIN form = 1..2
    BY <1>5
  <2>3. n = 5 => DOMAIN form = 1..3
    BY <1>5
  <2> HIDE DEF form
  <2> QED
    BY <1>1, <2>1, <2>2, <2>3
<1> HIDE DEF form
<1>9. CASE form = <<"num", "-", "num">>
  <2>1. DOMAIN form = 1..3 /\ form[1] = "num" /\ form[2] = "-" /\ form[3] = "num"
    BY <1>9
  <2> QED
    BY <1>3, <1>6, <1>7, <1>8, <2>1
<1>10. CASE form = <<"num", "-">>
  <2>1. DOMAIN form = 1..2 /\ form[1] = "num" /\ form[2] = "-"
    BY <1>10
  <2> QED
    BY <1>3, <1>6, <1>8, <2>1
<1>11. CASE form = <<"-", "num">> /\ tokens[4].value > 0
  <2>1. DOMAIN form = 1..2 /\ form[1] = "-" /\ form[2] = "num"
    BY <1>11
  <2> QED
    BY <1>3, <1>6, <1>8, <1>11, <2>1
<1> QED
  BY <1>4, <1>9, <1>10, <1>11

State == [start : Int, end : Int, sset : BOOLEAN, eset : BOOLEAN,
          negative : Int, going : BOOLEAN]

LEMMA ParsedIs ==
  ASSUME NEW tokens \in Seq(Token), Canonical(tokens)
  PROVE  LET r == ParseRange(tokens) IN
         \/ /\ Len(tokens) = 5
            /\ r.start = tokens[3].value /\ r.eset /\ r.end = tokens[5].value
         \/ /\ Len(tokens) = 4 /\ tokens[4].type = "-"
            /\ r.start = tokens[3].value /\ ~r.eset
         \/ /\ Len(tokens) = 4 /\ tokens[4].type = "num" /\ tokens[4].value > 0
            /\ r.start = -tokens[4].value /\ ~r.eset
<1> DEFINE n == Len(tokens)
<1>1. n \in {4, 5} /\ DOMAIN tokens = 1..n
  BY FormIs
<1>2. PICK p : /\ p[0] = NoRange /\ p[n] = ParseRange(tokens)
               /\ \A k \in 1..n : p[k] = NextToken(p[k - 1], tokens[k])
  BY <1>1, ParsedStepwise
<1>3. /\ p[1] = NextToken(p[0], tokens[1]) /\ p[2] = NextToken(p[1], tokens[2])
      /\ p[3] = NextToken(p[2], tokens[3]) /\ p[4] = NextToken(p[3], tokens[4])
  BY <1>1, <1>2
<1>4. p[2] = NoRange
  BY <1>2, <1>3, FormIs DEF NextToken
<1>5. /\ NoRange \in State
      /\ NoRange.going /\ ~NoRange.sset /\ ~NoRange.eset /\ NoRange.negative = 0
  BY DEF NoRange, State
<1> DEFINE a == tokens[3].value
           b == tokens[4].value
           c == tokens[5].value
<1>8. a \in Int /\ b \in Int /\ (n = 5 => c \in Int)
  <2>1. \A i \in 1..n : tokens[i] \in Token
    BY ElementOfSeq
  <2>2. \A t \in Token : t.value \in Int
    BY DEF Token
  <2> QED
    BY <1>1, <2>1, <2>2
<1> HIDE DEF a, b, c
<1>6. CASE tokens[3].type = "num" /\ tokens[4].type = "-"
  <2>1. p[3] = FirstNumber(NoRange, tokens[3])
    BY <1>3, <1>4, <1>5, <1>6 DEF NextToken
  <2>2. p[3] = [NoRange EXCEPT !.start = a, !.negative = 0, !.sset = TRUE]
    BY <1>5, <1>6, <2>1 DEF FirstNumber, a
  <2>3. /\ p[3] \in State /\ p[3].start = a
        /\ p[3].going /\ p[3].sset /\ ~p[3].eset /\ p[3].negative = 0
    BY <1>5, <1>8, <2>2 DEF State
  <2>4. p[4] = [p[3] EXCEPT !.negative = p[3].negative + 1]
    BY <1>3, <1>6, <2>3 DEF NextToken
  <2>5. /\ p[4] \in State /\ p[4].start = a
        /\ p[4].going /\ p[4].sset /\ ~p[4].eset /\ p[4].negative = 1
    BY <2>3, <2>4 DEF State
  <2>6. CASE n = 4
    BY <1>2, <1>6, <2>5, <2>6 DEF a
  <2>7. CASE n = 5
    <3>1. tokens[5].type = "num"
      BY <2>7, FormIs
    <3>2. p[5] = NextToken(p[4], tokens[5])
      BY <1>2, <2>7
    <3>3. p[5] = LastNumber(p[4], tokens[5])
      BY <2>5, <3>1, <3>2 DEF NextToken
    <3>4. p[5] = [p[4] EXCEPT !.end = c, !.negative = 1, !.eset = TRUE]
      BY <2>5, <3>1, <3>3 DEF LastNumber, c
    <3>5. p[5].start = a /\ p[5].eset /\ p[5].end = c
      BY <1>8, <2>5, <2>7, <3>4 DEF State
    <3> QED
      BY <1>2, <2>7, <3>5 DEF a, c
  <2> QED
    BY <1>1, <2>6, <2>7
<1>7. CASE tokens[3].type = "-" /\ tokens[4].type = "num"
  <2>1. n = 4 /\ tokens[4].value > 0
    BY <1>7, FormIs
  <2>2. p[3] = [NoRange EXCEPT !.negative = NoRange.negative + 1]
    BY <1>3, <1>4, <1>5, <1>7 DEF NextToken
  <2>3. p[3] \in State /\ p[3].going /\ ~p[3].sset /\ ~p[3].eset /\ p[3].negative = 1
    BY <1>5, <2>2 DEF State
  <2>4. p[4] = FirstNumber(p[3], tokens[4])
    BY <1>3, <1>7, <2>3 DEF NextToken
  <2>5. p[4] = [p[3] EXCEPT !.start = -b, !.negative = 0, !.sset = TRUE]
    BY <1>7, <2>3, <2>4 DEF FirstNumber, b
  <2>6. p[4].start = -b /\ ~p[4].eset
    BY <1>8, <2>3, <2>5 DEF State
  <2> QED
    BY <1>2, <1>7, <2>1, <2>6 DEF b
<1> QED
  BY <1>6, <1>7, FormIs

(* The bytes announced for a RANGE field in one of its three forms are     *)
(* those of the file that it asks for, and 416 is the answer only if there *)
(* are none, for every size and all numbers.                               *)
THEOREM RangeCorrect == Spec => []RangeIsAsAsked
<1>1. IInv => RangeIsAsAsked
  <2> SUFFICES ASSUME IInv, status \in {206, 416}, edits = 0, Canonical(request.tokens)
               PROVE  announced.from..announced.to = Asked(request.tokens) \cap 0..(size - 1)
    BY DEF RangeIsAsAsked
  <2> DEFINE tokens == request.tokens
             r == request.range
  <2>1. tokens \in Seq(Token) /\ r = ParseRange(tokens)
        /\ size \in 0..MaxSize /\ MaxSize \in Nat
    <3>1. request \in Requests /\ size \in 0..MaxSize
      BY DEF IInv, TypeOK, Sizes
    <3>2. /\ request.tokens \in Seq([type : STRING, value : Nat])
          /\ request.range = ParseRange(request.tokens) /\ MaxSize \in Nat
      BY <3>1, RespondAssumption
    <3> QED
      BY <3>1, <3>2 DEF Token
  <2>2. \A i \in 1..Len(tokens) : tokens[i].value \in Nat
    <3>1. \A i \in 1..Len(tokens) : tokens[i] \in Token
      BY <2>1, ElementOfSeq
    <3>2. \A t \in Token : t.value \in Nat
      BY DEF Token
    <3> QED
      BY <3>1, <3>2
  <2>3. \/ status = 206 /\ announced = Fit(r, size) /\ Satisfiable(announced, size)
        \/ announced = Nothing /\ ~Satisfiable(Fit(r, size), size)
    BY DEF IInv, Looked
  <2>4. \/ /\ Len(tokens) = 5
           /\ r.start = tokens[3].value /\ r.eset /\ r.end = tokens[5].value
        \/ /\ Len(tokens) = 4 /\ tokens[4].type = "-"
           /\ r.start = tokens[3].value /\ ~r.eset
        \/ /\ Len(tokens) = 4 /\ tokens[4].type = "num" /\ tokens[4].value > 0
           /\ r.start = -tokens[4].value /\ ~r.eset
    BY <2>1, ParsedIs
  <2> HIDE DEF tokens, r
  <2>5. CASE /\ Len(tokens) = 5
             /\ r.start = tokens[3].value /\ r.eset /\ r.end = tokens[5].value
    <3> DEFINE a == tokens[3].value
               b == tokens[5].value
    <3>1. a \in Nat /\ b \in Nat /\ r.start = a /\ r.end = b /\ r.eset
      BY <2>2, <2>5
    <3>2. Asked(tokens) = {i \in Sizes : i \in a..b}
      BY <2>5 DEF Asked
    <3> HIDE DEF a, b
    <3>3. Fit(r, size) = [from |-> a, to |-> IF b >= size THEN size - 1 ELSE b]
      BY <2>1, <3>1 DEF Fit
    <3>4. CASE announced = Nothing /\ ~Satisfiable(Fit(r, size), size)
      BY <2>1, <3>1, <3>2, <3>3, <3>4 DEF Nothing, Satisfiable, Sizes, tokens
    <3>5. CASE announced = Fit(r, size)
      BY <2>1, <3>1, <3>2, <3>3, <3>5 DEF Sizes, tokens
    <3> QED
      BY <2>3, <3>4, <3>5
  <2>6. CASE /\ Len(tokens) = 4 /\ tokens[4].type = "-"
             /\ r.start = tokens[3].value /\ ~r.eset
    <3> DEFINE a == tokens[3].value
    <3>1. a \in Nat /\ r.start = a /\ ~r.eset
      BY <2>2, <2>6
    <3>2. Asked(tokens) = {i \in Sizes : i >= a}
      BY <2>6 DEF Asked
    <3> HIDE DEF a
    <3>3. Fit(r, size) = [from |-> a, to |-> size - 1]
      BY <2>1, <3>1 DEF Fit
    <3>4. CASE announced = Nothing /\ ~Satisfiable(Fit(r, size), size)
      BY <2>1, <3>1, <3>2, <3>3, <3>4 DEF Nothing, Satisfiable, Sizes, tokens
    <3>5. CASE announced = Fit(r, size)
      BY <2>1, <3>1, <3>2, <3>3, <3>5 DEF Sizes, tokens
    <3> QED
      BY <2>3, <3>4, <3>5
  <2>7. CASE /\ Len(tokens) = 4 /\ tokens[4].type = "num" /\ tokens[4].value > 0
             /\ r.start = -tokens[4].value /\ ~r.eset
    <3> DEFINE a == tokens[4].value
    <3>1. a \in Nat /\ a > 0 /\ r.start = -a /\ ~r.eset
      BY <2>2, <2>7
    <3>2. Asked(tokens) = {i \in Sizes : i >= size - a}
      BY <2>7 DEF Asked
    <3> HIDE DEF a
    <3>3. size > 0 => Fit(r, size) = [from |-> IF size - a < 0 THEN 0 ELSE size - a, to |-> size - 1]
      BY <2>1, <3>1 DEF Fit
    <3>4. CASE announced = Nothing /\ ~Satisfiable(Fit(r, size), size)
      <4>1. size = 0
        BY <2>1, <3>1, <3>3, <3>4 DEF Satisfiable
      <4> QED
        BY <3>4, <4>1 DEF Nothing
    <3>5. CASE announced = Fit(r, size) /\ Satisfiable(announced, size)
      <4>1. size > 0
        BY <2>1, <3>5 DEF Satisfiable
      <4> QED
        BY <2>1, <3>1, <3>2, <3>3, <3>5, <4>1 DEF Sizes, tokens
    <3> QED
      BY <2>3, <3>4, <3>5
  <2> QED
    BY <2>4, <2>5, <2>6, <2>7
<1> QED
  BY <1>1, Invariance, PTL

-----------------------------------------------------------------------------
(* The links of the listings that Respond sends. First some facts about    *)
(* numbers and repeated steps.                                             *)

(* A set of numbers has a least one. *)
LEMMA LeastNumber ==
  ASSUME NEW T, T \subseteq Nat, T # {}
  PROVE  \E m \in T : \A y \in T : m <= y
<1> DEFINE R == {ss \in Nat \X Nat : ss[1] < ss[2]}
<1>1. IsWellFoundedOn(R, Nat)
  BY NatLessThanWellFounded DEF OpToRel
<1>2. \A y \in Nat, m \in Nat : y < m => <<y, m>> \in R
  OBVIOUS
<1> HIDE DEF R
<1>3. PICK m \in T : \A y \in T : <<y, m>> \notin R
  BY <1>1, WFMin
<1>4. ASSUME NEW y \in T PROVE m <= y
  <2>1. m \in Nat /\ y \in Nat /\ ~(y < m)
    BY <1>2, <1>3
  <2> QED
    BY <2>1
<1> QED
  BY <1>4

(* f begins with a and goes on by the step g, up to m. *)
Iterates(f, a, g, m) == f[0] = a /\ \A n \in 1..m : f[n] = g[<<n, f[n - 1]>>]

(* A step can be repeated as often as one likes. *)
LEMMA IterationExists ==
  ASSUME NEW S, NEW a \in S, NEW m \in Nat, NEW g \in [(1..m) \X S -> S]
  PROVE  \E f \in [0..m -> S] : Iterates(f, a, g, m)
<1> DEFINE missing == {n \in 0..m : ~ \E f \in [0..n -> S] : Iterates(f, a, g, n)}
<1>1. missing = {}
  <2> SUFFICES ASSUME missing # {} PROVE FALSE
    OBVIOUS
  <2>1. missing \subseteq Nat
    OBVIOUS
  <2>2. PICK n \in missing : \A y \in missing : n <= y
    <3> HIDE DEF missing
    <3> QED
      BY <2>1, LeastNumber
  <2>3. n \in 0..m /\ n \in Nat /\ ~ \E f \in [0..n -> S] : Iterates(f, a, g, n)
    OBVIOUS
  <2>4. CASE n = 0
    <3> DEFINE f == [i \in 0..0 |-> a]
    <3>1. f \in [0..0 -> S] /\ f[0] = a
      OBVIOUS
    <3> HIDE DEF f
    <3>2. Iterates(f, a, g, 0)
      BY <3>1 DEF Iterates
    <3> QED
      BY <2>3, <2>4, <3>1, <3>2
  <2>5. CASE n > 0
    <3>1. n - 1 \notin missing /\ n - 1 \in 0..m
      BY <2>2, <2>3, <2>5
    <3>2. PICK h \in [0..(n - 1) -> S] : Iterates(h, a, g, n - 1)
      BY <3>1
    <3>3. h[n - 1] \in S /\ n \in 1..m
      BY <2>3, <2>5
    <3>4. <<n, h[n - 1]>> \in (1..m) \X S
      BY <3>3
    <3>5. g[<<n, h[n - 1]>>] \in S
      <4> DEFINE p == <<n, h[n - 1]>>
      <4>1. p \in (1..m) \X S
        BY <3>4
      <4> HIDE DEF p
      <4>2. g[p] \in S
        BY <4>1
      <4> QED
        BY <4>2 DEF p
    <3> DEFINE f == [i \in 0..n |-> IF i = n THEN g[<<n, h[n - 1]>>] ELSE h[i]]
    <3>6. f \in [0..n -> S]
      BY <2>3, <3>5
    <3>7. f[0] = a /\ \A i \in 0..(n - 1) : f[i] = h[i]
      BY <2>3, <2>5, <3>2 DEF Iterates
    <3>8. f[n] = g[<<n, h[n - 1]>>]
      BY <2>3
    <3> HIDE DEF f
    <3>9. ASSUME NEW i \in 1..n PROVE f[i] = g[<<i, f[i - 1]>>]
      <4>1. f[i - 1] = h[i - 1]
        BY <2>3, <3>7
      <4>2. i = n \/ i \in 1..(n - 1)
        BY <2>3
      <4>3. i # n => f[i] = h[i] /\ h[i] = g[<<i, h[i - 1]>>]
        BY <2>3, <3>2, <3>7, <4>2 DEF Iterates
      <4> QED
        BY <3>8, <4>1, <4>3
    <3> QED
      BY <2>3, <3>6, <3>7, <3>9 DEF Iterates
  <2> QED
    BY <2>3, <2>4, <2>5
<1> QED
  BY <1>1

LEMMA LastOrEarlier ==
  ASSUME NEW m \in Nat, NEW i \in 1..(m + 1)
  PROVE  i \in 1..m \/ i = m + 1
  OBVIOUS

-----------------------------------------------------------------------------
(* Bytes and their escapes.                                                *)
Bytes == 0..255

LEMMA HexBack ==
  ASSUME NEW w \in Bytes
  PROVE  /\ IntToHex(w) \in Bytes /\ HexToInt(IntToHex(w)) = w % 16
         /\ HexToInt(IntToHex(w)) \in 0..15
<1> DEFINE v == w % 16
<1>1. v \in 0..15
  BY DEF Bytes
<1> HIDE DEF v
<1>2. IntToHex(w) = (IF v < 10 THEN 48 ELSE 55) + v
  BY DEF IntToHex, v
<1>3. CASE v < 10
  <2>1. IntToHex(w) = 48 + v
    BY <1>2, <1>3
  <2> DEFINE x == 48 + v
  <2>2. x \in 48..57 /\ x - 48 = v
    BY <1>1, <1>3
  <2> HIDE DEF x
  <2>3. HexToInt(x) = v
    BY <2>2 DEF HexToInt, IsNumber
  <2> QED
    BY <1>1, <2>1, <2>2, <2>3 DEF Bytes, x, v
<1>4. CASE v >= 10
  <2>1. IntToHex(w) = 55 + v
    BY <1>1, <1>2, <1>4
  <2> DEFINE x == 55 + v
  <2>2. x \in 65..70 /\ x \notin 48..57 /\ x + 32 - 97 + 10 = v /\ x + 32 \in 97..102
    BY <1>1, <1>4
  <2> HIDE DEF x
  <2>3. LowerCase(x) = x + 32
    BY <2>2 DEF LowerCase
  <2>4. HexToInt(x) = v
    BY <2>2, <2>3 DEF HexToInt, IsNumber
  <2> QED
    BY <1>1, <2>1, <2>2, <2>4 DEF Bytes, x, v
<1> QED
  BY <1>1, <1>3, <1>4

LEMMA EscapeIs ==
  ASSUME NEW t \in Seq(Bytes), NEW i \in Nat \ {0}, i + 2 <= Len(t), NEW c \in Bytes,
         t[i + 1] = IntToHex(c \div 16), t[i + 2] = IntToHex(c)
  PROVE  Escape(t, i) = c
<1> DEFINE a == HexToInt(t[i + 1])
           b == HexToInt(t[i + 2])
           q == c \div 16
           r == c % 16
<1>1. q \in Bytes /\ q \in 0..15 /\ r \in 0..15 /\ q * 16 + r = c
  <2>1. c \in 0..255
    BY DEF Bytes
  <2>2. q \in 0..15 /\ r \in 0..15
    BY <2>1
  <2>3. q * 16 + r = c
    BY <2>1
  <2> QED
    BY <2>2, <2>3 DEF Bytes
<1>2. a = q /\ b = r
  <2>1. a = q % 16 /\ b = c % 16
    <3> HIDE DEF q
    <3> QED
      BY <1>1, HexBack DEF q
  <2>2. q % 16 = q
    <3> HIDE DEF q, a, b
    <3> QED
      BY <1>1
  <2> QED
    BY <2>1, <2>2
<1> HIDE DEF a, b, q, r
<1>3. a % 128 = a /\ b % 128 = b /\ a \in 0..15 /\ b \in 0..15
  BY <1>1, <1>2
<1>4. Len(t) \in Nat /\ i + 1 <= Len(t) /\ i + 2 <= Len(t)
  BY LenProperties
<1>5. Escape(t, i) = a * 16 + b
  BY <1>3, <1>4 DEF Escape, a, b
<1> QED
  BY <1>1, <1>2, <1>5

LEMMA EscapeType ==
  ASSUME NEW t \in Seq(Bytes), NEW i \in 1..Len(t)
  PROVE  Escape(t, i) \in Int /\ (Escape(t, i) >= 0 => Escape(t, i) \in Bytes)
<1> DEFINE at(j)  == IF j <= Len(t) THEN t[j] ELSE IF j = 2 THEN 0 ELSE Beyond
           hex(j) == IF CharSigned THEN HexToInt(at(j)) % 128 ELSE HexToInt(at(j))
           a == hex(i + 1)
           b == hex(i + 2)
<1>1. Escape(t, i) = IF (i + 2 <= Len(t) \/ Len(t) = 1) /\ {a, b} \subseteq 0..15
                     THEN a * 16 + b ELSE 0 - 1
  BY DEF Escape
<1> HIDE DEF a, b
<1>2. CASE (i + 2 <= Len(t) \/ Len(t) = 1) /\ {a, b} \subseteq 0..15
  <2>1. a \in 0..15 /\ b \in 0..15
    BY <1>2
  <2> DEFINE x == a * 16 + b
  <2>2. x \in 0..255 /\ x \in Int
    BY <2>1
  <2>3. Escape(t, i) = x
    BY <1>1, <1>2
  <2> HIDE DEF x
  <2> QED
    BY <2>2, <2>3 DEF Bytes
<1>3. CASE ~((i + 2 <= Len(t) \/ Len(t) = 1) /\ {a, b} \subseteq 0..15)
  <2>1. Escape(t, i) = 0 - 1
    BY <1>1, <1>3
  <2> QED
    BY <2>1
<1> QED
  BY <1>2, <1>3

LEMMA Reserved ==
  ASSUME NEW c \in Bytes
  PROVE  /\ Unreserved(c) => c \notin {Percent, Plus, Slash, BackSlash}
         /\ Percent \in Bytes /\ Dot \in Bytes /\ Slash \in Bytes /\ Space \in Bytes
         /\ Unreserved(Dot) /\ Percent # Plus /\ Percent # Dot /\ Slash # Dot
  BY DEF Unreserved, IsLetter, IsNumber, Percent, Plus, Slash, BackSlash, Dot, Space, Bytes

LEMMA EscapedType ==
  ASSUME NEW c \in Bytes
  PROVE  /\ Escaped(c) \in Seq(Bytes)
         /\ Unreserved(c) => Escaped(c) = <<c>> /\ Len(Escaped(c)) = 1
         /\ ~Unreserved(c) => Escaped(c) = <<Percent, IntToHex(c \div 16), IntToHex(c)>>
                              /\ Len(Escaped(c)) = 3
<1>1. c \div 16 \in Bytes
  BY DEF Bytes
<1>2. Percent \in Bytes /\ IntToHex(c \div 16) \in Bytes /\ IntToHex(c) \in Bytes
  BY <1>1, HexBack, Reserved
<1> QED
  BY <1>2 DEF Escaped

-----------------------------------------------------------------------------
(* The encoder, one character after the other.                             *)
Encs(name, g) == g[0] = <<>> /\ \A n \in 1..Len(name) : g[n] = g[n - 1] \o Escaped(name[n])

LEMMA EncsOnce ==
  ASSUME NEW name, NEW f, NEW g, Encs(name, f), Encs(name, g), Len(name) \in Nat
  PROVE  \A n \in 0..Len(name) : f[n] = g[n]
<1> DEFINE m == Len(name)
           wrong == {n \in 0..m : f[n] # g[n]}
<1> SUFFICES ASSUME wrong # {} PROVE FALSE
  OBVIOUS
<1>1. wrong \subseteq Nat
  OBVIOUS
<1>2. PICK n \in wrong : \A y \in wrong : n <= y
  <2> HIDE DEF wrong
  <2> QED
    BY <1>1, LeastNumber
<1>3. n \in 0..m /\ f[n] # g[n]
  OBVIOUS
<1>4. n # 0
  BY <1>3 DEF Encs
<1>5. n - 1 \in 0..m /\ n - 1 \notin wrong /\ n \in 1..m
  BY <1>2, <1>3, <1>4
<1>6. f[n - 1] = g[n - 1]
  BY <1>5
<1>7. f[n] = f[n - 1] \o Escaped(name[n]) /\ g[n] = g[n - 1] \o Escaped(name[n])
  BY <1>5 DEF Encs
<1> QED
  BY <1>3, <1>6, <1>7

LEMMA EncodeUriIs ==
  ASSUME NEW name \in Seq(Bytes)
  PROVE  \E g \in [0..Len(name) -> Seq(Bytes)] : Encs(name, g) /\ UriEncode(name) = g[Len(name)]
<1> DEFINE m == Len(name)
           S == Seq(Bytes)
           after == CHOOSE f : f = [n \in 0..m |-> IF n = 0 THEN <<>> ELSE f[n - 1] \o Escaped(name[n])]
           g == [p \in (1..m) \X S |-> p[2] \o Escaped(name[p[1]])]
<1>1. m \in Nat
  BY LenProperties
<1>2. UriEncode(name) = after[m]
  BY Zenon DEF UriEncode
<1>3. g \in [(1..m) \X S -> S]
  <2>1. ASSUME NEW p \in (1..m) \X S PROVE p[2] \o Escaped(name[p[1]]) \in S
    <3>1. p[2] \in S /\ name[p[1]] \in Bytes
      BY ElementOfSeq DEF m
    <3>2. Escaped(name[p[1]]) \in S
      BY <3>1, EscapedType
    <3> QED
      BY <3>1, <3>2, ConcatProperties
  <2> QED
    BY <2>1
<1>4. \A n \in 1..m, s \in S : g[<<n, s>>] = s \o Escaped(name[n])
  OBVIOUS
<1>5. <<>> \in S
  OBVIOUS
<1> HIDE DEF g, m, S
<1>6. PICK h \in [0..m -> S] : Iterates(h, <<>>, g, m)
  BY <1>1, <1>3, <1>5, IterationExists
<1>7. ASSUME NEW n \in 0..m
      PROVE  h[n] = IF n = 0 THEN <<>> ELSE h[n - 1] \o Escaped(name[n])
  <2>1. n # 0 => n \in 1..m /\ n - 1 \in 0..m
    BY <1>1
  <2>2. n # 0 => h[n] = g[<<n, h[n - 1]>>] /\ h[n - 1] \in S
    BY <1>6, <2>1 DEF Iterates
  <2>3. n # 0 => g[<<n, h[n - 1]>>] = h[n - 1] \o Escaped(name[n])
    BY <1>4, <2>1, <2>2
  <2>4. n = 0 => h[n] = <<>>
    BY <1>6 DEF Iterates
  <2> QED
    BY <2>2, <2>3, <2>4
<1>8. h = [n \in 0..m |-> IF n = 0 THEN <<>> ELSE h[n - 1] \o Escaped(name[n])]
  BY <1>6, <1>7
<1>9. after = [n \in 0..m |-> IF n = 0 THEN <<>> ELSE after[n - 1] \o Escaped(name[n])]
  <2>1. \E f : f = [n \in 0..m |-> IF n = 0 THEN <<>> ELSE f[n - 1] \o Escaped(name[n])]
    BY <1>8
  <2> QED
    BY <2>1
<1> HIDE DEF after
<1>10. \A n \in 1..m : n \in 0..m /\ n # 0
  BY <1>1
<1>11. Encs(name, after) /\ Encs(name, h)
  <2>1. after[0] = <<>> /\ h[0] = <<>>
    BY <1>1, <1>7, <1>9
  <2>2. \A n \in 1..m : after[n] = after[n - 1] \o Escaped(name[n])
    BY <1>9, <1>10
  <2>3. \A n \in 1..m : h[n] = h[n - 1] \o Escaped(name[n])
    BY <1>7, <1>10
  <2> QED
    BY <2>1, <2>2, <2>3 DEF Encs, m
<1>12. after[m] = h[m]
  <2>1. \A n \in 0..m : after[n] = h[n]
    BY <1>1, <1>11, EncsOnce DEF m
  <2> QED
    BY <1>1, <2>1
<1> QED
  BY <1>2, <1>6, <1>11, <1>12 DEF m, S
-----------------------------------------------------------------------------
(* The decoder, one character after the other: path tells which of the two *)
(* it is.                                                                  *)
Step(path, text, s, i) == IF path THEN PathUnescaped(text, s, i) ELSE Unescaped(text, s, i)

States == [out : Seq(Bytes), skip : 0..2, ext : Seq(Bytes)]

Reads(path, text, ext, h) ==
  h[0] = Begin(ext) /\ \A n \in 1..Len(text) : h[n] = Step(path, text, h[n - 1], n)

Reading(o, k, e) == [out |-> o, skip |-> k, ext |-> e]

LEMMA ReadingType ==
  ASSUME NEW o \in Seq(Bytes), NEW k \in 0..2, NEW e \in Seq(Bytes)
  PROVE  /\ Reading(o, k, e) \in States
         /\ Reading(o, k, e).out = o /\ Reading(o, k, e).skip = k /\ Reading(o, k, e).ext = e
  BY DEF Reading, States

LEMMA ExceptOut ==
  ASSUME NEW s \in States, NEW o
  PROVE  [s EXCEPT !.out = o] = Reading(o, s.skip, s.ext)
<1>1. s = Reading(s.out, s.skip, s.ext)
  BY DEF States, Reading
<1> QED
  BY <1>1 DEF Reading

LEMMA ExceptSkip ==
  ASSUME NEW s \in States, NEW o, NEW k
  PROVE  [s EXCEPT !.out = o, !.skip = k] = Reading(o, k, s.ext)
<1>1. [s EXCEPT !.out = o] = Reading(o, s.skip, s.ext)
  BY ExceptOut
<1>2. [Reading(o, s.skip, s.ext) EXCEPT !.skip = k] = Reading(o, k, s.ext)
  BY DEF Reading
<1> QED
  BY <1>1, <1>2, Zenon

LEMMA ExceptExt ==
  ASSUME NEW s \in States, NEW o, NEW e
  PROVE  [s EXCEPT !.out = o, !.ext = e] = Reading(o, s.skip, e)
<1>1. [s EXCEPT !.out = o] = Reading(o, s.skip, s.ext)
  BY ExceptOut
<1>2. [Reading(o, s.skip, s.ext) EXCEPT !.ext = e] = Reading(o, s.skip, e)
  BY DEF Reading
<1> QED
  BY <1>1, <1>2, Zenon

LEMMA UnescapedType ==
  ASSUME NEW t \in Seq(Bytes), NEW i \in 1..Len(t), NEW s \in States
  PROVE  Unescaped(t, s, i) \in States
<1>1. t[i] \in Bytes /\ Space \in Bytes
  BY ElementOfSeq, Reserved
<1>2. s.out \in Seq(Bytes) /\ s.skip \in 0..2 /\ s.ext \in Seq(Bytes)
  BY DEF States
<1>3. CASE s.skip > 0
  <2>1. s.skip - 1 \in 0..2
    BY <1>2, <1>3
  <2>2. Unescaped(t, s, i) = [s EXCEPT !.skip = @ - 1]
    BY <1>3 DEF Unescaped
  <2> QED
    BY <1>2, <2>1, <2>2 DEF States
<1>4. CASE ~(s.skip > 0) /\ t[i] # Percent
  <2> DEFINE c == IF t[i] = Plus THEN Space ELSE t[i]
  <2>1. c \in Bytes
    BY <1>1
  <2>2. Unescaped(t, s, i) = [s EXCEPT !.out = Append(@, c)]
    BY <1>4 DEF Unescaped
  <2> HIDE DEF c
  <2>3. Append(s.out, c) \in Seq(Bytes)
    BY <1>2, <2>1, AppendProperties
  <2> QED
    BY <1>2, <2>2, <2>3 DEF States
<1>5. CASE ~(s.skip > 0) /\ t[i] = Percent /\ Escape(t, i) >= 0
  <2> DEFINE c == Escape(t, i)
  <2>1. c \in Bytes
    BY <1>5, EscapeType
  <2>2. Unescaped(t, s, i) = [s EXCEPT !.out = Append(@, c), !.skip = 2]
    BY <1>5 DEF Unescaped
  <2> HIDE DEF c
  <2>3. Append(s.out, c) \in Seq(Bytes)
    BY <1>2, <2>1, AppendProperties
  <2>4. [s EXCEPT !.out = Append(s.out, c), !.skip = 2] = Reading(Append(s.out, c), 2, s.ext)
    BY ExceptSkip, Zenon
  <2>5. Reading(Append(s.out, c), 2, s.ext) \in States
    <3>1. 2 \in 0..2
      OBVIOUS
    <3> QED
      BY <1>2, <2>3, <3>1, ReadingType
  <2> QED
    BY <2>2, <2>4, <2>5, Zenon
<1>6. CASE ~(s.skip > 0) /\ t[i] = Percent /\ ~(Escape(t, i) >= 0)
  BY <1>6 DEF Unescaped
<1> QED
  BY <1>3, <1>4, <1>5, <1>6

LEMMA StepType ==
  ASSUME NEW path \in BOOLEAN, NEW t \in Seq(Bytes), NEW i \in 1..Len(t), NEW s \in States
  PROVE  Step(path, t, s, i) \in States
<1> DEFINE c == IF t[i] = BackSlash THEN Slash ELSE t[i]
           once == IF s.out = <<>> \/ EndsIn(s.out, c) THEN s.out ELSE Append(s.out, c)
           plain == ~(s.skip > 0 \/ c \in {Percent, Plus})
           u == PathUnescaped(t, s, i)
<1>1. c \in Bytes /\ <<Dot>> \in Seq(Bytes)
  BY ElementOfSeq, Reserved
<1>2. s.out \in Seq(Bytes) /\ s.skip \in 0..2 /\ s.ext \in Seq(Bytes)
  BY DEF States
<1>3. Unescaped(t, s, i) \in States
  BY UnescapedType
<1>4. u = IF ~plain THEN Unescaped(t, s, i)
          ELSE IF c = Slash THEN [s EXCEPT !.out = once, !.ext = <<>>]
          ELSE IF c = Dot THEN [s EXCEPT !.out = once, !.ext = <<Dot>>]
          ELSE [s EXCEPT !.out = Append(@, c), !.ext = IF @ = <<>> THEN @ ELSE Append(@, c)]
  BY DEF PathUnescaped
<1> HIDE DEF c
<1>5. Append(s.out, c) \in Seq(Bytes) /\ Append(s.ext, c) \in Seq(Bytes)
  BY <1>1, <1>2, AppendProperties
<1>6. once \in Seq(Bytes)
  BY <1>2, <1>5
<1> HIDE DEF once, plain, u
<1>7. u \in States
  <2>1. CASE ~plain
    BY <1>3, <1>4, <2>1
  <2>2. CASE plain /\ c = Slash
    <3>1. u = [s EXCEPT !.out = once, !.ext = <<>>]
      BY <1>4, <2>2
    <3>2. [s EXCEPT !.out = once, !.ext = <<>>] = Reading(once, s.skip, <<>>)
      BY ExceptExt, Zenon
    <3>3. <<>> \in Seq(Bytes)
      OBVIOUS
    <3>4. Reading(once, s.skip, <<>>) \in States
      BY <1>2, <1>6, <3>3, ReadingType
    <3> QED
      BY <3>1, <3>2, <3>4, Zenon
  <2>3. CASE plain /\ c # Slash /\ c = Dot
    <3>1. u = [s EXCEPT !.out = once, !.ext = <<Dot>>]
      BY <1>4, <2>3
    <3>2. [s EXCEPT !.out = once, !.ext = <<Dot>>] = Reading(once, s.skip, <<Dot>>)
      BY ExceptExt, Zenon
    <3>3. Reading(once, s.skip, <<Dot>>) \in States
      BY <1>1, <1>2, <1>6, ReadingType
    <3> QED
      BY <3>1, <3>2, <3>3, Zenon
  <2>4. CASE plain /\ c # Slash /\ c # Dot
    <3> DEFINE e == IF s.ext = <<>> THEN s.ext ELSE Append(s.ext, c)
    <3>1. e \in Seq(Bytes)
      BY <1>2, <1>5
    <3>2. u = [s EXCEPT !.out = Append(s.out, c), !.ext = e]
      BY <1>4, <2>4
    <3> HIDE DEF e
    <3>3. [s EXCEPT !.out = Append(s.out, c), !.ext = e] = Reading(Append(s.out, c), s.skip, e)
      BY ExceptExt, Zenon
    <3>4. Reading(Append(s.out, c), s.skip, e) \in States
      BY <1>2, <1>5, <3>1, ReadingType
    <3> QED
      BY <3>2, <3>3, <3>4, Zenon
  <2> QED
    BY <2>1, <2>2, <2>3, <2>4
<1> QED
  BY <1>3, <1>7 DEF Step, u

(* The decoder as a recursive function.                                    *)
IsDecoder(path, text, ext, after) ==
  after = CHOOSE f : f = [n \in 0..Len(text) |->
                            IF n = 0 THEN Begin(ext) ELSE Step(path, text, f[n - 1], n)]

IsRead(path, text, ext, last) ==
  \E h \in [0..Len(text) -> States] : Reads(path, text, ext, h) /\ last = h[Len(text)]

LEMMA ReadsOnce ==
  ASSUME NEW path, NEW text, NEW ext, NEW f, NEW g,
         Reads(path, text, ext, f), Reads(path, text, ext, g), Len(text) \in Nat
  PROVE  \A n \in 0..Len(text) : f[n] = g[n]
<1> DEFINE m == Len(text)
           wrong == {n \in 0..m : f[n] # g[n]}
<1> SUFFICES ASSUME wrong # {} PROVE FALSE
  OBVIOUS
<1>1. wrong \subseteq Nat
  OBVIOUS
<1>2. PICK n \in wrong : \A y \in wrong : n <= y
  <2> HIDE DEF wrong
  <2> QED
    BY <1>1, LeastNumber
<1>3. n \in 0..m /\ f[n] # g[n]
  OBVIOUS
<1>4. n # 0
  BY <1>3 DEF Reads
<1>5. n - 1 \in 0..m /\ n - 1 \notin wrong /\ n \in 1..m
  BY <1>2, <1>3, <1>4
<1>6. f[n - 1] = g[n - 1]
  BY <1>5
<1>7. f[n] = Step(path, text, f[n - 1], n) /\ g[n] = Step(path, text, g[n - 1], n)
  BY <1>5 DEF Reads
<1> QED
  BY <1>3, <1>6, <1>7

(* What begins like the decoder and goes on like it, is it: there is one.  *)
LEMMA Decoder ==
  ASSUME NEW path \in BOOLEAN, NEW text \in Seq(Bytes), NEW ext \in Seq(Bytes), NEW after,
         IsDecoder(path, text, ext, after)
  PROVE  IsRead(path, text, ext, after[Len(text)])
<1> DEFINE m == Len(text)
           S == States
           g == [p \in (1..m) \X S |-> Step(path, text, p[2], p[1])]
<1>1. m \in Nat
  BY LenProperties
<1>3. g \in [(1..m) \X S -> S]
  <2>1. ASSUME NEW p \in (1..m) \X S PROVE Step(path, text, p[2], p[1]) \in S
    BY StepType
  <2> QED
    BY <2>1
<1>4. \A n \in 1..m, s \in S : g[<<n, s>>] = Step(path, text, s, n)
  OBVIOUS
<1>5. Begin(ext) \in S
  BY DEF Begin, States
<1> HIDE DEF g, m, S
<1>6. PICK h \in [0..m -> S] : Iterates(h, Begin(ext), g, m)
  BY <1>1, <1>3, <1>5, IterationExists
<1>7. ASSUME NEW n \in 0..m
      PROVE  h[n] = IF n = 0 THEN Begin(ext) ELSE Step(path, text, h[n - 1], n)
  <2>1. n # 0 => n \in 1..m /\ n - 1 \in 0..m
    BY <1>1
  <2>2. n # 0 => h[n] = g[<<n, h[n - 1]>>] /\ h[n - 1] \in S
    BY <1>6, <2>1 DEF Iterates
  <2>3. n # 0 => g[<<n, h[n - 1]>>] = Step(path, text, h[n - 1], n)
    BY <1>4, <2>1, <2>2
  <2>4. n = 0 => h[n] = Begin(ext)
    BY <1>6 DEF Iterates
  <2> QED
    BY <2>2, <2>3, <2>4
<1>8. h = [n \in 0..m |-> IF n = 0 THEN Begin(ext) ELSE Step(path, text, h[n - 1], n)]
  BY <1>6, <1>7
<1>9. after = [n \in 0..m |-> IF n = 0 THEN Begin(ext) ELSE Step(path, text, after[n - 1], n)]
  <2>1. \E f : f = [n \in 0..m |-> IF n = 0 THEN Begin(ext) ELSE Step(path, text, f[n - 1], n)]
    BY <1>8
  <2>2. after = CHOOSE f : f = [n \in 0..m |-> IF n = 0 THEN Begin(ext) ELSE Step(path, text, f[n - 1], n)]
    BY DEF m, IsDecoder
  <2> QED
    BY <2>1, <2>2
<1>10. \A n \in 1..m : n \in 0..m /\ n # 0
  BY <1>1
<1>11. Reads(path, text, ext, after) /\ Reads(path, text, ext, h)
  <2>1. after[0] = Begin(ext) /\ h[0] = Begin(ext)
    BY <1>1, <1>7, <1>9
  <2>2. \A n \in 1..m : after[n] = Step(path, text, after[n - 1], n)
    BY <1>9, <1>10
  <2>3. \A n \in 1..m : h[n] = Step(path, text, h[n - 1], n)
    BY <1>7, <1>10
  <2> QED
    BY <2>1, <2>2, <2>3 DEF Reads, m
<1>12. after[m] = h[m]
  <2>1. \A n \in 0..m : after[n] = h[n]
    BY <1>1, <1>11, ReadsOnce DEF m
  <2> QED
    BY <1>1, <2>1
<1> QED
  BY <1>6, <1>11, <1>12 DEF m, S, IsRead

LEMMA DecodeUriIs ==
  ASSUME NEW text \in Seq(Bytes)
  PROVE  \E h \in [0..Len(text) -> States] :
           Reads(FALSE, text, <<>>, h) /\ UriDecode(text) = h[Len(text)].out
<1> DEFINE after == CHOOSE f : f = [n \in 0..Len(text) |->
                      IF n = 0 THEN Begin(<<>>) ELSE Unescaped(text, f[n - 1], n)]
<1>1. UriDecode(text) = after[Len(text)].out
  BY Zenon DEF UriDecode
<1>2. IsDecoder(FALSE, text, <<>>, after)
  BY Zenon DEF IsDecoder, Step
<1>3. <<>> \in Seq(Bytes)
  OBVIOUS
<1> HIDE DEF after
<1>4. IsRead(FALSE, text, <<>>, after[Len(text)])
  BY <1>2, <1>3, Decoder
<1> QED
  BY <1>1, <1>4 DEF IsRead

LEMMA DecodeExtIs ==
  ASSUME NEW text \in Seq(Bytes), NEW ext \in Seq(Bytes)
  PROVE  \E h \in [0..Len(text) -> States] :
           /\ Reads(TRUE, text, ext, h)
           /\ UriDecodeExt(text, ext)
                = [uri |-> h[Len(text)].out, ext |-> MakeLower(h[Len(text)].ext)]
<1> DEFINE after == CHOOSE f : f = [n \in 0..Len(text) |->
                      IF n = 0 THEN Begin(ext) ELSE PathUnescaped(text, f[n - 1], n)]
<1>1. UriDecodeExt(text, ext)
        = [uri |-> after[Len(text)].out, ext |-> MakeLower(after[Len(text)].ext)]
  BY Zenon DEF UriDecodeExt
<1>2. IsDecoder(TRUE, text, ext, after)
  BY Zenon DEF IsDecoder, Step
<1> HIDE DEF after
<1>4. IsRead(TRUE, text, ext, after[Len(text)])
  BY <1>2, Decoder
<1> QED
  BY <1>1, <1>4 DEF IsRead

-----------------------------------------------------------------------------
(* One character that is read back.                                        *)
At(text, b, part) ==
  b + Len(part) <= Len(text) /\ \A i \in 1..Len(part) : text[b + i] = part[i]

Once(out, c) == IF out = <<>> \/ EndsIn(out, c) THEN out ELSE Append(out, c)

Wrote(path, s, c) ==
  IF path /\ Unreserved(c)
  THEN IF c = Dot THEN Reading(Once(s.out, c), 0, <<Dot>>)
       ELSE Reading(Append(s.out, c), 0, IF s.ext = <<>> THEN s.ext ELSE Append(s.ext, c))
  ELSE Reading(Append(s.out, c), 0, s.ext)

LEMMA BothUnescape ==
  ASSUME NEW path \in BOOLEAN, NEW t, NEW i, NEW s,
         s.skip > 0 \/ t[i] \in {Percent, Plus}
  PROVE  Step(path, t, s, i) = Unescaped(t, s, i)
<1>1. t[i] \in {Percent, Plus} => t[i] # BackSlash
  BY DEF Percent, Plus, BackSlash
<1> QED
  BY <1>1 DEF Step, PathUnescaped

LEMMA Skips ==
  ASSUME NEW path \in BOOLEAN, NEW t, NEW i, NEW s \in States, s.skip > 0
  PROVE  Step(path, t, s, i) = Reading(s.out, s.skip - 1, s.ext)
<1>1. s = Reading(s.out, s.skip, s.ext)
  BY DEF States, Reading
<1>2. [s EXCEPT !.skip = @ - 1] = Reading(s.out, s.skip - 1, s.ext)
  BY <1>1 DEF Reading
<1>3. Unescaped(t, s, i) = [s EXCEPT !.skip = @ - 1]
  BY DEF Unescaped
<1>4. Step(path, t, s, i) = Unescaped(t, s, i)
  BY BothUnescape
<1> QED
  BY <1>2, <1>3, <1>4, Zenon

LEMMA TakesPlain ==
  ASSUME NEW path \in BOOLEAN, NEW t \in Seq(Bytes), NEW i \in 1..Len(t), NEW s \in States,
         s.skip = 0, Unreserved(t[i])
  PROVE  Step(path, t, s, i) = Wrote(path, s, t[i])
<1> DEFINE c == t[i]
<1>1. c \in Bytes
  BY ElementOfSeq
<1>2. c \notin {Percent, Plus, Slash, BackSlash} /\ Unreserved(c)
  BY <1>1, Reserved
<1> DEFINE k == IF t[i] = BackSlash THEN Slash ELSE t[i]
           once == IF s.out = <<>> \/ EndsIn(s.out, k) THEN s.out ELSE Append(s.out, k)
           u == PathUnescaped(t, s, i)
<1>6. u = IF s.skip > 0 \/ k \in {Percent, Plus} THEN Unescaped(t, s, i)
          ELSE IF k = Slash THEN [s EXCEPT !.out = once, !.ext = <<>>]
          ELSE IF k = Dot THEN [s EXCEPT !.out = once, !.ext = <<Dot>>]
          ELSE [s EXCEPT !.out = Append(@, k), !.ext = IF @ = <<>> THEN @ ELSE Append(@, k)]
  BY DEF PathUnescaped
<1>7. k = c /\ once = Once(s.out, c)
  BY <1>2 DEF Once
<1>8. path => Step(path, t, s, i) = u
  BY DEF Step
<1> HIDE DEF c, k, once, u
<1>3. CASE ~path
  <2>1. Step(path, t, s, i) = [s EXCEPT !.out = Append(s.out, c)]
    BY <1>2, <1>3 DEF Step, Unescaped, c
  <2>2. [s EXCEPT !.out = Append(s.out, c)] = Reading(Append(s.out, c), s.skip, s.ext)
    BY ExceptOut, Zenon
  <2>3. Step(path, t, s, i) = Reading(Append(s.out, c), 0, s.ext)
    BY <2>1, <2>2, Zenon
  <2> QED
    BY <1>3, <2>3 DEF Wrote, c
<1>4. CASE path /\ c = Dot
  <2>1. Step(path, t, s, i) = [s EXCEPT !.out = Once(s.out, c), !.ext = <<Dot>>]
    <3>1. k = Dot /\ k # Slash /\ k \notin {Percent, Plus} /\ ~(s.skip > 0)
      BY <1>2, <1>4, <1>7
    <3>2. u = [s EXCEPT !.out = once, !.ext = <<Dot>>]
      BY <1>6, <3>1
    <3> QED
      BY <1>4, <1>7, <1>8, <3>2, Zenon
  <2>2. [s EXCEPT !.out = Once(s.out, c), !.ext = <<Dot>>] = Reading(Once(s.out, c), s.skip, <<Dot>>)
    BY ExceptExt, Zenon
  <2>3. Step(path, t, s, i) = Reading(Once(s.out, c), 0, <<Dot>>)
    BY <2>1, <2>2, Zenon
  <2> QED
    BY <1>2, <1>4, <2>3 DEF Wrote, c
<1>5. CASE path /\ c # Dot
  <2> DEFINE e == IF s.ext = <<>> THEN s.ext ELSE Append(s.ext, c)
  <2>1. Step(path, t, s, i) = [s EXCEPT !.out = Append(s.out, c), !.ext = e]
    <3>1. k # Dot /\ k # Slash /\ k \notin {Percent, Plus} /\ ~(s.skip > 0)
      BY <1>2, <1>5, <1>7
    <3>2. u = [s EXCEPT !.out = Append(s.out, k),
                        !.ext = IF s.ext = <<>> THEN s.ext ELSE Append(s.ext, k)]
      BY <1>6, <3>1
    <3> QED
      BY <1>5, <1>7, <1>8, <3>2, Zenon
  <2>2. [s EXCEPT !.out = Append(s.out, c), !.ext = e] = Reading(Append(s.out, c), s.skip, e)
    BY ExceptExt, Zenon
  <2>3. Step(path, t, s, i) = Reading(Append(s.out, c), 0, e)
    BY <2>1, <2>2, Zenon
  <2> QED
    BY <1>2, <1>5, <2>3 DEF Wrote, c
<1> QED
  BY <1>3, <1>4, <1>5

LEMMA Takes ==
  ASSUME NEW path \in BOOLEAN, NEW t \in Seq(Bytes), NEW ext,
         NEW h \in [0..Len(t) -> States], Reads(path, t, ext, h),
         NEW b \in 0..Len(t), NEW c \in Bytes, At(t, b, Escaped(c)), h[b].skip = 0
  PROVE  h[b + Len(Escaped(c))] = Wrote(path, h[b], c)
<1> DEFINE s == h[b]
<1>1. Len(t) \in Nat /\ s \in States
  BY LenProperties
<1>2. \A n \in 1..Len(t) : h[n] = Step(path, t, h[n - 1], n)
  BY DEF Reads
<1>3. CASE Unreserved(c)
  <2>1. Escaped(c) = <<c>> /\ Len(Escaped(c)) = 1
    BY <1>3, EscapedType
  <2>2. b + 1 \in 1..Len(t) /\ t[b + 1] = c
    BY <1>1, <2>1 DEF At
  <2>3. h[b + 1] = Step(path, t, h[b], b + 1)
    BY <1>2, <2>2
  <2>4. Step(path, t, h[b], b + 1) = Wrote(path, h[b], t[b + 1])
    BY <1>1, <1>3, <2>2, TakesPlain
  <2> QED
    BY <2>1, <2>2, <2>3, <2>4
<1>4. CASE ~Unreserved(c)
  <2> DEFINE E == Escaped(c)
  <2>1. E = <<Percent, IntToHex(c \div 16), IntToHex(c)>> /\ Len(E) = 3
    BY <1>4, EscapedType
  <2>2. b + 3 <= Len(t) /\ t[b + 1] = Percent /\ t[b + 2] = IntToHex(c \div 16)
        /\ t[b + 3] = IntToHex(c)
    <3>1. E[1] = Percent /\ E[2] = IntToHex(c \div 16) /\ E[3] = IntToHex(c)
      BY <2>1
    <3>2. b + Len(E) <= Len(t) /\ \A i \in 1..Len(E) : t[b + i] = E[i]
      BY DEF At
    <3> HIDE DEF E
    <3> QED
      BY <2>1, <3>1, <3>2
  <2> HIDE DEF E
  <2>3. b + 1 \in 1..Len(t) /\ b + 2 \in 1..Len(t) /\ b + 3 \in 1..Len(t)
    BY <1>1, <2>2
  <2>4. Escape(t, b + 1) = c
    <3> DEFINE i == b + 1
    <3>1. i \in Nat \ {0} /\ i + 2 <= Len(t) /\ i + 1 = b + 2 /\ i + 2 = b + 3
      BY <1>1, <2>2
    <3> HIDE DEF i
    <3>2. Escape(t, i) = c
      BY <2>2, <3>1, EscapeIs
    <3> QED
      BY <3>2 DEF i
  <2>5. h[b + 1] = Reading(Append(s.out, c), 2, s.ext)
    <3>1. h[b + 1] = Step(path, t, s, b + 1)
      BY <1>2, <2>3
    <3>2. Step(path, t, s, b + 1) = Unescaped(t, s, b + 1)
      BY <2>2, BothUnescape
    <3>3. c >= 0 /\ ~(s.skip > 0)
      BY DEF Bytes
    <3> HIDE DEF s
    <3>4. Unescaped(t, s, b + 1) = [s EXCEPT !.out = Append(s.out, c), !.skip = 2]
      BY <2>2, <2>4, <3>3 DEF Unescaped
    <3>5. [s EXCEPT !.out = Append(s.out, c), !.skip = 2] = Reading(Append(s.out, c), 2, s.ext)
      BY <1>1, ExceptSkip, Zenon
    <3> QED
      BY <3>1, <3>2, <3>4, <3>5, Zenon
  <2>6. h[b + 2] = Reading(Append(s.out, c), 1, s.ext)
    <3> DEFINE u == h[b + 1]
    <3>1. u \in States /\ h[b + 2] = Step(path, t, u, b + 2)
      BY <1>1, <1>2, <2>3
    <3>2. u.out = Append(s.out, c) /\ u.skip = 2 /\ u.ext = s.ext
      BY <2>5 DEF Reading
    <3> HIDE DEF u
    <3>3. u.skip > 0 /\ u.skip - 1 = 1
      BY <3>2
    <3>4. Step(path, t, u, b + 2) = Reading(u.out, u.skip - 1, u.ext)
      BY <3>1, <3>3, Skips, SMTT(30)
    <3> QED
      BY <3>1, <3>2, <3>3, <3>4
  <2>7. h[b + 3] = Reading(Append(s.out, c), 0, s.ext)
    <3> DEFINE u == h[b + 2]
    <3>1. u \in States /\ h[b + 3] = Step(path, t, u, b + 3)
      BY <1>1, <1>2, <2>3
    <3>2. u.out = Append(s.out, c) /\ u.skip = 1 /\ u.ext = s.ext
      BY <2>6 DEF Reading
    <3> HIDE DEF u
    <3>3. u.skip > 0 /\ u.skip - 1 = 0
      BY <3>2
    <3>4. Step(path, t, u, b + 3) = Reading(u.out, u.skip - 1, u.ext)
      BY <3>1, <3>3, Skips, SMTT(30)
    <3> QED
      BY <3>1, <3>2, <3>3, <3>4
  <2>8. Wrote(path, h[b], c) = Reading(Append(s.out, c), 0, s.ext)
    BY <1>4 DEF Wrote
  <2> QED
    BY <2>1, <2>7, <2>8 DEF E
<1> QED
  BY <1>3, <1>4

-----------------------------------------------------------------------------
(* All the characters of a name that are read back.                        *)
LastTo(name, d, k) == name[d] = Dot /\ \A i \in (d + 1)..k : name[i] # Dot

ExtIs(name, k, e) ==
  /\ (\A i \in 1..k : name[i] # Dot) => e = <<>>
  /\ \A d \in 1..k : LastTo(name, d, k) =>
       /\ e # <<>> /\ e[1] = Dot
       /\ (\A i \in d..k : Unreserved(name[i])) => e = SubSeq(name, d, k)

Reached(path, o, name, k, s) ==
  /\ s.skip = 0 /\ s.out = o \o SubSeq(name, 1, k)
  /\ path => ExtIs(name, k, s.ext)

Undotted(name) == (name # <<>> => name[1] # Dot) /\ ~TwoDots(name)

LEMMA Longer ==
  ASSUME NEW name \in Seq(Bytes), NEW d \in Nat \ {0}, NEW k \in 1..Len(name), d <= k
  PROVE  Append(SubSeq(name, d, k - 1), name[k]) = SubSeq(name, d, k)
<1>1. Len(name) \in Nat /\ k \in Nat /\ d \in 1..Len(name)
  BY LenProperties
<1> DEFINE a == SubSeq(name, d, k - 1)
           l == SubSeq(name, d, k)
           e == Append(a, name[k])
<1>2. a \in Seq(Bytes) /\ Len(a) = k - d /\ \A i \in 1..(k - d) : a[i] = name[d + i - 1]
  <2>1. \A i \in d..(k - 1) : i \in 1..Len(name)
    BY <1>1
  <2>2. a \in Seq(Bytes)
    <3>1. \A i \in d..(k - 1) : name[i] \in Bytes
      BY <2>1, ElementOfSeq
    <3> QED
      BY <1>1, <3>1, SubSeqProperties
  <2>3. Len(a) = k - d
    BY <1>1, SubSeqProperties
  <2>4. \A i \in 1..(k - d) : a[i] = name[d + i - 1]
    BY <1>1, SubSeqProperties
  <2> QED
    BY <2>2, <2>3, <2>4
<1>3. l \in Seq(Bytes) /\ Len(l) = k - d + 1 /\ \A i \in 1..(k - d + 1) : l[i] = name[d + i - 1]
  <2>1. \A i \in d..k : i \in 1..Len(name)
    BY <1>1
  <2>2. l \in Seq(Bytes)
    <3>1. \A i \in d..k : name[i] \in Bytes
      BY <2>1, ElementOfSeq
    <3> QED
      BY <1>1, <3>1, SubSeqProperties
  <2>3. Len(l) = k - d + 1
    BY <1>1, SubSeqProperties
  <2>4. \A i \in 1..(k - d + 1) : l[i] = name[d + i - 1]
    BY <1>1, SubSeqProperties
  <2> QED
    BY <2>2, <2>3, <2>4
<1> HIDE DEF a, l
<1>4. name[k] \in Bytes
  BY ElementOfSeq
<1>5. e \in Seq(Bytes) /\ Len(e) = k - d + 1 /\ e[k - d + 1] = name[k]
      /\ \A i \in 1..(k - d) : e[i] = a[i]
  BY <1>1, <1>2, <1>4, AppendProperties
<1> HIDE DEF e
<1>6. ASSUME NEW i \in 1..(k - d + 1) PROVE e[i] = l[i]
  <2>1. CASE i = k - d + 1
    <3>1. d + i - 1 = k
      BY <1>1, <2>1
    <3> QED
      BY <1>3, <1>5, <2>1, <3>1
  <2>2. CASE i # k - d + 1
    <3>1. i \in 1..(k - d)
      BY <1>1, <2>2
    <3> QED
      BY <1>2, <1>3, <1>5, <3>1
  <2> QED
    BY <2>1, <2>2
<1>7. e = l
  BY <1>3, <1>5, <1>6, SeqEqual
<1> QED
  BY <1>7 DEF e, a, l

(* What has been written stays: the encodings of the beginnings of a name  *)
(* are the beginnings of its encoding.                                     *)
Begins(a, b) == Len(a) <= Len(b) /\ \A i \in 1..Len(a) : b[i] = a[i]

LEMMA BeginsOn ==
  ASSUME NEW a \in Seq(Bytes), NEW b \in Seq(Bytes), NEW e \in Seq(Bytes), Begins(a, b)
  PROVE  Begins(a, b \o e)
<1>1. Len(a) \in Nat /\ Len(b) \in Nat /\ Len(e) \in Nat
  BY LenProperties
<1>2. Len(a) <= Len(b) /\ \A i \in 1..Len(a) : b[i] = a[i]
  BY DEF Begins
<1>3. Len(b \o e) = Len(b) + Len(e)
  BY ConcatProperties
<1>4. \A i \in 1..Len(b) : (b \o e)[i] = b[i]
  BY <1>1, ConcatProperties
<1> DEFINE w == b \o e
<1> HIDE DEF w
<1>5. Len(a) <= Len(w)
  BY <1>1, <1>2, <1>3 DEF w
<1>6. ASSUME NEW i \in 1..Len(a) PROVE w[i] = a[i]
  <2>1. i \in 1..Len(b)
    BY <1>1, <1>2
  <2> QED
    BY <1>2, <1>4, <2>1 DEF w
<1> QED
  BY <1>5, <1>6 DEF Begins, w

LEMMA Grows ==
  ASSUME NEW name \in Seq(Bytes), NEW g \in [0..Len(name) -> Seq(Bytes)], Encs(name, g),
         NEW k \in 0..Len(name)
  PROVE  \A j \in k..Len(name) : Begins(g[k], g[j])
<1> DEFINE m == Len(name)
           wrong == {j \in k..m : ~Begins(g[k], g[j])}
<1>0. m \in Nat /\ k \in Nat
  BY LenProperties
<1> SUFFICES ASSUME wrong # {} PROVE FALSE
  OBVIOUS
<1>1. wrong \subseteq Nat
  BY <1>0
<1>2. PICK j \in wrong : \A y \in wrong : j <= y
  <2> HIDE DEF wrong
  <2> QED
    BY <1>1, LeastNumber
<1>3. j \in k..m /\ ~Begins(g[k], g[j])
  OBVIOUS
<1>4. g[k] \in Seq(Bytes)
  BY <1>0
<1>5. j # k
  <2>1. Begins(g[k], g[k])
    BY <1>4, LenProperties DEF Begins
  <2> QED
    BY <1>3, <2>1
<1>6. j - 1 \in k..m /\ j - 1 \notin wrong /\ j \in 1..m /\ j - 1 \in 0..m
  <2>1. j \in k..m /\ j # k
    BY <1>3, <1>5
  <2>2. j - 1 \in k..m /\ j \in 1..m /\ j - 1 \in 0..m /\ ~(j <= j - 1)
    <3> HIDE DEF wrong, m
    <3> QED
      BY <1>0, <2>1
  <2>3. j - 1 \notin wrong
    <3> HIDE DEF wrong
    <3> QED
      BY <1>2, <2>2
  <2> QED
    BY <2>2, <2>3
<1>7. Begins(g[k], g[j - 1]) /\ g[j - 1] \in Seq(Bytes)
  BY <1>6
<1>8. g[j] = g[j - 1] \o Escaped(name[j])
  BY <1>6 DEF Encs
<1>9. name[j] \in Bytes
  BY <1>6, ElementOfSeq
<1>10. Escaped(name[j]) \in Seq(Bytes)
  BY <1>9, EscapedType
<1> DEFINE e == Escaped(name[j])
           a == g[k]
           b == g[j - 1]
<1> HIDE DEF e, a, b
<1>11. Begins(a, b \o e)
  BY <1>4, <1>7, <1>10, BeginsOn DEF e, a, b
<1> QED
  BY <1>3, <1>8, <1>11 DEF e, a, b

(* Where the encoding stands, that of each character stands in its place.  *)
LEMMA CharacterAt ==
  ASSUME NEW name \in Seq(Bytes), NEW g \in [0..Len(name) -> Seq(Bytes)], Encs(name, g),
         NEW t \in Seq(Bytes), NEW b \in Nat, At(t, b, g[Len(name)]), NEW k \in 1..Len(name)
  PROVE  /\ At(t, b + Len(g[k - 1]), Escaped(name[k]))
         /\ Len(g[k]) = Len(g[k - 1]) + Len(Escaped(name[k]))
         /\ b + Len(g[k]) <= Len(t)
<1> DEFINE m == Len(name)
           e == Escaped(name[k])
           a == g[k - 1]
           w == g[k]
           z == g[m]
<1>1. m \in Nat /\ k - 1 \in 0..m /\ k \in 0..m /\ m \in k..m /\ Len(t) \in Nat
  BY LenProperties
<1>2. name[k] \in Bytes
  BY ElementOfSeq
<1>3. e \in Seq(Bytes)
  BY <1>2, EscapedType
<1>4. a \in Seq(Bytes) /\ w \in Seq(Bytes) /\ z \in Seq(Bytes)
  <2>1. a \in Seq(Bytes)
    BY <1>1
  <2>2. w \in Seq(Bytes)
    BY <1>1
  <2>3. z \in Seq(Bytes)
    BY <1>1
  <2> QED
    BY <2>1, <2>2, <2>3
<1>5. w = a \o e
  BY DEF Encs
<1>6. Begins(w, z)
  BY <1>1, Grows
<1>7. b + Len(z) <= Len(t) /\ \A i \in 1..Len(z) : t[b + i] = z[i]
  BY DEF At
<1> HIDE DEF e, a, w, z, m
<1>8. Len(a) \in Nat /\ Len(e) \in Nat /\ Len(z) \in Nat
  BY <1>3, <1>4, LenProperties
<1>9. Len(w) = Len(a) + Len(e) /\ \A i \in 1..(Len(a) + Len(e)) :
                                    w[i] = IF i <= Len(a) THEN a[i] ELSE e[i - Len(a)]
  BY <1>3, <1>4, <1>5, ConcatProperties
<1>10. Len(w) <= Len(z) /\ \A i \in 1..Len(w) : z[i] = w[i]
  BY <1>6 DEF Begins
<1>11. b + Len(w) <= Len(t)
  BY <1>1, <1>7, <1>8, <1>9, <1>10
<1>12. ASSUME NEW i \in 1..Len(e) PROVE t[b + Len(a) + i] = e[i]
  <2> DEFINE n == Len(a) + i
  <2>1. n \in 1..(Len(a) + Len(e)) /\ ~(n <= Len(a)) /\ n - Len(a) = i /\ n \in 1..Len(w)
        /\ n \in 1..Len(z) /\ b + Len(a) + i = b + n
    BY <1>8, <1>9, <1>10
  <2> HIDE DEF n
  <2>2. w[n] = e[i]
    BY <1>9, <2>1
  <2>3. t[b + n] = w[n]
    BY <1>7, <1>10, <2>1
  <2> QED
    BY <2>1, <2>2, <2>3
<1>13. b + Len(a) + Len(e) <= Len(t)
  BY <1>8, <1>9, <1>11
<1>14. At(t, b + Len(a), e)
  BY <1>12, <1>13 DEF At
<1> QED
  BY <1>9, <1>11, <1>14 DEF e, a, w

(* A sequence that becomes longer by one.                                  *)
LEMMA AppendBehind ==
  ASSUME NEW o \in Seq(Bytes), NEW a \in Seq(Bytes), NEW c \in Bytes
  PROVE  Append(o \o a, c) = o \o Append(a, c)
<1> DEFINE s == Append(o \o a, c)
           r == o \o Append(a, c)
<1>1. Len(o) \in Nat /\ Len(a) \in Nat
  BY LenProperties
<1>2. o \o a \in Seq(Bytes) /\ Append(a, c) \in Seq(Bytes)
  BY ConcatProperties, AppendProperties
<1>3. s = (o \o a) \o <<c>> /\ Append(a, c) = a \o <<c>>
  BY <1>2, AppendIsConcat
<1>4. <<c>> \in Seq(Bytes)
  OBVIOUS
<1>5. (o \o a) \o <<c>> = o \o (a \o <<c>>)
  BY <1>4, ConcatAssociative
<1> QED
  BY <1>3, <1>5

LEMMA ReachesOut ==
  ASSUME NEW name \in Seq(Bytes), NEW o \in Seq(Bytes), NEW k \in 1..Len(name)
  PROVE  Append(o \o SubSeq(name, 1, k - 1), name[k]) = o \o SubSeq(name, 1, k)
<1> DEFINE a == SubSeq(name, 1, k - 1)
<1>1. Len(name) \in Nat /\ name[k] \in Bytes
  BY LenProperties, ElementOfSeq
<1>2. a \in Seq(Bytes)
  <2>1. \A i \in 1..(k - 1) : name[i] \in Bytes
    BY <1>1, ElementOfSeq
  <2> QED
    BY <1>1, <2>1, SubSeqProperties
<1>3. Append(a, name[k]) = SubSeq(name, 1, k)
  BY <1>1, Longer
<1> HIDE DEF a
<1>4. Append(o \o a, name[k]) = o \o Append(a, name[k])
  BY <1>1, <1>2, AppendBehind
<1> QED
  BY <1>3, <1>4 DEF a

(* No dot is dropped: none leads, and none follows another.                *)
LEMMA ReachesDot ==
  ASSUME NEW name \in Seq(Bytes), NEW o \in Seq(Bytes), NEW k \in 1..Len(name),
         Undotted(name), name[k] = Dot
  PROVE  Once(o \o SubSeq(name, 1, k - 1), Dot) = Append(o \o SubSeq(name, 1, k - 1), Dot)
<1> DEFINE a == SubSeq(name, 1, k - 1)
           w == o \o a
<1>1. Len(name) \in Nat /\ Len(o) \in Nat
  BY LenProperties
<1>2. name # <<>> /\ name[1] # Dot /\ ~TwoDots(name)
  BY <1>1 DEF Undotted
<1>3. k # 1
  BY <1>2
<1>4. k - 1 \in 1..(Len(name) - 1)
  BY <1>1, <1>3
<1>5. name[k - 1] # Dot
  <2> DEFINE i == k - 1
  <2>1. i \in 1..(Len(name) - 1) /\ name[i + 1] = Dot
    BY <1>1, <1>4
  <2> HIDE DEF i
  <2>2. name[i] # Dot
    BY <1>2, <2>1 DEF TwoDots
  <2> QED
    BY <2>2 DEF i
<1>6. a \in Seq(Bytes) /\ Len(a) = k - 1 /\ a[k - 1] = name[k - 1]
  <2>1. \A i \in 1..(k - 1) : name[i] \in Bytes
    BY <1>1, ElementOfSeq
  <2>2. a \in Seq(Bytes) /\ Len(a) = k - 1 /\ \A i \in 1..(k - 1) : a[i] = name[i]
    BY <1>1, <1>4, <2>1, SubSeqProperties
  <2> QED
    BY <1>4, <2>2
<1> HIDE DEF a
<1>7. w \in Seq(Bytes) /\ Len(w) = Len(o) + (k - 1) /\ w[Len(o) + (k - 1)] = a[k - 1]
  <2>1. w \in Seq(Bytes) /\ Len(w) = Len(o) + Len(a)
    BY <1>6, ConcatProperties
  <2>2. \A i \in 1..(Len(o) + Len(a)) : w[i] = IF i <= Len(o) THEN o[i] ELSE a[i - Len(o)]
    BY <1>6, ConcatProperties
  <2> DEFINE n == Len(o) + (k - 1)
  <2>3. n \in 1..(Len(o) + Len(a)) /\ ~(n <= Len(o)) /\ n - Len(o) = k - 1
    BY <1>1, <1>4, <1>6
  <2> HIDE DEF n, w
  <2>4. w[n] = a[k - 1]
    BY <2>2, <2>3
  <2> QED
    BY <1>6, <2>1, <2>4 DEF n
<1> HIDE DEF w
<1>8. w # <<>> /\ ~EndsIn(w, Dot)
  <2>1. Len(w) # 0
    BY <1>1, <1>4, <1>7
  <2>2. w # <<>>
    BY <2>1
  <2>3. Last(w) = w[Len(w)]
    BY DEF Last
  <2>4. Last(w) = name[k - 1]
    BY <1>6, <1>7, <2>3
  <2> QED
    BY <1>5, <2>2, <2>4 DEF EndsIn
<1> QED
  BY <1>8 DEF Once, w, a

LEMMA ReachesExt ==
  ASSUME NEW name \in Seq(Bytes), NEW k \in 1..Len(name), NEW s \in States, NEW e,
         ExtIs(name, k - 1, s.ext),
         e = Wrote(TRUE, s, name[k]).ext
  PROVE  ExtIs(name, k, e)
<1> DEFINE c == name[k]
           x == s.ext
<1>1. Len(name) \in Nat /\ c \in Bytes /\ x \in Seq(Bytes) /\ k - 1 \in Nat /\ k \in Nat
  BY LenProperties, ElementOfSeq DEF States
<1>2. (\A i \in 1..(k - 1) : name[i] # Dot) => x = <<>>
  BY DEF ExtIs
<1>3. \A d \in 1..(k - 1) : LastTo(name, d, k - 1) =>
        /\ x # <<>> /\ x[1] = Dot
        /\ (\A i \in d..(k - 1) : Unreserved(name[i])) => x = SubSeq(name, d, k - 1)
  BY DEF ExtIs
<1>4. CASE c = Dot
  <2>1. Unreserved(c)
    BY <1>1, <1>4, Reserved
  <2>2. e = <<Dot>>
    BY <1>4, <2>1 DEF Wrote, Reading
  <2>3. ASSUME NEW d \in 1..k, LastTo(name, d, k) PROVE d = k
    <3>1. d # k => k \in (d + 1)..k
      BY <1>1
    <3> QED
      BY <1>4, <2>3, <3>1 DEF LastTo
  <2>4. SubSeq(name, k, k) = <<Dot>>
    <3>1. SubSeq(name, k, k) = <<name[k]>>
      <4>1. SubSeq(name, k, k - 1) = <<>>
        BY <1>1, SubSeqEmpty
      <4>2. Append(SubSeq(name, k, k - 1), name[k]) = SubSeq(name, k, k)
        BY <1>1, Longer
      <4>3. Append(<<>>, name[k]) = <<name[k]>>
        OBVIOUS
      <4> QED
        BY <4>1, <4>2, <4>3, Zenon
    <3> QED
      BY <1>4, <3>1
  <2>5. <<Dot>> # <<>> /\ <<Dot>>[1] = Dot
    OBVIOUS
  <2>6. ~ \A i \in 1..k : name[i] # Dot
    BY <1>1, <1>4
  <2> HIDE DEF c, x
  <2> QED
    BY <2>2, <2>3, <2>4, <2>5, <2>6 DEF ExtIs
<1>5. CASE c # Dot
  <2> DEFINE y == IF x = <<>> THEN x ELSE Append(x, c)
  <2>1. e = IF Unreserved(c) THEN y ELSE x
    BY <1>5 DEF Wrote, Reading
  <2> HIDE DEF c, x
  <2>2. ASSUME \A i \in 1..k : name[i] # Dot PROVE e = <<>>
    <3>1. \A i \in 1..(k - 1) : name[i] # Dot
      BY <1>1, <2>2
    <3> QED
      BY <1>2, <2>1, <3>1
  <2>3. ASSUME NEW d \in 1..k, LastTo(name, d, k)
        PROVE  /\ e # <<>> /\ e[1] = Dot
               /\ (\A i \in d..k : Unreserved(name[i])) => e = SubSeq(name, d, k)
    <3>1. d # k
      BY <1>5, <2>3 DEF LastTo, c
    <3>2. d \in 1..(k - 1) /\ d \in Nat \ {0} /\ d <= k
      BY <1>1, <3>1
    <3>3. LastTo(name, d, k - 1)
      <4>1. name[d] = Dot /\ \A i \in (d + 1)..k : name[i] # Dot
        BY <2>3 DEF LastTo
      <4>2. \A i \in (d + 1)..(k - 1) : i \in (d + 1)..k
        BY <1>1, <3>2
      <4> QED
        BY <4>1, <4>2 DEF LastTo
    <3>4. x # <<>> /\ x[1] = Dot
          /\ ((\A i \in d..(k - 1) : Unreserved(name[i])) => x = SubSeq(name, d, k - 1))
      BY <1>3, <3>2, <3>3
    <3>5. Len(x) \in Nat \ {0}
      BY <1>1, <3>4, EmptySeq
    <3>6. y = Append(x, c) /\ y # <<>> /\ y[1] = Dot
      <4>1. y = Append(x, c)
        BY <3>4
      <4>2. Append(x, c) # <<>> /\ \A i \in 1..Len(x) : Append(x, c)[i] = x[i]
        BY <1>1, AppendProperties
      <4>3. 1 \in 1..Len(x)
        BY <3>5
      <4> QED
        BY <3>4, <4>1, <4>2, <4>3
    <3>7. e # <<>> /\ e[1] = Dot
      BY <2>1, <3>4, <3>6
    <3>8. ASSUME \A i \in d..k : Unreserved(name[i]) PROVE e = SubSeq(name, d, k)
      <4>1. \A i \in d..(k - 1) : Unreserved(name[i])
        BY <1>1, <3>2, <3>8
      <4>2. Unreserved(c)
        BY <1>1, <3>2, <3>8 DEF c
      <4>3. x = SubSeq(name, d, k - 1)
        BY <3>4, <4>1
      <4>4. e = Append(x, c)
        BY <2>1, <3>6, <4>2
      <4>5. Append(SubSeq(name, d, k - 1), name[k]) = SubSeq(name, d, k)
        BY <3>2, Longer
      <4> QED
        BY <4>3, <4>4, <4>5 DEF c
    <3> QED
      BY <3>7, <3>8
  <2> QED
    BY <2>2, <2>3 DEF ExtIs
<1> QED
  BY <1>4, <1>5

LEMMA Reaches ==
  ASSUME NEW path \in BOOLEAN, NEW name \in Seq(Bytes), NEW o \in Seq(Bytes),
         NEW k \in 1..Len(name), NEW s \in States,
         path => Undotted(name), Reached(path, o, name, k - 1, s)
  PROVE  Reached(path, o, name, k, Wrote(path, s, name[k]))
<1> DEFINE c == name[k]
           r == Wrote(path, s, c)
<1>1. s.skip = 0 /\ s.out = o \o SubSeq(name, 1, k - 1) /\ (path => ExtIs(name, k - 1, s.ext))
  BY DEF Reached
<1>2. r.out = Append(s.out, c)
  <2>1. path /\ c = Dot => Once(s.out, Dot) = Append(s.out, Dot)
    BY <1>1, ReachesDot
  <2> HIDE DEF c
  <2> QED
    BY <2>1 DEF Wrote, Reading
<1>3. r.out = o \o SubSeq(name, 1, k)
  <2>1. Append(o \o SubSeq(name, 1, k - 1), name[k]) = o \o SubSeq(name, 1, k)
    BY ReachesOut
  <2> HIDE DEF r
  <2> QED
    BY <1>1, <1>2, <2>1
<1>4. r.skip = 0
  <2> HIDE DEF c
  <2> QED
    BY DEF Wrote, Reading
<1>5. path => ExtIs(name, k, r.ext)
  <2>1. SUFFICES ASSUME path PROVE ExtIs(name, k, r.ext)
    OBVIOUS
  <2>2. r = Wrote(TRUE, s, name[k])
    BY <2>1
  <2> HIDE DEF r
  <2>3. r.ext = Wrote(TRUE, s, name[k]).ext
    BY <2>2
  <2> QED
    BY <1>1, <2>1, <2>3, ReachesExt
<1> QED
  BY <1>3, <1>4, <1>5 DEF Reached

LEMMA Follows ==
  ASSUME NEW path \in BOOLEAN, NEW t \in Seq(Bytes), NEW ext,
         NEW h \in [0..Len(t) -> States], Reads(path, t, ext, h),
         NEW name \in Seq(Bytes), NEW g \in [0..Len(name) -> Seq(Bytes)], Encs(name, g),
         NEW o \in Seq(Bytes), NEW b \in 0..Len(t), At(t, b, g[Len(name)]),
         path => Undotted(name), Reached(path, o, name, 0, h[b])
  PROVE  \A k \in 0..Len(name) : Reached(path, o, name, k, h[b + Len(g[k])])
<1> DEFINE m == Len(name)
           wrong == {k \in 0..m : ~Reached(path, o, name, k, h[b + Len(g[k])])}
<1>0. m \in Nat /\ b \in Nat /\ Len(t) \in Nat
  BY LenProperties
<1> SUFFICES ASSUME wrong # {} PROVE FALSE
  OBVIOUS
<1>1. wrong \subseteq Nat
  OBVIOUS
<1>2. PICK k \in wrong : \A y \in wrong : k <= y
  <2> HIDE DEF wrong
  <2> QED
    BY <1>1, LeastNumber
<1>3. k \in 0..m /\ ~Reached(path, o, name, k, h[b + Len(g[k])])
  OBVIOUS
<1>4. k # 0
  <2>1. SUFFICES ASSUME k = 0 PROVE FALSE
    OBVIOUS
  <2>2. g[0] = <<>>
    BY DEF Encs
  <2>3. Len(g[k]) = 0
    BY <2>1, <2>2
  <2>4. b + Len(g[k]) = b
    BY <1>0, <2>3
  <2> QED
    BY <1>3, <2>1, <2>4
<1>5. k \in 1..m /\ k - 1 \in 0..m /\ ~(k <= k - 1)
  <2> HIDE DEF m, wrong
  <2> QED
    BY <1>0, <1>3, <1>4
<1>6. k - 1 \notin wrong
  <2> HIDE DEF wrong
  <2> QED
    BY <1>2, <1>5
<1> DEFINE n == b + Len(g[k - 1])
<1>7. Reached(path, o, name, k - 1, h[n])
  BY <1>5, <1>6
<1>8. /\ At(t, n, Escaped(name[k]))
      /\ Len(g[k]) = Len(g[k - 1]) + Len(Escaped(name[k]))
      /\ b + Len(g[k]) <= Len(t)
  BY <1>0, <1>5, CharacterAt
<1>9. name[k] \in Bytes
  BY <1>5, ElementOfSeq
<1>10. Escaped(name[k]) \in Seq(Bytes) /\ g[k - 1] \in Seq(Bytes)
  BY <1>5, <1>9, EscapedType
<1>11. Len(Escaped(name[k])) \in Nat /\ Len(g[k - 1]) \in Nat
  BY <1>10, LenProperties
<1>12. n \in 0..Len(t) /\ b + Len(g[k]) = n + Len(Escaped(name[k]))
  <2> DEFINE x == Len(g[k - 1])
             y == Len(Escaped(name[k]))
             z == Len(g[k])
  <2>1. z = x + y /\ b + z <= Len(t)
    BY <1>8
  <2>2. x \in Nat /\ y \in Nat /\ n = b + x
    BY <1>11
  <2> HIDE DEF n, x, y, z
  <2>3. n \in 0..Len(t) /\ b + z = n + y
    BY <1>0, <2>1, <2>2
  <2> QED
    BY <2>3 DEF y, z
<1> HIDE DEF n, wrong
<1>13. h[n] \in States /\ h[n].skip = 0
  BY <1>7, <1>12 DEF Reached
<1>14. h[n + Len(Escaped(name[k]))] = Wrote(path, h[n], name[k])
  <2>1. At(t, n, Escaped(name[k]))
    BY <1>8
  <2>2. n \in 0..Len(t)
    BY <1>12
  <2> DEFINE c == name[k]
  <2>3. c \in Bytes /\ At(t, n, Escaped(c))
    BY <1>9, <2>1
  <2> HIDE DEF c
  <2>4. h[n + Len(Escaped(c))] = Wrote(path, h[n], c)
    BY <1>13, <2>2, <2>3, Takes
  <2> QED
    BY <2>4 DEF c
<1>15. Reached(path, o, name, k, Wrote(path, h[n], name[k]))
  BY <1>5, <1>7, <1>13, Reaches
<1> QED
  BY <1>3, <1>12, <1>14, <1>15

-----------------------------------------------------------------------------
(* The title shows the name.                                               *)
LEMMA TitleBack ==
  ASSUME NEW name \in Seq(Bytes)
  PROVE  UriDecode(UriEncode(name)) = name
<1>1. PICK g \in [0..Len(name) -> Seq(Bytes)] : Encs(name, g) /\ UriEncode(name) = g[Len(name)]
  BY EncodeUriIs
<1> DEFINE t == UriEncode(name)
<1>2. Len(name) \in Nat /\ t \in Seq(Bytes)
  BY <1>1, LenProperties
<1> HIDE DEF t
<1>3. PICK h \in [0..Len(t) -> States] :
             Reads(FALSE, t, <<>>, h) /\ UriDecode(t) = h[Len(t)].out
  BY <1>2, DecodeUriIs
<1>4. Len(t) \in Nat /\ 0 \in 0..Len(t) /\ t = g[Len(name)]
  BY <1>1, <1>2, LenProperties DEF t
<1>5. At(t, 0, g[Len(name)])
  BY <1>4 DEF At
<1>6. <<>> \in Seq(Bytes)
  OBVIOUS
<1>7. Reached(FALSE, <<>>, name, 0, h[0])
  <2>1. h[0] = Begin(<<>>)
    BY <1>3 DEF Reads
  <2>2. SubSeq(name, 1, 0) = <<>>
    BY SubSeqEmpty
  <2>3. <<>> \o <<>> = <<>>
    OBVIOUS
  <2> QED
    BY <2>1, <2>2, <2>3 DEF Reached, Begin
<1>8. \A k \in 0..Len(name) : Reached(FALSE, <<>>, name, k, h[0 + Len(g[k])])
  BY <1>1, <1>2, <1>3, <1>4, <1>5, <1>6, <1>7, Follows
<1>9. Reached(FALSE, <<>>, name, Len(name), h[Len(t)])
  <2>1. Reached(FALSE, <<>>, name, Len(name), h[0 + Len(g[Len(name)])])
    <3>1. Len(name) \in 0..Len(name)
      BY <1>2
    <3> QED
      BY <1>8, <3>1
  <2>2. 0 + Len(g[Len(name)]) = Len(t)
    BY <1>4
  <2> QED
    BY <2>1, <2>2
<1>10. h[Len(t)].out = <<>> \o SubSeq(name, 1, Len(name))
  BY <1>9 DEF Reached
<1>11. SubSeq(name, 1, Len(name)) = name /\ <<>> \o name = name
  BY SubSeqFull, ConcatEmptySeq
<1> QED
  BY <1>3, <1>10, <1>11 DEF t

(* A name that needs no escapes is its own encoding.                       *)
LEMMA PlainEncode ==
  ASSUME NEW name \in Seq(Bytes), \A i \in DOMAIN name : Unreserved(name[i]),
         NEW g \in [0..Len(name) -> Seq(Bytes)], Encs(name, g)
  PROVE  g[Len(name)] = name
<1> DEFINE m == Len(name)
           wrong == {k \in 0..m : g[k] # SubSeq(name, 1, k)}
<1>0. m \in Nat /\ DOMAIN name = 1..m
  BY LenProperties
<1>1. wrong = {}
  <2> SUFFICES ASSUME wrong # {} PROVE FALSE
    OBVIOUS
  <2>1. wrong \subseteq Nat
    OBVIOUS
  <2>2. PICK k \in wrong : \A y \in wrong : k <= y
    <3> HIDE DEF wrong
    <3> QED
      BY <2>1, LeastNumber
  <2>3. k \in 0..m /\ g[k] # SubSeq(name, 1, k)
    OBVIOUS
  <2>4. k # 0
    <3>1. g[0] = <<>> /\ SubSeq(name, 1, 0) = <<>>
      BY SubSeqEmpty DEF Encs
    <3> QED
      BY <2>3, <3>1
  <2>5. k \in 1..m /\ k - 1 \in 0..m /\ ~(k <= k - 1)
    <3> HIDE DEF m, wrong
    <3> QED
      BY <1>0, <2>3, <2>4
  <2>6. k - 1 \notin wrong
    <3> HIDE DEF wrong
    <3> QED
      BY <2>2, <2>5
  <2>7. g[k - 1] = SubSeq(name, 1, k - 1)
    BY <2>5, <2>6
  <2>8. g[k] = g[k - 1] \o Escaped(name[k]) /\ name[k] \in Bytes /\ Unreserved(name[k])
    BY <1>0, <2>5, ElementOfSeq DEF Encs
  <2>9. Escaped(name[k]) = <<name[k]>>
    BY <2>8 DEF Escaped
  <2>10. SubSeq(name, 1, k) = Append(SubSeq(name, 1, k - 1), name[k])
    BY <1>0, <2>5, Longer
  <2>11. g[k - 1] \in Seq(Bytes)
    BY <2>5
  <2>12. Append(g[k - 1], name[k]) = g[k - 1] \o <<name[k]>>
    BY <2>8, <2>11, AppendIsConcat
  <2> HIDE DEF wrong, m
  <2> QED
    BY <2>3, <2>7, <2>8, <2>9, <2>10, <2>12
<1>2. m \notin wrong
  BY <1>1
<1>3. g[m] = SubSeq(name, 1, m)
  BY <1>0, <1>2
<1> QED
  BY <1>3, SubSeqFull

(* The extension that is collected is the one of the name.                 *)
LEMMA ExtensionIs ==
  ASSUME NEW name \in Seq(Bytes), NEW e, ExtIs(name, Len(name), e)
  PROVE  /\ Extension(name) = <<>> <=> e = <<>>
         /\ Extension(name) # <<>> => e[1] = Dot
         /\ (\A i \in DOMAIN Extension(name) : Unreserved(Extension(name)[i]))
              => e = Extension(name)
<1> DEFINE m == Len(name)
           x == Extension(name)
<1>0. m \in Nat /\ DOMAIN name = 1..m
  BY LenProperties
<1>1. CASE \E d \in DOMAIN name : LastDot(name, d)
  <2> DEFINE d == CHOOSE d \in DOMAIN name : LastDot(name, d)
  <2>1. d \in DOMAIN name /\ LastDot(name, d)
    BY <1>1
  <2>2. x = SubSeq(name, d, m)
    BY <1>1 DEF Extension
  <2> HIDE DEF d
  <2>3. d \in 1..m /\ LastTo(name, d, m)
    BY <1>0, <2>1 DEF LastDot, LastTo
  <2>4. e # <<>> /\ e[1] = Dot
        /\ ((\A i \in d..m : Unreserved(name[i])) => e = SubSeq(name, d, m))
    BY <2>3 DEF ExtIs
  <2>5. x \in Seq(Bytes) /\ Len(x) = m - d + 1 /\ \A i \in 1..(m - d + 1) : x[i] = name[d + i - 1]
    <3>1. \A i \in d..m : name[i] \in Bytes
      BY <1>0, <2>3, ElementOfSeq
    <3>2. /\ SubSeq(name, d, m) \in Seq(Bytes)
          /\ Len(SubSeq(name, d, m)) = m - d + 1
          /\ \A i \in 1..(m - d + 1) : SubSeq(name, d, m)[i] = name[d + i - 1]
      BY <1>0, <2>3, <3>1, SubSeqProperties
    <3> QED
      BY <2>2, <3>2
  <2> HIDE DEF x, m
  <2>6. x # <<>>
    <3>1. Len(x) # 0
      BY <1>0, <2>3, <2>5
    <3> QED
      BY <3>1
  <2>7. ASSUME \A i \in DOMAIN x : Unreserved(x[i]) PROVE e = x
    <3>1. ASSUME NEW i \in d..m PROVE Unreserved(name[i])
      <4> DEFINE j == i - d + 1
      <4>1. j \in 1..(m - d + 1) /\ d + j - 1 = i
        BY <1>0, <2>3
      <4> HIDE DEF j
      <4>2. x[j] = name[i] /\ j \in DOMAIN x
        BY <2>5, <4>1, LenProperties
      <4> QED
        BY <2>7, <4>2
    <3> QED
      BY <2>2, <2>4, <3>1
  <2> QED
    BY <2>4, <2>6, <2>7 DEF x
<1>2. CASE ~ \E d \in DOMAIN name : LastDot(name, d)
  <2>1. x = <<>>
    BY <1>2 DEF Extension
  <2>2. ASSUME NEW i \in 1..m, name[i] = Dot PROVE FALSE
    <3> DEFINE T == {m - j : j \in {j \in 1..m : name[j] = Dot}}
    <3>1. T \subseteq Nat /\ T # {}
      BY <1>0, <2>2
    <3>2. PICK y \in T : \A z \in T : y <= z
      <4> HIDE DEF T
      <4> QED
        BY <3>1, LeastNumber
    <3>3. PICK d \in 1..m : name[d] = Dot /\ y = m - d
      BY <3>2
    <3>4. ASSUME NEW j \in (d + 1)..m, name[j] = Dot PROVE FALSE
      <4>1. j \in 1..m /\ m - j \in T
        BY <1>0, <3>3, <3>4
      <4>2. m - d <= m - j
        BY <3>2, <3>3, <4>1
      <4> HIDE DEF m
      <4> QED
        BY <1>0, <3>3, <3>4, <4>2
    <3>5. LastDot(name, d)
      BY <1>0, <3>3, <3>4 DEF LastDot
    <3> QED
      BY <1>0, <1>2, <3>3, <3>5
  <2>3. e = <<>>
    BY <2>2 DEF ExtIs
  <2> QED
    BY <2>1, <2>3
<1> QED
  BY <1>1, <1>2

(* The default document, read as a path, keeps its name and its extension. *)
LEMMA PlainBack ==
  ASSUME NEW name \in Seq(Bytes), Plain(name)
  PROVE  UriDecodeExt(name, <<>>) = [uri |-> name, ext |-> MakeLower(Extension(name))]
<1>1. PICK g \in [0..Len(name) -> Seq(Bytes)] : Encs(name, g) /\ UriEncode(name) = g[Len(name)]
  BY EncodeUriIs
<1>2. Undotted(name) /\ \A i \in DOMAIN name : Unreserved(name[i])
  BY DEF Plain, Undotted
<1>3. g[Len(name)] = name
  BY <1>1, <1>2, PlainEncode
<1>4. Len(name) \in Nat /\ 0 \in 0..Len(name) /\ <<>> \in Seq(Bytes)
  BY LenProperties
<1>5. PICK h \in [0..Len(name) -> States] :
             /\ Reads(TRUE, name, <<>>, h)
             /\ UriDecodeExt(name, <<>>) = [uri |-> h[Len(name)].out, ext |-> MakeLower(h[Len(name)].ext)]
  BY <1>4, DecodeExtIs
<1>6. At(name, 0, g[Len(name)])
  BY <1>3, <1>4 DEF At
<1>7. Reached(TRUE, <<>>, name, 0, h[0])
  <2>1. h[0] = Begin(<<>>)
    BY <1>5 DEF Reads
  <2>2. SubSeq(name, 1, 0) = <<>>
    BY SubSeqEmpty
  <2>3. <<>> \o <<>> = <<>>
    OBVIOUS
  <2>4. ExtIs(name, 0, <<>>)
    BY DEF ExtIs
  <2> QED
    BY <2>1, <2>2, <2>3, <2>4 DEF Reached, Begin
<1>8. \A k \in 0..Len(name) : Reached(TRUE, <<>>, name, k, h[0 + Len(g[k])])
  BY <1>1, <1>2, <1>4, <1>5, <1>6, <1>7, Follows
<1>9. Reached(TRUE, <<>>, name, Len(name), h[Len(name)])
  <2>1. Reached(TRUE, <<>>, name, Len(name), h[0 + Len(g[Len(name)])])
    <3>1. Len(name) \in 0..Len(name)
      BY <1>4
    <3> QED
      BY <1>8, <3>1
  <2>2. 0 + Len(g[Len(name)]) = Len(name)
    BY <1>3, <1>4
  <2> QED
    BY <2>1, <2>2
<1>10. /\ h[Len(name)].out = <<>> \o SubSeq(name, 1, Len(name))
       /\ ExtIs(name, Len(name), h[Len(name)].ext)
  BY <1>9 DEF Reached
<1>11. SubSeq(name, 1, Len(name)) = name /\ <<>> \o name = name
  BY SubSeqFull, ConcatEmptySeq
<1>12. h[Len(name)].ext = Extension(name)
  <2>1. \A i \in DOMAIN Extension(name) : Unreserved(Extension(name)[i])
    <3>1. CASE \E d \in DOMAIN name : LastDot(name, d)
      <4> DEFINE d == CHOOSE d \in DOMAIN name : LastDot(name, d)
      <4>1. d \in DOMAIN name /\ Extension(name) = SubSeq(name, d, Len(name))
        BY <3>1 DEF Extension
      <4> HIDE DEF d
      <4>2. DOMAIN name = 1..Len(name)
        BY LenProperties
      <4>3. /\ Len(SubSeq(name, d, Len(name))) = Len(name) - d + 1
            /\ \A i \in 1..(Len(name) - d + 1) : SubSeq(name, d, Len(name))[i] = name[d + i - 1]
            /\ SubSeq(name, d, Len(name)) \in Seq(Bytes)
        <5>1. \A i \in d..Len(name) : name[i] \in Bytes
          BY <1>4, <4>1, <4>2, ElementOfSeq
        <5> QED
          BY <1>4, <4>1, <4>2, <5>1, SubSeqProperties
      <4>4. DOMAIN SubSeq(name, d, Len(name)) = 1..(Len(name) - d + 1)
        BY <4>3, LenProperties
      <4>5. ASSUME NEW i \in 1..(Len(name) - d + 1) PROVE Unreserved(SubSeq(name, d, Len(name))[i])
        <5>1. d + i - 1 \in 1..Len(name)
          BY <1>4, <4>1, <4>2
        <5>2. Unreserved(name[d + i - 1])
          BY <1>2, <4>2, <5>1
        <5> QED
          BY <4>3, <5>2
      <4> QED
        BY <4>1, <4>4, <4>5
    <3>2. CASE ~ \E d \in DOMAIN name : LastDot(name, d)
      <4>1. Extension(name) = <<>>
        BY <3>2 DEF Extension
      <4> QED
        BY <4>1
    <3> QED
      BY <3>1, <3>2
  <2> QED
    BY <1>10, <2>1, ExtensionIs
<1> QED
  BY <1>5, <1>10, <1>11, <1>12

-----------------------------------------------------------------------------
(* A link of the index, read as a path.                                    *)
Ending(dir) == IF dir THEN <<Slash>> ELSE <<>>

(* The link to a name, behind what the browser puts before it.             *)
Behind(a, name, dir) == a \o (UriEncode(name) \o Ending(dir))

LinkOf(name, dir) == Behind(<<47, 100, 47>>, name, dir)

LEMMA TakesSlash ==
  ASSUME NEW t, NEW i, NEW s \in States, s.skip = 0, t[i] = Slash
  PROVE  Step(TRUE, t, s, i) = Reading(Once(s.out, Slash), 0, <<>>)
<1>1. Slash # BackSlash /\ Slash \notin {Percent, Plus} /\ ~(s.skip > 0)
  BY DEF Slash, BackSlash, Percent, Plus
<1>2. Step(TRUE, t, s, i) = [s EXCEPT !.out = Once(s.out, Slash), !.ext = <<>>]
  BY <1>1 DEF Step, PathUnescaped, Once
<1>3. [s EXCEPT !.out = Once(s.out, Slash), !.ext = <<>>] = Reading(Once(s.out, Slash), s.skip, <<>>)
  BY ExceptExt, Zenon
<1> QED
  BY <1>2, <1>3, Zenon

(* The decoder behind the slash, the directory and the slash.              *)
(* What is read of a link when it starts with a: o, and nothing pending.   *)
Led(a, o) ==
  \A t \in Seq(Bytes) : \A h \in [0..Len(t) -> States] :
    Reads(TRUE, t, <<>>, h) /\ Len(a) <= Len(t) /\ (\A i \in 1..Len(a) : t[i] = a[i]) =>
      h[Len(a)].out = o /\ h[Len(a)].skip = 0 /\ h[Len(a)].ext = <<>>

LEMMA DirectoryRead ==
  ASSUME NEW t \in Seq(Bytes), NEW h \in [0..Len(t) -> States], Reads(TRUE, t, <<>>, h),
         3 <= Len(t), t[1] = 47, t[2] = 100, t[3] = 47
  PROVE  h[3].out = <<100, 47>> /\ h[3].skip = 0 /\ h[3].ext = <<>>
<1>0. Len(t) \in Nat
  BY LenProperties
<1>1. 1 \in 1..Len(t) /\ 2 \in 1..Len(t) /\ 3 \in 1..Len(t)
  BY <1>0
<1>2. /\ h[1] = Step(TRUE, t, h[0], 1) /\ h[2] = Step(TRUE, t, h[1], 2)
      /\ h[3] = Step(TRUE, t, h[2], 3) /\ h[0] = Begin(<<>>)
  BY <1>1 DEF Reads
<1>3. h[0].out = <<>> /\ h[0].skip = 0 /\ h[0].ext = <<>>
  BY <1>2 DEF Begin
<1>4. t[1] = Slash /\ t[3] = Slash
  BY DEF Slash
<1>5. h[0] \in States /\ h[1] \in States /\ h[2] \in States
  BY <1>0, <1>1
<1>6. h[1] = Reading(<<>>, 0, <<>>)
  <2>1. Step(TRUE, t, h[0], 1) = Reading(Once(h[0].out, Slash), 0, <<>>)
    BY <1>3, <1>4, <1>5, TakesSlash
  <2>2. Once(h[0].out, Slash) = <<>>
    BY <1>3 DEF Once
  <2> QED
    BY <1>2, <2>1, <2>2
<1>7. h[2] = Reading(<<100>>, 0, <<>>)
  <2> DEFINE s == h[1]
  <2>1. s.out = <<>> /\ s.skip = 0 /\ s.ext = <<>>
    BY <1>6 DEF Reading
  <2>2. t[2] = 100 /\ Unreserved(100) /\ 100 # Dot
    BY DEF Unreserved, IsLetter, Dot
  <2>3. Step(TRUE, t, s, 2) = Wrote(TRUE, s, t[2])
    <3>1. Unreserved(t[2])
      BY <2>2
    <3> HIDE DEF s
    <3> QED
      BY <1>1, <1>5, <2>1, <3>1, TakesPlain DEF s
  <2> HIDE DEF s
  <2>4. Wrote(TRUE, s, t[2]) = Reading(Append(<<>>, 100), 0, <<>>)
    BY <2>1, <2>2 DEF Wrote
  <2>5. Append(<<>>, 100) = <<100>>
    OBVIOUS
  <2> QED
    BY <1>2, <2>3, <2>4, <2>5 DEF s
<1>8. h[3] = Reading(<<100, 47>>, 0, <<>>)
  <2> DEFINE s == h[2]
  <2>1. s.out = <<100>> /\ s.skip = 0 /\ s.ext = <<>>
    BY <1>7 DEF Reading
  <2>2. Step(TRUE, t, s, 3) = Reading(Once(s.out, Slash), 0, <<>>)
    BY <1>4, <1>5, <2>1, TakesSlash
  <2> HIDE DEF s
  <2>4. Once(s.out, Slash) = <<100, 47>>
    <3>1. ~EndsIn(<<100>>, Slash) /\ <<100>> # <<>>
      BY DEF EndsIn, Last, Slash
    <3>2. Append(<<100>>, Slash) = <<100, 47>>
      BY DEF Slash
    <3> QED
      BY <2>1, <3>1, <3>2 DEF Once
  <2>5. h[3] = Step(TRUE, t, s, 3)
    BY <1>2 DEF s
  <2> QED
    BY <2>2, <2>4, <2>5
<1> QED
  BY <1>8 DEF Reading

LEMMA DirectoryLed == Led(<<47, 100, 47>>, <<100, 47>>)
<1> DEFINE a == <<47, 100, 47>>
<1>1. SUFFICES ASSUME NEW t \in Seq(Bytes), NEW h \in [0..Len(t) -> States],
                      Reads(TRUE, t, <<>>, h), Len(a) <= Len(t), \A i \in 1..Len(a) : t[i] = a[i]
               PROVE  h[Len(a)].out = <<100, 47>> /\ h[Len(a)].skip = 0 /\ h[Len(a)].ext = <<>>
  BY DEF Led
<1>2. Len(a) = 3 /\ a[1] = 47 /\ a[2] = 100 /\ a[3] = 47
  OBVIOUS
<1> HIDE DEF a
<1>3. t[1] = 47 /\ t[2] = 100 /\ t[3] = 47 /\ 3 <= Len(t)
  BY <1>1, <1>2
<1>4. h[3].out = <<100, 47>> /\ h[3].skip = 0 /\ h[3].ext = <<>>
  BY <1>1, <1>3, DirectoryRead
<1> QED
  BY <1>2, <1>4

(* The slash that leads is dropped.                                        *)
LEMMA RootLed == Led(<<47>>, <<>>)
<1> DEFINE a == <<47>>
<1>1. SUFFICES ASSUME NEW t \in Seq(Bytes), NEW h \in [0..Len(t) -> States],
                      Reads(TRUE, t, <<>>, h), Len(a) <= Len(t), \A i \in 1..Len(a) : t[i] = a[i]
               PROVE  h[Len(a)].out = <<>> /\ h[Len(a)].skip = 0 /\ h[Len(a)].ext = <<>>
  BY DEF Led
<1>2. Len(a) = 1 /\ a[1] = 47 /\ Len(t) \in Nat
  BY LenProperties
<1> HIDE DEF a
<1>3. t[1] = Slash /\ 1 \in 1..Len(t)
  BY <1>1, <1>2 DEF Slash
<1>4. h[1] = Step(TRUE, t, h[0], 1) /\ h[0] = Begin(<<>>)
  BY <1>1, <1>3 DEF Reads
<1>5. h[0] \in States
  BY <1>2
<1>6. h[0].out = <<>> /\ h[0].skip = 0
  BY <1>4 DEF Begin
<1>7. Step(TRUE, t, h[0], 1) = Reading(Once(h[0].out, Slash), 0, <<>>)
  BY <1>3, <1>5, <1>6, TakesSlash
<1>8. Once(h[0].out, Slash) = <<>>
  BY <1>6 DEF Once
<1>9. h[1] = Reading(<<>>, 0, <<>>)
  BY <1>4, <1>7, <1>8
<1> QED
  BY <1>2, <1>9 DEF Reading

(* A name with no slash, and the slash that is put behind it.              *)
LEMMA Slashed ==
  ASSUME NEW o \in Seq(Bytes), NEW name \in Seq(Bytes), name # <<>>,
         \A i \in 1..Len(name) : name[i] # Slash
  PROVE  /\ o \o name \in Seq(Bytes) /\ o \o name # <<>> /\ ~EndsIn(o \o name, Slash)
         /\ Once(o \o name, Slash) = (o \o name) \o <<Slash>>
<1> DEFINE w == o \o name
           n == Len(o) + Len(name)
<1>1. Len(name) \in Nat \ {0} /\ Len(o) \in Nat
  BY LenProperties, EmptySeq
<1>2. w \in Seq(Bytes) /\ Len(w) = n
      /\ \A i \in 1..n : w[i] = IF i <= Len(o) THEN o[i] ELSE name[i - Len(o)]
  BY ConcatProperties
<1>3. n \in 1..n /\ ~(n <= Len(o)) /\ n - Len(o) = Len(name) /\ Len(name) \in 1..Len(name) /\ n # 0
  BY <1>1
<1> HIDE DEF n, w
<1>4. w[n] = name[Len(name)]
  BY <1>2, <1>3
<1>5. w[n] # Slash
  BY <1>3, <1>4
<1>6. w # <<>>
  <2>1. Len(w) # 0
    BY <1>2, <1>3
  <2> QED
    BY <2>1
<1>7. ~EndsIn(w, Slash)
  <2>1. Last(w) = w[n]
    BY <1>2 DEF Last
  <2> QED
    BY <1>5, <2>1 DEF EndsIn
<1>8. Slash \in Bytes
  BY DEF Bytes, Slash
<1>9. Once(w, Slash) = w \o <<Slash>>
  <2>1. Append(w, Slash) = w \o <<Slash>>
    BY <1>2, <1>8, AppendIsConcat
  <2> QED
    BY <1>6, <1>7, <2>1 DEF Once
<1> QED
  BY <1>2, <1>6, <1>7, <1>9 DEF w

(* Where the parts of the link stand.                                      *)
Parts(t, a, e, z) ==
  /\ t \in Seq(Bytes) /\ Len(t) = Len(a) + Len(e) + Len(z)
  /\ \A i \in 1..Len(a) : t[i] = a[i]
  /\ At(t, Len(a), e)
  /\ \A i \in 1..Len(z) : t[Len(a) + Len(e) + i] = z[i]

LEMMA LinkParts ==
  ASSUME NEW a \in Seq(Bytes), NEW e \in Seq(Bytes), NEW z \in Seq(Bytes)
  PROVE  Parts(a \o (e \o z), a, e, z)
<1> DEFINE t == a \o (e \o z)
           u == e \o z
           p == Len(a)
           q == Len(e)
           r == Len(z)
<1>1. p \in Nat /\ q \in Nat /\ r \in Nat
  BY LenProperties
<1>2. u \in Seq(Bytes) /\ Len(u) = q + r
      /\ \A i \in 1..(q + r) : u[i] = IF i <= q THEN e[i] ELSE z[i - q]
  BY ConcatProperties
<1> HIDE DEF u, q, r
<1>3. t \in Seq(Bytes) /\ Len(t) = p + Len(u)
      /\ \A i \in 1..(p + Len(u)) : t[i] = IF i <= p THEN a[i] ELSE u[i - p]
  <2>1. t = a \o u
    BY DEF u
  <2> HIDE DEF t
  <2>2. a \o u \in Seq(Bytes) /\ Len(a \o u) = Len(a) + Len(u)
        /\ \A i \in 1..(Len(a) + Len(u)) : (a \o u)[i] = IF i <= Len(a) THEN a[i] ELSE u[i - Len(a)]
    BY <1>2, ConcatProperties
  <2> QED
    BY <2>1, <2>2
<1> HIDE DEF p, t
<1>4. Len(t) = p + q + r /\ p + Len(u) = p + q + r
  BY <1>1, <1>2, <1>3
<1>5. ASSUME NEW i \in 1..p PROVE t[i] = a[i]
  <2>1. i \in 1..(p + Len(u)) /\ i <= p
    BY <1>1, <1>4
  <2> QED
    BY <1>3, <2>1
<1>6. ASSUME NEW i \in 1..q PROVE t[p + i] = e[i]
  <2> DEFINE n == p + i
  <2>1. n \in 1..(p + Len(u)) /\ ~(n <= p) /\ n - p = i /\ i \in 1..(q + r) /\ i <= q
    BY <1>1, <1>4
  <2> HIDE DEF n
  <2>2. t[n] = u[i] /\ u[i] = e[i]
    BY <1>2, <1>3, <2>1
  <2> QED
    BY <2>2 DEF n
<1>7. ASSUME NEW i \in 1..r PROVE t[p + q + i] = z[i]
  <2> DEFINE n == p + q + i
             k == q + i
  <2>1. n \in 1..(p + Len(u)) /\ ~(n <= p) /\ n - p = k /\ k \in 1..(q + r) /\ ~(k <= q) /\ k - q = i
    BY <1>1, <1>4
  <2> HIDE DEF n, k
  <2>2. t[n] = u[k] /\ u[k] = z[i]
    BY <1>2, <1>3, <2>1
  <2> QED
    BY <2>2 DEF n
<1>8. p + q <= Len(t)
  BY <1>1, <1>4
<1>9. At(t, p, e)
  BY <1>6, <1>8 DEF At, q
<1> QED
  BY <1>3, <1>4, <1>5, <1>7, <1>9 DEF p, q, r, t, Parts

(* The path that is asked for ends in the name and what stands behind it.  *)
LEMMA PathBack ==
  ASSUME NEW name \in Seq(Bytes), name # <<>>, Undotted(name),
         \A i \in 1..Len(name) : name[i] # Slash, NEW dir \in BOOLEAN,
         NEW a \in Seq(Bytes), NEW o \in Seq(Bytes), Led(a, o)
  PROVE  \E e \in Seq(Bytes) :
           /\ ExtIs(name, Len(name), e)
           /\ UriDecodeExt(Behind(a, name, dir), <<>>)
                = [uri |-> (o \o name) \o Ending(dir),
                   ext |-> MakeLower(IF dir THEN <<>> ELSE e)]
<1>1. PICK g \in [0..Len(name) -> Seq(Bytes)] : Encs(name, g) /\ UriEncode(name) = g[Len(name)]
  BY EncodeUriIs
<1> DEFINE E == UriEncode(name)
           z == Ending(dir)
           t == Behind(a, name, dir)
           b == Len(a)
<1>2. Len(name) \in Nat /\ <<>> \in Seq(Bytes)
  BY LenProperties DEF Bytes
<1>3. E \in Seq(Bytes) /\ z \in Seq(Bytes)
  <2>2. E \in Seq(Bytes)
    BY <1>1, <1>2
  <2>3. Slash \in Bytes
    BY DEF Slash, Bytes
  <2>4. z \in Seq(Bytes)
    BY <2>3 DEF Ending
  <2> QED
    BY <2>2, <2>4
<1>4. t = a \o (E \o z)
  BY DEF Behind
<1>5. b \in Nat /\ b = Len(a)
  BY LenProperties
<1>6. Len(E) \in Nat /\ Len(z) = IF dir THEN 1 ELSE 0
  BY <1>3, LenProperties DEF Ending
<1> HIDE DEF E, z, t, b
<1>7. /\ t \in Seq(Bytes) /\ Len(t) = Len(a) + Len(E) + Len(z)
      /\ \A i \in 1..Len(a) : t[i] = a[i]
      /\ At(t, Len(a), E)
      /\ \A i \in 1..Len(z) : t[Len(a) + Len(E) + i] = z[i]
  <2>1. Parts(a \o (E \o z), a, E, z)
    BY <1>3, LinkParts
  <2> QED
    BY <1>4, <2>1 DEF Parts
<1>9. t \in Seq(Bytes) /\ Len(t) = b + Len(E) + Len(z) /\ b \in 0..Len(t) /\ b <= Len(t)
      /\ Len(t) \in Nat
  BY <1>5, <1>6, <1>7
<1>10. PICK h \in [0..Len(t) -> States] :
              /\ Reads(TRUE, t, <<>>, h)
              /\ UriDecodeExt(t, <<>>) = [uri |-> h[Len(t)].out, ext |-> MakeLower(h[Len(t)].ext)]
  BY <1>2, <1>9, DecodeExtIs
<1>11. h[b].out = o /\ h[b].skip = 0 /\ h[b].ext = <<>>
  <2>1. Reads(TRUE, t, <<>>, h) /\ Len(a) <= Len(t) /\ (\A i \in 1..Len(a) : t[i] = a[i])
    BY <1>5, <1>7, <1>9, <1>10
  <2>2. h[Len(a)].out = o /\ h[Len(a)].skip = 0 /\ h[Len(a)].ext = <<>>
    BY <1>9, <2>1 DEF Led
  <2> QED
    BY <1>5, <2>2
<1>12. Reached(TRUE, o, name, 0, h[b])
  <2>1. SubSeq(name, 1, 0) = <<>>
    BY SubSeqEmpty
  <2>2. o \o <<>> = o
    BY <1>2, ConcatEmptySeq
  <2>3. ExtIs(name, 0, <<>>)
    BY DEF ExtIs
  <2> QED
    BY <1>11, <2>1, <2>2, <2>3 DEF Reached
<1>13. At(t, b, g[Len(name)])
  BY <1>1, <1>5, <1>7 DEF E
<1>14. \A k \in 0..Len(name) : Reached(TRUE, o, name, k, h[b + Len(g[k])])
  BY <1>1, <1>2, <1>9, <1>10, <1>12, <1>13, Follows
<1> DEFINE n == b + Len(E)
<1>15. Reached(TRUE, o, name, Len(name), h[n])
  <2>1. Len(name) \in 0..Len(name)
    BY <1>2
  <2>2. Reached(TRUE, o, name, Len(name), h[b + Len(g[Len(name)])])
    BY <1>14, <2>1
  <2> QED
    BY <1>1, <2>2 DEF E
<1>16. n \in 0..Len(t) /\ n \in Nat
  BY <1>6, <1>9
<1>17. h[n] \in States
  BY <1>16
<1> DEFINE e == h[n].ext
<1> HIDE DEF n
<1>18. h[n].skip = 0 /\ h[n].out = o \o name /\ ExtIs(name, Len(name), e) /\ e \in Seq(Bytes)
  <2>1. SubSeq(name, 1, Len(name)) = name
    BY SubSeqFull
  <2> QED
    BY <1>15, <1>17, <2>1 DEF Reached, States
<1>19. ~EndsIn(o \o name, Slash) /\ Once(o \o name, Slash) = (o \o name) \o <<Slash>>
       /\ o \o name \in Seq(Bytes)
  BY <1>2, Slashed
<1>20. CASE dir
  <2>1. Len(z) = 1 /\ z[1] = Slash /\ z = <<Slash>>
    BY <1>20 DEF z, Ending
  <2>2. Len(t) = n + 1 /\ t[n + 1] = Slash
    <3>1. Len(t) = n + 1
      BY <1>6, <1>9, <2>1 DEF n
    <3>2. 1 \in 1..Len(z)
      BY <2>1
    <3>3. t[Len(a) + Len(E) + 1] = z[1]
      BY <1>7, <3>2
    <3> QED
      BY <1>5, <2>1, <3>1, <3>3 DEF n
  <2>3. h[n + 1] = Step(TRUE, t, h[n], n + 1)
    <3> DEFINE k == n + 1
    <3>1. k \in 1..Len(t) /\ k - 1 = n
      BY <1>16, <2>2
    <3> HIDE DEF k
    <3>2. h[k] = Step(TRUE, t, h[k - 1], k)
      BY <1>10, <3>1 DEF Reads
    <3> QED
      BY <3>1, <3>2 DEF k
  <2>4. Step(TRUE, t, h[n], n + 1) = Reading(Once(h[n].out, Slash), 0, <<>>)
    BY <1>17, <1>18, <2>2, TakesSlash
  <2>5. h[Len(t)] = Reading((o \o name) \o <<Slash>>, 0, <<>>)
    BY <1>18, <1>19, <2>2, <2>3, <2>4
  <2>6. h[Len(t)].out = (o \o name) \o z /\ h[Len(t)].ext = <<>>
    BY <2>1, <2>5 DEF Reading
  <2> QED
    BY <1>10, <1>18, <1>20, <2>6 DEF t, z
<1>21. CASE ~dir
  <2>1. z = <<>> /\ Len(t) = n
    BY <1>6, <1>9, <1>16, <1>21 DEF z, Ending, n
  <2>2. (o \o name) \o <<>> = o \o name
    BY <1>19, ConcatEmptySeq
  <2>3. h[Len(t)].out = (o \o name) \o z /\ h[Len(t)].ext = e
    BY <1>18, <2>1, <2>2
  <2> QED
    BY <1>10, <1>18, <1>21, <2>3 DEF t, z
<1> QED
  BY <1>20, <1>21

-----------------------------------------------------------------------------
(* The disk, and what is found on it.                                      *)
PathOf(name) == Dir \o <<Slash>> \o name

OwnOf(name, dir) == IF dir THEN PathOf(name) \o <<Slash>> ELSE PathOf(name)

KindOf(dir) == IF dir THEN "dir" ELSE "file"

DiskFor(name, dir, default) ==
  DiskOf(PathOf(name), KindOf(dir), OwnOf(name, dir) \o DefaultDoc, default)

GotFor(name, dir, default) ==
  Resolve(DiskFor(name, dir, default), Base, DefaultDoc, LinkOf(name, dir), DefMime)

TypeOf(e) == IF e = <<>> THEN DefMime ELSE MakeLower(e)

LEMMA Pair ==
  ASSUME NEW S, NEW a \in S, NEW b \in S
  PROVE  Append(<<a>>, b) = <<a, b>>
<1> DEFINE x == Append(<<a>>, b)
           y == <<a, b>>
<1>1. x \in Seq(S) /\ y \in Seq(S)
  OBVIOUS
<1>2. Len(x) = 2 /\ Len(y) = 2
  OBVIOUS
<1>3. x[1] = y[1] /\ x[2] = y[2]
  OBVIOUS
<1>4. \A i \in 1..2 : x[i] = y[i]
  <2> HIDE DEF x, y
  <2> QED
    BY <1>3
<1> HIDE DEF x, y
<1>5. x = y
  BY <1>1, <1>2, <1>4, SeqEqual
<1> QED
  BY <1>5 DEF x, y

LEMMA TwoPairs ==
  ASSUME NEW S, NEW a \in S, NEW b \in S, NEW c \in S, NEW d \in S
  PROVE  <<a, b, c>> \o <<d>> = <<a, b>> \o <<c, d>>
  OBVIOUS

LEMMA FixedPaths ==
  /\ Dir \in Seq(Bytes) /\ Len(Dir) = 3 /\ Base \in Seq(Bytes) /\ Len(Base) = 1
  /\ <<Slash>> \in Seq(Bytes) /\ Len(<<Slash>>) = 1
  /\ Closed(Base) = <<98, 47>> /\ <<98, 47>> \in Seq(Bytes) /\ <<100, 47>> \in Seq(Bytes)
  /\ Dir \o <<Slash>> = <<98, 47>> \o <<100, 47>>
<1>1. Dir \in Seq(Bytes) /\ Len(Dir) = 3
  BY DEF Dir, Bytes
<1>2. Base \in Seq(Bytes) /\ Len(Base) = 1
  BY DEF Base, Bytes
<1>3. <<Slash>> \in Seq(Bytes) /\ Len(<<Slash>>) = 1
  BY DEF Slash, Bytes
<1>4. <<98, 47>> \in Seq(Bytes) /\ <<100, 47>> \in Seq(Bytes)
  BY DEF Bytes
<1>5. Closed(Base) = <<98, 47>>
  <2>1. ~EndsIn(<<98>>, 47) /\ <<98>> # <<>>
    BY DEF EndsIn, Last
  <2>2. Append(<<98>>, 47) = <<98, 47>>
    <3>1. 98 \in Bytes /\ 47 \in Bytes
      BY DEF Bytes
    <3> QED
      BY <3>1, Pair
  <2> QED
    BY <2>1, <2>2 DEF Closed, Base, Slash
<1>6. Dir \o <<Slash>> = <<98, 47>> \o <<100, 47>>
  <2>1. 98 \in Bytes /\ 47 \in Bytes /\ 100 \in Bytes
    BY DEF Bytes
  <2>2. <<98, 47, 100>> \o <<47>> = <<98, 47>> \o <<100, 47>>
    BY <2>1, TwoPairs
  <2> QED
    BY <2>2, Zenon DEF Dir, Slash
<1> QED
  BY <1>1, <1>2, <1>3, <1>4, <1>5, <1>6

LEMMA PathType ==
  ASSUME NEW name \in Seq(Bytes), name # <<>>, \A i \in 1..Len(name) : name[i] # Slash,
         NEW dir \in BOOLEAN
  PROVE  /\ PathOf(name) \in Seq(Bytes) /\ Len(PathOf(name)) \in Nat /\ Len(PathOf(name)) > 3
         /\ PathOf(name) # <<>> /\ ~EndsIn(PathOf(name), Slash)
         /\ OwnOf(name, dir) \in Seq(Bytes) /\ Len(OwnOf(name, dir)) \in Nat
         /\ Len(OwnOf(name, dir)) >= Len(PathOf(name))
<1> DEFINE d == Dir \o <<Slash>>
           p == PathOf(name)
           w == OwnOf(name, dir)
<1>1. d \in Seq(Bytes) /\ Len(d) = 4
  BY FixedPaths, ConcatProperties
<1>2. Len(name) \in Nat \ {0}
  BY EmptySeq
<1>3. p = d \o name
  BY DEF PathOf
<1> HIDE DEF d, p, w
<1>4. p \in Seq(Bytes) /\ Len(p) = Len(d) + Len(name)
  BY <1>1, <1>3, ConcatProperties
<1>5. p # <<>> /\ ~EndsIn(p, Slash)
  <2>1. d \o name # <<>> /\ ~EndsIn(d \o name, Slash)
    BY <1>1, Slashed
  <2> QED
    BY <1>3, <2>1
<1>6. Len(p) \in Nat /\ Len(p) > 3
  BY <1>1, <1>2, <1>4
<1>7. CASE dir
  <2>1. w = p \o <<Slash>>
    BY <1>7 DEF w, p, OwnOf
  <2>2. w \in Seq(Bytes) /\ Len(w) = Len(p) + 1
    <3>1. p \o <<Slash>> \in Seq(Bytes) /\ Len(p \o <<Slash>>) = Len(p) + Len(<<Slash>>)
      BY <1>4, FixedPaths, ConcatProperties
    <3> QED
      BY <2>1, <3>1, FixedPaths
  <2> QED
    BY <1>4, <1>5, <1>6, <2>2 DEF p, w
<1>8. CASE ~dir
  <2>1. w = p
    BY <1>8 DEF w, p, OwnOf
  <2> QED
    BY <1>4, <1>5, <1>6, <2>1 DEF p, w
<1> QED
  BY <1>7, <1>8

LEMMA SlashBehind ==
  ASSUME NEW b \in Seq(Bytes), NEW n \in Seq(Bytes)
  PROVE  (b \o n) \o <<Slash>> = b \o (n \o <<Slash>>)
<1>1. <<Slash>> \in Seq(Bytes)
  BY FixedPaths
<1> QED
  BY <1>1, ConcatAssociative

(* The path that a link asks for is that of the entry.                     *)
LEMMA WholeIs ==
  ASSUME NEW name \in Seq(Bytes), NEW dir \in BOOLEAN
  PROVE  Closed(Base) \o ((<<100, 47>> \o name) \o Ending(dir)) = OwnOf(name, dir)
<1> DEFINE b == <<98, 47>>
           d == <<100, 47>>
           n == d \o name
<1>1. b \in Seq(Bytes) /\ d \in Seq(Bytes) /\ Closed(Base) = b /\ Dir \o <<Slash>> = b \o d
  BY FixedPaths
<1> HIDE DEF b, d
<1>2. n \in Seq(Bytes)
  BY <1>1, ConcatProperties
<1>3. PathOf(name) = b \o n
  <2>1. (b \o d) \o name = b \o (d \o name)
    <3>1. \A s, t, u \in Seq(Bytes) : (s \o t) \o u = s \o (t \o u)
      BY ConcatAssociative
    <3> QED
      BY <1>1, <3>1, Zenon
  <2> QED
    BY <1>1, <2>1 DEF PathOf
<1> HIDE DEF n
<1>4. CASE dir
  <2>1. (b \o n) \o <<Slash>> = b \o (n \o <<Slash>>)
    BY <1>1, <1>2, SlashBehind, Zenon
  <2>2. Ending(dir) = <<Slash>> /\ OwnOf(name, dir) = PathOf(name) \o <<Slash>>
    BY <1>4 DEF Ending, OwnOf
  <2> QED
    BY <1>1, <1>3, <2>1, <2>2 DEF n, d
<1>5. CASE ~dir
  <2>1. n \o <<>> = n
    BY <1>2, ConcatEmptySeq
  <2>2. Ending(dir) = <<>> /\ OwnOf(name, dir) = PathOf(name)
    BY <1>5 DEF Ending, OwnOf
  <2> QED
    BY <1>1, <1>3, <2>1, <2>2 DEF n, d
<1> QED
  BY <1>4, <1>5

LEMMA FrontIs ==
  ASSUME NEW p \in Seq(Bytes), p # <<>>
  PROVE  LET w == p \o <<Slash>> IN Front(w) = p /\ EndsIn(w, Slash) /\ Closed(w) = w
<1> DEFINE w == p \o <<Slash>>
           z == <<Slash>>
<1>1. Len(p) \in Nat \ {0} /\ z \in Seq(Bytes) /\ Len(z) = 1 /\ z[1] = Slash
  BY EmptySeq, FixedPaths
<1>2. w \in Seq(Bytes) /\ Len(w) = Len(p) + 1
  BY <1>1, ConcatProperties
<1>3. w[Len(p) + 1] = Slash
  <2>1. \A i \in 1..(Len(p) + Len(z)) : (p \o z)[i] = IF i <= Len(p) THEN p[i] ELSE z[i - Len(p)]
    BY <1>1, ConcatProperties
  <2> DEFINE n == Len(p) + 1
  <2>2. n \in 1..(Len(p) + Len(z)) /\ ~(n <= Len(p)) /\ n - Len(p) = 1
    BY <1>1
  <2> HIDE DEF n, z
  <2>3. (p \o z)[n] = Slash
    BY <1>1, <2>1, <2>2
  <2> QED
    BY <2>3 DEF n, z
<1>4. Front(w) = p
  <2>1. SubSeq(w, 1, Len(p)) = SubSeq(p, 1, Len(p))
    BY <1>1, SubSeqOfConcat1
  <2>2. SubSeq(p, 1, Len(p)) = p
    BY SubSeqFull
  <2>3. Len(w) - 1 = Len(p)
    BY <1>1, <1>2
  <2> HIDE DEF w
  <2>4. Front(w) = SubSeq(w, 1, Len(p))
    BY <2>3 DEF Front
  <2> QED
    BY <2>1, <2>2, <2>4
<1> HIDE DEF w
<1>5. EndsIn(w, Slash)
  <2>1. Len(w) # 0 /\ w # <<>>
    BY <1>1, <1>2
  <2>2. Last(w) = Slash
    BY <1>2, <1>3 DEF Last
  <2> QED
    BY <2>1, <2>2 DEF EndsIn
<1>6. Closed(w) = w
  BY <1>5 DEF Closed
<1> QED
  BY <1>4, <1>5, <1>6 DEF w

(* The entry is on the disk, and the default document where there is one.  *)
LEMMA DiskIs ==
  ASSUME NEW p \in Seq(Bytes), NEW q \in Seq(Bytes), NEW what, NEW default \in BOOLEAN,
         Len(p) > 3, Len(q) > Len(p)
  PROVE  LET disk == DiskOf(p, what, q, default) IN
         /\ p \in DOMAIN disk /\ disk[p] = what
         /\ default => q \in DOMAIN disk /\ disk[q] = "file"
         /\ ~default => q \notin DOMAIN disk
<1> DEFINE disk == DiskOf(p, what, q, default)
           x == IF default THEN q ELSE Base
<1>1. Len(p) \in Nat /\ Len(q) \in Nat
  BY LenProperties
<1>2. p # q /\ p # Dir /\ p # Base /\ q # Dir /\ q # Base
  BY <1>1, FixedPaths
<1>3. disk = [r \in {p, Dir, x} |->
                IF r = p THEN what ELSE IF default /\ r = q THEN "file" ELSE "dir"]
  BY DEF DiskOf
<1> HIDE DEF disk, x
<1>4. DOMAIN disk = {p, Dir, x} /\ disk[p] = what
  BY <1>3
<1>5. ASSUME default PROVE q \in DOMAIN disk /\ disk[q] = "file"
  <2>1. x = q
    BY <1>5 DEF x
  <2> QED
    BY <1>2, <1>3, <1>5, <2>1
<1>6. ASSUME ~default PROVE q \notin DOMAIN disk
  <2>1. x = Base
    BY <1>6 DEF x
  <2> QED
    BY <1>2, <1>4, <2>1
<1> QED
  BY <1>4, <1>5, <1>6 DEF disk

LEMMA LowerIs ==
  ASSUME NEW e \in Seq(Bytes)
  PROVE  /\ MakeLower(e) = <<>> <=> e = <<>>
         /\ e # <<>> /\ e[1] = Dot => MakeLower(e)[1] = Dot
<1>1. DOMAIN e = 1..Len(e) /\ Len(e) \in Nat
  BY LenProperties
<1>2. MakeLower(e) = [i \in 1..Len(e) |-> LowerCase(e[i])]
  BY <1>1 DEF MakeLower
<1>3. CASE e = <<>>
  <2>1. Len(e) = 0
    BY <1>3
  <2>2. MakeLower(e) = <<>>
    BY <1>2, <2>1
  <2> QED
    BY <1>3, <2>2
<1>4. CASE e # <<>>
  <2>1. Len(e) \in Nat \ {0}
    BY <1>4, EmptySeq
  <2>2. 1 \in 1..Len(e)
    BY <2>1
  <2>3. MakeLower(e) # <<>>
    <3>1. DOMAIN MakeLower(e) = 1..Len(e)
      BY <1>2
    <3>2. DOMAIN <<>> = {}
      OBVIOUS
    <3> QED
      BY <2>2, <3>1, <3>2
  <2>4. e[1] = Dot => MakeLower(e)[1] = Dot
    <3>1. MakeLower(e)[1] = LowerCase(e[1])
      BY <1>2, <2>2
    <3>2. LowerCase(Dot) = Dot
      BY DEF LowerCase, Dot
    <3> QED
      BY <3>1, <3>2
  <2> QED
    BY <1>4, <2>3, <2>4
<1> QED
  BY <1>3, <1>4

LEMMA Resolved ==
  ASSUME NEW name \in Seq(Bytes), name # <<>>, Undotted(name),
         \A i \in 1..Len(name) : name[i] # Slash,
         NEW dir \in BOOLEAN, NEW default \in BOOLEAN,
         DefaultDoc \in Seq(Bytes), Plain(DefaultDoc)
  PROVE  \E e \in Seq(Bytes) :
           /\ ExtIs(name, Len(name), e)
           /\ LET open == dir \/ e = <<>> IN
              GotFor(name, dir, default)
                = [uri |-> IF open /\ default THEN OwnOf(name, dir) \o DefaultDoc ELSE OwnOf(name, dir),
                   ext |-> IF ~open THEN MakeLower(e)
                           ELSE IF default THEN TypeOf(Extension(DefaultDoc)) ELSE DefMime]
<1>1. PICK e \in Seq(Bytes) :
             /\ ExtIs(name, Len(name), e)
             /\ UriDecodeExt(LinkOf(name, dir), <<>>)
                  = [uri |-> (<<100, 47>> \o name) \o Ending(dir),
                     ext |-> MakeLower(IF dir THEN <<>> ELSE e)]
  <2> DEFINE a == <<47, 100, 47>>
             o == <<100, 47>>
  <2>1. a \in Seq(Bytes) /\ o \in Seq(Bytes) /\ Led(a, o)
    BY DirectoryLed DEF Bytes
  <2> HIDE DEF a, o
  <2>2. \E e \in Seq(Bytes) :
          /\ ExtIs(name, Len(name), e)
          /\ UriDecodeExt(Behind(a, name, dir), <<>>)
               = [uri |-> (o \o name) \o Ending(dir), ext |-> MakeLower(IF dir THEN <<>> ELSE e)]
    BY <2>1, PathBack
  <2> QED
    BY <2>2 DEF LinkOf, a, o
<1> DEFINE disk == DiskFor(name, dir, default)
           uri == LinkOf(name, dir)
           decoded == UriDecodeExt(uri, <<>>)
           whole == Closed(Base) \o decoded.uri
           path == IF IsDirectory(disk, whole) THEN Closed(whole) ELSE whole
           doc == UriDecodeExt(DefaultDoc, decoded.ext)
           isDir == IsDirectory(disk, whole) \/ decoded.ext = <<>>
           found == isDir /\ IsFile(disk, path \o doc.uri)
           ext == IF found THEN doc.ext ELSE IF isDir THEN <<>> ELSE decoded.ext
           own == OwnOf(name, dir)
           p == PathOf(name)
           q == own \o DefaultDoc
           open == dir \/ e = <<>>
           x == MakeLower(IF dir THEN <<>> ELSE e)
           type == Extension(DefaultDoc)
<1>2. GotFor(name, dir, default)
        = [uri |-> IF found THEN path \o doc.uri ELSE path, ext |-> IF ext = <<>> THEN DefMime ELSE ext]
  BY Zenon DEF GotFor, Resolve
<1>3. /\ p \in Seq(Bytes) /\ Len(p) \in Nat /\ Len(p) > 3
      /\ p # <<>> /\ ~EndsIn(p, Slash)
      /\ own \in Seq(Bytes) /\ Len(own) \in Nat /\ Len(own) >= Len(p)
  BY PathType
<1>4. DefaultDoc # <<>> /\ Len(DefaultDoc) \in Nat \ {0}
  BY EmptySeq DEF Plain
<1>5. q \in Seq(Bytes) /\ Len(q) > Len(p)
  <2>1. q \in Seq(Bytes) /\ Len(q) = Len(own) + Len(DefaultDoc)
    BY <1>3, ConcatProperties
  <2> HIDE DEF q, own, p
  <2> QED
    BY <1>3, <1>4, <2>1
<1>6. /\ p \in DOMAIN disk /\ disk[p] = KindOf(dir)
      /\ default => q \in DOMAIN disk /\ disk[q] = "file"
      /\ ~default => q \notin DOMAIN disk
  <2>1. LET d == DiskOf(p, KindOf(dir), q, default) IN
        /\ p \in DOMAIN d /\ d[p] = KindOf(dir)
        /\ default => q \in DOMAIN d /\ d[q] = "file"
        /\ ~default => q \notin DOMAIN d
    <3> HIDE DEF p, q
    <3> QED
      BY <1>3, <1>5, DiskIs
  <2>2. disk = DiskOf(p, KindOf(dir), q, default)
    BY DEF DiskFor
  <2> HIDE DEF disk, p, q
  <2> QED
    BY <2>1, <2>2
<1>7. decoded.uri = (<<100, 47>> \o name) \o Ending(dir) /\ decoded.ext = x
  <2> HIDE DEF x
  <2> QED
    BY <1>1 DEF x
<1>8. whole = own
  BY <1>7, WholeIs
<1> HIDE DEF disk, uri, decoded, p, q, own, type, x, whole
<1>9. IsDirectory(disk, own) <=> dir
  <2>1. CASE dir
    <3>1. own = p \o <<Slash>>
      BY <2>1 DEF own, p, OwnOf
    <3>2. Front(own) = p /\ EndsIn(own, Slash)
      BY <1>3, <3>1, FrontIs
    <3>3. KindOf(dir) = "dir"
      BY <2>1 DEF KindOf
    <3> QED
      BY <1>6, <2>1, <3>2, <3>3 DEF IsDirectory
  <2>2. CASE ~dir
    <3>1. own = p
      BY <2>2 DEF own, p, OwnOf
    <3>2. KindOf(dir) = "file"
      BY <2>2 DEF KindOf
    <3> QED
      BY <1>3, <1>6, <2>2, <3>1, <3>2 DEF IsDirectory
  <2> QED
    BY <2>1, <2>2
<1>10. path = own
  <2>1. dir => Closed(own) = own
    <3>1. SUFFICES ASSUME dir PROVE Closed(own) = own
      OBVIOUS
    <3>2. own = p \o <<Slash>>
      BY <3>1 DEF own, p, OwnOf
    <3> QED
      BY <1>3, <3>2, FrontIs
  <2> QED
    BY <1>8, <1>9, <2>1
<1>11. x = <<>> <=> open
  <2>1. CASE dir
    <3>1. x = MakeLower(<<>>) /\ <<>> \in Seq(Bytes)
      BY <2>1 DEF x
    <3> QED
      BY <2>1, <3>1, LowerIs
  <2>2. CASE ~dir
    <3>1. x = MakeLower(e)
      BY <2>2 DEF x
    <3> QED
      BY <1>1, <2>2, <3>1, LowerIs
  <2> QED
    BY <2>1, <2>2
<1>12. isDir <=> open
  BY <1>7, <1>8, <1>9, <1>11
<1>13. CASE open
  <2>1. decoded.ext = <<>>
    BY <1>7, <1>11, <1>13
  <2>2. UriDecodeExt(DefaultDoc, <<>>) = [uri |-> DefaultDoc, ext |-> MakeLower(type)]
    BY PlainBack DEF type
  <2>3. doc.uri = DefaultDoc /\ doc.ext = MakeLower(type)
    <3>1. doc = [uri |-> DefaultDoc, ext |-> MakeLower(type)]
      BY <2>1, <2>2
    <3> HIDE DEF doc
    <3> QED
      BY <3>1
  <2>4. path \o doc.uri = q
    BY <1>10, <2>3 DEF q
  <2>5. found <=> default
    <3>1. IsFile(disk, q) <=> default
      BY <1>6 DEF IsFile
    <3> HIDE DEF doc, path, isDir
    <3> QED
      BY <1>12, <1>13, <2>4, <3>1
  <2>6. type \in Seq(Bytes)
    <3>1. CASE \E d \in DOMAIN DefaultDoc : LastDot(DefaultDoc, d)
      <4> DEFINE d == CHOOSE d \in DOMAIN DefaultDoc : LastDot(DefaultDoc, d)
      <4>1. d \in DOMAIN DefaultDoc /\ type = SubSeq(DefaultDoc, d, Len(DefaultDoc))
        BY <3>1 DEF type, Extension
      <4> HIDE DEF d
      <4>2. DOMAIN DefaultDoc = 1..Len(DefaultDoc)
        BY LenProperties
      <4>3. \A i \in d..Len(DefaultDoc) : DefaultDoc[i] \in Bytes
        BY <1>4, <4>1, <4>2, ElementOfSeq
      <4> QED
        BY <1>4, <4>1, <4>2, <4>3, SubSeqProperties
    <3>2. CASE ~ \E d \in DOMAIN DefaultDoc : LastDot(DefaultDoc, d)
      <4>1. type = <<>>
        BY <3>2 DEF type, Extension
      <4> QED
        BY <4>1
    <3> QED
      BY <3>1, <3>2
  <2>7. MakeLower(type) = <<>> <=> type = <<>>
    BY <2>6, LowerIs
  <2>8. ext = IF default THEN MakeLower(type) ELSE <<>>
    <3> HIDE DEF doc, found, isDir
    <3> QED
      BY <1>12, <1>13, <2>3, <2>5
  <2>9. (IF ext = <<>> THEN DefMime ELSE ext) = IF default THEN TypeOf(type) ELSE DefMime
    <3> HIDE DEF ext
    <3> QED
      BY <2>7, <2>8 DEF TypeOf
  <2>10. (IF found THEN path \o doc.uri ELSE path) = IF default THEN q ELSE own
    <3> HIDE DEF doc, found, path
    <3> QED
      BY <1>10, <2>4, <2>5
  <2> HIDE DEF doc, found, path, ext
  <2>11. GotFor(name, dir, default)
           = [uri |-> IF open /\ default THEN q ELSE own,
              ext |-> IF ~open THEN MakeLower(e) ELSE IF default THEN TypeOf(type) ELSE DefMime]
    BY <1>2, <1>13, <2>9, <2>10
  <2> QED
    BY <1>1, <2>11 DEF q, own, type
<1>14. CASE ~open
  <2>1. ~found
    <3> HIDE DEF isDir
    <3> QED
      BY <1>12, <1>14
  <2>2. x = MakeLower(e) /\ x # <<>>
    BY <1>11, <1>14 DEF x
  <2>3. ext = MakeLower(e) /\ ext # <<>>
    <3> HIDE DEF doc, found, isDir
    <3> QED
      BY <1>7, <1>12, <1>14, <2>1, <2>2
  <2> HIDE DEF doc, found, path, ext
  <2>4. GotFor(name, dir, default)
           = [uri |-> IF open /\ default THEN q ELSE own,
              ext |-> IF ~open THEN MakeLower(e) ELSE IF default THEN TypeOf(type) ELSE DefMime]
    BY <1>2, <1>10, <1>14, <2>1, <2>3
  <2> QED
    BY <1>1, <2>4 DEF q, own, type
<1> QED
  BY <1>13, <1>14

(* A link of the index that was asked for without its slash.               *)
LEMMA Astray ==
  ASSUME NEW name \in Seq(Bytes), name # <<>>, Undotted(name),
         \A i \in 1..Len(name) : name[i] # Slash, NEW dir \in BOOLEAN
  PROVE  UriDecodeExt(Behind(<<47>>, name, dir), <<>>).uri = name \o Ending(dir)
<1> DEFINE a == <<47>>
           o == <<>>
<1>1. a \in Seq(Bytes) /\ o \in Seq(Bytes) /\ Led(a, o)
  BY RootLed DEF Bytes
<1>2. o \o name = name
  BY ConcatEmptySeq
<1> HIDE DEF a, o
<1>3. \E e \in Seq(Bytes) :
        /\ ExtIs(name, Len(name), e)
        /\ UriDecodeExt(Behind(a, name, dir), <<>>)
             = [uri |-> (o \o name) \o Ending(dir), ext |-> MakeLower(IF dir THEN <<>> ELSE e)]
  BY <1>1, PathBack
<1>4. UriDecodeExt(Behind(a, name, dir), <<>>).uri = (o \o name) \o Ending(dir)
  BY <1>3
<1> QED
  BY <1>2, <1>4 DEF a

-----------------------------------------------------------------------------
(* The entries of the module: the name is of its bytes.                    *)
NameType ==
  task.is = "uri" => /\ task.kind \in {"file", "dir", "symlink"} /\ task.default \in BOOLEAN
                     /\ task.slash \in BOOLEAN /\ input \in Seq(NameBytes)

LEMMA NameTypeHolds == CodingSpec => []NameType
<1>1. CodingInit => NameType
  BY DEF CodingInit, NameType
<1>2. NameType /\ [CodingNext]_codingVars => NameType'
  <2> SUFFICES ASSUME NameType, [CodingNext]_codingVars PROVE NameType'
    OBVIOUS
  <2>1. CASE GrowText
    BY <2>1 DEF GrowText, NameType
  <2>2. CASE GrowName
    <3>1. PICK c \in NameBytes : input' = Append(input, c)
      BY <2>2 DEF GrowName
    <3>2. input \in Seq(NameBytes) /\ task' = task /\ task.kind \in {"file", "dir", "symlink"}
          /\ task.default \in BOOLEAN /\ task.slash \in BOOLEAN
      BY <2>2 DEF GrowName, NameType
    <3>3. input' \in Seq(NameBytes)
      BY <3>1, <3>2, AppendProperties
    <3> QED
      BY <3>2, <3>3 DEF NameType
  <2>3. CASE GrowBytes
    BY <2>3 DEF GrowBytes, NameType
  <2>4. CASE UNCHANGED codingVars
    BY <2>4 DEF codingVars, NameType
  <2> QED
    BY <2>1, <2>2, <2>3, <2>4 DEF CodingNext
<1> QED
  BY <1>1, <1>2, PTL DEF CodingSpec

(* HttpHelpers.cpp, HttpAccess.cpp: a link of the index that was asked for *)
(* as /d/, followed, leads back to the entry it stands for, with its type; *)
(* one of the index that was asked for as /d leads to the name beside the  *)
(* directory; and the title shows the name: for every name without a slash *)
(* and every default document whose name needs no escapes.                 *)
THEOREM LinksCorrect == CodingSpec => []LinksLeadBack
<1>1. NameType => LinksLeadBack
  <2> DEFINE dir == task.kind = "dir"
             default == task.default
             own == OwnOf(input, dir)
             got == GotFor(input, dir, default)
             x == Extension(input)
             open == dir \/ x = <<>>
  <2> SUFFICES ASSUME NameType, task.is = "uri", input # <<>>,
                      Listed([name |-> input, kind |-> task.kind]),
                      ~TwoDots(input), Plain(DefaultDoc)
               PROVE  /\ UriDecode(UriEncode(input)) = input
                      /\ UriDecodeExt(Behind(<<47>>, input, dir), <<>>).uri = input \o Ending(dir)
                      /\ got.uri = IF open /\ default THEN own \o DefaultDoc ELSE own
                      /\ IF open THEN got.ext = IF default THEN TypeOf(Extension(DefaultDoc)) ELSE DefMime
                         ELSE IF \A i \in DOMAIN x : Unreserved(x[i]) THEN got.ext = TypeOf(x)
                         ELSE got.ext[1] = Dot
    <3>1. ASSUME task.kind \in {"file", "dir"}
          PROVE  LET entry == [name |-> input, kind |-> task.kind]
                     path  == Dir \o <<Slash>> \o input
                     mine  == IF entry.kind = "dir" THEN path \o <<Slash>> ELSE path
                     disk  == DiskOf(path, entry.kind, mine \o DefaultDoc, task.default)
                     link  == Page(task.slash) \o Link(entry)
                 IN  /\ mine = own
                     /\ task.slash => Resolve(disk, Base, DefaultDoc, link, DefMime) = got
                     /\ ~task.slash => link = Behind(<<47>>, input, dir)
                     /\ (IF entry.kind = "dir" THEN <<Slash>> ELSE <<>>) = Ending(dir)
      <4>1. KindOf(dir) = task.kind
        BY <3>1 DEF KindOf
      <4>2. task.slash => Page(task.slash) = <<47, 100, 47>>
        BY DEF Page
      <4>3. ~task.slash => Page(task.slash) = <<47>>
        BY DEF Page
      <4> QED
        BY <4>1, <4>2, <4>3 DEF OwnOf, PathOf, GotFor, DiskFor, LinkOf, Behind, Ending, Link
    <3> QED
      BY <3>1 DEF LinksLeadBack, TypeOf, Listed, NameType
  <2>1. input \in Seq(Bytes) /\ default \in BOOLEAN /\ dir \in BOOLEAN
    <3>1. NameBytes \subseteq Bytes
      <4>1. NameBytes \subseteq 1..255
        BY CodingAssumption, Zenon
      <4>2. \A c \in 1..255 : c \in Bytes
        BY DEF Bytes
      <4> QED
        BY <4>1, <4>2
    <3>2. input \in Seq(NameBytes)
      BY DEF NameType
    <3> QED
      BY <3>1, <3>2, SeqMonotonic DEF NameType
  <2>2. \A i \in 1..Len(input) : input[i] # Slash
    <3>1. \A i \in 1..Len(input) : input[i] \in NameBytes
      BY ElementOfSeq DEF NameType
    <3> QED
      BY <3>1, CodingAssumption
  <2>3. Undotted(input)
    BY DEF Undotted, Listed
  <2>4. DefaultDoc \in Seq(Bytes)
    <3>1. 1..255 \subseteq Bytes
      BY DEF Bytes
    <3>2. DefaultDoc \in Seq(1..255)
      BY CodingAssumption
    <3> QED
      BY <3>1, <3>2, SeqMonotonic
  <2>5. PICK e \in Seq(Bytes) :
               /\ ExtIs(input, Len(input), e)
               /\ LET o == dir \/ e = <<>> IN
                  got = [uri |-> IF o /\ default THEN own \o DefaultDoc ELSE own,
                         ext |-> IF ~o THEN MakeLower(e)
                                 ELSE IF default THEN TypeOf(Extension(DefaultDoc)) ELSE DefMime]
    <3> HIDE DEF dir, default
    <3> QED
      BY <2>1, <2>2, <2>3, <2>4, Resolved
  <2> HIDE DEF got, own, x, dir, default
  <2>6. /\ x = <<>> <=> e = <<>>
        /\ x # <<>> => e[1] = Dot
        /\ (\A i \in DOMAIN x : Unreserved(x[i])) => e = x
    BY <2>1, <2>5, ExtensionIs DEF x
  <2>7. /\ got.uri = IF open /\ default THEN own \o DefaultDoc ELSE own
        /\ got.ext = IF ~open THEN MakeLower(e)
                     ELSE IF default THEN TypeOf(Extension(DefaultDoc)) ELSE DefMime
    BY <2>5, <2>6
  <2>8. UriDecode(UriEncode(input)) = input
    BY <2>1, TitleBack
  <2>9. ~open => MakeLower(e)[1] = Dot
    BY <2>5, <2>6, LowerIs
  <2>10. UriDecodeExt(Behind(<<47>>, input, dir), <<>>).uri = input \o Ending(dir)
    BY <2>1, <2>2, <2>3, Astray
  <2>11. ~open /\ (\A i \in DOMAIN x : Unreserved(x[i])) => MakeLower(e) = TypeOf(x)
    BY <2>6 DEF TypeOf
  <2> QED
    BY <2>7, <2>8, <2>9, <2>10, <2>11
<1> QED
  BY <1>1, NameTypeHolds, PTL
=============================================================================
