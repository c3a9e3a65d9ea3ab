----------------------------- MODULE HttpRange -----------------------------
(***************************************************************************)
(* Byte ranges (code/utils/HttpRequest.cpp): how Read takes a RANGE field  *)
(* apart, and how Respond fits the result to the size of a file. A token   *)
(* is a record: a symbol, or a number that stoll can ("num") or cannot     *)
(* ("huge") represent.                                                     *)
(***************************************************************************)
EXTENDS Integers, SequencesExt

Symbol(s) == [type |-> s, value |-> 0]
Number(n) == [type |-> "num", value |-> n]

(* The members that Read leaves, and its locals while it goes on.          *)
NoRange == [start |-> -1, end |-> -1, sset |-> FALSE, eset |-> FALSE,
            negative |-> 0, going |-> TRUE]

(* Seeded fault: the sign before the first number is dropped.              *)
FirstNumberUnsigned(r, t) ==
  IF t.type = "huge"
    THEN [r EXCEPT !.start = -1, !.going = FALSE]
    ELSE [r EXCEPT !.start = t.value, !.negative = 0, !.sset = TRUE]

FirstNumber(r, t) ==
  IF t.type = "huge"
    THEN [r EXCEPT !.start = -1, !.going = FALSE]
    ELSE [r EXCEPT !.start = IF r.negative > 0 THEN -t.value ELSE t.value,
                   !.negative = 0, !.sset = TRUE]

LastNumber(r, t) ==
  IF t.type = "huge"
    THEN [r EXCEPT !.end = -1, !.going = FALSE]
    ELSE [r EXCEPT !.end = IF r.negative > 1 THEN -t.value ELSE t.value,
                   !.negative = IF r.negative > 1 THEN 0 ELSE r.negative,
                   !.eset = TRUE]

NextToken(r, t) ==
  CASE ~r.going \/ t.type \in {"bytes", "="}         -> r
    [] r.going /\ t.type = "-"                       -> [r EXCEPT !.negative = r.negative + 1]
    [] r.going /\ t.type \in {"num", "huge"} /\ ~r.sset -> FirstNumber(r, t)
    [] r.going /\ t.type \in {"num", "huge"} /\ r.sset /\ ~r.eset -> LastNumber(r, t)
    [] OTHER                                         -> [r EXCEPT !.going = FALSE]

ParseRange(tokens) == FoldLeft(NextToken, NoRange, tokens)

(* Seeded fault: a last byte past the end of the file is not cut.          *)
FitUncut(r, size) ==
  LET suffix == r.start < 0 /\ size > 0
      start  == IF ~suffix THEN r.start
                ELSE IF size + r.start < 0 THEN 0 ELSE size + r.start
      end    == IF suffix THEN size - 1 ELSE r.end
  IN  [from |-> start, to |-> IF ~r.eset \/ end < 0 THEN size - 1 ELSE end]

(* Respond: the first and last byte to serve of a file of this size.       *)
Fit(r, size) ==
  LET suffix == r.start < 0 /\ size > 0
      start  == IF ~suffix THEN r.start
                ELSE IF size + r.start < 0 THEN 0 ELSE size + r.start
      end    == IF suffix THEN size - 1 ELSE r.end
  IN  [from |-> start,
       to   |-> IF ~r.eset \/ end < 0 \/ end >= size THEN size - 1 ELSE end]

Satisfiable(f, size) == size # 0 /\ f.to >= f.from
=============================================================================
