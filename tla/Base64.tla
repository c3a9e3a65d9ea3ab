------------------------------- MODULE Base64 -------------------------------
(***************************************************************************)
(* DecodeBase64 and Base64Encode of code/utils/HttpAccess.cpp, over bytes  *)
(* and ASCII codes.                                                        *)
(***************************************************************************)
EXTENDS Integers, SequencesExt

Equals  == 61
Blank   == 32
IsSpace(c) == c \in {9, Blank}

(* Base64Value: 64 for what is no digit (the code has -1).                 *)
Base64Value(c) ==
  CASE c \in 65..90  -> c - 65
    [] c \in 97..122 -> c - 97 + 26
    [] c \in 48..57  -> c - 48 + 52
    [] c = 43 -> 62
    [] c = 47 -> 63
    [] OTHER -> 64

(* No more than the low 12 bits of the value are ever looked at, so the    *)
(* model keeps those of the int, which loses its high bits from the sixth  *)
(* digit on.                                                               *)
Shifted(value, digit) == (value * 64 + digit) % 4096

HighByte(value, bits) == (value \div 2^bits) % 256

(* Six bits more, and a byte once there are eight.                         *)
Decodes(s, c) ==
  LET value == Shifted(s.value, Base64Value(c))
      bits  == s.bits + 6
  IN IF s.done \/ s.bad \/ IsSpace(c) THEN s
     ELSE IF c = Equals THEN [s EXCEPT !.done = TRUE]
     ELSE IF Base64Value(c) = 64 THEN [s EXCEPT !.bad = TRUE]
     ELSE IF bits < 0 THEN [s EXCEPT !.value = value, !.bits = bits]
     ELSE [s EXCEPT !.value = value, !.bits = bits - 8,
                    !.out = Append(@, HighByte(value, bits))]

DecodeBase64(text) ==
  LET after[n \in 0..Len(text)] ==
        IF n = 0 THEN [value |-> 0, bits |-> 0 - 8, out |-> <<>>, done |-> FALSE, bad |-> FALSE]
                 ELSE Decodes(after[n - 1], text[n])
  IN after[Len(text)]

Digit64(v) == CHOOSE c \in {43, 47} \cup (48..57) \cup (65..90) \cup (97..122) : Base64Value(c) = v

(* Seeded fault: a last group of two bytes gets the padding of one.        *)
GroupPadded(group) ==
  LET at(i)  == IF i <= Len(group) THEN group[i] ELSE 0
      triple == at(1) * 65536 + at(2) * 256 + at(3)
      six(k) == Digit64((triple \div 64^k) % 64)
  IN <<six(3), six(2), IF Len(group) > 2 THEN six(1) ELSE Equals,
       IF Len(group) > 2 THEN six(0) ELSE Equals>>

(* Three bytes, or what is left of them, as four digits.                   *)
Group(group) ==
  LET at(i)  == IF i <= Len(group) THEN group[i] ELSE 0
      triple == at(1) * 65536 + at(2) * 256 + at(3)
      six(k) == Digit64((triple \div 64^k) % 64)
  IN <<six(3), six(2), IF Len(group) > 1 THEN six(1) ELSE Equals,
       IF Len(group) > 2 THEN six(0) ELSE Equals>>

Base64Encode(bytes) ==
  [i \in 1..(4 * ((Len(bytes) + 2) \div 3)) |->
     LET g == (i - 1) \div 4
     IN  Group(SubSeq(bytes, 3 * g + 1, Min({3 * g + 3, Len(bytes)})))[((i - 1) % 4) + 1]]
=============================================================================
