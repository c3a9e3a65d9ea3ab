-------------------------------- MODULE Vic ---------------------------------
(***************************************************************************)
(* The cipher of code/vic.cpp: a text becomes digits by a checkerboard, an *)
(* offset is added to them digit by digit or taken away, and the digits    *)
(* become letters again. A text is a sequence of characters, a cipher one  *)
(* of digits, and an offset the sign and the digits of the argument, 10    *)
(* standing for any other character.                                       *)
(***************************************************************************)
EXTENDS Integers, SequencesExt

Digits == <<"0", "1", "2", "3", "4", "5", "6", "7", "8", "9">>
Small  == [A |-> "a", B |-> "b", C |-> "c", D |-> "d", E |-> "e", F |-> "f", G |-> "g",
           H |-> "h", I |-> "i", J |-> "j", K |-> "k", L |-> "l", M |-> "m", N |-> "n",
           O |-> "o", P |-> "p", Q |-> "q", R |-> "r", S |-> "s", T |-> "t", U |-> "u",
           V |-> "v", W |-> "w", X |-> "x", Y |-> "y", Z |-> "z"]

DigitOf(c) == CHOOSE d \in 0..9 : Digits[d + 1] = c

Lower(c) == IF c \in DOMAIN Small THEN Small[c] ELSE c

Letters == [a |-> <<3>>,    b |-> <<4, 5>>, c |-> <<0, 6>>, d |-> <<0, 0>>, e |-> <<8>>,
            f |-> <<0, 3>>, g |-> <<4, 0>>, h |-> <<0, 2>>, i |-> <<6>>,    j |-> <<0, 4>>,
            k |-> <<4, 6>>, l |-> <<4, 7>>, m |-> <<4, 1>>, n |-> <<2>>,    o |-> <<7>>,
            p |-> <<0, 9>>, q |-> <<0, 1>>, r |-> <<1>>,    s |-> <<5>>,    t |-> <<9>>,
            u |-> <<4, 4>>, v |-> <<4, 3>>, w |-> <<4, 2>>, x |-> <<0, 8>>, y |-> <<0, 7>>,
            z |-> <<4, 9>>]

Code(c) == IF c = "." THEN <<0, 5>> ELSE Letters[c]

-----------------------------------------------------------------------------
(* A digit counts only between two slashes, a space is counted and dropped;*)
(* anything else stops the encoding, and the count that main compares is   *)
(* then short.                                                             *)
Encoded(s, character) ==
  LET c == Lower(character)
  IN IF s.stopped \/ c = " " THEN s
     ELSE IF c = "/" THEN [s EXCEPT !.out = @ \o <<4, 8>>, !.number = ~@]
     ELSE IF c \in DOMAIN Letters \cup {"."} THEN [s EXCEPT !.out = @ \o Code(c)]
     ELSE IF c \in ToSet(Digits) /\ s.number THEN [s EXCEPT !.out = Append(@, DigitOf(c))]
     ELSE [s EXCEPT !.stopped = TRUE]

VicEncode(text) ==
  LET after[n \in 0..Len(text)] ==
        IF n = 0 THEN [out |-> <<>>, number |-> FALSE, stopped |-> FALSE]
                 ELSE Encoded(after[n - 1], text[n])
  IN after[Len(text)]

Top  == <<"", "r", "n", "a", "", "s", "i", "o", "e", "t">>
Zero == <<"d", "q", "h", "f", "j", ".", "c", "y", "x", "p">>
Four == <<"g", "m", "w", "v", "u", "b", "k", "l", "/", "z">>

Puts(s, characters, state) == [out |-> s.out \o characters, state |-> state]

(* Seeded fault: of two fours in a number one is forgotten.                *)
FourInNumberForgets(s, d) ==
  IF d = 8 THEN Puts(s, <<"/">>, "top")
  ELSE IF d = 4 THEN s
  ELSE Puts(s, <<"4", Digits[d + 1]>>, "number")

(* After a 4 in a number: 8 makes it the slash that ends the number.       *)
FourInNumber(s, d) ==
  IF d = 8 THEN Puts(s, <<"/">>, "top")
  ELSE IF d = 4 THEN Puts(s, <<"4">>, "number4")
  ELSE Puts(s, <<"4", Digits[d + 1]>>, "number")

FourOrDigit(s, d) ==
  IF d = 4 THEN Puts(s, <<>>, "number4") ELSE Puts(s, <<Digits[d + 1]>>, "number")

FirstRow(s, d) ==
  IF d = 0 THEN Puts(s, <<>>, "zero")
  ELSE IF d = 4 THEN Puts(s, <<>>, "four")
  ELSE Puts(s, <<Top[d + 1]>>, "top")

Decoded(s, d) ==
  CASE s.state = "zero" -> Puts(s, <<Zero[d + 1]>>, "top")
    [] s.state = "four" -> Puts(s, <<Four[d + 1]>>, IF d = 8 THEN "number" ELSE "top")
    [] s.state = "number4" -> FourInNumber(s, d)
    [] s.state = "number" -> FourOrDigit(s, d)
    [] s.state = "top" -> FirstRow(s, d)

(* The state the digits leave, and the text: with a letter more for a 0 or *)
(* a 4 that waits for its second digit, none for a 4 within a number.      *)
Ends(cipher) ==
  LET after[n \in 0..Len(cipher)] ==
        IF n = 0 THEN [out |-> <<>>, state |-> "top"] ELSE Decoded(after[n - 1], cipher[n])
  IN after[Len(cipher)]

VicDecode(cipher) ==
  LET s == Ends(cipher) IN
  s.out \o (IF s.state = "zero" THEN <<"d">> ELSE IF s.state = "four" THEN <<"g">> ELSE <<>>)

-----------------------------------------------------------------------------
OffsetSize(offset) == Len(offset.digits) + (IF offset.sign = "" THEN 0 ELSE 1)

OffsetAt(offset, i) == offset.digits[((i - 1) % Len(offset.digits)) + 1]

(* ApplyOffset counts every digit; else main reports an error.             *)
OffsetFits(offset, cipher) ==
  cipher # <<>> => /\ OffsetSize(offset) >= 2
                   /\ \A i \in DOMAIN cipher : OffsetAt(offset, i) \in 0..9

ApplyOffset(offset, cipher) ==
  [i \in DOMAIN cipher |->
     LET k == OffsetAt(offset, i) IN
     IF offset.sign = "-" THEN (cipher[i] - k) % 10 ELSE (cipher[i] + k) % 10]

(* main: the digits that VicDecode gets, the text printed, or an error.    *)
Main(offset, text) ==
  LET e == VicEncode(text)
      accepted == ~e.stopped /\ OffsetFits(offset, e.out)
      cipher == IF accepted THEN ApplyOffset(offset, e.out) ELSE <<>>
  IN [accepted |-> accepted, cipher |-> cipher, text |-> VicDecode(cipher)]
=============================================================================
