------------------------------ MODULE MCCoding ------------------------------
(* Texts of up to four characters: the first two are any, the others one   *)
(* of each row of the checkerboard, a slash, the digits of a slash and one *)
(* more, a space and a character that is refused. Offsets that leave the digits at the   *)
(* end of a letter, in a row, or in a number; two that are refused. Names  *)
(* of up to four bytes; bytes of which the first is any.                   *)
EXTENDS Coding

MCOffsets ==
  {[sign |-> s, digits |-> d] : s \in {"", "-"}, d \in {<<0, 0>>, <<1, 6, 5>>, <<4, 9>>, <<0, 0, 0, 9>>}}
    \cup {[sign |-> "+", digits |-> <<5>>], [sign |-> "", digits |-> <<5>>],
          [sign |-> "", digits |-> <<3, 10>>]}

Some == {"A", "d", "t", ".", "/", "4", "5", "8", " ", "?"}
MCCharacters == (0 :> ({".", "/"} \cup DOMAIN Letters \cup DOMAIN Small \cup Some)) @@ [n \in 1..3 |-> Some]

MCNameBytes == {32, 37, 43, 46, 52, 65, 92, 98, 195}
MCOctets == (0 :> 0..255) @@ [n \in 1..3 |-> {0, 1, 62, 127, 128, 255}]

MCDefaultDoc == <<105, 46, 104>>
MCDefMime == <<42>>
=============================================================================
