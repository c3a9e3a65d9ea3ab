----------------------------- MODULE MCIniFile -----------------------------
(* One heading in two spellings and another one, a key, files that are     *)
(* empty, that spell a heading twice, or hold both. A value has a blank, a *)
(* = and a comment, another one is a comment only; callers write these two *)
(* and editors the first.                                                  *)
EXTENDS IniFile, TLC

CONSTANTS S, s, T, key

MCUpper == (S :> S) @@ (s :> S) @@ (T :> T)

Section(name, value) == [name |-> name, entries |-> (key :> value)]

one == <<"a">>
two == <<"b", " ", "=", "a", ";", "b">>
comment == <<";", "a">>

MCCharacters == {"a", "b", " ", "=", ";"}

MCContents == {
  << >>,
  <<Section(s, one)>>,
  <<Section(s, one), Section(T, one), Section(S, two)>> }

MCReads  == {[name |-> s, key |-> key], [name |-> T, key |-> key]}
MCWrites == {[name |-> S, key |-> key, value |-> two],
             [name |-> T, key |-> key, value |-> comment]}
=============================================================================
