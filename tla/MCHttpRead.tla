----------------------------- MODULE MCHttpRead -----------------------------
(* Requests of every shape that Read tells apart: with and without a body, *)
(* a body longer or shorter than announced, a length beyond the buffer, a  *)
(* negative one that is sent in full and one that is not, one with a sign, *)
(* one out of range, more fields than are kept, an empty value, a line     *)
(* longer than the buffer.                                                 *)
EXTENDS HttpRead

MCUpper == [b \in {"G", "/", "H", "L", "K", ":", "1", "2", "+", "-", "v", " ", "TAB",
                     "CR", "LF"} |-> b]
             @@ ("g" :> "G") @@ ("h" :> "H") @@ ("l" :> "L")
MCDigit == ("1" :> 1) @@ ("2" :> 2)

Get(fields, data) ==
  [method |-> <<"g">>, uri |-> <<"/">>, version |-> <<"h">>,
   fields |-> fields, body |-> data]

Announce(n) == [key |-> <<"l">>, value |-> <<"TAB">> \o n]
Other       == [key |-> <<"K">>, value |-> <<"v">>]
Empty       == [key |-> <<"K">>, value |-> << >>]
Long        == [key |-> <<"K">>, value |-> <<"v", "v", "v", "v">>]

MCRequests == {
  Get(<<Other>>, << >>),
  Get(<<Other, Announce(<<"2">>)>>, <<"v", "CR">>),
  Get(<<Announce(<<"1">>)>>, <<"v", "K">>),
  Get(<<Announce(<<"2">>)>>, <<"v">>),
  Get(<<Announce(<<"1", "2">>)>>, [i \in 1..6 |-> "v"]),
  Get(<<Announce(<<"-", "1">>)>>, [i \in 1..6 |-> "v"]),
  Get(<<Announce(<<"-", "2">>)>>, <<"v">>),
  Get(<<Announce(<<"+", "2">>)>>, <<"v", "K">>),
  Get(<<Announce(<<"2", "1">>)>>, <<"v">>),
  Get(<<Other, Other, Announce(<<"1">>)>>, <<"v">>),
  Get(<<Empty, Announce(<<"1">>)>>, <<"v">>),
  Get(<<Long>>, << >>) }

MCContentLength == <<"L">>
=============================================================================
