--------------------------- MODULE MCHttpRespond ---------------------------
(* Every combination of what Respond tests, without a range; and GET with  *)
(* every RANGE field of up to three tokens after "bytes=".                 *)
EXTENDS HttpRespond

Request(method, star, version, timeout, typed, response, list, tokens) ==
  [method |-> method, star |-> star, version |-> version, timeout |-> timeout,
   typed |-> typed, response |-> response, list |-> list, tokens |-> tokens,
   range |-> ParseRange(tokens)]

Plain ==
  {Request(m, s, v, FALSE, t, r, l, << >>) :
     m \in {"GET", "HEAD", "OPTIONS", "POST"}, s \in BOOLEAN,
     v \in {"none", "known", "other"}, t \in BOOLEAN, r \in {0, 2}, l \in BOOLEAN}
  \cup {Request("GET", FALSE, "known", TRUE, TRUE, r, TRUE, << >>) : r \in {0, 2}}

Tokens == {Symbol("-"), [type |-> "huge", value |-> 0]}
            \cup {Number(n) : n \in {0, 1, 4}}

Fields == {<<Symbol("bytes"), Symbol("=")>> \o t : t \in SeqOf(Tokens, 3)}

Ranged == {Request("GET", FALSE, "known", FALSE, TRUE, 0, FALSE, f) : f \in Fields}

MCRequests == Plain \cup Ranged
=============================================================================
