----------------------------- MODULE MCSession -----------------------------
(* Two threads; a request is logged in one line or two, a line in two      *)
(* pieces, and one piece may be lost.                                      *)
EXTENDS Session
=============================================================================
