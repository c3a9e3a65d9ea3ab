---------------------------- MODULE MCHttpdPool ----------------------------
(* Two slots and three clients: a full pool with one client waiting, one   *)
(* slot stalled while the other is reused, identities used again.          *)
EXTENDS HttpdPool
=============================================================================
