------------------------------ MODULE ConnPool ------------------------------
(***************************************************************************)
(* What httpd promises its clients, with no threads, slots or counters: a  *)
(* connection waits, is taken by the one acceptor, is served by exactly    *)
(* one server out of Capacity, and is closed. HttpdPool implements this.   *)
(***************************************************************************)
EXTENDS Naturals, FiniteSets

CONSTANTS Conns,    \* identities of client connections
          Capacity  \* how many connections may be served at once

VARIABLES phase,     \* phase[k]: where connection k is in its life
          listening  \* the listening socket is open

vars == <<phase, listening>>

Phases == {"closed", "pending", "accepted", "serving"}

In(p) == {k \in Conns : phase[k] = p}

Init ==
  /\ phase = [k \in Conns |-> "closed"]
  /\ listening = TRUE

Arrive(k) ==
  /\ listening
  /\ phase[k] = "closed"
  /\ phase' = [phase EXCEPT ![k] = "pending"]
  /\ UNCHANGED listening

(* Taken off the backlog only while a server is free and nobody else is    *)
(* between the backlog and a server.                                       *)
Accept(k) ==
  /\ listening
  /\ phase[k] = "pending"
  /\ In("accepted") = {}
  /\ Cardinality(In("serving")) < Capacity
  /\ phase' = [phase EXCEPT ![k] = "accepted"]
  /\ UNCHANGED listening

Dispatch(k) ==
  /\ phase[k] = "accepted"
  /\ Cardinality(In("serving")) < Capacity
  /\ phase' = [phase EXCEPT ![k] = "serving"]
  /\ UNCHANGED listening

Close(k) ==
  /\ phase[k] \in {"accepted", "serving"}
  /\ phase' = [phase EXCEPT ![k] = "closed"]
  /\ UNCHANGED listening

(* The listening socket goes, and the kernel drops its backlog.            *)
Stop ==
  /\ listening
  /\ listening' = FALSE
  /\ phase' = [k \in Conns |-> IF phase[k] = "pending" THEN "closed" ELSE phase[k]]

Next ==
  \/ \E k \in Conns : Arrive(k) \/ Accept(k) \/ Dispatch(k) \/ Close(k)
  \/ Stop

Spec == Init /\ [][Next]_vars
=============================================================================
