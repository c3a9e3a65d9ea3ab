------------------------------ MODULE MCThread ------------------------------
(* Three threads from one object: enough to start again over a thread that *)
(* runs, one that ended, and one that was joined or cancelled.             *)
EXTENDS Thread
=============================================================================
