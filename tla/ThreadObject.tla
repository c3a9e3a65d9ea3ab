---------------------------- MODULE ThreadObject ----------------------------
(***************************************************************************)
(* The bookkeeping of one utils::Thread< type > (include/utils/Thread.hpp) *)
(* as functions on its two flags:                                          *)
(*     ok       m_ok, false for ever once any call failed                  *)
(*     running  m_running, what ~Thread and Join go by                     *)
(* Thread composes them into every sequence of calls, HttpdPool into the   *)
(* calls that httpd makes.                                                 *)
(***************************************************************************)

ThreadFlags == [ok : BOOLEAN, running : BOOLEAN]

(* The constructor; attrOk is what pthread_attr_init and                   *)
(* pthread_attr_setdetachstate answered. The test for a null function is   *)
(* overwritten by the test for a null context.                             *)
Constructed(attrOk) == [ok |-> attrOk, running |-> FALSE]

(* Seeded fault: Start forgets to set m_running.                           *)
AfterStartForgets(t, created) == [ok |-> t.ok /\ created, running |-> FALSE]

(* Start: no look at running; created is what pthread_create answered.     *)
AfterStart(t, created) ==
  [ok |-> t.ok /\ created, running |-> t.ok /\ created]

(* Join, Kill and Cancel act on the pthread only under this condition ...  *)
Acts(t) == t.ok /\ t.running

(* Seeded fault: Join, Kill and Cancel leave the flags alone.              *)
AfterSignalKeeps(t, succeeded) == t

(* ... and leave the same flags behind: a call that fails, or that finds   *)
(* no running thread, sets running and clears ok.                          *)
AfterSignal(t, succeeded) ==
  [ok      |-> Acts(t) /\ succeeded,
   running |-> ~(Acts(t) /\ succeeded)]
=============================================================================
