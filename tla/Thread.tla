------------------------------- MODULE Thread -------------------------------
(***************************************************************************)
(* One utils::Thread< type > (include/utils/Thread.hpp) under every        *)
(* sequence of calls by its owner, with the pthreads it created. Every     *)
(* method holds the object's lock, so a call is one step; Join and the     *)
(* destructor are steps that wait. The definitions have names of their own *)
(* so that a module may extend this one beside HttpdPool.                  *)
(***************************************************************************)
EXTENDS ThreadObject

CONSTANTS Pthreads,  \* identities that pthread_create may hand out
          NoPthread  \* m_thread before the first successful Start

ASSUME ThreadAssumption == NoPthread \notin Pthreads

VARIABLES
  flags,   \* m_ok and m_running
  handle,  \* m_thread
  os,      \* os[h]: what the system knows of pthread h
  object,  \* "live", "destroyed", or "killed" with the whole process
  answer   \* what the last call returned

threadVars == <<flags, handle, os, object, answer>>

(* An "ended" thread has returned and waits to be joined. *)
ThreadTypeOK ==
  /\ flags \in ThreadFlags
  /\ handle \in Pthreads \cup {NoPthread}
  /\ os \in [Pthreads -> {"unused", "running", "ended", "joined"}]
  /\ object \in {"live", "destroyed", "killed"}
  /\ answer \in BOOLEAN

ThreadInit ==
  /\ \E attrOk \in BOOLEAN : flags = Constructed(attrOk)
  /\ handle = NoPthread
  /\ os = [h \in Pthreads |-> "unused"]
  /\ object = "live"
  /\ answer = FALSE

Start(h, created) ==
  /\ object = "live" /\ os[h] = "unused"
  /\ flags' = AfterStart(flags, created)
  /\ answer' = (flags.ok /\ created)
  /\ IF flags.ok /\ created
       THEN handle' = h /\ os' = [os EXCEPT ![h] = "running"]
       ELSE UNCHANGED <<handle, os>>
  /\ UNCHANGED object

(* pthread_join waits for the thread to end. *)
Reap ==
  IF Acts(flags)
    THEN os[handle] = "ended" /\ os' = [os EXCEPT ![handle] = "joined"]
    ELSE UNCHANGED os

Join ==
  /\ object = "live"
  /\ Reap
  /\ flags' = AfterSignal(flags, TRUE)
  /\ answer' = Acts(flags)
  /\ UNCHANGED <<handle, object>>

(* A signal to a thread that has ended succeeds or not, by C library. *)
Signal(succeeded) ==
  /\ Acts(flags) /\ os[handle] = "running" => succeeded
  /\ flags' = AfterSignal(flags, succeeded)
  /\ answer' = (Acts(flags) /\ succeeded)

(* pthread_kill with SIGKILL: the signal takes the whole process. *)
Kill(succeeded) ==
  /\ object = "live"
  /\ Signal(succeeded)
  /\ object' = IF Acts(flags) /\ os[handle] = "running" THEN "killed" ELSE "live"
  /\ UNCHANGED <<handle, os>>

(* pthread_cancel: the thread ends later, at a cancellation point. *)
Cancel(succeeded) ==
  /\ object = "live"
  /\ Signal(succeeded)
  /\ UNCHANGED <<handle, os, object>>

(* ~Thread: Join, and the context goes with the object. *)
Destroy ==
  /\ object = "live"
  /\ Reap
  /\ flags' = AfterSignal(flags, TRUE)
  /\ object' = "destroyed"
  /\ UNCHANGED <<handle, answer>>

(* The thread's function returns, or its cancellation takes effect. *)
Ends(h) ==
  /\ object # "killed" /\ os[h] = "running"
  /\ os' = [os EXCEPT ![h] = "ended"]
  /\ UNCHANGED <<flags, handle, object, answer>>

ThreadNext ==
  \/ \E h \in Pthreads, created \in BOOLEAN : Start(h, created)
  \/ \E succeeded \in BOOLEAN : Kill(succeeded) \/ Cancel(succeeded)
  \/ Join \/ Destroy
  \/ \E h \in Pthreads : Ends(h)

ThreadSpec == ThreadInit /\ [][ThreadNext]_threadVars

-----------------------------------------------------------------------------
(* Whatever the owner calls, in whatever order, join, kill and cancel are  *)
(* only ever applied to a thread that was created and not yet joined.      *)
HandleValidWhenUsed ==
  object = "live" /\ Acts(flags) =>
    handle \in Pthreads /\ os[handle] \in {"running", "ended"}
=============================================================================
