----------------------------- MODULE HttpdPool -----------------------------
(***************************************************************************)
(* code/httpd.cpp: the main thread that accepts connections and hands them *)
(* to at most NUMTHREADS client threads, and the life of those threads     *)
(* around the request they serve. A worker's request (read, authorise,     *)
(* respond, log) is one step here, Serve, which may never be taken: the    *)
(* peer may stall. Its inside is modelled in the modules of its parts.     *)
(***************************************************************************)
EXTENDS Integers, Sequences, FiniteSets, ThreadObject

CONSTANTS NUMTHREADS,  \* slots of the clients array
          Conns,       \* identities of client connections
          NoConn       \* a null shared_ptr< Socket >

UINT16_MAX == 2^16 - 1

ASSUME PoolAssumption ==
  /\ NUMTHREADS \in 1..UINT16_MAX
  /\ NoConn \notin Conns

Slots == 0..(NUMTHREADS - 1)

VARIABLES
  listener,   \* the listening socket's m_valid
  backlog,    \* the kernel's queue of connections not yet accepted
  conn,       \* conn[k]: "closed", "pending" (in the backlog) or "open"
  pc,         \* where the main thread is
  c,          \* main's loop index
  available,  \* availableThreads, a uint16_t
  client,     \* main's local pointer to the accepted connection
  clients,    \* clients[s]: the slot holds a Thread object
  thread,     \* thread[s]: that object's flags
  socket,     \* socket[s]: ThreadCTX::socket
  running,    \* running[s]: ThreadCTX::running
  worker      \* worker[s]: where the slot's OS thread is

mainVars == <<pc, c, available, client>>
slotVars == <<clients, thread, socket, running, worker>>
netVars  == <<listener, backlog, conn>>
vars     == <<netVars, mainVars, slotVars>>

MainLabels == {"accept", "check", "assign", "started", "sleep", "sweep",
               "reset", "unwind", "done"}
Alive == {"begin", "serve", "shutdown", "clear", "exit"}
WorkerLabels == Alive \cup {"none", "dead"}

NoThread == Constructed(TRUE)

TypeOK ==
  /\ listener \in BOOLEAN
  /\ backlog \in Seq(Conns)
  /\ conn \in [Conns -> {"closed", "pending", "open"}]
  /\ pc \in MainLabels
  /\ c \in 0..NUMTHREADS
  /\ available \in 0..UINT16_MAX
  /\ client \in Conns \cup {NoConn}
  /\ clients \in [Slots -> BOOLEAN]
  /\ thread \in [Slots -> ThreadFlags]
  /\ socket \in [Slots -> Conns \cup {NoConn}]
  /\ running \in [Slots -> BOOLEAN]
  /\ worker \in [Slots -> WorkerLabels]

Init ==
  /\ listener = TRUE
  /\ backlog = << >>
  /\ conn = [k \in Conns |-> "closed"]
  /\ pc = "accept"
  /\ c = 0
  /\ available = NUMTHREADS
  /\ client = NoConn
  /\ clients = [s \in Slots |-> FALSE]
  /\ thread = [s \in Slots |-> NoThread]
  /\ socket = [s \in Slots |-> NoConn]
  /\ running = [s \in Slots |-> FALSE]
  /\ worker = [s \in Slots |-> "none"]

Occupied == {s \in Slots : clients[s]}
(* Seeded fault: the sweep does not look at running.                       *)
FinishedUntested(s) == clients[s]

Finished(s) == clients[s] /\ ~running[s]
Referenced(k) == client = k \/ \E s \in Slots : socket[s] = k

(* Seeded fault: ++availableThreads is forgotten.                          *)
IncrementForgotten(n) == n

(* uint16_t arithmetic. *)
Increment(n) == IF n = UINT16_MAX THEN 0 ELSE n + 1
Decrement(n) == IF n = 0 THEN UINT16_MAX ELSE n - 1

(* Socket::Shutdown, of a socket that may be null. *)
Closed(k) == IF k = NoConn THEN conn ELSE [conn EXCEPT ![k] = "closed"]

(***************************************************************************)
(* The outside: clients connect. An identity is used again only when the   *)
(* program holds no reference to it.                                       *)
(***************************************************************************)
Connect(k) ==
  /\ listener
  /\ conn[k] = "closed"
  /\ ~Referenced(k)
  /\ conn' = [conn EXCEPT ![k] = "pending"]
  /\ backlog' = Append(backlog, k)
  /\ UNCHANGED <<listener, mainVars, slotVars>>

(* Seeded fault: accept is called whatever availableThreads says.          *)
AcceptClientUnchecked ==
  /\ pc = "accept" /\ listener
  /\ backlog # << >>
  /\ client' = Head(backlog)
  /\ backlog' = Tail(backlog)
  /\ conn' = [conn EXCEPT ![Head(backlog)] = "open"]
  /\ pc' = "check"
  /\ UNCHANGED <<listener, c, available, slotVars>>

(***************************************************************************)
(* main: the head of the while loop and Socket::Accept.                    *)
(***************************************************************************)
AcceptClient ==
  /\ pc = "accept" /\ listener /\ available > 0
  /\ backlog # << >>
  /\ client' = Head(backlog)
  /\ backlog' = Tail(backlog)
  /\ conn' = [conn EXCEPT ![Head(backlog)] = "open"]
  /\ pc' = "check"
  /\ UNCHANGED <<listener, c, available, slotVars>>

(* accept answered EAGAIN or EWOULDBLOCK. *)
AcceptAgain ==
  /\ pc = "accept" /\ listener /\ available > 0
  /\ backlog = << >>
  /\ pc' = "sleep"
  /\ UNCHANGED <<netVars, c, available, client, slotVars>>

(* accept failed in any other way (ECONNABORTED, EMFILE, EINTR ...): the   *)
(* listener is shut down, and the kernel resets what waits in its backlog. *)
AcceptFails ==
  /\ pc = "accept" /\ listener /\ available > 0
  /\ listener' = FALSE
  /\ backlog' = << >>
  /\ conn' = [k \in Conns |-> IF conn[k] = "pending" THEN "closed" ELSE conn[k]]
  /\ pc' = "sleep"
  /\ UNCHANGED <<c, available, client, slotVars>>

PoolFull ==
  /\ pc = "accept" /\ listener /\ available = 0
  /\ pc' = "sleep"
  /\ UNCHANGED <<netVars, c, available, client, slotVars>>

ClientValid ==
  /\ pc = "check"
  /\ pc' = "assign"
  /\ c' = 0
  /\ UNCHANGED <<netVars, available, client, slotVars>>

(* Socket::Valid shuts a socket down when poll fails on it. *)
ClientInvalid ==
  /\ pc = "check"
  /\ conn' = Closed(client)
  /\ pc' = "sleep"
  /\ UNCHANGED <<listener, backlog, c, available, client, slotVars>>

Sleep ==
  /\ pc = "sleep"
  /\ pc' = "sweep"
  /\ c' = 0
  /\ UNCHANGED <<netVars, available, client, slotVars>>

(***************************************************************************)
(* main: the loop that looks for an empty slot. It has no break: once the  *)
(* client is handed over it goes on with a null pointer, and makes and     *)
(* drops a Thread object in every other empty slot.                        *)
(***************************************************************************)
SlotTaken ==
  /\ pc = "assign" /\ c < NUMTHREADS /\ clients[c]
  /\ c' = c + 1
  /\ UNCHANGED <<netVars, pc, available, client, slotVars>>

NothingToAssign ==
  /\ pc = "assign" /\ c < NUMTHREADS /\ ~clients[c]
  /\ client = NoConn
  /\ c' = c + 1
  /\ UNCHANGED <<netVars, pc, available, client, slotVars>>

(* ThreadCTX filled in, Valid() answered true, Start() answered true. *)
StartThread ==
  /\ pc = "assign" /\ c < NUMTHREADS /\ ~clients[c]
  /\ client # NoConn /\ conn[client] = "open"
  /\ clients' = [clients EXCEPT ![c] = TRUE]
  /\ thread'  = [thread EXCEPT ![c] = AfterStart(Constructed(TRUE), TRUE)]
  /\ socket'  = [socket EXCEPT ![c] = client]
  /\ running' = [running EXCEPT ![c] = TRUE]
  /\ worker'  = [worker EXCEPT ![c] = "begin"]
  /\ pc' = "started"
  /\ UNCHANGED <<netVars, c, available, client>>

(* Seeded fault: --availableThreads although Start() failed.               *)
StartFailsCounted ==
  /\ pc = "assign" /\ c < NUMTHREADS /\ ~clients[c]
  /\ client # NoConn /\ conn[client] = "open"
  /\ available' = Decrement(available)
  /\ c' = c + 1
  /\ UNCHANGED <<netVars, pc, client, slotVars>>

(* Start() answered false; ~Thread finds nothing to join. The client stays *)
(* with main, for the next empty slot.                                     *)
StartFails ==
  /\ pc = "assign" /\ c < NUMTHREADS /\ ~clients[c]
  /\ client # NoConn /\ conn[client] = "open"
  /\ c' = c + 1
  /\ UNCHANGED <<netVars, pc, available, client, slotVars>>

(* Valid() answered false before Start(). *)
AssignInvalid ==
  /\ pc = "assign" /\ c < NUMTHREADS /\ ~clients[c]
  /\ client # NoConn
  /\ conn' = Closed(client)
  /\ c' = c + 1
  /\ UNCHANGED <<listener, backlog, pc, available, client, slotVars>>

(* Seeded fault: client is not reset, so the next empty slot gets it too.  *)
HandOverKeepsClient ==
  /\ pc = "started"
  /\ available' = Decrement(available)
  /\ c' = c + 1
  /\ pc' = "assign"
  /\ UNCHANGED <<netVars, client, slotVars>>

(* client = nullptr; --availableThreads. The worker already runs. *)
HandOver ==
  /\ pc = "started"
  /\ client' = NoConn
  /\ available' = Decrement(available)
  /\ c' = c + 1
  /\ pc' = "assign"
  /\ UNCHANGED <<netVars, slotVars>>

EndAssign ==
  /\ pc = "assign" /\ c = NUMTHREADS
  /\ c' = 0
  /\ pc' = "sweep"
  /\ UNCHANGED <<netVars, available, client, slotVars>>

(***************************************************************************)
(* main: the sweep that frees the slots of finished threads, through       *)
(* shared_ptr::reset, ~Thread and Thread::Join.                            *)
(***************************************************************************)
KeepSlot ==
  /\ pc = "sweep" /\ c < NUMTHREADS /\ ~Finished(c)
  /\ c' = c + 1
  /\ UNCHANGED <<netVars, pc, available, client, slotVars>>

ResetSlot ==
  /\ pc = "sweep" /\ c < NUMTHREADS /\ Finished(c)
  /\ pc' = "reset"
  /\ UNCHANGED <<netVars, c, available, client, slotVars>>

(* ~Thread waits in pthread_join only if the flags say that there is a     *)
(* thread. Then the context goes, and with it the last reference to the    *)
(* connection.                                                             *)
FreeSlot(s) ==
  /\ Acts(thread[s]) => worker[s] = "dead"
  /\ clients' = [clients EXCEPT ![s] = FALSE]
  /\ thread'  = [thread EXCEPT ![s] = NoThread]
  /\ socket'  = [socket EXCEPT ![s] = NoConn]
  /\ running' = [running EXCEPT ![s] = FALSE]
  /\ worker'  = [worker EXCEPT ![s] = "none"]
  /\ conn'    = Closed(socket[s])

JoinAndFree ==
  /\ pc = "reset"
  /\ FreeSlot(c)
  /\ available' = Increment(available)
  /\ c' = c + 1
  /\ pc' = "sweep"
  /\ UNCHANGED <<listener, backlog, client>>

(* Seeded fault: client is declared outside of the loop.                   *)
EndSweepKeepsClient ==
  /\ pc = "sweep" /\ c = NUMTHREADS
  /\ pc' = "accept"
  /\ UNCHANGED <<netVars, c, available, client, slotVars>>

(* End of the loop body: the local client pointer goes out of scope. *)
EndSweep ==
  /\ pc = "sweep" /\ c = NUMTHREADS
  /\ conn' = Closed(client)
  /\ client' = NoConn
  /\ pc' = "accept"
  /\ UNCHANGED <<listener, backlog, c, available, slotVars>>

(***************************************************************************)
(* main: the listener is gone. pthread_exit unwinds main, which destroys   *)
(* the clients array from its end, joining what still runs.                *)
(***************************************************************************)
LeaveLoop ==
  /\ pc = "accept" /\ ~listener
  /\ c' = NUMTHREADS
  /\ pc' = "unwind"
  /\ UNCHANGED <<netVars, available, client, slotVars>>

UnwindSlot ==
  /\ pc = "unwind" /\ c > 0
  /\ FreeSlot(c - 1)
  /\ c' = c - 1
  /\ UNCHANGED <<listener, backlog, pc, available, client>>

UnwindDone ==
  /\ pc = "unwind" /\ c = 0
  /\ pc' = "done"
  /\ UNCHANGED <<netVars, c, available, client, slotVars>>

Terminated ==
  /\ pc = "done"
  /\ UNCHANGED vars

(***************************************************************************)
(* The client thread in slot s: ProcessClient.                             *)
(***************************************************************************)
Begin(s) ==
  /\ worker[s] = "begin" /\ conn[socket[s]] = "open"
  /\ worker' = [worker EXCEPT ![s] = "serve"]
  /\ UNCHANGED <<netVars, mainVars, clients, thread, socket, running>>

(* Valid() answered false: running is cleared with no Shutdown of its own. *)
BeginFails(s) ==
  /\ worker[s] = "begin"
  /\ conn' = Closed(socket[s])
  /\ running' = [running EXCEPT ![s] = FALSE]
  /\ worker' = [worker EXCEPT ![s] = "exit"]
  /\ UNCHANGED <<listener, backlog, mainVars, clients, thread, socket>>

(* Everything between the check and Shutdown; the peer or an error may     *)
(* have closed the socket by its end.                                      *)
Serve(s) ==
  /\ worker[s] = "serve"
  /\ \/ UNCHANGED conn
     \/ conn' = Closed(socket[s])
  /\ worker' = [worker EXCEPT ![s] = "shutdown"]
  /\ UNCHANGED <<listener, backlog, mainVars, clients, thread, socket, running>>

(* Seeded fault: the thread waits for another request of the same client.  *)
ShutdownServesOn(s) ==
  /\ worker[s] = "shutdown"
  /\ worker' = [worker EXCEPT ![s] = "serve"]
  /\ UNCHANGED <<netVars, mainVars, clients, thread, socket, running>>

Shutdown(s) ==
  /\ worker[s] = "shutdown"
  /\ conn' = Closed(socket[s])
  /\ worker' = [worker EXCEPT ![s] = "clear"]
  /\ UNCHANGED <<listener, backlog, mainVars, clients, thread, socket, running>>

ClearRunning(s) ==
  /\ worker[s] = "clear"
  /\ running' = [running EXCEPT ![s] = FALSE]
  /\ worker' = [worker EXCEPT ![s] = "exit"]
  /\ UNCHANGED <<netVars, mainVars, clients, thread, socket>>

(* pthread_exit unwinds the worker: its lock on the context and its        *)
(* request go, after running was cleared.                                  *)
Exit(s) ==
  /\ worker[s] = "exit"
  /\ worker' = [worker EXCEPT ![s] = "dead"]
  /\ UNCHANGED <<netVars, mainVars, clients, thread, socket, running>>

-----------------------------------------------------------------------------
(* main's steps that need nobody from outside: accept blocks until a       *)
(* client waits, so AcceptAgain is not one of them.                        *)
MainProceeds ==
  \/ AcceptClient \/ PoolFull \/ ClientValid \/ ClientInvalid \/ Sleep
  \/ SlotTaken \/ NothingToAssign \/ StartThread \/ StartFails \/ AssignInvalid
  \/ HandOver \/ EndAssign
  \/ KeepSlot \/ ResetSlot \/ JoinAndFree \/ EndSweep
  \/ LeaveLoop \/ UnwindSlot \/ UnwindDone

Main == MainProceeds \/ AcceptAgain \/ AcceptFails \/ Terminated

(* A worker's steps other than the one that talks to its peer. *)
WorkerProceeds(s) ==
  Begin(s) \/ BeginFails(s) \/ Shutdown(s) \/ ClearRunning(s) \/ Exit(s)

Next ==
  \/ \E k \in Conns : Connect(k)
  \/ Main
  \/ \E s \in Slots : WorkerProceeds(s) \/ Serve(s)

Spec == Init /\ [][Next]_vars

(* The scheduler runs every thread that can run. Nothing makes a peer      *)
(* finish its request, a client connect, or accept fail.                   *)
Fairness ==
  /\ WF_vars(MainProceeds)
  /\ \A s \in Slots : WF_vars(WorkerProceeds(s))

FairSpec == Spec /\ Fairness

-----------------------------------------------------------------------------
(* availableThreads counts the empty slots exactly, in spite of failed     *)
(* starts, slots made and dropped, and threads that end while main counts: *)
(* it never wraps, a free slot is never lost to the counter, and accept is *)
(* never called with every slot taken. Off by the one thread just started. *)
AvailableCountsEmptySlots ==
  pc \notin {"unwind", "done"} =>
    available + Cardinality(Occupied) = IF pc = "started" THEN NUMTHREADS + 1
                                                          ELSE NUMTHREADS

(* An open descriptor always has exactly one owner: main's local pointer   *)
(* or one slot (both for the moment of the hand-over). None leaks, none is *)
(* served by two threads, none is dropped while a thread uses it.          *)
OpenHasOneOwner ==
  \A k \in Conns :
    conn[k] = "open" =>
      LET holders == {s \in Slots : socket[s] = k}
      IN  IF client = k
            THEN holders = IF pc = "started" THEN {c} ELSE {}
            ELSE \E s \in Slots : holders = {s}

(* main waits in pthread_join during a sweep only for a thread that has    *)
(* already closed its connection: no peer can hold up the accept loop.     *)
SweepNeverWaitsForPeer ==
  pc = "reset" => /\ worker[c] \in {"exit", "dead"}
                  /\ socket[c] \in Conns /\ conn[socket[c]] = "closed"

(* A context is destroyed only when no thread can still use it: the flags  *)
(* of a live thread's object always make ~Thread wait.                     *)
ContextOutlivesThread ==
  [][\A s \in Slots : clients[s] /\ ~clients'[s] => worker[s] = "dead"]_vars

(* Stalled peers never keep the next waiting client out while one slot has *)
(* finished.                                                               *)
FinishedLetsNextIn ==
  \A k \in Conns :
    (/\ backlog # << >> /\ Head(backlog) = k
     /\ \E s \in Slots : Finished(s)) ~> conn[k] # "pending"

(* main never holds on to a client it accepted. *)
AcceptedIsHandedOver ==
  \A k \in Conns : (client = k) ~> (client # k)

(* Once main has left its loop the process ends, unless some peer never    *)
(* lets go of its thread: what main joins on its way out depends on the    *)
(* peers alone, and on no lock, flag or slot.                              *)
EndsUnlessPeersStall ==
  (\A s \in Slots : []<>(worker[s] # "serve")) => (pc = "unwind" ~> pc = "done")

(* The promise to clients that ConnPool states. *)
Phase(k) ==
  IF conn[k] # "open" THEN conn[k]
  ELSE IF \E s \in Slots : socket[s] = k THEN "serving" ELSE "accepted"

Pool == INSTANCE ConnPool WITH
          Capacity <- NUMTHREADS, phase <- [k \in Conns |-> Phase(k)],
          listening <- listener

ImplementsConnPool == Pool!Spec
=============================================================================
