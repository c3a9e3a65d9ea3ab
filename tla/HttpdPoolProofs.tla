-------------------------- MODULE HttpdPoolProofs --------------------------
(***************************************************************************)
(* The safety of HttpdPool for every number of slots and every set of      *)
(* clients. TypeOK, AvailableCountsEmptySlots and OpenHasOneOwner are not  *)
(* inductive: whether ~Thread waits depends on the Thread object's flags,  *)
(* the counter on what each control point of main implies, and ownership   *)
(* on what the backlog holds. IInv states these together. The last section *)
(* is about one Thread by itself.                                          *)
(***************************************************************************)
EXTENDS HttpdPool, Thread, FiniteSetTheorems, TLAPS

(* An empty slot has no thread; an occupied one a joinable thread, which   *)
(* clears running in its last steps, its connection closed before.         *)
SlotInv ==
  \A s \in Slots :
    /\ ~clients[s] => worker[s] = "none" /\ socket[s] = NoConn
    /\ clients[s] => /\ worker[s] # "none"
                     /\ socket[s] \in Conns
                     /\ thread[s].ok /\ thread[s].running
                     /\ running[s] <=> worker[s] \notin {"exit", "dead"}
                     /\ worker[s] \in {"clear", "exit", "dead"} =>
                          conn[socket[s]] = "closed"

(* What main's control points imply. *)
MainInv ==
  /\ pc = "started" => c \in Slots /\ clients[c] /\ socket[c] = client
  /\ pc = "reset" => c \in Slots /\ Finished(c)
  /\ pc = "check" => client \in Conns
  /\ client # NoConn => available > 0
  /\ pc \in {"accept", "unwind", "done"} => client = NoConn

(* References to connections are disjoint, but for the hand-over. *)
OwnerInv ==
  /\ \A s, t \in Slots : socket[s] = socket[t] /\ socket[s] # NoConn => s = t
  /\ \A s \in Slots : socket[s] = client /\ client # NoConn =>
                        pc = "started" /\ s = c
  /\ \A k \in Conns : conn[k] = "open" => Referenced(k)
  /\ \A k \in Conns : conn[k] = "pending" => ~Referenced(k)

(* The backlog holds pending connections, each once. *)
BacklogInv ==
  /\ \A i \in 1..Len(backlog) : conn[backlog[i]] = "pending"
  /\ \A i, j \in 1..Len(backlog) : backlog[i] = backlog[j] => i = j

CountInv == AvailableCountsEmptySlots

IInv == TypeOK /\ SlotInv /\ MainInv /\ OwnerInv /\ BacklogInv /\ CountInv

-----------------------------------------------------------------------------
LEMMA Width == UINT16_MAX \in Nat
BY DEF UINT16_MAX

(* Type correctness is preserved. *)
LEMMA TypeStep == IInv /\ [Next]_vars => TypeOK'
<1> SUFFICES ASSUME IInv, [Next]_vars PROVE TypeOK'
  OBVIOUS
<1> USE Width, PoolAssumption
     DEF IInv, TypeOK, MainInv, Slots, NoThread, ThreadFlags, Constructed,
         Closed, MainLabels, Alive, WorkerLabels, netVars, mainVars, slotVars
<1>1. ASSUME NEW k \in Conns, Connect(k) PROVE TypeOK'
  BY <1>1 DEF Connect
<1>2. CASE AcceptClient
  BY <1>2 DEF AcceptClient
<1>3. CASE AcceptAgain
  BY <1>3 DEF AcceptAgain
<1>4. CASE AcceptFails
  <2>1. << >> \in Seq(Conns)
    OBVIOUS
  <2>2. conn' \in [Conns -> {"closed", "pending", "open"}]
    BY <1>4 DEF AcceptFails
  <2> QED
    BY <1>4, <2>1, <2>2 DEF AcceptFails
<1>5. CASE PoolFull
  BY <1>5 DEF PoolFull
<1>6. CASE ClientValid
  BY <1>6 DEF ClientValid
<1>7. CASE ClientInvalid
  BY <1>7 DEF ClientInvalid
<1>8. CASE Sleep
  BY <1>8 DEF Sleep
<1>9. CASE SlotTaken
  BY <1>9 DEF SlotTaken
<1>10. CASE NothingToAssign
  BY <1>10 DEF NothingToAssign
<1>11. CASE StartThread
  BY <1>11 DEF StartThread, AfterStart
<1>12. CASE StartFails
  BY <1>12 DEF StartFails
<1>13. CASE AssignInvalid
  BY <1>13 DEF AssignInvalid
<1>14. CASE HandOver
  BY <1>14 DEF HandOver, Decrement
<1>15. CASE EndAssign
  BY <1>15 DEF EndAssign
<1>16. CASE KeepSlot
  BY <1>16 DEF KeepSlot
<1>17. CASE ResetSlot
  BY <1>17 DEF ResetSlot
<1>18. CASE JoinAndFree
  BY <1>18 DEF JoinAndFree, FreeSlot, Increment
<1>19. CASE EndSweep
  BY <1>19 DEF EndSweep
<1>20. CASE LeaveLoop
  BY <1>20 DEF LeaveLoop
<1>21. CASE UnwindSlot
  BY <1>21 DEF UnwindSlot, FreeSlot
<1>22. CASE UnwindDone
  BY <1>22 DEF UnwindDone
<1>23. CASE Terminated
  BY <1>23 DEF Terminated, vars
<1>24. ASSUME NEW s \in Slots, Begin(s) PROVE TypeOK'
  BY <1>24 DEF Begin
<1>25. ASSUME NEW s \in Slots, BeginFails(s) PROVE TypeOK'
  BY <1>25 DEF BeginFails
<1>26. ASSUME NEW s \in Slots, Serve(s) PROVE TypeOK'
  BY <1>26 DEF Serve
<1>27. ASSUME NEW s \in Slots, Shutdown(s) PROVE TypeOK'
  BY <1>27 DEF Shutdown
<1>28. ASSUME NEW s \in Slots, ClearRunning(s) PROVE TypeOK'
  BY <1>28 DEF ClearRunning
<1>29. ASSUME NEW s \in Slots, Exit(s) PROVE TypeOK'
  BY <1>29 DEF Exit
<1>30. CASE UNCHANGED vars
  BY <1>30 DEF vars
<1> QED
  BY <1>1, <1>2, <1>3, <1>4, <1>5, <1>6, <1>7, <1>8, <1>9, <1>10, <1>11,
     <1>12, <1>13, <1>14, <1>15, <1>16, <1>17, <1>18, <1>19, <1>20,
     <1>21, <1>22, <1>23, <1>24, <1>25, <1>26, <1>27, <1>28, <1>29,
     <1>30
     DEF Next, Main, MainProceeds, WorkerProceeds

(* The next connection of the backlog is pending, and so nobody refers to it. *)
LEMMA HeadIsFree ==
  ASSUME IInv, backlog # << >>
  PROVE  /\ Head(backlog) \in Conns /\ Head(backlog) = backlog[1]
         /\ conn[Head(backlog)] = "pending" /\ ~Referenced(Head(backlog))
<1>1. Head(backlog) = backlog[1] /\ Head(backlog) \in Conns /\ 1 \in 1..Len(backlog)
  BY DEF IInv, TypeOK
<1> QED
  BY <1>1 DEF IInv, BacklogInv, OwnerInv

(* Slots, their threads and their connections stay in step. *)
LEMMA SlotStep == IInv /\ [Next]_vars => SlotInv'
<1> SUFFICES ASSUME IInv, [Next]_vars PROVE SlotInv'
  OBVIOUS
<1> USE PoolAssumption DEF IInv, TypeOK, SlotInv, MainInv, OwnerInv, Slots, NoThread,
         Constructed, Closed, netVars, mainVars, slotVars
<1>1. ASSUME NEW k \in Conns, Connect(k) PROVE SlotInv'
  BY <1>1 DEF Connect, Referenced
<1>2. CASE AcceptClient
  BY <1>2, HeadIsFree DEF AcceptClient, Referenced
<1>3. CASE AcceptFails
  BY <1>3 DEF AcceptFails
<1>4. CASE ClientInvalid
  BY <1>4 DEF ClientInvalid
<1>5. CASE StartThread
  BY <1>5 DEF StartThread, AfterStart
<1>6. CASE AssignInvalid
  BY <1>6 DEF AssignInvalid
<1>7. CASE JoinAndFree
  BY <1>7 DEF JoinAndFree, FreeSlot
<1>8. CASE EndSweep
  BY <1>8 DEF EndSweep
<1>9. CASE UnwindSlot
  BY <1>9 DEF UnwindSlot, FreeSlot
<1>10. ASSUME NEW s \in Slots, Begin(s) PROVE SlotInv'
  BY <1>10 DEF Begin
<1>11. ASSUME NEW s \in Slots, BeginFails(s) PROVE SlotInv'
  BY <1>11 DEF BeginFails
<1>12. ASSUME NEW s \in Slots, Serve(s) PROVE SlotInv'
  BY <1>12 DEF Serve
<1>13. ASSUME NEW s \in Slots, Shutdown(s) PROVE SlotInv'
  BY <1>13 DEF Shutdown
<1>14. ASSUME NEW s \in Slots, ClearRunning(s) PROVE SlotInv'
  BY <1>14 DEF ClearRunning
<1>15. ASSUME NEW s \in Slots, Exit(s) PROVE SlotInv'
  BY <1>15 DEF Exit
<1>16. CASE \/ AcceptAgain \/ PoolFull \/ ClientValid \/ Sleep \/ SlotTaken
          \/ NothingToAssign \/ StartFails \/ HandOver \/ EndAssign
          \/ KeepSlot \/ ResetSlot \/ LeaveLoop \/ UnwindDone
          \/ Terminated
  BY <1>16 DEF AcceptAgain, PoolFull, ClientValid, Sleep, SlotTaken,
       NothingToAssign, StartFails, HandOver, EndAssign, KeepSlot,
       ResetSlot, LeaveLoop, UnwindDone, Terminated, vars
<1>17. CASE UNCHANGED vars
  BY <1>17 DEF vars
<1> QED
  BY <1>1, <1>2, <1>3, <1>4, <1>5, <1>6, <1>7, <1>8, <1>9, <1>10, <1>11,
     <1>12, <1>13, <1>14, <1>15, <1>16, <1>17
     DEF Next, Main, MainProceeds, WorkerProceeds

-----------------------------------------------------------------------------
LEMMA SlotsFinite == IsFiniteSet(Slots) /\ Cardinality(Slots) = NUMTHREADS
<1>1. NUMTHREADS \in Nat /\ NUMTHREADS >= 1
  BY PoolAssumption, Width
<1> QED
  BY <1>1, FS_Interval DEF Slots

LEMMA OccupiedFinite ==
  /\ IsFiniteSet(Occupied) /\ Cardinality(Occupied) \in Nat
  /\ Cardinality(Occupied) <= NUMTHREADS
  /\ Occupied # {} => Cardinality(Occupied) > 0
<1>1. Occupied \subseteq Slots
  BY DEF Occupied
<1>2. IsFiniteSet(Occupied) /\ Cardinality(Occupied) <= NUMTHREADS
  BY <1>1, SlotsFinite, FS_Subset
<1>3. Cardinality(Occupied) \in Nat
  BY <1>2, FS_CardinalityType
<1>4. Occupied # {} => Cardinality(Occupied) # 0
  BY <1>2, FS_EmptySet
<1> QED
  BY <1>2, <1>3, <1>4

(* While a slot is taken the counter is below its maximum. *)
LEMMA NoWrap ==
  ASSUME IInv, pc = "reset"
  PROVE  available < UINT16_MAX /\ Increment(available) = available + 1
<1>1. c \in Occupied
  BY DEF IInv, MainInv, Occupied, Finished
<1>2. available + Cardinality(Occupied) = NUMTHREADS /\ available \in Nat
  BY DEF IInv, TypeOK, CountInv, AvailableCountsEmptySlots
<1>3. Cardinality(Occupied) > 0 /\ Cardinality(Occupied) \in Nat
  BY <1>1, OccupiedFinite
<1>4. NUMTHREADS \in Nat /\ NUMTHREADS <= UINT16_MAX
  BY PoolAssumption, Width
<1> QED
  BY <1>2, <1>3, <1>4, Width DEF Increment

(* What main's control points imply is preserved. *)
LEMMA MainStep == IInv /\ [Next]_vars => MainInv'
<1> SUFFICES ASSUME IInv, [Next]_vars PROVE MainInv'
  OBVIOUS
<1> USE Width, PoolAssumption DEF IInv, TypeOK, SlotInv, MainInv, Slots, Closed, Finished,
         netVars, mainVars, slotVars
<1>1. ASSUME NEW k \in Conns, Connect(k) PROVE MainInv'
  BY <1>1 DEF Connect
<1>2. CASE AcceptClient
  BY <1>2 DEF AcceptClient
<1>3. CASE AcceptAgain
  BY <1>3 DEF AcceptAgain
<1>4. CASE AcceptFails
  BY <1>4 DEF AcceptFails
<1>5. CASE PoolFull
  BY <1>5 DEF PoolFull
<1>6. CASE ClientValid
  BY <1>6 DEF ClientValid
<1>7. CASE ClientInvalid
  BY <1>7 DEF ClientInvalid
<1>8. CASE Sleep
  BY <1>8 DEF Sleep
<1>9. CASE SlotTaken
  BY <1>9 DEF SlotTaken
<1>10. CASE NothingToAssign
  BY <1>10 DEF NothingToAssign
<1>11. CASE StartThread
  BY <1>11 DEF StartThread
<1>12. CASE StartFails
  BY <1>12 DEF StartFails
<1>13. CASE AssignInvalid
  BY <1>13 DEF AssignInvalid
<1>14. CASE HandOver
  BY <1>14 DEF HandOver
<1>15. CASE EndAssign
  BY <1>15 DEF EndAssign
<1>16. CASE KeepSlot
  BY <1>16 DEF KeepSlot
<1>17. CASE ResetSlot
  BY <1>17 DEF ResetSlot
<1>18. CASE JoinAndFree
  BY <1>18, NoWrap DEF JoinAndFree, FreeSlot
<1>19. CASE EndSweep
  BY <1>19 DEF EndSweep
<1>20. CASE LeaveLoop
  BY <1>20 DEF LeaveLoop
<1>21. CASE UnwindSlot
  BY <1>21 DEF UnwindSlot, FreeSlot
<1>22. CASE UnwindDone
  BY <1>22 DEF UnwindDone
<1>23. CASE Terminated
  BY <1>23 DEF Terminated, vars
<1>24. ASSUME NEW s \in Slots, Begin(s) PROVE MainInv'
  BY <1>24 DEF Begin
<1>25. ASSUME NEW s \in Slots, BeginFails(s) PROVE MainInv'
  BY <1>25 DEF BeginFails
<1>26. ASSUME NEW s \in Slots, Serve(s) PROVE MainInv'
  BY <1>26 DEF Serve
<1>27. ASSUME NEW s \in Slots, Shutdown(s) PROVE MainInv'
  BY <1>27 DEF Shutdown
<1>28. ASSUME NEW s \in Slots, ClearRunning(s) PROVE MainInv'
  BY <1>28 DEF ClearRunning
<1>29. ASSUME NEW s \in Slots, Exit(s) PROVE MainInv'
  BY <1>29 DEF Exit
<1>30. CASE UNCHANGED vars
  BY <1>30 DEF vars
<1> QED
  BY <1>1, <1>2, <1>3, <1>4, <1>5, <1>6, <1>7, <1>8, <1>9, <1>10, <1>11,
     <1>12, <1>13, <1>14, <1>15, <1>16, <1>17, <1>18, <1>19, <1>20,
     <1>21, <1>22, <1>23, <1>24, <1>25, <1>26, <1>27, <1>28, <1>29,
     <1>30
     DEF Next, Main, MainProceeds, WorkerProceeds

(* Ownership of connections is preserved. *)
LEMMA OwnerStep == IInv /\ [Next]_vars => OwnerInv'
<1> SUFFICES ASSUME IInv, [Next]_vars PROVE OwnerInv'
  OBVIOUS
<1> USE PoolAssumption DEF IInv, TypeOK, SlotInv, MainInv, OwnerInv, Referenced,
         Slots, Closed, netVars, mainVars, slotVars
<1>1. ASSUME NEW k \in Conns, Connect(k) PROVE OwnerInv'
  BY <1>1 DEF Connect
<1>2. CASE AcceptClient
  BY <1>2, HeadIsFree DEF AcceptClient
<1>3. CASE AcceptFails
  BY <1>3 DEF AcceptFails
<1>4. CASE ClientInvalid
  BY <1>4 DEF ClientInvalid
<1>5. CASE StartThread
  BY <1>5 DEF StartThread
<1>6. CASE AssignInvalid
  BY <1>6 DEF AssignInvalid
<1>7. CASE HandOver
  BY <1>7 DEF HandOver
<1>8. CASE JoinAndFree
  BY <1>8 DEF JoinAndFree, FreeSlot
<1>9. CASE EndSweep
  BY <1>9 DEF EndSweep
<1>10. CASE UnwindSlot
  BY <1>10 DEF UnwindSlot, FreeSlot
<1>11. ASSUME NEW s \in Slots, BeginFails(s) PROVE OwnerInv'
  BY <1>11 DEF BeginFails
<1>12. ASSUME NEW s \in Slots, Serve(s) PROVE OwnerInv'
  BY <1>12 DEF Serve
<1>13. ASSUME NEW s \in Slots, Shutdown(s) PROVE OwnerInv'
  BY <1>13 DEF Shutdown
<1>14. CASE \/ AcceptAgain \/ PoolFull \/ ClientValid \/ Sleep \/ SlotTaken
          \/ NothingToAssign \/ StartFails \/ EndAssign \/ KeepSlot
          \/ ResetSlot \/ LeaveLoop \/ UnwindDone \/ Terminated
  BY <1>14 DEF AcceptAgain, PoolFull, ClientValid, Sleep, SlotTaken,
       NothingToAssign, StartFails, EndAssign, KeepSlot, ResetSlot,
       LeaveLoop, UnwindDone, Terminated, vars
<1>15. ASSUME NEW s \in Slots, Begin(s) \/ ClearRunning(s) \/ Exit(s)
     PROVE OwnerInv'
  BY <1>15 DEF Begin, ClearRunning, Exit
<1>16. CASE UNCHANGED vars
  BY <1>16 DEF vars
<1> QED
  BY <1>1, <1>2, <1>3, <1>4, <1>5, <1>6, <1>7, <1>8, <1>9, <1>10, <1>11,
     <1>12, <1>13, <1>14, <1>15, <1>16
     DEF Next, Main, MainProceeds, WorkerProceeds

LEMMA CloseServed ==
  ASSUME TypeOK, BacklogInv, NEW k \in Conns, conn[k] # "pending",
         conn' = [conn EXCEPT ![k] = "closed"], backlog' = backlog
  PROVE  BacklogInv'
<1>1. \A i \in 1..Len(backlog) : conn[backlog[i]] = "pending"
  BY DEF BacklogInv
<1>2. conn \in [Conns -> {"closed", "pending", "open"}]
  BY DEF TypeOK
<1>3. \A j \in Conns : j # k => conn'[j] = conn[j]
  BY <1>2
<1>4. \A i \in 1..Len(backlog) : backlog[i] \in Conns
  <2>1. backlog \in Seq(Conns)
    BY DEF TypeOK
  <2> QED
    BY <2>1
<1>5. \A i \in 1..Len(backlog) : conn'[backlog[i]] = "pending"
  BY <1>1, <1>3, <1>4
<1> QED
  BY <1>5 DEF BacklogInv

(* The backlog keeps holding pending connections, each once. *)
LEMMA BacklogStep == IInv /\ [Next]_vars => BacklogInv'
<1> SUFFICES ASSUME IInv, [Next]_vars PROVE BacklogInv'
  OBVIOUS
<1> USE PoolAssumption DEF IInv, TypeOK, SlotInv, MainInv, OwnerInv, BacklogInv,
         Referenced, Slots, Closed, netVars, mainVars, slotVars
<1>1. ASSUME NEW k \in Conns, Connect(k) PROVE BacklogInv'
  BY <1>1 DEF Connect
<1>2. CASE AcceptClient
  BY <1>2 DEF AcceptClient
<1>3. CASE AcceptFails
  BY <1>3 DEF AcceptFails
<1>4. CASE ClientInvalid
  BY <1>4 DEF ClientInvalid
<1>5. CASE AssignInvalid
  BY <1>5 DEF AssignInvalid
<1>6. CASE JoinAndFree
  BY <1>6 DEF JoinAndFree, FreeSlot
<1>7. CASE EndSweep
  <2>1. \A i \in 1..Len(backlog) : backlog[i] \in Conns /\ backlog[i] # client
    OBVIOUS
  <2>2. \A i \in 1..Len(backlog) : conn'[backlog[i]] = conn[backlog[i]]
    BY <1>7, <2>1 DEF EndSweep
  <2> QED
    BY <1>7, <2>2 DEF EndSweep
<1>8. CASE UnwindSlot
  BY <1>8 DEF UnwindSlot, FreeSlot
<1>9. ASSUME NEW s \in Slots, BeginFails(s) PROVE BacklogInv'
  <2>1. socket[s] \in Conns /\ conn' = [conn EXCEPT ![socket[s]] = "closed"]
    BY <1>9 DEF BeginFails
  <2>2. conn[socket[s]] # "pending" /\ backlog' = backlog
    BY <1>9, <2>1 DEF BeginFails
  <2> QED
    BY <2>1, <2>2, CloseServed
<1>10. ASSUME NEW s \in Slots, Serve(s) PROVE BacklogInv'
  BY <1>10 DEF Serve
<1>11. ASSUME NEW s \in Slots, Shutdown(s) PROVE BacklogInv'
  BY <1>11 DEF Shutdown
<1>12. CASE \/ AcceptAgain \/ PoolFull \/ ClientValid \/ Sleep \/ SlotTaken
          \/ NothingToAssign \/ StartThread \/ StartFails \/ HandOver
          \/ EndAssign \/ KeepSlot \/ ResetSlot \/ LeaveLoop
          \/ UnwindDone \/ Terminated
  <2>1. UNCHANGED <<backlog, conn>>
    BY <1>12 DEF AcceptAgain, PoolFull, ClientValid, Sleep, SlotTaken,
       NothingToAssign, StartThread, StartFails, HandOver, EndAssign,
       KeepSlot, ResetSlot, LeaveLoop, UnwindDone, Terminated, vars
  <2> QED
    BY <2>1
<1>13. ASSUME NEW s \in Slots, Begin(s) \/ ClearRunning(s) \/ Exit(s)
     PROVE BacklogInv'
  BY <1>13 DEF Begin, ClearRunning, Exit
<1>14. CASE UNCHANGED vars
  BY <1>14 DEF vars
<1> QED
  BY <1>1, <1>2, <1>3, <1>4, <1>5, <1>6, <1>7, <1>8, <1>9, <1>10, <1>11,
     <1>12, <1>13, <1>14
     DEF Next, Main, MainProceeds, WorkerProceeds

(* The counter stays in step with the slots. *)
LEMMA CountStep == IInv /\ [Next]_vars => CountInv'
<1> SUFFICES ASSUME IInv, [Next]_vars PROVE CountInv'
  OBVIOUS
<1> USE PoolAssumption DEF IInv, TypeOK, CountInv, AvailableCountsEmptySlots,
         netVars, mainVars, slotVars
<1>1. CASE StartThread
  <2>1. Occupied' = Occupied \cup {c} /\ c \notin Occupied
    BY <1>1 DEF StartThread, Slots, Occupied
  <2>2. Cardinality(Occupied') = Cardinality(Occupied) + 1
    BY <2>1, OccupiedFinite, FS_AddElement
  <2> QED
    BY <1>1, <2>2, OccupiedFinite, Width DEF StartThread
<1>2. CASE HandOver
  <2>1. available > 0
    BY <1>2 DEF HandOver, MainInv, SlotInv
  <2> QED
    BY <1>2, <2>1, OccupiedFinite, Width DEF HandOver, Decrement, Occupied
<1>3. CASE JoinAndFree
  <2>1. Occupied' = Occupied \ {c} /\ c \in Occupied
    BY <1>3 DEF JoinAndFree, FreeSlot, MainInv, Finished, Occupied
  <2>2. Cardinality(Occupied') = Cardinality(Occupied) - 1
    BY <2>1, OccupiedFinite, FS_RemoveElement
  <2> QED
    BY <1>3, <2>2, OccupiedFinite, NoWrap, Width DEF JoinAndFree
<1>4. CASE \/ AcceptClient \/ AcceptAgain \/ AcceptFails \/ PoolFull
          \/ ClientValid \/ ClientInvalid \/ Sleep \/ SlotTaken
          \/ NothingToAssign \/ StartFails \/ AssignInvalid
          \/ EndAssign \/ KeepSlot \/ ResetSlot \/ EndSweep
          \/ LeaveLoop \/ UnwindSlot \/ UnwindDone \/ Terminated
  BY <1>4 DEF AcceptClient, AcceptAgain, AcceptFails, PoolFull,
       ClientValid, ClientInvalid, Sleep, SlotTaken, NothingToAssign,
       StartFails, AssignInvalid, EndAssign, KeepSlot, ResetSlot,
       EndSweep, LeaveLoop, UnwindSlot, FreeSlot, UnwindDone, Terminated,
       vars, Occupied
<1>5. ASSUME NEW k \in Conns, Connect(k) PROVE CountInv'
  BY <1>5 DEF Connect, Occupied
<1>6. ASSUME NEW s \in Slots, \/ Begin(s) \/ BeginFails(s) \/ Serve(s)
                             \/ Shutdown(s) \/ ClearRunning(s) \/ Exit(s)
     PROVE CountInv'
  BY <1>6 DEF Begin, BeginFails, Serve, Shutdown, ClearRunning, Exit,
       Occupied
<1>7. CASE UNCHANGED vars
  BY <1>7 DEF vars, Occupied
<1> QED
  BY <1>1, <1>2, <1>3, <1>4, <1>5, <1>6, <1>7
     DEF Next, Main, MainProceeds, WorkerProceeds

-----------------------------------------------------------------------------
LEMMA InitIInv == Init => IInv
<1> SUFFICES ASSUME Init PROVE IInv
  OBVIOUS
<1> USE PoolAssumption, Width DEF Init
<1>1. TypeOK
  <2>1. << >> \in Seq(Conns)
    OBVIOUS
  <2> QED
    BY <2>1 DEF TypeOK, Slots, NoThread, ThreadFlags, Constructed, MainLabels,
                Alive, WorkerLabels
<1>2. SlotInv /\ MainInv /\ OwnerInv /\ BacklogInv
  BY DEF SlotInv, MainInv, OwnerInv, BacklogInv, Referenced
<1>3. CountInv
  <2>1. Occupied = {}
    BY DEF Occupied
  <2> QED
    BY <2>1, FS_EmptySet DEF CountInv, AvailableCountsEmptySlots
<1> QED
  BY <1>1, <1>2, <1>3 DEF IInv

LEMMA StepIInv == IInv /\ [Next]_vars => IInv'
BY TypeStep, SlotStep, MainStep, OwnerStep, BacklogStep, CountStep DEF IInv

LEMMA AlwaysIInv == Spec => []IInv
BY InitIInv, StepIInv, PTL DEF Spec

(* Every variable of httpd's pool keeps its type; the worker of a slot and *)
(* the uint16_t counter included.                                          *)
THEOREM TypeCorrect == Spec => []TypeOK
<1>1. IInv => TypeOK
  BY DEF IInv
<1> QED
  BY <1>1, AlwaysIInv, PTL

(* availableThreads counts the empty slots, whatever starts fail and       *)
(* whenever threads end, for every NUMTHREADS a uint16_t can hold.         *)
THEOREM CounterCorrect == Spec => []AvailableCountsEmptySlots
<1>1. IInv => AvailableCountsEmptySlots
  BY DEF IInv, CountInv
<1> QED
  BY <1>1, AlwaysIInv, PTL

(* No descriptor leaks and none is served twice.                           *)
THEOREM OwnershipCorrect == Spec => []OpenHasOneOwner
<1>1. IInv => OpenHasOneOwner
  <2> SUFFICES ASSUME IInv, NEW k \in Conns, conn[k] = "open"
               PROVE  LET holders == {s \in Slots : socket[s] = k}
                      IN  IF client = k
                            THEN holders = IF pc = "started" THEN {c} ELSE {}
                            ELSE \E s \in Slots : holders = {s}
    BY DEF OpenHasOneOwner
  <2> DEFINE holders == {s \in Slots : socket[s] = k}
  <2>1. Referenced(k) /\ k # NoConn
    BY PoolAssumption DEF IInv, OwnerInv
  <2>2. CASE client = k
    <3>1. CASE pc = "started"
      BY <2>1, <2>2, <3>1 DEF IInv, OwnerInv, MainInv
    <3>2. CASE pc # "started"
      BY <2>1, <2>2, <3>2 DEF IInv, OwnerInv
    <3> QED
      BY <2>2, <3>1, <3>2
  <2>3. CASE client # k
    <3>1. PICK s \in Slots : socket[s] = k
      BY <2>1, <2>3 DEF Referenced
    <3>2. holders = {s}
      BY <2>1, <3>1 DEF IInv, OwnerInv
    <3> QED
      BY <2>3, <3>2
  <2> QED
    BY <2>2, <2>3
<1> QED
  BY <1>1, AlwaysIInv, PTL

(* main joins only threads that are done with their peer.                  *)
THEOREM SweepCorrect == Spec => []SweepNeverWaitsForPeer
<1>1. IInv => SweepNeverWaitsForPeer
  BY DEF IInv, TypeOK, MainInv, SlotInv, Finished, SweepNeverWaitsForPeer,
         Alive, WorkerLabels
<1> QED
  BY <1>1, AlwaysIInv, PTL

(* A thread's context is never destroyed under it, in a sweep or when main *)
(* unwinds.                                                                *)
THEOREM ContextCorrect == Spec => ContextOutlivesThread
<1>1. ASSUME IInv, Next, NEW s \in Slots, clients[s], ~clients'[s]
      PROVE  worker[s] = "dead"
  <2>1. Acts(thread[s])
    BY <1>1 DEF IInv, SlotInv, Acts
  <2>2. JoinAndFree \/ UnwindSlot
    BY <1>1 DEF Next, Main, MainProceeds, WorkerProceeds, Connect, AcceptClient,
       AcceptAgain, AcceptFails, PoolFull, ClientValid, ClientInvalid, Sleep,
       SlotTaken, NothingToAssign, StartThread, StartFails, AssignInvalid,
       HandOver, EndAssign, KeepSlot, ResetSlot, EndSweep, LeaveLoop, UnwindDone,
       Terminated, Begin, BeginFails, Serve, Shutdown, ClearRunning, Exit,
       IInv, TypeOK, vars, slotVars
  <2>3. ASSUME NEW t \in Slots, FreeSlot(t) PROVE worker[s] = "dead"
    BY <1>1, <2>1, <2>3 DEF FreeSlot, IInv, TypeOK
  <2>4. JoinAndFree => c \in Slots /\ FreeSlot(c)
    BY <1>1 DEF JoinAndFree, IInv, MainInv
  <2>5. UnwindSlot => c - 1 \in Slots /\ FreeSlot(c - 1)
    BY <1>1, PoolAssumption, Width DEF UnwindSlot, IInv, TypeOK, Slots
  <2> QED
    BY <2>2, <2>3, <2>4, <2>5
<1>2. IInv /\ [Next]_vars =>
        [\A s \in Slots : clients[s] /\ ~clients'[s] => worker[s] = "dead"]_vars
  BY <1>1
<1> QED
  BY <1>2, AlwaysIInv, PTL DEF Spec, ContextOutlivesThread

-----------------------------------------------------------------------------
(***************************************************************************)
(* HttpdPool implements ConnPool. Each step either leaves every connection *)
(* in its phase or takes one connection through one abstract action.       *)
(***************************************************************************)
Served(k) == \E s \in Slots : socket[s] = k

Phases == [k \in Conns |-> Phase(k)]

(* A step that keeps conn, the slots' references and the listener is no    *)
(* step of ConnPool.                                                       *)
LEMMA QuietStep ==
  ASSUME UNCHANGED <<listener, conn, socket>>
  PROVE  UNCHANGED Pool!vars
<1>1. Phases' = Phases
  BY DEF Phases, Phase
<1> QED
  BY <1>1 DEF Pool!vars, Phases

(* Closing a connection of the program, and dropping references to it, is  *)
(* one Close of ConnPool or, if it was closed before, no step.             *)
LEMMA ClosingStep ==
  ASSUME TypeOK, OwnerInv, NEW k \in Conns, Referenced(k),
         conn' = [conn EXCEPT ![k] = "closed"], UNCHANGED listener,
         \A j \in Conns : j # k => (Served(j)' <=> Served(j))
  PROVE  [Pool!Next]_Pool!vars
<1>1. Phases' = [Phases EXCEPT ![k] = "closed"]
  BY DEF Phases, Phase, TypeOK, Served
<1>2. CASE conn[k] = "open"
  <2>1. Phases[k] \in {"accepted", "serving"}
    BY <1>2 DEF Phases, Phase
  <2> QED
    BY <1>1, <2>1 DEF Pool!Close, Pool!Next, Phases
<1>3. CASE conn[k] # "open"
  <2>1. Phases[k] = "closed"
    BY <1>3 DEF Phases, Phase, OwnerInv, TypeOK
  <2>2. Phases' = Phases
    BY <1>1, <2>1 DEF Phases
  <2> QED
    BY <2>2 DEF Pool!vars, Phases
<1> QED
  BY <1>2, <1>3

(* The same for a pointer that may be null. *)
LEMMA ReleaseStep ==
  ASSUME TypeOK, OwnerInv, NEW k \in Conns \cup {NoConn}, Referenced(k),
         conn' = Closed(k), UNCHANGED listener,
         \A j \in Conns : j # k => (Served(j)' <=> Served(j))
  PROVE  [Pool!Next]_Pool!vars
<1>1. CASE k = NoConn
  <2>1. Phases' = Phases
    BY <1>1, PoolAssumption DEF Closed, Phases, Phase, Served
  <2> QED
    BY <2>1 DEF Pool!vars, Phases
<1>2. CASE k # NoConn
  BY <1>2, ClosingStep DEF Closed
<1> QED
  BY <1>1, <1>2

(* The connections being served are no more than the occupied slots.       *)
LEMMA ServingFits ==
  ASSUME IInv
  PROVE  /\ Cardinality(Pool!In("serving")) \in Nat
         /\ Cardinality(Pool!In("serving")) <= Cardinality(Occupied)
<1> DEFINE T == Pool!In("serving")
           S == {s \in Slots : socket[s] \in T}
           f == [s \in S |-> socket[s]]
<1>1. \A k \in T : k \in Conns /\ \E s \in Slots : socket[s] = k
  BY DEF Pool!In, Phase, IInv, TypeOK
<1>2. f \in Surjection(S, T)
  BY <1>1 DEF Surjection
<1>3. S \subseteq Occupied
  BY <1>1, PoolAssumption DEF Occupied, IInv, SlotInv
<1>4. IsFiniteSet(S) /\ Cardinality(S) <= Cardinality(Occupied)
  BY <1>3, OccupiedFinite, FS_Subset
<1>5. IsFiniteSet(T) /\ Cardinality(T) <= Cardinality(S)
  BY <1>2, <1>4, FS_Surjection
<1>6. Cardinality(T) \in Nat /\ Cardinality(S) \in Nat
  BY <1>4, <1>5, FS_CardinalityType
<1> QED
  BY <1>4, <1>5, <1>6, OccupiedFinite

(* While the counter is not at zero there is room to serve one more. *)
LEMMA Room ==
  ASSUME IInv, available > 0, pc \in {"accept", "assign"}
  PROVE  Cardinality(Pool!In("serving")) < NUMTHREADS
BY ServingFits, OccupiedFinite, Width, PoolAssumption
   DEF IInv, TypeOK, CountInv, AvailableCountsEmptySlots

LEMMA SameCardinality == \A S : Pool!Cardinality(S) = Cardinality(S)
BY DEF Pool!Cardinality, Cardinality

LEMMA ConnectStep ==
  ASSUME IInv, NEW k \in Conns, Connect(k)
  PROVE  Pool!Arrive(k)
<1>1. Phases' = [Phases EXCEPT ![k] = "pending"]
  BY DEF Connect, Phases, Phase, IInv, TypeOK, slotVars
<1> QED
  BY <1>1 DEF Connect, Pool!Arrive, Phases, Phase

LEMMA AcceptStep ==
  ASSUME IInv, AcceptClient
  PROVE  Pool!Accept(Head(backlog))
<1> DEFINE h == Head(backlog)
<1>1. h \in Conns /\ conn[h] = "pending" /\ ~Served(h)
  BY HeadIsFree DEF AcceptClient, Referenced, Served
<1>2. Phases' = [Phases EXCEPT ![h] = "accepted"]
  BY <1>1 DEF AcceptClient, Phases, Phase, IInv, TypeOK, slotVars, Served
<1>3. Pool!In("accepted") = {}
  <2> SUFFICES ASSUME NEW k \in Conns, Phase(k) = "accepted" PROVE FALSE
    BY DEF Pool!In
  <2>1. conn[k] = "open" /\ ~Served(k)
    BY DEF Phase, Served, IInv, TypeOK
  <2>2. client = k
    BY <2>1 DEF IInv, OwnerInv, Referenced, Served
  <2> QED
    BY <2>2, PoolAssumption DEF AcceptClient, IInv, MainInv
<1>4. Cardinality(Pool!In("serving")) < NUMTHREADS
  BY Room DEF AcceptClient
<1>5. Phases[h] = "pending" /\ listener /\ UNCHANGED listener
  BY <1>1 DEF AcceptClient, Phases, Phase
<1> QED
  BY <1>1, <1>2, <1>3, <1>4, <1>5, SameCardinality DEF Pool!Accept, Phases

LEMMA StartStep ==
  ASSUME IInv, StartThread
  PROVE  Pool!Dispatch(client)
<1>1. client \in Conns /\ conn[client] = "open" /\ ~Served(client) /\ c \in Slots
  BY PoolAssumption, Width
     DEF StartThread, IInv, TypeOK, OwnerInv, Served, Slots
<1>2. \A k \in Conns : Served(k)' <=> (Served(k) \/ k = client)
  BY <1>1, PoolAssumption
     DEF StartThread, Served, IInv, TypeOK, SlotInv
<1>3. Phases' = [Phases EXCEPT ![client] = "serving"]
  BY <1>1, <1>2 DEF StartThread, Phases, Phase, Served, netVars, IInv, TypeOK
<1>4. Cardinality(Pool!In("serving")) < NUMTHREADS
  BY <1>1, Room, PoolAssumption DEF StartThread, IInv, MainInv
<1>5. Phases[client] = "accepted" /\ UNCHANGED listener
  BY <1>1 DEF StartThread, Phases, Phase, Served, netVars
<1> QED
  BY <1>1, <1>3, <1>4, <1>5, SameCardinality DEF Pool!Dispatch, Phases

LEMMA AcceptFailsStep ==
  ASSUME IInv, AcceptFails
  PROVE  Pool!Stop
BY DEF AcceptFails, Pool!Stop, Phase, slotVars, IInv, TypeOK

LEMMA FreeStep ==
  ASSUME IInv, NEW s \in Slots, clients[s], FreeSlot(s), UNCHANGED <<listener, client>>
  PROVE  [Pool!Next]_Pool!vars
<1>1. socket[s] \in Conns /\ Referenced(socket[s])
  BY DEF IInv, SlotInv, Referenced
<1>2. \A j \in Conns : j # socket[s] => (Served(j)' <=> Served(j))
  BY PoolAssumption DEF FreeSlot, Served, IInv, TypeOK
<1> QED
  BY <1>1, <1>2, ReleaseStep DEF FreeSlot, IInv

(* Each step of httpd is a step of ConnPool or changes nothing there. *)
LEMMA PoolStep == IInv /\ [Next]_vars => [Pool!Next]_Pool!vars
<1> SUFFICES ASSUME IInv, [Next]_vars PROVE [Pool!Next]_Pool!vars
  OBVIOUS
<1> USE DEF netVars, mainVars, slotVars
<1>1. ASSUME NEW k \in Conns, Connect(k) PROVE Pool!Next
  BY <1>1, ConnectStep DEF Pool!Next
<1>2. CASE AcceptClient
  BY <1>2, AcceptStep, HeadIsFree DEF AcceptClient, Pool!Next
<1>3. CASE AcceptFails
  BY <1>3, AcceptFailsStep DEF Pool!Next
<1>4. CASE StartThread
  <2>1. client \in Conns
    BY <1>4 DEF StartThread, IInv, TypeOK
  <2> QED
    BY <1>4, <2>1, StartStep DEF Pool!Next
<1>5. CASE ClientInvalid \/ AssignInvalid \/ EndSweep
  <2>1. client \in Conns \cup {NoConn} /\ Referenced(client)
    BY DEF IInv, TypeOK, Referenced
  <2>2. conn' = Closed(client) /\ UNCHANGED <<listener, socket>>
    BY <1>5 DEF ClientInvalid, AssignInvalid, EndSweep
  <2>3. \A j \in Conns : Served(j)' <=> Served(j)
    BY <2>2 DEF Served
  <2> QED
    BY <2>1, <2>2, <2>3, ReleaseStep DEF IInv
<1>6. CASE JoinAndFree
  <2>1. c \in Slots /\ clients[c] /\ FreeSlot(c) /\ UNCHANGED <<listener, client>>
    BY <1>6 DEF JoinAndFree, IInv, MainInv, Finished
  <2> QED
    BY <2>1, FreeStep
<1>7. CASE UnwindSlot
  <2>1. c - 1 \in Slots /\ FreeSlot(c - 1) /\ UNCHANGED <<listener, client>>
    BY <1>7, PoolAssumption, Width DEF UnwindSlot, IInv, TypeOK, Slots
  <2>2. CASE clients[c - 1]
    BY <2>1, <2>2, FreeStep
  <2>3. CASE ~clients[c - 1]
    <3>1. socket[c - 1] = NoConn
      BY <2>1, <2>3 DEF IInv, SlotInv
    <3>2. UNCHANGED <<listener, conn, socket>>
      BY <2>1, <3>1 DEF FreeSlot, Closed, IInv, TypeOK
    <3> QED
      BY <3>2, QuietStep
  <2> QED
    BY <2>2, <2>3
<1>8. ASSUME NEW s \in Slots, BeginFails(s) \/ Serve(s) \/ Shutdown(s)
      PROVE  [Pool!Next]_Pool!vars
  <2>1. socket[s] \in Conns /\ Referenced(socket[s])
    BY <1>8 DEF BeginFails, Serve, Shutdown, IInv, SlotInv, TypeOK, Referenced
  <2>2. UNCHANGED <<listener, socket>>
    BY <1>8 DEF BeginFails, Serve, Shutdown
  <2>3. \A j \in Conns : Served(j)' <=> Served(j)
    BY <2>2 DEF Served
  <2>4. CASE conn' = Closed(socket[s])
    BY <2>1, <2>2, <2>3, <2>4, ReleaseStep DEF IInv
  <2>5. CASE UNCHANGED conn
    BY <2>2, <2>5, QuietStep
  <2> QED
    BY <1>8, <2>4, <2>5 DEF BeginFails, Serve, Shutdown
<1>9. CASE \/ AcceptAgain \/ PoolFull \/ ClientValid \/ Sleep \/ SlotTaken
           \/ NothingToAssign \/ StartFails \/ HandOver \/ EndAssign
           \/ KeepSlot \/ ResetSlot \/ LeaveLoop \/ UnwindDone \/ Terminated
  <2>1. UNCHANGED <<listener, conn, socket>>
    BY <1>9 DEF AcceptAgain, PoolFull, ClientValid, Sleep, SlotTaken,
       NothingToAssign, StartFails, HandOver, EndAssign, KeepSlot, ResetSlot,
       LeaveLoop, UnwindDone, Terminated, vars
  <2> QED
    BY <2>1, QuietStep
<1>10. ASSUME NEW s \in Slots, Begin(s) \/ ClearRunning(s) \/ Exit(s)
       PROVE  UNCHANGED Pool!vars
  <2>1. UNCHANGED <<listener, conn, socket>>
    BY <1>10 DEF Begin, ClearRunning, Exit
  <2> QED
    BY <2>1, QuietStep
<1>11. CASE UNCHANGED vars
  BY <1>11, QuietStep DEF vars
<1> QED
  BY <1>1, <1>2, <1>3, <1>4, <1>5, <1>6, <1>7, <1>8, <1>9, <1>10, <1>11
     DEF Next, Main, MainProceeds, WorkerProceeds

(* httpd keeps ConnPool's promise for every NUMTHREADS and every set of    *)
(* clients: at most NUMTHREADS connections are served at once, each by one *)
(* thread, and one more is taken only when there is room for it.           *)
THEOREM PoolCorrect == Spec => ImplementsConnPool
<1>1. Init => Pool!Init
  BY DEF Init, Pool!Init, Phase
<1> QED
  BY <1>1, PoolStep, AlwaysIInv, PTL DEF Spec, ImplementsConnPool, Pool!Spec

-----------------------------------------------------------------------------
(* One Thread under every sequence of calls, with any number of pthreads:  *)
(* what HttpdPool relies on, which starts each object once.                *)
ThreadInv == ThreadTypeOK /\ HandleValidWhenUsed

LEMMA InitThreadInv == ThreadInit => ThreadInv
<1> SUFFICES ASSUME ThreadInit PROVE ThreadInv
  OBVIOUS
<1>1. PICK attrOk \in BOOLEAN : flags = [ok |-> attrOk, running |-> FALSE]
  BY DEF ThreadInit, Constructed
<1>2. flags \in ThreadFlags /\ ~Acts(flags)
  BY <1>1 DEF ThreadFlags, Acts
<1>3. /\ handle \in Pthreads \cup {NoPthread}
      /\ os \in [Pthreads -> {"unused", "running", "ended", "joined"}]
      /\ object \in {"live", "destroyed", "killed"}
      /\ answer \in BOOLEAN
  BY DEF ThreadInit
<1> QED
  BY <1>2, <1>3 DEF ThreadInv, ThreadTypeOK, HandleValidWhenUsed

LEMMA StepThreadInv == ThreadInv /\ [ThreadNext]_threadVars => ThreadInv'
<1> SUFFICES ASSUME ThreadInv, [ThreadNext]_threadVars PROVE ThreadInv'
  OBVIOUS
<1> USE DEF ThreadInv, ThreadTypeOK, HandleValidWhenUsed, ThreadFlags, Acts
<1>1. ASSUME NEW h \in Pthreads, NEW created \in BOOLEAN, Start(h, created)
      PROVE  ThreadInv'
  BY <1>1 DEF Start, AfterStart
<1>2. ASSUME NEW succeeded \in BOOLEAN, Kill(succeeded) \/ Cancel(succeeded)
      PROVE  ThreadInv'
  <2>1. /\ flags' = AfterSignal(flags, succeeded)
        /\ answer' = (Acts(flags) /\ succeeded)
        /\ UNCHANGED <<handle, os>>
        /\ object' \in {"live", "killed"} /\ object = "live"
    BY <1>2 DEF Kill, Cancel, Signal
  <2>2. flags' \in ThreadFlags
    BY <2>1 DEF AfterSignal
  <2>3. ~Acts(flags')
    <3>1. flags'.ok = (Acts(flags) /\ succeeded) /\ flags'.running = ~(Acts(flags) /\ succeeded)
      BY <2>1 DEF AfterSignal
    <3> QED
      BY <3>1
  <2>4. answer' \in BOOLEAN
    BY <2>1
  <2> QED
    BY <2>1, <2>2, <2>3, <2>4
<1>3. CASE Join
  BY <1>3 DEF Join, Reap, AfterSignal
<1>4. CASE Destroy
  BY <1>4 DEF Destroy, Reap, AfterSignal
<1>5. ASSUME NEW h \in Pthreads, Ends(h) PROVE ThreadInv'
  BY <1>5 DEF Ends
<1>6. CASE UNCHANGED threadVars
  BY <1>6 DEF threadVars
<1> QED
  BY <1>1, <1>2, <1>3, <1>4, <1>5, <1>6 DEF ThreadNext

(* No sequence of Start, Join, Kill, Cancel and destruction applies a      *)
(* pthread call to a handle that is unset or was joined.                   *)
THEOREM HandleCorrect == ThreadSpec => []HandleValidWhenUsed
<1>1. ThreadInv => HandleValidWhenUsed
  BY DEF ThreadInv
<1> QED
  BY <1>1, InitThreadInv, StepThreadInv, PTL DEF ThreadSpec
=============================================================================
