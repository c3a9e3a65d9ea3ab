--------------------------- MODULE RecursiveLock ---------------------------
(***************************************************************************)
(* utils::Lockable and the guard utils::Lock (code/utils/Lockable.cpp,     *)
(* code/utils/Lock.cpp): a recursive mutex as a record, and its operations *)
(* as functions. A guard locks where it is declared and unlocks where it   *)
(* goes out of scope. That the mutex could throw is left out.              *)
(***************************************************************************)
EXTENDS Naturals

CONSTANT Nobody  \* the owner of a mutex that is free

Free == [owner |-> Nobody, depth |-> 0]

Mutexes(Threads) == [owner : Threads, depth : Nat \ {0}] \cup {Free}

CanLock(m, t) == m.owner \in {Nobody, t}

Locked(m, t) == [owner |-> t, depth |-> m.depth + 1]

(* Seeded fault: one unlock lets go of every level.                        *)
UnlockedAtOnce(m) == Free

Unlocked(m) == IF m.depth = 1 THEN Free ELSE [m EXCEPT !.depth = @ - 1]
=============================================================================
