------------------------------ MODULE RWMutex ------------------------------
(***************************************************************************)
(* Go's sync.RWMutex, as the code uses it: the Database (Lock in           *)
(* RecordRequest, RLock in every query method) and the in-memory Stats.    *)
(*                                                                         *)
(* A writer first waits for the other writers, then announces itself and   *)
(* waits for the readers that hold the lock.  From its announcement on,    *)
(* every new RLock parks, also one of a goroutine that already holds a     *)
(* read lock: the lock is not reentrant.  Unlock admits every parked       *)
(* reader at once, before the next writer can announce itself.             *)
(***************************************************************************)
EXTENDS Naturals

CONSTANTS
  Readers,    \* the goroutines that take the read lock
  NoThread    \* a value that is no goroutine

VARIABLES
  writer,     \* the announced writer, or NoThread
  holds,      \* holds[r]: the read locks that reader r holds
  parked      \* the readers whose RLock waits for the announced writer

Init ==
  /\ writer = NoThread
  /\ holds = [r \in Readers |-> 0]
  /\ parked = {}

Lock(w) ==
  /\ writer = NoThread
  /\ writer' = w
  /\ UNCHANGED <<holds, parked>>

\* Lock returns to the announced writer once no read lock is held.
Exclusive(w) ==
  /\ writer = w
  /\ \A r \in Readers : holds[r] = 0

Unlock ==
  /\ writer' = NoThread
  /\ holds' = [r \in Readers |-> IF r \in parked THEN holds[r] + 1 ELSE holds[r]]
  /\ parked' = {}

RLock(r) ==
  \/ /\ writer = NoThread
     /\ holds' = [holds EXCEPT ![r] = @ + 1]
     /\ UNCHANGED <<writer, parked>>
  \/ /\ writer # NoThread
     /\ parked' = parked \cup {r}
     /\ UNCHANGED <<writer, holds>>

\* RLock has returned.
Shared(r) == r \notin parked

\* The deferred RUnlocks of every frame that r returns from.
RUnlockAll(r) ==
  /\ holds' = [holds EXCEPT ![r] = 0]
  /\ UNCHANGED <<writer, parked>>

=============================================================================
