---------------------------- MODULE LatestEvent ----------------------------
(***************************************************************************)
(* The latest-event cell of a DataItem (src/agent/data_item.cpp):          *)
(* mLatestEvent, a heap pointer guarded by mLatestEventLock.               *)
(*                                                                         *)
(*  setLatestEvent: lock; delete the old event; store a new copy; unlock.  *)
(*  getLatestEvent: lock; copy the pointer; unlock; return the pointer.    *)
(*                                                                         *)
(* A writer is an adapter thread storing observations, a reader a thread   *)
(* that asks for the latest one and then dereferences what it got back.    *)
(* Events are numbered in allocation order; NULL is 0.                     *)
(***************************************************************************)
EXTENDS Naturals, FiniteSets

CONSTANTS
  Writers,    \* threads calling setLatestEvent
  Readers,    \* threads calling getLatestEvent and using the result
  MaxWrites,  \* bound on the number of setLatestEvent calls
  NoThread    \* lock owner when the mutex is free

ASSUME Writers \cap Readers = {} /\ NoThread \notin Writers \cup Readers
ASSUME MaxWrites \in Nat

NULL == 0
Threads == Writers \cup Readers

VARIABLES
  mLatestEvent,  \* the event the cell points to, or NULL
  allocated,     \* events allocated so far: 1..allocated
  freed,         \* events deleted so far
  owner,         \* holder of mLatestEventLock
  pc,            \* program counter of each thread
  toReturn       \* pointer a reader copied out of the cell

vars == <<mLatestEvent, allocated, freed, owner, pc, toReturn>>

Init ==
  /\ mLatestEvent = NULL
  /\ allocated = 0
  /\ freed = {}
  /\ owner = NoThread
  /\ pc = [t \in Threads |-> "idle"]
  /\ toReturn = [r \in Readers |-> NULL]

\* mLatestEventLock->lock(): taken by a thread that is about to call
\* setLatestEvent (bounded by MaxWrites) or getLatestEvent.
Lock(t) ==
  /\ pc[t] = "idle"
  /\ owner = NoThread
  /\ t \in Writers => allocated < MaxWrites
  /\ owner' = t
  /\ pc' = [pc EXCEPT ![t] = "locked"]
  /\ UNCHANGED <<mLatestEvent, allocated, freed, toReturn>>

\* setLatestEvent body: delete the previous event, then store a new copy.
Replace(w) ==
  /\ pc[w] = "locked"
  /\ freed' = IF mLatestEvent # NULL THEN freed \cup {mLatestEvent} ELSE freed
  /\ allocated' = allocated + 1
  /\ mLatestEvent' = allocated + 1
  /\ pc' = [pc EXCEPT ![w] = "unlock"]
  /\ UNCHANGED <<owner, toReturn>>

\* getLatestEvent body: toReturn = mLatestEvent.
Read(r) ==
  /\ pc[r] = "locked"
  /\ toReturn' = [toReturn EXCEPT ![r] = mLatestEvent]
  /\ pc' = [pc EXCEPT ![r] = "unlock"]
  /\ UNCHANGED <<mLatestEvent, allocated, freed, owner>>

\* mLatestEventLock->unlock(); a reader then holds the returned pointer.
Unlock(t) ==
  /\ pc[t] = "unlock"
  /\ owner' = NoThread
  /\ pc' = [pc EXCEPT ![t] = IF t \in Readers THEN "use" ELSE "idle"]
  /\ UNCHANGED <<mLatestEvent, allocated, freed, toReturn>>

\* The caller of getLatestEvent dereferences the pointer it was given.
Use(r) ==
  /\ pc[r] = "use"
  /\ pc' = [pc EXCEPT ![r] = "idle"]
  /\ toReturn' = [toReturn EXCEPT ![r] = NULL]
  /\ UNCHANGED <<mLatestEvent, allocated, freed, owner>>

Next ==
  \/ \E t \in Threads : Lock(t) \/ Unlock(t)
  \/ \E w \in Writers : Replace(w)
  \/ \E r \in Readers : Read(r) \/ Use(r)

Spec == Init /\ [][Next]_vars

-----------------------------------------------------------------------------

TypeOK ==
  /\ mLatestEvent \in 0..MaxWrites
  /\ allocated \in 0..MaxWrites
  /\ freed \subseteq 1..MaxWrites
  /\ owner \in Threads \cup {NoThread}
  /\ pc \in [Threads -> {"idle", "locked", "unlock", "use"}]
  /\ toReturn \in [Readers -> 0..MaxWrites]

(* A reader never dereferences an event that has been deleted: the pointer *)
(* getLatestEvent hands out stays valid while the caller uses it (spec 5:  *)
(* readers acquire, copy out, release).                                    *)
NoUseAfterFree ==
  \A r \in Readers : pc[r] = "use" /\ toReturn[r] # NULL => toReturn[r] \notin freed
=============================================================================
