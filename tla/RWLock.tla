------------------------------- MODULE RWLock -------------------------------
(***************************************************************************)
(* What the comments "requires advertisement write lock" and "requires     *)
(* advertisement read lock" of server/internal/models expect of the lock   *)
(* of a key: one writer, or any number of readers.                         *)
(***************************************************************************)
CONSTANTS Threads, Keys

VARIABLES
  writers,  \* writers[k]: the goroutines inside a write section of key k
  readers   \* readers[k]: the goroutines inside a read section of key k

vars == <<writers, readers>>

Init ==
  /\ writers = [k \in Keys |-> {}]
  /\ readers = [k \in Keys |-> {}]

EnterWrite(t, k) ==
  /\ writers[k] = {} /\ readers[k] = {}
  /\ writers' = [writers EXCEPT ![k] = {t}]
  /\ UNCHANGED readers

EnterRead(t, k) ==
  /\ writers[k] = {}
  /\ t \notin readers[k]
  /\ readers' = [readers EXCEPT ![k] = @ \cup {t}]
  /\ UNCHANGED writers

LeaveWrite(t, k) ==
  /\ writers[k] = {t}
  /\ writers' = [writers EXCEPT ![k] = {}]
  /\ UNCHANGED readers

LeaveRead(t, k) ==
  /\ t \in readers[k]
  /\ readers' = [readers EXCEPT ![k] = @ \ {t}]
  /\ UNCHANGED writers

Next ==
  \E t \in Threads, k \in Keys :
    EnterWrite(t, k) \/ EnterRead(t, k) \/ LeaveWrite(t, k) \/ LeaveRead(t, k)

Spec == Init /\ [][Next]_vars
=============================================================================
