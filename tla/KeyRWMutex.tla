----------------------------- MODULE KeyRWMutex -----------------------------
(***************************************************************************)
(* server/internal/keyRWMutex.go: a read-write mutex per key, created when *)
(* the key is first locked.  The advertisements and the persistent JSON    *)
(* stores of the server rely on it for every write section.                *)
(*                                                                         *)
(* getOrCreateLock looks the key up under mu.RLock, and when it is missing *)
(* stores a new mutex under mu.Lock without looking again; Unlock and      *)
(* RUnlock look the key up once more and release whatever is stored then.  *)
(* The three steps of a goroutine are separate actions here.               *)
(*                                                                         *)
(* A sync.RWMutex is a writer or a set of readers.  In Go a writer that    *)
(* waits keeps new readers out; here it does not, which adds behaviours:   *)
(* no handler locks a key inside its own section.  Releasing a mutex that  *)
(* is not held is a fatal error of the Go runtime and ends the process.    *)
(***************************************************************************)
EXTENDS Integers, FiniteSets

CONSTANTS
  Threads, Keys,
  Mutexes,  \* the sync.RWMutex objects the process can allocate
  Known,    \* the keys that an earlier request has already locked
  None

ASSUME ConstantsAssumption ==
  /\ None \notin Mutexes /\ None \notin Threads
  /\ Known \subseteq Keys
  /\ \E f \in [Known -> Mutexes] : \A a, b \in Known : f[a] = f[b] => a = b

VARIABLES
  mutexes,      \* kl.mutexes: the mutex of each key, None when there is none
  made,         \* the mutexes that have been allocated
  writer,       \* per mutex: the goroutine that holds it for writing
  readers,      \* per mutex: the goroutines that hold it for reading
  pc,           \* per goroutine: idle, lookup, create, acquire, held
  key, mode,    \* per goroutine: the arguments of the call
  obj,          \* per goroutine: the mutex that getOrCreateLock returned
  crashed,      \* the runtime stopped the process
  overwritten   \* history: the keys whose mutex was replaced by another one

rwVars == <<writer, readers>>
vars == <<mutexes, made, rwVars, pc, key, mode, obj, crashed, overwritten>>

Modes == {"read", "write"}

Init ==
  /\ \E f \in [Known -> Mutexes] :
       /\ \A a, b \in Known : f[a] = f[b] => a = b
       /\ mutexes = [k \in Keys |-> IF k \in Known THEN f[k] ELSE None]
       /\ made = {f[k] : k \in Known}
  /\ writer = [m \in Mutexes |-> None]
  /\ readers = [m \in Mutexes |-> {}]
  /\ pc = [t \in Threads |-> "idle"]
  /\ key \in [Threads -> Keys]
  /\ mode = [t \in Threads |-> "read"]
  /\ obj = [t \in Threads |-> None]
  /\ crashed = FALSE
  /\ overwritten = {}

\* Lock(k) or RLock(k) is called.
Call(t, k, m) ==
  /\ ~crashed /\ pc[t] = "idle"
  /\ key' = [key EXCEPT ![t] = k]
  /\ mode' = [mode EXCEPT ![t] = m]
  /\ pc' = [pc EXCEPT ![t] = "lookup"]
  /\ UNCHANGED <<mutexes, made, rwVars, obj, crashed, overwritten>>

\* getOrCreateLock under mu.RLock.
Lookup(t) ==
  /\ ~crashed /\ pc[t] = "lookup"
  /\ IF mutexes[key[t]] = None
     THEN /\ pc' = [pc EXCEPT ![t] = "create"]
          /\ UNCHANGED obj
     ELSE /\ pc' = [pc EXCEPT ![t] = "acquire"]
          /\ obj' = [obj EXCEPT ![t] = mutexes[key[t]]]
  /\ UNCHANGED <<mutexes, made, rwVars, key, mode, crashed, overwritten>>

\* getOrCreateLock under mu.Lock: stores the new mutex whatever the key has now.
Create(t) ==
  /\ ~crashed /\ pc[t] = "create"
  /\ \E m \in Mutexes \ made :
       /\ made' = made \cup {m}
       /\ mutexes' = [mutexes EXCEPT ![key[t]] = m]
       /\ obj' = [obj EXCEPT ![t] = m]
  /\ overwritten' = IF mutexes[key[t]] = None
                    THEN overwritten ELSE overwritten \cup {key[t]}
  /\ pc' = [pc EXCEPT ![t] = "acquire"]
  /\ UNCHANGED <<rwVars, key, mode, crashed>>

\* Mutants: a writer does not wait for the readers, a reader not for the writer.
AcquireWriteOverReaders(t) ==
  /\ ~crashed /\ pc[t] = "acquire" /\ mode[t] = "write"
  /\ writer[obj[t]] = None
  /\ writer' = [writer EXCEPT ![obj[t]] = t]
  /\ pc' = [pc EXCEPT ![t] = "held"]
  /\ UNCHANGED <<mutexes, made, readers, key, mode, obj, crashed, overwritten>>

AcquireReadOverWriter(t) ==
  /\ ~crashed /\ pc[t] = "acquire" /\ mode[t] = "read"
  /\ readers' = [readers EXCEPT ![obj[t]] = @ \cup {t}]
  /\ pc' = [pc EXCEPT ![t] = "held"]
  /\ UNCHANGED <<mutexes, made, writer, key, mode, obj, crashed, overwritten>>

\* Lock and RLock of the sync.RWMutex return.
AcquireWrite(t) ==
  /\ ~crashed /\ pc[t] = "acquire" /\ mode[t] = "write"
  /\ writer[obj[t]] = None /\ readers[obj[t]] = {}
  /\ writer' = [writer EXCEPT ![obj[t]] = t]
  /\ pc' = [pc EXCEPT ![t] = "held"]
  /\ UNCHANGED <<mutexes, made, readers, key, mode, obj, crashed, overwritten>>

AcquireRead(t) ==
  /\ ~crashed /\ pc[t] = "acquire" /\ mode[t] = "read"
  /\ writer[obj[t]] = None
  /\ readers' = [readers EXCEPT ![obj[t]] = @ \cup {t}]
  /\ pc' = [pc EXCEPT ![t] = "held"]
  /\ UNCHANGED <<mutexes, made, writer, key, mode, obj, crashed, overwritten>>

\* Mutant: Unlock leaves the mutex held.
UnlockLeaked(t) ==
  /\ ~crashed /\ pc[t] = "held" /\ mode[t] = "write"
  /\ pc' = [pc EXCEPT ![t] = "idle"]
  /\ UNCHANGED <<mutexes, made, rwVars, key, mode, obj, crashed, overwritten>>

\* Unlock(k): the mutex the key has now is released, whoever holds it.
Unlock(t) ==
  LET m == mutexes[key[t]] IN
  /\ ~crashed /\ pc[t] = "held" /\ mode[t] = "write"
  /\ crashed' = (writer[m] = None)
  /\ writer' = [writer EXCEPT ![m] = None]
  /\ pc' = [pc EXCEPT ![t] = "idle"]
  /\ UNCHANGED <<mutexes, made, readers, key, mode, obj, overwritten>>

\* RUnlock(k): one reader fewer, t itself when it is one of them.
RUnlock(t) ==
  LET m == mutexes[key[t]] IN
  /\ ~crashed /\ pc[t] = "held" /\ mode[t] = "read"
  /\ crashed' = (readers[m] = {})
  /\ \/ /\ t \in readers[m] \/ readers[m] = {}
        /\ readers' = [readers EXCEPT ![m] = @ \ {t}]
     \/ /\ t \notin readers[m]
        /\ \E u \in readers[m] : readers' = [readers EXCEPT ![m] = @ \ {u}]
  /\ pc' = [pc EXCEPT ![t] = "idle"]
  /\ UNCHANGED <<mutexes, made, writer, key, mode, obj, overwritten>>

Next ==
  \E t \in Threads :
    \/ \E k \in Keys, m \in Modes : Call(t, k, m)
    \/ Lookup(t) \/ Create(t)
    \/ AcquireWrite(t) \/ AcquireRead(t)
    \/ Unlock(t) \/ RUnlock(t)

Spec == Init /\ [][Next]_vars

\* Every goroutine runs on, write and read sections end, and a sync.RWMutex does
\* not let a waiting goroutine starve.
Fairness ==
  \A t \in Threads :
    /\ WF_vars(Lookup(t) \/ Create(t) \/ Unlock(t) \/ RUnlock(t))
    /\ SF_vars(AcquireWrite(t) \/ AcquireRead(t))

FairSpec == Spec /\ Fairness

-----------------------------------------------------------------------------
\* The type invariant; a goroutine that waits for a mutex, or holds one, has one.
TypeOK ==
  /\ mutexes \in [Keys -> Mutexes \cup {None}]
  /\ made \subseteq Mutexes
  /\ writer \in [Mutexes -> Threads \cup {None}]
  /\ readers \in [Mutexes -> SUBSET Threads]
  /\ pc \in [Threads -> {"idle", "lookup", "create", "acquire", "held"}]
  /\ key \in [Threads -> Keys]
  /\ mode \in [Threads -> Modes]
  /\ obj \in [Threads -> Mutexes \cup {None}]
  /\ \A t \in Threads : pc[t] \in {"acquire", "held"} => obj[t] \in Mutexes
  /\ crashed \in BOOLEAN
  /\ overwritten \subseteq Keys

\* The goroutines inside a write, or a read, section of key k.
Writing(k) == {t \in Threads : pc[t] = "held" /\ mode[t] = "write" /\ key[t] = k}
Reading(k) == {t \in Threads : pc[t] = "held" /\ mode[t] = "read" /\ key[t] = k}

Exclusive(k) ==
  /\ \A t, u \in Writing(k) : t = u
  /\ Writing(k) # {} => Reading(k) = {}

\* What the comments of advertisement.go expect of WithWriteLock and WithReadLock.
MutualExclusion == \A k \in Keys : Exclusive(k)

\* Sections of a key exclude one another until a second goroutine that missed the
\* key replaces its mutex (Create); only a key that had none can be overwritten, and
\* the runtime's fatal error (Unlock of a mutex nobody locked) needs such an overwrite.
ExclusiveUnlessOverwritten ==
  /\ \A k \in Keys \ overwritten : Exclusive(k)
  /\ overwritten \cap Known = {}
  /\ crashed => overwritten # {}

\* For the keys that have a mutex from the start, this is the lock of RWLock.
Abstract == INSTANCE RWLock WITH
  Keys <- Known,
  writers <- [k \in Known |-> Writing(k)],
  readers <- [k \in Known |-> Reading(k)]
RefinesRWLock == Abstract!Spec

\* A goroutine that waits for a key with a mutex gets it, unless the process dies.
KnownKeyGranted ==
  \A t \in Threads :
    (pc[t] = "acquire" /\ key[t] \in Known) ~> (pc[t] = "held" \/ crashed)
=============================================================================
