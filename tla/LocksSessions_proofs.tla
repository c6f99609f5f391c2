----------------------- MODULE LocksSessions_proofs -------------------------
(*****************************************************************************)
(* KeyRWMutex: a key excludes its sections until its mutex is overwritten, and *)
(* the lock of the keys that had a mutex from the start implements RWLock. The *)
(* sessions: a user whose logins do not overlap has one, and the sweeper deletes *)
(* nothing that has not expired. For any goroutines, keys, mutexes, users, ids, *)
(* requests and duration of a session.                                       *)
(*****************************************************************************)
EXTENDS KeyRWMutex, Sessions, FiniteSetTheorems, WellFoundedInduction, TLAPS


-----------------------------------------------------------------------------
\* KeyRWMutex.

Has(t) == pc[t] \in {"acquire", "held"}

\* Every key's mutex has been allocated, and none is the mutex of two keys.
OwnMutex ==
  /\ \A k \in Keys : mutexes[k] # None => mutexes[k] \in made
  /\ \A j, k \in Keys : mutexes[j] = mutexes[k] /\ mutexes[k] # None => j = k

\* A key that had a mutex from the start keeps one, which nobody is about to create.
KnownHasMutex ==
  /\ \A k \in Known : mutexes[k] # None
  /\ \A t \in Threads : pc[t] = "create" => key[t] \notin Known

\* Who waits for the mutex of a key, or holds it, has the one that the key has, as long as it
\* was not overwritten.
HasCurrentMutex ==
  \A t \in Threads : Has(t) =>
    /\ obj[t] \in made /\ mutexes[key[t]] # None
    /\ key[t] \notin overwritten => obj[t] = mutexes[key[t]]

\* Who is inside a section of such a key holds that mutex, and readers keep writers out.
InsideHolds ==
  /\ \A m \in Mutexes : writer[m] # None => readers[m] = {}
  /\ \A t \in Threads : pc[t] = "held" /\ key[t] \notin overwritten =>
       IF mode[t] = "write" THEN writer[mutexes[key[t]]] = t ELSE t \in readers[mutexes[key[t]]]

\* The inductive invariant.
LockIInv ==
  /\ TypeOK /\ OwnMutex /\ KnownHasMutex /\ HasCurrentMutex /\ InsideHolds
  /\ overwritten \cap Known = {}
  /\ crashed => overwritten # {}

\* What is wanted follows from it: two sections of a key hold the same mutex.
LEMMA LockExcludes == ASSUME LockIInv PROVE ExclusiveUnlessOverwritten
<1>1. ASSUME NEW k \in Keys \ overwritten PROVE Exclusive(k)
  <2>1. ASSUME NEW t \in Writing(k), NEW u \in Writing(k) PROVE t = u
    BY DEF Writing, LockIInv, InsideHolds
  <2>2. ASSUME NEW t \in Writing(k), NEW u \in Reading(k) PROVE FALSE
    <3>1. mutexes[k] \in Mutexes /\ t # None
      BY ConstantsAssumption DEF Writing, LockIInv, TypeOK, HasCurrentMutex, Has
    <3>2. writer[mutexes[k]] = t /\ u \in readers[mutexes[k]]
      BY DEF Writing, Reading, LockIInv, InsideHolds
    <3> QED  BY <3>1, <3>2 DEF LockIInv, InsideHolds
  <2> QED  BY <2>1, <2>2 DEF Exclusive
<1> QED  BY <1>1 DEF LockIInv, ExclusiveUnlessOverwritten

LEMMA LockInitInv == Init => LockIInv
<1> SUFFICES ASSUME Init PROVE LockIInv
  OBVIOUS
<1>1. PICK f \in [Known -> Mutexes] :
        /\ \A a, b \in Known : f[a] = f[b] => a = b
        /\ mutexes = [k \in Keys |-> IF k \in Known THEN f[k] ELSE None]
        /\ made = {f[k] : k \in Known}
  BY DEF Init
<1>2. TypeOK
  <2>1. mutexes \in [Keys -> Mutexes \cup {None}]
    BY <1>1
  <2>2. made \subseteq Mutexes
    BY <1>1
  <2> QED  BY <2>1, <2>2 DEF Init, TypeOK, Modes
<1>3. OwnMutex /\ KnownHasMutex
  BY <1>1, ConstantsAssumption DEF Init, OwnMutex, KnownHasMutex
<1> QED  BY <1>2, <1>3 DEF Init, LockIInv, HasCurrentMutex, Has, InsideHolds

-----------------------------------------------------------------------------
\* The steps

LEMMA CallInv ==
  ASSUME LockIInv, NEW t \in Threads, NEW k \in Keys, NEW m \in Modes, Call(t, k, m)
  PROVE  LockIInv'
<1>1. TypeOK'
  BY DEF Call, LockIInv, TypeOK, rwVars
<1>2. OwnMutex' /\ KnownHasMutex' /\ HasCurrentMutex' /\ InsideHolds'
  BY DEF Call, LockIInv, TypeOK, rwVars, OwnMutex, KnownHasMutex, HasCurrentMutex, Has, InsideHolds
<1> QED  BY <1>1, <1>2 DEF Call, LockIInv

LEMMA LookupInv ==
  ASSUME LockIInv, NEW t \in Threads, Lookup(t)
  PROVE  LockIInv'
<1>0. mutexes[key[t]] \in Mutexes \cup {None}
  BY DEF LockIInv, TypeOK
<1>1. TypeOK'
  BY <1>0 DEF Lookup, LockIInv, TypeOK, rwVars
<1>2. OwnMutex' /\ KnownHasMutex'
  BY DEF Lookup, LockIInv, TypeOK, OwnMutex, KnownHasMutex
<1>3. HasCurrentMutex'
  BY <1>0 DEF Lookup, LockIInv, TypeOK, OwnMutex, HasCurrentMutex, Has
<1>4. InsideHolds'
  BY DEF Lookup, LockIInv, TypeOK, rwVars, InsideHolds
<1> QED  BY <1>1, <1>2, <1>3, <1>4 DEF Lookup, LockIInv

LEMMA CreateInv ==
  ASSUME LockIInv, NEW t \in Threads, Create(t)
  PROVE  LockIInv'
<1>1. PICK m \in Mutexes \ made :
        /\ made' = made \cup {m}
        /\ mutexes' = [mutexes EXCEPT ![key[t]] = m]
        /\ obj' = [obj EXCEPT ![t] = m]
  BY DEF Create
<1>2. key[t] \in Keys \ Known /\ m # None
  BY ConstantsAssumption DEF Create, LockIInv, TypeOK, KnownHasMutex
<1>3. TypeOK'
  BY <1>1, <1>2 DEF Create, LockIInv, TypeOK, rwVars
<1>4. OwnMutex'
  BY <1>1, <1>2 DEF Create, LockIInv, TypeOK, OwnMutex
<1>5. KnownHasMutex'
  BY <1>1, <1>2, ConstantsAssumption DEF Create, LockIInv, TypeOK, KnownHasMutex
<1>6. HasCurrentMutex'
  <2> SUFFICES ASSUME NEW u \in Threads, Has(u)'
               PROVE  /\ obj'[u] \in made' /\ mutexes'[key'[u]] # None
                      /\ key'[u] \notin overwritten' => obj'[u] = mutexes'[key'[u]]
    BY DEF HasCurrentMutex
  <2>1. CASE u = t
    BY <1>1, <1>2, <2>1 DEF Create, LockIInv, TypeOK
  <2>2. CASE u # t
    <3>1. Has(u) /\ key'[u] = key[u] /\ obj'[u] = obj[u]
      BY <1>1, <2>2 DEF Create, LockIInv, TypeOK, Has
    <3>2. key[u] = key[t] => key[t] \in overwritten'
      BY <3>1 DEF Create, LockIInv, HasCurrentMutex
    <3>3. key[u] \in Keys /\ overwritten \subseteq overwritten'
      BY DEF Create, LockIInv, TypeOK
    <3> QED  BY <1>1, <1>2, <3>1, <3>2, <3>3 DEF LockIInv, TypeOK, HasCurrentMutex
  <2> QED  BY <2>1, <2>2
<1>7. InsideHolds'
  <2>1. \A n \in Mutexes : writer'[n] # None => readers'[n] = {}
    BY DEF Create, rwVars, LockIInv, InsideHolds
  <2>2. ASSUME NEW u \in Threads, pc'[u] = "held", key'[u] \notin overwritten'
        PROVE  /\ pc[u] = "held" /\ key'[u] = key[u] /\ mode'[u] = mode[u]
               /\ key[u] \notin overwritten
               /\ mutexes'[key[u]] = mutexes[key[u]]
    <3>1. pc[u] = "held" /\ key'[u] = key[u] /\ mode'[u] = mode[u] /\ key[u] \notin overwritten
      BY <2>2 DEF Create, LockIInv, TypeOK
    <3>2. key[u] # key[t]
      BY <2>2, <3>1 DEF Create, LockIInv, HasCurrentMutex, Has
    <3> QED  BY <1>1, <3>1, <3>2 DEF LockIInv, TypeOK
  <2>3. UNCHANGED <<writer, readers>>
    BY DEF Create, rwVars
  <2> QED  BY <2>1, <2>2, <2>3 DEF LockIInv, InsideHolds
<1> QED  BY <1>2, <1>3, <1>4, <1>5, <1>6, <1>7 DEF Create, LockIInv

LEMMA AcquireWriteInv ==
  ASSUME LockIInv, NEW t \in Threads, AcquireWrite(t)
  PROVE  LockIInv'
<1>0. obj[t] \in Mutexes
  BY DEF AcquireWrite, LockIInv, TypeOK
<1>1. TypeOK'
  BY <1>0 DEF AcquireWrite, LockIInv, TypeOK
<1>2. OwnMutex' /\ KnownHasMutex' /\ HasCurrentMutex'
  BY DEF AcquireWrite, LockIInv, TypeOK, OwnMutex, KnownHasMutex, HasCurrentMutex, Has
<1>3. InsideHolds'
  <2>1. \A m \in Mutexes : writer'[m] # None => readers'[m] = {}
    BY <1>0 DEF AcquireWrite, LockIInv, TypeOK, InsideHolds
  <2>2. ASSUME NEW u \in Threads, pc'[u] = "held", key'[u] \notin overwritten'
        PROVE  IF mode'[u] = "write" THEN writer'[mutexes'[key'[u]]] = u
               ELSE u \in readers'[mutexes'[key'[u]]]
    <3>1. CASE u = t
      <4>1. obj[t] = mutexes[key[t]] /\ mode[t] = "write"
        BY <2>2, <3>1 DEF AcquireWrite, LockIInv, HasCurrentMutex, Has
      <4> QED  BY <1>0, <3>1, <4>1 DEF AcquireWrite, LockIInv, TypeOK
    <3>2. CASE u # t
      <4>1. pc[u] = "held" /\ key[u] \notin overwritten /\ mutexes[key[u]] \in Mutexes
        BY <2>2, <3>2 DEF AcquireWrite, LockIInv, TypeOK, HasCurrentMutex, Has
      <4>2. u # None
        BY ConstantsAssumption
      <4> QED  BY <1>0, <4>1, <4>2 DEF AcquireWrite, LockIInv, TypeOK, InsideHolds
    <3> QED  BY <3>1, <3>2
  <2> QED  BY <2>1, <2>2 DEF InsideHolds
<1> QED  BY <1>1, <1>2, <1>3 DEF AcquireWrite, LockIInv

LEMMA AcquireReadInv ==
  ASSUME LockIInv, NEW t \in Threads, AcquireRead(t)
  PROVE  LockIInv'
<1>0. obj[t] \in Mutexes
  BY DEF AcquireRead, LockIInv, TypeOK
<1>1. TypeOK'
  BY <1>0 DEF AcquireRead, LockIInv, TypeOK
<1>2. OwnMutex' /\ KnownHasMutex' /\ HasCurrentMutex'
  BY DEF AcquireRead, LockIInv, TypeOK, OwnMutex, KnownHasMutex, HasCurrentMutex, Has
<1>3. InsideHolds'
  <2>1. \A m \in Mutexes : writer'[m] # None => readers'[m] = {}
    BY <1>0 DEF AcquireRead, LockIInv, TypeOK, InsideHolds
  <2>2. ASSUME NEW u \in Threads, pc'[u] = "held", key'[u] \notin overwritten'
        PROVE  IF mode'[u] = "write" THEN writer'[mutexes'[key'[u]]] = u
               ELSE u \in readers'[mutexes'[key'[u]]]
    <3>1. CASE u = t
      <4>1. obj[t] = mutexes[key[t]] /\ mode[t] = "read"
        BY <2>2, <3>1 DEF AcquireRead, LockIInv, HasCurrentMutex, Has
      <4> QED  BY <1>0, <3>1, <4>1 DEF AcquireRead, LockIInv, TypeOK
    <3>2. CASE u # t
      <4>1. pc[u] = "held" /\ key[u] \notin overwritten /\ mutexes[key[u]] \in Mutexes
        BY <2>2, <3>2 DEF AcquireRead, LockIInv, TypeOK, HasCurrentMutex, Has
      <4> QED  BY <1>0, <4>1 DEF AcquireRead, LockIInv, TypeOK, InsideHolds
    <3> QED  BY <3>1, <3>2
  <2> QED  BY <2>1, <2>2 DEF InsideHolds
<1> QED  BY <1>1, <1>2, <1>3 DEF AcquireRead, LockIInv

\* A section of another key has another mutex than the one that t releases.
LEMMA ReleasesOwn ==
  ASSUME LockIInv, NEW t \in Threads, NEW u \in Threads, Has(t), Has(u), key[u] # key[t]
  PROVE  /\ mutexes[key[t]] \in Mutexes /\ mutexes[key[u]] \in Mutexes
         /\ mutexes[key[u]] # mutexes[key[t]]
BY DEF LockIInv, TypeOK, OwnMutex, HasCurrentMutex

LEMMA UnlockInv ==
  ASSUME LockIInv, NEW t \in Threads, Unlock(t)
  PROVE  LockIInv'
<1>0. mutexes[key[t]] \in Mutexes /\ Has(t)
  BY DEF Unlock, LockIInv, TypeOK, HasCurrentMutex, Has
<1>1. TypeOK'
  BY <1>0 DEF Unlock, LockIInv, TypeOK
<1>2. OwnMutex' /\ KnownHasMutex' /\ HasCurrentMutex'
  BY DEF Unlock, LockIInv, TypeOK, OwnMutex, KnownHasMutex, HasCurrentMutex, Has
<1>3. InsideHolds'
  <2>1. \A m \in Mutexes : writer'[m] # None => readers'[m] = {}
    BY <1>0 DEF Unlock, LockIInv, TypeOK, InsideHolds
  <2>2. ASSUME NEW u \in Threads, pc'[u] = "held", key'[u] \notin overwritten'
        PROVE  IF mode'[u] = "write" THEN writer'[mutexes'[key'[u]]] = u
               ELSE u \in readers'[mutexes'[key'[u]]]
    <3>1. u # t /\ pc[u] = "held" /\ key[u] \notin overwritten /\ Has(u)
      BY <2>2 DEF Unlock, LockIInv, TypeOK, Has
    <3>2. CASE key[u] = key[t]
      <4>1. writer[mutexes[key[t]]] = t /\ readers[mutexes[key[t]]] = {}
        BY <1>0, <3>1, <3>2, ConstantsAssumption DEF Unlock, LockIInv, InsideHolds
      <4> QED  BY <3>1, <3>2, <4>1 DEF LockIInv, InsideHolds
    <3>3. CASE key[u] # key[t]
      <4>1. mutexes[key[u]] \in Mutexes /\ mutexes[key[u]] # mutexes[key[t]]
        BY <1>0, <3>1, <3>3, ReleasesOwn
      <4> QED  BY <1>0, <3>1, <4>1 DEF Unlock, LockIInv, TypeOK, InsideHolds
    <3> QED  BY <3>2, <3>3
  <2> QED  BY <2>1, <2>2 DEF InsideHolds
<1>4. crashed' => overwritten' # {}
  <2>1. key[t] \notin overwritten => writer[mutexes[key[t]]] = t /\ t # None
    BY ConstantsAssumption DEF Unlock, LockIInv, InsideHolds
  <2> QED  BY <2>1 DEF Unlock
<1> QED  BY <1>1, <1>2, <1>3, <1>4 DEF Unlock, LockIInv

LEMMA RUnlockInv ==
  ASSUME LockIInv, NEW t \in Threads, RUnlock(t)
  PROVE  LockIInv'
<1>0. mutexes[key[t]] \in Mutexes /\ Has(t)
  BY DEF RUnlock, LockIInv, TypeOK, HasCurrentMutex, Has
<1>1. PICK gone \in Threads :
        /\ readers' = [readers EXCEPT ![mutexes[key[t]]] = @ \ {gone}]
        /\ key[t] \notin overwritten => gone = t
  <2>1. key[t] \notin overwritten => t \in readers[mutexes[key[t]]]
    BY DEF RUnlock, LockIInv, TypeOK, Modes, InsideHolds
  <2>2. readers[mutexes[key[t]]] \subseteq Threads
    BY <1>0 DEF LockIInv, TypeOK
  <2> QED  BY <2>1, <2>2 DEF RUnlock
<1>2. TypeOK'
  BY <1>0, <1>1 DEF RUnlock, LockIInv, TypeOK
<1>3. OwnMutex' /\ KnownHasMutex' /\ HasCurrentMutex'
  BY DEF RUnlock, LockIInv, TypeOK, OwnMutex, KnownHasMutex, HasCurrentMutex, Has
<1>4. InsideHolds'
  <2>1. \A m \in Mutexes : writer'[m] # None => readers'[m] = {}
    BY <1>0, <1>1 DEF RUnlock, LockIInv, TypeOK, InsideHolds
  <2>2. ASSUME NEW u \in Threads, pc'[u] = "held", key'[u] \notin overwritten'
        PROVE  IF mode'[u] = "write" THEN writer'[mutexes'[key'[u]]] = u
               ELSE u \in readers'[mutexes'[key'[u]]]
    <3>1. u # t /\ pc[u] = "held" /\ key[u] \notin overwritten /\ Has(u)
      BY <2>2 DEF RUnlock, LockIInv, TypeOK, Has
    <3>2. CASE key[u] = key[t]
      BY <1>0, <1>1, <3>1, <3>2 DEF RUnlock, LockIInv, TypeOK, InsideHolds
    <3>3. CASE key[u] # key[t]
      <4>1. mutexes[key[u]] \in Mutexes /\ mutexes[key[u]] # mutexes[key[t]]
        BY <1>0, <3>1, <3>3, ReleasesOwn
      <4> QED  BY <1>0, <1>1, <3>1, <4>1 DEF RUnlock, LockIInv, TypeOK, InsideHolds
    <3> QED  BY <3>2, <3>3
  <2> QED  BY <2>1, <2>2 DEF InsideHolds
<1>5. crashed' => overwritten' # {}
  BY DEF RUnlock, LockIInv, TypeOK, Modes, InsideHolds
<1> QED  BY <1>2, <1>3, <1>4, <1>5 DEF RUnlock, LockIInv

-----------------------------------------------------------------------------
LEMMA LockNextInv == LockIInv /\ [Next]_vars => LockIInv'
<1> SUFFICES ASSUME LockIInv, [Next]_vars PROVE LockIInv'
  OBVIOUS
<1>1. CASE Next
  BY <1>1, CallInv, LookupInv, CreateInv, AcquireWriteInv, AcquireReadInv, UnlockInv, RUnlockInv
     DEF Next
<1>2. CASE UNCHANGED vars
  BY <1>2 DEF vars, rwVars, LockIInv, TypeOK, OwnMutex, KnownHasMutex, HasCurrentMutex, Has,
              InsideHolds
<1> QED  BY <1>1, <1>2

LEMMA LockInvariance == Spec => []LockIInv
BY LockInitInv, LockNextInv, PTL DEF Spec

\* The keys' mutexes, the goroutines and their calls keep their types (keyRWMutex.go).
THEOREM LockTypeCorrect == Spec => []TypeOK
BY LockInvariance, PTL DEF LockIInv

\* The sections of a key exclude each other until a second creator overwrites its mutex, which
\* happens to no key that had one, and without which no Unlock is fatal (getOrCreateLock, Lock,
\* Unlock).
THEOREM ExclusionCorrect == Spec => []ExclusiveUnlessOverwritten
<1>1. LockIInv => ExclusiveUnlessOverwritten
  BY LockExcludes
<1> QED  BY LockInvariance, <1>1, PTL

-----------------------------------------------------------------------------
(* The refinement *)

LEMMA KnownIsKept ==
  ASSUME LockIInv, NEW t \in Threads, Has(t), key[t] \in Known
  PROVE  obj[t] = mutexes[key[t]] /\ mutexes[key[t]] \in Mutexes
BY DEF LockIInv, TypeOK, HasCurrentMutex, Has

LEMMA InitRefines == Init => Abstract!Init
BY DEF Init, Abstract!Init, Writing, Reading

\* A call, a look-up and a creation enter and leave no section.
LEMMA StutterRefines ==
  ASSUME LockIInv, NEW t \in Threads,
         pc[t] # "held", pc' = [pc EXCEPT ![t] = pc'[t]], pc'[t] # "held",
         \A u \in Threads \ {t} : key'[u] = key[u] /\ mode'[u] = mode[u]
  PROVE  UNCHANGED Abstract!vars
<1>1. \A k \in Known : Writing(k)' = Writing(k) /\ Reading(k)' = Reading(k)
  BY DEF LockIInv, TypeOK, Writing, Reading
<1> QED  BY <1>1 DEF Abstract!vars

LEMMA AcquireWriteRefines ==
  ASSUME LockIInv, NEW t \in Threads, AcquireWrite(t)
  PROVE  [Abstract!Next]_Abstract!vars
<1>1. \A k \in Known : Reading(k)' = Reading(k)
  BY DEF AcquireWrite, LockIInv, TypeOK, Reading
<1>2. \A k \in Known \ {key[t]} : Writing(k)' = Writing(k)
  BY DEF AcquireWrite, LockIInv, TypeOK, Writing
<1>3. CASE key[t] \in Known
  <2>1. writer[mutexes[key[t]]] = None /\ readers[mutexes[key[t]]] = {}
    BY <1>3, KnownIsKept DEF AcquireWrite, Has
  <2>2. Writing(key[t]) = {} /\ Reading(key[t]) = {}
    <3>1. key[t] \notin overwritten
      BY <1>3 DEF LockIInv
    <3> QED  BY <2>1, <3>1, ConstantsAssumption DEF LockIInv, TypeOK, InsideHolds, Writing, Reading
  <2>3. \A k \in Known : Writing(k)' = IF k = key[t] THEN {t} ELSE Writing(k)
    BY <1>2, <2>2 DEF AcquireWrite, LockIInv, TypeOK, Writing
  <2>4. Abstract!EnterWrite(t, key[t])
    BY <1>1, <1>3, <2>2, <2>3 DEF Abstract!EnterWrite
  <2> QED  BY <1>3, <2>4 DEF Abstract!Next
<1>4. CASE key[t] \notin Known
  BY <1>1, <1>2, <1>4 DEF Abstract!vars
<1> QED  BY <1>3, <1>4

LEMMA AcquireReadRefines ==
  ASSUME LockIInv, NEW t \in Threads, AcquireRead(t)
  PROVE  [Abstract!Next]_Abstract!vars
<1>1. \A k \in Known : Writing(k)' = Writing(k)
  BY DEF AcquireRead, LockIInv, TypeOK, Writing
<1>2. \A k \in Known \ {key[t]} : Reading(k)' = Reading(k)
  BY DEF AcquireRead, LockIInv, TypeOK, Reading
<1>3. CASE key[t] \in Known
  <2>1. writer[mutexes[key[t]]] = None
    BY <1>3, KnownIsKept DEF AcquireRead, Has
  <2>2. Writing(key[t]) = {} /\ t \notin Reading(key[t])
    <3>1. key[t] \notin overwritten
      BY <1>3 DEF LockIInv
    <3> QED  BY <2>1, <3>1, ConstantsAssumption
             DEF AcquireRead, LockIInv, TypeOK, InsideHolds, Writing, Reading
  <2>3. \A k \in Known :
          Reading(k)' = IF k = key[t] THEN Reading(k) \cup {t} ELSE Reading(k)
    BY <1>2 DEF AcquireRead, LockIInv, TypeOK, Reading
  <2>4. Abstract!EnterRead(t, key[t])
    BY <1>1, <1>3, <2>2, <2>3 DEF Abstract!EnterRead
  <2> QED  BY <1>3, <2>4 DEF Abstract!Next
<1>4. CASE key[t] \notin Known
  BY <1>1, <1>2, <1>4 DEF Abstract!vars
<1> QED  BY <1>3, <1>4

LEMMA UnlockRefines ==
  ASSUME LockIInv, NEW t \in Threads, Unlock(t)
  PROVE  [Abstract!Next]_Abstract!vars
<1>1. \A k \in Known : Reading(k)' = Reading(k)
  BY DEF Unlock, LockIInv, TypeOK, Reading
<1>2. \A k \in Known \ {key[t]} : Writing(k)' = Writing(k)
  BY DEF Unlock, LockIInv, TypeOK, Writing
<1>3. CASE key[t] \in Known
  <2>1. Writing(key[t]) = {t}
    <3>1. Exclusive(key[t]) /\ t \in Writing(key[t])
      BY <1>3, LockExcludes DEF Unlock, LockIInv, TypeOK, ExclusiveUnlessOverwritten, Writing
    <3> QED  BY <3>1 DEF Exclusive
  <2>2. \A k \in Known : Writing(k)' = IF k = key[t] THEN {} ELSE Writing(k)
    BY <1>2, <2>1 DEF Unlock, LockIInv, TypeOK, Writing
  <2>3. Abstract!LeaveWrite(t, key[t])
    BY <1>1, <1>3, <2>1, <2>2 DEF Abstract!LeaveWrite
  <2> QED  BY <1>3, <2>3 DEF Abstract!Next
<1>4. CASE key[t] \notin Known
  BY <1>1, <1>2, <1>4 DEF Abstract!vars
<1> QED  BY <1>3, <1>4

LEMMA RUnlockRefines ==
  ASSUME LockIInv, NEW t \in Threads, RUnlock(t)
  PROVE  [Abstract!Next]_Abstract!vars
<1>1. \A k \in Known : Writing(k)' = Writing(k)
  BY DEF RUnlock, LockIInv, TypeOK, Writing
<1>2. \A k \in Known \ {key[t]} : Reading(k)' = Reading(k)
  BY DEF RUnlock, LockIInv, TypeOK, Reading
<1>3. CASE key[t] \in Known
  <2>1. t \in Reading(key[t])
    BY <1>3 DEF RUnlock, Reading
  <2>2. \A k \in Known :
          Reading(k)' = IF k = key[t] THEN Reading(k) \ {t} ELSE Reading(k)
    BY <1>2 DEF RUnlock, LockIInv, TypeOK, Reading
  <2>3. Abstract!LeaveRead(t, key[t])
    BY <1>1, <1>3, <2>1, <2>2 DEF Abstract!LeaveRead
  <2> QED  BY <1>3, <2>3 DEF Abstract!Next
<1>4. CASE key[t] \notin Known
  BY <1>1, <1>2, <1>4 DEF Abstract!vars
<1> QED  BY <1>3, <1>4

LEMMA StepRefines == LockIInv /\ [Next]_vars => [Abstract!Next]_Abstract!vars
<1> SUFFICES ASSUME LockIInv, [Next]_vars PROVE [Abstract!Next]_Abstract!vars
  OBVIOUS
<1>1. ASSUME NEW t \in Threads, NEW k \in Keys, NEW m \in Modes, Call(t, k, m)
      PROVE  UNCHANGED Abstract!vars
  BY <1>1, StutterRefines DEF Call, LockIInv, TypeOK
<1>2. ASSUME NEW t \in Threads, Lookup(t) \/ Create(t)
      PROVE  UNCHANGED Abstract!vars
  BY <1>2, StutterRefines DEF Lookup, Create, LockIInv, TypeOK
<1>3. CASE UNCHANGED vars
  BY <1>3 DEF vars, Abstract!vars, Writing, Reading
<1> QED
  BY <1>1, <1>2, <1>3, AcquireWriteRefines, AcquireReadRefines, UnlockRefines, RUnlockRefines
     DEF Next

\* For the keys that have a mutex from the start, Lock, RLock, Unlock and RUnlock are those of
\* one read-write lock per key, whatever happens to the other keys.
THEOREM ImplementsRWLock == Spec => RefinesRWLock
<1>1. Init => Abstract!Init
  BY InitRefines
<1>2. LockIInv /\ [Next]_vars => [Abstract!Next]_Abstract!vars
  BY StepRefines
<1> QED  BY <1>1, <1>2, LockInvariance, PTL DEF Spec, RefinesRWLock, Abstract!Spec

-----------------------------------------------------------------------------
\* The sessions.

\* A login has a user, another request none; each has the session its step needs.
CallsWellFormed ==
  \A r \in SessionRequests :
    /\ sessionCall[r].pc \in {"find", "delete", "create"} <=> sessionCall[r].user \in Users
    /\ sessionCall[r].pc \in {"delete", "reset", "handle"} <=> sessionCall[r].id \in SessionIds

\* What makes the logins of a sequential user follow one another.
OneLogin ==
  \A u \in sequentialUsers : \A r, q \in SessionRequests :
    sessionCall[r].user = u /\ sessionCall[q].user = u => r = q

\* A sequential user has one session, none that its login does not delete before it creates.
OneSession ==
  \A u \in sequentialUsers :
    /\ \A i, j \in SessionsOf(u) : i = j
    /\ \A r \in SessionRequests :
         sessionCall[r].user = u =>
           /\ sessionCall[r].pc = "delete" => SessionsOf(u) \subseteq {sessionCall[r].id}
           /\ sessionCall[r].pc = "create" => SessionsOf(u) = {}

SessionIInv ==
  /\ SessionsTypeOK
  /\ CallsWellFormed
  /\ OneLogin
  /\ OneSession
  /\ DoomedHaveExpired

-----------------------------------------------------------------------------
(* The next expiry *)

\* The time left until the next expiry is some session's, and none is nearer.
LEMMA MinIsLeast ==
  ASSUME NEW S, S \subseteq Nat, S # {}
  PROVE  Min(S) \in S /\ \A y \in S : Min(S) <= y
<1> DEFINE R == {ss \in Nat \X Nat : ss[1] < ss[2]}
<1>1. IsWellFoundedOn(R, Nat)
  BY NatLessThanWellFounded DEF OpToRel
<1> HIDE DEF R
<1>2. PICK x \in S : \A y \in S : ~(<<y, x>> \in R)
  BY <1>1, WFMin
<1>3. ASSUME NEW y \in S PROVE x <= y
  <2>1. x \in Nat /\ y \in Nat
    OBVIOUS
  <2>2. y < x => <<y, x>> \in R
    BY <2>1, Zenon DEF R
  <2> QED  BY <1>2, <2>1, <2>2
<1> QED  BY <1>3 DEF Min

LEMMA NextExpirationType ==
  ASSUME SessionsTypeOK
  PROVE  NextExpiration \in 0 .. Lifetime
<1> DEFINE Left == {timeLeft[i] : i \in StoredSessions \ ExpiredSessions}
<1>1. CASE StoredSessions \subseteq ExpiredSessions
  BY <1>1, LifetimeAssumption DEF NextExpiration
<1>2. CASE ~(StoredSessions \subseteq ExpiredSessions)
  <2>1. Left \subseteq 0 .. Lifetime /\ Left # {}
    <3>1. \A i \in StoredSessions \ ExpiredSessions : timeLeft[i] \in 0 .. Lifetime
      <4>1. \A i \in SessionIds : timeLeft[i] \in -1 .. Lifetime
        BY DEF SessionsTypeOK
      <4> QED  BY <4>1, LifetimeAssumption DEF StoredSessions, ExpiredSessions
    <3> QED  BY <1>2, <3>1
  <2>2. Left \subseteq Nat
    BY <2>1, LifetimeAssumption
  <2>3. NextExpiration = Min(Left)
    BY <1>2 DEF NextExpiration
  <2> HIDE DEF Left
  <2> QED  BY <2>1, <2>2, <2>3, MinIsLeast
<1> QED  BY <1>1, <1>2

-----------------------------------------------------------------------------
(* The initial states, and the steps *)

LEMMA SessionInitInv == SessionsInit => SessionIInv
BY NoSessionAssumption, LifetimeAssumption
   DEF SessionsInit, SessionIInv, SessionsTypeOK, SessionCall, NoSessionCall, StoredSessions,
       SessionsOf, CallsWellFormed, OneLogin, OneSession, DoomedHaveExpired

LEMMA BeginLoginInv ==
  ASSUME SessionIInv, NEW r \in SessionRequests, NEW u \in Users, BeginLogin(r, u)
  PROVE  SessionIInv'
<1>1. SessionsTypeOK' /\ CallsWellFormed'
  BY DEF BeginLogin, sweepVars, SessionIInv, SessionsTypeOK, SessionCall, StoredSessions,
         CallsWellFormed
<1>2. OneLogin'
  BY DEF BeginLogin, LoggingIn, SessionIInv, SessionsTypeOK, SessionCall, OneLogin
<1>3. OneSession'
  BY DEF BeginLogin, LoggingIn, SessionIInv, SessionsTypeOK, SessionCall, OneSession, SessionsOf
<1>4. DoomedHaveExpired'
  BY DEF BeginLogin, sweepVars, SessionIInv, DoomedHaveExpired, StoredSessions, ExpiredSessions
<1> QED  BY <1>1, <1>2, <1>3, <1>4 DEF SessionIInv

LEMMA FindSessionInv ==
  ASSUME SessionIInv, NEW r \in SessionRequests, FindSession(r)
  PROVE  SessionIInv'
<1>1. SessionsTypeOK' /\ CallsWellFormed'
  BY NoSessionAssumption
     DEF FindSession, SessionGoes, sweepVars, SessionIInv, SessionsTypeOK, SessionCall,
         StoredSessions, SessionsOf, CallsWellFormed
<1>2. OneLogin' /\ OneSession'
  BY DEF FindSession, SessionGoes, SessionIInv, SessionsTypeOK, SessionCall, SessionsOf,
         OneLogin, OneSession
<1>3. DoomedHaveExpired'
  BY DEF FindSession, sweepVars, SessionIInv, DoomedHaveExpired, StoredSessions, ExpiredSessions
<1> QED  BY <1>1, <1>2, <1>3 DEF SessionIInv

\* What the deletion of a session does to the state, whoever asks for it.
LEMMA RemoveSessionStep ==
  ASSUME SessionIInv, NEW i \in SessionIds, RemoveSession(i)
  PROVE  /\ sessionUser' \in [SessionIds -> Users \cup {NoSession}]
         /\ timeLeft' \in [SessionIds -> -1 .. Lifetime]
         /\ StoredSessions' = StoredSessions \ {i}
         /\ \A u \in Users : SessionsOf(u)' = SessionsOf(u) \ {i}
         /\ \A j \in SessionIds \ {i} : timeLeft'[j] = timeLeft[j]
BY NoSessionAssumption, LifetimeAssumption
   DEF RemoveSession, SessionIInv, SessionsTypeOK, StoredSessions, SessionsOf

LEMMA DeleteSessionInv ==
  ASSUME SessionIInv, NEW r \in SessionRequests, DeleteSession(r)
  PROVE  SessionIInv'
<1>0. sessionCall[r].id \in SessionIds /\ sessionCall[r].user \in Users
  BY DEF DeleteSession, SessionIInv, CallsWellFormed
<1> DEFINE i == sessionCall[r].id
<1>1. /\ sessionUser' \in [SessionIds -> Users \cup {NoSession}]
      /\ timeLeft' \in [SessionIds -> -1 .. Lifetime]
      /\ StoredSessions' = StoredSessions \ {i}
      /\ \A u \in Users : SessionsOf(u)' = SessionsOf(u) \ {i}
      /\ \A j \in SessionIds \ {i} : timeLeft'[j] = timeLeft[j]
  BY <1>0, RemoveSessionStep DEF DeleteSession
<1>2. SessionsTypeOK' /\ CallsWellFormed'
  BY <1>1, NoSessionAssumption
     DEF DeleteSession, SessionGoes, sweepVars, SessionIInv, SessionsTypeOK, SessionCall,
         CallsWellFormed
<1>3. OneLogin'
  BY DEF DeleteSession, SessionGoes, SessionIInv, SessionsTypeOK, SessionCall, OneLogin
<1>4. OneSession'
  BY <1>0, <1>1
     DEF DeleteSession, SessionGoes, SessionIInv, SessionsTypeOK, SessionCall, OneLogin, OneSession
<1>5. DoomedHaveExpired'
  BY <1>0, <1>1
     DEF DeleteSession, sweepVars, SessionIInv, SessionsTypeOK, DoomedHaveExpired, StoredSessions,
         ExpiredSessions
<1> QED  BY <1>2, <1>3, <1>4, <1>5 DEF SessionIInv

LEMMA CreateSessionInv ==
  ASSUME SessionIInv, NEW r \in SessionRequests, CreateSession(r)
  PROVE  SessionIInv'
<1>0. PICK u \in Users : u = sessionCall[r].user
  BY DEF CreateSession, SessionIInv, CallsWellFormed
<1>1. PICK i \in SessionIds :
        /\ UnusedId(i)
        /\ sessionUser' = [sessionUser EXCEPT ![i] = u]
        /\ timeLeft' = [timeLeft EXCEPT ![i] = Lifetime]
        /\ refreshed' = refreshed \ {i}
  BY <1>0 DEF CreateSession
<1>2. SessionsTypeOK' /\ CallsWellFormed'
  BY <1>0, <1>1, NoSessionAssumption, LifetimeAssumption
     DEF CreateSession, SessionAnswered, NoSessionCall, SessionIInv, SessionsTypeOK, SessionCall,
         CallsWellFormed
<1>3. OneLogin'
  BY <1>0, NoSessionAssumption
     DEF CreateSession, SessionAnswered, NoSessionCall, SessionIInv, SessionsTypeOK, OneLogin
<1>4. OneSession'
  <2>1. SessionsOf(u)' = SessionsOf(u) \cup {i}
    BY <1>0, <1>1 DEF SessionIInv, SessionsTypeOK, SessionsOf
  <2>2. \A v \in Users \ {u} : SessionsOf(v)' = SessionsOf(v)
    BY <1>0, <1>1, NoSessionAssumption DEF UnusedId, SessionIInv, SessionsTypeOK, SessionsOf
  <2>3. u \in sequentialUsers => SessionsOf(u) = {}
    BY <1>0 DEF CreateSession, SessionIInv, OneSession
  <2>4. \A q \in SessionRequests :
          sessionCall'[q] = IF q = r THEN NoSessionCall ELSE sessionCall[q]
    BY DEF CreateSession, SessionAnswered, SessionIInv, SessionsTypeOK
  <2>5. sequentialUsers' = sequentialUsers /\ sequentialUsers \subseteq Users
    BY DEF CreateSession, SessionIInv, SessionsTypeOK
  <2>6. \A q \in SessionRequests : u \in sequentialUsers /\ sessionCall[q].user = u => q = r
    BY <1>0 DEF SessionIInv, OneLogin
  <2>7. ASSUME NEW v \in sequentialUsers'
        PROVE  /\ \A j, k \in SessionsOf(v)' : j = k
               /\ \A q \in SessionRequests :
                    sessionCall'[q].user = v =>
                      /\ sessionCall'[q].pc = "delete"
                           => SessionsOf(v)' \subseteq {sessionCall'[q].id}
                      /\ sessionCall'[q].pc = "create" => SessionsOf(v)' = {}
    <3>1. CASE v = u
      BY <2>1, <2>3, <2>4, <2>5, <2>6, <3>1, NoSessionAssumption DEF NoSessionCall
    <3>2. CASE v # u
      BY <2>2, <2>4, <2>5, <2>7, <3>2, NoSessionAssumption DEF NoSessionCall, SessionIInv,
         OneSession
    <3> QED  BY <3>1, <3>2
  <2> QED  BY <2>7 DEF OneSession
<1>5. DoomedHaveExpired'
  BY <1>0, <1>1, NoSessionAssumption
     DEF CreateSession, UnusedId, SessionIInv, SessionsTypeOK, DoomedHaveExpired, StoredSessions,
         ExpiredSessions
<1> QED  BY <1>2, <1>3, <1>4, <1>5 DEF SessionIInv

LEMMA BeginRequestInv ==
  ASSUME SessionIInv, NEW r \in SessionRequests, NEW i \in SessionIds, BeginRequest(r, i)
  PROVE  SessionIInv'
<1>1. SessionsTypeOK' /\ CallsWellFormed'
  BY DEF BeginRequest, SessionGoes, sweepVars, SessionIInv, SessionsTypeOK, SessionCall,
         StoredSessions, CallsWellFormed
<1>2. OneLogin' /\ OneSession'
  BY DEF BeginRequest, SessionGoes, SessionIInv, SessionsTypeOK, SessionCall, SessionsOf,
         OneLogin, OneSession
<1>3. DoomedHaveExpired'
  BY DEF BeginRequest, sweepVars, SessionIInv, DoomedHaveExpired, StoredSessions, ExpiredSessions
<1> QED  BY <1>1, <1>2, <1>3 DEF SessionIInv

LEMMA ResetExpiryInv ==
  ASSUME SessionIInv, NEW r \in SessionRequests, ResetExpiry(r)
  PROVE  SessionIInv'
<1>0. sessionCall[r].id \in SessionIds
  BY DEF ResetExpiry, SessionIInv, CallsWellFormed
<1>1. SessionsTypeOK' /\ CallsWellFormed'
  <2>1. timeLeft' \in [SessionIds -> -1 .. Lifetime]
    BY <1>0, LifetimeAssumption DEF ResetExpiry, SessionIInv, SessionsTypeOK
  <2>2. refreshed' \subseteq SessionIds
    BY <1>0 DEF ResetExpiry, SessionIInv, SessionsTypeOK
  <2> DEFINE q == [sessionCall[r] EXCEPT !.pc = "handle"]
  <2>3. sessionCall[r] \in SessionCall /\ sessionCall[r].pc = "reset"
    BY DEF ResetExpiry, SessionIInv, SessionsTypeOK
  <2>4. /\ q \in SessionCall /\ q.pc = "handle"
        /\ q.id = sessionCall[r].id /\ q.user = sessionCall[r].user
    BY <2>3 DEF SessionCall
  <2>5. sessionCall' = [sessionCall EXCEPT ![r] = q]
    BY <2>3 DEF ResetExpiry, SessionGoes, SessionIInv, SessionsTypeOK, SessionCall
  <2> HIDE DEF q
  <2>6. /\ sessionCall' \in [SessionRequests -> SessionCall]
        /\ sessionCall'[r] = q
        /\ \A s \in SessionRequests \ {r} : sessionCall'[s] = sessionCall[s]
    BY <2>4, <2>5 DEF SessionIInv, SessionsTypeOK
  <2>7. CallsWellFormed'
    BY <1>0, <2>3, <2>4, <2>6 DEF SessionIInv, CallsWellFormed
  <2> QED
    BY <2>1, <2>2, <2>6, <2>7 DEF ResetExpiry, sweepVars, SessionIInv, SessionsTypeOK,
       StoredSessions
<1>2. OneLogin' /\ OneSession'
  BY DEF ResetExpiry, SessionGoes, SessionIInv, SessionsTypeOK, SessionCall, SessionsOf,
         OneLogin, OneSession
<1>3. DoomedHaveExpired'
  BY DEF ResetExpiry, sweepVars, SessionIInv, SessionsTypeOK, DoomedHaveExpired, StoredSessions,
         ExpiredSessions
<1> QED  BY <1>1, <1>2, <1>3 DEF SessionIInv

LEMMA HandleSessionInv ==
  ASSUME SessionIInv, NEW r \in SessionRequests, HandleSession(r)
  PROVE  SessionIInv'
<1>1. SessionsTypeOK' /\ CallsWellFormed'
  BY NoSessionAssumption
     DEF HandleSession, SessionAnswered, NoSessionCall, sweepVars, SessionIInv, SessionsTypeOK,
         SessionCall, StoredSessions, CallsWellFormed
<1>2. OneLogin' /\ OneSession'
  BY NoSessionAssumption
     DEF HandleSession, SessionAnswered, NoSessionCall, SessionIInv, SessionsTypeOK, SessionsOf,
         OneLogin, OneSession
<1>3. DoomedHaveExpired'
  BY DEF HandleSession, sweepVars, SessionIInv, DoomedHaveExpired, StoredSessions, ExpiredSessions
<1> QED  BY <1>1, <1>2, <1>3 DEF SessionIInv

LEMMA SessionLogoutInv ==
  ASSUME SessionIInv, NEW r \in SessionRequests, SessionLogout(r)
  PROVE  SessionIInv'
<1>0. sessionCall[r].id \in SessionIds
  BY DEF SessionLogout, SessionIInv, CallsWellFormed
<1> DEFINE i == sessionCall[r].id
<1>1. /\ sessionUser' \in [SessionIds -> Users \cup {NoSession}]
      /\ timeLeft' \in [SessionIds -> -1 .. Lifetime]
      /\ StoredSessions' = StoredSessions \ {i}
      /\ \A u \in Users : SessionsOf(u)' = SessionsOf(u) \ {i}
      /\ \A j \in SessionIds \ {i} : timeLeft'[j] = timeLeft[j]
  BY <1>0, RemoveSessionStep DEF SessionLogout
<1>2. SessionsTypeOK' /\ CallsWellFormed'
  BY <1>1, NoSessionAssumption
     DEF SessionLogout, SessionAnswered, NoSessionCall, sweepVars, SessionIInv, SessionsTypeOK,
         SessionCall, CallsWellFormed
<1>3. OneLogin' /\ OneSession'
  BY <1>1, NoSessionAssumption
     DEF SessionLogout, SessionAnswered, NoSessionCall, SessionIInv, SessionsTypeOK, OneLogin,
         OneSession
<1>4. DoomedHaveExpired'
  BY <1>0, <1>1
     DEF SessionLogout, sweepVars, SessionIInv, SessionsTypeOK, DoomedHaveExpired, StoredSessions,
         ExpiredSessions
<1> QED  BY <1>2, <1>3, <1>4 DEF SessionIInv

\* The sweeper's own state says nothing about users.
LEMMA SweepInv ==
  ASSUME SessionIInv, StartSweeper \/ Collect
  PROVE  SessionIInv'
<1>1. timer' \in 0 .. Lifetime /\ sweeper' \in {"waiting", "deleting", "panicked"}
  BY NextExpirationType DEF StartSweeper, Collect, SetTicker, SessionIInv
<1>2. SessionsTypeOK'
  BY <1>1 DEF StartSweeper, Collect, ExpiredSessions, StoredSessions, SessionIInv, SessionsTypeOK
<1>3. CallsWellFormed' /\ OneLogin' /\ OneSession'
  BY DEF StartSweeper, Collect, SessionIInv, CallsWellFormed, OneLogin, OneSession, SessionsOf
<1>4. DoomedHaveExpired'
  BY DEF StartSweeper, Collect, SessionIInv, DoomedHaveExpired, StoredSessions, ExpiredSessions
<1> QED  BY <1>2, <1>3, <1>4 DEF SessionIInv

LEMMA DeleteExpiredInv ==
  ASSUME SessionIInv, DeleteExpired
  PROVE  SessionIInv'
<1>1. CASE doomed = {} /\ sweeper' = "waiting" /\ UNCHANGED <<sessionUser, timeLeft, doomed>>
  BY <1>1 DEF DeleteExpired, SessionIInv, SessionsTypeOK, CallsWellFormed, OneLogin, OneSession,
              DoomedHaveExpired, StoredSessions, ExpiredSessions, SessionsOf
<1>2. ASSUME NEW i \in doomed,
             RemoveSession(i), doomed' = doomed \ {i}, UNCHANGED sweeper
      PROVE  SessionIInv'
  <2>0. i \in SessionIds
    BY DEF SessionIInv, SessionsTypeOK
  <2>1. /\ sessionUser' \in [SessionIds -> Users \cup {NoSession}]
        /\ timeLeft' \in [SessionIds -> -1 .. Lifetime]
        /\ StoredSessions' = StoredSessions \ {i}
        /\ \A u \in Users : SessionsOf(u)' = SessionsOf(u) \ {i}
        /\ \A j \in SessionIds \ {i} : timeLeft'[j] = timeLeft[j]
    BY <1>2, <2>0, RemoveSessionStep
  <2>2. SessionsTypeOK' /\ CallsWellFormed'
    BY <1>2, <2>1 DEF DeleteExpired, SessionIInv, SessionsTypeOK, CallsWellFormed
  <2>3. OneLogin' /\ OneSession'
    BY <2>1 DEF DeleteExpired, SessionIInv, SessionsTypeOK, OneLogin, OneSession
  <2>4. DoomedHaveExpired'
    BY <1>2, <2>1
       DEF DeleteExpired, SessionIInv, SessionsTypeOK, DoomedHaveExpired, StoredSessions,
       ExpiredSessions
  <2> QED  BY <2>2, <2>3, <2>4 DEF SessionIInv
<1> QED  BY <1>1, <1>2 DEF DeleteExpired

LEMMA TimePassesInv ==
  ASSUME SessionIInv, TimePasses
  PROVE  SessionIInv'
<1>1. SessionsTypeOK'
  BY LifetimeAssumption DEF TimePasses, SessionIInv, SessionsTypeOK, StoredSessions
<1>2. CallsWellFormed' /\ OneLogin' /\ OneSession'
  BY DEF TimePasses, SessionIInv, CallsWellFormed, OneLogin, OneSession, SessionsOf
<1>3. DoomedHaveExpired'
  BY DEF TimePasses, SessionIInv, SessionsTypeOK, DoomedHaveExpired, StoredSessions, ExpiredSessions
<1> QED  BY <1>1, <1>2, <1>3 DEF SessionIInv

-----------------------------------------------------------------------------
LEMMA SessionNextInv == SessionIInv /\ [SessionsNext]_sessionVars => SessionIInv'
<1> SUFFICES ASSUME SessionIInv, [SessionsNext]_sessionVars PROVE SessionIInv'
  OBVIOUS
<1>1. CASE SessionsNext
  BY <1>1, BeginLoginInv, FindSessionInv, DeleteSessionInv, CreateSessionInv, BeginRequestInv,
     ResetExpiryInv, HandleSessionInv, SessionLogoutInv, SweepInv, DeleteExpiredInv, TimePassesInv
     DEF SessionsNext, SessionStep, Sweep
<1>2. CASE UNCHANGED sessionVars
  BY <1>2 DEF sessionVars, sweepVars, SessionIInv, SessionsTypeOK, CallsWellFormed, OneLogin,
              OneSession, DoomedHaveExpired, StoredSessions, ExpiredSessions, SessionsOf
<1> QED  BY <1>1, <1>2

LEMMA SessionInvariance == SessionsSpec => []SessionIInv
BY SessionInitInv, SessionNextInv, PTL DEF SessionsSpec

\* The store, the requests and the sweeper keep their types, and the first session starts
\* the sweeper (CreateSession, nextExpiration).
THEOREM SessionTypeCorrect == SessionsSpec => []SessionsTypeOK
BY SessionInvariance, PTL DEF SessionIInv

\* A user whose logins do not overlap never has two sessions, whatever the sweeper and the
\* user's other requests do between the steps of a login (Platformlogin).
THEOREM OneSessionCorrect == SessionsSpec => []SequentialUserHasOneSession
<1>1. SessionIInv => SequentialUserHasOneSession
  <2> SUFFICES ASSUME SessionIInv, NEW u \in sequentialUsers PROVE Cardinality(SessionsOf(u)) <= 1
    BY DEF SequentialUserHasOneSession
  <2>1. CASE SessionsOf(u) = {}
    BY <2>1, FS_EmptySet
  <2>2. CASE SessionsOf(u) # {}
    <3>1. PICK i \in SessionsOf(u) : SessionsOf(u) = {i}
      BY <2>2 DEF SessionIInv, OneSession
    <3>2. Cardinality({i}) = 1
      BY FS_Singleton, Zenon
    <3> QED  BY <3>1, <3>2
  <2> QED  BY <2>1, <2>2
<1> QED  BY SessionInvariance, <1>1, PTL

\* The sweeper deletes only sessions that had expired when it collected them, and of these
\* the stored ones that no request has refreshed since are still expired (startSweeper).
THEOREM SweepCorrect == SessionsSpec => []DoomedHaveExpired
BY SessionInvariance, PTL DEF SessionIInv
=============================================================================
