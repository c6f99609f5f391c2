----------------------- MODULE SafeOrderedMap_proofs -----------------------
(***************************************************************************)
(* The invariants of SafeOrderedMap, for any set of goroutines, keys and   *)
(* values.  They are proved together: what readers load is a whole map     *)
(* because keyMap is the inverse of keys when it is published, and nothing *)
(* is published or iterated over outside the lock.  The refinement of      *)
(* OrderedMap needs one more: m.data is never more than one entry away     *)
(* from the published version.                                             *)
(***************************************************************************)
EXTENDS SafeOrderedMap, OrderedKeysTheorems

\* Only the goroutine that holds m.lock is inside one of the map's write methods.
LockInv == \A t \in Threads : pc[t] # "idle" => lock = t

\* The inductive invariant.
IInv ==
  /\ TypeOK
  /\ LockInv
  /\ KeyMapIsInverse
  /\ ReadersSeeWholeMap
  /\ PublishedWhenReleased
  /\ IterationIsCurrent

-----------------------------------------------------------------------------
\* A published copy is whole when keyMap is the inverse of keys.
LEMMA InverseIsWhole ==
  ASSUME TypeOK, KeyMapIsInverse
  PROVE  /\ Range(keys) = DOMAIN internal
         /\ IsInjective(keys)
         /\ DOMAIN keys = 1..Len(keys) /\ Len(keys) \in Nat
<1>1. DOMAIN keys = 1..Len(keys) /\ Len(keys) \in Nat
  BY LenProperties DEF TypeOK, IsVersion
<1>2. Range(keys) = DOMAIN internal
  BY DEF KeyMapIsInverse, Range
<1>3. IsInjective(keys)
  BY <1>1 DEF KeyMapIsInverse, IsInjective
<1> QED  BY <1>1, <1>2, <1>3

LEMMA InitInv == Init => IInv
<1> SUFFICES ASSUME Init PROVE IInv
  OBVIOUS
<1> USE DEF Init, Snapshot
<1>1. internal \in [{} -> Values] /\ DOMAIN internal = {}
  OBVIOUS
<1>2. keyMap \in [{} -> Nat] /\ DOMAIN keyMap = {}
  OBVIOUS
<1>3. keys = <<>> /\ keys \in Seq(Keys) /\ DOMAIN keys = {}
  OBVIOUS
<1>4. TypeOK
  BY <1>1, <1>2, <1>3 DEF TypeOK, IsVersion
<1>5. KeyMapIsInverse
  BY <1>1, <1>2, <1>3 DEF KeyMapIsInverse
<1>6. ReadersSeeWholeMap
  BY <1>1, <1>3 DEF ReadersSeeWholeMap, Range, IsInjective
<1> QED  BY <1>4, <1>5, <1>6 DEF IInv, LockInv, PublishedWhenReleased, IterationIsCurrent

-----------------------------------------------------------------------------
\* The three ways store ends, whether it is called by Store or by IterAndStore: t is the
\* goroutine that holds the lock or takes it.
MayWrite(t) == lock = NoThread \/ (lock = t /\ pc[t] = "iterated")

LEMMA AddNewKeepsInverse ==
  ASSUME IInv, NEW t \in Threads, NEW k \in Keys, NEW v \in Values, AddNew(t, k, v)
  PROVE  /\ IsVersion(internal', keys')
         /\ keyMap' \in [DOMAIN keyMap' -> Nat]
         /\ KeyMapIsInverse'
<1>1. /\ DOMAIN keys = 1..Len(keys) /\ Len(keys) \in Nat
      /\ Range(keys) = DOMAIN internal
  BY InverseIsWhole DEF IInv
<1>2. /\ keys' \in Seq(Keys)
      /\ DOMAIN keys' = 1..Len(keys) + 1
      /\ \A i \in 1..Len(keys) : keys'[i] = keys[i]
      /\ keys'[Len(keys) + 1] = k
  BY <1>1 DEF IInv, TypeOK, IsVersion, AddNew
<1>3. /\ DOMAIN internal' = DOMAIN internal \cup {k}
      /\ internal' \in [DOMAIN internal' -> Values]
  <2>1. ASSUME NEW x \in DOMAIN internal \cup {k}
        PROVE  (IF x = k THEN v ELSE internal[x]) \in Values
    BY DEF IInv, TypeOK, IsVersion
  <2> QED  BY <2>1 DEF IInv, TypeOK, IsVersion, AddNew
<1>4. /\ DOMAIN keyMap' = DOMAIN keyMap \cup {k}
      /\ \A x \in DOMAIN keyMap' : keyMap'[x] = IF x = k THEN Len(keys) ELSE keyMap[x]
      /\ keyMap' \in [DOMAIN keyMap' -> Nat]
  <2>1. ASSUME NEW x \in DOMAIN keyMap \cup {k}
        PROVE  (IF x = k THEN Len(keys) ELSE keyMap[x]) \in Nat
    BY <1>1 DEF IInv, TypeOK
  <2> QED  BY <2>1 DEF AddNew
<1>5. k \notin DOMAIN keyMap /\ DOMAIN keyMap = DOMAIN internal
  BY DEF IInv, KeyMapIsInverse, AddNew
<1>6. KeyMapIsInverse'
  <2>1. ASSUME NEW x \in DOMAIN keyMap'
        PROVE  keyMap'[x] + 1 \in DOMAIN keys' /\ keys'[keyMap'[x] + 1] = x
    <3>1. CASE x = k
      BY <1>1, <1>2, <1>4, <3>1
    <3>2. CASE x # k
      <4>1. /\ x \in DOMAIN keyMap /\ keyMap'[x] = keyMap[x] /\ keyMap[x] \in Nat
            /\ keyMap[x] + 1 \in 1..Len(keys) /\ keys[keyMap[x] + 1] = x
        BY <1>1, <1>4, <3>2 DEF IInv, TypeOK, KeyMapIsInverse
      <4> QED  BY <1>1, <1>2, <4>1
    <3> QED  BY <3>1, <3>2
  <2>2. ASSUME NEW i \in DOMAIN keys'
        PROVE  keys'[i] \in DOMAIN keyMap' /\ keyMap'[keys'[i]] = i - 1
    <3>1. CASE i = Len(keys) + 1
      BY <1>1, <1>2, <1>4, <3>1
    <3>2. CASE i \in 1..Len(keys)
      <4>1. keys'[i] = keys[i] /\ keys[i] \in DOMAIN keyMap /\ keyMap[keys[i]] = i - 1
        BY <1>1, <1>2, <3>2 DEF IInv, KeyMapIsInverse
      <4> QED  BY <1>4, <1>5, <4>1
    <3> QED  BY <1>1, <1>2, <3>1, <3>2
  <2>3. DOMAIN keyMap' = DOMAIN internal'
    BY <1>3, <1>4, <1>5
  <2> QED  BY <2>1, <2>2, <2>3 DEF KeyMapIsInverse
<1> QED  BY <1>2, <1>3, <1>4, <1>6 DEF IsVersion, IInv, TypeOK

LEMMA StoreDataInv ==
  ASSUME IInv, NEW t \in Threads, NEW k \in Keys, NEW v \in Values,
         StoreData(t, k, v), MayWrite(t), UNCHANGED ro,
         iterated' = iterated \/ iterated' = [iterated EXCEPT ![t] = <<>>]
  PROVE  IInv'
<1> USE NoThreadAssumption
<1>1. /\ pc' \in [Threads -> {"idle", "iterated", "publish"}]
      /\ lock' \in {t, NoThread}
      /\ \A u \in Threads \ {t} : pc'[u] = "idle" /\ pc[u] = "idle"
      /\ pc[t] # "publish"
      /\ (pc'[t] = "publish" /\ lock' = t) \/ (pc'[t] = "idle" /\ UNCHANGED data)
  BY DEF IInv, TypeOK, LockInv, StoreData, AddNew, Overwrite, Refused, MayWrite
<1>2. /\ IsVersion(internal', keys')
      /\ keyMap' \in [DOMAIN keyMap' -> Nat]
      /\ KeyMapIsInverse'
  <2>1. CASE AddNew(t, k, v)
    BY <2>1, AddNewKeepsInverse
  <2>2. CASE Overwrite(t, k, v)
    <3>1. DOMAIN internal' = DOMAIN internal /\ internal' \in [DOMAIN internal -> Values]
      BY <2>2 DEF IInv, TypeOK, IsVersion, Overwrite
    <3> QED  BY <2>2, <3>1 DEF IInv, TypeOK, IsVersion, KeyMapIsInverse, Overwrite
  <2>3. CASE Refused(t, k)
    BY <2>3 DEF IInv, TypeOK, IsVersion, KeyMapIsInverse, Refused, data
  <2> QED  BY <2>1, <2>2, <2>3 DEF StoreData
<1>3. iterated' \in [Threads -> Seq(Keys)]
  <2>1. <<>> \in Seq(Keys)
    BY EmptySeq
  <2> QED  BY <2>1 DEF IInv, TypeOK
<1>4. TypeOK'
  BY <1>1, <1>2, <1>3 DEF IInv, TypeOK, IsVersion
<1>5. LockInv'
  BY <1>1 DEF IInv, LockInv
<1>6. ReadersSeeWholeMap'
  BY DEF IInv, ReadersSeeWholeMap
<1>7. PublishedWhenReleased'
  <2>1. ro = Snapshot
    BY <1>1 DEF IInv, PublishedWhenReleased
  <2> QED  BY <1>1, <2>1 DEF PublishedWhenReleased, Snapshot, data
<1>8. IterationIsCurrent'
  BY <1>1 DEF IterationIsCurrent
<1> QED  BY <1>2, <1>4, <1>5, <1>6, <1>7, <1>8 DEF IInv

LEMMA StoreInv ==
  ASSUME IInv, NEW t \in Threads, NEW k \in Keys, NEW v \in Values, Store(t, k, v)
  PROVE  IInv'
BY StoreDataInv DEF Store, MayWrite

LEMMA IterAndStoreStoreInv ==
  ASSUME IInv, NEW t \in Threads, NEW k \in Keys, NEW v \in Values,
         IterAndStoreStore(t, k, v)
  PROVE  IInv'
BY StoreDataInv DEF IterAndStoreStore, MayWrite, IInv, LockInv

LEMMA IterAndStoreIterInv ==
  ASSUME IInv, NEW t \in Threads, IterAndStoreIter(t)
  PROVE  IInv'
<1> USE NoThreadAssumption DEF IInv, IterAndStoreIter
<1>1. TypeOK'
  BY DEF TypeOK, IsVersion
<1>2. LockInv'
  BY DEF TypeOK, LockInv
<1>3. KeyMapIsInverse' /\ ReadersSeeWholeMap'
  BY DEF KeyMapIsInverse, ReadersSeeWholeMap
<1>4. PublishedWhenReleased'
  BY DEF TypeOK, PublishedWhenReleased, Snapshot
<1>5. IterationIsCurrent'
  BY DEF TypeOK, IterationIsCurrent
<1> QED  BY <1>1, <1>2, <1>3, <1>4, <1>5

LEMMA PublishInv ==
  ASSUME IInv, NEW t \in Threads, Publish(t)
  PROVE  IInv'
<1> USE NoThreadAssumption
<1>1. TypeOK'
  BY DEF IInv, Publish, TypeOK, IsVersion, Snapshot
<1>2. \A u \in Threads : pc'[u] = "idle"
  BY DEF IInv, Publish, TypeOK, LockInv
<1>3. LockInv' /\ IterationIsCurrent'
  BY <1>2 DEF LockInv, IterationIsCurrent
<1>4. KeyMapIsInverse'
  BY DEF IInv, Publish, KeyMapIsInverse
<1>5. ReadersSeeWholeMap'
  BY InverseIsWhole DEF IInv, Publish, ReadersSeeWholeMap, Snapshot
<1>6. PublishedWhenReleased'
  BY <1>2 DEF Publish, PublishedWhenReleased, Snapshot
<1> QED  BY <1>1, <1>3, <1>4, <1>5, <1>6 DEF IInv

\* Delete: the keys after the removed one move one place to the front, and Renumbered
\* takes one off the places of just those.
LEMMA DeleteKeepsInverse ==
  ASSUME IInv, NEW t \in Threads, NEW k \in Keys, Delete(t, k)
  PROVE  /\ IsVersion(internal', keys')
         /\ keyMap' \in [DOMAIN keyMap' -> Nat]
         /\ KeyMapIsInverse'
<1> DEFINE n == keyMap[k]
<1>1. /\ DOMAIN keys = 1..Len(keys) /\ Len(keys) \in Nat
      /\ keys \in Seq(Keys)
      /\ DOMAIN keyMap = DOMAIN internal
      /\ \A x \in DOMAIN keyMap :
           /\ keyMap[x] \in Nat /\ keyMap[x] + 1 \in 1..Len(keys)
           /\ keys[keyMap[x] + 1] = x
      /\ \A i \in 1..Len(keys) : keys[i] \in DOMAIN keyMap /\ keyMap[keys[i]] = i - 1
  BY InverseIsWhole DEF IInv, TypeOK, IsVersion, KeyMapIsInverse
<1>2. k \in DOMAIN keyMap /\ n \in Nat /\ n + 1 \in 1..Len(keys)
  BY <1>1 DEF Delete
<1>3. keys' = RemoveAt(keys, n + 1)
  BY DEF Delete
<1>4. /\ keys' \in Seq(Keys)
      /\ Len(keys') = Len(keys) - 1
      /\ DOMAIN keys' = 1..Len(keys) - 1
      /\ \A i \in 1..Len(keys) - 1 :
           keys'[i] = IF i < n + 1 THEN keys[i] ELSE keys[i + 1]
  <2> HIDE DEF n
  <2>1. /\ keys' \in Seq(Keys)
        /\ Len(keys') = Len(keys) - 1
        /\ \A i \in 1..Len(keys) - 1 :
             keys'[i] = IF i < n + 1 THEN keys[i] ELSE keys[i + 1]
    BY <1>1, <1>2, <1>3, RemoveAtProperties
  <2> QED  BY <2>1, LenProperties
<1>5. /\ DOMAIN internal' = DOMAIN internal \ {k}
      /\ internal' \in [DOMAIN internal' -> Values]
      /\ DOMAIN internal' \subseteq Keys
  BY DEF IInv, TypeOK, IsVersion, Delete
<1>6. /\ DOMAIN keyMap' = DOMAIN keyMap \ {k}
      /\ \A x \in DOMAIN keyMap' :
           keyMap'[x] = IF keyMap[x] > n THEN keyMap[x] - 1 ELSE keyMap[x]
  BY DEF Delete, Renumbered
<1>7. keyMap' = [x \in DOMAIN keyMap' |-> keyMap'[x]]
  BY DEF Delete, Renumbered
<1> HIDE DEF n
<1>8. keyMap' \in [DOMAIN keyMap' -> Nat]
  <2>1. \A x \in DOMAIN keyMap' : keyMap'[x] \in Nat
    BY <1>1, <1>2, <1>6
  <2> QED  BY <1>7, <2>1
<1>9. ASSUME NEW x \in DOMAIN keyMap'
      PROVE  keyMap'[x] + 1 \in DOMAIN keys' /\ keys'[keyMap'[x] + 1] = x
  <2>1. x \in DOMAIN keyMap /\ x # k
    BY <1>6
  <2>2. keyMap[x] \in Nat /\ keyMap[x] # n
    BY <1>1, <1>2, <2>1 DEF n
  <2>3. CASE keyMap[x] > n
    <3>1. keyMap'[x] = keyMap[x] - 1
      BY <1>6, <2>3
    <3>2. keyMap[x] \in 1..Len(keys) - 1 /\ keys'[keyMap[x]] = keys[keyMap[x] + 1]
      BY <1>1, <1>2, <1>4, <2>1, <2>2, <2>3
    <3> QED  BY <1>1, <1>4, <2>1, <2>2, <3>1, <3>2
  <2>4. CASE keyMap[x] < n
    <3>1. keyMap'[x] = keyMap[x]
      BY <1>2, <1>6, <2>2, <2>4
    <3>2. keyMap[x] + 1 \in 1..Len(keys) - 1 /\ keyMap[x] + 1 < n + 1
      BY <1>1, <1>2, <2>2, <2>4
    <3>3. keys'[keyMap[x] + 1] = keys[keyMap[x] + 1]
      BY <1>4, <3>2
    <3> QED  BY <1>1, <1>4, <2>1, <3>1, <3>2, <3>3
  <2> QED  BY <1>2, <2>2, <2>3, <2>4
<1>10. ASSUME NEW i \in DOMAIN keys'
       PROVE  keys'[i] \in DOMAIN keyMap' /\ keyMap'[keys'[i]] = i - 1
  <2>1. i \in 1..Len(keys) - 1
    BY <1>4
  <2>2. keyMap[k] = n
    BY DEF n
  <2>3. CASE i < n + 1
    <3>1. keys'[i] = keys[i] /\ keys[i] \in DOMAIN keyMap /\ keyMap[keys[i]] = i - 1
      BY <1>1, <1>4, <2>1, <2>3
    <3>2. keys[i] # k /\ ~(i - 1 > n)
      BY <1>2, <2>1, <2>2, <2>3, <3>1
    <3> QED  BY <1>6, <3>1, <3>2
  <2>4. CASE i > n
    <3>1. keys'[i] = keys[i + 1] /\ keys[i + 1] \in DOMAIN keyMap /\ keyMap[keys[i + 1]] = i
      BY <1>1, <1>2, <1>4, <2>1, <2>4
    <3>2. keys[i + 1] # k
      BY <1>2, <2>1, <2>2, <2>4, <3>1
    <3> QED  BY <1>6, <2>4, <3>1, <3>2
  <2> QED  BY <1>1, <1>2, <2>1, <2>3, <2>4
<1>11. KeyMapIsInverse'
  BY <1>1, <1>5, <1>6, <1>9, <1>10 DEF KeyMapIsInverse
<1> QED  BY <1>4, <1>5, <1>8, <1>11 DEF IsVersion

LEMMA DeleteInv ==
  ASSUME IInv, NEW t \in Threads, NEW k \in Keys, Delete(t, k)
  PROVE  IInv'
<1> USE NoThreadAssumption
<1>1. /\ IsVersion(internal', keys')
      /\ keyMap' \in [DOMAIN keyMap' -> Nat]
      /\ KeyMapIsInverse'
  BY DeleteKeepsInverse
<1>2. /\ lock' = t /\ pc' \in [Threads -> {"idle", "iterated", "publish"}]
      /\ pc'[t] = "publish"
      /\ \A u \in Threads \ {t} : pc'[u] = "idle"
      /\ UNCHANGED <<ro, iterated>>
  BY DEF IInv, TypeOK, LockInv, Delete
<1>3. TypeOK'
  BY <1>1, <1>2 DEF IInv, TypeOK, IsVersion
<1>4. LockInv' /\ IterationIsCurrent' /\ PublishedWhenReleased'
  BY <1>2 DEF LockInv, IterationIsCurrent, PublishedWhenReleased
<1>5. ReadersSeeWholeMap'
  BY <1>2 DEF IInv, ReadersSeeWholeMap
<1> QED  BY <1>1, <1>3, <1>4, <1>5 DEF IInv

-----------------------------------------------------------------------------
LEMMA NextInv == IInv /\ [Next]_vars => IInv'
<1> SUFFICES ASSUME IInv, [Next]_vars PROVE IInv'
  OBVIOUS
<1>1. CASE UNCHANGED vars
  BY <1>1 DEF vars, IInv, TypeOK, IsVersion, LockInv, KeyMapIsInverse, ReadersSeeWholeMap,
              PublishedWhenReleased, Snapshot, IterationIsCurrent
<1>2. ASSUME NEW t \in Threads, NEW k \in Keys, NEW v \in Values, Store(t, k, v)
      PROVE  IInv'
  BY <1>2, StoreInv
<1>3. ASSUME NEW t \in Threads, NEW k \in Keys, Delete(t, k)
      PROVE  IInv'
  BY <1>3, DeleteInv
<1>4. ASSUME NEW t \in Threads, IterAndStoreIter(t)
      PROVE  IInv'
  BY <1>4, IterAndStoreIterInv
<1>5. ASSUME NEW t \in Threads, NEW k \in Keys, NEW v \in Values, IterAndStoreStore(t, k, v)
      PROVE  IInv'
  BY <1>5, IterAndStoreStoreInv
<1>6. ASSUME NEW t \in Threads, Publish(t)
      PROVE  IInv'
  BY <1>6, PublishInv
<1> QED  BY <1>1, <1>2, <1>3, <1>4, <1>5, <1>6 DEF Next

LEMMA Invariance == Spec => []IInv
<1>1. Init => IInv
  BY InitInv
<1>2. IInv /\ [Next]_vars => IInv'
  BY NextInv
<1> QED  BY <1>1, <1>2, PTL DEF Spec

\* The state of the map, of its lock and of its callers keeps its type.
THEOREM TypeCorrect == Spec => []TypeOK
BY Invariance, PTL DEF IInv

\* store and Delete keep keyMap the inverse of keys, over the same keys as internal.
THEOREM KeyMapCorrect == Spec => []KeyMapIsInverse
BY Invariance, PTL DEF IInv

\* Every copy that Load, Keys, Values, Iter and First load is a whole map.
THEOREM ReadersCorrect == Spec => []ReadersSeeWholeMap
BY Invariance, PTL DEF IInv

\* A write that has returned is visible to every later read.
THEOREM PublishedCorrect == Spec => []PublishedWhenReleased
BY Invariance, PTL DEF IInv

\* IterAndStore stores into the version its fn has seen.
THEOREM IterationCorrect == Spec => []IterationIsCurrent
BY Invariance, PTL DEF IInv

-----------------------------------------------------------------------------
\* The refinement.  The entries fs follow es by one write of OrderedMap.
OneWrite(es, fs) ==
  \/ \E k \in Keys, v \in Values : k \notin Abstract!KeysOf(es) /\ fs = Append(es, <<k, v>>)
  \/ \E i \in DOMAIN es, v \in Values : fs = [es EXCEPT ![i] = <<@[1], v>>]
  \/ \E i \in DOMAIN es : fs = RemoveAt(es, i)

\* What a writer is about to publish is one write away from what readers load.
PendingIsOneWrite ==
  \A t \in Threads : pc[t] = "publish" => OneWrite(EntriesOf(ro), EntriesOf(Snapshot))

\* The entries of a whole version are a sequence with one entry per place of its keys.
LEMMA EntriesProperties ==
  ASSUME NEW n, NEW ks, IsVersion(n, ks), Range(ks) = DOMAIN n
  PROVE  LET es == EntriesOf([internal |-> n, keys |-> ks]) IN
         /\ es \in Seq(Keys \X Values)
         /\ Len(es) = Len(ks)
         /\ DOMAIN es = 1..Len(ks)
         /\ \A i \in 1..Len(ks) : ks[i] \in DOMAIN n /\ es[i] = <<ks[i], n[ks[i]]>>
<1> DEFINE es == EntriesOf([internal |-> n, keys |-> ks])
<1>1. DOMAIN ks = 1..Len(ks) /\ Len(ks) \in Nat
  BY LenProperties DEF IsVersion
<1>2. \A i \in 1..Len(ks) : ks[i] \in DOMAIN n /\ ks[i] \in Keys /\ n[ks[i]] \in Values
  BY <1>1 DEF IsVersion, Range
<1>3. es = [i \in 1..Len(ks) |-> <<ks[i], n[ks[i]]>>]
  BY <1>1 DEF EntriesOf
<1>4. es \in [1..Len(ks) -> Keys \X Values]
  BY <1>2, <1>3
<1>5. es \in Seq(Keys \X Values) /\ Len(es) = Len(ks)
  BY <1>1, <1>4
<1> QED  BY <1>2, <1>3, <1>5

\* m.data is a whole version before and after every step.
LEMMA DataIsWhole ==
  /\ IInv => IsVersion(internal, keys) /\ Range(keys) = DOMAIN internal
  /\ IInv' => IsVersion(internal, keys)' /\ Range(keys)' = DOMAIN internal'
BY DEF IInv, TypeOK, IsVersion, KeyMapIsInverse, Range

\* A new key is appended to the entries.
LEMMA AddNewIsOneWrite ==
  ASSUME IInv, IInv', NEW t \in Threads, NEW k \in Keys, NEW v \in Values, AddNew(t, k, v)
  PROVE  OneWrite(EntriesOf(Snapshot), EntriesOf(Snapshot)')
<1> DEFINE es == EntriesOf(Snapshot)
           fs == EntriesOf(Snapshot)'
<1>1. /\ es \in Seq(Keys \X Values) /\ Len(es) = Len(keys) /\ DOMAIN es = 1..Len(keys)
      /\ \A i \in 1..Len(keys) :
           keys[i] \in DOMAIN internal /\ es[i] = <<keys[i], internal[keys[i]]>>
  BY EntriesProperties, DataIsWhole DEF Snapshot
<1>2. /\ fs \in Seq(Keys \X Values) /\ Len(fs) = Len(keys')
      /\ \A i \in 1..Len(keys') : fs[i] = <<keys'[i], internal'[keys'[i]]>>
  BY EntriesProperties, DataIsWhole DEF Snapshot
<1>3. /\ Len(keys) \in Nat /\ Len(keys') = Len(keys) + 1
      /\ \A i \in 1..Len(keys) : keys'[i] = keys[i]
      /\ keys'[Len(keys) + 1] = k
  BY LenProperties, AppendProperties DEF IInv, TypeOK, IsVersion, AddNew
<1>4. /\ k \notin DOMAIN internal
      /\ internal'[k] = v
      /\ \A x \in DOMAIN internal : internal'[x] = internal[x]
  BY DEF AddNew
<1>5. k \notin Abstract!KeysOf(es)
  BY <1>1, <1>4 DEF Abstract!KeysOf
<1> DEFINE gs == Append(es, <<k, v>>)
<1>6. /\ gs \in Seq(Keys \X Values) /\ Len(gs) = Len(keys) + 1
      /\ \A i \in 1..Len(keys) : gs[i] = es[i]
      /\ gs[Len(keys) + 1] = <<k, v>>
  <2> HIDE DEF es
  <2> QED  BY <1>1, AppendProperties
<1>7. \A i \in 1..Len(keys) + 1 : fs[i] = gs[i]
  <2> HIDE DEF es, fs, gs
  <2> QED  BY <1>1, <1>2, <1>3, <1>4, <1>6
<1>8. fs = gs
  <2> HIDE DEF es, fs, gs
  <2> QED  BY <1>2, <1>3, <1>6, <1>7, SeqEqual
<1> QED  BY <1>5, <1>8 DEF OneWrite

\* A new value replaces that of the key's entry.
LEMMA OverwriteIsOneWrite ==
  ASSUME IInv, IInv', NEW t \in Threads, NEW k \in Keys, NEW v \in Values, Overwrite(t, k, v)
  PROVE  OneWrite(EntriesOf(Snapshot), EntriesOf(Snapshot)')
<1> DEFINE es == EntriesOf(Snapshot)
           fs == EntriesOf(Snapshot)'
           p == keyMap[k] + 1
<1>1. /\ es \in Seq(Keys \X Values) /\ Len(es) = Len(keys) /\ DOMAIN es = 1..Len(keys)
      /\ \A i \in 1..Len(keys) :
           keys[i] \in DOMAIN internal /\ es[i] = <<keys[i], internal[keys[i]]>>
  BY EntriesProperties, DataIsWhole DEF Snapshot
<1>2. /\ fs \in Seq(Keys \X Values) /\ Len(fs) = Len(keys)
      /\ \A i \in 1..Len(keys) : fs[i] = <<keys[i], internal'[keys[i]]>>
  <2>1. keys' = keys
    BY DEF Overwrite
  <2>2. IsVersion(internal', keys) /\ Range(keys) = DOMAIN internal'
    BY <2>1, DataIsWhole
  <2>3. fs = EntriesOf([internal |-> internal', keys |-> keys])
    BY <2>1 DEF Snapshot
  <2> QED  BY <2>2, <2>3, EntriesProperties
<1>3. /\ DOMAIN keys = 1..Len(keys)
      /\ p \in 1..Len(keys) /\ keys[p] = k
      /\ \A i \in 1..Len(keys) : keys[i] = k => i = p
  BY InverseIsWhole DEF IInv, TypeOK, KeyMapIsInverse, Overwrite
<1>4. \A x \in DOMAIN internal : internal'[x] = IF x = k THEN v ELSE internal[x]
  BY DEF Overwrite
<1> HIDE DEF es, fs, p
<1> DEFINE gs == [es EXCEPT ![p] = <<k, v>>]
<1>5. /\ gs \in Seq(Keys \X Values) /\ Len(gs) = Len(keys)
      /\ \A i \in 1..Len(keys) : gs[i] = IF i = p THEN <<k, v>> ELSE es[i]
  BY <1>1, <1>3, ExceptSeq
<1>6. \A i \in 1..Len(keys) : fs[i] = gs[i]
  <2> HIDE DEF gs
  <2> SUFFICES ASSUME NEW i \in 1..Len(keys) PROVE fs[i] = gs[i]
    OBVIOUS
  <2>1. CASE i = p
    BY <1>1, <1>2, <1>3, <1>4, <1>5, <2>1
  <2>2. CASE i # p
    <3>1. keys[i] \in DOMAIN internal /\ keys[i] # k
      BY <1>1, <1>3, <2>2
    <3>2. internal'[keys[i]] = internal[keys[i]] /\ gs[i] = es[i]
      BY <1>4, <1>5, <2>2, <3>1
    <3> QED  BY <1>1, <1>2, <3>2
  <2> QED  BY <2>1, <2>2
<1>7. fs = gs
  <2> HIDE DEF gs
  <2> QED  BY <1>2, <1>5, <1>6, SeqEqual
<1>8. es[p][1] = k
  BY <1>1, <1>3
<1>9. fs = [es EXCEPT ![p] = <<@[1], v>>]
  BY <1>7, <1>8
<1> QED  BY <1>1, <1>3, <1>9 DEF OneWrite, es, fs

\* The entry of a deleted key is removed.
LEMMA DeleteIsOneWrite ==
  ASSUME IInv, IInv', NEW t \in Threads, NEW k \in Keys, Delete(t, k)
  PROVE  OneWrite(EntriesOf(Snapshot), EntriesOf(Snapshot)')
<1> DEFINE es == EntriesOf(Snapshot)
           fs == EntriesOf(Snapshot)'
           p == keyMap[k] + 1
<1>1. /\ es \in Seq(Keys \X Values) /\ Len(es) = Len(keys) /\ DOMAIN es = 1..Len(keys)
      /\ \A i \in 1..Len(keys) : es[i] = <<keys[i], internal[keys[i]]>>
  BY EntriesProperties, DataIsWhole DEF Snapshot
<1>2. /\ fs \in Seq(Keys \X Values) /\ Len(fs) = Len(keys')
      /\ \A i \in 1..Len(keys') :
           keys'[i] \in DOMAIN internal' /\ fs[i] = <<keys'[i], internal'[keys'[i]]>>
  BY EntriesProperties, DataIsWhole DEF Snapshot
<1>3. keys \in Seq(Keys) /\ Len(keys) \in Nat /\ p \in 1..Len(keys)
  BY InverseIsWhole DEF IInv, TypeOK, IsVersion, KeyMapIsInverse, Delete
<1>4. keys' = RemoveAt(keys, p) /\ \A x \in DOMAIN internal' : internal'[x] = internal[x]
  BY DEF Delete
<1> HIDE DEF es, fs, p
<1>5. /\ Len(keys') = Len(keys) - 1
      /\ \A i \in 1..Len(keys) - 1 : keys'[i] = IF i < p THEN keys[i] ELSE keys[i + 1]
  BY <1>3, <1>4, RemoveAtProperties
<1> DEFINE gs == RemoveAt(es, p)
<1>6. /\ gs \in Seq(Keys \X Values) /\ Len(gs) = Len(keys) - 1
      /\ \A i \in 1..Len(keys) - 1 : gs[i] = IF i < p THEN es[i] ELSE es[i + 1]
  <2>1. p \in 1..Len(es)
    BY <1>1, <1>3
  <2> QED  BY <1>1, <2>1, RemoveAtProperties
<1> HIDE DEF gs
<1>7. ASSUME NEW i \in 1..Len(keys) - 1 PROVE fs[i] = gs[i]
  <2>1. fs[i] = <<keys'[i], internal[keys'[i]]>>
    BY <1>2, <1>4, <1>5
  <2>2. CASE i < p
    <3>1. i \in 1..Len(keys) /\ keys'[i] = keys[i] /\ gs[i] = es[i]
      BY <1>3, <1>5, <1>6, <2>2
    <3> QED  BY <1>1, <2>1, <3>1
  <2>3. CASE ~(i < p)
    <3>1. i + 1 \in 1..Len(keys) /\ keys'[i] = keys[i + 1] /\ gs[i] = es[i + 1]
      BY <1>3, <1>5, <1>6, <2>3
    <3> QED  BY <1>1, <2>1, <3>1
  <2> QED  BY <2>2, <2>3
<1>8. fs = gs
  BY <1>2, <1>5, <1>6, <1>7, SeqEqual
<1> QED  BY <1>1, <1>3, <1>8 DEF OneWrite, es, fs, gs

LEMMA StoreDataPending ==
  ASSUME IInv, IInv', NEW t \in Threads, NEW k \in Keys, NEW v \in Values,
         StoreData(t, k, v), MayWrite(t), UNCHANGED ro
  PROVE  PendingIsOneWrite'
<1>1. ro' = Snapshot
  BY NoThreadAssumption DEF IInv, TypeOK, LockInv, PublishedWhenReleased, MayWrite
<1>2. CASE Refused(t, k)
  BY <1>2, NoThreadAssumption DEF IInv, TypeOK, LockInv, MayWrite, Refused, PendingIsOneWrite
<1>3. CASE AddNew(t, k, v)
  BY <1>1, <1>3, AddNewIsOneWrite DEF PendingIsOneWrite, EntriesOf
<1>4. CASE Overwrite(t, k, v)
  BY <1>1, <1>4, OverwriteIsOneWrite DEF PendingIsOneWrite, EntriesOf
<1> QED  BY <1>2, <1>3, <1>4 DEF StoreData

LEMMA DeletePending ==
  ASSUME IInv, IInv', NEW t \in Threads, NEW k \in Keys, Delete(t, k)
  PROVE  PendingIsOneWrite'
<1>1. ro' = Snapshot
  BY NoThreadAssumption DEF IInv, TypeOK, LockInv, PublishedWhenReleased, Delete
<1> QED  BY <1>1, DeleteIsOneWrite DEF PendingIsOneWrite, EntriesOf

LEMMA PublishRefines ==
  ASSUME IInv, PendingIsOneWrite, NEW t \in Threads, Publish(t)
  PROVE  Abstract!Next /\ PendingIsOneWrite'
<1>1. OneWrite(EntriesOf(ro), EntriesOf(Snapshot))
  BY DEF PendingIsOneWrite, Publish
<1>2. EntriesOf(ro)' = EntriesOf(Snapshot)
  <2>1. ro' = Snapshot
    BY DEF Publish
  <2> QED  BY <2>1 DEF EntriesOf
<1>3. Abstract!Next
  BY <1>1, <1>2
     DEF OneWrite, Abstract!Next, Abstract!AddEntry, Abstract!ReplaceEntry,
         Abstract!RemoveEntry, Abstract!RemoveAt, RemoveAt
<1>4. PendingIsOneWrite'
  BY NoThreadAssumption DEF IInv, TypeOK, LockInv, Publish, PendingIsOneWrite
<1> QED  BY <1>3, <1>4

LEMMA StepRefines ==
  IInv /\ PendingIsOneWrite /\ [Next]_vars
    => [Abstract!Next]_(EntriesOf(ro)) /\ PendingIsOneWrite'
<1> SUFFICES ASSUME IInv, PendingIsOneWrite, [Next]_vars
             PROVE  [Abstract!Next]_(EntriesOf(ro)) /\ PendingIsOneWrite'
  OBVIOUS
<1>1. IInv'
  BY NextInv
<1>2. ASSUME ro' = ro PROVE UNCHANGED EntriesOf(ro)
  BY <1>2 DEF EntriesOf
<1>3. CASE UNCHANGED vars
  BY <1>2, <1>3 DEF vars, PendingIsOneWrite, EntriesOf, Snapshot
<1>4. ASSUME NEW t \in Threads, NEW k \in Keys, NEW v \in Values,
             Store(t, k, v) \/ IterAndStoreStore(t, k, v)
      PROVE  UNCHANGED ro /\ PendingIsOneWrite'
  BY <1>1, <1>4, StoreDataPending DEF Store, IterAndStoreStore, MayWrite, IInv, LockInv
<1>5. ASSUME NEW t \in Threads, NEW k \in Keys, Delete(t, k)
      PROVE  UNCHANGED ro /\ PendingIsOneWrite'
  BY <1>1, <1>5, DeletePending DEF Delete
<1>6. ASSUME NEW t \in Threads, IterAndStoreIter(t)
      PROVE  UNCHANGED ro /\ PendingIsOneWrite'
  <2>1. \A u \in Threads : pc'[u] # "publish"
    BY <1>6, NoThreadAssumption DEF IterAndStoreIter, IInv, TypeOK, LockInv
  <2> QED  BY <1>6, <2>1 DEF IterAndStoreIter, PendingIsOneWrite
<1>7. ASSUME NEW t \in Threads, Publish(t)
      PROVE  Abstract!Next /\ PendingIsOneWrite'
  BY <1>7, PublishRefines
<1> QED  BY <1>2, <1>3, <1>4, <1>5, <1>6, <1>7 DEF Next

\* Whatever the goroutines do, the versions readers load are those of OrderedMap: each one
\* follows the last by adding, replacing or removing one entry, the others in their order.
THEOREM ImplementsOrderedMap == Spec => RefinesOrderedMap
<1>1. Init => Abstract!Init /\ PendingIsOneWrite
  BY DEF Init, Snapshot, Abstract!Init, EntriesOf, PendingIsOneWrite
<1>2. IInv /\ PendingIsOneWrite /\ [Next]_vars
        => [Abstract!Next]_(EntriesOf(ro)) /\ PendingIsOneWrite'
  BY StepRefines
<1> QED  BY <1>1, <1>2, Invariance, PTL DEF Spec, RefinesOrderedMap, Abstract!Spec
=============================================================================
