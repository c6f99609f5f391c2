--------------------------- MODULE SafeOrderedMap ---------------------------
(***************************************************************************)
(* SafeOrderedMap of server/internal/Map.go: a map that remembers the      *)
(* order of insertion.  Writers work on m.data under m.lock and publish a  *)
(* copy in m.ro; readers (Load, Len, Keys, Values, Iter, First) only load  *)
(* m.ro and take no lock.  m.data holds the values (internal), the order   *)
(* (keys) and the place of each key in it (keyMap, 0-based as in Go).      *)
(*                                                                         *)
(* A write is two steps, because a reader can run between them: the change *)
(* of m.data, and the atomic store of the copy by updateReadOnly.          *)
(***************************************************************************)
EXTENDS OrderedKeys

CONSTANTS
  Threads,   \* the goroutines that call the map
  Keys, Values,
  NoThread

ASSUME NoThreadAssumption == NoThread \notin Threads

VARIABLES
  internal,  \* m.data.internal: a function from the stored keys to their values
  keys,      \* m.data.keys
  keyMap,    \* m.data.keyMap
  ro,        \* the copy readers load
  lock,      \* the goroutine that holds m.lock
  pc,        \* per goroutine: "idle", "iterated" (inside IterAndStore), "publish"
  iterated   \* per goroutine: the keys IterAndStore's fn was given

vars == <<internal, keys, keyMap, ro, lock, pc, iterated>>

data == <<internal, keys, keyMap>>

Snapshot == [internal |-> internal, keys |-> keys]

Init ==
  /\ internal = [k \in {} |-> NoThread]
  /\ keys = <<>>
  /\ keyMap = [k \in {} |-> 0]
  /\ ro = Snapshot
  /\ lock = NoThread
  /\ pc = [t \in Threads |-> "idle"]
  /\ iterated = [t \in Threads |-> <<>>]

\* store, on m.data: what changes is published by a later step of t.
AddNew(t, k, v) ==
  /\ k \notin DOMAIN internal
  /\ keyMap' = [x \in DOMAIN keyMap \cup {k} |-> IF x = k THEN Len(keys) ELSE keyMap[x]]
  /\ keys' = Append(keys, k)
  /\ internal' = [x \in DOMAIN internal \cup {k} |-> IF x = k THEN v ELSE internal[x]]
  /\ lock' = t
  /\ pc' = [pc EXCEPT ![t] = "publish"]

Overwrite(t, k, v) ==
  /\ k \in DOMAIN internal
  /\ internal' = [internal EXCEPT ![k] = v]
  /\ lock' = t
  /\ pc' = [pc EXCEPT ![t] = "publish"]
  /\ UNCHANGED <<keys, keyMap>>

\* replace returned false: nothing to publish, the lock is released at once.
Refused(t, k) ==
  /\ k \in DOMAIN internal
  /\ lock' = NoThread
  /\ pc' = [pc EXCEPT ![t] = "idle"]
  /\ UNCHANGED data

StoreData(t, k, v) == AddNew(t, k, v) \/ Overwrite(t, k, v) \/ Refused(t, k)

Store(t, k, v) ==
  /\ pc[t] = "idle"
  /\ lock = NoThread
  /\ StoreData(t, k, v)
  /\ UNCHANGED <<ro, iterated>>

\* Mutants: Delete renumbers one key too few, or every key.
RenumberedOneTooFew(index, removed) ==
  [x \in DOMAIN keyMap \ {removed} |->
     IF keyMap[x] > index + 1 THEN keyMap[x] - 1 ELSE keyMap[x]]

Renumbered(index, removed) ==
  [x \in DOMAIN keyMap \ {removed} |->
     IF keyMap[x] > index THEN keyMap[x] - 1 ELSE keyMap[x]]

\* Mutant: the last key takes the place of the removed one.
DeleteBySwap(t, k) ==
  /\ pc[t] = "idle"
  /\ lock = NoThread
  /\ k \in DOMAIN internal
  /\ keys' = Front(ReplaceAt(keys, keyMap[k] + 1, Last(keys)))
  /\ internal' = [x \in DOMAIN internal \ {k} |-> internal[x]]
  /\ keyMap' = [x \in DOMAIN keyMap \ {k} |->
                  IF x = Last(keys) THEN keyMap[k] ELSE keyMap[x]]
  /\ lock' = t
  /\ pc' = [pc EXCEPT ![t] = "publish"]
  /\ UNCHANGED <<ro, iterated>>

Delete(t, k) ==
  /\ pc[t] = "idle"
  /\ lock = NoThread
  /\ k \in DOMAIN internal
  /\ keys' = RemoveAt(keys, keyMap[k] + 1)
  /\ internal' = [x \in DOMAIN internal \ {k} |-> internal[x]]
  /\ keyMap' = Renumbered(keyMap[k], k)
  /\ lock' = t
  /\ pc' = [pc EXCEPT ![t] = "publish"]
  /\ UNCHANGED <<ro, iterated>>

\* IterAndStore runs fn on m.data before it stores, without releasing the lock.
IterAndStoreIter(t) ==
  /\ pc[t] = "idle"
  /\ lock = NoThread
  /\ lock' = t
  /\ iterated' = [iterated EXCEPT ![t] = keys]
  /\ pc' = [pc EXCEPT ![t] = "iterated"]
  /\ UNCHANGED <<internal, keys, keyMap, ro>>

IterAndStoreStore(t, k, v) ==
  /\ pc[t] = "iterated"
  /\ StoreData(t, k, v)
  /\ iterated' = [iterated EXCEPT ![t] = <<>>]
  /\ UNCHANGED ro

\* Mutant: only the values are copied.
PublishValues(t) ==
  /\ pc[t] = "publish"
  /\ ro' = [ro EXCEPT !.internal = internal]
  /\ lock' = NoThread
  /\ pc' = [pc EXCEPT ![t] = "idle"]
  /\ UNCHANGED <<internal, keys, keyMap, iterated>>

\* updateReadOnly, and the deferred Unlock.
Publish(t) ==
  /\ pc[t] = "publish"
  /\ ro' = Snapshot
  /\ lock' = NoThread
  /\ pc' = [pc EXCEPT ![t] = "idle"]
  /\ UNCHANGED <<internal, keys, keyMap, iterated>>

Next ==
  \E t \in Threads :
    \/ \E k \in Keys, v \in Values : Store(t, k, v)
    \/ \E k \in Keys : Delete(t, k)
    \/ IterAndStoreIter(t)
    \/ \E k \in Keys, v \in Values : IterAndStoreStore(t, k, v)
    \/ Publish(t)

Spec == Init /\ [][Next]_vars

-----------------------------------------------------------------------------
IsVersion(internalOf, keysOf) ==
  /\ DOMAIN internalOf \subseteq Keys
  /\ internalOf \in [DOMAIN internalOf -> Values]
  /\ keysOf \in Seq(Keys)

\* The type invariant of the map, its lock and its callers.
TypeOK ==
  /\ IsVersion(internal, keys)
  /\ keyMap \in [DOMAIN keyMap -> Nat]
  /\ ro = [internal |-> ro.internal, keys |-> ro.keys]
  /\ IsVersion(ro.internal, ro.keys)
  /\ lock \in Threads \cup {NoThread}
  /\ pc \in [Threads -> {"idle", "iterated", "publish"}]
  /\ iterated \in [Threads -> Seq(Keys)]

\* The three structures of m.data describe one map: the keys that have a value are
\* those that have a place, and keyMap is the inverse of keys (store appends at
\* len(keys), Delete renumbers the keys after the one it removes).
KeyMapIsInverse ==
  /\ DOMAIN keyMap = DOMAIN internal
  /\ \A k \in DOMAIN keyMap : keyMap[k] + 1 \in DOMAIN keys /\ keys[keyMap[k] + 1] = k
  /\ \A i \in DOMAIN keys : keys[i] \in DOMAIN keyMap /\ keyMap[keys[i]] = i - 1

\* What a reader loads is always a whole map: every key it iterates over has a
\* value and is met once, so the length returned with an iterator is the number of
\* entries the iterator yields (EncodePeers indexes a slice of that length).
ReadersSeeWholeMap ==
  /\ Range(ro.keys) = DOMAIN ro.internal
  /\ IsInjective(ro.keys)

\* Once no write is in progress, readers see every write that has returned.
PublishedWhenReleased ==
  /\ (\A t \in Threads : pc[t] # "publish") => ro = Snapshot
  /\ lock = NoThread => \A t \in Threads : pc[t] = "idle"

\* IterAndStore's fn and its store act on the same version: a chat member who joins
\* is shown to exactly the members who joined before (chatChannel.go AddUser).
IterationIsCurrent ==
  \A t \in Threads : pc[t] = "iterated" => iterated[t] = keys

\* The entries of a version, in order, as Iter yields them.
EntriesOf(version) ==
  [i \in DOMAIN version.keys |-> <<version.keys[i], version.internal[version.keys[i]]>>]

\* The map implements OrderedMap: the versions readers can load follow one another
\* as its entries do.
Abstract == INSTANCE OrderedMap WITH entries <- EntriesOf(ro)
RefinesOrderedMap == Abstract!Spec

=============================================================================
