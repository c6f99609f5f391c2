------------------------------ MODULE UserFile ------------------------------
(***************************************************************************)
(* The file of one user: server/internal/models/persistentJsonData.go, as  *)
(* user.go creates and uses it.                                            *)
(*                                                                         *)
(* A login looks the user up in users.store; LoadOrStoreFn creates it      *)
(* under the store's lock if it is not there: the file is opened, locked   *)
(* and read into cachedRawData, then psmjSet makes each of the user's      *)
(* values from it, in the order of Generate.  A value that the file lacks  *)
(* gets its default and the file is written.  A change (WithReadWrite)     *)
(* holds the value's key lock from the change in memory until the file has *)
(* been written; every write encodes the whole of cachedRawData, after     *)
(* truncating the file.  A stop of the process, which nothing announces to *)
(* this code, leaves the file as it is.                                    *)
(*                                                                         *)
(* All the versions in the code are 0: what upgrades older data never      *)
(* runs, and is left out.                                                  *)
(***************************************************************************)
EXTENDS ServerConstants, Naturals, SequencesExt

CONSTANTS
  KeyOrder,   \* the names of the user's values, in the order Generate makes them
  Values,     \* what a value can be
  Default,    \* what Default() returns, one of Values
  Callers,    \* the requests of the user that can be in progress at once
  MaxStops    \* how often the server stops and starts again

Keys == Range(KeyOrder)

ASSUME FileAssumption ==
  /\ KeyOrder \in Seq(Keys)
  /\ Default \in Values
  /\ None \notin Values /\ None \notin Callers

VARIABLES
  disk,       \* the file: absent, empty (truncated or just created), or whole
  cache,      \* cachedRawData
  current,    \* currentData
  loaded,     \* whether users.store has the user
  loader,     \* the request that creates the user, under the lock of users.store
  keyLock,    \* per key: the request that holds currentDataLock for writing
  writer,     \* the request inside PersistentFile.WithWriter
  call,       \* the requests
  stops,      \* how often the server has stopped
  acked,      \* history, per key: what the last answered change, or login, left
  pending,    \* history, per key: what a change, or a login, has not answered yet
  cut         \* history: the server has stopped inside a write

memory == <<cache, current, loaded, loader, keyLock, writer, call>>
recorded == <<acked, pending>>
fileVars == <<disk, memory, stops, recorded, cut>>

CallSteps == {"idle", "open", "set", "truncate", "encode"}

\* A request: what it does, where it is, the value it changes, the values that a login
\* has still to make.
NoCall == [op |-> None, pc |-> "idle", key |-> None, rest |-> <<>>]

Nothing == [k \in Keys |-> None]

FileInit ==
  /\ disk = [state |-> "absent", data |-> Nothing]
  /\ cache = Nothing /\ current = Nothing
  /\ loaded = FALSE /\ loader = None
  /\ keyLock = [k \in Keys |-> None] /\ writer = None
  /\ call = [c \in Callers |-> NoCall]
  /\ stops = 0
  /\ acked = Nothing /\ pending = Nothing
  /\ cut = FALSE

IsAt(c, step) == call[c].pc = step

\* GetOrCreateUser: the user is not in the store, whose lock is free.
Login(c) ==
  /\ IsAt(c, "idle") /\ ~loaded /\ loader = None
  /\ loader' = c
  /\ call' = [call EXCEPT ![c] = [NoCall EXCEPT !.op = "login", !.pc = "open"]]
  /\ UNCHANGED <<disk, cache, current, loaded, keyLock, writer, stops, recorded, cut>>

\* NewPersistentStringMap: a file that does not exist is created and written first, one
\* that does is read.  One that cannot be read gives no map, which psmjSet then needs:
\* the request panics, and the deferred Unlock of users.store is all that it leaves.
Open(c) ==
  /\ IsAt(c, "open")
  /\ current' = Nothing
  /\ \/ /\ disk.state = "absent"
        /\ disk' = [disk EXCEPT !.state = "empty"]
        /\ cache' = Nothing
        /\ call' = [call EXCEPT ![c].pc = "truncate", ![c].rest = KeyOrder]
        /\ UNCHANGED loader
     \/ /\ disk.state = "whole"
        /\ cache' = disk.data
        /\ call' = [call EXCEPT ![c].pc = "set", ![c].rest = KeyOrder]
        /\ UNCHANGED <<disk, loader>>
     \/ /\ disk.state = "empty"
        /\ cache' = Nothing /\ loader' = None
        /\ call' = [call EXCEPT ![c] = NoCall]
        /\ UNCHANGED disk
  /\ UNCHANGED <<loaded, keyLock, writer, stops, recorded, cut>>

\* psmjSet for the next value: the one of the file, or the default, which is saved.
SetValue(c) ==
  /\ IsAt(c, "set") /\ call[c].rest # <<>>
  /\ LET k == Head(call[c].rest) IN
     IF cache[k] = None
     THEN /\ cache' = [cache EXCEPT ![k] = Default]
          /\ current' = [current EXCEPT ![k] = Default]
          /\ pending' = [pending EXCEPT ![k] = Default]
          /\ call' = [call EXCEPT ![c].rest = Tail(@), ![c].pc = "truncate"]
     ELSE /\ current' = [current EXCEPT ![k] = cache[k]]
          /\ call' = [call EXCEPT ![c].rest = Tail(@)]
          /\ UNCHANGED <<cache, pending>>
  /\ UNCHANGED <<disk, loaded, loader, keyLock, writer, stops, acked, cut>>

\* Generate has made every value, and the user enters the store.
StoreUser(c) ==
  /\ IsAt(c, "set") /\ call[c].rest = <<>>
  /\ loaded' = TRUE /\ loader' = None
  /\ call' = [call EXCEPT ![c] = NoCall]
  /\ acked' = current /\ pending' = Nothing
  /\ UNCHANGED <<disk, cache, current, keyLock, writer, stops, cut>>

\* Mutant: the file is written from what was read, as the cache is not kept up.
ChangeUncached(c, k, v) ==
  /\ IsAt(c, "idle") /\ loaded /\ keyLock[k] = None
  /\ keyLock' = [keyLock EXCEPT ![k] = c]
  /\ current' = [current EXCEPT ![k] = v]
  /\ pending' = [pending EXCEPT ![k] = v]
  /\ call' = [call EXCEPT ![c] = [op |-> "change", pc |-> "truncate", key |-> k, rest |-> <<>>]]
  /\ UNCHANGED <<disk, cache, loaded, loader, writer, stops, acked, cut>>

\* psmjWithReadWrite: under the key's lock the value changes, in memory and in the cache.
Change(c, k, v) ==
  /\ IsAt(c, "idle") /\ loaded /\ keyLock[k] = None
  /\ keyLock' = [keyLock EXCEPT ![k] = c]
  /\ current' = [current EXCEPT ![k] = v]
  /\ cache' = [cache EXCEPT ![k] = v]
  /\ pending' = [pending EXCEPT ![k] = v]
  /\ call' = [call EXCEPT ![c] = [op |-> "change", pc |-> "truncate", key |-> k, rest |-> <<>>]]
  /\ UNCHANGED <<disk, loaded, loader, writer, stops, acked, cut>>

\* The same when fn returns an error, or panics, having changed the value: the lock is
\* released, and what is in memory has not been saved.
ChangeFails(c, k, v) ==
  /\ IsAt(c, "idle") /\ loaded /\ keyLock[k] = None
  /\ current' = [current EXCEPT ![k] = v]
  /\ UNCHANGED <<disk, cache, loaded, loader, keyLock, writer, call, stops, recorded, cut>>

\* WithWriter: the file is truncated ...
Truncate(c) ==
  /\ IsAt(c, "truncate") /\ writer = None
  /\ writer' = c
  /\ disk' = [disk EXCEPT !.state = "empty"]
  /\ call' = [call EXCEPT ![c].pc = "encode"]
  /\ UNCHANGED <<cache, current, loaded, loader, keyLock, stops, recorded, cut>>

\* ... and the whole cache is written; a login goes on, a change is answered.
Encode(c) ==
  /\ IsAt(c, "encode")
  /\ disk' = [state |-> "whole", data |-> cache]
  /\ writer' = None
  /\ IF call[c].op = "login"
     THEN call' = [call EXCEPT ![c].pc = "set"] /\ UNCHANGED <<keyLock, recorded>>
     ELSE LET k == call[c].key IN
          /\ keyLock' = [keyLock EXCEPT ![k] = None]
          /\ acked' = [acked EXCEPT ![k] = pending[k]]
          /\ pending' = [pending EXCEPT ![k] = None]
          /\ call' = [call EXCEPT ![c] = NoCall]
  /\ UNCHANGED <<cache, current, loaded, loader, stops, cut>>

\* The server stops, however it does, and starts again with nothing but the file.
StopAndStart ==
  /\ stops < MaxStops
  /\ stops' = stops + 1
  /\ cut' = (cut \/ disk.state = "empty")
  /\ cache' = Nothing /\ current' = Nothing
  /\ loaded' = FALSE /\ loader' = None
  /\ keyLock' = [k \in Keys |-> None] /\ writer' = None
  /\ call' = [c \in Callers |-> NoCall]
  /\ UNCHANGED <<disk, recorded>>

FileNext ==
  \/ \E c \in Callers :
       \/ Login(c) \/ Open(c) \/ SetValue(c) \/ StoreUser(c)
       \/ \E k \in Keys, v \in Values : Change(c, k, v) \/ ChangeFails(c, k, v)
       \/ Truncate(c) \/ Encode(c)
  \/ StopAndStart

FileSpec == FileInit /\ [][FileNext]_fileVars

-----------------------------------------------------------------------------
Content == [Keys -> Values \cup {None}]

FileCall == [op : {"login", "change", None}, pc : CallSteps, key : Keys \cup {None},
             rest : Seq(Keys)]

\* The type invariant; a whole file and a loaded user lack no value once the user is in
\* the store.
FileTypeOK ==
  /\ disk \in [state : {"absent", "empty", "whole"}, data : Content]
  /\ cache \in Content /\ current \in Content
  /\ loaded \in BOOLEAN
  /\ loader \in Callers \cup {None} /\ writer \in Callers \cup {None}
  /\ keyLock \in [Keys -> Callers \cup {None}]
  /\ call \in [Callers -> FileCall]
  /\ acked \in Content /\ pending \in Content
  /\ cut \in BOOLEAN
  /\ loaded => \A k \in Keys : current[k] # None /\ cache[k] # None

\* What the file may hold of a value: what was answered last, or what is not answered yet.
Recorded(k) == {acked[k]} \cup ({pending[k]} \ {None})

\* What was answered is in the file: whatever the interleaving of two values' changes
\* and of a login's, a stop loses at most the changes that were not answered yet, unless
\* it hits the moment between the truncation and the write, when it loses all.
AnsweredIsSaved ==
  \/ disk.state = "whole" /\ \A k \in Keys : disk.data[k] \in Recorded(k)
  \/ disk.state = "absent" /\ acked = Nothing
  \/ disk.state = "empty" /\ (writer # None \/ loader # None \/ cut)

=============================================================================
