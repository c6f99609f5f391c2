------------------------ MODULE ServerState_proofs --------------------------
(*****************************************************************************)
(* The parts of the server's state that no request changes together: of each, *)
(* types, and what TLC checks of it on a small instance, for any values of the *)
(* constants.                                                                *)
(*****************************************************************************)
EXTENDS UserFile, Authentication, Items, Labyrinth, Gauntlet, Match, Lobby, Chat, Presence,
        OrderedKeysTheorems, SequenceTheorems, FiniteSetTheorems, TLAPS


-----------------------------------------------------------------------------
\* What was answered is in the user's file, unless the server stopped between a
\* truncation and its write.

FileBusy(c) == call[c].pc # "idle"

\* A login runs under the lock of users.store, a change under that of its key, and a write
\* is that of the request that truncated the file.
FileCallsInv ==
  /\ \A c \in Callers :
       /\ loader = c <=> FileBusy(c) /\ call[c].op = "login"
       /\ FileBusy(c) => call[c].op \in {"login", "change"}
       /\ call[c].op = "change" /\ FileBusy(c) =>
            /\ loaded /\ call[c].pc \in {"truncate", "encode"}
            /\ call[c].key \in Keys /\ keyLock[call[c].key] = c
       /\ writer = c <=> call[c].pc = "encode"
  /\ \A k \in Keys, c \in Callers :
       keyLock[k] = c => FileBusy(c) /\ call[c].op = "change" /\ call[c].key = k
  /\ loaded => loader = None

\* The file is whole between the writes to a user that is loaded; without a user it is empty
\* only after a stop inside a write.
FileDiskInv ==
  /\ loaded /\ writer = None => disk.state = "whole"
  /\ ~loaded /\ loader = None /\ disk.state = "empty" => cut

\* The login in progress has made the values that come before the rest from the cache, and
\* between its writes the file holds the cache.
FileLoginInv ==
  loader # None =>
    LET c == loader IN
    /\ call[c].pc = "open" /\ disk.state = "empty" => cut
    /\ call[c].pc # "open" =>
         /\ disk.state # "absent"
         /\ \A k \in Keys \ Range(call[c].rest) : current[k] = cache[k] /\ cache[k] # None
         /\ \A k \in Keys : cache[k] \in Recorded(k)
    /\ call[c].pc = "set" => disk = [state |-> "whole", data |-> cache]

\* The cache has what was answered, and of a value that is being changed what is not answered.
FileLoadedInv ==
  loaded => \A k \in Keys :
    IF keyLock[k] = None THEN cache[k] = acked[k] /\ pending[k] = None
    ELSE cache[k] = pending[k] /\ pending[k] # None

FileIInv ==
  /\ FileTypeOK /\ FileCallsInv /\ FileDiskInv
  /\ FileLoginInv /\ FileLoadedInv /\ AnsweredIsSaved

-----------------------------------------------------------------------------
LEMMA NothingType == Nothing \in Content /\ NoCall \in FileCall
BY DEF Nothing, Content, NoCall, CallSteps, FileCall

LEMMA FileInitInv == FileInit => FileIInv
<1> SUFFICES ASSUME FileInit PROVE FileIInv
  OBVIOUS
<1>1. Nothing \in Content /\ NoCall \in FileCall
  BY NothingType
<1>2. FileTypeOK
  BY <1>1 DEF FileInit, FileTypeOK
<1>3. FileCallsInv
  BY FileAssumption DEF FileInit, FileCallsInv, FileBusy, NoCall
<1>4. FileDiskInv /\ FileLoginInv /\ FileLoadedInv /\ AnsweredIsSaved
  BY DEF FileInit, FileDiskInv, FileLoginInv, FileLoadedInv, AnsweredIsSaved
<1> QED  BY <1>2, <1>3, <1>4 DEF FileIInv

LEMMA FileLoginStep ==
  ASSUME FileIInv, NEW c \in Callers, Login(c)
  PROVE  FileIInv'
<1>0. \A d \in Callers : ~FileBusy(d)
  BY FileAssumption DEF Login, recorded, FileIInv, FileCallsInv, FileBusy
<1>1. FileTypeOK'
  <2>1. [NoCall EXCEPT !.op = "login", !.pc = "open"] \in FileCall
    BY NothingType DEF CallSteps, FileCall
  <2>2. call' \in [Callers -> FileCall] /\ loader' \in Callers \cup {None}
    BY <2>1 DEF Login, recorded, FileIInv, FileTypeOK
  <2> QED  BY <2>2 DEF Login, recorded, FileIInv, FileTypeOK
<1>2. FileCallsInv'
  BY <1>0, FileAssumption DEF Login, recorded, NoCall, IsAt, FileIInv, FileTypeOK, FileCallsInv,
     FileBusy
<1>3. FileDiskInv' /\ FileLoginInv' /\ FileLoadedInv'
  BY <1>0, FileAssumption
     DEF Login, recorded, NoCall, FileIInv, FileTypeOK, FileDiskInv, FileLoginInv, FileLoadedInv
<1>4. AnsweredIsSaved'
  BY FileAssumption DEF Login, recorded, FileIInv, AnsweredIsSaved, Recorded
<1> QED  BY <1>1, <1>2, <1>3, <1>4 DEF FileIInv

\* The next of the values that are still to be made.
LEMMA FileRestStep ==
  ASSUME NEW rest \in Seq(Keys), rest # <<>>
  PROVE  /\ Head(rest) \in Keys /\ Tail(rest) \in Seq(Keys)
         /\ \A k \in Keys \ Range(Tail(rest)) : k = Head(rest) \/ k \notin Range(rest)
<1>1. Head(rest) \in Keys /\ Tail(rest) \in Seq(Keys)
  OBVIOUS
<1>2. ASSUME NEW i \in DOMAIN rest PROVE rest[i] = Head(rest) \/ rest[i] \in Range(Tail(rest))
  <2>1. CASE i = 1
    BY <2>1
  <2>2. CASE i # 1
    <3>1. i - 1 \in DOMAIN Tail(rest) /\ Tail(rest)[i - 1] = rest[i]
      BY <2>2
    <3> QED  BY <3>1 DEF Range
  <2> QED  BY <2>1, <2>2
<1> QED  BY <1>1, <1>2 DEF Range

\* The login that holds the lock of users.store is the only request in progress.
LEMMA LoginAlone ==
  ASSUME FileIInv, NEW c \in Callers, loader = c
  PROVE  /\ ~loaded /\ FileBusy(c) /\ call[c].op = "login"
         /\ \A d \in Callers \ {c} : ~FileBusy(d)
         /\ \A k \in Keys : keyLock[k] = None
         /\ writer \in {None, c}
<1>1. ~loaded /\ FileBusy(c) /\ call[c].op = "login"
  BY FileAssumption DEF FileIInv, FileCallsInv
<1>2. \A d \in Callers \ {c} : ~FileBusy(d)
  BY <1>1 DEF FileIInv, FileCallsInv
<1>3. \A k \in Keys : keyLock[k] = None
  BY <1>1 DEF FileIInv, FileCallsInv, FileTypeOK, FileBusy
<1>4. writer \in {None, c}
  BY <1>2 DEF FileIInv, FileCallsInv, FileTypeOK, FileBusy
<1> QED  BY <1>1, <1>2, <1>3, <1>4

\* A step of the login that keeps the lock of users.store.
LEMMA LoginGoesOn ==
  ASSUME FileIInv, NEW c \in Callers, loader = c, NEW q \in FileCall,
         call' = [call EXCEPT ![c] = q], q.pc # "idle", q.op = "login",
         UNCHANGED <<loaded, loader, keyLock>>, writer' = IF q.pc = "encode" THEN c ELSE None
  PROVE  FileCallsInv' /\ call' \in [Callers -> FileCall]
<1>1. /\ ~loaded
      /\ \A d \in Callers \ {c} : ~FileBusy(d)
      /\ \A k \in Keys : keyLock[k] = None
  BY LoginAlone
<1>2. /\ call' \in [Callers -> FileCall] /\ call'[c] = q
      /\ \A d \in Callers \ {c} : call'[d] = call[d]
  BY DEF FileIInv, FileTypeOK
<1>3. \A d \in Callers \ {c} : ~FileBusy(d)' /\ call'[d].pc # "encode"
  BY <1>1, <1>2 DEF FileBusy
<1>4. FileBusy(c)'
  BY <1>2 DEF FileBusy
<1> QED  BY <1>1, <1>2, <1>3, <1>4, FileAssumption DEF FileCallsInv

LEMMA FileOpenInv ==
  ASSUME FileIInv, NEW c \in Callers, Open(c)
  PROVE  FileIInv'
<1>0. /\ FileBusy(c) /\ call[c].pc = "open" /\ loader = c
      /\ call[c] \in FileCall
  BY DEF Open, IsAt, FileBusy, FileIInv, FileTypeOK, FileCallsInv
<1>1. /\ ~loaded /\ call[c].op = "login" /\ writer = None
      /\ \A d \in Callers \ {c} : ~FileBusy(d)
      /\ \A k \in Keys : keyLock[k] = None
  BY <1>0, LoginAlone, FileAssumption DEF FileIInv, FileCallsInv
<1>2. CASE disk.state = "absent"
  <2> DEFINE q == [call[c] EXCEPT !.pc = "truncate", !.rest = KeyOrder]
  <2>1. q \in FileCall /\ q.pc = "truncate" /\ q.op = "login" /\ q.rest = KeyOrder
    BY <1>0, <1>1, FileAssumption DEF FileCall, CallSteps
  <2>2. /\ call' = [call EXCEPT ![c] = q]
        /\ disk' = [disk EXCEPT !.state = "empty"]
        /\ cache' = Nothing /\ current' = Nothing
        /\ UNCHANGED <<loaded, loader, keyLock, writer, acked, pending, cut>>
    BY <1>2 DEF Open, recorded
  <2> HIDE DEF q
  <2>3. FileCallsInv' /\ call' \in [Callers -> FileCall]
    BY <1>0, <1>1, <2>1, <2>2, LoginGoesOn
  <2>4. FileTypeOK'
    BY <1>1, <2>2, <2>3, NothingType DEF FileIInv, FileTypeOK
  <2>5. FileLoginInv'
    <3>1. call'[c] = q
      BY <2>2 DEF FileIInv, FileTypeOK
    <3>2. acked = Nothing
      BY <1>2 DEF FileIInv, AnsweredIsSaved
    <3>3. \A k \in Keys : cache'[k] \in Recorded(k)'
      BY <2>2, <3>2 DEF Recorded
    <3>4. Keys \ Range(KeyOrder) = {}
      BY DEF Keys
    <3>5. disk'.state = "empty"
      BY <2>2 DEF FileIInv, FileTypeOK
    <3> QED  BY <1>0, <2>1, <2>2, <3>1, <3>3, <3>4, <3>5 DEF FileLoginInv
  <2>6. FileDiskInv' /\ FileLoadedInv'
    BY <1>0, <1>1, <2>2, FileAssumption DEF FileDiskInv, FileLoadedInv
  <2>7. AnsweredIsSaved'
    BY <1>0, <2>2, FileAssumption DEF FileIInv, FileTypeOK, AnsweredIsSaved
  <2> QED  BY <2>3, <2>4, <2>5, <2>6, <2>7 DEF FileIInv
<1>3. CASE disk.state = "whole"
  <2> DEFINE q == [call[c] EXCEPT !.pc = "set", !.rest = KeyOrder]
  <2>1. q \in FileCall /\ q.pc = "set" /\ q.op = "login" /\ q.rest = KeyOrder
    BY <1>0, <1>1, FileAssumption DEF FileCall, CallSteps
  <2>2. /\ call' = [call EXCEPT ![c] = q]
        /\ cache' = disk.data /\ current' = Nothing
        /\ UNCHANGED <<disk, loaded, loader, keyLock, writer, acked, pending, cut>>
    BY <1>3 DEF Open, recorded
  <2> HIDE DEF q
  <2>3. FileCallsInv' /\ call' \in [Callers -> FileCall]
    BY <1>0, <1>1, <2>1, <2>2, LoginGoesOn
  <2>4. disk.data \in Content /\ disk = [state |-> "whole", data |-> disk.data]
    BY <1>3 DEF FileIInv, FileTypeOK
  <2>5. FileTypeOK'
    BY <1>1, <2>2, <2>3, <2>4, NothingType DEF FileIInv, FileTypeOK
  <2>6. FileLoginInv'
    <3>1. call'[c] = q
      BY <2>2 DEF FileIInv, FileTypeOK
    <3>2. \A k \in Keys : disk.data[k] \in Recorded(k)
      BY <1>3 DEF FileIInv, AnsweredIsSaved
    <3>3. \A k \in Keys : cache'[k] \in Recorded(k)'
      BY <2>2, <3>2 DEF Recorded
    <3>4. Keys \ Range(KeyOrder) = {}
      BY DEF Keys
    <3> QED  BY <1>0, <1>3, <2>1, <2>2, <2>4, <3>1, <3>3, <3>4 DEF FileLoginInv
  <2>7. FileDiskInv' /\ FileLoadedInv'
    BY <1>0, <1>1, <2>2, FileAssumption DEF FileDiskInv, FileLoadedInv
  <2>8. AnsweredIsSaved'
    BY <2>2 DEF FileIInv, AnsweredIsSaved, Recorded
  <2> QED  BY <2>3, <2>5, <2>6, <2>7, <2>8 DEF FileIInv
<1>4. CASE disk.state = "empty"
  <2>1. /\ call' = [call EXCEPT ![c] = NoCall]
        /\ cache' = Nothing /\ current' = Nothing /\ loader' = None
        /\ UNCHANGED <<disk, loaded, keyLock, writer, acked, pending, cut>>
    BY <1>4 DEF Open, recorded
  <2>2. cut
    BY <1>0, <1>4, FileAssumption DEF FileIInv, FileLoginInv
  <2>3. call' \in [Callers -> FileCall] /\ \A d \in Callers : ~FileBusy(d)'
    BY <1>1, <2>1, NothingType DEF FileIInv, FileTypeOK, FileBusy, NoCall
  <2>4. FileTypeOK'
    BY <1>1, <2>1, <2>3, NothingType DEF FileIInv, FileTypeOK
  <2>5. FileCallsInv'
    BY <1>1, <2>1, <2>3, FileAssumption DEF FileIInv, FileCallsInv, FileBusy
  <2>6. FileDiskInv' /\ FileLoginInv' /\ FileLoadedInv' /\ AnsweredIsSaved'
    BY <1>1, <1>4, <2>1, <2>2 DEF FileDiskInv, FileLoginInv, FileLoadedInv, AnsweredIsSaved
  <2> QED  BY <2>4, <2>5, <2>6 DEF FileIInv
<1> QED  BY <1>2, <1>3, <1>4 DEF Open

LEMMA FileSetValueInv ==
  ASSUME FileIInv, NEW c \in Callers, SetValue(c)
  PROVE  FileIInv'
<1>0. /\ FileBusy(c) /\ call[c].pc = "set" /\ call[c] \in FileCall /\ call[c].rest # <<>>
  BY DEF SetValue, IsAt, FileBusy, FileIInv, FileTypeOK
<1>1. loader = c /\ c # None
  BY <1>0, FileAssumption DEF FileIInv, FileCallsInv
<1>2. /\ ~loaded /\ call[c].op = "login" /\ writer = None
      /\ \A k \in Keys : keyLock[k] = None
  BY <1>0, <1>1, LoginAlone, FileAssumption DEF FileIInv, FileCallsInv
<1>3. PICK k \in Keys :
        /\ k = Head(call[c].rest)
        /\ Tail(call[c].rest) \in Seq(Keys)
        /\ \A l \in Keys \ Range(Tail(call[c].rest)) : l = k \/ l \notin Range(call[c].rest)
  BY <1>0, FileRestStep DEF FileCall
<1>4. /\ disk = [state |-> "whole", data |-> cache]
      /\ \A l \in Keys \ Range(call[c].rest) : current[l] = cache[l] /\ cache[l] # None
      /\ \A l \in Keys : cache[l] \in Recorded(l)
  BY <1>0, <1>1 DEF FileIInv, FileLoginInv
<1>5. CASE cache[k] = None
  <2> DEFINE q == [call[c] EXCEPT !.rest = Tail(call[c].rest), !.pc = "truncate"]
  <2>1. q \in FileCall /\ q.pc = "truncate" /\ q.op = "login" /\ q.rest = Tail(call[c].rest)
    BY <1>0, <1>2, <1>3 DEF FileCall, CallSteps
  <2>2. /\ call' = [call EXCEPT ![c] = q]
        /\ cache' = [cache EXCEPT ![k] = Default] /\ current' = [current EXCEPT ![k] = Default]
        /\ pending' = [pending EXCEPT ![k] = Default]
        /\ UNCHANGED <<disk, loaded, loader, keyLock, writer, acked, cut>>
    BY <1>3, <1>5 DEF SetValue
  <2> HIDE DEF q
  <2>3. FileCallsInv' /\ call' \in [Callers -> FileCall]
    BY <1>1, <1>2, <2>1, <2>2, LoginGoesOn
  <2>4. cache' \in Content /\ current' \in Content /\ pending' \in Content
    BY <2>2, FileAssumption DEF FileIInv, FileTypeOK, Content
  <2>5. FileTypeOK'
    BY <1>2, <2>2, <2>3, <2>4 DEF FileIInv, FileTypeOK
  <2>6. call'[c] = q
    BY <2>2 DEF FileIInv, FileTypeOK
  <2>7. /\ cache'[k] = Default /\ current'[k] = Default /\ pending'[k] = Default
        /\ \A l \in Keys \ {k} : /\ cache'[l] = cache[l] /\ current'[l] = current[l]
                                 /\ pending'[l] = pending[l]
    BY <2>2 DEF FileIInv, FileTypeOK, Content
  <2>8. acked[k] = None
    BY <1>4, <1>5 DEF Recorded
  <2>9. \A l \in Keys : cache'[l] \in Recorded(l)' /\ disk.data[l] \in Recorded(l)'
    <3>1. disk.data = cache
      BY <1>4
    <3>2. cache'[k] \in Recorded(k)' /\ cache[k] \in Recorded(k)'
      BY <1>5, <2>2, <2>7, <2>8, FileAssumption DEF Recorded
    <3>3. \A l \in Keys \ {k} : cache'[l] \in Recorded(l)' /\ cache[l] \in Recorded(l)'
      BY <1>4, <2>2, <2>7 DEF Recorded
    <3> QED  BY <3>1, <3>2, <3>3
  <2>10. FileLoginInv'
    <3>1. \A l \in Keys \ Range(q.rest) : current'[l] = cache'[l] /\ cache'[l] # None
      BY <1>3, <1>4, <2>1, <2>7, FileAssumption
    <3> QED  BY <1>1, <1>4, <2>1, <2>2, <2>6, <2>9, <3>1 DEF FileLoginInv
  <2>11. FileDiskInv' /\ FileLoadedInv'
    BY <1>1, <1>2, <2>2 DEF FileDiskInv, FileLoadedInv
  <2>12. AnsweredIsSaved'
    BY <1>4, <2>2, <2>9 DEF AnsweredIsSaved
  <2> QED  BY <2>3, <2>5, <2>10, <2>11, <2>12 DEF FileIInv
<1>6. CASE cache[k] # None
  <2> DEFINE q == [call[c] EXCEPT !.rest = Tail(call[c].rest)]
  <2>1. q \in FileCall /\ q.pc = "set" /\ q.op = "login" /\ q.rest = Tail(call[c].rest)
    BY <1>0, <1>2, <1>3 DEF FileCall, CallSteps
  <2>2. /\ call' = [call EXCEPT ![c] = q]
        /\ current' = [current EXCEPT ![k] = cache[k]]
        /\ UNCHANGED <<disk, cache, loaded, loader, keyLock, writer, acked, pending, cut>>
    BY <1>3, <1>6 DEF SetValue
  <2> HIDE DEF q
  <2>3. FileCallsInv' /\ call' \in [Callers -> FileCall]
    BY <1>1, <1>2, <2>1, <2>2, LoginGoesOn
  <2>4. current' \in Content
    BY <2>2 DEF FileIInv, FileTypeOK, Content
  <2>5. FileTypeOK'
    BY <1>2, <2>2, <2>3, <2>4 DEF FileIInv, FileTypeOK
  <2>6. call'[c] = q
    BY <2>2 DEF FileIInv, FileTypeOK
  <2>7. FileLoginInv'
    <3>1. \A l \in Keys \ Range(q.rest) : current'[l] = cache'[l] /\ cache'[l] # None
      BY <1>3, <1>4, <1>6, <2>1, <2>2 DEF FileIInv, FileTypeOK, Content
    <3>2. \A l \in Keys : cache'[l] \in Recorded(l)'
      BY <1>4, <2>2 DEF Recorded
    <3> QED  BY <1>1, <1>4, <2>1, <2>2, <2>6, <3>1, <3>2 DEF FileLoginInv
  <2>8. FileDiskInv' /\ FileLoadedInv'
    BY <1>1, <1>2, <2>2 DEF FileDiskInv, FileLoadedInv
  <2>9. AnsweredIsSaved'
    BY <2>2 DEF FileIInv, AnsweredIsSaved, Recorded
  <2> QED  BY <2>3, <2>5, <2>7, <2>8, <2>9 DEF FileIInv
<1> QED  BY <1>5, <1>6

LEMMA StoreUserInv ==
  ASSUME FileIInv, NEW c \in Callers, StoreUser(c)
  PROVE  FileIInv'
<1>0. FileBusy(c) /\ call[c].pc = "set" /\ call[c].rest = <<>>
  BY DEF StoreUser, IsAt, FileBusy
<1>1. loader = c /\ c # None
  BY <1>0, FileAssumption DEF FileIInv, FileCallsInv
<1>2. /\ ~loaded /\ writer = None
      /\ \A d \in Callers \ {c} : ~FileBusy(d)
      /\ \A k \in Keys : keyLock[k] = None
  BY <1>0, <1>1, LoginAlone, FileAssumption DEF FileIInv, FileCallsInv
<1>3. /\ disk = [state |-> "whole", data |-> cache]
      /\ \A k \in Keys : current[k] = cache[k] /\ cache[k] # None
  BY <1>0, <1>1 DEF FileIInv, FileLoginInv, Range
<1>4. /\ call' = [call EXCEPT ![c] = NoCall]
      /\ loaded' = TRUE /\ loader' = None
      /\ acked' = current /\ pending' = Nothing
      /\ UNCHANGED <<disk, cache, current, keyLock, writer, cut>>
  BY DEF StoreUser
<1>5. call' \in [Callers -> FileCall] /\ \A d \in Callers : ~FileBusy(d)' /\ call'[d].pc # "encode"
  BY <1>2, <1>4, NothingType DEF FileIInv, FileTypeOK, FileBusy, NoCall
<1>6. FileTypeOK'
  BY <1>3, <1>4, <1>5, NothingType DEF FileIInv, FileTypeOK
<1>7. FileCallsInv'
  BY <1>2, <1>4, <1>5, FileAssumption DEF FileCallsInv, FileBusy
<1>8. FileDiskInv' /\ FileLoginInv'
  BY <1>3, <1>4 DEF FileDiskInv, FileLoginInv
<1>9. FileLoadedInv' /\ AnsweredIsSaved'
  BY <1>2, <1>3, <1>4 DEF FileLoadedInv, AnsweredIsSaved, Recorded, Nothing
<1> QED  BY <1>6, <1>7, <1>8, <1>9 DEF FileIInv

LEMMA FileChangeInv ==
  ASSUME FileIInv, NEW c \in Callers, NEW k \in Keys, NEW v \in Values, Change(c, k, v)
  PROVE  FileIInv'
<1> DEFINE q == [op |-> "change", pc |-> "truncate", key |-> k, rest |-> <<>>]
<1>0. q \in FileCall /\ q.op = "change" /\ q.pc = "truncate" /\ q.key = k
  BY DEF FileCall, CallSteps
<1>1. /\ loaded /\ loader = None /\ ~FileBusy(c) /\ keyLock[k] = None
      /\ keyLock' = [keyLock EXCEPT ![k] = c]
      /\ current' = [current EXCEPT ![k] = v] /\ cache' = [cache EXCEPT ![k] = v]
      /\ pending' = [pending EXCEPT ![k] = v]
      /\ call' = [call EXCEPT ![c] = q]
      /\ UNCHANGED <<disk, loaded, loader, writer, acked, cut>>
  BY DEF Change, IsAt, FileBusy, FileIInv, FileCallsInv
<1> HIDE DEF q
<1>2. /\ call' \in [Callers -> FileCall] /\ call'[c] = q
      /\ \A d \in Callers \ {c} : call'[d] = call[d]
  BY <1>0, <1>1 DEF FileIInv, FileTypeOK
<1>3. /\ keyLock' \in [Keys -> Callers \cup {None}] /\ keyLock'[k] = c
      /\ cache' \in Content /\ current' \in Content /\ pending' \in Content
      /\ cache'[k] = v /\ current'[k] = v /\ pending'[k] = v
      /\ \A l \in Keys \ {k} : /\ keyLock'[l] = keyLock[l] /\ cache'[l] = cache[l]
                               /\ current'[l] = current[l] /\ pending'[l] = pending[l]
  BY <1>1 DEF FileIInv, FileTypeOK, Content
<1>4. FileTypeOK'
  BY <1>1, <1>2, <1>3, FileAssumption DEF FileIInv, FileTypeOK
<1>5. FileCallsInv'
  <2>1. \A d \in Callers \ {c} : FileBusy(d)' <=> FileBusy(d)
    BY <1>2 DEF FileBusy
  <2>2. FileBusy(c)' /\ writer # c
    BY <1>0, <1>1, <1>2 DEF FileBusy, FileIInv, FileCallsInv
  <2>3. \A d \in Callers \ {c} : FileBusy(d) /\ call[d].op = "change" => call[d].key # k
    BY <1>1, FileAssumption DEF FileIInv, FileCallsInv
  <2>4. ASSUME NEW d \in Callers
        PROVE  /\ loader' = d <=> FileBusy(d)' /\ call'[d].op = "login"
               /\ FileBusy(d)' => call'[d].op \in {"login", "change"}
               /\ call'[d].op = "change" /\ FileBusy(d)' =>
                    /\ loaded' /\ call'[d].pc \in {"truncate", "encode"}
                    /\ call'[d].key \in Keys /\ keyLock'[call'[d].key] = d
               /\ writer' = d <=> call'[d].pc = "encode"
    <3>1. CASE d = c
      BY <1>0, <1>1, <1>2, <1>3, <2>2, <3>1, FileAssumption
    <3>2. CASE d # c
      BY <1>1, <1>2, <1>3, <2>1, <2>3, <3>2 DEF FileIInv, FileCallsInv
    <3> QED  BY <3>1, <3>2
  <2>5. ASSUME NEW l \in Keys, NEW d \in Callers, keyLock'[l] = d
        PROVE  FileBusy(d)' /\ call'[d].op = "change" /\ call'[d].key = l
    <3>1. CASE l = k
      BY <1>0, <1>2, <1>3, <2>2, <2>5, <3>1
    <3>2. CASE l # k
      <4>1. keyLock[l] = d /\ d # c
        BY <1>1, <1>3, <2>5, <3>2 DEF FileIInv, FileCallsInv
      <4> QED  BY <1>2, <2>1, <4>1 DEF FileIInv, FileCallsInv
    <3> QED  BY <3>1, <3>2
  <2> QED  BY <1>1, <2>4, <2>5 DEF FileCallsInv
<1>6. FileDiskInv' /\ FileLoginInv'
  BY <1>1 DEF FileIInv, FileDiskInv, FileLoginInv
<1>7. FileLoadedInv'
  BY <1>1, <1>3, FileAssumption DEF FileIInv, FileLoadedInv
<1>8. AnsweredIsSaved'
  <2>1. pending[k] = None
    BY <1>1 DEF FileIInv, FileLoadedInv
  <2>2. \A l \in Keys : Recorded(l) \subseteq Recorded(l)'
    BY <1>1, <1>3, <2>1 DEF Recorded
  <2> QED  BY <1>1, <2>2 DEF FileIInv, AnsweredIsSaved
<1> QED  BY <1>4, <1>5, <1>6, <1>7, <1>8 DEF FileIInv

LEMMA FileChangeFailsInv ==
  ASSUME FileIInv, NEW c \in Callers, NEW k \in Keys, NEW v \in Values, ChangeFails(c, k, v)
  PROVE  FileIInv'
<1>1. /\ loaded /\ loader = None
      /\ current' = [current EXCEPT ![k] = v]
      /\ UNCHANGED <<disk, cache, loaded, loader, keyLock, writer, call, acked, pending, cut>>
  BY DEF ChangeFails, recorded, FileIInv, FileCallsInv
<1>2. FileTypeOK'
  BY <1>1, FileAssumption DEF FileIInv, FileTypeOK, Content
<1>3. FileCallsInv' /\ FileDiskInv' /\ FileLoginInv' /\ FileLoadedInv' /\ AnsweredIsSaved'
  BY <1>1 DEF FileIInv, FileCallsInv, FileBusy, FileDiskInv, FileLoginInv, FileLoadedInv,
     AnsweredIsSaved, Recorded
<1> QED  BY <1>2, <1>3 DEF FileIInv

LEMMA FileTruncateInv ==
  ASSUME FileIInv, NEW c \in Callers, Truncate(c)
  PROVE  FileIInv'
<1>0. FileBusy(c) /\ call[c].pc = "truncate" /\ writer = None /\ c # None
  BY FileAssumption DEF Truncate, IsAt, FileBusy
<1> DEFINE q == [call[c] EXCEPT !.pc = "encode"]
<1>1. /\ q \in FileCall /\ q.pc = "encode" /\ q.op = call[c].op /\ q.key = call[c].key
      /\ q.rest = call[c].rest
  BY DEF FileIInv, FileTypeOK, FileCall, CallSteps
<1>2. /\ call' = [call EXCEPT ![c] = q] /\ writer' = c
      /\ disk' = [disk EXCEPT !.state = "empty"]
      /\ UNCHANGED <<cache, current, loaded, loader, keyLock, acked, pending, cut>>
  BY DEF Truncate, recorded
<1> HIDE DEF q
<1>3. /\ call' \in [Callers -> FileCall] /\ call'[c] = q
      /\ \A d \in Callers \ {c} : call'[d] = call[d]
  BY <1>1, <1>2 DEF FileIInv, FileTypeOK
<1>4. FileTypeOK'
  BY <1>2, <1>3 DEF FileIInv, FileTypeOK
<1>5. FileCallsInv'
  <2>1. \A d \in Callers : /\ FileBusy(d)' <=> FileBusy(d)
                           /\ call'[d].op = call[d].op /\ call'[d].key = call[d].key
    BY <1>0, <1>1, <1>3 DEF FileBusy
  <2>2. \A d \in Callers : call[d].pc # "encode"
    BY <1>0, FileAssumption DEF FileIInv, FileCallsInv
  <2>3. \A d \in Callers : writer' = d <=> call'[d].pc = "encode"
    BY <1>1, <1>2, <1>3, <2>2
  <2>4. \A d \in Callers : call'[d].pc = call[d].pc \/ call'[d].pc = "encode"
    BY <1>1, <1>3
  <2>5. \A k \in Keys : keyLock[k] \in Callers \cup {None}
    BY DEF FileIInv, FileTypeOK
  <2> QED  BY <1>2, <2>1, <2>3, <2>4, <2>5 DEF FileIInv, FileCallsInv
<1>6. FileLoginInv'
  <2>1. ASSUME loader # None
        PROVE  loader = c
    <3>1. loader \in Callers
      BY <2>1 DEF FileIInv, FileTypeOK
    <3> QED  BY <1>0, <3>1, LoginAlone
  <2>2. CASE loader = c
    <3>1. disk'.state = "empty"
      BY <1>2 DEF FileIInv, FileTypeOK
    <3>2. /\ \A k \in Keys \ Range(call[c].rest) : current[k] = cache[k] /\ cache[k] # None
          /\ \A k \in Keys : cache[k] \in Recorded(k)
      BY <1>0, <2>2 DEF FileIInv, FileLoginInv
    <3>3. \A k \in Keys : cache'[k] \in Recorded(k)'
      BY <1>2, <3>2 DEF Recorded
    <3> QED  BY <1>1, <1>2, <1>3, <2>2, <3>1, <3>2, <3>3 DEF FileLoginInv
  <2> QED  BY <1>2, <2>1, <2>2 DEF FileLoginInv
<1>7. FileDiskInv' /\ FileLoadedInv' /\ AnsweredIsSaved'
  <2>1. disk'.state = "empty"
    BY <1>2 DEF FileIInv, FileTypeOK
  <2>2. loaded \/ loader = c
    BY <1>0 DEF FileIInv, FileCallsInv
  <2> QED  BY <1>0, <1>2, <2>1, <2>2 DEF FileIInv, FileDiskInv, FileLoadedInv, AnsweredIsSaved
<1> QED  BY <1>4, <1>5, <1>6, <1>7 DEF FileIInv

LEMMA FileEncodeInv ==
  ASSUME FileIInv, NEW c \in Callers, Encode(c)
  PROVE  FileIInv'
<1>0. /\ FileBusy(c) /\ call[c].pc = "encode" /\ writer = c /\ c # None
      /\ call[c] \in FileCall /\ call[c].op \in {"login", "change"}
  BY FileAssumption DEF Encode, IsAt, FileBusy, FileIInv, FileTypeOK, FileCallsInv
<1>1. disk' = [state |-> "whole", data |-> cache] /\ writer' = None
  BY DEF Encode
<1>2. disk' \in [state : {"absent", "empty", "whole"}, data : Content]
  BY <1>1 DEF FileIInv, FileTypeOK
<1>3. CASE call[c].op = "login"
  <2> DEFINE q == [call[c] EXCEPT !.pc = "set"]
  <2>1. loader = c
    BY <1>0, <1>3 DEF FileIInv, FileCallsInv
  <2>2. ~loaded
    BY <2>1, LoginAlone
  <2>3. q \in FileCall /\ q.pc = "set" /\ q.op = "login" /\ q.rest = call[c].rest
    BY <1>0, <1>3 DEF FileCall, CallSteps
  <2>4. /\ call' = [call EXCEPT ![c] = q]
        /\ UNCHANGED <<cache, current, loaded, loader, keyLock, acked, pending, cut>>
    BY <1>3 DEF Encode, recorded
  <2> HIDE DEF q
  <2>5. FileCallsInv' /\ call' \in [Callers -> FileCall]
    BY <1>1, <2>1, <2>3, <2>4, LoginGoesOn
  <2>6. FileTypeOK'
    BY <1>1, <1>2, <2>4, <2>5 DEF FileIInv, FileTypeOK
  <2>7. /\ \A k \in Keys \ Range(call[c].rest) : current[k] = cache[k] /\ cache[k] # None
        /\ \A k \in Keys : cache[k] \in Recorded(k)
    BY <1>0, <2>1 DEF FileIInv, FileLoginInv
  <2>8. \A k \in Keys : cache'[k] \in Recorded(k)'
    BY <2>4, <2>7 DEF Recorded
  <2>9. FileLoginInv'
    <3>1. call'[c] = q
      BY <2>4 DEF FileIInv, FileTypeOK
    <3> QED  BY <1>1, <2>1, <2>3, <2>4, <2>7, <2>8, <3>1 DEF FileLoginInv
  <2>10. FileDiskInv' /\ FileLoadedInv' /\ AnsweredIsSaved'
    BY <1>0, <1>1, <2>1, <2>2, <2>4, <2>8 DEF FileDiskInv, FileLoadedInv, AnsweredIsSaved
  <2> QED  BY <2>5, <2>6, <2>9, <2>10 DEF FileIInv
<1>4. CASE call[c].op = "change"
  <2>1. PICK k \in Keys : k = call[c].key /\ keyLock[k] = c
    BY <1>0, <1>4 DEF FileIInv, FileCallsInv
  <2>2. loaded /\ loader = None
    BY <1>0, <1>4 DEF FileIInv, FileCallsInv
  <2>3. /\ keyLock' = [keyLock EXCEPT ![k] = None]
        /\ acked' = [acked EXCEPT ![k] = pending[k]]
        /\ pending' = [pending EXCEPT ![k] = None]
        /\ call' = [call EXCEPT ![c] = NoCall]
        /\ UNCHANGED <<cache, current, loaded, loader, cut>>
    BY <1>4, <2>1 DEF Encode
  <2>4. /\ call' \in [Callers -> FileCall] /\ ~FileBusy(c)' /\ call'[c].pc = "idle"
        /\ \A d \in Callers \ {c} : call'[d] = call[d]
    BY <2>3, NothingType DEF FileIInv, FileTypeOK, FileBusy, NoCall
  <2>5. /\ keyLock' \in [Keys -> Callers \cup {None}] /\ keyLock'[k] = None
        /\ acked' \in Content /\ pending' \in Content
        /\ acked'[k] = pending[k] /\ pending'[k] = None
        /\ \A l \in Keys \ {k} : /\ keyLock'[l] = keyLock[l] /\ acked'[l] = acked[l]
                                 /\ pending'[l] = pending[l]
    BY <2>3 DEF FileIInv, FileTypeOK, Content
  <2>6. FileTypeOK'
    BY <1>1, <1>2, <2>3, <2>4, <2>5 DEF FileIInv, FileTypeOK
  <2>7. FileCallsInv'
    <3>1. \A d \in Callers \ {c} : (FileBusy(d)' <=> FileBusy(d)) /\ call[d].pc # "encode"
      BY <1>0, <2>4 DEF FileBusy, FileIInv, FileCallsInv
    <3>2. ASSUME NEW d \in Callers
          PROVE  /\ loader' = d <=> FileBusy(d)' /\ call'[d].op = "login"
                 /\ FileBusy(d)' => call'[d].op \in {"login", "change"}
                 /\ call'[d].op = "change" /\ FileBusy(d)' =>
                      /\ loaded' /\ call'[d].pc \in {"truncate", "encode"}
                      /\ call'[d].key \in Keys /\ keyLock'[call'[d].key] = d
                 /\ writer' = d <=> call'[d].pc = "encode"
      <4>1. CASE d = c
        BY <1>0, <1>1, <2>2, <2>3, <2>4, <4>1
      <4>2. CASE d # c
        <5>1. call[d].op = "change" /\ FileBusy(d) => call[d].key # k
          BY <2>1, <4>2 DEF FileIInv, FileCallsInv
        <5> QED  BY <1>1, <2>3, <2>4, <2>5, <3>1, <4>2, <5>1, FileAssumption DEF FileIInv,
           FileCallsInv
      <4> QED  BY <4>1, <4>2
    <3>3. ASSUME NEW l \in Keys, NEW d \in Callers, keyLock'[l] = d
          PROVE  FileBusy(d)' /\ call'[d].op = "change" /\ call'[d].key = l
      <4>1. l # k /\ keyLock[l] = d
        BY <2>5, <3>3, FileAssumption
      <4>2. FileBusy(d) /\ call[d].op = "change" /\ call[d].key = l /\ d # c
        BY <2>1, <4>1 DEF FileIInv, FileCallsInv
      <4> QED  BY <2>4, <3>1, <4>2
    <3> QED  BY <2>2, <2>3, <3>2, <3>3 DEF FileCallsInv
  <2>8. FileLoadedInv'
    BY <1>0, <2>1, <2>2, <2>3, <2>5 DEF FileIInv, FileLoadedInv
  <2>9. \A l \in Keys : cache[l] \in Recorded(l)'
    BY <1>0, <2>1, <2>2, <2>5 DEF FileIInv, FileLoadedInv, Recorded
  <2>10. FileDiskInv' /\ FileLoginInv' /\ AnsweredIsSaved'
    BY <1>1, <2>2, <2>3, <2>9 DEF FileDiskInv, FileLoginInv, AnsweredIsSaved
  <2> QED  BY <2>6, <2>7, <2>8, <2>10 DEF FileIInv
<1> QED  BY <1>0, <1>3, <1>4

\* A stop: nothing but the file is left of the server, and an empty one is not forgotten.
LEMMA FileStopInv ==
  ASSUME FileIInv, StopAndStart
  PROVE  FileIInv'
<1>1. /\ cache' = Nothing /\ current' = Nothing /\ loaded' = FALSE /\ loader' = None
      /\ keyLock' = [k \in Keys |-> None] /\ writer' = None
      /\ call' = [c \in Callers |-> NoCall]
      /\ UNCHANGED <<disk, acked, pending>>
  BY DEF StopAndStart, recorded
<1>2. cut' \in BOOLEAN /\ (disk.state = "empty" => cut')
  BY DEF StopAndStart, FileIInv, FileTypeOK
<1>3. FileTypeOK'
  BY <1>1, <1>2, NothingType DEF FileIInv, FileTypeOK
<1>4. FileCallsInv'
  BY <1>1, FileAssumption DEF FileCallsInv, FileBusy, NoCall
<1>5. FileDiskInv' /\ FileLoginInv' /\ FileLoadedInv'
  BY <1>1, <1>2 DEF FileDiskInv, FileLoginInv, FileLoadedInv
<1>6. AnsweredIsSaved'
  BY <1>1, <1>2 DEF FileIInv, AnsweredIsSaved, Recorded
<1> QED  BY <1>3, <1>4, <1>5, <1>6 DEF FileIInv

-----------------------------------------------------------------------------
LEMMA FileNextInv == FileIInv /\ [FileNext]_fileVars => FileIInv'
<1> SUFFICES ASSUME FileIInv, [FileNext]_fileVars PROVE FileIInv'
  OBVIOUS
<1>1. CASE FileNext
  BY <1>1, FileLoginStep, FileOpenInv, FileSetValueInv, StoreUserInv, FileChangeInv,
     FileChangeFailsInv,
     FileTruncateInv, FileEncodeInv, FileStopInv
     DEF FileNext
<1>2. CASE UNCHANGED fileVars
  BY <1>2 DEF fileVars, memory, recorded, FileIInv, FileTypeOK, FileCallsInv, FileBusy,
     FileDiskInv, FileLoginInv,
              FileLoadedInv, AnsweredIsSaved, Recorded
<1> QED  BY <1>1, <1>2

LEMMA FileInvariance == FileSpec => []FileIInv
BY FileInitInv, FileNextInv, PTL DEF FileSpec

\* The file, the cache, the values and the requests keep their types, and a user in the store
\* lacks no value (persistentJsonData.go).
THEOREM FileTypeCorrect == FileSpec => []FileTypeOK
BY FileInvariance, PTL DEF FileIInv

\* Whatever the changes and logins in progress and wherever the server stops, the file holds of
\* each value what was answered last or a change that is not answered yet, unless a stop came
\* between a truncation and its write (WithWriter, psmjWithReadWrite, psmjSet).
THEOREM AnsweredAreSaved == FileSpec => []AnsweredIsSaved
BY FileInvariance, PTL DEF FileIInv

-----------------------------------------------------------------------------
\* Who is let through was accepted, or heard of in time, and every login is answered.

\* The official server is asked for the items only after it has accepted the login, and a
\* login that is not at its end has been answered only where the steps say so.
StepsInOrder ==
  /\ authStep = "offline" => mode = "offline"
  /\ authStep = "items" => accepted
  /\ authStep \in {"offline", "login", "items"} => answers = 0 /\ ~served
  /\ authStep = "logout" => answers = 1
  /\ authStep = "done" => answers = IF wrong THEN 2 ELSE 1
  /\ authStep \in {"offline", "login", "items", "logout"} => ~wrong

\* The deadline is the one that the last answer of the official server gave.
DeadlineWasHeard ==
  deadline # 0 => mode = "cached" /\ heardAt # 0 /\ deadline = heardAt + Validity

AuthIInv == AuthTypeOK /\ StepsInOrder /\ DeadlineWasHeard /\ LetThroughIsKnown

-----------------------------------------------------------------------------
LEMMA AuthInitInv == AuthInit => AuthIInv
<1> SUFFICES ASSUME AuthInit PROVE AuthIInv
  OBVIOUS
<1>1. AuthTypeOK
  <2>1. served \in BOOLEAN /\ accepted \in BOOLEAN /\ wrong \in BOOLEAN /\ itemsAsked \in BOOLEAN
    BY Zenon DEF AuthInit
  <2>2. now \in 1 .. MaxTime /\ begun \in 1 .. MaxTime /\ heardAt \in 0 .. MaxTime
    BY AuthAssumption DEF AuthInit
  <2>3. deadline \in 0 .. MaxTime + Validity /\ logins \in 0 .. MaxLogins /\ answers \in 0 .. 2
    BY AuthAssumption DEF AuthInit
  <2> QED  BY <2>1, <2>2, <2>3 DEF AuthInit, AuthTypeOK
<1>2. StepsInOrder /\ DeadlineWasHeard /\ LetThroughIsKnown
  BY DEF AuthInit, StepsInOrder, DeadlineWasHeard, LetThroughIsKnown
<1> QED  BY <1>1, <1>2 DEF AuthIInv

\* The cached authentication lets nobody through of whom the official server has not been
\* heard.
LEMMA CachedIsKnown ==
  ASSUME AuthIInv, OfflineAnswer, mode # "required"
  PROVE  /\ answers' = answers + 1 /\ served' \in BOOLEAN
         /\ served' => served \/ (heardAt # 0 /\ begun < heardAt + Validity)
BY AuthAssumption
   DEF OfflineAnswer, Valid, LetThrough, LoginError, AuthIInv, AuthTypeOK, DeadlineWasHeard

\* What doRequest writes when a request goes wrong.
LEMMA ErrorIsKnown ==
  ASSUME AuthIInv, ErrorHandler
  PROVE  /\ answers' = answers + 1 /\ served' \in BOOLEAN
         /\ served' => \/ served
                       \/ mode # "required" /\ heardAt # 0 /\ begun < heardAt + Validity
<1>1. CASE mode = "cached"
  BY <1>1, CachedIsKnown DEF ErrorHandler
<1>2. CASE mode # "cached"
  BY <1>2 DEF ErrorHandler, LoginError, AuthIInv, AuthTypeOK
<1> QED  BY <1>1, <1>2

LEMMA AuthNextInv == AuthIInv /\ [AuthNext]_authVars => AuthIInv'
<1> SUFFICES ASSUME AuthIInv, [AuthNext]_authVars PROVE AuthIInv'
  OBVIOUS
<1>1. CASE AuthTick
  <2>1. AuthTypeOK'
    BY <1>1, AuthAssumption DEF AuthTick, Tick, AuthIInv, AuthTypeOK
  <2>2. StepsInOrder' /\ DeadlineWasHeard' /\ LetThroughIsKnown'
    BY <1>1 DEF AuthTick, AuthIInv, StepsInOrder, DeadlineWasHeard, LetThroughIsKnown
  <2> QED  BY <2>1, <2>2 DEF AuthIInv
<1>2. CASE Arrive
  <2>1. AuthTypeOK'
    <3>1. /\ served' \in BOOLEAN /\ accepted' \in BOOLEAN
          /\ wrong' \in BOOLEAN /\ itemsAsked' \in BOOLEAN
      BY <1>2, Zenon DEF Arrive
    <3>2. logins' \in 0 .. MaxLogins /\ answers' \in 0 .. 2
      BY <1>2, AuthAssumption DEF Arrive, AuthIInv, AuthTypeOK
    <3> QED  BY <1>2, <3>1, <3>2 DEF Arrive, clockVars, AuthIInv, AuthTypeOK
  <2>2. StepsInOrder' /\ DeadlineWasHeard' /\ LetThroughIsKnown'
    BY <1>2 DEF Arrive, clockVars, AuthIInv, StepsInOrder, DeadlineWasHeard, LetThroughIsKnown
  <2> QED  BY <2>1, <2>2 DEF AuthIInv
<1>3. CASE AuthenticateOffline
  <2>1. /\ answers' = answers + 1 /\ served' \in BOOLEAN
        /\ served' => served \/ (heardAt # 0 /\ begun < heardAt + Validity)
        /\ mode = "offline" /\ answers = 0
    BY <1>3, CachedIsKnown DEF AuthenticateOffline, AuthIInv, StepsInOrder
  <2>2. AuthTypeOK'
    BY <1>3, <2>1 DEF AuthenticateOffline, clockVars, AuthIInv, AuthTypeOK
  <2>3. StepsInOrder' /\ DeadlineWasHeard' /\ LetThroughIsKnown'
    BY <1>3, <2>1
       DEF AuthenticateOffline, clockVars, AuthIInv, StepsInOrder, DeadlineWasHeard,
           LetThroughIsKnown
  <2> QED  BY <2>2, <2>3 DEF AuthIInv
<1>4. CASE UpstreamLoginFails
  <2>1. /\ answers' = answers + 1 /\ served' \in BOOLEAN
        /\ served' => \/ served
                      \/ mode # "required" /\ heardAt # 0 /\ begun < heardAt + Validity
        /\ answers = 0
    BY <1>4, ErrorIsKnown DEF UpstreamLoginFails, AuthIInv, StepsInOrder
  <2>2. AuthTypeOK'
    BY <1>4, <2>1 DEF UpstreamLoginFails, clockVars, AuthIInv, AuthTypeOK
  <2>3. StepsInOrder' /\ DeadlineWasHeard' /\ LetThroughIsKnown'
    BY <1>4, <2>1
       DEF UpstreamLoginFails, clockVars, AuthIInv, StepsInOrder, DeadlineWasHeard,
           LetThroughIsKnown
  <2> QED  BY <2>2, <2>3 DEF AuthIInv
<1>5. ASSUME NEW code \in BOOLEAN, UpstreamLoginAnswers(code) PROVE AuthIInv'
  <2>1. AuthTypeOK'
    BY <1>5, AuthAssumption
       DEF UpstreamLoginAnswers, LoginError, clockVars, AuthIInv, AuthTypeOK, StepsInOrder
  <2>2. StepsInOrder' /\ LetThroughIsKnown'
    <3>1. /\ answers = 0 /\ ~served /\ ~wrong /\ served' = served /\ wrong' = wrong
          /\ (accepted' <=> ~code)
          /\ answers' = (IF code THEN 1 ELSE 0) /\ authStep' = (IF code THEN "logout" ELSE "items")
      <4>1. answers = 0 /\ ~served /\ ~wrong /\ wrong' = wrong /\ (accepted' <=> ~code)
        BY <1>5 DEF UpstreamLoginAnswers, AuthIInv, StepsInOrder
      <4>2. CASE code
        BY <1>5, <4>1, <4>2 DEF UpstreamLoginAnswers, LoginError
      <4>3. CASE ~code
        BY <1>5, <4>1, <4>3 DEF UpstreamLoginAnswers
      <4> QED  BY <4>2, <4>3
    <3> QED  BY <3>1 DEF StepsInOrder, LetThroughIsKnown
  <2>3. DeadlineWasHeard'
    BY <1>5 DEF UpstreamLoginAnswers, clockVars, AuthIInv, AuthTypeOK, DeadlineWasHeard
  <2> QED  BY <2>1, <2>2, <2>3 DEF AuthIInv
<1>6. CASE UpstreamItemsFail
  <2>1. /\ answers' = answers + 1 /\ served' \in BOOLEAN
        /\ served' => \/ served
                      \/ mode # "required" /\ heardAt # 0 /\ begun < heardAt + Validity
        /\ answers = 0
    BY <1>6, ErrorIsKnown DEF UpstreamItemsFail, AuthIInv, StepsInOrder
  <2>2. AuthTypeOK'
    BY <1>6, <2>1 DEF UpstreamItemsFail, clockVars, AuthIInv, AuthTypeOK
  <2>3. StepsInOrder' /\ DeadlineWasHeard' /\ LetThroughIsKnown'
    BY <1>6, <2>1
       DEF UpstreamItemsFail, clockVars, AuthIInv, StepsInOrder, DeadlineWasHeard,
           LetThroughIsKnown
  <2> QED  BY <2>2, <2>3 DEF AuthIInv
<1>7. ASSUME NEW code \in BOOLEAN, UpstreamItemsAnswer(code) PROVE AuthIInv'
  <2>1. answers' = 1 /\ served' \in BOOLEAN /\ accepted
    <3>1. answers = 0 /\ accepted
      BY <1>7 DEF UpstreamItemsAnswer, AuthIInv, StepsInOrder
    <3>2. CASE code
      BY <1>7, <3>1, <3>2 DEF UpstreamItemsAnswer, LoginError, AuthIInv, AuthTypeOK
    <3>3. CASE ~code
      <4>1. answers' = 1
        BY <1>7, <3>1, <3>3 DEF UpstreamItemsAnswer, LetThrough
      <4>2. served' \in BOOLEAN
        BY <1>7, <3>3, Zenon DEF UpstreamItemsAnswer, LetThrough
      <4> QED  BY <3>1, <4>1, <4>2
    <3> QED  BY <3>2, <3>3
  <2>2. AuthTypeOK'
    BY <1>7, <2>1 DEF UpstreamItemsAnswer, clockVars, AuthIInv, AuthTypeOK
  <2>3. StepsInOrder' /\ DeadlineWasHeard' /\ LetThroughIsKnown'
    BY <1>7, <2>1
       DEF UpstreamItemsAnswer, clockVars, AuthIInv, StepsInOrder, DeadlineWasHeard,
           LetThroughIsKnown
  <2> QED  BY <2>2, <2>3 DEF AuthIInv
<1>8. ASSUME NEW outcome \in {"success", "code", "fails"}, UpstreamLogout(outcome) PROVE AuthIInv'
  <2>1. /\ answers = 1
        /\ wrong' \in BOOLEAN /\ (wrong' <=> outcome # "success")
        /\ UNCHANGED <<clockVars, deadline, logins, begun, accepted, heardAt, itemsAsked>>
        /\ authStep' = "done"
    BY <1>8 DEF UpstreamLogout, AuthIInv, StepsInOrder
  <2>2. /\ answers' = IF wrong' THEN 2 ELSE 1
        /\ served' \in BOOLEAN
        /\ served' => \/ served
                      \/ mode # "required" /\ heardAt # 0 /\ begun < heardAt + Validity
    <3>1. CASE outcome = "success"
      BY <1>8, <2>1, <3>1 DEF UpstreamLogout, AuthIInv, AuthTypeOK
    <3>2. CASE outcome = "code"
      BY <1>8, <2>1, <3>2 DEF UpstreamLogout, LoginError, AuthIInv, AuthTypeOK
    <3>3. CASE outcome = "fails"
      BY <1>8, <2>1, <3>3, ErrorIsKnown DEF UpstreamLogout
    <3> QED  BY <3>1, <3>2, <3>3
  <2>3. AuthTypeOK'
    <3>1. answers' \in 0 .. 2
      BY <2>2
    <3> QED  BY <2>1, <2>2, <3>1 DEF clockVars, AuthIInv, AuthTypeOK
  <2>4. StepsInOrder' /\ DeadlineWasHeard' /\ LetThroughIsKnown'
    BY <2>1, <2>2 DEF clockVars, AuthIInv, StepsInOrder, DeadlineWasHeard, LetThroughIsKnown
  <2> QED  BY <2>3, <2>4 DEF AuthIInv
<1>9. CASE AuthDone
  BY <1>9 DEF AuthDone, clockVars, AuthIInv, AuthTypeOK, StepsInOrder, DeadlineWasHeard,
              LetThroughIsKnown
<1>10. CASE UNCHANGED authVars
  BY <1>10 DEF authVars, AuthIInv, AuthTypeOK, StepsInOrder, DeadlineWasHeard,
               LetThroughIsKnown
<1> QED
  BY <1>1, <1>2, <1>3, <1>4, <1>5, <1>6, <1>7, <1>8, <1>9, <1>10 DEF AuthNext

LEMMA AuthInvariance == AuthSpec => []AuthIInv
BY AuthInitInv, AuthNextInv, PTL DEF AuthSpec

\* The clock, the cached deadline and the login in progress keep their types.
THEOREM AuthTypeCorrect == AuthSpec => []AuthTypeOK
BY AuthInvariance, PTL DEF AuthIInv

\* A login is let through only if the official server accepted it, or, with the cached
\* authentication, was heard of it less than the validity before (AuthMiddleware).
THEOREM LetThroughCorrect == AuthSpec => []LetThroughIsKnown
BY AuthInvariance, PTL DEF AuthIInv

\* A login is answered once, and twice exactly when the deferred logout went wrong
\* (doRequest, errorHandler).
THEOREM AnswerCorrect == AuthSpec => []AnsweredOnce
<1>1. AuthIInv => AnsweredOnce
  BY DEF AuthIInv, StepsInOrder, AnsweredOnce
<1> QED  BY AuthInvariance, <1>1, PTL

-----------------------------------------------------------------------------
\* Who was told of his item has it in the file.

BelongingsIInv == ItemsTypeOK /\ ToldIsKept

-----------------------------------------------------------------------------
LEMMA ItemsInitInv == ItemsInit => BelongingsIInv
<1> SUFFICES ASSUME ItemsInit PROVE BelongingsIInv
  OBVIOUS
<1>1. items = [i \in ItemIds |-> NewItem(i)] /\ itemsSaved = items
  BY DEF ItemsInit
<1>2. \A i \in ItemIds :
        /\ NewItem(i) \in [place : Places \cup {None}, att : Amounts \cup {None, "nil"}]
        /\ NewItem(i).att \in (IF i \in Plain THEN {"nil"} ELSE Amounts \cup {None})
  BY DEF NewItem
<1>3. ItemsOf(items) /\ ItemsOf(itemsSaved)
  BY <1>1, <1>2 DEF ItemsOf
<1>4. ItemsTypeOK
  BY <1>3 DEF ItemsInit, ItemsTypeOK, NoLoadouts
<1>5. ToldIsKept
  BY DEF ItemsInit, ToldIsKept
<1> QED  BY <1>4, <1>5 DEF BelongingsIInv

\* The items change, for those that are done in memory, in the file and in the answer.
LEMMA SaveItemsInv ==
  ASSUME BelongingsIInv, NEW new, ItemsOf(new), NEW done \in SUBSET ItemIds,
         \A i \in ItemIds \ done : new[i] = items[i],
         SaveItems(new, done), UNCHANGED <<loadoutVars, statVars, drawVars>>
  PROVE  BelongingsIInv'
<1>1. ItemsTypeOK'
  BY DEF SaveItems, loadoutVars, statVars, drawVars, BelongingsIInv, ItemsTypeOK, ItemsOf
<1>2. \A i \in ItemIds \ half' : items'[i] = toldItems'[i] /\ itemsSaved'[i] = toldItems'[i]
  BY DEF SaveItems, BelongingsIInv, ToldIsKept
<1>3. ToldIsKept'
  BY <1>2 DEF loadoutVars, statVars, BelongingsIInv, ToldIsKept
<1> QED  BY <1>1, <1>3 DEF BelongingsIInv

LEMMA PanicOnInv ==
  ASSUME BelongingsIInv, NEW new, ItemsOf(new), NEW touched \in SUBSET ItemIds,
         \A i \in ItemIds \ touched : new[i] = items[i],
         PanicOn(new, touched), UNCHANGED <<loadoutVars, statVars, drawVars>>
  PROVE  BelongingsIInv'
<1>1. ItemsTypeOK'
  BY DEF PanicOn, loadoutVars, statVars, drawVars, BelongingsIInv, ItemsTypeOK, ItemsOf
<1>2. \A i \in ItemIds \ half' : items'[i] = toldItems'[i] /\ itemsSaved'[i] = toldItems'[i]
  BY DEF PanicOn, BelongingsIInv, ToldIsKept
<1>3. ToldIsKept'
  BY <1>2 DEF loadoutVars, statVars, BelongingsIInv, ToldIsKept
<1> QED  BY <1>1, <1>3 DEF BelongingsIInv

LEMMA PlaceItemsInv ==
  ASSUME BelongingsIInv, NEW c \in Clients, NEW its \in SUBSET ItemIds, NEW p \in Places,
         PlaceItems(c, its, p)
  PROVE  BelongingsIInv'
<1> DEFINE new == [i \in ItemIds |->
                     IF i \in its THEN [items[i] EXCEPT !.place = p] ELSE items[i]]
<1>1. ItemsOf(new)
  BY DEF BelongingsIInv, ItemsTypeOK, ItemsOf
<1>2. \A i \in ItemIds \ its : new[i] = items[i]
  OBVIOUS
<1>3. SaveItems(new, its) /\ UNCHANGED <<loadoutVars, statVars, drawVars>>
  BY DEF PlaceItems
<1> HIDE DEF new
<1> QED  BY <1>1, <1>2, <1>3, SaveItemsInv

LEMMA MoveToSlotInv ==
  ASSUME BelongingsIInv, NEW c \in Clients, NEW i \in ItemIds, NEW p \in Places,
         MoveToSlot(c, i, p)
  PROVE  BelongingsIInv'
<1> DEFINE new == [items EXCEPT ![i].place = p]
<1>1. ItemsOf(new) /\ \A j \in ItemIds \ {i} : new[j] = items[j]
  BY DEF BelongingsIInv, ItemsTypeOK, ItemsOf
<1>2. PanicOn(new, {i}) /\ UNCHANGED <<loadoutVars, statVars, drawVars>>
  BY DEF MoveToSlot
<1> HIDE DEF new
<1> QED  BY <1>1, <1>2, PanicOnInv

LEMMA UpdateItemAttributesInv ==
  ASSUME BelongingsIInv, NEW c \in Clients, NEW its \in Lists, NEW a \in Amounts,
         UpdateItemAttributes(c, its, a)
  PROVE  BelongingsIInv'
<1> DEFINE panics == {k \in DOMAIN its : its[k] \in Plain}
           done == {its[k] : k \in {j \in DOMAIN its : \A l \in panics : j < l}}
           new == [i \in ItemIds |->
                     IF i \in done THEN [items[i] EXCEPT !.att = a] ELSE items[i]]
<1>1. DOMAIN its \subseteq Nat /\ \A k \in DOMAIN its : its[k] \in ItemIds
  BY DEF Lists
<1>2. done \in SUBSET ItemIds /\ \A i \in done : i \notin Plain
  BY <1>1
<1>3. /\ IF panics = {} THEN SaveItems(new, done) ELSE PanicOn(new, done)
      /\ UNCHANGED <<loadoutVars, statVars, drawVars>>
  BY DEF UpdateItemAttributes
<1> HIDE DEF done, panics
<1>4. ItemsOf(new) /\ \A i \in ItemIds \ done : new[i] = items[i]
  BY <1>2 DEF BelongingsIInv, ItemsTypeOK, ItemsOf
<1> HIDE DEF new
<1> QED  BY <1>2, <1>3, <1>4, SaveItemsInv, PanicOnInv

LEMMA StoreLoadoutInv ==
  ASSUME BelongingsIInv, NEW l \in LoadoutIds, NEW p \in Places, ~loadoutsNil,
         StoreLoadout(l, p), UNCHANGED <<itemVars, statVars, rng, unlucky>>,
         step' \in [Clients -> {"idle", "draw", "spin"}]
  PROVE  BelongingsIInv'
<1>1. loadouts' = [loadouts EXCEPT ![l] = p] /\ loadoutsSaved' = loadouts'
      /\ loadoutsNil' = loadoutsNil /\ toldLoadouts' = [toldLoadouts EXCEPT ![l] = p]
      /\ loadouts = toldLoadouts
  BY DEF StoreLoadout, BelongingsIInv, ToldIsKept
<1>2. ItemsTypeOK'
  BY <1>1 DEF itemVars, statVars, BelongingsIInv, ItemsTypeOK, ItemsOf
<1>3. ToldIsKept'
  BY <1>1 DEF itemVars, statVars, BelongingsIInv, ToldIsKept
<1> QED  BY <1>2, <1>3 DEF BelongingsIInv

\* What goes on around the draws.
LEMMA DrawInv ==
  ASSUME BelongingsIInv, UNCHANGED <<itemVars, loadoutVars, statVars>>,
         rng' \in Clients \cup {None}, step' \in [Clients -> {"idle", "draw", "spin"}],
         unlucky' \in BOOLEAN
  PROVE  BelongingsIInv'
<1>1. ItemsTypeOK'
  BY DEF itemVars, loadoutVars, statVars, BelongingsIInv, ItemsTypeOK, ItemsOf
<1>2. ToldIsKept'
  BY DEF itemVars, loadoutVars, statVars, BelongingsIInv, ToldIsKept
<1> QED  BY <1>1, <1>2 DEF BelongingsIInv

LEMMA NewItemLoadoutInv ==
  ASSUME BelongingsIInv, NEW c \in Clients, NEW p \in Places, NewItemLoadout(c, p)
  PROVE  BelongingsIInv'
<1>1. PICK l \in LoadoutIds :
        IF loadouts[l] # None
        THEN rng' = c /\ unlucky' = TRUE /\ UNCHANGED <<step, loadoutVars>>
        ELSE /\ StoreLoadout(l, p)
             /\ step' = [step EXCEPT ![c] = "idle"]
             /\ UNCHANGED <<rng, unlucky>>
  BY DEF NewItemLoadout
<1>2. ~loadoutsNil /\ UNCHANGED <<itemVars, statVars>>
  BY DEF NewItemLoadout
<1>3. step \in [Clients -> {"idle", "draw", "spin"}]
  BY DEF BelongingsIInv, ItemsTypeOK
<1>4. CASE loadouts[l] # None
  BY <1>1, <1>2, <1>3, <1>4, DrawInv
<1>5. CASE loadouts[l] = None
  <2>1. step' \in [Clients -> {"idle", "draw", "spin"}]
    BY <1>1, <1>3, <1>5
  <2> QED  BY <1>1, <1>2, <1>5, <2>1, StoreLoadoutInv
<1> QED  BY <1>4, <1>5

LEMMA SetAvatarStatValuesInv ==
  ASSUME BelongingsIInv, NEW c \in Clients, NEW ss \in SUBSET Stats, NEW v \in Amounts,
         SetAvatarStatValues(c, ss, v)
  PROVE  BelongingsIInv'
<1> DEFINE set == ss \ Fixed
           new == {s \in set : stats[s] = None}
<1>1. /\ stats' = [s \in Stats |-> IF s \in new THEN v ELSE stats[s]]
      /\ statsSaved' = stats'
      /\ toldStats' = [s \in Stats |-> IF s \in set THEN v ELSE toldStats[s]]
      /\ again' = again \cup (set \ new)
      /\ UNCHANGED <<itemVars, loadoutVars, drawVars>>
  BY DEF SetAvatarStatValues
<1>2. ItemsTypeOK'
  BY <1>1 DEF itemVars, loadoutVars, drawVars, BelongingsIInv, ItemsTypeOK, ItemsOf
<1>3. \A s \in Stats \ again' : stats'[s] = toldStats'[s] /\ statsSaved'[s] = toldStats'[s]
  BY <1>1 DEF BelongingsIInv, ToldIsKept
<1>4. ToldIsKept'
  BY <1>1, <1>3 DEF itemVars, loadoutVars, BelongingsIInv, ToldIsKept
<1> QED  BY <1>2, <1>4 DEF BelongingsIInv

LEMMA ReloadInv ==
  ASSUME BelongingsIInv, Reload
  PROVE  BelongingsIInv'
<1>1. ItemsTypeOK'
  BY DEF Reload, NoLoadouts, BelongingsIInv, ItemsTypeOK, ItemsOf
<1>2. \A i \in ItemIds \ half' : items'[i] = toldItems'[i] /\ itemsSaved'[i] = toldItems'[i]
  BY DEF Reload, BelongingsIInv, ToldIsKept
<1>3. \A s \in Stats \ again' : stats'[s] = toldStats'[s] /\ statsSaved'[s] = toldStats'[s]
  BY DEF Reload, BelongingsIInv, ToldIsKept
<1>4. /\ loadoutsSaved' = toldLoadouts'
      /\ loadouts' = toldLoadouts' \/ (loadoutsNil' /\ loadoutsSaved' # NoLoadouts)
  BY DEF Reload, BelongingsIInv, ToldIsKept
<1>5. ToldIsKept'
  BY <1>2, <1>3, <1>4 DEF ToldIsKept
<1> QED  BY <1>1, <1>5 DEF BelongingsIInv

LEMMA ItemsNextInv == BelongingsIInv /\ [ItemsNext]_belongings => BelongingsIInv'
<1> SUFFICES ASSUME BelongingsIInv, [ItemsNext]_belongings PROVE BelongingsIInv'
  OBVIOUS
<1>0. /\ rng \in Clients \cup {None} /\ step \in [Clients -> {"idle", "draw", "spin"}]
      /\ unlucky \in BOOLEAN
  BY DEF BelongingsIInv, ItemsTypeOK
<1>1. ASSUME NEW c \in Clients, ItemsStep(c) PROVE BelongingsIInv'
  <2>1. ASSUME NEW p \in Places, NEW its \in SUBSET ItemIds, PlaceItems(c, its, p)
        PROVE  BelongingsIInv'
    BY <2>1, PlaceItemsInv
  <2>2. ASSUME NEW p \in Places, NEW i \in ItemIds, MoveToSlot(c, i, p)
        PROVE  BelongingsIInv'
    BY <2>2, MoveToSlotInv
  <2>3. ASSUME NEW p \in Places, NewItemLoadout(c, p) PROVE BelongingsIInv'
    BY <2>3, NewItemLoadoutInv
  <2>4. ASSUME NEW p \in Places, NEW l \in LoadoutIds, UpdateItemLoadout(c, l, p)
        PROVE  BelongingsIInv'
    <3>1. /\ ~loadoutsNil /\ StoreLoadout(l, p)
          /\ UNCHANGED <<itemVars, statVars, rng, unlucky>> /\ step' = step
      BY <2>4 DEF UpdateItemLoadout, drawVars
    <3> QED  BY <1>0, <3>1, StoreLoadoutInv
  <2>5. ASSUME NEW its \in Lists, NEW a \in Amounts, UpdateItemAttributes(c, its, a)
        PROVE  BelongingsIInv'
    BY <2>5, UpdateItemAttributesInv
  <2>6. CASE CreateItemLoadout(c) \/ NoLoadoutsPanic(c) \/ DrawItemId(c)
    <3>1. /\ UNCHANGED <<itemVars, loadoutVars, statVars>>
          /\ rng' \in Clients \cup {None} /\ step' \in [Clients -> {"idle", "draw", "spin"}]
          /\ unlucky' \in BOOLEAN
      BY <1>0, <2>6 DEF CreateItemLoadout, NoLoadoutsPanic, DrawItemId
    <3> QED  BY <3>1, DrawInv
  <2>7. ASSUME NEW ss \in SUBSET Stats, NEW v \in Amounts, SetAvatarStatValues(c, ss, v)
        PROVE  BelongingsIInv'
    BY <2>7, SetAvatarStatValuesInv
  <2> QED  BY <1>1, <2>1, <2>2, <2>3, <2>4, <2>5, <2>6, <2>7 DEF ItemsStep
<1>2. CASE Reload
  BY <1>2, ReloadInv
<1>3. CASE UNCHANGED belongings
  BY <1>0, <1>3, DrawInv DEF belongings, drawVars
<1> QED  BY <1>1, <1>2, <1>3 DEF ItemsNext

LEMMA ItemsInvariance == ItemsSpec => []BelongingsIInv
BY ItemsInitInv, ItemsNextInv, PTL DEF ItemsSpec

\* What a user owns keeps its type, through the file and back.
THEOREM ItemsTypeCorrect == ItemsSpec => []ItemsTypeOK
<1>1. BelongingsIInv => ItemsTypeOK
  BY DEF BelongingsIInv
<1> QED  BY <1>1, ItemsInvariance, PTL

\* What the client has been told it owns is in memory and in the file, however often the server
\* starts again: but for the items of a panic, a statistic set twice and loadouts that cannot be
\* read (routes/game/item, setAvatarStatValues.go, models/item.go).
THEOREM OwnedIsKept == ItemsSpec => []ToldIsKept
<1>1. BelongingsIInv => ToldIsKept
  BY DEF BelongingsIInv
<1> QED  BY <1>1, ItemsInvariance, PTL

-----------------------------------------------------------------------------
\* In a labyrinth every path leads to the boss.

\* Of two columns side by side, each mission of one has a neighbour in the other.
Linked(before, rows) ==
  /\ \A p \in before : \E q \in rows : q \in connectablePositions(p)
  /\ \A q \in rows : \E p \in before : q \in connectablePositions(p)

\* No column is empty, the last is the boss's, and those before it are linked.
ColumnsLinked ==
  \A c \in 1 .. Len(nodeRows) :
    /\ nodeRows[c] # {}
    /\ c = Columns => nodeRows[c] = {0}
    /\ 1 < c /\ c < Columns => Linked(nodeRows[c - 1], nodeRows[c])

\* So is the column that is being placed, from its first pass on.
FillingLinked ==
  pass # <<>> =>
    /\ Len(plan) = Columns /\ nodeRows # <<>> /\ Len(nodeRows) + 1 < Columns
    /\ filling # {} /\ Linked(previousRows, filling)

PlanBegins == plan # <<>> => plan[1] > 0

\* The columns are connected when all of them are placed.
ConnectedLast ==
  /\ predecessors \in Seq(UNION {[rows -> SUBSET RowNumbers] : rows \in SUBSET RowNumbers})
  /\ predecessors # <<>> => Len(nodeRows) = Columns

LabyrinthIInv ==
  /\ LabyrinthTypeOK
  /\ ColumnsLinked
  /\ FillingLinked
  /\ PlanBegins
  /\ ConnectedLast
  /\ PathsLeadToTheBoss

\* The paths between two columns, with nothing left that is not there.
Paths(before, rows, pred) ==
  /\ \A row \in rows : pred[row] # {} /\ pred[row] \subseteq before
  /\ \A p \in before : \E row \in rows : p \in pred[row]
  /\ \A row \in rows : ~(row + 1 \in rows /\ row + 1 \in pred[row] /\ row \in pred[row + 1])

-----------------------------------------------------------------------------
LEMMA PathsAre ==
  PathsLeadToTheBoss <=>
    \A c \in 2 .. Len(predecessors) : Paths(nodeRows[c - 1], nodeRows[c], predecessors[c])
BY DEF PathsLeadToTheBoss, NoDeadEnd, NoCrossing, Paths

LEMMA RowNumbersType ==
  /\ RowNumbers \subseteq Nat /\ 0 \in RowNumbers
  /\ Columns \in Nat /\ Columns > 1
  /\ \A row \in RowNumbers : row \in connectablePositions(row)
BY LabyrinthAssumption DEF RowNumbers, connectablePositions

LEMMA LabyrinthInitInv == LabyrinthInit => LabyrinthIInv
<1> SUFFICES ASSUME LabyrinthInit PROVE LabyrinthIInv
  OBVIOUS
<1>1. /\ plan = <<>> /\ nodeRows = <<>> /\ filling = {} /\ pass = <<>> /\ predecessors = <<>>
      /\ Len(nodeRows) = 0 /\ Len(predecessors) = 0 /\ Len(plan) = 0
  BY DEF LabyrinthInit
<1>2. LabyrinthTypeOK
  BY <1>1, RowNumbersType DEF LabyrinthTypeOK
<1>3. ColumnsLinked /\ FillingLinked /\ PlanBegins /\ ConnectedLast /\ PathsLeadToTheBoss
  BY <1>1 DEF ColumnsLinked, FillingLinked, PlanBegins, ConnectedLast, PathsLeadToTheBoss
<1> QED  BY <1>2, <1>3 DEF LabyrinthIInv

LEMMA PlanColumnInv ==
  ASSUME LabyrinthIInv, PlanColumn
  PROVE  LabyrinthIInv'
<1>1. /\ plan \in Seq(Nat) /\ Len(plan) < Columns
      /\ UNCHANGED <<nodeRows, filling, pass, predecessors>>
  BY DEF PlanColumn, LabyrinthIInv, LabyrinthTypeOK
<1>2. PICK n : /\ n \in CASE plan = <<>> -> FirstSizes
                          [] Len(plan) + 1 = Columns -> {1}
                          [] OTHER -> SizesAfter(plan[Len(plan)])
               /\ plan' = Append(plan, n)
  BY DEF PlanColumn
<1>3. n \in Nat /\ n > 0
  <2>1. CASE plan = <<>>
    <3>1. Len(plan) + 1 # Columns
      BY <2>1, RowNumbersType
    <3> QED  BY <1>2, <2>1, <3>1, LabyrinthAssumption
  <2>2. CASE plan # <<>> /\ Len(plan) + 1 = Columns
    BY <1>2, <2>2
  <2>3. CASE plan # <<>> /\ Len(plan) + 1 # Columns
    BY <1>2, <2>3, LabyrinthAssumption DEF SizesAfter
  <2> QED  BY <2>1, <2>2, <2>3
<1>4. /\ plan' \in Seq(Nat) /\ Len(plan') = Len(plan) + 1
      /\ plan'[1] = IF plan = <<>> THEN n ELSE plan[1]
  BY <1>1, <1>2, <1>3
<1>5. LabyrinthTypeOK'
  BY <1>1, <1>4, RowNumbersType DEF LabyrinthIInv, LabyrinthTypeOK
<1>6. PlanBegins' /\ FillingLinked'
  BY <1>1, <1>3, <1>4 DEF LabyrinthIInv, PlanBegins, FillingLinked
<1>7. ColumnsLinked' /\ ConnectedLast'
  BY <1>1 DEF LabyrinthIInv, ColumnsLinked, ConnectedLast
<1>8. PathsLeadToTheBoss'
  BY <1>1 DEF LabyrinthIInv, PathsLeadToTheBoss, NoDeadEnd, NoCrossing
<1> QED  BY <1>5, <1>6, <1>7, <1>8 DEF LabyrinthIInv

\* A column is added to those that are placed.
LEMMA ColumnAdded ==
  ASSUME LabyrinthIInv, Len(nodeRows) < Columns, NEW rows \in SUBSET RowNumbers, rows # {},
         nodeRows' = Append(nodeRows, rows),
         Len(nodeRows) + 1 = Columns => rows = {0},
         nodeRows # <<>> /\ Len(nodeRows) + 1 < Columns => Linked(previousRows, rows),
         UNCHANGED <<plan, predecessors>>, filling' \in SUBSET RowNumbers, pass' = <<>>
  PROVE  LabyrinthIInv'
<1>1. /\ nodeRows \in Seq(SUBSET RowNumbers) /\ Len(nodeRows) \in Nat
      /\ nodeRows' \in Seq(SUBSET RowNumbers) /\ Len(nodeRows') = Len(nodeRows) + 1
      /\ \A c \in 1 .. Len(nodeRows) : nodeRows'[c] = nodeRows[c]
      /\ nodeRows'[Len(nodeRows) + 1] = rows
  BY DEF LabyrinthIInv, LabyrinthTypeOK
<1>2. predecessors = <<>> /\ predecessors' = <<>> /\ Len(predecessors') = 0
  BY <1>1, RowNumbersType DEF LabyrinthIInv, ConnectedLast
<1>3. LabyrinthTypeOK'
  BY <1>1, <1>2, RowNumbersType DEF LabyrinthIInv, LabyrinthTypeOK
<1>4. ColumnsLinked'
  <2> SUFFICES ASSUME NEW c \in 1 .. Len(nodeRows) + 1
               PROVE  /\ nodeRows'[c] # {}
                      /\ c = Columns => nodeRows'[c] = {0}
                      /\ 1 < c /\ c < Columns => Linked(nodeRows'[c - 1], nodeRows'[c])
    BY <1>1 DEF ColumnsLinked
  <2>1. CASE c \in 1 .. Len(nodeRows)
    <3>1. 1 < c => c - 1 \in 1 .. Len(nodeRows)
      BY <1>1, <2>1
    <3> QED  BY <1>1, <2>1, <3>1 DEF LabyrinthIInv, ColumnsLinked
  <2>2. CASE c = Len(nodeRows) + 1
    <3>1. 1 < c => nodeRows # <<>> /\ nodeRows'[c - 1] = previousRows
      BY <1>1, <2>2 DEF previousRows
    <3> QED  BY <1>1, <2>2, <3>1
  <2> QED  BY <1>1, <2>1, <2>2
<1>5. FillingLinked' /\ PlanBegins' /\ ConnectedLast' /\ PathsLeadToTheBoss'
  BY <1>2 DEF LabyrinthIInv, FillingLinked, PlanBegins, ConnectedLast, PathsLeadToTheBoss
<1> QED  BY <1>3, <1>4, <1>5 DEF LabyrinthIInv

LEMMA PlaceFirstInv ==
  ASSUME LabyrinthIInv, PlaceFirst
  PROVE  LabyrinthIInv'
<1>1. PICK S \in SUBSET RowNumbers : Cardinality(S) = plan[1] /\ nodeRows' = <<S>>
  BY DEF PlaceFirst
<1>2. /\ Len(plan) = Columns /\ nodeRows = <<>> /\ Len(nodeRows) = 0
      /\ UNCHANGED <<plan, filling, pass, predecessors>>
  BY DEF PlaceFirst, Placing
<1>3. plan[1] > 0
  BY <1>2, RowNumbersType DEF LabyrinthIInv, PlanBegins
<1>4. S # {}
  BY <1>1, <1>3, FS_EmptySet
<1>5. nodeRows' = Append(nodeRows, S) /\ pass' = <<>> /\ filling' \in SUBSET RowNumbers
  BY <1>1, <1>2 DEF LabyrinthIInv, LabyrinthTypeOK, FillingLinked
<1> QED  BY <1>2, <1>4, <1>5, <1>1, RowNumbersType, ColumnAdded

\* The passes over a column.
LEMMA FillingStep ==
  ASSUME LabyrinthIInv, UNCHANGED <<plan, nodeRows, predecessors>>,
         Len(plan) = Columns, nodeRows # <<>>, Len(nodeRows) + 1 < Columns,
         filling' \in SUBSET RowNumbers, filling' # {}, Linked(previousRows, filling'),
         pass' \in (1 .. WindowLen + 1) \X (1 .. WindowLen)
  PROVE  LabyrinthIInv'
<1>1. LabyrinthTypeOK' /\ ColumnsLinked' /\ PlanBegins' /\ ConnectedLast'
  BY DEF LabyrinthIInv, LabyrinthTypeOK, ColumnsLinked, PlanBegins, ConnectedLast
<1>2. FillingLinked' /\ PathsLeadToTheBoss'
  BY DEF FillingLinked, previousRows, LabyrinthIInv, PathsLeadToTheBoss, NoDeadEnd, NoCrossing
<1> QED  BY <1>1, <1>2 DEF LabyrinthIInv

LEMMA PreviousRows ==
  ASSUME LabyrinthIInv, nodeRows # <<>>
  PROVE  previousRows \subseteq RowNumbers /\ previousRows # {}
<1>1. Len(nodeRows) \in 1 .. Len(nodeRows)
  BY DEF LabyrinthIInv, LabyrinthTypeOK
<1> QED  BY <1>1 DEF LabyrinthIInv, LabyrinthTypeOK, ColumnsLinked, previousRows

LEMMA TakeBestInv ==
  ASSUME LabyrinthIInv, TakeBest
  PROVE  LabyrinthIInv'
<1>1. PICK best \in [previousRows -> RowNumbers] :
        /\ \A p \in previousRows : best[p] \in BestPositions(p)
        /\ filling' = {best[p] : p \in previousRows}
  BY DEF TakeBest
<1>2. /\ Len(plan) = Columns /\ nodeRows # <<>> /\ Len(nodeRows) + 1 < Columns
      /\ pass' = <<1, WindowLen>> /\ UNCHANGED <<plan, nodeRows, predecessors>>
  BY DEF TakeBest, Placing
<1>3. \A p \in previousRows : best[p] \in connectablePositions(p)
  BY <1>1 DEF BestPositions
<1>4. previousRows # {}
  BY <1>2, PreviousRows
<1>5. filling' \in SUBSET RowNumbers /\ filling' # {} /\ Linked(previousRows, filling')
  BY <1>1, <1>3, <1>4 DEF Linked
<1>6. pass' \in (1 .. WindowLen + 1) \X (1 .. WindowLen)
  BY <1>2 DEF WindowLen
<1> QED  BY <1>2, <1>5, <1>6, FillingStep

LEMMA TakeCandidatesInv ==
  ASSUME LabyrinthIInv, TakeCandidates
  PROVE  LabyrinthIInv'
<1>1. PICK S \in SUBSET Candidates(pass[1], pass[2]) : filling' = filling \cup S
  BY DEF TakeCandidates
<1>2. /\ pass # <<>> /\ pass[1] <= WindowLen
      /\ pass' = IF pass[2] > 1 THEN <<pass[1], pass[2] - 1>> ELSE <<pass[1] + 1, WindowLen>>
      /\ UNCHANGED <<plan, nodeRows, predecessors>>
  BY DEF TakeCandidates
<1>3. /\ Len(plan) = Columns /\ nodeRows # <<>> /\ Len(nodeRows) + 1 < Columns
      /\ filling # {} /\ Linked(previousRows, filling) /\ filling \subseteq RowNumbers
      /\ pass \in (1 .. WindowLen + 1) \X (1 .. WindowLen)
  BY <1>2 DEF LabyrinthIInv, LabyrinthTypeOK, FillingLinked
<1>4. ASSUME NEW q \in S
      PROVE  q \in RowNumbers /\ \E p \in previousRows : q \in connectablePositions(p)
  BY <1>1 DEF Candidates, positionToNodes
<1>5. filling' \in SUBSET RowNumbers /\ filling' # {}
  BY <1>1, <1>3, <1>4
<1>6. Linked(previousRows, filling')
  BY <1>1, <1>3, <1>4 DEF Linked
<1>7. pass' \in (1 .. WindowLen + 1) \X (1 .. WindowLen)
  BY <1>2, <1>3 DEF WindowLen
<1> QED  BY <1>2, <1>3, <1>5, <1>6, <1>7, FillingStep

LEMMA PlaceColumnInv ==
  ASSUME LabyrinthIInv, PlaceColumn
  PROVE  LabyrinthIInv'
<1>1. /\ pass # <<>> /\ nodeRows' = Append(nodeRows, filling) /\ filling' = {} /\ pass' = <<>>
      /\ UNCHANGED <<plan, predecessors>>
  BY DEF PlaceColumn
<1>2. /\ Len(nodeRows) + 1 < Columns /\ filling # {} /\ Linked(previousRows, filling)
      /\ filling \in SUBSET RowNumbers /\ Len(nodeRows) \in Nat
  BY <1>1 DEF LabyrinthIInv, LabyrinthTypeOK, FillingLinked
<1>3. Len(nodeRows) < Columns /\ Len(nodeRows) + 1 # Columns
  BY <1>2, RowNumbersType
<1>4. filling' \in SUBSET RowNumbers
  BY <1>1
<1> QED  BY <1>1, <1>2, <1>3, <1>4, ColumnAdded

LEMMA PlaceBossInv ==
  ASSUME LabyrinthIInv, PlaceBoss
  PROVE  LabyrinthIInv'
<1>1. /\ Len(nodeRows) < Columns /\ Len(nodeRows) + 1 = Columns
      /\ nodeRows' = Append(nodeRows, {0})
      /\ UNCHANGED <<plan, filling, pass, predecessors>>
  BY DEF PlaceBoss, Placing
<1>2. pass' = <<>> /\ filling' \in SUBSET RowNumbers
  BY <1>1, RowNumbersType DEF LabyrinthIInv, LabyrinthTypeOK, FillingLinked
<1>3. {0} \in SUBSET RowNumbers /\ {0} # {} /\ ~(Len(nodeRows) + 1 < Columns)
  BY <1>1, RowNumbersType
<1> QED  BY <1>1, <1>2, <1>3, ColumnAdded

\* Of two paths that cross one goes, and neither of the straight ones beside them: where a path
\* was removed there is another.
LEMMA UncrossedPaths ==
  ASSUME LabyrinthIInv, Len(nodeRows) = Columns, NEW c \in 2 .. Columns,
         NEW ups \in SUBSET Crossings(c)
  PROVE  Paths(nodeRows[c - 1], nodeRows[c],
               [row \in nodeRows[c] |-> Uncrossed(c, ups, row)])
<1> DEFINE before == nodeRows[c - 1]
           rows == nodeRows[c]
<1>1. /\ before \subseteq RowNumbers /\ rows \subseteq RowNumbers /\ RowNumbers \subseteq Nat
      /\ before # {} /\ rows # {}
      /\ c = Columns => rows = {0}
      /\ c < Columns => Linked(before, rows)
      /\ c # 1
  BY RowNumbersType DEF LabyrinthIInv, LabyrinthTypeOK, ColumnsLinked
<1>2. /\ c = Columns => \A row : Reachable(c, row) = before
      /\ c < Columns =>
           \A row : Reachable(c, row) = {p \in before : row \in connectablePositions(p)}
  BY <1>1, RowNumbersType DEF Reachable
<1>3. /\ \A p \in Crossings(c) : /\ p \in rows /\ p + 1 \in rows
                                 /\ p \in before /\ p + 1 \in before
      /\ \A p \in rows \cap before :
           /\ p + 1 \in rows \cap before /\ p + 1 \in Reachable(c, p) /\ p \in Reachable(c, p + 1)
           => p \in Crossings(c)
  BY <1>1 DEF Crossings
<1>4. \A row, p : p \in Uncrossed(c, ups, row) <=>
        /\ p \in Reachable(c, row)
        /\ ~(p = row + 1 /\ row \in ups)
        /\ ~(row = p + 1 /\ p \in Crossings(c) \ ups)
  BY DEF Uncrossed
<1> HIDE DEF before, rows
<1>5. ASSUME NEW row \in rows
      PROVE  Uncrossed(c, ups, row) \subseteq before
  BY <1>1, <1>2, <1>4, RowNumbersType
<1>6. ASSUME NEW row \in rows
      PROVE  Uncrossed(c, ups, row) # {}
  <2>1. CASE c = Columns
    <3>1. row = 0 /\ Crossings(c) = {}
      BY <1>1, <1>3, <2>1
    <3> QED  BY <1>1, <1>2, <1>4, <2>1, <3>1
  <2>2. CASE c < Columns
    <3>1. PICK p \in before : row \in connectablePositions(p)
      BY <1>1, <2>2 DEF Linked
    <3>2. CASE row \in before
      <4>1. row \in Reachable(c, row)
        BY <1>1, <1>2, <2>2, <3>2, RowNumbersType
      <4> QED  BY <1>1, <1>4, <4>1
    <3>3. CASE row \notin before
      BY <1>1, <1>2, <1>3, <1>4, <2>2, <3>1, <3>3
    <3> QED  BY <3>2, <3>3
  <2> QED  BY <2>1, <2>2, RowNumbersType
<1>7. ASSUME NEW p \in before
      PROVE  \E row \in rows : p \in Uncrossed(c, ups, row)
  <2>1. CASE c = Columns
    <3>1. 0 \in rows /\ Crossings(c) = {}
      BY <1>1, <1>3, <2>1
    <3> QED  BY <1>1, <1>2, <1>4, <2>1, <3>1
  <2>2. CASE c < Columns
    <3>1. PICK row \in rows : row \in connectablePositions(p)
      BY <1>1, <2>2 DEF Linked
    <3>2. CASE p \in rows
      <4>1. p \in Reachable(c, p)
        BY <1>1, <1>2, <2>2, <3>2, RowNumbersType
      <4> QED  BY <1>1, <1>4, <3>2, <4>1
    <3>3. CASE p \notin rows
      <4>1. p \in Uncrossed(c, ups, row)
        BY <1>1, <1>2, <1>3, <1>4, <2>2, <3>1, <3>3
      <4> QED  BY <4>1
    <3> QED  BY <3>2, <3>3
  <2> QED  BY <2>1, <2>2, RowNumbersType
<1>8. ASSUME NEW row \in rows, row + 1 \in rows, row + 1 \in Uncrossed(c, ups, row),
             row \in Uncrossed(c, ups, row + 1)
      PROVE  FALSE
  <2>1. row + 1 \in Reachable(c, row) /\ row \in Reachable(c, row + 1)
    BY <1>4, <1>8
  <2>2. row \in before /\ row + 1 \in before
    BY <1>5, <1>8
  <2>3. row \in Crossings(c)
    BY <1>3, <1>8, <2>1, <2>2
  <2> QED  BY <1>4, <1>8, <2>3
<1> QED  BY <1>5, <1>6, <1>7, <1>8 DEF Paths, before, rows

LEMMA ConnectColumnInv ==
  ASSUME LabyrinthIInv, ConnectColumn
  PROVE  LabyrinthIInv'
<1> DEFINE c == Len(predecessors) + 1
<1>1. /\ Len(nodeRows) = Columns /\ Len(predecessors) < Columns
      /\ UNCHANGED <<plan, nodeRows, filling, pass>>
  BY DEF ConnectColumn
<1>2. PICK ups \in SUBSET Crossings(c) :
        predecessors' = Append(predecessors, [row \in nodeRows[c] |-> Uncrossed(c, ups, row)])
  BY DEF ConnectColumn
<1> DEFINE new == [row \in nodeRows[c] |-> Uncrossed(c, ups, row)]
           All == UNION {[rows -> SUBSET RowNumbers] : rows \in SUBSET RowNumbers}
<1>3. predecessors \in Seq(All) /\ Len(predecessors) \in Nat /\ c \in 1 .. Columns
  BY <1>1, RowNumbersType DEF LabyrinthIInv, ConnectedLast
<1>4. nodeRows[c] \subseteq RowNumbers
  BY <1>1, <1>3 DEF LabyrinthIInv, LabyrinthTypeOK
<1>5. c \in 2 .. Columns => Paths(nodeRows[c - 1], nodeRows[c], new)
  BY <1>1, UncrossedPaths
<1>6. new \in [nodeRows[c] -> SUBSET RowNumbers]
  <2> SUFFICES ASSUME NEW row \in nodeRows[c] PROVE Uncrossed(c, ups, row) \subseteq RowNumbers
    OBVIOUS
  <2>1. CASE c = 1
    BY <2>1, RowNumbersType DEF Uncrossed, Reachable
  <2>2. CASE c # 1
    <3>1. c \in 2 .. Columns /\ c - 1 \in 1 .. Columns
      BY <1>3, <2>2, RowNumbersType
    <3>2. new[row] \subseteq nodeRows[c - 1]
      BY <1>5, <3>1 DEF Paths
    <3>3. nodeRows[c - 1] \subseteq RowNumbers
      BY <1>1, <3>1 DEF LabyrinthIInv, LabyrinthTypeOK
    <3> QED  BY <3>2, <3>3
  <2> QED  BY <2>1, <2>2
<1>7. new \in All
  BY <1>4, <1>6, Zenon
<1> HIDE DEF new, All, c
<1>8. /\ predecessors' \in Seq(All) /\ Len(predecessors') = c /\ predecessors'[c] = new
      /\ \A d \in 1 .. c - 1 : predecessors'[d] = predecessors[d]
      /\ Len(predecessors) = c - 1
  BY <1>2, <1>3, <1>7 DEF new, c
<1>9. LabyrinthTypeOK'
  <2>1. ASSUME NEW d \in 1 .. c
        PROVE  predecessors'[d] \in [nodeRows[d] -> SUBSET RowNumbers]
    <3>1. CASE d = c
      BY <1>6, <1>8, <3>1
    <3>2. CASE d # c
      BY <1>3, <1>8, <3>2 DEF LabyrinthIInv, LabyrinthTypeOK
    <3> QED  BY <3>1, <3>2
  <2> QED  BY <1>1, <1>3, <1>8, <2>1 DEF LabyrinthIInv, LabyrinthTypeOK
<1>10. ASSUME NEW d \in 2 .. c
       PROVE  Paths(nodeRows[d - 1], nodeRows[d], predecessors'[d])
  <2>1. CASE d = c
    BY <1>3, <1>5, <1>8, <2>1
  <2>2. CASE d # c
    BY <1>3, <1>8, <2>2, PathsAre DEF LabyrinthIInv
  <2> QED  BY <2>1, <2>2
<1>11. PathsLeadToTheBoss'
  BY <1>1, <1>8, <1>10 DEF PathsLeadToTheBoss, NoDeadEnd, NoCrossing, Paths
<1>12. ColumnsLinked' /\ FillingLinked' /\ PlanBegins'
  BY <1>1 DEF LabyrinthIInv, ColumnsLinked, FillingLinked, PlanBegins, previousRows
<1>13. ConnectedLast'
  BY <1>1, <1>8 DEF ConnectedLast, All
<1> QED  BY <1>9, <1>11, <1>12, <1>13 DEF LabyrinthIInv

LEMMA DoneInv ==
  ASSUME LabyrinthIInv, Done
  PROVE  LabyrinthIInv'
<1>1. /\ plan' = <<>> /\ nodeRows' = <<>> /\ predecessors' = <<>>
      /\ Len(nodeRows') = 0 /\ Len(predecessors') = 0 /\ Len(plan') = 0
      /\ UNCHANGED <<filling, pass>>
  BY DEF Done
<1>2. pass = <<>>
  BY RowNumbersType
     DEF Done, LabyrinthIInv, LabyrinthTypeOK, FillingLinked, ConnectedLast
<1>3. LabyrinthTypeOK'
  BY <1>1, RowNumbersType DEF LabyrinthIInv, LabyrinthTypeOK
<1>4. /\ ColumnsLinked' /\ FillingLinked' /\ PlanBegins' /\ ConnectedLast'
      /\ PathsLeadToTheBoss'
  BY <1>1, <1>2 DEF ColumnsLinked, FillingLinked, PlanBegins, ConnectedLast, PathsLeadToTheBoss
<1> QED  BY <1>3, <1>4 DEF LabyrinthIInv

LEMMA LabyrinthNextInv == LabyrinthIInv /\ [LabyrinthNext]_labyrinthVars => LabyrinthIInv'
<1> SUFFICES ASSUME LabyrinthIInv, [LabyrinthNext]_labyrinthVars PROVE LabyrinthIInv'
  OBVIOUS
<1>1. CASE PlanColumn
  BY <1>1, PlanColumnInv
<1>2. CASE PlaceFirst \/ PlaceColumn \/ PlaceBoss
  BY <1>2, PlaceFirstInv, PlaceColumnInv, PlaceBossInv
<1>3. CASE TakeBest \/ TakeCandidates
  BY <1>3, TakeBestInv, TakeCandidatesInv
<1>4. CASE ConnectColumn \/ Done
  BY <1>4, ConnectColumnInv, DoneInv
<1>5. CASE UNCHANGED labyrinthVars
  BY <1>5 DEF labyrinthVars, LabyrinthIInv, LabyrinthTypeOK, ColumnsLinked, FillingLinked,
    previousRows, PlanBegins, ConnectedLast, PathsLeadToTheBoss, NoDeadEnd, NoCrossing
<1> QED  BY <1>1, <1>2, <1>3, <1>4, <1>5 DEF LabyrinthNext

LEMMA LabyrinthInvariance == LabyrinthSpec => []LabyrinthIInv
BY LabyrinthInitInv, LabyrinthNextInv, PTL DEF LabyrinthSpec

\* The labyrinth under construction keeps its type.
THEOREM LabyrinthTypeCorrect == LabyrinthSpec => []LabyrinthTypeOK
<1>1. LabyrinthIInv => LabyrinthTypeOK
  BY DEF LabyrinthIInv
<1> QED  BY <1>1, LabyrinthInvariance, PTL

\* Of labyrinths of every size and whatever the random choices: every mission can be reached
\* and leads on, and no two paths cross (generator.go, whose last loop removes paths one by one
\* and looks at none of the others).
THEOREM LabyrinthsAreWhole == LabyrinthSpec => []PathsLeadToTheBoss
<1>1. LabyrinthIInv => PathsLeadToTheBoss
  BY DEF LabyrinthIInv
<1> QED  BY <1>1, LabyrinthInvariance, PTL

-----------------------------------------------------------------------------
\* What a client knows of its gauntlet is what the version tells.

\* The client never has a version that is still to come, and of the server's it has the data,
\* whether or not a poll is in progress.
ClientIsBehind ==
  /\ client.version # None => client.version <= version
  /\ client.version = version => client.copy = Current

\* A poll whose version is still the server's points to the current challenge, and one that
\* sends nothing is of a client with that version.
PollPoints ==
  poll # None =>
    /\ poll.version <= version
    /\ poll.version = version => poll.place = Len(challenges)
    /\ ~poll.sent => client.version = poll.version

GauntletIInv == GauntletTypeOK /\ ClientIsBehind /\ PollPoints

-----------------------------------------------------------------------------
LEMMA NoChallengeType ==
  /\ NoChallenge \in ChallengeType
  /\ \A missions \in SUBSET Played : [NoChallenge EXCEPT !.missions = missions] \in ChallengeType
<1>1. NoChallenge \in ChallengeType
  BY DEF NoChallenge, ChallengeType
<1>2. ASSUME NEW missions \in SUBSET Played
      PROVE  [NoChallenge EXCEPT !.missions = missions] \in ChallengeType
  BY <1>1 DEF ChallengeType
<1> QED  BY <1>1, <1>2

LEMMA WonType ==
  ASSUME NEW c \in ChallengeType, NEW m \in Played
  PROVE  Won(c, m) \in ChallengeType
<1>1. /\ c.missions \subseteq Played /\ c.completed \in Seq(Played)
      /\ c.inventory \in Seq(Played)
  BY DEF ChallengeType
<1> DEFINE completed == Append(c.completed, m)
           inventory == IF m \in c.missions THEN Append(c.inventory, m) ELSE c.inventory
<1>2. completed \in Seq(Played) /\ inventory \in Seq(Played)
  BY <1>1
<1>3. Won(c, m) = [c EXCEPT !.completed = completed, !.inventory = inventory, !.playing = None]
  BY DEF Won
<1> HIDE DEF completed, inventory
<1> QED  BY <1>2, <1>3 DEF ChallengeType

LEMMA AtType ==
  ASSUME GauntletTypeOK, NEW place \in 0 .. Len(challenges)
  PROVE  At(place) \in ChallengeType
BY NoChallengeType DEF At, GauntletTypeOK

LEMMA GauntletInitInv == GauntletInit => GauntletIInv
<1> SUFFICES ASSUME GauntletInit PROVE GauntletIInv
  OBVIOUS
<1>1. GauntletTypeOK
  BY GauntletAssumption DEF GauntletInit, GauntletTypeOK
<1>2. ClientIsBehind /\ PollPoints
  BY GauntletAssumption DEF GauntletInit, ClientIsBehind, PollPoints
<1> QED  BY <1>1, <1>2 DEF GauntletIInv

\* A change of the data counts: a poll and the client fall behind by it.
LEMMA ChangeCounts ==
  ASSUME GauntletIInv, version < MaxVersion, version' = version + 1, UNCHANGED <<poll, client>>,
         challenges' \in Seq(ChallengeType), Len(challenges) <= Len(challenges')
  PROVE  GauntletIInv'
<1>1. GauntletTypeOK'
  BY GauntletAssumption DEF GauntletIInv, GauntletTypeOK
<1>2. ClientIsBehind' /\ PollPoints'
  BY GauntletAssumption DEF GauntletIInv, GauntletTypeOK, ClientIsBehind, PollPoints
<1> QED  BY <1>1, <1>2 DEF GauntletIInv

LEMMA BuildInv ==
  ASSUME GauntletIInv, BuildGauntletLabyrinth
  PROVE  GauntletIInv'
<1>1. PICK missions \in SUBSET Played :
        challenges' = Append(challenges, [NoChallenge EXCEPT !.missions = missions])
  BY DEF BuildGauntletLabyrinth
<1>2. challenges' \in Seq(ChallengeType) /\ Len(challenges') = Len(challenges) + 1
  <2> DEFINE new == [NoChallenge EXCEPT !.missions = missions]
  <2>1. new \in ChallengeType /\ challenges' = Append(challenges, new)
    BY <1>1, NoChallengeType
  <2>2. challenges \in Seq(ChallengeType)
    BY DEF GauntletIInv, GauntletTypeOK
  <2> HIDE DEF new
  <2> QED  BY <2>1, <2>2
<1>3. Len(challenges) <= Len(challenges')
  BY <1>2 DEF GauntletIInv, GauntletTypeOK
<1> QED  BY <1>2, <1>3, ChangeCounts DEF BuildGauntletLabyrinth

\* A change of the current challenge.
LEMMA CurrentChanges ==
  ASSUME GauntletIInv, challenges # <<>>, NEW new \in ChallengeType,
         challenges' = [challenges EXCEPT ![Len(challenges)] = new],
         version < MaxVersion, version' = version + 1, UNCHANGED <<poll, client>>
  PROVE  GauntletIInv'
<1>1. challenges' \in Seq(ChallengeType) /\ Len(challenges') = Len(challenges)
  BY DEF GauntletIInv, GauntletTypeOK
<1>2. Len(challenges) <= Len(challenges')
  BY <1>1
<1> QED  BY <1>1, <1>2, ChangeCounts

LEMMA MissionInv ==
  ASSUME GauntletIInv, NEW m \in Played, StartGauntletMission(m) \/ AwardMissionRewards(m)
  PROVE  GauntletIInv'
<1> DEFINE c == challenges[Len(challenges)]
<1>1. /\ challenges # <<>> /\ version < MaxVersion /\ version' = version + 1
      /\ UNCHANGED <<poll, client>>
  BY DEF StartGauntletMission, AwardMissionRewards
<1>2. c \in ChallengeType
  BY <1>1 DEF GauntletIInv, GauntletTypeOK
<1>3. CASE StartGauntletMission(m)
  <2> DEFINE new == [c EXCEPT !.playing = m]
  <2>1. challenges' = [challenges EXCEPT ![Len(challenges)] = new]
    BY <1>3 DEF StartGauntletMission
  <2>2. new \in ChallengeType
    BY <1>2 DEF ChallengeType
  <2> HIDE DEF new
  <2> QED  BY <1>1, <2>1, <2>2, CurrentChanges
<1>4. CASE AwardMissionRewards(m)
  <2> DEFINE new == Won(c, m)
  <2>1. challenges' = [challenges EXCEPT ![Len(challenges)] = new]
    BY <1>4 DEF AwardMissionRewards
  <2>2. new \in ChallengeType
    BY <1>2, WonType
  <2> HIDE DEF new
  <2> QED  BY <1>1, <2>1, <2>2, CurrentChanges
<1> QED  BY <1>3, <1>4

LEMMA ReadOnlyDataInv ==
  ASSUME GauntletIInv, ReadOnlyData
  PROVE  GauntletIInv'
<1> DEFINE new == [version |-> version, place |-> Len(challenges),
                   sent |-> client.version = None \/ client.version < version]
<1>1. poll' = new /\ UNCHANGED <<challenges, version, client>>
  BY DEF ReadOnlyData
<1>2. new \in [version: 0 .. MaxVersion, place: 0 .. Len(challenges), sent: BOOLEAN]
  BY DEF GauntletIInv, GauntletTypeOK
<1>3. new.version = version /\ new.place = Len(challenges)
      /\ (~new.sent => client.version = version)
  <2>1. /\ client.version \in Nat \cup {None} /\ version \in Nat
        /\ client.version # None => client.version <= version
    BY GauntletAssumption DEF GauntletIInv, GauntletTypeOK, ClientIsBehind
  <2>2. ~new.sent => client.version # None /\ ~(client.version < version)
    OBVIOUS
  <2>3. new.version = version /\ new.place = Len(challenges)
    OBVIOUS
  <2> HIDE DEF new
  <2> QED  BY <2>1, <2>2, <2>3
<1> HIDE DEF new
<1>4. GauntletTypeOK' /\ ClientIsBehind'
  BY <1>1, <1>2 DEF GauntletIInv, GauntletTypeOK, ClientIsBehind, Current, At
<1>5. PollPoints'
  BY <1>1, <1>3, GauntletAssumption DEF GauntletIInv, GauntletTypeOK, PollPoints
<1> QED  BY <1>4, <1>5 DEF GauntletIInv

LEMMA RespondOKInv ==
  ASSUME GauntletIInv, RespondOK
  PROVE  GauntletIInv'
<1> DEFINE copy == IF poll.sent THEN At(poll.place) ELSE client.copy
<1>1. /\ poll # None /\ poll' = None
      /\ client'.version = poll.version /\ client'.copy = copy
      /\ UNCHANGED <<challenges, version>>
  BY DEF RespondOK
<1>2. /\ poll.version \in 0 .. MaxVersion /\ poll.place \in 0 .. Len(challenges)
      /\ poll.version <= version
      /\ poll.version = version => poll.place = Len(challenges)
      /\ ~poll.sent => client.version = poll.version
  BY <1>1 DEF GauntletIInv, GauntletTypeOK, PollPoints
<1>3. copy \in ChallengeType \cup {None}
  BY <1>2, AtType DEF GauntletIInv, GauntletTypeOK
<1>4. poll.version = version => copy = Current
  BY <1>2 DEF Current, GauntletIInv, ClientIsBehind
<1>5. Current' = Current
  BY <1>1 DEF Current, At
<1> HIDE DEF copy
<1>6. GauntletTypeOK' /\ PollPoints'
  BY <1>1, <1>2, <1>3 DEF GauntletIInv, GauntletTypeOK, PollPoints
<1>7. ClientIsBehind'
  BY <1>1, <1>2, <1>4, <1>5 DEF ClientIsBehind
<1> QED  BY <1>6, <1>7 DEF GauntletIInv

LEMMA GauntletNextInv == GauntletIInv /\ [GauntletNext]_gauntletVars => GauntletIInv'
<1> SUFFICES ASSUME GauntletIInv, [GauntletNext]_gauntletVars PROVE GauntletIInv'
  OBVIOUS
<1>1. CASE BuildGauntletLabyrinth
  BY <1>1, BuildInv
<1>2. ASSUME NEW m \in Played, StartGauntletMission(m) \/ AwardMissionRewards(m)
      PROVE  GauntletIInv'
  BY <1>2, MissionInv
<1>3. CASE ReadOnlyData
  BY <1>3, ReadOnlyDataInv
<1>4. CASE RespondOK
  BY <1>4, RespondOKInv
<1>5. CASE UNCHANGED gauntletVars
  BY <1>5 DEF gauntletVars, GauntletIInv, GauntletTypeOK, ClientIsBehind, PollPoints, Current, At
<1> QED  BY <1>1, <1>2, <1>3, <1>4, <1>5 DEF GauntletNext

LEMMA GauntletInvariance == GauntletSpec => []GauntletIInv
BY GauntletInitInv, GauntletNextInv, PTL DEF GauntletSpec

\* The gauntlet and what is sent of it keep their types.
THEOREM GauntletTypeCorrect == GauntletSpec => []GauntletTypeOK
<1>1. GauntletIInv => GauntletTypeOK
  BY DEF GauntletIInv
<1> QED  BY <1>1, GauntletInvariance, PTL

\* A client whose version is the server's has the server's data, although an answer is encoded
\* from pointers after the lock is released (GetUserReadOnlyData.go and the functions that count
\* DataVersion): whatever has changed since the pointers were taken has also counted.
THEOREM VersionsTellData == GauntletSpec => []SameVersionSameData
<1>1. GauntletIInv => SameVersionSameData
  BY DEF GauntletIInv, ClientIsBehind, SameVersionSameData
<1> QED  BY <1>1, GauntletInvariance, PTL

-----------------------------------------------------------------------------
\* Who is due the message of a match hears of it, and who observes is kept.

\* A request that tells users has those it must tell among the ones it has still to look up or
\* has found, whatever the order; it has found nobody without a session; and whoever is about
\* to observe has the set of a start that there was.
TellsWhoIsDue(h, on, starts) ==
  /\ h.due \subseteq on
  /\ h.due \subseteq Range(h.todo) \cup Range(h.slots)
  /\ None \notin Range(h.slots)
  /\ h.set <= starts
  /\ h.op = "observe" => h.user \in Users /\ h.set > 0

MatchIInv ==
  /\ MatchTypeOK
  /\ \A r \in MatchRequests : TellsWhoIsDue(handler[r], online, Starts)
  /\ NobodyIsMissed
  /\ ObserversAreKept

-----------------------------------------------------------------------------
LEMMA RangeAppended ==
  ASSUME NEW S, NEW s \in Seq(S), NEW x \in S
  PROVE  Append(s, x) \in Seq(S) /\ Range(Append(s, x)) = Range(s) \cup {x}
<1>1. /\ Append(s, x) \in Seq(S) /\ DOMAIN Append(s, x) = 1..Len(s) + 1
      /\ \A i \in 1..Len(s) : Append(s, x)[i] = s[i]
      /\ Append(s, x)[Len(s) + 1] = x /\ DOMAIN s = 1..Len(s) /\ Len(s) \in Nat
  OBVIOUS
<1> QED  BY <1>1 DEF Range

\* A finite set has a sequence of its elements.
LEMMA SetToSeqType ==
  ASSUME NEW S, IsFiniteSet(S)
  PROVE  SetToSeq(S) \in Seq(S)
<1>1. Cardinality(S) \in Nat /\ ExistsBijection(1..Cardinality(S), S)
  BY FS_CardinalityType
<1>2. \E f \in [1..Cardinality(S) -> S] : IsInjective(f)
  BY <1>1 DEF ExistsBijection, Bijection, Injection, IsInjective
<1>3. SetToSeq(S) \in [1..Cardinality(S) -> S]
  BY <1>2 DEF SetToSeq
<1> QED  BY <1>1, <1>3

LEMMA EmptySeqRange == Range(<<>>) = {}
BY DEF Range

LEMMA IdleSound ==
  /\ Idle \in Handler
  /\ \A on \in SUBSET Users, starts \in Nat : TellsWhoIsDue(Idle, on, starts)
BY MatchAssumption, ServerAssumption, EmptySeqRange DEF Idle, Handler, TellsWhoIsDue

\* The request r becomes another, in a step that lets nobody's session end.
LEMMA BecomesStep ==
  ASSUME MatchTypeOK, \A q \in MatchRequests : TellsWhoIsDue(handler[q], online, Starts),
         NEW r \in MatchRequests, NEW new \in Handler, Becomes(r, new),
         Starts' \in Nat, Starts <= Starts', online' = online,
         TellsWhoIsDue(new, online, Starts')
  PROVE  /\ handler' \in [MatchRequests -> Handler]
         /\ \A q \in MatchRequests : TellsWhoIsDue(handler'[q], online', Starts')
<1>1. /\ handler' \in [MatchRequests -> Handler] /\ handler'[r] = new
      /\ \A q \in MatchRequests \ {r} : handler'[q] = handler[q]
  BY DEF Becomes, MatchTypeOK
<1>2. Starts \in Nat /\ \A q \in MatchRequests : handler[q].set \in Nat
  BY MatchAssumption DEF MatchTypeOK, Starts, Handler
<1>3. ASSUME NEW q \in MatchRequests \ {r}
      PROVE  TellsWhoIsDue(handler[q], online, Starts')
  BY <1>2, <1>3 DEF TellsWhoIsDue
<1> QED  BY <1>1, <1>3

\* The same, of requests that stay.
LEMMA HandlersStay ==
  ASSUME MatchTypeOK, \A q \in MatchRequests : TellsWhoIsDue(handler[q], online, Starts),
         handler' = handler, Starts' \in Nat, Starts <= Starts', online' = online
  PROVE  /\ handler' \in [MatchRequests -> Handler]
         /\ \A q \in MatchRequests : TellsWhoIsDue(handler'[q], online', Starts')
<1>1. Starts \in Nat /\ \A q \in MatchRequests : handler[q].set \in Nat
  BY MatchAssumption DEF MatchTypeOK, Starts, Handler
<1>2. handler' \in [MatchRequests -> Handler]
  BY DEF MatchTypeOK
<1>3. ASSUME NEW q \in MatchRequests
      PROVE  TellsWhoIsDue(handler[q], online, Starts')
  BY <1>1, <1>3 DEF TellsWhoIsDue
<1> QED  BY <1>2, <1>3

\* A broadcast begins with all its receivers still to look up.
LEMMA BroadcastSound ==
  ASSUME NEW op \in {"start", "platform", "chat"}, NEW sender \in Users \cup {None},
         NEW receivers \in Seq(Users), NEW on \in SUBSET Users, NEW starts \in Nat
  PROVE  LET new == [Idle EXCEPT !.op = op, !.user = sender, !.todo = receivers,
                                 !.due = Range(receivers) \cap on]
         IN new \in Handler /\ TellsWhoIsDue(new, on, starts)
<1> DEFINE due == Range(receivers) \cap on
           new == [Idle EXCEPT !.op = op, !.user = sender, !.todo = receivers, !.due = due]
<1>1. due \subseteq on /\ due \subseteq Range(receivers) /\ due \subseteq Users
  OBVIOUS
<1> HIDE DEF due
<1>2. /\ new.op = op /\ new.todo = receivers /\ new.slots = <<>> /\ new.due = due /\ new.set = 0
      /\ op # "observe"
  BY DEF Idle
<1>3. new \in Handler
  BY <1>1, IdleSound DEF Handler
<1> HIDE DEF new
<1>4. TellsWhoIsDue(new, on, starts)
  BY <1>1, <1>2, EmptySeqRange DEF TellsWhoIsDue
<1> QED  BY <1>3, <1>4 DEF due, new

LEMMA MatchInitInv == MatchInit => MatchIInv
<1> SUFFICES ASSUME MatchInit PROVE MatchIInv
  OBVIOUS
<1>1. Starts = 0 /\ \A r \in MatchRequests : handler[r] = Idle
  BY DEF MatchInit, Starts
<1>2. players \in Seq(Users) /\ IsInjective(players)
  BY ServerAssumption DEF MatchInit, IsInjective
<1>3. MatchTypeOK
  BY <1>1, <1>2, IdleSound, MatchAssumption DEF MatchInit, MatchTypeOK
<1>4. \A r \in MatchRequests : TellsWhoIsDue(handler[r], online, Starts)
  BY <1>1, <1>3, IdleSound DEF MatchTypeOK
<1>5. NobodyIsMissed /\ ObserversAreKept
  BY <1>1 DEF MatchInit, NobodyIsMissed, ObserversAreKept
<1> QED  BY <1>3, <1>4, <1>5 DEF MatchIInv

\* A start brings a new set, and whoever watched is not counted in it.
LEMMA UpdateObserversStep ==
  ASSUME MatchIInv, MayStart, NEW started \in BOOLEAN, UpdateObservers(started)
  PROVE  /\ observers' \in Seq(SUBSET Users) /\ Starts' \in Nat
         /\ Starts <= Starts' /\ Starts' <= MaxStarts
         /\ watching' \subseteq Users /\ ObserversAreKept'
<1>1. observers \in Seq(SUBSET Users) /\ Starts = Len(observers) /\ Starts \in Nat
      /\ Starts < MaxStarts /\ watching \subseteq Users
  BY MatchAssumption DEF MatchIInv, MatchTypeOK, MayStart, Starts
<1>2. CASE started /\ ~match.started
  <2>1. observers' = Append(observers, {}) /\ watching' = {}
    BY <1>2 DEF UpdateObservers, ObserversAtStart
  <2>2. observers' \in Seq(SUBSET Users) /\ Len(observers') = Len(observers) + 1
    BY <1>1, <2>1
  <2> QED  BY <1>1, <2>1, <2>2, MatchAssumption DEF Starts, ObserversAreKept
<1>3. CASE ~(started /\ ~match.started)
  <2>1. observers' = observers /\ watching' = watching
    BY <1>3 DEF UpdateObservers, ObserversAtStart
  <2> QED  BY <1>1, <2>1, MatchAssumption DEF Starts, MatchIInv, ObserversAreKept
<1> QED  BY <1>2, <1>3

LEMMA StartedType ==
  ASSUME NEW m \in [started : BOOLEAN, joinable : BOOLEAN, visible : BOOLEAN,
                    observable : BOOLEAN]
  PROVE  Started(m) \in [started : BOOLEAN, joinable : BOOLEAN, visible : BOOLEAN,
                         observable : BOOLEAN]
BY DEF Started

LEMMA UpdateStateInv ==
  ASSUME MatchIInv, NEW r \in MatchRequests, NEW started \in BOOLEAN, UpdateState(r, started)
  PROVE  MatchIInv'
<1>1. /\ observers' \in Seq(SUBSET Users) /\ Starts' \in Nat
      /\ Starts <= Starts' /\ Starts' <= MaxStarts
      /\ watching' \subseteq Users /\ ObserversAreKept'
  BY UpdateObserversStep DEF UpdateState
<1>2. match' \in [started : BOOLEAN, joinable : BOOLEAN, visible : BOOLEAN,
                  observable : BOOLEAN]
  <2>1. match \in [started : BOOLEAN, joinable : BOOLEAN, visible : BOOLEAN,
                   observable : BOOLEAN]
    BY DEF MatchIInv, MatchTypeOK
  <2> QED  BY <2>1, StartedType DEF UpdateState
<1>3. /\ handler' \in [MatchRequests -> Handler]
      /\ \A q \in MatchRequests : TellsWhoIsDue(handler'[q], online', Starts')
  <2>1. CASE started
    <3> DEFINE new == [Idle EXCEPT !.op = "start", !.user = None, !.todo = players,
                                   !.due = Range(players) \cap online]
    <3>1. new \in Handler /\ TellsWhoIsDue(new, online, Starts')
      BY <1>1, BroadcastSound DEF MatchIInv, MatchTypeOK
    <3>2. Becomes(r, new) /\ online' = online
      BY <2>1 DEF UpdateState, Broadcast
    <3> HIDE DEF new
    <3> QED  BY <1>1, <3>1, <3>2, BecomesStep DEF MatchIInv
  <2>2. CASE ~started
    BY <1>1, <2>2, HandlersStay DEF UpdateState, MatchIInv
  <2> QED  BY <2>1, <2>2
<1>4. calls' \in 0 .. MaxCalls
  BY MatchAssumption DEF UpdateState, Call, MatchIInv, MatchTypeOK
<1>5. MatchTypeOK'
  BY <1>1, <1>2, <1>3, <1>4 DEF UpdateState, MatchIInv, MatchTypeOK
<1> QED  BY <1>1, <1>3, <1>5 DEF UpdateState, MatchIInv, NobodyIsMissed

LEMMA UpdateInv ==
  ASSUME MatchIInv, NEW r \in MatchRequests, NEW fields \in Fields, Update(r, fields)
  PROVE  MatchIInv'
<1>0. fields.started \in BOOLEAN
  BY DEF Fields
<1>1. /\ observers' \in Seq(SUBSET Users) /\ Starts' \in Nat
      /\ Starts <= Starts' /\ Starts' <= MaxStarts
      /\ watching' \subseteq Users /\ ObserversAreKept'
  BY <1>0, UpdateObserversStep DEF Update
<1>2. match' \in [started : BOOLEAN, joinable : BOOLEAN, visible : BOOLEAN,
                  observable : BOOLEAN]
  <2> DEFINE joinable == fields.joinable \/ title \in {"AoE1", "AoE3"}
             updated == [fields EXCEPT !.joinable = joinable, !.started = match.started]
  <2>1. match.started \in BOOLEAN /\ joinable \in BOOLEAN
    BY DEF MatchIInv, MatchTypeOK
  <2> HIDE DEF joinable
  <2>2. updated \in [started : BOOLEAN, joinable : BOOLEAN, visible : BOOLEAN,
                     observable : BOOLEAN]
    BY <2>1 DEF Fields
  <2>3. match' = IF fields.started THEN Started(updated)
                 ELSE [updated EXCEPT !.started = FALSE]
    BY DEF Update, joinable
  <2> HIDE DEF updated
  <2> QED  BY <2>2, <2>3, StartedType
<1>3. /\ handler' \in [MatchRequests -> Handler]
      /\ \A q \in MatchRequests : TellsWhoIsDue(handler'[q], online', Starts')
  BY <1>1, HandlersStay DEF Update, MatchIInv
<1>4. calls' \in 0 .. MaxCalls
  BY MatchAssumption DEF Update, Call, MatchIInv, MatchTypeOK
<1>5. MatchTypeOK'
  BY <1>1, <1>2, <1>3, <1>4 DEF Update, MatchIInv, MatchTypeOK
<1> QED  BY <1>1, <1>3, <1>5 DEF Update, MatchIInv, NobodyIsMissed

\* A call that leaves the match and its observers alone, and a step of such a request.
LEMMA HandlerStep ==
  ASSUME MatchIInv, NEW r \in MatchRequests, NEW new \in Handler, Becomes(r, new),
         TellsWhoIsDue(new, online, Starts),
         UNCHANGED <<title, match, players, observers, online, seen, watching, missed>>,
         calls' \in 0 .. MaxCalls
  PROVE  MatchIInv'
<1>1. Starts' = Starts /\ Starts \in Nat
  BY DEF Starts, MatchIInv, MatchTypeOK
<1>2. /\ handler' \in [MatchRequests -> Handler]
      /\ \A q \in MatchRequests : TellsWhoIsDue(handler'[q], online', Starts')
  BY <1>1, BecomesStep DEF MatchIInv
<1>3. MatchTypeOK'
  BY <1>1, <1>2 DEF MatchIInv, MatchTypeOK
<1> QED  BY <1>1, <1>2, <1>3 DEF MatchIInv, NobodyIsMissed, ObserversAreKept

LEMMA BroadcastInv ==
  ASSUME MatchIInv, NEW r \in MatchRequests, Call(r), NEW op \in {"platform", "chat"},
         NEW u \in Users, NEW receivers \in Seq(Users), Broadcast(r, op, u, receivers),
         UNCHANGED <<title, match, players, observers, online, seen, watching, missed>>
  PROVE  MatchIInv'
<1> DEFINE new == [Idle EXCEPT !.op = op, !.user = u, !.todo = receivers,
                               !.due = Range(receivers) \cap online]
<1>0. online \in SUBSET Users /\ Starts \in Nat
  BY DEF MatchIInv, MatchTypeOK, Starts
<1>1. new \in Handler /\ TellsWhoIsDue(new, online, Starts)
  BY <1>0, BroadcastSound
<1>2. Becomes(r, new) /\ calls' \in 0 .. MaxCalls
  BY MatchAssumption DEF Broadcast, Call, MatchIInv, MatchTypeOK
<1> HIDE DEF new
<1> QED  BY <1>1, <1>2, HandlerStep

LEMMA MatchCallsInv ==
  ASSUME MatchIInv, NEW r \in MatchRequests, Calls(r)
  PROVE  MatchIInv'
<1>0. /\ players \in Seq(Users) /\ observers \in Seq(SUBSET Users) /\ Starts = Len(observers)
      /\ Starts \in Nat /\ Starts <= MaxStarts
  BY DEF Starts, MatchIInv, MatchTypeOK
<1>1. ASSUME NEW started \in BOOLEAN, UpdateState(r, started) PROVE MatchIInv'
  BY <1>1, UpdateStateInv
<1>2. ASSUME NEW fields \in Fields, Update(r, fields) PROVE MatchIInv'
  BY <1>2, UpdateInv
<1>3. ASSUME NEW u \in Users, UpdatePlatformID(r, u) PROVE MatchIInv'
  BY <1>0, <1>3, BroadcastInv DEF UpdatePlatformID
<1>4. ASSUME NEW u \in Users, SendMatchChat(r, u, Users) PROVE MatchIInv'
  <2> DEFINE to == IF title = "AoM" THEN Users \ {u} ELSE Users
  <2>1. IsFiniteSet(to) /\ to \subseteq Users
    BY MatchAssumption, FS_Subset
  <2>2. SetToSeq(to) \in Seq(to)
    BY <2>1, SetToSeqType
  <2>3. SetToSeq(to) \in Seq(Users)
    BY <2>1, <2>2
  <2>4. /\ Call(r) /\ Broadcast(r, "chat", u, SetToSeq(to))
        /\ UNCHANGED <<title, match, players, observers, online, seen, watching, missed>>
    BY <1>4 DEF SendMatchChat
  <2> QED  BY <2>3, <2>4, BroadcastInv
<1>5. ASSUME NEW u \in Users, StartObserving(r, u) PROVE MatchIInv'
  <2>1. /\ calls' \in 0 .. MaxCalls
        /\ UNCHANGED <<title, match, players, observers, online, seen, watching, missed>>
    BY <1>5, MatchAssumption DEF StartObserving, Call, MatchIInv, MatchTypeOK
  <2>2. CASE Starts = 0
    <3>1. handler' = handler /\ Starts' = Starts
      BY <1>5, <2>1, <2>2 DEF StartObserving, Starts
    <3>2. /\ handler' \in [MatchRequests -> Handler]
          /\ \A q \in MatchRequests : TellsWhoIsDue(handler'[q], online', Starts')
      BY <1>0, <2>1, <3>1, HandlersStay DEF MatchIInv
    <3> QED  BY <2>1, <3>1, <3>2 DEF MatchIInv, MatchTypeOK, NobodyIsMissed, ObserversAreKept
  <2>3. CASE Starts # 0
    <3> DEFINE new == [Idle EXCEPT !.op = "observe", !.user = u, !.set = Starts]
    <3>1. /\ new.op = "observe" /\ new.user = u /\ new.todo = <<>> /\ new.slots = <<>>
          /\ new.due = {} /\ new.set = Starts
      BY DEF Idle
    <3>2. new \in Handler
      <4>1. Starts \in 0 .. MaxStarts
        BY <1>0, MatchAssumption
      <4> QED  BY <4>1, IdleSound DEF Handler
    <3>4. Becomes(r, new)
      BY <1>5, <2>3 DEF StartObserving
    <3> HIDE DEF new
    <3>3. TellsWhoIsDue(new, online, Starts)
      BY <1>0, <2>3, <3>1, EmptySeqRange DEF TellsWhoIsDue
    <3> QED  BY <2>1, <3>2, <3>3, <3>4, HandlerStep
  <2> QED  BY <2>2, <2>3
<1>6. ASSUME NEW u \in Users, StopObserving(r, u) PROVE MatchIInv'
  <2>1. /\ watching' = watching \ {u} /\ calls' \in 0 .. MaxCalls
        /\ UNCHANGED <<title, match, players, online, handler, seen, missed>>
    BY <1>6, MatchAssumption DEF StopObserving, Call, MatchIInv, MatchTypeOK
  <2>2. /\ observers' \in Seq(SUBSET Users) /\ Starts' = Starts
        /\ Starts > 0 => observers'[Starts] = observers[Starts] \ {u}
    BY <1>0, <1>6 DEF StopObserving, Starts
  <2>3. /\ handler' \in [MatchRequests -> Handler]
        /\ \A q \in MatchRequests : TellsWhoIsDue(handler'[q], online', Starts')
    BY <1>0, <2>1, <2>2, HandlersStay DEF MatchIInv
  <2>4. MatchTypeOK' /\ ObserversAreKept'
    BY <1>0, <2>1, <2>2, <2>3 DEF MatchIInv, MatchTypeOK, ObserversAreKept
  <2> QED  BY <2>1, <2>3, <2>4 DEF MatchIInv, NobodyIsMissed
<1>7. ASSUME NEW u \in Users, NEW ongoing \in BOOLEAN, findAdvertisements(r, u, ongoing)
      PROVE  MatchIInv'
  <2>1. /\ seen' = [seen EXCEPT ![u] = Finds(u, ongoing)] /\ calls' \in 0 .. MaxCalls
        /\ UNCHANGED <<title, match, players, observers, online, handler, watching, missed>>
    BY <1>7, MatchAssumption DEF findAdvertisements, Call, MatchIInv, MatchTypeOK
  <2>2. Finds(u, ongoing) \in BOOLEAN
    BY DEF Finds
  <2>3. seen' \in [Users -> BOOLEAN] /\ Starts' = Starts
    BY <2>1, <2>2 DEF MatchIInv, MatchTypeOK, Starts
  <2>4. /\ handler' \in [MatchRequests -> Handler]
        /\ \A q \in MatchRequests : TellsWhoIsDue(handler'[q], online', Starts')
    BY <1>0, <2>1, <2>3, HandlersStay DEF MatchIInv
  <2> QED  BY <2>1, <2>3, <2>4 DEF MatchIInv, MatchTypeOK, NobodyIsMissed, ObserversAreKept
<1> QED  BY <1>1, <1>2, <1>3, <1>4, <1>5, <1>6, <1>7 DEF Calls

\* The next receiver is looked up: if he must be told he has a session, and is found.
LEMMA LookedUp ==
  ASSUME NEW h \in Handler, h.todo # <<>>, NEW on \in SUBSET Users, NEW starts \in Nat,
         TellsWhoIsDue(h, on, starts),
         NEW slots, slots = IF Head(h.todo) \in on THEN Append(h.slots, Head(h.todo)) ELSE h.slots
  PROVE  LET new == [h EXCEPT !.todo = Tail(h.todo), !.slots = slots]
         IN new \in Handler /\ TellsWhoIsDue(new, on, starts)
<1> DEFINE u == Head(h.todo)
           new == [h EXCEPT !.todo = Tail(h.todo), !.slots = slots]
<1>1. h.todo \in Seq(Users) /\ h.slots \in Seq(Users \cup {None})
  BY DEF Handler
<1>2. /\ u \in Users /\ Tail(h.todo) \in Seq(Users)
      /\ \A x \in Range(h.todo) : x = u \/ x \in Range(Tail(h.todo))
  BY <1>1, HeadTailRange
<1>3. /\ slots \in Seq(Users \cup {None})
      /\ Range(slots) = IF u \in on THEN Range(h.slots) \cup {u} ELSE Range(h.slots)
  <2>1. u \in Users \cup {None}
    BY <1>2
  <2>2. Append(h.slots, u) \in Seq(Users \cup {None})
        /\ Range(Append(h.slots, u)) = Range(h.slots) \cup {u}
    BY <1>1, <2>1, RangeAppended
  <2> QED  BY <1>1, <2>2
<1>4. new \in Handler
  BY <1>2, <1>3 DEF Handler
<1>5. /\ new.todo = Tail(h.todo) /\ new.slots = slots /\ new.due = h.due
      /\ new.set = h.set /\ new.op = h.op /\ new.user = h.user
  BY DEF Handler
<1> HIDE DEF new
<1>6. h.due \subseteq Range(Tail(h.todo)) \cup Range(slots)
  BY <1>2, <1>3 DEF TellsWhoIsDue
<1>7. None \notin Range(slots)
  BY <1>2, <1>3, ServerAssumption DEF TellsWhoIsDue
<1>8. TellsWhoIsDue(new, on, starts)
  BY <1>5, <1>6, <1>7 DEF TellsWhoIsDue
<1> QED  BY <1>4, <1>8 DEF new

\* A request that has looked everybody up has found all that it must tell.
LEMMA EndsTold ==
  ASSUME MatchIInv, NEW r \in MatchRequests, handler[r].todo = <<>>,
         NEW told, Range(handler[r].slots) \subseteq told, Ends(r, told),
         UNCHANGED <<title, match, players, observers, online, calls, seen, watching>>
  PROVE  MatchIInv'
<1>1. handler[r].due \subseteq told
  BY EmptySeqRange DEF MatchIInv, TellsWhoIsDue
<1>2. missed' = missed /\ Becomes(r, Idle)
  BY <1>1 DEF Ends
<1>3. online \in SUBSET Users /\ Starts \in Nat /\ calls' \in 0 .. MaxCalls
  BY DEF MatchIInv, MatchTypeOK, Starts
<1>4. Idle \in Handler /\ TellsWhoIsDue(Idle, online, Starts)
  BY <1>3, IdleSound
<1> QED  BY <1>2, <1>3, <1>4, HandlerStep

LEMMA LookUpInv ==
  ASSUME MatchIInv, NEW r \in MatchRequests, LookUp(r)
  PROVE  MatchIInv'
<1> DEFINE h == handler[r]
           slots == IF Head(h.todo) \in online THEN Append(h.slots, Head(h.todo)) ELSE h.slots
           new == [h EXCEPT !.todo = Tail(h.todo), !.slots = slots]
<1>1. h \in Handler /\ TellsWhoIsDue(h, online, Starts) /\ online \in SUBSET Users
      /\ Starts \in Nat /\ calls \in 0 .. MaxCalls
  BY DEF MatchIInv, MatchTypeOK, Starts
<1>2. h.todo # <<>> /\ handler' = [handler EXCEPT ![r] = new]
      /\ UNCHANGED <<title, match, players, observers, online, calls, seen, watching, missed>>
  BY DEF LookUp, Slots
<1> HIDE DEF h
<1>3. new \in Handler /\ TellsWhoIsDue(new, online, Starts)
  BY <1>1, <1>2, LookedUp
<1> HIDE DEF new
<1>4. Becomes(r, new)
  BY <1>2 DEF Becomes
<1> QED  BY <1>1, <1>2, <1>3, <1>4, HandlerStep

LEMMA SendMatchStartInv ==
  ASSUME MatchIInv, NEW r \in MatchRequests, SendMatchStart(r)
  PROVE  MatchIInv'
<1> DEFINE slots == handler[r].slots
           sent == {k \in DOMAIN slots : \A j \in 1 .. k : slots[j] # None}
           told == {slots[k] : k \in sent}
<1>1. /\ handler[r].todo = <<>> /\ Ends(r, told)
      /\ UNCHANGED <<title, match, players, observers, online, calls, seen, watching>>
  BY DEF SendMatchStart
<1>2. slots \in Seq(Users \cup {None}) /\ None \notin Range(slots)
  BY DEF MatchIInv, MatchTypeOK, Handler, TellsWhoIsDue
<1>3. DOMAIN slots = 1 .. Len(slots) /\ Len(slots) \in Nat
  BY <1>2, LenProperties
<1> HIDE DEF slots
<1>4. \A k \in DOMAIN slots : k \in sent
  BY <1>2, <1>3 DEF Range
<1>5. Range(slots) \subseteq told
  BY <1>4 DEF Range
<1> HIDE DEF told
<1> QED  BY <1>1, <1>5, EndsTold DEF slots

LEMMA SendNextInv ==
  ASSUME MatchIInv, NEW r \in MatchRequests, SendNext(r)
  PROVE  MatchIInv'
<1> DEFINE h == handler[r]
           slots == IF Head(h.todo) \in online THEN Append(h.slots, Head(h.todo)) ELSE h.slots
           new == [h EXCEPT !.todo = Tail(h.todo), !.slots = slots]
<1>1. h \in Handler /\ TellsWhoIsDue(h, online, Starts) /\ online \in SUBSET Users
      /\ Starts \in Nat /\ calls \in 0 .. MaxCalls
  BY DEF MatchIInv, MatchTypeOK, Starts
<1>2. UNCHANGED <<title, match, players, observers, online, calls, seen, watching>>
  BY DEF SendNext
<1>3. CASE h.todo = <<>>
  BY <1>2, <1>3, EndsTold DEF SendNext
<1>4. CASE h.todo # <<>>
  <2>1. handler' = [handler EXCEPT ![r] = new] /\ missed' = missed
    BY <1>4 DEF SendNext
  <2> HIDE DEF h
  <2>2. new \in Handler /\ TellsWhoIsDue(new, online, Starts)
    BY <1>1, <1>4, LookedUp
  <2> HIDE DEF new
  <2>3. Becomes(r, new)
    BY <2>1 DEF Becomes
  <2> QED  BY <1>1, <1>2, <2>1, <2>2, <2>3, HandlerStep
<1> QED  BY <1>3, <1>4

LEMMA StoreObserverInv ==
  ASSUME MatchIInv, NEW r \in MatchRequests, StoreObserver(r)
  PROVE  MatchIInv'
<1> DEFINE k == handler[r].set
           u == handler[r].user
<1>1. /\ observers \in Seq(SUBSET Users) /\ Starts = Len(observers) /\ Starts \in Nat
      /\ k \in 1 .. Starts /\ u \in Users /\ online \in SUBSET Users /\ watching \subseteq Users
  BY MatchAssumption DEF StoreObserver, MatchIInv, MatchTypeOK, Handler, TellsWhoIsDue, Starts
<1>2. /\ observers' = [observers EXCEPT ![k] = @ \cup {u}]
      /\ watching' = IF k = Starts THEN watching \cup {u} ELSE watching
      /\ Becomes(r, Idle)
      /\ UNCHANGED <<title, match, players, online, calls, seen, missed>>
  BY DEF StoreObserver
<1> HIDE DEF k, u
<1>3. /\ observers' \in Seq(SUBSET Users) /\ Starts' = Starts
      /\ observers'[Starts] = IF k = Starts THEN observers[Starts] \cup {u} ELSE observers[Starts]
  <2>1. observers[k] \in SUBSET Users
    BY <1>1
  <2>2. observers' = [observers EXCEPT ![k] = observers[k] \cup {u}]
        /\ observers[k] \cup {u} \in SUBSET Users
    BY <1>1, <1>2, <2>1
  <2>3. observers' \in Seq(SUBSET Users) /\ Len(observers') = Len(observers)
    BY <1>1, <2>2
  <2>4. Starts' = Starts
    BY <1>1, <2>3 DEF Starts
  <2>5. Starts \in DOMAIN observers /\ k \in DOMAIN observers
    BY <1>1
  <2>6. observers'[Starts] = IF k = Starts THEN observers[Starts] \cup {u} ELSE observers[Starts]
    BY <2>2, <2>5
  <2> QED  BY <2>3, <2>4, <2>6
<1>4. Idle \in Handler /\ TellsWhoIsDue(Idle, online, Starts)
  BY <1>1, IdleSound
<1>5. /\ handler' \in [MatchRequests -> Handler]
      /\ \A q \in MatchRequests : TellsWhoIsDue(handler'[q], online', Starts')
  BY <1>1, <1>2, <1>3, <1>4, BecomesStep DEF MatchIInv
<1>6. watching' \subseteq Users /\ ObserversAreKept'
  BY <1>1, <1>2, <1>3 DEF MatchIInv, ObserversAreKept
<1>7. MatchTypeOK'
  BY <1>2, <1>3, <1>5, <1>6 DEF MatchIInv, MatchTypeOK
<1> QED  BY <1>2, <1>5, <1>6, <1>7 DEF MatchIInv, NobodyIsMissed

LEMMA JoinLeaveInv ==
  ASSUME MatchIInv, NEW u \in Users, Join(u) \/ Leave(u)
  PROVE  MatchIInv'
<1>1. /\ players' = WithKey(players, u) \/ players' = WithoutKey(players, u)
      /\ seen' \in [Users -> BOOLEAN]
      /\ UNCHANGED <<title, match, observers, online, handler, calls, watching, missed>>
  BY DEF Join, Leave, MatchIInv, MatchTypeOK
<1>2. players' \in Seq(Users) /\ IsInjective(players')
  <2>1. players \in Seq(Users) /\ IsInjective(players)
    BY DEF MatchIInv, MatchTypeOK
  <2>2. CASE players' = WithKey(players, u)
    BY <2>1, <2>2, WithKeyProperties
  <2>3. CASE players' = WithoutKey(players, u)
    BY <2>1, <2>3, WithoutKeyProperties
  <2> QED  BY <1>1, <2>2, <2>3
<1>3. Starts' = Starts /\ Starts \in Nat
  BY <1>1 DEF Starts, MatchIInv, MatchTypeOK
<1>4. /\ handler' \in [MatchRequests -> Handler]
      /\ \A q \in MatchRequests : TellsWhoIsDue(handler'[q], online', Starts')
  BY <1>1, <1>3, HandlersStay DEF MatchIInv
<1> QED  BY <1>1, <1>2, <1>3, <1>4 DEF MatchIInv, MatchTypeOK, NobodyIsMissed, ObserversAreKept

LEMMA ExpireInv ==
  ASSUME MatchIInv, NEW u \in Users, Expire(u)
  PROVE  MatchIInv'
<1>1. /\ online' = online \ {u}
      /\ handler' = [r \in MatchRequests |-> [handler[r] EXCEPT !.due = @ \ {u}]]
      /\ UNCHANGED <<title, match, players, observers, calls, seen, watching, missed>>
  BY DEF Expire
<1>2. ASSUME NEW r \in MatchRequests
      PROVE  handler'[r] \in Handler /\ TellsWhoIsDue(handler'[r], online', Starts)
  <2> DEFINE h == handler[r]
             new == [h EXCEPT !.due = h.due \ {u}]
  <2>1. h \in Handler /\ TellsWhoIsDue(h, online, Starts) /\ handler'[r] = new
    BY <1>1 DEF MatchIInv, MatchTypeOK
  <2> HIDE DEF h
  <2>2. /\ new \in Handler
        /\ new.todo = h.todo /\ new.slots = h.slots /\ new.due = h.due \ {u}
        /\ new.set = h.set /\ new.op = h.op /\ new.user = h.user
    BY <2>1 DEF Handler
  <2> HIDE DEF new
  <2>3. TellsWhoIsDue(new, online', Starts)
    BY <1>1, <2>1, <2>2 DEF TellsWhoIsDue
  <2> QED  BY <2>1, <2>2, <2>3
<1>3. handler' \in [MatchRequests -> Handler] /\ Starts' = Starts
  BY <1>1, <1>2 DEF Starts
<1>4. MatchTypeOK'
  BY <1>1, <1>3 DEF MatchIInv, MatchTypeOK
<1> QED  BY <1>1, <1>2, <1>3, <1>4 DEF MatchIInv, NobodyIsMissed, ObserversAreKept

LEMMA MatchNextInv == MatchIInv /\ [MatchNext]_matchVars => MatchIInv'
<1> SUFFICES ASSUME MatchIInv, [MatchNext]_matchVars PROVE MatchIInv'
  OBVIOUS
<1>1. ASSUME NEW r \in MatchRequests, Calls(r) PROVE MatchIInv'
  BY <1>1, MatchCallsInv
<1>2. ASSUME NEW r \in MatchRequests, LookUp(r) \/ SendMatchStart(r) PROVE MatchIInv'
  BY <1>2, LookUpInv, SendMatchStartInv
<1>3. ASSUME NEW r \in MatchRequests, SendNext(r) \/ StoreObserver(r) PROVE MatchIInv'
  BY <1>3, SendNextInv, StoreObserverInv
<1>4. ASSUME NEW u \in Users, Join(u) \/ Leave(u) PROVE MatchIInv'
  BY <1>4, JoinLeaveInv
<1>5. ASSUME NEW u \in Users, Expire(u) PROVE MatchIInv'
  BY <1>5, ExpireInv
<1>6. CASE UNCHANGED matchVars
  <2>1. Starts' = Starts
    BY <1>6 DEF matchVars, Starts
  <2> QED  BY <1>6, <2>1
           DEF matchVars, MatchIInv, MatchTypeOK, NobodyIsMissed, ObserversAreKept
<1> QED  BY <1>1, <1>2, <1>3, <1>4, <1>5, <1>6 DEF MatchNext

LEMMA MatchInvariance == MatchSpec => []MatchIInv
BY MatchInitInv, MatchNextInv, PTL DEF MatchSpec

\* What is kept of a match, and the requests about it, keep their types.
THEOREM MatchTypeCorrect == MatchSpec => []MatchTypeOK
<1>1. MatchIInv => MatchTypeOK
  BY DEF MatchIInv
<1> QED  BY <1>1, MatchInvariance, PTL

\* A broadcast reaches everybody who has a session from its start to its end, though it looks
\* the sessions up one by one and a request can panic (updateState.go, updatePlatformLobbyID.go
\* and sendMatchChat.go): an empty slot is always after those of the peers that were found.
THEOREM BroadcastsReachAll == MatchSpec => []NobodyIsMissed
<1>1. MatchIInv => NobodyIsMissed
  BY DEF MatchIInv
<1> QED  BY <1>1, MatchInvariance, PTL

\* Who observes the last start of a match stays in its set of observers, although requests
\* store and take out users of the sets that they found without the lock, and updates go on
\* (UnsafeUpdateState, StartObserving, StopObserving).
THEOREM ObserversStay == MatchSpec => []ObserversAreKept
<1>1. MatchIInv => ObserversAreKept
  BY DEF MatchIInv
<1> QED  BY <1>1, MatchInvariance, PTL

-----------------------------------------------------------------------------
\* An invitee knows of the invitation.

\* A request in progress is about a pair and has loaded a Peer that the inviter has had.
AskedWellFormed ==
  \A r \in LobbyRequests :
    \/ asked[r] = AskedIdle
    \/ /\ asked[r].op \in InvitationOps /\ asked[r].pair \in Pairs
       /\ asked[r].peer \in 1 .. entered[Inviter(asked[r].pair)]

\* The Peer a user has is his last one, and nobody is invited by one that is still to come.
PeersInOrder ==
  \A u \in Users :
    /\ peer[u] = 0 \/ peer[u] = entered[u]
    /\ \A p \in 1 .. MaxPeers : entered[u] < p => invites[u][p] = {}

\* A pair whose inviter has not left and both of whom have a session: the inviter is in the
\* match with his first Peer, or has yet to enter it, and the requests have loaded that Peer.
LoyalPairs ==
  \A pair \in Pairs \ deserted :
    /\ Inviter(pair) \in connected /\ Invitee(pair) \in connected
    /\ peer[Inviter(pair)] = 0 => entered[Inviter(pair)] = 0
    /\ \A r \in LobbyRequests : asked[r].pair = pair =>
         peer[Inviter(pair)] # 0 /\ asked[r].peer = peer[Inviter(pair)]

\* Two requests about one pair have been noticed.
RacesNoticed ==
  \A pair \in Pairs \ raced : \A q, r \in LobbyRequests :
    asked[q].pair = pair /\ asked[r].pair = pair => q = r

\* A request that has changed the invitation has left it as its message will say, and else the
\* last message says how it is.
ToldOrAboutTo ==
  \A pair \in Pairs \ (raced \cup deserted) :
    /\ \A r \in LobbyRequests : asked[r].pair = pair /\ asked[r].changed =>
         (Standing(pair) <=> asked[r].op = "extend")
    /\ (\A r \in LobbyRequests : asked[r].pair = pair => ~asked[r].changed) =>
         (Standing(pair) <=> lastTold[pair] = "extend")

LobbyIInv ==
  /\ LobbyTypeOK
  /\ AskedWellFormed
  /\ PeersInOrder
  /\ LoyalPairs
  /\ RacesNoticed
  /\ ToldOrAboutTo

-----------------------------------------------------------------------------
LEMMA PairParts ==
  ASSUME NEW pair \in Pairs
  PROVE  /\ Inviter(pair) \in Users /\ Invitee(pair) \in Users
         /\ pair = <<Inviter(pair), Invitee(pair)>>
BY LobbyAssumption DEF Pairs, Inviter, Invitee

LEMMA AskedIdleIsNone ==
  /\ AskedIdle.pair = None /\ AskedIdle.op = None /\ ~AskedIdle.changed
  /\ AskedIdle \in [op : InvitationOps \cup {None}, pair : Pairs \cup {None},
                    peer : 0 .. MaxPeers, changed : BOOLEAN]
BY LobbyAssumption DEF AskedIdle

LEMMA LobbyInitInv == LobbyInit => LobbyIInv
<1> SUFFICES ASSUME LobbyInit PROVE LobbyIInv
  OBVIOUS
<1>1. /\ peer \in [Users -> 0 .. 1] /\ entered = peer
      /\ invites = [u \in Users |-> [p \in 1 .. MaxPeers |-> {}]]
      /\ \A r \in LobbyRequests : asked[r] = AskedIdle
      /\ lastTold = [pair \in Pairs |-> None]
      /\ connected = Users
  BY DEF LobbyInit
<1>2. LobbyTypeOK
  <2>1. peer \in [Users -> 0 .. MaxPeers] /\ entered \in [Users -> 0 .. MaxPeers]
    BY <1>1, LobbyAssumption
  <2>2. race \in [Users -> Races] /\ tags \in Races
    BY DEF LobbyInit
  <2>3. asked \in [LobbyRequests ->
          [op : InvitationOps \cup {None}, pair : Pairs \cup {None}, peer : 0 .. MaxPeers,
           changed : BOOLEAN]]
    BY AskedIdleIsNone DEF LobbyInit
  <2> QED  BY <1>1, <2>1, <2>2, <2>3 DEF LobbyInit, LobbyTypeOK
<1>3. AskedWellFormed /\ PeersInOrder
  BY <1>1 DEF AskedWellFormed, PeersInOrder
<1>4. ASSUME NEW pair \in Pairs, NEW r \in LobbyRequests
      PROVE  asked[r].pair # pair
  BY <1>1, AskedIdleIsNone, NoneAskedAssumption
<1>5. LoyalPairs /\ RacesNoticed
  BY <1>1, <1>4, PairParts DEF LoyalPairs, RacesNoticed
<1>6. ASSUME NEW pair \in Pairs
      PROVE  ~Standing(pair) /\ lastTold[pair] # "extend"
  <2>1. lastTold[pair] = None /\ None # "extend"
    BY <1>1, NoneAskedAssumption DEF InvitationOps
  <2>2. CASE peer[Inviter(pair)] = 0
    BY <2>1, <2>2 DEF Standing
  <2>3. CASE peer[Inviter(pair)] # 0
    <3>1. peer[Inviter(pair)] = 1 /\ 1 \in 1 .. MaxPeers
      BY <1>1, <2>3, PairParts, LobbyAssumption
    <3>2. invites[Inviter(pair)][1] = {}
      BY <1>1, <3>1, PairParts
    <3> QED  BY <2>1, <3>1, <3>2 DEF Standing
  <2> QED  BY <2>2, <2>3
<1>7. ToldOrAboutTo
  BY <1>4, <1>6 DEF ToldOrAboutTo
<1> QED  BY <1>2, <1>3, <1>5, <1>7 DEF LobbyIInv

LEMMA LoadPeerInv ==
  ASSUME LobbyIInv, NEW r \in LobbyRequests, NEW op \in InvitationOps, NEW pair \in Pairs,
         LoadPeer(r, op, pair)
  PROVE  LobbyIInv'
<1> DEFINE new == [op |-> op, pair |-> pair, peer |-> peer[Inviter(pair)], changed |-> FALSE]
<1>1. /\ asked[r] = AskedIdle /\ peer[Inviter(pair)] # 0
      /\ asked' = [asked EXCEPT ![r] = new]
      /\ UNCHANGED <<peer, entered, invites, race, tags, connected, lastTold, deserted>>
  BY DEF LoadPeer
<1>2. /\ new.op = op /\ new.pair = pair /\ new.peer = peer[Inviter(pair)] /\ ~new.changed
      /\ new \in [op : InvitationOps \cup {None}, pair : Pairs \cup {None},
                  peer : 0 .. MaxPeers, changed : BOOLEAN]
  BY PairParts DEF LobbyIInv, LobbyTypeOK
<1> HIDE DEF new
<1>3. /\ asked' \in [LobbyRequests ->
           [op : InvitationOps \cup {None}, pair : Pairs \cup {None}, peer : 0 .. MaxPeers,
            changed : BOOLEAN]]
      /\ asked'[r] = new /\ \A q \in LobbyRequests \ {r} : asked'[q] = asked[q]
  BY <1>1, <1>2 DEF LobbyIInv, LobbyTypeOK
<1>4. /\ raced \subseteq raced' /\ raced' \subseteq Pairs
      /\ pair \notin raced' => \A q \in LobbyRequests : asked[q].pair # pair
  BY DEF LoadPeer, LobbyIInv, LobbyTypeOK
<1>5. \A p \in Pairs : asked[r].pair # p
  BY <1>1, AskedIdleIsNone, NoneAskedAssumption
<1>6. LobbyTypeOK'
  BY <1>1, <1>3, <1>4 DEF LobbyIInv, LobbyTypeOK
<1>7. AskedWellFormed' /\ PeersInOrder'
  <2>1. new.peer \in 1 .. entered[Inviter(pair)]
    BY <1>1, <1>2, PairParts DEF LobbyIInv, LobbyTypeOK, PeersInOrder
  <2> QED  BY <1>1, <1>2, <1>3, <2>1 DEF LobbyIInv, AskedWellFormed, PeersInOrder
<1>8. LoyalPairs'
  BY <1>1, <1>2, <1>3 DEF LobbyIInv, LoyalPairs
<1>9. RacesNoticed'
  BY <1>2, <1>3, <1>4 DEF LobbyIInv, RacesNoticed
<1>10. ASSUME NEW p \in Pairs \ (raced' \cup deserted')
       PROVE  /\ \A q \in LobbyRequests : asked'[q].pair = p /\ asked'[q].changed =>
                   (Standing(p)' <=> asked'[q].op = "extend")
              /\ (\A q \in LobbyRequests : asked'[q].pair = p => ~asked'[q].changed) =>
                   (Standing(p)' <=> lastTold'[p] = "extend")
  <2>1. p \in Pairs \ (raced \cup deserted) /\ (Standing(p)' <=> Standing(p))
    BY <1>1, <1>4 DEF Standing
  <2>2. (\A q \in LobbyRequests : asked'[q].pair = p => ~asked'[q].changed) =>
          \A q \in LobbyRequests : asked[q].pair = p => ~asked[q].changed
    BY <1>3, <1>5
  <2> QED  BY <1>1, <1>2, <1>3, <2>1, <2>2 DEF LobbyIInv, ToldOrAboutTo
<1>11. ToldOrAboutTo'
  BY <1>10 DEF ToldOrAboutTo
<1> QED  BY <1>6, <1>7, <1>8, <1>9, <1>11 DEF LobbyIInv

LEMMA ChangeInvitesInv ==
  ASSUME LobbyIInv, NEW r \in LobbyRequests, ChangeInvites(r)
  PROVE  LobbyIInv'
<1> DEFINE pair == asked[r].pair
           v == Invitee(pair)
           changes == (asked[r].op = "extend") = (v \notin Has(r))
           set == Invited(Has(r), asked[r].op, v)
<1>1. /\ asked[r].op \in InvitationOps /\ ~asked[r].changed
      /\ IF changes
         THEN /\ Sets(r, set)
              /\ asked' = [asked EXCEPT ![r].changed = TRUE]
         ELSE asked' = [asked EXCEPT ![r] = AskedIdle] /\ UNCHANGED invites
      /\ UNCHANGED <<peer, entered, race, tags, connected, lastTold, raced, deserted>>
  BY DEF ChangeInvites
<1>2. /\ pair \in Pairs /\ asked[r].peer \in 1 .. entered[Inviter(pair)]
      /\ asked[r].peer \in 1 .. MaxPeers
  <2>1. pair \in Pairs /\ asked[r].peer \in 1 .. entered[Inviter(pair)]
    BY <1>1, AskedIdleIsNone, NoneAskedAssumption DEF LobbyIInv, AskedWellFormed
  <2>2. entered[Inviter(pair)] \in 0 .. MaxPeers
    BY <2>1, PairParts DEF LobbyIInv, LobbyTypeOK
  <2> QED  BY <2>1, <2>2, LobbyAssumption
<1>3. Inviter(pair) \in Users /\ v \in Users /\ pair = <<Inviter(pair), v>>
  BY <1>2, PairParts
<1>4. /\ asked' \in [LobbyRequests ->
           [op : InvitationOps \cup {None}, pair : Pairs \cup {None}, peer : 0 .. MaxPeers,
            changed : BOOLEAN]]
      /\ \A q \in LobbyRequests \ {r} : asked'[q] = asked[q]
      /\ changes => /\ asked'[r].op = asked[r].op /\ asked'[r].pair = pair
                    /\ asked'[r].peer = asked[r].peer /\ asked'[r].changed
      /\ ~changes => asked'[r] = AskedIdle
  <2> HIDE DEF changes
  <2>1. CASE changes
    <3> DEFINE new == [asked[r] EXCEPT !.changed = TRUE]
    <3>1. /\ new \in [op : InvitationOps \cup {None}, pair : Pairs \cup {None},
                      peer : 0 .. MaxPeers, changed : BOOLEAN]
          /\ new.op = asked[r].op /\ new.pair = pair /\ new.peer = asked[r].peer /\ new.changed
      BY DEF LobbyIInv, LobbyTypeOK
    <3>2. asked' = [asked EXCEPT ![r] = new]
      BY <1>1, <2>1
    <3> HIDE DEF new
    <3> QED  BY <2>1, <3>1, <3>2 DEF LobbyIInv, LobbyTypeOK
  <2>2. CASE ~changes
    BY <1>1, <2>2, AskedIdleIsNone DEF LobbyIInv, LobbyTypeOK
  <2> QED  BY <2>1, <2>2
<1>5. ASSUME changes
      PROVE  /\ invites' \in [Users -> [1 .. MaxPeers -> SUBSET Users]]
             /\ \A u \in Users, p \in 1 .. MaxPeers :
                  invites'[u][p] =
                    IF u = Inviter(pair) /\ p = asked[r].peer THEN set ELSE invites[u][p]
             /\ v \in set <=> asked[r].op = "extend"
             /\ \A w \in Users \ {v} : w \in set <=> w \in Has(r)
  <2>1. invites' = [invites EXCEPT ![Inviter(pair)][asked[r].peer] = set]
    BY <1>1, <1>5 DEF Sets
  <2>2. /\ v \in set <=> asked[r].op = "extend"
        /\ \A w \in Users \ {v} : w \in set <=> w \in Has(r)
    BY <1>1 DEF Invited, InvitationOps
  <2>3. Has(r) \subseteq Users
    <3>1. invites \in [Users -> [1 .. MaxPeers -> SUBSET Users]]
      BY DEF LobbyIInv, LobbyTypeOK
    <3> QED  BY <1>2, <1>3, <3>1 DEF Has
  <2>4. set \subseteq Users
    BY <1>3, <2>3 DEF Invited
  <2> HIDE DEF set
  <2>5. /\ invites' \in [Users -> [1 .. MaxPeers -> SUBSET Users]]
        /\ \A u \in Users, p \in 1 .. MaxPeers :
             invites'[u][p] =
               IF u = Inviter(pair) /\ p = asked[r].peer THEN set ELSE invites[u][p]
    <3> HIDE DEF pair
    <3> QED  BY <1>2, <1>3, <2>1, <2>4 DEF LobbyIInv, LobbyTypeOK
  <2> QED  BY <2>2, <2>5
<1>6. LobbyTypeOK'
  BY <1>1, <1>4, <1>5 DEF LobbyIInv, LobbyTypeOK
<1>7. AskedWellFormed'
  BY <1>1, <1>2, <1>4 DEF LobbyIInv, AskedWellFormed
<1>8. ASSUME NEW p \in Pairs, NEW q \in LobbyRequests, asked'[q].pair = p
      PROVE  asked[q].pair = p /\ asked'[q].peer = asked[q].peer /\ asked'[q].op = asked[q].op
             /\ (q = r => changes)
             /\ asked'[q].changed = ((q = r) \/ asked[q].changed)
  BY <1>4, <1>8, AskedIdleIsNone, NoneAskedAssumption DEF LobbyIInv, LobbyTypeOK
<1>9. RacesNoticed' /\ LoyalPairs'
  BY <1>1, <1>8 DEF LobbyIInv, RacesNoticed, LoyalPairs
<1>10. PeersInOrder'
  <2>1. asked[r].peer <= entered[Inviter(pair)]
    BY <1>2
  <2>2. ASSUME NEW u \in Users, NEW p \in 1 .. MaxPeers, entered[u] < p
        PROVE  invites'[u][p] = {}
    <3>1. invites[u][p] = {}
      BY <2>2 DEF LobbyIInv, PeersInOrder
    <3>2. ~(u = Inviter(pair) /\ p = asked[r].peer)
      BY <1>2, <2>1, <2>2 DEF LobbyIInv, LobbyTypeOK
    <3> HIDE DEF changes, set
    <3> QED  BY <1>1, <1>5, <3>1, <3>2
  <2> QED  BY <1>1, <2>2 DEF LobbyIInv, PeersInOrder
<1>11. ASSUME NEW p \in Pairs, p # pair
       PROVE  Standing(p)' <=> Standing(p)
  <2>1. Inviter(p) # Inviter(pair) \/ Invitee(p) # v
    BY <1>2, <1>11, PairParts
  <2>2. ASSUME changes, peer[Inviter(p)] # 0
        PROVE  Invitee(p) \in invites'[Inviter(p)][peer[Inviter(p)]]
                 <=> Invitee(p) \in invites[Inviter(p)][peer[Inviter(p)]]
    <3>1. peer[Inviter(p)] \in 1 .. MaxPeers /\ Inviter(p) \in Users /\ Invitee(p) \in Users
      BY <2>2, PairParts DEF LobbyIInv, LobbyTypeOK
    <3>2. \A w \in Users \ {v} : w \in set <=> w \in invites[Inviter(pair)][asked[r].peer]
      BY <1>5, <2>2 DEF Has
    <3> HIDE DEF changes, set, v
    <3> QED  BY <1>5, <2>1, <2>2, <3>1, <3>2
  <2> HIDE DEF changes
  <2> QED  BY <1>1, <2>2 DEF Standing
<1>12. ASSUME NEW p \in Pairs \ deserted, p = pair
       PROVE  /\ changes => (Standing(p)' <=> asked[r].op = "extend")
              /\ ~changes => (Standing(p)' <=> Standing(p))
  <2>1. peer[Inviter(p)] # 0 /\ asked[r].peer = peer[Inviter(p)]
    BY <1>2, <1>12 DEF LobbyIInv, LoyalPairs
  <2>2. asked[r].peer \in 1 .. MaxPeers /\ v = Invitee(p) /\ Inviter(p) \in Users
    BY <1>2, <1>12, <2>1, PairParts
  <2> HIDE DEF changes, set, v
  <2>3. CASE changes
    <3>1. invites'[Inviter(p)][peer[Inviter(p)]] = set /\ (v \in set <=> asked[r].op = "extend")
      BY <1>5, <1>12, <2>1, <2>2, <2>3
    <3> QED  BY <1>1, <2>1, <2>2, <2>3, <3>1 DEF Standing
  <2>4. CASE ~changes
    <3>1. invites' = invites
      BY <1>1, <2>4
    <3> QED  BY <1>1, <2>4, <3>1 DEF Standing
  <2> QED  BY <2>3, <2>4
<1>13. ASSUME NEW p \in Pairs \ (raced \cup deserted)
       PROVE  /\ \A q \in LobbyRequests : asked'[q].pair = p /\ asked'[q].changed =>
                   (Standing(p)' <=> asked'[q].op = "extend")
              /\ (\A q \in LobbyRequests : asked'[q].pair = p => ~asked'[q].changed) =>
                   (Standing(p)' <=> lastTold[p] = "extend")
  <2> HIDE DEF changes, set
  <2>1. CASE p = pair
    <3>1. \A q \in LobbyRequests : asked[q].pair = p => q = r
      BY <2>1 DEF LobbyIInv, RacesNoticed
    <3>2. Standing(p) <=> lastTold[p] = "extend"
      BY <1>1, <3>1 DEF LobbyIInv, ToldOrAboutTo
    <3>3. CASE changes
      <4>1. asked'[r].pair = p /\ asked'[r].changed /\ asked'[r].op = asked[r].op
        BY <1>4, <2>1, <3>3
      <4> QED  BY <1>8, <1>12, <2>1, <3>1, <3>3, <4>1
    <3>4. CASE ~changes
      <4>1. \A q \in LobbyRequests : asked'[q].pair # p
        BY <1>8, <3>1, <3>4
      <4> QED  BY <1>12, <2>1, <3>2, <3>4, <4>1
    <3> QED  BY <3>3, <3>4
  <2>2. CASE p # pair
    <3>1. \A q \in LobbyRequests : asked[q].pair = p => q # r /\ asked'[q] = asked[q]
      BY <1>4, <2>2
    <3>2. \A q \in LobbyRequests : asked'[q].pair = p => asked'[q] = asked[q]
      BY <1>8, <3>1
    <3> QED  BY <1>11, <2>2, <3>1, <3>2 DEF LobbyIInv, ToldOrAboutTo
  <2> QED  BY <2>1, <2>2
<1>14. ToldOrAboutTo'
  BY <1>1, <1>13 DEF ToldOrAboutTo
<1> QED  BY <1>6, <1>7, <1>9, <1>10, <1>14 DEF LobbyIInv

LEMMA TellInv ==
  ASSUME LobbyIInv, NEW r \in LobbyRequests, Tell(r)
  PROVE  LobbyIInv'
<1> DEFINE pair == asked[r].pair
           to == IF asked[r].op = "reply" THEN Inviter(pair) ELSE Invitee(pair)
<1>1. /\ asked[r].changed
      /\ lastTold' = IF to \in connected
                     THEN [lastTold EXCEPT ![pair] = asked[r].op] ELSE lastTold
      /\ asked' = [asked EXCEPT ![r] = AskedIdle]
      /\ UNCHANGED <<peer, entered, invites, race, tags, connected, raced, deserted>>
  BY DEF Tell
<1>2. asked[r].op \in InvitationOps /\ pair \in Pairs
  BY <1>1, AskedIdleIsNone DEF LobbyIInv, AskedWellFormed
<1>3. /\ asked' \in [LobbyRequests ->
           [op : InvitationOps \cup {None}, pair : Pairs \cup {None}, peer : 0 .. MaxPeers,
            changed : BOOLEAN]]
      /\ \A q \in LobbyRequests \ {r} : asked'[q] = asked[q]
      /\ asked'[r] = AskedIdle
  BY <1>1, AskedIdleIsNone DEF LobbyIInv, LobbyTypeOK
<1>4. /\ lastTold' \in [Pairs -> InvitationOps \cup {None}]
      /\ \A p \in Pairs \ {pair} : lastTold'[p] = lastTold[p]
      /\ pair \notin deserted => lastTold'[pair] = asked[r].op
  BY <1>1, <1>2 DEF LobbyIInv, LobbyTypeOK, LoyalPairs
<1>5. LobbyTypeOK'
  BY <1>1, <1>3, <1>4 DEF LobbyIInv, LobbyTypeOK
<1>6. ASSUME NEW p \in Pairs, NEW q \in LobbyRequests, asked'[q].pair = p
      PROVE  q # r /\ asked'[q] = asked[q]
  BY <1>3, <1>6, AskedIdleIsNone, NoneAskedAssumption
<1>7. AskedWellFormed' /\ PeersInOrder' /\ LoyalPairs' /\ RacesNoticed'
  BY <1>1, <1>3, <1>6
     DEF LobbyIInv, AskedWellFormed, PeersInOrder, LoyalPairs, RacesNoticed
<1>8. ASSUME NEW p \in Pairs \ (raced \cup deserted)
      PROVE  /\ \A q \in LobbyRequests : asked'[q].pair = p /\ asked'[q].changed =>
                  (Standing(p) <=> asked'[q].op = "extend")
             /\ (\A q \in LobbyRequests : asked'[q].pair = p => ~asked'[q].changed) =>
                  (Standing(p) <=> lastTold'[p] = "extend")
  <2>1. CASE p = pair
    BY <1>1, <1>2, <1>4, <1>6, <2>1 DEF LobbyIInv, RacesNoticed, ToldOrAboutTo
  <2>2. CASE p # pair
    BY <1>3, <1>4, <1>6, <2>2 DEF LobbyIInv, ToldOrAboutTo
  <2> QED  BY <2>1, <2>2
<1>9. \A p \in Pairs : Standing(p)' <=> Standing(p)
  BY <1>1 DEF Standing
<1>10. ToldOrAboutTo'
  BY <1>1, <1>8, <1>9 DEF ToldOrAboutTo
<1> QED  BY <1>5, <1>7, <1>10 DEF LobbyIInv

LEMMA EnterLobbyInv ==
  ASSUME LobbyIInv, NEW u \in Users, EnterLobby(u)
  PROVE  LobbyIInv'
<1>1. /\ peer[u] = 0 /\ entered[u] < MaxPeers
      /\ entered' = [entered EXCEPT ![u] = @ + 1] /\ peer' = [peer EXCEPT ![u] = entered'[u]]
      /\ UNCHANGED <<invites, race, tags, connected, asked, lastTold, raced, deserted>>
  BY DEF EnterLobby
<1>2. /\ entered' \in [Users -> 0 .. MaxPeers] /\ peer' \in [Users -> 0 .. MaxPeers]
      /\ entered'[u] = entered[u] + 1 /\ peer'[u] = entered'[u] /\ peer'[u] \in 1 .. MaxPeers
      /\ \A w \in Users \ {u} : entered'[w] = entered[w] /\ peer'[w] = peer[w]
  BY <1>1, LobbyAssumption DEF LobbyIInv, LobbyTypeOK
<1>3. LobbyTypeOK' /\ AskedWellFormed' /\ RacesNoticed'
  BY <1>1, <1>2 DEF LobbyIInv, LobbyTypeOK, AskedWellFormed, RacesNoticed
<1>4. PeersInOrder'
  BY <1>1, <1>2 DEF LobbyIInv, LobbyTypeOK, PeersInOrder
<1>5. LoyalPairs'
  BY <1>1, <1>2, PairParts DEF LobbyIInv, LoyalPairs
<1>6. ASSUME NEW p \in Pairs \ deserted
      PROVE  Standing(p)' <=> Standing(p)
  <2>1. CASE Inviter(p) = u
    <3>1. entered[u] = 0 /\ peer'[u] = 1 /\ 1 \in 1 .. MaxPeers
      BY <1>1, <1>2, <2>1, LobbyAssumption DEF LobbyIInv, LoyalPairs
    <3>2. invites[u][1] = {}
      BY <3>1 DEF LobbyIInv, PeersInOrder
    <3> QED  BY <1>1, <2>1, <3>1, <3>2 DEF Standing
  <2>2. CASE Inviter(p) # u
    BY <1>1, <1>2, <2>2, PairParts DEF Standing
  <2> QED  BY <2>1, <2>2
<1>7. ToldOrAboutTo'
  BY <1>1, <1>6 DEF LobbyIInv, ToldOrAboutTo
<1> QED  BY <1>3, <1>4, <1>5, <1>7 DEF LobbyIInv

LEMMA LeaveLobbyInv ==
  ASSUME LobbyIInv, NEW u \in Users, LeaveLobby(u)
  PROVE  LobbyIInv'
<1>1. /\ peer' = [peer EXCEPT ![u] = 0]
      /\ deserted' = deserted \cup {pair \in Pairs : Inviter(pair) = u}
      /\ UNCHANGED <<entered, invites, race, tags, connected, asked, lastTold, raced>>
  BY DEF LeaveLobby
<1>2. /\ peer' \in [Users -> 0 .. MaxPeers] /\ peer'[u] = 0
      /\ \A w \in Users \ {u} : peer'[w] = peer[w]
  BY <1>1, LobbyAssumption DEF LobbyIInv, LobbyTypeOK
<1>3. deserted' \subseteq Pairs
      /\ \A p \in Pairs \ deserted' : p \in Pairs \ deserted /\ peer'[Inviter(p)] = peer[Inviter(p)]
  BY <1>1, <1>2, PairParts DEF LobbyIInv, LobbyTypeOK
<1>4. LobbyTypeOK' /\ AskedWellFormed' /\ RacesNoticed' /\ PeersInOrder'
  BY <1>1, <1>2, <1>3
     DEF LobbyIInv, LobbyTypeOK, AskedWellFormed, RacesNoticed, PeersInOrder
<1>5. LoyalPairs'
  BY <1>1, <1>3 DEF LobbyIInv, LoyalPairs
<1>6. \A p \in Pairs \ deserted' : Standing(p)' <=> Standing(p)
  BY <1>1, <1>3 DEF Standing
<1>7. ToldOrAboutTo'
  BY <1>1, <1>3, <1>6 DEF LobbyIInv, ToldOrAboutTo
<1> QED  BY <1>4, <1>5, <1>7 DEF LobbyIInv

LEMMA DisconnectInv ==
  ASSUME LobbyIInv, NEW u \in Users, Disconnect(u)
  PROVE  LobbyIInv'
<1>1. /\ connected' = connected \ {u} /\ deserted' = deserted \cup Concerning(u)
      /\ UNCHANGED <<peer, entered, invites, race, tags, asked, lastTold, raced>>
  BY DEF Disconnect
<1>2. deserted' \subseteq Pairs
      /\ \A p \in Pairs \ deserted' : p \in Pairs \ deserted /\ Inviter(p) # u /\ Invitee(p) # u
  BY <1>1 DEF Concerning, Inviter, Invitee, LobbyIInv, LobbyTypeOK
<1>3. LobbyTypeOK' /\ AskedWellFormed' /\ RacesNoticed' /\ PeersInOrder'
  BY <1>1, <1>2 DEF LobbyIInv, LobbyTypeOK, AskedWellFormed, RacesNoticed, PeersInOrder
<1>4. LoyalPairs'
  BY <1>1, <1>2 DEF LobbyIInv, LoyalPairs
<1>5. \A p \in Pairs : Standing(p)' <=> Standing(p)
  BY <1>1 DEF Standing
<1>6. ToldOrAboutTo'
  BY <1>1, <1>2, <1>5 DEF LobbyIInv, ToldOrAboutTo
<1> QED  BY <1>3, <1>4, <1>6 DEF LobbyIInv

\* What is no part of an invitation.
LEMMA LobbyRestInv ==
  ASSUME LobbyIInv,
         UNCHANGED <<peer, entered, invites, connected, asked, lastTold, raced, deserted>>,
         race' \in [Users -> Races], tags' \in Races
  PROVE  LobbyIInv'
<1>1. LobbyTypeOK' /\ AskedWellFormed' /\ RacesNoticed' /\ PeersInOrder' /\ LoyalPairs'
  BY DEF LobbyIInv, LobbyTypeOK, AskedWellFormed, RacesNoticed, PeersInOrder, LoyalPairs
<1>2. \A p \in Pairs : Standing(p)' <=> Standing(p)
  BY DEF Standing
<1>3. ToldOrAboutTo'
  BY <1>2 DEF LobbyIInv, ToldOrAboutTo
<1> QED  BY <1>1, <1>3 DEF LobbyIInv

LEMMA LobbyNextInv == LobbyIInv /\ [LobbyNext]_lobbyVars => LobbyIInv'
<1> SUFFICES ASSUME LobbyIInv, [LobbyNext]_lobbyVars PROVE LobbyIInv'
  OBVIOUS
<1>1. ASSUME NEW r \in LobbyRequests, NEW op \in InvitationOps, NEW pair \in Pairs,
             LoadPeer(r, op, pair)
      PROVE  LobbyIInv'
  BY <1>1, LoadPeerInv
<1>2. ASSUME NEW r \in LobbyRequests, ChangeInvites(r) PROVE LobbyIInv'
  BY <1>2, ChangeInvitesInv
<1>3. ASSUME NEW r \in LobbyRequests, Tell(r) PROVE LobbyIInv'
  BY <1>3, TellInv
<1>4. ASSUME NEW u \in Users, EnterLobby(u) \/ LeaveLobby(u) \/ Disconnect(u)
      PROVE  LobbyIInv'
  BY <1>4, EnterLobbyInv, LeaveLobbyInv, DisconnectInv
<1>5. ASSUME NEW r \in Races, UpdateTags(r) PROVE LobbyIInv'
  BY <1>5, LobbyRestInv DEF UpdateTags, LobbyIInv, LobbyTypeOK
<1>6. ASSUME NEW r \in Races, NEW users \in SUBSET Users, PeerUpdate(users, r)
      PROVE  LobbyIInv'
  <2>1. race' \in [Users -> Races] /\ tags' \in Races
    BY <1>6 DEF PeerUpdate, LobbyIInv, LobbyTypeOK
  <2> QED  BY <1>6, <2>1, LobbyRestInv DEF PeerUpdate
<1>7. CASE UNCHANGED lobbyVars
  BY <1>7, LobbyRestInv DEF lobbyVars, LobbyIInv, LobbyTypeOK
<1> QED  BY <1>1, <1>2, <1>3, <1>4, <1>5, <1>6, <1>7 DEF LobbyNext

LEMMA LobbyInvariance == LobbySpec => []LobbyIInv
BY LobbyInitInv, LobbyNextInv, PTL DEF LobbySpec

\* The variables of the invitations keep their types.
THEOREM LobbyTypeCorrect == LobbySpec => []LobbyTypeOK
<1>1. LobbyIInv => LobbyTypeOK
  BY DEF LobbyIInv
<1> QED  BY <1>1, LobbyInvariance, PTL

\* With nothing in progress, the last message about two users says whether there is an
\* invitation between them, however the requests about other pairs, the comings and goings and
\* the ends of sessions came in between (extend-, cancel- and replyToInvitation).
THEOREM InviteesKnow == LobbySpec => []InviteeKnows
<1>1. LobbyIInv => InviteeKnows
  BY DEF LobbyIInv, ToldOrAboutTo, InviteeKnows
<1> QED  BY <1>1, LobbyInvariance, PTL

-----------------------------------------------------------------------------
\* What the members of a channel have heard settles to who is in it.

\* The records of running.
ChatHandler ==
  [op : {"idle", "join", "leave", "logout", "text"}, user : Users \cup {None},
   list : SUBSET Users, answered : BOOLEAN, notify : SUBSET Users, texts : Seq(Users)]

\* A handler that runs has a user; one that is not answered has his session, and is his only
\* one of that kind; of the others only those that tell something have anybody to notify.
ChatHandlersWellFormed ==
  /\ running \in [ChatRequests -> ChatHandler]
  /\ \A r \in ChatRequests :
       /\ running[r].op = "idle" => running[r] = ChatIdle
       /\ running[r].op # "idle" => running[r].user \in Users
       /\ running[r].op # "idle" /\ ~running[r].answered => running[r].user \in session
       /\ running[r].op = "logout" => ~running[r].answered
       /\ running[r].op = "text" => running[r].notify = {}
  /\ \A r, q \in ChatRequests :
       /\ running[r].op # "idle" /\ running[q].op # "idle"
       /\ running[r].user = running[q].user
       /\ ~running[r].answered /\ ~running[q].answered
       => r = q

\* The history has the users of any two handlers that run.
ChatOverlapsKnown ==
  \A r, q \in ChatRequests :
    r # q /\ running[r].op # "idle" /\ running[q].op # "idle" =>
      /\ <<running[r].user, running[q].user>> \in overlapped
      /\ running[r].user = running[q].user => Users \X {running[r].user} \subseteq overlapped

\* What handler h tells, and its list, is right when inside are the members, except of those
\* whose handlers have overlapped.
HandlerRight(h, inside, overlaps, v) ==
  /\ <<v, h.user>> \notin overlaps =>
       /\ h.op = "join" => h.user \in inside
       /\ h.op \in {"leave", "logout"} => h.user \notin inside
  /\ h.op = "join" /\ ~h.answered /\ v # h.user /\ <<h.user, v>> \notin overlaps =>
       (v \in h.list <=> v \in inside)

ChatTidingsRight ==
  \A r \in ChatRequests : \A v \in Users :
    HandlerRight(running[r], Range(members), overlapped, v)

\* A handler has still to tell v, or to answer him, about u.
ChatPending(v, u) ==
  \E r \in ChatRequests :
    /\ running[r].user = u /\ running[r].op \in {"join", "leave", "logout"}
    /\ IF v = u THEN ~running[r].answered ELSE v \in running[r].notify

\* A client knows who is in the channel, but for what a handler has still to tell it.
ChatViewsRight ==
  \A v, u \in Users :
    view[v] # None =>
      /\ v \in session
      /\ <<v, u>> \notin overlapped /\ ~ChatPending(v, u) => (u \in view[v] <=> IsMember(u))

ChatIInv ==
  /\ ChatTypeOK
  /\ ChatHandlersWellFormed
  /\ ChatOverlapsKnown
  /\ ChatTidingsRight
  /\ ChatViewsRight

-----------------------------------------------------------------------------
LEMMA ChatIdleType ==
  /\ ChatIdle \in ChatHandler
  /\ ChatIdle.op = "idle" /\ ChatIdle.user = None /\ ~ChatIdle.answered
  /\ ChatIdle.list = {} /\ ChatIdle.notify = {} /\ ChatIdle.texts = <<>>
BY DEF ChatIdle, ChatHandler

LEMMA ChatInitInv == ChatInit => ChatIInv
<1> SUFFICES ASSUME ChatInit PROVE ChatIInv
  OBVIOUS
<1>1. ChatIdle \in ChatHandler /\ ChatIdle.op = "idle" /\ ChatIdle.user = None
  BY ChatIdleType
<1>2. members \in Seq(Users) /\ IsInjective(members)
  BY DEF ChatInit, IsInjective
<1>3. ChatTypeOK /\ ChatHandlersWellFormed
  <2>1. \A r \in ChatRequests : running[r] = ChatIdle
    BY DEF ChatInit
  <2>2. running \in [ChatRequests -> ChatHandler]
    BY <1>1 DEF ChatInit
  <2>3. ChatTypeOK
    <3>1. view \in [Users -> (SUBSET Users) \cup {None}] /\ session \subseteq Users
      BY DEF ChatInit
    <3>2. \A r \in ChatRequests : /\ running[r].op = "idle" /\ running[r].user = None
                                  /\ running[r].notify = {}
      BY <2>1 DEF ChatIdle
    <3> QED  BY <1>2, <3>1, <3>2, ChatAssumption DEF ChatInit, ChatTypeOK
  <2> QED  BY <1>1, <2>1, <2>2, <2>3 DEF ChatHandlersWellFormed
<1>4. ChatOverlapsKnown /\ ChatTidingsRight /\ ChatViewsRight
  <2>1. \A r \in ChatRequests : running[r].op = "idle"
    BY <1>1 DEF ChatInit
  <2>2. \A u \in Users : view[u] = None
    BY DEF ChatInit
  <2> QED  BY <2>1, <2>2 DEF ChatOverlapsKnown, ChatTidingsRight, HandlerRight, ChatViewsRight
<1> QED  BY <1>3, <1>4 DEF ChatIInv

\* The history has the users of the handlers that run with a new one.
LEMMA OverlapsElements ==
  ASSUME ChatIInv, NEW r \in ChatRequests, NEW u \in Users, Overlaps(r, u)
  PROVE  /\ overlapped' \subseteq Users \X Users
         /\ overlapped \subseteq overlapped'
         /\ \A q \in ChatRequests \ {r} :
              running[q].op # "idle" =>
                /\ <<u, running[q].user>> \in overlapped'
                /\ <<running[q].user, u>> \in overlapped'
                /\ running[q].user = u => Users \X {u} \subseteq overlapped'
<1> DEFINE Others == {q \in ChatRequests \ {r} : running[q].op # "idle"}
           Of(q) == {<<u, running[q].user>>, <<running[q].user, u>>} \cup
                    (IF running[q].user = u THEN Users \X {u} ELSE {})
           All == UNION {Of(q) : q \in Others}
<1>1. overlapped' = overlapped \cup All
  BY DEF Overlaps
<1>2. \A q \in Others :
         /\ Of(q) \subseteq Users \X Users
         /\ <<u, running[q].user>> \in Of(q) /\ <<running[q].user, u>> \in Of(q)
         /\ running[q].user = u => Users \X {u} \subseteq Of(q)
  BY DEF ChatIInv, ChatHandlersWellFormed
<1> HIDE DEF Of
<1>3. \A q \in Others : Of(q) \subseteq All
  BY Zenon
<1>4. \A x \in All : \E q \in Others : x \in Of(q)
  BY Zenon
<1>5. overlapped \subseteq Users \X Users
  BY DEF ChatIInv, ChatTypeOK
<1> HIDE DEF All
<1>6. overlapped' \subseteq Users \X Users
  <2>1. All \subseteq Users \X Users
    BY <1>2, <1>4
  <2> QED  BY <1>1, <1>5, <2>1
<1>7. \A q \in Others :
         /\ <<u, running[q].user>> \in overlapped' /\ <<running[q].user, u>> \in overlapped'
         /\ running[q].user = u => Users \X {u} \subseteq overlapped'
  BY <1>1, <1>2, <1>3
<1> QED  BY <1>1, <1>6, <1>7

\* A request begins: of user u, whose place in the channel alone changes, and then he is not the
\* only one who is told.
LEMMA ChatRequestInv ==
  ASSUME ChatIInv, NEW r \in ChatRequests, NEW u \in Users, NEW new \in ChatHandler,
         RequestOf(r, u), Runs(r, new), Overlaps(r, u), UNCHANGED <<session, view>>,
         new.user = u, ~new.answered, new.op # "idle", new.op = "text" => new.notify = {},
         members' \in Seq(Users), IsInjective(members'),
         \A w \in Users \ {u} : w \in Range(members') <=> w \in Range(members),
         new.op = "join" => u \in Range(members') /\ new.list = Range(members),
         new.op \in {"leave", "logout"} => u \notin Range(members'),
         \/ u \in Range(members') <=> u \in Range(members)
         \/ new.op \in {"join", "leave", "logout"} /\ Users \ {u} \subseteq new.notify
  PROVE  ChatIInv'
<1>0. None \notin Users
  BY ServerAssumption
<1>1. /\ running[r].op = "idle" /\ running[r].user = None
      /\ u \in session /\ chats' = chats + 1 /\ chats < MaxChats
      /\ \A q \in ChatRequests : running[q].user = u => running[q].answered
  BY DEF RequestOf, Waiting, ChatIInv, ChatHandlersWellFormed, ChatIdle
<1>2. \A q \in ChatRequests : running'[q] = IF q = r THEN new ELSE running[q]
  BY DEF Runs, ChatIInv, ChatHandlersWellFormed
<1>3. running' \in [ChatRequests -> ChatHandler]
  BY DEF Runs, ChatIInv, ChatHandlersWellFormed
<1>4. /\ overlapped' \subseteq Users \X Users /\ overlapped \subseteq overlapped'
      /\ \A q \in ChatRequests \ {r} :
           running[q].op # "idle" =>
             /\ <<u, running[q].user>> \in overlapped' /\ <<running[q].user, u>> \in overlapped'
             /\ running[q].user = u => Users \X {u} \subseteq overlapped'
  BY OverlapsElements
<1>5. ChatTypeOK'
  BY <1>1, <1>3, <1>4, ChatAssumption DEF ChatIInv, ChatTypeOK, ChatHandler
<1>6. ChatHandlersWellFormed'
  BY <1>1, <1>2, <1>3 DEF ChatIInv, ChatHandlersWellFormed
<1>7. ChatOverlapsKnown'
  <2> SUFFICES ASSUME NEW q \in ChatRequests, NEW p \in ChatRequests, q # p,
                      running'[q].op # "idle", running'[p].op # "idle"
               PROVE  /\ <<running'[q].user, running'[p].user>> \in overlapped'
                      /\ running'[q].user = running'[p].user =>
                           Users \X {running'[q].user} \subseteq overlapped'
    BY DEF ChatOverlapsKnown
  <2>1. CASE q = r \/ p = r
    BY <1>2, <1>4, <2>1
  <2>2. CASE q # r /\ p # r
    <3>1. running'[q] = running[q] /\ running'[p] = running[p]
      BY <1>2, <2>2
    <3> QED  BY <1>4, <3>1 DEF ChatIInv, ChatOverlapsKnown
  <2> QED  BY <2>1, <2>2
<1>8. ChatTidingsRight'
  <2> SUFFICES ASSUME NEW q \in ChatRequests, NEW v \in Users
               PROVE  HandlerRight(running'[q], Range(members'), overlapped', v)
    BY DEF ChatTidingsRight
  <2>1. CASE q = r
    <3>1. HandlerRight(new, Range(members'), overlapped', v)
      BY DEF HandlerRight
    <3> QED  BY <1>2, <2>1, <3>1
  <2>2. CASE q # r /\ running[q].op # "idle"
    <3> DEFINE k == running[q].user
    <3>1. k \in Users /\ running'[q] = running[q]
      BY <1>2, <2>2 DEF ChatIInv, ChatHandlersWellFormed
    <3>2. HandlerRight(running[q], Range(members), overlapped, v)
      BY DEF ChatIInv, ChatTidingsRight
    <3>3. /\ <<u, k>> \in overlapped' /\ <<k, u>> \in overlapped'
          /\ k = u => <<v, k>> \in overlapped'
      BY <1>4, <2>2
    <3>4. /\ <<v, k>> \notin overlapped' => <<v, k>> \notin overlapped /\ k # u
          /\ <<k, v>> \notin overlapped' => <<k, v>> \notin overlapped /\ v # u
      <4>1. \A x : x \in overlapped => x \in overlapped'
        BY <1>4
      <4> HIDE DEF k
      <4> QED  BY <3>3, <4>1
    <3>5. /\ k # u => (k \in Range(members') <=> k \in Range(members))
          /\ v # u => (v \in Range(members') <=> v \in Range(members))
      BY <3>1
    <3> QED  BY <3>1, <3>2, <3>4, <3>5 DEF HandlerRight
  <2>3. CASE q # r /\ running[q].op = "idle"
    <3>1. running'[q].op = "idle"
      BY <1>2, <2>3
    <3> QED  BY <3>1 DEF HandlerRight
  <2> QED  BY <2>1, <2>2, <2>3
<1>9. ChatViewsRight'
  <2> SUFFICES ASSUME NEW v \in Users, NEW w \in Users, view[v] # None,
                      <<v, w>> \notin overlapped', ~ChatPending(v, w)'
               PROVE  w \in view[v] <=> w \in Range(members')
    BY DEF ChatIInv, ChatViewsRight, IsMember
  <2>1. <<v, w>> \notin overlapped
    BY <1>4
  <2>2. CASE w # u
    <3>1. ~ChatPending(v, w)
      BY <1>0, <1>1, <1>2, <2>2 DEF ChatPending
    <3> QED  BY <2>1, <2>2, <3>1 DEF ChatIInv, ChatViewsRight, IsMember
  <2>3. CASE w = u
    <3>1. \A q \in ChatRequests : running[q].op # "idle" => running[q].user # u
      BY <1>1, <1>4, <2>3
    <3>2. ~ChatPending(v, u)
      BY <3>1 DEF ChatPending
    <3>3. ~(new.op \in {"join", "leave", "logout"} /\ Users \ {u} \subseteq new.notify)
      BY <1>2, <2>3 DEF ChatPending
    <3> QED  BY <2>1, <2>3, <3>2, <3>3 DEF ChatIInv, ChatViewsRight, IsMember
  <2> QED  BY <2>2, <2>3
<1> QED  BY <1>5, <1>6, <1>7, <1>8, <1>9 DEF ChatIInv

\* JoinChannel, LeaveChannel, LogoutOfChannel, SendText.
LEMMA ChatRequestsInv ==
  ASSUME ChatIInv, NEW r \in ChatRequests, NEW u \in Users,
         JoinChannel(r, u) \/ LeaveChannel(r, u) \/ LogoutOfChannel(r, u) \/ SendText(r, u)
  PROVE  ChatIInv'
<1>1. /\ members \in Seq(Users) /\ IsInjective(members) /\ Range(members) \subseteq Users
  BY RangeOfSeq DEF ChatIInv, ChatTypeOK
<1>2. /\ WithKey(members, u) \in Seq(Users) /\ IsInjective(WithKey(members, u))
      /\ Range(WithKey(members, u)) = Range(members) \cup {u}
  BY <1>1, WithKeyProperties
<1>3. /\ WithoutKey(members, u) \in Seq(Users) /\ IsInjective(WithoutKey(members, u))
      /\ Range(WithoutKey(members, u)) = Range(members) \ {u}
  BY <1>1, WithoutKeyProperties
<1>4. CASE JoinChannel(r, u)
  <2> DEFINE new == [ChatIdle EXCEPT !.op = "join", !.user = u, !.list = Range(members),
                                     !.notify = Users]
  <2>1. /\ new \in ChatHandler /\ new.user = u /\ ~new.answered /\ new.op = "join"
        /\ new.list = Range(members) /\ new.notify = Users
    BY <1>1, ChatIdleType DEF ChatHandler
  <2>2. /\ RequestOf(r, u) /\ Runs(r, new) /\ Overlaps(r, u) /\ UNCHANGED <<session, view>>
        /\ members' = WithKey(members, u)
    BY <1>4 DEF JoinChannel
  <2> HIDE DEF new
  <2> QED  BY <1>2, <2>1, <2>2, ChatRequestInv
<1>5. CASE LeaveChannel(r, u)
  <2> DEFINE new == [ChatIdle EXCEPT !.op = "leave", !.user = u, !.notify = Users \ {u}]
  <2>1. /\ new \in ChatHandler /\ new.user = u /\ ~new.answered /\ new.op = "leave"
        /\ new.notify = Users \ {u}
    BY ChatIdleType DEF ChatHandler
  <2>2. /\ RequestOf(r, u) /\ Runs(r, new) /\ Overlaps(r, u) /\ UNCHANGED <<session, view>>
        /\ members' = WithoutKey(members, u)
    BY <1>5 DEF LeaveChannel
  <2> HIDE DEF new
  <2> QED  BY <1>3, <2>1, <2>2, ChatRequestInv
<1>6. CASE LogoutOfChannel(r, u)
  <2> DEFINE new == [ChatIdle EXCEPT !.op = "logout", !.user = u, !.notify = ToldOfLogout(u)]
  <2>1. /\ new \in ChatHandler /\ new.user = u /\ ~new.answered /\ new.op = "logout"
        /\ u \in Range(members) => new.notify = Users \ {u}
    BY ChatIdleType DEF ChatHandler, ToldOfLogout, IsMember
  <2>2. /\ RequestOf(r, u) /\ Runs(r, new) /\ Overlaps(r, u) /\ UNCHANGED <<session, view>>
        /\ members' = WithoutKey(members, u)
    BY <1>6 DEF LogoutOfChannel
  <2> HIDE DEF new
  <2> QED  BY <1>3, <2>1, <2>2, ChatRequestInv
<1>7. CASE SendText(r, u)
  <2> DEFINE new == [ChatIdle EXCEPT !.op = "text", !.user = u]
  <2>1. /\ new \in ChatHandler /\ new.user = u /\ ~new.answered /\ new.op = "text"
        /\ new.notify = {}
    BY ChatIdleType DEF ChatHandler
  <2>2. /\ RequestOf(r, u) /\ Runs(r, new) /\ Overlaps(r, u) /\ UNCHANGED <<session, view>>
        /\ members' = members
    BY <1>7 DEF SendText
  <2> HIDE DEF new
  <2> QED  BY <1>1, <2>1, <2>2, ChatRequestInv
<1> QED  BY <1>4, <1>5, <1>6, <1>7

\* A step of a handler that keeps its user, or ends it, and changes no member: what is then left
\* to prove.
LEMMA ChatStepInv ==
  ASSUME ChatIInv, NEW r \in ChatRequests, NEW new \in ChatHandler, Runs(r, new),
         running[r].op # "idle", UNCHANGED <<members, chats, overlapped>>,
         \/ new = ChatIdle
         \/ /\ new.op = running[r].op /\ new.user = running[r].user
            /\ new.list = running[r].list
            /\ running[r].answered => new.answered
            /\ new.op = "logout" => ~new.answered
            /\ new.op = "text" => new.notify = {}
            /\ ~new.answered => running[r].user \in session',
         session' \subseteq session,
         \A q \in ChatRequests \ {r} :
           running[q].op # "idle" /\ ~running[q].answered => running[q].user \in session',
         view' \in [Users -> (SUBSET Users) \cup {None}]
  PROVE  /\ ChatTypeOK' /\ ChatHandlersWellFormed'
         /\ ChatOverlapsKnown' /\ ChatTidingsRight'
<1>0. ChatIdle.op = "idle" /\ ChatIdle.user = None
  BY DEF ChatIdle
<1>1. \A q \in ChatRequests : running'[q] = IF q = r THEN new ELSE running[q]
  BY DEF Runs, ChatIInv, ChatHandlersWellFormed
<1>2. running' \in [ChatRequests -> ChatHandler]
  BY DEF Runs, ChatIInv, ChatHandlersWellFormed
<1>3. ChatTypeOK'
  BY <1>2 DEF ChatIInv, ChatTypeOK, ChatHandler
<1>4. ChatHandlersWellFormed'
  <2>1. CASE new = ChatIdle
    BY <1>0, <1>1, <1>2, <2>1 DEF ChatIInv, ChatHandlersWellFormed
  <2>2. CASE new # ChatIdle
    BY <1>1, <1>2, <2>2 DEF ChatIInv, ChatHandlersWellFormed
  <2> QED  BY <2>1, <2>2
<1>5. ChatOverlapsKnown'
  BY <1>0, <1>1 DEF ChatIInv, ChatOverlapsKnown
<1>6. ChatTidingsRight'
  BY <1>0, <1>1 DEF ChatIInv, ChatTidingsRight, HandlerRight
<1> QED  BY <1>3, <1>4, <1>5, <1>6

\* When the views and what is pending change as told, the views stay right.
LEMMA ChatAnswerInv ==
  ASSUME ChatIInv, NEW r \in ChatRequests, ChatAnswer(r)
  PROVE  ChatIInv'
<1> DEFINE h == running[r]
           u == h.user
           heard == IF h.op = "text" THEN members ELSE <<>>
           new == [h EXCEPT !.answered = TRUE, !.texts = heard]
<1>1. /\ h \in ChatHandler /\ h.op \in {"join", "leave", "text"} /\ ~h.answered
      /\ u \in Users /\ u \in session
  BY DEF ChatAnswer, ChatIInv, ChatHandlersWellFormed
<1>2. /\ new \in ChatHandler /\ new.op = h.op /\ new.user = u /\ new.list = h.list
      /\ new.answered /\ new.notify = h.notify
  <2>1. heard \in Seq(Users)
    BY DEF ChatIInv, ChatTypeOK
  <2> HIDE DEF heard
  <2> QED  BY <1>1, <2>1 DEF ChatHandler
<1>3. Runs(r, new) /\ UNCHANGED <<members, session, chats, overlapped>>
  BY DEF ChatAnswer
<1>4. /\ h.op = "join" => view' = [view EXCEPT ![u] = h.list \cup {u}]
      /\ h.op = "leave" => view' = [view EXCEPT ![u] = None]
      /\ h.op = "text" => view' = view
  BY <1>1 DEF ChatAnswer
<1>5. h.op = "text" => h.notify = {}
  BY DEF ChatIInv, ChatHandlersWellFormed
<1> HIDE DEF new
<1>6. /\ view' \in [Users -> (SUBSET Users) \cup {None}]
      /\ \A v \in Users \ {u} : view'[v] = view[v]
      /\ h.op = "join" => view'[u] = h.list \cup {u}
      /\ h.op = "leave" => view'[u] = None
      /\ h.op = "text" => view'[u] = view[u]
  BY <1>1, <1>4 DEF ChatHandler, ChatIInv, ChatTypeOK
<1>7. \A q \in ChatRequests : running'[q] = IF q = r THEN new ELSE running[q]
  BY <1>2, <1>3 DEF Runs, ChatIInv, ChatHandlersWellFormed
<1>8. /\ ChatTypeOK' /\ ChatHandlersWellFormed'
      /\ ChatOverlapsKnown' /\ ChatTidingsRight'
  BY <1>1, <1>2, <1>3, <1>5, <1>6, ChatStepInv DEF ChatIInv, ChatHandlersWellFormed
<1>9. ChatViewsRight'
  <2> SUFFICES ASSUME NEW v \in Users, NEW w \in Users, view'[v] # None
               PROVE  /\ v \in session
                      /\ <<v, w>> \notin overlapped /\ ~ChatPending(v, w)' =>
                           (w \in view'[v] <=> w \in Range(members))
    BY <1>3 DEF ChatViewsRight, IsMember
  <2>1. CASE v # u
    <3>1. ChatPending(v, w) => ChatPending(v, w)'
      BY <1>2, <1>7, <2>1 DEF ChatPending
    <3> QED  BY <1>6, <2>1, <3>1 DEF ChatIInv, ChatViewsRight, IsMember
  <2>2. CASE v = u /\ h.op = "join"
    <3>1. \A x \in Users : HandlerRight(h, Range(members), overlapped, x)
      BY DEF ChatIInv, ChatTidingsRight
    <3>2. <<u, w>> \notin overlapped => (w \in h.list \cup {u} <=> w \in Range(members))
      BY <1>1, <2>2, <3>1 DEF HandlerRight
    <3> QED  BY <1>1, <1>6, <2>2, <3>2
  <2>3. CASE v = u /\ h.op = "text"
    <3>1. ChatPending(v, w) => ChatPending(v, w)'
      BY <1>2, <1>7, <2>3 DEF ChatPending
    <3> QED  BY <1>6, <2>3, <3>1 DEF ChatIInv, ChatViewsRight, IsMember
  <2> QED  BY <1>1, <1>6, <2>1, <2>2, <2>3
<1> QED  BY <1>8, <1>9 DEF ChatIInv

LEMMA NotifyInv ==
  ASSUME ChatIInv, NEW r \in ChatRequests, NEW k \in Users, Notify(r, k)
  PROVE  ChatIInv'
<1> DEFINE h == running[r]
           u == h.user
           new == [h EXCEPT !.notify = h.notify \ {k}]
<1>1. /\ h \in ChatHandler /\ h.op \in {"join", "leave", "logout"} /\ u \in Users
      /\ h.op = "logout" \/ h.answered
      /\ ~h.answered => h.op = "logout" /\ u \in session
      /\ h.op = "logout" => ~h.answered
      /\ k \in h.notify
  BY DEF Notify, ChatIInv, ChatHandlersWellFormed, ChatHandler, ChatIdle
<1>2. /\ new \in ChatHandler /\ new.op = h.op /\ new.user = u /\ new.list = h.list
      /\ new.answered = h.answered /\ new.notify = h.notify \ {k}
  BY <1>1 DEF ChatHandler
<1>3. Runs(r, new) /\ UNCHANGED <<members, session, chats, overlapped>>
  BY DEF Notify
<1>4. view' = IF k \in session THEN [view EXCEPT ![k] = Notified(view[k], h.op, u)] ELSE view
  BY DEF Notify, ChatIInv, ChatTypeOK
<1> HIDE DEF new
<1>5. /\ view[k] = None => Notified(view[k], h.op, u) = None
      /\ view[k] # None => /\ Notified(view[k], h.op, u) \subseteq Users
                           /\ h.op = "join" => Notified(view[k], h.op, u) = view[k] \cup {u}
                           /\ h.op # "join" => Notified(view[k], h.op, u) = view[k] \ {u}
  <2>1. view[k] # None => view[k] \subseteq Users
    BY DEF ChatIInv, ChatTypeOK
  <2>2. view[k] # None /\ h.op = "join" => Notified(view[k], h.op, u) = view[k] \cup {u}
    BY DEF Notified
  <2>3. view[k] # None /\ h.op # "join" => Notified(view[k], h.op, u) = view[k] \ {u}
    BY DEF Notified
  <2>4. view[k] = None => Notified(view[k], h.op, u) = None
    BY DEF Notified
  <2> QED  BY <1>1, <2>1, <2>2, <2>3, <2>4
<1>6. /\ view' \in [Users -> (SUBSET Users) \cup {None}]
      /\ \A v \in Users \ {k} : view'[v] = view[v]
      /\ view'[k] = IF k \in session THEN Notified(view[k], h.op, u) ELSE view[k]
  BY <1>4, <1>5 DEF ChatIInv, ChatTypeOK
<1>7. \A q \in ChatRequests : running'[q] = IF q = r THEN new ELSE running[q]
  BY <1>2, <1>3 DEF Runs, ChatIInv, ChatHandlersWellFormed
<1>8. /\ ChatTypeOK' /\ ChatHandlersWellFormed'
      /\ ChatOverlapsKnown' /\ ChatTidingsRight'
  BY <1>1, <1>2, <1>3, <1>6, ChatStepInv DEF ChatIInv, ChatHandlersWellFormed
<1>9. ChatViewsRight'
  <2> SUFFICES ASSUME NEW v \in Users, NEW w \in Users, view'[v] # None
               PROVE  /\ v \in session
                      /\ <<v, w>> \notin overlapped /\ ~ChatPending(v, w)' =>
                           (w \in view'[v] <=> w \in Range(members))
    BY <1>3 DEF ChatViewsRight, IsMember
  <2>1. CASE v # k \/ w # u
    <3>1. ChatPending(v, w) => ChatPending(v, w)'
      BY <1>2, <1>7, <2>1 DEF ChatPending
    <3>2. view[v] # None /\ (w \in view'[v] <=> w \in view[v])
      BY <1>5, <1>6, <2>1
    <3> QED  BY <3>1, <3>2 DEF ChatIInv, ChatViewsRight, IsMember
  <2>2. CASE v = k /\ w = u
    <3>1. HandlerRight(h, Range(members), overlapped, k)
      BY DEF ChatIInv, ChatTidingsRight
    <3>2. view[k] # None /\ k \in session
      BY <1>5, <1>6, <2>2 DEF ChatIInv, ChatViewsRight
    <3> QED  BY <1>1, <1>5, <1>6, <2>2, <3>1, <3>2 DEF HandlerRight
  <2> QED  BY <2>1, <2>2
<1> QED  BY <1>8, <1>9 DEF ChatIInv

LEMMA HearTextInv ==
  ASSUME ChatIInv, NEW r \in ChatRequests, HearText(r)
  PROVE  ChatIInv'
<1> DEFINE h == running[r]
           rest == [h EXCEPT !.texts = Tail(h.texts)]
<1>1. h \in ChatHandler /\ h.op = "text" /\ h.answered /\ h.user \in Users /\ h.notify = {}
  BY DEF HearText, ChatIInv, ChatHandlersWellFormed
<1>2. h.texts # <<>> => /\ rest \in ChatHandler /\ rest.op = "text" /\ rest.user = h.user
                        /\ rest.answered /\ rest.list = h.list /\ rest.notify = {}
  <2>1. h.texts \in Seq(Users)
    BY <1>1 DEF ChatHandler
  <2>2. h.texts # <<>> => Tail(h.texts) \in Seq(Users)
    BY <2>1
  <2> QED  BY <1>1, <2>2 DEF ChatHandler
<1> HIDE DEF rest
<1>3. PICK new \in ChatHandler :
        /\ Runs(r, new)
        /\ \/ new = ChatIdle
           \/ /\ new.op = h.op /\ new.user = h.user /\ new.list = h.list /\ new.answered
              /\ new.notify = {}
  BY <1>1, <1>2, ChatIdleType DEF HearText, rest
<1>4. UNCHANGED <<members, session, view, chats, overlapped>>
  BY DEF HearText
<1>5. view \in [Users -> (SUBSET Users) \cup {None}]
  BY DEF ChatIInv, ChatTypeOK
<1>6. /\ ChatTypeOK' /\ ChatHandlersWellFormed'
      /\ ChatOverlapsKnown' /\ ChatTidingsRight'
  BY <1>1, <1>3, <1>4, <1>5, ChatStepInv DEF ChatIInv, ChatHandlersWellFormed
<1>7. \A v, u \in Users : ChatPending(v, u) => ChatPending(v, u)'
  <2>1. \A q \in ChatRequests \ {r} : running'[q] = running[q]
    BY <1>3 DEF Runs, ChatIInv, ChatHandlersWellFormed
  <2> QED  BY <1>1, <2>1 DEF ChatPending
<1>8. ChatViewsRight'
  BY <1>4, <1>7 DEF ChatIInv, ChatViewsRight, IsMember
<1> QED  BY <1>6, <1>8 DEF ChatIInv

LEMMA ChatDoneInv ==
  ASSUME ChatIInv, NEW r \in ChatRequests, ChatDone(r)
  PROVE  ChatIInv'
<1> DEFINE h == running[r]
           u == h.user
<1>1. /\ h \in ChatHandler /\ h.op \in {"join", "leave", "logout"} /\ u \in Users
      /\ h.notify = {} /\ (h.op # "logout" => h.answered)
      /\ h.op = "logout" => ~h.answered
  BY DEF ChatDone, ChatIInv, ChatHandlersWellFormed
<1>2. Runs(r, ChatIdle) /\ UNCHANGED <<members, chats, overlapped>>
  BY DEF ChatDone, EndsSession, Runs
<1>3. /\ h.op = "logout" => /\ session' = session \ {u}
                           /\ view' = [view EXCEPT ![u] = None]
      /\ h.op # "logout" => UNCHANGED <<session, view>>
  BY DEF ChatDone, EndsSession
<1>4. /\ view' \in [Users -> (SUBSET Users) \cup {None}]
      /\ \A v \in Users : view'[v] # None => view'[v] = view[v] /\ (h.op # "logout" \/ v # u)
  BY <1>1, <1>3 DEF ChatIInv, ChatTypeOK
<1>5. \A q \in ChatRequests : running'[q] = IF q = r THEN ChatIdle ELSE running[q]
  BY <1>2 DEF Runs, ChatIInv, ChatHandlersWellFormed
<1>6. \A q \in ChatRequests \ {r} :
        running[q].op # "idle" /\ ~running[q].answered => running[q].user \in session'
  BY <1>1, <1>3 DEF ChatIInv, ChatHandlersWellFormed
<1>7. /\ ChatTypeOK' /\ ChatHandlersWellFormed'
      /\ ChatOverlapsKnown' /\ ChatTidingsRight'
  BY <1>1, <1>2, <1>3, <1>4, <1>6, ChatIdleType, ChatStepInv
\* Nobody was left to tell, and the answer has been given.
<1>8. ASSUME NEW v \in Users, NEW w \in Users, view'[v] # None, ChatPending(v, w)
      PROVE  ChatPending(v, w)'
  <2>1. PICK q \in ChatRequests :
           /\ running[q].user = w /\ running[q].op \in {"join", "leave", "logout"}
           /\ IF v = w THEN ~running[q].answered ELSE v \in running[q].notify
    BY <1>8 DEF ChatPending
  <2>2. q # r
    BY <1>1, <1>4, <1>8, <2>1
  <2> QED  BY <1>5, <2>1, <2>2 DEF ChatPending
<1>9. ChatViewsRight'
  <2> SUFFICES ASSUME NEW v \in Users, NEW w \in Users, view'[v] # None
               PROVE  /\ v \in session'
                      /\ <<v, w>> \notin overlapped /\ ~ChatPending(v, w)' =>
                           (w \in view'[v] <=> w \in Range(members))
    BY <1>2 DEF ChatViewsRight, IsMember
  <2>1. view'[v] = view[v] /\ v \in session'
    BY <1>3, <1>4 DEF ChatIInv, ChatViewsRight
  <2> QED  BY <1>8, <2>1 DEF ChatIInv, ChatViewsRight, IsMember
<1> QED  BY <1>7, <1>9 DEF ChatIInv

LEMMA ChatSessionInv ==
  ASSUME ChatIInv, NEW u \in Users, ChatExpire(u) \/ ChatLogin(u)
  PROVE  ChatIInv'
<1>1. UNCHANGED <<members, running, chats, overlapped>>
  BY DEF ChatExpire, ChatLogin, EndsSession
<1>2. /\ view' \in [Users -> (SUBSET Users) \cup {None}]
      /\ \A v \in Users : view'[v] # None => view'[v] = view[v] /\ v \in session'
      /\ session' \subseteq Users
  BY DEF ChatExpire, ChatLogin, EndsSession, ChatIInv, ChatTypeOK, ChatViewsRight
<1>3. \A r \in ChatRequests :
        running[r].op # "idle" /\ ~running[r].answered => running[r].user \in session'
  BY DEF ChatExpire, ChatLogin, EndsSession, Waiting, ChatIInv, ChatHandlersWellFormed
<1>4. ChatTypeOK' /\ ChatHandlersWellFormed'
  BY <1>1, <1>2, <1>3 DEF ChatIInv, ChatTypeOK, ChatHandlersWellFormed
<1>5. ChatOverlapsKnown' /\ ChatTidingsRight'
  BY <1>1 DEF ChatIInv, ChatOverlapsKnown, ChatTidingsRight
<1>6. ChatViewsRight'
  BY <1>1, <1>2 DEF ChatIInv, ChatViewsRight, ChatPending, IsMember
<1> QED  BY <1>4, <1>5, <1>6 DEF ChatIInv

LEMMA ChatNextInv == ChatIInv /\ [ChatNext]_chatVars => ChatIInv'
<1> SUFFICES ASSUME ChatIInv, [ChatNext]_chatVars PROVE ChatIInv'
  OBVIOUS
<1>1. CASE ChatNext
  <2>1. ASSUME NEW r \in ChatRequests, NEW u \in Users,
               \/ JoinChannel(r, u) \/ LeaveChannel(r, u) \/ LogoutOfChannel(r, u)
               \/ SendText(r, u)
        PROVE  ChatIInv'
    BY <2>1, ChatRequestsInv
  <2>2. ASSUME NEW r \in ChatRequests, NEW u \in Users, Notify(r, u) PROVE ChatIInv'
    BY <2>2, NotifyInv
  <2>3. ASSUME NEW r \in ChatRequests, ChatAnswer(r) \/ HearText(r) \/ ChatDone(r)
        PROVE  ChatIInv'
    BY <2>3, ChatAnswerInv, HearTextInv, ChatDoneInv
  <2>4. ASSUME NEW u \in Users, ChatExpire(u) \/ ChatLogin(u) PROVE ChatIInv'
    BY <2>4, ChatSessionInv
  <2> QED  BY <1>1, <2>1, <2>2, <2>3, <2>4 DEF ChatNext
<1>2. CASE UNCHANGED chatVars
  BY <1>2 DEF chatVars, ChatIInv, ChatTypeOK, ChatHandlersWellFormed, ChatOverlapsKnown,
              ChatTidingsRight, ChatViewsRight, ChatPending, IsMember
<1> QED  BY <1>1, <1>2

LEMMA ChatInvariance == ChatSpec => []ChatIInv
BY ChatInitInv, ChatNextInv, PTL DEF ChatSpec

\* The channel, the clients' views and the handlers keep their types.
THEOREM ChatTypeCorrect == ChatSpec => []ChatTypeOK
<1>1. ChatIInv => ChatTypeOK
  BY DEF ChatIInv
<1> QED  BY <1>1, ChatInvariance, PTL

\* Once all the handlers have returned, JoinChannel's answers and the messages of JoinChannel,
\* LeaveChannel and Logout, however they were interleaved, have told every client who is in the
\* channel, but for the users whose handlers ran at once.
THEOREM ViewsOfTheChannelSettle == ChatSpec => []ViewsSettle
<1>1. ChatIInv => ViewsSettle
  <2> SUFFICES ASSUME ChatIInv, Quiet, NEW v \in Users, NEW u \in Users,
                      view[v] # None, <<v, u>> \notin overlapped
               PROVE  u \in view[v] <=> IsMember(u)
    BY DEF ViewsSettle
  <2>1. ~ChatPending(v, u)
    BY DEF Quiet, ChatPending
  <2> QED  BY <2>1 DEF ChatIInv, ChatViewsRight
<1> QED  BY <1>1, ChatInvariance, PTL

-----------------------------------------------------------------------------
\* What a friend has heard of a presence settles to what it is.

\* A handler that runs has a user, and has encoded the presence before it turns to the friends.
PresenceWorkWellFormed ==
  \A r \in PresenceRequests :
    /\ work[r].op = "idle" => work[r] = PresenceIdle
    /\ work[r].op # "idle" => work[r].user \in Users
    /\ work[r].op \in {"accept", "clear"} \/ work[r].to # {} => work[r].sends # None

\* A user that has not mingled has one handler, which sends what his presence is.
PresenceOneHandler ==
  \A r \in PresenceRequests :
    work[r].user \in Users \ mingled =>
      /\ \A q \in PresenceRequests : work[q].user = work[r].user => q = r
      /\ work[r].sends # None => work[r].sends = presence[work[r].user]
      /\ work[r].op \in {"logout", "clear"} => presence[work[r].user] = 0

LoggingIn(v) == \E r \in PresenceRequests : work[r].user = v /\ work[r].op \in {"login", "accept"}
LoggingOut(u) == \E r \in PresenceRequests : work[r].user = u /\ work[r].op \in {"logout", "clear"}

\* A user with a session is online, unless he has hidden himself or is logging out.
LoggedAreOnline ==
  \A u \in logged \ (mingled \cup hidden) : ~LoggingOut(u) => presence[u] > 0

\* The presence of u has still to be sent to v; u has still to become a friend of v.
PresencePending(v, u) ==
  \E r \in PresenceRequests :
    /\ work[r].user = u /\ work[r].op \in {"set", "login", "logout"}
    /\ work[r].sends = None \/ v \in work[r].to
FriendPending(v, u) ==
  \E r \in PresenceRequests :
    work[r].user = u /\ (work[r].op = "login" \/ (work[r].op = "accept" /\ v \in work[r].to))

\* What the client of v knows of u, but for what is pending and before v's login is answered.
PresenceKnown ==
  \A v \in logged \ mingled : \A u \in Users \ (mingled \cup {v}) :
    ~PresencePending(v, u) =>
      \/ known[v][u] = presence[u]
      \/ known[v][u] = 0 /\ LoggingIn(v)
FriendsKnown ==
  \A v \in logged \ mingled : \A u \in Users \ (mingled \cup hidden \cup {v}) :
    presence[u] > 0 => FriendPending(v, u) \/ LoggingIn(v) \/ u \in friends[v]

PresenceIInv ==
  /\ PresenceTypeOK
  /\ PresenceWorkWellFormed
  /\ PresenceOneHandler
  /\ LoggedAreOnline
  /\ PresenceKnown
  /\ FriendsKnown

-----------------------------------------------------------------------------
LEMMA PresenceIdleType ==
  /\ PresenceIdle \in PresenceHandler
  /\ PresenceIdle.op = "idle" /\ PresenceIdle.user = None /\ PresenceIdle.to = {}
BY DEF PresenceIdle, PresenceHandler

LEMMA PresenceInitInv == PresenceInit => PresenceIInv
<1> SUFFICES ASSUME PresenceInit PROVE PresenceIInv
  OBVIOUS
<1>0. /\ work \in [PresenceRequests -> PresenceHandler]
      /\ \A r \in PresenceRequests :
           work[r] = PresenceIdle /\ work[r].op = "idle" /\ work[r].user = None /\ work[r].to = {}
  BY PresenceIdleType DEF PresenceInit
<1>1. PresenceTypeOK
  BY <1>0, PresenceAssumption, MaxPresencesAssumption DEF PresenceInit, PresenceTypeOK
<1>2. PresenceWorkWellFormed
  BY <1>0 DEF PresenceWorkWellFormed
<1>3. PresenceOneHandler
  BY <1>0, ServerAssumption DEF PresenceOneHandler
<1>4. LoggedAreOnline /\ PresenceKnown /\ FriendsKnown
  BY DEF PresenceInit, LoggedAreOnline, PresenceKnown, FriendsKnown
<1> QED  BY <1>1, <1>2, <1>3, <1>4 DEF PresenceIInv

\* What the start of a handler does.
LEMMA NewWorkStep ==
  ASSUME PresenceIInv, NEW r \in PresenceRequests, NEW op \in {"set", "login", "logout"},
         NEW u \in Users, NewWork(r, op, u)
  PROVE  /\ work' \in [PresenceRequests -> PresenceHandler]
         /\ work[r].user = None
         /\ work'[r].op = op /\ work'[r].user = u /\ work'[r].sends = None
         /\ \A q \in PresenceRequests \ {r} : work'[q] = work[q]
         /\ mingled \subseteq mingled' /\ mingled' \subseteq Users
         /\ u \notin mingled' => \A q \in PresenceRequests : work[q].user # u
         /\ presences' \in 0 .. MaxPresences
         /\ PresenceWorkWellFormed'
<1> DEFINE new == [PresenceIdle EXCEPT !.op = op, !.user = u]
<1>1. /\ new \in PresenceHandler /\ new.op = op /\ new.user = u /\ new.sends = None /\ new.to = {}
  BY DEF PresenceIdle, PresenceHandler
<1>2. work' = [work EXCEPT ![r] = new] /\ work[r].op = "idle"
  BY DEF NewWork, Does
<1> HIDE DEF new
<1>3. /\ work' \in [PresenceRequests -> PresenceHandler]
      /\ work'[r] = new
      /\ \A q \in PresenceRequests \ {r} : work'[q] = work[q]
  BY <1>1, <1>2 DEF PresenceIInv, PresenceTypeOK
<1>4. work[r].user = None
  BY <1>2, PresenceIdleType DEF PresenceIInv, PresenceWorkWellFormed
<1>5. PresenceWorkWellFormed'
  BY <1>1, <1>3 DEF PresenceIInv, PresenceWorkWellFormed
<1>6. /\ mingled \subseteq mingled' /\ mingled' \subseteq Users
      /\ u \notin mingled' => \A q \in PresenceRequests : work[q].user # u
  BY DEF NewWork, WorksFor, PresenceIInv, PresenceTypeOK
<1>7. presences' \in 0 .. MaxPresences
  BY MaxPresencesAssumption DEF NewWork, PresenceIInv, PresenceTypeOK
<1> QED  BY <1>1, <1>3, <1>4, <1>5, <1>6, <1>7

\* SetPresence, LoginSession and LogoutPresence: user u's presence becomes p.
LEMMA PresenceRequestInv ==
  ASSUME PresenceIInv, NEW r \in PresenceRequests, NEW op \in {"set", "login", "logout"},
         NEW u \in Users, NEW p \in Presences, NewWork(r, op, u),
         presence' = [presence EXCEPT ![u] = p],
         op = "login" => p = 1, op = "logout" => p = 0,
         hidden \subseteq hidden', hidden' \subseteq Users, op = "set" /\ p = 0 => u \in hidden',
         op # "login" => u \in logged /\ UNCHANGED <<logged, friends, known>>,
         op = "login" => /\ logged' = logged \cup {u}
                         /\ friends' = [friends EXCEPT ![u] = {}]
                         /\ known' = [known EXCEPT ![u] = [v \in Users |-> 0]]
  PROVE  PresenceIInv'
<1>0. None \notin Users /\ Presences \subseteq Nat /\ {0, 1} \subseteq Presences
  BY ServerAssumption, PresenceAssumption
<1>1. /\ work' \in [PresenceRequests -> PresenceHandler]
      /\ work[r].user = None
      /\ work'[r].op = op /\ work'[r].user = u /\ work'[r].sends = None
      /\ \A q \in PresenceRequests \ {r} : work'[q] = work[q]
      /\ mingled \subseteq mingled' /\ mingled' \subseteq Users
      /\ u \notin mingled' => \A q \in PresenceRequests : work[q].user # u
      /\ presences' \in 0 .. MaxPresences
      /\ PresenceWorkWellFormed'
  BY NewWorkStep
<1>2. /\ presence' \in [Users -> Presences] /\ presence'[u] = p
      /\ \A w \in Users \ {u} : presence'[w] = presence[w]
  BY DEF PresenceIInv, PresenceTypeOK
<1>3. /\ friends' \in [Users -> SUBSET Users]
      /\ \A v \in Users : op # "login" \/ v # u => friends'[v] = friends[v]
  BY DEF PresenceIInv, PresenceTypeOK
<1>4. /\ known' \in [Users -> [Users -> Presences]]
      /\ \A v \in Users : op # "login" \/ v # u => known'[v] = known[v]
      /\ op = "login" => \A w \in Users : known'[u][w] = 0
  BY <1>0 DEF PresenceIInv, PresenceTypeOK
<1>5. PresenceTypeOK'
  BY <1>1, <1>2, <1>3, <1>4 DEF PresenceIInv, PresenceTypeOK
<1>6. PresenceOneHandler'
  <2> SUFFICES ASSUME NEW q \in PresenceRequests, work'[q].user \in Users \ mingled'
               PROVE  /\ \A k \in PresenceRequests : work'[k].user = work'[q].user => k = q
                      /\ work'[q].sends # None => work'[q].sends = presence'[work'[q].user]
                      /\ work'[q].op \in {"logout", "clear"} => presence'[work'[q].user] = 0
    BY DEF PresenceOneHandler
  <2>1. CASE q = r
    BY <1>1, <1>2, <2>1
  <2>2. CASE q # r
    <3>1. work'[q] = work[q] /\ work[q].user \in Users \ mingled /\ work[q].user # u
      BY <1>1, <2>2
    <3> QED  BY <1>1, <1>2, <3>1 DEF PresenceIInv, PresenceOneHandler
  <2> QED  BY <2>1, <2>2
\* What was pending still is, and what was in progress.
<1>7. \A v, w \in Users :
        /\ LoggingOut(w) => LoggingOut(w)' 
        /\ LoggingIn(w) => LoggingIn(w)'
        /\ PresencePending(v, w) => PresencePending(v, w)'
        /\ FriendPending(v, w) => FriendPending(v, w)'
  <2>1. \A q \in PresenceRequests : work[q].user \in Users => work'[q] = work[q]
    BY <1>0, <1>1
  <2>2. \A w \in Users : (LoggingOut(w) => LoggingOut(w)') /\ (LoggingIn(w) => LoggingIn(w)')
    BY <2>1 DEF LoggingOut, LoggingIn
  <2>3. \A v, w \in Users : /\ PresencePending(v, w) => PresencePending(v, w)'
                            /\ FriendPending(v, w) => FriendPending(v, w)'
    BY <2>1 DEF PresencePending, FriendPending
  <2> QED  BY <2>2, <2>3
<1>8. \A v \in Users :
        /\ PresencePending(v, u)'
        /\ op = "login" => LoggingIn(u)' /\ FriendPending(v, u)'
        /\ op = "logout" => LoggingOut(u)'
  BY <1>1 DEF PresencePending, LoggingIn, FriendPending, LoggingOut
<1>9. LoggedAreOnline'
  <2> SUFFICES ASSUME NEW w \in logged' \ (mingled' \cup hidden'), ~LoggingOut(w)'
               PROVE  presence'[w] > 0
    BY DEF LoggedAreOnline
  <2>1. CASE w = u
    BY <1>0, <1>2, <1>8, <2>1
  <2>2. CASE w # u
    BY <1>1, <1>2, <1>5, <1>7, <2>2 DEF PresenceIInv, PresenceTypeOK, LoggedAreOnline
  <2> QED  BY <2>1, <2>2
<1>10. PresenceKnown'
  <2> SUFFICES ASSUME NEW v \in logged' \ mingled', NEW w \in Users \ (mingled' \cup {v}),
                      ~PresencePending(v, w)'
               PROVE  known'[v][w] = presence'[w] \/ (known'[v][w] = 0 /\ LoggingIn(v)')
    BY DEF PresenceKnown
  <2>1. w # u /\ v \in Users
    BY <1>5, <1>8 DEF PresenceTypeOK
  <2>2. CASE v = u /\ op = "login"
    BY <1>4, <1>8, <2>2
  <2>3. CASE ~(v = u /\ op = "login")
    <3>1. v \in logged \ mingled /\ w \in Users \ (mingled \cup {v}) /\ known'[v] = known[v]
      BY <1>1, <1>4, <2>1, <2>3
    <3>2. ~PresencePending(v, w) /\ (LoggingIn(v) => LoggingIn(v)')
      BY <1>7, <2>1
    <3>3. known[v][w] = presence[w] \/ (known[v][w] = 0 /\ LoggingIn(v))
      <4>1. w \in Users \ (mingled \cup {v})
        BY <3>1
      <4> QED  BY <3>1, <3>2, <4>1, Zenon DEF PresenceIInv, PresenceKnown
    <3> QED  BY <1>2, <2>1, <3>1, <3>2, <3>3
  <2> QED  BY <2>2, <2>3
<1>11. FriendsKnown'
  <2> SUFFICES ASSUME NEW v \in logged' \ mingled',
                      NEW w \in Users \ (mingled' \cup hidden' \cup {v}), presence'[w] > 0
               PROVE  FriendPending(v, w)' \/ LoggingIn(v)' \/ w \in friends'[v]
    BY DEF FriendsKnown
  <2>1. v \in Users
    BY <1>5 DEF PresenceTypeOK
  <2>2. CASE op = "login" /\ (v = u \/ w = u)
    BY <1>8, <2>1, <2>2
  <2>3. CASE ~(op = "login" /\ (v = u \/ w = u))
    <3>1. v \in logged \ mingled /\ w \in Users \ (mingled \cup hidden \cup {v})
          /\ friends'[v] = friends[v]
      BY <1>1, <1>3, <2>1, <2>3
    <3>2. presence[w] > 0
      <4>1. CASE w = u
        <5>1. u \in logged /\ ~LoggingOut(u)
          BY <1>1, <1>2, <2>3, <4>1 DEF LoggingOut
        <5> QED  BY <3>1, <4>1, <5>1 DEF PresenceIInv, LoggedAreOnline
      <4>2. CASE w # u
        BY <1>2, <4>2
      <4> QED  BY <4>1, <4>2
    <3> QED  BY <1>7, <2>1, <3>1, <3>2 DEF PresenceIInv, FriendsKnown
  <2> QED  BY <2>2, <2>3
<1> QED  BY <1>1, <1>5, <1>6, <1>9, <1>10, <1>11 DEF PresenceIInv

\* What a step of a handler does that is not its start.
LEMMA PresenceWorkStep ==
  ASSUME PresenceIInv, NEW r \in PresenceRequests, NEW new \in PresenceHandler, Does(r, new),
         work[r].op # "idle", UNCHANGED <<presence, mingled>>,
         \/ new = PresenceIdle
         \/ /\ new.op # "idle" /\ new.user = work[r].user
            /\ new.op \in {"accept", "clear"} \/ new.to # {} => new.sends # None
            /\ new.op \in {"logout", "clear"} => work[r].op \in {"logout", "clear"}
            /\ new.sends \in {work[r].sends, presence[work[r].user]}
  PROVE  /\ work' \in [PresenceRequests -> PresenceHandler]
         /\ work'[r] = new
         /\ \A q \in PresenceRequests \ {r} : work'[q] = work[q]
         /\ PresenceWorkWellFormed' /\ PresenceOneHandler'
<1>1. /\ work' \in [PresenceRequests -> PresenceHandler]
      /\ work'[r] = new
      /\ \A q \in PresenceRequests \ {r} : work'[q] = work[q]
  BY DEF Does, PresenceIInv, PresenceTypeOK
<1>2. PresenceWorkWellFormed'
  BY <1>1, PresenceIdleType DEF PresenceIInv, PresenceWorkWellFormed
<1>3. PresenceOneHandler'
  <2> SUFFICES ASSUME NEW q \in PresenceRequests, work'[q].user \in Users \ mingled
               PROVE  /\ \A k \in PresenceRequests : work'[k].user = work'[q].user => k = q
                      /\ work'[q].sends # None => work'[q].sends = presence[work'[q].user]
                      /\ work'[q].op \in {"logout", "clear"} => presence[work'[q].user] = 0
    BY DEF PresenceOneHandler
  <2>1. /\ work[q].user = work'[q].user
        /\ work'[q].sends \in {work[q].sends, presence[work[q].user]}
        /\ work'[q].op \in {"logout", "clear"} => work[q].op \in {"logout", "clear"}
    BY <1>1, PresenceIdleType, ServerAssumption
  <2>2. \A k \in PresenceRequests : work'[k].user \in Users => work[k].user = work'[k].user
    BY <1>1, PresenceIdleType, ServerAssumption
  <2> QED  BY <2>1, <2>2 DEF PresenceIInv, PresenceOneHandler
<1> QED  BY <1>1, <1>2, <1>3

LEMMA EncodePresenceInv ==
  ASSUME PresenceIInv, NEW r \in PresenceRequests, EncodePresence(r)
  PROVE  PresenceIInv'
<1> DEFINE h == work[r]
           u == h.user
           new == [h EXCEPT !.sends = presence[u], !.to = Users]
<1>1. h \in PresenceHandler /\ u \in Users /\ h.op \in {"set", "login", "logout"} /\ h.sends = None
  BY DEF EncodePresence, PresenceIInv, PresenceTypeOK, PresenceWorkWellFormed
<1>2. /\ new \in PresenceHandler /\ new.op = h.op /\ new.user = u
      /\ new.sends = presence[u] /\ new.to = Users
  BY <1>1 DEF PresenceHandler, PresenceIInv, PresenceTypeOK
<1>3. /\ Does(r, new)
      /\ UNCHANGED <<presence, logged, friends, known, presences, mingled, hidden>>
  BY DEF EncodePresence
<1>0. presence[u] # None
  BY <1>1, PresenceAssumption DEF PresenceIInv, PresenceTypeOK
<1> HIDE DEF new
<1>4. /\ work' \in [PresenceRequests -> PresenceHandler] /\ work'[r] = new
      /\ \A q \in PresenceRequests \ {r} : work'[q] = work[q]
      /\ PresenceWorkWellFormed' /\ PresenceOneHandler'
  BY <1>0, <1>1, <1>2, <1>3, PresenceWorkStep
<1>5. PresenceTypeOK'
  BY <1>3, <1>4 DEF PresenceIInv, PresenceTypeOK
<1>6. \A v, w \in Users :
        /\ LoggingOut(w)' <=> LoggingOut(w)
        /\ LoggingIn(w)' <=> LoggingIn(w)
        /\ PresencePending(v, w) => PresencePending(v, w)'
        /\ FriendPending(v, w) => FriendPending(v, w)'
  BY <1>1, <1>2, <1>4 DEF LoggingOut, LoggingIn, PresencePending, FriendPending
<1>7. logged \subseteq Users
  BY DEF PresenceIInv, PresenceTypeOK
<1>8. LoggedAreOnline'
  BY <1>3, <1>6, <1>7 DEF PresenceIInv, LoggedAreOnline
<1>9. PresenceKnown'
  BY <1>3, <1>6, <1>7 DEF PresenceIInv, PresenceKnown
<1>10. FriendsKnown'
  BY <1>3, <1>6, <1>7 DEF PresenceIInv, FriendsKnown
<1> QED  BY <1>4, <1>5, <1>8, <1>9, <1>10 DEF PresenceIInv

LEMMA SendPresenceInv ==
  ASSUME PresenceIInv, NEW r \in PresenceRequests, NEW k \in Users, SendPresence(r, k)
  PROVE  PresenceIInv'
<1> DEFINE h == work[r]
           u == h.user
           new == [h EXCEPT !.to = h.to \ {k}]
<1>1. h \in PresenceHandler /\ u \in Users /\ h.op \in {"set", "login", "logout"} /\ k \in h.to
  BY DEF SendPresence, PresenceIInv, PresenceTypeOK, PresenceWorkWellFormed
<1>2. /\ new \in PresenceHandler /\ new.op = h.op /\ new.user = u
      /\ new.sends = h.sends /\ new.to = h.to \ {k}
  BY <1>1 DEF PresenceHandler
<1>3. /\ Does(r, new)
      /\ UNCHANGED <<presence, logged, friends, presences, mingled, hidden>>
  BY DEF SendPresence
<1>0. h.sends # None
  BY DEF SendPresence, PresenceIInv, PresenceWorkWellFormed
<1> HIDE DEF new
<1>4. /\ work' \in [PresenceRequests -> PresenceHandler] /\ work'[r] = new
      /\ \A q \in PresenceRequests \ {r} : work'[q] = work[q]
      /\ PresenceWorkWellFormed' /\ PresenceOneHandler'
  BY <1>0, <1>1, <1>2, <1>3, PresenceWorkStep
<1>5. /\ known' \in [Users -> [Users -> Presences]]
      /\ \A v, w \in Users : v # k \/ w # u => known'[v][w] = known[v][w]
      /\ k \in logged => known'[k][u] = h.sends
  <2>1. h.sends \in Presences
    BY <1>0, <1>1 DEF PresenceHandler
  <2>2. known' = IF k \in logged THEN [known EXCEPT ![k] = [known[k] EXCEPT ![u] = h.sends]]
                                 ELSE known
    BY DEF SendPresence, PresenceIInv, PresenceTypeOK
  <2> QED  BY <1>1, <2>1, <2>2 DEF PresenceIInv, PresenceTypeOK
<1>6. PresenceTypeOK'
  BY <1>3, <1>4, <1>5 DEF PresenceIInv, PresenceTypeOK
<1>7. \A v, w \in Users :
        /\ LoggingOut(w)' <=> LoggingOut(w)
        /\ LoggingIn(w)' <=> LoggingIn(w)
        /\ v # k \/ w # u => (PresencePending(v, w) => PresencePending(v, w)')
        /\ FriendPending(v, w) => FriendPending(v, w)'
  BY <1>1, <1>2, <1>4 DEF LoggingOut, LoggingIn, PresencePending, FriendPending
<1>8. logged \subseteq Users
  BY DEF PresenceIInv, PresenceTypeOK
<1>9. LoggedAreOnline'
  BY <1>3, <1>7, <1>8 DEF PresenceIInv, LoggedAreOnline
<1>10. PresenceKnown'
  <2> SUFFICES ASSUME NEW v \in logged \ mingled, NEW w \in Users \ (mingled \cup {v}),
                      ~PresencePending(v, w)'
               PROVE  known'[v][w] = presence[w] \/ (known'[v][w] = 0 /\ LoggingIn(v)')
    BY <1>3 DEF PresenceKnown
  <2>1. CASE v = k /\ w = u
    <3>1. h.sends = presence[u]
      <4>1. u \in Users \ mingled
        BY <1>1, <2>1
      <4> QED  BY <1>0, <4>1 DEF PresenceIInv, PresenceOneHandler
    <3> QED  BY <1>5, <2>1, <3>1
  <2>2. CASE v # k \/ w # u
    <3>1. ~PresencePending(v, w) /\ known'[v][w] = known[v][w] /\ (LoggingIn(v)' <=> LoggingIn(v))
      BY <1>5, <1>7, <1>8, <2>2
    <3>2. known[v][w] = presence[w] \/ (known[v][w] = 0 /\ LoggingIn(v))
      BY <3>1, Zenon DEF PresenceIInv, PresenceKnown
    <3> QED  BY <3>1, <3>2
  <2> QED  BY <2>1, <2>2
<1>11. FriendsKnown'
  BY <1>3, <1>7, <1>8 DEF PresenceIInv, FriendsKnown
<1> QED  BY <1>4, <1>6, <1>9, <1>10, <1>11 DEF PresenceIInv

LEMMA ToFriendsInv ==
  ASSUME PresenceIInv, NEW r \in PresenceRequests, ToFriends(r)
  PROVE  PresenceIInv'
<1> DEFINE h == work[r]
           u == h.user
           op == IF h.op = "login" THEN "accept" ELSE "clear"
           new == [h EXCEPT !.op = op, !.to = Users \ {u}]
<1>0. h.sends # None /\ h.to = {}
  BY DEF ToFriends
<1>1. h \in PresenceHandler /\ u \in Users /\ h.op \in {"login", "logout"}
  BY DEF ToFriends, PresenceIInv, PresenceTypeOK, PresenceWorkWellFormed
<1>2. /\ new \in PresenceHandler /\ new.op = op /\ new.user = u
      /\ new.sends = h.sends /\ new.to = Users \ {u}
  BY <1>1 DEF PresenceHandler
<1>3. /\ Does(r, new)
      /\ UNCHANGED <<presence, logged, friends, known, presences, mingled, hidden>>
  BY DEF ToFriends
<1> HIDE DEF new
<1>4. /\ work' \in [PresenceRequests -> PresenceHandler] /\ work'[r] = new
      /\ \A q \in PresenceRequests \ {r} : work'[q] = work[q]
      /\ PresenceWorkWellFormed' /\ PresenceOneHandler'
  BY <1>0, <1>1, <1>2, <1>3, PresenceWorkStep
<1>5. PresenceTypeOK'
  BY <1>3, <1>4 DEF PresenceIInv, PresenceTypeOK
<1>6. \A v, w \in Users :
        /\ LoggingOut(w)' <=> LoggingOut(w)
        /\ LoggingIn(w)' <=> LoggingIn(w)
        /\ PresencePending(v, w) => PresencePending(v, w)'
        /\ v # w => (FriendPending(v, w) => FriendPending(v, w)')
  <2>1. \A w \in Users : (LoggingOut(w)' <=> LoggingOut(w)) /\ (LoggingIn(w)' <=> LoggingIn(w))
    BY <1>1, <1>2, <1>4 DEF LoggingOut, LoggingIn
  <2>2. \A v, w \in Users : PresencePending(v, w) => PresencePending(v, w)'
    BY <1>0, <1>1, <1>2, <1>4 DEF PresencePending
  <2>3. \A v, w \in Users : v # w => (FriendPending(v, w) => FriendPending(v, w)')
    BY <1>0, <1>1, <1>2, <1>4 DEF FriendPending
  <2> QED  BY <2>1, <2>2, <2>3
<1>7. logged \subseteq Users
  BY DEF PresenceIInv, PresenceTypeOK
<1>8. LoggedAreOnline'
  BY <1>3, <1>6, <1>7 DEF PresenceIInv, LoggedAreOnline
<1>9. PresenceKnown'
  BY <1>3, <1>6, <1>7 DEF PresenceIInv, PresenceKnown
<1>10. FriendsKnown'
  BY <1>3, <1>6, <1>7 DEF PresenceIInv, FriendsKnown
<1> QED  BY <1>4, <1>5, <1>8, <1>9, <1>10 DEF PresenceIInv

LEMMA SendFriendInv ==
  ASSUME PresenceIInv, NEW r \in PresenceRequests, NEW k \in Users, SendFriend(r, k)
  PROVE  PresenceIInv'
<1> DEFINE h == work[r]
           u == h.user
           new == [h EXCEPT !.to = h.to \ {k}]
<1>0. h.sends # None
  BY DEF SendFriend, PresenceIInv, PresenceWorkWellFormed
<1>1. h \in PresenceHandler /\ u \in Users /\ h.op \in {"accept", "clear"} /\ k \in h.to
  BY DEF SendFriend, PresenceIInv, PresenceTypeOK, PresenceWorkWellFormed
<1>2. /\ new \in PresenceHandler /\ new.op = h.op /\ new.user = u
      /\ new.sends = h.sends /\ new.to = h.to \ {k}
  BY <1>1 DEF PresenceHandler
<1>3. /\ Does(r, new)
      /\ UNCHANGED <<presence, logged, known, presences, mingled, hidden>>
  BY DEF SendFriend
<1> HIDE DEF new
<1>4. /\ work' \in [PresenceRequests -> PresenceHandler] /\ work'[r] = new
      /\ \A q \in PresenceRequests \ {r} : work'[q] = work[q]
      /\ PresenceWorkWellFormed' /\ PresenceOneHandler'
  BY <1>0, <1>1, <1>2, <1>3, PresenceWorkStep
<1>5. /\ friends' \in [Users -> SUBSET Users]
      /\ \A v, w \in Users : v # k \/ w # u => (w \in friends'[v] <=> w \in friends[v])
      /\ k \in logged /\ h.op = "accept" => u \in friends'[k]
  <2> DEFINE more == IF h.op = "accept" THEN friends[k] \cup {u} ELSE friends[k] \ {u}
  <2>1. friends' = IF k \notin logged THEN friends ELSE [friends EXCEPT ![k] = more]
    BY DEF SendFriend, PresenceIInv, PresenceTypeOK
  <2>2. more \subseteq Users /\ \A w \in Users \ {u} : w \in more <=> w \in friends[k]
    BY <1>1 DEF PresenceIInv, PresenceTypeOK
  <2>3. h.op = "accept" => u \in more
    OBVIOUS
  <2> HIDE DEF more
  <2> QED  BY <1>1, <2>1, <2>2, <2>3 DEF PresenceIInv, PresenceTypeOK
<1>6. PresenceTypeOK'
  BY <1>3, <1>4, <1>5 DEF PresenceIInv, PresenceTypeOK
<1>7. \A v, w \in Users :
        /\ LoggingOut(w)' <=> LoggingOut(w)
        /\ LoggingIn(w)' <=> LoggingIn(w)
        /\ PresencePending(v, w) => PresencePending(v, w)'
        /\ v # k \/ w # u => (FriendPending(v, w) => FriendPending(v, w)')
  BY <1>1, <1>2, <1>4 DEF LoggingOut, LoggingIn, PresencePending, FriendPending
<1>8. logged \subseteq Users
  BY DEF PresenceIInv, PresenceTypeOK
<1>9. LoggedAreOnline'
  BY <1>3, <1>7, <1>8 DEF PresenceIInv, LoggedAreOnline
<1>10. PresenceKnown'
  BY <1>3, <1>7, <1>8 DEF PresenceIInv, PresenceKnown
<1>11. FriendsKnown'
  <2> SUFFICES ASSUME NEW v \in logged \ mingled,
                      NEW w \in Users \ (mingled \cup hidden \cup {v}), presence[w] > 0
               PROVE  FriendPending(v, w)' \/ LoggingIn(v)' \/ w \in friends'[v]
    BY <1>3 DEF FriendsKnown
  <2>1. CASE v = k /\ w = u
    <3>1. h.op = "clear" => presence[u] = 0
      <4>1. u \in Users \ mingled
        BY <1>1, <2>1
      <4> QED  BY <4>1 DEF PresenceIInv, PresenceOneHandler
    <3>2. h.op = "accept"
      BY <1>1, <2>1, <3>1
    <3> QED  BY <1>5, <2>1, <3>2
  <2>2. CASE v # k \/ w # u
    <3>1. FriendPending(v, w) \/ LoggingIn(v) \/ w \in friends[v]
      BY DEF PresenceIInv, FriendsKnown
    <3> QED  BY <1>5, <1>7, <1>8, <2>2, <3>1
  <2> QED  BY <2>1, <2>2
<1> QED  BY <1>4, <1>6, <1>9, <1>10, <1>11 DEF PresenceIInv

LEMMA FinishPresenceInv ==
  ASSUME PresenceIInv, NEW r \in PresenceRequests, FinishPresence(r)
  PROVE  PresenceIInv'
<1> DEFINE h == work[r]
           u == h.user
<1>0. h.sends # None /\ h.to = {}
  BY DEF FinishPresence
<1>1. u \in Users /\ h.op \in {"set", "accept", "clear"}
  BY DEF FinishPresence, PresenceIInv, PresenceTypeOK, PresenceWorkWellFormed
<1>2. /\ Does(r, PresenceIdle)
      /\ UNCHANGED <<presence, presences, mingled, hidden>>
  BY DEF FinishPresence
<1>3. /\ logged' = IF h.op = "clear" THEN logged \ {u} ELSE logged
      /\ h.op # "accept" => UNCHANGED <<friends, known>>
      /\ h.op = "accept" =>
           /\ friends' = [friends EXCEPT ![u] = friends[u] \cup Related(u)]
           /\ known' = [known EXCEPT ![u] =
                [v \in Users |-> IF v \in Related(u) THEN presence[v] ELSE known[u][v]]]
  BY DEF FinishPresence, PresenceIInv, PresenceTypeOK
<1>4. /\ work' \in [PresenceRequests -> PresenceHandler] /\ work'[r] = PresenceIdle
      /\ \A q \in PresenceRequests \ {r} : work'[q] = work[q]
      /\ PresenceWorkWellFormed' /\ PresenceOneHandler'
  BY <1>1, <1>2, PresenceIdleType, PresenceWorkStep
<1>5. /\ friends' \in [Users -> SUBSET Users]
      /\ \A v \in Users : friends[v] \subseteq friends'[v]
      /\ h.op = "accept" => \A w \in Users \ {u} : presence[w] > 0 => w \in friends'[u]
  BY <1>1, <1>3 DEF Related, PresenceIInv, PresenceTypeOK
<1>6. /\ known' \in [Users -> [Users -> Presences]]
      /\ \A v \in Users : h.op # "accept" \/ v # u => known'[v] = known[v]
      /\ h.op = "accept" => \A w \in Users \ {u} :
           known'[u][w] = IF presence[w] > 0 THEN presence[w] ELSE known[u][w]
  <2>1. /\ known \in [Users -> [Users -> Presences]] /\ presence \in [Users -> Presences]
        /\ \A w \in Users \ {u} : w \in Related(u) <=> presence[w] > 0
    BY DEF Related, PresenceIInv, PresenceTypeOK
  <2>2. CASE h.op # "accept"
    BY <1>3, <2>1, <2>2
  <2>3. CASE h.op = "accept"
    <3> DEFINE g == [v \in Users |-> IF v \in Related(u) THEN presence[v] ELSE known[u][v]]
    <3>1. g \in [Users -> Presences]
      BY <1>1, <2>1
    <3>2. \A w \in Users \ {u} : g[w] = IF presence[w] > 0 THEN presence[w] ELSE known[u][w]
      BY <2>1
    <3>3. known' = [known EXCEPT ![u] = g]
      BY <1>3, <2>3
    <3> HIDE DEF g
    <3>4. known' \in [Users -> [Users -> Presences]] /\ known'[u] = g
          /\ \A v \in Users \ {u} : known'[v] = known[v]
      BY <1>1, <2>1, <3>1, <3>3
    <3> QED  BY <2>3, <3>2, <3>4
  <2> QED  BY <2>2, <2>3
<1>7. PresenceTypeOK'
  BY <1>2, <1>3, <1>4, <1>5, <1>6 DEF PresenceIInv, PresenceTypeOK
<1>8. \A v, w \in Users :
        /\ PresencePending(v, w) => PresencePending(v, w)'
        /\ FriendPending(v, w) => FriendPending(v, w)'
  BY <1>0, <1>1, <1>4 DEF PresencePending, FriendPending
<1>9. \A w \in Users :
        /\ w # u \/ h.op # "clear" => (LoggingOut(w) => LoggingOut(w)')
        /\ w # u \/ h.op # "accept" => (LoggingIn(w) => LoggingIn(w)')
  BY <1>1, <1>4 DEF LoggingOut, LoggingIn
<1>10. logged \subseteq Users /\ logged' \subseteq logged /\ Presences \subseteq Nat
  BY <1>3, PresenceAssumption DEF PresenceIInv, PresenceTypeOK
<1>11. LoggedAreOnline'
  <2> SUFFICES ASSUME NEW w \in logged' \ (mingled \cup hidden), ~LoggingOut(w)'
               PROVE  presence[w] > 0
    BY <1>2 DEF LoggedAreOnline
  <2>1. w \in logged \ (mingled \cup hidden) /\ ~LoggingOut(w)
    BY <1>3, <1>9, <1>10
  <2> QED  BY <2>1 DEF PresenceIInv, LoggedAreOnline
<1>12. PresenceKnown'
  <2> SUFFICES ASSUME NEW v \in logged' \ mingled, NEW w \in Users \ (mingled \cup {v}),
                      ~PresencePending(v, w)'
               PROVE  known'[v][w] = presence[w] \/ (known'[v][w] = 0 /\ LoggingIn(v)')
    BY <1>2 DEF PresenceKnown
  <2>1. v \in Users /\ v \in logged \ mingled /\ ~PresencePending(v, w)
    BY <1>8, <1>10
  <2>2. known[v][w] = presence[w] \/ (known[v][w] = 0 /\ LoggingIn(v))
    BY <2>1 DEF PresenceIInv, PresenceKnown
  <2>3. CASE h.op = "accept" /\ v = u
    <3>1. presence[w] \in Nat
      BY <1>10 DEF PresenceIInv, PresenceTypeOK
    <3>2. known'[v][w] = IF presence[w] > 0 THEN presence[w] ELSE known[v][w]
      BY <1>6, <2>3
    <3> QED  BY <2>2, <3>1, <3>2
  <2>4. CASE h.op # "accept" \/ v # u
    BY <1>6, <1>9, <2>1, <2>2, <2>4
  <2> QED  BY <2>3, <2>4
<1>13. FriendsKnown'
  <2> SUFFICES ASSUME NEW v \in logged' \ mingled,
                      NEW w \in Users \ (mingled \cup hidden \cup {v}), presence[w] > 0
               PROVE  FriendPending(v, w)' \/ LoggingIn(v)' \/ w \in friends'[v]
    BY <1>2 DEF FriendsKnown
  <2>1. v \in Users /\ v \in logged \ mingled
    BY <1>10
  <2>2. FriendPending(v, w) \/ LoggingIn(v) \/ w \in friends[v]
    BY <2>1 DEF PresenceIInv, FriendsKnown
  <2>3. CASE h.op = "accept" /\ v = u
    BY <1>5, <2>3
  <2>4. CASE h.op # "accept" \/ v # u
    BY <1>5, <1>8, <1>9, <2>1, <2>2, <2>4
  <2> QED  BY <2>3, <2>4
<1> QED  BY <1>4, <1>7, <1>11, <1>12, <1>13 DEF PresenceIInv

LEMMA PresenceExpireInv ==
  ASSUME PresenceIInv, NEW u \in Users, PresenceExpire(u)
  PROVE  PresenceIInv'
<1>1. logged' \subseteq logged
      /\ UNCHANGED <<presence, friends, known, work, presences, mingled, hidden>>
  BY DEF PresenceExpire
<1>2. PresenceTypeOK' /\ PresenceWorkWellFormed' /\ PresenceOneHandler'
  BY <1>1 DEF PresenceIInv, PresenceTypeOK, PresenceWorkWellFormed, PresenceOneHandler
<1>3. LoggedAreOnline'
  BY <1>1 DEF PresenceIInv, LoggedAreOnline, LoggingOut
<1>4. PresenceKnown' /\ FriendsKnown'
  BY <1>1 DEF PresenceIInv, PresenceKnown, FriendsKnown, PresencePending, FriendPending, LoggingIn
<1> QED  BY <1>2, <1>3, <1>4 DEF PresenceIInv

LEMMA PresenceNextInv == PresenceIInv /\ [PresenceNext]_presenceVars => PresenceIInv'
<1> SUFFICES ASSUME PresenceIInv, [PresenceNext]_presenceVars PROVE PresenceIInv'
  OBVIOUS
<1>0. {0, 1} \subseteq Presences
  BY PresenceAssumption
<1>1. CASE PresenceNext
  <2>1. ASSUME NEW r \in PresenceRequests, NEW u \in Users, NEW p \in Presences,
               SetPresence(r, u, p)
        PROVE  PresenceIInv'
    <3>1. hidden \subseteq hidden' /\ hidden' \subseteq Users
      BY <2>1 DEF SetPresence, PresenceIInv, PresenceTypeOK
    <3> QED  BY <2>1, <3>1, PresenceRequestInv DEF SetPresence
  <2>2. ASSUME NEW r \in PresenceRequests, NEW u \in Users, LoginSession(r, u)
        PROVE  PresenceIInv'
    <3>1. hidden \subseteq hidden' /\ hidden' \subseteq Users
      BY <2>2 DEF LoginSession, PresenceIInv, PresenceTypeOK
    <3> QED  BY <1>0, <2>2, <3>1, PresenceRequestInv DEF LoginSession
  <2>3. ASSUME NEW r \in PresenceRequests, NEW u \in Users, LogoutPresence(r, u)
        PROVE  PresenceIInv'
    <3>1. hidden \subseteq hidden' /\ hidden' \subseteq Users
      BY <2>3 DEF LogoutPresence, PresenceIInv, PresenceTypeOK
    <3> QED  BY <1>0, <2>3, <3>1, PresenceRequestInv DEF LogoutPresence
  <2>4. ASSUME NEW r \in PresenceRequests, NEW u \in Users, SendPresence(r, u) \/ SendFriend(r, u)
        PROVE  PresenceIInv'
    BY <2>4, SendPresenceInv, SendFriendInv
  <2>5. ASSUME NEW r \in PresenceRequests, EncodePresence(r) \/ ToFriends(r) \/ FinishPresence(r)
        PROVE  PresenceIInv'
    BY <2>5, EncodePresenceInv, ToFriendsInv, FinishPresenceInv
  <2> QED  BY <1>1, <2>1, <2>2, <2>3, <2>4, <2>5, PresenceExpireInv DEF PresenceNext
<1>2. CASE UNCHANGED presenceVars
  BY <1>2 DEF presenceVars, PresenceIInv, PresenceTypeOK, PresenceWorkWellFormed,
              PresenceOneHandler, LoggedAreOnline, PresenceKnown, FriendsKnown, PresencePending,
              FriendPending, LoggingIn, LoggingOut
<1> QED  BY <1>1, <1>2

LEMMA PresenceInvariance == PresenceSpec => []PresenceIInv
BY PresenceInitInv, PresenceNextInv, PTL DEF PresenceSpec

\* The presences, what the clients know of them and the handlers keep their types.
THEOREM PresenceTypeCorrect == PresenceSpec => []PresenceTypeOK
<1>1. PresenceIInv => PresenceTypeOK
  BY DEF PresenceIInv
<1> QED  BY <1>1, PresenceInvariance, PTL

\* Once all the handlers have returned, the messages of SetPresence, Platformlogin and Logout
\* and the relationships a login is answered with, however they were interleaved, have told every
\* client the presence of every other user, but for the users that have mingled.
THEOREM PresencesSettle == PresenceSpec => []PresenceSettles
<1>1. PresenceIInv => PresenceSettles
  <2> SUFFICES ASSUME PresenceIInv, Still, NEW v \in logged \ mingled,
                      NEW u \in Users \ (mingled \cup {v})
               PROVE  /\ known[v][u] = presence[u]
                      /\ presence[u] > 0 /\ u \notin hidden => u \in friends[v]
    BY DEF PresenceSettles
  <2>1. ~PresencePending(v, u) /\ ~FriendPending(v, u) /\ ~LoggingIn(v)
    BY DEF Still, PresencePending, FriendPending, LoggingIn
  <2>2. known[v][u] = presence[u]
    BY <2>1 DEF PresenceIInv, PresenceKnown
  <2>3. presence[u] > 0 /\ u \notin hidden => u \in friends[v]
    BY <2>1 DEF PresenceIInv, FriendsKnown
  <2> QED  BY <2>2, <2>3
<1> QED  BY <1>1, PresenceInvariance, PTL
=============================================================================
