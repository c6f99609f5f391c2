-------------------------- MODULE HostPC_proofs -----------------------------
(*****************************************************************************)
(* What the launcher's programs change on a PC, each part apart from the others: *)
(* the file lock of a program, the battle servers, the agent with the        *)
(* administrator's rights, the host that the launcher connects to, the folders *)
(* that launcher-config exchanges, and the hosts file. Of each, types, and what *)
(* TLC checks of it on a small instance, for any values of the constants.    *)
(*****************************************************************************)
EXTENDS Hosts, PidLock, BattleServers, AdminAgent, Connection, Config, FiniteSetTheorems,
        WellFoundedInduction, TLAPS


-----------------------------------------------------------------------------
\* One copy of a program runs at a time.

\* A process has a file open from opening it until it unlocks it or ends.
OpenFiles ==
  \A p \in Programs :
    program[p].file # 0 <=> program[p].pc \in {"lock", "truncate", "write", "runs"}

\* From Lock until Unlock the file is locked by the process.
LockHeld ==
  \A p \in Programs :
    program[p].pc \in {"truncate", "write", "runs"} => files[program[p].file].locker = p

\* Without a mistake, all that is open is the file that has the name.
OpenIsNamed == mistaken \/ \A p \in Programs : program[p].file # 0 => program[p].file = path

PidIInv == PidTypeOK /\ OpenFiles /\ LockHeld /\ OpenIsNamed

-----------------------------------------------------------------------------
LEMMA PidInitInv == PidInit => PidIInv
<1> SUFFICES ASSUME PidInit PROVE PidIInv
  OBVIOUS
<1>1. files = <<>> /\ files \in Seq(File) /\ Len(files) = 0
  BY DEF PidInit
<1>2. PidTypeOK
  <2>1. program \in [Programs -> [pc : {"begin"}, file : {0}]]
    BY DEF PidInit
  <2>2. 0 .. Len(files) = {0}
    BY <1>1
  <2>3. watch \in [pc : {"begin", "kill", "remove"}, victim : Programs \cup {NoProgram}]
    BY DEF PidInit
  <2>4. program \in [Programs -> [pc : {"begin", "discard", "open", "lock", "truncate", "write",
                                      "runs", "remove", "ended"}, file : 0 .. Len(files)]]
    BY <2>1, <2>2
  <2> QED  BY <1>1, <2>2, <2>3, <2>4 DEF PidInit, PidTypeOK
<1> QED  BY <1>2 DEF PidInit, PidIInv, OpenFiles, LockHeld, OpenIsNamed

\* A step changes a file in place.
LEMMA ChangedFile ==
  ASSUME NEW fs \in Seq(File), NEW i \in 1 .. Len(fs), NEW f \in File
  PROVE  /\ [fs EXCEPT ![i] = f] \in Seq(File)
         /\ Len([fs EXCEPT ![i] = f]) = Len(fs)
         /\ [fs EXCEPT ![i] = f][i] = f
         /\ \A j \in 1 .. Len(fs) : j # i => [fs EXCEPT ![i] = f][j] = fs[j]
OBVIOUS

\* The removal of a name by a process that has no file open.
LEMMA RemoveStep ==
  ASSUME PidIInv, NEW p, p \in Programs => program[p].file = 0, RemoveFile(p)
  PROVE  /\ path' = 0 /\ mistaken' \in BOOLEAN
         /\ mistaken' \/ \A q \in Programs : program[q].file = 0
BY DEF RemoveFile, PidIInv, PidTypeOK, OpenIsNamed

\* A process that ends leaves the files as they are, and its own unlocked.
LEMMA LeavesStep ==
  ASSUME PidIInv, NEW p \in Programs, Leaves(p)
  PROVE  /\ files' \in Seq(File)
         /\ Len(files') = Len(files)
         /\ \A q \in Programs \ {p}, i \in 1 .. Len(files) :
              files[i].locker = q => files'[i].locker = q
<1>1. files \in Seq(File) /\ DOMAIN files = 1 .. Len(files) /\ Len(files) \in Nat
  BY DEF PidIInv, PidTypeOK
<1>2. files' = [i \in 1 .. Len(files) |->
                  IF files[i].locker = p THEN [files[i] EXCEPT !.locker = NoProgram]
                  ELSE files[i]]
  BY <1>1 DEF Leaves
<1>3. \A i \in 1 .. Len(files) : files[i] \in File
  BY <1>1
<1>4. \A i \in 1 .. Len(files) :
        (IF files[i].locker = p THEN [files[i] EXCEPT !.locker = NoProgram] ELSE files[i]) \in File
  BY <1>3 DEF File
<1>5. files' \in [1 .. Len(files) -> File]
  BY <1>2, <1>4
<1>6. files' \in Seq(File) /\ Len(files') = Len(files)
  BY <1>1, <1>5
<1>7. ASSUME NEW q \in Programs \ {p}, NEW i \in 1 .. Len(files), files[i].locker = q
      PROVE  files'[i].locker = q
  <2>1. files'[i] = files[i]
    BY <1>2, <1>7
  <2> QED  BY <1>7, <2>1
<1> QED  BY <1>6, <1>7

LEMMA LookInv ==
  ASSUME PidIInv, NEW p \in Programs, Look(p)
  PROVE  PidIInv'
BY SMTT(30) DEF Look, ProgramAt, Proceed, PidIInv, PidTypeOK, OpenFiles, LockHeld, OpenIsNamed

LEMMA DiscardInv ==
  ASSUME PidIInv, NEW p \in Programs, Discard(p)
  PROVE  PidIInv'
<1>1. /\ path' = 0 /\ mistaken' \in BOOLEAN
      /\ mistaken' \/ \A q \in Programs : program[q].file = 0
  BY RemoveStep DEF Discard, ProgramAt, PidIInv, PidTypeOK, OpenFiles
<1> QED
  BY <1>1 DEF Discard, ProgramAt, Proceed, PidIInv, PidTypeOK, OpenFiles, LockHeld, OpenIsNamed

LEMMA OpenInv ==
  ASSUME PidIInv, NEW p \in Programs, Open(p)
  PROVE  PidIInv'
<1>0. files \in Seq(File) /\ Len(files) \in Nat /\ path \in 0 .. Len(files)
  BY DEF PidIInv, PidTypeOK
<1>1. PICK file \in Nat \ {0} :
        /\ path' = file /\ files' \in Seq(File)
        /\ file \in 1 .. Len(files') /\ Len(files') \in Nat /\ Len(files') >= Len(files)
        /\ \A i \in 1 .. Len(files) : files'[i] = files[i]
        /\ path # 0 => file = path
        /\ program' = [program EXCEPT ![p] = [pc |-> "lock", file |-> file]]
  <2>1. CASE path = 0
    <3> DEFINE new == [data |-> "empty", locker |-> NoProgram]
    <3>1. new \in File
      BY DEF File, Blank
    <3>2. files' = Append(files, new) /\ path' = Len(files) + 1
      BY <2>1 DEF Open
    <3>3. program' = [program EXCEPT ![p] = [pc |-> "lock", file |-> Len(files) + 1]]
      BY <2>1 DEF Open
    <3> HIDE DEF new
    <3>4. files' \in Seq(File) /\ Len(files') = Len(files) + 1
      BY <1>0, <3>1, <3>2
    <3>5. \A i \in 1 .. Len(files) : files'[i] = files[i]
      BY <1>0, <3>1, <3>2
    <3>6. /\ Len(files) + 1 \in Nat \ {0} /\ Len(files) + 1 \in 1 .. Len(files')
          /\ Len(files') \in Nat /\ Len(files') >= Len(files)
      BY <1>0, <3>4
    <3> QED  BY <2>1, <3>2, <3>3, <3>4, <3>5, <3>6
  <2>2. CASE path # 0
    <3>1. /\ path' = path /\ files' = files
          /\ program' = [program EXCEPT ![p] = [pc |-> "lock", file |-> path]]
      BY <2>2 DEF Open
    <3>2. path \in Nat \ {0} /\ path \in 1 .. Len(files)
      BY <1>0, <2>2
    <3>3. /\ files' \in Seq(File) /\ path \in 1 .. Len(files')
          /\ Len(files') \in Nat /\ Len(files') >= Len(files)
          /\ \A i \in 1 .. Len(files) : files'[i] = files[i]
      BY <1>0, <3>1, <3>2
    <3> QED  BY <3>1, <3>2, <3>3, Zenon
  <2> QED  BY <2>1, <2>2
<1>2. /\ program' \in [Programs -> [pc : {"begin", "discard", "open", "lock", "truncate", "write",
                                          "runs", "remove", "ended"},
                                    file : 0 .. Len(files')]]
      /\ program'[p] = [pc |-> "lock", file |-> file]
      /\ \A q \in Programs \ {p} : program'[q] = program[q]
  <2>1. \A q \in Programs : program[q].file \in 0 .. Len(files')
    BY <1>0, <1>1 DEF PidIInv, PidTypeOK
  <2> QED  BY <1>0, <1>1, <2>1 DEF PidIInv, PidTypeOK
<1>3. PidTypeOK' /\ OpenFiles'
  BY <1>1, <1>2 DEF Open, PidIInv, PidTypeOK, OpenFiles
<1>4. LockHeld'
  <2>1. \A q \in Programs : program[q].file # 0 => program[q].file \in 1 .. Len(files)
    BY <1>0 DEF PidIInv, PidTypeOK
  <2> QED  BY <1>1, <1>2, <2>1 DEF PidIInv, OpenFiles, LockHeld
<1>5. OpenIsNamed'
  <2>1. path = 0 /\ ~mistaken => \A q \in Programs : program[q].file = 0
    BY DEF PidIInv, OpenIsNamed
  <2> QED  BY <1>1, <1>2, <2>1 DEF Open, PidIInv, OpenIsNamed
<1> QED  BY <1>3, <1>4, <1>5 DEF PidIInv

\* The file a process has open, once it is locked.
LEMMA OwnFile ==
  ASSUME PidIInv, NEW p \in Programs,
         program[p].pc \in {"lock", "truncate", "write", "runs"}
  PROVE  /\ files \in Seq(File)
         /\ program[p].file \in 1 .. Len(files)
         /\ files[program[p].file] \in File
         /\ program[p].pc # "lock" => files[program[p].file].locker = p
<1>1. files \in Seq(File) /\ program[p].file \in 1 .. Len(files)
  BY DEF PidIInv, PidTypeOK, OpenFiles
<1>2. files[program[p].file] \in File
  BY <1>1
<1> QED  BY <1>1, <1>2 DEF PidIInv, LockHeld

\* A step of one process that changes its own open file, and no other process.
LEMMA OwnFileStep ==
  ASSUME PidIInv, NEW p \in Programs, NEW f \in File,
         program[p].pc \in {"lock", "truncate", "write", "runs"},
         files' = [files EXCEPT ![program[p].file] = f],
         files[program[p].file].locker \in {p, NoProgram}
  PROVE  /\ files' \in Seq(File) /\ Len(files') = Len(files)
         /\ files'[program[p].file] = f
         /\ \A q \in Programs \ {p} :
              program[q].pc \in {"truncate", "write", "runs"}
                => files'[program[q].file].locker = q
<1>1. /\ files' \in Seq(File) /\ Len(files') = Len(files)
      /\ files'[program[p].file] = f
      /\ \A j \in 1 .. Len(files) : j # program[p].file => files'[j] = files[j]
  BY OwnFile, ChangedFile
<1>2. ASSUME NEW q \in Programs \ {p}, program[q].pc \in {"truncate", "write", "runs"}
      PROVE  files'[program[q].file].locker = q
  <2>1. program[q].file \in 1 .. Len(files) /\ files[program[q].file].locker = q
    BY <1>2, OwnFile
  <2>2. program[q].file # program[p].file
    BY <2>1, PidAssumption
  <2> QED  BY <1>1, <2>1, <2>2
<1> QED  BY <1>1, <1>2

\* What a process does that keeps its file open.
LEMMA ProceedStep ==
  ASSUME PidIInv, NEW p \in Programs, NEW pc \in {"truncate", "write", "runs"},
         program[p].pc \in {"lock", "truncate", "write", "runs"},
         Proceed(p, pc), UNCHANGED <<path, watch, mistaken>>,
         files' \in Seq(File), Len(files') = Len(files),
         files'[program[p].file].locker = p,
         \A q \in Programs \ {p} :
           program[q].pc \in {"truncate", "write", "runs"} => files'[program[q].file].locker = q
  PROVE  PidIInv'
<1>1. PidTypeOK' /\ OpenFiles' /\ OpenIsNamed'
  BY DEF Proceed, PidIInv, PidTypeOK, OpenFiles, OpenIsNamed
<1>2. LockHeld'
  BY DEF Proceed, PidIInv, PidTypeOK, LockHeld
<1> QED  BY <1>1, <1>2 DEF PidIInv

\* The end of a process, by itself or not.
LEMMA EndInv ==
  ASSUME PidIInv, NEW p \in Programs, Leaves(p), UNCHANGED <<path, watch, mistaken>>
  PROVE  PidIInv'
<1>1. /\ files' \in Seq(File) /\ Len(files') = Len(files)
      /\ \A q \in Programs \ {p}, i \in 1 .. Len(files) :
           files[i].locker = q => files'[i].locker = q
  BY LeavesStep
<1>2. PidTypeOK' /\ OpenFiles' /\ OpenIsNamed'
  BY <1>1 DEF Leaves, PidIInv, PidTypeOK, OpenFiles, OpenIsNamed
<1>3. LockHeld'
  <2>1. \A q \in Programs \ {p} : program'[q] = program[q]
    BY DEF Leaves, PidIInv, PidTypeOK
  <2>2. \A q \in Programs : program[q].pc \in {"truncate", "write", "runs"}
          => program[q].file \in 1 .. Len(files) /\ files[program[q].file].locker = q
    BY OwnFile
  <2>3. program'[p].pc = "ended"
    BY DEF Leaves, PidIInv, PidTypeOK
  <2> QED  BY <1>1, <2>1, <2>2, <2>3 DEF LockHeld
<1> QED  BY <1>2, <1>3 DEF PidIInv

LEMMA LockInv ==
  ASSUME PidIInv, NEW p \in Programs, Lock(p)
  PROVE  PidIInv'
<1>1. CASE files[program[p].file].locker = NoProgram
  <2> DEFINE f == [files[program[p].file] EXCEPT !.locker = p]
  <2>0. program[p].pc = "lock" /\ files[program[p].file] \in File
    BY OwnFile DEF Lock, ProgramAt
  <2>1. f \in File /\ f.locker = p
    BY <2>0 DEF File
  <2>2. files' = [files EXCEPT ![program[p].file] = f] /\ Proceed(p, "truncate")
    BY <1>1 DEF Lock
  <2> HIDE DEF f
  <2> QED  BY <1>1, <2>0, <2>1, <2>2, OwnFileStep, ProceedStep DEF Lock
<1>2. CASE files[program[p].file].locker # NoProgram
  BY <1>2, EndInv DEF Lock
<1> QED  BY <1>1, <1>2

LEMMA WriteInv ==
  ASSUME PidIInv, NEW p \in Programs, SetSize(p) \/ WritePid(p)
  PROVE  PidIInv'
<1>1. PICK d \in Blank \cup Programs, pc \in {"write", "runs"} :
        /\ program[p].pc \in {"truncate", "write"}
        /\ files' = [files EXCEPT ![program[p].file].data = d]
        /\ Proceed(p, pc) /\ UNCHANGED <<path, watch, mistaken>>
  <2>1. program[p].pc \in {"truncate", "write"}
    BY DEF SetSize, WritePid, ProgramAt
  <2>2. files[program[p].file].data \in Blank \cup Programs
    BY <2>1, OwnFile DEF File
  <2> QED  BY <2>1, <2>2 DEF SetSize, WritePid, Blank
<1> DEFINE f == [files[program[p].file] EXCEPT !.data = d]
<1>2. files[program[p].file] \in File /\ files[program[p].file].locker = p
  BY <1>1, OwnFile
<1>3. f \in File /\ f.locker = p
  BY <1>2 DEF File
<1>4. files' = [files EXCEPT ![program[p].file] = f]
  BY <1>1
<1> HIDE DEF f
<1>5. /\ files' \in Seq(File) /\ Len(files') = Len(files)
      /\ files'[program[p].file] = f
      /\ \A q \in Programs \ {p} :
           program[q].pc \in {"truncate", "write", "runs"} => files'[program[q].file].locker = q
  BY <1>1, <1>2, <1>3, <1>4, OwnFileStep
<1> QED  BY <1>1, <1>3, <1>5, ProceedStep

LEMMA UnlockInv ==
  ASSUME PidIInv, NEW p \in Programs, Unlock(p)
  PROVE  PidIInv'
<1> DEFINE f == [files[program[p].file] EXCEPT !.locker = NoProgram]
<1>1. /\ program[p].pc = "runs"
      /\ files[program[p].file] \in File /\ files[program[p].file].locker = p
  BY OwnFile DEF Unlock, ProgramAt
<1>2. f \in File /\ files' = [files EXCEPT ![program[p].file] = f]
  BY <1>1 DEF Unlock, File
<1> HIDE DEF f
<1>3. /\ files' \in Seq(File) /\ Len(files') = Len(files)
      /\ \A q \in Programs \ {p} :
           program[q].pc \in {"truncate", "write", "runs"} => files'[program[q].file].locker = q
  BY <1>1, <1>2, OwnFileStep
<1>4. PidTypeOK' /\ OpenFiles' /\ OpenIsNamed'
  BY <1>3 DEF Unlock, PidIInv, PidTypeOK, OpenFiles, OpenIsNamed
<1>5. LockHeld'
  BY <1>3 DEF Unlock, PidIInv, PidTypeOK, LockHeld
<1> QED  BY <1>4, <1>5 DEF PidIInv

LEMMA RemoveOwnInv ==
  ASSUME PidIInv, NEW p \in Programs, RemoveOwn(p)
  PROVE  PidIInv'
<1>1. /\ path' = 0 /\ mistaken' \in BOOLEAN
      /\ mistaken' \/ \A q \in Programs : program[q].file = 0
  BY RemoveStep DEF RemoveOwn, ProgramAt, PidIInv, PidTypeOK, OpenFiles
<1> QED
  BY <1>1 DEF RemoveOwn, ProgramAt, Proceed, PidIInv, PidTypeOK, OpenFiles, LockHeld, OpenIsNamed

LEMMA WatcherInv ==
  ASSUME PidIInv, WatcherLook \/ WatcherKilled \/ WatcherRemove
  PROVE  PidIInv'
<1>1. CASE WatcherLook \/ WatcherKilled
  BY <1>1 DEF WatcherLook, WatcherKilled, Alive, PidIInv, PidTypeOK, OpenFiles, LockHeld,
     OpenIsNamed
<1>2. CASE WatcherRemove
  <2>1. /\ path' = 0 /\ mistaken' \in BOOLEAN
        /\ mistaken' \/ \A q \in Programs : program[q].file = 0
    BY <1>2, RemoveStep, PidAssumption DEF WatcherRemove
  <2> QED
    BY <1>2, <2>1 DEF WatcherRemove, PidIInv, PidTypeOK, OpenFiles, LockHeld, OpenIsNamed
<1> QED  BY <1>1, <1>2

-----------------------------------------------------------------------------
LEMMA PidNextInv == PidIInv /\ [PidNext]_pidVars => PidIInv'
<1> SUFFICES ASSUME PidIInv, [PidNext]_pidVars PROVE PidIInv'
  OBVIOUS
<1>1. CASE PidNext
  BY <1>1, LookInv, DiscardInv, OpenInv, LockInv, WriteInv, UnlockInv, RemoveOwnInv, EndInv,
     WatcherInv
     DEF PidNext, ProgramStep, Crash
<1>2. CASE UNCHANGED pidVars
  BY <1>2 DEF pidVars, PidIInv, PidTypeOK, OpenFiles, LockHeld, OpenIsNamed
<1> QED  BY <1>1, <1>2

LEMMA PidInvariance == PidSpec => []PidIInv
BY PidInitInv, PidNextInv, PTL DEF PidSpec

\* The files, the processes and the watcher keep their types (fileLock, process).
THEOREM PidTypeCorrect == PidSpec => []PidTypeOK
BY PidInvariance, PTL DEF PidIInv

\* Two processes of a program run at once only after a file was taken away that one of them
\* had open (PidLock.Lock, PidLock.Unlock, Process).
THEOREM OneRunsCorrect == PidSpec => []AtMostOneRuns
<1>1. PidIInv => AtMostOneRuns
  <2> SUFFICES ASSUME PidIInv, ~mistaken
               PROVE  AtMostOneRuns
    BY DEF AtMostOneRuns
  <2> DEFINE Runners == {p \in Programs : ProgramAt(p, "runs")}
  <2>1. \A p, q \in Runners : p = q
    BY DEF PidIInv, OpenFiles, LockHeld, OpenIsNamed, ProgramAt
  <2>2. SUFFICES Cardinality(Runners) <= 1
    BY DEF AtMostOneRuns
  <2> HIDE DEF Runners
  <2>3. CASE Runners = {}
    BY <2>3, FS_EmptySet
  <2>4. CASE Runners # {}
    <3>1. PICK p \in Runners : Runners = {p}
      BY <2>1, <2>4
    <3>2. Cardinality({p}) = 1
      BY FS_Singleton, Zenon
    <3> QED  BY <3>1, <3>2
  <2> QED  BY <2>3, <2>4
<1> QED  BY PidInvariance, <1>1, PTL

-----------------------------------------------------------------------------
\* A battle server that runs is in a file, and the launcher spares the others'.

\* Only so many files are there that one is listed last.
FilesAreBounded == \E most \in Nat : \A i \in DOMAIN configs : i <= most

\* A manager that waits for a server, or writes its file, has one.  The file that is about to be
\* deleted is of one that does not run, or could not be killed.
ManagerRight ==
  /\ manager.pc \in {"wait", "write"} => manager.server \in Ids
  /\ manager.pc = "delete" =>
       /\ manager.file \in DOMAIN configs
       /\ configs[manager.file] \in Runs => configs[manager.file] \in forsaken

\* One that runs is in a file, or its manager is about to write it.
RunsAreKept ==
  \A s \in Runs \ (Listed \cup forsaken) :
     manager.pc \in {"wait", "write"} /\ manager.server = s

\* The launcher waits for its manager, which starts its server.
StarterRight ==
  /\ manager.mine => /\ starter.pc = "starts"
                     /\ manager.pc \in {"execute", "wait", "write"}
                     /\ starter.own = IF manager.pc = "execute" THEN NoServer ELSE manager.server
  /\ starter.pc # "done" => starter.found = NoServer

\* What is listed and runs was there when the launcher looked, or is its own.
NewIsOwn ==
  starter.pc \in {"looked", "starts", "ran"} /\ ~between =>
    Listed \cap Runs \subseteq starter.before \cup {starter.own}

BattleIInv ==
  /\ BattleTypeOK /\ FilesAreBounded /\ ManagerRight
  /\ RunsAreKept /\ StarterRight /\ NewIsOwn /\ SparesOthers

-----------------------------------------------------------------------------
\* Of some indexes, one has a name after which none comes.
LEMMA Highest ==
  ASSUME NEW D, NEW most \in Nat, D # {}, \A i \in D : i \in Nat /\ i <= most,
         NEW Key, \A i \in D : Key[i] \in Nat
  PROVE  \E i \in D : \A j \in D : Key[j] <= Key[i]
<1> DEFINE Lacks(E) == \A i \in E : \E j \in E : ~(Key[j] <= Key[i])
           T == {n \in Nat : \E E \in SUBSET D : E # {} /\ (\A i \in E : i <= n) /\ Lacks(E)}
           R == {ss \in Nat \X Nat : ss[1] < ss[2]}
<1> SUFFICES ASSUME Lacks(D) PROVE FALSE
  OBVIOUS
<1>1. most \in T
  OBVIOUS
<1>2. IsWellFoundedOn(R, Nat)
  BY NatLessThanWellFounded DEF OpToRel
<1>3. T \subseteq Nat /\ T # {}
  BY <1>1
<1> HIDE DEF R, T
<1>4. PICK n \in T : \A m \in T : ~(<<m, n>> \in R)
  BY <1>2, <1>3, WFMin
<1>5. \A m \in T : n <= m
  <2>1. ASSUME NEW m \in T PROVE n <= m
    <3>1. m \in Nat /\ n \in Nat
      BY <1>3
    <3>2. m < n => <<m, n>> \in R
      BY <3>1, Zenon DEF R
    <3> QED  BY <1>4, <3>1, <3>2
  <2> QED  BY <2>1
<1>6. PICK E \in SUBSET D : E # {} /\ (\A i \in E : i <= n) /\ Lacks(E)
  BY <1>4 DEF T
<1>7. n \in Nat /\ \A i \in E : i \in Nat /\ i <= n
  BY <1>3, <1>6
<1>8. n \in E
  <2>1. SUFFICES ASSUME n \notin E PROVE FALSE
    OBVIOUS
  <2>2. \A i \in E : i <= n - 1
    BY <1>7, <2>1
  <2>3. n - 1 \in Nat
    BY <1>6, <1>7, <2>2
  <2>4. n - 1 \in T
    BY <1>6, <2>2, <2>3 DEF T
  <2> QED  BY <1>5, <1>7, <2>4
<1>9. PICK k \in E : \A j \in E \ {n} : Key[j] <= Key[k]
  <2>1. CASE E = {n}
    BY <1>8, <2>1
  <2>2. CASE E # {n}
    <3> DEFINE F == E \ {n}
    <3>1. F # {} /\ F \subseteq D
      BY <1>8, <2>2
    <3>2. \A i \in F : i <= n - 1
      BY <1>7
    <3>3. n - 1 \in Nat
      BY <1>7, <3>1, <3>2
    <3>4. n - 1 \notin T
      BY <1>5, <1>7
    <3>5. ~Lacks(F)
      BY <3>1, <3>2, <3>3, <3>4 DEF T
    <3> QED  BY <3>5
  <2> QED  BY <2>1, <2>2
<1>10. Key[n] \in Nat /\ Key[k] \in Nat /\ \A j \in E : Key[j] \in Nat
  BY <1>8, <1>9
<1>11. CASE Key[n] <= Key[k]
  <2>1. \A j \in E : Key[j] <= Key[k]
    BY <1>9, <1>11
  <2> QED  BY <1>6, <1>9, <2>1
<1>12. CASE ~(Key[n] <= Key[k])
  <2>1. \A j \in E : Key[j] <= Key[n]
    BY <1>9, <1>10, <1>12
  <2> QED  BY <1>6, <1>8, <2>1
<1> QED  BY <1>11, <1>12

LEMMA NameKeyType == \A i \in Nat : NameKey(i) \in Nat
<1> SUFFICES ASSUME NEW i \in Nat PROVE NameKey(i) \in Nat
  OBVIOUS
<1>1. i \div Radix \in Nat /\ i % Radix \in Nat
  BY BattleAssumption
<1>2. i * (Radix + 1) \in Nat /\ (i \div Radix) * (Radix + 1) \in Nat
  BY <1>1, BattleAssumption
<1> QED  BY <1>1, <1>2 DEF NameKey

\* There is a last name, and a highest index.
LEMMA LastIsListed ==
  ASSUME DOMAIN configs \subseteq Nat, DOMAIN configs # {}, FilesAreBounded
  PROVE  LastListed \in DOMAIN configs
<1>1. PICK most \in Nat : \A i \in DOMAIN configs : i <= most
  BY DEF FilesAreBounded
<1> DEFINE Key == [i \in Nat |-> NameKey(i)]
<1>2. \A i \in DOMAIN configs : Key[i] = NameKey(i) /\ Key[i] \in Nat
  BY NameKeyType
<1> HIDE DEF Key
<1>3. \E i \in DOMAIN configs : \A j \in DOMAIN configs : Key[j] <= Key[i]
  BY <1>1, <1>2, Highest
<1>4. \E i \in DOMAIN configs : \A j \in DOMAIN configs : NameKey(j) <= NameKey(i)
  BY <1>2, <1>3
<1> QED  BY <1>4 DEF LastListed

LEMMA HighestIsMax ==
  ASSUME DOMAIN configs \subseteq Nat, DOMAIN configs # {}, FilesAreBounded
  PROVE  \A i \in DOMAIN configs : i <= Max(DOMAIN configs)
<1>1. PICK most \in Nat : \A i \in DOMAIN configs : i <= most
  BY DEF FilesAreBounded
<1> DEFINE Key == [i \in Nat |-> i]
<1>2. \A i \in DOMAIN configs : Key[i] = i /\ Key[i] \in Nat
  OBVIOUS
<1> HIDE DEF Key
<1>3. \E i \in DOMAIN configs : \A j \in DOMAIN configs : Key[j] <= Key[i]
  BY <1>1, <1>2, Highest
<1>4. PICK i \in DOMAIN configs : \A j \in DOMAIN configs : i >= j
  BY <1>2, <1>3
<1>5. \A j \in DOMAIN configs : Max(DOMAIN configs) >= j
  BY <1>4 DEF Max
<1>6. Max(DOMAIN configs) \in DOMAIN configs
  BY <1>4 DEF Max
<1> QED  BY <1>5, <1>6

\* The index of the next file, which takes the place of no other unless the names mislead.
LEMMA NextIndexIsFree ==
  ASSUME DOMAIN configs \subseteq Nat, FilesAreBounded
  PROVE  /\ NextIndex \in Nat
         /\ NextIndex \in DOMAIN configs => NamesMislead
<1>1. CASE DOMAIN configs = {}
  BY <1>1 DEF NextIndex
<1>2. CASE DOMAIN configs # {}
  <2>1. LastListed \in DOMAIN configs /\ NextIndex = LastListed + 1
    BY <1>2, LastIsListed DEF NextIndex
  <2>2. \A i \in DOMAIN configs : i <= Max(DOMAIN configs)
    BY <1>2, HighestIsMax
  <2>3. ASSUME NextIndex \in DOMAIN configs PROVE LastListed # Max(DOMAIN configs)
    BY <2>1, <2>2, <2>3
  <2> QED  BY <1>2, <2>1, <2>3 DEF NamesMislead
<1> QED  BY <1>1, <1>2

-----------------------------------------------------------------------------
(* The initial states, and the steps *)

LEMMA IdsAre ==
  ASSUME BattleTypeOK
  PROVE  /\ Ids = 1 .. Len(servers) /\ NoServer \notin Ids
         /\ Len(servers) \in Nat /\ Listed \subseteq Ids
         /\ \A s \in Ids : servers[s] \in BattleStates
BY BattleAssumption DEF BattleTypeOK, Ids, Listed

LEMMA BattleInitInv == BattleInit => BattleIInv
<1> SUFFICES ASSUME BattleInit PROVE BattleIInv
  OBVIOUS
<1>1. NoManager.pc = "none" /\ NoManager.mine = FALSE
  BY DEF NoManager
<1>2. CASE servers = <<>> /\ configs = [i \in {} |-> NoServer]
  <2>1. Ids = {} /\ Runs = {} /\ DOMAIN configs = {} /\ servers \in Seq(BattleStates)
    BY <1>2 DEF Ids, Runs
  <2>2. BattleTypeOK
    BY <2>1 DEF BattleInit, BattleTypeOK, ManagerStates, StarterStates, NoManager, Regions
  <2>3. FilesAreBounded
    BY <2>1 DEF FilesAreBounded
  <2> QED  BY <1>1, <2>1, <2>2, <2>3
           DEF BattleInit, BattleIInv, ManagerRight, RunsAreKept, StarterRight, NewIsOwn,
               SparesOthers
<1>3. CASE servers = <<[state |-> "up", region |-> "server"]>>
           /\ configs = [i \in {Radix - 1} |-> 1]
  <2>1. /\ Ids = {1} /\ servers \in Seq(BattleStates)
        /\ DOMAIN configs = {Radix - 1} /\ configs[Radix - 1] = 1
    BY <1>3 DEF Ids, BattleStates, Regions
  <2>2. Radix - 1 \in Nat
    BY BattleAssumption
  <2>3. BattleTypeOK
    BY <1>3, <2>1, <2>2 DEF BattleInit, BattleTypeOK, ManagerStates, StarterStates, NoManager,
       Regions
  <2>4. FilesAreBounded
    BY <2>1, <2>2 DEF FilesAreBounded
  <2>5. RunsAreKept
    BY <2>1 DEF RunsAreKept, Runs, Listed
  <2> QED  BY <1>1, <2>3, <2>4, <2>5
           DEF BattleInit, BattleIInv, ManagerRight, StarterRight, NewIsOwn, SparesOthers
<1> QED  BY <1>2, <1>3 DEF BattleInit

\* What holds of the servers and of the files holds on when neither changes.
LEMMA QuietServers ==
  ASSUME UNCHANGED <<servers, configs>>
  PROVE  /\ Ids' = Ids /\ Runs' = Runs /\ Up' = Up /\ Listed' = Listed
         /\ (DOMAIN configs)' = DOMAIN configs /\ FilesAreBounded' = FilesAreBounded
BY DEF Ids, Runs, Up, Listed, FilesAreBounded

LEMMA BeginStartStep ==
  ASSUME NEW mine \in BOOLEAN, BeginStart(mine), BattleIInv
  PROVE  /\ UNCHANGED <<servers, configs, forsaken>> /\ manager.pc = "none"
         /\ manager' \in ManagerStates /\ manager'.pc \in {"none", "execute"}
         /\ manager'.mine => mine /\ manager'.pc = "execute"
<1>1. /\ NoManager \in ManagerStates /\ NoManager.pc = "none" /\ NoManager.mine = FALSE
      /\ \A region \in Regions : [NoManager EXCEPT !.pc = "execute", !.region = region,
                                                   !.mine = mine] \in ManagerStates
  BY DEF NoManager, ManagerStates, Regions
<1>2. PICK found \in Answering, force \in BOOLEAN, wish \in {Automatic, "other"} :
        LET region == Chosen(wish, RegionsOf(found)) IN
          IF (~force /\ found # {}) \/ region \in RegionsOf(found) THEN ManagerBegins(NoManager)
          ELSE ManagerBegins([NoManager EXCEPT !.pc = "execute", !.region = region, !.mine = mine])
  BY DEF BeginStart
<1>3. Chosen(wish, RegionsOf(found)) \in Regions
  BY DEF Chosen, Regions, Automatic
<1>4. \/ manager' = NoManager
      \/ \E region \in Regions :
           manager' = [NoManager EXCEPT !.pc = "execute", !.region = region, !.mine = mine]
  BY <1>2, <1>3 DEF ManagerBegins
<1>5. manager.pc = "none"
  BY <1>2 DEF ManagerBegins, ManagerAt
<1>6. \A region \in Regions :
        LET task == [NoManager EXCEPT !.pc = "execute", !.region = region, !.mine = mine] IN
          task.pc = "execute" /\ task.mine = mine
  BY DEF NoManager
<1> QED  BY <1>1, <1>4, <1>5, <1>6 DEF BeginStart

LEMMA StartInv == ASSUME BattleIInv, Start PROVE BattleIInv'
<1>1. /\ UNCHANGED <<servers, configs, forsaken, starter, between>> /\ manager.pc = "none"
      /\ manager' \in ManagerStates /\ manager'.pc \in {"none", "execute"} /\ ~manager'.mine
  BY BeginStartStep DEF Start
<1>2. /\ Ids' = Ids /\ Runs' = Runs /\ Listed' = Listed /\ (DOMAIN configs)' = DOMAIN configs
      /\ FilesAreBounded' = FilesAreBounded /\ ManagerStates' = ManagerStates
  BY <1>1, QuietServers DEF ManagerStates
<1>3. BattleTypeOK'
  BY <1>1, <1>2 DEF BattleIInv, BattleTypeOK, StarterStates
<1> QED  BY <1>1, <1>2, <1>3
         DEF BattleIInv, ManagerRight, RunsAreKept, StarterRight, NewIsOwn, SparesOthers

LEMMA LauncherStartsInv == ASSUME BattleIInv, LauncherStarts PROVE BattleIInv'
<1>1. /\ UNCHANGED <<servers, configs, forsaken, between>> /\ manager.pc = "none"
      /\ manager' \in ManagerStates /\ manager'.pc \in {"none", "execute"}
      /\ manager'.mine => manager'.pc = "execute"
  BY BeginStartStep DEF LauncherStarts
<1>2. /\ Ids' = Ids /\ Runs' = Runs /\ Listed' = Listed /\ (DOMAIN configs)' = DOMAIN configs
      /\ FilesAreBounded' = FilesAreBounded /\ ManagerStates' = ManagerStates
      /\ StarterStates' = StarterStates
  BY <1>1, QuietServers DEF ManagerStates, StarterStates
<1>3. PICK exit \in {"ran", "done"} :
        starter' = [starter EXCEPT !.pc = IF manager'.mine THEN "starts" ELSE exit]
  BY DEF LauncherStarts
<1>4. starter \in StarterStates /\ starter.pc = "looked" /\ starter.own = NoServer
  BY DEF LauncherStarts, BattleIInv, BattleTypeOK
<1>5. /\ starter' \in StarterStates /\ starter'.before = starter.before
      /\ starter'.own = NoServer /\ starter'.found = starter.found
      /\ starter'.pc = IF manager'.mine THEN "starts" ELSE exit
  BY <1>3, <1>4 DEF StarterStates
<1>6. BattleTypeOK'
  BY <1>1, <1>2, <1>5 DEF BattleIInv, BattleTypeOK
<1>7. StarterRight' /\ NewIsOwn' /\ SparesOthers'
  BY <1>1, <1>2, <1>4, <1>5 DEF BattleIInv, StarterRight, NewIsOwn, SparesOthers
<1> QED  BY <1>1, <1>2, <1>6, <1>7 DEF BattleIInv, ManagerRight, RunsAreKept

\* The end of a manager, and of the launcher's wait.
LEMMA ManagerEndsStep ==
  ASSUME NEW exit \in {"ran", "done"}, ManagerEnds(exit), BattleIInv
  PROVE  /\ manager' = NoManager /\ manager'.pc = "none" /\ ~manager'.mine
         /\ NoManager \in ManagerStates
         /\ starter' \in StarterStates
         /\ starter'.before = starter.before /\ starter'.own = starter.own
         /\ starter'.found = starter.found
         /\ starter'.pc = IF manager.mine THEN exit ELSE starter.pc
<1>1. starter \in StarterStates
  BY DEF BattleIInv, BattleTypeOK
<1>2. NoManager \in ManagerStates /\ NoManager.pc = "none" /\ NoManager.mine = FALSE
  BY DEF NoManager, ManagerStates, Regions
<1> QED  BY <1>1, <1>2 DEF ManagerEnds, StarterStates

LEMMA ExecuteInv == ASSUME BattleIInv, Execute PROVE BattleIInv'
<1> DEFINE new == Len(servers) + 1
           Server == [state |-> "starting", region |-> manager.region]
<1>1. /\ Ids = 1 .. Len(servers) /\ NoServer \notin Ids /\ Len(servers) \in Nat
      /\ Listed \subseteq Ids /\ servers \in Seq(BattleStates)
      /\ manager \in ManagerStates /\ starter \in StarterStates
  BY IdsAre DEF BattleIInv, BattleTypeOK
<1>2. /\ manager.pc = "execute" /\ servers' = Append(servers, Server)
      /\ manager' = [manager EXCEPT !.pc = "wait", !.server = new]
      /\ starter' = IF manager.mine THEN [starter EXCEPT !.own = new] ELSE starter
      /\ UNCHANGED <<managers, configs, forsaken, between>>
  BY DEF Execute, ManagerAt
<1>3. Server \in BattleStates /\ Server.state = "starting"
  BY <1>1 DEF ManagerStates, BattleStates
<1> HIDE DEF Server
<1>4. /\ servers' \in Seq(BattleStates) /\ Ids' = Ids \cup {new} /\ new \notin Ids
      /\ \A s \in Ids : servers'[s] = servers[s]
      /\ servers'[new] = Server
  BY <1>1, <1>2, <1>3 DEF Ids
<1>5. Runs' = Runs \cup {new} /\ Listed' = Listed /\ FilesAreBounded'
  BY <1>2, <1>3, <1>4 DEF Runs, Listed, BattleIInv, FilesAreBounded
<1>6. /\ manager'.pc = "wait" /\ manager'.server = new /\ manager'.mine = manager.mine
      /\ manager' \in ManagerStates'
  BY <1>1, <1>2, <1>4 DEF ManagerStates
<1>7. /\ starter'.pc = starter.pc /\ starter'.before = starter.before
      /\ starter'.found = starter.found
      /\ starter'.own = IF manager.mine THEN new ELSE starter.own
      /\ starter' \in StarterStates'
  BY <1>1, <1>2, <1>4 DEF StarterStates
<1>8. BattleTypeOK'
  BY <1>2, <1>4, <1>6, <1>7 DEF BattleIInv, BattleTypeOK
<1>9. ManagerRight' /\ StarterRight'
  BY <1>2, <1>4, <1>6, <1>7 DEF BattleIInv, ManagerRight, StarterRight
<1>10. RunsAreKept'
  BY <1>2, <1>5, <1>6 DEF BattleIInv, RunsAreKept
<1>11. NewIsOwn'
  <2>1. SUFFICES ASSUME starter'.pc \in {"looked", "starts", "ran"}, ~between,
                        NEW s \in Listed \cap Runs
                 PROVE  s \in starter'.before \cup {starter'.own}
    BY <1>1, <1>2, <1>4, <1>5 DEF NewIsOwn
  <2>2. s \in starter.before \cup {starter.own} /\ s \in Ids
    BY <1>1, <1>7, <2>1 DEF BattleIInv, NewIsOwn
  <2>3. manager.mine => starter.own = NoServer
    BY <1>2 DEF BattleIInv, StarterRight
  <2> QED  BY <1>1, <1>7, <2>2, <2>3
<1>12. SparesOthers'
  BY <1>2, <1>7 DEF BattleIInv, SparesOthers, StarterRight
<1> QED  BY <1>5, <1>8, <1>9, <1>10, <1>11, <1>12 DEF BattleIInv

LEMMA ExecuteFailsInv == ASSUME BattleIInv, ExecuteFails PROVE BattleIInv'
<1>1. manager.pc = "execute" /\ UNCHANGED <<servers, configs, forsaken, between>>
  BY DEF ExecuteFails, ManagerAt
<1>2. /\ manager'.pc = "none" /\ ~manager'.mine /\ manager' \in ManagerStates
      /\ starter' \in StarterStates
      /\ starter'.before = starter.before /\ starter'.own = starter.own
      /\ starter'.found = starter.found
      /\ starter'.pc = IF manager.mine THEN "done" ELSE starter.pc
  BY ManagerEndsStep DEF ExecuteFails
<1>3. /\ Ids' = Ids /\ Runs' = Runs /\ Listed' = Listed /\ (DOMAIN configs)' = DOMAIN configs
      /\ FilesAreBounded' = FilesAreBounded /\ ManagerStates' = ManagerStates
      /\ StarterStates' = StarterStates
  BY <1>1, QuietServers DEF ManagerStates, StarterStates
<1>4. BattleTypeOK'
  BY <1>1, <1>2, <1>3 DEF BattleIInv, BattleTypeOK
<1>5. StarterRight' /\ NewIsOwn' /\ SparesOthers'
  BY <1>1, <1>2, <1>3 DEF BattleIInv, StarterRight, NewIsOwn, SparesOthers
<1> QED  BY <1>1, <1>2, <1>3, <1>4, <1>5 DEF BattleIInv, ManagerRight, RunsAreKept

LEMMA AnswersInv == ASSUME BattleIInv, Answers PROVE BattleIInv'
<1>1. /\ manager.pc = "wait" /\ manager' = [manager EXCEPT !.pc = "write"]
      /\ UNCHANGED <<servers, configs, forsaken, between, starter>>
  BY DEF Answers, ManagerAt
<1>2. manager \in ManagerStates
  BY DEF BattleIInv, BattleTypeOK
<1>3. /\ manager' \in ManagerStates /\ manager'.pc = "write"
      /\ manager'.server = manager.server /\ manager'.mine = manager.mine
  BY <1>1, <1>2 DEF ManagerStates
<1>4. /\ Ids' = Ids /\ Runs' = Runs /\ Listed' = Listed /\ (DOMAIN configs)' = DOMAIN configs
      /\ FilesAreBounded' = FilesAreBounded /\ ManagerStates' = ManagerStates
      /\ StarterStates' = StarterStates
  BY <1>1, QuietServers DEF ManagerStates, StarterStates
<1>5. BattleTypeOK'
  BY <1>1, <1>3, <1>4 DEF BattleIInv, BattleTypeOK
<1> QED  BY <1>1, <1>3, <1>4, <1>5
         DEF BattleIInv, ManagerRight, RunsAreKept, StarterRight, NewIsOwn, SparesOthers

\* What a kill does, or an end: the server no longer runs, or is left.
LEMMA KilledStep ==
  ASSUME NEW s \in Ids, NEW ok \in BOOLEAN, Killed(s, ok), BattleTypeOK
  PROVE  /\ servers' \in Seq(BattleStates) /\ Ids' = Ids /\ Runs' \subseteq Runs
         /\ forsaken' \subseteq Ids /\ forsaken \subseteq forsaken'
         /\ s \in Runs' => s \in forsaken'
<1>1. servers \in Seq(BattleStates) /\ forsaken \subseteq Ids /\ servers[s] \in BattleStates
  BY IdsAre DEF BattleTypeOK
<1>2. CASE ok
  <2>1. /\ servers' = [servers EXCEPT ![s] = [servers[s] EXCEPT !.state = "gone"]]
        /\ forsaken' = forsaken
    BY <1>2 DEF Killed
  <2>2. [servers[s] EXCEPT !.state = "gone"] \in BattleStates
    BY <1>1 DEF BattleStates
  <2>3. servers' \in Seq(BattleStates) /\ Ids' = Ids
    BY <1>1, <2>1, <2>2 DEF Ids
  <2>4. [servers[s] EXCEPT !.state = "gone"].state = "gone"
    BY <1>1 DEF BattleStates, Ids
  <2>5. \A r \in Ids : servers'[r].state = IF r = s THEN "gone" ELSE servers[r].state
    BY <1>1, <2>1, <2>4 DEF Ids
  <2>6. Runs' = Runs \ {s}
    BY <2>3, <2>5 DEF Runs
  <2> QED  BY <1>1, <2>1, <2>3, <2>6
<1>3. CASE ~ok
  BY <1>1, <1>3 DEF Killed, Ids, Runs
<1> QED  BY <1>2, <1>3

LEMMA GivesUpInv == ASSUME BattleIInv, GivesUp PROVE BattleIInv'
<1>1. manager.pc \in {"wait", "write"} /\ UNCHANGED <<configs, between>>
  BY DEF GivesUp
<1>2. PICK ok \in BOOLEAN : Killed(manager.server, ok)
  BY DEF GivesUp
<1>3. /\ manager'.pc = "none" /\ ~manager'.mine /\ manager' \in ManagerStates
      /\ starter' \in StarterStates
      /\ starter'.before = starter.before /\ starter'.own = starter.own
      /\ starter'.found = starter.found
      /\ starter'.pc = IF manager.mine THEN "done" ELSE starter.pc
  BY ManagerEndsStep DEF GivesUp
<1>4. manager.server \in Ids /\ BattleTypeOK
  BY <1>1 DEF BattleIInv, ManagerRight
<1>5. /\ servers' \in Seq(BattleStates) /\ Ids' = Ids /\ Runs' \subseteq Runs
      /\ forsaken' \subseteq Ids /\ forsaken \subseteq forsaken'
      /\ manager.server \in Runs' => manager.server \in forsaken'
  BY <1>2, <1>4, KilledStep
<1>6. /\ Listed' = Listed /\ FilesAreBounded' = FilesAreBounded
      /\ ManagerStates' = ManagerStates /\ StarterStates' = StarterStates
  BY <1>1, <1>5 DEF ManagerStates, StarterStates, Listed, FilesAreBounded
<1>7. BattleTypeOK'
  BY <1>1, <1>3, <1>5, <1>6 DEF BattleIInv, BattleTypeOK
<1>8. RunsAreKept'
  BY <1>3, <1>5, <1>6 DEF BattleIInv, RunsAreKept
<1>9. StarterRight' /\ NewIsOwn' /\ SparesOthers'
  BY <1>1, <1>3, <1>5, <1>6 DEF BattleIInv, StarterRight, NewIsOwn, SparesOthers
<1> QED  BY <1>3, <1>6, <1>7, <1>8, <1>9 DEF BattleIInv, ManagerRight

LEMMA WriteConfigInv == ASSUME BattleIInv, WriteConfig PROVE BattleIInv'
<1> DEFINE i == NextIndex
<1>1. /\ manager.pc = "write" /\ UNCHANGED servers
      /\ configs' = [j \in DOMAIN configs \cup {i} |->
                       IF j = i THEN manager.server ELSE configs[j]]
      /\ forsaken' = IF NamesMislead /\ i \in DOMAIN configs THEN forsaken \cup {configs[i]}
                                                            ELSE forsaken
      /\ between' = (between \/ ~manager.mine)
  BY DEF WriteConfig, ManagerAt
<1>2. /\ manager'.pc = "none" /\ ~manager'.mine /\ manager' \in ManagerStates
      /\ starter' \in StarterStates
      /\ starter'.before = starter.before /\ starter'.own = starter.own
      /\ starter'.found = starter.found
      /\ starter'.pc = IF manager.mine THEN "ran" ELSE starter.pc
  BY ManagerEndsStep DEF WriteConfig
<1>3. /\ manager.server \in Ids /\ DOMAIN configs \subseteq Nat /\ FilesAreBounded
      /\ forsaken \subseteq Ids /\ configs \in [DOMAIN configs -> Ids] /\ between \in BOOLEAN
      /\ manager.mine \in BOOLEAN
  BY <1>1 DEF BattleIInv, BattleTypeOK, ManagerRight, ManagerStates
<1>4. i \in Nat /\ (i \in DOMAIN configs => NamesMislead)
  BY <1>3, NextIndexIsFree
<1>5. Ids' = Ids /\ Runs' = Runs
  BY <1>1 DEF Ids, Runs
<1> HIDE DEF i
<1>6. /\ DOMAIN configs' = DOMAIN configs \cup {i} /\ DOMAIN configs' \subseteq Nat
      /\ configs' \in [DOMAIN configs' -> Ids] /\ configs'[i] = manager.server
      /\ \A j \in DOMAIN configs \ {i} : configs'[j] = configs[j]
  BY <1>1, <1>3, <1>4
<1>7. FilesAreBounded'
  <2>1. PICK most \in Nat : \A j \in DOMAIN configs : j <= most
    BY <1>3 DEF FilesAreBounded
  <2>2. \A j \in DOMAIN configs' : j <= most + i /\ most + i \in Nat
    BY <1>3, <1>4, <1>6, <2>1
  <2> QED  BY <1>4, <2>1, <2>2 DEF FilesAreBounded
<1>8. /\ Listed \subseteq Listed' \cup forsaken' /\ manager.server \in Listed'
      /\ Listed' \subseteq Listed \cup {manager.server}
      /\ forsaken \subseteq forsaken' /\ forsaken' \subseteq Ids
  BY <1>1, <1>3, <1>4, <1>6 DEF Listed
<1>9. manager' \in ManagerStates'
  BY <1>2, <1>5, <1>6 DEF ManagerStates
<1>10. starter' \in StarterStates'
  BY <1>2, <1>5 DEF StarterStates
<1>11. BattleTypeOK'
  BY <1>1, <1>3, <1>5, <1>6, <1>8, <1>9, <1>10 DEF BattleIInv, BattleTypeOK
<1>12. ManagerRight' /\ StarterRight'
  BY <1>2, <1>1 DEF BattleIInv, ManagerRight, StarterRight
<1>13. RunsAreKept'
  BY <1>2, <1>5, <1>8 DEF BattleIInv, RunsAreKept
<1>14. NewIsOwn'
  <2>1. SUFFICES ASSUME starter'.pc \in {"looked", "starts", "ran"}, ~between',
                        NEW s \in Listed' \cap Runs
                 PROVE  s \in starter.before \cup {starter.own}
    BY <1>2, <1>5 DEF NewIsOwn
  <2>2. manager.mine /\ ~between
    BY <1>1, <1>3, <2>1
  <2>3. starter.pc = "starts" /\ starter.own = manager.server
    BY <1>1, <2>2 DEF BattleIInv, StarterRight
  <2>4. Listed \cap Runs \subseteq starter.before \cup {starter.own}
    BY <2>2, <2>3 DEF BattleIInv, NewIsOwn
  <2> QED  BY <1>8, <2>3, <2>4
<1>15. SparesOthers'
  BY <1>1, <1>2, <1>3 DEF BattleIInv, SparesOthers
<1> QED  BY <1>7, <1>11, <1>12, <1>13, <1>14, <1>15 DEF BattleIInv

\* The beginning of a removal, whatever files it is of.
LEMMA BeginRemovalInv ==
  ASSUME BattleIInv, NEW indexes \in SUBSET DOMAIN configs, NEW only \in BOOLEAN,
         BeginRemoval(indexes, only)
  PROVE  BattleIInv'
<1>1. /\ manager.pc = "none" /\ UNCHANGED <<servers, configs, starter, forsaken, between>>
      /\ manager' = [NoManager EXCEPT !.pc = "remove", !.todo = indexes, !.only = only]
  BY DEF BeginRemoval, ManagerBegins, ManagerAt
<1>2. manager' \in ManagerStates /\ manager'.pc = "remove" /\ ~manager'.mine
  BY <1>1 DEF NoManager, ManagerStates, Regions
<1>3. /\ Ids' = Ids /\ Runs' = Runs /\ Listed' = Listed /\ (DOMAIN configs)' = DOMAIN configs
      /\ FilesAreBounded' = FilesAreBounded /\ ManagerStates' = ManagerStates
      /\ StarterStates' = StarterStates
  BY <1>1, QuietServers DEF ManagerStates, StarterStates
<1>4. BattleTypeOK'
  BY <1>1, <1>2, <1>3 DEF BattleIInv, BattleTypeOK
<1> QED  BY <1>1, <1>2, <1>3, <1>4
         DEF BattleIInv, ManagerRight, RunsAreKept, StarterRight, NewIsOwn, SparesOthers

LEMMA RemovalsInv ==
  ASSUME BattleIInv, \/ \E region \in Regions : RemoveServers(region)
                     \/ RemoveAll \/ Clean \/ LauncherRemoves
  PROVE  BattleIInv'
<1>1. \A region : {i \in DOMAIN configs : servers[configs[i]].region = region}
                    \in SUBSET DOMAIN configs
  OBVIOUS
<1>2. \E indexes \in SUBSET DOMAIN configs, only \in BOOLEAN : BeginRemoval(indexes, only)
  BY <1>1 DEF RemoveServers, RemoveAll, Clean, LauncherRemoves
<1> QED  BY <1>2, BeginRemovalInv

LEMMA SpareInv ==
  ASSUME BattleIInv, NEW i \in manager.todo, Spare(i) PROVE BattleIInv'
<1>1. /\ manager.pc = "remove" /\ UNCHANGED <<servers, configs, starter, forsaken, between>>
      /\ manager' = IF manager.todo = {i} THEN NoManager
                    ELSE [manager EXCEPT !.todo = manager.todo \ {i}]
  BY DEF Spare, ManagerAt
<1>2. manager \in ManagerStates /\ ~manager.mine
  BY <1>1 DEF BattleIInv, BattleTypeOK, StarterRight
<1>3. manager' \in ManagerStates /\ manager'.pc \in {"none", "remove"} /\ ~manager'.mine
  BY <1>1, <1>2 DEF NoManager, ManagerStates, Regions
<1>4. /\ Ids' = Ids /\ Runs' = Runs /\ Listed' = Listed /\ (DOMAIN configs)' = DOMAIN configs
      /\ FilesAreBounded' = FilesAreBounded /\ ManagerStates' = ManagerStates
      /\ StarterStates' = StarterStates
  BY <1>1, QuietServers DEF ManagerStates, StarterStates
<1>5. BattleTypeOK'
  BY <1>1, <1>3, <1>4 DEF BattleIInv, BattleTypeOK
<1> QED  BY <1>1, <1>3, <1>4, <1>5
         DEF BattleIInv, ManagerRight, RunsAreKept, StarterRight, NewIsOwn, SparesOthers

LEMMA KillListedInv ==
  ASSUME BattleIInv, NEW i \in DOMAIN configs, KillListed(i) PROVE BattleIInv'
<1>1. /\ manager.pc = "remove" /\ UNCHANGED <<configs, starter, between>>
      /\ manager' = [manager EXCEPT !.pc = "delete", !.file = i]
  BY DEF KillListed, ManagerAt
<1>2. PICK ok \in BOOLEAN : Killed(configs[i], ok)
  BY DEF KillListed
<1>3. /\ BattleTypeOK /\ manager \in ManagerStates /\ ~manager.mine
      /\ DOMAIN configs \subseteq Nat /\ configs[i] \in Ids
  BY <1>1 DEF BattleIInv, BattleTypeOK, StarterRight
<1>4. /\ servers' \in Seq(BattleStates) /\ Ids' = Ids /\ Runs' \subseteq Runs
      /\ forsaken' \subseteq Ids /\ forsaken \subseteq forsaken'
      /\ configs[i] \in Runs' => configs[i] \in forsaken'
  BY <1>2, <1>3, KilledStep
<1>5. /\ manager' \in ManagerStates /\ manager'.pc = "delete" /\ manager'.file = i
      /\ ~manager'.mine
  BY <1>1, <1>3 DEF ManagerStates
<1>6. /\ Listed' = Listed /\ FilesAreBounded' = FilesAreBounded
      /\ ManagerStates' = ManagerStates /\ StarterStates' = StarterStates
  BY <1>1, <1>4 DEF ManagerStates, StarterStates, Listed, FilesAreBounded
<1>7. BattleTypeOK'
  BY <1>1, <1>4, <1>5, <1>6 DEF BattleIInv, BattleTypeOK
<1>8. ManagerRight' /\ RunsAreKept'
  BY <1>1, <1>4, <1>5, <1>6 DEF BattleIInv, ManagerRight, RunsAreKept
<1>9. StarterRight' /\ NewIsOwn' /\ SparesOthers'
  BY <1>1, <1>4, <1>5, <1>6 DEF BattleIInv, StarterRight, NewIsOwn, SparesOthers
<1> QED  BY <1>6, <1>7, <1>8, <1>9 DEF BattleIInv

LEMMA DeleteConfigInv == ASSUME BattleIInv, DeleteConfig PROVE BattleIInv'
<1> DEFINE i == manager.file
<1>1. /\ manager.pc = "delete" /\ UNCHANGED <<servers, starter, forsaken, between>>
      /\ configs' = [j \in DOMAIN configs \ {i} |-> configs[j]]
      /\ manager' = IF manager.todo = {i} THEN NoManager
                    ELSE [manager EXCEPT !.pc = "remove", !.todo = manager.todo \ {i}, !.file = 0]
  BY DEF DeleteConfig, ManagerAt, Without
<1>2. /\ manager \in ManagerStates /\ ~manager.mine
      /\ DOMAIN configs \subseteq Nat /\ configs \in [DOMAIN configs -> Ids]
      /\ i \in DOMAIN configs /\ (configs[i] \in Runs => configs[i] \in forsaken)
  BY <1>1 DEF BattleIInv, BattleTypeOK, StarterRight, ManagerRight
<1> HIDE DEF i
<1>3. /\ DOMAIN configs' = DOMAIN configs \ {i} /\ configs' \in [DOMAIN configs' -> Ids]
      /\ \A j \in DOMAIN configs \ {i} : configs'[j] = configs[j]
  BY <1>1, <1>2
<1>4. Ids' = Ids /\ Runs' = Runs /\ StarterStates' = StarterStates
  BY <1>1 DEF Ids, Runs, StarterStates
<1>5. Listed' \subseteq Listed /\ Listed \subseteq Listed' \cup {configs[i]}
  BY <1>3 DEF Listed
<1>6. manager'.pc \in {"none", "remove"} /\ ~manager'.mine /\ manager' \in ManagerStates'
  BY <1>1, <1>2, <1>3, <1>4 DEF NoManager, ManagerStates, Regions
<1>7. FilesAreBounded'
  BY <1>3 DEF BattleIInv, FilesAreBounded
<1>8. BattleTypeOK'
  BY <1>1, <1>2, <1>3, <1>4, <1>6 DEF BattleIInv, BattleTypeOK
<1>9. ManagerRight' /\ RunsAreKept'
  BY <1>1, <1>2, <1>4, <1>5, <1>6 DEF BattleIInv, ManagerRight, RunsAreKept
<1>10. StarterRight' /\ NewIsOwn' /\ SparesOthers'
  BY <1>1, <1>4, <1>5, <1>6 DEF BattleIInv, StarterRight, NewIsOwn, SparesOthers
<1> QED  BY <1>7, <1>8, <1>9, <1>10 DEF BattleIInv

LEMMA LauncherLooksInv == ASSUME BattleIInv, LauncherLooks PROVE BattleIInv'
<1>1. starter.pc = "idle" /\ UNCHANGED <<servers, configs, manager, forsaken>>
  BY DEF LauncherLooks
<1>2. PICK found \in Answering :
        /\ starter' = [starter EXCEPT !.pc = "looked", !.before = found]
        /\ between' = (found # Listed \cap Runs)
  BY DEF LauncherLooks
<1>3. /\ starter \in StarterStates /\ found \subseteq Ids /\ ~manager.mine
      /\ manager \in ManagerStates
  BY <1>1 DEF Answering, Up, BattleIInv, BattleTypeOK, StarterRight
<1>4. /\ starter' \in StarterStates /\ starter'.pc = "looked" /\ starter'.before = found
      /\ starter'.found = starter.found
  BY <1>2, <1>3 DEF StarterStates
<1>5. /\ Ids' = Ids /\ Runs' = Runs /\ Listed' = Listed /\ (DOMAIN configs)' = DOMAIN configs
      /\ FilesAreBounded' = FilesAreBounded /\ ManagerStates' = ManagerStates
      /\ StarterStates' = StarterStates
  BY <1>1, QuietServers DEF ManagerStates, StarterStates
<1>6. BattleTypeOK'
  BY <1>1, <1>2, <1>4, <1>5 DEF BattleIInv, BattleTypeOK
<1>7. StarterRight' /\ NewIsOwn' /\ SparesOthers'
  BY <1>1, <1>2, <1>3, <1>4, <1>5 DEF BattleIInv, StarterRight, NewIsOwn, SparesOthers
<1> QED  BY <1>1, <1>5, <1>6, <1>7 DEF BattleIInv, ManagerRight, RunsAreKept

LEMMA LauncherFindsInv == ASSUME BattleIInv, LauncherFinds PROVE BattleIInv'
<1>1. starter.pc = "ran" /\ UNCHANGED <<servers, configs, manager, forsaken, between>>
  BY DEF LauncherFinds
<1>2. PICK after \in Answering :
        LET new == after \ starter.before IN
          starter' = [starter EXCEPT !.pc = "done",
                        !.found = IF Cardinality(new) = 1 /\ starter.before \subseteq after
                                  THEN CHOOSE s \in new : TRUE ELSE NoServer]
  BY DEF LauncherFinds
<1> DEFINE new == after \ starter.before
           found == IF Cardinality(new) = 1 /\ starter.before \subseteq after
                    THEN CHOOSE s \in new : TRUE ELSE NoServer
<1>3. starter \in StarterStates /\ ~manager.mine /\ manager \in ManagerStates
  BY <1>1 DEF BattleIInv, BattleTypeOK, StarterRight
<1>4. after \subseteq Listed \cap Runs /\ Runs \subseteq Ids
  BY DEF Answering, Up, Runs
<1>5. found = NoServer \/ found \in new
  <2>1. Cardinality(new) = 1 => new # {}
    BY FS_EmptySet
  <2> QED  BY <2>1
<1>6. found # NoServer => between \/ found = starter.own
  BY <1>1, <1>4, <1>5 DEF BattleIInv, NewIsOwn
<1>7. starter' = [starter EXCEPT !.pc = "done", !.found = found]
  BY <1>2
<1> HIDE DEF found
<1>8. /\ starter' \in StarterStates /\ starter'.pc = "done" /\ starter'.found = found
      /\ starter'.own = starter.own
  BY <1>3, <1>4, <1>5, <1>7 DEF StarterStates
<1>9. /\ Ids' = Ids /\ Runs' = Runs /\ Listed' = Listed /\ (DOMAIN configs)' = DOMAIN configs
      /\ FilesAreBounded' = FilesAreBounded /\ ManagerStates' = ManagerStates
      /\ StarterStates' = StarterStates
  BY <1>1, QuietServers DEF ManagerStates, StarterStates
<1>10. BattleTypeOK'
  BY <1>1, <1>8, <1>9 DEF BattleIInv, BattleTypeOK
<1>11. StarterRight' /\ NewIsOwn' /\ SparesOthers'
  BY <1>1, <1>3, <1>6, <1>8, <1>9 DEF BattleIInv, StarterRight, NewIsOwn, SparesOthers
<1> QED  BY <1>1, <1>9, <1>10, <1>11 DEF BattleIInv, ManagerRight, RunsAreKept

\* A server comes up or dies: those that run do not become more.
LEMMA ServerMovesInv ==
  ASSUME BattleIInv, NEW s \in Ids, Initialised(s) \/ Dies(s)
  PROVE  BattleIInv'
<1>1. UNCHANGED <<configs, manager, starter, forsaken, between>> /\ s \in Runs
  BY DEF Initialised, Dies, Runs
<1>2. PICK now \in {"up", "gone"} : servers' = [servers EXCEPT ![s].state = now]
  BY DEF Initialised, Dies
<1>3. servers \in Seq(BattleStates) /\ servers[s] \in BattleStates
  BY IdsAre DEF BattleIInv, BattleTypeOK
<1> DEFINE Server == [servers[s] EXCEPT !.state = now]
<1>4. Server \in BattleStates /\ servers' = [servers EXCEPT ![s] = Server]
  BY <1>2, <1>3 DEF BattleStates
<1> HIDE DEF Server
<1>5. /\ servers' \in Seq(BattleStates) /\ Ids' = Ids
      /\ \A r \in Ids \ {s} : servers'[r] = servers[r]
  BY <1>3, <1>4 DEF Ids
<1>6. Runs' \subseteq Runs
  BY <1>1, <1>5 DEF Runs
<1>7. /\ Listed' = Listed /\ FilesAreBounded' = FilesAreBounded
      /\ ManagerStates' = ManagerStates /\ StarterStates' = StarterStates
  BY <1>1, <1>5 DEF ManagerStates, StarterStates, Listed, FilesAreBounded
<1>8. BattleTypeOK'
  BY <1>1, <1>5, <1>7 DEF BattleIInv, BattleTypeOK
<1> QED  BY <1>1, <1>5, <1>6, <1>7, <1>8
         DEF BattleIInv, ManagerRight, RunsAreKept, StarterRight, NewIsOwn, SparesOthers

LEMMA ManagerStopsInv == ASSUME BattleIInv, ManagerStops PROVE BattleIInv'
<1>1. /\ UNCHANGED <<servers, configs, between>>
      /\ manager.pc \in {"wait", "write", "remove", "delete"}
      /\ forsaken' = IF manager.pc \in {"wait", "write"} THEN forsaken \cup {manager.server}
                     ELSE forsaken
  BY DEF ManagerStops
<1>2. /\ manager'.pc = "none" /\ ~manager'.mine /\ manager' \in ManagerStates
      /\ starter' \in StarterStates
      /\ starter'.before = starter.before /\ starter'.own = starter.own
      /\ starter'.found = starter.found
      /\ starter'.pc = IF manager.mine THEN "done" ELSE starter.pc
  BY ManagerEndsStep DEF ManagerStops
<1>3. /\ Ids' = Ids /\ Runs' = Runs /\ Listed' = Listed /\ (DOMAIN configs)' = DOMAIN configs
      /\ FilesAreBounded' = FilesAreBounded /\ ManagerStates' = ManagerStates
      /\ StarterStates' = StarterStates
  BY <1>1, QuietServers DEF ManagerStates, StarterStates
<1>4. BattleTypeOK'
  BY <1>1, <1>2, <1>3 DEF BattleIInv, BattleTypeOK, ManagerRight
<1>5. StarterRight' /\ NewIsOwn' /\ SparesOthers'
  BY <1>1, <1>2, <1>3 DEF BattleIInv, StarterRight, NewIsOwn, SparesOthers
<1>6. RunsAreKept'
  BY <1>1, <1>2, <1>3 DEF BattleIInv, RunsAreKept
<1> QED  BY <1>2, <1>3, <1>4, <1>5, <1>6 DEF BattleIInv, ManagerRight

LEMMA BattleNextInv == BattleIInv /\ [BattleNext]_battleVars => BattleIInv'
<1> SUFFICES ASSUME BattleIInv, [BattleNext]_battleVars PROVE BattleIInv'
  OBVIOUS
<1>1. CASE Start \/ Execute \/ ExecuteFails \/ Answers \/ GivesUp \/ WriteConfig
  BY <1>1, StartInv, ExecuteInv, ExecuteFailsInv, AnswersInv, GivesUpInv, WriteConfigInv
<1>2. CASE \/ \E region \in Regions : RemoveServers(region)
           \/ RemoveAll \/ Clean \/ LauncherRemoves
  BY <1>2, RemovalsInv
<1>3. ASSUME NEW i \in manager.todo \cap DOMAIN configs, Spare(i) \/ KillListed(i)
      PROVE  BattleIInv'
  BY <1>3, SpareInv, KillListedInv
<1>4. CASE DeleteConfig \/ LauncherLooks \/ LauncherStarts \/ LauncherFinds \/ ManagerStops
  BY <1>4, DeleteConfigInv, LauncherLooksInv, LauncherStartsInv, LauncherFindsInv, ManagerStopsInv
<1>5. ASSUME NEW s \in Ids, Initialised(s) \/ Dies(s) PROVE BattleIInv'
  BY <1>5, ServerMovesInv
<1>6. CASE UNCHANGED battleVars
  <2>1. UNCHANGED <<servers, configs, manager, starter, forsaken, between>>
    BY <1>6 DEF battleVars
  <2>2. /\ Ids' = Ids /\ Runs' = Runs /\ Listed' = Listed /\ (DOMAIN configs)' = DOMAIN configs
        /\ FilesAreBounded' = FilesAreBounded /\ ManagerStates' = ManagerStates
        /\ StarterStates' = StarterStates
    BY <2>1, QuietServers DEF ManagerStates, StarterStates
  <2> QED  BY <2>1, <2>2
           DEF BattleIInv, BattleTypeOK, ManagerRight, RunsAreKept, StarterRight, NewIsOwn,
               SparesOthers
<1> QED  BY <1>1, <1>2, <1>3, <1>4, <1>5, <1>6 DEF BattleNext

LEMMA BattleInvariance == BattleSpec => []BattleIInv
BY BattleInitInv, BattleNextInv, PTL DEF BattleSpec

-----------------------------------------------------------------------------
\* The servers, the files, the manager and the launcher are of their types, whatever is started,
\* killed and removed.
THEOREM BattleTypeCorrect == BattleSpec => []BattleTypeOK
<1>1. BattleIInv => BattleTypeOK
  BY DEF BattleIInv
<1> QED  BY <1>1, BattleInvariance, PTL

\* A battle server that runs is in a file whenever no manager is at work, but for those that a
\* stopped manager, a kill that fails or the order of the names leave (WriteConfig, Remove).
THEOREM RunningServersAreListed == BattleSpec => []RunningAreListed
<1>1. BattleIInv => RunningAreListed
  BY DEF BattleIInv, RunsAreKept, RunningAreListed, ManagerAt
<1> QED  BY <1>1, BattleInvariance, PTL

\* The launcher takes no other's battle server for its own, and so has none removed, unless one
\* was started meanwhile or did not answer when it looked first (RunBattleServerManager).
THEOREM OthersAreSpared == BattleSpec => []SparesOthers
<1>1. BattleIInv => SparesOthers
  BY DEF BattleIInv
<1> QED  BY <1>1, BattleInvariance, PTL

-----------------------------------------------------------------------------
\* An agent undoes what it did.

\* What an agent has put there it remembers, and no agent that is still to come has put anything.
AgentsRemember ==
  /\ Len(agents) <= MaxAgents
  /\ \A s \in Settings :
       /\ applied[s] \in 0 .. Len(agents) \cup {Leftover, Elevated}
       /\ \A i \in DOMAIN agents : applied[s] = i => s \in agents[i].has

AdminIInv == AdminTypeOK /\ AgentsRemember

\* What AgentUndoesItsOwn says of a step.
Undoes ==
  \A c \in Configs :
    Is(c, "asked") /\ config[c].kind \in {"revert", "all"}
      /\ config'[c].pc = "answered" /\ config'[c].ok
    => \A s \in config[c].asks : applied'[s] # config[c].to

-----------------------------------------------------------------------------
LEMMA NoConfigType == \A n \in Nat : NoConfig \in ConfigStates(n)
BY DEF NoConfig, ConfigStates, None

LEMMA AdminInitInv == AdminInit => AdminIInv
<1> SUFFICES ASSUME AdminInit PROVE AdminIInv
  OBVIOUS
<1>1. agents = <<>> /\ Len(agents) = 0 /\ agents \in Seq(AgentStates)
  BY DEF AdminInit
<1>2. NoConfig \in ConfigStates(Len(agents))
  BY <1>1, NoConfigType
<1>3. AdminTypeOK
  BY <1>1, <1>2, AdminAssumption DEF AdminInit, AdminTypeOK, Makers, Nothing
<1>4. AgentsRemember
  BY <1>1, AdminAssumption DEF AdminInit, AgentsRemember, Nothing
<1> QED  BY <1>3, <1>4 DEF AdminIInv

\* What the outcomes of the four parts of config-admin are.
LEMMA UnlessElement ==
  ASSUME NEW wanted \in BOOLEAN, NEW now, NEW outcomes, NEW t \in Unless(wanted, now, outcomes)
  PROVE  IF wanted THEN t \in outcomes ELSE t.state = now /\ t.ok = TRUE
BY DEF Unless, Outcome

LEMMA TrustOutcome ==
  ASSUME NEW now, NEW who, NEW t \in TrustCertificates(now, who)
  PROVE  \/ t.ok = TRUE /\ t.state = With(now, "cert", who)
         \/ t.ok = FALSE /\ t.state \in {With(now, "cert", Leftover), now}
BY DEF TrustCertificates, Outcome

LEMMA UntrustOutcome ==
  ASSUME NEW now, NEW t \in UntrustCertificates(now)
  PROVE  \/ t.ok = TRUE /\ t.state = With(now, "cert", Nothing)
         \/ t.ok = FALSE /\ t.state \in {With(now, "cert", Nothing), now}
<1>1. CASE now.cert = Nothing
  BY <1>1 DEF UntrustCertificates, Outcome
<1>2. CASE now.cert # Nothing
  BY <1>2 DEF UntrustCertificates, Outcome
<1> QED  BY <1>1, <1>2

LEMMA AddOutcome ==
  ASSUME NEW now, NEW who, NEW t \in AddHostMappings(now, who)
  PROVE  \/ t.ok = TRUE /\ t.state \in {With(now, "hosts", who), now}
         \/ t.ok = FALSE /\ t.state = now
<1>1. CASE now.hosts = Nothing
  BY <1>1 DEF AddHostMappings, Outcome
<1>2. CASE now.hosts # Nothing
  BY <1>2 DEF AddHostMappings, Outcome
<1> QED  BY <1>1, <1>2

LEMMA RemoveOutcome ==
  ASSUME NEW now, NEW t \in RemoveHostMappings(now)
  PROVE  \/ t.ok = TRUE /\ t.state = With(now, "hosts", Nothing)
         \/ t.ok = FALSE /\ t.state = now
BY DEF RemoveHostMappings, Outcome

\* A set-up leaves of a setting what there was, or nothing, or what a failure leaves; only one
\* that succeeds leaves what it was asked for as its own.
LEMMA SetUpAdminOutcome ==
  ASSUME NEW now \in [Settings -> Makers], NEW asks \in SUBSET Settings, NEW who \in Makers,
         NEW outcome \in SetUpAdmin(now, asks, who)
  PROVE  /\ outcome.state \in [Settings -> Makers] /\ outcome.ok \in BOOLEAN
         /\ \A s \in Settings : outcome.state[s] \in {now[s], Nothing, Leftover, who}
         /\ ~outcome.ok => \A s \in Settings : outcome.state[s] \in {now[s], Nothing, Leftover}
         /\ \A s \in Settings \ asks : outcome.state[s] \in {now[s], Nothing, Leftover}
<1> DEFINE certified == Unless("cert" \in asks, now, TrustCertificates(now, who))
           mapped(t) == Unless("hosts" \in asks, t.state, AddHostMappings(t.state, who))
           undone(t) == Unless("cert" \in asks, t.state, UntrustCertificates(t.state))
<1>1. Nothing \in Makers /\ Leftover \in Makers /\ "cert" \in Settings /\ "hosts" \in Settings
  BY AdminAssumption DEF Nothing, Leftover, Makers, Settings
<1>2. ASSUME NEW t \in certified
      PROVE  /\ t.state \in [Settings -> Makers] /\ t.ok \in BOOLEAN
             /\ t.state["hosts"] = now["hosts"]
             /\ \/ t.state["cert"] \in {now["cert"], Leftover}
                \/ t.ok /\ "cert" \in asks /\ t.state["cert"] = who
             /\ "cert" \notin asks => t.state["cert"] = now["cert"]
  <2>1. \A f \in {who, Leftover} :
           /\ With(now, "cert", f) \in [Settings -> Makers]
           /\ With(now, "cert", f)["hosts"] = now["hosts"] /\ With(now, "cert", f)["cert"] = f
    BY <1>1 DEF With
  <2>2. CASE "cert" \in asks
    <3>1. t \in TrustCertificates(now, who)
      BY <2>2, UnlessElement
    <3>2. \/ t.ok = TRUE /\ t.state = With(now, "cert", who)
          \/ t.ok = FALSE /\ t.state \in {With(now, "cert", Leftover), now}
      BY <3>1, TrustOutcome
    <3> QED  BY <1>1, <2>1, <2>2, <3>2
  <2>3. CASE "cert" \notin asks
    <3>1. t.ok = TRUE /\ t.state = now
      BY <2>3 DEF Unless, Outcome
    <3> QED  BY <1>1, <2>3, <3>1
  <2> QED  BY <2>2, <2>3
<1>3. ASSUME NEW t \in certified, NEW m \in mapped(t)
      PROVE  /\ m.state \in [Settings -> Makers] /\ m.ok \in BOOLEAN
             /\ m.state["cert"] = t.state["cert"]
             /\ \/ m.state["hosts"] = t.state["hosts"]
                \/ "hosts" \in asks /\ m.state["hosts"] = who
  <2>1. t.state \in [Settings -> Makers]
    BY <1>2
  <2>2. /\ With(t.state, "hosts", who) \in [Settings -> Makers]
        /\ With(t.state, "hosts", who)["cert"] = t.state["cert"]
        /\ With(t.state, "hosts", who)["hosts"] = who
    BY <1>1, <2>1 DEF With
  <2>3. CASE "hosts" \in asks
    <3>1. m \in AddHostMappings(t.state, who)
      BY <2>3, UnlessElement
    <3>2. \/ m.ok = TRUE /\ m.state \in {With(t.state, "hosts", who), t.state}
          \/ m.ok = FALSE /\ m.state = t.state
      BY <3>1, AddOutcome
    <3> QED  BY <2>1, <2>2, <2>3, <3>2
  <2>4. CASE "hosts" \notin asks
    <3>1. m.ok = TRUE /\ m.state = t.state
      BY <2>4 DEF Unless, Outcome
    <3> QED  BY <2>1, <3>1
  <2> QED  BY <2>3, <2>4
<1>4. ASSUME NEW t \in certified, NEW u \in undone(t)
      PROVE  /\ u.state \in [Settings -> Makers] /\ u.state["hosts"] = t.state["hosts"]
             /\ "cert" \notin asks => u.state = t.state
  <2>1. t.state \in [Settings -> Makers]
    BY <1>2
  <2>2. /\ With(t.state, "cert", Nothing) \in [Settings -> Makers]
        /\ With(t.state, "cert", Nothing)["hosts"] = t.state["hosts"]
    BY <1>1, <2>1 DEF With
  <2>3. CASE "cert" \in asks
    <3>1. u \in UntrustCertificates(t.state)
      BY <2>3, UnlessElement
    <3> QED  BY <2>1, <2>2, <2>3, <3>1, UntrustOutcome
  <2>4. CASE "cert" \notin asks
    <3>1. u.state = t.state
      BY <2>4 DEF Unless, Outcome
    <3> QED  BY <2>1, <3>1
  <2> QED  BY <2>3, <2>4
<1>5. CASE outcome \in certified
  BY <1>2, <1>5 DEF Settings
<1>6. ASSUME NEW t \in certified, t.ok, outcome \in mapped(t), outcome.ok
      PROVE  /\ outcome.state \in [Settings -> Makers] /\ outcome.ok \in BOOLEAN
             /\ \A s \in Settings : outcome.state[s] \in {now[s], Nothing, Leftover, who}
             /\ \A s \in Settings \ asks : outcome.state[s] \in {now[s], Nothing, Leftover}
  BY <1>2, <1>3, <1>6 DEF Settings
<1>7. ASSUME NEW t \in certified, NEW u \in undone(t),
             outcome = Outcome(IF "cert" \in asks THEN Kept(u.state) ELSE u.state, FALSE)
      PROVE  /\ outcome.state \in [Settings -> Makers] /\ outcome.ok \in BOOLEAN
             /\ \A s \in Settings : outcome.state[s] \in {now[s], Nothing, Leftover}
  <2>1. /\ Kept(u.state) \in [Settings -> Makers]
        /\ Kept(u.state)["cert"] \in {Nothing, Leftover}
        /\ Kept(u.state)["hosts"] = u.state["hosts"]
    BY <1>1, <1>4 DEF Kept, With, Settings
  <2>2. outcome.ok = FALSE /\ outcome.state = IF "cert" \in asks THEN Kept(u.state) ELSE u.state
    BY <1>7 DEF Outcome
  <2> QED  BY <1>2, <1>4, <2>1, <2>2 DEF Settings
<1> HIDE DEF certified, mapped, undone
<1>8. \/ outcome \in certified
      \/ \E t \in certified : t.ok /\ outcome \in mapped(t) /\ outcome.ok
      \/ \E t \in certified : \E u \in undone(t) :
           outcome = Outcome(IF "cert" \in asks THEN Kept(u.state) ELSE u.state, FALSE)
  <2>1. \/ outcome \in {t \in certified : ~t.ok}
        \/ outcome \in UNION {{m \in mapped(t) : m.ok} : t \in {t \in certified : t.ok}}
        \/ outcome \in UNION {{Outcome(IF "cert" \in asks THEN Kept(u.state) ELSE u.state, FALSE) :
                                u \in undone(t)} :
                               t \in {t \in certified : t.ok /\ \E m \in mapped(t) : ~m.ok}}
    BY DEF SetUpAdmin, certified, mapped, undone
  <2> QED  BY <2>1, Zenon
<1> QED  BY <1>5, <1>6, <1>7, <1>8

\* A revert leaves of a setting what there was, or nothing; nothing of what it was asked for, if
\* it stops at what it cannot remove and succeeds.
LEMMA RevertAdminOutcome ==
  ASSUME NEW now \in [Settings -> Makers], NEW asks \in SUBSET Settings, NEW all \in BOOLEAN,
         NEW outcome \in RevertAdmin(now, asks, all)
  PROVE  /\ outcome.state \in [Settings -> Makers] /\ outcome.ok \in BOOLEAN
         /\ \A s \in Settings : outcome.state[s] \in {now[s], Nothing}
         /\ outcome.ok /\ ~all => \A s \in asks : outcome.state[s] = Nothing
<1> DEFINE untrusted == Unless("cert" \in asks, now, UntrustCertificates(now))
           reverted(u) == Unless("hosts" \in asks, u.state, RemoveHostMappings(u.state))
<1>1. Nothing \in Makers /\ "cert" \in Settings /\ "hosts" \in Settings
  BY AdminAssumption DEF Nothing, Makers, Settings
<1>2. ASSUME NEW u \in untrusted
      PROVE  /\ u.state \in [Settings -> Makers] /\ u.ok \in BOOLEAN
             /\ u.state["hosts"] = now["hosts"] /\ u.state["cert"] \in {now["cert"], Nothing}
             /\ u.ok /\ "cert" \in asks => u.state["cert"] = Nothing
  <2>1. /\ With(now, "cert", Nothing) \in [Settings -> Makers]
        /\ With(now, "cert", Nothing)["hosts"] = now["hosts"]
        /\ With(now, "cert", Nothing)["cert"] = Nothing
    BY <1>1 DEF With
  <2>2. CASE "cert" \in asks
    <3>1. u \in UntrustCertificates(now)
      BY <2>2, UnlessElement
    <3> QED  BY <2>1, <3>1, UntrustOutcome
  <2>3. CASE "cert" \notin asks
    <3>1. u.ok = TRUE /\ u.state = now
      BY <2>3 DEF Unless, Outcome
    <3> QED  BY <2>3, <3>1
  <2> QED  BY <2>2, <2>3
<1>3. ASSUME NEW u \in untrusted, NEW r \in reverted(u)
      PROVE  /\ r.state \in [Settings -> Makers] /\ r.ok \in BOOLEAN
             /\ r.state["cert"] = u.state["cert"]
             /\ r.state["hosts"] \in {u.state["hosts"], Nothing}
             /\ r.ok /\ "hosts" \in asks => r.state["hosts"] = Nothing
  <2>1. u.state \in [Settings -> Makers]
    BY <1>2
  <2>2. /\ With(u.state, "hosts", Nothing) \in [Settings -> Makers]
        /\ With(u.state, "hosts", Nothing)["cert"] = u.state["cert"]
        /\ With(u.state, "hosts", Nothing)["hosts"] = Nothing
    BY <1>1, <2>1 DEF With
  <2>3. CASE "hosts" \in asks
    <3>1. r \in RemoveHostMappings(u.state)
      BY <2>3, UnlessElement
    <3> QED  BY <2>1, <2>2, <3>1, RemoveOutcome
  <2>4. CASE "hosts" \notin asks
    <3>1. r.ok = TRUE /\ r.state = u.state
      BY <2>4 DEF Unless, Outcome
    <3> QED  BY <2>1, <2>4, <3>1
  <2> QED  BY <2>3, <2>4
<1> HIDE DEF untrusted, reverted
<1>4. \/ outcome \in untrusted /\ ~outcome.ok
      \/ \E u \in untrusted : (u.ok \/ all) /\ outcome \in reverted(u)
  BY DEF RevertAdmin, untrusted, reverted
<1>5. CASE outcome \in untrusted /\ ~outcome.ok
  BY <1>2, <1>5 DEF Settings
<1>6. ASSUME NEW u \in untrusted, u.ok \/ all, outcome \in reverted(u)
      PROVE  /\ outcome.state \in [Settings -> Makers] /\ outcome.ok \in BOOLEAN
             /\ \A s \in Settings : outcome.state[s] \in {now[s], Nothing}
             /\ outcome.ok /\ ~all => \A s \in asks : outcome.state[s] = Nothing
  BY <1>2, <1>3, <1>6 DEF Settings
<1> QED  BY <1>4, <1>5, <1>6

-----------------------------------------------------------------------------
\* The steps

LEMMA ReachedType == ASSUME AdminIInv PROVE Reached \in 0 .. Len(agents)
BY DEF AdminIInv, AdminTypeOK, Reached

LEMMA MoreStates ==
  ASSUME NEW n \in Nat PROVE ConfigStates(n) \subseteq ConfigStates(n + 1)
<1>1. 0 .. n \subseteq 0 .. n + 1
  OBVIOUS
<1> QED  BY <1>1 DEF ConfigStates

\* A step that is not the end of a command that an agent was asked for: whatever it does to the
\* agents leaves what they remember, and it puts nothing there as an agent's own.
LEMMA QuietStep ==
  ASSUME AdminIInv, AdminTypeOK', Len(agents') = Len(agents),
         \A i \in DOMAIN agents : agents[i].has \subseteq agents'[i].has,
         \A s \in Settings : applied'[s] \in {applied[s], Nothing, Leftover, Elevated},
         \A c \in Configs : config'[c] = config[c] \/ config'[c].pc # "answered"
  PROVE  AdminIInv' /\ Undoes
<1>1. DOMAIN agents' = DOMAIN agents /\ DOMAIN agents = 1 .. Len(agents) /\ Len(agents) \in Nat
  BY DEF AdminIInv, AdminTypeOK
<1>2. AgentsRemember'
  BY <1>1, AdminAssumption
     DEF AdminIInv, AgentsRemember, Nothing, Leftover, Elevated
<1>3. Undoes
  BY DEF Undoes, Is
<1> QED  BY <1>2, <1>3 DEF AdminIInv

LEMMA ConfigStep ==
  ASSUME AdminIInv, NEW c \in Configs, NEW record \in ConfigStates(Len(agents)),
         ConfigIs(c, record)
  PROVE  /\ config' \in [Configs -> ConfigStates(Len(agents))]
         /\ config'[c] = record
         /\ \A d \in Configs \ {c} : config'[d] = config[d]
BY DEF AdminIInv, AdminTypeOK, ConfigIs

LEMMA GoToStep ==
  ASSUME AdminIInv, NEW c \in Configs, GoTo(c, "idle") \/ GoTo(c, "kill") \/ GoTo(c, "verify")
  PROVE  /\ config' \in [Configs -> ConfigStates(Len(agents))]
         /\ config'[c].pc # "answered"
         /\ \A d \in Configs \ {c} : config'[d] = config[d]
<1>1. PICK pc \in {"idle", "kill", "verify"} : GoTo(c, pc)
  OBVIOUS
<1> DEFINE record == [config[c] EXCEPT !.pc = pc]
<1>2. record \in ConfigStates(Len(agents)) /\ record.pc = pc
  BY DEF AdminIInv, AdminTypeOK, ConfigStates
<1>3. ConfigIs(c, record)
  BY <1>1 DEF GoTo, ConfigIs, AdminIInv, AdminTypeOK
<1> HIDE DEF record
<1> QED  BY <1>2, <1>3, ConfigStep

LEMMA AgentStep ==
  ASSUME AdminIInv, NEW i \in DOMAIN agents, NEW record \in AgentStates, AgentIs(i, record)
  PROVE  /\ agents' \in Seq(AgentStates) /\ Len(agents') = Len(agents)
         /\ DOMAIN agents' = DOMAIN agents /\ agents'[i] = record
         /\ \A j \in DOMAIN agents \ {i} : agents'[j] = agents[j]
<1>1. agents \in Seq(AgentStates) /\ agents' = [agents EXCEPT ![i] = record]
  BY DEF AdminIInv, AdminTypeOK, AgentIs
<1> QED  BY <1>1

LEMMA AgentDiesStep ==
  ASSUME AdminIInv, NEW i \in DOMAIN agents, AgentDies(i)
  PROVE  /\ agents' \in Seq(AgentStates) /\ Len(agents') = Len(agents)
         /\ pidHolder' \in 0 .. Len(agents)
         /\ \A j \in DOMAIN agents : agents'[j].has = agents[j].has
<1> DEFINE record == [agents[i] EXCEPT !.pc = "ended", !.serves = None]
<1>1. agents[i] \in AgentStates
  BY DEF AdminIInv, AdminTypeOK
<1>2. record \in AgentStates /\ record.has = agents[i].has
  BY <1>1 DEF AgentStates
<1>3. AgentIs(i, record)
  BY DEF AgentDies
<1> HIDE DEF record
<1>4. pidHolder' \in 0 .. Len(agents)
  BY DEF AgentDies, AdminIInv, AdminTypeOK
<1> QED  BY <1>2, <1>3, <1>4, AgentStep

LEMMA ConfigOnly ==
  ASSUME AdminIInv, UNCHANGED <<agents, socket, pidHolder>>,
         applied' \in [Settings -> Makers],
         \A s \in Settings : applied'[s] \in {applied[s], Nothing, Leftover, Elevated},
         config' \in [Configs -> ConfigStates(Len(agents))],
         \A c \in Configs : config'[c] = config[c] \/ config'[c].pc # "answered"
  PROVE  AdminIInv' /\ Undoes
<1>1. AdminTypeOK'
  BY DEF AdminIInv, AdminTypeOK
<1> QED  BY <1>1, QuietStep

LEMMA RequestInv ==
  ASSUME AdminIInv, NEW c \in Configs, Requested(c)
  PROVE  AdminIInv' /\ Undoes
<1>1. PICK kind \in {"setup", "revert", "all", "flush", "stop"}, asks \in SUBSET Settings :
        Request(c, kind, asks)
  BY DEF Requested
<1> DEFINE pc == CASE kind = "stop" -> "stop"
                   [] kind = "flush" -> IF Reached = 0 THEN "start" ELSE "idle"
                   [] OTHER -> IF Reached = 0 THEN "run" ELSE "asked"
           record == [NoConfig EXCEPT !.kind = kind, !.asks = asks, !.to = Reached, !.pc = pc]
<1>2. pc \in {"stop", "start", "idle", "run", "asked"}
  OBVIOUS
<1>3. Len(agents) \in Nat
  BY DEF AdminIInv, AdminTypeOK
<1>4. record \in ConfigStates(Len(agents)) /\ record.pc # "answered"
  <2> HIDE DEF pc
  <2> QED  BY <1>2, <1>3, NoConfigType, ReachedType DEF ConfigStates
<1>5. ConfigIs(c, record)
  BY <1>1 DEF Request
<1> HIDE DEF record, pc
<1>6. /\ config' \in [Configs -> ConfigStates(Len(agents))]
      /\ \A d \in Configs : config'[d] = config[d] \/ config'[d].pc # "answered"
  BY <1>4, <1>5, ConfigStep
<1> QED  BY <1>1, <1>6, ConfigOnly DEF Request, AdminIInv, AdminTypeOK

LEMMA OverStep ==
  ASSUME AdminIInv, NEW c \in Configs, NEW ok \in BOOLEAN, Over(c, ok)
  PROVE  /\ config' \in [Configs -> ConfigStates(Len(agents))]
         /\ \A d \in Configs : config'[d] = config[d] \/ config'[d].pc # "answered"
<1> DEFINE pc == IF IF config[c].kind = "setup" THEN ~ok /\ config[c].to # 0 ELSE ok
                 THEN "stop" ELSE "idle"
           record == [config[c] EXCEPT !.ok = ok, !.pc = pc]
<1>1. pc \in {"stop", "idle"}
  OBVIOUS
<1>2. config[c] \in ConfigStates(Len(agents))
  BY DEF AdminIInv, AdminTypeOK
<1>3. record \in ConfigStates(Len(agents)) /\ record.pc # "answered"
  <2> HIDE DEF pc
  <2> QED  BY <1>1, <1>2 DEF ConfigStates
<1>4. ConfigIs(c, record)
  BY DEF Over
<1> HIDE DEF record, pc
<1> QED  BY <1>3, <1>4, ConfigStep

LEMMA RunElevatedInv ==
  ASSUME AdminIInv, NEW c \in Configs, RunElevated(c) PROVE AdminIInv' /\ Undoes
<1> DEFINE all == config[c].kind = "all"
<1>1. /\ applied \in [Settings -> Makers] /\ config[c].asks \in SUBSET Settings
      /\ Elevated \in Makers /\ all \in BOOLEAN
  BY AdminAssumption DEF AdminIInv, AdminTypeOK, ConfigStates, Elevated, Makers
<1>2. PICK outcome \in IF config[c].kind = "setup"
                       THEN SetUpAdmin(applied, config[c].asks, Elevated)
                       ELSE RevertAdmin(applied, config[c].asks, all) :
        applied' = outcome.state /\ Over(c, outcome.ok)
  BY DEF RunElevated
<1>3. /\ outcome.state \in [Settings -> Makers] /\ outcome.ok \in BOOLEAN
      /\ \A s \in Settings : outcome.state[s] \in {applied[s], Nothing, Leftover, Elevated}
  <2>1. CASE config[c].kind = "setup"
    <3>1. outcome \in SetUpAdmin(applied, config[c].asks, Elevated)
      BY <1>2, <2>1
    <3>2. /\ outcome.state \in [Settings -> Makers] /\ outcome.ok \in BOOLEAN
          /\ \A s \in Settings : outcome.state[s] \in {applied[s], Nothing, Leftover, Elevated}
      <4> HIDE DEF all
      <4> QED  BY <1>1, <3>1, SetUpAdminOutcome
    <3> QED  BY <3>2
  <2>2. CASE config[c].kind # "setup"
    <3>1. outcome \in RevertAdmin(applied, config[c].asks, all)
      BY <1>2, <2>2
    <3>2. /\ outcome.state \in [Settings -> Makers] /\ outcome.ok \in BOOLEAN
          /\ \A s \in Settings : outcome.state[s] \in {applied[s], Nothing}
      <4> HIDE DEF all
      <4> QED  BY <1>1, <3>1, RevertAdminOutcome
    <3> QED  BY <3>2
  <2> QED  BY <2>1, <2>2
<1>4. /\ config' \in [Configs -> ConfigStates(Len(agents))]
      /\ \A d \in Configs : config'[d] = config[d] \/ config'[d].pc # "answered"
  BY <1>2, <1>3, OverStep
<1> QED  BY <1>2, <1>3, <1>4, ConfigOnly DEF RunElevated

LEMMA AnswerReadInv ==
  ASSUME AdminIInv, NEW c \in Configs, ReadAnswer(c) \/ ReadFails(c) PROVE AdminIInv' /\ Undoes
<1>1. config[c].ok \in BOOLEAN /\ applied \in [Settings -> Makers]
  BY DEF AdminIInv, AdminTypeOK, ConfigStates
<1>2. /\ config' \in [Configs -> ConfigStates(Len(agents))]
      /\ \A d \in Configs : config'[d] = config[d] \/ config'[d].pc # "answered"
  BY <1>1, OverStep DEF ReadAnswer, ReadFails
<1> QED  BY <1>1, <1>2, ConfigOnly DEF ReadAnswer, ReadFails

\* The moves of launcher-config that no command ends with.
LEMMA ConfigMoves ==
  ASSUME AdminIInv, NEW c \in Configs, UNCHANGED <<applied, agents, socket, pidHolder>>,
         NEW record \in ConfigStates(Len(agents)), record.pc # "answered", ConfigIs(c, record)
  PROVE  AdminIInv' /\ Undoes
<1>1. applied \in [Settings -> Makers]
  BY DEF AdminIInv, AdminTypeOK
<1> QED  BY <1>1, ConfigStep, ConfigOnly

LEMMA SendExitInv ==
  ASSUME AdminIInv, NEW c \in Configs, SendExit(c) PROVE AdminIInv' /\ Undoes
<1> DEFINE to == IF config[c].to # 0 THEN config[c].to ELSE Reached
           pc == IF to = 0 THEN "idle" ELSE IF Lives(to) THEN "exit" ELSE "kill"
           record == [config[c] EXCEPT !.to = to, !.pc = pc]
<1>1. config[c] \in ConfigStates(Len(agents))
  BY DEF AdminIInv, AdminTypeOK
<1>2. to \in 0 .. Len(agents) /\ pc \in {"idle", "exit", "kill"}
  BY <1>1, ReachedType DEF ConfigStates
<1>3. record \in ConfigStates(Len(agents)) /\ record.pc # "answered"
  <2> HIDE DEF to, pc
  <2> QED  BY <1>1, <1>2 DEF ConfigStates
<1>4. ConfigIs(c, record)
  BY DEF SendExit
<1> HIDE DEF record, to, pc
<1> QED  BY <1>3, <1>4, ConfigMoves DEF SendExit

LEMMA SeesItStoppedInv ==
  ASSUME AdminIInv, NEW c \in Configs, SeesItStopped(c) PROVE AdminIInv' /\ Undoes
<1>1. GoTo(c, "idle") \/ GoTo(c, "kill")
  BY DEF SeesItStopped
<1>2. applied \in [Settings -> Makers]
  BY DEF AdminIInv, AdminTypeOK
<1> QED  BY <1>1, <1>2, GoToStep, ConfigOnly DEF SeesItStopped

LEMMA VerifyAgentInv ==
  ASSUME AdminIInv, NEW c \in Configs, VerifyAgent(c) PROVE AdminIInv' /\ Undoes
<1> DEFINE pc == IF Reached = 0 THEN "stop" ELSE "idle"
           record == [config[c] EXCEPT !.to = Reached, !.pc = pc]
<1>1. config[c] \in ConfigStates(Len(agents)) /\ pc \in {"stop", "idle"}
  BY DEF AdminIInv, AdminTypeOK
<1>2. record \in ConfigStates(Len(agents)) /\ record.pc # "answered"
  <2> HIDE DEF pc
  <2> QED  BY <1>1, ReachedType DEF ConfigStates
<1>3. ConfigIs(c, record)
  BY DEF VerifyAgent
<1> HIDE DEF record, pc
<1> QED  BY <1>2, <1>3, ConfigMoves DEF VerifyAgent

LEMMA ForgottenInv ==
  ASSUME AdminIInv, NEW c \in Configs, ConfigKilled(c) \/ Forgotten(c) PROVE AdminIInv' /\ Undoes
<1> DEFINE record == [config[c] EXCEPT !.gone = TRUE]
<1>1. Len(agents) \in Nat /\ config[c] \in ConfigStates(Len(agents))
  BY DEF AdminIInv, AdminTypeOK
<1>2. NoConfig \in ConfigStates(Len(agents)) /\ NoConfig.pc = "idle"
  BY <1>1, NoConfigType DEF NoConfig
<1>3. record \in ConfigStates(Len(agents)) /\ record.pc = config[c].pc
  BY <1>1 DEF ConfigStates
<1>4. \/ ConfigIs(c, NoConfig)
      \/ ConfigIs(c, record) /\ config[c].pc = "asked"
  BY DEF ConfigKilled, Forgotten, Is
<1>5. UNCHANGED <<applied, agents, socket, pidHolder>>
  BY DEF ConfigKilled, Forgotten
<1> HIDE DEF record
<1> QED  BY <1>2, <1>3, <1>4, <1>5, ConfigMoves

LEMMA KillAgentInv ==
  ASSUME AdminIInv, NEW c \in Configs, KillAgent(c) PROVE AdminIInv' /\ Undoes
<1>1. /\ config' \in [Configs -> ConfigStates(Len(agents))]
      /\ \A d \in Configs : config'[d] = config[d] \/ config'[d].pc # "answered"
  BY GoToStep DEF KillAgent
<1>2. /\ agents' \in Seq(AgentStates) /\ Len(agents') = Len(agents)
      /\ pidHolder' \in 0 .. Len(agents)
      /\ \A j \in DOMAIN agents : agents'[j].has = agents[j].has
  <2>1. CASE pidHolder # 0
    <3>1. pidHolder \in DOMAIN agents /\ AgentDies(pidHolder)
      BY <2>1 DEF AdminIInv, AdminTypeOK, KillAgent
    <3> QED  BY <3>1, AgentDiesStep
  <2>2. CASE pidHolder = 0
    BY <2>2 DEF AdminIInv, AdminTypeOK, KillAgent
  <2> QED  BY <2>1, <2>2
<1>3. AdminTypeOK'
  BY <1>1, <1>2 DEF AdminIInv, AdminTypeOK, KillAgent
<1> QED  BY <1>1, <1>2, <1>3, QuietStep DEF KillAgent

\* The new agent has put nothing there, nor has anybody in its name.
LEMMA StartAgentInv ==
  ASSUME AdminIInv, NEW c \in Configs, StartAgent(c) PROVE AdminIInv' /\ Undoes
<1>1. Len(agents) \in Nat /\ agents \in Seq(AgentStates) /\ Len(agents) < MaxAgents
  BY DEF AdminIInv, AdminTypeOK, StartAgent
<1>2. NewAgent \in AgentStates
  BY DEF NewAgent, AgentStates
<1>3. /\ agents' = Append(agents, NewAgent) /\ agents' \in Seq(AgentStates)
      /\ Len(agents') = Len(agents) + 1
      /\ \A i \in DOMAIN agents : agents'[i] = agents[i]
      /\ DOMAIN agents' = DOMAIN agents \cup {Len(agents) + 1}
      /\ DOMAIN agents = 1 .. Len(agents)
  BY <1>1, <1>2 DEF StartAgent
<1>4. /\ config' \in [Configs -> ConfigStates(Len(agents))]
      /\ \A d \in Configs : config'[d] = config[d] \/ config'[d].pc # "answered"
  BY GoToStep DEF StartAgent
<1>5. config' \in [Configs -> ConfigStates(Len(agents'))]
  BY <1>1, <1>3, <1>4, MoreStates
<1>6. AdminTypeOK'
  BY <1>1, <1>3, <1>5 DEF AdminIInv, AdminTypeOK, StartAgent
<1>7. AgentsRemember'
  <2>1. Len(agents') <= MaxAgents
    BY <1>1, <1>3, AdminAssumption
  <2>2. ASSUME NEW s \in Settings
        PROVE  /\ applied'[s] \in 0 .. Len(agents') \cup {Leftover, Elevated}
               /\ \A i \in DOMAIN agents' : applied'[s] = i => s \in agents'[i].has
    <3>1. /\ applied'[s] = applied[s]
          /\ applied[s] \in 0 .. Len(agents) \cup {Leftover, Elevated}
          /\ \A i \in DOMAIN agents : applied[s] = i => s \in agents[i].has
      BY DEF AdminIInv, AgentsRemember, StartAgent
    <3>2. applied[s] # Len(agents) + 1
      BY <1>1, <3>1, AdminAssumption DEF Leftover, Elevated
    <3> QED  BY <1>1, <1>3, <3>1, <3>2
  <2> QED  BY <2>1, <2>2 DEF AgentsRemember
<1>8. Undoes
  BY <1>4 DEF Undoes, Is
<1> QED  BY <1>6, <1>7, <1>8 DEF AdminIInv

\* What the agents do besides answering.
LEMMA AgentMoves ==
  ASSUME AdminIInv, UNCHANGED <<applied, config>>, agents' \in Seq(AgentStates),
         Len(agents') = Len(agents), socket' \in 0 .. Len(agents), pidHolder' \in 0 .. Len(agents),
         \A i \in DOMAIN agents : agents'[i].has = agents[i].has
  PROVE  AdminIInv' /\ Undoes
<1>1. AdminTypeOK'
  BY DEF AdminIInv, AdminTypeOK
<1> QED  BY <1>1, QuietStep

\* An agent moves on, and remembers the same.
LEMMA AgentMovesOn ==
  ASSUME AdminIInv, NEW i \in DOMAIN agents,
         NEW pc \in {"lock", "flush", "serve", "closing", "ended"},
         NEW serves \in Configs \cup {None},
         AgentIs(i, [agents[i] EXCEPT !.pc = pc, !.serves = serves])
  PROVE  /\ agents' \in Seq(AgentStates) /\ Len(agents') = Len(agents)
         /\ \A j \in DOMAIN agents : agents'[j].has = agents[j].has
<1> DEFINE record == [agents[i] EXCEPT !.pc = pc, !.serves = serves]
<1>1. agents[i] \in AgentStates
  BY DEF AdminIInv, AdminTypeOK
<1>2. record \in AgentStates /\ record.has = agents[i].has
  BY <1>1 DEF AgentStates
<1>3. AgentIs(i, record)
  OBVIOUS
<1> HIDE DEF record
<1> QED  BY <1>2, <1>3, AgentStep

LEMMA AgentRestInv ==
  ASSUME AdminIInv, NEW i \in DOMAIN agents,
         \/ LockPid(i) \/ Listen(i) \/ Close(i) \/ SignalAgent(i) \/ AgentKilled(i)
         \/ \E c \in Configs : Accept(i, c) \/ Hangup(i, c) \/ handleExit(i, c)
  PROVE  AdminIInv' /\ Undoes
<1>1. /\ agents[i] \in AgentStates /\ i \in 0 .. Len(agents) /\ 0 \in 0 .. Len(agents)
      /\ socket \in 0 .. Len(agents) /\ pidHolder \in 0 .. Len(agents)
      /\ agents \in Seq(AgentStates)
  BY DEF AdminIInv, AdminTypeOK
<1>2. \A pc : [agents[i] EXCEPT !.pc = pc]
               = [agents[i] EXCEPT !.pc = pc, !.serves = agents[i].serves]
  BY <1>1 DEF AgentStates
<1>3. \A who : [agents[i] EXCEPT !.serves = who]
                = [agents[i] EXCEPT !.pc = agents[i].pc, !.serves = who]
  BY <1>1 DEF AgentStates
<1>4. /\ agents[i].pc \in {"lock", "flush", "serve", "closing", "ended"}
      /\ agents[i].serves \in Configs \cup {None} /\ None \in Configs \cup {None}
  BY <1>1 DEF AgentStates
<1>5. CASE LockPid(i)
  <2>1. PICK pc \in {"flush", "ended"} : AgentIs(i, [agents[i] EXCEPT !.pc = pc])
    BY <1>5 DEF LockPid
  <2>2. AgentIs(i, [agents[i] EXCEPT !.pc = pc, !.serves = agents[i].serves])
    BY <1>2, <2>1
  <2>3. /\ agents' \in Seq(AgentStates) /\ Len(agents') = Len(agents)
        /\ \A j \in DOMAIN agents : agents'[j].has = agents[j].has
    BY <1>4, <2>2, AgentMovesOn
  <2> QED  BY <1>1, <1>5, <2>3, AgentMoves DEF LockPid
<1>6. CASE Listen(i)
  <2>1. CASE AgentIs(i, [agents[i] EXCEPT !.pc = "serve"]) /\ socket' = i /\ UNCHANGED pidHolder
    <3>1. AgentIs(i, [agents[i] EXCEPT !.pc = "serve", !.serves = agents[i].serves])
      BY <1>2, <2>1
    <3>2. /\ agents' \in Seq(AgentStates) /\ Len(agents') = Len(agents)
          /\ \A j \in DOMAIN agents : agents'[j].has = agents[j].has
      BY <1>4, <3>1, AgentMovesOn
    <3> QED  BY <1>1, <1>6, <2>1, <3>2, AgentMoves DEF Listen
  <2>2. CASE AgentDies(i) /\ UNCHANGED socket
    BY <1>1, <1>6, <2>2, AgentDiesStep, AgentMoves DEF Listen
  <2> QED  BY <1>6, <2>1, <2>2 DEF Listen
<1>7. CASE Close(i)
  BY <1>1, <1>7, AgentDiesStep, AgentMoves DEF Close
<1>8. CASE AgentKilled(i)
  BY <1>1, <1>8, AgentDiesStep, AgentMoves DEF AgentKilled
<1>9. CASE SignalAgent(i)
  BY <1>1, <1>9, AgentMoves DEF SignalAgent
<1>10. ASSUME NEW c \in Configs, Accept(i, c) \/ Hangup(i, c) \/ handleExit(i, c)
       PROVE  AdminIInv' /\ Undoes
  <2>1. \/ \E who \in {c, None} : AgentIs(i, [agents[i] EXCEPT !.serves = who])
        \/ AgentIs(i, [agents[i] EXCEPT !.pc = "closing", !.serves = None])
    BY <1>10 DEF Accept, Hangup, handleExit
  <2>2. \E who \in Configs \cup {None}, pc \in {agents[i].pc, "closing"} :
          AgentIs(i, [agents[i] EXCEPT !.pc = pc, !.serves = who])
    BY <1>3, <2>1
  <2>3. /\ agents' \in Seq(AgentStates) /\ Len(agents') = Len(agents)
        /\ \A j \in DOMAIN agents : agents'[j].has = agents[j].has
    BY <1>4, <2>2, AgentMovesOn
  <2>4. UNCHANGED <<applied, socket, pidHolder, config>>
    BY <1>10 DEF Accept, Hangup, handleExit
  <2> QED  BY <1>1, <2>3, <2>4, AgentMoves
<1> QED  BY <1>5, <1>6, <1>7, <1>8, <1>9, <1>10

\* The answer of an agent that remembers has by then.
LEMMA AnswerStep ==
  ASSUME AdminIInv, NEW i \in DOMAIN agents, NEW c \in Configs, NEW ok \in BOOLEAN,
         NEW has \in SUBSET Settings, Answer(i, c, ok, has)
  PROVE  /\ agents' \in Seq(AgentStates) /\ Len(agents') = Len(agents)
         /\ agents'[i].has = has
         /\ \A j \in DOMAIN agents \ {i} : agents'[j] = agents[j]
         /\ config' \in [Configs -> ConfigStates(Len(agents))]
         /\ \A d \in Configs \ {c} : config'[d] = config[d]
         /\ config'[c].pc = "answered" => config'[c].ok = ok
<1> DEFINE answered == [config[c] EXCEPT !.pc = "answered", !.ok = ok]
           free == [agents[i] EXCEPT !.serves = None, !.has = has]
           knows == [agents[i] EXCEPT !.has = has]
<1>1. /\ Len(agents) \in Nat /\ config[c] \in ConfigStates(Len(agents))
      /\ agents[i] \in AgentStates
  BY DEF AdminIInv, AdminTypeOK
<1>2. answered \in ConfigStates(Len(agents)) /\ answered.ok = ok
  BY <1>1 DEF ConfigStates
<1>3. /\ free \in AgentStates /\ free.has = has
      /\ knows \in AgentStates /\ knows.has = has
  BY <1>1 DEF AgentStates
<1>4. NoConfig \in ConfigStates(Len(agents)) /\ NoConfig.pc = "idle"
  BY <1>1, NoConfigType DEF NoConfig
<1>5. \E record \in {free, knows} : AgentIs(i, record)
  BY DEF Answer
<1>6. ConfigIs(c, NoConfig) \/ ConfigIs(c, answered)
  BY DEF Answer
<1> HIDE DEF answered, free, knows
<1>7. /\ agents' \in Seq(AgentStates) /\ Len(agents') = Len(agents)
      /\ agents'[i].has = has
      /\ \A j \in DOMAIN agents \ {i} : agents'[j] = agents[j]
  BY <1>3, <1>5, AgentStep
<1>8. /\ config' \in [Configs -> ConfigStates(Len(agents))]
      /\ \A d \in Configs \ {c} : config'[d] = config[d]
      /\ config'[c].pc = "answered" => config'[c].ok = ok
  BY <1>2, <1>4, <1>6, ConfigStep
<1> QED  BY <1>7, <1>8

\* A command that an agent has carried out: what it has put there it remembers, and what it has
\* forgotten is gone.
LEMMA AnsweredInv ==
  ASSUME AdminIInv, NEW i \in DOMAIN agents, NEW c \in Configs, NEW ok \in BOOLEAN,
         NEW has \in SUBSET Settings, Answer(i, c, ok, has), UNCHANGED <<socket, pidHolder>>,
         applied' \in [Settings -> Makers],
         \A s \in Settings : /\ applied'[s] \in {applied[s], Nothing, Leftover, i}
                             /\ applied'[s] = i => s \in has
  PROVE  /\ AdminIInv'
         /\ \A d \in Configs \ {c} : config'[d] = config[d]
         /\ config'[c].pc = "answered" => config'[c].ok = ok
<1>1. /\ agents' \in Seq(AgentStates) /\ Len(agents') = Len(agents)
      /\ agents'[i].has = has
      /\ \A j \in DOMAIN agents \ {i} : agents'[j] = agents[j]
      /\ config' \in [Configs -> ConfigStates(Len(agents))]
      /\ \A d \in Configs \ {c} : config'[d] = config[d]
      /\ config'[c].pc = "answered" => config'[c].ok = ok
  BY AnswerStep
<1>2. AdminTypeOK'
  BY <1>1 DEF AdminIInv, AdminTypeOK
<1>3. /\ DOMAIN agents' = DOMAIN agents /\ DOMAIN agents = 1 .. Len(agents)
      /\ Len(agents) \in Nat
  BY <1>1 DEF AdminIInv, AdminTypeOK
<1>4. ASSUME NEW s \in Settings
      PROVE  /\ applied'[s] \in 0 .. Len(agents) \cup {Leftover, Elevated}
             /\ \A j \in DOMAIN agents : applied'[s] = j => s \in agents'[j].has
  <2>1. /\ applied[s] \in 0 .. Len(agents) \cup {Leftover, Elevated}
        /\ \A j \in DOMAIN agents : applied[s] = j => s \in agents[j].has
        /\ Len(agents) <= MaxAgents
    BY DEF AdminIInv, AgentsRemember
  <2>2. /\ applied'[s] \in {applied[s], Nothing, Leftover, i}
        /\ applied'[s] = i => s \in has
    OBVIOUS
  <2>3. applied'[s] \in 0 .. Len(agents) \cup {Leftover, Elevated}
    BY <1>3, <2>1, <2>2 DEF Nothing
  <2>4. ASSUME NEW j \in DOMAIN agents, applied'[s] = j PROVE s \in agents'[j].has
    <3>1. j # Nothing /\ j # Leftover
      BY <1>3, <2>1, AdminAssumption DEF Nothing, Leftover
    <3> QED  BY <1>1, <2>1, <2>2, <2>4, <3>1
  <2> QED  BY <2>3, <2>4
<1>5. AgentsRemember'
  BY <1>1, <1>3, <1>4 DEF AdminIInv, AgentsRemember
<1> QED  BY <1>1, <1>2, <1>5 DEF AdminIInv

LEMMA AgentRight ==
  ASSUME AdminIInv, NEW i \in DOMAIN agents
  PROVE  /\ i \in Makers /\ i # Nothing /\ i # Leftover
         /\ agents[i].has \in SUBSET Settings
         /\ \A s \in Settings : applied[s] = i => s \in agents[i].has
<1>1. /\ DOMAIN agents = 1 .. Len(agents) /\ Len(agents) \in Nat /\ Len(agents) <= MaxAgents
      /\ agents[i] \in AgentStates
  BY DEF AdminIInv, AdminTypeOK, AgentsRemember
<1>2. i \in Makers /\ i # Nothing /\ i # Leftover
  BY <1>1, AdminAssumption DEF Makers, Nothing, Leftover
<1>3. agents[i].has \in SUBSET Settings
  BY <1>1 DEF AgentStates
<1> QED  BY <1>2, <1>3 DEF AdminIInv, AgentsRemember

LEMMA HandleSetUpInv ==
  ASSUME AdminIInv, NEW i \in DOMAIN agents, NEW c \in Configs, handleSetUp(i, c)
  PROVE  AdminIInv' /\ Undoes
<1> DEFINE asks == config[c].asks
           has == agents[i].has
<1>1. /\ applied \in [Settings -> Makers] /\ asks \in SUBSET Settings /\ has \in SUBSET Settings
      /\ i \in Makers
      /\ \A s \in Settings : applied[s] = i => s \in has
      /\ i # Nothing /\ i # Leftover
  BY AgentRight DEF AdminIInv, AdminTypeOK, ConfigStates
<1>3. UNCHANGED <<socket, pidHolder>> /\ config[c].kind = "setup"
  BY DEF handleSetUp
<1>4. ASSUME \A d \in Configs \ {c} : config'[d] = config[d] PROVE Undoes
  BY <1>3, <1>4 DEF Undoes, Is
<1> HIDE DEF asks, has
<1>5. CASE asks \cap has # {}
  <2>1. Answer(i, c, FALSE, has) /\ UNCHANGED applied
    BY <1>5 DEF handleSetUp, asks, has
  <2>2. /\ applied' \in [Settings -> Makers]
        /\ \A s \in Settings : /\ applied'[s] \in {applied[s], Nothing, Leftover, i}
                                /\ applied'[s] = i => s \in has
    BY <1>1, <2>1
  <2>3. \A d \in Configs \ {c} : config'[d] = config[d]
    BY <1>1, <1>3, <2>1, AnswerStep
  <2> QED  BY <1>1, <1>3, <1>4, <2>1, <2>2, <2>3, AnsweredInv
<1>6. CASE asks \cap has = {}
  <2>1. PICK outcome \in SetUpAdmin(applied, asks, i) :
          /\ applied' = outcome.state
          /\ Answer(i, c, outcome.ok, has \cup (IF outcome.ok THEN asks ELSE {}))
    BY <1>6 DEF handleSetUp, asks, has
  <2>2. /\ outcome.state \in [Settings -> Makers] /\ outcome.ok \in BOOLEAN
        /\ \A s \in Settings : outcome.state[s] \in {applied[s], Nothing, Leftover, i}
        /\ ~outcome.ok => \A s \in Settings : outcome.state[s] \in {applied[s], Nothing, Leftover}
        /\ \A s \in Settings \ asks : outcome.state[s] \in {applied[s], Nothing, Leftover}
    BY <1>1, <2>1, SetUpAdminOutcome
  <2> DEFINE then == has \cup (IF outcome.ok THEN asks ELSE {})
  <2>3. then \in SUBSET Settings
    BY <1>1
  <2>4. ASSUME NEW s \in Settings, applied'[s] = i PROVE s \in then
    <3>1. applied[s] = i => s \in has
      BY <1>1
    <3>2. CASE outcome.ok /\ s \in asks
      BY <3>2
    <3>3. CASE ~(outcome.ok /\ s \in asks)
      <4>1. outcome.state[s] \in {applied[s], Nothing, Leftover}
        BY <2>2, <3>3
      <4> QED  BY <1>1, <2>1, <2>4, <3>1, <4>1
    <3> QED  BY <3>2, <3>3
  <2>5. Answer(i, c, outcome.ok, then)
    BY <2>1
  <2>6. \A s \in Settings : applied'[s] \in {applied[s], Nothing, Leftover, i}
    BY <2>1, <2>2
  <2>7. applied' \in [Settings -> Makers]
    BY <2>1, <2>2
  <2> HIDE DEF then
  <2> QED  BY <1>3, <1>4, <2>2, <2>3, <2>4, <2>5, <2>6, <2>7, AnsweredInv
<1> QED  BY <1>5, <1>6

LEMMA HandleRevertInv ==
  ASSUME AdminIInv, NEW i \in DOMAIN agents, NEW c \in Configs, handleRevert(i, c)
  PROVE  AdminIInv' /\ Undoes
<1> DEFINE asks == config[c].asks
           has == agents[i].has
           reverts == asks \cap has
<1>1. /\ applied \in [Settings -> Makers] /\ asks \in SUBSET Settings /\ has \in SUBSET Settings
      /\ \A s \in Settings : applied[s] = i => s \in has
      /\ i # Nothing /\ i # Leftover
  BY AgentRight DEF AdminIInv, AdminTypeOK, ConfigStates
<1>2. UNCHANGED <<socket, pidHolder>> /\ config[c].to = i
  BY DEF handleRevert, Serving
<1>3. ASSUME \A d \in Configs \ {c} : config'[d] = config[d],
             \/ ~(config'[c].pc = "answered" /\ config'[c].ok)
             \/ \A s \in asks : applied'[s] # i
      PROVE  Undoes
  BY <1>2, <1>3 DEF Undoes, Is
<1> HIDE DEF asks, has
<1>4. CASE reverts = {}
  <2>1. Answer(i, c, TRUE, has) /\ UNCHANGED applied
    BY <1>4 DEF handleRevert, asks, has
  <2>2. \A s \in asks : applied'[s] # i
    BY <1>1, <1>4, <2>1
  <2>3. /\ applied' \in [Settings -> Makers]
        /\ \A s \in Settings : /\ applied'[s] \in {applied[s], Nothing, Leftover, i}
                                /\ applied'[s] = i => s \in has
    BY <1>1, <2>1
  <2>4. AdminIInv' /\ \A d \in Configs \ {c} : config'[d] = config[d]
    BY <1>1, <1>2, <2>1, <2>3, AnsweredInv
  <2> QED  BY <1>3, <2>2, <2>4
<1>5. CASE reverts # {}
  <2>1. PICK outcome \in RevertAdmin(applied, reverts, FALSE) :
          /\ applied' = outcome.state
          /\ Answer(i, c, outcome.ok, has \ (IF outcome.ok THEN reverts ELSE {}))
    BY <1>5 DEF handleRevert, asks, has
  <2>2. reverts \in SUBSET Settings
    BY <1>1
  <2> HIDE DEF reverts
  <2>3. /\ outcome.state \in [Settings -> Makers] /\ outcome.ok \in BOOLEAN
        /\ \A s \in Settings : outcome.state[s] \in {applied[s], Nothing}
        /\ outcome.ok => \A s \in reverts : outcome.state[s] = Nothing
    BY <1>1, <2>1, <2>2, RevertAdminOutcome
  <2> DEFINE then == has \ (IF outcome.ok THEN reverts ELSE {})
  <2>4. then \in SUBSET Settings
    BY <1>1
  <2>5. ASSUME NEW s \in Settings, applied'[s] = i PROVE s \in then
    BY <1>1, <2>1, <2>3, <2>5
  <2>6. outcome.ok => \A s \in asks : applied'[s] # i
    <3> SUFFICES ASSUME outcome.ok, NEW s \in asks, applied'[s] = i PROVE FALSE
      OBVIOUS
    <3>1. s \in Settings /\ s \in has
      BY <1>1, <2>1, <2>3
    <3>2. s \in reverts
      BY <3>1 DEF reverts
    <3> QED  BY <1>1, <2>1, <2>3, <3>2
  <2>7. Answer(i, c, outcome.ok, then)
    BY <2>1
  <2>8. /\ \A s \in Settings : applied'[s] \in {applied[s], Nothing, Leftover, i}
        /\ applied' \in [Settings -> Makers]
    BY <2>1, <2>3
  <2> HIDE DEF then
  <2>9. /\ AdminIInv'
        /\ \A d \in Configs \ {c} : config'[d] = config[d]
        /\ config'[c].pc = "answered" => config'[c].ok = outcome.ok
    BY <1>2, <2>3, <2>4, <2>5, <2>7, <2>8, AnsweredInv
  <2> QED  BY <1>3, <2>6, <2>9
<1> QED  BY <1>4, <1>5

-----------------------------------------------------------------------------
LEMMA AdminNextInv == AdminIInv /\ [AdminNext]_adminVars => AdminIInv' /\ Undoes
<1> SUFFICES ASSUME AdminIInv, [AdminNext]_adminVars PROVE AdminIInv' /\ Undoes
  OBVIOUS
<1>1. ASSUME NEW c \in Configs,
             \/ Requested(c) \/ RunElevated(c) \/ ReadAnswer(c) \/ ReadFails(c)
             \/ SendExit(c) \/ SeesItStopped(c) \/ KillAgent(c) \/ StartAgent(c) \/ VerifyAgent(c)
             \/ ConfigKilled(c) \/ Forgotten(c)
      PROVE  AdminIInv' /\ Undoes
  BY <1>1, RequestInv, RunElevatedInv, AnswerReadInv, SendExitInv, SeesItStoppedInv,
     KillAgentInv, StartAgentInv, VerifyAgentInv, ForgottenInv
<1>2. ASSUME NEW i \in DOMAIN agents,
             \/ LockPid(i) \/ Listen(i) \/ Close(i) \/ SignalAgent(i) \/ AgentKilled(i)
             \/ \E c \in Configs :
                  \/ Accept(i, c) \/ Hangup(i, c)
                  \/ handleSetUp(i, c) \/ handleRevert(i, c) \/ handleExit(i, c)
      PROVE  AdminIInv' /\ Undoes
  BY <1>2, AgentRestInv, HandleSetUpInv, HandleRevertInv
<1>3. CASE UNCHANGED adminVars
  BY <1>3 DEF adminVars, AdminIInv, AdminTypeOK, AgentsRemember, Undoes, Is
<1> QED  BY <1>1, <1>2, <1>3 DEF AdminNext

LEMMA AdminInvariance == AdminSpec => []AdminIInv
<1> QED  BY AdminInitInv, AdminNextInv, PTL DEF AdminSpec

\* The settings, the agents and the commands keep their types.
THEOREM AdminTypeCorrect == AdminSpec => []AdminTypeOK
<1>1. AdminIInv => AdminTypeOK
  BY DEF AdminIInv
<1> QED  BY <1>1, AdminInvariance, PTL

\* A revert that the agent answers with success leaves nothing that was set up through it of what
\* it asks for (handleSetUp, handleRevert), for any number of processes, agents, commands and
\* deaths: an agent remembers all that is there by its hand.
THEOREM AgentsUndoTheirOwn == AdminSpec => AgentUndoesItsOwn
<1>1. AdminIInv /\ [AdminNext]_adminVars =>
        [\A c \in Configs :
           Is(c, "asked") /\ config[c].kind \in {"revert", "all"}
             /\ config'[c].pc = "answered" /\ config'[c].ok
           => \A s \in config[c].asks : applied'[s] # config[c].to]_adminVars
  BY AdminNextInv DEF Undoes
<1> QED  BY <1>1, AdminInvariance, PTL DEF AdminSpec, AgentUndoesItsOwn

-----------------------------------------------------------------------------
\* The domains of the game lead to the server that was chosen.

\* Until the certificate is read the game's own files are not chosen; then the launcher has it,
\* and an address that is some machine's.
\* Between the loops every domain is still to come.
ConEarly == {"query", "choose", "host", "start", "launch", "wait", "cert"}

ConInOrder ==
  /\ con.pc \in ConEarly => ~con.now.own
  /\ con.pc \in {"saveHosts", "saveCert"} => con.now.own
  /\ con.pc \in {"map", "hosts", "saveHosts", "cached", "check", "addCert", "saveCert", "verify"}
     => con.now.cert \in Machines /\ con.now.ip \in Ips
  /\ con.pc \in {"hosts", "saveHosts", "cached", "addCert", "saveCert"} => con.now.left = Domains

\* What is cached of a domain that the user left alone is what it resolves to, except by the hosts
\* file of the game.
CacheIsCurrent ==
  con.now.own \/ \A d \in Domains \ edited : cache[d] \in {{}, domainToIps(d)}

\* A domain leads to the server by the addresses that are cached.
LeadsTo(started, certs, id, ips) ==
  /\ ips # {}
  /\ \A a \in ips : /\ a # Official /\ started[MachineOf(a)] # 0
                    /\ id \in {NilId, started[MachineOf(a)]}
                    /\ MachineOf(a) \in certs

\* In the loops that check the domains the ones that are done lead to the server, unless one of
\* them asked for the certificate to be trusted; and all do when the game is launched.
DoneAreChecked ==
  /\ (con.pc = "check" /\ ~con.now.fix) \/ con.pc = "verify" =>
       \A d \in Domains \ (con.now.left \cup edited \cup moved) :
          LeadsTo(runs, trusted, con.now.id, cache[d])
  /\ con.pc = "ready" /\ ~con.now.own =>
       \A d \in Domains \ (edited \cup moved) : LeadsTo(runs, trusted, con.now.id, cache[d])

ConIInv == ConTypeOK /\ ConInOrder /\ CacheIsCurrent /\ DoneAreChecked

-----------------------------------------------------------------------------
LEMMA ConInitInv == ConInit => ConIInv
<1> SUFFICES ASSUME ConInit PROVE ConIInv
  OBVIOUS
<1>1. PICK start \in StartPcs : con = [pc |-> start, now |-> Unset]
  BY DEF ConInit
<1>2. /\ con.pc \in ConEarly /\ con.pc \in ConPcs /\ con.now = Unset
      /\ ~con.now.own /\ con.now \in ConRecords
  BY <1>1, ConnectionAssumption DEF StartPcs, ConPcs, ConEarly, Unset, ConRecords, RunIds, NilId
<1>3. con \in [pc : ConPcs, now : ConRecords]
  BY <1>1, <1>2
<1>4. runs \in [Machines -> RunIds] /\ lastRun \in RunIds
  BY ConnectionAssumption DEF ConInit, RunIds
<1>5. ConTypeOK
  BY <1>3, <1>4 DEF ConInit, ConTypeOK
<1>6. ConInOrder /\ DoneAreChecked
  BY <1>2 DEF ConInOrder, DoneAreChecked, ConEarly
<1>7. CacheIsCurrent
  BY DEF ConInit, CacheIsCurrent
<1> QED  BY <1>5, <1>6, <1>7 DEF ConIInv

\* The two ways in which the launcher moves.
LEMMA GoOnStep ==
  ASSUME ConTypeOK, NEW pc \in ConPcs, NEW now \in ConRecords, GoOn(pc, now)
  PROVE  con' \in [pc : ConPcs, now : ConRecords] /\ con'.pc = pc /\ con'.now = now
BY DEF ConTypeOK, GoOn

LEMMA FailsStep ==
  ASSUME ConTypeOK, Fails
  PROVE  /\ con' \in [pc : ConPcs, now : ConRecords]
         /\ con'.pc = "failed" /\ con'.now = con.now
BY DEF ConTypeOK, Fails, ConPcs

LEMMA NowType == ASSUME ConTypeOK PROVE Now \in ConRecords /\ Now = con.now
BY DEF ConTypeOK, Now

LEMMA UnsetType == Unset \in ConRecords /\ ~Unset.own
BY ConnectionAssumption DEF Unset, ConRecords, RunIds, NilId

\* A server's Id, and the machine whose certificate an address has.
LEMMA ServerAtType ==
  ASSUME ConTypeOK, NEW a \in Ips \cup {Official}
  PROVE  /\ ServerAt(a) \in RunIds
         /\ CertAt(a) # NoCert => CertAt(a) \in Machines
<1>1. CASE a = Official
  BY <1>1, ConnectionAssumption DEF ServerAt, CertAt, RunIds
<1>2. CASE a # Official
  <2>1. MachineOf(a) \in Machines
    BY <1>2 DEF Ips, MachineOf
  <2> QED  BY <1>2, <2>1 DEF ServerAt, CertAt, ConTypeOK
<1> QED  BY <1>1, <1>2

\* What is cached after a domain was resolved.
LEMMA CachedStep ==
  ASSUME ConIInv, NEW d \in Domains, NEW ips \in HostOrIpToIps(d), CacheMapping(d, ips)
  PROVE  /\ cache' \in [Domains -> SUBSET (Ips \cup {Official})] /\ edited' \subseteq Domains
         /\ cache'[d] = ips
         /\ \A e \in Domains \ {d} : cache'[e] = cache[e] /\ (e \in edited' <=> e \in edited)
         /\ con.now.own \/ \A e \in Domains \ edited' : cache'[e] \in {{}, domainToIps(e)}
<1>1. cache \in [Domains -> SUBSET (Ips \cup {Official})] /\ edited \subseteq Domains
  BY DEF ConIInv, ConTypeOK
<1>2. ips \subseteq Ips \cup {Official}
  BY <1>1 DEF HostOrIpToIps, domainToIps, ConIInv, ConTypeOK
<1>3. cache' = [cache EXCEPT ![d] = ips] /\ edited' \in {edited, edited \ {d}}
  BY DEF CacheMapping
<1>4. /\ cache' \in [Domains -> SUBSET (Ips \cup {Official})] /\ edited' \subseteq Domains
      /\ cache'[d] = ips
      /\ \A e \in Domains \ {d} : cache'[e] = cache[e] /\ (e \in edited' <=> e \in edited)
  BY <1>1, <1>2, <1>3
<1>5. ASSUME ~con.now.own, d \notin edited' PROVE ips \in {{}, domainToIps(d)}
  <2>1. CASE cache[d] = {}
    BY <2>1 DEF HostOrIpToIps
  <2>2. CASE cache[d] # {}
    <3>1. d \notin edited /\ ips = cache[d]
      BY <1>5, <2>2 DEF CacheMapping, HostOrIpToIps
    <3> QED  BY <1>5, <3>1 DEF ConIInv, CacheIsCurrent
  <2> QED  BY <2>1, <2>2
<1>6. ASSUME ~con.now.own PROVE \A e \in Domains \ edited' : cache'[e] \in {{}, domainToIps(e)}
  BY <1>4, <1>5, <1>6 DEF ConIInv, CacheIsCurrent
<1> QED  BY <1>4, <1>6

LEMMA NextDomainStep ==
  ASSUME ConTypeOK, NEW d \in Domains, NEW fix \in BOOLEAN,
         NEW toFix \in ConPcs, NEW after \in ConPcs, NextDomain(d, fix, toFix, after)
  PROVE  /\ con' \in [pc : ConPcs, now : ConRecords]
         /\ con'.now.id = con.now.id /\ con'.now.own = con.now.own
         /\ con'.now.cert = con.now.cert /\ con'.now.ip = con.now.ip
         /\ \/ /\ con'.pc = con.pc /\ con'.now.fix = fix /\ con'.now.left = con.now.left \ {d}
            \/ /\ con'.pc = IF fix THEN toFix ELSE after
               /\ con'.now.left = Domains /\ con.now.left \subseteq {d}
<1> DEFINE left == Now.left \ {d}
           next == [Now EXCEPT !.left = left, !.fix = fix]
           last == [Now EXCEPT !.left = Domains, !.fix = FALSE]
<1>1. Now \in ConRecords /\ Now = con.now /\ con.pc \in ConPcs
  BY NowType DEF ConTypeOK
<1>2. /\ next \in ConRecords /\ next.id = Now.id /\ next.own = Now.own /\ next.cert = Now.cert
      /\ next.ip = Now.ip /\ next.fix = fix /\ next.left = left
  BY <1>1 DEF ConRecords
<1>3. /\ last \in ConRecords /\ last.id = Now.id /\ last.own = Now.own /\ last.cert = Now.cert
      /\ last.ip = Now.ip /\ last.left = Domains
  BY <1>1 DEF ConRecords
<1>4. CASE left # {}
  <2>1. GoOn(con.pc, next)
    BY <1>4 DEF NextDomain
  <2> HIDE DEF next
  <2>2. /\ con' \in [pc : ConPcs, now : ConRecords] /\ con'.pc = con.pc /\ con'.now = next
    BY <1>1, <1>2, <2>1, GoOnStep
  <2> QED  BY <1>1, <1>2, <2>2
<1>5. CASE left = {}
  <2> DEFINE to == IF fix THEN toFix ELSE after
  <2>1. GoOn(to, last) /\ to \in ConPcs
    BY <1>5 DEF NextDomain
  <2> HIDE DEF last, to
  <2>2. /\ con' \in [pc : ConPcs, now : ConRecords] /\ con'.pc = to /\ con'.now = last
    BY <1>3, <2>1, GoOnStep
  <2>3. con.now.left \subseteq {d}
    BY <1>1, <1>5
  <2> QED  BY <1>1, <1>3, <2>2, <2>3 DEF to
<1> QED  BY <1>4, <1>5

-----------------------------------------------------------------------------
\* The steps

\* Before the certificate is read nothing of the later parts changes.
LEMMA EarlyInv ==
  ASSUME ConIInv, ConTypeOK', con.pc \in ConEarly, con'.pc \in ConEarly \cup {"failed"},
         ~con'.now.own, UNCHANGED <<mapping, cache, edited>>
  PROVE  ConIInv'
<1>1. ConInOrder' /\ DoneAreChecked'
  BY DEF ConInOrder, DoneAreChecked, ConEarly
<1>2. CacheIsCurrent'
  BY DEF ConIInv, ConInOrder, CacheIsCurrent, domainToIps
<1> QED  BY <1>1, <1>2 DEF ConIInv

LEMMA QueryServersInv == ASSUME ConIInv, QueryServers PROVE ConIInv'
<1>1. PICK found \in SUBSET {a \in Ips : ServerAt(a) # 0} :
        GoOn("choose", [Now EXCEPT !.found = {[ip |-> a, id |-> ServerAt(a)] : a \in found}])
  BY DEF QueryServers
<1> DEFINE now == [Now EXCEPT !.found = {[ip |-> a, id |-> ServerAt(a)] : a \in found}]
<1>2. \A a \in found : a \in Ips /\ ServerAt(a) \in RunIds
  BY ServerAtType DEF ConIInv
<1>3. {[ip |-> a, id |-> ServerAt(a)] : a \in found} \subseteq [ip : Ips, id : RunIds]
  BY <1>2
<1>4. Now \in ConRecords /\ Now = con.now /\ con.pc = "query"
  BY NowType DEF ConIInv, QueryServers, ConAt
<1>5. now \in ConRecords /\ now.own = Now.own
  BY <1>3, <1>4 DEF ConRecords
<1>6. GoOn("choose", now)
  BY <1>1
<1> HIDE DEF now
<1>7. con' \in [pc : ConPcs, now : ConRecords] /\ con'.pc = "choose" /\ con'.now = now
  BY <1>5, <1>6, GoOnStep DEF ConIInv, ConPcs
<1>8. ConTypeOK' /\ UNCHANGED <<mapping, cache, edited>>
  BY <1>7 DEF ConIInv, ConTypeOK, QueryServers, world, seen
<1>9. con.pc \in ConEarly /\ con'.pc \in ConEarly /\ ~con'.now.own
  BY <1>4, <1>5, <1>7 DEF ConEarly, ConIInv, ConInOrder
<1> QED  BY <1>8, <1>9, EarlyInv

LEMMA SelectBestIpAddrInv == ASSUME ConIInv, SelectBestIpAddr PROVE ConIInv'
<1> DEFINE processed == {s \in Now.found : LanServerIP(s.id, s.ip)}
<1>1. con.pc = "choose" /\ ConTypeOK /\ Unset \in ConRecords /\ ~Unset.own
  BY UnsetType DEF SelectBestIpAddr, ConAt, ConIInv
<1>2. /\ con' \in [pc : ConPcs, now : ConRecords]
      /\ con'.pc \in {"start", "cert"} /\ ~con'.now.own
  <2>1. CASE processed = {}
    <3>1. GoOn("start", Unset)
      BY <2>1 DEF SelectBestIpAddr
    <3> QED  BY <1>1, <3>1, GoOnStep DEF ConPcs
  <2>2. CASE processed # {}
    <3>1. PICK s \in processed : GoOn("cert", [Unset EXCEPT !.id = s.id, !.ip = s.ip])
      BY <2>2 DEF SelectBestIpAddr
    <3> DEFINE now == [Unset EXCEPT !.id = s.id, !.ip = s.ip]
    <3>2. s.id \in RunIds /\ s.ip \in Ips
      BY <1>1 DEF ConTypeOK, ConRecords, Now
    <3>3. now \in ConRecords /\ now.own = Unset.own
      BY <1>1, <3>2 DEF ConRecords
    <3>4. GoOn("cert", now)
      BY <3>1
    <3> HIDE DEF now
    <3> QED  BY <1>1, <3>3, <3>4, GoOnStep DEF ConPcs
  <2> QED  BY <2>1, <2>2
<1>3. ConTypeOK' /\ UNCHANGED <<mapping, cache, edited>>
  BY <1>1, <1>2 DEF ConTypeOK, SelectBestIpAddr, world, seen
<1> QED  BY <1>1, <1>2, <1>3, EarlyInv DEF ConEarly

LEMMA ResolveServerHostInv == ASSUME ConIInv, ResolveServerHost PROVE ConIInv'
<1>1. con.pc = "host" /\ ConTypeOK /\ Unset \in ConRecords /\ ~Unset.own
  BY UnsetType DEF ResolveServerHost, ConAt, ConIInv
<1>2. /\ con' \in [pc : ConPcs, now : ConRecords]
      /\ con'.pc \in {"failed", "cert"} /\ ~con'.now.own
  <2>1. CASE Fails
    BY <1>1, <2>1, FailsStep DEF ConIInv, ConInOrder, ConEarly
  <2>2. CASE ~Fails
    <3>1. PICK a \in Ips, b \in Ips :
            GoOn("cert", [Unset EXCEPT !.ip = a, !.id = ServerAt(b)])
      BY <2>2 DEF ResolveServerHost
    <3> DEFINE now == [Unset EXCEPT !.ip = a, !.id = ServerAt(b)]
    <3>2. ServerAt(b) \in RunIds
      BY <1>1, ServerAtType
    <3>3. now \in ConRecords /\ now.own = Unset.own
      BY <1>1, <3>2 DEF ConRecords
    <3>4. GoOn("cert", now)
      BY <3>1
    <3> HIDE DEF now
    <3> QED  BY <1>1, <3>3, <3>4, GoOnStep DEF ConPcs
  <2> QED  BY <2>1, <2>2
<1>3. ConTypeOK' /\ UNCHANGED <<mapping, cache, edited>>
  BY <1>1, <1>2 DEF ConTypeOK, ResolveServerHost, world, seen
<1> QED  BY <1>1, <1>2, <1>3, EarlyInv DEF ConEarly

LEMMA GenerateServerCertificatesInv ==
  ASSUME ConIInv, GenerateServerCertificates PROVE ConIInv'
<1>1. con.pc = "start" /\ ConTypeOK /\ ~con.now.own
  BY DEF GenerateServerCertificates, ConAt, ConIInv, ConInOrder, ConEarly
<1>2. Now \in ConRecords /\ Now = con.now
  BY <1>1, NowType
<1>3. /\ con' \in [pc : ConPcs, now : ConRecords]
      /\ con'.pc \in {"launch", "failed"} /\ con'.now = con.now
  <2>1. CASE GoOn("launch", Now)
    BY <1>1, <1>2, <2>1, GoOnStep DEF ConPcs
  <2>2. CASE Fails
    BY <1>1, <2>2, FailsStep
  <2> QED  BY <2>1, <2>2 DEF GenerateServerCertificates
<1>4. trusted' \subseteq Machines
  BY <1>1 DEF GenerateServerCertificates, GenerateCertificatePair, ConTypeOK
<1>5. ConTypeOK' /\ UNCHANGED <<mapping, cache, edited>>
  BY <1>1, <1>3, <1>4 DEF ConTypeOK, GenerateServerCertificates, seen
<1> QED  BY <1>1, <1>3, <1>5, EarlyInv DEF ConEarly

LEMMA StartsServerInv == ASSUME ConIInv, StartsServer PROVE ConIInv'
<1>1. con.pc = "launch" /\ ConTypeOK /\ ~con.now.own /\ Unset \in ConRecords /\ ~Unset.own
  BY UnsetType DEF StartsServer, ConAt, ConIInv, ConInOrder, ConEarly
<1> DEFINE Goes ==
      /\ con' \in [pc : ConPcs, now : ConRecords]
      /\ con'.pc \in {"wait", "failed"} /\ ~con'.now.own
      /\ runs' \in [Machines -> RunIds] /\ lastRun' \in RunIds /\ moved' \subseteq Domains
<1>2. Goes
  <2>1. ASSUME Fails, lastRun' = lastRun, moved' \in {moved, Domains},
               runs' \in {runs, [runs EXCEPT ![ThisPC] = 0]}
        PROVE  Goes
    BY <1>1, <2>1, FailsStep, ConnectionAssumption DEF ConTypeOK, RunIds
  <2>2. ASSUME lastRun < MaxRuns, lastRun' = lastRun + 1, moved' = Domains,
               runs' = [runs EXCEPT ![ThisPC] = lastRun + 1],
               GoOn("wait", [Unset EXCEPT !.id = lastRun + 1])
        PROVE  Goes
    <3> DEFINE now == [Unset EXCEPT !.id = lastRun + 1]
    <3>1. GoOn("wait", now)
      BY <2>2
    <3>2. lastRun + 1 \in RunIds
      BY <1>1, <2>2, ConnectionAssumption DEF ConTypeOK, RunIds
    <3>3. now \in ConRecords /\ now.own = Unset.own
      BY <1>1, <3>2 DEF ConRecords
    <3> HIDE DEF now
    <3>4. con' \in [pc : ConPcs, now : ConRecords] /\ con'.pc = "wait" /\ con'.now = now
      BY <1>1, <3>1, <3>3, GoOnStep DEF ConPcs
    <3> QED  BY <1>1, <2>2, <3>2, <3>3, <3>4 DEF ConTypeOK
  <2> QED  BY <2>1, <2>2 DEF StartsServer
<1>3. ConTypeOK' /\ UNCHANGED <<mapping, cache, edited>>
  BY <1>1, <1>2 DEF ConTypeOK, StartsServer
<1> QED  BY <1>1, <1>2, <1>3, EarlyInv DEF ConEarly

LEMMA AwaitServerInv == ASSUME ConIInv, AwaitServer PROVE ConIInv'
<1>1. con.pc = "wait" /\ ConTypeOK /\ ~con.now.own /\ Now \in ConRecords /\ Now = con.now
  BY NowType DEF AwaitServer, ConAt, ConIInv, ConInOrder, ConEarly
<1> DEFINE Goes ==
      /\ con' \in [pc : ConPcs, now : ConRecords]
      /\ con'.pc \in {"cert", "failed"} /\ ~con'.now.own
      /\ runs' \in [Machines -> RunIds] /\ moved' \subseteq Domains
<1>2. Goes
  <2>1. ASSUME NEW a \in AddressesOf[ThisPC], GoOn("cert", [Now EXCEPT !.ip = a]),
               UNCHANGED <<runs, moved>>
        PROVE  Goes
    <3> DEFINE now == [Now EXCEPT !.ip = a]
    <3>1. a \in Ips
      BY ConnectionAssumption DEF Ips
    <3>2. now \in ConRecords /\ now.own = Now.own
      BY <1>1, <3>1 DEF ConRecords
    <3>3. GoOn("cert", now)
      BY <2>1
    <3> HIDE DEF now
    <3>4. con' \in [pc : ConPcs, now : ConRecords] /\ con'.pc = "cert" /\ con'.now = now
      BY <1>1, <3>2, <3>3, GoOnStep DEF ConPcs
    <3> QED  BY <1>1, <2>1, <3>2, <3>4 DEF ConTypeOK
  <2>2. ASSUME Fails, runs' = [runs EXCEPT ![ThisPC] = 0], moved' = Domains
        PROVE  Goes
    BY <1>1, <2>2, FailsStep, ConnectionAssumption DEF ConTypeOK, RunIds
  <2> QED  BY <2>1, <2>2 DEF AwaitServer
<1>3. ConTypeOK' /\ UNCHANGED <<mapping, cache, edited>>
  BY <1>1, <1>2 DEF ConTypeOK, AwaitServer
<1> QED  BY <1>1, <1>2, <1>3, EarlyInv DEF ConEarly

LEMMA ReadCACertificateInv == ASSUME ConIInv, ReadCACertificate PROVE ConIInv'
<1>1. con.pc = "cert" /\ ConTypeOK /\ ~con.now.own /\ Now \in ConRecords /\ Now = con.now
  BY NowType DEF ReadCACertificate, ConAt, ConIInv, ConInOrder, ConEarly
<1>2. UNCHANGED <<runs, lastRun, mapping, trusted, cache, edited, moved>>
  BY DEF ReadCACertificate, world, seen
<1>3. CASE Fails
  <2>1. con' \in [pc : ConPcs, now : ConRecords] /\ con'.pc = "failed" /\ con'.now = con.now
    BY <1>1, <1>3, FailsStep
  <2>2. ConTypeOK'
    BY <1>1, <1>2, <2>1 DEF ConTypeOK
  <2> QED  BY <1>1, <1>2, <2>1, <2>2, EarlyInv DEF ConEarly
<1>4. CASE ~Fails
  <2>1. PICK own \in BOOLEAN :
          /\ CertAt(Now.ip) # NoCert
          /\ GoOn(IF own THEN "saveHosts" ELSE "map",
                  [Now EXCEPT !.cert = CertAt(Now.ip), !.left = Domains, !.own = own])
    BY <1>4 DEF ReadCACertificate
  <2> DEFINE now == [Now EXCEPT !.cert = CertAt(Now.ip), !.left = Domains, !.own = own]
             pc == IF own THEN "saveHosts" ELSE "map"
  <2>2. CertAt(Now.ip) \in Machines /\ Now.ip \in Ips
    <3>1. Now.ip \in Ips \cup {Official}
      BY <1>1 DEF ConRecords
    <3>2. Now.ip # Official
      BY <2>1 DEF CertAt, ServerAt
    <3> QED  BY <1>1, <2>1, <3>1, <3>2, ServerAtType
  <2>3. /\ now \in ConRecords /\ now.cert \in Machines /\ now.ip \in Ips
        /\ now.left = Domains /\ now.own = own
    BY <1>1, <2>2 DEF ConRecords
  <2>4. GoOn(pc, now) /\ pc \in {"saveHosts", "map"} /\ pc \in ConPcs
    BY <2>1 DEF ConPcs
  <2> HIDE DEF now, pc
  <2>5. con' \in [pc : ConPcs, now : ConRecords] /\ con'.pc = pc /\ con'.now = now
    BY <1>1, <2>3, <2>4, GoOnStep
  <2>6. ConTypeOK'
    BY <1>1, <1>2, <2>5 DEF ConTypeOK
  <2>7. ConInOrder' /\ DoneAreChecked'
    BY <2>3, <2>4, <2>5 DEF ConInOrder, DoneAreChecked, ConEarly, pc
  <2>8. CacheIsCurrent'
    BY <1>1, <1>2 DEF ConIInv, CacheIsCurrent, domainToIps
  <2> QED  BY <2>6, <2>7, <2>8 DEF ConIInv
<1> QED  BY <1>3, <1>4

\* The launcher gives up.
LEMMA FailsInv ==
  ASSUME ConIInv, Fails, ConTypeOK', CacheIsCurrent' PROVE ConIInv'
<1>1. con'.pc = "failed"
  BY FailsStep DEF ConIInv
<1>2. ConInOrder' /\ DoneAreChecked'
  BY <1>1 DEF ConInOrder, DoneAreChecked, ConEarly
<1> QED  BY <1>2 DEF ConIInv

LEMMA MatchHostInv == ASSUME ConIInv, NEW d \in Domains, MatchHost(d) PROVE ConIInv'
<1>1. con.pc = "map" /\ ConTypeOK /\ Now = con.now /\ con.now \in ConRecords
  BY NowType DEF MatchHost, ConAt, ConIInv
<1>2. PICK ips \in HostOrIpToIps(d) :
        /\ CacheMapping(d, ips)
        /\ \/ \E fix \in BOOLEAN : NextDomain(d, fix, "hosts", "cached")
           \/ Fails
  <2>1. Now.fix \in BOOLEAN
    BY <1>1 DEF ConRecords
  <2> QED  BY <2>1 DEF MatchHost
<1>3. UNCHANGED <<runs, lastRun, mapping, trusted, moved>>
  BY DEF MatchHost, world
<1>4. /\ cache' \in [Domains -> SUBSET (Ips \cup {Official})] /\ edited' \subseteq Domains
      /\ con.now.own \/ \A e \in Domains \ edited' : cache'[e] \in {{}, domainToIps(e)}
  BY <1>2, CachedStep
<1>5. CASE \E fix \in BOOLEAN : NextDomain(d, fix, "hosts", "cached")
  <2>1. PICK fix \in BOOLEAN : NextDomain(d, fix, "hosts", "cached")
    BY <1>5
  <2>2. "hosts" \in ConPcs /\ "cached" \in ConPcs
    BY DEF ConPcs
  <2>3. /\ con' \in [pc : ConPcs, now : ConRecords]
        /\ con'.now.own = con.now.own /\ con'.now.cert = con.now.cert
        /\ con'.now.ip = con.now.ip
        /\ \/ con'.pc = "map"
           \/ con'.pc \in {"hosts", "cached"} /\ con'.now.left = Domains
    BY <1>1, <2>1, <2>2, NextDomainStep
  <2>4. ConTypeOK'
    BY <1>1, <1>3, <1>4, <2>3 DEF ConTypeOK
  <2>5. ConInOrder' /\ DoneAreChecked'
    BY <1>1, <2>3 DEF ConIInv, ConInOrder, DoneAreChecked, ConEarly
  <2>6. CacheIsCurrent'
    BY <1>3, <1>4, <2>3 DEF CacheIsCurrent, domainToIps
  <2> QED  BY <2>4, <2>5, <2>6 DEF ConIInv
<1>6. CASE Fails
  <2>1. con' \in [pc : ConPcs, now : ConRecords] /\ con'.now = con.now
    BY <1>1, <1>6, FailsStep
  <2>2. ConTypeOK'
    BY <1>1, <1>3, <1>4, <2>1 DEF ConTypeOK
  <2>3. CacheIsCurrent'
    BY <1>3, <1>4, <2>1 DEF CacheIsCurrent, domainToIps
  <2> QED  BY <1>6, <2>2, <2>3, FailsInv
<1> QED  BY <1>2, <1>5, <1>6

LEMMA RunSetUpHostsInv == ASSUME ConIInv, RunSetUpHosts PROVE ConIInv'
<1>1. con.pc = "hosts" /\ ConTypeOK /\ Now = con.now /\ con.now \in ConRecords
  BY NowType DEF RunSetUpHosts, ConAt, ConIInv
<1>2. /\ cache' = [d \in Domains |-> {}] /\ edited' = {}
      /\ UNCHANGED <<runs, lastRun, trusted, moved>>
  BY DEF RunSetUpHosts, ClearDNSCache
<1>3. mapping' \in [Domains -> SUBSET Ips]
  <2>1. Now.ip \in Ips
    BY <1>1 DEF ConIInv, ConInOrder
  <2>2. Mapped(Now.ip) \in [Domains -> SUBSET Ips]
    BY <1>1, <2>1 DEF Mapped, ConTypeOK
  <2> QED  BY <1>1, <2>2 DEF RunSetUpHosts, ConTypeOK
<1>4. CacheIsCurrent'
  BY <1>2 DEF CacheIsCurrent
<1>5. CASE GoOn("cached", Now)
  <2>1. con' \in [pc : ConPcs, now : ConRecords] /\ con'.pc = "cached" /\ con'.now = con.now
    BY <1>1, <1>5, GoOnStep DEF ConPcs
  <2>2. ConTypeOK'
    BY <1>1, <1>2, <1>3, <2>1 DEF ConTypeOK
  <2>3. ConInOrder' /\ DoneAreChecked'
    BY <1>1, <2>1 DEF ConIInv, ConInOrder, DoneAreChecked, ConEarly
  <2> QED  BY <1>4, <2>2, <2>3 DEF ConIInv
<1>6. CASE Fails
  <2>1. con' \in [pc : ConPcs, now : ConRecords] /\ con'.now = con.now
    BY <1>1, <1>6, FailsStep
  <2>2. ConTypeOK'
    BY <1>1, <1>2, <1>3, <2>1 DEF ConTypeOK
  <2> QED  BY <1>4, <1>6, <2>2, FailsInv
<1> QED  BY <1>5, <1>6 DEF RunSetUpHosts

LEMMA SaveHostsInv == ASSUME ConIInv, SaveHosts PROVE ConIInv'
<1>1. con.pc = "saveHosts" /\ ConTypeOK /\ Now = con.now /\ con.now \in ConRecords
  BY NowType DEF SaveHosts, ConAt, ConIInv
<1>2. UNCHANGED <<runs, lastRun, mapping, trusted, moved>>
  BY DEF SaveHosts, world
<1>3. ASSUME GoOn("cached", Now), cache' = [d \in Domains |-> {Now.ip}], edited' = {},
             con.now.own
      PROVE  ConIInv'
  <2>1. con' \in [pc : ConPcs, now : ConRecords] /\ con'.pc = "cached" /\ con'.now = con.now
    BY <1>1, <1>3, GoOnStep DEF ConPcs
  <2>2. Now.ip \in Ips \cup {Official}
    BY <1>1 DEF ConRecords
  <2>3. ConTypeOK'
    BY <1>1, <1>2, <1>3, <2>1, <2>2 DEF ConTypeOK
  <2>4. ConInOrder' /\ DoneAreChecked' /\ CacheIsCurrent'
    BY <1>1, <1>3, <2>1 DEF ConIInv, ConInOrder, DoneAreChecked, CacheIsCurrent, ConEarly
  <2> QED  BY <2>3, <2>4 DEF ConIInv
<1>4. ASSUME Fails, ClearDNSCache PROVE ConIInv'
  <2>1. con' \in [pc : ConPcs, now : ConRecords] /\ con'.now = con.now
    BY <1>1, <1>4, FailsStep
  <2>2. ConTypeOK' /\ CacheIsCurrent'
    BY <1>1, <1>2, <1>4, <2>1 DEF ConTypeOK, CacheIsCurrent, ClearDNSCache
  <2> QED  BY <1>4, <2>2, FailsInv
<1>5. con.now.own
  BY <1>1 DEF ConIInv, ConInOrder
<1> QED  BY <1>3, <1>4, <1>5 DEF SaveHosts

\* The world and what is known of it stay.
LEMMA MovesInv ==
  ASSUME ConIInv, UNCHANGED <<runs, lastRun, mapping, cache, edited, moved>>,
         trusted' \subseteq Machines, NEW pc \in {"check", "saveCert", "ready", "verify"},
         NEW now \in ConRecords, GoOn(pc, now), now.left = Domains,
         now.cert \in Machines /\ now.ip \in Ips,
         now.own = con.now.own \/ now.own, pc \in {"ready", "saveCert"} => now.own
  PROVE  ConIInv'
<1>1. con' \in [pc : ConPcs, now : ConRecords] /\ con'.pc = pc /\ con'.now = now
  BY GoOnStep DEF ConIInv, ConPcs
<1>2. ConTypeOK'
  BY <1>1 DEF ConIInv, ConTypeOK
<1>3. ConInOrder' /\ DoneAreChecked'
  BY <1>1 DEF ConInOrder, DoneAreChecked, ConEarly
<1>4. CacheIsCurrent'
  BY <1>1 DEF ConIInv, CacheIsCurrent, domainToIps
<1> QED  BY <1>2, <1>3, <1>4 DEF ConIInv

LEMMA BeginAddCertInv == ASSUME ConIInv, BeginAddCert PROVE ConIInv'
<1> DEFINE now == [Now EXCEPT !.own = TRUE]
<1>1. con.pc = "cached" /\ Now = con.now /\ con.now \in ConRecords /\ con.now.left = Domains
      /\ con.now.cert \in Machines /\ con.now.ip \in Ips /\ trusted \subseteq Machines
  BY NowType DEF BeginAddCert, ConAt, ConIInv, ConInOrder, ConTypeOK
<1>2. /\ now \in ConRecords /\ now.own /\ now.left = Now.left
      /\ now.cert = Now.cert /\ now.ip = Now.ip
  BY <1>1 DEF ConRecords
<1>3. GoOn("check", Now) \/ GoOn("saveCert", now)
  BY DEF BeginAddCert
<1> HIDE DEF now
<1> QED  BY <1>1, <1>2, <1>3, MovesInv DEF BeginAddCert, world, seen

LEMMA UnchangedFails ==
  ASSUME ConIInv, Fails, UNCHANGED <<runs, lastRun, mapping, cache, edited, moved>>,
         trusted' \subseteq Machines
  PROVE  ConIInv'
<1>1. con' \in [pc : ConPcs, now : ConRecords] /\ con'.now = con.now
  BY FailsStep DEF ConIInv
<1>2. ConTypeOK' /\ CacheIsCurrent'
  BY <1>1 DEF ConIInv, ConTypeOK, CacheIsCurrent, domainToIps
<1> QED  BY <1>2, FailsInv

LEMMA SaveCertInv == ASSUME ConIInv, SaveCert PROVE ConIInv'
<1>1. con.pc = "saveCert" /\ Now = con.now /\ con.now \in ConRecords /\ con.now.left = Domains
      /\ con.now.cert \in Machines /\ con.now.ip \in Ips /\ trusted \subseteq Machines
      /\ con.now.own
  BY NowType DEF SaveCert, ConAt, ConIInv, ConInOrder, ConTypeOK
<1> QED  BY <1>1, MovesInv, UnchangedFails DEF SaveCert, world, seen

LEMMA RunSetUpCertInv == ASSUME ConIInv, RunSetUpCert PROVE ConIInv'
<1>1. con.pc = "addCert" /\ Now = con.now /\ con.now \in ConRecords /\ con.now.left = Domains
      /\ con.now.cert \in Machines /\ con.now.ip \in Ips /\ trusted \subseteq Machines
  BY NowType DEF RunSetUpCert, ConAt, ConIInv, ConInOrder, ConTypeOK
<1>2. trusted' \subseteq Machines
  BY <1>1 DEF RunSetUpCert
<1> QED  BY <1>1, <1>2, MovesInv, UnchangedFails DEF RunSetUpCert, seen

\* One domain more leads to the server, or asks for the certificate to be trusted.
LEMMA CheckedStep ==
  ASSUME ConIInv, NEW d \in Domains, NEW ips \in HostOrIpToIps(d), CacheMapping(d, ips),
         NEW fix \in BOOLEAN, NEW toFix \in {"addCert", "ready"},
         NextDomain(d, fix, toFix, "ready"), UNCHANGED <<runs, lastRun, mapping, trusted>>,
         con.pc \in {"check", "verify"}, ~fix \/ (con.pc = "check" /\ toFix = "addCert"),
         fix \/ (~con.now.fix \/ con.pc = "verify"),
         moved' \in {moved, moved \ {d}},
         fix \/ LeadsTo(runs, trusted, con.now.id, ips)
  PROVE  ConIInv'
<1>1. /\ con' \in [pc : ConPcs, now : ConRecords]
      /\ con'.now.id = con.now.id /\ con'.now.own = con.now.own
      /\ con'.now.cert = con.now.cert /\ con'.now.ip = con.now.ip
      /\ \/ /\ con'.pc = con.pc /\ con'.now.fix = fix /\ con'.now.left = con.now.left \ {d}
         \/ /\ con'.pc = IF fix THEN toFix ELSE "ready"
            /\ con'.now.left = Domains /\ con.now.left \subseteq {d}
  <2>1. toFix \in ConPcs /\ "ready" \in ConPcs /\ ConTypeOK
    BY DEF ConPcs, ConIInv
  <2> QED  BY <2>1, NextDomainStep
<1>2. /\ cache' \in [Domains -> SUBSET (Ips \cup {Official})] /\ edited' \subseteq Domains
      /\ cache'[d] = ips
      /\ \A e \in Domains \ {d} : cache'[e] = cache[e] /\ (e \in edited' <=> e \in edited)
      /\ con.now.own \/ \A e \in Domains \ edited' : cache'[e] \in {{}, domainToIps(e)}
  BY CachedStep
<1>3. ConTypeOK'
  BY <1>1, <1>2 DEF ConIInv, ConTypeOK
<1>4. CacheIsCurrent'
  BY <1>1, <1>2 DEF CacheIsCurrent, domainToIps
<1>5. ConInOrder'
  BY <1>1 DEF ConIInv, ConInOrder, ConEarly
<1>6. ASSUME ~fix, NEW e \in Domains,
             e \notin (con.now.left \ {d}) \cup edited' \cup moved'
      PROVE  LeadsTo(runs, trusted, con.now.id, cache'[e])
  <2>1. CASE e = d
    BY <1>2, <1>6, <2>1
  <2>2. CASE e # d
    <3>1. e \in Domains \ (con.now.left \cup edited \cup moved) /\ cache'[e] = cache[e]
      BY <1>2, <1>6, <2>2
    <3> QED  BY <1>6, <3>1 DEF ConIInv, DoneAreChecked
  <2> QED  BY <2>1, <2>2
<1>7. DoneAreChecked'
  <2>1. CASE fix
    BY <1>1, <2>1 DEF DoneAreChecked
  <2>2. CASE ~fix
    <3>1. \A e \in Domains \ ((con.now.left \ {d}) \cup edited' \cup moved') :
             LeadsTo(runs, trusted, con.now.id, cache'[e])
      BY <1>6, <2>2
    <3>2. con'.pc = "ready" => con.now.left \ {d} = {}
      BY <1>1
    <3> QED  BY <1>1, <2>2, <3>1, <3>2 DEF DoneAreChecked
  <2> QED  BY <2>1, <2>2
<1> QED  BY <1>3, <1>4, <1>5, <1>7 DEF ConIInv

LEMMA CachedFails ==
  ASSUME ConIInv, NEW d \in Domains, NEW ips \in HostOrIpToIps(d), CacheMapping(d, ips), Fails,
         UNCHANGED <<runs, lastRun, mapping, trusted, moved>>
  PROVE  ConIInv'
<1>1. /\ cache' \in [Domains -> SUBSET (Ips \cup {Official})] /\ edited' \subseteq Domains
      /\ con.now.own \/ \A e \in Domains \ edited' : cache'[e] \in {{}, domainToIps(e)}
  BY CachedStep
<1>2. con' \in [pc : ConPcs, now : ConRecords] /\ con'.now = con.now
  BY FailsStep DEF ConIInv
<1>3. ConTypeOK' /\ CacheIsCurrent'
  BY <1>1, <1>2 DEF ConIInv, ConTypeOK, CacheIsCurrent, domainToIps
<1> QED  BY <1>3, FailsInv

\* Addresses that are checked lead to the server; the Internet's is none of its.
LEMMA HostLeads ==
  ASSUME NEW id, NEW ips, LanServerHost(id, ips)
  PROVE  LeadsTo(runs, trusted, id, ips)
BY DEF LanServerHost, LanServerIP, CheckConnection, ServerAt, LeadsTo

LEMMA CheckCertMatchInv == ASSUME ConIInv, NEW d \in Domains, CheckCertMatch(d) PROVE ConIInv'
<1>1. con.pc = "check" /\ ConTypeOK /\ Now = con.now /\ con.now \in ConRecords
  BY NowType DEF CheckCertMatch, ConAt, ConIInv
<1>2. PICK ips \in HostOrIpToIps(d) :
        /\ CacheMapping(d, ips)
        /\ \/ Fails /\ UNCHANGED moved
           \/ NextDomain(d, TRUE, "addCert", "ready") /\ UNCHANGED moved
           \/ /\ ips # {} /\ LanServerHost(Now.id, ips)
              /\ NextDomain(d, Now.fix, "addCert", "ready") /\ moved' = moved \ {d}
  BY DEF CheckCertMatch, LanServerHost
<1>3. UNCHANGED <<runs, lastRun, mapping, trusted>>
  BY DEF CheckCertMatch, world
<1>4. CASE Fails /\ UNCHANGED moved
  BY <1>2, <1>3, <1>4, CachedFails
<1>5. CASE NextDomain(d, TRUE, "addCert", "ready") /\ UNCHANGED moved
  BY <1>1, <1>2, <1>3, <1>5, CheckedStep
<1>6. CASE /\ ips # {} /\ LanServerHost(Now.id, ips)
           /\ NextDomain(d, Now.fix, "addCert", "ready") /\ moved' = moved \ {d}
  <2>1. LeadsTo(runs, trusted, con.now.id, ips)
    BY <1>1, <1>6, HostLeads
  <2>2. Now.fix \in BOOLEAN
    BY <1>1 DEF ConRecords
  <2> QED  BY <1>1, <1>2, <1>3, <1>6, <2>1, <2>2, CheckedStep
<1> QED  BY <1>2, <1>4, <1>5, <1>6

LEMMA VerifyHostInv == ASSUME ConIInv, NEW d \in Domains, VerifyHost(d) PROVE ConIInv'
<1>1. con.pc = "verify" /\ ConTypeOK /\ Now = con.now
  BY NowType DEF VerifyHost, ConAt, ConIInv
<1>2. PICK ips \in HostOrIpToIps(d) :
        /\ CacheMapping(d, ips)
        /\ \/ Fails /\ UNCHANGED moved
           \/ /\ LanServerHost(Now.id, ips)
              /\ NextDomain(d, FALSE, "ready", "ready") /\ moved' = moved \ {d}
  BY DEF VerifyHost
<1>3. UNCHANGED <<runs, lastRun, mapping, trusted>>
  BY DEF VerifyHost, world
<1>4. CASE Fails /\ UNCHANGED moved
  BY <1>2, <1>3, <1>4, CachedFails
<1>5. CASE /\ LanServerHost(Now.id, ips)
           /\ NextDomain(d, FALSE, "ready", "ready") /\ moved' = moved \ {d}
  <2>1. LeadsTo(runs, trusted, con.now.id, ips)
    BY <1>1, <1>5, HostLeads
  <2> QED  BY <1>1, <1>2, <1>3, <1>5, <2>1, CheckedStep
<1> QED  BY <1>2, <1>4, <1>5

LEMMA DisturbedInv ==
  ASSUME ConIInv, Disturbed, UNCHANGED <<trusted, cache, con>>,
         runs' \in [Machines -> RunIds], lastRun' \in RunIds,
         \/ moved' = Domains /\ UNCHANGED <<mapping, edited>>
         \/ \E d \in Domains, ips \in SUBSET Ips :
              /\ mapping' = [mapping EXCEPT ![d] = ips] /\ edited' = edited \cup {d}
              /\ UNCHANGED <<runs, moved>>
  PROVE  ConIInv'
<1>1. con.pc # "ready"
  BY DEF Disturbed, ConAt
<1>2. ConInOrder'
  BY DEF ConIInv, ConInOrder
<1>3. CASE moved' = Domains /\ UNCHANGED <<mapping, edited>>
  <2>1. ConTypeOK' /\ CacheIsCurrent'
    BY <1>3 DEF ConIInv, ConTypeOK, CacheIsCurrent, domainToIps
  <2>2. DoneAreChecked'
    BY <1>3 DEF DoneAreChecked
  <2> QED  BY <1>2, <2>1, <2>2 DEF ConIInv
<1>4. ASSUME NEW d \in Domains, NEW ips \in SUBSET Ips,
             mapping' = [mapping EXCEPT ![d] = ips], edited' = edited \cup {d},
             UNCHANGED <<runs, moved>>
      PROVE  ConIInv'
  <2>1. ConTypeOK'
    BY <1>4 DEF ConIInv, ConTypeOK
  <2>2. \A e \in Domains \ edited' : domainToIps(e)' = domainToIps(e) /\ e \notin edited
    BY <1>4 DEF ConIInv, ConTypeOK, domainToIps
  <2>3. CacheIsCurrent'
    BY <2>2 DEF ConIInv, CacheIsCurrent
  <2>4. DoneAreChecked'
    BY <1>1, <1>4 DEF ConIInv, DoneAreChecked
  <2> QED  BY <1>2, <2>1, <2>3, <2>4 DEF ConIInv
<1> QED  BY <1>3, <1>4

LEMMA ServerComesOrGoesInv ==
  ASSUME ConIInv, NEW m \in Machines, ServerStops(m) \/ ServerStarts(m) PROVE ConIInv'
<1>1. runs' \in [Machines -> RunIds] /\ lastRun' \in RunIds
  BY ConnectionAssumption DEF ConIInv, ConTypeOK, RunIds, ServerStops, ServerStarts
<1> QED  BY <1>1, DisturbedInv DEF ServerStops, ServerStarts

LEMMA UserEditsInv == ASSUME ConIInv, NEW d \in Domains, UserEdits(d) PROVE ConIInv'
<1>1. \E ips \in SUBSET Ips : mapping' = [mapping EXCEPT ![d] = ips]
  BY DEF UserEdits
<1> QED  BY <1>1, DisturbedInv DEF UserEdits, ConIInv, ConTypeOK

-----------------------------------------------------------------------------
LEMMA ConNextInv == ConIInv /\ [ConNext]_conVars => ConIInv'
<1> SUFFICES ASSUME ConIInv, [ConNext]_conVars PROVE ConIInv'
  OBVIOUS
<1>1. ASSUME NEW d \in Domains, MatchHost(d) \/ CheckCertMatch(d) \/ VerifyHost(d) \/ UserEdits(d)
      PROVE  ConIInv'
  BY <1>1, MatchHostInv, CheckCertMatchInv, VerifyHostInv, UserEditsInv
<1>2. CASE UNCHANGED conVars
  BY <1>2 DEF conVars, ConIInv, ConTypeOK, ConInOrder, CacheIsCurrent, DoneAreChecked, domainToIps
<1> QED
  BY <1>1, <1>2, QueryServersInv, SelectBestIpAddrInv, ResolveServerHostInv,
     GenerateServerCertificatesInv, StartsServerInv, AwaitServerInv, ReadCACertificateInv,
     RunSetUpHostsInv, SaveHostsInv, BeginAddCertInv, SaveCertInv, RunSetUpCertInv,
     ServerComesOrGoesInv DEF ConNext

LEMMA ConInvariance == ConSpec => []ConIInv
<1> QED  BY ConInitInv, ConNextInv, PTL DEF ConSpec

\* The variables of the launch keep their types, in all the steps of MapHosts, AddCert and those
\* before them.
THEOREM ConTypeCorrect == ConSpec => []ConTypeOK
<1>1. ConIInv => ConTypeOK
  BY DEF ConIInv
<1> QED  BY <1>1, ConInvariance, PTL

\* The game is launched when every domain leads to the chosen server, under a certificate that
\* is trusted (MapHosts, AddCert, LanServerHost), whatever the addresses and the number of
\* machines, and of the servers and of the user's edits that come in between.
THEOREM LaunchesReachTheServer == ConSpec => []LaunchReachesServer
<1>1. ConIInv => LaunchReachesServer
  <2> SUFFICES ASSUME ConIInv, ConAt("ready"), ~Now.own, NEW d \in Domains \ (edited \cup moved),
                      NEW a \in domainToIps(d)
               PROVE  LanServerIP(Now.id, a) /\ CertAt(a) \in trusted
    BY DEF LaunchReachesServer
  <2>1. LeadsTo(runs, trusted, con.now.id, cache[d])
    BY DEF ConIInv, DoneAreChecked, ConAt, Now
  <2>2. cache[d] = domainToIps(d)
    BY <2>1 DEF ConIInv, CacheIsCurrent, LeadsTo, Now
  <2>3. /\ a # Official /\ runs[MachineOf(a)] # 0
        /\ con.now.id \in {NilId, runs[MachineOf(a)]} /\ MachineOf(a) \in trusted
    BY <2>1, <2>2 DEF LeadsTo
  <2> QED  BY <2>3 DEF LanServerIP, ServerAt, CertAt, Now
<1> QED  BY <1>1, ConInvariance, PTL

-----------------------------------------------------------------------------
\* The user's folders return. A command's task is a set of parts, each with the folders it has
\* still to exchange, those it has exchanged, and one in hand between two renamings.

FolderParts == {"metadata", "profiles"}

\* Between two parts nothing is in hand; a folder that is exchanged is one, and one that is put
\* back was exchanged.
WellFormed(t) ==
  /\ t.at = "none" =>
       t.step = "begin" /\ t.left = {} /\ t.did = <<>> /\ t.item = "none" /\ ~t.cleaning
  /\ t.at \in FolderParts /\ t.step # "begin" =>
       t.item \in Folders /\ (t.cleaning => t.did # <<>>)

TasksWellFormed == \A g \in Goroutines : WellFormed(tasks[g])

ConfigTypes == ConfigTypeOK /\ TasksWellFormed

LEMMA ConfigInitTypes == ConfigInit => ConfigTypes
<1> SUFFICES ASSUME ConfigInit PROVE ConfigTypes
  OBVIOUS
<1>1. NoTask \in ConfigTasks
  BY DEF NoTask, ConfigTasks
<1>2. dirs \in [Folders -> [active : {"own", "lan", "none"}, bak : {"own", "lan", "none"},
                           lan : {"own", "lan", "none"}]]
  BY DEF ConfigInit
<1>3. tasks \in [Goroutines -> ConfigTasks] /\ \A g \in Goroutines : tasks[g] = NoTask
  BY <1>1 DEF ConfigInit
<1> QED
  BY <1>2, <1>3 DEF ConfigInit, ConfigTypes, ConfigTypeOK, TasksWellFormed, NoTask, NoCommand,
    FolderParts, WellFormed

\* A task that becomes another one keeps the types.
LEMMA BecomesTypes ==
  ASSUME ConfigTypes, NEW g \in Goroutines, NEW task \in ConfigTasks, Becomes(g, task),
         WellFormed(task)
  PROVE  tasks' \in [Goroutines -> ConfigTasks] /\ TasksWellFormed'
BY DEF ConfigTypes, ConfigTypeOK, TasksWellFormed, Becomes

LEMMA UndoType ==
  /\ NoTask \in ConfigTasks /\ WellFormed(NoTask) /\ NoTask.at = "none"
  /\ Undo \in ConfigTasks /\ WellFormed(Undo) /\ Undo.at = "none"
<1>1. NoTask \in ConfigTasks /\ WellFormed(NoTask) /\ NoTask.at = "none"
  BY DEF NoTask, ConfigTasks, WellFormed, FolderParts
<1>2. PICK d : d = Undo
  OBVIOUS
<1>3. d = [NoTask EXCEPT !.todo = Undone, !.undo = TRUE]
  BY <1>2 DEF Undo
<1>4. d \in ConfigTasks /\ WellFormed(d) /\ d.at = "none"
  BY <1>1, <1>3 DEF ConfigTasks, Undone, WellFormed, FolderParts
<1> QED
  BY <1>1, <1>2, <1>4

LEMMA PartEndsTypes ==
  ASSUME ConfigTypes, NEW g \in Goroutines, NEW ok \in BOOLEAN, PartEnds(g, ok),
         tasks[g].at \in ConfigParts
  PROVE  /\ tasks' \in [Goroutines -> ConfigTasks] /\ TasksWellFormed'
         /\ done' \subseteq ConfigParts /\ failed' \in BOOLEAN
         /\ marred' \subseteq marred \cup Marks
<1>1. tasks[g] \in ConfigTasks
  BY DEF ConfigTypes, ConfigTypeOK
<1>0. PICK task : task = [NoTask EXCEPT !.todo = tasks[g].todo \ {tasks[g].at},
                                        !.undo = tasks[g].undo]
  OBVIOUS
<1>2. task \in ConfigTasks /\ WellFormed(task)
  BY <1>0, <1>1, UndoType DEF ConfigTasks, WellFormed
<1>3. tasks' \in [Goroutines -> ConfigTasks] /\ TasksWellFormed'
  <2>1. Becomes(g, task) \/ Becomes(g, Undo)
    BY <1>0 DEF PartEnds, Task
  <2> QED
    BY <1>2, <2>1, BecomesTypes, UndoType
<1> QED
  BY <1>3 DEF PartEnds, Mark, Task, ConfigTypes, ConfigTypeOK, Marks

LEMMA FolderEndsTypes ==
  ASSUME ConfigTypes, NEW g \in Goroutines, NEW i \in Folders, NEW ok \in BOOLEAN,
         FolderEnds(g, i, ok), tasks[g].at \in FolderParts,
         tasks[g].cleaning => tasks[g].did # <<>>
  PROVE  /\ tasks' \in [Goroutines -> ConfigTasks] /\ TasksWellFormed'
         /\ done' \subseteq ConfigParts /\ failed' \in BOOLEAN
         /\ marred' \subseteq marred \cup Marks
<1>1. tasks[g] \in ConfigTasks /\ tasks[g].at \in ConfigParts
  BY DEF ConfigTypes, ConfigTypeOK, FolderParts, ConfigParts
<1>2. CASE ~ok /\ ~tasks[g].cleaning /\ tasks[g].did = <<>>
  BY <1>1, <1>2, PartEndsTypes DEF FolderEnds, Task
<1>3. CASE ~(~ok /\ ~tasks[g].cleaning /\ tasks[g].did = <<>>)
  <2> DEFINE t == tasks[g]
             next == [t EXCEPT !.step = "begin", !.item = "none"]
  <2>1. CASE t.cleaning
    <3>1. Front(t.did) \in Seq(Folders)
      BY <1>1, <2>1 DEF ConfigTasks, Front
    <3>0. PICK task : task = [next EXCEPT !.did = Front(@)]
      OBVIOUS
    <3>2. task \in ConfigTasks /\ WellFormed(task)
      BY <3>0, <1>1, <3>1 DEF ConfigTasks, WellFormed, FolderParts
    <3>3. Becomes(g, task)
      BY <1>3, <2>1, <3>0 DEF FolderEnds, Task
    <3>4. tasks' \in [Goroutines -> ConfigTasks] /\ TasksWellFormed'
      BY <3>2, <3>3, BecomesTypes
    <3> QED
      BY <1>3, <3>4 DEF FolderEnds, Task, Mark, Marks, ConfigTypes, ConfigTypeOK
  <2>2. CASE ~t.cleaning /\ ok
    <3>1. Append(t.did, i) \in Seq(Folders)
      BY <1>1 DEF ConfigTasks
    <3>0. PICK task : task = [next EXCEPT !.left = @ \ {i}, !.did = Append(@, i)]
      OBVIOUS
    <3>2. task \in ConfigTasks /\ WellFormed(task)
      BY <3>0, <1>1, <3>1 DEF ConfigTasks, WellFormed, FolderParts
    <3>3. Becomes(g, task)
      BY <1>3, <2>2, <3>0 DEF FolderEnds, Task
    <3>4. tasks' \in [Goroutines -> ConfigTasks] /\ TasksWellFormed'
      BY <3>2, <3>3, BecomesTypes
    <3> QED
      BY <1>3, <2>2, <3>4 DEF FolderEnds, Task, ConfigTypes, ConfigTypeOK
  <2>3. CASE ~t.cleaning /\ ~ok
    <3>0. PICK task : task = [next EXCEPT !.cleaning = TRUE]
      OBVIOUS
    <3>2. task \in ConfigTasks /\ WellFormed(task)
      BY <3>0, <1>1 DEF ConfigTasks, WellFormed, FolderParts
    <3>3. Becomes(g, task)
      BY <1>3, <2>3, <3>0 DEF FolderEnds, Task
    <3>4. tasks' \in [Goroutines -> ConfigTasks] /\ TasksWellFormed'
      BY <3>2, <3>3, BecomesTypes
    <3> QED
      BY <1>3, <2>3, <3>4 DEF FolderEnds, Task, ConfigTypes, ConfigTypeOK
  <2> QED
    BY <1>1, <2>1, <2>2, <2>3 DEF ConfigTasks
<1> QED
  BY <1>2, <1>3

LEMMA NextPartTypes ==
  ASSUME ConfigTypes, NEW g \in Goroutines, NextPart(g)
  PROVE  ConfigTypes'
<1> DEFINE t == tasks[g]
<1>1. t \in ConfigTasks
  BY DEF ConfigTypes, ConfigTypeOK
<1>2. PICK part \in ConfigParts :
        /\ IsNext(t, part)
        /\ IF t.undo /\ part \notin done
           THEN Becomes(g, [t EXCEPT !.todo = @ \ {part}]) /\ UNCHANGED dirs
           ELSE /\ Becomes(g, [t EXCEPT !.at = part, !.left =
                     CASE part = "metadata" -> {part}
                       [] part = "profiles" -> {p \in Profiles : dirs[p].active # "none"}
                       [] OTHER -> {}])
                /\ dirs' = IF part = "metadata" /\ dirs[part].active = "none"
                           THEN [dirs EXCEPT ![part].active = "lan"] ELSE dirs
  BY DEF NextPart, Task
<1>3. tasks[g].at = "none"
  BY DEF NextPart, Task
<1>4. /\ tasks' \in [Goroutines -> ConfigTasks] /\ TasksWellFormed'
      /\ dirs' \in [Folders -> [active : {"own", "lan", "none"}, bak : {"own", "lan", "none"},
                               lan : {"own", "lan", "none"}]]
  <2>1. CASE t.undo /\ part \notin done
    <3>1. PICK task : task = [t EXCEPT !.todo = @ \ {part}]
      OBVIOUS
    <3>2. task \in ConfigTasks /\ WellFormed(task)
      BY <1>1, <1>3, <3>1 DEF ConfigTasks, ConfigTypes, TasksWellFormed, WellFormed, FolderParts
    <3>3. Becomes(g, task) /\ UNCHANGED dirs
      BY <1>2, <2>1, <3>1
    <3> QED
      BY <3>2, <3>3, BecomesTypes DEF ConfigTypes, ConfigTypeOK
  <2>2. CASE ~(t.undo /\ part \notin done)
    <3>1. PICK task : task = [t EXCEPT !.at = part, !.left =
                     CASE part = "metadata" -> {part}
                       [] part = "profiles" -> {p \in Profiles : dirs[p].active # "none"}
                       [] OTHER -> {}]
      OBVIOUS
    <3>2. task \in ConfigTasks /\ WellFormed(task)
      BY <1>1, <1>2, <1>3, <3>1
      DEF ConfigTasks, Folders, ConfigTypes, TasksWellFormed, WellFormed, FolderParts, ConfigParts
    <3>3. Becomes(g, task)
      BY <1>2, <2>2, <3>1
    <3>4. dirs' = dirs \/ dirs' = [dirs EXCEPT !["metadata"].active = "lan"]
      BY <1>2, <2>2
    <3>5. tasks' \in [Goroutines -> ConfigTasks] /\ TasksWellFormed'
      BY <3>2, <3>3, BecomesTypes
    <3> QED
      BY <3>4, <3>5 DEF Folders, ConfigTypes, ConfigTypeOK
  <2> QED
    BY <2>1, <2>2
<1> QED
  BY <1>4 DEF NextPart, ConfigTypes, ConfigTypeOK, bounded

\* A step of a part other than a folder's keeps the task well-formed.
LEMMA StepTypes ==
  ASSUME ConfigTypes, NEW g \in Goroutines,
         NEW step \in {"second", "back", "lost", "append", "copy", "restore", "remove"},
         Becomes(g, [tasks[g] EXCEPT !.step = step]), tasks[g].at # "none",
         tasks[g].at \in FolderParts => tasks[g].step # "begin"
  PROVE  tasks' \in [Goroutines -> ConfigTasks] /\ TasksWellFormed'
<1>1. PICK task : task = [tasks[g] EXCEPT !.step = step]
  OBVIOUS
<1>2. tasks[g] \in ConfigTasks /\ WellFormed(tasks[g])
  BY DEF ConfigTypes, ConfigTypeOK, TasksWellFormed
<1>3. task \in ConfigTasks /\ WellFormed(task)
  BY <1>1, <1>2 DEF ConfigTasks, WellFormed, FolderParts
<1> QED
  BY <1>1, <1>3, BecomesTypes

LEMMA UserCertPartTypes ==
  ASSUME ConfigTypes, NEW g \in Goroutines, UserCertPart(g)
  PROVE  ConfigTypes'
<1>1. PICK ok \in BOOLEAN : PartEnds(g, ok)
  BY DEF UserCertPart
<1>2. tasks[g].at \in ConfigParts
  BY DEF UserCertPart, At, Task, ConfigParts
<1>3. userCert' \in BOOLEAN
  BY DEF UserCertPart, SetsUp, ConfigTypes, ConfigTypeOK
<1> QED
  BY <1>1, <1>2, <1>3, PartEndsTypes DEF UserCertPart, ConfigTypes, ConfigTypeOK, bounded

LEMMA AdminPartTypes ==
  ASSUME ConfigTypes, NEW g \in Goroutines, AdminPart(g)
  PROVE  ConfigTypes'
<1>1. Becomes(g, NoTask) \/ Becomes(g, Undo)
  BY DEF AdminPart
<1>2. tasks' \in [Goroutines -> ConfigTasks] /\ TasksWellFormed'
  BY <1>1, UndoType, BecomesTypes
<1>3. adminPart' \in BOOLEAN /\ failed' \in BOOLEAN
  BY DEF AdminPart, SetsUp, ConfigTypes, ConfigTypeOK
<1> QED
  BY <1>2, <1>3 DEF AdminPart, ConfigTypes, ConfigTypeOK, bounded

FolderTypes ==
  [active : {"own", "lan", "none"}, bak : {"own", "lan", "none"}, lan : {"own", "lan", "none"}]

LEMMA DirectionType ==
  ASSUME NEW g
  PROVE  /\ Into(g) \in {"bak", "lan"} /\ From(g) \in {"bak", "lan"} /\ Into(g) # From(g)
BY DEF Into, From

LEMMA SwitchFirstTypes ==
  ASSUME ConfigTypes, NEW g \in Goroutines, NEW i \in Folders, SwitchFirst(g, i)
  PROVE  ConfigTypes'
<1> DEFINE t == tasks[g]
<1>1. t \in ConfigTasks /\ t.at \in FolderParts /\ WellFormed(t)
  BY DEF SwitchFirst, AtFolders, Task, FolderParts, ConfigTypes, ConfigTypeOK, TasksWellFormed
<1>2. t.cleaning => t.did # <<>>
  BY DEF SwitchFirst, Candidates, Task
<1>3. dirs \in [Folders -> FolderTypes]
  BY DEF ConfigTypes, ConfigTypeOK, FolderTypes
<1>4. dirs' \in [Folders -> FolderTypes]
  <2>1. \/ UNCHANGED dirs
        \/ dirs' = [dirs EXCEPT ![i][Into(g)] = "lan"]
        \/ dirs' = [dirs EXCEPT ![i][Into(g)] = dirs[i]["active"], ![i]["active"] = "none"]
    BY DEF SwitchFirst, Move
  <2> QED
    BY <1>3, <2>1, DirectionType DEF FolderTypes
<1>5. CASE FolderEnds(g, i, FALSE)
  <2> HIDE DEF t
  <2>1. /\ tasks' \in [Goroutines -> ConfigTasks] /\ TasksWellFormed'
        /\ done' \subseteq ConfigParts /\ failed' \in BOOLEAN /\ marred' \subseteq marred \cup Marks
    BY <1>1, <1>2, <1>5, FolderEndsTypes DEF t
  <2> QED
    BY <1>4, <2>1 DEF SwitchFirst, ConfigTypes, ConfigTypeOK, bounded, FolderTypes
<1>6. CASE /\ Becomes(g, [Task(g) EXCEPT !.step = "second", !.item = i])
           /\ UNCHANGED <<done, failed, marred>>
  <2>1. PICK task : task = [t EXCEPT !.step = "second", !.item = i]
    OBVIOUS
  <2>2. task \in ConfigTasks /\ WellFormed(task) /\ Becomes(g, task)
    BY <1>1, <1>2, <1>6, <2>1 DEF ConfigTasks, WellFormed, Task, FolderParts
  <2>3. tasks' \in [Goroutines -> ConfigTasks] /\ TasksWellFormed'
    BY <2>2, BecomesTypes
  <2> QED
    BY <1>4, <1>6, <2>3 DEF SwitchFirst, ConfigTypes, ConfigTypeOK, bounded, FolderTypes
<1> QED
  BY <1>5, <1>6 DEF SwitchFirst

LEMMA SwitchSecondTypes ==
  ASSUME ConfigTypes, NEW g \in Goroutines, SwitchSecond(g)
  PROVE  ConfigTypes'
<1> DEFINE i == tasks[g].item
           other == IF dirs[i][From(g)] = "none" THEN "lan" ELSE dirs[i][From(g)]
<1>1. /\ tasks[g] \in ConfigTasks /\ tasks[g].at \in FolderParts /\ tasks[g].step = "second"
      /\ i \in Folders /\ (tasks[g].cleaning => tasks[g].did # <<>>) /\ tasks[g].at # "none"
  BY DEF SwitchSecond, AtFolders, Task, FolderParts, ConfigTypes, ConfigTypeOK, TasksWellFormed,
    WellFormed
<1>3. dirs \in [Folders -> FolderTypes]
  BY DEF ConfigTypes, ConfigTypeOK, FolderTypes
<1>4. dirs' \in [Folders -> FolderTypes]
  <2>1. other \in {"own", "lan", "none"}
    BY <1>1, <1>3, DirectionType DEF FolderTypes
  <2>2. \/ dirs' = [dirs EXCEPT ![i].active = other, ![i][From(g)] = "none"]
        \/ dirs' = [dirs EXCEPT ![i][From(g)] = other]
    BY DEF SwitchSecond, Task
  <2> QED
    BY <1>1, <1>3, <2>1, <2>2, DirectionType DEF FolderTypes
<1>5. CASE FolderEnds(g, i, TRUE)
  <2>1. /\ tasks' \in [Goroutines -> ConfigTasks] /\ TasksWellFormed'
        /\ done' \subseteq ConfigParts /\ failed' \in BOOLEAN /\ marred' \subseteq marred \cup Marks
    BY <1>1, <1>5, FolderEndsTypes
  <2> QED
    BY <1>4, <2>1 DEF SwitchSecond, ConfigTypes, ConfigTypeOK, bounded, FolderTypes
<1>6. CASE /\ Becomes(g, [Task(g) EXCEPT !.step = "back"])
           /\ UNCHANGED <<done, failed, marred>>
  <2>1. tasks' \in [Goroutines -> ConfigTasks] /\ TasksWellFormed'
    BY <1>1, <1>6, StepTypes DEF Task
  <2> QED
    BY <1>4, <1>6, <2>1 DEF SwitchSecond, ConfigTypes, ConfigTypeOK, bounded, FolderTypes
<1> QED
  BY <1>5, <1>6 DEF SwitchSecond, Task

LEMMA SwitchBackTypes ==
  ASSUME ConfigTypes, NEW g \in Goroutines, SwitchBack(g)
  PROVE  ConfigTypes'
<1> DEFINE i == tasks[g].item
<1>1. /\ tasks[g] \in ConfigTasks /\ tasks[g].at \in FolderParts /\ tasks[g].step = "back"
      /\ i \in Folders /\ (tasks[g].cleaning => tasks[g].did # <<>>) /\ tasks[g].at # "none"
  BY DEF SwitchBack, AtFolders, Task, FolderParts, ConfigTypes, ConfigTypeOK, TasksWellFormed,
    WellFormed
<1>3. dirs \in [Folders -> FolderTypes]
  BY DEF ConfigTypes, ConfigTypeOK, FolderTypes
<1>5. CASE Move(i, Into(g), "active") /\ FolderEnds(g, i, FALSE)
  <2>1. /\ tasks' \in [Goroutines -> ConfigTasks] /\ TasksWellFormed'
        /\ done' \subseteq ConfigParts /\ failed' \in BOOLEAN /\ marred' \subseteq marred \cup Marks
    BY <1>1, <1>5, FolderEndsTypes
  <2>2. dirs' = [dirs EXCEPT ![i]["active"] = dirs[i][Into(g)], ![i][Into(g)] = "none"]
    BY <1>5 DEF Move
  <2>3. dirs' \in [Folders -> FolderTypes]
    BY <1>1, <1>3, <2>2, DirectionType DEF FolderTypes
  <2> QED
    BY <2>1, <2>3 DEF SwitchBack, ConfigTypes, ConfigTypeOK, bounded, FolderTypes
<1>6. CASE /\ Becomes(g, [Task(g) EXCEPT !.step = "lost"])
           /\ Mark("stuck") /\ UNCHANGED <<dirs, done, failed>>
  <2>1. tasks' \in [Goroutines -> ConfigTasks] /\ TasksWellFormed'
    BY <1>1, <1>6, StepTypes DEF Task
  <2> QED
    BY <1>6, <2>1 DEF SwitchBack, ConfigTypes, ConfigTypeOK, bounded, Mark, Marks
<1> QED
  BY <1>5, <1>6 DEF SwitchBack, Task

LEMMA FoldersEndTypes ==
  ASSUME ConfigTypes, NEW g \in Goroutines, SwitchLost(g) \/ FoldersEnd(g)
  PROVE  ConfigTypes'
<1>1. /\ tasks[g] \in ConfigTasks /\ tasks[g].at \in FolderParts /\ tasks[g].at \in ConfigParts
      /\ SwitchLost(g) => tasks[g].item \in Folders /\ (tasks[g].cleaning => tasks[g].did # <<>>)
  BY DEF SwitchLost, FoldersEnd, AtFolders, Task, FolderParts, ConfigTypes, ConfigTypeOK,
    TasksWellFormed, WellFormed, ConfigParts
<1>2. /\ tasks' \in [Goroutines -> ConfigTasks] /\ TasksWellFormed'
      /\ done' \subseteq ConfigParts /\ failed' \in BOOLEAN /\ marred' \subseteq marred \cup Marks
  <2>1. CASE SwitchLost(g)
    BY <1>1, <2>1, FolderEndsTypes DEF SwitchLost, Task
  <2>2. CASE FoldersEnd(g)
    <3>1. PICK ok \in BOOLEAN : PartEnds(g, ok)
      BY <2>2 DEF FoldersEnd, Task
    <3> QED
      BY <1>1, <3>1, PartEndsTypes
  <2> QED
    BY <2>1, <2>2
<1> QED
  BY <1>2 DEF SwitchLost, FoldersEnd, ConfigTypes, ConfigTypeOK, bounded, folderVars

StoreTypes == {"own", "lan", "part", "none"}

\* What any step on the game's certificate store does to the task.
StoreActs(g) ==
  \/ \E ok \in BOOLEAN : PartEnds(g, ok)
  \/ \E step \in {"append", "copy", "restore", "remove"} : StoreStep(g, step)
  \/ /\ Becomes(g, Undo) /\ failed' = TRUE
     /\ done' = done \cup {"gameCert"} /\ UNCHANGED marred

LEMMA StoreTaskTypes ==
  ASSUME ConfigTypes, NEW g \in Goroutines, StoreActs(g), tasks[g].at = "gameCert"
  PROVE  /\ tasks' \in [Goroutines -> ConfigTasks] /\ TasksWellFormed'
         /\ done' \subseteq ConfigParts /\ failed' \in BOOLEAN
         /\ marred' \subseteq marred \cup Marks
<1>1. CASE \E ok \in BOOLEAN : PartEnds(g, ok)
  BY <1>1, PartEndsTypes DEF ConfigParts
<1>2. CASE \E step \in {"append", "copy", "restore", "remove"} : StoreStep(g, step)
  <2>1. PICK step \in {"append", "copy", "restore", "remove"} : StoreStep(g, step)
    BY <1>2
  <2>2. tasks[g].at \notin FolderParts /\ tasks[g].at # "none"
    BY DEF FolderParts
  <2>3. tasks' \in [Goroutines -> ConfigTasks] /\ TasksWellFormed'
    BY <2>1, <2>2, StepTypes DEF StoreStep, Task
  <2> QED
    BY <2>1, <2>3 DEF StoreStep, ConfigTypes, ConfigTypeOK
<1>3. CASE Becomes(g, Undo) /\ failed' = TRUE /\ done' = done \cup {"gameCert"} /\ UNCHANGED marred
  BY <1>3, UndoType, BecomesTypes DEF ConfigTypes, ConfigTypeOK, ConfigParts
<1> QED
  BY <1>1, <1>2, <1>3 DEF StoreActs

StoreAction(g) ==
  StoreBegin(g) \/ StoreCopy(g) \/ StoreAppend(g) \/ StoreRestore(g) \/ StoreRemove(g)

LEMMA StoreActionActs ==
  ASSUME NEW g \in Goroutines, StoreAction(g)
  PROVE  /\ StoreActs(g) /\ tasks[g].at = "gameCert" /\ Running
         /\ UNCHANGED <<dirs, userCert, adminPart, flags, command, commands>>
<1>1. CASE StoreBegin(g)
  BY <1>1 DEF StoreBegin, StoreActs, AtStore, At, Task, bounded
<1>2. CASE StoreCopy(g)
  BY <1>2 DEF StoreCopy, StoreActs, AtStore, At, Task, bounded
<1>3. CASE StoreAppend(g)
  BY <1>3 DEF StoreAppend, StoreActs, AtStore, At, Task, bounded
<1>4. CASE StoreRestore(g)
  BY <1>4 DEF StoreRestore, StoreActs, AtStore, At, Task, bounded
<1>5. CASE StoreRemove(g)
  BY <1>5 DEF StoreRemove, StoreActs, AtStore, At, Task, bounded
<1> QED
  BY <1>1, <1>2, <1>3, <1>4, <1>5 DEF StoreAction

LEMMA StoreActionTypes ==
  ASSUME ConfigTypes, NEW g \in Goroutines, StoreAction(g)
  PROVE  ConfigTypes'
<1>1. caStore \in [file : StoreTypes, bak : StoreTypes, tmp : StoreTypes]
  BY DEF ConfigTypes, ConfigTypeOK, StoreTypes
<1>2. caStore' \in [file : StoreTypes, bak : StoreTypes, tmp : StoreTypes]
  <2>1. CASE StoreBegin(g)
    BY <1>1, <2>1 DEF StoreBegin, StoreTypes
  <2>2. CASE StoreCopy(g)
    BY <1>1, <2>2 DEF StoreCopy, StoreTypes
  <2>3. CASE StoreAppend(g)
    BY <1>1, <2>3 DEF StoreAppend, StoreTypes
  <2>4. CASE StoreRestore(g)
    BY <1>1, <2>4 DEF StoreRestore, StoreTypes
  <2>5. CASE StoreRemove(g)
    <3>1. CASE caStore' = [caStore EXCEPT !.tmp = "none"]
      BY <1>1, <3>1 DEF StoreTypes
    <3>2. CASE caStore' = [file |-> caStore.tmp, bak |-> caStore.file, tmp |-> "none"]
      BY <1>1, <3>2 DEF StoreTypes
    <3> QED
      BY <2>5, <3>1, <3>2 DEF StoreRemove
  <2> QED
    BY <2>1, <2>2, <2>3, <2>4, <2>5 DEF StoreAction
<1> QED
  BY <1>2, StoreActionActs, StoreTaskTypes DEF ConfigTypes, ConfigTypeOK, StoreTypes

LEMMA ConfigNextTypes == ConfigTypes /\ [ConfigNext]_configVars => ConfigTypes'
<1> SUFFICES ASSUME ConfigTypes, [ConfigNext]_configVars PROVE ConfigTypes'
  OBVIOUS
<1>0. ConfigTypeOK
  BY DEF ConfigTypes
<1>1. CASE \E g \in Goroutines : GoroutineStep(g)
  <2>1. PICK g \in Goroutines : GoroutineStep(g)
    BY <1>1
  <2> QED
    BY <2>1, NextPartTypes, UserCertPartTypes, AdminPartTypes, SwitchFirstTypes, SwitchSecondTypes,
       SwitchBackTypes, FoldersEndTypes, StoreActionTypes DEF GoroutineStep, StoreAction
<1>2. ASSUME NEW kind \in {"setup", "revert"}, NEW parts \in SUBSET ConfigParts, Begins(kind, parts)
      PROVE  ConfigTypes'
  <2>1. PICK task : task = [NoTask EXCEPT !.todo = parts]
    OBVIOUS
  <2>2. task \in ConfigTasks /\ WellFormed(task)
    BY <2>1, UndoType DEF ConfigTasks, WellFormed
  <2>3. tasks' = [g \in Goroutines |-> IF g = "main" THEN task ELSE NoTask]
    BY <1>2, <2>1 DEF Begins
  <2>4. tasks' \in [Goroutines -> ConfigTasks] /\ TasksWellFormed'
    BY <2>2, <2>3, UndoType DEF TasksWellFormed
  <2> QED
    BY <1>0, <1>2, <2>4 DEF Begins, ConfigTypes, ConfigTypeOK, folderVars
<1>3. CASE (\E group \in ConfigGroups : SetUp(group)) \/ Revert
  BY <1>0, <1>2, <1>3, ConfigAssumption DEF SetUp, Revert, ConfigTypeOK
<1>4. CASE CommandEnds \/ StopConfig
  <2>1. tasks' = [g \in Goroutines |-> NoTask] /\ command' = NoCommand
    BY <1>4 DEF CommandEnds, StopConfig
  <2>2. tasks' \in [Goroutines -> ConfigTasks] /\ TasksWellFormed'
    BY <2>1, UndoType DEF TasksWellFormed
  <2>3. command' \in [kind : {"none", "setup", "revert"}, parts : SUBSET ConfigParts]
    BY <2>1 DEF NoCommand
  <2> QED
    BY <1>0, <1>4, <2>2, <2>3
    DEF CommandEnds, StopConfig, ConfigTypes, ConfigTypeOK, folderVars, Mark, Marks
<1>5. CASE Signal
  <2>1. tasks' \in [Goroutines -> ConfigTasks] /\ TasksWellFormed'
    BY <1>5, UndoType, BecomesTypes DEF Signal, Goroutines
  <2> QED
    BY <1>0, <1>5, <2>1 DEF Signal, ConfigTypes, ConfigTypeOK, folderVars, bounded, Mark, Marks
<1>6. ASSUME NEW i \in Folders, Play(i) PROVE ConfigTypes'
  <2>1. dirs' = [dirs EXCEPT ![i].active = "lan"] \/ dirs' = [dirs EXCEPT ![i].active = "own"]
    BY <1>6 DEF Play
  <2>2. dirs' \in [Folders -> [active : {"own", "lan", "none"}, bak : {"own", "lan", "none"},
                               lan : {"own", "lan", "none"}]]
    BY <1>0, <2>1 DEF ConfigTypeOK
  <2> QED
    BY <1>0, <1>6, <2>2 DEF Play, ConfigTypes, ConfigTypeOK, TasksWellFormed, bounded
<1>7. CASE UNCHANGED configVars
  BY <1>0, <1>7 DEF configVars, folderVars, ConfigTypes, ConfigTypeOK, TasksWellFormed
<1> QED
  BY <1>1, <1>3, <1>4, <1>5, <1>6, <1>7 DEF ConfigNext

\* The parts of launcher-config keep their types (runSetUp, runRevert).
THEOREM ConfigTypeCorrect == ConfigSpec => []ConfigTypeOK
<1>1. ConfigTypes => ConfigTypeOK
  BY DEF ConfigTypes
<1> QED
  BY <1>1, ConfigInitTypes, ConfigNextTypes, PTL DEF ConfigSpec

-----------------------------------------------------------------------------
\* As long as nothing has befallen a command: what is done, what is left and what is in hand.

MainTask == tasks["main"]

\* The folders that the part at work has exchanged so far.
Exchanged == {MainTask.did[n] : n \in 1 .. Len(MainTask.did)}

\* A command changes parts that are not set up, or reverts all that are.
CommandsAgree ==
  /\ tasks["handler"] = NoTask
  /\ ~Running => MainTask = NoTask /\ done = {} /\ ~failed
  /\ done \subseteq command.parts
  /\ command.kind = "setup" =>
       /\ command.parts \cap flags = {}
       /\ "admin" \in command.parts => command.parts \cap FolderParts = {}
  /\ command.kind = "revert" => command.parts = flags

\* What is done and what is left to do make up the command; only what is done is undone.
TasksAgree ==
  /\ MainTask.at # "none" => IsNext(MainTask, MainTask.at)
  /\ MainTask.undo =>
       /\ failed /\ MainTask.todo \subseteq Undone
       /\ MainTask.at # "none" => MainTask.at \in done
  /\ ~MainTask.undo =>
       /\ MainTask.todo \subseteq command.parts \ done
       /\ failed => MainTask.todo = {} /\ command.kind = "setup" /\ "admin" \in command.parts
       /\ ~failed => command.parts \subseteq (done \cup MainTask.todo) \cup {"admin"}

\* The folders of the part at work: those left, those exchanged, and the one in hand.
FoldersAgree ==
  MainTask.at \in FolderParts =>
    /\ MainTask.step \in {"begin", "second", "back"}
    /\ \A i \in MainTask.left : PartOf(i) = MainTask.at
    /\ \A n \in 1 .. Len(MainTask.did) :
         /\ PartOf(MainTask.did[n]) = MainTask.at /\ MainTask.did[n] \notin MainTask.left
         /\ \A m \in 1 .. Len(MainTask.did) : MainTask.did[m] = MainTask.did[n] => m = n
    /\ MainTask.step # "begin" => MainTask.item \in Candidates("main")

\* A part is set up when its flag is kept, unless the command has changed that.
Changed(p) == p \in done /\ (MainTask.undo => p \in MainTask.todo)
Status(p) == IF Changed(p) THEN command.kind = "setup" ELSE p \in flags

\* A folder that is not there, one of the LAN's, the user's in its place, the user's put away.
Fresh(f) == f.active = "none" /\ f.bak = "none" /\ f.lan = "none"
Foreign(f) == f.active = "lan" /\ f.bak # "own" /\ f.lan # "own"
Home(f) == f.active = "own" /\ f.bak = "none" /\ f.lan # "own"
Away(f) == f.active = "lan" /\ f.bak = "own" /\ f.lan = "none"

Settled(f, set) == Fresh(f) \/ Foreign(f) \/ (IF set THEN Away(f) ELSE Home(f))

\* Between two renamings, of a backup or of a return.
Halfway(f, backsUp) ==
  f.active = "none" /\ IF backsUp THEN f.bak # "none" /\ f.lan # "own" ELSE f.lan = "lan"

InHand(i) == MainTask.step # "begin" /\ MainTask.item = i

WorkedOn(i) ==
  /\ i \in Exchanged => Settled(dirs[i], SetsUp("main"))
  /\ i \notin Exchanged => Settled(dirs[i], ~SetsUp("main"))
  /\ i \in MainTask.left \cup Exchanged => dirs[i].active # "none"
  /\ i \notin MainTask.left \cup Exchanged /\ ~MainTask.cleaning => Fresh(dirs[i])

FolderHolds(i) ==
  IF MainTask.at # PartOf(i) THEN Settled(dirs[i], Status(PartOf(i)))
  ELSE IF InHand(i) THEN Halfway(dirs[i], BacksUp("main"))
  ELSE WorkedOn(i)

ConfigCore ==
  CommandsAgree /\ TasksAgree /\ FoldersAgree /\ \A i \in Folders : FolderHolds(i)

ConfigIInv == ConfigTypes /\ (marred = {} => ConfigCore)

LEMMA PartsOfFolders ==
  ASSUME NEW i PROVE PartOf(i) \in FolderParts /\ PartOf(i) \in ConfigParts /\ PartOf(i) # "none"
BY DEF PartOf, FolderParts, ConfigParts

LEMMA MainType ==
  ASSUME ConfigTypes
  PROVE  /\ MainTask \in ConfigTasks /\ WellFormed(MainTask) /\ Task("main") = MainTask
         /\ "main" \in Goroutines
         /\ SetsUp("main") <=> (command.kind = "setup" <=> ~MainTask.undo)
         /\ MainTask.undo \in BOOLEAN
<1>1. "main" \in Goroutines
  BY DEF Goroutines
<1>2. MainTask \in ConfigTasks /\ WellFormed(MainTask) /\ Task("main") = MainTask
  BY <1>1 DEF ConfigTypes, ConfigTypeOK, TasksWellFormed, MainTask, Task
<1>3. MainTask.undo \in BOOLEAN
  BY <1>2 DEF ConfigTasks
<1> QED
  BY <1>1, <1>2, <1>3 DEF SetsUp

LEMMA ConfigInitInv == ConfigInit => ConfigIInv
<1> SUFFICES ASSUME ConfigInit PROVE ConfigIInv
  OBVIOUS
<1>1. ConfigTypes
  BY ConfigInitTypes
<1>2. MainTask = NoTask /\ tasks["handler"] = NoTask
  BY DEF ConfigInit, MainTask, Goroutines
<1>3. CommandsAgree /\ TasksAgree /\ FoldersAgree
  BY <1>2 DEF ConfigInit, CommandsAgree, TasksAgree, FoldersAgree, NoTask, NoCommand, Running,
    FolderParts
<1>4. ASSUME NEW i \in Folders PROVE FolderHolds(i)
  <2>1. dirs[i] \in {[active |-> a, bak |-> "none", lan |-> "none"] : a \in {"own", "none"}}
    BY DEF ConfigInit
  <2>2. Settled(dirs[i], FALSE)
    BY <2>1 DEF Settled, Fresh, Home
  <2>3. Status(PartOf(i)) <=> FALSE
    BY DEF ConfigInit, Status, Changed
  <2>4. MainTask.at = "none"
    BY <1>2 DEF NoTask
  <2> QED
    BY <2>2, <2>3, <2>4, PartsOfFolders DEF FolderHolds, Settled
<1> QED
  BY <1>1, <1>3, <1>4 DEF ConfigIInv, ConfigCore

\* Part by part, a task that fails becomes the undo of what is done.
LEMMA UndoBegins ==
  ASSUME ConfigTypes, ConfigCore, Running, ~MainTask.undo, MainTask.at \in ConfigParts,
         Becomes("main", Undo), failed' = TRUE, UNCHANGED <<command, flags>>,
         \/ done' = done
         \/ done' = done \cup {"gameCert"} /\ MainTask.at = "gameCert",
         \A i \in Folders : PartOf(i) # MainTask.at => dirs'[i] = dirs[i],
         \A i \in Folders : PartOf(i) = MainTask.at => Settled(dirs'[i], ~SetsUp("main"))
  PROVE  ConfigCore'
<1>1. /\ MainTask' = Undo /\ tasks'["handler"] = tasks["handler"]
      /\ "main" \in Goroutines /\ "handler" \in Goroutines
  BY DEF Becomes, MainTask, Goroutines, ConfigTypes, ConfigTypeOK
<1>2. Undo.undo /\ Undo.todo = Undone /\ Undo.at = "none" /\ ~(Undo.at # "none")
  <2>1. PICK d : d = Undo
    OBVIOUS
  <2>2. d = [NoTask EXCEPT !.todo = Undone, !.undo = TRUE]
    BY <2>1 DEF Undo
  <2>3. d.undo /\ d.todo = Undone /\ d.at = "none"
    BY <2>2 DEF NoTask
  <2> QED
    BY <2>1, <2>3
<1>3. "none" \notin ConfigParts /\ MainTask.at # "none" /\ MainTask.at \in MainTask.todo
  BY DEF ConfigCore, TasksAgree, ConfigParts, IsNext
<1>4. MainTask.at \in command.parts \ done
  BY <1>3 DEF ConfigCore, TasksAgree
<1>5. CommandsAgree'
  <2>1. done' \subseteq command.parts
    BY <1>4 DEF ConfigCore, CommandsAgree
  <2> QED
    BY <1>1, <2>1 DEF ConfigCore, CommandsAgree, Running
<1>6. TasksAgree' /\ FoldersAgree'
  BY <1>1, <1>2 DEF TasksAgree, FoldersAgree, FolderParts
<1>7. ASSUME NEW i \in Folders PROVE FolderHolds(i)'
  <2>1. PartOf(i) \in Undone /\ PartOf(i) # "gameCert" /\ PartOf(i) # "none"
    BY DEF PartOf, Undone, ConfigParts
  <2>2. Changed(PartOf(i))' <=> Changed(PartOf(i))
    BY <1>1, <1>2, <2>1 DEF Changed
  <2>3. Status(PartOf(i))' <=> Status(PartOf(i))
    BY <2>2 DEF Status
  <2>4. CASE PartOf(i) # MainTask.at
    <3>1. Settled(dirs'[i], Status(PartOf(i)))
      BY <2>4 DEF ConfigCore, FolderHolds
    <3>2. Settled(dirs'[i], Status(PartOf(i))')
      BY <2>3, <3>1 DEF Settled
    <3> QED
      BY <1>1, <1>2, <2>1, <3>2 DEF FolderHolds, Settled, Fresh, Foreign, Home, Away, PartOf
  <2>5. CASE PartOf(i) = MainTask.at
    <3>1. Status(PartOf(i)) <=> ~SetsUp("main")
      <4>1. PartOf(i) \notin done /\ PartOf(i) \in command.parts
        BY <1>4, <2>5
      <4>2. command.kind \in {"setup", "revert"}
        BY DEF Running, ConfigTypes, ConfigTypeOK
      <4>3. PartOf(i) \in flags <=> command.kind # "setup"
        BY <4>1, <4>2 DEF ConfigCore, CommandsAgree
      <4> QED
        BY <4>1, <4>3, MainType DEF Status, Changed
    <3>2. Settled(dirs'[i], Status(PartOf(i))')
      BY <2>3, <2>5, <3>1 DEF Settled
    <3> QED
      BY <1>1, <1>2, <2>1, <3>2 DEF FolderHolds, Settled, Fresh, Foreign, Home, Away, PartOf
  <2> QED
    BY <2>4, <2>5
<1> QED
  BY <1>5, <1>6, <1>7 DEF ConfigCore

\* A part that is over leaves its folders as it found them, or changes them all.
LEMMA PartOver ==
  ASSUME ConfigTypes, ConfigCore, Running, MainTask.at \in Undone,
         NEW ok \in BOOLEAN, PartEnds("main", ok), UNCHANGED <<command, flags>>, marred' = {},
         \A i \in Folders : PartOf(i) # MainTask.at => dirs'[i] = dirs[i],
         \A i \in Folders : ok /\ PartOf(i) = MainTask.at => Settled(dirs'[i], SetsUp("main")),
         \A i \in Folders : ~ok /\ PartOf(i) = MainTask.at => Settled(dirs'[i], ~SetsUp("main"))
  PROVE  ConfigCore'
<1>1. /\ tasks'["handler"] = tasks["handler"]
      /\ "main" \in Goroutines /\ "handler" \in Goroutines
  BY DEF PartEnds, Becomes, Goroutines, ConfigTypes, ConfigTypeOK
<1>2. MainTask.at \in ConfigParts /\ "none" \notin ConfigParts
  BY DEF Undone, ConfigParts
<1>3. CASE ~MainTask.undo /\ ~ok
  <2>1. Becomes("main", Undo) /\ failed' = TRUE /\ done' = done
    BY <1>3 DEF PartEnds, MainTask, Task
  <2> QED
    BY <1>2, <1>3, <2>1, UndoBegins
<1>4. CASE MainTask.undo /\ ~ok
  <2>1. "stuck" \in marred'
    BY <1>4 DEF PartEnds, MainTask, Task, Mark
  <2> QED
    BY <2>1
<1>5. CASE ok
  <2>0. PICK d : d = [NoTask EXCEPT !.todo = MainTask.todo \ {MainTask.at}, !.undo = MainTask.undo]
    OBVIOUS
  <2>1. Becomes("main", d) /\ UNCHANGED failed
        /\ done' = IF MainTask.undo THEN done ELSE done \cup {MainTask.at}
    BY <1>5, <2>0 DEF PartEnds, MainTask, Task
  <2>2. MainTask' = d
    BY <1>1, <2>1 DEF Becomes, MainTask, ConfigTypes, ConfigTypeOK
  <2>3. d.todo = MainTask.todo \ {MainTask.at} /\ d.undo = MainTask.undo /\ d.at = "none"
    BY <2>0 DEF NoTask
  <2>4. MainTask.undo \in BOOLEAN /\ MainTask.at # "none" /\ MainTask.at \in MainTask.todo
    BY <1>2, MainType DEF ConfigCore, TasksAgree, IsNext
  <2>5. CommandsAgree'
    <3>1. done' \subseteq command.parts
      BY <2>1, <2>4 DEF ConfigCore, CommandsAgree, TasksAgree
    <3> QED
      BY <1>1, <3>1 DEF ConfigCore, CommandsAgree, Running
  <2>6. TasksAgree' /\ FoldersAgree'
    BY <2>1, <2>2, <2>3, <2>4 DEF ConfigCore, TasksAgree, FoldersAgree, FolderParts
  <2>7. ASSUME NEW i \in Folders PROVE FolderHolds(i)'
    <3>1. PartOf(i) # "none"
      BY PartsOfFolders
    <3>2. CASE PartOf(i) # MainTask.at
      <4>1. Settled(dirs'[i], Status(PartOf(i)))
        BY <3>2 DEF ConfigCore, FolderHolds
      <4>2. Status(PartOf(i))' <=> Status(PartOf(i))
        BY <2>1, <2>2, <2>3, <2>4, <3>2 DEF Status, Changed
      <4>3. Settled(dirs'[i], Status(PartOf(i))')
        BY <4>1, <4>2 DEF Settled
      <4> QED
        BY <2>2, <2>3, <3>1, <4>3 DEF FolderHolds, Settled, Fresh, Foreign, Home, Away, PartOf
    <3>3. CASE PartOf(i) = MainTask.at
      <4>1. command.kind \in {"setup", "revert"}
        BY DEF Running, ConfigTypes, ConfigTypeOK
      <4>2. Status(PartOf(i))' <=> SetsUp("main")
        <5>1. CASE MainTask.undo
          <6>1. PartOf(i) \in done /\ PartOf(i) \in command.parts
            BY <2>4, <3>3, <5>1 DEF ConfigCore, TasksAgree, CommandsAgree
          <6>2. PartOf(i) \in flags <=> command.kind # "setup"
            BY <4>1, <6>1 DEF ConfigCore, CommandsAgree
          <6>3. ~Changed(PartOf(i))'
            BY <2>2, <2>3, <3>3, <5>1 DEF Changed
          <6> QED
            BY <5>1, <6>2, <6>3, MainType DEF Status
        <5>2. CASE ~MainTask.undo
          <6>1. Changed(PartOf(i))'
            BY <2>1, <2>2, <2>3, <3>3, <5>2 DEF Changed
          <6> QED
            BY <5>2, <6>1, MainType DEF Status
        <5> QED
          BY <5>1, <5>2
      <4>3. Settled(dirs'[i], Status(PartOf(i))')
        BY <1>5, <3>3, <4>2 DEF Settled
      <4> QED
        BY <2>2, <2>3, <3>1, <4>3 DEF FolderHolds, Settled, Fresh, Foreign, Home, Away, PartOf
    <3> QED
      BY <3>2, <3>3
  <2> QED
    BY <2>5, <2>6, <2>7 DEF ConfigCore
<1> QED
  BY <1>3, <1>4, <1>5, MainType

\* A part that concerns no folder takes a step or is over.
LEMMA NoFolder ==
  ASSUME ConfigTypes, ConfigCore, MainTask.at \notin FolderParts, dirs' = dirs
  PROVE  /\ \A i \in Folders : dirs'[i] = dirs[i]
         /\ \A i \in Folders : PartOf(i) # MainTask.at
BY PartsOfFolders

LEMMA UserCertPartInv ==
  ASSUME ConfigTypes, ConfigCore, UserCertPart("main"), marred' = {}
  PROVE  ConfigCore'
<1>1. PICK ok \in BOOLEAN : PartEnds("main", ok)
  BY DEF UserCertPart
<1>2. /\ MainTask.at = "userCert" /\ Running
      /\ MainTask.at \in Undone /\ MainTask.at \notin FolderParts
  BY MainType DEF UserCertPart, At, Undone, ConfigParts, FolderParts
<1> QED
  BY <1>1, <1>2, NoFolder, PartOver DEF UserCertPart, bounded

\* Another step of the part at work, or none.
LEMMA SameTask ==
  ASSUME ConfigTypes, ConfigCore, Running, NEW step,
         Becomes("main", [MainTask EXCEPT !.step = step]), MainTask.at \notin FolderParts,
         UNCHANGED <<done, failed, command, flags, dirs>>
  PROVE  ConfigCore'
<1>1. PICK d : d = [MainTask EXCEPT !.step = step]
  OBVIOUS
<1>2. d.at = MainTask.at /\ d.todo = MainTask.todo /\ d.undo = MainTask.undo
  BY <1>1, MainType DEF ConfigTasks
<1>3. MainTask' = d /\ tasks'["handler"] = tasks["handler"]
  BY <1>1 DEF Becomes, MainTask, Goroutines, ConfigTypes, ConfigTypeOK
<1>4. CommandsAgree'
  BY <1>3 DEF ConfigCore, CommandsAgree, Running
<1>5. TasksAgree' /\ FoldersAgree'
  BY <1>2, <1>3 DEF ConfigCore, TasksAgree, FoldersAgree, IsNext, Place
<1>6. ASSUME NEW i \in Folders PROVE FolderHolds(i)'
  <2>1. PartOf(i) # MainTask.at
    BY PartsOfFolders
  <2>2. Status(PartOf(i))' <=> Status(PartOf(i))
    BY <1>2, <1>3 DEF Status, Changed
  <2>3. Settled(dirs'[i], Status(PartOf(i))')
    BY <2>1, <2>2 DEF ConfigCore, FolderHolds, Settled
  <2> QED
    BY <1>2, <1>3, <2>1, <2>3 DEF FolderHolds, Settled, Fresh, Foreign, Home, Away, PartOf
<1> QED
  BY <1>4, <1>5, <1>6 DEF ConfigCore
LEMMA StoreActionInv ==
  ASSUME ConfigTypes, ConfigCore, StoreAction("main"), marred' = {}
  PROVE  ConfigCore'
<1>1. /\ StoreActs("main") /\ MainTask.at = "gameCert" /\ Running
      /\ UNCHANGED <<dirs, command, flags>>
  BY MainType, StoreActionActs DEF MainTask
<1>2. MainTask.at \in Undone /\ MainTask.at \in ConfigParts /\ MainTask.at \notin FolderParts
  BY <1>1 DEF Undone, ConfigParts, FolderParts
<1>3. CASE \E ok \in BOOLEAN : PartEnds("main", ok)
  BY <1>1, <1>2, <1>3, NoFolder, PartOver
<1>4. CASE \E step \in {"append", "copy", "restore", "remove"} : StoreStep("main", step)
  <2>1. PICK step : StoreStep("main", step)
    BY <1>4
  <2>2. Becomes("main", [MainTask EXCEPT !.step = step]) /\ UNCHANGED <<done, failed>>
    BY <2>1, MainType DEF StoreStep
  <2> QED
    BY <1>1, <1>2, <2>2, SameTask
<1>5. CASE ~(\E ok \in BOOLEAN : PartEnds("main", ok))
           /\ ~(\E step \in {"append", "copy", "restore", "remove"} : StoreStep("main", step))
  <2>1. /\ StoreAppend("main") /\ ~MainTask.undo
        /\ Becomes("main", Undo) /\ done' = done \cup {"gameCert"} /\ failed' = TRUE
    <3>1. CASE StoreBegin("main")
      BY <1>5, <3>1 DEF StoreBegin
    <3>2. CASE StoreCopy("main")
      BY <1>5, <3>2 DEF StoreCopy
    <3>3. CASE StoreAppend("main")
      BY <1>5, <3>3, MainType DEF StoreAppend
    <3>4. CASE StoreRestore("main")
      BY <1>5, <3>4 DEF StoreRestore
    <3>5. CASE StoreRemove("main")
      BY <1>5, <3>5 DEF StoreRemove
    <3> QED
      BY <3>1, <3>2, <3>3, <3>4, <3>5 DEF StoreAction
  <2>2. \A i \in Folders : dirs'[i] = dirs[i] /\ PartOf(i) # MainTask.at
    BY <1>1, <1>2, NoFolder
  <2> QED
    BY <1>1, <1>2, <2>1, <2>2, UndoBegins
<1> QED
  BY <1>3, <1>4, <1>5

LEMMA AdminPartInv ==
  ASSUME ConfigTypes, ConfigCore, AdminPart("main")
  PROVE  ConfigCore'
<1>1. MainTask.at = "admin" /\ Running /\ UNCHANGED <<dirs, command, flags, done>>
  BY MainType DEF AdminPart, At, bounded
<1>2. MainTask.at \in ConfigParts /\ MainTask.at \notin FolderParts /\ MainTask.at \notin Undone
  BY <1>1 DEF ConfigParts, FolderParts, Undone
<1>3. ~MainTask.undo /\ "admin" \in MainTask.todo /\ "admin" \in command.parts \ done /\ ~failed
  BY <1>1, <1>2, MainType DEF ConfigCore, TasksAgree, IsNext
<1>4. MainTask.todo = {"admin"}
  <2>1. \A other \in MainTask.todo : 5 <= Place(other, MainTask.undo)
    BY <1>1 DEF ConfigCore, TasksAgree, IsNext, Place
  <2>2. MainTask.todo \subseteq ConfigParts
    BY MainType DEF ConfigTasks
  <2> QED
    BY <1>3, <2>1, <2>2 DEF Place, ConfigParts
<1>5. \A i \in Folders : dirs'[i] = dirs[i] /\ PartOf(i) # MainTask.at
  BY <1>1, <1>2, NoFolder
<1>6. CASE Becomes("main", Undo) /\ failed' = TRUE
  BY <1>1, <1>2, <1>3, <1>5, <1>6, UndoBegins
<1>7. CASE /\ Becomes("main", NoTask)
           /\ failed' = FALSE \/ (failed' = TRUE /\ command.kind # "revert")
  <2>1. MainTask' = NoTask /\ tasks'["handler"] = tasks["handler"]
    BY <1>7 DEF Becomes, MainTask, Goroutines, ConfigTypes, ConfigTypeOK
  <2>2. NoTask.at = "none" /\ NoTask.todo = {} /\ ~NoTask.undo
    BY DEF NoTask
  <2>3. command.kind \in {"setup", "revert"}
    BY <1>1 DEF Running, ConfigTypes, ConfigTypeOK
  <2>4. CommandsAgree'
    BY <1>1, <2>1 DEF ConfigCore, CommandsAgree, Running
  <2>5. TasksAgree' /\ FoldersAgree'
    BY <1>1, <1>3, <1>4, <1>7, <2>1, <2>2, <2>3
    DEF ConfigCore, TasksAgree, FoldersAgree, FolderParts
  <2>6. ASSUME NEW i \in Folders PROVE FolderHolds(i)'
    <3>1. Status(PartOf(i))' <=> Status(PartOf(i))
      BY <1>1, <1>3, <2>1, <2>2 DEF Status, Changed
    <3>2. Settled(dirs'[i], Status(PartOf(i))')
      BY <1>5, <3>1 DEF ConfigCore, FolderHolds, Settled
    <3> QED
      BY <2>1, <2>2, <3>2, PartsOfFolders
      DEF FolderHolds, Settled, Fresh, Foreign, Home, Away, PartOf
  <2> QED
    BY <2>4, <2>5, <2>6 DEF ConfigCore
<1> QED
  BY <1>6, <1>7, MainType DEF AdminPart

\* The part that comes next finds its folders as they have been, and all that are there are left.
LEMMA NextPartInv ==
  ASSUME ConfigTypes, ConfigCore, NextPart("main")
  PROVE  ConfigCore'
<1> DEFINE t == MainTask
           leftOf(part) == CASE part = "metadata" -> {part}
                             [] part = "profiles" -> {p \in Profiles : dirs[p].active # "none"}
                             [] OTHER -> {}
<1>1. PICK part \in ConfigParts :
        /\ IsNext(t, part)
        /\ IF t.undo /\ part \notin done
           THEN Becomes("main", [t EXCEPT !.todo = @ \ {part}]) /\ UNCHANGED dirs
           ELSE /\ Becomes("main", [t EXCEPT !.at = part, !.left = leftOf(part)])
                /\ dirs' = IF part = "metadata" /\ dirs[part].active = "none"
                           THEN [dirs EXCEPT ![part].active = "lan"] ELSE dirs
  BY MainType DEF NextPart
<1>2. t.at = "none" /\ Running /\ UNCHANGED <<flags, command, done, failed>>
  BY MainType DEF NextPart, bounded
<1>3. /\ t.step = "begin" /\ t.left = {} /\ t.did = <<>> /\ ~t.cleaning
      /\ t.undo \in BOOLEAN /\ t \in ConfigTasks
  BY <1>2, MainType DEF WellFormed
<1>4. part \in t.todo
  BY <1>1 DEF IsNext
<1>5. ASSUME NEW i \in Folders PROVE Settled(dirs[i], Status(PartOf(i)))
  BY <1>2, PartsOfFolders DEF ConfigCore, FolderHolds
<1>6. CASE t.undo /\ part \notin done
  <2>1. PICK d : d = [t EXCEPT !.todo = @ \ {part}]
    OBVIOUS
  <2>2. d.at = "none" /\ d.todo = t.todo \ {part} /\ d.undo = t.undo
    BY <1>2, <1>3, <2>1 DEF ConfigTasks
  <2>3. MainTask' = d /\ tasks'["handler"] = tasks["handler"] /\ dirs' = dirs
    BY <1>1, <1>6, <2>1 DEF Becomes, MainTask, Goroutines, ConfigTypes, ConfigTypeOK
  <2>4. CommandsAgree' /\ TasksAgree' /\ FoldersAgree'
    BY <1>2, <1>6, <2>2, <2>3
    DEF ConfigCore, CommandsAgree, TasksAgree, FoldersAgree, Running, FolderParts
  <2>5. ASSUME NEW i \in Folders PROVE FolderHolds(i)'
    <3>1. Status(PartOf(i))' <=> Status(PartOf(i))
      BY <1>2, <1>6, <2>2, <2>3 DEF Status, Changed
    <3>2. Settled(dirs'[i], Status(PartOf(i))')
      BY <1>5, <2>3, <3>1 DEF Settled
    <3> QED
      BY <2>2, <2>3, <3>2, PartsOfFolders
      DEF FolderHolds, Settled, Fresh, Foreign, Home, Away, PartOf
  <2> QED
    BY <2>4, <2>5 DEF ConfigCore
<1>7. CASE ~(t.undo /\ part \notin done)
  <2>1. PICK d : d = [t EXCEPT !.at = part, !.left = leftOf(part)]
    OBVIOUS
  <2>2. /\ d.at = part /\ d.todo = t.todo /\ d.undo = t.undo /\ d.left = leftOf(part)
        /\ d.step = "begin" /\ d.did = <<>> /\ ~d.cleaning
    BY <1>2, <1>3, <2>1 DEF ConfigTasks
  <2>3. MainTask' = d /\ tasks'["handler"] = tasks["handler"]
    BY <1>1, <1>7, <2>1 DEF Becomes, MainTask, Goroutines, ConfigTypes, ConfigTypeOK
  <2>4. dirs' = IF part = "metadata" /\ dirs[part].active = "none"
                THEN [dirs EXCEPT ![part].active = "lan"] ELSE dirs
    BY <1>1, <1>7
  <2>5. CommandsAgree'
    BY <1>2, <2>3 DEF ConfigCore, CommandsAgree, Running
  <2>6. TasksAgree'
    <3>1. IsNext(d, part)
      BY <1>1, <2>2 DEF IsNext
    <3>2. IsNext(d, part)'
      BY <1>2, <3>1 DEF IsNext, Place
    <3> QED
      BY <1>2, <1>7, <2>2, <2>3, <3>2 DEF ConfigCore, TasksAgree, IsNext, Place
  <2>7. FoldersAgree'
    <3>1. \A i \in leftOf(part) : PartOf(i) = part
      BY ConfigAssumption DEF PartOf
    <3> QED
      BY <2>2, <2>3, <3>1 DEF FoldersAgree, PartOf
  <2>8. ASSUME NEW i \in Folders PROVE FolderHolds(i)'
    <3>1. Status(PartOf(i))' <=> Status(PartOf(i))
      BY <1>2, <2>2, <2>3 DEF Status, Changed
    <3>2. CASE PartOf(i) # part
      <4>1. dirs'[i] = dirs[i]
        BY <2>4, <3>2 DEF PartOf, ConfigTypes, ConfigTypeOK
      <4>2. Settled(dirs'[i], Status(PartOf(i))')
        BY <1>5, <3>1, <4>1 DEF Settled
      <4> QED
        BY <2>2, <2>3, <3>2, <4>2 DEF FolderHolds, Settled, Fresh, Foreign, Home, Away, PartOf
    <3>3. CASE PartOf(i) = part
      <4>1. command.kind \in {"setup", "revert"}
        BY <1>2 DEF Running, ConfigTypes, ConfigTypeOK
      <4>2. SetsUp("main")' <=> (command.kind = "setup" <=> ~t.undo)
        BY <1>2, <1>3, <2>2, <2>3 DEF SetsUp, Task, MainTask
      <4>3. Status(PartOf(i)) <=> ~SetsUp("main")'
        <5>1. CASE t.undo
          BY <1>4, <1>7, <3>3, <4>1, <4>2, <5>1 DEF Status, Changed
        <5>2. CASE ~t.undo
          <6>1. part \in command.parts \ done
            BY <1>4, <5>2 DEF ConfigCore, TasksAgree
          <6>2. part \in flags <=> command.kind # "setup"
            BY <4>1, <6>1 DEF ConfigCore, CommandsAgree
          <6> QED
            BY <3>3, <4>1, <4>2, <5>2, <6>1, <6>2 DEF Status, Changed
        <5> QED
          BY <5>1, <5>2
      <4>4. /\ Settled(dirs'[i], Status(PartOf(i)))
            /\ i \in leftOf(part) => dirs'[i].active # "none"
            /\ i \notin leftOf(part) => Fresh(dirs'[i])
        <5>1. CASE i = "metadata"
          <6>1. part = "metadata"
            BY <3>3, <5>1 DEF PartOf
          <6>2. CASE dirs[i].active = "none"
            <7>1. Fresh(dirs[i])
              BY <1>5, <6>2 DEF Settled, Foreign, Home, Away
            <7>2. dirs'[i] = [dirs[i] EXCEPT !.active = "lan"]
              BY <2>4, <5>1, <6>1, <6>2 DEF ConfigTypes, ConfigTypeOK
            <7>3. dirs[i] \in FolderTypes
              BY DEF ConfigTypes, ConfigTypeOK, FolderTypes
            <7>4. dirs'[i].active = "lan" /\ dirs'[i].bak = "none" /\ dirs'[i].lan = "none"
              BY <7>1, <7>2, <7>3 DEF Fresh, FolderTypes
            <7> QED
              BY <5>1, <6>1, <7>4 DEF Settled, Foreign
          <6>3. CASE dirs[i].active # "none"
            BY <1>5, <2>4, <5>1, <6>1, <6>3
          <6> QED
            BY <6>2, <6>3
        <5>2. CASE i # "metadata"
          <6>1. part = "profiles" /\ i \in Profiles
            BY <3>3, <5>2 DEF PartOf, Folders
          <6>2. dirs' = dirs
            BY <2>4, <6>1
          <6>3. leftOf(part) = {p \in Profiles : dirs[p].active # "none"}
            BY <6>1
          <6> QED
            BY <1>5, <6>1, <6>2, <6>3 DEF Settled, Foreign, Home, Away
        <5> QED
          BY <5>1, <5>2
      <4>5. Settled(dirs'[i], ~SetsUp("main")')
        BY <4>3, <4>4 DEF Settled
      <4>6. Exchanged' = {}
        BY <2>2, <2>3 DEF Exchanged
      <4>7. WorkedOn(i)'
        BY <2>2, <2>3, <4>4, <4>5, <4>6 DEF WorkedOn, Settled, Fresh, Foreign, Home, Away
      <4> QED
        BY <2>2, <2>3, <3>3, <4>7 DEF FolderHolds, InHand
    <3> QED
      BY <3>2, <3>3
  <2> QED
    BY <2>5, <2>6, <2>7, <2>8 DEF ConfigCore
<1> QED
  BY <1>6, <1>7

\* A step within a part that concerns folders.
LEMMA WorkGoesOn ==
  ASSUME ConfigTypes, ConfigCore, Running, NEW d, Becomes("main", d),
         d.at = MainTask.at, d.todo = MainTask.todo, d.undo = MainTask.undo,
         UNCHANGED <<done, failed, command, flags>>
  PROVE  /\ MainTask' = d /\ CommandsAgree' /\ TasksAgree'
         /\ SetsUp("main")' <=> SetsUp("main")
         /\ \A p \in FolderParts : Status(p)' <=> Status(p)
<1>1. MainTask' = d /\ tasks'["handler"] = tasks["handler"]
  BY DEF Becomes, MainTask, Goroutines, ConfigTypes, ConfigTypeOK
<1>2. CommandsAgree'
  BY <1>1 DEF ConfigCore, CommandsAgree, Running
<1>3. TasksAgree'
  BY <1>1 DEF ConfigCore, TasksAgree, IsNext, Place
<1>4. SetsUp("main")' <=> SetsUp("main")
  BY <1>1 DEF SetsUp, Task, MainTask
<1>5. \A p \in FolderParts : Status(p)' <=> Status(p)
  BY <1>1 DEF Status, Changed
<1> QED
  BY <1>1, <1>2, <1>3, <1>4, <1>5

\* The folders of the other parts.
LEMMA OtherFolders ==
  ASSUME ConfigCore, NEW i \in Folders, PartOf(i) # MainTask.at, dirs'[i] = dirs[i],
         MainTask'.at = MainTask.at, \A p \in FolderParts : Status(p)' <=> Status(p)
  PROVE  FolderHolds(i)'
<1>1. Status(PartOf(i))' <=> Status(PartOf(i))
  BY PartsOfFolders
<1>2. Settled(dirs'[i], Status(PartOf(i))')
  BY <1>1 DEF ConfigCore, FolderHolds, Settled
<1> QED
  BY <1>2 DEF FolderHolds, Settled, Fresh, Foreign, Home, Away, PartOf

LEMMA DirectionIs ==
  ASSUME ConfigTypes
  PROVE  /\ ~MainTask.cleaning => (BacksUp("main") <=> SetsUp("main"))
         /\ MainTask.cleaning => (BacksUp("main") <=> ~SetsUp("main"))
         /\ MainTask.cleaning \in BOOLEAN
         /\ BacksUp("main") => Into("main") = "bak" /\ From("main") = "lan"
         /\ ~BacksUp("main") => Into("main") = "lan" /\ From("main") = "bak"
<1>1. MainTask.cleaning \in BOOLEAN
  BY MainType DEF ConfigTasks
<1> QED
  BY <1>1, MainType DEF BacksUp, Into, From, SetsUp

LEMMA CandidateIs ==
  ASSUME ConfigTypes, ConfigCore, MainTask.at \in FolderParts, NEW i \in Candidates("main")
  PROVE  /\ PartOf(i) = MainTask.at /\ i \in Folders
         /\ ~MainTask.cleaning => i \in MainTask.left /\ i \notin Exchanged
         /\ MainTask.cleaning =>
              /\ Len(MainTask.did) \in Nat \ {0} /\ i = MainTask.did[Len(MainTask.did)]
              /\ i \in Exchanged /\ i \notin MainTask.left
<1>1. MainTask.left \subseteq Folders /\ MainTask.did \in Seq(Folders)
  BY MainType DEF ConfigTasks
<1>2. CASE ~MainTask.cleaning
  <2>1. i \in MainTask.left
    BY <1>2, MainType DEF Candidates
  <2>2. i \notin Exchanged
    BY <2>1 DEF Exchanged, ConfigCore, FoldersAgree
  <2> QED
    BY <1>1, <1>2, <2>1, <2>2 DEF ConfigCore, FoldersAgree
<1>3. CASE MainTask.cleaning
  <2>1. MainTask.did # <<>> /\ i = Last(MainTask.did)
    BY <1>3, MainType DEF Candidates
  <2>2. Len(MainTask.did) \in Nat \ {0} /\ i = MainTask.did[Len(MainTask.did)] /\ i \in Folders
    BY <1>1, <2>1 DEF Last
  <2>3. i \in Exchanged
    BY <2>2 DEF Exchanged
  <2> QED
    BY <1>3, <2>2, <2>3 DEF ConfigCore, FoldersAgree
<1> QED
  BY <1>2, <1>3

LEMMA FolderOver ==
  ASSUME ConfigTypes, ConfigCore, Running, MainTask.at \in FolderParts, marred' = {},
         NEW i \in Candidates("main"), NEW ok \in BOOLEAN, FolderEnds("main", i, ok),
         MainTask.step # "begin" => MainTask.item = i, UNCHANGED <<command, flags>>,
         \A j \in Folders \ {i} : dirs'[j] = dirs[j],
         ok => Settled(dirs'[i], BacksUp("main")), ~ok => Settled(dirs'[i], ~BacksUp("main")),
         dirs'[i].active # "none"
  PROVE  ConfigCore'
<1> DEFINE t == MainTask
           next == [t EXCEPT !.step = "begin", !.item = "none"]
<1>1. t \in ConfigTasks /\ t.did \in Seq(Folders) /\ t.at # "none" /\ t.cleaning \in BOOLEAN
  BY MainType DEF ConfigTasks, FolderParts
<1>2. ASSUME NEW j \in Folders \ {i}, PartOf(j) = t.at PROVE WorkedOn(j)
  <2>1. ~InHand(j)
    BY DEF InHand
  <2> QED
    BY <1>2, <2>1 DEF ConfigCore, FolderHolds
<1>3. CASE ~ok /\ ~t.cleaning /\ t.did = <<>>
  <2>1. PartEnds("main", FALSE)
    BY <1>3, MainType DEF FolderEnds
  <2>2. t.at \in Undone
    BY DEF FolderParts, Undone, ConfigParts
  <2>3. ASSUME NEW j \in Folders, PartOf(j) = t.at PROVE Settled(dirs'[j], ~SetsUp("main"))
    <3>1. CASE j = i
      BY <1>3, <3>1, DirectionIs DEF Settled
    <3>2. CASE j # i
      <4>1. j \notin Exchanged
        BY <1>3 DEF Exchanged
      <4>2. WorkedOn(j) /\ dirs'[j] = dirs[j]
        BY <1>2, <2>3, <3>2
      <4> QED
        BY <4>1, <4>2 DEF WorkedOn
    <3> QED
      BY <3>1, <3>2
  <2>4. ASSUME NEW j \in Folders, PartOf(j) # t.at PROVE dirs'[j] = dirs[j]
    BY <2>4, CandidateIs
  <2> QED
    BY <2>1, <2>2, <2>3, <2>4, PartOver
<1>4. ASSUME NEW d, Becomes("main", d), UNCHANGED <<done, failed>>,
             d.at = t.at, d.todo = t.todo, d.undo = t.undo, d.step = "begin",
             FoldersAgree', \A j \in Folders : PartOf(j) = t.at => WorkedOn(j)'
      PROVE  ConfigCore'
  <2>1. /\ MainTask' = d /\ CommandsAgree' /\ TasksAgree'
        /\ \A p \in FolderParts : Status(p)' <=> Status(p)
    BY <1>4, WorkGoesOn
  <2>2. ASSUME NEW j \in Folders PROVE FolderHolds(j)'
    <3>1. CASE PartOf(j) # t.at
      <4>1. dirs'[j] = dirs[j]
        BY <3>1, CandidateIs
      <4> QED
        BY <1>4, <2>1, <3>1, <4>1, OtherFolders
    <3>2. CASE PartOf(j) = t.at
      <4>1. ~InHand(j)'
        BY <1>4, <2>1 DEF InHand
      <4>2. MainTask'.at = PartOf(j)'
        BY <1>4, <2>1, <3>2 DEF PartOf
      <4> QED
        BY <1>4, <3>2, <4>1, <4>2 DEF FolderHolds
    <3> QED
      BY <3>1, <3>2
  <2> QED
    BY <1>4, <2>1, <2>2 DEF ConfigCore
<1>5. CASE t.cleaning
  <2>1. ok
    <3>1. ~ok => "stuck" \in marred'
      BY <1>5, MainType DEF FolderEnds, Mark
    <3> QED
      BY <3>1
  <2>2. PICK d : d = [next EXCEPT !.did = Front(@)]
    OBVIOUS
  <2>3. /\ d.at = t.at /\ d.todo = t.todo /\ d.undo = t.undo /\ d.step = "begin"
        /\ d.left = t.left /\ d.did = Front(t.did) /\ d.cleaning
    BY <1>1, <1>5, <2>2 DEF ConfigTasks
  <2>4. Becomes("main", d) /\ UNCHANGED <<done, failed>>
    BY <1>5, <2>1, <2>2, MainType DEF FolderEnds
  <2>5. MainTask' = d /\ (SetsUp("main")' <=> SetsUp("main"))
    BY <2>3, <2>4, WorkGoesOn
  <2>6. /\ Len(d.did) = Len(t.did) - 1 /\ Len(t.did) \in Nat \ {0}
        /\ \A n \in 1 .. Len(t.did) - 1 : d.did[n] = t.did[n]
    BY <1>1, <1>5, <2>3, CandidateIs DEF Front
  <2>7. FoldersAgree'
    <3>1. \A n \in 1 .. Len(d.did) : n \in 1 .. Len(t.did) /\ d.did[n] = t.did[n]
      BY <2>6
    <3> QED
      BY <2>3, <2>5, <3>1 DEF ConfigCore, FoldersAgree, PartOf
  <2>8. Exchanged' = Exchanged \ {i}
    <3>1. i = t.did[Len(t.did)]
      BY <1>5, CandidateIs
    <3>2. \A n \in 1 .. Len(t.did) : t.did[n] = i <=> n = Len(t.did)
      BY <2>6, <3>1 DEF ConfigCore, FoldersAgree
    <3>3. Exchanged' = {d.did[n] : n \in 1 .. Len(t.did) - 1}
      BY <2>5, <2>6 DEF Exchanged
    <3>4. ASSUME NEW x \in Exchanged' PROVE x \in Exchanged \ {i}
      <4>1. PICK n \in 1 .. Len(t.did) - 1 : x = d.did[n]
        BY <3>3
      <4>2. n \in 1 .. Len(t.did) /\ n # Len(t.did) /\ x = t.did[n]
        BY <2>6, <4>1
      <4> QED
        BY <3>2, <4>2 DEF Exchanged
    <3>5. ASSUME NEW x \in Exchanged \ {i} PROVE x \in Exchanged'
      <4>1. PICK n \in 1 .. Len(t.did) : x = t.did[n]
        BY DEF Exchanged
      <4>2. n \in 1 .. Len(t.did) - 1 /\ x = d.did[n]
        BY <2>6, <3>1, <4>1
      <4> QED
        BY <3>3, <4>2
    <3> QED
      BY <3>4, <3>5
  <2>9. ASSUME NEW j \in Folders, PartOf(j) = t.at PROVE WorkedOn(j)'
    <3>1. CASE j = i
      <4>1. Settled(dirs'[i], ~SetsUp("main")')
        BY <1>5, <2>1, <2>5, DirectionIs DEF Settled
      <4> QED
        BY <2>3, <2>5, <2>8, <3>1, <4>1 DEF WorkedOn, Settled, Fresh, Foreign, Home, Away
    <3>2. CASE j # i
      <4>1. WorkedOn(j) /\ dirs'[j] = dirs[j]
        BY <1>2, <2>9, <3>2
      <4> QED
        BY <2>3, <2>5, <2>8, <3>2, <4>1 DEF WorkedOn, Settled, Fresh, Foreign, Home, Away
    <3> QED
      BY <3>1, <3>2
  <2> QED
    BY <1>4, <2>3, <2>4, <2>7, <2>9
<1>6. CASE ~t.cleaning /\ ok
  <2>2. PICK d : d = [next EXCEPT !.left = @ \ {i}, !.did = Append(@, i)]
    OBVIOUS
  <2>3. /\ d.at = t.at /\ d.todo = t.todo /\ d.undo = t.undo /\ d.step = "begin"
        /\ d.left = t.left \ {i} /\ d.did = Append(t.did, i) /\ d.cleaning = t.cleaning
    BY <1>1, <2>2 DEF ConfigTasks
  <2>4. Becomes("main", d) /\ UNCHANGED <<done, failed>>
    BY <1>6, <2>2, MainType DEF FolderEnds
  <2>5. MainTask' = d /\ (SetsUp("main")' <=> SetsUp("main"))
    BY <2>3, <2>4, WorkGoesOn
  <2>6. /\ Len(d.did) = Len(t.did) + 1 /\ Len(t.did) \in Nat /\ d.did[Len(t.did) + 1] = i
        /\ \A n \in 1 .. Len(t.did) : d.did[n] = t.did[n]
    BY <1>1, <2>3, CandidateIs
  <2>7. FoldersAgree'
    <3>1. \A n \in 1 .. Len(t.did) : t.did[n] # i
      BY <1>6, CandidateIs DEF Exchanged
    <3>2. \A n \in 1 .. Len(d.did) : n \in 1 .. Len(t.did) \/ n = Len(t.did) + 1
      BY <2>6
    <3>3. PartOf(i) = t.at
      BY CandidateIs
    <3>4. \A n \in 1 .. Len(t.did) :
            /\ PartOf(t.did[n]) = t.at /\ t.did[n] \notin t.left
            /\ \A m \in 1 .. Len(t.did) : t.did[m] = t.did[n] => m = n
      BY DEF ConfigCore, FoldersAgree
    <3>5. \A n \in 1 .. Len(d.did) : PartOf(d.did[n]) = d.at /\ d.did[n] \notin d.left
      BY <2>3, <2>6, <3>2, <3>3, <3>4
    <3>6. ASSUME NEW n \in 1 .. Len(d.did), NEW m \in 1 .. Len(d.did), d.did[m] = d.did[n]
          PROVE  m = n
      BY <2>6, <3>1, <3>2, <3>4, <3>6
    <3>7. \A j \in d.left : PartOf(j) = d.at
      BY <2>3 DEF ConfigCore, FoldersAgree
    <3> QED
      BY <2>3, <2>5, <3>5, <3>6, <3>7 DEF FoldersAgree, PartOf
  <2>8. Exchanged' = Exchanged \cup {i}
    BY <2>5, <2>6 DEF Exchanged
  <2>9. ASSUME NEW j \in Folders, PartOf(j) = t.at PROVE WorkedOn(j)'
    <3>1. CASE j = i
      <4>1. Settled(dirs'[i], SetsUp("main")')
        BY <1>6, <2>5, DirectionIs DEF Settled
      <4> QED
        BY <2>3, <2>5, <2>8, <3>1, <4>1 DEF WorkedOn, Settled, Fresh, Foreign, Home, Away
    <3>2. CASE j # i
      <4>1. WorkedOn(j) /\ dirs'[j] = dirs[j]
        BY <1>2, <2>9, <3>2
      <4> QED
        BY <2>3, <2>5, <2>8, <3>2, <4>1 DEF WorkedOn, Settled, Fresh, Foreign, Home, Away
    <3> QED
      BY <3>1, <3>2
  <2> QED
    BY <1>4, <2>3, <2>4, <2>7, <2>9
<1>7. CASE ~t.cleaning /\ ~ok /\ t.did # <<>>
  <2>2. PICK d : d = [next EXCEPT !.cleaning = TRUE]
    OBVIOUS
  <2>3. /\ d.at = t.at /\ d.todo = t.todo /\ d.undo = t.undo /\ d.step = "begin"
        /\ d.left = t.left /\ d.did = t.did /\ d.cleaning
    BY <1>1, <2>2 DEF ConfigTasks
  <2>4. Becomes("main", d) /\ UNCHANGED <<done, failed>>
    BY <1>7, <2>2, MainType DEF FolderEnds
  <2>5. MainTask' = d /\ (SetsUp("main")' <=> SetsUp("main"))
    BY <2>3, <2>4, WorkGoesOn
  <2>7. FoldersAgree'
    BY <2>3, <2>5 DEF ConfigCore, FoldersAgree, PartOf
  <2>8. Exchanged' = Exchanged /\ i \notin Exchanged
    BY <1>7, <2>3, <2>5, CandidateIs DEF Exchanged
  <2>9. ASSUME NEW j \in Folders, PartOf(j) = t.at PROVE WorkedOn(j)'
    <3>1. CASE j = i
      <4>1. Settled(dirs'[i], ~SetsUp("main")')
        BY <1>7, <2>5, DirectionIs DEF Settled
      <4> QED
        BY <2>3, <2>5, <2>8, <3>1, <4>1 DEF WorkedOn, Settled, Fresh, Foreign, Home, Away
    <3>2. CASE j # i
      <4>1. WorkedOn(j) /\ dirs'[j] = dirs[j]
        BY <1>2, <2>9, <3>2
      <4> QED
        BY <2>3, <2>5, <2>8, <3>2, <4>1 DEF WorkedOn, Settled, Fresh, Foreign, Home, Away
    <3> QED
      BY <3>1, <3>2
  <2> QED
    BY <1>4, <2>3, <2>4, <2>7, <2>9
<1> QED
  BY <1>1, <1>3, <1>5, <1>6, <1>7

\* The folder in hand goes on.
LEMMA StaysInHand ==
  ASSUME ConfigTypes, ConfigCore, Running, MainTask.at \in FolderParts,
         NEW i \in Candidates("main"), NEW d, Becomes("main", d),
         UNCHANGED <<done, failed, command, flags>>,
         d.at = MainTask.at, d.todo = MainTask.todo, d.undo = MainTask.undo,
         d.left = MainTask.left, d.did = MainTask.did, d.cleaning = MainTask.cleaning,
         d.step \in {"second", "back"}, d.item = i,
         MainTask.step # "begin" => MainTask.item = i,
         \A j \in Folders \ {i} : dirs'[j] = dirs[j],
         Halfway(dirs'[i], BacksUp("main"))
  PROVE  ConfigCore'
<1>1. /\ MainTask' = d /\ CommandsAgree' /\ TasksAgree'
      /\ SetsUp("main")' <=> SetsUp("main")
      /\ \A p \in FolderParts : Status(p)' <=> Status(p)
  BY WorkGoesOn
<1>2. Candidates("main")' = Candidates("main") /\ Exchanged' = Exchanged
  BY <1>1 DEF Candidates, Exchanged, Task, MainTask
<1>3. FoldersAgree'
  BY <1>1, <1>2 DEF ConfigCore, FoldersAgree, PartOf
<1>4. BacksUp("main")' <=> BacksUp("main")
  BY <1>1 DEF BacksUp, SetsUp, Task, MainTask
<1>5. ASSUME NEW j \in Folders PROVE FolderHolds(j)'
  <2>1. CASE PartOf(j) # MainTask.at
    <3>1. dirs'[j] = dirs[j]
      BY <2>1, CandidateIs
    <3> QED
      BY <1>1, <2>1, <3>1, OtherFolders
  <2>2. CASE PartOf(j) = MainTask.at /\ j = i
    <3>1. InHand(j)' /\ MainTask'.at = PartOf(j)'
      BY <1>1, <2>2 DEF InHand, PartOf
    <3>2. Halfway(dirs[j], BacksUp("main"))'
      BY <1>4, <2>2 DEF Halfway
    <3> QED
      BY <3>1, <3>2 DEF FolderHolds
  <2>3. CASE PartOf(j) = MainTask.at /\ j # i
    <3>1. WorkedOn(j) /\ dirs'[j] = dirs[j]
      BY <2>3 DEF ConfigCore, FolderHolds, InHand
    <3>2. WorkedOn(j)'
      BY <1>1, <1>2, <3>1 DEF WorkedOn, Settled, Fresh, Foreign, Home, Away
    <3>3. ~InHand(j)' /\ MainTask'.at = PartOf(j)'
      BY <1>1, <2>3 DEF InHand, PartOf
    <3> QED
      BY <3>2, <3>3 DEF FolderHolds
  <2> QED
    BY <2>1, <2>2, <2>3
<1> QED
  BY <1>1, <1>3, <1>5 DEF ConfigCore

\* What a folder is before the first renaming.
LEMMA BeforeSwitch ==
  ASSUME ConfigTypes, ConfigCore, MainTask.at \in FolderParts, MainTask.step = "begin",
         NEW i \in Candidates("main")
  PROVE  /\ Settled(dirs[i], ~BacksUp("main")) /\ dirs[i].active # "none"
         /\ dirs[i] \in FolderTypes
<1>1. i \in Folders /\ PartOf(i) = MainTask.at
  BY CandidateIs
<1>2. WorkedOn(i)
  BY <1>1 DEF ConfigCore, FolderHolds, InHand
<1>3. dirs[i] \in FolderTypes
  BY <1>1 DEF ConfigTypes, ConfigTypeOK, FolderTypes
<1> QED
  BY <1>2, <1>3, CandidateIs, DirectionIs DEF WorkedOn, Settled

LEMMA SwitchFirstInv ==
  ASSUME ConfigTypes, ConfigCore, NEW i \in Folders, SwitchFirst("main", i), marred' = {}
  PROVE  ConfigCore'
<1>1. /\ MainTask.at \in FolderParts /\ MainTask.step = "begin" /\ Running
      /\ i \in Candidates("main") /\ UNCHANGED <<command, flags>>
  BY MainType DEF SwitchFirst, AtFolders, FolderParts, bounded
<1>2. /\ Settled(dirs[i], ~BacksUp("main")) /\ dirs[i].active # "none"
      /\ dirs[i] \in FolderTypes
  BY <1>1, BeforeSwitch
<1>3. CASE FolderEnds("main", i, FALSE) /\ UNCHANGED dirs
  BY <1>1, <1>2, <1>3, FolderOver
<1>4. CASE /\ dirs[i][Into("main")] = "none" /\ Move(i, "active", Into("main"))
           /\ Becomes("main", [Task("main") EXCEPT !.step = "second", !.item = i])
           /\ UNCHANGED <<done, failed, marred>>
  <2>1. PICK d : d = [MainTask EXCEPT !.step = "second", !.item = i]
    OBVIOUS
  <2>2. /\ d.at = MainTask.at /\ d.todo = MainTask.todo /\ d.undo = MainTask.undo
        /\ d.left = MainTask.left /\ d.did = MainTask.did /\ d.cleaning = MainTask.cleaning
        /\ d.step = "second" /\ d.item = i
    BY <2>1, MainType DEF ConfigTasks
  <2>3. Becomes("main", d)
    BY <1>4, <2>1, MainType
  <2>4. dirs' = [dirs EXCEPT ![i][Into("main")] = dirs[i]["active"], ![i]["active"] = "none"]
    BY <1>4 DEF Move
  <2>5. \A j \in Folders \ {i} : dirs'[j] = dirs[j]
    BY <2>4 DEF ConfigTypes, ConfigTypeOK
  <2>6. dirs'[i] = [dirs[i] EXCEPT ![Into("main")] = dirs[i]["active"], !["active"] = "none"]
    BY <2>4 DEF ConfigTypes, ConfigTypeOK
  <2>7. Halfway(dirs'[i], BacksUp("main"))
    <3>1. CASE BacksUp("main")
      <4>1. dirs'[i].active = "none" /\ dirs'[i].bak = dirs[i].active /\ dirs'[i].lan = dirs[i].lan
        BY <1>2, <2>6, <3>1, DirectionIs DEF FolderTypes
      <4> QED
        BY <1>2, <3>1, <4>1 DEF Settled, Fresh, Foreign, Home, Halfway
    <3>2. CASE ~BacksUp("main")
      <4>1. dirs'[i].active = "none" /\ dirs'[i].lan = dirs[i].active
        BY <1>2, <2>6, <3>2, DirectionIs DEF FolderTypes
      <4> QED
        BY <1>2, <3>2, <4>1 DEF Settled, Fresh, Foreign, Away, Halfway
    <3> QED
      BY <3>1, <3>2
  <2> QED
    BY <1>1, <1>4, <2>2, <2>3, <2>5, <2>7, StaysInHand
<1> QED
  BY <1>2, <1>3, <1>4 DEF SwitchFirst

\* What the folder in hand is between the renamings.
LEMMA BetweenSwitches ==
  ASSUME ConfigTypes, ConfigCore, MainTask.at \in FolderParts, MainTask.step # "begin"
  PROVE  /\ MainTask.item \in Candidates("main") /\ MainTask.item \in Folders
         /\ Halfway(dirs[MainTask.item], BacksUp("main"))
         /\ dirs[MainTask.item] \in FolderTypes
<1>1. MainTask.item \in Candidates("main")
  BY DEF ConfigCore, FoldersAgree
<1>2. MainTask.item \in Folders /\ PartOf(MainTask.item) = MainTask.at
  BY <1>1, CandidateIs
<1> QED
  BY <1>1, <1>2 DEF ConfigCore, FolderHolds, InHand, ConfigTypes, ConfigTypeOK, FolderTypes

LEMMA SwitchSecondInv ==
  ASSUME ConfigTypes, ConfigCore, SwitchSecond("main"), marred' = {}
  PROVE  ConfigCore'
<1> DEFINE i == MainTask.item
           other == IF dirs[i][From("main")] = "none" THEN "lan" ELSE dirs[i][From("main")]
<1>1. /\ MainTask.at \in FolderParts /\ MainTask.step = "second" /\ Running
      /\ UNCHANGED <<command, flags>>
  BY MainType DEF SwitchSecond, AtFolders, FolderParts, bounded
<1>2. /\ i \in Candidates("main") /\ i \in Folders /\ dirs[i] \in FolderTypes
      /\ Halfway(dirs[i], BacksUp("main"))
  BY <1>1, BetweenSwitches
<1>3. CASE /\ dirs' = [dirs EXCEPT ![i].active = other, ![i][From("main")] = "none"]
           /\ FolderEnds("main", i, TRUE)
  <2>1. \A j \in Folders \ {i} : dirs'[j] = dirs[j]
    BY <1>2, <1>3 DEF ConfigTypes, ConfigTypeOK
  <2>2. dirs'[i] = [dirs[i] EXCEPT !.active = other, ![From("main")] = "none"]
    BY <1>2, <1>3 DEF ConfigTypes, ConfigTypeOK
  <2>3. Settled(dirs'[i], BacksUp("main")) /\ dirs'[i].active # "none"
    <3>1. CASE BacksUp("main")
      <4>1. dirs'[i].active = "lan" /\ dirs'[i].bak = dirs[i].bak /\ dirs'[i].lan = "none"
        BY <1>2, <2>2, <3>1, DirectionIs DEF FolderTypes, Halfway
      <4> QED
        BY <1>2, <3>1, <4>1 DEF Settled, Foreign, Away, Halfway, FolderTypes
    <3>2. CASE ~BacksUp("main")
      <4>1. /\ dirs'[i].active \in {"own", "lan"} /\ dirs'[i].bak = "none"
            /\ dirs'[i].lan = dirs[i].lan
        BY <1>2, <2>2, <3>2, DirectionIs DEF FolderTypes, Halfway
      <4> QED
        BY <1>2, <3>2, <4>1 DEF Settled, Foreign, Home, Halfway, FolderTypes
    <3> QED
      BY <3>1, <3>2
  <2> QED
    BY <1>1, <1>2, <1>3, <2>1, <2>3, FolderOver
<1>4. CASE /\ dirs' = [dirs EXCEPT ![i][From("main")] = other]
           /\ Becomes("main", [Task("main") EXCEPT !.step = "back"])
           /\ UNCHANGED <<done, failed, marred>>
  <2>1. PICK d : d = [MainTask EXCEPT !.step = "back"]
    OBVIOUS
  <2>2. /\ d.at = MainTask.at /\ d.todo = MainTask.todo /\ d.undo = MainTask.undo
        /\ d.left = MainTask.left /\ d.did = MainTask.did /\ d.cleaning = MainTask.cleaning
        /\ d.step = "back" /\ d.item = i
    BY <2>1, MainType DEF ConfigTasks
  <2>3. Becomes("main", d)
    BY <1>4, <2>1, MainType
  <2>4. \A j \in Folders \ {i} : dirs'[j] = dirs[j]
    BY <1>2, <1>4 DEF ConfigTypes, ConfigTypeOK
  <2>5. dirs'[i] = [dirs[i] EXCEPT ![From("main")] = other]
    BY <1>2, <1>4 DEF ConfigTypes, ConfigTypeOK
  <2>6. Halfway(dirs'[i], BacksUp("main"))
    <3>1. CASE BacksUp("main")
      <4>1. dirs'[i].active = "none" /\ dirs'[i].bak = dirs[i].bak /\ dirs'[i].lan = "lan"
        BY <1>2, <2>5, <3>1, DirectionIs DEF FolderTypes, Halfway
      <4> QED
        BY <1>2, <3>1, <4>1 DEF Halfway
    <3>2. CASE ~BacksUp("main")
      <4>1. dirs'[i].active = "none" /\ dirs'[i].lan = dirs[i].lan
        BY <1>2, <2>5, <3>2, DirectionIs DEF FolderTypes, Halfway
      <4> QED
        BY <1>2, <3>2, <4>1 DEF Halfway
    <3> QED
      BY <3>1, <3>2
  <2> QED
    BY <1>1, <1>2, <1>4, <2>2, <2>3, <2>4, <2>6, StaysInHand
<1> QED
  BY <1>3, <1>4, MainType DEF SwitchSecond

LEMMA SwitchBackInv ==
  ASSUME ConfigTypes, ConfigCore, SwitchBack("main"), marred' = {}
  PROVE  ConfigCore'
<1> DEFINE i == MainTask.item
<1>1. /\ MainTask.at \in FolderParts /\ MainTask.step = "back" /\ Running
      /\ UNCHANGED <<command, flags>>
  BY MainType DEF SwitchBack, AtFolders, FolderParts, bounded
<1>2. /\ i \in Candidates("main") /\ i \in Folders /\ dirs[i] \in FolderTypes
      /\ Halfway(dirs[i], BacksUp("main"))
  BY <1>1, BetweenSwitches
<1>3. /\ dirs[i].active = "none" /\ dirs[i][Into("main")] # "none"
      /\ Move(i, Into("main"), "active") /\ FolderEnds("main", i, FALSE)
  <2>1. ~Mark("stuck")
    BY DEF Mark
  <2> QED
    BY <2>1, MainType DEF SwitchBack
<1>4. dirs' = [dirs EXCEPT ![i]["active"] = dirs[i][Into("main")], ![i][Into("main")] = "none"]
  BY <1>3 DEF Move
<1>5. \A j \in Folders \ {i} : dirs'[j] = dirs[j]
  BY <1>2, <1>4 DEF ConfigTypes, ConfigTypeOK
<1>6. dirs'[i] = [dirs[i] EXCEPT !["active"] = dirs[i][Into("main")], ![Into("main")] = "none"]
  BY <1>2, <1>4 DEF ConfigTypes, ConfigTypeOK
<1>7. Settled(dirs'[i], ~BacksUp("main")) /\ dirs'[i].active # "none"
  <2>1. CASE BacksUp("main")
    <3>1. dirs'[i].active = dirs[i].bak /\ dirs'[i].bak = "none" /\ dirs'[i].lan = dirs[i].lan
      BY <1>2, <1>6, <2>1, DirectionIs DEF FolderTypes
    <3> QED
      BY <1>2, <2>1, <3>1 DEF Settled, Foreign, Home, Halfway, FolderTypes
  <2>2. CASE ~BacksUp("main")
    <3>1. dirs'[i].active = "lan" /\ dirs'[i].bak = dirs[i].bak /\ dirs'[i].lan = "none"
      BY <1>2, <1>6, <2>2, DirectionIs DEF FolderTypes, Halfway
    <3> QED
      BY <1>2, <2>2, <3>1 DEF Settled, Foreign, Away, Halfway, FolderTypes
  <2> QED
    BY <2>1, <2>2
<1> QED
  BY <1>1, <1>2, <1>3, <1>5, <1>7, FolderOver

LEMMA FoldersEndInv ==
  ASSUME ConfigTypes, ConfigCore, FoldersEnd("main"), marred' = {}
  PROVE  ConfigCore'
<1>1. /\ MainTask.at \in FolderParts /\ MainTask.step = "begin" /\ Running
      /\ Candidates("main") = {} /\ UNCHANGED <<command, flags, dirs>>
      /\ PartEnds("main", ~MainTask.cleaning)
  BY MainType DEF FoldersEnd, AtFolders, FolderParts, bounded, folderVars
<1>2. MainTask.cleaning \in BOOLEAN /\ MainTask.at \in Undone
  BY <1>1, DirectionIs DEF FolderParts, Undone, ConfigParts
<1>3. ASSUME NEW i \in Folders, PartOf(i) = MainTask.at
      PROVE  /\ ~MainTask.cleaning => Settled(dirs'[i], SetsUp("main"))
             /\ MainTask.cleaning => Settled(dirs'[i], ~SetsUp("main"))
  <2>1. WorkedOn(i) /\ dirs'[i] = dirs[i]
    BY <1>1, <1>3 DEF ConfigCore, FolderHolds, InHand
  <2>2. CASE MainTask.cleaning
    <3>1. MainTask.did = <<>>
      BY <1>1, <2>2, MainType DEF Candidates
    <3>2. i \notin Exchanged
      BY <3>1 DEF Exchanged
    <3> QED
      BY <2>1, <2>2, <3>2 DEF WorkedOn
  <2>3. CASE ~MainTask.cleaning
    <3>1. MainTask.left = {}
      BY <1>1, <2>3, MainType DEF Candidates
    <3>2. i \in Exchanged \/ Fresh(dirs[i])
      BY <2>1, <2>3, <3>1 DEF WorkedOn
    <3> QED
      BY <2>1, <2>3, <3>2 DEF WorkedOn, Settled
  <2> QED
    BY <2>2, <2>3
<1> QED
  BY <1>1, <1>2, <1>3, PartOver

\* Only the command's own goroutine acts as long as there was no signal.
LEMMA HandlerRests ==
  ASSUME ConfigCore, GoroutineStep("handler")
  PROVE  FALSE
<1>1. Task("handler").at = "none" /\ Task("handler").todo = {}
  BY DEF ConfigCore, CommandsAgree, Task, NoTask
<1> QED
  BY <1>1 DEF GoroutineStep, NextPart, IsNext, UserCertPart, AdminPart, SwitchFirst, SwitchSecond,
    SwitchBack, SwitchLost, FoldersEnd, AtFolders, StoreBegin, StoreCopy, StoreAppend,
    StoreRestore, StoreRemove, AtStore, At

LEMMA GoroutineInv ==
  ASSUME ConfigTypes, ConfigCore, NEW g \in Goroutines, GoroutineStep(g), marred' = {}
  PROVE  ConfigCore'
<1>1. g = "main"
  BY HandlerRests DEF Goroutines
<1>2. ~SwitchLost("main")
  <2>1. SwitchLost("main") => MainTask.at \in FolderParts /\ MainTask.step = "lost"
    BY MainType DEF SwitchLost, AtFolders, FolderParts
  <2> QED
    BY <2>1 DEF ConfigCore, FoldersAgree
<1> QED
  BY <1>1, <1>2, NextPartInv, UserCertPartInv, AdminPartInv, SwitchFirstInv, SwitchSecondInv,
     SwitchBackInv, FoldersEndInv, StoreActionInv DEF GoroutineStep, StoreAction

\* Between commands a part is set up when its flag is kept.
LEMMA FoldersAtRest ==
  ASSUME ConfigCore, ~Running, NEW i \in Folders
  PROVE  Settled(dirs[i], PartOf(i) \in flags)
<1>1. MainTask = NoTask /\ done = {}
  BY DEF ConfigCore, CommandsAgree
<1>2. MainTask.at # PartOf(i)
  BY <1>1, PartsOfFolders DEF NoTask
<1>3. Status(PartOf(i)) <=> PartOf(i) \in flags
  BY <1>1 DEF Status, Changed
<1> QED
  BY <1>2, <1>3 DEF ConfigCore, FolderHolds, Settled

LEMMA BeginsInv ==
  ASSUME ConfigTypes, ConfigCore, NEW kind \in {"setup", "revert"},
         NEW parts \in SUBSET ConfigParts, Begins(kind, parts),
         kind = "setup" => /\ parts \cap flags = {}
                           /\ "admin" \in parts => parts \cap FolderParts = {},
         kind = "revert" => parts = flags
  PROVE  ConfigCore'
<1>1. PICK d : d = [NoTask EXCEPT !.todo = parts]
  OBVIOUS
<1>2. d.at = "none" /\ d.todo = parts /\ ~d.undo
  BY <1>1 DEF NoTask
<1>3. MainTask' = d /\ tasks'["handler"] = NoTask
  BY <1>1 DEF Begins, MainTask, Goroutines
<1>4. /\ ~Running /\ command'.kind = kind /\ command'.parts = parts /\ done' = {} /\ ~failed'
      /\ dirs' = dirs /\ flags' = flags
  BY DEF Begins, folderVars
<1>5. CommandsAgree'
  BY <1>3, <1>4 DEF CommandsAgree, Running
<1>6. TasksAgree' /\ FoldersAgree'
  BY <1>2, <1>3, <1>4 DEF TasksAgree, FoldersAgree, FolderParts
<1>7. ASSUME NEW i \in Folders PROVE FolderHolds(i)'
  <2>1. Status(PartOf(i))' <=> PartOf(i) \in flags
    BY <1>4 DEF Status, Changed, PartOf
  <2>2. Settled(dirs'[i], Status(PartOf(i))')
    BY <1>4, <2>1, FoldersAtRest DEF Settled
  <2> QED
    BY <1>2, <1>3, <2>2, PartsOfFolders
    DEF FolderHolds, Settled, Fresh, Foreign, Home, Away, PartOf
<1> QED
  BY <1>5, <1>6, <1>7 DEF ConfigCore

LEMMA CommandEndsInv ==
  ASSUME ConfigTypes, ConfigCore, CommandEnds
  PROVE  ConfigCore'
<1>1. /\ Running /\ MainTask.at = "none" /\ MainTask.todo = {}
      /\ flags' = IF failed THEN flags
                  ELSE IF command.kind = "setup" THEN flags \cup command.parts ELSE {}
      /\ command' = NoCommand /\ done' = {} /\ ~failed' /\ dirs' = dirs
  BY MainType DEF CommandEnds, folderVars
<1>2. MainTask' = NoTask /\ tasks'["handler"] = NoTask
  BY DEF CommandEnds, MainTask, Goroutines
<1>3. NoTask.at = "none" /\ NoTask.todo = {} /\ ~NoTask.undo
  BY DEF NoTask
<1>4. command.kind \in {"setup", "revert"} /\ failed \in BOOLEAN /\ MainTask.undo \in BOOLEAN
  BY <1>1, MainType DEF Running, ConfigTypes, ConfigTypeOK
<1>5. CommandsAgree' /\ TasksAgree' /\ FoldersAgree'
  BY <1>1, <1>2, <1>3
  DEF CommandsAgree, TasksAgree, FoldersAgree, Running, NoCommand, FolderParts
<1>6. ASSUME NEW i \in Folders PROVE FolderHolds(i)'
  <2>1. Settled(dirs[i], Status(PartOf(i)))
    BY <1>1, PartsOfFolders DEF ConfigCore, FolderHolds
  <2>2. Status(PartOf(i)) <=> PartOf(i) \in flags'
    <3>1. CASE MainTask.undo
      BY <1>1, <3>1 DEF ConfigCore, TasksAgree, Status, Changed
    <3>2. CASE ~MainTask.undo /\ failed
      <4>1. PartOf(i) \notin command.parts
        BY <1>1, <3>2, PartsOfFolders DEF ConfigCore, TasksAgree, CommandsAgree
      <4> QED
        BY <1>1, <3>2, <4>1 DEF ConfigCore, CommandsAgree, Status, Changed
    <3>3. CASE ~MainTask.undo /\ ~failed
      <4>1. PartOf(i) \in command.parts <=> PartOf(i) \in done
        BY <1>1, <3>3 DEF ConfigCore, TasksAgree, CommandsAgree, PartOf
      <4>2. CASE command.kind = "setup"
        BY <1>1, <3>3, <4>1, <4>2 DEF ConfigCore, CommandsAgree, Status, Changed
      <4>3. CASE command.kind = "revert"
        BY <1>1, <3>3, <4>1, <4>3 DEF ConfigCore, CommandsAgree, Status, Changed
      <4> QED
        BY <1>4, <4>2, <4>3
    <3> QED
      BY <1>4, <3>1, <3>2, <3>3
  <2>3. Status(PartOf(i))' <=> PartOf(i) \in flags'
    BY <1>1 DEF Status, Changed, PartOf
  <2>4. Settled(dirs'[i], Status(PartOf(i))')
    BY <1>1, <2>1, <2>2, <2>3 DEF Settled
  <2> QED
    BY <1>2, <1>3, <2>4, PartsOfFolders
    DEF FolderHolds, Settled, Fresh, Foreign, Home, Away, PartOf
<1> QED
  BY <1>5, <1>6 DEF ConfigCore

LEMMA PlayInv ==
  ASSUME ConfigTypes, ConfigCore, NEW i \in Folders, Play(i)
  PROVE  ConfigCore'
<1>1. ~Running /\ dirs[i].active = "none"
      /\ UNCHANGED <<flags, command, done, tasks, failed>>
  BY DEF Play, bounded
<1>2. Fresh(dirs[i]) /\ dirs[i] \in FolderTypes
  BY <1>1, FoldersAtRest
  DEF Settled, Foreign, Home, Away, ConfigTypes, ConfigTypeOK, FolderTypes
<1>3. CommandsAgree' /\ TasksAgree' /\ FoldersAgree' /\ MainTask' = MainTask
  BY <1>1 DEF ConfigCore, CommandsAgree, TasksAgree, FoldersAgree, Running, MainTask, IsNext, Place,
    Candidates, Task, PartOf
<1>4. dirs' = [dirs EXCEPT ![i].active = IF PartOf(i) \in flags THEN "lan" ELSE "own"]
  BY <1>2 DEF Play, Fresh
<1>5. ASSUME NEW j \in Folders PROVE FolderHolds(j)'
  <2>1. Settled(dirs'[j], PartOf(j) \in flags)
    <3>1. CASE j = i
      <4>1. dirs'[i] = [dirs[i] EXCEPT !.active = IF PartOf(i) \in flags THEN "lan" ELSE "own"]
        BY <1>4 DEF ConfigTypes, ConfigTypeOK
      <4>2. /\ dirs'[i].active = IF PartOf(i) \in flags THEN "lan" ELSE "own"
            /\ dirs'[i].bak = "none" /\ dirs'[i].lan = "none"
        BY <1>2, <4>1 DEF Fresh, FolderTypes
      <4> QED
        BY <3>1, <4>2 DEF Settled, Foreign, Home
    <3>2. CASE j # i
      <4>1. dirs'[j] = dirs[j]
        BY <1>4, <3>2 DEF ConfigTypes, ConfigTypeOK
      <4> QED
        BY <1>1, <4>1, FoldersAtRest
    <3> QED
      BY <3>1, <3>2
  <2>2. MainTask = NoTask /\ done' = {}
    BY <1>1 DEF ConfigCore, CommandsAgree
  <2>3. Status(PartOf(j))' <=> PartOf(j) \in flags
    BY <1>1, <2>2 DEF Status, Changed, PartOf
  <2>4. Settled(dirs'[j], Status(PartOf(j))') /\ NoTask.at = "none"
    BY <2>1, <2>3 DEF Settled, NoTask
  <2> QED
    BY <1>3, <2>2, <2>4, PartsOfFolders
    DEF FolderHolds, Settled, Fresh, Foreign, Home, Away, PartOf
<1> QED
  BY <1>3, <1>5 DEF ConfigCore

LEMMA ConfigNextInv == ConfigIInv /\ [ConfigNext]_configVars => ConfigIInv'
<1> SUFFICES ASSUME ConfigIInv, [ConfigNext]_configVars PROVE ConfigIInv'
  OBVIOUS
<1>1. ConfigTypes /\ ConfigTypes'
  BY ConfigNextTypes DEF ConfigIInv
<1>2. ASSUME marred' = {} PROVE ConfigCore'
  <2>1. marred = {}
    <3>1. marred \subseteq marred'
      <4>1. ASSUME NEW kind PROVE Mark(kind) => marred \subseteq marred'
        BY DEF Mark
      <4>2. ASSUME NEW g, NEW ok, PartEnds(g, ok) PROVE marred \subseteq marred'
        BY <4>2 DEF PartEnds, Mark
      <4>3. ASSUME NEW g, NEW i, NEW ok, FolderEnds(g, i, ok) PROVE marred \subseteq marred'
        BY <4>2, <4>3 DEF FolderEnds, Mark
      <4>4. ASSUME NEW g \in Goroutines, StoreAction(g) PROVE marred \subseteq marred'
        <5>1. StoreActs(g)
          BY <4>4, StoreActionActs
        <5> QED
          BY <4>2, <5>1 DEF StoreActs, StoreStep
      <4>5. ASSUME NEW g \in Goroutines, GoroutineStep(g) PROVE marred \subseteq marred'
        <5>1. CASE NextPart(g)
          BY <5>1 DEF NextPart
        <5>2. CASE UserCertPart(g)
          BY <4>2, <5>2 DEF UserCertPart
        <5>3. CASE AdminPart(g)
          BY <5>3 DEF AdminPart
        <5>4. CASE \E i \in Folders : SwitchFirst(g, i)
          BY <4>3, <5>4 DEF SwitchFirst
        <5>5. CASE SwitchSecond(g)
          BY <4>3, <5>5 DEF SwitchSecond
        <5>6. CASE SwitchBack(g)
          BY <4>1, <4>3, <5>6 DEF SwitchBack
        <5>7. CASE SwitchLost(g) \/ FoldersEnd(g)
          BY <4>2, <4>3, <5>7 DEF SwitchLost, FoldersEnd
        <5> QED
          BY <4>4, <4>5, <5>1, <5>2, <5>3, <5>4, <5>5, <5>6, <5>7 DEF GoroutineStep, StoreAction
      <4>6. CASE (\E group \in ConfigGroups : SetUp(group)) \/ Revert \/ CommandEnds
        BY <4>6 DEF SetUp, Revert, Begins, CommandEnds
      <4>7. CASE Signal \/ StopConfig
        BY <4>7 DEF Signal, StopConfig, Mark
      <4>8. CASE (\E i \in Folders : Play(i)) \/ UNCHANGED configVars
        BY <4>8 DEF Play, configVars
      <4> QED
        BY <4>5, <4>6, <4>7, <4>8 DEF ConfigNext
    <3> QED
      BY <1>2, <3>1
  <2>2. ConfigCore
    BY <2>1 DEF ConfigIInv
  <2>3. CASE \E g \in Goroutines : GoroutineStep(g)
    BY <1>1, <1>2, <2>2, <2>3, GoroutineInv
  <2>4. CASE \E group \in ConfigGroups : SetUp(group)
    <3>1. PICK group \in ConfigGroups : SetUp(group)
      BY <2>4
    <3>2. /\ group \in SUBSET ConfigParts
          /\ "admin" \in group => group \cap FolderParts = {}
      BY ConfigAssumption DEF FolderParts
    <3> QED
      BY <1>1, <2>2, <3>1, <3>2, BeginsInv DEF SetUp
  <2>5. CASE Revert
    BY <1>1, <2>2, <2>5, BeginsInv DEF Revert, ConfigTypes, ConfigTypeOK
  <2>6. CASE CommandEnds
    BY <1>1, <2>2, <2>6, CommandEndsInv
  <2>7. ~Signal /\ ~StopConfig
    BY <1>2 DEF Signal, StopConfig, Mark
  <2>8. CASE \E i \in Folders : Play(i)
    BY <1>1, <2>2, <2>8, PlayInv
  <2>9. CASE UNCHANGED configVars
    <3>1. UNCHANGED <<dirs, flags, command, done, tasks, failed>>
      BY <2>9 DEF configVars, folderVars
    <3>2. CommandsAgree' /\ TasksAgree' /\ FoldersAgree' /\ MainTask' = MainTask
      BY <2>2, <3>1 DEF ConfigCore, CommandsAgree, TasksAgree, FoldersAgree, Running, MainTask,
        IsNext, Place, Candidates, Task, PartOf
    <3>3. \A i \in Folders : FolderHolds(i)'
      BY <2>2, <3>1 DEF ConfigCore, FolderHolds, WorkedOn, InHand, Exchanged, Halfway, BacksUp,
        SetsUp, Task, MainTask, Status, Changed, Settled, Fresh, Foreign, Home, Away, PartOf
    <3> QED
      BY <3>2, <3>3 DEF ConfigCore
  <2> QED
    BY <2>3, <2>4, <2>5, <2>6, <2>7, <2>8, <2>9 DEF ConfigNext
<1> QED
  BY <1>1, <1>2 DEF ConfigIInv

\* In whatever order the launcher sets up and reverts, and whatever fails and is undone, the
\* folders of the user's are the active ones when nothing is set up, and wait, with nothing in the
\* way of their return, when something is (Backup, Restore, undoSetUp, undoRevert).
THEOREM OwnFoldersCorrect == ConfigSpec => []OwnFoldersReturn
<1>1. ConfigIInv => OwnFoldersReturn
  <2> SUFFICES ASSUME ConfigIInv, ~Running, marred = {}, NEW i \in Folders, Has(i)
               PROVE  IF PartOf(i) \in flags /\ dirs[i].active # "own"
                      THEN dirs[i].bak = "own" /\ dirs[i].lan = "none"
                      ELSE dirs[i].active = "own"
    BY DEF OwnFoldersReturn
  <2>1. Settled(dirs[i], PartOf(i) \in flags)
    BY FoldersAtRest DEF ConfigIInv
  <2>2. ~Fresh(dirs[i]) /\ ~Foreign(dirs[i])
    BY DEF Has, Fresh, Foreign
  <2> QED
    BY <2>1, <2>2 DEF Settled, Away, Home
<1> QED
  BY <1>1, ConfigInitInv, ConfigNextInv, PTL DEF ConfigSpec

-----------------------------------------------------------------------------
\* The user's lines return. First what the two directions make of any lines of a hosts file, which
\* AddHosts and RemoveHosts compute one line after the other; a function that is defined so is
\* shown to exist, and what holds of it, by counting up to its last step.

\* Of a set of numbers one is the least.
LEMMA LeastOne ==
  ASSUME NEW T, T \subseteq Nat, T # {}
  PROVE  \E m \in T : \A k \in T : m <= k
<1> DEFINE R == {ss \in Nat \X Nat : ss[1] < ss[2]}
<1>1. IsWellFoundedOn(R, Nat)
  BY NatLessThanWellFounded DEF OpToRel
<1> HIDE DEF R
<1>2. PICK m \in T : \A k \in T : ~(<<k, m>> \in R)
  BY <1>1, WFMin
<1>3. ASSUME NEW k \in T PROVE m <= k
  <2>1. m \in Nat /\ k \in Nat
    OBVIOUS
  <2>2. k < m => <<k, m>> \in R
    BY <2>1, Zenon DEF R
  <2> QED  BY <1>2, <2>1, <2>2
<1> QED  BY <1>3

\* What holds at first, and one further whenever it holds, holds to the end.
LEMMA ByCounting ==
  ASSUME NEW n \in Nat, NEW S, 0 \in S, \A k \in 0 .. n : k < n /\ k \in S => k + 1 \in S
  PROVE  \A k \in 0 .. n : k \in S
<1> DEFINE T == {k \in 0 .. n : k \notin S}
<1> SUFFICES ASSUME T # {} PROVE FALSE
  OBVIOUS
<1>1. PICK m \in T : \A k \in T : m <= k
  <2>1. T \subseteq Nat /\ T # {}
    OBVIOUS
  <2> HIDE DEF T
  <2> QED  BY <2>1, LeastOne
<1>2. m # 0 /\ m - 1 \in 0 .. n /\ m - 1 < n /\ m - 1 \notin T
  BY <1>1
<1> QED  BY <1>2

-----------------------------------------------------------------------------
Stepwise(f, base, n, G) == f[0] = base /\ \A k \in 1 .. n : f[k] = G[<<f[k - 1], k>>]

\* What is computed in n steps, each from the value before it, exists.
LEMMA StepsExist ==
  ASSUME NEW X, NEW base, NEW n, NEW G, base \in X /\ n \in Nat /\ G \in [X \X (1 .. n) -> X]
  PROVE  \E f \in [0 .. n -> X] : Stepwise(f, base, n, G)
<1> USE DEF Stepwise
<1> DEFINE Holds(f, m) == Stepwise(f, base, m, G)
           S == {m \in 0 .. n : \E f \in [0 .. m -> X] : Holds(f, m)}
<1>1. 0 \in S
  <2> DEFINE f == [k \in 0 .. 0 |-> base]
  <2>1. f \in [0 .. 0 -> X] /\ Holds(f, 0)
    OBVIOUS
  <2> HIDE DEF f, Holds
  <2>2. \E h \in [0 .. 0 -> X] : Holds(h, 0)
    BY <2>1
  <2> QED  BY <2>2
<1>2. ASSUME NEW m \in 0 .. n, m < n, m \in S PROVE m + 1 \in S
  <2>1. PICK f \in [0 .. m -> X] : Holds(f, m)
    BY <1>2
  <2> DEFINE next == G[<<f[m], m + 1>>]
             h == [k \in 0 .. m + 1 |-> IF k = m + 1 THEN next ELSE f[k]]
  <2>2. m \in Nat /\ m + 1 \in 1 .. n /\ f[m] \in X
    BY <1>2, <2>1
  <2>3. next \in X
    BY <2>2
  <2> HIDE DEF next
  <2>4. h \in [0 .. m + 1 -> X]
    BY <2>2, <2>3
  <2>5. h[m + 1] = next /\ \A k \in 0 .. m : h[k] = f[k]
    BY <2>2
  <2> HIDE DEF h
  <2>6. h[0] = base
    BY <2>1, <2>2, <2>5
  <2>7. ASSUME NEW k \in 1 .. m + 1 PROVE h[k] = G[<<h[k - 1], k>>]
    <3>1. CASE k = m + 1
      BY <2>2, <2>5, <3>1 DEF next
    <3>2. CASE k # m + 1
      <4>1. k \in 1 .. m /\ k - 1 \in 0 .. m /\ k \in 0 .. m
        BY <2>2, <3>2
      <4> QED  BY <2>1, <2>5, <4>1
    <3> QED  BY <3>1, <3>2
  <2>8. Holds(h, m + 1)
    BY <2>6, <2>7
  <2> QED  BY <2>2, <2>4, <2>8
<1>3. \A m \in 0 .. n : m \in S
  <2> HIDE DEF S
  <2>1. \A k \in 0 .. n : k < n /\ k \in S => k + 1 \in S
    BY <1>2, Zenon
  <2> QED  BY <1>1, <2>1, ByCounting, Zenon
<1>4. n \in 0 .. n
  OBVIOUS
<1> QED  BY <1>3, <1>4, Zenon

-----------------------------------------------------------------------------
\* What is left of a sequence, one element after the other.
IsLeft(g, s, D) ==
  g = [n \in 0 .. Len(s) |->
         IF n = 0 THEN <<>> ELSE IF s[n] \in D THEN g[n - 1] ELSE Append(g[n - 1], s[n])]

LeftUpTo(g, s, D, m) ==
  /\ g[0] = <<>>
  /\ \A n \in 1 .. m : g[n] = IF s[n] \in D THEN g[n - 1] ELSE Append(g[n - 1], s[n])

LEMMA LeftExists ==
  ASSUME NEW X, NEW s \in Seq(X), NEW D
  PROVE  \E g \in [0 .. Len(s) -> Seq(X)] : LeftUpTo(g, s, D, Len(s))
<1> DEFINE step(u, n) == IF s[n] \in D THEN u ELSE Append(u, s[n])
           G == [a \in Seq(X) \X (1 .. Len(s)) |-> step(a[1], a[2])]
<1>1. Len(s) \in Nat /\ <<>> \in Seq(X)
  OBVIOUS
<1>2. \A u \in Seq(X), n \in 1 .. Len(s) : step(u, n) \in Seq(X) /\ G[<<u, n>>] = step(u, n)
  OBVIOUS
<1>3. G \in [Seq(X) \X (1 .. Len(s)) -> Seq(X)]
  <2>1. \A a \in Seq(X) \X (1 .. Len(s)) : a[1] \in Seq(X) /\ a[2] \in 1 .. Len(s)
    OBVIOUS
  <2> HIDE DEF step
  <2> QED  BY <1>2, <2>1
<1> HIDE DEF G
<1>4. PICK g \in [0 .. Len(s) -> Seq(X)] :
        g[0] = <<>> /\ \A n \in 1 .. Len(s) : g[n] = G[<<g[n - 1], n>>]
  <2> DEFINE Y == Seq(X)
             e == <<>>
             n == Len(s)
  <2>1. e \in Y /\ n \in Nat /\ G \in [Y \X (1 .. n) -> Y]
    BY <1>1, <1>3
  <2> HIDE DEF Y, e, n
  <2>2. \E g \in [0 .. n -> Y] : Stepwise(g, e, n, G)
    BY <2>1, StepsExist
  <2> QED  BY <2>2 DEF Y, e, n, Stepwise
<1>5. \A n \in 1 .. Len(s) : g[n - 1] \in Seq(X)
  BY <1>1
<1>6. \A n \in 1 .. Len(s) : g[n] = step(g[n - 1], n)
  BY <1>2, <1>4, <1>5
<1> QED  BY <1>4, <1>6 DEF LeftUpTo

LEMMA RemainingIsLeft ==
  ASSUME NEW X, NEW s \in Seq(X), NEW D
  PROVE  \E g \in [0 .. Len(s) -> Seq(X)] :
           LeftUpTo(g, s, D, Len(s)) /\ Remaining(s, D) = g[Len(s)]
<1> DEFINE g == CHOOSE h : IsLeft(h, s, D)
<1>1. Len(s) \in Nat /\ \A n \in 1 .. Len(s) : s[n] \in X
  OBVIOUS
<1>2. PICK f \in [0 .. Len(s) -> Seq(X)] : LeftUpTo(f, s, D, Len(s))
  BY LeftExists
<1>3. IsLeft(f, s, D)
  <2> DEFINE step(n) ==
        IF n = 0 THEN <<>> ELSE IF s[n] \in D THEN f[n - 1] ELSE Append(f[n - 1], s[n])
  <2>1. ASSUME NEW n \in 0 .. Len(s) PROVE f[n] = step(n)
    <3>1. n = 0 \/ n \in 1 .. Len(s)
      BY <1>1
    <3> QED  BY <1>2, <3>1 DEF LeftUpTo
  <2> HIDE DEF step
  <2>2. f = [n \in 0 .. Len(s) |-> step(n)]
    BY <2>1
  <2> QED  BY <2>2 DEF IsLeft, step
<1>4. IsLeft(g, s, D)
  BY <1>3
<1>5. Remaining(s, D) = g[Len(s)]
  BY DEF Remaining, IsLeft
<1> HIDE DEF g
<1>6. LeftUpTo(g, s, D, Len(s))
  <2>1. g[0] = <<>>
    <3>1. 0 \in 0 .. Len(s)
      BY <1>1
    <3> QED  BY <1>4, <3>1, Zenon DEF IsLeft
  <2>2. ASSUME NEW n \in 1 .. Len(s)
        PROVE  g[n] = IF s[n] \in D THEN g[n - 1] ELSE Append(g[n - 1], s[n])
    <3>1. n \in 0 .. Len(s) /\ n # 0
      BY <1>1
    <3> QED  BY <1>4, <3>1, Zenon DEF IsLeft
  <2> QED  BY <2>1, <2>2 DEF LeftUpTo
<1> DEFINE S == {m \in 0 .. Len(s) : g[m] \in Seq(X)}
<1>7. 0 \in S
  <2>1. 0 \in 0 .. Len(s) /\ <<>> \in Seq(X)
    BY <1>1
  <2> QED  BY <1>6, <2>1 DEF LeftUpTo
<1>8. ASSUME NEW m \in 0 .. Len(s), m < Len(s), m \in S PROVE m + 1 \in S
  <2>1. m + 1 \in 1 .. Len(s) /\ s[m + 1] \in X /\ (m + 1) - 1 = m
    BY <1>1, <1>8
  <2>2. g[m + 1] = IF s[m + 1] \in D THEN g[m] ELSE Append(g[m], s[m + 1])
    BY <1>6, <2>1 DEF LeftUpTo
  <2>3. g[m + 1] \in Seq(X)
    BY <1>8, <2>1, <2>2
  <2> QED  BY <1>1, <2>1, <2>3
<1>9. \A m \in 0 .. Len(s) : m \in S
  <2> HIDE DEF S
  <2> QED  BY <1>1, <1>7, <1>8, ByCounting
<1>10. g = [m \in 0 .. Len(s) |-> g[m]]
  BY <1>4 DEF IsLeft
<1> QED  BY <1>5, <1>6, <1>9, <1>10

LEMMA RemainingType ==
  ASSUME NEW X, NEW s \in Seq(X), NEW D
  PROVE  Remaining(s, D) \in Seq(X)
<1>1. Len(s) \in 0 .. Len(s)
  OBVIOUS
<1> QED  BY <1>1, RemainingIsLeft

LEMMA RemainingOfNone ==
  ASSUME NEW D
  PROVE  Remaining(<<>>, D) = <<>>
<1>1. <<>> \in Seq({}) /\ Len(<<>>) = 0
  OBVIOUS
<1>2. PICK g : LeftUpTo(g, <<>>, D, Len(<<>>)) /\ Remaining(<<>>, D) = g[Len(<<>>)]
  <2> DEFINE e == <<>>
  <2>1. e \in Seq({})
    OBVIOUS
  <2> HIDE DEF e
  <2>2. \E g : LeftUpTo(g, e, D, Len(e)) /\ Remaining(e, D) = g[Len(e)]
    BY <2>1, RemainingIsLeft
  <2> QED  BY <2>2 DEF e
<1> QED  BY <1>1, <1>2 DEF LeftUpTo

\* One element more at the end; what counts of D is what it says of the elements.
LEMMA RemainingAppend ==
  ASSUME NEW X, NEW s \in Seq(X), NEW x \in X, NEW D, NEW E,
         \A i \in 1 .. Len(s) : s[i] \in D <=> s[i] \in E
  PROVE  Remaining(Append(s, x), E) =
           IF x \in E THEN Remaining(s, D) ELSE Append(Remaining(s, D), x)
<1> DEFINE t == Append(s, x)
<1>1. /\ t \in Seq(X) /\ Len(s) \in Nat /\ Len(t) = Len(s) + 1 /\ t[Len(s) + 1] = x
      /\ \A i \in 1 .. Len(s) : t[i] = s[i]
  OBVIOUS
<1> HIDE DEF t
<1>2. PICK g : LeftUpTo(g, s, D, Len(s)) /\ Remaining(s, D) = g[Len(s)]
  BY RemainingIsLeft
<1>3. PICK h : LeftUpTo(h, t, E, Len(t)) /\ Remaining(t, E) = h[Len(t)]
  BY <1>1, RemainingIsLeft
<1> DEFINE S == {m \in 0 .. Len(s) : h[m] = g[m]}
<1>4. 0 \in S
  BY <1>1, <1>2, <1>3 DEF LeftUpTo
<1>5. ASSUME NEW m \in 0 .. Len(s), m < Len(s), m \in S PROVE m + 1 \in S
  <2>1. m + 1 \in 1 .. Len(s) /\ m + 1 \in 1 .. Len(t) /\ (m + 1) - 1 = m
    BY <1>1, <1>5
  <2>2. g[m + 1] = IF s[m + 1] \in D THEN g[m] ELSE Append(g[m], s[m + 1])
    BY <1>2, <2>1 DEF LeftUpTo
  <2>3. h[m + 1] = IF t[m + 1] \in E THEN h[m] ELSE Append(h[m], t[m + 1])
    BY <1>3, <2>1 DEF LeftUpTo
  <2>4. t[m + 1] = s[m + 1] /\ (s[m + 1] \in D <=> s[m + 1] \in E)
    BY <1>1, <2>1
  <2> QED  BY <1>1, <1>5, <2>1, <2>2, <2>3, <2>4
<1>6. h[Len(s)] = g[Len(s)]
  <2>1. \A m \in 0 .. Len(s) : m \in S
    <3> HIDE DEF S
    <3>1. \A k \in 0 .. Len(s) : k < Len(s) /\ k \in S => k + 1 \in S
      BY <1>5, Zenon
    <3> QED  BY <1>1, <1>4, <3>1, ByCounting, Zenon
  <2> QED  BY <1>1, <2>1
<1>7. h[Len(s) + 1] = IF x \in E THEN h[Len(s)] ELSE Append(h[Len(s)], x)
  BY <1>1, <1>3 DEF LeftUpTo
<1> QED  BY <1>1, <1>2, <1>3, <1>6, <1>7 DEF t

\* Nothing goes of a sequence that has nothing of D.
LEMMA RemainingOfAll ==
  ASSUME NEW X, NEW s \in Seq(X), NEW D, \A i \in 1 .. Len(s) : s[i] \notin D
  PROVE  Remaining(s, D) = s
<1>1. Len(s) \in Nat
  OBVIOUS
<1>2. PICK g : LeftUpTo(g, s, D, Len(s)) /\ Remaining(s, D) = g[Len(s)]
  BY RemainingIsLeft
<1> DEFINE S == {m \in 0 .. Len(s) : g[m] = SubSeq(s, 1, m)}
<1>3. 0 \in S
  <2>1. 0 \in 0 .. Len(s) /\ SubSeq(s, 1, 0) = <<>>
    BY <1>1
  <2> QED  BY <1>2, <2>1 DEF LeftUpTo
<1>4. ASSUME NEW m \in 0 .. Len(s), m < Len(s), m \in S PROVE m + 1 \in S
  <2>1. m + 1 \in 1 .. Len(s) /\ (m + 1) - 1 = m
    BY <1>1, <1>4
  <2>2. g[m + 1] = Append(g[m], s[m + 1])
    BY <1>2, <2>1 DEF LeftUpTo
  <2>3. Append(SubSeq(s, 1, m), s[m + 1]) = SubSeq(s, 1, m + 1)
    BY <1>1, <2>1
  <2>4. g[m] = SubSeq(s, 1, m) /\ m + 1 \in 0 .. Len(s)
    BY <1>1, <1>4
  <2>5. g[m + 1] = SubSeq(s, 1, m + 1)
    BY <2>2, <2>3, <2>4, Zenon
  <2> QED  BY <2>4, <2>5, Zenon
<1>5. g[Len(s)] = SubSeq(s, 1, Len(s))
  <2>1. \A m \in 0 .. Len(s) : m \in S
    <3> HIDE DEF S
    <3>1. \A k \in 0 .. Len(s) : k < Len(s) /\ k \in S => k + 1 \in S
      BY <1>4, Zenon
    <3> QED  BY <1>1, <1>3, <3>1, ByCounting, Zenon
  <2> QED  BY <1>1, <2>1
<1> QED  BY <1>1, <1>2, <1>5

-----------------------------------------------------------------------------
\* What RemoveHosts takes out in place: what it drops, and what becomes of the rest.
Dropped(l) == l.own /\ ~l.off
Restored(l) == IF l.own /\ l.off THEN [l EXCEPT !.own = FALSE, !.off = FALSE] ELSE l

LEMMA TakeOutIs ==
  ASSUME NEW s \in Seq(HostsLine)
  PROVE  /\ Remaining(s, {l \in Range(s) : Dropped(l)}) \in Seq(HostsLine)
         /\ TakeOut(s) = [i \in DOMAIN Remaining(s, {l \in Range(s) : Dropped(l)}) |->
                            Restored(Remaining(s, {l \in Range(s) : Dropped(l)})[i])]
<1>1. Remaining(s, {l \in Range(s) : Dropped(l)}) \in Seq(HostsLine)
  BY RemainingType
<1> QED  BY <1>1 DEF TakeOut, Dropped, Restored

LEMMA RestoredType ==
  ASSUME NEW l \in HostsLine
  PROVE  Restored(l) \in HostsLine
BY DEF Restored, HostsLine

LEMMA TakeOutType ==
  ASSUME NEW s \in Seq(HostsLine)
  PROVE  TakeOut(s) \in Seq(HostsLine)
<1> DEFINE left == Remaining(s, {l \in Range(s) : Dropped(l)})
<1>1. left \in Seq(HostsLine) /\ TakeOut(s) = [i \in DOMAIN left |-> Restored(left[i])]
  BY TakeOutIs
<1> HIDE DEF left
<1>2. Len(left) \in Nat /\ DOMAIN left = 1 .. Len(left)
  BY <1>1
<1>3. \A i \in 1 .. Len(left) : Restored(left[i]) \in HostsLine
  BY <1>1, RestoredType
<1> QED  BY <1>1, <1>2, <1>3

LEMMA TakeOutOfNone == TakeOut(<<>>) = <<>>
<1> DEFINE e == <<>>
<1>1. e \in Seq(HostsLine) /\ \A D : Remaining(e, D) = e
  BY RemainingOfNone
<1>2. DOMAIN e = {} /\ e = [i \in {} |-> Restored(e[i])]
  OBVIOUS
<1> HIDE DEF e
<1>3. TakeOut(e) = [i \in DOMAIN e |-> Restored(e[i])]
  BY <1>1, TakeOutIs
<1>4. TakeOut(e) = e
  BY <1>2, <1>3
<1> QED  BY <1>4 DEF e

LEMMA TakeOutAppend ==
  ASSUME NEW s \in Seq(HostsLine), NEW l \in HostsLine
  PROVE  TakeOut(Append(s, l)) =
           IF Dropped(l) THEN TakeOut(s) ELSE Append(TakeOut(s), Restored(l))
<1> DEFINE t == Append(s, l)
           D == {x \in Range(s) : Dropped(x)}
           E == {x \in Range(t) : Dropped(x)}
           left == Remaining(s, D)
           rest == Remaining(t, E)
<1>1. /\ t \in Seq(HostsLine) /\ Len(s) \in Nat
      /\ DOMAIN t = 1 .. Len(s) + 1 /\ t[Len(s) + 1] = l
      /\ \A i \in 1 .. Len(s) : t[i] = s[i]
  OBVIOUS
<1>2. /\ left \in Seq(HostsLine) /\ TakeOut(s) = [i \in DOMAIN left |-> Restored(left[i])]
      /\ TakeOut(t) = [i \in DOMAIN rest |-> Restored(rest[i])]
  BY <1>1, TakeOutIs
<1>3. \A i \in 1 .. Len(s) : s[i] \in D <=> s[i] \in E
  <2>1. \A i \in 1 .. Len(s) : s[i] \in Range(s) /\ s[i] \in Range(t)
    <3> HIDE DEF t
    <3>1. \A i \in 1 .. Len(s) : i \in DOMAIN t /\ i \in DOMAIN s
      BY <1>1
    <3> QED  BY <1>1, <3>1 DEF Range
  <2> QED  BY <2>1
<1>4. l \in E <=> Dropped(l)
  <2>1. l \in Range(t)
    <3> HIDE DEF t
    <3> QED  BY <1>1 DEF Range
  <2> QED  BY <2>1
<1>5. rest = IF l \in E THEN left ELSE Append(left, l)
  <2> HIDE DEF D, E
  <2> QED  BY <1>3, RemainingAppend
<1> HIDE DEF t, D, E, left, rest
<1>6. CASE Dropped(l)
  BY <1>2, <1>4, <1>5, <1>6 DEF t
<1>7. CASE ~Dropped(l)
  <2>1. /\ rest = Append(left, l) /\ Len(left) \in Nat
        /\ DOMAIN left = 1 .. Len(left) /\ DOMAIN rest = 1 .. Len(left) + 1
        /\ rest[Len(left) + 1] = l /\ \A i \in 1 .. Len(left) : rest[i] = left[i]
    BY <1>2, <1>4, <1>5, <1>7
  <2>2. /\ TakeOut(s) \in Seq(HostsLine) /\ Restored(l) \in HostsLine
        /\ Len(TakeOut(s)) = Len(left)
    <3>1. TakeOut(s) \in Seq(HostsLine) /\ DOMAIN TakeOut(s) = 1 .. Len(left)
      BY <1>2, <2>1, TakeOutType
    <3> QED  BY <2>1, <3>1, RestoredType
  <2> DEFINE r == Append(TakeOut(s), Restored(l))
  <2>3. /\ r \in Seq(HostsLine) /\ DOMAIN r = 1 .. Len(left) + 1
        /\ r[Len(left) + 1] = Restored(l)
        /\ \A i \in 1 .. Len(left) : r[i] = TakeOut(s)[i]
    BY <2>1, <2>2
  <2> HIDE DEF r
  <2>4. r = [i \in DOMAIN r |-> r[i]]
    BY <2>3
  <2>5. ASSUME NEW i \in 1 .. Len(left) + 1 PROVE r[i] = Restored(rest[i])
    <3>1. CASE i = Len(left) + 1
      BY <2>1, <2>3, <3>1
    <3>2. CASE i # Len(left) + 1
      <4>1. i \in 1 .. Len(left)
        BY <2>1, <3>2
      <4>2. TakeOut(s)[i] = Restored(left[i])
        BY <1>2, <2>1, <4>1
      <4> QED  BY <2>1, <2>3, <4>1, <4>2
    <3> QED  BY <3>1, <3>2
  <2>6. r = [i \in DOMAIN rest |-> Restored(rest[i])]
    BY <2>1, <2>3, <2>4, <2>5
  <2> QED  BY <1>2, <1>7, <2>6 DEF r, t
<1> QED  BY <1>6, <1>7

LEMMA UserLineIs ==
  ASSUME NEW l, IsUserLine(l)
  PROVE  l \in HostsLine /\ ~Dropped(l) /\ Restored(l) = l
BY DEF IsUserLine, HostsLine, Dropped, Restored

AreUserLines(s) == s \in Seq(HostsLine) /\ \A i \in 1 .. Len(s) : IsUserLine(s[i])

\* It leaves the user's lines as they are.
LEMMA TakeOutOfUsers ==
  ASSUME NEW s, AreUserLines(s)
  PROVE  TakeOut(s) = s
<1>1. s \in Seq(HostsLine) /\ Len(s) \in Nat
  BY DEF AreUserLines
<1> DEFINE S == {m \in 0 .. Len(s) : TakeOut(SubSeq(s, 1, m)) = SubSeq(s, 1, m)}
<1>2. 0 \in S
  <2>1. 0 \in 0 .. Len(s) /\ SubSeq(s, 1, 0) = <<>>
    BY <1>1
  <2> QED  BY <2>1, TakeOutOfNone
<1>3. ASSUME NEW m \in 0 .. Len(s), m < Len(s), m \in S PROVE m + 1 \in S
  <2>1. m + 1 \in 1 .. Len(s) /\ m + 1 \in 0 .. Len(s) /\ s[m + 1] \in HostsLine
    BY <1>1, <1>3
  <2>2. Append(SubSeq(s, 1, m), s[m + 1]) = SubSeq(s, 1, m + 1)
    BY <1>1, <2>1
  <2>3. SubSeq(s, 1, m) \in Seq(HostsLine)
    BY <1>1
  <2>4. ~Dropped(s[m + 1]) /\ Restored(s[m + 1]) = s[m + 1]
    BY <2>1, UserLineIs DEF AreUserLines
  <2>5. TakeOut(SubSeq(s, 1, m + 1)) = SubSeq(s, 1, m + 1)
    BY <1>3, <2>1, <2>2, <2>3, <2>4, TakeOutAppend
  <2> QED  BY <2>1, <2>5
<1>4. Len(s) \in S
  <2>1. \A m \in 0 .. Len(s) : m \in S
    <3> HIDE DEF S
    <3> QED  BY <1>1, <1>2, <1>3, ByCounting
  <2> QED  BY <1>1, <2>1
<1>5. SubSeq(s, 1, Len(s)) = s
  BY <1>1
<1> QED  BY <1>4, <1>5

LEMMA AppendLater ==
  ASSUME NEW s \in Seq(HostsLine), NEW u \in Seq(HostsLine), NEW e \in HostsLine
  PROVE  Append(s \o u, e) = s \o Append(u, e)
<1> DEFINE a == Append(s \o u, e)
           b == s \o Append(u, e)
<1>1. /\ a \in Seq(HostsLine) /\ Len(a) = Len(s) + Len(u) + 1 /\ Len(s) \in Nat /\ Len(u) \in Nat
      /\ b \in Seq(HostsLine) /\ Len(b) = Len(s) + Len(u) + 1
  OBVIOUS
<1>2. ASSUME NEW i \in 1 .. Len(s) + Len(u) + 1 PROVE a[i] = b[i]
  <2>1. CASE i \in 1 .. Len(s)
    BY <1>1, <2>1
  <2>2. CASE i \in Len(s) + 1 .. Len(s) + Len(u)
    BY <1>1, <2>2
  <2>3. CASE i = Len(s) + Len(u) + 1
    BY <1>1, <2>3
  <2> QED  BY <1>1, <2>1, <2>2, <2>3
<1> HIDE DEF a, b
<1>3. a = b
  BY <1>1, <1>2
<1> QED  BY <1>3 DEF a, b

\* It drops what was added at the end.
LEMMA TakeOutOfAdded ==
  ASSUME NEW s \in Seq(HostsLine), NEW t \in Seq(HostsLine),
         \A i \in 1 .. Len(t) : Dropped(t[i])
  PROVE  TakeOut(s \o t) = TakeOut(s)
<1>1. Len(t) \in Nat
  OBVIOUS
<1> DEFINE S == {m \in 0 .. Len(t) : TakeOut(s \o SubSeq(t, 1, m)) = TakeOut(s)}
<1>2. 0 \in S
  <2>1. 0 \in 0 .. Len(t) /\ s \o SubSeq(t, 1, 0) = s
    BY <1>1
  <2> QED  BY <2>1
<1>3. ASSUME NEW m \in 0 .. Len(t), m < Len(t), m \in S PROVE m + 1 \in S
  <2>1. m + 1 \in 1 .. Len(t) /\ m + 1 \in 0 .. Len(t) /\ t[m + 1] \in HostsLine
    BY <1>1, <1>3
  <2>2. Append(SubSeq(t, 1, m), t[m + 1]) = SubSeq(t, 1, m + 1)
    BY <1>1, <2>1
  <2>3. SubSeq(t, 1, m) \in Seq(HostsLine) /\ s \o SubSeq(t, 1, m) \in Seq(HostsLine)
    BY <1>1
  <2>4. Append(s \o SubSeq(t, 1, m), t[m + 1]) = s \o Append(SubSeq(t, 1, m), t[m + 1])
    <3> DEFINE u == SubSeq(t, 1, m)
               e == t[m + 1]
    <3>1. u \in Seq(HostsLine) /\ e \in HostsLine
      BY <2>1, <2>3
    <3> HIDE DEF u, e
    <3>2. Append(s \o u, e) = s \o Append(u, e)
      BY <3>1, AppendLater, Zenon
    <3> QED  BY <3>2 DEF u, e
  <2>5. TakeOut(Append(s \o SubSeq(t, 1, m), t[m + 1])) = TakeOut(s \o SubSeq(t, 1, m))
    BY <2>1, <2>3, TakeOutAppend, Zenon
  <2>6. TakeOut(s \o SubSeq(t, 1, m + 1)) = TakeOut(s)
    BY <1>3, <2>2, <2>4, <2>5, Zenon
  <2> QED  BY <2>1, <2>6, Zenon
<1>4. Len(t) \in S
  <2>1. \A m \in 0 .. Len(t) : m \in S
    <3> HIDE DEF S
    <3>1. \A k \in 0 .. Len(t) : k < Len(t) /\ k \in S => k + 1 \in S
      BY <1>3, Zenon
    <3> QED  BY <1>1, <1>2, <3>1, ByCounting, Zenon
  <2> QED  BY <1>1, <2>1
<1>5. SubSeq(t, 1, Len(t)) = t
  BY <1>1
<1> QED  BY <1>4, <1>5

-----------------------------------------------------------------------------
\* What AddHosts makes of the lines
Rest == [missing : SUBSET GameHosts, lines : Seq(HostsLine)]

Right(rest, l) == IF l.ip = ServerIp THEN Range(Usable(l)) \cap rest.missing ELSE {}
Avoided(rest, l) == Range(Usable(l)) \cap (Right(rest, l) \cup {Hostname})
KeptHosts(rest, l) == Remaining(Usable(l), Avoided(rest, l))
Cut(rest, l) == Avoided(rest, l) # {} \/ Len(l.hosts) > MaxHosts

\* The line itself, commented out, and what is kept of it.
Aside(rest, l) == IF Cut(rest, l) THEN <<Commented(l)>> ELSE <<>>
Staying(rest, l) ==
  IF KeptHosts(rest, l) = <<>> THEN <<>>
  ELSE <<Line(l.ip, KeptHosts(rest, l), Cut(rest, l), FALSE)>>

LEMMA TakeLineIs ==
  ASSUME NEW rest, NEW l
  PROVE  TakeLine(rest, l) =
           IF l.off THEN [rest EXCEPT !.lines = Append(@, l)]
           ELSE [missing |-> rest.missing \ Right(rest, l),
                 lines |-> rest.lines \o Aside(rest, l) \o Staying(rest, l)]
BY DEF TakeLine, Right, Avoided, KeptHosts, Cut, Aside, Staying

LEMMA UsableIs ==
  ASSUME NEW l \in HostsLine
  PROVE  /\ Usable(l) \in Seq(STRING)
         /\ Len(l.hosts) <= MaxHosts => Usable(l) = l.hosts
<1>1. l.hosts \in Seq(STRING) /\ Len(l.hosts) \in Nat /\ MaxHosts \in Nat
  BY HostsAssumption DEF HostsLine
<1> DEFINE h == l.hosts
           m == IF Len(h) > MaxHosts THEN MaxHosts ELSE Len(h)
<1>2. h \in Seq(STRING) /\ Len(h) \in Nat /\ m \in 0 .. Len(h)
  BY <1>1
<1>3. Usable(l) = SubSeq(h, 1, m)
  BY DEF Usable
<1>4. Len(h) <= MaxHosts => m = Len(h)
  BY <1>1
<1> HIDE DEF m, h
<1>5. SubSeq(h, 1, m) \in Seq(STRING) /\ SubSeq(h, 1, Len(h)) = h
  BY <1>2
<1>6. Usable(l) \in Seq(STRING)
  BY <1>3, <1>5
<1>7. Len(h) <= MaxHosts => Usable(l) = h
  BY <1>3, <1>4, <1>5
<1> QED  BY <1>6, <1>7 DEF h

LEMMA PiecesType ==
  ASSUME NEW rest \in Rest, NEW l \in HostsLine, ~l.off
  PROVE  /\ KeptHosts(rest, l) \in Seq(STRING) /\ Cut(rest, l) \in BOOLEAN
         /\ Commented(l) \in HostsLine
         /\ Line(l.ip, KeptHosts(rest, l), Cut(rest, l), FALSE) \in HostsLine
<1>1. KeptHosts(rest, l) \in Seq(STRING)
  BY UsableIs, RemainingType DEF KeptHosts
<1>2. Cut(rest, l) \in BOOLEAN
  BY DEF Cut
<1>3. Commented(l) \in HostsLine
  BY DEF Commented, HostsLine
<1>4. Line(l.ip, KeptHosts(rest, l), Cut(rest, l), FALSE) \in HostsLine
  BY <1>1, <1>2 DEF Line, HostsLine
<1> QED  BY <1>1, <1>2, <1>3, <1>4

\* A line that nothing is cut of stays as it is.
LEMMA WholeStays ==
  ASSUME NEW rest \in Rest, NEW l, IsUserLine(l), ~l.off, ~Cut(rest, l)
  PROVE  Staying(rest, l) = <<l>>
<1>1. /\ l \in HostsLine /\ l.hosts \in Seq(STRING) /\ l.hosts # <<>> /\ l.own = FALSE
      /\ Len(l.hosts) \in Nat
  BY DEF IsUserLine, HostsLine
<1>2. Usable(l) = l.hosts
  <2>1. Len(l.hosts) <= MaxHosts
    BY <1>1, HostsAssumption DEF Cut
  <2> QED  BY <1>1, <2>1, UsableIs
<1>3. KeptHosts(rest, l) = l.hosts
  <2>1. \A i \in 1 .. Len(l.hosts) : l.hosts[i] \notin Avoided(rest, l)
    BY DEF Cut
  <2> QED  BY <1>1, <1>2, <2>1, RemainingOfAll DEF KeptHosts
<1>4. Line(l.ip, l.hosts, FALSE, FALSE) = l
  BY <1>1 DEF Line, HostsLine
<1>5. Cut(rest, l) = FALSE
  BY DEF Cut
<1> QED  BY <1>1, <1>3, <1>4, <1>5 DEF Staying

\* The steps of AddHosts and RemoveHosts undo each other, line by line.
LEMMA TakeLineKeeps ==
  ASSUME NEW rest \in Rest, NEW l \in HostsLine
  PROVE  /\ TakeLine(rest, l) \in Rest
         /\ IsUserLine(l) => TakeOut(TakeLine(rest, l).lines) = Append(TakeOut(rest.lines), l)
<1>1. /\ rest = [missing |-> rest.missing, lines |-> rest.lines]
      /\ rest.missing \subseteq GameHosts /\ rest.lines \in Seq(HostsLine)
  BY DEF Rest
<1> DEFINE r == rest.lines
<1>2. CASE l.off
  <2>1. TakeLine(rest, l) = [missing |-> rest.missing, lines |-> Append(r, l)]
    BY <1>1, <1>2, TakeLineIs
  <2>2. Append(r, l) \in Seq(HostsLine)
    BY <1>1
  <2>3. IsUserLine(l) => TakeOut(Append(r, l)) = Append(TakeOut(r), l)
    BY <1>1, UserLineIs, TakeOutAppend
  <2> QED  BY <1>1, <2>1, <2>2, <2>3 DEF Rest
<1>3. CASE ~l.off
  <2> DEFINE c == Commented(l)
             k == Line(l.ip, KeptHosts(rest, l), Cut(rest, l), FALSE)
             all == r \o Aside(rest, l) \o Staying(rest, l)
  <2>1. TakeLine(rest, l) = [missing |-> rest.missing \ Right(rest, l), lines |-> all]
    BY <1>1, <1>3, TakeLineIs
  <2>2. c \in HostsLine /\ k \in HostsLine
    BY <1>3, PiecesType
  <2>3. Aside(rest, l) = IF Cut(rest, l) THEN <<c>> ELSE <<>>
    BY DEF Aside
  <2>4. Staying(rest, l) = IF KeptHosts(rest, l) = <<>> THEN <<>> ELSE <<k>>
    BY DEF Staying
  <2> HIDE DEF r, c, k
  <2>5. r \in Seq(HostsLine) /\ r \o Aside(rest, l) \in Seq(HostsLine) /\ all \in Seq(HostsLine)
    <3>1. r \in Seq(HostsLine)
      BY <1>1 DEF r
    <3>2. Aside(rest, l) \in Seq(HostsLine) /\ Staying(rest, l) \in Seq(HostsLine)
      BY <2>2, <2>3, <2>4
    <3> QED  BY <3>1, <3>2
  <2>6. /\ r \o <<c>> = Append(r, c) /\ r \o <<>> = r
        /\ \A u \in Seq(HostsLine) : u \o <<k>> = Append(u, k) /\ u \o <<>> = u
        /\ \A u \in Seq(HostsLine) : u \o <<l>> = Append(u, l)
    BY <2>2, <2>5
  <2>7. ASSUME IsUserLine(l) PROVE TakeOut(all) = Append(TakeOut(r), l)
    <3>1. CASE ~Cut(rest, l)
      <4>1. Staying(rest, l) = <<l>>
        BY <1>3, <2>7, <3>1, WholeStays
      <4>2. all = Append(r, l)
        BY <2>3, <2>5, <2>6, <3>1, <4>1
      <4> QED  BY <2>5, <2>7, <4>2, UserLineIs, TakeOutAppend
    <3>2. CASE Cut(rest, l)
      <4>1. ~Dropped(c) /\ Restored(c) = l
        BY <1>3, <2>7 DEF c, Commented, IsUserLine, HostsLine, Dropped, Restored
      <4>2. Append(r, c) \in Seq(HostsLine) /\ TakeOut(Append(r, c)) = Append(TakeOut(r), l)
        BY <2>2, <2>5, <4>1, TakeOutAppend
      <4>3. Dropped(k)
        BY <3>2 DEF k, Line, Dropped
      <4>4. TakeOut(Append(Append(r, c), k)) = TakeOut(Append(r, c))
        BY <2>2, <4>2, <4>3, TakeOutAppend
      <4>5. all = Append(Append(r, c), k) \/ all = Append(r, c)
        BY <2>3, <2>4, <2>6, <3>2, <4>2
      <4> QED  BY <4>2, <4>4, <4>5
    <3> QED  BY <3>1, <3>2
  <2> HIDE DEF all
  <2> QED  BY <1>1, <2>1, <2>5, <2>7 DEF r, Rest
<1> QED  BY <1>2, <1>3

IsTaken(g, s) ==
  g = [n \in 0 .. Len(s) |->
         IF n = 0 THEN [missing |-> GameHosts, lines |-> <<>>] ELSE TakeLine(g[n - 1], s[n])]

TakenUpTo(g, s, m) ==
  /\ g[0] = [missing |-> GameHosts, lines |-> <<>>]
  /\ \A n \in 1 .. m : g[n] = TakeLine(g[n - 1], s[n])

LEMMA TakenExists ==
  ASSUME NEW s \in Seq(HostsLine)
  PROVE  \E g \in [0 .. Len(s) -> Rest] : TakenUpTo(g, s, Len(s))
<1> DEFINE G == [a \in Rest \X (1 .. Len(s)) |-> TakeLine(a[1], s[a[2]])]
           first == [missing |-> GameHosts, lines |-> <<>>]
           n == Len(s)
<1>1. n \in Nat /\ first \in Rest
  BY DEF Rest
<1>2. \A u \in Rest, k \in 1 .. n : TakeLine(u, s[k]) \in Rest /\ G[<<u, k>>] = TakeLine(u, s[k])
  BY TakeLineKeeps
<1>3. G \in [Rest \X (1 .. n) -> Rest]
  <2>1. \A a \in Rest \X (1 .. n) : a[1] \in Rest /\ a[2] \in 1 .. n
    OBVIOUS
  <2> QED  BY <1>2, <2>1
<1> HIDE DEF G, first, n
<1>4. PICK g \in [0 .. n -> Rest] : Stepwise(g, first, n, G)
  BY <1>1, <1>3, StepsExist
<1>5. \A k \in 1 .. n : g[k - 1] \in Rest
  BY <1>1
<1>6. g[0] = first /\ \A k \in 1 .. n : g[k] = TakeLine(g[k - 1], s[k])
  BY <1>2, <1>4, <1>5 DEF Stepwise
<1> QED  BY <1>4, <1>6 DEF TakenUpTo, first, n

\* AddHosts keeps in its lines what RemoveHosts needs to give the user's back.
LEMMA TakenKeeps ==
  ASSUME NEW s \in Seq(HostsLine)
  PROVE  /\ missingIpMappings(s) \in Rest
         /\ AreUserLines(s) => TakeOut(missingIpMappings(s).lines) = s
<1> DEFINE g == CHOOSE h : IsTaken(h, s)
<1>1. Len(s) \in Nat /\ \A k \in 1 .. Len(s) : s[k] \in HostsLine
  OBVIOUS
<1>2. PICK f \in [0 .. Len(s) -> Rest] : TakenUpTo(f, s, Len(s))
  BY TakenExists
<1>3. IsTaken(f, s)
  <2> DEFINE step(k) ==
        IF k = 0 THEN [missing |-> GameHosts, lines |-> <<>>] ELSE TakeLine(f[k - 1], s[k])
  <2>1. ASSUME NEW k \in 0 .. Len(s) PROVE f[k] = step(k)
    <3>1. k = 0 \/ k \in 1 .. Len(s)
      BY <1>1
    <3> QED  BY <1>2, <3>1 DEF TakenUpTo
  <2> HIDE DEF step
  <2>2. f = [k \in 0 .. Len(s) |-> step(k)]
    BY <2>1
  <2> QED  BY <2>2 DEF IsTaken, step
<1>4. IsTaken(g, s)
  BY <1>3
<1>5. missingIpMappings(s) = g[Len(s)]
  BY DEF missingIpMappings, IsTaken
<1> HIDE DEF g
<1>6. TakenUpTo(g, s, Len(s))
  <2>1. g[0] = [missing |-> GameHosts, lines |-> <<>>]
    <3>1. 0 \in 0 .. Len(s)
      BY <1>1
    <3> QED  BY <1>4, <3>1, Zenon DEF IsTaken
  <2>2. ASSUME NEW k \in 1 .. Len(s) PROVE g[k] = TakeLine(g[k - 1], s[k])
    <3>1. k \in 0 .. Len(s) /\ k # 0
      BY <1>1
    <3> QED  BY <1>4, <3>1, Zenon DEF IsTaken
  <2> QED  BY <2>1, <2>2 DEF TakenUpTo
<1> DEFINE Good(k) == /\ g[k] \in Rest
                      /\ AreUserLines(s) => TakeOut(g[k].lines) = SubSeq(s, 1, k)
           S == {k \in 0 .. Len(s) : Good(k)}
<1>7. 0 \in S
  <2>1. 0 \in 0 .. Len(s) /\ SubSeq(s, 1, 0) = <<>>
    BY <1>1
  <2>2. g[0] \in Rest /\ g[0].lines = <<>>
    BY <1>6 DEF TakenUpTo, Rest
  <2> QED  BY <2>1, <2>2, TakeOutOfNone
<1>8. ASSUME NEW k \in 0 .. Len(s), k < Len(s), k \in S PROVE k + 1 \in S
  <2>1. k + 1 \in 1 .. Len(s) /\ k + 1 \in 0 .. Len(s) /\ s[k + 1] \in HostsLine /\ (k + 1) - 1 = k
    BY <1>1, <1>8
  <2>2. g[k + 1] = TakeLine(g[k], s[k + 1])
    BY <1>6, <2>1 DEF TakenUpTo
  <2>3. g[k] \in Rest
    BY <1>8
  <2>4. /\ g[k + 1] \in Rest
        /\ IsUserLine(s[k + 1]) => TakeOut(g[k + 1].lines) = Append(TakeOut(g[k].lines), s[k + 1])
    BY <2>1, <2>2, <2>3, TakeLineKeeps
  <2>5. Append(SubSeq(s, 1, k), s[k + 1]) = SubSeq(s, 1, k + 1)
    BY <1>1, <2>1
  <2>6. AreUserLines(s) => TakeOut(g[k + 1].lines) = SubSeq(s, 1, k + 1)
    BY <1>8, <2>1, <2>4, <2>5 DEF AreUserLines
  <2> QED  BY <2>1, <2>4, <2>6
<1>9. Good(Len(s))
  <2>1. \A k \in 0 .. Len(s) : k \in S
    <3> HIDE DEF S
    <3> QED  BY <1>1, <1>7, <1>8, ByCounting
  <2> QED  BY <1>1, <2>1
<1>10. SubSeq(s, 1, Len(s)) = s
  BY <1>1
<1> QED  BY <1>5, <1>9, <1>10

LEMMA SequenceOfAll ==
  ASSUME NEW S, IsFiniteSet(S)
  PROVE  SetToSeq(S) \in Seq(S)
<1>1. Cardinality(S) \in Nat /\ ExistsBijection(1 .. Cardinality(S), S)
  BY FS_CardinalityType
<1>2. \E f \in [1 .. Cardinality(S) -> S] : IsInjective(f)
  BY <1>1 DEF ExistsBijection, Bijection, Injection, IsInjective
<1>3. SetToSeq(S) \in [1 .. Cardinality(S) -> S]
  BY <1>2 DEF SetToSeq
<1> QED  BY <1>1, <1>3

\* The mappings that it adds are all marked.
LEMMA MappingsAre ==
  ASSUME NEW hosts, hosts \subseteq GameHosts
  PROVE  /\ Mappings(hosts) \in Seq(HostsLine)
         /\ \A i \in 1 .. Len(Mappings(hosts)) : Dropped(Mappings(hosts)[i])
<1> DEFINE M == {Line(ServerIp, <<h>>, TRUE, FALSE) : h \in hosts}
<1>1. IsFiniteSet(hosts) /\ \A h \in hosts : h \in STRING
  BY HostsAssumption, FS_Subset
<1>2. IsFiniteSet(M)
  <2> DEFINE f == [h \in hosts |-> Line(ServerIp, <<h>>, TRUE, FALSE)]
  <2>1. f \in [hosts -> M] /\ \A l \in M : \E h \in hosts : f[h] = l
    OBVIOUS
  <2> HIDE DEF f, M
  <2>2. f \in Surjection(hosts, M)
    BY <2>1 DEF Surjection
  <2> QED  BY <1>1, <2>2, FS_Surjection
<1>3. \A l \in M : l \in HostsLine /\ Dropped(l)
  <2>1. ASSUME NEW h \in hosts
        PROVE  /\ Line(ServerIp, <<h>>, TRUE, FALSE) \in HostsLine
               /\ Dropped(Line(ServerIp, <<h>>, TRUE, FALSE))
    <3>1. <<h>> \in Seq(STRING)
      BY <1>1
    <3>2. ServerIp \in STRING
      BY HostsAssumption
    <3> QED  BY <3>1, <3>2 DEF Line, HostsLine, Dropped
  <2> QED  BY <2>1
<1>4. Mappings(hosts) = SetToSeq(M)
  BY DEF Mappings
<1> HIDE DEF M
<1>5. SetToSeq(M) \in Seq(M)
  BY <1>2, SequenceOfAll
<1>6. \A i \in 1 .. Len(SetToSeq(M)) : SetToSeq(M)[i] \in M
  BY <1>5
<1>7. SetToSeq(M) \in Seq(HostsLine)
  BY <1>3, <1>5
<1> QED  BY <1>3, <1>4, <1>6, <1>7

\* What AddHosts writes holds the user's lines.
LEMMA AddedKeeps ==
  ASSUME NEW s \in Seq(HostsLine)
  PROVE  LET result == missingIpMappings(s)
             lines == result.lines \o Mappings(result.missing)
         IN  lines \in Seq(HostsLine) /\ (AreUserLines(s) => TakeOut(lines) = s)
<1> DEFINE result == missingIpMappings(s)
           old == result.lines
           new == Mappings(result.missing)
<1>1. /\ old \in Seq(HostsLine) /\ result.missing \subseteq GameHosts
      /\ AreUserLines(s) => TakeOut(old) = s
  BY TakenKeeps DEF Rest
<1>2. new \in Seq(HostsLine) /\ \A i \in 1 .. Len(new) : Dropped(new[i])
  BY <1>1, MappingsAre
<1> HIDE DEF old, new
<1>3. old \o new \in Seq(HostsLine) /\ TakeOut(old \o new) = TakeOut(old)
  BY <1>1, <1>2, TakeOutOfAdded
<1> QED  BY <1>1, <1>3 DEF old, new

-----------------------------------------------------------------------------
\* The types

HostsTask ==
  [pc : {"idle", "backup", "lock", "copy", "truncate", "write", "open", "close"},
   lines : Seq(HostsLine), bak : BOOLEAN, remove : BOOLEAN]

LEMMA HostsTaskOK == HostsTypeOK => hostsTask \in [HostsProcesses -> HostsTask]
BY DEF HostsTypeOK, HostsTask

LEMMA NoTaskType == NoHostsTask \in HostsTask
BY DEF NoHostsTask, HostsTask

LEMMA NoBackupType ==
  NoBackup \in [exists : BOOLEAN, lines : Seq(HostsLine), lock : HostsProcesses \cup {Nobody}]
BY DEF NoBackup

LEMMA HostsInitType == HostsInit => HostsTypeOK
<1> SUFFICES ASSUME HostsInit PROVE HostsTypeOK
  OBVIOUS
<1>1. hostsFile \in Seq(HostsLine) /\ userLines \in Seq(HostsLine)
  BY HostsAssumption DEF HostsInit
<1>2. hostsTask \in [HostsProcesses -> HostsTask]
  BY NoTaskType DEF HostsInit
<1> QED  BY <1>1, <1>2, NoBackupType DEF HostsInit, HostsTypeOK, HostsTask

\* A step changes one process, or none.
LEMMA HostsTaskTypeStep ==
  ASSUME HostsTypeOK, NEW p \in HostsProcesses, NEW t \in HostsTask,
         hostsTask' = [hostsTask EXCEPT ![p] = t]
  PROVE  hostsTask' \in [HostsProcesses -> HostsTask]
BY HostsTaskOK

LEMMA GoToType ==
  ASSUME HostsTypeOK, NEW p \in HostsProcesses,
         NEW pc \in {"idle", "backup", "lock", "copy", "truncate", "write", "open", "close"},
         HostsGoTo(p, pc)
  PROVE  hostsTask' \in [HostsProcesses -> HostsTask]
<1>1. [hostsTask[p] EXCEPT !.pc = pc] \in HostsTask
  BY HostsTaskOK DEF HostsTask
<1>2. hostsTask' = [hostsTask EXCEPT ![p] = [hostsTask[p] EXCEPT !.pc = pc]]
  BY DEF HostsGoTo
<1> QED  BY <1>1, <1>2, HostsTaskTypeStep

LEMMA FinishType ==
  ASSUME HostsTypeOK, NEW p \in HostsProcesses, Finish(p)
  PROVE  hostsTask' \in [HostsProcesses -> HostsTask]
BY NoTaskType, HostsTaskTypeStep DEF Finish

\* What the type says of the variables that most steps leave.
HostsFilesOK ==
  /\ hostsFile \in Seq(HostsLine) /\ userLines \in Seq(HostsLine)
  /\ backup \in [exists : BOOLEAN, lines : Seq(HostsLine), lock : HostsProcesses \cup {Nobody}]

HostsRestOK ==
  /\ hostsLock \in HostsProcesses \cup {Nobody}
  /\ late \in BOOLEAN /\ changedLate \in BOOLEAN /\ added \in BOOLEAN
  /\ hostsStops \in Nat /\ hostsAdds \in Nat
  /\ mishaps \subseteq Mishaps

LEMMA HostsTypeParts ==
  HostsTypeOK <=> hostsTask \in [HostsProcesses -> HostsTask] /\ HostsFilesOK /\ HostsRestOK
BY DEF HostsTypeOK, HostsTask, HostsFilesOK, HostsRestOK

LEMMA MishapType ==
  ASSUME mishaps \subseteq Mishaps, NEW k \in Mishaps, Mishap(k) \/ UNCHANGED mishaps
  PROVE  mishaps' \subseteq Mishaps
BY DEF Mishap

LEMMA HostsTypeStep ==
  ASSUME HostsTypeOK, [HostsNext]_hostsVars
  PROVE  HostsTypeOK'
<1>1. hostsTask \in [HostsProcesses -> HostsTask] /\ HostsFilesOK /\ HostsRestOK
  BY HostsTypeParts
<1>2. "torn" \in Mishaps /\ "crossed" \in Mishaps /\ "hasty" \in Mishaps /\ "unrestored" \in Mishaps
  BY DEF Mishaps
<1> USE DEF hostsFrame
<1>3. ASSUME NEW p \in HostsProcesses, AddHosts(p) PROVE HostsTypeOK'
  <2> DEFINE result == missingIpMappings(hostsFile)
             lines == result.lines \o Mappings(result.missing)
             t == [NoHostsTask EXCEPT !.pc = "backup", !.lines = lines]
  <2>1. lines \in Seq(HostsLine)
    BY <1>1, AddedKeeps DEF HostsFilesOK
  <2> HIDE DEF lines
  <2>2. t \in HostsTask
    BY <2>1 DEF NoHostsTask, HostsTask
  <2>3. /\ hostsTask' = [hostsTask EXCEPT ![p] = t] \/ UNCHANGED hostsTask
        /\ hostsLock' = p \/ UNCHANGED hostsLock
        /\ Mishap("crossed") \/ UNCHANGED mishaps
    BY <1>3 DEF AddHosts, lines
  <2>4. hostsTask' \in [HostsProcesses -> HostsTask]
    BY <1>1, <2>2, <2>3, HostsTaskTypeStep
  <2>5. mishaps' \subseteq Mishaps
    BY <1>1, <1>2, <2>3, MishapType DEF HostsRestOK
  <2>6. HostsFilesOK'
    BY <1>1, <1>3 DEF AddHosts, HostsFilesOK
  <2>7. HostsRestOK'
    BY <1>1, <1>3, <2>3, <2>5 DEF AddHosts, HostsRestOK
  <2> QED  BY <2>4, <2>6, <2>7 DEF HostsTypeOK, HostsTask, HostsFilesOK, HostsRestOK
<1>4. ASSUME NEW p \in HostsProcesses, CreateBackup(p) PROVE HostsTypeOK'
  <2>1. hostsTask' \in [HostsProcesses -> HostsTask]
    BY <1>1, <1>4, GoToType, FinishType DEF CreateBackup
  <2>2. HostsFilesOK'
    BY <1>1, <1>4, NoBackupType DEF CreateBackup, HostsFilesOK
  <2>3. HostsRestOK'
    BY <1>1, <1>4 DEF CreateBackup, HostsRestOK
  <2> QED  BY <2>1, <2>2, <2>3 DEF HostsTypeOK, HostsTask, HostsFilesOK, HostsRestOK
<1>5. ASSUME NEW p \in HostsProcesses, LockBackup(p) PROVE HostsTypeOK'
  <2>1. hostsTask' \in [HostsProcesses -> HostsTask]
    BY <1>1, <1>5, GoToType, FinishType DEF LockBackup
  <2>2. HostsFilesOK'
    BY <1>1, <1>5 DEF LockBackup, HostsFilesOK
  <2>3. HostsRestOK'
    <3>1. Mishap("crossed") \/ UNCHANGED mishaps
      BY <1>5 DEF LockBackup
    <3>2. mishaps' \subseteq Mishaps
      BY <1>1, <1>2, <3>1, MishapType DEF HostsRestOK
    <3> QED  BY <1>1, <1>5, <3>2 DEF LockBackup, HostsRestOK
  <2> QED  BY <2>1, <2>2, <2>3 DEF HostsTypeOK, HostsTask, HostsFilesOK, HostsRestOK
<1>6. ASSUME NEW p \in HostsProcesses, CopyBackup(p) PROVE HostsTypeOK'
  <2>1. hostsTask' \in [HostsProcesses -> HostsTask]
    BY <1>1, <1>6, GoToType DEF CopyBackup
  <2>2. HostsFilesOK'
    BY <1>1, <1>6 DEF CopyBackup, HostsFilesOK
  <2>3. HostsRestOK'
    BY <1>1, <1>6 DEF CopyBackup, HostsRestOK
  <2> QED  BY <2>1, <2>2, <2>3 DEF HostsTypeOK, HostsTask, HostsFilesOK, HostsRestOK
<1>7. ASSUME NEW p \in HostsProcesses, RemoveHosts(p) PROVE HostsTypeOK'
  <2>1. hostsTask' \in [HostsProcesses -> HostsTask]
    <3> DEFINE found == backup.exists /\ backup.lock = Nobody
               t == [NoHostsTask EXCEPT !.pc = "open", !.bak = found]
    <3>1. found \in BOOLEAN
      OBVIOUS
    <3> HIDE DEF found
    <3>2. t \in HostsTask
      <4>1. [NoHostsTask EXCEPT !.pc = "open"] \in HostsTask
        BY NoTaskType DEF HostsTask
      <4>2. ASSUME NEW u \in HostsTask PROVE [u EXCEPT !.bak = found] \in HostsTask
        BY <3>1 DEF HostsTask
      <4>3. [[NoHostsTask EXCEPT !.pc = "open"] EXCEPT !.bak = found] = t
        OBVIOUS
      <4> QED  BY <4>1, <4>2, <4>3
    <3> HIDE DEF t
    <3>3. hostsTask' = [hostsTask EXCEPT ![p] = t]
      BY <1>7 DEF RemoveHosts, found, t
    <3> QED  BY <3>2, <3>3, HostsTaskTypeStep
  <2>2. HostsFilesOK'
    BY <1>1, <1>7 DEF RemoveHosts, HostsFilesOK
  <2>3. HostsRestOK'
    <3>1. Mishap("crossed") \/ UNCHANGED mishaps
      BY <1>7 DEF RemoveHosts
    <3>2. mishaps' \subseteq Mishaps
      BY <1>1, <1>2, <3>1, MishapType DEF HostsRestOK
    <3> QED  BY <1>1, <1>7, <3>2 DEF RemoveHosts, HostsRestOK
  <2> QED  BY <2>1, <2>2, <2>3 DEF HostsTypeOK, HostsTask, HostsFilesOK, HostsRestOK
<1>8. ASSUME NEW p \in HostsProcesses, OpenMain(p) PROVE HostsTypeOK'
  <2>1. hostsTask' \in [HostsProcesses -> HostsTask]
    <3>1. CASE HostsGoTo(p, "close")
      BY <3>1, GoToType
    <3>2. CASE ~HostsGoTo(p, "close")
      <4> DEFINE whole == hostsTask[p].bak /\ ~changedLate
                 lines == IF whole THEN backup.lines ELSE TakeOut(hostsFile)
                 t == [hostsTask[p] EXCEPT !.pc = "truncate", !.remove = hostsTask[p].bak,
                                           !.lines = lines]
      <4>1. lines \in Seq(HostsLine)
        BY <1>1, TakeOutType DEF HostsFilesOK
      <4> HIDE DEF lines
      <4>2. hostsTask[p] \in HostsTask
        BY <1>1
      <4>3. t \in HostsTask
        BY <4>1, <4>2 DEF HostsTask
      <4> HIDE DEF t
      <4>4. hostsTask' = [hostsTask EXCEPT ![p] = t]
        BY <1>8, <3>2 DEF OpenMain, lines, t
      <4> QED  BY <4>3, <4>4, HostsTaskTypeStep
    <3> QED  BY <3>1, <3>2
  <2>2. HostsFilesOK'
    BY <1>1, <1>8 DEF OpenMain, HostsFilesOK
  <2>3. HostsRestOK'
    <3>1. Mishap("crossed") \/ UNCHANGED mishaps
      BY <1>8 DEF OpenMain
    <3>2. mishaps' \subseteq Mishaps
      BY <1>1, <1>2, <3>1, MishapType DEF HostsRestOK
    <3> QED  BY <1>1, <1>8, <3>2 DEF OpenMain, HostsRestOK
  <2> QED  BY <2>1, <2>2, <2>3 DEF HostsTypeOK, HostsTask, HostsFilesOK, HostsRestOK
<1>9. ASSUME NEW p \in HostsProcesses, UpdateFails(p) PROVE HostsTypeOK'
  <2>1. hostsTask' \in [HostsProcesses -> HostsTask]
    <3> DEFINE t == [hostsTask[p] EXCEPT !.pc = "close", !.remove = changedLate]
    <3>1. t \in HostsTask
      BY <1>1 DEF HostsTask, HostsRestOK
    <3>2. hostsTask' = [hostsTask EXCEPT ![p] = t] \/ Finish(p)
      BY <1>1, <1>9 DEF UpdateFails
    <3> HIDE DEF t
    <3> QED  BY <3>1, <3>2, HostsTaskTypeStep, FinishType
  <2>2. HostsFilesOK'
    BY <1>1, <1>9 DEF UpdateFails, HostsFilesOK
  <2>3. HostsRestOK'
    <3>1. Mishap("unrestored") \/ UNCHANGED mishaps
      BY <1>9 DEF UpdateFails
    <3>2. mishaps' \subseteq Mishaps
      BY <1>1, <1>2, <3>1, MishapType DEF HostsRestOK
    <3> QED  BY <1>1, <1>9, <3>2 DEF UpdateFails, HostsRestOK
  <2> QED  BY <2>1, <2>2, <2>3 DEF HostsTypeOK, HostsTask, HostsFilesOK, HostsRestOK
<1>10. ASSUME NEW p \in HostsProcesses, CloseBackup(p) PROVE HostsTypeOK'
  <2>1. hostsTask' \in [HostsProcesses -> HostsTask]
    BY <1>1, <1>10, FinishType DEF CloseBackup
  <2>2. HostsFilesOK'
    BY <1>1, <1>10, NoBackupType DEF CloseBackup, HostsFilesOK
  <2>3. HostsRestOK'
    BY <1>1, <1>10 DEF CloseBackup, HostsRestOK
  <2> QED  BY <2>1, <2>2, <2>3 DEF HostsTypeOK, HostsTask, HostsFilesOK, HostsRestOK
<1>11. ASSUME NEW p \in HostsProcesses, Truncate(p) PROVE HostsTypeOK'
  <2>1. hostsTask' \in [HostsProcesses -> HostsTask]
    BY <1>1, <1>11, GoToType DEF Truncate
  <2>2. HostsFilesOK'
    BY <1>1, <1>11 DEF Truncate, HostsFilesOK
  <2>3. HostsRestOK'
    BY <1>1, <1>11 DEF Truncate, HostsRestOK
  <2> QED  BY <2>1, <2>2, <2>3 DEF HostsTypeOK, HostsTask, HostsFilesOK, HostsRestOK
<1>12. ASSUME NEW p \in HostsProcesses, Write(p) PROVE HostsTypeOK'
  <2>1. hostsTask' \in [HostsProcesses -> HostsTask]
    BY <1>1, <1>12, GoToType, FinishType DEF Write
  <2>2. HostsFilesOK'
    BY <1>1, <1>12 DEF Write, HostsFilesOK, HostsTask
  <2>3. HostsRestOK'
    BY <1>1, <1>12 DEF Write, HostsRestOK
  <2> QED  BY <2>1, <2>2, <2>3 DEF HostsTypeOK, HostsTask, HostsFilesOK, HostsRestOK
<1>13. ASSUME NEW p \in HostsProcesses, StopHosts(p) PROVE HostsTypeOK'
  <2>1. hostsTask' \in [HostsProcesses -> HostsTask]
    BY <1>1, <1>13, FinishType DEF StopHosts
  <2>2. HostsFilesOK'
    BY <1>1, <1>13 DEF StopHosts, HostsFilesOK
  <2>3. HostsRestOK'
    <3>1. Mishap("torn") \/ UNCHANGED mishaps
      BY <1>13 DEF StopHosts
    <3>2. mishaps' \subseteq Mishaps
      BY <1>1, <1>2, <3>1, MishapType DEF HostsRestOK
    <3> QED  BY <1>1, <1>13, <3>2 DEF StopHosts, HostsRestOK
  <2> QED  BY <2>1, <2>2, <2>3 DEF HostsTypeOK, HostsTask, HostsFilesOK, HostsRestOK
<1>14. ASSUME NEW l \in Edits, Edit(l) PROVE HostsTypeOK'
  <2>1. hostsTask' \in [HostsProcesses -> HostsTask]
    BY <1>1, <1>14 DEF Edit
  <2>2. HostsFilesOK'
    <3>1. l \in HostsLine
      BY HostsAssumption DEF IsUserLine
    <3> QED  BY <1>1, <1>14, <3>1 DEF Edit, HostsFilesOK
  <2>3. HostsRestOK'
    <3>1. Mishap("hasty") \/ UNCHANGED mishaps
      BY <1>14 DEF Edit
    <3>2. mishaps' \subseteq Mishaps
      BY <1>1, <1>2, <3>1, MishapType DEF HostsRestOK
    <3> QED  BY <1>1, <1>14, <3>2 DEF Edit, HostsRestOK
  <2> QED  BY <2>1, <2>2, <2>3 DEF HostsTypeOK, HostsTask, HostsFilesOK, HostsRestOK
<1>15. ASSUME ASecond PROVE HostsTypeOK'
  <2>1. hostsTask' \in [HostsProcesses -> HostsTask]
    BY <1>1, <1>15 DEF ASecond
  <2>2. HostsFilesOK'
    BY <1>1, <1>15 DEF ASecond, HostsFilesOK
  <2>3. HostsRestOK'
    BY <1>1, <1>15 DEF ASecond, HostsRestOK
  <2> QED  BY <2>1, <2>2, <2>3 DEF HostsTypeOK, HostsTask, HostsFilesOK, HostsRestOK
<1>16. ASSUME UNCHANGED hostsVars PROVE HostsTypeOK'
  <2>1. hostsTask' \in [HostsProcesses -> HostsTask]
    BY <1>1, <1>16 DEF hostsVars
  <2>2. HostsFilesOK'
    BY <1>1, <1>16 DEF hostsVars, HostsFilesOK
  <2>3. HostsRestOK'
    BY <1>1, <1>16 DEF hostsVars, HostsRestOK
  <2> QED  BY <2>1, <2>2, <2>3 DEF HostsTypeOK, HostsTask, HostsFilesOK, HostsRestOK
<1> QED
  BY <1>3, <1>4, <1>5, <1>6, <1>7, <1>8, <1>9, <1>10, <1>11, <1>12, <1>13, <1>14, <1>15, <1>16
     DEF HostsNext, HostsStep

-----------------------------------------------------------------------------
\* What holds of the hosts file as long as nothing has gone wrong

Holding == {"backup", "lock", "copy", "truncate", "write"}

\* Who has the two files locked.
LocksOfHosts ==
  \A p \in HostsProcesses :
    /\ hostsLock = p <=> hostsTask[p].pc \in Holding
    /\ hostsTask[p].bak =>
         backup.exists /\ hostsTask[p].pc \in {"open", "truncate", "write", "close"}
    /\ backup.lock = p <=> hostsTask[p].bak \/ hostsTask[p].pc = "copy"

\* A process has made the backup, or is about to write what is not the user's lines.
Adding(p) ==
  \/ hostsTask[p].pc \in {"lock", "copy"}
  \/ hostsTask[p].pc \in {"truncate", "write"} /\ hostsTask[p].lines # userLines

\* The backup is not taken away then.
BackupStays ==
  \A p \in HostsProcesses : Adding(p) =>
    /\ backup.exists
    /\ \A q \in HostsProcesses : hostsTask[q].bak => hostsTask[q].pc = "open"

\* There is no backup, or it is about to be taken away.
NothingSetUp ==
  \/ ~backup.exists
  \/ \E q \in HostsProcesses :
       hostsTask[q].pc = "close" /\ hostsTask[q].bak /\ hostsTask[q].remove

BeingWritten == \E p \in HostsProcesses : hostsTask[p].pc = "write"

FileHolds ==
  /\ AreUserLines(userLines)
  /\ ~BeingWritten => TakeOut(hostsFile) = userLines
  /\ ~BeingWritten /\ NothingSetUp => hostsFile = userLines

TasksHold ==
  \A p \in HostsProcesses :
    /\ hostsTask[p].pc = "backup" /\ NothingSetUp => TakeOut(hostsTask[p].lines) = userLines
    /\ hostsTask[p].pc \in Holding \ {"backup"} => TakeOut(hostsTask[p].lines) = userLines
    /\ hostsTask[p].pc \in {"lock", "copy"} => hostsFile = userLines
    /\ hostsTask[p].bak /\ hostsTask[p].pc \in Holding => hostsTask[p].lines = userLines

\* The backup is what the user had, unless the file was changed a second after it.
BackupHolds ==
  /\ changedLate => late
  /\ \/ ~backup.exists \/ changedLate
     \/ \E p \in HostsProcesses : hostsTask[p].pc \in {"lock", "copy"}
     \/ backup.lines = userLines

HostsAgree == LocksOfHosts /\ BackupStays /\ FileHolds /\ TasksHold /\ BackupHolds

HostsIInv == HostsTypeOK /\ (mishaps = {} => HostsAgree)

-----------------------------------------------------------------------------
LEMMA NoMishap ==
  ASSUME NEW k, Mishap(k)
  PROVE  mishaps' # {}
BY DEF Mishap

LEMMA HostsInitAgrees == HostsInit => HostsAgree
<1> SUFFICES ASSUME HostsInit PROVE HostsAgree
  OBVIOUS
<1>1. /\ hostsTask = [p \in HostsProcesses |-> NoHostsTask]
      /\ \A p \in HostsProcesses : hostsTask[p].pc = "idle" /\ ~hostsTask[p].bak
      /\ hostsLock = Nobody /\ ~backup.exists /\ backup.lock = Nobody
      /\ hostsFile = userLines /\ ~late /\ ~changedLate
  BY DEF HostsInit, NoHostsTask, NoBackup
<1>2. AreUserLines(userLines)
  BY HostsAssumption DEF HostsInit, AreUserLines
<1>3. TakeOut(hostsFile) = userLines
  BY <1>1, <1>2, TakeOutOfUsers
<1>4. LocksOfHosts
  BY <1>1, HostsAssumption DEF LocksOfHosts, Holding
<1>5. BackupStays /\ TasksHold /\ BackupHolds
  BY <1>1 DEF BackupStays, Adding, TasksHold, BackupHolds, Holding
<1>6. FileHolds
  BY <1>1, <1>2, <1>3 DEF FileHolds
<1> QED  BY <1>4, <1>5, <1>6 DEF HostsAgree

LEMMA AddHostsAgrees ==
  ASSUME HostsTypeOK, HostsAgree, NEW p \in HostsProcesses, AddHosts(p), mishaps' = {}
  PROVE  HostsAgree'
<1> DEFINE result == missingIpMappings(hostsFile)
           lines == result.lines \o Mappings(result.missing)
<1>1. lines \in Seq(HostsLine) /\ (AreUserLines(hostsFile) => TakeOut(lines) = hostsFile)
  BY AddedKeeps DEF HostsTypeOK
<1> HIDE DEF lines
<1>2. /\ hostsTask[p].pc = "idle" /\ hostsLock = Nobody /\ hostsLock' = p
      /\ hostsTask' = [hostsTask EXCEPT ![p] =
                         [NoHostsTask EXCEPT !.pc = "backup", !.lines = lines]]
      /\ UNCHANGED <<hostsFile, backup, late, changedLate, userLines>>
  BY NoMishap DEF AddHosts, HostsAt, lines
<1>3. /\ hostsTask'[p].pc = "backup" /\ hostsTask'[p].lines = lines /\ ~hostsTask'[p].bak
      /\ \A q \in HostsProcesses : q # p => hostsTask'[q] = hostsTask[q]
  BY <1>2, HostsTaskOK DEF NoHostsTask
<1>4. \A q \in HostsProcesses : hostsTask[q].pc \notin Holding
  BY <1>2, HostsAssumption DEF HostsAgree, LocksOfHosts
<1>5. ~hostsTask[p].bak
  BY <1>2 DEF HostsAgree, LocksOfHosts
<1>6. NothingSetUp' <=> NothingSetUp
  BY <1>2, <1>3 DEF NothingSetUp
<1>7. LocksOfHosts'
  BY <1>2, <1>3, <1>4, <1>5 DEF HostsAgree, LocksOfHosts, Holding
<1>8. BackupStays'
  BY <1>2, <1>3, <1>4 DEF BackupStays, Adding, Holding
<1>9. FileHolds'
  BY <1>2, <1>3, <1>4, <1>6 DEF HostsAgree, FileHolds, BeingWritten, AreUserLines, Holding
<1>10. TasksHold'
  <2>1. NothingSetUp => TakeOut(lines) = userLines
    BY <1>1, <1>4 DEF HostsAgree, FileHolds, BeingWritten, Holding
  <2> QED  BY <1>2, <1>3, <1>4, <1>6, <2>1 DEF TasksHold, Holding
<1>11. BackupHolds'
  BY <1>2, <1>3, <1>4 DEF HostsAgree, BackupHolds, Holding
<1> QED  BY <1>7, <1>8, <1>9, <1>10, <1>11 DEF HostsAgree

LEMMA GoesTo ==
  ASSUME HostsTypeOK, NEW p \in HostsProcesses, NEW pc, HostsGoTo(p, pc)
  PROVE  /\ hostsTask'[p].pc = pc /\ hostsTask'[p].lines = hostsTask[p].lines
         /\ hostsTask'[p].bak = hostsTask[p].bak /\ hostsTask'[p].remove = hostsTask[p].remove
         /\ \A q \in HostsProcesses : q # p => hostsTask'[q] = hostsTask[q]
<1>1. hostsTask \in [HostsProcesses -> HostsTask] /\ hostsTask[p] \in HostsTask
  BY HostsTaskOK
<1>2. PICK t : t = [hostsTask[p] EXCEPT !.pc = pc]
  OBVIOUS
<1>3. t.pc = pc /\ t.lines = hostsTask[p].lines /\ t.bak = hostsTask[p].bak
      /\ t.remove = hostsTask[p].remove
  BY <1>1, <1>2 DEF HostsTask
<1>4. hostsTask' = [hostsTask EXCEPT ![p] = t]
  BY <1>2 DEF HostsGoTo
<1> QED  BY <1>1, <1>3, <1>4

LEMMA Finishes ==
  ASSUME HostsTypeOK, NEW p \in HostsProcesses, Finish(p)
  PROVE  /\ hostsTask'[p].pc = "idle" /\ ~hostsTask'[p].bak
         /\ \A q \in HostsProcesses : q # p => hostsTask'[q] = hostsTask[q]
BY HostsTaskOK DEF Finish, NoHostsTask

\* Only one holds the hosts file.
LEMMA OneHolds ==
  ASSUME LocksOfHosts, NEW p \in HostsProcesses, hostsTask[p].pc \in Holding
  PROVE  /\ hostsLock = p
         /\ \A q \in HostsProcesses : q # p => hostsTask[q].pc \notin Holding
BY DEF LocksOfHosts

LEMMA CreateBackupAgrees ==
  ASSUME HostsTypeOK, HostsAgree, NEW p \in HostsProcesses, CreateBackup(p)
  PROVE  HostsAgree'
<1>1. /\ hostsTask[p].pc = "backup" /\ UNCHANGED <<hostsFile, userLines>>
      /\ hostsLock = p /\ ~hostsTask[p].bak /\ p # Nobody
      /\ \A q \in HostsProcesses : q # p => hostsTask[q].pc \notin Holding
  BY HostsAssumption DEF CreateBackup, HostsAt, hostsFrame, HostsAgree, LocksOfHosts, Holding
<1>2. CASE /\ ~backup.exists /\ backup' = [NoBackup EXCEPT !.exists = TRUE]
           /\ late' = FALSE /\ changedLate' = FALSE /\ HostsGoTo(p, "lock")
           /\ hostsLock' = hostsLock
  <2>1. backup'.exists /\ backup'.lock = Nobody /\ ~late' /\ ~changedLate' /\ hostsLock' = p
    BY <1>1, <1>2 DEF NoBackup
  <2>2. /\ hostsTask'[p].pc = "lock" /\ hostsTask'[p].lines = hostsTask[p].lines
        /\ ~hostsTask'[p].bak
        /\ \A q \in HostsProcesses : q # p => hostsTask'[q] = hostsTask[q]
    BY <1>1, <1>2, GoesTo
  <2>3. \A q \in HostsProcesses : ~hostsTask[q].bak
    BY <1>2 DEF HostsAgree, LocksOfHosts
  <2>4. ~BeingWritten /\ NothingSetUp
    BY <1>1, <1>2 DEF BeingWritten, NothingSetUp, Holding
  <2>5. hostsFile = userLines /\ TakeOut(hostsFile) = userLines /\ AreUserLines(userLines)
        /\ TakeOut(hostsTask[p].lines) = userLines
    BY <1>1, <2>4 DEF HostsAgree, FileHolds, TasksHold
  <2>6. LocksOfHosts'
    BY <1>1, <2>1, <2>2, <2>3, HostsAssumption DEF LocksOfHosts, Holding
  <2>7. BackupStays'
    BY <2>1, <2>2, <2>3 DEF BackupStays
  <2>8. FileHolds'
    BY <1>1, <2>5 DEF FileHolds, AreUserLines
  <2>9. TasksHold'
    BY <1>1, <2>2, <2>3, <2>5 DEF TasksHold, Holding
  <2>10. BackupHolds'
    BY <2>1, <2>2 DEF BackupHolds
  <2> QED  BY <2>6, <2>7, <2>8, <2>9, <2>10 DEF HostsAgree
<1>3. CASE Finish(p) /\ hostsLock' = Nobody /\ UNCHANGED <<backup, late, changedLate>>
  <2>1. /\ hostsTask'[p].pc = "idle" /\ ~hostsTask'[p].bak
        /\ \A q \in HostsProcesses : q # p => hostsTask'[q] = hostsTask[q]
    BY <1>3, Finishes
  <2>2. LocksOfHosts'
    BY <1>1, <1>3, <2>1, HostsAssumption DEF HostsAgree, LocksOfHosts, Holding
  <2>3. BackupStays'
    BY <1>1, <1>3, <2>1 DEF HostsAgree, BackupStays, Adding
  <2>4. NothingSetUp' => NothingSetUp
    BY <1>1, <1>3, <2>1 DEF NothingSetUp
  <2>5. FileHolds'
    BY <1>1, <1>3, <2>1, <2>4 DEF HostsAgree, FileHolds, AreUserLines, BeingWritten, Holding
  <2>6. TasksHold'
    BY <1>1, <1>3, <2>1, <2>4 DEF HostsAgree, TasksHold, Holding
  <2>7. BackupHolds'
    BY <1>1, <1>3, <2>1 DEF HostsAgree, BackupHolds
  <2> QED  BY <2>2, <2>3, <2>5, <2>6, <2>7 DEF HostsAgree
<1> QED  BY <1>2, <1>3 DEF CreateBackup

LEMMA LockBackupAgrees ==
  ASSUME HostsTypeOK, HostsAgree, NEW p \in HostsProcesses, LockBackup(p), mishaps' = {}
  PROVE  HostsAgree'
<1>1. /\ hostsTask[p].pc = "lock" /\ backup.lock = Nobody /\ HostsGoTo(p, "copy")
      /\ backup' = [backup EXCEPT !.lock = p]
      /\ UNCHANGED <<hostsFile, userLines, hostsLock, late, changedLate>>
  BY NoMishap DEF LockBackup, HostsAt, hostsFrame
<1>2. /\ hostsTask'[p].pc = "copy" /\ hostsTask'[p].lines = hostsTask[p].lines
      /\ hostsTask'[p].bak = hostsTask[p].bak
      /\ \A q \in HostsProcesses : q # p => hostsTask'[q] = hostsTask[q]
  BY <1>1, GoesTo
<1>3. backup'.exists = backup.exists /\ backup'.lines = backup.lines /\ backup'.lock = p
  BY <1>1 DEF HostsTypeOK
<1>4. ~hostsTask[p].bak
  BY <1>1 DEF HostsAgree, LocksOfHosts
<1>5. LocksOfHosts'
  BY <1>1, <1>2, <1>3, <1>4, HostsAssumption DEF HostsAgree, LocksOfHosts, Holding
<1>6. BackupStays'
  BY <1>1, <1>2, <1>3 DEF HostsAgree, BackupStays, Adding
<1>7. (NothingSetUp' <=> NothingSetUp) /\ (BeingWritten' <=> BeingWritten)
  BY <1>1, <1>2, <1>3 DEF NothingSetUp, BeingWritten
<1>8. FileHolds'
  BY <1>1, <1>7 DEF HostsAgree, FileHolds, AreUserLines
<1>9. TasksHold'
  BY <1>1, <1>2, <1>7 DEF HostsAgree, TasksHold, Holding
<1>10. BackupHolds'
  BY <1>1, <1>2, <1>3 DEF HostsAgree, BackupHolds
<1> QED  BY <1>5, <1>6, <1>8, <1>9, <1>10 DEF HostsAgree

LEMMA CopyBackupAgrees ==
  ASSUME HostsTypeOK, HostsAgree, NEW p \in HostsProcesses, CopyBackup(p)
  PROVE  HostsAgree'
<1>1. /\ hostsTask[p].pc = "copy" /\ HostsGoTo(p, "truncate")
      /\ backup' = [backup EXCEPT !.lines = hostsFile, !.lock = Nobody]
      /\ UNCHANGED <<hostsFile, userLines, hostsLock, late, changedLate>>
  BY DEF CopyBackup, HostsAt, hostsFrame
<1>2. /\ hostsTask'[p].pc = "truncate" /\ hostsTask'[p].lines = hostsTask[p].lines
      /\ hostsTask'[p].bak = hostsTask[p].bak
      /\ \A q \in HostsProcesses : q # p => hostsTask'[q] = hostsTask[q]
  BY <1>1, GoesTo
<1>3. backup'.exists = backup.exists /\ backup'.lines = hostsFile /\ backup'.lock = Nobody
  BY <1>1 DEF HostsTypeOK
<1>4. /\ ~hostsTask[p].bak /\ backup.lock = p /\ backup.exists /\ hostsFile = userLines
      /\ TakeOut(hostsTask[p].lines) = userLines
      /\ \A q \in HostsProcesses : hostsTask[q].bak => hostsTask[q].pc = "open"
  BY <1>1 DEF HostsAgree, LocksOfHosts, BackupStays, Adding, TasksHold, Holding
<1>5. \A q \in HostsProcesses : q # p => hostsTask[q].pc \notin Holding
  BY <1>1, OneHolds DEF HostsAgree, Holding
<1>6. LocksOfHosts'
  BY <1>1, <1>2, <1>3, <1>4, <1>5, HostsAssumption DEF HostsAgree, LocksOfHosts, Holding
<1>7. BackupStays'
  BY <1>1, <1>2, <1>3, <1>4 DEF BackupStays
<1>8. (NothingSetUp' => NothingSetUp) /\ ~BeingWritten
  BY <1>1, <1>2, <1>3, <1>5 DEF NothingSetUp, BeingWritten, Holding
<1>9. FileHolds'
  BY <1>1, <1>4, <1>8 DEF HostsAgree, FileHolds, AreUserLines
<1>10. TasksHold'
  BY <1>1, <1>2, <1>4, <1>5 DEF TasksHold, Holding
<1>11. BackupHolds'
  BY <1>1, <1>3, <1>4 DEF HostsAgree, BackupHolds
<1> QED  BY <1>6, <1>7, <1>9, <1>10, <1>11 DEF HostsAgree

LEMMA TruncateAgrees ==
  ASSUME HostsTypeOK, HostsAgree, NEW p \in HostsProcesses, Truncate(p)
  PROVE  HostsAgree'
<1>1. /\ hostsTask[p].pc = "truncate" /\ HostsGoTo(p, "write") /\ changedLate' = late
      /\ UNCHANGED <<hostsLock, backup, userLines, late>>
  BY DEF Truncate, HostsAt, hostsFrame
<1>2. /\ hostsTask'[p].pc = "write" /\ hostsTask'[p].lines = hostsTask[p].lines
      /\ hostsTask'[p].bak = hostsTask[p].bak
      /\ \A q \in HostsProcesses : q # p => hostsTask'[q] = hostsTask[q]
  BY <1>1, GoesTo
<1>3. \A q \in HostsProcesses : q # p => hostsTask[q].pc \notin Holding
  BY <1>1, OneHolds DEF HostsAgree, Holding
<1>4. LocksOfHosts'
  BY <1>1, <1>2 DEF HostsAgree, LocksOfHosts, Holding
<1>5. BackupStays'
  BY <1>1, <1>2 DEF HostsAgree, BackupStays, Adding
<1>6. FileHolds'
  BY <1>1, <1>2 DEF HostsAgree, FileHolds, AreUserLines, BeingWritten
<1>7. TasksHold'
  BY <1>1, <1>2, <1>3 DEF HostsAgree, TasksHold, Holding
<1>8. BackupHolds'
  <2>1. \A q \in HostsProcesses : hostsTask[q].pc \notin {"lock", "copy"}
    BY <1>1, <1>3 DEF Holding
  <2> QED  BY <1>1, <2>1 DEF HostsAgree, BackupHolds, HostsTypeOK
<1> QED  BY <1>4, <1>5, <1>6, <1>7, <1>8 DEF HostsAgree

LEMMA WriteAgrees ==
  ASSUME HostsTypeOK, HostsAgree, NEW p \in HostsProcesses, Write(p)
  PROVE  HostsAgree'
<1>1. /\ hostsTask[p].pc = "write" /\ changedLate' = late /\ hostsLock' = Nobody
      /\ hostsFile' = hostsTask[p].lines
      /\ IF hostsTask[p].bak THEN HostsGoTo(p, "close") ELSE Finish(p)
      /\ UNCHANGED <<backup, userLines, late>>
  BY DEF Write, HostsAt, hostsFrame
<1>2. /\ hostsTask'[p].pc \in {"close", "idle"} /\ (hostsTask'[p].bak <=> hostsTask[p].bak)
      /\ hostsTask[p].bak => hostsTask'[p].pc = "close"
      /\ \A q \in HostsProcesses : q # p => hostsTask'[q] = hostsTask[q]
  BY <1>1, GoesTo, Finishes
<1>3. \A q \in HostsProcesses : q # p => hostsTask[q].pc \notin Holding
  BY <1>1, OneHolds DEF HostsAgree, Holding
<1>4. /\ TakeOut(hostsTask[p].lines) = userLines
      /\ hostsTask[p].bak => hostsTask[p].lines = userLines
  BY <1>1 DEF HostsAgree, TasksHold, Holding
<1>5. LocksOfHosts'
  BY <1>1, <1>2, <1>3, HostsAssumption DEF HostsAgree, LocksOfHosts, Holding
<1>6. BackupStays'
  BY <1>2, <1>3 DEF BackupStays, Adding, Holding
<1>7. FileHolds'
  <2>1. ASSUME NothingSetUp' PROVE hostsTask[p].lines = userLines
    <3> SUFFICES ASSUME hostsTask[p].lines # userLines PROVE FALSE
      OBVIOUS
    <3>1. Adding(p)
      BY <1>1 DEF Adding
    <3>2. /\ backup.exists /\ ~hostsTask[p].bak
          /\ \A q \in HostsProcesses : hostsTask[q].bak => hostsTask[q].pc = "open"
      BY <1>4, <3>1 DEF HostsAgree, BackupStays
    <3>3. \A q \in HostsProcesses : hostsTask'[q].bak => hostsTask'[q].pc = "open"
      BY <1>2, <3>2
    <3> QED  BY <1>1, <2>1, <3>2, <3>3 DEF NothingSetUp
  <2> QED  BY <1>1, <1>4, <2>1 DEF HostsAgree, FileHolds, AreUserLines
<1>8. TasksHold'
  BY <1>2, <1>3 DEF TasksHold, Holding
<1>9. BackupHolds'
  <2>1. \A q \in HostsProcesses : hostsTask[q].pc \notin {"lock", "copy"}
    BY <1>1, <1>3 DEF Holding
  <2> QED  BY <1>1, <2>1 DEF HostsAgree, BackupHolds, HostsTypeOK
<1> QED  BY <1>5, <1>6, <1>7, <1>8, <1>9 DEF HostsAgree

LEMMA RemoveHostsAgrees ==
  ASSUME HostsTypeOK, HostsAgree, NEW p \in HostsProcesses, RemoveHosts(p), mishaps' = {}
  PROVE  HostsAgree'
<1> DEFINE found == backup.exists /\ backup.lock = Nobody
<1>1. /\ hostsTask[p].pc = "idle" /\ backup.lock = Nobody
      /\ hostsTask' = [hostsTask EXCEPT ![p] = [NoHostsTask EXCEPT !.pc = "open", !.bak = found]]
      /\ backup' = IF found THEN [backup EXCEPT !.lock = p] ELSE backup
      /\ UNCHANGED <<hostsFile, hostsLock, userLines, late, changedLate>>
  BY NoMishap DEF RemoveHosts, HostsAt, hostsFrame
<1>2. /\ hostsTask'[p].pc = "open" /\ (hostsTask'[p].bak <=> backup.exists)
      /\ \A q \in HostsProcesses : q # p => hostsTask'[q] = hostsTask[q]
  <2>1. PICK t : t = [NoHostsTask EXCEPT !.pc = "open", !.bak = found]
    OBVIOUS
  <2>2. t.pc = "open" /\ t.bak = found
    BY <2>1 DEF NoHostsTask
  <2>3. hostsTask' = [hostsTask EXCEPT ![p] = t]
    BY <1>1, <2>1
  <2>4. hostsTask'[p] = t /\ \A q \in HostsProcesses : q # p => hostsTask'[q] = hostsTask[q]
    BY <2>3, HostsTaskOK
  <2> QED  BY <1>1, <2>2, <2>4
<1>3. /\ backup'.exists = backup.exists /\ backup'.lines = backup.lines
      /\ backup'.lock = IF backup.exists THEN p ELSE Nobody
  BY <1>1 DEF HostsTypeOK
<1> HIDE DEF found
<1>4. \A q \in HostsProcesses : ~hostsTask[q].bak /\ hostsTask[q].pc # "copy"
  BY <1>1, HostsAssumption DEF HostsAgree, LocksOfHosts
<1>5. LocksOfHosts'
  BY <1>1, <1>2, <1>3, <1>4, HostsAssumption DEF HostsAgree, LocksOfHosts, Holding
<1>6. BackupStays'
  BY <1>1, <1>2, <1>3, <1>4 DEF HostsAgree, BackupStays, Adding
<1>7. (NothingSetUp' <=> NothingSetUp) /\ (BeingWritten' <=> BeingWritten)
  BY <1>1, <1>2, <1>3 DEF NothingSetUp, BeingWritten
<1>8. FileHolds'
  BY <1>1, <1>7 DEF HostsAgree, FileHolds, AreUserLines
<1>9. TasksHold'
  BY <1>1, <1>2, <1>7 DEF HostsAgree, TasksHold, Holding
<1>10. BackupHolds'
  BY <1>1, <1>2, <1>3 DEF HostsAgree, BackupHolds
<1> QED  BY <1>5, <1>6, <1>8, <1>9, <1>10 DEF HostsAgree

LEMMA OpenMainAgrees ==
  ASSUME HostsTypeOK, HostsAgree, NEW p \in HostsProcesses, OpenMain(p), mishaps' = {}
  PROVE  HostsAgree'
<1> DEFINE whole == hostsTask[p].bak /\ ~changedLate
           lines == IF whole THEN backup.lines ELSE TakeOut(hostsFile)
<1>1. /\ hostsTask[p].pc = "open" /\ hostsLock = Nobody /\ hostsLock' = p
      /\ hostsTask' = [hostsTask EXCEPT ![p] =
           [@ EXCEPT !.pc = "truncate", !.remove = hostsTask[p].bak, !.lines = lines]]
      /\ UNCHANGED <<hostsFile, backup, userLines, late, changedLate>>
  BY NoMishap DEF OpenMain, HostsAt, hostsFrame
<1>2. \A q \in HostsProcesses : hostsTask[q].pc \notin Holding
  BY <1>1, HostsAssumption DEF HostsAgree, LocksOfHosts
<1>3. lines = userLines /\ TakeOut(userLines) = userLines
  <2>1. ~BeingWritten /\ AreUserLines(userLines)
    BY <1>2 DEF HostsAgree, FileHolds, BeingWritten, Holding
  <2>2. TakeOut(hostsFile) = userLines
    BY <2>1 DEF HostsAgree, FileHolds
  <2>3. whole => backup.lines = userLines
    <3>1. hostsTask[p].bak => backup.exists
      BY DEF HostsAgree, LocksOfHosts
    <3> QED  BY <1>2, <3>1 DEF HostsAgree, BackupHolds, Holding
  <2> QED  BY <2>1, <2>2, <2>3, TakeOutOfUsers
<1> HIDE DEF lines
<1>4. /\ hostsTask'[p].pc = "truncate" /\ hostsTask'[p].lines = lines
      /\ hostsTask'[p].bak = hostsTask[p].bak
      /\ \A q \in HostsProcesses : q # p => hostsTask'[q] = hostsTask[q]
  <2>1. hostsTask \in [HostsProcesses -> HostsTask] /\ hostsTask[p] \in HostsTask
    BY HostsTaskOK
  <2>2. PICK t : t = [hostsTask[p] EXCEPT !.pc = "truncate", !.remove = hostsTask[p].bak,
                                          !.lines = lines]
    OBVIOUS
  <2>3. t.pc = "truncate" /\ t.lines = lines /\ t.bak = hostsTask[p].bak
    BY <2>1, <2>2 DEF HostsTask
  <2>4. hostsTask' = [hostsTask EXCEPT ![p] = t]
    BY <1>1, <2>2
  <2> QED  BY <2>1, <2>3, <2>4
<1>5. LocksOfHosts'
  BY <1>1, <1>2, <1>4 DEF HostsAgree, LocksOfHosts, Holding
<1>6. BackupStays'
  BY <1>1, <1>2, <1>3, <1>4 DEF BackupStays, Adding, Holding
<1>7. (NothingSetUp' <=> NothingSetUp) /\ (BeingWritten' <=> BeingWritten)
  BY <1>1, <1>4 DEF NothingSetUp, BeingWritten
<1>8. FileHolds'
  BY <1>1, <1>7 DEF HostsAgree, FileHolds, AreUserLines
<1>9. TasksHold'
  BY <1>1, <1>2, <1>3, <1>4 DEF TasksHold, Holding
<1>10. BackupHolds'
  BY <1>1, <1>2, <1>4 DEF HostsAgree, BackupHolds, Holding
<1> QED  BY <1>5, <1>6, <1>8, <1>9, <1>10 DEF HostsAgree

LEMMA UpdateFailsAgrees ==
  ASSUME HostsTypeOK, HostsAgree, NEW p \in HostsProcesses, UpdateFails(p), mishaps' = {}
  PROVE  HostsAgree'
<1>1. /\ hostsTask[p].pc = "truncate" /\ hostsLock' = Nobody
      /\ hostsTask[p].bak => ~changedLate
      /\ UNCHANGED <<hostsFile, backup, userLines, late, changedLate>>
  BY NoMishap DEF UpdateFails, HostsAt, hostsFrame
<1>2. /\ hostsTask'[p].pc \in {"close", "idle"} /\ (hostsTask'[p].bak <=> hostsTask[p].bak)
      /\ hostsTask[p].bak => hostsTask'[p].pc = "close" /\ ~hostsTask'[p].remove
      /\ \A q \in HostsProcesses : q # p => hostsTask'[q] = hostsTask[q]
  <2>1. CASE hostsTask[p].bak
    <3>1. hostsTask \in [HostsProcesses -> HostsTask] /\ hostsTask[p] \in HostsTask
      BY HostsTaskOK
    <3>2. hostsTask' = [hostsTask EXCEPT ![p].pc = "close", ![p].remove = changedLate]
      BY <2>1 DEF UpdateFails
    <3>3. PICK t : t = [hostsTask[p] EXCEPT !.pc = "close", !.remove = changedLate]
      OBVIOUS
    <3>4. t.pc = "close" /\ t.bak = hostsTask[p].bak /\ t.remove = changedLate
      BY <3>1, <3>3 DEF HostsTask
    <3>5. hostsTask' = [hostsTask EXCEPT ![p] = t]
      BY <3>1, <3>2, <3>3
    <3>6. hostsTask'[p] = t /\ \A q \in HostsProcesses : q # p => hostsTask'[q] = hostsTask[q]
      BY <3>1, <3>5
    <3> QED  BY <1>1, <2>1, <3>4, <3>6
  <2>2. CASE ~hostsTask[p].bak
    <3>1. Finish(p)
      BY <2>2 DEF UpdateFails
    <3> QED  BY <2>2, <3>1, Finishes
  <2> QED  BY <2>1, <2>2
<1>3. \A q \in HostsProcesses : q # p => hostsTask[q].pc \notin Holding
  BY <1>1, OneHolds DEF HostsAgree, Holding
<1>4. LocksOfHosts'
  BY <1>1, <1>2, <1>3, HostsAssumption DEF HostsAgree, LocksOfHosts, Holding
<1>5. BackupStays'
  BY <1>2, <1>3 DEF BackupStays, Adding, Holding
<1>6. NothingSetUp' => NothingSetUp
  BY <1>1, <1>2 DEF NothingSetUp
<1>7. FileHolds'
  BY <1>1, <1>3, <1>6 DEF HostsAgree, FileHolds, AreUserLines, BeingWritten, Holding
<1>8. TasksHold'
  BY <1>2, <1>3 DEF TasksHold, Holding
<1>9. BackupHolds'
  BY <1>1, <1>3 DEF HostsAgree, BackupHolds, Holding
<1> QED  BY <1>4, <1>5, <1>7, <1>8, <1>9 DEF HostsAgree

LEMMA CloseBackupAgrees ==
  ASSUME HostsTypeOK, HostsAgree, NEW p \in HostsProcesses, CloseBackup(p)
  PROVE  HostsAgree'
<1>1. /\ hostsTask[p].pc = "close" /\ Finish(p)
      /\ UNCHANGED <<hostsFile, hostsLock, userLines, late, changedLate>>
  BY DEF CloseBackup, HostsAt, hostsFrame
<1>2. /\ hostsTask'[p].pc = "idle" /\ ~hostsTask'[p].bak
      /\ \A q \in HostsProcesses : q # p => hostsTask'[q] = hostsTask[q]
  BY <1>1, Finishes
<1>3. /\ backup'.lock = IF hostsTask[p].bak THEN Nobody ELSE backup.lock
      /\ backup'.exists <=> backup.exists /\ ~(hostsTask[p].bak /\ hostsTask[p].remove)
      /\ backup'.exists => backup'.lines = backup.lines
  BY DEF CloseBackup, NoBackup, HostsTypeOK
<1>4. hostsTask[p].bak =>
        /\ backup.exists
        /\ \A q \in HostsProcesses : q # p => ~hostsTask[q].bak /\ hostsTask[q].pc # "copy"
  BY DEF HostsAgree, LocksOfHosts
<1>5. hostsTask[p].bak => \A q \in HostsProcesses : ~Adding(q)
  BY <1>1 DEF HostsAgree, BackupStays
<1>6. LocksOfHosts'
  <2>1. ASSUME NEW q \in HostsProcesses
        PROVE  /\ hostsLock' = q <=> hostsTask'[q].pc \in Holding
               /\ hostsTask'[q].bak => hostsTask'[q].pc \in {"open", "truncate", "write", "close"}
    BY <1>1, <1>2 DEF HostsAgree, LocksOfHosts, Holding
  <2>2. ASSUME NEW q \in HostsProcesses, hostsTask'[q].bak PROVE backup'.exists
    <3>1. q # p /\ hostsTask[q].bak
      BY <1>2, <2>2
    <3> QED  BY <1>3, <1>4, <3>1 DEF HostsAgree, LocksOfHosts
  <2>3. ASSUME NEW q \in HostsProcesses
        PROVE  backup'.lock = q <=> hostsTask'[q].bak \/ hostsTask'[q].pc = "copy"
    <3>1. CASE q = p
      BY <1>1, <1>2, <1>3, <3>1, HostsAssumption DEF HostsAgree, LocksOfHosts
    <3>2. CASE q # p
      BY <1>2, <1>3, <1>4, <3>2, HostsAssumption DEF HostsAgree, LocksOfHosts
    <3> QED  BY <3>1, <3>2
  <2> QED  BY <2>1, <2>2, <2>3 DEF LocksOfHosts
<1>7. BackupStays'
  BY <1>1, <1>2, <1>3, <1>5 DEF HostsAgree, BackupStays, Adding
<1>8. NothingSetUp' => NothingSetUp
  BY <1>1, <1>2, <1>3 DEF NothingSetUp
<1>9. BeingWritten' <=> BeingWritten
  BY <1>1, <1>2 DEF BeingWritten
<1>10. FileHolds'
  BY <1>1, <1>8, <1>9 DEF HostsAgree, FileHolds, AreUserLines
<1>11. TasksHold'
  BY <1>1, <1>2, <1>8 DEF HostsAgree, TasksHold, Holding
<1>12. BackupHolds'
  BY <1>1, <1>2, <1>3 DEF HostsAgree, BackupHolds
<1> QED  BY <1>6, <1>7, <1>10, <1>11, <1>12 DEF HostsAgree

LEMMA StopHostsAgrees ==
  ASSUME HostsTypeOK, HostsAgree, NEW p \in HostsProcesses, StopHosts(p), mishaps' = {}
  PROVE  HostsAgree'
<1>1. /\ hostsTask[p].pc \notin {"lock", "copy", "write"} /\ Finish(p)
      /\ hostsLock' = IF hostsLock = p THEN Nobody ELSE hostsLock
      /\ UNCHANGED <<hostsFile, userLines, late, changedLate>>
  BY NoMishap DEF StopHosts
<1>2. /\ hostsTask'[p].pc = "idle" /\ ~hostsTask'[p].bak
      /\ \A q \in HostsProcesses : q # p => hostsTask'[q] = hostsTask[q]
  BY <1>1, Finishes
<1>3. /\ backup'.lock = IF backup.lock = p THEN Nobody ELSE backup.lock
      /\ backup'.exists = backup.exists /\ backup'.lines = backup.lines
  BY DEF StopHosts, HostsTypeOK
<1>4. LocksOfHosts'
  BY <1>1, <1>2, <1>3, HostsAssumption DEF HostsAgree, LocksOfHosts, Holding
<1>5. BackupStays'
  BY <1>1, <1>2, <1>3 DEF HostsAgree, BackupStays, Adding
<1>6. NothingSetUp' => NothingSetUp
  BY <1>1, <1>2, <1>3 DEF NothingSetUp
<1>7. BeingWritten' <=> BeingWritten
  BY <1>1, <1>2 DEF BeingWritten
<1>8. FileHolds'
  BY <1>1, <1>6, <1>7 DEF HostsAgree, FileHolds, AreUserLines
<1>9. TasksHold'
  BY <1>1, <1>2, <1>6 DEF HostsAgree, TasksHold, Holding
<1>10. BackupHolds'
  BY <1>1, <1>2, <1>3 DEF HostsAgree, BackupHolds
<1> QED  BY <1>4, <1>5, <1>8, <1>9, <1>10 DEF HostsAgree

LEMMA EditAgrees ==
  ASSUME HostsTypeOK, HostsAgree, NEW l \in Edits, Edit(l), mishaps' = {}
  PROVE  HostsAgree'
<1>1. /\ \A p \in HostsProcesses : hostsTask[p].pc = "idle"
      /\ hostsFile' = Append(hostsFile, l) /\ userLines' = Append(userLines, l)
      /\ changedLate' = late /\ (~backup.exists \/ late)
      /\ UNCHANGED <<hostsLock, backup, late, hostsTask>>
  BY NoMishap DEF Edit, HostsAt
<1>2. /\ hostsFile \in Seq(HostsLine) /\ userLines \in Seq(HostsLine)
      /\ l \in HostsLine /\ IsUserLine(l)
  BY HostsAssumption DEF IsUserLine, HostsTypeOK
<1>3. /\ AreUserLines(userLines) /\ TakeOut(hostsFile) = userLines
      /\ NothingSetUp => hostsFile = userLines
  BY <1>1 DEF HostsAgree, FileHolds, BeingWritten
<1>4. AreUserLines(Append(userLines, l))
  BY <1>2, <1>3 DEF AreUserLines
<1>5. TakeOut(Append(hostsFile, l)) = Append(userLines, l)
  BY <1>2, <1>3, UserLineIs, TakeOutAppend
<1>6. NothingSetUp' <=> NothingSetUp
  BY <1>1 DEF NothingSetUp
<1>7. LocksOfHosts'
  BY <1>1 DEF HostsAgree, LocksOfHosts
<1>8. BackupStays'
  BY <1>1 DEF BackupStays, Adding
<1>9. FileHolds'
  <2>1. AreUserLines(userLines)'
    BY <1>1, <1>4 DEF AreUserLines
  <2> QED  BY <1>1, <1>3, <1>5, <1>6, <2>1 DEF FileHolds
<1>10. TasksHold'
  <2>1. \A p \in HostsProcesses : ~hostsTask[p].bak
    BY <1>1 DEF HostsAgree, LocksOfHosts
  <2> QED  BY <1>1, <2>1 DEF TasksHold, Holding
<1>11. BackupHolds'
  BY <1>1 DEF BackupHolds
<1> QED  BY <1>7, <1>8, <1>9, <1>10, <1>11 DEF HostsAgree

LEMMA NothingAgrees ==
  ASSUME HostsAgree, late' = late \/ late',
         UNCHANGED <<hostsFile, hostsLock, backup, changedLate, hostsTask, userLines>>
  PROVE  HostsAgree'
<1>1. (NothingSetUp' <=> NothingSetUp) /\ (BeingWritten' <=> BeingWritten)
  BY DEF NothingSetUp, BeingWritten
<1>2. LocksOfHosts' /\ BackupStays'
  BY DEF HostsAgree, LocksOfHosts, BackupStays, Adding
<1>3. FileHolds'
  BY <1>1 DEF HostsAgree, FileHolds, AreUserLines
<1>4. TasksHold'
  BY <1>1 DEF HostsAgree, TasksHold
<1>5. BackupHolds'
  BY DEF HostsAgree, BackupHolds
<1> QED  BY <1>2, <1>3, <1>4, <1>5 DEF HostsAgree

-----------------------------------------------------------------------------
\* What has gone wrong is not forgotten.
LEMMA MishapsStay ==
  ASSUME [HostsNext]_hostsVars
  PROVE  mishaps \subseteq mishaps'
<1>1. ASSUME NEW k, Mishap(k) PROVE mishaps \subseteq mishaps'
  BY <1>1 DEF Mishap
<1> QED
  BY <1>1 DEF HostsNext, HostsStep, hostsVars, AddHosts, CreateBackup, LockBackup, CopyBackup,
    RemoveHosts, OpenMain, UpdateFails, CloseBackup, Truncate, Write, StopHosts, Edit, ASecond

LEMMA HostsIInvStep == HostsIInv /\ [HostsNext]_hostsVars => HostsIInv'
<1> SUFFICES ASSUME HostsTypeOK, mishaps = {} => HostsAgree, [HostsNext]_hostsVars
             PROVE  HostsIInv'
  BY DEF HostsIInv
<1>1. HostsTypeOK'
  BY HostsTypeStep
<1>2. ASSUME mishaps' = {} PROVE HostsAgree'
  <2>1. HostsAgree
    BY <1>2, MishapsStay
  <2>2. ASSUME NEW p \in HostsProcesses, HostsStep(p) PROVE HostsAgree'
    BY <1>2, <2>1, <2>2, AddHostsAgrees, CreateBackupAgrees, LockBackupAgrees, CopyBackupAgrees,
       RemoveHostsAgrees, OpenMainAgrees, UpdateFailsAgrees, CloseBackupAgrees, TruncateAgrees,
       WriteAgrees, StopHostsAgrees
       DEF HostsStep
  <2>3. ASSUME NEW l \in Edits, Edit(l) PROVE HostsAgree'
    BY <1>2, <2>1, <2>3, EditAgrees
  <2>4. ASSUME ASecond PROVE HostsAgree'
    BY <2>1, <2>4, NothingAgrees DEF ASecond, hostsFrame
  <2>5. ASSUME UNCHANGED hostsVars PROVE HostsAgree'
    BY <2>1, <2>5, NothingAgrees DEF hostsVars, hostsFrame
  <2> QED  BY <2>2, <2>3, <2>4, <2>5 DEF HostsNext
<1> QED  BY <1>1, <1>2 DEF HostsIInv

LEMMA HostsInvariant == HostsSpec => []HostsIInv
<1>1. HostsInit => HostsIInv
  BY HostsInitType, HostsInitAgrees DEF HostsIInv
<1> QED  BY <1>1, HostsIInvStep, PTL DEF HostsSpec

\* The hosts file, its backup and the processes that change them keep their types (common/hosts).
THEOREM HostsTypeCorrect == HostsSpec => []HostsTypeOK
<1>1. HostsIInv => HostsTypeOK
  BY DEF HostsIInv
<1> QED  BY <1>1, HostsInvariant, PTL

\* Whatever the user has in the hosts file, and adds to it meanwhile, is what is in it when nothing
\* is set up and nobody is at work, however AddHosts and RemoveHosts followed one another, failed
\* or were stopped where no file is being written.
THEOREM UserLinesCorrect == HostsSpec => []UserLinesReturn
<1>1. ASSUME HostsIInv PROVE UserLinesReturn
  <2> SUFFICES ASSUME \A p \in HostsProcesses : HostsAt(p, "idle"), ~backup.exists, mishaps = {}
               PROVE  hostsFile = userLines
    BY DEF UserLinesReturn
  <2>1. ~BeingWritten /\ NothingSetUp
    BY DEF HostsAt, BeingWritten, NothingSetUp
  <2> QED  BY <1>1, <2>1 DEF HostsIInv, HostsAgree, FileHolds
<1> QED  BY <1>1, HostsInvariant, PTL
=============================================================================
