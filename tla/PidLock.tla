------------------------------ MODULE PidLock ------------------------------
(***************************************************************************)
(* The PID file that lets one process of a program run at a time:          *)
(* common/fileLock (PidLock) and common/process (Process, Kill), as the    *)
(* server, the battle-server-manager, the launcher, its agent and the      *)
(* config-admin-agent use them on Linux.                                   *)
(*                                                                         *)
(* The file is looked at, taken away when what it names is not running,    *)
(* opened or created, locked, and written; at the end the lock goes first  *)
(* and the file after it, by its name.  Nothing makes these steps one, and *)
(* the name may mean another file by then.  A watcher looks in the same    *)
(* way (the launcher, config-admin, the log of what runs) and may kill     *)
(* what it finds.                                                          *)
(*                                                                         *)
(* A file is its number in files; a process that starts again is another   *)
(* process: its start time tells a number used again.  The directory for   *)
(* temporary files is there, so that the first of the two paths is used.   *)
(***************************************************************************)
EXTENDS Naturals, Sequences, FiniteSets

CONSTANTS
  Programs,   \* the processes of one program
  Watcher,    \* the process that looks for it from outside
  NoProgram

ASSUME PidAssumption == Watcher \notin Programs /\ NoProgram \notin Programs

VARIABLES
  path,      \* the file that has the name, 0: none
  files,     \* the files: what is in them, and the process that has them locked
  program,   \* the processes: where they are, the file they have open
  watch,     \* the watcher: where it is, the process that it kills
  mistaken   \* history: a file was taken away that another process had open

pidVars == <<path, files, program, watch, mistaken>>

\* What a file can hold that is not a process: nothing, or sixteen zeros.
Blank == {"empty", "zeros"}

PidInit ==
  /\ path = 0 /\ files = <<>> /\ mistaken = FALSE
  /\ program = [p \in Programs |-> [pc |-> "begin", file |-> 0]]
  /\ watch = [pc |-> "begin", victim |-> NoProgram]

Ended(p) == program[p].pc \in {"begin", "ended"}

ProgramAt(p, pc) == program[p].pc = pc

Proceed(p, pc) == program' = [program EXCEPT ![p].pc = pc]

\* The process ends or gives up: what it has open is closed, and its lock goes with it.
Leaves(p) ==
  /\ program' = [program EXCEPT ![p] = [pc |-> "ended", file |-> 0]]
  /\ files' = [i \in DOMAIN files |->
                 IF files[i].locker = p THEN [files[i] EXCEPT !.locker = NoProgram] ELSE files[i]]

\* os.Remove of the name, whatever file has it by now.
RemoveFile(remover) ==
  /\ path' = 0
  /\ mistaken' = (mistaken \/ \E q \in Programs \ {remover} : path # 0 /\ program[q].file = path)

\* FindProcessWithStartTime finds it.
Alive(q) == q \in Programs /\ ~Ended(q)

-----------------------------------------------------------------------------
\* Lock

\* Process: nothing there, a file of no use, or one that runs, and then Lock fails.
Look(p) ==
  /\ ProgramAt(p, "begin")
  /\ IF path = 0 THEN Proceed(p, "open")
     ELSE IF Alive(files[path].data) THEN Proceed(p, "ended") ELSE Proceed(p, "discard")
  /\ UNCHANGED <<path, files, watch, mistaken>>

Discard(p) ==
  /\ ProgramAt(p, "discard")
  /\ RemoveFile(p) /\ Proceed(p, "open")
  /\ UNCHANGED <<files, watch>>

\* Opened, or created.
Open(p) ==
  /\ ProgramAt(p, "open")
  /\ LET file == IF path = 0 THEN Len(files) + 1 ELSE path IN
       /\ path' = file
       /\ files' = IF path = 0 THEN Append(files, [data |-> "empty", locker |-> NoProgram])
                   ELSE files
       /\ program' = [program EXCEPT ![p] = [pc |-> "lock", file |-> file]]
  /\ UNCHANGED <<watch, mistaken>>

\* Mutant: the file is not locked.
LockUnlocked(p) ==
  /\ ProgramAt(p, "lock")
  /\ Proceed(p, "truncate") /\ UNCHANGED files
  /\ UNCHANGED <<path, watch, mistaken>>

\* Nobody waits for the lock.
Lock(p) ==
  /\ ProgramAt(p, "lock")
  /\ LET file == program[p].file IN
       IF files[file].locker = NoProgram
       THEN files' = [files EXCEPT ![file].locker = p] /\ Proceed(p, "truncate")
       ELSE Leaves(p)
  /\ UNCHANGED <<path, watch, mistaken>>

\* writePid: to sixteen bytes, which leaves what is there.
SetSize(p) ==
  /\ ProgramAt(p, "truncate")
  /\ files' = [files EXCEPT ![program[p].file].data = IF @ = "empty" THEN "zeros" ELSE @]
  /\ Proceed(p, "write")
  /\ UNCHANGED <<path, watch, mistaken>>

WritePid(p) ==
  /\ ProgramAt(p, "write")
  /\ files' = [files EXCEPT ![program[p].file].data = p]
  /\ Proceed(p, "runs")
  /\ UNCHANGED <<path, watch, mistaken>>

-----------------------------------------------------------------------------
\* Unlock, and the ways to end without it

Unlock(p) ==
  /\ ProgramAt(p, "runs")
  /\ files' = [files EXCEPT ![program[p].file].locker = NoProgram]
  /\ program' = [program EXCEPT ![p] = [pc |-> "remove", file |-> 0]]
  /\ UNCHANGED <<path, watch, mistaken>>

RemoveOwn(p) ==
  /\ ProgramAt(p, "remove")
  /\ RemoveFile(p) /\ Proceed(p, "ended")
  /\ UNCHANGED <<files, watch>>

\* It crashes, is killed, or fails to write the file.
Crash(p) ==
  /\ ~Ended(p)
  /\ Leaves(p)
  /\ UNCHANGED <<path, watch, mistaken>>

-----------------------------------------------------------------------------
\* The watcher

WatcherLook ==
  /\ watch.pc = "begin" /\ path # 0
  /\ \/ Alive(files[path].data) /\ watch' = [pc |-> "kill", victim |-> files[path].data]
     \/ ~Alive(files[path].data) /\ watch' = [watch EXCEPT !.pc = "remove"]
  /\ UNCHANGED <<path, files, program, mistaken>>

\* KillPidProc: an interrupt, after which it ends in its own time (Unlock) or within three
\* seconds not, and then it is killed (Crash).
WatcherKilled ==
  /\ watch.pc = "kill" /\ Ended(watch.victim)
  /\ watch' = [watch EXCEPT !.pc = "remove"]
  /\ UNCHANGED <<path, files, program, mistaken>>

WatcherRemove ==
  /\ watch.pc = "remove"
  /\ RemoveFile(Watcher)
  /\ watch' = [pc |-> "begin", victim |-> NoProgram]
  /\ UNCHANGED <<files, program>>

ProgramStep(p) ==
  \/ Look(p) \/ Discard(p) \/ Open(p) \/ Lock(p) \/ SetSize(p) \/ WritePid(p)
  \/ Unlock(p) \/ RemoveOwn(p) \/ Crash(p)

PidNext ==
  \/ \E p \in Programs : ProgramStep(p)
  \/ WatcherLook \/ WatcherKilled \/ WatcherRemove

PidSpec == PidInit /\ [][PidNext]_pidVars

-----------------------------------------------------------------------------
File == [data : Blank \cup Programs, locker : Programs \cup {NoProgram}]

PidTypeOK ==
  /\ path \in 0 .. Len(files)
  /\ files \in Seq(File)
  /\ program \in [Programs -> [pc : {"begin", "discard", "open", "lock", "truncate", "write",
                                     "runs", "remove", "ended"},
                               file : 0 .. Len(files)]]
  /\ watch \in [pc : {"begin", "kill", "remove"}, victim : Programs \cup {NoProgram}]
  /\ mistaken \in BOOLEAN

\* Two processes of a program never run at once, however they start, end, crash and are killed
\* (Lock, Unlock, Kill), as long as nobody took away a file that another had open: an end
\* releases its lock before it removes the file, and one that looked may act on what it saw.
AtMostOneRuns == mistaken \/ Cardinality({p \in Programs : ProgramAt(p, "runs")}) <= 1
=============================================================================
