------------------------------- MODULE Config -------------------------------
(***************************************************************************)
(* launcher-config, its commands setup and revert, in detail: the user's   *)
(* folders that are exchanged for those of the LAN (internal/userData),    *)
(* the game's certificate store (cacert.go), the user's certificate, the   *)
(* administrator's part, the undo of what was done when a part fails, and  *)
(* the goroutine that undoes on a signal while the command goes on.        *)
(* Launcher.tla takes a setting for one step; here every renaming is one.  *)
(*                                                                         *)
(* The launcher sets up one group of parts at a time and keeps the flags   *)
(* that revert it when the command succeeded; one revert takes all flags.  *)
(* A command can be stopped anywhere, a renaming can fail (on Windows, a   *)
(* file that is in use), and between commands the game is played.          *)
(*                                                                         *)
(* A folder or file is "own" (the user's), "lan" (any other), "part" (a    *)
(* copy that was not finished) or "none".                                  *)
(***************************************************************************)
EXTENDS Naturals, SequencesExt

CONSTANTS
  Profiles,      \* the folders of the user's profiles
  ConfigGroups,  \* the parts that the launcher sets up with one command
  MaxCommands,   \* bound: the commands run
  MaxFaults      \* bound: renamings and others that fail, stops and signals

ConfigParts == {"userCert", "metadata", "profiles", "gameCert", "admin"}

\* The launcher exchanges folders and goes to the administrator with commands of their own.
ASSUME ConfigAssumption ==
  /\ "metadata" \notin Profiles
  /\ \A group \in ConfigGroups :
       /\ group \subseteq ConfigParts
       /\ "admin" \in group => "metadata" \notin group /\ "profiles" \notin group

\* undoSetUp and undoRevert leave the administrator's part out.
Undone == ConfigParts \ {"admin"}

Folders == {"metadata"} \cup Profiles

PartOf(i) == IF i = "metadata" THEN "metadata" ELSE "profiles"

VARIABLES
  dirs,       \* per folder: the active one, its .bak and its .lan
  caStore,    \* the game's store, its .bak and its .lan (TmpPath)
  userCert,   \* the user's certificate is there
  adminPart,  \* the host mappings or the local certificate are there
  flags,      \* the parts whose revert flags are kept
  command,    \* the command that runs: its kind, its parts
  done,       \* addedUserCert, backedUpMetadata..., removedCaCerts, restoredMetadata...
  tasks,      \* the goroutines of the command
  failed,     \* its exit code is not zero
  commands, faults,
  marred      \* history: what befell the folders and the store, of Marks

folderVars == <<dirs, caStore, userCert, adminPart>>
configVars == <<folderVars, flags, command, done, tasks, failed, commands, faults, marred>>

\* A command was stopped, a renaming back or an undo failed, a signal came.
Marks == {"stopped", "stuck", "signalled"}

Goroutines == {"main", "handler"}

NoTask == [todo |-> {}, undo |-> FALSE, at |-> "none", step |-> "begin", left |-> {},
           did |-> <<>>, item |-> "none", cleaning |-> FALSE]

NoCommand == [kind |-> "none", parts |-> {}]

ConfigInit ==
  /\ dirs \in [Folders -> {[active |-> a, bak |-> "none", lan |-> "none"] : a \in {"own", "none"}}]
  /\ dirs["metadata"].active = "own"
  /\ caStore = [file |-> "own", bak |-> "none", tmp |-> "none"]
  /\ userCert = FALSE /\ adminPart = FALSE /\ flags = {}
  /\ command = NoCommand /\ done = {} /\ tasks = [g \in Goroutines |-> NoTask] /\ failed = FALSE
  /\ commands = 0 /\ faults = 0 /\ marred = {}

Running == command.kind # "none"

Task(g) == tasks[g]

Becomes(g, task) == tasks' = [tasks EXCEPT ![g] = task]

\* A step succeeds, or fails for a reason outside.
Succeeds == UNCHANGED faults
Fault == faults < MaxFaults /\ faults' = faults + 1

Mark(kind) == marred' = marred \cup {kind}

bounded == <<command, commands>>

\* The order of setup and revert, and of undoSetUp; undoRevert begins with the game's certificate.
Place(part, undo) ==
  CASE part = "userCert" -> 1
    [] part = "metadata" -> 2
    [] part = "profiles" -> 3
    [] part = "gameCert" -> IF undo /\ command.kind = "revert" THEN 0 ELSE 4
    [] part = "admin" -> 5

\* What is next of a task.
IsNext(t, part) ==
  part \in t.todo /\ \A other \in t.todo : Place(part, t.undo) <= Place(other, t.undo)

Undo == [NoTask EXCEPT !.todo = Undone, !.undo = TRUE]

-----------------------------------------------------------------------------
\* The parts of a command

\* A part is over: the next one, or the undo of those before.
PartEnds(g, ok) ==
  LET t == Task(g) IN
  IF t.undo \/ ok
  THEN /\ Becomes(g, [NoTask EXCEPT !.todo = t.todo \ {t.at}, !.undo = t.undo])
       /\ done' = IF t.undo THEN done ELSE done \cup {t.at}
       /\ UNCHANGED failed
       /\ IF t.undo /\ ~ok THEN Mark("stuck") ELSE UNCHANGED marred
  ELSE /\ Becomes(g, Undo)
       /\ failed' = TRUE
       /\ UNCHANGED <<done, marred>>

\* Profiles: those that are there.  Metadatas: its folder is made when it is not.
NextPart(g) ==
  LET t == Task(g) IN
  /\ Running /\ t.at = "none"
  /\ \E part \in ConfigParts :
       /\ IsNext(t, part)
       /\ IF t.undo /\ part \notin done
          THEN Becomes(g, [t EXCEPT !.todo = @ \ {part}]) /\ UNCHANGED dirs
          ELSE /\ Becomes(g, [t EXCEPT !.at = part, !.left =
                    CASE part = "metadata" -> {part}
                      [] part = "profiles" -> {p \in Profiles : dirs[p].active # "none"}
                      [] OTHER -> {}])
               /\ dirs' = IF part = "metadata" /\ dirs[part].active = "none"
                          THEN [dirs EXCEPT ![part].active = "lan"] ELSE dirs
  /\ UNCHANGED <<caStore, userCert, adminPart, flags, bounded, done, failed, faults, marred>>

At(g, part) == Running /\ Task(g).at = part

\* What the part is to be: set up, or as it was.
SetsUp(g) == (command.kind = "setup") = ~Task(g).undo

UserCertPart(g) ==
  /\ At(g, "userCert")
  /\ LET possible == SetsUp(g) \/ userCert \/ Task(g).undo IN
     \/ possible /\ Succeeds /\ userCert' = SetsUp(g) /\ PartEnds(g, TRUE)
     \/ (IF possible THEN Fault ELSE Succeeds) /\ PartEnds(g, FALSE) /\ UNCHANGED userCert
  /\ UNCHANGED <<dirs, caStore, adminPart, flags, bounded>>

\* config-admin or its agent.  A set-up that config-admin fails undoes nothing.
AdminPart(g) ==
  /\ At(g, "admin")
  /\ \/ /\ Succeeds /\ adminPart' = SetsUp(g)
        /\ Becomes(g, NoTask) /\ failed' = FALSE
     \/ /\ Fault /\ UNCHANGED adminPart
        /\ failed' = TRUE
        /\ \E agent \in BOOLEAN :
             Becomes(g, IF command.kind = "revert" \/ agent THEN Undo ELSE NoTask)
  /\ UNCHANGED <<dirs, caStore, userCert, flags, bounded, done, marred>>

-----------------------------------------------------------------------------
\* Folders: Data.switchPaths, for one after the other of the part

AtFolders(g, step) == Running /\ Task(g).at \in {"metadata", "profiles"} /\ Task(g).step = step

\* Backup takes the active one to .bak and .lan in; Restore .lan, and .bak in.  To clean up
\* after a profile that failed, the other way round.
BacksUp(g) == SetsUp(g) = ~Task(g).cleaning
Into(g) == IF BacksUp(g) THEN "bak" ELSE "lan"
From(g) == IF BacksUp(g) THEN "lan" ELSE "bak"

Move(i, from, to) == dirs' = [dirs EXCEPT ![i][to] = dirs[i][from], ![i][from] = "none"]

\* One folder is over.  Mutant: those before it stay as they are.
FolderEndsUnclean(g, i, ok) ==
  LET t == Task(g) IN
  IF ~ok /\ ~t.cleaning THEN PartEnds(g, FALSE)
  ELSE /\ Becomes(g, [t EXCEPT !.step = "begin", !.item = "none", !.left = @ \ {i},
                               !.did = IF t.cleaning THEN Front(@) ELSE Append(@, i)])
       /\ UNCHANGED <<done, failed, marred>>

\* One folder is over: the next, or, after one that failed, those before it in reverse.
FolderEnds(g, i, ok) ==
  LET t == Task(g)
      next == [t EXCEPT !.step = "begin", !.item = "none"] IN
  IF ~ok /\ ~t.cleaning /\ t.did = <<>> THEN PartEnds(g, FALSE)
  ELSE /\ Becomes(g, IF t.cleaning THEN [next EXCEPT !.did = Front(@)]
                     ELSE IF ok THEN [next EXCEPT !.left = @ \ {i}, !.did = Append(@, i)]
                     ELSE [next EXCEPT !.cleaning = TRUE])
       /\ UNCHANGED <<done, failed>>
       /\ IF t.cleaning /\ ~ok THEN Mark("stuck") ELSE UNCHANGED marred

Candidates(g) ==
  LET t == Task(g) IN IF t.cleaning THEN IF t.did = <<>> THEN {} ELSE {Last(t.did)} ELSE t.left

SwitchFirst(g, i) ==
  /\ AtFolders(g, "begin") /\ i \in Candidates(g)
  /\ \/ /\ dirs[i][Into(g)] # "none" /\ Succeeds
        /\ FolderEnds(g, i, FALSE) /\ UNCHANGED dirs
     \/ /\ dirs[i][Into(g)] = "none" /\ Succeeds
        /\ IF dirs[i].active = "none" THEN dirs' = [dirs EXCEPT ![i][Into(g)] = "lan"]
                                      ELSE Move(i, "active", Into(g))
        /\ Becomes(g, [Task(g) EXCEPT !.step = "second", !.item = i])
        /\ UNCHANGED <<done, failed, marred>>
     \/ /\ dirs[i][Into(g)] = "none" /\ Fault
        /\ FolderEnds(g, i, FALSE) /\ UNCHANGED dirs
  /\ UNCHANGED <<caStore, userCert, adminPart, flags, bounded>>

\* The other one is made when it is not there.
SwitchSecond(g) ==
  /\ AtFolders(g, "second")
  /\ LET i == Task(g).item
         other == IF dirs[i][From(g)] = "none" THEN "lan" ELSE dirs[i][From(g)] IN
     \/ /\ dirs[i].active = "none" /\ Succeeds
        /\ dirs' = [dirs EXCEPT ![i].active = other, ![i][From(g)] = "none"]
        /\ FolderEnds(g, i, TRUE)
     \/ /\ IF dirs[i].active = "none" THEN Fault ELSE Succeeds
        /\ dirs' = [dirs EXCEPT ![i][From(g)] = other]
        /\ Becomes(g, [Task(g) EXCEPT !.step = "back"])
        /\ UNCHANGED <<done, failed, marred>>
  /\ UNCHANGED <<caStore, userCert, adminPart, flags, bounded>>

SwitchBack(g) ==
  /\ AtFolders(g, "back")
  /\ LET i == Task(g).item
         possible == dirs[i].active = "none" /\ dirs[i][Into(g)] # "none" IN
     \/ /\ possible /\ Succeeds /\ Move(i, Into(g), "active")
        /\ FolderEnds(g, i, FALSE)
     \/ /\ IF possible THEN Fault ELSE Succeeds
        /\ Becomes(g, [Task(g) EXCEPT !.step = "lost"])
        /\ Mark("stuck") /\ UNCHANGED <<dirs, done, failed>>
  /\ UNCHANGED <<caStore, userCert, adminPart, flags, bounded>>

\* The way back failed too.
SwitchLost(g) ==
  /\ AtFolders(g, "lost")
  /\ FolderEnds(g, Task(g).item, FALSE)
  /\ UNCHANGED <<folderVars, flags, bounded, faults>>

FoldersEnd(g) ==
  /\ AtFolders(g, "begin") /\ Candidates(g) = {}
  /\ PartEnds(g, ~Task(g).cleaning)
  /\ UNCHANGED <<folderVars, flags, bounded, faults>>

-----------------------------------------------------------------------------
\* The game's certificate store: CACert

AtStore(g, step) == At(g, "gameCert") /\ Task(g).step = step

StoreStep(g, step) ==
  /\ Becomes(g, [Task(g) EXCEPT !.step = step]) /\ UNCHANGED <<done, failed, marred>>

\* Backup, unless there is one; or, in the undo of a revert, only Append.
StoreBegin(g) ==
  /\ AtStore(g, "begin")
  /\ IF ~SetsUp(g)
     THEN IF caStore.file = "none" \/ caStore.bak = "none" \/ caStore.tmp # "none"
          THEN PartEnds(g, FALSE) /\ UNCHANGED caStore
          ELSE /\ caStore' = [caStore EXCEPT !.tmp = caStore.file, !.file = "none"]
               /\ StoreStep(g, "restore")
     ELSE IF caStore.file = "none" THEN PartEnds(g, FALSE) /\ UNCHANGED caStore
     ELSE IF Task(g).undo \/ caStore.bak # "none" THEN StoreStep(g, "append") /\ UNCHANGED caStore
     ELSE caStore' = [caStore EXCEPT !.bak = "part"] /\ StoreStep(g, "copy")
  /\ UNCHANGED <<dirs, userCert, adminPart, flags, bounded, faults>>

StoreCopy(g) ==
  /\ AtStore(g, "copy")
  /\ \/ /\ Succeeds /\ caStore' = [caStore EXCEPT !.bak = caStore.file]
        /\ StoreStep(g, "append")
     \/ /\ Fault /\ caStore' = [caStore EXCEPT !.bak = "none"]
        /\ PartEnds(g, FALSE)
  /\ UNCHANGED <<dirs, userCert, adminPart, flags, bounded>>

\* From here on the part counts as done, whether the certificate is added or not.
StoreAppend(g) ==
  /\ AtStore(g, "append")
  /\ \/ Succeeds /\ caStore' = [caStore EXCEPT !.file = "lan"] /\ PartEnds(g, TRUE)
     \/ /\ Fault /\ UNCHANGED caStore
        /\ IF Task(g).undo THEN PartEnds(g, FALSE)
           ELSE /\ Becomes(g, Undo)
                /\ done' = done \cup {"gameCert"} /\ failed' = TRUE /\ UNCHANGED marred
  /\ UNCHANGED <<dirs, userCert, adminPart, flags, bounded>>

\* Restore: the backup comes back, both files are read, and the other one goes.
StoreRestore(g) ==
  /\ AtStore(g, "restore")
  /\ \/ /\ Succeeds /\ caStore' = [caStore EXCEPT !.file = caStore.bak, !.bak = "none"]
        /\ StoreStep(g, "remove")
     \/ /\ Fault /\ caStore' = [caStore EXCEPT !.file = caStore.tmp, !.tmp = "none"]
        /\ PartEnds(g, FALSE)
  /\ UNCHANGED <<dirs, userCert, adminPart, flags, bounded>>

StoreRemove(g) ==
  /\ AtStore(g, "remove")
  /\ \/ /\ Succeeds /\ caStore' = [caStore EXCEPT !.tmp = "none"]
        /\ PartEnds(g, TRUE)
     \/ /\ Fault /\ caStore' = [file |-> caStore.tmp, bak |-> caStore.file, tmp |-> "none"]
        /\ PartEnds(g, FALSE)
  /\ UNCHANGED <<dirs, userCert, adminPart, flags, bounded>>

-----------------------------------------------------------------------------
\* Commands

Begins(kind, parts) ==
  /\ ~Running /\ commands < MaxCommands
  /\ command' = [kind |-> kind, parts |-> parts] /\ commands' = commands + 1
  /\ done' = {} /\ failed' = FALSE
  /\ tasks' = [g \in Goroutines |-> IF g = "main"
                 THEN [NoTask EXCEPT !.todo = parts] ELSE NoTask]
  /\ UNCHANGED <<folderVars, flags, faults, marred>>

SetUp(group) == group \cap flags = {} /\ Begins("setup", group)

Revert == flags # {} /\ Begins("revert", flags)

\* The launcher keeps the flags, or deletes them; the other goroutine ends with the process.
CommandEnds ==
  /\ Running /\ Task("main").at = "none" /\ Task("main").todo = {}
  /\ flags' = IF failed THEN flags
              ELSE IF command.kind = "setup" THEN flags \cup command.parts ELSE {}
  /\ command' = NoCommand /\ tasks' = [g \in Goroutines |-> NoTask]
  /\ done' = {} /\ failed' = FALSE
  /\ UNCHANGED <<folderVars, commands, faults, marred>>

\* Its handler undoes what is done so far; the command goes on.
Signal ==
  /\ Running /\ "signalled" \notin marred /\ Fault
  /\ Becomes("handler", Undo)
  /\ failed' = TRUE /\ Mark("signalled")
  /\ UNCHANGED <<folderVars, flags, bounded, done>>

StopConfig ==
  /\ Running /\ Fault
  /\ command' = NoCommand /\ tasks' = [g \in Goroutines |-> NoTask]
  /\ done' = {} /\ failed' = FALSE /\ Mark("stopped")
  /\ UNCHANGED <<folderVars, flags, commands>>

\* The game makes a folder that it misses: the user's, unless the LAN's are in.
Play(i) ==
  /\ ~Running /\ dirs[i].active = "none"
  /\ dirs' = [dirs EXCEPT ![i].active =
       IF PartOf(i) \in flags \/ \E k \in {"bak", "lan"} : dirs[i][k] = "own"
       THEN "lan" ELSE "own"]
  /\ UNCHANGED <<caStore, userCert, adminPart, flags, bounded, done, tasks, failed, faults, marred>>

GoroutineStep(g) ==
  \/ NextPart(g) \/ UserCertPart(g) \/ AdminPart(g)
  \/ \E i \in Folders : SwitchFirst(g, i)
  \/ SwitchSecond(g) \/ SwitchBack(g) \/ SwitchLost(g) \/ FoldersEnd(g)
  \/ StoreBegin(g) \/ StoreCopy(g) \/ StoreAppend(g) \/ StoreRestore(g) \/ StoreRemove(g)

ConfigNext ==
  \/ \E g \in Goroutines : GoroutineStep(g)
  \/ \E group \in ConfigGroups : SetUp(group)
  \/ Revert \/ CommandEnds \/ Signal \/ StopConfig
  \/ \E i \in Folders : Play(i)

ConfigSpec == ConfigInit /\ [][ConfigNext]_configVars

-----------------------------------------------------------------------------
ConfigTasks ==
  [todo : SUBSET ConfigParts, undo : BOOLEAN, at : ConfigParts \cup {"none"},
   step : {"begin", "second", "back", "lost", "append", "copy", "restore", "remove"},
   left : SUBSET Folders, did : Seq(Folders), item : Folders \cup {"none"}, cleaning : BOOLEAN]

ConfigTypeOK ==
  /\ dirs \in [Folders -> [active : {"own", "lan", "none"}, bak : {"own", "lan", "none"},
                           lan : {"own", "lan", "none"}]]
  /\ caStore \in [file : {"own", "lan", "part", "none"}, bak : {"own", "lan", "part", "none"},
                  tmp : {"own", "lan", "part", "none"}]
  /\ userCert \in BOOLEAN /\ adminPart \in BOOLEAN /\ failed \in BOOLEAN
  /\ flags \subseteq ConfigParts /\ done \subseteq ConfigParts
  /\ command \in [kind : {"none", "setup", "revert"}, parts : SUBSET ConfigParts]
  /\ tasks \in [Goroutines -> ConfigTasks]
  /\ marred \subseteq Marks

Has(i) == \E k \in {"active", "bak", "lan"} : dirs[i][k] = "own"

\* When no command runs, every folder of the user's is the active one if nothing is set up, and
\* if it is, it is the backup and nothing is in the way of its return, whatever failed and was
\* undone before (Backup, Restore, undoSetUp, undoRevert).  Excused: a command that was stopped
\* or got a signal, and a renaming back, or an undo, that failed as well.
OwnFoldersReturn ==
  ~Running /\ marred = {} => \A i \in Folders : Has(i) =>
    IF PartOf(i) \in flags /\ dirs[i].active # "own"
    THEN dirs[i].bak = "own" /\ dirs[i].lan = "none"
    ELSE dirs[i].active = "own"

\* When no command runs, no set-up of the game's certificate store is kept to be reverted without
\* the backup from which to restore it (CACert.Restore, undoRevert's addCaCerts).
StoreCanBeRestored ==
  ~Running /\ marred = {} /\ "gameCert" \in flags
    => caStore.file # "none" /\ caStore.bak = "own" /\ caStore.tmp = "none"
=============================================================================
