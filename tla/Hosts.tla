------------------------------- MODULE Hosts -------------------------------
(***************************************************************************)
(* The hosts file of the PC: common/hosts (AddHosts, UpdateHosts and the   *)
(* lines) and RemoveHosts of launcher-config-admin/internal/hosts, as two  *)
(* elevated processes run them: a config-admin, or its agent, that sets up *)
(* and one that reverts, while the user edits the file between.            *)
(*                                                                         *)
(* A process holds the file's lock, which nobody waits for, from opening   *)
(* the file until it has been rewritten in place.  AddHosts copies the     *)
(* file to hosts.bak, which must not exist, and rewrites it with the       *)
(* user's lines for the same mappings commented out and marked, and the    *)
(* missing mappings, marked too.  RemoveHosts writes the backup back, or,  *)
(* if the file was changed a second or more after it, takes out what is    *)
(* marked.  A process can be stopped between any two of these steps.       *)
(*                                                                         *)
(* A line is its address, its hosts, whether it ends with the program's    *)
(* mark, and whether it is a comment.  The file and its directory are      *)
(* there, and its encoding is one the program knows.                       *)
(***************************************************************************)
EXTENDS Naturals, SequencesExt

CONSTANTS
  ServerIp,        \* the address to map to
  GameHosts,       \* the hosts to map: those of one game
  Hostname,        \* the PC's own name, which AddHosts comments out (not on Windows)
  MaxHosts,        \* maxHostsPerLine
  UserFiles,       \* what the user can have in the file, as sequences of lines
  Edits,           \* lines that the user may add to it
  HostsProcesses,  \* the processes that can run at once
  Nobody,
  MaxHostsStops,   \* bound: how often a process is stopped in the middle
  MaxAdds          \* bound: how often AddHosts is begun

VARIABLES
  hostsFile,   \* its lines
  hostsLock,   \* the process that has it locked
  backup,      \* hosts.bak: whether it exists, its lines, the process that has it locked
  late,        \* a second has passed since the backup was written
  changedLate, \* and the hosts file has been written after that
  hostsTask,   \* the processes
  hostsStops, hostsAdds,
  userLines,   \* history: the user's own lines
  added,       \* the user has edited the file
  mishaps      \* history: what has gone wrong, of Mishaps

hostsFrame == <<hostsStops, hostsAdds, userLines, added>>
hostsVars == <<hostsFile, hostsLock, backup, late, changedLate, hostsTask, mishaps, hostsFrame>>

\* A process was stopped while it wrote a file; one found a file locked by another; the user
\* edited the file within a second of its backup; an update in place failed, which has the
\* backup removed and what was added left.
Mishaps == {"torn", "crossed", "hasty", "unrestored"}

Line(ip, hosts, own, off) == [ip |-> ip, hosts |-> hosts, own |-> own, off |-> off]

HostsLine == [ip : STRING, hosts : Seq(STRING), own : BOOLEAN, off : BOOLEAN]

\* A line that the user writes.
UserLine(ip, hosts) == Line(ip, hosts, FALSE, FALSE)

\* What ParseLine takes as one: a comment, or an address with at least one host.
IsUserLine(l) == l \in HostsLine /\ ~l.own /\ (l.off \/ l.hosts # <<>>)

ASSUME HostsAssumption ==
  /\ ServerIp \in STRING /\ GameHosts \subseteq STRING /\ IsFiniteSet(GameHosts)
  /\ MaxHosts \in Nat
  /\ \A s \in UserFiles : s \in Seq(HostsLine) /\ \A i \in DOMAIN s : IsUserLine(s[i])
  /\ \A l \in Edits : IsUserLine(l)
  /\ Nobody \notin HostsProcesses

NoBackup == [exists |-> FALSE, lines |-> <<>>, lock |-> Nobody]
NoHostsTask == [pc |-> "idle", lines |-> <<>>, bak |-> FALSE, remove |-> FALSE]

HostsInit ==
  /\ hostsFile \in UserFiles /\ userLines = hostsFile
  /\ hostsLock = Nobody /\ backup = NoBackup
  /\ late = FALSE /\ changedLate = FALSE
  /\ hostsTask = [p \in HostsProcesses |-> NoHostsTask]
  /\ hostsStops = 0 /\ hostsAdds = 0 /\ added = FALSE /\ mishaps = {}

Mishap(kind) == mishaps' = mishaps \cup {kind}

-----------------------------------------------------------------------------
\* The lines

Usable(l) == SubSeq(l.hosts, 1, IF Len(l.hosts) > MaxHosts THEN MaxHosts ELSE Len(l.hosts))

Commented(l) == [l EXCEPT !.off = TRUE, !.own = TRUE]

\* What of a sequence is not in D, in its order.
Remaining(s, D) ==
  LET left[n \in 0 .. Len(s)] ==
        IF n = 0 THEN <<>> ELSE IF s[n] \in D THEN left[n - 1] ELSE Append(left[n - 1], s[n])
  IN left[Len(s)]

\* What becomes of a line, and of the mappings that are still to be added.
TakeLine(rest, l) ==
  IF l.off THEN [rest EXCEPT !.lines = Append(@, l)]
  ELSE LET right == IF l.ip = ServerIp THEN Range(Usable(l)) \cap rest.missing ELSE {}
           avoided == Range(Usable(l)) \cap (right \cup {Hostname})
           kept == Remaining(Usable(l), avoided)
           removed == avoided # {} \/ Len(l.hosts) > MaxHosts
       IN [missing |-> rest.missing \ right,
           lines |-> rest.lines \o (IF removed THEN <<Commented(l)>> ELSE <<>>)
                       \o (IF kept # <<>> THEN <<Line(l.ip, kept, removed, FALSE)>> ELSE <<>>)]

missingIpMappings(lines) ==
  LET taken[n \in 0 .. Len(lines)] ==
        IF n = 0 THEN [missing |-> GameHosts, lines |-> <<>>] ELSE TakeLine(taken[n - 1], lines[n])
  IN taken[Len(lines)]

Mappings(hosts) == SetToSeq({Line(ServerIp, <<h>>, TRUE, FALSE) : h \in hosts})

\* restoreInPlace: what is marked goes, or is a line again.
TakeOut(lines) ==
  LET restored(l) == IF l.own /\ l.off THEN [l EXCEPT !.own = FALSE, !.off = FALSE] ELSE l
      left == Remaining(lines, {l \in Range(lines) : l.own /\ ~l.off})
  IN [i \in DOMAIN left |-> restored(left[i])]

-----------------------------------------------------------------------------
\* AddHosts

HostsAt(p, pc) == hostsTask[p].pc = pc

HostsGoTo(p, pc) == hostsTask' = [hostsTask EXCEPT ![p].pc = pc]

Finish(p) == hostsTask' = [hostsTask EXCEPT ![p] = NoHostsTask]

AddHosts(p) ==
  /\ HostsAt(p, "idle") /\ hostsAdds < MaxAdds
  /\ hostsAdds' = hostsAdds + 1
  /\ IF hostsLock # Nobody
     THEN Mishap("crossed") /\ UNCHANGED <<hostsLock, hostsTask>>
     ELSE LET result == missingIpMappings(hostsFile) IN
          /\ result.missing # {}
          /\ hostsLock' = p
          /\ hostsTask' = [hostsTask EXCEPT ![p] =
               [NoHostsTask EXCEPT !.pc = "backup",
                                   !.lines = result.lines \o Mappings(result.missing)]]
          /\ UNCHANGED mishaps
  /\ UNCHANGED <<hostsFile, backup, late, changedLate, hostsStops, userLines, added>>

\* Created exclusively; a left one, or a disk that fails, ends the update.
CreateBackup(p) ==
  /\ HostsAt(p, "backup")
  /\ \/ /\ ~backup.exists
        /\ backup' = [NoBackup EXCEPT !.exists = TRUE]
        /\ late' = FALSE /\ changedLate' = FALSE
        /\ HostsGoTo(p, "lock")
        /\ UNCHANGED hostsLock
     \/ /\ Finish(p) /\ hostsLock' = Nobody
        /\ UNCHANGED <<backup, late, changedLate>>
  /\ UNCHANGED <<hostsFile, mishaps, hostsFrame>>

\* Another process may have found it in between; it is not removed then.
LockBackup(p) ==
  /\ HostsAt(p, "lock")
  /\ IF backup.lock = Nobody
     THEN /\ HostsGoTo(p, "copy") /\ backup' = [backup EXCEPT !.lock = p]
          /\ UNCHANGED <<hostsLock, mishaps>>
     ELSE Finish(p) /\ hostsLock' = Nobody /\ Mishap("crossed") /\ UNCHANGED backup
  /\ UNCHANGED <<hostsFile, late, changedLate, hostsFrame>>

CopyBackup(p) ==
  /\ HostsAt(p, "copy")
  /\ backup' = [backup EXCEPT !.lines = hostsFile, !.lock = Nobody]
  /\ HostsGoTo(p, "truncate")
  /\ UNCHANGED <<hostsFile, hostsLock, late, changedLate, mishaps, hostsFrame>>

-----------------------------------------------------------------------------
\* UpdateHosts: its last steps, for AddHosts and RemoveHosts.

Truncate(p) ==
  /\ HostsAt(p, "truncate")
  /\ hostsFile' = <<>> /\ changedLate' = late
  /\ HostsGoTo(p, "write")
  /\ UNCHANGED <<hostsLock, backup, late, mishaps, hostsFrame>>

Write(p) ==
  /\ HostsAt(p, "write")
  /\ hostsFile' = hostsTask[p].lines /\ changedLate' = late
  /\ hostsLock' = Nobody
  /\ IF hostsTask[p].bak THEN HostsGoTo(p, "close") ELSE Finish(p)
  /\ UNCHANGED <<backup, late, mishaps, hostsFrame>>

-----------------------------------------------------------------------------
\* RemoveHosts

\* Without a backup, or with one that is locked, it goes on without.
RemoveHosts(p) ==
  /\ HostsAt(p, "idle")
  /\ LET found == backup.exists /\ backup.lock = Nobody IN
       /\ hostsTask' = [hostsTask EXCEPT ![p] = [NoHostsTask EXCEPT !.pc = "open", !.bak = found]]
       /\ backup' = IF found THEN [backup EXCEPT !.lock = p] ELSE backup
       /\ IF backup.lock # Nobody THEN Mishap("crossed") ELSE UNCHANGED mishaps
  /\ UNCHANGED <<hostsFile, hostsLock, late, changedLate, hostsFrame>>

\* Mutant: the backup is taken whatever was changed after it.
OpenMainForBackup(p) ==
  /\ HostsAt(p, "open")
  /\ IF hostsLock # Nobody
     THEN HostsGoTo(p, "close") /\ Mishap("crossed") /\ UNCHANGED hostsLock
     ELSE LET whole == hostsTask[p].bak IN
          /\ hostsLock' = p
          /\ hostsTask' = [hostsTask EXCEPT ![p] =
               [@ EXCEPT !.pc = "truncate", !.remove = hostsTask[p].bak,
                         !.lines = IF whole THEN backup.lines ELSE TakeOut(hostsFile)]]
          /\ UNCHANGED mishaps
  /\ UNCHANGED <<hostsFile, backup, late, changedLate, hostsFrame>>

\* The hosts file is locked, and the way to restore it chosen by the times of the two files.
OpenMain(p) ==
  /\ HostsAt(p, "open")
  /\ IF hostsLock # Nobody
     THEN HostsGoTo(p, "close") /\ Mishap("crossed") /\ UNCHANGED hostsLock
     ELSE LET whole == hostsTask[p].bak /\ ~changedLate IN
          /\ hostsLock' = p
          /\ hostsTask' = [hostsTask EXCEPT ![p] =
               [@ EXCEPT !.pc = "truncate", !.remove = hostsTask[p].bak,
                         !.lines = IF whole THEN backup.lines ELSE TakeOut(hostsFile)]]
          /\ UNCHANGED mishaps
  /\ UNCHANGED <<hostsFile, backup, late, changedLate, hostsFrame>>

\* The temporary file cannot be made or written.  AddHosts leaves the backup; a restoration in
\* place has it removed all the same.
UpdateFails(p) ==
  /\ HostsAt(p, "truncate")
  /\ hostsLock' = Nobody
  /\ IF hostsTask[p].bak
     THEN hostsTask' = [hostsTask EXCEPT ![p].pc = "close", ![p].remove = changedLate]
     ELSE Finish(p)
  /\ IF hostsTask[p].bak /\ changedLate THEN Mishap("unrestored") ELSE UNCHANGED mishaps
  /\ UNCHANGED <<hostsFile, backup, late, changedLate, hostsFrame>>

\* The deferred end
CloseBackup(p) ==
  /\ HostsAt(p, "close")
  /\ backup' = IF ~hostsTask[p].bak THEN backup
               ELSE IF hostsTask[p].remove THEN NoBackup ELSE [backup EXCEPT !.lock = Nobody]
  /\ Finish(p)
  /\ UNCHANGED <<hostsFile, hostsLock, late, changedLate, mishaps, hostsFrame>>

-----------------------------------------------------------------------------
\* The user, time, and stops

Edit(l) ==
  /\ ~added /\ \A p \in HostsProcesses : HostsAt(p, "idle")
  /\ hostsFile' = Append(hostsFile, l) /\ userLines' = Append(userLines, l)
  /\ added' = TRUE
  /\ changedLate' = late
  /\ IF backup.exists /\ ~late THEN Mishap("hasty") ELSE UNCHANGED mishaps
  /\ UNCHANGED <<hostsLock, backup, late, hostsTask, hostsStops, hostsAdds>>

ASecond ==
  /\ ~late /\ late' = TRUE
  /\ UNCHANGED <<hostsFile, hostsLock, backup, changedLate, hostsTask, mishaps, hostsFrame>>

StopHosts(p) ==
  /\ ~HostsAt(p, "idle") /\ hostsStops < MaxHostsStops
  /\ hostsStops' = hostsStops + 1
  /\ IF hostsTask[p].pc \in {"lock", "copy", "write"} THEN Mishap("torn") ELSE UNCHANGED mishaps
  /\ Finish(p)
  /\ hostsLock' = IF hostsLock = p THEN Nobody ELSE hostsLock
  /\ backup' = IF backup.lock = p THEN [backup EXCEPT !.lock = Nobody] ELSE backup
  /\ UNCHANGED <<hostsFile, late, changedLate, hostsAdds, userLines, added>>

HostsStep(p) ==
  \/ AddHosts(p) \/ CreateBackup(p) \/ LockBackup(p) \/ CopyBackup(p)
  \/ RemoveHosts(p) \/ OpenMain(p) \/ UpdateFails(p) \/ CloseBackup(p)
  \/ Truncate(p) \/ Write(p) \/ StopHosts(p)

HostsNext ==
  \/ \E p \in HostsProcesses : HostsStep(p)
  \/ \E l \in Edits : Edit(l)
  \/ ASecond

HostsSpec == HostsInit /\ [][HostsNext]_hostsVars

-----------------------------------------------------------------------------
HostsTypeOK ==
  /\ hostsFile \in Seq(HostsLine) /\ userLines \in Seq(HostsLine)
  /\ hostsLock \in HostsProcesses \cup {Nobody}
  /\ backup \in [exists : BOOLEAN, lines : Seq(HostsLine), lock : HostsProcesses \cup {Nobody}]
  /\ hostsTask \in [HostsProcesses ->
       [pc : {"idle", "backup", "lock", "copy", "truncate", "write", "open", "close"},
        lines : Seq(HostsLine), bak : BOOLEAN, remove : BOOLEAN]]
  /\ late \in BOOLEAN /\ changedLate \in BOOLEAN /\ added \in BOOLEAN
  /\ hostsStops \in Nat /\ hostsAdds \in Nat
  /\ mishaps \subseteq Mishaps

\* When nothing is in progress and nothing is set up, the file holds the user's lines, those
\* that he added meanwhile among them (RemoveHosts), whatever was set up, stopped, failed and
\* reverted before.  Excused: a stop while a file was being written, two processes that met at
\* a lock, and an edit within a second of the backup.
UserLinesReturn ==
  (\A p \in HostsProcesses : HostsAt(p, "idle")) /\ ~backup.exists
    => mishaps # {} \/ hostsFile = userLines
=============================================================================
