----------------------------- MODULE Connection -----------------------------
(***************************************************************************)
(* How the launcher gets from its options to a game that talks to one LAN  *)
(* server: it looks for the servers that are announced, asks the host it   *)
(* was given, or starts a server (launcher/internal/server, cmdUtils and   *)
(* cmd/root.go); reads that server's certificate; maps the domains of the  *)
(* game to its address (MapHosts); has the certificate trusted (AddCert);  *)
(* and checks every domain before the game is launched.                    *)
(*                                                                         *)
(* The addresses of a domain are cached for the process (common/           *)
(* resolve.go), and the set-ups, which other processes carry out, clear    *)
(* that cache.  Servers come and go at their addresses meanwhile, with a   *)
(* new identity each time, and the user edits the hosts file.  Hosts has   *)
(* the hosts file itself, Launcher what is undone when the launch fails.   *)
(***************************************************************************)
EXTENDS Naturals, FiniteSets

CONSTANTS
  Domains,         \* the domains of the game (common.AllHosts)
  Machines, ThisPC,
  AddressesOf,     \* the addresses of every machine
  Official,        \* the address that a domain has on the Internet
  MaxRuns,         \* bound: the servers that run, one after the other
  MaxDisturbances  \* bound: servers stopped or started by others, and edits of the user

ASSUME ConnectionAssumption == ThisPC \in Machines /\ MaxRuns \in Nat \ {0}

VARIABLES
  runs,     \* the server that runs on a machine: its Id, 0 for none
  lastRun,  \* the Ids given
  mapping,  \* the addresses that the hosts file has for a domain
  trusted,  \* the machines whose certificate the PC trusts
  cache,    \* hostToIps: {} for a domain that is not in it
  con,      \* the launcher
  edited,   \* history: the domains that the user changed after they were cached
  moved,    \* history: the domains not checked since a server came or went
  disturbances

conVars == <<runs, lastRun, mapping, trusted, cache, con, edited, moved, disturbances>>

Ips == UNION {AddressesOf[m] : m \in Machines}
MachineOf(a) == CHOOSE m \in Machines : a \in AddressesOf[m]

\* id is 0 where the code has uuid.Nil, which every server agrees with.
NilId == 0
NoCert == "none"
Unset == [id |-> NilId, ip |-> Official, cert |-> NoCert, found |-> {}, left |-> {}, fix |-> FALSE,
          own |-> FALSE]

\* Server.Start: "auto", "true", "false".  The other options (initConfig) are chosen where they
\* are first asked for; own is set if the game has a hosts file or a certificate of its own.
StartPcs == {"query", "start", "host"}

ConInit ==
  /\ runs \in [Machines -> {0}] \cup {[m \in Machines |-> IF m = n THEN 1 ELSE 0] : n \in Machines}
  /\ lastRun = 1
  /\ mapping \in [Domains -> SUBSET Ips]
  /\ trusted \in SUBSET Machines
  /\ cache = [d \in Domains |-> {}]
  /\ \E start \in StartPcs : con = [pc |-> start, now |-> Unset]
  /\ edited = {} /\ moved = {} /\ disturbances = 0

ConAt(pc) == con.pc = pc
Now == con.now
GoOn(pc, now) == con' = [con EXCEPT !.pc = pc, !.now = now]
Fails == con' = [con EXCEPT !.pc = "failed"]

world == <<runs, lastRun, mapping, trusted, disturbances>>
seen == <<cache, edited, moved>>

-----------------------------------------------------------------------------
\* Addresses and the servers behind them

ServerAt(a) == IF a = Official THEN 0 ELSE runs[MachineOf(a)]

\* LanServerIP, without the check of the certificate.
LanServerIP(id, a) == ServerAt(a) # 0 /\ id \in {NilId, ServerAt(a)}

\* The system's resolver: the hosts file first.
domainToIps(d) == IF mapping[d] # {} THEN mapping[d] ELSE {Official}

\* One that is not cached may find nobody to resolve it, which is not remembered.
HostOrIpToIps(d) ==
  IF cache[d] # {} THEN {cache[d]}
  ELSE {domainToIps(d)} \cup (IF mapping[d] = {} THEN {{}} ELSE {})

CacheMapping(d, ips) ==
  /\ cache' = [cache EXCEPT ![d] = ips]
  /\ edited' = IF cache[d] = {} THEN edited \ {d} ELSE edited

\* Mutant: what was resolved before a set-up is used after it.
KeepDNSCache == UNCHANGED <<cache, edited>>

ClearDNSCache == cache' = [d \in Domains |-> {}] /\ edited' = {}

\* connectToServer, whatever the certificate, and with one that is trusted.
Reachable(a) == IF a = Official THEN TRUE ELSE ServerAt(a) # 0
CheckConnection(a) == IF a = Official THEN TRUE ELSE Reachable(a) /\ MachineOf(a) \in trusted

\* ReadCACertificateFromServer: no other server has the path.
CertAt(a) == IF ServerAt(a) = 0 THEN NoCert ELSE MachineOf(a)

LanServerHost(id, ips) == ips # {} /\ \A a \in ips : LanServerIP(id, a) /\ CheckConnection(a)

-----------------------------------------------------------------------------
\* The server

\* Answers are lost; several addresses of a server answer.
QueryServers ==
  /\ ConAt("query")
  /\ \E found \in SUBSET {a \in Ips : ServerAt(a) # 0} :
       GoOn("choose", [Now EXCEPT !.found = {[ip |-> a, id |-> ServerAt(a)] : a \in found}])
  /\ UNCHANGED <<world, seen>>

\* processedServers, and the choice of the user: the ones that still answer by the same Id.
SelectBestIpAddr ==
  /\ ConAt("choose")
  /\ LET processed == {s \in Now.found : LanServerIP(s.id, s.ip)} IN
     IF processed = {} THEN GoOn("start", Unset)
     ELSE \E s \in processed : GoOn("cert", [Unset EXCEPT !.id = s.id, !.ip = s.ip])
  /\ UNCHANGED <<world, seen>>

\* FilterServerIPs: the address is of those that answer, the Id that of the last one tried.
ResolveServerHost ==
  /\ ConAt("host")
  /\ \E possible \in SUBSET Ips :
       LET measured == {a \in possible : LanServerIP(NilId, a)} IN
       IF measured = {} THEN Fails
       ELSE \E a \in measured, last \in possible :
              GoOn("cert", [Unset EXCEPT !.ip = a, !.id = ServerAt(last)])
  /\ UNCHANGED <<world, seen>>

\* The PC trusted the old ones at most.
GenerateCertificatePair == trusted' = trusted \ {ThisPC}

\* Certificates that are missing, or expire soon, are made anew if they may be trusted.
GenerateServerCertificates ==
  /\ ConAt("start")
  /\ \/ GoOn("launch", Now) /\ (GenerateCertificatePair \/ UNCHANGED trusted)
     \/ Fails /\ UNCHANGED trusted
  /\ UNCHANGED <<runs, lastRun, mapping, disturbances, seen>>

\* The process of a server that finds the PID lock taken ends, and then the one that has it is
\* killed for it.
StartsServer ==
  /\ ConAt("launch")
  /\ \/ Fails /\ UNCHANGED <<runs, lastRun, moved>>
     \/ /\ runs[ThisPC] # 0
        /\ runs' = [runs EXCEPT ![ThisPC] = 0] /\ moved' = Domains
        /\ Fails /\ UNCHANGED lastRun
     \/ /\ runs[ThisPC] = 0 /\ lastRun < MaxRuns
        /\ lastRun' = lastRun + 1 /\ runs' = [runs EXCEPT ![ThisPC] = lastRun + 1]
        /\ moved' = Domains
        /\ GoOn("wait", [Unset EXCEPT !.id = lastRun + 1])
  /\ UNCHANGED <<mapping, trusted, cache, edited, disturbances>>

\* It answers at an address of the PC; or it does not in time, and is killed.
AwaitServer ==
  /\ ConAt("wait")
  /\ \/ /\ runs[ThisPC] = Now.id
        /\ \E a \in AddressesOf[ThisPC] : GoOn("cert", [Now EXCEPT !.ip = a])
        /\ UNCHANGED <<runs, moved>>
     \/ /\ runs' = [runs EXCEPT ![ThisPC] = 0] /\ moved' = Domains
        /\ Fails
  /\ UNCHANGED <<lastRun, mapping, trusted, cache, edited, disturbances>>

ReadCACertificate ==
  /\ ConAt("cert")
  /\ IF CertAt(Now.ip) = NoCert THEN Fails
     ELSE \E own \in BOOLEAN :
            GoOn(IF own THEN "saveHosts" ELSE "map",
                 [Now EXCEPT !.cert = CertAt(Now.ip), !.left = Domains, !.own = own])
  /\ UNCHANGED <<world, seen>>

-----------------------------------------------------------------------------
\* MapHosts

\* Onward in a loop over the domains, or to what follows it if something must be fixed or not.
NextDomain(d, fix, toFix, after) ==
  LET left == Now.left \ {d} IN
  IF left # {} THEN GoOn(con.pc, [Now EXCEPT !.left = left, !.fix = fix])
  ELSE GoOn(IF fix THEN toFix ELSE after, [Now EXCEPT !.left = Domains, !.fix = FALSE])

\* Unless it may not be mapped.
MatchHost(d) ==
  /\ ConAt("map") /\ d \in Now.left
  /\ \E ips \in HostOrIpToIps(d) :
       /\ CacheMapping(d, ips)
       /\ IF Now.ip \notin ips THEN NextDomain(d, TRUE, "hosts", "cached") \/ Fails
          ELSE \E a \in ips :
                 IF Reachable(a) THEN NextDomain(d, Now.fix, "hosts", "cached") ELSE Fails
  /\ UNCHANGED <<world, moved>>

\* AddHosts: a line of the user's that maps a domain to the server already is commented out, and
\* the others stay.
Mapped(ip) ==
  IF \A d \in Domains : ip \in mapping[d] THEN mapping
  ELSE [d \in Domains |-> IF ip \in mapping[d] THEN mapping[d] \ {ip} ELSE mapping[d] \cup {ip}]

\* RunSetUp with the address; one that fails may have changed the file.
RunSetUpHosts ==
  /\ ConAt("hosts")
  /\ mapping' \in {mapping, Mapped(Now.ip)}
  /\ \/ GoOn("cached", Now) /\ mapping' = Mapped(Now.ip)
     \/ Fails
  /\ ClearDNSCache
  /\ UNCHANGED <<runs, lastRun, trusted, disturbances, moved>>

\* A hosts file for the game alone: the launcher sees the domains as the game will.
SaveHosts ==
  /\ ConAt("saveHosts")
  /\ \/ /\ GoOn("cached", Now)
        /\ cache' = [d \in Domains |-> {Now.ip}] /\ edited' = {}
     \/ Fails /\ ClearDNSCache
  /\ UNCHANGED <<world, moved>>

-----------------------------------------------------------------------------
\* AddCert

\* The domains are not checked for a game with a certificate of its own.
BeginAddCert ==
  /\ ConAt("cached")
  /\ GoOn("check", Now) \/ GoOn("saveCert", [Now EXCEPT !.own = TRUE])
  /\ UNCHANGED <<world, seen>>

\* checkCertMatch, for one domain.  A connection takes any of its addresses.
CheckCertMatch(d) ==
  /\ ConAt("check") /\ d \in Now.left
  /\ \E ips \in HostOrIpToIps(d) :
       /\ CacheMapping(d, ips)
       /\ IF ips = {} THEN Fails /\ UNCHANGED moved
          ELSE \E a, b \in ips :
            IF CertAt(b) # Now.cert THEN Fails /\ UNCHANGED moved
            ELSE IF ~CheckConnection(a)
            THEN UNCHANGED moved /\ (NextDomain(d, TRUE, "addCert", "ready") \/ Fails)
            ELSE IF ~LanServerHost(Now.id, ips) THEN Fails /\ UNCHANGED moved
            ELSE NextDomain(d, Now.fix, "addCert", "ready") /\ moved' = moved \ {d}
  /\ UNCHANGED world

\* RunSetUp with the certificate, in a file of the game's, or for the PC.
SaveCert ==
  /\ ConAt("saveCert")
  /\ Fails \/ GoOn("ready", Now)
  /\ UNCHANGED <<world, seen>>

RunSetUpCert ==
  /\ ConAt("addCert")
  /\ \/ Fails /\ trusted' \in {trusted, trusted \cup {Now.cert}}
     \/ GoOn("verify", Now) /\ trusted' = trusted \cup {Now.cert}
  /\ UNCHANGED <<runs, lastRun, mapping, disturbances, seen>>

\* Every domain must be trusted by now, and lead to the server.
VerifyHost(d) ==
  /\ ConAt("verify") /\ d \in Now.left
  /\ \E ips \in HostOrIpToIps(d) :
       /\ CacheMapping(d, ips)
       /\ IF (\E a \in ips : CheckConnection(a)) /\ LanServerHost(Now.id, ips)
          THEN NextDomain(d, FALSE, "ready", "ready") /\ moved' = moved \ {d}
          ELSE Fails /\ UNCHANGED moved
  /\ UNCHANGED world

-----------------------------------------------------------------------------
\* What others do meanwhile

Disturbed ==
  /\ ~ConAt("ready") /\ ~ConAt("failed") /\ disturbances < MaxDisturbances
  /\ disturbances' = disturbances + 1

ServerStops(m) ==
  /\ Disturbed /\ runs[m] # 0
  /\ runs' = [runs EXCEPT ![m] = 0]
  /\ moved' = Domains
  /\ UNCHANGED <<lastRun, mapping, trusted, cache, con, edited>>

ServerStarts(m) ==
  /\ Disturbed /\ runs[m] = 0 /\ lastRun < MaxRuns
  /\ lastRun' = lastRun + 1 /\ runs' = [runs EXCEPT ![m] = lastRun + 1]
  /\ moved' = Domains
  /\ UNCHANGED <<mapping, trusted, cache, con, edited>>

UserEdits(d) ==
  /\ Disturbed
  /\ \E ips \in (SUBSET Ips) \ {mapping[d]} : mapping' = [mapping EXCEPT ![d] = ips]
  /\ edited' = edited \cup {d}
  /\ UNCHANGED <<runs, lastRun, trusted, cache, con, moved>>

ConNext ==
  \/ QueryServers \/ SelectBestIpAddr \/ ResolveServerHost
  \/ GenerateServerCertificates \/ StartsServer \/ AwaitServer
  \/ ReadCACertificate \/ RunSetUpHosts \/ SaveHosts \/ BeginAddCert \/ SaveCert \/ RunSetUpCert
  \/ \E d \in Domains : MatchHost(d) \/ CheckCertMatch(d) \/ VerifyHost(d) \/ UserEdits(d)
  \/ \E m \in Machines : ServerStops(m) \/ ServerStarts(m)

ConSpec == ConInit /\ [][ConNext]_conVars

-----------------------------------------------------------------------------
RunIds == 0 .. MaxRuns

ConPcs ==
  {"query", "choose", "host", "start", "launch", "wait", "cert", "map", "hosts", "saveHosts",
   "cached", "check", "addCert", "saveCert", "verify", "ready", "failed"}

ConRecords ==
  [id : RunIds, ip : Ips \cup {Official}, cert : Machines \cup {NoCert},
   found : SUBSET [ip : Ips, id : RunIds], left : SUBSET Domains, fix : BOOLEAN, own : BOOLEAN]

ConTypeOK ==
  /\ runs \in [Machines -> RunIds] /\ lastRun \in RunIds
  /\ mapping \in [Domains -> SUBSET Ips]
  /\ trusted \subseteq Machines
  /\ cache \in [Domains -> SUBSET (Ips \cup {Official})]
  /\ con \in [pc : ConPcs, now : ConRecords]
  /\ edited \subseteq Domains /\ moved \subseteq Domains

\* When the game is launched, every address that a domain of the game has on the PC by then is
\* one at which the chosen server runs, under a certificate that the PC trusts: through the
\* cache, the hosts file that two programs rewrite, and a server's restarts (MapHosts, AddCert,
\* LanServerHost).  Excused are a domain that the user changed after it was resolved, one that
\* was checked before a server came or went, and the files that only the game reads.
LaunchReachesServer ==
  ConAt("ready") /\ ~Now.own =>
    \A d \in Domains \ (edited \cup moved) :
      \A a \in domainToIps(d) : LanServerIP(Now.id, a) /\ CertAt(a) \in trusted
=============================================================================
