------------------------------ MODULE MCHostPC ------------------------------
(***************************************************************************)
(* One TLC instance for the parts of a PC that the launcher's programs     *)
(* change one apart from the other: a behaviour is one of a single part,   *)
(* chosen at first, and the variables of the others keep a value that Init *)
(* gives them.                                                             *)
(***************************************************************************)
EXTENDS Hosts, PidLock, BattleServers, Config, AdminAgent, Connection

CONSTANT Parts

VARIABLE part

vars == <<part, hostsVars, pidVars, battleVars, configVars, adminVars, conVars>>

\* The hosts file of the user: nothing, a host of the game that goes to the server already, one
\* that goes elsewhere on a line with another, the PC's own name with one of the game's, and a
\* comment before a line with more hosts than the limit.
HostsFiles ==
  {<<>>, <<UserLine(ServerIp, <<"g1">>)>>, <<UserLine("other", <<"g1", "own">>)>>,
   <<UserLine("other", <<"me">>), UserLine(ServerIp, <<"me", "g2">>)>>,
   <<Line("none", <<>>, FALSE, TRUE), UserLine("other", <<"own", "g2", "more">>)>>}

\* Each machine has one address.
Addresses == [m \in Machines |-> {m}]

HostsEdits == {UserLine("other", <<"g2">>)}

Init ==
  /\ part \in Parts
  /\ HostsInit /\ PidInit /\ BattleInit /\ ConfigInit /\ AdminInit /\ ConInit
  /\ part # "hosts" => hostsFile = <<>>
  /\ part # "battle" => servers = <<>>
  /\ part # "config" => \A i \in Folders : dirs[i].active = "own"
  /\ part # "connection" =>
       /\ ConAt("host") /\ trusted = {}
       /\ \A m \in Machines : runs[m] = 0
       /\ \A d \in Domains : mapping[d] = {}

Others(p) ==
  /\ part = p /\ UNCHANGED part
  /\ p = "hosts" \/ UNCHANGED hostsVars
  /\ p = "pid" \/ UNCHANGED pidVars
  /\ p = "battle" \/ UNCHANGED battleVars
  /\ p = "config" \/ UNCHANGED configVars
  /\ p = "admin" \/ UNCHANGED adminVars
  /\ p = "connection" \/ UNCHANGED conVars

Next ==
  \/ Others("hosts") /\ HostsNext
  \/ Others("pid") /\ PidNext
  \/ Others("battle") /\ BattleNext
  \/ Others("config") /\ ConfigNext
  \/ Others("admin") /\ AdminNext
  \/ Others("connection") /\ ConNext

Spec == Init /\ [][Next]_vars

\* The variables of every part keep their types.
TypeOK == HostsTypeOK /\ PidTypeOK /\ BattleTypeOK /\ ConfigTypeOK /\ AdminTypeOK /\ ConTypeOK
=============================================================================
